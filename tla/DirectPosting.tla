--------------------------- MODULE DirectPosting ---------------------------
(* One queue row posted directly, without a durable attempt: postTransaction, *)
(* undoPost and retryError (writeback.ts), the categorize route, the sweep of *)
(* stuck rows (jobs/scheduler.ts) and the steps of sync that touch the row    *)
(* (sync.ts), against QuickBooks and the people who edit the entity there.    *)
(* No lease and no revision guards these handlers, only the row's status and  *)
(* the SyncToken QuickBooks compares.                                         *)
EXTENDS Naturals, FiniteSets

CONSTANTS
  Calls,        \* handlers that may run at the same time
  Categories,   \* accounts a row can be categorized to
  Amounts,      \* totals of the holding lines
  Kinds,        \* which handlers a run lets start
  Switch,       \* values the dry-run switch can be moved to
  MaxToken,     \* bound: versions of the entity in QuickBooks
  None

Held == "held"            \* the entity is on the holding account
Elsewhere == "elsewhere"  \* moved by somebody, or deleted

ASSUME BoundsAssumption ==
  /\ MaxToken \in Nat
  /\ None \notin Categories \cup {Held, Elsewhere}
  /\ Categories \cap {Held, Elsewhere} = {}
  /\ Switch \subseteq BOOLEAN

VARIABLES
  txn,      \* the row: status, qboSyncToken, category, amount; old: updatedAt is 5 minutes back
  qbo,      \* the entity: where its lines are, its total, SyncToken, and who wrote it
  wire,     \* the request of each call that QuickBooks has not handled
  answer,   \* what QuickBooks answered each call
  dryRun,   \* company.dryRun or the environment's
  pc,       \* where each handler stands
  seen      \* its locals: the row as read, then amount and version of the entity as
            \* read; again: the second try of a post, or an undo that has written

rowVars == <<txn, dryRun>>
netVars == <<wire, answer>>
vars == <<txn, qbo, wire, answer, dryRun, pc, seen>>

----------------------------------------------------------------------------
Tokens == 0..MaxToken
Status == {"PENDING", "POSTING", "POSTED", "ERROR", "DRY_RUN", "SUPERSEDED"}
Places == Categories \cup {Held, Elsewhere}

Request == [op : {"post", "undo"}, base : Tokens, at : Places, amount : Amounts]
NoAnswer == [kind |-> "none", token |-> 0]
Outcomes == {"none", "ok", "conflict"}

\* Where a handler of each kind can stand between two of its steps.
PostStops == {"read", "claim", "fetch", "send", "await", "refetch"}
UndoStops == {"undoFetch", "undoSend", "undoAwait", "classify"}
OtherStops == {"retryFetch", "stage", "mirror", "openRow", "supersede", "autoStage"}
Settlements == {"superseded", "refused", "dryRun", "requeued", "failed", "posted",
                "undone", "retried", "dropped"}
Stops == {"idle"} \cup PostStops \cup UndoStops \cup OtherStops \cup Settlements

Locals == [cat : Categories \cup {None}, amount : Amounts, version : Tokens,
           dry : BOOLEAN, again : BOOLEAN]

TypeOK ==
  /\ txn \in [status : Status, token : Tokens, cat : Categories \cup {None},
              amount : Amounts, old : BOOLEAN]
  /\ qbo \in [at : Places, amount : Amounts, token : Tokens, by : {"outside", "post", "undo"}]
  /\ wire \in [Calls -> Request \cup {None}]
  /\ answer \in [Calls -> [kind : Outcomes, token : Tokens]]
  /\ dryRun \in BOOLEAN
  /\ pc \in [Calls -> Stops]
  /\ seen \in [Calls -> Locals]

\* What a handler that is over knows.
Blank == [cat |-> None, amount |-> CHOOSE a \in Amounts : TRUE, version |-> 0,
          dry |-> FALSE, again |-> FALSE]

\* A row sync has just created for an entity on the holding account, or one
\* that was posted some time ago.
Init ==
  \E amount \in Amounts, posted \in BOOLEAN, cat \in Categories :
    /\ txn = [status |-> IF posted THEN "POSTED" ELSE "PENDING", token |-> 0,
              cat |-> IF posted THEN cat ELSE None, amount |-> amount, old |-> FALSE]
    /\ qbo = [at |-> IF posted THEN cat ELSE Held, amount |-> amount, token |-> 0,
              by |-> IF posted THEN "post" ELSE "outside"]
    /\ wire = [c \in Calls |-> None]
    /\ answer = [c \in Calls |-> NoAnswer]
    /\ dryRun = FALSE
    /\ pc = [c \in Calls |-> "idle"]
    /\ seen = [c \in Calls |-> Blank]

----------------------------------------------------------------------------
Go(c, stop) == pc' = [pc EXCEPT ![c] = stop]

\* The handler is over, or its process dead; nobody waits for an answer any more.
Leave(c) ==
  /\ Go(c, "idle")
  /\ seen' = [seen EXCEPT ![c] = Blank]

\* The handler reads the row.
Reads(c) ==
  seen' = [seen EXCEPT ![c] = [cat |-> txn.cat, amount |-> txn.amount, version |-> txn.token,
                               dry |-> dryRun, again |-> FALSE]]

\* The handler turns to a step that needs this version and amount and nothing else.
Turn(c, stop, version, amount) ==
  /\ Go(c, stop)
  /\ seen' = [seen EXCEPT ![c] = [Blank EXCEPT !.version = version, !.amount = amount]]
Fail(c) == Turn(c, "failed", Blank.version, Blank.amount)

\* The handler has its answer, or waits no longer for one.
Forget(c) == answer' = [answer EXCEPT ![c] = NoAnswer]

\* A row update; it sets updatedAt.
Update(row) == txn' = [row EXCEPT !.old = FALSE]

\* A request goes out: it replaces the version the handler has read.
Send(c, op, place) ==
  /\ wire[c] = None
  /\ wire' = [wire EXCEPT ![c] = [op |-> op, base |-> seen[c].version, at |-> place,
                                  amount |-> seen[c].amount]]
  /\ UNCHANGED answer

----------------------------------------------------------------------------
(* postTransaction                                                           *)

\* The first read and the guards that come before the row is touched.
PostRead(c) ==
  /\ \/ pc[c] = "idle" /\ "post" \in Kinds
     \/ pc[c] = "read"
  /\ IF txn.status \in {"PENDING", "ERROR"} /\ txn.cat # None
     THEN Go(c, "claim") /\ Reads(c)
     ELSE pc[c] = "read" /\ Leave(c)
  /\ UNCHANGED <<rowVars, qbo, netVars>>

\* Compare-and-swap into POSTING.
PostClaim(c) ==
  /\ pc[c] = "claim"
  /\ IF txn.status \in {"PENDING", "ERROR"}
     THEN Update([txn EXCEPT !.status = "POSTING"]) /\ Go(c, "fetch") /\ UNCHANGED seen
     ELSE Leave(c) /\ UNCHANGED txn
  /\ UNCHANGED <<qbo, netVars, dryRun>>

\* Mutant: the amount is not proved again after a conflict.
PostFetchTrustingRetry(c) ==
  /\ pc[c] \in {"fetch", "refetch"}
  /\ \/ /\ qbo.at # Held
        /\ Turn(c, "superseded", Blank.version, Blank.amount)
     \/ /\ qbo.at = Held /\ qbo.amount # seen[c].amount /\ pc[c] = "fetch"
        /\ Turn(c, "refused", qbo.token, qbo.amount)
     \/ /\ qbo.at = Held /\ (qbo.amount = seen[c].amount \/ pc[c] = "refetch")
        /\ IF seen[c].dry
           THEN Turn(c, "dryRun", qbo.token, Blank.amount)
           ELSE Go(c, "send") /\ seen' = [seen EXCEPT ![c].version = qbo.token]
     \/ Fail(c)
  /\ UNCHANGED <<rowVars, qbo, netVars>>

\* The entity is read: gone from the holding account, of another amount, or fit to
\* be written. A dry run ends here; the client or the chart of accounts may fail.
PostFetch(c) ==
  /\ pc[c] \in {"fetch", "refetch"}
  /\ \/ /\ qbo.at # Held
        /\ Turn(c, "superseded", Blank.version, Blank.amount)
     \/ /\ qbo.at = Held /\ qbo.amount # seen[c].amount
        /\ Turn(c, "refused", qbo.token, qbo.amount)
     \/ /\ qbo.at = Held /\ qbo.amount = seen[c].amount
        /\ IF seen[c].dry
           THEN Turn(c, "dryRun", qbo.token, Blank.amount)
           ELSE Go(c, "send") /\ seen' = [seen EXCEPT ![c].version = qbo.token]
     \/ Fail(c)
  /\ UNCHANGED <<rowVars, qbo, netVars>>

\* assertTxnWriteSafety refuses and the row is queued again, or recategorize goes out.
PostSend(c) ==
  /\ pc[c] = "send"
  /\ \/ Send(c, "post", seen[c].cat) /\ Go(c, "await")
        /\ UNCHANGED seen
     \/ Turn(c, "requeued", Blank.version, Blank.amount) /\ UNCHANGED netVars
  /\ UNCHANGED <<rowVars, qbo>>

\* An answer; a conflict is retried once, and any other failure may hide a
\* request that was applied or still will be.
PostAnswered(c) ==
  /\ pc[c] = "await"
  /\ \/ /\ answer[c].kind = "ok"
        /\ Turn(c, "posted", answer[c].token, Blank.amount)
     \/ /\ answer[c].kind = "conflict" /\ ~seen[c].again
        /\ seen' = [seen EXCEPT ![c].again = TRUE]
        /\ Go(c, "refetch")
     \/ Fail(c)
  /\ Forget(c)
  /\ UNCHANGED <<rowVars, qbo, wire>>

----------------------------------------------------------------------------
(* undoPost and retryError                                                   *)

\* A posted row is to be taken back in QuickBooks, a dry run only in the row.
UndoRead(c) ==
  /\ pc[c] = "idle" /\ "undo" \in Kinds
  /\ \/ txn.status = "POSTED" /\ Go(c, "undoFetch") /\ Reads(c)
     \/ txn.status = "DRY_RUN" /\ Turn(c, "undone", txn.token, Blank.amount)
  /\ UNCHANGED <<rowVars, qbo, netVars>>

\* Mutant: the SyncToken of the post is not compared.
UndoFetchAnyVersion(c) ==
  /\ pc[c] = "undoFetch"
  /\ \/ /\ qbo.at = seen[c].cat /\ qbo.amount = seen[c].amount
        /\ Turn(c, "undoSend", qbo.token, qbo.amount)
     \/ Leave(c)
  /\ UNCHANGED <<rowVars, qbo, netVars>>

\* Only the version the post wrote is restored, and only its own lines.
UndoFetch(c) ==
  /\ pc[c] = "undoFetch"
  /\ \/ /\ qbo.token = seen[c].version /\ qbo.at = seen[c].cat /\ qbo.amount = seen[c].amount
        /\ Turn(c, "undoSend", qbo.token, qbo.amount)
     \/ Leave(c)
  /\ UNCHANGED <<rowVars, qbo, netVars>>

UndoSend(c) ==
  /\ pc[c] = "undoSend"
  /\ Send(c, "undo", Held)
  /\ Go(c, "undoAwait")
  /\ UNCHANGED <<rowVars, qbo, seen>>

\* The holding line is back; the row still has to follow.
Restored(c, version) ==
  /\ Go(c, "undone")
  /\ seen' = [seen EXCEPT ![c] = [Blank EXCEPT !.version = version, !.again = TRUE]]

UndoAnswered(c) ==
  /\ pc[c] = "undoAwait"
  /\ \/ /\ answer[c].kind = "ok"
        /\ Restored(c, answer[c].token)
     \/ /\ answer[c].kind = "conflict"
        /\ Leave(c)
     \/ /\ Go(c, "classify")
        /\ UNCHANGED seen
  /\ Forget(c)
  /\ UNCHANGED <<rowVars, qbo, wire>>

\* classifyLineWriteFailure: applied, not applied, or nobody knows.
Classify(c) ==
  /\ pc[c] = "classify"
  /\ \/ /\ qbo.token # seen[c].version
        /\ qbo.at = Held /\ qbo.amount = seen[c].amount
        /\ Restored(c, qbo.token)
     \/ /\ qbo.token = seen[c].version
        /\ Leave(c)
     \/ Fail(c)
  /\ UNCHANGED <<rowVars, qbo, netVars>>

RetryRead(c) ==
  /\ pc[c] = "idle" /\ "retry" \in Kinds
  /\ txn.status = "ERROR"
  /\ Go(c, "retryFetch")
  /\ UNCHANGED <<rowVars, qbo, netVars, seen>>

RetryFetch(c) ==
  /\ pc[c] = "retryFetch"
  /\ \/ qbo.at = Held /\ Turn(c, "retried", qbo.token, Blank.amount)
     \/ qbo.at # Held /\ Turn(c, "dropped", Blank.version, Blank.amount)
     \/ Leave(c)
  /\ UNCHANGED <<rowVars, qbo, netVars>>

\* What the handler writes to the row at its end: an update by id that compares nothing.
Settled(c) ==
  LET s == seen[c] IN
  CASE pc[c] \in {"superseded", "dropped"} -> [txn EXCEPT !.status = "SUPERSEDED"]
    [] pc[c] = "refused" ->
         [txn EXCEPT !.status = "ERROR", !.token = s.version, !.amount = s.amount]
    [] pc[c] = "dryRun" -> [txn EXCEPT !.status = "DRY_RUN", !.token = s.version]
    [] pc[c] = "requeued" -> [txn EXCEPT !.status = "PENDING"]
    [] pc[c] = "failed" -> [txn EXCEPT !.status = "ERROR"]
    [] pc[c] = "posted" -> [txn EXCEPT !.status = "POSTED", !.token = s.version]
    [] pc[c] \in {"undone", "retried"} -> [txn EXCEPT !.status = "PENDING", !.token = s.version]

Settle(c) ==
  /\ pc[c] \in Settlements
  /\ Update(Settled(c))
  /\ Leave(c)
  /\ UNCHANGED <<qbo, netVars, dryRun>>

\* The transaction fails: a write that QuickBooks has taken, or a claim, ends as an error.
SettleFails(c) ==
  /\ pc[c] \in Settlements \ {"failed"}
  /\ IF pc[c] \in {"retried", "dropped"} \/ (pc[c] = "undone" /\ ~seen[c].again)
     THEN Leave(c)
     ELSE Fail(c)
  /\ UNCHANGED <<rowVars, qbo, netVars>>

----------------------------------------------------------------------------
(* The categorize route, sync and the sweep.                                 *)

CategorizeRead(c) ==
  /\ pc[c] = "idle" /\ "categorize" \in Kinds
  /\ txn.status \in {"PENDING", "ERROR"}
  /\ Go(c, "stage")
  /\ UNCHANGED <<rowVars, qbo, netVars, seen>>

\* The category is set by id: the status that was read may be history.
CategorizeWrite(c) ==
  /\ pc[c] = "stage"
  /\ \E cat \in Categories \cup {None} : Update([txn EXCEPT !.cat = cat])
  /\ Leave(c)
  /\ UNCHANGED <<qbo, netVars, dryRun>>

\* Sync lists the holding account: the entity is on it, or the row is to be looked at.
ListHolding(c) ==
  /\ pc[c] = "idle" /\ "sync" \in Kinds
  /\ IF qbo.at = Held THEN Turn(c, "mirror", qbo.token, qbo.amount)
     ELSE Go(c, "openRow") /\ UNCHANGED seen
  /\ UNCHANGED <<rowVars, qbo, netVars>>

\* The mirror of the entity is refreshed, whatever the status, unless the list is stale.
Mirror(c) ==
  /\ pc[c] = "mirror"
  /\ IF seen[c].version >= txn.token
     THEN Update([txn EXCEPT !.token = seen[c].version, !.amount = seen[c].amount])
     ELSE UNCHANGED txn
  /\ IF txn.status = "PENDING" /\ txn.cat = None
     THEN Turn(c, "autoStage", txn'.token, Blank.amount)
     ELSE Leave(c)
  /\ UNCHANGED <<qbo, netVars, dryRun>>

\* A rule of autoPost stages its category on a row nobody has touched, then posts it.
AutoStage(c) ==
  /\ pc[c] = "autoStage"
  /\ \/ /\ txn.status = "PENDING" /\ txn.cat = None /\ txn.token = seen[c].version
        /\ \E cat \in Categories : Update([txn EXCEPT !.cat = cat])
        /\ Turn(c, "read", Blank.version, Blank.amount)
     \/ Leave(c) /\ UNCHANGED txn
  /\ UNCHANGED <<qbo, netVars, dryRun>>

ReadOpenRow(c) ==
  /\ pc[c] = "openRow"
  /\ IF txn.status \in {"PENDING", "ERROR"}
     THEN Turn(c, "supersede", txn.token, Blank.amount)
     ELSE Leave(c)
  /\ UNCHANGED <<rowVars, qbo, netVars>>

\* supersedeTxn: only the row that was read.
Supersede(c) ==
  /\ pc[c] = "supersede"
  /\ IF txn.status \in {"PENDING", "ERROR"} /\ txn.token = seen[c].version
     THEN Update([txn EXCEPT !.status = "SUPERSEDED"])
     ELSE UNCHANGED txn
  /\ Leave(c)
  /\ UNCHANGED <<qbo, netVars, dryRun>>

\* Five minutes pass after the last update of a row in POSTING.
Age ==
  /\ txn.status = "POSTING" /\ ~txn.old
  /\ txn' = [txn EXCEPT !.old = TRUE]
  /\ UNCHANGED <<qbo, netVars, dryRun, pc, seen>>

\* sweepStuckPosting, whose update checks status and age again.
Sweep ==
  /\ txn.status = "POSTING" /\ txn.old
  /\ Update([txn EXCEPT !.status = "ERROR"])
  /\ UNCHANGED <<qbo, netVars, dryRun, pc, seen>>

----------------------------------------------------------------------------
(* QuickBooks and the surroundings.                                          *)

\* The answer reaches the handler if it still waits.
Answer(c, a) ==
  answer' = IF pc[c] \in {"await", "undoAwait"} THEN [answer EXCEPT ![c] = a] ELSE answer

\* QuickBooks takes a request that names the present version, and refuses another.
Land(c) ==
  /\ wire[c] # None
  /\ IF wire[c].base = qbo.token
     THEN /\ qbo.token < MaxToken
          /\ qbo' = [at |-> wire[c].at, amount |-> wire[c].amount, token |-> qbo.token + 1,
                     by |-> wire[c].op]
          /\ Answer(c, [kind |-> "ok", token |-> qbo.token + 1])
     ELSE /\ Answer(c, [kind |-> "conflict", token |-> 0])
          /\ UNCHANGED qbo
  /\ wire' = [wire EXCEPT ![c] = None]
  /\ UNCHANGED <<rowVars, pc, seen>>

\* A request never arrives.
Lose(c) ==
  /\ wire[c] # None
  /\ wire' = [wire EXCEPT ![c] = None]
  /\ UNCHANGED <<rowVars, qbo, answer, pc, seen>>

\* Somebody edits the entity, or moves it off the holding account and back.
EditInQuickBooks ==
  /\ qbo.token < MaxToken
  /\ \E at \in {qbo.at, Held, Elsewhere}, amount \in Amounts :
       qbo' = [at |-> at, amount |-> amount, token |-> qbo.token + 1, by |-> "outside"]
  /\ UNCHANGED <<rowVars, netVars, pc, seen>>

ToggleDryRun ==
  /\ dryRun' \in Switch \ {dryRun}
  /\ UNCHANGED <<txn, qbo, netVars, pc, seen>>

\* The process dies; a request that has left may still land.
Crash(c) ==
  /\ pc[c] # "idle"
  /\ Leave(c)
  /\ Forget(c)
  /\ UNCHANGED <<rowVars, qbo, wire>>

Start(c) ==
  \/ UndoRead(c) \/ RetryRead(c) \/ CategorizeRead(c) \/ ListHolding(c)

Step(c) ==
  \/ PostRead(c) \/ PostClaim(c) \/ PostFetch(c) \/ PostSend(c) \/ PostAnswered(c)
  \/ UndoFetch(c) \/ UndoSend(c) \/ UndoAnswered(c) \/ Classify(c)
  \/ RetryFetch(c) \/ Settle(c) \/ SettleFails(c)
  \/ CategorizeWrite(c) \/ Mirror(c) \/ AutoStage(c) \/ ReadOpenRow(c) \/ Supersede(c)

Next ==
  \/ \E c \in Calls : Start(c) \/ Step(c) \/ Land(c) \/ Lose(c) \/ Crash(c)
  \/ Age \/ Sweep \/ EditInQuickBooks \/ ToggleDryRun

Spec == Init /\ [][Next]_vars

----------------------------------------------------------------------------
(* Properties.                                                               *)

\* A post never rewrites the total of an entity ("writing them would silently
\* rewrite the entity's total"): what it replaces is on the holding account and
\* adds up to the amount its lines were built from, edits and retries included.
PostKeepsTheTotal ==
  [][qbo'.token # qbo.token /\ qbo'.by = "post" =>
       qbo.at = Held /\ qbo'.amount = qbo.amount]_vars

\* An undo takes back a version a post wrote and no edit made since ("restoring
\* the holding line could overwrite that edit"), whatever token sync has mirrored.
UndoSparesEdits ==
  [][qbo'.token # qbo.token /\ qbo'.by = "undo" => qbo.by = "post"]_vars

\* "two racing posts (...) cannot both reach QuickBooks for the same row": what
\* the comment over the claim says, and a retry or a sweep breaks (see the README).
OnePostAtATime ==
  Cardinality({c \in Calls : pc[c] = "await"}) <= 1
=============================================================================
