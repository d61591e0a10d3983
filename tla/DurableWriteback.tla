-------------------------- MODULE DurableWriteback --------------------------
(* The durable attempts that write a categorization to one QuickBooks entity  *)
(* and undo it (server/src/services/writeback.ts), together with everything   *)
(* else that moves the same row: staging (categorization.ts), the mirror and  *)
(* superseded steps of sync (sync.ts), retryError, and QuickBooks itself.     *)
(*                                                                            *)
(* A call is one invocation of an operation; every await of the code that     *)
(* another call can slip into is a step boundary.  All calls run under the    *)
(* lease of the entity (EntityLease, reduced here to one row: who holds it    *)
(* and whether it is still live), except retryError, which takes none.        *)
(* A categorization is named by the revision it was staged at: the content of *)
(* the entity in QuickBooks is Held (still on the holding account), the       *)
(* revision written to it, or Elsewhere (moved by somebody in QuickBooks).    *)
EXTENDS Integers, FiniteSets

CONSTANTS
  Calls,        \* invocations that may overlap
  Requests,     \* request ids
  LiveRequests, \* those of autopilot jobs
  None,         \* no request, no holder
  Kinds,        \* the operations that occur
  MaxRevision,  \* bound: how often the row is staged
  MaxToken,     \* bound: QuickBooks edits stop at this SyncToken
  Switch        \* bound: the positions the dry-run switch takes

Commits == {"commit", "resume", "live", "liveResume"}   \* of a person, of the autopilot
Undos == {"undo", "undoResume"}
Writers == Commits \cup Undos
Stagers == {"stage", "mirror", "supersede"}             \* fenced transactions
AllKinds == Writers \cup Stagers \cup {"reconcile", "retry"}

ASSUME NoneAssumption == None \notin Calls \cup Requests
ASSUME LiveAssumption == LiveRequests \subseteq Requests
ASSUME KindsAssumption == Kinds \subseteq AllKinds
ASSUME BoundsAssumption ==
  MaxRevision \in Nat \ {0} /\ MaxToken \in Nat \ {0} /\ Switch \subseteq BOOLEAN

Held == 0
Elsewhere == -1
Contents == -1 .. MaxRevision
Tokens == Nat

VARIABLES
  txn,      \* the row: status, revision, SyncToken mirrored from QuickBooks
  attempt,  \* attempt[r]: the QboMutationAttempt of request r
  qbo,      \* the entity in QuickBooks: content and SyncToken
  wire,     \* requests sent and not yet processed
  landed,   \* requests QuickBooks has applied
  sends,    \* sends[r]: how often r was sent
  lease,    \* the lease row: holder, and whether it has time left
  dryRun,   \* company.dryRun || envDryRun
  auth,     \* auth[r]: the call that owns the autopilot job of r
  pc,       \* pc[c]: the step call c takes next
  kind,     \* kind[c]: its operation
  req,      \* req[c]: the request it is about
  rev,      \* rev[c]: the revision its caller expects
  seen,     \* seen[c]: status and token of the row it loaded
  got       \* got[c]: the SyncToken it last read from QuickBooks

dbVars == <<txn, attempt>>
qboVars == <<qbo, wire, landed, sends>>
localVars == <<kind, req, rev, seen, got>>
vars == <<txn, attempt, qbo, wire, landed, sends, lease, dryRun, auth, pc, kind, req, rev, seen, got>>

RowStatus == {"PENDING", "POSTED", "REVERTED", "ERROR", "DRY_RUN", "SUPERSEDED"}
AttemptStatus == {"NONE", "PREPARED", "COMMITTING", "UNCERTAIN", "VERIFIED",
                  "UNCHANGED", "RETRYABLE", "FAILED", "DRY_RUN"}
Active == {"PREPARED", "COMMITTING", "UNCERTAIN"}
Unresolved == {"COMMITTING", "UNCERTAIN"}
Steps == {"idle", "row", "acquire", "find", "load", "dry", "prepare", "persist",
          "renew", "reload", "prove", "renewStage", "transition", "giveUp", "send",
          "sent", "readback", "verified", "unchanged", "mismatch", "uncertain",
          "fence", "cas", "commitStage", "release", "barrier", "fetch", "requeue", "drop"}

NoAttempt == [status |-> "NONE", op |-> "recategorize", rev |-> 0, token |-> 0,
              before |-> Held, target |-> Held]
Unread == [status |-> "PENDING", token |-> 0]

TypeOK ==
  /\ txn \in [status : RowStatus, revision : 1 .. MaxRevision, token : Tokens]
  /\ attempt \in [Requests -> [status : AttemptStatus, op : {"recategorize", "restore"},
                                rev : 0 .. MaxRevision, token : Tokens,
                                before : Contents, target : Contents]]
  /\ qbo \in [content : Contents, token : Tokens]
  /\ wire \subseteq Requests /\ landed \subseteq Requests
  /\ sends \in [Requests -> 0 .. 1]
  /\ lease \in [holder : Calls \cup {None}, live : BOOLEAN]
  /\ dryRun \in BOOLEAN
  /\ auth \in [Requests -> Calls \cup {None}]
  /\ pc \in [Calls -> Steps]
  /\ kind \in [Calls -> AllKinds]
  /\ req \in [Calls -> Requests \cup {None}]
  /\ rev \in [Calls -> 0 .. MaxRevision]
  /\ seen \in [Calls -> [status : RowStatus, token : Tokens]]
  /\ got \in [Calls -> Tokens]

\* A row staged once and never written: where the durable path begins.
Init ==
  /\ txn = [status |-> "PENDING", revision |-> 1, token |-> 1]
  /\ attempt = [r \in Requests |-> NoAttempt]
  /\ qbo = [content |-> Held, token |-> 1]
  /\ wire = {} /\ landed = {}
  /\ sends = [r \in Requests |-> 0]
  /\ lease = [holder |-> None, live |-> FALSE]
  /\ dryRun = FALSE
  /\ auth = [r \in Requests |-> None]
  /\ pc = [c \in Calls |-> "idle"]
  /\ kind = [c \in Calls |-> "commit"]
  /\ req = [c \in Calls |-> None]
  /\ rev = [c \in Calls |-> 0]
  /\ seen = [c \in Calls |-> Unread]
  /\ got = [c \in Calls |-> 0]

----------------------------------------------------------------------------
(* Shared pieces.                                                            *)

\* c goes on to step p of its operation.
Go(c, p) == pc' = [pc EXCEPT ![c] = p]

\* c is at step p, running one of the operations ks.
At(c, p, ks) == pc[c] = p /\ kind[c] \in ks

\* c returns or throws: only the release of its lease is left.
Leave(c) ==
  /\ Go(c, "release")
  /\ kind' = [kind EXCEPT ![c] = "commit"]
  /\ req' = [req EXCEPT ![c] = None]
  /\ rev' = [rev EXCEPT ![c] = 0]
  /\ seen' = [seen EXCEPT ![c] = Unread]
  /\ got' = [got EXCEPT ![c] = 0]

\* The same, for a call that holds no lease.
End(c) ==
  /\ Go(c, "idle")
  /\ kind' = [kind EXCEPT ![c] = "commit"]
  /\ req' = [req EXCEPT ![c] = None]
  /\ rev' = [rev EXCEPT ![c] = 0]
  /\ seen' = [seen EXCEPT ![c] = Unread]
  /\ got' = [got EXCEPT ![c] = 0]

\* A fenced transaction keeps the lease row, a staging one also the row itself.
LeaseRowFree == \A c \in Calls : pc[c] \notin {"cas", "commitStage"}
RowFree == \A c \in Calls : pc[c] # "commitStage"

\* renewEntityLease: only the holder, and only in time.
CanRenew(c) == lease.holder = c /\ lease.live

NoneActive == \A r \in Requests : attempt[r].status \notin Active

\* The partial unique index: r may become active.
NoOtherActive(r) == \A q \in Requests \ {r} : attempt[q].status \notin Active

SetStatus(r, s) == attempt' = [attempt EXCEPT ![r].status = s]

\* The row still is the one c loaded, at the revision of its attempt.
Bound(c) ==
  /\ txn.token = seen[c].token
  /\ txn.status = seen[c].status
  /\ txn.revision = attempt[req[c]].rev

\* The status a commit or an undo starts from.
StartStatus(op) == IF op = "restore" THEN "POSTED" ELSE "PENDING"

\* Mutant: a verified restore leaves the row posted.
EndStatusPosted(op) == "POSTED"

\* The status a verified one ends in.
EndStatus(op) == IF op = "restore" THEN "REVERTED" ELSE "POSTED"

\* allowedStatusesForAttempt, for an attempt that may have been written.
Reconcilable(op) ==
  IF op = "restore" THEN {"POSTED", "ERROR", "SUPERSEDED"}
  ELSE {"PENDING", "ERROR", "SUPERSEDED"}

\* The recategorization an undo takes back.
Source(r) == attempt[r].op = "recategorize" /\ attempt[r].status = "VERIFIED"

----------------------------------------------------------------------------
(* Entering and leaving a call.                                              *)

\* A caller asks for a write, an undo or a reconciliation by request id.  The
\* autopilot does so in a job it has just claimed.
Start(c) ==
  /\ pc[c] = "idle"
  /\ \E k \in Kinds \cap {"commit", "live", "undo", "reconcile"}, r \in Requests :
       /\ k = "reconcile" => attempt[r].status # "NONE"
       /\ k = "live" => r \in LiveRequests
       /\ k \in {"commit", "undo"} => r \notin LiveRequests
       /\ kind' = [kind EXCEPT ![c] = k]
       /\ req' = [req EXCEPT ![c] = r]
       /\ rev' = [rev EXCEPT ![c] = IF k \in {"commit", "live"} THEN txn.revision ELSE 0]
       /\ auth' = IF k = "live" THEN [auth EXCEPT ![r] = c] ELSE auth
  /\ Go(c, "acquire")
  /\ UNCHANGED <<dbVars, qboVars, lease, dryRun, seen, got>>

\* A person stages the row anew, having seen its present revision.
StartStage(c) ==
  /\ pc[c] = "idle" /\ "stage" \in Kinds
  /\ txn.revision < MaxRevision
  /\ kind' = [kind EXCEPT ![c] = "stage"]
  /\ rev' = [rev EXCEPT ![c] = txn.revision]
  /\ Go(c, "acquire")
  /\ UNCHANGED <<dbVars, qboVars, lease, dryRun, auth, req, seen, got>>

\* Sync lists the holding account: the entity is on it, or it is gone.
ListHolding(c) ==
  /\ pc[c] = "idle"
  /\ \/ /\ qbo.content = Held /\ "mirror" \in Kinds
        /\ kind' = [kind EXCEPT ![c] = "mirror"]
        /\ Go(c, "acquire")
     \/ /\ qbo.content # Held /\ "supersede" \in Kinds
        /\ kind' = [kind EXCEPT ![c] = "supersede"]
        /\ Go(c, "row")
  /\ got' = [got EXCEPT ![c] = qbo.token]
  /\ UNCHANGED <<dbVars, qboVars, lease, dryRun, auth, req, rev, seen>>

\* Sync reads the open rows; one that is not on its list is a candidate.
ReadOpenRow(c) ==
  /\ At(c, "row", {"supersede"})
  /\ IF txn.status \in {"PENDING", "ERROR"}
     THEN /\ Go(c, "acquire")
          /\ rev' = [rev EXCEPT ![c] = txn.revision]
          /\ seen' = [seen EXCEPT ![c] = [status |-> txn.status, token |-> txn.token]]
          /\ UNCHANGED <<kind, req, got>>
     ELSE End(c)
  /\ UNCHANGED <<dbVars, qboVars, lease, dryRun, auth>>

\* acquireEntityLease: a free or expired row is taken once nobody fences it.
Acquire(c) ==
  /\ pc[c] = "acquire"
  /\ LeaseRowFree
  /\ lease.holder = None \/ ~lease.live
  /\ lease' = [holder |-> c, live |-> TRUE]
  /\ Go(c, IF kind[c] \in Writers THEN "find"
           ELSE IF kind[c] = "reconcile" THEN "load" ELSE "fence")
  /\ UNCHANGED <<dbVars, qboVars, dryRun, auth, localVars>>

Busy(c) ==
  /\ pc[c] = "acquire"
  /\ lease.holder # None /\ lease.live
  /\ End(c)
  /\ UNCHANGED <<dbVars, qboVars, lease, dryRun, auth>>

\* The finally of withEntityLease; it removes the row of nobody else.
ReleaseLease(c) ==
  /\ pc[c] = "release"
  /\ lease' = IF lease.holder = c THEN [holder |-> None, live |-> FALSE] ELSE lease
  /\ Go(c, "idle")
  /\ UNCHANGED <<dbVars, qboVars, dryRun, auth, localVars>>

\* The process dies: locals are gone, open transactions roll back, the lease stays.
Crash(c) ==
  /\ pc[c] # "idle"
  /\ End(c)
  /\ UNCHANGED <<dbVars, qboVars, lease, dryRun, auth>>

----------------------------------------------------------------------------
(* commitStagedCategorization and undoCategorization, up to the attempt.     *)

\* Whether attempt r is the one the call means (assertRequestIdentity).
Same(r, op, revision) == attempt[r].op = op /\ attempt[r].rev = revision

\* findRequestOrConflict for a commit; the autopilot re-arms a RETRYABLE attempt
\* or gives it up for good when its job has run out of attempts.
FindCommit(c) ==
  /\ At(c, "find", {"commit", "live"})
  /\ LET r == req[c]
         a == attempt[r]
         resumed == IF kind[c] = "live" THEN "liveResume" ELSE "resume"
     IN \/ /\ a.status = "NONE"
           /\ IF NoneActive THEN Go(c, "load") /\ UNCHANGED localVars ELSE Leave(c)
           /\ UNCHANGED attempt
        \/ /\ a.status = "PREPARED" /\ Same(r, "recategorize", rev[c])
           /\ kind' = [kind EXCEPT ![c] = resumed]
           /\ Go(c, "load")
           /\ UNCHANGED <<attempt, req, rev, seen, got>>
        \/ /\ a.status = "RETRYABLE" /\ kind[c] = "live"
           /\ Same(r, "recategorize", rev[c])
           /\ \/ /\ SetStatus(r, "FAILED")
                 /\ Leave(c)
              \/ /\ NoOtherActive(r) /\ auth[r] = c
                 /\ SetStatus(r, "PREPARED")
                 /\ kind' = [kind EXCEPT ![c] = resumed]
                 /\ Go(c, "load")
                 /\ UNCHANGED <<req, rev, seen, got>>
        \/ /\ a.status # "NONE"
           /\ a.status \in {"PREPARED"} => ~Same(r, "recategorize", rev[c])
           /\ (a.status = "RETRYABLE" /\ kind[c] = "live") =>
                \/ ~Same(r, "recategorize", rev[c])
                \/ ~NoOtherActive(r)
                \/ auth[r] # c
           /\ Leave(c)
           /\ UNCHANGED attempt
  /\ UNCHANGED <<txn, qboVars, lease, dryRun, auth>>

\* The same for an undo, whose revision is that of the write it takes back.
FindUndo(c) ==
  /\ At(c, "find", {"undo"})
  /\ LET r == req[c] IN
     \/ \E s \in Requests :
          /\ Source(s)
          /\ rev' = [rev EXCEPT ![c] = attempt[s].rev]
          /\ \/ /\ attempt[r].status = "NONE" /\ NoneActive
                /\ UNCHANGED kind
             \/ /\ attempt[r].status = "PREPARED"
                /\ Same(r, "restore", attempt[s].rev)
                /\ kind' = [kind EXCEPT ![c] = "undoResume"]
          /\ Go(c, "load")
          /\ UNCHANGED <<req, seen, got>>
     \/ /\ \/ ~ \E s \in Requests : Source(s)
           \/ attempt[r].status = "NONE" /\ ~NoneActive
           \/ attempt[r].status \notin {"NONE", "PREPARED"}
           \/ attempt[r].status = "PREPARED"
              /\ \A s \in Requests : Source(s) => ~Same(r, "restore", attempt[s].rev)
        /\ Leave(c)
  /\ UNCHANGED <<dbVars, qboVars, lease, dryRun, auth>>

\* loadAuthorizedStage / loadAuthorizedAttempt: the row, and the dry-run switch,
\* which an undo does not look at.
LoadRow(c) ==
  /\ At(c, "load", Writers)
  /\ LET ready == txn.status = (IF kind[c] \in Undos THEN "POSTED" ELSE "PENDING")
                  /\ txn.revision = rev[c]
         dry == dryRun /\ kind[c] \notin Undos
         next == IF kind[c] \in {"commit", "live"} /\ dry THEN "dry"
                 ELSE IF kind[c] = "liveResume" /\ dry THEN "giveUp"
                 ELSE IF kind[c] \in {"commit", "live", "undo"} THEN "prepare" ELSE "renew"
     IN \/ /\ ready
           /\ ~(dry /\ kind[c] = "resume")
           /\ Go(c, next)
           /\ seen' = [seen EXCEPT ![c] = [status |-> txn.status, token |-> txn.token]]
           /\ UNCHANGED <<kind, req, rev, got>>
        \/ /\ ~ready /\ kind[c] \in {"resume", "liveResume"}
           /\ Go(c, "giveUp") /\ UNCHANGED localVars
        \/ /\ IF ready THEN dry /\ kind[c] = "resume"      \* held: stays PREPARED
              ELSE kind[c] \notin {"resume", "liveResume"}
           /\ Leave(c)
  /\ UNCHANGED <<dbVars, qboVars, lease, dryRun, auth>>

\* recordDryRun: the attempt and the row, which is not compared again.
RecordDryRun(c) ==
  /\ pc[c] = "dry"
  /\ RowFree
  /\ IF attempt[req[c]].status = "NONE"
     THEN /\ attempt' = [attempt EXCEPT ![req[c]] =
               [NoAttempt EXCEPT !.status = "DRY_RUN", !.rev = rev[c], !.token = seen[c].token]]
          /\ txn' = [txn EXCEPT !.status = "DRY_RUN"]
     ELSE UNCHANGED dbVars
  /\ Leave(c)
  /\ UNCHANGED <<qboVars, lease, dryRun, auth>>

\* The lease is renewed and the entity read: it must carry the token of the row
\* and the content the write replaces.
Prepare(c) ==
  /\ pc[c] = "prepare"
  /\ LeaseRowFree
  /\ IF /\ CanRenew(c)
        /\ qbo.token = seen[c].token
        /\ qbo.content = IF kind[c] = "undo" THEN rev[c] ELSE Held
     THEN Go(c, "persist") /\ UNCHANGED localVars
     ELSE Leave(c)
  /\ UNCHANGED <<dbVars, qboVars, lease, dryRun, auth>>

\* persistPrepared: the unique keys decide a race.
Persist(c) ==
  /\ pc[c] = "persist"
  /\ LET r == req[c]
         undo == kind[c] = "undo"
     IN IF attempt[r].status = "NONE" /\ NoneActive
        THEN /\ attempt' = [attempt EXCEPT ![r] =
                  [status |-> "PREPARED",
                   op |-> IF undo THEN "restore" ELSE "recategorize",
                   rev |-> rev[c], token |-> seen[c].token,
                   before |-> IF undo THEN rev[c] ELSE Held,
                   target |-> IF undo THEN Held ELSE rev[c]]]
             /\ Go(c, "renew")
             /\ UNCHANGED localVars
        ELSE UNCHANGED attempt /\ Leave(c)
  /\ UNCHANGED <<txn, qboVars, lease, dryRun, auth>>

----------------------------------------------------------------------------
(* enterCommitting: the last checks before the request may leave.            *)

\* Mutant: the facts are read again without renewing the lease first.
RenewSkipped(c) ==
  /\ pc[c] = "renew"
  /\ Go(c, "reload")
  /\ UNCHANGED <<dbVars, qboVars, lease, dryRun, auth, localVars>>

\* The renewal may wait for a staging transaction that fences the lease.
Renew(c) ==
  /\ pc[c] = "renew"
  /\ LeaseRowFree
  /\ IF CanRenew(c) THEN Go(c, "reload") /\ UNCHANGED localVars
     ELSE IF kind[c] = "reconcile" THEN Leave(c)
     ELSE Go(c, "giveUp") /\ UNCHANGED localVars
  /\ UNCHANGED <<dbVars, qboVars, lease, dryRun, auth>>

\* Only then are the facts the write rests on read again.  A first commit of a
\* person relies on QuickBooks to compare the token; all others compare it here.
Reload(c) ==
  /\ At(c, "reload", Writers)
  /\ LET a == attempt[req[c]] IN
     IF /\ txn.status = StartStatus(a.op)
        /\ txn.revision = a.rev
        /\ kind[c] # "commit" => txn.token = a.token
     THEN Go(c, "prove")
     ELSE Go(c, "giveUp")
  /\ UNCHANGED <<dbVars, qboVars, lease, dryRun, auth, localVars>>

\* The final QuickBooks proof: the entity is as it was when it was prepared.
\* The read, or the write-safety check behind it, may also fail.
Prove(c) ==
  /\ pc[c] = "prove"
  /\ LET a == attempt[req[c]] IN
     \/ /\ kind[c] # "commit" => qbo.token = a.token /\ qbo.content = a.before
        /\ Go(c, IF kind[c] = "live" THEN "renewStage" ELSE "transition")
     \/ Go(c, "giveUp")
  /\ UNCHANGED <<dbVars, qboVars, lease, dryRun, auth, localVars>>

\* The autopilot renews and reads the stage once more after that proof.
RenewStage(c) ==
  /\ pc[c] = "renewStage"
  /\ LeaseRowFree
  /\ IF /\ CanRenew(c)
        /\ txn.status = "PENDING" /\ txn.revision = attempt[req[c]].rev
     THEN Go(c, "transition")
     ELSE Go(c, "giveUp")
  /\ UNCHANGED <<dbVars, qboVars, lease, dryRun, auth, localVars>>

\* Mutant: the attempt is marked whatever its status has become.
GiveUpUnguarded(c) ==
  /\ pc[c] = "giveUp"
  /\ SetStatus(req[c], "RETRYABLE")
  /\ Leave(c)
  /\ UNCHANGED <<txn, qboVars, lease, dryRun, auth>>

\* markRetryable, or FAILED when an autopilot job is out of attempts; the
\* transition itself may fail and leave the attempt PREPARED.
GiveUp(c) ==
  /\ pc[c] = "giveUp"
  /\ \/ /\ attempt[req[c]].status = "PREPARED"
        /\ \E s \in IF kind[c] \in {"live", "liveResume"} THEN {"RETRYABLE", "FAILED"}
                    ELSE {"RETRYABLE"} : SetStatus(req[c], s)
     \/ UNCHANGED attempt
  /\ Leave(c)
  /\ UNCHANGED <<txn, qboVars, lease, dryRun, auth>>

\* PREPARED -> COMMITTING: exactly one of the calls that got here wins.  The
\* autopilot's transaction also checks its authority and the stage.
Transition(c) ==
  /\ pc[c] = "transition"
  /\ LET r == req[c] IN
     IF kind[c] \in {"live", "liveResume"}
        /\ ~(auth[r] = c /\ txn.status = "PENDING" /\ txn.revision = attempt[r].rev)
     THEN Go(c, "giveUp") /\ UNCHANGED <<attempt, localVars>>
     ELSE IF attempt[r].status = "PREPARED"
     THEN SetStatus(r, "COMMITTING") /\ Go(c, "send") /\ UNCHANGED localVars
     ELSE UNCHANGED attempt /\ Leave(c)
  /\ UNCHANGED <<txn, qboVars, lease, dryRun, auth>>

\* The transition fails: the database, or an authority the autopilot lost.
TransitionFails(c) ==
  /\ pc[c] = "transition"
  /\ \/ Go(c, "giveUp") /\ UNCHANGED <<attempt, localVars>>
     \/ /\ kind[c] \in {"live", "liveResume"}     \* LIVE_DAILY_LIMIT_REACHED
        /\ IF attempt[req[c]].status = "PREPARED"
           THEN SetStatus(req[c], "FAILED") ELSE UNCHANGED attempt
        /\ Leave(c)
  /\ UNCHANGED <<txn, qboVars, lease, dryRun, auth>>

----------------------------------------------------------------------------
(* sendAndVerifyPrepared, and QuickBooks.                                    *)

SendPrepared(c) ==
  /\ pc[c] = "send"
  /\ wire' = wire \cup {req[c]}
  /\ sends' = [sends EXCEPT ![req[c]] = @ + 1]
  /\ Go(c, "sent")
  /\ UNCHANGED <<dbVars, qbo, landed, lease, dryRun, auth, localVars>>

\* QuickBooks applies a request whose SyncToken is current, and rejects others.
Land(r) ==
  /\ r \in wire
  /\ wire' = wire \ {r}
  /\ IF attempt[r].token = qbo.token
     THEN /\ qbo' = [content |-> attempt[r].target, token |-> qbo.token + 1]
          /\ landed' = landed \cup {r}
     ELSE UNCHANGED <<qbo, landed>>
  /\ UNCHANGED <<dbVars, sends, lease, dryRun, auth, pc, localVars>>

Lose(r) ==
  /\ r \in wire
  /\ wire' = wire \ {r}
  /\ UNCHANGED <<dbVars, qbo, landed, sends, lease, dryRun, auth, pc, localVars>>

\* An answer arrives only to a request that was applied; a rejection, a
\* timeout and a lost answer look the same.
Answered(c) ==
  /\ pc[c] = "sent"
  /\ \/ req[c] \in landed /\ Go(c, "readback")
     \/ Go(c, "uncertain")
  /\ UNCHANGED <<dbVars, qboVars, lease, dryRun, auth, localVars>>

\* verifyPreparedResult over a fresh read of the entity.
Readback(c) ==
  /\ At(c, "readback", Writers)
  /\ \/ /\ qbo.content = attempt[req[c]].target
        /\ got' = [got EXCEPT ![c] = qbo.token]
        /\ Go(c, "verified")
     \/ Go(c, "uncertain") /\ UNCHANGED got
  /\ UNCHANGED <<dbVars, qboVars, lease, dryRun, auth, kind, req, rev, seen>>

----------------------------------------------------------------------------
(* The transactions that settle an attempt.  Each compares the row with the  *)
(* one the call loaded, and the attempt with the statuses it may leave.      *)

\* Where a call goes whose settling transaction was refused or failed.
Refused(c) ==
  IF kind[c] \in Writers /\ pc[c] = "verified"
  THEN Go(c, "uncertain") /\ UNCHANGED localVars
  ELSE Leave(c)

Settle(c, from, to, row) ==
  /\ RowFree
  /\ IF Bound(c) /\ attempt[req[c]].status \in from
     THEN SetStatus(req[c], to) /\ txn' = row /\ Leave(c)
     ELSE UNCHANGED dbVars /\ (IF Bound(c) THEN Leave(c) ELSE Refused(c))
  /\ UNCHANGED <<qboVars, lease, dryRun, auth>>

FinalizeVerified(c) ==
  /\ pc[c] = "verified"
  /\ Settle(c, Unresolved, "VERIFIED",
            [txn EXCEPT !.status = EndStatus(attempt[req[c]].op), !.token = got[c]])

FinalizeUnchanged(c) ==
  /\ pc[c] = "unchanged"
  /\ Settle(c, Unresolved, "UNCHANGED",
            [txn EXCEPT !.status = StartStatus(attempt[req[c]].op)])

MarkUncertain(c) ==
  /\ pc[c] = "uncertain"
  /\ Settle(c, {"COMMITTING"}, "UNCERTAIN", [txn EXCEPT !.status = "ERROR"])

MarkMismatch(c) ==
  /\ pc[c] = "mismatch"
  /\ Settle(c, Unresolved, "UNCERTAIN", [txn EXCEPT !.status = "ERROR"])

\* The database fails: nothing is stored, the attempt stays what it was.
SettleFails(c) ==
  /\ pc[c] \in {"verified", "unchanged", "uncertain", "mismatch"}
  /\ Refused(c)
  /\ UNCHANGED <<dbVars, qboVars, lease, dryRun, auth>>

----------------------------------------------------------------------------
(* reconcileMutationAttempt.                                                 *)

ReconcileLoad(c) ==
  /\ At(c, "load", {"reconcile"})
  /\ LET a == attempt[req[c]] IN
     IF a.status \in Unresolved /\ txn.status \in Reconcilable(a.op) /\ txn.revision = a.rev
     THEN /\ seen' = [seen EXCEPT ![c] = [status |-> txn.status, token |-> txn.token]]
          /\ Go(c, "renew")
          /\ UNCHANGED <<kind, req, rev, got>>
     ELSE Leave(c)
  /\ UNCHANGED <<dbVars, qboVars, lease, dryRun, auth>>

ReconcileReload(c) ==
  /\ At(c, "reload", {"reconcile"})
  /\ LET a == attempt[req[c]] IN
     IF txn.status \in Reconcilable(a.op) /\ txn.revision = a.rev
     THEN Go(c, "readback") /\ UNCHANGED localVars
     ELSE Leave(c)
  /\ UNCHANGED <<dbVars, qboVars, lease, dryRun, auth>>

\* Mutant: whatever is not the original is taken for the intent.
ReconcileReadNotBefore(c) ==
  /\ At(c, "readback", {"reconcile"})
  /\ got' = [got EXCEPT ![c] = qbo.token]
  /\ Go(c, IF qbo.content = attempt[req[c]].before THEN "unchanged" ELSE "verified")
  /\ UNCHANGED <<dbVars, qboVars, lease, dryRun, auth, kind, req, rev, seen>>

\* One read decides: the intent, the untouched original, or neither.
ReconcileRead(c) ==
  /\ At(c, "readback", {"reconcile"})
  /\ LET a == attempt[req[c]] IN
     \/ /\ got' = [got EXCEPT ![c] = qbo.token]
        /\ Go(c, IF qbo.content = a.target THEN "verified"
                 ELSE IF qbo.content = a.before /\ qbo.token = a.token THEN "unchanged"
                 ELSE "mismatch")
        /\ UNCHANGED <<kind, req, rev, seen>>
     \/ Leave(c)
  /\ UNCHANGED <<dbVars, qboVars, lease, dryRun, auth>>

----------------------------------------------------------------------------
(* stageCategorization and sync: fenced transactions.                        *)

\* The fence is the first statement of the transaction and locks the lease row.
Fence(c) ==
  /\ pc[c] = "fence"
  /\ LeaseRowFree
  /\ IF CanRenew(c) THEN Go(c, "cas") /\ UNCHANGED localVars ELSE Leave(c)
  /\ UNCHANGED <<dbVars, qboVars, lease, dryRun, auth>>

\* The compare-and-swap on revision, status and active attempts.
StageCas(c) ==
  /\ At(c, "cas", {"stage"})
  /\ RowFree
  /\ IF txn.status = "PENDING" /\ txn.revision = rev[c] /\ NoneActive
     THEN Go(c, "commitStage") /\ UNCHANGED localVars
     ELSE Leave(c)
  /\ UNCHANGED <<dbVars, qboVars, lease, dryRun, auth>>

StageCommit(c) ==
  /\ pc[c] = "commitStage"
  /\ txn' = [txn EXCEPT !.revision = rev[c] + 1]
  /\ Leave(c)
  /\ UNCHANGED <<attempt, qboVars, lease, dryRun, auth>>

\* The fresh token goes to the row unless a write is active or the list is stale.
Mirror(c) ==
  /\ At(c, "cas", {"mirror"})
  /\ RowFree
  /\ txn' = IF got[c] >= txn.token /\ NoneActive THEN [txn EXCEPT !.token = got[c]] ELSE txn
  /\ Leave(c)
  /\ UNCHANGED <<attempt, qboVars, lease, dryRun, auth>>

\* supersedeTxn: only the row that was read, with no active write.
Supersede(c) ==
  /\ At(c, "cas", {"supersede"})
  /\ RowFree
  /\ txn' = IF /\ txn.status \in {"PENDING", "ERROR"}
               /\ txn.revision = rev[c] /\ txn.token = seen[c].token
               /\ NoneActive
            THEN [txn EXCEPT !.status = "SUPERSEDED"] ELSE txn
  /\ Leave(c)
  /\ UNCHANGED <<attempt, qboVars, lease, dryRun, auth>>

----------------------------------------------------------------------------
(* retryError: reads, then an update that compares nothing.                  *)

RetryRead(c) ==
  /\ pc[c] = "idle" /\ "retry" \in Kinds
  /\ txn.status = "ERROR"
  /\ kind' = [kind EXCEPT ![c] = "retry"]
  /\ Go(c, "barrier")
  /\ UNCHANGED <<dbVars, qboVars, lease, dryRun, auth, req, rev, seen, got>>

RetryBarrier(c) ==
  /\ pc[c] = "barrier"
  /\ IF NoneActive THEN Go(c, "fetch") /\ UNCHANGED localVars ELSE End(c)
  /\ UNCHANGED <<dbVars, qboVars, lease, dryRun, auth>>

\* Mutant: the row is queued again wherever its entity is.
RetryFetchAnywhere(c) ==
  /\ pc[c] = "fetch"
  /\ got' = [got EXCEPT ![c] = qbo.token]
  /\ Go(c, "requeue")
  /\ UNCHANGED <<dbVars, qboVars, lease, dryRun, auth, kind, req, rev, seen>>

\* The entity is read: still on the holding account, or gone from it.
RetryFetch(c) ==
  /\ pc[c] = "fetch"
  /\ got' = [got EXCEPT ![c] = qbo.token]
  /\ Go(c, IF qbo.content = Held THEN "requeue" ELSE "drop")
  /\ UNCHANGED <<dbVars, qboVars, lease, dryRun, auth, kind, req, rev, seen>>

RetryWrite(c) ==
  /\ pc[c] \in {"requeue", "drop"}
  /\ RowFree
  /\ txn' = IF pc[c] = "requeue" THEN [txn EXCEPT !.status = "PENDING", !.token = got[c]]
            ELSE [txn EXCEPT !.status = "SUPERSEDED"]
  /\ End(c)
  /\ UNCHANGED <<attempt, qboVars, lease, dryRun, auth>>

----------------------------------------------------------------------------
(* The surroundings.                                                         *)

\* Somebody edits the entity in QuickBooks, or moves it off the holding account.
EditInQuickBooks ==
  /\ qbo.token < MaxToken
  /\ \E content \in {qbo.content, Elsewhere} :
       qbo' = [content |-> content, token |-> qbo.token + 1]
  /\ UNCHANGED <<dbVars, wire, landed, sends, lease, dryRun, auth, pc, localVars>>

LeaseExpires ==
  /\ lease.live
  /\ lease' = [lease EXCEPT !.live = FALSE]
  /\ UNCHANGED <<dbVars, qboVars, dryRun, auth, pc, localVars>>

ToggleDryRun ==
  /\ dryRun' \in Switch \ {dryRun}
  /\ UNCHANGED <<dbVars, qboVars, lease, auth, pc, localVars>>

Step(c) ==
  \/ ReadOpenRow(c) \/ Acquire(c) \/ Busy(c) \/ ReleaseLease(c)
  \/ FindCommit(c) \/ FindUndo(c) \/ LoadRow(c) \/ RecordDryRun(c) \/ Prepare(c) \/ Persist(c)
  \/ Renew(c) \/ Reload(c) \/ Prove(c) \/ RenewStage(c)
  \/ GiveUp(c) \/ Transition(c) \/ TransitionFails(c)
  \/ SendPrepared(c) \/ Answered(c) \/ Readback(c)
  \/ FinalizeVerified(c) \/ FinalizeUnchanged(c) \/ MarkUncertain(c) \/ MarkMismatch(c)
  \/ SettleFails(c)
  \/ ReconcileLoad(c) \/ ReconcileReload(c) \/ ReconcileRead(c)
  \/ Fence(c) \/ StageCas(c) \/ StageCommit(c) \/ Mirror(c) \/ Supersede(c)
  \/ RetryBarrier(c) \/ RetryFetch(c) \/ RetryWrite(c)

Next ==
  \/ \E c \in Calls : Start(c) \/ StartStage(c) \/ ListHolding(c) \/ RetryRead(c)
  \/ \E c \in Calls : Step(c) \/ Crash(c)
  \/ \E r \in Requests : Land(r) \/ Lose(r)
  \/ EditInQuickBooks \/ LeaseExpires \/ ToggleDryRun

Spec == Init /\ [][Next]_vars

----------------------------------------------------------------------------
(* Properties.                                                               *)

\* What may have reached QuickBooks is what the row still shows as staged: no
\* restaging slips between the last reload and the end of the reconciliation
\* (renewal, fence, active-attempt checks and the two compare-and-swaps).
SentAsStaged ==
  \A r \in Requests : attempt[r].status \in Unresolved => txn.revision = attempt[r].rev

\* While the SyncToken of the row is the current one, a row that is offered for
\* categorization, or was taken back, is on the holding account.
PendingIsHeld ==
  txn.token = qbo.token /\ txn.status \in {"PENDING", "REVERTED"} => qbo.content = Held

\* While the SyncToken of the row is the current one, a posted row carries in
\* QuickBooks the categorization that is staged.
PostedIsCategorized ==
  txn.token = qbo.token /\ txn.status = "POSTED" => qbo.content = txn.revision

\* An attempt is called verified only if a request with its content was applied.
VerifiedWasWritten ==
  \A r \in Requests : attempt[r].status = "VERIFIED" =>
    \E q \in landed : attempt[q].op = attempt[r].op /\ attempt[q].target = attempt[r].target

\* A posted row has exactly one verified categorization, the one that is staged
\* (undo looks it up), and none of its restores is verified.
PostedHasOneSource ==
  txn.status = "POSTED" =>
    /\ Cardinality({r \in Requests : Source(r)}) = 1
    /\ \A r \in Requests : Source(r) => attempt[r].rev = txn.revision
    /\ \A r \in Requests : ~(attempt[r].op = "restore" /\ attempt[r].status = "VERIFIED")

\* The abstract lifecycle of an attempt, whose request leaves at most once.
PhaseOf(s) ==
  IF s = "NONE" THEN "unused"
  ELSE IF s = "PREPARED" THEN "armed"
  ELSE IF s = "RETRYABLE" THEN "parked"
  ELSE IF s \in {"FAILED", "DRY_RUN"} THEN "dropped"
  ELSE IF s \in Unresolved THEN "out" ELSE "settled"

Contract == INSTANCE AtMostOnceWrite WITH
  phase <- [r \in Requests |-> PhaseOf(attempt[r].status)]

\* Every behaviour of the attempts is one of AtMostOnceWrite: one live attempt
\* per entity, none given up once its request may have left, none sent twice.
ImplementsAtMostOnceWrite == Contract!Spec

\* What the code says of itself and does not keep (see the README).

\* "proves unchanged": an attempt reported UNCHANGED has not changed QuickBooks.
UnchangedNeverLands ==
  \A r \in Requests : attempt[r].status = "UNCHANGED" => r \notin landed

\* A row "left the holding account": sync supersedes it only while its entity is off
\* the account.
SupersededHasLeft ==
  [][\A c \in Calls : Supersede(c) /\ txn'.status # txn.status => qbo.content # Held]_vars

\* "retryError - ERROR -> PENDING": a retry touches a row in ERROR only.
RetryOnlyFromError == [][\A c \in Calls : RetryWrite(c) => txn.status = "ERROR"]_vars

\* DRY_RUN "never write to QuickBooks": no restore is prepared while it is on.
NoRestoreInDryRun ==
  [][\A r \in Requests :
       attempt[r].status = "NONE" /\ attempt'[r].op = "restore" => ~dryRun]_vars
=============================================================================
