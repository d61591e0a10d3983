------------------------- MODULE DirectPostingProofs -------------------------
(* Proofs about DirectPosting for any set of calls, categories and amounts,   *)
(* and any bound on the versions of the entity.                               *)
(*                                                                            *)
(* The argument.  A request only counts if it names the version QuickBooks    *)
(* has, and versions never come back.  So what is said of a version while it  *)
(* is the present one, by whoever has it in hand, stays true of it: a version *)
(* read on the holding account, or answered to a write, is not one an edit    *)
(* has made at a category (Known); the one a post names is held with its own  *)
(* amount (Posts); the one an undo names was made by a post (Undoes).         *)
EXTENDS DirectPosting, TLAPS

\* A version that is not the mark of an edit at a category.
Known(v) == v <= qbo.token /\ (v = qbo.token /\ qbo.at \in Categories => qbo.by = "post")

\* A version whose entity a post of this amount may replace, or an undo.
Posts(v, amount) == v = qbo.token => qbo.at = Held /\ qbo.amount = amount
Undoes(v) == v = qbo.token => qbo.by = "post"

\* From the claim to the answer a post has its category.
Posting == {"claim", "fetch", "send", "await", "refetch"}
CategoryKnown == \A c \in Calls : pc[c] \in Posting => seen[c].cat \in Categories

VersionsKnown ==
  /\ Known(0) /\ Known(txn.token)
  /\ \A c \in Calls : Known(seen[c].version) /\ Known(answer[c].token)

WritesKnown ==
  \A c \in Calls :
    /\ pc[c] = "send" => Posts(seen[c].version, seen[c].amount)
    /\ pc[c] = "undoSend" => Undoes(seen[c].version)
    /\ wire[c] # None =>
         /\ wire[c].base <= qbo.token
         /\ wire[c].op = "post" => Posts(wire[c].base, wire[c].amount)
         /\ wire[c].op = "undo" => wire[c].at = Held /\ Undoes(wire[c].base)

IInv == TypeOK /\ CategoryKnown /\ VersionsKnown /\ WritesKnown
----------------------------------------------------------------------------
(* Types.                                                                    *)

LEMMA BlankType == ASSUME NEW a \in Amounts PROVE Blank \in Locals /\ Blank.amount \in Amounts
<1>1. (CHOOSE x \in Amounts : TRUE) \in Amounts
  OBVIOUS
<1> QED
  BY <1>1, BoundsAssumption DEF Blank, Locals, Tokens

LEMMA InitTypes == Init => TypeOK
<1> SUFFICES ASSUME Init PROVE TypeOK
  OBVIOUS
<1>1. PICK amount \in Amounts, posted \in BOOLEAN, cat \in Categories :
        /\ txn = [status |-> IF posted THEN "POSTED" ELSE "PENDING", token |-> 0,
                  cat |-> IF posted THEN cat ELSE None, amount |-> amount, old |-> FALSE]
        /\ qbo = [at |-> IF posted THEN cat ELSE Held, amount |-> amount, token |-> 0,
                  by |-> IF posted THEN "post" ELSE "outside"]
        /\ wire = [c \in Calls |-> None]
        /\ answer = [c \in Calls |-> NoAnswer]
        /\ dryRun = FALSE
        /\ pc = [c \in Calls |-> "idle"]
        /\ seen = [c \in Calls |-> Blank]
  BY DEF Init
<1>2. Blank \in Locals
  BY BlankType
<1>3. 0 \in Tokens
  BY BoundsAssumption DEF Tokens
<1>4. /\ txn \in [status : Status, token : Tokens, cat : Categories \cup {None},
                  amount : Amounts, old : BOOLEAN]
      /\ qbo \in [at : Places, amount : Amounts, token : Tokens, by : {"outside", "post", "undo"}]
  BY <1>1, <1>3 DEF Status, Places
<1>5. answer \in [Calls -> [kind : Outcomes, token : Tokens]] /\ pc \in [Calls -> Stops]
  BY <1>1, <1>3 DEF NoAnswer, Outcomes, Stops
<1> QED
  BY <1>1, <1>2, <1>4, <1>5 DEF TypeOK

\* What every handler step does to its own place and locals.
Places0 == pc \in [Calls -> Stops] /\ seen \in [Calls -> Locals]

LEMMA LeaveType == ASSUME TypeOK, NEW c \in Calls, Leave(c) PROVE Places0'
<1>1. Blank \in Locals
  BY BlankType DEF TypeOK
<1> QED
  BY <1>1 DEF TypeOK, Leave, Go, Places0, Stops

LEMMA GoType == ASSUME TypeOK, NEW c \in Calls, NEW stop \in Stops, Go(c, stop), UNCHANGED seen
                PROVE Places0'
BY DEF TypeOK, Go, Places0

LEMMA TurnType ==
  ASSUME TypeOK, NEW c \in Calls, NEW stop \in Stops, NEW v \in Tokens, NEW a \in Amounts,
         Turn(c, stop, v, a)
  PROVE  Places0'
<1>1. [Blank EXCEPT !.version = v, !.amount = a] \in Locals
  BY BlankType DEF Locals
<1> QED
  BY <1>1 DEF TypeOK, Turn, Go, Places0

LEMMA FailType == ASSUME TypeOK, NEW c \in Calls, Fail(c) PROVE Places0'
<1>1. Blank.version \in Tokens /\ Blank.amount \in Amounts
  BY BlankType DEF TypeOK, Locals
<1>2. "failed" \in Stops
  BY DEF Stops, Settlements
<1> QED
  BY <1>1, <1>2, TurnType DEF Fail

LEMMA ForgetType == ASSUME TypeOK, NEW c \in Calls, Forget(c)
                    PROVE answer' \in [Calls -> [kind : Outcomes, token : Tokens]]
<1>1. NoAnswer \in [kind : Outcomes, token : Tokens]
  BY BoundsAssumption DEF NoAnswer, Outcomes, Tokens
<1> QED
  BY <1>1 DEF TypeOK, Forget

Rows == [status : Status, token : Tokens, cat : Categories \cup {None}, amount : Amounts,
         old : BOOLEAN]

\* The steps that only move a handler.
LEMMA LocalTypes ==
  ASSUME TypeOK, Places0', UNCHANGED <<txn, qbo, wire, answer, dryRun>>
  PROVE  TypeOK'
BY DEF TypeOK, Places0

\* The steps that update the row as well.
LEMMA RowTypes ==
  ASSUME TypeOK, Places0', txn' \in Rows, UNCHANGED <<qbo, wire, answer, dryRun>>
  PROVE  TypeOK'
BY DEF TypeOK, Places0, Rows

LEMMA PostTypes ==
  ASSUME TypeOK, CategoryKnown, NEW c \in Calls,
         PostRead(c) \/ PostClaim(c) \/ PostFetch(c) \/ PostSend(c) \/ PostAnswered(c)
  PROVE  TypeOK'
<1>0. /\ {"claim", "fetch", "send", "await", "refetch", "superseded", "refused", "dryRun",
          "requeued", "posted"} \subseteq Stops
      /\ Blank.version \in Tokens /\ Blank.amount \in Amounts
      /\ qbo.token \in Tokens /\ qbo.amount \in Amounts
      /\ seen[c] \in Locals /\ seen[c].version \in Tokens /\ answer[c].token \in Tokens
  BY BlankType DEF Stops, PostStops, Settlements, TypeOK, Locals
<1>1. CASE PostRead(c)
  <2>1. CASE Leave(c)
    BY <1>1, <2>1, LeaveType, LocalTypes DEF PostRead, rowVars, netVars
  <2>2. CASE Go(c, "claim") /\ Reads(c)
    <3>1. Places0'
      BY <1>0, <2>2 DEF TypeOK, Go, Reads, Places0, Locals
    <3> QED
      BY <1>1, <3>1, LocalTypes DEF PostRead, rowVars, netVars
  <2> QED
    BY <1>1, <2>1, <2>2 DEF PostRead
<1>2. CASE PostClaim(c)
  <2>1. CASE Leave(c) /\ UNCHANGED txn
    BY <1>2, <2>1, LeaveType, LocalTypes DEF PostClaim, netVars
  <2>2. CASE Update([txn EXCEPT !.status = "POSTING"]) /\ Go(c, "fetch") /\ UNCHANGED seen
    <3>1. Places0'
      BY <1>0, <2>2, GoType
    <3>2. txn' \in Rows
      BY <2>2 DEF Update, TypeOK, Rows, Status
    <3> QED
      BY <1>2, <3>1, <3>2, RowTypes DEF PostClaim, netVars
  <2> QED
    BY <1>2, <2>1, <2>2 DEF PostClaim
<1>3. CASE PostFetch(c)
  <2>1. Places0'
    <3>1. CASE Go(c, "send") /\ seen' = [seen EXCEPT ![c].version = qbo.token]
      BY <1>0, <3>1 DEF TypeOK, Go, Places0, Locals
    <3> QED
      BY <1>0, <1>3, <3>1, TurnType, FailType DEF PostFetch
  <2> QED
    BY <1>3, <2>1, LocalTypes DEF PostFetch, rowVars, netVars
<1>4. CASE PostSend(c)
  <2>1. CASE Send(c, "post", seen[c].cat) /\ Go(c, "await") /\ UNCHANGED seen
    <3>1. [op |-> "post", base |-> seen[c].version, at |-> seen[c].cat,
           amount |-> seen[c].amount] \in Request
      BY <1>0, <1>4 DEF PostSend, CategoryKnown, Posting, Places, Request, Locals
    <3> QED
      BY <1>0, <1>4, <2>1, <3>1 DEF PostSend, Send, Go, TypeOK, rowVars
  <2>2. CASE Turn(c, "requeued", Blank.version, Blank.amount) /\ UNCHANGED netVars
    BY <1>0, <1>4, <2>2, TurnType, LocalTypes DEF PostSend, rowVars, netVars
  <2> QED
    BY <1>4, <2>1, <2>2 DEF PostSend
<1>5. CASE PostAnswered(c)
  <2>1. Places0'
    <3>1. CASE Go(c, "refetch") /\ seen' = [seen EXCEPT ![c].again = TRUE]
      BY <1>0, <3>1 DEF TypeOK, Go, Places0, Locals
    <3> QED
      BY <1>0, <1>5, <3>1, TurnType, FailType DEF PostAnswered
  <2> QED
    BY <1>5, <2>1, ForgetType DEF PostAnswered, TypeOK, Places0, rowVars
<1> QED
  BY <1>1, <1>2, <1>3, <1>4, <1>5

LEMMA UndoTypes ==
  ASSUME TypeOK, NEW c \in Calls,
         UndoRead(c) \/ UndoFetch(c) \/ UndoSend(c) \/ UndoAnswered(c) \/ Classify(c)
         \/ RetryRead(c) \/ RetryFetch(c)
  PROVE  TypeOK'
<1>0. /\ {"undoFetch", "undoSend", "undoAwait", "classify", "undone", "retryFetch", "retried",
          "dropped"} \subseteq Stops
      /\ Blank \in Locals /\ Blank.version \in Tokens /\ Blank.amount \in Amounts
      /\ qbo.token \in Tokens /\ qbo.amount \in Amounts /\ txn.token \in Tokens
      /\ seen[c] \in Locals /\ seen[c].version \in Tokens /\ answer[c].token \in Tokens
  BY BlankType DEF Stops, UndoStops, OtherStops, Settlements, TypeOK, Locals
<1>1. ASSUME NEW v \in Tokens, Restored(c, v) PROVE Places0'
  BY <1>0, <1>1 DEF Restored, TypeOK, Go, Places0, Locals
<1>2. CASE UndoRead(c)
  <2>1. Places0'
    <3>1. CASE Go(c, "undoFetch") /\ Reads(c)
      BY <1>0, <3>1 DEF TypeOK, Go, Reads, Places0, Locals
    <3> QED
      BY <1>0, <1>2, <3>1, TurnType DEF UndoRead
  <2> QED
    BY <1>2, <2>1, LocalTypes DEF UndoRead, rowVars, netVars
<1>3. CASE UndoFetch(c)
  <2>1. Places0'
    BY <1>0, <1>3, TurnType, LeaveType DEF UndoFetch
  <2> QED
    BY <1>3, <2>1, LocalTypes DEF UndoFetch, rowVars, netVars
<1>4. CASE UndoSend(c)
  <2>1. [op |-> "undo", base |-> seen[c].version, at |-> Held,
         amount |-> seen[c].amount] \in Request
    BY <1>0 DEF Places, Request, Locals
  <2> QED
    BY <1>0, <1>4, <2>1 DEF UndoSend, Send, Go, TypeOK, rowVars
<1>5. CASE UndoAnswered(c)
  <2>1. Places0'
    BY <1>0, <1>1, <1>5, LeaveType, GoType DEF UndoAnswered
  <2> QED
    BY <1>5, <2>1, ForgetType DEF UndoAnswered, TypeOK, Places0, rowVars
<1>6. CASE Classify(c)
  <2>1. Places0'
    BY <1>0, <1>1, <1>6, LeaveType, FailType DEF Classify
  <2> QED
    BY <1>6, <2>1, LocalTypes DEF Classify, rowVars, netVars
<1>7. CASE RetryRead(c)
  <2>1. Places0'
    BY <1>0, <1>7, GoType DEF RetryRead
  <2> QED
    BY <1>7, <2>1, LocalTypes DEF RetryRead, rowVars, netVars
<1>8. CASE RetryFetch(c)
  <2>1. Places0'
    BY <1>0, <1>8, TurnType, LeaveType DEF RetryFetch
  <2> QED
    BY <1>8, <2>1, LocalTypes DEF RetryFetch, rowVars, netVars
<1> QED
  BY <1>2, <1>3, <1>4, <1>5, <1>6, <1>7, <1>8

LEMMA SettleTypes ==
  ASSUME TypeOK, NEW c \in Calls, Settle(c) \/ SettleFails(c)
  PROVE  TypeOK'
<1>1. CASE Settle(c)
  <2>1. Settled(c) \in Rows
    BY <1>1 DEF Settle, Settlements, Settled, TypeOK, Rows, Status, Locals
  <2>2. txn' \in Rows
    BY <1>1, <2>1 DEF Settle, Update, Rows
  <2> QED
    BY <1>1, <2>2, LeaveType, RowTypes DEF Settle, netVars
<1>2. CASE SettleFails(c)
  BY <1>2, LeaveType, FailType, LocalTypes DEF SettleFails, rowVars, netVars
<1> QED
  BY <1>1, <1>2

LEMMA SyncTypes ==
  ASSUME TypeOK, NEW c \in Calls,
         CategorizeRead(c) \/ CategorizeWrite(c) \/ ListHolding(c) \/ Mirror(c)
         \/ AutoStage(c) \/ ReadOpenRow(c) \/ Supersede(c)
  PROVE  TypeOK'
<1>0. /\ {"stage", "mirror", "openRow", "autoStage", "read", "supersede"} \subseteq Stops
      /\ Blank.version \in Tokens /\ Blank.amount \in Amounts
      /\ qbo.token \in Tokens /\ qbo.amount \in Amounts
      /\ txn \in Rows /\ txn.token \in Tokens
      /\ seen[c] \in Locals /\ seen[c].version \in Tokens /\ seen[c].amount \in Amounts
  BY BlankType DEF Stops, PostStops, OtherStops, TypeOK, Locals, Rows
<1>1. CASE CategorizeRead(c)
  BY <1>0, <1>1, GoType, LocalTypes DEF CategorizeRead, rowVars, netVars
<1>2. CASE CategorizeWrite(c)
  <2>1. txn' \in Rows
    BY <1>0, <1>2 DEF CategorizeWrite, Update, Rows
  <2> QED
    BY <1>2, <2>1, LeaveType, RowTypes DEF CategorizeWrite, netVars
<1>3. CASE ListHolding(c)
  <2>1. Places0'
    BY <1>0, <1>3, TurnType, GoType DEF ListHolding
  <2> QED
    BY <1>3, <2>1, LocalTypes DEF ListHolding, rowVars, netVars
<1>4. CASE Mirror(c)
  <2>1. txn' \in Rows
    BY <1>0, <1>4 DEF Mirror, Update, Rows
  <2>2. Places0'
    <3>1. txn'.token \in Tokens
      BY <2>1 DEF Rows
    <3> QED
      BY <1>0, <1>4, <3>1, TurnType, LeaveType DEF Mirror
  <2> QED
    BY <1>4, <2>1, <2>2, RowTypes DEF Mirror, netVars
<1>5. CASE AutoStage(c)
  <2>1. txn' \in Rows
    BY <1>0, <1>5 DEF AutoStage, Update, Rows
  <2>2. Places0'
    BY <1>0, <1>5, TurnType, LeaveType DEF AutoStage
  <2> QED
    BY <1>5, <2>1, <2>2, RowTypes DEF AutoStage, netVars
<1>6. CASE ReadOpenRow(c)
  <2>1. Places0'
    BY <1>0, <1>6, TurnType, LeaveType DEF ReadOpenRow
  <2> QED
    BY <1>6, <2>1, LocalTypes DEF ReadOpenRow, rowVars, netVars
<1>7. CASE Supersede(c)
  <2>1. txn' \in Rows
    BY <1>0, <1>7 DEF Supersede, Update, Rows, Status
  <2> QED
    BY <1>7, <2>1, LeaveType, RowTypes DEF Supersede, netVars
<1> QED
  BY <1>1, <1>2, <1>3, <1>4, <1>5, <1>6, <1>7

LEMMA WorldTypes ==
  ASSUME TypeOK,
         \/ \E c \in Calls : Land(c) \/ Lose(c) \/ Crash(c)
         \/ Age \/ Sweep \/ EditInQuickBooks \/ ToggleDryRun
  PROVE  TypeOK'
<1>1. ASSUME NEW c \in Calls, Land(c) PROVE TypeOK'
  <2>1. wire[c] \in Request
    BY <1>1 DEF Land, TypeOK
  <2>2. qbo' \in [at : Places, amount : Amounts, token : Tokens, by : {"outside", "post", "undo"}]
    <3>1. CASE wire[c].base = qbo.token
      <4>1. qbo.token + 1 \in Tokens
        BY <1>1, <3>1, BoundsAssumption DEF Land, TypeOK, Tokens
      <4> QED
        BY <1>1, <2>1, <3>1, <4>1 DEF Land, Request
    <3> QED
      BY <1>1, <3>1 DEF Land, TypeOK
  <2>3. answer' \in [Calls -> [kind : Outcomes, token : Tokens]]
    <3>1. CASE wire[c].base = qbo.token
      BY <1>1, <3>1, BoundsAssumption DEF Land, Answer, TypeOK, Tokens, Outcomes
    <3>2. CASE wire[c].base # qbo.token
      BY <1>1, <3>2, BoundsAssumption DEF Land, Answer, TypeOK, Tokens, Outcomes
    <3> QED
      BY <3>1, <3>2
  <2> QED
    BY <1>1, <2>2, <2>3 DEF Land, TypeOK, rowVars
<1>2. ASSUME NEW c \in Calls, Lose(c) PROVE TypeOK'
  BY <1>2 DEF Lose, TypeOK, rowVars
<1>3. ASSUME NEW c \in Calls, Crash(c) PROVE TypeOK'
  BY <1>3, LeaveType, ForgetType DEF Crash, Places0, TypeOK, rowVars
<1>4. CASE Age
  BY <1>4 DEF Age, TypeOK, netVars
<1>5. CASE Sweep
  BY <1>5 DEF Sweep, Update, TypeOK, Status, netVars
<1>6. CASE EditInQuickBooks
  BY <1>6, BoundsAssumption DEF EditInQuickBooks, TypeOK, Tokens, Places, rowVars, netVars
<1>7. CASE ToggleDryRun
  BY <1>7, BoundsAssumption DEF ToggleDryRun, TypeOK, netVars
<1> QED
  BY <1>1, <1>2, <1>3, <1>4, <1>5, <1>6, <1>7

LEMMA NextTypes == ASSUME TypeOK, CategoryKnown, [Next]_vars PROVE TypeOK'
<1>1. CASE UNCHANGED vars
  BY <1>1 DEF vars, TypeOK
<1>2. CASE Next
  BY <1>2, PostTypes, UndoTypes, SettleTypes, SyncTypes, WorldTypes DEF Next, Start, Step
<1> QED
  BY <1>1, <1>2

----------------------------------------------------------------------------
(* Versions.                                                                 *)

Rest == CategoryKnown /\ VersionsKnown /\ WritesKnown

Others(c) == \A d \in Calls \ {c} : pc'[d] = pc[d] /\ seen'[d] = seen[d]

\* A step of one handler that sends nothing, while QuickBooks stays as it is.
LEMMA Quiet ==
  ASSUME IInv, NEW c \in Calls, Others(c), UNCHANGED <<qbo, wire>>,
         Known(txn'.token), Known(seen'[c].version), \A d \in Calls : Known(answer'[d].token),
         pc'[c] \in Posting => seen'[c].cat \in Categories,
         pc'[c] = "send" => Posts(seen'[c].version, seen'[c].amount),
         pc'[c] = "undoSend" => Undoes(seen'[c].version)
  PROVE  Rest'
<1>1. CategoryKnown'
  BY DEF IInv, CategoryKnown, Others
<1>2. VersionsKnown'
  BY DEF IInv, VersionsKnown, Known, Others
<1>3. WritesKnown'
  BY DEF IInv, WritesKnown, Posts, Undoes, Others
<1> QED
  BY <1>1, <1>2, <1>3 DEF Rest

\* What is known of the answers stays so if the handler's own is forgotten.
LEMMA Answers ==
  ASSUME IInv, NEW c \in Calls, Forget(c) \/ UNCHANGED answer
  PROVE  \A d \in Calls : Known(answer'[d].token)
BY DEF IInv, TypeOK, VersionsKnown, Forget, NoAnswer

LEMMA LeaveQuiet ==
  ASSUME IInv, NEW c \in Calls, Leave(c), UNCHANGED <<qbo, wire>>, Known(txn'.token),
         Forget(c) \/ UNCHANGED answer
  PROVE  Rest'
<1>1. pc'[c] = "idle" /\ seen'[c].version = 0 /\ Others(c)
  BY DEF IInv, TypeOK, Leave, Go, Blank, Others
<1>2. Known(0)
  BY DEF IInv, VersionsKnown
<1> QED
  BY <1>1, <1>2, Answers, Quiet DEF Posting

LEMMA TurnQuiet ==
  ASSUME IInv, NEW c \in Calls, NEW stop \in Stops \ (Posting \cup {"undoSend"}), NEW v, NEW a,
         Turn(c, stop, v, a), Known(v), UNCHANGED <<qbo, wire>>, Known(txn'.token),
         Forget(c) \/ UNCHANGED answer
  PROVE  Rest'
<1>1. pc'[c] = stop /\ seen'[c].version = v /\ Others(c)
  BY DEF IInv, TypeOK, Turn, Go, Blank, Others
<1> QED
  BY <1>1, Answers, Quiet DEF Posting

LEMMA FailQuiet ==
  ASSUME IInv, NEW c \in Calls, Fail(c), UNCHANGED <<qbo, wire, txn>>,
         Forget(c) \/ UNCHANGED answer
  PROVE  Rest'
<1>1. Blank.version = 0 /\ Known(0) /\ Known(txn'.token)
  BY DEF Blank, IInv, VersionsKnown
<1>2. "failed" \in Stops \ (Posting \cup {"undoSend"})
  BY DEF Stops, Settlements, Posting
<1> QED
  BY <1>1, <1>2, TurnQuiet DEF Fail

LEMMA GoQuiet ==
  ASSUME IInv, NEW c \in Calls, NEW stop \in Stops \ {"send", "undoSend"}, Go(c, stop),
         stop \in Posting => seen[c].cat \in Categories,
         UNCHANGED <<qbo, wire, seen>>, Known(txn'.token), Forget(c) \/ UNCHANGED answer
  PROVE  Rest'
<1>1. pc'[c] = stop /\ seen'[c] = seen[c] /\ Others(c)
  BY DEF IInv, TypeOK, Go, Others
<1>2. Known(seen[c].version)
  BY DEF IInv, VersionsKnown
<1> QED
  BY <1>1, <1>2, Answers, Quiet

\* What is read on the holding account is not an edit at a category.
LEMMA HeldKnown == ASSUME IInv, qbo.at = Held PROVE Known(qbo.token)
BY BoundsAssumption DEF IInv, TypeOK, Tokens, Known

LEMMA PostVersions ==
  ASSUME IInv, NEW c \in Calls,
         PostRead(c) \/ PostClaim(c) \/ PostFetch(c) \/ PostSend(c) \/ PostAnswered(c)
  PROVE  Rest'
<1>0. /\ Known(0) /\ Blank.version = 0 /\ Known(txn.token)
      /\ Known(seen[c].version) /\ Known(answer[c].token)
      /\ {"claim", "fetch", "send", "await", "refetch"} \subseteq Stops
      /\ {"superseded", "refused", "dryRun", "requeued", "posted"}
           \subseteq Stops \ (Posting \cup {"undoSend"})
      /\ seen \in [Calls -> Locals] /\ pc \in [Calls -> Stops]
      /\ seen[c] \in Locals
  BY DEF IInv, TypeOK, VersionsKnown, Blank, Stops, PostStops, Settlements, Posting
<1>1. CASE PostRead(c)
  <2>1. CASE Leave(c)
    BY <1>0, <1>1, <2>1, LeaveQuiet DEF PostRead, rowVars, netVars
  <2>2. CASE txn.cat # None /\ Go(c, "claim") /\ Reads(c)
    <3>1. /\ pc'[c] = "claim" /\ Others(c)
          /\ seen'[c].version = txn.token /\ seen'[c].cat = txn.cat
      BY <1>0, <2>2 DEF Go, Reads, Others
    <3>2. txn.cat \in Categories
      BY <2>2 DEF IInv, TypeOK
    <3> QED
      BY <1>0, <1>1, <3>1, <3>2, Answers, Quiet DEF PostRead, rowVars, netVars
  <2> QED
    BY <1>1, <2>1, <2>2 DEF PostRead
<1>2. CASE PostClaim(c)
  <2>1. txn'.token = txn.token
    BY <1>2 DEF PostClaim, Update, IInv, TypeOK
  <2>2. seen[c].cat \in Categories
    BY <1>2 DEF PostClaim, IInv, CategoryKnown, Posting
  <2> QED
    BY <1>0, <1>2, <2>1, <2>2, LeaveQuiet, GoQuiet DEF PostClaim, netVars
<1>3. CASE PostFetch(c)
  <2>1. CASE qbo.at = Held /\ qbo.amount = seen[c].amount /\ Go(c, "send")
             /\ seen' = [seen EXCEPT ![c].version = qbo.token]
    <3>1. /\ pc'[c] = "send" /\ Others(c)
          /\ seen'[c].version = qbo.token /\ seen'[c].amount = qbo.amount
          /\ seen'[c].cat = seen[c].cat
      BY <1>0, <2>1 DEF Go, Others, Locals
    <3>2. seen[c].cat \in Categories
      BY <1>3 DEF PostFetch, IInv, CategoryKnown, Posting
    <3>3. Known(qbo.token) /\ Posts(qbo.token, qbo.amount)
      BY <2>1, HeldKnown DEF Posts
    <3> QED
      BY <1>0, <1>3, <3>1, <3>2, <3>3, Answers, Quiet DEF PostFetch, rowVars, netVars
  <2>2. CASE qbo.at # Held /\ Turn(c, "superseded", Blank.version, Blank.amount)
    BY <1>0, <1>3, <2>2, TurnQuiet DEF PostFetch, rowVars, netVars
  <2>3. CASE qbo.at = Held /\ Turn(c, "refused", qbo.token, qbo.amount)
    BY <1>0, <1>3, <2>3, TurnQuiet, HeldKnown DEF PostFetch, rowVars, netVars
  <2>4. CASE qbo.at = Held /\ Turn(c, "dryRun", qbo.token, Blank.amount)
    BY <1>0, <1>3, <2>4, TurnQuiet, HeldKnown DEF PostFetch, rowVars, netVars
  <2>5. CASE Fail(c)
    BY <1>3, <2>5, FailQuiet DEF PostFetch, rowVars, netVars
  <2> QED
    BY <1>3, <2>1, <2>2, <2>3, <2>4, <2>5 DEF PostFetch
<1>4. CASE PostSend(c)
  <2>1. CASE Send(c, "post", seen[c].cat) /\ Go(c, "await") /\ UNCHANGED seen
    <3>1. /\ pc'[c] = "await" /\ Others(c) /\ UNCHANGED <<qbo, txn, seen, answer>>
          /\ \A d \in Calls \ {c} : wire'[d] = wire[d]
          /\ wire'[c] = [op |-> "post", base |-> seen[c].version, at |-> seen[c].cat,
                         amount |-> seen[c].amount]
      BY <1>0, <1>4, <2>1 DEF PostSend, Send, Go, Others, IInv, TypeOK, rowVars
    <3>2. Posts(seen[c].version, seen[c].amount) /\ seen[c].cat \in Categories
      BY <1>4 DEF PostSend, IInv, WritesKnown, CategoryKnown, Posting
    <3>3. CategoryKnown' /\ VersionsKnown'
      BY <3>1, <3>2 DEF Others, IInv, CategoryKnown, VersionsKnown, Known
    <3>4. WritesKnown'
      BY <1>0, <3>1, <3>2 DEF Others, IInv, WritesKnown, Known, Posts, Undoes
    <3> QED
      BY <3>3, <3>4 DEF Rest
  <2>2. CASE Turn(c, "requeued", Blank.version, Blank.amount) /\ UNCHANGED netVars
    BY <1>0, <1>4, <2>2, TurnQuiet DEF PostSend, rowVars, netVars
  <2> QED
    BY <1>4, <2>1, <2>2 DEF PostSend
<1>5. CASE PostAnswered(c)
  <2>1. CASE Turn(c, "posted", answer[c].token, Blank.amount)
    BY <1>0, <1>5, <2>1, TurnQuiet DEF PostAnswered, rowVars
  <2>2. CASE Go(c, "refetch") /\ seen' = [seen EXCEPT ![c].again = TRUE]
    <3>1. /\ pc'[c] = "refetch" /\ Others(c)
          /\ seen'[c].version = seen[c].version /\ seen'[c].cat = seen[c].cat
      BY <1>0, <2>2 DEF Go, Others, Locals
    <3>2. seen[c].cat \in Categories
      BY <1>5 DEF PostAnswered, IInv, CategoryKnown, Posting
    <3> QED
      BY <1>0, <1>5, <3>1, <3>2, Answers, Quiet DEF PostAnswered, rowVars
  <2>3. CASE Fail(c)
    BY <1>5, <2>3, FailQuiet DEF PostAnswered, rowVars
  <2> QED
    BY <1>5, <2>1, <2>2, <2>3 DEF PostAnswered
<1> QED
  BY <1>1, <1>2, <1>3, <1>4, <1>5

LEMMA UndoVersions ==
  ASSUME IInv, NEW c \in Calls,
         UndoRead(c) \/ UndoFetch(c) \/ UndoSend(c) \/ UndoAnswered(c) \/ Classify(c)
         \/ RetryRead(c) \/ RetryFetch(c)
  PROVE  Rest'
<1>0. /\ Known(0) /\ Blank.version = 0 /\ Known(txn.token)
      /\ Known(seen[c].version) /\ Known(answer[c].token)
      /\ {"undoFetch", "undoAwait", "classify", "undone", "retryFetch", "retried", "dropped"}
           \subseteq Stops \ (Posting \cup {"undoSend"})
      /\ "undoSend" \in Stops
      /\ seen \in [Calls -> Locals] /\ pc \in [Calls -> Stops] /\ seen[c] \in Locals
  BY DEF IInv, TypeOK, VersionsKnown, Blank, Stops, UndoStops, OtherStops, Settlements, Posting
<1>1. ASSUME NEW v, Restored(c, v), Known(v), UNCHANGED <<qbo, wire, txn>>,
             Forget(c) \/ UNCHANGED answer
      PROVE  Rest'
  <2>1. pc'[c] = "undone" /\ seen'[c].version = v /\ Others(c)
    BY <1>0, <1>1 DEF Restored, Go, Others, Blank
  <2> QED
    BY <1>0, <1>1, <2>1, Answers, Quiet DEF Posting
<1>2. CASE UndoRead(c)
  <2>1. CASE Go(c, "undoFetch") /\ Reads(c)
    <3>1. pc'[c] = "undoFetch" /\ Others(c) /\ seen'[c].version = txn.token
      BY <1>0, <2>1 DEF Go, Reads, Others
    <3> QED
      BY <1>0, <1>2, <3>1, Answers, Quiet DEF UndoRead, rowVars, netVars, Posting
  <2>2. CASE Turn(c, "undone", txn.token, Blank.amount)
    BY <1>0, <1>2, <2>2, TurnQuiet DEF UndoRead, rowVars, netVars
  <2> QED
    BY <1>2, <2>1, <2>2 DEF UndoRead
<1>3. CASE UndoFetch(c)
  <2>1. CASE /\ qbo.token = seen[c].version /\ qbo.at = seen[c].cat
             /\ Turn(c, "undoSend", qbo.token, qbo.amount)
    <3>1. pc'[c] = "undoSend" /\ seen'[c].version = qbo.token /\ Others(c)
      BY <1>0, <2>1 DEF Turn, Go, Blank, Others
    <3>2. qbo.at \in Categories
      BY <1>0, <2>1, BoundsAssumption DEF IInv, TypeOK, Places, Locals
    <3>3. Undoes(qbo.token)
      BY <1>0, <2>1, <3>2 DEF Known, Undoes
    <3> QED
      BY <1>0, <1>3, <2>1, <3>1, <3>3, Answers, Quiet DEF UndoFetch, rowVars, netVars, Posting
  <2> QED
    BY <1>0, <1>3, <2>1, LeaveQuiet DEF UndoFetch, rowVars, netVars
<1>4. CASE UndoSend(c)
  <2>1. /\ pc'[c] = "undoAwait" /\ Others(c) /\ UNCHANGED <<qbo, txn, seen, answer>>
        /\ \A d \in Calls \ {c} : wire'[d] = wire[d]
        /\ wire'[c] = [op |-> "undo", base |-> seen[c].version, at |-> Held,
                       amount |-> seen[c].amount]
    BY <1>0, <1>4 DEF UndoSend, Send, Go, Others, IInv, TypeOK, rowVars
  <2>2. Undoes(seen[c].version)
    BY <1>4 DEF UndoSend, IInv, WritesKnown
  <2>3. CategoryKnown' /\ VersionsKnown'
    BY <2>1 DEF Others, IInv, CategoryKnown, VersionsKnown, Known, Posting
  <2>4. WritesKnown'
    BY <1>0, <2>1, <2>2 DEF Others, IInv, WritesKnown, Known, Posts, Undoes
  <2> QED
    BY <2>3, <2>4 DEF Rest
<1>5. CASE UndoAnswered(c)
  <2>1. CASE Restored(c, answer[c].token)
    BY <1>0, <1>1, <1>5, <2>1 DEF UndoAnswered, rowVars
  <2>2. CASE Leave(c)
    BY <1>0, <1>5, <2>2, LeaveQuiet DEF UndoAnswered, rowVars
  <2>3. CASE Go(c, "classify") /\ UNCHANGED seen
    BY <1>0, <1>5, <2>3, GoQuiet DEF UndoAnswered, rowVars, Posting
  <2> QED
    BY <1>5, <2>1, <2>2, <2>3 DEF UndoAnswered
<1>6. CASE Classify(c)
  <2>1. CASE qbo.at = Held /\ Restored(c, qbo.token)
    BY <1>0, <1>1, <1>6, <2>1, HeldKnown DEF Classify, rowVars, netVars
  <2>2. CASE Leave(c)
    BY <1>0, <1>6, <2>2, LeaveQuiet DEF Classify, rowVars, netVars
  <2>3. CASE Fail(c)
    BY <1>6, <2>3, FailQuiet DEF Classify, rowVars, netVars
  <2> QED
    BY <1>6, <2>1, <2>2, <2>3 DEF Classify
<1>7. CASE RetryRead(c)
  BY <1>0, <1>7, GoQuiet DEF RetryRead, rowVars, netVars, Posting
<1>8. CASE RetryFetch(c)
  <2>1. CASE qbo.at = Held /\ Turn(c, "retried", qbo.token, Blank.amount)
    BY <1>0, <1>8, <2>1, TurnQuiet, HeldKnown DEF RetryFetch, rowVars, netVars
  <2>2. CASE Turn(c, "dropped", Blank.version, Blank.amount)
    BY <1>0, <1>8, <2>2, TurnQuiet DEF RetryFetch, rowVars, netVars
  <2>3. CASE Leave(c)
    BY <1>0, <1>8, <2>3, LeaveQuiet DEF RetryFetch, rowVars, netVars
  <2> QED
    BY <1>8, <2>1, <2>2, <2>3 DEF RetryFetch
<1> QED
  BY <1>2, <1>3, <1>4, <1>5, <1>6, <1>7, <1>8

LEMMA SettleVersions ==
  ASSUME IInv, NEW c \in Calls, Settle(c) \/ SettleFails(c)
  PROVE  Rest'
<1>0. Known(txn.token) /\ Known(seen[c].version)
  BY DEF IInv, VersionsKnown
<1>1. CASE Settle(c)
  <2>1. Settled(c).token \in {txn.token, seen[c].version}
    BY <1>1 DEF Settle, Settlements, Settled, IInv, TypeOK, Locals
  <2>2. txn'.token = Settled(c).token
    BY <1>1 DEF Settle, Settlements, Update, Settled, IInv, TypeOK
  <2> QED
    BY <1>0, <1>1, <2>1, <2>2, LeaveQuiet DEF Settle, netVars
<1>2. CASE SettleFails(c)
  BY <1>0, <1>2, LeaveQuiet, FailQuiet DEF SettleFails, rowVars, netVars
<1> QED
  BY <1>1, <1>2

LEMMA SyncVersions ==
  ASSUME IInv, NEW c \in Calls,
         CategorizeRead(c) \/ CategorizeWrite(c) \/ ListHolding(c) \/ Mirror(c)
         \/ AutoStage(c) \/ ReadOpenRow(c) \/ Supersede(c)
  PROVE  Rest'
<1>0. /\ Known(0) /\ Blank.version = 0 /\ Known(txn.token) /\ Known(seen[c].version)
      /\ {"stage", "mirror", "openRow", "autoStage", "read", "supersede"}
           \subseteq Stops \ (Posting \cup {"undoSend"})
      /\ txn \in Rows
  BY DEF IInv, TypeOK, VersionsKnown, Blank, Stops, PostStops, OtherStops, Posting, Rows
<1>1. CASE CategorizeRead(c)
  BY <1>0, <1>1, GoQuiet DEF CategorizeRead, rowVars, netVars, Posting
<1>2. CASE CategorizeWrite(c)
  <2>1. txn'.token = txn.token
    BY <1>0, <1>2 DEF CategorizeWrite, Update, Rows
  <2> QED
    BY <1>0, <1>2, <2>1, LeaveQuiet DEF CategorizeWrite, netVars
<1>3. CASE ListHolding(c)
  <2>1. CASE qbo.at = Held /\ Turn(c, "mirror", qbo.token, qbo.amount)
    BY <1>0, <1>3, <2>1, TurnQuiet, HeldKnown DEF ListHolding, rowVars, netVars
  <2>2. CASE Go(c, "openRow") /\ UNCHANGED seen
    BY <1>0, <1>3, <2>2, GoQuiet DEF ListHolding, rowVars, netVars, Posting
  <2> QED
    BY <1>3, <2>1, <2>2 DEF ListHolding
<1>4. CASE Mirror(c)
  <2>1. txn'.token \in {txn.token, seen[c].version}
    BY <1>0, <1>4 DEF Mirror, Update, Rows
  <2>2. Known(txn'.token)
    BY <1>0, <2>1
  <2>3. CASE Turn(c, "autoStage", txn'.token, Blank.amount)
    BY <1>0, <1>4, <2>2, <2>3, TurnQuiet DEF Mirror, netVars
  <2> QED
    BY <1>4, <2>2, <2>3, LeaveQuiet DEF Mirror, netVars
<1>5. CASE AutoStage(c)
  <2>1. Known(txn'.token)
    BY <1>0, <1>5 DEF AutoStage, Update, Rows
  <2>2. CASE Turn(c, "read", Blank.version, Blank.amount)
    BY <1>0, <1>5, <2>1, <2>2, TurnQuiet DEF AutoStage, netVars
  <2> QED
    BY <1>5, <2>1, <2>2, LeaveQuiet DEF AutoStage, netVars
<1>6. CASE ReadOpenRow(c)
  <2>1. CASE Turn(c, "supersede", txn.token, Blank.amount)
    BY <1>0, <1>6, <2>1, TurnQuiet DEF ReadOpenRow, rowVars, netVars
  <2> QED
    BY <1>0, <1>6, <2>1, LeaveQuiet DEF ReadOpenRow, rowVars, netVars
<1>7. CASE Supersede(c)
  <2>1. Known(txn'.token)
    BY <1>0, <1>7 DEF Supersede, Update, Rows
  <2> QED
    BY <1>7, <2>1, LeaveQuiet DEF Supersede, netVars
<1> QED
  BY <1>1, <1>2, <1>3, <1>4, <1>5, <1>6, <1>7

\* A new version: nobody has one that is as young.
LEMMA NewVersion ==
  ASSUME IInv, UNCHANGED <<txn, pc, seen>>, qbo'.token = qbo.token + 1,
         \A d \in Calls :
           \/ answer'[d].token \in {answer[d].token, 0}
           \/ /\ answer'[d].token = qbo'.token
              /\ qbo'.at \in Categories => qbo'.by = "post",
         \A d \in Calls : wire'[d] \in {wire[d], None}
  PROVE  Rest'
<1>1. /\ qbo.token \in Nat /\ txn.token \in Nat
      /\ \A c \in Calls : seen[c].version \in Nat /\ answer[c].token \in Nat
      /\ \A c \in Calls : wire[c] # None => wire[c].base \in Nat
  BY DEF IInv, TypeOK, Tokens, Locals, Request
<1>2. CategoryKnown'
  BY DEF IInv, CategoryKnown
<1>3. VersionsKnown'
  <2>1. \A t \in Nat : Known(t) => Known(t)'
    BY <1>1 DEF Known
  <2>2. Known(0)' /\ Known(txn.token)'
    BY <1>1, <2>1 DEF IInv, VersionsKnown, Known
  <2>3. ASSUME NEW c \in Calls PROVE Known(seen[c].version)'
    BY <1>1, <2>1 DEF IInv, VersionsKnown, Known
  <2>4. ASSUME NEW c \in Calls PROVE Known(answer[c].token)'
    BY <1>1 DEF IInv, VersionsKnown, Known
  <2> QED
    BY <2>2, <2>3, <2>4 DEF VersionsKnown
<1>4. WritesKnown'
  BY <1>1 DEF IInv, VersionsKnown, WritesKnown, Known, Posts, Undoes
<1> QED
  BY <1>2, <1>3, <1>4 DEF Rest

\* Nothing a version is known of changes.
LEMMA SameVersion ==
  ASSUME IInv, UNCHANGED <<qbo, pc, seen>>, txn'.token = txn.token,
         \A d \in Calls : answer'[d].token \in {answer[d].token, 0},
         \A d \in Calls : wire'[d] \in {wire[d], None}
  PROVE  Rest'
<1>1. CategoryKnown' /\ VersionsKnown'
  BY DEF IInv, CategoryKnown, VersionsKnown, Known
<1>2. WritesKnown'
  BY DEF IInv, WritesKnown, Posts, Undoes
<1> QED
  BY <1>1, <1>2 DEF Rest

LEMMA WorldVersions ==
  ASSUME IInv,
         \/ \E c \in Calls : Land(c) \/ Lose(c) \/ Crash(c)
         \/ Age \/ Sweep \/ EditInQuickBooks \/ ToggleDryRun
  PROVE  Rest'
<1>0. /\ wire \in [Calls -> Request \cup {None}] /\ txn \in Rows
      /\ answer \in [Calls -> [kind : Outcomes, token : Tokens]]
      /\ qbo.token \in Nat /\ Known(txn.token)
  BY DEF IInv, TypeOK, Rows, VersionsKnown, Tokens
<1>1. ASSUME NEW c \in Calls, Land(c) PROVE Rest'
  <2>1. \A d \in Calls : wire'[d] \in {wire[d], None}
    BY <1>0, <1>1 DEF Land
  <2>2. CASE wire[c].base = qbo.token
    <3>1. wire[c] \in Request /\ wire[c].op \in {"post", "undo"}
      BY <1>0, <1>1 DEF Land, Request
    <3>2. /\ qbo'.token = qbo.token + 1 /\ qbo'.at = wire[c].at /\ qbo'.by = wire[c].op
          /\ UNCHANGED <<txn, pc, seen>>
      BY <1>1, <2>2 DEF Land, rowVars
    <3>3. wire[c].op = "undo" => wire[c].at = Held
      BY <1>1 DEF Land, IInv, WritesKnown
    <3>4. \A d \in Calls : answer'[d].token \in {answer[d].token, qbo.token + 1}
      BY <1>0, <1>1, <2>2 DEF Land, Answer
    <3>5. qbo'.at \in Categories => qbo'.by = "post"
      BY <3>1, <3>2, <3>3, BoundsAssumption
    <3> QED
      BY <2>1, <3>2, <3>4, <3>5, NewVersion
  <2>3. CASE wire[c].base # qbo.token
    <3>1. \A d \in Calls : answer'[d].token \in {answer[d].token, 0}
      BY <1>0, <1>1, <2>3 DEF Land, Answer
    <3> QED
      BY <1>1, <2>1, <2>3, <3>1, SameVersion DEF Land, rowVars
  <2> QED
    BY <2>2, <2>3
<1>2. ASSUME NEW c \in Calls, Lose(c) PROVE Rest'
  BY <1>0, <1>2, SameVersion DEF Lose, rowVars
<1>3. ASSUME NEW c \in Calls, Crash(c) PROVE Rest'
  BY <1>0, <1>3, LeaveQuiet DEF Crash, rowVars
<1>4. CASE Age
  BY <1>0, <1>4, SameVersion DEF Age, netVars, Rows
<1>5. CASE Sweep
  BY <1>0, <1>5, SameVersion DEF Sweep, Update, netVars, Rows
<1>6. CASE EditInQuickBooks
  BY <1>0, <1>6, NewVersion DEF EditInQuickBooks, rowVars, netVars
<1>7. CASE ToggleDryRun
  BY <1>7, SameVersion DEF ToggleDryRun, netVars
<1> QED
  BY <1>1, <1>2, <1>3, <1>4, <1>5, <1>6, <1>7

----------------------------------------------------------------------------
(* The invariant and what follows from it.                                   *)

LEMMA InitIInv == Init => IInv
<1> SUFFICES ASSUME Init PROVE IInv
  OBVIOUS
<1>1. /\ qbo.token = 0 /\ txn.token = 0
      /\ qbo.at \in Categories => qbo.by = "post"
      /\ \A c \in Calls : /\ pc[c] = "idle" /\ wire[c] = None
                          /\ seen[c].version = 0 /\ answer[c].token = 0
  BY BoundsAssumption DEF Init, Blank, NoAnswer
<1>2. Known(0)
  BY <1>1 DEF Known
<1>3. CategoryKnown /\ VersionsKnown /\ WritesKnown
  BY <1>1, <1>2 DEF CategoryKnown, VersionsKnown, WritesKnown, Posting
<1> QED
  BY <1>3, InitTypes DEF IInv

LEMMA NextIInv == IInv /\ [Next]_vars => IInv'
<1> SUFFICES ASSUME IInv, [Next]_vars PROVE IInv'
  OBVIOUS
<1>1. TypeOK'
  BY NextTypes DEF IInv
<1>2. Rest'
  <2>1. CASE UNCHANGED vars
    BY <2>1 DEF vars, Rest, IInv, CategoryKnown, VersionsKnown, WritesKnown, Known, Posts, Undoes
  <2>2. CASE Next
    BY <2>2, PostVersions, UndoVersions, SettleVersions, SyncVersions, WorldVersions
       DEF Next, Start, Step
  <2> QED
    BY <2>1, <2>2
<1> QED
  BY <1>1, <1>2 DEF IInv, Rest

\* Only QuickBooks taking a request, and a person, make a version.
LEMMA OnlyWrites ==
  ASSUME Next, qbo' # qbo
  PROVE  EditInQuickBooks \/ \E c \in Calls : Land(c)
<1>1. ASSUME NEW c \in Calls, Start(c) \/ Step(c) \/ Lose(c) \/ Crash(c) PROVE qbo' = qbo
  BY <1>1 DEF Start, Step, UndoRead, RetryRead, CategorizeRead, ListHolding, PostRead, PostClaim,
     PostFetch, PostSend, PostAnswered, UndoFetch, UndoSend, UndoAnswered, Classify, RetryFetch,
     Settle, SettleFails, CategorizeWrite, Mirror, AutoStage, ReadOpenRow, Supersede, Lose, Crash
<1>2. Age \/ Sweep \/ ToggleDryRun => qbo' = qbo
  BY DEF Age, Sweep, ToggleDryRun
<1> QED
  BY <1>1, <1>2 DEF Next

\* A version made by one of our requests replaces the one the request names.
LEMMA Replaced ==
  ASSUME IInv, [Next]_vars, qbo'.token # qbo.token, qbo'.by # "outside"
  PROVE  \E c \in Calls : /\ wire[c] # None /\ wire[c].base = qbo.token
                          /\ qbo'.by = wire[c].op /\ qbo'.amount = wire[c].amount
<1>1. Next /\ qbo' # qbo
  BY DEF vars
<1>2. ~EditInQuickBooks
  BY DEF EditInQuickBooks
<1>3. PICK c \in Calls : Land(c)
  BY <1>1, <1>2, OnlyWrites
<1> QED
  BY <1>3 DEF Land

\* Every handler, request and version keeps to its type: rows, answers and what
\* the handlers remember (the handlers of writeback.ts, sync.ts and scheduler.ts).
THEOREM Typing == Spec => []TypeOK
<1>1. IInv => TypeOK
  BY DEF IInv
<1> QED
  BY <1>1, InitIInv, NextIInv, PTL DEF Spec

\* For any number of posts, undos, retries, syncs and edits: a post that takes
\* effect replaces lines that are held and add up to what it writes
\* (postTransaction, whose amount is that of the row when it was read).
THEOREM TotalsKept == Spec => PostKeepsTheTotal
<1>1. IInv /\ [Next]_vars =>
        [qbo'.token # qbo.token /\ qbo'.by = "post" =>
           qbo.at = Held /\ qbo'.amount = qbo.amount]_vars
  <2> SUFFICES ASSUME IInv, [Next]_vars, qbo'.token # qbo.token, qbo'.by = "post"
               PROVE  qbo.at = Held /\ qbo'.amount = qbo.amount
    OBVIOUS
  <2>1. PICK c \in Calls : /\ wire[c] # None /\ wire[c].base = qbo.token
                           /\ wire[c].op = "post" /\ qbo'.amount = wire[c].amount
    BY Replaced
  <2> QED
    BY <2>1 DEF IInv, WritesKnown, Posts
<1> QED
  BY <1>1, InitIInv, NextIInv, PTL DEF Spec, PostKeepsTheTotal

\* For any number of them: an undo that takes effect replaces what a post wrote,
\* never an edit made since (undoPost, which compares the SyncToken of the row,
\* although sync mirrors the tokens of edits into it).
THEOREM EditsSpared == Spec => UndoSparesEdits
<1>1. IInv /\ [Next]_vars =>
        [qbo'.token # qbo.token /\ qbo'.by = "undo" => qbo.by = "post"]_vars
  <2> SUFFICES ASSUME IInv, [Next]_vars, qbo'.token # qbo.token, qbo'.by = "undo"
               PROVE  qbo.by = "post"
    OBVIOUS
  <2>1. PICK c \in Calls : wire[c] # None /\ wire[c].base = qbo.token /\ wire[c].op = "undo"
    BY Replaced
  <2> QED
    BY <2>1 DEF IInv, WritesKnown, Undoes
<1> QED
  BY <1>1, InitIInv, NextIInv, PTL DEF Spec, UndoSparesEdits
=============================================================================
