----------------------- MODULE DurableWritebackProofs -----------------------
(* Proofs about DurableWriteback for any sets of calls and requests and any   *)
(* bounds: the types, that what may have been sent is what is staged, the     *)
(* refinement of AtMostOnceWrite, and that the row, its attempts and the      *)
(* entity in QuickBooks tell the same story.                                  *)
(*                                                                            *)
(* The argument, in four layers.                                              *)
(*                                                                            *)
(* IInv.  A call that has renewed its lease saw no staging transaction open   *)
(* (Renew waits for it), and as long as its attempt stays PREPARED none can   *)
(* open (StageCas looks for active attempts): StageSafe.  So the revision it  *)
(* compares afterwards still is the one of the row when the attempt turns     *)
(* COMMITTING, and from then on the attempt itself keeps staging out:         *)
(* NotRestaged.  Only an autopilot attempt can leave PREPARED and come back   *)
(* while a call is on its way; auth then names another call.                  *)
(*                                                                            *)
(* VersionInv.  QuickBooks never reuses a SyncToken, so what a call has read  *)
(* of a version stays true of it; every settling transaction stores a token   *)
(* together with what was read of it.                                         *)
(*                                                                            *)
(* WrittenInv.  A content that was read is there only because a request with  *)
(* it was applied.                                                            *)
(*                                                                            *)
(* StoryInv.  At most one attempt is active, and the status of the row says   *)
(* which of its writes took effect: as long as nobody presses retry.          *)
EXTENDS DurableWriteback, FiniteSetTheorems, TLAPS

\* The operations that can be at a step.
KindOK(c) ==
  /\ pc[c] = "acquire" => kind[c] \in {"commit", "live", "undo", "reconcile"} \cup Stagers
  /\ pc[c] = "row" => kind[c] = "supersede"
  /\ pc[c] \in {"find", "dry", "prepare", "persist"} => kind[c] \in {"commit", "live", "undo"}
  /\ pc[c] \in {"load", "renew", "reload", "readback", "verified"} =>
       kind[c] \in Writers \cup {"reconcile"}
  /\ pc[c] = "renewStage" => kind[c] = "live"
  /\ pc[c] \in {"prove", "transition", "giveUp", "send", "sent", "uncertain"} =>
       kind[c] \in Writers
  /\ pc[c] \in {"unchanged", "mismatch"} => kind[c] = "reconcile"
  /\ pc[c] \in {"fence", "cas"} => kind[c] \in Stagers
  /\ pc[c] = "commitStage" => kind[c] = "stage"
  /\ pc[c] \in {"barrier", "fetch", "requeue", "drop"} => kind[c] = "retry"

Lives == {"live", "liveResume"}
Resumes == {"resume", "liveResume", "undoResume", "reconcile"}

\* The steps at which the attempt of the request exists.
Persisted == {"renew", "reload", "prove", "renewStage", "transition", "giveUp", "send",
              "sent", "readback", "verified", "unchanged", "mismatch", "uncertain"}

\* c is in the middle of an operation on a request.
OnRequest(c) ==
  pc[c] \notin {"idle", "release"} /\ kind[c] \in Writers \cup {"reconcile"}

CallsOK ==
  \A c \in Calls :
    /\ KindOK(c)
    /\ OnRequest(c) =>
         /\ req[c] \in Requests
         /\ kind[c] \in Lives => req[c] \in LiveRequests
         /\ kind[c] \in Writers \ Lives => req[c] \notin LiveRequests
         /\ pc[c] \in Persisted \/ kind[c] \in Resumes => attempt[req[c]].status # "NONE"
    /\ kind[c] = "stage" /\ pc[c] # "idle" => rev[c] \in 1 .. MaxRevision - 1

\* c is between the renewal of its lease and the end of the transition.
Checking == {"reload", "prove", "renewStage", "transition"}

StageSafe ==
  \A c \in Calls :
    /\ pc[c] \in Checking /\ kind[c] \in Writers
    /\ attempt[req[c]].status = "PREPARED"
    /\ kind[c] \in Lives => auth[req[c]] = c
    => /\ RowFree
       /\ pc[c] # "reload" => txn.revision = attempt[req[c]].rev

NotRestaged ==
  \A r \in Requests : attempt[r].status \in Unresolved =>
    RowFree /\ txn.revision = attempt[r].rev

\* A request is sent by the one call that made its attempt COMMITTING.
Sendable == Unresolved \cup {"VERIFIED", "UNCHANGED"}
SentByOne ==
  /\ \A c \in Calls : pc[c] = "send" =>
       /\ attempt[req[c]].status \in Sendable
       /\ sends[req[c]] = 0
       /\ \A d \in Calls : pc[d] = "send" /\ req[d] = req[c] => d = c
  /\ \A r \in Requests : attempt[r].status \notin Sendable => sends[r] = 0

IInv ==
  /\ TypeOK
  /\ CallsOK
  /\ StageSafe
  /\ NotRestaged
  /\ SentByOne
----------------------------------------------------------------------------
(* Frames: what a step cannot disturb.                                       *)

LEMMA InitIInv == Init => IInv
<1> SUFFICES ASSUME Init PROVE IInv
  OBVIOUS
<1> USE NoneAssumption, BoundsAssumption DEF Init
<1>1. TypeOK
  <2>1. txn \in [status : RowStatus, revision : 1 .. MaxRevision, token : Tokens]
    BY DEF RowStatus, Tokens
  <2>2. NoAttempt \in [status : AttemptStatus, op : {"recategorize", "restore"},
                       rev : 0 .. MaxRevision, token : Tokens,
                       before : Contents, target : Contents]
    BY DEF NoAttempt, AttemptStatus, Contents, Held, Tokens
  <2>3. qbo \in [content : Contents, token : Tokens]
    BY DEF Contents, Held, Tokens
  <2>4. Unread \in [status : RowStatus, token : Tokens]
    BY DEF Unread, RowStatus, Tokens
  <2>5. attempt \in [Requests -> [status : AttemptStatus, op : {"recategorize", "restore"},
                                rev : 0 .. MaxRevision, token : Tokens,
                                before : Contents, target : Contents]]
    BY <2>2
  <2>6. sends \in [Requests -> 0 .. 1] /\ rev \in [Calls -> 0 .. MaxRevision]
    OBVIOUS
  <2>7. seen \in [Calls -> [status : RowStatus, token : Tokens]] /\ got \in [Calls -> Tokens]
    BY <2>4 DEF Tokens
  <2>8. pc \in [Calls -> Steps] /\ kind \in [Calls -> AllKinds]
    BY DEF Steps, AllKinds, Writers, Commits
  <2>9. lease \in [holder : Calls \cup {None}, live : BOOLEAN]
    OBVIOUS
  <2>10. auth \in [Requests -> Calls \cup {None}] /\ req \in [Calls -> Requests \cup {None}]
         /\ dryRun \in BOOLEAN /\ wire \subseteq Requests /\ landed \subseteq Requests
    OBVIOUS
  <2> QED
    BY <2>1, <2>3, <2>5, <2>6, <2>7, <2>8, <2>9, <2>10 DEF TypeOK
<1>2. CallsOK
  BY DEF CallsOK, KindOK, OnRequest, AllKinds, Writers, Commits
<1>3. StageSafe /\ NotRestaged /\ SentByOne
  BY DEF StageSafe, Checking, NotRestaged, NoAttempt, Unresolved, SentByOne
<1> QED
  BY <1>1, <1>2, <1>3 DEF IInv

\* What a call remembers of the row it loaded, or forgets.
LEMMA SeenType ==
  ASSUME TypeOK
  PROVE  /\ [status |-> txn.status, token |-> txn.token] \in [status : RowStatus, token : Tokens]
         /\ Unread \in [status : RowStatus, token : Tokens]
<1>1. txn.status \in RowStatus /\ txn.token \in Tokens
  BY DEF TypeOK
<1>2. Unread \in [status : RowStatus, token : Tokens]
  BY DEF Unread, RowStatus, Tokens
<1> QED
  BY <1>1, <1>2

\* The types of what calls keep for themselves, and of what they share.
LocalTypes ==
  /\ pc \in [Calls -> Steps]
  /\ kind \in [Calls -> AllKinds]
  /\ req \in [Calls -> Requests \cup {None}]
  /\ rev \in [Calls -> 0 .. MaxRevision]
  /\ seen \in [Calls -> [status : RowStatus, token : Tokens]]
  /\ got \in [Calls -> Tokens]

SharedTypes ==
  /\ txn \in [status : RowStatus, revision : 1 .. MaxRevision, token : Tokens]
  /\ attempt \in [Requests -> [status : AttemptStatus, op : {"recategorize", "restore"},
                                rev : 0 .. MaxRevision, token : Tokens,
                                before : Contents, target : Contents]]
  /\ qbo \in [content : Contents, token : Tokens]
  /\ wire \subseteq Requests /\ landed \subseteq Requests
  /\ sends \in [Requests -> 0 .. 1]
  /\ lease \in [holder : Calls \cup {None}, live : BOOLEAN]
  /\ dryRun \in BOOLEAN
  /\ auth \in [Requests -> Calls \cup {None}]

LEMMA LeaveTypes ==
  ASSUME TypeOK, NEW c \in Calls, Leave(c) \/ End(c)
  PROVE  LocalTypes'
<1>1. Unread \in [status : RowStatus, token : Tokens]
  BY SeenType
<1>2. 0 \in Tokens /\ 0 \in 0 .. MaxRevision /\ None \in Requests \cup {None}
  BY BoundsAssumption DEF Tokens
<1>3. "release" \in Steps /\ "idle" \in Steps /\ "commit" \in AllKinds
  BY DEF Steps, AllKinds, Writers, Commits
<1>4. pc' \in [Calls -> Steps] /\ kind' \in [Calls -> AllKinds]
  <2>1. CASE Leave(c)
    BY <1>3, <2>1 DEF TypeOK, Leave, Go
  <2>2. CASE End(c)
    BY <1>3, <2>2 DEF TypeOK, End, Go
  <2> QED
    BY <2>1, <2>2
<1>5. req' \in [Calls -> Requests \cup {None}]
  BY DEF TypeOK, Leave, End
<1>6. rev' \in [Calls -> 0 .. MaxRevision]
  BY <1>2 DEF TypeOK, Leave, End
<1>7. seen' \in [Calls -> [status : RowStatus, token : Tokens]]
  BY <1>1 DEF TypeOK, Leave, End
<1>8. got' \in [Calls -> Tokens]
  BY <1>2 DEF TypeOK, Leave, End
<1> QED
  BY <1>4, <1>5, <1>6, <1>7, <1>8 DEF LocalTypes

\* Only c moves, the attempts stay, and c neither opens a staging transaction
\* nor gets ready to make its attempt COMMITTING.
LEMMA QuietStep ==
  ASSUME IInv, NEW c \in Calls, UNCHANGED <<attempt, sends>>,
         txn'.revision = txn.revision,
         \A d \in Calls \ {c} :
           pc'[d] = pc[d] /\ kind'[d] = kind[d] /\ req'[d] = req[d],
         pc'[c] \notin Checking \cup {"commitStage", "send"},
         \A r \in Requests : auth'[r] # auth[r] => auth'[r] = c
  PROVE  StageSafe' /\ NotRestaged' /\ SentByOne'
<1>1. RowFree => RowFree'
  BY DEF RowFree
<1>2. NotRestaged'
  BY <1>1 DEF IInv, NotRestaged
<1>3. SentByOne'
  BY DEF IInv, SentByOne
<1>4. StageSafe'
  <2> SUFFICES ASSUME NEW d \in Calls, pc'[d] \in Checking, kind'[d] \in Writers,
                      attempt[req'[d]].status = "PREPARED",
                      kind'[d] \in Lives => auth'[req'[d]] = d
               PROVE  RowFree' /\ (pc'[d] # "reload" => txn.revision = attempt[req'[d]].rev)
    BY DEF StageSafe
  <2>1. d # c
    OBVIOUS
  <2>2. req[d] \in Requests
    BY <2>1 DEF IInv, CallsOK, OnRequest, Checking
  <2> QED
    BY <1>1, <2>1, <2>2 DEF IInv, StageSafe
<1> QED
  BY <1>2, <1>3, <1>4

----------------------------------------------------------------------------
(* One lemma per step.                                                       *)

LEMMA StartIInv ==
  ASSUME IInv, NEW c \in Calls, Start(c)
  PROVE  IInv'
<1> USE DEF Start, Go, dbVars, qboVars
<1>1. TypeOK'
  BY BoundsAssumption DEF IInv, TypeOK, Steps, AllKinds, Writers, Commits, Undos
<1>2. CallsOK'
  BY DEF IInv, TypeOK, CallsOK, KindOK, OnRequest, Writers, Commits, Undos, Stagers, Lives, Resumes, Persisted
<1>3. StageSafe' /\ NotRestaged' /\ SentByOne'
  BY QuietStep DEF IInv, TypeOK, Checking
<1> QED
  BY <1>1, <1>2, <1>3 DEF IInv

LEMMA AcquireIInv ==
  ASSUME IInv, NEW c \in Calls, Acquire(c)
  PROVE  IInv'
<1> USE DEF Acquire, Go, dbVars, qboVars, localVars
<1>1. TypeOK'
  BY DEF IInv, TypeOK, Steps
<1>2. CallsOK'
  BY DEF IInv, TypeOK, CallsOK, KindOK, OnRequest, Writers, Commits, Undos, Stagers, Lives, Resumes, Persisted
<1>3. StageSafe' /\ NotRestaged' /\ SentByOne'
  BY QuietStep DEF IInv, TypeOK, Checking
<1> QED
  BY <1>1, <1>2, <1>3 DEF IInv

LEMMA LoadRowIInv ==
  ASSUME IInv, NEW c \in Calls, LoadRow(c)
  PROVE  IInv'
<1> USE DEF LoadRow, At, Go, dbVars, qboVars, localVars
<1>1. TypeOK'
  <2>1. SharedTypes'
    BY DEF IInv, TypeOK, SharedTypes
  <2>2. CASE Leave(c)
    BY <2>1, <2>2, LeaveTypes DEF IInv, TypeOK, LocalTypes, SharedTypes
  <2>3. CASE ~Leave(c)
    <3>1. kind' = kind /\ req' = req /\ rev' = rev /\ got' = got
      BY <2>3
    <3>2. pc' \in [Calls -> Steps]
      BY SMTT(30), <2>3 DEF IInv, TypeOK, Steps
    <3>3. seen' \in [Calls -> [status : RowStatus, token : Tokens]]
      BY <2>3, SeenType DEF IInv, TypeOK
    <3> QED
      BY <2>1, <3>1, <3>2, <3>3 DEF IInv, TypeOK, LocalTypes, SharedTypes
  <2> QED
    BY <2>2, <2>3
<1>2. CallsOK'
  BY DEF IInv, TypeOK, CallsOK, KindOK, OnRequest, Writers, Commits, Undos, Stagers, Lives, Resumes, Persisted, Leave
<1>3. StageSafe' /\ NotRestaged' /\ SentByOne'
  BY QuietStep DEF IInv, TypeOK, Checking, Leave
<1> QED
  BY <1>1, <1>2, <1>3 DEF IInv

LEMMA StartStageIInv ==
  ASSUME IInv, NEW c \in Calls, StartStage(c)
  PROVE  IInv'
<1> USE DEF StartStage, Go, dbVars, qboVars
<1>1. TypeOK'
  BY BoundsAssumption DEF IInv, TypeOK, Steps, AllKinds, Writers, Commits, Undos, Stagers
<1>2. CallsOK'
  <2>1. txn.revision \in 1 .. MaxRevision /\ (rev'[c] = txn.revision)
    BY DEF IInv, TypeOK
  <2> QED
  BY <2>1, BoundsAssumption DEF IInv, TypeOK, CallsOK, KindOK, OnRequest, Writers, Commits, Undos, Stagers, Lives, Resumes, Persisted
<1>3. StageSafe' /\ NotRestaged' /\ SentByOne'
  BY QuietStep DEF IInv, TypeOK, Checking
<1> QED
  BY <1>1, <1>2, <1>3 DEF IInv

LEMMA ListHoldingIInv ==
  ASSUME IInv, NEW c \in Calls, ListHolding(c)
  PROVE  IInv'
<1> USE DEF ListHolding, Go, dbVars, qboVars
<1>1. TypeOK'
  BY BoundsAssumption DEF IInv, TypeOK, Steps, AllKinds, Writers, Commits, Undos, Stagers
<1>2. CallsOK'
  BY DEF IInv, TypeOK, CallsOK, KindOK, OnRequest, Writers, Commits, Undos, Stagers, Lives, Resumes, Persisted
<1>3. StageSafe' /\ NotRestaged' /\ SentByOne'
  BY QuietStep DEF IInv, TypeOK, Checking
<1> QED
  BY <1>1, <1>2, <1>3 DEF IInv

LEMMA ReadOpenRowIInv ==
  ASSUME IInv, NEW c \in Calls, ReadOpenRow(c)
  PROVE  IInv'
<1> USE DEF ReadOpenRow, At, Go, dbVars, qboVars
<1>1. TypeOK'
  <2>1. SharedTypes'
    BY DEF IInv, TypeOK, SharedTypes
  <2>2. CASE End(c)
    BY <2>1, <2>2, LeaveTypes DEF IInv, TypeOK, LocalTypes, SharedTypes
  <2>3. CASE ~End(c)
    <3>1. pc' \in [Calls -> Steps]
      BY <2>3 DEF IInv, TypeOK, Steps
    <3>2. seen' \in [Calls -> [status : RowStatus, token : Tokens]]
      BY <2>3, SeenType DEF IInv, TypeOK
    <3>3. rev' \in [Calls -> 0 .. MaxRevision]
      BY <2>3, BoundsAssumption DEF IInv, TypeOK
    <3> QED
      BY <2>1, <2>3, <3>1, <3>2, <3>3 DEF IInv, TypeOK, SharedTypes
  <2> QED
    BY <2>2, <2>3
<1>2. CallsOK'
  BY SMTT(30) DEF IInv, TypeOK, CallsOK, KindOK, OnRequest, Writers, Commits, Undos, Stagers, Lives, Resumes, Persisted, End
<1>3. StageSafe' /\ NotRestaged' /\ SentByOne'
  BY SMTT(30), QuietStep DEF IInv, TypeOK, Checking, End
<1> QED
  BY <1>1, <1>2, <1>3 DEF IInv

LEMMA BusyIInv ==
  ASSUME IInv, NEW c \in Calls, Busy(c)
  PROVE  IInv'
<1> USE DEF Busy, dbVars, qboVars
<1>1. TypeOK'
  BY LeaveTypes DEF IInv, TypeOK, LocalTypes
<1>2. CallsOK'
  BY DEF End, Go, IInv, TypeOK, CallsOK, KindOK, OnRequest, Writers, Commits, Undos, Stagers, Lives, Resumes, Persisted
<1>3. StageSafe' /\ NotRestaged' /\ SentByOne'
  BY QuietStep DEF End, Go, IInv, TypeOK, Checking
<1> QED
  BY <1>1, <1>2, <1>3 DEF IInv

LEMMA CrashIInv ==
  ASSUME IInv, NEW c \in Calls, Crash(c)
  PROVE  IInv'
<1> USE DEF Crash, dbVars, qboVars
<1>1. TypeOK'
  BY LeaveTypes DEF IInv, TypeOK, LocalTypes
<1>2. CallsOK'
  BY DEF End, Go, IInv, TypeOK, CallsOK, KindOK, OnRequest, Writers, Commits, Undos, Stagers, Lives, Resumes, Persisted
<1>3. StageSafe' /\ NotRestaged' /\ SentByOne'
  BY QuietStep DEF End, Go, IInv, TypeOK, Checking
<1> QED
  BY <1>1, <1>2, <1>3 DEF IInv

LEMMA ReleaseLeaseIInv ==
  ASSUME IInv, NEW c \in Calls, ReleaseLease(c)
  PROVE  IInv'
<1> USE DEF ReleaseLease, Go, dbVars, qboVars, localVars
<1>1. TypeOK'
  BY BoundsAssumption DEF IInv, TypeOK, Steps, AllKinds, Writers, Commits, Undos, Stagers
<1>2. CallsOK'
  BY DEF IInv, TypeOK, CallsOK, KindOK, OnRequest, Writers, Commits, Undos, Stagers, Lives, Resumes, Persisted
<1>3. StageSafe' /\ NotRestaged' /\ SentByOne'
  BY QuietStep DEF IInv, TypeOK, Checking
<1> QED
  BY <1>1, <1>2, <1>3 DEF IInv

LEMMA FindUndoIInv ==
  ASSUME IInv, NEW c \in Calls, FindUndo(c)
  PROVE  IInv'
<1> USE DEF FindUndo, At, Go, dbVars, qboVars
<1>1. TypeOK'
  <2>1. SharedTypes'
    BY DEF IInv, TypeOK, SharedTypes
  <2>2. CASE Leave(c)
    BY <2>1, <2>2, LeaveTypes DEF IInv, TypeOK, LocalTypes, SharedTypes
  <2>3. CASE ~Leave(c)
    <3>1. pc' \in [Calls -> Steps] /\ kind' \in [Calls -> AllKinds]
      BY <2>3 DEF IInv, TypeOK, Steps, AllKinds, Writers, Undos
    <3>2. rev' \in [Calls -> 0 .. MaxRevision]
      BY <2>3 DEF IInv, TypeOK
    <3> QED
      BY <2>1, <2>3, <3>1, <3>2 DEF IInv, TypeOK, SharedTypes
  <2> QED
    BY <2>2, <2>3
<1>2. CallsOK'
  BY DEF IInv, TypeOK, CallsOK, KindOK, OnRequest, Writers, Commits, Undos, Stagers, Lives, Resumes, Persisted, Leave
<1>3. StageSafe' /\ NotRestaged' /\ SentByOne'
  BY QuietStep DEF IInv, TypeOK, Checking, Leave
<1> QED
  BY <1>1, <1>2, <1>3 DEF IInv

LEMMA PrepareIInv ==
  ASSUME IInv, NEW c \in Calls, Prepare(c)
  PROVE  IInv'
<1> USE DEF Prepare, Go, dbVars, qboVars, localVars
<1>1. TypeOK'
  <2>1. SharedTypes'
    BY DEF IInv, TypeOK, SharedTypes
  <2>2. CASE Leave(c)
    BY <2>1, <2>2, LeaveTypes DEF IInv, TypeOK, LocalTypes, SharedTypes
  <2>3. CASE ~Leave(c)
    <3>1. kind' = kind /\ req' = req /\ rev' = rev /\ seen' = seen /\ got' = got
      BY <2>3
    <3>2. pc' \in [Calls -> Steps]
      BY SMTT(30), <2>3 DEF IInv, TypeOK, Steps
    <3> QED
      BY <2>1, <3>1, <3>2 DEF IInv, TypeOK, LocalTypes, SharedTypes
  <2> QED
    BY <2>2, <2>3
<1>2. CallsOK'
  BY DEF IInv, TypeOK, CallsOK, KindOK, OnRequest, Writers, Commits, Undos, Stagers, Lives, Resumes, Persisted, Leave
<1>3. StageSafe' /\ NotRestaged' /\ SentByOne'
  BY SMTT(30), QuietStep DEF IInv, TypeOK, Checking, Leave
<1> QED
  BY <1>1, <1>2, <1>3 DEF IInv

LEMMA AnsweredIInv ==
  ASSUME IInv, NEW c \in Calls, Answered(c)
  PROVE  IInv'
<1> USE DEF Answered, Go, dbVars, qboVars, localVars
<1>1. TypeOK'
  BY BoundsAssumption DEF IInv, TypeOK, Steps, AllKinds, Writers, Commits, Undos, Stagers
<1>2. CallsOK'
  BY DEF IInv, TypeOK, CallsOK, KindOK, OnRequest, Writers, Commits, Undos, Stagers, Lives, Resumes, Persisted
<1>3. StageSafe' /\ NotRestaged' /\ SentByOne'
  BY QuietStep DEF IInv, TypeOK, Checking
<1> QED
  BY <1>1, <1>2, <1>3 DEF IInv

LEMMA ReadbackIInv ==
  ASSUME IInv, NEW c \in Calls, Readback(c)
  PROVE  IInv'
<1> USE DEF Readback, At, Go, dbVars, qboVars, localVars
<1>1. TypeOK'
  BY BoundsAssumption DEF IInv, TypeOK, Steps, AllKinds, Writers, Commits, Undos, Stagers
<1>2. CallsOK'
  BY DEF IInv, TypeOK, CallsOK, KindOK, OnRequest, Writers, Commits, Undos, Stagers, Lives, Resumes, Persisted
<1>3. StageSafe' /\ NotRestaged' /\ SentByOne'
  BY QuietStep DEF IInv, TypeOK, Checking
<1> QED
  BY <1>1, <1>2, <1>3 DEF IInv

LEMMA ReconcileLoadIInv ==
  ASSUME IInv, NEW c \in Calls, ReconcileLoad(c)
  PROVE  IInv'
<1> USE DEF ReconcileLoad, At, Go, dbVars, qboVars, localVars
<1>1. TypeOK'
  <2>1. SharedTypes'
    BY DEF IInv, TypeOK, SharedTypes
  <2>2. CASE Leave(c)
    BY <2>1, <2>2, LeaveTypes DEF IInv, TypeOK, LocalTypes, SharedTypes
  <2>3. CASE ~Leave(c)
    <3>1. pc' \in [Calls -> Steps]
      BY <2>3 DEF IInv, TypeOK, Steps
    <3>2. seen' \in [Calls -> [status : RowStatus, token : Tokens]]
      BY <2>3, SeenType DEF IInv, TypeOK
    <3> QED
      BY <2>1, <2>3, <3>1, <3>2 DEF IInv, TypeOK, SharedTypes
  <2> QED
    BY <2>2, <2>3
<1>2. CallsOK'
  BY DEF IInv, TypeOK, CallsOK, KindOK, OnRequest, Writers, Commits, Undos, Stagers, Lives, Resumes, Persisted, Leave
<1>3. StageSafe' /\ NotRestaged' /\ SentByOne'
  BY SMTT(30), QuietStep DEF IInv, TypeOK, Checking, Leave
<1> QED
  BY <1>1, <1>2, <1>3 DEF IInv

LEMMA ReconcileReloadIInv ==
  ASSUME IInv, NEW c \in Calls, ReconcileReload(c)
  PROVE  IInv'
<1> USE DEF ReconcileReload, At, Go, dbVars, qboVars, localVars
<1>1. TypeOK'
  <2>1. SharedTypes'
    BY DEF IInv, TypeOK, SharedTypes
  <2>2. CASE Leave(c)
    BY <2>1, <2>2, LeaveTypes DEF IInv, TypeOK, LocalTypes, SharedTypes
  <2>3. CASE ~Leave(c)
    <3>1. kind' = kind /\ req' = req /\ rev' = rev /\ seen' = seen /\ got' = got
      BY <2>3
    <3>2. pc' \in [Calls -> Steps]
      BY SMTT(30), <2>3 DEF IInv, TypeOK, Steps
    <3> QED
      BY <2>1, <3>1, <3>2 DEF IInv, TypeOK, LocalTypes, SharedTypes
  <2> QED
    BY <2>2, <2>3
<1>2. CallsOK'
  BY DEF IInv, TypeOK, CallsOK, KindOK, OnRequest, Writers, Commits, Undos, Stagers, Lives, Resumes, Persisted, Leave
<1>3. StageSafe' /\ NotRestaged' /\ SentByOne'
  BY SMTT(30), QuietStep DEF IInv, TypeOK, Checking, Leave
<1> QED
  BY <1>1, <1>2, <1>3 DEF IInv

LEMMA ReconcileReadIInv ==
  ASSUME IInv, NEW c \in Calls, ReconcileRead(c)
  PROVE  IInv'
<1> USE DEF ReconcileRead, At, Go, dbVars, qboVars, localVars
<1>1. TypeOK'
  <2>1. SharedTypes'
    BY DEF IInv, TypeOK, SharedTypes
  <2>2. CASE Leave(c)
    BY <2>1, <2>2, LeaveTypes DEF IInv, TypeOK, LocalTypes, SharedTypes
  <2>3. CASE ~Leave(c)
    <3>1. kind' = kind /\ req' = req /\ rev' = rev /\ seen' = seen
      BY <2>3
    <3>2. pc' \in [Calls -> Steps]
      BY SMTT(30), <2>3 DEF IInv, TypeOK, Steps
    <3>3. got' \in [Calls -> Tokens]
      BY SMTT(30), <2>3 DEF IInv, TypeOK
    <3> QED
      BY <2>1, <3>1, <3>2, <3>3 DEF IInv, TypeOK, LocalTypes, SharedTypes
  <2> QED
    BY <2>2, <2>3
<1>2. CallsOK'
  BY DEF IInv, TypeOK, CallsOK, KindOK, OnRequest, Writers, Commits, Undos, Stagers, Lives, Resumes, Persisted, Leave
<1>3. StageSafe' /\ NotRestaged' /\ SentByOne'
  BY SMTT(30), QuietStep DEF IInv, TypeOK, Checking, Leave
<1> QED
  BY <1>1, <1>2, <1>3 DEF IInv

LEMMA FenceIInv ==
  ASSUME IInv, NEW c \in Calls, Fence(c)
  PROVE  IInv'
<1> USE DEF Fence, Go, dbVars, qboVars, localVars
<1>1. TypeOK'
  <2>1. SharedTypes'
    BY DEF IInv, TypeOK, SharedTypes
  <2>2. CASE Leave(c)
    BY <2>1, <2>2, LeaveTypes DEF IInv, TypeOK, LocalTypes, SharedTypes
  <2>3. CASE ~Leave(c)
    BY <2>1, <2>3, SeenType, BoundsAssumption
       DEF IInv, TypeOK, SharedTypes, Steps, AllKinds, Writers, Commits, Undos, Stagers
  <2> QED
    BY <2>2, <2>3
<1>2. CallsOK'
  BY DEF IInv, TypeOK, CallsOK, KindOK, OnRequest, Writers, Commits, Undos, Stagers, Lives, Resumes, Persisted, Leave
<1>3. StageSafe' /\ NotRestaged' /\ SentByOne'
  BY SMTT(30), QuietStep DEF IInv, TypeOK, Checking, Leave
<1> QED
  BY <1>1, <1>2, <1>3 DEF IInv

LEMMA SettleFailsIInv ==
  ASSUME IInv, NEW c \in Calls, SettleFails(c)
  PROVE  IInv'
<1> USE DEF SettleFails, Go, dbVars, qboVars, localVars, Refused
<1>1. TypeOK'
  <2>1. SharedTypes'
    BY DEF IInv, TypeOK, SharedTypes
  <2>2. CASE Leave(c)
    BY <2>1, <2>2, LeaveTypes DEF IInv, TypeOK, LocalTypes, SharedTypes
  <2>3. CASE ~Leave(c)
    BY <2>1, <2>3, SeenType, BoundsAssumption
       DEF IInv, TypeOK, SharedTypes, Steps, AllKinds, Writers, Commits, Undos, Stagers
  <2> QED
    BY <2>2, <2>3
<1>2. CallsOK'
  BY DEF IInv, TypeOK, CallsOK, KindOK, OnRequest, Writers, Commits, Undos, Stagers, Lives, Resumes, Persisted, Leave
<1>3. StageSafe' /\ NotRestaged' /\ SentByOne'
  BY SMTT(30), QuietStep DEF IInv, TypeOK, Checking, Leave
<1> QED
  BY <1>1, <1>2, <1>3 DEF IInv

LEMMA RetryReadIInv ==
  ASSUME IInv, NEW c \in Calls, RetryRead(c)
  PROVE  IInv'
<1> USE DEF RetryRead, Go, dbVars, qboVars
<1>1. TypeOK'
  BY BoundsAssumption DEF IInv, TypeOK, Steps, AllKinds, Writers, Commits, Undos, Stagers
<1>2. CallsOK'
  BY DEF IInv, TypeOK, CallsOK, KindOK, OnRequest, Writers, Commits, Undos, Stagers, Lives, Resumes, Persisted
<1>3. StageSafe' /\ NotRestaged' /\ SentByOne'
  BY QuietStep DEF IInv, TypeOK, Checking
<1> QED
  BY <1>1, <1>2, <1>3 DEF IInv

LEMMA RetryBarrierIInv ==
  ASSUME IInv, NEW c \in Calls, RetryBarrier(c)
  PROVE  IInv'
<1> USE DEF RetryBarrier, Go, dbVars, qboVars, localVars
<1>1. TypeOK'
  <2>1. SharedTypes'
    BY DEF IInv, TypeOK, SharedTypes
  <2>2. CASE End(c)
    BY <2>1, <2>2, LeaveTypes DEF IInv, TypeOK, LocalTypes, SharedTypes
  <2>3. CASE ~End(c)
    BY <2>1, <2>3, SeenType, BoundsAssumption
       DEF IInv, TypeOK, SharedTypes, Steps, AllKinds, Writers, Commits, Undos, Stagers
  <2> QED
    BY <2>2, <2>3
<1>2. CallsOK'
  BY DEF IInv, TypeOK, CallsOK, KindOK, OnRequest, Writers, Commits, Undos, Stagers, Lives, Resumes, Persisted, End
<1>3. StageSafe' /\ NotRestaged' /\ SentByOne'
  BY SMTT(30), QuietStep DEF IInv, TypeOK, Checking, End
<1> QED
  BY <1>1, <1>2, <1>3 DEF IInv

LEMMA RetryFetchIInv ==
  ASSUME IInv, NEW c \in Calls, RetryFetch(c)
  PROVE  IInv'
<1> USE DEF RetryFetch, Go, dbVars, qboVars
<1>1. TypeOK'
  BY BoundsAssumption DEF IInv, TypeOK, Steps, AllKinds, Writers, Commits, Undos, Stagers
<1>2. CallsOK'
  BY DEF IInv, TypeOK, CallsOK, KindOK, OnRequest, Writers, Commits, Undos, Stagers, Lives, Resumes, Persisted
<1>3. StageSafe' /\ NotRestaged' /\ SentByOne'
  BY QuietStep DEF IInv, TypeOK, Checking
<1> QED
  BY <1>1, <1>2, <1>3 DEF IInv

\* A status changes and nothing else of the attempts.
LEMMA StatusTypes ==
  ASSUME TypeOK, NEW r \in Requests, NEW s \in AttemptStatus, SetStatus(r, s)
  PROVE  /\ attempt' \in [Requests -> [status : AttemptStatus, op : {"recategorize", "restore"},
                                rev : 0 .. MaxRevision, token : Tokens,
                                before : Contents, target : Contents]]
         /\ attempt'[r].status = s /\ attempt'[r].rev = attempt[r].rev
         /\ \A q \in Requests \ {r} : attempt'[q] = attempt[q]
<1> USE DEF SetStatus
<1>1. attempt[r] \in [status : AttemptStatus, op : {"recategorize", "restore"},
                      rev : 0 .. MaxRevision, token : Tokens,
                      before : Contents, target : Contents]
  BY DEF TypeOK
<1>2. attempt' = [attempt EXCEPT ![r] = [attempt[r] EXCEPT !.status = s]]
  BY DEF TypeOK
<1>3. [attempt[r] EXCEPT !.status = s]
        \in [status : AttemptStatus, op : {"recategorize", "restore"},
             rev : 0 .. MaxRevision, token : Tokens, before : Contents, target : Contents]
  BY <1>1
<1>4. attempt'[r] = [attempt[r] EXCEPT !.status = s]
  BY <1>2 DEF TypeOK
<1> QED
  BY <1>1, <1>2, <1>3, <1>4 DEF TypeOK

\* Like QuietStep, but c also changes attempt r: it was not sendable and does not
\* become so, or it was unresolved and stays sendable.  A PREPARED attempt is new,
\* or no other call that is checking it may go on.
LEMMA AttemptStep ==
  ASSUME IInv, NEW c \in Calls, NEW r \in Requests, UNCHANGED <<auth, sends>>,
         txn'.revision = txn.revision,
         \A d \in Calls \ {c} :
           pc'[d] = pc[d] /\ kind'[d] = kind[d] /\ req'[d] = req[d],
         pc'[c] \notin Checking \cup {"commitStage", "send"},
         \A q \in Requests \ {r} : attempt'[q] = attempt[q],
         attempt'[r].status \in Sendable <=> attempt[r].status \in Sendable,
         attempt'[r].status \in Unresolved =>
           attempt[r].status \in Unresolved /\ attempt'[r].rev = attempt[r].rev,
         attempt'[r].status = "PREPARED" =>
           attempt[r].status = "NONE" \/ (r \in LiveRequests /\ auth[r] = c)
  PROVE  StageSafe' /\ NotRestaged' /\ SentByOne'
<1>1. RowFree => RowFree'
  BY DEF RowFree
<1>2. NotRestaged'
  BY <1>1 DEF IInv, NotRestaged
<1>3. SentByOne'
  <2>1. \A d \in Calls : pc'[d] = "send" => d # c /\ pc[d] = "send" /\ req'[d] = req[d]
                                            /\ req[d] \in Requests
    BY DEF IInv, CallsOK, KindOK, OnRequest
  <2>2. \A q \in Requests : attempt'[q].status \in Sendable <=> attempt[q].status \in Sendable
    OBVIOUS
  <2> QED
    BY <2>1, <2>2 DEF IInv, SentByOne
<1>4. StageSafe'
  <2> SUFFICES ASSUME NEW d \in Calls, pc'[d] \in Checking, kind'[d] \in Writers,
                      attempt'[req'[d]].status = "PREPARED",
                      kind'[d] \in Lives => auth'[req'[d]] = d
               PROVE  RowFree' /\ (pc'[d] # "reload" => txn.revision = attempt'[req'[d]].rev)
    BY DEF StageSafe
  <2>1. d # c /\ pc[d] \in Checking /\ kind[d] \in Writers /\ req'[d] = req[d]
        /\ kind'[d] = kind[d]
    OBVIOUS
  <2>2. /\ req[d] \in Requests /\ attempt[req[d]].status # "NONE"
        /\ kind[d] \in Writers \ Lives => req[d] \notin LiveRequests
    BY <2>1 DEF IInv, CallsOK, OnRequest, Checking, Persisted
  <2>3. req[d] # r
    BY <2>1, <2>2
  <2> QED
    BY <1>1, <2>1, <2>2, <2>3 DEF IInv, StageSafe
<1> QED
  BY <1>2, <1>3, <1>4

LEMMA MirrorIInv ==
  ASSUME IInv, NEW c \in Calls, Mirror(c)
  PROVE  IInv'
<1> USE DEF Mirror, At, qboVars
<1>1. /\ txn' \in [status : RowStatus, revision : 1 .. MaxRevision, token : Tokens]
      /\ txn'.revision = txn.revision
  BY DEF IInv, TypeOK, RowStatus
<1>2. TypeOK'
  BY <1>1, LeaveTypes DEF IInv, TypeOK, LocalTypes
<1>3. CallsOK'
  BY DEF Leave, Go, IInv, TypeOK, CallsOK, KindOK, OnRequest, Writers, Commits, Undos, Stagers, Lives, Resumes, Persisted
<1>4. StageSafe' /\ NotRestaged' /\ SentByOne'
  BY <1>1, QuietStep DEF Leave, Go, IInv, TypeOK, Checking
<1> QED
  BY <1>2, <1>3, <1>4 DEF IInv

LEMMA SupersedeIInv ==
  ASSUME IInv, NEW c \in Calls, Supersede(c)
  PROVE  IInv'
<1> USE DEF Supersede, At, qboVars
<1>1. /\ txn' \in [status : RowStatus, revision : 1 .. MaxRevision, token : Tokens]
      /\ txn'.revision = txn.revision
  BY DEF IInv, TypeOK, RowStatus
<1>2. TypeOK'
  BY <1>1, LeaveTypes DEF IInv, TypeOK, LocalTypes
<1>3. CallsOK'
  BY DEF Leave, Go, IInv, TypeOK, CallsOK, KindOK, OnRequest, Writers, Commits, Undos, Stagers, Lives, Resumes, Persisted
<1>4. StageSafe' /\ NotRestaged' /\ SentByOne'
  BY <1>1, QuietStep DEF Leave, Go, IInv, TypeOK, Checking
<1> QED
  BY <1>2, <1>3, <1>4 DEF IInv

LEMMA RetryWriteIInv ==
  ASSUME IInv, NEW c \in Calls, RetryWrite(c)
  PROVE  IInv'
<1> USE DEF RetryWrite, qboVars
<1>1. /\ txn' \in [status : RowStatus, revision : 1 .. MaxRevision, token : Tokens]
      /\ txn'.revision = txn.revision
  BY DEF IInv, TypeOK, RowStatus
<1>2. TypeOK'
  BY <1>1, LeaveTypes DEF IInv, TypeOK, LocalTypes
<1>3. CallsOK'
  BY DEF End, Go, IInv, TypeOK, CallsOK, KindOK, OnRequest, Writers, Commits, Undos, Stagers, Lives, Resumes, Persisted
<1>4. StageSafe' /\ NotRestaged' /\ SentByOne'
  BY <1>1, QuietStep DEF End, Go, IInv, TypeOK, Checking
<1> QED
  BY <1>2, <1>3, <1>4 DEF IInv

LEMMA StageCasIInv ==
  ASSUME IInv, NEW c \in Calls, StageCas(c)
  PROVE  IInv'
<1> USE DEF StageCas, At, dbVars, qboVars, localVars
<1>1. CASE Leave(c)
  <2>1. TypeOK'
    BY <1>1, LeaveTypes DEF IInv, TypeOK, LocalTypes
  <2>2. CallsOK'
    BY <1>1 DEF Leave, Go, IInv, TypeOK, CallsOK, KindOK, OnRequest, Writers, Commits, Undos, Stagers, Lives, Resumes, Persisted
  <2>3. StageSafe' /\ NotRestaged' /\ SentByOne'
    BY <1>1, QuietStep DEF Leave, Go, IInv, TypeOK, Checking
  <2> QED
    BY <2>1, <2>2, <2>3 DEF IInv
<1>2. CASE ~Leave(c)
  <2> USE <1>2 DEF Go
  <2>1. TypeOK'
    BY DEF IInv, TypeOK, Steps
  <2>2. CallsOK'
    BY DEF IInv, TypeOK, CallsOK, KindOK, OnRequest, Writers, Commits, Undos, Stagers, Lives, Resumes, Persisted
  \* No attempt is active, so nothing is promised about any of them.
  <2>3. \A r \in Requests : attempt'[r].status \notin Active
    BY DEF NoneActive
  <2>4. StageSafe'
    <3> SUFFICES ASSUME NEW d \in Calls, pc'[d] \in Checking, kind'[d] \in Writers,
                        attempt'[req'[d]].status = "PREPARED"
                 PROVE  FALSE
      BY DEF StageSafe
    <3>1. d # c /\ req'[d] = req[d] /\ req[d] \in Requests
      BY DEF IInv, CallsOK, OnRequest, Checking, TypeOK
    <3> QED
      BY <2>3, <3>1 DEF Active
  <2>5. NotRestaged'
    BY <2>3 DEF NotRestaged, Active, Unresolved
  <2>6. SentByOne'
    BY DEF IInv, SentByOne, TypeOK
  <2> QED
    BY <2>1, <2>2, <2>4, <2>5, <2>6 DEF IInv
<1> QED
  BY <1>1, <1>2

LEMMA StageCommitIInv ==
  ASSUME IInv, NEW c \in Calls, StageCommit(c)
  PROVE  IInv'
<1> USE DEF StageCommit, qboVars
<1>1. rev[c] \in 1 .. MaxRevision - 1 /\ ~RowFree
  BY DEF IInv, CallsOK, KindOK, RowFree
<1>2. txn' \in [status : RowStatus, revision : 1 .. MaxRevision, token : Tokens]
  BY <1>1, BoundsAssumption DEF IInv, TypeOK
<1>3. TypeOK'
  BY <1>2, LeaveTypes DEF IInv, TypeOK, LocalTypes
<1>4. CallsOK'
  BY DEF Leave, Go, IInv, TypeOK, CallsOK, KindOK, OnRequest, Writers, Commits, Undos, Stagers, Lives, Resumes, Persisted
\* Its transaction was open: no attempt is unresolved, none is being checked.
<1>5. NotRestaged'
  BY <1>1 DEF IInv, NotRestaged
<1>6. StageSafe'
  <2> SUFFICES ASSUME NEW d \in Calls, pc'[d] \in Checking, kind'[d] \in Writers,
                      attempt'[req'[d]].status = "PREPARED",
                      kind'[d] \in Lives => auth'[req'[d]] = d
               PROVE  FALSE
    BY DEF StageSafe
  <2>1. d # c /\ pc[d] = pc'[d] /\ kind[d] = kind'[d] /\ req'[d] = req[d]
    BY DEF IInv, TypeOK, Checking, Leave, Go
  <2> QED
    BY <1>1, <2>1 DEF IInv, StageSafe
<1>7. SentByOne'
  BY DEF IInv, SentByOne, TypeOK, Leave, Go
<1> QED
  BY <1>3, <1>4, <1>5, <1>6, <1>7 DEF IInv

\* The status of the attempt of c changes, c is done, and the row keeps its
\* revision: what is left of most transactions.
LEMMA SettleStep ==
  ASSUME IInv, NEW c \in Calls, OnRequest(c), NEW s \in AttemptStatus,
         SetStatus(req[c], s), Leave(c),
         UNCHANGED <<qbo, wire, landed, sends, lease, dryRun, auth>>,
         txn' \in [status : RowStatus, revision : 1 .. MaxRevision, token : Tokens],
         txn'.revision = txn.revision,
         \/ attempt[req[c]].status \notin Sendable /\ s \in {"RETRYABLE", "FAILED"}
         \/ attempt[req[c]].status \in Unresolved /\ s \in {"VERIFIED", "UNCHANGED", "UNCERTAIN"}
  PROVE  IInv'
<1>1. req[c] \in Requests
  BY DEF IInv, CallsOK
<1>2. /\ attempt' \in [Requests -> [status : AttemptStatus, op : {"recategorize", "restore"},
                                rev : 0 .. MaxRevision, token : Tokens,
                                before : Contents, target : Contents]]
      /\ attempt'[req[c]].status = s /\ attempt'[req[c]].rev = attempt[req[c]].rev
      /\ \A q \in Requests \ {req[c]} : attempt'[q] = attempt[q]
  BY <1>1, StatusTypes DEF IInv
<1>3. TypeOK'
  BY <1>2, LeaveTypes DEF IInv, TypeOK, LocalTypes
<1>4. CallsOK'
  <2>1. \A q \in Requests : attempt[q].status # "NONE" => attempt'[q].status # "NONE"
    BY <1>2
  <2> QED
    BY <2>1 DEF Leave, Go, IInv, TypeOK, CallsOK, KindOK, OnRequest, Writers, Commits, Undos, Stagers, Lives, Resumes, Persisted
<1>5. StageSafe' /\ NotRestaged' /\ SentByOne'
  <2>1. pc'[c] \notin Checking \cup {"commitStage", "send"}
    BY DEF Leave, Go, IInv, TypeOK, Checking
  <2>2. \A d \in Calls \ {c} : pc'[d] = pc[d] /\ kind'[d] = kind[d] /\ req'[d] = req[d]
    BY DEF Leave, Go, IInv, TypeOK
  <2>3. attempt'[req[c]].status \in Sendable <=> attempt[req[c]].status \in Sendable
    BY <1>2 DEF Sendable, Unresolved
  <2>4. attempt'[req[c]].status \in Unresolved => attempt[req[c]].status \in Unresolved
    BY <1>2 DEF Unresolved
  <2>5. attempt'[req[c]].status # "PREPARED"
    BY <1>2
  <2> QED
    BY <1>1, <1>2, <2>1, <2>2, <2>3, <2>4, <2>5, AttemptStep
<1> QED
  BY <1>3, <1>4, <1>5 DEF IInv

\* c is done and changes nothing of the attempts.
LEMMA LeaveStep ==
  ASSUME IInv, NEW c \in Calls, Leave(c),
         UNCHANGED <<attempt, qbo, wire, landed, sends, lease, dryRun, auth>>,
         txn' \in [status : RowStatus, revision : 1 .. MaxRevision, token : Tokens],
         txn'.revision = txn.revision
  PROVE  IInv'
<1>1. TypeOK'
  BY LeaveTypes DEF IInv, TypeOK, LocalTypes
<1>2. CallsOK'
  BY DEF Leave, Go, IInv, TypeOK, CallsOK, KindOK, OnRequest, Writers, Commits, Undos, Stagers, Lives, Resumes, Persisted
<1>3. StageSafe' /\ NotRestaged' /\ SentByOne'
  BY QuietStep DEF Leave, Go, IInv, TypeOK, Checking
<1> QED
  BY <1>1, <1>2, <1>3 DEF IInv

\* c goes on to a step that needs nothing but the attempt, and changes no more.
LEMMA MoveStep ==
  ASSUME IInv, NEW c \in Calls, pc[c] \in Persisted, kind[c] \in Writers,
         NEW p \in {"giveUp", "sent", "uncertain"}, Go(c, p), UNCHANGED localVars,
         UNCHANGED <<txn, attempt, qbo, wire, landed, sends, lease, dryRun, auth>>
  PROVE  IInv'
<1> USE DEF Go, localVars
<1>1. TypeOK'
  BY DEF IInv, TypeOK, Steps
<1>2. CallsOK'
  BY DEF IInv, TypeOK, CallsOK, KindOK, OnRequest, Writers, Commits, Undos, Stagers, Lives, Resumes, Persisted
<1>3. StageSafe' /\ NotRestaged' /\ SentByOne'
  BY QuietStep DEF IInv, TypeOK, Checking
<1> QED
  BY <1>1, <1>2, <1>3 DEF IInv

LEMMA GiveUpIInv ==
  ASSUME IInv, NEW c \in Calls, GiveUp(c)
  PROVE  IInv'
<1> USE DEF GiveUp, qboVars
<1>1. txn' \in [status : RowStatus, revision : 1 .. MaxRevision, token : Tokens]
  BY DEF IInv, TypeOK
<1>2. CASE UNCHANGED attempt
  BY <1>1, <1>2, LeaveStep
<1>3. CASE attempt[req[c]].status = "PREPARED" /\ \E s \in {"RETRYABLE", "FAILED"} : SetStatus(req[c], s)
  <2>1. PICK s \in {"RETRYABLE", "FAILED"} : SetStatus(req[c], s)
    BY <1>3
  <2>2. s \in AttemptStatus /\ attempt[req[c]].status \notin Sendable
    BY <1>3 DEF AttemptStatus, Sendable, Unresolved
  <2>3. OnRequest(c)
    BY DEF IInv, CallsOK, KindOK, OnRequest
  <2> QED
    BY <1>1, <2>1, <2>2, <2>3, SettleStep
<1> QED
  BY <1>2, <1>3

LEMMA TransitionFailsIInv ==
  ASSUME IInv, NEW c \in Calls, TransitionFails(c)
  PROVE  IInv'
<1> USE DEF TransitionFails, qboVars
<1>1. txn' \in [status : RowStatus, revision : 1 .. MaxRevision, token : Tokens]
  BY DEF IInv, TypeOK
<1>2. CASE Go(c, "giveUp") /\ UNCHANGED <<attempt, localVars>>
  BY <1>2, MoveStep DEF IInv, CallsOK, KindOK, Persisted
<1>3. CASE UNCHANGED attempt /\ Leave(c)
  BY <1>1, <1>3, LeaveStep
<1>4. CASE attempt[req[c]].status = "PREPARED" /\ SetStatus(req[c], "FAILED") /\ Leave(c)
  <2>1. "FAILED" \in AttemptStatus /\ attempt[req[c]].status \notin Sendable
    BY <1>4 DEF AttemptStatus, Sendable, Unresolved
  <2>2. OnRequest(c)
    BY DEF IInv, CallsOK, KindOK, OnRequest
  <2> QED
    BY <1>1, <1>4, <2>1, <2>2, SettleStep
<1> QED
  BY <1>2, <1>3, <1>4

LEMMA SettleIInv ==
  ASSUME IInv, NEW c \in Calls, NEW from, NEW to, NEW row,
         pc[c] \in {"verified", "unchanged", "uncertain", "mismatch"},
         from \subseteq Unresolved, to \in {"VERIFIED", "UNCHANGED", "UNCERTAIN"},
         row \in [status : RowStatus, revision : 1 .. MaxRevision, token : Tokens],
         row.revision = txn.revision,
         Settle(c, from, to, row)
  PROVE  IInv'
<1> USE DEF Settle, dbVars, qboVars
<1>1. OnRequest(c)
  BY DEF IInv, CallsOK, KindOK, OnRequest
<1>2. CASE UNCHANGED dbVars /\ Leave(c)
  BY <1>2, LeaveStep DEF IInv, TypeOK
<1>3. CASE UNCHANGED dbVars /\ Refused(c) /\ ~Leave(c)
  BY <1>3, MoveStep DEF Refused, Persisted
<1>4. CASE SetStatus(req[c], to) /\ txn' = row /\ Leave(c) /\ attempt[req[c]].status \in from
  <2>1. to \in AttemptStatus
    BY DEF AttemptStatus
  <2> QED
    BY <1>1, <1>4, <2>1, SettleStep
<1> QED
  BY <1>2, <1>3, <1>4

LEMMA FinalizeIInv ==
  ASSUME IInv, NEW c \in Calls,
         FinalizeVerified(c) \/ FinalizeUnchanged(c) \/ MarkUncertain(c) \/ MarkMismatch(c)
  PROVE  IInv'
<1>1. /\ got[c] \in Tokens
      /\ \A op : EndStatus(op) \in RowStatus /\ StartStatus(op) \in RowStatus
      /\ "ERROR" \in RowStatus
  BY DEF IInv, TypeOK, EndStatus, StartStatus, RowStatus
<1>2. \A s \in RowStatus, t \in Tokens :
        /\ [txn EXCEPT !.status = s, !.token = t]
             \in [status : RowStatus, revision : 1 .. MaxRevision, token : Tokens]
        /\ [txn EXCEPT !.status = s, !.token = t].revision = txn.revision
        /\ [txn EXCEPT !.status = s]
             \in [status : RowStatus, revision : 1 .. MaxRevision, token : Tokens]
        /\ [txn EXCEPT !.status = s].revision = txn.revision
  BY DEF IInv, TypeOK
<1>3. CASE FinalizeVerified(c)
  <2> DEFINE row == [txn EXCEPT !.status = EndStatus(attempt[req[c]].op), !.token = got[c]]
  <2>1. /\ row \in [status : RowStatus, revision : 1 .. MaxRevision, token : Tokens]
        /\ row.revision = txn.revision
    BY <1>1, <1>2
  <2>2. pc[c] \in {"verified", "unchanged", "uncertain", "mismatch"}
        /\ Settle(c, Unresolved, "VERIFIED", row)
    BY <1>3 DEF FinalizeVerified
  <2>3. Unresolved \subseteq Unresolved /\ "VERIFIED" \in {"VERIFIED", "UNCHANGED", "UNCERTAIN"}
    BY DEF Unresolved
  <2> HIDE DEF row
  <2> QED
    BY <2>1, <2>2, <2>3, SettleIInv
<1>4. CASE FinalizeUnchanged(c)
  <2> DEFINE row == [txn EXCEPT !.status = StartStatus(attempt[req[c]].op)]
  <2>1. /\ row \in [status : RowStatus, revision : 1 .. MaxRevision, token : Tokens]
        /\ row.revision = txn.revision
    BY <1>1, <1>2
  <2>2. pc[c] \in {"verified", "unchanged", "uncertain", "mismatch"}
        /\ Settle(c, Unresolved, "UNCHANGED", row)
    BY <1>4 DEF FinalizeUnchanged
  <2>3. Unresolved \subseteq Unresolved /\ "UNCHANGED" \in {"VERIFIED", "UNCHANGED", "UNCERTAIN"}
    BY DEF Unresolved
  <2> HIDE DEF row
  <2> QED
    BY <2>1, <2>2, <2>3, SettleIInv
<1>5. CASE MarkUncertain(c)
  <2> DEFINE row == [txn EXCEPT !.status = "ERROR"]
  <2>1. /\ row \in [status : RowStatus, revision : 1 .. MaxRevision, token : Tokens]
        /\ row.revision = txn.revision
    BY <1>1, <1>2
  <2>2. pc[c] \in {"verified", "unchanged", "uncertain", "mismatch"}
        /\ Settle(c, {"COMMITTING"}, "UNCERTAIN", row)
    BY <1>5 DEF MarkUncertain
  <2>3. {"COMMITTING"} \subseteq Unresolved /\ "UNCERTAIN" \in {"VERIFIED", "UNCHANGED", "UNCERTAIN"}
    BY DEF Unresolved
  <2> HIDE DEF row
  <2> QED
    BY <2>1, <2>2, <2>3, SettleIInv
<1>6. CASE MarkMismatch(c)
  <2> DEFINE row == [txn EXCEPT !.status = "ERROR"]
  <2>1. /\ row \in [status : RowStatus, revision : 1 .. MaxRevision, token : Tokens]
        /\ row.revision = txn.revision
    BY <1>1, <1>2
  <2>2. pc[c] \in {"verified", "unchanged", "uncertain", "mismatch"}
        /\ Settle(c, Unresolved, "UNCERTAIN", row)
    BY <1>6 DEF MarkMismatch
  <2>3. Unresolved \subseteq Unresolved /\ "UNCERTAIN" \in {"VERIFIED", "UNCHANGED", "UNCERTAIN"}
    BY DEF Unresolved
  <2> HIDE DEF row
  <2> QED
    BY <2>1, <2>2, <2>3, SettleIInv
<1> QED
  BY <1>3, <1>4, <1>5, <1>6

LEMMA FindCommitIInv ==
  ASSUME IInv, NEW c \in Calls, FindCommit(c)
  PROVE  IInv'
<1> DEFINE r == req[c]
           a == attempt[r]
           resumed == IF kind[c] = "live" THEN "liveResume" ELSE "resume"
<1>1. /\ OnRequest(c) /\ r \in Requests
      /\ kind[c] \in {"commit", "live"} /\ pc[c] = "find"
      /\ kind[c] = "live" => r \in LiveRequests
      /\ kind[c] = "commit" => r \notin LiveRequests
      /\ UNCHANGED <<txn, qbo, wire, landed, sends, lease, dryRun, auth>>
      /\ txn \in [status : RowStatus, revision : 1 .. MaxRevision, token : Tokens]
  BY DEF FindCommit, At, qboVars, IInv, TypeOK, CallsOK, OnRequest, Writers, Commits, Lives
\* A new request goes on to load the row.
<1>2. CASE Go(c, "load") /\ UNCHANGED localVars /\ UNCHANGED attempt
  <2> USE <1>1, <1>2 DEF Go, localVars
  <2>1. TypeOK'
    BY DEF IInv, TypeOK, Steps
  <2>2. CallsOK'
    BY DEF IInv, TypeOK, CallsOK, KindOK, OnRequest, Writers, Commits, Undos, Stagers, Lives, Resumes, Persisted
  <2>3. StageSafe' /\ NotRestaged' /\ SentByOne'
    BY QuietStep DEF IInv, TypeOK, Checking
  <2> QED
    BY <2>1, <2>2, <2>3 DEF IInv
<1>3. CASE Leave(c) /\ UNCHANGED attempt
  BY <1>1, <1>3, LeaveStep
\* A PREPARED one is resumed, a RETRYABLE one of the autopilot armed again.
<1>4. CASE /\ kind' = [kind EXCEPT ![c] = resumed] /\ Go(c, "load")
           /\ UNCHANGED <<req, rev, seen, got>>
           /\ \/ UNCHANGED attempt /\ a.status = "PREPARED"
              \/ /\ SetStatus(r, "PREPARED") /\ a.status = "RETRYABLE"
                 /\ kind[c] = "live" /\ auth[r] = c
  <2> USE <1>1, <1>4
  <2>1. /\ attempt' \in [Requests -> [status : AttemptStatus, op : {"recategorize", "restore"},
                                rev : 0 .. MaxRevision, token : Tokens,
                                before : Contents, target : Contents]]
        /\ \A q \in Requests \ {r} : attempt'[q] = attempt[q]
        /\ attempt'[r].status = "PREPARED"
        /\ attempt[r].status \in {"PREPARED", "RETRYABLE"}
        /\ attempt[r].status = "RETRYABLE" => r \in LiveRequests /\ auth[r] = c
    <3>1. CASE UNCHANGED attempt /\ a.status = "PREPARED"
      BY <3>1 DEF IInv, TypeOK
    <3>2. CASE SetStatus(r, "PREPARED") /\ a.status = "RETRYABLE" /\ kind[c] = "live" /\ auth[r] = c
      BY <3>2, StatusTypes DEF IInv, AttemptStatus
    <3> QED
      BY <3>1, <3>2
  <2>2. TypeOK'
    BY <2>1 DEF IInv, TypeOK, Steps, AllKinds, Writers, Commits, Go
  <2>3. CallsOK'
    <3>1. \A q \in Requests : attempt[q].status # "NONE" => attempt'[q].status # "NONE"
      BY <2>1
    <3> QED
      BY <2>1, <3>1 DEF Go, IInv, TypeOK, CallsOK, KindOK, OnRequest, Writers, Commits, Undos, Stagers, Lives, Resumes, Persisted
  <2>4. /\ pc'[c] \notin Checking \cup {"commitStage", "send"}
        /\ \A d \in Calls \ {c} : pc'[d] = pc[d] /\ kind'[d] = kind[d] /\ req'[d] = req[d]
    BY DEF Go, IInv, TypeOK, Checking
  <2>5. StageSafe' /\ NotRestaged' /\ SentByOne'
    <3>1. CASE UNCHANGED attempt
      BY <3>1, <2>4, QuietStep
    <3>2. CASE attempt[r].status = "RETRYABLE"
      BY <3>2, <2>1, <2>4, AttemptStep DEF Sendable, Unresolved
    <3> QED
      BY <3>1, <3>2
  <2> QED
    BY <2>2, <2>3, <2>5 DEF IInv
<1>5. CASE a.status = "RETRYABLE" /\ SetStatus(r, "FAILED") /\ Leave(c)
  BY <1>1, <1>5, SettleStep DEF Sendable, Unresolved, AttemptStatus
<1> QED
  <2> HIDE DEF resumed
  <2> QED
    BY <1>2, <1>3, <1>4, <1>5 DEF FindCommit, resumed

LEMMA RecordDryRunIInv ==
  ASSUME IInv, NEW c \in Calls, RecordDryRun(c)
  PROVE  IInv'
<1> USE DEF RecordDryRun, dbVars, qboVars
<1>1. OnRequest(c) /\ req[c] \in Requests
  BY DEF IInv, CallsOK, KindOK, OnRequest, Writers, Commits, Undos
<1>2. CASE attempt[req[c]].status # "NONE"
  BY <1>2, LeaveStep DEF IInv, TypeOK
<1>3. CASE attempt[req[c]].status = "NONE"
  <2> DEFINE row == [NoAttempt EXCEPT !.status = "DRY_RUN", !.rev = rev[c], !.token = seen[c].token]
  <2>1. /\ NoAttempt \in [status : AttemptStatus, op : {"recategorize", "restore"},
                          rev : 0 .. MaxRevision, token : Tokens,
                          before : Contents, target : Contents]
        /\ rev[c] \in 0 .. MaxRevision /\ seen[c].token \in Tokens
        /\ "DRY_RUN" \in AttemptStatus
    BY BoundsAssumption DEF IInv, TypeOK, NoAttempt, AttemptStatus, Contents, Held, Tokens
  <2>9. /\ row \in [status : AttemptStatus, op : {"recategorize", "restore"},
                    rev : 0 .. MaxRevision, token : Tokens,
                    before : Contents, target : Contents]
        /\ row.status = "DRY_RUN"
    BY <2>1
  <2>2. attempt' = [attempt EXCEPT ![req[c]] = row]
    BY <1>3
  <2> HIDE DEF row
  <2>3. /\ attempt' \in [Requests -> [status : AttemptStatus, op : {"recategorize", "restore"},
                                rev : 0 .. MaxRevision, token : Tokens,
                                before : Contents, target : Contents]]
        /\ \A q \in Requests \ {req[c]} : attempt'[q] = attempt[q]
        /\ attempt'[req[c]].status = "DRY_RUN"
    BY <1>1, <2>9, <2>2 DEF IInv, TypeOK
  <2>4. /\ txn' \in [status : RowStatus, revision : 1 .. MaxRevision, token : Tokens]
        /\ txn'.revision = txn.revision
    BY <1>3 DEF IInv, TypeOK, RowStatus
  <2>5. TypeOK'
    BY <2>3, <2>4, LeaveTypes DEF IInv, TypeOK, LocalTypes
  <2>6. CallsOK'
    <3>1. \A q \in Requests : attempt[q].status # "NONE" => attempt'[q].status # "NONE"
      BY <2>3
    <3> QED
      BY <3>1 DEF Leave, Go, IInv, TypeOK, CallsOK, KindOK, OnRequest, Writers, Commits, Undos, Stagers, Lives, Resumes, Persisted
  <2>7. /\ pc'[c] \notin Checking \cup {"commitStage", "send"}
        /\ \A d \in Calls \ {c} : pc'[d] = pc[d] /\ kind'[d] = kind[d] /\ req'[d] = req[d]
    BY DEF Leave, Go, IInv, TypeOK, Checking
  <2>8. StageSafe' /\ NotRestaged' /\ SentByOne'
    BY <1>1, <1>3, <2>3, <2>4, <2>7, AttemptStep DEF Sendable, Unresolved
  <2> QED
    BY <2>5, <2>6, <2>8 DEF IInv
<1> QED
  BY <1>2, <1>3

LEMMA PersistIInv ==
  ASSUME IInv, NEW c \in Calls, Persist(c)
  PROVE  IInv'
<1> USE DEF Persist, dbVars, qboVars
<1>1. OnRequest(c) /\ req[c] \in Requests /\ kind[c] \in {"commit", "live", "undo"}
  BY DEF IInv, CallsOK, KindOK, OnRequest, Writers, Commits, Undos
<1>2. CASE ~(attempt[req[c]].status = "NONE" /\ NoneActive)
  BY <1>2, LeaveStep DEF IInv, TypeOK
<1>3. CASE attempt[req[c]].status = "NONE" /\ NoneActive
  <2> DEFINE undo == kind[c] = "undo"
             row == [status |-> "PREPARED",
                   op |-> IF undo THEN "restore" ELSE "recategorize",
                   rev |-> rev[c], token |-> seen[c].token,
                   before |-> IF undo THEN rev[c] ELSE Held,
                   target |-> IF undo THEN Held ELSE rev[c]]
  <2>1. rev[c] \in Contents /\ Held \in Contents /\ rev[c] \in 0 .. MaxRevision
        /\ seen[c].token \in Tokens
    BY BoundsAssumption DEF IInv, TypeOK, Contents, Held
  <2>2. /\ row \in [status : AttemptStatus, op : {"recategorize", "restore"},
                    rev : 0 .. MaxRevision, token : Tokens,
                    before : Contents, target : Contents]
        /\ row.status = "PREPARED"
    BY <2>1 DEF AttemptStatus
  <2>3. attempt' = [attempt EXCEPT ![req[c]] = row]
    BY <1>3
  <2> HIDE DEF row
  <2>4. /\ attempt' \in [Requests -> [status : AttemptStatus, op : {"recategorize", "restore"},
                                rev : 0 .. MaxRevision, token : Tokens,
                                before : Contents, target : Contents]]
        /\ \A q \in Requests \ {req[c]} : attempt'[q] = attempt[q]
        /\ attempt'[req[c]].status = "PREPARED"
    BY <1>1, <2>2, <2>3 DEF IInv, TypeOK
  <2>5. TypeOK'
    BY <1>3, <2>4 DEF IInv, TypeOK, Go, localVars, Steps
  <2>6. CallsOK'
    <3>1. \A q \in Requests : attempt[q].status # "NONE" => attempt'[q].status # "NONE"
      BY <2>4
    <3> QED
      BY <1>1, <1>3, <2>4, <3>1 DEF localVars, Go, IInv, TypeOK, CallsOK, KindOK, OnRequest, Writers, Commits, Undos, Stagers, Lives, Resumes, Persisted
  <2>7. /\ pc'[c] \notin Checking \cup {"commitStage", "send"}
        /\ \A d \in Calls \ {c} : pc'[d] = pc[d] /\ kind'[d] = kind[d] /\ req'[d] = req[d]
    BY <1>3 DEF localVars, Go, IInv, TypeOK, Checking
  <2>8. StageSafe' /\ NotRestaged' /\ SentByOne'
    BY <1>1, <1>3, <2>4, <2>7, AttemptStep DEF Sendable, Unresolved
  <2> QED
    BY <2>5, <2>6, <2>8 DEF IInv
<1> QED
  BY <1>2, <1>3

\* c gets ahead in its checks, having established what StageSafe asks for.
LEMMA CheckStep ==
  ASSUME IInv, NEW c \in Calls, NEW p \in Checking, Go(c, p),
         UNCHANGED <<dbVars, qboVars, lease, dryRun, auth, localVars>>,
         pc[c] \in Persisted, kind[c] \in Writers \cup {"reconcile"},
         p # "reload" => kind[c] \in Writers, p = "renewStage" => kind[c] = "live",
         /\ kind[c] \in Writers
         /\ attempt[req[c]].status = "PREPARED"
         /\ kind[c] \in Lives => auth[req[c]] = c
         => RowFree /\ (p # "reload" => txn.revision = attempt[req[c]].rev)
  PROVE  IInv'
<1> USE DEF Go, localVars, dbVars, qboVars, Checking
<1>1. TypeOK'
  BY DEF IInv, TypeOK, Steps
<1>2. CallsOK'
  BY DEF IInv, TypeOK, CallsOK, KindOK, OnRequest, Writers, Commits, Undos, Stagers, Lives, Resumes, Persisted
<1>3. RowFree => RowFree'
  BY DEF RowFree, IInv, TypeOK
<1>4. StageSafe'
  <2> SUFFICES ASSUME NEW d \in Calls, pc'[d] \in Checking, kind'[d] \in Writers,
                      attempt[req'[d]].status = "PREPARED",
                      kind'[d] \in Lives => auth'[req'[d]] = d
               PROVE  RowFree' /\ (pc'[d] # "reload" => txn.revision = attempt[req'[d]].rev)
    BY DEF StageSafe
  <2>1. CASE d = c
    BY <2>1, <1>3 DEF IInv, TypeOK
  <2>2. CASE d # c
    BY <2>2, <1>3 DEF IInv, TypeOK, StageSafe
  <2> QED
    BY <2>1, <2>2
<1>5. NotRestaged' /\ SentByOne'
  BY <1>3 DEF IInv, NotRestaged, SentByOne, TypeOK
<1> QED
  BY <1>1, <1>2, <1>4, <1>5 DEF IInv

LEMMA RenewIInv ==
  ASSUME IInv, NEW c \in Calls, Renew(c)
  PROVE  IInv'
<1> USE DEF Renew
<1>1. pc[c] \in Persisted /\ kind[c] \in Writers \cup {"reconcile"}
  BY DEF IInv, CallsOK, KindOK, Persisted
<1>2. CASE CanRenew(c)
  <2>1. RowFree
    BY DEF LeaseRowFree, RowFree
  <2> QED
    BY <1>1, <1>2, <2>1, CheckStep DEF Checking
<1>3. CASE ~CanRenew(c) /\ kind[c] = "reconcile"
  BY <1>3, LeaveStep DEF IInv, TypeOK, dbVars, qboVars
<1>4. CASE ~CanRenew(c) /\ kind[c] # "reconcile"
  BY <1>1, <1>4, MoveStep DEF dbVars, qboVars
<1> QED
  BY <1>2, <1>3, <1>4

LEMMA ReloadIInv ==
  ASSUME IInv, NEW c \in Calls, Reload(c)
  PROVE  IInv'
<1> USE DEF Reload, At
<1>1. pc[c] \in Persisted /\ pc[c] \in Checking
  BY DEF Persisted, Checking
<1>2. CASE Go(c, "giveUp")
  BY <1>1, <1>2, MoveStep DEF dbVars, qboVars
<1>3. CASE Go(c, "prove") /\ txn.revision = attempt[req[c]].rev
  BY <1>1, <1>3, CheckStep DEF Checking, IInv, StageSafe
<1> QED
  BY <1>2, <1>3

LEMMA ProveIInv ==
  ASSUME IInv, NEW c \in Calls, Prove(c)
  PROVE  IInv'
<1> USE DEF Prove
<1>1. pc[c] \in Persisted /\ pc[c] \in Checking /\ kind[c] \in Writers
  BY DEF Persisted, Checking, IInv, CallsOK, KindOK
<1>2. CASE Go(c, "giveUp")
  BY <1>1, <1>2, MoveStep DEF dbVars, qboVars
<1>3. CASE \E p \in {"renewStage", "transition"} :
             Go(c, p) /\ (p = "renewStage" => kind[c] = "live")
  BY <1>1, <1>3, CheckStep DEF Checking, IInv, StageSafe
<1> QED
  BY <1>2, <1>3

LEMMA RenewStageIInv ==
  ASSUME IInv, NEW c \in Calls, RenewStage(c)
  PROVE  IInv'
<1> USE DEF RenewStage
<1>1. pc[c] \in Persisted /\ pc[c] \in Checking /\ kind[c] \in Writers
  BY DEF Persisted, Checking, IInv, CallsOK, KindOK, Writers, Commits
<1>2. CASE Go(c, "giveUp")
  BY <1>1, <1>2, MoveStep DEF dbVars, qboVars
<1>3. CASE Go(c, "transition")
  BY <1>1, <1>3, CheckStep DEF Checking, IInv, StageSafe
<1> QED
  BY <1>2, <1>3

LEMMA TransitionIInv ==
  ASSUME IInv, NEW c \in Calls, Transition(c)
  PROVE  IInv'
<1> USE DEF Transition, qboVars
<1> DEFINE r == req[c]
<1>1. pc[c] \in Persisted /\ pc[c] \in Checking /\ kind[c] \in Writers /\ r \in Requests
  BY DEF Persisted, Checking, IInv, CallsOK, KindOK, OnRequest
<1>2. CASE Go(c, "giveUp") /\ UNCHANGED <<attempt, localVars>>
  BY <1>1, <1>2, MoveStep
<1>3. CASE Leave(c) /\ UNCHANGED attempt
  BY <1>3, LeaveStep DEF IInv, TypeOK
<1>4. CASE /\ attempt[r].status = "PREPARED"
           /\ SetStatus(r, "COMMITTING") /\ Go(c, "send") /\ UNCHANGED localVars
           /\ kind[c] \in Lives => auth[r] = c
  <2> USE <1>1, <1>4
  <2>1. /\ attempt' \in [Requests -> [status : AttemptStatus, op : {"recategorize", "restore"},
                                rev : 0 .. MaxRevision, token : Tokens,
                                before : Contents, target : Contents]]
        /\ attempt'[r].status = "COMMITTING" /\ attempt'[r].rev = attempt[r].rev
        /\ \A q \in Requests \ {r} : attempt'[q] = attempt[q]
    BY StatusTypes DEF IInv, AttemptStatus
  <2>2. /\ pc'[c] = "send" /\ \A d \in Calls \ {c} : pc'[d] = pc[d]
        /\ UNCHANGED <<kind, req, rev, seen, got>>
    BY DEF Go, localVars, IInv, TypeOK
  <2>3. TypeOK'
    BY <2>1 DEF IInv, TypeOK, Go, Steps, localVars
  <2>4. CallsOK'
    <3>1. \A q \in Requests : attempt[q].status # "NONE" => attempt'[q].status # "NONE"
      BY <2>1
    <3> QED
      BY <2>2, <3>1 DEF IInv, TypeOK, CallsOK, KindOK, OnRequest, Writers, Commits, Undos, Stagers, Lives, Resumes, Persisted
  \* StageSafe turns into NotRestaged.
  <2>5. RowFree /\ txn.revision = attempt[r].rev
    BY DEF IInv, StageSafe
  <2>6. NotRestaged'
    <3>1. RowFree'
      BY <2>2, <2>5 DEF RowFree
    <3> QED
      BY <2>1, <2>5, <3>1 DEF IInv, NotRestaged
  <2>7. StageSafe'
    <3> SUFFICES ASSUME NEW d \in Calls, pc'[d] \in Checking, kind'[d] \in Writers,
                        attempt'[req'[d]].status = "PREPARED",
                        kind'[d] \in Lives => auth'[req'[d]] = d
                 PROVE  RowFree' /\ (pc'[d] # "reload" => txn.revision = attempt'[req'[d]].rev)
      BY DEF StageSafe
    <3>1. d # c /\ pc[d] = pc'[d] /\ req[d] \in Requests
      BY <2>2 DEF Checking, IInv, CallsOK, OnRequest
    <3>2. req[d] # r
      BY <2>1, <2>2
    <3> QED
      BY <2>1, <2>2, <3>1, <3>2 DEF IInv, StageSafe, RowFree
  <2>8. SentByOne'
    <3>1. sends[r] = 0 /\ \A d \in Calls : pc[d] = "send" => req[d] # r
      BY DEF IInv, SentByOne, Sendable, Unresolved
    <3>2. \A d \in Calls : pc[d] = "send" => req[d] \in Requests
      BY DEF IInv, CallsOK, KindOK, OnRequest
    <3>3. attempt'[r].status \in Sendable
      BY <2>1 DEF Sendable, Unresolved
    <3> QED
      BY <2>1, <2>2, <3>1, <3>2, <3>3 DEF IInv, SentByOne
  <2> QED
    BY <2>3, <2>4, <2>6, <2>7, <2>8 DEF IInv
<1> QED
  BY <1>2, <1>3, <1>4 DEF Lives

LEMMA SendPreparedIInv ==
  ASSUME IInv, NEW c \in Calls, SendPrepared(c)
  PROVE  IInv'
<1> USE DEF SendPrepared, dbVars, localVars, Go
<1>1. req[c] \in Requests /\ kind[c] \in Writers
  BY DEF IInv, CallsOK, KindOK, OnRequest
<1>2. /\ sends[req[c]] = 0 /\ attempt[req[c]].status \in Sendable
      /\ \A d \in Calls : pc[d] = "send" /\ req[d] = req[c] => d = c
  BY DEF IInv, SentByOne
<1>3. sends' \in [Requests -> 0 .. 1] /\ \A q \in Requests \ {req[c]} : sends'[q] = sends[q]
  BY <1>1, <1>2 DEF IInv, TypeOK
<1>4. TypeOK'
  BY <1>1, <1>3 DEF IInv, TypeOK, Steps
<1>5. CallsOK'
  BY <1>1 DEF IInv, TypeOK, CallsOK, KindOK, OnRequest, Writers, Commits, Undos, Stagers, Lives, Resumes, Persisted
<1>6. SentByOne'
  <2>1. \A d \in Calls : pc'[d] = "send" => d # c /\ pc[d] = "send" /\ req[d] \in Requests
                                            /\ req[d] # req[c]
    BY <1>2 DEF IInv, TypeOK, CallsOK, KindOK, OnRequest
  <2> QED
    BY <1>2, <1>3, <2>1 DEF IInv, SentByOne
<1>7. StageSafe' /\ NotRestaged'
  <2>1. RowFree => RowFree'
    BY DEF RowFree, IInv, TypeOK
  <2>2. \A d \in Calls : pc'[d] \in Checking => pc'[d] = pc[d]
    BY DEF IInv, TypeOK, Checking
  <2> QED
    BY <2>1, <2>2 DEF IInv, StageSafe, NotRestaged
<1> QED
  BY <1>4, <1>5, <1>6, <1>7 DEF IInv

\* QuickBooks, the clock and the operator touch nothing the invariant is about
\* but the types.
LEMMA SurroundingsIInv ==
  ASSUME IInv,
         \/ \E r \in Requests : Land(r) \/ Lose(r)
         \/ EditInQuickBooks \/ LeaseExpires \/ ToggleDryRun
         \/ UNCHANGED vars
  PROVE  IInv'
<1> USE DEF dbVars, qboVars, localVars, vars
<1>1. ASSUME NEW r \in Requests, Land(r)
      PROVE  qbo' \in [content : Contents, token : Tokens] /\ landed' \subseteq Requests
  <2>1. attempt[r].target \in Contents /\ qbo.token + 1 \in Tokens
    BY DEF IInv, TypeOK, Tokens
  <2> QED
    BY <1>1, <2>1 DEF Land, IInv, TypeOK
<1>2. ASSUME EditInQuickBooks PROVE qbo' \in [content : Contents, token : Tokens]
  <2>1. Elsewhere \in Contents /\ qbo.content \in Contents /\ qbo.token + 1 \in Tokens
    BY BoundsAssumption DEF IInv, TypeOK, Tokens, Contents, Elsewhere
  <2> QED
    BY <1>2, <2>1 DEF EditInQuickBooks
<1>3. UNCHANGED <<txn, attempt, sends, auth, pc, kind, req, rev, seen, got>>
  BY DEF Land, Lose, EditInQuickBooks, LeaseExpires, ToggleDryRun
<1>4. qbo' \in [content : Contents, token : Tokens] /\ landed' \subseteq Requests
  BY <1>1, <1>2 DEF Lose, LeaseExpires, ToggleDryRun, EditInQuickBooks, IInv, TypeOK
<1>5. wire' \subseteq Requests /\ lease' \in [holder : Calls \cup {None}, live : BOOLEAN]
  BY DEF Land, Lose, EditInQuickBooks, LeaseExpires, ToggleDryRun, IInv, TypeOK
<1>6. dryRun' \in BOOLEAN
  BY BoundsAssumption DEF Land, Lose, EditInQuickBooks, LeaseExpires, ToggleDryRun, IInv, TypeOK
<1>7. TypeOK'
  BY <1>3, <1>4, <1>5, <1>6 DEF IInv, TypeOK
<1> QED
  BY <1>3, <1>7 DEF IInv, CallsOK, KindOK, OnRequest, StageSafe, RowFree, NotRestaged, SentByOne

LEMMA NextIInv == IInv /\ [Next]_vars => IInv'
<1> SUFFICES ASSUME IInv, [Next]_vars PROVE IInv'
  OBVIOUS
<1>1. CASE \E c \in Calls : Start(c) \/ StartStage(c) \/ ListHolding(c) \/ RetryRead(c)
  BY <1>1, StartIInv, StartStageIInv, ListHoldingIInv, RetryReadIInv
<1>2. ASSUME NEW c \in Calls, Step(c) PROVE IInv'
  BY <1>2, ReadOpenRowIInv, AcquireIInv, BusyIInv, ReleaseLeaseIInv, FindCommitIInv,
     FindUndoIInv, LoadRowIInv, RecordDryRunIInv, PrepareIInv, PersistIInv, RenewIInv,
     ReloadIInv, ProveIInv, RenewStageIInv, GiveUpIInv, TransitionIInv,
     TransitionFailsIInv, SendPreparedIInv, AnsweredIInv, ReadbackIInv, FinalizeIInv,
     SettleFailsIInv, ReconcileLoadIInv, ReconcileReloadIInv, ReconcileReadIInv,
     FenceIInv, StageCasIInv, StageCommitIInv, MirrorIInv, SupersedeIInv,
     RetryBarrierIInv, RetryFetchIInv, RetryWriteIInv DEF Step
<1>3. CASE \E c \in Calls : Crash(c)
  BY <1>3, CrashIInv
<1> QED
  BY <1>1, <1>2, <1>3, SurroundingsIInv DEF Next

----------------------------------------------------------------------------
(* What follows from the invariant.                                          *)

\* IInv holds in every reachable state, whatever the number of calls, requests
\* and stagings.
THEOREM Inductive == Spec => []IInv
  BY InitIInv, NextIInv, PTL DEF Spec

\* Rows, attempts and the entity keep the shapes of the schema: the revision
\* stays within its bound and no request is counted as sent twice.
THEOREM TypeCorrect == Spec => []TypeOK
  BY Inductive, PTL DEF IInv

\* From PREPARED -> COMMITTING to the end of the reconciliation the row shows
\* the staging the request carries: enterCommitting and stageCategorization
\* exclude each other through the lease, the active-attempt check and the
\* compare-and-swaps.
THEOREM StagedAsSent == Spec => []SentAsStaged
<1>1. IInv => SentAsStaged
  BY DEF IInv, NotRestaged, SentAsStaged
<1> QED
  BY <1>1, Inductive, PTL

----------------------------------------------------------------------------
(* The refinement of AtMostOnceWrite.                                        *)

LEMMA Phases ==
  /\ PhaseOf("NONE") = "unused"
  /\ PhaseOf("PREPARED") = "armed"
  /\ PhaseOf("RETRYABLE") = "parked"
  /\ PhaseOf("FAILED") = "dropped" /\ PhaseOf("DRY_RUN") = "dropped"
  /\ \A s \in Unresolved : PhaseOf(s) = "out"
  /\ PhaseOf("VERIFIED") = "settled" /\ PhaseOf("UNCHANGED") = "settled"
  BY DEF PhaseOf, Unresolved

\* What a change of one attempt is in the abstract lifecycle.
LEMMA PhaseStep ==
  ASSUME TypeOK, NEW r \in Requests, NEW s, UNCHANGED sends,
         attempt' \in [Requests -> [status : AttemptStatus, op : {"recategorize", "restore"},
                                rev : 0 .. MaxRevision, token : Tokens,
                                before : Contents, target : Contents]],
         \A q \in Requests \ {r} : attempt'[q] = attempt[q],
         attempt'[r].status = s,
         \/ /\ attempt[r].status \in {"NONE", "RETRYABLE"} /\ s = "PREPARED"
            /\ NoOtherActive(r)
         \/ attempt[r].status \in {"PREPARED"} /\ s \in {"RETRYABLE", "COMMITTING"}
         \/ attempt[r].status \in {"NONE", "PREPARED", "RETRYABLE"} /\ s \in {"FAILED", "DRY_RUN"}
         \/ attempt[r].status \in Unresolved /\ s \in {"VERIFIED", "UNCHANGED", "UNCERTAIN"}
  PROVE  Contract!Next \/ UNCHANGED Contract!vars
<1> DEFINE phase == [q \in Requests |-> PhaseOf(attempt[q].status)]
<1>1. phase' = [phase EXCEPT ![r] = PhaseOf(s)] /\ phase[r] = PhaseOf(attempt[r].status)
  OBVIOUS
<1>2. NoOtherActive(r) => Contract!Alone(r)
  <2> SUFFICES ASSUME NEW q \in Requests \ {r}, attempt[q].status \notin Active
               PROVE  PhaseOf(attempt[q].status) \notin {"armed", "out"}
    BY DEF NoOtherActive, Contract!Alone
  <2> QED
    BY DEF PhaseOf, Active, Unresolved
<1>3. CASE attempt[r].status \in {"NONE", "RETRYABLE"} /\ s = "PREPARED" /\ NoOtherActive(r)
  <2>1. phase[r] \in {"unused", "parked"} /\ phase' = [phase EXCEPT ![r] = "armed"]
    BY <1>1, <1>3, Phases
  <2>2. Contract!Arm(r)
    BY <1>2, <1>3, <2>1 DEF Contract!Arm, Contract!Move
  <2> QED
    BY <2>2 DEF Contract!Next
<1>4. CASE attempt[r].status = "PREPARED" /\ s = "RETRYABLE"
  <2>1. Contract!Park(r)
    BY <1>1, <1>4, Phases DEF Contract!Park, Contract!Move
  <2> QED
    BY <2>1 DEF Contract!Next
<1>5. CASE attempt[r].status = "PREPARED" /\ s = "COMMITTING"
  <2>1. Contract!Release(r)
    BY <1>1, <1>5, Phases DEF Contract!Release, Contract!Move, Unresolved
  <2> QED
    BY <2>1 DEF Contract!Next
<1>6. CASE attempt[r].status \in {"NONE", "PREPARED", "RETRYABLE"} /\ s \in {"FAILED", "DRY_RUN"}
  <2>1. Contract!Drop(r)
    BY <1>1, <1>6, Phases DEF Contract!Drop, Contract!Move
  <2> QED
    BY <2>1 DEF Contract!Next
<1>7. CASE attempt[r].status \in Unresolved /\ s \in {"VERIFIED", "UNCHANGED"}
  <2>1. Contract!Settle(r)
    BY <1>1, <1>7, Phases DEF Contract!Settle, Contract!Move
  <2> QED
    BY <2>1 DEF Contract!Next
<1>8. CASE attempt[r].status \in Unresolved /\ s = "UNCERTAIN"
  <2>1. phase' = phase
    BY <1>1, <1>8, Phases DEF Unresolved
  <2> QED
    BY <2>1 DEF Contract!vars
<1> QED
  BY <1>3, <1>4, <1>5, <1>6, <1>7, <1>8

\* The steps that change attempts.
LEMMA WriteStep ==
  ASSUME IInv, IInv', NEW c \in Calls, ~UNCHANGED attempt,
         \/ FindCommit(c) \/ RecordDryRun(c) \/ Persist(c)
         \/ GiveUp(c) \/ Transition(c) \/ TransitionFails(c)
         \/ FinalizeVerified(c) \/ FinalizeUnchanged(c) \/ MarkUncertain(c) \/ MarkMismatch(c)
  PROVE  Contract!Next \/ UNCHANGED Contract!vars
<1> DEFINE r == req[c]
<1> USE DEF qboVars
<1>1. r \in Requests
  BY DEF IInv, CallsOK, KindOK, OnRequest, Writers, Commits, Undos, FindCommit, At,
         RecordDryRun, Persist, GiveUp, Transition, TransitionFails, FinalizeVerified,
         FinalizeUnchanged, MarkUncertain, MarkMismatch
<1>2. /\ TypeOK
      /\ attempt' \in [Requests -> [status : AttemptStatus, op : {"recategorize", "restore"},
                                rev : 0 .. MaxRevision, token : Tokens,
                                before : Contents, target : Contents]]
  BY DEF IInv, TypeOK
\* Only the status of r changes.
<1>3. ASSUME NEW s \in AttemptStatus, SetStatus(r, s), UNCHANGED sends,
             \/ attempt[r].status = "RETRYABLE" /\ s = "PREPARED" /\ NoOtherActive(r)
             \/ attempt[r].status = "PREPARED" /\ s \in {"RETRYABLE", "COMMITTING"}
             \/ attempt[r].status \in {"PREPARED", "RETRYABLE"} /\ s = "FAILED"
             \/ attempt[r].status \in Unresolved /\ s \in {"VERIFIED", "UNCHANGED", "UNCERTAIN"}
      PROVE  Contract!Next \/ UNCHANGED Contract!vars
  BY <1>1, <1>2, <1>3, StatusTypes, PhaseStep
<1>4. {"PREPARED", "RETRYABLE", "FAILED", "COMMITTING", "VERIFIED", "UNCHANGED", "UNCERTAIN"}
        \subseteq AttemptStatus
  BY DEF AttemptStatus
<1>5. CASE FindCommit(c)
  <2>1. \/ SetStatus(r, "FAILED") /\ attempt[r].status = "RETRYABLE"
        \/ SetStatus(r, "PREPARED") /\ attempt[r].status = "RETRYABLE" /\ NoOtherActive(r)
    BY <1>5 DEF FindCommit
  <2> QED
    BY <1>3, <1>4, <1>5, <2>1 DEF FindCommit
<1>6. CASE RecordDryRun(c)
  <2>1. /\ attempt[r].status = "NONE" /\ attempt'[r].status = "DRY_RUN"
        /\ \A q \in Requests \ {r} : attempt'[q] = attempt[q]
        /\ UNCHANGED sends
    <3> DEFINE row == [NoAttempt EXCEPT !.status = "DRY_RUN", !.rev = rev[c], !.token = seen[c].token]
    <3>1. row.status = "DRY_RUN"
      BY DEF NoAttempt
    <3>2. attempt[r].status = "NONE" /\ attempt' = [attempt EXCEPT ![r] = row] /\ UNCHANGED sends
      BY <1>6 DEF RecordDryRun, dbVars
    <3> HIDE DEF row
    <3> QED
      BY <1>1, <3>1, <3>2 DEF IInv, TypeOK
  <2> QED
    BY <1>1, <1>2, <2>1, PhaseStep
<1>7. CASE Persist(c)
  <2>1. /\ attempt[r].status = "NONE" /\ attempt'[r].status = "PREPARED" /\ NoneActive
        /\ \A q \in Requests \ {r} : attempt'[q] = attempt[q]
        /\ UNCHANGED sends
    BY <1>1, <1>7 DEF Persist, IInv, TypeOK
  <2>2. NoOtherActive(r)
    BY <2>1 DEF NoneActive, NoOtherActive
  <2> QED
    BY <1>1, <1>2, <2>1, <2>2, PhaseStep
<1>8. CASE GiveUp(c)
  <2>1. PICK s \in {"RETRYABLE", "FAILED"} : SetStatus(r, s) /\ attempt[r].status = "PREPARED"
    BY <1>8 DEF GiveUp
  <2> QED
    BY <1>3, <1>4, <1>8, <2>1 DEF GiveUp
<1>9. CASE Transition(c)
  BY <1>3, <1>4, <1>9 DEF Transition
<1>10. CASE TransitionFails(c)
  BY <1>3, <1>4, <1>10 DEF TransitionFails
<1>11. ASSUME NEW from, NEW to, NEW row, Settle(c, from, to, row), from \subseteq Unresolved,
              to \in {"VERIFIED", "UNCHANGED", "UNCERTAIN"}
       PROVE  Contract!Next \/ UNCHANGED Contract!vars
  <2>1. SetStatus(r, to) /\ attempt[r].status \in Unresolved /\ UNCHANGED sends
    BY <1>11 DEF Settle, dbVars
  <2> QED
    BY <1>3, <1>4, <1>11, <2>1
<1>12. CASE FinalizeVerified(c)
  BY <1>11, <1>12 DEF FinalizeVerified
<1>13. CASE FinalizeUnchanged(c)
  BY <1>11, <1>13 DEF FinalizeUnchanged
<1>14. CASE MarkUncertain(c)
  BY <1>11, <1>14 DEF MarkUncertain, Unresolved
<1>15. CASE MarkMismatch(c)
  BY <1>11, <1>15 DEF MarkMismatch
<1> QED
  BY <1>5, <1>6, <1>7, <1>8, <1>9, <1>10, <1>12, <1>13, <1>14, <1>15

\* Every behaviour of the attempts is one of AtMostOnceWrite: persistPrepared and
\* the re-arming of an autopilot attempt respect the unique index, markRetryable
\* and the failed transitions leave only what was PREPARED, the winner of
\* enterCommitting alone sends, and only reconciliation or the sender settles.
THEOREM RefinesAtMostOnceWrite == Spec => ImplementsAtMostOnceWrite
<1> DEFINE phase == [q \in Requests |-> PhaseOf(attempt[q].status)]
<1>1. Init => Contract!Init
  BY Phases DEF Init, Contract!Init, NoAttempt
<1>2. IInv /\ IInv' /\ [Next]_vars => [Contract!Next]_(Contract!vars)
  <2> SUFFICES ASSUME IInv, IInv', [Next]_vars
               PROVE  Contract!Next \/ UNCHANGED Contract!vars
    OBVIOUS
  <2>1. CASE UNCHANGED <<attempt, sends>>
    BY <2>1 DEF Contract!vars
  <2>2. ASSUME NEW c \in Calls, SendPrepared(c)
        PROVE  Contract!Next
    <3>1. /\ req[c] \in Requests
          /\ sends[req[c]] = 0 /\ attempt[req[c]].status \in Sendable
      BY <2>2 DEF SendPrepared, IInv, SentByOne, CallsOK, KindOK, OnRequest
    <3>2. phase[req[c]] \in {"out", "settled"} /\ phase' = phase
      BY <2>2, <3>1, Phases DEF SendPrepared, dbVars, Sendable
    <3>3. Contract!Send(req[c])
      BY <2>2, <3>1, <3>2 DEF SendPrepared, Contract!Send
    <3> QED
      BY <3>1, <3>3 DEF Contract!Next
  <2>3. CASE ~UNCHANGED <<attempt, sends>> /\ \A c \in Calls : ~SendPrepared(c)
    <3>1. PICK c \in Calls :
             \/ FindCommit(c) \/ RecordDryRun(c) \/ Persist(c)
             \/ GiveUp(c) \/ Transition(c) \/ TransitionFails(c)
             \/ FinalizeVerified(c) \/ FinalizeUnchanged(c) \/ MarkUncertain(c) \/ MarkMismatch(c)
      <4> USE <2>3 DEF dbVars, qboVars
      <4>1. \A c \in Calls : ~(Start(c) \/ StartStage(c) \/ ListHolding(c) \/ RetryRead(c) \/ Crash(c))
        BY DEF Start, StartStage, ListHolding, RetryRead, Crash
      <4>2. ~(\E r \in Requests : Land(r) \/ Lose(r))
            /\ ~(EditInQuickBooks \/ LeaseExpires \/ ToggleDryRun \/ UNCHANGED vars)
        BY DEF Land, Lose, EditInQuickBooks, LeaseExpires, ToggleDryRun, vars
      <4>3. \A c \in Calls :
              ~(ReadOpenRow(c) \/ Acquire(c) \/ Busy(c) \/ ReleaseLease(c) \/ FindUndo(c)
                \/ LoadRow(c) \/ Prepare(c) \/ Renew(c) \/ Reload(c) \/ Prove(c) \/ RenewStage(c)
                \/ Answered(c) \/ Readback(c) \/ SettleFails(c))
        BY DEF ReadOpenRow, Acquire, Busy, ReleaseLease, FindUndo, LoadRow, Prepare, Renew,
               Reload, Prove, RenewStage, Answered, Readback, SettleFails
      <4>4. \A c \in Calls :
              ~(ReconcileLoad(c) \/ ReconcileReload(c) \/ ReconcileRead(c) \/ Fence(c)
                \/ StageCas(c) \/ StageCommit(c) \/ Mirror(c) \/ Supersede(c)
                \/ RetryBarrier(c) \/ RetryFetch(c) \/ RetryWrite(c))
        BY DEF ReconcileLoad, ReconcileReload, ReconcileRead, Fence, StageCas, StageCommit,
               Mirror, Supersede, RetryBarrier, RetryFetch, RetryWrite
      <4> QED
        BY <4>1, <4>2, <4>3, <4>4 DEF Next, Step
    <3>2. CASE UNCHANGED attempt
      <4>1. UNCHANGED sends
        BY <3>1 DEF FindCommit, RecordDryRun, Persist, GiveUp, Transition, TransitionFails,
                    FinalizeVerified, FinalizeUnchanged, MarkUncertain, MarkMismatch, Settle, qboVars
      <4> QED
        BY <2>3, <3>2, <4>1
    <3> QED
      BY <3>1, <3>2, WriteStep
  <2> QED
    BY <2>1, <2>2, <2>3
<1> QED
  BY <1>1, <1>2, Inductive, PTL DEF Spec, ImplementsAtMostOnceWrite, Contract!Spec

----------------------------------------------------------------------------
(* What calls have read, against what QuickBooks holds now.                  *)

\* Version t of the entity is known to hold k: it is over, or it is the present one.
Known(t, k) == t <= qbo.token /\ (t = qbo.token => qbo.content = k)

\* The content an attempt replaces and the one it writes go with its operation.
Shaped(r) ==
  attempt[r].status \notin {"NONE", "DRY_RUN"} =>
    /\ attempt[r].rev >= 1
    /\ attempt[r].op = "recategorize" =>
         attempt[r].before = Held /\ attempt[r].target = attempt[r].rev
    /\ attempt[r].op = "restore" =>
         attempt[r].before = attempt[r].rev /\ attempt[r].target = Held

\* What a call concludes from its read is true of the version it has read.
CallReads(c) ==
  /\ seen[c].token <= qbo.token /\ got[c] <= qbo.token
  /\ pc[c] = "verified" => Known(got[c], attempt[req[c]].target)
  /\ pc[c] = "unchanged" => Known(seen[c].token, attempt[req[c]].before)
  /\ pc[c] = "requeue" => Known(got[c], Held)
  /\ kind[c] = "mirror" =>
       "mirror" \in Kinds /\ (pc[c] \in {"acquire", "fence", "cas"} => Known(got[c], Held))
  /\ pc[c] \in {"prepare", "persist"} => rev[c] >= 1
  /\ pc[c] = "commitStage" => txn.status = "PENDING"

\* What the row says is true of the version it names.  Only the mirror writes the
\* token of an entity on the holding account to a row whatever its status.
RowOK ==
  /\ txn.token <= qbo.token
  /\ txn.status \in {"PENDING", "REVERTED"} => Known(txn.token, Held)
  /\ "mirror" \notin Kinds /\ txn.status = "POSTED" => Known(txn.token, txn.revision)

VersionInv ==
  /\ \A r \in Requests : Shaped(r)
  /\ \A c \in Calls : CallReads(c)
  /\ RowOK

LEMMA InitVersionInv == Init => VersionInv
BY NoneAssumption, BoundsAssumption DEF Init, VersionInv, Shaped, CallReads, RowOK, Known, Held, NoAttempt, Unread

\* A step that leaves what the attempts stand for: only their status moves, and a new
\* one has the right shape.
KeepsData ==
  \A r \in Requests :
    IF attempt[r].status = "NONE"
    THEN attempt'[r].status \in {"NONE", "DRY_RUN"} \/ Shaped(r)'
    ELSE /\ attempt'[r].op = attempt[r].op /\ attempt'[r].rev = attempt[r].rev
         /\ attempt'[r].before = attempt[r].before /\ attempt'[r].target = attempt[r].target
         /\ attempt[r].status = "DRY_RUN" <=> attempt'[r].status = "DRY_RUN"
         /\ attempt[r].status \in Sendable => attempt'[r].status \in Sendable

\* Only call c moves.
Alone(c) ==
  \A d \in Calls \ {c} :
    /\ pc'[d] = pc[d] /\ kind'[d] = kind[d] /\ req'[d] = req[d]
    /\ rev'[d] = rev[d] /\ seen'[d] = seen[d] /\ got'[d] = got[d]

\* QuickBooks stays as it is, and no other call is in the middle of a staging
\* transaction whose row changes.
LEMMA VersionFrame ==
  ASSUME IInv, VersionInv, NEW c \in Calls, Alone(c), UNCHANGED qbo, KeepsData,
         CallReads(c)', RowOK', RowFree \/ txn'.status = txn.status
  PROVE  VersionInv'
<1>1. ASSUME NEW r \in Requests PROVE Shaped(r)'
  BY DEF KeepsData, VersionInv, Shaped
<1>2. ASSUME NEW d \in Calls \ {c} PROVE CallReads(d)'
  <2>1. pc[d] \in {"verified", "unchanged"} =>
          /\ req[d] \in Requests
          /\ attempt'[req[d]].target = attempt[req[d]].target
          /\ attempt'[req[d]].before = attempt[req[d]].before
    BY DEF IInv, CallsOK, KindOK, OnRequest, Persisted, KeepsData
  <2>2. CallReads(d)
    BY DEF VersionInv
  <2> QED
    BY <2>1, <2>2 DEF Alone, CallReads, Known, RowFree
<1> QED
  BY <1>1, <1>2 DEF VersionInv

\* Nothing is learnt: the call goes on with what it knows, or with the row's token.
LEMMA QuietVersion ==
  ASSUME IInv, VersionInv, NEW c \in Calls, Alone(c), UNCHANGED <<txn, qbo>>, KeepsData,
         pc'[c] \notin {"verified", "unchanged", "requeue", "prepare", "persist", "commitStage"},
         got'[c] = got[c], seen'[c].token \in {seen[c].token, txn.token},
         kind'[c] = "mirror" => kind[c] = "mirror",
         pc'[c] \in {"acquire", "fence", "cas"} =>
           kind'[c] # "mirror" \/ pc[c] \in {"acquire", "fence", "cas"}
  PROVE  VersionInv'
<1>1. CallReads(c)'
  BY DEF VersionInv, CallReads, RowOK, Known
<1>2. RowOK'
  BY DEF VersionInv, RowOK, Known
<1> QED
  BY <1>1, <1>2, VersionFrame

\* The call returns, throws or dies and forgets what it has read.
LEMMA LeaveVersion ==
  ASSUME IInv, VersionInv, NEW c \in Calls, Leave(c) \/ End(c), UNCHANGED qbo, KeepsData,
         RowOK', RowFree \/ txn'.status = txn.status
  PROVE  VersionInv'
<1>1. Alone(c) /\ pc'[c] \in {"release", "idle"} /\ got'[c] = 0 /\ seen'[c] = Unread
     /\ kind'[c] = "commit"
  BY DEF Leave, End, Go, Alone, IInv, TypeOK
<1>2. CallReads(c)'
  BY <1>1 DEF CallReads, Unread, IInv, TypeOK, Tokens
<1> QED
  BY <1>1, <1>2, VersionFrame

LEMMA AttemptsKept == ASSUME IInv, UNCHANGED attempt PROVE KeepsData
BY DEF KeepsData

LEMMA SetStatusFacts ==
  ASSUME IInv, NEW r \in Requests, NEW s \in AttemptStatus, SetStatus(r, s)
  PROVE  \A q \in Requests :
           /\ attempt'[q].op = attempt[q].op /\ attempt'[q].rev = attempt[q].rev
           /\ attempt'[q].before = attempt[q].before /\ attempt'[q].target = attempt[q].target
           /\ attempt'[q].status = IF q = r THEN s ELSE attempt[q].status
BY DEF SetStatus, IInv, TypeOK

LEMMA SetStatusKeeps ==
  ASSUME IInv, NEW r \in Requests, NEW s \in AttemptStatus, SetStatus(r, s),
         attempt[r].status \notin {"NONE", "DRY_RUN"},
         attempt[r].status \in Sendable => s \in Sendable, s # "DRY_RUN"
  PROVE  KeepsData
BY DEF SetStatus, KeepsData, IInv, TypeOK

LEMMA FindCommitKeeps == ASSUME IInv, NEW c \in Calls, FindCommit(c) PROVE KeepsData
<1> USE DEF FindCommit, At
<1>1. req[c] \in Requests
  BY DEF IInv, CallsOK, OnRequest, Writers, Commits
<1>2. UNCHANGED attempt \/ (attempt[req[c]].status = "RETRYABLE"
                              /\ \E s \in {"FAILED", "PREPARED"} : SetStatus(req[c], s))
  OBVIOUS
<1> QED
  BY <1>1, <1>2, AttemptsKept, SetStatusKeeps DEF AttemptStatus, Sendable, Unresolved

LEMMA RecordDryRunKeeps == ASSUME IInv, NEW c \in Calls, RecordDryRun(c) PROVE KeepsData
<1> USE DEF RecordDryRun, dbVars
<1>1. CASE UNCHANGED attempt
  BY <1>1, AttemptsKept
<1>2. CASE ~UNCHANGED attempt
  <2> DEFINE row == [NoAttempt EXCEPT !.status = "DRY_RUN", !.rev = rev[c],
                                      !.token = seen[c].token]
  <2>1. row.status = "DRY_RUN"
    BY DEF NoAttempt
  <2>2. attempt' = [attempt EXCEPT ![req[c]] = row] /\ attempt[req[c]].status = "NONE"
    BY <1>2
  <2> HIDE DEF row
  <2>3. \A r \in Requests :
          IF r = req[c] THEN attempt[r].status = "NONE" /\ attempt'[r].status = "DRY_RUN"
          ELSE attempt'[r] = attempt[r]
    BY <2>1, <2>2 DEF IInv, TypeOK
  <2> QED
    BY <2>3 DEF KeepsData
<1> QED
  BY <1>1, <1>2

\* A new attempt has the shape of its operation.
LEMMA PersistKeeps == ASSUME IInv, VersionInv, NEW c \in Calls, Persist(c) PROVE KeepsData
<1> USE DEF Persist
<1>1. CASE UNCHANGED attempt
  BY <1>1, AttemptsKept
<1>2. CASE ~UNCHANGED attempt
  <2> DEFINE undo == kind[c] = "undo"
             row == [status |-> "PREPARED",
                     op |-> IF undo THEN "restore" ELSE "recategorize",
                     rev |-> rev[c], token |-> seen[c].token,
                     before |-> IF undo THEN rev[c] ELSE Held,
                     target |-> IF undo THEN Held ELSE rev[c]]
  <2>1. rev[c] >= 1 /\ attempt[req[c]].status = "NONE"
    BY <1>2 DEF VersionInv, CallReads
  <2>2. /\ row.rev >= 1
        /\ row.op = "recategorize" => row.before = Held /\ row.target = row.rev
        /\ row.op = "restore" => row.before = row.rev /\ row.target = Held
    BY <2>1
  <2>3. attempt' = [attempt EXCEPT ![req[c]] = row]
    BY <1>2
  <2> HIDE DEF row, Persist
  <2>4. \A r \in Requests : attempt'[r] = IF r = req[c] THEN row ELSE attempt[r]
    BY <2>3 DEF IInv, TypeOK
  <2> QED
    BY <2>1, <2>2, <2>4 DEF KeepsData, Shaped
<1> QED
  BY <1>1, <1>2

LEMMA GiveUpKeeps == ASSUME IInv, NEW c \in Calls, GiveUp(c) PROVE KeepsData
<1> USE DEF GiveUp
<1>1. req[c] \in Requests
  BY DEF IInv, CallsOK, KindOK, OnRequest
<1>2. UNCHANGED attempt \/ (attempt[req[c]].status = "PREPARED"
                              /\ \E s \in {"FAILED", "RETRYABLE"} : SetStatus(req[c], s))
  OBVIOUS
<1> QED
  BY <1>1, <1>2, AttemptsKept, SetStatusKeeps DEF AttemptStatus, Sendable, Unresolved

LEMMA TransitionKeeps ==
  ASSUME IInv, NEW c \in Calls, Transition(c) \/ TransitionFails(c) PROVE KeepsData
<1> USE DEF Transition, TransitionFails
<1>1. req[c] \in Requests
  BY DEF IInv, CallsOK, KindOK, OnRequest
<1>2. UNCHANGED attempt \/ (attempt[req[c]].status = "PREPARED"
                              /\ \E s \in {"FAILED", "COMMITTING"} : SetStatus(req[c], s))
  OBVIOUS
<1> QED
  BY <1>1, <1>2, AttemptsKept, SetStatusKeeps DEF AttemptStatus, Sendable, Unresolved

\* The transactions that settle an attempt store both it and the row, or neither.
Settles(c) == FinalizeVerified(c) \/ FinalizeUnchanged(c) \/ MarkUncertain(c) \/ MarkMismatch(c)

Stored(c) ==
  /\ RowFree /\ Bound(c) /\ attempt[req[c]].status \in Unresolved /\ Leave(c)
  /\ \/ FinalizeVerified(c) /\ SetStatus(req[c], "VERIFIED")
     \/ FinalizeUnchanged(c) /\ SetStatus(req[c], "UNCHANGED")
     \/ (MarkUncertain(c) \/ MarkMismatch(c)) /\ SetStatus(req[c], "UNCERTAIN")

LEMMA SettleCases ==
  ASSUME NEW c \in Calls, Settles(c)
  PROVE  \/ Stored(c)
         \/ UNCHANGED dbVars /\ (Leave(c) \/ (Refused(c) /\ ~Leave(c)))
<1> USE DEF Settles, FinalizeVerified, FinalizeUnchanged, MarkUncertain, MarkMismatch, Settle, Stored
<1>1. CASE Bound(c) /\ attempt[req[c]].status \in Unresolved
  <2>1. CASE FinalizeVerified(c) \/ FinalizeUnchanged(c) \/ MarkMismatch(c)
    BY <1>1, <2>1
  <2>2. CASE MarkUncertain(c) /\ attempt[req[c]].status = "COMMITTING"
    BY <1>1, <2>2
  <2>3. CASE MarkUncertain(c) /\ attempt[req[c]].status # "COMMITTING"
    BY <1>1, <2>3
  <2> QED
    BY <2>1, <2>2, <2>3
<1>2. CASE ~(Bound(c) /\ attempt[req[c]].status \in Unresolved)
  BY <1>2 DEF Unresolved
<1> QED
  BY <1>1, <1>2

LEMMA SettleKeeps == ASSUME IInv, NEW c \in Calls, Settles(c) PROVE KeepsData
<1>1. CASE UNCHANGED attempt
  BY <1>1, AttemptsKept
<1>2. CASE Stored(c)
  <2>1. req[c] \in Requests
    BY <1>2 DEF Stored, FinalizeVerified, FinalizeUnchanged, MarkUncertain, MarkMismatch,
                IInv, CallsOK, KindOK, OnRequest
  <2>2. /\ attempt[req[c]].status \notin {"NONE", "DRY_RUN"}
        /\ \/ SetStatus(req[c], "VERIFIED") \/ SetStatus(req[c], "UNCHANGED")
           \/ SetStatus(req[c], "UNCERTAIN")
    BY <1>2 DEF Stored, Unresolved
  <2> QED
    BY <2>1, <2>2, SetStatusKeeps DEF AttemptStatus, Sendable, Unresolved
<1> QED
  BY <1>1, <1>2, SettleCases DEF dbVars

LEMMA NextKeeps == ASSUME IInv, VersionInv, [Next]_vars PROVE KeepsData
<1>1. ASSUME NEW c \in Calls, Step(c), ~UNCHANGED attempt PROVE KeepsData
  <2>1. \/ FindCommit(c) \/ RecordDryRun(c) \/ Persist(c) \/ GiveUp(c)
        \/ Transition(c) \/ TransitionFails(c) \/ Settles(c)
    BY <1>1 DEF Step, Settles, dbVars, ReadOpenRow, Acquire, Busy, ReleaseLease, FindUndo,
         LoadRow, Prepare, Renew, Reload, Prove, RenewStage, SendPrepared, Answered, Readback,
         SettleFails, ReconcileLoad, ReconcileReload, ReconcileRead, Fence, StageCas,
         StageCommit, Mirror, Supersede, RetryBarrier, RetryFetch, RetryWrite
  <2> QED
    BY <2>1, FindCommitKeeps, RecordDryRunKeeps, PersistKeeps, GiveUpKeeps, TransitionKeeps,
       SettleKeeps
<1>2. CASE ~\E c \in Calls : Step(c)
  <2>1. UNCHANGED attempt
    BY <1>2 DEF Next, dbVars, vars, Start, StartStage, ListHolding, RetryRead, Crash, Land, Lose,
         EditInQuickBooks, LeaseExpires, ToggleDryRun
  <2> QED
    BY <2>1, AttemptsKept
<1> QED
  BY <1>1, <1>2, AttemptsKept

LEMMA RowKept == ASSUME VersionInv, UNCHANGED <<txn, qbo>> PROVE RowOK'
BY DEF VersionInv, RowOK, Known

----------------------------------------------------------------------------
(* One lemma per group of steps.                                             *)

\* Entering and leaving a call: nothing is read but the row.
LEMMA EntryVersion ==
  ASSUME IInv, VersionInv, NEW c \in Calls,
         Start(c) \/ StartStage(c) \/ RetryRead(c) \/ ReadOpenRow(c)
  PROVE  VersionInv'
<1> USE DEF Start, StartStage, RetryRead, ReadOpenRow, dbVars, qboVars, localVars, Go, At
<1>1. KeepsData
  BY AttemptsKept
<1>2. CASE Leave(c) \/ End(c)
  BY <1>1, <1>2, LeaveVersion, RowKept
<1>3. CASE ~Leave(c) /\ ~End(c)
  <2>1. Alone(c) /\ UNCHANGED <<txn, qbo>>
    BY <1>3 DEF IInv, TypeOK, Alone, Refused
  <2>2. pc'[c] \notin {"verified", "unchanged", "requeue", "prepare", "persist", "commitStage"}
    BY <1>3 DEF IInv, TypeOK, Refused, CallsOK, KindOK, Writers, Commits, Undos, Stagers
  <2>3. got'[c] = got[c] /\ seen'[c].token \in {seen[c].token, txn.token}
    BY <1>3 DEF IInv, TypeOK, Refused
  <2>4. /\ kind'[c] = "mirror" => kind[c] = "mirror"
        /\ pc'[c] \in {"acquire", "fence", "cas"} =>
             kind'[c] # "mirror" \/ pc[c] \in {"acquire", "fence", "cas"}
    BY <1>3 DEF IInv, TypeOK, Refused, CallsOK, KindOK, Writers, Commits, Undos, Stagers
  <2> QED
    BY <1>1, <2>1, <2>2, <2>3, <2>4, QuietVersion
<1> QED
  BY <1>2, <1>3

LEMMA LeaseVersion ==
  ASSUME IInv, VersionInv, NEW c \in Calls,
         Acquire(c) \/ Busy(c) \/ ReleaseLease(c) \/ Crash(c)
  PROVE  VersionInv'
<1> USE DEF Acquire, Busy, ReleaseLease, Crash, dbVars, qboVars, localVars, Go, At
<1>1. KeepsData
  BY AttemptsKept
<1>2. CASE Leave(c) \/ End(c)
  BY <1>1, <1>2, LeaveVersion, RowKept
<1>3. CASE ~Leave(c) /\ ~End(c)
  <2>1. Alone(c) /\ UNCHANGED <<txn, qbo>>
    BY <1>3 DEF IInv, TypeOK, Alone, Refused
  <2>2. pc'[c] \notin {"verified", "unchanged", "requeue", "prepare", "persist", "commitStage"}
    BY <1>3 DEF IInv, TypeOK, Refused, CallsOK, KindOK, Writers, Commits, Undos, Stagers
  <2>3. got'[c] = got[c] /\ seen'[c].token \in {seen[c].token, txn.token}
    BY <1>3 DEF IInv, TypeOK, Refused
  <2>4. /\ kind'[c] = "mirror" => kind[c] = "mirror"
        /\ pc'[c] \in {"acquire", "fence", "cas"} =>
             kind'[c] # "mirror" \/ pc[c] \in {"acquire", "fence", "cas"}
    BY <1>3 DEF IInv, TypeOK, Refused, CallsOK, KindOK, Writers, Commits, Undos, Stagers
  <2> QED
    BY <1>1, <2>1, <2>2, <2>3, <2>4, QuietVersion
<1> QED
  BY <1>2, <1>3

\* The checks before a request leaves.
LEMMA ChecksVersion ==
  ASSUME IInv, VersionInv, NEW c \in Calls,
         Renew(c) \/ Reload(c) \/ Prove(c) \/ RenewStage(c)
  PROVE  VersionInv'
<1> USE DEF Renew, Reload, Prove, RenewStage, dbVars, qboVars, localVars, Go, At
<1>1. KeepsData
  BY AttemptsKept
<1>2. CASE Leave(c) \/ End(c)
  BY <1>1, <1>2, LeaveVersion, RowKept
<1>3. CASE ~Leave(c) /\ ~End(c)
  <2>1. Alone(c) /\ UNCHANGED <<txn, qbo>>
    BY <1>3 DEF IInv, TypeOK, Alone, Refused
  <2>2. pc'[c] \notin {"verified", "unchanged", "requeue", "prepare", "persist", "commitStage"}
    BY <1>3 DEF IInv, TypeOK, Refused, CallsOK, KindOK, Writers, Commits, Undos, Stagers
  <2>3. got'[c] = got[c] /\ seen'[c].token \in {seen[c].token, txn.token}
    BY <1>3 DEF IInv, TypeOK, Refused
  <2>4. /\ kind'[c] = "mirror" => kind[c] = "mirror"
        /\ pc'[c] \in {"acquire", "fence", "cas"} =>
             kind'[c] # "mirror" \/ pc[c] \in {"acquire", "fence", "cas"}
    BY <1>3 DEF IInv, TypeOK, Refused, CallsOK, KindOK, Writers, Commits, Undos, Stagers
  <2> QED
    BY <1>1, <2>1, <2>2, <2>3, <2>4, QuietVersion
<1> QED
  BY <1>2, <1>3

LEMMA SendingVersion ==
  ASSUME IInv, VersionInv, NEW c \in Calls,
         SendPrepared(c) \/ Answered(c) \/ SettleFails(c)
  PROVE  VersionInv'
<1> USE DEF SendPrepared, Answered, SettleFails, dbVars, qboVars, localVars, Go, At
<1>1. KeepsData
  BY AttemptsKept
<1>2. CASE Leave(c) \/ End(c)
  BY <1>1, <1>2, LeaveVersion, RowKept
<1>3. CASE ~Leave(c) /\ ~End(c)
  <2>1. Alone(c) /\ UNCHANGED <<txn, qbo>>
    BY <1>3 DEF IInv, TypeOK, Alone, Refused
  <2>2. pc'[c] \notin {"verified", "unchanged", "requeue", "prepare", "persist", "commitStage"}
    BY <1>3 DEF IInv, TypeOK, Refused, CallsOK, KindOK, Writers, Commits, Undos, Stagers
  <2>3. got'[c] = got[c] /\ seen'[c].token \in {seen[c].token, txn.token}
    BY <1>3 DEF IInv, TypeOK, Refused
  <2>4. /\ kind'[c] = "mirror" => kind[c] = "mirror"
        /\ pc'[c] \in {"acquire", "fence", "cas"} =>
             kind'[c] # "mirror" \/ pc[c] \in {"acquire", "fence", "cas"}
    BY <1>3 DEF IInv, TypeOK, Refused, CallsOK, KindOK, Writers, Commits, Undos, Stagers
  <2> QED
    BY <1>1, <2>1, <2>2, <2>3, <2>4, QuietVersion
<1> QED
  BY <1>2, <1>3

LEMMA ReconcileVersion ==
  ASSUME IInv, VersionInv, NEW c \in Calls,
         ReconcileLoad(c) \/ ReconcileReload(c)
  PROVE  VersionInv'
<1> USE DEF ReconcileLoad, ReconcileReload, dbVars, qboVars, localVars, Go, At
<1>1. KeepsData
  BY AttemptsKept
<1>2. CASE Leave(c) \/ End(c)
  BY <1>1, <1>2, LeaveVersion, RowKept
<1>3. CASE ~Leave(c) /\ ~End(c)
  <2>1. Alone(c) /\ UNCHANGED <<txn, qbo>>
    BY <1>3 DEF IInv, TypeOK, Alone, Refused
  <2>2. pc'[c] \notin {"verified", "unchanged", "requeue", "prepare", "persist", "commitStage"}
    BY <1>3 DEF IInv, TypeOK, Refused, CallsOK, KindOK, Writers, Commits, Undos, Stagers
  <2>3. got'[c] = got[c] /\ seen'[c].token \in {seen[c].token, txn.token}
    BY <1>3 DEF IInv, TypeOK, Refused
  <2>4. /\ kind'[c] = "mirror" => kind[c] = "mirror"
        /\ pc'[c] \in {"acquire", "fence", "cas"} =>
             kind'[c] # "mirror" \/ pc[c] \in {"acquire", "fence", "cas"}
    BY <1>3 DEF IInv, TypeOK, Refused, CallsOK, KindOK, Writers, Commits, Undos, Stagers
  <2> QED
    BY <1>1, <2>1, <2>2, <2>3, <2>4, QuietVersion
<1> QED
  BY <1>2, <1>3

LEMMA BarrierVersion ==
  ASSUME IInv, VersionInv, NEW c \in Calls,
         Fence(c) \/ RetryBarrier(c)
  PROVE  VersionInv'
<1> USE DEF Fence, RetryBarrier, dbVars, qboVars, localVars, Go, At
<1>1. KeepsData
  BY AttemptsKept
<1>2. CASE Leave(c) \/ End(c)
  BY <1>1, <1>2, LeaveVersion, RowKept
<1>3. CASE ~Leave(c) /\ ~End(c)
  <2>1. Alone(c) /\ UNCHANGED <<txn, qbo>>
    BY <1>3 DEF IInv, TypeOK, Alone, Refused
  <2>2. pc'[c] \notin {"verified", "unchanged", "requeue", "prepare", "persist", "commitStage"}
    BY <1>3 DEF IInv, TypeOK, Refused, CallsOK, KindOK, Writers, Commits, Undos, Stagers
  <2>3. got'[c] = got[c] /\ seen'[c].token \in {seen[c].token, txn.token}
    BY <1>3 DEF IInv, TypeOK, Refused
  <2>4. /\ kind'[c] = "mirror" => kind[c] = "mirror"
        /\ pc'[c] \in {"acquire", "fence", "cas"} =>
             kind'[c] # "mirror" \/ pc[c] \in {"acquire", "fence", "cas"}
    BY <1>3 DEF IInv, TypeOK, Refused, CallsOK, KindOK, Writers, Commits, Undos, Stagers
  <2> QED
    BY <1>1, <2>1, <2>2, <2>3, <2>4, QuietVersion
<1> QED
  BY <1>2, <1>3

LEMMA FindUndoVersion ==
  ASSUME IInv, VersionInv, NEW c \in Calls,
         FindUndo(c)
  PROVE  VersionInv'
<1> USE DEF FindUndo, dbVars, qboVars, localVars, Go, At
<1>1. KeepsData
  BY AttemptsKept
<1>2. CASE Leave(c) \/ End(c)
  BY <1>1, <1>2, LeaveVersion, RowKept
<1>3. CASE ~Leave(c) /\ ~End(c)
  <2>1. Alone(c) /\ UNCHANGED <<txn, qbo>>
    BY <1>3 DEF IInv, TypeOK, Alone, Refused
  <2>2. pc'[c] \notin {"verified", "unchanged", "requeue", "prepare", "persist", "commitStage"}
    BY <1>3 DEF IInv, TypeOK, Refused, CallsOK, KindOK, Writers, Commits, Undos, Stagers
  <2>3. got'[c] = got[c] /\ seen'[c].token \in {seen[c].token, txn.token}
    BY <1>3 DEF IInv, TypeOK, Refused
  <2>4. /\ kind'[c] = "mirror" => kind[c] = "mirror"
        /\ pc'[c] \in {"acquire", "fence", "cas"} =>
             kind'[c] # "mirror" \/ pc[c] \in {"acquire", "fence", "cas"}
    BY <1>3 DEF IInv, TypeOK, Refused, CallsOK, KindOK, Writers, Commits, Undos, Stagers
  <2> QED
    BY <1>1, <2>1, <2>2, <2>3, <2>4, QuietVersion
<1> QED
  BY <1>2, <1>3

\* The call goes on; only the status of its attempt may change.
LEMMA FindCommitVersion == ASSUME IInv, VersionInv, NEW c \in Calls, FindCommit(c) PROVE VersionInv'
<1> USE DEF FindCommit, At, Go, qboVars, localVars
<1>1. KeepsData
  BY FindCommitKeeps
<1>2. CASE Leave(c)
  BY <1>1, <1>2, LeaveVersion, RowKept
<1>3. CASE ~Leave(c)
  <2>1. Alone(c) /\ pc'[c] = "load" /\ got'[c] = got[c] /\ seen'[c] = seen[c]
        /\ kind'[c] # "mirror" /\ UNCHANGED <<txn, qbo>>
    BY <1>3 DEF IInv, TypeOK, Alone
  <2> QED
    BY <1>1, <2>1, QuietVersion
<1> QED
  BY <1>2, <1>3

\* A row that is read for a first write has been staged.
LEMMA LoadRowVersion == ASSUME IInv, VersionInv, NEW c \in Calls, LoadRow(c) PROVE VersionInv'
<1> USE DEF LoadRow, At, Go, dbVars, qboVars, localVars
<1>1. KeepsData
  BY AttemptsKept
<1>2. CASE Leave(c)
  BY <1>1, <1>2, LeaveVersion, RowKept
<1>3. CASE ~Leave(c)
  <2>1. Alone(c) /\ got' = got /\ seen'[c].token \in {seen[c].token, txn.token}
        /\ rev' = rev /\ kind' = kind
    BY <1>3 DEF IInv, TypeOK, Alone
  <2>2. pc'[c] \in {"dry", "giveUp", "prepare", "renew"}
        /\ (pc'[c] = "prepare" => rev[c] = txn.revision)
    BY <1>3 DEF IInv, TypeOK
  <2>3. CallReads(c)'
    BY <2>1, <2>2 DEF VersionInv, CallReads, RowOK, Known, IInv, TypeOK
  <2> QED
    BY <1>1, <2>1, <2>3, VersionFrame, RowKept
<1> QED
  BY <1>2, <1>3

LEMMA PrepareVersion == ASSUME IInv, VersionInv, NEW c \in Calls, Prepare(c) PROVE VersionInv'
<1> USE DEF Prepare, Go, dbVars, qboVars, localVars
<1>1. KeepsData
  BY AttemptsKept
<1>2. CASE Leave(c)
  BY <1>1, <1>2, LeaveVersion, RowKept
<1>3. CASE ~Leave(c)
  <2>1. Alone(c) /\ pc'[c] = "persist" /\ UNCHANGED <<kind, rev, seen, got>>
    BY <1>3 DEF IInv, TypeOK, Alone
  <2>2. CallReads(c)'
    BY <2>1 DEF VersionInv, CallReads
  <2> QED
    BY <1>1, <2>1, <2>2, VersionFrame, RowKept
<1> QED
  BY <1>2, <1>3

\* The staging transaction has the row from the moment it found it pending.
LEMMA StageCasVersion == ASSUME IInv, VersionInv, NEW c \in Calls, StageCas(c) PROVE VersionInv'
<1> USE DEF StageCas, At, Go, dbVars, qboVars, localVars
<1>1. KeepsData
  BY AttemptsKept
<1>2. CASE Leave(c)
  BY <1>1, <1>2, LeaveVersion, RowKept
<1>3. CASE ~Leave(c)
  <2>1. Alone(c) /\ pc'[c] = "commitStage" /\ txn.status = "PENDING"
        /\ UNCHANGED <<txn, kind, rev, seen, got>>
    BY <1>3 DEF IInv, TypeOK, Alone
  <2>2. CallReads(c)'
    BY <2>1 DEF VersionInv, CallReads
  <2> QED
    BY <1>1, <2>1, <2>2, VersionFrame, RowKept
<1> QED
  BY <1>2, <1>3

\* A write that is given up, or may be sent, keeps what it stands for.
LEMMA GiveUpVersion == ASSUME IInv, VersionInv, NEW c \in Calls, GiveUp(c) PROVE VersionInv'
<1> USE DEF GiveUp, qboVars
<1>1. KeepsData
  BY GiveUpKeeps
<1> QED
  BY <1>1, LeaveVersion, RowKept

LEMMA TransitionVersion ==
  ASSUME IInv, VersionInv, NEW c \in Calls, Transition(c) \/ TransitionFails(c)
  PROVE  VersionInv'
<1> USE DEF Transition, TransitionFails, Go, qboVars, localVars
<1>1. KeepsData
  BY TransitionKeeps
<1>2. CASE Leave(c)
  BY <1>1, <1>2, LeaveVersion, RowKept
<1>3. CASE ~Leave(c)
  <2>1. Alone(c) /\ pc'[c] \in {"giveUp", "send"} /\ got'[c] = got[c] /\ seen'[c] = seen[c]
        /\ kind'[c] = kind[c] /\ UNCHANGED <<txn, qbo>>
    BY <1>3 DEF IInv, TypeOK, Alone
  <2> QED
    BY <1>1, <2>1, QuietVersion
<1> QED
  BY <1>2, <1>3

\* Reads of QuickBooks: what is concluded holds of the version that was read.
LEMMA ReadVersion ==
  ASSUME IInv, VersionInv, NEW c \in Calls,
         ListHolding(c) \/ Readback(c) \/ ReconcileRead(c) \/ RetryFetch(c)
  PROVE  VersionInv'
<1> USE DEF ListHolding, Readback, ReconcileRead, RetryFetch, At, Go, dbVars, qboVars, localVars
<1>1. KeepsData
  BY AttemptsKept
<1>2. CASE Leave(c)
  BY <1>1, <1>2, LeaveVersion, RowKept
<1>3. CASE ~Leave(c)
  <2>1. Alone(c) /\ req' = req /\ seen' = seen /\ got'[c] \in {got[c], qbo.token}
    BY <1>3 DEF IInv, TypeOK, Alone
  <2>2. /\ pc'[c] = "verified" =>
             got'[c] = qbo.token /\ qbo.content = attempt[req[c]].target
        /\ pc'[c] = "unchanged" => qbo.content = attempt[req[c]].before
        /\ pc'[c] = "requeue" => got'[c] = qbo.token /\ qbo.content = Held
        /\ kind'[c] = "mirror" => kind[c] = "mirror" \/ "mirror" \in Kinds
        /\ kind'[c] = "mirror" /\ pc'[c] \in {"acquire", "fence", "cas"} =>
             got'[c] = qbo.token /\ qbo.content = Held
        /\ pc'[c] \notin {"prepare", "persist", "commitStage"}
    BY <1>3 DEF IInv, TypeOK, CallsOK, KindOK
  <2>3. CallReads(c)'
    BY <2>1, <2>2 DEF VersionInv, CallReads, Known, IInv, TypeOK, Tokens
  <2> QED
    BY <1>1, <2>1, <2>3, VersionFrame, RowKept
<1> QED
  BY <1>2, <1>3

LEMMA RecordDryRunVersion ==
  ASSUME IInv, VersionInv, NEW c \in Calls, RecordDryRun(c) PROVE VersionInv'
<1> USE DEF RecordDryRun, dbVars, qboVars
<1>1. KeepsData
  BY RecordDryRunKeeps
<1>2. RowOK' /\ RowFree
  BY DEF VersionInv, RowOK, Known, IInv, TypeOK
<1> QED
  BY <1>1, <1>2, LeaveVersion

\* The new attempt has the shape of its operation.
LEMMA PersistVersion == ASSUME IInv, VersionInv, NEW c \in Calls, Persist(c) PROVE VersionInv'
<1> USE DEF Persist, Go, qboVars, localVars
<1>1. KeepsData
  BY PersistKeeps
<1>2. CASE Leave(c)
  BY <1>1, <1>2, LeaveVersion, RowKept
<1>3. CASE ~Leave(c)
  <2>1. Alone(c) /\ pc'[c] = "renew" /\ got'[c] = got[c] /\ seen'[c] = seen[c]
        /\ kind'[c] = kind[c] /\ UNCHANGED <<txn, qbo>>
    BY <1>3 DEF IInv, TypeOK, Alone
  <2> QED
    BY <1>1, <2>1, QuietVersion
<1> QED
  BY <1>2, <1>3

\* A transaction that settles an attempt: what it stores of the row is what the call
\* has read, at the revision of the attempt.
LEMMA SettleVersion == ASSUME IInv, VersionInv, NEW c \in Calls, Settles(c) PROVE VersionInv'
<1>0. KeepsData /\ UNCHANGED qbo
  BY SettleKeeps DEF Settles, FinalizeVerified, FinalizeUnchanged, MarkUncertain, MarkMismatch,
     Settle, qboVars
<1>1. req[c] \in Requests /\ attempt[req[c]].op \in {"recategorize", "restore"}
  <2>1. req[c] \in Requests
    BY DEF Settles, FinalizeVerified, FinalizeUnchanged, MarkUncertain, MarkMismatch,
           IInv, CallsOK, KindOK, OnRequest
  <2> QED
    BY <2>1 DEF IInv, TypeOK
<1>2. CASE Stored(c)
  <2>1. /\ Shaped(req[c]) /\ attempt[req[c]].status \notin {"NONE", "DRY_RUN"}
        /\ CallReads(c) /\ RowOK /\ txn.revision = attempt[req[c]].rev
        /\ txn.token = seen[c].token
    BY <1>1, <1>2 DEF VersionInv, Unresolved, Bound, Stored
  <2> USE DEF FinalizeVerified, FinalizeUnchanged, MarkUncertain, MarkMismatch, Settle
  <2>2. ASSUME FinalizeVerified(c) PROVE RowOK'
    <3>1. /\ pc[c] = "verified"
          /\ txn'.status = EndStatus(attempt[req[c]].op) /\ txn'.token = got[c]
          /\ txn'.revision = txn.revision
      BY <1>2, <2>2 DEF Stored, IInv, TypeOK
    <3>2. Known(got[c], attempt[req[c]].target)
      BY <2>1, <3>1 DEF CallReads
    <3> QED
      BY <1>0, <1>1, <2>1, <3>1, <3>2 DEF RowOK, Shaped, CallReads, Known, EndStatus
  <2>3. ASSUME FinalizeUnchanged(c) PROVE RowOK'
    BY <1>0, <1>1, <1>2, <2>1, <2>3
    DEF Stored, RowOK, Shaped, CallReads, Known, StartStatus, IInv, TypeOK
  <2>4. ASSUME MarkUncertain(c) \/ MarkMismatch(c) PROVE RowOK'
    BY <1>0, <1>2, <2>1, <2>4 DEF Stored, Unresolved, RowOK, Known, IInv, TypeOK, dbVars
  <2>5. RowOK' /\ RowFree
    BY <1>2, <2>2, <2>3, <2>4 DEF Stored
  <2> QED
    BY <1>0, <1>2, <2>5, LeaveVersion DEF Stored
<1>3. CASE UNCHANGED dbVars /\ (Leave(c) \/ (Refused(c) /\ ~Leave(c)))
  <2>1. UNCHANGED txn
    BY <1>3 DEF dbVars
  <2>2. CASE Leave(c)
    BY <1>0, <2>1, <2>2, LeaveVersion, RowKept
  <2>3. CASE Refused(c) /\ ~Leave(c)
    <3>1. Alone(c) /\ pc'[c] = "uncertain" /\ UNCHANGED <<kind, seen, got>>
      BY <2>3 DEF Refused, Go, Alone, IInv, TypeOK, localVars
    <3> QED
      BY <1>0, <2>1, <3>1, QuietVersion
  <2> QED
    BY <1>3, <2>2, <2>3
<1> QED
  BY <1>2, <1>3, SettleCases

\* The transactions of staging, sync and the retry.
LEMMA RowStepsVersion ==
  ASSUME IInv, VersionInv, NEW c \in Calls,
         StageCommit(c) \/ Mirror(c) \/ Supersede(c) \/ RetryWrite(c)
  PROVE  VersionInv'
<1> USE DEF qboVars, At
<1>1. KeepsData /\ UNCHANGED qbo /\ CallReads(c) /\ RowOK
  BY AttemptsKept DEF StageCommit, Mirror, Supersede, RetryWrite, VersionInv
<1>2. CASE StageCommit(c)
  <2>1. RowOK' /\ txn'.status = txn.status
    BY <1>1, <1>2 DEF StageCommit, CallReads, RowOK, Known, IInv, TypeOK
  <2> QED
    BY <1>1, <1>2, <2>1, LeaveVersion DEF StageCommit
<1>3. CASE Mirror(c)
  <2>1. RowOK' /\ RowFree
    BY <1>1, <1>3 DEF Mirror, CallReads, RowOK, Known, IInv, TypeOK
  <2> QED
    BY <1>1, <1>3, <2>1, LeaveVersion DEF Mirror
<1>4. CASE Supersede(c)
  <2>1. RowOK' /\ RowFree
    BY <1>1, <1>4 DEF Supersede, RowOK, Known, IInv, TypeOK
  <2> QED
    BY <1>1, <1>4, <2>1, LeaveVersion DEF Supersede
<1>5. CASE RetryWrite(c)
  <2>1. RowOK' /\ RowFree
    BY <1>1, <1>5 DEF RetryWrite, CallReads, RowOK, Known, IInv, TypeOK
  <2> QED
    BY <1>1, <1>5, <2>1, LeaveVersion DEF RetryWrite
<1> QED
  BY <1>2, <1>3, <1>4, <1>5

\* QuickBooks moves on: what was known of a version is known for good.
LEMMA SurroundingsVersion ==
  ASSUME IInv, VersionInv,
         \/ \E r \in Requests : Land(r) \/ Lose(r)
         \/ EditInQuickBooks \/ LeaseExpires \/ ToggleDryRun
         \/ UNCHANGED vars
  PROVE  VersionInv'
<1> USE DEF dbVars, qboVars, localVars, vars
<1>1. UNCHANGED <<txn, attempt, pc, kind, req, rev, seen, got>>
  BY DEF Land, Lose, EditInQuickBooks, LeaseExpires, ToggleDryRun
<1>2. qbo' = qbo \/ qbo'.token = qbo.token + 1
  BY DEF Land, Lose, EditInQuickBooks, LeaseExpires, ToggleDryRun
<1>3. qbo.token \in Nat
  BY DEF IInv, TypeOK, Tokens
<1>4. \A t \in Nat, k \in Contents : Known(t, k) => Known(t, k)'
  BY <1>2, <1>3 DEF Known
<1>5. /\ txn.token \in Nat /\ txn.revision \in Contents /\ Held \in Contents
      /\ \A c \in Calls : seen[c].token \in Nat /\ got[c] \in Nat
      /\ \A r \in Requests : attempt[r].before \in Contents /\ attempt[r].target \in Contents
  BY BoundsAssumption DEF IInv, TypeOK, Tokens, Contents, Held
<1>6. ASSUME NEW c \in Calls PROVE CallReads(c)'
  <2>1. pc[c] \in {"verified", "unchanged"} => req[c] \in Requests
    BY DEF IInv, CallsOK, KindOK, OnRequest
  <2> QED
    BY <1>1, <1>2, <1>3, <1>4, <1>5, <2>1 DEF VersionInv, CallReads
<1>7. RowOK'
  BY <1>1, <1>2, <1>3, <1>4, <1>5 DEF VersionInv, RowOK
<1>8. \A r \in Requests : Shaped(r)'
  BY <1>1 DEF VersionInv, Shaped
<1> QED
  BY <1>6, <1>7, <1>8 DEF VersionInv

LEMMA NextVersion == IInv /\ VersionInv /\ [Next]_vars => VersionInv'
<1> SUFFICES ASSUME IInv, VersionInv, [Next]_vars PROVE VersionInv'
  OBVIOUS
<1>1. CASE \E c \in Calls : Start(c) \/ StartStage(c) \/ ListHolding(c) \/ RetryRead(c)
  BY <1>1, EntryVersion, ReadVersion
<1>2. ASSUME NEW c \in Calls, Step(c) PROVE VersionInv'
  BY <1>2, EntryVersion, LeaseVersion, FindCommitVersion, FindUndoVersion, LoadRowVersion,
     RecordDryRunVersion, PrepareVersion, PersistVersion, ChecksVersion, GiveUpVersion,
     TransitionVersion, SendingVersion, ReadVersion, SettleVersion, ReconcileVersion,
     BarrierVersion, StageCasVersion, RowStepsVersion DEF Step, Settles
<1>3. CASE \E c \in Calls : Crash(c)
  BY <1>3, LeaseVersion
<1> QED
  BY <1>1, <1>2, <1>3, SurroundingsVersion DEF Next

\* Whatever the calls, and whatever happens in QuickBooks: as long as the SyncToken
\* of the row is the current one, a row that is offered for categorization is on the
\* holding account.  Every transaction that stores a token has read that version.
THEOREM PendingRowsAreHeld == Spec => []PendingIsHeld
<1>1. RowOK => PendingIsHeld
  BY DEF RowOK, Known, PendingIsHeld
<1> QED
  BY <1>1, InitIInv, NextIInv, InitVersionInv, NextVersion, PTL DEF Spec, VersionInv

\* Without the mirror of sync, a posted row carries in QuickBooks what is staged as
\* long as its SyncToken is the current one.  (The mirror stores the token of an
\* entity on the holding account to a row of any status, see the README.)
THEOREM PostedRowsAreCategorized ==
  ASSUME "mirror" \notin Kinds
  PROVE  Spec => []PostedIsCategorized
<1>1. RowOK => PostedIsCategorized
  BY DEF RowOK, Known, PostedIsCategorized
<1> QED
  BY <1>1, InitIInv, NextIInv, InitVersionInv, NextVersion, PTL DEF Spec, VersionInv

----------------------------------------------------------------------------
(* What QuickBooks has applied.  A content that was read can only be there    *)
(* because a request with it was applied; the holding account only comes back *)
(* through a restore.                                                         *)

\* A request of operation op with content k was applied.
Written(op, k) == \E q \in landed : attempt[q].op = op /\ attempt[q].target = k

SomethingWritten == \E q \in landed : attempt[q].op = "recategorize"

\* A call that acts on an attempt acts on one that is not a dry run.
Armed(c) ==
  OnRequest(c) /\ (pc[c] \in Persisted \/ kind[c] \in Resumes \ {"reconcile"}) =>
    attempt[req[c]].status # "DRY_RUN"

CallWrote(c) ==
  /\ Armed(c)
  /\ kind[c] = "undo" /\ pc[c] \in {"load", "prepare", "persist"} => SomethingWritten
  /\ pc[c] = "verified" => Written(attempt[req[c]].op, attempt[req[c]].target)

WrittenInv ==
  /\ \A r \in wire \cup landed : attempt[r].status \in Sendable
  /\ qbo.content >= 1 => Written("recategorize", qbo.content)
  /\ qbo.content = Held /\ SomethingWritten => Written("restore", Held)
  /\ \A r \in Requests : attempt[r].op = "restore" => SomethingWritten
  /\ VerifiedWasWritten
  /\ \A c \in Calls : CallWrote(c)

LEMMA InitWrittenInv == Init => WrittenInv
BY DEF Init, WrittenInv, Written, SomethingWritten, CallWrote, VerifiedWasWritten, NoAttempt, Held,
       Armed, OnRequest

\* What was applied stays applied.
LEMMA WrittenStays ==
  ASSUME IInv, WrittenInv, KeepsData, landed \subseteq landed'
  PROVE  /\ \A op, k : Written(op, k) => Written(op, k)'
         /\ SomethingWritten => SomethingWritten'
<1>1. \A q \in landed : q \in landed' /\ attempt'[q].op = attempt[q].op
                        /\ attempt'[q].target = attempt[q].target
  BY DEF IInv, TypeOK, WrittenInv, KeepsData, Sendable, Unresolved
<1> QED
  BY <1>1 DEF Written, SomethingWritten

\* A step of call c that QuickBooks does not see.
LEMMA WrittenFrame ==
  ASSUME IInv, WrittenInv, NEW c \in Calls, Alone(c), KeepsData, UNCHANGED <<qbo, landed>>,
         \A r \in wire' \ wire : r \in Requests /\ attempt'[r].status \in Sendable,
         \A r \in Requests : attempt'[r].op = "restore" =>
           attempt[r].op = "restore" \/ SomethingWritten,
         \A r \in Requests : attempt'[r].status = "VERIFIED" =>
           attempt[r].status = "VERIFIED" \/ Written(attempt'[r].op, attempt'[r].target),
         CallWrote(c)'
  PROVE  WrittenInv'
<1>1. /\ \A op, k : Written(op, k) => Written(op, k)'
      /\ SomethingWritten => SomethingWritten'
  BY WrittenStays
<1>2. SomethingWritten' => SomethingWritten
  <2>1. \A q \in landed : attempt'[q].op = attempt[q].op
    BY DEF IInv, TypeOK, WrittenInv, KeepsData, Sendable, Unresolved
  <2> QED
    BY <2>1 DEF SomethingWritten
<1>3. \A r \in wire' \cup landed' : attempt'[r].status \in Sendable
  BY DEF IInv, TypeOK, WrittenInv, KeepsData, Sendable, Unresolved
<1>4. VerifiedWasWritten'
  <2>1. ASSUME NEW r \in Requests, attempt'[r].status = "VERIFIED"
        PROVE  Written(attempt'[r].op, attempt'[r].target)
    BY <2>1 DEF WrittenInv, VerifiedWasWritten, Written, KeepsData
  <2>2. ASSUME NEW r \in Requests, attempt'[r].status = "VERIFIED"
        PROVE  \E q \in landed' : attempt'[q].op = attempt'[r].op
                                  /\ attempt'[q].target = attempt'[r].target
    <3>1. \A q \in landed : attempt'[q].op = attempt[q].op /\ attempt'[q].target = attempt[q].target
      BY DEF IInv, TypeOK, WrittenInv, KeepsData, Sendable, Unresolved
    <3> QED
      BY <2>1, <2>2, <3>1 DEF Written
  <2> QED
    BY <2>2 DEF VerifiedWasWritten
<1>5. ASSUME NEW d \in Calls \ {c} PROVE CallWrote(d)'
  <2>1. pc[d] = "verified" =>
          /\ req[d] \in Requests
          /\ attempt'[req[d]].target = attempt[req[d]].target
          /\ attempt'[req[d]].op = attempt[req[d]].op
    BY DEF IInv, CallsOK, KindOK, OnRequest, Persisted, KeepsData
  <2>2. CallWrote(d)
    BY DEF WrittenInv
  <2>3. Armed(d)'
    BY <2>2 DEF CallWrote, Armed, Alone, OnRequest, KeepsData, IInv, CallsOK
  <2> QED
    BY <1>1, <2>1, <2>2, <2>3 DEF Alone, CallWrote
<1> QED
  BY <1>1, <1>2, <1>3, <1>4, <1>5 DEF WrittenInv

\* The call itself learns nothing of QuickBooks and begins no undo.
LEMMA WrittenQuiet ==
  ASSUME IInv, WrittenInv, NEW c \in Calls, Alone(c), UNCHANGED <<attempt, qbo, landed, wire>>,
         pc'[c] # "verified", Armed(c)',
         kind'[c] = "undo" /\ pc'[c] \in {"load", "prepare", "persist"} =>
           kind[c] = "undo" /\ pc[c] \in {"load", "prepare", "persist"}
  PROVE  WrittenInv'
<1>1. CallWrote(c)'
  BY DEF WrittenInv, CallWrote, SomethingWritten
<1>2. \A r \in Requests : attempt'[r].status = "VERIFIED" => attempt[r].status = "VERIFIED"
  OBVIOUS
<1> QED
  BY <1>1, <1>2, AttemptsKept, WrittenFrame

\* Settling, giving up and leaving: the call is done with its request.
LEMMA WrittenLeave ==
  ASSUME IInv, WrittenInv, NEW c \in Calls, Leave(c) \/ End(c), KeepsData,
         UNCHANGED <<qbo, landed, wire>>,
         \A r \in Requests : attempt'[r].op = "restore" => attempt[r].op = "restore",
         \A r \in Requests : attempt'[r].status = "VERIFIED" =>
           attempt[r].status = "VERIFIED" \/ Written(attempt'[r].op, attempt'[r].target)
  PROVE  WrittenInv'
<1>1. Alone(c) /\ pc'[c] \in {"release", "idle"}
  BY DEF Leave, End, Go, Alone, IInv, TypeOK
<1>2. CallWrote(c)'
  BY <1>1 DEF CallWrote, Armed, OnRequest
<1> QED
  BY <1>1, <1>2, WrittenFrame

LEMMA EntryWritten ==
  ASSUME IInv, WrittenInv, NEW c \in Calls,
         Start(c) \/ StartStage(c) \/ RetryRead(c) \/ ReadOpenRow(c) \/ ListHolding(c)
  PROVE  WrittenInv'
<1> USE DEF Start, StartStage, RetryRead, ReadOpenRow, ListHolding, dbVars, qboVars, localVars, Go, At, Leave, End, Refused
<1>1. UNCHANGED <<attempt, qbo, landed, wire>>
  OBVIOUS
<1>2. Alone(c)
  BY DEF IInv, TypeOK, Alone
<1>3. pc'[c] # "verified"
  BY DEF IInv, TypeOK
<1>4. kind'[c] = "undo" /\ pc'[c] \in {"load", "prepare", "persist"} =>
        kind[c] = "undo" /\ pc[c] \in {"load", "prepare", "persist"}
  BY DEF IInv, TypeOK, Writers, Commits, Undos
<1>5. Armed(c)'
  BY DEF WrittenInv, CallWrote, Armed, OnRequest, Persisted, Resumes, IInv, TypeOK, CallsOK,
         KindOK, Writers, Commits, Undos, Stagers
<1> QED
  BY <1>1, <1>2, <1>3, <1>4, <1>5, WrittenQuiet

LEMMA LeaseWritten ==
  ASSUME IInv, WrittenInv, NEW c \in Calls,
         Acquire(c) \/ Busy(c) \/ ReleaseLease(c) \/ Crash(c)
  PROVE  WrittenInv'
<1> USE DEF Acquire, Busy, ReleaseLease, Crash, dbVars, qboVars, localVars, Go, At, Leave, End, Refused
<1>1. UNCHANGED <<attempt, qbo, landed, wire>>
  OBVIOUS
<1>2. Alone(c)
  BY DEF IInv, TypeOK, Alone
<1>3. pc'[c] # "verified"
  BY DEF IInv, TypeOK
<1>4. kind'[c] = "undo" /\ pc'[c] \in {"load", "prepare", "persist"} =>
        kind[c] = "undo" /\ pc[c] \in {"load", "prepare", "persist"}
  BY DEF IInv, TypeOK, Writers, Commits, Undos
<1>5. Armed(c)'
  BY DEF WrittenInv, CallWrote, Armed, OnRequest, Persisted, Resumes, IInv, TypeOK, CallsOK,
         KindOK, Writers, Commits, Undos, Stagers
<1> QED
  BY <1>1, <1>2, <1>3, <1>4, <1>5, WrittenQuiet

LEMMA PreparingWritten ==
  ASSUME IInv, WrittenInv, NEW c \in Calls,
         LoadRow(c) \/ Prepare(c)
  PROVE  WrittenInv'
<1> USE DEF LoadRow, Prepare, dbVars, qboVars, localVars, Go, At, Leave, End, Refused
<1>1. UNCHANGED <<attempt, qbo, landed, wire>>
  OBVIOUS
<1>2. Alone(c)
  BY DEF IInv, TypeOK, Alone
<1>3. pc'[c] # "verified"
  BY DEF IInv, TypeOK
<1>4. kind'[c] = "undo" /\ pc'[c] \in {"load", "prepare", "persist"} =>
        kind[c] = "undo" /\ pc[c] \in {"load", "prepare", "persist"}
  BY DEF IInv, TypeOK, Writers, Commits, Undos
<1>5. Armed(c)'
  BY DEF WrittenInv, CallWrote, Armed, OnRequest, Persisted, Resumes, IInv, TypeOK, CallsOK,
         KindOK, Writers, Commits, Undos, Stagers
<1> QED
  BY <1>1, <1>2, <1>3, <1>4, <1>5, WrittenQuiet

LEMMA ChecksWritten ==
  ASSUME IInv, WrittenInv, NEW c \in Calls,
         Renew(c) \/ Reload(c) \/ Prove(c) \/ RenewStage(c)
  PROVE  WrittenInv'
<1> USE DEF Renew, Reload, Prove, RenewStage, dbVars, qboVars, localVars, Go, At, Leave, End, Refused
<1>1. UNCHANGED <<attempt, qbo, landed, wire>>
  OBVIOUS
<1>2. Alone(c)
  BY DEF IInv, TypeOK, Alone
<1>3. pc'[c] # "verified"
  BY DEF IInv, TypeOK
<1>4. kind'[c] = "undo" /\ pc'[c] \in {"load", "prepare", "persist"} =>
        kind[c] = "undo" /\ pc[c] \in {"load", "prepare", "persist"}
  BY DEF IInv, TypeOK, Writers, Commits, Undos
<1>5. Armed(c)'
  BY DEF WrittenInv, CallWrote, Armed, OnRequest, Persisted, Resumes, IInv, TypeOK, CallsOK,
         KindOK, Writers, Commits, Undos, Stagers
<1> QED
  BY <1>1, <1>2, <1>3, <1>4, <1>5, WrittenQuiet

LEMMA SettlingWritten ==
  ASSUME IInv, WrittenInv, NEW c \in Calls,
         Answered(c) \/ SettleFails(c)
  PROVE  WrittenInv'
<1> USE DEF Answered, SettleFails, dbVars, qboVars, localVars, Go, At, Leave, End, Refused
<1>1. UNCHANGED <<attempt, qbo, landed, wire>>
  OBVIOUS
<1>2. Alone(c)
  BY DEF IInv, TypeOK, Alone
<1>3. pc'[c] # "verified"
  BY DEF IInv, TypeOK
<1>4. kind'[c] = "undo" /\ pc'[c] \in {"load", "prepare", "persist"} =>
        kind[c] = "undo" /\ pc[c] \in {"load", "prepare", "persist"}
  BY DEF IInv, TypeOK, Writers, Commits, Undos
<1>5. Armed(c)'
  BY DEF WrittenInv, CallWrote, Armed, OnRequest, Persisted, Resumes, IInv, TypeOK, CallsOK,
         KindOK, Writers, Commits, Undos, Stagers
<1> QED
  BY <1>1, <1>2, <1>3, <1>4, <1>5, WrittenQuiet

LEMMA ReconcileWritten ==
  ASSUME IInv, WrittenInv, NEW c \in Calls,
         ReconcileLoad(c) \/ ReconcileReload(c)
  PROVE  WrittenInv'
<1> USE DEF ReconcileLoad, ReconcileReload, dbVars, qboVars, localVars, Go, At, Leave, End, Refused
<1>1. UNCHANGED <<attempt, qbo, landed, wire>>
  OBVIOUS
<1>2. Alone(c)
  BY DEF IInv, TypeOK, Alone
<1>3. pc'[c] # "verified"
  BY DEF IInv, TypeOK
<1>4. kind'[c] = "undo" /\ pc'[c] \in {"load", "prepare", "persist"} =>
        kind[c] = "undo" /\ pc[c] \in {"load", "prepare", "persist"}
  BY DEF IInv, TypeOK, Writers, Commits, Undos
<1>5. Armed(c)'
  <2>1. CASE ReconcileLoad(c)
    BY <2>1 DEF Armed, OnRequest, Persisted, Resumes, Unresolved, IInv, TypeOK
  <2>2. CASE ReconcileReload(c)
    BY <2>2 DEF WrittenInv, CallWrote, Armed, OnRequest, Persisted, Resumes, IInv, TypeOK
  <2> QED
    BY <2>1, <2>2
<1> QED
  BY <1>1, <1>2, <1>3, <1>4, <1>5, WrittenQuiet

LEMMA FencedWritten ==
  ASSUME IInv, WrittenInv, NEW c \in Calls,
         Fence(c) \/ StageCas(c) \/ StageCommit(c) \/ Mirror(c) \/ Supersede(c)
  PROVE  WrittenInv'
<1> USE DEF Fence, StageCas, StageCommit, Mirror, Supersede, dbVars, qboVars, localVars, Go, At, Leave, End, Refused
<1>1. UNCHANGED <<attempt, qbo, landed, wire>>
  OBVIOUS
<1>2. Alone(c)
  BY DEF IInv, TypeOK, Alone
<1>3. pc'[c] # "verified"
  BY DEF IInv, TypeOK
<1>4. kind'[c] = "undo" /\ pc'[c] \in {"load", "prepare", "persist"} =>
        kind[c] = "undo" /\ pc[c] \in {"load", "prepare", "persist"}
  BY DEF IInv, TypeOK, Writers, Commits, Undos
<1>5. Armed(c)'
  BY DEF WrittenInv, CallWrote, Armed, OnRequest, Persisted, Resumes, IInv, TypeOK, CallsOK,
         KindOK, Writers, Commits, Undos, Stagers
<1> QED
  BY <1>1, <1>2, <1>3, <1>4, <1>5, WrittenQuiet

LEMMA RetryWritten ==
  ASSUME IInv, WrittenInv, NEW c \in Calls,
         RetryBarrier(c) \/ RetryFetch(c) \/ RetryWrite(c)
  PROVE  WrittenInv'
<1> USE DEF RetryBarrier, RetryFetch, RetryWrite, dbVars, qboVars, localVars, Go, At, Leave, End, Refused
<1>1. UNCHANGED <<attempt, qbo, landed, wire>>
  OBVIOUS
<1>2. Alone(c)
  BY DEF IInv, TypeOK, Alone
<1>3. pc'[c] # "verified"
  BY DEF IInv, TypeOK
<1>4. kind'[c] = "undo" /\ pc'[c] \in {"load", "prepare", "persist"} =>
        kind[c] = "undo" /\ pc[c] \in {"load", "prepare", "persist"}
  BY DEF IInv, TypeOK, Writers, Commits, Undos
<1>5. Armed(c)'
  BY DEF WrittenInv, CallWrote, Armed, OnRequest, Persisted, Resumes, IInv, TypeOK, CallsOK,
         KindOK, Writers, Commits, Undos, Stagers
<1> QED
  BY <1>1, <1>2, <1>3, <1>4, <1>5, WrittenQuiet

\* An undo begins with a verified categorization, which was applied.
LEMMA FindUndoWritten ==
  ASSUME IInv, VersionInv, WrittenInv, NEW c \in Calls, FindUndo(c) PROVE WrittenInv'
<1> USE DEF FindUndo, At, Go, dbVars, qboVars
<1>1. KeepsData /\ UNCHANGED <<attempt, qbo, landed, wire>>
  BY AttemptsKept
<1>2. CASE Leave(c)
  BY <1>1, <1>2, WrittenLeave
<1>3. CASE ~Leave(c)
  <2>1. Alone(c) /\ pc'[c] = "load" /\ \E s \in Requests : Source(s)
    BY <1>3 DEF IInv, TypeOK, Alone
  <2>2. SomethingWritten
    BY <2>1 DEF WrittenInv, VerifiedWasWritten, Source, SomethingWritten
  <2>3. Armed(c)'
    BY <1>3, <2>1 DEF Armed, OnRequest, Persisted, Resumes, IInv, TypeOK
  <2>4. CallWrote(c)'
    BY <1>1, <2>1, <2>2, <2>3, WrittenStays DEF CallWrote
  <2> QED
    BY <1>1, <2>1, <2>4, WrittenFrame
<1> QED
  BY <1>2, <1>3

\* What a read finds to be the intent of an attempt was written by a request.
LEMMA ReadWritten ==
  ASSUME IInv, VersionInv, WrittenInv, NEW c \in Calls, Readback(c) \/ ReconcileRead(c)
  PROVE  WrittenInv'
<1> USE DEF Readback, ReconcileRead, At, Go, dbVars, qboVars, localVars
<1>1. KeepsData /\ UNCHANGED <<attempt, qbo, landed, wire>>
  BY AttemptsKept
<1>2. CASE Leave(c)
  BY <1>1, <1>2, WrittenLeave
<1>3. CASE ~Leave(c)
  <2>1. /\ Alone(c) /\ req' = req
        /\ pc'[c] \notin {"load", "prepare", "persist"}
        /\ pc'[c] = "verified" => qbo.content = attempt[req[c]].target
    BY <1>3 DEF IInv, TypeOK, Alone
  <2>2. pc'[c] = "verified" => Written(attempt[req[c]].op, attempt[req[c]].target)
    <3>1. SUFFICES ASSUME pc'[c] = "verified"
                   PROVE  Written(attempt[req[c]].op, attempt[req[c]].target)
      OBVIOUS
    <3>2. /\ req[c] \in Requests /\ attempt[req[c]].status # "NONE"
          /\ attempt[req[c]].op \in {"recategorize", "restore"}
      <4>1. req[c] \in Requests /\ attempt[req[c]].status # "NONE"
        BY DEF IInv, CallsOK, KindOK, OnRequest, Persisted
      <4> QED
        BY <4>1 DEF IInv, TypeOK
    <3>3. attempt[req[c]].status # "DRY_RUN"
      BY DEF WrittenInv, CallWrote, Armed, IInv, CallsOK, KindOK, OnRequest, Persisted
    <3>4. CASE attempt[req[c]].op = "recategorize"
      BY <2>1, <3>1, <3>2, <3>3, <3>4 DEF VersionInv, Shaped, WrittenInv, IInv, TypeOK
    <3>5. CASE attempt[req[c]].op = "restore"
      BY <2>1, <3>1, <3>2, <3>3, <3>5 DEF VersionInv, Shaped, WrittenInv
    <3> QED
      BY <3>2, <3>4, <3>5
  <2>3. Armed(c)'
    BY <1>1, <1>3, <2>1 DEF WrittenInv, CallWrote, Armed, IInv, TypeOK, CallsOK, KindOK,
                            OnRequest, Persisted
  <2>4. CallWrote(c)'
    BY <1>1, <2>1, <2>2, <2>3, WrittenStays DEF CallWrote
  <2> QED
    BY <1>1, <2>1, <2>4, WrittenFrame
<1> QED
  BY <1>2, <1>3

\* Only the status of one attempt moves, and not to verified.
LEMMA StatusWritten ==
  ASSUME IInv, VersionInv, WrittenInv, NEW c \in Calls,
         FindCommit(c) \/ GiveUp(c) \/ Transition(c) \/ TransitionFails(c)
  PROVE  WrittenInv'
<1>1. KeepsData /\ UNCHANGED <<qbo, landed, wire>>
  BY FindCommitKeeps, GiveUpKeeps, TransitionKeeps
  DEF qboVars, FindCommit, GiveUp, Transition, TransitionFails
<1>2. UNCHANGED attempt \/ \E s \in {"FAILED", "PREPARED", "RETRYABLE", "COMMITTING"} :
                               SetStatus(req[c], s)
  BY DEF FindCommit, GiveUp, Transition, TransitionFails
<1>3. /\ \A r \in Requests : attempt'[r].op = attempt[r].op
      /\ \A r \in Requests : attempt'[r].status = "VERIFIED" => attempt[r].status = "VERIFIED"
  <2>1. req[c] \in Requests
    BY DEF FindCommit, GiveUp, Transition, TransitionFails, At, IInv, CallsOK,
           KindOK, OnRequest, Writers, Commits
  <2> QED
    BY <1>2, <2>1, SetStatusFacts DEF AttemptStatus
<1>4. CASE Leave(c)
  BY <1>1, <1>3, <1>4, WrittenLeave
<1>5. CASE ~Leave(c)
  <2>1. Alone(c) /\ pc'[c] \in {"load", "giveUp", "send"} /\ (kind'[c] = "undo" => kind[c] = "undo")
        /\ (pc'[c] = "load" => kind[c] # "undo")
    BY <1>5 DEF FindCommit, GiveUp, Transition, TransitionFails, At, Go, localVars,
                IInv, TypeOK, Alone
  <2>2. Armed(c)'
    <3>1. req[c] \in Requests /\ OnRequest(c) /\ Armed(c)
      BY DEF FindCommit, GiveUp, Transition, TransitionFails, At, IInv, CallsOK,
             KindOK, OnRequest, Writers, Commits, WrittenInv, CallWrote
    <3>2. req' = req
      BY <1>5 DEF FindCommit, GiveUp, Transition, TransitionFails, localVars
    <3>3. CASE FindCommit(c)
      <4>1. attempt[req[c]].status \in {"PREPARED", "RETRYABLE"}
            \/ (kind' = kind /\ kind[c] \in {"commit", "live"})
        BY <1>5, <3>3 DEF FindCommit, At, localVars
      <4>2. CASE attempt[req[c]].status \in {"PREPARED", "RETRYABLE"}
        BY <1>1, <3>1, <3>2, <4>2 DEF Armed, KeepsData
      <4>3. CASE kind' = kind /\ kind[c] \in {"commit", "live"}
        <5>1. pc'[c] = "load"
          BY <1>5, <3>3 DEF FindCommit, Go, IInv, TypeOK
        <5> QED
          BY <4>3, <5>1 DEF Armed, Persisted, Resumes
      <4> QED
        BY <4>1, <4>2, <4>3
    <3>4. CASE ~FindCommit(c)
      <4>1. pc[c] \in {"giveUp", "transition"}
        BY <3>4 DEF GiveUp, Transition, TransitionFails
      <4>2. attempt[req[c]].status \notin {"NONE", "DRY_RUN"}
        BY <3>1, <4>1 DEF Armed, Persisted, IInv, CallsOK
      <4> QED
        BY <1>1, <3>1, <3>2, <4>2 DEF Armed, KeepsData
    <3> QED
      BY <3>3, <3>4
  <2>3. CallWrote(c)'
    BY <2>1, <2>2 DEF CallWrote
  <2> QED
    BY <1>1, <1>3, <2>1, <2>3, WrittenFrame
<1> QED
  BY <1>4, <1>5

LEMMA RecordDryRunWritten ==
  ASSUME IInv, VersionInv, WrittenInv, NEW c \in Calls, RecordDryRun(c) PROVE WrittenInv'
<1> USE DEF RecordDryRun, dbVars, qboVars
<1>1. KeepsData
  BY RecordDryRunKeeps
<1>2. CASE UNCHANGED attempt
  BY <1>1, <1>2, WrittenLeave
<1>3. CASE ~UNCHANGED attempt
  <2> DEFINE row == [NoAttempt EXCEPT !.status = "DRY_RUN", !.rev = rev[c],
                                      !.token = seen[c].token]
  <2>1. row.status = "DRY_RUN" /\ row.op = "recategorize"
    BY DEF NoAttempt
  <2>2. attempt' = [attempt EXCEPT ![req[c]] = row]
    BY <1>3
  <2> HIDE DEF row
  <2>3. \A r \in Requests : attempt'[r] = IF r = req[c] THEN row ELSE attempt[r]
    BY <2>2 DEF IInv, TypeOK
  <2> QED
    BY <1>1, <2>1, <2>3, WrittenLeave
<1> QED
  BY <1>2, <1>3

\* A restore is only prepared by an undo.
LEMMA PersistWritten ==
  ASSUME IInv, VersionInv, WrittenInv, NEW c \in Calls, Persist(c) PROVE WrittenInv'
<1> USE DEF Persist, Go, qboVars, localVars
<1>1. KeepsData
  BY PersistKeeps
<1>2. CASE UNCHANGED attempt /\ Leave(c)
  BY <1>1, <1>2, WrittenLeave
<1>3. CASE ~(UNCHANGED attempt /\ Leave(c))
  <2> DEFINE undo == kind[c] = "undo"
             row == [status |-> "PREPARED",
                     op |-> IF undo THEN "restore" ELSE "recategorize",
                     rev |-> rev[c], token |-> seen[c].token,
                     before |-> IF undo THEN rev[c] ELSE Held,
                     target |-> IF undo THEN Held ELSE rev[c]]
  <2>1. row.status = "PREPARED" /\ (row.op = "restore" => undo)
    OBVIOUS
  <2>2. attempt' = [attempt EXCEPT ![req[c]] = row] /\ Go(c, "renew")
    BY <1>3
  <2> HIDE DEF row
  <2>3. \A r \in Requests : attempt'[r] = IF r = req[c] THEN row ELSE attempt[r]
    BY <2>2 DEF IInv, TypeOK
  <2>4. undo => SomethingWritten
    BY DEF WrittenInv, CallWrote
  <2>5. Alone(c) /\ pc'[c] = "renew"
    BY <1>3, <2>2 DEF IInv, TypeOK, Alone
  <2>6. req' = req /\ UNCHANGED <<qbo, landed, wire>>
    BY <1>3
  <2>7. CallWrote(c)'
    BY <2>1, <2>3, <2>5, <2>6 DEF CallWrote, Armed, IInv, CallsOK, KindOK, OnRequest, Writers, Commits, Undos
  <2> HIDE DEF Persist
  <2> QED
    BY <1>1, <2>1, <2>3, <2>4, <2>5, <2>6, <2>7, WrittenFrame
<1> QED
  BY <1>2, <1>3

LEMMA SettleWritten ==
  ASSUME IInv, VersionInv, WrittenInv, NEW c \in Calls, Settles(c) PROVE WrittenInv'
<1>1. KeepsData /\ UNCHANGED <<qbo, landed, wire>>
  BY SettleKeeps DEF Settles, FinalizeVerified, FinalizeUnchanged, MarkUncertain, MarkMismatch,
     Settle, qboVars
<1>2. CASE Stored(c)
  <2>1. \A r \in Requests : attempt'[r].op = attempt[r].op /\ attempt'[r].target = attempt[r].target
    <3>1. req[c] \in Requests
      BY DEF Settles, FinalizeVerified, FinalizeUnchanged, MarkUncertain, MarkMismatch,
             IInv, CallsOK, KindOK, OnRequest
    <3> QED
      BY <1>2, <3>1, SetStatusFacts DEF Stored, AttemptStatus
  <2>2. ASSUME NEW r \in Requests, attempt'[r].status = "VERIFIED", attempt[r].status # "VERIFIED"
        PROVE  r = req[c] /\ pc[c] = "verified"
    BY <1>2, <2>2 DEF Stored, SetStatus, IInv, TypeOK, FinalizeVerified
  <2>3. pc[c] = "verified" => Written(attempt[req[c]].op, attempt[req[c]].target)
    BY DEF WrittenInv, CallWrote
  <2>4. Leave(c)
    BY <1>2 DEF Stored
  <2>5. \A r \in Requests : attempt'[r].status = "VERIFIED" =>
          attempt[r].status = "VERIFIED" \/ Written(attempt'[r].op, attempt'[r].target)
    BY <2>1, <2>2, <2>3
  <2> QED
    BY <1>1, <2>1, <2>4, <2>5, WrittenLeave
<1>3. CASE UNCHANGED dbVars /\ Leave(c)
  BY <1>1, <1>3, WrittenLeave DEF dbVars
<1>4. CASE UNCHANGED dbVars /\ Refused(c) /\ ~Leave(c)
  <2>1. Alone(c) /\ pc[c] = "verified" /\ pc'[c] = "uncertain" /\ UNCHANGED <<attempt, kind, req>>
    BY <1>4 DEF Refused, Go, localVars, dbVars, IInv, TypeOK, Alone
  <2>2. Armed(c)'
    BY <2>1 DEF WrittenInv, CallWrote, Armed, OnRequest, Persisted
  <2> QED
    BY <1>1, <2>1, <2>2, WrittenQuiet
<1> QED
  BY <1>2, <1>3, <1>4, SettleCases

LEMMA SendPreparedWritten ==
  ASSUME IInv, VersionInv, WrittenInv, NEW c \in Calls, SendPrepared(c) PROVE WrittenInv'
<1>1. /\ Alone(c) /\ pc'[c] = "sent" /\ UNCHANGED <<attempt, qbo, landed>>
      /\ wire' = wire \cup {req[c]}
  BY DEF SendPrepared, Go, dbVars, localVars, IInv, TypeOK, Alone
<1>2. req[c] \in Requests /\ attempt[req[c]].status \in Sendable
  BY DEF SendPrepared, IInv, CallsOK, KindOK, OnRequest, SentByOne
<1>3. CallWrote(c)'
  BY <1>1 DEF CallWrote, SendPrepared, localVars, WrittenInv, Armed, OnRequest, Persisted
<1> QED
  BY <1>1, <1>2, <1>3, AttemptsKept, WrittenFrame

\* A request lands with its own content; nobody in QuickBooks writes one.
LEMMA SurroundingsWritten ==
  ASSUME IInv, VersionInv, WrittenInv,
         \/ \E r \in Requests : Land(r) \/ Lose(r)
         \/ EditInQuickBooks \/ LeaseExpires \/ ToggleDryRun
         \/ UNCHANGED vars
  PROVE  WrittenInv'
<1> USE DEF dbVars, qboVars, localVars, vars
<1>1. UNCHANGED <<attempt, pc, kind, req>> /\ KeepsData
  BY AttemptsKept DEF Land, Lose, EditInQuickBooks, LeaseExpires, ToggleDryRun
<1>2. landed \subseteq landed' /\ wire' \cup landed' \subseteq wire \cup landed
  BY DEF Land, Lose, EditInQuickBooks, LeaseExpires, ToggleDryRun
<1>3. /\ \A op, k : Written(op, k) => Written(op, k)'
      /\ SomethingWritten => SomethingWritten'
  BY <1>1, <1>2, WrittenStays
<1>4. VerifiedWasWritten' /\ \A c \in Calls : CallWrote(c)'
  BY <1>1, <1>2, <1>3 DEF WrittenInv, VerifiedWasWritten, CallWrote, Armed, OnRequest
<1>5. /\ qbo'.content >= 1 => Written("recategorize", qbo.content)'
      /\ qbo'.content = Held /\ SomethingWritten' => Written("restore", Held)'
  <2>1. CASE UNCHANGED <<qbo, landed>>
    BY <1>1, <2>1 DEF WrittenInv, Written, SomethingWritten, Held
  <2>2. CASE EditInQuickBooks
    <3>1. landed' = landed /\ (qbo'.content = qbo.content \/ qbo'.content = -1)
      BY <2>2 DEF EditInQuickBooks, Elsewhere
    <3>2. SomethingWritten' => SomethingWritten
      BY <1>1, <3>1 DEF SomethingWritten
    <3> QED
      BY <1>1, <3>1, <3>2 DEF WrittenInv, Written, Held
  <2>3. ASSUME NEW r \in Requests, Land(r), landed' = landed \cup {r},
               qbo'.content = attempt[r].target
        PROVE  /\ qbo'.content >= 1 => Written("recategorize", qbo.content)'
               /\ qbo'.content = Held /\ SomethingWritten' => Written("restore", Held)'
    <3>1. attempt[r].status \in Sendable /\ attempt[r].op \in {"recategorize", "restore"}
      BY <2>3 DEF WrittenInv, Land, IInv, TypeOK
    <3>2. /\ attempt[r].op = "recategorize" => attempt[r].target >= 1
          /\ attempt[r].op = "restore" => attempt[r].target = 0
      BY <3>1 DEF VersionInv, Shaped, Sendable, Unresolved, Held, IInv, TypeOK
    <3> QED
      BY <1>1, <2>3, <3>1, <3>2 DEF Written, Held
  <2>4. ASSUME NEW r \in Requests, Land(r), ~UNCHANGED <<qbo, landed>>
        PROVE  landed' = landed \cup {r} /\ qbo'.content = attempt[r].target
    BY <2>4 DEF Land
  <2>5. \/ UNCHANGED <<qbo, landed>> \/ EditInQuickBooks \/ \E r \in Requests : Land(r)
    BY DEF Lose, LeaseExpires, ToggleDryRun
  <2> QED
    BY <2>1, <2>2, <2>3, <2>4, <2>5
<1> QED
  BY <1>1, <1>2, <1>3, <1>4, <1>5 DEF WrittenInv

LEMMA NextWritten == IInv /\ VersionInv /\ WrittenInv /\ [Next]_vars => WrittenInv'
<1> SUFFICES ASSUME IInv, VersionInv, WrittenInv, [Next]_vars PROVE WrittenInv'
  OBVIOUS
<1>1. CASE \E c \in Calls : Start(c) \/ StartStage(c) \/ ListHolding(c) \/ RetryRead(c)
  BY <1>1, EntryWritten
<1>2. ASSUME NEW c \in Calls, Step(c) PROVE WrittenInv'
  BY <1>2, EntryWritten, LeaseWritten, StatusWritten, FindUndoWritten, PreparingWritten,
     RecordDryRunWritten, PersistWritten, ChecksWritten, SendPreparedWritten, SettlingWritten,
     ReadWritten, SettleWritten, ReconcileWritten, FencedWritten, RetryWritten DEF Step, Settles
<1>3. CASE \E c \in Calls : Crash(c)
  BY <1>3, LeaseWritten
<1> QED
  BY <1>1, <1>2, <1>3, SurroundingsWritten DEF Next

\* An attempt is called verified - on the answer to its request or by a later
\* reconciliation - only if a request with its content was applied, however often
\* answers were lost, requests sent again under other ids, or the entity edited.
THEOREM VerifiedIsWritten == Spec => []VerifiedWasWritten
<1>1. WrittenInv => VerifiedWasWritten
  BY DEF WrittenInv
<1> QED
  BY <1>1, InitIInv, NextIInv, InitVersionInv, NextVersion, InitWrittenInv, NextWritten, PTL
  DEF Spec

----------------------------------------------------------------------------
(* What the row tells of its attempts, as long as nobody presses retry.      *)

OneActive ==
  \A q, r \in Requests : attempt[q].status \in Active /\ attempt[r].status \in Active => q = r

SourceExists == \E s \in Requests : Source(s)

Restored(r) == attempt[r].op = "restore" /\ attempt[r].status = "VERIFIED"

\* A row in error has an attempt of unknown outcome; while an outcome is unknown the
\* row is where its attempt began, in error, or given to the dry run; it has at most
\* one verified categorization, which it shows, and once that is taken back it stays
\* so.
RowStory ==
  /\ OneActive
  /\ txn.status = "ERROR" => \E r \in Requests : attempt[r].status = "UNCERTAIN"
  /\ \A r \in Requests : attempt[r].status \in Unresolved =>
       /\ txn.status \in {StartStatus(attempt[r].op), "ERROR", "DRY_RUN"}
       /\ attempt[r].op = "recategorize" /\ txn.status # "DRY_RUN" => ~SourceExists
  /\ \A r \in Requests : Source(r) =>
       txn.status \in {"POSTED", "REVERTED", "ERROR", "DRY_RUN"} /\ attempt[r].rev = txn.revision
  /\ \A q, r \in Requests : Source(q) /\ Source(r) => q = r
  /\ \A r \in Requests : attempt[r].op = "restore" => SourceExists
  /\ txn.status = "POSTED" => SourceExists
  /\ \A r \in Requests : Restored(r) => txn.status \in {"REVERTED", "DRY_RUN"}
  /\ \A r \in LiveRequests : attempt[r].op = "recategorize"

\* A call of a person that has reloaded the row finds it where its write begins until
\* the attempt moves; an undo has found its source; nobody retries.
CallStory(c) ==
  /\ seen[c].status # "DRY_RUN"
  /\ pc[c] \notin {"barrier", "fetch", "requeue", "drop"}
  /\ kind[c] = "undo" /\ pc[c] \in {"load", "prepare", "persist"} => SourceExists
  /\ pc[c] \in {"prove", "transition"} /\ kind[c] \in Writers \ Lives
       /\ attempt[req[c]].status = "PREPARED" =>
       txn.status \in {StartStatus(attempt[req[c]].op), "DRY_RUN"}

StoryInv == RowStory /\ \A c \in Calls : CallStory(c)

LEMMA InitStoryInv == Init => StoryInv
BY LiveAssumption DEF Init, StoryInv, RowStory, CallStory, OneActive, SourceExists, Source, Restored, NoAttempt,
       Active, Unresolved, Unread, StartStatus

\* What a step may do to the attempts and the status of the row without another call
\* noticing: a row moves only if no attempt is prepared.
Orderly ==
  /\ KeepsData
  /\ \A r \in Requests : attempt[r].status = "VERIFIED" => attempt'[r].status = "VERIFIED"
  /\ \A r \in Requests \ LiveRequests :
       attempt[r].status \notin {"NONE", "PREPARED"} => attempt'[r].status # "PREPARED"
  /\ \/ txn'.status \in {txn.status, "DRY_RUN"}
     \/ \A r \in Requests : attempt[r].status # "PREPARED"

LEMMA SourceStays ==
  ASSUME IInv, Orderly
  PROVE  /\ \A r \in Requests : Source(r) => Source(r)'
         /\ SourceExists => SourceExists'
BY DEF Orderly, KeepsData, Source, SourceExists

LEMMA StoryFrame ==
  ASSUME IInv, StoryInv, NEW c \in Calls, Alone(c), Orderly, RowStory', CallStory(c)'
  PROVE  StoryInv'
<1>1. ASSUME NEW d \in Calls \ {c} PROVE CallStory(d)'
  <2>1. CallStory(d)
    BY DEF StoryInv
  <2>2. SourceExists => SourceExists'
    BY SourceStays
  <2>3. ASSUME pc[d] \in {"prove", "transition"}, kind[d] \in Writers \ Lives,
               attempt'[req[d]].status = "PREPARED"
        PROVE  txn'.status \in {StartStatus(attempt'[req[d]].op), "DRY_RUN"}
    <3>1. /\ req[d] \in Requests \ LiveRequests /\ attempt[req[d]].status # "NONE"
          /\ attempt'[req[d]].op = attempt[req[d]].op
      BY <2>3 DEF IInv, CallsOK, OnRequest, Persisted, Orderly, KeepsData
    <3>2. attempt[req[d]].status = "PREPARED"
      BY <2>3, <3>1 DEF Orderly
    <3>3. txn.status \in {StartStatus(attempt[req[d]].op), "DRY_RUN"}
      BY <2>1, <2>3, <3>2 DEF CallStory
    <3> QED
      BY <3>1, <3>2, <3>3 DEF Orderly
  <2> QED
    BY <2>1, <2>2, <2>3 DEF Alone, CallStory
<1> QED
  BY <1>1 DEF StoryInv

LEMMA OrderlyQuiet == ASSUME IInv, UNCHANGED <<txn, attempt>> PROVE Orderly
BY AttemptsKept DEF Orderly

\* A step that changes neither the row nor an attempt.
LEMMA StoryQuiet ==
  ASSUME IInv, StoryInv, NEW c \in Calls, Alone(c), UNCHANGED <<txn, attempt>>,
         seen'[c].status # "DRY_RUN",
         pc'[c] \notin {"barrier", "fetch", "requeue", "drop"},
         kind'[c] = "undo" /\ pc'[c] \in {"load", "prepare", "persist"} => SourceExists,
         pc'[c] \in {"prove", "transition"} /\ kind'[c] \in Writers \ Lives
           /\ attempt[req'[c]].status = "PREPARED" =>
           txn.status \in {StartStatus(attempt[req'[c]].op), "DRY_RUN"}
  PROVE  StoryInv'
<1>1. RowStory'
  BY DEF StoryInv, RowStory, OneActive, SourceExists, Source, Restored, StartStatus
<1>2. CallStory(c)'
  BY DEF CallStory, SourceExists, Source, StartStatus
<1> QED
  BY <1>1, <1>2, OrderlyQuiet, StoryFrame

\* The call returns, throws or dies.
LEMMA StoryLeave ==
  ASSUME IInv, StoryInv, NEW c \in Calls, Leave(c) \/ End(c), Orderly, RowStory'
  PROVE  StoryInv'
<1>1. Alone(c) /\ pc'[c] \in {"release", "idle"} /\ seen'[c] = Unread /\ kind'[c] = "commit"
  BY DEF Leave, End, Go, Alone, IInv, TypeOK
<1>2. CallStory(c)'
  BY <1>1 DEF CallStory, Unread
<1> QED
  BY <1>1, <1>2, StoryFrame

LEMMA RowStoryKept == ASSUME StoryInv, UNCHANGED <<txn, attempt>> PROVE RowStory'
BY DEF StoryInv, RowStory, OneActive, SourceExists, Source, Restored, StartStatus

LEMMA EntryStory ==
  ASSUME IInv, StoryInv, NEW c \in Calls,
         Start(c) \/ StartStage(c) \/ ReadOpenRow(c) \/ ListHolding(c)
  PROVE  StoryInv'
<1> USE DEF Start, StartStage, ReadOpenRow, ListHolding, dbVars, qboVars, localVars, Go, At, Leave, End, Refused
<1>1. UNCHANGED <<txn, attempt>>
  OBVIOUS
<1>2. Alone(c)
  BY DEF IInv, TypeOK, Alone
<1>3. seen'[c].status # "DRY_RUN"
  BY DEF StoryInv, CallStory, IInv, TypeOK, Unread, Reconcilable
<1>4. pc'[c] \notin {"barrier", "fetch", "requeue", "drop"}
  BY DEF StoryInv, CallStory, IInv, TypeOK
<1>5. kind'[c] = "undo" /\ pc'[c] \in {"load", "prepare", "persist"} => SourceExists
  BY DEF StoryInv, CallStory, IInv, TypeOK, SourceExists, Writers, Commits, Undos
<1>6. pc'[c] \in {"prove", "transition"} /\ kind'[c] \in Writers \ Lives
        /\ attempt[req'[c]].status = "PREPARED" =>
        txn.status \in {StartStatus(attempt[req'[c]].op), "DRY_RUN"}
  BY DEF StoryInv, CallStory, IInv, TypeOK, Lives
<1> QED
  BY <1>1, <1>2, <1>3, <1>4, <1>5, <1>6, StoryQuiet

LEMMA LeaseStory ==
  ASSUME IInv, StoryInv, NEW c \in Calls,
         Acquire(c) \/ Busy(c) \/ ReleaseLease(c) \/ Crash(c)
  PROVE  StoryInv'
<1> USE DEF Acquire, Busy, ReleaseLease, Crash, dbVars, qboVars, localVars, Go, At, Leave, End, Refused
<1>1. UNCHANGED <<txn, attempt>>
  OBVIOUS
<1>2. Alone(c)
  BY DEF IInv, TypeOK, Alone
<1>3. seen'[c].status # "DRY_RUN"
  BY DEF StoryInv, CallStory, IInv, TypeOK, Unread, Reconcilable
<1>4. pc'[c] \notin {"barrier", "fetch", "requeue", "drop"}
  BY DEF StoryInv, CallStory, IInv, TypeOK
<1>5. kind'[c] = "undo" /\ pc'[c] \in {"load", "prepare", "persist"} => SourceExists
  BY DEF StoryInv, CallStory, IInv, TypeOK, SourceExists, Writers, Commits, Undos
<1>6. pc'[c] \in {"prove", "transition"} /\ kind'[c] \in Writers \ Lives
        /\ attempt[req'[c]].status = "PREPARED" =>
        txn.status \in {StartStatus(attempt[req'[c]].op), "DRY_RUN"}
  BY DEF StoryInv, CallStory, IInv, TypeOK, Lives
<1> QED
  BY <1>1, <1>2, <1>3, <1>4, <1>5, <1>6, StoryQuiet

LEMMA PreparingStory ==
  ASSUME IInv, StoryInv, NEW c \in Calls,
         FindUndo(c) \/ LoadRow(c) \/ Prepare(c)
  PROVE  StoryInv'
<1> USE DEF FindUndo, LoadRow, Prepare, dbVars, qboVars, localVars, Go, At, Leave, End, Refused
<1>1. UNCHANGED <<txn, attempt>>
  OBVIOUS
<1>2. Alone(c)
  BY DEF IInv, TypeOK, Alone
<1>3. seen'[c].status # "DRY_RUN"
  BY DEF StoryInv, CallStory, IInv, TypeOK, Unread, Reconcilable
<1>4. pc'[c] \notin {"barrier", "fetch", "requeue", "drop"}
  BY DEF StoryInv, CallStory, IInv, TypeOK
<1>5. kind'[c] = "undo" /\ pc'[c] \in {"load", "prepare", "persist"} => SourceExists
  BY DEF StoryInv, CallStory, IInv, TypeOK, SourceExists, Writers, Commits, Undos
<1>6. pc'[c] \in {"prove", "transition"} /\ kind'[c] \in Writers \ Lives
        /\ attempt[req'[c]].status = "PREPARED" =>
        txn.status \in {StartStatus(attempt[req'[c]].op), "DRY_RUN"}
  BY DEF StoryInv, CallStory, IInv, TypeOK, Lives
<1> QED
  BY <1>1, <1>2, <1>3, <1>4, <1>5, <1>6, StoryQuiet

LEMMA ChecksStory ==
  ASSUME IInv, StoryInv, NEW c \in Calls,
         Renew(c) \/ Reload(c) \/ Prove(c) \/ RenewStage(c)
  PROVE  StoryInv'
<1> USE DEF Renew, Reload, Prove, RenewStage, dbVars, qboVars, localVars, Go, At, Leave, End, Refused
<1>1. UNCHANGED <<txn, attempt>>
  OBVIOUS
<1>2. Alone(c)
  BY DEF IInv, TypeOK, Alone
<1>3. seen'[c].status # "DRY_RUN"
  BY DEF StoryInv, CallStory, IInv, TypeOK, Unread, Reconcilable
<1>4. pc'[c] \notin {"barrier", "fetch", "requeue", "drop"}
  BY DEF StoryInv, CallStory, IInv, TypeOK
<1>5. kind'[c] = "undo" /\ pc'[c] \in {"load", "prepare", "persist"} => SourceExists
  BY DEF StoryInv, CallStory, IInv, TypeOK, SourceExists, Writers, Commits, Undos
<1>6. pc'[c] \in {"prove", "transition"} /\ kind'[c] \in Writers \ Lives
        /\ attempt[req'[c]].status = "PREPARED" =>
        txn.status \in {StartStatus(attempt[req'[c]].op), "DRY_RUN"}
  <2>1. CASE Renew(c) \/ RenewStage(c)
    BY <2>1 DEF IInv, TypeOK, CallsOK, KindOK, Lives
  <2>2. CASE Reload(c)
    BY <2>2 DEF IInv, TypeOK
  <2>3. CASE Prove(c)
    BY <2>3 DEF IInv, TypeOK, StoryInv, CallStory
  <2> QED
    BY <2>1, <2>2, <2>3
<1> QED
  BY <1>1, <1>2, <1>3, <1>4, <1>5, <1>6, StoryQuiet

LEMMA SendingStory ==
  ASSUME IInv, StoryInv, NEW c \in Calls,
         SendPrepared(c) \/ Answered(c) \/ Readback(c) \/ SettleFails(c)
  PROVE  StoryInv'
<1> USE DEF SendPrepared, Answered, Readback, SettleFails, dbVars, qboVars, localVars, Go, At, Leave, End, Refused
<1>1. UNCHANGED <<txn, attempt>>
  OBVIOUS
<1>2. Alone(c)
  BY DEF IInv, TypeOK, Alone
<1>3. seen'[c].status # "DRY_RUN"
  BY DEF StoryInv, CallStory, IInv, TypeOK, Unread, Reconcilable
<1>4. pc'[c] \notin {"barrier", "fetch", "requeue", "drop"}
  BY DEF StoryInv, CallStory, IInv, TypeOK
<1>5. kind'[c] = "undo" /\ pc'[c] \in {"load", "prepare", "persist"} => SourceExists
  BY DEF StoryInv, CallStory, IInv, TypeOK, SourceExists, Writers, Commits, Undos
<1>6. pc'[c] \in {"prove", "transition"} /\ kind'[c] \in Writers \ Lives
        /\ attempt[req'[c]].status = "PREPARED" =>
        txn.status \in {StartStatus(attempt[req'[c]].op), "DRY_RUN"}
  BY DEF StoryInv, CallStory, IInv, TypeOK, Lives
<1> QED
  BY <1>1, <1>2, <1>3, <1>4, <1>5, <1>6, StoryQuiet

LEMMA ReconcileStory ==
  ASSUME IInv, StoryInv, NEW c \in Calls,
         ReconcileLoad(c) \/ ReconcileReload(c) \/ ReconcileRead(c)
  PROVE  StoryInv'
<1> USE DEF ReconcileLoad, ReconcileReload, ReconcileRead, dbVars, qboVars, localVars, Go, At, Leave, End, Refused
<1>1. UNCHANGED <<txn, attempt>>
  OBVIOUS
<1>2. Alone(c)
  BY DEF IInv, TypeOK, Alone
<1>3. seen'[c].status # "DRY_RUN"
  BY DEF StoryInv, CallStory, IInv, TypeOK, Unread, Reconcilable
<1>4. pc'[c] \notin {"barrier", "fetch", "requeue", "drop"}
  BY DEF StoryInv, CallStory, IInv, TypeOK
<1>5. kind'[c] = "undo" /\ pc'[c] \in {"load", "prepare", "persist"} => SourceExists
  BY DEF StoryInv, CallStory, IInv, TypeOK, SourceExists, Writers, Commits, Undos
<1>6. pc'[c] \in {"prove", "transition"} /\ kind'[c] \in Writers \ Lives
        /\ attempt[req'[c]].status = "PREPARED" =>
        txn.status \in {StartStatus(attempt[req'[c]].op), "DRY_RUN"}
  BY DEF StoryInv, CallStory, IInv, TypeOK, Lives
<1> QED
  BY <1>1, <1>2, <1>3, <1>4, <1>5, <1>6, StoryQuiet

LEMMA FencedStory ==
  ASSUME IInv, StoryInv, NEW c \in Calls,
         Fence(c) \/ StageCas(c)
  PROVE  StoryInv'
<1> USE DEF Fence, StageCas, dbVars, qboVars, localVars, Go, At, Leave, End, Refused
<1>1. UNCHANGED <<txn, attempt>>
  OBVIOUS
<1>2. Alone(c)
  BY DEF IInv, TypeOK, Alone
<1>3. seen'[c].status # "DRY_RUN"
  BY DEF StoryInv, CallStory, IInv, TypeOK, Unread, Reconcilable
<1>4. pc'[c] \notin {"barrier", "fetch", "requeue", "drop"}
  BY DEF StoryInv, CallStory, IInv, TypeOK
<1>5. kind'[c] = "undo" /\ pc'[c] \in {"load", "prepare", "persist"} => SourceExists
  BY DEF StoryInv, CallStory, IInv, TypeOK, SourceExists, Writers, Commits, Undos
<1>6. pc'[c] \in {"prove", "transition"} /\ kind'[c] \in Writers \ Lives
        /\ attempt[req'[c]].status = "PREPARED" =>
        txn.status \in {StartStatus(attempt[req'[c]].op), "DRY_RUN"}
  BY DEF StoryInv, CallStory, IInv, TypeOK, Lives
<1> QED
  BY <1>1, <1>2, <1>3, <1>4, <1>5, <1>6, StoryQuiet


\* The status of one attempt changes, and nobody learns an outcome.
LEMMA RowStoryMove ==
  ASSUME IInv, StoryInv, NEW r \in Requests, NEW to \in AttemptStatus, SetStatus(r, to),
         UNCHANGED txn, to # "VERIFIED",
         attempt[r].status \notin {"UNCERTAIN", "VERIFIED"},
         to \in Active => attempt[r].status \in Active \/ NoOtherActive(r),
         to \in Unresolved => txn.status \in {StartStatus(attempt[r].op), "DRY_RUN"}
  PROVE  RowStory'
<1>1. \A q \in Requests :
        /\ attempt'[q].op = attempt[q].op /\ attempt'[q].rev = attempt[q].rev
        /\ attempt'[q].status = IF q = r THEN to ELSE attempt[q].status
  BY SetStatusFacts
<1>2. RowStory
  BY DEF StoryInv
<1>4. SourceExists' <=> SourceExists
  BY <1>1 DEF SourceExists, Source
<1>5. OneActive'
  BY <1>1, <1>2 DEF RowStory, OneActive, NoOtherActive
<1>6. ASSUME txn'.status = "ERROR" PROVE \E q \in Requests : attempt'[q].status = "UNCERTAIN"
  BY <1>1, <1>2, <1>6 DEF RowStory
<1>7. ASSUME NEW q \in Requests, attempt'[q].status \in Unresolved
      PROVE  /\ txn.status \in {StartStatus(attempt[q].op), "ERROR", "DRY_RUN"}
             /\ attempt[q].op = "recategorize" /\ txn.status # "DRY_RUN" => ~SourceExists
  <2>1. CASE q # r
    BY <1>1, <1>2, <1>7, <2>1 DEF RowStory
  <2>2. CASE q = r
    BY <1>1, <1>2, <1>7, <2>2 DEF RowStory, SourceExists, StartStatus
  <2> QED
    BY <2>1, <2>2
<1>8. \A q \in Requests : attempt'[q].status \in Unresolved =>
        /\ txn'.status \in {StartStatus(attempt'[q].op), "ERROR", "DRY_RUN"}
        /\ attempt'[q].op = "recategorize" /\ txn'.status # "DRY_RUN" => ~SourceExists'
  BY <1>1, <1>4, <1>7 DEF StartStatus
<1>9. /\ \A q \in Requests : Source(q)' =>
           txn'.status \in {"POSTED", "REVERTED", "ERROR", "DRY_RUN"} /\ attempt'[q].rev = txn'.revision
      /\ \A p, q \in Requests : Source(p)' /\ Source(q)' => p = q
      /\ \A q \in Requests : attempt'[q].op = "restore" => SourceExists'
      /\ txn'.status = "POSTED" => SourceExists'
      /\ \A q \in Requests : Restored(q)' => txn'.status \in {"REVERTED", "DRY_RUN"}
      /\ \A q \in LiveRequests : attempt'[q].op = "recategorize"
  BY <1>1, <1>2, <1>4, LiveAssumption DEF RowStory, Source, Restored
<1> QED
  BY <1>5, <1>6, <1>8, <1>9 DEF RowStory, Source, Restored

LEMMA MoveOrderly ==
  ASSUME IInv, KeepsData, NEW r \in Requests, NEW to \in AttemptStatus, SetStatus(r, to),
         UNCHANGED txn, attempt[r].status # "VERIFIED",
         to = "PREPARED" => r \in LiveRequests
  PROVE  Orderly
BY SetStatusFacts DEF Orderly

LEMMA FindCommitStory == ASSUME IInv, StoryInv, NEW c \in Calls, FindCommit(c) PROVE StoryInv'
<1> USE DEF FindCommit, At, Go, localVars
<1>1. req[c] \in Requests /\ (kind[c] = "live" => req[c] \in LiveRequests) /\ UNCHANGED txn
  BY DEF IInv, CallsOK, OnRequest, Writers, Commits, Lives
<1>2. KeepsData
  BY FindCommitKeeps
<1>3. \/ Leave(c)
      \/ /\ Alone(c) /\ pc'[c] = "load" /\ seen'[c] = seen[c]
         /\ kind'[c] \in {"commit", "live", "resume", "liveResume"}
  BY DEF Leave, Alone, IInv, TypeOK
<1>4. \/ UNCHANGED attempt
      \/ /\ attempt[req[c]].status = "RETRYABLE" /\ kind[c] = "live"
         /\ \E s \in {"FAILED", "PREPARED"} :
              SetStatus(req[c], s) /\ (s = "PREPARED" => NoOtherActive(req[c]))
  OBVIOUS
<1> HIDE DEF FindCommit
<1>5. Orderly /\ RowStory'
  <2>1. CASE UNCHANGED attempt
    BY <1>1, <2>1, OrderlyQuiet, RowStoryKept
  <2>2. CASE ~UNCHANGED attempt
    <3>1. PICK to \in {"FAILED", "PREPARED"} :
            SetStatus(req[c], to) /\ (to = "PREPARED" => NoOtherActive(req[c]))
      BY <1>4, <2>2
    <3>2. /\ to \in AttemptStatus \ {"VERIFIED"} /\ to \notin Unresolved
          /\ attempt[req[c]].status = "RETRYABLE" /\ req[c] \in LiveRequests
      BY <1>1, <1>4, <2>2 DEF AttemptStatus, Unresolved
    <3>3. to \in Active => NoOtherActive(req[c])
      BY <3>1 DEF Active
    <3> QED
      BY <1>1, <1>2, <3>1, <3>2, <3>3, MoveOrderly, RowStoryMove
  <2> QED
    BY <2>1, <2>2
<1>6. CASE ~Leave(c)
  <2>1. CallStory(c)'
    BY <1>3, <1>6 DEF CallStory, StoryInv
  <2> QED
    BY <1>3, <1>5, <1>6, <2>1, StoryFrame
<1> QED
  BY <1>5, <1>6, StoryLeave

LEMMA GiveUpStory == ASSUME IInv, StoryInv, NEW c \in Calls, GiveUp(c) PROVE StoryInv'
<1> USE DEF GiveUp
<1>1. req[c] \in Requests
  BY DEF IInv, CallsOK, KindOK, OnRequest
<1>2. UNCHANGED attempt \/ (attempt[req[c]].status = "PREPARED"
                              /\ \E s \in {"FAILED", "RETRYABLE"} : SetStatus(req[c], s))
  OBVIOUS
<1>3. Orderly /\ RowStory'
  <2>1. CASE UNCHANGED attempt
    BY <2>1, OrderlyQuiet, RowStoryKept
  <2>2. CASE ~UNCHANGED attempt
    BY <1>1, <1>2, <2>2, GiveUpKeeps, MoveOrderly, RowStoryMove DEF AttemptStatus, Unresolved, Active
  <2> QED
    BY <2>1, <2>2
<1> QED
  BY <1>3, StoryLeave

\* The request may leave: the row is where the attempt begins, or given to the dry run.
LEMMA TransitionStory ==
  ASSUME IInv, StoryInv, NEW c \in Calls, Transition(c) \/ TransitionFails(c) PROVE StoryInv'
<1> USE DEF Transition, TransitionFails, Go, localVars
<1>1. /\ req[c] \in Requests /\ kind[c] \in Writers
      /\ kind[c] \in Lives => req[c] \in LiveRequests
  BY DEF IInv, CallsOK, KindOK, OnRequest
<1>2. /\ UNCHANGED txn
      /\ \/ UNCHANGED attempt
         \/ attempt[req[c]].status = "PREPARED" /\ SetStatus(req[c], "FAILED")
         \/ /\ attempt[req[c]].status = "PREPARED" /\ SetStatus(req[c], "COMMITTING")
            /\ kind[c] \in Lives => txn.status = "PENDING"
  BY DEF Lives
<1>3. attempt[req[c]].status = "PREPARED" /\ (kind[c] \in Lives => txn.status = "PENDING") =>
        txn.status \in {StartStatus(attempt[req[c]].op), "DRY_RUN"}
  BY <1>1 DEF StoryInv, CallStory, RowStory, StartStatus
<1>4. Leave(c) \/ (Alone(c) /\ pc'[c] \in {"giveUp", "send"} /\ UNCHANGED <<kind, seen>>)
  BY DEF Alone, IInv, TypeOK
<1> HIDE DEF Transition, TransitionFails
<1>5. Orderly /\ RowStory'
  <2>1. CASE UNCHANGED attempt
    BY <1>2, <2>1, OrderlyQuiet, RowStoryKept
  <2>2. CASE ~UNCHANGED attempt
    BY <1>1, <1>2, <1>3, <2>2, TransitionKeeps, MoveOrderly, RowStoryMove
    DEF AttemptStatus, Unresolved, Active
  <2> QED
    BY <2>1, <2>2
<1>6. CASE ~Leave(c)
  <2>1. CallStory(c)'
    BY <1>4, <1>6 DEF CallStory, StoryInv
  <2> QED
    BY <1>4, <1>5, <1>6, <2>1, StoryFrame
<1> QED
  BY <1>5, <1>6, StoryLeave

LEMMA RecordDryRunStory ==
  ASSUME IInv, StoryInv, NEW c \in Calls, RecordDryRun(c) PROVE StoryInv'
<1> USE DEF RecordDryRun, dbVars
<1>1. KeepsData
  BY RecordDryRunKeeps
<1>2. CASE UNCHANGED dbVars
  BY <1>2, OrderlyQuiet, RowStoryKept, StoryLeave
<1>3. CASE ~UNCHANGED dbVars
  <2> DEFINE row == [NoAttempt EXCEPT !.status = "DRY_RUN", !.rev = rev[c],
                                      !.token = seen[c].token]
  <2>1. row.status = "DRY_RUN" /\ row.op = "recategorize"
    BY DEF NoAttempt
  <2>2. /\ attempt' = [attempt EXCEPT ![req[c]] = row] /\ attempt[req[c]].status = "NONE"
        /\ txn' = [txn EXCEPT !.status = "DRY_RUN"]
    BY <1>3
  <2> HIDE DEF row, RecordDryRun
  <2>3. txn'.status = "DRY_RUN" /\ txn'.revision = txn.revision
    BY <2>2 DEF IInv, TypeOK
  <2>4. \A r \in Requests :
          IF r = req[c]
          THEN /\ attempt[r].status = "NONE"
               /\ attempt'[r].status = "DRY_RUN" /\ attempt'[r].op = "recategorize"
          ELSE attempt'[r] = attempt[r]
    BY <2>1, <2>2 DEF IInv, TypeOK
  <2>5. Orderly
    BY <1>1, <2>3, <2>4 DEF Orderly
  <2>6. RowStory
    BY DEF StoryInv
  <2>7. SourceExists => SourceExists'
    BY <2>4 DEF SourceExists, Source
  <2>8. RowStory'
    BY <2>3, <2>4, <2>6, <2>7, LiveAssumption
    DEF RowStory, OneActive, Active, Unresolved, Source, Restored
  <2> QED
    BY <2>5, <2>8, StoryLeave DEF RecordDryRun
<1> QED
  BY <1>2, <1>3

LEMMA PersistStory == ASSUME IInv, VersionInv, StoryInv, NEW c \in Calls, Persist(c) PROVE StoryInv'
<1> USE DEF Persist, Go, localVars
<1>1. KeepsData
  BY PersistKeeps
<1>2. CASE ~(attempt[req[c]].status = "NONE" /\ NoneActive)
  BY <1>2, OrderlyQuiet, RowStoryKept, StoryLeave
<1>3. CASE attempt[req[c]].status = "NONE" /\ NoneActive
  <2> DEFINE undo == kind[c] = "undo"
             row == [status |-> "PREPARED",
                     op |-> IF undo THEN "restore" ELSE "recategorize",
                     rev |-> rev[c], token |-> seen[c].token,
                     before |-> IF undo THEN rev[c] ELSE Held,
                     target |-> IF undo THEN Held ELSE rev[c]]
  <2>1. row.status = "PREPARED" /\ row.op = IF undo THEN "restore" ELSE "recategorize"
    OBVIOUS
  <2>2. /\ attempt' = [attempt EXCEPT ![req[c]] = row] /\ attempt[req[c]].status = "NONE"
        /\ NoneActive /\ UNCHANGED txn
        /\ pc' = [pc EXCEPT ![c] = "renew"] /\ UNCHANGED localVars
    BY <1>3
  <2>3. kind[c] = "undo" => SourceExists /\ req[c] \notin LiveRequests
    <3>1. pc[c] = "persist" /\ CallStory(c)
      BY DEF StoryInv
    <3> QED
      BY <3>1 DEF CallStory, IInv, CallsOK, OnRequest, Writers, Undos, Lives
  <2> HIDE DEF row, Persist
  <2>4. \A r \in Requests :
          IF r = req[c]
          THEN /\ attempt[r].status = "NONE" /\ attempt'[r].status = "PREPARED"
               /\ attempt'[r].op = IF undo THEN "restore" ELSE "recategorize"
          ELSE attempt'[r] = attempt[r]
    BY <2>1, <2>2 DEF IInv, TypeOK
  <2>5. Orderly
    BY <1>1, <2>2, <2>4 DEF Orderly
  <2>6. RowStory
    BY DEF StoryInv
  <2>7. SourceExists <=> SourceExists'
    BY <2>4 DEF SourceExists, Source
  <2>8. RowStory'
    <3>1. OneActive'
      BY <2>2, <2>4 DEF OneActive, NoneActive
    <3> QED
      BY <2>2, <2>3, <2>4, <2>6, <2>7, <3>1, LiveAssumption
      DEF RowStory, NoneActive, Active, Unresolved, Source, Restored
  <2>9. Alone(c) /\ pc'[c] = "renew" /\ kind'[c] = kind[c] /\ seen'[c] = seen[c]
    BY <2>2 DEF Alone, IInv, TypeOK
  <2>10. CallStory(c)'
    BY <2>9 DEF CallStory, StoryInv
  <2> QED
    BY <2>5, <2>8, <2>9, <2>10, StoryFrame
<1> QED
  BY <1>2, <1>3

\* An outcome is stored with the row: the attempt was the only active one, and its
\* row where it began or in error.
LEMMA SettleStory == ASSUME IInv, StoryInv, NEW c \in Calls, Settles(c) PROVE StoryInv'
<1>0. KeepsData /\ req[c] \in Requests
  BY SettleKeeps DEF Settles, FinalizeVerified, FinalizeUnchanged, MarkUncertain, MarkMismatch,
                     IInv, CallsOK, KindOK, OnRequest
<1>1. CASE UNCHANGED dbVars /\ (Leave(c) \/ (Refused(c) /\ ~Leave(c)))
  <2>1. Orderly /\ RowStory' /\ UNCHANGED <<txn, attempt>>
    BY <1>1, OrderlyQuiet, RowStoryKept DEF dbVars
  <2>2. CASE Leave(c)
    BY <2>1, <2>2, StoryLeave
  <2>3. CASE Refused(c) /\ ~Leave(c)
    <3>1. Alone(c) /\ pc'[c] = "uncertain" /\ UNCHANGED <<kind, seen>>
      BY <2>3 DEF Refused, Go, Alone, IInv, TypeOK, localVars
    <3>2. CallStory(c)'
      BY <3>1 DEF CallStory, StoryInv
    <3> QED
      BY <2>1, <3>1, <3>2, StoryFrame
  <2> QED
    BY <1>1, <2>2, <2>3
<1>2. CASE Stored(c) /\ ~UNCHANGED dbVars
  <2> DEFINE r == req[c]
  <2>1. /\ attempt[r].status \in Unresolved /\ txn.revision = attempt[r].rev
        /\ txn.status # "DRY_RUN" /\ attempt[r].op \in {"recategorize", "restore"}
    BY <1>0, <1>2 DEF Stored, Bound, StoryInv, CallStory, IInv, TypeOK
  <2>2. RowStory
    BY DEF StoryInv
  <2>3. /\ txn.status \in {StartStatus(attempt[r].op), "ERROR"}
        /\ attempt[r].op = "recategorize" => ~SourceExists
        /\ attempt[r].op = "restore" => SourceExists
        /\ \A q \in Requests \ {r} : attempt[q].status \notin Active
        /\ \A q \in Requests : ~Restored(q)
    BY <1>0, <2>1, <2>2 DEF RowStory, OneActive, Active, Unresolved, StartStatus
  <2>4. PICK to \in {"VERIFIED", "UNCHANGED", "UNCERTAIN"} :
          /\ SetStatus(r, to)
          /\ txn'.revision = txn.revision
          /\ txn'.status = IF to = "VERIFIED" THEN EndStatus(attempt[r].op)
                           ELSE IF to = "UNCHANGED" THEN StartStatus(attempt[r].op) ELSE "ERROR"
    <3> USE DEF FinalizeVerified, FinalizeUnchanged, MarkUncertain, MarkMismatch, Settle
    <3>1. CASE FinalizeVerified(c) /\ SetStatus(r, "VERIFIED")
      BY <1>2, <3>1 DEF Stored, IInv, TypeOK
    <3>2. CASE FinalizeUnchanged(c) /\ SetStatus(r, "UNCHANGED")
      BY <1>2, <3>2 DEF Stored, IInv, TypeOK
    <3>3. CASE (MarkUncertain(c) \/ MarkMismatch(c)) /\ SetStatus(r, "UNCERTAIN")
      <4>1. txn' = [txn EXCEPT !.status = "ERROR"] \/ UNCHANGED dbVars
        BY <3>3
      <4>2. CASE txn' = [txn EXCEPT !.status = "ERROR"]
        BY <3>3, <4>2 DEF IInv, TypeOK
      <4>3. CASE MarkMismatch(c)
        BY <1>2, <3>3, <4>3 DEF Stored, IInv, TypeOK
      <4> QED
        BY <1>2, <3>3, <4>1, <4>2, <4>3
    <3> QED
      BY <1>2, <3>1, <3>2, <3>3 DEF Stored
  <2>5. \A q \in Requests :
          /\ attempt'[q].op = attempt[q].op /\ attempt'[q].rev = attempt[q].rev
          /\ attempt'[q].status = IF q = r THEN to ELSE attempt[q].status
    BY <1>0, <2>4, SetStatusFacts DEF AttemptStatus
  <2> HIDE DEF r
  <2>6. Orderly
    BY <1>0, <2>1, <2>3, <2>5 DEF Orderly, Active, Unresolved, r
  <2>7. RowStory'
    <3> USE DEF EndStatus, StartStatus, Source, Restored, r
    <3>1. /\ OneActive'
          /\ txn'.status = "ERROR" => \E q \in Requests : attempt'[q].status = "UNCERTAIN"
      BY <1>0, <2>1, <2>3, <2>4, <2>5 DEF OneActive, Active, Unresolved
    <3>2. SourceExists' <=> SourceExists \/ (to = "VERIFIED" /\ attempt[r].op = "recategorize")
      BY <1>0, <2>1, <2>5 DEF SourceExists, Unresolved
    <3>3. \A q \in Requests : attempt'[q].status \in Unresolved =>
            /\ txn'.status \in {StartStatus(attempt'[q].op), "ERROR", "DRY_RUN"}
            /\ attempt'[q].op = "recategorize" /\ txn'.status # "DRY_RUN" => ~SourceExists'
      BY <1>0, <2>3, <2>4, <2>5, <3>2 DEF Active, Unresolved
    <3>4. \A q \in Requests : Source(q)' =>
            /\ txn'.status \in {"POSTED", "REVERTED", "ERROR", "DRY_RUN"}
            /\ attempt'[q].rev = txn'.revision
      BY <1>0, <2>1, <2>2, <2>3, <2>4, <2>5 DEF RowStory, SourceExists
    <3>5. \A p, q \in Requests : Source(p)' /\ Source(q)' => p = q
      BY <1>0, <2>1, <2>2, <2>3, <2>4, <2>5 DEF RowStory, SourceExists
    <3>6. /\ \A q \in Requests : attempt'[q].op = "restore" => SourceExists'
          /\ txn'.status = "POSTED" => SourceExists'
      BY <1>0, <2>1, <2>2, <2>3, <2>4, <2>5, <3>2 DEF RowStory
    <3>7. \A q \in Requests : Restored(q)' => txn'.status \in {"REVERTED", "DRY_RUN"}
      BY <1>0, <2>1, <2>3, <2>4, <2>5
    <3>8. \A q \in LiveRequests : attempt'[q].op = "recategorize"
      BY <2>2, <2>5, LiveAssumption DEF RowStory
    <3> QED
      BY <3>1, <3>3, <3>4, <3>5, <3>6, <3>7, <3>8 DEF RowStory
  <2> QED
    BY <1>2, <2>6, <2>7, StoryLeave DEF Stored
<1> QED
  BY <1>1, <1>2, SettleCases DEF Stored

\* Staging moves the revision of a pending row without a source; the mirror moves
\* neither status nor revision; a row in error is not superseded.
LEMMA RowStepsStory ==
  ASSUME IInv, VersionInv, StoryInv, NEW c \in Calls,
         StageCommit(c) \/ Mirror(c) \/ Supersede(c)
  PROVE  StoryInv'
<1> USE DEF At
<1>1. UNCHANGED attempt /\ Leave(c)
  BY DEF StageCommit, Mirror, Supersede
<1>2. KeepsData /\ RowStory
  BY <1>1, AttemptsKept DEF StoryInv
<1>3. SourceExists' <=> SourceExists
  BY <1>1 DEF SourceExists, Source
<1>4. CASE StageCommit(c)
  <2>1. txn.status = "PENDING" /\ txn'.status = "PENDING"
    BY <1>4 DEF StageCommit, VersionInv, CallReads, IInv, TypeOK
  <2>2. \A r \in Requests : attempt[r].status \notin Unresolved
    BY <1>4 DEF StageCommit, IInv, NotRestaged, RowFree
  <2>3. RowStory'
    BY <1>1, <1>2, <1>3, <2>1, <2>2 DEF RowStory, OneActive, Source, Restored
  <2>4. Orderly
    BY <1>1, <1>2, <2>1 DEF Orderly
  <2> QED
    BY <1>1, <2>3, <2>4, StoryLeave
<1>5. CASE Mirror(c)
  <2>1. txn'.status = txn.status /\ txn'.revision = txn.revision
    BY <1>5 DEF Mirror, IInv, TypeOK
  <2>2. RowStory'
    BY <1>1, <1>2, <1>3, <2>1 DEF RowStory, OneActive, Source, Restored
  <2>3. Orderly
    BY <1>1, <1>2, <2>1 DEF Orderly
  <2> QED
    BY <1>1, <2>2, <2>3, StoryLeave
<1>6. CASE Supersede(c)
  <2>1. CASE UNCHANGED txn
    BY <1>1, <2>1, OrderlyQuiet, RowStoryKept, StoryLeave
  <2>2. CASE ~UNCHANGED txn
    <3>1. /\ txn.status \in {"PENDING", "ERROR"} /\ NoneActive
          /\ txn'.status = "SUPERSEDED" /\ txn'.revision = txn.revision
      BY <1>6, <2>2 DEF Supersede, IInv, TypeOK
    <3>2. txn.status = "PENDING"
      BY <1>2, <3>1 DEF RowStory, NoneActive, Active
    <3>3. RowStory'
      BY <1>1, <1>2, <1>3, <3>1, <3>2
      DEF RowStory, OneActive, NoneActive, Active, Unresolved, Source, Restored
    <3>4. Orderly
      BY <1>1, <1>2, <3>1 DEF Orderly, NoneActive, Active
    <3> QED
      BY <1>1, <3>3, <3>4, StoryLeave
  <2> QED
    BY <2>1, <2>2
<1> QED
  BY <1>4, <1>5, <1>6

LEMMA SurroundingsStory ==
  ASSUME StoryInv,
         \/ \E r \in Requests : Land(r) \/ Lose(r)
         \/ EditInQuickBooks \/ LeaseExpires \/ ToggleDryRun
         \/ UNCHANGED vars
  PROVE  StoryInv'
<1>1. UNCHANGED <<txn, attempt, pc, kind, req, seen>>
  BY DEF Land, Lose, EditInQuickBooks, LeaseExpires, ToggleDryRun, dbVars, localVars, vars
<1>2. RowStory'
  BY <1>1, RowStoryKept
<1>3. \A c \in Calls : CallStory(c)'
  BY <1>1 DEF StoryInv, CallStory, SourceExists, Source, StartStatus
<1> QED
  BY <1>2, <1>3 DEF StoryInv

LEMMA NextStory ==
  ASSUME "retry" \notin Kinds
  PROVE  IInv /\ VersionInv /\ StoryInv /\ [Next]_vars => StoryInv'
<1> SUFFICES ASSUME IInv, VersionInv, StoryInv, [Next]_vars PROVE StoryInv'
  OBVIOUS
<1>1. ASSUME NEW c \in Calls, Start(c) \/ StartStage(c) \/ ListHolding(c) \/ RetryRead(c)
      PROVE  StoryInv'
  BY <1>1, EntryStory DEF RetryRead
<1>2. ASSUME NEW c \in Calls, Step(c) PROVE StoryInv'
  <2>1. ~RetryBarrier(c) /\ ~RetryFetch(c) /\ ~RetryWrite(c)
    BY DEF RetryBarrier, RetryFetch, RetryWrite, StoryInv, CallStory
  <2> QED
    BY <1>2, <2>1, EntryStory, LeaseStory, FindCommitStory, PreparingStory, RecordDryRunStory,
       PersistStory, ChecksStory, GiveUpStory, TransitionStory, SendingStory, SettleStory,
       ReconcileStory, FencedStory, RowStepsStory DEF Step, Settles
<1>3. CASE \E c \in Calls : Crash(c)
  BY <1>3, LeaseStory
<1> QED
  BY <1>1, <1>2, <1>3, SurroundingsStory DEF Next

\* As long as nobody presses retry: a posted row has exactly one verified
\* categorization, the one that is staged, and no restore of it is verified, so an
\* undo finds what it takes back.
THEOREM PostedRowsHaveOneSource ==
  ASSUME "retry" \notin Kinds
  PROVE  Spec => []PostedHasOneSource
<1>1. ASSUME RowStory PROVE PostedHasOneSource
  <2> SUFFICES ASSUME txn.status = "POSTED"
               PROVE  /\ Cardinality({r \in Requests : Source(r)}) = 1
                      /\ \A r \in Requests : Source(r) => attempt[r].rev = txn.revision
                      /\ \A r \in Requests : ~Restored(r)
    BY DEF PostedHasOneSource, Restored
  <2>1. PICK s \in Requests : Source(s)
    BY <1>1 DEF RowStory, SourceExists
  <2>2. {r \in Requests : Source(r)} = {s}
    BY <1>1, <2>1 DEF RowStory
  <2>3. Cardinality({s}) = 1
    BY FS_Singleton
  <2> QED
    BY <1>1, <2>2, <2>3 DEF RowStory
<1> QED
  BY <1>1, InitIInv, NextIInv, InitVersionInv, NextVersion, InitStoryInv, NextStory, PTL
  DEF Spec, StoryInv
=============================================================================
