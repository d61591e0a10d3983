---------------------------- MODULE TransfersProofs ----------------------------
(* Proofs about Transfers for any number of calls, operations and stagings.   *)
(*                                                                            *)
(* The argument, in two layers.  IInv needs no lease and no clock: the        *)
(* attempts of a leg that are not given up are one at most (OneLive), every   *)
(* step moves an attempt forward only (Evolves), a call that goes on to leg 2 *)
(* has seen leg 1 finished, which is for good (Ordered), and of the calls     *)
(* that are about to send a request one has claimed it (OneClaimer).          *)
(* WireInv says what has left the server.  It rests on the heartbeats: a call *)
(* that waits for QuickBooks and has not noticed the loss of the leases still *)
(* has them, or nobody's have run out since (Heeds).  It is proved of calls   *)
(* that do not miss their heartbeats for two leases on end (~LongStalls).     *)
EXTENDS Transfers, TLAPS

Preparing == {"check", "prepare", "insert"}
Committing == Steps \ ({"idle", "acquire", "release"} \cup Preparing)
\* c has claimed its leg and sent nothing.
PreSend == {"refresh", "recheck", "reprove", "strict", "undry", "unclaim", "send"}
Live == Active \cup Finished
Mine(c) == <<job[c].o, job[c].i>>

\* The operations and the attempts they made or inherit.
OpsInv ==
  \A o \in Ops :
    /\ ~op[o].made => /\ op[o].parent = None
                      /\ \A i \in Legs : attempt[<<o, i>>].status = "NONE"
    /\ op[o].made => \A i \in Legs :
         attempt[<<o, i>>].status = "NONE" =>
           op[o].parent # None /\ attempt[<<op[o].parent, i>>].status = "VERIFIED"
    /\ op[o].parent # None => op[op[o].parent].made /\ op[op[o].parent].parent = None

OneLive ==
  \A i \in Legs, o, q \in Ops :
    attempt[<<o, i>>].status \in Live /\ attempt[<<q, i>>].status \in Live => o = q

SentOnce == \A r \in Requests : attempt[r].status \in {"NONE", "PREPARED"} => sends[r] = 0

FirstSettled == \A o \in Ops : Status(o, 2) \in Unresolved => Status(o, 1) \in Finished

\* What a call is about.
Named(c) ==
  pc[c] \notin {"idle", "release"} =>
    /\ job[c].o \in Ops
    /\ job[c].kind = "retry" => /\ job[c].parent \in Ops \ {job[c].o}
                                /\ op[job[c].parent].made /\ op[job[c].parent].parent = None
    /\ job[c].kind # "retry" => job[c].parent = None
    /\ pc[c] \in Preparing => job[c].kind # "commit"
    /\ pc[c] \in Committing \/ job[c].kind = "commit" => op[job[c].o].made

FirstLeg(c) ==
  pc[c] \in Preparing \cup {"acquire", "begin", "expire", "dryBoth"} => job[c].i = 1

Ordered(c) == pc[c] \in Committing /\ job[c].i = 2 => Status(job[c].o, 1) \in Finished

Claims(c) ==
  pc[c] \in PreSend => attempt[Mine(c)].status \notin {"NONE", "PREPARED"} /\ sends[Mine(c)] = 0

Saw(c) ==
  /\ pc[c] \in {"prepare", "insert"} /\ job[c].kind = "retry" =>
       \A i \in Legs : job[c].seen[i].status \in RetryableParent \cup {"VERIFIED"}
  /\ pc[c] \in {"prepare", "insert"} /\ job[c].kind # "retry" =>
       \A i \in Legs : job[c].seen[i].status = "NONE"
  /\ pc[c] = "insert" /\ job[c].kind = "retry" =>
       \A i \in Legs : job[c].seen[i].status # "VERIFIED" => job[c].seen[i].row = "PENDING"

CallInv(c) == Named(c) /\ FirstLeg(c) /\ Ordered(c) /\ Claims(c) /\ Saw(c)

OneClaimer ==
  \A c, d \in Calls : pc[c] \in PreSend /\ pc[d] \in PreSend /\ Mine(c) = Mine(d) => c = d

IInv ==
  /\ TypeOK /\ OpsInv /\ OneLive /\ SentOnce /\ FirstSettled /\ OneClaimer
  /\ \A c \in Calls : CallInv(c)
  /\ SecondAfterFirst /\ RowTellsOutcome /\ NothingLeftBehind

\* A call that waits for QuickBooks has the leases, or knows that it lost them,
\* or somebody else's are still running, or were released.
Heeds(c) ==
  pc[c] \in Sending \cup Recovering =>
    c \in lost \/ lease.holder \in {c, None} \/ lease.live

\* Nothing of request r is on its way or about to be.
Still(r) == r \notin wire /\ \A c \in Calls : pc[c] = "send" => Mine(c) # r

\* A reconciliation that found its attempt quiet, while it has the leases.
Recovers(c) ==
  /\ pc[c] \in {"rread", "runchanged"} /\ job[c].quiet /\ c \notin lost /\ lease.holder = c =>
       Still(MyRequest(c)) /\ (pc[c] = "runchanged" => MyRequest(c) \notin landed)
  /\ pc[c] = "runchanged" => job[c].quiet

Reached == {"COMMITTING", "UNCERTAIN", "VERIFIED"}

QuietIsStill == \A r \in quiet : Still(r)
SenderReaches == \A c \in Calls : pc[c] = "send" => attempt[Mine(c)].status \in Reached
SentReaches == \A r \in wire \cup landed : sends[r] # 0 /\ attempt[r].status \in Reached
LandedGrew == \A r \in landed : qbo[r[2]].token > attempt[r].token
MovedLanded == \A i \in Legs : qbo[i].content = "moved" => \E o \in Ops : <<o, i>> \in landed
SeenLanded ==
  \A c \in Calls : pc[c] \in {"verify", "rverify"} => \E o \in Ops : <<o, job[c].i>> \in landed

WireInv ==
  /\ \A c \in Calls : Heeds(c) /\ Recovers(c)
  /\ QuietIsStill /\ SenderReaches /\ SentReaches /\ LandedGrew /\ MovedLanded /\ SeenLanded
  /\ VerifiedWasApplied
----------------------------------------------------------------------------
(* Types.                                                                    *)

Rows == [status : RowStatus, rev : 1 .. MaxRevision, token : Nat]
Attempts == [status : AttemptStatus, rev : 0 .. MaxRevision, token : Nat, new : Nat,
             response : BOOLEAN]
Sights == [Legs -> [status : AttemptStatus, row : RowStatus, rev : 0 .. MaxRevision, token : Nat]]
Jobs == [kind : AllKinds, o : Ops \cup {None}, parent : Ops \cup {None}, i : Legs,
         quiet : BOOLEAN, response : BOOLEAN, status : AttemptStatus, token : Nat, seen : Sights]

\* What a call's own variables are, and what the tables are.
CallTypes == pc \in [Calls -> Steps] /\ job \in [Calls -> Jobs] /\ lost \subseteq Calls
OpTypes == op \in [Ops -> [made : BOOLEAN, parent : Ops \cup {None}, expired : BOOLEAN]]
TableTypes == row \in [Legs -> Rows] /\ attempt \in [Requests -> Attempts] /\ quiet \subseteq Requests
NetTypes ==
  /\ qbo \in [Legs -> [content : {"held", "moved", "elsewhere"}, token : Nat]]
  /\ wire \subseteq Requests /\ landed \subseteq Requests
  /\ sends \in [Requests -> 0 .. 1]
LeaseTypes == lease \in [holder : Calls \cup {None}, live : BOOLEAN] /\ dryRun \in BOOLEAN

LEMMA Parts == TypeOK <=> CallTypes /\ OpTypes /\ TableTypes /\ NetTypes /\ LeaseTypes
BY DEF TypeOK, CallTypes, OpTypes, TableTypes, NetTypes, LeaseTypes, Rows, Attempts, Jobs, Sights

LEMMA PartsAfter ==
  ASSUME CallTypes', OpTypes', TableTypes', NetTypes', LeaseTypes' PROVE TypeOK'
BY DEF TypeOK, CallTypes, OpTypes, TableTypes, NetTypes, LeaseTypes, Rows, Attempts, Jobs, Sights

LEMMA Blanks == NoAttempt \in Attempts /\ NoJob \in Jobs /\ NoSight \in Sights
<1>1. NoAttempt \in Attempts
  BY BoundsAssumption DEF NoAttempt, Attempts, AttemptStatus
<1>2. NoSight \in Sights
  BY BoundsAssumption DEF NoSight, Sights, AttemptStatus, RowStatus
<1> QED
  BY <1>1, <1>2 DEF NoJob, Jobs, AllKinds, Legs, AttemptStatus

LEMMA InitTypes == Init => TypeOK
<1> SUFFICES ASSUME Init PROVE TypeOK
  OBVIOUS
<1>1. OpTypes /\ LeaseTypes
  BY DEF Init, OpTypes, NoOp, LeaseTypes
<1>2. TableTypes
  BY Blanks, BoundsAssumption DEF Init, TableTypes, Rows, RowStatus
<1>3. NetTypes
  BY DEF Init, NetTypes
<1>4. CallTypes
  BY Blanks DEF Init, CallTypes, Steps
<1> QED
  BY <1>1, <1>2, <1>3, <1>4, Parts

LEMMA RequestTypes ==
  ASSUME TypeOK, NEW o \in Ops, NEW i \in Legs
  PROVE  Request(o, i) \in Requests /\ Request(o, i)[2] = i
BY NoneAssumption DEF TypeOK, Request, Requests

\* The ways a step leaves the call's own variables.
LEMMA LeaveTypes == ASSUME CallTypes, NEW c \in Calls, Leave(c) PROVE CallTypes'
BY Blanks DEF CallTypes, Leave, Go, Steps

LEMMA ContinueTypes ==
  ASSUME CallTypes, NEW c \in Calls, NEW p \in Steps, Continue(c, p) PROVE CallTypes'
BY DEF CallTypes, Continue, Go

LEMMA GoTypes ==
  ASSUME CallTypes, NEW c \in Calls, NEW p \in Steps, NEW j \in Jobs,
         Go(c, p), job' = [job EXCEPT ![c] = j], lost' \subseteq lost
  PROVE  CallTypes'
BY DEF CallTypes, Go

\* The request a call is about.
LEMMA MyRequestTypes ==
  ASSUME TypeOK, NEW c \in Calls, Named(c), pc[c] \notin {"idle", "release"}
  PROVE  /\ job[c].o \in Ops /\ job[c].i \in Legs /\ job[c] \in Jobs
         /\ MyRequest(c) \in Requests /\ MyRequest(c)[2] = job[c].i
         /\ attempt[MyRequest(c)] \in Attempts /\ qbo[job[c].i].token \in Nat
<1>1. job[c].o \in Ops /\ job[c] \in Jobs /\ job[c].i \in Legs
  BY Parts DEF Named, CallTypes, Jobs
<1>2. MyRequest(c) \in Requests /\ MyRequest(c)[2] = job[c].i
  BY <1>1, RequestTypes DEF MyRequest
<1> QED
  BY <1>1, <1>2, Parts DEF TableTypes, NetTypes

LEMMA MovedTypes ==
  ASSUME TypeOK, NEW rs, NEW from, NEW to \in AttemptStatus
  PROVE  Moved(rs, from, to) \in [Requests -> Attempts]
BY Parts DEF TableTypes, Moved, Attempts

\* A guard touches no more than it names.
LEMMA GuardTypes ==
  ASSUME TypeOK, NEW c \in Calls, NEW status, Guard(c, status)
  PROVE  lease' \in [holder : Calls \cup {None}, live : BOOLEAN] /\ quiet' \subseteq quiet
BY Parts DEF Guard, LeaseTypes, TableTypes

LEMMA RenewalTypes ==
  ASSUME TypeOK, NEW c \in Calls, Renewal(c)
  PROVE  lease' \in [holder : Calls \cup {None}, live : BOOLEAN]
BY Parts DEF Renewal, LeaseTypes

\* The steps that change nothing but the caller's own variables, or the lease too.
LEMMA DbStays == ASSUME OpTypes, TableTypes, UNCHANGED dbVars PROVE OpTypes' /\ TableTypes'
BY DEF OpTypes, TableTypes, dbVars

LEMMA QboStays == ASSUME NetTypes, UNCHANGED qboVars PROVE NetTypes'
BY DEF NetTypes, qboVars

LEMMA LeaseStays == ASSUME LeaseTypes, UNCHANGED <<lease, dryRun>> PROVE LeaseTypes'
BY DEF LeaseTypes

LEMMA OnlyCalls ==
  ASSUME TypeOK, CallTypes', UNCHANGED dbVars, UNCHANGED qboVars, LeaseTypes'
  PROVE  TypeOK'
BY Parts, DbStays, QboStays, PartsAfter

\* Entering, leaving, preparing.
LEMMA EntryTypes ==
  ASSUME TypeOK, NEW c \in Calls, Named(c),
         Start(c) \/ Acquire(c) \/ ReleaseLease(c) \/ Crash(c) \/ Check(c) \/ ReadLegs(c)
  PROVE  TypeOK'
<1>0. CallTypes /\ OpTypes /\ TableTypes /\ NetTypes /\ LeaseTypes
  BY Parts
<1>1. CASE Start(c)
  <2>1. PICK k \in Kinds, o \in Ops, p \in Ops \cup {None} :
          job' = [job EXCEPT ![c] = [NoJob EXCEPT !.kind = k, !.o = o, !.parent = p]]
    BY <1>1 DEF Start
  <2>2. [NoJob EXCEPT !.kind = k, !.o = o, !.parent = p] \in Jobs
    BY <2>1, Blanks, KindsAssumption DEF Jobs
  <2>3. CallTypes'
    BY <1>0, <1>1, <2>1, <2>2 DEF CallTypes, Start, Go, Steps
  <2> QED
    BY <1>0, <1>1, <2>3, OnlyCalls, LeaseStays DEF Start
<1>2. CASE Acquire(c)
  <2>1. CallTypes'
    <3>1. CASE Continue(c, IF job[c].kind = "commit" THEN "begin" ELSE "check")
      BY <1>0, <3>1, ContinueTypes DEF Steps
    <3> QED
      BY <1>0, <1>2, <3>1, LeaveTypes DEF Acquire
  <2>2. LeaseTypes'
    <3>1. /\ lease' = [holder |-> c, live |-> TRUE] \/ UNCHANGED lease
          /\ UNCHANGED dryRun
      BY <1>2 DEF Acquire
    <3>2. lease' \in [holder : Calls \cup {None}, live : BOOLEAN]
      <4>1. CASE lease' = [holder |-> c, live |-> TRUE]
        BY <4>1
      <4>2. CASE UNCHANGED lease
        BY <1>0, <4>2 DEF LeaseTypes
      <4> QED
        BY <3>1, <4>1, <4>2
    <3> QED
      BY <1>0, <3>1, <3>2 DEF LeaseTypes
  <2> QED
    BY <1>2, <2>1, <2>2, OnlyCalls DEF Acquire
<1>3. CASE ReleaseLease(c)
  <2>1. CallTypes'
    BY <1>0, <1>3, ContinueTypes DEF ReleaseLease, Steps
  <2>2. LeaseTypes'
    BY <1>0, <1>3 DEF ReleaseLease, LeaseTypes
  <2> QED
    BY <1>3, <2>1, <2>2, OnlyCalls DEF ReleaseLease
<1>4. CASE Crash(c)
  <2>1. CallTypes'
    BY <1>0, <1>4, Blanks DEF CallTypes, Crash, Go, Steps
  <2> QED
    BY <1>0, <1>4, <2>1, OnlyCalls, LeaseStays DEF Crash
<1>5. CASE Check(c)
  <2>1. CallTypes'
    <3>1. CASE Leave(c)
      BY <1>0, <3>1, LeaveTypes
    <3>2. CASE ~Leave(c)
      <4> DEFINE s == IF job[c].kind = "retry" THEN Sight(job[c].parent)
                      ELSE [i \in Legs |-> [status |-> "NONE", row |-> row[i].status,
                                            rev |-> row[i].rev, token |-> row[i].token]]
      <4>1. Go(c, "prepare") /\ job' = [job EXCEPT ![c].seen = s] /\ UNCHANGED lost
        BY <1>5, <3>2 DEF Check
      <4>2. \A i \in Legs : /\ row[i].status \in RowStatus /\ row[i].rev \in 0 .. MaxRevision
                            /\ row[i].token \in Nat
        BY <1>0, BoundsAssumption DEF TableTypes, Rows
      <4>3. CASE job[c].kind = "retry"
        <5>1. job[c].parent \in Ops
          BY <1>5, <4>3 DEF Check, Named
        <5>2. \A i \in Legs : Status(job[c].parent, i) \in AttemptStatus
          BY <1>0, <5>1, RequestTypes DEF Status, TableTypes, Attempts
        <5>3. Sight(job[c].parent) \in Sights
          BY <4>2, <5>2 DEF Sight, Sights
        <5>4. s \in Sights
          BY <4>3, <5>3
        <5> HIDE DEF s
        <5>5. pc' \in [Calls -> Steps] /\ lost' \subseteq Calls
          BY <1>0, <4>1 DEF CallTypes, Go, Steps
        <5>6. job' \in [Calls -> Jobs]
          BY <1>0, <4>1, <5>4 DEF CallTypes, Jobs
        <5> QED
          BY <5>5, <5>6 DEF CallTypes
      <4>4. CASE job[c].kind # "retry"
        <5>1. s \in Sights
          BY <4>2, <4>4 DEF Sights, AttemptStatus
        <5> HIDE DEF s
        <5>2. pc' \in [Calls -> Steps] /\ lost' \subseteq Calls
          BY <1>0, <4>1 DEF CallTypes, Go, Steps
        <5>3. job' \in [Calls -> Jobs]
          BY <1>0, <4>1, <5>1 DEF CallTypes, Jobs
        <5> QED
          BY <5>2, <5>3 DEF CallTypes
      <4> QED
        BY <4>3, <4>4
    <3> QED
      BY <3>1, <3>2
  <2> QED
    BY <1>0, <1>5, <2>1, OnlyCalls, LeaseStays DEF Check
<1>6. CASE ReadLegs(c)
  <2>1. CallTypes'
    <3>1. CASE Leave(c)
      BY <1>0, <3>1, LeaveTypes
    <3>2. CASE Continue(c, "insert")
      BY <1>0, <3>2, ContinueTypes DEF Steps
    <3> QED
      BY <1>6, <3>1, <3>2 DEF ReadLegs
  <2> QED
    BY <1>0, <1>6, <2>1, OnlyCalls, LeaseStays DEF ReadLegs
<1> QED
  BY <1>1, <1>2, <1>3, <1>4, <1>5, <1>6

LEMMA InsertTypes == ASSUME TypeOK, NEW c \in Calls, Named(c), Insert(c) PROVE TypeOK'
<1>0. CallTypes /\ OpTypes /\ TableTypes /\ NetTypes /\ LeaseTypes
  BY Parts
<1>1. CallTypes'
  BY <1>0, LeaveTypes DEF Insert
<1>2. UNCHANGED <<row, quiet, qboVars, lease, dryRun>>
  BY DEF Insert
<1>3. CASE UNCHANGED <<op, attempt>>
  BY <1>1, <1>2, <1>3, OnlyCalls, LeaseStays, <1>0 DEF dbVars
<1>4. CASE ~UNCHANGED <<op, attempt>>
  <2> DEFINE j == job[c]
             new == {i \in Legs : j.seen[i].status # "VERIFIED"}
             made(r) == [NoAttempt EXCEPT !.status = "PREPARED", !.rev = j.seen[r[2]].rev,
                                          !.token = j.seen[r[2]].token]
  <2>1. /\ op' = [op EXCEPT ![j.o] = [made |-> TRUE, parent |-> j.parent, expired |-> FALSE]]
        /\ attempt' = [r \in Requests |-> IF r[1] = j.o /\ r[2] \in new THEN made(r) ELSE attempt[r]]
    BY <1>4 DEF Insert
  <2>2. j \in Jobs /\ NoAttempt \in Attempts
    BY <1>0, Blanks DEF CallTypes
  <2>3. ASSUME NEW r \in Requests PROVE made(r) \in Attempts
    <3>1. r[2] \in Legs
      BY DEF Requests
    <3>2. j.seen[r[2]].rev \in 0 .. MaxRevision /\ j.seen[r[2]].token \in Nat
      BY <2>2, <3>1 DEF Jobs, Sights
    <3> QED
      BY <2>2, <3>2 DEF Attempts, AttemptStatus
  <2>4. OpTypes'
    <3>1. [made |-> TRUE, parent |-> j.parent, expired |-> FALSE]
            \in [made : BOOLEAN, parent : Ops \cup {None}, expired : BOOLEAN]
      BY <2>2 DEF Jobs
    <3> QED
      BY <1>0, <2>1, <3>1 DEF OpTypes
  <2>5. TableTypes'
    <3>1. attempt' \in [Requests -> Attempts]
      BY <1>0, <2>1, <2>3 DEF TableTypes
    <3> QED
      BY <1>0, <1>2, <3>1 DEF TableTypes
  <2> QED
    BY <1>0, <1>1, <1>2, <2>4, <2>5, QboStays, LeaseStays, PartsAfter
<1> QED
  BY <1>3, <1>4

\* The steps of a commit that move the caller only, or renew the leases as well.
LEMMA WalkTypes ==
  ASSUME TypeOK, NEW c \in Calls, Named(c),
         Begin(c) \/ Leg(c) \/ AfterLeg(c) \/ Read(c) \/ Recheck(c) \/ Reprove(c) \/ Answer(c)
  PROVE  TypeOK'
<1>0. CallTypes /\ OpTypes /\ TableTypes /\ NetTypes /\ LeaseTypes
  BY Parts
<1>1. /\ UNCHANGED dbVars /\ UNCHANGED qboVars
      /\ UNCHANGED <<lease, dryRun>> \/ (Renewal(c) /\ UNCHANGED dryRun)
  BY DEF Begin, Leg, AfterLeg, Read, Recheck, Reprove, Answer
<1>2. ASSUME Forward(c) PROVE CallTypes'
  <2>1. CASE Leave(c)
    BY <1>0, <2>1, LeaveTypes
  <2>2. CASE Go(c, "leg") /\ job' = [job EXCEPT ![c].i = 2] /\ UNCHANGED lost
    BY <1>0, <2>2 DEF CallTypes, Go, Jobs, Legs, Steps
  <2> QED
    BY <1>2, <2>1, <2>2 DEF Forward
<1>3. Leave(c) \/ Forward(c) \/ \E p \in Steps : Continue(c, p)
  <2>1. {"begin", "expire", "dryBoth", "leg", "park", "dry", "read", "claim", "refresh", "rload",
         "recheck", "reprove", "strict", "unclaim", "accept", "uncertain"} \subseteq Steps
    BY DEF Steps
  <2>2. CASE Begin(c)
    BY <2>1, <2>2 DEF Begin
  <2>3. CASE Leg(c)
    BY <2>1, <2>3 DEF Leg
  <2>4. CASE AfterLeg(c)
    BY <2>4 DEF AfterLeg
  <2>5. CASE Read(c)
    BY <2>1, <2>5 DEF Read
  <2>6. CASE Recheck(c) \/ Reprove(c)
    BY <2>1, <2>6 DEF Recheck, Reprove, Disproved
  <2>7. CASE Answer(c)
    BY <2>1, <2>7 DEF Answer
  <2> QED
    BY <2>2, <2>3, <2>4, <2>5, <2>6, <2>7
<1>4. CallTypes'
  BY <1>0, <1>2, <1>3, LeaveTypes, ContinueTypes
<1>5. LeaseTypes'
  <2>1. CASE Renewal(c) /\ UNCHANGED dryRun
    <3>1. lease' \in [holder : Calls \cup {None}, live : BOOLEAN]
      BY <2>1, RenewalTypes
    <3> QED
      BY <1>0, <2>1, <3>1 DEF LeaseTypes
  <2> QED
    BY <1>0, <1>1, <2>1, LeaseStays
<1> QED
  BY <1>1, <1>4, <1>5, OnlyCalls

\* The steps that write the tables.
LEMMA WriterTypes ==
  ASSUME TypeOK, CallTypes', LeaseTypes', UNCHANGED op, UNCHANGED qboVars,
         row' \in [Legs -> Rows], attempt' \in [Requests -> Attempts], quiet' \subseteq quiet
  PROVE  TypeOK'
<1>1. OpTypes /\ TableTypes /\ NetTypes
  BY Parts
<1>2. OpTypes' /\ TableTypes'
  BY <1>1 DEF OpTypes, TableTypes
<1> QED
  BY <1>1, <1>2, QboStays, PartsAfter

LEMMA GiveUpTypes ==
  ASSUME TypeOK, NEW c \in Calls, NEW from, GiveUp(c, from), CallTypes' PROVE TypeOK'
<1>0. CallTypes /\ OpTypes /\ TableTypes /\ NetTypes /\ LeaseTypes
  BY Parts
<1>1. "RETRYABLE" \in AttemptStatus
  BY DEF AttemptStatus
<1>2. attempt' \in [Requests -> Attempts]
  BY <1>0, <1>1, MovedTypes DEF GiveUp, TableTypes
<1>3. row' \in [Legs -> Rows] /\ quiet' \subseteq quiet
  BY <1>0 DEF GiveUp, TableTypes
<1> QED
  BY <1>0, <1>2, <1>3, WriterTypes, LeaseStays DEF GiveUp

LEMMA ParkTypes ==
  ASSUME TypeOK, NEW c \in Calls, ExpirePrepared(c) \/ Park(c) PROVE TypeOK'
<1>0. CallTypes
  BY Parts
<1>1. "begin" \in Steps
  BY DEF Steps
<1>2. CASE ExpirePrepared(c)
  BY <1>0, <1>1, <1>2, LeaveTypes, ContinueTypes, GiveUpTypes DEF ExpirePrepared
<1>3. CASE Park(c)
  BY <1>0, <1>3, LeaveTypes, GiveUpTypes DEF Park
<1> QED
  BY <1>2, <1>3

LEMMA UnclaimTypes == ASSUME TypeOK, NEW c \in Calls, Unclaim(c) PROVE TypeOK'
<1>0. CallTypes /\ OpTypes /\ TableTypes /\ NetTypes /\ LeaseTypes
  BY Parts
<1>1. "RETRYABLE" \in AttemptStatus
  BY DEF AttemptStatus
<1>2. attempt' \in [Requests -> Attempts]
  BY <1>0, <1>1, MovedTypes DEF Unclaim, TableTypes
<1>3. row' \in [Legs -> Rows] /\ quiet' \subseteq quiet
  BY <1>0 DEF Unclaim, TableTypes
<1> QED
  BY <1>0, <1>2, <1>3, WriterTypes, LeaveTypes, LeaseStays DEF Unclaim

LEMMA FinalizeDryRunTypes == ASSUME TypeOK, NEW c \in Calls, FinalizeDryRun(c) PROVE TypeOK'
<1>0. CallTypes /\ OpTypes /\ TableTypes /\ NetTypes /\ LeaseTypes
  BY Parts
<1>1. {"RETRYABLE", "DRY_RUN"} \subseteq AttemptStatus /\ "DRY_RUN" \in RowStatus
      /\ {"next", "leg", "read", "unclaim"} \subseteq Steps
  BY DEF AttemptStatus, RowStatus, Steps
<1> DEFINE legs == CASE pc[c] = "dryBoth" -> Legs [] pc[c] = "dry" -> {job[c].i} [] OTHER -> job[c].i .. 2
           rs == {Request(job[c].o, j) : j \in legs}
           open == {"PREPARED"} \cup (IF pc[c] = "undry" THEN {"COMMITTING"} ELSE {})
<1>2. /\ quiet' \subseteq quiet
      /\ Leave(c) \/ \E p \in Steps : Continue(c, p)
      /\ attempt' = attempt \/ \E to \in {"RETRYABLE", "DRY_RUN"} : attempt' = Moved(rs, open, to)
      /\ row' = row \/ row' = [j \in Legs |-> IF j \in legs THEN [row[j] EXCEPT !.status = "DRY_RUN"]
                                              ELSE row[j]]
      /\ UNCHANGED <<op, qboVars, lease, dryRun>>
  BY <1>1 DEF FinalizeDryRun
<1>3. CallTypes'
  BY <1>0, <1>2, LeaveTypes, ContinueTypes
<1>4. attempt' \in [Requests -> Attempts]
  BY <1>0, <1>1, <1>2, MovedTypes DEF TableTypes
<1>5. row' \in [Legs -> Rows]
  BY <1>0, <1>1, <1>2 DEF TableTypes, Rows
<1> QED
  BY <1>0, <1>2, <1>3, <1>4, <1>5, WriterTypes, LeaseStays

\* Claim, the guards before the request, and the answer after it.
LEMMA SenderTypes ==
  ASSUME TypeOK, NEW c \in Calls, Named(c),
         Claim(c) \/ Refresh(c) \/ Strict(c) \/ Accept(c) \/ ReadBack(c) \/ RRead(c)
  PROVE  TypeOK'
<1>0. CallTypes /\ OpTypes /\ TableTypes /\ NetTypes /\ LeaseTypes
  BY Parts
<1>1. /\ job[c].o \in Ops /\ job[c].i \in Legs /\ job[c] \in Jobs
      /\ MyRequest(c) \in Requests /\ MyRequest(c)[2] = job[c].i
      /\ attempt[MyRequest(c)] \in Attempts /\ qbo[job[c].i].token \in Nat
  BY MyRequestTypes DEF Claim, Refresh, Strict, Accept, ReadBack, RRead
<1>2. {"refresh", "park", "recheck", "send", "undry", "unclaim", "readback", "uncertain", "verify",
       "rverify", "runchanged"} \subseteq Steps /\ "COMMITTING" \in AttemptStatus
  BY DEF Steps, AttemptStatus
<1>3. CASE Claim(c)
  <2>1. CallTypes'
    BY <1>0, <1>2, <1>3, LeaveTypes, ContinueTypes DEF Claim
  <2>2. attempt' \in [Requests -> Attempts]
    BY <1>0, <1>2, <1>3 DEF Claim, TableTypes, Attempts
  <2>3. quiet' \subseteq quiet /\ row' \in [Legs -> Rows]
    BY <1>0, <1>3 DEF Claim, TableTypes
  <2> QED
    BY <1>0, <1>3, <2>1, <2>2, <2>3, WriterTypes, LeaseStays DEF Claim
<1>4. CASE Refresh(c)
  <2>1. CallTypes'
    BY <1>0, <1>2, <1>4, LeaveTypes, ContinueTypes DEF Refresh
  <2>2. LeaseTypes' /\ quiet' \subseteq quiet
    BY <1>0, <1>4, GuardTypes DEF Refresh, LeaseTypes
  <2> QED
    BY <1>0, <1>4, <2>1, <2>2, WriterTypes DEF Refresh, TableTypes
<1>5. CASE Strict(c)
  <2>1. CallTypes'
    <3>1. Leave(c) \/ Continue(c, "send") \/ Continue(c, "undry") \/ Continue(c, "unclaim")
      BY <1>5 DEF Strict
    <3> QED
      BY <1>0, <1>2, <3>1, LeaveTypes, ContinueTypes
  <2>2. /\ lease' = [holder |-> c, live |-> TRUE] \/ UNCHANGED lease
        /\ UNCHANGED <<row, op, attempt, qboVars, dryRun>> /\ quiet' \subseteq quiet
    BY <1>5 DEF Strict
  <2>3. lease' \in [holder : Calls \cup {None}, live : BOOLEAN]
    <3>1. CASE lease' = [holder |-> c, live |-> TRUE]
      BY <3>1
    <3>2. CASE UNCHANGED lease
      BY <1>0, <3>2 DEF LeaseTypes
    <3> QED
      BY <2>2, <3>1, <3>2
  <2>4. LeaseTypes'
    BY <1>0, <2>2, <2>3 DEF LeaseTypes
  <2> QED
    BY <1>0, <2>1, <2>2, <2>4, WriterTypes DEF TableTypes
<1>6. CASE Accept(c)
  <2>1. CallTypes'
    <3>1. Go(c, "readback") \/ Go(c, "uncertain")
      BY <1>6 DEF Accept
    <3>2. pc' \in [Calls -> Steps]
      BY <1>0, <1>2, <3>1 DEF CallTypes, Go
    <3>3. [job[c] EXCEPT !.response = TRUE] \in Jobs
      BY <1>1 DEF Jobs
    <3>4. job' = [job EXCEPT ![c] = [job[c] EXCEPT !.response = TRUE]] /\ UNCHANGED lost
      BY <1>6 DEF Accept
    <3> QED
      BY <1>0, <3>2, <3>3, <3>4 DEF CallTypes
  <2>2. attempt' \in [Requests -> Attempts]
    BY <1>0, <1>6 DEF Accept, TableTypes, Attempts
  <2>3. quiet' \subseteq quiet /\ row' \in [Legs -> Rows]
    BY <1>0, <1>6 DEF Accept, TableTypes
  <2> QED
    BY <1>0, <1>6, <2>1, <2>2, <2>3, WriterTypes, LeaseStays DEF Accept
<1>7. CASE ReadBack(c) \/ RRead(c)
  <2>1. CallTypes'
    <3>1. \/ Leave(c) \/ (\E p \in Steps : Continue(c, p))
          \/ /\ \E p \in Steps : Go(c, p)
             /\ job' = [job EXCEPT ![c].token = qbo[job[c].i].token] /\ UNCHANGED lost
      BY <1>2, <1>7 DEF ReadBack, RRead
    <3>2. CASE /\ \E p \in Steps : Go(c, p)
               /\ job' = [job EXCEPT ![c].token = qbo[job[c].i].token] /\ UNCHANGED lost
      BY <1>0, <1>1, <3>2 DEF CallTypes, Go, Jobs
    <3> QED
      BY <1>0, <3>1, <3>2, LeaveTypes, ContinueTypes
  <2>2. LeaseTypes' /\ quiet' \subseteq quiet
    BY <1>0, <1>7, GuardTypes DEF ReadBack, RRead, LeaseTypes
  <2> QED
    BY <1>0, <1>7, <2>1, <2>2, WriterTypes DEF ReadBack, RRead, TableTypes
<1> QED
  BY <1>3, <1>4, <1>5, <1>6, <1>7

LEMMA FinalizedTypes ==
  ASSUME TypeOK, NEW c \in Calls, Named(c), pc[c] \notin {"idle", "release"}, Finalized(c)
  PROVE  attempt' \in [Requests -> Attempts] /\ row' \in [Legs -> Rows]
<1>1. /\ job[c].i \in Legs /\ job[c].token \in Nat /\ MyRequest(c) \in Requests
  BY MyRequestTypes DEF Jobs
<1>2. attempt \in [Requests -> Attempts] /\ row \in [Legs -> Rows]
  BY Parts DEF TableTypes
<1>3. [attempt[MyRequest(c)] EXCEPT !.status = "VERIFIED", !.new = job[c].token, !.response = TRUE]
        \in Attempts
  BY <1>1, <1>2 DEF Attempts, AttemptStatus
<1>4. [row[job[c].i] EXCEPT !.status = "POSTED", !.token = job[c].token] \in Rows
  BY <1>1, <1>2 DEF Rows, RowStatus
<1> QED
  BY <1>1, <1>2, <1>3, <1>4 DEF Finalized

\* The steps that settle an attempt, and the heartbeat.
LEMMA SettlerTypes ==
  ASSUME TypeOK, NEW c \in Calls, Named(c),
         Verify(c) \/ RVerify(c) \/ RUnchanged(c) \/ MarkUncertain(c) \/ RLoad(c) \/ Heartbeat(c)
  PROVE  TypeOK'
<1>0. CallTypes /\ OpTypes /\ TableTypes /\ NetTypes /\ LeaseTypes
  BY Parts
<1>1. {"next", "uncertain", "rread"} \subseteq Steps
      /\ {"RETRYABLE", "UNCHANGED", "UNCERTAIN"} \subseteq AttemptStatus
      /\ {"PENDING", "ERROR"} \subseteq RowStatus
  BY DEF Steps, AttemptStatus, RowStatus
<1>2. CASE Verify(c) \/ RVerify(c)
  <2>1. CallTypes'
    BY <1>0, <1>1, <1>2, LeaveTypes, ContinueTypes DEF Verify, RVerify
  <2>2. LeaseTypes' /\ quiet' \subseteq quiet
    BY <1>0, <1>2, GuardTypes DEF Verify, RVerify, LeaseTypes
  <2>3. attempt' \in [Requests -> Attempts] /\ row' \in [Legs -> Rows]
    <3>1. pc[c] \notin {"idle", "release"}
      BY <1>2 DEF Verify, RVerify
    <3> QED
      BY <1>0, <1>2, <3>1, FinalizedTypes DEF Verify, RVerify, TableTypes
  <2> QED
    BY <1>2, <2>1, <2>2, <2>3, WriterTypes DEF Verify, RVerify
<1>3. CASE RUnchanged(c)
  <2>1. CallTypes'
    BY <1>0, <1>1, <1>3, LeaveTypes, ContinueTypes DEF RUnchanged
  <2>2. LeaseTypes' /\ quiet' \subseteq quiet
    BY <1>0, <1>3, GuardTypes DEF RUnchanged, LeaseTypes
  <2>3. attempt' \in [Requests -> Attempts]
    <3> DEFINE m == Moved(Own(job[c].o), {"PREPARED"}, "RETRYABLE")
    <3>1. m \in [Requests -> Attempts]
      BY <1>1, MovedTypes
    <3>2. attempt' = attempt \/ attempt' = [m EXCEPT ![MyRequest(c)].status = "UNCHANGED"]
      BY <1>3 DEF RUnchanged
    <3> HIDE DEF m
    <3>3. \A r \in Requests : [m[r] EXCEPT !.status = "UNCHANGED"] \in Attempts
      BY <1>1, <3>1 DEF Attempts
    <3>4. [m EXCEPT ![MyRequest(c)].status = "UNCHANGED"] \in [Requests -> Attempts]
      BY <3>1, <3>3
    <3> QED
      BY <1>0, <3>2, <3>4 DEF TableTypes
  <2>4. row' \in [Legs -> Rows]
    BY <1>0, <1>1, <1>3 DEF RUnchanged, TableTypes, Rows
  <2> QED
    BY <1>3, <2>1, <2>2, <2>3, <2>4, WriterTypes DEF RUnchanged
<1>4. CASE MarkUncertain(c)
  <2>1. CallTypes'
    BY <1>0, <1>4, LeaveTypes DEF MarkUncertain
  <2>2. attempt' \in [Requests -> Attempts]
    <3>1. MyRequest(c) \in Requests /\ job[c].response \in BOOLEAN
      BY <1>4, MyRequestTypes DEF MarkUncertain, Jobs
    <3>2. attempt[MyRequest(c)] \in Attempts
      BY <1>0, <3>1 DEF TableTypes
    <3> DEFINE r == MyRequest(c)
               marked == [attempt[r] EXCEPT !.status = "UNCERTAIN", !.response = attempt[r].response \/ job[c].response]
    <3>3. marked \in Attempts
      <4>1. (attempt[r].response \/ job[c].response) \in BOOLEAN
        OBVIOUS
      <4>2. marked = [attempt[r] EXCEPT !.status = "UNCERTAIN",
                                        !.response = (attempt[r].response \/ job[c].response)]
        BY <3>2 DEF Attempts
      <4> QED
        BY <1>1, <3>2, <4>1, <4>2 DEF Attempts
    <3>4. attempt' = attempt \/ attempt' = [attempt EXCEPT ![r] = marked]
      BY <1>4 DEF MarkUncertain
    <3> HIDE DEF marked
    <3> QED
      BY <1>0, <3>3, <3>4 DEF TableTypes
  <2>3. row' \in [Legs -> Rows] /\ quiet' \subseteq quiet
    BY <1>0, <1>1, <1>4 DEF MarkUncertain, TableTypes, Rows
  <2> QED
    BY <1>0, <1>4, <2>1, <2>2, <2>3, WriterTypes, LeaseStays DEF MarkUncertain
<1>5. CASE RLoad(c)
  <2>1. CallTypes'
    <3> DEFINE r == MyRequest(c)
    <3>1. /\ job[c] \in Jobs /\ attempt[r] \in Attempts
          /\ attempt[r].status \in AttemptStatus /\ attempt[r].response \in BOOLEAN
      BY <1>5, MyRequestTypes DEF RLoad, Attempts
    <3>2. (r \in quiet) \in BOOLEAN
      OBVIOUS
    <3>3. [job[c] EXCEPT !.quiet = r \in quiet, !.status = attempt[r].status,
                         !.response = attempt[r].response] \in Jobs
      BY <3>1, <3>2 DEF Jobs
    <3>4. \/ Leave(c) \/ Continue(c, "next")
          \/ /\ Go(c, "rread") /\ UNCHANGED lost
             /\ job' = [job EXCEPT ![c] = [@ EXCEPT !.quiet = r \in quiet, !.status = attempt[r].status,
                                                    !.response = attempt[r].response]]
      BY <1>5 DEF RLoad
    <3> HIDE DEF r
    <3> QED
      BY <1>0, <1>1, <3>3, <3>4, LeaveTypes, ContinueTypes DEF CallTypes, Go
  <2>2. lease' \in [holder : Calls \cup {None}, live : BOOLEAN]
    BY <1>5, RenewalTypes DEF RLoad
  <2>3. LeaseTypes'
    BY <1>0, <1>5, <2>2 DEF RLoad, LeaseTypes
  <2> QED
    BY <1>5, <2>1, <2>3, OnlyCalls DEF RLoad
<1>6. CASE Heartbeat(c)
  <2>1. CallTypes'
    BY <1>0, <1>6 DEF Heartbeat, CallTypes
  <2>2. /\ LeaseTypes' /\ quiet' \subseteq quiet
    <3>1. PICK status : Guard(c, status)
      BY <1>6 DEF Heartbeat
    <3> QED
      BY <1>0, <1>6, <3>1, GuardTypes DEF Heartbeat, LeaseTypes
  <2> QED
    BY <1>0, <1>6, <2>1, <2>2, WriterTypes DEF Heartbeat, TableTypes
<1> QED
  BY <1>2, <1>3, <1>4, <1>5, <1>6

\* The send is the one step that counts: it has claimed a request not yet sent.
LEMMA MineIsRequest ==
  ASSUME TypeOK, NEW o \in Ops, NEW i \in Legs, attempt[<<o, i>>].status # "NONE"
  PROVE  Request(o, i) = <<o, i>>
BY DEF Request

LEMMA SendTypes == ASSUME TypeOK, NEW c \in Calls, Named(c), Claims(c), Send(c) PROVE TypeOK'
<1>0. CallTypes /\ OpTypes /\ TableTypes /\ NetTypes /\ LeaseTypes
  BY Parts
<1>1. MyRequest(c) \in Requests /\ job[c].o \in Ops /\ job[c].i \in Legs
  BY MyRequestTypes DEF Send
<1>2. MyRequest(c) = Mine(c) /\ sends[MyRequest(c)] = 0
  BY <1>1, MineIsRequest DEF Send, Claims, PreSend, MyRequest, Mine
<1>3. CallTypes'
  <2>1. {"sent", "uncertain"} \subseteq Steps
    BY DEF Steps
  <2> QED
    BY <1>0, <2>1, ContinueTypes DEF Send
<1>4. NetTypes'
  <2>1. wire' \subseteq Requests
    BY <1>0, <1>1 DEF Send, NetTypes
  <2>2. sends' \in [Requests -> 0 .. 1]
    BY <1>0, <1>1, <1>2 DEF Send, NetTypes
  <2> QED
    BY <1>0, <2>1, <2>2 DEF Send, NetTypes
<1> QED
  BY <1>0, <1>3, <1>4, DbStays, LeaseStays, PartsAfter DEF Send

LEMMA EnvironmentTypes == ASSUME TypeOK, Environment PROVE TypeOK'
<1>0. CallTypes /\ OpTypes /\ TableTypes /\ NetTypes /\ LeaseTypes
  BY Parts
<1>1. CallTypes'
  BY <1>0 DEF Environment, Land, Lose, BecomeQuiet, EditInQuickBooks, Others, Expire, LeaseExpires,
              ToggleDryRun, CallTypes
<1>2. ASSUME NEW r \in Requests, Land(r) PROVE TypeOK'
  <2>1. r[2] \in Legs
    BY DEF Requests
  <2>2. qbo' \in [Legs -> [content : {"held", "moved", "elsewhere"}, token : Nat]]
    BY <1>0, <1>2, <2>1 DEF Land, NetTypes
  <2>3. wire' \subseteq Requests /\ landed' \subseteq Requests /\ UNCHANGED sends
    BY <1>0, <1>2 DEF Land, NetTypes
  <2>4. NetTypes'
    BY <1>0, <2>2, <2>3 DEF NetTypes
  <2> QED
    BY <1>0, <1>1, <1>2, <2>4, DbStays, LeaseStays, PartsAfter DEF Land
<1>3. ASSUME NEW r \in Requests, Lose(r) PROVE TypeOK'
  <2>1. NetTypes'
    BY <1>0, <1>3 DEF Lose, NetTypes
  <2> QED
    BY <1>0, <1>1, <1>3, <2>1, DbStays, LeaseStays, PartsAfter DEF Lose
<1>4. ASSUME NEW r \in Requests, BecomeQuiet(r) PROVE TypeOK'
  <2>1. TableTypes' /\ OpTypes'
    BY <1>0, <1>4 DEF BecomeQuiet, TableTypes, OpTypes
  <2> QED
    BY <1>0, <1>1, <1>4, <2>1, QboStays, LeaseStays, PartsAfter DEF BecomeQuiet
<1>5. ASSUME NEW i \in Legs, EditInQuickBooks(i) PROVE TypeOK'
  <2>1. PICK content \in {qbo[i].content, "elsewhere"} :
          qbo' = [qbo EXCEPT ![i] = [content |-> content, token |-> @.token + 1]]
    BY <1>5 DEF EditInQuickBooks
  <2>2. qbo' \in [Legs -> [content : {"held", "moved", "elsewhere"}, token : Nat]]
    BY <1>0, <2>1 DEF NetTypes
  <2>3. NetTypes'
    BY <1>0, <1>5, <2>2 DEF EditInQuickBooks, NetTypes
  <2> QED
    BY <1>0, <1>1, <1>5, <2>3, DbStays, LeaseStays, PartsAfter DEF EditInQuickBooks
<1>6. ASSUME NEW i \in Legs, Others(i) PROVE TypeOK'
  <2>1. row' \in [Legs -> Rows]
    <3>1. CASE row[i].rev < MaxRevision /\ row' = [row EXCEPT ![i].rev = @ + 1]
      BY <1>0, <3>1, BoundsAssumption DEF TableTypes, Rows
    <3>2. CASE row' = [row EXCEPT ![i].token = qbo[i].token]
      BY <1>0, <3>2 DEF TableTypes, NetTypes, Rows
    <3> QED
      BY <1>6, <3>1, <3>2 DEF Others
  <2>2. TableTypes' /\ OpTypes'
    BY <1>0, <1>6, <2>1 DEF Others, TableTypes, OpTypes
  <2>3. LeaseTypes'
    BY <1>0, <1>6 DEF Others, LeaseTypes
  <2> QED
    BY <1>0, <1>1, <1>6, <2>2, <2>3, QboStays, PartsAfter DEF Others
<1>7. ASSUME NEW o \in Ops, Expire(o) PROVE TypeOK'
  <2>1. OpTypes'
    BY <1>0, <1>7 DEF Expire, OpTypes
  <2>2. TableTypes'
    BY <1>0, <1>7 DEF Expire, TableTypes
  <2> QED
    BY <1>0, <1>1, <1>7, <2>1, <2>2, QboStays, LeaseStays, PartsAfter DEF Expire
<1>8. CASE LeaseExpires
  <2>1. LeaseTypes'
    BY <1>0, <1>8 DEF LeaseExpires, LeaseTypes
  <2> QED
    BY <1>0, <1>1, <1>8, <2>1, OnlyCalls DEF LeaseExpires
<1>9. CASE ToggleDryRun
  <2>1. LeaseTypes'
    BY <1>0, <1>9, BoundsAssumption DEF ToggleDryRun, LeaseTypes
  <2> QED
    BY <1>0, <1>1, <1>9, <2>1, OnlyCalls DEF ToggleDryRun
<1> QED
  BY <1>2, <1>3, <1>4, <1>5, <1>6, <1>7, <1>8, <1>9 DEF Environment

LEMMA NextTypes == ASSUME IInv, Next PROVE TypeOK'
<1>1. TypeOK
  BY DEF IInv
<1>2. ASSUME NEW c \in Calls, CallStep(c) PROVE TypeOK'
  <2>1. Named(c) /\ Claims(c)
    BY DEF IInv, CallInv
  <2> QED
    BY <1>1, <1>2, <2>1, EntryTypes, InsertTypes, WalkTypes, ParkTypes, UnclaimTypes,
       FinalizeDryRunTypes, SenderTypes, SettlerTypes, SendTypes DEF CallStep
<1> QED
  BY <1>1, <1>2, EnvironmentTypes DEF Next
----------------------------------------------------------------------------
(* Every step but an insertion moves attempts forward and keeps the          *)
(* operations as they are.                                                   *)

Forth(s, t) ==
  \/ s = "PREPARED" /\ t \in {"COMMITTING", "RETRYABLE", "DRY_RUN"}
  \/ s = "COMMITTING" /\ t \in {"RETRYABLE", "DRY_RUN"}
  \/ s \in Unresolved /\ t \in {"VERIFIED", "UNCHANGED", "UNCERTAIN"}

AttemptsMove ==
  \A r \in Requests : /\ attempt'[r].token = attempt[r].token
                      /\ \/ attempt'[r].status = attempt[r].status
                         \/ Forth(attempt[r].status, attempt'[r].status)

ClaimsMove ==
  \A r \in Requests : attempt[r].status = "PREPARED" /\ attempt'[r].status = "COMMITTING" =>
                        \E c \in Calls : pc[c] = "claim" /\ MyRequest(c) = r

OpsStay ==
  \A o \in Ops : /\ op'[o].made = op[o].made /\ op'[o].parent = op[o].parent
                 /\ op[o].expired => op'[o].expired

Evolves == AttemptsMove /\ ClaimsMove /\ OpsStay

LEMMA StillEvolves == ASSUME UNCHANGED <<op, attempt>> PROVE Evolves
BY DEF Evolves, AttemptsMove, ClaimsMove, OpsStay

LEMMA MovedStatus ==
  ASSUME TypeOK, NEW rs, NEW from, NEW to, NEW r \in Requests
  PROVE  /\ Moved(rs, from, to)[r].token = attempt[r].token
         /\ Moved(rs, from, to)[r].status = IF r \in rs /\ attempt[r].status \in from
                                            THEN to ELSE attempt[r].status
<1>1. attempt[r] \in Attempts
  BY Parts DEF TableTypes
<1>2. Moved(rs, from, to)[r] = IF r \in rs /\ attempt[r].status \in from
                               THEN [attempt[r] EXCEPT !.status = to] ELSE attempt[r]
  BY DEF Moved
<1> QED
  BY <1>1, <1>2 DEF Attempts

LEMMA MovedEvolves ==
  ASSUME TypeOK, NEW rs, NEW from \in {{}, {"PREPARED"}, {"COMMITTING"}, {"PREPARED", "COMMITTING"}},
         NEW to \in {"RETRYABLE", "DRY_RUN"}, attempt' = Moved(rs, from, to), UNCHANGED op
  PROVE  Evolves
<1>1. ASSUME NEW r \in Requests
      PROVE  /\ attempt'[r].token = attempt[r].token
             /\ \/ attempt'[r].status = attempt[r].status
                \/ Forth(attempt[r].status, attempt'[r].status) /\ attempt'[r].status # "COMMITTING"
  <2>1. attempt[r] \in Attempts
    BY Parts DEF TableTypes
  <2>2. CASE ~(r \in rs /\ attempt[r].status \in from)
    BY <2>2 DEF Moved
  <2>3. CASE r \in rs /\ attempt[r].status \in from
    <3>1. attempt'[r] = [attempt[r] EXCEPT !.status = to]
      BY <2>3 DEF Moved
    <3>2. attempt'[r].token = attempt[r].token /\ attempt'[r].status = to
      BY <2>1, <3>1 DEF Attempts
    <3>3. attempt[r].status \in {"PREPARED", "COMMITTING"}
      BY <2>3
    <3> QED
      BY <3>2, <3>3 DEF Forth
  <2> QED
    BY <2>2, <2>3
<1> QED
  BY <1>1 DEF Evolves, AttemptsMove, ClaimsMove, OpsStay

\* One attempt is changed.
LEMMA OneEvolves ==
  ASSUME TypeOK, NEW r \in Requests, NEW a \in Attempts, attempt' = [attempt EXCEPT ![r] = a],
         a.token = attempt[r].token, a.status = attempt[r].status \/ Forth(attempt[r].status, a.status),
         a.status # "COMMITTING" \/ attempt[r].status = "COMMITTING"
           \/ \E c \in Calls : pc[c] = "claim" /\ MyRequest(c) = r,
         UNCHANGED op
  PROVE  Evolves
<1>1. attempt \in [Requests -> Attempts]
  BY Parts DEF TableTypes
<1> QED
  BY <1>1 DEF Evolves, AttemptsMove, ClaimsMove, OpsStay

LEMMA GuardsStatus ==
  ASSUME NEW c \in Calls, NEW status, Guards(c, status) PROVE attempt[MyRequest(c)].status \in status
BY DEF Guards, MyStatus, MyRequest, Status

LEMMA FinalizedEvolves ==
  ASSUME TypeOK, NEW c \in Calls, Named(c), pc[c] \notin {"idle", "release"}, Finalized(c),
         attempt[MyRequest(c)].status \in Unresolved, UNCHANGED op
  PROVE  Evolves /\ attempt'[MyRequest(c)].status = "VERIFIED"
<1> DEFINE r == MyRequest(c)
           a == [attempt[r] EXCEPT !.status = "VERIFIED", !.new = job[c].token, !.response = TRUE]
<1>1. r \in Requests /\ attempt[r] \in Attempts /\ job[c].token \in Nat
  BY MyRequestTypes DEF Jobs
<1>2. a \in Attempts /\ a.token = attempt[r].token /\ a.status = "VERIFIED"
  BY <1>1 DEF Attempts, AttemptStatus
<1>3. attempt' = [attempt EXCEPT ![r] = a]
  BY DEF Finalized
<1>4. Forth(attempt[r].status, a.status)
  BY <1>2 DEF Forth
<1>5. attempt'[r] = a
  BY <1>1, <1>3, Parts DEF TableTypes
<1> HIDE DEF a, r
<1> QED
  BY <1>1, <1>2, <1>3, <1>4, <1>5, OneEvolves DEF r

LEMMA CallEvolves ==
  ASSUME TypeOK, NEW c \in Calls, Named(c), CallStep(c), ~Insert(c) PROVE Evolves
<1>1. CASE \/ Start(c) \/ Acquire(c) \/ ReleaseLease(c) \/ Crash(c) \/ Check(c) \/ ReadLegs(c)
           \/ Begin(c) \/ Leg(c) \/ AfterLeg(c) \/ Read(c) \/ Refresh(c) \/ Recheck(c)
           \/ Reprove(c) \/ Strict(c) \/ Send(c) \/ Answer(c) \/ ReadBack(c) \/ RLoad(c)
           \/ RRead(c) \/ Heartbeat(c)
  <2>1. UNCHANGED <<op, attempt>>
    BY <1>1 DEF Start, Acquire, ReleaseLease, Crash, Check, ReadLegs, Begin, Leg, AfterLeg, Read,
       Refresh, Recheck, Reprove, Strict, Send, Answer, ReadBack, RLoad, RRead, Heartbeat, dbVars
  <2> QED
    BY <2>1, StillEvolves
<1>2. CASE ExpirePrepared(c) \/ Park(c)
  <2>1. PICK from \in {{}, {"PREPARED"}} : GiveUp(c, from)
    BY <1>2 DEF ExpirePrepared, Park
  <2> QED
    BY <2>1, MovedEvolves, StillEvolves DEF GiveUp
<1>3. CASE Unclaim(c)
  BY <1>3, MovedEvolves, StillEvolves DEF Unclaim
<1>4. CASE FinalizeDryRun(c)
  <2> DEFINE legs == CASE pc[c] = "dryBoth" -> Legs [] pc[c] = "dry" -> {job[c].i} [] OTHER -> job[c].i .. 2
             rs == {Request(job[c].o, j) : j \in legs}
             open == {"PREPARED"} \cup (IF pc[c] = "undry" THEN {"COMMITTING"} ELSE {})
  <2>1. /\ attempt' = attempt \/ \E to \in {"RETRYABLE", "DRY_RUN"} : attempt' = Moved(rs, open, to)
        /\ UNCHANGED op
    BY <1>4 DEF FinalizeDryRun
  <2>2. open \in {{"PREPARED"}, {"PREPARED", "COMMITTING"}}
    OBVIOUS
  <2> HIDE DEF open, rs
  <2> QED
    BY <2>1, <2>2, MovedEvolves, StillEvolves
<1>5. CASE Claim(c)
  <2>1. CASE attempt' = attempt
    BY <1>5, <2>1, StillEvolves DEF Claim
  <2>2. CASE attempt' # attempt
    <3> DEFINE r == MyRequest(c)
               a == [attempt[r] EXCEPT !.status = "COMMITTING"]
    <3>1. r \in Requests /\ attempt[r] \in Attempts
      BY <1>5, MyRequestTypes DEF Claim
    <3>2. attempt' = [attempt EXCEPT ![r] = a] /\ attempt[r].status = "PREPARED" /\ UNCHANGED op
      BY <1>5, <2>2 DEF Claim
    <3>3. a \in Attempts /\ a.token = attempt[r].token /\ Forth(attempt[r].status, a.status)
      BY <3>1, <3>2 DEF Attempts, AttemptStatus, Forth
    <3>4. \E d \in Calls : pc[d] = "claim" /\ MyRequest(d) = r
      BY <1>5 DEF Claim
    <3> HIDE DEF a, r
    <3> QED
      BY <3>1, <3>2, <3>3, <3>4, OneEvolves
  <2> QED
    BY <2>1, <2>2
<1>6. CASE Accept(c)
  <2>1. CASE attempt' = attempt
    BY <1>6, <2>1, StillEvolves DEF Accept
  <2>2. CASE attempt' # attempt
    <3> DEFINE r == MyRequest(c)
               a == [attempt[r] EXCEPT !.response = TRUE]
    <3>1. r \in Requests /\ attempt[r] \in Attempts
      BY <1>6, MyRequestTypes DEF Accept
    <3>2. attempt' = [attempt EXCEPT ![r] = a] /\ UNCHANGED op
      BY <1>6, <2>2 DEF Accept
    <3>3. a \in Attempts /\ a.token = attempt[r].token /\ a.status = attempt[r].status
          /\ (a.status # "COMMITTING" \/ attempt[r].status = "COMMITTING")
      BY <3>1, <3>2 DEF Attempts
    <3> HIDE DEF a, r
    <3> QED
      BY <3>1, <3>2, <3>3, OneEvolves
  <2> QED
    BY <2>1, <2>2
<1>7. CASE Verify(c) \/ RVerify(c)
  <2>1. pc[c] \notin {"idle", "release"} /\ UNCHANGED op
    BY <1>7 DEF Verify, RVerify
  <2>2. UNCHANGED attempt \/ (Finalized(c) /\ attempt[MyRequest(c)].status \in Unresolved)
    BY <1>7, GuardsStatus DEF Verify, RVerify, Unresolved
  <2> QED
    BY <2>1, <2>2, FinalizedEvolves, StillEvolves
<1>8. CASE MarkUncertain(c)
  <2>1. CASE attempt' = attempt
    BY <1>8, <2>1, StillEvolves DEF MarkUncertain
  <2>2. CASE attempt' # attempt
    <3> DEFINE r == MyRequest(c)
               b == attempt[r].response \/ job[c].response
               a == [attempt[r] EXCEPT !.status = "UNCERTAIN", !.response = b]
    <3>1. r \in Requests /\ attempt[r] \in Attempts
      BY <1>8, MyRequestTypes DEF MarkUncertain
    <3>2. attempt' = [attempt EXCEPT ![r] = a] /\ attempt[r].status = "COMMITTING" /\ UNCHANGED op
      BY <1>8, <2>2 DEF MarkUncertain
    <3>3. b \in BOOLEAN
      OBVIOUS
    <3> HIDE DEF b
    <3>4. a \in Attempts /\ a.token = attempt[r].token /\ Forth(attempt[r].status, a.status)
      BY <3>1, <3>2, <3>3 DEF Attempts, AttemptStatus, Forth, Unresolved
    <3> HIDE DEF a, r
    <3> QED
      BY <3>1, <3>2, <3>4, OneEvolves
  <2> QED
    BY <2>1, <2>2
<1>9. CASE RUnchanged(c)
  <2>1. CASE attempt' = attempt
    BY <1>9, <2>1, StillEvolves DEF RUnchanged
  <2>2. CASE attempt' # attempt
    <3> DEFINE r == MyRequest(c)
               m == Moved(Own(job[c].o), {"PREPARED"}, "RETRYABLE")
    <3>1. r \in Requests /\ attempt \in [Requests -> Attempts]
      BY <1>9, MyRequestTypes, Parts DEF RUnchanged, TableTypes
    <3>2. attempt' = [m EXCEPT ![r].status = "UNCHANGED"] /\ attempt[r].status \in Unresolved
      BY <1>9, <2>2, GuardsStatus DEF RUnchanged
    <3>3. m \in [Requests -> Attempts] /\ m[r] = attempt[r]
      <4>1. "RETRYABLE" \in AttemptStatus /\ attempt[r].status # "PREPARED"
        BY <3>2 DEF AttemptStatus, Unresolved
      <4>2. m \in [Requests -> Attempts]
        BY <4>1, MovedTypes
      <4>3. m[r] = attempt[r]
        BY <3>1, <4>1 DEF Moved
      <4> QED
        BY <4>2, <4>3
    <3>4. \A q \in Requests : m[q].token = attempt[q].token
                              /\ \/ m[q].status = attempt[q].status
                                 \/ m[q].status = "RETRYABLE" /\ Forth(attempt[q].status, m[q].status)
      BY <3>1 DEF Moved, Attempts, Forth
    <3>5. Forth(attempt[r].status, "UNCHANGED") /\ UNCHANGED op
      BY <1>9, <3>2 DEF Forth, RUnchanged
    <3> HIDE DEF m, r
    <3>6. \A q \in Requests : /\ attempt'[q].token = attempt[q].token
                              /\ \/ attempt'[q].status = attempt[q].status
                                 \/ Forth(attempt[q].status, attempt'[q].status)
                                    /\ attempt'[q].status # "COMMITTING"
      <4>1. TAKE q \in Requests
      <4>2. CASE q = r
        <5>1. m[r] \in Attempts
          BY <3>1, <3>3
        <5>2. attempt'[r] = [m[r] EXCEPT !.status = "UNCHANGED"]
          BY <3>1, <3>2, <3>3
        <5>3. attempt'[r].token = attempt[r].token /\ attempt'[r].status = "UNCHANGED"
          BY <3>3, <5>1, <5>2 DEF Attempts
        <5> QED
          BY <3>5, <4>2, <5>3
      <4>3. CASE q # r
        <5>1. attempt'[q] = m[q]
          BY <3>2, <3>3, <4>3
        <5> QED
          BY <3>4, <5>1
      <4> QED
        BY <4>2, <4>3
    <3> QED
      BY <3>5, <3>6 DEF Evolves, AttemptsMove, ClaimsMove, OpsStay
  <2> QED
    BY <2>1, <2>2
<1> QED
  BY <1>1, <1>2, <1>3, <1>4, <1>5, <1>6, <1>7, <1>8, <1>9 DEF CallStep
----------------------------------------------------------------------------
(* What stays true while attempts move forward.                              *)

LEMMA EvolvedStatus ==
  ASSUME TypeOK, Evolves
  PROVE  \A o \in Ops, i \in Legs :
           /\ Request(o, i)' = Request(o, i) /\ Request(o, i) \in Requests
           /\ Status(o, i)' = Status(o, i) \/ Forth(Status(o, i), Status(o, i)')
<1>1. TAKE o \in Ops, i \in Legs
<1>2. <<o, i>> \in Requests /\ Request(o, i) \in Requests
  BY RequestTypes DEF Requests
<1>3. attempt'[<<o, i>>].status = "NONE" <=> attempt[<<o, i>>].status = "NONE"
  BY <1>2 DEF Evolves, AttemptsMove, Forth, Unresolved
<1>4. op'[o].parent = op[o].parent
  BY DEF Evolves, OpsStay
<1>5. Request(o, i)' = Request(o, i)
  BY <1>3, <1>4 DEF Request
<1>6. Status(o, i)' = attempt'[Request(o, i)].status
  BY <1>5 DEF Status
<1> QED
  BY <1>2, <1>5, <1>6 DEF Evolves, AttemptsMove, Status

LEMMA EvolvedOps == ASSUME TypeOK, OpsInv, Evolves PROVE OpsInv'
<1> SUFFICES ASSUME NEW o \in Ops
             PROVE  /\ ~op'[o].made => /\ op'[o].parent = None
                                       /\ \A i \in Legs : attempt'[<<o, i>>].status = "NONE"
                    /\ op'[o].made => \A i \in Legs :
                         attempt'[<<o, i>>].status = "NONE" =>
                           op'[o].parent # None /\ attempt'[<<op'[o].parent, i>>].status = "VERIFIED"
                    /\ op'[o].parent # None =>
                         op'[op'[o].parent].made /\ op'[op'[o].parent].parent = None
  BY DEF OpsInv
<1>1. op'[o].made = op[o].made /\ op'[o].parent = op[o].parent /\ op[o].parent \in Ops \cup {None}
  BY Parts DEF Evolves, OpsStay, OpTypes
<1>2. \A i \in Legs : attempt'[<<o, i>>].status = "NONE" <=> attempt[<<o, i>>].status = "NONE"
  BY DEF Evolves, AttemptsMove, Forth, Unresolved, Requests
<1>3. CASE op[o].parent = None
  <2>1. ~op[o].made => \A i \in Legs : attempt[<<o, i>>].status = "NONE"
    BY DEF OpsInv
  <2>2. op[o].made => \A i \in Legs : attempt[<<o, i>>].status # "NONE"
    BY <1>3 DEF OpsInv
  <2> QED
    BY <1>1, <1>2, <1>3, <2>1, <2>2
<1>4. CASE op[o].parent \in Ops
  <2>1. /\ op'[op[o].parent].made = op[op[o].parent].made
        /\ op'[op[o].parent].parent = op[op[o].parent].parent
    BY <1>4 DEF Evolves, OpsStay
  <2>2. \A i \in Legs : attempt[<<op[o].parent, i>>].status = "VERIFIED" =>
                          attempt'[<<op[o].parent, i>>].status = "VERIFIED"
    BY <1>4 DEF Evolves, AttemptsMove, Forth, Unresolved, Requests
  <2> QED
    BY <1>1, <1>2, <1>4, <2>1, <2>2 DEF OpsInv
<1> QED
  BY <1>1, <1>3, <1>4

LEMMA EvolvedOneLive == ASSUME TypeOK, OneLive, Evolves PROVE OneLive'
<1>1. \A r \in Requests : attempt'[r].status \in Live => attempt[r].status \in Live
  BY DEF Evolves, AttemptsMove, Forth, Live, Active, Finished, Unresolved
<1>2. ASSUME NEW i \in Legs, NEW o \in Ops, NEW q \in Ops,
             attempt'[<<o, i>>].status \in Live, attempt'[<<q, i>>].status \in Live
      PROVE  o = q
  <2>1. <<o, i>> \in Requests /\ <<q, i>> \in Requests
    BY DEF Requests
  <2> QED
    BY <1>1, <1>2, <2>1 DEF OneLive
<1>3. Live' = Live
  BY DEF Live, Active, Finished
<1> QED
  BY <1>2, <1>3 DEF OneLive

\* A call that keeps its place, or goes on with the same subject.
LEMMA GoingSubject ==
  ASSUME TypeOK, OpsInv, Evolves, NEW c \in Calls, CallInv(c),
         pc'[c] = pc[c] \/ (pc[c] \in Committing /\ pc'[c] \in Committing),
         /\ job'[c].kind = job[c].kind /\ job'[c].o = job[c].o /\ job'[c].parent = job[c].parent
         /\ job'[c].i = job[c].i /\ job'[c].seen = job[c].seen,
         pc'[c] \in {"begin", "expire", "dryBoth"} => pc[c] \in {"begin", "expire", "dryBoth"}
  PROVE  Named(c)' /\ FirstLeg(c)' /\ Ordered(c)' /\ Saw(c)'
<1>1. Preparing \cap Committing = {} /\ {"acquire", "idle", "release"} \cap Committing = {}
      /\ PreSend \subseteq Committing
  BY DEF Preparing, Committing, PreSend, Steps
<1>2. job[c].i \in Legs /\ job[c].o \in Ops \cup {None} /\ job[c].parent \in Ops \cup {None}
  BY Parts DEF CallTypes, Jobs
<1>3. Named(c) /\ FirstLeg(c) /\ Ordered(c) /\ Claims(c) /\ Saw(c)
  BY DEF CallInv
<1>4. Named(c)'
  <2>1. \A o \in Ops : op'[o].made = op[o].made /\ op'[o].parent = op[o].parent
    BY DEF Evolves, OpsStay
  <2>2. pc'[c] \notin {"idle", "release"} => pc[c] \notin {"idle", "release"}
    BY <1>1
  <2>3. (pc'[c] \in Preparing <=> pc[c] \in Preparing) /\ (pc'[c] \in Committing <=> pc[c] \in Committing)
    BY <1>1
  <2> QED
    BY <1>3, <2>1, <2>2, <2>3 DEF Named
<1>5. FirstLeg(c)'
  <2>1. pc'[c] \in Preparing \cup {"acquire", "begin", "expire", "dryBoth"} =>
          pc[c] \in Preparing \cup {"acquire", "begin", "expire", "dryBoth"}
    BY <1>1
  <2> QED
    BY <1>3, <2>1 DEF FirstLeg
<1>6. Ordered(c)'
  <2>1. SUFFICES ASSUME pc'[c] \in Committing, job'[c].i = 2 PROVE Status(job[c].o, 1)' \in Finished
    BY DEF Ordered, Committing, Finished, Status, Request
  <2>2. pc[c] \in Committing /\ job[c].o \in Ops /\ 1 \in Legs
    BY <1>1, <1>3, <2>1 DEF Named, Legs
  <2>3. Status(job[c].o, 1) \in Finished
    BY <1>3, <2>1, <2>2 DEF Ordered
  <2>4. Status(job[c].o, 1)' \in Finished
    BY <2>2, <2>3, EvolvedStatus DEF Forth, Finished, Unresolved
  <2> QED
    BY <2>4
<1>7. Saw(c)'
  <2>1. pc'[c] \in {"prepare", "insert"} => pc'[c] = pc[c]
    BY <1>1 DEF Preparing
  <2> QED
    BY <1>3, <2>1 DEF Saw
<1> QED
  BY <1>4, <1>5, <1>6, <1>7

LEMMA GoingCall ==
  ASSUME TypeOK, OpsInv, Evolves, NEW c \in Calls, CallInv(c),
         pc'[c] = pc[c] \/ (pc[c] \in Committing /\ pc'[c] \in Committing),
         /\ job'[c].kind = job[c].kind /\ job'[c].o = job[c].o /\ job'[c].parent = job[c].parent
         /\ job'[c].i = job[c].i /\ job'[c].seen = job[c].seen,
         pc'[c] \in PreSend => pc[c] \in PreSend /\ sends'[Mine(c)] = sends[Mine(c)],
         pc'[c] \in {"begin", "expire", "dryBoth"} => pc[c] \in {"begin", "expire", "dryBoth"}
  PROVE  CallInv(c)'
<1>1. Named(c)' /\ FirstLeg(c)' /\ Ordered(c)' /\ Saw(c)'
  BY GoingSubject
<1>2. Claims(c)'
  <2>1. SUFFICES ASSUME pc'[c] \in PreSend
                 PROVE  attempt'[Mine(c)].status \notin {"NONE", "PREPARED"} /\ sends'[Mine(c)] = 0
    BY DEF Claims, Mine, PreSend
  <2>2. Mine(c) \in Requests
    <3>1. job[c].i \in Legs /\ Named(c) /\ pc[c] \notin {"idle", "release"}
      BY <2>1, Parts DEF CallTypes, Jobs, CallInv, PreSend
    <3> QED
      BY <3>1 DEF Named, Mine, Requests
  <2> QED
    BY <2>1, <2>2 DEF CallInv, Claims, Evolves, AttemptsMove, Forth, Unresolved
<1> QED
  BY <1>1, <1>2 DEF CallInv
----------------------------------------------------------------------------
(* What a step does to the call that takes it.                               *)

\* The claim is kept from the step before, or has just been made.
Carries(c) ==
  pc'[c] \in PreSend =>
    job'[c] = job[c] /\ (pc[c] \in PreSend \/ attempt[Mine(c)].status = "PREPARED")

LEMMA RestingCall ==
  ASSUME NEW c \in Calls, pc'[c] \in {"idle", "release"} PROVE CallInv(c)' /\ Carries(c)
BY DEF CallInv, Named, FirstLeg, Ordered, Claims, Saw, Carries, Preparing, Committing, PreSend, Steps

LEMMA LeftCall == ASSUME TypeOK, NEW c \in Calls, Leave(c) PROVE CallInv(c)' /\ Carries(c)
<1>1. pc'[c] = "release"
  BY Parts DEF Leave, Go, CallTypes
<1> QED
  BY <1>1, RestingCall

Early == {"begin", "expire", "dryBoth"}

LEMMA ContinuedCall ==
  ASSUME TypeOK, OpsInv, Evolves, NEW c \in Calls, CallInv(c), pc[c] \in Committing,
         NEW p \in Committing, Continue(c, p),
         p \in PreSend => pc[c] \in PreSend /\ UNCHANGED sends,
         p \in Early => pc[c] \in Early
  PROVE  CallInv(c)' /\ Carries(c)
<1>1. pc'[c] = p /\ job' = job
  BY Parts DEF Continue, Go, CallTypes
<1>2. CallInv(c)'
  BY <1>1, GoingCall DEF Early
<1> QED
  BY <1>1, <1>2 DEF Carries

\* Entering and preparing.
LEMMA EntryCall ==
  ASSUME TypeOK, OpsInv, NEW c \in Calls, CallInv(c),
         Start(c) \/ Acquire(c) \/ ReleaseLease(c) \/ Crash(c) \/ Check(c) \/ ReadLegs(c) \/ Insert(c)
  PROVE  CallInv(c)' /\ Carries(c)
<1>0. pc \in [Calls -> Steps] /\ job \in [Calls -> Jobs]
  BY Parts DEF CallTypes
<1>1. CASE ReleaseLease(c) \/ Crash(c)
  <2>1. pc'[c] = "idle"
    BY <1>0, <1>1 DEF ReleaseLease, Crash, Continue, Go
  <2> QED
    BY <2>1, RestingCall
<1>2. CASE Insert(c)
  BY <1>2, LeftCall DEF Insert
<1>3. CASE Start(c)
  <2>1. PICK k \in Kinds, o \in Ops, p \in Ops \cup {None} :
          /\ k = "commit" => op[o].made /\ p = None
          /\ k = "prepare" => p = None /\ ~op[o].made
          /\ k = "retry" => p # None /\ p # o /\ op[p].made /\ op[p].parent = None
          /\ job' = [job EXCEPT ![c] = [NoJob EXCEPT !.kind = k, !.o = o, !.parent = p]]
    BY <1>3 DEF Start
  <2>2. job'[c] = [NoJob EXCEPT !.kind = k, !.o = o, !.parent = p]
    BY <1>0, <2>1
  <2>3. job'[c].kind = k /\ job'[c].o = o /\ job'[c].parent = p /\ job'[c].i = 1
    BY <2>2 DEF NoJob
  <2>4. pc'[c] = "acquire" /\ UNCHANGED op
    BY <1>0, <1>3 DEF Start, Go, dbVars
  <2>5. k \in AllKinds
    BY <2>1, KindsAssumption
  <2>6. Named(c)'
    BY <2>1, <2>3, <2>4, <2>5 DEF Named, Preparing, Committing, Steps, AllKinds
  <2> QED
    BY <2>3, <2>4, <2>6 DEF CallInv, FirstLeg, Ordered, Claims, Saw, Carries, Preparing, Committing,
       PreSend, Steps
<1>4. CASE Acquire(c)
  <2>1. CASE Leave(c)
    BY <2>1, LeftCall
  <2>2. CASE Continue(c, IF job[c].kind = "commit" THEN "begin" ELSE "check")
    <3>1. pc'[c] = (IF job[c].kind = "commit" THEN "begin" ELSE "check") /\ job' = job /\ UNCHANGED op
      BY <1>0, <1>4, <2>2 DEF Continue, Go, Acquire, dbVars
    <3>2. pc[c] = "acquire" /\ job[c].i = 1 /\ Named(c)
      BY <1>4 DEF Acquire, CallInv, FirstLeg
    <3>3. Named(c)'
      BY <3>1, <3>2 DEF Named, Preparing, Committing, Steps
    <3> QED
      BY <3>1, <3>2, <3>3 DEF CallInv, FirstLeg, Ordered, Claims, Saw, Carries, Preparing,
         Committing, PreSend, Steps
  <2> QED
    BY <1>4, <2>1, <2>2 DEF Acquire
<1>5. CASE Check(c)
  <2>1. CASE Leave(c)
    BY <2>1, LeftCall
  <2>2. CASE ~Leave(c)
    <3> DEFINE s == IF job[c].kind = "retry" THEN Sight(job[c].parent)
                    ELSE [i \in Legs |-> [status |-> "NONE", row |-> row[i].status,
                                          rev |-> row[i].rev, token |-> row[i].token]]
    <3>1. /\ pc'[c] = "prepare" /\ job'[c] = [job[c] EXCEPT !.seen = s] /\ UNCHANGED op
          /\ pc[c] = "check"
          /\ job[c].kind = "retry" => Retryable(job[c].parent)
      BY <1>0, <1>5, <2>2 DEF Check, Go, dbVars
    <3>2. /\ job'[c].kind = job[c].kind /\ job'[c].o = job[c].o /\ job'[c].parent = job[c].parent
          /\ job'[c].i = job[c].i /\ job'[c].seen = s
      BY <1>0, <3>1 DEF Jobs
    <3>3. Named(c) /\ job[c].i = 1
      BY <3>1 DEF CallInv, FirstLeg, Preparing
    <3>4. Named(c)'
      BY <3>1, <3>2, <3>3 DEF Named, Preparing, Committing, Steps
    <3>5. CASE job[c].kind = "retry"
      <4>1. \A i \in Legs : s[i].status \in RetryableParent \cup {"VERIFIED"}
        BY <3>1, <3>5 DEF Retryable, Sight
      <4> HIDE DEF s
      <4> QED
        BY <3>1, <3>2, <3>3, <3>4, <3>5, <4>1 DEF CallInv, FirstLeg, Ordered, Claims, Saw, Carries,
           Preparing, Committing, PreSend, Steps, RetryableParent
    <3>6. CASE job[c].kind # "retry"
      <4>1. \A i \in Legs : s[i].status = "NONE"
        BY <3>6
      <4> HIDE DEF s
      <4> QED
        BY <3>1, <3>2, <3>3, <3>4, <3>6, <4>1 DEF CallInv, FirstLeg, Ordered, Claims, Saw, Carries,
           Preparing, Committing, PreSend, Steps
    <3> QED
      BY <3>5, <3>6
  <2> QED
    BY <2>1, <2>2
<1>6. CASE ReadLegs(c)
  <2>1. CASE Leave(c)
    BY <2>1, LeftCall
  <2>2. CASE ~Leave(c)
    <3>1. /\ pc[c] = "prepare" /\ pc'[c] = "insert" /\ job' = job /\ UNCHANGED op
          /\ \A i \in Legs : job[c].seen[i].status # "VERIFIED" => job[c].seen[i].row = "PENDING"
      BY <1>0, <1>6, <2>2 DEF ReadLegs, Continue, Go, dbVars
    <3>2. Named(c) /\ job[c].i = 1 /\ Saw(c)
      BY <3>1 DEF CallInv, FirstLeg, Preparing
    <3>3. Named(c)'
      BY <3>1, <3>2 DEF Named, Preparing, Committing, Steps
    <3>4. Saw(c)'
      BY <3>1, <3>2 DEF Saw, RetryableParent
    <3> QED
      BY <3>1, <3>2, <3>3, <3>4 DEF CallInv, FirstLeg, Ordered, Claims, Carries, Preparing,
         Committing, PreSend, Steps
  <2> QED
    BY <2>1, <2>2
<1> QED
  BY <1>1, <1>2, <1>3, <1>4, <1>5, <1>6

\* A finished leg is passed over.
LEMMA ForwardCall ==
  ASSUME TypeOK, OpsInv, Evolves, NEW c \in Calls, CallInv(c), pc[c] \in {"leg", "next"},
         MyStatus(c) \in Finished, Forward(c)
  PROVE  CallInv(c)' /\ Carries(c)
<1>1. CASE Leave(c)
  BY <1>1, LeftCall
<1>2. CASE ~Leave(c)
  <2>1. /\ job[c].i = 1 /\ pc'[c] = "leg" /\ job'[c] = [job[c] EXCEPT !.i = 2] /\ job[c] \in Jobs
    BY <1>2, Parts DEF Forward, Go, CallTypes
  <2>2. /\ job'[c].kind = job[c].kind /\ job'[c].o = job[c].o /\ job'[c].parent = job[c].parent
        /\ job'[c].i = 2
    BY <2>1 DEF Jobs
  <2>3. Named(c) /\ pc[c] \in Committing
    BY DEF CallInv, Committing, Preparing, Steps
  <2>4. job[c].o \in Ops /\ op[job[c].o].made /\ 1 \in Legs
    BY <2>3 DEF Named, Committing, Legs
  <2>5. Named(c)'
    <3>1. \A o \in Ops : op'[o].made = op[o].made /\ op'[o].parent = op[o].parent
      BY DEF Evolves, OpsStay
    <3>2. pc[c] \notin {"idle", "release"}
      BY <2>3 DEF Committing
    <3> QED
      BY <2>1, <2>2, <2>3, <2>4, <3>1, <3>2 DEF Named, Preparing
  <2>6. Status(job[c].o, 1) \in Finished
    BY <2>1 DEF MyStatus, MyRequest, Status
  <2>7. Status(job[c].o, 1)' \in Finished
    BY <2>2, <2>4, <2>6, EvolvedStatus DEF Forth, Finished, Unresolved
  <2>8. Ordered(c)'
    BY <2>7 DEF Ordered, Finished
  <2> QED
    BY <2>1, <2>2, <2>5, <2>8 DEF CallInv, FirstLeg, Claims, Saw, Carries, Preparing, PreSend
<1> QED
  BY <1>1, <1>2

\* A call that is about the same request goes on.
LEMMA SameCall ==
  ASSUME TypeOK, OpsInv, Evolves, NEW c \in Calls, CallInv(c), pc[c] \in Committing,
         pc'[c] \in Committing \ (PreSend \cup Early), NEW j \in Jobs, job' = [job EXCEPT ![c] = j],
         j.kind = job[c].kind, j.o = job[c].o, j.parent = job[c].parent, j.i = job[c].i,
         j.seen = job[c].seen
  PROVE  CallInv(c)' /\ Carries(c)
<1>1. job'[c] = j
  BY Parts DEF CallTypes
<1>2. CallInv(c)'
  BY <1>1, GoingCall DEF Early
<1> QED
  BY <1>2 DEF Carries

LEMMA CommitCall ==
  ASSUME TypeOK, OpsInv, SentOnce, NEW c \in Calls, CallInv(c), Evolves,
         \/ Begin(c) \/ ExpirePrepared(c) \/ Leg(c) \/ AfterLeg(c) \/ Park(c) \/ FinalizeDryRun(c)
         \/ Read(c) \/ Claim(c) \/ Refresh(c) \/ Recheck(c) \/ Reprove(c) \/ Strict(c) \/ Unclaim(c)
  PROVE  CallInv(c)' /\ Carries(c)
<1>0. /\ {"begin", "expire", "dryBoth", "leg", "park", "dry", "read", "claim", "refresh", "recheck",
          "reprove", "strict", "undry", "unclaim", "send", "next", "rload"} \subseteq Committing
      /\ Early = {"begin", "expire", "dryBoth"}
      /\ PreSend = {"refresh", "recheck", "reprove", "strict", "undry", "unclaim", "send"}
  BY DEF Committing, Preparing, Steps, Early, PreSend
<1>1. ASSUME NEW p \in Committing, Continue(c, p), pc[c] \in Committing,
             p \in PreSend => pc[c] \in PreSend /\ UNCHANGED sends,
             p \in Early => pc[c] \in Early
      PROVE  CallInv(c)' /\ Carries(c)
  BY <1>1, ContinuedCall
<1>2. CASE Begin(c)
  <2>1. /\ pc[c] = "begin"
        /\ \/ Leave(c) \/ Continue(c, "expire") \/ Continue(c, "leg") \/ Continue(c, "park")
           \/ Continue(c, "dryBoth")
    BY <1>2 DEF Begin
  <2> QED
    BY <1>0, <1>1, <2>1, LeftCall
<1>3. CASE ExpirePrepared(c)
  <2>1. pc[c] = "expire" /\ (Leave(c) \/ Continue(c, "begin"))
    BY <1>3 DEF ExpirePrepared
  <2> QED
    BY <1>0, <1>1, <2>1, LeftCall
<1>4. CASE Leg(c)
  <2>1. /\ pc[c] = "leg"
        /\ \/ Leave(c) \/ Continue(c, "rload") \/ Continue(c, "park") \/ Continue(c, "dry")
           \/ Continue(c, "read") \/ (Forward(c) /\ MyStatus(c) \in Finished)
    BY <1>4 DEF Leg
  <2> QED
    BY <1>0, <1>1, <2>1, LeftCall, ForwardCall
<1>5. CASE AfterLeg(c)
  <2>1. pc[c] = "next" /\ (Leave(c) \/ (Forward(c) /\ MyStatus(c) \in Finished))
    BY <1>5 DEF AfterLeg
  <2> QED
    BY <2>1, LeftCall, ForwardCall
<1>6. CASE Park(c) \/ Unclaim(c)
  BY <1>6, LeftCall DEF Park, Unclaim
<1>7. CASE FinalizeDryRun(c)
  <2>1. /\ pc[c] \in {"dryBoth", "dry", "undry"}
        /\ \/ Leave(c) \/ (Continue(c, "next") /\ pc[c] = "dry") \/ Continue(c, "leg")
           \/ (Continue(c, "read") /\ pc[c] = "dry") \/ (Continue(c, "unclaim") /\ pc[c] = "undry")
        /\ UNCHANGED sends
    BY <1>7 DEF FinalizeDryRun, qboVars
  <2> QED
    BY <1>0, <1>1, <2>1, LeftCall
<1>8. CASE Read(c)
  <2>1. pc[c] = "read" /\ (Leave(c) \/ Continue(c, "claim") \/ Continue(c, "park"))
    BY <1>8 DEF Read
  <2> QED
    BY <1>0, <1>1, <2>1, LeftCall
<1>9. CASE Refresh(c) \/ Recheck(c) \/ Reprove(c) \/ Strict(c)
  <2>1. /\ pc[c] \in {"refresh", "recheck", "reprove", "strict"} /\ UNCHANGED sends
        /\ \/ Leave(c) \/ Continue(c, "recheck") \/ Continue(c, "reprove") \/ Continue(c, "strict")
           \/ Continue(c, "unclaim") \/ Continue(c, "undry") \/ Continue(c, "send")
    BY <1>9 DEF Refresh, Recheck, Reprove, Strict, Disproved, qboVars
  <2> QED
    BY <1>0, <1>1, <2>1, LeftCall
<1>10. CASE Claim(c)
  <2>1. CASE Leave(c) \/ Continue(c, "park")
    <3>1. pc[c] = "claim"
      BY <1>10 DEF Claim
    <3> QED
      BY <1>0, <1>1, <2>1, <3>1, LeftCall
  <2>2. CASE ~(Leave(c) \/ Continue(c, "park"))
    <3> DEFINE r == MyRequest(c)
    <3>1. /\ pc[c] = "claim" /\ attempt[r].status = "PREPARED" /\ Continue(c, "refresh")
          /\ attempt' = [attempt EXCEPT ![r].status = "COMMITTING"] /\ UNCHANGED sends
      BY <1>10, <2>2 DEF Claim, qboVars
    <3>2. /\ r \in Requests /\ job[c].o \in Ops /\ job[c].i \in Legs /\ op[job[c].o].made
          /\ r = Request(job[c].o, job[c].i)
      BY <1>0, <3>1, MyRequestTypes DEF CallInv, Named, MyRequest
    <3>3. r = Mine(c)
      BY <3>1, <3>2 DEF OpsInv, Request, Mine
    <3>4. pc'[c] = "refresh" /\ job' = job /\ attempt \in [Requests -> Attempts]
      BY <3>1, Parts DEF Continue, Go, CallTypes, TableTypes
    <3>5. Named(c)' /\ FirstLeg(c)' /\ Ordered(c)' /\ Saw(c)'
      BY <1>0, <3>1, <3>4, GoingSubject
    <3>6. attempt'[r].status = "COMMITTING" /\ sends'[r] = 0
      BY <3>1, <3>2, <3>4 DEF SentOnce, Attempts
    <3>7. Claims(c)'
      BY <3>3, <3>4, <3>6 DEF Claims, Mine
    <3> HIDE DEF r
    <3> QED
      BY <3>1, <3>3, <3>4, <3>5, <3>7 DEF CallInv, Carries
  <2> QED
    BY <2>1, <2>2
<1> QED
  BY <1>2, <1>3, <1>4, <1>5, <1>6, <1>7, <1>8, <1>9, <1>10

LEMMA AfterSendCall ==
  ASSUME TypeOK, OpsInv, NEW c \in Calls, CallInv(c), Evolves,
         \/ Send(c) \/ Answer(c) \/ Accept(c) \/ ReadBack(c) \/ Verify(c) \/ MarkUncertain(c)
         \/ RLoad(c) \/ RRead(c) \/ RVerify(c) \/ RUnchanged(c) \/ Heartbeat(c)
  PROVE  CallInv(c)' /\ Carries(c)
<1>0. /\ {"send", "sent", "accept", "readback", "verify", "uncertain", "next", "rload", "rread",
          "rverify", "runchanged"} \subseteq Committing
      /\ {"sent", "accept", "readback", "verify", "uncertain", "next", "rread",
          "rverify", "runchanged"} \cap (PreSend \cup Early) = {}
      /\ pc \in [Calls -> Steps] /\ job \in [Calls -> Jobs]
  BY Parts DEF Committing, Preparing, Steps, Early, PreSend, CallTypes
<1>1. ASSUME NEW p \in Committing \ (PreSend \cup Early), Continue(c, p), pc[c] \in Committing
      PROVE  CallInv(c)' /\ Carries(c)
  BY <1>1, ContinuedCall
<1>2. CASE Send(c) \/ Answer(c) \/ Verify(c) \/ RVerify(c) \/ RUnchanged(c) \/ MarkUncertain(c)
  <2>1. /\ pc[c] \in {"send", "sent", "verify", "rverify", "runchanged", "uncertain"}
        /\ \/ Leave(c) \/ Continue(c, "sent") \/ Continue(c, "uncertain") \/ Continue(c, "accept")
           \/ Continue(c, "next")
    BY <1>2 DEF Send, Answer, Verify, RVerify, RUnchanged, MarkUncertain
  <2> QED
    BY <1>0, <1>1, <2>1, LeftCall
<1>3. CASE Accept(c)
  <2>1. pc[c] = "accept" /\ pc'[c] \in {"readback", "uncertain"}
    BY <1>0, <1>3 DEF Accept, Go
  <2> DEFINE j == [job[c] EXCEPT !.response = TRUE]
  <2>2. job' = [job EXCEPT ![c] = j]
    BY <1>3 DEF Accept
  <2>3. /\ j \in Jobs /\ j.kind = job[c].kind /\ j.o = job[c].o /\ j.parent = job[c].parent
        /\ j.i = job[c].i /\ j.seen = job[c].seen
    BY <1>0 DEF Jobs
  <2> HIDE DEF j
  <2> QED
    BY <1>0, <2>1, <2>2, <2>3, SameCall
<1>4. CASE ReadBack(c) \/ RRead(c)
  <2>1. pc[c] \in {"readback", "rread"}
    BY <1>4 DEF ReadBack, RRead
  <2>2. CASE Leave(c) \/ Continue(c, "uncertain") \/ Continue(c, "runchanged")
    BY <1>0, <1>1, <2>1, <2>2, LeftCall
  <2>3. CASE ~(Leave(c) \/ Continue(c, "uncertain") \/ Continue(c, "runchanged"))
    <3> DEFINE j == [job[c] EXCEPT !.token = qbo[job[c].i].token]
    <3>1. job' = [job EXCEPT ![c] = j] /\ pc'[c] \in {"verify", "rverify"}
      BY <1>0, <1>4, <2>3 DEF ReadBack, RRead, Go
    <3>2. qbo[job[c].i].token \in Nat
      BY <2>1, MyRequestTypes DEF CallInv
    <3>3. /\ j \in Jobs /\ j.kind = job[c].kind /\ j.o = job[c].o /\ j.parent = job[c].parent
          /\ j.i = job[c].i /\ j.seen = job[c].seen
      BY <1>0, <3>2 DEF Jobs
    <3> HIDE DEF j
    <3> QED
      BY <1>0, <2>1, <3>1, <3>3, SameCall
  <2> QED
    BY <2>2, <2>3
<1>5. CASE RLoad(c)
  <2>1. pc[c] = "rload"
    BY <1>5 DEF RLoad
  <2>2. CASE Leave(c) \/ Continue(c, "next")
    BY <1>0, <1>1, <2>1, <2>2, LeftCall
  <2>3. CASE ~(Leave(c) \/ Continue(c, "next"))
    <3> DEFINE r == MyRequest(c)
               b == r \in quiet
               j == [job[c] EXCEPT !.quiet = b, !.status = attempt[r].status,
                                   !.response = attempt[r].response]
    <3>1. job' = [job EXCEPT ![c] = j] /\ pc'[c] = "rread"
      BY <1>0, <1>5, <2>3 DEF RLoad, Go
    <3>2. attempt[r] \in Attempts
      BY <2>1, MyRequestTypes DEF CallInv
    <3>3. b \in BOOLEAN
      OBVIOUS
    <3> HIDE DEF b
    <3>4. /\ j \in Jobs /\ j.kind = job[c].kind /\ j.o = job[c].o /\ j.parent = job[c].parent
          /\ j.i = job[c].i /\ j.seen = job[c].seen
      <4>1. attempt[r].status \in AttemptStatus /\ attempt[r].response \in BOOLEAN /\ job[c] \in Jobs
        BY <1>0, <3>2 DEF Attempts
      <4>2. j \in Jobs
        BY <3>3, <4>1 DEF Jobs
      <4> QED
        BY <4>1, <4>2 DEF Jobs
    <3> HIDE DEF j
    <3> QED
      BY <1>0, <2>1, <3>1, <3>4, SameCall
  <2> QED
    BY <2>2, <2>3
<1>6. CASE Heartbeat(c)
  <2>1. pc'[c] = pc[c] /\ job'[c] = job[c] /\ UNCHANGED sends
    BY <1>6 DEF Heartbeat, qboVars
  <2>2. CallInv(c)'
    BY <2>1, GoingCall
  <2> QED
    BY <2>1, <2>2 DEF Carries
<1> QED
  BY <1>2, <1>3, <1>4, <1>5, <1>6

LEMMA OwnCall ==
  ASSUME TypeOK, OpsInv, SentOnce, NEW c \in Calls, CallInv(c), CallStep(c)
  PROVE  CallInv(c)' /\ Carries(c)
<1>1. Named(c)
  BY DEF CallInv
<1>2. CASE Insert(c)
  BY <1>2, EntryCall
<1>3. CASE ~Insert(c)
  <2>1. Evolves
    BY <1>1, <1>3, CallEvolves
  <2> QED
    BY <2>1, <1>3, EntryCall, CommitCall, AfterSendCall DEF CallStep
<1> QED
  BY <1>2, <1>3

\* A step of c leaves every other call where it is.
OthersStay(c) ==
  \A d \in Calls \ {c} : pc'[d] = pc[d] /\ job'[d] = job[d] /\ (d \in lost' <=> d \in lost)

LEMMA LeaveFrame == ASSUME TypeOK, NEW c \in Calls, Leave(c) PROVE OthersStay(c)
BY Parts DEF Leave, Go, OthersStay, CallTypes

LEMMA ContinueFrame == ASSUME TypeOK, NEW c \in Calls, NEW p, Continue(c, p) PROVE OthersStay(c)
BY Parts DEF Continue, Go, OthersStay, CallTypes

LEMMA GoFrame ==
  ASSUME TypeOK, NEW c \in Calls, NEW p, Go(c, p), NEW j, job' = [job EXCEPT ![c] = j], UNCHANGED lost
  PROVE  OthersStay(c)
BY Parts DEF Go, OthersStay, CallTypes

LEMMA CallFrame == ASSUME TypeOK, NEW c \in Calls, CallStep(c) PROVE OthersStay(c)
<1>1. ASSUME \/ Leave(c) \/ (\E p : Continue(c, p))
             \/ \E p, j : Go(c, p) /\ job' = [job EXCEPT ![c] = j] /\ UNCHANGED lost
      PROVE  OthersStay(c)
  BY <1>1, LeaveFrame, ContinueFrame, GoFrame
<1>2. CASE Start(c) \/ Acquire(c) \/ ReleaseLease(c) \/ Check(c) \/ ReadLegs(c) \/ Insert(c)
  <2>1. CASE Start(c)
    <3>1. UNCHANGED lost /\ Go(c, "acquire") /\ \E j : job' = [job EXCEPT ![c] = j]
      BY <2>1 DEF Start
    <3> QED
      BY <3>1, GoFrame
  <2>2. CASE Check(c)
    <3>1. Leave(c) \/ (UNCHANGED lost /\ Go(c, "prepare") /\ \E j : job' = [job EXCEPT ![c] = j])
      BY <2>2 DEF Check
    <3> QED
      BY <3>1, GoFrame, LeaveFrame
  <2> QED
    BY <1>1, <1>2, <2>1, <2>2 DEF Acquire, ReleaseLease, ReadLegs, Insert
<1>3. CASE Crash(c)
  BY <1>3, Parts DEF Crash, Go, OthersStay, CallTypes
<1>4. ASSUME Forward(c) PROVE OthersStay(c)
  <2>1. Leave(c) \/ (UNCHANGED lost /\ Go(c, "leg") /\ \E j : job' = [job EXCEPT ![c] = j])
    BY <1>4 DEF Forward
  <2> QED
    BY <2>1, GoFrame, LeaveFrame
<1>5. CASE \/ Begin(c) \/ ExpirePrepared(c) \/ Leg(c) \/ AfterLeg(c) \/ Park(c) \/ FinalizeDryRun(c)
           \/ Read(c) \/ Claim(c) \/ Refresh(c) \/ Recheck(c) \/ Reprove(c) \/ Strict(c) \/ Unclaim(c)
           \/ Send(c) \/ Answer(c) \/ Verify(c) \/ MarkUncertain(c) \/ RVerify(c) \/ RUnchanged(c)
  <2>1. CASE Begin(c)
    BY <1>1, <2>1 DEF Begin
  <2>2. CASE Leg(c) \/ AfterLeg(c)
    BY <1>1, <1>4, <2>2 DEF Leg, AfterLeg
  <2>3. CASE FinalizeDryRun(c)
    BY <1>1, <2>3 DEF FinalizeDryRun
  <2>4. CASE Recheck(c) \/ Reprove(c) \/ Strict(c)
    BY <1>1, <2>4 DEF Recheck, Reprove, Disproved, Strict
  <2>5. CASE ExpirePrepared(c) \/ Park(c) \/ Read(c) \/ Claim(c) \/ Refresh(c) \/ Unclaim(c)
    BY <1>1, <2>5 DEF ExpirePrepared, Park, Read, Claim, Refresh, Unclaim
  <2>6. CASE Send(c) \/ Answer(c) \/ Verify(c) \/ MarkUncertain(c) \/ RVerify(c) \/ RUnchanged(c)
    BY <1>1, <2>6 DEF Send, Answer, Verify, MarkUncertain, RVerify, RUnchanged
  <2> QED
    BY <1>5, <2>1, <2>2, <2>3, <2>4, <2>5, <2>6
<1>6. CASE Accept(c) \/ ReadBack(c) \/ RRead(c) \/ RLoad(c)
  <2>1. CASE Accept(c)
    BY <2>1, Parts DEF Accept, Go, OthersStay, CallTypes
  <2>2. \/ Leave(c) \/ (\E p : Continue(c, p)) \/ Accept(c)
        \/ \E p : Go(c, p) /\ UNCHANGED lost /\ \E j : job' = [job EXCEPT ![c] = j]
    BY <1>6 DEF ReadBack, RRead, RLoad
  <2> QED
    BY <2>1, <2>2, GoFrame, LeaveFrame, ContinueFrame
<1>7. CASE Heartbeat(c)
  BY <1>7 DEF Heartbeat, OthersStay
<1> QED
  BY <1>2, <1>3, <1>5, <1>6, <1>7 DEF CallStep
----------------------------------------------------------------------------
(* An insertion.                                                             *)

\* Operation o is added, a retry of p unless p is None.
Adds(o, p) ==
  /\ ~op[o].made /\ op'[o].made /\ op'[o].parent = p
  /\ \A q \in Ops \ {o} : op'[q] = op[q]
  /\ p # None => p \in Ops \ {o} /\ op[p].made /\ op[p].parent = None
  /\ \A r \in Requests : r[1] # o => attempt'[r] = attempt[r]
  /\ \A i \in Legs :
       \/ /\ attempt'[<<o, i>>].status = "PREPARED"
          /\ \A q \in Ops : attempt[<<q, i>>].status \notin Live
       \/ /\ attempt'[<<o, i>>].status = "NONE"
          /\ p # None /\ attempt[<<p, i>>].status = "VERIFIED"

LEMMA PendingIsFree ==
  ASSUME RowTellsOutcome, NEW i \in Legs, row[i].status = "PENDING", NoneActive(i)
  PROVE  \A q \in Ops : attempt[<<q, i>>].status \notin Live
<1>1. /\ "VERIFIED" \notin {attempt[<<q, i>>].status : q \in Ops}
      /\ "DRY_RUN" \notin {attempt[<<q, i>>].status : q \in Ops}
  BY DEF RowTellsOutcome
<1> QED
  BY <1>1 DEF NoneActive, Live, Finished

LEMMA InsertAdds ==
  ASSUME TypeOK, OpsInv, RowTellsOutcome, NEW c \in Calls, CallInv(c), Insert(c),
         ~UNCHANGED <<op, attempt>>
  PROVE  Adds(job[c].o, job[c].parent)
<1> DEFINE j == job[c]
           new == {i \in Legs : j.seen[i].status # "VERIFIED"}
           made(r) == [NoAttempt EXCEPT !.status = "PREPARED", !.rev = j.seen[r[2]].rev,
                                        !.token = j.seen[r[2]].token]
<1>1. /\ pc[c] = "insert" /\ ~op[j.o].made
      /\ op' = [op EXCEPT ![j.o] = [made |-> TRUE, parent |-> j.parent, expired |-> FALSE]]
      /\ attempt' = [r \in Requests |-> IF r[1] = j.o /\ r[2] \in new THEN made(r) ELSE attempt[r]]
      /\ j.kind = "retry" => Sight(j.parent) = j.seen
      /\ j.kind # "retry" => Preparable
      /\ \A i \in new : NoneActive(i)
  BY DEF Insert
<1>2. Named(c) /\ Saw(c) /\ j \in Jobs
  BY Parts DEF CallInv, CallTypes
<1>3. /\ j.o \in Ops
      /\ j.kind = "retry" => /\ j.parent \in Ops \ {j.o}
                             /\ op[j.parent].made /\ op[j.parent].parent = None
      /\ j.kind # "retry" => j.parent = None
  BY <1>1, <1>2 DEF Named
<1>4. op'[j.o].made /\ op'[j.o].parent = j.parent /\ \A q \in Ops \ {j.o} : op'[q] = op[q]
  BY <1>1, <1>3, Parts DEF OpTypes
<1>5. \A r \in Requests : r[1] # j.o => attempt'[r] = attempt[r]
  BY <1>1
<1>6. ASSUME NEW i \in Legs
      PROVE  \/ /\ attempt'[<<j.o, i>>].status = "PREPARED"
                /\ \A q \in Ops : attempt[<<q, i>>].status \notin Live
             \/ /\ attempt'[<<j.o, i>>].status = "NONE"
                /\ j.parent # None /\ attempt[<<j.parent, i>>].status = "VERIFIED"
  <2>1. <<j.o, i>> \in Requests
    BY <1>3 DEF Requests
  <2>2. CASE i \in new
    <3>1. attempt'[<<j.o, i>>] = made(<<j.o, i>>)
      BY <1>1, <2>1, <2>2
    <3>2. attempt'[<<j.o, i>>].status = "PREPARED"
      BY <3>1 DEF NoAttempt
    <3>3. row[i].status = "PENDING"
      <4>1. CASE j.kind = "retry"
        <5>1. j.seen[i].row = "PENDING" /\ Sight(j.parent)[i].row = row[i].status
          BY <1>1, <1>2, <2>2, <4>1 DEF Saw, Sight
        <5> QED
          BY <1>1, <4>1, <5>1
      <4>2. CASE j.kind # "retry"
        BY <1>1, <4>2 DEF Preparable
      <4> QED
        BY <4>1, <4>2
    <3>4. NoneActive(i)
      BY <1>1, <2>2
    <3> QED
      BY <3>2, <3>3, <3>4, PendingIsFree
  <2>3. CASE i \notin new
    <3>1. j.seen[i].status = "VERIFIED" /\ attempt'[<<j.o, i>>] = attempt[<<j.o, i>>]
      BY <1>1, <2>1, <2>3
    <3>2. j.kind = "retry"
      BY <1>1, <1>2, <3>1 DEF Saw
    <3>3. Sight(j.parent)[i].status = Status(j.parent, i)
      BY DEF Sight
    <3>4. Status(j.parent, i) = attempt[<<j.parent, i>>].status
      BY <1>3, <3>2 DEF Status, Request
    <3>5. attempt[<<j.parent, i>>].status = "VERIFIED"
      <4>1. Sight(j.parent)[i] = j.seen[i]
        BY <1>1, <3>2
      <4> QED
        BY <3>1, <3>3, <3>4, <4>1
    <3> QED
      <4>0. ~op[j.o].made /\ j.o \in Ops
        BY <1>1, <1>3
      <4>1. attempt[<<j.o, i>>].status = "NONE"
        BY <4>0 DEF OpsInv
      <4>2. j.parent # None
        BY <1>3, <3>2, NoneAssumption
      <4> QED
        BY <3>1, <3>5, <4>1, <4>2
  <2> QED
    BY <2>2, <2>3
<1> HIDE DEF new, made
<1> QED
  BY <1>1, <1>3, <1>4, <1>5, <1>6, NoneAssumption DEF Adds

\* Nothing changes for the other operations.
LEMMA AddsStatus ==
  ASSUME TypeOK, OpsInv, NEW o \in Ops, NEW p, Adds(o, p)
  PROVE  /\ \A q \in Ops \ {o}, i \in Legs :
              /\ Request(q, i)' = Request(q, i) /\ Status(q, i)' = Status(q, i)
              /\ op'[q] = op[q] /\ attempt'[<<q, i>>] = attempt[<<q, i>>]
         /\ \A i \in Legs : /\ Status(o, i)' \in {"PREPARED", "VERIFIED"}
                            /\ Status(o, i)' = "PREPARED" => attempt'[<<o, i>>].status = "PREPARED"
                            /\ attempt[<<o, i>>].status = "NONE"
<1>1. ASSUME NEW q \in Ops \ {o}, NEW i \in Legs
      PROVE  /\ Request(q, i)' = Request(q, i) /\ Status(q, i)' = Status(q, i)
             /\ op'[q] = op[q] /\ attempt'[<<q, i>>] = attempt[<<q, i>>]
  <2>1. op'[q] = op[q] /\ attempt'[<<q, i>>] = attempt[<<q, i>>]
    BY DEF Adds, Requests
  <2>2. Request(q, i)' = Request(q, i)
    BY <2>1 DEF Request
  <2>3. CASE Request(q, i) = <<q, i>>
    BY <2>1, <2>2, <2>3 DEF Status
  <2>4. CASE Request(q, i) # <<q, i>>
    <3>1. op[q].parent # None /\ Request(q, i) = <<op[q].parent, i>> /\ op[q].parent \in Ops
      BY <2>4, Parts DEF Request, OpTypes
    <3>2. op[op[q].parent].made /\ ~op[o].made
      BY <3>1 DEF OpsInv, Adds
    <3>3. attempt'[<<op[q].parent, i>>] = attempt[<<op[q].parent, i>>]
      BY <3>1, <3>2 DEF Adds, Requests
    <3> QED
      BY <2>1, <2>2, <3>1, <3>3 DEF Status
  <2> QED
    BY <2>1, <2>2, <2>3, <2>4
<1>2. ASSUME NEW i \in Legs
      PROVE  /\ Status(o, i)' \in {"PREPARED", "VERIFIED"}
             /\ Status(o, i)' = "PREPARED" => attempt'[<<o, i>>].status = "PREPARED"
             /\ attempt[<<o, i>>].status = "NONE"
  <2>1. attempt[<<o, i>>].status = "NONE"
    BY DEF OpsInv, Adds
  <2>2. CASE attempt'[<<o, i>>].status = "PREPARED"
    BY <2>1, <2>2 DEF Status, Request
  <2>3. CASE attempt'[<<o, i>>].status # "PREPARED"
    <3>1. /\ attempt'[<<o, i>>].status = "NONE" /\ p # None /\ attempt[<<p, i>>].status = "VERIFIED"
          /\ p \in Ops \ {o} /\ op'[o].parent = p
      BY <2>3 DEF Adds
    <3>2. attempt'[<<p, i>>] = attempt[<<p, i>>]
      BY <3>1 DEF Adds, Requests
    <3> QED
      BY <2>1, <3>1, <3>2 DEF Status, Request
  <2> QED
    BY <2>2, <2>3
<1> QED
  BY <1>1, <1>2

LEMMA AddsInv ==
  ASSUME TypeOK, OpsInv, OneLive, SentOnce, FirstSettled, SecondAfterFirst, RowTellsOutcome,
         NothingLeftBehind, NEW o \in Ops, NEW p, Adds(o, p), UNCHANGED <<row, sends>>
  PROVE  /\ OpsInv' /\ OneLive' /\ SentOnce' /\ FirstSettled' /\ SecondAfterFirst'
         /\ RowTellsOutcome' /\ NothingLeftBehind'
<1>0. /\ \A q \in Ops \ {o}, i \in Legs :
           /\ Request(q, i)' = Request(q, i) /\ Status(q, i)' = Status(q, i)
           /\ op'[q] = op[q] /\ attempt'[<<q, i>>] = attempt[<<q, i>>]
      /\ \A i \in Legs : /\ Status(o, i)' \in {"PREPARED", "VERIFIED"}
                         /\ Status(o, i)' = "PREPARED" => attempt'[<<o, i>>].status = "PREPARED"
                         /\ attempt[<<o, i>>].status = "NONE"
      /\ 1 \in Legs /\ 2 \in Legs
  BY AddsStatus DEF Legs
<1>1. OpsInv'
  <2>1. ASSUME NEW q \in Ops
        PROVE  /\ ~op'[q].made => /\ op'[q].parent = None
                                  /\ \A i \in Legs : attempt'[<<q, i>>].status = "NONE"
               /\ op'[q].made => \A i \in Legs :
                    attempt'[<<q, i>>].status = "NONE" =>
                      op'[q].parent # None /\ attempt'[<<op'[q].parent, i>>].status = "VERIFIED"
               /\ op'[q].parent # None =>
                    op'[op'[q].parent].made /\ op'[op'[q].parent].parent = None
    <3>1. CASE q = o
      <4>1. op'[o].made /\ op'[o].parent = p
        BY DEF Adds
      <4>2. p # None => /\ p \in Ops \ {o} /\ op'[p] = op[p] /\ op[p].made /\ op[p].parent = None
                        /\ \A i \in Legs : attempt'[<<p, i>>] = attempt[<<p, i>>]
        BY <1>0 DEF Adds
      <4>3. \A i \in Legs : attempt'[<<o, i>>].status = "NONE" =>
                              p # None /\ attempt[<<p, i>>].status = "VERIFIED"
        BY DEF Adds
      <4> QED
        BY <3>1, <4>1, <4>2, <4>3
    <3>2. CASE q # o
      <4>1. op'[q] = op[q] /\ \A i \in Legs : attempt'[<<q, i>>] = attempt[<<q, i>>]
        BY <1>0, <3>2
      <4>2. CASE op[q].parent = None
        <5>1. ~op[q].made => \A i \in Legs : attempt[<<q, i>>].status = "NONE"
          BY DEF OpsInv
        <5>2. op[q].made => \A i \in Legs : attempt[<<q, i>>].status # "NONE"
          BY <4>2 DEF OpsInv
        <5> QED
          BY <4>1, <4>2, <5>1, <5>2
      <4>3. CASE op[q].parent # None
        <5>1. op[q].parent \in Ops \ {o}
          BY <4>3, Parts DEF OpsInv, OpTypes, Adds
        <5>2. /\ op'[op[q].parent] = op[op[q].parent]
              /\ \A i \in Legs : attempt'[<<op[q].parent, i>>] = attempt[<<op[q].parent, i>>]
          BY <1>0, <5>1
        <5> QED
          BY <4>1, <4>3, <5>2 DEF OpsInv
      <4> QED
        BY <4>2, <4>3
    <3> QED
      BY <3>1, <3>2
  <2> QED
    BY <2>1 DEF OpsInv
<1>2. OneLive'
  <2>1. \A i \in Legs, q \in Ops : attempt'[<<q, i>>].status \in Live =>
          \/ attempt[<<q, i>>].status \in Live
          \/ q = o /\ \A s \in Ops : attempt[<<s, i>>].status \notin Live
    <3>1. TAKE i \in Legs, q \in Ops
    <3>2. CASE q = o
      <4>1. "NONE" \notin Live
        BY DEF Live, Active, Finished
      <4> QED
        BY <3>2, <4>1 DEF Adds
    <3>3. CASE q # o
      BY <1>0, <3>3
    <3> QED
      BY <3>2, <3>3
  <2>2. \A i \in Legs, q, s \in Ops :
          attempt'[<<q, i>>].status \in Live /\ attempt'[<<s, i>>].status \in Live => q = s
    BY <2>1 DEF OneLive
  <2> QED
    BY <2>2 DEF OneLive, Live, Active, Finished
<1>3. SentOnce'
  <2>1. \A r \in Requests : attempt'[r].status \in {"NONE", "PREPARED"} =>
                              attempt[r].status \in {"NONE", "PREPARED"}
    BY <1>0 DEF Requests
  <2> QED
    BY <2>1 DEF SentOnce
<1>4. FirstSettled' /\ SecondAfterFirst'
  <2>1. \A q \in Ops : Status(q, 2)' \in Unresolved => Status(q, 1)' \in Finished
    <3>1. TAKE q \in Ops
    <3>2. CASE q = o
      BY <1>0, <3>2 DEF Unresolved
    <3>3. CASE q # o
      BY <1>0, <3>3 DEF FirstSettled
    <3> QED
      BY <3>2, <3>3
  <2>2. \A q \in Ops : sends[<<q, 2>>] > 0 => Status(q, 1)' \in Finished
    <3>1. TAKE q \in Ops
    <3>2. CASE q = o
      <4>1. <<o, 2>> \in Requests
        BY <1>0 DEF Requests
      <4> QED
        BY <1>0, <3>2, <4>1 DEF SentOnce
    <3>3. CASE q # o
      BY <1>0, <3>3 DEF SecondAfterFirst
    <3> QED
      BY <3>2, <3>3
  <2> QED
    BY <2>1, <2>2 DEF FirstSettled, SecondAfterFirst, Finished, Unresolved
<1>5. RowTellsOutcome'
  <2>1. ASSUME NEW i \in Legs, NEW s \in {"VERIFIED", "DRY_RUN", "UNCERTAIN"}
        PROVE  s \in {attempt'[<<q, i>>].status : q \in Ops} <=> s \in {attempt[<<q, i>>].status : q \in Ops}
    <3>1. attempt'[<<o, i>>].status # s /\ attempt[<<o, i>>].status # s
      BY <1>0, <2>1 DEF Adds
    <3>2. \A q \in Ops : attempt'[<<q, i>>].status = s <=> attempt[<<q, i>>].status = s
      BY <1>0, <3>1
    <3> QED
      BY <3>2
  <2> QED
    BY <2>1 DEF RowTellsOutcome
<1>6. NothingLeftBehind'
  <2>1. ASSUME NEW q \in Ops, op'[q].made, Status(q, 1)' \in RetryableParent
        PROVE  Status(q, 2)' \notin Active \/ (Status(q, 2)' = "PREPARED" /\ op'[q].expired)
    <3>1. q # o
      BY <1>0, <2>1 DEF RetryableParent
    <3> QED
      <4>1. /\ op'[q] = op[q] /\ Status(q, 1)' = Status(q, 1) /\ Status(q, 2)' = Status(q, 2)
        BY <1>0, <3>1
      <4>2. op[q].made /\ Status(q, 1) \in RetryableParent =>
              Status(q, 2) \notin Active \/ (Status(q, 2) = "PREPARED" /\ op[q].expired)
        BY DEF NothingLeftBehind
      <4> QED
        BY <2>1, <4>1, <4>2
  <2> QED
    BY <2>1 DEF NothingLeftBehind, RetryableParent, Active
<1> QED
  BY <1>1, <1>2, <1>3, <1>4, <1>5, <1>6

\* The other calls are about operations that exist, or about none yet.
LEMMA AddsCall ==
  ASSUME TypeOK, OpsInv, NEW o \in Ops, NEW p, Adds(o, p), UNCHANGED sends,
         NEW d \in Calls, CallInv(d), pc'[d] = pc[d], job'[d] = job[d]
  PROVE  CallInv(d)'
<1>0. /\ \A q \in Ops \ {o}, i \in Legs :
           /\ Status(q, i)' = Status(q, i)
           /\ op'[q] = op[q] /\ attempt'[<<q, i>>] = attempt[<<q, i>>]
      /\ 1 \in Legs /\ PreSend \subseteq Committing
      /\ Preparing \cap Committing = {} /\ {"idle", "release", "acquire"} \cap Committing = {}
  <2>1. /\ 1 \in Legs /\ PreSend \subseteq Committing
        /\ Preparing \cap Committing = {} /\ {"idle", "release", "acquire"} \cap Committing = {}
    BY DEF Legs, PreSend, Committing, Preparing, Steps
  <2>2. \A q \in Ops \ {o}, i \in Legs :
          /\ Status(q, i)' = Status(q, i)
          /\ op'[q] = op[q] /\ attempt'[<<q, i>>] = attempt[<<q, i>>]
    BY AddsStatus
  <2> QED
    BY <2>1, <2>2
<1>1. Named(d) /\ FirstLeg(d) /\ Ordered(d) /\ Claims(d) /\ Saw(d)
  BY DEF CallInv
<1>2. \A q \in Ops : op[q].made => q # o /\ op'[q] = op[q]
  BY <1>0 DEF Adds
<1>3. Named(d)'
  <2>1. op'[o].made
    BY DEF Adds
  <2> QED
    BY <1>1, <1>2, <2>1 DEF Named, Preparing, Committing, Steps
<1>4. FirstLeg(d)' /\ Saw(d)'
  BY <1>1 DEF FirstLeg, Saw, Preparing, RetryableParent
<1>5. Ordered(d)' /\ Claims(d)'
  <2>1. CASE pc[d] \notin Committing
    BY <1>0, <2>1 DEF Ordered, Claims, Committing, PreSend
  <2>2. CASE pc[d] \in Committing
    <3>1. job[d].o \in Ops \ {o} /\ job[d].i \in Legs
      BY <1>0, <1>1, <1>2, <2>2, Parts DEF Named, CallTypes, Jobs
    <3>2. PICK q \in Ops \ {o} : job[d].o = q
      BY <3>1
    <3>3. Ordered(d)'
      <4>1. Status(q, 1)' = Status(q, 1)
        BY <1>0
      <4>2. pc[d] \in Committing /\ job[d].i = 2 => Status(q, 1) \in Finished
        BY <1>1, <3>2 DEF Ordered
      <4>3. pc'[d] \in Committing /\ job'[d].i = 2 => Status(q, 1)' \in Finished
        BY <3>2, <4>1, <4>2
      <4>4. job'[d].o = q
        BY <3>2
      <4> QED
        BY <4>3, <4>4 DEF Ordered, Committing, Finished, Status, Request
    <3>4. attempt'[Mine(d)] = attempt[Mine(d)] /\ Mine(d)' = Mine(d)
      BY <1>0, <3>1 DEF Mine
    <3>5. Claims(d)'
      BY <1>1, <3>4 DEF Claims, PreSend
    <3> QED
      BY <3>3, <3>5
  <2> QED
    BY <2>1, <2>2
<1> QED
  BY <1>3, <1>4, <1>5 DEF CallInv
----------------------------------------------------------------------------
(* The order of the legs and the rows, while attempts move forward.          *)

\* What an operation inherits is verified: any other attempt of it is its own.
LEMMA OwnRequest ==
  ASSUME TypeOK, OpsInv, NEW o \in Ops, op[o].made, NEW i \in Legs,
         attempt[Request(o, i)].status # "VERIFIED"
  PROVE  Request(o, i) = <<o, i>>
<1>1. SUFFICES ASSUME op[o].parent # None, attempt[<<o, i>>].status = "NONE" PROVE FALSE
  BY DEF Request
<1>2. Request(o, i) = <<op[o].parent, i>>
  BY <1>1 DEF Request
<1>3. attempt[<<op[o].parent, i>>].status = "VERIFIED"
  BY <1>1 DEF OpsInv
<1> QED
  BY <1>2, <1>3

LEMMA SameOperation ==
  ASSUME TypeOK, OpsInv, NEW o \in Ops, NEW q \in Ops, op[o].made, op[q].made,
         NEW i \in Legs, NEW j \in Legs, Request(o, i) = Request(q, j), Status(o, i) # "VERIFIED"
  PROVE  o = q /\ i = j
<1>1. Request(o, i) = <<o, i>> /\ Request(q, j) = <<q, j>>
  BY OwnRequest DEF Status
<1>2. <<o, i>> = <<q, j>>
  BY <1>1
<1> QED
  BY <1>2

LEMMA UnmadeHasNone ==
  ASSUME TypeOK, OpsInv, NEW o \in Ops, NEW i \in Legs, ~op[o].made PROVE Status(o, i) = "NONE"
BY DEF OpsInv, Status, Request

LEMMA EvolvedOrder ==
  ASSUME TypeOK, OpsInv, FirstSettled, \A c \in Calls : CallInv(c), Evolves
  PROVE  FirstSettled'
<1>1. \A o \in Ops, i \in Legs :
        /\ Request(o, i)' = Request(o, i) /\ Request(o, i) \in Requests
        /\ Status(o, i)' = Status(o, i) \/ Forth(Status(o, i), Status(o, i)')
  BY EvolvedStatus
<1>2. 1 \in Legs /\ 2 \in Legs
  BY DEF Legs
<1>3. ASSUME NEW o \in Ops, Status(o, 2)' \in Unresolved PROVE Status(o, 1)' \in Finished
  <2>1. SUFFICES Status(o, 1) \in Finished
    BY <1>1, <1>2 DEF Forth, Finished, Unresolved
  <2>2. CASE Status(o, 2) \in Unresolved
    BY <2>2 DEF FirstSettled
  <2>3. CASE Status(o, 2) \notin Unresolved
    <3>1. Status(o, 2) = "PREPARED" /\ Status(o, 2)' = "COMMITTING"
      BY <1>1, <1>2, <1>3, <2>3 DEF Forth, Unresolved
    <3> DEFINE r == Request(o, 2)
    <3>2. attempt[r].status = "PREPARED" /\ attempt'[r].status = "COMMITTING" /\ r \in Requests
      BY <1>1, <1>2, <3>1 DEF Status
    <3>3. PICK c \in Calls : pc[c] = "claim" /\ MyRequest(c) = r
      BY <3>2 DEF Evolves, ClaimsMove
    <3>4. Named(c) /\ Ordered(c) /\ pc[c] \in Committing /\ job[c].i \in Legs
      BY <3>3, Parts DEF CallInv, Committing, Preparing, Steps, CallTypes, Jobs
    <3>5. job[c].o \in Ops /\ op[job[c].o].made
      BY <3>3, <3>4 DEF Named
    <3>6. op[o].made
      BY <1>2, <3>1, UnmadeHasNone
    <3>7. job[c].o = o /\ job[c].i = 2
      BY <1>2, <3>1, <3>3, <3>4, <3>5, <3>6, SameOperation DEF MyRequest
    <3> QED
      BY <3>4, <3>7 DEF Ordered
  <2> QED
    BY <2>2, <2>3
<1> QED
  BY <1>3 DEF FirstSettled, Finished, Unresolved

LEMMA EvolvedSecond ==
  ASSUME TypeOK, OpsInv, SecondAfterFirst, Evolves,
         \A o \in Ops : sends'[<<o, 2>>] # sends[<<o, 2>>] => Status(o, 1) \in Finished
  PROVE  SecondAfterFirst'
<1>1. \A o \in Ops : Status(o, 1) \in Finished => Status(o, 1)' \in Finished
  BY EvolvedStatus DEF Forth, Finished, Unresolved, Legs
<1>2. \A o \in Ops : sends'[<<o, 2>>] > 0 => Status(o, 1)' \in Finished
  BY <1>1 DEF SecondAfterFirst
<1> QED
  BY <1>2 DEF SecondAfterFirst, Finished

LEMMA EvolvedSent ==
  ASSUME TypeOK, SentOnce, Evolves,
         \A r \in Requests : attempt[r].status \in {"NONE", "PREPARED"} => sends'[r] = sends[r]
  PROVE  SentOnce'
<1>1. \A r \in Requests : attempt'[r].status \in {"NONE", "PREPARED"} =>
                            attempt[r].status \in {"NONE", "PREPARED"}
  BY DEF Evolves, AttemptsMove, Forth, Unresolved
<1> QED
  BY <1>1 DEF SentOnce

\* The story of one leg.
LegTells(i) ==
  /\ row[i].status = "POSTED" <=> \E o \in Ops : attempt[<<o, i>>].status = "VERIFIED"
  /\ row[i].status = "DRY_RUN" <=> \E o \in Ops : attempt[<<o, i>>].status = "DRY_RUN"
  /\ row[i].status = "ERROR" <=> \E o \in Ops : attempt[<<o, i>>].status = "UNCERTAIN"

LEMMA Telling == RowTellsOutcome <=> \A i \in Legs : LegTells(i)
<1>1. ASSUME NEW i \in Legs, NEW s
      PROVE  s \in {attempt[<<o, i>>].status : o \in Ops} <=> \E o \in Ops : attempt[<<o, i>>].status = s
  OBVIOUS
<1>2. \A i \in Legs, s \in {"VERIFIED", "DRY_RUN", "UNCERTAIN"} :
        s \in {attempt[<<o, i>>].status : o \in Ops} <=> \E o \in Ops : attempt[<<o, i>>].status = s
  BY <1>1
<1> QED
  BY <1>2 DEF RowTellsOutcome, LegTells

LEMMA TellingAfter == (\A i \in Legs : LegTells(i)') => RowTellsOutcome'
<1>1. ASSUME NEW i \in Legs, NEW s
      PROVE  s \in {attempt'[<<o, i>>].status : o \in Ops} <=> \E o \in Ops : attempt'[<<o, i>>].status = s
  OBVIOUS
<1>2. \A i \in Legs, s \in {"VERIFIED", "DRY_RUN", "UNCERTAIN"} :
        s \in {attempt'[<<o, i>>].status : o \in Ops} <=> \E o \in Ops : attempt'[<<o, i>>].status = s
  BY <1>1
<1> QED
  BY <1>2 DEF RowTellsOutcome, LegTells

Told == {"VERIFIED", "DRY_RUN", "UNCERTAIN"}

LEMMA LegKeeps ==
  ASSUME NEW i \in Legs, LegTells(i), row'[i].status = row[i].status,
         \A o \in Ops : \/ attempt'[<<o, i>>].status = attempt[<<o, i>>].status
                        \/ attempt[<<o, i>>].status \notin Told /\ attempt'[<<o, i>>].status \notin Told
  PROVE  LegTells(i)'
<1>1. \A s \in Told : (\E o \in Ops : attempt'[<<o, i>>].status = s)
                        <=> \E o \in Ops : attempt[<<o, i>>].status = s
  OBVIOUS
<1> QED
  BY <1>1 DEF LegTells, Told

Tale(s) == CASE s = "VERIFIED" -> "POSTED" [] s = "DRY_RUN" -> "DRY_RUN"
             [] s = "UNCERTAIN" -> "ERROR" [] OTHER -> "PENDING"

LEMMA LegChanges ==
  ASSUME TypeOK, OneLive, Evolves, NEW i \in Legs, NEW q \in Ops, attempt[<<q, i>>].status \in Active,
         attempt'[<<q, i>>].status \in Told \cup {"UNCHANGED"},
         row'[i].status = Tale(attempt'[<<q, i>>].status)
  PROVE  LegTells(i)'
<1>1. ASSUME NEW o \in Ops \ {q} PROVE attempt'[<<o, i>>].status \notin Told
  <2>1. attempt[<<o, i>>].status \notin Live /\ <<o, i>> \in Requests
    BY DEF OneLive, Live, Requests
  <2> QED
    BY <2>1 DEF Evolves, AttemptsMove, Forth, Live, Active, Finished, Unresolved, Told
<1>2. \A s \in Told : (\E o \in Ops : attempt'[<<o, i>>].status = s) <=> attempt'[<<q, i>>].status = s
  BY <1>1
<1> QED
  BY <1>2 DEF LegTells, Told, Tale

\* The rows, step by step.
LEMMA FinalizedTells ==
  ASSUME TypeOK, OpsInv, OneLive, NEW c \in Calls, Named(c), pc[c] \in Committing, Finalized(c),
         attempt[MyRequest(c)].status \in Unresolved, UNCHANGED op, RowTellsOutcome
  PROVE  RowTellsOutcome'
<1> DEFINE r == MyRequest(c)
           i == job[c].i
<1>1. /\ job[c].o \in Ops /\ i \in Legs /\ r \in Requests /\ op[job[c].o].made
      /\ r = Request(job[c].o, i)
  BY MyRequestTypes DEF Named, Committing, MyRequest
<1>2. r = <<job[c].o, i>>
  BY <1>1, OwnRequest DEF Unresolved
<1>3. /\ attempt' = [attempt EXCEPT ![r] = [@ EXCEPT !.status = "VERIFIED", !.new = job[c].token,
                                                     !.response = TRUE]]
      /\ row' = [row EXCEPT ![i] = [@ EXCEPT !.status = "POSTED", !.token = job[c].token]]
      /\ attempt \in [Requests -> Attempts] /\ row \in [Legs -> Rows]
  BY Parts DEF Finalized, TableTypes
<1>4. Evolves /\ attempt'[r].status = "VERIFIED"
  BY FinalizedEvolves DEF Committing
<1>5. ASSUME NEW k \in Legs, k = i PROVE LegTells(k)'
  <2>1. row'[i].status = "POSTED"
    BY <1>1, <1>3 DEF Rows
  <2> HIDE DEF i, r
  <2>2. attempt[<<job[c].o, i>>].status \in Active
    BY <1>2 DEF Active, Unresolved, r
  <2> QED
    BY <1>1, <1>2, <1>4, <1>5, <2>1, <2>2, LegChanges DEF Told, Tale
<1>6. ASSUME NEW k \in Legs \ {i} PROVE LegTells(k)'
  <2>1. row'[k] = row[k] /\ LegTells(k)
    BY <1>3, Telling
  <2>2. \A o \in Ops : attempt'[<<o, k>>] = attempt[<<o, k>>]
    BY <1>2, <1>3 DEF Requests
  <2> QED
    BY <2>1, <2>2, LegKeeps
<1> HIDE DEF i, r
<1> QED
  BY <1>5, <1>6, TellingAfter

\* Statuses that tell nothing of a row come and go freely.
LEMMA GivenUpTells ==
  ASSUME RowTellsOutcome, NEW i \in Legs, UNCHANGED row,
         NEW rs, NEW from, from \cap Told = {}, attempt' = Moved(rs, from, "RETRYABLE"), TypeOK
  PROVE  LegTells(i)'
<1>1. LegTells(i)
  BY Telling
<1>2. ASSUME NEW o \in Ops
      PROVE  \/ attempt'[<<o, i>>].status = attempt[<<o, i>>].status
             \/ attempt[<<o, i>>].status \notin Told /\ attempt'[<<o, i>>].status \notin Told
  <2>1. <<o, i>> \in Requests /\ attempt[<<o, i>>] \in Attempts
    BY Parts DEF Requests, TableTypes
  <2> QED
    BY <2>1 DEF Moved, Attempts, Told
<1> QED
  BY <1>1, <1>2, LegKeeps

LEMMA MarkUncertainTells ==
  ASSUME TypeOK, OpsInv, OneLive, RowTellsOutcome, NEW c \in Calls, Named(c), MarkUncertain(c), Evolves
  PROVE  RowTellsOutcome'
<1> DEFINE r == MyRequest(c)
           i == job[c].i
<1>1. /\ job[c].o \in Ops /\ i \in Legs /\ r \in Requests /\ op[job[c].o].made
      /\ r = Request(job[c].o, i)
  BY MyRequestTypes DEF Named, Committing, MyRequest, MarkUncertain, Steps, Preparing
<1>2. attempt \in [Requests -> Attempts] /\ row \in [Legs -> Rows]
  BY Parts DEF TableTypes
<1>3. CASE UNCHANGED <<attempt, row>>
  BY <1>3, Telling, TellingAfter, LegKeeps
<1>4. CASE ~UNCHANGED <<attempt, row>>
  <2>1. /\ attempt[r].status = "COMMITTING"
        /\ attempt' = [attempt EXCEPT ![r] =
             [@ EXCEPT !.status = "UNCERTAIN", !.response = attempt[r].response \/ job[c].response]]
        /\ row' = [row EXCEPT ![i].status = "ERROR"]
    BY <1>4 DEF MarkUncertain
  <2>2. r = <<job[c].o, i>>
    BY <1>1, <2>1, OwnRequest
  <2>3. ASSUME NEW k \in Legs, k = i PROVE LegTells(k)'
    <3>1. row'[i].status = "ERROR" /\ attempt'[r].status = "UNCERTAIN"
      BY <1>1, <1>2, <2>1 DEF Rows, Attempts
    <3>2. attempt[<<job[c].o, i>>].status \in Active
      BY <2>1, <2>2 DEF Active
    <3> HIDE DEF i, r
    <3> QED
      BY <1>1, <2>2, <2>3, <3>1, <3>2, LegChanges DEF Told, Tale
  <2>4. ASSUME NEW k \in Legs \ {i} PROVE LegTells(k)'
    <3>1. row'[k] = row[k] /\ LegTells(k)
      BY <1>2, <2>1, Telling
    <3>2. \A o \in Ops : attempt'[<<o, k>>] = attempt[<<o, k>>]
      BY <1>2, <2>1, <2>2 DEF Requests
    <3> QED
      BY <3>1, <3>2, LegKeeps
  <2> HIDE DEF i, r
  <2> QED
    BY <2>3, <2>4, TellingAfter
<1> QED
  BY <1>3, <1>4

LEMMA RUnchangedTells ==
  ASSUME TypeOK, OpsInv, OneLive, RowTellsOutcome, NEW c \in Calls, Named(c), RUnchanged(c), Evolves
  PROVE  RowTellsOutcome'
<1> DEFINE r == MyRequest(c)
           i == job[c].i
           m == Moved(Own(job[c].o), {"PREPARED"}, "RETRYABLE")
<1>1. /\ job[c].o \in Ops /\ i \in Legs /\ r \in Requests /\ op[job[c].o].made
      /\ r = Request(job[c].o, i)
  BY MyRequestTypes DEF Named, Committing, MyRequest, RUnchanged, Steps, Preparing
<1>2. attempt \in [Requests -> Attempts] /\ row \in [Legs -> Rows]
  BY Parts DEF TableTypes
<1>3. CASE UNCHANGED <<attempt, row>>
  BY <1>3, Telling, TellingAfter, LegKeeps
<1>4. CASE ~UNCHANGED <<attempt, row>>
  <2>1. /\ attempt[r].status \in Unresolved
        /\ attempt' = [m EXCEPT ![r].status = "UNCHANGED"]
        /\ row' = [row EXCEPT ![i].status = "PENDING"]
    BY <1>4, GuardsStatus DEF RUnchanged
  <2>2. r = <<job[c].o, i>>
    BY <1>1, <2>1, OwnRequest DEF Unresolved
  <2>3. m \in [Requests -> Attempts]
    BY MovedTypes DEF AttemptStatus
  <2>4. \A q \in Requests : \/ m[q].status = attempt[q].status
                            \/ attempt[q].status = "PREPARED" /\ m[q].status = "RETRYABLE"
    <3>1. TAKE q \in Requests
    <3>2. m[q].status = IF q \in Own(job[c].o) /\ attempt[q].status \in {"PREPARED"}
                        THEN "RETRYABLE" ELSE attempt[q].status
      BY MovedStatus
    <3> HIDE DEF m
    <3> QED
      BY <3>2
  <2> HIDE DEF m
  <2>5. ASSUME NEW k \in Legs, k = i PROVE LegTells(k)'
    <3>1. row'[i].status = "PENDING" /\ attempt'[r].status = "UNCHANGED"
      BY <1>1, <1>2, <2>1, <2>3 DEF Rows, Attempts
    <3>2. attempt[<<job[c].o, i>>].status \in Active
      BY <2>1, <2>2 DEF Active, Unresolved
    <3> HIDE DEF i, r
    <3> QED
      BY <1>1, <2>2, <2>5, <3>1, <3>2, LegChanges DEF Told, Tale
  <2>6. ASSUME NEW k \in Legs \ {i} PROVE LegTells(k)'
    <3>1. row'[k] = row[k] /\ LegTells(k)
      BY <1>2, <2>1, Telling
    <3>2. \A o \in Ops : attempt'[<<o, k>>] = m[<<o, k>>] /\ <<o, k>> \in Requests
      BY <2>1, <2>2, <2>3 DEF Requests
    <3> QED
      BY <2>4, <3>1, <3>2, LegKeeps DEF Told
  <2> HIDE DEF i, r
  <2> QED
    BY <2>5, <2>6, TellingAfter
<1> QED
  BY <1>3, <1>4

\* What FinalizeDryRun does: nothing, give the legs up, or finish them as dry runs.
DryLegs(c) == CASE pc[c] = "dryBoth" -> Legs [] pc[c] = "dry" -> {job[c].i} [] OTHER -> job[c].i .. 2
DryRequests(c) == {Request(job[c].o, j) : j \in DryLegs(c)}
DryOpen(c) == {"PREPARED"} \cup (IF pc[c] = "undry" THEN {"COMMITTING"} ELSE {})

LEMMA FinalizeDryRunCases ==
  ASSUME NEW c \in Calls, FinalizeDryRun(c)
  PROVE  /\ UNCHANGED <<op, qboVars, lease, dryRun>> /\ pc[c] \in {"dryBoth", "dry", "undry"}
         /\ \/ UNCHANGED <<row, attempt>>
            \/ /\ op[job[c].o].expired /\ UNCHANGED row
               /\ attempt' = Moved(DryRequests(c), DryOpen(c), "RETRYABLE")
            \/ /\ attempt' = Moved(DryRequests(c), DryOpen(c), "DRY_RUN")
               /\ \A j \in DryLegs(c) : Status(job[c].o, j) \in DryOpen(c)
               /\ row' = [j \in Legs |-> IF j \in DryLegs(c) THEN [row[j] EXCEPT !.status = "DRY_RUN"]
                                         ELSE row[j]]
<1> DEFINE o == job[c].o
           i == job[c].i
           legs == CASE pc[c] = "dryBoth" -> Legs [] pc[c] = "dry" -> {i} [] OTHER -> i .. 2
           rs == {Request(o, j) : j \in legs}
           open == {"PREPARED"} \cup (IF pc[c] = "undry" THEN {"COMMITTING"} ELSE {})
           ok == /\ Fenced(c)
                 /\ Valid(o)
                 /\ \A j \in legs : Status(o, j) = "PREPARED" \/ (j = i /\ Status(o, j) \in open)
<1>1. /\ UNCHANGED <<op, qboVars, lease, dryRun>> /\ pc[c] \in {"dryBoth", "dry", "undry"}
      /\ \/ UNCHANGED <<row, attempt>>
         \/ op[o].expired /\ attempt' = Moved(rs, open, "RETRYABLE") /\ UNCHANGED row
         \/ /\ ok /\ attempt' = Moved(rs, open, "DRY_RUN")
            /\ row' = [j \in Legs |-> IF j \in legs THEN [row[j] EXCEPT !.status = "DRY_RUN"]
                                      ELSE row[j]]
  BY DEF FinalizeDryRun
<1>2. legs = DryLegs(c) /\ rs = DryRequests(c) /\ open = DryOpen(c)
  BY DEF DryLegs, DryRequests, DryOpen
<1>3. ok => \A j \in legs : Status(o, j) \in open
  OBVIOUS
<1> HIDE DEF legs, rs, open, ok
<1> QED
  BY <1>1, <1>2, <1>3

LEMMA DryLegsTypes ==
  ASSUME TypeOK, NEW c \in Calls PROVE DryLegs(c) \subseteq Legs
<1>1. job[c].i \in Legs
  BY Parts DEF CallTypes, Jobs
<1>2. \A i \in Legs : i .. 2 \subseteq Legs
  BY DEF Legs
<1> QED
  BY <1>1, <1>2 DEF DryLegs

LEMMA FinalizeDryRunTells ==
  ASSUME TypeOK, OpsInv, OneLive, RowTellsOutcome, NEW c \in Calls, Named(c), FinalizeDryRun(c), Evolves
  PROVE  RowTellsOutcome'
<1>1. job[c].o \in Ops /\ op[job[c].o].made /\ DryLegs(c) \subseteq Legs
  BY MyRequestTypes, DryLegsTypes, FinalizeDryRunCases DEF Named, Committing, Steps, Preparing
<1>2. attempt \in [Requests -> Attempts] /\ row \in [Legs -> Rows]
  BY Parts DEF TableTypes
<1>3. DryOpen(c) \subseteq {"PREPARED", "COMMITTING"}
  BY DEF DryOpen
<1>4. CASE UNCHANGED <<row, attempt>>
  BY <1>4, Telling, TellingAfter, LegKeeps
<1>5. CASE UNCHANGED row /\ attempt' = Moved(DryRequests(c), DryOpen(c), "RETRYABLE")
  <2>1. DryOpen(c) \cap Told = {}
    BY <1>3 DEF Told
  <2> QED
    BY <1>5, <2>1, GivenUpTells, TellingAfter
<1>6. CASE /\ attempt' = Moved(DryRequests(c), DryOpen(c), "DRY_RUN")
           /\ \A j \in DryLegs(c) : Status(job[c].o, j) \in DryOpen(c)
           /\ row' = [j \in Legs |-> IF j \in DryLegs(c) THEN [row[j] EXCEPT !.status = "DRY_RUN"]
                                     ELSE row[j]]
  <2>1. \A j \in DryLegs(c) : /\ Request(job[c].o, j) = <<job[c].o, j>>
                              /\ attempt[<<job[c].o, j>>].status \in DryOpen(c)
    <3>1. TAKE j \in DryLegs(c)
    <3>2. attempt[Request(job[c].o, j)].status \in DryOpen(c) /\ j \in Legs
      BY <1>1, <1>6 DEF Status
    <3>3. Request(job[c].o, j) = <<job[c].o, j>>
      BY <1>1, <1>3, <3>2, OwnRequest
    <3> QED
      BY <3>2, <3>3
  <2>2. ASSUME NEW k \in Legs, k \in DryLegs(c) PROVE LegTells(k)'
    <3>1. row'[k].status = "DRY_RUN"
      BY <1>2, <1>6, <2>2 DEF Rows
    <3>2. /\ <<job[c].o, k>> \in Requests /\ <<job[c].o, k>> \in DryRequests(c)
          /\ attempt[<<job[c].o, k>>].status \in DryOpen(c)
      BY <1>1, <2>1, <2>2 DEF DryRequests, Requests
    <3>3. attempt'[<<job[c].o, k>>] = [attempt[<<job[c].o, k>>] EXCEPT !.status = "DRY_RUN"]
      BY <1>6, <3>2 DEF Moved
    <3>4. attempt'[<<job[c].o, k>>].status = "DRY_RUN"
      BY <1>2, <3>2, <3>3 DEF Attempts
    <3>5. attempt[<<job[c].o, k>>].status \in Active
      BY <1>3, <3>2 DEF Active
    <3> QED
      BY <1>1, <3>1, <3>4, <3>5, LegChanges DEF Told, Tale
  <2>3. ASSUME NEW k \in Legs, k \notin DryLegs(c) PROVE LegTells(k)'
    <3>1. row'[k] = row[k] /\ LegTells(k)
      BY <1>6, <2>3, Telling
    <3>2. \A o \in Ops : attempt'[<<o, k>>] = attempt[<<o, k>>]
      <4>1. TAKE o \in Ops
      <4>2. <<o, k>> \in Requests
        BY DEF Requests
      <4>3. \A j \in DryLegs(c) : Request(job[c].o, j) # <<o, k>>
        <5>1. SUFFICES ASSUME NEW j \in DryLegs(c), <<job[c].o, j>> = <<o, k>> PROVE FALSE
          BY <2>1
        <5>2. j = k
          BY <5>1
        <5> QED
          BY <2>3, <5>2
      <4> QED
        BY <1>6, <4>2, <4>3 DEF Moved, DryRequests
    <3> QED
      BY <3>1, <3>2, LegKeeps
  <2> QED
    BY <2>2, <2>3, TellingAfter
<1> QED
  BY <1>4, <1>5, <1>6, FinalizeDryRunCases

LEMMA CallTells ==
  ASSUME TypeOK, OpsInv, OneLive, RowTellsOutcome, NEW c \in Calls, Named(c), CallStep(c),
         ~Insert(c), Evolves
  PROVE  RowTellsOutcome'
<1>1. CASE UNCHANGED <<row, attempt>>
  BY <1>1, Telling, TellingAfter, LegKeeps
<1>2. CASE ExpirePrepared(c) \/ Park(c) \/ Unclaim(c)
  <2>1. UNCHANGED row
    BY <1>2 DEF ExpirePrepared, Park, Unclaim, GiveUp
  <2>2. ASSUME NEW rs, NEW from, from \subseteq {"PREPARED", "COMMITTING"},
               attempt' = Moved(rs, from, "RETRYABLE")
        PROVE  RowTellsOutcome'
    <3>1. from \cap Told = {}
      BY <2>2 DEF Told
    <3> QED
      BY <2>1, <2>2, <3>1, GivenUpTells, TellingAfter
  <2>3. CASE ExpirePrepared(c) \/ Park(c)
    <3>1. PICK from \in {{}, {"PREPARED"}} : GiveUp(c, from)
      BY <2>3 DEF ExpirePrepared, Park
    <3> QED
      BY <1>1, <2>1, <2>2, <3>1 DEF GiveUp
  <2>4. CASE Unclaim(c)
    BY <1>1, <2>1, <2>2, <2>4 DEF Unclaim
  <2> QED
    BY <1>2, <2>3, <2>4
<1>3. CASE Claim(c) \/ Accept(c)
  <2>1. \A r \in Requests : \/ attempt'[r].status = attempt[r].status
                            \/ attempt[r].status \notin Told /\ attempt'[r].status \notin Told
    <3>1. MyRequest(c) \in Requests /\ attempt \in [Requests -> Attempts]
      BY <1>3, MyRequestTypes, Parts DEF Claim, Accept, TableTypes
    <3> QED
      BY <1>3, <3>1 DEF Claim, Accept, Told, Attempts
  <2>2. UNCHANGED row
    BY <1>3 DEF Claim, Accept
  <2> QED
    BY <2>1, <2>2, Telling, TellingAfter, LegKeeps DEF Requests
<1>4. CASE FinalizeDryRun(c) \/ MarkUncertain(c) \/ RUnchanged(c)
  BY <1>4, FinalizeDryRunTells, MarkUncertainTells, RUnchangedTells
<1>5. CASE Verify(c) \/ RVerify(c)
  <2>1. /\ pc[c] \in Committing /\ UNCHANGED op
        /\ UNCHANGED <<attempt, row>> \/ (Finalized(c) /\ attempt[MyRequest(c)].status \in Unresolved)
    BY <1>5, GuardsStatus DEF Verify, RVerify, Unresolved, Committing, Preparing, Steps
  <2> QED
    BY <1>1, <2>1, FinalizedTells
<1>6. CASE \/ Start(c) \/ Acquire(c) \/ ReleaseLease(c) \/ Crash(c) \/ Check(c) \/ ReadLegs(c)
           \/ Begin(c) \/ Leg(c) \/ AfterLeg(c) \/ Read(c) \/ Refresh(c) \/ Recheck(c)
           \/ Reprove(c) \/ Strict(c) \/ Send(c) \/ Answer(c) \/ ReadBack(c) \/ RLoad(c)
           \/ RRead(c) \/ Heartbeat(c)
  <2>1. UNCHANGED <<row, attempt>>
    BY <1>6 DEF Start, Acquire, ReleaseLease, Crash, Check, ReadLegs, Begin, Leg, AfterLeg, Read,
       Refresh, Recheck, Reprove, Strict, Send, Answer, ReadBack, RLoad, RRead, Heartbeat, dbVars
  <2> QED
    BY <1>1, <2>1
<1> QED
  BY <1>2, <1>3, <1>4, <1>5, <1>6 DEF CallStep
----------------------------------------------------------------------------
(* An operation given up is given up as a whole.                             *)

\* Request r is given up, or found unchanged, in this step.
Drops(r) == attempt'[r].status # attempt[r].status /\ attempt'[r].status \in RetryableParent

\* Only requests of q are dropped, and q keeps none waiting, unless it has expired.
Clears(q) ==
  /\ op[q].made
  /\ \A r \in Requests : Drops(r) => r \in Own(q)
  /\ op[q].expired \/ \A r \in Own(q) : attempt'[r].status # "PREPARED"

LEMMA LeftKeeps ==
  ASSUME TypeOK, OpsInv, NothingLeftBehind, FirstSettled', Evolves,
         (\A r \in Requests : ~Drops(r)) \/ \E q \in Ops : Clears(q)
  PROVE  NothingLeftBehind'
<1>0. 1 \in Legs /\ 2 \in Legs
  BY DEF Legs
<1>1. ASSUME NEW o \in Ops, op'[o].made, Status(o, 1)' \in RetryableParent
      PROVE  Status(o, 2)' \notin Active \/ (Status(o, 2)' = "PREPARED" /\ op'[o].expired)
  <2>0. /\ Request(o, 1)' = Request(o, 1) /\ Request(o, 1) \in Requests
        /\ Request(o, 2)' = Request(o, 2) /\ Request(o, 2) \in Requests
        /\ Status(o, 2)' = Status(o, 2) \/ Forth(Status(o, 2), Status(o, 2)')
        /\ Status(o, 1)' = Status(o, 1) \/ Forth(Status(o, 1), Status(o, 1)')
    BY <1>0, EvolvedStatus
  <2>1. op[o].made /\ (op[o].expired => op'[o].expired)
    BY <1>1 DEF Evolves, OpsStay
  <2>2. Status(o, 2)' \notin Unresolved
    <3>1. Status(o, 2)' \in Unresolved => Status(o, 1)' \in Finished
      BY DEF FirstSettled, Unresolved, Finished
    <3> QED
      BY <1>1, <3>1 DEF RetryableParent, Finished
  <2>3. SUFFICES ASSUME Status(o, 2)' = "PREPARED" PROVE op[o].expired
    BY <2>1, <2>2 DEF Active, Unresolved
  <2>4. Status(o, 2) = "PREPARED"
    BY <2>0, <2>3 DEF Forth
  <2>5. CASE Status(o, 1) \in RetryableParent
    BY <2>1, <2>4, <2>5 DEF NothingLeftBehind, Active
  <2>6. CASE Status(o, 1) \notin RetryableParent
    <3>1. Status(o, 1)' = attempt'[Request(o, 1)].status /\ Status(o, 2)' = attempt'[Request(o, 2)].status
      BY <2>0 DEF Status
    <3>2. Drops(Request(o, 1))
      BY <1>1, <2>6, <3>1 DEF Drops, Status
    <3>3. PICK q \in Ops : Clears(q)
      BY <2>0, <3>2
    <3>4. Request(o, 1) \in Own(q) /\ op[q].made
      BY <2>0, <3>2, <3>3 DEF Clears
    <3>5. PICK j \in Legs : Request(o, 1) = Request(q, j)
      BY <3>4 DEF Own
    <3>6. Status(o, 1) # "VERIFIED"
      BY <1>1, <2>0, <2>6 DEF Forth, Unresolved
    <3>7. o = q
      BY <1>0, <2>1, <3>4, <3>5, <3>6, SameOperation
    <3>8. Request(o, 2) \in Own(q)
      BY <1>0, <3>7 DEF Own
    <3> QED
      BY <2>3, <3>1, <3>3, <3>7, <3>8 DEF Clears
  <2> QED
    BY <2>5, <2>6
<1> QED
  BY <1>1 DEF NothingLeftBehind, RetryableParent, Active

LEMMA MovedClears ==
  ASSUME TypeOK, NEW q \in Ops, op[q].made, NEW rs, NEW from, attempt' = Moved(rs, from, "RETRYABLE"),
         rs \subseteq Own(q),
         op[q].expired \/ (\A r \in Own(q) : attempt[r].status = "PREPARED" => r \in rs /\ "PREPARED" \in from)
  PROVE  Clears(q)
<1>1. \A r \in Requests : attempt'[r].status = IF r \in rs /\ attempt[r].status \in from
                                               THEN "RETRYABLE" ELSE attempt[r].status
  BY MovedStatus
<1>2. Own(q) \subseteq Requests
  BY RequestTypes DEF Own
<1>3. \A r \in Requests : Drops(r) => r \in Own(q)
  BY <1>1 DEF Drops
<1>4. op[q].expired \/ \A r \in Own(q) : attempt'[r].status # "PREPARED"
  <2>1. SUFFICES ASSUME ~op[q].expired, NEW r \in Own(q) PROVE attempt'[r].status # "PREPARED"
    OBVIOUS
  <2>2. attempt[r].status = "PREPARED" => r \in rs /\ "PREPARED" \in from
    BY <2>1
  <2> QED
    BY <1>1, <1>2, <2>2
<1> QED
  BY <1>3, <1>4 DEF Clears

LEMMA CallLeaves ==
  ASSUME TypeOK, OpsInv, NothingLeftBehind, NEW c \in Calls, Named(c), CallStep(c), ~Insert(c),
         Evolves, FirstSettled'
  PROVE  NothingLeftBehind'
<1> DEFINE r == MyRequest(c)
           q == job[c].o
<1>0. ASSUME pc[c] \in Committing
      PROVE  /\ q \in Ops /\ op[q].made /\ r \in Requests /\ r \in Own(q) /\ attempt[r] \in Attempts
  BY <1>0, MyRequestTypes DEF Named, Committing, Own, MyRequest
<1>1. CASE UNCHANGED attempt
  BY <1>1, LeftKeeps DEF Drops
<1>2. CASE ExpirePrepared(c)
  <2>1. pc[c] \in Committing /\ (UNCHANGED attempt \/ attempt' = Moved(Own(q), {"PREPARED"}, "RETRYABLE"))
    BY <1>2 DEF ExpirePrepared, GiveUp, Committing, Preparing, Steps
  <2> QED
    BY <1>0, <1>1, <2>1, MovedClears, LeftKeeps
<1>3. CASE Park(c)
  <2>1. /\ pc[c] \in Committing
        /\ \/ UNCHANGED attempt
           \/ attempt' = Moved(Own(q), {"PREPARED"}, "RETRYABLE")
           \/ attempt' = Moved(Own(q), {}, "RETRYABLE")
    BY <1>3 DEF Park, GiveUp, Committing, Preparing, Steps
  <2>2. CASE attempt' = Moved(Own(q), {}, "RETRYABLE")
    <3>1. \A s \in Requests : ~Drops(s)
      BY <2>2, MovedStatus DEF Drops
    <3> QED
      BY <3>1, LeftKeeps
  <2> QED
    BY <1>0, <1>1, <2>1, <2>2, MovedClears, LeftKeeps
<1>4. CASE Unclaim(c)
  <2> DEFINE rs == {s \in Own(q) : attempt[s].status = "PREPARED" \/ s = r}
  <2>1. /\ pc[c] \in Committing
        /\ UNCHANGED attempt \/ attempt' = Moved(rs, {"PREPARED", "COMMITTING"}, "RETRYABLE")
    BY <1>4 DEF Unclaim, Committing, Preparing, Steps
  <2>2. rs \subseteq Own(q) /\ \A s \in Own(q) : attempt[s].status = "PREPARED" => s \in rs
    OBVIOUS
  <2> HIDE DEF rs
  <2> QED
    BY <1>0, <1>1, <2>1, <2>2, MovedClears, LeftKeeps
<1>5. CASE FinalizeDryRun(c)
  <2>1. pc[c] \in Committing /\ DryLegs(c) \subseteq Legs
    BY <1>5, FinalizeDryRunCases, DryLegsTypes DEF Committing, Preparing, Steps
  <2>2. DryRequests(c) \subseteq Own(q)
    BY <2>1 DEF DryRequests, Own
  <2>3. CASE op[q].expired /\ attempt' = Moved(DryRequests(c), DryOpen(c), "RETRYABLE")
    <3>1. Clears(q)
      BY <1>0, <2>1, <2>2, <2>3, MovedClears
    <3> QED
      BY <1>0, <2>1, <3>1, LeftKeeps
  <2>4. CASE attempt' = Moved(DryRequests(c), DryOpen(c), "DRY_RUN")
    <3>1. \A s \in Requests : ~Drops(s)
      BY <2>4, MovedStatus DEF Drops, RetryableParent
    <3> QED
      BY <3>1, LeftKeeps
  <2> QED
    BY <1>1, <1>5, <2>3, <2>4, FinalizeDryRunCases
<1>6. CASE RUnchanged(c) /\ ~UNCHANGED attempt
  <2> DEFINE m == Moved(Own(q), {"PREPARED"}, "RETRYABLE")
  <2>1. /\ pc[c] \in Committing /\ attempt' = [m EXCEPT ![r].status = "UNCHANGED"]
    BY <1>6 DEF RUnchanged, Committing, Preparing, Steps
  <2>2. m \in [Requests -> Attempts]
    BY MovedTypes DEF AttemptStatus
  <2>3. \A s \in Requests : m[s].status = IF s \in Own(q) /\ attempt[s].status \in {"PREPARED"}
                                          THEN "RETRYABLE" ELSE attempt[s].status
    BY MovedStatus
  <2> HIDE DEF m
  <2>4. \A s \in Requests : attempt'[s].status = IF s = r THEN "UNCHANGED" ELSE m[s].status
    BY <1>0, <2>1, <2>2 DEF Attempts
  <2>5. Own(q) \subseteq Requests
    BY RequestTypes, <1>0, <2>1 DEF Own
  <2> HIDE DEF r
  <2>6. \A s \in Requests : Drops(s) => s \in Own(q)
    BY <1>0, <2>1, <2>3, <2>4 DEF Drops
  <2>7. \A s \in Own(q) : attempt'[s].status # "PREPARED"
    BY <2>3, <2>4, <2>5
  <2>8. Clears(q)
    BY <1>0, <2>1, <2>6, <2>7 DEF Clears
  <2> QED
    BY <1>0, <2>1, <2>8, LeftKeeps
<1>7. CASE Claim(c) \/ Accept(c) \/ MarkUncertain(c) \/ Verify(c) \/ RVerify(c)
  <2>1. /\ pc[c] \in Committing
        /\ \/ UNCHANGED attempt
           \/ \E s \in {"COMMITTING", "VERIFIED", "UNCERTAIN"} :
                attempt'[r].status = s /\ \A t \in Requests \ {r} : attempt'[t] = attempt[t]
           \/ \A t \in Requests : attempt'[t].status = attempt[t].status
    <3>1. pc[c] \in Committing
      BY <1>7 DEF Claim, Accept, MarkUncertain, Verify, RVerify, Committing, Preparing, Steps
    <3>2. r \in Requests /\ attempt[r] \in Attempts /\ attempt \in [Requests -> Attempts]
      BY <1>0, <3>1, Parts DEF TableTypes
    <3> HIDE DEF r, q
    <3>3. CASE Claim(c)
      BY <3>1, <3>2, <3>3 DEF Claim, Attempts, r
    <3>4. CASE Accept(c)
      BY <3>1, <3>2, <3>4 DEF Accept, Attempts, r
    <3>5. CASE MarkUncertain(c)
      <4> DEFINE b == attempt[r].response \/ job[c].response
                 a == [attempt[r] EXCEPT !.status = "UNCERTAIN", !.response = b]
      <4>1. UNCHANGED attempt \/ attempt' = [attempt EXCEPT ![r] = a]
        BY <3>5 DEF MarkUncertain, r
      <4> HIDE DEF b
      <4>2. a.status = "UNCERTAIN"
        BY <3>2 DEF Attempts
      <4> HIDE DEF a
      <4> QED
        BY <3>1, <3>2, <4>1, <4>2
    <3>6. CASE Verify(c) \/ RVerify(c)
      <4> DEFINE a == [attempt[r] EXCEPT !.status = "VERIFIED", !.new = job[c].token, !.response = TRUE]
      <4>1. UNCHANGED attempt \/ attempt' = [attempt EXCEPT ![r] = a]
        BY <3>6 DEF Verify, RVerify, Finalized, r
      <4>2. a.status = "VERIFIED"
        BY <3>2 DEF Attempts
      <4> HIDE DEF a
      <4> QED
        BY <3>1, <3>2, <4>1, <4>2
    <3> QED
      BY <1>7, <3>3, <3>4, <3>5, <3>6
  <2>2. \A s \in Requests : ~Drops(s)
    BY <2>1 DEF Drops, RetryableParent
  <2> QED
    BY <2>2, LeftKeeps
<1>8. CASE \/ Start(c) \/ Acquire(c) \/ ReleaseLease(c) \/ Crash(c) \/ Check(c) \/ ReadLegs(c)
           \/ Begin(c) \/ Leg(c) \/ AfterLeg(c) \/ Read(c) \/ Refresh(c) \/ Recheck(c)
           \/ Reprove(c) \/ Strict(c) \/ Send(c) \/ Answer(c) \/ ReadBack(c) \/ RLoad(c)
           \/ RRead(c) \/ Heartbeat(c)
  <2>1. UNCHANGED attempt
    BY <1>8 DEF Start, Acquire, ReleaseLease, Crash, Check, ReadLegs, Begin, Leg, AfterLeg, Read,
       Refresh, Recheck, Reprove, Strict, Send, Answer, ReadBack, RLoad, RRead, Heartbeat, dbVars
  <2> QED
    BY <1>1, <2>1
<1> QED
  BY <1>1, <1>2, <1>3, <1>4, <1>5, <1>6, <1>7, <1>8 DEF CallStep
----------------------------------------------------------------------------
(* The invariant, step by step.                                              *)

StateInv ==
  /\ OpsInv /\ OneLive /\ SentOnce /\ FirstSettled /\ SecondAfterFirst /\ RowTellsOutcome
  /\ NothingLeftBehind

LEMMA EnvironmentFrame ==
  ASSUME TypeOK, Environment
  PROVE  /\ Evolves /\ UNCHANGED <<attempt, sends, pc, job>>
         /\ \A i \in Legs : row'[i].status = row[i].status
<1>1. UNCHANGED <<attempt, sends, pc, job>>
  BY DEF Environment, Land, Lose, BecomeQuiet, EditInQuickBooks, Others, Expire, LeaseExpires,
     ToggleDryRun, dbVars, qboVars
<1>2. \A i \in Legs : row'[i].status = row[i].status
  <2>1. CASE \E k \in Legs : Others(k)
    <3>1. PICK k \in Legs : Others(k)
      BY <2>1
    <3>2. row \in [Legs -> Rows]
      BY Parts DEF TableTypes
    <3> QED
      BY <3>1, <3>2 DEF Others, Rows
  <2>2. CASE ~\E k \in Legs : Others(k)
    BY <2>2 DEF Environment, Land, Lose, BecomeQuiet, EditInQuickBooks, Expire, LeaseExpires,
       ToggleDryRun, dbVars
  <2> QED
    BY <2>1, <2>2
<1>3. OpsStay
  <2>1. CASE \E o \in Ops : Expire(o)
    <3>1. PICK o \in Ops : op' = [op EXCEPT ![o].expired = TRUE]
      BY <2>1 DEF Expire
    <3> QED
      BY <3>1, Parts DEF OpsStay, OpTypes
  <2>2. CASE ~\E o \in Ops : Expire(o)
    <3>1. UNCHANGED op
      BY <2>2 DEF Environment, Land, Lose, BecomeQuiet, EditInQuickBooks, Others, LeaseExpires,
         ToggleDryRun, dbVars
    <3> QED
      BY <3>1 DEF OpsStay
  <2> QED
    BY <2>1, <2>2
<1> QED
  BY <1>1, <1>2, <1>3 DEF Evolves, AttemptsMove, ClaimsMove

LEMMA EnvironmentKeeps ==
  ASSUME IInv, Environment
  PROVE  StateInv' /\ OneClaimer' /\ \A d \in Calls : CallInv(d)'
<1>0. /\ TypeOK /\ StateInv /\ OneClaimer /\ \A d \in Calls : CallInv(d)
      /\ Evolves /\ UNCHANGED <<attempt, sends, pc, job>>
      /\ \A i \in Legs : row'[i].status = row[i].status
  BY EnvironmentFrame DEF IInv, StateInv
<1>1. OpsInv' /\ OneLive' /\ SentOnce' /\ FirstSettled' /\ SecondAfterFirst'
  BY <1>0, EvolvedOps, EvolvedOneLive, EvolvedSent, EvolvedOrder, EvolvedSecond DEF StateInv
<1>2. RowTellsOutcome'
  BY <1>0, Telling, TellingAfter, LegKeeps DEF StateInv
<1>3. NothingLeftBehind'
  <2>1. \A r \in Requests : ~Drops(r)
    BY <1>0 DEF Drops
  <2> QED
    BY <1>0, <1>1, <2>1, LeftKeeps DEF StateInv
<1>4. OneClaimer'
  BY <1>0 DEF OneClaimer, Mine, PreSend
<1>5. \A d \in Calls : CallInv(d)'
  BY <1>0, GoingCall DEF StateInv
<1> QED
  BY <1>1, <1>2, <1>3, <1>4, <1>5 DEF StateInv

\* Only a claimed request is sent, by the call that claimed it.
LEMMA SendsFrame ==
  ASSUME TypeOK, NEW c \in Calls, CallInv(c), CallStep(c)
  PROVE  \A r \in Requests : sends'[r] = sends[r] \/ (pc[c] = "send" /\ r = Mine(c))
<1>1. CASE Send(c)
  <2>1. /\ pc[c] = "send"
        /\ UNCHANGED sends \/ sends' = [sends EXCEPT ![MyRequest(c)] = @ + 1]
    BY <1>1 DEF Send
  <2>2. attempt[Mine(c)].status # "NONE"
    BY <2>1 DEF CallInv, Claims, PreSend
  <2>3. MyRequest(c) = Mine(c)
    BY <2>2 DEF MyRequest, Request, Mine
  <2>4. sends \in [Requests -> 0 .. 1]
    BY DEF TypeOK
  <2> QED
    BY <2>1, <2>3, <2>4
<1>2. CASE ~Send(c)
  <2>1. UNCHANGED sends
    BY <1>2 DEF CallStep, Start, Acquire, ReleaseLease, Crash, Check, ReadLegs, Insert, Begin,
       ExpirePrepared, Leg, AfterLeg, Park, GiveUp, FinalizeDryRun, Read, Claim, Refresh, Recheck,
       Reprove, Strict, Unclaim, Answer, Accept, ReadBack, Verify, MarkUncertain, RLoad, RRead,
       RVerify, RUnchanged, Heartbeat, qboVars
  <2> QED
    BY <2>1
<1> QED
  BY <1>1, <1>2

LEMMA ClaimerStays ==
  ASSUME TypeOK, OneClaimer, \A d \in Calls : CallInv(d), NEW c \in Calls, OthersStay(c), Carries(c)
  PROVE  OneClaimer'
<1>1. ASSUME NEW d \in Calls \ {c}, pc'[c] \in PreSend, pc'[d] \in PreSend,
             job'[c].o = job'[d].o, job'[c].i = job'[d].i
      PROVE  FALSE
  <2>1. pc[d] \in PreSend /\ job'[d] = job[d] /\ job'[c] = job[c]
    BY <1>1 DEF OthersStay, Carries
  <2>2. Mine(c) = Mine(d)
    BY <1>1, <2>1 DEF Mine
  <2>3. pc[c] \notin PreSend
    BY <2>1, <2>2 DEF OneClaimer
  <2>4. attempt[Mine(d)].status = "PREPARED"
    BY <1>1, <2>2, <2>3 DEF Carries
  <2> QED
    BY <2>1, <2>4 DEF CallInv, Claims
<1>2. ASSUME NEW d \in Calls, NEW e \in Calls, pc'[d] \in PreSend, pc'[e] \in PreSend,
             <<job'[d].o, job'[d].i>> = <<job'[e].o, job'[e].i>>
      PROVE  d = e
  <2>0. job'[d].o = job'[e].o /\ job'[d].i = job'[e].i
    BY <1>2
  <2>1. CASE d = c \/ e = c
    BY <1>1, <1>2, <2>0, <2>1
  <2>2. CASE d # c /\ e # c
    <3>1. pc[d] \in PreSend /\ pc[e] \in PreSend /\ job'[d] = job[d] /\ job'[e] = job[e]
      BY <1>2, <2>2 DEF OthersStay
    <3>2. Mine(d) = Mine(e)
      BY <2>0, <3>1 DEF Mine
    <3> QED
      BY <3>1, <3>2 DEF OneClaimer
  <2> QED
    BY <2>1, <2>2
<1> QED
  BY <1>2 DEF OneClaimer, Mine, PreSend

LEMMA CallKeeps ==
  ASSUME IInv, NEW c \in Calls, CallStep(c)
  PROVE  StateInv' /\ OneClaimer' /\ \A d \in Calls : CallInv(d)'
<1>0. /\ TypeOK /\ StateInv /\ OneClaimer /\ \A d \in Calls : CallInv(d)
      /\ CallInv(c) /\ Named(c)
      /\ OpsInv /\ OneLive /\ SentOnce /\ FirstSettled /\ SecondAfterFirst /\ RowTellsOutcome
      /\ NothingLeftBehind
  BY DEF IInv, StateInv, CallInv
<1>1. CallInv(c)' /\ Carries(c) /\ OthersStay(c)
  BY <1>0, OwnCall, CallFrame
<1>2. OneClaimer'
  BY <1>0, <1>1, ClaimerStays
<1>3. \A r \in Requests : sends'[r] = sends[r] \/ (pc[c] = "send" /\ r = Mine(c))
  BY <1>0, SendsFrame
<1>4. pc[c] = "send" => /\ pc[c] \in PreSend /\ pc[c] \in Committing
                        /\ attempt[Mine(c)].status \notin {"NONE", "PREPARED"}
  BY <1>0 DEF CallInv, Claims, PreSend, Committing, Preparing, Steps
<1>5. CASE Evolves /\ ~Insert(c)
  <2>1. OpsInv' /\ OneLive' /\ FirstSettled'
    BY <1>0, <1>5, EvolvedOps, EvolvedOneLive, EvolvedOrder
  <2>2. SentOnce'
    BY <1>0, <1>3, <1>4, <1>5, EvolvedSent
  <2>3. SecondAfterFirst'
    <3>1. ASSUME NEW o \in Ops, sends'[<<o, 2>>] # sends[<<o, 2>>] PROVE Status(o, 1) \in Finished
      <4>1. <<o, 2>> \in Requests
        BY DEF Requests, Legs
      <4>2. pc[c] = "send" /\ <<o, 2>> = <<job[c].o, job[c].i>>
        BY <1>3, <3>1, <4>1 DEF Mine
      <4>3. o = job[c].o /\ job[c].i = 2
        BY <4>2
      <4> QED
        BY <1>0, <1>4, <4>2, <4>3 DEF CallInv, Ordered
    <3> QED
      BY <1>0, <1>5, <3>1, EvolvedSecond
  <2>4. RowTellsOutcome' /\ NothingLeftBehind'
    BY <1>0, <1>5, <2>1, CallTells, CallLeaves
  <2>5. ASSUME NEW d \in Calls \ {c} PROVE CallInv(d)'
    <3>1. pc'[d] = pc[d] /\ job'[d] = job[d] /\ CallInv(d)
      BY <1>0, <1>1 DEF OthersStay
    <3>2. ASSUME pc[d] \in PreSend PROVE sends'[Mine(d)] = sends[Mine(d)]
      <4>1. Mine(d) \in Requests
        <5>1. job[d].i \in Legs /\ Named(d) /\ pc[d] \notin {"idle", "release"}
          BY <1>0, <3>1, <3>2, Parts DEF CallTypes, Jobs, CallInv, PreSend
        <5> QED
          BY <5>1 DEF Named, Mine, Requests
      <4>2. ~(pc[c] \in PreSend /\ Mine(d) = Mine(c))
        BY <1>0, <3>2 DEF OneClaimer
      <4> QED
        BY <1>3, <1>4, <4>1, <4>2
    <3> QED
      BY <1>0, <1>5, <3>1, <3>2, GoingCall
  <2> QED
    BY <1>1, <1>2, <2>1, <2>2, <2>3, <2>4, <2>5 DEF StateInv
<1>6. CASE Insert(c) /\ ~UNCHANGED <<op, attempt>>
  <2>1. UNCHANGED <<row, sends>> /\ pc[c] = "insert"
    BY <1>6 DEF Insert, qboVars
  <2>2. Adds(job[c].o, job[c].parent) /\ job[c].o \in Ops
    BY <1>0, <1>6, <2>1, InsertAdds DEF Named
  <2>3. ASSUME NEW d \in Calls \ {c} PROVE CallInv(d)'
    BY <1>0, <1>1, <2>1, <2>2, AddsCall DEF OthersStay
  <2> QED
    BY <1>0, <1>1, <1>2, <2>1, <2>2, <2>3, AddsInv DEF StateInv
<1>7. CASE Insert(c) /\ UNCHANGED <<op, attempt>>
  <2>1. Evolves /\ UNCHANGED <<row, sends>>
    BY <1>7, StillEvolves DEF Insert, qboVars
  <2>2. OpsInv' /\ OneLive' /\ FirstSettled' /\ SentOnce' /\ SecondAfterFirst'
    BY <1>0, <2>1, EvolvedOps, EvolvedOneLive, EvolvedOrder, EvolvedSent, EvolvedSecond
  <2>3. RowTellsOutcome'
    BY <1>0, <1>7, <2>1, Telling, TellingAfter, LegKeeps
  <2>4. NothingLeftBehind'
    <3>1. \A r \in Requests : ~Drops(r)
      BY <1>7 DEF Drops
    <3> QED
      BY <1>0, <2>1, <2>2, <3>1, LeftKeeps
  <2>5. ASSUME NEW d \in Calls \ {c} PROVE CallInv(d)'
    BY <1>0, <1>1, <2>1, GoingCall DEF OthersStay
  <2> QED
    BY <1>1, <1>2, <2>2, <2>3, <2>4, <2>5 DEF StateInv
<1> QED
  BY <1>0, <1>5, <1>6, <1>7, CallEvolves

LEMMA InitInv == Init => IInv
<1> SUFFICES ASSUME Init PROVE IInv
  OBVIOUS
<1>1. TypeOK
  BY InitTypes
<1>2. /\ \A o \in Ops : op[o] = NoOp
      /\ \A r \in Requests : attempt[r] = NoAttempt /\ sends[r] = 0
      /\ \A i \in Legs : row[i].status = "PENDING"
      /\ \A c \in Calls : pc[c] = "idle"
  BY DEF Init
<1>3. \A o \in Ops, i \in Legs : /\ attempt[<<o, i>>].status = "NONE" /\ Status(o, i) = "NONE"
                                 /\ op[o].parent = None /\ ~op[o].made
  BY <1>2 DEF Requests, NoAttempt, NoOp, Status, Request
<1>4. OpsInv /\ OneLive /\ SentOnce /\ FirstSettled
  BY <1>2, <1>3 DEF OpsInv, OneLive, SentOnce, FirstSettled, Live, Active, Finished, Unresolved, Legs
<1>5. OneClaimer /\ \A c \in Calls : CallInv(c)
  BY <1>2 DEF OneClaimer, PreSend, CallInv, Named, FirstLeg, Ordered, Claims, Saw, Preparing,
     Committing, Steps
<1>6. SecondAfterFirst
  <2>1. \A o \in Ops : sends[<<o, 2>>] = 0
    BY <1>2 DEF Requests, Legs
  <2> QED
    BY <2>1 DEF SecondAfterFirst
<1>7. RowTellsOutcome
  BY <1>2, <1>3, Telling DEF LegTells
<1>8. NothingLeftBehind
  BY <1>2, NoneAssumption DEF NothingLeftBehind, NoOp
<1> QED
  BY <1>1, <1>4, <1>5, <1>6, <1>7, <1>8 DEF IInv

LEMMA NextInv == IInv /\ [Next]_vars => IInv'
<1> SUFFICES ASSUME IInv, [Next]_vars PROVE IInv'
  OBVIOUS
<1>1. CASE Next
  <2>1. TypeOK'
    BY <1>1, NextTypes
  <2>2. StateInv' /\ OneClaimer' /\ \A d \in Calls : CallInv(d)'
    BY <1>1, CallKeeps, EnvironmentKeeps DEF Next
  <2> QED
    BY <2>1, <2>2 DEF IInv, StateInv
<1>2. CASE UNCHANGED vars
  <2>1. TypeOK'
    BY <1>2 DEF vars, IInv, TypeOK
  <2>2. \A d \in Calls : CallInv(d)'
    <3>1. Evolves
      BY <1>2, StillEvolves DEF vars
    <3> QED
      BY <1>2, <3>1, GoingCall DEF vars, IInv
  <2>3. OpsInv' /\ OneLive' /\ SentOnce' /\ OneClaimer'
    BY <1>2 DEF vars, IInv, OpsInv, OneLive, SentOnce, OneClaimer, Mine
  <2>4. FirstSettled' /\ SecondAfterFirst' /\ NothingLeftBehind'
    BY <1>2 DEF vars, IInv, FirstSettled, SecondAfterFirst, NothingLeftBehind, Status, Request
  <2>5. RowTellsOutcome'
    BY <1>2 DEF vars, IInv, RowTellsOutcome
  <2> QED
    BY <2>1, <2>2, <2>3, <2>4, <2>5 DEF IInv
<1> QED
  BY <1>1, <1>2

\* The first layer: whatever calls overlap, crash or lose their leases,
\* executeLeg, reconcileLeg and the finalizers only move an attempt forward, a
\* leg has one attempt at most that is not given up, and leg 2 follows leg 1.
THEOREM AlwaysIInv == Spec => []IInv
<1>1. Init => IInv
  BY InitInv
<1>2. IInv /\ [Next]_vars => IInv'
  BY NextInv
<1> QED
  BY <1>1, <1>2, PTL DEF Spec
----------------------------------------------------------------------------
(* The leases, and what a call that waits for QuickBooks knows of them.      *)

Waiting == Sending \cup Recovering

LEMMA Holds ==
  ASSUME NEW c \in Calls, Heeds(c), pc[c] \in Waiting, c \notin lost, Renewable(c)
  PROVE  lease.holder = c
BY DEF Heeds, Waiting, Renewable

\* A call goes on waiting with what it knows, or has just renewed the leases.
LEMMA WaitingCall ==
  ASSUME TypeOK, NEW c \in Calls, CallStep(c), pc'[c] \in Waiting
  PROVE  \/ lease'.live
         \/ pc[c] \in Waiting /\ lease' = lease /\ (c \in lost => c \in lost')
<1>0. /\ {"idle", "release", "acquire", "check", "prepare", "insert", "begin", "expire", "dryBoth",
          "leg", "park", "dry", "read", "claim", "refresh", "undry", "unclaim", "uncertain",
          "next", "rload"} \cap Waiting = {}
      /\ Waiting = {"recheck", "reprove", "strict", "send", "sent", "accept", "readback", "verify",
                    "rread", "rverify", "runchanged"}
      /\ pc \in [Calls -> Steps]
  BY Parts DEF Waiting, Sending, Recovering, CallTypes
<1>1. ASSUME Leave(c) PROVE FALSE
  BY <1>0, <1>1 DEF Leave, Go
<1>2. ASSUME NEW p, Continue(c, p) PROVE pc'[c] = p /\ UNCHANGED lost
  BY <1>0, <1>2 DEF Continue, Go
<1>3. CASE \/ Start(c) \/ Acquire(c) \/ ReleaseLease(c) \/ Crash(c) \/ Check(c) \/ ReadLegs(c)
           \/ Insert(c) \/ Begin(c) \/ ExpirePrepared(c) \/ Leg(c) \/ AfterLeg(c) \/ Park(c)
  <2>1. pc'[c] \in {"idle", "release", "acquire", "check", "begin", "prepare", "insert", "expire",
                    "dryBoth", "leg", "park", "dry", "read", "next", "rload"}
    BY <1>0, <1>1, <1>2, <1>3 DEF Start, Acquire, ReleaseLease, Crash, Check, ReadLegs, Insert, Begin,
       ExpirePrepared, Leg, AfterLeg, Forward, Park, Go
  <2> QED
    BY <1>0, <2>1
<1>4. CASE FinalizeDryRun(c) \/ Read(c) \/ Claim(c) \/ Unclaim(c) \/ MarkUncertain(c)
  <2>1. pc'[c] \in {"next", "leg", "read", "unclaim", "claim", "park", "refresh"}
    BY <1>1, <1>2, <1>4 DEF FinalizeDryRun, Read, Claim, Unclaim, MarkUncertain
  <2> QED
    BY <1>0, <2>1
<1>5. CASE Refresh(c)
  <2>1. Guards(c, {"COMMITTING"})
    BY <1>1, <1>5 DEF Refresh
  <2> QED
    BY <1>5, <2>1 DEF Refresh, Guard, Guards
<1>6. CASE Recheck(c) \/ Reprove(c) \/ Send(c) \/ Answer(c)
  <2>1. lease' = lease /\ pc[c] \in Waiting
    BY <1>0, <1>6 DEF Recheck, Reprove, Send, Answer
  <2>2. UNCHANGED lost
    BY <1>1, <1>2, <1>6 DEF Recheck, Reprove, Disproved, Send, Answer
  <2> QED
    BY <2>1, <2>2
<1>7. CASE Strict(c)
  <2>1. c \notin lost /\ Renewable(c)
    BY <1>1, <1>7 DEF Strict
  <2> QED
    BY <1>7, <2>1 DEF Strict
<1>8. CASE Accept(c)
  BY <1>0, <1>8 DEF Accept
<1>9. CASE ReadBack(c) \/ Verify(c) \/ RRead(c) \/ RVerify(c) \/ RUnchanged(c)
  <2>1. pc[c] \in Waiting /\ (lease' = lease \/ lease'.live)
    BY <1>0, <1>9 DEF ReadBack, Verify, RRead, RVerify, RUnchanged, Guard
  <2>2. UNCHANGED lost
    BY <1>1, <1>2, <1>9 DEF ReadBack, Verify, RRead, RVerify, RUnchanged
  <2> QED
    BY <2>1, <2>2
<1>10. CASE RLoad(c)
  <2>1. Renewable(c)
    BY <1>1, <1>10 DEF RLoad
  <2> QED
    BY <1>10, <2>1 DEF RLoad, Renewal
<1>11. CASE Heartbeat(c)
  BY <1>0, <1>11 DEF Heartbeat, Guard
<1> QED
  BY <1>3, <1>4, <1>5, <1>6, <1>7, <1>8, <1>9, <1>10, <1>11 DEF CallStep

LEMMA LeaseFrame ==
  ASSUME NEW c \in Calls, CallStep(c)
  PROVE  lease' = lease \/ lease' = [holder |-> c, live |-> TRUE] \/ lease' = [holder |-> None, live |-> FALSE]
BY DEF CallStep, Start, Acquire, ReleaseLease, Crash, Check, ReadLegs, Insert, Begin,
   ExpirePrepared, Leg, AfterLeg, Park, GiveUp, FinalizeDryRun, Read, Claim, Refresh, Recheck,
   Reprove, Strict, Unclaim, Send, Answer, Accept, ReadBack, Verify, MarkUncertain, RLoad, RRead,
   RVerify, RUnchanged, Heartbeat, Guard, Renewal

LEMMA CallHeeds ==
  ASSUME TypeOK, NEW c \in Calls, CallStep(c), \A d \in Calls : Heeds(d)
  PROVE  \A d \in Calls : Heeds(d)'
<1>1. ASSUME NEW d \in Calls, pc'[d] \in Waiting
      PROVE  d \in lost' \/ lease'.holder \in {d, None} \/ lease'.live
  <2>1. CASE d = c
    BY <1>1, <2>1, WaitingCall DEF Heeds, Waiting
  <2>2. CASE d # c
    <3>1. pc'[d] = pc[d] /\ (d \in lost' <=> d \in lost)
      BY <2>2, CallFrame DEF OthersStay
    <3> QED
      BY <1>1, <3>1, LeaseFrame DEF Heeds, Waiting
  <2> QED
    BY <2>1, <2>2
<1> QED
  BY <1>1 DEF Heeds, Waiting, Sending, Recovering

\* A renewal by a call that heeds changes nobody's holding.
LEMMA GuardHolds ==
  ASSUME NEW c \in Calls, Heeds(c), pc[c] \in Waiting, NEW status, Guards(c, status)
  PROVE  lease.holder = c /\ attempt[MyRequest(c)].status \in status
BY Holds, GuardsStatus DEF Guards
----------------------------------------------------------------------------
(* Requests on their way.                                                    *)

\* Still, after the step.
StillNext(r) == r \notin wire' /\ \A d \in Calls : pc'[d] = "send" => <<job'[d].o, job'[d].i>> # r

\* What c is about to send, it has just been found fit to send.
EntersSend(c) ==
  /\ pc[c] = "strict" /\ pc'[c] = "send" /\ job'[c] = job[c]
  /\ Guards(c, {"COMMITTING"})
  /\ quiet' = quiet \ {Mine(c)} /\ UNCHANGED <<attempt, wire>>

LEMMA ClaimedIsMine ==
  ASSUME NEW c \in Calls, CallInv(c), pc[c] \in PreSend PROVE MyRequest(c) = Mine(c)
BY DEF CallInv, Claims, MyRequest, Request, Mine

LEMMA SendEntry ==
  ASSUME TypeOK, NEW c \in Calls, CallInv(c), CallStep(c), pc'[c] = "send"
  PROVE  EntersSend(c) \/ (pc[c] = "send" /\ job'[c] = job[c] /\ UNCHANGED <<attempt, wire>>)
<1>0. pc \in [Calls -> Steps]
  BY Parts DEF CallTypes
<1>1. ASSUME Leave(c) PROVE FALSE
  BY <1>0, <1>1 DEF Leave, Go
<1>2. ASSUME NEW p, Continue(c, p) PROVE p = "send" /\ job' = job
  BY <1>0, <1>2 DEF Continue, Go
<1>3. CASE \/ Start(c) \/ Acquire(c) \/ ReleaseLease(c) \/ Crash(c) \/ Check(c) \/ ReadLegs(c)
           \/ Insert(c) \/ Begin(c) \/ ExpirePrepared(c) \/ Leg(c) \/ AfterLeg(c) \/ Park(c)
           \/ Read(c) \/ Claim(c) \/ Unclaim(c) \/ MarkUncertain(c)
  <2>1. CASE Start(c) \/ Acquire(c) \/ ReleaseLease(c) \/ Crash(c) \/ Check(c) \/ ReadLegs(c) \/ Insert(c)
    <3>1. CASE Start(c) \/ Crash(c) \/ Check(c)
      BY <1>0, <1>1, <3>1 DEF Start, Crash, Check, Go
    <3>2. CASE Acquire(c) \/ ReleaseLease(c)
      BY <1>0, <1>1, <3>2 DEF Acquire, ReleaseLease, Continue, Go
    <3>3. CASE ReadLegs(c) \/ Insert(c)
      <4>1. Leave(c) \/ Continue(c, "insert")
        BY <3>3 DEF ReadLegs, Insert
      <4> QED
        BY <1>1, <1>2, <4>1
    <3> QED
      BY <2>1, <3>1, <3>2, <3>3
  <2>2. CASE Begin(c) \/ ExpirePrepared(c) \/ Park(c)
    BY <1>1, <1>2, <2>2 DEF Begin, ExpirePrepared, Park
  <2>3. CASE Leg(c) \/ AfterLeg(c)
    BY <1>0, <1>1, <1>2, <2>3 DEF Leg, AfterLeg, Forward, Go
  <2>4. CASE Read(c) \/ Claim(c) \/ Unclaim(c) \/ MarkUncertain(c)
    BY <1>1, <1>2, <2>4 DEF Read, Claim, Unclaim, MarkUncertain
  <2> QED
    BY <1>3, <2>1, <2>2, <2>3, <2>4
<1>4. CASE \/ FinalizeDryRun(c) \/ Refresh(c) \/ Recheck(c) \/ Reprove(c) \/ Send(c) \/ Answer(c)
           \/ Verify(c) \/ RVerify(c) \/ RUnchanged(c)
  <2>1. CASE FinalizeDryRun(c)
    BY <1>1, <1>2, <2>1 DEF FinalizeDryRun
  <2>2. CASE Refresh(c) \/ Recheck(c) \/ Reprove(c) \/ Send(c) \/ Answer(c)
    BY <1>1, <1>2, <2>2 DEF Refresh, Recheck, Reprove, Disproved, Send, Answer
  <2>3. CASE Verify(c) \/ RVerify(c) \/ RUnchanged(c)
    BY <1>1, <1>2, <2>3 DEF Verify, RVerify, RUnchanged
  <2> QED
    BY <1>4, <2>1, <2>2, <2>3
<1>5. CASE Accept(c) \/ ReadBack(c) \/ RRead(c) \/ RLoad(c)
  <2>1. pc'[c] # "send"
    BY <1>0, <1>1, <1>2, <1>5 DEF Accept, ReadBack, RRead, RLoad, Go
  <2> QED
    BY <2>1
<1>6. CASE Strict(c)
  <2> DEFINE fit == Valid(job[c].o) /\ ~op[job[c].o].expired /\ ~dryRun
  <2>1. ~(c \in lost \/ ~Renewable(c) \/ (Valid(job[c].o) /\ MyStatus(c) # "COMMITTING"))
    BY <1>1, <1>6 DEF Strict
  <2>2. fit /\ job' = job /\ pc[c] = "strict"
    BY <1>2, <1>6, <2>1 DEF Strict
  <2>3. Guards(c, {"COMMITTING"})
    BY <2>1, <2>2 DEF Guards
  <2>4. MyRequest(c) = Mine(c)
    BY <2>2, ClaimedIsMine DEF PreSend
  <2>5. quiet' = quiet \ {Mine(c)} /\ UNCHANGED <<attempt, wire>>
    BY <1>6, <2>2, <2>3, <2>4 DEF Strict, qboVars
  <2> QED
    BY <2>2, <2>3, <2>5 DEF EntersSend
<1>7. CASE Heartbeat(c)
  BY <1>7 DEF Heartbeat, qboVars
<1> QED
  BY <1>3, <1>4, <1>5, <1>6, <1>7 DEF CallStep

LEMMA WireFrame ==
  ASSUME TypeOK, NEW c \in Calls, CallInv(c), CallStep(c)
  PROVE  /\ UNCHANGED <<qbo, landed>> /\ quiet' \subseteq quiet
         /\ \/ wire' = wire
            \/ /\ pc[c] = "send" /\ wire' = wire \cup {Mine(c)} /\ Mine(c) \in Requests
               /\ UNCHANGED attempt /\ sends'[Mine(c)] # 0
<1>1. CASE Send(c)
  <2>1. pc[c] = "send" /\ UNCHANGED <<qbo, landed, quiet, attempt>>
    BY <1>1 DEF Send, dbVars
  <2>2. MyRequest(c) = Mine(c) /\ MyRequest(c) \in Requests
    BY <2>1, ClaimedIsMine, MyRequestTypes DEF PreSend, CallInv
  <2>3. wire' = wire \/ (wire' = wire \cup {Mine(c)} /\ sends' = [sends EXCEPT ![Mine(c)] = @ + 1])
    BY <1>1, <2>2 DEF Send
  <2>4. sends \in [Requests -> 0 .. 1]
    BY DEF TypeOK
  <2> QED
    BY <2>1, <2>2, <2>3, <2>4
<1>2. CASE ~Send(c)
  <2>1. UNCHANGED <<qbo, landed, wire>>
    BY <1>2 DEF CallStep, Start, Acquire, ReleaseLease, Crash, Check, ReadLegs, Insert, Begin,
       ExpirePrepared, Leg, AfterLeg, Park, GiveUp, FinalizeDryRun, Read, Claim, Refresh, Recheck,
       Reprove, Strict, Unclaim, Answer, Accept, ReadBack, Verify, MarkUncertain, RLoad, RRead,
       RVerify, RUnchanged, Heartbeat, qboVars
  <2>2. quiet' \subseteq quiet
    BY <1>2 DEF CallStep, Start, Acquire, ReleaseLease, Crash, Check, ReadLegs, Insert, Begin,
       ExpirePrepared, Leg, AfterLeg, Park, GiveUp, FinalizeDryRun, Read, Claim, Refresh, Recheck,
       Reprove, Strict, Unclaim, Answer, Accept, ReadBack, Verify, MarkUncertain, RLoad, RRead,
       RVerify, RUnchanged, Heartbeat, Guard, dbVars
  <2> QED
    BY <2>1, <2>2
<1> QED
  BY <1>1, <1>2

\* A request that is still stays so unless c gets ready to send it.
LEMMA StillFrame ==
  ASSUME TypeOK, NEW c \in Calls, CallInv(c), CallStep(c), NEW r \in Requests, Still(r),
         EntersSend(c) => Mine(c) # r
  PROVE  StillNext(r)
<1>1. r \notin wire'
  BY WireFrame DEF Still
<1>2. ASSUME NEW d \in Calls, pc'[d] = "send" PROVE <<job'[d].o, job'[d].i>> # r
  <2>1. CASE d = c
    BY <1>2, <2>1, SendEntry DEF Still, Mine, EntersSend
  <2>2. CASE d # c
    <3>1. pc[d] = "send" /\ job'[d] = job[d]
      BY <1>2, <2>2, CallFrame DEF OthersStay
    <3> QED
      BY <3>1 DEF Still, Mine
  <2> QED
    BY <2>1, <2>2
<1> QED
  BY <1>1, <1>2 DEF StillNext

LEMMA StillAfter == ASSUME NEW r, StillNext(r) PROVE r \notin wire' /\ \A d \in Calls : pc'[d] = "send" => Mine(d)' # r
BY DEF StillNext, Mine

LEMMA CallQuiet ==
  ASSUME TypeOK, NEW c \in Calls, CallInv(c), CallStep(c), QuietIsStill PROVE QuietIsStill'
<1>1. ASSUME NEW r \in quiet' PROVE StillNext(r)
  <2>1. r \in quiet /\ r \in Requests
    BY <1>1, WireFrame, Parts DEF TypeOK
  <2>2. EntersSend(c) => Mine(c) # r
    BY <1>1 DEF EntersSend
  <2> QED
    BY <2>1, <2>2, StillFrame DEF QuietIsStill
<1> QED
  BY <1>1, StillAfter DEF QuietIsStill, Still

\* What a step does to the requests that have been sent.
KeepsRequests ==
  \A o \in Ops : op[o].made =>
    /\ op'[o].parent = op[o].parent
    /\ \A i \in Legs : attempt'[<<o, i>>].status = "NONE" <=> attempt[<<o, i>>].status = "NONE"

LEMMA CallRequests ==
  ASSUME IInv, NEW c \in Calls, CallStep(c)
  PROVE  /\ KeepsRequests
         /\ \A r \in Requests : attempt[r].status \in Reached =>
              /\ attempt'[r].token = attempt[r].token
              /\ attempt'[r].status = attempt[r].status \/ Forth(attempt[r].status, attempt'[r].status)
<1>0. TypeOK /\ OpsInv /\ RowTellsOutcome /\ CallInv(c) /\ Named(c)
  BY DEF IInv, CallInv
<1>1. CASE Evolves
  <2>1. \A o \in Ops, i \in Legs : attempt'[<<o, i>>].status = "NONE" <=> attempt[<<o, i>>].status = "NONE"
    BY <1>1 DEF Evolves, AttemptsMove, Forth, Unresolved, Requests
  <2> QED
    BY <1>1, <2>1 DEF KeepsRequests, Evolves, OpsStay, AttemptsMove
<1>2. CASE Insert(c) /\ ~UNCHANGED <<op, attempt>>
  <2>0. Adds(job[c].o, job[c].parent) /\ job[c].o \in Ops
    BY <1>0, <1>2, InsertAdds DEF Named, Insert
  <2>1. PICK n \in Ops, p \in {job[c].parent} : Adds(n, p)
    BY <2>0
  <2>2. ASSUME NEW o \in Ops \ {n}
        PROVE  op'[o] = op[o] /\ \A i \in Legs : attempt'[<<o, i>>] = attempt[<<o, i>>]
    BY <2>1 DEF Adds, Requests
  <2>3. \A i \in Legs : attempt[<<n, i>>].status = "NONE"
    BY <1>0, <2>1 DEF OpsInv, Adds
  <2>4. KeepsRequests
    BY <2>1, <2>2 DEF KeepsRequests, Adds
  <2>5. ASSUME NEW r \in Requests, attempt[r].status \in Reached PROVE attempt'[r] = attempt[r]
    <3>1. PICK o \in Ops, i \in Legs : r = <<o, i>>
      BY DEF Requests
    <3>2. o # n
      BY <2>3, <2>5, <3>1 DEF Reached
    <3> QED
      BY <2>2, <3>1, <3>2
  <2> QED
    BY <2>4, <2>5
<1>3. CASE ~Insert(c) \/ UNCHANGED <<op, attempt>>
  BY <1>0, <1>1, <1>3, CallEvolves, StillEvolves
<1> QED
  BY <1>1, <1>2, <1>3

LEMMA RequestStays ==
  ASSUME TypeOK, KeepsRequests, NEW c \in Calls, Named(c), pc[c] \in Committing,
         job'[c].o = job[c].o, job'[c].i = job[c].i
  PROVE  MyRequest(c)' = MyRequest(c)
<1>1. job[c].o \in Ops /\ op[job[c].o].made /\ job[c].i \in Legs
  BY MyRequestTypes, Parts DEF Named, Committing, CallTypes, Jobs
<1>2. /\ op'[job[c].o].parent = op[job[c].o].parent
      /\ attempt'[<<job[c].o, job[c].i>>].status = "NONE" <=> attempt[<<job[c].o, job[c].i>>].status = "NONE"
  BY <1>1 DEF KeepsRequests
<1> QED
  BY <1>2 DEF MyRequest, Request
----------------------------------------------------------------------------
(* Only what has not left, or has been proved not to land, is given up.      *)

LEMMA Abandoned ==
  ASSUME IInv, WireInv, NEW c \in Calls, CallStep(c), NEW r \in Requests,
         attempt[r].status \in Reached, attempt'[r].status \notin Reached
  PROVE  /\ r \notin wire \cup landed
         /\ \A d \in Calls : pc[d] = "send" => Mine(d) # r
         /\ pc[c] \notin {"strict", "send"}
<1>0. /\ TypeOK /\ OpsInv /\ OneClaimer /\ CallInv(c) /\ Named(c)
      /\ SentReaches /\ Heeds(c) /\ Recovers(c)
  BY DEF IInv, WireInv, CallInv
<1>1. attempt'[r].status # attempt[r].status
  OBVIOUS
<1>2. ASSUME pc[c] \in {"unclaim", "undry"}, MyRequest(c) = r
      PROVE  /\ r \notin wire \cup landed
             /\ \A d \in Calls : pc[d] = "send" => Mine(d) # r
  <2>1. Mine(c) = r /\ sends[r] = 0
    BY <1>0, <1>2, ClaimedIsMine DEF PreSend, CallInv, Claims
  <2>2. \A d \in Calls : pc[d] = "send" => Mine(d) # r
    BY <1>0, <1>2, <2>1 DEF OneClaimer, PreSend
  <2> QED
    BY <1>0, <2>1, <2>2 DEF SentReaches
<1>3. CASE Unclaim(c)
  <2> DEFINE rs == {q \in Own(job[c].o) : attempt[q].status = "PREPARED" \/ q = MyRequest(c)}
  <2>1. attempt' = Moved(rs, {"PREPARED", "COMMITTING"}, "RETRYABLE") /\ pc[c] = "unclaim"
    BY <1>1, <1>3 DEF Unclaim
  <2>2. r \in rs
    <3> HIDE DEF rs
    <3> QED
      BY <1>0, <1>1, <2>1, MovedStatus
  <2>3. MyRequest(c) = r
    BY <2>2 DEF Reached
  <2> QED
    BY <1>2, <2>1, <2>3
<1>4. CASE FinalizeDryRun(c)
  <2> DEFINE o == job[c].o
             i == job[c].i
             legs == CASE pc[c] = "dryBoth" -> Legs [] pc[c] = "dry" -> {i} [] OTHER -> i .. 2
             rs == {Request(o, j) : j \in legs}
             open == {"PREPARED"} \cup (IF pc[c] = "undry" THEN {"COMMITTING"} ELSE {})
             ok == /\ Fenced(c)
                   /\ Valid(o)
                   /\ \A j \in legs : Status(o, j) = "PREPARED" \/ (j = i /\ Status(o, j) \in open)
  <2>1. /\ pc[c] \in {"dryBoth", "dry", "undry"}
        /\ \/ UNCHANGED attempt
           \/ ok /\ \E to \in {"RETRYABLE", "DRY_RUN"} : attempt' = Moved(rs, open, to)
    BY <1>4 DEF FinalizeDryRun
  <2>2. open \subseteq {"PREPARED", "COMMITTING"} /\ ("COMMITTING" \in open => pc[c] = "undry")
    OBVIOUS
  <2>3. \A q \in rs : attempt[q].status = "PREPARED" \/ q = MyRequest(c) \/ ~ok
    BY DEF Status, MyRequest
  <2> HIDE DEF open, rs, ok
  <2>4. ok /\ r \in rs /\ attempt[r].status \in open
    BY <1>0, <1>1, <2>1, MovedStatus
  <2>5. attempt[r].status = "COMMITTING"
    BY <2>2, <2>4 DEF Reached
  <2>6. pc[c] = "undry" /\ r = MyRequest(c)
    BY <2>2, <2>3, <2>4, <2>5
  <2> QED
    BY <1>2, <2>6
<1>5. CASE RUnchanged(c)
  <2> DEFINE m == Moved(Own(job[c].o), {"PREPARED"}, "RETRYABLE")
  <2>1. pc[c] = "runchanged" /\ Guards(c, Unresolved) /\ attempt' = [m EXCEPT ![MyRequest(c)].status = "UNCHANGED"]
    BY <1>1, <1>5 DEF RUnchanged
  <2>2. r = MyRequest(c)
    <3>1. m \in [Requests -> Attempts]
      BY <1>0, MovedTypes DEF AttemptStatus
    <3>2. m[r].status = attempt[r].status
      <4>1. attempt[r].status \notin {"PREPARED"}
        BY DEF Reached
      <4> QED
        BY <1>0, <4>1, MovedStatus
    <3> HIDE DEF m
    <3> QED
      BY <1>1, <2>1, <3>1, <3>2
  <2>3. lease.holder = c /\ c \notin lost
    BY <1>0, <2>1, GuardHolds DEF Waiting, Recovering, Guards
  <2>4. Still(r) /\ r \notin landed
    BY <1>0, <2>1, <2>2, <2>3 DEF Recovers
  <2> QED
    BY <2>1, <2>4 DEF Still
<1>6. CASE ExpirePrepared(c) \/ Park(c)
  <2>1. PICK from \in {{}, {"PREPARED"}} : GiveUp(c, from)
    BY <1>6 DEF ExpirePrepared, Park
  <2>2. attempt' = Moved(Own(job[c].o), from, "RETRYABLE")
    BY <1>1, <2>1 DEF GiveUp
  <2>3. attempt[r].status \in from
    BY <1>0, <1>1, <2>2, MovedStatus
  <2> QED
    BY <2>3 DEF Reached
<1>7. CASE Claim(c) \/ Accept(c) \/ MarkUncertain(c) \/ Verify(c) \/ RVerify(c)
  <2> DEFINE q == MyRequest(c)
  <2>1. pc[c] \in Committing
    BY <1>7 DEF Claim, Accept, MarkUncertain, Verify, RVerify, Committing, Preparing, Steps
  <2>2. q \in Requests /\ attempt[q] \in Attempts /\ attempt \in [Requests -> Attempts]
    BY <1>0, <2>1, MyRequestTypes, Parts DEF TableTypes, Committing
  <2> HIDE DEF q
  <2>3. \E a : attempt' = [attempt EXCEPT ![q] = a] /\ (a.status \in Reached \/ a.status = attempt[q].status)
    <3>1. CASE Claim(c)
      <4> DEFINE a == [attempt[q] EXCEPT !.status = "COMMITTING"]
      <4>1. attempt' = [attempt EXCEPT ![q] = a] /\ a.status = "COMMITTING"
        BY <1>1, <2>2, <3>1 DEF Claim, q, Attempts
      <4> QED
        BY <4>1 DEF Reached
    <3>2. CASE Accept(c)
      <4> DEFINE a == [attempt[q] EXCEPT !.response = TRUE]
      <4>1. attempt' = [attempt EXCEPT ![q] = a] /\ a.status = attempt[q].status
        BY <1>1, <2>2, <3>2 DEF Accept, q, Attempts
      <4> QED
        BY <4>1
    <3>3. CASE MarkUncertain(c)
      <4> DEFINE b == attempt[q].response \/ job[c].response
                 a == [attempt[q] EXCEPT !.status = "UNCERTAIN", !.response = b]
      <4>1. attempt' = [attempt EXCEPT ![q] = a]
        BY <1>1, <3>3 DEF MarkUncertain, q
      <4> HIDE DEF b
      <4>2. a.status = "UNCERTAIN"
        BY <2>2 DEF Attempts
      <4> QED
        BY <4>1, <4>2 DEF Reached
    <3>4. CASE Verify(c) \/ RVerify(c)
      <4> DEFINE a == [attempt[q] EXCEPT !.status = "VERIFIED", !.new = job[c].token, !.response = TRUE]
      <4>1. attempt' = [attempt EXCEPT ![q] = a]
        BY <1>1, <3>4 DEF Verify, RVerify, Finalized, q
      <4>2. a.status = "VERIFIED"
        BY <2>2 DEF Attempts
      <4> QED
        BY <4>1, <4>2 DEF Reached
    <3> QED
      BY <1>7, <3>1, <3>2, <3>3, <3>4
  <2>4. PICK a : attempt' = [attempt EXCEPT ![q] = a] /\ (a.status \in Reached \/ a.status = attempt[q].status)
    BY <2>3
  <2> QED
    BY <1>1, <2>2, <2>4
<1>8. CASE Insert(c)
  <2>1. r[1] = job[c].o /\ ~op[r[1]].made
    BY <1>1, <1>8 DEF Insert
  <2>2. attempt[r].status = "NONE"
    BY <1>0, <2>1 DEF OpsInv, Requests
  <2> QED
    BY <2>2 DEF Reached
<1>9. CASE \/ Start(c) \/ Acquire(c) \/ ReleaseLease(c) \/ Crash(c) \/ Check(c) \/ ReadLegs(c)
           \/ Begin(c) \/ Leg(c) \/ AfterLeg(c) \/ Read(c) \/ Refresh(c) \/ Recheck(c)
           \/ Reprove(c) \/ Strict(c) \/ Send(c) \/ Answer(c) \/ ReadBack(c) \/ RLoad(c)
           \/ RRead(c) \/ Heartbeat(c)
  <2>1. UNCHANGED attempt
    BY <1>9 DEF Start, Acquire, ReleaseLease, Crash, Check, ReadLegs, Begin, Leg, AfterLeg, Read,
       Refresh, Recheck, Reprove, Strict, Send, Answer, ReadBack, RLoad, RRead, Heartbeat, dbVars
  <2> QED
    BY <1>1, <2>1
<1> QED
  BY <1>3, <1>4, <1>5, <1>6, <1>7, <1>8, <1>9 DEF CallStep
----------------------------------------------------------------------------
(* The wire, step by step.                                                   *)

LEMMA CallSent ==
  ASSUME IInv, WireInv, NEW c \in Calls, CallStep(c)
  PROVE  SenderReaches' /\ SentReaches' /\ LandedGrew' /\ MovedLanded'
<1>0. /\ TypeOK /\ SentOnce /\ OneClaimer /\ CallInv(c) /\ \A d \in Calls : CallInv(d)
      /\ SenderReaches /\ SentReaches /\ LandedGrew /\ MovedLanded
      /\ wire \subseteq Requests /\ landed \subseteq Requests
      /\ OthersStay(c)
  BY CallFrame DEF IInv, WireInv, TypeOK
<1>1. /\ UNCHANGED <<qbo, landed>>
      /\ \/ wire' = wire
         \/ /\ pc[c] = "send" /\ wire' = wire \cup {Mine(c)} /\ Mine(c) \in Requests
            /\ UNCHANGED attempt /\ sends'[Mine(c)] # 0
  BY <1>0, WireFrame
<1>2. \A r \in wire \cup landed : attempt'[r].status \in Reached /\ attempt'[r].token = attempt[r].token
  BY <1>0, Abandoned, CallRequests DEF SentReaches
<1>3. SenderReaches'
  <2>1. ASSUME NEW d \in Calls, pc'[d] = "send"
        PROVE  attempt'[<<job'[d].o, job'[d].i>>].status \in Reached
    <3>1. pc'[d] = "send" => \/ pc[d] = "send" /\ job'[d] = job[d]
                             \/ d = c /\ EntersSend(c)
      BY <1>0, SendEntry DEF OthersStay
    <3>2. CASE pc[d] = "send" /\ job'[d] = job[d]
      <4>1. Mine(d) \in Requests
        <5>1. job[d].i \in Legs /\ Named(d)
          BY <1>0, Parts DEF CallTypes, Jobs, CallInv
        <5> QED
          BY <3>2, <5>1 DEF Named, Mine, Requests
      <4>2. attempt'[Mine(d)].status \in Reached
        BY <1>0, <3>2, <4>1, Abandoned DEF SenderReaches
      <4> QED
        BY <3>2, <4>2 DEF Mine
    <3>3. CASE d = c /\ EntersSend(c)
      <4>1. attempt[MyRequest(c)].status = "COMMITTING"
        BY <3>3, GuardsStatus DEF EntersSend
      <4>2. MyRequest(c) = Mine(c) /\ attempt' = attempt /\ job'[c] = job[c]
        BY <1>0, <3>3, ClaimedIsMine DEF EntersSend, PreSend
      <4> QED
        BY <3>3, <4>1, <4>2 DEF Mine, Reached
    <3> QED
      BY <2>1, <3>1, <3>2, <3>3
  <2> QED
    BY <2>1 DEF SenderReaches, Mine, Reached
<1>4. SentReaches'
  <2>1. ASSUME NEW r \in wire' \cup landed' PROVE sends'[r] # 0 /\ attempt'[r].status \in Reached
    <3>1. CASE r \in wire \cup landed
      <4>1. sends[r] # 0 /\ attempt'[r].status \in Reached /\ r \in Requests
        BY <1>0, <1>2, <3>1 DEF SentReaches
      <4>2. sends'[r] = sends[r] \/ (pc[c] = "send" /\ r = Mine(c))
        BY <1>0, <4>1, SendsFrame
      <4>3. pc[c] = "send" => sends[Mine(c)] = 0
        BY <1>0 DEF CallInv, Claims, PreSend
      <4> QED
        BY <4>1, <4>2, <4>3
    <3>2. CASE r \notin wire \cup landed
      <4>1. r = Mine(c) /\ pc[c] = "send" /\ attempt' = attempt /\ sends'[r] # 0
        BY <1>1, <2>1, <3>2
      <4> QED
        BY <1>0, <4>1 DEF SenderReaches
    <3> QED
      BY <3>1, <3>2
  <2> QED
    BY <2>1 DEF SentReaches, Reached
<1>5. LandedGrew'
  BY <1>0, <1>1, <1>2 DEF LandedGrew
<1>6. MovedLanded'
  BY <1>0, <1>1 DEF MovedLanded
<1> QED
  BY <1>3, <1>4, <1>5, <1>6

\* A call that has seen the entity as it was to be.
LEMMA CallSeen ==
  ASSUME IInv, WireInv, NEW c \in Calls, CallStep(c)
  PROVE  SeenLanded'
<1>0. TypeOK /\ CallInv(c) /\ SeenLanded /\ MovedLanded /\ OthersStay(c)
  BY CallFrame DEF IInv, WireInv
<1>1. landed' = landed
  BY <1>0, WireFrame
<1>2. ASSUME NEW d \in Calls \ {c}, pc'[d] \in {"verify", "rverify"}
      PROVE  \E o \in Ops : <<o, job'[d].i>> \in landed'
  BY <1>0, <1>1, <1>2 DEF OthersStay, SeenLanded
<1>3. ASSUME pc'[c] \in {"verify", "rverify"}
      PROVE  \E o \in Ops : <<o, job'[c].i>> \in landed'
  <2>0. pc \in [Calls -> Steps] /\ job \in [Calls -> Jobs]
    BY <1>0, Parts DEF CallTypes
  <2>1. ASSUME Leave(c) PROVE FALSE
    BY <1>3, <2>0, <2>1 DEF Leave, Go
  <2>2. ASSUME NEW p, Continue(c, p) PROVE p \in {"verify", "rverify"} /\ job' = job
    BY <1>3, <2>0, <2>2 DEF Continue, Go
  <2>3. CASE ReadBack(c) \/ RRead(c)
    <3>1. /\ pc[c] \in {"readback", "rread"}
          /\ IsTarget(MyRequest(c)) /\ job' = [job EXCEPT ![c].token = qbo[job[c].i].token]
      BY <1>3, <2>0, <2>1, <2>2, <2>3 DEF ReadBack, RRead, Go
    <3>2. job'[c].i = job[c].i /\ job[c].i \in Legs
      BY <2>0, <3>1 DEF Jobs
    <3>3. MyRequest(c)[2] = job[c].i
      BY DEF MyRequest, Request
    <3>4. qbo[job[c].i].content = "moved"
      BY <3>1, <3>3 DEF IsTarget
    <3> QED
      BY <1>0, <1>1, <3>2, <3>4 DEF MovedLanded
  <2>4. CASE Heartbeat(c)
    BY <1>0, <1>1, <1>3, <2>4 DEF Heartbeat, SeenLanded
  <2>5. CASE \/ Start(c) \/ Acquire(c) \/ ReleaseLease(c) \/ Crash(c) \/ Check(c) \/ Accept(c)
             \/ Leg(c) \/ AfterLeg(c) \/ RLoad(c)
    <3>1. CASE Start(c) \/ Crash(c) \/ Check(c) \/ Accept(c) \/ RLoad(c)
      <4>1. \/ Leave(c) \/ Continue(c, "next") \/ Go(c, "acquire") \/ Go(c, "idle")
            \/ Go(c, "prepare") \/ Go(c, "readback") \/ Go(c, "uncertain") \/ Go(c, "rread")
        BY <3>1 DEF Start, Crash, Check, Accept, RLoad
      <4> QED
        BY <1>3, <2>0, <2>1, <2>2, <4>1 DEF Go
    <3>2. CASE Acquire(c) \/ ReleaseLease(c)
      BY <1>3, <2>0, <2>1, <3>2 DEF Acquire, ReleaseLease, Continue, Go
    <3>3. CASE Leg(c) \/ AfterLeg(c)
      BY <1>3, <2>0, <2>1, <2>2, <3>3 DEF Leg, AfterLeg, Forward, Go
    <3> QED
      BY <2>5, <3>1, <3>2, <3>3
  <2>6. CASE \/ ReadLegs(c) \/ Insert(c) \/ Begin(c) \/ ExpirePrepared(c) \/ Park(c) \/ Read(c)
             \/ Claim(c) \/ Unclaim(c) \/ MarkUncertain(c)
    <3>1. \/ Leave(c) \/ Continue(c, "insert") \/ Continue(c, "begin") \/ Continue(c, "expire")
          \/ Continue(c, "leg") \/ Continue(c, "park") \/ Continue(c, "dryBoth")
          \/ Continue(c, "claim") \/ Continue(c, "refresh")
      BY <2>6 DEF ReadLegs, Insert, Begin, ExpirePrepared, Park, Read, Claim, Unclaim, MarkUncertain
    <3> QED
      BY <2>1, <2>2, <3>1
  <2>7. CASE FinalizeDryRun(c) \/ Refresh(c) \/ Recheck(c) \/ Reprove(c) \/ Strict(c)
    <3>1. \/ Leave(c) \/ Continue(c, "next") \/ Continue(c, "leg") \/ Continue(c, "read")
          \/ Continue(c, "unclaim") \/ Continue(c, "recheck") \/ Continue(c, "strict")
          \/ Continue(c, "reprove") \/ Continue(c, "send") \/ Continue(c, "undry")
      BY <2>7 DEF FinalizeDryRun, Refresh, Recheck, Reprove, Disproved, Strict
    <3> QED
      BY <2>1, <2>2, <3>1
  <2>8. CASE Send(c) \/ Answer(c) \/ Verify(c) \/ RVerify(c) \/ RUnchanged(c)
    <3>1. \/ Leave(c) \/ Continue(c, "sent") \/ Continue(c, "uncertain") \/ Continue(c, "accept")
          \/ Continue(c, "next")
      BY <2>8 DEF Send, Answer, Verify, RVerify, RUnchanged
    <3> QED
      BY <2>1, <2>2, <3>1
  <2> QED
    BY <2>3, <2>4, <2>5, <2>6, <2>7, <2>8 DEF CallStep
<1> QED
  BY <1>2, <1>3 DEF SeenLanded
\* What is recorded as verified has been seen, and only this attempt can have caused it.
LEMMA CallVerified ==
  ASSUME IInv, WireInv, NEW c \in Calls, CallStep(c)
  PROVE  VerifiedWasApplied'
<1>0. /\ TypeOK /\ OpsInv /\ OneLive /\ CallInv(c) /\ Named(c)
      /\ SentReaches /\ SeenLanded /\ VerifiedWasApplied /\ landed \subseteq Requests
  BY DEF IInv, WireInv, TypeOK, CallInv
<1>1. landed' = landed
  BY <1>0, WireFrame
<1>2. ASSUME Verify(c) \/ RVerify(c), ~UNCHANGED attempt
      PROVE  MyRequest(c) \in landed /\ \A r \in Requests \ {MyRequest(c)} : attempt'[r] = attempt[r]
  <2>1. /\ pc[c] \in {"verify", "rverify"} /\ Finalized(c)
        /\ attempt[MyRequest(c)].status \in Unresolved
    BY <1>2, GuardsStatus DEF Verify, RVerify, Unresolved
  <2>2. pc[c] \in Committing /\ pc[c] \notin {"idle", "release"}
    BY <2>1 DEF Committing, Preparing, Steps
  <2>3. job[c].o \in Ops /\ op[job[c].o].made /\ job[c].i \in Legs /\ MyRequest(c) \in Requests
    BY <1>0, <2>2, MyRequestTypes, Parts DEF Named, CallTypes, Jobs
  <2>4. MyRequest(c) = <<job[c].o, job[c].i>>
    BY <1>0, <2>1, <2>3, OwnRequest DEF MyRequest, Unresolved
  <2>5. PICK o \in Ops : <<o, job[c].i>> \in landed
    BY <1>0, <2>1 DEF SeenLanded
  <2>6. attempt[<<o, job[c].i>>].status \in Reached
    BY <1>0, <2>5 DEF SentReaches
  <2>7. o = job[c].o
    BY <1>0, <2>1, <2>3, <2>4, <2>6 DEF OneLive, Live, Active, Finished, Reached, Unresolved
  <2>8. \A r \in Requests \ {MyRequest(c)} : attempt'[r] = attempt[r]
    BY <1>0, <2>1, Parts DEF Finalized, TableTypes
  <2> QED
    BY <2>4, <2>5, <2>7, <2>8
<1>3. ASSUME NEW r \in Requests, attempt'[r].status = "VERIFIED" PROVE r \in landed
  <2>1. CASE attempt[r].status = "VERIFIED"
    BY <1>0, <2>1 DEF VerifiedWasApplied
  <2>2. CASE attempt[r].status # "VERIFIED" /\ (Verify(c) \/ RVerify(c))
    BY <1>2, <1>3, <2>2
  <2>3. CASE attempt[r].status # "VERIFIED" /\ ~(Verify(c) \/ RVerify(c))
    <3>1. \/ attempt' = attempt
          \/ \E rs, from, to : to \in {"RETRYABLE", "DRY_RUN"} /\ attempt' = Moved(rs, from, to)
          \/ Claim(c) \/ Accept(c) \/ MarkUncertain(c) \/ RUnchanged(c) \/ Insert(c)
      <4>1. CASE \/ Start(c) \/ Acquire(c) \/ ReleaseLease(c) \/ Crash(c) \/ Check(c) \/ ReadLegs(c)
                 \/ Begin(c) \/ Leg(c) \/ AfterLeg(c) \/ Read(c) \/ Refresh(c) \/ Recheck(c)
                 \/ Reprove(c) \/ Strict(c) \/ Send(c) \/ Answer(c) \/ ReadBack(c) \/ RLoad(c)
                 \/ RRead(c) \/ Heartbeat(c)
        BY <4>1 DEF Start, Acquire, ReleaseLease, Crash, Check, ReadLegs, Begin, Leg, AfterLeg, Read,
           Refresh, Recheck, Reprove, Strict, Send, Answer, ReadBack, RLoad, RRead, Heartbeat, dbVars
      <4>2. CASE ExpirePrepared(c) \/ Park(c)
        BY <4>2 DEF ExpirePrepared, Park, GiveUp
      <4>3. CASE Unclaim(c)
        BY <4>3 DEF Unclaim
      <4>4. CASE FinalizeDryRun(c)
        BY <4>4, FinalizeDryRunCases
      <4> QED
        BY <2>3, <4>1, <4>2, <4>3, <4>4 DEF CallStep
    <3>2. CASE \E rs, from, to : to \in {"RETRYABLE", "DRY_RUN"} /\ attempt' = Moved(rs, from, to)
      <4>1. PICK rs, from, to : to \in {"RETRYABLE", "DRY_RUN"} /\ attempt' = Moved(rs, from, to)
        BY <3>2
      <4>2. attempt'[r].status \in {to, attempt[r].status}
        BY <1>0, <4>1, MovedStatus
      <4> QED
        BY <1>3, <2>3, <4>1, <4>2
    <3>3. CASE Insert(c)
      <4> DEFINE new == {i \in Legs : job[c].seen[i].status # "VERIFIED"}
                 made(s) == [NoAttempt EXCEPT !.status = "PREPARED", !.rev = job[c].seen[s[2]].rev,
                                              !.token = job[c].seen[s[2]].token]
      <4>0. \/ attempt' = attempt
            \/ attempt' = [s \in Requests |-> IF s[1] = job[c].o /\ s[2] \in new
                                               THEN made(s) ELSE attempt[s]]
        BY <3>3 DEF Insert
      <4>1. attempt'[r].status = "PREPARED" \/ attempt'[r] = attempt[r]
        <5>1. made(r).status = "PREPARED"
          BY DEF NoAttempt
        <5> HIDE DEF made, new
        <5> QED
          BY <4>0, <5>1
      <4> QED
        BY <1>3, <2>3, <4>1
    <3>4. CASE Claim(c) \/ Accept(c) \/ MarkUncertain(c) \/ RUnchanged(c)
      <4> DEFINE q == MyRequest(c)
                 m == Moved(Own(job[c].o), {"PREPARED"}, "RETRYABLE")
      <4>1. pc[c] \notin {"idle", "release"}
        BY <3>4 DEF Claim, Accept, MarkUncertain, RUnchanged
      <4>2. /\ q \in Requests /\ attempt[q] \in Attempts /\ attempt \in [Requests -> Attempts]
            /\ m \in [Requests -> Attempts]
        BY <1>0, <4>1, MyRequestTypes, MovedTypes, Parts DEF TableTypes, AttemptStatus
      <4>3. CASE Claim(c) \/ Accept(c)
        BY <1>3, <2>3, <4>2, <4>3 DEF Claim, Accept, Attempts
      <4>4. CASE MarkUncertain(c)
        <5> DEFINE b == attempt[q].response \/ job[c].response
                   a == [attempt[q] EXCEPT !.status = "UNCERTAIN", !.response = b]
        <5>1. attempt' = attempt \/ attempt' = [attempt EXCEPT ![q] = a]
          BY <4>4 DEF MarkUncertain
        <5> HIDE DEF b, q
        <5>2. a.status = "UNCERTAIN"
          BY <4>2 DEF Attempts
        <5> HIDE DEF a
        <5> QED
          BY <1>3, <2>3, <4>2, <5>1, <5>2
      <4>5. CASE RUnchanged(c)
        <5>1. attempt' = attempt \/ attempt' = [m EXCEPT ![q].status = "UNCHANGED"]
          BY <4>5 DEF RUnchanged
        <5>2. m[r].status # "VERIFIED"
          BY <1>0, <2>3, MovedStatus
        <5> HIDE DEF m, q
        <5> QED
          BY <1>3, <2>3, <4>2, <5>1, <5>2 DEF Attempts
      <4> QED
        BY <3>4, <4>3, <4>4, <4>5
    <3> QED
      BY <1>3, <2>3, <3>1, <3>2, <3>3, <3>4
  <2> QED
    BY <2>1, <2>2, <2>3
<1> QED
  BY <1>1, <1>3 DEF VerifiedWasApplied
\* How a call comes to compare an entity that has been quiet.
LEMMA RecoveringCall ==
  ASSUME TypeOK, NEW c \in Calls, CallStep(c), pc'[c] \in {"rread", "runchanged"}
  PROVE  /\ job'[c].o = job[c].o /\ job'[c].i = job[c].i
         /\ \/ /\ pc[c] = "rload" /\ pc'[c] = "rread"
               /\ job'[c].quiet = (MyRequest(c) \in quiet)
            \/ /\ pc[c] = "rread" /\ pc'[c] = "runchanged" /\ job'[c] = job[c] /\ job[c].quiet
               /\ Guards(c, Unresolved) /\ IsBefore(MyRequest(c))
            \/ /\ pc'[c] = pc[c] /\ job'[c] = job[c]
               /\ lease' = lease \/ (c \notin lost /\ Renewable(c))
               /\ c \notin lost
<1>0. pc \in [Calls -> Steps] /\ job \in [Calls -> Jobs]
  BY Parts DEF CallTypes
<1>1. ASSUME Leave(c) PROVE FALSE
  BY <1>0, <1>1 DEF Leave, Go
<1>2. ASSUME NEW p, Continue(c, p) PROVE p \in {"rread", "runchanged"} /\ job' = job
  BY <1>0, <1>2 DEF Continue, Go
<1>3. CASE RLoad(c)
  <2> DEFINE b == MyRequest(c) \in quiet
             j == [job[c] EXCEPT !.quiet = b, !.status = attempt[MyRequest(c)].status,
                                 !.response = attempt[MyRequest(c)].response]
  <2>1. pc[c] = "rload" /\ job' = [job EXCEPT ![c] = j] /\ pc'[c] = "rread"
    BY <1>0, <1>1, <1>2, <1>3 DEF RLoad, Go
  <2> HIDE DEF b
  <2>2. j.quiet = b /\ j.o = job[c].o /\ j.i = job[c].i
    BY <1>0 DEF Jobs
  <2>3. job'[c] = j
    BY <1>0, <2>1
  <2> QED
    BY <2>1, <2>2, <2>3 DEF b
<1>4. CASE RRead(c)
  <2>1. pc[c] = "rread" /\ Guards(c, Unresolved)
    BY <1>1, <1>4 DEF RRead
  <2>2. Continue(c, "runchanged") /\ IsBefore(MyRequest(c)) /\ job[c].quiet
    <3>1. ~Go(c, "rverify") /\ ~Continue(c, "uncertain")
      BY <1>0, <1>2 DEF Go
    <3> QED
      BY <1>1, <1>4, <2>1, <3>1 DEF RRead
  <2> QED
    BY <1>0, <1>2, <2>1, <2>2 DEF Continue, Go
<1>5. CASE Heartbeat(c)
  BY <1>5 DEF Heartbeat, Guard
<1>6. CASE \/ Start(c) \/ Acquire(c) \/ ReleaseLease(c) \/ Crash(c) \/ Check(c) \/ Accept(c)
           \/ Leg(c) \/ AfterLeg(c) \/ ReadBack(c)
  <2>1. \/ Leave(c) \/ Go(c, "acquire") \/ Go(c, "idle") \/ Go(c, "begin") \/ Go(c, "check")
        \/ Go(c, "prepare") \/ Go(c, "readback") \/ Go(c, "uncertain") \/ Go(c, "leg")
        \/ Go(c, "verify") \/ Continue(c, "rload") \/ Continue(c, "park") \/ Continue(c, "dry")
        \/ Continue(c, "read")
    <3>1. CASE Acquire(c)
      BY <3>1 DEF Acquire, Continue
    <3>2. CASE Leg(c) \/ AfterLeg(c)
      BY <3>2 DEF Leg, AfterLeg, Forward
    <3>3. CASE Start(c) \/ ReleaseLease(c) \/ Crash(c) \/ Check(c) \/ Accept(c) \/ ReadBack(c)
      BY <3>3 DEF Start, ReleaseLease, Crash, Check, Accept, ReadBack, Continue
    <3> QED
      BY <1>6, <3>1, <3>2, <3>3
  <2> QED
    BY <1>0, <1>1, <1>2, <2>1 DEF Go
<1>7. CASE \/ ReadLegs(c) \/ Insert(c) \/ Begin(c) \/ ExpirePrepared(c) \/ Park(c) \/ Read(c)
           \/ Claim(c) \/ Unclaim(c) \/ MarkUncertain(c)
  <2>1. \/ Leave(c) \/ Continue(c, "insert") \/ Continue(c, "begin") \/ Continue(c, "expire")
        \/ Continue(c, "leg") \/ Continue(c, "park") \/ Continue(c, "dryBoth")
        \/ Continue(c, "claim") \/ Continue(c, "refresh")
    BY <1>7 DEF ReadLegs, Insert, Begin, ExpirePrepared, Park, Read, Claim, Unclaim, MarkUncertain
  <2> QED
    BY <1>1, <1>2, <2>1
<1>8. CASE FinalizeDryRun(c) \/ Refresh(c) \/ Recheck(c) \/ Reprove(c) \/ Strict(c)
  <2>1. \/ Leave(c) \/ Continue(c, "next") \/ Continue(c, "leg") \/ Continue(c, "read")
        \/ Continue(c, "unclaim") \/ Continue(c, "recheck") \/ Continue(c, "strict")
        \/ Continue(c, "reprove") \/ Continue(c, "send") \/ Continue(c, "undry")
    BY <1>8 DEF FinalizeDryRun, Refresh, Recheck, Reprove, Disproved, Strict
  <2> QED
    BY <1>1, <1>2, <2>1
<1>9. CASE Send(c) \/ Answer(c) \/ Verify(c) \/ RVerify(c) \/ RUnchanged(c)
  <2>1. \/ Leave(c) \/ Continue(c, "sent") \/ Continue(c, "uncertain") \/ Continue(c, "accept")
        \/ Continue(c, "next")
    BY <1>9 DEF Send, Answer, Verify, RVerify, RUnchanged
  <2> QED
    BY <1>1, <1>2, <2>1
<1> QED
  BY <1>3, <1>4, <1>5, <1>6, <1>7, <1>8, <1>9 DEF CallStep

LEMMA RecoversAfter ==
  ASSUME NEW d \in Calls, NEW r, MyRequest(d)' = r,
         pc'[d] \in {"rread", "runchanged"} /\ job'[d].quiet /\ d \notin lost' /\ lease'.holder = d =>
           StillNext(r) /\ (pc'[d] = "runchanged" => r \notin landed'),
         pc'[d] = "runchanged" => job'[d].quiet
  PROVE  Recovers(d)'
<1>1. StillNext(r) => r \notin wire' /\ \A e \in Calls : pc'[e] = "send" => Mine(e)' # r
  BY StillAfter
<1> QED
  BY <1>1 DEF Recovers, Still

LEMMA CallRecovers ==
  ASSUME IInv, WireInv, NEW c \in Calls, CallStep(c)
  PROVE  \A d \in Calls : Recovers(d)'
<1>0. /\ TypeOK /\ CallInv(c) /\ OthersStay(c) /\ KeepsRequests /\ QuietIsStill /\ LandedGrew
      /\ \A d \in Calls : CallInv(d) /\ Named(d) /\ Heeds(d) /\ Recovers(d)
      /\ landed' = landed /\ landed \subseteq Requests
  BY CallFrame, CallRequests, WireFrame DEF IInv, WireInv, CallInv, TypeOK
<1>1. {"rload", "rread", "runchanged"} \subseteq Committing
      /\ {"rread", "runchanged", "strict"} \subseteq Waiting
  BY DEF Committing, Preparing, Steps, Waiting, Sending, Recovering
<1>2. ASSUME NEW d \in Calls \ {c} PROVE Recovers(d)'
  <2>1. pc'[d] = pc[d] /\ job'[d] = job[d] /\ (d \in lost' <=> d \in lost)
    BY <1>0 DEF OthersStay
  <2>2. CASE pc[d] \notin {"rread", "runchanged"}
    BY <2>1, <2>2 DEF Recovers
  <2>3. CASE pc[d] \in {"rread", "runchanged"}
    <3>1. MyRequest(d)' = MyRequest(d) /\ MyRequest(d) \in Requests
      BY <1>0, <1>1, <2>1, <2>3, RequestStays, MyRequestTypes
    <3>2. PICK r \in Requests : r = MyRequest(d)
      BY <3>1
    <3>3. ASSUME job[d].quiet, d \notin lost, lease'.holder = d
          PROVE  StillNext(r) /\ (pc[d] = "runchanged" => r \notin landed)
      <4>1. lease.holder = d
        BY <3>3, LeaseFrame, NoneAssumption
      <4>2. Still(r) /\ (pc[d] = "runchanged" => r \notin landed)
        BY <1>0, <2>3, <3>2, <3>3, <4>1 DEF Recovers
      <4>3. ~EntersSend(c)
        BY <1>0, <1>1, <4>1, GuardHolds DEF EntersSend
      <4> QED
        BY <1>0, <4>2, <4>3, StillFrame
    <3>4. pc[d] = "runchanged" => job[d].quiet
      BY <1>0 DEF Recovers
    <3> QED
      BY <1>0, <2>1, <3>1, <3>2, <3>3, <3>4, RecoversAfter
  <2> QED
    BY <2>2, <2>3
<1>3. Recovers(c)'
  <2>1. CASE pc'[c] \notin {"rread", "runchanged"}
    BY <2>1 DEF Recovers
  <2>2. CASE pc'[c] \in {"rread", "runchanged"}
    <3>0. ~EntersSend(c)
      BY <2>2 DEF EntersSend
    <3>1. /\ job'[c].o = job[c].o /\ job'[c].i = job[c].i
          /\ \/ /\ pc[c] = "rload" /\ pc'[c] = "rread"
                /\ job'[c].quiet = (MyRequest(c) \in quiet)
             \/ /\ pc[c] = "rread" /\ pc'[c] = "runchanged" /\ job'[c] = job[c] /\ job[c].quiet
                /\ Guards(c, Unresolved) /\ IsBefore(MyRequest(c))
             \/ /\ pc'[c] = pc[c] /\ job'[c] = job[c]
                /\ lease' = lease \/ (c \notin lost /\ Renewable(c))
                /\ c \notin lost
      BY <1>0, <2>2, RecoveringCall
    <3>2. pc[c] \in {"rload", "rread", "runchanged"}
      BY <2>2, <3>1
    <3>3. MyRequest(c)' = MyRequest(c) /\ MyRequest(c) \in Requests
      BY <1>0, <1>1, <3>1, <3>2, RequestStays, MyRequestTypes
    <3>4. PICK r \in Requests : r = MyRequest(c)
      BY <3>3
    <3>5. CASE pc[c] = "rload" /\ pc'[c] = "rread" /\ job'[c].quiet = (MyRequest(c) \in quiet)
      <4>1. job'[c].quiet => StillNext(r)
        BY <1>0, <3>0, <3>4, <3>5, StillFrame DEF QuietIsStill
      <4> QED
        BY <3>3, <3>4, <3>5, <4>1, RecoversAfter
    <3>6. CASE /\ pc[c] = "rread" /\ pc'[c] = "runchanged" /\ job'[c] = job[c] /\ job[c].quiet
               /\ Guards(c, Unresolved) /\ IsBefore(MyRequest(c))
      <4>1. lease.holder = c /\ c \notin lost
        BY <1>0, <1>1, <3>6, GuardHolds DEF Guards
      <4>2. Still(r)
        BY <1>0, <3>4, <3>6, <4>1 DEF Recovers
      <4>3. StillNext(r)
        BY <1>0, <3>0, <4>2, StillFrame
      <4>4. r \notin landed
        <5>1. qbo[r[2]].token = attempt[r].token /\ attempt[r].token \in Nat
          BY <3>4, <3>6, Parts, <1>0 DEF IsBefore, TableTypes, Attempts
        <5> QED
          BY <1>0, <5>1 DEF LandedGrew
      <4> QED
        BY <1>0, <3>3, <3>4, <3>6, <4>3, <4>4, RecoversAfter
    <3>7. CASE /\ pc'[c] = pc[c] /\ job'[c] = job[c]
               /\ lease' = lease \/ (c \notin lost /\ Renewable(c))
               /\ c \notin lost
      <4>1. ASSUME job[c].quiet, lease'.holder = c
            PROVE  StillNext(r) /\ (pc[c] = "runchanged" => r \notin landed)
        <5>1. lease.holder = c
          BY <1>0, <1>1, <2>2, <3>7, <4>1, Holds
        <5>2. Still(r) /\ (pc[c] = "runchanged" => r \notin landed)
          BY <1>0, <2>2, <3>4, <3>7, <4>1, <5>1 DEF Recovers
        <5> QED
          BY <1>0, <3>0, <5>2, StillFrame
      <4>2. pc[c] = "runchanged" => job[c].quiet
        BY <1>0 DEF Recovers
      <4> QED
        BY <1>0, <3>3, <3>4, <3>7, <4>1, <4>2, RecoversAfter
    <3> QED
      BY <3>1, <3>5, <3>6, <3>7
  <2> QED
    BY <2>1, <2>2
<1> QED
  BY <1>2, <1>3
LEMMA EnvironmentWire ==
  ASSUME TypeOK, Environment
  PROVE  /\ wire' \subseteq wire /\ landed \subseteq landed' /\ landed' \subseteq landed \cup wire
         /\ \A i \in Legs : /\ qbo'[i].token >= qbo[i].token
                            /\ qbo'[i].content = "moved" =>
                                 qbo[i].content = "moved" \/ \E o \in Ops : <<o, i>> \in landed'
         /\ \A r \in landed' \ landed : qbo'[r[2]].token > attempt[r].token
<1>0. /\ qbo \in [Legs -> [content : {"held", "moved", "elsewhere"}, token : Nat]]
      /\ wire \subseteq Requests /\ landed \subseteq Requests
      /\ \A r \in Requests : attempt[r].token \in Nat
      /\ \A i \in Legs : qbo[i].token \in Nat
  BY Parts DEF TypeOK, TableTypes, Attempts
<1>1. CASE \E r \in Requests : Land(r)
  <2>1. PICK r \in Requests : Land(r)
    BY <1>1
  <2>2. PICK o \in Ops, i \in Legs : r = <<o, i>>
    BY DEF Requests
  <2>3. r \in wire /\ wire' = wire \ {r}
    BY <2>1 DEF Land
  <2>4. CASE qbo[i].token = attempt[r].token
    <3> DEFINE e == [content |-> "moved", token |-> qbo[i].token + 1]
    <3>1. qbo' = [qbo EXCEPT ![i] = e] /\ landed' = landed \cup {r}
      BY <2>1, <2>2, <2>4 DEF Land
    <3>2. /\ qbo'[i].token = qbo[i].token + 1 /\ qbo[i].token \in Nat
          /\ \A k \in Legs \ {i} : qbo'[k] = qbo[k]
      BY <1>0, <3>1
    <3>3. \A k \in Legs : qbo'[k].token >= qbo[k].token
      BY <1>0, <3>2
    <3>4. \A k \in Legs : qbo'[k].content = "moved" =>
                            qbo[k].content = "moved" \/ \E s \in Ops : <<s, k>> \in landed'
      BY <2>2, <3>1, <3>2
    <3>5. \A s \in landed' \ landed : qbo'[s[2]].token > attempt[s].token
      <4>1. qbo'[i].token > attempt[r].token
        BY <2>4, <3>2
      <4>2. \A s \in landed' \ landed : s = r
        BY <3>1
      <4>3. r[2] = i
        BY <2>2
      <4> QED
        BY <4>1, <4>2, <4>3
    <3> HIDE DEF e
    <3> QED
      BY <2>3, <3>1, <3>3, <3>4, <3>5
  <2>5. CASE qbo[i].token # attempt[r].token
    <3>1. qbo' = qbo /\ landed' = landed
      BY <2>1, <2>2, <2>5 DEF Land
    <3> QED
      BY <1>0, <2>3, <3>1
  <2> QED
    BY <2>4, <2>5
<1>2. CASE \E i \in Legs : EditInQuickBooks(i)
  <2>1. PICK i \in Legs : EditInQuickBooks(i)
    BY <1>2
  <2>2. PICK content \in {qbo[i].content, "elsewhere"} :
          qbo' = [qbo EXCEPT ![i] = [content |-> content, token |-> @.token + 1]]
    BY <2>1 DEF EditInQuickBooks
  <2>3. UNCHANGED <<wire, landed>>
    BY <2>1 DEF EditInQuickBooks
  <2>4. /\ qbo'[i].token = qbo[i].token + 1 /\ qbo'[i].content = content
        /\ \A k \in Legs \ {i} : qbo'[k] = qbo[k]
    BY <1>0, <2>2
  <2>5. \A k \in Legs : qbo'[k].token >= qbo[k].token
    BY <1>0, <2>4
  <2>6. \A k \in Legs : qbo'[k].content = "moved" => qbo[k].content = "moved"
    BY <2>2, <2>4
  <2> QED
    BY <2>3, <2>5, <2>6
<1>3. CASE ~(\E r \in Requests : Land(r)) /\ ~(\E i \in Legs : EditInQuickBooks(i))
  <2>1. wire' \subseteq wire /\ UNCHANGED <<qbo, landed>>
    BY <1>3 DEF Environment, Lose, BecomeQuiet, Others, Expire, LeaseExpires, ToggleDryRun, qboVars
  <2> QED
    BY <1>0, <2>1
<1> QED
  BY <1>1, <1>2, <1>3

LEMMA EnvironmentLease ==
  ASSUME ~LongStalls, Environment, \A d \in Calls : Heeds(d)
  PROVE  /\ \A d \in Calls : Heeds(d)'
         /\ \A d \in Calls : lease'.holder = d => lease.holder = d
         /\ UNCHANGED lost
<1>1. UNCHANGED <<lost, pc>>
  BY DEF Environment, Land, Lose, BecomeQuiet, EditInQuickBooks, Others, Expire, LeaseExpires,
     ToggleDryRun
<1>2. CASE LeaseExpires
  <2>1. lease'.holder = lease.holder
    BY <1>2 DEF LeaseExpires
  <2>2. \A d \in Calls : pc[d] \in Sending \cup Recovering => d \in lost \/ d = lease.holder
    BY <1>2 DEF LeaseExpires
  <2> QED
    BY <1>1, <2>1, <2>2 DEF Heeds, Sending, Recovering
<1>3. CASE \E i \in Legs : Others(i)
  <2>1. lease'.holder = None
    BY <1>3 DEF Others
  <2> QED
    BY <1>1, <2>1, NoneAssumption DEF Heeds
<1>4. CASE ~LeaseExpires /\ ~\E i \in Legs : Others(i)
  <2>1. UNCHANGED lease
    BY <1>4 DEF Environment, Land, Lose, BecomeQuiet, EditInQuickBooks, Expire, ToggleDryRun
  <2> QED
    BY <1>1, <2>1 DEF Heeds, Sending, Recovering
<1> QED
  BY <1>2, <1>3, <1>4

LEMMA EnvironmentWireInv ==
  ASSUME ~LongStalls, IInv, WireInv, Environment
  PROVE  WireInv'
<1>0. /\ TypeOK /\ \A d \in Calls : CallInv(d) /\ Named(d) /\ Heeds(d) /\ Recovers(d)
      /\ QuietIsStill /\ SenderReaches /\ SentReaches /\ LandedGrew /\ MovedLanded /\ SeenLanded
      /\ VerifiedWasApplied
      /\ wire \subseteq Requests /\ landed \subseteq Requests /\ quiet \subseteq Requests
  BY DEF IInv, WireInv, CallInv, TypeOK
<1>1. Evolves /\ UNCHANGED <<attempt, sends, pc, job>>
  BY <1>0, EnvironmentFrame
<1>2. /\ wire' \subseteq wire /\ landed \subseteq landed' /\ landed' \subseteq landed \cup wire
      /\ \A i \in Legs : /\ qbo'[i].token >= qbo[i].token
                         /\ qbo'[i].content = "moved" =>
                              qbo[i].content = "moved" \/ \E o \in Ops : <<o, i>> \in landed'
      /\ \A r \in landed' \ landed : qbo'[r[2]].token > attempt[r].token
  BY <1>0, EnvironmentWire
<1>3. /\ \A d \in Calls : Heeds(d)'
      /\ \A d \in Calls : lease'.holder = d => lease.holder = d
      /\ UNCHANGED lost
  BY <1>0, EnvironmentLease
<1>4. \A r \in Requests : Still(r) => StillNext(r)
  BY <1>1, <1>2 DEF Still, StillNext, Mine
<1>5. \A d \in Calls : Recovers(d)'
  <2>1. TAKE d \in Calls
  <2>2. CASE pc[d] \notin {"rread", "runchanged"}
    BY <1>1, <2>2 DEF Recovers
  <2>3. CASE pc[d] \in {"rread", "runchanged"}
    <3>1. KeepsRequests
      BY <1>1 DEF KeepsRequests, Evolves, OpsStay
    <3>2. pc[d] \in Committing
      BY <2>3 DEF Committing, Preparing, Steps
    <3>3. MyRequest(d)' = MyRequest(d) /\ MyRequest(d) \in Requests
      BY <1>0, <1>1, <2>3, <3>1, <3>2, RequestStays, MyRequestTypes
    <3>4. PICK r \in Requests : r = MyRequest(d)
      BY <3>3
    <3>5. ASSUME job[d].quiet, d \notin lost, lease'.holder = d
          PROVE  StillNext(r) /\ (pc[d] = "runchanged" => r \notin landed')
      <4>1. Still(r) /\ (pc[d] = "runchanged" => r \notin landed)
        BY <1>0, <1>3, <2>3, <3>4, <3>5 DEF Recovers
      <4> QED
        BY <1>2, <1>4, <4>1 DEF Still
    <3>6. pc[d] = "runchanged" => job[d].quiet
      BY <1>0 DEF Recovers
    <3> QED
      BY <1>1, <1>3, <3>3, <3>4, <3>5, <3>6, RecoversAfter
  <2> QED
    BY <2>2, <2>3
<1>6. QuietIsStill'
  <2>1. ASSUME NEW r \in quiet' PROVE StillNext(r)
    <3>1. CASE r \in quiet
      BY <1>0, <1>4, <3>1 DEF QuietIsStill
    <3>2. CASE r \notin quiet
      <4>0. quiet' # quiet
        BY <2>1, <3>2
      <4>1. r \in Requests /\ BecomeQuiet(r)
        <5>1. PICK s \in Requests : BecomeQuiet(s)
          BY <4>0 DEF Environment, Land, Lose, EditInQuickBooks, Others, Expire,
             LeaseExpires, ToggleDryRun, dbVars
        <5>2. r = s
          BY <2>1, <3>2, <5>1 DEF BecomeQuiet
        <5> QED
          BY <5>1, <5>2
      <4>2. \A d \in Calls : pc[d] = "send" => Mine(d) # r
        BY <1>0, <4>1, ClaimedIsMine DEF BecomeQuiet, PreSend
      <4>3. r \notin wire
        BY <4>1 DEF BecomeQuiet
      <4> QED
        BY <1>4, <4>1, <4>2, <4>3 DEF Still
    <3> QED
      BY <3>1, <3>2
  <2> QED
    BY <2>1, StillAfter DEF QuietIsStill, Still
<1>7. SenderReaches' /\ SentReaches'
  BY <1>0, <1>1, <1>2 DEF SenderReaches, SentReaches, Mine
<1>8. LandedGrew'
  <2>1. ASSUME NEW r \in landed PROVE qbo'[r[2]].token > attempt[r].token
    <3>1. r \in Requests /\ r[2] \in Legs /\ qbo[r[2]].token > attempt[r].token
      BY <1>0, <2>1 DEF LandedGrew, Requests
    <3>2. qbo[r[2]].token \in Nat /\ attempt[r].token \in Nat /\ qbo'[r[2]].token \in Nat
      <4>1. TypeOK'
        BY NextTypes DEF Next
      <4> QED
        BY <1>0, <1>1, <3>1, <4>1, Parts DEF TypeOK, TableTypes, Attempts
    <3> QED
      BY <1>2, <3>1, <3>2
  <2> QED
    BY <1>1, <1>2, <2>1 DEF LandedGrew
<1>9. MovedLanded' /\ SeenLanded' /\ VerifiedWasApplied'
  <2>1. MovedLanded'
    BY <1>0, <1>2 DEF MovedLanded
  <2>2. SeenLanded'
    BY <1>0, <1>1, <1>2 DEF SeenLanded
  <2>3. VerifiedWasApplied'
    BY <1>0, <1>1, <1>2 DEF VerifiedWasApplied
  <2> QED
    BY <2>1, <2>2, <2>3
<1> QED
  BY <1>3, <1>5, <1>6, <1>7, <1>8, <1>9 DEF WireInv

LEMMA InitWire == Init => WireInv
BY NoneAssumption DEF Init, WireInv, Heeds, Recovers, QuietIsStill, SenderReaches, SentReaches, LandedGrew,
   MovedLanded, SeenLanded, VerifiedWasApplied, Sending, Recovering, NoAttempt

LEMMA NextWire == ~LongStalls /\ IInv /\ WireInv /\ [Next]_vars => WireInv'
<1> SUFFICES ASSUME ~LongStalls, IInv, WireInv, [Next]_vars PROVE WireInv'
  OBVIOUS
<1>1. ASSUME NEW c \in Calls, CallStep(c) PROVE WireInv'
  <2>1. TypeOK /\ CallInv(c) /\ QuietIsStill /\ \A d \in Calls : Heeds(d)
    BY DEF IInv, WireInv
  <2>2. \A d \in Calls : Heeds(d)'
    BY <1>1, <2>1, CallHeeds
  <2>3. QuietIsStill'
    BY <1>1, <2>1, CallQuiet
  <2> QED
    BY <1>1, <2>2, <2>3, CallRecovers, CallSent, CallSeen, CallVerified DEF WireInv
<1>2. CASE Environment
  BY <1>2, EnvironmentWireInv
<1>3. CASE UNCHANGED vars
  BY <1>3 DEF vars, WireInv, Heeds, Recovers, Still, MyRequest, Request, Mine, QuietIsStill,
     SenderReaches, SentReaches, LandedGrew, MovedLanded, SeenLanded, VerifiedWasApplied
<1> QED
  BY <1>1, <1>2, <1>3 DEF Next
----------------------------------------------------------------------------
(* Theorems.                                                                 *)

\* Every step of a commit, a reconciliation or a retry leaves rows, attempts,
\* entities and leases in their types: the revisions and SyncTokens written
\* come from rows and entities (Transfers.tla, all of it).
THEOREM TypesHold == Spec => []TypeOK
<1>1. IInv => TypeOK
  BY DEF IInv
<1> QED
  BY <1>1, AlwaysIInv, PTL

\* commitTransfer sends the second leg only once the first is verified or was a
\* dry run, whatever calls overlap, crash or lose their leases.
THEOREM SecondLegWaits == Spec => []SecondAfterFirst
<1>1. IInv => SecondAfterFirst
  BY DEF IInv
<1> QED
  BY <1>1, AlwaysIInv, PTL

\* finalizeVerified, finalizeDryRun, markUncertain and finalizeUnchanged keep the
\* status of a row in step with the attempts made for it.
THEOREM RowsTellOutcome == Spec => []RowTellsOutcome
<1>1. IInv => RowTellsOutcome
  BY DEF IInv
<1> QED
  BY <1>1, AlwaysIInv, PTL

\* markPreparedRetryable and its kin never leave the second leg of an operation
\* waiting when its first was given up, but for one that has expired.
THEOREM NothingStaysBehind == Spec => []NothingLeftBehind
<1>1. IInv => NothingLeftBehind
  BY DEF IInv
<1> QED
  BY <1>1, AlwaysIInv, PTL

\* As long as calls do not miss their heartbeats for two leases on end:
LEMMA AlwaysWireInv == ASSUME ~LongStalls PROVE Spec => []WireInv
<1>1. Init => WireInv
  BY InitWire
<1>2. IInv /\ WireInv /\ [Next]_vars => WireInv'
  BY NextWire
<1> QED
  BY <1>1, <1>2, AlwaysIInv, PTL DEF Spec

\* A leg that was given up, was found unchanged after the quiet window of
\* reconcileLeg or ended as a dry run never reaches QuickBooks, not even late;
THEOREM UnsentStaysUntouched == ASSUME ~LongStalls PROVE Spec => []UnsentIsUntouched
<1>1. WireInv => UnsentIsUntouched
  <2>1. SUFFICES ASSUME WireInv, NEW r \in Requests, attempt[r].status \in {"RETRYABLE", "UNCHANGED", "DRY_RUN"}
                 PROVE  r \notin wire \cup landed
    BY DEF UnsentIsUntouched
  <2> QED
    BY <2>1 DEF WireInv, SentReaches, Reached
<1> QED
  BY <1>1, AlwaysWireInv, PTL

\* What finalizeVerified records as verified is what QuickBooks applied.
THEOREM VerifiedWasSentAndApplied == ASSUME ~LongStalls PROVE Spec => []VerifiedWasApplied
<1>1. WireInv => VerifiedWasApplied
  BY DEF WireInv
<1> QED
  BY <1>1, AlwaysWireInv, PTL
=============================================================================
