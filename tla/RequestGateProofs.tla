--------------------------- MODULE RequestGateProofs ---------------------------
(***************************************************************************)
(* Theorems of RequestGate, for any number of GETs and any cooldowns: the  *)
(* gate runs one operation at a time, in the order of the calls.           *)
(***************************************************************************)
EXTENDS RequestGate, TLAPS

\* In the gate: between withQboGetGate's first line and its release().
InGate(r) == pc[r] \in {"queued", "cooling", "token", "sent"}

\* A request in the gate holds a turn of its own that is not resolved yet.
HoldsItsTurn ==
    \A r \in Requests :
        InGate(r) => turn[r] \in 1..turns /\ turn[r] \notin released

TurnsDiffer ==
    \A r, s \in Requests : r # s /\ InGate(r) /\ InGate(s) => turn[r] # turn[s]

\* Past the queue, every turn before the request's own is resolved.
AheadIsReleased ==
    \A r \in Requests :
        pc[r] \in {"cooling", "token", "sent"} => TurnReached(r)

\* The inductive invariant.
IInv == TypeOK /\ HoldsItsTurn /\ TurnsDiffer /\ AheadIsReleased

-----------------------------------------------------------------------------

LEMMA InitIInv == Init => IInv
  BY DEF Init, IInv, TypeOK, Stages, HoldsItsTurn, TurnsDiffer, AheadIsReleased, InGate

\* A request that leaves the gate resolves its own turn: the turns of the others
\* are untouched, and what was resolved stays so.
LEMMA LeavingKeepsIInv ==
    ASSUME IInv, NEW r \in Requests, InGate(r), Release(r),
           NEW next \in {"done", "refreshing"}, pc' = [pc EXCEPT ![r] = next],
           turn' = turn, turns' = turns, retried' = retried, aborted' = aborted,
           sleep' \in [Requests -> Nat], spacing' \in Nat, cooldown' \in Nat, posts' \in Nat
    PROVE  IInv'
<1> USE DEF IInv, InGate, Release
<1>1. TypeOK'
  BY DEF TypeOK, Stages, HoldsItsTurn
<1>2. \A s \in Requests : InGate(s)' => s # r /\ InGate(s) /\ pc'[s] = pc[s]
  BY DEF TypeOK
<1>3. HoldsItsTurn'
  BY <1>2 DEF HoldsItsTurn, TurnsDiffer
<1>4. TurnsDiffer'
  BY <1>2 DEF TurnsDiffer
<1>5. AheadIsReleased'
  BY <1>2 DEF AheadIsReleased, TurnReached
<1> QED
  BY <1>1, <1>3, <1>4, <1>5

\* A request that moves on inside the gate keeps its turn.
LEMMA StayingKeepsIInv ==
    ASSUME IInv, NEW r \in Requests, InGate(r), TurnReached(r),
           NEW next \in {"cooling", "token", "sent"}, pc' = [pc EXCEPT ![r] = next],
           turn' = turn, turns' = turns, released' = released, retried' = retried,
           aborted' = aborted, cooldown' = cooldown, posts' = posts,
           sleep' \in [Requests -> Nat], spacing' \in Nat
    PROVE  IInv'
<1> USE DEF IInv, InGate
<1>1. TypeOK'
  BY DEF TypeOK, Stages
<1>2. \A s \in Requests : InGate(s)' => InGate(s)
  BY DEF TypeOK
<1>3. HoldsItsTurn' /\ TurnsDiffer'
  BY <1>2 DEF HoldsItsTurn, TurnsDiffer
<1>4. AheadIsReleased'
  <2> SUFFICES ASSUME NEW s \in Requests, pc'[s] \in {"cooling", "token", "sent"}
               PROVE  TurnReached(s)
    BY DEF AheadIsReleased, TurnReached
  <2> QED
    BY DEF AheadIsReleased, TypeOK
<1> QED
  BY <1>1, <1>3, <1>4

\* A new turn is above all the others.
LEMMA EnqueueKeepsIInv ==
    ASSUME IInv, NEW r \in Requests, Enqueue(r)
    PROVE  IInv'
<1> USE DEF IInv, InGate, Enqueue
<1>1. TypeOK'
  BY DEF TypeOK, Stages
<1>2. turn'[r] = turns + 1 /\ turns' = turns + 1 /\ turns + 1 \notin released
  BY DEF TypeOK
<1>3. \A s \in Requests : s # r => pc'[s] = pc[s] /\ turn'[s] = turn[s]
  BY DEF TypeOK
<1>4. HoldsItsTurn'
  BY <1>2, <1>3 DEF HoldsItsTurn, TypeOK
<1>5. TurnsDiffer'
  BY <1>2, <1>3 DEF HoldsItsTurn, TurnsDiffer, TypeOK
<1>6. AheadIsReleased'
  BY <1>2, <1>3 DEF AheadIsReleased, TurnReached, TypeOK
<1> QED
  BY <1>1, <1>4, <1>5, <1>6

LEMMA NextIInv == IInv /\ [Next]_vars => IInv'
<1> SUFFICES ASSUME IInv, [Next]_vars PROVE IInv'
  OBVIOUS
<1>1. ASSUME NEW r \in Requests, Enqueue(r) PROVE IInv'
  BY <1>1, EnqueueKeepsIInv
<1>2. ASSUME NEW r \in Requests, Cool(r) \/ Start(r) \/ Send(r) PROVE IInv'
  <2>1. InGate(r) /\ TurnReached(r)
    BY <1>2 DEF Cool, Start, StartsNow, Send, LoopAgain, InGate, IInv, AheadIsReleased
  <2>2. Deadline \in Nat
    BY DEF IInv, TypeOK, Deadline, Later
  <2>3. CASE Cool(r)
    <3>1. sleep' \in [Requests -> Nat]
      BY <2>2, <2>3 DEF Cool, IInv, TypeOK
    <3>2. spacing' \in Nat
      BY <2>3 DEF Cool, IInv, TypeOK
    <3> QED
      BY <2>1, <2>3, <3>1, <3>2, StayingKeepsIInv DEF Cool
  <2>4. CASE Start(r)
    <3>1. sleep' \in [Requests -> Nat] /\ spacing' \in Nat
      BY <2>4, GateAssumption DEF Start, IInv, TypeOK
    <3> QED
      BY <2>1, <2>4, <3>1, StayingKeepsIInv DEF Start
  <2>5. CASE Send(r)
    <3>1. sleep' \in [Requests -> Nat] /\ spacing' \in Nat
      BY <2>5 DEF Send, IInv, TypeOK
    <3> QED
      BY <2>1, <2>5, <3>1, StayingKeepsIInv DEF Send
  <2> QED
    BY <1>2, <2>3, <2>4, <2>5
<1>3. ASSUME NEW r \in Requests, LeaveAborted(r) \/ Finish(r) \/ Unauthorized(r)
      PROVE IInv'
  <2>1. InGate(r)
    BY <1>3 DEF LeaveAborted, Finish, Unauthorized, InGate
  <2>2. sleep' \in [Requests -> Nat] /\ spacing' \in Nat /\ cooldown' \in Nat /\ posts' \in Nat
    BY <1>3 DEF LeaveAborted, Finish, Unauthorized, IInv, TypeOK
  <2>3. CASE LeaveAborted(r) \/ Finish(r)
    BY <2>1, <2>2, <2>3, LeavingKeepsIInv DEF LeaveAborted, Finish
  <2>4. CASE Unauthorized(r)
    BY <2>1, <2>2, <2>4, LeavingKeepsIInv DEF Unauthorized
  <2> QED
    BY <1>3, <2>3, <2>4
<1>4. ASSUME NEW r \in Requests, NEW d \in RetryAfters, RateLimited(r, d) PROVE IInv'
  <2>1. InGate(r)
    BY <1>4 DEF RateLimited, InGate
  <2>2. sleep' \in [Requests -> Nat] /\ spacing' \in Nat /\ cooldown' \in Nat /\ posts' \in Nat
    BY <1>4, GateAssumption DEF RateLimited, Later, IInv, TypeOK
  <2> QED
    BY <1>4, <2>1, <2>2, LeavingKeepsIInv DEF RateLimited
<1>5. ASSUME NEW r \in Requests, RefreshFails(r) PROVE IInv'
  BY <1>5 DEF RefreshFails, IInv, TypeOK, Stages, HoldsItsTurn, TurnsDiffer, AheadIsReleased,
              InGate, TurnReached
<1>6. ASSUME NEW r \in Requests, Abort(r) PROVE IInv'
  BY <1>6 DEF Abort, IInv, TypeOK, HoldsItsTurn, TurnsDiffer, AheadIsReleased,
              InGate, TurnReached
<1>7. ASSUME NEW d \in RetryAfters, PostRateLimited(d) PROVE IInv'
  BY <1>7, GateAssumption DEF PostRateLimited, Later, IInv, TypeOK, HoldsItsTurn, TurnsDiffer,
              AheadIsReleased, InGate, TurnReached
<1>8. ASSUME Tick PROVE IInv'
  BY <1>8 DEF Tick, Before, IInv, TypeOK, HoldsItsTurn, TurnsDiffer,
              AheadIsReleased, InGate, TurnReached
<1>9. CASE UNCHANGED vars
  BY <1>9 DEF vars, IInv, TypeOK, HoldsItsTurn, TurnsDiffer, AheadIsReleased,
              InGate, TurnReached
<1> QED
  BY <1>1, <1>2, <1>3, <1>4, <1>5, <1>6, <1>7, <1>8, <1>9 DEF Next, Advance

\* The induction: IInv holds in every reachable state.
THEOREM AlwaysIInv == Spec => []IInv
<1> QED
  BY InitIInv, NextIInv, PTL DEF Spec

-----------------------------------------------------------------------------

\* Every variable of the gate keeps its type.
THEOREM TypeCorrect == Spec => []TypeOK
<1>1. IInv => TypeOK
  BY DEF IInv
<1> QED
  BY <1>1, AlwaysIInv, PTL

\* The gate of a realm runs one operation at a time, however many callers wait,
\* abort and come back with a retry: of two running operations the one with the
\* later turn would have waited for the other's release.
THEOREM GateIsExclusive == Spec => []OneGetAtATime
<1>1. IInv => OneGetAtATime
  <2> SUFFICES ASSUME IInv, NEW r \in Requests, NEW s \in Requests,
                      r \in Running, s \in Running, r # s
               PROVE  FALSE
    BY DEF OneGetAtATime, Running
  <2>1. InGate(r) /\ InGate(s) /\ TurnReached(r) /\ TurnReached(s)
    BY DEF Running, InGate, IInv, AheadIsReleased
  <2>2. /\ turn[r] \in 1..turns /\ turn[r] \notin released
        /\ turn[s] \in 1..turns /\ turn[s] \notin released
        /\ turn[r] # turn[s]
    BY <2>1 DEF IInv, HoldsItsTurn, TurnsDiffer
  <2>3. turns \in Nat
    BY DEF IInv, TypeOK
  <2>4. turn[r] \in 1..(turn[s] - 1) \/ turn[s] \in 1..(turn[r] - 1)
    BY <2>2, <2>3
  <2> QED
    BY <2>1, <2>2, <2>4 DEF TurnReached
<1> QED
  BY <1>1, AlwaysIInv, PTL

\* Operations start in the order of the calls: whoever is still in the gate when
\* an operation starts has a later turn.
THEOREM GateIsFair == Spec => StartsInOrder
<1>1. ASSUME IInv, [Next]_vars, NEW r \in Requests, NEW s \in Requests,
             r \in Running' \ Running, s # r, InGate(s)
      PROVE  turn[r] < turn[s]
  <2>1. Start(r)
    <3>1. pc'[r] \in {"token", "sent"} /\ pc[r] \notin {"token", "sent"}
      BY <1>1 DEF Running
    <3>2. ASSUME NEW q \in Requests, q # r PROVE ~Start(q)
      BY <1>1, <3>1, <3>2 DEF Start, IInv, TypeOK
    <3> QED
      BY <1>1, <3>1, <3>2 DEF Next, vars, Advance, Enqueue, Cool, LeaveAborted, Send, Finish,
         RateLimited, Unauthorized, RefreshFails, Abort, PostRateLimited, Tick, IInv, TypeOK
  <2>2. InGate(r) /\ TurnReached(r)
    BY <2>1, <1>1 DEF Start, StartsNow, LoopAgain, InGate, IInv, AheadIsReleased
  <2>3. /\ turn[r] \in 1..turns /\ turn[s] \in 1..turns
        /\ turn[s] \notin released /\ turn[r] # turn[s] /\ turns \in Nat
    BY <1>1, <2>2 DEF IInv, HoldsItsTurn, TurnsDiffer, TypeOK
  <2> QED
    BY <2>2, <2>3 DEF TurnReached
<1>2. IInv /\ [Next]_vars =>
        [\A r, s \in Requests :
            /\ r \in Running' \ Running
            /\ s # r
            /\ pc[s] \in {"queued", "cooling", "token", "sent"}
            => turn[r] < turn[s]]_vars
  BY <1>1 DEF InGate
<1> QED
  BY <1>2, AlwaysIInv, PTL DEF Spec, StartsInOrder

=============================================================================
