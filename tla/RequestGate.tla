------------------------------ MODULE RequestGate ------------------------------
(***************************************************************************)
(* The gate every QuickBooks GET of one realm passes                        *)
(* (server/src/lib/qbo/getGate.ts), with the GET that uses it               *)
(* (request and requestUngated of server/src/lib/qbo/real.ts): promises     *)
(* chained into a queue, two deadlines, aborts, the 429 of a GET or of a    *)
(* POST that extends the cooldown, and the 401 that takes a second turn.    *)
(*                                                                         *)
(* A deadline is the time left until it; a request's turn is the number of  *)
(* its promise in the chain.                                                *)
(***************************************************************************)
EXTENDS Integers, FiniteSets

CONSTANTS
    Requests,    \* GETs of the realm, each made once
    Spacing,     \* QBO_GET_MIN_START_SPACING_MS, in ticks
    RetryAfters, \* the lengths of a provider's cooldown, in ticks
    MaxPosts     \* bound: POSTs that QuickBooks answers with a 429

ASSUME GateAssumption ==
    /\ IsFiniteSet(Requests)
    /\ Spacing \in Nat
    /\ RetryAfters \subseteq Nat
    /\ MaxPosts \in Nat

VARIABLES
    pc,       \* where a request is
    turn,     \* the number of its last turn in the chain, 0 before the first
    turns,    \* how many turns were chained to the tail
    released, \* the turns that are resolved
    sleep,    \* time left of the timer of a request
    retried,  \* whether it is the retry after a 401
    aborted,  \* whether its caller has aborted it
    spacing,  \* time left until nextStartAt
    cooldown, \* time left until notBefore
    posts     \* POSTs that were rejected with a 429

vars == <<pc, turn, turns, released, sleep, retried, aborted, spacing, cooldown, posts>>

-----------------------------------------------------------------------------

Stages ==
    {"idle",       \* not called yet
     "queued",     \* waits for the turns before its own
     "cooling",    \* has the turn and sleeps until a deadline
     "token",      \* its operation runs, the access token may be refreshed
     "sent",       \* the request is on its way
     "refreshing", \* left the gate after a 401, refreshes before its retry
     "done"}

\* Past the deadlines and before release(): the operation of the gate.
Running == {r \in Requests : pc[r] \in {"token", "sent"}}

Later(a, b) == IF a < b THEN b ELSE a

\* Mutant: the tail is the turn alone.
NeighbourReached(r) == turn[r] = 1 \/ turn[r] - 1 \in released

\* state.tail is previous.then(() => turn): it resolves when the turn is
\* resolved and so are all the turns before it.
TurnReached(r) == 1..(turn[r] - 1) \subseteq released

\* The deadline the loop compares with the clock.
Deadline == Later(spacing, cooldown)

Init ==
    /\ pc = [r \in Requests |-> "idle"]
    /\ turn = [r \in Requests |-> 0]
    /\ turns = 0
    /\ released = {}
    /\ sleep = [r \in Requests |-> 0]
    /\ retried = [r \in Requests |-> FALSE]
    /\ aborted = [r \in Requests |-> FALSE]
    /\ spacing = 0 /\ cooldown = 0
    /\ posts = 0

-----------------------------------------------------------------------------
(* The gate.                                                               *)

\* The synchronous part of withQboGetGate: a turn at the tail of the chain.
Enqueue(r) ==
    /\ pc[r] \in {"idle", "refreshing"}
    /\ turns' = turns + 1
    /\ turn' = [turn EXCEPT ![r] = turns']
    /\ pc' = [pc EXCEPT ![r] = "queued"]
    /\ retried' = [retried EXCEPT ![r] = pc[r] = "refreshing"]
    /\ UNCHANGED <<released, sleep, aborted, spacing, cooldown, posts>>

\* The turn has come, or the timer has fired: the loop reads both deadlines.
LoopAgain(r) ==
    \/ pc[r] = "queued" /\ TurnReached(r)
    \/ pc[r] = "cooling" /\ sleep[r] = 0

\* A deadline lies ahead: sleep until it.
Cool(r) ==
    /\ LoopAgain(r)
    /\ ~aborted[r]
    /\ Deadline > 0
    /\ sleep' = [sleep EXCEPT ![r] = Deadline]
    /\ pc' = [pc EXCEPT ![r] = "cooling"]
    /\ UNCHANGED <<turn, turns, released, retried, aborted, spacing, cooldown, posts>>

\* No deadline lies ahead and the caller has not aborted: the operation starts.
StartsNow(r) == LoopAgain(r) /\ Deadline = 0 /\ ~aborted[r]

Start(r) ==
    /\ StartsNow(r)
    /\ spacing' = Spacing
    /\ pc' = [pc EXCEPT ![r] = "token"]
    /\ UNCHANGED <<turn, turns, released, sleep, retried, aborted, cooldown, posts>>

\* finally { release() }: the turn resolves, whatever became of the request.
Release(r) == released' = released \cup {turn[r]}

\* An aborted request leaves the queue, its timer, or its operation.
LeaveAborted(r) ==
    /\ aborted[r]
    /\ pc[r] \in {"queued", "cooling", "token", "sent"}
    /\ Release(r)
    /\ pc' = [pc EXCEPT ![r] = "done"]
    /\ sleep' = [sleep EXCEPT ![r] = 0]
    /\ UNCHANGED <<turn, turns, retried, aborted, spacing, cooldown, posts>>

-----------------------------------------------------------------------------
(* The operation inside the gate.                                          *)

\* ensureFreshToken has returned, at once or after a refresh: the GET leaves.
Send(r) ==
    /\ pc[r] = "token"
    /\ ~aborted[r]
    /\ pc' = [pc EXCEPT ![r] = "sent"]
    /\ UNCHANGED <<turn, turns, released, sleep, retried, aborted, spacing, cooldown, posts>>

\* The answer, an error, the 30 s timeout, or a token that could not be refreshed.
Finish(r) ==
    /\ pc[r] \in {"token", "sent"}
    /\ Release(r)
    /\ pc' = [pc EXCEPT ![r] = "done"]
    /\ UNCHANGED <<turn, turns, sleep, retried, aborted, spacing, cooldown, posts>>

\* A 429 sets the cooldown of the realm; the GET itself is not retried.
RateLimited(r, d) ==
    /\ pc[r] = "sent"
    /\ cooldown' = Later(cooldown, d)
    /\ Release(r)
    /\ pc' = [pc EXCEPT ![r] = "done"]
    /\ UNCHANGED <<turn, turns, sleep, retried, aborted, spacing, posts>>

\* Mutant: the retry is made inside the gate.
UnauthorizedInside(r) ==
    /\ pc[r] = "sent"
    /\ ~retried[r]
    /\ pc' = [pc EXCEPT ![r] = "refreshing"]
    /\ UNCHANGED <<turn, turns, released, sleep, retried, aborted, spacing, cooldown, posts>>

\* The first 401 leaves the gate before the token is refreshed.
Unauthorized(r) ==
    /\ pc[r] = "sent"
    /\ ~retried[r]
    /\ Release(r)
    /\ pc' = [pc EXCEPT ![r] = "refreshing"]
    /\ UNCHANGED <<turn, turns, sleep, retried, aborted, spacing, cooldown, posts>>

\* The refresh after a 401 failed: its error is the request's.
RefreshFails(r) ==
    /\ pc[r] = "refreshing"
    /\ pc' = [pc EXCEPT ![r] = "done"]
    /\ UNCHANGED <<turn, turns, released, sleep, retried, aborted, spacing, cooldown, posts>>

-----------------------------------------------------------------------------
(* Around the gate.                                                        *)

\* The caller of a GET aborts it.
Abort(r) ==
    /\ pc[r] # "done"
    /\ ~aborted[r]
    /\ aborted' = [aborted EXCEPT ![r] = TRUE]
    /\ UNCHANGED <<pc, turn, turns, released, sleep, retried, spacing, cooldown, posts>>

\* A POST, which takes no turn, is answered with a 429.
PostRateLimited(d) ==
    /\ posts < MaxPosts
    /\ posts' = posts + 1
    /\ cooldown' = Later(cooldown, d)
    /\ UNCHANGED <<pc, turn, turns, released, sleep, retried, aborted, spacing>>

Before(t) == IF t = 0 THEN 0 ELSE t - 1

\* Time passes.
Tick ==
    /\ \/ Deadline > 0
       \/ \E r \in Requests : sleep[r] > 0
    /\ spacing' = Before(spacing)
    /\ cooldown' = Before(cooldown)
    /\ sleep' = [r \in Requests |-> Before(sleep[r])]
    /\ UNCHANGED <<pc, turn, turns, released, retried, aborted, posts>>

\* What a request does on its own; none of it waits for a caller.
Advance(r) ==
    \/ pc[r] # "idle" /\ Enqueue(r)
    \/ Cool(r) \/ Start(r) \/ LeaveAborted(r)
    \/ Send(r) \/ Finish(r) \/ Unauthorized(r) \/ RefreshFails(r)
    \/ \E d \in RetryAfters : RateLimited(r, d)

Next ==
    \/ \E r \in Requests : Enqueue(r) \/ Advance(r) \/ Abort(r)
    \/ \E d \in RetryAfters : PostRateLimited(d)
    \/ Tick

Fairness ==
    /\ \A r \in Requests : WF_vars(Advance(r))
    /\ WF_vars(Tick)

Spec == Init /\ [][Next]_vars

FairSpec == Spec /\ Fairness

-----------------------------------------------------------------------------
(* Properties.                                                             *)

\* The type of every variable of the gate.
TypeOK ==
    /\ pc \in [Requests -> Stages]
    /\ turn \in [Requests -> Nat]
    /\ turns \in Nat
    /\ released \subseteq 1..turns
    /\ sleep \in [Requests -> Nat]
    /\ retried \in [Requests -> BOOLEAN]
    /\ aborted \in [Requests -> BOOLEAN]
    /\ spacing \in Nat /\ cooldown \in Nat /\ posts \in Nat

\* At most one operation runs in the gate of a realm, although waiters ahead
\* in the queue abort and resolve their turns out of order, and retries of a
\* 401 come back with a second turn.
OneGetAtATime == \A r, s \in Running : r = s

\* Operations start in the order their calls came: nobody who asked before is
\* still in the gate when an operation starts.
StartsInOrder ==
    [][\A r, s \in Requests :
          /\ r \in Running' \ Running
          /\ s # r
          /\ pc[s] \in {"queued", "cooling", "token", "sent"}
          => turn[r] < turn[s]]_vars

\* Nobody waits for ever: a call leaves the gate in the end, after a 401 too
\* (whose retry queues behind every turn that came meanwhile).
EveryCallEnds ==
    \A r \in Requests : pc[r] = "queued" ~> pc[r] = "done"

\* What the comments promise and the code does not keep (see the README): after a 429 no GET of the realm
\* leaves for QuickBooks before the cooldown is over.
NoGetDuringCooldown ==
    [][\A r \in Requests : pc[r] # "sent" /\ pc'[r] = "sent" => cooldown = 0]_vars

=============================================================================
