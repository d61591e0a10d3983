-------------------------- MODULE AtMostOnceWrite --------------------------
(* What the durable attempts of one QuickBooks entity promise, whatever the   *)
(* calls that move them do: at most one attempt is live at a time, an attempt *)
(* is given up only while its request cannot have left the server, and the    *)
(* request of an attempt leaves the server at most once.                      *)
(*                                                                            *)
(* This is the contract of QboMutationAttempt that its readers (transfers,    *)
(* autopilot, MCP reconciliation) rely on; DurableWriteback implements it.    *)
EXTENDS Naturals

CONSTANT Requests

VARIABLES
  phase,   \* phase[r]: "unused", "armed", "parked", "dropped", "out" or "settled"
  sends    \* sends[r]: how often the request of r has left the server

vars == <<phase, sends>>

Init ==
  /\ phase = [r \in Requests |-> "unused"]
  /\ sends = [r \in Requests |-> 0]

\* No attempt other than r is live.
Alone(r) == \A q \in Requests \ {r} : phase[q] \notin {"armed", "out"}

Move(r, from, to) ==
  /\ phase[r] \in from
  /\ phase' = [phase EXCEPT ![r] = to]
  /\ UNCHANGED sends

Arm(r) == Alone(r) /\ Move(r, {"unused", "parked"}, "armed")
Park(r) == Move(r, {"armed"}, "parked")
Drop(r) == Move(r, {"unused", "armed", "parked"}, "dropped")

\* From here on the request may have reached QuickBooks.
Release(r) == Move(r, {"armed"}, "out")

\* Somebody has established what became of it.
Settle(r) == Move(r, {"out"}, "settled")

Send(r) ==
  /\ phase[r] \in {"out", "settled"}
  /\ sends[r] = 0
  /\ sends' = [sends EXCEPT ![r] = 1]
  /\ UNCHANGED phase

Next == \E r \in Requests :
  Arm(r) \/ Park(r) \/ Drop(r) \/ Release(r) \/ Settle(r) \/ Send(r)

Spec == Init /\ [][Next]_vars
=============================================================================
