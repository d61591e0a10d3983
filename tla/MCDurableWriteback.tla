------------------------- MODULE MCDurableWriteback -------------------------
(* DurableWriteback for TLC: calls and requests are interchangeable.          *)
EXTENDS DurableWriteback, TLC

PersonKinds == {"commit", "undo", "reconcile", "stage"}
LiveKinds == {"live", "reconcile", "retry", "mirror", "supersede"}

Symmetry == Permutations(Calls) \cup Permutations(Requests)
=============================================================================
