-------------------------- MODULE MCDirectPosting --------------------------
(* DirectPosting for TLC: calls and categories are interchangeable.           *)
EXTENDS DirectPosting, TLC

CONSTANTS k1, k2

AllKinds == {"post", "undo", "retry", "categorize", "sync"}
PostKinds == {"post", "categorize", "retry"}
Symmetry == Permutations(Calls) \cup Permutations({k1, k2})
=============================================================================
