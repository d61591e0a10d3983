------------------------------ MODULE MCConnection ------------------------------
(* Connection for TLC: the clients are interchangeable, and so are the callbacks. *)
EXTENDS Connection, TLC

Symmetry == Permutations(Clients) \cup Permutations(Callbacks)

=============================================================================
