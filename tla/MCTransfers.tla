---------------------------- MODULE MCTransfers ----------------------------
(* Transfers for TLC: calls and operations are interchangeable.               *)
EXTENDS Transfers, TLC

CommitKinds == {"prepare", "commit"}
Symmetry == Permutations(Calls) \cup Permutations(Ops)
=============================================================================
