--------------------------- MODULE MCMutationLease ---------------------------
(* Instances of MutationLease for TLC: Ops are interchangeable.             *)
EXTENDS MutationLease, TLC

Symmetry == Permutations(Ops)
=============================================================================
