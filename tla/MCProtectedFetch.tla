--------------------------- MODULE MCProtectedFetch ---------------------------
(* Instances of ProtectedFetch for TLC.                                     *)
EXTENDS ProtectedFetch, TLC

Symmetry == Permutations(Requests) \cup Permutations(Nonces)
=============================================================================
