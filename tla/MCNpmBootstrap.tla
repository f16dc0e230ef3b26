---------------------------- MODULE MCNpmBootstrap ----------------------------
(* Two runs that may overlap or follow one another, two packages, two polls for *)
(* each wait and three changes of the checkout.                                 *)
EXTENDS NpmBootstrap, TLC

Symmetry == Permutations(Runs)

=============================================================================
