--------------------------- MODULE MCSessionManager ---------------------------
(* Instances of SessionManager for TLC.                                     *)
EXTENDS SessionManager, TLC

CONSTANTS t1, t2, a1, a2, b1

\* Two tabs; the first runs two calls at a time, the second one.
TwoTabs == (a1 :> t1 @@ a2 :> t1 @@ b1 :> t2)

\* One tab that runs two calls at a time: a client with a memory store.
OneTab == (a1 :> t1 @@ a2 :> t1)

\* Two tabs that run one call at a time.
OneCallEach == (a1 :> t1 @@ b1 :> t2)

Symmetry == Permutations(Keys) \cup Permutations(Grants) \cup Permutations({a1, a2} \cap Calls)
=============================================================================
