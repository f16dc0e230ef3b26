--------------------------- MODULE MCSessionRequest ---------------------------
(* One client whose local clock is right or far behind, with little time for    *)
(* everything, so that every margin is exact.                                   *)
EXTENDS SessionRequest

LocalClocks == {0, 5}

=============================================================================
