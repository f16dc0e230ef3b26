---------------------------- MODULE MCStateStores -----------------------------
(* Two calls of one tab, at once or one after the other, and a clearing in another. *)
EXTENDS StateStores, TLC

CONSTANTS c1, c2, c3

InTab == (c1 :> "t1") @@ (c2 :> "t1") @@ (c3 :> "t2")
Kinds == (c1 :> {"grant"}) @@ (c2 :> {"grant", "clear"}) @@ (c3 :> {"clear"})
TabModes == ("t1" :> {"required", "allow-memory"}) @@ ("t2" :> {"required"})

=============================================================================
