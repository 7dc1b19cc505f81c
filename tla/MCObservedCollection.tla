------------------------- MODULE MCObservedCollection -------------------------
(* An instance of ObservedCollection for TLC: one collection, created twice; two *)
(* resources whose hashes collide, and a third.                                  *)
EXTENDS ObservedCollection, TLC

CONSTANTS here, twin1, twin2, third

MCCollection == {here}
MCNamespace  == here :> "ns1"
MCNameOf     == here :> "apps"
MCItem       == {twin1, twin2, third}
MCHash       == (twin1 :> "x") @@ (twin2 :> "x") @@ (third :> "y")
MCSelectable == here :> MCItem
MCMaxUID     == here :> 2
=============================================================================
