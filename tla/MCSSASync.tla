------------------------------ MODULE MCSSASync ------------------------------
(* Instances of SSASync for TLC: two fields, of which the second manifest drops one. *)
EXTENDS SSASync, TLC

CONSTANTS f, g, wide, narrow

MCField    == {f, g}
MCManifest == {wide, narrow}
MCSets     == (wide :> {f, g}) @@ (narrow :> {f})
=============================================================================
