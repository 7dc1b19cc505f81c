------------------------- MODULE MCResourceInformers -------------------------
(* An instance of ResourceInformers for TLC: b observes what a manages, a also references  *)
(* a resource of another kind.                                             *)
EXTENDS ResourceInformers, TLC

CONSTANTS a, b, res, ref, kres, kref, i1, i2

MCObject     == {a, b}
MCKind       == {kres, kref}
MCResource   == {res, ref}
MCKindOf     == (res :> kres) @@ (ref :> kref)
MCTarget     == (a :> res) @@ (b :> res)
MCReferences == (a :> {ref}) @@ (b :> {})
MCInformer   == {i1, i2}
=============================================================================
