-------------------------- MODULE MCObjectLifecycle --------------------------
(* Instances of ObjectLifecycle for TLC.  Two Objects: a depends on the Object *)
(* b, on the resource rb that b manages, or on both.  One Object: a depends on *)
(* a resource rb that others manage.                                           *)
EXTENDS ObjectLifecycle, TLC

CONSTANTS a, b, ra, rb

Full   == {"Observe", "Create", "Update", "Delete"}
Orphan == {"Observe", "Create"}

TwoObjects    == {a, b}
OneObject     == {a}
MCResource    == {ra, rb}
NoResource    == {}
OtherResource == {rb}

OwnManifests == (a :> ra) @@ (b :> rb)
OneManifest  == a :> ra

RefsToBoth   == (a :> {b, rb}) @@ (b :> {})
RefsToObject == (a :> {b}) @@ (b :> {})
RefsCross    == (a :> {rb}) @@ (b :> {a})
RefsToOther  == a :> {rb}

\* The user of a may change between full management and leaving the resource behind.
AOrphans     == (a :> {Full, Orphan}) @@ (b :> {Full})
AllFull      == (a :> {Full}) @@ (b :> {Full})
AnyPolicy    == a :> {Full, Orphan, {"Observe", "Update"}, {"Observe"}}
=============================================================================
