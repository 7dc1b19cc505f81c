------------------------------ MODULE FieldOwners ------------------------------
(***************************************************************************)
(* Objects that manage different fields of one resource of the cluster, as *)
(* docs/server-side-apply.md allows: the server-side apply syncer of each  *)
(* (syncer.go of internal/controller/*/object) under the field manager of  *)
(* its Object, and the rules by which the API server keeps the owners of   *)
(* fields.  The Objects are those of both scopes and of every namespace.   *)
(***************************************************************************)
CONSTANTS
    Object,        \* the Objects with one target
    NameOf,        \* NameOf[o]: the name of o, which another namespace or scope may use too
    FieldsOf,      \* FieldsOf[o]: the fields of its manifest
    Legacy,        \* the field manager of the patch-based syncer, the same for all
    LegacyFields   \* the fields which that syncer has set

VARIABLES
    owned,    \* owned[m]: the fields of the resource that the field manager m owns
    worker    \* worker[o]: where the reconcile of o stands, and the owners it has observed

vars == <<owned, worker>>

Name == {NameOf[o] : o \in Object}
Manager == Name \cup {Legacy}

\* A field is there as long as somebody owns it.
Fields == UNION {owned[m] : m \in Manager}

\* ssaFieldOwner: "provider-kubernetes/" and the name of the Object.
FieldOwner(o) == NameOf[o]

Idle == [pc |-> "idle", seen |-> owned]

Init ==
    /\ owned = [m \in Manager |-> IF m = Legacy THEN LegacyFields ELSE {}]
    /\ worker = [o \in Object |-> Idle]

-----------------------------------------------------------------------------
\* needSSAFieldManagerUpgrade, of the owners observed.
NeedsUpgrade(o) == worker[o].seen[Legacy] # {}

\* Observe: what the field manager of o owns, against what a dry run says it would own.
Observe(o) ==
    /\ worker[o].pc = "idle"
    /\ owned[FieldOwner(o)] # FieldsOf[o] \/ owned[Legacy] # {}
    /\ worker' = [worker EXCEPT ![o] = [pc |-> "sync", seen |-> owned]]
    /\ UNCHANGED owned

\* maybeUpgradeFieldManagers: all the fields of the legacy manager go to o, unless the resource
\* has changed since.
Upgraded(o) ==
    [owned EXCEPT ![FieldOwner(o)] = @ \cup owned[Legacy], ![Legacy] = {}]

UpgradeFieldManagers(o) ==
    /\ worker[o].pc = "sync" /\ NeedsUpgrade(o)
    /\ IF owned = worker[o].seen
       THEN /\ owned' = Upgraded(o)
            /\ worker' = [worker EXCEPT ![o] = [pc |-> "sync", seen |-> Upgraded(o)]]
       ELSE /\ worker' = [worker EXCEPT ![o].pc = "idle"]
            /\ UNCHANGED owned

\* SyncResource: an apply with ForceOwnership.  Its manager owns the fields of the manifest
\* and no others; they are taken from the managers whose values differ.
SyncResource(o) ==
    /\ worker[o].pc = "sync" /\ ~NeedsUpgrade(o)
    /\ \E taken \in SUBSET FieldsOf[o] :
          owned' = [m \in Manager |-> IF m = FieldOwner(o) THEN FieldsOf[o] ELSE owned[m] \ taken]
    /\ worker' = [worker EXCEPT ![o].pc = "idle"]

Next == \E o \in Object : Observe(o) \/ UpgradeFieldManagers(o) \/ SyncResource(o)

Spec == Init /\ [][Next]_vars
-----------------------------------------------------------------------------
(* Properties *)

Disjoint == \A o, p \in Object : o # p => FieldsOf[o] \cap FieldsOf[p] = {}

\* docs/server-side-apply.md:39, :46: several Objects may target one resource and manage
\* different fields of it, when their manifests are disjoint.  So none takes away a field of
\* another.  The code applies with a field manager that knows the name of the Object only.
FieldsKept ==
    [][Disjoint => \A o, p \in Object :
          o # p /\ SyncResource(p) => Fields \cap FieldsOf[o] \subseteq Fields']_vars
=============================================================================
