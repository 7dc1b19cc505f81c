--------------------------- MODULE NamespacedObjects ---------------------------
(***************************************************************************)
(* The namespaced Objects (internal/controller/namespaced/object): the     *)
(* package has a reconciler, a syncer, informers and indexes of its own,   *)
(* which differ from the cluster-scoped ones in what an Object is, a name  *)
(* in a namespace, and in the provider config it refers to, of either of   *)
(* two kinds.  What ObjectLifecycle and ResourceInformers say of Objects is*)
(* carried over to such pairs, and the keys of informers to the new kinds; *)
(* SSASync speaks for the syncer, which is the same, and FieldOwners for   *)
(* Objects of several namespaces that share a resource.  What an operation *)
(* of the package is called here is what its source calls it.              *)
(***************************************************************************)
EXTENDS Naturals, FiniteSets, TLAPS

CONSTANTS
    Namespace, Name,
    Resource,        \* the resources an Object can target or reference
    GVK, GVKOf,      \* GVKOf[t]: the group version kind of an Object or a resource
    ConfigReference, \* ConfigReference[o]: spec.providerConfigRef
    Manifest, Refs, Existing, Policies, MaxUID,  \* as in ObjectLifecycle
    Watching, Informer, None,                    \* as in ResourceInformers
    Field, Contents, Sets, RemoveManagedFields,  \* as in SSASync, with Contents for Manifest
    Sharing, FieldsOf, Legacy, LegacyFields,     \* as in FieldOwners, with Sharing for Object
    Path, Value, Identity, NamePath, SecretKey,  \* as in References and Readiness
    MaxFaults

Object == Namespace \X Name
Thing  == Object \cup Resource

-----------------------------------------------------------------------------
(* Provider configs *)

Reference == [kind : {"ProviderConfig", "ClusterProviderConfig", "unknown"}, name : Name]

\* resolveProviderConfig: a ProviderConfig of the namespace of the Object, a
\* ClusterProviderConfig, or an error.
ResolveProviderConfig(o) ==
    LET ref == ConfigReference[o]
    IN  CASE ref.kind = "ProviderConfig"        -> <<"ProviderConfig", o[1], ref.name>>
          [] ref.kind = "ClusterProviderConfig" -> <<"ClusterProviderConfig", ref.name>>
          [] OTHER                              -> <<"error">>

\* providerConfigRefKey: the namespace is part of the key whatever the kind.
ProviderConfigRefKey(o) == <<ConfigReference[o].kind, o[1], ConfigReference[o].name>>

\* References are on the control plane, which is the empty key.
Local == "local"

\* refKeyProviderGVK and refKeyProviderNamespacedNameGVK: what an informer is kept by, and
\* what an event about a resource is matched with.
Keys   == {ProviderConfigRefKey(o) : o \in Object} \cup {Local}
Kind   == Keys \X GVK
View   == Keys \X Thing
KindOf == [v \in View |-> <<v[1], GVKOf[v[2]]>>]

\* IndexByProviderNamespacedNameGVK: the managed resource by the config, references locally.
Target     == [o \in Object |-> <<ProviderConfigRefKey(o), Manifest[o]>>]
References == [o \in Object |-> {Local} \X Refs[o]]

-----------------------------------------------------------------------------
(* The reconciler *)

VARIABLES obj, res, refFins, cache, fresh, worker, faults

Life == INSTANCE ObjectLifecycle_proofs

Reconcile(o)                == Life!Reconcile(o)
Begin(o)                    == Life!Begin(o)
ResolveReference(o)         == Life!ResolveReference(o)
Observe(o)                  == Life!Observe(o)
Observation(o)              == Life!Observation(o)
AddFinalizer(o)             == Life!AddFinalizer(o)
AddReferenceFinalizer(o)    == Life!AddReferenceFinalizer(o)
Create(o)                   == Life!Create(o)
Update(o)                   == Life!Update(o)
Delete(o)                   == Life!Delete(o)
ReleaseReference(o, t)      == Life!ReleaseReference(o, t)
RemoveReferenceFinalizer(o) == Life!RemoveReferenceFinalizer(o)
RemoveFinalizer(o)          == Life!RemoveFinalizer(o)

\* Existing Objects have no resources for names, and policies observe.
ObjectsAssumption ==
    /\ Object \cap Resource = {}
    /\ Manifest \in [Object -> Resource]
    /\ Refs \in [Object -> SUBSET Thing]
    /\ Existing \subseteq Resource
    /\ Policies \in [Object ->
            SUBSET {p \in SUBSET {"Observe", "Create", "Update", "Delete"} : "Observe" \in p}]
    /\ MaxUID \in Nat
    /\ MaxFaults \in Nat

-----------------------------------------------------------------------------
(* The informers *)

VARIABLES index, resourceCaches, informer, events, unseen, queue, watcher, collector, failures

Watch == INSTANCE ResourceInformers_proofs WITH
            Kind <- Kind, Resource <- View, worker <- watcher, faults <- failures

IndexByProviderGVK(k)       == Watch!Users(k)
EnqueueObjectsForReferences(v) == Watch!Enqueued(v)
StartSource(i)              == Watch!HandleEvent(i)
WatchResources(o)           == Watch!StartInformer(o) \/ Watch!RegisterInformer(o)
CleanupResourceInformers    == Watch!Collection

WatchAssumption ==
    /\ Namespace # {} /\ Name # {}
    /\ Resource # {}
    /\ ConfigReference \in [Object -> Reference]
    /\ GVKOf \in [Thing -> GVK]
    /\ Watching \subseteq Object
    /\ None \notin Informer

-----------------------------------------------------------------------------
(* The syncer *)

VARIABLES manifest, stored, own, there, owner, last, latest, mode, desired, syncer, errors

Sync == INSTANCE SSASync_proofs WITH Manifest <- Contents, worker <- syncer, faults <- errors

GetObservedState            == Sync!Get
GetDesiredState             == Sync!Desire
SyncResource                == Sync!Apply
NeedSSAFieldManagerUpgrade(mf) == Sync!NeedsUpgrade(mf)
MaybeUpgradeFieldManagers   == Sync!Upgrade
SetAtProvider(mf)           == Sync!AtProvider(mf)

-----------------------------------------------------------------------------
(* References and readiness *)

Refer == INSTANCE References

GetReferenceInfo(ref)                        == Refer!GetReferenceInfo(ref)
ApplyFromFieldPathPatch(content, refs, from) == Refer!Resolved(content, refs, from)

\* The name of an Object without its namespace: the manifest may set another one.
ParseManifest(o, content) == Refer!Target(o[2], content)

Readying == INSTANCE Readiness WITH Key <- SecretKey

CheckDeriveFromObject(u)     == Readying!CheckDeriveFromObject(u)
CheckAllConditions(u)        == Readying!CheckAllConditions(u)
CheckDeriveFromCelQuery(u)   == Readying!CheckDeriveFromCelQuery(u)
ConnectionDetails(details)   == Readying!ConnectionDetails(details)
UpdateConditionFromObserved(policy, ready, u) ==
    Readying!UpdateConditionFromObserved(policy, ready, u)
HandleObservation(policy, ready, upToDate, deleted, details) ==
    Readying!HandleObservation(policy, ready, upToDate, deleted, details)

-----------------------------------------------------------------------------
(* Objects that share a resource *)

VARIABLES owned, sharer

\* A namespaced Object is <<namespace, name>>; ssaFieldOwner knows the name.
NameOf == [o \in Sharing |-> o[2]]

Shared == INSTANCE FieldOwners WITH Object <- Sharing, worker <- sharer

\* No two Objects of one target have a name in common, in whatever namespaces they are, and
\* the patch-based syncer has not been at work.
OwnNames ==
    /\ \A o, p \in Sharing : NameOf[o] = NameOf[p] => o = p
    /\ Legacy \notin Shared!Name
    /\ LegacyFields = {}

\* Every Object owns fields of its manifest alone.
OwnsItsFields ==
    /\ owned \in [Shared!Manager -> SUBSET UNION {FieldsOf[o] : o \in Sharing}]
    /\ owned[Legacy] = {}
    /\ \A o \in Sharing : owned[NameOf[o]] \subseteq FieldsOf[o]
    /\ \A o \in Sharing : sharer[o].seen[Legacy] = {}

-----------------------------------------------------------------------------
(* Theorems *)

\* One key never stands for two provider configs, so an informer started for one Object
\* serves every Object of its key (providerConfigRefKey, resolveProviderConfig).
THEOREM OneConfigPerKey ==
    ASSUME NEW o \in Object, NEW p \in Object,
           ProviderConfigRefKey(o) = ProviderConfigRefKey(p)
    PROVE  ResolveProviderConfig(o) = ResolveProviderConfig(p)
BY DEF ProviderConfigRefKey, ResolveProviderConfig

\* But one ClusterProviderConfig has as many keys as there are namespaces with Objects that
\* refer to it, and for each an informer of every kind they manage.
THEOREM KeysPerNamespace ==
    ASSUME ObjectsAssumption, NEW o \in Object, NEW p \in Object, o[1] # p[1],
           ConfigReference[o] = ConfigReference[p],
           ConfigReference[o].kind = "ClusterProviderConfig"
    PROVE  /\ ResolveProviderConfig(o) = ResolveProviderConfig(p)
           /\ KindOf[Target[o]] # KindOf[Target[p]]
<1>1. ResolveProviderConfig(o) = ResolveProviderConfig(p)
  BY DEF ResolveProviderConfig
<1>2. ProviderConfigRefKey(o) # ProviderConfigRefKey(p)
  BY DEF ProviderConfigRefKey
<1>3. ASSUME NEW q \in Object
      PROVE  KindOf[Target[q]] = <<ProviderConfigRefKey(q), GVKOf[Manifest[q]]>>
  <2>1. Manifest[q] \in Thing /\ ProviderConfigRefKey(q) \in Keys
    BY DEF ObjectsAssumption, Thing, Keys
  <2>2. Target[q] = <<ProviderConfigRefKey(q), Manifest[q]>> /\ Target[q] \in View
    BY <2>1 DEF Target, View
  <2> QED BY <2>2 DEF KindOf
<1> QED BY <1>1, <1>2, <1>3

\* For any namespaced Objects, whatever fails and whoever interferes: an Object is not gone
\* while its resource or a finalizer on a reference is left behind, the resource of an
\* Object that stays is not deleted, and the Objects keep ObjectContract and what it promises.
THEOREM NamespacedLife ==
    ASSUME ObjectsAssumption
    PROVE  Life!Spec => /\ []Life!NoOrphanedResource
                        /\ []Life!NoOrphanedReferenceFinalizer
                        /\ Life!LiveResourceSpared
                        /\ Life!KeepsContract
                        /\ []Life!PromisesKept
<1>1. Life!LifecycleAssumption
  BY DEF ObjectsAssumption, Life!LifecycleAssumption, Life!Thing, Life!ManagementAction, Thing
<1> QED BY <1>1, Life!ResourcesNotOrphaned, Life!ReferenceFinalizersNotOrphaned,
           Life!LiveResourcesSpared, Life!ContractKept, Life!ObjectsKeepPromises, PTL

\* For any namespaced Objects and provider configs of either kind: no informer leaks, and no
\* change of a resource is missed while an informer of its key and kind runs.
THEOREM NamespacedWatch ==
    ASSUME ObjectsAssumption, WatchAssumption
    PROVE  Watch!Spec => []Watch!NoLeakedInformer /\ []Watch!NoMissedChange
<1>1. PICK n \in Namespace, m \in Name : TRUE
  BY DEF WatchAssumption
<1> DEFINE o == <<n, m>>
<1>2. Manifest[o] \in Thing /\ GVKOf[Manifest[o]] \in GVK
  BY <1>1 DEF ObjectsAssumption, WatchAssumption, Thing, Object
<1>3. Kind # {}
  <2>1. <<Local, GVKOf[Manifest[o]]>> \in Kind
    BY <1>2 DEF Kind, Keys
  <2> QED BY <2>1
<1>4. KindOf \in [View -> Kind]
  BY DEF KindOf, View, Kind, WatchAssumption
<1>5. Target \in [Object -> View]
  BY DEF Target, View, Keys, ObjectsAssumption, Thing
<1>6. References \in [Object -> SUBSET View]
  BY DEF References, View, Keys, ObjectsAssumption
<1>7. Watch!InformersAssumption
  BY <1>3, <1>4, <1>5, <1>6 DEF WatchAssumption, ObjectsAssumption, Watch!InformersAssumption
<1> QED BY <1>7, Watch!NoInformerLeaks, Watch!NoChangeMissed, PTL

\* For any fields, manifests and interference: a namespaced Object that its syncer reports up
\* to date has what its manifest sets, and nothing is left of earlier ones or of the
\* patch-based syncer; and no reconcile takes a field from another manager.
THEOREM NamespacedSync ==
    ASSUME Sync!SyncAssumption
    PROVE  Sync!Spec => []Sync!UpToDateIsTrue /\ Sync!OthersKeepOwnership
BY Sync!UpToDateCorrect, Sync!OthersKept

LEMMA OwnsInit == ASSUME OwnNames, Shared!Init PROVE OwnsItsFields
  BY DEF OwnNames, Shared!Init, Shared!Idle, OwnsItsFields, Shared!Manager, Shared!Name

LEMMA OwnsNext == ASSUME OwnNames, OwnsItsFields, [Shared!Next]_(Shared!vars) PROVE OwnsItsFields'
  <1>1. ASSUME NEW o \in Sharing, Shared!Observe(o) PROVE OwnsItsFields'
    BY <1>1 DEF Shared!Observe, OwnsItsFields
  <1>2. ASSUME NEW o \in Sharing, Shared!UpgradeFieldManagers(o) PROVE OwnsItsFields'
    BY <1>2 DEF Shared!UpgradeFieldManagers, Shared!NeedsUpgrade, OwnsItsFields
  <1>3. ASSUME NEW o \in Sharing, Shared!SyncResource(o) PROVE OwnsItsFields'
    BY <1>3 DEF Shared!SyncResource, Shared!FieldOwner, OwnsItsFields, OwnNames, Shared!Manager,
              Shared!Name
  <1>4. UNCHANGED Shared!vars => OwnsItsFields'
    BY DEF Shared!vars, OwnsItsFields
  <1> QED BY <1>1, <1>2, <1>3, <1>4 DEF Shared!Next

\* Objects with names of their own keep out of each other's fields, for any Objects and any
\* disjoint manifests: the name in the field manager is all that tells them apart.
THEOREM OwnNamesKeepFields == ASSUME OwnNames PROVE Shared!Spec => Shared!FieldsKept
  <1>1. OwnsItsFields /\ [Shared!Next]_(Shared!vars) =>
          (Shared!Disjoint => \A o, p \in Sharing :
              o # p /\ Shared!SyncResource(p) =>
                  Shared!Fields \cap FieldsOf[o] \subseteq Shared!Fields')
    <2> SUFFICES ASSUME OwnsItsFields, Shared!Disjoint, NEW o \in Sharing, NEW p \in Sharing,
                        o # p, Shared!SyncResource(p),
                        NEW f \in Shared!Fields, f \in FieldsOf[o]
                 PROVE  f \in Shared!Fields'
      OBVIOUS
    <2>1. PICK m \in Shared!Manager : f \in owned[m]
      BY DEF Shared!Fields
    <2>2. m # Shared!FieldOwner(p) /\ f \notin FieldsOf[p]
      BY <2>1 DEF Shared!Disjoint, OwnsItsFields, Shared!FieldOwner
    <2>3. f \in owned'[m]
      BY <2>1, <2>2 DEF Shared!SyncResource
    <2> QED BY <2>3 DEF Shared!Fields
  <1> QED BY <1>1, OwnsInit, OwnsNext, PTL DEF Shared!Spec, Shared!FieldsKept
=============================================================================
