--------------------------- MODULE ObjectLifecycle ---------------------------
(***************************************************************************)
(* The life of the Objects of provider-kubernetes: the reconcile loop that *)
(* applies an Object's manifest, the finalizer that protects the Object,   *)
(* the finalizers it puts on the resources it references, and the way back *)
(* when it is deleted (internal/controller/cluster/object/object.go).      *)
(*                                                                         *)
(* One worker handles an Object at a time (the workqueue), but the workers *)
(* of different Objects, the users, other controllers and the API server   *)
(* interleave between any two API calls of a worker.  A worker starts from *)
(* the informer cache, which lags behind the server; every Update of an    *)
(* Object is refused when the copy it is made from is not the latest.  The *)
(* order of spec.references is not kept: a loop over it takes them in any  *)
(* order, one API call each.                                               *)
(***************************************************************************)
EXTENDS Naturals, FiniteSets

CONSTANTS
    Object,     \* the names of Objects
    Resource,   \* the Kubernetes resources an Object can target or reference
    Manifest,   \* Manifest[o]: the resource that spec.forProvider.manifest of o describes
    Refs,       \* Refs[o]: what spec.references of o names, Objects or resources
    Existing,   \* the resources others have created before
    Policies,   \* Policies[o]: the values of spec.managementPolicies users choose from
    MaxUID,     \* bound: how often a name is created
    MaxFaults   \* bound: failed calls, restarts, policy edits and acts of third parties

ManagementAction == {"Observe", "Create", "Update", "Delete"}

Thing == Object \cup Resource

\* The reconciler refuses a policy that does not observe (an empty one pauses the Object).
ASSUME LifecycleAssumption ==
    /\ Object \cap Resource = {}
    /\ Manifest \in [Object -> Resource]
    /\ Refs \in [Object -> SUBSET Thing]
    /\ Existing \subseteq Resource
    /\ Policies \in [Object -> SUBSET {p \in SUBSET ManagementAction : "Observe" \in p}]
    /\ MaxUID \in Nat
    /\ MaxFaults \in Nat

VARIABLES
    obj,      \* obj[o]: the Object the API server stores under the name o
    res,      \* res[r]: the resource r
    refFins,  \* refFins[t]: the <<o, uid>> whose reference finalizer is on t
    cache,    \* cache[o]: the Object as the informer cache holds it
    fresh,    \* fresh[o]: which copies of o ("cache", "held") have its latest resourceVersion
    worker,   \* worker[o]: where the worker that reconciles o stands
    faults    \* faults, edits and third-party acts so far

vars == <<obj, res, refFins, cache, fresh, worker, faults>>

-----------------------------------------------------------------------------
(* State *)

ObjectRecord ==
    [uid : 0..MaxUID, phase : {"gone", "alive", "deleting"},
     own : BOOLEAN, policy : SUBSET ManagementAction]

\* managers: the incarnations of Objects that applied fields of the resource.
\* synced: the Objects whose manifest the resource still agrees with.
ResourceRecord ==
    [there : BOOLEAN, term : BOOLEAN,
     managers : SUBSET (Object \X (0..MaxUID)), synced : SUBSET Object]

\* saw: what Observe reported.
WorkerRecord ==
    [pc : {"idle", "observe", "finalize", "addrefs", "create", "delete", "unfinalize"},
     held : ObjectRecord, todo : SUBSET Thing, saw : {"none", "absent", "drifted", "synced"}]

NoObject == [uid |-> 0, phase |-> "gone", own |-> FALSE, policy |-> {}]
Absent   == [there |-> FALSE, term |-> FALSE, managers |-> {}, synced |-> {}]
Foreign  == [Absent EXCEPT !.there = TRUE]
Idle     == [pc |-> "idle", held |-> NoObject, todo |-> {}, saw |-> "none"]

TypeOK ==
    /\ obj \in [Object -> ObjectRecord]
    /\ res \in [Resource -> ResourceRecord]
    /\ refFins \in [Thing -> SUBSET (Object \X (0..MaxUID))]
    /\ cache \in [Object -> ObjectRecord]
    /\ fresh \in [Object -> SUBSET {"cache", "held"}]
    /\ worker \in [Object -> WorkerRecord]
    /\ faults \in 0..MaxFaults

Init ==
    /\ obj = [o \in Object |-> NoObject]
    /\ res = [r \in Resource |-> IF r \in Existing THEN Foreign ELSE Absent]
    /\ refFins = [t \in Thing |-> {}]
    /\ cache = [o \in Object |-> NoObject]
    /\ fresh = [o \in Object |-> {"cache"}]
    /\ worker = [o \in Object |-> Idle]
    /\ faults = 0

-----------------------------------------------------------------------------
(* The API server and the informer *)

Present(t)     == IF t \in Object THEN obj[t].phase # "gone" ELSE res[t].there
Terminating(t) == IF t \in Object THEN obj[t].phase = "deleting" ELSE res[t].term

\* A request on t removes it when t is an Object under deletion without finalizers.
Collected(objs, fins, t) ==
    IF t \in Object /\ objs[t].phase = "deleting" /\ ~objs[t].own /\ fins[t] = {}
    THEN [objs EXCEPT ![t].phase = "gone"] ELSE objs

\* Another client wrote t: no copy of t is the latest any more.
Touched(t) == IF t \in Object THEN [fresh EXCEPT ![t] = {}] ELSE fresh

\* Apply the manifest of o: a create or a patch, whichever the server needs.
Applied(o, u) ==
    [res EXCEPT ![Manifest[o]] =
        [there |-> TRUE, term |-> @.term,
         managers |-> @.managers \cup {<<o, u>>}, synced |-> @.synced \cup {o}]]

CacheSync(o) ==
    /\ "cache" \notin fresh[o]
    /\ cache' = [cache EXCEPT ![o] = obj[o]]
    /\ fresh' = [fresh EXCEPT ![o] = @ \cup {"cache"}]
    /\ UNCHANGED <<obj, res, refFins, worker, faults>>

\* A resource under deletion goes once it has no reference finalizer, at a time of the
\* server's choosing (a grace period, a propagation policy, the finalizers of others).
CollectResource(r) ==
    /\ res[r].term
    /\ refFins[r] = {}
    /\ res' = [res EXCEPT ![r] = Absent]
    /\ UNCHANGED <<obj, refFins, cache, fresh, worker, faults>>

-----------------------------------------------------------------------------
(* Users and third parties *)

Disrupt == faults < MaxFaults /\ faults' = faults + 1

UserCreates(o) ==
    /\ obj[o].phase = "gone"
    /\ obj[o].uid < MaxUID
    /\ \E p \in Policies[o] :
        obj' = [obj EXCEPT ![o] =
                  [uid |-> @.uid + 1, phase |-> "alive", own |-> FALSE, policy |-> p]]
    /\ fresh' = [fresh EXCEPT ![o] = {}]
    /\ UNCHANGED <<res, refFins, cache, worker, faults>>

UserDeletes(o) ==
    /\ obj[o].phase = "alive"
    /\ obj' = Collected([obj EXCEPT ![o].phase = "deleting"], refFins, o)
    /\ fresh' = [fresh EXCEPT ![o] = {}]
    /\ UNCHANGED <<res, refFins, cache, worker, faults>>

\* The policy of an Object the provider has already let go of binds nobody.
UserEditsPolicy(o) ==
    /\ Disrupt
    /\ obj[o].phase = "alive" \/ obj[o].own
    /\ \E p \in Policies[o] \ {obj[o].policy} : obj' = [obj EXCEPT ![o].policy = p]
    /\ fresh' = [fresh EXCEPT ![o] = {}]
    /\ UNCHANGED <<res, refFins, cache, worker>>

ThirdParty(r) ==
    /\ Disrupt
    /\ \/ ~res[r].there /\ res' = [res EXCEPT ![r] = Foreign]
       \/ res[r].there /\ ~res[r].term /\ res' = [res EXCEPT ![r].term = TRUE]
       \/ \E o \in res[r].synced : res' = [res EXCEPT ![r].synced = @ \ {o}]
    /\ UNCHANGED <<obj, refFins, cache, fresh, worker>>

-----------------------------------------------------------------------------
(* The worker of an Object *)

\* The worker of o goes on at pc with todo left to do.
Goto(o, pc, todo) ==
    worker' = [worker EXCEPT ![o] = [@ EXCEPT !.pc = pc, !.todo = todo]]

Return(o) == worker' = [worker EXCEPT ![o] = Idle]

LetGo(o) == fresh' = [fresh EXCEPT ![o] = @ \ {"held"}]

\* An Update made from the copy of o is accepted.
LatestUnchecked(o) == TRUE
Latest(o) == "held" \in fresh[o]

\* The finalizer that o puts on its references is named after its UID.
MineByName(o) == <<o, o>>
MineUnnumbered(o) == <<o, 0>>
Mine(o) == <<o, worker[o].held.uid>>

\* A return that leaves the cluster as it is.
GiveUp(o) ==
    /\ Return(o)
    /\ LetGo(o)
    /\ UNCHANGED <<obj, res, refFins, cache, faults>>

\* The reconciler reads the Object from the cache.  An Object under deletion whose policy
\* orphans the resource is let go of without looking at the resource; the references of
\* an Object under deletion are not resolved.
Begin(o) ==
    LET deleting == cache[o].phase = "deleting"
        orphaned == deleting /\ "Delete" \notin cache[o].policy
    IN  /\ worker[o].pc = "idle"
        /\ cache[o].phase # "gone"
        /\ worker' = [worker EXCEPT ![o] =
              [pc   |-> IF orphaned THEN "unfinalize" ELSE "observe",
               held |-> cache[o],
               todo |-> IF deleting /\ ~orphaned THEN {} ELSE Refs[o],
               saw  |-> "none"]]
        /\ fresh' = [fresh EXCEPT ![o] = IF "cache" \in @ THEN @ \cup {"held"} ELSE @]
        /\ UNCHANGED <<obj, res, refFins, cache, faults>>

ResolveReference(o) ==
    /\ worker[o].pc = "observe"
    /\ \E t \in worker[o].todo :
        IF Present(t)
        THEN /\ Goto(o, "observe", worker[o].todo \ {t})
             /\ UNCHANGED <<obj, res, refFins, cache, fresh, faults>>
        ELSE GiveUp(o)

\* What Observe and handleObservation report: nothing to sync when the policy neither
\* creates nor updates.
ObservationByPresence(o) == IF res[Manifest[o]].there THEN "synced" ELSE "absent"
Observation(o) ==
    IF ~res[Manifest[o]].there THEN "absent"
    ELSE IF o \in res[Manifest[o]].synced \/ worker[o].held.policy \cap {"Create", "Update"} = {}
         THEN "synced" ELSE "drifted"

\* Where the reconciler goes after Observe.  Its Delete is only ever followed by another
\* Observe: the finalizers go when the resource has been seen to be gone.
RouteTerminatingAsGone(o, saw) ==
    IF worker[o].held.phase # "deleting" THEN "finalize"
    ELSE IF saw # "absent" /\ ~res[Manifest[o]].term THEN "delete" ELSE "unfinalize"
RouteUnfinalized(o, saw) ==
    IF worker[o].held.phase # "deleting" THEN IF saw = "absent" THEN "finalize" ELSE "addrefs"
    ELSE IF saw # "absent" THEN "delete" ELSE "unfinalize"
RouteRecreating(o, saw) ==
    IF worker[o].held.phase # "deleting" /\ saw # "drifted" THEN "finalize"
    ELSE IF saw # "absent" THEN "delete" ELSE "unfinalize"
Route(o, saw) ==
    IF worker[o].held.phase # "deleting" THEN "finalize"
    ELSE IF saw # "absent" THEN "delete" ELSE "unfinalize"

\* The reconciler takes a resource that is absent and only to be observed for an error.
Observe(o) ==
    LET saw == Observation(o)
        pc  == Route(o, saw)
    IN  /\ worker[o].pc = "observe"
        /\ worker[o].todo = {}
        /\ IF pc = "finalize" /\ saw = "absent" /\ worker[o].held.policy = {"Observe"}
           THEN GiveUp(o)
           ELSE /\ worker' = [worker EXCEPT ![o] =
                     [@ EXCEPT !.pc = pc, !.saw = saw,
                               !.todo = IF pc = "unfinalize" THEN Refs[o] ELSE {}]]
                /\ UNCHANGED <<obj, res, refFins, cache, fresh, faults>>

\* AddFinalizer returns at once when the copy has the finalizer already.
AddFinalizer(o) ==
    LET held == worker[o].held
        new  == [held EXCEPT !.own = TRUE]
    IN  /\ worker[o].pc = "finalize"
        /\ \/ /\ held.own
              /\ Goto(o, "addrefs", {})
              /\ UNCHANGED <<obj, res, refFins, cache, fresh, faults>>
           \/ /\ ~held.own /\ Latest(o)
              /\ obj' = [obj EXCEPT ![o] = new]
              /\ fresh' = [fresh EXCEPT ![o] = {"held"}]
              /\ worker' = [worker EXCEPT ![o] =
                    [@ EXCEPT !.pc = "addrefs", !.held = new, !.todo = Refs[o]]]
              /\ UNCHANGED <<res, refFins, cache, faults>>
           \/ ~held.own /\ ~Latest(o) /\ GiveUp(o)

\* The second half of AddFinalizer, for one reference.  The server refuses to put a new
\* finalizer on what is being deleted.
AddReferenceFinalizer(o) ==
    /\ worker[o].pc = "addrefs"
    /\ \E t \in worker[o].todo :
        \/ /\ Present(t) /\ Mine(o) \in refFins[t]
           /\ Goto(o, "addrefs", worker[o].todo \ {t})
           /\ UNCHANGED <<obj, res, refFins, cache, fresh, faults>>
        \/ /\ Present(t) /\ Mine(o) \notin refFins[t] /\ ~Terminating(t)
           /\ refFins' = [refFins EXCEPT ![t] = @ \cup {Mine(o)}]
           /\ fresh' = Touched(t)
           /\ Goto(o, "addrefs", worker[o].todo \ {t})
           /\ UNCHANGED <<obj, res, cache, faults>>
        \/ /\ ~Present(t) \/ (Mine(o) \notin refFins[t] /\ Terminating(t))
           /\ GiveUp(o)

Finalized(o) == worker[o].pc = "addrefs" /\ worker[o].todo = {}

NeedsCreate(o) == worker[o].saw = "absent" /\ "Create" \in worker[o].held.policy

\* The reconciler records that it is about to create, in an Update of the Object.
MarkCreatePending(o) ==
    /\ Finalized(o) /\ NeedsCreate(o)
    /\ IF Latest(o)
       THEN /\ fresh' = [fresh EXCEPT ![o] = {"held"}]
            /\ Goto(o, "create", {})
            /\ UNCHANGED <<obj, res, refFins, cache, faults>>
       ELSE GiveUp(o)

\* The reconciler then records the outcome in annotations of the Object.
Create(o) ==
    /\ worker[o].pc = "create"
    /\ res' = Applied(o, worker[o].held.uid)
    /\ fresh' = [fresh EXCEPT ![o] = {}]
    /\ Return(o)
    /\ UNCHANGED <<obj, refFins, cache, faults>>

\* What is not to be created and not up to date is updated, an absent resource too.
Update(o) ==
    /\ Finalized(o) /\ ~NeedsCreate(o)
    /\ worker[o].saw # "synced" /\ "Update" \in worker[o].held.policy
    /\ res' = Applied(o, worker[o].held.uid)
    /\ LetGo(o)
    /\ Return(o)
    /\ UNCHANGED <<obj, refFins, cache, faults>>

NothingToDo(o) ==
    /\ Finalized(o) /\ ~NeedsCreate(o)
    /\ worker[o].saw = "synced" \/ "Update" \notin worker[o].held.policy
    /\ GiveUp(o)

\* Deleting what is already gone is no error.
Delete(o) ==
    /\ worker[o].pc = "delete"
    /\ res' = [res EXCEPT ![Manifest[o]].term = res[Manifest[o]].there]
    /\ LetGo(o)
    /\ Return(o)
    /\ UNCHANGED <<obj, refFins, cache, faults>>

\* One turn of the first half of RemoveFinalizer: a reference that is gone is passed over.
ReleaseUnlessTerminating(o, t) ==
    IF Present(t) /\ ~Terminating(t) /\ Mine(o) \in refFins[t]
    THEN /\ refFins' = [refFins EXCEPT ![t] = @ \ {Mine(o)}]
         /\ obj' = Collected(obj, refFins', t)
         /\ fresh' = Touched(t)
    ELSE UNCHANGED <<obj, refFins, fresh>>
ReleaseReference(o, t) ==
    IF Present(t) /\ Mine(o) \in refFins[t]
    THEN /\ refFins' = [refFins EXCEPT ![t] = @ \ {Mine(o)}]
         /\ obj' = Collected(obj, refFins', t)
         /\ fresh' = Touched(t)
    ELSE UNCHANGED <<obj, refFins, fresh>>

RemovePresentReferenceFinalizer(o) ==
    /\ worker[o].pc = "unfinalize"
    /\ \E t \in worker[o].todo :
        /\ Present(t)
        /\ Goto(o, "unfinalize", worker[o].todo \ {t})
        /\ ReleaseReference(o, t)
    /\ UNCHANGED <<res, cache, faults>>
RemoveReferenceFinalizer(o) ==
    /\ worker[o].pc = "unfinalize"
    /\ \E t \in worker[o].todo :
        /\ Goto(o, "unfinalize", worker[o].todo \ {t})
        /\ ReleaseReference(o, t)
    /\ UNCHANGED <<res, cache, faults>>

\* The loop over the references of RemoveFinalizer has come to its end.
ReleasedUnchecked(o) == worker[o].pc = "unfinalize"
Released(o) == worker[o].pc = "unfinalize" /\ worker[o].todo = {}

\* The second half of RemoveFinalizer, an Update.
RemoveFinalizer(o) ==
    /\ Released(o)
    /\ IF worker[o].held.own /\ Latest(o)
       THEN /\ obj' = Collected([obj EXCEPT ![o].own = FALSE], refFins, o)
            /\ fresh' = [fresh EXCEPT ![o] = {}]
            /\ Return(o)
            /\ UNCHANGED <<res, refFins, cache, faults>>
       ELSE GiveUp(o)

Reconcile(o) ==
    \/ Begin(o) \/ ResolveReference(o) \/ Observe(o)
    \/ AddFinalizer(o) \/ AddReferenceFinalizer(o)
    \/ MarkCreatePending(o) \/ Create(o) \/ Update(o) \/ NothingToDo(o)
    \/ Delete(o) \/ RemoveReferenceFinalizer(o) \/ RemoveFinalizer(o)

\* An API call of the worker fails: every error path returns and requeues.
CallFails(o) ==
    /\ Disrupt
    /\ worker[o].pc # "idle"
    /\ Return(o)
    /\ LetGo(o)
    /\ UNCHANGED <<obj, res, refFins, cache>>

\* The provider stops and starts again: its cache is listed anew.
Restart ==
    /\ Disrupt
    /\ worker' = [o \in Object |-> Idle]
    /\ cache' = obj
    /\ fresh' = [o \in Object |-> {"cache"}]
    /\ UNCHANGED <<obj, res, refFins>>

-----------------------------------------------------------------------------
Next ==
    \/ \E o \in Object :
        \/ Reconcile(o) \/ CallFails(o) \/ CacheSync(o)
        \/ UserCreates(o) \/ UserDeletes(o) \/ UserEditsPolicy(o)
    \/ \E r \in Resource : ThirdParty(r) \/ CollectResource(r)
    \/ Restart

Spec == Init /\ [][Next]_vars

\* The workqueue requeues or polls every Object, the informer delivers, and the API
\* server finishes deletions nothing blocks.  Users and faults promise nothing.
Fairness ==
    /\ \A o \in Object : WF_vars(Reconcile(o)) /\ WF_vars(CacheSync(o))
    /\ \A r \in Resource : WF_vars(CollectResource(r))

FairSpec == Spec /\ Fairness
-----------------------------------------------------------------------------
(* Properties *)

Owner(o)   == <<o, obj[o].uid>>
Manages(o) == Owner(o) \in res[Manifest[o]].managers

\* No resource is left behind: whatever an incarnation of an Object applied, it keeps its
\* own finalizer until the resource is gone or the policy orphans it.  The code never
\* checks this: it follows from AddFinalizer before Create, from the resourceVersion check
\* on RemoveFinalizer, and from Delete being followed by another Observe.
NoOrphanedResource ==
    \A o \in Object : Manages(o) /\ "Delete" \in obj[o].policy => obj[o].own

\* No reference is blocked for ever: a reference finalizer on t belongs to the current
\* incarnation of an Object that references t and still has its own finalizer, so that
\* RemoveFinalizer will yet be called for it (handleRefFinalizer before the own one).
NoOrphanedReferenceFinalizer ==
    \A t \in Thing : \A f \in refFins[t] :
        /\ f \in {Owner(o) : o \in Object}
        /\ obj[f[1]].own
        /\ t \in Refs[f[1]]

\* A worker that still acts on a deleted incarnation, read from a stale cache, never
\* deletes the resource the live incarnation of the same name has applied (Delete has no
\* precondition of its own).
LiveResourceSpared ==
    [][\A o \in Object : obj[o].phase = "alive" /\ Manages(o) => ~Delete(o)]_vars

\* What the users of the cluster see of the Objects.
Phase     == [o \in Object |-> obj[o].phase]
Protected == {o \in Object : obj[o].own}
Orphaned  == {o \in Object : "Delete" \notin obj[o].policy}
Managing  == {o \in Object : Manages(o)}
Holds     == [o \in Object |-> {t \in Thing : Owner(o) \in refFins[t]}]

\* The reconciler keeps the contract with them.
Contract == INSTANCE ObjectContract WITH
    phase <- Phase, protected <- Protected, orphan <- Orphaned, applied <- Managing, holds <- Holds

\* Every step of the reconcilers, users and servers is a step of ObjectContract or changes
\* nothing it speaks of.
KeepsContract == Contract!Spec

\* What the contract promises holds of the Objects: an Object with a resource or a finalizer
\* left, or that another Object holds, has not gone, and one under deletion that has not gone
\* waits for a finalizer whose owner is still to take it off (RemoveFinalizer).
PromisesKept == Contract!Promises

\* The Objects that can keep o from going: they reference o or its resource or apply the
\* same resource, or they keep such an Object from going.
Blocks(p, o) == Refs[p] \cap {o, Manifest[o]} # {} \/ Manifest[p] = Manifest[o]
Blockers(o) ==
    {p \in Object \ {o} :
        \A S \in SUBSET Object :
            o \in S /\ (\A q \in Object : (\E s \in S : Blocks(q, s)) => q \in S) => p \in S}

\* Deletion ends, whatever fails on the way: an Object under deletion goes, unless one that
\* can block it is alive (RemoveFinalizer is retried until it succeeds).
DeletionCompletes ==
    \A o \in Object :
        obj[o].phase = "deleting" ~>
            obj[o].phase = "gone" \/ \E p \in Blockers(o) : obj[p].phase = "alive"

\* When users delete everything and create nothing more, everything goes: reference
\* finalizers never make Objects wait for each other for ever.
TeardownCompletes ==
    <>[](\A o \in Object : obj[o].phase # "alive") =>
        <>[](\A o \in Object : obj[o].phase = "gone")

\* An Object that stays, with the right to create and update and with its references
\* present, ends with its resource synced and stays so, for all the faults before.
Converges ==
    \A o \in Object :
        <>[](/\ obj[o].phase = "alive"
             /\ {"Create", "Update"} \subseteq obj[o].policy
             /\ \A t \in Refs[o] : Present(t))
            => <>[](o \in res[Manifest[o]].synced)

\* docs/enhanced-provider-k8s.md: "adds finalizer to each dependent external resource when
\* it resolves the reference to that external resource".
ReferencesProtected ==
    \A o \in Object :
        worker[o].pc = "idle" /\ obj[o].phase = "alive" /\ Manages(o)
            => \A t \in Refs[o] : Owner(o) \in refFins[t]

\* docs/enhanced-provider-k8s.md: the finalizer on a referenced Object delays "the actual
\* deletion" of its external resource until the dependent resource has gone.
UninstallOrder ==
    [][\A d \in Object : Delete(d) =>
          \A o \in Object : Owner(o) \in refFins[d] => ~Manages(o)]_vars
=============================================================================
