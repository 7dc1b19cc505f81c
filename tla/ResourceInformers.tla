--------------------------- MODULE ResourceInformers ---------------------------
(***************************************************************************)
(* The watches that bring an Object back to the queue when a resource it   *)
(* references or manages changes (internal/controller/cluster/object/      *)
(* informers.go and indexes.go).                                           *)
(*                                                                         *)
(* Every Observe asks for informers of the kinds its Object uses; workers  *)
(* of different Objects may start one for the same kind at once.  A garbage*)
(* collector stops the informers of kinds no Object uses, in four steps.   *)
(* An informer's events enqueue the Objects the index finds.  A kind here  *)
(* is a kind of one provider config, the key of the map of informers.      *)
(***************************************************************************)
EXTENDS Naturals, FiniteSets

CONSTANTS
    Object,      \* the names of Objects
    Kind,        \* the kinds of resources, per provider config
    Resource,    \* the resources
    KindOf,      \* KindOf[r]: the kind of the resource r
    Target,      \* Target[o]: the resource o manages
    References,  \* References[o]: the resources o references
    Watching,    \* the Objects whose spec.watch is set
    Informer,    \* the informers (caches) there may be at a time
    None,        \* no informer
    MaxFaults    \* bound: failed calls

ASSUME InformersAssumption ==
    /\ Kind # {}
    /\ KindOf \in [Resource -> Kind]
    /\ Target \in [Object -> Resource]
    /\ References \in [Object -> SUBSET Resource]
    /\ Watching \subseteq Object
    /\ None \notin Informer
    /\ MaxFaults \in Nat

VARIABLES
    index,      \* the Objects the cache of the manager lists, by what they use
    resourceCaches,  \* resourceCaches[k]: the informer registered for the kind k
    informer,   \* informer[i]: its kind and its state
    events,     \* the events <<i, r>> of an informer i about r not yet handled
    unseen,     \* unseen[o]: the resources that changed since o, in the index, last read them
    queue,      \* the workqueue
    worker,     \* worker[o]: the worker that reconciles o
    collector,  \* the garbage collector
    faults      \* failed calls so far

vars == <<index, resourceCaches, informer, events, unseen, queue, worker,
          collector, faults>>

Uses(o) == References[o] \cup {Target[o]}
Kinds(R) == {KindOf[r] : r \in R}

InformerRecord == [kind : Kind, state : {"free", "starting", "running", "stopped"}]

\* todo: the kinds to watch in this call of WatchResources.  new: the informer just started.
WorkerRecord ==
    [pc : {"idle", "references", "target"}, todo : SUBSET Kind, new : Informer \cup {None}]

CollectorRecord == [pc : {"list", "stop", "delete"}, kind : Kind]

TypeOK ==
    /\ index \in SUBSET Object
    /\ resourceCaches \in [Kind -> Informer \cup {None}]
    /\ informer \in [Informer -> InformerRecord]
    /\ events \in SUBSET (Informer \X Resource)
    /\ unseen \in [Object -> SUBSET Resource]
    /\ queue \in SUBSET Object
    /\ worker \in [Object -> WorkerRecord]
    /\ collector \in CollectorRecord
    /\ faults \in 0..MaxFaults

AnyKind == CHOOSE k \in Kind : TRUE
Idle    == [pc |-> "idle", todo |-> {}, new |-> None]
Free    == [kind |-> AnyKind, state |-> "free"]
Resting == [pc |-> "list", kind |-> AnyKind]

Init ==
    /\ index = {}
    /\ resourceCaches = [k \in Kind |-> None]
    /\ informer = [i \in Informer |-> Free]
    /\ events = {}
    /\ unseen = [o \in Object |-> {}]
    /\ queue = {}
    /\ worker = [o \in Object |-> Idle]
    /\ collector = Resting
    /\ faults = 0

-----------------------------------------------------------------------------
(* Users, resources, the cache of the manager *)

\* An Object that comes or goes is reconciled.  Its first reads see what there is.
UserCreates(o) ==
    /\ o \notin index
    /\ index' = index \cup {o}
    /\ queue' = queue \cup {o}
    /\ unseen' = [unseen EXCEPT ![o] = Uses(o)]
    /\ UNCHANGED <<resourceCaches, informer, events, worker, collector, faults>>

UserDeletes(o) ==
    /\ o \in index
    /\ index' = index \ {o}
    /\ queue' = queue \cup {o}
    /\ unseen' = [unseen EXCEPT ![o] = {}]
    /\ UNCHANGED <<resourceCaches, informer, events, worker, collector, faults>>

\* A running informer reports the change of a resource of its kind.
ResourceChanges(r) ==
    /\ unseen' = [o \in Object |-> IF o \in index /\ r \in Uses(o)
                                THEN unseen[o] \cup {r}
                                ELSE unseen[o]]
    /\ events' = events \cup
          {<<i, r>> : i \in {j \in Informer : informer[j] = [kind |-> KindOf[r],
                                                           state |-> "running"]}}
    /\ UNCHANGED <<index, resourceCaches, informer, queue, worker, collector, faults>>

Poll(o) ==
    /\ o \in index \ queue
    /\ queue' = queue \cup {o}
    /\ UNCHANGED <<index, resourceCaches, informer, events, unseen, worker, collector,
                   faults>>

-----------------------------------------------------------------------------
(* Informers *)

\* The first list of an informer reports every resource as added.
InformerSyncs(i) ==
    /\ informer[i].state = "starting"
    /\ informer' = [informer EXCEPT ![i].state = "running"]
    /\ events' = events \cup {<<i, r>> : r \in {q \in Resource : KindOf[q] = informer[i].kind}}
    /\ UNCHANGED <<index, resourceCaches, unseen, queue, worker, collector, faults>>

\* Whom an event about the resource r enqueues (enqueueObjectsForReferences): every Object of
\* the index that uses it and watches.
EnqueuedResource(r) == {r}
EnqueuedIfIdle(r) == {o \in index \cap Watching : r \in Uses(o) /\ worker[o].pc = "idle"}
Enqueued(r) == {o \in index \cap Watching : r \in Uses(o)}

HandleEvent(i) ==
    /\ \E r \in Resource :
        /\ <<i, r>> \in events
        /\ events' = events \ {<<i, r>>}
        /\ queue' = queue \cup Enqueued(r)
    /\ UNCHANGED <<index, resourceCaches, informer, unseen, worker, collector, faults>>

EventsWithout(i) == {e \in events : e[1] # i}

-----------------------------------------------------------------------------
(* The worker of an Object *)

Goto(o, pc, todo) == worker' = [worker EXCEPT ![o] = [pc |-> pc, todo |-> todo, new |-> None]]

\* A reconcile reads the references first and watches them then (resolveReferencies).
Begin(o) ==
    /\ o \in queue
    /\ worker[o].pc = "idle"
    /\ queue' = queue \ {o}
    /\ IF o \in index
       THEN /\ unseen' = [unseen EXCEPT ![o] = @ \ References[o]]
            /\ Goto(o, "references", IF o \in Watching THEN Kinds(References[o]) ELSE {})
       ELSE UNCHANGED <<unseen, worker>>
    /\ UNCHANGED <<index, resourceCaches, informer, events, collector, faults>>

NextFree == CHOOSE i \in Informer : informer[i] = Free

\* WatchResources starts an informer for a kind that has none registered.
StartInformer(o) ==
    /\ worker[o].pc # "idle"
    /\ worker[o].new = None
    /\ \E k \in worker[o].todo :
        IF resourceCaches[k] # None
        THEN /\ Goto(o, worker[o].pc, worker[o].todo \ {k})
             /\ UNCHANGED informer
        ELSE \E i \in Informer :
              /\ informer[i] = Free /\ i = NextFree  \* bound: Informer
              /\ informer' = [informer EXCEPT ![i] = [kind |-> k, state |-> "starting"]]
              /\ worker' = [worker EXCEPT ![o] = [pc |-> worker[o].pc, todo |-> worker[o].todo,
                                                 new |-> i]]
    /\ UNCHANGED <<index, resourceCaches, events, unseen, queue, collector, faults>>

\* Then it registers it, or cancels it when another worker was faster.
RegistersUnchecked(k) == TRUE
Registers(k) == resourceCaches[k] = None

RegisterInformer(o) ==
    LET i == worker[o].new
        k == informer[i].kind
    IN  /\ i # None
        /\ IF Registers(k)
           THEN /\ resourceCaches' = [resourceCaches EXCEPT ![k] = i]
                /\ UNCHANGED <<informer, events>>
           ELSE /\ informer' = [informer EXCEPT ![i] = Free]
                /\ events' = EventsWithout(i)
                /\ UNCHANGED resourceCaches
        /\ Goto(o, worker[o].pc, worker[o].todo \ {k})
        /\ UNCHANGED <<index, unseen, queue, collector, faults>>

\* Observe watches the resource it manages and reads it then.
Watched(o) == worker[o].todo = {} /\ worker[o].new = None

WatchTarget(o) ==
    /\ worker[o].pc = "references" /\ Watched(o)
    /\ Goto(o, "target", IF o \in Watching THEN Kinds({Target[o]}) ELSE {})
    /\ UNCHANGED <<index, resourceCaches, informer, events, unseen, queue, collector,
                   faults>>

ReadTarget(o) ==
    /\ worker[o].pc = "target" /\ Watched(o)
    /\ unseen' = [unseen EXCEPT ![o] = @ \ {Target[o]}]
    /\ Goto(o, "idle", {})
    /\ UNCHANGED <<index, resourceCaches, informer, events, queue, collector, faults>>

Reconcile(o) ==
    \/ Begin(o) \/ StartInformer(o) \/ RegisterInformer(o)
    \/ WatchTarget(o) \/ ReadTarget(o)

\* An error ends the reconcile and requeues the Object; a failure to make an informer only
\* passes over the kind.
Fails(o) ==
    /\ faults < MaxFaults /\ faults' = faults + 1
    /\ worker[o].pc # "idle" /\ worker[o].new = None
    /\ \/ Goto(o, "idle", {}) /\ queue' = queue \cup {o}
       \/ \E k \in worker[o].todo :
            Goto(o, worker[o].pc, worker[o].todo \ {k}) /\ UNCHANGED queue
    /\ UNCHANGED <<index, resourceCaches, informer, events, unseen, collector>>

-----------------------------------------------------------------------------
(* Garbage collection *)

\* Objects that use a kind, watching or not.
UsersOfAny(k) == index
Users(k) == {o \in index : k \in Kinds(Uses(o))}

\* Each round lists the users of every kind of the map.  Only the collector takes a kind out
\* of the map, so the copy a round goes through adds nothing.
ListUsers(k) ==
    /\ collector.pc = "list"
    /\ resourceCaches[k] # None
    /\ Users(k) = {}
    /\ collector' = [pc |-> "stop", kind |-> k]
    /\ UNCHANGED <<index, resourceCaches, informer, events, unseen, queue, worker, faults>>

StopInformer ==
    LET i == resourceCaches[collector.kind]
    IN  /\ collector.pc = "stop"
        /\ informer' = [informer EXCEPT ![i].state = "stopped"]
        /\ events' = EventsWithout(i)
        /\ collector' = [collector EXCEPT !.pc = "delete"]
        /\ UNCHANGED <<index, resourceCaches, unseen, queue, worker, faults>>

\* The map after a stop.
Kept == resourceCaches
Deleted == [resourceCaches EXCEPT ![collector.kind] = None]

DeleteInformer ==
    /\ collector.pc = "delete"
    /\ resourceCaches' = Deleted
    /\ informer' = [informer EXCEPT ![resourceCaches[collector.kind]] = Free]
    /\ collector' = Resting
    /\ UNCHANGED <<index, events, unseen, queue, worker, faults>>

Collection == (\E k \in Kind : ListUsers(k)) \/ StopInformer \/ DeleteInformer

-----------------------------------------------------------------------------
Next ==
    \/ \E o \in Object :
        \/ UserCreates(o) \/ UserDeletes(o) \/ Poll(o)
        \/ Reconcile(o) \/ Fails(o)
    \/ \E r \in Resource : ResourceChanges(r)
    \/ \E i \in Informer : InformerSyncs(i) \/ HandleEvent(i)
    \/ Collection

Spec == Init /\ [][Next]_vars

\* Workers, the poll, the informers and the collector (each minute, over the whole map) go on
\* for ever.
Fairness ==
    /\ \A o \in Object : WF_vars(Reconcile(o)) /\ WF_vars(Poll(o))
    /\ \A i \in Informer : WF_vars(InformerSyncs(i)) /\ WF_vars(HandleEvent(i))
    /\ \A k \in Kind : SF_vars(ListUsers(k))
    /\ WF_vars(StopInformer) /\ WF_vars(DeleteInformer)

FairSpec == Spec /\ Fairness

-----------------------------------------------------------------------------
(* Properties *)

Active(i) == informer[i].state \in {"starting", "running"}

\* No informer runs that nobody will ever stop: it is in the map, where the collector finds
\* it, or a worker is about to register or cancel it.
NoLeakedInformer ==
    \A i \in Informer : Active(i) =>
        \/ resourceCaches[informer[i].kind] = i
        \/ \E o \in Object : worker[o].new = i

\* No change is missed while the informer of the kind runs: an Object at rest that watches
\* and has not seen it is in the queue, or an event that will enqueue it is still there.
NoMissedChange ==
    \A o \in index \cap Watching : \A r \in unseen[o] :
        LET i == resourceCaches[KindOf[r]]
        IN  worker[o].pc = "idle" /\ o \notin queue /\ i # None =>
                informer[i].state # "running" \/ <<i, r>> \in events

\* A watching Object that stays ends with an informer running for every kind it uses, for
\* all the collections that raced its first reconciles.
KindsServed ==
    \A o \in Watching :
        <>[](o \in index) =>
            <>[](\A k \in Kinds(Uses(o)) : /\ resourceCaches[k] # None
                                           /\ informer[resourceCaches[k]].state = "running")

\* Informers of a kind no Object uses any more stop (cleanupResourceInformers).
UnusedStop ==
    \A k \in Kind :
        <>[](\A o \in index : k \notin Kinds(Uses(o))) =>
            <>[](\A i \in Informer : informer[i].kind = k => ~Active(i))
=============================================================================
