----------------------- MODULE ResourceInformers_proofs -----------------------
(***************************************************************************)
(* Theorems about ResourceInformers, for every set of Objects, kinds and   *)
(* resources: no informer leaks, and no change is missed.                  *)
(***************************************************************************)
EXTENDS ResourceInformers, TLAPS

-----------------------------------------------------------------------------
(* The inductive invariant *)

\* A worker that waits to register an informer is the only one that has it.
NewInformers ==
    \A o \in Object :
        /\ worker[o].pc = "idle" => worker[o].new = None
        /\ worker[o].new # None =>
            /\ Active(worker[o].new)
            /\ \A k \in Kind : resourceCaches[k] # worker[o].new
            /\ \A p \in Object : worker[p].new = worker[o].new => p = o

\* The map tells the truth about the informers in it.
Registered ==
    \A k \in Kind : resourceCaches[k] # None =>
        /\ informer[resourceCaches[k]].kind = k
        /\ informer[resourceCaches[k]].state # "free"

Running(i, r) == informer[i].kind = KindOf[r] /\ informer[i].state = "running"

\* Every running informer of the kind, registered or not, will report what an Object has not
\* seen, unless the Object is about to look for itself.
ChangesReported ==
    \A o \in index \cap Watching : \A r \in unseen[o] :
        \/ o \in queue
        \/ worker[o].pc # "idle" /\ r = Target[o]
        \/ \A i \in Informer : Running(i, r) => <<i, r>> \in events

UnseenUsed == \A o \in Object : unseen[o] \subseteq Uses(o)

IInv ==
    /\ TypeOK
    /\ NewInformers
    /\ Registered
    /\ NoLeakedInformer
    /\ UnseenUsed
    /\ ChangesReported
-----------------------------------------------------------------------------
(* Types *)

LEMMA FreeType == /\ AnyKind \in Kind
                  /\ Free \in InformerRecord
                  /\ Idle \in WorkerRecord
                  /\ Resting \in CollectorRecord
  BY InformersAssumption DEF AnyKind, Free, Idle, Resting, InformerRecord, WorkerRecord,
     CollectorRecord

\* What Objects use are resources, and their kinds are kinds.
LEMMA UsesType ==
    ASSUME NEW o \in Object
    PROVE  /\ References[o] \subseteq Resource /\ Target[o] \in Resource
           /\ Uses(o) \subseteq Resource
           /\ Kinds(References[o]) \subseteq Kind /\ Kinds({Target[o]}) \subseteq Kind
  BY InformersAssumption DEF Uses, Kinds

LEMMA GotoType ==
    ASSUME TypeOK, NEW o \in Object, NEW pc \in {"idle", "references", "target"},
           NEW todo \in SUBSET Kind, Goto(o, pc, todo)
    PROVE  worker' \in [Object -> WorkerRecord]
<1>1. [pc |-> pc, todo |-> todo, new |-> None] \in WorkerRecord
  BY DEF WorkerRecord
<1> QED
  BY <1>1 DEF TypeOK, Goto

\* Every step keeps the types.
LEMMA TypeStep ==
    ASSUME TypeOK, [Next]_vars
    PROVE  TypeOK'
<1>1. ASSUME NEW o \in Object, UserCreates(o) PROVE TypeOK'
  BY <1>1, UsesType DEF TypeOK, UserCreates
<1>2. ASSUME NEW o \in Object, UserDeletes(o) PROVE TypeOK'
  BY <1>2 DEF TypeOK, UserDeletes
<1>3. ASSUME NEW o \in Object, Poll(o) PROVE TypeOK'
  BY <1>3 DEF TypeOK, Poll
<1>4. ASSUME NEW o \in Object, Begin(o) PROVE TypeOK'
  <2>1. worker' \in [Object -> WorkerRecord]
    <3>1. CASE o \in index
      <4>1. Goto(o, "references", IF o \in Watching THEN Kinds(References[o]) ELSE {})
        BY <1>4, <3>1 DEF Begin
      <4>2. (IF o \in Watching THEN Kinds(References[o]) ELSE {}) \in SUBSET Kind
        BY UsesType
      <4> QED
        BY <4>1, <4>2, GotoType
    <3>2. CASE o \notin index
      BY <1>4, <3>2 DEF TypeOK, Begin
    <3> QED
      BY <3>1, <3>2
  <2> QED
    BY <1>4, <2>1 DEF TypeOK, Begin
<1>5. ASSUME NEW o \in Object, StartInformer(o) PROVE TypeOK'
  <2>1. PICK k \in worker[o].todo : 
          IF resourceCaches[k] # None
          THEN Goto(o, worker[o].pc, worker[o].todo \ {k}) /\ UNCHANGED informer
          ELSE \E i \in Informer :
                /\ informer' = [informer EXCEPT ![i] = [kind |-> k, state |-> "starting"]]
                /\ worker' = [worker EXCEPT ![o] = [pc |-> worker[o].pc,
                                                   todo |-> worker[o].todo, new |-> i]]
    BY <1>5 DEF StartInformer
  <2>2. k \in Kind /\ worker[o].pc \in {"idle", "references", "target"}
    BY DEF TypeOK, WorkerRecord
  <2>3. worker' \in [Object -> WorkerRecord] /\ informer' \in [Informer -> InformerRecord]
    <3>1. CASE resourceCaches[k] # None
      <4>1. worker[o].todo \ {k} \in SUBSET Kind
        BY DEF TypeOK, WorkerRecord
      <4> QED
        BY <2>1, <2>2, <3>1, <4>1, GotoType DEF TypeOK
    <3>2. CASE resourceCaches[k] = None
      <4>1. PICK i \in Informer :
              /\ informer' = [informer EXCEPT ![i] = [kind |-> k, state |-> "starting"]]
              /\ worker' = [worker EXCEPT ![o] = [pc |-> worker[o].pc,
                                                 todo |-> worker[o].todo, new |-> i]]
        BY <2>1, <3>2
      <4>2. [pc |-> worker[o].pc, todo |-> worker[o].todo, new |-> i] \in WorkerRecord
        BY DEF TypeOK, WorkerRecord
      <4>3. [kind |-> k, state |-> "starting"] \in InformerRecord
        BY <2>2 DEF InformerRecord
      <4> QED
        BY <4>1, <4>2, <4>3 DEF TypeOK
    <3> QED
      BY <3>1, <3>2
  <2> QED
    BY <1>5, <2>3 DEF TypeOK, StartInformer
<1>6. ASSUME NEW o \in Object, RegisterInformer(o) PROVE TypeOK'
  <2>1. worker[o].new \in Informer /\ worker[o].pc \in {"idle", "references", "target"}
    BY <1>6 DEF TypeOK, WorkerRecord, RegisterInformer
  <2>2. worker' \in [Object -> WorkerRecord]
    <3>1. worker[o].todo \ {informer[worker[o].new].kind} \in SUBSET Kind
      BY DEF TypeOK, WorkerRecord
    <3> QED
      BY <1>6, <2>1, <3>1, GotoType DEF RegisterInformer
  <2>3. informer[worker[o].new].kind \in Kind
    BY <2>1 DEF TypeOK, InformerRecord
  <2> QED
    BY <1>6, <2>1, <2>2, <2>3, FreeType DEF TypeOK, RegisterInformer, EventsWithout
<1>7. ASSUME NEW o \in Object, WatchTarget(o) PROVE TypeOK'
  <2>1. worker' \in [Object -> WorkerRecord]
    BY <1>7, UsesType, GotoType DEF WatchTarget
  <2> QED
    BY <1>7, <2>1 DEF TypeOK, WatchTarget
<1>8. ASSUME NEW o \in Object, ReadTarget(o) PROVE TypeOK'
  <2>1. worker' \in [Object -> WorkerRecord]
    BY <1>8, GotoType DEF ReadTarget
  <2> QED
    BY <1>8, <2>1 DEF TypeOK, ReadTarget
<1>9. ASSUME NEW o \in Object, Fails(o) PROVE TypeOK'
  <2>1. worker[o].todo \in SUBSET Kind /\ worker[o].pc \in {"idle", "references", "target"}
    BY DEF TypeOK, WorkerRecord
  <2>2. worker' \in [Object -> WorkerRecord]
    <3>1. CASE Goto(o, "idle", {})
      BY <3>1, GotoType
    <3>2. ASSUME NEW k \in Kind, Goto(o, worker[o].pc, worker[o].todo \ {k})
          PROVE  worker' \in [Object -> WorkerRecord]
      BY <2>1, <3>2, GotoType
    <3> QED
      BY <1>9, <2>1, <3>1, <3>2 DEF Fails
  <2>3. faults' \in 0..MaxFaults
    BY <1>9, InformersAssumption DEF TypeOK, Fails
  <2> QED
    BY <1>9, <2>2, <2>3 DEF TypeOK, Fails
<1>10. ASSUME NEW r \in Resource, ResourceChanges(r) PROVE TypeOK'
  BY <1>10 DEF TypeOK, ResourceChanges
<1>11. ASSUME NEW i \in Informer, InformerSyncs(i) PROVE TypeOK'
  BY <1>11 DEF TypeOK, InformerRecord, InformerSyncs
<1>12. ASSUME NEW i \in Informer, HandleEvent(i) PROVE TypeOK'
  BY <1>12 DEF TypeOK, HandleEvent, Enqueued
<1>13. ASSUME NEW k \in Kind, ListUsers(k) PROVE TypeOK'
  BY <1>13 DEF TypeOK, CollectorRecord, ListUsers
<1>14. ASSUME StopInformer PROVE TypeOK'
  BY <1>14 DEF TypeOK, InformerRecord, CollectorRecord, StopInformer, EventsWithout
<1>15. ASSUME DeleteInformer PROVE TypeOK'
  BY <1>15, FreeType DEF TypeOK, CollectorRecord, DeleteInformer, Deleted
<1>16. CASE UNCHANGED vars
  BY <1>16 DEF vars, TypeOK
<1> QED
  BY <1>1, <1>2, <1>3, <1>4, <1>5, <1>6, <1>7, <1>8, <1>9, <1>10, <1>11, <1>12, <1>13, <1>14, <1>15, <1>16 DEF Next, Reconcile, Collection
-----------------------------------------------------------------------------
(* What the steps of a worker do to it *)

LEMMA GotoFacts ==
    ASSUME TypeOK, NEW o \in Object, NEW pc, NEW todo, Goto(o, pc, todo)
    PROVE  /\ worker'[o].pc = pc /\ worker'[o].new = None
           /\ \A p \in Object : p # o => worker'[p] = worker[p]
  BY DEF TypeOK, Goto

\* A worker starts an informer that was free, or none.
LEMMA StartFacts ==
    ASSUME TypeOK, NEW o \in Object, StartInformer(o)
    PROVE  /\ worker[o].new = None
           /\ worker'[o].pc = worker[o].pc /\ worker[o].pc # "idle"
           /\ \A p \in Object : p # o => worker'[p] = worker[p]
           /\ \/ worker'[o].new = None /\ UNCHANGED informer
              \/ \E i \in Informer :
                    /\ worker'[o].new = i
                    /\ informer[i].state = "free" /\ informer'[i].state = "starting"
                    /\ \A j \in Informer : j # i => informer'[j] = informer[j]
           /\ UNCHANGED <<index, resourceCaches, events, unseen, queue>>
<1>1. PICK k \in worker[o].todo :
        IF resourceCaches[k] # None
        THEN Goto(o, worker[o].pc, worker[o].todo \ {k}) /\ UNCHANGED informer
        ELSE \E i \in Informer :
              /\ informer[i] = Free
              /\ informer' = [informer EXCEPT ![i] = [kind |-> k, state |-> "starting"]]
              /\ worker' = [worker EXCEPT ![o] = [pc |-> worker[o].pc,
                                                 todo |-> worker[o].todo, new |-> i]]
  BY DEF StartInformer
<1>2. CASE resourceCaches[k] # None
  BY <1>1, <1>2, GotoFacts DEF StartInformer
<1>3. CASE resourceCaches[k] = None
  BY <1>1, <1>3 DEF TypeOK, Free, StartInformer
<1> QED
  BY <1>2, <1>3

LEMMA FailsFacts ==
    ASSUME TypeOK, NEW o \in Object, Fails(o)
    PROVE  /\ worker[o].pc # "idle"
           /\ worker[o].new = None /\ worker'[o].new = None
           /\ \A p \in Object : p # o => worker'[p] = worker[p]
           /\ \/ worker'[o].pc = "idle" /\ queue' = queue \cup {o}
              \/ worker'[o].pc = worker[o].pc /\ UNCHANGED queue
           /\ UNCHANGED <<index, resourceCaches, informer, events, unseen>>
  BY GotoFacts DEF Fails

\* A worker registers its informer under the kind it watches, or cancels it.
LEMMA RegisterFacts ==
    ASSUME TypeOK, NEW o \in Object, RegisterInformer(o)
    PROVE  /\ worker[o].new \in Informer
           /\ worker'[o].pc = worker[o].pc /\ worker'[o].new = None
           /\ \A p \in Object : p # o => worker'[p] = worker[p]
           /\ \/ /\ informer[worker[o].new].kind \in Kind
                 /\ resourceCaches[informer[worker[o].new].kind] = None
                 /\ resourceCaches' = [resourceCaches EXCEPT
                                         ![informer[worker[o].new].kind] = worker[o].new]
                 /\ UNCHANGED <<informer, events>>
              \/ /\ informer' = [informer EXCEPT ![worker[o].new] = Free]
                 /\ events' = EventsWithout(worker[o].new)
                 /\ UNCHANGED resourceCaches
           /\ UNCHANGED <<index, unseen, queue>>
<1>1. worker[o].new \in Informer
  BY DEF TypeOK, WorkerRecord, RegisterInformer
<1>2. informer[worker[o].new].kind \in Kind
  BY <1>1 DEF TypeOK, InformerRecord
<1>3. Goto(o, worker[o].pc, worker[o].todo \ {informer[worker[o].new].kind})
  BY DEF RegisterInformer
<1> QED
  BY <1>1, <1>2, <1>3, GotoFacts DEF RegisterInformer, Registers

\* The informer of a kind that no longer runs is taken out with the kind.
LEMMA DeleteFacts ==
    ASSUME TypeOK, DeleteInformer
    PROVE  /\ collector.kind \in Kind
           /\ \A k \in Kind : resourceCaches'[k] =
                IF k = collector.kind THEN None ELSE resourceCaches[k]
           /\ \A i \in Informer : informer'[i] =
                IF i = resourceCaches[collector.kind] THEN Free ELSE informer[i]
           /\ UNCHANGED <<index, events, unseen, queue, worker>>
  BY DEF TypeOK, CollectorRecord, DeleteInformer, Deleted

LEMMA StopFacts ==
    ASSUME TypeOK, StopInformer
    PROVE  /\ \A i \in Informer :
                IF i = resourceCaches[collector.kind]
                THEN informer'[i].kind = informer[i].kind /\ informer'[i].state = "stopped"
                ELSE informer'[i] = informer[i]
           /\ collector.kind \in Kind
           /\ events' = EventsWithout(resourceCaches[collector.kind])
           /\ UNCHANGED <<index, resourceCaches, unseen, queue, worker>>
  BY DEF TypeOK, InformerRecord, CollectorRecord, StopInformer

-----------------------------------------------------------------------------
(* The parts of the invariant *)

\* A worker gets an informer that is free, so no other has it and it is not registered.
LEMMA NewInformersStep ==
    ASSUME TypeOK, Registered, NewInformers, [Next]_vars
    PROVE  NewInformers'
<1>1. ASSUME NEW o \in Object, UserCreates(o) PROVE NewInformers'
  BY <1>1 DEF TypeOK, NewInformers, Registered, Active, UserCreates
<1>2. ASSUME NEW o \in Object, UserDeletes(o) PROVE NewInformers'
  BY <1>2 DEF TypeOK, NewInformers, Registered, Active, UserDeletes
<1>3. ASSUME NEW o \in Object, Poll(o) PROVE NewInformers'
  BY <1>3 DEF TypeOK, NewInformers, Registered, Active, Poll
<1>4. ASSUME NEW o \in Object, Begin(o) PROVE NewInformers'
  BY <1>4, GotoFacts DEF TypeOK, NewInformers, Registered, Active, Begin
<1>5. ASSUME NEW o \in Object, StartInformer(o) PROVE NewInformers'
  <2>1. \A p \in Object : worker[p].new \in Informer \cup {None}
    BY DEF TypeOK, WorkerRecord
  <2>2. CASE worker'[o].new = None /\ UNCHANGED informer
    BY <1>5, <2>1, <2>2, StartFacts DEF NewInformers, Active
  <2>3. ASSUME NEW i \in Informer, worker'[o].new = i,
               informer[i].state = "free", informer'[i].state = "starting",
               \A j \in Informer : j # i => informer'[j] = informer[j]
        PROVE  NewInformers'
    <3>1. \A k \in Kind : resourceCaches[k] # i
      BY <2>3, InformersAssumption DEF Registered
    <3>2. \A p \in Object : worker[p].new # i
      BY <2>3, InformersAssumption DEF NewInformers, Active
    <3> QED
      BY <1>5, <2>1, <2>3, <3>1, <3>2, StartFacts DEF NewInformers, Active
  <2> QED
    BY <1>5, <2>2, <2>3, StartFacts
<1>6. ASSUME NEW o \in Object, RegisterInformer(o) PROVE NewInformers'
  <2>1. \A p \in Object : worker[p].new \in Informer \cup {None}
    BY DEF TypeOK, WorkerRecord
  <2>2. ASSUME NEW p \in Object, p # o, worker[p].new # None
        PROVE  /\ worker'[p].new = worker[p].new /\ worker[p].new # worker[o].new
               /\ Active(worker[p].new) /\ Active(worker[p].new)'
               /\ \A k \in Kind : resourceCaches'[k] # worker[p].new
    BY <1>6, <2>1, <2>2, RegisterFacts DEF TypeOK, NewInformers, Active
  <2> QED
    BY <1>6, <2>2, RegisterFacts DEF NewInformers
<1>7. ASSUME NEW o \in Object, WatchTarget(o) PROVE NewInformers'
  BY <1>7, GotoFacts DEF TypeOK, NewInformers, Registered, Active, WatchTarget
<1>8. ASSUME NEW o \in Object, ReadTarget(o) PROVE NewInformers'
  BY <1>8, GotoFacts DEF TypeOK, NewInformers, Registered, Active, ReadTarget
<1>9. ASSUME NEW o \in Object, Fails(o) PROVE NewInformers'
  BY <1>9, FailsFacts DEF TypeOK, NewInformers, Registered, Active
<1>10. ASSUME NEW r \in Resource, ResourceChanges(r) PROVE NewInformers'
  BY <1>10 DEF TypeOK, NewInformers, Registered, Active, ResourceChanges
<1>11. ASSUME NEW i \in Informer, InformerSyncs(i) PROVE NewInformers'
  BY <1>11 DEF TypeOK, NewInformers, Registered, Active, InformerSyncs
<1>12. ASSUME NEW i \in Informer, HandleEvent(i) PROVE NewInformers'
  BY <1>12 DEF TypeOK, NewInformers, Registered, Active, HandleEvent
<1>13. ASSUME NEW k \in Kind, ListUsers(k) PROVE NewInformers'
  BY <1>13 DEF TypeOK, NewInformers, Registered, Active, ListUsers
<1>14. ASSUME StopInformer PROVE NewInformers'
  <2>1. \A p \in Object : worker[p].new \in Informer \cup {None}
    BY DEF TypeOK, WorkerRecord
  <2>2. ASSUME NEW p \in Object, worker[p].new # None
        PROVE  Active(worker[p].new)'
    BY <1>14, <2>1, <2>2, StopFacts DEF NewInformers, Active
  <2> QED
    BY <1>14, <2>2, StopFacts DEF NewInformers
<1>15. ASSUME DeleteInformer PROVE NewInformers'
  <2>1. \A p \in Object : worker[p].new \in Informer \cup {None}
    BY DEF TypeOK, WorkerRecord
  <2>2. ASSUME NEW p \in Object, worker[p].new # None
        PROVE  Active(worker[p].new)' /\ \A k \in Kind : resourceCaches'[k] # worker[p].new
    BY <1>15, <2>1, <2>2, DeleteFacts DEF NewInformers, Active
  <2> QED
    BY <1>15, <2>2, DeleteFacts DEF NewInformers
<1>16. CASE UNCHANGED vars
  BY <1>16 DEF vars, TypeOK, NewInformers, Registered, Active
<1> QED
  BY <1>1, <1>2, <1>3, <1>4, <1>5, <1>6, <1>7, <1>8, <1>9, <1>10, <1>11, <1>12, <1>13, <1>14, <1>15, <1>16 DEF Next, Reconcile, Collection

\* An informer is registered under its kind, and only the collector changes or frees one that is.
LEMMA RegisteredStep ==
    ASSUME TypeOK, Registered, NewInformers, [Next]_vars
    PROVE  Registered'
<1>1. ASSUME NEW o \in Object, UserCreates(o) PROVE Registered'
  BY <1>1 DEF TypeOK, NewInformers, Registered, Active, UserCreates
<1>2. ASSUME NEW o \in Object, UserDeletes(o) PROVE Registered'
  BY <1>2 DEF TypeOK, NewInformers, Registered, Active, UserDeletes
<1>3. ASSUME NEW o \in Object, Poll(o) PROVE Registered'
  BY <1>3 DEF TypeOK, NewInformers, Registered, Active, Poll
<1>4. ASSUME NEW o \in Object, Begin(o) PROVE Registered'
  BY <1>4, GotoFacts DEF TypeOK, NewInformers, Registered, Active, Begin
<1>5. ASSUME NEW o \in Object, StartInformer(o) PROVE Registered'
  BY <1>5, StartFacts DEF TypeOK, NewInformers, Registered, Active
<1>6. ASSUME NEW o \in Object, RegisterInformer(o) PROVE Registered'
  BY <1>6, RegisterFacts DEF TypeOK, NewInformers, Registered, Active, EventsWithout
<1>7. ASSUME NEW o \in Object, WatchTarget(o) PROVE Registered'
  BY <1>7, GotoFacts DEF TypeOK, NewInformers, Registered, Active, WatchTarget
<1>8. ASSUME NEW o \in Object, ReadTarget(o) PROVE Registered'
  BY <1>8, GotoFacts DEF TypeOK, NewInformers, Registered, Active, ReadTarget
<1>9. ASSUME NEW o \in Object, Fails(o) PROVE Registered'
  BY <1>9, FailsFacts DEF TypeOK, NewInformers, Registered, Active
<1>10. ASSUME NEW r \in Resource, ResourceChanges(r) PROVE Registered'
  BY <1>10 DEF TypeOK, NewInformers, Registered, Active, ResourceChanges
<1>11. ASSUME NEW i \in Informer, InformerSyncs(i) PROVE Registered'
  BY <1>11 DEF TypeOK, NewInformers, Registered, Active, InformerSyncs
<1>12. ASSUME NEW i \in Informer, HandleEvent(i) PROVE Registered'
  BY <1>12 DEF TypeOK, NewInformers, Registered, Active, HandleEvent
<1>13. ASSUME NEW k \in Kind, ListUsers(k) PROVE Registered'
  BY <1>13 DEF TypeOK, NewInformers, Registered, Active, ListUsers
<1>14. ASSUME StopInformer PROVE Registered'
  BY <1>14, StopFacts DEF TypeOK, NewInformers, Registered, Active, EventsWithout
<1>15. ASSUME DeleteInformer PROVE Registered'
  BY <1>15, DeleteFacts DEF TypeOK, NewInformers, Registered, Active
<1>16. CASE UNCHANGED vars
  BY <1>16 DEF vars, TypeOK, NewInformers, Registered, Active
<1> QED
  BY <1>1, <1>2, <1>3, <1>4, <1>5, <1>6, <1>7, <1>8, <1>9, <1>10, <1>11, <1>12, <1>13, <1>14, <1>15, <1>16 DEF Next, Reconcile, Collection

\* An informer leaves the hands of a worker for the map, or stops, and leaves the map stopped.
LEMMA NoLeakedInformerStep ==
    ASSUME TypeOK, Registered, NewInformers, NoLeakedInformer, [Next]_vars
    PROVE  NoLeakedInformer'
<1>1. ASSUME NEW o \in Object, UserCreates(o) PROVE NoLeakedInformer'
  BY <1>1 DEF TypeOK, NoLeakedInformer, NewInformers, Registered, Active, UserCreates
<1>2. ASSUME NEW o \in Object, UserDeletes(o) PROVE NoLeakedInformer'
  BY <1>2 DEF TypeOK, NoLeakedInformer, NewInformers, Registered, Active, UserDeletes
<1>3. ASSUME NEW o \in Object, Poll(o) PROVE NoLeakedInformer'
  BY <1>3 DEF TypeOK, NoLeakedInformer, NewInformers, Registered, Active, Poll
<1>4. ASSUME NEW o \in Object, Begin(o) PROVE NoLeakedInformer'
  BY <1>4, GotoFacts DEF TypeOK, NoLeakedInformer, NewInformers, Registered, Active, Begin
<1>5. ASSUME NEW o \in Object, StartInformer(o) PROVE NoLeakedInformer'
  <2>1. ASSUME NEW j \in Informer, Active(j)'
        PROVE  resourceCaches[informer'[j].kind] = j \/ \E p \in Object : worker'[p].new = j
    <3>1. CASE worker'[o].new = j
      BY <3>1
    <3>2. CASE worker'[o].new # j
      <4>1. informer'[j] = informer[j] /\ Active(j)
        BY <1>5, <2>1, <3>2, StartFacts DEF Active
      <4>2. worker[o].new # j
        BY <1>5, StartFacts, InformersAssumption
      <4> QED
        BY <1>5, <4>1, <4>2, StartFacts DEF NoLeakedInformer
    <3> QED
      BY <3>1, <3>2
  <2> QED
    BY <1>5, <2>1, StartFacts DEF NoLeakedInformer
<1>6. ASSUME NEW o \in Object, RegisterInformer(o) PROVE NoLeakedInformer'
  <2> DEFINE new == worker[o].new
               kind == informer[new].kind
  <2>1. CASE /\ kind \in Kind /\ resourceCaches[kind] = None
             /\ resourceCaches' = [resourceCaches EXCEPT ![kind] = new]
             /\ UNCHANGED <<informer, events>>
    <3>1. \A k \in Kind : resourceCaches'[k] = IF k = kind THEN new ELSE resourceCaches[k]
      BY <2>1 DEF TypeOK
    <3>2. \A j \in Informer : informer[j].kind \in Kind
      BY DEF TypeOK, InformerRecord
    <3>3. ASSUME NEW j \in Informer, Active(j), resourceCaches[informer[j].kind] = j
          PROVE  resourceCaches'[informer'[j].kind] = j
      BY <2>1, <3>1, <3>2, <3>3, InformersAssumption
    <3>4. ASSUME NEW p \in Object
          PROVE  \/ worker'[p].new = worker[p].new
                 \/ worker[p].new = new /\ resourceCaches'[informer'[new].kind] = new
      BY <1>6, <2>1, <3>1, RegisterFacts
    <3> QED
      BY <2>1, <3>3, <3>4 DEF NoLeakedInformer, Active
  <2>2. CASE /\ informer' = [informer EXCEPT ![new] = Free]
             /\ UNCHANGED resourceCaches
    <3>1. ASSUME NEW j \in Informer, Active(j)'
          PROVE  j # new /\ informer'[j] = informer[j] /\ Active(j)
      BY <2>2, <3>1 DEF TypeOK, Active, Free
    <3>2. \A p \in Object : worker[p].new # new => worker'[p].new = worker[p].new
      BY <1>6, RegisterFacts
    <3> QED
      BY <2>2, <3>1, <3>2 DEF NoLeakedInformer
  <2> QED
    BY <1>6, <2>1, <2>2, RegisterFacts
<1>7. ASSUME NEW o \in Object, WatchTarget(o) PROVE NoLeakedInformer'
  BY <1>7, GotoFacts, InformersAssumption DEF TypeOK, NoLeakedInformer, Active, WatchTarget, Watched
<1>8. ASSUME NEW o \in Object, ReadTarget(o) PROVE NoLeakedInformer'
  BY <1>8, GotoFacts, InformersAssumption DEF TypeOK, NoLeakedInformer, Active, ReadTarget, Watched
<1>9. ASSUME NEW o \in Object, Fails(o) PROVE NoLeakedInformer'
  BY <1>9, FailsFacts DEF TypeOK, NoLeakedInformer, NewInformers, Registered, Active
<1>10. ASSUME NEW r \in Resource, ResourceChanges(r) PROVE NoLeakedInformer'
  BY <1>10 DEF TypeOK, NoLeakedInformer, NewInformers, Registered, Active, ResourceChanges
<1>11. ASSUME NEW i \in Informer, InformerSyncs(i) PROVE NoLeakedInformer'
  BY <1>11 DEF TypeOK, NoLeakedInformer, NewInformers, Registered, Active, InformerSyncs
<1>12. ASSUME NEW i \in Informer, HandleEvent(i) PROVE NoLeakedInformer'
  BY <1>12 DEF TypeOK, NoLeakedInformer, NewInformers, Registered, Active, HandleEvent
<1>13. ASSUME NEW k \in Kind, ListUsers(k) PROVE NoLeakedInformer'
  BY <1>13 DEF TypeOK, NoLeakedInformer, NewInformers, Registered, Active, ListUsers
<1>14. ASSUME StopInformer PROVE NoLeakedInformer'
  BY <1>14, StopFacts DEF TypeOK, NoLeakedInformer, NewInformers, Registered, Active, EventsWithout
<1>15. ASSUME DeleteInformer PROVE NoLeakedInformer'
  <2>1. ASSUME NEW j \in Informer, Active(j)'
        PROVE  /\ j # resourceCaches[collector.kind] /\ informer'[j] = informer[j] /\ Active(j)
               /\ informer[j].kind \in Kind
    BY <1>15, <2>1, DeleteFacts DEF TypeOK, InformerRecord, Active, Free
  <2> QED
    BY <1>15, <2>1, DeleteFacts, InformersAssumption DEF NoLeakedInformer, Active
<1>16. CASE UNCHANGED vars
  BY <1>16 DEF vars, TypeOK, NoLeakedInformer, NewInformers, Registered, Active
<1> QED
  BY <1>1, <1>2, <1>3, <1>4, <1>5, <1>6, <1>7, <1>8, <1>9, <1>10, <1>11, <1>12, <1>13, <1>14, <1>15, <1>16 DEF Next, Reconcile, Collection

\* An Object has not seen what it uses, nothing else.
LEMMA UnseenUsedStep ==
    ASSUME TypeOK, UnseenUsed, [Next]_vars
    PROVE  UnseenUsed'
<1>1. ASSUME NEW o \in Object, UserCreates(o) PROVE UnseenUsed'
  BY <1>1 DEF TypeOK, UnseenUsed, UserCreates
<1>2. ASSUME NEW o \in Object, UserDeletes(o) PROVE UnseenUsed'
  BY <1>2 DEF TypeOK, UnseenUsed, UserDeletes
<1>3. ASSUME NEW o \in Object, Poll(o) PROVE UnseenUsed'
  BY <1>3 DEF TypeOK, UnseenUsed, Poll
<1>4. ASSUME NEW o \in Object, Begin(o) PROVE UnseenUsed'
  BY <1>4, GotoFacts DEF TypeOK, UnseenUsed, Begin
<1>5. ASSUME NEW o \in Object, StartInformer(o) PROVE UnseenUsed'
  BY <1>5, StartFacts DEF TypeOK, UnseenUsed
<1>6. ASSUME NEW o \in Object, RegisterInformer(o) PROVE UnseenUsed'
  BY <1>6, RegisterFacts DEF TypeOK, UnseenUsed, EventsWithout
<1>7. ASSUME NEW o \in Object, WatchTarget(o) PROVE UnseenUsed'
  BY <1>7, GotoFacts DEF TypeOK, UnseenUsed, WatchTarget
<1>8. ASSUME NEW o \in Object, ReadTarget(o) PROVE UnseenUsed'
  BY <1>8, GotoFacts DEF TypeOK, UnseenUsed, ReadTarget
<1>9. ASSUME NEW o \in Object, Fails(o) PROVE UnseenUsed'
  BY <1>9, FailsFacts DEF TypeOK, UnseenUsed
<1>10. ASSUME NEW r \in Resource, ResourceChanges(r) PROVE UnseenUsed'
  BY <1>10 DEF TypeOK, UnseenUsed, ResourceChanges
<1>11. ASSUME NEW i \in Informer, InformerSyncs(i) PROVE UnseenUsed'
  BY <1>11 DEF TypeOK, UnseenUsed, InformerSyncs
<1>12. ASSUME NEW i \in Informer, HandleEvent(i) PROVE UnseenUsed'
  BY <1>12 DEF TypeOK, UnseenUsed, HandleEvent
<1>13. ASSUME NEW k \in Kind, ListUsers(k) PROVE UnseenUsed'
  BY <1>13 DEF TypeOK, UnseenUsed, ListUsers
<1>14. ASSUME StopInformer PROVE UnseenUsed'
  BY <1>14, StopFacts DEF TypeOK, UnseenUsed, EventsWithout
<1>15. ASSUME DeleteInformer PROVE UnseenUsed'
  BY <1>15, DeleteFacts DEF TypeOK, UnseenUsed
<1>16. CASE UNCHANGED vars
  BY <1>16 DEF vars, TypeOK, UnseenUsed
<1> QED
  BY <1>1, <1>2, <1>3, <1>4, <1>5, <1>6, <1>7, <1>8, <1>9, <1>10, <1>11, <1>12, <1>13, <1>14, <1>15, <1>16 DEF Next, Reconcile, Collection

\* A change, and the first list of an informer, leave an event; handling it queues the Object.
LEMMA ChangesReportedStep ==
    ASSUME TypeOK, UnseenUsed, ChangesReported, [Next]_vars
    PROVE  ChangesReported'
<1>1. ASSUME NEW o \in Object, UserCreates(o) PROVE ChangesReported'
  BY <1>1 DEF TypeOK, UnseenUsed, ChangesReported, Running, Uses, UserCreates
<1>2. ASSUME NEW o \in Object, UserDeletes(o) PROVE ChangesReported'
  BY <1>2 DEF TypeOK, UnseenUsed, ChangesReported, Running, Uses, UserDeletes
<1>3. ASSUME NEW o \in Object, Poll(o) PROVE ChangesReported'
  BY <1>3 DEF TypeOK, UnseenUsed, ChangesReported, Running, Uses, Poll
<1>4. ASSUME NEW o \in Object, Begin(o) PROVE ChangesReported'
  BY <1>4, GotoFacts DEF TypeOK, UnseenUsed, ChangesReported, Running, Uses, Begin
<1>5. ASSUME NEW o \in Object, StartInformer(o) PROVE ChangesReported'
  BY <1>5, StartFacts DEF TypeOK, UnseenUsed, ChangesReported, Running, Uses
<1>6. ASSUME NEW o \in Object, RegisterInformer(o) PROVE ChangesReported'
  <2>1. \A i \in Informer, r \in Resource : Running(i, r)' /\ <<i, r>> \in events =>
            Running(i, r) /\ <<i, r>> \in events'
    BY <1>6, RegisterFacts DEF TypeOK, Running, Free, EventsWithout
  <2>2. \A i \in Informer, r \in Resource : Running(i, r)' => Running(i, r)
    BY <1>6, RegisterFacts DEF TypeOK, Running, Free
  <2>3. \A p \in Object : worker'[p].pc = worker[p].pc
    BY <1>6, RegisterFacts
  <2>4. \A p \in Object : unseen[p] \subseteq Resource
    BY DEF TypeOK
  <2> QED
    BY <1>6, <2>1, <2>2, <2>3, <2>4, RegisterFacts DEF TypeOK, ChangesReported
<1>7. ASSUME NEW o \in Object, WatchTarget(o) PROVE ChangesReported'
  BY <1>7, GotoFacts DEF TypeOK, UnseenUsed, ChangesReported, Running, Uses, WatchTarget
<1>8. ASSUME NEW o \in Object, ReadTarget(o) PROVE ChangesReported'
  BY <1>8, GotoFacts DEF TypeOK, UnseenUsed, ChangesReported, Running, Uses, ReadTarget
<1>9. ASSUME NEW o \in Object, Fails(o) PROVE ChangesReported'
  BY <1>9, FailsFacts DEF TypeOK, UnseenUsed, ChangesReported, Running, Uses
<1>10. ASSUME NEW r \in Resource, ResourceChanges(r) PROVE ChangesReported'
  <2>1. \A i \in Informer : Running(i, r) => <<i, r>> \in events'
    BY <1>10 DEF TypeOK, InformerRecord, Running, ResourceChanges
  <2>2. \A p \in Object : \A q \in unseen'[p] : q \in unseen[p] \/ q = r
    BY <1>10 DEF TypeOK, ResourceChanges
  <2>3. events \subseteq events' /\ UNCHANGED <<index, informer, queue, worker>>
    BY <1>10 DEF ResourceChanges
  <2> QED
    BY <2>1, <2>2, <2>3 DEF TypeOK, ChangesReported, Running
<1>11. ASSUME NEW i \in Informer, InformerSyncs(i) PROVE ChangesReported'
  BY <1>11 DEF TypeOK, UnseenUsed, ChangesReported, Running, Uses, InformerSyncs
<1>12. ASSUME NEW i \in Informer, HandleEvent(i) PROVE ChangesReported'
  <2>1. PICK r \in Resource : /\ events' = events \ {<<i, r>>}
                             /\ queue' = queue \cup Enqueued(r)
    BY <1>12 DEF HandleEvent
  <2>2. ASSUME NEW p \in index \cap Watching, r \in unseen[p]
        PROVE  p \in queue'
    BY <2>1, <2>2, InformersAssumption DEF UnseenUsed, Enqueued
  <2>3. \A j \in Informer, q \in Resource : q # r /\ <<j, q>> \in events => <<j, q>> \in events'
    BY <2>1
  <2>4. queue \subseteq queue' /\ UNCHANGED <<index, informer, unseen, worker>>
    BY <1>12, <2>1 DEF HandleEvent
  <2>5. \A p \in Object : unseen[p] \subseteq Resource
    BY DEF TypeOK
  <2> QED
    BY <2>2, <2>3, <2>4, <2>5 DEF TypeOK, ChangesReported, Running
<1>13. ASSUME NEW k \in Kind, ListUsers(k) PROVE ChangesReported'
  BY <1>13 DEF TypeOK, UnseenUsed, ChangesReported, Running, Uses, ListUsers
<1>14. ASSUME StopInformer PROVE ChangesReported'
  BY <1>14, StopFacts DEF TypeOK, UnseenUsed, ChangesReported, Running, Uses, EventsWithout
<1>15. ASSUME DeleteInformer PROVE ChangesReported'
  <2>1. \A i \in Informer, r \in Resource : Running(i, r)' => Running(i, r)
    BY <1>15, DeleteFacts DEF Running, Free
  <2>2. \A p \in Object : unseen[p] \subseteq Resource
    BY DEF TypeOK
  <2> QED
    BY <1>15, <2>1, <2>2, DeleteFacts DEF TypeOK, ChangesReported
<1>16. CASE UNCHANGED vars
  BY <1>16 DEF vars, TypeOK, UnseenUsed, ChangesReported, Running, Uses
<1> QED
  BY <1>1, <1>2, <1>3, <1>4, <1>5, <1>6, <1>7, <1>8, <1>9, <1>10, <1>11, <1>12, <1>13, <1>14, <1>15, <1>16 DEF Next, Reconcile, Collection

-----------------------------------------------------------------------------
(* The theorems *)

LEMMA InitInvariant == Init => IInv
<1> SUFFICES ASSUME Init PROVE IInv
  OBVIOUS
<1>1. TypeOK
  BY FreeType, InformersAssumption DEF Init, TypeOK
<1>2. NewInformers /\ Registered /\ UnseenUsed /\ ChangesReported
  BY DEF Init, NewInformers, Registered, UnseenUsed, ChangesReported, Idle
<1>3. NoLeakedInformer
  BY DEF Init, NoLeakedInformer, Active, Free
<1> QED
  BY <1>1, <1>2, <1>3 DEF IInv

LEMMA StepInvariant == IInv /\ [Next]_vars => IInv'
<1> SUFFICES ASSUME IInv, [Next]_vars PROVE IInv'
  OBVIOUS
<1>1. /\ TypeOK /\ NewInformers /\ Registered
      /\ NoLeakedInformer /\ UnseenUsed /\ ChangesReported
  BY DEF IInv
<1>2. TypeOK' /\ NewInformers' /\ Registered'
  BY <1>1, TypeStep, NewInformersStep, RegisteredStep
<1>3. NoLeakedInformer' /\ UnseenUsed' /\ ChangesReported'
  BY <1>1, NoLeakedInformerStep, UnseenUsedStep, ChangesReportedStep
<1> QED
  BY <1>2, <1>3 DEF IInv

\* What is registered for a kind is an informer of that kind, so its events are reported.
LEMMA ReportedNotMissed == IInv => NoMissedChange
<1> SUFFICES ASSUME IInv, NEW o \in index \cap Watching, NEW r \in unseen[o],
                    worker[o].pc = "idle", o \notin queue, resourceCaches[KindOf[r]] # None
             PROVE  \/ informer[resourceCaches[KindOf[r]]].state # "running"
                    \/ <<resourceCaches[KindOf[r]], r>> \in events
  BY DEF NoMissedChange
<1>1. KindOf[r] \in Kind
  BY InformersAssumption DEF IInv, TypeOK
<1>2. resourceCaches[KindOf[r]] \in Informer
  BY <1>1 DEF IInv, TypeOK
<1>3. informer[resourceCaches[KindOf[r]]].kind = KindOf[r]
  BY <1>1 DEF IInv, Registered
<1> QED
  BY <1>2, <1>3 DEF IInv, ChangesReported, Running

\* The inductive invariant holds in every state of every behaviour of informers.go.
THEOREM Invariance == Spec => []IInv
  BY InitInvariant, StepInvariant, PTL DEF Spec

\* The state keeps its types whatever workers, informers and the collector do.
THEOREM TypeCorrect == Spec => []TypeOK
<1>1. IInv => TypeOK
  BY DEF IInv
<1> QED
  BY <1>1, Invariance, PTL

\* However many workers start informers at once (WatchResources) and whatever the collector
\* does meanwhile (cleanupResourceInformers), no informer runs that nobody can stop.
THEOREM NoInformerLeaks == Spec => []NoLeakedInformer
<1>1. IInv => NoLeakedInformer
  BY DEF IInv
<1> QED
  BY <1>1, Invariance, PTL

\* While the informer of a kind runs, no change of a resource escapes an Object that watches
\* it, wherever the change falls between the reads and the calls of its reconcile.
THEOREM NoChangeMissed == Spec => []NoMissedChange
  BY ReportedNotMissed, Invariance, PTL
=============================================================================
