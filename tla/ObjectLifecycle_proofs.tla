----------------------- MODULE ObjectLifecycle_proofs -----------------------
(***************************************************************************)
(* Theorems about ObjectLifecycle, for every set of Objects and resources, *)
(* every graph of references and every bound.  The inductive invariant IInv*)
(* says what makes the lagging cache harmless: the cached and the held     *)
(* copies of an Object are earlier versions of it (Older), in that order,  *)
(* and a copy that shows the own finalizer on an Object that is not being  *)
(* deleted still tells the truth (Protection).                             *)
(***************************************************************************)
EXTENDS ObjectLifecycle, TLAPS

-----------------------------------------------------------------------------
(* The inductive invariant *)

Pc(o)   == worker[o].pc
Held(o) == worker[o].held

\* What the resourceVersion of a copy stands for.
LatestCopies ==
    \A o \in Object :
        /\ "cache" \in fresh[o] => cache[o] = obj[o]
        /\ "held" \in fresh[o] => Pc(o) # "idle" /\ Held(o) = obj[o]

\* Which copy a worker can hold where it stands.
WorkerCopies ==
    \A o \in Object :
        /\ worker[o].todo \subseteq Refs[o]
        /\ Pc(o) # "idle" => Held(o).phase # "gone"
        /\ Pc(o) \in {"finalize", "addrefs", "create"} => Held(o).phase = "alive"
        /\ Pc(o) \in {"addrefs", "create"} => Held(o).own
        /\ Pc(o) \in {"delete", "unfinalize"} => Held(o).phase = "deleting"

\* v may have been read before w: incarnations follow each other, and what is being
\* deleted is never alive again.
Older(v, w) ==
    /\ v.uid <= w.uid
    /\ v.uid = w.uid /\ v.phase # "alive" => w.phase # "alive"

CopiesAge ==
    \A o \in Object :
        /\ Older(cache[o], obj[o])
        /\ Pc(o) # "idle" => Older(Held(o), cache[o])

Shows(v, o) == v.phase = "alive" /\ v.own => obj[o].uid = v.uid /\ obj[o].own

Protection ==
    \A o \in Object :
        /\ obj[o].phase = "gone" => ~obj[o].own
        /\ Shows(cache[o], o)
        /\ Pc(o) # "idle" => Shows(Held(o), o)

\* A reference finalizer belongs to a protected incarnation.
ReferenceOwners ==
    \A o \in Object, t \in Thing : \A u \in 0..MaxUID :
        <<o, u>> \in refFins[t] => u = obj[o].uid /\ obj[o].own /\ t \in Refs[o]

\* What is not there holds no finalizer, so RemoveFinalizer may pass it over.
AbsentUnheld == \A t \in Thing : ~Present(t) => refFins[t] = {}

\* The loop that takes the reference finalizers off has done so where it has passed.
Releasing ==
    \A o \in Object, t \in Thing :
        Pc(o) = "unfinalize" /\ t \notin worker[o].todo => Mine(o) \notin refFins[t]

\* Who manages the resource of o: incarnations the cache and the worker know of.
Managers ==
    \A o \in Object : \A u \in 0..MaxUID :
        <<o, u>> \in res[Manifest[o]].managers =>
            /\ u <= cache[o].uid
            /\ Pc(o) # "idle" => u <= Held(o).uid
            /\ u = obj[o].uid /\ ~obj[o].own => obj[o].phase # "alive"

\* A worker that is letting go of an Object has no resource to leave behind.
Unmanaged ==
    /\ \A r \in Resource : ~res[r].there => res[r].managers = {}
    /\ \A o \in Object :
        Pc(o) = "unfinalize" /\ "Delete" \in Held(o).policy
            => Mine(o) \notin res[Manifest[o]].managers

IInv ==
    /\ TypeOK
    /\ LatestCopies
    /\ WorkerCopies
    /\ CopiesAge
    /\ Protection
    /\ ReferenceOwners
    /\ AbsentUnheld
    /\ Releasing
    /\ Managers
    /\ Unmanaged
    /\ NoOrphanedResource
-----------------------------------------------------------------------------
(* Types *)

\* A worker keeps its type when it moves on, and when it returns.
LEMMA GotoType ==
    ASSUME TypeOK, NEW o \in Object, NEW pc, NEW todo \in SUBSET Thing, Goto(o, pc, todo),
           pc \in {"idle", "observe", "finalize", "addrefs", "create", "delete", "unfinalize"}
    PROVE  worker' \in [Object -> WorkerRecord]
  BY DEF TypeOK, Goto, WorkerRecord

LEMMA ReturnType ==
    ASSUME TypeOK, NEW o \in Object, Return(o)
    PROVE  worker' \in [Object -> WorkerRecord]
<1>1. Idle \in WorkerRecord
  BY LifecycleAssumption DEF Idle, NoObject, WorkerRecord, ObjectRecord
<1> QED
  BY <1>1 DEF TypeOK, Return

LEMMA LetGoType ==
    ASSUME TypeOK, NEW o \in Object, LetGo(o)
    PROVE  fresh' \in [Object -> SUBSET {"cache", "held"}]
  BY DEF TypeOK, LetGo

LEMMA GiveUpType ==
    ASSUME TypeOK, NEW o \in Object, GiveUp(o)
    PROVE  TypeOK'
  BY ReturnType, LetGoType DEF TypeOK, GiveUp

\* Applying a manifest keeps the type of the resources.
LEMMA AppliedType ==
    ASSUME TypeOK, NEW o \in Object, NEW u \in 0..MaxUID
    PROVE  Applied(o, u) \in [Resource -> ResourceRecord]
  BY LifecycleAssumption DEF TypeOK, Applied, ResourceRecord

\* Writing one field of an Object or of a resource keeps its type.
LEMMA FieldTypes ==
    ASSUME TypeOK
    PROVE  /\ \A o \in Object, v \in BOOLEAN : [obj EXCEPT ![o].own = v] \in [Object -> ObjectRecord]
           /\ \A r \in Resource, v \in BOOLEAN : [res EXCEPT ![r].term = v] \in [Resource -> ResourceRecord]
           /\ \A o \in Object : res[Manifest[o]].there \in BOOLEAN
<1>1. ASSUME NEW o \in Object, NEW v \in BOOLEAN
      PROVE  [obj EXCEPT ![o].own = v] \in [Object -> ObjectRecord]
  BY DEF TypeOK, ObjectRecord
<1>2. ASSUME NEW r \in Resource, NEW v \in BOOLEAN
      PROVE  [res EXCEPT ![r].term = v] \in [Resource -> ResourceRecord]
  BY DEF TypeOK, ResourceRecord
<1>3. ASSUME NEW o \in Object
      PROVE  res[Manifest[o]].there \in BOOLEAN
  BY LifecycleAssumption DEF TypeOK, ResourceRecord
<1> QED
  BY <1>1, <1>2, <1>3

\* Removing what the last request left without a finalizer keeps the type of the Objects.
LEMMA CollectedType ==
    ASSUME NEW objs \in [Object -> ObjectRecord], NEW fins, NEW t
    PROVE  Collected(objs, fins, t) \in [Object -> ObjectRecord]
  BY DEF Collected, ObjectRecord

\* The finalizer a worker writes is one of the incarnations there can be.
LEMMA MineType ==
    ASSUME TypeOK, NEW o \in Object
    PROVE  /\ Mine(o) \in Object \X (0..MaxUID)
           /\ worker[o].held.uid \in 0..MaxUID
           /\ worker[o] \in WorkerRecord
           /\ worker[o].held \in ObjectRecord
           /\ worker[o].todo \in SUBSET Thing
           /\ Refs[o] \in SUBSET Thing
  BY LifecycleAssumption DEF TypeOK, WorkerRecord, ObjectRecord, Mine

\* A step of a worker keeps the types.
LEMMA ReconcileTypes ==
    ASSUME TypeOK, NEW o \in Object, Reconcile(o)
    PROVE  TypeOK'
<1>0. /\ Mine(o) \in Object \X (0..MaxUID)
      /\ worker[o].held.uid \in 0..MaxUID
      /\ worker[o] \in WorkerRecord
      /\ worker[o].held \in ObjectRecord
      /\ worker[o].todo \in SUBSET Thing
      /\ Refs[o] \in SUBSET Thing
  BY MineType
<1>1. CASE Begin(o)
  <2> DEFINE w == worker'[o]
  <2>1. worker' = [worker EXCEPT ![o] = w]
    BY <1>1 DEF Begin, TypeOK
  <2>2. w \in WorkerRecord
    BY <1>0, <1>1 DEF Begin, TypeOK, WorkerRecord
  <2>3. worker' \in [Object -> WorkerRecord]
    BY <2>1, <2>2 DEF TypeOK
  <2>4. fresh' \in [Object -> SUBSET {"cache", "held"}]
    BY <1>1 DEF Begin, TypeOK
  <2> QED
    BY <1>1, <2>3, <2>4 DEF Begin, TypeOK
<1>2. CASE ResolveReference(o)
  <2>1. PICK t \in worker[o].todo :
           \/ Goto(o, "observe", worker[o].todo \ {t}) /\ UNCHANGED <<obj, res, refFins, cache, fresh, faults>>
           \/ GiveUp(o)
    BY <1>2 DEF ResolveReference
  <2>2. worker[o].todo \ {t} \in SUBSET Thing
    BY <1>0
  <2> QED
    BY <2>1, <2>2, GotoType, GiveUpType DEF TypeOK
<1>3. CASE Observe(o)
  <2> DEFINE saw == Observation(o)
             pc  == Route(o, saw)
             todo == IF pc = "unfinalize" THEN Refs[o] ELSE {}
             w   == [worker[o] EXCEPT !.pc = pc, !.saw = saw, !.todo = todo]
  <2>1. CASE GiveUp(o)
    BY <2>1, GiveUpType
  <2>2. CASE worker' = [worker EXCEPT ![o] = w] /\ UNCHANGED <<obj, res, refFins, cache, fresh, faults>>
    <3>1. saw \in {"absent", "drifted", "synced"} /\ pc \in {"finalize", "delete", "unfinalize"}
      BY DEF Observation, Route
    <3>2. todo \in SUBSET Thing
      BY <1>0
    <3> HIDE DEF saw, pc, todo
    <3>3. w \in WorkerRecord
      BY <1>0, <3>1, <3>2 DEF WorkerRecord
    <3> QED
      BY <2>2, <3>3 DEF TypeOK
  <2> QED
    BY <1>3, <2>1, <2>2 DEF Observe
<1>4. CASE AddFinalizer(o)
  <2> DEFINE new == [worker[o].held EXCEPT !.own = TRUE]
             w   == [worker[o] EXCEPT !.pc = "addrefs", !.held = new, !.todo = Refs[o]]
  <2>1. CASE GiveUp(o)
    BY <2>1, GiveUpType
  <2>2. CASE Goto(o, "addrefs", {}) /\ UNCHANGED <<obj, res, refFins, cache, fresh, faults>>
    BY <2>2, GotoType DEF TypeOK
  <2>3. CASE /\ obj' = [obj EXCEPT ![o] = new]
             /\ fresh' = [fresh EXCEPT ![o] = {"held"}]
             /\ worker' = [worker EXCEPT ![o] = w]
             /\ UNCHANGED <<res, refFins, cache, faults>>
    <3>1. new \in ObjectRecord
      BY <1>0 DEF ObjectRecord
    <3> HIDE DEF new
    <3>2. w \in WorkerRecord
      BY <1>0, <3>1 DEF WorkerRecord
    <3> QED
      BY <2>3, <3>1, <3>2 DEF TypeOK
  <2> QED
    BY <1>4, <2>1, <2>2, <2>3 DEF AddFinalizer
<1>5. CASE AddReferenceFinalizer(o)
  <2>1. PICK t \in worker[o].todo :
           \/ GiveUp(o)
           \/ /\ Goto(o, "addrefs", worker[o].todo \ {t})
              /\ UNCHANGED <<obj, res, cache, faults>>
              /\ \/ UNCHANGED <<refFins, fresh>>
                 \/ /\ refFins' = [refFins EXCEPT ![t] = @ \cup {Mine(o)}]
                    /\ fresh' = Touched(t)
    BY <1>5 DEF AddReferenceFinalizer
  <2>2. worker[o].todo \ {t} \in SUBSET Thing
    BY <1>0
  <2>3. refFins' \in [Thing -> SUBSET (Object \X (0..MaxUID))] \/ GiveUp(o)
    BY <1>0, <2>1 DEF TypeOK
  <2>4. fresh' \in [Object -> SUBSET {"cache", "held"}] \/ GiveUp(o)
    BY <2>1 DEF TypeOK, Touched
  <2> QED
    BY <2>1, <2>2, <2>3, <2>4, GotoType, GiveUpType DEF TypeOK
<1>6. CASE MarkCreatePending(o)
  <2>1. CASE GiveUp(o)
    BY <2>1, GiveUpType
  <2>2. CASE /\ fresh' = [fresh EXCEPT ![o] = {"held"}]
             /\ Goto(o, "create", {})
             /\ UNCHANGED <<obj, res, refFins, cache, faults>>
    BY <2>2, GotoType DEF TypeOK
  <2> QED
    BY <1>6, <2>1, <2>2 DEF MarkCreatePending
<1>7. CASE Create(o)
  BY <1>0, <1>7, AppliedType, ReturnType DEF Create, TypeOK
<1>8. CASE Update(o)
  BY <1>0, <1>8, AppliedType, ReturnType, LetGoType DEF Update, TypeOK
<1>9. CASE NothingToDo(o)
  BY <1>9, GiveUpType DEF NothingToDo
<1>10. CASE Delete(o)
  <2>1. res' \in [Resource -> ResourceRecord]
    BY <1>10, FieldTypes, LifecycleAssumption DEF Delete
  <2> QED
    BY <1>10, <2>1, ReturnType, LetGoType DEF Delete, TypeOK
<1>11. CASE RemoveReferenceFinalizer(o)
  <2>1. PICK t \in worker[o].todo :
           /\ Goto(o, "unfinalize", worker[o].todo \ {t})
           /\ ReleaseReference(o, t)
    BY <1>11 DEF RemoveReferenceFinalizer
  <2>2. worker[o].todo \ {t} \in SUBSET Thing
    BY <1>0
  <2>3. refFins' \in [Thing -> SUBSET (Object \X (0..MaxUID))]
    BY <2>1 DEF ReleaseReference, TypeOK
  <2>4. fresh' \in [Object -> SUBSET {"cache", "held"}]
    BY <2>1 DEF ReleaseReference, Touched, TypeOK
  <2>5. obj' \in [Object -> ObjectRecord]
    BY <2>1, CollectedType DEF ReleaseReference, TypeOK
  <2> QED
    BY <1>11, <2>1, <2>2, <2>3, <2>4, <2>5, GotoType DEF RemoveReferenceFinalizer, TypeOK
<1>12. CASE RemoveFinalizer(o)
  <2>1. CASE GiveUp(o)
    BY <2>1, GiveUpType
  <2>2. CASE /\ obj' = Collected([obj EXCEPT ![o].own = FALSE], refFins, o)
             /\ fresh' = [fresh EXCEPT ![o] = {}]
             /\ Return(o)
             /\ UNCHANGED <<res, refFins, cache, faults>>
    <3>1. [obj EXCEPT ![o].own = FALSE] \in [Object -> ObjectRecord]
      BY FieldTypes
    <3>2. obj' \in [Object -> ObjectRecord]
      BY <2>2, <3>1, CollectedType
    <3> QED
      BY <2>2, <3>2, ReturnType DEF TypeOK
  <2> QED
    BY <1>12, <2>1, <2>2 DEF RemoveFinalizer
<1> QED
  BY <1>1, <1>2, <1>3, <1>4, <1>5, <1>6, <1>7, <1>8, <1>9, <1>10, <1>11, <1>12 DEF Reconcile

\* Every step keeps the types.
LEMMA TypeInductive == TypeOK /\ [Next]_vars => TypeOK'
<1> SUFFICES ASSUME TypeOK, [Next]_vars PROVE TypeOK'
  OBVIOUS
<1>1. ASSUME NEW o \in Object, Reconcile(o) PROVE TypeOK'
  BY <1>1, ReconcileTypes
<1>2. ASSUME NEW o \in Object, CallFails(o) PROVE TypeOK'
  BY <1>2, ReturnType, LetGoType, LifecycleAssumption DEF CallFails, Disrupt, TypeOK
<1>3. ASSUME NEW o \in Object, CacheSync(o) PROVE TypeOK'
  BY <1>3 DEF CacheSync, TypeOK
<1>4. ASSUME NEW o \in Object, UserCreates(o) PROVE TypeOK'
  <2>1. PICK p \in Policies[o] : obj' = [obj EXCEPT ![o] =
           [uid |-> @.uid + 1, phase |-> "alive", own |-> FALSE, policy |-> p]]
    BY <1>4 DEF UserCreates
  <2>2. p \in SUBSET ManagementAction
    BY LifecycleAssumption
  <2>3. obj[o].uid + 1 \in 0..MaxUID
    BY <1>4, LifecycleAssumption DEF UserCreates, TypeOK, ObjectRecord
  <2>4. obj' \in [Object -> ObjectRecord]
    BY <2>1, <2>2, <2>3 DEF TypeOK, ObjectRecord
  <2> QED
    BY <1>4, <2>4 DEF UserCreates, TypeOK
<1>5. ASSUME NEW o \in Object, UserDeletes(o) PROVE TypeOK'
  <2>1. [obj EXCEPT ![o].phase = "deleting"] \in [Object -> ObjectRecord]
    BY DEF TypeOK, ObjectRecord
  <2>2. obj' \in [Object -> ObjectRecord]
    BY <1>5, <2>1, CollectedType DEF UserDeletes
  <2> QED
    BY <1>5, <2>2 DEF UserDeletes, TypeOK
<1>6. ASSUME NEW o \in Object, UserEditsPolicy(o) PROVE TypeOK'
  <2>1. PICK p \in Policies[o] : obj' = [obj EXCEPT ![o].policy = p]
    BY <1>6 DEF UserEditsPolicy
  <2>2. p \in SUBSET ManagementAction
    BY LifecycleAssumption
  <2>3. obj' \in [Object -> ObjectRecord]
    BY <2>1, <2>2 DEF TypeOK, ObjectRecord
  <2> QED
    BY <1>6, <2>3, LifecycleAssumption DEF UserEditsPolicy, Disrupt, TypeOK
<1>7. ASSUME NEW r \in Resource, ThirdParty(r) PROVE TypeOK'
  <2>1. res' \in [Resource -> ResourceRecord]
    <3>1. Foreign \in ResourceRecord
      BY DEF Foreign, Absent, ResourceRecord
    <3>2. CASE res' = [res EXCEPT ![r] = Foreign]
      BY <3>1, <3>2 DEF TypeOK
    <3>3. CASE res' = [res EXCEPT ![r].term = TRUE]
      BY <3>3, FieldTypes
    <3>4. ASSUME NEW o, res' = [res EXCEPT ![r].synced = @ \ {o}]
          PROVE  res' \in [Resource -> ResourceRecord]
      BY <3>4 DEF TypeOK, ResourceRecord
    <3> QED
      BY <1>7, <3>2, <3>3, <3>4 DEF ThirdParty
  <2> QED
    BY <1>7, <2>1, LifecycleAssumption DEF ThirdParty, Disrupt, TypeOK
<1>8. ASSUME NEW r \in Resource, CollectResource(r) PROVE TypeOK'
  <2>1. Absent \in ResourceRecord
    BY DEF Absent, ResourceRecord
  <2> QED
    BY <1>8, <2>1 DEF CollectResource, TypeOK
<1>9. CASE Restart
  <2>1. Idle \in WorkerRecord
    BY LifecycleAssumption DEF Idle, NoObject, WorkerRecord, ObjectRecord
  <2> QED
    BY <1>9, <2>1, LifecycleAssumption DEF Restart, Disrupt, TypeOK
<1>10. CASE UNCHANGED vars
  BY <1>10 DEF vars, TypeOK
<1> QED
  BY <1>1, <1>2, <1>3, <1>4, <1>5, <1>6, <1>7, <1>8, <1>9, <1>10 DEF Next

\* The variables have their types at the start.
LEMMA InitType ==
    ASSUME Init
    PROVE  TypeOK
<1>1. NoObject \in ObjectRecord
  BY LifecycleAssumption DEF NoObject, ObjectRecord
<1>2. Idle \in WorkerRecord
  BY <1>1 DEF Idle, WorkerRecord
<1>3. Absent \in ResourceRecord /\ Foreign \in ResourceRecord
  BY DEF Absent, Foreign, ResourceRecord
<1> QED
  BY <1>1, <1>2, <1>3, LifecycleAssumption DEF Init, TypeOK

\* The variables always have their types.
THEOREM TypeCorrect == Spec => []TypeOK
<1>1. Init => TypeOK
  BY InitType
<1>2. TypeOK /\ [Next]_vars => TypeOK'
  BY TypeInductive
<1> QED
  BY <1>1, <1>2, PTL DEF Spec

-----------------------------------------------------------------------------
(* The steps of a worker, by what they write *)

\* A step that only reads: how the worker goes on.
Reads(o, w) ==
    \/ Pc(o) \in {"observe", "addrefs"} /\ w.pc = Pc(o)
    \/ Pc(o) = "observe" /\ w.pc = "finalize" /\ Held(o).phase # "deleting"
    \/ Pc(o) = "observe" /\ w.pc = "delete" /\ Held(o).phase = "deleting"
    \/ /\ Pc(o) = "observe" /\ w.pc = "unfinalize" /\ Held(o).phase = "deleting"
       /\ ~res[Manifest[o]].there
       /\ w.todo = Refs[o]
    \/ Pc(o) = "finalize" /\ w.pc = "addrefs" /\ Held(o).own

MovesOn(o) ==
    /\ \E w \in WorkerRecord :
        /\ Reads(o, w)
        /\ w.held = Held(o)
        /\ w.todo \subseteq worker[o].todo \cup Refs[o]
        /\ worker' = [worker EXCEPT ![o] = w]
    /\ UNCHANGED <<obj, res, refFins, cache, fresh, faults>>

StoresFinalizer(o) ==
    /\ Pc(o) = "finalize" /\ "held" \in fresh[o]
    /\ obj' = [obj EXCEPT ![o] = [Held(o) EXCEPT !.own = TRUE]]
    /\ fresh' = [fresh EXCEPT ![o] = {"held"}]
    /\ worker' = [worker EXCEPT ![o] = [@ EXCEPT !.pc = "addrefs",
                                          !.held = [Held(o) EXCEPT !.own = TRUE],
                                          !.todo = Refs[o]]]
    /\ UNCHANGED <<res, refFins, cache, faults>>

StoresReferenceFinalizer(o, t) ==
    /\ Pc(o) = "addrefs" /\ t \in worker[o].todo /\ Present(t) /\ ~Terminating(t)
    /\ refFins' = [refFins EXCEPT ![t] = @ \cup {Mine(o)}]
    /\ fresh' = Touched(t)
    /\ Goto(o, "addrefs", worker[o].todo \ {t})
    /\ UNCHANGED <<obj, res, cache, faults>>

StoresCreatePending(o) ==
    /\ Pc(o) = "addrefs" /\ "held" \in fresh[o]
    /\ fresh' = [fresh EXCEPT ![o] = {"held"}]
    /\ Goto(o, "create", {})
    /\ UNCHANGED <<obj, res, refFins, cache, faults>>

\* Both Create and Update apply the manifest.
Applies(o) ==
    /\ Pc(o) \in {"addrefs", "create"}
    /\ res' = Applied(o, Held(o).uid)
    /\ fresh' \in {[fresh EXCEPT ![o] = {}], [fresh EXCEPT ![o] = @ \ {"held"}]}
    /\ Return(o)
    /\ UNCHANGED <<obj, refFins, cache, faults>>

ReleasesReference(o, t) ==
    /\ Pc(o) = "unfinalize" /\ t \in worker[o].todo
    /\ Goto(o, "unfinalize", worker[o].todo \ {t})
    /\ ReleaseReference(o, t)
    /\ UNCHANGED <<res, cache, faults>>

DropsFinalizer(o) ==
    /\ Released(o) /\ "held" \in fresh[o] /\ Held(o).own
    /\ obj' = Collected([obj EXCEPT ![o].own = FALSE], refFins, o)
    /\ fresh' = [fresh EXCEPT ![o] = {}]
    /\ Return(o)
    /\ UNCHANGED <<res, refFins, cache, faults>>

WorkerStep(o) ==
    \/ Begin(o) \/ GiveUp(o) \/ MovesOn(o) \/ StoresFinalizer(o)
    \/ \E t \in Thing : StoresReferenceFinalizer(o, t) \/ ReleasesReference(o, t)
    \/ StoresCreatePending(o) \/ Applies(o) \/ Delete(o) \/ DropsFinalizer(o)

\* Every step of a worker is one of these.
LEMMA ReconcileSteps ==
    ASSUME TypeOK, NEW o \in Object, Reconcile(o)
    PROVE  WorkerStep(o)
<1> USE DEF WorkerStep
<1>0. /\ worker[o] \in WorkerRecord
      /\ worker[o].todo \in SUBSET Thing
      /\ Refs[o] \in SUBSET Thing
  BY MineType
<1>a. ASSUME NEW pc \in {"observe", "addrefs"}, NEW todo \in SUBSET Thing
      PROVE  /\ [worker[o] EXCEPT !.pc = pc, !.todo = todo] \in WorkerRecord
             /\ [worker[o] EXCEPT !.pc = pc, !.todo = todo].pc = pc
             /\ [worker[o] EXCEPT !.pc = pc, !.todo = todo].held = Held(o)
             /\ [worker[o] EXCEPT !.pc = pc, !.todo = todo].todo = todo
  BY <1>0 DEF WorkerRecord, Held
<1>b. ASSUME NEW pc \in {"finalize", "delete", "unfinalize"}, NEW todo \in SUBSET Thing,
             NEW saw \in {"absent", "drifted", "synced"}
      PROVE  [worker[o] EXCEPT !.pc = pc, !.saw = saw, !.todo = todo] \in WorkerRecord
  BY <1>0 DEF WorkerRecord
<1>1. CASE ResolveReference(o)
  <2>1. PICK t \in worker[o].todo :
           \/ Goto(o, "observe", worker[o].todo \ {t}) /\ UNCHANGED <<obj, res, refFins, cache, fresh, faults>>
           \/ GiveUp(o)
    BY <1>1 DEF ResolveReference
  <2> DEFINE w == [worker[o] EXCEPT !.pc = "observe", !.todo = worker[o].todo \ {t}]
  <2>2. w \in WorkerRecord /\ w.pc = "observe" /\ w.held = Held(o) /\ w.todo \subseteq worker[o].todo
    <3>1. worker[o].todo \ {t} \in SUBSET Thing
      BY <1>0
    <3>2. w.todo = worker[o].todo \ {t}
      BY <3>1, <1>a
    <3> QED
      BY <3>1, <3>2, <1>a
  <2>3. Reads(o, w)
    BY <1>1, <2>2 DEF Reads, ResolveReference, Pc
  <2>4. Goto(o, "observe", worker[o].todo \ {t}) => worker' = [worker EXCEPT ![o] = w]
    BY DEF Goto
  <2> HIDE DEF w
  <2> QED
    BY <2>1, <2>2, <2>3, <2>4 DEF MovesOn
<1>2. CASE Observe(o)
  <2> DEFINE saw == Observation(o)
             pc  == Route(o, saw)
             todo == IF pc = "unfinalize" THEN Refs[o] ELSE {}
             w   == [worker[o] EXCEPT !.pc = pc, !.saw = saw, !.todo = todo]
  <2>1. GiveUp(o) \/ (worker' = [worker EXCEPT ![o] = w] /\ UNCHANGED <<obj, res, refFins, cache, fresh, faults>>)
    BY <1>2 DEF Observe
  <2>2. saw \in {"absent", "drifted", "synced"} /\ pc \in {"finalize", "delete", "unfinalize"}
    BY DEF Observation, Route
  <2>3. todo \in SUBSET Thing
    BY <1>0
  <2>4. saw = "absent" => ~res[Manifest[o]].there
    BY DEF Observation
  <2>5. /\ Pc(o) = "observe"
        /\ pc = "finalize" => Held(o).phase # "deleting"
        /\ pc = "delete" => Held(o).phase = "deleting"
        /\ pc = "unfinalize" => Held(o).phase = "deleting" /\ saw = "absent"
    BY <1>2, <2>2 DEF Observe, Route, Pc, Held
  <2>6. (pc = "unfinalize" => todo = Refs[o]) /\ todo \subseteq Refs[o]
    OBVIOUS
  <2> HIDE DEF saw, pc, todo
  <2>7. w \in WorkerRecord
    BY <1>b, <2>2, <2>3
  <2>8. w.pc = pc /\ w.todo = todo /\ w.held = Held(o)
    BY <1>0 DEF WorkerRecord, Held
  <2> HIDE DEF w
  <2>9. Reads(o, w)
    BY <2>2, <2>4, <2>5, <2>6, <2>8 DEF Reads
  <2> QED
    BY <2>1, <2>6, <2>7, <2>8, <2>9 DEF MovesOn
<1>3. CASE AddFinalizer(o)
  <2>1. CASE worker[o].held.own /\ Goto(o, "addrefs", {}) /\ UNCHANGED <<obj, res, refFins, cache, fresh, faults>>
    <3> DEFINE w == [worker[o] EXCEPT !.pc = "addrefs", !.todo = {}]
    <3>1. w \in WorkerRecord /\ w.pc = "addrefs" /\ w.held = Held(o) /\ w.todo = {}
      BY <1>0, <1>a
    <3>2. Reads(o, w)
      BY <1>3, <2>1, <3>1 DEF Reads, AddFinalizer, Pc, Held
    <3>3. worker' = [worker EXCEPT ![o] = w]
      BY <2>1 DEF Goto
    <3> HIDE DEF w
    <3> QED
      BY <2>1, <3>1, <3>2, <3>3 DEF MovesOn
  <2> QED
    BY <1>3, <2>1 DEF AddFinalizer, StoresFinalizer, Latest, Pc, Held
<1>4. CASE AddReferenceFinalizer(o)
  <2>1. PICK t \in worker[o].todo :
           \/ GiveUp(o)
           \/ /\ Goto(o, "addrefs", worker[o].todo \ {t})
              /\ UNCHANGED <<obj, res, refFins, cache, fresh, faults>>
           \/ /\ Present(t) /\ ~Terminating(t)
              /\ refFins' = [refFins EXCEPT ![t] = @ \cup {Mine(o)}]
              /\ fresh' = Touched(t)
              /\ Goto(o, "addrefs", worker[o].todo \ {t})
              /\ UNCHANGED <<obj, res, cache, faults>>
    BY <1>4 DEF AddReferenceFinalizer
  <2> DEFINE w == [worker[o] EXCEPT !.pc = "addrefs", !.todo = worker[o].todo \ {t}]
  <2>2. w \in WorkerRecord /\ w.pc = "addrefs" /\ w.held = Held(o) /\ w.todo \subseteq worker[o].todo
    <3>1. worker[o].todo \ {t} \in SUBSET Thing
      BY <1>0
    <3>2. w.todo = worker[o].todo \ {t}
      BY <3>1, <1>a
    <3> QED
      BY <3>1, <3>2, <1>a
  <2>3. Pc(o) = "addrefs" /\ t \in Thing
    BY <1>0, <1>4 DEF AddReferenceFinalizer, Pc
  <2>4. Reads(o, w)
    BY <2>2, <2>3 DEF Reads
  <2>5. Goto(o, "addrefs", worker[o].todo \ {t}) => worker' = [worker EXCEPT ![o] = w]
    BY DEF Goto
  <2> HIDE DEF w
  <2>6. CASE Goto(o, "addrefs", worker[o].todo \ {t}) /\ UNCHANGED <<obj, res, refFins, cache, fresh, faults>>
    BY <2>6, <2>2, <2>4, <2>5 DEF MovesOn
  <2> QED
    BY <2>1, <2>3, <2>6 DEF StoresReferenceFinalizer
<1>5. CASE MarkCreatePending(o)
  BY <1>5 DEF MarkCreatePending, Finalized, Latest, StoresCreatePending, Pc
<1>6. CASE Create(o)
  BY <1>6 DEF Create, Applies, Pc, Held
<1>7. CASE Update(o)
  BY <1>7 DEF Update, Finalized, LetGo, Applies, Pc, Held
<1>8. CASE NothingToDo(o)
  BY <1>8 DEF NothingToDo
<1>9. CASE RemoveReferenceFinalizer(o)
  BY <1>0, <1>9 DEF RemoveReferenceFinalizer, ReleasesReference, Pc
<1>10. CASE RemoveFinalizer(o)
  BY <1>10 DEF RemoveFinalizer, DropsFinalizer, Latest, Held
<1> QED
  BY <1>1, <1>2, <1>3, <1>4, <1>5, <1>6, <1>7, <1>8, <1>9, <1>10 DEF Reconcile

\* What a release leaves of the Objects, of the finalizers and of the workers.
ReleaseKept(o, t) ==
    /\ \A p \in Object :
        /\ obj'[p].uid = obj[p].uid /\ obj'[p].own = obj[p].own
        /\ obj'[p].policy = obj[p].policy
        /\ \/ obj'[p] = obj[p] /\ fresh'[p] = fresh[p]
           \/ obj'[p] = obj[p] /\ fresh'[p] = {}
           \/ /\ p = t /\ refFins'[t] = {}
              /\ obj[p].phase = "deleting" /\ ~obj[p].own
              /\ obj'[p].phase = "gone" /\ fresh'[p] = {}
        /\ worker'[p].pc = worker[p].pc /\ worker'[p].held = worker[p].held
        /\ p # o => worker'[p] = worker[p]
    /\ worker'[o].todo = worker[o].todo \ {t}
    /\ \A s \in Thing : refFins'[s] = refFins[s] \/ (s = t /\ refFins'[t] = refFins[t] \ {Mine(o)})
    /\ Present(t) => Mine(o) \notin refFins'[t]

LEMMA ReleaseKeeps ==
    ASSUME TypeOK, NEW o \in Object, NEW t \in Thing, ReleasesReference(o, t)
    PROVE  ReleaseKept(o, t)
<1>1. /\ \A p \in Object : worker'[p].pc = worker[p].pc /\ worker'[p].held = worker[p].held
      /\ \A p \in Object : p # o => worker'[p] = worker[p]
      /\ worker'[o].todo = worker[o].todo \ {t}
  BY DEF ReleasesReference, Goto, TypeOK, WorkerRecord, Pc
<1>2. /\ \A s \in Thing : refFins'[s] = refFins[s] \/ (s = t /\ refFins'[t] = refFins[t] \ {Mine(o)})
      /\ Present(t) => Mine(o) \notin refFins'[t]
  BY DEF ReleasesReference, ReleaseReference, TypeOK
<1>3. ASSUME NEW p \in Object
      PROVE  /\ obj'[p].uid = obj[p].uid /\ obj'[p].own = obj[p].own
             /\ obj'[p].policy = obj[p].policy
             /\ \/ obj'[p] = obj[p] /\ fresh'[p] = fresh[p]
                \/ obj'[p] = obj[p] /\ fresh'[p] = {}
                \/ /\ p = t /\ refFins'[t] = {}
                   /\ obj[p].phase = "deleting" /\ ~obj[p].own
                   /\ obj'[p].phase = "gone" /\ fresh'[p] = {}
  BY DEF ReleasesReference, ReleaseReference, Collected, Touched, TypeOK, ObjectRecord
<1> QED
  BY <1>1, <1>2, <1>3 DEF ReleaseKept

\* What third parties leave of the resources.
ThirdPartyKept ==
    \A s \in Resource :
        /\ res[s].there => res'[s].there
        /\ \/ res'[s].managers = {}
           \/ res'[s].managers = res[s].managers /\ res'[s].there = res[s].there

LEMMA ThirdPartyKeeps ==
    ASSUME TypeOK, NEW r \in Resource, ThirdParty(r)
    PROVE  ThirdPartyKept
<1> USE DEF ThirdPartyKept
<1>1. CASE ~res[r].there /\ res' = [res EXCEPT ![r] = Foreign]
  BY <1>1 DEF TypeOK, Foreign, Absent
<1>2. CASE res' = [res EXCEPT ![r].term = TRUE]
  BY <1>2 DEF TypeOK, ResourceRecord
<1>3. ASSUME NEW o, res' = [res EXCEPT ![r].synced = @ \ {o}]
      PROVE  \A s \in Resource : res'[s].managers = res[s].managers /\ res'[s].there = res[s].there
  BY <1>3 DEF TypeOK, ResourceRecord
<1> QED
  BY <1>1, <1>2, <1>3 DEF ThirdParty

\* All three, wherever the invariant holds.
LEMMA StepKinds ==
    ASSUME TypeOK
    PROVE  /\ \A o \in Object : Reconcile(o) => WorkerStep(o)
           /\ \A o \in Object, t \in Thing : ReleasesReference(o, t) => ReleaseKept(o, t)
           /\ \A r \in Resource : ThirdParty(r) => ThirdPartyKept
  BY ReconcileSteps, ReleaseKeeps, ThirdPartyKeeps

-----------------------------------------------------------------------------
(* Each conjunct of the invariant, against every step *)

\* A copy marked as the latest is the stored Object.
LEMMA LatestInductive ==
    ASSUME IInv, [Next]_vars
    PROVE  LatestCopies'
<1>a. TypeOK
  BY DEF IInv
<1>b. /\ \A o \in Object : Reconcile(o) => WorkerStep(o)
      /\ \A o \in Object, t \in Thing : ReleasesReference(o, t) => ReleaseKept(o, t)
      /\ \A r \in Resource : ThirdParty(r) => ThirdPartyKept
  BY <1>a, StepKinds
<1> USE LifecycleAssumption DEF IInv, TypeOK, LatestCopies, Pc, Held
<1>1. ASSUME NEW o \in Object, Begin(o) PROVE LatestCopies'
  BY <1>1 DEF Begin
<1>2. ASSUME NEW o \in Object, GiveUp(o) PROVE LatestCopies'
  BY <1>2 DEF GiveUp, Return, LetGo, Idle
<1>3. ASSUME NEW o \in Object, MovesOn(o) PROVE LatestCopies'
  <2>1. PICK w \in WorkerRecord :
           /\ Reads(o, w) /\ w.held = Held(o) /\ w.todo \subseteq worker[o].todo \cup Refs[o]
           /\ worker' = [worker EXCEPT ![o] = w]
    BY <1>3 DEF MovesOn
  <2>2. \A p \in Object : worker'[p] = IF p = o THEN w ELSE worker[p]
    BY <2>1
  <2> QED
    BY <1>3, <2>1, <2>2 DEF MovesOn, Reads
<1>4. ASSUME NEW o \in Object, StoresFinalizer(o) PROVE LatestCopies'
  BY <1>4 DEF StoresFinalizer
<1>5. ASSUME NEW o \in Object, StoresCreatePending(o) PROVE LatestCopies'
  BY <1>5 DEF StoresCreatePending, Goto
<1>6. ASSUME NEW o \in Object, Applies(o) PROVE LatestCopies'
  BY <1>6 DEF Applies, Applied, Return, Idle
<1>7. ASSUME NEW o \in Object, Delete(o) PROVE LatestCopies'
  BY <1>7 DEF Delete, LetGo, Return, Idle
<1>8. ASSUME NEW o \in Object, DropsFinalizer(o) PROVE LatestCopies'
  BY <1>8 DEF DropsFinalizer, Released, Collected, Return, Idle
<1>9. ASSUME NEW o \in Object, CallFails(o) PROVE LatestCopies'
  BY <1>9 DEF CallFails, Return, LetGo, Idle
<1>10. ASSUME NEW o \in Object, CacheSync(o) PROVE LatestCopies'
  BY <1>10 DEF CacheSync
<1>11. ASSUME NEW o \in Object, UserCreates(o) PROVE LatestCopies'
  BY <1>11 DEF UserCreates
<1>12. ASSUME NEW o \in Object, UserDeletes(o) PROVE LatestCopies'
  BY <1>12 DEF UserDeletes, Collected
<1>13. ASSUME NEW o \in Object, UserEditsPolicy(o) PROVE LatestCopies'
  BY <1>13 DEF UserEditsPolicy
<1>14. ASSUME NEW o \in Object, NEW t \in Thing, StoresReferenceFinalizer(o, t) PROVE LatestCopies'
  BY <1>14 DEF StoresReferenceFinalizer, Mine, Touched, Goto
<1>15. ASSUME NEW o \in Object, NEW t \in Thing, ReleasesReference(o, t) PROVE LatestCopies'
  <2>1. ReleaseKept(o, t)
    BY <1>15, <1>b
  <2>2. /\ Pc(o) = "unfinalize" /\ t \in worker[o].todo
        /\ UNCHANGED <<res, cache, faults>>
    BY <1>15 DEF ReleasesReference
  <2> QED
    BY <2>1, <2>2 DEF ReleaseKept
<1>16. ASSUME NEW r \in Resource, ThirdParty(r) PROVE LatestCopies'
  <2>1. ThirdPartyKept
    BY <1>16, <1>b
  <2>2. UNCHANGED <<obj, refFins, cache, fresh, worker>>
    BY <1>16 DEF ThirdParty
  <2> QED
    BY <2>1, <2>2 DEF ThirdPartyKept
<1>17. ASSUME NEW r \in Resource, CollectResource(r) PROVE LatestCopies'
  BY <1>17 DEF CollectResource, Absent
<1>18. CASE Restart
  BY <1>18 DEF Restart, Idle
<1>19. CASE UNCHANGED vars
  BY <1>19 DEF vars
<1> HIDE DEF IInv, TypeOK, LatestCopies, Pc, Held
<1> QED
  BY <1>b, <1>1, <1>2, <1>3, <1>4, <1>5, <1>6, <1>7, <1>8, <1>9, <1>10, <1>11, <1>12, <1>13, <1>14, <1>15, <1>16, <1>17, <1>18, <1>19 DEF Next, WorkerStep

\* A worker holds the kind of copy its place in the code calls for.
LEMMA WorkerInductive ==
    ASSUME IInv, [Next]_vars
    PROVE  WorkerCopies'
<1>a. TypeOK
  BY DEF IInv
<1>b. /\ \A o \in Object : Reconcile(o) => WorkerStep(o)
      /\ \A o \in Object, t \in Thing : ReleasesReference(o, t) => ReleaseKept(o, t)
      /\ \A r \in Resource : ThirdParty(r) => ThirdPartyKept
  BY <1>a, StepKinds
<1> USE LifecycleAssumption DEF IInv, TypeOK, WorkerCopies, Pc, Held
<1>1. ASSUME NEW o \in Object, Begin(o) PROVE WorkerCopies'
  BY <1>1 DEF Begin
<1>2. ASSUME NEW o \in Object, GiveUp(o) PROVE WorkerCopies'
  BY <1>2 DEF GiveUp, Return, LetGo, Idle
<1>3. ASSUME NEW o \in Object, MovesOn(o) PROVE WorkerCopies'
  <2>1. PICK w \in WorkerRecord :
           /\ Reads(o, w) /\ w.held = Held(o) /\ w.todo \subseteq worker[o].todo \cup Refs[o]
           /\ worker' = [worker EXCEPT ![o] = w]
    BY <1>3 DEF MovesOn
  <2>2. worker[o].todo \subseteq Refs[o]
    OBVIOUS
  <2>3. w.todo \subseteq Refs[o]
    BY <2>1, <2>2
  <2>4. ASSUME NEW p \in Object, p # o
        PROVE  worker'[p] = worker[p]
    BY <2>1, <2>4
  <2>5. worker'[o] = w
    BY <2>1
  <2>6. /\ w.pc # "idle" => Held(o).phase # "gone"
        /\ w.pc \in {"finalize", "addrefs", "create"} => Held(o).phase = "alive"
        /\ w.pc \in {"addrefs", "create"} => Held(o).own
        /\ w.pc \in {"delete", "unfinalize"} => Held(o).phase = "deleting"
    BY <2>1 DEF Reads, WorkerRecord, ObjectRecord
  <2>7. WorkerCopies
    OBVIOUS
  <2> HIDE DEF IInv, TypeOK
  <2> QED
    BY <2>1, <2>3, <2>4, <2>5, <2>6, <2>7
<1>4. ASSUME NEW o \in Object, StoresFinalizer(o) PROVE WorkerCopies'
  BY <1>4 DEF StoresFinalizer
<1>5. ASSUME NEW o \in Object, StoresCreatePending(o) PROVE WorkerCopies'
  BY <1>5 DEF StoresCreatePending, Goto
<1>6. ASSUME NEW o \in Object, Applies(o) PROVE WorkerCopies'
  BY <1>6 DEF Applies, Applied, Return, Idle
<1>7. ASSUME NEW o \in Object, Delete(o) PROVE WorkerCopies'
  BY <1>7 DEF Delete, LetGo, Return, Idle
<1>8. ASSUME NEW o \in Object, DropsFinalizer(o) PROVE WorkerCopies'
  BY <1>8 DEF DropsFinalizer, Released, Collected, Return, Idle
<1>9. ASSUME NEW o \in Object, CallFails(o) PROVE WorkerCopies'
  BY <1>9 DEF CallFails, Return, LetGo, Idle
<1>10. ASSUME NEW o \in Object, CacheSync(o) PROVE WorkerCopies'
  BY <1>10 DEF CacheSync
<1>11. ASSUME NEW o \in Object, UserCreates(o) PROVE WorkerCopies'
  BY <1>11 DEF UserCreates
<1>12. ASSUME NEW o \in Object, UserDeletes(o) PROVE WorkerCopies'
  BY <1>12 DEF UserDeletes, Collected
<1>13. ASSUME NEW o \in Object, UserEditsPolicy(o) PROVE WorkerCopies'
  BY <1>13 DEF UserEditsPolicy
<1>14. ASSUME NEW o \in Object, NEW t \in Thing, StoresReferenceFinalizer(o, t) PROVE WorkerCopies'
  BY <1>14 DEF StoresReferenceFinalizer, Mine, Touched, Goto
<1>15. ASSUME NEW o \in Object, NEW t \in Thing, ReleasesReference(o, t) PROVE WorkerCopies'
  <2>1. ReleaseKept(o, t)
    BY <1>15, <1>b
  <2>2. /\ Pc(o) = "unfinalize" /\ t \in worker[o].todo
        /\ UNCHANGED <<res, cache, faults>>
    BY <1>15 DEF ReleasesReference
  <2> QED
    BY <2>1, <2>2 DEF ReleaseKept
<1>16. ASSUME NEW r \in Resource, ThirdParty(r) PROVE WorkerCopies'
  <2>1. ThirdPartyKept
    BY <1>16, <1>b
  <2>2. UNCHANGED <<obj, refFins, cache, fresh, worker>>
    BY <1>16 DEF ThirdParty
  <2> QED
    BY <2>1, <2>2 DEF ThirdPartyKept
<1>17. ASSUME NEW r \in Resource, CollectResource(r) PROVE WorkerCopies'
  BY <1>17 DEF CollectResource, Absent
<1>18. CASE Restart
  BY <1>18 DEF Restart, Idle
<1>19. CASE UNCHANGED vars
  BY <1>19 DEF vars
<1> HIDE DEF IInv, TypeOK, WorkerCopies, Pc, Held
<1> QED
  BY <1>b, <1>1, <1>2, <1>3, <1>4, <1>5, <1>6, <1>7, <1>8, <1>9, <1>10, <1>11, <1>12, <1>13, <1>14, <1>15, <1>16, <1>17, <1>18, <1>19 DEF Next, WorkerStep

\* The copies of an Object stay in the order in which they were read.
LEMMA AgeInductive ==
    ASSUME IInv, [Next]_vars
    PROVE  CopiesAge'
<1>a. TypeOK
  BY DEF IInv
<1>b. /\ \A o \in Object : Reconcile(o) => WorkerStep(o)
      /\ \A o \in Object, t \in Thing : ReleasesReference(o, t) => ReleaseKept(o, t)
      /\ \A r \in Resource : ThirdParty(r) => ThirdPartyKept
  BY <1>a, StepKinds
<1> USE LifecycleAssumption DEF IInv, TypeOK, CopiesAge, LatestCopies, WorkerCopies, Older, Pc, Held, ObjectRecord, WorkerRecord
<1>1. ASSUME NEW o \in Object, Begin(o) PROVE CopiesAge'
  BY <1>1 DEF Begin
<1>2. ASSUME NEW o \in Object, GiveUp(o) PROVE CopiesAge'
  BY <1>2 DEF GiveUp, Return, LetGo, Idle
<1>3. ASSUME NEW o \in Object, MovesOn(o) PROVE CopiesAge'
  <2>1. PICK w \in WorkerRecord :
           /\ Reads(o, w) /\ w.held = Held(o) /\ w.todo \subseteq worker[o].todo \cup Refs[o]
           /\ worker' = [worker EXCEPT ![o] = w]
    BY <1>3 DEF MovesOn
  <2>2. \A p \in Object : worker'[p] = IF p = o THEN w ELSE worker[p]
    BY <2>1
  <2> QED
    BY <1>3, <2>1, <2>2 DEF MovesOn, Reads
<1>4. ASSUME NEW o \in Object, StoresFinalizer(o) PROVE CopiesAge'
  BY <1>4 DEF StoresFinalizer
<1>5. ASSUME NEW o \in Object, StoresCreatePending(o) PROVE CopiesAge'
  BY <1>5 DEF StoresCreatePending, Goto
<1>6. ASSUME NEW o \in Object, Applies(o) PROVE CopiesAge'
  BY <1>6 DEF Applies, Applied, Return, Idle
<1>7. ASSUME NEW o \in Object, Delete(o) PROVE CopiesAge'
  BY <1>7 DEF Delete, LetGo, Return, Idle
<1>8. ASSUME NEW o \in Object, DropsFinalizer(o) PROVE CopiesAge'
  BY <1>8 DEF DropsFinalizer, Released, Collected, Return, Idle
<1>9. ASSUME NEW o \in Object, CallFails(o) PROVE CopiesAge'
  BY <1>9 DEF CallFails, Return, LetGo, Idle
<1>10. ASSUME NEW o \in Object, CacheSync(o) PROVE CopiesAge'
  <2>1. /\ obj[o].uid \in Nat /\ cache[o].uid \in Nat
        /\ Pc(o) # "idle" => Held(o).uid \in Nat
    BY DEF Pc, Held
  <2>2. Older(obj[o], obj[o])
    BY <2>1
  <2>3. Pc(o) # "idle" => Older(Held(o), cache[o])
    OBVIOUS
  <2>4. Older(cache[o], obj[o])
    OBVIOUS
  <2>5. Pc(o) # "idle" => Older(Held(o), obj[o])
    <3> HIDE DEF IInv, TypeOK, CopiesAge, Pc, Held
    <3> QED
      BY <2>1, <2>3, <2>4
  <2>6. /\ cache' = [cache EXCEPT ![o] = obj[o]]
        /\ UNCHANGED <<obj, worker>>
    BY <1>10 DEF CacheSync
  <2> HIDE DEF Older
  <2> QED
    BY <2>2, <2>5, <2>6
<1>11. ASSUME NEW o \in Object, UserCreates(o) PROVE CopiesAge'
  BY <1>11 DEF UserCreates
<1>12. ASSUME NEW o \in Object, UserDeletes(o) PROVE CopiesAge'
  BY <1>12 DEF UserDeletes, Collected
<1>13. ASSUME NEW o \in Object, UserEditsPolicy(o) PROVE CopiesAge'
  BY <1>13 DEF UserEditsPolicy
<1>14. ASSUME NEW o \in Object, NEW t \in Thing, StoresReferenceFinalizer(o, t) PROVE CopiesAge'
  BY <1>14 DEF StoresReferenceFinalizer, Mine, Touched, Goto
<1>15. ASSUME NEW o \in Object, NEW t \in Thing, ReleasesReference(o, t) PROVE CopiesAge'
  <2>1. ReleaseKept(o, t)
    BY <1>15, <1>b
  <2>2. /\ Pc(o) = "unfinalize" /\ t \in worker[o].todo
        /\ UNCHANGED <<res, cache, faults>>
    BY <1>15 DEF ReleasesReference
  <2> QED
    BY <2>1, <2>2 DEF ReleaseKept
<1>16. ASSUME NEW r \in Resource, ThirdParty(r) PROVE CopiesAge'
  <2>1. ThirdPartyKept
    BY <1>16, <1>b
  <2>2. UNCHANGED <<obj, refFins, cache, fresh, worker>>
    BY <1>16 DEF ThirdParty
  <2> QED
    BY <2>1, <2>2 DEF ThirdPartyKept
<1>17. ASSUME NEW r \in Resource, CollectResource(r) PROVE CopiesAge'
  BY <1>17 DEF CollectResource, Absent
<1>18. CASE Restart
  BY <1>18 DEF Restart, Idle
<1>19. CASE UNCHANGED vars
  BY <1>19 DEF vars
<1> HIDE DEF IInv, TypeOK, CopiesAge, LatestCopies, WorkerCopies, Older, Pc, Held, ObjectRecord, WorkerRecord
<1> QED
  BY <1>b, <1>1, <1>2, <1>3, <1>4, <1>5, <1>6, <1>7, <1>8, <1>9, <1>10, <1>11, <1>12, <1>13, <1>14, <1>15, <1>16, <1>17, <1>18, <1>19 DEF Next, WorkerStep

\* A copy of a live Object that shows the own finalizer never lies.
LEMMA ProtectionInductive ==
    ASSUME IInv, [Next]_vars
    PROVE  Protection'
<1>a. TypeOK
  BY DEF IInv
<1>b. /\ \A o \in Object : Reconcile(o) => WorkerStep(o)
      /\ \A o \in Object, t \in Thing : ReleasesReference(o, t) => ReleaseKept(o, t)
      /\ \A r \in Resource : ThirdParty(r) => ThirdPartyKept
  BY <1>a, StepKinds
<1> USE LifecycleAssumption DEF IInv, TypeOK, Protection, CopiesAge, LatestCopies, WorkerCopies, Older, Shows, Pc, Held, ObjectRecord, WorkerRecord
<1>1. ASSUME NEW o \in Object, Begin(o) PROVE Protection'
  BY <1>1 DEF Begin
<1>2. ASSUME NEW o \in Object, GiveUp(o) PROVE Protection'
  BY <1>2 DEF GiveUp, Return, LetGo, Idle
<1>3. ASSUME NEW o \in Object, MovesOn(o) PROVE Protection'
  <2>1. PICK w \in WorkerRecord :
           /\ Reads(o, w) /\ w.held = Held(o) /\ w.todo \subseteq worker[o].todo \cup Refs[o]
           /\ worker' = [worker EXCEPT ![o] = w]
    BY <1>3 DEF MovesOn
  <2>2. \A p \in Object : worker'[p] = IF p = o THEN w ELSE worker[p]
    BY <2>1
  <2> QED
    BY <1>3, <2>1, <2>2 DEF MovesOn, Reads
<1>4. ASSUME NEW o \in Object, StoresFinalizer(o) PROVE Protection'
  BY <1>4 DEF StoresFinalizer
<1>5. ASSUME NEW o \in Object, StoresCreatePending(o) PROVE Protection'
  BY <1>5 DEF StoresCreatePending, Goto
<1>6. ASSUME NEW o \in Object, Applies(o) PROVE Protection'
  BY <1>6 DEF Applies, Applied, Return, Idle
<1>7. ASSUME NEW o \in Object, Delete(o) PROVE Protection'
  BY <1>7 DEF Delete, LetGo, Return, Idle
<1>8. ASSUME NEW o \in Object, DropsFinalizer(o) PROVE Protection'
  BY <1>8 DEF DropsFinalizer, Released, Collected, Return, Idle
<1>9. ASSUME NEW o \in Object, CallFails(o) PROVE Protection'
  BY <1>9 DEF CallFails, Return, LetGo, Idle
<1>10. ASSUME NEW o \in Object, CacheSync(o) PROVE Protection'
  BY <1>10 DEF CacheSync
<1>11. ASSUME NEW o \in Object, UserCreates(o) PROVE Protection'
  BY <1>11 DEF UserCreates
<1>12. ASSUME NEW o \in Object, UserDeletes(o) PROVE Protection'
  BY <1>12 DEF UserDeletes, Collected
<1>13. ASSUME NEW o \in Object, UserEditsPolicy(o) PROVE Protection'
  BY <1>13 DEF UserEditsPolicy
<1>14. ASSUME NEW o \in Object, NEW t \in Thing, StoresReferenceFinalizer(o, t) PROVE Protection'
  BY <1>14 DEF StoresReferenceFinalizer, Mine, Touched, Goto
<1>15. ASSUME NEW o \in Object, NEW t \in Thing, ReleasesReference(o, t) PROVE Protection'
  <2>1. ReleaseKept(o, t)
    BY <1>15, <1>b
  <2>2. /\ Pc(o) = "unfinalize" /\ t \in worker[o].todo
        /\ UNCHANGED <<res, cache, faults>>
    BY <1>15 DEF ReleasesReference
  <2> QED
    BY <2>1, <2>2 DEF ReleaseKept
<1>16. ASSUME NEW r \in Resource, ThirdParty(r) PROVE Protection'
  <2>1. ThirdPartyKept
    BY <1>16, <1>b
  <2>2. UNCHANGED <<obj, refFins, cache, fresh, worker>>
    BY <1>16 DEF ThirdParty
  <2> QED
    BY <2>1, <2>2 DEF ThirdPartyKept
<1>17. ASSUME NEW r \in Resource, CollectResource(r) PROVE Protection'
  BY <1>17 DEF CollectResource, Absent
<1>18. CASE Restart
  BY <1>18 DEF Restart, Idle
<1>19. CASE UNCHANGED vars
  BY <1>19 DEF vars
<1> HIDE DEF IInv, TypeOK, Protection, CopiesAge, LatestCopies, WorkerCopies, Older, Shows, Pc, Held, ObjectRecord, WorkerRecord
<1> QED
  BY <1>b, <1>1, <1>2, <1>3, <1>4, <1>5, <1>6, <1>7, <1>8, <1>9, <1>10, <1>11, <1>12, <1>13, <1>14, <1>15, <1>16, <1>17, <1>18, <1>19 DEF Next, WorkerStep

\* Reference finalizers belong to protected incarnations that list the reference.
LEMMA OwnersInductive ==
    ASSUME IInv, [Next]_vars
    PROVE  ReferenceOwners'
<1>a. TypeOK
  BY DEF IInv
<1>b. /\ \A o \in Object : Reconcile(o) => WorkerStep(o)
      /\ \A o \in Object, t \in Thing : ReleasesReference(o, t) => ReleaseKept(o, t)
      /\ \A r \in Resource : ThirdParty(r) => ThirdPartyKept
  BY <1>a, StepKinds
<1> USE LifecycleAssumption DEF IInv, TypeOK, ReferenceOwners, Releasing, Protection, LatestCopies, WorkerCopies, Shows, Mine, Pc, Held, ObjectRecord, WorkerRecord
<1>1. ASSUME NEW o \in Object, Begin(o) PROVE ReferenceOwners'
  BY <1>1 DEF Begin
<1>2. ASSUME NEW o \in Object, GiveUp(o) PROVE ReferenceOwners'
  BY <1>2 DEF GiveUp, Return, LetGo, Idle
<1>3. ASSUME NEW o \in Object, MovesOn(o) PROVE ReferenceOwners'
  <2>1. PICK w \in WorkerRecord :
           /\ Reads(o, w) /\ w.held = Held(o) /\ w.todo \subseteq worker[o].todo \cup Refs[o]
           /\ worker' = [worker EXCEPT ![o] = w]
    BY <1>3 DEF MovesOn
  <2>2. \A p \in Object : worker'[p] = IF p = o THEN w ELSE worker[p]
    BY <2>1
  <2> QED
    BY <1>3, <2>1, <2>2 DEF MovesOn, Reads
<1>4. ASSUME NEW o \in Object, StoresFinalizer(o) PROVE ReferenceOwners'
  BY <1>4 DEF StoresFinalizer
<1>5. ASSUME NEW o \in Object, StoresCreatePending(o) PROVE ReferenceOwners'
  BY <1>5 DEF StoresCreatePending, Goto
<1>6. ASSUME NEW o \in Object, Applies(o) PROVE ReferenceOwners'
  BY <1>6 DEF Applies, Applied, Return, Idle
<1>7. ASSUME NEW o \in Object, Delete(o) PROVE ReferenceOwners'
  BY <1>7 DEF Delete, LetGo, Return, Idle
<1>8. ASSUME NEW o \in Object, DropsFinalizer(o) PROVE ReferenceOwners'
  BY <1>8 DEF DropsFinalizer, Released, Collected, Return, Idle
<1>9. ASSUME NEW o \in Object, CallFails(o) PROVE ReferenceOwners'
  BY <1>9 DEF CallFails, Return, LetGo, Idle
<1>10. ASSUME NEW o \in Object, CacheSync(o) PROVE ReferenceOwners'
  BY <1>10 DEF CacheSync
<1>11. ASSUME NEW o \in Object, UserCreates(o) PROVE ReferenceOwners'
  BY <1>11 DEF UserCreates
<1>12. ASSUME NEW o \in Object, UserDeletes(o) PROVE ReferenceOwners'
  BY <1>12 DEF UserDeletes, Collected
<1>13. ASSUME NEW o \in Object, UserEditsPolicy(o) PROVE ReferenceOwners'
  BY <1>13 DEF UserEditsPolicy
<1>14. ASSUME NEW o \in Object, NEW t \in Thing, StoresReferenceFinalizer(o, t) PROVE ReferenceOwners'
  BY <1>14 DEF StoresReferenceFinalizer, Mine, Touched, Goto
<1>15. ASSUME NEW o \in Object, NEW t \in Thing, ReleasesReference(o, t) PROVE ReferenceOwners'
  <2>1. ReleaseKept(o, t)
    BY <1>15, <1>b
  <2>2. ReferenceOwners
    OBVIOUS
  <2> HIDE DEF IInv, TypeOK
  <2>3. \A s \in Thing : refFins'[s] \subseteq refFins[s]
    BY <2>1 DEF ReleaseKept
  <2>4. \A p \in Object : obj'[p].uid = obj[p].uid /\ obj'[p].own = obj[p].own
    BY <2>1 DEF ReleaseKept
  <2> QED
    BY <2>2, <2>3, <2>4
<1>16. ASSUME NEW r \in Resource, ThirdParty(r) PROVE ReferenceOwners'
  <2>1. ThirdPartyKept
    BY <1>16, <1>b
  <2>2. UNCHANGED <<obj, refFins, cache, fresh, worker>>
    BY <1>16 DEF ThirdParty
  <2> QED
    BY <2>1, <2>2 DEF ThirdPartyKept
<1>17. ASSUME NEW r \in Resource, CollectResource(r) PROVE ReferenceOwners'
  BY <1>17 DEF CollectResource, Absent
<1>18. CASE Restart
  BY <1>18 DEF Restart, Idle
<1>19. CASE UNCHANGED vars
  BY <1>19 DEF vars
<1> HIDE DEF IInv, TypeOK, ReferenceOwners, Releasing, Protection, LatestCopies, WorkerCopies, Shows, Mine, Pc, Held, ObjectRecord, WorkerRecord
<1> QED
  BY <1>b, <1>1, <1>2, <1>3, <1>4, <1>5, <1>6, <1>7, <1>8, <1>9, <1>10, <1>11, <1>12, <1>13, <1>14, <1>15, <1>16, <1>17, <1>18, <1>19 DEF Next, WorkerStep

\* What is not there holds no finalizer.
LEMMA AbsentInductive ==
    ASSUME IInv, [Next]_vars
    PROVE  AbsentUnheld'
<1>a. TypeOK
  BY DEF IInv
<1>b. /\ \A o \in Object : Reconcile(o) => WorkerStep(o)
      /\ \A o \in Object, t \in Thing : ReleasesReference(o, t) => ReleaseKept(o, t)
      /\ \A r \in Resource : ThirdParty(r) => ThirdPartyKept
  BY <1>a, StepKinds
<1> USE LifecycleAssumption DEF IInv, TypeOK, AbsentUnheld, Present, Pc, Held, ObjectRecord, ResourceRecord
<1>1. ASSUME NEW o \in Object, Begin(o) PROVE AbsentUnheld'
  BY <1>1 DEF Begin
<1>2. ASSUME NEW o \in Object, GiveUp(o) PROVE AbsentUnheld'
  BY <1>2 DEF GiveUp, Return, LetGo, Idle
<1>3. ASSUME NEW o \in Object, MovesOn(o) PROVE AbsentUnheld'
  <2>1. PICK w \in WorkerRecord :
           /\ Reads(o, w) /\ w.held = Held(o) /\ w.todo \subseteq worker[o].todo \cup Refs[o]
           /\ worker' = [worker EXCEPT ![o] = w]
    BY <1>3 DEF MovesOn
  <2>2. \A p \in Object : worker'[p] = IF p = o THEN w ELSE worker[p]
    BY <2>1
  <2> QED
    BY <1>3, <2>1, <2>2 DEF MovesOn, Reads
<1>4. ASSUME NEW o \in Object, StoresFinalizer(o) PROVE AbsentUnheld'
  <2>1. obj[o].phase # "gone"
    BY <1>4 DEF StoresFinalizer, LatestCopies, WorkerCopies
  <2>2. \A p \in Object : obj'[p].phase = obj[p].phase
    BY <1>4 DEF StoresFinalizer, LatestCopies
  <2>3. UNCHANGED <<res, refFins>>
    BY <1>4 DEF StoresFinalizer
  <2>4. AbsentUnheld
    OBVIOUS
  <2> HIDE DEF IInv, TypeOK
  <2> QED
    BY <2>2, <2>3, <2>4
<1>5. ASSUME NEW o \in Object, StoresCreatePending(o) PROVE AbsentUnheld'
  BY <1>5 DEF StoresCreatePending, Goto
<1>6. ASSUME NEW o \in Object, Applies(o) PROVE AbsentUnheld'
  BY <1>6 DEF Applies, Applied, Return, Idle
<1>7. ASSUME NEW o \in Object, Delete(o) PROVE AbsentUnheld'
  BY <1>7 DEF Delete, LetGo, Return, Idle
<1>8. ASSUME NEW o \in Object, DropsFinalizer(o) PROVE AbsentUnheld'
  BY <1>8 DEF DropsFinalizer, Released, Collected, Return, Idle
<1>9. ASSUME NEW o \in Object, CallFails(o) PROVE AbsentUnheld'
  BY <1>9 DEF CallFails, Return, LetGo, Idle
<1>10. ASSUME NEW o \in Object, CacheSync(o) PROVE AbsentUnheld'
  BY <1>10 DEF CacheSync
<1>11. ASSUME NEW o \in Object, UserCreates(o) PROVE AbsentUnheld'
  BY <1>11 DEF UserCreates
<1>12. ASSUME NEW o \in Object, UserDeletes(o) PROVE AbsentUnheld'
  BY <1>12 DEF UserDeletes, Collected
<1>13. ASSUME NEW o \in Object, UserEditsPolicy(o) PROVE AbsentUnheld'
  BY <1>13 DEF UserEditsPolicy
<1>14. ASSUME NEW o \in Object, NEW t \in Thing, StoresReferenceFinalizer(o, t) PROVE AbsentUnheld'
  BY <1>14 DEF StoresReferenceFinalizer, Mine, Touched, Goto
<1>15. ASSUME NEW o \in Object, NEW t \in Thing, ReleasesReference(o, t) PROVE AbsentUnheld'
  <2>1. ReleaseKept(o, t)
    BY <1>15, <1>b
  <2>2. /\ \A s \in Thing : refFins'[s] \subseteq refFins[s]
        /\ \A p \in Object : obj'[p].phase = "gone" => obj[p].phase = "gone" \/ refFins'[p] = {}
    BY <2>1 DEF ReleaseKept
  <2>3. UNCHANGED res
    BY <1>15 DEF ReleasesReference
  <2>4. AbsentUnheld
    OBVIOUS
  <2> HIDE DEF IInv, TypeOK
  <2>5. ASSUME NEW s \in Thing, ~Present(s)'
        PROVE  refFins'[s] = {}
    BY <2>2, <2>3, <2>4, <2>5
  <2> QED
    BY <2>5
<1>16. ASSUME NEW r \in Resource, ThirdParty(r) PROVE AbsentUnheld'
  <2>1. ThirdPartyKept
    BY <1>16, <1>b
  <2>2. UNCHANGED <<obj, refFins>>
    BY <1>16 DEF ThirdParty
  <2>3. AbsentUnheld
    OBVIOUS
  <2> HIDE DEF IInv, TypeOK
  <2>4. ASSUME NEW s \in Thing, ~Present(s)'
        PROVE  refFins'[s] = {}
    BY <2>1, <2>2, <2>3, <2>4 DEF ThirdPartyKept, Thing
  <2> QED
    BY <2>4
<1>17. ASSUME NEW r \in Resource, CollectResource(r) PROVE AbsentUnheld'
  BY <1>17 DEF CollectResource, Absent
<1>18. CASE Restart
  BY <1>18 DEF Restart, Idle
<1>19. CASE UNCHANGED vars
  BY <1>19 DEF vars
<1> HIDE DEF IInv, TypeOK, AbsentUnheld, Present, Pc, Held, ObjectRecord, ResourceRecord
<1> QED
  BY <1>b, <1>1, <1>2, <1>3, <1>4, <1>5, <1>6, <1>7, <1>8, <1>9, <1>10, <1>11, <1>12, <1>13, <1>14, <1>15, <1>16, <1>17, <1>18, <1>19 DEF Next, WorkerStep

\* Where the loop of RemoveFinalizer has passed, the finalizer is off.
LEMMA ReleasingInductive ==
    ASSUME IInv, [Next]_vars
    PROVE  Releasing'
<1>a. TypeOK
  BY DEF IInv
<1>b. /\ \A o \in Object : Reconcile(o) => WorkerStep(o)
      /\ \A o \in Object, t \in Thing : ReleasesReference(o, t) => ReleaseKept(o, t)
      /\ \A r \in Resource : ThirdParty(r) => ThirdPartyKept
  BY <1>a, StepKinds
<1> USE LifecycleAssumption DEF IInv, TypeOK, Releasing, ReferenceOwners, AbsentUnheld, WorkerCopies, Mine, Pc, Held, ObjectRecord, WorkerRecord
<1>1. ASSUME NEW o \in Object, Begin(o) PROVE Releasing'
  BY <1>1 DEF Begin
<1>2. ASSUME NEW o \in Object, GiveUp(o) PROVE Releasing'
  BY <1>2 DEF GiveUp, Return, LetGo, Idle
<1>3. ASSUME NEW o \in Object, MovesOn(o) PROVE Releasing'
  <2>1. PICK w \in WorkerRecord :
           /\ Reads(o, w) /\ w.held = Held(o) /\ w.todo \subseteq worker[o].todo \cup Refs[o]
           /\ worker' = [worker EXCEPT ![o] = w]
    BY <1>3 DEF MovesOn
  <2>2. \A p \in Object : worker'[p] = IF p = o THEN w ELSE worker[p]
    BY <2>1
  <2> QED
    BY <1>3, <2>1, <2>2 DEF MovesOn, Reads
<1>4. ASSUME NEW o \in Object, StoresFinalizer(o) PROVE Releasing'
  BY <1>4 DEF StoresFinalizer
<1>5. ASSUME NEW o \in Object, StoresCreatePending(o) PROVE Releasing'
  BY <1>5 DEF StoresCreatePending, Goto
<1>6. ASSUME NEW o \in Object, Applies(o) PROVE Releasing'
  BY <1>6 DEF Applies, Applied, Return, Idle
<1>7. ASSUME NEW o \in Object, Delete(o) PROVE Releasing'
  BY <1>7 DEF Delete, LetGo, Return, Idle
<1>8. ASSUME NEW o \in Object, DropsFinalizer(o) PROVE Releasing'
  BY <1>8 DEF DropsFinalizer, Released, Collected, Return, Idle
<1>9. ASSUME NEW o \in Object, CallFails(o) PROVE Releasing'
  BY <1>9 DEF CallFails, Return, LetGo, Idle
<1>10. ASSUME NEW o \in Object, CacheSync(o) PROVE Releasing'
  BY <1>10 DEF CacheSync
<1>11. ASSUME NEW o \in Object, UserCreates(o) PROVE Releasing'
  BY <1>11 DEF UserCreates
<1>12. ASSUME NEW o \in Object, UserDeletes(o) PROVE Releasing'
  BY <1>12 DEF UserDeletes, Collected
<1>13. ASSUME NEW o \in Object, UserEditsPolicy(o) PROVE Releasing'
  BY <1>13 DEF UserEditsPolicy
<1>14. ASSUME NEW o \in Object, NEW t \in Thing, StoresReferenceFinalizer(o, t) PROVE Releasing'
  BY <1>14 DEF StoresReferenceFinalizer, Mine, Touched, Goto
<1>15. ASSUME NEW o \in Object, NEW t \in Thing, ReleasesReference(o, t) PROVE Releasing'
  <2>1. ReleaseKept(o, t)
    BY <1>15, <1>b
  <2>2. Releasing /\ AbsentUnheld
    OBVIOUS
  <2> HIDE DEF IInv, TypeOK
  <2>3. \A s \in Thing : refFins'[s] \subseteq refFins[s]
    BY <2>1 DEF ReleaseKept
  <2>4. Mine(o) \notin refFins'[t]
    BY <2>1, <2>2, <2>3 DEF ReleaseKept
  <2>5. /\ \A p \in Object : worker'[p].pc = worker[p].pc /\ worker'[p].held = worker[p].held
        /\ \A p \in Object : p # o => worker'[p].todo = worker[p].todo
        /\ worker'[o].todo = worker[o].todo \ {t}
    BY <2>1 DEF ReleaseKept
  <2>6. ASSUME NEW p \in Object, NEW s \in Thing, Pc(p)' = "unfinalize", s \notin worker'[p].todo
        PROVE  Mine(p)' \notin refFins'[s]
    <3>1. Mine(p)' = Mine(p) /\ Pc(p) = "unfinalize"
      BY <2>5, <2>6
    <3>2. CASE p = o /\ s = t
      BY <2>4, <3>1, <3>2
    <3>3. CASE ~(p = o /\ s = t)
      <4>1. s \notin worker[p].todo
        BY <2>5, <2>6, <3>3
      <4>2. Mine(p) \notin refFins[s]
        BY <2>2, <3>1, <4>1
      <4> QED
        BY <2>3, <3>1, <4>2
    <3> QED
      BY <3>2, <3>3
  <2> QED
    BY <2>6
<1>16. ASSUME NEW r \in Resource, ThirdParty(r) PROVE Releasing'
  <2>1. ThirdPartyKept
    BY <1>16, <1>b
  <2>2. UNCHANGED <<obj, refFins, cache, fresh, worker>>
    BY <1>16 DEF ThirdParty
  <2> QED
    BY <2>1, <2>2 DEF ThirdPartyKept
<1>17. ASSUME NEW r \in Resource, CollectResource(r) PROVE Releasing'
  BY <1>17 DEF CollectResource, Absent
<1>18. CASE Restart
  BY <1>18 DEF Restart, Idle
<1>19. CASE UNCHANGED vars
  BY <1>19 DEF vars
<1> HIDE DEF IInv, TypeOK, Releasing, ReferenceOwners, AbsentUnheld, WorkerCopies, Mine, Pc, Held, ObjectRecord, WorkerRecord
<1> QED
  BY <1>b, <1>1, <1>2, <1>3, <1>4, <1>5, <1>6, <1>7, <1>8, <1>9, <1>10, <1>11, <1>12, <1>13, <1>14, <1>15, <1>16, <1>17, <1>18, <1>19 DEF Next, WorkerStep

\* The managers of a resource are no younger than the copies of their Object.
LEMMA ManagersInductive ==
    ASSUME IInv, [Next]_vars
    PROVE  Managers'
<1>a. TypeOK
  BY DEF IInv
<1>b. /\ \A o \in Object : Reconcile(o) => WorkerStep(o)
      /\ \A o \in Object, t \in Thing : ReleasesReference(o, t) => ReleaseKept(o, t)
      /\ \A r \in Resource : ThirdParty(r) => ThirdPartyKept
  BY <1>a, StepKinds
<1> USE LifecycleAssumption DEF IInv, TypeOK, Managers, Protection, CopiesAge, LatestCopies, WorkerCopies, Older, Shows, Mine, Pc, Held, ObjectRecord, WorkerRecord, ResourceRecord
<1>1. ASSUME NEW o \in Object, Begin(o) PROVE Managers'
  BY <1>1 DEF Begin
<1>2. ASSUME NEW o \in Object, GiveUp(o) PROVE Managers'
  BY <1>2 DEF GiveUp, Return, LetGo, Idle
<1>3. ASSUME NEW o \in Object, MovesOn(o) PROVE Managers'
  <2>1. PICK w \in WorkerRecord :
           /\ Reads(o, w) /\ w.held = Held(o) /\ w.todo \subseteq worker[o].todo \cup Refs[o]
           /\ worker' = [worker EXCEPT ![o] = w]
    BY <1>3 DEF MovesOn
  <2>2. \A p \in Object : worker'[p] = IF p = o THEN w ELSE worker[p]
    BY <2>1
  <2> QED
    BY <1>3, <2>1, <2>2 DEF MovesOn, Reads
<1>4. ASSUME NEW o \in Object, StoresFinalizer(o) PROVE Managers'
  BY <1>4 DEF StoresFinalizer
<1>5. ASSUME NEW o \in Object, StoresCreatePending(o) PROVE Managers'
  BY <1>5 DEF StoresCreatePending, Goto
<1>6. ASSUME NEW o \in Object, Applies(o) PROVE Managers'
  BY <1>6 DEF Applies, Applied, Return, Idle
<1>7. ASSUME NEW o \in Object, Delete(o) PROVE Managers'
  BY <1>7 DEF Delete, LetGo, Return, Idle
<1>8. ASSUME NEW o \in Object, DropsFinalizer(o) PROVE Managers'
  BY <1>8 DEF DropsFinalizer, Released, Collected, Return, Idle
<1>9. ASSUME NEW o \in Object, CallFails(o) PROVE Managers'
  BY <1>9 DEF CallFails, Return, LetGo, Idle
<1>10. ASSUME NEW o \in Object, CacheSync(o) PROVE Managers'
  BY <1>10 DEF CacheSync
<1>11. ASSUME NEW o \in Object, UserCreates(o) PROVE Managers'
  BY <1>11 DEF UserCreates
<1>12. ASSUME NEW o \in Object, UserDeletes(o) PROVE Managers'
  BY <1>12 DEF UserDeletes, Collected
<1>13. ASSUME NEW o \in Object, UserEditsPolicy(o) PROVE Managers'
  BY <1>13 DEF UserEditsPolicy
<1>14. ASSUME NEW o \in Object, NEW t \in Thing, StoresReferenceFinalizer(o, t) PROVE Managers'
  BY <1>14 DEF StoresReferenceFinalizer, Mine, Touched, Goto
<1>15. ASSUME NEW o \in Object, NEW t \in Thing, ReleasesReference(o, t) PROVE Managers'
  <2>1. ReleaseKept(o, t)
    BY <1>15, <1>b
  <2>2. \A p \in Object :
           /\ obj'[p].uid = obj[p].uid /\ obj'[p].own = obj[p].own
           /\ obj'[p].phase = "alive" => obj[p].phase = "alive"
           /\ worker'[p].pc = worker[p].pc /\ worker'[p].held = worker[p].held
    BY <2>1 DEF ReleaseKept
  <2>3. UNCHANGED <<res, cache>>
    BY <1>15 DEF ReleasesReference
  <2>4. Managers
    OBVIOUS
  <2> HIDE DEF IInv, TypeOK
  <2> QED
    BY <2>2, <2>3, <2>4
<1>16. ASSUME NEW r \in Resource, ThirdParty(r) PROVE Managers'
  <2>1. \A s \in Resource : res'[s].managers = {} \/ res'[s].managers = res[s].managers
    BY <1>16, <1>b DEF ThirdPartyKept
  <2>2. UNCHANGED <<obj, cache, worker>>
    BY <1>16 DEF ThirdParty
  <2>3. Managers /\ \A o \in Object : Manifest[o] \in Resource
    OBVIOUS
  <2> HIDE DEF IInv, TypeOK
  <2> QED
    BY <2>1, <2>2, <2>3
<1>17. ASSUME NEW r \in Resource, CollectResource(r) PROVE Managers'
  BY <1>17 DEF CollectResource, Absent
<1>18. CASE Restart
  BY <1>18 DEF Restart, Idle
<1>19. CASE UNCHANGED vars
  BY <1>19 DEF vars
<1> HIDE DEF IInv, TypeOK, Managers, Protection, CopiesAge, LatestCopies, WorkerCopies, Older, Shows, Mine, Pc, Held, ObjectRecord, WorkerRecord, ResourceRecord
<1> QED
  BY <1>b, <1>1, <1>2, <1>3, <1>4, <1>5, <1>6, <1>7, <1>8, <1>9, <1>10, <1>11, <1>12, <1>13, <1>14, <1>15, <1>16, <1>17, <1>18, <1>19 DEF Next, WorkerStep

\* A worker that lets go of an Object leaves no resource of its incarnation behind.
LEMMA UnmanagedInductive ==
    ASSUME IInv, [Next]_vars
    PROVE  Unmanaged'
<1>a. TypeOK
  BY DEF IInv
<1>b. /\ \A o \in Object : Reconcile(o) => WorkerStep(o)
      /\ \A o \in Object, t \in Thing : ReleasesReference(o, t) => ReleaseKept(o, t)
      /\ \A r \in Resource : ThirdParty(r) => ThirdPartyKept
  BY <1>a, StepKinds
<1> USE LifecycleAssumption DEF IInv, TypeOK, Unmanaged, Mine, Pc, Held, ObjectRecord, WorkerRecord, ResourceRecord
<1>1. ASSUME NEW o \in Object, Begin(o) PROVE Unmanaged'
  BY <1>1 DEF Begin
<1>2. ASSUME NEW o \in Object, GiveUp(o) PROVE Unmanaged'
  BY <1>2 DEF GiveUp, Return, LetGo, Idle
<1>3. ASSUME NEW o \in Object, MovesOn(o) PROVE Unmanaged'
  <2>1. PICK w \in WorkerRecord :
           /\ Reads(o, w) /\ w.held = Held(o) /\ w.todo \subseteq worker[o].todo \cup Refs[o]
           /\ worker' = [worker EXCEPT ![o] = w]
    BY <1>3 DEF MovesOn
  <2>2. \A p \in Object : worker'[p] = IF p = o THEN w ELSE worker[p]
    BY <2>1
  <2> QED
    BY <1>3, <2>1, <2>2 DEF MovesOn, Reads
<1>4. ASSUME NEW o \in Object, StoresFinalizer(o) PROVE Unmanaged'
  BY <1>4 DEF StoresFinalizer
<1>5. ASSUME NEW o \in Object, StoresCreatePending(o) PROVE Unmanaged'
  BY <1>5 DEF StoresCreatePending, Goto
<1>6. ASSUME NEW o \in Object, Applies(o) PROVE Unmanaged'
  BY <1>6 DEF Applies, Applied, Return, Idle
<1>7. ASSUME NEW o \in Object, Delete(o) PROVE Unmanaged'
  BY <1>7 DEF Delete, LetGo, Return, Idle
<1>8. ASSUME NEW o \in Object, DropsFinalizer(o) PROVE Unmanaged'
  BY <1>8 DEF DropsFinalizer, Released, Collected, Return, Idle
<1>9. ASSUME NEW o \in Object, CallFails(o) PROVE Unmanaged'
  BY <1>9 DEF CallFails, Return, LetGo, Idle
<1>10. ASSUME NEW o \in Object, CacheSync(o) PROVE Unmanaged'
  BY <1>10 DEF CacheSync
<1>11. ASSUME NEW o \in Object, UserCreates(o) PROVE Unmanaged'
  BY <1>11 DEF UserCreates
<1>12. ASSUME NEW o \in Object, UserDeletes(o) PROVE Unmanaged'
  BY <1>12 DEF UserDeletes, Collected
<1>13. ASSUME NEW o \in Object, UserEditsPolicy(o) PROVE Unmanaged'
  BY <1>13 DEF UserEditsPolicy
<1>14. ASSUME NEW o \in Object, NEW t \in Thing, StoresReferenceFinalizer(o, t) PROVE Unmanaged'
  BY <1>14 DEF StoresReferenceFinalizer, Mine, Touched, Goto
<1>15. ASSUME NEW o \in Object, NEW t \in Thing, ReleasesReference(o, t) PROVE Unmanaged'
  <2>1. ReleaseKept(o, t)
    BY <1>15, <1>b
  <2>2. /\ Pc(o) = "unfinalize" /\ t \in worker[o].todo
        /\ UNCHANGED <<res, cache, faults>>
    BY <1>15 DEF ReleasesReference
  <2> QED
    BY <2>1, <2>2 DEF ReleaseKept
<1>16. ASSUME NEW r \in Resource, ThirdParty(r) PROVE Unmanaged'
  <2>1. ThirdPartyKept
    BY <1>16, <1>b
  <2>2. UNCHANGED <<obj, refFins, cache, fresh, worker>>
    BY <1>16 DEF ThirdParty
  <2> QED
    BY <2>1, <2>2 DEF ThirdPartyKept
<1>17. ASSUME NEW r \in Resource, CollectResource(r) PROVE Unmanaged'
  BY <1>17 DEF CollectResource, Absent
<1>18. CASE Restart
  BY <1>18 DEF Restart, Idle
<1>19. CASE UNCHANGED vars
  BY <1>19 DEF vars
<1> HIDE DEF IInv, TypeOK, Unmanaged, Mine, Pc, Held, ObjectRecord, WorkerRecord, ResourceRecord
<1> QED
  BY <1>b, <1>1, <1>2, <1>3, <1>4, <1>5, <1>6, <1>7, <1>8, <1>9, <1>10, <1>11, <1>12, <1>13, <1>14, <1>15, <1>16, <1>17, <1>18, <1>19 DEF Next, WorkerStep

\* No step leaves a resource without the finalizer of its Object.
LEMMA OrphanInductive ==
    ASSUME IInv, [Next]_vars
    PROVE  NoOrphanedResource'
<1>a. TypeOK
  BY DEF IInv
<1>b. /\ \A o \in Object : Reconcile(o) => WorkerStep(o)
      /\ \A o \in Object, t \in Thing : ReleasesReference(o, t) => ReleaseKept(o, t)
      /\ \A r \in Resource : ThirdParty(r) => ThirdPartyKept
  BY <1>a, StepKinds
<1> USE LifecycleAssumption DEF IInv, TypeOK, NoOrphanedResource, Manages, Owner, Unmanaged, Managers, Protection, LatestCopies, WorkerCopies, Shows, Mine, Pc, Held, ObjectRecord, WorkerRecord, ResourceRecord
<1>1. ASSUME NEW o \in Object, Begin(o) PROVE NoOrphanedResource'
  BY <1>1 DEF Begin
<1>2. ASSUME NEW o \in Object, GiveUp(o) PROVE NoOrphanedResource'
  BY <1>2 DEF GiveUp, Return, LetGo, Idle
<1>3. ASSUME NEW o \in Object, MovesOn(o) PROVE NoOrphanedResource'
  <2>1. PICK w \in WorkerRecord :
           /\ Reads(o, w) /\ w.held = Held(o) /\ w.todo \subseteq worker[o].todo \cup Refs[o]
           /\ worker' = [worker EXCEPT ![o] = w]
    BY <1>3 DEF MovesOn
  <2>2. \A p \in Object : worker'[p] = IF p = o THEN w ELSE worker[p]
    BY <2>1
  <2> QED
    BY <1>3, <2>1, <2>2 DEF MovesOn, Reads
<1>4. ASSUME NEW o \in Object, StoresFinalizer(o) PROVE NoOrphanedResource'
  BY <1>4 DEF StoresFinalizer
<1>5. ASSUME NEW o \in Object, StoresCreatePending(o) PROVE NoOrphanedResource'
  BY <1>5 DEF StoresCreatePending, Goto
<1>6. ASSUME NEW o \in Object, Applies(o) PROVE NoOrphanedResource'
  BY <1>6 DEF Applies, Applied, Return, Idle
<1>7. ASSUME NEW o \in Object, Delete(o) PROVE NoOrphanedResource'
  BY <1>7 DEF Delete, LetGo, Return, Idle
<1>8. ASSUME NEW o \in Object, DropsFinalizer(o) PROVE NoOrphanedResource'
  BY <1>8 DEF DropsFinalizer, Released, Collected, Return, Idle
<1>9. ASSUME NEW o \in Object, CallFails(o) PROVE NoOrphanedResource'
  BY <1>9 DEF CallFails, Return, LetGo, Idle
<1>10. ASSUME NEW o \in Object, CacheSync(o) PROVE NoOrphanedResource'
  BY <1>10 DEF CacheSync
<1>11. ASSUME NEW o \in Object, UserCreates(o) PROVE NoOrphanedResource'
  <2>1. /\ obj'[o].uid = obj[o].uid + 1
        /\ \A p \in Object : p # o => obj'[p] = obj[p]
        /\ UNCHANGED res
    BY <1>11 DEF UserCreates
  <2>2. \A u \in 0..MaxUID : <<o, u>> \in res[Manifest[o]].managers => u <= obj[o].uid
    BY DEF CopiesAge, Older
  <2>3. <<o, obj'[o].uid>> \notin res[Manifest[o]].managers
    <3>1. res[Manifest[o]].managers \subseteq Object \X (0..MaxUID)
      OBVIOUS
    <3>2. obj[o].uid \in Nat
      OBVIOUS
    <3> HIDE DEF IInv, TypeOK
    <3> QED
      BY <2>1, <2>2, <3>1, <3>2
  <2>4. NoOrphanedResource
    OBVIOUS
  <2> HIDE DEF IInv, TypeOK
  <2> QED
    BY <2>1, <2>3, <2>4
<1>12. ASSUME NEW o \in Object, UserDeletes(o) PROVE NoOrphanedResource'
  BY <1>12 DEF UserDeletes, Collected
<1>13. ASSUME NEW o \in Object, UserEditsPolicy(o) PROVE NoOrphanedResource'
  BY <1>13 DEF UserEditsPolicy
<1>14. ASSUME NEW o \in Object, NEW t \in Thing, StoresReferenceFinalizer(o, t) PROVE NoOrphanedResource'
  BY <1>14 DEF StoresReferenceFinalizer, Mine, Touched, Goto
<1>15. ASSUME NEW o \in Object, NEW t \in Thing, ReleasesReference(o, t) PROVE NoOrphanedResource'
  <2>1. ReleaseKept(o, t)
    BY <1>15, <1>b
  <2>2. /\ Pc(o) = "unfinalize" /\ t \in worker[o].todo
        /\ UNCHANGED <<res, cache, faults>>
    BY <1>15 DEF ReleasesReference
  <2> QED
    BY <2>1, <2>2 DEF ReleaseKept
<1>16. ASSUME NEW r \in Resource, ThirdParty(r) PROVE NoOrphanedResource'
  <2>1. ThirdPartyKept
    BY <1>16, <1>b
  <2>2. UNCHANGED <<obj, refFins, cache, fresh, worker>>
    BY <1>16 DEF ThirdParty
  <2> QED
    BY <2>1, <2>2 DEF ThirdPartyKept
<1>17. ASSUME NEW r \in Resource, CollectResource(r) PROVE NoOrphanedResource'
  BY <1>17 DEF CollectResource, Absent
<1>18. CASE Restart
  BY <1>18 DEF Restart, Idle
<1>19. CASE UNCHANGED vars
  BY <1>19 DEF vars
<1> HIDE DEF IInv, TypeOK, NoOrphanedResource, Manages, Owner, Unmanaged, Managers, Protection, LatestCopies, WorkerCopies, Shows, Mine, Pc, Held, ObjectRecord, WorkerRecord, ResourceRecord
<1> QED
  BY <1>b, <1>1, <1>2, <1>3, <1>4, <1>5, <1>6, <1>7, <1>8, <1>9, <1>10, <1>11, <1>12, <1>13, <1>14, <1>15, <1>16, <1>17, <1>18, <1>19 DEF Next, WorkerStep

-----------------------------------------------------------------------------
(* The theorems *)

\* The invariant holds at the start: there are no Objects, and every worker is idle.
LEMMA InvInitially ==
    ASSUME Init
    PROVE  IInv
<1>1. TypeOK
  BY InitType
<1>2. /\ \A o \in Object : obj[o] = NoObject /\ cache[o] = NoObject /\ worker[o] = Idle /\ fresh[o] = {"cache"}
      /\ \A t \in Thing : refFins[t] = {}
      /\ \A r \in Resource : res[r].managers = {}
      /\ \A o \in Object : Manifest[o] \in Resource
  BY LifecycleAssumption DEF Init, Absent, Foreign
<1>3. /\ NoObject.uid = 0 /\ NoObject.phase = "gone" /\ NoObject.own = FALSE
      /\ Idle.pc = "idle" /\ Idle.todo = {}
  BY DEF NoObject, Idle
<1>4. LatestCopies /\ WorkerCopies /\ CopiesAge /\ Protection
  BY <1>2, <1>3 DEF LatestCopies, WorkerCopies, CopiesAge, Protection, Older, Shows, Pc
<1>5. ReferenceOwners /\ AbsentUnheld /\ Releasing
  BY <1>2, <1>3 DEF ReferenceOwners, AbsentUnheld, Releasing, Pc
<1>6. Managers /\ Unmanaged /\ NoOrphanedResource
  BY <1>2, <1>3 DEF Managers, Unmanaged, NoOrphanedResource, Manages, Pc
<1> QED
  BY <1>1, <1>4, <1>5, <1>6 DEF IInv

\* No step of a worker, a user, a third party, the server or the process breaks it.
LEMMA InvPreserved ==
    ASSUME IInv, [Next]_vars
    PROVE  IInv'
<1>1. TypeOK'
  BY TypeInductive DEF IInv
<1>2. LatestCopies' /\ WorkerCopies' /\ CopiesAge' /\ Protection'
  BY LatestInductive, WorkerInductive, AgeInductive, ProtectionInductive
<1>3. ReferenceOwners' /\ AbsentUnheld' /\ Releasing'
  BY OwnersInductive, AbsentInductive, ReleasingInductive
<1>4. Managers' /\ Unmanaged' /\ NoOrphanedResource'
  BY ManagersInductive, UnmanagedInductive, OrphanInductive
<1> QED
  BY <1>1, <1>2, <1>3, <1>4 DEF IInv

\* The invariant of every behaviour.
THEOREM Invariance == Spec => []IInv
<1>1. Init => IInv
  BY InvInitially
<1>2. IInv /\ [Next]_vars => IInv'
  BY InvPreserved
<1> QED
  BY <1>1, <1>2, PTL DEF Spec

\* Whatever an incarnation of an Object applied, it keeps its own finalizer until the
\* resource is gone or the policy orphans it.
THEOREM ResourcesNotOrphaned == Spec => []NoOrphanedResource
<1>1. IInv => NoOrphanedResource
  BY DEF IInv
<1> QED
  BY <1>1, Invariance, PTL

\* Every reference finalizer belongs to a protected Object that lists the reference, so
\* that RemoveFinalizer will yet take it off.
THEOREM ReferenceFinalizersNotOrphaned == Spec => []NoOrphanedReferenceFinalizer
<1>1. IInv => NoOrphanedReferenceFinalizer
  <2> SUFFICES ASSUME IInv, NEW t \in Thing, NEW f \in refFins[t]
               PROVE  /\ f \in {Owner(o) : o \in Object}
                      /\ obj[f[1]].own
                      /\ t \in Refs[f[1]]
    BY DEF NoOrphanedReferenceFinalizer
  <2>1. PICK o \in Object, u \in 0..MaxUID : f = <<o, u>>
    BY DEF IInv, TypeOK
  <2>2. u = obj[o].uid /\ obj[o].own /\ t \in Refs[o]
    BY <2>1 DEF IInv, ReferenceOwners
  <2> QED
    BY <2>1, <2>2 DEF Owner
<1> QED
  BY <1>1, Invariance, PTL

\* A worker that deletes from a stale copy never meets the resource of a live incarnation:
\* whoever manages it is no younger than the copy, and the copy is of a deleted Object.
THEOREM LiveResourcesSpared == Spec => LiveResourceSpared
<1>1. IInv /\ [Next]_vars =>
          [\A o \in Object : obj[o].phase = "alive" /\ Manages(o) => ~Delete(o)]_vars
  <2> SUFFICES ASSUME IInv, NEW o \in Object, obj[o].phase = "alive", Manages(o), Delete(o)
               PROVE  FALSE
    OBVIOUS
  <2>1. Pc(o) = "delete" /\ Held(o).phase = "deleting"
    BY DEF Delete, IInv, WorkerCopies, Pc
  <2>2. /\ obj[o].uid \in 0..MaxUID /\ cache[o].uid \in 0..MaxUID /\ Held(o).uid \in 0..MaxUID
    BY DEF IInv, TypeOK, ObjectRecord, WorkerRecord, Held
  <2>3. obj[o].uid <= Held(o).uid
    BY <2>1, <2>2 DEF Manages, Owner, IInv, Managers
  <2>4. /\ Held(o).uid <= cache[o].uid
        /\ Held(o).uid = cache[o].uid => cache[o].phase # "alive"
        /\ cache[o].uid <= obj[o].uid
        /\ cache[o].uid = obj[o].uid /\ cache[o].phase # "alive" => obj[o].phase # "alive"
    BY <2>1 DEF IInv, CopiesAge, Older
  <2> QED
    BY <2>2, <2>3, <2>4
<1> QED
  BY <1>1, Invariance, PTL DEF Spec, LiveResourceSpared

-----------------------------------------------------------------------------
(* The refinement: every step is a step of ObjectContract, or none *)

\* An Object under deletion is protected or waits for a reference finalizer.
Owed == \A o \in Object : obj[o].phase = "deleting" => obj[o].own \/ refFins[o] # {}

\* What a step leaves of the state the contract speaks of.
PhasesKept  == \A p \in Object : obj'[p].phase = obj[p].phase
OwnsKept    == \A p \in Object : obj'[p].own = obj[p].own
OrphansKept == \A p \in Object : ("Delete" \in obj'[p].policy) = ("Delete" \in obj[p].policy)
ManagesKept == \A p \in Object : Manages(p)' = Manages(p)
HoldsKept   == \A p \in Object, t \in Thing : (Owner(p) \in refFins[t])' = (Owner(p) \in refFins[t])

\* What users see is kept where the state it is made of is.
LEMMA KeptView ==
    /\ PhasesKept  => UNCHANGED Phase
    /\ OwnsKept    => UNCHANGED Protected
    /\ OrphansKept => UNCHANGED Orphaned
    /\ ManagesKept => UNCHANGED Managing
    /\ HoldsKept   => UNCHANGED Holds
<1>1. PhasesKept => UNCHANGED Phase
  BY DEF PhasesKept, Phase
<1>2. OwnsKept => UNCHANGED Protected
  BY DEF OwnsKept, Protected
<1>3. OrphansKept => UNCHANGED Orphaned
  BY DEF OrphansKept, Orphaned
<1>4. ManagesKept => UNCHANGED Managing
  BY DEF ManagesKept, Managing
<1>5. HoldsKept => UNCHANGED Holds
  <2> SUFFICES ASSUME HoldsKept, NEW o \in Object
               PROVE  {t \in Thing : Owner(o) \in refFins[t]}' = {t \in Thing : Owner(o) \in refFins[t]}
    BY DEF Holds
  <2> QED
    BY DEF HoldsKept
<1> QED
  BY <1>1, <1>2, <1>3, <1>4, <1>5

\* AddFinalizer, the own finalizer: Protect.
LEMMA ProtectStep ==
    ASSUME IInv, NEW o \in Object, StoresFinalizer(o)
    PROVE  Contract!Protect(o)
<1>1. Held(o) = obj[o] /\ obj[o].phase = "alive" /\ obj[o] \in ObjectRecord
  BY DEF StoresFinalizer, IInv, LatestCopies, WorkerCopies, TypeOK
<1>2. \A p \in Object : obj'[p] = IF p = o THEN [obj[o] EXCEPT !.own = TRUE] ELSE obj[p]
  BY <1>1 DEF StoresFinalizer, IInv, TypeOK
<1>3. /\ obj'[o].phase = obj[o].phase /\ obj'[o].uid = obj[o].uid /\ obj'[o].policy = obj[o].policy
      /\ obj'[o].own
  BY <1>1, <1>2 DEF ObjectRecord
<1>4. PhasesKept /\ OrphansKept /\ ManagesKept /\ HoldsKept
  BY <1>2, <1>3 DEF PhasesKept, OrphansKept, ManagesKept, HoldsKept, Manages, Owner, StoresFinalizer
<1>5. Protected' = Protected \cup {o}
  BY <1>2, <1>3 DEF Protected
<1> QED
  BY <1>1, <1>4, <1>5, KeptView DEF Contract!Protect, Protected, Phase

\* What a worker writes while it works on a live Object it has protected is in the name of
\* the stored incarnation.
LEMMA WritesAsOwner ==
    ASSUME IInv, NEW o \in Object, Pc(o) \in {"addrefs", "create"}
    PROVE  Held(o).uid = obj[o].uid /\ obj[o].own
  BY DEF IInv, WorkerCopies, Protection, Shows

\* AddFinalizer, a reference: Hold.
LEMMA HoldStep ==
    ASSUME IInv, NEW o \in Object, NEW t \in Thing, StoresReferenceFinalizer(o, t)
    PROVE  Contract!Hold(o, t)
<1>1. Mine(o) = Owner(o) /\ obj[o].own
  BY WritesAsOwner DEF StoresReferenceFinalizer, Mine, Owner, Held
<1>2. t \in Object => obj[t].phase = "alive"
  BY DEF StoresReferenceFinalizer, Present, Terminating, IInv, TypeOK, ObjectRecord
<1>3. UNCHANGED <<obj, res>> /\ \A p \in Object : Owner(p)' = Owner(p)
  BY DEF StoresReferenceFinalizer, Owner
<1>4. PhasesKept /\ OwnsKept /\ OrphansKept /\ ManagesKept
  BY <1>3 DEF PhasesKept, OwnsKept, OrphansKept, ManagesKept, Manages
<1>5. \A s \in Thing : refFins'[s] = IF s = t THEN refFins[t] \cup {Owner(o)} ELSE refFins[s]
  BY <1>1 DEF StoresReferenceFinalizer, IInv, TypeOK
<1>6. \A p \in Object : Owner(p) = Owner(o) => p = o
  BY DEF Owner
<1>7. \A p \in Object, s \in Thing :
        (Owner(p) \in refFins[s])' = (Owner(p) \in refFins[s] \/ (p = o /\ s = t))
  BY <1>3, <1>5, <1>6
<1>8. Holds' = [Holds EXCEPT ![o] = @ \cup {t}]
  <2> SUFFICES ASSUME NEW p \in Object
               PROVE  {s \in Thing : Owner(p) \in refFins[s]}' =
                        IF p = o THEN {s \in Thing : Owner(p) \in refFins[s]} \cup {t}
                        ELSE {s \in Thing : Owner(p) \in refFins[s]}
    BY DEF Holds
  <2> QED
    BY <1>7
<1> QED
  BY <1>1, <1>2, <1>4, <1>8, KeptView DEF Contract!Hold, Protected, Phase

\* Create and Update: Apply.
LEMMA ApplyStep ==
    ASSUME IInv, NEW o \in Object, Applies(o)
    PROVE  Contract!Apply(o)
<1>1. <<o, Held(o).uid>> = Owner(o) /\ obj[o].own
  BY WritesAsOwner DEF Applies, Owner
<1>2. UNCHANGED <<obj, refFins>> /\ \A p \in Object : Owner(p)' = Owner(p)
  BY DEF Applies, Owner
<1>3. PhasesKept /\ OwnsKept /\ OrphansKept /\ HoldsKept
  BY <1>2 DEF PhasesKept, OwnsKept, OrphansKept, HoldsKept
<1>4. \A r \in Resource : res'[r].managers =
        IF r = Manifest[o] THEN res[r].managers \cup {Owner(o)} ELSE res[r].managers
  BY <1>1 DEF Applies, Applied, IInv, TypeOK, ResourceRecord
<1>5. \A p \in Object : Manifest[p] \in Resource
  BY LifecycleAssumption
<1>6. \A p \in Object : Owner(p) = Owner(o) => p = o
  BY DEF Owner
<1>7. ASSUME NEW p \in Object
      PROVE  Manages(p)' <=> (Manages(p) \/ p = o)
  <2>1. res'[Manifest[p]].managers = IF Manifest[p] = Manifest[o]
                                     THEN res[Manifest[p]].managers \cup {Owner(o)}
                                     ELSE res[Manifest[p]].managers
    BY <1>4, <1>5
  <2>2. Owner(p)' = Owner(p) /\ (Owner(p) = Owner(o) <=> p = o)
    BY <1>2, <1>6
  <2> QED
    BY <2>1, <2>2 DEF Manages
<1>8. Managing' = Managing \cup {o}
  BY <1>7 DEF Managing
<1> QED
  BY <1>1, <1>3, <1>8, KeptView DEF Contract!Apply, Protected

\* Every reference finalizer is held by the incarnation there is.
LEMMA Holders ==
    ASSUME IInv, NEW t \in Thing, NEW f \in refFins[t]
    PROVE  \E q \in Object : f = Owner(q)
<1>1. PICK q \in Object, u \in 0..MaxUID : f = <<q, u>>
  BY DEF IInv, TypeOK
<1>2. u = obj[q].uid
  BY <1>1 DEF IInv, ReferenceOwners
<1> QED
  BY <1>1, <1>2 DEF Owner

\* RemoveFinalizer, a reference: Release, which may be the end of what it held.
LEMMA ReleaseStep ==
    ASSUME IInv, IInv', Owed, NEW o \in Object, NEW t \in Thing, ReleasesReference(o, t),
           ~UNCHANGED <<obj, refFins>>
    PROVE  Contract!Release(o, t)
<1>1. /\ Present(t) /\ Mine(o) \in refFins[t]
      /\ refFins' = [refFins EXCEPT ![t] = @ \ {Mine(o)}]
      /\ obj' = Collected(obj, refFins', t)
      /\ UNCHANGED res
  BY DEF ReleasesReference, ReleaseReference
<1>2. Mine(o) = Owner(o) /\ obj[o].own
  BY <1>1, MineType DEF IInv, ReferenceOwners, Mine, Owner
<1>3. obj[o].phase = "deleting"
  <2>1. Held(o).phase = "deleting" /\ Pc(o) # "idle"
    BY DEF IInv, WorkerCopies, ReleasesReference
  <2>2. Held(o).uid = obj[o].uid
    BY <1>2 DEF Mine, Owner, Held
  <2>3. obj[o].uid \in 0..MaxUID /\ cache[o].uid \in 0..MaxUID /\ Held(o).uid \in 0..MaxUID
    BY MineType DEF IInv, TypeOK, ObjectRecord, Held
  <2>4. obj[o].phase # "alive"
    BY <2>1, <2>2, <2>3 DEF IInv, CopiesAge, Older
  <2>5. obj[o].phase # "gone"
    BY <1>2 DEF IInv, Protection
  <2> QED
    BY <2>4, <2>5 DEF IInv, TypeOK, ObjectRecord
<1>4. /\ \A p \in Object : /\ obj'[p].uid = obj[p].uid /\ obj'[p].own = obj[p].own
                            /\ obj'[p].policy = obj[p].policy
      /\ \A p \in Object : obj'[p].phase =
            IF p = t /\ obj[p].phase = "deleting" /\ ~obj[p].own /\ refFins'[p] = {}
            THEN "gone" ELSE obj[p].phase
  BY <1>1 DEF Collected, IInv, TypeOK, ObjectRecord
<1>5. OwnsKept /\ OrphansKept /\ ManagesKept
  BY <1>1, <1>4 DEF OwnsKept, OrphansKept, ManagesKept, Manages, Owner
<1>6. \A s \in Thing : refFins'[s] = IF s = t THEN refFins[t] \ {Owner(o)} ELSE refFins[s]
  BY <1>1, <1>2 DEF IInv, TypeOK
<1>7. \A p \in Object : Owner(p)' = Owner(p) /\ (Owner(p) = Owner(o) => p = o)
  BY <1>4 DEF Owner
<1>8. \A p \in Object, s \in Thing :
        (Owner(p) \in refFins[s])' = (Owner(p) \in refFins[s] /\ ~(p = o /\ s = t))
  BY <1>6, <1>7
<1>9. Holds' = [Holds EXCEPT ![o] = @ \ {t}]
  <2> SUFFICES ASSUME NEW p \in Object
               PROVE  {s \in Thing : Owner(p) \in refFins[s]}' =
                        IF p = o THEN {s \in Thing : Owner(p) \in refFins[s]} \ {t}
                        ELSE {s \in Thing : Owner(p) \in refFins[s]}
    BY DEF Holds
  <2> QED
    BY <1>8
<1>10. \A p \in Object : obj'[p].phase =
            IF obj[p].phase = "deleting" /\ ~obj[p].own /\ refFins'[p] = {}
            THEN "gone" ELSE obj[p].phase
  BY <1>4, <1>6 DEF Owed, Thing
<1>11. \A p \in Object : refFins'[p] = {} <=> \A q \in Object : p \notin Holds'[q]
  <2>1. ASSUME NEW p \in Thing
        PROVE  refFins'[p] = {} <=> \A q \in Object : Owner(q)' \notin refFins'[p]
    <3>1. refFins'[p] \subseteq refFins[p]
      BY <1>6
    <3>2. \A f \in refFins'[p] : \E q \in Object : f = Owner(q)
      BY <3>1, Holders
    <3> QED
      BY <3>2, <1>7
  <2> QED
    BY <2>1 DEF Thing, Holds
<1>12. Phase' = Contract!Settled(Phase, Protected, Holds')
  BY <1>10, <1>11 DEF Contract!Settled, Phase, Protected
<1> QED
  BY <1>3, <1>5, <1>9, <1>12, KeptView DEF Contract!Release, Phase

\* RemoveFinalizer, the own finalizer: Unprotect.
LEMMA UnprotectStep ==
    ASSUME IInv, Owed, NEW o \in Object, DropsFinalizer(o)
    PROVE  Contract!Unprotect(o)
<1>1. Held(o) = obj[o] /\ obj[o].phase = "deleting" /\ Pc(o) = "unfinalize" /\ Mine(o) = Owner(o)
  BY DEF DropsFinalizer, Released, IInv, LatestCopies, WorkerCopies, Mine, Owner, Held, Pc
<1>2. \A t \in Thing : Owner(o) \notin refFins[t]
  BY <1>1 DEF DropsFinalizer, Released, IInv, Releasing
<1>3. "Delete" \notin obj[o].policy \/ ~Manages(o)
  BY <1>1 DEF IInv, Unmanaged, Manages
<1>4. /\ \A p \in Object : obj'[p].uid = obj[p].uid /\ obj'[p].policy = obj[p].policy
      /\ \A p \in Object : p # o => obj'[p] = obj[p]
      /\ ~obj'[o].own
      /\ obj'[o].phase = IF refFins[o] = {} THEN "gone" ELSE "deleting"
      /\ UNCHANGED <<res, refFins>>
  <2>1. obj[o] \in ObjectRecord /\ obj \in [Object -> ObjectRecord]
    BY DEF IInv, TypeOK
  <2> QED
    BY <1>1, <2>1 DEF DropsFinalizer, Collected, ObjectRecord
<1>5. OrphansKept /\ ManagesKept /\ HoldsKept
  BY <1>4 DEF OrphansKept, ManagesKept, HoldsKept, Manages, Owner
<1>6. Protected' = Protected \ {o}
  BY <1>4 DEF Protected
<1>7. \A p \in Object : obj'[p].phase =
         IF obj[p].phase = "deleting" /\ ~obj'[p].own /\ refFins[p] = {} THEN "gone" ELSE obj[p].phase
  BY <1>1, <1>4 DEF Owed
<1>8. \A p \in Object : refFins[p] = {} <=> \A q \in Object : p \notin Holds[q]
  BY Holders DEF Thing, Holds
<1>9. Phase' = Contract!Settled(Phase, Protected', Holds)
  BY <1>7, <1>8 DEF Contract!Settled, Phase, Protected
<1>10. {s \in Thing : Owner(o) \in refFins[s]} = {}
  BY <1>2
<1> QED
  BY <1>1, <1>3, <1>5, <1>6, <1>9, <1>10, KeptView DEF Contract!Unprotect, Phase, Managing, Orphaned, Holds

\* A user creates the Object: Appear.
LEMMA AppearStep ==
    ASSUME IInv, NEW o \in Object, UserCreates(o)
    PROVE  Contract!Appear(o)
<1>1. /\ obj'[o].uid = obj[o].uid + 1 /\ obj'[o].phase = "alive" /\ obj'[o].own = FALSE
      /\ \A p \in Object : p # o => obj'[p] = obj[p]
  BY DEF UserCreates, IInv, TypeOK
<1>2. obj[o].phase = "gone" /\ obj[o].own = FALSE /\ UNCHANGED <<res, refFins>>
  BY DEF UserCreates, IInv, Protection, TypeOK, ObjectRecord
<1>3. OwnsKept
  BY <1>1, <1>2 DEF OwnsKept
<1>4. Phase' = [Phase EXCEPT ![o] = "alive"]
  BY <1>1 DEF Phase
<1>5. \A p \in Object : p # o => Owner(p)' = Owner(p)
  BY <1>1 DEF Owner
<1>6. obj[o].uid \in 0..MaxUID /\ cache[o].uid \in 0..MaxUID /\ obj[o].uid + 1 \in 0..MaxUID
  BY LifecycleAssumption DEF UserCreates, IInv, TypeOK, ObjectRecord
<1>7. Owner(o)' = <<o, obj[o].uid + 1>>
  BY <1>1 DEF Owner
<1>8. ASSUME NEW t \in Thing PROVE Owner(o)' \notin refFins[t] /\ Owner(o) \notin refFins[t]
  BY <1>2, <1>6, <1>7 DEF IInv, ReferenceOwners, Owner
<1>9. HoldsKept
  BY <1>2, <1>5, <1>8 DEF HoldsKept
<1>10. ~Manages(o)'
  <2>1. obj[o].uid + 1 <= cache[o].uid => FALSE
    BY <1>6 DEF IInv, CopiesAge, Older
  <2> QED
    BY <1>2, <1>6, <1>7, <2>1 DEF IInv, Managers, Manages
<1>11. Managing' = Managing \ {o}
  BY <1>2, <1>5, <1>10 DEF Manages, Managing
<1>12. Orphaned' \in {Orphaned \cup {o}, Orphaned \ {o}}
  <2>1. \A p \in Object : p # o => obj'[p].policy = obj[p].policy
    BY <1>1
  <2>2. CASE "Delete" \notin obj'[o].policy
    BY <2>1, <2>2 DEF Orphaned
  <2>3. CASE "Delete" \in obj'[o].policy
    BY <2>1, <2>3 DEF Orphaned
  <2> QED
    BY <2>2, <2>3
<1> QED
  BY <1>2, <1>3, <1>4, <1>9, <1>11, <1>12, KeptView DEF Contract!Appear, Phase

\* A user deletes it: RequestDeletion.
LEMMA RequestDeletionStep ==
    ASSUME IInv, Owed, NEW o \in Object, UserDeletes(o)
    PROVE  Contract!RequestDeletion(o)
<1>1. /\ obj[o].phase = "alive"
      /\ \A p \in Object : /\ obj'[p].uid = obj[p].uid /\ obj'[p].policy = obj[p].policy
                           /\ obj'[p].own = obj[p].own
      /\ \A p \in Object : obj'[p].phase =
            IF p # o THEN obj[p].phase
            ELSE IF ~obj[o].own /\ refFins[o] = {} THEN "gone" ELSE "deleting"
      /\ UNCHANGED <<res, refFins>>
  BY DEF UserDeletes, Collected, IInv, TypeOK, ObjectRecord
<1>2. OwnsKept /\ OrphansKept /\ ManagesKept /\ HoldsKept
  BY <1>1 DEF OwnsKept, OrphansKept, ManagesKept, HoldsKept, Manages, Owner
<1> DEFINE asked == [Phase EXCEPT ![o] = "deleting"]
<1>3. \A p \in Object : obj'[p].phase =
         IF asked[p] = "deleting" /\ ~obj[p].own /\ refFins[p] = {} THEN "gone" ELSE asked[p]
  BY <1>1 DEF Owed, Phase
<1>4. \A p \in Object : refFins[p] = {} <=> \A q \in Object : p \notin Holds[q]
  BY Holders DEF Thing, Holds
<1> HIDE DEF asked
<1>5. Phase' = Contract!Settled(asked, Protected, Holds)
  BY <1>3, <1>4 DEF Contract!Settled, Protected, Phase
<1> QED
  BY <1>1, <1>2, <1>5, KeptView DEF Contract!RequestDeletion, asked, Phase

\* A user edits its policy: ChangePolicy.
LEMMA ChangePolicyStep ==
    ASSUME IInv, NEW o \in Object, UserEditsPolicy(o)
    PROVE  Contract!ChangePolicy(o)
<1>1. PICK pol \in Policies[o] : obj' = [obj EXCEPT ![o].policy = pol]
  BY DEF UserEditsPolicy
<1>2. /\ \A p \in Object : /\ obj'[p].uid = obj[p].uid /\ obj'[p].phase = obj[p].phase
                           /\ obj'[p].own = obj[p].own
                           /\ p # o => obj'[p].policy = obj[p].policy
      /\ UNCHANGED <<res, refFins>>
      /\ obj[o].phase = "alive" \/ obj[o].own
  BY <1>1 DEF UserEditsPolicy, IInv, TypeOK, ObjectRecord
<1>3. PhasesKept /\ OwnsKept /\ ManagesKept /\ HoldsKept
  BY <1>2 DEF PhasesKept, OwnsKept, ManagesKept, HoldsKept, Manages, Owner
<1>4. Orphaned' \in {Orphaned \cup {o}, Orphaned \ {o}}
  <2>1. CASE "Delete" \notin obj'[o].policy
    BY <1>2, <2>1 DEF Orphaned
  <2>2. CASE "Delete" \in obj'[o].policy
    BY <1>2, <2>2 DEF Orphaned
  <2> QED
    BY <2>1, <2>2
<1> QED
  BY <1>2, <1>3, <1>4, KeptView DEF Contract!ChangePolicy, Phase, Protected

\* A step of others that leaves the Objects and the finalizers alone takes the fields that
\* the Objects own with the resource, all or none.
LEMMA VanishStep ==
    ASSUME IInv, UNCHANGED <<obj, refFins>>, \A p \in Object : Manages(p)' => Manages(p)
    PROVE  \E S \in SUBSET Object : Contract!Vanish(S)
<1> DEFINE S == {p \in Object : ~Manages(p)'}
<1>1. Managing' = Managing \ S
  BY DEF Managing
<1>2. PhasesKept /\ OwnsKept /\ OrphansKept /\ HoldsKept
  BY DEF PhasesKept, OwnsKept, OrphansKept, HoldsKept, Owner
<1>3. Contract!Vanish(S)
  BY <1>1, <1>2, KeptView DEF Contract!Vanish
<1> QED
  BY <1>3

\* A step that touches neither Objects, nor finalizers, nor who manages what: no step.
LEMMA StutterStep ==
    ASSUME UNCHANGED <<obj, refFins>>, ManagesKept
    PROVE  UNCHANGED Contract!vars
<1>1. PhasesKept /\ OwnsKept /\ OrphansKept /\ HoldsKept
  BY DEF PhasesKept, OwnsKept, OrphansKept, HoldsKept, Owner
<1> QED
  BY <1>1, KeptView DEF Contract!vars

\* Who manages what is told by the resources as long as the Objects stay.
LEMMA ManagersOnly ==
    ASSUME UNCHANGED obj, \A r \in Resource : res'[r].managers = res[r].managers
    PROVE  ManagesKept
  BY LifecycleAssumption DEF ManagesKept, Manages, Owner

\* Every step of a worker is a step of the contract.
LEMMA WorkerKeepsContract ==
    ASSUME IInv, IInv', Owed, NEW o \in Object, WorkerStep(o)
    PROVE  [Contract!Next]_(Contract!vars)
<1>1. CASE Begin(o) \/ GiveUp(o) \/ MovesOn(o) \/ StoresCreatePending(o)
  <2>1. UNCHANGED <<obj, res, refFins>>
    BY <1>1 DEF Begin, GiveUp, MovesOn, StoresCreatePending
  <2> QED
    BY <2>1, ManagersOnly, StutterStep
<1>2. CASE StoresFinalizer(o)
  BY <1>2, ProtectStep DEF Contract!Next
<1>3. ASSUME NEW t \in Thing, StoresReferenceFinalizer(o, t) PROVE [Contract!Next]_(Contract!vars)
  BY <1>3, HoldStep DEF Contract!Next
<1>4. ASSUME NEW t \in Thing, ReleasesReference(o, t) PROVE [Contract!Next]_(Contract!vars)
  <2>1. CASE UNCHANGED <<obj, refFins>>
    BY <1>4, <2>1, ManagersOnly, StutterStep DEF ReleasesReference
  <2>2. CASE ~UNCHANGED <<obj, refFins>>
    BY <1>4, <2>2, ReleaseStep DEF Contract!Next
  <2> QED
    BY <2>1, <2>2
<1>5. CASE Applies(o)
  BY <1>5, ApplyStep DEF Contract!Next
<1>6. CASE Delete(o)
  <2>1. \A r \in Resource : res'[r].managers = res[r].managers
    BY <1>6 DEF Delete, IInv, TypeOK, ResourceRecord
  <2> QED
    BY <1>6, <2>1, ManagersOnly, StutterStep DEF Delete
<1>7. CASE DropsFinalizer(o)
  BY <1>7, UnprotectStep DEF Contract!Next
<1> QED
  BY <1>1, <1>2, <1>3, <1>4, <1>5, <1>6, <1>7 DEF WorkerStep

\* And so is every step of the system.
LEMMA StepKeepsContract ==
    ASSUME IInv, IInv', Owed, [Next]_vars
    PROVE  [Contract!Next]_(Contract!vars)
<1>a. TypeOK
  BY DEF IInv
<1>1. ASSUME NEW o \in Object, Reconcile(o) PROVE [Contract!Next]_(Contract!vars)
  BY <1>1, <1>a, ReconcileSteps, WorkerKeepsContract
<1>2. ASSUME NEW o \in Object, CallFails(o) \/ CacheSync(o) PROVE [Contract!Next]_(Contract!vars)
  BY <1>2, ManagersOnly, StutterStep DEF CallFails, CacheSync
<1>3. ASSUME NEW o \in Object, UserCreates(o) PROVE [Contract!Next]_(Contract!vars)
  BY <1>3, AppearStep DEF Contract!Next
<1>4. ASSUME NEW o \in Object, UserDeletes(o) PROVE [Contract!Next]_(Contract!vars)
  BY <1>4, RequestDeletionStep DEF Contract!Next
<1>5. ASSUME NEW o \in Object, UserEditsPolicy(o) PROVE [Contract!Next]_(Contract!vars)
  BY <1>5, ChangePolicyStep DEF Contract!Next
<1>6. ASSUME NEW r \in Resource, ThirdParty(r) PROVE [Contract!Next]_(Contract!vars)
  <2>1. UNCHANGED <<obj, refFins>>
    BY <1>6 DEF ThirdParty
  <2>2. \A p \in Object : Manages(p)' => Manages(p)
    BY <1>6, <1>a, <2>1, ThirdPartyKeeps, LifecycleAssumption DEF ThirdPartyKept, Manages, Owner
  <2> QED
    BY <2>1, <2>2, VanishStep DEF Contract!Next
<1>7. ASSUME NEW r \in Resource, CollectResource(r) PROVE [Contract!Next]_(Contract!vars)
  <2>1. \A s \in Resource : res'[s].managers \subseteq res[s].managers
    BY <1>7, <1>a DEF CollectResource, TypeOK, Absent
  <2>2. UNCHANGED <<obj, refFins>>
    BY <1>7 DEF CollectResource
  <2>3. \A p \in Object : Manages(p)' => Manages(p)
    BY <2>1, <2>2, LifecycleAssumption DEF Manages, Owner
  <2> QED
    BY <2>2, <2>3, VanishStep DEF Contract!Next
<1>8. CASE Restart \/ UNCHANGED vars
  BY <1>8, ManagersOnly, StutterStep DEF Restart, vars
<1> QED
  BY <1>1, <1>2, <1>3, <1>4, <1>5, <1>6, <1>7, <1>8 DEF Next

\* The server removes an Object under deletion with its last finalizer, whoever takes it off.
LEMMA OwedInductive ==
    ASSUME IInv, Owed, [Next]_vars
    PROVE  Owed'
<1>a. TypeOK
  BY DEF IInv
<1>1. ASSUME UNCHANGED <<obj, refFins>> PROVE Owed'
  BY <1>1 DEF Owed
<1>2. ASSUME NEW o \in Object, WorkerStep(o) PROVE Owed'
  <2>1. CASE Begin(o) \/ GiveUp(o) \/ MovesOn(o) \/ StoresCreatePending(o) \/ Applies(o) \/ Delete(o)
    BY <1>1, <2>1 DEF Begin, GiveUp, MovesOn, StoresCreatePending, Applies, Delete
  <2>2. CASE StoresFinalizer(o)
    BY <1>a, <2>2 DEF StoresFinalizer, Owed, TypeOK, IInv, LatestCopies, ObjectRecord
  <2>3. ASSUME NEW t \in Thing, StoresReferenceFinalizer(o, t) PROVE Owed'
    BY <1>a, <2>3 DEF StoresReferenceFinalizer, Owed, TypeOK, Thing
  <2>4. ASSUME NEW t \in Thing, ReleasesReference(o, t) PROVE Owed'
    <3>1. CASE UNCHANGED <<obj, refFins>>
      BY <1>1, <3>1
    <3>2. CASE /\ refFins' = [refFins EXCEPT ![t] = @ \ {Mine(o)}]
               /\ obj' = Collected(obj, refFins', t)
      <4>1. \A p \in Object : obj'[p].own = obj[p].own /\ (p # t => obj'[p] = obj[p])
        BY <1>a, <3>2 DEF Collected, TypeOK, ObjectRecord
      <4>2. t \in Object /\ obj'[t].phase = "deleting" => obj[t].own \/ refFins'[t] # {}
        BY <1>a, <3>2 DEF Collected, TypeOK, ObjectRecord
      <4>3. \A s \in Thing : s # t => refFins'[s] = refFins[s]
        BY <1>a, <3>2 DEF TypeOK
      <4> QED
        BY <4>1, <4>2, <4>3 DEF Owed, Thing
    <3> QED
      BY <2>4, <3>1, <3>2 DEF ReleasesReference, ReleaseReference
  <2>5. CASE DropsFinalizer(o)
    <3>1. \A p \in Object : p # o => obj'[p] = obj[p]
      BY <1>a, <2>5 DEF DropsFinalizer, Collected, TypeOK
    <3>2. obj'[o].phase = "deleting" => refFins[o] # {}
      BY <1>a, <2>5 DEF DropsFinalizer, Collected, TypeOK, ObjectRecord
    <3> QED
      BY <2>5, <3>1, <3>2 DEF DropsFinalizer, Owed
  <2> QED
    BY <1>2, <2>1, <2>2, <2>3, <2>4, <2>5 DEF WorkerStep
<1>3. ASSUME NEW o \in Object, UserCreates(o) PROVE Owed'
  BY <1>a, <1>3 DEF UserCreates, Owed, TypeOK
<1>4. ASSUME NEW o \in Object, UserDeletes(o) PROVE Owed'
  <2>1. \A p \in Object : p # o => obj'[p] = obj[p]
    BY <1>a, <1>4 DEF UserDeletes, Collected, TypeOK
  <2>2. obj'[o].own = obj[o].own /\ (obj'[o].phase = "deleting" => obj[o].own \/ refFins[o] # {})
    BY <1>a, <1>4 DEF UserDeletes, Collected, TypeOK, ObjectRecord
  <2> QED
    BY <1>4, <2>1, <2>2 DEF UserDeletes, Owed
<1>5. ASSUME NEW o \in Object, UserEditsPolicy(o) PROVE Owed'
  BY <1>a, <1>5 DEF UserEditsPolicy, Owed, TypeOK, ObjectRecord
<1>6. ASSUME NEW o \in Object, CallFails(o) \/ CacheSync(o) PROVE Owed'
  BY <1>1, <1>6 DEF CallFails, CacheSync
<1>7. ASSUME NEW r \in Resource, ThirdParty(r) \/ CollectResource(r) PROVE Owed'
  BY <1>1, <1>7 DEF ThirdParty, CollectResource
<1>8. CASE Restart \/ UNCHANGED vars
  BY <1>1, <1>8 DEF Restart, vars
<1> QED
  BY <1>a, <1>2, <1>3, <1>4, <1>5, <1>6, <1>7, <1>8, ReconcileSteps DEF Next

\* An empty cluster is one the contract starts from.
LEMMA InitKeepsContract ==
    ASSUME Init
    PROVE  Contract!Init /\ Owed
<1>1. /\ \A o \in Object : obj[o] = NoObject
      /\ \A t \in Thing : refFins[t] = {}
      /\ \A r \in Resource : res[r].managers = {}
      /\ \A o \in Object : Manifest[o] \in Resource
  BY LifecycleAssumption DEF Init, Absent, Foreign
<1>2. NoObject.phase = "gone" /\ NoObject.own = FALSE
  BY DEF NoObject
<1>3. Protected = {} /\ Managing = {} /\ Owed
  BY <1>1, <1>2 DEF Manages, Owed, Protected, Managing
<1>4. /\ Phase = [o \in Object |-> "gone"]
      /\ Holds = [o \in Object |-> {}]
  BY <1>1, <1>2 DEF Phase, Holds
<1> QED
  BY <1>3, <1>4 DEF Contract!Init, Orphaned

\* The reconciler keeps the contract: every step of its workers, of users, third parties, the
\* server and the process is a step of ObjectContract or changes nothing that users see.
THEOREM ContractKept == Spec => KeepsContract
<1>1. Init => Contract!Init /\ Owed
  BY InitKeepsContract
<1>2. IInv /\ Owed /\ [Next]_vars => Owed'
  BY OwedInductive
<1>3. IInv /\ IInv' /\ Owed /\ [Next]_vars => [Contract!Next]_(Contract!vars)
  BY StepKeepsContract
<1> QED
  BY <1>1, <1>2, <1>3, Invariance, PTL DEF Spec, KeepsContract, Contract!Spec

-----------------------------------------------------------------------------
(* What the contract promises, for whoever keeps it *)

\* The contract starts from an empty cluster.
LEMMA ContractInitially == Contract!Init => Contract!IInv
  BY DEF Contract!Init, Contract!IInv, Contract!TypeOK, Contract!Promises,
         Contract!NothingLeftBehind, Contract!HoldsBind, Contract!DeletionIsOwed

\* Settled takes away only what nothing protects or Holds, and leaves nothing else undecided.
LEMMA SettledInv ==
    ASSUME Contract!TypeOK, NEW ph \in [Object -> {"gone", "alive", "deleting"}],
           Phase' = Contract!Settled(ph, Protected', Holds')
    PROVE  /\ Phase' \in [Object -> {"gone", "alive", "deleting"}]
           /\ \A q \in Object : ph[q] # "deleting" => Phase'[q] = ph[q]
           /\ \A q \in Object : Phase'[q] \in {"gone", ph[q]}
           /\ \A q \in Object : q \in Protected' => Phase'[q] = ph[q]
           /\ \A q, p \in Object : q \in Holds'[p] => Phase'[q] = ph[q]
           /\ \A q \in Object : Phase'[q] = "deleting" =>
                 q \in Protected' \/ \E p \in Object : q \in Holds'[p]
  BY DEF Contract!Settled

\* Every step of the contract keeps its invariant.
LEMMA ContractStep ==
    ASSUME Contract!IInv, [Contract!Next]_(Contract!vars)
    PROVE  Contract!IInv'
<1> USE DEF Contract!IInv, Contract!TypeOK, Contract!Promises, Contract!NothingLeftBehind, Contract!HoldsBind, Contract!DeletionIsOwed
<1>1. ASSUME NEW o \in Object, Contract!Appear(o) PROVE Contract!IInv'
  BY <1>1 DEF Contract!Appear
<1>2. ASSUME NEW o \in Object, Contract!RequestDeletion(o) PROVE Contract!IInv'
  <2> DEFINE ph == [Phase EXCEPT ![o] = "deleting"]
  <2>1. /\ ph \in [Object -> {"gone", "alive", "deleting"}]
        /\ Phase' = Contract!Settled(ph, Protected', Holds')
        /\ UNCHANGED <<Protected, Orphaned, Managing, Holds>>
        /\ Phase[o] = "alive"
        /\ \A q \in Object : ph[q] = IF q = o THEN "deleting" ELSE Phase[q]
    BY <1>2 DEF Contract!RequestDeletion
  <2> HIDE DEF ph
  <2> QED
    BY <2>1, SettledInv
<1>3. ASSUME NEW o \in Object, Contract!ChangePolicy(o) PROVE Contract!IInv'
  BY <1>3 DEF Contract!ChangePolicy
<1>4. ASSUME NEW o \in Object, Contract!Protect(o) PROVE Contract!IInv'
  BY <1>4 DEF Contract!Protect
<1>5. ASSUME NEW o \in Object, Contract!Apply(o) PROVE Contract!IInv'
  BY <1>5 DEF Contract!Apply
<1>6. ASSUME NEW o \in Object, Contract!Unprotect(o) PROVE Contract!IInv'
  <2>1. /\ Phase' = Contract!Settled(Phase, Protected', Holds')
        /\ UNCHANGED <<Orphaned, Managing, Holds>>
        /\ Phase[o] = "deleting" /\ Holds[o] = {} /\ (o \in Orphaned \/ o \notin Managing)
        /\ Protected' = Protected \ {o}
    BY <1>6 DEF Contract!Unprotect
  <2>2. /\ Phase' \in [Object -> {"gone", "alive", "deleting"}]
        /\ \A q \in Object : Phase[q] # "deleting" => Phase'[q] = Phase[q]
        /\ \A q \in Object : Phase'[q] \in {"gone", Phase[q]}
        /\ \A q \in Protected' : Phase'[q] = Phase[q]
        /\ \A q, p \in Object : q \in Holds'[p] => Phase'[q] = Phase[q]
        /\ \A q \in Object : Phase'[q] = "deleting" =>
              q \in Protected' \/ \E p \in Object : q \in Holds'[p]
    BY <2>1, SettledInv
  <2>3. Contract!TypeOK' /\ Contract!NothingLeftBehind'
    BY <2>1, <2>2
  <2>4. Contract!HoldsBind'
    BY <2>1, <2>2
  <2>5. Contract!DeletionIsOwed'
    <3>1. \A p \in Protected : p # o => p \in Protected'
      BY <2>1
    <3>2. \A p \in Object : Holds'[p] # {} => p \in Protected'
      BY <2>1, <3>1
    <3> QED
      BY <2>2, <3>2
  <2>6. /\ \A q \in Protected' : Phase'[q] # "gone"
        /\ \A q \in Managing' : Phase'[q] = "alive" => q \in Protected'
    BY <2>1, <2>2
  <2> HIDE DEF Contract!TypeOK, Contract!NothingLeftBehind, Contract!HoldsBind, Contract!DeletionIsOwed
  <2> QED
    BY <2>3, <2>4, <2>5, <2>6
<1>7. ASSUME NEW o \in Object, NEW t \in Thing, Contract!Hold(o, t) PROVE Contract!IInv'
  BY <1>7 DEF Contract!Hold
<1>8. ASSUME NEW o \in Object, NEW t \in Thing, Contract!Release(o, t) PROVE Contract!IInv'
  <2>1. /\ Phase' = Contract!Settled(Phase, Protected', Holds')
        /\ UNCHANGED <<Protected, Orphaned, Managing>>
        /\ Phase[o] = "deleting"
        /\ \A p \in Object : Holds'[p] \subseteq Holds[p]
        /\ Holds' \in [Object -> SUBSET Thing]
    BY <1>8 DEF Contract!Release
  <2> QED
    BY <2>1, SettledInv
<1>9. ASSUME NEW S \in SUBSET Object, Contract!Vanish(S) PROVE Contract!IInv'
  BY <1>9 DEF Contract!Vanish
<1>10. CASE UNCHANGED Contract!vars
  BY <1>10 DEF Contract!vars
<1> QED
  BY <1>1, <1>2, <1>3, <1>4, <1>5, <1>6, <1>7, <1>8, <1>9, <1>10 DEF Contract!Next

\* The contract alone, whatever else the provider does, promises that nothing is left behind,
\* that holds bind and that no deletion hangs.
THEOREM ContractPromises == Contract!Spec => []Contract!Promises
<1>1. Contract!IInv /\ [Contract!Next]_(Contract!vars) => Contract!IInv'
  BY ContractStep
<1>2. Contract!IInv => Contract!Promises
  BY DEF Contract!IInv
<1> QED
  BY <1>1, <1>2, ContractInitially, PTL DEF Contract!Spec

\* So the Objects keep it: none goes while its resource, one of its finalizers or one that
\* holds it is left, and one under deletion waits for a finalizer that is still to be taken off.
THEOREM ObjectsKeepPromises == Spec => []PromisesKept
  BY ContractKept, ContractPromises, PTL DEF KeepsContract, PromisesKept
=============================================================================
