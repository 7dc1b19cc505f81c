----------------------- MODULE ObservedCollection_proofs -----------------------
(***************************************************************************)
(* Theorems about ObservedCollection, for all sets of collections and      *)
(* resources, all hashes and all bounds: the types, and what a reconcile   *)
(* never deletes.                                                          *)
(***************************************************************************)
EXTENDS ObservedCollection, TLAPS

\* The reconcile of c deals with keys of c alone, and has applied what it has passed.
Scoped ==
    \A c \in Collection :
        /\ \A k \in worker[c].seen : k[1] = Namespace[c] /\ k[2] = NameOf[c]
        /\ \A i \in worker[c].found \ worker[c].todo : MemberKey(c, i) \in worker[c].refs

\* A member is under the key that its owner and its manifest give.
Keyed ==
    \A k \in Key : \A o \in member[k].owners : k = MemberKey(o[1], member[k].item)

IInv == TypeOK /\ Scoped /\ Keyed

LEMMA KeysAreKeys == \A c \in Collection : \A i \in Item : MemberKey(c, i) \in Key
  BY DEF Key

LEMMA MembersNeedItems == Key # {} => NoMember \in MemberRecord
  BY DEF Key, NoMember, MemberRecord

LEMMA IdleTyped == Idle \in WorkerRecord /\ NoCollection \in CollectionRecord
  BY DEF Idle, WorkerRecord, NoCollection, CollectionRecord

\* The steps of a reconcile write a worker and at most one member.
LEMMA PatchedTyped ==
  ASSUME TypeOK, NEW c \in Collection, NEW i \in Item
  PROVE  /\ Patched(c, i) \in MemberRecord
         /\ Patched(c, i).there /\ Patched(c, i).owners # {}
         /\ Patched(c, i).item = i
         /\ \A o \in Patched(c, i).owners : o[1] = c
  <1>1. member[MemberKey(c, i)] \in MemberRecord /\ worker[c].uid \in Nat
    BY KeysAreKeys DEF TypeOK, WorkerRecord
  <1>2. PICK m \in MemberRecord : m = member[MemberKey(c, i)]  BY <1>1
  <1>3. {<<c, worker[c].uid>>} \in SUBSET (Collection \X Nat)  BY <1>1
  <1>4. Patched(c, i) = [m EXCEPT !.there = TRUE, !.owners = {<<c, worker[c].uid>>}, !.item = i]
    BY <1>2 DEF Patched
  <1>5. /\ Patched(c, i).there = TRUE
        /\ Patched(c, i).owners = {<<c, worker[c].uid>>}
        /\ Patched(c, i).item = i
    BY <1>4 DEF MemberRecord
  <1>6. Patched(c, i) \in MemberRecord  BY <1>3, <1>4 DEF MemberRecord
  <1>. QED  BY <1>5, <1>6

\* So do those that only mark a member as being deleted.
LEMMA TermTyped ==
  ASSUME TypeOK, NEW k \in Key,
         member' = [member EXCEPT ![k].term = TRUE] \/ UNCHANGED member
  PROVE  /\ member' \in [Key -> MemberRecord]
         /\ \A l \in Key : member'[l].there <=> member'[l].owners # {}
  <1>1. CASE UNCHANGED member  BY <1>1 DEF TypeOK
  <1>2. CASE member' = [member EXCEPT ![k].term = TRUE]
    <2>1. member[k] \in MemberRecord  BY DEF TypeOK
    <2>2. [member[k] EXCEPT !.term = TRUE] \in MemberRecord  BY <2>1 DEF MemberRecord
    <2>3. /\ [member[k] EXCEPT !.term = TRUE].there = member[k].there
          /\ [member[k] EXCEPT !.term = TRUE].owners = member[k].owners
      BY <2>1 DEF MemberRecord
    <2>. QED  BY <1>2, <2>2, <2>3 DEF TypeOK
  <1>. QED  BY <1>1, <1>2

\* Initially there are no members and no reconciles.
LEMMA InitIInv == Init => IInv
  <1>. SUFFICES ASSUME Init PROVE IInv  OBVIOUS
  <1>1. TypeOK
    <2>1. member \in [Key -> MemberRecord]  BY MembersNeedItems DEF Init
    <2>2. \A k \in Key : member[k].there <=> member[k].owners # {}  BY DEF Init, NoMember
    <2>3. /\ col \in [Collection -> CollectionRecord] /\ cache \in [Collection -> CollectionRecord]
          /\ worker \in [Collection -> WorkerRecord] /\ listed \in SUBSET Key
      BY IdleTyped DEF Init
    <2>4. matches \in [Collection -> SUBSET Item] /\ faults \in 0..MaxFaults
      BY CollectionAssumption DEF Init
    <2>. QED  BY <2>1, <2>2, <2>3, <2>4 DEF TypeOK
  <1>2. Scoped  BY DEF Init, Scoped, Idle
  <1>3. Keyed   BY DEF Init, Keyed, NoMember
  <1>. QED  BY <1>1, <1>2, <1>3 DEF IInv

\* Types are kept by the reconciles,
LEMMA ReconcileTyped ==
  ASSUME TypeOK, NEW c \in Collection, Reconcile(c)
  PROVE  TypeOK'
  <1>. USE IdleTyped, CollectionAssumption DEF TypeOK
  <1>1. CASE Begin(c)
    <2>1. [Idle EXCEPT !.pc = "members", !.uid = cache[c].uid,
                       !.found = matches[c], !.todo = matches[c]] \in WorkerRecord
      BY DEF Idle, WorkerRecord, CollectionRecord
    <2>. QED  BY <1>1, <2>1 DEF Begin, Goto
  <1>2. CASE ListMembers(c)
    <2>1. [worker[c] EXCEPT !.pc = "apply", !.seen = Labelled(c)] \in WorkerRecord
      BY DEF WorkerRecord, Labelled
    <2>. QED  BY <1>2, <2>1 DEF ListMembers, Goto
  <1>3. CASE ApplyMember(c)
    <2>1. PICK i \in worker[c].todo :
              /\ member' = [member EXCEPT ![MemberKey(c, i)] = Patched(c, i)]
              /\ Goto(c, [worker[c] EXCEPT !.todo = @ \ {i}, !.refs = @ \cup {MemberKey(c, i)}])
      BY <1>3 DEF ApplyMember
    <2>2. i \in Item  BY DEF WorkerRecord
    <2>3. [worker[c] EXCEPT !.todo = @ \ {i}, !.refs = @ \cup {MemberKey(c, i)}] \in WorkerRecord
      <3>1. MemberKey(c, i) \in Key  BY <2>2, KeysAreKeys
      <3>2. worker[c] \in WorkerRecord  OBVIOUS
      <3>. QED  BY <3>1, <3>2 DEF WorkerRecord
    <2>4. worker' \in [Collection -> WorkerRecord]  BY <2>1, <2>3 DEF Goto
    <2>5. /\ member' \in [Key -> MemberRecord]
          /\ \A k \in Key : member'[k].there <=> member'[k].owners # {}
      BY <2>1, <2>2, PatchedTyped
    <2>. QED  BY <1>3, <2>4, <2>5 DEF ApplyMember
  <1>4. CASE PruneMember(c)
    <2>1. PICK k \in Stray(c) :
              IF member[k].there
              THEN /\ member' = [member EXCEPT ![k].term = TRUE]
                   /\ Goto(c, [worker[c] EXCEPT !.seen = @ \ {k}])
              ELSE Goto(c, Idle) /\ UNCHANGED member
      BY <1>4 DEF PruneMember
    <2>2. [worker[c] EXCEPT !.seen = @ \ {k}] \in WorkerRecord  BY DEF WorkerRecord
    <2>3. worker' \in [Collection -> WorkerRecord]  BY <2>1, <2>2 DEF Goto
    <2>4. /\ member' \in [Key -> MemberRecord]
          /\ \A l \in Key : member'[l].there <=> member'[l].owners # {}
      <3>1. k \in Key  BY DEF Stray, WorkerRecord
      <3>. QED  BY <2>1, <3>1, TermTyped
    <2>. QED  BY <1>4, <2>3, <2>4 DEF PruneMember
  <1>5. CASE Finish(c)
    BY <1>5 DEF Finish, Goto
  <1>. QED  BY <1>1, <1>2, <1>3, <1>4, <1>5 DEF Reconcile

\* and by everybody else.
LEMMA OthersTyped ==
  ASSUME TypeOK, [Next]_vars, \A c \in Collection : ~Reconcile(c)
  PROVE  TypeOK'
  <1>. USE IdleTyped, CollectionAssumption DEF TypeOK
  <1>1. ASSUME NEW c \in Collection, CallFails(c) PROVE TypeOK'
    BY <1>1 DEF CallFails, Goto, Disrupt
  <1>2. ASSUME NEW c \in Collection,
               CacheSync(c) \/ CollectionGoes(c) \/ UserCreates(c) \/ UserDeletes(c)
                 \/ UserDeletesInForeground(c) \/ UserPauses(c)
        PROVE  TypeOK'
    <2>1. [NoCollection EXCEPT !.uid = col[c].uid + 1, !.phase = "alive"] \in CollectionRecord
      <3>1. col[c].uid + 1 \in Nat  BY DEF CollectionRecord
      <3>. HIDE DEF TypeOK
      <3>. QED  BY <3>1 DEF NoCollection, CollectionRecord
    <2>2. CASE UserCreates(c)  BY <2>1, <2>2 DEF UserCreates
    <2>3. CASE CacheSync(c)    BY <2>3 DEF CacheSync
    <2>4. CASE CollectionGoes(c)  BY <2>4 DEF CollectionGoes, CollectionRecord
    <2>5. CASE UserDeletes(c)
      <3>1. col[c] \in CollectionRecord  OBVIOUS
      <3>2. [col[c] EXCEPT !.phase = "gone"] \in CollectionRecord
        BY <3>1 DEF CollectionRecord
      <3>. QED  BY <2>5, <3>2 DEF UserDeletes
    <2>6. CASE UserDeletesInForeground(c)
      <3>1. col[c] \in CollectionRecord  OBVIOUS
      <3>2. [col[c] EXCEPT !.phase = "deleting"] \in CollectionRecord
        BY <3>1 DEF CollectionRecord
      <3>3. col' \in [Collection -> CollectionRecord]
        BY <2>6, <3>2 DEF UserDeletesInForeground
      <3>4. faults' \in 0..MaxFaults
        BY <2>6 DEF UserDeletesInForeground, Disrupt
      <3>. QED  BY <2>6, <3>3, <3>4 DEF UserDeletesInForeground
    <2>7. CASE UserPauses(c)
      <3>1. col[c] \in CollectionRecord  OBVIOUS
      <3>2. [col[c] EXCEPT !.paused = ~col[c].paused] \in CollectionRecord
        BY <3>1 DEF CollectionRecord
      <3>. QED  BY <2>7, <3>2 DEF UserPauses, Disrupt
    <2>. QED  BY <1>2, <2>2, <2>3, <2>4, <2>5, <2>6, <2>7
  <1>3. ASSUME NEW c \in Collection, NEW i \in Selectable[c], MatchesChange(c, i) PROVE TypeOK'
    BY <1>3 DEF MatchesChange, Disrupt
  <1>4. ASSUME NEW k \in Key, CollectGarbage(k) \/ MemberGoes(k) \/ MemberDeleted(k) PROVE TypeOK'
    <2>1. CASE CollectGarbage(k)  BY <2>1, TermTyped DEF CollectGarbage
    <2>2. CASE MemberGoes(k)      BY <2>2, MembersNeedItems DEF MemberGoes, NoMember
    <2>3. CASE MemberDeleted(k)
      <3>1. /\ member' \in [Key -> MemberRecord]
            /\ \A l \in Key : member'[l].there <=> member'[l].owners # {}
        BY <2>3, TermTyped DEF MemberDeleted
      <3>. QED  BY <2>3, <3>1 DEF MemberDeleted, Disrupt
    <2>. QED  BY <1>4, <2>1, <2>2, <2>3
  <1>5. CASE ListSync  BY <1>5 DEF ListSync, Present
  <1>6. CASE Restart   BY <1>6 DEF Restart, Present, Disrupt
  <1>7. CASE UNCHANGED vars  BY <1>7 DEF vars
  <1>. QED  BY <1>1, <1>2, <1>3, <1>4, <1>5, <1>6, <1>7 DEF Next

LEMMA TypeStep == TypeOK /\ [Next]_vars => TypeOK'
  BY ReconcileTyped, OthersTyped

\* A worker changes as a reconcile says, or starts over, or stays.
LEMMA ScopedStep ==
  ASSUME IInv, [Next]_vars
  PROVE  Scoped'
  <1>. USE DEF IInv, Scoped
  <1>0. ASSUME NEW c \in Collection, worker' = [worker EXCEPT ![c] = Idle] PROVE Scoped'
    <2>1. \A d \in Collection : worker'[d] = IF d = c THEN Idle ELSE worker[d]
      BY <1>0 DEF TypeOK
    <2>2. Idle.seen = {} /\ Idle.found = {}  BY DEF Idle
    <2>. QED  BY <2>1, <2>2 DEF MemberKey
  <1>1. ASSUME NEW c \in Collection, Begin(c) PROVE Scoped'
    BY <1>1 DEF Begin, Goto, Idle, TypeOK
  <1>2. ASSUME NEW c \in Collection, ListMembers(c) PROVE Scoped'
    BY <1>2 DEF ListMembers, Goto, Labelled, TypeOK, WorkerRecord
  <1>3. ASSUME NEW c \in Collection, ApplyMember(c) PROVE Scoped'
    BY <1>3 DEF ApplyMember, Goto, TypeOK, WorkerRecord, MemberKey
  <1>4. ASSUME NEW c \in Collection, PruneMember(c) PROVE Scoped'
    <2>1. PICK k \in Stray(c) :
              IF member[k].there
              THEN /\ member' = [member EXCEPT ![k].term = TRUE]
                   /\ Goto(c, [worker[c] EXCEPT !.seen = @ \ {k}])
              ELSE Goto(c, Idle) /\ UNCHANGED member
      BY <1>4 DEF PruneMember
    <2>2. CASE worker' = [worker EXCEPT ![c] = [worker[c] EXCEPT !.seen = @ \ {k}]]
      <3>1. worker[c] \in WorkerRecord  BY DEF TypeOK
      <3>2. \A d \in Collection :
                /\ worker'[d].seen \subseteq worker[d].seen
                /\ worker'[d].found = worker[d].found /\ worker'[d].todo = worker[d].todo
                /\ worker'[d].refs = worker[d].refs
        BY <2>2, <3>1 DEF TypeOK, WorkerRecord
      <3>. QED  BY <3>2 DEF MemberKey
    <2>. QED  BY <1>0, <2>1, <2>2 DEF Goto
  <1>5. ASSUME NEW c \in Collection, Finish(c) \/ CallFails(c) PROVE Scoped'
    BY <1>0, <1>5 DEF Finish, CallFails, Goto
  <1>6. CASE Restart  BY <1>6 DEF Restart, Idle
  <1>7. CASE UNCHANGED worker  BY <1>7 DEF MemberKey
  <1>. QED
    BY <1>1, <1>2, <1>3, <1>4, <1>5, <1>6, <1>7
    DEF Next, Reconcile, CacheSync, CollectionGoes, UserCreates, UserDeletes,
        UserDeletesInForeground, UserPauses, MatchesChange, CollectGarbage, MemberGoes,
        MemberDeleted, ListSync, vars

\* Owners and manifest of a member are written together, under their key.
LEMMA KeyedStep ==
  ASSUME IInv, [Next]_vars
  PROVE  Keyed'
  <1>. USE DEF IInv, Keyed
  <1>1. ASSUME NEW c \in Collection, ApplyMember(c) PROVE Keyed'
    <2>1. PICK i \in worker[c].todo :
              member' = [member EXCEPT ![MemberKey(c, i)] = Patched(c, i)]
      BY <1>1 DEF ApplyMember
    <2>2. i \in Item  BY DEF TypeOK, WorkerRecord
    <2>. QED  BY <2>1, <2>2, PatchedTyped DEF TypeOK, MemberKey
  <1>2. ASSUME NEW k \in Key, member' = [member EXCEPT ![k].term = TRUE] PROVE Keyed'
    BY <1>2 DEF TypeOK, MemberRecord, MemberKey
  <1>3. ASSUME NEW k \in Key, MemberGoes(k) PROVE Keyed'
    BY <1>3 DEF MemberGoes, NoMember, TypeOK, MemberKey
  <1>4. CASE UNCHANGED member  BY <1>4 DEF MemberKey
  <1>5. ASSUME NEW c \in Collection, PruneMember(c) PROVE Keyed'
    <2>1. Stray(c) \subseteq Key  BY DEF Stray, TypeOK, WorkerRecord
    <2>. QED  BY <1>2, <1>4, <1>5, <2>1 DEF PruneMember
  <1>6. ASSUME NEW k \in Key, CollectGarbage(k) \/ MemberDeleted(k) PROVE Keyed'
    BY <1>2, <1>6 DEF CollectGarbage, MemberDeleted
  <1>. QED
    BY <1>1, <1>3, <1>4, <1>5, <1>6
    DEF Next, Reconcile, Begin, ListMembers, Finish, CallFails, CacheSync, CollectionGoes,
        UserCreates, UserDeletes, UserDeletesInForeground, UserPauses, MatchesChange,
        ListSync, Restart, vars

\* The inductive invariant holds in every behaviour: a reconcile stays among the keys of
\* its collection and passes no match over (the loops of Reconcile).
THEOREM Invariance == Spec => []IInv
  <1>1. Init => IInv  BY InitIInv
  <1>2. IInv /\ [Next]_vars => IInv'
    BY TypeStep, ScopedStep, KeyedStep DEF IInv
  <1>. QED  BY <1>1, <1>2, PTL DEF Spec

\* Every behaviour keeps the types, and every member that is there has an owner
\* (observedObjectPatch).
THEOREM TypeCorrect == Spec => []TypeOK
  <1>1. IInv => TypeOK  BY DEF IInv
  <1>. QED  BY <1>1, Invariance, PTL

\* What a prune changes is a stray member, which is there.
LEMMA Pruned ==
  ASSUME IInv, NEW c \in Collection, NEW k \in Key, PruneMember(c), member'[k] # member[k]
  PROVE  k \in Stray(c) /\ Applied(c)
  BY DEF PruneMember, IInv, TypeOK

\* No reconcile deletes a member that another collection owns, be it of the same name in
\* another namespace (the list of members in Reconcile).
THEOREM OthersAreSpared == Spec => OthersSpared
  <1>1. ASSUME IInv, NEW c \in Collection, NEW k \in Key, PruneMember(c), member'[k] # member[k],
               NEW o \in member[k].owners
        PROVE  o[1] = c
    <2>1. k[1] = Namespace[c] /\ k[2] = NameOf[c]
      BY <1>1, Pruned DEF Stray, IInv, Scoped
    <2>2. k = MemberKey(o[1], member[k].item) /\ o[1] \in Collection
      BY <1>1 DEF IInv, Keyed, TypeOK, MemberRecord
    <2>. QED  BY <2>1, <2>2, CollectionAssumption DEF MemberKey
  <1>2. IInv => [\A c \in Collection : \A k \in Key :
                   PruneMember(c) /\ member'[k] # member[k] =>
                       \A o \in member[k].owners : o[1] = c]_vars
    BY <1>1
  <1>. QED  BY <1>2, Invariance, PTL DEF OthersSpared

\* No reconcile deletes the member of a resource that it has found to match.
THEOREM MatchesAreSpared == Spec => MatchesSpared
  <1>1. ASSUME IInv, NEW c \in Collection, NEW k \in Key, PruneMember(c), member'[k] # member[k],
               member[k].item \in worker[c].found
        PROVE  FALSE
    <2>1. MemberKey(c, member[k].item) \in worker[c].refs
      BY <1>1, Pruned DEF Applied, IInv, Scoped
    <2>2. member[k].there
      BY <1>1 DEF PruneMember, IInv, TypeOK
    <2>3. member[k].owners # {}  BY <1>1, <2>2 DEF IInv, TypeOK
    <2>5. PICK o \in member[k].owners : TRUE  BY <2>3
    <2>4. o[1] = c /\ k = MemberKey(o[1], member[k].item)
      <3>1. k[1] = Namespace[c] /\ k[2] = NameOf[c]
        BY <1>1, Pruned DEF Stray, IInv, Scoped
      <3>2. k = MemberKey(o[1], member[k].item) /\ o[1] \in Collection
        <4>1. member[k] \in MemberRecord  BY <1>1 DEF IInv, TypeOK
        <4>. QED  BY <1>1, <2>5, <4>1 DEF IInv, Keyed, MemberRecord
      <3>. QED  BY <3>1, <3>2, CollectionAssumption DEF MemberKey
    <2>. QED  BY <1>1, <2>1, <2>4, Pruned DEF Stray
  <1>2. IInv => [\A c \in Collection : \A k \in Key :
                   PruneMember(c) /\ member'[k] # member[k] =>
                       member[k].item \notin worker[c].found]_vars
    BY <1>1
  <1>. QED  BY <1>2, Invariance, PTL DEF MatchesSpared

-----------------------------------------------------------------------------
(* Incarnations *)

\* Nobody names an incarnation of a collection that is yet to come.
UIDsBehind ==
    \A c \in Collection :
        /\ cache[c].uid <= col[c].uid
        /\ worker[c].uid <= col[c].uid
        /\ \A k \in Key : \A o \in member[k].owners : o[1] = c => o[2] <= col[c].uid

\* What the garbage collector takes.
Garbage(k) == member[k].there /\ ~OwnerLives(member[k].owners)

\* A member gets another owner from the reconcile of a collection alone.
LEMMA NewOwners ==
  ASSUME IInv, [Next]_vars, NEW k \in Key, member'[k].owners # member[k].owners
  PROVE  \/ ~member'[k].there /\ member'[k].owners = {}
         \/ \E c \in Collection : /\ ApplyMember(c) /\ k = MemberKey(c, member'[k].item)
                                  /\ member'[k].owners = {<<c, worker[c].uid>>}
  <1>. USE DEF IInv, TypeOK
  <1>1. ASSUME NEW c \in Collection, ApplyMember(c)
        PROVE  k = MemberKey(c, member'[k].item) /\ member'[k].owners = {<<c, worker[c].uid>>}
    <2>1. PICK i \in worker[c].todo :
              member' = [member EXCEPT ![MemberKey(c, i)] = Patched(c, i)]
      BY <1>1 DEF ApplyMember
    <2>2. i \in Item  BY DEF WorkerRecord
    <2>3. k = MemberKey(c, i) /\ member'[k] = Patched(c, i)  BY <2>1
    <2>4. Patched(c, i).item = i  BY <2>2, PatchedTyped
    <2>5. Patched(c, i).owners = {<<c, worker[c].uid>>}
      <3>1. member[k] \in MemberRecord  OBVIOUS
      <3>. QED  BY <2>3, <3>1 DEF Patched, MemberRecord
    <2>. QED  BY <2>3, <2>4, <2>5
  <1>2. ASSUME NEW l \in Key, MemberGoes(l)
        PROVE  ~member'[k].there /\ member'[k].owners = {}
    BY <1>2 DEF MemberGoes, NoMember
  <1>3. ASSUME NEW l \in Key, member' = [member EXCEPT ![l].term = TRUE] PROVE FALSE
    BY <1>3 DEF MemberRecord
  <1>4. ASSUME NEW c \in Collection, PruneMember(c) PROVE FALSE
    <2>1. Stray(c) \subseteq Key  BY DEF Stray, WorkerRecord
    <2>. QED  BY <1>3, <1>4, <2>1 DEF PruneMember
  <1>5. ASSUME NEW l \in Key, CollectGarbage(l) \/ MemberDeleted(l) PROVE FALSE
    BY <1>3, <1>5 DEF CollectGarbage, MemberDeleted
  <1>6. member' # member  OBVIOUS
  <1>. QED
    BY <1>1, <1>2, <1>4, <1>5, <1>6
    DEF Next, Reconcile, Begin, ListMembers, Finish, CallFails, CacheSync, CollectionGoes,
        UserCreates, UserDeletes, UserDeletesInForeground, UserPauses, MatchesChange,
        ListSync, Restart, vars

\* UIDs grow, and with them what is alive: a collection comes alive under a new one.
LEMMA UIDsGrow ==
  ASSUME IInv, [Next]_vars, NEW c \in Collection
  PROVE  /\ col[c].uid \in Nat /\ col'[c].uid \in Nat
         /\ \/ col'[c].uid = col[c].uid /\ (col'[c].phase = "alive" => col[c].phase = "alive")
            \/ col'[c].uid > col[c].uid
  <1>. USE DEF IInv, TypeOK
  <1>0. col[c].uid \in Nat /\ col[c] \in CollectionRecord  BY DEF CollectionRecord
  <1>1. ASSUME NEW d \in Collection, UserCreates(d)
        PROVE  \/ col'[c] = col[c]
               \/ col'[c].uid = col[c].uid + 1
    <2>1. [NoCollection EXCEPT !.uid = col[d].uid + 1, !.phase = "alive"].uid = col[d].uid + 1
      BY DEF NoCollection
    <2>. QED  BY <1>1, <2>1 DEF UserCreates
  <1>2. ASSUME NEW d \in Collection,
               CollectionGoes(d) \/ UserDeletes(d) \/ UserDeletesInForeground(d)
        PROVE  col'[c].uid = col[c].uid /\ (col'[c].phase = "alive" => col[c].phase = "alive")
    BY <1>2 DEF CollectionGoes, UserDeletes, UserDeletesInForeground, CollectionRecord
  <1>3. ASSUME NEW d \in Collection, UserPauses(d)
        PROVE  col'[c].uid = col[c].uid /\ col'[c].phase = col[c].phase
    <2>1. PICK b : col' = [col EXCEPT ![d].paused = b]  BY <1>3 DEF UserPauses
    <2>. QED  BY <2>1 DEF CollectionRecord
  <1>4. \/ col' = col
        \/ \E d \in Collection :
              \/ UserCreates(d) \/ CollectionGoes(d) \/ UserDeletes(d)
              \/ UserDeletesInForeground(d) \/ UserPauses(d)
    BY DEF Next, Reconcile, Begin, ListMembers, ApplyMember, PruneMember, Finish, CallFails,
           CacheSync, MatchesChange, CollectGarbage, MemberGoes, MemberDeleted, ListSync,
           Restart, vars
  <1>. QED  BY <1>0, <1>1, <1>2, <1>3, <1>4

\* The copies of a collection are of an incarnation there was.
LEMMA CopiesStep ==
  ASSUME IInv, UIDsBehind, [Next]_vars, NEW c \in Collection
  PROVE  cache'[c].uid <= col[c].uid /\ worker'[c].uid <= col[c].uid
  <1>. USE DEF IInv, TypeOK, UIDsBehind
  <1>0. /\ col[c].uid \in Nat /\ cache[c].uid \in Nat /\ worker[c].uid \in Nat
        /\ worker[c] \in WorkerRecord /\ Idle.uid = 0
    BY DEF CollectionRecord, WorkerRecord, Idle
  <1>1. ASSUME NEW d \in Collection, CacheSync(d)
        PROVE  cache'[c] \in {cache[c], col[c]} /\ worker' = worker
    BY <1>1 DEF CacheSync
  <1>2. CASE Restart
    BY <1>0, <1>2 DEF Restart
  <1>3. ASSUME NEW d \in Collection, Reconcile(d) \/ CallFails(d)
        PROVE  cache' = cache /\ worker'[c].uid \in {0, cache[c].uid, worker[c].uid}
    <2>0. cache' = cache
      BY <1>3 DEF Reconcile, Begin, ListMembers, ApplyMember, PruneMember, Finish, CallFails
    <2>1. CASE Begin(d)
      <3>1. [Idle EXCEPT !.pc = "members", !.uid = cache[d].uid,
                         !.found = matches[d], !.todo = matches[d]].uid = cache[d].uid
        BY DEF Idle
      <3>. QED  BY <2>1, <3>1 DEF Begin, Goto
    <2>2. CASE ListMembers(d)
      BY <2>2, <1>0 DEF ListMembers, Goto, WorkerRecord
    <2>3. CASE ApplyMember(d)
      BY <2>3, <1>0 DEF ApplyMember, Goto, WorkerRecord
    <2>4. CASE PruneMember(d)
      BY <2>4, <1>0 DEF PruneMember, Goto, WorkerRecord
    <2>5. CASE Finish(d) \/ CallFails(d)
      BY <2>5, <1>0 DEF Finish, CallFails, Goto
    <2>. QED  BY <1>3, <2>0, <2>1, <2>2, <2>3, <2>4, <2>5 DEF Reconcile
  <1>4. \/ cache' = cache /\ worker' = worker
        \/ Restart
        \/ \E d \in Collection : CacheSync(d) \/ Reconcile(d) \/ CallFails(d)
    BY DEF Next, CollectionGoes, UserCreates, UserDeletes, UserDeletesInForeground, UserPauses,
           MatchesChange, CollectGarbage, MemberGoes, MemberDeleted, ListSync, vars
  <1>. QED  BY <1>0, <1>1, <1>2, <1>3, <1>4

LEMMA BehindStep ==
  ASSUME IInv, UIDsBehind, [Next]_vars
  PROVE  UIDsBehind'
  <1>1. ASSUME NEW c \in Collection
        PROVE  cache'[c].uid <= col'[c].uid /\ worker'[c].uid <= col'[c].uid
    <2>1. cache'[c].uid \in Nat /\ worker'[c].uid \in Nat
      BY TypeStep DEF IInv, TypeOK, CollectionRecord, WorkerRecord
    <2>. QED  BY <2>1, UIDsGrow, CopiesStep
  <1>2. ASSUME NEW c \in Collection, NEW k \in Key, NEW o \in member'[k].owners, o[1] = c
        PROVE  o[2] <= col'[c].uid
    <2>1. CASE o \in member[k].owners
      <3>1. o[2] <= col[c].uid  BY <1>2, <2>1 DEF UIDsBehind
      <3>2. o[2] \in Nat  BY <2>1 DEF IInv, TypeOK, MemberRecord
      <3>. QED  BY <3>1, <3>2, UIDsGrow
    <2>2. CASE o \notin member[k].owners
      <3>1. PICK d \in Collection : o = <<d, worker[d].uid>>
        BY <1>2, <2>2, NewOwners
      <3>2. d = c /\ o[2] = worker[c].uid /\ worker[c].uid \in Nat
        BY <1>2, <3>1 DEF IInv, TypeOK, WorkerRecord
      <3>. QED  BY <3>2, UIDsGrow DEF UIDsBehind
    <2>. QED  BY <2>1, <2>2
  <1>. QED  BY <1>1, <1>2 DEF UIDsBehind

\* For any collections, resources and bounds: what a collection leaves behind when it goes, and
\* what a reconcile of it still applies, is garbage and stays so, also when a collection of its
\* name is made anew, until that one's own reconcile finds that it matches and takes it over
\* (the owner reference in observedObjectPatch names a UID).
THEOREM OnlyTheLivingAdopt ==
  Spec => [][\A k \in Key : Garbage(k) /\ ~Garbage(k)' =>
                \/ ~member'[k].there
                \/ \E c \in Collection :
                      /\ ApplyMember(c) /\ k = MemberKey(c, member'[k].item)
                      /\ col[c].phase = "alive" /\ worker[c].uid = col[c].uid]_vars
  <1>1. ASSUME IInv, UIDsBehind, [Next]_vars, NEW k \in Key, Garbage(k), ~Garbage(k)',
               member'[k].there
        PROVE  \E c \in Collection :
                  /\ ApplyMember(c) /\ k = MemberKey(c, member'[k].item)
                  /\ col[c].phase = "alive" /\ worker[c].uid = col[c].uid
    <2>1. /\ member[k].there /\ member[k].owners # {} /\ member[k] \in MemberRecord
          /\ \A o \in member[k].owners : o[1] \in Collection /\ o[2] \in Nat
      BY <1>1 DEF Garbage, IInv, TypeOK, MemberRecord
    <2>2. CASE member'[k].owners = member[k].owners
      <3>1. PICK o \in member[k].owners : col'[o[1]].phase = "alive" /\ col'[o[1]].uid = o[2]
        BY <1>1, <2>1, <2>2 DEF Garbage, OwnerLives
      <3>2. ~(col[o[1]].phase = "alive" /\ col[o[1]].uid = o[2])
        BY <1>1 DEF Garbage, OwnerLives
      <3>3. o[2] <= col[o[1]].uid  BY <1>1, <2>1 DEF UIDsBehind
      <3>. QED  BY <1>1, <2>1, <3>1, <3>2, <3>3, UIDsGrow
    <2>3. CASE member'[k].owners # member[k].owners
      <3>1. PICK c \in Collection : /\ ApplyMember(c) /\ k = MemberKey(c, member'[k].item)
                                    /\ member'[k].owners = {<<c, worker[c].uid>>}
        BY <1>1, <2>3, NewOwners
      <3>2. col' = col  BY <3>1 DEF ApplyMember
      <3>3. PICK o \in member'[k].owners : col'[o[1]].phase = "alive" /\ col'[o[1]].uid = o[2]
        <4>1. member'[k].owners # {}  BY <3>1
        <4>. QED  BY <1>1, <4>1 DEF Garbage, OwnerLives
      <3>4. o = <<c, worker[c].uid>>  BY <3>1, <3>3
      <3>5. col[c].phase = "alive" /\ col[c].uid = worker[c].uid
        BY <3>2, <3>3, <3>4
      <3>. QED  BY <3>1, <3>5
    <2>. QED  BY <2>2, <2>3
  <1>2. Init => UIDsBehind
    BY DEF Init, UIDsBehind, NoCollection, Idle, NoMember
  <1>3. IInv /\ UIDsBehind /\ [Next]_vars => UIDsBehind'
    BY BehindStep
  <1>4. IInv /\ UIDsBehind /\ [Next]_vars =>
          [\A k \in Key : Garbage(k) /\ ~Garbage(k)' =>
                \/ ~member'[k].there
                \/ \E c \in Collection :
                      /\ ApplyMember(c) /\ k = MemberKey(c, member'[k].item)
                      /\ col[c].phase = "alive" /\ worker[c].uid = col[c].uid]_vars
    BY <1>1
  <1>. QED  BY <1>2, <1>3, <1>4, Invariance, PTL DEF Spec
====
