-------------------------- MODULE ObservedCollection --------------------------
(***************************************************************************)
(* The reconciler of ObservedObjectCollections                             *)
(* (internal/controller/namespaced/observedobjectcollection): it keeps an  *)
(* Object that only observes, a member, for every resource of a cluster    *)
(* that a selector matches, and deletes the members of resources that no   *)
(* longer match.                                                           *)
(*                                                                         *)
(* A reconcile is a list of the cluster, a list of the members (from an    *)
(* informer cache that lags), one apply per match and one delete per stray *)
(* member.  Nothing protects a collection or its members in between: users *)
(* delete and create the collection anew, the garbage collector follows    *)
(* owner references, members have finalizers of their own and go later     *)
(* than they are deleted.  The membership label is abstracted to the name  *)
(* in the key of a member, which both are made of; that a template may     *)
(* overwrite the label is left out.                                        *)
(***************************************************************************)
EXTENDS Naturals, FiniteSets

CONSTANTS
    Collection,   \* the collections, each with
    Namespace,    \* Namespace[c]: its namespace
    NameOf,       \* NameOf[c]: its name, the value of the membership label
    Item,         \* the resources of the cluster a selector can match
    Hash,         \* Hash[i]: the shortened hash of the identity of i
    Selectable,   \* Selectable[c]: the resources the criteria of c may ever match
    MaxUID,       \* bound: how often the name of c is created, MaxUID[c] times
    MaxFaults     \* bound: failed calls, restarts, edits and acts of third parties

ASSUME CollectionAssumption ==
    /\ \A c, d \in Collection :
          Namespace[c] = Namespace[d] /\ NameOf[c] = NameOf[d] => c = d
    /\ Selectable \in [Collection -> SUBSET Item]
    /\ MaxUID \in [Collection -> Nat]
    /\ MaxFaults \in Nat

\* observedObjectName: the key of the member of c for the resource i.  Two resources
\* with one hash share a member.
MemberKey(c, i) == <<Namespace[c], NameOf[c], Hash[i]>>

Key == {MemberKey(c, i) : c \in Collection, i \in Item}

VARIABLES
    col,      \* col[c]: the collection the API server stores
    matches,  \* matches[c]: what the selector of c matches now
    member,   \* member[k]: the member Object under the key k
    cache,    \* cache[c]: the collection as the informer cache holds it
    listed,   \* the keys of the Objects in the informer cache of Objects
    worker,   \* worker[c]: where the reconcile of c stands
    faults

vars == <<col, matches, member, cache, listed, worker, faults>>

CollectionRecord == [uid : Nat, phase : {"gone", "alive", "deleting"}, paused : BOOLEAN]

\* owners: the incarnations of collections the owner references name.
MemberRecord ==
    [there : BOOLEAN, term : BOOLEAN, owners : SUBSET (Collection \X Nat), item : Item]

\* uid: that of the copy the reconcile works on; found: the matches listed; todo: those yet
\* to apply; seen: the members listed and not yet gone through; refs: the members applied.
WorkerRecord ==
    [pc : {"idle", "members", "apply"}, uid : Nat,
     found : SUBSET Item, todo : SUBSET Item, seen : SUBSET Key, refs : SUBSET Key]

NoCollection == [uid |-> 0, phase |-> "gone", paused |-> FALSE]
Idle == [pc |-> "idle", uid |-> 0, found |-> {}, todo |-> {},
         seen |-> {}, refs |-> {}]
NoMember == [there |-> FALSE, term |-> FALSE,
             owners |-> {}, item |-> CHOOSE i \in Item : TRUE]

TypeOK ==
    /\ col \in [Collection -> CollectionRecord]
    /\ matches \in [Collection -> SUBSET Item]
    /\ member \in [Key -> MemberRecord]
    /\ \A k \in Key : member[k].there <=> member[k].owners # {}
    /\ cache \in [Collection -> CollectionRecord]
    /\ listed \in SUBSET Key
    /\ worker \in [Collection -> WorkerRecord]
    /\ faults \in 0..MaxFaults

Init ==
    /\ col = [c \in Collection |-> NoCollection]
    /\ matches \in {m \in [Collection -> SUBSET Item] : \A c \in Collection : m[c] \subseteq Selectable[c]}
    /\ member = [k \in Key |-> NoMember]
    /\ cache = [c \in Collection |-> NoCollection]
    /\ listed = {}
    /\ worker = [c \in Collection |-> Idle]
    /\ faults = 0

-----------------------------------------------------------------------------
(* The API server, its garbage collector, the informers *)

Present == {k \in Key : member[k].there}

\* The garbage collector spares what has no owner, or one that is there.
OwnerLives(owners) ==
    owners = {} \/ \E o \in owners : col[o[1]].phase = "alive" /\ col[o[1]].uid = o[2]

CollectGarbage(k) ==
    /\ member[k].there /\ ~member[k].term /\ ~OwnerLives(member[k].owners)
    /\ member' = [member EXCEPT ![k].term = TRUE]
    /\ UNCHANGED <<col, matches, cache, listed, worker, faults>>

\* The reconciler of Objects lets go of a member under deletion, which only observes.
MemberGoes(k) ==
    /\ member[k].term
    /\ member' = [member EXCEPT ![k] = NoMember]
    /\ UNCHANGED <<col, matches, cache, listed, worker, faults>>

\* A deletion in the foreground ends; no member blocks it.
CollectionGoes(c) ==
    /\ col[c].phase = "deleting"
    /\ col' = [col EXCEPT ![c].phase = "gone"]
    /\ UNCHANGED <<matches, member, cache, listed, worker, faults>>

CacheSync(c) ==
    /\ cache[c] # col[c]
    /\ cache' = [cache EXCEPT ![c] = col[c]]
    /\ UNCHANGED <<col, matches, member, listed, worker, faults>>

\* One stream of events brings the cache of Objects from one state of the server to a later.
ListSync ==
    /\ listed # Present
    /\ listed' = Present
    /\ UNCHANGED <<col, matches, member, cache, worker, faults>>

-----------------------------------------------------------------------------
(* Users and third parties *)

Disrupt == faults < MaxFaults /\ faults' = faults + 1

UserCreates(c) ==
    /\ col[c].phase = "gone"
    /\ col[c].uid < MaxUID[c]
    /\ col' = [col EXCEPT ![c] = [NoCollection EXCEPT !.uid = col[c].uid + 1, !.phase = "alive"]]
    /\ UNCHANGED <<matches, member, cache, listed, worker, faults>>

UserDeletes(c) ==
    /\ col[c].phase = "alive"
    /\ col' = [col EXCEPT ![c].phase = "gone"]
    /\ UNCHANGED <<matches, member, cache, listed, worker, faults>>

UserDeletesInForeground(c) ==
    /\ Disrupt
    /\ col[c].phase = "alive"
    /\ col' = [col EXCEPT ![c].phase = "deleting"]
    /\ UNCHANGED <<matches, member, cache, listed, worker>>

UserPauses(c) ==
    /\ Disrupt
    /\ col[c].phase = "alive"
    /\ col' = [col EXCEPT ![c].paused = ~@]
    /\ UNCHANGED <<matches, member, cache, listed, worker>>

\* A resource comes, goes, or changes its labels; or the criteria of c are edited.
MatchesChange(c, i) ==
    /\ Disrupt
    /\ matches' = [matches EXCEPT ![c] = IF i \in @ THEN @ \ {i} ELSE @ \cup {i}]
    /\ UNCHANGED <<col, member, cache, listed, worker>>

MemberDeleted(k) ==
    /\ Disrupt
    /\ member[k].there /\ ~member[k].term
    /\ member' = [member EXCEPT ![k].term = TRUE]
    /\ UNCHANGED <<col, matches, cache, listed, worker>>

-----------------------------------------------------------------------------
(* The reconcile of a collection *)

Goto(c, w) == worker' = [worker EXCEPT ![c] = w]

\* The Get of the collection from the cache, and the list of the cluster by the client of
\* its ProviderConfig.  Nothing is done for one that is gone, under deletion or paused.
BeginUnderDeletion(c) ==
    /\ worker[c].pc = "idle"
    /\ cache[c].phase # "gone" /\ ~cache[c].paused
    /\ Goto(c, [Idle EXCEPT !.pc = "members", !.uid = cache[c].uid,
                            !.found = matches[c], !.todo = matches[c]])
    /\ UNCHANGED <<col, matches, member, cache, listed, faults>>
Begin(c) ==
    /\ worker[c].pc = "idle"
    /\ cache[c].phase = "alive" /\ ~cache[c].paused
    /\ Goto(c, [Idle EXCEPT !.pc = "members", !.uid = cache[c].uid,
                            !.found = matches[c], !.todo = matches[c]])
    /\ UNCHANGED <<col, matches, member, cache, listed, faults>>

\* The list of members: by the label, in the namespace of the collection.
Labelled(c) == {k \in listed : k[1] = Namespace[c] /\ k[2] = NameOf[c]}

ListMembers(c) ==
    /\ worker[c].pc = "members"
    /\ Goto(c, [worker[c] EXCEPT !.pc = "apply", !.seen = Labelled(c)])
    /\ UNCHANGED <<col, matches, member, cache, listed, faults>>

\* observedObjectPatch, applied by force.  A member under deletion stays under deletion.
PatchedUnowned(c, i) == [member[MemberKey(c, i)] EXCEPT !.there = TRUE, !.item = i]
PatchedByFirst(c, i) ==
    [member[MemberKey(c, i)] EXCEPT !.there = TRUE, !.owners = {<<c, worker[c].uid>>},
                                    !.item = IF member[MemberKey(c, i)].there THEN @ ELSE i]
Patched(c, i) ==
    [member[MemberKey(c, i)] EXCEPT !.there = TRUE, !.owners = {<<c, worker[c].uid>>},
                                    !.item = i]

ApplyMember(c) ==
    /\ worker[c].pc = "apply"
    /\ \E i \in worker[c].todo :
        /\ member' = [member EXCEPT ![MemberKey(c, i)] = Patched(c, i)]
        /\ Goto(c, [worker[c] EXCEPT !.todo = @ \ {i}, !.refs = @ \cup {MemberKey(c, i)}])
    /\ UNCHANGED <<col, matches, cache, listed, faults>>

\* The loop over the matches has come to its end.
AppliedUnchecked(c) == worker[c].pc = "apply"
Applied(c) == worker[c].pc = "apply" /\ worker[c].todo = {}

StrayNone(c) == {}
Stray(c) == worker[c].seen \ worker[c].refs

\* The Delete of a stray member, whoever it belongs to by now.  One that is gone already
\* is an error, and ends the reconcile.
PruneMember(c) ==
    /\ Applied(c)
    /\ \E k \in Stray(c) :
        IF member[k].there
        THEN /\ member' = [member EXCEPT ![k].term = TRUE]
             /\ Goto(c, [worker[c] EXCEPT !.seen = @ \ {k}])
        ELSE Goto(c, Idle) /\ UNCHANGED member
    /\ UNCHANGED <<col, matches, cache, listed, faults>>

Finish(c) ==
    /\ Applied(c) /\ Stray(c) = {}
    /\ Goto(c, Idle)
    /\ UNCHANGED <<col, matches, member, cache, listed, faults>>

Reconcile(c) ==
    \/ Begin(c) \/ ListMembers(c)
    \/ ApplyMember(c) \/ PruneMember(c) \/ Finish(c)

\* A call fails, or the ProviderConfig or the selector is of no use: the reconcile ends.
CallFails(c) ==
    /\ Disrupt
    /\ worker[c].pc # "idle"
    /\ Goto(c, Idle)
    /\ UNCHANGED <<col, matches, member, cache, listed>>

Restart ==
    /\ Disrupt
    /\ worker' = [c \in Collection |-> Idle]
    /\ cache' = col
    /\ listed' = Present
    /\ UNCHANGED <<col, matches, member>>

-----------------------------------------------------------------------------
Next ==
    \/ \E c \in Collection :
        \/ Reconcile(c) \/ CallFails(c) \/ CacheSync(c) \/ CollectionGoes(c)
        \/ UserCreates(c) \/ UserDeletes(c) \/ UserDeletesInForeground(c) \/ UserPauses(c)
        \/ \E i \in Selectable[c] : MatchesChange(c, i)
    \/ \E k \in Key : CollectGarbage(k) \/ MemberGoes(k) \/ MemberDeleted(k)
    \/ ListSync \/ Restart

Spec == Init /\ [][Next]_vars

\* The collection is polled or requeued, the informers deliver, the garbage collector and
\* the reconciler of Objects do their part.
Fairness ==
    /\ \A c \in Collection : WF_vars(Reconcile(c)) /\ WF_vars(CacheSync(c))
    /\ \A k \in Key : WF_vars(CollectGarbage(k)) /\ WF_vars(MemberGoes(k))
    /\ WF_vars(ListSync)

FairSpec == Spec /\ Fairness
-----------------------------------------------------------------------------
(* Properties *)

\* The delete of a stray (the loop over ol.Items in Reconcile) has no precondition; it
\* never hits what another collection has applied, of the same name in another namespace
\* for one.
OthersSpared ==
    [][\A c \in Collection : \A k \in Key :
          PruneMember(c) /\ member'[k] # member[k] => \A o \in member[k].owners : o[1] = c]_vars

\* A member whose resource this reconcile has found to match is not pruned by it, however
\* old the list of members is (refs is complete before the second loop of Reconcile).
MatchesSpared ==
    [][\A c \in Collection : \A k \in Key :
          PruneMember(c) /\ member'[k] # member[k] => member[k].item \notin worker[c].found]_vars

Steady(c) == col[c].phase = "alive" /\ ~col[c].paused

Wanted(c)  == {MemberKey(c, i) : i \in matches[c]}
Members(c) == {k \in Key : k[1] = Namespace[c] /\ k[2] = NameOf[c] /\ member[k].there}

\* A collection that stays ends with a member for every match and no other, owned by
\* itself: strays go, lost members come back, members of an earlier incarnation of the
\* collection are adopted or collected and made anew.
MembersConverge ==
    \A c \in Collection :
        <>[]Steady(c) =>
            <>[](/\ Members(c) = Wanted(c)
                 /\ \A k \in Members(c) : ~member[k].term /\ OwnerLives(member[k].owners))

\* Every match is observed in the end, unless its name collides with that of another match
\* (observedObjectName shortens the hash).
MatchesObserved ==
    \A c \in Collection :
        <>[](Steady(c) /\ \A i, j \in matches[c] : Hash[i] = Hash[j] => i = j) =>
            <>[](\A i \in matches[c] :
                    member[MemberKey(c, i)].there /\ member[MemberKey(c, i)].item = i)

\* The members of a collection go with it (the owner reference in observedObjectPatch), also
\* those that a reconcile of the deleted collection still applies, and also while a finalizer
\* of somebody holds the collection: nothing applies them anew (WasDeleted in Reconcile).
MembersGoWithCollection ==
    \A c \in Collection : <>[](col[c].phase # "alive") => <>[](Members(c) = {})
=============================================================================
