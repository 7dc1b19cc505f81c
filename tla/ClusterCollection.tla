--------------------------- MODULE ClusterCollection ---------------------------
(***************************************************************************)
(* The reconciler of cluster-scoped ObservedObjectCollections              *)
(* (internal/controller/cluster/observedobjectcollection): the namespaced  *)
(* one with a single namespace that all collections and members are in.    *)
(***************************************************************************)
EXTENDS Naturals, FiniteSets, TLAPS

CONSTANTS
    Name,         \* the names of the collections
    Item, Hash,   \* the resources of the cluster and the hashes of their identities
    Selectable,   \* Selectable[c]: the resources the criteria of c may ever match
    MaxUID, MaxFaults

VARIABLES col, matches, member, cache, listed, worker, faults

Scope == "cluster"

C == INSTANCE ObservedCollection_proofs WITH
        Collection <- Name,
        Namespace  <- [c \in Name |-> Scope],
        NameOf     <- [c \in Name |-> c]

\* observedObjectName and observedObjectPatch: the member goes by a name alone.
MemberName(c, i) == C!MemberKey(c, i)
Patched(c, i) == C!Patched(c, i)

\* Reconcile: Get, list of the cluster; list of the members by their label, wherever they
\* are; the loop of applies; the loop of deletes; the end.
Begin(c)       == C!Begin(c)
ListMembers(c) == C!ListMembers(c)
ApplyMember(c) == C!ApplyMember(c)
PruneMember(c) == C!PruneMember(c)
Finish(c)      == C!Finish(c)

Bounds ==
    /\ Selectable \in [Name -> SUBSET Item]
    /\ MaxUID \in [Name -> Nat]
    /\ MaxFaults \in Nat

\* Without namespaces the names alone keep collections apart: no reconcile deletes what
\* another collection has applied, nor what it has found to match.
THEOREM ClusterMembersSpared ==
  ASSUME Bounds
  PROVE  C!Spec => C!OthersSpared /\ C!MatchesSpared
  BY C!OthersAreSpared, C!MatchesAreSpared DEF Bounds
=============================================================================
