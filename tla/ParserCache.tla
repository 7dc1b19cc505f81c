------------------------------ MODULE ParserCache ------------------------------
(***************************************************************************)
(* The cache of OpenAPI parsers that the server-side apply syncer extracts *)
(* fields with, one per ProviderConfig (pkg/kube/client/ssa/cache/         *)
(* extractor).  A lookup asks the cluster which schemas it serves, drops   *)
(* the entries whose hash (ETag) is not the one discovered, and fetches    *)
(* and stores a schema it does not find.  Workers that miss the same group *)
(* version share one flight: the first, the leader, fetches for all.       *)
(*                                                                         *)
(* The discovery, the invalidation, the read and the flight are steps of   *)
(* their own; schemas change between any two of them.  The server answers  *)
(* a request that names an outdated hash with the schema of the moment.    *)
(***************************************************************************)
EXTENDS Naturals, FiniteSets

CONSTANTS
    Worker,        \* the workers, one for each Object
    GroupVersion,  \* the group versions of a cluster
    Wants,         \* Wants[w]: the group version of the manifest of w
    Schema,        \* the schemas a group version may have, each with a hash of its own
    None,          \* no schema, no parser, no worker
    Upgrade,       \* the changes of a schema, from and to None included
    MaxChanges     \* bound: schema changes, failed fetches and restarts

\* What the proofs take for granted.
ParserConstants ==
    /\ None \notin Schema \cup Worker
    /\ Wants \in [Worker -> GroupVersion]
    /\ Upgrade \subseteq (Schema \cup {None}) \X (Schema \cup {None})
    /\ MaxChanges \in Nat

VARIABLES
    served,    \* served[g]: the schema the cluster has for g
    store,     \* store[g]: the parser cached for g, with the ETag it is stored under
    flight,    \* flight[g]: the leader of the flight for g
    lookup,    \* lookup[w]: where the lookup of w stands
    changes    \* schema changes, failed fetches and restarts so far, no part of the state

vars == <<served, store, flight, lookup>>

\* turn: the extractions of this reconcile begun.  paths: the schemas discovered.  fetched: the
\* schema the leader has got.  parser: the one w last extracted with.
LookupRecord ==
    [pc : {"idle", "discovered", "invalidated", "lead", "wait", "done", "failed"},
     turn : 0..2, paths : [GroupVersion -> Schema \cup {None}],
     fetched : Schema \cup {None}, parser : Schema \cup {None}]

EntryRecord == [parser : Schema \cup {None}, etag : Schema \cup {None}]

NoEntry  == [parser |-> None, etag |-> None]
NoPaths  == [g \in GroupVersion |-> None]
NoLookup == [pc |-> "idle", turn |-> 0, paths |-> NoPaths, fetched |-> None, parser |-> None]

TypeOK ==
    /\ served \in [GroupVersion -> Schema \cup {None}]
    /\ store \in [GroupVersion -> EntryRecord]
    /\ flight \in [GroupVersion -> Worker \cup {None}]
    /\ lookup \in [Worker -> LookupRecord]
    /\ \A g \in GroupVersion, w \in Worker :
          flight[g] = w <=> lookup[w].pc = "lead" /\ Wants[w] = g

Init ==
    /\ served \in [GroupVersion -> Schema \cup {None}]
    /\ store = [g \in GroupVersion |-> NoEntry]
    /\ flight = [g \in GroupVersion |-> None]
    /\ lookup = [w \in Worker |-> NoLookup]
    /\ changes = 0

-----------------------------------------------------------------------------
Change == changes < MaxChanges /\ changes' = changes + 1

\* A CustomResourceDefinition or the server itself is installed, upgraded or removed.
SchemaChanges(g) ==
    /\ Change
    /\ \E u \in Upgrade : u[1] = served[g] /\ served' = [served EXCEPT ![g] = u[2]]
    /\ UNCHANGED <<store, flight, lookup>>

Goto(w, pc) == lookup' = [lookup EXCEPT ![w].pc = pc]

Begun(w) ==
    [lookup[w] EXCEPT !.pc = "discovered", !.turn = lookup[w].turn + 1, !.paths = served]

\* discoveryPaths.  A reconcile extracts what it observes and, unless that is cached, what it
\* desires.
Discover(w) ==
    /\ lookup[w].pc \in {"idle", "done"} /\ lookup[w].turn < 2
    /\ lookup' = [lookup EXCEPT ![w] = Begun(w)]
    /\ UNCHANGED <<served, store, flight, changes>>

\* What is left of the store: entries whose ETag is still that of the discovery.
Kept(w) ==
    [g \in GroupVersion |-> IF store[g].etag = lookup[w].paths[g] THEN store[g] ELSE NoEntry]

Invalidate(w) ==
    /\ lookup[w].pc = "discovered"
    /\ store' = Kept(w)
    /\ Goto(w, "invalidated")
    /\ UNCHANGED <<served, flight, changes>>

\* The entry was stored under the ETag that w has discovered.
HitAnyEntry(w) == store[Wants[w]] # NoEntry
Hit(w) == store[Wants[w]] # NoEntry /\ store[Wants[w]].etag = lookup[w].paths[Wants[w]]

\* The lookup of w returns a parser, or an error.
Answered(w, parser) ==
    [lookup[w] EXCEPT !.pc = "done", !.paths = NoPaths, !.fetched = None, !.parser = parser]
Failed(w) == [lookup[w] EXCEPT !.pc = "failed", !.paths = NoPaths, !.fetched = None]

NotDiscovered(w) ==
    /\ lookup[w].pc = "invalidated"
    /\ lookup[w].paths[Wants[w]] = None
    /\ lookup' = [lookup EXCEPT ![w] = Failed(w)]
    /\ UNCHANGED <<served, store, flight, changes>>

FindCached(w) ==
    /\ lookup[w].pc = "invalidated"
    /\ lookup[w].paths[Wants[w]] # None
    /\ Hit(w)
    /\ lookup' = [lookup EXCEPT ![w] = Answered(w, store[Wants[w]].parser)]
    /\ UNCHANGED <<served, store, flight, changes>>

\* A miss starts a flight, or joins the one there is, whatever its leader has discovered.
TakeFlight(w) ==
    /\ lookup[w].pc = "invalidated"
    /\ lookup[w].paths[Wants[w]] # None
    /\ ~Hit(w)
    /\ IF flight[Wants[w]] = None
       THEN /\ flight' = [flight EXCEPT ![Wants[w]] = w]
            /\ Goto(w, "lead")
       ELSE Goto(w, "wait") /\ UNCHANGED flight
    /\ UNCHANGED <<served, store, changes>>

Passengers(w) == {v \in Worker : Wants[v] = Wants[w] /\ lookup[v].pc = "wait"} \cup {w}

\* The flight of w ends for all that are on it.
LandForLeader(w) == [lookup EXCEPT ![w] = Answered(w, lookup[w].fetched)]
Landed(w) ==
    [v \in Worker |->
        IF v \in Passengers(w) THEN Answered(v, lookup[w].fetched) ELSE lookup[v]]

FlightStuck(w) ==
    /\ UNCHANGED flight
    /\ lookup' = [lookup EXCEPT ![w] = Failed(w)]
FailForLeader(w) ==
    /\ flight' = [flight EXCEPT ![Wants[w]] = None]
    /\ lookup' = [lookup EXCEPT ![w] = Failed(w)]
FlightFails(w) ==
    /\ flight' = [flight EXCEPT ![Wants[w]] = None]
    /\ lookup' = [v \in Worker |-> IF v \in Passengers(w) THEN Failed(v) ELSE lookup[v]]

\* What the server answers: the schema it has when the request arrives.
DocumentOfHash(w) == lookup[w].paths[Wants[w]]
Document(w) == served[Wants[w]]

Fetch(w) ==
    /\ lookup[w].pc = "lead" /\ lookup[w].fetched = None
    /\ IF Document(w) # None
       THEN /\ lookup' = [lookup EXCEPT ![w].fetched = Document(w)]
            /\ UNCHANGED flight
       ELSE FlightFails(w)
    /\ UNCHANGED <<served, store, changes>>

\* The leader stores its parser under the ETag it discovered before.
Land(w) ==
    /\ lookup[w].pc = "lead" /\ lookup[w].fetched # None
    /\ store' = [store EXCEPT ![Wants[w]] =
                    [parser |-> lookup[w].fetched, etag |-> lookup[w].paths[Wants[w]]]]
    /\ flight' = [flight EXCEPT ![Wants[w]] = None]
    /\ lookup' = Landed(w)
    /\ UNCHANGED <<served, changes>>

\* The request of the leader fails, or its context ends: so does the flight.
FetchFails(w) ==
    /\ Change
    /\ lookup[w].pc = "lead"
    /\ FlightFails(w)
    /\ UNCHANGED <<served, store>>

\* The reconcile of w is over.
Return(w) ==
    /\ lookup[w].pc \in {"done", "failed"}
    /\ lookup' = [lookup EXCEPT ![w] = [lookup[w] EXCEPT !.pc = "idle", !.turn = 0]]
    /\ UNCHANGED <<served, store, flight, changes>>

Restart ==
    /\ Change
    /\ store' = [g \in GroupVersion |-> NoEntry]
    /\ flight' = [g \in GroupVersion |-> None]
    /\ lookup' = [w \in Worker |-> NoLookup]
    /\ UNCHANGED served

Lookup(w) ==
    \/ Discover(w) \/ Invalidate(w) \/ NotDiscovered(w) \/ FindCached(w)
    \/ TakeFlight(w) \/ Fetch(w) \/ Land(w) \/ Return(w)

Next ==
    \/ \E w \in Worker : Lookup(w) \/ FetchFails(w)
    \/ \E g \in GroupVersion : SchemaChanges(g)
    \/ Restart

Spec == Init /\ [][Next]_vars
-----------------------------------------------------------------------------
(* Properties *)

\* The schemas that s is or may turn into.
Reachable(s) ==
    {t \in Schema \cup {None} : \A S \in SUBSET (Schema \cup {None}) :
        s \in S /\ (\A u \in Upgrade : u[1] \in S => u[2] \in S) => t \in S}

\* A worker never extracts with an older schema than it did before: the two extractions of
\* one reconcile, of what is observed and of what is desired, would differ for ever.  The
\* flight keeps its fetches in the order of the cache writes (sf.Do in getParserForGV).
ParserNeverGoesBack ==
    [][\A w \in Worker :
          LET old == lookup[w].parser
              new == lookup'[w].parser
          IN  old # None /\ new # None => new \in Reachable(old)]_vars

\* Whoever waits for a flight waits for one that a leader is on: flights that land, fail or
\* end with the context of their leader leave nobody behind (sf.Do in getParserForGV).
NobodyStranded ==
    \A w \in Worker : lookup[w].pc = "wait" =>
        \E v \in Worker : flight[Wants[w]] = v /\ lookup[v].pc = "lead"

\* What a worker finds in the cache or has fetched itself is no older than the schema that it
\* has discovered, whoever wrote to the cache in between: an entry may be newer than its ETag
\* and never older ("invalidate stale entries" in getParserForGV).  A worker that joins the
\* flight of another is not promised that: the leader may have fetched before the upgrade.
AnswersAreFresh ==
    [][\A w \in Worker :
          lookup[w].pc \in {"invalidated", "lead"} /\ lookup'[w].pc = "done" =>
              lookup'[w].parser \in Reachable(lookup[w].paths[Wants[w]])]_vars
=============================================================================
