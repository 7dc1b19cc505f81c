------------------------------ MODULE Connections ------------------------------
(***************************************************************************)
(* How the workers of Objects that share a ProviderConfig connect to its   *)
(* cluster and share what outlives a reconcile: a reconcile resolves the   *)
(* ProviderConfig (Connect of internal/controller/namespaced/object/       *)
(* object.go), builds a client for it (ClientBuilder), whose token source  *)
(* comes from a store (SourceStore), and extracts fields with the parsers  *)
(* of the cluster (ParserCache), once for what it observes and once for    *)
(* what it desires.  The ProviderConfig is edited meanwhile, schemas       *)
(* change, calls fail, the process restarts.                               *)
(***************************************************************************)
EXTENDS ClientBuilder, Naturals, FiniteSets

CONSTANTS
    Worker, GroupVersion, Wants, Schema, Upgrade,  \* of ParserCache
    RefreshToken, Credentials,                     \* of SourceStore
    None,
    KeyOf,      \* KeyOf[pc]: the key that the ProviderConfig pc has in its store, or None
    Specs,      \* the specs of the ProviderConfig users choose from
    MaxFaults   \* bound: edits, schema changes, failed calls and restarts

VARIABLES
    config,    \* the spec of the ProviderConfig
    held,      \* held[w]: the spec that the reconcile of w has resolved, or None
    sources, clients, caller,        \* of SourceStore
    served, store, flight, lookup,   \* of ParserCache
    faults

Sources == INSTANCE SourceStore WITH failures <- faults, MaxFailures <- MaxFaults
Parsers == INSTANCE ParserCache WITH changes <- faults, MaxChanges <- MaxFaults

ASSUME ConnectionsAssumption ==
    /\ Sources!StoreConstants
    /\ Parsers!ParserConstants
    /\ None \notin Specs
    /\ Specs \subseteq ProviderConfigSpec
    /\ KeyOf \in [Specs -> Sources!Key \cup {None}]
    /\ \A pc \in Specs : KeyOf[pc] \in RefreshToken <=> NeedsRefreshToken(pc)
    /\ \A pc \in Specs : KeyOf[pc] \in Credentials <=> NeedsNebius(pc)

sourceVars == <<sources, clients, caller>>
parserVars == <<served, store, flight, lookup>>
vars == <<config, held, sources, clients, caller, served, store, flight, lookup, faults>>

TypeOK ==
    /\ config \in Specs
    /\ held \in [Worker -> Specs \cup {None}]
    /\ Sources!TypeOK
    /\ Parsers!TypeOK
    /\ faults \in 0..MaxFaults

Init ==
    /\ config \in Specs
    /\ held = [w \in Worker |-> None]
    /\ Sources!Init
    /\ Parsers!Init

-----------------------------------------------------------------------------
Accepted(pc) == RestForProviderConfig(pc).status = "ok"

\* resolveProviderConfig and restForProviderConfig: a spec that is refused ends the reconcile.
Resolve(w) ==
    /\ held[w] = None
    /\ Accepted(config)
    /\ held' = [held EXCEPT ![w] = config]
    /\ UNCHANGED <<config, sourceVars, parserVars, faults>>

\* The client of w has what signs its requests.
Connected(w) == held[w] # None /\ (KeyOf[held[w]] = None \/ caller[w].pc = "has")

\* KubeForProviderConfig takes the token source of the identity from its store.
TakeSource(w) ==
    /\ held[w] # None /\ KeyOf[held[w]] # None
    /\ \/ Sources!Find(w, KeyOf[held[w]])
       \/ Sources!SourceForRefreshToken(w)
       \/ Sources!SourceForCredentials(w)
    /\ UNCHANGED <<config, held, parserVars>>

\* The syncer extracts, once or twice.
Extract(w) ==
    /\ Connected(w)
    /\ \/ Parsers!Discover(w) \/ Parsers!Invalidate(w) \/ Parsers!NotDiscovered(w)
       \/ Parsers!FindCached(w) \/ Parsers!TakeFlight(w) \/ Parsers!Fetch(w) \/ Parsers!Land(w)
    /\ UNCHANGED <<config, held, sourceVars>>

\* The end of the reconcile.
Finish(w) ==
    /\ Parsers!Return(w)
    /\ held' = [held EXCEPT ![w] = None]
    /\ IF caller[w].pc = "has" THEN Sources!Release(w) ELSE UNCHANGED sourceVars
    /\ UNCHANGED config

Reconcile(w) == Resolve(w) \/ TakeSource(w) \/ Extract(w) \/ Finish(w)

\* The client cannot be built, or the leader of a flight gets no answer.
CallFails(w) ==
    \/ /\ Sources!BuildFails(w)
       /\ held' = [held EXCEPT ![w] = None]
       /\ UNCHANGED <<config, parserVars>>
    \/ Parsers!FetchFails(w) /\ UNCHANGED <<config, held, sourceVars>>

EditConfig ==
    /\ Sources!Failure
    /\ config' \in Specs \ {config}
    /\ UNCHANGED <<held, sourceVars, parserVars>>

SchemaChanges(g) == Parsers!SchemaChanges(g) /\ UNCHANGED <<config, held, sourceVars>>

Restart ==
    /\ held' = [w \in Worker |-> None]
    /\ Sources!Restart /\ Parsers!Restart
    /\ UNCHANGED config

Next ==
    \/ \E w \in Worker : Reconcile(w) \/ CallFails(w)
    \/ \E g \in GroupVersion : SchemaChanges(g)
    \/ EditConfig \/ Restart

Spec == Init /\ [][Next]_vars

\* Objects are reconciled over and over.
Fairness == \A w \in Worker : WF_vars(Reconcile(w))

FairSpec == Spec /\ Fairness
-----------------------------------------------------------------------------
(* Properties *)

\* Concurrent reconciles for one set of Nebius credentials work as if there was one step that
\* finds or makes their client: none is made twice and leaked (SourceForCredentials).
StoreIsAtomic == Sources!StoreIsAtomic

\* Therefore every client of Nebius that runs is the one in the store, and all who have a client
\* for the credentials have that one, failed builds and restarts included.
OneClientPerCredentials == Sources!OneClientPerCredentials

\* Workers with one refresh token end up with one source, though the store may take a source
\* of each at first (SourceForRefreshToken checks and stores in two steps).
SourcesConverge ==
    \A k \in RefreshToken :
        <>[](\A w \in Worker : caller[w].pc = "has" /\ caller[w].key = k =>
                                   caller[w].source = sources[k])

\* The two extractions of a reconcile never go from a newer schema to an older one.
ParserNeverGoesBack == Parsers!ParserNeverGoesBack

\* And no reconcile waits for a parser that nobody is fetching any more, though the leader of
\* the flight fails and what it fetches changes or goes.
NobodyStranded == Parsers!NobodyStranded

\* Nor is a parser from the cache, or one that a worker has fetched for itself, older than the
\* schema that its lookup has discovered (getParserForGV).
AnswersAreFresh == Parsers!AnswersAreFresh

\* When the schemas and the ProviderConfig stay as they are, extractions end up with the
\* schema that is served, for all the edits, races and failures before.
ParsersConverge ==
    \A w \in Worker :
        <>[](Accepted(config) /\ served[Wants[w]] # None) =>
            <>[](lookup[w].parser = served[Wants[w]])
=============================================================================
