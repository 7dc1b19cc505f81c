-------------------------- MODULE Connections_proofs --------------------------
(***************************************************************************)
(* Theorems about Connections, for every set of workers, schemas and       *)
(* credentials.  Every step of it is a step of each of its components or   *)
(* leaves that one alone, so what is proved of the parser cache and of the *)
(* stores holds of them together.                                          *)
(***************************************************************************)
EXTENDS Connections, TLAPS

-----------------------------------------------------------------------------
(* The components *)

\* A step of a connection is one of the parser cache, or leaves it alone.
LEMMA ParserSteps == ASSUME [Next]_vars PROVE [Parsers!Next]_(Parsers!vars)
  <1>1. ASSUME NEW w \in Worker, Reconcile(w) PROVE [Parsers!Next]_(Parsers!vars)
    <2>1. CASE Resolve(w)
      BY <2>1 DEF Resolve, parserVars, Parsers!vars
    <2>2. CASE TakeSource(w)
      BY <2>2 DEF TakeSource, parserVars, Parsers!vars
    <2>3. CASE Extract(w)
      BY <2>3 DEF Extract, Parsers!Next, Parsers!Lookup
    <2>4. CASE Finish(w)
      BY <2>4 DEF Finish, Parsers!Next, Parsers!Lookup
    <2> QED BY <1>1, <2>1, <2>2, <2>3, <2>4 DEF Reconcile
  <1>2. ASSUME NEW w \in Worker, CallFails(w) PROVE [Parsers!Next]_(Parsers!vars)
    BY <1>2 DEF CallFails, parserVars, Parsers!vars, Parsers!Next
  <1>3. ASSUME NEW g \in GroupVersion, SchemaChanges(g) PROVE [Parsers!Next]_(Parsers!vars)
    BY <1>3 DEF SchemaChanges, Parsers!Next
  <1>4. EditConfig => [Parsers!Next]_(Parsers!vars)
    BY DEF EditConfig, parserVars, Parsers!vars
  <1>5. Restart => [Parsers!Next]_(Parsers!vars)
    BY DEF Restart, Parsers!Next
  <1>6. UNCHANGED vars => [Parsers!Next]_(Parsers!vars)
    BY DEF vars, Parsers!vars
  <1> QED BY <1>1, <1>2, <1>3, <1>4, <1>5, <1>6 DEF Next

\* And one of the stores, or leaves them alone.
LEMMA SourceSteps ==
    ASSUME TypeOK, [Next]_vars
    PROVE  [Sources!Next]_(Sources!vars)
  <1>1. ASSUME NEW w \in Worker, Reconcile(w) PROVE [Sources!Next]_(Sources!vars)
    <2>1. CASE Resolve(w)
      BY <2>1 DEF Resolve, sourceVars, Sources!vars
    <2>2. CASE TakeSource(w)
      <3>1. CASE Sources!Find(w, KeyOf[held[w]])
        <4>1. held[w] \in Specs
          BY <2>2 DEF TakeSource, TypeOK
        <4>2. KeyOf[held[w]] \in Sources!Key
          BY <4>1, <2>2, ConnectionsAssumption DEF TakeSource
        <4> QED BY <3>1, <4>2 DEF Sources!Next
      <3> QED BY <2>2, <3>1 DEF TakeSource, Sources!Next
    <2>3. CASE Extract(w)
      BY <2>3 DEF Extract, sourceVars, Sources!vars
    <2>4. CASE Finish(w)
      BY <2>4 DEF Finish, Sources!Next, sourceVars, Sources!vars
    <2> QED BY <1>1, <2>1, <2>2, <2>3, <2>4 DEF Reconcile
  <1>2. ASSUME NEW w \in Worker, CallFails(w) PROVE [Sources!Next]_(Sources!vars)
    BY <1>2 DEF CallFails, sourceVars, Sources!vars, Sources!Next
  <1>3. ASSUME NEW g \in GroupVersion, SchemaChanges(g) PROVE [Sources!Next]_(Sources!vars)
    BY <1>3 DEF SchemaChanges, sourceVars, Sources!vars
  <1>4. EditConfig => [Sources!Next]_(Sources!vars)
    BY DEF EditConfig, sourceVars, Sources!vars
  <1>5. Restart => [Sources!Next]_(Sources!vars)
    BY DEF Restart, Sources!Next
  <1>6. UNCHANGED vars => [Sources!Next]_(Sources!vars)
    BY DEF vars, Sources!vars
  <1> QED BY <1>1, <1>2, <1>3, <1>4, <1>5, <1>6 DEF Next

-----------------------------------------------------------------------------
(* Types *)

\* The type invariant of the stores holds on.
LEMMA SourceTypes ==
    ASSUME Sources!TypeOK, [Sources!Next]_(Sources!vars)
    PROVE  Sources!TypeOK'
  <1> USE DEF Sources!TypeOK, Sources!CallerRecord, Sources!Key
  <1>1. ASSUME NEW w \in Worker, NEW k \in Sources!Key, Sources!Find(w, k)
        PROVE  Sources!TypeOK'
    BY <1>1 DEF Sources!Find, Sources!Found, Sources!Answer
  <1>2. ASSUME NEW w \in Worker, Sources!SourceForRefreshToken(w) PROVE Sources!TypeOK'
    BY <1>2 DEF Sources!SourceForRefreshToken, Sources!StoreSource, Sources!Answer
  <1>3. ASSUME NEW w \in Worker, Sources!SourceForCredentials(w) PROVE Sources!TypeOK'
    BY <1>3 DEF Sources!SourceForCredentials, Sources!FoundAgain, Sources!StoreSource,
       Sources!Answer
  <1>4. ASSUME NEW w \in Worker, Sources!BuildFails(w) PROVE Sources!TypeOK'
    BY <1>4 DEF Sources!BuildFails, Sources!NoCall
  <1>5. ASSUME NEW w \in Worker, Sources!Release(w) PROVE Sources!TypeOK'
    BY <1>5 DEF Sources!Release, Sources!NoCall
  <1>6. Sources!Restart => Sources!TypeOK'
    BY DEF Sources!Restart, Sources!NoCall
  <1>7. UNCHANGED Sources!vars => Sources!TypeOK'
    BY DEF Sources!vars
  <1> QED BY <1>1, <1>2, <1>3, <1>4, <1>5, <1>6, <1>7 DEF Sources!Next

\* A lookup ends with a record of the right type.
LEMMA LookupType ==
    ASSUME Parsers!TypeOK, NEW w \in Worker, NEW p \in Schema \cup {None}
    PROVE  /\ Parsers!Answered(w, p) \in Parsers!LookupRecord
           /\ Parsers!Failed(w) \in Parsers!LookupRecord
           /\ Parsers!Answered(w, p).pc = "done" /\ Parsers!Failed(w).pc = "failed"
           /\ Parsers!Answered(w, p).parser = p
           /\ Parsers!Failed(w).parser = lookup[w].parser
           /\ Parsers!Answered(w, p).fetched = None /\ Parsers!Failed(w).fetched = None
  <1>1. lookup[w] \in Parsers!LookupRecord
    BY DEF Parsers!TypeOK
  <1>2. Parsers!NoPaths \in [GroupVersion -> Schema \cup {None}]
    BY DEF Parsers!NoPaths
  <1> QED
    BY <1>1, <1>2 DEF Parsers!LookupRecord, Parsers!Answered, Parsers!Failed

\* The end of a flight takes its leader and its passengers off it.
LEMMA FlightEnds ==
    ASSUME Parsers!TypeOK, NEW w \in Worker, lookup[w].pc = "lead",
           flight' = [flight EXCEPT ![Wants[w]] = None],
           NEW f \in [Worker -> Parsers!LookupRecord],
           \A v \in Parsers!Passengers(w) : f[v].pc \in {"done", "failed"},
           lookup' = [v \in Worker |-> IF v \in Parsers!Passengers(w) THEN f[v] ELSE lookup[v]]
    PROVE  /\ flight' \in [GroupVersion -> Worker \cup {None}]
           /\ lookup' \in [Worker -> Parsers!LookupRecord]
           /\ \A g \in GroupVersion, v \in Worker :
                 flight'[g] = v <=> lookup'[v].pc = "lead" /\ Wants[v] = g
  <1> USE ConnectionsAssumption DEF Parsers!ParserConstants
  <1>1. /\ flight' \in [GroupVersion -> Worker \cup {None}]
        /\ lookup' \in [Worker -> Parsers!LookupRecord]
    BY DEF Parsers!TypeOK
  <1>2. ASSUME NEW g \in GroupVersion, NEW v \in Worker
        PROVE  flight'[g] = v <=> lookup'[v].pc = "lead" /\ Wants[v] = g
    <2>1. CASE g = Wants[w]
      <3>1. flight'[g] = None /\ flight[g] = w
        BY <2>1 DEF Parsers!TypeOK
      <3>2. lookup[v].pc = "lead" /\ Wants[v] = g => v = w
        BY <2>1, <3>1 DEF Parsers!TypeOK
      <3>3. v = w => lookup'[v].pc # "lead"
        BY DEF Parsers!Passengers
      <3>4. lookup'[v].pc = "lead" => lookup[v].pc = "lead"
        OBVIOUS
      <3> QED BY <3>1, <3>2, <3>3, <3>4
    <2>2. CASE g # Wants[w]
      <3>1. flight'[g] = flight[g]
        BY <2>2 DEF Parsers!TypeOK
      <3>2. Wants[v] = g => lookup'[v] = lookup[v]
        BY <2>2 DEF Parsers!Passengers
      <3> QED BY <3>1, <3>2 DEF Parsers!TypeOK
    <2> QED BY <2>1, <2>2
  <1> QED BY <1>1, <1>2

\* The type invariant of the parser cache holds on.
LEMMA ParserTypes ==
    ASSUME Parsers!TypeOK, [Parsers!Next]_(Parsers!vars)
    PROVE  Parsers!TypeOK'
  <1> USE ConnectionsAssumption DEF Parsers!ParserConstants
  <1>n. Parsers!NoPaths \in [GroupVersion -> Schema \cup {None}]
    BY DEF Parsers!NoPaths
  <1>l. Parsers!NoLookup \in Parsers!LookupRecord /\ Parsers!NoLookup.pc = "idle"
    BY <1>n DEF Parsers!NoLookup, Parsers!LookupRecord
  <1>e. Parsers!NoEntry \in Parsers!EntryRecord
    BY DEF Parsers!NoEntry, Parsers!EntryRecord
  \* A step that takes one worker from a place off the flight to another.
  <1>s. ASSUME NEW w \in Worker, NEW r \in Parsers!LookupRecord,
               lookup[w].pc # "lead", r.pc # "lead",
               lookup' = [lookup EXCEPT ![w] = r], UNCHANGED <<served, flight>>,
               store' \in [GroupVersion -> Parsers!EntryRecord]
        PROVE  Parsers!TypeOK'
    BY <1>s DEF Parsers!TypeOK
  \* A flight that fails.
  <1>f. ASSUME NEW w \in Worker, lookup[w].pc = "lead", Parsers!FlightFails(w),
               UNCHANGED <<served, store>>
        PROVE  Parsers!TypeOK'
    <2> DEFINE f == [v \in Worker |-> Parsers!Failed(v)]
    <2>1. f \in [Worker -> Parsers!LookupRecord] /\ \A v \in Worker : f[v].pc = "failed"
      BY LookupType
    <2>2. lookup' = [v \in Worker |-> IF v \in Parsers!Passengers(w) THEN f[v] ELSE lookup[v]]
      BY <1>f DEF Parsers!FlightFails
    <2>3. \A v \in Parsers!Passengers(w) : f[v].pc \in {"done", "failed"}
      BY <2>1 DEF Parsers!Passengers
    <2> HIDE DEF f
    <2> QED BY <1>f, <2>1, <2>2, <2>3, FlightEnds DEF Parsers!FlightFails, Parsers!TypeOK
  <1>1. ASSUME NEW w \in Worker, Parsers!Lookup(w) PROVE Parsers!TypeOK'
    <2>w. lookup[w] \in Parsers!LookupRecord
      BY DEF Parsers!TypeOK
    <2>1. CASE Parsers!Discover(w)
      <3>1. served \in [GroupVersion -> Schema \cup {None}] /\ lookup[w].turn + 1 \in 0..2
        BY <2>1, <2>w DEF Parsers!Discover, Parsers!LookupRecord, Parsers!TypeOK
      <3>2. Parsers!Begun(w) \in Parsers!LookupRecord /\ Parsers!Begun(w).pc = "discovered"
        BY <2>w, <3>1 DEF Parsers!Begun, Parsers!LookupRecord
      <3> QED BY <2>1, <3>2, <1>s DEF Parsers!Discover, Parsers!TypeOK
    <2>2. CASE Parsers!Invalidate(w)
      <3> DEFINE r == [lookup[w] EXCEPT !.pc = "invalidated"]
      <3>1. r \in Parsers!LookupRecord /\ r.pc = "invalidated"
        BY <2>w DEF Parsers!LookupRecord
      <3>2. lookup' = [lookup EXCEPT ![w] = r]
        BY <2>2 DEF Parsers!Invalidate, Parsers!Goto
      <3>3. store' \in [GroupVersion -> Parsers!EntryRecord]
        BY <2>2, <1>e DEF Parsers!Invalidate, Parsers!Kept, Parsers!TypeOK
      <3> QED BY <2>2, <3>1, <3>2, <3>3, <1>s DEF Parsers!Invalidate
    <2>3. CASE Parsers!NotDiscovered(w)
      BY <2>3, LookupType, <1>s DEF Parsers!NotDiscovered, Parsers!TypeOK
    <2>4. CASE Parsers!FindCached(w)
      <3>1. store[Wants[w]].parser \in Schema \cup {None}
        BY DEF Parsers!TypeOK, Parsers!EntryRecord
      <3> QED BY <2>4, <3>1, LookupType, <1>s DEF Parsers!FindCached, Parsers!TypeOK
    <2>5. CASE Parsers!TakeFlight(w)
      <3>1. CASE flight[Wants[w]] = None
        <4> DEFINE r == [lookup[w] EXCEPT !.pc = "lead"]
        <4>0. lookup' = [lookup EXCEPT ![w] = r]
          BY <2>5, <3>1 DEF Parsers!TakeFlight, Parsers!Goto
        <4>r. r \in Parsers!LookupRecord /\ r.pc = "lead"
          BY <2>w DEF Parsers!LookupRecord
        <4> HIDE DEF r
        <4>1. lookup' \in [Worker -> Parsers!LookupRecord]
          BY <4>0, <4>r DEF Parsers!TypeOK
        <4>2. \A v \in Worker : lookup'[v].pc = "lead" <=> lookup[v].pc = "lead" \/ v = w
          BY <4>0, <4>r DEF Parsers!TypeOK
        <4>3. lookup[w].pc # "lead"
          BY <2>5 DEF Parsers!TakeFlight
        <4>4. \A g \in GroupVersion, v \in Worker :
                 flight'[g] = v <=> lookup'[v].pc = "lead" /\ Wants[v] = g
          BY <2>5, <3>1, <4>2, <4>3 DEF Parsers!TakeFlight, Parsers!TypeOK
        <4> QED BY <2>5, <3>1, <4>1, <4>4 DEF Parsers!TakeFlight, Parsers!TypeOK
      <3>2. CASE flight[Wants[w]] # None
        <4> DEFINE r == [lookup[w] EXCEPT !.pc = "wait"]
        <4>1. r \in Parsers!LookupRecord /\ r.pc = "wait"
          BY <2>w DEF Parsers!LookupRecord
        <4>2. lookup' = [lookup EXCEPT ![w] = r] /\ UNCHANGED flight
          BY <2>5, <3>2 DEF Parsers!TakeFlight, Parsers!Goto
        <4> QED BY <2>5, <4>1, <4>2, <1>s DEF Parsers!TakeFlight, Parsers!TypeOK
      <3> QED BY <3>1, <3>2
    <2>6. CASE Parsers!Fetch(w)
      <3>1. CASE Parsers!Document(w) # None
        <4>1. lookup' \in [Worker -> Parsers!LookupRecord]
          BY <2>6, <3>1, <2>w DEF Parsers!Fetch, Parsers!Document, Parsers!TypeOK,
             Parsers!LookupRecord
        <4>2. \A v \in Worker : lookup'[v].pc = lookup[v].pc
          BY <2>6, <3>1, <2>w DEF Parsers!Fetch, Parsers!TypeOK, Parsers!LookupRecord
        <4> QED BY <2>6, <3>1, <4>1, <4>2 DEF Parsers!Fetch, Parsers!TypeOK
      <3>2. CASE Parsers!Document(w) = None
        BY <2>6, <3>2, <1>f DEF Parsers!Fetch, Parsers!TypeOK
      <3> QED BY <3>1, <3>2
    <2>7. CASE Parsers!Land(w)
      <3>1. lookup[w].fetched \in Schema \cup {None} /\ lookup[w].paths[Wants[w]] \in Schema \cup {None}
        BY <2>w DEF Parsers!LookupRecord
      <3>2. store' \in [GroupVersion -> Parsers!EntryRecord]
        BY <2>7, <3>1 DEF Parsers!Land, Parsers!EntryRecord, Parsers!TypeOK
      <3> DEFINE f == [v \in Worker |-> Parsers!Answered(v, lookup[w].fetched)]
      <3>3. f \in [Worker -> Parsers!LookupRecord] /\ \A v \in Worker : f[v].pc = "done"
        BY <3>1, LookupType
      <3>4. lookup' = [v \in Worker |-> IF v \in Parsers!Passengers(w) THEN f[v] ELSE lookup[v]]
        BY <2>7 DEF Parsers!Land, Parsers!Landed
      <3>5. \A v \in Parsers!Passengers(w) : f[v].pc \in {"done", "failed"}
        BY <3>3 DEF Parsers!Passengers
      <3> HIDE DEF f
      <3> QED BY <2>7, <3>2, <3>3, <3>4, <3>5, FlightEnds DEF Parsers!Land, Parsers!TypeOK
    <2>8. CASE Parsers!Return(w)
      <3> DEFINE r == [lookup[w] EXCEPT !.pc = "idle", !.turn = 0]
      <3>1. r \in Parsers!LookupRecord /\ r.pc = "idle"
        BY <2>w, 0 \in 0..2 DEF Parsers!LookupRecord
      <3>2. lookup' = [lookup EXCEPT ![w] = r] /\ lookup[w].pc # "lead"
        BY <2>8 DEF Parsers!Return
      <3> QED BY <2>8, <3>1, <3>2, <1>s DEF Parsers!Return, Parsers!TypeOK
    <2> QED BY <1>1, <2>1, <2>2, <2>3, <2>4, <2>5, <2>6, <2>7, <2>8 DEF Parsers!Lookup
  <1>2. ASSUME NEW w \in Worker, Parsers!FetchFails(w) PROVE Parsers!TypeOK'
    BY <1>2, <1>f DEF Parsers!FetchFails, Parsers!TypeOK
  <1>3. ASSUME NEW g \in GroupVersion, Parsers!SchemaChanges(g) PROVE Parsers!TypeOK'
    BY <1>3 DEF Parsers!SchemaChanges, Parsers!TypeOK
  <1>4. Parsers!Restart => Parsers!TypeOK'
    BY <1>l, <1>e DEF Parsers!Restart, Parsers!TypeOK
  <1>5. UNCHANGED Parsers!vars => Parsers!TypeOK'
    BY DEF Parsers!vars, Parsers!TypeOK
  <1> QED BY <1>1, <1>2, <1>3, <1>4, <1>5 DEF Parsers!Next

\* Accepting or resolving a spec keeps to the specs there are.
LEMMA ConfigTypes ==
    ASSUME config \in Specs, held \in [Worker -> Specs \cup {None}], faults \in 0..MaxFaults,
           [Next]_vars
    PROVE  config' \in Specs /\ held' \in [Worker -> Specs \cup {None}] /\ faults' \in 0..MaxFaults
  <1> USE ConnectionsAssumption DEF Parsers!ParserConstants
  <1>c. ASSUME faults < MaxFaults, faults' = faults + 1 PROVE faults' \in 0..MaxFaults
    BY <1>c
  <1>1. ASSUME NEW w \in Worker, Reconcile(w)
        PROVE  UNCHANGED <<config, faults>> /\ held' \in [Worker -> Specs \cup {None}]
    <2>1. CASE Resolve(w)
      BY <2>1 DEF Resolve
    <2>2. CASE TakeSource(w)
      BY <2>2 DEF TakeSource, Sources!Find, Sources!SourceForRefreshToken,
         Sources!SourceForCredentials
    <2>3. CASE Extract(w)
      BY <2>3 DEF Extract, Parsers!Discover, Parsers!Invalidate, Parsers!NotDiscovered,
         Parsers!FindCached, Parsers!TakeFlight, Parsers!Fetch, Parsers!Land
    <2>4. CASE Finish(w)
      BY <2>4 DEF Finish, Parsers!Return
    <2> QED BY <1>1, <2>1, <2>2, <2>3, <2>4 DEF Reconcile
  <1>2. ASSUME NEW w \in Worker, CallFails(w)
        PROVE  /\ config' = config /\ held' \in [Worker -> Specs \cup {None}]
               /\ faults' \in 0..MaxFaults
    BY <1>2, <1>c DEF CallFails, Sources!BuildFails, Sources!Failure, Parsers!FetchFails,
       Parsers!Change
  <1>3. ASSUME NEW g \in GroupVersion, SchemaChanges(g)
        PROVE  UNCHANGED <<config, held>> /\ faults' \in 0..MaxFaults
    BY <1>3, <1>c DEF SchemaChanges, Parsers!SchemaChanges, Parsers!Change
  <1>4. EditConfig => config' \in Specs /\ UNCHANGED held /\ faults' \in 0..MaxFaults
    BY <1>c DEF EditConfig, Sources!Failure
  <1>5. Restart => /\ config' = config /\ held' \in [Worker -> Specs \cup {None}]
                   /\ faults' \in 0..MaxFaults
    BY <1>c DEF Restart, Sources!Restart, Sources!Failure
  <1> QED BY <1>1, <1>2, <1>3, <1>4, <1>5 DEF Next, vars

\* The type invariant of the composition.
THEOREM TypeCorrect == Spec => []TypeOK
  <1> USE ConnectionsAssumption
  <1>1. Init => TypeOK
    <2>1. Sources!Init => Sources!TypeOK
      BY DEF Sources!Init, Sources!TypeOK, Sources!NoCall, Sources!CallerRecord, Sources!Key
    <2>2. Parsers!NoPaths \in [GroupVersion -> Schema \cup {None}]
      BY DEF Parsers!NoPaths
    <2>3. Parsers!NoLookup \in Parsers!LookupRecord /\ Parsers!NoLookup.pc = "idle"
      BY <2>2 DEF Parsers!NoLookup, Parsers!LookupRecord
    <2>4. Parsers!Init => Parsers!TypeOK
      BY <2>3 DEF Parsers!Init, Parsers!TypeOK, Parsers!NoEntry, Parsers!EntryRecord,
         Parsers!ParserConstants
    <2>5. Parsers!Init => faults \in 0..MaxFaults
      BY DEF Parsers!Init, Parsers!ParserConstants
    <2> QED BY <2>1, <2>4, <2>5 DEF Init, TypeOK
  <1>2. TypeOK /\ [Next]_vars => TypeOK'
    BY SourceTypes, ParserTypes, ConfigTypes, ParserSteps, SourceSteps DEF TypeOK
  <1> QED BY <1>1, <1>2, PTL DEF Spec

-----------------------------------------------------------------------------
(* The order of schemas *)

Schemas == Schema \cup {None}
Leads(s, t) == t \in Parsers!Reachable(s)

\* The schemas of one group version come in an order: that of the upgrades.
LEMMA SchemaOrder ==
    /\ \A s \in Schemas : Leads(s, s)
    /\ \A s, t, u \in Schemas : Leads(s, t) /\ Leads(t, u) => Leads(s, u)
    /\ \A s, t \in Schemas : <<s, t>> \in Upgrade => Leads(s, t)
  BY DEF Schemas, Leads, Parsers!Reachable

\* What is served follows what was served.
LEMMA UpgradesLead ==
    ASSUME Parsers!TypeOK, NEW g \in GroupVersion, Parsers!SchemaChanges(g)
    PROVE  \A h \in GroupVersion : Leads(served[h], served'[h])
  <1>1. PICK u \in Upgrade : u[1] = served[g] /\ served' = [served EXCEPT ![g] = u[2]]
    BY DEF Parsers!SchemaChanges
  <1>2. u = <<served[g], u[2]>> /\ u[2] \in Schemas /\ served[g] \in Schemas
    BY <1>1, ConnectionsAssumption DEF Parsers!ParserConstants, Schemas, Parsers!TypeOK
  <1>3. Leads(served[g], served'[g])
    BY <1>1, <1>2, SchemaOrder DEF Parsers!TypeOK
  <1>4. \A h \in GroupVersion : h # g => served'[h] = served[h]
    BY <1>1 DEF Parsers!TypeOK
  <1> QED BY <1>3, <1>4, SchemaOrder DEF Parsers!TypeOK, Schemas

\* What v was last told to extract with; what is in the cache; what a flight will bring.
Told(v, s)    == s # None /\ s = lookup[v].parser
Cached(g, s)  == s # None /\ s = store[g].parser
Brought(w, s) == s # None /\ s = lookup[w].fetched

\* Each of the three leads to the next one, and the last one to what is served.
TellsInOrder ==
    \A v \in Worker, s \in Schemas : Told(v, s) =>
        /\ Leads(s, served[Wants[v]])
        /\ \A t \in Schemas : Cached(Wants[v], t) => Leads(s, t)
        /\ \A w \in Worker, t \in Schemas :
              Brought(w, t) /\ Wants[w] = Wants[v] => Leads(s, t)

CachesInOrder ==
    \A g \in GroupVersion, s \in Schemas : Cached(g, s) =>
        /\ Leads(s, served[g])
        /\ \A w \in Worker, t \in Schemas : Brought(w, t) /\ Wants[w] = g => Leads(s, t)

BringsInOrder ==
    \A w \in Worker, s \in Schemas : Brought(w, s) =>
        lookup[w].pc = "lead" /\ Leads(s, served[Wants[w]])

InOrder == TellsInOrder /\ CachesInOrder /\ BringsInOrder

\* No worker goes back in a step.
NoStepBack ==
    \A w \in Worker :
        lookup[w].parser # None /\ lookup'[w].parser # None =>
            Leads(lookup[w].parser, lookup'[w].parser)

\* A step that tells nobody anything new, caches and brings nothing new keeps the order.
LEMMA NothingNew ==
    ASSUME Parsers!TypeOK, Parsers!TypeOK', InOrder,
           \A g \in GroupVersion : Leads(served[g], served'[g]),
           \A w \in Worker : lookup'[w].parser \in {None, lookup[w].parser},
           \A g \in GroupVersion : store'[g].parser \in {None, store[g].parser},
           \A w \in Worker :
              \/ lookup'[w].fetched = None
              \/ lookup'[w].fetched = lookup[w].fetched /\ lookup'[w].pc = lookup[w].pc
    PROVE  InOrder' /\ NoStepBack
  <1> USE ConnectionsAssumption DEF Parsers!ParserConstants
  <1>1. \A g \in GroupVersion : served[g] \in Schemas /\ served'[g] \in Schemas
    BY DEF Parsers!TypeOK, Schemas
  <1>2. /\ \A v \in Worker, s \in Schemas : Told(v, s)' => Told(v, s)
        /\ \A g \in GroupVersion, s \in Schemas : Cached(g, s)' => Cached(g, s)
        /\ \A w \in Worker, s \in Schemas :
              Brought(w, s)' => Brought(w, s) /\ lookup'[w].pc = lookup[w].pc
    BY DEF Told, Cached, Brought
  <1>3. \A g \in GroupVersion, s \in Schemas : Leads(s, served[g]) => Leads(s, served'[g])
    BY <1>1, SchemaOrder
  <1>4. \A w \in Worker : Wants[w] \in GroupVersion
    OBVIOUS
  <1>5. TellsInOrder' /\ CachesInOrder' /\ BringsInOrder'
    BY <1>2, <1>3, <1>4 DEF InOrder, TellsInOrder, CachesInOrder, BringsInOrder
  <1>6. NoStepBack
    BY SchemaOrder DEF NoStepBack, Parsers!TypeOK, Parsers!LookupRecord, Schemas
  <1> QED BY <1>5, <1>6 DEF InOrder

\* A worker that finds a parser in the cache is not told an older one.
LEMMA HitInOrder ==
    ASSUME Parsers!TypeOK, Parsers!TypeOK', InOrder, NEW w \in Worker, Parsers!FindCached(w)
    PROVE  InOrder' /\ NoStepBack
  <1> USE ConnectionsAssumption DEF Parsers!ParserConstants
  <1> DEFINE c == store[Wants[w]].parser
  <1>1. c \in Schemas
    BY DEF Parsers!TypeOK, Parsers!EntryRecord, Schemas
  <1>2. /\ lookup' = [lookup EXCEPT ![w] = Parsers!Answered(w, c)]
        /\ UNCHANGED <<served, store>>
    BY DEF Parsers!FindCached
  <1>3. /\ lookup'[w].parser = c /\ lookup'[w].fetched = None
        /\ \A v \in Worker \ {w} : lookup'[v] = lookup[v]
    BY <1>1, <1>2, LookupType DEF Parsers!TypeOK, Schemas
  <1> HIDE DEF c
  <1>4. /\ \A v \in Worker, s \in Schemas :
              Told(v, s)' => Told(v, s) \/ (v = w /\ Cached(Wants[w], s))
        /\ \A g \in GroupVersion, s \in Schemas : Cached(g, s)' => Cached(g, s)
        /\ \A v \in Worker, s \in Schemas :
              Brought(v, s)' => Brought(v, s) /\ lookup'[v].pc = lookup[v].pc
    BY <1>2, <1>3 DEF Told, Cached, Brought, c
  <1>5. \A s, t \in Schemas : Cached(Wants[w], s) /\ Cached(Wants[w], t) => Leads(s, t)
    BY SchemaOrder DEF Cached
  <1>6. TellsInOrder' /\ CachesInOrder' /\ BringsInOrder'
    BY <1>2, <1>4, <1>5 DEF InOrder, TellsInOrder, CachesInOrder, BringsInOrder
  <1>7. ASSUME NEW v \in Worker, lookup[v].parser # None, lookup'[v].parser # None
        PROVE  Leads(lookup[v].parser, lookup'[v].parser)
    <2>1. lookup[v].parser \in Schemas
      BY DEF Parsers!TypeOK, Parsers!LookupRecord, Schemas
    <2>2. CASE v = w
      BY <1>1, <1>3, <1>7, <2>1, <2>2 DEF InOrder, TellsInOrder, Told, Cached, c
    <2>3. CASE v # w
      BY <1>3, <2>1, <2>3, SchemaOrder
    <2> QED BY <2>2, <2>3
  <1> QED BY <1>6, <1>7 DEF InOrder, NoStepBack

\* What a leader gets is what is served, so nobody has been told anything newer.
LEMMA FetchInOrder ==
    ASSUME Parsers!TypeOK, Parsers!TypeOK', InOrder, NEW w \in Worker,
           Parsers!Fetch(w), Parsers!Document(w) # None
    PROVE  InOrder' /\ NoStepBack
  <1> USE ConnectionsAssumption DEF Parsers!ParserConstants
  <1> DEFINE d == served[Wants[w]]
  <1>1. d \in Schemas
    BY DEF Parsers!TypeOK, Schemas
  <1>2. /\ lookup' = [lookup EXCEPT ![w].fetched = d]
        /\ UNCHANGED <<served, store>>
        /\ lookup[w].pc = "lead"
    BY DEF Parsers!Fetch, Parsers!Document
  <1>3. /\ lookup'[w].fetched = d
        /\ \A v \in Worker \ {w} : lookup'[v] = lookup[v]
        /\ \A v \in Worker : lookup'[v].pc = lookup[v].pc /\ lookup'[v].parser = lookup[v].parser
    BY <1>2 DEF Parsers!TypeOK, Parsers!LookupRecord
  <1> HIDE DEF d
  <1>4. /\ \A v \in Worker, s \in Schemas : Told(v, s)' => Told(v, s)
        /\ \A g \in GroupVersion, s \in Schemas : Cached(g, s)' => Cached(g, s)
        /\ \A v \in Worker, s \in Schemas :
              Brought(v, s)' => Brought(v, s) \/ (v = w /\ s = d)
    BY <1>2, <1>3 DEF Told, Cached, Brought
  <1>5. TellsInOrder' /\ CachesInOrder'
    BY <1>2, <1>4 DEF InOrder, TellsInOrder, CachesInOrder, d
  <1>6. BringsInOrder'
    BY <1>1, <1>2, <1>3, <1>4, SchemaOrder DEF InOrder, BringsInOrder, d
  <1>7. NoStepBack
    BY <1>3, SchemaOrder DEF NoStepBack, Parsers!TypeOK, Parsers!LookupRecord, Schemas
  <1> QED BY <1>5, <1>6, <1>7 DEF InOrder

\* A flight that lands tells its passengers what it stores, and is over.
LEMMA LandInOrder ==
    ASSUME Parsers!TypeOK, Parsers!TypeOK', InOrder, NEW w \in Worker, Parsers!Land(w)
    PROVE  InOrder' /\ NoStepBack
  <1> USE ConnectionsAssumption DEF Parsers!ParserConstants
  <1> DEFINE f == lookup[w].fetched
             g == Wants[w]
  <1>1. f \in Schemas /\ g \in GroupVersion /\ Brought(w, f) /\ lookup[w].pc = "lead"
    BY DEF Parsers!Land, Parsers!TypeOK, Parsers!LookupRecord, Schemas, Brought
  <1>2. /\ lookup' = Parsers!Landed(w)
        /\ UNCHANGED served
        /\ store'[g].parser = f
        /\ \A h \in GroupVersion \ {g} : store'[h] = store[h]
    BY DEF Parsers!Land, Parsers!TypeOK
  <1>3. ASSUME NEW v \in Worker
        PROVE  \/ Wants[v] = g /\ lookup'[v].parser = f /\ lookup'[v].fetched = None
               \/ v # w /\ lookup'[v] = lookup[v]
    BY <1>1, <1>2, LookupType DEF Parsers!Landed, Parsers!Passengers, Schemas
  <1>4. ASSUME NEW v \in Worker, NEW s \in Schemas, Brought(v, s)'
        PROVE  Brought(v, s) /\ lookup'[v].pc = lookup[v].pc /\ Wants[v] # g
    <2>1. v # w /\ lookup'[v] = lookup[v]
      BY <1>3, <1>4 DEF Brought
    <2>2. lookup[v].pc = "lead"
      BY <1>4, <2>1 DEF Brought, InOrder, BringsInOrder
    <2>3. Wants[v] # g
      BY <1>1, <2>1, <2>2 DEF Parsers!TypeOK
    <2> QED BY <1>4, <2>1, <2>3 DEF Brought
  <1> HIDE DEF f, g
  <1>5. /\ \A v \in Worker, s \in Schemas :
              Told(v, s)' => Told(v, s) \/ (Wants[v] = g /\ s = f)
        /\ \A h \in GroupVersion, s \in Schemas :
              Cached(h, s)' => (h # g /\ Cached(h, s)) \/ (h = g /\ s = f)
    BY <1>2, <1>3 DEF Told, Cached
  <1>6. Leads(f, f) /\ Leads(f, served[g]) /\ \A v \in Worker, s \in Schemas :
                                     Told(v, s) /\ Wants[v] = g => Leads(s, f)
    BY <1>1, SchemaOrder DEF InOrder, TellsInOrder, BringsInOrder, g
  <1>7. TellsInOrder'
    BY <1>2, <1>4, <1>5, <1>6 DEF InOrder, TellsInOrder
  <1>8. CachesInOrder' /\ BringsInOrder'
    BY <1>2, <1>4, <1>5, <1>6 DEF InOrder, CachesInOrder, BringsInOrder
  <1>9. ASSUME NEW v \in Worker, lookup[v].parser # None, lookup'[v].parser # None
        PROVE  Leads(lookup[v].parser, lookup'[v].parser)
    <2>1. lookup[v].parser \in Schemas
      BY DEF Parsers!TypeOK, Parsers!LookupRecord, Schemas
    <2>2. Told(v, lookup[v].parser)
      BY <1>9 DEF Told
    <2> QED BY <1>3, <1>6, <2>1, <2>2, SchemaOrder
  <1> QED BY <1>7, <1>8, <1>9 DEF InOrder, NoStepBack

\* Every step of the parser cache keeps the order.
LEMMA OrderKept ==
    ASSUME Parsers!TypeOK, Parsers!TypeOK', InOrder, [Parsers!Next]_(Parsers!vars)
    PROVE  InOrder' /\ NoStepBack
  <1> USE ConnectionsAssumption DEF Parsers!ParserConstants
  <1>s. \A g \in GroupVersion : served' = served => Leads(served[g], served'[g])
    BY SchemaOrder DEF Parsers!TypeOK, Schemas
  <1>l. \A w \in Worker : lookup[w] \in Parsers!LookupRecord
    BY DEF Parsers!TypeOK
  <1>f. ASSUME NEW w \in Worker, Parsers!FlightFails(w), UNCHANGED <<served, store>>
        PROVE  InOrder' /\ NoStepBack
    BY <1>f, <1>s, LookupType, NothingNew DEF Parsers!FlightFails
  <1>1. ASSUME NEW w \in Worker, Parsers!Lookup(w) PROVE InOrder' /\ NoStepBack
    <2>n. ASSUME NEW r, lookup' = [lookup EXCEPT ![w] = r],
                 r.parser = lookup[w].parser, r.fetched = None, UNCHANGED served,
                 \A g \in GroupVersion : store'[g].parser \in {None, store[g].parser}
          PROVE  InOrder' /\ NoStepBack
      <3>1. \A v \in Worker : v # w => lookup'[v] = lookup[v]
        BY <2>n DEF Parsers!TypeOK
      <3>2. lookup'[w] = r
        BY <2>n DEF Parsers!TypeOK
      <3> QED BY <2>n, <3>1, <3>2, <1>s, NothingNew
    <2>g. lookup[w].pc # "lead" => lookup[w].fetched = None
      <3>1. lookup[w].fetched \in Schemas
        BY <1>l DEF Parsers!LookupRecord, Schemas
      <3> QED BY <3>1 DEF InOrder, BringsInOrder, Brought
    <2>r. \A g \in GroupVersion : store[g].parser \in {None, store[g].parser}
      OBVIOUS
    <2>1. CASE Parsers!Discover(w)
      <3>1. Parsers!Begun(w).parser = lookup[w].parser /\ Parsers!Begun(w).fetched = lookup[w].fetched
        BY <1>l DEF Parsers!Begun, Parsers!LookupRecord
      <3> QED BY <2>1, <3>1, <2>g, <2>r, <2>n DEF Parsers!Discover
    <2>2. CASE Parsers!Invalidate(w)
      <3> DEFINE r == [lookup[w] EXCEPT !.pc = "invalidated"]
      <3>1. r.parser = lookup[w].parser /\ r.fetched = lookup[w].fetched
        BY <1>l DEF Parsers!LookupRecord
      <3>2. lookup' = [lookup EXCEPT ![w] = r] /\ UNCHANGED served /\ lookup[w].fetched = None
        BY <2>2, <2>g DEF Parsers!Invalidate, Parsers!Goto
      <3>3. \A g \in GroupVersion : store'[g].parser \in {None, store[g].parser}
        BY <2>2 DEF Parsers!Invalidate, Parsers!Kept, Parsers!NoEntry
      <3> HIDE DEF r
      <3> QED BY <3>1, <3>2, <3>3, <2>n
    <2>3. CASE Parsers!NotDiscovered(w)
      <3>1. Parsers!Failed(w).parser = lookup[w].parser /\ Parsers!Failed(w).fetched = None
        BY <1>l DEF Parsers!Failed, Parsers!LookupRecord
      <3> QED BY <2>3, <3>1, <2>r, <2>n DEF Parsers!NotDiscovered
    <2>4. CASE Parsers!FindCached(w)
      BY <2>4, HitInOrder
    <2>5. CASE Parsers!TakeFlight(w)
      <3>1. PICK pc \in {"lead", "wait"} : lookup' = [lookup EXCEPT ![w].pc = pc]
        BY <2>5 DEF Parsers!TakeFlight, Parsers!Goto
      <3> DEFINE r == [lookup[w] EXCEPT !.pc = pc]
      <3>2. r.parser = lookup[w].parser /\ r.fetched = lookup[w].fetched
        BY <1>l DEF Parsers!LookupRecord
      <3>3. lookup' = [lookup EXCEPT ![w] = r] /\ UNCHANGED <<served, store>>
            /\ lookup[w].fetched = None
        BY <2>5, <3>1, <2>g DEF Parsers!TakeFlight
      <3> HIDE DEF r
      <3> QED BY <3>2, <3>3, <2>r, <2>n
    <2>6. CASE Parsers!Fetch(w)
      BY <2>6, FetchInOrder, <1>f DEF Parsers!Fetch
    <2>7. CASE Parsers!Land(w)
      BY <2>7, LandInOrder
    <2>8. CASE Parsers!Return(w)
      <3> DEFINE r == [lookup[w] EXCEPT !.pc = "idle", !.turn = 0]
      <3>1. r.parser = lookup[w].parser /\ r.fetched = lookup[w].fetched
        BY <1>l DEF Parsers!LookupRecord
      <3>2. lookup' = [lookup EXCEPT ![w] = r] /\ UNCHANGED <<served, store>>
            /\ lookup[w].fetched = None
        BY <2>8, <2>g DEF Parsers!Return
      <3> HIDE DEF r
      <3> QED BY <3>1, <3>2, <2>r, <2>n
    <2> QED BY <1>1, <2>1, <2>2, <2>3, <2>4, <2>5, <2>6, <2>7, <2>8 DEF Parsers!Lookup
  <1>2. ASSUME NEW w \in Worker, Parsers!FetchFails(w) PROVE InOrder' /\ NoStepBack
    BY <1>2, <1>f DEF Parsers!FetchFails
  <1>3. ASSUME NEW g \in GroupVersion, Parsers!SchemaChanges(g) PROVE InOrder' /\ NoStepBack
    BY <1>3, UpgradesLead, NothingNew DEF Parsers!SchemaChanges
  <1>4. CASE Parsers!Restart
    BY <1>4, <1>s, NothingNew DEF Parsers!Restart, Parsers!NoLookup, Parsers!NoEntry
  <1>5. CASE UNCHANGED Parsers!vars
    BY <1>5, <1>s, NothingNew DEF Parsers!vars
  <1> QED BY <1>1, <1>2, <1>3, <1>4, <1>5 DEF Parsers!Next

LEMMA OrderInit == Init => InOrder
  BY DEF Init, Parsers!Init, Parsers!NoLookup, Parsers!NoEntry, InOrder, TellsInOrder,
     CachesInOrder, BringsInOrder, Told, Cached, Brought

\* For any workers, group versions and schemas: the extractions of a worker never go from a
\* newer schema to an older one, whatever lookups, flights and upgrades come in between
\* (getParserForGV).
THEOREM ParsersNeverGoBack == Spec => ParserNeverGoesBack
  <1>2. TypeOK /\ TypeOK' /\ InOrder /\ [Next]_vars => InOrder' /\ NoStepBack
    BY OrderKept, ParserSteps DEF TypeOK
  <1>3. NoStepBack =>
          \A w \in Worker :
              LET old == lookup[w].parser
                  new == lookup'[w].parser
              IN  old # None /\ new # None => new \in Parsers!Reachable(old)
    BY DEF NoStepBack, Leads
  <1> QED BY OrderInit, <1>2, <1>3, TypeCorrect, PTL
          DEF Spec, ParserNeverGoesBack, Parsers!ParserNeverGoesBack

-----------------------------------------------------------------------------
(* The freshness of schemas *)

\* An entry is never older than its ETag; a lookup has discovered nothing newer than what is
\* served, nor than what it has fetched.
Discovered(w) == lookup[w].paths[Wants[w]]

EntriesFresh == \A g \in GroupVersion : Leads(store[g].etag, store[g].parser)

Fresh(w) ==
    /\ lookup[w].pc \in {"discovered", "invalidated", "lead"} =>
          Leads(Discovered(w), served[Wants[w]])
    /\ lookup[w].pc = "lead" /\ lookup[w].fetched # None =>
          Leads(Discovered(w), lookup[w].fetched)

AllFresh == EntriesFresh /\ \A w \in Worker : Fresh(w)

\* No worker is told, by the cache or by its own flight, less than it has discovered.
ToldFresh ==
    \A w \in Worker :
        lookup[w].pc \in {"invalidated", "lead"} /\ lookup'[w].pc = "done" =>
            Leads(Discovered(w), lookup'[w].parser)

\* The types that the freshness of a worker depends on.
LEMMA FreshTypes ==
    ASSUME Parsers!TypeOK
    PROVE  /\ \A g \in GroupVersion :
                 served[g] \in Schemas /\ store[g].etag \in Schemas /\ store[g].parser \in Schemas
           /\ \A w \in Worker :
                 /\ Wants[w] \in GroupVersion /\ Discovered(w) \in Schemas
                 /\ lookup[w].fetched \in Schemas /\ lookup[w].parser \in Schemas
  BY ConnectionsAssumption
     DEF Parsers!ParserConstants, Parsers!TypeOK, Parsers!EntryRecord, Parsers!LookupRecord,
         Schemas, Discovered

\* A step after which what is served follows, entries are kept or dropped, and nobody begins
\* a lookup, fetches or gets an answer.
LEMMA NothingDiscovered ==
    ASSUME Parsers!TypeOK, Parsers!TypeOK', InOrder, AllFresh,
           \A g \in GroupVersion : Leads(served[g], served'[g]),
           \A g \in GroupVersion : store'[g] \in {store[g], Parsers!NoEntry},
           \A w \in Worker :
              \/ lookup'[w].pc \in {"idle", "wait", "failed"}
              \/ lookup'[w] = lookup[w]
              \/ /\ lookup[w].pc \in {"discovered", "invalidated"}
                 /\ lookup'[w].pc \in {"discovered", "invalidated", "lead"}
                 /\ lookup'[w].paths = lookup[w].paths
                 /\ lookup'[w].fetched = lookup[w].fetched
    PROVE  AllFresh' /\ ToldFresh
  <1>1. EntriesFresh'
    <2>1. Leads(Parsers!NoEntry.etag, Parsers!NoEntry.parser)
      BY SchemaOrder DEF Parsers!NoEntry, Schemas
    <2> QED BY <2>1 DEF AllFresh, EntriesFresh
  <1>2. ASSUME NEW w \in Worker PROVE Fresh(w)'
    <2>t. /\ served[Wants[w]] \in Schemas /\ served'[Wants[w]] \in Schemas
          /\ Wants[w] \in GroupVersion /\ Discovered(w) \in Schemas
          /\ lookup[w].fetched \in Schemas
      BY FreshTypes, ConnectionsAssumption DEF Parsers!TypeOK, Schemas, Parsers!ParserConstants
    <2>s. Leads(Discovered(w), served[Wants[w]]) => Leads(Discovered(w), served'[Wants[w]])
      BY <2>t, SchemaOrder
    <2>1. CASE lookup'[w].pc \in {"idle", "wait", "failed"}
      BY <2>1 DEF Fresh
    <2>2. CASE lookup'[w] = lookup[w]
      BY <2>2, <2>s DEF Fresh, AllFresh, Discovered
    <2>3. CASE /\ lookup[w].pc \in {"discovered", "invalidated"}
               /\ lookup'[w].paths = lookup[w].paths
               /\ lookup'[w].fetched = lookup[w].fetched
      <3>1. lookup'[w].fetched = None
        BY <2>t, <2>3 DEF InOrder, BringsInOrder, Brought
      <3>2. Discovered(w)' = Discovered(w)
        BY <2>3 DEF Discovered
      <3> QED BY <2>3, <2>s, <3>1, <3>2 DEF Fresh, AllFresh
    <2> QED BY <2>1, <2>2, <2>3
  <1>3. ToldFresh
    BY DEF ToldFresh
  <1> QED BY <1>1, <1>2, <1>3 DEF AllFresh

\* Every step of the parser cache keeps things fresh.
LEMMA FreshKept ==
    ASSUME Parsers!TypeOK, Parsers!TypeOK', InOrder, AllFresh, [Parsers!Next]_(Parsers!vars)
    PROVE  AllFresh' /\ ToldFresh
  <1> USE ConnectionsAssumption DEF Parsers!ParserConstants
  <1>s. \A g \in GroupVersion : served' = served => Leads(served[g], served'[g])
    BY SchemaOrder DEF Parsers!TypeOK, Schemas
  <1>o. ASSUME NEW w \in Worker, NEW r, lookup' = [lookup EXCEPT ![w] = r]
        PROVE  lookup'[w] = r /\ \A v \in Worker : v # w => lookup'[v] = lookup[v]
    BY <1>o DEF Parsers!TypeOK
  <1>l. \A w \in Worker : lookup[w] \in Parsers!LookupRecord
    BY DEF Parsers!TypeOK
  <1>f. ASSUME NEW w \in Worker, Parsers!FlightFails(w), UNCHANGED <<served, store>>
        PROVE  AllFresh' /\ ToldFresh
    <2>1. \A v \in Worker : lookup'[v].pc = "failed" \/ lookup'[v] = lookup[v]
      BY <1>f, LookupType DEF Parsers!FlightFails
    <2> QED BY <1>f, <1>s, <2>1, NothingDiscovered
  <1>1. ASSUME NEW w \in Worker, Parsers!Lookup(w) PROVE AllFresh' /\ ToldFresh
    <2>1. CASE Parsers!Discover(w)
      <3>1. /\ lookup'[w].pc = "discovered" /\ lookup'[w].paths = served
            /\ \A v \in Worker : v # w => lookup'[v] = lookup[v]
        BY <2>1, <1>l DEF Parsers!Discover, Parsers!Begun, Parsers!LookupRecord, Parsers!TypeOK
      <3>2. Discovered(w)' = served[Wants[w]] /\ served' = served /\ store' = store
        BY <2>1, <3>1 DEF Discovered, Parsers!Discover
      <3>3. Fresh(w)'
        BY <3>1, <3>2, FreshTypes, SchemaOrder DEF Fresh
      <3>4. \A v \in Worker : v # w => Fresh(v)'
        BY <3>1, <3>2 DEF Fresh, AllFresh, Discovered
      <3>5. EntriesFresh'
        BY <3>2 DEF EntriesFresh, AllFresh
      <3>6. ToldFresh
        BY <3>1 DEF ToldFresh
      <3> QED BY <3>3, <3>4, <3>5, <3>6 DEF AllFresh
    <2>2. CASE Parsers!Invalidate(w)
      <3>1. /\ lookup'[w].pc = "invalidated" /\ lookup[w].pc = "discovered"
            /\ lookup'[w].paths = lookup[w].paths /\ lookup'[w].fetched = lookup[w].fetched
            /\ \A v \in Worker : v # w => lookup'[v] = lookup[v]
        <4> DEFINE r == [lookup[w] EXCEPT !.pc = "invalidated"]
        <4>1. /\ r.pc = "invalidated" /\ r.paths = lookup[w].paths
              /\ r.fetched = lookup[w].fetched
          BY <1>l DEF Parsers!LookupRecord
        <4>2. lookup' = [lookup EXCEPT ![w] = r] /\ lookup[w].pc = "discovered"
          BY <2>2 DEF Parsers!Invalidate, Parsers!Goto
        <4> HIDE DEF r
        <4> QED BY <4>1, <4>2, <1>o
      <3>2. \A g \in GroupVersion : store'[g] \in {store[g], Parsers!NoEntry}
        BY <2>2 DEF Parsers!Invalidate, Parsers!Kept
      <3> QED BY <2>2, <3>1, <3>2, <1>s, NothingDiscovered DEF Parsers!Invalidate
    <2>3. CASE Parsers!NotDiscovered(w)
      <3>1. lookup'[w].pc = "failed" /\ \A v \in Worker : v # w => lookup'[v] = lookup[v]
        BY <2>3, LookupType DEF Parsers!NotDiscovered, Schemas, Parsers!TypeOK
      <3> QED BY <2>3, <3>1, <1>s, NothingDiscovered DEF Parsers!NotDiscovered
    <2>4. CASE Parsers!FindCached(w)
      <3> DEFINE c == store[Wants[w]].parser
      <3>1. c \in Schemas
        BY FreshTypes
      <3>2. lookup' = [lookup EXCEPT ![w] = Parsers!Answered(w, c)] /\ UNCHANGED <<served, store>>
        BY <2>4 DEF Parsers!FindCached
      <3>3. /\ lookup'[w].pc = "done" /\ lookup'[w].parser = c
            /\ \A v \in Worker : v # w => lookup'[v] = lookup[v]
        BY <3>1, <3>2, LookupType DEF Schemas, Parsers!TypeOK
      <3>4. Leads(Discovered(w), c)
        BY <2>4 DEF Parsers!FindCached, Parsers!Hit, Discovered, AllFresh, EntriesFresh
      <3> HIDE DEF c
      <3>5. ToldFresh
        BY <3>3, <3>4 DEF ToldFresh
      <3>6. \A v \in Worker : Fresh(v)'
        BY <3>2, <3>3 DEF Fresh, AllFresh, Discovered
      <3> QED BY <3>2, <3>5, <3>6 DEF AllFresh, EntriesFresh
    <2>5. CASE Parsers!TakeFlight(w)
      <3>1. PICK pc \in {"lead", "wait"} : lookup' = [lookup EXCEPT ![w].pc = pc]
        BY <2>5 DEF Parsers!TakeFlight, Parsers!Goto
      <3> DEFINE r == [lookup[w] EXCEPT !.pc = pc]
      <3>2. r.pc = pc /\ r.paths = lookup[w].paths /\ r.fetched = lookup[w].fetched
        BY <1>l DEF Parsers!LookupRecord
      <3>3. lookup' = [lookup EXCEPT ![w] = r] /\ UNCHANGED <<served, store>>
            /\ lookup[w].pc = "invalidated"
        BY <2>5, <3>1 DEF Parsers!TakeFlight
      <3> HIDE DEF r
      <3>4. lookup'[w] = r /\ \A v \in Worker : v # w => lookup'[v] = lookup[v]
        BY <3>3, <1>o
      <3> QED BY <3>2, <3>3, <3>4, <1>s, NothingDiscovered
    <2>6. CASE Parsers!Fetch(w)
      <3>1. CASE Parsers!Document(w) # None
        <4>1. /\ lookup' = [lookup EXCEPT ![w].fetched = served[Wants[w]]]
              /\ UNCHANGED <<served, store>> /\ lookup[w].pc = "lead"
          BY <2>6, <3>1 DEF Parsers!Fetch, Parsers!Document
        <4>2. /\ lookup'[w].pc = "lead" /\ lookup'[w].fetched = served[Wants[w]]
              /\ lookup'[w].paths = lookup[w].paths
              /\ \A v \in Worker : v # w => lookup'[v] = lookup[v]
          BY <4>1, <1>l DEF Parsers!TypeOK, Parsers!LookupRecord
        <4>3. Fresh(w)'
          BY <4>1, <4>2 DEF Fresh, AllFresh, Discovered
        <4>4. \A v \in Worker : v # w => Fresh(v)'
          BY <4>1, <4>2 DEF Fresh, AllFresh, Discovered
        <4>5. ToldFresh
          BY <4>2 DEF ToldFresh
        <4> QED BY <4>1, <4>3, <4>4, <4>5 DEF AllFresh, EntriesFresh
      <3>2. CASE Parsers!Document(w) = None
        BY <2>6, <3>2, <1>f DEF Parsers!Fetch
      <3> QED BY <3>1, <3>2
    <2>7. CASE Parsers!Land(w)
      <3> DEFINE f == lookup[w].fetched
      <3>1. /\ f \in Schemas /\ Discovered(w) \in Schemas /\ Wants[w] \in GroupVersion
            /\ Leads(Discovered(w), f)
        BY <2>7, FreshTypes DEF Parsers!Land, AllFresh, Fresh
      <3>2. /\ \A v \in Worker : lookup'[v] = IF v \in Parsers!Passengers(w)
                                              THEN Parsers!Answered(v, f) ELSE lookup[v]
            /\ UNCHANGED served
            /\ store'[Wants[w]] = [parser |-> f, etag |-> Discovered(w)]
            /\ \A h \in GroupVersion : h # Wants[w] => store'[h] = store[h]
        BY <2>7, <3>1 DEF Parsers!Land, Parsers!Landed, Parsers!TypeOK, Discovered
      <3> HIDE DEF f
      <3>3. EntriesFresh'
        BY <3>1, <3>2 DEF EntriesFresh, AllFresh
      <3>4. \A v \in Parsers!Passengers(w) : lookup'[v].pc = "done" /\ lookup'[v].parser = f
        BY <3>1, <3>2, LookupType DEF Schemas, Parsers!Passengers
      <3>5. \A v \in Worker : v \notin Parsers!Passengers(w) => lookup'[v] = lookup[v]
        BY <3>2
      <3>6. \A v \in Worker : Fresh(v)'
        BY <3>2, <3>4, <3>5 DEF Fresh, AllFresh, Discovered
      <3>7. ToldFresh
        BY <3>1, <3>4, <3>5 DEF ToldFresh, Parsers!Passengers
      <3> QED BY <3>3, <3>6, <3>7 DEF AllFresh
    <2>8. CASE Parsers!Return(w)
      <3>1. lookup'[w].pc = "idle" /\ \A v \in Worker : v # w => lookup'[v] = lookup[v]
        <4> DEFINE r == [lookup[w] EXCEPT !.pc = "idle", !.turn = 0]
        <4>1. r.pc = "idle"
          BY <1>l DEF Parsers!LookupRecord
        <4>2. lookup' = [lookup EXCEPT ![w] = r]
          BY <2>8 DEF Parsers!Return
        <4> HIDE DEF r
        <4> QED BY <4>1, <4>2, <1>o
      <3> QED BY <2>8, <3>1, <1>s, NothingDiscovered DEF Parsers!Return
    <2> QED BY <1>1, <2>1, <2>2, <2>3, <2>4, <2>5, <2>6, <2>7, <2>8 DEF Parsers!Lookup
  <1>2. ASSUME NEW w \in Worker, Parsers!FetchFails(w) PROVE AllFresh' /\ ToldFresh
    BY <1>2, <1>f DEF Parsers!FetchFails
  <1>3. ASSUME NEW g \in GroupVersion, Parsers!SchemaChanges(g) PROVE AllFresh' /\ ToldFresh
    BY <1>3, UpgradesLead, NothingDiscovered DEF Parsers!SchemaChanges
  <1>4. CASE Parsers!Restart
    BY <1>4, <1>s, NothingDiscovered DEF Parsers!Restart, Parsers!NoLookup
  <1>5. CASE UNCHANGED Parsers!vars
    BY <1>5, <1>s, NothingDiscovered DEF Parsers!vars
  <1> QED BY <1>1, <1>2, <1>3, <1>4, <1>5 DEF Parsers!Next

\* For any workers, group versions and schemas: no worker extracts with a parser that it has
\* found in the cache or fetched itself and that is older than what it has discovered, whatever
\* was invalidated, fetched under an outdated hash or upgraded in between (getParserForGV).
THEOREM AnswersFresh == Spec => AnswersAreFresh
  <1> USE ConnectionsAssumption
  <1>1. Init => InOrder /\ AllFresh
    <2>1. Init => InOrder
      BY OrderInit
    <2>2. Leads(None, None)
      BY SchemaOrder DEF Schemas
    <2> QED BY <2>1, <2>2 DEF Init, Parsers!Init, Parsers!NoLookup, Parsers!NoEntry, AllFresh,
               EntriesFresh, Fresh
  <1>2. TypeOK /\ TypeOK' /\ InOrder /\ AllFresh /\ [Next]_vars =>
            InOrder' /\ AllFresh' /\ ToldFresh
    BY OrderKept, FreshKept, ParserSteps DEF TypeOK
  <1>3. ToldFresh =>
          \A w \in Worker :
              lookup[w].pc \in {"invalidated", "lead"} /\ lookup'[w].pc = "done" =>
                  lookup'[w].parser \in Parsers!Reachable(lookup[w].paths[Wants[w]])
    BY DEF ToldFresh, Leads, Discovered
  <1> QED BY <1>1, <1>2, <1>3, TypeCorrect, PTL
          DEF Spec, AnswersAreFresh, Parsers!AnswersAreFresh

-----------------------------------------------------------------------------
(* Nobody waits in vain *)

\* A step that clears no flight and after which only those wait who did, or whose flight has
\* a leader.
LEMMA StillAboard ==
    ASSUME Parsers!TypeOK', Parsers!NobodyStranded,
           \A g \in GroupVersion : flight[g] # None => flight'[g] = flight[g],
           \A v \in Worker : lookup'[v].pc = "wait" =>
               lookup[v].pc = "wait" \/ flight'[Wants[v]] # None
    PROVE  Parsers!NobodyStranded'
  <1> USE ConnectionsAssumption DEF Parsers!ParserConstants
  <1> SUFFICES ASSUME NEW v \in Worker, lookup'[v].pc = "wait"
               PROVE  \E u \in Worker : flight'[Wants[v]] = u /\ lookup'[u].pc = "lead"
    BY DEF Parsers!NobodyStranded
  <1>1. flight'[Wants[v]] \in Worker
    BY DEF Parsers!TypeOK, Parsers!NobodyStranded
  <1> QED BY <1>1 DEF Parsers!TypeOK

\* A flight that is over is over for all its passengers, and is the only one that is.
LEMMA AllLeave ==
    ASSUME Parsers!TypeOK, Parsers!TypeOK', Parsers!NobodyStranded,
           NEW w \in Worker, flight' = [flight EXCEPT ![Wants[w]] = None],
           \A v \in Parsers!Passengers(w) : lookup'[v].pc # "wait",
           \A v \in Worker : v \notin Parsers!Passengers(w) => lookup'[v] = lookup[v]
    PROVE  Parsers!NobodyStranded'
  <1> USE ConnectionsAssumption DEF Parsers!ParserConstants
  <1> SUFFICES ASSUME NEW v \in Worker, lookup'[v].pc = "wait"
               PROVE  \E u \in Worker : flight'[Wants[v]] = u /\ lookup'[u].pc = "lead"
    BY DEF Parsers!NobodyStranded
  <1>1. lookup[v].pc = "wait" /\ Wants[v] # Wants[w]
    BY DEF Parsers!Passengers
  <1>2. flight'[Wants[v]] = flight[Wants[v]] /\ flight[Wants[v]] \in Worker
    BY <1>1 DEF Parsers!TypeOK, Parsers!NobodyStranded
  <1> QED BY <1>2 DEF Parsers!TypeOK

LEMMA StrandedNext ==
    ASSUME Parsers!TypeOK, Parsers!TypeOK', Parsers!NobodyStranded, [Parsers!Next]_(Parsers!vars)
    PROVE  Parsers!NobodyStranded'
  <1> USE ConnectionsAssumption DEF Parsers!ParserConstants
  <1>l. \A w \in Worker : lookup[w] \in Parsers!LookupRecord
    BY DEF Parsers!TypeOK
  <1>f. ASSUME NEW w \in Worker, Parsers!FlightFails(w) PROVE Parsers!NobodyStranded'
    <2>1. /\ \A v \in Parsers!Passengers(w) : lookup'[v].pc = "failed"
          /\ \A v \in Worker : v \notin Parsers!Passengers(w) => lookup'[v] = lookup[v]
      BY <1>f, LookupType DEF Parsers!FlightFails, Parsers!Passengers
    <2> QED BY <1>f, <2>1, AllLeave DEF Parsers!FlightFails
  \* A step of one worker to a place where it does not wait, or its flight has a leader.
  <1>w. ASSUME NEW w \in Worker, NEW r,
               lookup' = [lookup EXCEPT ![w] = r], r.pc # "wait" \/ flight'[Wants[w]] # None,
               \A g \in GroupVersion : flight[g] # None => flight'[g] = flight[g]
        PROVE  Parsers!NobodyStranded'
    <2>1. \A v \in Worker : lookup'[v] = IF v = w THEN r ELSE lookup[v]
      BY <1>w DEF Parsers!TypeOK
    <2> QED BY <1>w, <2>1, StillAboard
  <1>1. ASSUME NEW w \in Worker, Parsers!Lookup(w) PROVE Parsers!NobodyStranded'
    <2>1. CASE Parsers!Discover(w)
      <3>1. Parsers!Begun(w).pc # "wait"
        BY <1>l DEF Parsers!Begun, Parsers!LookupRecord
      <3> QED BY <2>1, <3>1, <1>w DEF Parsers!Discover
    <2>2. CASE Parsers!Invalidate(w)
      <3> DEFINE r == [lookup[w] EXCEPT !.pc = "invalidated"]
      <3>1. r.pc # "wait"
        BY <1>l DEF Parsers!LookupRecord
      <3>2. lookup' = [lookup EXCEPT ![w] = r] /\ UNCHANGED flight
        BY <2>2 DEF Parsers!Invalidate, Parsers!Goto
      <3> HIDE DEF r
      <3> QED BY <3>1, <3>2, <1>w
    <2>3. CASE Parsers!NotDiscovered(w)
      BY <2>3, <1>w, LookupType DEF Parsers!NotDiscovered
    <2>4. CASE Parsers!FindCached(w)
      <3>1. store[Wants[w]].parser \in Schema \cup {None}
        BY DEF Parsers!TypeOK, Parsers!EntryRecord
      <3>2. Parsers!Answered(w, store[Wants[w]].parser).pc # "wait"
        BY <3>1, LookupType
      <3> QED BY <2>4, <3>2, <1>w DEF Parsers!FindCached
    <2>5. CASE Parsers!TakeFlight(w)
      <3>1. PICK pc \in {"lead", "wait"} :
                /\ lookup' = [lookup EXCEPT ![w].pc = pc]
                /\ pc = "wait" => flight[Wants[w]] # None /\ UNCHANGED flight
        BY <2>5 DEF Parsers!TakeFlight, Parsers!Goto
      <3> DEFINE r == [lookup[w] EXCEPT !.pc = pc]
      <3>2. r.pc = pc
        BY <1>l DEF Parsers!LookupRecord
      <3>3. /\ lookup' = [lookup EXCEPT ![w] = r]
            /\ \A g \in GroupVersion : flight[g] # None => flight'[g] = flight[g]
        BY <2>5, <3>1 DEF Parsers!TakeFlight, Parsers!TypeOK
      <3> HIDE DEF r
      <3> QED BY <3>1, <3>2, <3>3, <1>w
    <2>6. CASE Parsers!Fetch(w)
      <3>1. CASE Parsers!Document(w) # None
        <4>1. lookup' = [lookup EXCEPT ![w].fetched = Parsers!Document(w)] /\ UNCHANGED flight
          BY <2>6, <3>1 DEF Parsers!Fetch
        <4>2. \A v \in Worker : lookup'[v].pc = lookup[v].pc
          BY <4>1, <1>l DEF Parsers!LookupRecord, Parsers!TypeOK
        <4> QED BY <4>1, <4>2, StillAboard
      <3>2. CASE Parsers!Document(w) = None
        BY <2>6, <3>2, <1>f DEF Parsers!Fetch
      <3> QED BY <3>1, <3>2
    <2>7. CASE Parsers!Land(w)
      <3> DEFINE f == lookup[w].fetched
      <3>1. f \in Schema \cup {None}
        BY <1>l DEF Parsers!LookupRecord
      <3>2. /\ \A v \in Worker : lookup'[v] = IF v \in Parsers!Passengers(w)
                                              THEN Parsers!Answered(v, f) ELSE lookup[v]
            /\ flight' = [flight EXCEPT ![Wants[w]] = None]
        BY <2>7 DEF Parsers!Land, Parsers!Landed
      <3> HIDE DEF f
      <3>3. \A v \in Parsers!Passengers(w) : lookup'[v].pc = "done"
        BY <3>1, <3>2, LookupType DEF Parsers!Passengers
      <3> QED BY <3>2, <3>3, AllLeave
    <2>8. CASE Parsers!Return(w)
      <3> DEFINE r == [lookup[w] EXCEPT !.pc = "idle", !.turn = 0]
      <3>1. r.pc # "wait"
        BY <1>l DEF Parsers!LookupRecord
      <3>2. lookup' = [lookup EXCEPT ![w] = r] /\ UNCHANGED flight
        BY <2>8 DEF Parsers!Return
      <3> HIDE DEF r
      <3> QED BY <3>1, <3>2, <1>w
    <2> QED BY <1>1, <2>1, <2>2, <2>3, <2>4, <2>5, <2>6, <2>7, <2>8 DEF Parsers!Lookup
  <1>2. ASSUME NEW w \in Worker, Parsers!FetchFails(w) PROVE Parsers!NobodyStranded'
    BY <1>2, <1>f DEF Parsers!FetchFails
  <1>3. ASSUME NEW g \in GroupVersion, Parsers!SchemaChanges(g) PROVE Parsers!NobodyStranded'
    BY <1>3, StillAboard DEF Parsers!SchemaChanges
  <1>4. CASE Parsers!Restart
    BY <1>4 DEF Parsers!Restart, Parsers!NoLookup, Parsers!NobodyStranded
  <1>5. CASE UNCHANGED Parsers!vars
    BY <1>5, StillAboard DEF Parsers!vars
  <1> QED BY <1>1, <1>2, <1>3, <1>4, <1>5 DEF Parsers!Next

\* For any workers and group versions: a reconcile that waits for a parser waits for somebody
\* who is fetching it, whatever fails (sf.Do in getParserForGV).
THEOREM NobodyWaitsInVain == Spec => []NobodyStranded
  <1>1. Init => Parsers!NobodyStranded
    BY DEF Init, Parsers!Init, Parsers!NoLookup, Parsers!NobodyStranded
  <1>2. TypeOK /\ TypeOK' /\ Parsers!NobodyStranded /\ [Next]_vars => Parsers!NobodyStranded'
    BY StrandedNext, ParserSteps DEF TypeOK
  <1> QED BY <1>1, <1>2, TypeCorrect, PTL DEF Spec, NobodyStranded

-----------------------------------------------------------------------------
(* The stores *)

\* What AtomicStore sees of the Nebius store.
made   == {s \in clients : s[1] \in Credentials}
stored == [k \in Credentials |-> sources[k]]
Use(w) == IF caller[w].pc = "has" /\ caller[w].key \in Credentials
          THEN <<caller[w].key, caller[w].source>> ELSE None
uses   == [w \in Worker |-> Use(w)]

\* A step of one call that neither makes nor stores a source of Nebius.
LEMMA CallSteps ==
    ASSUME Sources!TypeOK, NEW w \in Worker, NEW r \in Sources!CallerRecord,
           caller' = [caller EXCEPT ![w] = r], made' = made, stored' = stored,
           \/ Use(w)' = Use(w)
           \/ Use(w) # None /\ Use(w)' = None
           \/ \E k \in Credentials :
                 sources[k] # None /\ Use(w) = None /\ Use(w)' = <<k, sources[k]>>
    PROVE  [Sources!Atomic!Next]_(Sources!Atomic!vars)
  <1>1. uses' = [uses EXCEPT ![w] = Use(w)']
    <2>1. \A v \in Worker : v # w => caller'[v] = caller[v]
      BY DEF Sources!TypeOK
    <2>2. \A v \in Worker : v # w => Use(v)' = Use(v)
      BY <2>1 DEF Use
    <2> QED BY <2>2 DEF uses
  <1>2. Use(w)' = Use(w) => uses' = uses
    BY <1>1 DEF uses
  <1>3. uses[w] = Use(w)
    BY DEF uses
  <1>4. CASE Use(w)' = Use(w)
    BY <1>2, <1>4 DEF Sources!Atomic!vars, made, stored, uses, Use
  <1>5. CASE Use(w) # None /\ Use(w)' = None
    <2>1. Sources!Atomic!Release(w)
      BY <1>1, <1>3, <1>5 DEF Sources!Atomic!Release, made, stored, uses, Use
    <2> QED BY <2>1 DEF Sources!Atomic!Next
  <1>6. ASSUME NEW k \in Credentials,
               sources[k] # None, Use(w) = None, Use(w)' = <<k, sources[k]>>
        PROVE  Sources!Atomic!Next
    <2>1. Sources!Atomic!Reuse(w, k)
      BY <1>1, <1>3, <1>6 DEF Sources!Atomic!Reuse, made, stored, uses, Use
    <2> QED BY <2>1 DEF Sources!Atomic!Next
  <1> QED BY <1>4, <1>5, <1>6

\* Every step of the stores is one of AtomicStore, or shows nothing there.
LEMMA StoreSteps ==
    ASSUME Sources!TypeOK, Sources!TypeOK', [Sources!Next]_(Sources!vars)
    PROVE  [Sources!Atomic!Next]_(Sources!Atomic!vars)
  <1> USE ConnectionsAssumption DEF Sources!StoreConstants, Sources!Key
  <1>t. \A w \in Worker : /\ caller[w] \in Sources!CallerRecord
                          /\ caller'[w] \in Sources!CallerRecord
    BY DEF Sources!TypeOK
  \* The answer of a source.
  <1>a. ASSUME NEW w \in Worker, NEW k \in Sources!Key, NEW s \in Worker,
               Sources!Answer(w, k, s)
        PROVE  /\ caller'[w] = [pc |-> "has", key |-> k, source |-> s]
               /\ Use(w)' = IF k \in Credentials THEN <<k, s>> ELSE None
    BY <1>a DEF Sources!Answer, Sources!TypeOK, Use
  <1>u. ASSUME NEW w \in Worker, caller[w].pc \in {"idle", "missed"} PROVE Use(w) = None
    BY <1>u DEF Use
  <1>s. UNCHANGED sources => stored' = stored
    BY DEF stored
  <1>m. UNCHANGED clients => made' = made
    BY DEF made
  \* A source that is found, or not.
  <1>f. ASSUME NEW w \in Worker, NEW k \in Sources!Key, caller[w].pc \in {"idle", "missed"},
               sources[k] # None, Sources!Answer(w, k, sources[k]), UNCHANGED <<sources, clients>>
        PROVE  [Sources!Atomic!Next]_(Sources!Atomic!vars)
    <2>1. sources[k] \in Worker
      BY <1>f DEF Sources!TypeOK
    <2> DEFINE r == [pc |-> "has", key |-> k, source |-> sources[k]]
    <2>2. r \in Sources!CallerRecord /\ caller' = [caller EXCEPT ![w] = r]
      BY <1>f, <2>1 DEF Sources!Answer, Sources!CallerRecord
    <2>3. Use(w) = None /\ Use(w)' = IF k \in Credentials THEN <<k, sources[k]>> ELSE None
      BY <1>f, <1>a, <1>u, <2>1
    <2> HIDE DEF r
    <2> QED BY <1>f, <1>s, <1>m, <2>2, <2>3, CallSteps
  \* A source that is made.
  <1>k. ASSUME NEW w \in Worker, NEW k \in Sources!Key, caller[w].pc = "missed",
               k \in Credentials => sources[k] = None, Sources!StoreSource(w, k)
        PROVE  [Sources!Atomic!Next]_(Sources!Atomic!vars)
    <2> DEFINE r == [pc |-> "has", key |-> k, source |-> w]
    <2>1. r \in Sources!CallerRecord /\ caller' = [caller EXCEPT ![w] = r]
      BY <1>k DEF Sources!StoreSource, Sources!Answer, Sources!CallerRecord
    <2>2. Use(w) = None /\ Use(w)' = IF k \in Credentials THEN <<k, w>> ELSE None
      BY <1>k, <1>a, <1>u DEF Sources!StoreSource
    <2>3. CASE k \in Credentials
      <3>1. made' = made \cup {<<k, w>>}
        BY <1>k, <2>3 DEF Sources!StoreSource, made
      <3>2. stored' = [stored EXCEPT ![k] = w] /\ stored[k] = None
        <4>1. \A h \in Credentials : sources'[h] = IF h = k THEN w ELSE sources[h]
          BY <1>k, <2>3 DEF Sources!StoreSource, Sources!TypeOK
        <4> QED BY <1>k, <2>3, <4>1 DEF stored
      <3>3. uses' = [uses EXCEPT ![w] = <<k, w>>]
        <4>1. \A v \in Worker : v # w => caller'[v] = caller[v]
          BY <2>1 DEF Sources!TypeOK
        <4> QED BY <2>2, <2>3, <4>1 DEF uses, Use
      <3>4. uses[w] = None
        BY <2>2 DEF uses
      <3>5. Sources!Atomic!Make(w, k)
        BY <3>1, <3>2, <3>3, <3>4 DEF Sources!Atomic!Make, made, stored, uses, Use
      <3> QED BY <2>3, <3>5 DEF Sources!Atomic!Next
    <2>4. CASE k \notin Credentials
      <3>1. made' = made
        BY <1>k, <2>4 DEF Sources!StoreSource, made
      <3>2. stored' = stored
        BY <1>k, <2>4 DEF Sources!StoreSource, Sources!TypeOK, stored
      <3> HIDE DEF r
      <3> QED BY <2>1, <2>2, <2>4, <3>1, <3>2, CallSteps
    <2> QED BY <2>3, <2>4
  <1>1. ASSUME NEW w \in Worker, NEW k \in Sources!Key, Sources!Find(w, k)
        PROVE  [Sources!Atomic!Next]_(Sources!Atomic!vars)
    <2>1. CASE Sources!Found(k)
      BY <1>1, <2>1, <1>f DEF Sources!Find, Sources!Found
    <2>2. CASE ~Sources!Found(k)
      <3> DEFINE r == [pc |-> "missed", key |-> k, source |-> None]
      <3>1. r \in Sources!CallerRecord /\ caller' = [caller EXCEPT ![w] = r]
        BY <1>1, <2>2 DEF Sources!Find, Sources!CallerRecord
      <3>2. caller'[w].pc = "missed"
        BY <3>1 DEF Sources!TypeOK
      <3>3. Use(w) = None /\ Use(w)' = None
        BY <1>1, <1>u, <3>2 DEF Sources!Find, Use
      <3> HIDE DEF r
      <3> QED BY <1>1, <1>s, <1>m, <3>1, <3>3, CallSteps DEF Sources!Find
    <2> QED BY <2>1, <2>2
  <1>2. ASSUME NEW w \in Worker, Sources!SourceForRefreshToken(w)
        PROVE  [Sources!Atomic!Next]_(Sources!Atomic!vars)
    BY <1>2, <1>k DEF Sources!SourceForRefreshToken
  <1>3. ASSUME NEW w \in Worker, Sources!SourceForCredentials(w)
        PROVE  [Sources!Atomic!Next]_(Sources!Atomic!vars)
    BY <1>3, <1>k, <1>f DEF Sources!SourceForCredentials, Sources!FoundAgain
  <1>4. ASSUME NEW w \in Worker, Sources!BuildFails(w) \/ Sources!Release(w)
        PROVE  [Sources!Atomic!Next]_(Sources!Atomic!vars)
    <2>1. caller' = [caller EXCEPT ![w] = Sources!NoCall] /\ UNCHANGED <<sources, clients>>
      BY <1>4 DEF Sources!BuildFails, Sources!Release
    <2>2. Sources!NoCall \in Sources!CallerRecord
      BY DEF Sources!NoCall, Sources!CallerRecord
    <2>3. Use(w)' = None
      BY <2>1 DEF Use, Sources!TypeOK, Sources!NoCall
    <2> QED BY <2>1, <2>2, <2>3, <1>s, <1>m, CallSteps
  <1>5. CASE Sources!Restart
    <2>1. made' = {} /\ stored' = [k \in Credentials |-> None] /\ uses' = [w \in Worker |-> None]
      BY <1>5 DEF Sources!Restart, Sources!NoCall, made, stored, uses, Use
    <2> QED BY <2>1 DEF Sources!Atomic!Next, Sources!Atomic!Reset, made, stored, uses, Use
  <1>6. CASE UNCHANGED Sources!vars
    BY <1>6 DEF Sources!vars, Sources!Atomic!vars
  <1> QED BY <1>1, <1>2, <1>3, <1>4, <1>5, <1>6 DEF Sources!Next

\* For any workers and credentials: a Nebius client is made once, in one step with being
\* stored, and all workers use that one (SourceForCredentials).
THEOREM StoreRefinesAtomic == Spec => StoreIsAtomic
  <1>1. Init => Sources!Atomic!Init
    BY DEF Init, Sources!Init, Sources!Atomic!Init, Sources!NoCall, Sources!Key
  <1>2. TypeOK /\ TypeOK' /\ [Next]_vars => [Sources!Atomic!Next]_(Sources!Atomic!vars)
    BY StoreSteps, SourceSteps DEF TypeOK
  <1> QED BY <1>1, <1>2, TypeCorrect, PTL
          DEF Spec, StoreIsAtomic, Sources!StoreIsAtomic, Sources!Atomic!Spec

\* A step of AtomicStore keeps one source per key.
LEMMA AtomicSteps ==
    ASSUME Sources!Atomic!OneSourcePerKey, stored \in [Credentials -> Worker \cup {None}],
           [Sources!Atomic!Next]_(Sources!Atomic!vars)
    PROVE  Sources!Atomic!OneSourcePerKey' /\ stored' \in [Credentials -> Worker \cup {None}]
  <1> DEFINE Kept == {<<k, stored[k]>> : k \in {h \in Credentials : stored[h] # None}}
  <1>k. made = Kept /\ \A w \in Worker : uses[w] \in made \cup {None}
    BY DEF Sources!Atomic!OneSourcePerKey, made, stored, uses, Use
  <1>n. None \notin Worker
    BY ConnectionsAssumption DEF Sources!StoreConstants
  <1>u. DOMAIN uses = Worker
    BY DEF uses
  <1>q. /\ made' = Kept' /\ (\A w \in Worker : uses'[w] \in made' \cup {None})
        => Sources!Atomic!OneSourcePerKey'
    BY DEF Sources!Atomic!OneSourcePerKey, made, stored, uses, Use
  <1> DEFINE Goal == /\ stored' \in [Credentials -> Worker \cup {None}]
                     /\ made' = Kept' /\ \A w \in Worker : uses'[w] \in made' \cup {None}
  <1>1. ASSUME NEW w \in Worker, NEW k \in Credentials, Sources!Atomic!Make(w, k) PROVE Goal
    <2>1. /\ stored[k] = None /\ made' = made \cup {<<k, w>>}
          /\ stored' = [stored EXCEPT ![k] = w] /\ uses' = [uses EXCEPT ![w] = <<k, w>>]
      BY <1>1 DEF Sources!Atomic!Make, made, stored, uses, Use
    <2> HIDE DEF made, stored, uses
    <2>2. stored' \in [Credentials -> Worker \cup {None}] /\ stored'[k] = w
          /\ \A h \in Credentials : h # k => stored'[h] = stored[h]
      BY <2>1
    <2>3. made' = Kept'
      BY <2>1, <2>2, <1>k, <1>n
    <2>4. \A v \in Worker : uses'[v] \in made' \cup {None}
      BY <2>1, <1>k, <1>u
    <2> QED BY <2>2, <2>3, <2>4
  <1>2. ASSUME NEW w \in Worker, NEW k \in Credentials, Sources!Atomic!Reuse(w, k) PROVE Goal
    <2>1. /\ stored[k] # None /\ uses' = [uses EXCEPT ![w] = <<k, stored[k]>>]
          /\ made' = made /\ stored' = stored
      BY <1>2 DEF Sources!Atomic!Reuse, made, stored, uses, Use
    <2> HIDE DEF made, stored, uses
    <2> QED BY <2>1, <1>k, <1>u
  <1>3. ASSUME NEW w \in Worker, Sources!Atomic!Release(w) PROVE Goal
    <2>1. uses' = [uses EXCEPT ![w] = None] /\ made' = made /\ stored' = stored
      BY <1>3 DEF Sources!Atomic!Release, made, stored, uses, Use
    <2> HIDE DEF made, stored, uses
    <2> QED BY <2>1, <1>k, <1>u
  <1>4. ASSUME Sources!Atomic!Reset PROVE Goal
    <2>1. made' = {} /\ stored' = [k \in Credentials |-> None] /\ uses' = [w \in Worker |-> None]
      BY <1>4 DEF Sources!Atomic!Reset, made, stored, uses, Use
    <2> HIDE DEF made, stored, uses
    <2> QED BY <2>1
  <1>5. ASSUME UNCHANGED Sources!Atomic!vars PROVE Goal
    <2>1. made' = made /\ stored' = stored /\ uses' = uses
      BY <1>5 DEF Sources!Atomic!vars, made, stored, uses, Use
    <2> HIDE DEF made, stored, uses
    <2> QED BY <2>1, <1>k
  <1> HIDE DEF Kept
  <1> QED BY <1>1, <1>2, <1>3, <1>4, <1>5, <1>q DEF Sources!Atomic!Next

\* Whoever finds or makes in one step has one source for each key (AtomicStore).
THEOREM AtomicPromise == Sources!Atomic!Spec => []Sources!Atomic!OneSourcePerKey
  <1>1. Sources!Atomic!Init =>
            Sources!Atomic!OneSourcePerKey /\ stored \in [Credentials -> Worker \cup {None}]
    BY DEF Sources!Atomic!Init, Sources!Atomic!OneSourcePerKey, stored
  <1>2. /\ Sources!Atomic!OneSourcePerKey /\ stored \in [Credentials -> Worker \cup {None}]
        /\ [Sources!Atomic!Next]_(Sources!Atomic!vars)
        => Sources!Atomic!OneSourcePerKey' /\ (stored \in [Credentials -> Worker \cup {None}])'
    BY AtomicSteps
  <1> QED BY <1>1, <1>2, PTL DEF Sources!Atomic!Spec

\* For any workers and credentials: the store holds every Nebius client that runs, one for each
\* credentials, and no worker uses another (SourceForCredentials).
THEOREM OneClient == Spec => []OneClientPerCredentials
  BY StoreRefinesAtomic, AtomicPromise, PTL
     DEF StoreIsAtomic, Sources!StoreIsAtomic, OneClientPerCredentials,
         Sources!OneClientPerCredentials

-----------------------------------------------------------------------------
(* Fewer and fewer make a source *)

Makers(k) == {w \in Worker : caller[w].pc = "missed" /\ caller[w].key = k}

\* Why SourcesConverge holds, for any workers and tokens: while there is a source for a
\* refresh token nobody else starts to make one, and each that takes its place is the last
\* its maker makes (SourceForRefreshToken).
THEOREM MakersDwindle ==
    Spec => [][\A k \in RefreshToken : sources[k] # None =>
                  /\ Makers(k)' \subseteq Makers(k)
                  /\ sources'[k] \notin {None, sources[k]} => sources'[k] \in Makers(k) \ Makers(k)'
              ]_vars
  <1> USE ConnectionsAssumption DEF Sources!StoreConstants, Sources!Key
  <1> DEFINE Dwindle ==
          \A k \in RefreshToken : sources[k] # None =>
              /\ Makers(k)' \subseteq Makers(k)
              /\ sources'[k] \notin {None, sources[k]} => sources'[k] \in Makers(k) \ Makers(k)'
  <1>d. ASSUME Sources!TypeOK, [Sources!Next]_(Sources!vars) PROVE Dwindle
    \* A step of one call that changes no source and misses none that is there.
    <2>c. ASSUME NEW w \in Worker, NEW r, caller' = [caller EXCEPT ![w] = r],
                 UNCHANGED sources, r.pc = "missed" => sources[r.key] = None
          PROVE  Dwindle
      <3>1. \A v \in Worker : caller'[v] = IF v = w THEN r ELSE caller[v]
        BY <1>d, <2>c DEF Sources!TypeOK
      <3> QED BY <2>c, <3>1 DEF Makers
    \* A source that is made.
    <2>m. ASSUME NEW w \in Worker, caller[w].pc = "missed", Sources!StoreSource(w, caller[w].key)
          PROVE  Dwindle
      <3> DEFINE k == caller[w].key
      <3>1. k \in Sources!Key
        BY <1>d, <2>m DEF Sources!TypeOK
      <3>2. /\ \A v \in Worker : v # w => caller'[v] = caller[v]
            /\ caller'[w].pc = "has"
            /\ sources'[k] = w /\ \A h \in Sources!Key : h # k => sources'[h] = sources[h]
        BY <1>d, <2>m, <3>1 DEF Sources!StoreSource, Sources!Answer, Sources!TypeOK
      <3> HIDE DEF k
      <3>3. ASSUME NEW h \in RefreshToken, sources[h] # None
            PROVE  /\ Makers(h)' \subseteq Makers(h)
                   /\ sources'[h] \notin {None, sources[h]} =>
                          sources'[h] \in Makers(h) \ Makers(h)'
        <4>1. Makers(h)' = Makers(h) \ {w}
          BY <3>2 DEF Makers
        <4>2. h = k => w \in Makers(h)
          BY <2>m DEF Makers, k
        <4> QED BY <3>2, <4>1, <4>2
      <3> QED BY <3>3
    <2>1. ASSUME NEW w \in Worker, NEW k \in Sources!Key, Sources!Find(w, k) PROVE Dwindle
      <3>1. CASE Sources!Found(k)
        BY <2>1, <3>1, <2>c DEF Sources!Find, Sources!Answer
      <3>2. CASE ~Sources!Found(k)
        BY <2>1, <3>2, <2>c DEF Sources!Find, Sources!Found
      <3> QED BY <3>1, <3>2
    <2>2. ASSUME NEW w \in Worker, Sources!SourceForRefreshToken(w) PROVE Dwindle
      BY <2>2, <2>m DEF Sources!SourceForRefreshToken
    <2>3. ASSUME NEW w \in Worker, Sources!SourceForCredentials(w) PROVE Dwindle
      <3>1. CASE Sources!FoundAgain(caller[w].key)
        BY <2>3, <3>1, <2>c DEF Sources!SourceForCredentials, Sources!Answer
      <3>2. CASE ~Sources!FoundAgain(caller[w].key)
        BY <2>3, <3>2, <2>m DEF Sources!SourceForCredentials
      <3> QED BY <3>1, <3>2
    <2>4. ASSUME NEW w \in Worker, Sources!BuildFails(w) \/ Sources!Release(w) PROVE Dwindle
      <3>1. Sources!NoCall.pc # "missed"
        BY DEF Sources!NoCall
      <3> QED BY <2>4, <3>1, <2>c DEF Sources!BuildFails, Sources!Release
    <2>5. CASE Sources!Restart
      BY <2>5 DEF Sources!Restart, Sources!NoCall, Makers
    <2>6. CASE UNCHANGED Sources!vars
      BY <2>6 DEF Sources!vars, Makers
    <2> QED BY <1>d, <2>1, <2>2, <2>3, <2>4, <2>5, <2>6 DEF Sources!Next
  <1>1. TypeOK /\ [Next]_vars => Dwindle
    BY <1>d, SourceSteps DEF TypeOK
  <1> QED BY <1>1, TypeCorrect, PTL DEF Spec
=============================================================================
