------------------------------- MODULE Readiness -------------------------------
(***************************************************************************)
(* The end of Observe in object.go: the Ready condition by the readiness   *)
(* policy of an Object, the manifest in its status, and the connection     *)
(* details.  handleObservation's report is ObjectLifecycle's Observation;  *)
(* here is what it does to the condition and the connection secret.        *)
(***************************************************************************)
EXTENDS Naturals, Sequences

CONSTANTS
    Key,    \* the keys of a connection secret
    Value   \* the values of fields

Condition == [type : {"Ready", "other"}, status : {"True", "False", "Unknown"}]

\* What is observed: conditions "bad" when there is no status, or one that does not parse.
\* query: how the CEL query of the Object fares on it.
Query ==
    {"empty", "noEnvironment", "noCompile", "notBool", "noProgram", "noJSON", "noEval",
     "true", "notTrue"}

Observed ==
    [conditions : Seq(Condition) \cup {"bad"}, secret : BOOLEAN,
     managedFields : BOOLEAN, data : Value, rest : Value, query : Query]

ReadinessPolicy == {"", "SuccessfulCreate", "DeriveFromObject", "AllTrue", "DeriveFromCelQuery"}

\* The Ready condition of an Object.
Ready == [status : {"Available", "Unavailable", "unset"}, message : BOOLEAN]

Available   == [status |-> "Available", message |-> FALSE]
Unavailable == [status |-> "Unavailable", message |-> FALSE]

-----------------------------------------------------------------------------
(* Readiness *)

\* GetCondition takes the first of the type.
CheckDeriveFromObject(u) ==
    /\ u.conditions # "bad"
    /\ \E i \in DOMAIN u.conditions :
        /\ u.conditions[i] = [type |-> "Ready", status |-> "True"]
        /\ \A j \in 1..(i - 1) : u.conditions[j].type # "Ready"

CheckAllConditions(u) ==
    /\ u.conditions # "bad"
    /\ Len(u.conditions) > 0
    /\ \A i \in DOMAIN u.conditions : u.conditions[i].status = "True"

\* A query that compiles to no boolean wraps an error that is nil: there is none.
CelQueryFails(u) == u.query \notin {"notBool", "true", "notTrue"}
CheckDeriveFromCelQuery(u) == u.query = "true"

UpdateConditionFromObserved(policy, ready, u) ==
    CASE policy = "DeriveFromObject" -> IF CheckDeriveFromObject(u) THEN Available ELSE Unavailable
      [] policy = "AllTrue" -> IF CheckAllConditions(u) THEN Available ELSE Unavailable
      [] policy = "DeriveFromCelQuery" ->
            IF CelQueryFails(u) THEN [Unavailable EXCEPT !.message = TRUE]
            ELSE IF CheckDeriveFromCelQuery(u) THEN Available ELSE Unavailable
      [] OTHER -> ready

\* The manifest in the status.
SetAtProvider(u, removeManagedFields, sanitizeSecrets) ==
    [managedFields |-> u.managedFields /\ ~removeManagedFields,
     data |-> IF sanitizeSecrets /\ u.secret THEN "redacted" ELSE u.data,
     rest |-> u.rest]

-----------------------------------------------------------------------------
(* Connection details *)

\* fetch: a field that is read, or what goes wrong with it.
Detail == [key : Key, fetch : Value \cup {"noObject", "noField", "badBase64"}]

DetailFails(cd) == cd.fetch \in {"noObject", "noField", "badBase64"}

\* A later detail of one key wins.
ConnectionDetails(details) ==
    [k \in {details[i].key : i \in DOMAIN details} |->
        LET last == CHOOSE i \in DOMAIN details :
                        /\ details[i].key = k
                        /\ \A j \in DOMAIN details : details[j].key = k => j <= i
        IN  details[last].fetch]

NoDetails == [k \in {} |-> "none"]

\* handleObservation.  upToDate: nothing to create or update, or no policy to do so.
HandleObservation(policy, ready, upToDate, deleted, details) ==
    LET readied == IF policy \in {"SuccessfulCreate", ""} THEN Available ELSE ready
    IN  IF ~upToDate THEN [ready |-> ready, fails |-> FALSE, details |-> NoDetails]
        ELSE IF deleted THEN [ready |-> readied, fails |-> FALSE, details |-> NoDetails]
        ELSE IF \E i \in DOMAIN details : DetailFails(details[i])
            THEN [ready |-> readied, fails |-> TRUE, details |-> NoDetails]
        ELSE [ready |-> readied, fails |-> FALSE, details |-> ConnectionDetails(details)]

\* Observe of an Object whose resource is there.
Observe(policy, ready, u, upToDate, deleted, details) ==
    HandleObservation(policy, UpdateConditionFromObserved(policy, ready, u), upToDate, deleted,
                      details)
===============================================================================
