------------------------------ MODULE SourceStore ------------------------------
(***************************************************************************)
(* The stores that let workers with one set of credentials share a token   *)
(* source: that of OAuth refresh tokens (pkg/kube/client/token/store.go)   *)
(* and that of Nebius clients (pkg/kube/client/nebius/store.go).  Both read*)
(* under a shared lock and write under an exclusive one, and in between    *)
(* other workers do the same.                                              *)
(***************************************************************************)
EXTENDS Naturals, FiniteSets

CONSTANTS
    Worker,        \* the workers
    RefreshToken,  \* the keys of the one store
    Credentials,   \* and of the other
    None,          \* no source, no key
    MaxFailures    \* bound: failed calls and restarts

Key == RefreshToken \cup Credentials

\* What the proofs take for granted.
StoreConstants ==
    /\ RefreshToken \cap Credentials = {}
    /\ None \notin Worker \cup Key
    /\ MaxFailures \in Nat

VARIABLES
    sources,   \* sources[k]: the worker that made the source stored under k
    clients,   \* the <<k, w>> of the sources made since the start: a Nebius client never stops
    caller,    \* caller[w]: where the call of w stands
    failures   \* failed calls and restarts so far, no part of the state

vars == <<sources, clients, caller>>

\* source: the worker that made the source in the hand of the caller.
CallerRecord ==
    [pc : {"idle", "missed", "has"}, key : Key \cup {None}, source : Worker \cup {None}]

NoCall == [pc |-> "idle", key |-> None, source |-> None]

TypeOK ==
    /\ sources \in [Key -> Worker \cup {None}]
    /\ clients \in SUBSET (Key \X Worker)
    /\ caller \in [Worker -> CallerRecord]
    /\ \A w \in Worker : caller[w].pc # "idle" => caller[w].key \in Key

Init ==
    /\ sources = [k \in Key |-> None]
    /\ clients = {}
    /\ caller = [w \in Worker |-> NoCall]
    /\ failures = 0

Failure == failures < MaxFailures /\ failures' = failures + 1

Answer(w, k, source) == caller' = [caller EXCEPT ![w] = [pc |-> "has", key |-> k, source |-> source]]

\* A source made by w for k, stored in place of what is there, if anything.
StoreSourceForgotten(w, k) ==
    /\ UNCHANGED sources
    /\ clients' = clients \cup {<<k, w>>}
    /\ Answer(w, k, w)
StoreSource(w, k) ==
    /\ sources' = [sources EXCEPT ![k] = w]
    /\ clients' = clients \cup {<<k, w>>}
    /\ Answer(w, k, w)

\* The check under the shared lock, in either store.
FoundNever(k) == FALSE
Found(k) == sources[k] # None

Find(w, k) ==
    /\ caller[w].pc = "idle"
    /\ IF Found(k)
       THEN Answer(w, k, sources[k])
       ELSE caller' = [caller EXCEPT ![w] = [pc |-> "missed", key |-> k, source |-> None]]
    /\ UNCHANGED <<sources, clients, failures>>

\* SourceForRefreshToken stores without another look.
SourceForRefreshToken(w) ==
    LET k == caller[w].key
    IN  /\ caller[w].pc = "missed" /\ k \in RefreshToken
        /\ StoreSource(w, k)
        /\ UNCHANGED failures

\* SourceForCredentials looks again, and builds under the exclusive lock.
FoundAgainSkipped(k) == FALSE
FoundAgain(k) == sources[k] # None

SourceForCredentials(w) ==
    LET k == caller[w].key
    IN  /\ caller[w].pc = "missed" /\ k \in Credentials
        /\ IF FoundAgain(k)
           THEN Answer(w, k, sources[k]) /\ UNCHANGED <<sources, clients>>
           ELSE StoreSource(w, k)
        /\ UNCHANGED failures

\* A client that cannot be built is not remembered.
BuildFails(w) ==
    /\ Failure
    /\ caller[w].pc = "missed" /\ caller[w].key \in Credentials /\ ~FoundAgain(caller[w].key)
    /\ caller' = [caller EXCEPT ![w] = NoCall]
    /\ UNCHANGED <<sources, clients>>

\* The reconcile that uses the source is over.
Release(w) ==
    /\ caller[w].pc = "has"
    /\ caller' = [caller EXCEPT ![w] = NoCall]
    /\ UNCHANGED <<sources, clients, failures>>

Restart ==
    /\ Failure
    /\ sources' = [k \in Key |-> None]
    /\ clients' = {}
    /\ caller' = [w \in Worker |-> NoCall]

Next ==
    \/ \E w \in Worker :
        \/ SourceForRefreshToken(w) \/ SourceForCredentials(w) \/ BuildFails(w) \/ Release(w)
        \/ \E k \in Key : Find(w, k)
    \/ Restart

Spec == Init /\ [][Next]_vars
-----------------------------------------------------------------------------
(* Properties *)

\* Of the sources, those of Nebius.
Atomic == INSTANCE AtomicStore WITH
    Key    <- Credentials,
    made   <- {s \in clients : s[1] \in Credentials},
    stored <- [k \in Credentials |-> sources[k]],
    uses   <- [w \in Worker |->
                  IF caller[w].pc = "has" /\ caller[w].key \in Credentials
                  THEN <<caller[w].key, caller[w].source>> ELSE None]

\* nebius/store.go: "concurrent reconciles for the same credentials never construct (and
\* leak) more than one client"; they all work as if the look and the making were one step.
StoreIsAtomic == Atomic!Spec

\* So no client is in use, or was made and forgotten, but the one in the store.
OneClientPerCredentials == Atomic!OneSourcePerKey
=============================================================================
