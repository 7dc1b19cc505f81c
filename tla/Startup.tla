-------------------------------- MODULE Startup --------------------------------
(***************************************************************************)
(* What main makes of its flags, of its permissions and of the cluster: the*)
(* features and options of the controllers, which of them run, and how soon*)
(* they look at an Object or a collection again (cmd/provider/main.go, the *)
(* Setup and SetupGated functions).                                        *)
(***************************************************************************)
EXTENDS Integers, Sequences

CONSTANT FieldManager  \* the names of field managers

\* A controller and the scope of its package.  The namespaced package has a controller of
\* ProviderConfigs and one of ClusterProviderConfigs, which its Setup adds in this order.
Scope == {"cluster", "namespaced"}
Controller ==
    (Scope \X {"ProviderConfig", "Object", "ObservedObjectCollection"})
        \cup {<<"namespaced", "ClusterProviderConfig">>}

Configs(scope) == {c \in Controller : c[1] = scope /\ c[2] \in {"ProviderConfig", "ClusterProviderConfig"}}

CRD == Controller \cup (Scope \X {"ProviderConfigUsage"})

\* jitter: in per cent.  socket: the client of the change logs can be made.
Flags ==
    [jitter : Nat, managementPolicies : BOOLEAN, watches : BOOLEAN, serverSideApply : BOOLEAN,
     changeLogs : BOOLEAN, socket : BOOLEAN, legacyCSAFieldManagers : SUBSET FieldManager]

\* access: the answer to a review of each verb on CRDs, in this order.
Access == [{"get", "list", "watch"} -> {"allowed", "denied", "error"}]
Verbs == <<"get", "list", "watch">>

-----------------------------------------------------------------------------
(* Options *)

Features(flags) ==
    {f \in {"managementPolicies", "watches", "serverSideApply", "changeLogs"} : flags[f]}

\* The field managers that are upgraded: none unless server-side apply is enabled, else the
\* default one and those of the flag.
LegacyCSAFieldManagers(flags, default) ==
    IF "serverSideApply" \in Features(flags) THEN {default} \cup flags.legacyCSAFieldManagers ELSE {}

\* canWatchCRD: the first verb that is not allowed decides.
CanWatchCRD(access) ==
    LET Decides(i) == access[Verbs[i]] # "allowed" /\ \A j \in 1..(i - 1) : access[Verbs[j]] = "allowed"
    IN  CASE \E i \in 1..3 : Decides(i) /\ access[Verbs[i]] = "error" -> "error"
          [] \E i \in 1..3 : Decides(i) /\ access[Verbs[i]] = "denied" -> "denied"
          [] OTHER -> "allowed"

-----------------------------------------------------------------------------
(* Controllers *)

\* What SetupGated waits for, CRD by CRD.
Awaited(c) ==
    IF c \in Configs(c[1]) THEN Configs(c[1]) \cup {<<c[1], "ProviderConfigUsage">>} ELSE {c}

\* The Setup of c is not reached when one before it in the same call fails.
SetUpBefore(c) ==
    IF c = <<"namespaced", "ClusterProviderConfig">> THEN {<<"namespaced", "ProviderConfig">>} ELSE {}

\* main ends before its manager starts.  failing: the controllers whose Setup fails.
Fatal(flags, access, failing) ==
    \/ flags.jitter >= 100
    \/ flags.changeLogs /\ ~flags.socket
    \/ CanWatchCRD(access) = "error"
    \/ CanWatchCRD(access) = "denied" /\ failing # {}

\* The controllers that run once the cluster has had these CRDs.  A gate only logs a Setup
\* that fails, and calls it once.
Running(flags, access, failing, crds) ==
    IF Fatal(flags, access, failing) THEN {}
    ELSE IF CanWatchCRD(access) = "denied" THEN Controller
    ELSE {c \in Controller : Awaited(c) \subseteq crds /\ (SetUpBefore(c) \cup {c}) \cap failing = {}}

-----------------------------------------------------------------------------
(* Polls *)

\* The poll interval hook of an Object: 30 seconds while it is not ready.
Interval(pollInterval, second, ready) == IF ready THEN pollInterval ELSE 30 * second

Jitter(interval, percentage) == (interval * percentage) \div 100

\* What a poll may come to, for a random number from 0 to under 1.
PollIntervals(interval, percentage) ==
    (interval - Jitter(interval, percentage))..(interval + Jitter(interval, percentage))
===============================================================================
