------------------------------ MODULE StateCaches ------------------------------
(***************************************************************************)
(* The desired-state caches of the Objects of one controller               *)
(* (pkg/kube/client/ssa/cache/state): one entry per UID, with the state a  *)
(* dry run gave for one manifest.  SSASync follows the entry of one Object.*)
(* The hash of a manifest stands for the manifest.                         *)
(***************************************************************************)
\* An entry without a state: a new one, or one that SetStateFor invalidated.
NoState == "nil"
New == [extracted |-> NoState, hash |-> "none"]

\* LoadOrNewForManaged looks again under the exclusive lock, so that it takes effect at once.
LoadOrNewForManaged(store, uid) ==
    [u \in DOMAIN store \cup {uid} |-> IF u \in DOMAIN store THEN store[u] ELSE New]

\* Remove, which Delete calls and nothing else.
Remove(store, uid) == [u \in DOMAIN store \ {uid} |-> store[u]]

\* SetStateFor of the entry of uid, for the manifest m.
SetStateFor(store, uid, m, state) ==
    [store EXCEPT ![uid] = [extracted |-> state, hash |-> m]]

GetStateFor(store, uid, m) == IF store[uid].hash = m THEN store[uid].extracted ELSE NoState

\* The caches after an Observe of the Object uid that got as far as GetDesiredState.
Observed(store, uid, m, state) == SetStateFor(LoadOrNewForManaged(store, uid), uid, m, state)
===============================================================================
