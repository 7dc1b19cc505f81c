------------------------------- MODULE SSASync -------------------------------
(***************************************************************************)
(* How the worker of one Object keeps the resource in line with the        *)
(* manifest (internal/controller/cluster/object/syncer.go): the patch-based*)
(* syncer, the syncer by server-side apply, the cache of desired states of *)
(* the latter (pkg/kube/client/ssa/cache/state), and the switch from one to*)
(* the other, which moves the fields the patch-based syncer owns over to   *)
(* the field manager of the Object.                                        *)
(*                                                                         *)
(* A field of the resource is abstracted to the field managers that own it:*)
(* the server removes a field nobody owns, and another manager that sets a *)
(* field to a value of its own is its only owner.  The last-applied        *)
(* annotation of the patch-based syncer is one more field.                 *)
(***************************************************************************)
EXTENDS Naturals, FiniteSets

CONSTANTS
    Field,               \* the fields of the resource
    Manifest,            \* the manifests users choose from
    Sets,                \* Sets[m]: the fields the manifest m sets
    RemoveManagedFields, \* the flag --remove-managed-fields
    MaxFaults            \* bound: failed calls, restarts, edits and acts of third parties

Annotation == "last-applied"
Key        == Field \cup {Annotation}
Manager    == {"ssa", "csa", "other"}

ASSUME SyncAssumption ==
    /\ Annotation \notin Field
    /\ Sets \in [Manifest -> SUBSET Field]
    /\ Manifest # {}
    /\ RemoveManagedFields \in BOOLEAN
    /\ MaxFaults \in Nat

VARIABLES
    manifest,  \* spec.forProvider.manifest
    stored,    \* the managed fields of status.atProvider.manifest, as stored
    own,       \* whether the Object has its own finalizer
    there,     \* whether the resource exists
    owner,     \* owner[k]: the managers that own the field k of the resource
    last,      \* the manifest the last-applied annotation holds, if owner[Annotation] # {}
    latest,    \* which observations ("stored", "seen") show the resource as it is
    mode,      \* the syncer of this process: "csa" patches, "ssa" applies
    desired,   \* the desired-state cache: at most one <<manifest, extracted fields>>
    worker,    \* the worker of the Object
    faults     \* faults, edits and third-party acts so far

vars == <<manifest, stored, own, there, owner, last, latest, mode, desired, worker, faults>>

resource == <<there, owner, last>>

Owners == [Key -> SUBSET Manager]

\* held: the manifest the worker read.  seen: its status.atProvider.  observed: what Observe
\* extracted from the resource.
WorkerRecord ==
    [pc : {"idle", "get", "desire", "finalize", "upgrade", "apply", "store"},
     held : Manifest, seen : Owners, observed : SUBSET Key, uptodate : BOOLEAN]

Unowned == [k \in Key |-> {}]
Idle    == [pc |-> "idle", held |-> CHOOSE m \in Manifest : TRUE, seen |-> Unowned,
            observed |-> {}, uptodate |-> FALSE]

TypeOK ==
    /\ manifest \in Manifest
    /\ stored \in Owners
    /\ own \in BOOLEAN
    /\ there \in BOOLEAN
    /\ owner \in Owners
    /\ last \in Manifest
    /\ latest \in SUBSET {"stored", "seen"}
    /\ mode \in {"csa", "ssa"}
    /\ desired \in SUBSET (Manifest \X SUBSET Key)
    /\ worker \in WorkerRecord
    /\ faults \in 0..MaxFaults

\* A new Object, and a resource that others may have created.
Init ==
    /\ manifest \in Manifest
    /\ stored = Unowned
    /\ own = FALSE
    /\ there \in BOOLEAN
    /\ owner = Unowned
    /\ last = manifest
    /\ latest = {}
    /\ mode = "csa"
    /\ desired = {}
    /\ worker = Idle
    /\ faults = 0

-----------------------------------------------------------------------------
(* The API server *)

\* The fields the field manager of the Object owns: what the extractor extracts.
Extracted(mf) == {k \in Key : "ssa" \in mf[k]}

\* The owners after a server-side apply of m: the Object takes what m sets, by force, and
\* gives up the rest.
AppliedSSA(m) ==
    [k \in Key |-> IF k \in Sets[m] THEN {"ssa"} \cup (owner[k] \ {"other"})
                   ELSE owner[k] \ {"ssa"}]

\* The owners after a patch with m and its annotation: it takes what it changes.
AppliedCSA(m) ==
    [k \in Key |->
        IF k = Annotation
        THEN IF owner[k] = {} \/ last # m THEN {"csa"} ELSE owner[k]
        ELSE IF k \in Sets[m] /\ owner[k] \cap {"ssa", "csa"} = {} THEN {"csa"} ELSE owner[k]]

\* The fields of the patch-based syncer handed over to the field manager of the Object.
TransferredElsewhere(mf) ==
    [k \in Key |-> IF "csa" \in mf[k] THEN (mf[k] \ {"csa"}) \cup {"apply"} ELSE mf[k]]
Transferred(mf) ==
    [k \in Key |-> IF "csa" \in mf[k] THEN (mf[k] \ {"csa"}) \cup {"ssa"} ELSE mf[k]]

-----------------------------------------------------------------------------
(* Users, third parties, the process *)

Disrupt == faults < MaxFaults /\ faults' = faults + 1

EditManifest ==
    /\ Disrupt
    /\ manifest' \in Manifest \ {manifest}
    /\ UNCHANGED <<stored, own, resource, latest, mode, desired, worker>>

Overwrite(f) ==
    /\ Disrupt
    /\ there /\ owner[f] # {"other"}
    /\ owner' = [owner EXCEPT ![f] = {"other"}]
    /\ latest' = {}
    /\ UNCHANGED <<manifest, stored, own, there, last, mode, desired, worker>>

Vanish ==
    /\ Disrupt
    /\ there
    /\ there' = FALSE
    /\ owner' = Unowned
    /\ latest' = {}
    /\ UNCHANGED <<manifest, stored, own, last, mode, desired, worker>>

\* The process starts again, with the syncer its flags choose and an empty cache.
Restart ==
    /\ Disrupt
    /\ mode' \in {"csa", "ssa"}
    /\ desired' = {}
    /\ worker' = Idle
    /\ UNCHANGED <<manifest, stored, own, resource, latest>>

CallFails ==
    /\ Disrupt
    /\ worker.pc # "idle"
    /\ worker' = Idle
    /\ UNCHANGED <<manifest, stored, own, resource, latest, mode, desired>>

-----------------------------------------------------------------------------
(* The worker *)

Goto(pc) == worker' = [worker EXCEPT !.pc = pc]

\* An observation made of, or copied from, another one is as old as that one.
Ages(copy, from) == IF from \in latest THEN latest \cup {copy} ELSE latest \ {copy}

Begin ==
    /\ worker.pc = "idle"
    /\ worker' = [Idle EXCEPT !.pc = "get", !.held = manifest, !.seen = stored]
    /\ latest' = Ages("seen", "stored")
    /\ UNCHANGED <<manifest, stored, own, resource, mode, desired, faults>>

\* setAtProvider: what status.atProvider says of the managed fields.
AtProviderUnset(mf) == worker.seen
AtProvider(mf) == IF RemoveManagedFields THEN Unowned ELSE mf

\* The Get of Observe.  The patch-based syncer compares the annotation with the manifest.
Get ==
    /\ worker.pc = "get"
    /\ IF ~there
       THEN Goto("finalize") /\ UNCHANGED latest
       ELSE /\ worker' = [worker EXCEPT
                    !.pc = IF mode = "ssa" THEN "desire" ELSE "finalize",
                    !.seen = AtProvider(owner),
                    !.observed = Extracted(owner),
                    !.uptodate = mode = "csa" /\ owner[Annotation] # {} /\ last = worker.held]
            /\ latest' = latest \cup {"seen"}
    /\ UNCHANGED <<manifest, stored, own, resource, mode, desired, faults>>

\* needSSAFieldManagerUpgrade
NeedsUpgrade(mf) == \E k \in Key : "csa" \in mf[k]

\* GetStateFor: the cached state if it was extracted for the manifest.
CachedForAny(m) == desired
CachedFor(m) == {e \in desired : e[1] = m}

\* What a dry run of the apply returns, as far as it may be compared and cached.
DryRunUnchecked(m) == {<<m, Extracted(AppliedSSA(m))>>}
DryRun(m) ==
    IF NeedsUpgrade(AppliedSSA(m)) THEN {} ELSE {<<m, Extracted(AppliedSSA(m))>>}

\* GetDesiredState by server-side apply, and the comparison with what was observed.  No
\* desired state is a drift.
Desire ==
    LET cached == CachedFor(worker.held)
        state  == IF cached # {} THEN cached ELSE DryRun(worker.held)
    IN  /\ worker.pc = "desire"
        /\ worker' = [worker EXCEPT
                !.pc = "finalize", !.uptodate = \E e \in state : e[2] = worker.observed]
        /\ desired' = state
        /\ UNCHANGED <<manifest, stored, own, resource, latest, mode, faults>>

\* AddFinalizer: the response to its Update overwrites the status in memory.  Then a drift
\* is synced.
Finalize ==
    LET next == IF worker.uptodate THEN "store" ELSE IF mode = "ssa" THEN "upgrade" ELSE "apply"
    IN  /\ worker.pc = "finalize"
        /\ own' = TRUE
        /\ IF own
           THEN Goto(next) /\ UNCHANGED latest
           ELSE /\ worker' = [worker EXCEPT !.pc = next, !.seen = stored]
                /\ latest' = Ages("seen", "stored")
        /\ UNCHANGED <<manifest, stored, resource, mode, desired, faults>>

\* The patch is made for the resourceVersion in status.atProvider.
UpgradableUnchecked == there
Upgradable == there /\ "seen" \in latest

\* maybeUpgradeFieldManagers
Upgrade ==
    /\ worker.pc = "upgrade"
    /\ IF ~NeedsUpgrade(worker.seen)
       THEN Goto("apply") /\ UNCHANGED <<owner, latest>>
       ELSE IF Upgradable
            THEN /\ owner' = Transferred(worker.seen)
                 /\ latest' = {}
                 /\ Goto("apply")
            ELSE Goto("store") /\ UNCHANGED <<owner, latest>>
    /\ UNCHANGED <<manifest, stored, own, there, last, mode, desired, faults>>

\* The Patch of SyncResource, which creates what is absent.
Apply ==
    /\ worker.pc = "apply"
    /\ there' = TRUE
    /\ IF mode = "ssa"
       THEN owner' = AppliedSSA(worker.held) /\ UNCHANGED last
       ELSE owner' = AppliedCSA(worker.held) /\ last' = worker.held
    /\ worker' = [worker EXCEPT !.pc = "store", !.seen = AtProvider(owner')]
    /\ latest' = {"seen"}
    /\ UNCHANGED <<manifest, stored, own, mode, desired, faults>>

\* The reconciler stores the status, on success and on failure; the server refuses it when
\* the Object was edited meanwhile.
Store ==
    /\ worker.pc = "store"
    /\ IF worker.held = manifest
       THEN stored' = worker.seen /\ latest' = Ages("stored", "seen") \ {"seen"}
       ELSE latest' = latest \ {"seen"} /\ UNCHANGED stored
    /\ worker' = Idle
    /\ UNCHANGED <<manifest, own, resource, mode, desired, faults>>

Reconcile == Begin \/ Get \/ Desire \/ Finalize \/ Upgrade \/ Apply \/ Store

Next ==
    \/ Reconcile \/ CallFails \/ Restart \/ EditManifest \/ Vanish
    \/ \E f \in Field : Overwrite(f)

Spec == Init /\ [][Next]_vars

\* The workqueue polls the Object for ever.
FairSpec == Spec /\ WF_vars(Reconcile)

-----------------------------------------------------------------------------
(* Properties *)

\* An Object reported up to date (handleObservation) is: what the manifest sets is applied,
\* unless someone wrote the resource since it was read, and nothing the provider applied
\* before, by either syncer, is left of earlier manifests.
UpToDateIsTrue ==
    worker.pc = "finalize" /\ worker.uptodate /\ mode = "ssa" =>
        /\ "seen" \in latest => Extracted(owner) = Sets[worker.held]
        /\ \A k \in Key \ Sets[worker.held] : owner[k] \subseteq {"other"}

\* docs/server-side-apply.md: entries of "other external managers are not modified during
\* this switch", though the patch rewrites the whole list from an earlier observation.
OthersKeepOwnership ==
    [][Upgrade => \A k \in Key : ("other" \in owner[k]) = ("other" \in owner'[k])]_vars

\* docs/server-side-apply.md: the provider "automatically handles the switch": fields of the
\* patch-based syncer do not stay with it.
SwitchCompletes ==
    <>[](mode = "ssa") => <>[](\A k \in Key : "csa" \notin owner[k])

\* While the resource is there, drift ends: it has what the manifest sets and no more.
ConvergesWhilePresent ==
    <>[](mode = "ssa" /\ there) => <>[](Extracted(owner) = Sets[manifest])

\* The comment in maybeUpgradeFieldManagers: a patch made from an old observation is "safely
\* rejected, then requeued".  The requeued worker gets there, the resource gone or not.
ComesBack ==
    <>[](mode = "ssa") => <>[](there /\ Extracted(owner) = Sets[manifest])
=============================================================================
