----------------------------- MODULE SSASync_proofs -----------------------------
(***************************************************************************)
(* Proofs about SSASync: its types, that an Object which is reported up to *)
(* date is, and that the switch from one syncer to the other takes nothing *)
(* from other managers and is never undone while a process applies.        *)
(***************************************************************************)
EXTENDS SSASync, TLAPS

-----------------------------------------------------------------------------
(* Types *)

LEMMA OwnersTypes ==
    ASSUME TypeOK, NEW mf \in Owners, NEW m \in Manifest
    PROVE  /\ Extracted(mf) \in SUBSET Key
           /\ AppliedSSA(m) \in Owners
           /\ AppliedCSA(m) \in Owners
           /\ Transferred(mf) \in Owners
           /\ AtProvider(mf) \in Owners
           /\ Unowned \in Owners
<1>1. owner \in Owners
  BY DEF TypeOK
<1> QED BY <1>1 DEF Extracted, AppliedSSA, AppliedCSA, Transferred, AtProvider, Unowned, Owners,
            Manager

LEMMA IdleType == Idle \in WorkerRecord
  BY SyncAssumption DEF Idle, WorkerRecord, Unowned, Owners

LEMMA AgesType ==
    ASSUME TypeOK, NEW copy \in {"stored", "seen"}, NEW from
    PROVE  Ages(copy, from) \in SUBSET {"stored", "seen"}
BY DEF TypeOK, Ages

LEMMA InitType == Init => TypeOK
<1> SUFFICES ASSUME Init PROVE TypeOK
  OBVIOUS
<1>1. Unowned \in Owners
  BY DEF Unowned, Owners
<1>2. stored \in Owners /\ owner \in Owners
  BY <1>1 DEF Init
<1>3. faults \in 0..MaxFaults
  BY SyncAssumption DEF Init
<1>4. worker \in WorkerRecord
  BY IdleType DEF Init
<1> QED BY <1>2, <1>3, <1>4 DEF Init, TypeOK

LEMMA NextType == TypeOK /\ [Next]_vars => TypeOK'
<1> SUFFICES ASSUME TypeOK, [Next]_vars PROVE TypeOK'
  OBVIOUS
<1>0. worker.held \in Manifest /\ worker.seen \in Owners /\ owner \in Owners
  BY DEF TypeOK, WorkerRecord
<1>a. Disrupt => faults' \in 0..MaxFaults
  BY SyncAssumption DEF Disrupt, TypeOK
<1>1. CASE EditManifest
  BY <1>a, <1>1 DEF EditManifest, TypeOK, resource
<1>2. ASSUME NEW f \in Field, Overwrite(f) PROVE TypeOK'
  <2>1. owner' \in Owners
    BY <1>0, <1>2 DEF Overwrite, Owners, Manager
  <2> QED BY <1>a, <1>2, <2>1 DEF Overwrite, TypeOK
<1>3. CASE Vanish
  <2>1. owner' \in Owners
    BY <1>3, OwnersTypes DEF Vanish, Unowned, Owners
  <2> QED BY <1>a, <1>3, <2>1 DEF Vanish, TypeOK
<1>4. CASE Restart
  BY <1>a, <1>4, IdleType DEF Restart, TypeOK, resource
<1>5. CASE CallFails
  BY <1>a, <1>5, IdleType DEF CallFails, TypeOK, resource
<1>6. CASE Begin
  <2>1. worker' \in WorkerRecord
    BY <1>6, IdleType DEF Begin, TypeOK, WorkerRecord
  <2>2. latest' \in SUBSET {"stored", "seen"}
    BY <1>6, AgesType DEF Begin
  <2> QED BY <1>6, <2>1, <2>2 DEF Begin, TypeOK, resource
<1>7. CASE Get
  <2>1. AtProvider(owner) \in Owners /\ Extracted(owner) \in SUBSET Key
    BY <1>0, OwnersTypes
  <2>2. worker' \in WorkerRecord
    BY <1>7, <2>1 DEF Get, Goto, TypeOK, WorkerRecord
  <2> QED BY <1>7, <2>2 DEF Get, TypeOK, resource
<1>8. CASE Desire
  <2>1. worker' \in WorkerRecord
    BY <1>8 DEF Desire, TypeOK, WorkerRecord
  <2>2. DryRun(worker.held) \in SUBSET (Manifest \X SUBSET Key)
    <3>1. AppliedSSA(worker.held) \in Owners
      BY <1>0, OwnersTypes
    <3>2. Extracted(AppliedSSA(worker.held)) \in SUBSET Key
      BY <1>0, <3>1, OwnersTypes
    <3> QED BY <1>0, <3>2 DEF DryRun
  <2>3. CachedFor(worker.held) \in SUBSET (Manifest \X SUBSET Key)
    BY DEF CachedFor, TypeOK
  <2>4. desired' \in SUBSET (Manifest \X SUBSET Key)
    BY <1>8, <2>2, <2>3 DEF Desire
  <2> QED BY <1>8, <2>1, <2>4 DEF Desire, TypeOK, resource
<1>9. CASE Finalize
  <2>1. worker' \in WorkerRecord
    BY <1>9 DEF Finalize, Goto, TypeOK, WorkerRecord
  <2>2. latest' \in SUBSET {"stored", "seen"}
    BY <1>9, AgesType DEF Finalize, TypeOK
  <2> QED BY <1>9, <2>1, <2>2 DEF Finalize, TypeOK, resource
<1>10. CASE Upgrade
  <2>1. owner' \in Owners
    BY <1>0, <1>10, OwnersTypes DEF Upgrade
  <2>2. worker' \in WorkerRecord
    BY <1>10 DEF Upgrade, Goto, TypeOK, WorkerRecord
  <2> QED BY <1>10, <2>1, <2>2 DEF Upgrade, TypeOK
<1>11. CASE Apply
  <2>1. owner' \in Owners /\ last' \in Manifest
    BY <1>0, <1>11, OwnersTypes DEF Apply, TypeOK
  <2>2. AtProvider(owner') \in Owners
    BY <2>1, OwnersTypes
  <2>3. worker' \in WorkerRecord
    BY <1>11, <2>2 DEF Apply, TypeOK, WorkerRecord
  <2> QED BY <1>11, <2>1, <2>3 DEF Apply, TypeOK
<1>12. CASE Store
  <2>1. latest' \in SUBSET {"stored", "seen"}
    BY <1>12, AgesType DEF Store, TypeOK
  <2> QED BY <1>0, <1>12, <2>1, IdleType DEF Store, TypeOK, resource
<1>13. CASE UNCHANGED vars
  BY <1>13 DEF vars, TypeOK
<1> QED BY <1>1, <1>2, <1>3, <1>4, <1>5, <1>6, <1>7, <1>8, <1>9, <1>10, <1>11, <1>12, <1>13
        DEF Next, Reconcile

\* The state keeps its types whatever the worker, users and others do.
THEOREM TypeCorrect == Spec => []TypeOK
  BY InitType, NextType, PTL DEF Spec

-----------------------------------------------------------------------------
(* Up to date *)

Patched == \E k \in Key : "csa" \in owner[k]

\* What is in the cache was extracted for its manifest, in a process that applies, when no
\* field was left of the patch-based syncer; only a process that patches brings one back.
CacheIsTrue ==
    /\ desired # {} => mode = "ssa" /\ ~Patched
    /\ \A e \in desired : e[2] = Sets[e[1]]

\* Between Get and Desire the Object gains no field that was not observed, and loses none
\* unless somebody writes the resource.
ObservedIsTrue ==
    worker.pc = "desire" =>
        /\ mode = "ssa"
        /\ Extracted(owner) \subseteq worker.observed
        /\ "seen" \in latest => worker.observed \subseteq Extracted(owner)

\* A worker that has yet to read has no verdict; one that has is right.
VerdictIsTrue ==
    /\ worker.pc = "get" => ~worker.uptodate
    /\ worker.pc = "finalize" /\ worker.uptodate /\ mode = "ssa" =>
        /\ ~Patched
        /\ Extracted(owner) \subseteq Sets[worker.held]
        /\ "seen" \in latest => Sets[worker.held] \subseteq Extracted(owner)

IInv == TypeOK /\ CacheIsTrue /\ ObservedIsTrue /\ VerdictIsTrue

LEMMA ExtractedFacts ==
    ASSUME TypeOK, NEW m \in Manifest
    PROVE  /\ Extracted(AppliedSSA(m)) = Sets[m]
           /\ ~NeedsUpgrade(AppliedSSA(m)) => ~Patched
<1>1. Sets[m] \subseteq Key
  BY SyncAssumption DEF Key
<1>2. ASSUME NEW k \in Key PROVE "ssa" \in AppliedSSA(m)[k] <=> k \in Sets[m]
  BY DEF AppliedSSA
<1>3. ASSUME NEW k \in Key, "csa" \in owner[k] PROVE "csa" \in AppliedSSA(m)[k]
  BY <1>3 DEF AppliedSSA
<1> QED BY <1>1, <1>2, <1>3 DEF Extracted, NeedsUpgrade, Patched

\* Others only take fields away from the Object and from the patch-based syncer.
LEMMA TakenAway ==
    ASSUME TypeOK, \A k \in Key : owner'[k] \subseteq owner[k] \cup {"other"}
    PROVE  /\ Extracted(owner') \subseteq Extracted(owner)
           /\ Patched' => Patched
BY DEF Extracted, Patched

LEMMA InvInit == Init => IInv
  BY InitType DEF Init, IInv, CacheIsTrue, ObservedIsTrue, VerdictIsTrue, Idle

LEMMA InvNext == IInv /\ [Next]_vars => IInv'
<1> SUFFICES ASSUME IInv, [Next]_vars PROVE IInv'
  OBVIOUS
<1> USE DEF IInv
<1>t. TypeOK /\ TypeOK'
  BY NextType
<1>0. worker.held \in Manifest /\ owner \in Owners
  BY <1>t DEF TypeOK, WorkerRecord
<1>1. CASE EditManifest
  BY <1>t, <1>1 DEF EditManifest, resource, CacheIsTrue, ObservedIsTrue, VerdictIsTrue, Patched
<1>2. ASSUME NEW f \in Field, Overwrite(f) PROVE IInv'
  <2>1. /\ \A k \in Key : owner'[k] \subseteq owner[k] \cup {"other"}
        /\ latest' = {} /\ UNCHANGED <<mode, desired, worker>>
    BY <1>0, <1>2 DEF Overwrite, Owners
  <2> QED BY <1>t, <2>1, TakenAway DEF CacheIsTrue, ObservedIsTrue, VerdictIsTrue
<1>3. CASE Vanish
  <2>1. /\ \A k \in Key : owner'[k] \subseteq owner[k] \cup {"other"}
        /\ latest' = {} /\ UNCHANGED <<mode, desired, worker>>
    BY <1>3 DEF Vanish, Unowned
  <2> QED BY <1>t, <2>1, TakenAway DEF CacheIsTrue, ObservedIsTrue, VerdictIsTrue
<1>4. CASE Restart
  BY <1>t, <1>4 DEF Restart, Idle, CacheIsTrue, ObservedIsTrue, VerdictIsTrue
<1>5. CASE CallFails
  BY <1>t, <1>5
     DEF CallFails, Idle, resource, CacheIsTrue, ObservedIsTrue, VerdictIsTrue, Patched
<1>6. CASE Begin
  BY <1>t, <1>6 DEF Begin, Idle, resource, CacheIsTrue, ObservedIsTrue, VerdictIsTrue, Patched
<1>7. CASE Get
  <2>1. CacheIsTrue'
    BY <1>7 DEF Get, resource, CacheIsTrue, Patched
  <2>2. worker' \in WorkerRecord /\ worker \in WorkerRecord
    BY <1>t DEF TypeOK
  <2>3. CASE ~there
    BY <1>t, <1>7, <2>1, <2>2, <2>3
       DEF Get, Goto, resource, ObservedIsTrue, VerdictIsTrue, WorkerRecord
  <2>4. CASE there /\ mode = "ssa"
    <3>1. worker'.pc = "desire" /\ worker'.observed = Extracted(owner)
      BY <1>7, <2>2, <2>4 DEF Get, WorkerRecord
    <3>2. UNCHANGED <<owner, mode>>
      BY <1>7 DEF Get, resource
    <3>3. ObservedIsTrue'
      BY <2>4, <3>1, <3>2 DEF ObservedIsTrue, Extracted
    <3>4. VerdictIsTrue'
      BY <3>1 DEF VerdictIsTrue
    <3> QED BY <1>t, <2>1, <3>3, <3>4
  <2>5. CASE there /\ mode # "ssa"
    <3>1. worker'.pc = "finalize" /\ mode' # "ssa"
      BY <1>7, <2>2, <2>5 DEF Get, WorkerRecord
    <3> QED BY <1>t, <2>1, <3>1 DEF ObservedIsTrue, VerdictIsTrue
  <2> QED BY <2>3, <2>4, <2>5
<1>8. CASE Desire
  <2> DEFINE m == worker.held
  <2> DEFINE state == IF CachedFor(m) # {} THEN CachedFor(m) ELSE DryRun(m)
  <2>1. /\ worker.pc = "desire" /\ mode = "ssa"
        /\ worker'.pc = "finalize" /\ worker'.held = m
        /\ worker'.uptodate = (\E e \in state : e[2] = worker.observed)
        /\ desired' = state
        /\ UNCHANGED <<owner, latest, mode>>
    BY <1>t, <1>8 DEF Desire, ObservedIsTrue, resource, TypeOK, WorkerRecord
  <2>2. \A e \in state : e[1] = m /\ e[2] = Sets[m]
    <3>1. \A e \in CachedFor(m) : e[1] = m /\ e[2] = Sets[m]
      BY DEF CachedFor, CacheIsTrue
    <3>2. \A e \in DryRun(m) : e[1] = m /\ e[2] = Sets[m]
      BY <1>t, <1>0, ExtractedFacts DEF DryRun
    <3> QED BY <3>1, <3>2
  <2>3. state # {} => ~Patched
    <3>1. CachedFor(m) # {} => ~Patched
      BY DEF CachedFor, CacheIsTrue
    <3>2. DryRun(m) # {} => ~Patched
      BY <1>t, <1>0, ExtractedFacts DEF DryRun
    <3> QED BY <3>1, <3>2
  <2> HIDE DEF state
  <2>4. CacheIsTrue'
    BY <2>1, <2>2, <2>3 DEF CacheIsTrue, Patched
  <2>5. VerdictIsTrue'
    <3> SUFFICES ASSUME worker'.uptodate
                 PROVE  /\ ~Patched
                        /\ Extracted(owner) \subseteq Sets[m]
                        /\ "seen" \in latest => Sets[m] \subseteq Extracted(owner)
      BY <2>1 DEF VerdictIsTrue, Patched, Extracted
    <3>1. worker.observed = Sets[m] /\ state # {}
      BY <2>1, <2>2
    <3> QED BY <2>1, <2>3, <3>1 DEF ObservedIsTrue
  <2> QED BY <1>t, <2>1, <2>4, <2>5 DEF ObservedIsTrue
<1>9. CASE Finalize
  <2>1. worker'.pc \in {"store", "upgrade", "apply"} /\ UNCHANGED <<owner, mode, desired>>
    BY <1>t, <1>9 DEF Finalize, Goto, resource, TypeOK, WorkerRecord
  <2> QED BY <1>t, <2>1 DEF CacheIsTrue, ObservedIsTrue, VerdictIsTrue, Patched
<1>10. CASE Upgrade
  <2>1. worker'.pc \in {"apply", "store"} /\ UNCHANGED <<mode, desired>>
    BY <1>t, <1>10 DEF Upgrade, Goto, TypeOK, WorkerRecord
  <2>2. Patched' => Patched
    <3>1. CASE owner' = Transferred(worker.seen)
      BY <3>1 DEF Transferred, Patched
    <3>2. CASE owner' = owner
      BY <3>2 DEF Patched
    <3> QED BY <1>10, <3>1, <3>2 DEF Upgrade
  <2> QED BY <1>t, <2>1, <2>2 DEF CacheIsTrue, ObservedIsTrue, VerdictIsTrue
<1>11. CASE Apply
  <2>1. worker'.pc = "store" /\ UNCHANGED <<mode, desired>>
    BY <1>t, <1>11 DEF Apply, TypeOK, WorkerRecord
  <2>2. mode = "ssa" /\ Patched' => Patched
    <3> SUFFICES ASSUME owner' = AppliedSSA(worker.held), Patched' PROVE Patched
      BY <1>11 DEF Apply
    <3>1. PICK k \in Key : "csa" \in AppliedSSA(worker.held)[k]
      BY DEF Patched
    <3> QED BY <3>1 DEF AppliedSSA, Patched
  <2> QED BY <1>t, <2>1, <2>2 DEF CacheIsTrue, ObservedIsTrue, VerdictIsTrue
<1>12. CASE Store
  BY <1>t, <1>12 DEF Store, Idle, resource, CacheIsTrue, ObservedIsTrue, VerdictIsTrue, Patched
<1>13. CASE UNCHANGED vars
  BY <1>t, <1>13 DEF vars, CacheIsTrue, ObservedIsTrue, VerdictIsTrue, Patched, Extracted
<1> QED BY <1>1, <1>2, <1>3, <1>4, <1>5, <1>6, <1>7, <1>8, <1>9, <1>10, <1>11, <1>12, <1>13
        DEF Next, Reconcile

\* For any fields, manifests and interference: an Object reported up to date by the syncer
\* that applies has what its manifest sets, unless somebody wrote the resource since, and
\* nothing is left of an earlier manifest or of the patch-based syncer.
THEOREM UpToDateCorrect == Spec => []UpToDateIsTrue
<1>1. IInv => UpToDateIsTrue
  <2> SUFFICES ASSUME IInv, worker.pc = "finalize", worker.uptodate, mode = "ssa"
               PROVE  /\ "seen" \in latest => Extracted(owner) = Sets[worker.held]
                      /\ \A k \in Key \ Sets[worker.held] : owner[k] \subseteq {"other"}
    BY DEF UpToDateIsTrue
  <2>1. \A k \in Key : owner[k] \subseteq {"ssa", "csa", "other"}
    BY DEF IInv, TypeOK, Owners, Manager
  <2> QED BY <2>1 DEF IInv, VerdictIsTrue, Patched, Extracted
<1> QED BY <1>1, InvInit, InvNext, PTL DEF Spec
-----------------------------------------------------------------------------
(* The switch *)

\* An observation marked as the latest says of the managed fields what setAtProvider lets it
\* say, and that is true.  Nothing is known of what a worker left behind.
CopiesAreTrue ==
    /\ "stored" \in latest => stored = AtProvider(owner)
    /\ worker.pc # "idle" /\ "seen" \in latest => worker.seen = AtProvider(owner)

LEMMA CopiesInit == Init => CopiesAreTrue
  BY DEF Init, CopiesAreTrue, Idle

LEMMA CopiesNext == TypeOK /\ CopiesAreTrue /\ [Next]_vars => CopiesAreTrue'
<1> SUFFICES ASSUME TypeOK, CopiesAreTrue, [Next]_vars PROVE CopiesAreTrue'
  OBVIOUS
<1>t. worker \in WorkerRecord
  BY DEF TypeOK
<1> USE DEF CopiesAreTrue, AtProvider
<1>1. CASE EditManifest
  BY <1>1 DEF EditManifest, resource
<1>2. ASSUME NEW f \in Field, Overwrite(f) PROVE CopiesAreTrue'
  BY <1>2 DEF Overwrite
<1>3. CASE Vanish
  BY <1>3 DEF Vanish
<1>4. CASE Restart
  BY <1>4 DEF Restart, Idle, resource
<1>5. CASE CallFails
  BY <1>5 DEF CallFails, Idle, resource
<1>6. CASE Begin
  BY <1>6 DEF Begin, Ages, Idle, resource
<1>7. CASE Get
  BY <1>t, <1>7 DEF Get, Goto, resource, WorkerRecord
<1>8. CASE Desire
  <2>1. worker.pc # "idle" /\ worker'.seen = worker.seen /\ UNCHANGED <<stored, owner, latest>>
    BY <1>t, <1>8 DEF Desire, resource, WorkerRecord
  <2> QED BY <2>1
<1>9. CASE Finalize
  BY <1>t, <1>9 DEF Finalize, Goto, Ages, resource, WorkerRecord
<1>10. CASE Upgrade
  <2>1. /\ worker.pc # "idle" /\ worker'.seen = worker.seen /\ UNCHANGED stored
        /\ latest' = {} \/ UNCHANGED <<owner, latest>>
    BY <1>t, <1>10 DEF Upgrade, Goto, WorkerRecord
  <2> QED BY <2>1
<1>11. CASE Apply
  <2>1. worker'.seen = AtProvider(owner') /\ latest' = {"seen"}
    BY <1>t, <1>11 DEF Apply, WorkerRecord
  <2> QED BY <2>1
<1>12. CASE Store
  BY <1>12 DEF Store, Ages, Idle, resource
<1>13. CASE UNCHANGED vars
  BY <1>13 DEF vars
<1> QED BY <1>1, <1>2, <1>3, <1>4, <1>5, <1>6, <1>7, <1>8, <1>9, <1>10, <1>11, <1>12, <1>13
        DEF Next, Reconcile

\* The patch of the switch rewrites the whole list of managed fields from an observation,
\* and yet takes no field from another manager and gives none back: where the patch is
\* accepted the observation is the latest, and one without managed fields has no upgrade.
THEOREM OthersKept == Spec => OthersKeepOwnership
<1>1. TypeOK /\ CopiesAreTrue /\ [Next]_vars =>
        [Upgrade => \A k \in Key : ("other" \in owner[k]) = ("other" \in owner'[k])]_vars
  <2> SUFFICES ASSUME TypeOK, CopiesAreTrue, Upgrade, NEW k \in Key
               PROVE  ("other" \in owner[k]) = ("other" \in owner'[k])
    OBVIOUS
  <2>1. CASE owner' = Transferred(worker.seen) /\ NeedsUpgrade(worker.seen) /\ Upgradable
    <3>1. worker.seen = owner
      BY <2>1 DEF Upgrade, Upgradable, NeedsUpgrade, CopiesAreTrue, AtProvider, Unowned
    <3> QED BY <2>1, <3>1 DEF Transferred
  <2>2. CASE owner' = owner
    BY <2>2
  <2> QED BY <2>1, <2>2 DEF Upgrade
<1> QED BY <1>1, TypeCorrect, CopiesInit, CopiesNext, PTL DEF Spec, OthersKeepOwnership

\* While a process applies, no step of anybody gives the patch-based syncer a field: what
\* SwitchCompletes reaches is not lost before a process that patches starts.
THEOREM SwitchLasts ==
    Spec => [][mode = "ssa" => \A k \in Key : "csa" \in owner'[k] => "csa" \in owner[k]]_vars
<1>1. [Next]_vars /\ TypeOK =>
        [mode = "ssa" => \A k \in Key : "csa" \in owner'[k] => "csa" \in owner[k]]_vars
  <2> SUFFICES ASSUME TypeOK, Next, mode = "ssa", NEW k \in Key, "csa" \in owner'[k]
               PROVE  "csa" \in owner[k]
    OBVIOUS
  <2>1. CASE EditManifest \/ Restart \/ CallFails
    BY <2>1 DEF EditManifest, Restart, CallFails, resource
  <2>2. ASSUME NEW f \in Field, Overwrite(f) PROVE "csa" \in owner[k]
    BY <2>2 DEF Overwrite, TypeOK, Owners
  <2>3. CASE Vanish
    BY <2>3 DEF Vanish, Unowned
  <2>4. CASE Begin \/ Get \/ Desire \/ Finalize \/ Store
    BY <2>4 DEF Begin, Get, Desire, Finalize, Store, resource
  <2>5. CASE Upgrade
    BY <2>5 DEF Upgrade, Transferred
  <2>6. CASE Apply
    BY <2>6 DEF Apply, AppliedSSA
  <2> QED BY <2>1, <2>2, <2>3, <2>4, <2>5, <2>6 DEF Next, Reconcile
<1> QED BY <1>1, TypeCorrect, PTL DEF Spec

\* Without managed fields in its status the Object knows of none.
Stripped == stored = Unowned /\ worker.seen = Unowned

LEMMA StrippedNext ==
    ASSUME RemoveManagedFields, TypeOK, Stripped, [Next]_vars
    PROVE  Stripped'
<1>t. worker \in WorkerRecord
  BY DEF TypeOK
<1> USE DEF Stripped, AtProvider
<1>1. CASE EditManifest \/ Restart \/ CallFails
  BY <1>1 DEF EditManifest, Restart, CallFails, Idle
<1>2. ASSUME NEW f \in Field, Overwrite(f) PROVE Stripped'
  BY <1>2 DEF Overwrite
<1>3. CASE Vanish
  BY <1>3 DEF Vanish
<1>4. CASE Begin \/ Store
  <2>1. Idle.seen = Unowned /\ [Idle EXCEPT !.pc = "get", !.held = manifest, !.seen = stored].seen = stored
    BY DEF Idle
  <2>2. CASE Begin
    BY <2>1, <2>2 DEF Begin
  <2>3. CASE Store
    BY <2>1, <2>3 DEF Store
  <2> QED BY <1>4, <2>2, <2>3
<1>5. CASE Get \/ Desire \/ Finalize
  BY <1>t, <1>5 DEF Get, Desire, Finalize, Goto, WorkerRecord
<1>6. CASE Upgrade
  BY <1>t, <1>6 DEF Upgrade, Goto, WorkerRecord
<1>7. CASE Apply
  BY <1>t, <1>7 DEF Apply, WorkerRecord
<1>8. CASE UNCHANGED vars
  BY <1>8 DEF vars
<1> QED BY <1>1, <1>2, <1>3, <1>4, <1>5, <1>6, <1>7, <1>8 DEF Next, Reconcile

\* Why SwitchCompletes fails under --remove-managed-fields, with whatever fields and
\* manifests: maybeUpgradeFieldManagers looks for the fields of the patch-based syncer in a
\* status that never shows one, so no worker that applies ever takes one over.
THEOREM StrippedNeverSwitches ==
    ASSUME RemoveManagedFields
    PROVE  Spec => [][Reconcile /\ mode = "ssa" =>
                        \A k \in Key : "csa" \in owner[k] => "csa" \in owner'[k]]_vars
<1>1. Init => Stripped
  BY DEF Init, Idle, Stripped
<1>2. TypeOK /\ Stripped /\ [Next]_vars => Stripped'
  BY StrippedNext
<1>3. TypeOK /\ Stripped /\ [Next]_vars =>
        [Reconcile /\ mode = "ssa" =>
            \A k \in Key : "csa" \in owner[k] => "csa" \in owner'[k]]_vars
  <2> SUFFICES ASSUME Stripped, Reconcile, mode = "ssa", NEW k \in Key, "csa" \in owner[k]
               PROVE  "csa" \in owner'[k]
    OBVIOUS
  <2>1. CASE Begin \/ Get \/ Desire \/ Finalize \/ Store
    BY <2>1 DEF Begin, Get, Desire, Finalize, Store, resource
  <2>2. CASE Upgrade
    BY <2>2 DEF Upgrade, Stripped, NeedsUpgrade, Unowned
  <2>3. CASE Apply
    BY <2>3 DEF Apply, AppliedSSA
  <2> QED BY <2>1, <2>2, <2>3 DEF Reconcile
<1> QED BY <1>1, <1>2, <1>3, TypeCorrect, PTL DEF Spec
=============================================================================
