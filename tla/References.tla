------------------------------ MODULE References ------------------------------
(***************************************************************************)
(* spec.references of an Object: what resolveReferencies makes of the      *)
(* manifest, and which resource of the cluster the manifest then is about  *)
(* (object.go, types.go of both scopes).  ObjectLifecycle is about the     *)
(* finalizers that references get; there the manifest is constant.         *)
(*                                                                         *)
(* A field path is a model value: paths of which one contains the other are*)
(* left out.                                                               *)
(***************************************************************************)
EXTENDS Naturals, Sequences

CONSTANTS
    Thing,     \* what can be referenced on the control plane
    Path,      \* the field paths
    Value,     \* the values of fields; "none" for a field that is not there
    Identity,  \* the paths of apiVersion, kind, namespace and name
    NamePath   \* the path of the name

\* DependsOn, PatchesFrom and Reference of the API: either may be absent, or both be there.
Reference ==
    [dependsOn : Thing \cup {"none"}, patchesFrom : Thing \cup {"none"},
     fieldPath : Path \cup {"none"}, toFieldPath : Path \cup {"none"}]

\* getReferenceInfo: patchesFrom goes first.
GetReferenceInfo(ref) == IF ref.patchesFrom # "none" THEN ref.patchesFrom ELSE ref.dependsOn

Names(ref)   == GetReferenceInfo(ref) # "none"
Patches(ref) == ref.patchesFrom # "none" /\ ref.fieldPath # "none"

\* ApplyFromFieldPathPatch: the same field by default, and an error if the source has none.
ToFieldPath(ref) == IF ref.toFieldPath = "none" THEN ref.fieldPath ELSE ref.toFieldPath
PatchFails(ref, field) == Patches(ref) /\ field[ref.patchesFrom][ref.fieldPath] = "none"

\* resolveReferencies stops at the first reference that is not there or cannot be patched
\* from; `there` and field[t] are the control plane of the moment.
ResolveFails(refs, there, field) ==
    \E i \in DOMAIN refs :
        Names(refs[i]) /\ (GetReferenceInfo(refs[i]) \notin there \/ PatchFails(refs[i], field))

\* patchFieldValueToObject, reference by reference: the last one to patch a path wins.
Patching(refs, p) == {i \in DOMAIN refs : Patches(refs[i]) /\ ToFieldPath(refs[i]) = p}

Resolved(manifest, refs, field) ==
    [p \in Path |->
        IF Patching(refs, p) = {} THEN manifest[p]
        ELSE LET last == CHOOSE i \in Patching(refs, p) : \A j \in Patching(refs, p) : j <= i
             IN  field[refs[last].patchesFrom][refs[last].fieldPath]]

\* parseManifest: the resource a manifest is about; the name of the Object by default.
Target(o, manifest) ==
    [p \in Identity |-> IF p = NamePath /\ manifest[p] = "none" THEN o ELSE manifest[p]]

\* Observe, Create and Update use the resolved manifest; for an Object under deletion nothing
\* is resolved, and Observe and Delete use the manifest as it is stored.
Applied(o, stored, refs, field) == Target(o, Resolved(stored, refs, field))
Deleted(o, stored)              == Target(o, stored)
===============================================================================
