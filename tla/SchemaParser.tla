----------------------------- MODULE SchemaParser -----------------------------
(***************************************************************************)
(* What the extractor of pkg/kube/client/ssa/cache/extractor makes of the  *)
(* OpenAPI document of a group version: the check that it refers to nothing*)
(* outside, the table from kinds to models, and the extraction with it.    *)
(* ParserCache is about which document a worker has.                       *)
(***************************************************************************)
EXTENDS Naturals, Sequences

CONSTANTS
    Model,  \* the names of models
    GVK,    \* the group version kinds that name a kind
    Object  \* what an extraction may be asked of

\* An entry of the extension x-kubernetes-group-version-kind that is no map of three
\* strings, and one whose kind is empty.
Oddity == {"malformed", "kindless"}

\* A reference to a schema: none; to another document; by an absolute path; by a pointer
\* that is not #/components/schemas/...; to a model of this document; anything else.
Ref == [form : {"empty", "remote", "canonical", "otherPointer", "model", "other"}, to : Model]

\* extension: "none" when it is missing or is no list.
Document ==
    [unmarshals : BOOLEAN, converts : BOOLEAN, models : SUBSET Model,
     refs : [Model -> SUBSET Ref], extension : [Model -> Seq(GVK \cup Oddity) \cup {"none"}]]

-----------------------------------------------------------------------------
\* validateRefSelfContainedFn: the reference adds no error.
SelfContained(doc, ref) == ref.form = "empty" \/ (ref.form = "model" /\ ref.to \in doc.models)

\* parseGroupVersionKind: m declares g with entry i of its list.  The rest is skipped.
Declares(doc, m, i, g) ==
    /\ doc.extension[m] # "none"
    /\ i \in DOMAIN doc.extension[m]
    /\ doc.extension[m][i] = g

Declared(doc) == {g \in GVK : \E m \in doc.models, i \in Nat : Declares(doc, m, i, g)}

Duplicate(doc) ==
    \E g \in GVK, m, n \in doc.models, i, j \in Nat :
        /\ Declares(doc, m, i, g) /\ Declares(doc, n, j, g)
        /\ <<m, i>> # <<n, j>>

\* newParserFromOpenAPIGroupVersion returns an error.
Refused(doc) ==
    \/ ~doc.unmarshals
    \/ \E m \in doc.models : \E ref \in doc.refs[m] : ~SelfContained(doc, ref)
    \/ ~doc.converts
    \/ Duplicate(doc)

\* NewGVKParser: the table of the parser.
NewGVKParser(doc) ==
    [g \in Declared(doc) |-> CHOOSE m \in doc.models : \E i \in Nat : Declares(doc, m, i, g)]

\* extractUnstructured, with a lookup of g that did not fail.  Type returns nil for a kind
\* that is not in the table, and nil is dereferenced.
ExtractUnstructured(doc, g, obj, extracts) ==
    IF Refused(doc) THEN "error"
    ELSE IF g \notin DOMAIN NewGVKParser(doc) THEN "panic"
    ELSE IF obj \in extracts THEN "extracted"
    ELSE "error"
===============================================================================
