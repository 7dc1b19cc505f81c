------------------------------ MODULE Conversion ------------------------------
(***************************************************************************)
(* The conversion webhook of Object (apis/cluster/object/v1alpha1/         *)
(* conversion.go): v1alpha2 is stored, v1alpha1 is still served, and every *)
(* read or write of an Object as v1alpha1 goes through ConvertFrom or      *)
(* ConvertTo.  `alike` stands for the fields that both versions have and   *)
(* both conversions copy: metadata, status, connection details, manifest,  *)
(* references, readiness policy, provider config.                          *)
(***************************************************************************)

CONSTANT Alike  \* the values of the fields that are copied

Operation == {"Observe", "Create", "Update", "Delete"}

ManagementAction == Operation \cup {"LateInitialize", "*"}

ManagementPolicy == {"Default", "ObserveCreateUpdate", "ObserveDelete", "Observe"}

V1Alpha1 == [alike : Alike, watch : BOOLEAN, policy : ManagementPolicy \cup {"", "unknown"}]

\* An empty set of policies pauses the Object.  propagation "" is what no enumeration
\* of the API has.
V1Alpha2 ==
    [alike : Alike, watch : BOOLEAN, celQuery : BOOLEAN, policies : SUBSET ManagementAction,
     propagation : {"Background", "Foreground", "Orphan", ""}]

\* IsActionAllowed, for every action; all of them observe.
ActionsAllowed(policy) ==
    {"Observe"}
      \cup (IF policy \in {"Default", "ObserveCreateUpdate"} THEN {"Create", "Update"} ELSE {})
      \cup (IF policy \in {"Default", "ObserveDelete"} THEN {"Delete"} ELSE {})

ToPolicies(policy) ==
    IF policy \in {"Default", ""} THEN {"*"} ELSE ActionsAllowed(policy)

\* watch, celQuery and propagation are not among the fields that are copied.
ConvertTo(src) ==
    [alike |-> src.alike, watch |-> FALSE, celQuery |-> FALSE,
     policies |-> ToPolicies(src.policy), propagation |-> ""]

ConvertToFails(src) == src.policy = "unknown"

FromPolicies(policies) ==
    LET Has(yes, no) == yes \subseteq policies /\ no \cap policies = {}
    IN  CASE "*" \in policies \/ Has(Operation, {}) -> "Default"
          [] "*" \notin policies /\ Has({"Observe", "Create", "Update"}, {"Delete"}) ->
                "ObserveCreateUpdate"
          [] "*" \notin policies /\ Has({"Observe", "Delete"}, {"Create", "Update"}) ->
                "ObserveDelete"
          [] "*" \notin policies /\ Has({"Observe"}, Operation \ {"Observe"}) -> "Observe"
          [] OTHER -> ""

ConvertFrom(src) ==
    [alike |-> src.alike, watch |-> FALSE, policy |-> FromPolicies(src.policies)]

\* Policies that are nil, in an Object that is not created yet.
ConvertFromNew(src) == [alike |-> src.alike, watch |-> FALSE, policy |-> "Default"]

\* What the managed reconciler lets the v1alpha2 Object do to the resource.
Allowed(policies) == IF "*" \in policies THEN Operation ELSE policies \cap Operation

\* The sets of operations that v1alpha1 has a word for.
Expressible == {ActionsAllowed(policy) : policy \in ManagementPolicy}

\* A client that knows v1alpha1 reads the Object and writes it back.
ReadAndWritten(src) == ConvertTo(ConvertFrom(src))
===============================================================================
