--------------------------- MODULE Decisions_proofs ---------------------------
(***************************************************************************)
(* Theorems about the parts of the provider that decide and keep no state: *)
(* conversion of API versions, the connection of a ProviderConfig, the use *)
(* of an OpenAPI document, readiness, start-up, references, and the caches *)
(* of desired states.                                                      *)
(***************************************************************************)
EXTENDS Integers, Sequences, WellFoundedInduction, TLAPS

CONSTANTS Alike, Model, GVK, Object, Key, Value, FieldManager, Thing, Path, Identity, NamePath

Conversion    == INSTANCE Conversion
ClientBuilder == INSTANCE ClientBuilder
SchemaParser  == INSTANCE SchemaParser
Readiness     == INSTANCE Readiness
Startup       == INSTANCE Startup
References    == INSTANCE References
StateCaches   == INSTANCE StateCaches

-----------------------------------------------------------------------------
(* Conversion *)

\* An Object of v1alpha1 that is converted and read back has the management policy it had, an
\* unset one become Default, and everything else but its spec.watch (ConvertTo, ConvertFrom).
THEOREM V1Alpha1ComesBack ==
    ASSUME NEW v \in Conversion!V1Alpha1, ~Conversion!ConvertToFails(v)
    PROVE  LET back == Conversion!ConvertFrom(Conversion!ConvertTo(v))
           IN  /\ back.alike = v.alike
               /\ back.policy = IF v.policy = "" THEN "Default" ELSE v.policy
               /\ ~back.watch
<1> DEFINE to == Conversion!ConvertTo(v)
<1> DEFINE p == IF v.policy = "" THEN "Default" ELSE v.policy
<1>1. v.policy \in {"Default", "ObserveCreateUpdate", "ObserveDelete", "Observe", ""}
  BY DEF Conversion!V1Alpha1, Conversion!ManagementPolicy, Conversion!ConvertToFails
<1>2. /\ to.alike = v.alike
      /\ to.policies = Conversion!ToPolicies(v.policy)
  BY DEF Conversion!ConvertTo
<1>3. Conversion!FromPolicies(to.policies) = p
  <2>1. CASE v.policy \in {"Default", ""}
    BY <1>2, <2>1 DEF Conversion!ToPolicies, Conversion!FromPolicies
  <2>2. CASE v.policy = "ObserveCreateUpdate"
    <3>1. to.policies = {"Observe", "Create", "Update"}
      BY <1>2, <2>2 DEF Conversion!ToPolicies, Conversion!ActionsAllowed
    <3> QED BY <2>2, <3>1 DEF Conversion!FromPolicies, Conversion!Operation
  <2>3. CASE v.policy = "ObserveDelete"
    <3>1. to.policies = {"Observe", "Delete"}
      BY <1>2, <2>3 DEF Conversion!ToPolicies, Conversion!ActionsAllowed
    <3> QED BY <2>3, <3>1 DEF Conversion!FromPolicies, Conversion!Operation
  <2>4. CASE v.policy = "Observe"
    <3>1. to.policies = {"Observe"}
      BY <1>2, <2>4 DEF Conversion!ToPolicies, Conversion!ActionsAllowed
    <3> QED BY <2>4, <3>1 DEF Conversion!FromPolicies, Conversion!Operation
  <2> QED BY <1>1, <2>1, <2>2, <2>3, <2>4
<1>4. /\ Conversion!ConvertFrom(to).alike = to.alike
      /\ Conversion!ConvertFrom(to).policy = Conversion!FromPolicies(to.policies)
      /\ Conversion!ConvertFrom(to).watch = FALSE
  BY DEF Conversion!ConvertFrom
<1> QED BY <1>2, <1>3, <1>4

\* A client that reads an Object as v1alpha1 and writes it back never takes an operation from
\* the provider, and leaves what it may do alone exactly when v1alpha1 has a word for it; else
\* the provider may do everything afterwards, even with an Object that was paused or only
\* observed and updated (the default case of ConvertFrom, the "" case of ConvertTo).
THEOREM ReadAndWrittenWidens ==
    ASSUME NEW v \in Conversion!V1Alpha2
    PROVE  /\ Conversion!Allowed(Conversion!ReadAndWritten(v).policies) =
                  IF Conversion!Allowed(v.policies) \in Conversion!Expressible
                  THEN Conversion!Allowed(v.policies) ELSE Conversion!Operation
           /\ Conversion!Allowed(v.policies)
                  \subseteq Conversion!Allowed(Conversion!ReadAndWritten(v).policies)
<1> DEFINE before == Conversion!Allowed(v.policies)
<1> DEFINE policy == Conversion!FromPolicies(v.policies)
<1>1. Conversion!ReadAndWritten(v).policies = Conversion!ToPolicies(policy)
  BY DEF Conversion!ReadAndWritten, Conversion!ConvertTo, Conversion!ConvertFrom
<1>2. before \subseteq Conversion!Operation
  BY DEF Conversion!Allowed
<1>3. Conversion!Expressible =
        {Conversion!Operation, {"Observe", "Create", "Update"}, {"Observe", "Delete"}, {"Observe"}}
  <2>1. /\ Conversion!ActionsAllowed("Default") = Conversion!Operation
        /\ Conversion!ActionsAllowed("ObserveCreateUpdate") = {"Observe", "Create", "Update"}
        /\ Conversion!ActionsAllowed("ObserveDelete") = {"Observe", "Delete"}
        /\ Conversion!ActionsAllowed("Observe") = {"Observe"}
    BY DEF Conversion!ActionsAllowed, Conversion!Operation
  <2> QED BY <2>1 DEF Conversion!Expressible, Conversion!ManagementPolicy
<1>4. Conversion!Allowed(Conversion!ToPolicies(policy)) =
        IF before \in Conversion!Expressible THEN before ELSE Conversion!Operation
  <2>1. CASE before = Conversion!Operation
    <3>1. policy = "Default"
      BY <2>1 DEF Conversion!Allowed, Conversion!FromPolicies, Conversion!Operation
    <3> QED BY <1>3, <2>1, <3>1 DEF Conversion!ToPolicies, Conversion!Allowed
  <2>2. CASE before = {"Observe", "Create", "Update"}
    <3>1. policy = "ObserveCreateUpdate"
      BY <2>2 DEF Conversion!Allowed, Conversion!FromPolicies, Conversion!Operation
    <3> QED BY <1>3, <2>2, <3>1
          DEF Conversion!ToPolicies, Conversion!Allowed, Conversion!ActionsAllowed, Conversion!Operation
  <2>3. CASE before = {"Observe", "Delete"}
    <3>1. policy = "ObserveDelete"
      BY <2>3 DEF Conversion!Allowed, Conversion!FromPolicies, Conversion!Operation
    <3> QED BY <1>3, <2>3, <3>1
          DEF Conversion!ToPolicies, Conversion!Allowed, Conversion!ActionsAllowed, Conversion!Operation
  <2>4. CASE before = {"Observe"}
    <3>1. policy = "Observe"
      BY <2>4 DEF Conversion!Allowed, Conversion!FromPolicies, Conversion!Operation
    <3> QED BY <1>3, <2>4, <3>1
          DEF Conversion!ToPolicies, Conversion!Allowed, Conversion!ActionsAllowed, Conversion!Operation
  <2>5. CASE before \notin Conversion!Expressible
    <3>1. /\ "*" \notin v.policies
          /\ before = v.policies \cap Conversion!Operation
      BY <1>3, <2>5 DEF Conversion!Allowed
    <3>2. policy = ""
      BY <1>3, <2>5, <3>1 DEF Conversion!FromPolicies, Conversion!Operation
    <3> QED BY <2>5, <3>2 DEF Conversion!ToPolicies, Conversion!Allowed
  <2> QED BY <1>3, <2>1, <2>2, <2>3, <2>4, <2>5
<1> QED BY <1>1, <1>2, <1>4

-----------------------------------------------------------------------------
(* The connection of a ProviderConfig *)

\* What the configuration of a source is.
LEMMA BaseConfig ==
    ASSUME NEW pc \in ClientBuilder!ProviderConfigSpec
    PROVE  \/ /\ ClientBuilder!Base(pc) = ClientBuilder!Panic
              /\ pc.source \notin {"InjectedIdentity", "None"}
              /\ pc.kubeconfig.valid /\ pc.kubeconfig.context = "dangling"
           \/ /\ \/ ClientBuilder!Base(pc) = ClientBuilder!Error
                 \/ \E origin, exec, tokens :
                        ClientBuilder!Base(pc) = ClientBuilder!Config(origin, exec, tokens)
              /\ \/ pc.source \in {"InjectedIdentity", "None"}
                 \/ ~pc.kubeconfig.valid \/ pc.kubeconfig.context # "dangling"
<1>1. CASE pc.source \in {"InjectedIdentity", "None"} \/ ~pc.kubeconfig.valid
  BY <1>1 DEF ClientBuilder!Base
<1>2. CASE pc.source \notin {"InjectedIdentity", "None"} /\ pc.kubeconfig.valid
  <2>1. ClientBuilder!Base(pc) = ClientBuilder!FromAPIConfig(pc.kubeconfig)
    BY <1>2 DEF ClientBuilder!Base
  <2> QED BY <1>2, <2>1 DEF ClientBuilder!FromAPIConfig
<1> QED BY <1>1, <1>2

\* Every cloud refuses, or signs with its own tokens and, but for Google, without a command.
LEMMA WrappedConfig ==
    ASSUME NEW id \in ClientBuilder!Identity, NEW arn, NEW origin, NEW exec, NEW tokens
    PROVE  LET rc == ClientBuilder!Config(origin, exec, tokens)
               wrapped == ClientBuilder!WrapIdentity(rc, id, arn)
           IN  \/ wrapped = ClientBuilder!Error
               \/ /\ wrapped.status = "ok"
                  /\ wrapped.tokens = id.type
                  /\ wrapped.exec = "none" \/ id.type = "GoogleApplicationCredentials"
               \/ /\ wrapped.status = "ok"
                  /\ wrapped.tokens = "injected"
                  /\ id.type = "GoogleApplicationCredentials"
<1> DEFINE rc == ClientBuilder!Config(origin, exec, tokens)
<1> DEFINE wrapped == ClientBuilder!WrapIdentity(rc, id, arn)
<1>0. id.type \in {"GoogleApplicationCredentials", "UpboundTokens", "AWSWebIdentityCredentials",
                   "NebiusServiceAccountCredentials", "AzureServicePrincipalCredentials",
                   "AzureWorkloadIdentityCredentials"}
  BY DEF ClientBuilder!Identity, ClientBuilder!IdentityType, ClientBuilder!AzureType
<1>1. CASE id.source = "InjectedIdentity"
  BY <1>1 DEF ClientBuilder!WrapIdentity, ClientBuilder!WrapGoogle, ClientBuilder!WrapAWS,
              ClientBuilder!Config, ClientBuilder!Error
<1>2. CASE id.source # "InjectedIdentity" /\ id.secret = "error"
  BY <1>2 DEF ClientBuilder!WrapIdentity
<1>3. CASE id.source # "InjectedIdentity" /\ id.secret # "error"
  <2>1. CASE id.type = "GoogleApplicationCredentials"
    <3>1. wrapped = ClientBuilder!WrapGoogle(rc, id.secret)
      BY <1>3, <2>1 DEF ClientBuilder!WrapIdentity, ClientBuilder!AzureType
    <3> QED BY <2>1, <3>1 DEF ClientBuilder!WrapGoogle, ClientBuilder!Config
  <2>2. CASE id.type \in ClientBuilder!AzureType
    <3>1. wrapped = ClientBuilder!WrapAzure(rc, id.secret, id.type)
      BY <1>3, <2>2 DEF ClientBuilder!WrapIdentity, ClientBuilder!AzureType
    <3> QED BY <2>2, <3>1 DEF ClientBuilder!WrapAzure, ClientBuilder!Config
  <2>3. CASE id.type = "UpboundTokens"
    <3>1. wrapped = ClientBuilder!WrapUpbound(rc)
      BY <1>3, <2>3 DEF ClientBuilder!WrapIdentity, ClientBuilder!AzureType
    <3> QED BY <2>3, <3>1 DEF ClientBuilder!WrapUpbound, ClientBuilder!Config
  <2>4. CASE id.type = "NebiusServiceAccountCredentials"
    <3>1. wrapped = ClientBuilder!WrapNebius(rc, id.secret)
      BY <1>3, <2>4 DEF ClientBuilder!WrapIdentity, ClientBuilder!AzureType
    <3> QED BY <2>4, <3>1 DEF ClientBuilder!WrapNebius, ClientBuilder!Config
  <2>5. CASE id.type = "AWSWebIdentityCredentials"
    BY <1>3, <2>5 DEF ClientBuilder!WrapIdentity, ClientBuilder!AzureType
  <2> QED BY <1>0, <2>1, <2>2, <2>3, <2>4, <2>5 DEF ClientBuilder!AzureType
<1> QED BY <1>1, <1>2, <1>3

\* The outcome of a ProviderConfig, from the two.
LEMMA RestConfig ==
    ASSUME NEW pc \in ClientBuilder!ProviderConfigSpec
    PROVE  LET rc == ClientBuilder!RestForProviderConfig(pc)
               id == pc.identity
           IN  \/ /\ rc = ClientBuilder!Base(pc)
                  /\ rc.status # "ok" \/ id = ClientBuilder!NoIdentity
               \/ /\ ClientBuilder!Base(pc).status = "ok"
                  /\ \/ rc = ClientBuilder!Error
                     \/ /\ rc.status = "ok"
                        /\ \/ /\ rc.tokens = id.type
                              /\ rc.exec = "none" \/ id.type = "GoogleApplicationCredentials"
                           \/ rc.tokens = "injected" /\ id.type = "GoogleApplicationCredentials"
<1>1. CASE ClientBuilder!Base(pc).status # "ok" \/ pc.identity = ClientBuilder!NoIdentity
  BY <1>1 DEF ClientBuilder!RestForProviderConfig
<1>2. CASE ClientBuilder!Base(pc).status = "ok" /\ pc.identity # ClientBuilder!NoIdentity
  <2>1. PICK origin, exec, tokens :
            ClientBuilder!Base(pc) = ClientBuilder!Config(origin, exec, tokens)
    BY <1>2, BaseConfig DEF ClientBuilder!Error, ClientBuilder!Panic
  <2>2. pc.identity \in ClientBuilder!Identity
    BY <1>2 DEF ClientBuilder!ProviderConfigSpec
  <2>3. PICK arn : ClientBuilder!RestForProviderConfig(pc) =
            ClientBuilder!WrapIdentity(ClientBuilder!Config(origin, exec, tokens), pc.identity, arn)
    BY <1>2, <2>1 DEF ClientBuilder!RestForProviderConfig
  <2> QED BY <1>2, <2>2, <2>3, WrappedConfig
<1> QED BY <1>1, <1>2

\* restForProviderConfig panics for a kubeconfig whose current context does not exist, if it
\* reads one, and for nothing else.
THEOREM OnlyDanglingContextPanics ==
    ASSUME NEW pc \in ClientBuilder!ProviderConfigSpec
    PROVE  ClientBuilder!RestForProviderConfig(pc).status = "panic" <=>
               /\ pc.source \notin {"InjectedIdentity", "None"}
               /\ pc.kubeconfig.valid
               /\ pc.kubeconfig.context = "dangling"
BY BaseConfig, RestConfig DEF ClientBuilder!Error, ClientBuilder!Panic, ClientBuilder!Config

\* An identity that is configured is not dropped: the connection fails, or its tokens are of
\* that identity (restForProviderConfig, WrapRESTConfig of every cloud).
THEOREM IdentitiesAreHonoured ==
    ASSUME NEW pc \in ClientBuilder!ProviderConfigSpec
    PROVE  ClientBuilder!IdentityHonoured(pc)
BY RestConfig DEF ClientBuilder!IdentityHonoured, ClientBuilder!Error

\* The command of a kubeconfig is kept by the identity of Google alone.
THEOREM ExecsAreReplaced ==
    ASSUME NEW pc \in ClientBuilder!ProviderConfigSpec
    PROVE  ClientBuilder!ExecReplaced(pc)
BY RestConfig DEF ClientBuilder!ExecReplaced, ClientBuilder!Error

-----------------------------------------------------------------------------
(* The use of an OpenAPI document *)

\* The table of a parser has each kind under the one model that declares it: it does not
\* depend on the order in which NewGVKParser goes through the models.
THEOREM KindsHaveOneModel ==
    ASSUME NEW doc \in SchemaParser!Document, ~SchemaParser!Refused(doc),
           NEW g \in SchemaParser!Declared(doc)
    PROVE  \A m \in doc.models, i \in Nat :
               SchemaParser!Declares(doc, m, i, g) => SchemaParser!NewGVKParser(doc)[g] = m
<1> DEFINE chosen == CHOOSE m \in doc.models : \E i \in Nat : SchemaParser!Declares(doc, m, i, g)
<1>1. g \in GVK /\ \E m \in doc.models : \E i \in Nat : SchemaParser!Declares(doc, m, i, g)
  BY DEF SchemaParser!Declared
<1>2. chosen \in doc.models /\ \E i \in Nat : SchemaParser!Declares(doc, chosen, i, g)
  BY <1>1
<1>3. SchemaParser!NewGVKParser(doc)[g] = chosen
  BY DEF SchemaParser!NewGVKParser
<1> SUFFICES ASSUME NEW m \in doc.models, NEW i \in Nat, SchemaParser!Declares(doc, m, i, g)
             PROVE  chosen = m
  BY <1>3
<1> HIDE DEF chosen
<1>4. ~SchemaParser!Duplicate(doc)
  BY DEF SchemaParser!Refused
<1> QED BY <1>1, <1>2, <1>4 DEF SchemaParser!Duplicate

\* An extraction panics exactly when the document is fine and declares the kind nowhere: a
\* custom resource definition that went while others of its group version stay (Type,
\* extractUnstructured).
THEOREM ExtractPanics ==
    ASSUME NEW doc \in SchemaParser!Document, NEW g \in GVK, NEW obj, NEW extracts
    PROVE  SchemaParser!ExtractUnstructured(doc, g, obj, extracts) = "panic" <=>
               /\ ~SchemaParser!Refused(doc)
               /\ \A m \in doc.models, i \in Nat : ~SchemaParser!Declares(doc, m, i, g)
<1>1. DOMAIN SchemaParser!NewGVKParser(doc) = SchemaParser!Declared(doc)
  BY DEF SchemaParser!NewGVKParser
<1>2. g \notin SchemaParser!Declared(doc) <=>
          \A m \in doc.models, i \in Nat : ~SchemaParser!Declares(doc, m, i, g)
  BY DEF SchemaParser!Declared
<1> QED BY <1>1, <1>2 DEF SchemaParser!ExtractUnstructured

\* A parser that is made refers to nothing outside of its document.
THEOREM ParsersAreSelfContained ==
    ASSUME NEW doc \in SchemaParser!Document, ~SchemaParser!Refused(doc),
           NEW m \in doc.models, NEW ref \in doc.refs[m], ref.form # "empty"
    PROVE  ref.form = "model" /\ ref.to \in doc.models
BY DEF SchemaParser!Refused, SchemaParser!SelfContained

-----------------------------------------------------------------------------
(* Readiness *)

\* Under every policy but SuccessfulCreate, Observe makes the Ready condition anew: what it
\* was before, whether the resource is up to date and the connection details play no part.
THEOREM ReadinessIsDerived ==
    ASSUME NEW policy \in {"DeriveFromObject", "AllTrue", "DeriveFromCelQuery"},
           NEW u \in Readiness!Observed, NEW before, NEW upToDate, NEW deleted, NEW details,
           NEW before2, NEW upToDate2, NEW deleted2, NEW details2
    PROVE  Readiness!Observe(policy, before, u, upToDate, deleted, details).ready =
               Readiness!Observe(policy, before2, u, upToDate2, deleted2, details2).ready
<1> DEFINE ready == Readiness!UpdateConditionFromObserved(policy, before, u)
<1>1. ready = Readiness!UpdateConditionFromObserved(policy, before2, u)
  BY DEF Readiness!UpdateConditionFromObserved
<1>2. ASSUME NEW r, NEW up, NEW del, NEW cds
      PROVE  Readiness!HandleObservation(policy, r, up, del, cds).ready = r
  <2>1. policy \notin {"SuccessfulCreate", ""}
    OBVIOUS
  <2> QED BY <2>1 DEF Readiness!HandleObservation
<1> QED BY <1>1, <1>2 DEF Readiness!Observe

\* Under SuccessfulCreate, Observe never takes the Ready condition back: a resource that drifts
\* stays Available.
THEOREM SuccessfulCreateSticks ==
    ASSUME NEW policy \in {"SuccessfulCreate", ""},
           NEW u \in Readiness!Observed, NEW upToDate, NEW deleted, NEW details
    PROVE  Readiness!Observe(policy, Readiness!Available, u, upToDate, deleted, details).ready
               = Readiness!Available
BY DEF Readiness!Observe, Readiness!UpdateConditionFromObserved, Readiness!HandleObservation

\* An Object is Unavailable without a reason when its CEL query is false, and also when it is
\* no boolean at all, though every other query that cannot be used is explained
\* (checkDeriveFromCelQuery wraps an error that is nil).
THEOREM OnlyNotBoolIsSilent ==
    ASSUME NEW u \in Readiness!Observed, NEW before
    PROVE  Readiness!UpdateConditionFromObserved("DeriveFromCelQuery", before, u)
               = Readiness!Unavailable
           <=> u.query \in {"notBool", "notTrue"}
<1>1. u.query \in Readiness!Query
  BY DEF Readiness!Observed
<1>2. Readiness!CelQueryFails(u) \/ u.query \in {"notBool", "true", "notTrue"}
  BY DEF Readiness!CelQueryFails
<1> QED BY <1>1, <1>2
      DEF Readiness!UpdateConditionFromObserved, Readiness!CelQueryFails, Readiness!Query,
          Readiness!CheckDeriveFromCelQuery, Readiness!Available, Readiness!Unavailable

\* Connection details never stand in the way of a deletion (handleObservation).
THEOREM DetailsDoNotBlockDeletion ==
    ASSUME NEW policy, NEW u, NEW before, NEW upToDate \in BOOLEAN, NEW details
    PROVE  ~Readiness!Observe(policy, before, u, upToDate, TRUE, details).fails
BY DEF Readiness!Observe, Readiness!HandleObservation

-----------------------------------------------------------------------------
(* Start-up *)

\* A controller that runs does not stop for a CRD that comes later (SetupGated).
THEOREM RunningGrows ==
    ASSUME NEW flags, NEW access, NEW failing, NEW crds, NEW later, crds \subseteq later
    PROVE  Startup!Running(flags, access, failing, crds)
               \subseteq Startup!Running(flags, access, failing, later)
BY DEF Startup!Running, Startup!Fatal

\* With the permission to watch CRDs, a Setup that fails costs its own controller, and that of
\* ClusterProviderConfigs if it is the one before; without it, it costs all of them.
THEOREM FailuresAreIsolated ==
    ASSUME NEW flags, NEW access, NEW failing, NEW crds,
           ~Startup!Fatal(flags, access, {}), Startup!CanWatchCRD(access) = "allowed"
    PROVE  \A c \in Startup!Running(flags, access, {}, crds) :
               \/ c \in Startup!Running(flags, access, failing, crds)
               \/ c \in failing
               \/ <<"namespaced", "ProviderConfig">> \in failing
<1>1. ~Startup!Fatal(flags, access, failing)
  BY DEF Startup!Fatal
<1> QED BY <1>1 DEF Startup!Running, Startup!SetUpBefore

\* Whatever its permissions, a provider whose CRDs are all there runs every controller or
\* none, unless the Setup of one fails.
THEOREM AllOrNone ==
    ASSUME NEW flags, NEW access
    PROVE  Startup!Running(flags, access, {}, Startup!CRD) \in {{}, Startup!Controller}
<1>1. ASSUME NEW c \in Startup!Controller
      PROVE  Startup!Awaited(c) \subseteq Startup!CRD
  BY DEF Startup!Awaited, Startup!CRD, Startup!Configs, Startup!Controller, Startup!Scope
<1> QED BY <1>1 DEF Startup!Running

\* A poll interval is never zero, which would be no poll at all: that is what the check of
\* --poll-jitter-percentage is for.
THEOREM PollsAgain ==
    ASSUME NEW interval \in Nat \ {0}, NEW percentage \in 0..99,
           NEW poll \in Startup!PollIntervals(interval, percentage)
    PROVE  poll > 0
<1> DEFINE product == interval * percentage
<1>1. product \in Nat /\ product <= interval * 99
  OBVIOUS
<1>2. product < 100 * interval
  BY <1>1
<1>3. product \div 100 < interval
  <2> HIDE DEF product
  <2> QED BY <1>1, <1>2
<1> QED BY <1>3 DEF Startup!PollIntervals, Startup!Jitter

-----------------------------------------------------------------------------
(* References *)

\* The reconciler stores an Object after its references are resolved (AddFinalizer, and before
\* Create): the stored manifest then resolves to itself, so the patches are made but once.
THEOREM ResolvedStays ==
    ASSUME NEW manifest, NEW refs, NEW field
    PROVE  LET stored == References!Resolved(manifest, refs, field)
           IN  References!Resolved(stored, refs, field) = stored
BY DEF References!Resolved

\* Of references that patch one path, one is the last.
LEMMA LastExists ==
    ASSUME NEW n \in Nat, NEW S \in SUBSET (1..n), S # {}
    PROVE  \E i \in S : \A j \in S : j <= i
<1> DEFINE R == OpToRel(<, Nat)
<1> DEFINE T == {n - i : i \in S}
<1>0. IsWellFoundedOn(R, Nat)
  BY NatLessThanWellFounded
<1>1. \A i \in S : i \in Nat /\ i <= n
  OBVIOUS
<1>2. T \subseteq Nat /\ T # {}
  <2> HIDE DEF R
  <2>1. ASSUME NEW i \in S PROVE n - i \in Nat
    BY <1>1
  <2>2. PICK k \in S : TRUE
    OBVIOUS
  <2>3. n - k \in T
    OBVIOUS
  <2> QED BY <2>1, <2>3
<1>3. PICK x \in T : \A y \in T : <<y, x>> \notin R
  <2> HIDE DEF T, R
  <2> QED BY <1>0, <1>2, WFMin
<1>4. PICK i \in S : x = n - i
  OBVIOUS
<1>5. ASSUME NEW j \in S PROVE j <= i
  <2>1. ~(n - j < x)
    BY <1>2, <1>3 DEF OpToRel
  <2> QED BY <1>1, <1>4, <2>1
<1> QED BY <1>5

\* Nothing is resolved for an Object under deletion.  Its Delete finds the resource that it
\* applied as long as the fields that its identity was patched from, when the manifest was
\* stored, are as they were; if one has changed since, it may be another one.
THEOREM DeleteFindsApplied ==
    ASSUME Identity \subseteq Path,
           NEW o, NEW manifest, NEW refs \in Seq(References!Reference), NEW before, NEW now,
           \A p \in Identity : \A i \in References!Patching(refs, p) :
               now[refs[i].patchesFrom][refs[i].fieldPath]
                   = before[refs[i].patchesFrom][refs[i].fieldPath]
    PROVE  LET stored == References!Resolved(manifest, refs, before)
           IN  References!Deleted(o, stored) = References!Applied(o, stored, refs, now)
<1> DEFINE stored == References!Resolved(manifest, refs, before)
<1>1. ASSUME NEW p \in Identity
      PROVE  References!Resolved(stored, refs, now)[p] = stored[p]
  <2>1. CASE References!Patching(refs, p) = {}
    BY <2>1 DEF References!Resolved
  <2>2. CASE References!Patching(refs, p) # {}
    <3> DEFINE last == CHOOSE i \in References!Patching(refs, p) :
                          \A j \in References!Patching(refs, p) : j <= i
    <3>1. last \in References!Patching(refs, p)
      <4>1. DOMAIN refs = 1..Len(refs) /\ Len(refs) \in Nat
        OBVIOUS
      <4>2. References!Patching(refs, p) \in SUBSET (1..Len(refs))
        BY <4>1 DEF References!Patching
      <4>3. \E i \in References!Patching(refs, p) :
               \A j \in References!Patching(refs, p) : j <= i
        BY <2>2, <4>1, <4>2, LastExists
      <4> QED BY <4>3
    <3>2. /\ stored[p] = before[refs[last].patchesFrom][refs[last].fieldPath]
          /\ References!Resolved(stored, refs, now)[p]
                = now[refs[last].patchesFrom][refs[last].fieldPath]
      BY <2>2 DEF References!Resolved
    <3> QED BY <3>1, <3>2
  <2> QED BY <2>1, <2>2
<1> HIDE DEF stored
<1>2. References!Target(o, stored)
        = References!Target(o, References!Resolved(stored, refs, now))
  BY <1>1 DEF References!Target
<1> QED BY <1>2 DEF References!Deleted, References!Applied, stored

-----------------------------------------------------------------------------
(* The caches of desired states *)

\* What an Observe leaves in the caches is found again for its own manifest only, and for no
\* other Object (LoadOrNewForManaged, SetStateFor, GetStateFor).
THEOREM CachesAreApart ==
    ASSUME NEW store, NEW uid, NEW m, NEW state
    PROVE  LET after == StateCaches!Observed(store, uid, m, state)
           IN  /\ StateCaches!GetStateFor(after, uid, m) = state
               /\ \A n : n # m => StateCaches!GetStateFor(after, uid, n) = StateCaches!NoState
               /\ \A u \in DOMAIN store \ {uid} : after[u] = store[u]
BY DEF StateCaches!Observed, StateCaches!SetStateFor, StateCaches!LoadOrNewForManaged,
       StateCaches!GetStateFor

\* Delete forgets the entry of the Object, whatever was in it, but an Observe of the resource
\* that still terminates makes one again, and nothing removes that when the Object has gone.
THEOREM EntryComesBack ==
    ASSUME NEW store, NEW uid, NEW m, NEW state
    PROVE  LET deleted  == StateCaches!Remove(store, uid)
               observed == StateCaches!Observed(deleted, uid, m, state)
           IN  /\ uid \notin DOMAIN deleted
               /\ StateCaches!LoadOrNewForManaged(deleted, uid)[uid] = StateCaches!New
               /\ DOMAIN observed = DOMAIN store \cup {uid}
BY DEF StateCaches!Remove, StateCaches!Observed, StateCaches!SetStateFor,
       StateCaches!LoadOrNewForManaged
=============================================================================
