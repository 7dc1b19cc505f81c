----------------------------- MODULE ClientBuilder -----------------------------
(***************************************************************************)
(* What a ProviderConfig makes of the connection of a reconcile            *)
(* (restForProviderConfig of pkg/kube/client/client.go, WrapRESTConfig of  *)
(* each cloud): where the REST configuration comes from, and what signs    *)
(* its requests.  The content of a kubeconfig and of a Secret is abstracted*)
(* to what the code asks of it.  The process runs in a cluster, with the   *)
(* environment the SDK of its cloud asks for.                              *)
(***************************************************************************)

Source == {"None", "Secret", "InjectedIdentity", "Environment", "Filesystem"}

AzureType == {"AzureServicePrincipalCredentials", "AzureWorkloadIdentityCredentials"}

IdentityType ==
    {"GoogleApplicationCredentials", "UpboundTokens", "AWSWebIdentityCredentials",
     "NebiusServiceAccountCredentials"} \cup AzureType

\* The exec provider of the user of a kubeconfig: none, `up org token` with or without the
\* name of an organization, `up org token` of another API version, another command with or
\* without arguments that parse.
ExecProvider == {"none", "up", "upNoOrg", "upOther", "command", "bare", "unparsable"}

\* context: the current context is not set, or set to no context of the file; or names a
\* cluster the file has or has not.
Kubeconfig ==
    [valid : BOOLEAN, context : {"unset", "dangling", "named"}, cluster : BOOLEAN,
     exec : ExecProvider, proxy : {"none", "valid", "invalid"}, arn : {"none", "valid", "invalid"}]

\* What a source yields: nothing, an error, JSON as the type wants it or not, text that is no
\* JSON, or not even that.
Secret == {"nil", "error", "complete", "incomplete", "text", "empty"}

Identity == [type : IdentityType, source : Source, secret : Secret]

NoIdentity == [type |-> "none"]

ProviderConfigSpec ==
    [source : Source, kubeconfig : Kubeconfig, identity : Identity \cup {NoIdentity}]

\* What a call returns: a configuration; an error; or nothing, for it panics.
Error == [status |-> "error"]
Panic == [status |-> "panic"]

\* tokens: what signs the requests, "kubeconfig" for what the file holds.
Config(origin, exec, tokens) ==
    [status |-> "ok", origin |-> origin, exec |-> exec, tokens |-> tokens]

-----------------------------------------------------------------------------
\* fromAPIConfig.  A current context that the file does not have is dereferenced.
FromAPIConfig(k) ==
    IF k.context = "unset" THEN Error
    ELSE IF k.context = "dangling" THEN Panic
    ELSE IF ~k.cluster \/ k.proxy = "invalid" THEN Error
    ELSE Config("kubeconfig", k.exec, "kubeconfig")

Base(pc) ==
    IF pc.source = "InjectedIdentity" THEN Config("inCluster", "none", "serviceAccount")
    ELSE IF pc.source = "None" \/ ~pc.kubeconfig.valid THEN Error
    ELSE FromAPIConfig(pc.kubeconfig)

\* gke: no credentials are those of the process.  The exec provider stays.
WrapGoogle(rc, secret) ==
    IF secret \in {"incomplete", "empty"} THEN Error
    ELSE [rc EXCEPT !.tokens = IF secret = "nil" THEN "injected" ELSE "GoogleApplicationCredentials"]

WrapAzure(rc, secret, type) ==
    IF secret # "complete" \/ rc.exec \in {"none", "bare", "unparsable"} THEN Error
    ELSE [rc EXCEPT !.exec = "none", !.tokens = type]

\* upbound: the token may be anything.
WrapUpbound(rc) ==
    IF rc.exec = "up" THEN [rc EXCEPT !.exec = "none", !.tokens = "UpboundTokens"] ELSE Error

WrapAWS(rc, arn) ==
    IF arn = "invalid" THEN Error
    ELSE [rc EXCEPT !.exec = "none", !.tokens = "AWSWebIdentityCredentials"]

WrapNebius(rc, secret) ==
    IF secret # "complete" THEN Error
    ELSE [rc EXCEPT !.exec = "none", !.tokens = "NebiusServiceAccountCredentials"]

\* Only Google takes an injected identity or credentials; AWS takes only the former, the
\* others only the latter.
WrapIdentity(rc, id, arn) ==
    IF id.source = "InjectedIdentity" THEN
        IF id.type = "GoogleApplicationCredentials" THEN WrapGoogle(rc, "nil")
        ELSE IF id.type = "AWSWebIdentityCredentials" THEN WrapAWS(rc, arn)
        ELSE Error
    ELSE IF id.secret = "error" THEN Error
    ELSE CASE id.type = "GoogleApplicationCredentials"    -> WrapGoogle(rc, id.secret)
           [] id.type \in AzureType                       -> WrapAzure(rc, id.secret, id.type)
           [] id.type = "UpboundTokens"                   -> WrapUpbound(rc)
           [] id.type = "NebiusServiceAccountCredentials" -> WrapNebius(rc, id.secret)
           [] OTHER                                       -> Error

RestForProviderConfig(pc) ==
    LET rc == Base(pc)
    IN  IF rc.status # "ok" \/ pc.identity = NoIdentity THEN rc
        ELSE WrapIdentity(rc, pc.identity,
                          IF rc.origin = "kubeconfig" THEN pc.kubeconfig.arn ELSE "none")

\* The key of a store of token sources that the configuration needs.
NeedsRefreshToken(pc) ==
    RestForProviderConfig(pc).status = "ok" /\ RestForProviderConfig(pc).tokens = "UpboundTokens"
NeedsNebius(pc) ==
    /\ RestForProviderConfig(pc).status = "ok"
    /\ RestForProviderConfig(pc).tokens = "NebiusServiceAccountCredentials"
-----------------------------------------------------------------------------
(* Properties *)

\* An identity that is configured is never silently dropped: the connection is refused, or
\* signed with the tokens of that identity (restForProviderConfig).
IdentityHonoured(pc) ==
    LET rc == RestForProviderConfig(pc)
    IN  rc.status = "ok" /\ pc.identity # NoIdentity =>
            \/ rc.tokens = pc.identity.type
            \/ pc.identity.type = "GoogleApplicationCredentials" /\ rc.tokens = "injected"

\* The command of the kubeconfig, which the image of the provider does not have, is given up
\* for every identity but that of Google.
ExecReplaced(pc) ==
    LET rc == RestForProviderConfig(pc)
    IN  rc.status = "ok" /\ pc.identity # NoIdentity =>
            rc.exec = "none" \/ pc.identity.type = "GoogleApplicationCredentials"

\* Nothing but a kubeconfig with a dangling current context makes it panic.
PanicsOnlyOnDanglingContext(pc) ==
    RestForProviderConfig(pc).status = "panic" =>
        pc.source # "InjectedIdentity" /\ pc.kubeconfig.context = "dangling"
=============================================================================
