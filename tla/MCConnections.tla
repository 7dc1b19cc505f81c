----------------------------- MODULE MCConnections -----------------------------
(* An instance of Connections for TLC: two workers that share a ProviderConfig *)
(* and a group version, whose schema is upgraded, removed and installed again. *)
EXTENDS Connections

CONSTANTS one, two, apps, v1, v2, robot, account

MCWorker == {one, two}
MCWants == [w \in MCWorker |-> apps]
MCSchema == {v1, v2}
MCUpgrade == {<<v1, v2>>, <<None, v1>>, <<v1, None>>}

File == [valid |-> TRUE, context |-> "named", cluster |-> TRUE, exec |-> "up",
         proxy |-> "none", arn |-> "none"]

Upbound == [source |-> "Secret", kubeconfig |-> File,
            identity |-> [type |-> "UpboundTokens", source |-> "Secret", secret |-> "text"]]
Nebius == [Upbound EXCEPT !.identity =
            [type |-> "NebiusServiceAccountCredentials", source |-> "Secret", secret |-> "complete"]]
Refused == [Nebius EXCEPT !.identity.secret = "incomplete"]

MCSpecs == {Upbound, Nebius, Refused}
MCKeyOf == [pc \in MCSpecs |->
               IF pc = Upbound THEN robot ELSE IF pc = Nebius THEN account ELSE None]
=============================================================================
