----------------------------- MODULE MCFieldOwners -----------------------------
(* An instance of FieldOwners for TLC: two Objects of one name in two namespaces and a *)
(* third with a name of its own, each with a field of the target for itself.          *)
EXTENDS FieldOwners

CONSTANTS here, there, other, web, sidecar, replicas, image, label

MCObject == {here, there, other}
MCNameOf == [o \in MCObject |-> IF o = other THEN sidecar ELSE web]
MCFieldsOf == [o \in MCObject |->
    CASE o = here -> {replicas} [] o = there -> {image} [] o = other -> {label}]
=============================================================================
