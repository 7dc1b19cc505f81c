--------------------------- MODULE ObjectContract ---------------------------
(***************************************************************************)
(* What the provider promises of an Object to the users of the cluster,    *)
(* whatever the reconciler does in between.  An Object is protected while  *)
(* it carries the provider's own finalizer.                                *)
(*                                                                         *)
(*   - only a protected Object applies its manifest, and only a protected  *)
(*     Object puts its finalizer on what it references;                    *)
(*   - protection is given up only while the Object is being deleted, after*)
(*     every reference was released and, unless the user asked to orphan   *)
(*     it, after the applied resource is gone;                             *)
(*   - an Object that another one holds stays in the cluster.              *)
(***************************************************************************)
CONSTANTS Object,   \* the Objects
          Thing     \* whatever an Object can hold with its finalizer

VARIABLES phase,      \* phase[o]: "gone", "alive" or "deleting"
          protected,  \* the Objects that carry the provider's own finalizer
          orphan,     \* the Objects whose policy leaves the resource behind
          applied,    \* the Objects whose current incarnation owns fields of a resource
          holds       \* holds[o]: the references that carry the finalizer of o

vars == <<phase, protected, orphan, applied, holds>>

\* API server: an Object under deletion goes with its last finalizer.
Settled(ph, prot, hld) ==
    [o \in Object |->
        IF ph[o] = "deleting" /\ o \notin prot /\ \A p \in Object : o \notin hld[p]
        THEN "gone" ELSE ph[o]]

Init ==
    /\ phase = [o \in Object |-> "gone"]
    /\ protected = {}
    /\ orphan \in SUBSET Object
    /\ applied = {}
    /\ holds = [o \in Object |-> {}]

\* A new incarnation owns nothing yet.
Appear(o) ==
    /\ phase[o] = "gone"
    /\ phase' = [phase EXCEPT ![o] = "alive"]
    /\ applied' = applied \ {o}
    /\ orphan' \in {orphan \cup {o}, orphan \ {o}}
    /\ UNCHANGED <<protected, holds>>

RequestDeletion(o) ==
    /\ phase[o] = "alive"
    /\ phase' = Settled([phase EXCEPT ![o] = "deleting"], protected, holds)
    /\ UNCHANGED <<protected, orphan, applied, holds>>

ChangePolicy(o) ==
    /\ phase[o] = "alive" \/ o \in protected
    /\ orphan' \in {orphan \cup {o}, orphan \ {o}}
    /\ UNCHANGED <<phase, protected, applied, holds>>

Protect(o) ==
    /\ phase[o] = "alive"
    /\ protected' = protected \cup {o}
    /\ UNCHANGED <<phase, orphan, applied, holds>>

Apply(o) ==
    /\ o \in protected
    /\ applied' = applied \cup {o}
    /\ UNCHANGED <<phase, protected, orphan, holds>>

\* No finalizer goes on an Object under deletion.
Hold(o, t) ==
    /\ o \in protected
    /\ t \in Object => phase[t] = "alive"
    /\ holds' = [holds EXCEPT ![o] = @ \cup {t}]
    /\ UNCHANGED <<phase, protected, orphan, applied>>

\* A resource goes away, with what every Object of S had applied to it.
Vanish(S) ==
    /\ applied' = applied \ S
    /\ UNCHANGED <<phase, protected, orphan, holds>>

Release(o, t) ==
    /\ phase[o] = "deleting"
    /\ holds' = [holds EXCEPT ![o] = @ \ {t}]
    /\ phase' = Settled(phase, protected, holds')
    /\ UNCHANGED <<protected, orphan, applied>>

Unprotect(o) ==
    /\ phase[o] = "deleting"
    /\ holds[o] = {}
    /\ o \in orphan \/ o \notin applied
    /\ protected' = protected \ {o}
    /\ phase' = Settled(phase, protected', holds)
    /\ UNCHANGED <<orphan, applied, holds>>

Next ==
    \/ \E o \in Object :
        \/ Appear(o) \/ RequestDeletion(o) \/ ChangePolicy(o)
        \/ Protect(o) \/ Apply(o) \/ Unprotect(o)
        \/ \E t \in Thing : Hold(o, t) \/ Release(o, t)
    \/ \E S \in SUBSET Object : Vanish(S)

Spec == Init /\ [][Next]_vars

-----------------------------------------------------------------------------
(* What users can rely on *)

\* What an Object applied is not left behind: until the resource is gone, or the policy
\* orphans it, the Object is in the cluster and protected.
NothingLeftBehind == \A o \in applied \ orphan : o \in protected /\ phase[o] # "gone"

\* A hold ties two Objects of the cluster: the one that holds is protected and will release,
\* and the one that is held has not gone.
HoldsBind ==
    \A o \in Object : \A t \in holds[o] :
        /\ o \in protected /\ phase[o] # "gone"
        /\ t \in Object => phase[t] # "gone"

\* No deletion hangs: an Object that does not go yet is protected, or one that is holds it.
DeletionIsOwed ==
    \A o \in Object : phase[o] = "deleting" =>
        o \in protected \/ \E p \in protected : o \in holds[p]

Promises == NothingLeftBehind /\ HoldsBind /\ DeletionIsOwed

TypeOK ==
    /\ phase \in [Object -> {"gone", "alive", "deleting"}]
    /\ protected \subseteq Object /\ orphan \subseteq Object /\ applied \subseteq Object
    /\ holds \in [Object -> SUBSET Thing]

\* The promises are inductive with this: an Object that is alive and has applied its manifest
\* is protected even while its policy orphans the resource, as the policy may change.
IInv ==
    /\ TypeOK
    /\ Promises
    /\ \A o \in protected : phase[o] # "gone"
    /\ \A o \in applied : phase[o] = "alive" => o \in protected
=============================================================================
