------------------------------ MODULE AtomicStore ------------------------------
(***************************************************************************)
(* What the stores of token sources promise the workers: for one set of    *)
(* credentials a source is made once, in one step with being stored, and   *)
(* everybody uses that one.                                                *)
(***************************************************************************)
CONSTANTS Worker, Key, None

VARIABLES
    made,     \* the sources made, <<k, w>> for the one that w made for the key k
    stored,   \* stored[k]: the worker that made the source stored for k
    uses      \* uses[w]: the source that w uses

vars == <<made, stored, uses>>

Init ==
    /\ made = {}
    /\ stored = [k \in Key |-> None]
    /\ uses = [w \in Worker |-> None]

Make(w, k) ==
    /\ uses[w] = None /\ stored[k] = None
    /\ made' = made \cup {<<k, w>>}
    /\ stored' = [stored EXCEPT ![k] = w]
    /\ uses' = [uses EXCEPT ![w] = <<k, w>>]

Reuse(w, k) ==
    /\ uses[w] = None /\ stored[k] # None
    /\ uses' = [uses EXCEPT ![w] = <<k, stored[k]>>]
    /\ UNCHANGED <<made, stored>>

Release(w) ==
    /\ uses[w] # None
    /\ uses' = [uses EXCEPT ![w] = None]
    /\ UNCHANGED <<made, stored>>

\* The process starts again.
Reset == made' = {} /\ stored' = [k \in Key |-> None] /\ uses' = [w \in Worker |-> None]

Next == (\E w \in Worker, k \in Key : Make(w, k) \/ Reuse(w, k)) \/ (\E w \in Worker : Release(w)) \/ Reset

Spec == Init /\ [][Next]_vars

\* There is one source for each key that has any, the stored one, and who uses a source of the
\* key uses that.
OneSourcePerKey ==
    /\ made = {<<k, stored[k]>> : k \in {h \in Key : stored[h] # None}}
    /\ \A w \in Worker : uses[w] \in made \cup {None}
=============================================================================
