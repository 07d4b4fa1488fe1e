--------------------------- MODULE GenerationPin ---------------------------
(***************************************************************************)
(* What a live rest-of-season generation promises its users: the instant   *)
(* it was first pinned to.  A pin is chosen once, is never another one     *)
(* while a builder uses it, and once a builder has been told of it nothing *)
(* but pruning forgets it, a crash of the machine included.                *)
(***************************************************************************)
EXTENDS Naturals

CONSTANTS Builders, Generations, Instants, Unpinned

VARIABLES
    pins,      \* the instant of each generation
    promised,  \* the generations some builder was told of
    uses       \* the generations each builder is working from, one at most

pinVars == <<pins, promised, uses>>

InUse == UNION {uses[b] : b \in Builders}

Init ==
    /\ pins = [g \in Generations |-> Unpinned]
    /\ promised = {} /\ uses = [b \in Builders |-> {}]

Pin ==
    \E g \in Generations, i \in Instants :
        /\ pins[g] = Unpinned
        /\ pins' = [pins EXCEPT ![g] = i]
        /\ UNCHANGED <<promised, uses>>

Tell(b) ==
    \E g \in Generations :
        /\ pins[g] # Unpinned /\ uses[b] = {}
        /\ uses' = [uses EXCEPT ![b] = {g}] /\ promised' = promised \cup {g}
        /\ UNCHANGED pins

Stop(b) == uses' = [uses EXCEPT ![b] = {}] /\ UNCHANGED <<pins, promised>>

Prune ==
    \E kept \in SUBSET Generations :
        /\ InUse \subseteq kept
        /\ pins' = [g \in Generations |-> IF g \in kept THEN pins[g] ELSE Unpinned]
        /\ promised' = promised \cap kept
        /\ UNCHANGED uses

\* Everybody stops.  What was promised is there afterwards; what was not may
\* be gone, and a pin pruned just before may be back.
Crash ==
    /\ uses' = [b \in Builders |-> {}]
    /\ pins' \in [Generations -> Instants \cup {Unpinned}]
    /\ \A g \in promised : pins'[g] = pins[g]
    /\ UNCHANGED promised

Next == Pin \/ Prune \/ Crash \/ \E b \in Builders : Tell(b) \/ Stop(b)

Spec == Init /\ [][Next]_pinVars
=============================================================================
