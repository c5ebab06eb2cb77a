-------------------------- MODULE OperationLifetime -------------------------
(***************************************************************************)
(* What a completion-based worker promises about an object whose address   *)
(* the kernel holds as user_data: from the step that creates it with its   *)
(* first operation to the one that ends its last, the object lives; no     *)
(* operation of an object that is gone is ever outstanding or completed.   *)
(* How the worker finds out which completion is the last (reference        *)
(* counts, flags, queues) is left to it.                                   *)
(***************************************************************************)
CONSTANTS
    Owners,     \* the objects, by the name they have while they live
    Kinds       \* an object has at most one operation of a kind

VARIABLES
    alive,       \* the objects that exist
    outstanding  \* for each object, the kinds of its outstanding operations

vars == <<alive, outstanding>>

Init == alive = {} /\ outstanding = [o \in Owners |-> {}]

\* An object comes with the operation that keeps it.
Create(o) ==
    /\ o \notin alive
    /\ alive' = alive \cup {o}
    /\ \E begun \in (SUBSET Kinds) \ {{}} : outstanding' = [outstanding EXCEPT ![o] = begun]

\* An operation completes, for good or with more to come, and the completion
\* begins others: the object goes if none is left, and only then.
Complete(o, kind) ==
    /\ o \in alive /\ kind \in outstanding[o]
    /\ \E begun \in SUBSET (Kinds \ (outstanding[o] \ {kind})) :
          LET left == (outstanding[o] \ {kind}) \cup begun
          IN /\ outstanding' = [outstanding EXCEPT ![o] = left]
             /\ alive' = IF left = {} THEN alive \ {o} ELSE alive

\* Operations of several live objects begin.
Begin ==
    /\ outstanding' \in [Owners -> SUBSET Kinds]
    /\ \A o \in Owners : /\ outstanding[o] \subseteq outstanding'[o]
                         /\ o \notin alive => outstanding'[o] = outstanding[o]
    /\ alive' = alive

Next == Begin \/ \E o \in Owners : Create(o) \/ \E kind \in Kinds : Complete(o, kind)

Spec == Init /\ [][Next]_vars
=============================================================================
