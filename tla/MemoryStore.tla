----------------------------- MODULE MemoryStore -----------------------------
(***************************************************************************)
(* What the MemoryManager promises whatever tier a memory is in: it is     *)
(* stored once, it stays stored while the tiers move it about, and it      *)
(* leaves either because forget() deleted it, or because it was lost: it   *)
(* fell off the bottom of L3, or an exception reached the caller.  What    *)
(* was lost never comes back.                                              *)
(***************************************************************************)
CONSTANT Ids

VARIABLES
    stored,     \* memories the manager answers for
    lost        \* memories it has given up

Init == stored = {} /\ lost = {}

\* insert(): a uuid is used once.
Insert(id) ==
    /\ id \notin stored \cup lost
    /\ stored' = stored \cup {id}
    /\ UNCHANGED lost

Forget(id) ==
    /\ id \in stored
    /\ stored' = stored \ {id}
    /\ UNCHANGED lost

\* One put can push several memories off the bottom, one exception can drop
\* several victims.
Lose(ids) ==
    /\ ids # {} /\ ids \subseteq stored
    /\ stored' = stored \ ids
    /\ lost' = lost \cup ids

Next ==
    \/ \E id \in Ids : Insert(id) \/ Forget(id)
    \/ \E ids \in SUBSET Ids : Lose(ids)

Spec == Init /\ [][Next]_<<stored, lost>>
=============================================================================
