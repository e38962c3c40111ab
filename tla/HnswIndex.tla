------------------------------ MODULE HnswIndex ------------------------------
(***************************************************************************)
(* The hnswlib index (external, version 0.8.0 in uv.lock) as the vector    *)
(* tiers use it: a bounded array of slots, each holding one label's vector.*)
(* A vector is abstracted to the memory whose embedding it is.             *)
(*                                                                         *)
(*   vec   label -> the memory its slot embeds; Tombstoned after           *)
(*         mark_deleted (the slot stays in use); NoId for a new label      *)
(*   max   slots allocated (get_max_elements)                              *)
(*                                                                         *)
(* Every call that raises RuntimeError has a Can... guard here.            *)
(***************************************************************************)
EXTENDS Integers, FiniteSets

CONSTANTS Labels, NoId, Tombstoned

NewIndex(n) == [vec |-> [l \in Labels |-> NoId], max |-> n]

Slots(ix) == {l \in Labels : ix.vec[l] # NoId}

\* get_current_count(): tombstones included.
CurrentCount(ix) == Cardinality(Slots(ix))

Live(ix) == {l \in Slots(ix) : ix.vec[l] # Tombstoned}

\* mark_deleted raises for a label it does not have or has tombstoned.
CanMarkDeleted(ix, l) == l \in Live(ix)
MarkDeleted(ix, l) == [ix EXCEPT !.vec[l] = Tombstoned]

\* add_items overwrites, and revives, a label it has; a new label needs a slot.
CanAdd(ix, l) == l \in Slots(ix) \/ CurrentCount(ix) < ix.max
AddItem(ix, l, id) == [ix EXCEPT !.vec[l] = id]

CanResize(ix, n) == n >= CurrentCount(ix)
Resize(ix, n) == [ix EXCEPT !.max = n]

\* load_index(path, max_elements = n) falls back on the saved allocation when
\* n is below the number of slots in use.
Load(image, n) ==
    [image EXCEPT !.max = IF n >= CurrentCount(image) THEN n ELSE @]

\* knn_query(k) raises unless it finds k labels that are not tombstoned.
CanQuery(ix, k) == Cardinality(Live(ix)) >= k
=============================================================================
