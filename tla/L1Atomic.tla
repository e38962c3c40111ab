------------------------------- MODULE L1Atomic -------------------------------
(***************************************************************************)
(* What L1 promises its callers: every operation of the working set is one *)
(* step.  MemoryManager uses L1 in this form (its PutL1, RemoveL1 steps);  *)
(* L1Working, with its eviction loop, is checked to implement it.          *)
(***************************************************************************)
EXTENDS ByteBudget

CONSTANT Capacity

VARIABLES order, size

Init == order = <<>> /\ size = [id \in Ids |-> 0]

Insert(id, c) ==
    /\ c <= Capacity
    /\ LET rest == Without(order, id)
           n    == PopCount(size, rest, c, Capacity)
           kept == Suffix(rest, n)
       IN  /\ order' = Append(kept, id)
           /\ size' = [x \in Ids |-> IF x = id THEN c
                                     ELSE IF x \in Members(kept) THEN size[x]
                                     ELSE 0]

RemoveKey(id) ==
    /\ order' = Without(order, id)
    /\ size' = [size EXCEPT ![id] = 0]

Touch(id) ==
    /\ id \in Members(order)
    /\ order' = Append(Without(order, id), id)
    /\ UNCHANGED size

Clear == order' = <<>> /\ size' = [id \in Ids |-> 0]

Next ==
    \/ \E id \in Ids, c \in Sizes : Insert(id, c)
    \/ \E id \in Ids : RemoveKey(id) \/ Touch(id)
    \/ Clear

Spec == Init /\ [][Next]_<<order, size>>
=============================================================================
