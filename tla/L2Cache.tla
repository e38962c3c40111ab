------------------------------- MODULE L2Cache -------------------------------
(***************************************************************************)
(* L2HotVectorCache (memory/l2_cache.py), the hot vector tier: a           *)
(* VectorTier that adopts the capacity of a grown index when it is opened. *)
(***************************************************************************)
EXTENDS VectorTier

L2Next ==
    \/ \E id \in Ids : \E n \in Lengths[id] : UpdateStart(id, n) \/ InsertStart(id, n)
    \/ \E id \in Ids : RemoveStart(id)
    \/ UpdateRow \/ InsertSteps \/ RemoveDrop \/ MetadataFails
    \/ \E id \in Ids : Touch(id)
    \/ QuerySteps
    \/ Save \/ Close \/ Open \/ Crash

L2Spec == Init /\ [][L2Next]_vars
=============================================================================
