------------------------------ MODULE L3Archive ------------------------------
(***************************************************************************)
(* L3ArchiveCache (memory/l3_archive.py), the bottom tier: the same        *)
(* VectorTier, but open() keeps the max_elements it was asked for whatever *)
(* size the saved index has grown to, growth starts from that number, and  *)
(* query() asks the index for four times the hits it returns.  The tier    *)
(* filters of get(), remove() and query() never bite: insert() forces      *)
(* tier=L3 into every row of this database.                                *)
(***************************************************************************)
EXTENDS VectorTier

L3Insert(id, n) == UpdateStart(id, n) \/ InsertStart(id, n)

L3InsertSteps == UpdateRow \/ InsertSteps

L3Remove(id) == RemoveStart(id)

L3Touch(id) == Touch(id)

L3Query == QuerySteps

L3Save == Save

L3Close == Close

L3Open == Open

L3Next ==
    \/ \E id \in Ids : \E n \in Lengths[id] : L3Insert(id, n)
    \/ \E id \in Ids : L3Remove(id) \/ L3Touch(id)
    \/ L3InsertSteps \/ RemoveDrop \/ MetadataFails
    \/ L3Query
    \/ L3Save \/ L3Close \/ L3Open \/ Crash

L3Spec == Init /\ [][L3Next]_vars
=============================================================================
