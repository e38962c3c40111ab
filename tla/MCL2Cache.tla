------------------------------ MODULE MCL2Cache ------------------------------
(***************************************************************************)
(* Instances of L2Cache for TLC: three memories, of which m3 may be as     *)
(* large as the whole byte budget, so that storing it evicts everything    *)
(* else, and may come back with a text of another length.                  *)
(***************************************************************************)
EXTENDS L2Cache, TLC
CONSTANTS m1, m2, m3
ASSUME L2Assumption == AdoptsCapacity
MCLengths == [id \in Ids |-> IF id = m3 THEN {1, 2} ELSE {1}]
TinyAlike == Permutations({m1, m2})
=============================================================================
