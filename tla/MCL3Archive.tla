----------------------------- MODULE MCL3Archive -----------------------------
(***************************************************************************)
(* Instance of L3Archive for TLC: three memories, of which m3 may be as    *)
(* large as the whole byte budget, in an archive opened with one slot,     *)
(* which it outgrows.                                                      *)
(***************************************************************************)
EXTENDS L3Archive, TLC
CONSTANTS m1, m2, m3
ASSUME L3Assumption == ~AdoptsCapacity
MCLengths == [id \in Ids |-> IF id = m3 THEN {1, 2} ELSE {1}]
TinyAlike == Permutations({m1, m2})
=============================================================================
