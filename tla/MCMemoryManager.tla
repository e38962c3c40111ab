--------------------------- MODULE MCMemoryManager ---------------------------
(***************************************************************************)
(* Instances of MemoryManager for TLC.  m1 and m2 are charged one byte     *)
(* unit, m3 two.  With RoomyCap any memory fits into any tier but not      *)
(* beside m3, with TightCap m3 is too large for L1, with UnitCap every     *)
(* tier holds one memory, so that a put cascades down to the bottom.       *)
(***************************************************************************)
EXTENDS MemoryManager, TLC
CONSTANTS m1, m2, m3, t1, t2
MCSize == [id \in Ids |-> IF id = m3 THEN 2 ELSE 1]
RoomyCap == <<2, 2, 2>>
TightCap == <<1, 2, 2>>
UnitCap == <<1, 1, 1>>

\* Threads run the same code, and m1 and m2 are charged the same.
Symmetry == Permutations(Threads) \cup Permutations({m1, m2})
\* Bound of MCConcurrent: its queries read all the tiers (min_tier is L3).
DeepQueries == \A t \in Threads : thread[t].op = "query" => thread[t].target = L3
=============================================================================
