------------------------------ MODULE MCPruner ------------------------------
(***************************************************************************)
(* Instance of Pruner for TLC: one agent, the scheduler's worker and the   *)
(* dashboard, memories of one byte unit, and tiers that hold one memory or *)
(* two.                                                                    *)
(***************************************************************************)
EXTENDS Pruner, TLC
CONSTANTS m1, m2, m3, agent, worker, dashboard
MCSize == [id \in Ids |-> 1]
MCCap == <<1, 2, 2>>
=============================================================================
