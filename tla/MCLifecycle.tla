----------------------------- MODULE MCLifecycle -----------------------------
(***************************************************************************)
(* Instance of ManagerLifecycle for TLC: the two databases of the tiers,   *)
(* and a process that opens L2's beside the manager.                       *)
(***************************************************************************)
EXTENDS ManagerLifecycle
CONSTANTS l2, l3, c2, c3, observer
MCDbOf == [c \in Connections |-> IF c = c3 THEN l3 ELSE l2]
MCTierConns == <<c2, c3>>
=============================================================================
