---------------------------- MODULE MCL1Working ----------------------------
(***************************************************************************)
(* Instance of L1Working for TLC: three memories charged 1..4 byte units   *)
(* in a buffer of 3, so that updates change the charge, one insert evicts  *)
(* up to all of the others, and an oversized memory exists.                *)
(***************************************************************************)
EXTENDS L1Working, TLC
=============================================================================
