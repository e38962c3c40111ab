------------------------------ MODULE MCKernel ------------------------------
(***************************************************************************)
(* Instance of KernelPartition for TLC: fewer rows than threads, as many,  *)
(* multiples and not, on both sides of the threshold; negative, automatic  *)
(* and explicit thread counts.                                             *)
(***************************************************************************)
EXTENDS KernelPartition
MCSizes == 0..11
MCRequests == {-1, 0, 1, 4, 5}
=============================================================================
