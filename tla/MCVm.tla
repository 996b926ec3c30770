-------------------------------- MODULE MCVm --------------------------------
(***************************************************************************)
(* Two pages and three frames: the second fault leaves one node on the     *)
(* free list, as the last fault of the 63-page environment does.           *)
(***************************************************************************)
EXTENDS Vm

\* At the real size every seed gives each of the 63 frames to one node.
ASSUME RealPeriod == FullPeriod(6, 63)
=============================================================================
