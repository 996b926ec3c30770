------------------------------- MODULE MCFifo -------------------------------
(* A ring of four words, of two values: full, empty and several wraps.      *)
EXTENDS Fifo
=============================================================================
