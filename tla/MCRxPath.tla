------------------------------ MODULE MCRxPath ------------------------------
(* A FIFO of two words, which four bytes overrun.                           *)
EXTENDS RxPath
=============================================================================
