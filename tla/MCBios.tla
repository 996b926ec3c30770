------------------------------ MODULE MCBios ------------------------------
(***************************************************************************)
(* Words of two digits and tokens of up to three characters; the loads       *)
(* return numbers whose digits can be typed.                               *)
(***************************************************************************)
EXTENDS Bios

MCValues == {1, 16}
===========================================================================
