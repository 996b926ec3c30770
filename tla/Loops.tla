------------------------------- MODULE Loops -------------------------------
(***************************************************************************)
(* The C loops the kernels of riscv-tests/mt are made of.  Strided: the    *)
(* values of "for (i = lo; i < hi; i += s)".  Unrolled: the indices such a *)
(* loop touches when its body handles i to i+s-1, which runs past hi when  *)
(* s does not divide hi-lo.                                                *)
(***************************************************************************)
EXTENDS Naturals

Strided(lo, hi, s)  == {i \in lo .. (hi - 1) : (i - lo) % s = 0}
Unrolled(lo, hi, s) == UNION {i .. (i + s - 1) : i \in Strided(lo, hi, s)}
============================================================================
