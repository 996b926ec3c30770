----------------------------- MODULE HexDigits -----------------------------
(***************************************************************************)
(* What the BIOS calls a word and a byte, by the number of hex digits they *)
(* are typed with.                                                         *)
(***************************************************************************)
EXTENDS Integers

CONSTANTS WordDigits, ByteDigits   \* 8 and 2 on the board

ASSUME DigitsAssumption ==
  WordDigits \in Nat \ {0} /\ ByteDigits \in 1 .. WordDigits

\* The digits in use, two of the sixteen, and what they stand for.
Digit == [c \in {"0", "1"} |-> IF c = "0" THEN 0 ELSE 1]

\* The number of values of a type of that many digits.
Size[digits \in 0 .. WordDigits] == IF digits = 0 THEN 1 ELSE 16 * Size[digits - 1]

Word == 0 .. (Size[WordDigits] - 1)
============================================================================
