------------------------------ MODULE Monitor ------------------------------
(***************************************************************************)
(* What the BIOS promises to who types at it: a line editor for words, and *)
(* commands of words that are carried out when the last one is complete.   *)
(*                                                                         *)
(* Sizes are scaled down: a word of memory is WordDigits hex digits, a     *)
(* byte ByteDigits.  A command's name is one character.                    *)
(***************************************************************************)
EXTENDS HexDigits, Sequences

CONSTANTS BUFFER_LEN,   \* a word that long ends by itself, and is cut
          Values        \* what a load may return

VARIABLES text,     \* the word being typed
          cmd,      \* the command it belongs to, Idle if it is the name of one
          args,     \* the values of the command's words so far
          key,      \* the character typed last
          bus       \* what it has made the BIOS do

Names == {"file", "jal", "lw", "lbu", "sw", "sb", "led"}
Delimiters == {"space", "return"}
Chars == DOMAIN Digit \cup Names \cup Delimiters \cup {"backspace", "other"}
Idle == "idle"
Nothing == <<"nothing">>

---------------------------------------------------------------------------
\* The number that the first n characters of w write, the others of them left
\* out, as a word.
Value(w, n, base) ==
  LET last == IF n < Len(w) THEN n ELSE Len(w)
      upTo[k \in 0 .. last] ==
        IF k = 0 THEN 0
        ELSE IF w[k] \in DOMAIN Digit THEN base * upTo[k - 1] + Digit[w[k]]
        ELSE upTo[k - 1]
  IN  upTo[last] % Size[WordDigits]

Hex(w) == Value(w, WordDigits, 16)
HexByte(w) == Value(w, ByteDigits, 16)
Dec(w) == Value(w, WordDigits + 1, 10)

\* The number of words of a file of that many bytes.
WordsOf(bytes) == (bytes + 3) \div 4

Init == text = <<>> /\ cmd = Idle /\ args = <<>> /\ key = "NUL" /\ bus = Nothing

Done(effect) == cmd' = Idle /\ args' = <<>> /\ bus' = effect
More(value) == cmd' = cmd /\ args' = Append(args, value) /\ bus' = Nothing

\* The word w is complete.
Enter(w) ==
  \/ /\ cmd = Idle /\ w \in {<<n>> : n \in Names}
     /\ cmd' = w[1] /\ args' = <<>> /\ bus' = Nothing
  \/ cmd = Idle /\ w \notin {<<n>> : n \in Names} /\ Done(<<"unrecognized", w>>)
  \/ cmd = "jal" /\ Done(<<"call", Hex(w)>>)
  \/ cmd = "lw" /\ \E v \in Values : Done(<<"load", WordDigits, Hex(w), v>>)
  \/ cmd = "lbu" /\ \E v \in Values : Done(<<"load", ByteDigits, Hex(w), v % Size[ByteDigits]>>)
  \/ cmd = "led" /\ Done(<<"led", Hex(w)>>)
  \/ cmd = "sw" /\ args = <<>> /\ More(Hex(w))
  \/ cmd = "sb" /\ args = <<>> /\ More(HexByte(w))
  \/ cmd = "sw" /\ args # <<>> /\ Done(<<"store", WordDigits, Hex(w), args[1]>>)
  \/ cmd = "sb" /\ args # <<>> /\ Done(<<"store", ByteDigits, Hex(w), args[1]>>)
  \/ cmd = "file" /\ args = <<>> /\ More(Hex(w))
  \/ /\ cmd = "file" /\ args # <<>>
     /\ IF Dec(w) = 0 THEN Done(Nothing)
        ELSE cmd' = cmd /\ args' = <<args[1], Dec(w), 0>> /\ bus' = Nothing

\* A file is taken as it comes, words of exactly WordDigits characters; the
\* third argument counts those stored.
Transfer(c) ==
  LET w == Append(text, c)
      effect == <<"store", WordDigits, (args[1] + 4 * args[3]) % Size[WordDigits], Hex(w)>>
  IN  IF Len(w) < WordDigits THEN text' = w /\ bus' = Nothing /\ UNCHANGED <<cmd, args>>
      ELSE /\ text' = <<>>
           /\ IF args[3] + 1 = WordsOf(args[2]) THEN Done(effect)
              ELSE cmd' = cmd /\ args' = [args EXCEPT ![3] = @ + 1] /\ bus' = effect

Transferring == cmd = "file" /\ Len(args) = 3

Edit(c) ==
  \/ /\ c = "backspace"
     /\ text' = SubSeq(text, 1, Len(text) - 1)
     /\ bus' = Nothing /\ UNCHANGED <<cmd, args>>
  \/ c \in Delimiters /\ text' = <<>> /\ Enter(text)
  \/ /\ c \notin Delimiters \cup {"backspace"}
     /\ IF Len(text) + 1 < BUFFER_LEN
        THEN text' = Append(text, c) /\ bus' = Nothing /\ UNCHANGED <<cmd, args>>
        ELSE text' = <<>> /\ Enter(text)

Next ==
  \E c \in Chars : key' = c /\ IF Transferring THEN Transfer(c) ELSE Edit(c)

Spec == Init /\ [][Next]_<<text, cmd, args, key, bus>>
===========================================================================
