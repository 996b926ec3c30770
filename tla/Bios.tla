-------------------------------- MODULE Bios --------------------------------
(***************************************************************************)
(* bios151v3.c: main's command loop on read_token and read_n, with the     *)
(* conversions of ascii.c and the echo of uread_int8.  The program has one *)
(* thread and waits for nothing but the next character, so everything up   *)
(* to the next call of uread_int8 is one step.  How a character gets from  *)
(* the line to uread_int8 is RxPath's matter.                              *)
(*                                                                         *)
(* The screen is that of a terminal, as far as the word being typed is     *)
(* concerned.                                                              *)
(***************************************************************************)
EXTENDS HexDigits, Sequences

CONSTANTS BUFFER_LEN, Values   \* see Monitor

ASSUME LengthAssumption == BUFFER_LEN \in Nat /\ BUFFER_LEN > WordDigits
ASSUME ValuesAssumption == Values \subseteq Word

VARIABLES
  pc,             \* the call that waits for a character
  buffer, i,      \* read_token's
  value,          \* main's word, half or byte, or store's address
  length, n,      \* store's, n its loop counter i
  chars, j,       \* read_n's b and i
  key,            \* the character uread_int8 returned last
  bus,            \* what main did since, as in Monitor
  \* The terminal.
  shown,          \* from where the word began
  col,            \* of the cursor, from there
  newline         \* the word began at the left margin

vars == <<pc, buffer, i, value, length, n, chars, j, key, bus, shown, col, newline>>

NUL == "NUL"
Chars == {"0", "1", "file", "jal", "lw", "lbu", "sw", "sb", "led",
          "space", "return", "backspace", "other"}
ds == {"space", "return"}
Nothing == <<"nothing">>

---------------------------------------------------------------------------
(* ascii.c *)

\* The characters before the NUL.
String(b) ==
  LET end == CHOOSE k \in DOMAIN b : b[k] = NUL /\ \A l \in 0 .. (k - 1) : b[l] # NUL
  IN  [k \in 1 .. end |-> b[k - 1]]

\* for ( ; i < limit && s[i] != '\0'; i++), in a type of that many hex digits.
Converted(b, limit, base, digits) ==
  LET t[k \in 0 .. limit] ==
        IF k = 0 THEN 0
        ELSE IF \E l \in 0 .. (k - 1) : b[l] = NUL THEN t[k - 1]
        ELSE IF b[k - 1] \in DOMAIN Digit
             THEN (base * t[k - 1] + Digit[b[k - 1]]) % Size[digits] ELSE t[k - 1]
  IN  t[limit]

\* As many digits as for a word (a mutation).
ascii_hex_to_uint8_AsLong(b) == Converted(b, WordDigits, 16, ByteDigits)

ascii_hex_to_uint32(b) == Converted(b, WordDigits, 16, WordDigits)
ascii_hex_to_uint8(b) == Converted(b, ByteDigits, 16, ByteDigits)
ascii_dec_to_uint32(b) == Converted(b, WordDigits + 1, 10, WordDigits)

\* The digits of x go to the front of the buffer, as many as fit.
to_ascii_hex(x, b, digits) ==
  LET m == IF digits < BUFFER_LEN THEN digits ELSE BUFFER_LEN - 1
  IN  [k \in DOMAIN b |->
         IF k < m THEN (IF (x \div Size[digits - 1 - k]) % 16 = 0 THEN "0" ELSE "1")
         ELSE IF k = m THEN NUL ELSE b[k]]

---------------------------------------------------------------------------
(* The terminal *)

\* One character written at <<text, column>>.
Written(screen, c) ==
  LET text == screen[1]  column == screen[2]
  IN  IF c = "backspace" THEN <<text, IF column = 0 /\ newline THEN 0 ELSE column - 1>>
      ELSE IF column = -1 THEN <<text, 0>>
      ELSE <<SubSeq(text, 1, column) \o <<c>> \o SubSeq(text, column + 2, Len(text)), column + 1>>

Shows(out) ==
  LET screen[k \in 0 .. Len(out)] ==
        IF k = 0 THEN <<shown, col>> ELSE Written(screen[k - 1], out[k])
  IN  shown' = screen[Len(out)][1] /\ col' = screen[Len(out)][2] /\ newline' = newline

---------------------------------------------------------------------------
(* main, when a read_token has returned *)

Idle == value' = 0 /\ length' = 0 /\ n' = 0

\* Back to the top of the loop and the prompt.
Loop(effect) == pc' = "input" /\ bus' = effect /\ Idle
Reads(next) == pc' = next /\ bus' = Nothing /\ length' = 0 /\ n' = 0
Same(b) == buffer' = b

\* strcmp(input, ...), one command after the other.
Dispatch(b) ==
  /\ pc = "input"
  /\ Same(b)
  /\ LET first == [file |-> "file address", jal |-> "jal", lw |-> "lw", lbu |-> "lbu",
                   sw |-> "sw word", sb |-> "sb byte", led |-> "led"]
     IN  \/ \E name \in DOMAIN first :
              String(b) = <<name>> /\ Reads(first[name]) /\ value' = 0
         \/ /\ String(b) \notin {<<name>> : name \in DOMAIN first}
            /\ Loop(<<"unrecognized", String(b)>>)

FileAddress(b) ==
  pc = "file address" /\ Same(b) /\ Reads("file length") /\ value' = ascii_hex_to_uint32(b)

\* The loop of store is entered if 0 < length.
FileLength(b) ==
  /\ pc = "file length"
  /\ Same(b)
  /\ IF ascii_dec_to_uint32(b) = 0 THEN Loop(Nothing)
     ELSE /\ pc' = "store" /\ bus' = Nothing
          /\ length' = ascii_dec_to_uint32(b) /\ n' = 0 /\ UNCHANGED value

\* The program at that address returns, or is never heard of again.
Jal(b) == pc = "jal" /\ Same(b) /\ Loop(<<"call", ascii_hex_to_uint32(b)>>)

\* Address and value are printed from the buffer, which is used for both.
Load(b, name, digits) ==
  /\ pc = name
  /\ \E v \in Values :
       LET address == ascii_hex_to_uint32(b)
       IN  /\ Same(to_ascii_hex(v % Size[digits], to_ascii_hex(address, b, WordDigits), digits))
           /\ Loop(<<"load", digits, address, v % Size[digits]>>)

StoreWord(b) ==
  \/ pc = "sw word" /\ Same(b) /\ Reads("sw address") /\ value' = ascii_hex_to_uint32(b)
  \/ /\ pc = "sw address" /\ Same(b)
     /\ Loop(<<"store", WordDigits, ascii_hex_to_uint32(b), value>>)

StoreByte(b) ==
  \/ pc = "sb byte" /\ Same(b) /\ Reads("sb address") /\ value' = ascii_hex_to_uint8(b)
  \/ /\ pc = "sb address" /\ Same(b)
     /\ Loop(<<"store", ByteDigits, ascii_hex_to_uint32(b), value>>)

Led(b) == pc = "led" /\ Same(b) /\ Loop(<<"led", ascii_hex_to_uint32(b)>>)

\* read_token returns b, after c.
Return(b, c) ==
  /\ i' = 0 /\ UNCHANGED <<chars, j>>
  /\ \/ Dispatch(b) \/ FileAddress(b) \/ FileLength(b) \/ Jal(b)
     \/ Load(b, "lw", WordDigits) \/ Load(b, "lbu", ByteDigits)
     \/ StoreWord(b) \/ StoreByte(b) \/ Led(b)
  /\ shown' = <<>> /\ col' = 0
  /\ newline' = (c = "return" /\ pc' \notin {"input", "store"})

---------------------------------------------------------------------------
(* read_token *)

\* b[at] = '\0'
Ended(at) == [buffer EXCEPT ![at] = NUL]

\* The cursor goes back but the character stays (a mutation).
Rubout_CursorOnly == <<>>

Rubout == <<"space", "backspace">>

Stays == bus' = Nothing /\ UNCHANGED <<pc, value, length, n, chars, j>>

Backspace ==
  IF i = 0
  THEN Stays /\ Shows(<<"backspace", "space">>) /\ UNCHANGED <<buffer, i>>
  ELSE /\ Stays /\ Shows(<<"backspace">> \o Rubout)
       /\ buffer' = [buffer EXCEPT ![i] = NUL] /\ i' = i - 1

\* No room left for the NUL (a mutation).
Character_ToTheEnd(c) ==
  IF i < BUFFER_LEN
  THEN /\ Stays /\ Shows(<<c>>)
       /\ buffer' = [buffer EXCEPT ![i] = c] /\ i' = i + 1
  ELSE Return(Ended(BUFFER_LEN - 1), c)

Character(c) ==
  IF i + 1 < BUFFER_LEN
  THEN /\ Stays /\ Shows(<<c>>)
       /\ buffer' = [buffer EXCEPT ![i] = c] /\ i' = i + 1
  ELSE Return(Ended(BUFFER_LEN - 1), c)

read_token(c) ==
  \/ c = "backspace" /\ Backspace
  \/ c \in ds /\ Return(Ended(i), c)
  \/ c \notin ds \cup {"backspace"} /\ Character(c)

---------------------------------------------------------------------------
(* store *)

\* read_n reads one more character; the eighth makes a word.
read_n(c) ==
  /\ UNCHANGED <<buffer, i, shown, col, newline>>
  /\ IF j + 1 < WordDigits
     THEN /\ chars' = [chars EXCEPT ![j] = c] /\ j' = j + 1
          /\ bus' = Nothing /\ UNCHANGED <<pc, value, length, n>>
     ELSE LET word == [chars EXCEPT ![j] = c, ![WordDigits] = NUL]
              effect == <<"store", WordDigits, (value + n * 4) % Size[WordDigits],
                          ascii_hex_to_uint32(word)>>
          IN  /\ chars' = [k \in DOMAIN chars |-> NUL] /\ j' = 0
              /\ IF (n + 1) * 4 < length
                 THEN n' = n + 1 /\ bus' = effect /\ UNCHANGED <<pc, value, length>>
                 ELSE Loop(effect)

---------------------------------------------------------------------------
\* The buffers are on the stack and hold anything at first: digits, say.
Init ==
  /\ pc = "input"
  /\ \E junk \in {NUL, "0"} : buffer = [k \in 0 .. (BUFFER_LEN - 1) |-> junk]
  /\ i = 0 /\ value = 0 /\ length = 0 /\ n = 0
  /\ chars = [k \in 0 .. WordDigits |-> NUL] /\ j = 0
  /\ key = NUL /\ bus = Nothing
  /\ shown = <<>> /\ col = 0 /\ newline = FALSE

Next ==
  \E c \in Chars :
    /\ key' = c
    /\ \/ pc # "store" /\ read_token(c)
       \/ pc = "store" /\ read_n(c)

Spec == Init /\ [][Next]_vars

---------------------------------------------------------------------------
(* Properties *)

Typed == [k \in 1 .. i |-> buffer[k - 1]]

Command ==
  IF pc = "input" THEN "idle"
  ELSE IF pc \in {"file address", "file length", "store"} THEN "file"
  ELSE IF pc \in {"sw word", "sw address"} THEN "sw"
  ELSE IF pc \in {"sb byte", "sb address"} THEN "sb"
  ELSE pc

Text == IF pc = "store" THEN [k \in 1 .. j |-> chars[k - 1]] ELSE Typed

Args ==
  IF pc \in {"file length", "sw address", "sb address"} THEN <<value>>
  ELSE IF pc = "store" THEN <<value, length, n>> ELSE <<>>

M == INSTANCE Monitor WITH text <- Text, cmd <- Command, args <- Args

\* One buffer for every word and for the answers, read up to its NUL and with
\* what was in it before behind that, and conversions in C's types: commands
\* are still carried out as typed, each once, and a file is stored whole.
ImplementsMonitor == M!Spec

\* What the terminal shows of a word is what the BIOS has of it, through all
\* corrections, and the cursor stands behind it: the echo of uread_int8 and what
\* read_token adds to it agree with the index.  What was rubbed out is blank.
\* Where a word began at the left margin, after a return, a backspace too many
\* leaves a blank before it.
ScreenShowsToken ==
  pc # "store" =>
    \E lead \in 0 .. 1 :
      /\ lead = 1 => newline
      /\ col = lead + i /\ col <= Len(shown)
      /\ \A k \in DOMAIN shown :
           shown[k] = IF k - lead \in DOMAIN Typed THEN Typed[k - lead] ELSE "space"

\* The index stays inside the buffer, the loop of store inside the file, and a
\* word, half or byte in its type.
TypeOK ==
  /\ pc \in {"input", "file address", "file length", "store", "jal", "lw", "lbu",
            "sw word", "sw address", "sb byte", "sb address", "led"}
  /\ buffer \in [0 .. (BUFFER_LEN - 1) -> Chars \cup {NUL}] /\ i \in 0 .. (BUFFER_LEN - 1)
  /\ value \in Word /\ length \in Word /\ n \in Nat /\ (n = 0 \/ 4 * n < length)
  /\ chars \in [0 .. WordDigits -> Chars \cup {NUL}] /\ j \in 0 .. (WordDigits - 1)
  /\ key \in Chars \cup {NUL}
  /\ shown \in Seq(Chars) /\ col \in 0 .. Len(shown) /\ newline \in BOOLEAN
=============================================================================
