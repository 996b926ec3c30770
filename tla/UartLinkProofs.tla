--------------------------- MODULE UartLinkProofs ---------------------------
(***************************************************************************)
(* That the receiver takes each bit inside its symbol and puts together    *)
(* the words that were sent, for every symbol time of at least four clocks *)
(* and every number of data bits.                                          *)
(*                                                                         *)
(* While nothing is garbled, the receiver's clock runs 4 + e clocks behind *)
(* the sender's: three for the registers in between, one to see the start  *)
(* bit, and e for the frames of a host that follow each other at once,     *)
(* each of which begins a clock before the receiver is ready for it.  lag  *)
(* is a bound of e, as a reset may have let the receiver catch up.         *)
(***************************************************************************)
EXTENDS UartLink, SequenceTheorems, TLAPS

\* Symbol b of the frame of w.
Sent(w, b) == IF b = 0 THEN 0 ELSE IF b <= DataBits THEN w[b] ELSE 1

\* What the transmitter showed k clocks ago.
Shown(k) ==
  IF clock_counter >= k THEN Sent(data, bit_counter)
  ELSE IF bit_counter = 0 THEN 1
  ELSE Sent(data, bit_counter - 1)

\* The registers of the line show the frame one, two and three clocks late.
LineInv ==
  IF tx_running
  THEN out = Shown(1) /\ serial_out_reg = Shown(2) /\ serial_in_reg = Shown(3)
  ELSE out = 1 /\ serial_out_reg = 1 /\ serial_in_reg = 1

\* A frame is under way only while the receiver is not too late for it.
LagInv == tx_running => lag <= MaxLag

\* The sender has begun a frame, and the receiver, e clocks late, not yet.
Ahead(e) == bit_counter = 0 /\ clock_counter < 4 + e

\* Where the receiver is: after the sender's last frame, still at the previous
\* one or waiting, in the same symbol as the sender, or one symbol behind.
Following(e) ==
  IF ~tx_running
  THEN IF e = 0 THEN rx_bit = 0 \/ (rx_bit = 1 /\ rx_clock >= SYMBOL_EDGE_TIME - 3)
       ELSE rx_bit = 1 /\ rx_clock = SYMBOL_EDGE_TIME - 3 - e
  ELSE IF Ahead(e)
  THEN \/ rx_bit = 0 /\ (e > 0 => clock_counter = 3 + e)
       \/ rx_bit = 1 /\ rx_clock >= SYMBOL_EDGE_TIME - 3 - e + clock_counter
                     /\ (e > 0 => rx_clock = SYMBOL_EDGE_TIME - 3 - e + clock_counter)
  ELSE IF clock_counter >= 4 + e
  THEN rx_bit = DataBits + 2 - bit_counter /\ rx_clock = clock_counter - (4 + e)
  ELSE rx_bit = DataBits + 3 - bit_counter
       /\ rx_clock = clock_counter + SYMBOL_EDGE_TIME - (4 + e)

\* The words under way: the one the receiver is at, the one the sender is at.
InflightInv(e) ==
  IF tx_running
  THEN IF Ahead(e) /\ rx_bit = 1 THEN \E w \in Words : inflight = <<w, data>>
       ELSE inflight = <<data>>
  ELSE IF rx_bit = 0 THEN inflight = <<>>
  ELSE \E w \in Words : inflight = <<w>>

\* The samples the receiver has taken of a frame.
Taken == DataBits + 2 - rx_bit + (IF rx_clock > SAMPLE_TIME THEN 1 ELSE 0)

SamplesInv ==
  rx_running => \A j \in 1 .. (DataBits + 1) :
                  j <= Taken => rx_shift[DataBits + 2 - Taken + j] = Sent(inflight[1], j - 1)

\* The link in order.
LinkInv ==
  LineInv /\ SamplesInv /\ \E e \in 0 .. lag : Following(e) /\ InflightInv(e)

IInv ==
  /\ TypeOK /\ LagInv
  /\ garbled => inflight = <<>>
  /\ ~garbled => LinkInv

-----------------------------------------------------------------------------
(* Types *)

\* What the sample time and the bound on the lag amount to.
LEMMA HalfSymbol ==
  /\ SYMBOL_EDGE_TIME \in Nat /\ SYMBOL_EDGE_TIME >= 4 /\ DataBits \in Nat \ {0}
  /\ SAMPLE_TIME \in Nat /\ SAMPLE_TIME + SAMPLE_TIME <= SYMBOL_EDGE_TIME
  /\ SYMBOL_EDGE_TIME <= SAMPLE_TIME + SAMPLE_TIME + 1
  /\ MaxLag \in Nat /\ MaxLag = SYMBOL_EDGE_TIME - SAMPLE_TIME - 2
<1>1. SYMBOL_EDGE_TIME \in Nat /\ SYMBOL_EDGE_TIME >= 4 /\ DataBits \in Nat \ {0}
  BY UartLinkAssumption
<1>2. /\ SAMPLE_TIME \in Nat /\ SAMPLE_TIME + SAMPLE_TIME <= SYMBOL_EDGE_TIME
      /\ SYMBOL_EDGE_TIME <= SAMPLE_TIME + SAMPLE_TIME + 1
  BY <1>1 DEF SAMPLE_TIME
<1> QED
  BY <1>1, <1>2 DEF MaxLag

\* The receiver's shift register after a sample.
LEMMA ShiftIn ==
  ASSUME NEW r \in [1 .. (DataBits + 2) -> Bit], NEW b \in Bit
  PROVE  /\ Append(Tail(r), b) \in [1 .. (DataBits + 2) -> Bit]
         /\ Append(Tail(r), b)[DataBits + 2] = b
         /\ \A i \in 1 .. (DataBits + 1) : Append(Tail(r), b)[i] = r[i + 1]
<1>1. DataBits \in Nat \ {0}
  BY HalfSymbol
<1> DEFINE n == DataBits + 2
<1>2. n \in Nat /\ n >= 1
  BY <1>1
<1>3. DataBits + 1 = n - 1
  BY <1>1
<1> HIDE DEF n
<1>4. r \in Seq(Bit) /\ Len(r) = n /\ r # <<>>
  BY <1>2 DEF n
<1>5. /\ Tail(r) \in Seq(Bit) /\ Len(Tail(r)) = n - 1
      /\ \A i \in 1 .. (n - 1) : Tail(r)[i] = r[i + 1]
  BY <1>2, <1>4
<1>6. /\ Append(Tail(r), b) \in Seq(Bit) /\ Len(Append(Tail(r), b)) = n
      /\ Append(Tail(r), b)[n] = b
      /\ \A i \in 1 .. (n - 1) : Append(Tail(r), b)[i] = Tail(r)[i]
  BY <1>2, <1>5
<1>7. Append(Tail(r), b) \in [1 .. n -> Bit]
  <2>1. PICK a : a = Append(Tail(r), b)
    OBVIOUS
  <2>2. a \in Seq(Bit) /\ Len(a) = n
    BY <1>6, <2>1
  <2>3. a \in [1 .. n -> Bit]
    BY <2>2
  <2> QED
    BY <2>1, <2>3
<1> QED
  BY <1>3, <1>5, <1>6, <1>7 DEF n

\* Types and the bound on the lag are kept, by a reset too.
LEMMA TypeStep == TypeOK /\ LagInv /\ [Next]_vars => TypeOK' /\ LagInv'
<1> SUFFICES ASSUME TypeOK, LagInv, [Next]_vars PROVE TypeOK' /\ LagInv'
  OBVIOUS
<1> USE HalfSymbol
<1>1. CASE UNCHANGED vars
  BY <1>1 DEF vars, tx, rx, TypeOK, LagInv, tx_running
<1>2. ASSUME NEW valid \in Words \cup {None}, NEW rst \in BOOLEAN, Clock(valid, rst)
      PROVE  TypeOK' /\ LagInv'
  <2>1. bit_counter' \in 0 .. (DataBits + 3) /\ clock_counter' \in 0 .. (SYMBOL_EDGE_TIME - 1)
    BY <1>2 DEF Clock, TxStep, TxBit, tx_edge, tx_running, TypeOK
  <2>2. data' \in Words
    <3>1. [i \in 1 .. DataBits |-> 0] \in Words
      BY DEF Words, Bit
    <3> QED
      BY <1>2, <3>1 DEF Clock, TxStep, TypeOK
  <2>3. out' \in Bit /\ serial_out_reg' \in Bit /\ serial_in_reg' \in Bit
    <3>1. tx_running => Symbol \in Bit
      BY DEF TypeOK, Symbol, Words, Bit, tx_running
    <3> QED
      BY <1>2, <3>1 DEF Clock, TxStep, RxStep, TypeOK, Bit
  <2>4. rx_bit' \in 0 .. (DataBits + 2) /\ rx_clock' \in 0 .. (SYMBOL_EDGE_TIME - 1)
    BY <1>2 DEF Clock, RxStep, RxBit, rx_edge, rx_running, TypeOK
  <2>5. rx_shift' \in [1 .. (DataBits + 2) -> Bit]
    <3>1. serial_in_reg \in Bit /\ rx_shift \in [1 .. (DataBits + 2) -> Bit]
      BY DEF TypeOK
    <3>2. rx_shift' = Append(Tail(rx_shift), serial_in_reg) \/ rx_shift' = rx_shift
      BY <1>2 DEF Clock, RxStep
    <3> QED
      BY <3>1, <3>2, ShiftIn
  <2>6. lag' \in 0 .. MaxLag + 1 /\ LagInv'
    <3>1. lag \in 0 .. MaxLag + 1 /\ (tx_running => lag <= MaxLag)
      BY DEF TypeOK, LagInv
    <3>2. lag' = IF tx_running /\ LastClock THEN lag + 1
                 ELSE IF ~tx_running /\ lag > 0 THEN lag - 1 ELSE lag
      BY <1>2 DEF Clock
    <3>3. lag' \in 0 .. MaxLag + 1
      BY <3>1, <3>2
    <3>4. ASSUME tx_running' PROVE lag' <= MaxLag
      <4>1. CASE ~tx_running
        BY <3>1, <3>2, <4>1
      <4>2. CASE tx_running /\ ~LastClock
        BY <3>1, <3>2, <4>2
      <4>3. CASE tx_running /\ LastClock
        <5>1. tx_edge /\ bit_counter = DataBits + 1
          BY <4>3 DEF LastClock
        <5>2. valid # None
          BY <1>2, <3>4, <4>3, <5>1 DEF Clock, TxStep, TxBit, tx_running
        <5>3. lag < MaxLag
          BY <1>2, <4>3, <5>2 DEF Clock, HostReady, data_in_ready
        <5> QED
          BY <3>1, <3>2, <5>3
      <4> QED
        BY <4>1, <4>2, <4>3
    <3> QED
      BY <3>3, <3>4 DEF LagInv
  <2>7. ideal' \in BOOLEAN /\ garbled' \in BOOLEAN
    BY <1>2 DEF Clock, TypeOK, Quiet
  <2> QED
    BY <2>1, <2>2, <2>3, <2>4, <2>5, <2>6, <2>7 DEF TypeOK
<1> QED
  BY <1>1, <1>2 DEF Next, Tick, Reset

-----------------------------------------------------------------------------
(* The line *)

\* Each clock moves what the line shows by one register.
LEMMA LineStep ==
  ASSUME TypeOK, LineInv, NEW valid \in Words \cup {None}, Clock(valid, FALSE)
  PROVE  LineInv'
<1> USE HalfSymbol DEF TypeOK
<1>1. /\ clock_counter' = IF valid # None \/ tx_edge THEN 0 ELSE clock_counter + 1
      /\ bit_counter' = IF valid # None THEN 0
                        ELSE IF tx_edge /\ tx_running THEN bit_counter + 1 ELSE bit_counter
      /\ data' = IF valid # None THEN valid ELSE data
      /\ out' = (IF tx_running THEN Symbol ELSE 1) /\ serial_out_reg' = out
      /\ serial_in_reg' = serial_out_reg
      /\ valid # None => ~tx_running \/ LastClock
  BY DEF Clock, TxStep, TxBit, RxStep, data_in_ready, HostReady
<1>2. bit_counter \in Nat /\ clock_counter \in Nat /\ clock_counter <= SYMBOL_EDGE_TIME - 1
  OBVIOUS
<1>3. Symbol = Sent(data, bit_counter)
  BY DEF Symbol, Sent
<1>4. valid # None => LineInv'
  <2> SUFFICES ASSUME valid # None PROVE LineInv'
    OBVIOUS
  <2>1. bit_counter' = 0 /\ clock_counter' = 0 /\ tx_running'
    BY <1>1 DEF tx_running
  <2>2. Shown(1)' = 1 /\ Shown(2)' = 1 /\ Shown(3)' = 1
    BY <2>1 DEF Shown
  <2>3. out' = 1 /\ serial_out_reg' = 1 /\ serial_in_reg' = 1
    <3>1. CASE ~tx_running
      BY <1>1, <3>1 DEF LineInv
    <3>2. CASE tx_running /\ LastClock
      <4>1. bit_counter = DataBits + 1 /\ clock_counter = SYMBOL_EDGE_TIME - 1
        BY <3>2 DEF LastClock, tx_edge
      <4>2. Sent(data, bit_counter) = 1
        BY <4>1 DEF Sent
      <4>3. Shown(1) = 1 /\ Shown(2) = 1
        BY <1>2, <4>1, <4>2 DEF Shown
      <4> QED
        BY <1>1, <1>3, <3>2, <4>2, <4>3 DEF LineInv
    <3> QED
      BY <1>1, <3>1, <3>2
  <2> QED
    BY <2>1, <2>2, <2>3 DEF LineInv
<1>5. valid = None /\ ~tx_running => LineInv'
  BY <1>1 DEF LineInv, tx_running
<1>6. valid = None /\ tx_running => LineInv'
  <2> SUFFICES ASSUME valid = None, tx_running PROVE LineInv'
    OBVIOUS
  <2>1. out' = Sent(data, bit_counter) /\ serial_out_reg' = Shown(1) /\ serial_in_reg' = Shown(2)
    BY <1>1, <1>3 DEF LineInv
  <2>2. CASE ~tx_edge
    <3>1. bit_counter' = bit_counter /\ clock_counter' = clock_counter + 1 /\ data' = data
      BY <1>1, <2>2
    <3>2. Shown(1)' = Sent(data, bit_counter) /\ Shown(2)' = Shown(1) /\ Shown(3)' = Shown(2)
      BY <1>2, <3>1 DEF Shown
    <3>3. tx_running'
      BY <3>1 DEF tx_running
    <3> QED
      BY <2>1, <3>2, <3>3 DEF LineInv
  <2>3. CASE tx_edge
    <3>1. bit_counter' = bit_counter + 1 /\ clock_counter' = 0 /\ data' = data
      BY <1>1, <2>3
    <3>2. clock_counter >= 3
      BY <1>2, <2>3 DEF tx_edge
    <3>3. Shown(1) = Sent(data, bit_counter) /\ Shown(2) = Sent(data, bit_counter)
      BY <1>2, <3>2 DEF Shown
    <3>4. Shown(1)' = Sent(data, bit_counter) /\ Shown(2)' = Sent(data, bit_counter)
          /\ Shown(3)' = Sent(data, bit_counter)
      BY <1>2, <3>1 DEF Shown
    <3>5. ~tx_running' => Sent(data, bit_counter) = 1
      BY <1>2, <3>1 DEF Sent, tx_running
    <3> QED
      BY <2>1, <3>3, <3>4, <3>5 DEF LineInv
  <2> QED
    BY <2>2, <2>3
<1> QED
  BY <1>4, <1>5, <1>6

-----------------------------------------------------------------------------
(* The receiver behind the sender *)

\* A running sender's lag leaves the receiver inside a symbol.
LEMMA LateBy ==
  ASSUME TypeOK, LagInv, NEW e \in 0 .. lag
  PROVE  /\ e \in Nat /\ lag \in Nat /\ e <= MaxLag + 1
         /\ tx_running => 4 + e <= SYMBOL_EDGE_TIME /\ e <= MaxLag
BY HalfSymbol DEF TypeOK, LagInv

\* The receiver starts on the first zero it sees, in the clock before it is due.
LEMMA StartsOnTime ==
  ASSUME TypeOK, LagInv, LineInv, NEW e \in 0 .. lag, Following(e)
  PROVE  start <=> tx_running /\ bit_counter = 0 /\ clock_counter = 3 + e
<1> USE HalfSymbol, LateBy DEF TypeOK
<1>1. CASE ~tx_running
  BY <1>1 DEF LineInv, start
<1>2. CASE tx_running /\ ~Ahead(e)
  <2>1. rx_bit # 0
    BY <1>2 DEF Following, tx_running, Ahead
  <2> QED
    BY <1>2, <2>1 DEF start, rx_running, Ahead
<1>3. CASE tx_running /\ Ahead(e)
  <2>1. serial_in_reg = IF clock_counter >= 3 THEN 0 ELSE 1
    BY <1>3 DEF LineInv, Shown, Sent, Ahead
  <2>2. rx_bit = 0 \/ rx_bit = 1
    BY <1>3 DEF Following
  <2>3. rx_bit = 0 /\ clock_counter >= 3 => clock_counter = 3 + e
    BY <1>3 DEF Following, Ahead
  <2>4. clock_counter = 3 + e => rx_bit = 0 /\ clock_counter >= 3
    BY <1>3, <2>2 DEF Following, Ahead
  <2> QED
    BY <1>3, <2>1, <2>2, <2>3, <2>4 DEF start, rx_running, Ahead
<1> QED
  BY <1>1, <1>2, <1>3

\* What a clock does to the receiver's counters.
LEMMA ReceiverMoves ==
  ASSUME NEW valid, Clock(valid, FALSE)
  PROVE  /\ rx_bit' = IF start THEN DataBits + 2
                      ELSE IF rx_clock = SYMBOL_EDGE_TIME - 1 /\ rx_bit # 0 THEN rx_bit - 1
                      ELSE rx_bit
         /\ rx_clock' = IF start \/ rx_clock = SYMBOL_EDGE_TIME - 1 THEN 0 ELSE rx_clock + 1
         /\ rx_shift' = IF rx_clock = SAMPLE_TIME /\ rx_bit # 0
                        THEN Append(Tail(rx_shift), serial_in_reg) ELSE rx_shift
         /\ lag' = IF tx_running /\ LastClock THEN lag + 1
                   ELSE IF ~tx_running /\ lag > 0 THEN lag - 1 ELSE lag
BY DEF Clock, RxStep, RxBit, rx_edge, rx_running, sample

\* The sender pauses or begins a frame.
LEMMA FollowingIdle ==
  ASSUME TypeOK, LagInv, LineInv, NEW e \in 0 .. lag, Following(e), ~tx_running,
         NEW valid \in Words \cup {None}, Clock(valid, FALSE)
  PROVE  LET f == IF e = 0 THEN 0 ELSE e - 1
         IN  f \in 0 .. lag' /\ Following(f)'
<1> DEFINE f == IF e = 0 THEN 0 ELSE e - 1
<1> USE HalfSymbol DEF TypeOK
<1>1. e \in Nat /\ lag \in Nat /\ e <= MaxLag + 1
  BY LateBy
<1>2. ~start
  BY StartsOnTime
<1>3. /\ rx_bit' = IF rx_clock = SYMBOL_EDGE_TIME - 1 /\ rx_bit # 0 THEN rx_bit - 1 ELSE rx_bit
      /\ rx_clock' = IF rx_clock = SYMBOL_EDGE_TIME - 1 THEN 0 ELSE rx_clock + 1
      /\ lag' = IF lag > 0 THEN lag - 1 ELSE lag
  BY <1>2, ReceiverMoves
<1>4. f \in 0 .. lag' /\ f \in Nat /\ (e > 0 => f = e - 1) /\ (e = 0 => f = 0)
  BY <1>1, <1>3
<1> HIDE DEF f
<1>5. rx_bit \in Nat /\ rx_clock \in Nat /\ rx_clock <= SYMBOL_EDGE_TIME - 1
  OBVIOUS
<1>6. IF e = 0 THEN rx_bit = 0 \/ (rx_bit = 1 /\ rx_clock >= SYMBOL_EDGE_TIME - 3)
      ELSE rx_bit = 1 /\ rx_clock = SYMBOL_EDGE_TIME - 3 - e
  BY DEF Following
<1>7. IF f = 0 THEN rx_bit' = 0 \/ (rx_bit' = 1 /\ rx_clock' >= SYMBOL_EDGE_TIME - 3)
      ELSE rx_bit' = 1 /\ rx_clock' = SYMBOL_EDGE_TIME - 3 - f
  BY <1>1, <1>3, <1>4, <1>5, <1>6
<1>8. CASE valid = None
  <2>1. ~tx_running'
    BY <1>8 DEF Clock, TxStep, TxBit, tx_running
  <2> QED
    BY <1>4, <1>7, <2>1 DEF Following, f
<1>9. CASE valid # None
  <2>1. tx_running' /\ bit_counter' = 0 /\ clock_counter' = 0
    BY <1>9 DEF Clock, TxStep, TxBit, tx_running
  <2>2. Ahead(f)'
    BY <1>4, <2>1 DEF Ahead
  <2>3. e > 0 => rx_bit' = 1
    BY <1>1, <1>3, <1>5, <1>6
  <2>4. \/ rx_bit' = 0 /\ (f > 0 => clock_counter' = 3 + f)
        \/ rx_bit' = 1 /\ rx_clock' >= SYMBOL_EDGE_TIME - 3 - f + clock_counter'
                       /\ (f > 0 => rx_clock' = SYMBOL_EDGE_TIME - 3 - f + clock_counter')
    BY <1>1, <1>4, <1>7, <2>1, <2>3
  <2> QED
    BY <1>4, <2>1, <2>2, <2>4 DEF Following, f
<1> QED
  BY <1>8, <1>9

\* The sender is inside a frame.
LEMMA FollowingFrame ==
  ASSUME TypeOK, LagInv, LineInv, NEW e \in 0 .. lag, Following(e), tx_running, ~LastClock,
         NEW valid \in Words \cup {None}, Clock(valid, FALSE)
  PROVE  tx_running' /\ e \in 0 .. lag' /\ Following(e)'
<1> USE HalfSymbol DEF TypeOK
<1>1. e \in Nat /\ lag \in Nat /\ 4 + e <= SYMBOL_EDGE_TIME
  BY LateBy
<1>2. start <=> bit_counter = 0 /\ clock_counter = 3 + e
  BY StartsOnTime
<1>3. /\ rx_bit' = IF start THEN DataBits + 2
                   ELSE IF rx_clock = SYMBOL_EDGE_TIME - 1 /\ rx_bit # 0 THEN rx_bit - 1
                   ELSE rx_bit
      /\ rx_clock' = IF start \/ rx_clock = SYMBOL_EDGE_TIME - 1 THEN 0 ELSE rx_clock + 1
      /\ lag' = lag
  BY ReceiverMoves
<1>4. /\ bit_counter' = IF clock_counter = SYMBOL_EDGE_TIME - 1 THEN bit_counter + 1
                        ELSE bit_counter
      /\ clock_counter' = IF clock_counter = SYMBOL_EDGE_TIME - 1 THEN 0 ELSE clock_counter + 1
  BY DEF Clock, TxStep, TxBit, tx_edge, data_in_ready, HostReady
<1>5. /\ rx_bit \in Nat /\ rx_clock \in Nat /\ rx_clock <= SYMBOL_EDGE_TIME - 1
      /\ bit_counter \in Nat /\ clock_counter \in Nat /\ clock_counter <= SYMBOL_EDGE_TIME - 1
      /\ bit_counter <= DataBits + 1
  BY DEF tx_running
<1>6. tx_running'
  BY <1>4, <1>5 DEF tx_running, LastClock, tx_edge
<1>7. CASE Ahead(e) /\ clock_counter = 3 + e
  <2>1. start
    BY <1>2, <1>7 DEF Ahead
  <2>2. rx_bit' = DataBits + 2 /\ rx_clock' = 0
    BY <1>3, <2>1
  <2>3. bit_counter = 0
    BY <1>7 DEF Ahead
  <2>4. CASE 4 + e < SYMBOL_EDGE_TIME
    <3>1. bit_counter' = 0 /\ clock_counter' = 4 + e
      BY <1>1, <1>4, <1>7, <2>3, <2>4
    <3> QED
      BY <1>1, <1>3, <1>6, <2>2, <3>1 DEF Following, Ahead
  <2>5. CASE 4 + e = SYMBOL_EDGE_TIME
    <3>1. bit_counter' = 1 /\ clock_counter' = 0
      BY <1>1, <1>4, <1>7, <2>3, <2>5
    <3> QED
      BY <1>1, <1>3, <1>6, <2>2, <2>5, <3>1 DEF Following, Ahead
  <2> QED
    BY <1>1, <2>4, <2>5
<1>8. CASE Ahead(e) /\ clock_counter # 3 + e
  <2>1. ~start /\ bit_counter = 0 /\ clock_counter < 3 + e
    BY <1>1, <1>2, <1>5, <1>8 DEF Ahead
  <2>2. bit_counter' = 0 /\ clock_counter' = clock_counter + 1
    BY <1>1, <1>4, <1>5, <2>1
  <2>3. Ahead(e)'
    BY <1>1, <1>5, <2>1, <2>2 DEF Ahead
  <2>4. \/ rx_bit = 0 /\ e = 0
        \/ rx_bit = 1 /\ rx_clock >= SYMBOL_EDGE_TIME - 3 - e + clock_counter
                      /\ (e > 0 => rx_clock = SYMBOL_EDGE_TIME - 3 - e + clock_counter)
    BY <1>1, <1>8 DEF Following
  <2>5. \/ rx_bit' = 0 /\ (e > 0 => clock_counter' = 3 + e)
        \/ rx_bit' = 1 /\ rx_clock' >= SYMBOL_EDGE_TIME - 3 - e + clock_counter'
                       /\ (e > 0 => rx_clock' = SYMBOL_EDGE_TIME - 3 - e + clock_counter')
    BY <1>1, <1>3, <1>5, <2>1, <2>2, <2>4
  <2> QED
    BY <1>1, <1>3, <1>6, <2>3, <2>5 DEF Following
<1>9. CASE ~Ahead(e) /\ clock_counter >= 4 + e
  <2>1. rx_bit = DataBits + 2 - bit_counter /\ rx_clock = clock_counter - (4 + e)
    BY <1>9 DEF Following
  <2>2. ~start
    BY <1>1, <1>2, <1>9
  <2>3. rx_bit' = rx_bit /\ rx_clock' = rx_clock + 1
    BY <1>1, <1>3, <1>5, <2>1, <2>2
  <2>4. CASE clock_counter < SYMBOL_EDGE_TIME - 1
    <3>1. bit_counter' = bit_counter /\ clock_counter' = clock_counter + 1
      BY <1>4, <2>4
    <3> QED
      BY <1>1, <1>3, <1>5, <1>6, <1>9, <2>1, <2>3, <3>1 DEF Following, Ahead
  <2>5. CASE clock_counter = SYMBOL_EDGE_TIME - 1
    <3>1. bit_counter' = bit_counter + 1 /\ clock_counter' = 0
      BY <1>4, <2>5
    <3> QED
      BY <1>1, <1>3, <1>5, <1>6, <2>1, <2>3, <2>5, <3>1 DEF Following, Ahead
  <2> QED
    BY <1>5, <2>4, <2>5
<1>10. CASE ~Ahead(e) /\ clock_counter < 4 + e
  <2>1. rx_bit = DataBits + 3 - bit_counter
        /\ rx_clock = clock_counter + SYMBOL_EDGE_TIME - (4 + e) /\ bit_counter > 0
    BY <1>1, <1>5, <1>10 DEF Following, Ahead
  <2>2. ~start
    BY <1>2, <2>1
  <2>3. CASE clock_counter < 3 + e
    <3>1. rx_bit' = rx_bit /\ rx_clock' = rx_clock + 1
      BY <1>1, <1>3, <1>5, <2>1, <2>2, <2>3
    <3>2. bit_counter' = bit_counter /\ clock_counter' = clock_counter + 1
      BY <1>1, <1>4, <1>5, <2>3
    <3> QED
      BY <1>1, <1>3, <1>5, <1>6, <2>1, <2>3, <3>1, <3>2 DEF Following, Ahead
  <2>4. CASE clock_counter = 3 + e
    <3>1. rx_bit' = rx_bit - 1 /\ rx_clock' = 0
      BY <1>1, <1>3, <1>5, <2>1, <2>2, <2>4
    <3>2. CASE 4 + e < SYMBOL_EDGE_TIME
      <4>1. bit_counter' = bit_counter /\ clock_counter' = 4 + e
        BY <1>1, <1>4, <1>5, <2>4, <3>2
      <4> QED
        BY <1>1, <1>3, <1>5, <1>6, <2>1, <3>1, <4>1 DEF Following, Ahead
    <3>3. CASE 4 + e = SYMBOL_EDGE_TIME
      <4>1. bit_counter' = bit_counter + 1 /\ clock_counter' = 0
        BY <1>1, <1>4, <1>5, <2>4, <3>3
      <4> QED
        BY <1>1, <1>3, <1>5, <1>6, <2>1, <3>1, <3>3, <4>1 DEF Following, Ahead
    <3> QED
      BY <1>1, <3>2, <3>3
  <2> QED
    BY <1>1, <1>5, <1>10, <2>3, <2>4
<1> QED
  BY <1>1, <1>5, <1>7, <1>8, <1>9, <1>10

\* The sender ends a frame, and a host may begin the next: the receiver is one
\* clock later on that one.
LEMMA FollowingLast ==
  ASSUME TypeOK, LagInv, LineInv, NEW e \in 0 .. lag, Following(e), tx_running, LastClock,
         NEW valid \in Words \cup {None}, Clock(valid, FALSE)
  PROVE  e + 1 \in 0 .. lag' /\ Following(e + 1)'
<1> USE HalfSymbol DEF TypeOK
<1>1. e \in Nat /\ lag \in Nat /\ 4 + e <= SYMBOL_EDGE_TIME
  BY LateBy
<1>2. bit_counter = DataBits + 1 /\ clock_counter = SYMBOL_EDGE_TIME - 1
  BY DEF LastClock, tx_edge
<1>3. ~start
  BY <1>2, StartsOnTime
<1>4. /\ rx_bit' = IF rx_clock = SYMBOL_EDGE_TIME - 1 /\ rx_bit # 0 THEN rx_bit - 1 ELSE rx_bit
      /\ rx_clock' = IF rx_clock = SYMBOL_EDGE_TIME - 1 THEN 0 ELSE rx_clock + 1
      /\ lag' = lag + 1
  BY <1>3, ReceiverMoves
<1>5. e + 1 \in 0 .. lag'
  BY <1>1, <1>4
<1>6. IF 4 + e < SYMBOL_EDGE_TIME
      THEN rx_bit = 1 /\ rx_clock = SYMBOL_EDGE_TIME - 1 - (4 + e)
      ELSE rx_bit = 2 /\ rx_clock = SYMBOL_EDGE_TIME - 1
  BY <1>1, <1>2 DEF Following, Ahead
<1>7. rx_bit' = 1 /\ rx_clock' = SYMBOL_EDGE_TIME - 3 - (e + 1)
  BY <1>1, <1>4, <1>6
<1>8. CASE valid = None
  <2>1. ~tx_running'
    BY <1>2, <1>8 DEF Clock, TxStep, TxBit, tx_running, tx_edge
  <2> QED
    BY <1>1, <1>5, <1>7, <2>1 DEF Following
<1>9. CASE valid # None
  <2>1. tx_running' /\ bit_counter' = 0 /\ clock_counter' = 0
    BY <1>9 DEF Clock, TxStep, TxBit, tx_running
  <2>2. Ahead(e + 1)'
    BY <1>1, <2>1 DEF Ahead
  <2> QED
    BY <1>1, <1>5, <1>7, <2>1, <2>2 DEF Following
<1> QED
  BY <1>8, <1>9

-----------------------------------------------------------------------------
(* The words under way *)

\* What a clock does to them while nothing is garbled.
LEMMA InflightMoves ==
  ASSUME TypeOK, ~garbled \/ Quiet, NEW valid \in Words \cup {None}, Clock(valid, FALSE)
  PROVE  LET left == IF rx_bit = 1 /\ rx_clock = SYMBOL_EDGE_TIME - 1 /\ inflight # <<>>
                     THEN Tail(inflight) ELSE inflight
         IN  /\ valid = None => inflight' = left
             /\ valid # None => inflight' = Append(left, valid)
             /\ data' = IF valid = None THEN data ELSE valid
<1>1. data' = IF valid = None THEN data ELSE valid
  BY DEF Clock, TxStep
<1> QED
  BY <1>1 DEF Clock, Completes, rx_edge

LEMMA WordAdded == ASSUME NEW v, NEW w PROVE Append(<<v>>, w) = <<v, w>>
<1> DEFINE a == Append(<<v>>, w)
           b == <<v, w>>
           S == {v, w}
<1>1. <<v>> \in Seq(S) /\ Len(<<v>>) = 1 /\ <<v>>[1] = v /\ w \in S
  OBVIOUS
<1>2. b \in Seq(S) /\ Len(b) = 2 /\ b[1] = v /\ b[2] = w
  OBVIOUS
<1> HIDE DEF b, S
<1>3. a \in Seq(S) /\ Len(a) = 2 /\ a[1] = v /\ a[2] = w
  <2>1. PICK s : s = <<v>>
    OBVIOUS
  <2>2. s \in Seq(S) /\ Len(s) = 1 /\ s[1] = v
    BY <1>1, <2>1
  <2>3. /\ Append(s, w) \in Seq(S) /\ Len(Append(s, w)) = Len(s) + 1
        /\ \A i \in 1 .. Len(s) : Append(s, w)[i] = s[i]
        /\ Append(s, w)[Len(s) + 1] = w
    <3>1. s \in Seq(S) /\ w \in S
      BY <1>1, <2>2
    <3> QED
      BY <3>1, AppendProperties
  <2>4. Len(s) + 1 = 2 /\ 1 \in 1 .. Len(s)
    BY <2>2
  <2>5. Append(s, w)[1] = v /\ Append(s, w)[2] = w /\ Len(Append(s, w)) = 2
    BY <2>2, <2>3, <2>4, Zenon
  <2> QED
    BY <2>1, <2>3, <2>5
<1> HIDE DEF a
<1>4. \A i \in 1 .. Len(a) : a[i] = b[i]
  BY <1>2, <1>3
<1> QED
  BY <1>2, <1>3, <1>4, SeqEqual DEF a, b

\* The sender pauses or begins a frame, and the receiver may end one.
LEMMA InflightIdle ==
  ASSUME TypeOK, LagInv, LineInv, NEW e \in 0 .. lag, Following(e), InflightInv(e), ~tx_running,
         ~garbled \/ Quiet, NEW valid \in Words \cup {None}, Clock(valid, FALSE)
  PROVE  InflightInv(IF e = 0 THEN 0 ELSE e - 1)'
<1> DEFINE f == IF e = 0 THEN 0 ELSE e - 1
<1> USE HalfSymbol DEF TypeOK
<1>1. e \in Nat /\ f \in Nat
  BY LateBy
<1>2. ~start
  BY StartsOnTime
<1>3. rx_bit' = IF rx_clock = SYMBOL_EDGE_TIME - 1 /\ rx_bit # 0 THEN rx_bit - 1 ELSE rx_bit
  BY <1>2, ReceiverMoves
<1>4. rx_bit = 0 \/ rx_bit = 1
  BY DEF Following
<1> DEFINE left == IF rx_bit = 1 /\ rx_clock = SYMBOL_EDGE_TIME - 1 /\ inflight # <<>>
                   THEN Tail(inflight) ELSE inflight
<1>5. /\ valid = None => inflight' = left
      /\ valid # None => inflight' = Append(left, valid)
      /\ data' = IF valid = None THEN data ELSE valid
  BY InflightMoves
<1>6. \/ rx_bit' = 0 /\ left = <<>>
      \/ rx_bit' = 1 /\ \E w \in Words : left = <<w>>
  <2>1. CASE rx_bit = 0
    BY <1>3, <2>1 DEF InflightInv
  <2>2. CASE rx_bit = 1
    <3>1. PICK w \in Words : inflight = <<w>>
      BY <2>2 DEF InflightInv
    <3>2. Tail(<<w>>) = <<>> /\ <<w>> # <<>>
      OBVIOUS
    <3> QED
      BY <1>3, <2>2, <3>1, <3>2
  <2> QED
    BY <1>4, <2>1, <2>2
<1> HIDE DEF left, f
<1>7. CASE valid = None
  <2>1. ~tx_running'
    BY <1>7 DEF Clock, TxStep, TxBit, tx_running
  <2>2. InflightInv(f)'
    BY <1>5, <1>6, <1>7, <2>1 DEF InflightInv
  <2> QED
    BY <2>2 DEF f
<1>8. CASE valid # None
  <2>1. tx_running' /\ bit_counter' = 0 /\ clock_counter' = 0
    BY <1>8 DEF Clock, TxStep, TxBit, tx_running
  <2>2. Ahead(f)'
    BY <1>1, <2>1 DEF Ahead
  <2>3. \A w \in Words : Append(<<w>>, valid) = <<w, valid>>
    BY WordAdded
  <2>4. Append(<<>>, valid) = <<valid>>
    OBVIOUS
  <2>5. data' = valid /\ inflight' = Append(left, valid)
    BY <1>5, <1>8
  <2>6. rx_bit' = 0 => inflight' = <<data'>>
    BY <1>6, <2>4, <2>5
  <2>7. ASSUME rx_bit' = 1 PROVE \E w \in Words : inflight' = <<w, data'>>
    <3>1. \E w \in Words : left = <<w>>
      BY <1>6, <2>7
    <3>2. PICK w \in Words : left = <<w>>
      BY <3>1
    <3>3. inflight' = <<w, data'>>
      BY <2>3, <2>5, <3>2, Zenon
    <3> QED
      BY <3>3
  <2>8. InflightInv(f)'
    BY <1>6, <2>1, <2>2, <2>6, <2>7 DEF InflightInv
  <2> QED
    BY <2>8 DEF f
<1> QED
  BY <1>7, <1>8

\* The sender is inside a frame; the receiver ends the previous one before it starts.
LEMMA InflightFrame ==
  ASSUME TypeOK, LagInv, LineInv, NEW e \in 0 .. lag, Following(e), InflightInv(e), tx_running,
         ~LastClock, ~garbled \/ Quiet, NEW valid \in Words \cup {None}, Clock(valid, FALSE)
  PROVE  InflightInv(e)'
<1> USE HalfSymbol DEF TypeOK
<1>1. e \in Nat /\ 4 + e <= SYMBOL_EDGE_TIME
  BY LateBy
<1>2. start <=> bit_counter = 0 /\ clock_counter = 3 + e
  BY StartsOnTime
<1>3. rx_bit' = IF start THEN DataBits + 2
                ELSE IF rx_clock = SYMBOL_EDGE_TIME - 1 /\ rx_bit # 0 THEN rx_bit - 1
                ELSE rx_bit
  BY ReceiverMoves
<1>4. valid = None
  BY DEF Clock, data_in_ready, HostReady
<1>5. /\ bit_counter' = IF clock_counter = SYMBOL_EDGE_TIME - 1 THEN bit_counter + 1
                        ELSE bit_counter
      /\ clock_counter' = IF clock_counter = SYMBOL_EDGE_TIME - 1 THEN 0 ELSE clock_counter + 1
  BY <1>4 DEF Clock, TxStep, TxBit, tx_edge
<1>6. /\ data' = data
      /\ inflight' = IF rx_bit = 1 /\ rx_clock = SYMBOL_EDGE_TIME - 1 /\ inflight # <<>>
                     THEN Tail(inflight) ELSE inflight
  BY <1>4, InflightMoves
<1>7. tx_running'
  BY FollowingFrame
<1>8. CASE Ahead(e) /\ rx_bit = 1
  <2>1. PICK w \in Words : inflight = <<w, data>>
    BY <1>8 DEF InflightInv
  <2>2. Tail(<<w, data>>) = <<data>> /\ <<w, data>> # <<>>
    OBVIOUS
  <2>3. bit_counter = 0 /\ clock_counter < 3 + e /\ ~start
    BY <1>1, <1>2, <1>8 DEF Ahead, start, rx_running
  <2>4. Ahead(e)'
    BY <1>1, <1>5, <2>3 DEF Ahead
  <2>5. CASE rx_clock = SYMBOL_EDGE_TIME - 1
    <3>1. rx_bit' = 0 /\ inflight' = <<data'>>
      BY <1>3, <1>6, <1>8, <2>1, <2>2, <2>3, <2>5
    <3> QED
      BY <1>7, <3>1 DEF InflightInv
  <2>6. CASE rx_clock # SYMBOL_EDGE_TIME - 1
    <3>1. rx_bit' = 1 /\ inflight' = <<w, data'>>
      BY <1>3, <1>6, <1>8, <2>1, <2>3, <2>6
    <3> QED
      BY <1>7, <2>4, <3>1 DEF InflightInv
  <2> QED
    BY <2>5, <2>6
<1>9. CASE ~(Ahead(e) /\ rx_bit = 1)
  <2>1. inflight = <<data>>
    BY <1>9 DEF InflightInv
  <2>2. ~(rx_bit = 1 /\ rx_clock = SYMBOL_EDGE_TIME - 1)
    <3> SUFFICES ASSUME rx_bit = 1, rx_clock = SYMBOL_EDGE_TIME - 1 PROVE FALSE
      OBVIOUS
    <3>1. ~Ahead(e)
      BY <1>9
    <3>2. CASE clock_counter >= 4 + e
      BY <1>1, <3>1, <3>2 DEF Following
    <3>3. CASE clock_counter < 4 + e
      <4>1. /\ rx_bit = DataBits + 3 - bit_counter
            /\ rx_clock = clock_counter + SYMBOL_EDGE_TIME - (4 + e)
        BY <3>1, <3>3 DEF Following
      <4>2. bit_counter = DataBits + 2
        BY <4>1
      <4> QED
        BY <4>2 DEF tx_running
    <3> QED
      BY <1>1, <3>2, <3>3
  <2>3. inflight' = <<data'>>
    BY <1>6, <2>1, <2>2
  <2>4. ~(Ahead(e)' /\ rx_bit' = 1)
    <3>1. CASE Ahead(e)
      <4>1. CASE start
        BY <1>3, <4>1
      <4>2. CASE ~start
        <5>1. rx_bit = 0
          BY <1>9, <3>1 DEF Following
        <5> QED
          BY <1>3, <4>2, <5>1
      <4> QED
        BY <4>1, <4>2
    <3>2. CASE ~Ahead(e)
      BY <1>1, <1>5, <3>2 DEF Ahead
    <3> QED
      BY <3>1, <3>2
  <2> QED
    BY <1>7, <2>3, <2>4 DEF InflightInv
<1> QED
  BY <1>8, <1>9

\* The sender ends a frame the receiver is still in.
LEMMA InflightLast ==
  ASSUME TypeOK, LagInv, LineInv, NEW e \in 0 .. lag, Following(e), InflightInv(e), tx_running,
         LastClock, ~garbled \/ Quiet, NEW valid \in Words \cup {None}, Clock(valid, FALSE)
  PROVE  InflightInv(e + 1)'
<1> USE HalfSymbol DEF TypeOK
<1>1. e \in Nat /\ 4 + e <= SYMBOL_EDGE_TIME
  BY LateBy
<1>2. bit_counter = DataBits + 1 /\ clock_counter = SYMBOL_EDGE_TIME - 1
  BY DEF LastClock, tx_edge
<1>3. ~Ahead(e)
  BY <1>2 DEF Ahead
<1>4. inflight = <<data>> /\ data \in Words
  BY <1>3 DEF InflightInv
<1>5. IF 4 + e < SYMBOL_EDGE_TIME
      THEN rx_bit = 1 /\ rx_clock = SYMBOL_EDGE_TIME - 1 - (4 + e)
      ELSE rx_bit = 2 /\ rx_clock = SYMBOL_EDGE_TIME - 1
  BY <1>1, <1>2 DEF Following, Ahead
<1>6. ~start
  BY <1>2, StartsOnTime
<1>7. rx_bit' = IF rx_clock = SYMBOL_EDGE_TIME - 1 /\ rx_bit # 0 THEN rx_bit - 1 ELSE rx_bit
  BY <1>6, ReceiverMoves
<1>8. rx_bit' = 1
  BY <1>1, <1>5, <1>7
<1>9. ~(rx_bit = 1 /\ rx_clock = SYMBOL_EDGE_TIME - 1)
  BY <1>1, <1>5
<1>10. /\ valid = None => inflight' = inflight
       /\ valid # None => inflight' = Append(inflight, valid)
       /\ data' = IF valid = None THEN data ELSE valid
  BY <1>9, InflightMoves
<1>11. CASE valid = None
  <2>1. ~tx_running'
    BY <1>2, <1>11 DEF Clock, TxStep, TxBit, tx_running, tx_edge
  <2> QED
    BY <1>4, <1>8, <1>10, <1>11, <2>1 DEF InflightInv
<1>12. CASE valid # None
  <2>1. tx_running' /\ bit_counter' = 0 /\ clock_counter' = 0
    BY <1>12 DEF Clock, TxStep, TxBit, tx_running
  <2>2. Ahead(e + 1)'
    BY <1>1, <2>1 DEF Ahead
  <2>3. Append(<<data>>, valid) = <<data, valid>>
    BY WordAdded
  <2>4. inflight' = <<data, data'>>
    BY <1>4, <1>10, <1>12, <2>3
  <2> QED
    BY <1>4, <1>8, <2>1, <2>2, <2>4 DEF InflightInv
<1> QED
  BY <1>11, <1>12

-----------------------------------------------------------------------------
(* The samples *)

\* A data bit and the start bit are sampled while the line shows them.
LEMMA SampledInside ==
  ASSUME TypeOK, LagInv, LineInv, NEW e \in 0 .. lag, Following(e), InflightInv(e),
         rx_clock = SAMPLE_TIME, rx_bit > 1
  PROVE  serial_in_reg = Sent(inflight[1], DataBits + 2 - rx_bit)
<1> USE HalfSymbol DEF TypeOK
<1>1. tx_running /\ ~Ahead(e)
  BY DEF Following
<1>2. e \in Nat /\ e <= MaxLag /\ 4 + e <= SYMBOL_EDGE_TIME
  BY <1>1, LateBy
<1>3. inflight[1] = data /\ serial_in_reg = Shown(3)
  BY <1>1 DEF InflightInv, LineInv
<1>4. CASE clock_counter >= 4 + e
  <2>1. rx_bit = DataBits + 2 - bit_counter
    BY <1>1, <1>4 DEF Following
  <2>2. Shown(3) = Sent(data, bit_counter)
    BY <1>2, <1>4 DEF Shown
  <2>3. DataBits + 2 - rx_bit = bit_counter
    BY <2>1
  <2> QED
    BY <1>3, <2>2, <2>3
<1>5. CASE clock_counter < 4 + e
  <2>1. rx_bit = DataBits + 3 - bit_counter
        /\ rx_clock = clock_counter + SYMBOL_EDGE_TIME - (4 + e)
    BY <1>1, <1>5 DEF Following
  <2>2. clock_counter < 3
    BY <1>2, <2>1
  <2>3. bit_counter # 0
    BY <1>1, <1>5 DEF Ahead
  <2>4. Shown(3) = Sent(data, bit_counter - 1)
    BY <2>2, <2>3 DEF Shown
  <2>5. DataBits + 2 - rx_bit = bit_counter - 1
    BY <2>1
  <2> QED
    BY <1>3, <2>4, <2>5
<1> QED
  BY <1>2, <1>4, <1>5

\* While the receiver goes on with a frame its word stays the first one.
LEMMA WordStaysFirst ==
  ASSUME TypeOK, NEW e \in 0 .. lag, Following(e), InflightInv(e), ~garbled \/ Quiet,
         NEW valid \in Words \cup {None}, Clock(valid, FALSE), rx_bit # 0,
         ~(rx_bit = 1 /\ rx_clock = SYMBOL_EDGE_TIME - 1)
  PROVE  inflight'[1] = inflight[1]
<1>1. (\E w \in Words : inflight = <<w>> \/ inflight = <<w, data>>) \/ inflight = <<data>>
  BY DEF InflightInv
<1>2. PICK w : inflight = <<w>> \/ inflight = <<w, data>>
  BY <1>1
<1>3. inflight' = inflight \/ inflight' = Append(inflight, valid)
  BY InflightMoves
<1>4. Append(<<w>>, valid)[1] = w /\ <<w>>[1] = w /\ <<w, data>>[1] = w
  <2>1. Append(<<w>>, valid) = <<w, valid>>
    BY WordAdded
  <2> QED
    BY <2>1
<1>5. Append(<<w, data>>, valid)[1] = w
  <2>1. PICK s : s = <<w, data>>
    OBVIOUS
  <2> DEFINE S == {w, data, valid}
  <2>2. s \in Seq(S) /\ Len(s) = 2 /\ s[1] = w /\ valid \in S
    BY <2>1
  <2> HIDE DEF S
  <2>3. s \in Seq(S) /\ valid \in S
    BY <2>2
  <2>4. \A i \in 1 .. Len(s) : Append(s, valid)[i] = s[i]
    BY <2>3, AppendProperties
  <2>5. 1 \in 1 .. Len(s)
    BY <2>2
  <2> QED
    BY <2>1, <2>2, <2>4, <2>5, Zenon
<1> QED
  BY <1>2, <1>3, <1>4, <1>5

\* A sample is added behind the others, which move up.
LEMMA SamplesStep ==
  ASSUME TypeOK, LagInv, LineInv, SamplesInv, NEW e \in 0 .. lag, Following(e), InflightInv(e),
         ~garbled \/ Quiet, NEW valid \in Words \cup {None}, Clock(valid, FALSE)
  PROVE  SamplesInv'
<1> USE HalfSymbol DEF TypeOK
<1>1. /\ rx_bit' = IF start THEN DataBits + 2
                   ELSE IF rx_clock = SYMBOL_EDGE_TIME - 1 /\ rx_bit # 0 THEN rx_bit - 1
                   ELSE rx_bit
      /\ rx_clock' = IF start \/ rx_clock = SYMBOL_EDGE_TIME - 1 THEN 0 ELSE rx_clock + 1
      /\ rx_shift' = IF rx_clock = SAMPLE_TIME /\ rx_bit # 0
                     THEN Append(Tail(rx_shift), serial_in_reg) ELSE rx_shift
  BY ReceiverMoves
<1>2. rx_bit \in 0 .. (DataBits + 2) /\ rx_clock \in 0 .. (SYMBOL_EDGE_TIME - 1)
  OBVIOUS
<1> SUFFICES ASSUME rx_bit' # 0, NEW j \in 1 .. (DataBits + 1), j <= Taken'
             PROVE  rx_shift'[DataBits + 2 - Taken' + j] = Sent(inflight'[1], j - 1)
  BY DEF SamplesInv, rx_running, Sent
<1>3. ~start
  <2>1. start => rx_bit' = DataBits + 2 /\ rx_clock' = 0
    BY <1>1
  <2>2. start => Taken' = 0
    BY <2>1 DEF Taken
  <2> QED
    BY <2>2
<1>4. rx_bit # 0 /\ ~(rx_bit = 1 /\ rx_clock = SYMBOL_EDGE_TIME - 1)
  BY <1>1, <1>2, <1>3
<1>5. inflight'[1] = inflight[1]
  BY <1>4, WordStaysFirst
<1>6. j <= Taken => rx_shift[DataBits + 2 - Taken + j] = Sent(inflight[1], j - 1)
  BY <1>4 DEF SamplesInv, rx_running
<1>7. CASE rx_clock # SAMPLE_TIME
  <2>1. rx_shift' = rx_shift
    BY <1>1, <1>7
  <2>2. Taken' = Taken
    BY <1>1, <1>2, <1>3, <1>4, <1>7 DEF Taken
  <2> QED
    BY <1>5, <1>6, <2>1, <2>2
<1>8. CASE rx_clock = SAMPLE_TIME
  <2>1. rx_shift' = Append(Tail(rx_shift), serial_in_reg)
    BY <1>1, <1>4, <1>8
  <2>2. rx_bit' = rx_bit /\ rx_clock' = SAMPLE_TIME + 1
    BY <1>1, <1>3, <1>8
  <2>3. Taken = DataBits + 2 - rx_bit /\ Taken' = Taken + 1
    BY <1>8, <2>2 DEF Taken
  <2>4. /\ rx_shift'[DataBits + 2] = serial_in_reg
        /\ \A i \in 1 .. (DataBits + 1) : rx_shift'[i] = rx_shift[i + 1]
    BY <2>1, ShiftIn
  <2>5. CASE j = Taken + 1
    <3>1. rx_bit > 1 /\ DataBits + 2 - rx_bit = j - 1
      BY <1>2, <2>3, <2>5
    <3>2. serial_in_reg = Sent(inflight[1], j - 1)
      BY <1>8, <3>1, SampledInside
    <3>3. DataBits + 2 - Taken' + j = DataBits + 2
      BY <1>2, <2>3, <2>5
    <3> QED
      BY <1>5, <2>4, <3>2, <3>3
  <2>6. CASE j # Taken + 1
    <3>1. j <= Taken
      BY <1>2, <2>3, <2>6
    <3> DEFINE i == DataBits + 2 - Taken' + j
    <3>2. i \in 1 .. (DataBits + 1) /\ i + 1 = DataBits + 2 - Taken + j
      BY <1>2, <1>4, <2>3, <3>1
    <3>3. rx_shift'[i] = rx_shift[i + 1]
      BY <2>4, <3>2
    <3> QED
      BY <1>5, <1>6, <3>1, <3>2, <3>3
  <2> QED
    BY <2>5, <2>6
<1> QED
  BY <1>7, <1>8

-----------------------------------------------------------------------------
(* The link *)

\* A line that is quiet with both ends at rest is in order.
LEMMA QuietLinked == TypeOK /\ Quiet /\ inflight = <<>> => LinkInv
<1> SUFFICES ASSUME TypeOK, Quiet, inflight = <<>> PROVE LinkInv
  OBVIOUS
<1>1. LineInv /\ SamplesInv
  BY DEF Quiet, LineInv, SamplesInv
<1>2. 0 \in 0 .. lag
  BY HalfSymbol DEF TypeOK
<1>3. Following(0) /\ InflightInv(0)
  BY DEF Quiet, Following, InflightInv, rx_running
<1> QED
  BY <1>1, <1>2, <1>3 DEF LinkInv

LEMMA QuietLinkedNext == (TypeOK /\ Quiet /\ inflight = <<>> => LinkInv)'
  BY QuietLinked, PTL

\* The reset of a quiet line leaves it quiet.
LEMMA QuietReset ==
  ASSUME TypeOK, Quiet, Clock(None, TRUE)
  PROVE  Quiet'
BY HalfSymbol DEF TypeOK, Quiet, Clock, TxStep, TxBit, RxStep, RxBit, tx_running, rx_running,
                  start, None

\* A clock keeps the link in order.
LEMMA LinkStep ==
  ASSUME TypeOK, LagInv, LinkInv, ~garbled \/ Quiet, NEW valid \in Words \cup {None},
         Clock(valid, FALSE)
  PROVE  LinkInv'
<1>1. PICK e \in 0 .. lag : Following(e) /\ InflightInv(e)
  BY DEF LinkInv
<1>2. LineInv /\ SamplesInv
  BY DEF LinkInv
<1>3. LineInv'
  BY <1>2, LineStep
<1>4. SamplesInv'
  BY <1>1, <1>2, SamplesStep
<1>5. \E f \in 0 .. lag' : Following(f)' /\ InflightInv(f)'
  <2>1. CASE ~tx_running
    <3> DEFINE f == IF e = 0 THEN 0 ELSE e - 1
    <3>1. f \in 0 .. lag' /\ Following(f)'
      BY <1>1, <1>2, <2>1, FollowingIdle
    <3>2. InflightInv(f)'
      BY <1>1, <1>2, <2>1, InflightIdle
    <3> HIDE DEF f
    <3> QED
      BY <3>1, <3>2
  <2>2. CASE tx_running /\ ~LastClock
    BY <1>1, <1>2, <2>2, FollowingFrame, InflightFrame
  <2>3. CASE tx_running /\ LastClock
    BY <1>1, <1>2, <2>3, FollowingLast, InflightLast
  <2> QED
    BY <2>1, <2>2, <2>3
<1> QED
  BY <1>3, <1>4, <1>5 DEF LinkInv

LEMMA LinkInit == Init => IInv
<1> SUFFICES ASSUME Init PROVE IInv
  OBVIOUS
<1>1. [i \in 1 .. DataBits |-> 0] \in Words
  BY DEF Words, Bit
<1>2. [i \in 1 .. (DataBits + 2) |-> 0] \in [1 .. (DataBits + 2) -> Bit]
  BY DEF Bit
<1>3. TypeOK
  BY <1>1, <1>2, HalfSymbol DEF Init, TypeOK, Bit
<1> QED
  BY <1>3, HalfSymbol DEF Init, IInv, LagInv, tx_running

\* A link gets out of order only by a reset, and in order again when it is quiet.
LEMMA LinkNext == IInv /\ [Next]_vars => IInv'
<1> SUFFICES ASSUME IInv, [Next]_vars PROVE IInv'
  OBVIOUS
<1>1. TypeOK /\ LagInv /\ (garbled => inflight = <<>>) /\ (~garbled => LinkInv)
  BY DEF IInv
<1>2. TypeOK' /\ LagInv'
  BY <1>1, TypeStep
<1>3. CASE UNCHANGED vars
  BY <1>1, <1>2, <1>3
  DEF vars, tx, rx, IInv, LinkInv, LineInv, SamplesInv, Following, InflightInv, Ahead, Shown, Taken,
      tx_running, rx_running
<1>4. ASSUME NEW valid \in Words \cup {None}, NEW rst \in BOOLEAN, Clock(valid, rst),
             rst => valid = None
      PROVE  IInv'
  <2>1. garbled' <=> ~Quiet /\ (garbled \/ rst)
    BY <1>4 DEF Clock
  <2>2. garbled' => inflight' = <<>>
    BY <1>4, <2>1 DEF Clock, None
  <2>3. ASSUME ~garbled' PROVE LinkInv'
    <3>1. Quiet \/ (~garbled /\ ~rst)
      BY <2>1, <2>3
    <3>2. Quiet /\ ~garbled => inflight = <<>>
      <4> SUFFICES ASSUME Quiet, ~garbled PROVE inflight = <<>>
        OBVIOUS
      <4>1. PICK e \in 0 .. lag : InflightInv(e)
        BY <1>1 DEF LinkInv
      <4> QED
        BY <4>1 DEF InflightInv, Quiet, rx_running
    <3>3. LinkInv
      BY <1>1, <3>1, <3>2, QuietLinked
    <3>4. CASE ~rst
      <4>1. Clock(valid, FALSE)
        BY <1>4, <3>4
      <4> QED
        BY <1>1, <3>1, <3>3, <4>1, LinkStep
    <3>5. CASE rst
      <4>1. Quiet /\ Clock(None, TRUE)
        BY <1>4, <3>1, <3>5
      <4>2. Quiet'
        BY <1>1, <4>1, QuietReset
      <4>3. inflight' = <<>>
        BY <4>1 DEF Clock, None
      <4> QED
        BY <1>2, <4>2, <4>3, QuietLinkedNext
    <3> QED
      BY <3>4, <3>5
  <2> QED
    BY <1>2, <2>2, <2>3 DEF IInv
<1> QED
  BY <1>3, <1>4 DEF Next, Tick, Reset

\* The invariant of the link: how far the receiver is behind, and what it has sampled.
THEOREM LinkInvariant == Spec => []IInv
  BY LinkInit, LinkNext, PTL DEF Spec

\* Both ends keep the ranges of their counters, and a host never gets more than
\* MaxLag + 1 clocks ahead of the receiver.
THEOREM LinkTypeOK == Spec => []TypeOK
<1>1. IInv => TypeOK
  BY DEF IInv
<1> QED
  BY <1>1, LinkInvariant, PTL

\* For every symbol time of at least four clocks and every number of data bits,
\* with a sender of this code or a host that leaves no clock between frames: the
\* receiver puts together the words that were sent, in order.
THEOREM FramesReceived == Spec => ReceivedAsSent
<1>1. IInv /\ [Next]_vars =>
        [Completes /\ ~garbled => inflight # <<>> /\ data_out' = Head(inflight)]_vars
  <2> SUFFICES ASSUME IInv, Completes, ~garbled, Next
               PROVE  inflight # <<>> /\ data_out' = Head(inflight)
    OBVIOUS
  <2> USE HalfSymbol
  <2>1. TypeOK /\ LagInv /\ LinkInv
    BY DEF IInv
  <2>2. rx_bit = 1 /\ rx_clock = SYMBOL_EDGE_TIME - 1
    BY DEF Completes, rx_edge
  <2>3. PICK e \in 0 .. lag : Following(e) /\ InflightInv(e)
    BY <2>1 DEF LinkInv
  <2>4. inflight # <<>> /\ inflight[1] \in Words /\ Head(inflight) = inflight[1]
    <3>1. (\E w \in Words : inflight = <<w>> \/ inflight = <<w, data>>) \/ inflight = <<data>>
      BY <2>2, <2>3 DEF InflightInv
    <3>2. data \in Words
      BY <2>1 DEF TypeOK
    <3> QED
      BY <3>1, <3>2
  <2>5. rx_shift' = rx_shift
    <3>1. rx_clock # SAMPLE_TIME
      BY <2>2
    <3> QED
      BY <3>1 DEF Next, Tick, Reset, Clock, RxStep, sample, vars
  <2>6. \A i \in 1 .. DataBits : rx_shift[i + 1] = inflight[1][i]
    <3> TAKE i \in 1 .. DataBits
    <3>1. Taken = DataBits + 2
      BY <2>2 DEF Taken
    <3>2. /\ i + 1 \in 1 .. (DataBits + 1) /\ i + 1 <= Taken /\ (i + 1) - 1 = i
          /\ DataBits + 2 - Taken + (i + 1) = i + 1
      BY <3>1
    <3>3. rx_shift[i + 1] = Sent(inflight[1], i)
      BY <2>1, <2>2, <3>2 DEF LinkInv, SamplesInv, rx_running
    <3> QED
      BY <3>3 DEF Sent
  <2>7. data_out' = [i \in 1 .. DataBits |-> rx_shift[i + 1]]
    BY <2>5 DEF data_out
  <2>8. inflight[1] = [i \in 1 .. DataBits |-> inflight[1][i]]
    BY <2>4 DEF Words
  <2> QED
    BY <2>4, <2>6, <2>7, <2>8
<1> QED
  BY <1>1, LinkInvariant, PTL DEF Spec, ReceivedAsSent
=============================================================================
