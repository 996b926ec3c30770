------------------------------ MODULE UartLink ------------------------------
(***************************************************************************)
(* The serial line at the level of clocks and bits: uart_transmitter,      *)
(* uart_receiver and the two registers uart puts between them and the      *)
(* pins.  Symbol and sample times are counted by both ends separately; the *)
(* receiver takes its time from the start bit of each frame.               *)
(*                                                                         *)
(* The sender is another uart of this code, as in the testbenches, or the  *)
(* host, whose frames may follow each other without the clock this         *)
(* transmitter needs between two of them ("ideal").  A reset reaches both  *)
(* ends, or only the receiver when the host sends.                         *)
(***************************************************************************)
EXTENDS Naturals, Sequences

CONSTANTS SYMBOL_EDGE_TIME,   \* clocks per bit
          DataBits            \* 8

ASSUME UartLinkAssumption ==
  /\ SYMBOL_EDGE_TIME \in Nat /\ SYMBOL_EDGE_TIME >= 4
  /\ DataBits \in Nat \ {0}

SAMPLE_TIME == SYMBOL_EDGE_TIME \div 2

VARIABLES
  ideal,                        \* the sender is the host
  bit_counter, clock_counter,   \* of the transmitter
  data, out,
  serial_out_reg, serial_in_reg,
  rx_bit, rx_clock,             \* bit_counter and clock_counter of the receiver
  rx_shift,
  \* History variables.
  inflight,   \* words of the frames begun and not yet received
  lag,        \* clocks by which the sender's frames are ahead of the receiver's
  garbled     \* power-up, or a reset since the line was last quiet

tx == <<bit_counter, clock_counter, data, out, serial_out_reg>>
rx == <<serial_in_reg, rx_bit, rx_clock, rx_shift>>
vars == <<ideal, tx, rx, inflight, lag, garbled>>

Bit == {0, 1}
Words == [1 .. DataBits -> Bit]
None == <<>>

---------------------------------------------------------------------------
(* Transmitter *)

tx_running == bit_counter < DataBits + 2
tx_edge == clock_counter = SYMBOL_EDGE_TIME - 1
LastClock == bit_counter = DataBits + 1 /\ tx_edge

\* How far ahead of the receiver a host may get: a receiver that starts that
\* late still samples every bit inside it.
MaxLag == SYMBOL_EDGE_TIME - SAMPLE_TIME - 2

data_in_ready == ~tx_running

\* The host goes on in the clock that ends a frame.
HostReady == ideal /\ LastClock /\ lag < MaxLag

\* What out shows of the frame.
Symbol == IF bit_counter = 0 THEN 0
          ELSE IF bit_counter <= DataBits THEN data[bit_counter] ELSE 1

\* The bit counter runs on when the frame has ended (a mutation).
TxBit_Free(valid, rst) ==
  IF rst THEN DataBits + 2
  ELSE IF valid # None THEN 0
  ELSE IF tx_edge THEN bit_counter + 1
  ELSE bit_counter

\* "valid" is a word of the sender, or None.
TxBit(valid, rst) ==
  IF rst THEN DataBits + 2
  ELSE IF valid # None THEN 0
  ELSE IF tx_edge /\ tx_running THEN bit_counter + 1
  ELSE bit_counter

TxStep(valid, rst) ==
  /\ clock_counter' = IF valid # None \/ rst \/ tx_edge THEN 0 ELSE clock_counter + 1
  /\ bit_counter' = TxBit(valid, rst)
  /\ data' = IF rst THEN [i \in 1 .. DataBits |-> 0] ELSE IF valid # None THEN valid ELSE data
  /\ out' = IF tx_running THEN Symbol ELSE 1
  /\ serial_out_reg' = IF rst THEN 1 ELSE out

---------------------------------------------------------------------------
(* Receiver *)

rx_running == rx_bit # 0
rx_edge == rx_clock = SYMBOL_EDGE_TIME - 1

start == serial_in_reg = 0 /\ ~rx_running

\* Sampling at the edge of the symbol (a mutation).
sample_AtEdge == rx_edge

sample == rx_clock = SAMPLE_TIME
data_out == [i \in 1 .. DataBits |-> rx_shift[i + 1]]

\* The clock at which has_byte is set.
Completes == rx_bit = 1 /\ rx_edge

\* The receiver waits for the end of its frame's last symbol (a mutation).
RxBit_NoEnd(rst) ==
  IF rst THEN 0
  ELSE IF start THEN DataBits + 2
  ELSE IF rx_edge /\ rx_bit > 1 THEN rx_bit - 1
  ELSE rx_bit

\* The frame ends one symbol before has_byte is set (a mutation).
RxBit_EndsAtTwo(rst) ==
  IF rst THEN 0
  ELSE IF start THEN DataBits + 2
  ELSE IF rx_edge /\ rx_running THEN (IF rx_bit = 2 THEN 0 ELSE rx_bit - 1)
  ELSE rx_bit

RxBit(rst) ==
  IF rst THEN 0
  ELSE IF start THEN DataBits + 2
  ELSE IF rx_edge /\ rx_running THEN rx_bit - 1
  ELSE rx_bit

RxStep(rst) ==
  /\ serial_in_reg' = IF rst THEN 1 ELSE serial_out_reg
  /\ rx_clock' = IF start \/ rst \/ rx_edge THEN 0 ELSE rx_clock + 1
  /\ rx_bit' = RxBit(rst)
  /\ rx_shift' = IF sample /\ rx_running THEN Append(Tail(rx_shift), serial_in_reg) ELSE rx_shift

---------------------------------------------------------------------------
Quiet ==
  ~tx_running /\ out = 1 /\ serial_out_reg = 1 /\ serial_in_reg = 1 /\ ~rx_running

\* Registers without an initial value start at 0, the lines too.
Init ==
  /\ ideal \in BOOLEAN
  /\ bit_counter = DataBits + 3
  /\ clock_counter = 0
  /\ data = [i \in 1 .. DataBits |-> 0]
  /\ out = 0 /\ serial_out_reg = 0 /\ serial_in_reg = 0
  /\ rx_bit = 0 /\ rx_clock = 0
  /\ rx_shift = [i \in 1 .. (DataBits + 2) |-> 0]
  /\ inflight = <<>>
  /\ lag = 0
  /\ garbled = TRUE

\* One clock.  The sender writes only when it has seen the transmitter ready,
\* as uwrite_int8 does.
Clock(valid, rst) ==
  /\ valid # None => data_in_ready \/ HostReady
  /\ TxStep(valid, rst /\ ~ideal)
  /\ RxStep(rst)
  /\ inflight' = LET left == IF Completes /\ inflight # <<>> THEN Tail(inflight) ELSE inflight
                 IN  IF rst \/ (garbled /\ ~Quiet) THEN <<>>
                     ELSE IF valid = None THEN left ELSE Append(left, valid)
  /\ lag' = IF tx_running /\ LastClock THEN lag + 1
            ELSE IF ~tx_running /\ lag > 0 THEN lag - 1 ELSE lag
  /\ garbled' = (~Quiet /\ (garbled \/ rst))
  /\ UNCHANGED ideal

Tick == \E valid \in Words \cup {None} : Clock(valid, FALSE)

\* The reset button: one clock.
Reset == Clock(None, TRUE)

Next == Tick \/ Reset

Spec == Init /\ [][Next]_vars /\ WF_vars(Tick)

---------------------------------------------------------------------------
(* Properties *)

TypeOK ==
  /\ ideal \in BOOLEAN /\ garbled \in BOOLEAN
  /\ bit_counter \in 0 .. (DataBits + 3) /\ clock_counter \in 0 .. (SYMBOL_EDGE_TIME - 1)
  /\ data \in Words
  /\ out \in Bit /\ serial_out_reg \in Bit /\ serial_in_reg \in Bit
  /\ rx_bit \in 0 .. (DataBits + 2) /\ rx_clock \in 0 .. (SYMBOL_EDGE_TIME - 1)
  /\ rx_shift \in [1 .. (DataBits + 2) -> Bit]
  /\ lag \in 0 .. MaxLag + 1

\* Each frame is received as the word it was sent for, in order, though the
\* receiver starts one clock later on each frame of a burst.
ReceivedAsSent ==
  [][Completes /\ ~garbled => inflight # <<>> /\ data_out' = Head(inflight)]_vars

\* A frame that is begun gets received.
Arrives == inflight # <<>> ~> (Completes \/ garbled)

\* A receiver that has lost its place in the stream, by a reset in a frame or
\* by the level of the line at power-up, finds it again at the latest when
\* the sender pauses.
Resyncs == []<>(~garbled) \/ []<>tx_running
=============================================================================
