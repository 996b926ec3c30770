------------------------------- MODULE RxPath -------------------------------
(***************************************************************************)
(* The way of a received byte to the program: uart_receiver, the FIFO of   *)
(* module Fifo and the loads of the UART status and of the received byte.  *)
(* The receiver and the core work on the rising edge, the FIFO on the      *)
(* falling edge.                                                           *)
(*                                                                         *)
(* Bytes are numbered in the order the receiver assembles them; 0 is a     *)
(* shift register with a part of a frame in it.  A frame is told apart as  *)
(* far as its readers can: before its first sample, before its last one,   *)
(* and the rest of its stop bit.  Each lasts any number of clocks.         *)
(*                                                                         *)
(* The program polls the status and loads one byte when it is set, as      *)
(* uread_int8 does, with any number of clocks in between.                  *)
(***************************************************************************)
EXTENDS Fifo

CONSTANT
    MaxBytes    \* bound: frames that begin

Bytes == 0 .. MaxBytes

ASSUME RxPathAssumption == MaxBytes \in Nat /\ Bytes \subseteq Data

VARIABLES
    clk,         \* the level of the clock: the edge to come is the other one
    rst,         \* the reset, changed at rising edges
    frame,       \* what the receiver is in: "none" or "start", "bits", "stop" of a frame
    rx_data,     \* rx_shift[8:1]
    has_byte,
    load,        \* the load in WB: "status", "byte" or "other" for anything else
    polled,      \* the program saw the status set and has not loaded the byte
    \* History variables.
    assembled,   \* bytes the receiver has put together
    accepted,    \* number of the byte the FIFO accepted last
    fetched,     \* number of the byte that was the last one when the program had them all
    overrun,     \* a byte was completed while the FIFO was full
    prompt       \* the program always has all bytes before the next frame's first sample

receiver == <<frame, rx_data, has_byte>>
core == <<load, polled>>
vars == <<clk, rst, receiver, fifo, core, assembled, accepted, fetched, overrun, prompt>>

rx_running     == frame # "none"
data_out_valid == has_byte /\ ~rx_running
data_out_ready == ~full

\* Mutant: loading the byte does not advance the FIFO.
rx_fifo_rd_en_Never == FALSE

rx_fifo_rd_en == load = "byte"

\* Mutant: the wrong flag of the FIFO.
status_rx_Full == full

\* The bit of the status that announces a byte.
status_rx == ~empty

-----------------------------------------------------------------------------
(* The falling edge.                                                       *)

\* Mutant: the FIFO is not reset.
FifoEdge_NoReset == Negedge(data_out_valid, rx_fifo_rd_en, rx_data)

FifoEdge ==
    IF rst THEN ResetEdge
    ELSE Negedge(data_out_valid, rx_fifo_rd_en, rx_data)

Falling ==
    /\ clk = "high" /\ clk' = "low"
    /\ FifoEdge
    /\ accepted' = IF ~rst /\ data_out_valid /\ ~full THEN rx_data ELSE accepted
    /\ UNCHANGED <<rst, receiver, core, assembled, fetched, overrun, prompt>>

-----------------------------------------------------------------------------
(* The rising edge.                                                        *)

\* The program has loaded every byte, counting the load that ends now.
AllFetched == fetched + (IF load = "byte" THEN 1 ELSE 0) >= assembled

\* One clock of bit_counter and rx_shift.  The event is what a sample or a
\* symbol edge makes of the frame.
FrameStep(event) ==
    CASE event = "none" -> UNCHANGED <<frame, rx_data, assembled>>
      [] event = "start" ->
            /\ frame = "none" /\ assembled < MaxBytes
            /\ frame' = "start"
            /\ UNCHANGED <<rx_data, assembled>>
      [] event = "first sample" ->
            /\ frame = "start" /\ (prompt => AllFetched)
            /\ frame' = "bits" /\ rx_data' = 0
            /\ UNCHANGED assembled
      [] event = "last sample" ->
            /\ frame = "bits"
            /\ frame' = "stop" /\ rx_data' = assembled + 1
            /\ assembled' = assembled + 1
      [] event = "done" ->
            /\ frame = "stop" /\ frame' = "none"
            /\ UNCHANGED <<rx_data, assembled>>

Events == {"none", "start", "first sample", "last sample", "done"}

\* Mutant: a ready FIFO hides the byte that has just been completed.
HasByte_ReadyFirst(event) ==
    has_byte' = IF data_out_ready THEN FALSE
                ELSE IF event = "done" THEN TRUE ELSE has_byte

\* Mutant: a byte taken is still offered.
HasByte_Kept(event) == has_byte' = (event = "done" \/ has_byte)

HasByte(event) ==
    has_byte' = IF event = "done" THEN TRUE
                ELSE IF data_out_ready THEN FALSE ELSE has_byte

\* The program's next clock: a load only as uread_int8 issues it.
Program ==
    /\ load' \in {"other"} \cup (IF polled THEN {"byte"} ELSE {"status"})
    /\ polled' = \/ load = "status" /\ status_rx
                 \/ polled /\ load' # "byte"
    /\ load = "status" /\ status_rx => load' = "other"

Rising ==
    /\ clk = "low" /\ clk' = "high"
    /\ rst' \in BOOLEAN
    /\ UNCHANGED <<fifo, prompt>>
    /\ IF rst
       THEN /\ frame' = "none" /\ has_byte' = FALSE
            /\ load' = "other" /\ polled' = FALSE
            \* rx_shift has no reset; what a last sample completes is dropped.
            /\ rx_data' \in {rx_data} \cup (IF frame \in {"start", "bits"} THEN {0} ELSE {})
            /\ UNCHANGED assembled
            /\ accepted' = assembled /\ fetched' = assembled /\ overrun' = FALSE
       ELSE /\ \E event \in Events :
                 /\ FrameStep(event)
                 /\ HasByte(event)
                 /\ overrun' = (overrun \/ (event = "done" /\ full))
            /\ Program
            /\ fetched' = IF load = "byte" THEN fetched + 1 ELSE fetched
            /\ UNCHANGED accepted

Init ==
    /\ clk = "high" /\ rst = FALSE
    /\ frame = "none" /\ rx_data = 0 /\ has_byte = FALSE
    /\ cnt = 0 /\ read_ptr = 0 /\ write_ptr = 0
    /\ ram = [i \in Slots |-> 0] /\ data = 0
    /\ load = "other" /\ polled = FALSE
    /\ assembled = 0 /\ accepted = 0 /\ fetched = 0 /\ overrun = FALSE
    /\ prompt \in BOOLEAN

Next == Falling \/ Rising

\* The clock ticks, a stop bit ends, and the program comes back to read: it
\* polls again and again and loads what it saw announced.
FrameEnds  == Rising /\ frame = "stop" /\ frame' = "none"
Polls      == Rising /\ load' = "status"
LoadsByte  == Rising /\ load' = "byte"

Spec ==
    /\ Init /\ [][Next]_vars
    /\ WF_vars(Next) /\ SF_vars(FrameEnds) /\ SF_vars(Polls) /\ SF_vars(LoadsByte)
-----------------------------------------------------------------------------
\* Types; and the program never loads more bytes than the receiver put together.
TypeOK ==
    /\ clk \in {"high", "low"} /\ rst \in BOOLEAN
    /\ frame \in {"none", "start", "bits", "stop"}
    /\ rx_data \in Bytes /\ has_byte \in BOOLEAN
    /\ FifoTypeOK
    /\ load \in {"other", "status", "byte"} /\ polled \in BOOLEAN
    /\ assembled \in Bytes /\ accepted \in Bytes /\ fetched \in 0 .. assembled
    /\ overrun \in BOOLEAN /\ prompt \in BOOLEAN

\* No byte enters the FIFO twice or out of order: the receiver offers it for one
\* falling edge, also when that edge fills the FIFO.
AcceptedOnce ==
    [][accepted' # accepted \/ cnt' > cnt => accepted' > accepted]_vars

\* Unless a byte came in at a full FIFO, every byte the receiver has put together
\* is in the FIFO or still held where the FIFO will find it.
NoByteLost ==
    ~overrun /\ accepted # assembled =>
        /\ accepted = assembled - 1
        /\ rx_data = assembled
        /\ frame = "stop" \/ has_byte

\* A program that is prompt reads the byte that the FIFO hands out with the same
\* load, though it reads the receiver's register and not the FIFO.
ReadsWhatFifoDelivers ==
    prompt /\ clk = "low" /\ load = "byte" /\ ~rst => rx_data = dout

\* The status announces a byte only while the receiver's register holds one.
StatusMeansByte == prompt /\ clk = "low" /\ ~rst /\ status_rx => rx_data # 0

\* Every byte gets to the program, unless the FIFO overran or a reset dropped it.
ByteReachesProgram ==
    \A k \in 1 .. MaxBytes : assembled = k ~> fetched >= k \/ overrun \/ rst
=============================================================================
