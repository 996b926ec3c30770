-------------------------------- MODULE Fifo --------------------------------
(***************************************************************************)
(* io_circuits/fifo.v: a ring buffer clocked on the falling edge.  Two     *)
(* always blocks decide separately, the first how many words there are and *)
(* the second which words they are; Negedge is both.                       *)
(*                                                                         *)
(* The pointers have $clog2(DEPTH) bits.  DEPTH is a power of two, as in   *)
(* its instance (32), so that they wrap where the memory does.             *)
(***************************************************************************)
EXTENDS Naturals, Sequences

CONSTANTS
    DEPTH,   \* words of the ring
    Data     \* the words

ASSUME FifoAssumption == DEPTH \in Nat \ {0} /\ Data # {}

VARIABLES
    cnt,         \* words held
    read_ptr,    \* index of the oldest word
    write_ptr,   \* index of the next free word
    ram,
    data         \* the word read last

fifo == <<cnt, read_ptr, write_ptr, ram, data>>

Slots == 0 .. DEPTH - 1

empty == cnt = 0
full  == cnt >= DEPTH
dout  == data

\* A pointer plus one, in $clog2(DEPTH) bits.
Bump(ptr) == IF ptr = DEPTH - 1 THEN 0 ELSE ptr + 1

\* Mutant: a simultaneous write and read is not told apart when the ring is full.
Count_FullWriteRead(wr_en, rd_en) ==
    cnt' = IF wr_en /\ ~rd_en /\ ~full THEN cnt + 1
           ELSE IF ~wr_en /\ rd_en /\ ~empty THEN cnt - 1
           ELSE IF wr_en /\ rd_en /\ empty THEN cnt + 1
           ELSE cnt

\* The first always block.
Count(wr_en, rd_en) ==
    cnt' = IF wr_en /\ ~rd_en /\ ~full THEN cnt + 1
           ELSE IF ~wr_en /\ rd_en /\ ~empty THEN cnt - 1
           ELSE IF wr_en /\ rd_en /\ empty THEN cnt + 1
           ELSE IF wr_en /\ rd_en /\ full THEN cnt - 1
           ELSE cnt

\* Mutant: a full ring overwrites its oldest word.
Write_NoFull(wr_en, din) ==
    IF wr_en
    THEN ram' = [ram EXCEPT ![write_ptr] = din] /\ write_ptr' = Bump(write_ptr)
    ELSE UNCHANGED <<ram, write_ptr>>

\* The second always block: its write side and its read side, which are
\* independent of each other in every branch of the block.
Write(wr_en, din) ==
    IF wr_en /\ ~full
    THEN ram' = [ram EXCEPT ![write_ptr] = din] /\ write_ptr' = Bump(write_ptr)
    ELSE UNCHANGED <<ram, write_ptr>>

Read(rd_en) ==
    IF rd_en /\ ~empty
    THEN data' = ram'[read_ptr] /\ read_ptr' = Bump(read_ptr)
    ELSE UNCHANGED <<data, read_ptr>>

\* A falling edge with rst low.
Negedge(wr_en, rd_en, din) ==
    /\ Count(wr_en, rd_en)
    /\ Write(wr_en, din)
    /\ Read(rd_en)

\* A falling edge with rst high: the words themselves stay.
ResetEdge ==
    /\ cnt' = 0
    /\ read_ptr' = 0
    /\ write_ptr' = 0
    /\ UNCHANGED <<ram, data>>

\* The state after configuration, which clears all registers.
FifoInit ==
    /\ cnt = 0 /\ read_ptr = 0 /\ write_ptr = 0
    /\ ram \in [Slots -> Data]
    /\ data \in Data

FifoTick == \E wr_en, rd_en \in BOOLEAN, din \in Data : Negedge(wr_en, rd_en, din)

FifoNext == FifoTick \/ ResetEdge

FifoSpec == FifoInit /\ [][FifoNext]_fifo

-----------------------------------------------------------------------------
\* The slot i places after the oldest word's.
SlotAt(i) == IF read_ptr + i < DEPTH THEN read_ptr + i ELSE read_ptr + i - DEPTH

\* Types; the count fits the ring.
FifoTypeOK ==
    /\ cnt \in 0 .. DEPTH
    /\ read_ptr \in Slots /\ write_ptr \in Slots
    /\ ram \in [Slots -> Data]
    /\ data \in Data

\* The two always blocks agree: the write pointer is cnt places ahead of the
\* read pointer, also after simultaneous writes and reads at either limit.
CountMatchesPointers == write_ptr = SlotAt(cnt)

\* The queue in the ring.
Items == [i \in 1 .. cnt |-> ram[SlotAt(i - 1)]]

Abstract == INSTANCE Queue WITH Capacity <- DEPTH, items <- Items, out <- dout

\* The ring is a bounded queue: order kept, nothing accepted lost or repeated,
\* nothing overwritten.
ImplementsQueue == Abstract!Spec
=============================================================================
