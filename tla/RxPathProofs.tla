---------------------------- MODULE RxPathProofs ----------------------------
(***************************************************************************)
(* For every depth of the FIFO and every number of bytes: the handshake    *)
(* between the receiver, on the rising edge, and the FIFO, on the falling  *)
(* edge, passes each byte on once, in order, and loses none before the     *)
(* first overrun.                                                          *)
(*                                                                         *)
(* The ring itself is shown to be the bounded queue of module Queue.       *)
(*                                                                         *)
(* The key is when a byte is fresh: between the edge that completes it and *)
(* the next one, and only if there is room.  An older byte that is still   *)
(* offered meets a full FIFO.                                              *)
(*                                                                         *)
(* The program loads from the receiver's register, not from the FIFO that  *)
(* its load pops.  That the two agree is counted: the words popped and     *)
(* those in the ring are at most the bytes accepted, so a program that     *)
(* reads each byte before the next frame's first sample leaves one word in *)
(* the ring, the one the register still holds.                             *)
(***************************************************************************)
EXTENDS RxPath, SequenceTheorems, TLAPS

Types ==
    /\ clk \in {"high", "low"} /\ rst \in BOOLEAN
    /\ frame \in {"none", "start", "bits", "stop"}
    /\ rx_data \in Nat /\ has_byte \in BOOLEAN
    /\ cnt \in 0 .. DEPTH
    /\ assembled \in Nat /\ accepted \in 0 .. assembled
    /\ overrun \in BOOLEAN

\* The receiver holds a byte that the FIFO has not had.
Held == rx_data = assembled /\ accepted < assembled

\* The FIFO will take a byte at the coming edge.
Offered == clk = "high" /\ has_byte /\ frame = "none" /\ ~full

\* A falling edge in reset has cleared the FIFO and not taken the byte; the next
\* edge drops it.
Dropping == rst /\ clk = "low" /\ has_byte

HeldWhenOffered == frame = "stop" \/ Offered => Held

OneBehind == accepted = assembled - 1 /\ rx_data = assembled

LastIsUnderway ==
    ~overrun /\ accepted # assembled =>
        OneBehind /\ (frame = "stop" \/ Offered \/ Dropping)

RxInv == Types /\ HeldWhenOffered /\ LastIsUnderway

-----------------------------------------------------------------------------
LEMMA RxInit == Init => RxInv
<1> SUFFICES ASSUME Init PROVE RxInv
  OBVIOUS
<1>1. Types
  <2>1. cnt \in 0 .. DEPTH /\ accepted \in 0 .. assembled /\ rx_data \in Nat
    BY RxPathAssumption, FifoAssumption DEF Init
  <2> QED
    BY <2>1 DEF Init, Types
<1>2. frame # "stop" /\ ~Offered
  BY DEF Init, Offered
<1>3. accepted = assembled
  BY DEF Init
<1> QED
  BY <1>1, <1>2, <1>3 DEF RxInv, HeldWhenOffered, LastIsUnderway

\* The FIFO gains a word only if the receiver offers one and there is room.
LEMMA CountFalling ==
    ASSUME Types, Falling
    PROVE  /\ cnt' \in 0 .. DEPTH
           /\ cnt' > cnt => ~rst /\ data_out_valid /\ ~full
<1>1. CASE rst
  BY <1>1, RxPathAssumption, FifoAssumption DEF Types, Falling, FifoEdge, ResetEdge
<1>2. CASE ~rst
  <2>1. Count(data_out_valid, rx_fifo_rd_en)
    BY <1>2 DEF Falling, FifoEdge, Negedge
  <2> QED
    BY <1>2, <2>1, RxPathAssumption, FifoAssumption DEF Types, Count, full, empty
<1> QED
  BY <1>1, <1>2

\* A byte the FIFO accepts is one it has not had.
LEMMA Accepting ==
    ASSUME RxInv, Falling, accepted' # accepted \/ cnt' > cnt
    PROVE  ~rst /\ Offered /\ Held /\ accepted' = rx_data
<1>1. ~rst /\ data_out_valid /\ ~full
  <2>1. CASE cnt' > cnt
    BY <2>1, CountFalling DEF RxInv
  <2>2. CASE accepted' # accepted
    BY <2>2, ZenonT(20) DEF Falling
  <2> QED
    BY <2>1, <2>2
<1>2. Offered
  BY <1>1 DEF Offered, data_out_valid, rx_running, Falling
<1> QED
  BY <1>1, <1>2 DEF RxInv, HeldWhenOffered, Falling

LEMMA FallingInvariant == ASSUME RxInv, Falling PROVE RxInv'
<1>1. Types /\ HeldWhenOffered /\ LastIsUnderway
  BY DEF RxInv
<1>2. /\ clk' = "low"
      /\ UNCHANGED <<rst, frame, rx_data, has_byte, assembled, overrun>>
  BY DEF Falling, receiver
<1>3. ~Offered'
  BY <1>2 DEF Offered
<1>4. CASE accepted' = accepted
  <2>1. Types'
    BY <1>1, <1>2, <1>4, CountFalling DEF Types
  <2>2. HeldWhenOffered'
    BY <1>1, <1>2, <1>3, <1>4 DEF HeldWhenOffered, Held
  <2>3. ASSUME Offered, ~rst PROVE accepted' = assembled
    BY <1>1, <2>3 DEF HeldWhenOffered, Held, Offered, Falling,
                      data_out_valid, rx_running
  <2>4. Offered /\ rst => Dropping'
    BY <1>2 DEF Offered, Dropping
  <2>5. ~Dropping
    BY DEF Dropping, Falling
  <2>6. LastIsUnderway'
    BY <1>1, <1>2, <1>4, <2>3, <2>4, <2>5 DEF LastIsUnderway, OneBehind
  <2> QED
    BY <2>1, <2>2, <2>6 DEF RxInv
<1>5. CASE accepted' # accepted
  <2>1. accepted' = assembled' /\ frame' # "stop"
    BY <1>2, <1>5, Accepting DEF Held, Offered
  <2>2. Types'
    BY <1>1, <1>2, <2>1, CountFalling DEF Types
  <2> QED
    BY <1>3, <2>1, <2>2 DEF RxInv, HeldWhenOffered, LastIsUnderway
<1> QED
  BY <1>4, <1>5

LEMMA ResetInvariant == ASSUME RxInv, Rising, rst PROVE RxInv'
<1>1. /\ clk' = "high" /\ rst' \in BOOLEAN /\ cnt' = cnt
      /\ frame' = "none" /\ has_byte' = FALSE /\ overrun' = FALSE
      /\ rx_data' \in {rx_data, 0}
      /\ assembled' = assembled /\ accepted' = assembled
  BY DEF Rising, fifo
<1>2. Types'
  <2>1. accepted' \in 0 .. assembled' /\ rx_data' \in Nat /\ cnt' \in 0 .. DEPTH
    BY <1>1 DEF RxInv, Types
  <2> QED
    BY <1>1, <2>1, Zenon DEF RxInv, Types
<1>3. ~Offered'
  BY <1>1, Zenon DEF Offered
<1> QED
  BY <1>1, <1>2, <1>3 DEF RxInv, HeldWhenOffered, LastIsUnderway

\* A rising edge without reset, by what it makes of the frame.
LEMMA FrameInvariant == ASSUME RxInv, Rising, ~rst PROVE RxInv'
<1>1. PICK event \in Events :
        /\ FrameStep(event) /\ HasByte(event)
        /\ overrun' = (overrun \/ (event = "done" /\ full))
  BY DEF Rising
<1>2. /\ clk = "low" /\ clk' = "high" /\ rst' \in BOOLEAN
      /\ cnt' = cnt /\ accepted' = accepted
  BY DEF Rising, fifo
<1>3. full' <=> full
  BY <1>2 DEF full
<1>4. ~Offered /\ ~Dropping
  BY <1>2 DEF Offered, Dropping
<1>5. Types /\ HeldWhenOffered /\ LastIsUnderway
  BY DEF RxInv
<1>6. has_byte' \in BOOLEAN /\ overrun' \in BOOLEAN /\ (~overrun' => ~overrun)
  <2>1. has_byte \in BOOLEAN /\ overrun \in BOOLEAN
    BY <1>5 DEF Types
  <2> QED
    BY <1>1, <2>1, Zenon DEF HasByte
<1>7. CASE event = "done"
  <2>1. /\ frame = "stop" /\ frame' = "none"
        /\ rx_data' = rx_data /\ assembled' = assembled
    BY <1>1, <1>7 DEF FrameStep
  <2>2. Types'
    BY <1>2, <1>5, <1>6, <2>1 DEF Types
  <2>3. HeldWhenOffered'
    BY <1>2, <1>5, <2>1 DEF HeldWhenOffered, Held
  <2>4. ~overrun' => Offered'
    BY <1>1, <1>2, <1>3, <1>7, <2>1, Zenon DEF HasByte, Offered
  <2>5. LastIsUnderway'
    BY <1>2, <1>4, <1>5, <1>6, <2>1, <2>4 DEF LastIsUnderway, OneBehind
  <2> QED
    BY <2>2, <2>3, <2>5 DEF RxInv
<1>8. CASE event = "last sample"
  <2>1. /\ frame = "bits" /\ frame' = "stop"
        /\ assembled' = assembled + 1 /\ rx_data' = assembled + 1
    BY <1>1, <1>8 DEF FrameStep
  <2>2. Types'
    BY <1>2, <1>5, <1>6, <2>1 DEF Types
  <2>3. HeldWhenOffered'
    BY <1>2, <1>5, <2>1 DEF HeldWhenOffered, Held, Types
  <2>4. ~overrun => accepted = assembled
    BY <1>4, <1>5, <2>1 DEF LastIsUnderway
  <2>5. LastIsUnderway'
    BY <1>2, <1>5, <1>6, <2>1, <2>4 DEF LastIsUnderway, OneBehind, Types
  <2> QED
    BY <2>2, <2>3, <2>5 DEF RxInv
<1>9. CASE event \in {"none", "start", "first sample"}
  <2>1. /\ assembled' = assembled /\ rx_data' \in {rx_data, 0}
        /\ frame' \in {"none", "start", "bits", "stop"}
        /\ frame = "stop" <=> frame' = "stop"
        /\ frame = "stop" => rx_data' = rx_data
    BY <1>1, <1>5, <1>9 DEF FrameStep, Types
  <2>2. ~Offered'
    BY <1>1, <1>3, <1>9, Zenon DEF HasByte, data_out_ready, Offered
  <2>3. Types'
    BY <1>2, <1>5, <1>6, <2>1 DEF Types
  <2>4. HeldWhenOffered'
    BY <1>2, <1>5, <2>1, <2>2 DEF HeldWhenOffered, Held
  <2>5. LastIsUnderway'
    BY <1>2, <1>4, <1>5, <1>6, <2>1 DEF LastIsUnderway, OneBehind
  <2> QED
    BY <2>3, <2>4, <2>5 DEF RxInv
<1> QED
  BY <1>7, <1>8, <1>9 DEF Events

LEMMA RxStep == RxInv /\ [Next]_vars => RxInv'
<1> SUFFICES ASSUME RxInv, [Next]_vars PROVE RxInv'
  OBVIOUS
<1>1. CASE UNCHANGED vars
  BY <1>1 DEF vars, receiver, fifo, RxInv, Types, HeldWhenOffered, LastIsUnderway,
              OneBehind, Held, Offered, Dropping, full
<1>2. CASE Rising
  BY <1>2, ResetInvariant, FrameInvariant
<1> QED
  BY <1>1, <1>2, FallingInvariant DEF Next

\* The invariant of the handshake.
THEOREM RxInvariant == Spec => []RxInv
  BY RxInit, RxStep, PTL DEF Spec

\* Short of an overrun, the FIFO has had every byte but the one the receiver is
\* just handing over.
THEOREM NothingLost == Spec => []NoByteLost
<1>1. RxInv => NoByteLost
  BY DEF RxInv, LastIsUnderway, OneBehind, Offered, Dropping, NoByteLost
<1> QED
  BY <1>1, RxInvariant, PTL

\* No byte gets into the FIFO twice or out of order, overruns or not.
THEOREM EachOnce == Spec => AcceptedOnce
<1>1. ASSUME RxInv, [Next]_vars, accepted' # accepted \/ cnt' > cnt
      PROVE  accepted' > accepted \/ UNCHANGED vars
  <2>1. CASE Falling
    BY <1>1, <2>1, Accepting DEF Held, RxInv, Types
  <2>2. CASE Rising
    BY <1>1, <2>2 DEF Rising, fifo, RxInv, Types
  <2> QED
    BY <1>1, <2>1, <2>2 DEF Next
<1> QED
  BY <1>1, RxInvariant, PTL DEF Spec, AcceptedOnce

-----------------------------------------------------------------------------
(* The FIFO.                                                               *)
(*                                                                         *)
(* For every depth, whatever it is fed and asked for: the count always     *)
(* agrees with the pointers, and the ring is the bounded queue of module   *)
(* Queue.  The two always blocks are put together in terms of two events,  *)
(* accepts and delivers; each of their four combinations is then one step, *)
(* or a stuttering step, of the queue.                                     *)

RingInv == FifoTypeOK /\ CountMatchesPointers

accepts(wr_en)  == wr_en /\ ~full
delivers(rd_en) == rd_en /\ ~empty

-----------------------------------------------------------------------------
(* Ring arithmetic.                                                        *)

LEMMA SlotFacts ==
    ASSUME read_ptr \in Slots
    PROVE  /\ \A i \in 0 .. DEPTH : SlotAt(i) \in Slots
           /\ \A i, j \in 0 .. DEPTH - 1 : SlotAt(i) = SlotAt(j) => i = j
           /\ \A i \in 0 .. DEPTH - 1 : SlotAt(i + 1) = Bump(SlotAt(i))
           /\ SlotAt(0) = read_ptr
    BY FifoAssumption DEF SlotAt, Slots, Bump

LEMMA SlotShift ==
    ASSUME read_ptr \in Slots, read_ptr' = Bump(read_ptr), NEW i \in 0 .. DEPTH - 1
    PROVE  SlotAt(i)' = SlotAt(i + 1)
    BY FifoAssumption DEF SlotAt, Slots, Bump

LEMMA BumpType == ASSUME NEW p \in Slots PROVE Bump(p) \in Slots
    BY FifoAssumption DEF Slots, Bump

\* The first always block counts what the second one does.
LEMMA CountByEvents ==
    ASSUME FifoTypeOK, NEW wr_en \in BOOLEAN, NEW rd_en \in BOOLEAN, Count(wr_en, rd_en)
    PROVE  cnt' = IF accepts(wr_en) /\ ~delivers(rd_en) THEN cnt + 1
                  ELSE IF ~accepts(wr_en) /\ delivers(rd_en) THEN cnt - 1
                  ELSE cnt
    BY FifoAssumption DEF FifoTypeOK, Count, accepts, delivers, full, empty

-----------------------------------------------------------------------------
(* The invariant.                                                          *)

LEMMA NegedgeTypes ==
    ASSUME FifoTypeOK,
           NEW wr_en \in BOOLEAN, NEW rd_en \in BOOLEAN, NEW din \in Data,
           Negedge(wr_en, rd_en, din)
    PROVE  FifoTypeOK'
<1>1. cnt' \in 0 .. DEPTH
  BY CountByEvents, FifoAssumption
     DEF Negedge, FifoTypeOK, accepts, delivers, full, empty
<1>2. write_ptr' \in Slots /\ ram' \in [Slots -> Data]
  BY BumpType DEF Negedge, Write, FifoTypeOK
<1>3. read_ptr' \in Slots /\ data' \in Data
  BY <1>2, BumpType DEF Negedge, Read, FifoTypeOK
<1> QED
  BY <1>1, <1>2, <1>3 DEF FifoTypeOK

LEMMA NegedgePointers ==
    ASSUME RingInv,
           NEW wr_en \in BOOLEAN, NEW rd_en \in BOOLEAN, NEW din \in Data,
           Negedge(wr_en, rd_en, din)
    PROVE  CountMatchesPointers'
<1> USE DEF RingInv
<1>1. read_ptr \in Slots /\ cnt \in 0 .. DEPTH /\ write_ptr = SlotAt(cnt)
  BY DEF FifoTypeOK, CountMatchesPointers
<1>2. DEPTH \in Nat \ {0}
  BY FifoAssumption
<1>3. write_ptr' = IF accepts(wr_en) THEN Bump(write_ptr) ELSE write_ptr
  BY DEF Negedge, Write, accepts
<1>4. read_ptr' = IF delivers(rd_en) THEN Bump(read_ptr) ELSE read_ptr
  BY DEF Negedge, Read, delivers
<1>5. cnt' = IF accepts(wr_en) /\ ~delivers(rd_en) THEN cnt + 1
             ELSE IF ~accepts(wr_en) /\ delivers(rd_en) THEN cnt - 1
             ELSE cnt
  BY CountByEvents DEF Negedge
<1>6. accepts(wr_en) => cnt \in 0 .. DEPTH - 1
  BY <1>1, <1>2 DEF accepts, full
<1>7. delivers(rd_en) => cnt \in 1 .. DEPTH
  BY <1>1, <1>2 DEF delivers, empty
<1>8. write_ptr' = SlotAt(cnt)'
  <2>1. CASE accepts(wr_en) /\ ~delivers(rd_en)
    BY <1>1, <1>2, <1>3, <1>4, <1>5, <1>6, <2>1 DEF SlotAt, Bump, Slots
  <2>2. CASE ~accepts(wr_en) /\ delivers(rd_en)
    BY <1>1, <1>2, <1>3, <1>4, <1>5, <1>7, <2>2 DEF SlotAt, Bump, Slots
  <2>3. CASE accepts(wr_en) /\ delivers(rd_en)
    BY <1>1, <1>2, <1>3, <1>4, <1>5, <1>6, <1>7, <2>3 DEF SlotAt, Bump, Slots
  <2>4. CASE ~accepts(wr_en) /\ ~delivers(rd_en)
    BY <1>1, <1>3, <1>4, <1>5, <2>4 DEF SlotAt
  <2> QED
    BY <2>1, <2>2, <2>3, <2>4
<1> QED
  BY <1>8 DEF CountMatchesPointers

LEMMA RingInitInvariant == FifoInit => RingInv
<1> SUFFICES ASSUME FifoInit PROVE RingInv
  OBVIOUS
<1>1. FifoTypeOK
  BY FifoAssumption DEF FifoInit, FifoTypeOK, Slots
<1>2. CountMatchesPointers
  BY FifoAssumption DEF FifoInit, CountMatchesPointers, SlotAt
<1> QED
  BY <1>1, <1>2 DEF RingInv

LEMMA RingNextInvariant == RingInv /\ [FifoNext]_fifo => RingInv'
<1> SUFFICES ASSUME RingInv, [FifoNext]_fifo PROVE RingInv'
  OBVIOUS
<1>1. CASE FifoTick
  <2>1. PICK wr_en \in BOOLEAN, rd_en \in BOOLEAN, din \in Data : Negedge(wr_en, rd_en, din)
    BY <1>1 DEF FifoTick
  <2> QED
    BY <2>1, NegedgeTypes, NegedgePointers DEF RingInv
<1>2. CASE ResetEdge
  BY <1>2, FifoAssumption
     DEF ResetEdge, RingInv, FifoTypeOK, CountMatchesPointers, SlotAt, Slots
<1>3. CASE UNCHANGED fifo
  BY <1>3 DEF fifo, RingInv, FifoTypeOK, CountMatchesPointers, SlotAt, Slots
<1> QED
  BY <1>1, <1>2, <1>3 DEF FifoNext

\* Every reachable state has its types, and the write pointer is cnt places
\* ahead of the read pointer.
THEOREM FifoInvariant == FifoSpec => []RingInv
<1> QED
  BY RingInitInvariant, RingNextInvariant, PTL DEF FifoSpec

\* The registers keep their widths; cnt never passes DEPTH.
THEOREM FifoTypes == FifoSpec => []FifoTypeOK
<1>1. RingInv => FifoTypeOK
  BY DEF RingInv
<1> QED
  BY <1>1, FifoInvariant, PTL

\* The two always blocks of fifo.v agree on what is in the ring.
THEOREM FifoCountMatchesPointers == FifoSpec => []CountMatchesPointers
<1>1. RingInv => CountMatchesPointers
  BY DEF RingInv
<1> QED
  BY <1>1, FifoInvariant, PTL

-----------------------------------------------------------------------------
(* The refinement.                                                         *)

LEMMA ItemsFacts ==
    FifoTypeOK =>
        /\ Items \in Seq(Data)
        /\ Len(Items) = cnt
        /\ \A i \in 1 .. cnt : Items[i] = ram[SlotAt(i - 1)]
<1> SUFFICES ASSUME FifoTypeOK
             PROVE  /\ Items \in Seq(Data)
                    /\ Len(Items) = cnt
                    /\ \A i \in 1 .. cnt : Items[i] = ram[SlotAt(i - 1)]
  OBVIOUS
<1>1. cnt \in Nat /\ cnt <= DEPTH /\ DEPTH \in Nat
  BY FifoAssumption DEF FifoTypeOK
<1>2. \A i \in 1 .. cnt : ram[SlotAt(i - 1)] \in Data
  BY <1>1, SlotFacts DEF FifoTypeOK
<1> QED
  BY <1>1, <1>2 DEF Items

LEMMA ItemsFactsNext ==
    FifoTypeOK' =>
        /\ Items' \in Seq(Data)
        /\ Len(Items') = cnt'
        /\ \A i \in 1 .. cnt' : Items'[i] = ram'[SlotAt(i - 1)']
<1> SUFFICES ASSUME FifoTypeOK'
             PROVE  /\ Items' \in Seq(Data)
                    /\ Len(Items') = cnt'
                    /\ \A i \in 1 .. cnt' : Items'[i] = ram'[SlotAt(i - 1)']
  OBVIOUS
<1>1. FifoTypeOK' => (/\ Items \in Seq(Data)
                  /\ Len(Items) = cnt
                  /\ \A i \in 1 .. cnt : Items[i] = ram[SlotAt(i - 1)])'
  BY ItemsFacts, PTL
<1> QED
  BY <1>1

\* Accepting a word appends it.
LEMMA AcceptAppends ==
    ASSUME RingInv, RingInv',
           NEW wr_en \in BOOLEAN, NEW rd_en \in BOOLEAN, NEW din \in Data,
           Negedge(wr_en, rd_en, din), accepts(wr_en), ~delivers(rd_en)
    PROVE  Abstract!Put(din)
<1>1. /\ cnt' = cnt + 1 /\ read_ptr' = read_ptr /\ data' = data
      /\ ram' = [ram EXCEPT ![SlotAt(cnt)] = din]
  BY CountByEvents
     DEF Negedge, Write, Read, accepts, delivers, RingInv, CountMatchesPointers
<1>2. cnt \in 0 .. DEPTH - 1 /\ read_ptr \in Slots /\ DEPTH \in Nat
  BY FifoAssumption DEF accepts, full, RingInv, FifoTypeOK
<1>3. \A i \in 0 .. DEPTH : SlotAt(i)' = SlotAt(i)
  BY <1>1 DEF SlotAt
<1>4. \A i \in 1 .. cnt : Items'[i] = Items[i]
  <2> SUFFICES ASSUME NEW i \in 1 .. cnt PROVE Items'[i] = Items[i]
    OBVIOUS
  <2>1. SlotAt(i - 1) # SlotAt(cnt) /\ SlotAt(i - 1) \in Slots
    BY <1>2, SlotFacts
  <2>2. Items'[i] = ram'[SlotAt(i - 1)]
    BY <1>1, <1>2, <1>3, ItemsFactsNext DEF RingInv
  <2> QED
    BY <1>1, <2>1, <2>2, ItemsFacts DEF RingInv, FifoTypeOK
<1>5. Items'[cnt + 1] = din
  <2>1. Items'[cnt + 1] = ram'[SlotAt(cnt)]
    BY <1>1, <1>2, <1>3, ItemsFactsNext DEF RingInv
  <2> QED
    BY <1>1, <1>2, <2>1, SlotFacts DEF RingInv, FifoTypeOK
<1>6. Items' = Append(Items, din)
  <2>1. /\ Items \in Seq(Data) /\ Items' \in Seq(Data)
        /\ Len(Items) = cnt /\ Len(Items') = cnt + 1
    BY <1>1, ItemsFacts, ItemsFactsNext DEF RingInv
  <2>2. \A i \in 1 .. cnt + 1 : Items'[i] = Append(Items, din)[i]
    BY <1>2, <1>4, <1>5, <2>1
  <2>3. Append(Items, din) \in Seq(Data) /\ Len(Append(Items, din)) = cnt + 1
    BY <2>1
  <2> QED
    BY <2>1, <2>2, <2>3, SeqEqual
<1> QED
  BY <1>1, <1>2, <1>6, ItemsFacts DEF Abstract!Put, dout, RingInv

\* Delivering a word takes the head.
LEMMA DeliverTakesHead ==
    ASSUME RingInv, RingInv',
           NEW wr_en \in BOOLEAN, NEW rd_en \in BOOLEAN, NEW din \in Data,
           Negedge(wr_en, rd_en, din), ~accepts(wr_en), delivers(rd_en)
    PROVE  Abstract!Get
<1>1. /\ cnt' = cnt - 1 /\ read_ptr' = Bump(read_ptr)
      /\ ram' = ram /\ data' = ram[read_ptr]
  BY CountByEvents DEF Negedge, Write, Read, accepts, delivers, RingInv
<1>2. cnt \in 1 .. DEPTH /\ read_ptr \in Slots /\ DEPTH \in Nat
  BY FifoAssumption DEF delivers, empty, RingInv, FifoTypeOK
<1>3. /\ Items \in Seq(Data) /\ Items' \in Seq(Data)
      /\ Len(Items) = cnt /\ Len(Items') = cnt - 1
  BY <1>1, ItemsFacts, ItemsFactsNext DEF RingInv
<1>4. Items # <<>>
  BY <1>2, <1>3
<1>5. data' = Head(Items)
  BY <1>1, <1>2, <1>3, <1>4, ItemsFacts, SlotFacts DEF RingInv
<1>6. \A i \in 1 .. cnt - 1 : Items'[i] = Items[i + 1]
  <2> SUFFICES ASSUME NEW i \in 1 .. cnt - 1 PROVE Items'[i] = Items[i + 1]
    OBVIOUS
  <2>1. i - 1 \in 0 .. DEPTH - 1 /\ i + 1 \in 1 .. cnt /\ i \in 1 .. cnt'
    BY <1>1, <1>2
  <2>2. SlotAt(i - 1)' = SlotAt(i)
    BY <1>1, <1>2, <2>1, SlotShift
  <2>3. Items'[i] = ram'[SlotAt(i - 1)']
    BY <2>1, ItemsFactsNext DEF RingInv
  <2>4. Items[i + 1] = ram[SlotAt(i)]
    BY <2>1, ItemsFacts DEF RingInv
  <2> QED
    BY <1>1, <2>2, <2>3, <2>4
<1>7. Items' = Tail(Items)
  <2>1. Tail(Items) \in Seq(Data) /\ Len(Tail(Items)) = cnt - 1
        /\ \A i \in 1 .. cnt - 1 : Tail(Items)[i] = Items[i + 1]
    BY <1>3, <1>4, HeadTailProperties
  <2> QED
    BY <1>3, <1>6, <2>1, SeqEqual
<1> QED
  BY <1>4, <1>5, <1>7 DEF Abstract!Get, dout

\* Both at once take the head and append.
LEMMA AcceptAndDeliver ==
    ASSUME RingInv, RingInv',
           NEW wr_en \in BOOLEAN, NEW rd_en \in BOOLEAN, NEW din \in Data,
           Negedge(wr_en, rd_en, din), accepts(wr_en), delivers(rd_en)
    PROVE  Abstract!PutGet(din)
<1>1. /\ cnt' = cnt /\ read_ptr' = Bump(read_ptr) /\ data' = ram'[read_ptr]
      /\ ram' = [ram EXCEPT ![SlotAt(cnt)] = din]
  BY CountByEvents
     DEF Negedge, Write, Read, accepts, delivers, RingInv, CountMatchesPointers
<1>2. cnt \in 1 .. DEPTH - 1 /\ read_ptr \in Slots /\ DEPTH \in Nat
  BY FifoAssumption DEF accepts, delivers, full, empty, RingInv, FifoTypeOK
<1>3. /\ Items \in Seq(Data) /\ Items' \in Seq(Data)
      /\ Len(Items) = cnt /\ Len(Items') = cnt
  BY <1>1, ItemsFacts, ItemsFactsNext DEF RingInv
<1>4. Items # <<>>
  BY <1>2, <1>3
<1>5. data' = Head(Items)
  <2>1. read_ptr = SlotAt(0) /\ SlotAt(0) # SlotAt(cnt)
    BY <1>2, SlotFacts
  <2>2. data' = ram[read_ptr]
    BY <1>1, <1>2, <2>1 DEF RingInv, FifoTypeOK
  <2>3. Items[1] = ram[SlotAt(0)]
    BY <1>2, ItemsFacts DEF RingInv
  <2> QED
    BY <1>3, <1>4, <2>1, <2>2, <2>3
<1>6. \A i \in 1 .. cnt : Items'[i] = ram'[SlotAt(i)]
  <2> SUFFICES ASSUME NEW i \in 1 .. cnt PROVE Items'[i] = ram'[SlotAt(i)]
    OBVIOUS
  <2>1. i - 1 \in 0 .. DEPTH - 1
    BY <1>2
  <2>2. SlotAt(i - 1)' = SlotAt(i)
    BY <1>1, <1>2, <2>1, SlotShift
  <2> QED
    BY <1>1, <2>2, ItemsFactsNext DEF RingInv
<1>7. \A i \in 1 .. cnt - 1 : Items'[i] = Items[i + 1]
  <2> SUFFICES ASSUME NEW i \in 1 .. cnt - 1 PROVE Items'[i] = Items[i + 1]
    OBVIOUS
  <2>1. i + 1 \in 1 .. cnt /\ i \in 1 .. cnt
    BY <1>2
  <2>2. SlotAt(i) # SlotAt(cnt) /\ SlotAt(i) \in Slots
    BY <1>2, SlotFacts
  <2>3. Items[i + 1] = ram[SlotAt(i)]
    BY <2>1, ItemsFacts DEF RingInv
  <2> QED
    BY <1>1, <1>6, <2>1, <2>2, <2>3 DEF RingInv, FifoTypeOK
<1>8. Items'[cnt] = din
  BY <1>1, <1>2, <1>6, SlotFacts DEF RingInv, FifoTypeOK
<1>9. Items' = Append(Tail(Items), din)
  <2>1. Tail(Items) \in Seq(Data) /\ Len(Tail(Items)) = cnt - 1
        /\ \A i \in 1 .. cnt - 1 : Tail(Items)[i] = Items[i + 1]
    BY <1>3, <1>4, HeadTailProperties
  <2>2. /\ Append(Tail(Items), din) \in Seq(Data)
        /\ Len(Append(Tail(Items), din)) = cnt
        /\ \A i \in 1 .. cnt - 1 : Append(Tail(Items), din)[i] = Tail(Items)[i]
        /\ Append(Tail(Items), din)[cnt] = din
    BY <1>2, <2>1
  <2>3. \A i \in 1 .. cnt : Items'[i] = Append(Tail(Items), din)[i]
    BY <1>2, <1>7, <1>8, <2>1, <2>2
  <2> QED
    BY <1>3, <2>2, <2>3, SeqEqual
<1> QED
  BY <1>2, <1>3, <1>5, <1>9 DEF Abstract!PutGet, dout

LEMMA StepRefines ==
    RingInv /\ RingInv' /\ [FifoNext]_fifo
        => [Abstract!Next]_(Abstract!vars)
<1> SUFFICES ASSUME RingInv, RingInv', [FifoNext]_fifo
             PROVE  [Abstract!Next]_(Abstract!vars)
  OBVIOUS
<1> USE DEF Abstract!Next
<1>1. CASE FifoTick
  <2>1. PICK wr_en \in BOOLEAN, rd_en \in BOOLEAN, din \in Data : Negedge(wr_en, rd_en, din)
    BY <1>1 DEF FifoTick
  <2>2. CASE accepts(wr_en) /\ ~delivers(rd_en)
    BY <2>1, <2>2, AcceptAppends
  <2>3. CASE ~accepts(wr_en) /\ delivers(rd_en)
    BY <2>1, <2>3, DeliverTakesHead
  <2>4. CASE accepts(wr_en) /\ delivers(rd_en)
    BY <2>1, <2>4, AcceptAndDeliver
  <2>5. CASE ~accepts(wr_en) /\ ~delivers(rd_en)
    <3>1. UNCHANGED fifo
      BY <2>1, <2>5, CountByEvents
         DEF Negedge, Write, Read, accepts, delivers, RingInv, fifo
    <3> QED
      BY <3>1 DEF fifo, Abstract!vars, Items, SlotAt, dout
  <2> QED
    BY <2>2, <2>3, <2>4, <2>5
<1>2. CASE ResetEdge
  <2>1. Items' = <<>>
    BY <1>2, ItemsFactsNext DEF ResetEdge, RingInv
  <2> QED
    BY <1>2, <2>1 DEF ResetEdge, Abstract!Clear, dout
<1>3. CASE UNCHANGED fifo
  BY <1>3 DEF fifo, Abstract!vars, Items, SlotAt, dout
<1> QED
  BY <1>1, <1>2, <1>3 DEF FifoNext

LEMMA InitRefines == FifoInit => Abstract!Init
<1> SUFFICES ASSUME FifoInit PROVE Abstract!Init
  OBVIOUS
<1>1. FifoTypeOK
  BY RingInitInvariant DEF RingInv
<1>2. Items = <<>>
  BY <1>1, ItemsFacts DEF FifoInit
<1> QED
  BY <1>2 DEF FifoInit, Abstract!Init, dout

\* The ring of fifo.v is a bounded queue of DEPTH words: nothing it accepts is
\* lost, repeated, reordered or overwritten, whatever the pattern of wr_en,
\* rd_en and rst.
THEOREM FifoImplementsQueue == FifoSpec => ImplementsQueue
<1>1. FifoSpec => []RingInv
  BY FifoInvariant
<1>2. FifoInit => Abstract!Init
  BY InitRefines
<1>3. RingInv /\ RingInv' /\ [FifoNext]_fifo => [Abstract!Next]_(Abstract!vars)
  BY StepRefines
<1> QED
  BY <1>1, <1>2, <1>3, PTL DEF FifoSpec, ImplementsQueue, Abstract!Spec

-----------------------------------------------------------------------------
(* What the program reads.                                                 *)
(*                                                                         *)
(* The FIFO's own invariant is the one above.  The program and the         *)
(* FIFO are tied together by a count: the words in the ring and those the  *)
(* program has popped are never more than the bytes accepted.  A program   *)
(* that has popped them all has therefore left the ring empty, so that a   *)
(* prompt one never has two bytes in it, and the one there is the byte the *)
(* receiver's register shows.                                              *)

\* A falling edge in reset has cleared the FIFO; the rest follows at the next edge.
Cleared == rst /\ clk = "low"

\* Words popped: a load has its word from the falling edge on and is counted at
\* the rising edge.
Popped == fetched + (IF load = "byte" /\ clk = "low" /\ ~rst THEN 1 ELSE 0)

FrameLimits ==
    /\ assembled <= MaxBytes
    /\ frame \in {"start", "bits"} => assembled < MaxBytes
    /\ rx_data \in {0, assembled}

\* A byte is loaded only while the FIFO holds one, though the program saw the
\* status any number of clocks before.
ProgramInv ==
    /\ load \in {"other", "status", "byte"} /\ polled \in BOOLEAN /\ fetched \in Nat
    /\ polled => load = "other"
    /\ Cleared => cnt = 0
    /\ polled /\ ~Cleared => cnt > 0
    /\ load = "byte" /\ clk = "high" => cnt > 0
    /\ cnt + Popped <= accepted

\* The word a prompt program has not read yet is the one in the register.
OneWord ==
    cnt > 0 => /\ cnt = 1 /\ accepted = assembled
               /\ rx_data = assembled /\ ram[read_ptr] = assembled

PromptInv ==
    /\ prompt \in BOOLEAN
    /\ prompt => /\ ~overrun
                 /\ frame \in {"bits", "stop"} => cnt = 0
                 /\ OneWord
                 /\ load = "byte" /\ clk = "low" /\ ~rst => rx_data = data

ReadInv == RxInv /\ RingInv /\ FrameLimits /\ ProgramInv /\ PromptInv

-----------------------------------------------------------------------------
\* The ring at a falling edge without reset, in terms of what is accepted and
\* what is delivered.
LEMMA RingFalling ==
    ASSUME ReadInv, Falling, ~rst
    PROVE  /\ RingInv'
           /\ cnt' = cnt + (IF Offered THEN 1 ELSE 0) - (IF load = "byte" THEN 1 ELSE 0)
           /\ accepted' = IF Offered THEN assembled ELSE accepted
           /\ Offered => accepted < assembled /\ rx_data = assembled
           /\ Offered /\ cnt = 0 => ram'[read_ptr'] = rx_data
           /\ load = "byte" => cnt > 0
           /\ load = "byte" /\ ~Offered => data' = ram[read_ptr]
           /\ load # "byte" => read_ptr' = read_ptr
           /\ ~Offered => ram' = ram
<1>1. /\ clk = "high" /\ clk' = "low"
      /\ Negedge(data_out_valid, rx_fifo_rd_en, rx_data)
      /\ accepted' = IF data_out_valid /\ ~full THEN rx_data ELSE accepted
  BY Zenon DEF Falling, FifoEdge
<1>2. Offered <=> data_out_valid /\ ~full
  BY <1>1 DEF Offered, data_out_valid, rx_running
<1>3. Types /\ RingInv /\ FrameLimits /\ HeldWhenOffered
  BY DEF ReadInv, RxInv
<1>4. Offered => accepted < assembled /\ rx_data = assembled
  BY <1>3 DEF HeldWhenOffered, Held
<1>5. load = "byte" => cnt > 0
  BY <1>1 DEF ReadInv, ProgramInv
<1>6. data_out_valid \in BOOLEAN /\ rx_fifo_rd_en \in BOOLEAN
  <2>1. has_byte \in BOOLEAN
    BY <1>3 DEF Types
  <2> QED
    BY <2>1, Zenon DEF data_out_valid, rx_running, rx_fifo_rd_en
<1>7. rx_data \in Data
  BY <1>3, RxPathAssumption, FifoAssumption DEF FrameLimits, Types, Bytes
<1>8. RingInv /\ FifoTypeOK
  BY <1>3 DEF RingInv
<1>9. RingInv'
  BY <1>1, <1>6, <1>7, <1>8, NegedgeTypes, NegedgePointers DEF RingInv
<1>10. accepts(data_out_valid) <=> Offered
  BY <1>2 DEF accepts
<1>11. delivers(rx_fifo_rd_en) <=> load = "byte"
  BY <1>3, <1>5 DEF delivers, empty, rx_fifo_rd_en, Types
<1>12. Count(data_out_valid, rx_fifo_rd_en)
  BY <1>1 DEF Negedge
<1>13. cnt' = cnt + (IF Offered THEN 1 ELSE 0) - (IF load = "byte" THEN 1 ELSE 0)
  <2>1. cnt' = IF accepts(data_out_valid) /\ ~delivers(rx_fifo_rd_en) THEN cnt + 1
               ELSE IF ~accepts(data_out_valid) /\ delivers(rx_fifo_rd_en) THEN cnt - 1
               ELSE cnt
    BY <1>6, <1>8, <1>12, CountByEvents
  <2> QED
    BY <1>3, <1>10, <1>11, <2>1 DEF Types
<1>14. accepted' = IF Offered THEN assembled ELSE accepted
  BY <1>1, <1>2, <1>4
<1>15. ram' = IF Offered THEN [ram EXCEPT ![write_ptr] = rx_data] ELSE ram
  BY <1>1, <1>2 DEF Negedge, Write
<1>16. /\ load = "byte" => data' = ram'[read_ptr]
       /\ load # "byte" => read_ptr' = read_ptr
  BY <1>1, <1>3, <1>5 DEF Negedge, Read, empty, rx_fifo_rd_en, Types
<1>17. Offered /\ cnt = 0 => ram'[read_ptr'] = rx_data
  <2>1. cnt = 0 => write_ptr = read_ptr /\ read_ptr \in Slots
    BY <1>3, RxPathAssumption, FifoAssumption DEF RingInv, FifoTypeOK, CountMatchesPointers,
                                  SlotAt, Slots
  <2>2. ram \in [Slots -> Data]
    BY <1>3 DEF RingInv, FifoTypeOK
  <2> QED
    BY <1>3, <1>5, <1>15, <1>16, <2>1, <2>2 DEF Types
<1> QED
  BY <1>4, <1>5, <1>9, <1>13, <1>14, <1>15, <1>16, <1>17

LEMMA ReadFalling == ASSUME ReadInv, Falling PROVE ReadInv'
<1>1. Types /\ RingInv /\ FrameLimits /\ ProgramInv /\ PromptInv /\ RxInv
  BY DEF ReadInv, RxInv
<1>2. /\ clk = "high" /\ clk' = "low"
      /\ UNCHANGED <<rst, frame, rx_data, load, polled, assembled, fetched, overrun, prompt>>
  BY DEF Falling, receiver, core
<1>3. RxInv' /\ FrameLimits'
  BY <1>1, <1>2, FallingInvariant DEF FrameLimits
<1>4. CASE rst
  <2>1. cnt' = 0 /\ read_ptr' = 0 /\ write_ptr' = 0 /\ ram' = ram /\ data' = data
        /\ accepted' = accepted
    BY <1>4 DEF Falling, FifoEdge, ResetEdge
  <2>2. RingInv'
    BY <1>1, <2>1, RxPathAssumption, FifoAssumption DEF RingInv, FifoTypeOK, CountMatchesPointers,
                                        SlotAt, Slots
  <2>3. ProgramInv'
    BY <1>1, <1>2, <1>4, <2>1 DEF ProgramInv, Cleared, Popped, Types
  <2>4. PromptInv'
    BY <1>1, <1>2, <1>4, <2>1 DEF PromptInv, OneWord
  <2> QED
    BY <1>3, <2>2, <2>3, <2>4 DEF ReadInv
<1>5. CASE ~rst
  <2>1. /\ RingInv'
        /\ cnt' = cnt + (IF Offered THEN 1 ELSE 0) - (IF load = "byte" THEN 1 ELSE 0)
        /\ accepted' = IF Offered THEN assembled ELSE accepted
        /\ Offered => accepted < assembled /\ rx_data = assembled
        /\ Offered /\ cnt = 0 => ram'[read_ptr'] = rx_data
        /\ load = "byte" => cnt > 0
        /\ load = "byte" /\ ~Offered => data' = ram[read_ptr]
        /\ load # "byte" => read_ptr' = read_ptr
        /\ ~Offered => ram' = ram
    BY <1>5, RingFalling
  <2>2. ProgramInv'
    BY <1>1, <1>2, <1>5, <2>1 DEF ProgramInv, Cleared, Popped, Types
  <2>3. PromptInv'
    <3>1. ASSUME prompt, cnt > 0 PROVE ~Offered
      BY <1>1, <2>1, <3>1 DEF PromptInv, OneWord, Types
    <3>2. prompt /\ frame \in {"bits", "stop"} => cnt' = 0
      BY <1>1, <2>1 DEF PromptInv, Offered
    <3>3. prompt => OneWord'
      BY <1>1, <1>2, <2>1, <3>1 DEF PromptInv, OneWord, Types
    <3>4. prompt /\ load = "byte" => rx_data = data'
      BY <1>1, <2>1, <3>1 DEF PromptInv, OneWord
    <3> QED
      BY <1>1, <1>2, <3>2, <3>3, <3>4 DEF PromptInv
  <2> QED
    BY <1>3, <2>1, <2>2, <2>3 DEF ReadInv
<1> QED
  BY <1>4, <1>5

LEMMA RingUnchanged == ASSUME RingInv, UNCHANGED fifo PROVE RingInv'
  BY DEF RingInv, fifo, FifoTypeOK, CountMatchesPointers, SlotAt

LEMMA ReadReset == ASSUME ReadInv, Rising, rst PROVE ReadInv'
<1>1. Types /\ RingInv /\ FrameLimits /\ ProgramInv /\ PromptInv /\ RxInv
  BY DEF ReadInv, RxInv
<1>2. /\ clk = "low" /\ clk' = "high" /\ prompt' = prompt
      /\ cnt' = cnt /\ ram' = ram /\ read_ptr' = read_ptr
      /\ frame' = "none" /\ overrun' = FALSE /\ rx_data' \in {rx_data, 0}
      /\ load' = "other" /\ polled' = FALSE
      /\ assembled' = assembled /\ accepted' = assembled /\ fetched' = assembled
  BY DEF Rising, fifo
<1>3. cnt = 0
  BY <1>1, <1>2 DEF ProgramInv, Cleared
<1>4. RxInv' /\ RingInv'
  BY <1>1, ResetInvariant, RingUnchanged DEF Rising
<1>5. FrameLimits'
  BY <1>1, <1>2 DEF FrameLimits
<1>6. ProgramInv'
  <2>1. cnt' + Popped' <= accepted' /\ fetched' \in Nat
    BY <1>1, <1>2, <1>3 DEF Popped, Types
  <2>2. polled' \in BOOLEAN /\ ~polled'
    BY <1>2, Zenon
  <2> QED
    BY <1>2, <1>3, <2>1, <2>2 DEF ProgramInv, Cleared
<1>7. PromptInv'
  BY <1>1, <1>2, <1>3 DEF PromptInv, OneWord
<1> QED
  BY <1>4, <1>5, <1>6, <1>7 DEF ReadInv

\* A rising edge without reset: the program's clock.
LEMMA ProgramRising == ASSUME ReadInv, Rising, ~rst PROVE ProgramInv'
<1>1. Types /\ ProgramInv
  BY DEF ReadInv, RxInv
<1>2. /\ clk = "low" /\ clk' = "high" /\ cnt' = cnt /\ accepted' = accepted
      /\ fetched' = IF load = "byte" THEN fetched + 1 ELSE fetched
      /\ Program
  BY DEF Rising, fifo
<1>3. load' \in {"other", "status", "byte"} /\ (load' = "byte" => polled)
  BY <1>2 DEF Program
<1>4. polled' \in BOOLEAN
  <2>1. polled' = ((load = "status" /\ status_rx) \/ (polled /\ load' # "byte"))
    BY <1>2 DEF Program
  <2> QED
    BY <2>1, Zenon
<1>5. polled' => load' = "other" /\ cnt > 0
  <2>1. CASE load = "status" /\ status_rx
    BY <1>1, <1>2, <2>1 DEF Program, status_rx, empty, Types
  <2>2. CASE ~(load = "status" /\ status_rx)
    <3>1. polled' => polled /\ load' # "byte"
      BY <1>2, <2>2, Zenon DEF Program
    <3>2. polled => load' \in {"other", "byte"} /\ cnt > 0
      BY <1>1, <1>2 DEF Program, ProgramInv, Cleared
    <3> QED
      BY <3>1, <3>2
  <2> QED
    BY <2>1, <2>2
<1>6. load' = "byte" => cnt > 0
  BY <1>1, <1>2, <1>3 DEF ProgramInv, Cleared
<1>7. fetched' \in Nat /\ cnt' + Popped' <= accepted'
  BY <1>1, <1>2 DEF ProgramInv, Popped, Types
<1> QED
  BY <1>2, <1>3, <1>4, <1>5, <1>6, <1>7 DEF ProgramInv, Cleared

\* A rising edge without reset: a prompt program has left the ring empty when the
\* first sample of the next frame spoils the register.
LEMMA FrameRising == ASSUME ReadInv, Rising, ~rst PROVE FrameLimits' /\ PromptInv'
<1>1. Types /\ FrameLimits /\ ProgramInv /\ PromptInv
  BY DEF ReadInv, RxInv
<1>2. PICK event \in Events :
        /\ FrameStep(event)
        /\ overrun' = (overrun \/ (event = "done" /\ full))
  BY DEF Rising
<1>3. /\ clk = "low" /\ clk' = "high" /\ prompt' = prompt /\ accepted' = accepted
      /\ cnt' = cnt /\ ram' = ram /\ read_ptr' = read_ptr
  BY DEF Rising, fifo
<1>4. prompt => (overrun' <=> event = "done" /\ full)
  BY <1>1, <1>2, Zenon DEF PromptInv
<1>5. CASE event = "none"
  <2>1. frame' = frame /\ rx_data' = rx_data /\ assembled' = assembled
    BY <1>2, <1>5 DEF FrameStep
  <2> QED
    BY <1>1, <1>3, <1>4, <1>5, <2>1 DEF FrameLimits, PromptInv, OneWord
<1>6. CASE event = "start"
  <2>1. /\ frame' = "start" /\ assembled < MaxBytes
        /\ rx_data' = rx_data /\ assembled' = assembled
    BY <1>2, <1>6 DEF FrameStep
  <2> QED
    BY <1>1, <1>3, <1>4, <1>6, <2>1 DEF FrameLimits, PromptInv, OneWord
<1>7. CASE event = "first sample"
  <2>1. /\ frame = "start" /\ frame' = "bits" /\ rx_data' = 0 /\ assembled' = assembled
        /\ prompt => fetched + (IF load = "byte" THEN 1 ELSE 0) >= assembled
    BY <1>2, <1>7 DEF FrameStep, AllFetched
  <2>2. prompt => cnt = 0
    <3>1. Popped = fetched + (IF load = "byte" THEN 1 ELSE 0)
      BY <1>3 DEF Popped
    <3>2. fetched \in Nat /\ cnt + Popped <= accepted
      BY <1>1 DEF ProgramInv
    <3> QED
      BY <1>1, <2>1, <3>1, <3>2 DEF Types
  <2>3. prompt => ~overrun'
    BY <1>4, <1>7
  <2> QED
    BY <1>1, <1>3, <2>1, <2>2, <2>3 DEF FrameLimits, PromptInv, OneWord
<1>8. CASE event = "last sample"
  <2>1. /\ frame = "bits" /\ frame' = "stop"
        /\ rx_data' = assembled + 1 /\ assembled' = assembled + 1
    BY <1>2, <1>8 DEF FrameStep
  <2>2. FrameLimits'
    BY <1>1, <2>1, RxPathAssumption, FifoAssumption DEF FrameLimits, Types
  <2>3. prompt => cnt = 0 /\ ~overrun'
    BY <1>1, <1>4, <1>8, <2>1 DEF PromptInv
  <2> QED
    BY <1>1, <1>3, <2>1, <2>2, <2>3 DEF PromptInv, OneWord
<1>9. CASE event = "done"
  <2>1. /\ frame = "stop" /\ frame' = "none"
        /\ rx_data' = rx_data /\ assembled' = assembled
    BY <1>2, <1>9 DEF FrameStep
  <2>2. prompt => cnt = 0 /\ ~overrun'
    BY <1>1, <1>4, <2>1, RxPathAssumption, FifoAssumption DEF PromptInv, full
  <2> QED
    BY <1>1, <1>3, <2>1, <2>2 DEF FrameLimits, PromptInv, OneWord
<1> QED
  BY <1>5, <1>6, <1>7, <1>8, <1>9 DEF Events

LEMMA ReadInit == Init => ReadInv
<1> SUFFICES ASSUME Init PROVE ReadInv
  OBVIOUS
<1>1. RxInv
  BY RxInit
<1>2. RingInv
  BY RxPathAssumption, FifoAssumption DEF Init, RingInv, FifoTypeOK, CountMatchesPointers,
                          SlotAt, Slots, Bytes
<1>3. FrameLimits /\ PromptInv
  BY RxPathAssumption, FifoAssumption DEF Init, FrameLimits, PromptInv, OneWord
<1>4. ProgramInv
  <2>1. polled \in BOOLEAN /\ ~polled
    BY Zenon DEF Init
  <2> QED
    BY <2>1 DEF Init, ProgramInv, Cleared, Popped
<1> QED
  BY <1>1, <1>2, <1>3, <1>4 DEF ReadInv

LEMMA ReadStep == ReadInv /\ [Next]_vars => ReadInv'
<1> SUFFICES ASSUME ReadInv, [Next]_vars PROVE ReadInv'
  OBVIOUS
<1>1. CASE UNCHANGED vars
  <2>1. RxInv' /\ RingInv'
    BY <1>1, RxStep, RingUnchanged DEF ReadInv, vars
  <2> QED
    BY <1>1, <2>1 DEF vars, receiver, core, fifo, ReadInv, FrameLimits, ProgramInv,
                      PromptInv, OneWord, Cleared, Popped
<1>2. CASE Rising /\ ~rst
  <2>1. RxInv' /\ RingInv'
    BY <1>2, RxStep, RingUnchanged DEF ReadInv, Next, Rising
  <2> QED
    BY <1>2, <2>1, ProgramRising, FrameRising DEF ReadInv
<1> QED
  BY <1>1, <1>2, ReadFalling, ReadReset DEF Next

\* How much of what was accepted is in the ring and how much the program has.
THEOREM ReadInvariant == Spec => []ReadInv
  BY ReadInit, ReadStep, PTL DEF Spec

\* The registers of receiver, FIFO and core keep their ranges, and the program
\* never loads more bytes than the receiver has put together.
THEOREM RxTypeOK == Spec => []TypeOK
<1>1. ReadInv => TypeOK
  <2> SUFFICES ASSUME ReadInv PROVE TypeOK
    OBVIOUS
  <2>1. Types /\ RingInv /\ FrameLimits /\ ProgramInv /\ PromptInv
    BY DEF ReadInv, RxInv
  <2>2. rx_data \in Bytes /\ assembled \in Bytes /\ accepted \in Bytes
    BY <2>1, RxPathAssumption, FifoAssumption DEF Types, FrameLimits, Bytes
  <2>3. fetched \in 0 .. assembled
    BY <2>1 DEF Types, ProgramInv, Popped
  <2> QED
    BY <2>1, <2>2, <2>3 DEF Types, RingInv, ProgramInv, PromptInv, TypeOK
<1> QED
  BY <1>1, ReadInvariant, PTL

\* A prompt program reads, from the receiver's register, the byte that the FIFO
\* hands out with the same load.
THEOREM ReadsFifoByte == Spec => []ReadsWhatFifoDelivers
<1>1. ReadInv => ReadsWhatFifoDelivers
  BY DEF ReadInv, PromptInv, ReadsWhatFifoDelivers, dout
<1> QED
  BY <1>1, ReadInvariant, PTL

\* While the status announces a byte to a prompt program, the receiver's register
\* holds one.
THEOREM StatusIsByte == Spec => []StatusMeansByte
<1>1. ReadInv => StatusMeansByte
  <2> SUFFICES ASSUME ReadInv, prompt, status_rx PROVE rx_data # 0
    BY DEF StatusMeansByte
  <2>1. cnt > 0 /\ rx_data = assembled /\ accepted = assembled
    BY DEF ReadInv, RxInv, Types, PromptInv, OneWord, status_rx, empty
  <2> QED
    BY <2>1 DEF ReadInv, RxInv, Types, ProgramInv, Popped
<1> QED
  BY <1>1, ReadInvariant, PTL
=============================================================================
