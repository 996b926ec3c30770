--------------------------- MODULE ButtonsProofs ---------------------------
(***************************************************************************)
(* For every sampling period and press length, the 25001 clocks and 200    *)
(* samples of z1top among them: one pulse for a press and none for noise.  *)
(*                                                                         *)
(* The argument is by the sample counter.  A sample is in the saturating   *)
(* counter when wrapping_counter is 1, in "debounced" at 2 and in          *)
(* next_state at 3; the two registers of the edge detector differ at 3     *)
(* only.                                                                   *)
(***************************************************************************)
EXTENDS Buttons, TLAPS

Types ==
  /\ level \in {0, 1} /\ ff1 \in {0, 1} /\ ff2 \in {0, 1}
  /\ wrapping_counter \in 0 .. SAMPLE_CNT_MAX /\ sample_cnt \in {0, 1}
  /\ saturating_counter \in 0 .. PULSE_CNT_MAX /\ debounced \in {0, 1}
  /\ next_state \in {0, 1} /\ prev_state \in {0, 1} /\ out \in {0, 1}
  /\ low \in 0 .. Period /\ since \in 0 .. HeldFor /\ held \in 0 .. HeldFor
  /\ ready \in BOOLEAN

\* Whether the counter has its limit, as debouncer puts it.
Full == IF saturating_counter >= PULSE_CNT_MAX THEN 1 ELSE 0

\* Where a sample is in the chain of registers.
Chain ==
  /\ sample_cnt = 1 => wrapping_counter = 0
  /\ wrapping_counter = 1 => debounced = next_state
  /\ wrapping_counter # 1 => debounced = Full
  /\ wrapping_counter \notin {1, 2} => next_state = debounced
  /\ wrapping_counter # 3 => prev_state = next_state
  /\ out = 1 => Full = 1 /\ debounced = 1 /\ next_state = 1 /\ prev_state = 1

\* After a pulse all registers stay up until a low sample.
Held ==
  ~ready => /\ Full = 1 /\ debounced = 1 /\ next_state = 1 /\ prev_state = 1
            /\ out = 0

\* Clocks since the last sample, and since the first one of the current count.
Elapsed == IF wrapping_counter = 0 THEN Period ELSE wrapping_counter
Counting == (saturating_counter - 1) * Period + Elapsed

History ==
  /\ wrapping_counter = 0 /\ sample_cnt = 0 => saturating_counter = 0
  /\ saturating_counter > 0 => low < Elapsed /\ (since = HeldFor \/ since >= Counting)
  /\ saturating_counter = PULSE_CNT_MAX => held = HeldFor

ButtonInv == Types /\ Chain /\ Held /\ History

-----------------------------------------------------------------------------
LEMMA PeriodFacts == Period \in Nat /\ Period >= 4 /\ HeldFor \in Nat
<1>1. Period \in Nat /\ Period >= 4
  BY SampleAssumption DEF Period
<1>2. PULSE_CNT_MAX - 1 \in Nat
  BY PulseAssumption
<1> QED
  BY <1>1, <1>2 DEF HeldFor

LEMMA NoWrap ==
    ASSUME wrapping_counter \in 0 .. SAMPLE_CNT_MAX, wrapping_counter < SAMPLE_CNT_MAX
    PROVE  Wrapped(wrapping_counter + 1) = wrapping_counter + 1
  BY SampleAssumption DEF Wrapped

LEMMA ButtonInit == Init => ButtonInv
<1> SUFFICES ASSUME Init PROVE ButtonInv
  OBVIOUS
<1> USE PeriodFacts, PulseAssumption, SampleAssumption
<1>1. Types
  BY DEF Init, Types
<1>2. Chain /\ Held /\ History
  BY DEF Init, Chain, Held, History, Full
<1> QED
  BY <1>1, <1>2 DEF ButtonInv

LEMMA CounterStep ==
    ASSUME Types, Tick
    PROVE  \/ /\ wrapping_counter < SAMPLE_CNT_MAX
              /\ wrapping_counter' = wrapping_counter + 1 /\ sample_cnt' = 0
           \/ /\ wrapping_counter = SAMPLE_CNT_MAX
              /\ wrapping_counter' = 0 /\ sample_cnt' = 1
  BY NoWrap, SampleAssumption DEF Types, Tick, debouncer

LEMMA TypesStep == ASSUME Types, Tick PROVE Types'
<1> USE PeriodFacts, PulseAssumption, SampleAssumption
<1>1. wrapping_counter' \in 0 .. SAMPLE_CNT_MAX /\ sample_cnt' \in {0, 1}
  BY CounterStep DEF Types
<1>2. saturating_counter' \in 0 .. PULSE_CNT_MAX /\ debounced' \in {0, 1}
  BY DEF Types, Tick, debouncer, Counted
<1>3. low' \in 0 .. Period /\ since' \in 0 .. HeldFor
  BY DEF Types, Tick, Upto
<1>4. held' \in 0 .. HeldFor
  BY <1>3 DEF Types, Tick
<1>5. level' \in {0, 1} /\ ff1' \in {0, 1} /\ ff2' \in {0, 1}
  BY DEF Types, Tick, synchronizer
<1>6. next_state' \in {0, 1} /\ prev_state' \in {0, 1} /\ out' \in {0, 1}
  BY DEF Types, Tick, edge_detector
<1>7. ready' \in BOOLEAN
  BY DEF Types, Tick
<1> QED
  BY <1>1, <1>2, <1>3, <1>4, <1>5, <1>6, <1>7 DEF Types

\* The counter changes between 0 and 1 only.
LEMMA CountKept ==
    ASSUME Types, Chain, Tick, wrapping_counter # 0
    PROVE  saturating_counter' = saturating_counter /\ Full' = Full
  BY DEF Types, Chain, Tick, debouncer, Full

LEMMA ChainStep == ASSUME Types, Chain, Tick PROVE Chain'
<1> USE SampleAssumption DEF Types
<1>1. debounced' = Full /\ next_state' = debounced /\ prev_state' = next_state
  BY DEF Tick, debouncer, edge_detector, Full
<1>2. out' = 1 => wrapping_counter = 3 /\ Full = 1 /\ debounced = 1 /\ next_state = 1
  BY DEF Tick, edge_detector, Rises, Chain
<1>3. CASE wrapping_counter = 0
  BY <1>1, <1>2, <1>3, CounterStep DEF Chain
<1>4. CASE wrapping_counter # 0
  BY <1>1, <1>2, <1>4, CounterStep, CountKept DEF Chain
<1> QED
  BY <1>3, <1>4

LEMMA HeldStep == ASSUME Types, Chain, Held, Tick PROVE Held'
<1> SUFFICES ASSUME ~ready' PROVE Full' = 1 /\ debounced' = 1 /\ next_state' = 1
                                  /\ prev_state' = 1 /\ out' = 0
  BY DEF Held
<1>1. ~(sample_cnt = 1 /\ ff2 = 0) /\ (~ready \/ out = 1)
  BY DEF Tick, Types
<1>2. Full = 1 /\ debounced = 1 /\ next_state = 1 /\ prev_state = 1
  BY <1>1 DEF Chain, Held, Types
<1>3. Full' = 1
  BY <1>1, <1>2, PulseAssumption DEF Full, Types, Tick, debouncer, Counted
<1> QED
  BY <1>2, <1>3 DEF Tick, debouncer, edge_detector, Rises, Full, Types

-----------------------------------------------------------------------------
(* How long the button has been held.                                      *)

\* Another sample adds a period.
LEMMA AnotherPeriod ==
    ASSUME NEW k \in Nat
    PROVE  k * Period \in Nat /\ (k - 1) * Period + Period = k * Period
  BY PeriodFacts

LEMMA HistoryStep == ASSUME Types, Chain, History, Tick PROVE History'
<1> USE PeriodFacts, PulseAssumption, SampleAssumption
<1>1. wrapping_counter' = 0 => sample_cnt' = 1
  BY CounterStep DEF Types
<1>2. saturating_counter' > 0 =>
        /\ low' < Elapsed'
        /\ since' = HeldFor \/ since' >= Counting'
  <2> SUFFICES ASSUME saturating_counter' > 0
               PROVE  low' < Elapsed' /\ (since' = HeldFor \/ since' >= Counting')
    OBVIOUS
  <2>1. CASE sample_cnt = 1
    <3>1. wrapping_counter = 0 /\ wrapping_counter' = 1 /\ Elapsed' = 1 /\ Elapsed = Period
      BY <2>1, CounterStep DEF Chain, Types, Elapsed
    <3>2. ff2 # 0 /\ low' = 0
      BY <2>1 DEF Tick, debouncer, Counted, Types
    <3>3. since' = Upto(HeldFor, since + 1)
      BY <3>2 DEF Tick
    <3>4. /\ saturating_counter' = saturating_counter \/ saturating_counter' = saturating_counter + 1
          /\ saturating_counter' = saturating_counter => saturating_counter = PULSE_CNT_MAX
      BY <2>1, <3>2 DEF Tick, debouncer, Counted, Types
    <3>5. CASE saturating_counter = 0
      BY <3>1, <3>2, <3>3, <3>4, <3>5 DEF Counting, Upto, Types
    <3>6. CASE saturating_counter > 0
      <4>1. since = HeldFor \/ since >= saturating_counter * Period
        BY <3>1, <3>6, AnotherPeriod DEF History, Counting, Types
      <4>2. Counting' <= saturating_counter * Period + 1
        BY <3>1, <3>4, <3>6, AnotherPeriod DEF Counting, Types
      <4>3. saturating_counter * Period \in Nat /\ Counting' \in Int
        BY <3>1, AnotherPeriod, TypesStep DEF Counting, Types
      <4> QED
        BY <3>1, <3>2, <3>3, <4>1, <4>2, <4>3 DEF Upto, Types
    <3> QED
      BY <3>5, <3>6 DEF Types
  <2>2. CASE sample_cnt # 1
    <3>1. saturating_counter' = saturating_counter
      BY <2>2 DEF Tick, debouncer
    <3>2. wrapping_counter # 0 /\ low < Elapsed /\ (since = HeldFor \/ since >= Counting)
      BY <2>2, <3>1 DEF History, Types
    <3>3. Elapsed' = Elapsed + 1 /\ Elapsed' <= Period /\ Elapsed \in Nat
      <4>1. wrapping_counter \in 1 .. SAMPLE_CNT_MAX /\ Elapsed = wrapping_counter
        BY <3>2 DEF Types, Elapsed
      <4>2. CASE wrapping_counter < SAMPLE_CNT_MAX
        <5>1. wrapping_counter' = wrapping_counter + 1
          BY <4>2, CounterStep
        <5>2. Elapsed' = wrapping_counter + 1
          BY <4>1, <5>1 DEF Elapsed
        <5> QED
          BY <4>1, <4>2, <5>2 DEF Period
      <4>3. CASE wrapping_counter = SAMPLE_CNT_MAX
        <5>1. Elapsed' = Period
          BY <4>3, CounterStep DEF Elapsed, Period
        <5> QED
          BY <4>1, <4>3, <5>1 DEF Period
      <4> QED
        BY <4>1, <4>2, <4>3
    <3>4. low' < Elapsed'
      BY <3>2, <3>3 DEF Tick, Upto, Types
    <3>5. since' = Upto(HeldFor, since + 1)
      BY <3>3, <3>4, TypesStep DEF Tick, Types
    <3>6. Counting' = Counting + 1 /\ Counting \in Int
      BY <3>1, <3>3 DEF Counting, Types
    <3> QED
      BY <3>2, <3>4, <3>5, <3>6 DEF Upto, Types
  <2> QED
    BY <2>1, <2>2
<1>3. saturating_counter' = PULSE_CNT_MAX => held' = HeldFor
  <2> SUFFICES ASSUME saturating_counter' = PULSE_CNT_MAX PROVE held' = HeldFor
    OBVIOUS
  <2>1. CASE saturating_counter = PULSE_CNT_MAX
    BY <2>1 DEF History, Tick
  <2>2. CASE saturating_counter < PULSE_CNT_MAX
    <3>1. held' = since'
      BY <2>2 DEF Tick
    <3>2. Counting' = HeldFor + Elapsed' /\ Elapsed' \in Nat /\ HeldFor \in Nat
      BY TypesStep DEF Counting, HeldFor, Elapsed, Types
    <3> QED
      BY <1>2, <3>1, <3>2, TypesStep DEF Types
  <2> QED
    BY <2>1, <2>2 DEF Types
<1>4. saturating_counter' = 0 \/ wrapping_counter' # 0 \/ sample_cnt' # 0
  BY <1>1
<1> QED
  BY <1>2, <1>3, <1>4 DEF History

-----------------------------------------------------------------------------
LEMMA ButtonStep == ButtonInv /\ [Tick]_vars => ButtonInv'
<1> SUFFICES ASSUME ButtonInv, [Tick]_vars PROVE ButtonInv'
  OBVIOUS
<1>1. CASE Tick
  BY <1>1, TypesStep, ChainStep, HeldStep, HistoryStep DEF ButtonInv
<1>2. CASE UNCHANGED vars
  BY <1>2 DEF vars, ButtonInv, Types, Chain, Held, History, Full, Elapsed, Counting
<1> QED
  BY <1>1, <1>2

\* The invariant of the button chain.
THEOREM ButtonInvariant == Spec => []ButtonInv
  BY ButtonInit, ButtonStep, PTL DEF Spec

\* A bouncing contact resets the board once.
THEOREM OnePulse == Spec => []OnePulsePerPress
<1>1. ButtonInv => OnePulsePerPress
  BY DEF ButtonInv, Held, OnePulsePerPress, Types
<1> QED
  BY <1>1, ButtonInvariant, PTL

\* No noise, however dense, resets the board unless the pin was held as long as
\* PULSE_CNT_MAX samples take, but for gaps that fall between two samples.
THEOREM PulseOnlyIfHeld == Spec => []PulseMeansHeld
<1>1. ButtonInv => PulseMeansHeld
  BY PulseAssumption DEF ButtonInv, Chain, History, Full, PulseMeansHeld, Types
<1> QED
  BY <1>1, ButtonInvariant, PTL
=============================================================================
