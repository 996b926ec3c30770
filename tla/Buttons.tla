------------------------------ MODULE Buttons ------------------------------
(***************************************************************************)
(* button_parser, for one of its buttons (the bits share nothing but the   *)
(* sample counter): synchronizer, debouncer and edge detector, clock by    *)
(* clock.  The button's level may change at every clock.  A pulse of "out" *)
(* is what resets the board.                                               *)
(***************************************************************************)
EXTENDS Integers

CONSTANTS SAMPLE_CNT_MAX,      \* a sample every SAMPLE_CNT_MAX + 1 clocks
          PULSE_CNT_MAX,       \* high samples that make a press
          WRAPPING_CNT_WIDTH   \* $clog2(SAMPLE_CNT_MAX)

\* $clog2 gives the counter just the bits to reach SAMPLE_CNT_MAX, unless that
\* is a power of two; z1top's 25000 is none.  Samples are far enough apart for
\* one to get through the registers behind the counter before the next.
ASSUME SampleAssumption ==
  /\ SAMPLE_CNT_MAX \in Nat /\ SAMPLE_CNT_MAX >= 3
  /\ 2^WRAPPING_CNT_WIDTH \in Nat /\ SAMPLE_CNT_MAX < 2^WRAPPING_CNT_WIDTH
ASSUME PulseAssumption == PULSE_CNT_MAX \in Nat \ {0}

VARIABLES
  level,                            \* of the pin
  ff1, ff2,                         \* synchronizer
  wrapping_counter, sample_cnt,     \* debouncer
  saturating_counter, debounced,
  next_state, prev_state, out,      \* edge_detector
  \* History variables.
  low,       \* clocks ff2 has been low, up to a sample period
  since,     \* clocks since ff2 was last low for a sample period, up to HeldFor
  held,      \* "since" at the sample that completed the last count
  ready      \* ff2 was low at a sample after the last pulse

vars == <<level, ff1, ff2, wrapping_counter, sample_cnt, saturating_counter, debounced,
          next_state, prev_state, out, low, since, held, ready>>

Period == SAMPLE_CNT_MAX + 1
HeldFor == (PULSE_CNT_MAX - 1) * Period

Init ==
  /\ level = 0 /\ ff1 = 0 /\ ff2 = 0
  /\ wrapping_counter = 0 /\ sample_cnt = 0
  /\ saturating_counter = 0 /\ debounced = 0
  /\ next_state = 0 /\ prev_state = 0 /\ out = 0
  /\ low = Period /\ since = 0 /\ held = 0 /\ ready = TRUE

---------------------------------------------------------------------------
(* Mutations *)

\* One bit less for the counter.
Wrapped_Narrow(n) == n % 2^(WRAPPING_CNT_WIDTH - 1)

\* A low sample takes one from the count.
Counted_Down(high) ==
  IF high THEN (IF saturating_counter < PULSE_CNT_MAX THEN saturating_counter + 1
                ELSE saturating_counter)
  ELSE IF saturating_counter > 0 THEN saturating_counter - 1 ELSE 0

\* The level instead of its edge.
Rises_Level == next_state = 1

---------------------------------------------------------------------------
Wrapped(n) == n % 2^WRAPPING_CNT_WIDTH

\* The count of high samples, up to PULSE_CNT_MAX.
Counted(high) ==
  IF ~high THEN 0
  ELSE IF saturating_counter < PULSE_CNT_MAX THEN saturating_counter + 1
  ELSE saturating_counter

Rises == next_state = 1 /\ prev_state = 0

synchronizer == ff1' = level /\ ff2' = ff1

debouncer ==
  /\ IF wrapping_counter < SAMPLE_CNT_MAX
     THEN wrapping_counter' = Wrapped(wrapping_counter + 1) /\ sample_cnt' = 0
     ELSE wrapping_counter' = 0 /\ sample_cnt' = 1
  /\ saturating_counter' = IF sample_cnt = 1 THEN Counted(ff2 = 1) ELSE saturating_counter
  /\ debounced' = IF saturating_counter >= PULSE_CNT_MAX THEN 1 ELSE 0

edge_detector ==
  /\ next_state' = debounced
  /\ out' = IF Rises THEN 1 ELSE 0
  /\ prev_state' = next_state

Upto(bound, n) == IF n < bound THEN n ELSE bound

Tick ==
  /\ level' \in {0, 1}
  /\ synchronizer
  /\ debouncer
  /\ edge_detector
  /\ low' = IF ff2 = 0 THEN Upto(Period, low + 1) ELSE 0
  /\ since' = IF low' = Period THEN 0 ELSE Upto(HeldFor, since + 1)
  /\ held' = IF saturating_counter < PULSE_CNT_MAX /\ saturating_counter' = PULSE_CNT_MAX
             THEN since' ELSE held
  /\ ready' = ((sample_cnt = 1 /\ ff2 = 0) \/ (ready /\ out = 0))

Spec == Init /\ [][Tick]_vars /\ WF_vars(Tick)

---------------------------------------------------------------------------
(* Properties *)

\* A bouncing contact gives one pulse: before each the button was seen
\* released after the pulse before.
OnePulsePerPress == out = 1 => ready

\* Noise gives none: a pulse ends a time in which the pin was not low for as
\* long as a sample period, though shorter gaps between two samples go unseen.
PulseMeansHeld == out = 1 => held = HeldFor

\* A button that is held resets the board: the sample counter does come round,
\* and the count reaches its limit.
PressDetected == (level = 1 /\ ready) ~> (out = 1 \/ level = 0)
============================================================================
