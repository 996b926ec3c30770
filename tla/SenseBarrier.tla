--------------------------- MODULE SenseBarrier ---------------------------
(***************************************************************************)
(* barrier(ncores) of benchmarks/common/util.h, the sense-reversing        *)
(* barrier the multi-threaded tests synchronise with.  "sense" and "count" *)
(* are static, "threadsense" is thread-local; all three start at 0.        *)
(*                                                                         *)
(* A core alternates between its own work (pc "work") and the barrier.     *)
(* Flipping threadsense is local, so it is one step with the atomic        *)
(* __sync_fetch_and_add that follows; the two stores of the last core,     *)
(* count = 0 and sense = threadsense, are two steps, and the others see    *)
(* "sense" change at any time after.                                       *)
(***************************************************************************)
EXTENDS Naturals

VARIABLES ncores,       \* the argument every core passes
          count, sense, threadsense,
          pc,           \* "work" outside the barrier, else where inside it
          item          \* the piece of work a core is at: 1 + barriers passed

barrierVars == <<ncores, count, sense, threadsense, pc, item>>

Cores == 0 .. (ncores - 1)

BarrierInit ==
  /\ ncores \in Nat \ {0}
  /\ count = 0
  /\ sense = 0
  /\ threadsense = [c \in Cores |-> 0]
  /\ pc = [c \in Cores |-> "work"]
  /\ item = [c \in Cores |-> 1]

---------------------------------------------------------------------------
(* Mutations *)

Reset_KeepsCount(c) ==
  /\ pc[c] = "reset"
  /\ pc' = [pc EXCEPT ![c] = "release"]
  /\ UNCHANGED <<ncores, count, sense, threadsense, item>>

Spin_NoWait(c) ==
  /\ pc[c] = "spin"
  /\ pc' = [pc EXCEPT ![c] = "work"]
  /\ item' = [item EXCEPT ![c] = @ + 1]
  /\ UNCHANGED <<ncores, count, sense, threadsense>>

Release_NoSense(c) ==
  /\ pc[c] = "release"
  /\ pc' = [pc EXCEPT ![c] = "work"]
  /\ item' = [item EXCEPT ![c] = @ + 1]
  /\ UNCHANGED <<ncores, count, sense, threadsense>>

---------------------------------------------------------------------------
\* threadsense = !threadsense; __sync_fetch_and_add(&count, 1) == ncores-1 ?
Arrive(c) ==
  /\ pc[c] = "work"
  /\ threadsense' = [threadsense EXCEPT ![c] = 1 - @]
  /\ count' = count + 1
  /\ pc' = [pc EXCEPT ![c] = IF count = ncores - 1 THEN "reset" ELSE "spin"]
  /\ UNCHANGED <<ncores, sense, item>>

\* count = 0;
Reset(c) ==
  /\ pc[c] = "reset"
  /\ count' = 0
  /\ pc' = [pc EXCEPT ![c] = "release"]
  /\ UNCHANGED <<ncores, sense, threadsense, item>>

\* sense = threadsense;
Release(c) ==
  /\ pc[c] = "release"
  /\ sense' = threadsense[c]
  /\ pc' = [pc EXCEPT ![c] = "work"]
  /\ item' = [item EXCEPT ![c] = @ + 1]
  /\ UNCHANGED <<ncores, count, threadsense>>

\* while(sense != threadsense) ;
Spin(c) ==
  /\ pc[c] = "spin"
  /\ sense = threadsense[c]
  /\ pc' = [pc EXCEPT ![c] = "work"]
  /\ item' = [item EXCEPT ![c] = @ + 1]
  /\ UNCHANGED <<ncores, count, sense, threadsense>>

InBarrier(c) == Reset(c) \/ Release(c) \/ Spin(c)

BarrierNext == \E c \in Cores : Arrive(c) \/ InBarrier(c)

---------------------------------------------------------------------------
BarrierTypeOK ==
  /\ ncores \in Nat \ {0}
  /\ count \in 0 .. ncores
  /\ sense \in {0, 1}
  /\ threadsense \in [Cores -> {0, 1}]
  /\ pc \in [Cores -> {"work", "spin", "reset", "release"}]
  /\ item \in [Cores -> Nat \ {0}]

\* What the rendezvous sees: a call is entered by Arrive and left when the
\* core is back at its work.
Meeting == INSTANCE Rendezvous WITH
  n <- ncores,
  entered <- [c \in Cores |-> IF pc[c] = "work" THEN item[c] - 1 ELSE item[c]],
  left <- [c \in Cores |-> item[c] - 1]

\* The barrier is a rendezvous: no core gets past a call of barrier() that
\* some other core has yet to enter, however the cores' steps interleave and
\* however soon a core calls it again.
ImplementsRendezvous == Meeting!Spec
===========================================================================
