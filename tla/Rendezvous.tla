---------------------------- MODULE Rendezvous ----------------------------
(***************************************************************************)
(* What a barrier promises to n cores that call it again and again: a core *)
(* leaves its i-th call only after every core has entered its own i-th.    *)
(***************************************************************************)
EXTENDS Naturals

VARIABLES n,         \* how many cores meet
          entered,   \* calls a core has begun
          left       \* calls a core has returned from

Init ==
  /\ n \in Nat \ {0}
  /\ entered = [c \in 0 .. (n - 1) |-> 0]
  /\ left = [c \in 0 .. (n - 1) |-> 0]

Enter(c) ==
  /\ entered[c] = left[c]
  /\ entered' = [entered EXCEPT ![c] = @ + 1]
  /\ UNCHANGED <<n, left>>

Leave(c) ==
  /\ left[c] < entered[c]
  /\ \A d \in 0 .. (n - 1) : entered[c] <= entered[d]
  /\ left' = [left EXCEPT ![c] = @ + 1]
  /\ UNCHANGED <<n, entered>>

Next == \E c \in 0 .. (n - 1) : Enter(c) \/ Leave(c)

Spec == Init /\ [][Next]_<<n, entered, left>>
===========================================================================
