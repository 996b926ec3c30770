----------------------------- MODULE FlatMemory -----------------------------
(***************************************************************************)
(* What a test program is promised by its environment: a memory of its     *)
(* own, loaded with its image, that changes only by its own stores, until  *)
(* it makes its exit call or does what no program may.                     *)
(***************************************************************************)
CONSTANTS Pages,     \* the pages a program may use
          Outside,   \* those it may not
          Values     \* what a page may hold

VARIABLES mem,       \* what the program finds in a page
          access,    \* what it is doing
          loaded,    \* what its last load returned
          exited     \* it has ended

vars == <<mem, access, loaded, exited>>

Free == [op |-> "none"]
Accesses == [op : {"load"}, page : Pages \cup Outside]
            \cup [op : {"store"}, page : Pages \cup Outside, value : Values]
            \cup [op : {"ecall", "fssr"}]

Init ==
  /\ mem \in [Pages -> Values]
  /\ access = Free
  /\ loaded \in Values
  /\ exited = FALSE

Issue ==
  /\ access = Free
  /\ access' \in Accesses
  /\ UNCHANGED <<mem, loaded, exited>>

Inside == access.op \in {"load", "store"} /\ access.page \in Pages

Load ==
  /\ ~exited
  /\ access.op = "load" /\ Inside
  /\ loaded' = mem[access.page]
  /\ access' = Free
  /\ UNCHANGED <<mem, exited>>

Store ==
  /\ ~exited
  /\ access.op = "store" /\ Inside
  /\ mem' = [mem EXCEPT ![access.page] = access.value]
  /\ access' = Free
  /\ UNCHANGED <<loaded, exited>>

\* What becomes of the memory of a program that has ended is left open.
Exit ==
  /\ access # Free /\ ~Inside
  /\ exited' = TRUE
  /\ mem' \in [Pages -> Values]
  /\ UNCHANGED <<access, loaded>>

Next == Issue \/ Load \/ Store \/ Exit

Spec == Init /\ [][Next]_vars
=============================================================================
