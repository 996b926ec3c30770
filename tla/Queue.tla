------------------------------- MODULE Queue -------------------------------
(***************************************************************************)
(* What a bounded first-in first-out queue with a registered output        *)
(* promises: values come out in the order they went in, none is lost once  *)
(* accepted, and a full queue refuses a value rather than overwrite one.   *)
(***************************************************************************)
EXTENDS Naturals, Sequences

CONSTANTS Capacity, Data

VARIABLES
    items,   \* the values accepted and not yet taken, oldest first
    out      \* the value taken last

vars == <<items, out>>

Put(v) ==
    /\ Len(items) < Capacity
    /\ items' = Append(items, v)
    /\ UNCHANGED out

Get ==
    /\ items # <<>>
    /\ out' = Head(items)
    /\ items' = Tail(items)

PutGet(v) ==
    /\ Len(items) \in 1 .. Capacity - 1
    /\ out' = Head(items)
    /\ items' = Append(Tail(items), v)

Clear ==
    /\ items' = <<>>
    /\ UNCHANGED out

Init == items = <<>> /\ out \in Data

Next == Get \/ Clear \/ \E v \in Data : Put(v) \/ PutGet(v)

Spec == Init /\ [][Next]_vars
=============================================================================
