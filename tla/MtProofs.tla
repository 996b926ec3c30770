------------------------------ MODULE MtProofs ------------------------------
(***************************************************************************)
(* The multi-threaded tests, for every number of cores, every lda and      *)
(* every number of elements.                                               *)
(*                                                                         *)
(* The sense-reversing barrier is a rendezvous of its callers, and remains *)
(* one under thread_entry.  So all cores that work are at the same item of *)
(* their programs, and all others have been through the items before it:   *)
(* whether a test has a race, reads a scratch array too early or fails its *)
(* check is a question about the kernels' plans, item by item.  The rest   *)
(* of the module answers it for the kernels, by how they divide the work:  *)
(* in blocks of rows or columns, dealt out one at a time or in groups, or  *)
(* between core 0 and core 1.                                              *)
(***************************************************************************)
EXTENDS Mt, FiniteSetTheorems, SequenceTheorems, WellFoundedInduction, TLAPS

-----------------------------------------------------------------------------
(* The barrier                                                             *)
(*                                                                         *)
(* The invariant has two cases.  While the cores gather, count is the      *)
(* number of those that wait with their sense reversed, and all cores are  *)
(* in the same round, where one that has been released and still spins     *)
(* counts as through.  When they have met, the last one to arrive is       *)
(* between its two stores and every other one waits for it.                *)

BarrierSpec == BarrierInit /\ [][BarrierNext]_barrierVars

\* The cores in the barrier that wait for sense to change.
Waiting == {c \in Cores : pc[c] = "spin" /\ threadsense[c] # sense}

\* The piece of work a core is at, or will be at without waiting again.
Round(c) == IF pc[c] = "spin" /\ threadsense[c] = sense THEN item[c] + 1 ELSE item[c]

Gathering ==
  /\ \A c \in Cores : pc[c] \in {"work", "spin"}
  /\ \A c \in Cores : pc[c] = "work" => threadsense[c] = sense
  /\ count = Cardinality(Waiting)
  /\ count < ncores
  /\ \A c, d \in Cores : Round(c) = Round(d)

Met ==
  \E last \in Cores :
    /\ \/ pc[last] = "reset" /\ count = ncores
       \/ pc[last] = "release" /\ count = 0
    /\ \A c \in Cores : /\ threadsense[c] # sense
                        /\ c # last => pc[c] = "spin"
                        /\ item[c] = item[last]

BInv == BarrierTypeOK /\ (Gathering \/ Met)

\* The cores can be counted.
LEMMA CoresFinite ==
    ASSUME ncores \in Nat \ {0}
    PROVE  IsFiniteSet(Cores) /\ Cardinality(Cores) = ncores
  BY FS_Interval DEF Cores

\* All cores start in front of their first barrier.
LEMMA BarrierInitInvariant == BarrierInit => BInv
<1> SUFFICES ASSUME BarrierInit PROVE BInv
  OBVIOUS
<1>1. BarrierTypeOK
  BY DEF BarrierInit, BarrierTypeOK
<1>2. Waiting = {}
  BY DEF BarrierInit, Waiting
<1>3. Gathering
  BY <1>2, FS_EmptySet DEF BarrierInit, Gathering, Round
<1> QED
  BY <1>1, <1>3 DEF BInv

\* Who arrives reverses its sense and counts itself; the last one finds all
\* others in.
LEMMA ArriveInvariant ==
    ASSUME BInv, NEW c \in Cores, Arrive(c)
    PROVE  BInv'
<1> USE DEF BInv
<1>1. Gathering
  BY DEF Met, Arrive, BarrierTypeOK
<1>2. c \notin Waiting /\ Waiting \subseteq Cores /\ threadsense[c] = sense
  BY <1>1 DEF Arrive, Waiting, Gathering
<1>3. IsFiniteSet(Waiting) /\ Cardinality(Waiting) \in Nat
  BY <1>2, CoresFinite, FS_Subset, FS_CardinalityType DEF BarrierTypeOK
<1>4. Cores' = Cores /\ BarrierTypeOK'
  BY <1>1, SMTT(30) DEF Arrive, BarrierTypeOK, Cores, Gathering
<1>5. threadsense'[c] # sense'
  BY <1>2 DEF Arrive, BarrierTypeOK
<1>6. CASE count = ncores - 1
  <2>1. Waiting = Cores \ {c}
    <3>1. IsFiniteSet(Cores \ {c}) /\ Cardinality(Cores \ {c}) = ncores - 1
      BY CoresFinite, FS_RemoveElement DEF BarrierTypeOK
    <3> QED
      BY <1>1, <1>2, <1>6, <3>1, FS_Subset DEF Gathering
  <2>2. \A d \in Cores : threadsense'[d] # sense' /\ item'[d] = item'[c]
                         /\ (d # c => pc'[d] = "spin")
    BY <1>1, <1>5, <2>1 DEF Arrive, Waiting, Gathering, Round, BarrierTypeOK
  <2>3. pc'[c] = "reset" /\ count' = ncores'
    BY <1>6 DEF Arrive, BarrierTypeOK
  <2>4. Met'
    BY <1>4, <2>2, <2>3 DEF Met
  <2> QED
    BY <1>4, <2>4
<1>7. CASE count # ncores - 1
  <2>1. Waiting' = Waiting \cup {c}
    BY <1>4, <1>5, <1>7 DEF Arrive, Waiting, BarrierTypeOK
  <2>2. count' = Cardinality(Waiting') /\ count' < ncores'
    <3>1. Cardinality(Waiting \cup {c}) = Cardinality(Waiting) + 1
      BY <1>2, <1>3, FS_AddElement
    <3>2. count = Cardinality(Waiting) /\ count + 1 < ncores
      BY <1>1, <1>3, <1>7 DEF Gathering, BarrierTypeOK
    <3> QED
      BY <2>1, <3>1, <3>2 DEF Arrive
  <2>3. \A d \in Cores : Round(d)' = Round(d)
    BY <1>2, <1>5, <1>7 DEF Round, Arrive, BarrierTypeOK
  <2>4. \A d \in Cores : /\ pc'[d] \in {"work", "spin"}
                         /\ pc'[d] = "work" => threadsense'[d] = sense'
    BY <1>1, <1>7 DEF Arrive, Gathering, BarrierTypeOK
  <2> QED
    BY <1>1, <1>4, <2>2, <2>3, <2>4 DEF Gathering
<1> QED
  BY <1>6, <1>7

\* count = 0, while all others wait.
LEMMA ResetInvariant ==
    ASSUME BInv, NEW c \in Cores, Reset(c)
    PROVE  BInv'
<1>1. Cores' = Cores /\ BarrierTypeOK'
  BY DEF BInv, Reset, BarrierTypeOK, Cores
<1>2. Met
  BY DEF BInv, Reset, Gathering
<1>3. \A d \in Cores : /\ threadsense'[d] # sense'
                       /\ d # c => pc'[d] = "spin"
                       /\ item'[d] = item'[c]
  BY <1>2 DEF BInv, Met, Reset, BarrierTypeOK
<1>4. pc'[c] = "release" /\ count' = 0
  BY DEF BInv, Reset, BarrierTypeOK
<1> QED
  BY <1>1, <1>3, <1>4 DEF BInv, Met

\* sense = threadsense lets all others through.
LEMMA ReleaseInvariant ==
    ASSUME BInv, NEW c \in Cores, Release(c)
    PROVE  BInv'
<1>1. Cores' = Cores /\ BarrierTypeOK'
  BY DEF BInv, Release, BarrierTypeOK, Cores
<1>2. /\ count = 0
      /\ \A d \in Cores : /\ threadsense[d] # sense
                          /\ d # c => pc[d] = "spin"
                          /\ item[d] = item[c]
  BY DEF BInv, Release, Gathering, Met
<1>3. \A d \in Cores : threadsense'[d] = sense'
  BY <1>2 DEF BInv, Release, BarrierTypeOK
<1>4. Waiting' = {}
  BY <1>1, <1>3 DEF Waiting
<1>5. \A d \in Cores : Round(d)' = item[c] + 1
  BY <1>1, <1>2, <1>3 DEF Round, BInv, Release, BarrierTypeOK
<1>6. \A d \in Cores : pc'[d] \in {"work", "spin"}
  BY <1>2 DEF BInv, Release, BarrierTypeOK
<1>7. count' = Cardinality(Waiting') /\ count' < ncores'
  BY <1>2, <1>4, FS_EmptySet DEF BInv, Release, BarrierTypeOK
<1> QED
  BY <1>1, <1>3, <1>5, <1>6, <1>7 DEF BInv, Gathering

\* Who sees its sense goes on.
LEMMA SpinInvariant ==
    ASSUME BInv, NEW c \in Cores, Spin(c)
    PROVE  BInv'
<1>1. Cores' = Cores /\ BarrierTypeOK'
  BY DEF BInv, Spin, BarrierTypeOK, Cores
<1>2. Gathering
  BY DEF BInv, Spin, Met
<1>3. Waiting' = Waiting
  BY <1>1 DEF Waiting, BInv, Spin, BarrierTypeOK
<1>4. \A d \in Cores : Round(d)' = Round(d)
  BY DEF Round, BInv, Spin, BarrierTypeOK
<1>5. \A d \in Cores : /\ pc'[d] \in {"work", "spin"}
                       /\ pc'[d] = "work" => threadsense'[d] = sense'
  BY <1>2 DEF Spin, Gathering, BInv, BarrierTypeOK
<1> QED
  BY <1>1, <1>2, <1>3, <1>4, <1>5 DEF BInv, Gathering, Spin

\* Each step of a core keeps the invariant.
LEMMA BarrierStepInvariant == BInv /\ [BarrierNext]_barrierVars => BInv'
<1> SUFFICES ASSUME BInv, [BarrierNext]_barrierVars PROVE BInv'
  OBVIOUS
<1>1. CASE UNCHANGED barrierVars
  <2>1. Cores' = Cores /\ Waiting' = Waiting /\ (\A c : Round(c)' = Round(c))
    BY <1>1 DEF barrierVars, Cores, Waiting, Round
  <2> QED
    BY <1>1, <2>1 DEF barrierVars, BInv, BarrierTypeOK, Gathering, Met
<1>2. ASSUME NEW c \in Cores, Arrive(c) \/ InBarrier(c) PROVE BInv'
  BY <1>2, ArriveInvariant, ResetInvariant, ReleaseInvariant, SpinInvariant DEF InBarrier
<1> QED
  BY <1>1, <1>2 DEF BarrierNext

\* The invariant holds for every number of cores and however their steps
\* interleave.
THEOREM BarrierInvariant == BarrierSpec => []BInv
  BY BarrierInitInvariant, BarrierStepInvariant, PTL DEF BarrierSpec

(* The rendezvous.                                                         *)

entered == [c \in Cores |-> IF pc[c] = "work" THEN item[c] - 1 ELSE item[c]]
left    == [c \in Cores |-> item[c] - 1]

\* Before the first barrier nobody has entered or left one.
LEMMA BarrierInitRefines == BarrierInit => Meeting!Init
  BY DEF BarrierInit, Meeting!Init, Cores

\* To arrive is to enter.
LEMMA ArriveEnters ==
    ASSUME BarrierTypeOK, NEW c \in Cores, Arrive(c)
    PROVE  Meeting!Enter(c)
<1>1. Cores' = Cores /\ UNCHANGED item
  BY DEF Arrive, Cores
<1>2. /\ pc[c] = "work" /\ pc'[c] # "work"
      /\ \A d \in Cores \ {c} : pc'[d] = pc[d]
  BY DEF BarrierTypeOK, Arrive
<1>3. entered' = [entered EXCEPT ![c] = @ + 1]
  <2>1. entered' = [d \in Cores |-> IF pc'[d] = "work" THEN item[d] - 1 ELSE item[d]]
    BY <1>1 DEF entered
  <2>2. \A d \in Cores : entered'[d] = [entered EXCEPT ![c] = @ + 1][d]
    BY <1>2, <2>1 DEF BarrierTypeOK, entered
  <2> QED
    BY <2>1, <2>2 DEF entered
<1> QED
  BY <1>1, <1>2, <1>3 DEF BarrierTypeOK, Arrive, Meeting!Enter, entered, left

\* Whoever goes on has met all others.
LEMMA GoesOnLeaves ==
    ASSUME BInv, NEW c \in Cores, Release(c) \/ Spin(c)
    PROVE  Meeting!Leave(c)
<1>1. \A d \in Cores : item[c] <= IF pc[d] = "work" THEN item[d] - 1 ELSE item[d]
  <2>1. CASE Release(c)
    BY <2>1 DEF BInv, BarrierTypeOK, Release, Gathering, Met
  <2>2. CASE Spin(c)
    <3>1. Gathering /\ Round(c) = item[c] + 1
      BY <2>2 DEF BInv, Spin, Met, Round
    <3> QED
      BY <3>1 DEF Gathering, Round, BInv, BarrierTypeOK
  <2> QED
    BY <2>1, <2>2
<1>2. Cores' = Cores /\ UNCHANGED ncores /\ item[c] \in Nat
  BY DEF BInv, BarrierTypeOK, Release, Spin, Cores
<1>3. /\ pc[c] # "work" /\ pc'[c] = "work" /\ item'[c] = item[c] + 1
      /\ \A d \in Cores \ {c} : pc'[d] = pc[d] /\ item'[d] = item[d]
  BY DEF BInv, BarrierTypeOK, Release, Spin
<1>4. entered' = entered
  BY <1>2, <1>3 DEF BInv, BarrierTypeOK, entered
<1>5. left' = [left EXCEPT ![c] = @ + 1]
  <2>1. left' = [d \in Cores |-> item'[d] - 1]
    BY <1>2 DEF left
  <2>2. \A d \in Cores : left'[d] = [left EXCEPT ![c] = @ + 1][d]
    BY <1>2, <1>3, <2>1 DEF left
  <2> QED
    BY <2>1, <2>2 DEF left
<1>6. left[c] < entered[c] /\ \A d \in 0 .. (ncores - 1) : entered[c] <= entered[d]
  BY <1>1, <1>2, <1>3 DEF entered, left, Cores
<1> QED
  BY <1>2, <1>4, <1>5, <1>6 DEF Meeting!Leave, entered, left

\* A step of a core is one of the rendezvous, or none.
LEMMA BarrierStepRefines ==
    ASSUME BInv, [BarrierNext]_barrierVars
    PROVE  [Meeting!Next]_<<ncores, entered, left>>
<1>1. CASE UNCHANGED barrierVars
  <2>1. Cores' = Cores
    BY <1>1 DEF barrierVars, Cores
  <2> QED
    BY <1>1, <2>1 DEF barrierVars, entered, left
<1>2. ASSUME NEW c \in Cores, Arrive(c) PROVE Meeting!Next
  BY <1>2, ArriveEnters DEF Meeting!Next, BInv, Cores
<1>3. ASSUME NEW c \in Cores, Release(c) \/ Spin(c) PROVE Meeting!Next
  BY <1>3, GoesOnLeaves DEF Meeting!Next, Cores
<1>4. ASSUME NEW c \in Cores, Reset(c) PROVE UNCHANGED <<ncores, entered, left>>
  <2>1. Cores' = Cores /\ UNCHANGED <<ncores, item>>
    BY <1>4 DEF Reset, Cores
  <2>2. \A d \in Cores : pc'[d] = "work" <=> pc[d] = "work"
    BY <1>4 DEF Reset, BInv, BarrierTypeOK
  <2> QED
    BY <2>1, <2>2 DEF entered, left
<1> QED
  BY <1>1, <1>2, <1>3, <1>4 DEF BarrierNext, InBarrier

\* barrier() of util.h is a rendezvous of its callers, for every number of
\* cores and every interleaving: no core gets past a call that another has
\* yet to enter, however soon it calls again.
THEOREM BarrierImplementsRendezvous == BarrierSpec => ImplementsRendezvous
<1>1. BarrierSpec => []BInv
  BY BarrierInvariant
<1>2. BarrierInit => Meeting!Init
  BY BarrierInitRefines
<1>3. BInv /\ [BarrierNext]_barrierVars => [Meeting!Next]_<<ncores, entered, left>>
  BY BarrierStepRefines
<1> QED
  BY <1>1, <1>2, <1>3, PTL
     DEF BarrierSpec, ImplementsRendezvous, Meeting!Spec, entered, left

-----------------------------------------------------------------------------
(* Plans                                                                   *)

\* A plan is a sequence, of whatever length.
IsPlan(p) == \E m \in Nat : p = [i \in 1 .. m |-> p[i]]

\* What a plan is made of, for the library theorems on sequences.
LEMMA PlanLength ==
  ASSUME NEW p, IsPlan(p)
  PROVE  p \in Seq({p[i] : i \in DOMAIN p}) /\ Len(p) \in Nat /\ DOMAIN p = 1 .. Len(p)
<1>1. PICK m \in Nat : p = [i \in 1 .. m |-> p[i]]
  BY DEF IsPlan
<1>2. DOMAIN p = 1 .. m
  BY <1>1
<1>3. p \in Seq({p[i] : i \in 1 .. m})
  BY <1>1, IsASeq
<1> QED
  BY <1>2, <1>3, LenProperties

\* Plans one after the other.
LEMMA PlanConcat ==
  ASSUME NEW p, NEW q, IsPlan(p), IsPlan(q)
  PROVE  /\ IsPlan(p \o q) /\ Len(p \o q) = Len(p) + Len(q)
         /\ \A i \in 1 .. Len(p) : (p \o q)[i] = p[i]
         /\ \A i \in 1 .. Len(q) : (p \o q)[Len(p) + i] = q[i]
<1> DEFINE A == {p[i] : i \in DOMAIN p} \cup {q[i] : i \in DOMAIN q}
<1>1. p \in Seq(A) /\ q \in Seq(A)
  <2>1. {p[i] : i \in DOMAIN p} \subseteq A /\ {q[i] : i \in DOMAIN q} \subseteq A
    OBVIOUS
  <2> HIDE DEF A
  <2> QED
    BY <2>1, PlanLength, SeqMonotonic
<1> HIDE DEF A
<1>2. p \o q \in Seq(A) /\ Len(p \o q) = Len(p) + Len(q)
  BY <1>1, ConcatProperties
<1>3. IsPlan(p \o q)
  <2>1. Len(p \o q) \in Nat /\ p \o q = [i \in 1 .. Len(p \o q) |-> (p \o q)[i]]
    BY <1>2, LenProperties
  <2> QED
    BY <2>1 DEF IsPlan
<1> QED
  BY <1>1, <1>2, <1>3, ConcatProperties, LenProperties

\* A plan of one segment.
LEMMA PlanOne ==
  ASSUME NEW x
  PROVE  IsPlan(<<x>>) /\ Len(<<x>>) = 1 /\ <<x>>[1] = x
<1>1. <<x>> = [i \in 1 .. 1 |-> <<x>>[i]]
  OBVIOUS
<1> QED
  BY <1>1 DEF IsPlan

\* A segment behind a plan.
LEMMA PlanSnoc ==
  ASSUME NEW p, NEW x, IsPlan(p)
  PROVE  /\ IsPlan(p \o <<x>>) /\ Len(p \o <<x>>) = Len(p) + 1
         /\ \A i \in 1 .. Len(p) : (p \o <<x>>)[i] = p[i]
         /\ (p \o <<x>>)[Len(p) + 1] = x
<1> DEFINE q == <<x>>
<1>1. IsPlan(q) /\ Len(q) = 1 /\ q[1] = x
  BY PlanOne
<1> HIDE DEF q
<1>2. /\ IsPlan(p \o q) /\ Len(p \o q) = Len(p) + Len(q)
      /\ \A i \in 1 .. Len(p) : (p \o q)[i] = p[i]
      /\ \A i \in 1 .. Len(q) : (p \o q)[Len(p) + i] = q[i]
  BY <1>1, PlanConcat, SMTT(30)
<1>3. (p \o q)[Len(p) + 1] = x
  BY <1>1, <1>2
<1> QED
  BY <1>1, <1>2, <1>3 DEF q

\* A plan of two segments.
LEMMA PlanTwo == ASSUME NEW x, NEW y PROVE IsPlan(<<x, y>>)
<1>1. <<x, y>> = [i \in 1 .. 2 |-> <<x, y>>[i]]
  OBVIOUS
<1> QED
  BY <1>1 DEF IsPlan

\* A product of natural numbers.
LEMMA ProductIsNat == ASSUME NEW x \in Nat, NEW y \in Nat PROVE x * y \in Nat
OBVIOUS

\* The numbers that bound the loops over barriers.
LEMMA Products ==
  ASSUME NEW n \in Nat \ {0}, NEW c \in 0 .. (n - 1)
  PROVE  /\ Lda \in Nat /\ Lda > 0 /\ Blk(n) \in Nat /\ c * Blk(n) \in Nat
         /\ Blk(n) * 16 \in Nat /\ (Lda \div 4) * Blk(n) \in Nat
         /\ (Lda \div 2) * (Lda \div 4) \in Nat /\ Blk(n) * Lda \in Nat
         /\ ((Lda - c + 2 * n - 1) \div (2 * n)) * Lda \in Nat
<1>1. Lda \in Nat /\ Lda > 0 /\ Blk(n) \in Nat /\ c \in Nat
  BY LdaAssumption DEF Blk
<1>2. (Lda - c + 2 * n - 1) \div (2 * n) \in Nat
  BY <1>1
<1> QED
  BY <1>1, <1>2

\* A plan that reads nothing of the shared scratch arrays.
NoReads(p) == IsPlan(p) /\ \A i \in 1 .. Len(p) : p[i].reads = {}

\* Plans that read nothing: put together, of one segment, of one loop.
LEMMA NoReadsConcat ==
  ASSUME NEW p, NEW q, NoReads(p), NoReads(q) PROVE NoReads(p \o q)
<1>1. IsPlan(p) /\ IsPlan(q) /\ Len(p) \in Nat /\ Len(q) \in Nat
  BY PlanLength DEF NoReads
<1> DEFINE r == p \o q
<1>2. /\ IsPlan(r) /\ Len(r) = Len(p) + Len(q)
      /\ \A i \in 1 .. Len(p) : r[i] = p[i]
      /\ \A i \in 1 .. Len(q) : r[Len(p) + i] = q[i]
  BY <1>1, PlanConcat
<1> HIDE DEF r
<1>3. ASSUME NEW i \in 1 .. Len(r) PROVE r[i].reads = {}
  <2>1. CASE i <= Len(p)
    BY <1>1, <1>2, <2>1 DEF NoReads
  <2>2. CASE i > Len(p)
    <3>1. i - Len(p) \in 1 .. Len(q) /\ i = Len(p) + (i - Len(p))
      BY <1>1, <1>2, <2>2
    <3> QED
      BY <1>2, <3>1 DEF NoReads
  <2> QED
    BY <1>1, <2>1, <2>2
<1>4. NoReads(r)
  BY <1>2, <1>3 DEF NoReads
<1> QED
  BY <1>4 DEF r

LEMMA NoReadsOne == ASSUME NEW S PROVE NoReads(<<Seg(S)>>)
<1>1. Seg(S).reads = {}
  BY DEF Seg, Segment
<1> QED
  BY <1>1, PlanOne DEF NoReads

LEMMA NoReadsFunction ==
  ASSUME NEW m \in Nat, NEW f, f = [s \in 1 .. m |-> f[s]], \A s \in 1 .. m : f[s].reads = {}
  PROVE  NoReads(f)
<1>1. IsPlan(f) /\ DOMAIN f = 1 .. m
  BY DEF IsPlan
<1> QED
  BY <1>1, PlanLength DEF NoReads

\* The loops with a barrier in each turn.
LEMMA LoopsReadNothing ==
  ASSUME NEW n \in Nat \ {0}, NEW c \in 0 .. (n - 1)
  PROVE  /\ NoReads(ad_matmul(c, n)) /\ NoReads(ag_matmul(c, n)) /\ NoReads(an_matmul(c, n))
         /\ NoReads(cs_matmul(c, n))
<1>1. NoReads(<<Idle>>)
  BY NoReadsOne DEF Idle
<1>2. \A S : Seg(S).reads = {}
  BY DEF Seg, Segment
<1>3. NoReads(ad_matmul(c, n))
  <2> DEFINE f == [s \in 1 .. (Blk(n) * 16) |->
                     LET k == 2 * ((s - 1) % 16)
                     IN  Seg({Add32({c * Blk(n) + ((s - 1) \div 16)}, 0 .. 31, {k, k + 1})})]
  <2>1. NoReads(f)
    BY <1>2, Products, NoReadsFunction
  <2> QED
    BY <1>1, <2>1, NoReadsConcat DEF ad_matmul
<1>4. NoReads(ag_matmul(c, n))
  <2> DEFINE f == [s \in 1 .. ((Lda \div 2) * (Lda \div 4)) |->
                     LET i == 2 * ((s - 1) \div (Lda \div 4))
                         k == 4 * ((s - 1) % (Lda \div 4))
                     IN  Seg({Add(Unrolled(c * Blk(n), (c + 1) * Blk(n), 4), {i, i + 1},
                                  k .. (k + 3))})]
  <2>1. NoReads(f)
    BY <1>2, Products, NoReadsFunction
  <2> QED
    BY <1>1, <2>1, NoReadsConcat DEF ag_matmul
<1>5. NoReads(an_matmul(c, n))
  <2> DEFINE f == [s \in 1 .. (Blk(n) * Lda) |->
                     Seg({Add({c * Blk(n) + ((s - 1) \div Lda)}, All, {(s - 1) % Lda})})]
  <2>1. NoReads(f)
    BY <1>2, Products, NoReadsFunction
  <2> QED
    BY <1>1, <2>1, NoReadsConcat DEF an_matmul
<1>6. NoReads(cs_matmul(c, n))
  <2> DEFINE f == [s \in 1 .. (((Lda - c + 2 * n - 1) \div (2 * n)) * Lda) |->
                     LET j == c + 2 * n * ((s - 1) \div Lda)
                     IN  Seg({Set({j, j + n}, {(s - 1) % Lda}, All)})]
  <2>1. NoReads(f)
    BY <1>2, Products, NoReadsFunction
  <2> QED
    BY <1>1, <2>1, NoReadsConcat DEF cs_matmul
<1> QED
  BY <1>3, <1>4, <1>5, <1>6

\* br and dr.
LEMMA TransposedBlocksReadNothing ==
  ASSUME NEW n \in Nat \ {0}, NEW c \in 0 .. (n - 1), NEW width \in {4, 8}
  PROVE  NoReads(TransposedBlocks(c, n, width))
<1> DEFINE perRow == (16 * ((Blk(n) + 15) \div 16)) \div width
           f == [s \in 1 .. ((Lda + 1) \div 2) |-> Idle]
           g == [s \in 1 .. (((Lda + 31) \div 32) * 16 * perRow) |->
                  LET j2 == 32 * ((s - 1) \div (16 * perRow))
                      inJ2 == (s - 1) % (16 * perRow)
                      perI2 == 16 * (16 \div width)
                      i2 == c * Blk(n) + 16 * (inJ2 \div perI2)
                      j  == j2 + 2 * ((inJ2 % perI2) \div (16 \div width))
                      i  == i2 + width * (inJ2 % (16 \div width))
                  IN  Seg({Add({j, j + 1}, i .. (i + width - 1), Unrolled(0, Lda, 32))})]
<1>1. (Lda + 1) \div 2 \in Nat /\ ((Lda + 31) \div 32) * 16 * perRow \in Nat
  <2>1. perRow \in Nat /\ (Lda + 1) \div 2 \in Nat /\ (Lda + 31) \div 32 \in Nat
    <3>1. Blk(n) \in Nat /\ Lda \in Nat /\ (Blk(n) + 15) \div 16 \in Nat
      BY Products
    <3>2. CASE width = 4
      BY <3>1, <3>2
    <3>3. CASE width = 8
      BY <3>1, <3>3
    <3> QED
      BY <3>2, <3>3
  <2> HIDE DEF perRow
  <2> QED
    BY <2>1
<1>2. \A S : Seg(S).reads = {}
  BY DEF Seg, Segment
<1>3. Idle.reads = {} /\ NoReads(<<Idle>>)
  BY <1>2, NoReadsOne DEF Idle
<1> HIDE DEF perRow
<1>4. NoReads(f)
  BY <1>1, <1>3, NoReadsFunction
<1>5. NoReads(g)
  BY <1>1, <1>2, NoReadsFunction
<1>6. TransposedBlocks(c, n, width) = f \o g \o <<Idle>>
  BY DEF TransposedBlocks, perRow
<1> HIDE DEF f, g
<1> QED
  BY <1>3, <1>4, <1>5, <1>6, NoReadsConcat

\* The kernels without a loop over barriers.
LEMMA ShortReadNothing ==
  ASSUME NEW n \in Nat \ {0}, NEW c \in 0 .. (n - 1)
  PROVE  /\ NoReads(af_matmul(c, n)) /\ NoReads(ai_matmul(c, n)) /\ NoReads(ak_matmul(c, n))
         /\ NoReads(al_matmul(c, n)) /\ NoReads(am_matmul(c, n)) /\ NoReads(ap_matmul(c, n))
         /\ NoReads(aq_matmul(c, n)) /\ NoReads(ar_matmul(c, n)) /\ NoReads(at_matmul(c, n))
         /\ NoReads(av_matmul(c, n)) /\ NoReads(ay_matmul(c, n)) /\ NoReads(bb_matmul(c, n))
         /\ NoReads(bc_matmul(c, n)) /\ NoReads(bf_matmul(c, n)) /\ NoReads(bh_matmul(c, n))
         /\ NoReads(bk_matmul(c, n)) /\ NoReads(bm_matmul(c, n)) /\ NoReads(bo_matmul(c, n))
         /\ NoReads(bs_matmul(c, n)) /\ NoReads(cf_matmul(c, n)) /\ NoReads(ck_matmul(c, n))
         /\ NoReads(cl_matmul(c, n)) /\ NoReads(cm_matmul(c, n)) /\ NoReads(df_matmul(c, n))
         /\ NoReads(do_matmul(c, n)) /\ NoReads(ds_matmul(c, n)) /\ NoReads(dv_matmul(c, n))
         /\ NoReads(matmul(c, n))
<1>1. NoReads(<<Idle>>)
  BY NoReadsOne DEF Idle
<1>2. \A S, T : NoReads(<<Seg(S), Seg(T)>>)
  <2> TAKE S, T
  <2>1. PICK p : p = <<Seg(S), Seg(T)>>
    OBVIOUS
  <2>2. p = [s \in 1 .. 2 |-> p[s]] /\ p[1] = Seg(S) /\ p[2] = Seg(T)
    BY <2>1
  <2>3. \A s \in 1 .. 2 : p[s].reads = {}
    BY <2>2 DEF Seg, Segment
  <2>4. NoReads(p)
    BY <2>2, <2>3, NoReadsFunction
  <2> QED
    BY <2>1, <2>4
<1>3. NoReads(ai_matmul(c, n))
  BY <1>2 DEF ai_matmul, Idle
<1>4. NoReads(ay_matmul(c, n)) /\ NoReads(bc_matmul(c, n)) /\ NoReads(cf_matmul(c, n))
  BY <1>1, NoReadsOne DEF ay_matmul, bc_matmul, cf_matmul, Naive
<1> QED
  BY <1>3, <1>4, NoReadsOne
     DEF af_matmul, ak_matmul, al_matmul, am_matmul, ap_matmul, aq_matmul, ar_matmul, at_matmul,
         av_matmul, bb_matmul, bf_matmul, bh_matmul, bk_matmul, bm_matmul, bo_matmul, bs_matmul,
         ck_matmul, cl_matmul, cm_matmul, df_matmul, do_matmul, ds_matmul, dv_matmul, matmul

\* The kernels with a static scratch array.
LEMMA ScratchPlans ==
  ASSUME NEW n \in Nat \ {0}, NEW c \in 0 .. (n - 1)
  PROVE  /\ IsPlan(ae_matmul(c, n)) /\ IsPlan(ce_matmul(c, n))
         /\ IsPlan(cy_matmul(c, n)) /\ IsPlan(dm_matmul(c, n))
<1>1. IsPlan(TransposeB(c, n))
  BY Products DEF TransposeB, IsPlan
<1>2. IsPlan(ae_matmul(c, n))
  <2> DEFINE f == [s \in 1 .. ((Lda \div 4) * Blk(n)) |->
                     LET i == 4 * ((s - 1) \div Blk(n))
                     IN  Segment({Set({c * Blk(n) + ((s - 1) % Blk(n))}, i .. (i + 3),
                                      Unrolled(0, Lda, 8))},
                                 {}, {Area(i .. (i + 3), Unrolled(0, Lda, 8))})]
  <2>1. IsPlan(f)
    BY Products DEF IsPlan
  <2>2. IsPlan(TransposeB(c, n) \o f)
    BY <1>1, <2>1, PlanConcat
  <2> QED
    BY <2>2, PlanConcat, PlanOne DEF ae_matmul
<1>3. IsPlan(ce_matmul(c, n))
  BY <1>1, PlanConcat, PlanOne DEF ce_matmul
<1>4. IsPlan(cy_matmul(c, n)) /\ IsPlan(dm_matmul(c, n))
  BY PlanOne, PlanTwo DEF cy_matmul, dm_matmul
<1> QED
  BY <1>2, <1>3, <1>4

-----------------------------------------------------------------------------
(* Programs                                                                *)

\* What a core of a test runs, by the name of the kernel.
LEMMA LinkedPrograms ==
  ASSUME NEW n \in Nat \ {0}, NEW c \in 0 .. (n - 1)
  PROVE  /\ DOMAIN Linked(c, n) = DOMAIN Linked(0, 1)
         /\ \A k \in DOMAIN Linked(c, n) :
              \/ \E p : IsPlan(p) /\ Linked(c, n)[k] = MatmulProgram(p)
              \/ \E z : Linked(c, n)[k] = VvaddProgram(c, z)
<1>1. \A p : NoReads(p) => IsPlan(p)
  BY DEF NoReads
<1> DEFINE Runs(prog) == \/ \E p : IsPlan(p) /\ prog = MatmulProgram(p)
                         \/ \E z : prog = VvaddProgram(c, z)
<1>2. \A p : IsPlan(p) => Runs(MatmulProgram(p))
  OBVIOUS
<1>3. \A z : Runs(VvaddProgram(c, z))
  OBVIOUS
<1> HIDE DEF Runs
<1>4. \A k \in DOMAIN Linked(c, n) : Runs(Linked(c, n)[k])
  BY <1>1, <1>2, <1>3, LoopsReadNothing, TransposedBlocksReadNothing, ShortReadNothing, ScratchPlans
     DEF Linked, az_matmul, bj_matmul, br_matmul, cg_matmul, ci_matmul, cv_matmul, dc_matmul,
         dr_matmul, du_matmul
<1>5. DOMAIN Linked(c, n) = DOMAIN Linked(0, 1)
  BY DEF Linked
<1> QED
  BY <1>4, <1>5 DEF Runs

\* The <<>> \o of Programs makes a tuple and changes nothing.
LEMMA EmptyPlan ==
  ASSUME NEW p, IsPlan(p)
  PROVE  \A i \in 1 .. Len(p) : (<<>> \o p)[i] = p[i]
<1>1. IsPlan(<<>>) /\ Len(<<>>) = 0
  <2>1. <<>> = [i \in 1 .. 0 |-> <<>>[i]]
    OBVIOUS
  <2> QED
    BY <2>1 DEF IsPlan
<1>2. \A i \in 1 .. Len(p) : (<<>> \o p)[0 + i] = p[i]
  BY <1>1, PlanConcat
<1> QED
  BY <1>2, PlanLength

\* Programs holds what thread_entry links.
LEMMA ProgramIsLinked ==
  ASSUME ncores \in CoreCounts, NEW c \in Cores
  PROVE  Program(c) = Linked(c, ncores)[kernel]
<1> DEFINE max == Max(CoreCounts)
           f(n) == [i \in 1 .. n |-> Linked(i - 1, n)]
           g == [n \in 1 .. max |-> IF n \in CoreCounts THEN <<>> \o f(n) ELSE <<>>]
<1>1. max \in Nat /\ ncores \in 1 .. max /\ ncores \in Nat /\ c + 1 \in 1 .. ncores
  BY MtAssumption DEF Cores
<1> HIDE DEF max
<1>2. IsPlan(g) /\ Len(g) = max
  <2>1. IsPlan(g)
    BY <1>1 DEF IsPlan
  <2>2. DOMAIN g = 1 .. max
    OBVIOUS
  <2> HIDE DEF g
  <2> QED
    BY <1>1, <2>1, <2>2, PlanLength
<1>3. IsPlan(f(ncores)) /\ Len(f(ncores)) = ncores
  <2>1. IsPlan(f(ncores))
    BY <1>1 DEF IsPlan
  <2>2. DOMAIN f(ncores) = 1 .. ncores
    OBVIOUS
  <2> HIDE DEF f
  <2> QED
    BY <1>1, <2>1, <2>2, PlanLength
<1>4. Programs = <<>> \o g
  BY DEF Programs, max
<1>5. Programs[ncores] = g[ncores] /\ g[ncores] = <<>> \o f(ncores)
  <2>1. g[ncores] = <<>> \o f(ncores)
    BY <1>1
  <2> HIDE DEF g, f
  <2> QED
    BY <1>1, <1>2, <1>4, <2>1, EmptyPlan
<1>6. (<<>> \o f(ncores))[c + 1] = f(ncores)[c + 1]
  <2> HIDE DEF f
  <2> QED
    BY <1>1, <1>3, EmptyPlan
<1>7. f(ncores)[c + 1] = Linked((c + 1) - 1, ncores) /\ (c + 1) - 1 = c
  BY <1>1 DEF Cores
<1> QED
  BY <1>5, <1>6, <1>7 DEF Program

\* A kernel's segments, then the check.
LEMMA MatmulItems ==
  ASSUME NEW p, IsPlan(p)
  PROVE  /\ Len(MatmulProgram(p)) = Len(p) + 1
         /\ \A i \in 1 .. Len(p) : MatmulProgram(p)[i] = Item(FALSE, p[i])
         /\ MatmulProgram(p)[Len(p) + 1] = Item(TRUE, Idle)
<1> DEFINE f == [i \in 1 .. Len(p) |-> Item(FALSE, p[i])]
           last == <<Item(TRUE, Idle)>>
<1>1. Len(p) \in Nat
  BY PlanLength
<1>2. IsPlan(f) /\ DOMAIN f = 1 .. Len(p)
  BY <1>1 DEF IsPlan
<1>3. Len(f) = Len(p)
  <2> HIDE DEF f
  <2> QED
    BY <1>1, <1>2, PlanLength
<1>4. MatmulProgram(p) = f \o last
  BY DEF MatmulProgram
<1>5. \A i \in 1 .. Len(p) : f[i] = Item(FALSE, p[i])
  OBVIOUS
<1>6. /\ Len(f \o last) = Len(f) + 1
      /\ \A i \in 1 .. Len(f) : (f \o last)[i] = f[i]
      /\ (f \o last)[Len(f) + 1] = Item(TRUE, Idle)
  <2> HIDE DEF f, last
  <2>1. IsPlan(f)
    BY <1>2
  <2>2. Len(f \o <<Item(TRUE, Idle)>>) = Len(f) + 1
    BY <2>1, PlanSnoc
  <2>3. \A i \in 1 .. Len(f) : (f \o <<Item(TRUE, Idle)>>)[i] = f[i]
    BY <2>1, PlanSnoc
  <2>4. (f \o <<Item(TRUE, Idle)>>)[Len(f) + 1] = Item(TRUE, Idle)
    BY <2>1, PlanSnoc
  <2> QED
    BY <2>2, <2>3, <2>4 DEF last
<1> HIDE DEF f, last
<1> QED
  BY <1>1, <1>3, <1>4, <1>5, <1>6

\* A core has something to do, however its kernel divides the work.
LEMMA ProgramLength ==
  ASSUME ncores \in CoreCounts, ncores \in Nat \ {0}, kernel \in Kernels, NEW c \in Cores
  PROVE  Len(Program(c)) \in Nat \ {0}
<1>1. Program(c) = Linked(c, ncores)[kernel]
  BY ProgramIsLinked
<1>2. kernel \in DOMAIN Linked(c, ncores)
  BY LinkedPrograms, MtAssumption DEF Cores
<1>3. CASE \E p : IsPlan(p) /\ Program(c) = MatmulProgram(p)
  <2>1. PICK p : IsPlan(p) /\ Program(c) = MatmulProgram(p)
    BY <1>3
  <2>2. Len(Program(c)) = Len(p) + 1 /\ Len(p) \in Nat
    BY <2>1, MatmulItems, PlanLength
  <2> QED
    BY <2>2
<1>4. CASE \E z : Program(c) = VvaddProgram(c, z)
  <2>1. PICK z : Program(c) = VvaddProgram(c, z)
    BY <1>4
  <2>2. Len(VvaddProgram(c, z)) = 6
    BY DEF VvaddProgram
  <2> QED
    BY <2>1, <2>2
<1> QED
  BY <1>1, <1>2, <1>3, <1>4, LinkedPrograms DEF Cores

-----------------------------------------------------------------------------
(* The invariant                                                           *)

\* A core enters a barrier only if its program goes on behind it.
ProgramInv ==
  \A c \in Cores : /\ item[c] <= Len(Program(c))
                   /\ pc[c] # "work" => item[c] < Len(Program(c))

MtInv ==
  /\ BInv
  /\ ncores \in CoreCounts /\ kernel \in Kernels /\ exited \in {"no", "pass", "fail"}
  /\ ProgramInv

\* thread_entry adds nothing that disturbs the barrier.
LEMMA StepIsBarrierStep == Next => [BarrierNext]_barrierVars
<1>1. ASSUME NEW c \in Cores, Step(c) PROVE [BarrierNext]_barrierVars
  BY <1>1 DEF Step, Work, Synchronize, Fail, Exit, BarrierNext
<1>2. CASE Halted
  BY <1>2 DEF Halted, vars
<1> QED
  BY <1>1, <1>2 DEF Next

\* The invariant holds when the cores start.
LEMMA MtInit == Init => MtInv
<1> SUFFICES ASSUME Init PROVE MtInv
  OBVIOUS
<1>1. BInv /\ ncores \in Nat \ {0}
  BY BarrierInitInvariant DEF Init, BarrierInit
<1>2. ProgramInv
  BY <1>1, ProgramLength DEF Init, BarrierInit, ProgramInv
<1> QED
  BY <1>1, <1>2 DEF Init, MtInv

\* Every step of a test keeps it.
LEMMA MtStep == MtInv /\ [Next]_vars => MtInv'
<1> SUFFICES ASSUME MtInv, [Next]_vars PROVE MtInv'
  OBVIOUS
<1>1. BInv'
  BY StepIsBarrierStep, BarrierStepInvariant DEF MtInv, vars
<1>2. /\ ncores' = ncores /\ kernel' = kernel /\ exited' \in {"no", "pass", "fail"}
      /\ Cores' = Cores /\ \A c \in Cores : Program(c)' = Program(c)
  BY DEF Next, Step, Work, Synchronize, Fail, Exit, Halted, Arrive, InBarrier, Reset, Release,
         Spin, vars, barrierVars, MtInv, Cores, Program
<1>3. ProgramInv'
  <2>1. CASE UNCHANGED barrierVars
    BY <1>2, <2>1 DEF MtInv, ProgramInv, barrierVars
  <2>2. ASSUME NEW c \in Cores, Work(c) PROVE ProgramInv'
    BY <1>2, <2>2 DEF MtInv, ProgramInv, Work, Arrive, BInv, BarrierTypeOK
  <2>3. ASSUME NEW c \in Cores, Synchronize(c) PROVE ProgramInv'
    <3>1. \A d \in Cores : item[d] \in Nat
      BY DEF MtInv, BInv, BarrierTypeOK
    <3>2. Len(Program(c)) \in Nat
      BY ProgramLength DEF MtInv, BInv, BarrierTypeOK
    <3>3. pc[c] # "work" /\ \A d \in Cores : d # c => pc'[d] = pc[d] /\ item'[d] = item[d]
      BY <2>3 DEF Synchronize, InBarrier, Reset, Release, Spin, MtInv, BInv, BarrierTypeOK
    <3>4. \/ pc'[c] = "release" /\ item'[c] = item[c]
          \/ pc'[c] = "work" /\ item'[c] = item[c] + 1
      BY <2>3 DEF Synchronize, InBarrier, Reset, Release, Spin, MtInv, BInv, BarrierTypeOK
    <3> QED
      BY <1>2, <3>1, <3>2, <3>3, <3>4 DEF MtInv, ProgramInv
  <2> QED
    BY <2>1, <2>2, <2>3 DEF Next, Step, Fail, Exit, Halted, vars, barrierVars
<1> QED
  BY <1>1, <1>2, <1>3 DEF MtInv

\* The invariant of a test: the barrier's, and that no core waits behind the last
\* item of its program.
THEOREM MtInvariant == Spec => []MtInv
  BY MtInit, MtStep, PTL DEF Spec

\* Every core is at an item of its program, in every program of every number of
\* cores.
THEOREM MtTypeOK == Spec => []TypeOK
<1>1. MtInv => TypeOK
  <2> SUFFICES ASSUME MtInv PROVE TypeOK
    OBVIOUS
  <2>1. \A c \in Cores : item[c] \in Nat \ {0} /\ Len(Program(c)) \in Nat
    BY ProgramLength DEF MtInv, BInv, BarrierTypeOK
  <2> QED
    BY <2>1 DEF MtInv, BInv, ProgramInv, TypeOK
<1> QED
  BY <1>1, MtInvariant, PTL

\* No core of a multi-threaded test gets past a barrier that another core has
\* yet to enter.
THEOREM MtImplementsRendezvous == Spec => ImplementsRendezvous
<1>1. Init => Meeting!Init
  BY BarrierInitRefines DEF Init
<1>2. MtInv /\ [Next]_vars => [Meeting!Next]_<<ncores, entered, left>>
  <2>1. [Next]_vars => [BarrierNext]_barrierVars
    BY StepIsBarrierStep DEF vars
  <2> QED
    BY <2>1, BarrierStepRefines DEF MtInv
<1> QED
  BY <1>1, <1>2, MtInvariant, PTL
     DEF Spec, ImplementsRendezvous, Meeting!Spec, entered, left

-----------------------------------------------------------------------------
(* From interleavings to plans                                             *)

\* Cores that work are at the same item, and all the others have been through
\* the items before it.
LEMMA WorkTogether ==
  ASSUME BInv, NEW c \in Cores, NEW d \in Cores, pc[c] = "work"
  PROVE  /\ Finished(d) \in Nat /\ Finished(d) >= item[c] - 1
         /\ pc[d] = "work" => item[d] = item[c]
<1>1. Gathering
  BY DEF BInv, Met
<1>2. item[c] \in Nat /\ item[d] \in Nat \ {0}
  BY DEF BInv, BarrierTypeOK
<1>3. pc[d] \in {"work", "spin"} /\ Round(d) = Round(c) /\ Round(c) = item[c]
  BY <1>1 DEF Gathering, Round
<1>4. CASE pc[d] = "work"
  BY <1>2, <1>3, <1>4 DEF Round, Finished
<1>5. CASE pc[d] = "spin"
  <2>1. Round(d) \in {item[d], item[d] + 1}
    BY DEF Round
  <2> QED
    BY <1>2, <1>3, <1>5, <2>1 DEF Finished
<1> QED
  BY <1>3, <1>4, <1>5

\* Two cores' items with the same number do not conflict.
PlansApart ==
  \A c, d \in Cores :
    c # d => \A i \in 1 .. Len(Program(c)) : ~Conflict(Program(c)[i], Program(d)[i])

\* What an item reads of the scratch arrays was filled by it, by an earlier item
\* of the core, or in front of the barrier.
PlansFill ==
  \A c \in Cores : \A i \in 1 .. Len(Program(c)) : \A a \in Program(c)[i].segment.reads :
    LET filled == UNION {UNION {Program(d)[j].segment.fills :
                                  j \in 1 .. IF d = c THEN i ELSE i - 1} : d \in Cores}
    IN  \A r \in a.rows : a.cols \subseteq UNION {f.cols : f \in {g \in filled : r \in g.rows}}

\* The items before a check make the sums complete.
PlansRight ==
  \A c \in Cores : \A i \in 1 .. Len(Program(c)) :
    Program(c)[i].check => <<ncores, kernel, i>> \in RightChecks

\* The barrier keeps different items apart: a race is one of two plans at the
\* same item.
THEOREM RacesAreInPlans == Spec => [](PlansApart => NoRace)
<1>1. MtInv => (PlansApart => NoRace)
  <2> SUFFICES ASSUME MtInv, PlansApart, NEW c \in Cores, NEW d \in Cores, c # d,
                      pc[c] = "work", pc[d] = "work"
               PROVE  ~Conflict(Here(c), Here(d))
    BY DEF NoRace
  <2>1. item[d] = item[c]
    BY WorkTogether DEF MtInv
  <2>2. item[c] \in 1 .. Len(Program(c))
    BY ProgramLength DEF MtInv, BInv, BarrierTypeOK, ProgramInv
  <2> QED
    BY <2>1, <2>2 DEF PlansApart, Here
<1> QED
  BY <1>1, MtInvariant, PTL

\* However the cores interleave, a scratch array is read behind its filling if
\* the plans put a barrier between.
THEOREM FilledByPlans == Spec => [](PlansFill => ScratchFilled)
<1>1. MtInv => (PlansFill => ScratchFilled)
  <2> SUFFICES ASSUME MtInv, PlansFill, NEW c \in Cores, pc[c] = "work",
                      NEW a \in Here(c).segment.reads, NEW r \in a.rows, NEW x \in a.cols
               PROVE  \E d \in Cores : \E j \in 1 .. (IF d = c THEN item[c] ELSE Finished(d)) :
                        \E f \in Program(d)[j].segment.fills : r \in f.rows /\ x \in f.cols
    BY DEF ScratchFilled
  <2>1. item[c] \in 1 .. Len(Program(c)) /\ item[c] \in Nat
    BY ProgramLength DEF MtInv, BInv, BarrierTypeOK, ProgramInv
  <2>2. PICK d \in Cores : \E j \in 1 .. (IF d = c THEN item[c] ELSE item[c] - 1) :
          \E f \in Program(d)[j].segment.fills : r \in f.rows /\ x \in f.cols
    BY <2>1 DEF PlansFill, Here
  <2>3. Finished(d) \in Nat /\ Finished(d) >= item[c] - 1
    BY WorkTogether DEF MtInv
  <2>4. 1 .. (IF d = c THEN item[c] ELSE item[c] - 1)
          \subseteq 1 .. (IF d = c THEN item[c] ELSE Finished(d))
    BY <2>1, <2>3
  <2> QED
    BY <2>2, <2>4
<1> QED
  BY <1>1, MtInvariant, PTL

\* If the plans make the sums complete, no interleaving lets a check fail: a core
\* checks only when all stores before the barrier have been made.
THEOREM ChecksAreInPlans == Spec => [](PlansRight => VerifyPasses)
<1>1. Init => (PlansRight => VerifyPasses)
  BY DEF Init, VerifyPasses
<1>2. MtInv /\ (PlansRight => VerifyPasses) /\ [Next]_vars => (PlansRight => VerifyPasses)'
  <2> SUFFICES ASSUME MtInv, PlansRight => VerifyPasses, [Next]_vars, PlansRight', exited' = "fail"
               PROVE  FALSE
    BY DEF VerifyPasses
  <2>1. /\ ncores' = ncores /\ kernel' = kernel /\ Cores' = Cores
        /\ \A c \in Cores : Program(c)' = Program(c)
    BY DEF Next, Step, Work, Synchronize, Fail, Exit, Halted, Arrive, InBarrier, Reset, Release,
           Spin, vars, barrierVars, Cores, Program
  <2>2. PlansRight
    BY <2>1 DEF PlansRight
  <2>3. PICK c \in Cores : Fail(c)
    BY <2>2 DEF VerifyPasses, Next, Step, Work, Synchronize, Exit, Halted, vars
  <2>4. item[c] \in 1 .. Len(Program(c))
    BY ProgramLength DEF MtInv, BInv, BarrierTypeOK, ProgramInv
  <2>5. verify(c)
    BY <2>2, <2>3, <2>4, WorkTogether DEF Fail, Rejected, verify, PlansRight, Here, MtInv
  <2> QED
    BY <2>3, <2>5 DEF Fail, Rejected
<1> QED
  BY <1>1, <1>2, MtInvariant, PTL DEF Spec

-----------------------------------------------------------------------------
(* Segments and plans that can run at the same time                        *)

\* Two segments that can run at the same time, and two plans that can.
Apart(x, y) ==
  /\ ~SomeOverlap(x.stores, y.stores)
  /\ ~SomeOverlap(x.fills, y.fills \cup y.reads)

ApartPlans(p, q) ==
  /\ IsPlan(p) /\ IsPlan(q) /\ Len(p) = Len(q)
  /\ \A i \in 1 .. Len(p) : Apart(p[i], q[i])

\* Two programs whose items with the same number do not conflict.
NeverConflict(p, q) == \A i \in 1 .. Len(p) : ~Conflict(p[i], q[i])

\* Plans that are apart make programs that do not conflict.
LEMMA ApartPrograms ==
  ASSUME NEW p, NEW q, ApartPlans(p, q)
  PROVE  \A i \in 1 .. Len(MatmulProgram(p)) :
           ~Conflict(MatmulProgram(p)[i], MatmulProgram(q)[i])
<1>1. /\ IsPlan(p) /\ IsPlan(q) /\ Len(p) = Len(q) /\ Len(p) \in Nat
      /\ \A i \in 1 .. Len(p) : Apart(p[i], q[i])
  BY PlanLength DEF ApartPlans
<1>2. /\ Len(MatmulProgram(p)) = Len(p) + 1
      /\ \A i \in 1 .. Len(p) : MatmulProgram(p)[i] = Item(FALSE, p[i])
      /\ MatmulProgram(p)[Len(p) + 1] = Item(TRUE, Idle)
  BY <1>1, MatmulItems
<1>3. /\ \A i \in 1 .. Len(q) : MatmulProgram(q)[i] = Item(FALSE, q[i])
      /\ MatmulProgram(q)[Len(q) + 1] = Item(TRUE, Idle)
  BY <1>1, MatmulItems
<1>4. ASSUME NEW x, NEW y, Apart(x, y) PROVE ~Conflict(Item(FALSE, x), Item(FALSE, y))
  BY <1>4 DEF Apart, Conflict, Item
<1>5. ~Conflict(Item(TRUE, Idle), Item(TRUE, Idle))
  BY DEF Conflict, SomeOverlap, Item, Idle, Seg, Segment
<1> TAKE i \in 1 .. Len(MatmulProgram(p))
<1>6. CASE i \in 1 .. Len(p)
  BY <1>1, <1>2, <1>3, <1>4, <1>6
<1>7. CASE i = Len(p) + 1
  BY <1>1, <1>2, <1>3, <1>5, <1>7
<1> QED
  BY <1>1, <1>2, <1>6, <1>7

\* Plans of one segment, and segments by what they store.
LEMMA OneSegment ==
  ASSUME NEW x, NEW y, Apart(x, y) PROVE ApartPlans(<<x>>, <<y>>)
BY PlanOne DEF ApartPlans

LEMMA IdleApart == Apart(Idle, Idle)
BY DEF Apart, SomeOverlap, Idle, Seg, Segment

LEMMA StoresApart ==
  ASSUME NEW S, NEW T, \A a \in S, b \in T : a.rows \cap b.rows = {} \/ a.cols \cap b.cols = {}
  PROVE  Apart(Seg(S), Seg(T))
BY DEF Apart, SomeOverlap, Overlap, Seg, Segment

\* Stores into distinct rows, or into distinct columns.
LEMMA DistinctRows ==
  ASSUME NEW op, NEW s, NEW R, NEW Q, NEW C, NEW D, NEW t, NEW u, R \cap Q = {}
  PROVE  Apart(Seg({Block(op, s, R, C, t)}), Seg({Block(op, s, Q, D, u)}))
BY StoresApart DEF Block

LEMMA DistinctCols ==
  ASSUME NEW op, NEW s, NEW R, NEW Q, NEW C, NEW D, NEW t, NEW u, C \cap D = {}
  PROVE  Apart(Seg({Block(op, s, R, C, t)}), Seg({Block(op, s, Q, D, u)}))
BY StoresApart DEF Block

\* Plans one after the other, if each is apart.
LEMMA ConcatApart ==
  ASSUME NEW p, NEW q, NEW r, NEW t, ApartPlans(p, q), ApartPlans(r, t)
  PROVE  ApartPlans(p \o r, q \o t)
<1>1. /\ IsPlan(p) /\ IsPlan(q) /\ Len(p) = Len(q) /\ Len(p) \in Nat
      /\ \A i \in 1 .. Len(p) : Apart(p[i], q[i])
  BY PlanLength DEF ApartPlans
<1>2. /\ IsPlan(r) /\ IsPlan(t) /\ Len(r) = Len(t) /\ Len(r) \in Nat
      /\ \A i \in 1 .. Len(r) : Apart(r[i], t[i])
  BY PlanLength DEF ApartPlans
<1> DEFINE P == p \o r
           Q == q \o t
<1>3. /\ IsPlan(P) /\ Len(P) = Len(p) + Len(r)
      /\ \A i \in 1 .. Len(p) : P[i] = p[i]
      /\ \A i \in 1 .. Len(r) : P[Len(p) + i] = r[i]
  BY <1>1, <1>2, PlanConcat
<1>4. /\ IsPlan(Q) /\ Len(Q) = Len(p) + Len(r)
      /\ \A i \in 1 .. Len(p) : Q[i] = q[i]
      /\ \A i \in 1 .. Len(r) : Q[Len(p) + i] = t[i]
  BY <1>1, <1>2, PlanConcat
<1> HIDE DEF P, Q
<1>5. ASSUME NEW i \in 1 .. Len(P) PROVE Apart(P[i], Q[i])
  <2>1. CASE i <= Len(p)
    BY <1>1, <1>3, <1>4, <2>1
  <2>2. CASE i > Len(p)
    <3>1. i - Len(p) \in 1 .. Len(r) /\ i = Len(p) + (i - Len(p))
      BY <1>1, <1>2, <1>3, <2>2
    <3> QED
      BY <1>2, <1>3, <1>4, <3>1
  <2> QED
    BY <1>1, <2>1, <2>2
<1>6. ApartPlans(P, Q)
  BY <1>3, <1>4, <1>5 DEF ApartPlans
<1> QED
  BY <1>6 DEF P, Q

\* Plans of one loop and the empty segment behind it.
LEMMA LoopApart ==
  ASSUME NEW p, NEW q, ApartPlans(p, q)
  PROVE  ApartPlans(p \o <<Idle>>, q \o <<Idle>>)
BY ConcatApart, OneSegment, IdleApart

\* Plans of one loop, segment by segment.
LEMMA FunctionsApart ==
  ASSUME NEW m \in Nat, NEW f, NEW g, f = [s \in 1 .. m |-> f[s]], g = [s \in 1 .. m |-> g[s]],
         \A s \in 1 .. m : Apart(f[s], g[s])
  PROVE  ApartPlans(f, g)
<1>1. IsPlan(f) /\ IsPlan(g) /\ DOMAIN f = 1 .. m /\ DOMAIN g = 1 .. m
  BY DEF IsPlan
<1>2. Len(f) = m /\ Len(g) = m
  BY <1>1, PlanLength
<1> QED
  BY <1>1, <1>2 DEF ApartPlans

-----------------------------------------------------------------------------
(* Arithmetic of the ways to divide the work                               *)

\* Quotient and remainder.
LEMMA Division ==
  ASSUME NEW s \in Nat \ {0}, NEW a \in Nat
  PROVE  \E q \in Nat : a = s * q + (a % s)
<1>1. a \div s \in Nat
  OBVIOUS
<1>2. a = s * (a \div s) + (a % s)
  OBVIOUS
<1> QED
  BY <1>1, <1>2

\* A multiple of n.
LEMMA MultipleOf ==
  ASSUME NEW n \in Nat \ {0}, NEW q \in Nat
  PROVE  (n * q) % n = 0
<1>1. PICK a \in Nat : a = n * q
  OBVIOUS
<1>2. PICK p \in Nat : a = n * p + (a % n)
  BY Division
<1>3. a % n \in 0 .. (n - 1)
  OBVIOUS
<1>4. n * q - n * p = a % n /\ n * q \in Nat /\ n * p \in Nat
  BY <1>1, <1>2, <1>3
<1>5. CASE q <= p
  <2>1. PICK z \in Nat : p = q + z
    BY <1>5
  <2>2. n * p = n * q + n * z /\ n * z \in Nat
    BY <2>1
  <2> QED
    BY <1>1, <1>3, <1>4, <2>2
<1>6. CASE q > p
  <2>1. PICK z \in Nat : q = p + 1 + z
    BY <1>6
  <2>2. n * q = n * p + n + n * z /\ n * z \in Nat
    BY <2>1
  <2> QED
    BY <1>3, <1>4, <2>2
<1> QED
  BY <1>5, <1>6

\* The row or column a loop over m times b segments is at.
LEMMA QuotientBelow ==
  ASSUME NEW m \in Nat, NEW b \in Nat, NEW a \in Nat, a < m * b
  PROVE  b # 0 /\ a \div b \in 0 .. (m - 1)
<1>1. b # 0
  <2>1. m * 0 = 0
    OBVIOUS
  <2> QED
    BY <2>1
<1>2. PICK q \in Nat : q = a \div b /\ a = b * q + (a % b)
  <2>1. a \div b \in Nat
    BY <1>1
  <2>2. a = b * (a \div b) + (a % b)
    BY <1>1
  <2> QED
    BY <2>1, <2>2
<1>3. a % b \in Nat
  BY <1>1
<1>4. q < m
  <2> SUFFICES ASSUME q >= m PROVE FALSE
    OBVIOUS
  <2>1. PICK z \in Nat : q = m + z
    OBVIOUS
  <2>2. b * q = m * b + b * z /\ b * z \in Nat /\ m * b \in Nat
    BY <2>1
  <2> QED
    BY <1>2, <1>3, <2>2
<1> QED
  BY <1>1, <1>2, <1>4

\* Chunks of b elements, one per core.
LEMMA ChunksApart ==
  ASSUME NEW b \in Nat, NEW c \in Nat, NEW d \in Nat, c # d
  PROVE  (c * b) .. ((c + 1) * b - 1) \cap (d * b) .. ((d + 1) * b - 1) = {}
<1>1. ASSUME NEW x \in Nat, NEW y \in Nat, x < y PROVE (x + 1) * b <= y * b
  <2>1. PICK z \in Nat : y = x + 1 + z
    BY <1>1
  <2>2. y * b = (x + 1) * b + z * b /\ z * b \in Nat /\ (x + 1) * b \in Nat
    BY <2>1
  <2> QED
    BY <2>2
<1>2. /\ c * b \in Nat /\ d * b \in Nat /\ (c + 1) * b \in Nat /\ (d + 1) * b \in Nat
  OBVIOUS
<1>3. CASE c < d
  BY <1>1, <1>2, <1>3
<1>4. CASE d < c
  BY <1>1, <1>2, <1>4
<1> QED
  BY <1>3, <1>4

\* If the cores share the elements evenly, every element is some core's.
LEMMA ChunksCover ==
  ASSUME NEW n \in Nat \ {0}, NEW l \in Nat, l % n = 0, NEW r \in 0 .. (l - 1)
  PROVE  \E c \in 0 .. (n - 1) : r \in (c * (l \div n)) .. ((c + 1) * (l \div n) - 1)
<1>1. PICK b \in Nat : b = l \div n /\ l = n * b
  <2>1. l \div n \in Nat
    OBVIOUS
  <2>2. l = n * (l \div n) + (l % n)
    OBVIOUS
  <2>3. n * (l \div n) \in Nat
    BY <2>1
  <2> QED
    BY <2>1, <2>2, <2>3
<1>2. b # 0
  <2>1. n * 0 = 0
    OBVIOUS
  <2> QED
    BY <1>1, <2>1
<1>3. PICK c \in Nat : r = b * c + (r % b)
  <2>1. b \in Nat \ {0} /\ r \in Nat
    BY <1>2
  <2> QED
    BY <2>1, Division
<1>4. r % b \in 0 .. (b - 1)
  BY <1>2
<1>5. c < n
  <2> SUFFICES ASSUME c >= n PROVE FALSE
    OBVIOUS
  <2>1. PICK z \in Nat : c = n + z
    OBVIOUS
  <2>2. b * c = n * b + b * z /\ b * z \in Nat /\ n * b \in Nat
    BY <2>1
  <2> QED
    BY <1>1, <1>3, <1>4, <2>2
<1>6. (c + 1) * b = c * b + b /\ c * b \in Nat /\ b * c = c * b
  OBVIOUS
<1>7. r \in (c * b) .. ((c + 1) * b - 1)
  BY <1>3, <1>4, <1>6
<1>8. c \in 0 .. (n - 1)
  BY <1>5
<1>9. r \in (c * (l \div n)) .. ((c + 1) * (l \div n) - 1)
  BY <1>1, <1>7
<1> QED
  BY <1>8, <1>9

\* (c * l) / n + l / n rows stay below (d * l) / n.
LEMMA SharesApart ==
  ASSUME NEW n \in Nat \ {0}, NEW l \in Nat, NEW c \in Nat, NEW d \in Nat, c < d
  PROVE  (c * l) \div n + (l \div n) <= (d * l) \div n
<1>1. PICK e \in Nat : d = c + 1 + e
  OBVIOUS
<1>2. c * l \in Nat /\ d * l \in Nat /\ e * l \in Nat /\ d * l = c * l + l + e * l
  BY <1>1
<1>3. \A a \in Nat : a \div n \in Nat /\ n * (a \div n) <= a /\ a < n * (a \div n) + n
  <2> TAKE a \in Nat
  <2>1. a \div n \in Nat
    OBVIOUS
  <2>2. a = n * (a \div n) + (a % n)
    OBVIOUS
  <2>3. a % n \in Nat /\ a % n < n
    OBVIOUS
  <2>4. n * (a \div n) \in Nat
    BY <2>1
  <2> QED
    BY <2>1, <2>2, <2>3, <2>4
<1>4. PICK p \in Nat : p = (c * l) \div n /\ n * p <= c * l
  BY <1>2, <1>3
<1>5. PICK q \in Nat : q = l \div n /\ n * q <= l
  BY <1>3
<1>6. PICK r \in Nat : r = (d * l) \div n /\ d * l < n * r + n
  BY <1>2, <1>3
<1>7. p + q <= r
  <2> SUFFICES ASSUME p + q > r PROVE FALSE
    OBVIOUS
  <2>1. PICK z \in Nat : p + q = r + 1 + z
    OBVIOUS
  <2>2. n * (p + q) = n * p + n * q /\ n * (r + 1 + z) = n * r + n + n * z /\ n * z \in Nat
    OBVIOUS
  <2>3. n * p \in Nat /\ n * q \in Nat /\ n * r \in Nat
    OBVIOUS
  <2> QED
    BY <1>2, <1>4, <1>5, <1>6, <2>1, <2>2, <2>3
<1> QED
  BY <1>4, <1>5, <1>6, <1>7

\* Elements dealt out to n cores.
LEMMA ResiduesApart ==
  ASSUME NEW n \in Nat \ {0}, NEW c \in 0 .. (n - 1), NEW d \in 0 .. (n - 1), c # d,
         NEW k \in Int, NEW l \in Int
  PROVE  c + n * k # d + n * l
<1>1. ASSUME NEW m \in Int, m >= 1 PROVE n * m >= n
  <2>1. PICK z \in Nat : m = z + 1
    BY <1>1
  <2>2. n * m = n * z + n /\ n * z \in Nat
    BY <2>1
  <2> QED
    BY <2>2
<1>2. n * k - n * l = n * (k - l) /\ n * l - n * k = n * (l - k)
  OBVIOUS
<1>3. n * k \in Int /\ n * l \in Int
  OBVIOUS
<1>4. CASE k = l
  BY <1>3, <1>4
<1>5. CASE k > l
  <2>1. n * (k - l) >= n
    BY <1>1, <1>5
  <2> QED
    BY <1>2, <1>3, <2>1
<1>6. CASE l > k
  <2>1. n * (l - k) >= n
    BY <1>1, <1>6
  <2> QED
    BY <1>2, <1>3, <2>1
<1> QED
  BY <1>4, <1>5, <1>6

\* What a loop with step s has gone through.
LEMMA StridedForm ==
  ASSUME NEW lo \in Nat, NEW hi \in Int, NEW s \in Nat \ {0}, NEW i \in Strided(lo, hi, s)
  PROVE  i \in Nat /\ i >= lo /\ i < hi /\ \E k \in Nat : i = lo + s * k
<1>1. i \in lo .. (hi - 1) /\ (i - lo) % s = 0
  BY DEF Strided
<1>2. PICK a \in Nat : a = i - lo /\ a % s = 0
  BY <1>1
<1>3. PICK k \in Nat : a = s * k + (a % s)
  BY Division
<1>4. s * k \in Nat
  OBVIOUS
<1> QED
  BY <1>1, <1>2, <1>3, <1>4

\* A loop unrolled by a divisor of its range stays in the range and goes through all
\* of it.
LEMMA EvenTurns ==
  ASSUME NEW lo \in Nat, NEW hi \in Nat, lo <= hi, NEW s \in Nat \ {0}, (hi - lo) % s = 0
  PROVE  Unrolled(lo, hi, s) = lo .. (hi - 1)
<1>1. PICK m \in Nat : hi - lo = s * m
  <2>1. PICK a \in Nat : a = hi - lo
    OBVIOUS
  <2>2. PICK q \in Nat : a = s * q + (a % s)
    BY Division
  <2>3. PICK p \in Nat : p = s * q
    OBVIOUS
  <2>4. a % s = 0
    BY <2>1, Zenon
  <2>5. a = p
    BY <2>2, <2>3, <2>4
  <2>6. hi - lo = s * q
    BY <2>1, <2>3, <2>5, Zenon
  <2> QED
    BY <2>6
<1>2. hi = lo + s * m /\ s * m \in Nat
  BY <1>1
<1>3. ASSUME NEW i \in Strided(lo, hi, s) PROVE i .. (i + s - 1) \subseteq lo .. (hi - 1)
  <2>1. i \in Nat /\ i >= lo /\ i < hi /\ \E k \in Nat : i = lo + s * k
    <3>1. hi \in Int
      OBVIOUS
    <3> QED
      BY <3>1, StridedForm, ZenonT(40)
  <2>2. PICK k \in Nat : i = lo + s * k
    BY <2>1
  <2>3. k < m
    <3> SUFFICES ASSUME k >= m PROVE FALSE
      OBVIOUS
    <3>1. PICK z \in Nat : k = m + z
      OBVIOUS
    <3>2. s * k = s * m + s * z /\ s * z \in Nat
      BY <3>1
    <3> QED
      BY <1>1, <1>2, <2>1, <2>2, <3>2
  <2>4. PICK z \in Nat : m = k + 1 + z
    BY <2>3
  <2>5. s * m = s * k + s + s * z /\ s * z \in Nat /\ s * k \in Nat
    BY <2>4
  <2>6. i + s - 1 <= hi - 1
    BY <1>2, <2>2, <2>5
  <2> QED
    BY <1>2, <2>1, <2>6
<1>4. ASSUME NEW x \in lo .. (hi - 1)
      PROVE  \E i \in Strided(lo, hi, s) : x \in i .. (i + s - 1)
  <2>1. PICK a \in Nat : x = lo + a
    BY <1>2
  <2>2. PICK q \in Nat : a = s * q + (a % s)
    BY Division
  <2>3. a % s \in 0 .. (s - 1) /\ s * q \in Nat /\ (s * q) % s = 0
    <3>1. a % s \in 0 .. (s - 1)
      OBVIOUS
    <3> QED
      BY <3>1, MultipleOf
  <2>4. lo + s * q \in Strided(lo, hi, s)
    <3>1. (lo + s * q) - lo = s * q
      BY <2>3
    <3> QED
      BY <2>1, <2>2, <2>3, <3>1 DEF Strided
  <2>5. x \in (lo + s * q) .. (lo + s * q + s - 1)
    <3>1. PICK p \in Nat, e \in 0 .. (s - 1) : p = s * q /\ e = a % s
      BY <2>3
    <3>2. x = lo + (p + e)
      BY <2>1, <2>2, <3>1, Zenon
    <3>3. \A y, z \in Nat : \A w \in 0 .. (s - 1) : y + (z + w) \in (y + z) .. (y + z + s - 1)
      OBVIOUS
    <3>4. x \in (lo + p) .. (lo + p + s - 1)
      BY <3>1, <3>2, <3>3, Zenon
    <3> QED
      BY <3>1, <3>2
  <2> QED
    BY <2>4, <2>5
<1>5. Unrolled(lo, hi, s) = UNION {i .. (i + s - 1) : i \in Strided(lo, hi, s)}
  BY DEF Unrolled
<1> QED
  BY <1>3, <1>4, <1>5

\* All of the matrix, and the rows of a core.
LEMMA EvenRanges ==
  ASSUME NEW n \in Nat \ {0}, NEW c \in Nat, NEW s \in Nat \ {0}
  PROVE  /\ Lda % s = 0 => Unrolled(0, Lda, s) = All
         /\ Blk(n) % s = 0 => Unrolled(c * Blk(n), (c + 1) * Blk(n), s) = Own(c, n)
<1>1. Lda \in Nat /\ Lda - 0 = Lda
  BY LdaAssumption
<1>2. Lda % s = 0 => Unrolled(0, Lda, s) = All
  BY <1>1, EvenTurns DEF All
<1>3. PICK b \in Nat : b = Blk(n)
  BY Products
<1>4. c * b \in Nat /\ (c + 1) * b = c * b + b
  BY <1>3
<1>5. Blk(n) % s = 0 => Unrolled(c * b, (c + 1) * b, s) = (c * b) .. ((c + 1) * b - 1)
  <2>1. PICK lo \in Nat, hi \in Nat : lo = c * b /\ hi = (c + 1) * b /\ lo <= hi /\ hi - lo = b
    BY <1>3, <1>4
  <2>2. ASSUME Blk(n) % s = 0 PROVE Unrolled(lo, hi, s) = lo .. (hi - 1)
    <3>1. (hi - lo) % s = 0
      BY <1>3, <2>1, <2>2, Zenon
    <3> QED
      BY <2>1, <3>1, EvenTurns, Zenon
  <2> QED
    BY <2>1, <2>2, Zenon
<1> QED
  BY <1>2, <1>3, <1>5 DEF Own

\* The quotient of a multiple of n.
LEMMA QuotientOf ==
  ASSUME NEW n \in Nat \ {0}, NEW q \in Nat
  PROVE  (n * q) \div n = q
<1>1. PICK a \in Nat : a = n * q
  OBVIOUS
<1>2. a % n = 0
  BY <1>1, MultipleOf
<1>3. PICK p \in Nat : p = a \div n /\ n * p = a
  <2>1. a \div n \in Nat
    OBVIOUS
  <2>2. a = n * (a \div n) + (a % n)
    OBVIOUS
  <2>3. PICK p \in Nat : p = a \div n
    BY <2>1
  <2>4. n * p \in Nat /\ a = n * p + 0
    BY <1>2, <2>2, <2>3
  <2> QED
    BY <2>3, <2>4
<1>4. ASSUME NEW x \in Nat, NEW y \in Nat, x < y PROVE n * x # n * y
  <2>1. PICK z \in Nat : y = x + 1 + z
    <3>1. y - (x + 1) \in Nat /\ y = x + 1 + (y - (x + 1))
      BY <1>4
    <3> QED
      BY <3>1
  <2>2. n * y = n * x + n + n * z /\ n * z \in Nat /\ n * x \in Nat
    BY <2>1
  <2> QED
    BY <2>2
<1>5. ~(p < q) /\ ~(q < p)
  BY <1>1, <1>3, <1>4
<1>6. p = q
  BY <1>5
<1> QED
  BY <1>1, <1>3, <1>6

\* The shares of the rows, when n divides lda and when it does not.
LEMMA Shares ==
  ASSUME NEW n \in Nat \ {0}, NEW c \in 0 .. n
  PROVE  /\ (c * Lda) \div n \in Nat
         /\ Lda % n = 0 => (c * Lda) \div n = c * Blk(n)
<1>1. Lda \in Nat /\ Blk(n) \in Nat
  BY Products
<1>2. PICK a \in Nat : a = c * Lda
  BY <1>1
<1>3. a \div n \in Nat
  OBVIOUS
<1>4. ASSUME Lda % n = 0 PROVE a \div n = c * Blk(n)
  <2>1. PICK b \in Nat : b = Blk(n) /\ Lda = n * b
    <3>1. Lda = n * (Lda \div n) + (Lda % n) /\ Lda \div n \in Nat
      BY <1>1
    <3>2. n * (Lda \div n) \in Nat
      BY <3>1
    <3> QED
      BY <1>1, <1>4, <3>1, <3>2 DEF Blk
  <2>2. PICK q \in Nat : q = c * b
    BY <2>1
  <2>3. a = n * q
    <3>1. c * (n * b) = n * (c * b)
      OBVIOUS
    <3> QED
      BY <1>2, <2>1, <2>2, <3>1, Zenon
  <2>4. a \div n = q
    BY <2>3, QuotientOf, Zenon
  <2> QED
    BY <2>1, <2>2, <2>4, Zenon
<1> QED
  BY <1>2, <1>3, <1>4

\* Different ways to write the rows or columns of a core.
LEMMA OwnRanges ==
  ASSUME NEW n \in Nat \ {0}, NEW c \in 0 .. (n - 1), Lda % n = 0
  PROVE  /\ ((c * Lda) \div n) .. ((c * Lda) \div n + Blk(n) - 1) = Own(c, n)
         /\ \A s \in Nat \ {0} :
              Blk(n) % s = 0 =>
                Unrolled((c * Lda) \div n, ((c + 1) * Lda) \div n, s) = Own(c, n)
         /\ Blk(n) % 4 = 0 =>
              Unrolled(Blk(n) * c, 4 * ((IF c = n - 1 THEN Lda ELSE Blk(n) * (c + 1)) \div 4), 4)
                = Own(c, n)
<1>1. Lda \in Nat /\ Blk(n) \in Nat /\ c \in Nat /\ c + 1 \in 0 .. n /\ c \in 0 .. n
  BY Products
<1>2. (c * Lda) \div n = c * Blk(n) /\ ((c + 1) * Lda) \div n = (c + 1) * Blk(n)
  BY <1>1, Shares
<1>3. c * Blk(n) + Blk(n) = (c + 1) * Blk(n)
  BY <1>1
<1>4. ((c * Lda) \div n) .. ((c * Lda) \div n + Blk(n) - 1) = Own(c, n)
  <2>1. PICK x \in Nat : x = c * Blk(n)
    BY <1>1
  <2>2. x + Blk(n) - 1 = (c + 1) * Blk(n) - 1
    BY <1>1, <1>3, <2>1
  <2>3. x .. (x + Blk(n) - 1) = Own(c, n)
    BY <2>1, <2>2, Zenon DEF Own
  <2>4. (c * Lda) \div n = x
    BY <1>2, <2>1, Zenon
  <2> QED
    BY <2>3, <2>4, Zenon
<1>5. ASSUME NEW s \in Nat \ {0}, Blk(n) % s = 0
      PROVE  Unrolled((c * Lda) \div n, ((c + 1) * Lda) \div n, s) = Own(c, n)
  <2>1. Unrolled(c * Blk(n), (c + 1) * Blk(n), s) = Own(c, n)
    BY <1>1, <1>5, EvenRanges
  <2> QED
    BY <1>2, <2>1, Zenon
<1>6. ASSUME Blk(n) % 4 = 0
      PROVE  Unrolled(Blk(n) * c, 4 * ((IF c = n - 1 THEN Lda ELSE Blk(n) * (c + 1)) \div 4), 4)
               = Own(c, n)
  <2>1. Unrolled(c * Blk(n), (c + 1) * Blk(n), 4) = Own(c, n)
    <3>1. 4 \in Nat \ {0}
      OBVIOUS
    <3> QED
      BY <1>1, <1>6, <3>1, EvenRanges
  <2>2. (IF c = n - 1 THEN Lda ELSE Blk(n) * (c + 1)) = (c + 1) * Blk(n)
    <3>1. Lda = n * Blk(n)
      <4>1. Lda = n * (Lda \div n) + (Lda % n)
        BY <1>1
      <4> QED
        BY <1>1, <4>1 DEF Blk
    <3>2. CASE c = n - 1
      BY <1>1, <3>1, <3>2
    <3>3. CASE c # n - 1
      BY <1>1, <3>3
    <3> QED
      BY <3>2, <3>3
  <2>3. 4 * (((c + 1) * Blk(n)) \div 4) = (c + 1) * Blk(n)
    <3>1. PICK b \in Nat : Blk(n) = 4 * b
      BY <1>1, <1>6
    <3>2. PICK z \in Nat : z = (c + 1) * b
      BY <1>1
    <3>3. (c + 1) * Blk(n) = 4 * z
      BY <1>1, <3>1, <3>2
    <3> QED
      BY <3>3
  <2>4. Blk(n) * c = c * Blk(n)
    BY <1>1
  <2> QED
    BY <2>1, <2>2, <2>3, <2>4, Zenon
<1> QED
  BY <1>4, <1>5, <1>6

\* What a turn of a loop with step s reaches when s divides its range.
LEMMA TurnInside ==
  ASSUME NEW hi \in Nat, NEW s \in Nat \ {0}, hi % s = 0,
         NEW a \in Nat, NEW k \in Nat, NEW e \in Nat, a + s * k < hi, a + e < s
  PROVE  a + s * k + e < hi
<1>1. PICK m \in Nat : hi = s * m
  <2>1. PICK q \in Nat : hi = s * q + (hi % s)
    BY Division
  <2>2. s * q \in Nat /\ hi = s * q + 0
    BY <2>1
  <2> QED
    BY <2>2
<1>2. s * k \in Nat /\ s * m \in Nat
  OBVIOUS
<1>3. k < m
  <2> SUFFICES ASSUME ~(k < m) PROVE FALSE
    OBVIOUS
  <2>1. PICK z \in Nat : k = m + z
    <3>1. k - m \in Nat /\ k = m + (k - m)
      OBVIOUS
    <3> QED
      BY <3>1
  <2>2. s * k = s * m + s * z /\ s * z \in Nat
    BY <2>1
  <2> QED
    BY <1>1, <1>2, <2>2
<1>4. PICK z \in Nat : m = k + 1 + z
  <2>1. m - (k + 1) \in Nat /\ m = k + 1 + (m - (k + 1))
    BY <1>3
  <2> QED
    BY <2>1
<1>5. s * m = s * k + s + s * z /\ s * z \in Nat
  BY <1>4
<1> QED
  BY <1>1, <1>2, <1>5

\* The loop itself: a core that starts at a stays below the end.
LEMMA StridedInside ==
  ASSUME NEW hi \in Nat, NEW s \in Nat \ {0}, hi % s = 0,
         NEW a \in Nat, NEW i \in Strided(a, hi, s), NEW e \in Nat, a + e < s
  PROVE  i \in Nat /\ i + e \in 0 .. (hi - 1)
<1>1. hi \in Int
  OBVIOUS
<1>2. i \in Nat /\ i < hi /\ \E k \in Nat : i = a + s * k
  BY <1>1, StridedForm, ZenonT(40)
<1>3. PICK k \in Nat : i = a + s * k
  BY <1>2
<1>4. a + s * k + e < hi
  BY <1>2, <1>3, TurnInside
<1> QED
  BY <1>2, <1>3, <1>4

\* Two groups of w elements.
LEMMA GroupsApart ==
  ASSUME NEW w \in {4, 16}, NEW a \in Int, NEW b \in Int, a # b
  PROVE  (w * a) .. (w * a + w - 1) \cap (w * b) .. (w * b + w - 1) = {}
<1>1. CASE w = 4
  BY <1>1
<1>2. CASE w = 16
  BY <1>2
<1> QED
  BY <1>1, <1>2

\* What core c takes when the elements are dealt out one at a time.
Turn(c, n) == {c + n * k : k \in Nat}

\* No element is dealt to two cores.
LEMMA TurnsApart ==
  ASSUME NEW n \in Nat \ {0}, NEW c \in 0 .. (n - 1), NEW d \in 0 .. (n - 1), c # d,
         NEW S, NEW T, S \subseteq Turn(c, n), T \subseteq Turn(d, n)
  PROVE  S \cap T = {}
<1> SUFFICES ASSUME NEW x \in S, x \in T PROVE FALSE
  OBVIOUS
<1>1. PICK k \in Nat : x = c + n * k
  BY DEF Turn
<1>2. PICK l \in Nat : x = d + n * l
  BY DEF Turn
<1>3. c + n * k # d + n * l
  BY ResiduesApart
<1> QED
  BY <1>1, <1>2, <1>3

\* A turn of a loop that deals out m elements, one after the other.
LEMMA OneAtATime ==
  ASSUME NEW n \in Nat \ {0}, NEW c \in 0 .. (n - 1), NEW m \in Nat \ {0}, NEW hi \in Int,
         NEW i \in Strided(c, hi, m * n)
  PROVE  \A j \in Nat : i + j * n \in Turn(c, n)
<1> TAKE j \in Nat
<1>1. PICK s \in Nat \ {0} : s = m * n
  OBVIOUS
<1>2. PICK k \in Nat : i = c + s * k
  <2>1. i \in Strided(c, hi, s) /\ c \in Nat
    BY <1>1
  <2> QED
    BY <2>1, StridedForm, ZenonT(40)
<1>3. m * k + j \in Nat /\ i + j * n = c + n * (m * k + j)
  BY <1>1, <1>2
<1> QED
  BY <1>3 DEF Turn

\* The loops over single rows, columns or elements.
LEMMA Dealt ==
  ASSUME NEW n \in Nat \ {0}, NEW c \in 0 .. (n - 1)
  PROVE  /\ UNION {{i, i + n} : i \in Strided(c, Lda, 2 * n)} \subseteq Turn(c, n)
         /\ UNION {{i, i + n} : i \in Strided(c, DataSize, 2 * n)} \subseteq Turn(c, n)
         /\ UNION {{j, j + n, j + 2 * n, j + 3 * n} : j \in Strided(c, Lda, 4 * n)}
              \subseteq Turn(c, n)
         /\ Strided(c, DataSize, n) \subseteq Turn(c, n)
<1>1. Lda \in Int /\ DataSize \in Int /\ 2 \in Nat \ {0} /\ 4 \in Nat \ {0} /\ 1 \in Nat \ {0}
  BY LdaAssumption, DataSizeAssumption
<1>2. ASSUME NEW hi \in Int, NEW m \in Nat \ {0}, NEW i \in Strided(c, hi, m * n)
      PROVE  /\ i \in Turn(c, n) /\ i + n \in Turn(c, n)
             /\ i + 2 * n \in Turn(c, n) /\ i + 3 * n \in Turn(c, n)
  <2>1. i \in Int
    BY DEF Strided
  <2>2. i + 0 * n = i /\ i + 1 * n = i + n
    BY <2>1
  <2> QED
    BY <2>2, OneAtATime
<1>3. UNION {{i, i + n} : i \in Strided(c, Lda, 2 * n)} \subseteq Turn(c, n)
  BY <1>1, <1>2
<1>4. UNION {{i, i + n} : i \in Strided(c, DataSize, 2 * n)} \subseteq Turn(c, n)
  BY <1>1, <1>2
<1>5. UNION {{j, j + n, j + 2 * n, j + 3 * n} : j \in Strided(c, Lda, 4 * n)} \subseteq Turn(c, n)
  BY <1>1, <1>2
<1>6. Strided(c, DataSize, n) \subseteq Turn(c, n)
  <2>1. 1 * n = n
    OBVIOUS
  <2> QED
    BY <1>1, <1>2, <2>1
<1> QED
  BY <1>3, <1>4, <1>5, <1>6

\* What core c takes when groups of w elements are dealt out.
Groups(c, n, w) == UNION {(w * a) .. (w * a + w - 1) : a \in Turn(c, n)}

\* No element is in the groups of two cores.
LEMMA GroupSetsApart ==
  ASSUME NEW n \in Nat \ {0}, NEW c \in 0 .. (n - 1), NEW d \in 0 .. (n - 1), c # d,
         NEW w \in {4, 16}, NEW S, NEW T, S \subseteq Groups(c, n, w), T \subseteq Groups(d, n, w)
  PROVE  S \cap T = {}
<1> SUFFICES ASSUME NEW x \in S, x \in T PROVE FALSE
  OBVIOUS
<1>1. PICK a \in Turn(c, n) : x \in (w * a) .. (w * a + w - 1)
  BY DEF Groups
<1>2. PICK b \in Turn(d, n) : x \in (w * b) .. (w * b + w - 1)
  BY DEF Groups
<1>3. a \in Int /\ b \in Int
  BY DEF Turn
<1>4. a # b
  BY TurnsApart
<1> QED
  BY <1>1, <1>2, <1>3, <1>4, GroupsApart

\* The groups of a loop over groups of w, and those w * n behind them.
LEMMA GroupStart ==
  ASSUME NEW n \in Nat \ {0}, NEW c \in 0 .. (n - 1), NEW w \in {4, 16}, NEW m \in {1, 2},
         NEW hi \in Int, NEW i \in Strided(w * c, hi, (w * m) * n), NEW j \in {0, 1}
  PROVE  i \in Int /\ (i + j * (w * n)) .. (i + j * (w * n) + w - 1) \subseteq Groups(c, n, w)
<1>1. PICK s \in Nat \ {0} : s = (w * m) * n
  OBVIOUS
<1>2. PICK k \in Nat : i = w * c + s * k
  <2>1. i \in Strided(w * c, hi, s) /\ w * c \in Nat
    BY <1>1
  <2> QED
    BY <2>1, StridedForm
<1>3. s * k = w * (n * (m * k))
  BY <1>1
<1>4. PICK a \in Int : a = c + n * (m * k + j)
  OBVIOUS
<1>5. a \in Turn(c, n)
  <2>1. m * k + j \in Nat
    OBVIOUS
  <2> QED
    BY <1>4, <2>1 DEF Turn
<1>6. n * (m * k + j) = n * (m * k) + j * n
  OBVIOUS
<1>7. i + j * (w * n) = w * a
  BY <1>2, <1>3, <1>4, <1>6
<1> QED
  BY <1>2, <1>5, <1>7 DEF Groups

\* The loops over groups of four or sixteen.
LEMMA DealtInGroups ==
  ASSUME NEW n \in Nat \ {0}, NEW c \in 0 .. (n - 1)
  PROVE  /\ UNION {jj .. (jj + 15) : jj \in Strided(16 * c, Lda, 16 * n)} \subseteq Groups(c, n, 16)
         /\ UNION {j .. (j + 3) : j \in Strided(4 * c, Lda, 4 * n)} \subseteq Groups(c, n, 4)
         /\ UNION {Unrolled(jj, IF jj + 16 < Lda THEN jj + 16 ELSE Lda, 4) :
                     jj \in Strided(16 * c, Lda, 16 * n)} \subseteq Groups(c, n, 16)
         /\ vvadd1(c, n) \subseteq Groups(c, n, 4)
<1>1. Lda \in Int /\ DataSize \in Int
  BY LdaAssumption, DataSizeAssumption
<1>2. ASSUME NEW w \in {4, 16}, NEW i \in Strided(w * c, Lda, w * n)
      PROVE  i \in Int /\ i .. (i + w - 1) \subseteq Groups(c, n, w)
  <2>1. w * 1 = w /\ 0 * (w * n) = 0
    OBVIOUS
  <2>2. i \in Strided(w * c, Lda, (w * 1) * n)
    BY <2>1
  <2>3. i \in Int /\ (i + 0 * (w * n)) .. (i + 0 * (w * n) + w - 1) \subseteq Groups(c, n, w)
    BY <1>1, <2>2, GroupStart
  <2> QED
    BY <2>1, <2>3
<1>3. UNION {jj .. (jj + 15) : jj \in Strided(16 * c, Lda, 16 * n)} \subseteq Groups(c, n, 16)
  BY <1>2
<1>4. UNION {j .. (j + 3) : j \in Strided(4 * c, Lda, 4 * n)} \subseteq Groups(c, n, 4)
  BY <1>2
<1>5. ASSUME NEW jj \in Strided(16 * c, Lda, 16 * n)
      PROVE  Unrolled(jj, IF jj + 16 < Lda THEN jj + 16 ELSE Lda, 4) \subseteq Groups(c, n, 16)
  <2>1. jj \in Int /\ jj .. (jj + 15) \subseteq Groups(c, n, 16)
    BY <1>2
  <2>2. Unrolled(jj, IF jj + 16 < Lda THEN jj + 16 ELSE Lda, 4) \subseteq jj .. (jj + 15)
    BY <1>1, <2>1 DEF Unrolled, Strided
  <2> QED
    BY <2>1, <2>2
<1>6. ASSUME NEW i \in Strided(c * 4, DataSize, 8 * n)
      PROVE  /\ i .. (i + 3) \subseteq Groups(c, n, 4)
             /\ (i + n * 4) .. (i + n * 4 + 3) \subseteq Groups(c, n, 4)
  <2>1. i \in Strided(4 * c, DataSize, (4 * 2) * n)
    OBVIOUS
  <2>2. /\ i \in Int
        /\ (i + 0 * (4 * n)) .. (i + 0 * (4 * n) + 4 - 1) \subseteq Groups(c, n, 4)
        /\ (i + 1 * (4 * n)) .. (i + 1 * (4 * n) + 4 - 1) \subseteq Groups(c, n, 4)
    BY <1>1, <2>1, GroupStart
  <2> QED
    BY <2>2
<1>7. vvadd1(c, n) \subseteq Groups(c, n, 4)
  BY <1>6 DEF vvadd1
<1> QED
  BY <1>3, <1>4, <1>5, <1>7

-----------------------------------------------------------------------------
(* No race                                                                 *)

\* The rows of a core are its own.
LEMMA OwnApart ==
  ASSUME NEW n \in Nat \ {0}, NEW c \in 0 .. (n - 1), NEW d \in 0 .. (n - 1), c # d
  PROVE  Own(c, n) \cap Own(d, n) = {}
<1>1. Blk(n) \in Nat
  BY Products
<1> QED
  BY <1>1, ChunksApart DEF Own

\* Kernels of one block of rows per core.
LEMMA OwnRowsApart ==
  ASSUME NEW n \in Nat \ {0}, NEW c \in 0 .. (n - 1), NEW d \in 0 .. (n - 1), c # d
  PROVE  /\ ApartPlans(ap_matmul(c, n), ap_matmul(d, n))
         /\ ApartPlans(ar_matmul(c, n), ar_matmul(d, n))
         /\ ApartPlans(matmul(c, n), matmul(d, n))
         /\ ApartPlans(do_matmul(c, n), do_matmul(d, n))
<1>1. ApartPlans(ap_matmul(c, n), ap_matmul(d, n))
  BY OwnApart, DistinctRows, OneSegment DEF ap_matmul, Add
<1>2. ApartPlans(ar_matmul(c, n), ar_matmul(d, n))
  <2>1. (Own(c, n) \cap All) \cap (Own(d, n) \cap All) = {}
    BY OwnApart
  <2> QED
    BY <2>1, DistinctRows, OneSegment DEF ar_matmul, Add
<1>3. ApartPlans(matmul(c, n), matmul(d, n))
  BY OwnApart, DistinctRows, OneSegment DEF matmul, Set
<1>4. ApartPlans(do_matmul(c, n), do_matmul(d, n))
  <2>1. 32 \div n \in Nat
    OBVIOUS
  <2>2. (c * (32 \div n)) .. ((c + 1) * (32 \div n) - 1)
          \cap (d * (32 \div n)) .. ((d + 1) * (32 \div n) - 1) = {}
    BY <2>1, ChunksApart
  <2> QED
    BY <2>2, DistinctRows, OneSegment DEF do_matmul, Set32
<1> QED
  BY <1>1, <1>2, <1>3, <1>4

\* The row a core is at in the s-th segment of its loop, w segments per row.
LEMMA RowInOwn ==
  ASSUME NEW n \in Nat \ {0}, NEW c \in Nat, NEW w \in Nat \ {0}, Blk(n) \in Nat,
         NEW s \in 1 .. (Blk(n) * w)
  PROVE  c * Blk(n) + ((s - 1) \div w) \in Own(c, n)
<1> DEFINE b == Blk(n)
           a == s - 1
<1>1. b \in Nat /\ a \in Nat /\ a < b * w
  OBVIOUS
<1> HIDE DEF a, b
<1>2. PICK q \in Nat : a = w * q + (a % w) /\ q = a \div w
  <2>1. a \div w \in Nat
    BY <1>1
  <2>2. a = w * (a \div w) + (a % w)
    BY <1>1
  <2> QED
    BY <2>1, <2>2
<1>3. a % w \in Nat
  BY <1>1
<1>4. q < b
  <2> SUFFICES ASSUME q >= b PROVE FALSE
    BY <1>1
  <2>1. PICK z \in Nat : q = b + z
    BY <1>1
  <2>2. w * q = b * w + w * z /\ w * z \in Nat /\ b * w \in Nat
    BY <1>1, <2>1
  <2> QED
    BY <1>1, <1>2, <1>3, <2>2
<1>5. c * b \in Nat /\ (c + 1) * b = c * b + b
  BY <1>1
<1>6. c * b + q \in (c * b) .. ((c + 1) * b - 1)
  BY <1>1, <1>4, <1>5
<1> QED
  BY <1>2, <1>6 DEF Own, a, b

\* Kernels that go through the core's rows with a barrier in each turn.
LEMMA RowLoopsApart ==
  ASSUME NEW n \in Nat \ {0}, NEW c \in 0 .. (n - 1), NEW d \in 0 .. (n - 1), c # d
  PROVE  /\ ApartPlans(an_matmul(c, n), an_matmul(d, n))
         /\ ApartPlans(ad_matmul(c, n), ad_matmul(d, n))
<1>1. ASSUME NEW w \in Nat \ {0}, NEW s \in 1 .. (Blk(n) * w)
      PROVE  {c * Blk(n) + ((s - 1) \div w)} \cap {d * Blk(n) + ((s - 1) \div w)} = {}
  BY <1>1, RowInOwn, OwnApart, Products
<1>2. ApartPlans(an_matmul(c, n), an_matmul(d, n))
  <2> DEFINE f(x) == [s \in 1 .. (Blk(n) * Lda) |->
                        Seg({Add({x * Blk(n) + ((s - 1) \div Lda)}, All, {(s - 1) % Lda})})]
  <2>1. Lda \in Nat \ {0} /\ Blk(n) * Lda \in Nat
    BY Products
  <2>2. ASSUME NEW s \in 1 .. (Blk(n) * Lda) PROVE Apart(f(c)[s], f(d)[s])
    <3>1. {c * Blk(n) + ((s - 1) \div Lda)} \cap {d * Blk(n) + ((s - 1) \div Lda)} = {}
      BY <1>1, <2>1
    <3> QED
      BY <3>1, DistinctRows DEF Add
  <2>3. ApartPlans(f(c), f(d))
    BY <2>1, <2>2, FunctionsApart
  <2> QED
    BY <2>3, LoopApart DEF an_matmul
<1>3. ApartPlans(ad_matmul(c, n), ad_matmul(d, n))
  <2> DEFINE f(x) == [s \in 1 .. (Blk(n) * 16) |->
                        LET k == 2 * ((s - 1) % 16)
                        IN  Seg({Add32({x * Blk(n) + ((s - 1) \div 16)}, 0 .. 31, {k, k + 1})})]
  <2>1. Blk(n) * 16 \in Nat
    BY Products
  <2>2. ASSUME NEW s \in 1 .. (Blk(n) * 16) PROVE Apart(f(c)[s], f(d)[s])
    <3>1. {c * Blk(n) + ((s - 1) \div 16)} \cap {d * Blk(n) + ((s - 1) \div 16)} = {}
      BY <1>1
    <3> QED
      BY <3>1, DistinctRows DEF Add32
  <2>3. ApartPlans(f(c), f(d))
    <3>1. \A x \in {c, d} : f(x) = [s \in 1 .. (Blk(n) * 16) |-> f(x)[s]]
      OBVIOUS
    <3> HIDE DEF f
    <3> QED
      BY <2>1, <2>2, <3>1, FunctionsApart
  <2> QED
    BY <2>3, LoopApart DEF ad_matmul
<1> QED
  BY <1>2, <1>3

\* The kernels of two cores: between them the cores have disjoint rows or columns.
LEMMA SplitApart ==
  ASSUME NEW n \in Nat \ {0}, NEW c \in 0 .. (n - 1), NEW d \in 0 .. (n - 1), c # d,
         NEW S, NEW T, \A a \in S, b \in T : a.rows \cap b.rows = {} \/ a.cols \cap b.cols = {}
  PROVE  ApartPlans(<<Seg(Split(c, n, S, T))>>, <<Seg(Split(d, n, S, T))>>)
<1>1. \A a \in Split(c, n, S, T), b \in Split(d, n, S, T) :
        a.rows \cap b.rows = {} \/ a.cols \cap b.cols = {}
  BY DEF Split
<1> QED
  BY <1>1, StoresApart, OneSegment

\* The left columns are core 0's, the right ones core 1's.
LEMMA ColumnSplitsApart ==
  ASSUME NEW n \in Nat \ {0}, NEW c \in 0 .. (n - 1), NEW d \in 0 .. (n - 1), c # d
  PROVE  /\ ApartPlans(al_matmul(c, n), al_matmul(d, n))
         /\ ApartPlans(bf_matmul(c, n), bf_matmul(d, n))
         /\ ApartPlans(cl_matmul(c, n), cl_matmul(d, n))
         /\ ApartPlans(df_matmul(c, n), df_matmul(d, n))
<1>1. (0 .. 15) \cap (16 .. 31) = {}
  OBVIOUS
<1>2. ApartPlans(al_matmul(c, n), al_matmul(d, n))
  <2> DEFINE S == {Add(0 .. 31, 0 .. 15, 0 .. 31)}
             T == {Add(0 .. 31, 16 .. 31, 0 .. 31)}
  <2>1. \A a \in S, b \in T : a.cols \cap b.cols = {}
    BY <1>1 DEF Add, Block
  <2> HIDE DEF S, T
  <2>2. ApartPlans(<<Seg(Split(c, n, S, T))>>, <<Seg(Split(d, n, S, T))>>)
    BY <2>1, SplitApart
  <2> QED
    BY <2>2 DEF al_matmul, S, T
<1>3. ApartPlans(bf_matmul(c, n), bf_matmul(d, n))
  <2> DEFINE S == {Set(0 .. 31, 0 .. 15, 0 .. 31)}
             T == {Set(0 .. 31, 16 .. 31, 0 .. 31)}
  <2>1. \A a \in S, b \in T : a.cols \cap b.cols = {}
    BY <1>1 DEF Set, Block
  <2> HIDE DEF S, T
  <2>2. ApartPlans(<<Seg(Split(c, n, S, T))>>, <<Seg(Split(d, n, S, T))>>)
    BY <2>1, SplitApart
  <2> QED
    BY <2>2 DEF bf_matmul, S, T
<1>4. ApartPlans(cl_matmul(c, n), cl_matmul(d, n))
  <2> DEFINE S == {Add(0 .. 31, 0 .. 15, 0 .. 31)}
             T == {Add(rows, 16 .. 31, 0 .. 31) : rows \in {16 .. 31, 0 .. 15}}
  <2>1. \A a \in S, b \in T : a.cols \cap b.cols = {}
    BY <1>1 DEF Add, Block
  <2> HIDE DEF S, T
  <2>2. ApartPlans(<<Seg(Split(c, n, S, T))>>, <<Seg(Split(d, n, S, T))>>)
    BY <2>1, SplitApart
  <2> QED
    BY <2>2 DEF cl_matmul, S, T
<1>5. ApartPlans(df_matmul(c, n), df_matmul(d, n))
  <2>1. \A a \in FirstColumns, b \in LastColumns : a.cols \cap b.cols = {}
    BY <1>1 DEF FirstColumns, LastColumns, Add, Block
  <2> QED
    BY <2>1, SplitApart DEF df_matmul
<1> QED
  BY <1>2, <1>3, <1>4, <1>5

\* The upper rows are one core's, the lower ones the other's.
LEMMA RowSplitsApart ==
  ASSUME NEW n \in Nat \ {0}, NEW c \in 0 .. (n - 1), NEW d \in 0 .. (n - 1), c # d
  PROVE  /\ ApartPlans(av_matmul(c, n), av_matmul(d, n))
         /\ ApartPlans(bo_matmul(c, n), bo_matmul(d, n))
         /\ ApartPlans(bh_matmul(c, n), bh_matmul(d, n))
         /\ ApartPlans(bk_matmul(c, n), bk_matmul(d, n))
         /\ ApartPlans(dv_matmul(c, n), dv_matmul(d, n))
<1>1. (0 .. 15) \cap (16 .. 31) = {}
  OBVIOUS
<1>2. ApartPlans(av_matmul(c, n), av_matmul(d, n))
  <2>1. \A a \in FirstRows, b \in LastRows : a.rows \cap b.rows = {}
    BY <1>1 DEF FirstRows, LastRows, Add, Block
  <2> QED
    BY <2>1, SplitApart DEF av_matmul
<1>3. ApartPlans(bo_matmul(c, n), bo_matmul(d, n))
  <2> DEFINE S == {Set(Unrolled(0, 16, 2), 0 .. 31, 0 .. 31)}
             T == {Set(Unrolled(16, 32, 2), 0 .. 31, 0 .. 31)}
  <2>1. Unrolled(0, 16, 2) \subseteq 0 .. 15
    BY DEF Unrolled, Strided
  <2>2. Unrolled(16, 32, 2) \cap (0 .. 15) = {}
    BY DEF Unrolled, Strided
  <2>3. \A a \in S, b \in T : a.rows \cap b.rows = {}
    BY <2>1, <2>2 DEF Set, Block
  <2> HIDE DEF S, T
  <2>4. ApartPlans(<<Seg(Split(c, n, S, T))>>, <<Seg(Split(d, n, S, T))>>)
    BY <2>3, SplitApart
  <2> QED
    BY <2>4 DEF bo_matmul, S, T
<1>4. ApartPlans(bh_matmul(c, n), bh_matmul(d, n))
  <2> DEFINE S == {Add(0 .. (Lda \div 2 - 1), Unrolled(0, Lda, 8), LdaHalf(m)) : m \in {0, 1}}
             T == {Add((Lda \div 2) .. (Lda - 1), All, LdaHalf(m)) : m \in {0, 1}}
  <2>1. 0 .. (Lda \div 2 - 1) \cap (Lda \div 2) .. (Lda - 1) = {}
    BY Products
  <2>2. \A a \in S, b \in T : a.rows \cap b.rows = {}
    <3>1. \A x, y, z : Add(x, y, z).rows = x
      BY DEF Add, Block
    <3>2. ASSUME NEW a \in S PROVE a.rows = 0 .. (Lda \div 2 - 1)
      <4>1. PICK m \in {0, 1} : a = Add(0 .. (Lda \div 2 - 1), Unrolled(0, Lda, 8), LdaHalf(m))
        OBVIOUS
      <4> QED
        BY <3>1, <4>1
    <3>3. ASSUME NEW b \in T PROVE b.rows = (Lda \div 2) .. (Lda - 1)
      <4>1. PICK m \in {0, 1} : b = Add((Lda \div 2) .. (Lda - 1), All, LdaHalf(m))
        OBVIOUS
      <4> QED
        BY <3>1, <4>1
    <3> HIDE DEF S, T
    <3> QED
      BY <2>1, <3>2, <3>3
  <2> HIDE DEF S, T
  <2>3. ApartPlans(<<Seg(Split(c, n, S, T))>>, <<Seg(Split(d, n, S, T))>>)
    BY <2>2, SplitApart
  <2> QED
    BY <2>3 DEF bh_matmul, S, T
<1>5. /\ ApartPlans(bk_matmul(c, n), bk_matmul(d, n))
      /\ ApartPlans(dv_matmul(c, n), dv_matmul(d, n))
  <2> DEFINE S == {Add32(0 .. 15, 0 .. 31, KkHalf(kk)) : kk \in {0, 16}}
             T == {Add32(16 .. 31, 0 .. 31, KkHalf(kk)) : kk \in {0, 16}}
  <2>1. \A a \in S, b \in T : a.rows \cap b.rows = {}
    BY <1>1 DEF Add32, Block
  <2> HIDE DEF S, T
  <2>2. /\ ApartPlans(<<Seg(Split(c, n, S, T))>>, <<Seg(Split(d, n, S, T))>>)
        /\ ApartPlans(<<Seg(Split(c, n, T, S))>>, <<Seg(Split(d, n, T, S))>>)
    BY <2>1, SplitApart
  <2> QED
    BY <2>2 DEF bk_matmul, dv_matmul, S, T
<1> QED
  BY <1>2, <1>3, <1>4, <1>5

\* Sixteen rows for each of two cores, which the others do not take part in.
LEMMA HalvesApart ==
  ASSUME NEW n \in Nat \ {0}, NEW c \in 0 .. (n - 1), NEW d \in 0 .. (n - 1), c # d
  PROVE  /\ ApartPlans(ay_matmul(c, n), ay_matmul(d, n))
         /\ ApartPlans(bc_matmul(c, n), bc_matmul(d, n))
<1>1. ApartPlans(<<Idle>>, <<Idle>>)
  BY IdleApart, OneSegment
<1>2. \A x : Apart(Seg(x), Idle) /\ Apart(Idle, Seg(x))
  BY DEF Apart, SomeOverlap, Idle, Seg, Segment
<1>3. \A x : ApartPlans(<<Seg(x)>>, <<Idle>>) /\ ApartPlans(<<Idle>>, <<Seg(x)>>)
  BY <1>2, OneSegment
<1>4. ApartPlans(ay_matmul(c, n), ay_matmul(d, n))
  <2>1. CASE c <= 1 /\ d <= 1
    <3>1. (16 * c) .. (16 * (IF n = 1 THEN 2 ELSE c + 1) - 1)
            \cap (16 * d) .. (16 * (IF n = 1 THEN 2 ELSE d + 1) - 1) = {}
      BY <2>1
    <3>2. Apart(Seg({SixteenRows(c, n)}), Seg({SixteenRows(d, n)}))
      BY <3>1, DistinctRows DEF SixteenRows, Set32
    <3>3. /\ ay_matmul(c, n) = <<Seg({SixteenRows(c, n)})>>
          /\ ay_matmul(d, n) = <<Seg({SixteenRows(d, n)})>>
      BY <2>1 DEF ay_matmul
    <3> QED
      BY <3>2, <3>3, OneSegment
  <2>2. CASE c > 1 \/ d > 1
    BY <1>1, <1>3, <2>2 DEF ay_matmul
  <2> QED
    BY <2>1, <2>2
<1>5. ApartPlans(bc_matmul(c, n), bc_matmul(d, n))
  <2>1. CASE n = 2 /\ Lda = 32
    <3> DEFINE S(x) == {Add(TwoCoreRows(x), 0 .. 31, KkHalf(kk)) : kk \in {0, 16}}
    <3>1. TwoCoreRows(c) \cap TwoCoreRows(d) = {}
      BY <2>1 DEF TwoCoreRows
    <3>2. \A a \in S(c), b \in S(d) : a.rows \cap b.rows = {}
      BY <3>1 DEF Add, Block
    <3> HIDE DEF S
    <3>3. ApartPlans(<<Seg(S(c))>>, <<Seg(S(d))>>)
      BY <3>2, StoresApart, OneSegment
    <3> QED
      BY <2>1, <3>3 DEF bc_matmul, S
  <2>2. CASE ~(n = 2 /\ Lda = 32)
    BY <1>1, <1>3, <2>2 DEF bc_matmul, Naive
  <2> QED
    BY <2>1, <2>2
<1> QED
  BY <1>4, <1>5

\* Kernels that deal out rows or columns.
LEMMA DealtApart ==
  ASSUME NEW n \in Nat \ {0}, NEW c \in 0 .. (n - 1), NEW d \in 0 .. (n - 1), c # d
  PROVE  /\ ApartPlans(ak_matmul(c, n), ak_matmul(d, n))
         /\ ApartPlans(aq_matmul(c, n), aq_matmul(d, n))
         /\ ApartPlans(bs_matmul(c, n), bs_matmul(d, n))
         /\ ApartPlans(ck_matmul(c, n), ck_matmul(d, n))
         /\ ApartPlans(ds_matmul(c, n), ds_matmul(d, n))
<1>1. ApartPlans(aq_matmul(c, n), aq_matmul(d, n))
  <2> DEFINE S(x) == UNION {{i, i + n} : i \in Strided(x, Lda, 2 * n)}
  <2>1. S(c) \cap S(d) = {}
    <3>1. S(c) \subseteq Turn(c, n) /\ S(d) \subseteq Turn(d, n)
      BY Dealt
    <3> QED
      BY <3>1, TurnsApart
  <2> QED
    BY <2>1, DistinctCols, OneSegment DEF aq_matmul, Add
<1>2. ApartPlans(bs_matmul(c, n), bs_matmul(d, n))
  <2> DEFINE S(x) == UNION {{j, j + n, j + 2 * n, j + 3 * n} : j \in Strided(x, Lda, 4 * n)}
  <2>1. S(c) \cap S(d) = {}
    <3>1. S(c) \subseteq Turn(c, n) /\ S(d) \subseteq Turn(d, n)
      BY Dealt
    <3> QED
      BY <3>1, TurnsApart
  <2> QED
    BY <2>1, DistinctRows, OneSegment DEF bs_matmul, Add
<1>3. ApartPlans(ak_matmul(c, n), ak_matmul(d, n))
  <2> DEFINE S(x) == UNION {jj .. (jj + 15) : jj \in Strided(16 * x, Lda, 16 * n)}
  <2>1. (S(c) \cap All) \cap (S(d) \cap All) = {}
    <3>1. S(c) \subseteq Groups(c, n, 16) /\ S(d) \subseteq Groups(d, n, 16)
      BY DealtInGroups
    <3> QED
      BY <3>1, GroupSetsApart
  <2>2. Apart(Seg({Add(S(c) \cap All, Unrolled(0, Lda, 8), Unrolled(0, Lda, 4))}),
              Seg({Add(S(d) \cap All, Unrolled(0, Lda, 8), Unrolled(0, Lda, 4))}))
    BY <2>1, DistinctRows DEF Add
  <2>3. \A x : ak_matmul(x, n) =
                <<Seg({Add(S(x) \cap All, Unrolled(0, Lda, 8), Unrolled(0, Lda, 4))})>>
    BY DEF ak_matmul
  <2> HIDE DEF S
  <2> QED
    BY <2>2, <2>3, OneSegment
<1>4. ApartPlans(ck_matmul(c, n), ck_matmul(d, n))
  <2> DEFINE S(x) == UNION {Unrolled(jj, IF jj + 16 < Lda THEN jj + 16 ELSE Lda, 4) :
                              jj \in Strided(16 * x, Lda, 16 * n)}
  <2>1. S(c) \cap S(d) = {}
    <3>1. S(c) \subseteq Groups(c, n, 16) /\ S(d) \subseteq Groups(d, n, 16)
      BY DealtInGroups
    <3> QED
      BY <3>1, GroupSetsApart, ZenonT(40)
  <2> QED
    BY <2>1, DistinctRows, OneSegment DEF ck_matmul, Add
<1>5. ApartPlans(ds_matmul(c, n), ds_matmul(d, n))
  <2> DEFINE S(x) == UNION {j .. (j + 3) : j \in Strided(4 * x, Lda, 4 * n)}
  <2>1. S(c) \cap S(d) = {}
    <3>1. S(c) \subseteq Groups(c, n, 4) /\ S(d) \subseteq Groups(d, n, 4)
      BY DealtInGroups
    <3> QED
      BY <3>1, GroupSetsApart
  <2> QED
    BY <2>1, DistinctRows, OneSegment DEF ds_matmul, Add
<1> QED
  BY <1>1, <1>2, <1>3, <1>4, <1>5

\* ai and ci, whose shares need not be of one size.
LEMMA SharedRowsApart ==
  ASSUME NEW n \in Nat \ {0}, NEW c \in 0 .. (n - 1), NEW d \in 0 .. (n - 1), c # d
  PROVE  ApartPlans(ai_matmul(c, n), ai_matmul(d, n))
<1> DEFINE lo(x) == (x * Lda) \div n
           R(x) == lo(x) .. (lo(x) + Blk(n) - 1)
<1>1. R(c) \cap R(d) = {}
  <2>1. Lda \in Nat /\ Blk(n) = Lda \div n /\ Blk(n) \in Nat
    BY Products DEF Blk
  <2>2. \A x \in {c, d} : lo(x) \in Nat
    <3>1. \A x \in {c, d} : x * Lda \in Nat
      BY <2>1
    <3> QED
      BY <3>1
  <2>3. CASE c < d
    <3>1. lo(c) + Blk(n) <= lo(d)
      BY <2>1, <2>3, SharesApart
    <3> HIDE DEF lo
    <3> QED
      BY <2>1, <2>2, <3>1
  <2>4. CASE d < c
    <3>1. lo(d) + Blk(n) <= lo(c)
      BY <2>1, <2>4, SharesApart
    <3> HIDE DEF lo
    <3> QED
      BY <2>1, <2>2, <3>1
  <2> QED
    BY <2>3, <2>4
<1> DEFINE S(x) == Seg({Set(R(x), Unrolled(0, Lda, 4), All)})
<1>2. Apart(S(c), S(d))
  BY <1>1, DistinctRows DEF Set
<1>3. ai_matmul(c, n) = <<Idle, S(c)>> /\ ai_matmul(d, n) = <<Idle, S(d)>>
  BY DEF ai_matmul
<1> HIDE DEF S
<1>4. <<Idle, S(c)>> = <<Idle>> \o <<S(c)>> /\ <<Idle, S(d)>> = <<Idle>> \o <<S(d)>>
  OBVIOUS
<1>5. ApartPlans(<<Idle>> \o <<S(c)>>, <<Idle>> \o <<S(d)>>)
  BY <1>2, IdleApart, OneSegment, ConcatApart
<1> QED
  BY <1>3, <1>4, <1>5

\* The kernels with a static scratch array: what is filled between two barriers
\* is read only behind the second.
LEMMA ScratchApart ==
  ASSUME NEW n \in Nat \ {0}, NEW c \in 0 .. (n - 1), NEW d \in 0 .. (n - 1), c # d
  PROVE  /\ ApartPlans(ae_matmul(c, n), ae_matmul(d, n))
         /\ ApartPlans(ce_matmul(c, n), ce_matmul(d, n))
         /\ ApartPlans(cy_matmul(c, n), cy_matmul(d, n))
<1>1. ApartPlans(TransposeB(c, n), TransposeB(d, n))
  <2>1. Lda \in Nat
    BY Products
  <2>2. ASSUME NEW k \in 1 .. Lda
        PROVE  Apart(Segment({}, {Area(Own(c, n), {k - 1})}, {}),
                     Segment({}, {Area(Own(d, n), {k - 1})}, {}))
    BY OwnApart DEF Apart, SomeOverlap, Overlap, Segment, Area
  <2> DEFINE f(x) == [k \in 1 .. Lda |-> Segment({}, {Area(Own(x, n), {k - 1})}, {})]
  <2>3. \A k \in 1 .. Lda : Apart(f(c)[k], f(d)[k])
    BY <2>2
  <2>4. f(c) = [k \in 1 .. Lda |-> f(c)[k]] /\ f(d) = [k \in 1 .. Lda |-> f(d)[k]]
    OBVIOUS
  <2>5. TransposeB(c, n) = f(c) /\ TransposeB(d, n) = f(d)
    BY DEF TransposeB
  <2> HIDE DEF f
  <2> QED
    BY <2>1, <2>3, <2>4, <2>5, FunctionsApart
<1>2. ASSUME NEW S, NEW T, NEW X, NEW Y, Apart(Seg(S), Seg(T))
      PROVE  Apart(Segment(S, {}, X), Segment(T, {}, Y))
  BY <1>2 DEF Apart, SomeOverlap, Seg, Segment
<1>3. ApartPlans(ae_matmul(c, n), ae_matmul(d, n))
  <2> DEFINE i(s) == 4 * ((s - 1) \div Blk(n))
             R(x, s) == {x * Blk(n) + ((s - 1) % Blk(n))}
             C(s) == i(s) .. (i(s) + 3)
             U == Unrolled(0, Lda, 8)
             f(x) == [s \in 1 .. ((Lda \div 4) * Blk(n)) |->
                        Segment({Set(R(x, s), C(s), U)}, {}, {Area(C(s), U)})]
  <2>1. (Lda \div 4) * Blk(n) \in Nat
    BY Products
  <2>2. ASSUME NEW s \in 1 .. ((Lda \div 4) * Blk(n)) PROVE R(c, s) \cap R(d, s) = {}
    <3>1. Blk(n) \in Nat \ {0} /\ Lda \div 4 \in Nat
      <4>1. Blk(n) \in Nat /\ Lda \div 4 \in Nat
        <5>1. Blk(n) \in Nat /\ Lda \in Nat
          BY Products
        <5> QED
          BY <5>1
      <4>2. (Lda \div 4) * Blk(n) # 0 /\ (Lda \div 4) * 0 = 0
        BY <2>1, <4>1
      <4> QED
        BY <4>1, <4>2
    <3>2. (s - 1) % Blk(n) \in 0 .. (Blk(n) - 1)
      BY <2>1, <3>1
    <3>3. \A x \in {c, d} : x * Blk(n) \in Nat /\ (x + 1) * Blk(n) = x * Blk(n) + Blk(n)
      <4>1. \A b \in Nat : \A x \in {c, d} : x * b \in Nat /\ (x + 1) * b = x * b + b
        OBVIOUS
      <4> QED
        BY <3>1, <4>1
    <3>4. \A x \in {c, d} : x * Blk(n) + ((s - 1) % Blk(n)) \in Own(x, n)
      BY <3>1, <3>2, <3>3 DEF Own
    <3> QED
      BY <3>4, OwnApart
  <2>3. ASSUME NEW s \in 1 .. ((Lda \div 4) * Blk(n)) PROVE Apart(f(c)[s], f(d)[s])
    <3>1. Apart(Seg({Set(R(c, s), C(s), U)}), Seg({Set(R(d, s), C(s), U)}))
      BY <2>2, DistinctRows DEF Set
    <3> HIDE DEF R, C, U
    <3> QED
      BY <1>2, <3>1
  <2>4. ApartPlans(f(c), f(d))
    <3>1. \A x \in {c, d} : f(x) = [s \in 1 .. ((Lda \div 4) * Blk(n)) |-> f(x)[s]]
      OBVIOUS
    <3> HIDE DEF f
    <3> QED
      BY <2>1, <2>3, <3>1, FunctionsApart
  <2>5. /\ ae_matmul(c, n) = TransposeB(c, n) \o f(c) \o <<Idle>>
        /\ ae_matmul(d, n) = TransposeB(d, n) \o f(d) \o <<Idle>>
    BY DEF ae_matmul
  <2> HIDE DEF f
  <2>6. ApartPlans(TransposeB(c, n) \o f(c), TransposeB(d, n) \o f(d))
    BY <1>1, <2>4, ConcatApart
  <2> QED
    BY <2>5, <2>6, LoopApart
<1>4. ApartPlans(ce_matmul(c, n), ce_matmul(d, n))
  <2> DEFINE S(x) == {Add(Own(x, n), Unrolled(y * (32 \div n), (y + 1) * (32 \div n), 8),
                          Unrolled(0, Lda, 8)) : y \in 0 .. (n - 1)}
             X == {Area(0 .. 31, Unrolled(0, Lda, 8))}
  <2>1. ASSUME NEW x, NEW a \in S(x) PROVE a.rows = Own(x, n)
    BY DEF Add, Block
  <2>2. Apart(Seg(S(c)), Seg(S(d)))
    <3>1. \A a \in S(c), b \in S(d) : a.rows \cap b.rows = {}
      BY <2>1, OwnApart
    <3> HIDE DEF S
    <3> QED
      BY <3>1, StoresApart
  <2>3. /\ ce_matmul(c, n) = TransposeB(c, n) \o <<Segment(S(c), {}, X)>>
        /\ ce_matmul(d, n) = TransposeB(d, n) \o <<Segment(S(d), {}, X)>>
    BY DEF ce_matmul
  <2> HIDE DEF S, X
  <2>4. Apart(Segment(S(c), {}, X), Segment(S(d), {}, X))
    BY <1>2, <2>2
  <2>5. ApartPlans(TransposeB(c, n) \o <<Segment(S(c), {}, X)>>,
                   TransposeB(d, n) \o <<Segment(S(d), {}, X)>>)
    BY <1>1, <2>4, OneSegment, ConcatApart
  <2> QED
    BY <2>3, <2>5
<1>5. ApartPlans(cy_matmul(c, n), cy_matmul(d, n))
  <2> DEFINE W == {Area(0 .. 31, 0 .. 31)}
             P(x) == CASE x = 0 -> Seg({SixteenRows(x, n)})
                       [] x = 1 -> Segment({SixteenRows(x, n)}, W, W)
                       [] x > 1 -> Idle
  <2>1. cy_matmul(c, n) = <<P(c)>> /\ cy_matmul(d, n) = <<P(d)>>
    BY DEF cy_matmul
  <2>2. Apart(P(c), P(d))
    <3>1. CASE c > 1 \/ d > 1
      BY <3>1 DEF Apart, SomeOverlap, Seg, Segment, Idle
    <3>2. CASE c <= 1 /\ d <= 1
      <4>1. (16 * c) .. (16 * (IF n = 1 THEN 2 ELSE c + 1) - 1)
              \cap (16 * d) .. (16 * (IF n = 1 THEN 2 ELSE d + 1) - 1) = {}
        BY <3>2
      <4>2. Apart(Seg({SixteenRows(c, n)}), Seg({SixteenRows(d, n)}))
        BY <4>1, DistinctRows DEF SixteenRows, Set32
      <4>3. (c = 0 /\ d = 1) \/ (c = 1 /\ d = 0)
        BY <3>2
      <4> HIDE DEF W
      <4> QED
        BY <4>2, <4>3 DEF Apart, SomeOverlap, Seg, Segment
    <3> QED
      BY <3>1, <3>2
  <2> HIDE DEF P
  <2> QED
    BY <2>1, <2>2, OneSegment
<1> QED
  BY <1>3, <1>4, <1>5

\* dm on two cores: the last one copies the first core's rows of B, the first one
\* those of the last.
LEMMA TwoCopiersApart ==
  ASSUME NEW n \in Nat \ {0}, n <= 2,
         NEW c \in 0 .. (n - 1), NEW d \in 0 .. (n - 1), c # d
  PROVE  ApartPlans(dm_matmul(c, n), dm_matmul(d, n))
<1> DEFINE b == Blk(2)
           X(x) == IF x = 1 THEN 0 .. (b - 1) ELSE b .. (Lda - 1)
           R(x) == Unrolled(b * x, 4 * ((IF x = 1 THEN Lda ELSE b * (x + 1)) \div 4), 4)
           C == Unrolled(0, 4 * (Lda \div 4), 4)
           W(x) == IF x = 1 THEN {Area(All, All)} ELSE {}
           F(x) == Segment({}, {Area(X(x), All)}, {})
           A(x) == Segment({Add(R(x), C, All)}, {}, W(x))
<1>1. n = 2 /\ c \in {0, 1} /\ d \in {0, 1}
  OBVIOUS
<1>2. Lda \in Nat /\ b \in Nat
  BY Products
<1>3. \A x \in {c, d} : dm_matmul(x, n) = <<F(x), A(x)>>
  BY <1>1 DEF dm_matmul
<1>4. X(c) \cap X(d) = {}
  <2> HIDE DEF b
  <2> QED
    BY <1>1, <1>2
<1>5. R(0) \cap R(1) = {}
  <2> HIDE DEF b
  <2>1. R(0) \subseteq 0 .. (b - 1)
    <3>1. PICK q \in Nat : q = b \div 4 /\ 4 * q <= b
      BY <1>2
    <3>2. b * 0 = 0 /\ b * (0 + 1) = b
      BY <1>2
    <3>3. R(0) = Unrolled(0, 4 * q, 4)
      BY <3>1, <3>2
    <3>4. Unrolled(0, 4 * q, 4) \subseteq 0 .. (4 * q - 1)
      BY <3>1 DEF Unrolled, Strided
    <3> QED
      BY <1>2, <3>1, <3>3, <3>4
  <2>2. \A i \in R(1) : i >= b
    <3>1. b * 1 = b /\ 4 * (Lda \div 4) \in Nat
      BY <1>2
    <3>2. R(1) = Unrolled(b, 4 * (Lda \div 4), 4)
      BY <3>1
    <3>3. \A h \in Nat : \A i \in Unrolled(b, h, 4) : i >= b
      BY <1>2 DEF Unrolled, Strided
    <3> QED
      BY <3>1, <3>2, <3>3
  <2> QED
    BY <1>2, <2>1, <2>2
<1> HIDE DEF R, C, X, W
<1>6. Apart(F(c), F(d))
  BY <1>4 DEF Apart, SomeOverlap, Overlap, Segment, Area
<1>7. Apart(A(c), A(d))
  <2>1. R(c) \cap R(d) = {}
    BY <1>1, <1>5
  <2> QED
    BY <2>1 DEF Apart, SomeOverlap, Overlap, Segment, Add, Block
<1> HIDE DEF F, A
<1>8. \A x \in {c, d} : <<F(x), A(x)>> = <<F(x)>> \o <<A(x)>>
  OBVIOUS
<1>9. ApartPlans(<<F(c)>> \o <<A(c)>>, <<F(d)>> \o <<A(d)>>)
  BY <1>6, <1>7, OneSegment, ConcatApart
<1> QED
  BY <1>3, <1>8, <1>9

\* The loops unrolled by four, when a core's rows come in fours.
LEMMA UnrolledApart ==
  ASSUME NEW n \in Nat \ {0}, NEW c \in 0 .. (n - 1), NEW d \in 0 .. (n - 1), c # d,
         Blk(n) % 4 = 0
  PROVE  /\ ApartPlans(ag_matmul(c, n), ag_matmul(d, n))
         /\ ApartPlans(bb_matmul(c, n), bb_matmul(d, n))
         /\ ApartPlans(bm_matmul(c, n), bm_matmul(d, n))
<1> DEFINE b == Blk(n)
           R(x) == Unrolled(x * b, (x + 1) * b, 4)
<1>1. PICK m \in Nat : b = 4 * m
  <2>1. b \in Nat /\ b % 4 = 0
    BY Products
  <2>2. b \div 4 \in Nat /\ b = 4 * (b \div 4)
    BY <2>1
  <2> QED
    BY <2>2
<1>2. Lda \in Nat
  BY Products
<1>3. ASSUME NEW p \in Nat, NEW q \in Nat
      PROVE  Unrolled(4 * p, 4 * q, 4) \subseteq (4 * p) .. (4 * q - 1)
  BY DEF Unrolled, Strided
<1>4. ASSUME NEW x \in Nat
      PROVE  x * b = 4 * (x * m) /\ b * x = 4 * (x * m) /\ x * m \in Nat /\ (x + 1) * m \in Nat
             /\ (x + 1) * b = 4 * ((x + 1) * m)
  <2> HIDE DEF b
  <2> QED
    BY <1>1
<1>5. ASSUME NEW x \in Nat PROVE R(x) \subseteq (x * b) .. ((x + 1) * b - 1)
  BY <1>3, <1>4, ZenonT(40)
<1>6. R(c) \cap R(d) = {}
  <2>1. (c * b) .. ((c + 1) * b - 1) \cap (d * b) .. ((d + 1) * b - 1) = {}
    BY <1>1, ChunksApart
  <2> HIDE DEF R
  <2> QED
    BY <1>5, <2>1
<1>7. ApartPlans(bb_matmul(c, n), bb_matmul(d, n))
  BY <1>6, DistinctRows, OneSegment DEF bb_matmul, Set
<1>8. ApartPlans(ag_matmul(c, n), ag_matmul(d, n))
  <2> DEFINE f(x) == [s \in 1 .. ((Lda \div 2) * (Lda \div 4)) |->
                        LET i == 2 * ((s - 1) \div (Lda \div 4))
                            k == 4 * ((s - 1) % (Lda \div 4))
                        IN  Seg({Add(R(x), {i, i + 1}, k .. (k + 3))})]
  <2>1. (Lda \div 2) * (Lda \div 4) \in Nat
    BY Products
  <2>2. \A s \in 1 .. ((Lda \div 2) * (Lda \div 4)) : Apart(f(c)[s], f(d)[s])
    <3> HIDE DEF R
    <3> QED
      BY <1>6, DistinctRows DEF Add
  <2>3. /\ f(c) = [s \in 1 .. ((Lda \div 2) * (Lda \div 4)) |-> f(c)[s]]
        /\ f(d) = [s \in 1 .. ((Lda \div 2) * (Lda \div 4)) |-> f(d)[s]]
    OBVIOUS
  <2>4. \A x : ag_matmul(x, n) = f(x) \o <<Idle>>
    BY DEF ag_matmul
  <2> HIDE DEF f
  <2>5. ApartPlans(f(c), f(d))
    BY <2>1, <2>2, <2>3, FunctionsApart
  <2> QED
    BY <2>4, <2>5, LoopApart
<1>9. ApartPlans(bm_matmul(c, n), bm_matmul(d, n))
  <2> DEFINE hi(x) == IF x = n - 1 THEN Lda ELSE b * (x + 1)
             Q(x) == Unrolled(b * x, 4 * (hi(x) \div 4), 4)
  <2>1. ASSUME NEW x \in 0 .. (n - 1), NEW r \in Q(x)
        PROVE  r \in Nat /\ r >= x * b /\ (x # n - 1 => r < (x + 1) * b)
    <3>1. PICK q \in Nat : q = hi(x) \div 4 /\ (x # n - 1 => 4 * q = (x + 1) * b)
      <4>1. CASE x = n - 1
        BY <1>2, <4>1
      <4>2. CASE x # n - 1
        <5>1. hi(x) = b * (x + 1)
          BY <4>2
        <5>2. b * (x + 1) = 4 * ((x + 1) * m) /\ (x + 1) * m \in Nat /\ (x + 1) * b = b * (x + 1)
          BY <1>4
        <5> HIDE DEF hi, b
        <5> QED
          BY <5>1, <5>2
      <4> QED
        BY <4>1, <4>2
    <3>2. r \in (4 * (x * m)) .. (4 * q - 1)
      <4>1. b * x = 4 * (x * m) /\ x * m \in Nat
        BY <1>4
      <4>2. r \in Unrolled(4 * (x * m), 4 * q, 4)
        BY <3>1, <4>1
      <4> HIDE DEF Q, hi, b
      <4> QED
        BY <1>3, <4>1, <4>2
    <3> QED
      BY <1>4, <3>1, <3>2
  <2>2. ASSUME NEW x \in 0 .. (n - 1), NEW y \in 0 .. (n - 1), x < y PROVE Q(x) \cap Q(y) = {}
    <3>1. (x + 1) * b <= y * b
      <4>1. PICK z \in Nat : y = x + 1 + z
        BY <2>2
      <4>2. y * b = (x + 1) * b + z * b /\ z * b \in Nat /\ (x + 1) * b \in Nat
        <5> HIDE DEF b
        <5> QED
          BY <1>1, <4>1
      <4> QED
        BY <4>2
    <3>2. x # n - 1
      BY <2>2
    <3>3. (x + 1) * b \in Int /\ y * b \in Int
      BY <1>4
    <3> HIDE DEF Q, b
    <3> QED
      BY <2>1, <3>1, <3>2, <3>3
  <2>3. Q(c) \cap Q(d) = {}
    <3> HIDE DEF Q
    <3> QED
      BY <2>2
  <2> QED
    BY <2>3, DistinctRows, OneSegment DEF bm_matmul, Add
<1> QED
  BY <1>7, <1>8, <1>9

\* br and dr: blocks of sixteen columns by 32 rows, two rows by "width" columns per
\* barrier.  A core stores into its own columns.
TransposedTurns(n, width) ==
  ((Lda + 31) \div 32) * 16 * ((16 * ((Blk(n) + 15) \div 16)) \div width)

\* A segment that stores two rows by some of the core's own columns.
OwnColumns(segment, c, n) ==
  \E R, C : /\ segment = Seg({Add(R, C, Unrolled(0, Lda, 32))})
            /\ C \subseteq Own(c, n)
            /\ Lda % 32 = 0 => R \subseteq All

\* The loop of the plan, behind the transposition.
LEMMA TransposedStores ==
  ASSUME NEW n \in Nat \ {0}, NEW c \in 0 .. (n - 1), NEW width \in {4, 8}, Blk(n) % 16 = 0
  PROVE  \E g : /\ TransposedBlocks(c, n, width) =
                     [s \in 1 .. ((Lda + 1) \div 2) |-> Idle] \o g \o <<Idle>>
                /\ TransposedTurns(n, width) \in Nat
                /\ g = [s \in 1 .. TransposedTurns(n, width) |-> g[s]]
                /\ \A s \in 1 .. TransposedTurns(n, width) : OwnColumns(g[s], c, n)
<1> DEFINE perRow == (16 * ((Blk(n) + 15) \div 16)) \div width
           perI2 == 16 * (16 \div width)
           inJ2(s) == (s - 1) % (16 * perRow)
           i2(s) == c * Blk(n) + 16 * (inJ2(s) \div perI2)
           j(s)  == 32 * ((s - 1) \div (16 * perRow)) + 2 * ((inJ2(s) % perI2) \div (16 \div width))
           i(s)  == i2(s) + width * (inJ2(s) % (16 \div width))
           m == ((Lda + 31) \div 32) * 16 * perRow
           g == [s \in 1 .. m |->
                  Seg({Add({j(s), j(s) + 1}, i(s) .. (i(s) + width - 1), Unrolled(0, Lda, 32))})]
<1>1. PICK a \in Nat : (Lda + 31) \div 32 = a /\ (Lda % 32 = 0 => Lda = 32 * a)
  <2>1. Lda \in Nat
    BY Products
  <2>2. /\ (Lda + 31) \div 32 \in Nat
        /\ Lda % 32 = 0 => Lda = 32 * ((Lda + 31) \div 32)
    BY <2>1
  <2> QED
    BY <2>2
<1>2. PICK b \in Nat : Blk(n) = 16 * b /\ (Blk(n) + 15) \div 16 = b
  <2>1. Blk(n) \in Nat
    BY Products
  <2>2. /\ Blk(n) \div 16 \in Nat /\ Blk(n) = 16 * (Blk(n) \div 16)
        /\ (Blk(n) + 15) \div 16 = Blk(n) \div 16
    BY <2>1
  <2> QED
    BY <2>2
<1>3. PICK v \in {2, 4} : /\ 16 \div width = v /\ perI2 = 16 * v /\ v * width = 16
                          /\ perRow = b * v
  <2>1. CASE width = 4
    BY <1>2, <2>1
  <2>2. CASE width = 8
    BY <1>2, <2>2
  <2> QED
    BY <2>1, <2>2
<1>4. PICK t \in Nat : t = 16 * perRow /\ t = (16 * v) * b /\ m = a * t
  BY <1>1, <1>2, <1>3
<1>5. PICK p \in Nat : p = c * Blk(n) /\ \A q \in 0 .. (16 * b - 1) : p + q \in Own(c, n)
  <2>1. PICK p \in Nat : p = c * Blk(n)
    BY Products
  <2>2. (c + 1) * Blk(n) = p + Blk(n)
    BY <1>2, <2>1
  <2>3. \A q \in 0 .. (16 * b - 1) : p + q \in p .. (p + Blk(n) - 1)
    BY <1>2, <2>1
  <2>4. Own(c, n) = p .. (p + Blk(n) - 1)
    <3>1. PICK r : r = (c + 1) * Blk(n)
      OBVIOUS
    <3>2. Own(c, n) = p .. (r - 1)
      BY <2>1, <3>1, Zenon DEF Own
    <3>3. r = p + Blk(n)
      BY <2>2, <3>1, Zenon
    <3> QED
      BY <1>2, <3>2, <3>3
  <2> QED
    BY <2>1, <2>3, <2>4, Zenon
<1>6. ASSUME NEW s \in 1 .. m PROVE OwnColumns(g[s], c, n)
  <2>1. PICK x \in Nat : x = s - 1 /\ x < a * t
    BY <1>4
  <2>2. t # 0 /\ x \div t \in 0 .. (a - 1)
    BY <2>1, QuotientBelow
  <2>3. PICK y \in 0 .. (t - 1) : y = x % t
    BY <2>2
  <2>4. PICK q \in 0 .. (b - 1) : q = y \div (16 * v)
    <3>1. 16 * v \in Nat /\ y \in Nat /\ y < b * (16 * v)
      BY <1>4, <2>3
    <3>2. y \div (16 * v) \in 0 .. (b - 1)
      BY <3>1, QuotientBelow
    <3> QED
      BY <3>2
  <2>5. PICK e \in 0 .. 15 : e = (y % (16 * v)) \div v
    <3>1. CASE v = 2
      BY <3>1
    <3>2. CASE v = 4
      BY <3>2
    <3> QED
      BY <3>1, <3>2
  <2>6. PICK d \in 0 .. (v - 1) : d = y % v
    <3>1. CASE v = 2
      BY <3>1
    <3>2. CASE v = 4
      BY <3>2
    <3> QED
      BY <3>1, <3>2
  <2>7. inJ2(s) = y
    BY <1>4, <2>1, <2>3
  <2>8. j(s) = 32 * (x \div t) + 2 * e
    BY <1>3, <1>4, <2>1, <2>5, <2>7
  <2>9. i(s) = (p + 16 * q) + width * d
    BY <1>3, <1>5, <2>4, <2>6, <2>7
  <2>10. Lda % 32 = 0 => j(s) \in All /\ j(s) + 1 \in All
    BY <1>1, <2>2, <2>8 DEF All
  <2>11. i(s) .. (i(s) + width - 1) \subseteq Own(c, n)
    <3>1. \A z \in 0 .. (width - 1) : (16 * q + width * d) + z \in 0 .. (16 * b - 1)
      <4>1. CASE width = 4
        BY <1>3, <4>1
      <4>2. CASE width = 8
        BY <1>3, <4>2
      <4> QED
        BY <4>1, <4>2
    <3>2. PICK u \in Nat : u = 16 * q + width * d
      <4>1. CASE width = 4
        BY <1>3, <4>1
      <4>2. CASE width = 8
        BY <1>3, <4>2
      <4> QED
        BY <4>1, <4>2
    <3>3. i(s) = p + u
      <4>1. width * d \in Nat
        OBVIOUS
      <4> QED
        BY <2>9, <3>2, <4>1
    <3>4. ASSUME NEW o \in (p + u) .. (p + u + width - 1) PROVE o \in Own(c, n)
      <4>1. PICK z \in 0 .. (width - 1) : o = p + (u + z)
        <5>1. o - (p + u) \in 0 .. (width - 1) /\ o = p + (u + (o - (p + u)))
          OBVIOUS
        <5> QED
          BY <5>1
      <4> QED
        BY <1>5, <3>1, <3>2, <4>1
    <3> HIDE DEF i
    <3> QED
      BY <3>3, <3>4
  <2>12. g[s] = Seg({Add({j(s), j(s) + 1}, i(s) .. (i(s) + width - 1), Unrolled(0, Lda, 32))})
    OBVIOUS
  <2> HIDE DEF g, i, j
  <2>13. Lda % 32 = 0 => {j(s), j(s) + 1} \subseteq All
    BY <2>10
  <2> QED
    BY <2>11, <2>12, <2>13, Zenon DEF OwnColumns
<1>7. m = TransposedTurns(n, width) /\ m \in Nat
  BY <1>4 DEF TransposedTurns
<1>8. g = [s \in 1 .. m |-> g[s]]
  OBVIOUS
<1>9. TransposedBlocks(c, n, width) = [s \in 1 .. ((Lda + 1) \div 2) |-> Idle] \o g \o <<Idle>>
  BY DEF TransposedBlocks
<1> HIDE DEF g, m
<1> QED
  BY <1>6, <1>7, <1>8, <1>9, Zenon

\* br and dr, when a core has a multiple of sixteen columns.
LEMMA TransposedApart ==
  ASSUME NEW n \in Nat \ {0}, NEW c \in 0 .. (n - 1), NEW d \in 0 .. (n - 1), c # d,
         Blk(n) % 16 = 0, NEW width \in {4, 8}
  PROVE  ApartPlans(TransposedBlocks(c, n, width), TransposedBlocks(d, n, width))
<1> DEFINE m == TransposedTurns(n, width)
           f == [s \in 1 .. ((Lda + 1) \div 2) |-> Idle]
<1>1. PICK g : /\ TransposedBlocks(c, n, width) = f \o g \o <<Idle>> /\ m \in Nat
               /\ g = [s \in 1 .. m |-> g[s]] /\ \A s \in 1 .. m : OwnColumns(g[s], c, n)
  BY TransposedStores
<1>2. PICK h : /\ TransposedBlocks(d, n, width) = f \o h \o <<Idle>>
               /\ h = [s \in 1 .. m |-> h[s]] /\ \A s \in 1 .. m : OwnColumns(h[s], d, n)
  BY TransposedStores
<1>3. ASSUME NEW s \in 1 .. m PROVE Apart(g[s], h[s])
  <2>1. PICK R, C : g[s] = Seg({Add(R, C, Unrolled(0, Lda, 32))}) /\ C \subseteq Own(c, n)
    BY <1>1 DEF OwnColumns
  <2>2. PICK Q, D : h[s] = Seg({Add(Q, D, Unrolled(0, Lda, 32))}) /\ D \subseteq Own(d, n)
    BY <1>2 DEF OwnColumns
  <2>3. C \cap D = {}
    BY <2>1, <2>2, OwnApart
  <2> QED
    BY <2>1, <2>2, <2>3, DistinctCols DEF Add
<1>4. ApartPlans(f, f)
  <2>1. PICK k \in Nat : k = (Lda + 1) \div 2
    BY Products
  <2>2. f = [s \in 1 .. k |-> f[s]] /\ \A s \in 1 .. k : f[s] = Idle
    BY <2>1
  <2> HIDE DEF f
  <2> QED
    BY <2>2, IdleApart, FunctionsApart
<1> HIDE DEF f, m
<1>5. ApartPlans(g, h)
  BY <1>1, <1>2, <1>3, FunctionsApart
<1>6. ApartPlans(f \o g, f \o h)
  BY <1>4, <1>5, ConcatApart
<1>7. ApartPlans(f \o g \o <<Idle>>, f \o h \o <<Idle>>)
  BY <1>6, LoopApart
<1>8. /\ TransposedBlocks(c, n, width) = f \o g \o <<Idle>>
      /\ TransposedBlocks(d, n, width) = f \o h \o <<Idle>>
  BY <1>1, <1>2
<1> QED
  BY <1>7, <1>8, Zenon

\* Each core has as many pairs of rows to go through.
LEMMA PairsOfRows ==
  ASSUME NEW n \in Nat \ {0}, Lda % (2 * n) = 0
  PROVE  \E k \in Nat : /\ Lda = (2 * n) * k
                        /\ \A c \in 0 .. (n - 1) : (Lda - c + 2 * n - 1) \div (2 * n) = k
<1>1. PICK k \in Nat : Lda = (2 * n) * k
  <2>1. Lda \in Nat /\ 2 * n \in Nat \ {0}
    BY LdaAssumption
  <2>2. PICK m \in Nat \ {0} : m = 2 * n
    BY <2>1
  <2>3. Lda \div m \in Nat /\ Lda = m * (Lda \div m) + (Lda % m)
    BY <2>1
  <2>4. m * (Lda \div m) \in Nat
    BY <2>3
  <2>5. Lda = m * (Lda \div m)
    BY <2>2, <2>3, <2>4
  <2> QED
    BY <2>2, <2>3, <2>5
<1>2. ASSUME NEW c \in 0 .. (n - 1) PROVE (Lda - c + 2 * n - 1) \div (2 * n) = k
  <2>1. PICK m \in Nat \ {0} : m = 2 * n
    OBVIOUS
  <2>2. PICK o \in 0 .. (m - 1) : o = 2 * n - 1 - c
    BY <2>1
  <2>3. m * k \in Nat /\ Lda = m * k
    BY <1>1, <2>1
  <2>4. Lda - c + 2 * n - 1 = m * k + o
    BY <2>1, <2>2, <2>3
  <2>5. (m * k + o) \div m = k
    BY QuotientOf
  <2> QED
    BY <2>1, <2>4, <2>5, Zenon
<1> QED
  BY <1>1, <1>2

\* The kernels unrolled by two rows or by eight columns, when a core's come in such
\* groups; and cs, a row and the n-th behind it in turn.
LEMMA EvenlyApart ==
  ASSUME NEW n \in Nat \ {0}, NEW c \in 0 .. (n - 1), NEW d \in 0 .. (n - 1), c # d
  PROVE  /\ Lda = 32 /\ Lda % n = 0 /\ Blk(n) % 2 = 0 =>
              /\ ApartPlans(af_matmul(c, n), af_matmul(d, n))
              /\ ApartPlans(am_matmul(c, n), am_matmul(d, n))
              /\ ApartPlans(du_matmul(c, n), du_matmul(d, n))
         /\ Lda % n = 0 /\ Blk(n) % 8 = 0 => ApartPlans(at_matmul(c, n), at_matmul(d, n))
         /\ Lda % (2 * n) = 0 => ApartPlans(cs_matmul(c, n), cs_matmul(d, n))
<1>1. Own(c, n) \cap Own(d, n) = {}
  BY OwnApart
<1>2. ASSUME NEW x \in 0 .. (n - 1), Lda % n = 0, NEW s \in {2, 8}, Blk(n) % s = 0
      PROVE  Unrolled((x * Lda) \div n, ((x + 1) * Lda) \div n, s) = Own(x, n)
  BY <1>2, OwnRanges
<1>3. ASSUME Lda = 32, Lda % n = 0, Blk(n) % 2 = 0
      PROVE  /\ ApartPlans(af_matmul(c, n), af_matmul(d, n))
             /\ ApartPlans(am_matmul(c, n), am_matmul(d, n))
             /\ ApartPlans(du_matmul(c, n), du_matmul(d, n))
  <2>1. ASSUME NEW x \in 0 .. (n - 1)
        PROVE  Unrolled((x * 32) \div n, (32 * (1 + x)) \div n, 2) = Own(x, n)
    <3>1. 32 * (1 + x) = (x + 1) * 32 /\ 2 \in {2, 8}
      OBVIOUS
    <3>2. Unrolled((x * Lda) \div n, ((x + 1) * Lda) \div n, 2) = Own(x, n)
      BY <1>2, <1>3, <3>1, Zenon
    <3> QED
      BY <1>3, <3>1, <3>2, Zenon
  <2>2. \A R, Q, C, t : R \cap Q = {} => ApartPlans(<<Seg({Set32(R, C, t)})>>, <<Seg({Set32(Q, C, t)})>>)
    BY DistinctRows, OneSegment DEF Set32
  <2>3. \A x \in {c, d} : /\ af_matmul(x, n) = <<Seg({Set32(Own(x, n), All, Unrolled(0, Lda, 4))})>>
                          /\ am_matmul(x, n) = <<Seg({Set32(Own(x, n), 0 .. 31, Unrolled(0, Lda, 4))})>>
    <3> TAKE x \in {c, d}
    <3>1. x \in 0 .. (n - 1)
      OBVIOUS
    <3> QED
      BY <1>3, <2>1, <3>1, Zenon DEF af_matmul, am_matmul
  <2>4. ApartPlans(af_matmul(c, n), af_matmul(d, n))
    BY <1>1, <2>2, <2>3
  <2>5. ApartPlans(am_matmul(c, n), am_matmul(d, n))
    BY <1>1, <2>2, <2>3
  <2> QED
    BY <2>4, <2>5, Zenon DEF du_matmul
<1>4. ASSUME Lda % n = 0, Blk(n) % 8 = 0 PROVE ApartPlans(at_matmul(c, n), at_matmul(d, n))
  <2> DEFINE terms == IF Lda = 32 THEN Unrolled(0, Lda, 16) ELSE {}
  <2>1. \A x \in {c, d} :
          at_matmul(x, n) = <<Seg({Add(All, Own(x, n), terms)})>>
    <3> TAKE x \in {c, d}
    <3>1. x \in 0 .. (n - 1) /\ 8 \in {2, 8}
      OBVIOUS
    <3> QED
      BY <1>2, <1>4, <3>1, Zenon DEF at_matmul
  <2>2. Apart(Seg({Add(All, Own(c, n), terms)}), Seg({Add(All, Own(d, n), terms)}))
    BY <1>1, DistinctCols DEF Add
  <2> QED
    BY <2>1, <2>2, OneSegment
<1>5. ASSUME Lda % (2 * n) = 0 PROVE ApartPlans(cs_matmul(c, n), cs_matmul(d, n))
  <2> DEFINE j(x, s) == x + 2 * n * ((s - 1) \div Lda)
             turns(x) == ((Lda - x + 2 * n - 1) \div (2 * n)) * Lda
             f(x) == [s \in 1 .. turns(x) |->
                        Seg({Set({j(x, s), j(x, s) + n}, {(s - 1) % Lda}, All)})]
  <2>1. PICK k \in Nat : \A x \in 0 .. (n - 1) : (Lda - x + 2 * n - 1) \div (2 * n) = k
    BY <1>5, PairsOfRows
  <2>2. ASSUME NEW x \in 0 .. (n - 1) PROVE turns(x) = k * Lda
    BY <2>1
  <2>3. ASSUME NEW s \in 1 .. (k * Lda) PROVE Apart(f(c)[s], f(d)[s])
    <3>1. Lda \in Nat \ {0} /\ k * Lda \in Nat
      <4>1. Lda \in Nat \ {0}
        BY LdaAssumption
      <4>2. k * Lda \in Nat
        BY <4>1, ProductIsNat, Zenon
      <4> QED
        BY <4>1, <4>2
    <3>2. PICK q \in Nat : q = (s - 1) \div Lda
      BY <3>1
    <3>3. ASSUME NEW x \in 0 .. (n - 1)
          PROVE  j(x, s) \in Turn(x, n) /\ j(x, s) + n \in Turn(x, n)
      <4>1. n * (2 * q) = 2 * n * q /\ n * (2 * q + 1) = 2 * n * q + n /\ 2 * n * q \in Nat
        OBVIOUS
      <4>2. j(x, s) = x + n * (2 * q) /\ j(x, s) + n = x + n * (2 * q + 1)
        BY <3>2, <4>1
      <4>3. 2 * q \in Nat /\ 2 * q + 1 \in Nat
        OBVIOUS
      <4> QED
        BY <4>2, <4>3, Zenon DEF Turn
    <3>4. Turn(c, n) \cap Turn(d, n) = {}
      BY TurnsApart
    <3>5. {j(c, s), j(c, s) + n} \cap {j(d, s), j(d, s) + n} = {}
      BY <3>3, <3>4
    <3>6. \A x \in {c, d} :
            f(x)[s] = Seg({Set({j(x, s), j(x, s) + n}, {(s - 1) % Lda}, All)})
      BY <2>2
    <3> HIDE DEF f, j
    <3>7. Apart(Seg({Set({j(c, s), j(c, s) + n}, {(s - 1) % Lda}, All)}),
                Seg({Set({j(d, s), j(d, s) + n}, {(s - 1) % Lda}, All)}))
      BY <3>5, DistinctRows DEF Set
    <3> QED
      BY <3>6, <3>7, Zenon
  <2>4. k * Lda \in Nat /\ \A x \in {c, d} : f(x) = [s \in 1 .. (k * Lda) |-> f(x)[s]]
    <3>1. k * Lda \in Nat
      <4>1. Lda \in Nat
        BY LdaAssumption
      <4> QED
        BY <4>1, ProductIsNat, Zenon
    <3>2. \A x \in {c, d} : turns(x) = k * Lda
      BY <2>2
    <3> HIDE DEF turns, j
    <3> QED
      BY <3>1, <3>2
  <2>5. \A x : cs_matmul(x, n) = f(x) \o <<Idle>>
    BY DEF cs_matmul
  <2> HIDE DEF f
  <2>6. ApartPlans(f(c), f(d))
    BY <2>3, <2>4, FunctionsApart
  <2> QED
    BY <2>5, <2>6, LoopApart
<1> QED
  BY <1>3, <1>4, <1>5

\* mt-vvadd: stores of distinct elements, and core 0's check and copy while the
\* others wait.
LEMMA VvaddApart ==
  ASSUME NEW c \in Nat, NEW d \in Nat, c # d, NEW z, NEW y, z \cap y = {}
  PROVE  NeverConflict(VvaddProgram(c, z), VvaddProgram(d, y))
<1> DEFINE E(op, is, terms) == Block(op, DataSize, {0}, is, terms)
           copy == Seg({E("set", 0 .. (DataSize - 1), {0})})
           first(x) == Seg({E("set", x, {0, 1})})
           second(x) == Seg({E("add", x, {1})})
           verified(x) == IF x = 0 THEN Item(TRUE, copy) ELSE Item(FALSE, Idle)
           P(x, v) == <<Item(FALSE, Idle), Item(FALSE, first(v)), verified(x),
                        Item(FALSE, second(v)), Item(x = 0, Idle), Item(FALSE, Idle)>>
<1>1. VvaddProgram(c, z) = P(c, z) /\ VvaddProgram(d, y) = P(d, y)
  BY DEF VvaddProgram
<1>2. Apart(first(z), first(y)) /\ Apart(second(z), second(y))
  BY DistinctCols
<1> HIDE DEF copy, first, second
<1>3. ASSUME NEW a, NEW b, Apart(a, b) PROVE ~Conflict(Item(FALSE, a), Item(FALSE, b))
  BY <1>3 DEF Apart, Conflict, Item
<1>4. ASSUME NEW b, NEW e PROVE ~Conflict(Item(b, Idle), Item(e, Idle))
  BY DEF Conflict, SomeOverlap, Item, Idle, Seg, Segment
<1>5. ~Conflict(verified(c), verified(d))
  <2>1. CASE c = 0
    BY <2>1 DEF Conflict, SomeOverlap, Item, Idle, Seg, Segment, copy
  <2>2. CASE d = 0
    BY <2>2 DEF Conflict, SomeOverlap, Item, Idle, Seg, Segment, copy
  <2>3. CASE c # 0 /\ d # 0
    BY <1>4, <2>3
  <2> QED
    BY <2>1, <2>2, <2>3
<1> HIDE DEF verified
<1>6. Len(P(c, z)) = 6
  OBVIOUS
<1>7. /\ P(c, z)[1] = Item(FALSE, Idle) /\ P(d, y)[1] = Item(FALSE, Idle)
      /\ P(c, z)[2] = Item(FALSE, first(z)) /\ P(d, y)[2] = Item(FALSE, first(y))
      /\ P(c, z)[3] = verified(c) /\ P(d, y)[3] = verified(d)
      /\ P(c, z)[4] = Item(FALSE, second(z)) /\ P(d, y)[4] = Item(FALSE, second(y))
      /\ P(c, z)[5] = Item(c = 0, Idle) /\ P(d, y)[5] = Item(d = 0, Idle)
      /\ P(c, z)[6] = Item(FALSE, Idle) /\ P(d, y)[6] = Item(FALSE, Idle)
  OBVIOUS
<1> HIDE DEF P
<1>8. ~Conflict(P(c, z)[2], P(d, y)[2]) /\ ~Conflict(P(c, z)[4], P(d, y)[4])
  BY <1>2, <1>3, <1>7
<1>9. /\ ~Conflict(P(c, z)[1], P(d, y)[1]) /\ ~Conflict(P(c, z)[5], P(d, y)[5])
      /\ ~Conflict(P(c, z)[6], P(d, y)[6])
  <2>1. ~Conflict(Item(FALSE, Idle), Item(FALSE, Idle))
    BY <1>4
  <2>2. ~Conflict(Item(c = 0, Idle), Item(d = 0, Idle))
    BY <1>4
  <2> QED
    BY <1>7, <2>1, <2>2
<1>10. \A i \in 1 .. 6 : ~Conflict(P(c, z)[i], P(d, y)[i])
  <2>1. ~Conflict(P(c, z)[3], P(d, y)[3])
    BY <1>5, <1>7
  <2>2. \A i \in 1 .. 6 : i \in {1, 2, 3, 4, 5, 6}
    OBVIOUS
  <2> QED
    BY <1>8, <1>9, <2>1, <2>2
<1> QED
  BY <1>1, <1>6, <1>10 DEF NeverConflict

\* Duff's device handles count elements, whatever the first pass takes.
LEMMA VvaddThree ==
  ASSUME NEW n \in Nat \ {0}, NEW c \in Nat
  PROVE  vvadd3(c, n) = (c * Chunk(n)) .. ((c + 1) * Chunk(n) - 1)
<1>1. PICK b \in Nat : b = Chunk(n)
  BY DataSizeAssumption DEF Chunk
<1> DEFINE passes == (b + 7) \div 8
           first  == IF b % 8 = 0 THEN 8 ELSE b % 8
<1>2. first + 8 * (passes - 1) = b
  OBVIOUS
<1>3. vvadd3(c, n) = (c * b) .. (c * b + first + 8 * (passes - 1) - 1)
  BY <1>1 DEF vvadd3
<1>4. passes \in Int /\ first \in Int
  OBVIOUS
<1>5. c * b \in Nat /\ (c + 1) * b = c * b + b
  OBVIOUS
<1> HIDE DEF passes, first
<1> QED
  BY <1>1, <1>2, <1>3, <1>4, <1>5, SMTT(30)

\* The vector additions: no element is two cores' .
LEMMA VectorsApart ==
  ASSUME NEW n \in Nat \ {0}, NEW c \in 0 .. (n - 1), NEW d \in 0 .. (n - 1), c # d
  PROVE  /\ DataSize >= n => vvadd0(c, n) \cap vvadd0(d, n) = {}
         /\ vvadd1(c, n) \cap vvadd1(d, n) = {}
         /\ vvadd2(c, n) \cap vvadd2(d, n) = {}
         /\ vvadd3(c, n) \cap vvadd3(d, n) = {}
         /\ vvadd4(c, n) \cap vvadd4(d, n) = {}
         /\ vvadd(c, n) \cap vvadd(d, n) = {}
<1>1. vvadd1(c, n) \cap vvadd1(d, n) = {}
  <2>1. vvadd1(c, n) \subseteq Groups(c, n, 4) /\ vvadd1(d, n) \subseteq Groups(d, n, 4)
    BY DealtInGroups
  <2> QED
    BY <2>1, GroupSetsApart
<1>2. vvadd2(c, n) \cap vvadd2(d, n) = {}
  <2>1. vvadd2(c, n) \subseteq Turn(c, n) /\ vvadd2(d, n) \subseteq Turn(d, n)
    BY Dealt DEF vvadd2
  <2> QED
    BY <2>1, TurnsApart
<1>3. Strided(c, DataSize, n) \cap Strided(d, DataSize, n) = {}
  BY Dealt, TurnsApart
<1>4. DataSize \in Nat /\ Chunk(n) \in Nat /\ n * Chunk(n) <= DataSize
  <2>1. DataSize \in Nat /\ Chunk(n) \in Nat
    BY DataSizeAssumption DEF Chunk
  <2>2. DataSize = n * (DataSize \div n) + (DataSize % n) /\ DataSize % n \in Nat
    BY <2>1
  <2>3. n * Chunk(n) \in Nat
    BY <2>1
  <2> QED
    BY <2>1, <2>2, <2>3 DEF Chunk
<1>5. vvadd3(c, n) \cap vvadd3(d, n) = {}
  <2>1. \A b \in Nat : (c * b) .. ((c + 1) * b - 1) \cap (d * b) .. ((d + 1) * b - 1) = {}
    BY ChunksApart
  <2>2. vvadd3(c, n) = (c * Chunk(n)) .. ((c + 1) * Chunk(n) - 1)
    BY VvaddThree
  <2>3. vvadd3(d, n) = (d * Chunk(n)) .. ((d + 1) * Chunk(n) - 1)
    BY VvaddThree
  <2> QED
    BY <1>4, <2>1, <2>2, <2>3
<1>6. ASSUME DataSize >= n PROVE vvadd0(c, n) \cap vvadd0(d, n) = {}
  <2>1. PICK b \in Nat \ {0} : b = Chunk(n)
    <3>1. Chunk(n) # 0
      <4>1. DataSize = n * (DataSize \div n) + (DataSize % n) /\ DataSize % n < n
        BY <1>4
      <4> QED
        BY <1>4, <1>6, <4>1 DEF Chunk
    <3> QED
      BY <1>4, <3>1
  <2>2. PICK l \in Nat : l = DataSize - (DataSize % b) /\ n * b <= l
    <3>1. PICK q \in Nat : DataSize = b * q + (DataSize % b)
      BY <1>4, Division
    <3>2. DataSize % b \in 0 .. (b - 1)
      BY <1>4
    <3>3. q >= n
      <4> SUFFICES ASSUME q < n PROVE FALSE
        OBVIOUS
      <4>1. PICK e \in Nat : n = q + 1 + e
        OBVIOUS
      <4>2. n * b = b * q + b + b * e /\ b * e \in Nat /\ b * q \in Nat
        BY <4>1
      <4> QED
        BY <1>4, <2>1, <3>1, <3>2, <4>2
    <3>4. PICK e \in Nat : q = n + e
      BY <3>3
    <3>5. b * q = n * b + b * e /\ b * e \in Nat /\ n * b \in Nat
      BY <3>4
    <3> QED
      BY <1>4, <3>1, <3>2, <3>5
  <2> DEFINE own(x) == (x * b) .. ((x + 1) * b - 1)
             rest(x) == Strided(l + x, DataSize, n)
  <2>3. vvadd0(c, n) = own(c) \cup rest(c) /\ vvadd0(d, n) = own(d) \cup rest(d)
    BY <2>1, <2>2 DEF vvadd0
  <2>4. own(c) \cap own(d) = {}
    BY ChunksApart
  <2>5. ASSUME NEW x \in {c, d}, NEW i \in own(x) PROVE i < l
    <3>1. PICK e \in Nat : n = x + 1 + e
      OBVIOUS
    <3>2. n * b = (x + 1) * b + e * b /\ e * b \in Nat /\ (x + 1) * b \in Nat
      BY <3>1
    <3> QED
      BY <2>2, <3>2
  <2>6. ASSUME NEW x \in {c, d}, NEW i \in rest(x)
        PROVE  i \in Nat /\ i >= l /\ i - l \in Turn(x, n)
    <3>1. PICK k \in Nat : i = l + x + n * k
      <4>1. l + x \in Nat /\ DataSize \in Int /\ i \in Strided(l + x, DataSize, n)
        BY <1>4
      <4> HIDE DEF rest
      <4> QED
        BY <4>1, StridedForm, ZenonT(40)
    <3>2. n * k \in Nat
      OBVIOUS
    <3>3. i - l = x + n * k
      BY <3>1, <3>2
    <3> QED
      BY <3>1, <3>2, <3>3 DEF Turn
  <2>7. rest(c) \cap rest(d) = {}
    <3> SUFFICES ASSUME NEW i \in rest(c), i \in rest(d) PROVE FALSE
      OBVIOUS
    <3>1. {i - l} \subseteq Turn(c, n) /\ {i - l} \subseteq Turn(d, n)
      BY <2>6
    <3>2. {i - l} \cap {i - l} = {}
      BY <3>1, TurnsApart
    <3> QED
      BY <3>2
  <2>8. own(c) \cap rest(d) = {} /\ rest(c) \cap own(d) = {}
    <3> HIDE DEF own, rest
    <3>1. \A x \in {c, d} : \A i \in own(x) : i < l
      BY <2>5
    <3>2. \A x \in {c, d} : \A i \in rest(x) : i \in Nat /\ i >= l
      BY <2>6
    <3> QED
      BY <3>1, <3>2
  <2> HIDE DEF own, rest
  <2> QED
    BY <2>3, <2>4, <2>7, <2>8
<1> QED
  BY <1>1, <1>2, <1>3, <1>5, <1>6 DEF vvadd, vvadd4

\* The kernels whose cores never store the same element between two barriers,
\* on n cores: all that divide the rows, the columns or the elements; those
\* unrolled by four rows if a core has a multiple of four, and vvadd0 if there
\* is an element for every core.
RaceFree(n) ==
  {"ad", "ae", "ai", "ak", "al", "an", "ap", "aq", "ar", "av", "ay", "az", "bc", "bf", "bh",
   "bj", "bk", "bo", "bs", "ce", "ci", "ck", "cl", "cv", "cy", "dc", "df", "do", "ds", "dv",
   "matmul", "vvadd1", "vvadd2", "vvadd3", "vvadd4", "vvadd"}
  \cup (IF Blk(n) % 4 = 0 THEN {"ag", "bb", "bm", "cg"} ELSE {})
  \cup (IF Blk(n) % 16 = 0 THEN {"br", "dr"} ELSE {})
  \cup (IF Lda = 32 /\ Lda % n = 0 /\ Blk(n) % 2 = 0 THEN {"af", "am", "du"} ELSE {})
  \cup (IF Lda % n = 0 /\ Blk(n) % 8 = 0 THEN {"at"} ELSE {})
  \cup (IF Lda % (2 * n) = 0 THEN {"cs"} ELSE {})
  \cup (IF n <= 2 THEN {"dm"} ELSE {})
  \cup (IF DataSize >= n THEN {"vvadd0"} ELSE {})

\* What two cores run of these kernels does not conflict.
LEMMA RaceFreePrograms ==
  ASSUME NEW n \in Nat \ {0}, NEW c \in 0 .. (n - 1), NEW d \in 0 .. (n - 1), c # d,
         NEW k \in RaceFree(n)
  PROVE  NeverConflict(Linked(c, n)[k], Linked(d, n)[k])
<1>1. \A p, q : ApartPlans(p, q) => NeverConflict(MatmulProgram(p), MatmulProgram(q))
  BY ApartPrograms DEF NeverConflict
<1>2. \A z, y : z \cap y = {} => NeverConflict(VvaddProgram(c, z), VvaddProgram(d, y))
  BY VvaddApart
<1>3. CASE k \in {"ap", "ar", "matmul", "do", "an", "ad"}
  <2>1. \A x : /\ Linked(x, n).ap = MatmulProgram(ap_matmul(x, n))
            /\ Linked(x, n).ar = MatmulProgram(ar_matmul(x, n))
            /\ Linked(x, n).matmul = MatmulProgram(matmul(x, n))
            /\ Linked(x, n).do = MatmulProgram(do_matmul(x, n))
            /\ Linked(x, n).an = MatmulProgram(an_matmul(x, n))
            /\ Linked(x, n).ad = MatmulProgram(ad_matmul(x, n))
    BY SMTT(30) DEF Linked
  <2>2. /\ ApartPlans(ap_matmul(c, n), ap_matmul(d, n))
        /\ ApartPlans(ar_matmul(c, n), ar_matmul(d, n))
        /\ ApartPlans(matmul(c, n), matmul(d, n))
        /\ ApartPlans(do_matmul(c, n), do_matmul(d, n))
        /\ ApartPlans(an_matmul(c, n), an_matmul(d, n))
        /\ ApartPlans(ad_matmul(c, n), ad_matmul(d, n))
    BY OwnRowsApart, RowLoopsApart
  <2> QED
    BY <1>1, <1>3, <2>1, <2>2
<1>4. CASE k \in {"al", "bf", "cl", "df"}
  <2>1. \A x : /\ Linked(x, n).al = MatmulProgram(al_matmul(x, n))
            /\ Linked(x, n).bf = MatmulProgram(bf_matmul(x, n))
            /\ Linked(x, n).cl = MatmulProgram(cl_matmul(x, n))
            /\ Linked(x, n).df = MatmulProgram(df_matmul(x, n))
    BY DEF Linked
  <2>2. /\ ApartPlans(al_matmul(c, n), al_matmul(d, n))
        /\ ApartPlans(bf_matmul(c, n), bf_matmul(d, n))
        /\ ApartPlans(cl_matmul(c, n), cl_matmul(d, n))
        /\ ApartPlans(df_matmul(c, n), df_matmul(d, n))
    BY ColumnSplitsApart
  <2> QED
    BY <1>1, <1>4, <2>1, <2>2
<1>5. CASE k \in {"av", "cv", "bo", "bh", "bj", "bk", "dv"}
  <2>1. \A x : /\ Linked(x, n).av = MatmulProgram(av_matmul(x, n))
            /\ Linked(x, n).cv = MatmulProgram(cv_matmul(x, n))
            /\ Linked(x, n).bo = MatmulProgram(bo_matmul(x, n))
            /\ Linked(x, n).bh = MatmulProgram(bh_matmul(x, n))
            /\ Linked(x, n).bj = MatmulProgram(bj_matmul(x, n))
            /\ Linked(x, n).bk = MatmulProgram(bk_matmul(x, n))
            /\ Linked(x, n).dv = MatmulProgram(dv_matmul(x, n))
    BY SMTT(30) DEF Linked
  <2>2. /\ ApartPlans(av_matmul(c, n), av_matmul(d, n))
        /\ ApartPlans(cv_matmul(c, n), cv_matmul(d, n))
        /\ ApartPlans(bo_matmul(c, n), bo_matmul(d, n))
        /\ ApartPlans(bh_matmul(c, n), bh_matmul(d, n))
        /\ ApartPlans(bj_matmul(c, n), bj_matmul(d, n))
        /\ ApartPlans(bk_matmul(c, n), bk_matmul(d, n))
        /\ ApartPlans(dv_matmul(c, n), dv_matmul(d, n))
    BY RowSplitsApart DEF cv_matmul, bj_matmul
  <2> QED
    BY <1>1, <1>5, <2>1, <2>2
<1>6. CASE k \in {"ay", "az", "bc", "dc"}
  <2>1. \A x : /\ Linked(x, n).ay = MatmulProgram(ay_matmul(x, n))
            /\ Linked(x, n).az = MatmulProgram(az_matmul(x, n))
            /\ Linked(x, n).bc = MatmulProgram(bc_matmul(x, n))
            /\ Linked(x, n).dc = MatmulProgram(dc_matmul(x, n))
    BY DEF Linked
  <2>2. /\ ApartPlans(ay_matmul(c, n), ay_matmul(d, n))
        /\ ApartPlans(az_matmul(c, n), az_matmul(d, n))
        /\ ApartPlans(bc_matmul(c, n), bc_matmul(d, n))
        /\ ApartPlans(dc_matmul(c, n), dc_matmul(d, n))
    BY HalvesApart DEF az_matmul, dc_matmul
  <2> QED
    BY <1>1, <1>6, <2>1, <2>2
<1>7. CASE k \in {"ak", "aq", "bs", "ck", "ds"}
  <2>1. \A x : /\ Linked(x, n).ak = MatmulProgram(ak_matmul(x, n))
            /\ Linked(x, n).aq = MatmulProgram(aq_matmul(x, n))
            /\ Linked(x, n).bs = MatmulProgram(bs_matmul(x, n))
            /\ Linked(x, n).ck = MatmulProgram(ck_matmul(x, n))
            /\ Linked(x, n).ds = MatmulProgram(ds_matmul(x, n))
    BY SMTT(30) DEF Linked
  <2>2. /\ ApartPlans(ak_matmul(c, n), ak_matmul(d, n))
        /\ ApartPlans(aq_matmul(c, n), aq_matmul(d, n))
        /\ ApartPlans(bs_matmul(c, n), bs_matmul(d, n))
        /\ ApartPlans(ck_matmul(c, n), ck_matmul(d, n))
        /\ ApartPlans(ds_matmul(c, n), ds_matmul(d, n))
    BY DealtApart
  <2> QED
    BY <1>1, <1>7, <2>1, <2>2
<1>8. CASE k \in {"ai", "ci", "ae", "ce", "cy"}
  <2>1. \A x : /\ Linked(x, n).ai = MatmulProgram(ai_matmul(x, n))
            /\ Linked(x, n).ci = MatmulProgram(ci_matmul(x, n))
            /\ Linked(x, n).ae = MatmulProgram(ae_matmul(x, n))
            /\ Linked(x, n).ce = MatmulProgram(ce_matmul(x, n))
            /\ Linked(x, n).cy = MatmulProgram(cy_matmul(x, n))
    BY DEF Linked
  <2>2. /\ ApartPlans(ai_matmul(c, n), ai_matmul(d, n))
        /\ ApartPlans(ci_matmul(c, n), ci_matmul(d, n))
        /\ ApartPlans(ae_matmul(c, n), ae_matmul(d, n))
        /\ ApartPlans(ce_matmul(c, n), ce_matmul(d, n))
        /\ ApartPlans(cy_matmul(c, n), cy_matmul(d, n))
    BY SharedRowsApart, ScratchApart DEF ci_matmul
  <2> QED
    BY <1>1, <1>8, <2>1, <2>2
<1>9. CASE k \in {"vvadd1", "vvadd2", "vvadd3", "vvadd4", "vvadd"}
  <2>1. \A x : /\ Linked(x, n).vvadd1 = VvaddProgram(x, vvadd1(x, n))
            /\ Linked(x, n).vvadd2 = VvaddProgram(x, vvadd2(x, n))
            /\ Linked(x, n).vvadd3 = VvaddProgram(x, vvadd3(x, n))
            /\ Linked(x, n).vvadd4 = VvaddProgram(x, vvadd4(x, n))
            /\ Linked(x, n).vvadd = VvaddProgram(x, vvadd(x, n))
    BY SMTT(30) DEF Linked
  <2> QED
    BY <1>2, <1>9, <2>1, VectorsApart
<1>10. CASE Blk(n) % 4 = 0 /\ k \in {"ag", "bb", "bm", "cg"}
  <2>1. \A x : /\ Linked(x, n).ag = MatmulProgram(ag_matmul(x, n))
            /\ Linked(x, n).bb = MatmulProgram(bb_matmul(x, n))
            /\ Linked(x, n).bm = MatmulProgram(bm_matmul(x, n))
            /\ Linked(x, n).cg = MatmulProgram(cg_matmul(x, n))
    BY DEF Linked
  <2>2. /\ ApartPlans(ag_matmul(c, n), ag_matmul(d, n))
        /\ ApartPlans(bb_matmul(c, n), bb_matmul(d, n))
        /\ ApartPlans(bm_matmul(c, n), bm_matmul(d, n))
        /\ ApartPlans(cg_matmul(c, n), cg_matmul(d, n))
    BY <1>10, UnrolledApart DEF cg_matmul
  <2> QED
    BY <1>1, <1>10, <2>1, <2>2
<1>11. CASE DataSize >= n /\ k = "vvadd0"
  <2>1. \A x : Linked(x, n).vvadd0 = VvaddProgram(x, vvadd0(x, n))
    BY DEF Linked
  <2> QED
    BY <1>2, <1>11, <2>1, VectorsApart
<1>12. CASE Blk(n) % 16 = 0 /\ k \in {"br", "dr"}
  <2>1. \A x : /\ Linked(x, n).br = MatmulProgram(br_matmul(x, n))
            /\ Linked(x, n).dr = MatmulProgram(dr_matmul(x, n))
    BY DEF Linked
  <2>2. /\ ApartPlans(br_matmul(c, n), br_matmul(d, n))
        /\ ApartPlans(dr_matmul(c, n), dr_matmul(d, n))
    BY <1>12, TransposedApart DEF br_matmul, dr_matmul
  <2> QED
    BY <1>1, <1>12, <2>1, <2>2
<1>13. CASE \/ Lda = 32 /\ Lda % n = 0 /\ Blk(n) % 2 = 0 /\ k \in {"af", "am", "du"}
            \/ Lda % n = 0 /\ Blk(n) % 8 = 0 /\ k = "at"
            \/ Lda % (2 * n) = 0 /\ k = "cs"
  <2>1. \A x : /\ Linked(x, n).af = MatmulProgram(af_matmul(x, n))
            /\ Linked(x, n).am = MatmulProgram(am_matmul(x, n))
            /\ Linked(x, n).du = MatmulProgram(du_matmul(x, n))
            /\ Linked(x, n).at = MatmulProgram(at_matmul(x, n))
            /\ Linked(x, n).cs = MatmulProgram(cs_matmul(x, n))
    BY SMTT(30) DEF Linked
  <2> QED
    BY <1>1, <1>13, <2>1, EvenlyApart
<1>14. CASE n <= 2 /\ k = "dm"
  <2>1. \A x : Linked(x, n).dm = MatmulProgram(dm_matmul(x, n))
    BY DEF Linked
  <2>2. ApartPlans(dm_matmul(c, n), dm_matmul(d, n))
    BY <1>14, TwoCopiersApart
  <2> QED
    BY <1>1, <1>14, <2>1, <2>2
<1> QED
  BY <1>3, <1>4, <1>5, <1>6, <1>7, <1>8, <1>9, <1>10, <1>11, <1>12,
     <1>13, <1>14 DEF RaceFree

\* However the cores interleave, in a test that links one of these kernels no core
\* stores what another stores, adds to, reads or verifies between the same two
\* barriers.
THEOREM KernelsDoNotRace == Spec => [](kernel \in RaceFree(ncores) => NoRace)
<1>1. MtInv => (kernel \in RaceFree(ncores) => NoRace)
  <2> SUFFICES ASSUME MtInv, kernel \in RaceFree(ncores), NEW c \in Cores, NEW d \in Cores, c # d,
                      pc[c] = "work", pc[d] = "work"
               PROVE  ~Conflict(Here(c), Here(d))
    BY DEF NoRace
  <2>1. item[d] = item[c]
    BY WorkTogether DEF MtInv
  <2>2. item[c] \in 1 .. Len(Program(c))
    BY ProgramLength DEF MtInv, BInv, BarrierTypeOK, ProgramInv
  <2>3. Program(c) = Linked(c, ncores)[kernel] /\ Program(d) = Linked(d, ncores)[kernel]
    BY ProgramIsLinked DEF MtInv
  <2>4. NeverConflict(Linked(c, ncores)[kernel], Linked(d, ncores)[kernel])
    <3>1. ncores \in Nat \ {0} /\ c \in 0 .. (ncores - 1) /\ d \in 0 .. (ncores - 1)
      BY DEF MtInv, BInv, BarrierTypeOK, Cores
    <3> QED
      BY <3>1, RaceFreePrograms
  <2> QED
    BY <2>1, <2>2, <2>3, <2>4 DEF NeverConflict, Here
<1> QED
  BY <1>1, MtInvariant, PTL

-----------------------------------------------------------------------------
(* Stores stay inside                                                      *)

\* A segment that stores blocks of an array of "height" rows of "width" elements.
Inside(segment, height, width) == \A b \in segment.stores : Fits(b, height, width)

PlanInside(p) == IsPlan(p) /\ \A i \in 1 .. Len(p) : Inside(p[i], Lda, Lda)

\* Plans that stay inside make programs that do.
LEMMA ProgramInside ==
  ASSUME NEW p, PlanInside(p)
  PROVE  \A i \in 1 .. Len(MatmulProgram(p)) : Inside(MatmulProgram(p)[i].segment, Lda, Lda)
<1>1. IsPlan(p) /\ Len(p) \in Nat /\ \A i \in 1 .. Len(p) : Inside(p[i], Lda, Lda)
  BY PlanLength DEF PlanInside
<1>2. /\ Len(MatmulProgram(p)) = Len(p) + 1
      /\ \A i \in 1 .. Len(p) : MatmulProgram(p)[i] = Item(FALSE, p[i])
      /\ MatmulProgram(p)[Len(p) + 1] = Item(TRUE, Idle)
  BY <1>1, MatmulItems
<1>3. \A b, x : Item(b, x).segment = x
  BY DEF Item
<1>4. Inside(Idle, Lda, Lda)
  BY DEF Inside, Idle, Seg, Segment
<1> TAKE i \in 1 .. Len(MatmulProgram(p))
<1>5. CASE i \in 1 .. Len(p)
  <2>1. MatmulProgram(p)[i].segment = p[i]
    BY <1>2, <1>3, <1>5
  <2> QED
    BY <1>1, <1>5, <2>1
<1>6. CASE i = Len(p) + 1
  BY <1>2, <1>3, <1>4, <1>6
<1> QED
  BY <1>1, <1>2, <1>5, <1>6

\* A block of the matrix.
InMatrix(b) == b.stride = Lda /\ b.rows \subseteq All /\ b.cols \subseteq All

\* Segments that store blocks of the matrix.
LEMMA BlocksInside ==
  ASSUME NEW stores, \A b \in stores : InMatrix(b), NEW fills, NEW reads
  PROVE  Inside(Segment(stores, fills, reads), Lda, Lda)
  BY DEF Inside, Segment, InMatrix, Fits, All

\* A plan of one segment.
LEMMA OneInside ==
  ASSUME NEW stores, \A b \in stores : InMatrix(b), NEW fills, NEW reads
  PROVE  PlanInside(<<Segment(stores, fills, reads)>>)
<1>1. Inside(Segment(stores, fills, reads), Lda, Lda)
  BY BlocksInside
<1> QED
  BY <1>1, PlanOne DEF PlanInside

\* A segment that stores nothing.
LEMMA IdleInside == PlanInside(<<Idle>>)
  BY OneInside DEF Idle, Seg

\* Plans one after the other.
LEMMA ConcatInside ==
  ASSUME NEW p, NEW q, PlanInside(p), PlanInside(q)
  PROVE  PlanInside(p \o q)
<1>1. /\ IsPlan(p \o q) /\ Len(p \o q) = Len(p) + Len(q)
      /\ \A i \in 1 .. Len(p) : (p \o q)[i] = p[i]
      /\ \A i \in 1 .. Len(q) : (p \o q)[Len(p) + i] = q[i]
  BY PlanConcat DEF PlanInside
<1>2. Len(p) \in Nat /\ Len(q) \in Nat
  BY PlanLength DEF PlanInside
<1> SUFFICES ASSUME NEW i \in 1 .. (Len(p) + Len(q)) PROVE Inside((p \o q)[i], Lda, Lda)
  BY <1>1 DEF PlanInside
<1>3. CASE i \in 1 .. Len(p)
  BY <1>1, <1>3 DEF PlanInside
<1>4. CASE i \notin 1 .. Len(p)
  <2>1. PICK j \in 1 .. Len(q) : i = Len(p) + j
    <3>1. i - Len(p) \in 1 .. Len(q) /\ i = Len(p) + (i - Len(p))
      BY <1>2, <1>4
    <3> QED
      BY <3>1
  <2> QED
    BY <1>1, <2>1 DEF PlanInside
<1> QED
  BY <1>3, <1>4

\* Two segments.
LEMMA TwoInside ==
  ASSUME NEW x, NEW y, PlanInside(<<x>>), PlanInside(<<y>>)
  PROVE  PlanInside(<<x, y>>)
<1>1. Inside(x, Lda, Lda) /\ Inside(y, Lda, Lda)
  <2>1. \A z : PlanInside(<<z>>) => Inside(z, Lda, Lda)
    BY PlanOne DEF PlanInside
  <2> QED
    BY <2>1
<1>2. Len(<<x, y>>) = 2 /\ <<x, y>>[1] = x /\ <<x, y>>[2] = y
  OBVIOUS
<1>3. \A i \in 1 .. 2 : i = 1 \/ i = 2
  OBVIOUS
<1>4. \A i \in 1 .. 2 : Inside(<<x, y>>[i], Lda, Lda)
  BY <1>1, <1>2, <1>3, Zenon
<1> QED
  BY <1>2, <1>4, PlanTwo, Zenon DEF PlanInside

\* A loop over barriers.
LEMMA LoopInside ==
  ASSUME NEW m \in Nat, NEW f, f = [s \in 1 .. m |-> f[s]],
         \A s \in 1 .. m : Inside(f[s], Lda, Lda)
  PROVE  PlanInside(f)
<1>1. IsPlan(f) /\ DOMAIN f = 1 .. m
  BY DEF IsPlan
<1>2. Len(f) = m
  BY <1>1, PlanLength
<1> QED
  BY <1>1, <1>2 DEF PlanInside

\* The rows of the cores are rows of the matrix.
LEMMA OwnInside ==
  ASSUME NEW n \in Nat \ {0}, NEW c \in 0 .. (n - 1)
  PROVE  Own(c, n) \subseteq All
<1>1. PICK b \in Nat : b = Blk(n)
  BY Products
<1>2. Lda \in Nat /\ n * b <= Lda
  <2>1. Lda \in Nat
    BY Products
  <2>2. Lda = n * (Lda \div n) + (Lda % n) /\ Lda % n \in Nat
    BY <2>1
  <2>3. n * b \in Nat
    OBVIOUS
  <2> QED
    BY <1>1, <2>1, <2>2, <2>3 DEF Blk
<1>3. PICK e \in Nat : n = c + 1 + e
  OBVIOUS
<1>4. n * b = (c + 1) * b + e * b /\ e * b \in Nat /\ (c + 1) * b \in Nat /\ c * b \in Nat
  BY <1>3
<1> QED
  BY <1>1, <1>2, <1>4 DEF Own, All

\* The core's rows, taken from lda / ncores, are rows of the matrix.
LEMMA MatmulsInside ==
  ASSUME NEW n \in Nat \ {0}, NEW c \in 0 .. (n - 1)
  PROVE  /\ PlanInside(an_matmul(c, n)) /\ PlanInside(ap_matmul(c, n))
         /\ PlanInside(ar_matmul(c, n)) /\ PlanInside(matmul(c, n))
<1>1. \A b : InMatrix(b) => PlanInside(<<Seg({b})>>)
  BY OneInside DEF Seg
<1>2. \A R, t : R \subseteq All => InMatrix(Add(R, All, t)) /\ InMatrix(Set(R, All, t))
  BY DEF Add, Set, Block, InMatrix
<1>3. PlanInside(ap_matmul(c, n)) /\ PlanInside(matmul(c, n))
  BY <1>1, <1>2, OwnInside DEF ap_matmul, matmul
<1>4. PlanInside(ar_matmul(c, n))
  BY <1>1, <1>2 DEF ar_matmul
<1>5. PlanInside(an_matmul(c, n))
  <2> DEFINE f == [s \in 1 .. (Blk(n) * Lda) |->
                     Seg({Add({c * Blk(n) + ((s - 1) \div Lda)}, All, {(s - 1) % Lda})})]
  <2>1. Lda \in Nat \ {0} /\ Blk(n) \in Nat /\ Blk(n) * Lda \in Nat
    BY Products
  <2>2. ASSUME NEW s \in 1 .. (Blk(n) * Lda) PROVE Inside(f[s], Lda, Lda)
    <3>1. {c * Blk(n) + ((s - 1) \div Lda)} \subseteq All
      BY <2>1, RowInOwn, OwnInside
    <3> QED
      BY <1>2, <3>1, BlocksInside DEF Seg
  <2>3. PlanInside(f)
    <3>1. PICK k \in Nat : k = Blk(n) * Lda
      BY <2>1
    <3>2. f = [s \in 1 .. k |-> f[s]]
      BY <3>1
    <3> HIDE DEF f
    <3> QED
      BY <2>2, <3>1, <3>2, LoopInside
  <2>4. an_matmul(c, n) = f \o <<Idle>>
    BY DEF an_matmul
  <2> HIDE DEF f
  <2> QED
    BY <2>3, <2>4, IdleInside, ConcatInside
<1> QED
  BY <1>3, <1>4, <1>5

\* What core 0 and core 1 each do.
LEMMA SplitInside ==
  ASSUME NEW c, NEW n, NEW first, NEW second,
         \A b \in first : InMatrix(b), \A b \in second : InMatrix(b)
  PROVE  PlanInside(<<Seg(Split(c, n, first, second))>>)
<1>1. \A b \in Split(c, n, first, second) : InMatrix(b)
  BY DEF Split
<1> QED
  BY <1>1, OneInside DEF Seg

\* The kernels written for two cores and 32x32.
LEMMA SplitsInside ==
  ASSUME NEW n \in Nat \ {0}, NEW c \in 0 .. (n - 1), Lda = 32
  PROVE  /\ PlanInside(al_matmul(c, n)) /\ PlanInside(av_matmul(c, n))
         /\ PlanInside(bf_matmul(c, n)) /\ PlanInside(bk_matmul(c, n))
         /\ PlanInside(bo_matmul(c, n)) /\ PlanInside(cl_matmul(c, n))
         /\ PlanInside(df_matmul(c, n)) /\ PlanInside(dv_matmul(c, n))
         /\ PlanInside(cf_matmul(c, n)) /\ PlanInside(cm_matmul(c, n))
<1>1. All = 0 .. 31
  BY DEF All
<1>2. \A rows, cols, t : rows \subseteq 0 .. 31 /\ cols \subseteq 0 .. 31 =>
        /\ InMatrix(Add(rows, cols, t)) /\ InMatrix(Set(rows, cols, t))
        /\ InMatrix(Add32(rows, cols, t)) /\ InMatrix(Set32(rows, cols, t))
  BY <1>1 DEF InMatrix, Add, Set, Add32, Set32, Block
<1>3. /\ 0 .. 15 \subseteq 0 .. 31 /\ 16 .. 31 \subseteq 0 .. 31 /\ 0 .. 31 \subseteq 0 .. 31
  OBVIOUS
<1>4. PlanInside(al_matmul(c, n)) /\ PlanInside(bf_matmul(c, n))
  BY <1>2, <1>3, SplitInside DEF al_matmul, bf_matmul
<1>5. PlanInside(cl_matmul(c, n)) /\ PlanInside(df_matmul(c, n))
  <2>1. /\ \A b \in FirstColumns : InMatrix(b)
        /\ \A b \in {Add(rows, 16 .. 31, 0 .. 31) : rows \in {16 .. 31, 0 .. 15}} : InMatrix(b)
    BY <1>2, <1>3 DEF FirstColumns
  <2> QED
    BY <1>2, <1>3, <2>1, SplitInside DEF cl_matmul, df_matmul, LastColumns
<1>6. PlanInside(av_matmul(c, n))
  <2>1. (\A b \in FirstRows : InMatrix(b)) /\ (\A b \in LastRows : InMatrix(b))
    BY <1>2, <1>3 DEF FirstRows, LastRows
  <2> QED
    BY <2>1, SplitInside DEF av_matmul
<1>7. PlanInside(bk_matmul(c, n)) /\ PlanInside(dv_matmul(c, n))
  <2>1. \A r \in {0 .. 15, 16 .. 31} :
          \A b \in {Add32(r, 0 .. 31, KkHalf(kk)) : kk \in {0, 16}} : InMatrix(b)
    BY <1>2, <1>3
  <2> QED
    BY <2>1, SplitInside DEF bk_matmul, dv_matmul
<1>8. PlanInside(bo_matmul(c, n))
  <2>1. Unrolled(0, 16, 2) \subseteq 0 .. 31 /\ Unrolled(16, 32, 2) \subseteq 0 .. 31
    <3>1. Unrolled(0, 16, 2) = 0 .. 15
      <4>1. 0 \in Nat /\ 16 \in Nat /\ 0 <= 16 /\ 2 \in Nat \ {0} /\ (16 - 0) % 2 = 0 /\ 16 - 1 = 15
        OBVIOUS
      <4>2. Unrolled(0, 16, 2) = 0 .. (16 - 1)
        BY <4>1, EvenTurns, Zenon
      <4> QED
        BY <4>1, <4>2, Zenon
    <3>2. Unrolled(16, 32, 2) = 16 .. 31
      <4>1. 16 \in Nat /\ 32 \in Nat /\ 16 <= 32 /\ 2 \in Nat \ {0} /\ (32 - 16) % 2 = 0
            /\ 32 - 1 = 31
        OBVIOUS
      <4>2. Unrolled(16, 32, 2) = 16 .. (32 - 1)
        BY <4>1, EvenTurns, Zenon
      <4> QED
        BY <4>1, <4>2, Zenon
    <3> QED
      BY <1>3, <3>1, <3>2
  <2> QED
    BY <1>2, <1>3, <2>1, SplitInside DEF bo_matmul
<1>9. PlanInside(cf_matmul(c, n))
  BY <1>2, <1>3, SplitInside, IdleInside DEF cf_matmul
<1>10. PlanInside(cm_matmul(c, n))
  <2>1. Unrolled(0, Lda, 2) = 0 .. 31
    <3>1. Lda % 2 = 0 /\ 2 \in Nat \ {0}
      OBVIOUS
    <3> QED
      BY <1>1, <3>1, EvenRanges
  <2> QED
    BY <1>2, <1>3, <2>1, SplitInside DEF cm_matmul
<1> QED
  BY <1>4, <1>5, <1>6, <1>7, <1>8, <1>9, <1>10

\* The kernels that give a core half of 32 rows, and those with the rows of 32 / ncores.
LEMMA HalvesInside ==
  ASSUME NEW n \in Nat \ {0}, NEW c \in 0 .. (n - 1)
  PROVE  /\ Lda = 32 => /\ PlanInside(ay_matmul(c, n)) /\ PlanInside(cy_matmul(c, n))
                        /\ PlanInside(do_matmul(c, n)) /\ PlanInside(ad_matmul(c, n))
         /\ PlanInside(bc_matmul(c, n))
<1>1. ASSUME Lda = 32 PROVE All = 0 .. 31
  BY <1>1 DEF All
<1>2. ASSUME Lda = 32, c \in {0, 1} PROVE InMatrix(SixteenRows(c, n))
  <2>1. (16 * c) .. (16 * (IF n = 1 THEN 2 ELSE c + 1) - 1) \subseteq 0 .. 31
    BY <1>2
  <2> QED
    BY <1>1, <1>2, <2>1 DEF SixteenRows, Set32, Block, InMatrix
<1>3. Lda = 32 => PlanInside(ay_matmul(c, n))
  <2>1. c > 1 \/ c \in {0, 1}
    OBVIOUS
  <2> QED
    BY <1>2, <2>1, OneInside, IdleInside DEF ay_matmul, Seg
<1>4. Lda = 32 => PlanInside(cy_matmul(c, n))
  <2>1. c = 0 \/ c = 1 \/ c > 1
    OBVIOUS
  <2> QED
    BY <1>2, <2>1, OneInside, IdleInside DEF cy_matmul, Seg
<1>5. Lda = 32 => PlanInside(do_matmul(c, n))
  <2>1. PICK R : R = (c * (32 \div n)) .. ((c + 1) * (32 \div n) - 1)
    OBVIOUS
  <2>2. Lda = 32 => R = Own(c, n)
    BY <2>1, Zenon DEF Own, Blk
  <2>3. do_matmul(c, n) = <<Seg({Set32(R, 0 .. 31, 0 .. 31)})>>
    BY <2>1, Zenon DEF do_matmul
  <2>4. Lda = 32 => R \subseteq All
    BY <2>2, OwnInside
  <2> QED
    BY <1>1, <2>3, <2>4, OneInside DEF Set32, Block, InMatrix, Seg
<1>6. Lda = 32 => PlanInside(ad_matmul(c, n))
  <2> DEFINE m == Blk(n) * 16
             f == [s \in 1 .. m |->
                     LET k == 2 * ((s - 1) % 16)
                     IN  Seg({Add32({c * Blk(n) + ((s - 1) \div 16)}, 0 .. 31, {k, k + 1})})]
  <2> SUFFICES ASSUME Lda = 32 PROVE PlanInside(f \o <<Idle>>)
    BY DEF ad_matmul
  <2>1. m \in Nat /\ Blk(n) \in Nat
    BY Products
  <2>2. ASSUME NEW s \in 1 .. m PROVE Inside(f[s], Lda, Lda)
    <3>1. {c * Blk(n) + ((s - 1) \div 16)} \subseteq All
      <4>1. 16 \in Nat \ {0} /\ c \in Nat
        OBVIOUS
      <4> QED
        BY <2>1, <4>1, RowInOwn, OwnInside
    <3>2. f[s] = Seg({Add32({c * Blk(n) + ((s - 1) \div 16)}, 0 .. 31,
                            {2 * ((s - 1) % 16), 2 * ((s - 1) % 16) + 1})})
      OBVIOUS
    <3> HIDE DEF f
    <3> QED
      BY <1>1, <3>1, <3>2, BlocksInside DEF Seg, Add32, Block, InMatrix
  <2>3. PlanInside(f)
    <3> HIDE DEF m
    <3>1. f = [s \in 1 .. m |-> f[s]]
      OBVIOUS
    <3> HIDE DEF f
    <3> QED
      BY <2>1, <2>2, <3>1, LoopInside
  <2> HIDE DEF f
  <2> QED
    BY <2>3, IdleInside, ConcatInside
<1>7. PlanInside(bc_matmul(c, n))
  <2>1. PlanInside(Naive(c))
    BY OneInside, IdleInside DEF Naive, Add, Block, InMatrix, Seg
  <2>2. ASSUME n = 2, Lda = 32
        PROVE  PlanInside(<<Seg({Add(TwoCoreRows(c), 0 .. 31, KkHalf(kk)) : kk \in {0, 16}})>>)
    <3>1. TwoCoreRows(c) \subseteq 0 .. 31
      <4>1. c \in {0, 1}
        BY <2>2
      <4> QED
        BY <4>1 DEF TwoCoreRows
    <3>2. \A b \in {Add(TwoCoreRows(c), 0 .. 31, KkHalf(kk)) : kk \in {0, 16}} : InMatrix(b)
      BY <1>1, <2>2, <3>1 DEF Add, Block, InMatrix
    <3> QED
      BY <3>2, OneInside DEF Seg
  <2> QED
    BY <2>1, <2>2 DEF bc_matmul
<1> QED
  BY <1>3, <1>4, <1>5, <1>6, <1>7

\* The kernels without barriers that unroll over the core's rows or columns.
LEMMA UnrolledRowsInside ==
  ASSUME NEW n \in Nat \ {0}, NEW c \in 0 .. (n - 1)
  PROVE  /\ Blk(n) % 4 = 0 /\ Lda % 2 = 0 => PlanInside(bb_matmul(c, n))
         /\ Lda % n = 0 /\ Blk(n) % 8 = 0 => PlanInside(at_matmul(c, n))
         /\ Lda = 32 /\ Lda % n = 0 /\ Blk(n) % 2 = 0 =>
              PlanInside(af_matmul(c, n)) /\ PlanInside(am_matmul(c, n))
         /\ Lda % 8 = 0 => PlanInside(bh_matmul(c, n))
         /\ Lda % 4 = 0 => PlanInside(ai_matmul(c, n))
<1>1. Lda \in Nat /\ c \in Nat /\ 2 \in Nat \ {0} /\ 4 \in Nat \ {0} /\ 8 \in Nat \ {0}
  BY Products
<1>2. ASSUME NEW s \in {2, 4, 8}, Blk(n) % s = 0
      PROVE  Unrolled(c * Blk(n), (c + 1) * Blk(n), s) \subseteq All
  <2>1. Unrolled(c * Blk(n), (c + 1) * Blk(n), s) = Own(c, n)
    BY <1>1, <1>2, EvenRanges
  <2> QED
    BY <2>1, OwnInside
<1>3. ASSUME NEW s \in {2, 4, 8}, Lda % s = 0 PROVE Unrolled(0, Lda, s) = All
  BY <1>1, <1>3, EvenRanges
<1>4. Blk(n) % 4 = 0 /\ Lda % 2 = 0 => PlanInside(bb_matmul(c, n))
  BY <1>2, <1>3, OneInside DEF bb_matmul, Set, Block, InMatrix, Seg
<1>5. ASSUME NEW s \in {2, 4, 8}, Blk(n) % s = 0, Lda % n = 0
      PROVE  Unrolled((c * Lda) \div n, ((c + 1) * Lda) \div n, s) \subseteq All
  <2>1. (c * Lda) \div n = c * Blk(n) /\ ((c + 1) * Lda) \div n = (c + 1) * Blk(n)
    <3>1. c \in 0 .. n /\ c + 1 \in 0 .. n
      OBVIOUS
    <3> QED
      BY <1>5, <3>1, Shares
  <2> QED
    BY <1>2, <1>5, <2>1, Zenon
<1>6. Lda % n = 0 /\ Blk(n) % 8 = 0 => PlanInside(at_matmul(c, n))
  BY <1>5, OneInside DEF at_matmul, Add, Block, InMatrix, Seg
<1>7. ASSUME Lda = 32, Lda % n = 0, Blk(n) % 2 = 0
      PROVE  PlanInside(af_matmul(c, n)) /\ PlanInside(am_matmul(c, n))
  <2>1. PICK R : R = Unrolled((c * Lda) \div n, ((c + 1) * Lda) \div n, 2)
    OBVIOUS
  <2>2. R \subseteq All
    BY <1>5, <1>7, <2>1
  <2>3. (c + 1) * Lda = Lda * (1 + c)
    BY <1>1
  <2>4. R = Unrolled((c * Lda) \div n, (Lda * (1 + c)) \div n, 2)
    BY <2>1, <2>3, Zenon
  <2>5. R = Unrolled((c * 32) \div n, (32 * (1 + c)) \div n, 2)
    BY <1>7, <2>4, Zenon
  <2>6. PICK T : T = Unrolled(0, Lda, 4)
    OBVIOUS
  <2>7. /\ af_matmul(c, n) = <<Seg({Set32(R, All, T)})>>
        /\ am_matmul(c, n) = <<Seg({Set32(R, 0 .. 31, T)})>>
    BY <2>4, <2>5, <2>6, Zenon DEF af_matmul, am_matmul
  <2>8. All = 0 .. 31
    BY <1>7 DEF All
  <2>9. InMatrix(Set32(R, All, T)) /\ Set32(R, 0 .. 31, T) = Set32(R, All, T)
    BY <1>7, <2>2, <2>8 DEF Set32, Block, InMatrix
  <2> QED
    BY <2>7, <2>9, OneInside DEF Seg
<1>8. Lda % 8 = 0 => PlanInside(bh_matmul(c, n))
  <2>1. 0 .. (Lda \div 2 - 1) \subseteq All /\ (Lda \div 2) .. (Lda - 1) \subseteq All
    BY <1>1 DEF All
  <2>2. \A R, C, t : R \subseteq All /\ C \subseteq All => InMatrix(Add(R, C, t))
    BY DEF Add, Block, InMatrix
  <2>3. Lda % 8 = 0 => Unrolled(0, Lda, 8) \subseteq All
    BY <1>3
  <2>4. Lda % 8 = 0 =>
          \A b \in {Add(0 .. (Lda \div 2 - 1), Unrolled(0, Lda, 8), LdaHalf(m)) : m \in {0, 1}} :
            InMatrix(b)
    BY <2>1, <2>2, <2>3, Zenon
  <2>5. \A b \in {Add((Lda \div 2) .. (Lda - 1), All, LdaHalf(m)) : m \in {0, 1}} : InMatrix(b)
    BY <2>1, <2>2, Zenon
  <2> QED
    BY <2>4, <2>5, SplitInside DEF bh_matmul
<1>9. Lda % 4 = 0 => PlanInside(ai_matmul(c, n))
  <2>1. PICK lo \in Nat : lo = (c * Lda) \div n
    BY Shares
  <2>2. lo + Blk(n) <= Lda
    <3>1. (c * Lda) \div n + (Lda \div n) <= (n * Lda) \div n
      BY <1>1, SharesApart
    <3>2. (n * Lda) \div n = Lda
      BY <1>1, QuotientOf
    <3> QED
      BY <2>1, <3>1, <3>2 DEF Blk
  <2>3. lo .. (lo + Blk(n) - 1) \subseteq All
    BY <1>1, <2>1, <2>2, Products DEF All
  <2> DEFINE S == Seg({Set(lo .. (lo + Blk(n) - 1), Unrolled(0, Lda, 4), All)})
  <2>4. Lda % 4 = 0 => PlanInside(<<S>>)
    <3>1. PICK R : R = lo .. (lo + Blk(n) - 1) /\ R \subseteq All
      BY <2>3
    <3>2. S = Seg({Set(R, Unrolled(0, Lda, 4), All)})
      BY <3>1
    <3>3. Lda % 4 = 0 => InMatrix(Set(R, Unrolled(0, Lda, 4), All))
      BY <1>3, <3>1 DEF Set, Block, InMatrix
    <3> HIDE DEF S
    <3> QED
      BY <3>2, <3>3, OneInside DEF Seg
  <2>5. ai_matmul(c, n) = <<Idle, S>>
    BY <2>1 DEF ai_matmul
  <2> HIDE DEF S
  <2>6. <<Idle, S>> = <<Idle>> \o <<S>>
    OBVIOUS
  <2> QED
    BY <2>4, <2>5, <2>6, IdleInside, ConcatInside
<1> QED
  BY <1>4, <1>6, <1>7, <1>8, <1>9

\* bm and dm: the last core's rows end at the last multiple of four.
LEMMA LastRowsInside ==
  ASSUME NEW n \in Nat \ {0}, NEW c \in 0 .. (n - 1), Blk(n) % 4 = 0
  PROVE  /\ Unrolled(Blk(n) * c, 4 * ((IF c = n - 1 THEN Lda ELSE Blk(n) * (c + 1)) \div 4), 4)
              \subseteq All
         /\ Lda % 4 = 0 => PlanInside(bm_matmul(c, n))
         /\ PlanInside(dm_matmul(c, n))
<1> DEFINE h == IF c = n - 1 THEN Lda ELSE Blk(n) * (c + 1)
           R == Unrolled(Blk(n) * c, 4 * (h \div 4), 4)
<1>1. Lda \in Nat /\ Blk(n) \in Nat /\ 4 \in Nat \ {0}
  BY Products
<1>2. Blk(n) * c \in Nat /\ Blk(n) * (c + 1) \in Nat /\ (Blk(n) * c) % 4 = 0
  <2>1. PICK b \in Nat : Blk(n) = 4 * b
    BY <1>1
  <2>2. Blk(n) * c = 4 * (b * c) /\ b * c \in Nat
    BY <2>1
  <2>3. (4 * (b * c)) % 4 = 0
    BY <2>2, MultipleOf
  <2> QED
    BY <1>1, <2>2, <2>3
<1>3. h \in Nat /\ Blk(n) * c <= h /\ h <= Lda
  <2>1. PICK e \in Nat : n = c + 1 + e
    <3>1. n - (c + 1) \in Nat /\ n = c + 1 + (n - (c + 1))
      OBVIOUS
    <3> QED
      BY <3>1
  <2>2. n * Blk(n) <= Lda
    <3>1. Lda = n * (Lda \div n) + (Lda % n) /\ Lda % n \in Nat /\ n * (Lda \div n) \in Nat
      BY <1>1 DEF Blk
    <3> QED
      BY <1>1, <3>1 DEF Blk
  <2>3. n * Blk(n) = Blk(n) * (c + 1) + e * Blk(n) /\ e * Blk(n) \in Nat
        /\ Blk(n) * (c + 1) = Blk(n) * c + Blk(n)
    BY <1>1, <2>1
  <2> QED
    BY <1>1, <1>2, <2>2, <2>3
<1> HIDE DEF h
<1>4. R \subseteq All
  <2>1. PICK lo \in Nat, hi \in Nat : lo = Blk(n) * c /\ hi = 4 * (h \div 4)
    BY <1>2, <1>3
  <2>2. lo <= hi /\ (hi - lo) % 4 = 0 /\ hi <= Lda
    BY <1>1, <1>2, <1>3, <2>1
  <2>3. Unrolled(lo, hi, 4) = lo .. (hi - 1)
    BY <1>1, <2>2, EvenTurns
  <2>4. lo .. (hi - 1) \subseteq All
    BY <1>1, <2>2 DEF All
  <2> QED
    BY <2>1, <2>3, <2>4
<1>5. Lda % 4 = 0 => PlanInside(bm_matmul(c, n))
  <2>1. bm_matmul(c, n) = <<Seg({Add(R, Unrolled(0, Lda, 4), All)})>>
    BY DEF bm_matmul, h
  <2>2. Lda % 4 = 0 => Unrolled(0, Lda, 4) \subseteq All
    BY <1>1, EvenRanges
  <2> HIDE DEF R
  <2> QED
    BY <1>4, <2>1, <2>2, OneInside DEF Add, Block, InMatrix, Seg
<1>6. PlanInside(dm_matmul(c, n))
  <2>1. PICK C : C = Unrolled(0, 4 * (Lda \div 4), 4)
    OBVIOUS
  <2>2. C \subseteq All
    <3>1. PICK hi \in Nat : hi = 4 * (Lda \div 4)
      BY <1>1
    <3>2. 0 <= hi /\ (hi - 0) % 4 = 0 /\ hi <= Lda /\ 0 \in Nat
      BY <1>1, <3>1
    <3>3. Unrolled(0, hi, 4) = 0 .. (hi - 1)
      BY <1>1, <3>2, EvenTurns
    <3>4. 0 .. (hi - 1) \subseteq All
      BY <1>1, <3>2 DEF All
    <3> QED
      BY <2>1, <3>1, <3>3, <3>4
  <2> DEFINE fills == {Area(IF c = n - 1 THEN 0 .. (Blk(n) - 1) ELSE Blk(n) .. (Lda - 1), All)}
             reads == IF c = n - 1 THEN {Area(All, All)} ELSE {}
             x == Segment({}, fills, {})
             y == Segment({Add(R, C, All)}, {}, reads)
  <2>3. dm_matmul(c, n) = <<x, y>>
    BY <2>1 DEF dm_matmul, h
  <2> HIDE DEF fills, reads, R
  <2>4. PlanInside(<<x>>)
    BY OneInside
  <2>5. PlanInside(<<y>>)
    <3>1. InMatrix(Add(R, C, All))
      BY <1>4, <2>2 DEF Add, Block, InMatrix
    <3> QED
      BY <3>1, OneInside
  <2> HIDE DEF x, y
  <2> QED
    BY <2>3, <2>4, <2>5, TwoInside
<1> QED
  BY <1>4, <1>5, <1>6 DEF h

\* The kernels that deal out rows or columns.
LEMMA DealtInside ==
  ASSUME NEW n \in Nat \ {0}, NEW c \in 0 .. (n - 1)
  PROVE  /\ Lda % (2 * n) = 0 => PlanInside(aq_matmul(c, n)) /\ PlanInside(cs_matmul(c, n))
         /\ Lda % (4 * n) = 0 => PlanInside(bs_matmul(c, n))
         /\ Lda % 4 = 0 => PlanInside(ck_matmul(c, n)) /\ PlanInside(ds_matmul(c, n))
         /\ Lda % 8 = 0 => PlanInside(ak_matmul(c, n))
<1>1. Lda \in Nat /\ c \in Nat /\ 4 \in Nat \ {0} /\ 8 \in Nat \ {0} /\ 2 \in Nat \ {0}
  BY Products
<1>2. ASSUME NEW m \in Nat \ {0}, Lda % (m * n) = 0, NEW i \in Strided(c, Lda, m * n),
             NEW j \in 0 .. (m - 1)
      PROVE  i + j * n \in All
  <2>1. PICK s \in Nat \ {0} : s = m * n
    OBVIOUS
  <2>2. PICK e \in Nat : e = j * n
    OBVIOUS
  <2>3. c + e < s
    <3>1. PICK z \in Nat : m = j + 1 + z
      <4>1. m - (j + 1) \in Nat /\ m = j + 1 + (m - (j + 1))
        OBVIOUS
      <4> QED
        BY <4>1
    <3>2. m * n = j * n + n + z * n /\ z * n \in Nat
      BY <3>1
    <3> QED
      BY <1>1, <2>1, <2>2, <3>2
  <2>4. Lda % s = 0 /\ i \in Strided(c, Lda, s)
    BY <1>2, <2>1
  <2>5. i + e \in 0 .. (Lda - 1)
    BY <1>1, <2>3, <2>4, StridedInside, ZenonT(40)
  <2> QED
    BY <2>2, <2>5 DEF All
<1>3. ASSUME Lda % (2 * n) = 0 PROVE PlanInside(aq_matmul(c, n))
  <2>1. PICK C : C = UNION {{i, i + n} : i \in Strided(c, Lda, 2 * n)}
    OBVIOUS
  <2>2. C \subseteq All
    <3>1. ASSUME NEW i \in Strided(c, Lda, 2 * n) PROVE i \in All /\ i + n \in All
      <4>1. i + 0 * n \in All /\ i + 1 * n \in All
        <5>1. 0 \in 0 .. (2 - 1) /\ 1 \in 0 .. (2 - 1)
          OBVIOUS
        <5> QED
          BY <1>1, <1>2, <1>3, <5>1, Zenon
      <4>2. 0 * n = 0 /\ 1 * n = n /\ i \in Int
        BY DEF Strided
      <4>3. i + 0 = i
        BY <4>2
      <4> QED
        BY <4>1, <4>2, <4>3
    <3> QED
      BY <2>1, <3>1
  <2> QED
    BY <2>1, <2>2, OneInside DEF aq_matmul, Add, Block, InMatrix, Seg
<1>4. ASSUME Lda % (4 * n) = 0 PROVE PlanInside(bs_matmul(c, n))
  <2>1. PICK R : R = UNION {{j, j + n, j + 2 * n, j + 3 * n} : j \in Strided(c, Lda, 4 * n)}
    OBVIOUS
  <2>2. R \subseteq All
    <3>1. ASSUME NEW i \in Strided(c, Lda, 4 * n)
          PROVE  i \in All /\ i + n \in All /\ i + 2 * n \in All /\ i + 3 * n \in All
      <4>1. /\ i + 0 * n \in All /\ i + 1 * n \in All
            /\ i + 2 * n \in All /\ i + 3 * n \in All
        <5>1. /\ 0 \in 0 .. (4 - 1) /\ 1 \in 0 .. (4 - 1)
              /\ 2 \in 0 .. (4 - 1) /\ 3 \in 0 .. (4 - 1)
          OBVIOUS
        <5> QED
          BY <1>1, <1>2, <1>4, <5>1, Zenon
      <4>2. 0 * n = 0 /\ 1 * n = n /\ i \in Int
        BY DEF Strided
      <4>3. i + 0 = i
        BY <4>2
      <4> QED
        BY <4>1, <4>2, <4>3
    <3> QED
      BY <2>1, <3>1
  <2> QED
    BY <2>1, <2>2, OneInside DEF bs_matmul, Add, Block, InMatrix, Seg
<1>5. Lda % 8 = 0 => PlanInside(ak_matmul(c, n))
  <2>1. Lda % 8 = 0 => Unrolled(0, Lda, 8) \subseteq All
    BY <1>1, EvenRanges
  <2> QED
    BY <2>1, OneInside DEF ak_matmul, Add, Block, InMatrix, Seg
<1>6. ASSUME NEW w \in {4, 16}, NEW a \in Nat, NEW i \in Strided(w * a, Lda, w * n)
      PROVE  i \in Nat /\ i < Lda /\ i % 4 = 0
  <2>1. PICK s \in Nat \ {0} : s = w * n
    OBVIOUS
  <2>2. PICK lo \in Nat : lo = w * a
    OBVIOUS
  <2>3. i \in Strided(lo, Lda, s) /\ Lda \in Int
    BY <1>1, <2>1, <2>2
  <2>4. i \in Nat /\ i < Lda /\ \E k \in Nat : i = lo + s * k
    BY <2>3, StridedForm, ZenonT(40)
  <2>5. PICK k \in Nat : i = lo + s * k
    BY <2>4
  <2>6. s * k = w * (n * k) /\ n * k \in Nat
    BY <2>1
  <2>7. PICK p \in Nat : p = a + n * k
    BY <2>6
  <2>8. i = w * p
    BY <2>2, <2>5, <2>6, <2>7
  <2>9. i % 4 = 0
    BY <2>8
  <2> QED
    BY <2>4, <2>9
<1>7. ASSUME Lda % 4 = 0 PROVE PlanInside(ds_matmul(c, n))
  <2>1. PICK R : R = UNION {j .. (j + 3) : j \in Strided(4 * c, Lda, 4 * n)}
    OBVIOUS
  <2>2. R \subseteq All
    <3>1. ASSUME NEW i \in Strided(4 * c, Lda, 4 * n) PROVE i .. (i + 3) \subseteq All
      <4>1. i \in Nat /\ i < Lda /\ i % 4 = 0
        BY <1>1, <1>6
      <4> QED
        BY <1>1, <1>7, <4>1 DEF All
    <3> QED
      BY <2>1, <3>1
  <2> QED
    BY <2>1, <2>2, OneInside DEF ds_matmul, Add, Block, InMatrix, Seg
<1>8. ASSUME NEW i \in Nat, i < Lda, i % 4 = 0, Lda % 4 = 0, NEW s \in {2, 4}
      PROVE  Unrolled(i, IF i + 16 < Lda THEN i + 16 ELSE Lda, s) \subseteq All
  <2>1. PICK hi \in Nat : hi = IF i + 16 < Lda THEN i + 16 ELSE Lda
    BY <1>1
  <2>2. i <= hi /\ hi <= Lda /\ (hi - i) % s = 0
    BY <1>1, <1>8, <2>1
  <2>3. s \in Nat \ {0}
    OBVIOUS
  <2>4. Unrolled(i, hi, s) = i .. (hi - 1)
    BY <2>2, <2>3, EvenTurns
  <2>5. i .. (hi - 1) \subseteq All
    BY <1>1, <2>2 DEF All
  <2> QED
    BY <2>1, <2>4, <2>5
<1>9. ASSUME Lda % 4 = 0 PROVE PlanInside(ck_matmul(c, n))
  <2>1. PICK R : R = UNION {Unrolled(jj, IF jj + 16 < Lda THEN jj + 16 ELSE Lda, 4) :
                              jj \in Strided(16 * c, Lda, 16 * n)}
    OBVIOUS
  <2>2. PICK C : C = UNION {Unrolled(ii, IF ii + 16 < Lda THEN ii + 16 ELSE Lda, 2) :
                              ii \in Strided(0, Lda, 16)}
    OBVIOUS
  <2>3. ck_matmul(c, n) = <<Seg({Add(R, C, Unrolled(0, Lda, 8))})>>
    BY <2>1, <2>2 DEF ck_matmul
  <2>4. R \subseteq All
    <3>1. ASSUME NEW i \in Strided(16 * c, Lda, 16 * n)
          PROVE  Unrolled(i, IF i + 16 < Lda THEN i + 16 ELSE Lda, 4) \subseteq All
      <4>1. i \in Nat /\ i < Lda /\ i % 4 = 0
        BY <1>1, <1>6
      <4> QED
        BY <1>8, <1>9, <4>1
    <3> QED
      BY <2>1, <3>1
  <2>5. C \subseteq All
    <3>1. ASSUME NEW i \in Strided(0, Lda, 16)
          PROVE  Unrolled(i, IF i + 16 < Lda THEN i + 16 ELSE Lda, 2) \subseteq All
      <4>1. i \in Nat /\ i < Lda /\ i % 4 = 0
        BY <1>1 DEF Strided
      <4> QED
        BY <1>8, <1>9, <4>1
    <3> QED
      BY <2>2, <3>1
  <2> QED
    BY <2>3, <2>4, <2>5, OneInside DEF Add, Block, InMatrix, Seg
<1>10. ASSUME Lda % (2 * n) = 0 PROVE PlanInside(cs_matmul(c, n))
  <2> DEFINE m == (Lda - c + 2 * n - 1) \div (2 * n)
             J(s) == c + 2 * n * ((s - 1) \div Lda)
             f == [s \in 1 .. (m * Lda) |-> Seg({Set({J(s), J(s) + n}, {(s - 1) % Lda}, All)})]
  <2>1. m \in Nat /\ m * Lda \in Nat
    BY <1>1, Products
  <2>2. ASSUME NEW q \in 0 .. (m - 1) PROVE c + 2 * n * q \in All /\ c + 2 * n * q + n \in All
    <3>1. PICK t \in Nat \ {0} : t = 2 * n
      OBVIOUS
    <3>2. PICK a \in Nat : a = Lda - c + t - 1
      BY <1>1, <3>1
    <3>3. m = a \div t
      BY <3>1, <3>2
    <3> HIDE DEF m
    <3>4. t * m <= a
      <4>1. a = t * (a \div t) + (a % t) /\ a % t \in Nat /\ a \div t \in Nat
        OBVIOUS
      <4>2. t * (a \div t) \in Nat
        BY <4>1
      <4> QED
        BY <3>3, <4>1, <4>2
    <3>5. PICK z \in Nat : m = q + 1 + z
      <4>1. m - (q + 1) \in Nat /\ m = q + 1 + (m - (q + 1))
        BY <2>1
      <4> QED
        BY <4>1
    <3>6. t * m = t * q + t + t * z /\ t * z \in Nat /\ t * q \in Nat
      BY <3>5
    <3>7. c + t * q < Lda
      BY <1>1, <3>2, <3>4, <3>6
    <3>8. Lda % t = 0 /\ c + n < t /\ c + 0 < t
      BY <1>1, <1>10, <3>1
    <3>9. c + t * q + n < Lda
      <4>1. q \in Nat /\ n \in Nat
        BY <2>1
      <4> QED
        BY <1>1, <3>7, <3>8, <4>1, TurnInside, ZenonT(40)
    <3> QED
      BY <1>1, <3>1, <3>6, <3>7, <3>9 DEF All
  <2>3. ASSUME NEW s \in 1 .. (m * Lda) PROVE Inside(f[s], Lda, Lda)
    <3>1. (s - 1) \div Lda \in 0 .. (m - 1) /\ Lda # 0
      <4>1. s - 1 \in Nat /\ s - 1 < m * Lda
        BY <2>1
      <4> HIDE DEF m
      <4> QED
        BY <1>1, <2>1, <4>1, QuotientBelow
    <3>2. J(s) \in All /\ J(s) + n \in All
      BY <2>2, <3>1
    <3>3. (s - 1) % Lda \in All
      BY <1>1, <3>1 DEF All
    <3>4. f[s] = Seg({Set({J(s), J(s) + n}, {(s - 1) % Lda}, All)})
      OBVIOUS
    <3> HIDE DEF f, J
    <3> QED
      BY <3>2, <3>3, <3>4, BlocksInside DEF Seg, Set, Block, InMatrix
  <2>4. PlanInside(f)
    <3>1. PICK k \in Nat : k = m * Lda
      BY <2>1
    <3>2. f = [s \in 1 .. k |-> f[s]]
      BY <3>1
    <3> HIDE DEF f
    <3> QED
      BY <2>3, <3>1, <3>2, LoopInside
  <2>5. cs_matmul(c, n) = f \o <<Idle>>
    BY DEF cs_matmul
  <2> HIDE DEF f
  <2> QED
    BY <2>4, <2>5, IdleInside, ConcatInside
<1> QED
  BY <1>3, <1>4, <1>5, <1>7, <1>9, <1>10

\* ag goes through two columns by four products per barrier.
LEMMA ColumnLoopInside ==
  ASSUME NEW n \in Nat \ {0}, NEW c \in 0 .. (n - 1), Blk(n) % 4 = 0
  PROVE  PlanInside(ag_matmul(c, n))
<1> DEFINE w == Lda \div 4
           m == (Lda \div 2) * w
           I(s) == 2 * ((s - 1) \div w)
           K(s) == 4 * ((s - 1) % w)
           R == Unrolled(c * Blk(n), (c + 1) * Blk(n), 4)
           f == [s \in 1 .. m |-> Seg({Add(R, {I(s), I(s) + 1}, K(s) .. (K(s) + 3))})]
<1>1. Lda \in Nat /\ m \in Nat /\ w \in Nat /\ Lda \div 2 \in Nat
  <2>1. Lda \in Nat /\ m \in Nat
    BY Products
  <2> HIDE DEF m
  <2> QED
    BY <2>1
<1>2. R \subseteq All
  <2>1. 4 \in Nat \ {0} /\ c \in Nat
    OBVIOUS
  <2>2. R = Own(c, n)
    BY <2>1, EvenRanges
  <2> QED
    BY <2>2, OwnInside
<1>3. ASSUME NEW s \in 1 .. m PROVE Inside(f[s], Lda, Lda)
  <2>1. (s - 1) \div w \in 0 .. (Lda \div 2 - 1)
    <3>1. s - 1 \in Nat /\ s - 1 < (Lda \div 2) * w
      BY <1>1
    <3> HIDE DEF w
    <3> QED
      BY <1>1, <3>1, QuotientBelow
  <2>2. I(s) \in All /\ I(s) + 1 \in All
    <3> HIDE DEF w
    <3> QED
      BY <1>1, <2>1 DEF All
  <2>3. f[s] = Seg({Add(R, {I(s), I(s) + 1}, K(s) .. (K(s) + 3))})
    OBVIOUS
  <2> HIDE DEF f, I, K, R
  <2> QED
    BY <1>2, <2>2, <2>3, BlocksInside DEF Seg, Add, Block, InMatrix
<1>4. PlanInside(f)
  <2>1. PICK k \in Nat : k = m
    BY <1>1
  <2>2. f = [s \in 1 .. k |-> f[s]]
    BY <2>1
  <2> HIDE DEF f
  <2> QED
    BY <1>3, <2>1, <2>2, LoopInside
<1>5. ag_matmul(c, n) = f \o <<Idle>>
  BY DEF ag_matmul
<1> HIDE DEF f
<1> QED
  BY <1>4, <1>5, IdleInside, ConcatInside

\* The kernels that transpose B into the shared BB.
LEMMA TransposingInside ==
  ASSUME NEW n \in Nat \ {0}, NEW c \in 0 .. (n - 1)
  PROVE  /\ PlanInside(ae_matmul(c, n))
         /\ Lda = 32 /\ Blk(n) % 8 = 0 => PlanInside(ce_matmul(c, n))
<1>1. Lda \in Nat /\ Blk(n) \in Nat /\ c \in Nat /\ Lda \div 4 \in Nat
      /\ (Lda \div 4) * Blk(n) \in Nat
  <2>1. Lda \in Nat /\ Blk(n) \in Nat /\ (Lda \div 4) * Blk(n) \in Nat
    BY Products
  <2>2. c \in Nat /\ Lda \div 4 \in Nat
    BY <2>1
  <2> QED
    BY <2>1, <2>2
<1>2. PlanInside(TransposeB(c, n))
  <2> DEFINE f == [k \in 1 .. Lda |-> Segment({}, {Area(Own(c, n), {k - 1})}, {})]
  <2>1. ASSUME NEW s \in 1 .. Lda PROVE Inside(f[s], Lda, Lda)
    BY BlocksInside
  <2>2. f = [k \in 1 .. Lda |-> f[k]]
    OBVIOUS
  <2>3. TransposeB(c, n) = f
    BY DEF TransposeB
  <2> HIDE DEF f
  <2> QED
    BY <1>1, <2>1, <2>2, <2>3, LoopInside
<1>3. PlanInside(ae_matmul(c, n))
  <2> DEFINE b == Blk(n)
             m == (Lda \div 4) * b
             I(s) == 4 * ((s - 1) \div b)
             r(s) == c * b + ((s - 1) % b)
             U == Unrolled(0, Lda, 8)
             f == [s \in 1 .. m |-> Segment({Set({r(s)}, I(s) .. (I(s) + 3), U)},
                                            {}, {Area(I(s) .. (I(s) + 3), U)})]
  <2>1. ASSUME NEW s \in 1 .. m PROVE Inside(f[s], Lda, Lda)
    <3>1. b # 0 /\ (s - 1) \div b \in 0 .. (Lda \div 4 - 1)
      <4>1. s - 1 \in Nat /\ s - 1 < (Lda \div 4) * b
        BY <1>1
      <4> HIDE DEF b
      <4> QED
        BY <1>1, <4>1, QuotientBelow DEF b
    <3>2. r(s) \in All
      <4>1. (s - 1) % b \in 0 .. (b - 1)
        BY <1>1, <3>1
      <4>2. (c + 1) * b = c * b + b /\ c * b \in Nat
        BY <1>1
      <4>3. r(s) \in (c * b) .. ((c + 1) * b - 1)
        BY <1>1, <4>1, <4>2
      <4> QED
        BY <4>3, OwnInside DEF Own
    <3>3. I(s) .. (I(s) + 3) \subseteq All
      <4> HIDE DEF b
      <4> QED
        BY <1>1, <3>1 DEF All
    <3>4. f[s] = Segment({Set({r(s)}, I(s) .. (I(s) + 3), U)}, {}, {Area(I(s) .. (I(s) + 3), U)})
      OBVIOUS
    <3>5. \A x \in All, C \in SUBSET All :
            \A t, rd : Inside(Segment({Set({x}, C, t)}, {}, rd), Lda, Lda)
      BY BlocksInside DEF Set, Block, InMatrix
    <3> HIDE DEF f, I, r, U
    <3> QED
      BY <3>2, <3>3, <3>4, <3>5
  <2>2. PlanInside(f)
    <3>1. PICK k \in Nat : k = m
      BY <1>1
    <3>2. f = [s \in 1 .. k |-> f[s]]
      BY <3>1
    <3> HIDE DEF f
    <3> QED
      BY <2>1, <3>1, <3>2, LoopInside
  <2>3. ae_matmul(c, n) = TransposeB(c, n) \o f \o <<Idle>>
    BY DEF ae_matmul
  <2> HIDE DEF f
  <2>4. PlanInside(TransposeB(c, n) \o f)
    BY <1>2, <2>2, ConcatInside
  <2> QED
    BY <2>3, <2>4, IdleInside, ConcatInside
<1>4. ASSUME Lda = 32, Blk(n) % 8 = 0 PROVE PlanInside(ce_matmul(c, n))
  <2> DEFINE U(x) == Unrolled(x * (32 \div n), (x + 1) * (32 \div n), 8)
             stores == {Add(Own(c, n), U(x), Unrolled(0, Lda, 8)) : x \in 0 .. (n - 1)}
             reads == {Area(0 .. 31, Unrolled(0, Lda, 8))}
  <2>1. \A x \in 0 .. (n - 1) : U(x) \subseteq All
    <3> TAKE x \in 0 .. (n - 1)
    <3>1. x \in Nat /\ 8 \in Nat \ {0}
      OBVIOUS
    <3>2. Unrolled(x * Blk(n), (x + 1) * Blk(n), 8) = Own(x, n)
      BY <1>4, <3>1, EvenRanges
    <3>3. U(x) = Own(x, n)
      BY <1>4, <3>2 DEF Blk
    <3> QED
      BY <3>3, OwnInside
  <2>2. \A b \in stores : InMatrix(b)
    <3>1. Own(c, n) \subseteq All
      BY OwnInside
    <3> HIDE DEF U
    <3> QED
      BY <2>1, <3>1 DEF Add, Block, InMatrix
  <2>3. ce_matmul(c, n) = TransposeB(c, n) \o <<Segment(stores, {}, reads)>>
    BY DEF ce_matmul
  <2> HIDE DEF stores, reads
  <2>4. PlanInside(<<Segment(stores, {}, reads)>>)
    BY <2>2, OneInside
  <2> QED
    BY <1>2, <2>3, <2>4, ConcatInside
<1> QED
  BY <1>3, <1>4

\* The loops of br and dr stay inside: their rows come in blocks of 32, their
\* columns are the core's own.
LEMMA TransposedBlocksInside ==
  ASSUME NEW n \in Nat \ {0}, NEW c \in 0 .. (n - 1), NEW width \in {4, 8},
         Lda % 32 = 0, Blk(n) % 16 = 0
  PROVE  PlanInside(TransposedBlocks(c, n, width))
<1> DEFINE m == TransposedTurns(n, width)
           f == [s \in 1 .. ((Lda + 1) \div 2) |-> Idle]
<1>1. PICK g : /\ TransposedBlocks(c, n, width) = f \o g \o <<Idle>> /\ m \in Nat
               /\ g = [s \in 1 .. m |-> g[s]] /\ \A s \in 1 .. m : OwnColumns(g[s], c, n)
  BY TransposedStores
<1>2. \A R \in SUBSET All, C \in SUBSET All : \A z : Inside(Seg({Add(R, C, z)}), Lda, Lda)
  BY BlocksInside DEF Seg, Add, Block, InMatrix
<1>3. ASSUME NEW s \in 1 .. m PROVE Inside(g[s], Lda, Lda)
  <2>1. PICK R, C : /\ g[s] = Seg({Add(R, C, Unrolled(0, Lda, 32))})
                    /\ C \subseteq Own(c, n) /\ R \subseteq All
    BY <1>1 DEF OwnColumns
  <2>2. C \subseteq All
    BY <2>1, OwnInside
  <2> QED
    BY <1>2, <2>1, <2>2
<1>4. PlanInside(f)
  <2>1. Inside(Idle, Lda, Lda)
    BY BlocksInside DEF Idle, Seg
  <2>2. PICK k \in Nat : k = (Lda + 1) \div 2
    BY Products
  <2>3. f = [s \in 1 .. k |-> f[s]] /\ \A s \in 1 .. k : f[s] = Idle
    BY <2>2
  <2> HIDE DEF f
  <2> QED
    BY <2>1, <2>3, LoopInside
<1> HIDE DEF f, m
<1>5. PlanInside(g)
  BY <1>1, <1>3, LoopInside
<1>6. PlanInside(f \o g)
  BY <1>4, <1>5, ConcatInside
<1> QED
  BY <1>1, <1>6, IdleInside, ConcatInside

\* The core's elements are elements of the vectors.
LEMMA VectorsInside ==
  ASSUME NEW n \in Nat \ {0}, NEW c \in 0 .. (n - 1)
  PROVE  /\ vvadd3(c, n) \subseteq 0 .. (DataSize - 1)
         /\ vvadd4(c, n) \subseteq 0 .. (DataSize - 1)
         /\ vvadd(c, n) \subseteq 0 .. (DataSize - 1)
<1>1. DataSize \in Nat
  BY DataSizeAssumption
<1>2. vvadd4(c, n) \subseteq 0 .. (DataSize - 1) /\ vvadd(c, n) \subseteq 0 .. (DataSize - 1)
  BY <1>1 DEF vvadd, vvadd4, Strided
<1>3. vvadd3(c, n) \subseteq 0 .. (DataSize - 1)
  <2>1. PICK b \in Nat : b = Chunk(n)
    BY <1>1 DEF Chunk
  <2>2. n * b <= DataSize
    <3>1. DataSize = n * (DataSize \div n) + (DataSize % n) /\ DataSize % n \in Nat /\ n * b \in Nat
      BY <1>1
    <3> QED
      BY <1>1, <2>1, <3>1 DEF Chunk
  <2>3. PICK e \in Nat : n = c + 1 + e
    OBVIOUS
  <2>4. n * b = (c + 1) * b + e * b /\ e * b \in Nat /\ c * b \in Nat
    BY <2>3
  <2>5. vvadd3(c, n) = (c * b) .. ((c + 1) * b - 1)
    BY <2>1, VvaddThree
  <2>6. (c + 1) * b \in Nat
    OBVIOUS
  <2> QED
    BY <1>1, <2>2, <2>4, <2>5, <2>6
<1> QED
  BY <1>2, <1>3

\* vvadd0 takes what is left over; vvadd1 and vvadd2 take more than one element per turn.
LEMMA LeftoversInside ==
  ASSUME NEW n \in Nat \ {0}, NEW c \in 0 .. (n - 1)
  PROVE  /\ DataSize >= n => vvadd0(c, n) \subseteq 0 .. (DataSize - 1)
         /\ DataSize % (8 * n) = 0 => vvadd1(c, n) \subseteq 0 .. (DataSize - 1)
         /\ DataSize % (2 * n) = 0 => vvadd2(c, n) \subseteq 0 .. (DataSize - 1)
<1>1. DataSize \in Nat /\ c \in Nat
  BY DataSizeAssumption
<1>2. ASSUME DataSize >= n PROVE vvadd0(c, n) \subseteq 0 .. (DataSize - 1)
  <2>1. PICK b \in Nat : b = Chunk(n) /\ n * b <= DataSize /\ DataSize < n * b + n
    <3>1. DataSize = n * (DataSize \div n) + (DataSize % n) /\ DataSize % n \in 0 .. (n - 1)
          /\ DataSize \div n \in Nat
      BY <1>1
    <3>2. PICK b \in Nat : b = DataSize \div n
      BY <3>1
    <3>3. n * b \in Nat /\ DataSize = n * b + (DataSize % n)
      BY <3>1, <3>2
    <3>4. n * b <= DataSize /\ DataSize < n * b + n
      <4>1. PICK r \in 0 .. (n - 1), p \in Nat : r = DataSize % n /\ p = n * b
        BY <3>1, <3>3
      <4>2. DataSize = p + r
        BY <3>3, <4>1, Zenon
      <4>3. p <= DataSize /\ DataSize < p + n
        BY <4>2
      <4> QED
        BY <4>1, <4>3, Zenon
    <3>5. b = Chunk(n)
      BY <3>2 DEF Chunk
    <3> QED
      BY <3>4, <3>5, Zenon
  <2>2. b # 0
    <3>1. n * 0 = 0
      OBVIOUS
    <3> QED
      BY <1>1, <1>2, <2>1, <3>1
  <2>3. PICK e \in Nat : n = c + 1 + e
    <3>1. n - (c + 1) \in Nat /\ n = c + 1 + (n - (c + 1))
      OBVIOUS
    <3> QED
      BY <3>1
  <2>4. n * b = (c + 1) * b + e * b /\ e * b \in Nat /\ c * b \in Nat /\ (c + 1) * b \in Nat
    BY <2>3
  <2>5. (c * b) .. ((c + 1) * b - 1) \subseteq 0 .. (DataSize - 1)
    BY <1>1, <2>1, <2>4
  <2>6. Strided(DataSize - (DataSize % b) + c, DataSize, n) \subseteq 0 .. (DataSize - 1)
    <3>1. DataSize % b \in 0 .. (b - 1)
      BY <1>1, <2>2
    <3>2. b <= DataSize
      <4>1. PICK z \in Nat : n = 1 + z
        <5>1. n - 1 \in Nat /\ n = 1 + (n - 1)
          OBVIOUS
        <5> QED
          BY <5>1
      <4>2. n * b = b + z * b /\ z * b \in Nat
        BY <4>1
      <4> QED
        BY <1>1, <2>1, <4>2
    <3>3. PICK lo \in Nat : lo = DataSize - (DataSize % b) + c
      BY <1>1, <3>1, <3>2
    <3>4. Strided(lo, DataSize, n) \subseteq 0 .. (DataSize - 1)
      BY <1>1 DEF Strided
    <3> QED
      BY <3>3, <3>4
  <2>7. vvadd0(c, n) = ((c * b) .. ((c + 1) * b - 1))
                       \cup Strided(DataSize - (DataSize % b) + c, DataSize, n)
    BY <2>1, Zenon DEF vvadd0
  <2> QED
    BY <2>5, <2>6, <2>7, Zenon
<1>3. ASSUME NEW m \in {2, 8}, DataSize % (m * n) = 0, NEW a \in Nat,
             NEW i \in Strided(a, DataSize, m * n), NEW e \in Nat, a + e < m * n
      PROVE  i \in Nat /\ i + e \in 0 .. (DataSize - 1)
  <2>1. PICK s \in Nat \ {0} : s = m * n
    OBVIOUS
  <2>2. DataSize % s = 0 /\ i \in Strided(a, DataSize, s) /\ a + e < s
    BY <1>3, <2>1, Zenon
  <2> QED
    BY <1>1, <2>2, StridedInside, ZenonT(40)
<1>4. ASSUME DataSize % (8 * n) = 0 PROVE vvadd1(c, n) \subseteq 0 .. (DataSize - 1)
  <2>1. ASSUME NEW i \in Strided(c * 4, DataSize, 8 * n), NEW e \in 0 .. 3
        PROVE  i \in Nat /\ i + e \in 0 .. (DataSize - 1) /\ i + (n * 4 + e) \in 0 .. (DataSize - 1)
    <3>1. /\ c * 4 \in Nat /\ e \in Nat /\ n * 4 + e \in Nat /\ 8 \in {2, 8}
          /\ c * 4 + e < 8 * n /\ c * 4 + (n * 4 + e) < 8 * n
      OBVIOUS
    <3> QED
      BY <1>3, <1>4, <3>1, Zenon
  <2>2. ASSUME NEW i \in Strided(c * 4, DataSize, 8 * n),
               NEW x \in (i .. (i + 3)) \cup ((i + n * 4) .. (i + n * 4 + 3))
        PROVE  x \in 0 .. (DataSize - 1)
    <3>1. i \in Nat
      <4>1. 0 \in 0 .. 3
        OBVIOUS
      <4> QED
        BY <2>1, <4>1, Zenon
    <3>2. CASE x \in i .. (i + 3)
      <4>1. x - i \in 0 .. 3 /\ x = i + (x - i)
        BY <3>1, <3>2
      <4> QED
        BY <2>1, <4>1
    <3>3. CASE x \in (i + n * 4) .. (i + n * 4 + 3)
      <4>1. PICK e \in 0 .. 3 : x = i + (n * 4 + e)
        <5>1. x - (i + n * 4) \in 0 .. 3 /\ x = i + (n * 4 + (x - (i + n * 4)))
          BY <3>1, <3>3
        <5> QED
          BY <5>1
      <4> QED
        BY <2>1, <4>1
    <3> QED
      BY <3>2, <3>3
  <2> QED
    BY <2>2 DEF vvadd1
<1>5. ASSUME DataSize % (2 * n) = 0 PROVE vvadd2(c, n) \subseteq 0 .. (DataSize - 1)
  <2>1. ASSUME NEW i \in Strided(c, DataSize, 2 * n)
        PROVE  i \in 0 .. (DataSize - 1) /\ i + n \in 0 .. (DataSize - 1)
    <3>1. /\ 0 \in Nat /\ n \in Nat /\ 2 \in {2, 8} /\ c + 0 < 2 * n /\ c + n < 2 * n
      OBVIOUS
    <3>2. i \in Nat /\ i + 0 \in 0 .. (DataSize - 1) /\ i + n \in 0 .. (DataSize - 1)
      BY <1>1, <1>3, <1>5, <3>1, Zenon
    <3> QED
      BY <3>2
  <2> QED
    BY <2>1 DEF vvadd2
<1> QED
  BY <1>2, <1>4, <1>5

\* Both additions and the copy.
LEMMA VvaddInside ==
  ASSUME NEW c, NEW z, z \subseteq 0 .. (DataSize - 1)
  PROVE  \A i \in 1 .. Len(VvaddProgram(c, z)) : Inside(VvaddProgram(c, z)[i].segment, 1, DataSize)
<1> DEFINE E(op, is, terms) == Block(op, DataSize, {0}, is, terms)
           copy == Seg({E("set", 0 .. (DataSize - 1), {0})})
           first == Seg({E("set", z, {0, 1})})
           second == Seg({E("add", z, {1})})
           third == IF c = 0 THEN Item(TRUE, copy) ELSE Item(FALSE, Idle)
           P == <<Item(FALSE, Idle), Item(FALSE, first), third,
                  Item(FALSE, second), Item(c = 0, Idle), Item(FALSE, Idle)>>
<1>1. VvaddProgram(c, z) = P
  BY DEF VvaddProgram
<1>2. DataSize \in Nat
  BY DataSizeAssumption
<1>3. ASSUME NEW op, NEW is, NEW terms, is \subseteq 0 .. (DataSize - 1)
      PROVE  Inside(Seg({E(op, is, terms)}), 1, DataSize)
  <2>1. {0} \subseteq 0 .. (1 - 1)
    OBVIOUS
  <2>2. Fits(E(op, is, terms), 1, DataSize)
    <3> DEFINE b == E(op, is, terms)
    <3>1. b.stride = DataSize /\ b.rows = {0} /\ b.cols = is
      BY DEF Block
    <3> HIDE DEF b
    <3>2. Fits(b, 1, DataSize)
      BY <1>3, <2>1, <3>1 DEF Fits
    <3> QED
      BY <3>2 DEF b
  <2> HIDE DEF E
  <2> QED
    BY <2>2 DEF Inside, Seg, Segment
<1>4. Inside(Idle, 1, DataSize)
  BY DEF Inside, Idle, Seg, Segment
<1>5. Inside(copy, 1, DataSize) /\ Inside(first, 1, DataSize) /\ Inside(second, 1, DataSize)
  BY <1>3
<1>6. \A b, x : Item(b, x).segment = x
  BY DEF Item
<1> HIDE DEF copy, first, second
<1>7. Inside(third.segment, 1, DataSize)
  BY <1>4, <1>5, <1>6
<1> HIDE DEF third
<1>8. /\ Len(P) = 6 /\ P[1] = Item(FALSE, Idle) /\ P[2] = Item(FALSE, first) /\ P[3] = third
      /\ P[4] = Item(FALSE, second) /\ P[5] = Item(c = 0, Idle) /\ P[6] = Item(FALSE, Idle)
  OBVIOUS
<1> HIDE DEF P
<1>9. /\ Inside(P[1].segment, 1, DataSize) /\ Inside(P[2].segment, 1, DataSize)
      /\ Inside(P[3].segment, 1, DataSize) /\ Inside(P[4].segment, 1, DataSize)
      /\ Inside(P[6].segment, 1, DataSize)
  <2>1. /\ P[1].segment = Idle /\ P[2].segment = first /\ P[4].segment = second
        /\ P[6].segment = Idle
    BY <1>8 DEF Item
  <2> QED
    BY <1>4, <1>5, <1>7, <1>8, <2>1
<1>10. Inside(P[5].segment, 1, DataSize)
  <2>1. Item(c = 0, Idle).segment = Idle
    BY DEF Item
  <2> QED
    BY <1>4, <1>8, <2>1
<1>11. \A i \in 1 .. 6 : i \in {1, 2, 3, 4, 5, 6}
  OBVIOUS
<1> QED
  BY <1>1, <1>8, <1>9, <1>10, <1>11

\* The kernels that stay inside results_data on n cores: those whose steps
\* divide what they go through.
InsideKernels(n) ==
  {"ae", "an", "ap", "ar", "bc", "dc", "matmul", "vvadd3", "vvadd4", "vvadd"}
  \cup (IF Lda = 32 THEN {"ad", "al", "av", "ay", "az", "bf", "bk", "bo", "cf", "cl", "cm", "cv",
                          "cy", "df", "do", "dv"} ELSE {})
  \cup (IF Lda % 4 = 0 THEN {"ai", "ci", "ck", "ds"} ELSE {})
  \cup (IF Lda % 8 = 0 THEN {"ak", "bh", "bj"} ELSE {})
  \cup (IF Lda % 32 = 0 /\ Blk(n) % 16 = 0 THEN {"br", "dr"} ELSE {})
  \cup (IF Lda % (2 * n) = 0 THEN {"aq", "cs"} ELSE {})
  \cup (IF Lda % (4 * n) = 0 THEN {"bs"} ELSE {})
  \cup (IF Blk(n) % 4 = 0 THEN {"ag", "cg", "dm"} ELSE {})
  \cup (IF Blk(n) % 4 = 0 /\ Lda % 4 = 0 THEN {"bb", "bm"} ELSE {})
  \cup (IF Lda % n = 0 /\ Blk(n) % 8 = 0 THEN {"at"} ELSE {})
  \cup (IF Lda = 32 /\ Lda % n = 0 /\ Blk(n) % 2 = 0 THEN {"af", "am", "du"} ELSE {})
  \cup (IF Lda = 32 /\ Blk(n) % 8 = 0 THEN {"ce"} ELSE {})
  \cup (IF DataSize >= n THEN {"vvadd0"} ELSE {})
  \cup (IF DataSize % (8 * n) = 0 THEN {"vvadd1"} ELSE {})
  \cup (IF DataSize % (2 * n) = 0 THEN {"vvadd2"} ELSE {})

\* What a core runs of these kernels stays inside the results.
LEMMA InsidePrograms ==
  ASSUME NEW n \in Nat \ {0}, NEW c \in 0 .. (n - 1), NEW k \in InsideKernels(n)
  PROVE  \A i \in 1 .. Len(Linked(c, n)[k]) :
           IF k \in {"vvadd0", "vvadd1", "vvadd2", "vvadd3", "vvadd4", "vvadd"}
           THEN Inside(Linked(c, n)[k][i].segment, 1, DataSize)
           ELSE Inside(Linked(c, n)[k][i].segment, Lda, Lda)
<1> DEFINE Good(program, height, width) ==
             \A i \in 1 .. Len(program) : Inside(program[i].segment, height, width)
           vectors == {"vvadd0", "vvadd1", "vvadd2", "vvadd3", "vvadd4", "vvadd"}
<1> SUFFICES IF k \in vectors THEN Good(Linked(c, n)[k], 1, DataSize)
                              ELSE Good(Linked(c, n)[k], Lda, Lda)
  OBVIOUS
<1>1. \A p : PlanInside(p) => Good(MatmulProgram(p), Lda, Lda)
  BY ProgramInside
<1>2. \A z : z \subseteq 0 .. (DataSize - 1) => Good(VvaddProgram(c, z), 1, DataSize)
  BY VvaddInside
<1> HIDE DEF Good
<1>3. CASE k \in {"an", "ap", "ar", "matmul", "bc", "dc", "ae"}
  <2>1. /\ Linked(c, n).an = MatmulProgram(an_matmul(c, n))
        /\ Linked(c, n).ap = MatmulProgram(ap_matmul(c, n))
        /\ Linked(c, n).ar = MatmulProgram(ar_matmul(c, n))
        /\ Linked(c, n).matmul = MatmulProgram(matmul(c, n))
        /\ Linked(c, n).bc = MatmulProgram(bc_matmul(c, n))
        /\ Linked(c, n).dc = MatmulProgram(dc_matmul(c, n))
        /\ Linked(c, n).ae = MatmulProgram(ae_matmul(c, n))
    BY SMTT(30) DEF Linked
  <2>2. /\ PlanInside(an_matmul(c, n)) /\ PlanInside(ap_matmul(c, n))
        /\ PlanInside(ar_matmul(c, n)) /\ PlanInside(matmul(c, n))
        /\ PlanInside(bc_matmul(c, n)) /\ PlanInside(dc_matmul(c, n))
        /\ PlanInside(ae_matmul(c, n))
    BY MatmulsInside, HalvesInside, TransposingInside DEF dc_matmul
  <2> QED
    BY <1>1, <1>3, <2>1, <2>2
<1>4. CASE Lda = 32 /\ k \in {"ad", "ay", "az", "cy", "do"}
  <2>1. /\ Linked(c, n).ad = MatmulProgram(ad_matmul(c, n))
        /\ Linked(c, n).ay = MatmulProgram(ay_matmul(c, n))
        /\ Linked(c, n).az = MatmulProgram(az_matmul(c, n))
        /\ Linked(c, n).cy = MatmulProgram(cy_matmul(c, n))
        /\ Linked(c, n).do = MatmulProgram(do_matmul(c, n))
    BY SMTT(30) DEF Linked
  <2>2. /\ PlanInside(ad_matmul(c, n)) /\ PlanInside(ay_matmul(c, n))
        /\ PlanInside(az_matmul(c, n)) /\ PlanInside(cy_matmul(c, n))
        /\ PlanInside(do_matmul(c, n))
    BY <1>4, HalvesInside DEF az_matmul
  <2> QED
    BY <1>1, <1>4, <2>1, <2>2
<1>5. CASE Lda = 32 /\ k \in {"al", "av", "bf", "bk", "bo"}
  <2>1. /\ Linked(c, n).al = MatmulProgram(al_matmul(c, n))
        /\ Linked(c, n).av = MatmulProgram(av_matmul(c, n))
        /\ Linked(c, n).bf = MatmulProgram(bf_matmul(c, n))
        /\ Linked(c, n).bk = MatmulProgram(bk_matmul(c, n))
        /\ Linked(c, n).bo = MatmulProgram(bo_matmul(c, n))
    BY SMTT(30) DEF Linked
  <2> QED
    BY <1>1, <1>5, <2>1, SplitsInside
<1>6. CASE Lda = 32 /\ k \in {"cf", "cl", "cm", "cv", "df", "dv"}
  <2>1. /\ Linked(c, n).cf = MatmulProgram(cf_matmul(c, n))
        /\ Linked(c, n).cl = MatmulProgram(cl_matmul(c, n))
        /\ Linked(c, n).cm = MatmulProgram(cm_matmul(c, n))
        /\ Linked(c, n).cv = MatmulProgram(cv_matmul(c, n))
        /\ Linked(c, n).df = MatmulProgram(df_matmul(c, n))
        /\ Linked(c, n).dv = MatmulProgram(dv_matmul(c, n))
    BY SMTT(30) DEF Linked
  <2>2. PlanInside(cv_matmul(c, n))
    BY <1>6, SplitsInside DEF cv_matmul
  <2> QED
    BY <1>1, <1>6, <2>1, <2>2, SplitsInside
<1>7. CASE \/ Lda % 4 = 0 /\ k \in {"ai", "ci", "ck", "ds"}
           \/ Lda % 8 = 0 /\ k \in {"ak", "bh", "bj"}
  <2>1. /\ Linked(c, n).ai = MatmulProgram(ai_matmul(c, n))
        /\ Linked(c, n).ci = MatmulProgram(ci_matmul(c, n))
        /\ Linked(c, n).ck = MatmulProgram(ck_matmul(c, n))
        /\ Linked(c, n).ds = MatmulProgram(ds_matmul(c, n))
        /\ Linked(c, n).ak = MatmulProgram(ak_matmul(c, n))
        /\ Linked(c, n).bh = MatmulProgram(bh_matmul(c, n))
        /\ Linked(c, n).bj = MatmulProgram(bj_matmul(c, n))
    BY SMTT(30) DEF Linked
  <2>2. /\ Lda % 4 = 0 => /\ PlanInside(ai_matmul(c, n)) /\ PlanInside(ci_matmul(c, n))
                          /\ PlanInside(ck_matmul(c, n)) /\ PlanInside(ds_matmul(c, n))
        /\ Lda % 8 = 0 => /\ PlanInside(ak_matmul(c, n)) /\ PlanInside(bh_matmul(c, n))
                          /\ PlanInside(bj_matmul(c, n))
    BY UnrolledRowsInside, DealtInside DEF ci_matmul, bj_matmul
  <2> QED
    BY <1>1, <1>7, <2>1, <2>2
<1>8. CASE \/ Lda % 32 = 0 /\ Blk(n) % 16 = 0 /\ k \in {"br", "dr"}
           \/ Lda % (2 * n) = 0 /\ k \in {"aq", "cs"}
           \/ Lda % (4 * n) = 0 /\ k = "bs"
  <2>1. /\ Linked(c, n).br = MatmulProgram(br_matmul(c, n))
        /\ Linked(c, n).dr = MatmulProgram(dr_matmul(c, n))
        /\ Linked(c, n).aq = MatmulProgram(aq_matmul(c, n))
        /\ Linked(c, n).cs = MatmulProgram(cs_matmul(c, n))
        /\ Linked(c, n).bs = MatmulProgram(bs_matmul(c, n))
    BY SMTT(30) DEF Linked
  <2>2. Lda % 32 = 0 /\ Blk(n) % 16 = 0 =>
          PlanInside(br_matmul(c, n)) /\ PlanInside(dr_matmul(c, n))
    BY TransposedBlocksInside DEF br_matmul, dr_matmul
  <2>3. /\ Lda % (2 * n) = 0 => PlanInside(aq_matmul(c, n)) /\ PlanInside(cs_matmul(c, n))
        /\ Lda % (4 * n) = 0 => PlanInside(bs_matmul(c, n))
    BY DealtInside
  <2> HIDE DEF vectors
  <2>4. CASE k \in {"br", "dr"} /\ Lda % 32 = 0 /\ Blk(n) % 16 = 0
    BY <1>1, <2>1, <2>2, <2>4 DEF vectors
  <2>5. CASE k \in {"aq", "cs"} /\ Lda % (2 * n) = 0
    BY <1>1, <2>1, <2>3, <2>5 DEF vectors
  <2>6. CASE k = "bs" /\ Lda % (4 * n) = 0
    BY <1>1, <2>1, <2>3, <2>6 DEF vectors
  <2> QED
    BY <1>8, <2>4, <2>5, <2>6
<1>9. CASE \/ Blk(n) % 4 = 0 /\ k \in {"ag", "cg", "dm"}
           \/ Blk(n) % 4 = 0 /\ Lda % 4 = 0 /\ k \in {"bb", "bm"}
           \/ Lda % n = 0 /\ Blk(n) % 8 = 0 /\ k = "at"
  <2>1. /\ Linked(c, n).ag = MatmulProgram(ag_matmul(c, n))
        /\ Linked(c, n).cg = MatmulProgram(cg_matmul(c, n))
        /\ Linked(c, n).dm = MatmulProgram(dm_matmul(c, n))
        /\ Linked(c, n).bb = MatmulProgram(bb_matmul(c, n))
        /\ Linked(c, n).bm = MatmulProgram(bm_matmul(c, n))
        /\ Linked(c, n).at = MatmulProgram(at_matmul(c, n))
    BY SMTT(30) DEF Linked
  <2>2. Blk(n) % 4 = 0 => /\ PlanInside(ag_matmul(c, n)) /\ PlanInside(cg_matmul(c, n))
                          /\ PlanInside(dm_matmul(c, n))
    BY ColumnLoopInside, LastRowsInside DEF cg_matmul
  <2>3. Blk(n) % 4 = 0 /\ Lda % 4 = 0 => PlanInside(bb_matmul(c, n)) /\ PlanInside(bm_matmul(c, n))
    <3>1. Lda \in Nat
      BY Products
    <3>2. Lda % 4 = 0 => Lda % 2 = 0
      BY <3>1
    <3> QED
      BY <3>2, UnrolledRowsInside, LastRowsInside
  <2>4. Lda % n = 0 /\ Blk(n) % 8 = 0 => PlanInside(at_matmul(c, n))
    BY UnrolledRowsInside
  <2> QED
    BY <1>1, <1>9, <2>1, <2>2, <2>3, <2>4
<1>10. CASE \/ Lda = 32 /\ Lda % n = 0 /\ Blk(n) % 2 = 0 /\ k \in {"af", "am", "du"}
            \/ Lda = 32 /\ Blk(n) % 8 = 0 /\ k = "ce"
  <2>1. /\ Linked(c, n).af = MatmulProgram(af_matmul(c, n))
        /\ Linked(c, n).am = MatmulProgram(am_matmul(c, n))
        /\ Linked(c, n).du = MatmulProgram(du_matmul(c, n))
        /\ Linked(c, n).ce = MatmulProgram(ce_matmul(c, n))
    BY SMTT(30) DEF Linked
  <2>2. Lda = 32 /\ Lda % n = 0 /\ Blk(n) % 2 = 0 =>
          /\ PlanInside(af_matmul(c, n)) /\ PlanInside(am_matmul(c, n))
          /\ PlanInside(du_matmul(c, n))
    BY UnrolledRowsInside DEF du_matmul
  <2>3. Lda = 32 /\ Blk(n) % 8 = 0 => PlanInside(ce_matmul(c, n))
    BY TransposingInside
  <2> QED
    BY <1>1, <1>10, <2>1, <2>2, <2>3
<1>11. CASE \/ k \in {"vvadd3", "vvadd4", "vvadd"}
            \/ DataSize >= n /\ k = "vvadd0"
            \/ DataSize % (8 * n) = 0 /\ k = "vvadd1"
            \/ DataSize % (2 * n) = 0 /\ k = "vvadd2"
  <2>1. /\ Linked(c, n).vvadd0 = VvaddProgram(c, vvadd0(c, n))
        /\ Linked(c, n).vvadd1 = VvaddProgram(c, vvadd1(c, n))
        /\ Linked(c, n).vvadd2 = VvaddProgram(c, vvadd2(c, n))
        /\ Linked(c, n).vvadd3 = VvaddProgram(c, vvadd3(c, n))
        /\ Linked(c, n).vvadd4 = VvaddProgram(c, vvadd4(c, n))
        /\ Linked(c, n).vvadd = VvaddProgram(c, vvadd(c, n))
    BY SMTT(30) DEF Linked
  <2>2. k \in vectors
    BY <1>11
  <2>3. Good(Linked(c, n)[k], 1, DataSize)
    BY <1>2, <1>11, <2>1, VectorsInside, LeftoversInside
  <2> QED
    BY <2>2, <2>3
<1> HIDE DEF vectors
<1> QED
  BY <1>3, <1>4, <1>5, <1>6, <1>7, <1>8, <1>9, <1>10, <1>11 DEF InsideKernels

\* No core stores outside its row of results_data in a test that links one of these
\* kernels, at the sizes they are listed for and any number of cores.
THEOREM StoresInside == Spec => [](kernel \in InsideKernels(ncores) => InBounds)
<1>1. MtInv => (kernel \in InsideKernels(ncores) => InBounds)
  <2> SUFFICES ASSUME MtInv, kernel \in InsideKernels(ncores), NEW c \in Cores
               PROVE  IF kernel \in VectorKernels THEN Inside(Here(c).segment, 1, DataSize)
                                                  ELSE Inside(Here(c).segment, Lda, Lda)
    BY DEF InBounds, Inside
  <2>1. item[c] \in 1 .. Len(Program(c))
    BY ProgramLength DEF MtInv, BInv, BarrierTypeOK, ProgramInv
  <2>2. Program(c) = Linked(c, ncores)[kernel]
    BY ProgramIsLinked DEF MtInv
  <2>3. ncores \in Nat \ {0} /\ c \in 0 .. (ncores - 1)
    BY DEF MtInv, BInv, BarrierTypeOK, Cores
  <2>4. kernel \in VectorKernels <=>
          kernel \in {"vvadd0", "vvadd1", "vvadd2", "vvadd3", "vvadd4", "vvadd"}
    BY DEF VectorKernels, MtInv
  <2>5. IF kernel \in {"vvadd0", "vvadd1", "vvadd2", "vvadd3", "vvadd4", "vvadd"}
        THEN Inside(Program(c)[item[c]].segment, 1, DataSize)
        ELSE Inside(Program(c)[item[c]].segment, Lda, Lda)
    BY <2>1, <2>2, <2>3, InsidePrograms
  <2> QED
    BY <2>4, <2>5 DEF Here
<1> QED
  BY <1>1, MtInvariant, PTL

-----------------------------------------------------------------------------
(* Scratch arrays are filled                                               *)

\* A program that reads nothing of the shared scratch arrays.
ReadsNothing(program) == \A i \in 1 .. Len(program) : program[i].segment.reads = {}

\* The check reads the results only.
LEMMA ProgramsReadNothing ==
  /\ \A p : NoReads(p) => ReadsNothing(MatmulProgram(p))
  /\ \A c, z : ReadsNothing(VvaddProgram(c, z))
<1>1. ASSUME NEW p, NoReads(p) PROVE ReadsNothing(MatmulProgram(p))
  <2>1. IsPlan(p) /\ Len(p) \in Nat /\ \A i \in 1 .. Len(p) : p[i].reads = {}
    BY <1>1, PlanLength DEF NoReads
  <2>2. /\ Len(MatmulProgram(p)) = Len(p) + 1
        /\ \A i \in 1 .. Len(p) : MatmulProgram(p)[i] = Item(FALSE, p[i])
        /\ MatmulProgram(p)[Len(p) + 1] = Item(TRUE, Idle)
    BY <2>1, MatmulItems
  <2>3. \A b, x : Item(b, x).segment = x
    BY DEF Item
  <2>4. Idle.reads = {}
    BY DEF Idle, Seg, Segment
  <2>5. ASSUME NEW i \in 1 .. Len(MatmulProgram(p)) PROVE MatmulProgram(p)[i].segment.reads = {}
    <3>1. CASE i \in 1 .. Len(p)
      <4>1. MatmulProgram(p)[i].segment = p[i]
        BY <2>2, <2>3, <3>1
      <4> QED
        BY <2>1, <3>1, <4>1
    <3>2. CASE i = Len(p) + 1
      <4>1. MatmulProgram(p)[i].segment = Idle
        BY <2>2, <3>2 DEF Item
      <4> QED
        BY <2>4, <4>1
    <3> QED
      BY <2>1, <2>2, <3>1, <3>2
  <2> QED
    BY <2>5 DEF ReadsNothing
<1>2. ASSUME NEW c, NEW z PROVE ReadsNothing(VvaddProgram(c, z))
  <2> DEFINE first == Seg({Block("set", DataSize, {0}, z, {0, 1})})
             second == Seg({Block("add", DataSize, {0}, z, {1})})
             copy == Seg({Block("set", DataSize, {0}, 0 .. (DataSize - 1), {0})})
             third == IF c = 0 THEN Item(TRUE, copy) ELSE Item(FALSE, Idle)
             P == <<Item(FALSE, Idle), Item(FALSE, first), third,
                    Item(FALSE, second), Item(c = 0, Idle), Item(FALSE, Idle)>>
  <2>1. VvaddProgram(c, z) = P
    BY DEF VvaddProgram
  <2>2. first.reads = {} /\ second.reads = {} /\ copy.reads = {} /\ Idle.reads = {}
    BY DEF Seg, Segment, Idle
  <2> HIDE DEF first, second, copy
  <2>3. \A b, x : Item(b, x).segment = x
    BY DEF Item
  <2>4. third.segment.reads = {}
    BY <2>2, <2>3
  <2> HIDE DEF third
  <2>5. /\ Len(P) = 6 /\ P[1] = Item(FALSE, Idle) /\ P[2] = Item(FALSE, first) /\ P[3] = third
        /\ P[4] = Item(FALSE, second) /\ P[5] = Item(c = 0, Idle) /\ P[6] = Item(FALSE, Idle)
    OBVIOUS
  <2> HIDE DEF P
  <2>6. \A i \in 1 .. 6 : i \in {1, 2, 3, 4, 5, 6}
    OBVIOUS
  <2>7. Item(c = 0, Idle).segment = Idle
    BY DEF Item
  <2>8. \A i \in {1, 2, 3, 4, 6} : P[i].segment.reads = {}
    <3>1. /\ P[1].segment = Idle /\ P[2].segment = first /\ P[4].segment = second
          /\ P[6].segment = Idle
      BY <2>5 DEF Item
    <3> QED
      BY <2>2, <2>4, <2>5, <3>1
  <2>9. P[5].segment.reads = {}
    BY <2>2, <2>5, <2>7
  <2> QED
    BY <2>1, <2>5, <2>6, <2>8, <2>9 DEF ReadsNothing
<1> QED
  BY <1>1, <1>2

\* All kernels without a static array.
LEMMA KernelsReadNothing ==
  ASSUME NEW n \in Nat \ {0}, NEW c \in 0 .. (n - 1),
         NEW k \in DOMAIN Linked(c, n) \ {"ae", "ce", "cy", "dm"}
  PROVE  ReadsNothing(Linked(c, n)[k])
<1>1. /\ NoReads(br_matmul(c, n)) /\ NoReads(dr_matmul(c, n)) /\ NoReads(cg_matmul(c, n))
      /\ NoReads(az_matmul(c, n)) /\ NoReads(bj_matmul(c, n)) /\ NoReads(ci_matmul(c, n))
      /\ NoReads(cv_matmul(c, n)) /\ NoReads(dc_matmul(c, n)) /\ NoReads(du_matmul(c, n))
  BY LoopsReadNothing, TransposedBlocksReadNothing, ShortReadNothing
     DEF br_matmul, dr_matmul, cg_matmul, az_matmul, bj_matmul, ci_matmul, cv_matmul, dc_matmul,
         du_matmul
<1> QED
  BY <1>1, LoopsReadNothing, ShortReadNothing, ProgramsReadNothing, SMTT(30) DEF Linked

\* What the segments of the plans p read of the scratch arrays has been filled.
FilledBefore(p) ==
  \A c \in Cores : \A i \in 1 .. Len(p[c]) : \A a \in p[c][i].reads :
    \A r \in a.rows, col \in a.cols :
      \E d \in Cores : \E j \in 1 .. (IF d = c THEN i ELSE i - 1) :
        \E f \in p[d][j].fills : r \in f.rows /\ col \in f.cols

\* Plans that fill before they read make programs that do.
LEMMA PlansFilled ==
  ASSUME ncores \in CoreCounts, NEW p,
         \A c \in Cores : IsPlan(p[c]) /\ Linked(c, ncores)[kernel] = MatmulProgram(p[c]),
         \A c, d \in Cores : Len(p[c]) = Len(p[d]), FilledBefore(p)
  PROVE  PlansFill
<1>1. ASSUME NEW c \in Cores
      PROVE  /\ Len(p[c]) \in Nat /\ Len(Program(c)) = Len(p[c]) + 1
             /\ \A i \in 1 .. Len(p[c]) : Program(c)[i].segment = p[c][i]
             /\ Program(c)[Len(p[c]) + 1].segment.reads = {}
  <2>1. Program(c) = MatmulProgram(p[c]) /\ IsPlan(p[c])
    BY ProgramIsLinked
  <2> DEFINE q == p[c]
  <2> HIDE DEF q
  <2>2. /\ Len(MatmulProgram(q)) = Len(q) + 1
        /\ \A i \in 1 .. Len(q) : MatmulProgram(q)[i] = Item(FALSE, q[i])
        /\ MatmulProgram(q)[Len(q) + 1] = Item(TRUE, Idle)
    BY <2>1, MatmulItems DEF q
  <2>3. \A i \in 1 .. Len(q) : MatmulProgram(q)[i].segment = q[i]
    <3> TAKE i \in 1 .. Len(q)
    <3>1. Item(FALSE, q[i]).segment = q[i]
      BY DEF Item
    <3> QED
      BY <2>2, <3>1
  <2>4. MatmulProgram(q)[Len(q) + 1].segment.reads = {}
    <3>1. Item(TRUE, Idle).segment.reads = {}
      BY DEF Item, Idle, Seg, Segment
    <3> QED
      BY <2>2, <3>1
  <2> QED
    BY <2>1, <2>2, <2>3, <2>4, PlanLength DEF q
<1> SUFFICES ASSUME NEW c \in Cores, NEW i \in 1 .. Len(Program(c)),
                    NEW a \in Program(c)[i].segment.reads, NEW r \in a.rows, NEW col \in a.cols
             PROVE  \E d \in Cores : \E j \in 1 .. (IF d = c THEN i ELSE i - 1) :
                      \E f \in Program(d)[j].segment.fills : r \in f.rows /\ col \in f.cols
  BY DEF PlansFill
<1>2. i \in 1 .. Len(p[c])
  <2>1. i # Len(p[c]) + 1
    BY <1>1
  <2> QED
    BY <1>1, <2>1
<1>3. a \in p[c][i].reads
  BY <1>1, <1>2
<1>4. PICK d \in Cores : \E j \in 1 .. (IF d = c THEN i ELSE i - 1) :
        \E f \in p[d][j].fills : r \in f.rows /\ col \in f.cols
  BY <1>2, <1>3 DEF FilledBefore
<1>5. PICK j \in 1 .. (IF d = c THEN i ELSE i - 1) :
        \E f \in p[d][j].fills : r \in f.rows /\ col \in f.cols
  BY <1>4
<1>6. j \in 1 .. Len(p[d])
  <2>1. Len(p[d]) = Len(p[c]) /\ Len(p[c]) \in Nat
    BY <1>1
  <2> QED
    BY <1>2, <2>1
<1>7. Program(d)[j].segment = p[d][j]
  BY <1>1, <1>6
<1> QED
  BY <1>5, <1>7

\* Every row is in the block of one core.
LEMMA OwnCover ==
  ASSUME NEW n \in Nat \ {0}, Lda % n = 0, NEW r \in All
  PROVE  \E c \in 0 .. (n - 1) : \A d \in 0 .. (n - 1) : r \in Own(d, n) <=> d = c
<1>1. Lda \in Nat
  BY Products
<1>2. PICK c \in 0 .. (n - 1) : r \in Own(c, n)
  BY <1>1, ChunksCover DEF All, Own, Blk
<1> QED
  BY <1>2, OwnApart

\* B transposed into the shared BB, one column per barrier, and BB read behind.
LEMMA TransposedFilled ==
  ASSUME ncores \in CoreCounts, ncores \in Nat \ {0}, Lda % ncores = 0, NEW p,
         \A c \in Cores : /\ IsPlan(p[c]) /\ Linked(c, ncores)[kernel] = MatmulProgram(p[c])
                          /\ \A j \in 1 .. Lda : p[c][j] = TransposeB(c, ncores)[j],
         \A c, d \in Cores : Len(p[c]) = Len(p[d]),
         \A c \in Cores : \A i \in 1 .. Len(p[c]) : i > Lda =>
           \A a \in p[c][i].reads : a.rows \subseteq All /\ a.cols \subseteq All
  PROVE  PlansFill
<1>1. Lda \in Nat /\ Cores = 0 .. (ncores - 1)
  BY LdaAssumption DEF Cores
<1>2. ASSUME NEW d \in Cores, NEW j \in 1 .. Lda
      PROVE  p[d][j].fills = {Area(Own(d, ncores), {j - 1})} /\ p[d][j].reads = {}
  <2>1. p[d][j] = Segment({}, {Area(Own(d, ncores), {j - 1})}, {})
    BY DEF TransposeB
  <2> QED
    BY <2>1 DEF Segment
<1>3. ASSUME NEW c \in Cores, NEW i \in 1 .. Len(p[c]), NEW a \in p[c][i].reads,
             NEW r \in a.rows, NEW col \in a.cols
      PROVE  \E d \in Cores : \E j \in 1 .. (IF d = c THEN i ELSE i - 1) :
               \E f \in p[d][j].fills : r \in f.rows /\ col \in f.cols
  <2>1. i > Lda
    <3> SUFFICES ASSUME i <= Lda PROVE FALSE
      BY <1>1
    <3>1. i \in 1 .. Lda
      BY <1>1
    <3>2. p[c][i].reads = {}
      BY <1>2, <3>1
    <3> QED
      BY <3>2
  <2>2. r \in All /\ col \in All
    BY <2>1
  <2>3. PICK d \in Cores : r \in Own(d, ncores)
    BY <1>1, <2>2, OwnCover
  <2>4. PICK j \in 1 .. Lda : j - 1 = col /\ j \in 1 .. (IF d = c THEN i ELSE i - 1)
    <3>1. col + 1 \in 1 .. Lda /\ (col + 1) - 1 = col
          /\ col + 1 \in 1 .. (IF d = c THEN i ELSE i - 1)
      BY <1>1, <2>1, <2>2 DEF All
    <3> QED
      BY <3>1
  <2>5. PICK f : f = Area(Own(d, ncores), {j - 1})
    OBVIOUS
  <2>6. f.rows = Own(d, ncores) /\ f.cols = {j - 1}
    BY <2>5 DEF Area
  <2>7. f \in p[d][j].fills
    BY <1>2, <2>5
  <2> QED
    BY <2>3, <2>4, <2>6, <2>7
<1>4. FilledBefore(p)
  BY <1>3 DEF FilledBefore
<1> QED
  BY <1>4, PlansFilled

\* ae reads four rows of BB per segment.
LEMMA AeFilled ==
  ASSUME ncores \in CoreCounts, ncores \in Nat \ {0}, kernel = "ae",
         Lda % ncores = 0, Lda % 8 = 0
  PROVE  PlansFill
<1> DEFINE m == (Lda \div 4) * Blk(ncores)
           i(s) == 4 * ((s - 1) \div Blk(ncores))
           f(c) == [s \in 1 .. m |->
                     Segment({Set({c * Blk(ncores) + ((s - 1) % Blk(ncores))}, i(s) .. (i(s) + 3),
                                  Unrolled(0, Lda, 8))},
                             {}, {Area(i(s) .. (i(s) + 3), Unrolled(0, Lda, 8))})]
           g(c) == (TransposeB(c, ncores) \o f(c)) \o <<Idle>>
           p == [c \in Cores |-> g(c)]
<1>1. Lda \in Nat /\ m \in Nat /\ Blk(ncores) \in Nat /\ Cores = 0 .. (ncores - 1)
  BY Products DEF Cores
<1>2. ASSUME NEW s \in 1 .. m PROVE i(s) .. (i(s) + 3) \subseteq All
  <2>1. (s - 1) \div Blk(ncores) \in 0 .. ((Lda \div 4) - 1)
    <3>1. s - 1 \in Nat /\ s - 1 < m /\ Lda \div 4 \in Nat
      BY <1>1
    <3> QED
      BY <1>1, <3>1, QuotientBelow
  <2>2. 4 * (Lda \div 4) <= Lda
    BY <1>1
  <2> QED
    BY <1>1, <2>1, <2>2 DEF All
<1>3. Unrolled(0, Lda, 8) \subseteq All
  <2>1. 8 \in Nat \ {0}
    OBVIOUS
  <2> QED
    BY <2>1, EvenRanges
<1>4. ASSUME NEW c \in Cores
      PROVE  /\ IsPlan(f(c)) /\ Len(f(c)) = m
             /\ \A s \in 1 .. m : f(c)[s].reads = {Area(i(s) .. (i(s) + 3), Unrolled(0, Lda, 8))}
  <2>1. IsPlan(f(c)) /\ DOMAIN f(c) = 1 .. m
    BY <1>1 DEF IsPlan
  <2>2. \A s \in 1 .. m : f(c)[s].reads = {Area(i(s) .. (i(s) + 3), Unrolled(0, Lda, 8))}
    BY DEF Segment
  <2> HIDE DEF f, m
  <2> QED
    BY <1>1, <2>1, <2>2, PlanLength
<1> HIDE DEF m, i, f
<1>5. ASSUME NEW c \in Cores
      PROVE  /\ IsPlan(TransposeB(c, ncores)) /\ Len(TransposeB(c, ncores)) = Lda
  <2>1. IsPlan(TransposeB(c, ncores)) /\ DOMAIN TransposeB(c, ncores) = 1 .. Lda
    BY <1>1 DEF TransposeB, IsPlan
  <2> QED
    BY <1>1, <2>1, PlanLength
<1>6. ASSUME NEW c \in Cores
      PROVE  /\ IsPlan(g(c)) /\ Len(g(c)) = Lda + m + 1
             /\ \A j \in 1 .. Lda : g(c)[j] = TransposeB(c, ncores)[j]
             /\ \A s \in 1 .. m : g(c)[Lda + s] = f(c)[s]
             /\ g(c)[Lda + m + 1] = Idle
  <2> DEFINE h == TransposeB(c, ncores) \o f(c)
  <2>1. /\ IsPlan(h) /\ Len(h) = Lda + m
        /\ \A j \in 1 .. Lda : h[j] = TransposeB(c, ncores)[j]
        /\ \A s \in 1 .. m : h[Lda + s] = f(c)[s]
    BY <1>4, <1>5, PlanConcat
  <2> HIDE DEF h
  <2>2. /\ IsPlan(h \o <<Idle>>) /\ Len(h \o <<Idle>>) = Len(h) + 1
        /\ \A j \in 1 .. Len(h) : (h \o <<Idle>>)[j] = h[j]
        /\ (h \o <<Idle>>)[Len(h) + 1] = Idle
    BY <2>1, PlanSnoc
  <2>3. g(c) = h \o <<Idle>>
    BY DEF h
  <2> HIDE DEF g
  <2>4. /\ \A j \in 1 .. Lda : j \in 1 .. Len(h)
        /\ \A s \in 1 .. m : Lda + s \in 1 .. Len(h)
    BY <1>1, <2>1
  <2> QED
    BY <2>1, <2>2, <2>3, <2>4
<1>7. ASSUME NEW c \in Cores PROVE g(c) = ae_matmul(c, ncores)
  BY DEF ae_matmul, f, i, m
<1> HIDE DEF g
<1>8. \A c \in Cores : /\ IsPlan(p[c]) /\ Linked(c, ncores)[kernel] = MatmulProgram(p[c])
                       /\ \A j \in 1 .. Lda : p[c][j] = TransposeB(c, ncores)[j]
  BY <1>6, <1>7 DEF Linked
<1>9. \A c, d \in Cores : Len(p[c]) = Len(p[d])
  BY <1>6
<1>10. ASSUME NEW c \in Cores, NEW j \in 1 .. Len(p[c]), j > Lda, NEW a \in p[c][j].reads
       PROVE  a.rows \subseteq All /\ a.cols \subseteq All
  <2>1. Idle.reads = {}
    BY DEF Idle, Seg, Segment
  <2>2. j # Lda + m + 1
    BY <1>6, <2>1
  <2>3. PICK s \in 1 .. m : j = Lda + s
    <3>1. j - Lda \in 1 .. m /\ j = Lda + (j - Lda)
      BY <1>1, <1>6, <1>10, <2>2, SMTT(30)
    <3> QED
      BY <3>1
  <2>4. p[c][j] = f(c)[s]
    BY <1>6, <2>3
  <2>5. a = Area(i(s) .. (i(s) + 3), Unrolled(0, Lda, 8))
    BY <1>4, <2>4
  <2> QED
    BY <1>2, <1>3, <2>5 DEF Area
<1> HIDE DEF p
<1> QED
  BY <1>8, <1>9, <1>10, TransposedFilled

\* ce reads the first 32 rows of BB in its last segment.
LEMMA CeFilled ==
  ASSUME ncores \in CoreCounts, ncores \in Nat \ {0}, kernel = "ce",
         Lda % ncores = 0, Lda % 8 = 0, Lda >= 32
  PROVE  PlansFill
<1> DEFINE last(c) == Segment({Add(Own(c, ncores),
                                   Unrolled(x * (32 \div ncores), (x + 1) * (32 \div ncores), 8),
                                   Unrolled(0, Lda, 8)) : x \in 0 .. (ncores - 1)},
                              {}, {Area(0 .. 31, Unrolled(0, Lda, 8))})
           p == [c \in Cores |-> TransposeB(c, ncores) \o <<last(c)>>]
<1>1. Lda \in Nat /\ Cores = 0 .. (ncores - 1)
  BY Products DEF Cores
<1>2. Unrolled(0, Lda, 8) \subseteq All /\ 0 .. 31 \subseteq All
  <2>1. 8 \in Nat \ {0}
    OBVIOUS
  <2> QED
    BY <1>1, <2>1, EvenRanges DEF All
<1>3. \A c : last(c).reads = {Area(0 .. 31, Unrolled(0, Lda, 8))}
  BY DEF Segment
<1>4. \A c \in Cores : p[c] = ce_matmul(c, ncores)
  BY DEF ce_matmul
<1> HIDE DEF last
<1>5. ASSUME NEW c \in Cores
      PROVE  /\ IsPlan(p[c]) /\ Len(p[c]) = Lda + 1
             /\ \A j \in 1 .. Lda : p[c][j] = TransposeB(c, ncores)[j]
             /\ p[c][Lda + 1] = last(c)
  <2> DEFINE t == TransposeB(c, ncores)
             e == last(c)
  <2>1. IsPlan(t) /\ DOMAIN t = 1 .. Lda
    BY <1>1 DEF TransposeB, IsPlan
  <2>2. p[c] = t \o <<e>>
    OBVIOUS
  <2> HIDE DEF t, e, p
  <2>3. Len(t) = Lda
    BY <1>1, <2>1, PlanLength
  <2>4. /\ IsPlan(t \o <<e>>) /\ Len(t \o <<e>>) = Len(t) + 1
        /\ \A j \in 1 .. Len(t) : (t \o <<e>>)[j] = t[j]
        /\ (t \o <<e>>)[Len(t) + 1] = e
    BY <2>1, PlanSnoc
  <2>5. p[c][Lda + 1] = e /\ \A j \in 1 .. Lda : p[c][j] = t[j]
    BY <2>2, <2>3, <2>4
  <2> QED
    BY <2>2, <2>3, <2>4, <2>5 DEF t, e
<1> HIDE DEF p
<1>6. \A c \in Cores : /\ IsPlan(p[c]) /\ Linked(c, ncores)[kernel] = MatmulProgram(p[c])
                       /\ \A j \in 1 .. Lda : p[c][j] = TransposeB(c, ncores)[j]
  BY <1>4, <1>5 DEF Linked
<1>7. \A c, d \in Cores : Len(p[c]) = Len(p[d])
  BY <1>5
<1>8. ASSUME NEW c \in Cores, NEW j \in 1 .. Len(p[c]), j > Lda, NEW a \in p[c][j].reads
      PROVE  a.rows \subseteq All /\ a.cols \subseteq All
  <2>1. j = Lda + 1
    BY <1>1, <1>5, <1>8
  <2>2. p[c][j] = last(c)
    BY <1>5, <2>1
  <2>3. a = Area(0 .. 31, Unrolled(0, Lda, 8))
    BY <1>3, <2>2
  <2> QED
    BY <1>2, <2>3 DEF Area
<1> QED
  BY <1>6, <1>7, <1>8, TransposedFilled

\* cy fills and reads its copies in one segment; of dm's copy core n - 1 makes
\* one part and every other core the rest, in front of the barrier.
LEMMA CopiesFilled ==
  ASSUME ncores \in CoreCounts, ncores \in Nat \ {0}, kernel \in {"cy", "dm"}
  PROVE  PlansFill
<1>1. Lda \in Nat /\ Blk(ncores) \in Nat /\ Cores = 0 .. (ncores - 1)
  BY Products DEF Cores
<1>2. CASE kernel = "cy"
  <2> DEFINE p == [c \in Cores |-> cy_matmul(c, ncores)]
             copied(c) == Segment({SixteenRows(c, ncores)}, {Area(0 .. 31, 0 .. 31)},
                                  {Area(0 .. 31, 0 .. 31)})
  <2>1. ASSUME NEW c \in Cores
        PROVE  \E s : /\ p[c] = <<s>>
                      /\ s.reads = {} \/ (s.reads = {Area(0 .. 31, 0 .. 31)} /\ s.fills = s.reads)
    <3>1. CASE c = 0
      BY <3>1 DEF cy_matmul, Seg, Segment
    <3>2. CASE c = 1
      <4>1. p[c] = <<copied(c)>>
        BY <3>2 DEF cy_matmul
      <4> QED
        BY <4>1 DEF Segment
    <3>3. CASE c > 1
      <4>1. p[c] = <<Idle>>
        BY <3>3 DEF cy_matmul
      <4> QED
        BY <4>1 DEF Idle, Seg, Segment
    <3> QED
      BY <1>1, <3>1, <3>2, <3>3
  <2>2. \A c \in Cores : Linked(c, ncores)[kernel] = MatmulProgram(p[c])
    BY <1>2 DEF Linked
  <2> HIDE DEF p
  <2>3. \A c \in Cores : IsPlan(p[c]) /\ Len(p[c]) = 1
    BY <2>1, PlanOne
  <2>4. FilledBefore(p)
    <3> SUFFICES ASSUME NEW c \in Cores, NEW i \in 1 .. Len(p[c]), NEW a \in p[c][i].reads,
                        NEW r \in a.rows, NEW col \in a.cols
                 PROVE  \E d \in Cores : \E j \in 1 .. (IF d = c THEN i ELSE i - 1) :
                          \E f \in p[d][j].fills : r \in f.rows /\ col \in f.cols
      BY DEF FilledBefore
    <3>1. PICK s : /\ p[c] = <<s>>
                   /\ s.reads = {} \/ (s.reads = {Area(0 .. 31, 0 .. 31)} /\ s.fills = s.reads)
      BY <2>1
    <3>2. i = 1 /\ p[c][1] = s
      BY <2>3, <3>1
    <3>3. a \in s.fills
      BY <3>1, <3>2
    <3>4. 1 \in 1 .. (IF c = c THEN i ELSE i - 1)
      BY <3>2
    <3>5. a \in p[c][1].fills
      BY <3>2, <3>3
    <3> QED
      BY <3>4, <3>5
  <2> QED
    BY <2>2, <2>3, <2>4, PlansFilled
<1>3. CASE kernel = "dm"
  <2> DEFINE p == [c \in Cores |-> dm_matmul(c, ncores)]
             part(c) == Area(IF c = ncores - 1 THEN 0 .. (Blk(ncores) - 1)
                             ELSE Blk(ncores) .. (Lda - 1), All)
             copy(c) == Segment({}, {part(c)}, {})
             read(c) == IF c = ncores - 1 THEN {Area(All, All)} ELSE {}
  <2>1. ASSUME NEW c \in Cores
        PROVE  \E s : /\ p[c] = <<copy(c), s>>
                      /\ s.reads = read(c)
    <3> DEFINE s == Segment({Add(Unrolled(Blk(ncores) * c,
                                          4 * ((IF c = ncores - 1 THEN Lda
                                                ELSE Blk(ncores) * (c + 1)) \div 4), 4),
                                 Unrolled(0, 4 * (Lda \div 4), 4), All)}, {}, read(c))
    <3>1. p[c] = <<copy(c), s>>
      BY DEF dm_matmul
    <3>2. s.reads = read(c)
      BY DEF Segment
    <3> HIDE DEF s
    <3> QED
      BY <3>1, <3>2
  <2>2. \A c \in Cores : Linked(c, ncores)[kernel] = MatmulProgram(p[c])
    BY <1>3 DEF Linked
  <2> HIDE DEF p
  <2>3. ASSUME NEW c \in Cores
        PROVE  /\ IsPlan(p[c]) /\ Len(p[c]) = 2 /\ p[c][1].reads = {} /\ p[c][1].fills = {part(c)}
               /\ p[c][2].reads = read(c)
    <3>1. PICK s : p[c] = <<copy(c), s>> /\ s.reads = read(c)
      BY <2>1
    <3>2. copy(c).reads = {} /\ copy(c).fills = {part(c)}
      BY DEF Segment
    <3> HIDE DEF copy, part, read
    <3>3. IsPlan(p[c])
      BY <3>1, PlanTwo
    <3> QED
      BY <3>1, <3>2, <3>3
  <2>4. FilledBefore(p)
    <3> SUFFICES ASSUME NEW c \in Cores, NEW i \in 1 .. Len(p[c]), NEW a \in p[c][i].reads,
                        NEW r \in a.rows, NEW col \in a.cols
                 PROVE  \E d \in Cores : \E j \in 1 .. (IF d = c THEN i ELSE i - 1) :
                          \E f \in p[d][j].fills : r \in f.rows /\ col \in f.cols
      BY DEF FilledBefore
    <3>1. i = 2
      <4>1. i \in {1, 2}
        BY <2>3
      <4> QED
        BY <2>3, <4>1
    <3>2. c = ncores - 1 /\ a = Area(All, All)
      BY <2>3, <3>1
    <3>3. r \in All /\ col \in All
      BY <3>2 DEF Area
    <3>4. PICK d \in Cores : r \in part(d).rows
      <4>1. CASE r < Blk(ncores)
        BY <1>1, <3>2, <3>3, <4>1 DEF Area, All
      <4>2. CASE r >= Blk(ncores)
        <5>1. ncores # 1
          <6> SUFFICES ASSUME ncores = 1 PROVE FALSE
            OBVIOUS
          <6>1. Lda \div 1 = Lda
            BY <1>1
          <6> QED
            BY <1>1, <3>3, <4>2, <6>1 DEF Blk, All
        <5>2. 0 \in Cores /\ 0 # ncores - 1
          BY <1>1, <5>1
        <5>3. r \in part(0).rows
          BY <1>1, <3>3, <4>2, <5>2 DEF Area, All
        <5> QED
          BY <5>2, <5>3
      <4> QED
        BY <1>1, <3>3, <4>1, <4>2 DEF All
    <3>5. part(d).cols = All
      BY DEF Area
    <3>6. 1 \in 1 .. (IF d = c THEN i ELSE i - 1)
      BY <3>1
    <3>7. p[d][1].fills = {part(d)}
      BY <2>3
    <3> HIDE DEF part
    <3> QED
      BY <3>3, <3>4, <3>5, <3>6, <3>7
  <2> QED
    BY <2>2, <2>3, <2>4, PlansFilled
<1> QED
  BY <1>2, <1>3

\* The kernels that fill what they read of the scratch arrays on n cores: all
\* that have none, the two that copy for themselves, and the two that transpose
\* B if the cores' columns and the unrolled loops make up all of it.
FilledKernels(n) ==
  (DOMAIN Linked(0, 1) \ {"ae", "ce"})
  \cup (IF Lda % n = 0 /\ Lda % 8 = 0 THEN {"ae"} ELSE {})
  \cup (IF Lda % n = 0 /\ Lda % 8 = 0 /\ Lda >= 32 THEN {"ce"} ELSE {})

\* However the cores interleave, no core reads an element of a shared static array
\* that nobody has filled: at every number of cores and every lda the two
\* transposing kernels are written for.
THEOREM ScratchIsFilled == Spec => [](kernel \in FilledKernels(ncores) => ScratchFilled)
<1>1. MtInv => (kernel \in FilledKernels(ncores) => PlansFill)
  <2> SUFFICES ASSUME MtInv, kernel \in FilledKernels(ncores) PROVE PlansFill
    OBVIOUS
  <2>1. ncores \in CoreCounts /\ ncores \in Nat \ {0} /\ Cores = 0 .. (ncores - 1)
    BY DEF MtInv, BInv, BarrierTypeOK, Cores
  <2>2. CASE kernel = "ae"
    BY <2>1, <2>2, AeFilled DEF FilledKernels
  <2>3. CASE kernel = "ce"
    BY <2>1, <2>3, CeFilled DEF FilledKernels
  <2>4. CASE kernel \in {"cy", "dm"}
    BY <2>1, <2>4, CopiesFilled
  <2>5. CASE kernel \in DOMAIN Linked(0, 1) \ {"ae", "ce", "cy", "dm"}
    <3>1. ASSUME NEW c \in Cores PROVE ReadsNothing(Program(c))
      <4>1. kernel \in DOMAIN Linked(c, ncores) \ {"ae", "ce", "cy", "dm"}
        BY <2>1, <2>5, LinkedPrograms
      <4> QED
        BY <2>1, <4>1, ProgramIsLinked, KernelsReadNothing
    <3> QED
      BY <3>1 DEF PlansFill, ReadsNothing
  <2>6. kernel \in DOMAIN Linked(0, 1)
    BY MtAssumption DEF MtInv
  <2> QED
    BY <2>2, <2>3, <2>4, <2>5, <2>6
<1> QED
  BY <1>1, FilledByPlans, MtInvariant, PTL

-----------------------------------------------------------------------------
(* Sums are complete                                                       *)

TermCount(s) == Cardinality(s[3].terms)

TermsAdded(S) == MapThenSumSet(LAMBDA s : Cardinality(s[3].terms), S)

Some(s) == CHOOSE x \in s : TRUE

SumOver(S, iter) ==
  iter = [s \in SUBSET S |->
            IF s = {} THEN 0 ELSE TermCount(Some(s)) + iter[s \ {Some(s)}]]

\* The sum is the value of a function that follows its recursion.
LEMMA SumUnfolds == 
   ASSUME NEW S, NEW g, SumOver(S, g)
   PROVE  \E iter : SumOver(S, iter) /\ TermsAdded(S) = iter[S]
<1>1. TermsAdded(S) = (CHOOSE iter : iter = [s \in SUBSET S |->
                 IF s = {} THEN 0
                 ELSE Cardinality((CHOOSE x \in s : TRUE)[3].terms)
                        + iter[s \ {CHOOSE x \in s : TRUE}]])[S]
  BY DEF TermsAdded, MapThenSumSet, MapThenFoldSet
<1>2. TermsAdded(S) = (CHOOSE iter : SumOver(S, iter))[S]
  BY <1>1 DEF SumOver, Some, TermCount
<1>3. SumOver(S, CHOOSE iter : SumOver(S, iter))
  OBVIOUS
<1> QED
  BY <1>2, <1>3

\* The sum over one store, and over two.
LEMMA SumOne ==
  ASSUME NEW x, TermCount(x) \in Nat
  PROVE  TermsAdded({x}) = TermCount(x)
<1> DEFINE S == {x}
           g == [s \in SUBSET S |-> IF s = {} THEN 0 ELSE TermCount(x)]
<1>1. \A s \in SUBSET S : s # {} => s = S /\ Some(s) = x /\ s \ {x} = {}
  BY DEF Some
<1>2. SumOver(S, g)
  BY <1>1 DEF SumOver
<1>3. PICK iter : SumOver(S, iter) /\ TermsAdded(S) = iter[S]
  BY <1>2, SumUnfolds
<1>4. {} \in SUBSET S /\ S \in SUBSET S /\ S # {} /\ Some(S) = x /\ S \ {x} = {}
  BY <1>1
<1> HIDE DEF S
<1>5. iter[{}] = 0 /\ iter[S] = TermCount(Some(S)) + iter[S \ {Some(S)}]
  BY <1>3, <1>4 DEF SumOver
<1> QED
  BY <1>3, <1>4, <1>5 DEF S

LEMMA SumTwo ==
  ASSUME NEW x, NEW y, x # y, TermCount(x) \in Nat, TermCount(y) \in Nat
  PROVE  TermsAdded({x, y}) = TermCount(x) + TermCount(y)
<1> DEFINE S == {x, y}
           g == [s \in SUBSET S |->
                   IF s = {} THEN 0 ELSE IF s = {x} THEN TermCount(x)
                   ELSE IF s = {y} THEN TermCount(y) ELSE TermCount(x) + TermCount(y)]
<1>1. Some({x}) = x /\ Some({y}) = y /\ Some(S) \in S
  BY DEF Some
<1>2. \A s \in SUBSET S : s \in {{}, {x}, {y}, S}
  OBVIOUS
<1>3. {x} \ {x} = {} /\ {y} \ {y} = {} /\ S \ {x} = {y} /\ S \ {y} = {x} /\ S # {x} /\ S # {y}
      /\ S # {} /\ {x} # {} /\ {y} # {}
  OBVIOUS
<1>4. /\ {} \in SUBSET S /\ {x} \in SUBSET S /\ {y} \in SUBSET S /\ S \in SUBSET S
  OBVIOUS
<1>5. /\ g[{}] = 0 /\ g[{x}] = TermCount(x) /\ g[{y}] = TermCount(y)
      /\ g[S] = TermCount(x) + TermCount(y)
  BY <1>3, <1>4
<1>6. SumOver(S, g)
  <2> DEFINE h == [s \in SUBSET S |-> IF s = {} THEN 0 ELSE TermCount(Some(s)) + g[s \ {Some(s)}]]
  <2>1. \A s \in SUBSET S : g[s] = h[s]
    <3>1. h[{}] = 0
      OBVIOUS
    <3>2. h[{x}] = TermCount(x) + g[{}] /\ h[{y}] = TermCount(y) + g[{}]
      BY <1>1, <1>3, <1>4
    <3>3. h[S] = TermCount(Some(S)) + g[S \ {Some(S)}]
      BY <1>3, <1>4
    <3>4. h[S] = TermCount(x) + TermCount(y)
      <4> HIDE DEF g, h
      <4>1. CASE Some(S) = x
        BY <1>3, <1>5, <3>3, <4>1
      <4>2. CASE Some(S) = y
        <5>1. h[S] = TermCount(y) + g[{x}]
          BY <1>3, <3>3, <4>2
        <5> QED
          BY <1>5, <5>1
      <4> QED
        BY <1>1, <4>1, <4>2
    <3>5. h[{x}] = TermCount(x) /\ h[{y}] = TermCount(y)
      <4> HIDE DEF g, h
      <4> QED
        BY <1>5, <3>2
    <3> HIDE DEF g, h, S
    <3> TAKE s \in SUBSET S
    <3> QED
      BY <1>2, <1>5, <3>1, <3>4, <3>5
  <2>2. g = h
    BY <2>1
  <2> QED
    BY <2>2 DEF SumOver
<1>7. PICK iter : SumOver(S, iter) /\ TermsAdded(S) = iter[S]
  BY <1>6, SumUnfolds
<1> HIDE DEF S, g
<1>8. iter[{}] = 0 /\ iter[{x}] = TermCount(x) + iter[{}] /\ iter[{y}] = TermCount(y) + iter[{}]
  BY <1>1, <1>3, <1>4, <1>7 DEF SumOver
<1>9. iter[S] = TermCount(Some(S)) + iter[S \ {Some(S)}]
  BY <1>3, <1>4, <1>7 DEF SumOver
<1>10. CASE Some(S) = x
  <2>1. iter[S] = TermCount(x) + iter[{y}] /\ iter[{y}] = TermCount(y)
    BY <1>3, <1>8, <1>9, <1>10
  <2> QED
    BY <1>7, <2>1 DEF S
<1>11. CASE Some(S) = y
  <2>1. iter[S] = TermCount(y) + iter[{x}] /\ iter[{x}] = TermCount(x)
    BY <1>3, <1>8, <1>9, <1>11
  <2> QED
    BY <1>7, <2>1 DEF S
<1> QED
  BY <1>1, <1>10, <1>11 DEF S

\* The number of the last store that overwrites.
LEMMA MaxOf ==
  ASSUME NEW S, NEW x \in S, \A y \in S : y \in Nat /\ y <= x
  PROVE  Max(S) = x
BY DEF Max

\* One store of all terms makes an element right.
LEMMA HoldsOne ==
  ASSUME NEW i \in Nat \ {0}, NEW c, NEW b, NEW terms, b.terms = terms,
         Cardinality(terms) \in Nat
  PROVE  Holds({<<i, c, b>>}, terms)
<1> DEFINE s == <<i, c, b>>
           S == {s}
           sets == {t \in S : t[3].op = "set"}
           firsts == {t[1] : t \in sets}
           last == Max({0} \cup firsts)
           live == {t \in S : t[1] >= last}
<1>1. s[1] = i /\ s[3] = b
  OBVIOUS
<1>2. firsts \subseteq {i}
  BY <1>1
<1> HIDE DEF firsts
<1>3. last \in {0, i}
  <2>1. CASE i \in firsts
    <3>1. i \in {0} \cup firsts /\ \A y \in {0} \cup firsts : y \in Nat /\ y <= i
      BY <1>2, <2>1
    <3> QED
      BY <3>1, MaxOf
  <2>2. CASE i \notin firsts
    <3>1. firsts = {}
      BY <1>2, <2>2
    <3>2. last = 0
      BY <3>1, MaxOf
    <3> QED
      BY <3>2
  <2> QED
    BY <2>1, <2>2
<1> HIDE DEF last
<1>4. live = {s}
  BY <1>1, <1>3
<1>5. TermCount(s) = Cardinality(terms)
  BY <1>1 DEF TermCount
<1>6. TermsAdded(live) = Cardinality(terms)
  BY <1>4, <1>5, SumOne
<1>7. UNION {t[3].terms : t \in live} = terms
  BY <1>1, <1>4
<1>8. Holds(S, terms) = (/\ UNION {t[3].terms : t \in live} = terms
                         /\ TermsAdded(live) = Cardinality(terms))
  BY DEF Holds, TermsAdded, last, firsts
<1> QED
  BY <1>6, <1>7, <1>8

\* The sizes of the sets of terms a vector's element is made of.
LEMMA TermSizes ==
  Cardinality({0}) = 1 /\ Cardinality({1}) = 1 /\ Cardinality({0, 1}) = 2
<1>1. IsFiniteSet({0}) /\ Cardinality({0}) = 1
  BY FS_Singleton
<1>2. Cardinality({1}) = 1
  BY FS_Singleton
<1>3. 1 \notin {0}
  OBVIOUS
<1>4. Cardinality({0} \cup {1}) = Cardinality({0}) + 1
  BY <1>1, <1>3, FS_AddElement, Zenon
<1>5. {0, 1} = {0} \cup {1}
  OBVIOUS
<1> QED
  BY <1>1, <1>2, <1>4, <1>5

\* A copy of the first term over the results, then the second term.
LEMMA HoldsTwo ==
  ASSUME NEW c, NEW d, NEW e, NEW b, NEW copy, NEW add,
         b.op = "set", copy.op = "set", add.op = "add", copy.terms = {0}, add.terms = {1}
  PROVE  Holds({<<2, c, b>>, <<3, d, copy>>, <<4, e, add>>}, {0, 1})
<1> DEFINE x == <<2, c, b>>
           y == <<3, d, copy>>
           z == <<4, e, add>>
           S == {x, y, z}
           sets == {t \in S : t[3].op = "set"}
           firsts == {t[1] : t \in sets}
           last == Max({0} \cup firsts)
           live == {t \in S : t[1] >= last}
<1>1. x[1] = 2 /\ y[1] = 3 /\ z[1] = 4 /\ x[3] = b /\ y[3] = copy /\ z[3] = add
  OBVIOUS
<1>2. sets = {x, y}
  BY <1>1
<1>3. firsts = {2, 3}
  BY <1>1, <1>2
<1> HIDE DEF firsts
<1>4. last = 3
  BY <1>3, MaxOf
<1> HIDE DEF last
<1>5. live = {y, z}
  BY <1>1, <1>4
<1>6. Cardinality({0}) = 1 /\ Cardinality({1}) = 1 /\ Cardinality({0, 1}) = 2
  BY TermSizes
<1>7. TermCount(y) = 1 /\ TermCount(z) = 1
  BY <1>1, <1>6 DEF TermCount
<1>8. TermsAdded(live) = 2
  <2>1. y # z
    BY <1>1
  <2> HIDE DEF y, z, live
  <2> QED
    BY <1>5, <1>7, <2>1, SumTwo
<1>9. UNION {t[3].terms : t \in live} = {0, 1}
  <2>1. \A t \in live : t = y \/ t = z
    BY <1>5
  <2>2. y \in live /\ z \in live /\ y[3].terms = {0} /\ z[3].terms = {1}
    BY <1>1, <1>5
  <2> HIDE DEF y, z, live
  <2> QED
    BY <2>1, <2>2
<1>10. Holds(S, {0, 1}) = (/\ UNION {t[3].terms : t \in live} = {0, 1}
                           /\ TermsAdded(live) = Cardinality({0, 1}))
  BY DEF Holds, TermsAdded, last, firsts
<1> QED
  BY <1>6, <1>8, <1>9, <1>10

\* mt-vvadd's checks: behind the first addition, and behind the copy and the
\* second addition, when every element belongs to one core.
LEMMA RightVectors ==
  ASSUME NEW n \in Nat \ {0}, NEW k, NEW z,
         \A c \in 0 .. (n - 1) : Programs[n][c + 1][k] = VvaddProgram(c, z[c]),
         Results(k) = [rows |-> {0}, cols |-> 0 .. (DataSize - 1), terms |-> {0, 1}],
         \A i \in 0 .. (DataSize - 1) :
           \E c \in 0 .. (n - 1) : \A d \in 0 .. (n - 1) : i \in z[d] <=> d = c
  PROVE  RightAt(n, k, 3) /\ RightAt(n, k, 5)
<1> DEFINE E(op, is, terms) == Block(op, DataSize, {0}, is, terms)
           copy == E("set", 0 .. (DataSize - 1), {0})
           first(d) == E("set", z[d], {0, 1})
           second(d) == E("add", z[d], {1})
           Stores(x) == Programs[n][x[2] + 1][k][x[1]].segment.stores
           onRow(m, r) == {x \in (1 .. (m - 1)) \X (0 .. (n - 1)) :
                             \E s \in Stores(x) : r \in s.rows}
           there(r, i, x) == {s \in Stores(x) : r \in s.rows /\ i \in s.cols}
           stores(m, r, i) == UNION {{<<x[1], x[2], s>> : s \in there(r, i, x)} : x \in onRow(m, r)}
<1>1. /\ RightAt(n, k, 3) = \A r \in Results(k).rows : \A i \in Results(k).cols :
                              Holds(stores(3, r, i), Results(k).terms)
      /\ RightAt(n, k, 5) = \A r \in Results(k).rows : \A i \in Results(k).cols :
                              Holds(stores(5, r, i), Results(k).terms)
  BY DEF RightAt
<1>2. ASSUME NEW d \in 0 .. (n - 1)
      PROVE  /\ Stores(<<1, d>>) = {} /\ Stores(<<2, d>>) = {first(d)}
             /\ Stores(<<3, d>>) = IF d = 0 THEN {copy} ELSE {}
             /\ Stores(<<4, d>>) = {second(d)}
  <2> DEFINE P == VvaddProgram(d, z[d])
  <2>1. \A a : Stores(<<a, d>>) = P[a].segment.stores
    OBVIOUS
  <2>2. P = <<Item(FALSE, Idle), Item(FALSE, Seg({first(d)})),
              IF d = 0 THEN Item(TRUE, Seg({copy})) ELSE Item(FALSE, Idle),
              Item(FALSE, Seg({second(d)})), Item(d = 0, Idle), Item(FALSE, Idle)>>
    BY DEF VvaddProgram
  <2> HIDE DEF first, second, copy, Stores
  <2>3. /\ P[1] = Item(FALSE, Idle) /\ P[2] = Item(FALSE, Seg({first(d)}))
        /\ P[3] = IF d = 0 THEN Item(TRUE, Seg({copy})) ELSE Item(FALSE, Idle)
        /\ P[4] = Item(FALSE, Seg({second(d)}))
    BY <2>2
  <2> HIDE DEF P
  <2>4. \A x, b : Item(b, Seg(x)).segment.stores = x
    BY DEF Item, Seg, Segment
  <2>5. \A b : Item(b, Idle).segment.stores = {}
    BY DEF Item, Idle, Seg, Segment
  <2>6. /\ P[1].segment.stores = {} /\ P[2].segment.stores = {first(d)}
        /\ P[4].segment.stores = {second(d)}
    BY <2>3 DEF Item, Idle, Seg, Segment
  <2>7. P[3].segment.stores = IF d = 0 THEN {copy} ELSE {}
    <3>1. CASE d = 0
      BY <2>3, <3>1 DEF Item, Seg, Segment
    <3>2. CASE d # 0
      BY <2>3, <3>2 DEF Item, Idle, Seg, Segment
    <3> QED
      BY <3>1, <3>2
  <2> QED
    BY <2>1, <2>6, <2>7
<1>3. ASSUME NEW m \in {3, 5}, NEW x \in (1 .. (m - 1)) \X (0 .. (n - 1))
      PROVE  x = <<x[1], x[2]>> /\ x[1] \in 1 .. (m - 1) /\ x[2] \in 0 .. (n - 1)
  OBVIOUS
<1>4. \A op, is, terms : E(op, is, terms).op = op /\ E(op, is, terms).rows = {0}
                         /\ E(op, is, terms).cols = is /\ E(op, is, terms).terms = terms
  BY DEF Block
<1> HIDE DEF E, Stores
<1>5. ASSUME NEW m \in {3, 5}, NEW i \in 0 .. (DataSize - 1), NEW a \in 1 .. (m - 1),
             NEW d \in 0 .. (n - 1), NEW s \in Stores(<<a, d>>), s.rows = {0}, i \in s.cols
      PROVE  <<a, d, s>> \in stores(m, 0, i)
  <2>1. <<a, d>> \in onRow(m, 0)
    BY <1>5
  <2>2. s \in there(0, i, <<a, d>>)
    BY <1>5
  <2> HIDE DEF onRow, there
  <2>3. <<a, d, s>> \in {<<<<a, d>>[1], <<a, d>>[2], v>> : v \in there(0, i, <<a, d>>)}
    BY <2>2
  <2> QED
    BY <2>1, <2>3
<1>6. ASSUME NEW m \in {3, 5}, NEW i \in 0 .. (DataSize - 1), NEW t \in stores(m, 0, i)
      PROVE  \E a \in 1 .. (m - 1), d \in 0 .. (n - 1) : \E s \in Stores(<<a, d>>) :
               i \in s.cols /\ t = <<a, d, s>>
  <2>1. PICK x \in onRow(m, 0) : \E s \in there(0, i, x) : t = <<x[1], x[2], s>>
    OBVIOUS
  <2>2. PICK s \in there(0, i, x) : t = <<x[1], x[2], s>>
    BY <2>1
  <2>3. x = <<x[1], x[2]>> /\ x[1] \in 1 .. (m - 1) /\ x[2] \in 0 .. (n - 1)
    BY <1>3
  <2>4. s \in Stores(<<x[1], x[2]>>) /\ i \in s.cols
    BY <2>3
  <2> QED
    BY <2>2, <2>3, <2>4
<1> HIDE DEF stores
<1>7. ASSUME NEW i \in 0 .. (DataSize - 1)
      PROVE  Holds(stores(3, 0, i), {0, 1}) /\ Holds(stores(5, 0, i), {0, 1})
  <2>1. PICK c \in 0 .. (n - 1) : \A d \in 0 .. (n - 1) : i \in z[d] <=> d = c
    OBVIOUS
  <2> DEFINE x == <<2, c, first(c)>>
             y == <<3, 0, copy>>
             w == <<4, c, second(c)>>
  <2>2. i \in first(c).cols /\ i \in copy.cols /\ i \in second(c).cols
    <3>1. i \in z[c]
      BY <2>1
    <3> QED
      BY <3>1 DEF E, Block
  <2>3. first(c).rows = {0} /\ copy.rows = {0} /\ second(c).rows = {0}
    BY DEF E, Block
  <2>4. first(c) \in Stores(<<2, c>>) /\ copy \in Stores(<<3, 0>>) /\ second(c) \in Stores(<<4, c>>)
    <3>1. 0 \in 0 .. (n - 1)
      OBVIOUS
    <3> HIDE DEF copy, first, second
    <3> QED
      BY <1>2, <3>1
  <2>5. ASSUME NEW a \in 1 .. 4, NEW d \in 0 .. (n - 1), NEW s \in Stores(<<a, d>>), i \in s.cols
        PROVE  \/ a = 2 /\ <<a, d, s>> = x
               \/ a = 3 /\ <<a, d, s>> = y
               \/ a = 4 /\ <<a, d, s>> = w
    <3>1. CASE a = 1
      BY <1>2, <2>5, <3>1
    <3>2. CASE a = 2
      <4>1. s = first(d)
        BY <1>2, <2>5, <3>2
      <4>2. d = c
        BY <1>4, <2>1, <2>5, <4>1
      <4> QED
        BY <3>2, <4>1, <4>2
    <3>3. CASE a = 3
      <4>1. d = 0 /\ s = copy
        BY <1>2, <2>5, <3>3
      <4> QED
        BY <3>3, <4>1
    <3>4. CASE a = 4
      <4>1. s = second(d)
        BY <1>2, <2>5, <3>4
      <4>2. d = c
        BY <1>4, <2>1, <2>5, <4>1
      <4> QED
        BY <3>4, <4>1, <4>2
    <3> QED
      BY <3>1, <3>2, <3>3, <3>4
  <2>6. stores(3, 0, i) = {x}
    <3>1. x \in stores(3, 0, i)
      BY <1>5, <2>2, <2>3, <2>4
    <3>2. ASSUME NEW t \in stores(3, 0, i) PROVE t = x
      <4>1. PICK a \in 1 .. (3 - 1), d \in 0 .. (n - 1) : \E s \in Stores(<<a, d>>) :
              i \in s.cols /\ t = <<a, d, s>>
        BY <1>6
      <4>2. PICK s \in Stores(<<a, d>>) : i \in s.cols /\ t = <<a, d, s>>
        BY <4>1
      <4>3. a \in 1 .. 4 /\ a # 3 /\ a # 4
        OBVIOUS
      <4>4. <<a, d, s>> = x
        BY <2>5, <4>2, <4>3
      <4> QED
        BY <4>2, <4>4
    <3> HIDE DEF x
    <3> QED
      BY <3>1, <3>2
  <2>7. stores(5, 0, i) = {x, y, w}
    <3>1. x \in stores(5, 0, i) /\ y \in stores(5, 0, i) /\ w \in stores(5, 0, i)
      BY <1>5, <2>2, <2>3, <2>4
    <3>2. ASSUME NEW t \in stores(5, 0, i) PROVE t = x \/ t = y \/ t = w
      <4>1. PICK a \in 1 .. (5 - 1), d \in 0 .. (n - 1) : \E s \in Stores(<<a, d>>) :
              i \in s.cols /\ t = <<a, d, s>>
        BY <1>6
      <4> QED
        BY <2>5, <4>1
    <3> HIDE DEF x, y, w
    <3> QED
      BY <3>1, <3>2
  <2>8. /\ first(c).op = "set" /\ copy.op = "set" /\ second(c).op = "add"
        /\ first(c).terms = {0, 1} /\ copy.terms = {0} /\ second(c).terms = {1}
    BY DEF E, Block
  <2>9. Cardinality({0, 1}) \in Nat
    BY TermSizes
  <2> HIDE DEF copy, first, second
  <2>10. Holds({x}, {0, 1})
    <3>1. 2 \in Nat \ {0}
      OBVIOUS
    <3> DEFINE e == first(c)
    <3>2. e.terms = {0, 1}
      BY <2>8
    <3> HIDE DEF e
    <3>3. Holds({<<2, c, e>>}, {0, 1})
      BY <2>9, <3>1, <3>2, HoldsOne
    <3> QED
      BY <3>3 DEF e
  <2>11. Holds({x, y, w}, {0, 1})
    BY <2>8, HoldsTwo
  <2> QED
    BY <2>6, <2>7, <2>10, <2>11
<1>8. ASSUME NEW r \in Results(k).rows, NEW i \in Results(k).cols
      PROVE  Holds(stores(3, r, i), Results(k).terms) /\ Holds(stores(5, r, i), Results(k).terms)
  <2>1. r = 0 /\ i \in 0 .. (DataSize - 1) /\ Results(k).terms = {0, 1}
    OBVIOUS
  <2> QED
    BY <1>7, <2>1
<1> QED
  BY <1>1, <1>8

\* A check that RightAt finds to pass.
LEMMA InRightChecks ==
  ASSUME NEW n \in CoreCounts, NEW k \in Kernels, NEW i \in 1 .. Len(Programs[n][1][k]),
         Programs[n][1][k][i].check, RightAt(n, k, i)
  PROVE  <<n, k, i>> \in RightChecks
<1> DEFINE x == <<n, k, i>>
           W == {<<n, k, j>> : j \in 1 .. Len(Programs[n][1][k])}
           S == {{<<m, l, j>> : j \in 1 .. Len(Programs[m][1][l])} :
                   m \in CoreCounts, l \in Kernels}
<1>1. RightChecks = {y \in UNION S : /\ Programs[y[1]][1][y[2]][y[3]].check
                                     /\ RightAt(y[1], y[2], y[3])}
  BY DEF RightChecks
<1>2. x \in W
  OBVIOUS
<1>3. W \in S
  OBVIOUS
<1>4. x[1] = n /\ x[2] = k /\ x[3] = i
  OBVIOUS
<1> HIDE DEF x, W, S
<1>5. x \in UNION S
  BY <1>2, <1>3
<1>6. x \in RightChecks
  BY <1>1, <1>4, <1>5
<1> QED
  BY <1>6 DEF x

-----------------------------------------------------------------------------
(* Every product is added once                                             *)

\* Induction, for a set given by what its elements satisfy.
LEMMA SetInduction ==
  ASSUME NEW S, 0 \in S, \A m \in Nat : m \in S => m + 1 \in S
  PROVE  Nat \subseteq S
<1> DEFINE R == {ss \in Nat \X Nat : ss[1] < ss[2]}
<1>1. IsWellFoundedOn(R, Nat)
  BY NatLessThanWellFounded DEF OpToRel
<1>2. SUFFICES ASSUME Nat \ S # {} PROVE FALSE
  OBVIOUS
<1>3. PICK x \in Nat \ S : \A y \in Nat \ S : ~(<<y, x>> \in R)
  BY <1>1, <1>2, WFMin
<1>4. x # 0 /\ x - 1 \in Nat /\ x - 1 < x
  BY <1>3
<1>5. x - 1 \notin S
  BY <1>3, <1>4
<1>6. <<x - 1, x>> \in R
  BY <1>3, <1>4
<1> QED
  BY <1>3, <1>4, <1>5, <1>6

\* Stores of different terms add up to the number of terms they bring.
LEMMA SumOfParts ==
  ASSUME NEW S, IsFiniteSet(S), NEW F, IsFiniteSet(F), \A s \in S : s[3].terms \subseteq F,
         \A s, t \in S : s # t => s[3].terms \cap t[3].terms = {}
  PROVE  TermsAdded(S) = Cardinality(UNION {s[3].terms : s \in S})
<1> DEFINE T(s) == UNION {t[3].terms : t \in s}
           g == [s \in SUBSET S |-> Cardinality(T(s))]
<1>1. ASSUME NEW s \in SUBSET S PROVE IsFiniteSet(s) /\ IsFiniteSet(T(s)) /\ Cardinality(T(s)) \in Nat
  <2>1. T(s) \subseteq F
    OBVIOUS
  <2> HIDE DEF T
  <2> QED
    BY <2>1, FS_Subset, FS_CardinalityType
<1>2. ASSUME NEW s \in SUBSET S, s # {}
      PROVE  /\ Some(s) \in s /\ s \ {Some(s)} \in SUBSET S
             /\ Cardinality(T(s)) = TermCount(Some(s)) + Cardinality(T(s \ {Some(s)}))
  <2> DEFINE x == Some(s)
             A == x[3].terms
             B == T(s \ {x})
  <2>1. x \in s
    BY <1>2 DEF Some
  <2> HIDE DEF x
  <2>2. A \cap B = {} /\ A \cup B = T(s)
    BY <2>1
  <2>3. IsFiniteSet(A) /\ IsFiniteSet(B) /\ Cardinality(A) \in Nat /\ Cardinality(B) \in Nat
    <3>1. A \subseteq F /\ s \ {x} \in SUBSET S
      BY <2>1
    <3> HIDE DEF A, T
    <3> QED
      BY <1>1, <3>1, FS_Subset, FS_CardinalityType
  <2> HIDE DEF A, B, T
  <2>4. Cardinality(T(s)) = Cardinality(A) + Cardinality(B)
    <3>1. Cardinality(A \cup B) = Cardinality(A) + Cardinality(B) - Cardinality(A \cap B)
      BY <2>3, FS_Union
    <3>2. Cardinality(A \cap B) = 0
      BY <2>2, FS_EmptySet
    <3>3. Cardinality(T(s)) = Cardinality(A) + Cardinality(B) - 0
      BY <2>2, <3>1, <3>2, Zenon
    <3>4. \A a, b \in Nat : a + b - 0 = a + b
      OBVIOUS
    <3> QED
      BY <2>3, <3>3, <3>4, Zenon
  <2> QED
    BY <2>1, <2>4 DEF TermCount, A, B, x
<1>3. Cardinality(T({})) = 0
  <2>1. T({}) = {}
    OBVIOUS
  <2> HIDE DEF T
  <2> QED
    BY <2>1, FS_EmptySet
<1> HIDE DEF T
<1>4. SumOver(S, g)
  <2>1. \A s \in SUBSET S : g[s] = IF s = {} THEN 0 ELSE TermCount(Some(s)) + g[s \ {Some(s)}]
    BY <1>2, <1>3
  <2> QED
    BY <2>1 DEF SumOver
<1>5. PICK iter : SumOver(S, iter) /\ TermsAdded(S) = iter[S]
  BY <1>4, SumUnfolds
<1> DEFINE Z == {m \in Nat : \A s \in SUBSET S : Cardinality(s) = m => iter[s] = Cardinality(T(s))}
<1>6. 0 \in Z
  <2> SUFFICES ASSUME NEW s \in SUBSET S, Cardinality(s) = 0 PROVE iter[s] = Cardinality(T(s))
    OBVIOUS
  <2>1. s = {}
    BY <1>1, FS_EmptySet
  <2> QED
    BY <1>3, <1>5, <2>1 DEF SumOver
<1>7. ASSUME NEW m \in Nat, m \in Z PROVE m + 1 \in Z
  <2> SUFFICES ASSUME NEW s \in SUBSET S, Cardinality(s) = m + 1 PROVE iter[s] = Cardinality(T(s))
    OBVIOUS
  <2>1. s # {}
    BY FS_EmptySet
  <2>2. Cardinality(s \ {Some(s)}) = m
    <3> DEFINE x == Some(s)
    <3>1. IsFiniteSet(s) /\ x \in s
      BY <1>1, <1>2, <2>1
    <3> HIDE DEF x
    <3>2. Cardinality(s \ {x}) = Cardinality(s) - 1
      BY <3>1, FS_RemoveElement, Zenon
    <3>3. Cardinality(s \ {x}) = m
      BY <3>2
    <3> QED
      BY <3>3 DEF x
  <2>3. iter[s \ {Some(s)}] = Cardinality(T(s \ {Some(s)}))
    BY <1>2, <1>7, <2>1, <2>2
  <2>4. iter[s] = TermCount(Some(s)) + iter[s \ {Some(s)}]
    BY <1>5, <2>1 DEF SumOver
  <2> QED
    BY <1>2, <2>1, <2>3, <2>4
<1> HIDE DEF Z
<1>8. Nat \subseteq Z
  BY <1>6, <1>7, SetInduction
<1>9. S \in SUBSET S /\ Cardinality(S) \in Nat
  BY FS_CardinalityType
<1>10. iter[S] = Cardinality(T(S))
  BY <1>8, <1>9 DEF Z
<1> QED
  BY <1>5, <1>10 DEF T

\* An element is right if every product was added to it by one store, and no
\* store but one that brings all of them overwrites.
LEMMA HoldsParts ==
  ASSUME NEW S, NEW F, IsFiniteSet(F), F # {},
         \A s \in S : /\ s[1] \in Nat \ {0} /\ s[3].terms \subseteq F /\ s[3].terms # {}
                      /\ s[3].op # "set" \/ s[3].terms = F,
         \A f \in F : \E s \in S : f \in s[3].terms /\ \A t \in S : f \in t[3].terms => t = s
  PROVE  Holds(S, F)
<1> DEFINE h == [f \in F |-> CHOOSE s \in S : f \in s[3].terms]
           sets == {t \in S : t[3].op = "set"}
           firsts == {t[1] : t \in sets}
           last == Max({0} \cup firsts)
           live == {t \in S : t[1] >= last}
<1>1. \A s, t \in S : s # t => s[3].terms \cap t[3].terms = {}
  OBVIOUS
<1>2. IsFiniteSet(S)
  <2>1. \A f \in F : h[f] \in S
    OBVIOUS
  <2>2. ASSUME NEW s \in S PROVE \E f \in F : h[f] = s
    <3>1. PICK f \in F : f \in s[3].terms
      OBVIOUS
    <3> QED
      BY <3>1
  <2> HIDE DEF h
  <2>3. h = [f \in F |-> h[f]]
    BY DEF h
  <2>4. h \in Surjection(F, S)
    BY <2>1, <2>2, <2>3 DEF Surjection
  <2> QED
    BY <2>4, FS_Surjection
<1>3. UNION {s[3].terms : s \in S} = F
  <2>1. \A f \in F : f \in UNION {s[3].terms : s \in S}
    OBVIOUS
  <2> QED
    BY <2>1
<1>4. TermsAdded(S) = Cardinality(F)
  BY <1>1, <1>2, <1>3, SumOfParts
<1>5. live = S
  <2>1. CASE sets = {}
    <3>1. {0} \cup firsts = {0}
      BY <2>1
    <3> HIDE DEF firsts
    <3>2. 0 \in {0} /\ \A y \in {0} : y \in Nat /\ y <= 0
      OBVIOUS
    <3>3. Max({0}) = 0
      BY <3>2, MaxOf, Zenon
    <3>4. last = Max({0})
      BY <3>1
    <3> QED
      BY <3>3, <3>4
  <2>2. CASE sets # {}
    <3>1. PICK s \in S : s[3].op = "set"
      BY <2>2
    <3>2. s[3].terms = F
      BY <3>1
    <3>3. S = {s}
      BY <1>1, <3>2
    <3> DEFINE i == s[1]
    <3>4. i \in Nat
      OBVIOUS
    <3>5. firsts = {i}
      BY <3>1, <3>3
    <3> HIDE DEF firsts, i
    <3>6. last = i
      <4>1. i \in {0} \cup firsts /\ \A y \in {0} \cup firsts : y \in Nat /\ y <= i
        BY <3>4, <3>5
      <4> QED
        BY <4>1, MaxOf
    <3> HIDE DEF last
    <3> QED
      BY <3>3, <3>4, <3>6 DEF i
  <2> QED
    BY <2>1, <2>2
<1>6. Holds(S, F) = (/\ UNION {t[3].terms : t \in live} = F
                     /\ TermsAdded(live) = Cardinality(F))
  BY DEF Holds, TermsAdded, last, firsts
<1> HIDE DEF live
<1> QED
  BY <1>3, <1>4, <1>5, <1>6

\* A store of the block adds this product to this element.
Adds(b, r, col, t) == r \in b.rows /\ col \in b.cols /\ t \in b.terms

\* The plans p of n cores, of m segments each, add every product to its element
\* once, and overwrite an element only with all its products.
AddedOnce(n, m, p) ==
  /\ \A c \in 0 .. (n - 1) : \A i \in 1 .. m : \A b \in p[c][i].stores :
       b.terms \subseteq All /\ b.terms # {} /\ (b.op # "set" \/ b.terms = All)
  /\ \A r, col, t \in All :
       \E c \in 0 .. (n - 1), i \in 1 .. m : \E b \in p[c][i].stores :
         /\ Adds(b, r, col, t)
         /\ \A d \in 0 .. (n - 1), j \in 1 .. m : \A e \in p[d][j].stores :
              Adds(e, r, col, t) => d = c /\ j = i /\ e = b

\* Then the elements are right when all m segments have run.
LEMMA RightAfterAll ==
  ASSUME NEW n \in Nat \ {0}, NEW k, NEW m \in Nat, NEW p, AddedOnce(n, m, p),
         \A c \in 0 .. (n - 1), i \in 1 .. m : Programs[n][c + 1][k][i].segment = p[c][i],
         Results(k) = [rows |-> All, cols |-> All, terms |-> All]
  PROVE  RightAt(n, k, m + 1)
<1> DEFINE Stores(x) == Programs[n][x[2] + 1][k][x[1]].segment.stores
           onRow(r) == {x \in (1 .. (m + 1 - 1)) \X (0 .. (n - 1)) : \E s \in Stores(x) : r \in s.rows}
           there(r, col, x) == {s \in Stores(x) : r \in s.rows /\ col \in s.cols}
           stores(r, col) == UNION {{<<x[1], x[2], s>> : s \in there(r, col, x)} : x \in onRow(r)}
<1>1. RightAt(n, k, m + 1) = \A r \in All : \A col \in All : Holds(stores(r, col), All)
  BY DEF RightAt
<1>2. ASSUME NEW c \in 0 .. (n - 1), NEW i \in 1 .. m
      PROVE  /\ <<i, c>> \in (1 .. (m + 1 - 1)) \X (0 .. (n - 1))
             /\ Stores(<<i, c>>) = p[c][i].stores
  OBVIOUS
<1>3. ASSUME NEW x \in (1 .. (m + 1 - 1)) \X (0 .. (n - 1))
      PROVE  x = <<x[1], x[2]>> /\ x[1] \in 1 .. m /\ x[2] \in 0 .. (n - 1)
  OBVIOUS
<1>4. IsFiniteSet(All) /\ All # {}
  <2>1. IsFiniteSet(All)
    BY FS_Interval, LdaAssumption DEF All
  <2>2. 0 \in All
    BY LdaAssumption DEF All
  <2> QED
    BY <2>1, <2>2
<1> HIDE DEF Stores
<1>5. ASSUME NEW r \in All, NEW col \in All PROVE Holds(stores(r, col), All)
  <2>1. ASSUME NEW c \in 0 .. (n - 1), NEW i \in 1 .. m, NEW b \in p[c][i].stores,
               r \in b.rows, col \in b.cols
        PROVE  <<i, c, b>> \in stores(r, col)
    <3>1. <<i, c>> \in onRow(r) /\ b \in there(r, col, <<i, c>>)
      BY <1>2, <2>1
    <3> HIDE DEF onRow, there
    <3>2. <<i, c, b>> \in {<<<<i, c>>[1], <<i, c>>[2], s>> : s \in there(r, col, <<i, c>>)}
      BY <3>1
    <3> QED
      BY <3>1, <3>2
  <2>2. ASSUME NEW s \in stores(r, col)
        PROVE  \E c \in 0 .. (n - 1), i \in 1 .. m : \E b \in p[c][i].stores :
                 s = <<i, c, b>> /\ r \in b.rows /\ col \in b.cols
    <3>1. PICK x \in onRow(r) : \E b \in there(r, col, x) : s = <<x[1], x[2], b>>
      OBVIOUS
    <3>2. PICK b \in there(r, col, x) : s = <<x[1], x[2], b>>
      BY <3>1
    <3>3. x = <<x[1], x[2]>> /\ x[1] \in 1 .. m /\ x[2] \in 0 .. (n - 1)
      BY <1>3
    <3>4. b \in Stores(<<x[1], x[2]>>) /\ r \in b.rows /\ col \in b.cols
      BY <3>3
    <3>5. b \in p[x[2]][x[1]].stores
      BY <1>2, <3>3, <3>4
    <3> QED
      BY <3>2, <3>3, <3>4, <3>5
  <2> HIDE DEF stores
  <2> DEFINE S == stores(r, col)
  <2>3. ASSUME NEW s \in S
        PROVE  /\ s[1] \in Nat \ {0} /\ s[3].terms \subseteq All /\ s[3].terms # {}
               /\ s[3].op # "set" \/ s[3].terms = All
    <3>1. PICK c \in 0 .. (n - 1), i \in 1 .. m : \E b \in p[c][i].stores : s = <<i, c, b>>
      BY <2>2
    <3>2. PICK b \in p[c][i].stores : s = <<i, c, b>>
      BY <3>1
    <3>3. b.terms \subseteq All /\ b.terms # {} /\ (b.op # "set" \/ b.terms = All)
      BY DEF AddedOnce
    <3>4. s[1] = i /\ s[3] = b /\ i \in Nat \ {0}
      BY <3>2
    <3> QED
      BY <3>3, <3>4
  <2>4. ASSUME NEW t \in All
        PROVE  \E s \in S : t \in s[3].terms /\ \A u \in S : t \in u[3].terms => u = s
    <3>1. PICK c \in 0 .. (n - 1), i \in 1 .. m : \E b \in p[c][i].stores :
            /\ Adds(b, r, col, t)
            /\ \A d \in 0 .. (n - 1), j \in 1 .. m : \A e \in p[d][j].stores :
                 Adds(e, r, col, t) => d = c /\ j = i /\ e = b
      BY DEF AddedOnce
    <3>2. PICK b \in p[c][i].stores :
            /\ Adds(b, r, col, t)
            /\ \A d \in 0 .. (n - 1), j \in 1 .. m : \A e \in p[d][j].stores :
                 Adds(e, r, col, t) => d = c /\ j = i /\ e = b
      BY <3>1
    <3>3. <<i, c, b>> \in S /\ t \in <<i, c, b>>[3].terms
      BY <2>1, <3>2 DEF Adds
    <3>4. ASSUME NEW u \in S, t \in u[3].terms PROVE u = <<i, c, b>>
      <4>1. PICK d \in 0 .. (n - 1), j \in 1 .. m : \E e \in p[d][j].stores :
              u = <<j, d, e>> /\ r \in e.rows /\ col \in e.cols
        BY <2>2
      <4>2. PICK e \in p[d][j].stores : u = <<j, d, e>> /\ r \in e.rows /\ col \in e.cols
        BY <4>1
      <4>3. u[3] = e
        BY <4>2
      <4>4. Adds(e, r, col, t)
        BY <3>4, <4>2, <4>3 DEF Adds
      <4> QED
        BY <3>2, <4>2, <4>4
    <3> QED
      BY <3>3, <3>4
  <2> HIDE DEF S
  <2>5. Holds(S, All)
    BY <1>4, <2>3, <2>4, HoldsParts
  <2> QED
    BY <2>5 DEF S
<1> QED
  BY <1>1, <1>5

\* Such plans make a test whose check, behind the last barrier, passes.
LEMMA OnceRight ==
  ASSUME ncores \in CoreCounts, ncores \in Nat \ {0}, kernel \in Kernels,
         kernel \notin VectorKernels, NEW m \in Nat, NEW p, AddedOnce(ncores, m, p),
         \A c \in Cores : /\ Linked(c, ncores)[kernel] = MatmulProgram(p[c])
                          /\ IsPlan(p[c]) /\ Len(p[c]) = m
  PROVE  PlansRight
<1>1. Cores = 0 .. (ncores - 1) /\ 0 \in Cores
  BY DEF Cores
<1>2. ASSUME NEW c \in Cores
      PROVE  /\ Len(Program(c)) = m + 1
             /\ \A i \in 1 .. m : Program(c)[i] = Item(FALSE, p[c][i])
             /\ Program(c)[m + 1] = Item(TRUE, Idle)
  <2>1. Program(c) = MatmulProgram(p[c])
    BY ProgramIsLinked
  <2> DEFINE q == p[c]
  <2>2. IsPlan(q) /\ Len(q) = m
    OBVIOUS
  <2> HIDE DEF q
  <2>3. /\ Len(MatmulProgram(q)) = m + 1
        /\ \A i \in 1 .. m : MatmulProgram(q)[i] = Item(FALSE, q[i])
        /\ MatmulProgram(q)[m + 1] = Item(TRUE, Idle)
    BY <2>2, MatmulItems
  <2> QED
    BY <2>1, <2>3 DEF q
<1>3. \A c \in 0 .. (ncores - 1), i \in 1 .. m : Programs[ncores][c + 1][kernel][i].segment = p[c][i]
  <2> TAKE c \in 0 .. (ncores - 1), i \in 1 .. m
  <2>1. c \in Cores /\ Programs[ncores][c + 1][kernel] = Program(c)
    BY <1>1 DEF Program
  <2>2. Program(c)[i] = Item(FALSE, p[c][i])
    BY <1>2, <2>1
  <2>3. Item(FALSE, p[c][i]).segment = p[c][i]
    BY DEF Item
  <2> QED
    BY <2>1, <2>2, <2>3, Zenon
<1>4. Results(kernel) = [rows |-> All, cols |-> All, terms |-> All]
  BY DEF Results
<1>5. RightAt(ncores, kernel, m + 1)
  BY <1>3, <1>4, RightAfterAll
<1>6. <<ncores, kernel, m + 1>> \in RightChecks
  <2>1. Program(0) = Programs[ncores][1][kernel]
    BY DEF Program
  <2>2. Len(Program(0)) = m + 1 /\ Program(0)[m + 1] = Item(TRUE, Idle)
    BY <1>1, <1>2
  <2>3. Item(TRUE, Idle).check
    BY DEF Item
  <2>4. m + 1 \in 1 .. (m + 1)
    OBVIOUS
  <2>5. m + 1 \in 1 .. Len(Program(0)) /\ Program(0)[m + 1].check
    BY <2>2, <2>3, <2>4, Zenon
  <2> QED
    BY <1>5, <2>1, <2>5, InRightChecks
<1>7. ASSUME NEW c \in Cores, NEW i \in 1 .. Len(Program(c)), Program(c)[i].check PROVE i = m + 1
  <2> SUFFICES ASSUME i # m + 1 PROVE FALSE
    OBVIOUS
  <2>1. i \in 1 .. m
    <3>1. i \in 1 .. (m + 1)
      BY <1>2
    <3> QED
      BY <3>1
  <2>2. Program(c)[i] = Item(FALSE, p[c][i])
    BY <1>2, <2>1
  <2>3. ~Item(FALSE, p[c][i]).check
    BY DEF Item
  <2> QED
    BY <1>7, <2>2, <2>3
<1> QED
  BY <1>6, <1>7 DEF PlansRight

\* Blocks S[c] that the cores store in one item add every product once.
DealtOnce(n, S) ==
  /\ \A c \in 0 .. (n - 1) : \A b \in S[c] :
       b.terms \subseteq All /\ b.terms # {} /\ (b.op # "set" \/ b.terms = All)
  /\ \A r, col, t \in All :
       \E c \in 0 .. (n - 1) : \E b \in S[c] :
         /\ Adds(b, r, col, t)
         /\ \A d \in 0 .. (n - 1) : \A e \in S[d] : Adds(e, r, col, t) => d = c /\ e = b

\* A test of a kernel that multiplies matrices.
MatmulTest ==
  /\ ncores \in CoreCounts /\ ncores \in Nat \ {0}
  /\ kernel \in Kernels /\ kernel \notin VectorKernels

\* The kernel's plans p, of m segments, store the blocks S[c] in segment q and
\* nothing in the others.
StoresIn(q, m, p, S) ==
  \A c \in Cores :
    /\ Linked(c, ncores)[kernel] = MatmulProgram(p[c])
    /\ IsPlan(p[c]) /\ Len(p[c]) = m
    /\ p[c][q].stores = S[c]
    /\ \A i \in 1 .. m : i # q => p[c][i].stores = {}

\* One segment of the plans does all: the check passes.
LEMMA DealtRight ==
  ASSUME MatmulTest, NEW m \in Nat, NEW q \in 1 .. m, NEW p, NEW S, DealtOnce(ncores, S),
         StoresIn(q, m, p, S)
  PROVE  PlansRight
<1> DEFINE n == ncores
<1>1. Cores = 0 .. (n - 1)
  BY DEF Cores
<1>2. \A c \in 0 .. (n - 1) : /\ p[c][q].stores = S[c]
                             /\ \A i \in 1 .. m : i # q => p[c][i].stores = {}
  BY <1>1 DEF StoresIn
<1> HIDE DEF n
<1>3. DealtOnce(n, S)
  BY DEF n
<1>4. ASSUME NEW c \in 0 .. (n - 1), NEW i \in 1 .. m, NEW b \in p[c][i].stores
      PROVE  i = q /\ b \in S[c]
  BY <1>2
<1>5. \A c \in 0 .. (n - 1) : p[c][q].stores = S[c]
  BY <1>2
<1>7. \A r, col, t \in All :
        \E c \in 0 .. (n - 1) : \E b \in S[c] :
          /\ Adds(b, r, col, t)
          /\ \A d \in 0 .. (n - 1) : \A e \in S[d] : Adds(e, r, col, t) => d = c /\ e = b
  BY <1>3 DEF DealtOnce
<1>6. AddedOnce(n, m, p)
  <2>1. ASSUME NEW c \in 0 .. (n - 1), NEW i \in 1 .. m, NEW b \in p[c][i].stores
        PROVE  b.terms \subseteq All /\ b.terms # {} /\ (b.op # "set" \/ b.terms = All)
    BY <1>3, <1>4 DEF DealtOnce
  <2>2. ASSUME NEW r \in All, NEW col \in All, NEW t \in All
        PROVE  \E c \in 0 .. (n - 1), i \in 1 .. m : \E b \in p[c][i].stores :
                 /\ Adds(b, r, col, t)
                 /\ \A d \in 0 .. (n - 1), j \in 1 .. m : \A e \in p[d][j].stores :
                      Adds(e, r, col, t) => d = c /\ j = i /\ e = b
    <3>1. PICK c \in 0 .. (n - 1) : \E b \in S[c] :
            /\ Adds(b, r, col, t)
            /\ \A d \in 0 .. (n - 1) : \A e \in S[d] : Adds(e, r, col, t) => d = c /\ e = b
      BY <1>7
    <3>2. PICK b \in S[c] :
            /\ Adds(b, r, col, t)
            /\ \A d \in 0 .. (n - 1) : \A e \in S[d] : Adds(e, r, col, t) => d = c /\ e = b
      BY <3>1
    <3>3. b \in p[c][q].stores
      BY <1>5
    <3>4. ASSUME NEW d \in 0 .. (n - 1), NEW j \in 1 .. m, NEW e \in p[d][j].stores,
                 Adds(e, r, col, t)
          PROVE  d = c /\ j = q /\ e = b
      BY <1>4, <3>2, <3>4
    <3> QED
      BY <3>2, <3>3, <3>4
  <2> QED
    BY <2>1, <2>2 DEF AddedOnce
<1> QED
  BY <1>6, OnceRight DEF MatmulTest, StoresIn, n

\* The same, for a plan of one segment.
LEMMA OneSegmentRight ==
  ASSUME MatmulTest, NEW S, DealtOnce(ncores, S),
         \A c \in Cores : Linked(c, ncores)[kernel] = MatmulProgram(<<Seg(S[c])>>)
  PROVE  PlansRight
<1> DEFINE p == [c \in Cores |-> <<Seg(S[c])>>]
<1>1. ASSUME NEW c \in Cores
      PROVE  /\ Linked(c, ncores)[kernel] = MatmulProgram(p[c])
             /\ IsPlan(p[c]) /\ Len(p[c]) = 1
             /\ p[c][1].stores = S[c]
  <2>1. p[c] = <<Seg(S[c])>>
    OBVIOUS
  <2>2. Seg(S[c]).stores = S[c]
    BY DEF Seg, Segment
  <2> HIDE DEF p
  <2>3. IsPlan(p[c]) /\ Len(p[c]) = 1 /\ p[c][1] = Seg(S[c])
    BY <2>1, PlanOne
  <2> QED
    BY <2>1, <2>2, <2>3
<1> HIDE DEF p
<1>2. PICK m \in Nat : m = 1
  OBVIOUS
<1>3. PICK q \in 1 .. m : q = 1
  BY <1>2
<1>4. StoresIn(q, m, p, S)
  <2>1. \A i \in 1 .. m : i = q
    BY <1>2, <1>3
  <2> QED
    BY <1>1, <1>2, <1>3, <2>1 DEF StoresIn
<1> QED
  BY <1>4, DealtRight, Zenon

\* Each element of D is in one of the n sets.
Partition(D, n, R) ==
  \A x \in D : \E c \in 0 .. (n - 1) : \A d \in 0 .. (n - 1) : x \in R[d] <=> d = c

LEMMA AllNotEmpty == 0 \in All
BY LdaAssumption DEF All

\* A block of whole rows, or of whole columns, for each core.
LEMMA RowsDealt ==
  ASSUME NEW n \in Nat \ {0}, NEW R, Partition(All, n, R), NEW op, NEW stride, NEW S,
         \A c \in 0 .. (n - 1) : S[c] = {Block(op, stride, R[c], All, All)}
  PROVE  DealtOnce(n, S)
<1> DEFINE b(c) == Block(op, stride, R[c], All, All)
<1>1. \A c : b(c).rows = R[c] /\ b(c).cols = All /\ b(c).terms = All
  BY DEF Block
<1>2. \A c \in 0 .. (n - 1) : S[c] = {b(c)}
  OBVIOUS
<1> HIDE DEF b
<1>3. \A r, col, t \in All : \A c : Adds(b(c), r, col, t) <=> r \in R[c]
  BY <1>1 DEF Adds
<1>4. ASSUME NEW r \in All, NEW col \in All, NEW t \in All
      PROVE  \E c \in 0 .. (n - 1) : \E e \in S[c] :
               /\ Adds(e, r, col, t)
               /\ \A d \in 0 .. (n - 1) : \A f \in S[d] : Adds(f, r, col, t) => d = c /\ f = e
  <2>1. PICK c \in 0 .. (n - 1) : \A d \in 0 .. (n - 1) : r \in R[d] <=> d = c
    BY DEF Partition
  <2>2. b(c) \in S[c] /\ Adds(b(c), r, col, t)
    BY <1>2, <1>3, <2>1
  <2>3. \A d \in 0 .. (n - 1) : \A f \in S[d] : Adds(f, r, col, t) => d = c /\ f = b(c)
    BY <1>2, <1>3, <2>1
  <2> QED
    BY <2>2, <2>3
<1>5. \A c \in 0 .. (n - 1) : \A e \in S[c] :
        e.terms \subseteq All /\ e.terms # {} /\ (e.op # "set" \/ e.terms = All)
  BY <1>1, <1>2, AllNotEmpty
<1> QED
  BY <1>4, <1>5 DEF DealtOnce

\* The same, for columns.
LEMMA ColumnsDealt ==
  ASSUME NEW n \in Nat \ {0}, NEW R, Partition(All, n, R), NEW op, NEW stride, NEW S,
         \A c \in 0 .. (n - 1) : S[c] = {Block(op, stride, All, R[c], All)}
  PROVE  DealtOnce(n, S)
<1> DEFINE b(c) == Block(op, stride, All, R[c], All)
<1>1. \A c : b(c).rows = All /\ b(c).cols = R[c] /\ b(c).terms = All
  BY DEF Block
<1>2. \A c \in 0 .. (n - 1) : S[c] = {b(c)}
  OBVIOUS
<1> HIDE DEF b
<1>3. \A r, col, t \in All : \A c : Adds(b(c), r, col, t) <=> col \in R[c]
  BY <1>1 DEF Adds
<1>4. ASSUME NEW r \in All, NEW col \in All, NEW t \in All
      PROVE  \E c \in 0 .. (n - 1) : \E e \in S[c] :
               /\ Adds(e, r, col, t)
               /\ \A d \in 0 .. (n - 1) : \A f \in S[d] : Adds(f, r, col, t) => d = c /\ f = e
  <2>1. PICK c \in 0 .. (n - 1) : \A d \in 0 .. (n - 1) : col \in R[d] <=> d = c
    BY DEF Partition
  <2>2. b(c) \in S[c] /\ Adds(b(c), r, col, t)
    BY <1>2, <1>3, <2>1
  <2>3. \A d \in 0 .. (n - 1) : \A f \in S[d] : Adds(f, r, col, t) => d = c /\ f = b(c)
    BY <1>2, <1>3, <2>1
  <2> QED
    BY <2>2, <2>3
<1>5. \A c \in 0 .. (n - 1) : \A e \in S[c] :
        e.terms \subseteq All /\ e.terms # {} /\ (e.op # "set" \/ e.terms = All)
  BY <1>1, <1>2, AllNotEmpty
<1> QED
  BY <1>4, <1>5 DEF DealtOnce

\* The blocks of two cores, all of them left to the only core if there is one.
BlocksOnce(B) ==
  /\ \A b \in B : b.terms \subseteq All /\ b.terms # {} /\ (b.op # "set" \/ b.terms = All)
  /\ \A r, col, t \in All :
       \E b \in B : Adds(b, r, col, t) /\ \A e \in B : Adds(e, r, col, t) => e = b

\* Two cores that share such a set of blocks, or one core that stores it all.
LEMMA SplitDealt ==
  ASSUME NEW n \in Nat \ {0}, NEW F, NEW G, BlocksOnce(F \cup G), F \cap G = {}, NEW S,
         \A c \in 0 .. (n - 1) : S[c] = Split(c, n, F, G)
  PROVE  DealtOnce(n, S)
<1>1. \A c \in 0 .. (n - 1) : S[c] = (IF c = 0 THEN F ELSE {}) \cup (IF c = 1 \/ n = 1 THEN G ELSE {})
  BY DEF Split
<1>2. ASSUME NEW b \in F \cup G
      PROVE  \E c \in 0 .. (n - 1) : b \in S[c]
  <2>1. CASE b \in F
    BY <1>1, <2>1
  <2>2. CASE b \in G /\ n = 1
    BY <1>1, <2>2
  <2>3. CASE b \in G /\ n # 1
    <3>1. 1 \in 0 .. (n - 1)
      BY <2>3
    <3> QED
      BY <1>1, <2>3, <3>1
  <2> QED
    BY <2>1, <2>2, <2>3
<1>3. \A c \in 0 .. (n - 1) : S[c] \subseteq F \cup G
  BY <1>1
<1>4. ASSUME NEW c \in 0 .. (n - 1), NEW d \in 0 .. (n - 1), NEW b \in S[c], b \in S[d]
      PROVE  c = d
  <2>1. c \in {0, 1} /\ d \in {0, 1}
    BY <1>1, <1>4
  <2>2. CASE n = 1
    BY <2>2
  <2>3. CASE n # 1
    <3>1. c = 0 /\ d = 1 => FALSE
      BY <1>1, <1>4, <2>3
    <3>2. c = 1 /\ d = 0 => FALSE
      BY <1>1, <1>4, <2>3
    <3> QED
      BY <2>1, <3>1, <3>2
  <2> QED
    BY <2>2, <2>3
<1>5. ASSUME NEW r \in All, NEW col \in All, NEW t \in All
      PROVE  \E c \in 0 .. (n - 1) : \E e \in S[c] :
               /\ Adds(e, r, col, t)
               /\ \A d \in 0 .. (n - 1) : \A f \in S[d] : Adds(f, r, col, t) => d = c /\ f = e
  <2>1. PICK b \in F \cup G : Adds(b, r, col, t) /\ \A e \in F \cup G : Adds(e, r, col, t) => e = b
    BY DEF BlocksOnce
  <2>2. PICK c \in 0 .. (n - 1) : b \in S[c]
    BY <1>2
  <2>3. ASSUME NEW d \in 0 .. (n - 1), NEW f \in S[d], Adds(f, r, col, t) PROVE d = c /\ f = b
    BY <1>3, <1>4, <2>1, <2>2, <2>3
  <2> QED
    BY <2>1, <2>2, <2>3
<1> QED
  BY <1>3, <1>5 DEF DealtOnce, BlocksOnce

-----------------------------------------------------------------------------
(* The work is divided without a rest                                      *)

\* Every number is in one core's turn, and every number in one core's groups.
LEMMA InTurn ==
  ASSUME NEW n \in Nat \ {0}, NEW x \in Nat
  PROVE  \E c \in 0 .. (n - 1) : x \in Turn(c, n)
<1>1. PICK q \in Nat : x = n * q + (x % n)
  BY Division
<1>2. x % n \in 0 .. (n - 1) /\ n * q \in Nat
  OBVIOUS
<1>3. x = (x % n) + n * q
  BY <1>1, <1>2
<1> QED
  BY <1>2, <1>3 DEF Turn

\* A number is in the groups of some core.
LEMMA InGroup ==
  ASSUME NEW n \in Nat \ {0}, NEW w \in {4, 16}, NEW x \in Nat
  PROVE  \E c \in 0 .. (n - 1) : x \in Groups(c, n, w)
<1>1. PICK a \in Nat : x \in (w * a) .. (w * a + w - 1)
  <2>1. x \div w \in Nat /\ x \in (w * (x \div w)) .. (w * (x \div w) + w - 1)
    <3>1. CASE w = 4
      BY <3>1
    <3>2. CASE w = 16
      BY <3>2
    <3> QED
      BY <3>1, <3>2
  <2> QED
    BY <2>1
<1>2. PICK c \in 0 .. (n - 1) : a \in Turn(c, n)
  BY InTurn
<1> QED
  BY <1>1, <1>2 DEF Groups

\* Dealing everything out makes a partition.
LEMMA TurnsCover ==
  ASSUME NEW n \in Nat \ {0}, NEW D, D \subseteq Nat, NEW R,
         \A c \in 0 .. (n - 1) : R[c] \subseteq Turn(c, n) /\ D \cap Turn(c, n) \subseteq R[c]
  PROVE  Partition(D, n, R)
<1> SUFFICES ASSUME NEW x \in D
             PROVE  \E c \in 0 .. (n - 1) : \A d \in 0 .. (n - 1) : x \in R[d] <=> d = c
  BY DEF Partition
<1>1. PICK c \in 0 .. (n - 1) : x \in Turn(c, n)
  BY InTurn
<1>2. ASSUME NEW d \in 0 .. (n - 1), x \in R[d] PROVE d = c
  <2> SUFFICES ASSUME d # c PROVE FALSE
    OBVIOUS
  <2>1. R[c] \cap R[d] = {}
    BY TurnsApart
  <2> QED
    BY <1>1, <1>2, <2>1
<1> QED
  BY <1>1, <1>2

\* Sets that hold a core's groups, as far as D goes, cut D up.
LEMMA GroupsCover ==
  ASSUME NEW n \in Nat \ {0}, NEW w \in {4, 16}, NEW D, D \subseteq Nat, NEW R,
         \A c \in 0 .. (n - 1) : R[c] \subseteq Groups(c, n, w) /\ D \cap Groups(c, n, w) \subseteq R[c]
  PROVE  Partition(D, n, R)
<1> SUFFICES ASSUME NEW x \in D
             PROVE  \E c \in 0 .. (n - 1) : \A d \in 0 .. (n - 1) : x \in R[d] <=> d = c
  BY DEF Partition
<1>1. PICK c \in 0 .. (n - 1) : x \in Groups(c, n, w)
  BY InGroup
<1>2. ASSUME NEW d \in 0 .. (n - 1), x \in R[d] PROVE d = c
  <2> SUFFICES ASSUME d # c PROVE FALSE
    OBVIOUS
  <2>1. R[c] \cap R[d] = {}
    BY GroupSetsApart
  <2> QED
    BY <1>1, <1>2, <2>1
<1> QED
  BY <1>1, <1>2

\* What a loop that deals out m elements takes in the turn at i.
Ahead(i, m, n) == {i + j * n : j \in 0 .. (m - 1)}

\* A loop that deals out m elements, or groups of w, in each turn gets to all of its
\* core's.
LEMMA TurnReached ==
  ASSUME NEW n \in Nat \ {0}, NEW c \in 0 .. (n - 1), NEW m \in Nat \ {0}, NEW hi \in Nat,
         NEW x \in Turn(c, n), x < hi
  PROVE  \E i \in Strided(c, hi, m * n) : x \in Ahead(i, m, n)
<1>1. PICK k \in Nat : x = c + n * k
  BY DEF Turn
<1>2. PICK q \in Nat : k = m * q + (k % m)
  BY Division
<1>3. PICK j \in 0 .. (m - 1) : j = k % m
  OBVIOUS
<1>4. PICK s \in Nat \ {0} : s = m * n
  OBVIOUS
<1>5. n * k = s * q + j * n
  <2>1. n * (m * q + j) = (m * n) * q + j * n
    OBVIOUS
  <2> QED
    BY <1>2, <1>3, <1>4, <2>1
<1>6. PICK y \in Nat : y = s * q
  OBVIOUS
<1>7. y % s = 0
  BY <1>6, MultipleOf
<1>8. j * n \in Nat
  OBVIOUS
<1>9. x = (c + y) + j * n
  BY <1>1, <1>5, <1>6, <1>8
<1>10. c + y \in Strided(c, hi, s)
  BY <1>7, <1>8, <1>9 DEF Strided
<1>11. x \in Ahead(c + y, m, n)
  BY <1>9 DEF Ahead
<1> QED
  BY <1>4, <1>10, <1>11

\* A loop with m groups in a turn reaches every number of its groups.
LEMMA GroupReached ==
  ASSUME NEW n \in Nat \ {0}, NEW c \in 0 .. (n - 1), NEW w \in {4, 16}, NEW m \in {1, 2},
         NEW hi \in Nat, NEW x \in Groups(c, n, w), x < hi
  PROVE  \E j \in 0 .. (m - 1), i \in Strided(w * c, hi, (w * m) * n) :
           x \in (i + j * (w * n)) .. (i + j * (w * n) + w - 1)
<1>1. PICK a \in Turn(c, n) : x \in (w * a) .. (w * a + w - 1)
  BY DEF Groups
<1>2. PICK k \in Nat : a = c + n * k
  BY DEF Turn
<1>3. PICK q \in Nat : k = m * q + (k % m)
  <2>1. m \in Nat \ {0}
    OBVIOUS
  <2> QED
    BY <2>1, Division
<1>4. PICK j \in 0 .. (m - 1) : j = k % m
  OBVIOUS
<1>5. PICK s \in Nat \ {0} : s = (w * m) * n
  OBVIOUS
<1>6. w * a = w * c + s * q + j * (w * n)
  <2>1. w * (c + n * (m * q + j)) = w * c + ((w * m) * n) * q + j * (w * n)
    <3>1. CASE w = 4 /\ m = 1
      BY <3>1
    <3>2. CASE w = 4 /\ m = 2
      BY <3>2
    <3>3. CASE w = 16 /\ m = 1
      BY <3>3
    <3>4. CASE w = 16 /\ m = 2
      BY <3>4
    <3> QED
      BY <3>1, <3>2, <3>3, <3>4
  <2> QED
    BY <1>2, <1>3, <1>4, <1>5, <2>1
<1>7. PICK y \in Nat : y = s * q
  OBVIOUS
<1>8. y % s = 0
  BY <1>7, MultipleOf
<1>9. PICK b \in Nat : b = w * c
  OBVIOUS
<1>10. PICK z \in Nat : z = j * (w * n)
  <2>1. j * (w * n) \in Nat
    OBVIOUS
  <2> QED
    BY <2>1
<1>11. x \in (b + y + z) .. (b + y + z + w - 1)
  BY <1>1, <1>6, <1>7, <1>9, <1>10
<1>12. b + y \in Strided(b, hi, s)
  BY <1>8, <1>11 DEF Strided
<1> QED
  BY <1>5, <1>9, <1>10, <1>11, <1>12

\* The blocks of rows, the single rows and columns, and the groups.
LEMMA OwnPartition ==
  ASSUME NEW n \in Nat \ {0}, Lda % n = 0
  PROVE  Partition(All, n, [c \in 0 .. (n - 1) |-> Own(c, n)])
<1> DEFINE R == [c \in 0 .. (n - 1) |-> Own(c, n)]
<1>1. \A c \in 0 .. (n - 1) : R[c] = Own(c, n)
  OBVIOUS
<1> HIDE DEF R
<1>2. Partition(All, n, R)
  BY <1>1, OwnCover DEF Partition
<1> QED
  BY <1>2 DEF R

\* Loops of two, or of four, single rows a turn.
LEMMA TurnPartitions ==
  ASSUME NEW n \in Nat \ {0}
  PROVE  /\ Partition(All, n, [c \in 0 .. (n - 1) |->
                                 UNION {{i, i + n} : i \in Strided(c, Lda, 2 * n)}])
         /\ Partition(All, n, [c \in 0 .. (n - 1) |->
                                 UNION {{j, j + n, j + 2 * n, j + 3 * n} :
                                          j \in Strided(c, Lda, 4 * n)}])
         /\ Partition(0 .. (DataSize - 1), n, [c \in 0 .. (n - 1) |-> vvadd2(c, n)])
<1> DEFINE two(c, hi) == UNION {{i, i + n} : i \in Strided(c, hi, 2 * n)}
           four(c) == UNION {{j, j + n, j + 2 * n, j + 3 * n} : j \in Strided(c, Lda, 4 * n)}
<1>1. Lda \in Nat /\ DataSize \in Nat
  BY LdaAssumption, DataSizeAssumption
<1>2. ASSUME NEW c \in 0 .. (n - 1), NEW hi \in Nat, NEW x \in 0 .. (hi - 1), x \in Turn(c, n)
      PROVE  x \in two(c, hi)
  <2>1. 2 \in Nat \ {0} /\ x < hi
    OBVIOUS
  <2>2. PICK i \in Strided(c, hi, 2 * n) : x \in Ahead(i, 2, n)
    BY <1>2, <2>1, TurnReached, Zenon
  <2>3. i \in Int
    BY DEF Strided
  <2>4. x = i \/ x = i + n
    <3>1. PICK j \in 0 .. (2 - 1) : x = i + j * n
      BY <2>2 DEF Ahead
    <3>2. j = 0 \/ j = 1
      OBVIOUS
    <3> QED
      BY <2>3, <3>1, <3>2
  <2> QED
    BY <2>4
<1>3. ASSUME NEW c \in 0 .. (n - 1), NEW hi \in Nat, hi = Lda, NEW x \in 0 .. (hi - 1),
             x \in Turn(c, n)
      PROVE  x \in four(c)
  <2>1. 4 \in Nat \ {0} /\ x < hi
    OBVIOUS
  <2>2. PICK i \in Strided(c, hi, 4 * n) : x \in Ahead(i, 4, n)
    BY <1>3, <2>1, TurnReached, Zenon
  <2>3. i \in Int
    BY DEF Strided
  <2>4. x = i \/ x = i + n \/ x = i + 2 * n \/ x = i + 3 * n
    <3>1. PICK j \in 0 .. (4 - 1) : x = i + j * n
      BY <2>2 DEF Ahead
    <3>2. j = 0 \/ j = 1 \/ j = 2 \/ j = 3
      OBVIOUS
    <3> QED
      BY <2>3, <3>1, <3>2
  <2> QED
    BY <1>3, <2>4
<1>4. \A c \in 0 .. (n - 1) : /\ two(c, Lda) \subseteq Turn(c, n)
                             /\ two(c, DataSize) \subseteq Turn(c, n)
                             /\ four(c) \subseteq Turn(c, n)
  BY Dealt
<1> HIDE DEF two, four
<1>5. All \subseteq Nat /\ 0 .. (DataSize - 1) \subseteq Nat
  BY DEF All
<1> DEFINE A == [c \in 0 .. (n - 1) |-> two(c, Lda)]
           B == [c \in 0 .. (n - 1) |-> four(c)]
           C == [c \in 0 .. (n - 1) |-> two(c, DataSize)]
<1>6. Partition(All, n, A)
  <2>1. \A c \in 0 .. (n - 1) : A[c] \subseteq Turn(c, n) /\ All \cap Turn(c, n) \subseteq A[c]
    BY <1>1, <1>2, <1>4 DEF All
  <2> HIDE DEF A
  <2> QED
    BY <1>5, <2>1, TurnsCover
<1>7. Partition(All, n, B)
  <2>1. \A c \in 0 .. (n - 1) : B[c] \subseteq Turn(c, n) /\ All \cap Turn(c, n) \subseteq B[c]
    BY <1>1, <1>3, <1>4 DEF All
  <2> HIDE DEF B
  <2> QED
    BY <1>5, <2>1, TurnsCover
<1>8. Partition(0 .. (DataSize - 1), n, C)
  <2>1. \A c \in 0 .. (n - 1) : /\ C[c] \subseteq Turn(c, n)
                               /\ (0 .. (DataSize - 1)) \cap Turn(c, n) \subseteq C[c]
    BY <1>1, <1>2, <1>4
  <2> HIDE DEF C
  <2> QED
    BY <1>5, <2>1, TurnsCover
<1>9. \A c : vvadd2(c, n) = two(c, DataSize)
  BY DEF vvadd2, two
<1> QED
  BY <1>6, <1>7, <1>8, <1>9 DEF two, four

\* Loops of groups of four, or of sixteen.
LEMMA GroupPartitions ==
  ASSUME NEW n \in Nat \ {0}
  PROVE  /\ Partition(All, n, [c \in 0 .. (n - 1) |->
                                 UNION {j .. (j + 3) : j \in Strided(4 * c, Lda, 4 * n)}])
         /\ Partition(All, n, [c \in 0 .. (n - 1) |->
                                 (UNION {jj .. (jj + 15) : jj \in Strided(16 * c, Lda, 16 * n)})
                                   \cap All])
         /\ Lda % 4 = 0 =>
              Partition(All, n,
                        [c \in 0 .. (n - 1) |->
                           UNION {Unrolled(jj, IF jj + 16 < Lda THEN jj + 16 ELSE Lda, 4) :
                                    jj \in Strided(16 * c, Lda, 16 * n)}])
         /\ Partition(0 .. (DataSize - 1), n, [c \in 0 .. (n - 1) |-> vvadd1(c, n)])
<1> DEFINE four(c) == UNION {j .. (j + 3) : j \in Strided(4 * c, Lda, 4 * n)}
           sixteen(c) == UNION {jj .. (jj + 15) : jj \in Strided(16 * c, Lda, 16 * n)}
           cut(c) == UNION {Unrolled(jj, IF jj + 16 < Lda THEN jj + 16 ELSE Lda, 4) :
                              jj \in Strided(16 * c, Lda, 16 * n)}
<1>1. Lda \in Nat /\ DataSize \in Nat
  BY LdaAssumption, DataSizeAssumption
<1>2. ASSUME NEW w \in {4, 16}, NEW c \in 0 .. (n - 1), NEW x \in All, x \in Groups(c, n, w)
      PROVE  \E i \in Strided(w * c, Lda, w * n) : x \in i .. (i + w - 1)
  <2>1. 1 \in {1, 2} /\ x < Lda /\ w * 1 = w
    BY <1>1 DEF All
  <2>2. PICK j \in 0 .. (1 - 1), i \in Strided(w * c, Lda, (w * 1) * n) :
          x \in (i + j * (w * n)) .. (i + j * (w * n) + w - 1)
    BY <1>1, <1>2, <2>1, GroupReached
  <2>3. i \in Int /\ j = 0 /\ i \in Strided(w * c, Lda, w * n)
    BY <2>1 DEF Strided
  <2>4. 0 * (w * n) = 0
    OBVIOUS
  <2>5. x \in i .. (i + w - 1)
    BY <2>2, <2>3, <2>4
  <2> QED
    BY <2>3, <2>5
<1>3. \A c \in 0 .. (n - 1) : All \cap Groups(c, n, 4) \subseteq four(c)
  BY <1>2
<1>4. \A c \in 0 .. (n - 1) : All \cap Groups(c, n, 16) \subseteq sixteen(c) \cap All
  BY <1>2
<1>5. ASSUME Lda % 4 = 0, NEW c \in 0 .. (n - 1), NEW x \in All, x \in Groups(c, n, 16)
      PROVE  x \in cut(c)
  <2>1. PICK jj \in Strided(16 * c, Lda, 16 * n) : x \in jj .. (jj + 16 - 1)
    BY <1>2, <1>5
  <2> DEFINE hi == IF jj + 16 < Lda THEN jj + 16 ELSE Lda
  <2>2. jj \in Nat /\ jj < Lda /\ jj % 4 = 0
    <3>1. PICK s \in Nat \ {0} : s = 16 * n
      OBVIOUS
    <3>2. PICK lo \in Nat : lo = 16 * c
      OBVIOUS
    <3>3. jj \in Strided(lo, Lda, s) /\ Lda \in Int
      BY <1>1, <3>1, <3>2
    <3>7. jj \in Nat /\ jj < Lda /\ \E k \in Nat : jj = lo + s * k
      BY <3>3, StridedForm
    <3>4. PICK k \in Nat : jj = 16 * c + s * k
      BY <3>2, <3>7
    <3>5. PICK z \in Nat : z = n * k
      OBVIOUS
    <3>6. s * k = 16 * z
      BY <3>1, <3>5
    <3> QED
      BY <3>7, <3>4, <3>6
  <2>3. hi \in Nat /\ jj <= hi /\ (hi - jj) % 4 = 0 /\ x \in jj .. (hi - 1)
    BY <1>1, <1>5, <2>1, <2>2 DEF All
  <2> HIDE DEF hi
  <2>4. Unrolled(jj, hi, 4) = jj .. (hi - 1)
    <3>1. 4 \in Nat \ {0}
      OBVIOUS
    <3> QED
      BY <2>2, <2>3, <3>1, EvenTurns
  <2>5. x \in Unrolled(jj, hi, 4)
    BY <2>3, <2>4
  <2> QED
    BY <2>5 DEF hi
<1>6. ASSUME NEW c \in 0 .. (n - 1), NEW x \in 0 .. (DataSize - 1), x \in Groups(c, n, 4)
      PROVE  x \in vvadd1(c, n)
  <2>1. 2 \in {1, 2} /\ x < DataSize /\ 4 * 2 = 8
    BY <1>1
  <2>2. PICK j \in 0 .. (2 - 1), i \in Strided(4 * c, DataSize, (4 * 2) * n) :
          x \in (i + j * (4 * n)) .. (i + j * (4 * n) + 4 - 1)
    BY <1>1, <1>6, <2>1, GroupReached
  <2>3. i \in Int /\ (j = 0 \/ j = 1) /\ i \in Strided(c * 4, DataSize, 8 * n)
    BY <2>1 DEF Strided
  <2>4. x \in i .. (i + 3) \/ x \in (i + n * 4) .. (i + n * 4 + 3)
    <3>1. 0 * (4 * n) = 0 /\ 1 * (4 * n) = n * 4
      OBVIOUS
    <3> QED
      BY <2>2, <2>3, <3>1
  <2> QED
    BY <2>3, <2>4 DEF vvadd1
<1>7. \A c \in 0 .. (n - 1) : /\ four(c) \subseteq Groups(c, n, 4)
                             /\ sixteen(c) \cap All \subseteq Groups(c, n, 16)
                             /\ cut(c) \subseteq Groups(c, n, 16)
                             /\ vvadd1(c, n) \subseteq Groups(c, n, 4)
  BY DealtInGroups
<1> HIDE DEF four, sixteen, cut
<1>8. All \subseteq Nat /\ 0 .. (DataSize - 1) \subseteq Nat
  BY DEF All
<1>9. 4 \in {4, 16} /\ 16 \in {4, 16}
  OBVIOUS
<1> DEFINE A == [c \in 0 .. (n - 1) |-> four(c)]
           B == [c \in 0 .. (n - 1) |-> sixteen(c) \cap All]
           C == [c \in 0 .. (n - 1) |-> cut(c)]
           E == [c \in 0 .. (n - 1) |-> vvadd1(c, n)]
<1>10. Partition(All, n, A)
  <2>1. \A c \in 0 .. (n - 1) : A[c] \subseteq Groups(c, n, 4) /\ All \cap Groups(c, n, 4) \subseteq A[c]
    BY <1>3, <1>7
  <2> HIDE DEF A
  <2> QED
    BY <1>8, <1>9, <2>1, GroupsCover
<1>11. Partition(All, n, B)
  <2>1. \A c \in 0 .. (n - 1) : /\ B[c] \subseteq Groups(c, n, 16)
                               /\ All \cap Groups(c, n, 16) \subseteq B[c]
    BY <1>4, <1>7
  <2> HIDE DEF B
  <2> QED
    BY <1>8, <1>9, <2>1, GroupsCover
<1>12. Lda % 4 = 0 => Partition(All, n, C)
  <2> SUFFICES ASSUME Lda % 4 = 0 PROVE Partition(All, n, C)
    OBVIOUS
  <2>1. \A c \in 0 .. (n - 1) : /\ C[c] \subseteq Groups(c, n, 16)
                               /\ All \cap Groups(c, n, 16) \subseteq C[c]
    BY <1>5, <1>7
  <2> HIDE DEF C
  <2> QED
    BY <1>8, <1>9, <2>1, GroupsCover
<1>13. Partition(0 .. (DataSize - 1), n, E)
  <2>1. \A c \in 0 .. (n - 1) : /\ E[c] \subseteq Groups(c, n, 4)
                               /\ (0 .. (DataSize - 1)) \cap Groups(c, n, 4) \subseteq E[c]
    BY <1>6, <1>7
  <2> HIDE DEF E
  <2> QED
    BY <1>8, <1>9, <2>1, GroupsCover
<1> QED
  BY <1>10, <1>11, <1>12, <1>13 DEF four, sixteen, cut

-----------------------------------------------------------------------------
(* The kernels whose results are right                                     *)

\* The plans of a block of whole rows and of a block of whole columns.
WholeRows(op, R)    == <<Seg({Block(op, Lda, R, All, All)})>>
WholeColumns(op, C) == <<Seg({Block(op, Lda, All, C, All)})>>

\* The columns of ck, in blocks of sixteen.
LEMMA BlocksOfSixteen ==
  ASSUME Lda % 2 = 0
  PROVE  UNION {Unrolled(ii, IF ii + 16 < Lda THEN ii + 16 ELSE Lda, 2) :
                  ii \in Strided(0, Lda, 16)} = All
<1> DEFINE hi(ii) == IF ii + 16 < Lda THEN ii + 16 ELSE Lda
<1>1. Lda \in Nat /\ 2 \in Nat \ {0}
  BY Products
<1>2. ASSUME NEW ii \in Strided(0, Lda, 16)
      PROVE  ii \in Nat /\ Unrolled(ii, hi(ii), 2) = ii .. (hi(ii) - 1)
  <2>1. ii \in Nat /\ hi(ii) \in Nat /\ ii <= hi(ii) /\ (hi(ii) - ii) % 2 = 0
    BY <1>1 DEF Strided
  <2> HIDE DEF hi
  <2> QED
    BY <1>1, <2>1, EvenTurns
<1>3. ASSUME NEW ii \in Strided(0, Lda, 16) PROVE Unrolled(ii, hi(ii), 2) \subseteq All
  BY <1>1, <1>2 DEF All
<1>4. ASSUME NEW x \in All
      PROVE  \E ii \in Strided(0, Lda, 16) : x \in Unrolled(ii, hi(ii), 2)
  <2>1. PICK ii \in Nat : ii = 16 * (x \div 16)
    BY DEF All
  <2>2. ii \in Strided(0, Lda, 16) /\ x \in ii .. (hi(ii) - 1)
    BY <1>1, <2>1 DEF Strided, All
  <2> QED
    BY <1>2, <2>2
<1> HIDE DEF hi
<1>5. UNION {Unrolled(ii, hi(ii), 2) : ii \in Strided(0, Lda, 16)} = All
  BY <1>3, <1>4
<1> QED
  BY <1>5 DEF hi

\* The kernels that store one block of rows, or of columns, without a barrier.
LEMMA WholeBlocks ==
  ASSUME NEW n \in Nat \ {0}, NEW c \in 0 .. (n - 1)
  PROVE  /\ Lda % n = 0 =>
              /\ ap_matmul(c, n) = WholeRows("add", Own(c, n))
              /\ ar_matmul(c, n) = WholeRows("add", Own(c, n))
              /\ matmul(c, n) = WholeRows("set", Own(c, n))
              /\ Lda = 32 => do_matmul(c, n) = WholeRows("set", Own(c, n))
              /\ Lda % 4 = 0 /\ Blk(n) % 4 = 0 =>
                   /\ bb_matmul(c, n) = WholeRows("set", Own(c, n))
                   /\ bm_matmul(c, n) = WholeRows("add", Own(c, n))
              /\ Lda = 32 /\ Blk(n) % 2 = 0 =>
                   /\ af_matmul(c, n) = WholeRows("set", Own(c, n))
                   /\ am_matmul(c, n) = WholeRows("set", Own(c, n))
                   /\ du_matmul(c, n) = WholeRows("set", Own(c, n))
              /\ Lda = 32 /\ Blk(n) % 8 = 0 => at_matmul(c, n) = WholeColumns("add", Own(c, n))
         /\ aq_matmul(c, n) =
              WholeColumns("add", UNION {{i, i + n} : i \in Strided(c, Lda, 2 * n)})
         /\ bs_matmul(c, n) =
              WholeRows("add", UNION {{j, j + n, j + 2 * n, j + 3 * n} : j \in Strided(c, Lda, 4 * n)})
         /\ Lda % 4 = 0 =>
              ds_matmul(c, n) =
                WholeRows("add", UNION {j .. (j + 3) : j \in Strided(4 * c, Lda, 4 * n)})
         /\ Lda % 8 = 0 =>
              /\ ak_matmul(c, n) =
                   WholeRows("add", (UNION {jj .. (jj + 15) : jj \in Strided(16 * c, Lda, 16 * n)})
                                      \cap All)
              /\ ck_matmul(c, n) =
                   WholeRows("add", UNION {Unrolled(jj, IF jj + 16 < Lda THEN jj + 16 ELSE Lda, 4) :
                                             jj \in Strided(16 * c, Lda, 16 * n)})
<1>1. Lda \in Nat /\ c \in Nat /\ Blk(n) \in Nat
  BY Products
<1>2. ASSUME NEW s \in {2, 4, 8, 16}, Lda % s = 0 PROVE Unrolled(0, Lda, s) = All
  BY <1>1, <1>2, EvenRanges
<1>3. Lda % 4 = 0 => Lda % 2 = 0
  BY <1>1
<1>4. Lda % 8 = 0 => Lda % 4 = 0 /\ Lda % 2 = 0
  BY <1>1
<1>5. Lda % 16 = 0 => Unrolled(0, Lda, 16) = All
  BY <1>2
<1>6. Lda % 8 = 0 => Unrolled(0, Lda, 8) = All /\ Unrolled(0, Lda, 4) = All
  BY <1>2, <1>4
<1>7. Lda % 4 = 0 => Unrolled(0, Lda, 2) = All /\ Unrolled(0, Lda, 4) = All
  BY <1>2, <1>3
<1>8. Lda = 32 => All = 0 .. 31 /\ Lda % 4 = 0
  BY DEF All
<1>9. ASSUME Lda % n = 0
      PROVE  /\ ap_matmul(c, n) = WholeRows("add", Own(c, n))
             /\ ar_matmul(c, n) = WholeRows("add", Own(c, n))
             /\ matmul(c, n) = WholeRows("set", Own(c, n))
  <2>1. Own(c, n) \cap All = Own(c, n)
    BY OwnInside
  <2> QED
    BY <2>1, Zenon DEF ap_matmul, ar_matmul, matmul, WholeRows, Add, Set
<1>10. ASSUME Lda = 32 PROVE do_matmul(c, n) = WholeRows("set", Own(c, n))
  <2>1. (c * (32 \div n)) .. ((c + 1) * (32 \div n) - 1) = Own(c, n)
    BY <1>10, Zenon DEF Own, Blk
  <2> QED
    BY <1>8, <1>10, <2>1, Zenon DEF do_matmul, WholeRows, Set32
<1>11. ASSUME Lda % n = 0, Lda % 4 = 0, Blk(n) % 4 = 0
       PROVE  /\ bb_matmul(c, n) = WholeRows("set", Own(c, n))
              /\ bm_matmul(c, n) = WholeRows("add", Own(c, n))
  <2>1. Unrolled(c * Blk(n), (c + 1) * Blk(n), 4) = Own(c, n)
    <3>1. 4 \in Nat \ {0}
      OBVIOUS
    <3> QED
      BY <1>1, <1>11, <3>1, EvenRanges
  <2>2. Unrolled(Blk(n) * c, 4 * ((IF c = n - 1 THEN Lda ELSE Blk(n) * (c + 1)) \div 4), 4)
          = Own(c, n)
    BY <1>11, OwnRanges
  <2>3. Unrolled(0, Lda, 2) = All /\ Unrolled(0, Lda, 4) = All
    BY <1>7, <1>11
  <2>4. bb_matmul(c, n) = WholeRows("set", Own(c, n))
    BY <2>1, <2>3, Zenon DEF bb_matmul, WholeRows, Set
  <2>5. bm_matmul(c, n) = WholeRows("add", Own(c, n))
    BY <2>2, <2>3, Zenon DEF bm_matmul, WholeRows, Add
  <2> QED
    BY <2>4, <2>5
<1>12. ASSUME Lda % n = 0, Lda = 32, Blk(n) % 2 = 0
       PROVE  /\ af_matmul(c, n) = WholeRows("set", Own(c, n))
              /\ am_matmul(c, n) = WholeRows("set", Own(c, n))
              /\ du_matmul(c, n) = WholeRows("set", Own(c, n))
  <2>1. 2 \in Nat \ {0} /\ (c + 1) * Lda = Lda * (1 + c)
    BY <1>1
  <2>2. Unrolled((c * Lda) \div n, ((c + 1) * Lda) \div n, 2) = Own(c, n)
    BY <1>12, <2>1, OwnRanges
  <2>3. Unrolled((c * Lda) \div n, (Lda * (1 + c)) \div n, 2) = Own(c, n)
    BY <2>1, <2>2, Zenon
  <2>4. Unrolled((c * 32) \div n, (32 * (1 + c)) \div n, 2) = Own(c, n)
    BY <1>12, <2>3, Zenon
  <2>5. Unrolled(0, Lda, 4) = All /\ All = 0 .. 31
    BY <1>7, <1>8, <1>12
  <2>6. af_matmul(c, n) = WholeRows("set", Own(c, n))
    BY <1>12, <2>3, <2>5, Zenon DEF af_matmul, WholeRows, Set32
  <2>7. am_matmul(c, n) = WholeRows("set", Own(c, n))
    BY <1>12, <2>4, <2>5, Zenon DEF am_matmul, WholeRows, Set32
  <2> QED
    BY <2>6, <2>7, Zenon DEF du_matmul
<1>13. ASSUME Lda % n = 0, Lda = 32, Blk(n) % 8 = 0
       PROVE  at_matmul(c, n) = WholeColumns("add", Own(c, n))
  <2>1. 8 \in Nat \ {0}
    OBVIOUS
  <2>2. Unrolled((c * Lda) \div n, ((c + 1) * Lda) \div n, 8) = Own(c, n)
    BY <1>13, <2>1, OwnRanges
  <2>3. Unrolled(0, Lda, 16) = All
    BY <1>5, <1>13
  <2> QED
    BY <1>13, <2>2, <2>3, Zenon DEF at_matmul, WholeColumns, Add
<1>14. /\ aq_matmul(c, n) =
            WholeColumns("add", UNION {{i, i + n} : i \in Strided(c, Lda, 2 * n)})
       /\ bs_matmul(c, n) =
            WholeRows("add", UNION {{j, j + n, j + 2 * n, j + 3 * n} : j \in Strided(c, Lda, 4 * n)})
  BY Zenon DEF aq_matmul, bs_matmul, WholeRows, WholeColumns, Add
<1>15. ASSUME Lda % 4 = 0
       PROVE  ds_matmul(c, n) =
                WholeRows("add", UNION {j .. (j + 3) : j \in Strided(4 * c, Lda, 4 * n)})
  BY <1>7, <1>15, Zenon DEF ds_matmul, WholeRows, Add
<1>16. ASSUME Lda % 8 = 0
       PROVE  /\ ak_matmul(c, n) =
                   WholeRows("add", (UNION {jj .. (jj + 15) : jj \in Strided(16 * c, Lda, 16 * n)})
                                      \cap All)
              /\ ck_matmul(c, n) =
                   WholeRows("add", UNION {Unrolled(jj, IF jj + 16 < Lda THEN jj + 16 ELSE Lda, 4) :
                                             jj \in Strided(16 * c, Lda, 16 * n)})
  <2>1. Unrolled(0, Lda, 8) = All /\ Unrolled(0, Lda, 4) = All
    BY <1>6, <1>16
  <2>2. UNION {Unrolled(ii, IF ii + 16 < Lda THEN ii + 16 ELSE Lda, 2) :
                 ii \in Strided(0, Lda, 16)} = All
    BY <1>4, <1>16, BlocksOfSixteen
  <2> QED
    BY <2>1, <2>2, Zenon DEF ak_matmul, ck_matmul, WholeRows, Add
<1> QED
  BY <1>9, <1>10, <1>11, <1>12, <1>13, <1>14, <1>15, <1>16

\* A block of whole rows per core, which cut the rows up.
LEMMA WholeRowsRight ==
  ASSUME MatmulTest, NEW R, Partition(All, ncores, R), NEW op,
         \A c \in Cores : Linked(c, ncores)[kernel] = MatmulProgram(WholeRows(op, R[c]))
  PROVE  PlansRight
<1> DEFINE S == [c \in 0 .. (ncores - 1) |-> {Block(op, Lda, R[c], All, All)}]
<1>1. Cores = 0 .. (ncores - 1)
  BY DEF Cores
<1>2. \A c \in 0 .. (ncores - 1) : S[c] = {Block(op, Lda, R[c], All, All)}
  OBVIOUS
<1> HIDE DEF S
<1>3. ncores \in Nat \ {0}
  BY DEF MatmulTest
<1>4. DealtOnce(ncores, S)
  BY <1>2, <1>3, RowsDealt
<1>5. \A c \in Cores : Linked(c, ncores)[kernel] = MatmulProgram(<<Seg(S[c])>>)
  BY <1>1, <1>2, Zenon DEF WholeRows
<1> QED
  BY <1>4, <1>5, OneSegmentRight

\* A block of whole columns per core.
LEMMA WholeColumnsRight ==
  ASSUME MatmulTest, NEW R, Partition(All, ncores, R), NEW op,
         \A c \in Cores : Linked(c, ncores)[kernel] = MatmulProgram(WholeColumns(op, R[c]))
  PROVE  PlansRight
<1> DEFINE S == [c \in 0 .. (ncores - 1) |-> {Block(op, Lda, All, R[c], All)}]
<1>1. Cores = 0 .. (ncores - 1)
  BY DEF Cores
<1>2. \A c \in 0 .. (ncores - 1) : S[c] = {Block(op, Lda, All, R[c], All)}
  OBVIOUS
<1> HIDE DEF S
<1>3. ncores \in Nat \ {0}
  BY DEF MatmulTest
<1>4. DealtOnce(ncores, S)
  BY <1>2, <1>3, ColumnsDealt
<1>5. \A c \in Cores : Linked(c, ncores)[kernel] = MatmulProgram(<<Seg(S[c])>>)
  BY <1>1, <1>2, Zenon DEF WholeColumns
<1> QED
  BY <1>4, <1>5, OneSegmentRight

\* One block of the core's own rows or columns.
LEMMA OwnBlocksRight ==
  ASSUME MatmulTest, Lda % ncores = 0,
         \/ kernel \in {"ap", "ar", "matmul"}
         \/ Lda = 32 /\ kernel = "do"
         \/ Lda % 4 = 0 /\ Blk(ncores) % 4 = 0 /\ kernel \in {"bb", "bm"}
         \/ Lda = 32 /\ Blk(ncores) % 2 = 0 /\ kernel \in {"af", "am", "du"}
         \/ Lda = 32 /\ Blk(ncores) % 8 = 0 /\ kernel = "at"
  PROVE  PlansRight
<1> DEFINE R == [c \in 0 .. (ncores - 1) |-> Own(c, ncores)]
           op == IF kernel \in {"ap", "ar", "bm"} THEN "add" ELSE "set"
<1>1. ncores \in Nat \ {0} /\ Cores = 0 .. (ncores - 1)
  BY DEF MatmulTest, Cores
<1>2. Partition(All, ncores, R)
  BY <1>1, OwnPartition
<1>3. \A c \in Cores : R[c] = Own(c, ncores)
  BY <1>1
<1> HIDE DEF R
<1>4. ASSUME NEW c \in Cores
      PROVE  /\ Linked(c, ncores).ap = MatmulProgram(ap_matmul(c, ncores))
             /\ Linked(c, ncores).ar = MatmulProgram(ar_matmul(c, ncores))
             /\ Linked(c, ncores).matmul = MatmulProgram(matmul(c, ncores))
             /\ Linked(c, ncores).do = MatmulProgram(do_matmul(c, ncores))
             /\ Linked(c, ncores).bb = MatmulProgram(bb_matmul(c, ncores))
             /\ Linked(c, ncores).bm = MatmulProgram(bm_matmul(c, ncores))
             /\ Linked(c, ncores).af = MatmulProgram(af_matmul(c, ncores))
             /\ Linked(c, ncores).am = MatmulProgram(am_matmul(c, ncores))
             /\ Linked(c, ncores).du = MatmulProgram(du_matmul(c, ncores))
             /\ Linked(c, ncores).at = MatmulProgram(at_matmul(c, ncores))
  <2>1. /\ Linked(c, ncores).ap = MatmulProgram(ap_matmul(c, ncores))
        /\ Linked(c, ncores).ar = MatmulProgram(ar_matmul(c, ncores))
        /\ Linked(c, ncores).matmul = MatmulProgram(matmul(c, ncores))
        /\ Linked(c, ncores).do = MatmulProgram(do_matmul(c, ncores))
        /\ Linked(c, ncores).bb = MatmulProgram(bb_matmul(c, ncores))
    BY SMTT(30) DEF Linked
  <2>2. /\ Linked(c, ncores).bm = MatmulProgram(bm_matmul(c, ncores))
        /\ Linked(c, ncores).af = MatmulProgram(af_matmul(c, ncores))
        /\ Linked(c, ncores).am = MatmulProgram(am_matmul(c, ncores))
        /\ Linked(c, ncores).du = MatmulProgram(du_matmul(c, ncores))
        /\ Linked(c, ncores).at = MatmulProgram(at_matmul(c, ncores))
    BY SMTT(30) DEF Linked
  <2> QED
    BY <2>1, <2>2
<1>5. CASE kernel = "at"
  <2>1. ASSUME NEW c \in Cores
        PROVE  at_matmul(c, ncores) = WholeColumns("add", R[c])
    <3>1. at_matmul(c, ncores) = WholeColumns("add", Own(c, ncores))
      BY <1>1, <1>5, WholeBlocks
    <3> QED
      BY <1>3, <3>1
  <2>2. \A c \in Cores : Linked(c, ncores)[kernel] = MatmulProgram(WholeColumns("add", R[c]))
    BY <1>4, <1>5, <2>1
  <2> QED
    BY <1>2, <2>2, WholeColumnsRight
<1>6. CASE kernel # "at"
  <2>1. ASSUME NEW c \in Cores
        PROVE  Linked(c, ncores)[kernel] = MatmulProgram(WholeRows(op, R[c]))
    <3> DEFINE add == WholeRows("add", Own(c, ncores))
               set == WholeRows("set", Own(c, ncores))
    <3>1. /\ ap_matmul(c, ncores) = add /\ ar_matmul(c, ncores) = add
          /\ matmul(c, ncores) = set
          /\ Lda = 32 => do_matmul(c, ncores) = set
          /\ Lda % 4 = 0 /\ Blk(ncores) % 4 = 0 =>
               bb_matmul(c, ncores) = set /\ bm_matmul(c, ncores) = add
          /\ Lda = 32 /\ Blk(ncores) % 2 = 0 =>
               af_matmul(c, ncores) = set /\ am_matmul(c, ncores) = set /\ du_matmul(c, ncores) = set
      BY <1>1, WholeBlocks
    <3>2. WholeRows("add", R[c]) = add /\ WholeRows("set", R[c]) = set
      BY <1>3
    <3> HIDE DEF add, set
    <3> QED
      BY <1>4, <1>6, <3>1, <3>2
  <2> HIDE DEF op
  <2> QED
    BY <1>2, <2>1, WholeRowsRight
<1> QED
  BY <1>5, <1>6

\* One block of the rows or columns dealt to the core.
LEMMA DealtBlocksRight ==
  ASSUME MatmulTest,
         \/ Lda % 4 = 0 /\ kernel = "ds"
         \/ Lda % 8 = 0 /\ kernel \in {"ak", "ck"}
         \/ kernel \in {"aq", "bs"}
  PROVE  PlansRight
<1> DEFINE n == ncores
           two == [c \in 0 .. (n - 1) |-> UNION {{i, i + n} : i \in Strided(c, Lda, 2 * n)}]
           four == [c \in 0 .. (n - 1) |->
                      UNION {{j, j + n, j + 2 * n, j + 3 * n} : j \in Strided(c, Lda, 4 * n)}]
           fours == [c \in 0 .. (n - 1) |-> UNION {j .. (j + 3) : j \in Strided(4 * c, Lda, 4 * n)}]
           sixteens == [c \in 0 .. (n - 1) |->
                          (UNION {jj .. (jj + 15) : jj \in Strided(16 * c, Lda, 16 * n)}) \cap All]
           cut == [c \in 0 .. (n - 1) |->
                     UNION {Unrolled(jj, IF jj + 16 < Lda THEN jj + 16 ELSE Lda, 4) :
                              jj \in Strided(16 * c, Lda, 16 * n)}]
<1>1. n \in Nat \ {0} /\ Cores = 0 .. (n - 1)
  BY DEF MatmulTest, Cores
<1>2. /\ Partition(All, n, two) /\ Partition(All, n, four)
      /\ Partition(All, n, fours) /\ Partition(All, n, sixteens)
      /\ Lda % 4 = 0 => Partition(All, n, cut)
  BY <1>1, TurnPartitions, GroupPartitions
<1>3. Lda % 8 = 0 => Lda % 4 = 0
  <2>1. Lda \in Nat
    BY Products
  <2> QED
    BY <2>1
<1>4. ASSUME NEW c \in Cores
      PROVE  /\ aq_matmul(c, n) = WholeColumns("add", two[c])
             /\ bs_matmul(c, n) = WholeRows("add", four[c])
             /\ Lda % 4 = 0 => ds_matmul(c, n) = WholeRows("add", fours[c])
             /\ Lda % 8 = 0 => /\ ak_matmul(c, n) = WholeRows("add", sixteens[c])
                               /\ ck_matmul(c, n) = WholeRows("add", cut[c])
  BY <1>1, WholeBlocks
<1>5. ASSUME NEW c \in Cores
      PROVE  /\ Linked(c, n).aq = MatmulProgram(aq_matmul(c, n))
             /\ Linked(c, n).bs = MatmulProgram(bs_matmul(c, n))
             /\ Linked(c, n).ds = MatmulProgram(ds_matmul(c, n))
             /\ Linked(c, n).ak = MatmulProgram(ak_matmul(c, n))
             /\ Linked(c, n).ck = MatmulProgram(ck_matmul(c, n))
  BY SMTT(30) DEF Linked
<1> HIDE DEF two, four, fours, sixteens, cut
<1>6. CASE kernel = "aq"
  <2>1. \A c \in Cores : Linked(c, ncores)[kernel] = MatmulProgram(WholeColumns("add", two[c]))
    BY <1>4, <1>5, <1>6
  <2> QED
    BY <1>2, <2>1, WholeColumnsRight
<1>7. CASE kernel = "bs"
  <2>1. \A c \in Cores : Linked(c, ncores)[kernel] = MatmulProgram(WholeRows("add", four[c]))
    BY <1>4, <1>5, <1>7
  <2> QED
    BY <1>2, <2>1, WholeRowsRight
<1>8. CASE kernel = "ds" /\ Lda % 4 = 0
  <2>1. \A c \in Cores : Linked(c, ncores)[kernel] = MatmulProgram(WholeRows("add", fours[c]))
    BY <1>4, <1>5, <1>8
  <2> QED
    BY <1>2, <2>1, WholeRowsRight
<1>9. CASE kernel = "ak" /\ Lda % 8 = 0
  <2>1. \A c \in Cores : Linked(c, ncores)[kernel] = MatmulProgram(WholeRows("add", sixteens[c]))
    BY <1>4, <1>5, <1>9
  <2> QED
    BY <1>2, <2>1, WholeRowsRight
<1>10. CASE kernel = "ck" /\ Lda % 8 = 0
  <2>1. \A c \in Cores : Linked(c, ncores)[kernel] = MatmulProgram(WholeRows("add", cut[c]))
    BY <1>4, <1>5, <1>10
  <2> QED
    BY <1>2, <1>3, <1>10, <2>1, WholeRowsRight
<1> QED
  BY <1>6, <1>7, <1>8, <1>9, <1>10

\* Sets that cut the numbers of the products, or of the rows, into pieces.
Pieces(T) ==
  /\ \A x \in T : x \subseteq All /\ x # {}
  /\ \A t \in All : \E x \in T : t \in x /\ \A y \in T : t \in y => y = x

\* The pieces the kernels cut the products, or the rows, into.
LEMMA PiecesOfAll ==
  /\ Pieces({All})
  /\ Lda = 32 => /\ Pieces({0 .. 15, 16 .. 31}) /\ Pieces({16 .. 31, 0 .. 15})
                 /\ Pieces({KkHalf(kk) : kk \in {0, 16}})
                 /\ Pieces(EightTerms)
  /\ Lda % 2 = 0 => /\ Pieces({LdaHalf(m) : m \in {0, 1}})
                    /\ LdaHalf(0) = 0 .. (Lda \div 2 - 1)
                    /\ LdaHalf(1) = (Lda \div 2) .. (Lda - 1)
<1>1. Lda \in Nat /\ Lda > 0 /\ (Lda = 32 => All = 0 .. 31)
  BY LdaAssumption DEF All
<1>2. Pieces({All})
  BY AllNotEmpty DEF Pieces
<1>3. ASSUME NEW x, NEW y, x \cup y = All, x \cap y = {}, x # {}, y # {}
      PROVE  Pieces({x, y})
  BY <1>3 DEF Pieces
<1>4. ASSUME Lda = 32 PROVE Pieces({0 .. 15, 16 .. 31}) /\ Pieces({16 .. 31, 0 .. 15})
  <2>1. /\ (0 .. 15) \cup (16 .. 31) = All /\ (0 .. 15) \cap (16 .. 31) = {}
        /\ 0 .. 15 # {} /\ 16 .. 31 # {}
    BY <1>1, <1>4
  <2>2. {16 .. 31, 0 .. 15} = {0 .. 15, 16 .. 31}
    OBVIOUS
  <2> QED
    BY <1>3, <2>1, <2>2
<1>5. ASSUME Lda = 32 PROVE Pieces({KkHalf(kk) : kk \in {0, 16}})
  <2>1. KkHalf(0) = 0 .. 15 /\ KkHalf(16) = 16 .. 31
    BY DEF KkHalf
  <2>2. {KkHalf(kk) : kk \in {0, 16}} = {KkHalf(0), KkHalf(16)}
    OBVIOUS
  <2> QED
    BY <1>4, <1>5, <2>1, <2>2
<1>6. ASSUME Lda = 32 PROVE Pieces(EightTerms)
  <2> DEFINE E(m) == (8 * m) .. (8 * m + 7)
  <2>1. \A m \in 0 .. 3 : E(m) \subseteq All /\ E(m) # {}
    <3> TAKE m \in 0 .. 3
    <3>1. 8 * m \in E(m) /\ E(m) \subseteq 0 .. 31
      OBVIOUS
    <3> QED
      BY <1>1, <1>6, <3>1
  <2>2. \A t \in All : t \div 8 \in 0 .. 3 /\ t \in E(t \div 8) /\ \A m \in 0 .. 3 : t \in E(m) => m = t \div 8
    BY <1>1, <1>6
  <2>3. EightTerms = {E(m) : m \in 0 .. 3}
    BY DEF EightTerms
  <2> HIDE DEF E
  <2>4. ASSUME NEW t \in All
        PROVE  \E x \in EightTerms : t \in x /\ \A y \in EightTerms : t \in y => y = x
    <3>1. E(t \div 8) \in EightTerms /\ t \in E(t \div 8)
      BY <2>2, <2>3
    <3>2. \A y \in EightTerms : t \in y => y = E(t \div 8)
      BY <2>2, <2>3
    <3> QED
      BY <3>1, <3>2
  <2> QED
    BY <2>1, <2>3, <2>4 DEF Pieces
<1>7. ASSUME Lda % 2 = 0
      PROVE  /\ Pieces({LdaHalf(m) : m \in {0, 1}})
             /\ LdaHalf(0) = 0 .. (Lda \div 2 - 1)
             /\ LdaHalf(1) = (Lda \div 2) .. (Lda - 1)
  <2>1. LdaHalf(0) = 0 .. (Lda \div 2 - 1) /\ LdaHalf(1) = (Lda \div 2) .. (Lda - 1)
    <3>1. /\ (0 * Lda) \div 2 = 0 /\ ((0 + 1) * Lda) \div 2 = Lda \div 2
          /\ (1 * Lda) \div 2 = Lda \div 2 /\ ((1 + 1) * Lda) \div 2 = Lda
      BY <1>1, <1>7
    <3> QED
      BY <3>1, Zenon DEF LdaHalf
  <2>2. PICK h \in Nat \ {0} : h = Lda \div 2 /\ h < Lda
    BY <1>1, <1>7
  <2>3. /\ (0 .. (h - 1)) \cup (h .. (Lda - 1)) = All /\ (0 .. (h - 1)) \cap (h .. (Lda - 1)) = {}
        /\ 0 .. (h - 1) # {} /\ h .. (Lda - 1) # {}
    <3>1. 0 \in 0 .. (h - 1) /\ h \in h .. (Lda - 1)
      BY <1>1, <2>2
    <3>2. (0 .. (h - 1)) \cup (h .. (Lda - 1)) = All /\ (0 .. (h - 1)) \cap (h .. (Lda - 1)) = {}
      BY <1>1, <2>2 DEF All
    <3> QED
      BY <3>1, <3>2
  <2>4. {LdaHalf(m) : m \in {0, 1}} = {LdaHalf(0), LdaHalf(1)}
    OBVIOUS
  <2>5. Pieces({0 .. (h - 1), h .. (Lda - 1)})
    BY <1>3, <2>3
  <2> QED
    BY <2>1, <2>2, <2>4, <2>5
<1> QED
  BY <1>2, <1>4, <1>5, <1>6, <1>7

RowBlocks(op, stride, R, T)    == {Block(op, stride, R, All, x) : x \in T}
ColumnBlocks(op, stride, C, T) == {Block(op, stride, x, C, All) : x \in T}

\* The rows are dealt to n cores, and the products cut into pieces.
Dealing(n, R, T, op) == Partition(All, n, R) /\ Pieces(T) /\ (op # "set" \/ T = {All})

\* A core stores its rows in these pieces, if it has rows.
StoresRows(s, R, T, op, stride) == s = RowBlocks(op, stride, R, T) \/ (s = {} /\ R = {})

\* Rows dealt out, each product of them stored by one of the pieces.
LEMMA RowPiecesDealt ==
  ASSUME NEW n \in Nat \ {0}, NEW R, NEW T, NEW op, NEW stride, Dealing(n, R, T, op), NEW S,
         \A c \in 0 .. (n - 1) : StoresRows(S[c], R[c], T, op, stride)
  PROVE  DealtOnce(n, S)
<1> DEFINE b(c, x) == Block(op, stride, R[c], All, x)
<1>1. \A c, x : /\ b(c, x).rows = R[c] /\ b(c, x).cols = All
                /\ b(c, x).terms = x /\ b(c, x).op = op
  BY DEF Block
<1>2. \A c \in 0 .. (n - 1) : S[c] = {b(c, x) : x \in T} \/ (S[c] = {} /\ R[c] = {})
  BY DEF StoresRows, RowBlocks
<1> HIDE DEF b
<1>3. \A r, col, t \in All : \A c, x : Adds(b(c, x), r, col, t) <=> r \in R[c] /\ t \in x
  BY <1>1 DEF Adds
<1>4. ASSUME NEW r \in All, NEW col \in All, NEW t \in All
      PROVE  \E c \in 0 .. (n - 1) : \E e \in S[c] :
               /\ Adds(e, r, col, t)
               /\ \A d \in 0 .. (n - 1) : \A f \in S[d] : Adds(f, r, col, t) => d = c /\ f = e
  <2>1. PICK c \in 0 .. (n - 1) : \A d \in 0 .. (n - 1) : r \in R[d] <=> d = c
    BY DEF Dealing, Partition
  <2>2. PICK x \in T : t \in x /\ \A y \in T : t \in y => y = x
    BY DEF Dealing, Pieces
  <2>3. b(c, x) \in S[c] /\ Adds(b(c, x), r, col, t)
    BY <1>2, <1>3, <2>1, <2>2
  <2>4. ASSUME NEW d \in 0 .. (n - 1), NEW f \in S[d], Adds(f, r, col, t)
        PROVE  d = c /\ f = b(c, x)
    <3>1. PICK y \in T : f = b(d, y)
      BY <1>2
    <3>2. r \in R[d] /\ t \in y
      BY <1>3, <2>4, <3>1
    <3> QED
      BY <2>1, <2>2, <3>1, <3>2
  <2> QED
    BY <2>3, <2>4
<1>5. \A c \in 0 .. (n - 1) : \A e \in S[c] :
        e.terms \subseteq All /\ e.terms # {} /\ (e.op # "set" \/ e.terms = All)
  <2> TAKE c \in 0 .. (n - 1)
  <2> TAKE e \in S[c]
  <2>1. PICK x \in T : e = b(c, x)
    BY <1>2
  <2> QED
    BY <1>1, <2>1 DEF Dealing, Pieces
<1> QED
  BY <1>4, <1>5 DEF DealtOnce

\* The rows, or the columns, in two halves, with the products or the rows in pieces.
LEMMA RowHalves ==
  ASSUME NEW X, NEW Y, X \cup Y = All, X \cap Y = {}, NEW T, Pieces(T), NEW op,
         op # "set" \/ T = {All}, NEW stride, NEW F, NEW G, X # Y,
         F = RowBlocks(op, stride, X, T), G = RowBlocks(op, stride, Y, T)
  PROVE  BlocksOnce(F \cup G) /\ F \cap G = {}
<1> DEFINE b(R, x) == Block(op, stride, R, All, x)
<1>1. \A R, x : /\ b(R, x).rows = R /\ b(R, x).cols = All
                /\ b(R, x).terms = x /\ b(R, x).op = op
  BY DEF Block
<1>2. F = {b(X, x) : x \in T} /\ G = {b(Y, x) : x \in T}
  BY DEF RowBlocks
<1> HIDE DEF b
<1>3. F \cap G = {}
  BY <1>1, <1>2
<1>4. \A e \in F \cup G : \E R \in {X, Y}, x \in T : e = b(R, x)
  BY <1>2
<1>5. \A e \in F \cup G : e.terms \subseteq All /\ e.terms # {} /\ (e.op # "set" \/ e.terms = All)
  BY <1>1, <1>4 DEF Pieces
<1>6. ASSUME NEW r \in All, NEW col \in All, NEW t \in All
      PROVE  \E e \in F \cup G : /\ Adds(e, r, col, t)
                                 /\ \A f \in F \cup G : Adds(f, r, col, t) => f = e
  <2>1. PICK R \in {X, Y} : r \in R /\ \A Q \in {X, Y} : r \in Q => Q = R
    OBVIOUS
  <2>2. PICK x \in T : t \in x /\ \A y \in T : t \in y => y = x
    BY DEF Pieces
  <2>3. b(R, x) \in F \cup G /\ Adds(b(R, x), r, col, t)
    BY <1>1, <1>2, <2>1, <2>2 DEF Adds
  <2>4. ASSUME NEW f \in F \cup G, Adds(f, r, col, t) PROVE f = b(R, x)
    <3>1. PICK Q \in {X, Y}, y \in T : f = b(Q, y)
      BY <1>4
    <3>2. r \in Q /\ t \in y
      BY <1>1, <2>4, <3>1 DEF Adds
    <3> QED
      BY <2>1, <2>2, <3>1, <3>2
  <2> QED
    BY <2>3, <2>4
<1> QED
  BY <1>3, <1>5, <1>6 DEF BlocksOnce

\* The same, for two sets of columns.
LEMMA ColumnHalves ==
  ASSUME NEW X, NEW Y, X \cup Y = All, X \cap Y = {}, X # Y, NEW T, NEW U, Pieces(T), Pieces(U),
         NEW op, NEW stride, NEW F, NEW G,
         F = ColumnBlocks(op, stride, X, T), G = ColumnBlocks(op, stride, Y, U)
  PROVE  BlocksOnce(F \cup G) /\ F \cap G = {}
<1> DEFINE b(C, x) == Block(op, stride, x, C, All)
<1>1. \A C, x : /\ b(C, x).rows = x /\ b(C, x).cols = C
                /\ b(C, x).terms = All /\ b(C, x).op = op
  BY DEF Block
<1>2. F = {b(X, x) : x \in T} /\ G = {b(Y, x) : x \in U}
  BY DEF ColumnBlocks
<1> HIDE DEF b
<1>3. F \cap G = {}
  BY <1>1, <1>2
<1>4. \A e \in F \cup G : (\E x \in T : e = b(X, x)) \/ (\E x \in U : e = b(Y, x))
  BY <1>2
<1>5. \A e \in F \cup G : e.terms \subseteq All /\ e.terms # {} /\ (e.op # "set" \/ e.terms = All)
  BY <1>1, <1>4, AllNotEmpty
<1>6. ASSUME NEW r \in All, NEW col \in All, NEW t \in All
      PROVE  \E e \in F \cup G : /\ Adds(e, r, col, t)
                                 /\ \A f \in F \cup G : Adds(f, r, col, t) => f = e
  <2>1. CASE col \in X
    <3>1. PICK x \in T : r \in x /\ \A y \in T : r \in y => y = x
      BY DEF Pieces
    <3>2. b(X, x) \in F \cup G /\ Adds(b(X, x), r, col, t)
      BY <1>1, <1>2, <2>1, <3>1 DEF Adds
    <3>3. ASSUME NEW f \in F \cup G, Adds(f, r, col, t) PROVE f = b(X, x)
      BY <1>1, <1>4, <2>1, <3>1, <3>3 DEF Adds
    <3> QED
      BY <3>2, <3>3
  <2>2. CASE col \in Y
    <3>1. PICK x \in U : r \in x /\ \A y \in U : r \in y => y = x
      BY DEF Pieces
    <3>2. b(Y, x) \in F \cup G /\ Adds(b(Y, x), r, col, t)
      BY <1>1, <1>2, <2>2, <3>1 DEF Adds
    <3>3. ASSUME NEW f \in F \cup G, Adds(f, r, col, t) PROVE f = b(Y, x)
      BY <1>1, <1>4, <2>2, <3>1, <3>3 DEF Adds
    <3> QED
      BY <3>2, <3>3
  <2> QED
    BY <2>1, <2>2
<1> QED
  BY <1>3, <1>5, <1>6 DEF BlocksOnce

\* Blocks that core 0 and core 1 share: the check passes.
LEMMA SplitRight ==
  ASSUME MatmulTest, NEW F, NEW G, BlocksOnce(F \cup G), F \cap G = {},
         \A c \in Cores : Linked(c, ncores)[kernel] = MatmulProgram(<<Seg(Split(c, ncores, F, G))>>)
  PROVE  PlansRight
<1> DEFINE S == [c \in 0 .. (ncores - 1) |-> Split(c, ncores, F, G)]
<1>1. ncores \in Nat \ {0} /\ Cores = 0 .. (ncores - 1)
  BY DEF MatmulTest, Cores
<1>2. \A c \in 0 .. (ncores - 1) : S[c] = Split(c, ncores, F, G)
  OBVIOUS
<1> HIDE DEF S
<1>3. DealtOnce(ncores, S)
  BY <1>1, <1>2, SplitDealt
<1>4. \A c \in Cores : Linked(c, ncores)[kernel] = MatmulProgram(<<Seg(S[c])>>)
  BY <1>1, <1>2
<1> QED
  BY <1>3, <1>4, OneSegmentRight

\* The kernels split between core 0 and core 1: by rows ...
LEMMA RowSplitsRight ==
  ASSUME MatmulTest,
         \/ Lda = 32 /\ kernel \in {"av", "cv", "bo", "bk", "dv"}
         \/ Lda % 8 = 0 /\ kernel \in {"bh", "bj"}
  PROVE  PlansRight
<1> DEFINE n == ncores
           Rows(op, stride, R, T) == RowBlocks(op, stride, R, T)
<1>1. ASSUME NEW c \in Cores
      PROVE  /\ Linked(c, n).av = MatmulProgram(av_matmul(c, n))
             /\ Linked(c, n).cv = MatmulProgram(cv_matmul(c, n))
             /\ Linked(c, n).bo = MatmulProgram(bo_matmul(c, n))
             /\ Linked(c, n).bk = MatmulProgram(bk_matmul(c, n))
             /\ Linked(c, n).dv = MatmulProgram(dv_matmul(c, n))
             /\ Linked(c, n).bh = MatmulProgram(bh_matmul(c, n))
             /\ Linked(c, n).bj = MatmulProgram(bj_matmul(c, n))
  BY SMTT(30) DEF Linked
<1>2. ASSUME NEW X, NEW Y, X \cup Y = All, X \cap Y = {}, X # Y, NEW T, Pieces(T), NEW op,
             op # "set" \/ T = {All}, NEW stride,
             \A c \in Cores : Linked(c, n)[kernel] =
               MatmulProgram(<<Seg(Split(c, n, Rows(op, stride, X, T), Rows(op, stride, Y, T)))>>)
      PROVE  PlansRight
  <2>1. PICK F : F = Rows(op, stride, X, T)
    OBVIOUS
  <2>2. PICK G : G = Rows(op, stride, Y, T)
    OBVIOUS
  <2>3. BlocksOnce(F \cup G) /\ F \cap G = {}
    BY <1>2, <2>1, <2>2, RowHalves
  <2>4. \A c \in Cores : Linked(c, n)[kernel] = MatmulProgram(<<Seg(Split(c, n, F, G))>>)
    BY <1>2, <2>1, <2>2, Zenon
  <2> QED
    BY <2>3, <2>4, SplitRight
<1>3. ASSUME Lda = 32
      PROVE  /\ All = 0 .. 31 /\ (0 .. 15) \cup (16 .. 31) = All
             /\ (16 .. 31) \cup (0 .. 15) = All
             /\ (0 .. 15) \cap (16 .. 31) = {} /\ (16 .. 31) \cap (0 .. 15) = {}
             /\ 0 .. 15 # 16 .. 31
  <2>1. 0 \in 0 .. 15 /\ 0 \notin 16 .. 31
    OBVIOUS
  <2>2. /\ All = 0 .. 31 /\ (0 .. 15) \cup (16 .. 31) = All
        /\ (0 .. 15) \cap (16 .. 31) = {}
    BY <1>3 DEF All
  <2> QED
    BY <2>1, <2>2
<1>4. CASE Lda = 32 /\ kernel \in {"av", "cv"}
  <2>1. FirstRows = Rows("add", 32, 0 .. 15, EightTerms)
    BY <1>3, <1>4 DEF FirstRows, Add, RowBlocks
  <2>2. LastRows = Rows("add", 32, 16 .. 31, EightTerms)
    BY <1>3, <1>4 DEF LastRows, Add, RowBlocks
  <2>3. \A c \in Cores : Linked(c, n)[kernel] = MatmulProgram(<<Seg(Split(c, n, FirstRows, LastRows))>>)
    BY <1>1, <1>4 DEF av_matmul, cv_matmul
  <2>4. Pieces(EightTerms)
    BY <1>4, PiecesOfAll
  <2> HIDE DEF Rows
  <2> QED
    BY <1>2, <1>3, <1>4, <2>1, <2>2, <2>3, <2>4
<1>5. CASE Lda = 32 /\ kernel = "bo"
  <2>1. Unrolled(0, 16, 2) = 0 .. 15 /\ Unrolled(16, 32, 2) = 16 .. 31
    <3>1. 0 \in Nat /\ 16 \in Nat /\ 0 <= 16 /\ 2 \in Nat \ {0} /\ (16 - 0) % 2 = 0 /\ 16 - 1 = 15
          /\ 32 \in Nat /\ 16 <= 32 /\ (32 - 16) % 2 = 0 /\ 32 - 1 = 31
      OBVIOUS
    <3>2. Unrolled(0, 16, 2) = 0 .. (16 - 1)
      BY <3>1, EvenTurns, Zenon
    <3>3. Unrolled(16, 32, 2) = 16 .. (32 - 1)
      BY <3>1, EvenTurns, Zenon
    <3> QED
      BY <3>1, <3>2, <3>3, Zenon
  <2>2. /\ {Set(Unrolled(0, 16, 2), 0 .. 31, 0 .. 31)} = Rows("set", 32, 0 .. 15, {All})
        /\ {Set(Unrolled(16, 32, 2), 0 .. 31, 0 .. 31)} = Rows("set", 32, 16 .. 31, {All})
    BY <1>3, <1>5, <2>1 DEF Set, RowBlocks
  <2> HIDE DEF Rows
  <2>3. \A c \in Cores : Linked(c, n)[kernel] =
          MatmulProgram(<<Seg(Split(c, n, Rows("set", 32, 0 .. 15, {All}),
                                    Rows("set", 32, 16 .. 31, {All})))>>)
    BY <1>1, <1>5, <2>2 DEF bo_matmul
  <2>4. Pieces({All})
    BY PiecesOfAll
  <2> QED
    BY <1>2, <1>3, <1>5, <2>3, <2>4
<1>6. CASE Lda = 32 /\ kernel \in {"bk", "dv"}
  <2> DEFINE T == {KkHalf(kk) : kk \in {0, 16}}
  <2>1. /\ {Add32(0 .. 15, 0 .. 31, KkHalf(kk)) : kk \in {0, 16}} = Rows("add", 32, 0 .. 15, T)
        /\ {Add32(16 .. 31, 0 .. 31, KkHalf(kk)) : kk \in {0, 16}} = Rows("add", 32, 16 .. 31, T)
    BY <1>3, <1>6 DEF Add32, RowBlocks
  <2>2. Pieces(T)
    BY <1>6, PiecesOfAll
  <2> HIDE DEF Rows, T
  <2>3. CASE kernel = "bk"
    <3>1. \A c \in Cores : Linked(c, n)[kernel] =
            MatmulProgram(<<Seg(Split(c, n, Rows("add", 32, 0 .. 15, T),
                                      Rows("add", 32, 16 .. 31, T)))>>)
      BY <1>1, <2>1, <2>3 DEF bk_matmul
    <3> QED
      BY <1>2, <1>3, <1>6, <2>2, <3>1
  <2>4. CASE kernel = "dv"
    <3>1. \A c \in Cores : Linked(c, n)[kernel] =
            MatmulProgram(<<Seg(Split(c, n, Rows("add", 32, 16 .. 31, T),
                                      Rows("add", 32, 0 .. 15, T)))>>)
      BY <1>1, <2>1, <2>4 DEF dv_matmul
    <3> QED
      BY <1>2, <1>3, <1>6, <2>2, <3>1
  <2> QED
    BY <1>6, <2>3, <2>4
<1>7. CASE Lda % 8 = 0 /\ kernel \in {"bh", "bj"}
  <2> DEFINE T == {LdaHalf(m) : m \in {0, 1}}
             X == 0 .. (Lda \div 2 - 1)
             Y == (Lda \div 2) .. (Lda - 1)
  <2>1. Lda \in Nat /\ Lda > 0
    BY LdaAssumption
  <2>2. Lda % 2 = 0
    BY <1>7, <2>1
  <2>3. Unrolled(0, Lda, 8) = All
    <3>1. 8 \in Nat \ {0}
      OBVIOUS
    <3> QED
      BY <1>7, <3>1, EvenRanges
  <2>4. X \cup Y = All /\ X \cap Y = {} /\ X # Y
    <3>1. PICK h \in Nat \ {0} : h = Lda \div 2 /\ h < Lda
      BY <2>1, <2>2
    <3>2. 0 \in 0 .. (h - 1) /\ 0 \notin h .. (Lda - 1)
      BY <3>1
    <3>3. (0 .. (h - 1)) \cup (h .. (Lda - 1)) = All /\ (0 .. (h - 1)) \cap (h .. (Lda - 1)) = {}
      BY <2>1, <3>1 DEF All
    <3> QED
      BY <3>1, <3>2, <3>3
  <2>5. Pieces(T)
    BY <2>2, PiecesOfAll
  <2>6. /\ {Add(X, Unrolled(0, Lda, 8), LdaHalf(m)) : m \in {0, 1}} = Rows("add", Lda, X, T)
        /\ {Add(Y, All, LdaHalf(m)) : m \in {0, 1}} = Rows("add", Lda, Y, T)
    BY <2>3 DEF Add, RowBlocks
  <2>7. \A c : bh_matmul(c, n) = <<Seg(Split(c, n, Rows("add", Lda, X, T), Rows("add", Lda, Y, T)))>>
    BY <2>6, Zenon DEF bh_matmul
  <2> HIDE DEF Rows, T, X, Y
  <2>8. \A c \in Cores : Linked(c, n)[kernel] =
          MatmulProgram(<<Seg(Split(c, n, Rows("add", Lda, X, T), Rows("add", Lda, Y, T)))>>)
    BY <1>1, <1>7, <2>7 DEF bj_matmul
  <2> QED
    BY <1>2, <2>4, <2>5, <2>8
<1> QED
  BY <1>4, <1>5, <1>6, <1>7

\* ... and by columns.
LEMMA ColumnSplitsRight ==
  ASSUME MatmulTest, Lda = 32, kernel \in {"al", "bf", "cl", "df"}
  PROVE  PlansRight
<1> DEFINE n == ncores
           Cols(op, C, T) == ColumnBlocks(op, 32, C, T)
           H == {0 .. 15, 16 .. 31}
           I == {16 .. 31, 0 .. 15}
<1>1. ASSUME NEW c \in Cores
      PROVE  /\ Linked(c, n).al = MatmulProgram(al_matmul(c, n))
             /\ Linked(c, n).bf = MatmulProgram(bf_matmul(c, n))
             /\ Linked(c, n).cl = MatmulProgram(cl_matmul(c, n))
             /\ Linked(c, n).df = MatmulProgram(df_matmul(c, n))
  BY SMTT(30) DEF Linked
<1>2. /\ All = 0 .. 31 /\ (0 .. 15) \cup (16 .. 31) = All
      /\ (0 .. 15) \cap (16 .. 31) = {} /\ 0 .. 15 # 16 .. 31
  <2>1. 0 \in 0 .. 15 /\ 0 \notin 16 .. 31
    OBVIOUS
  <2>2. /\ All = 0 .. 31 /\ (0 .. 15) \cup (16 .. 31) = All
        /\ (0 .. 15) \cap (16 .. 31) = {}
    BY DEF All
  <2> QED
    BY <2>1, <2>2
<1>3. Pieces({All}) /\ Pieces(H) /\ Pieces(I)
  BY PiecesOfAll
<1>4. /\ {Add(0 .. 31, 0 .. 15, 0 .. 31)} = Cols("add", 0 .. 15, {All})
      /\ {Add(0 .. 31, 16 .. 31, 0 .. 31)} = Cols("add", 16 .. 31, {All})
      /\ {Set(0 .. 31, 0 .. 15, 0 .. 31)} = Cols("set", 0 .. 15, {All})
      /\ {Set(0 .. 31, 16 .. 31, 0 .. 31)} = Cols("set", 16 .. 31, {All})
  BY <1>2 DEF Add, Set, ColumnBlocks
<1>5. /\ {Add(rows, 0 .. 15, 0 .. 31) : rows \in H} = Cols("add", 0 .. 15, H)
      /\ {Add(rows, 16 .. 31, 0 .. 31) : rows \in I} = Cols("add", 16 .. 31, I)
  BY <1>2 DEF Add, ColumnBlocks
<1> HIDE DEF H, I
<1>6. ASSUME NEW T, NEW U, Pieces(T), Pieces(U), NEW op,
             \A c \in Cores : Linked(c, n)[kernel] =
               MatmulProgram(<<Seg(Split(c, n, Cols(op, 0 .. 15, T), Cols(op, 16 .. 31, U)))>>)
      PROVE  PlansRight
  <2>1. PICK F : F = Cols(op, 0 .. 15, T)
    OBVIOUS
  <2>2. PICK G : G = Cols(op, 16 .. 31, U)
    OBVIOUS
  <2>3. BlocksOnce(F \cup G) /\ F \cap G = {}
    BY <1>2, <1>6, <2>1, <2>2, ColumnHalves
  <2>4. \A c \in Cores : Linked(c, n)[kernel] = MatmulProgram(<<Seg(Split(c, n, F, G))>>)
    BY <1>6, <2>1, <2>2, Zenon
  <2> QED
    BY <2>3, <2>4, SplitRight
<1> HIDE DEF Cols
<1>7. CASE kernel = "al"
  <2>1. \A c \in Cores : Linked(c, n)[kernel] =
          MatmulProgram(<<Seg(Split(c, n, Cols("add", 0 .. 15, {All}), Cols("add", 16 .. 31, {All})))>>)
    BY <1>1, <1>4, <1>7 DEF al_matmul
  <2> QED
    BY <1>3, <1>6, <2>1
<1>8. CASE kernel = "bf"
  <2>1. \A c \in Cores : Linked(c, n)[kernel] =
          MatmulProgram(<<Seg(Split(c, n, Cols("set", 0 .. 15, {All}), Cols("set", 16 .. 31, {All})))>>)
    BY <1>1, <1>4, <1>8 DEF bf_matmul
  <2> QED
    BY <1>3, <1>6, <2>1
<1>9. CASE kernel = "cl"
  <2>1. \A c \in Cores : Linked(c, n)[kernel] =
          MatmulProgram(<<Seg(Split(c, n, Cols("add", 0 .. 15, {All}), Cols("add", 16 .. 31, I)))>>)
    BY <1>1, <1>4, <1>5, <1>9 DEF cl_matmul, I
  <2> QED
    BY <1>3, <1>6, <2>1
<1>10. CASE kernel = "df"
  <2>1. \A c \in Cores : Linked(c, n)[kernel] =
          MatmulProgram(<<Seg(Split(c, n, Cols("add", 0 .. 15, H), Cols("add", 16 .. 31, I)))>>)
    BY <1>1, <1>5, <1>10 DEF df_matmul, FirstColumns, LastColumns, H, I
  <2> QED
    BY <1>3, <1>6, <2>1
<1> QED
  BY <1>7, <1>8, <1>9, <1>10

\* Segment q of the plans p, of m segments, stores rows R of the cores, with the
\* products in pieces T; the others store nothing.
RowsIn(q, m, p, R, T, op, stride) ==
  \A c \in Cores :
    /\ Linked(c, ncores)[kernel] = MatmulProgram(p[c])
    /\ IsPlan(p[c]) /\ Len(p[c]) = m
    /\ StoresRows(p[c][q].stores, R[c], T, op, stride)
    /\ \A i \in 1 .. m : i # q => p[c][i].stores = {}

\* Such a segment does all: the check passes.
LEMMA RowPiecesRight ==
  ASSUME MatmulTest, NEW m \in Nat, NEW q \in 1 .. m, NEW p, NEW R, NEW T, NEW op, NEW stride,
         Dealing(ncores, R, T, op), RowsIn(q, m, p, R, T, op, stride)
  PROVE  PlansRight
<1> DEFINE S == [c \in Cores |-> p[c][q].stores]
<1>1. ncores \in Nat \ {0} /\ Cores = 0 .. (ncores - 1)
  BY DEF MatmulTest, Cores
<1>2. \A c \in Cores : S[c] = p[c][q].stores
  OBVIOUS
<1> HIDE DEF S
<1>3. \A c \in 0 .. (ncores - 1) : StoresRows(S[c], R[c], T, op, stride)
  BY <1>1, <1>2 DEF RowsIn
<1>4. DealtOnce(ncores, S)
  BY <1>1, <1>3, RowPiecesDealt, Zenon
<1>5. StoresIn(q, m, p, S)
  BY <1>2 DEF StoresIn, RowsIn
<1> QED
  BY <1>4, <1>5, DealtRight, Zenon

\* A plan of one segment.
OneRows(g, R, T, op, stride) ==
  \A c \in Cores :
    /\ Linked(c, ncores)[kernel] = MatmulProgram(<<g[c]>>)
    /\ StoresRows(g[c].stores, R[c], T, op, stride)

\* Such a plan does all: the check passes.
LEMMA OneRowsRight ==
  ASSUME MatmulTest, NEW g, NEW R, NEW T, NEW op, NEW stride,
         Dealing(ncores, R, T, op), OneRows(g, R, T, op, stride)
  PROVE  PlansRight
<1> DEFINE p == [c \in Cores |-> <<g[c]>>]
<1>1. ASSUME NEW c \in Cores
      PROVE  p[c] = <<g[c]>> /\ IsPlan(p[c]) /\ Len(p[c]) = 1 /\ p[c][1] = g[c]
  <2>1. p[c] = <<g[c]>>
    OBVIOUS
  <2> HIDE DEF p
  <2> QED
    BY <2>1, PlanOne
<1> HIDE DEF p
<1>2. PICK m \in Nat : m = 1
  OBVIOUS
<1>3. PICK q \in 1 .. m : q = 1
  BY <1>2
<1>4. RowsIn(q, m, p, R, T, op, stride)
  <2>1. \A i \in 1 .. m : i = q
    BY <1>2, <1>3
  <2> QED
    BY <1>1, <1>2, <1>3, <2>1 DEF RowsIn, OneRows
<1> QED
  BY <1>4, RowPiecesRight, Zenon

\* A plan of two, the second of which stores.
TwoRows(f, g, R, T, op, stride) ==
  \A c \in Cores :
    /\ Linked(c, ncores)[kernel] = MatmulProgram(<<f[c], g[c]>>)
    /\ f[c].stores = {}
    /\ g[c].stores = RowBlocks(op, stride, R[c], T)

\* Such plans do all: the check passes.
LEMMA TwoRowsRight ==
  ASSUME MatmulTest, NEW f, NEW g, NEW R, NEW T, NEW op, NEW stride,
         Dealing(ncores, R, T, op), TwoRows(f, g, R, T, op, stride)
  PROVE  PlansRight
<1> DEFINE p == [c \in Cores |-> <<f[c], g[c]>>]
<1>1. ASSUME NEW c \in Cores
      PROVE  /\ p[c] = <<f[c], g[c]>> /\ IsPlan(p[c]) /\ Len(p[c]) = 2
             /\ p[c][1] = f[c] /\ p[c][2] = g[c]
  <2>1. p[c] = <<f[c], g[c]>>
    OBVIOUS
  <2>2. \A x, y : Len(<<x, y>>) = 2 /\ <<x, y>>[1] = x /\ <<x, y>>[2] = y
    OBVIOUS
  <2> HIDE DEF p
  <2> QED
    BY <2>1, <2>2, PlanTwo
<1> HIDE DEF p
<1>2. PICK m \in Nat : m = 2
  OBVIOUS
<1>3. PICK q \in 1 .. m : q = 2
  BY <1>2
<1>4. RowsIn(q, m, p, R, T, op, stride)
  <2>1. \A i \in 1 .. m : i # q => i = 1
    BY <1>2, <1>3
  <2> QED
    BY <1>1, <1>2, <1>3, <2>1 DEF RowsIn, TwoRows, StoresRows
<1> QED
  BY <1>4, RowPiecesRight, Zenon

\* The kernels of two halves of the rows, and of core 0 alone.
LEMMA HalvesRight ==
  ASSUME MatmulTest,
         \/ Lda = 32 /\ kernel \in {"ay", "az", "cy"}
         \/ kernel \in {"bc", "dc"}
  PROVE  PlansRight
<1> DEFINE n == ncores
<1>1. n \in Nat \ {0} /\ Cores = 0 .. (n - 1) /\ Lda \in Nat
  BY LdaAssumption DEF MatmulTest, Cores
<1>2. ASSUME NEW c \in Cores
      PROVE  /\ Linked(c, n).ay = MatmulProgram(ay_matmul(c, n))
             /\ Linked(c, n).az = MatmulProgram(az_matmul(c, n))
             /\ Linked(c, n).cy = MatmulProgram(cy_matmul(c, n))
             /\ Linked(c, n).bc = MatmulProgram(bc_matmul(c, n))
             /\ Linked(c, n).dc = MatmulProgram(dc_matmul(c, n))
  BY SMTT(30) DEF Linked
<1>3. \A x : Seg(x).stores = x /\ Idle.stores = {}
  BY DEF Seg, Idle, Segment
<1>4. CASE Lda = 32 /\ kernel \in {"ay", "az", "cy"}
  <2> DEFINE H(c) == (16 * c) .. (16 * (IF n = 1 THEN 2 ELSE c + 1) - 1)
             R == [c \in Cores |-> IF c > 1 THEN {} ELSE H(c)]
             st(c) == IF c > 1 THEN {} ELSE {SixteenRows(c, n)}
             g == [c \in Cores |->
                     IF kernel = "cy" /\ c = 1
                     THEN Segment(st(c), {Area(0 .. 31, 0 .. 31)}, {Area(0 .. 31, 0 .. 31)})
                     ELSE Seg(st(c))]
  <2>1. All = 0 .. 31
    BY <1>4 DEF All
  <2>2. Partition(All, n, R)
    <3> SUFFICES ASSUME NEW x \in All
                 PROVE  \E c \in 0 .. (n - 1) : \A d \in 0 .. (n - 1) : x \in R[d] <=> d = c
      BY DEF Partition
    <3>1. \A d \in 0 .. (n - 1) : x \in R[d] <=> d <= 1 /\ x \in H(d)
      BY <1>1
    <3> HIDE DEF R
    <3>2. CASE n = 1
      <4>1. 0 \in 0 .. (n - 1) /\ \A d \in 0 .. (n - 1) : d = 0
        BY <3>2
      <4>2. x \in H(0)
        BY <2>1, <3>2
      <4> HIDE DEF H
      <4> QED
        BY <3>1, <4>1, <4>2
    <3>3. CASE n # 1
      <4>1. x \div 16 \in 0 .. 1 /\ x \div 16 \in 0 .. (n - 1)
        BY <1>1, <2>1, <3>3
      <4>2. \A d \in 0 .. (n - 1) : d <= 1 /\ x \in H(d) <=> d = x \div 16
        BY <1>1, <2>1, <3>3
      <4> HIDE DEF H
      <4> QED
        BY <3>1, <4>1, <4>2
    <3> QED
      BY <3>2, <3>3
  <2>3. Unrolled(0, Lda, 2) = All
    <3>1. 2 \in Nat \ {0} /\ Lda % 2 = 0
      BY <1>4
    <3> QED
      BY <3>1, EvenRanges
  <2>4. \A c : {SixteenRows(c, n)} = RowBlocks("set", 32, H(c), {All})
    BY <2>1, <2>3 DEF SixteenRows, Set32, RowBlocks
  <2>5. ASSUME NEW c \in Cores
        PROVE  /\ g[c].stores = st(c)
               /\ c > 1 => R[c] = {} /\ st(c) = {}
               /\ ~(c > 1) => R[c] = H(c) /\ st(c) = {SixteenRows(c, n)}
    BY DEF Seg, Segment
  <2>6. ASSUME NEW c \in Cores
        PROVE  Linked(c, n)[kernel] = MatmulProgram(<<g[c]>>)
    <3>1. c = 0 \/ c = 1 \/ c > 1
      BY <1>1
    <3>2. CASE kernel = "cy"
      <4>1. cy_matmul(c, n) = <<g[c]>>
        BY <1>1, <3>1, <3>2 DEF cy_matmul, Idle
      <4> QED
        BY <1>2, <3>2, <4>1
    <3>3. CASE kernel \in {"ay", "az"}
      <4>1. ay_matmul(c, n) = <<g[c]>>
        BY <3>3 DEF ay_matmul, Idle
      <4> QED
        BY <1>2, <3>3, <4>1 DEF az_matmul
    <3> QED
      BY <1>4, <3>2, <3>3
  <2> HIDE DEF g, R, H, st
  <2>7. \A c \in Cores : \/ g[c].stores = RowBlocks("set", 32, R[c], {All})
                         \/ g[c].stores = {} /\ R[c] = {}
    BY <2>4, <2>5
  <2>8. OneRows(g, R, {All}, "set", 32)
    BY <2>6, <2>7 DEF OneRows, StoresRows
  <2>9. Dealing(ncores, R, {All}, "set")
    BY <2>2, PiecesOfAll DEF Dealing
  <2> QED
    BY <2>8, <2>9, OneRowsRight
<1>5. CASE kernel \in {"bc", "dc"} /\ n = 2 /\ Lda = 32
  <2> DEFINE T == {KkHalf(kk) : kk \in {0, 16}}
             R == [c \in Cores |-> TwoCoreRows(c)]
             g == [c \in Cores |-> Seg({Add(TwoCoreRows(c), 0 .. 31, x) : x \in T})]
  <2>1. All = 0 .. 31 /\ Cores = {0, 1}
    BY <1>1, <1>5 DEF All
  <2>2. TwoCoreRows(0) = 0 .. 15 /\ TwoCoreRows(1) = 16 .. 31
    BY DEF TwoCoreRows
  <2>3. Partition(All, n, R)
    <3>1. R[0] = 0 .. 15 /\ R[1] = 16 .. 31
      BY <2>1, <2>2
    <3> HIDE DEF R
    <3>2. \A x \in All : \E c \in {0, 1} : \A d \in {0, 1} : x \in R[d] <=> d = c
      BY <2>1, <3>1
    <3>3. 0 .. (n - 1) = {0, 1}
      BY <1>1, <2>1
    <3> QED
      BY <3>2, <3>3, Zenon DEF Partition
  <2>4. ASSUME NEW c \in Cores
        PROVE  g[c].stores = RowBlocks("add", Lda, R[c], T)
    <3>1. g[c] = Seg({Add(TwoCoreRows(c), 0 .. 31, x) : x \in T}) /\ R[c] = TwoCoreRows(c)
      OBVIOUS
    <3> HIDE DEF g, R, T
    <3>2. {Add(TwoCoreRows(c), 0 .. 31, x) : x \in T} = RowBlocks("add", Lda, R[c], T)
      BY <2>1, <3>1 DEF Add, RowBlocks
    <3> QED
      BY <1>3, <3>1, <3>2
  <2>5. ASSUME NEW c \in Cores
        PROVE  Linked(c, n)[kernel] = MatmulProgram(<<g[c]>>)
    <3>1. bc_matmul(c, n) = <<g[c]>>
      BY <1>5 DEF bc_matmul
    <3> HIDE DEF g
    <3> QED
      BY <1>2, <1>5, <3>1 DEF dc_matmul
  <2>6. Pieces(T)
    BY <1>5, PiecesOfAll
  <2> HIDE DEF g, R, T
  <2>7. OneRows(g, R, T, "add", Lda)
    BY <2>4, <2>5 DEF OneRows, StoresRows
  <2>8. Dealing(ncores, R, T, "add")
    BY <2>3, <2>6 DEF Dealing
  <2> QED
    BY <2>7, <2>8, OneRowsRight
<1>6. CASE kernel \in {"bc", "dc"} /\ ~(n = 2 /\ Lda = 32)
  <2> DEFINE R == [c \in Cores |-> IF c > 0 THEN {} ELSE All]
             g == [c \in Cores |-> IF c > 0 THEN Idle ELSE Seg({Add(All, All, All)})]
  <2>1. Partition(All, n, R)
    BY <1>1 DEF Partition
  <2>2. ASSUME NEW c \in Cores
        PROVE  \/ g[c].stores = RowBlocks("add", Lda, R[c], {All})
               \/ g[c].stores = {} /\ R[c] = {}
    <3>1. CASE c > 0
      BY <1>3, <3>1
    <3>2. CASE ~(c > 0)
      BY <1>3, <3>2 DEF Add, RowBlocks
    <3> QED
      BY <3>1, <3>2
  <2>3. ASSUME NEW c \in Cores
        PROVE  Linked(c, n)[kernel] = MatmulProgram(<<g[c]>>)
    <3>1. bc_matmul(c, n) = <<g[c]>>
      BY <1>6 DEF bc_matmul, Naive
    <3> HIDE DEF g
    <3> QED
      BY <1>2, <1>6, <3>1 DEF dc_matmul
  <2> HIDE DEF g, R
  <2>4. OneRows(g, R, {All}, "add", Lda)
    BY <2>2, <2>3 DEF OneRows, StoresRows
  <2>5. Dealing(ncores, R, {All}, "add")
    BY <2>1, PiecesOfAll DEF Dealing
  <2> QED
    BY <2>4, <2>5, OneRowsRight
<1> QED
  BY <1>4, <1>5, <1>6

\* The kernels of two segments.
LEMMA TwoSegmentsRight ==
  ASSUME MatmulTest, Lda % ncores = 0, Lda % 4 = 0,
         kernel \in {"ai", "ci"} \/ (kernel = "dm" /\ Blk(ncores) % 4 = 0)
  PROVE  PlansRight
<1> DEFINE n == ncores
           R == [c \in 0 .. (n - 1) |-> Own(c, n)]
<1>1. n \in Nat \ {0} /\ Cores = 0 .. (n - 1) /\ Lda \in Nat
  BY LdaAssumption DEF MatmulTest, Cores
<1>2. ASSUME NEW c \in Cores
      PROVE  /\ Linked(c, n).ai = MatmulProgram(ai_matmul(c, n))
             /\ Linked(c, n).ci = MatmulProgram(ci_matmul(c, n))
             /\ Linked(c, n).dm = MatmulProgram(dm_matmul(c, n))
  BY SMTT(30) DEF Linked
<1>3. Partition(All, n, R)
  BY <1>1, OwnPartition
<1>4. \A c \in Cores : R[c] = Own(c, n)
  BY <1>1
<1> HIDE DEF R
<1>5. Unrolled(0, Lda, 4) = All /\ 4 * (Lda \div 4) = Lda
  <2>1. 4 \in Nat \ {0} /\ 4 * (Lda \div 4) = Lda
    BY <1>1
  <2> QED
    BY <2>1, EvenRanges
<1>6. \A op, r : {Block(op, Lda, r, All, All)} = RowBlocks(op, Lda, r, {All})
  BY DEF RowBlocks
<1>7. CASE kernel \in {"ai", "ci"}
  <2> DEFINE f == [c \in Cores |-> Idle]
             g == [c \in Cores |-> Seg({Set(Own(c, n), All, All)})]
  <2>1. ASSUME NEW c \in Cores
        PROVE  /\ f[c].stores = {}
               /\ g[c].stores = RowBlocks("set", Lda, R[c], {All})
    BY <1>4, <1>6 DEF Idle, Seg, Segment, Set
  <2>2. ASSUME NEW c \in Cores
        PROVE  Linked(c, n)[kernel] = MatmulProgram(<<f[c], g[c]>>)
    <3>1. ((c * Lda) \div n) .. ((c * Lda) \div n + Blk(n) - 1) = Own(c, n)
      BY <1>1, OwnRanges
    <3>2. ai_matmul(c, n) = <<Idle, Seg({Set(Own(c, n), All, All)})>>
      BY <1>5, <3>1, Zenon DEF ai_matmul
    <3>3. ai_matmul(c, n) = <<f[c], g[c]>>
      BY <3>2
    <3> HIDE DEF f, g
    <3> QED
      BY <1>2, <1>7, <3>3 DEF ci_matmul
  <2> HIDE DEF f, g
  <2>3. TwoRows(f, g, R, {All}, "set", Lda)
    BY <2>1, <2>2 DEF TwoRows
  <2>4. Dealing(ncores, R, {All}, "set")
    BY <1>3, PiecesOfAll DEF Dealing
  <2> QED
    BY <2>3, <2>4, TwoRowsRight
<1>8. CASE kernel = "dm" /\ Blk(n) % 4 = 0
  <2> DEFINE fills(c) == {Area(IF c = n - 1 THEN 0 .. (Blk(n) - 1) ELSE Blk(n) .. (Lda - 1), All)}
             reads(c) == IF c = n - 1 THEN {Area(All, All)} ELSE {}
             f == [c \in Cores |-> Segment({}, fills(c), {})]
             g == [c \in Cores |-> Segment({Add(Own(c, n), All, All)}, {}, reads(c))]
  <2>1. ASSUME NEW c \in Cores
        PROVE  /\ f[c].stores = {}
               /\ g[c].stores = RowBlocks("add", Lda, R[c], {All})
    BY <1>4, <1>6 DEF Segment, Add
  <2>2. ASSUME NEW c \in Cores
        PROVE  dm_matmul(c, n) = <<f[c], g[c]>>
    <3>1. Unrolled(Blk(n) * c, 4 * ((IF c = n - 1 THEN Lda ELSE Blk(n) * (c + 1)) \div 4), 4)
            = Own(c, n)
      BY <1>1, <1>8, OwnRanges
    <3>2. dm_matmul(c, n) = <<Segment({}, fills(c), {}),
                              Segment({Add(Own(c, n), All, All)}, {}, reads(c))>>
      BY <1>5, <3>1, Zenon DEF dm_matmul
    <3> QED
      BY <3>2
  <2> HIDE DEF f, g
  <2>3. \A c \in Cores : Linked(c, n)[kernel] = MatmulProgram(<<f[c], g[c]>>)
    BY <1>2, <1>8, <2>2
  <2>4. TwoRows(f, g, R, {All}, "add", Lda)
    BY <2>1, <2>3 DEF TwoRows
  <2>5. Dealing(ncores, R, {All}, "add")
    BY <1>3, PiecesOfAll DEF Dealing
  <2> QED
    BY <2>4, <2>5, TwoRowsRight
<1> QED
  BY <1>7, <1>8

\* Every element is dealt to one core.
LEMMA VectorsCover ==
  ASSUME NEW n \in Nat \ {0}, NEW i \in 0 .. (DataSize - 1)
  PROVE  /\ \E c \in 0 .. (n - 1) : \A d \in 0 .. (n - 1) : i \in Strided(d, DataSize, n) <=> d = c
         /\ DataSize % n = 0 =>
              \E c \in 0 .. (n - 1) : \A d \in 0 .. (n - 1) : i \in vvadd3(d, n) <=> d = c
<1>1. DataSize \in Nat
  BY DataSizeAssumption
<1>2. \E c \in 0 .. (n - 1) : \A d \in 0 .. (n - 1) : i \in Strided(d, DataSize, n) <=> d = c
  <2>1. PICK q \in Nat : i = n * q + (i % n)
    <3>1. i \in Nat
      OBVIOUS
    <3> QED
      BY <3>1, Division
  <2>2. PICK c \in 0 .. (n - 1) : c = i % n
    OBVIOUS
  <2>3. n * q \in Nat /\ (n * q) % n = 0
    BY MultipleOf
  <2>4. i - c = n * q /\ i >= c
    BY <2>1, <2>2, <2>3
  <2>5. i \in Strided(c, DataSize, n)
    BY <1>1, <2>3, <2>4 DEF Strided
  <2>6. ASSUME NEW d \in 0 .. (n - 1), i \in Strided(d, DataSize, n) PROVE d = c
    <3> SUFFICES ASSUME d # c PROVE FALSE
      OBVIOUS
    <3>1. Strided(c, DataSize, n) \cap Strided(d, DataSize, n) = {}
      BY Dealt, TurnsApart
    <3> QED
      BY <2>5, <2>6, <3>1
  <2> QED
    BY <2>5, <2>6
<1>3. ASSUME DataSize % n = 0
      PROVE  \E c \in 0 .. (n - 1) : \A d \in 0 .. (n - 1) : i \in vvadd3(d, n) <=> d = c
  <2>1. PICK c \in 0 .. (n - 1) : i \in (c * (DataSize \div n)) .. ((c + 1) * (DataSize \div n) - 1)
    BY <1>1, <1>3, ChunksCover
  <2>2. i \in vvadd3(c, n)
    <3>1. vvadd3(c, n) = (c * Chunk(n)) .. ((c + 1) * Chunk(n) - 1)
      BY VvaddThree
    <3> QED
      BY <2>1, <3>1 DEF Chunk
  <2>3. ASSUME NEW d \in 0 .. (n - 1), i \in vvadd3(d, n) PROVE d = c
    <3> SUFFICES ASSUME d # c PROVE FALSE
      OBVIOUS
    <3>1. vvadd3(c, n) \cap vvadd3(d, n) = {}
      BY VectorsApart
    <3> QED
      BY <2>2, <2>3, <3>1
  <2> QED
    BY <2>2, <2>3
<1> QED
  BY <1>2, <1>3

\* A chunk per core leaves nothing over when n divides the number of elements.
LEMMA NoLeftover ==
  ASSUME NEW n \in Nat \ {0}, NEW c \in 0 .. (n - 1), DataSize % n = 0
  PROVE  vvadd0(c, n) = vvadd3(c, n)
<1>1. DataSize \in Nat \ {0}
  BY DataSizeAssumption
<1>2. PICK b \in Nat : b = Chunk(n) /\ DataSize = n * b
  <2>1. PICK b \in Nat : b = DataSize \div n /\ DataSize = n * b + (DataSize % n)
    BY <1>1
  <2>2. n * b \in Nat
    BY ProductIsNat, Zenon
  <2>3. DataSize = n * b
    BY <2>1, <2>2
  <2> QED
    BY <2>1, <2>3 DEF Chunk
<1>3. DataSize % b = 0
  <2>1. b \in Nat \ {0}
    BY <1>1, <1>2
  <2>2. n \in Nat /\ b * n = n * b
    BY <2>1
  <2>3. (b * n) % b = 0
    BY <2>1, <2>2, MultipleOf
  <2> QED
    BY <1>2, <2>2, <2>3, Zenon
<1>4. Strided(DataSize - 0 + c, DataSize, n) = {}
  BY <1>1 DEF Strided
<1>5. vvadd0(c, n) = (c * b) .. ((c + 1) * b - 1)
  BY <1>2, <1>3, <1>4 DEF vvadd0
<1>6. vvadd3(c, n) = (c * b) .. ((c + 1) * b - 1)
  BY <1>2, VvaddThree
<1> QED
  BY <1>5, <1>6

\* The elements core c stores in one of the vector additions.
Elements(k, c, n) ==
  CASE k = "vvadd0" -> vvadd0(c, n) [] k = "vvadd1" -> vvadd1(c, n)
    [] k = "vvadd2" -> vvadd2(c, n) [] k = "vvadd3" -> vvadd3(c, n)
    [] OTHER        -> Strided(c, DataSize, n)

\* The vector additions deal every element to one core: those in chunks if n
\* divides the number of elements.
LEMMA ElementsPartition ==
  ASSUME NEW n \in Nat \ {0},
         NEW k \in {"vvadd0", "vvadd1", "vvadd2", "vvadd3", "vvadd4", "vvadd"},
         k \in {"vvadd0", "vvadd3"} => DataSize % n = 0
  PROVE  Partition(0 .. (DataSize - 1), n, [c \in 0 .. (n - 1) |-> Elements(k, c, n)])
<1> DEFINE R == [c \in 0 .. (n - 1) |-> Elements(k, c, n)]
<1>1. CASE k = "vvadd1"
  <2>1. R = [c \in 0 .. (n - 1) |-> vvadd1(c, n)]
    BY <1>1 DEF Elements
  <2> QED
    BY <2>1, GroupPartitions
<1>2. CASE k = "vvadd2"
  <2>1. R = [c \in 0 .. (n - 1) |-> vvadd2(c, n)]
    BY <1>2 DEF Elements
  <2> QED
    BY <2>1, TurnPartitions
<1>3. CASE k \in {"vvadd0", "vvadd3"}
  <2>1. \A c \in 0 .. (n - 1) : R[c] = vvadd3(c, n)
    BY <1>3, NoLeftover DEF Elements
  <2> HIDE DEF R
  <2>2. Partition(0 .. (DataSize - 1), n, R)
    <3> SUFFICES ASSUME NEW i \in 0 .. (DataSize - 1)
                 PROVE  \E c \in 0 .. (n - 1) : \A d \in 0 .. (n - 1) : i \in R[d] <=> d = c
      BY DEF Partition
    <3>1. DataSize % n = 0
      BY <1>3
    <3>2. PICK c \in 0 .. (n - 1) : \A d \in 0 .. (n - 1) : i \in vvadd3(d, n) <=> d = c
      BY <3>1, VectorsCover
    <3> QED
      BY <2>1, <3>2, Zenon
  <2> QED
    BY <2>2 DEF R
<1>4. CASE k \in {"vvadd4", "vvadd"}
  <2>1. \A c \in 0 .. (n - 1) : R[c] = Strided(c, DataSize, n)
    BY <1>4 DEF Elements
  <2> HIDE DEF R
  <2>2. Partition(0 .. (DataSize - 1), n, R)
    <3> SUFFICES ASSUME NEW i \in 0 .. (DataSize - 1)
                 PROVE  \E c \in 0 .. (n - 1) : \A d \in 0 .. (n - 1) : i \in R[d] <=> d = c
      BY DEF Partition
    <3>1. PICK c \in 0 .. (n - 1) :
            \A d \in 0 .. (n - 1) : i \in Strided(d, DataSize, n) <=> d = c
      BY VectorsCover
    <3> QED
      BY <2>1, <3>1, Zenon
  <2> QED
    BY <2>2 DEF R
<1> QED
  BY <1>1, <1>2, <1>3, <1>4

\* The vector additions.
LEMMA VectorsRight ==
  ASSUME ncores \in CoreCounts, ncores \in Nat \ {0}, kernel \in Kernels,
         kernel \in {"vvadd0", "vvadd1", "vvadd2", "vvadd3", "vvadd4", "vvadd"},
         kernel \in {"vvadd0", "vvadd3"} => DataSize % ncores = 0
  PROVE  PlansRight
<1> DEFINE z == [c \in 0 .. (ncores - 1) |-> Elements(kernel, c, ncores)]
<1>1. Cores = 0 .. (ncores - 1) /\ 0 \in Cores
  BY DEF Cores
<1>2. ASSUME NEW c \in Cores PROVE Program(c) = VvaddProgram(c, z[c])
  <2>1. /\ Linked(c, ncores).vvadd0 = VvaddProgram(c, vvadd0(c, ncores))
        /\ Linked(c, ncores).vvadd1 = VvaddProgram(c, vvadd1(c, ncores))
        /\ Linked(c, ncores).vvadd2 = VvaddProgram(c, vvadd2(c, ncores))
        /\ Linked(c, ncores).vvadd3 = VvaddProgram(c, vvadd3(c, ncores))
        /\ Linked(c, ncores).vvadd4 = VvaddProgram(c, vvadd4(c, ncores))
        /\ Linked(c, ncores).vvadd = VvaddProgram(c, vvadd(c, ncores))
    BY SMTT(30) DEF Linked
  <2>2. z[c] = Elements(kernel, c, ncores)
    BY <1>1
  <2>3. Linked(c, ncores)[kernel] = VvaddProgram(c, z[c])
    BY <2>1, <2>2 DEF vvadd, vvadd4, Elements
  <2> QED
    BY <2>3, ProgramIsLinked
<1>3. \A i \in 0 .. (DataSize - 1) :
        \E c \in 0 .. (ncores - 1) : \A d \in 0 .. (ncores - 1) : i \in z[d] <=> d = c
  BY ElementsPartition DEF Partition
<1> HIDE DEF z
<1>4. Results(kernel) = [rows |-> {0}, cols |-> 0 .. (DataSize - 1), terms |-> {0, 1}]
  BY DEF Results, VectorKernels
<1>5. \A c \in 0 .. (ncores - 1) : Programs[ncores][c + 1][kernel] = VvaddProgram(c, z[c])
  BY <1>1, <1>2 DEF Program
<1>6. RightAt(ncores, kernel, 3) /\ RightAt(ncores, kernel, 5)
  BY <1>3, <1>4, <1>5, RightVectors
<1>7. ASSUME NEW c \in Cores
      PROVE  /\ Len(Program(c)) = 6
             /\ \A i \in 1 .. Len(Program(c)) : Program(c)[i].check => c = 0 /\ i \in {3, 5}
  <2> DEFINE E(op, is, terms) == Block(op, DataSize, {0}, is, terms)
             first == Seg({E("set", z[c], {0, 1})})
             second == Seg({E("add", z[c], {1})})
             copy == Seg({E("set", 0 .. (DataSize - 1), {0})})
             third == IF c = 0 THEN Item(TRUE, copy) ELSE Item(FALSE, Idle)
             P == <<Item(FALSE, Idle), Item(FALSE, first), third,
                    Item(FALSE, second), Item(c = 0, Idle), Item(FALSE, Idle)>>
  <2>1. Program(c) = P
    BY <1>2 DEF VvaddProgram
  <2>2. \A s : ~Item(FALSE, s).check
    BY DEF Item
  <2>3. c # 0 => ~third.check
    BY <2>2
  <2>4. c # 0 => ~Item(c = 0, Idle).check
    BY DEF Item
  <2> HIDE DEF first, second, third
  <2>5. /\ Len(P) = 6 /\ P[1] = Item(FALSE, Idle) /\ P[2] = Item(FALSE, first) /\ P[3] = third
        /\ P[4] = Item(FALSE, second) /\ P[5] = Item(c = 0, Idle) /\ P[6] = Item(FALSE, Idle)
    OBVIOUS
  <2> HIDE DEF P
  <2>6. \A i \in 1 .. 6 : i \in {1, 2, 3, 4, 5, 6}
    OBVIOUS
  <2>7. ~P[1].check /\ ~P[2].check /\ ~P[4].check /\ ~P[6].check
    BY <2>2, <2>5
  <2>8. c # 0 => ~P[3].check /\ ~P[5].check
    BY <2>3, <2>4, <2>5
  <2>9. \A i \in 1 .. 6 : P[i].check => c = 0 /\ i \in {3, 5}
    BY <2>6, <2>7, <2>8
  <2> QED
    BY <2>1, <2>5, <2>9
<1> SUFFICES ASSUME NEW c \in Cores, NEW i \in 1 .. Len(Program(c)), Program(c)[i].check
             PROVE  <<ncores, kernel, i>> \in RightChecks
  BY DEF PlansRight
<1>8. c = 0 /\ i \in {3, 5}
  BY <1>7
<1>9. Program(c) = Programs[ncores][1][kernel]
  BY <1>8 DEF Program
<1>10. RightAt(ncores, kernel, i)
  BY <1>6, <1>8
<1> QED
  BY <1>9, <1>10, InRightChecks

\* Those that give a core a block of rows or columns of its own, if n divides lda.
\* The arrays B_t of ar and B1 of dm have room for 32 rows of 32.
OwnKernels(n) ==
  {"ap", "matmul"}
  \cup (IF Lda <= 32 THEN {"ar"} ELSE {})
  \cup (IF Lda % 4 = 0 THEN {"ai", "ci"} ELSE {})
  \cup (IF Lda % 4 = 0 /\ Blk(n) % 4 = 0 THEN {"bb", "bm"} ELSE {})
  \cup (IF Lda % 4 = 0 /\ Blk(n) % 4 = 0 /\ Lda <= 32 THEN {"dm"} ELSE {})
  \cup (IF Lda = 32 /\ Blk(n) % 8 = 0 THEN {"at"} ELSE {})
  \cup (IF Lda = 32 THEN {"do"} ELSE {})
  \cup (IF Lda = 32 /\ Blk(n) % 2 = 0 THEN {"af", "am", "du"} ELSE {})

\* Their check passes.
LEMMA OwnRight ==
  ASSUME MatmulTest, Lda % ncores = 0, kernel \in OwnKernels(ncores)
  PROVE  PlansRight
<1>1. CASE Lda % 4 = 0 /\ (kernel \in {"ai", "ci"} \/ (kernel = "dm" /\ Blk(ncores) % 4 = 0))
  BY <1>1, TwoSegmentsRight
<1>2. CASE \/ kernel \in {"ap", "ar", "matmul"}
           \/ Lda = 32 /\ kernel = "do"
           \/ Lda % 4 = 0 /\ Blk(ncores) % 4 = 0 /\ kernel \in {"bb", "bm"}
           \/ Lda = 32 /\ Blk(ncores) % 2 = 0 /\ kernel \in {"af", "am", "du"}
           \/ Lda = 32 /\ Blk(ncores) % 8 = 0 /\ kernel = "at"
  BY <1>2, OwnBlocksRight
<1> QED
  BY <1>1, <1>2 DEF OwnKernels

\* Segment s of a loop of two nested loops, the inner one of w turns.
Outer(s, w) == (s - 1) \div w
Inner(s, w) == (s - 1) % w

OneTurn(m, w, h, l) ==
  \E s \in 1 .. m :
    /\ Outer(s, w) = h /\ Inner(s, w) = l
    /\ \A u \in 1 .. m : Outer(u, w) = h /\ Inner(u, w) = l => u = s

LEMMA DigitsOf ==
  ASSUME NEW K \in Nat, NEW w \in Nat \ {0}, NEW h \in 0 .. (K - 1), NEW l \in 0 .. (w - 1),
         NEW m \in Nat, m = K * w
  PROVE  OneTurn(m, w, h, l)
<1>1. PICK a \in Nat : a = w * h + l
  OBVIOUS
<1>2. a + 1 \in 1 .. m
  <2>1. PICK e \in Nat : K = h + 1 + e
    <3>1. K - (h + 1) \in Nat /\ K = h + 1 + (K - (h + 1))
      OBVIOUS
    <3> QED
      BY <3>1
  <2>2. K * w = w * h + w + e * w /\ e * w \in Nat /\ w * h \in Nat
    BY <2>1
  <2> QED
    BY <1>1, <2>2
<1>3. a \div w = h
  <2>1. PICK q \in Nat : a = w * q + (a % w) /\ q = a \div w
    <3>1. a \div w \in Nat /\ a = w * (a \div w) + (a % w)
      OBVIOUS
    <3> QED
      BY <3>1
  <2>2. a % w \in 0 .. (w - 1)
    OBVIOUS
  <2>3. w * h + l = w * q + (a % w) /\ w * h \in Nat /\ w * q \in Nat
    BY <1>1, <2>1
  <2>4. CASE q < h
    <3>1. PICK z \in Nat : h = q + 1 + z
      BY <2>4
    <3>2. w * h = w * q + w + w * z /\ w * z \in Nat
      BY <3>1
    <3> QED
      BY <2>2, <2>3, <3>2
  <2>5. CASE h < q
    <3>1. PICK z \in Nat : q = h + 1 + z
      BY <2>5
    <3>2. w * q = w * h + w + w * z /\ w * z \in Nat
      BY <3>1
    <3> QED
      BY <2>2, <2>3, <3>2
  <2> QED
    BY <2>1, <2>4, <2>5
<1>4. \A x \in Nat : x = w * (x \div w) + (x % w)
  OBVIOUS
<1>5. a % w = l
  <2>1. w * h \in Nat /\ a = w * h + (a % w) /\ a % w \in Int
    BY <1>3, <1>4
  <2> QED
    BY <1>1, <2>1
<1>6. ASSUME NEW u \in 1 .. m, Outer(u, w) = h, Inner(u, w) = l PROVE u = a + 1
  <2>1. u - 1 \in Nat /\ (u - 1) \div w = h /\ (u - 1) % w = l
    BY <1>6 DEF Outer, Inner
  <2>2. u - 1 = w * h + l
    BY <1>4, <2>1
  <2> QED
    BY <1>1, <2>1, <2>2
<1>7. Outer(a + 1, w) = h /\ Inner(a + 1, w) = l
  <2>1. (a + 1) - 1 = a
    OBVIOUS
  <2> QED
    BY <1>3, <1>5, <2>1 DEF Outer, Inner
<1> QED
  BY <1>2, <1>6, <1>7 DEF OneTurn

\* The product is added by one block of b[c][s], that of core c in turn h, l.
AddedAt(n, w, m, b, r, col, t, c, h, l) ==
  \A d \in 0 .. (n - 1), s \in 1 .. m :
    Adds(b[d][s], r, col, t) <=> d = c /\ Outer(s, w) = h /\ Inner(s, w) = l

\* The blocks b[c][s] of n cores in m = K * w segments add every product in one
\* turn of one core.
LoopDealt(n, K, w, m, b) ==
  /\ \A c \in 0 .. (n - 1), s \in 1 .. m :
       b[c][s].terms \subseteq All /\ b[c][s].terms # {}
       /\ (b[c][s].op # "set" \/ b[c][s].terms = All)
  /\ \A r, col, t \in All :
       \E c \in 0 .. (n - 1), h \in 0 .. (K - 1), l \in 0 .. (w - 1) :
         AddedAt(n, w, m, b, r, col, t, c, h, l)

\* Plans of m0 segments that store nothing, the loop, and an idle segment.
LoopPlan(p, m0, m, b) ==
  /\ IsPlan(p) /\ Len(p) = m0 + m + 1
  /\ \A i \in 1 .. m0 : p[i].stores = {}
  /\ \A s \in 1 .. m : p[m0 + s].stores = {b[s]}
  /\ p[m0 + m + 1].stores = {}

LEMMA LoopRight ==
  ASSUME MatmulTest, NEW K \in Nat, NEW w \in Nat \ {0}, NEW m \in Nat, m = K * w,
         NEW b, LoopDealt(ncores, K, w, m, b), NEW m0 \in Nat, NEW p,
         \A c \in Cores : /\ Linked(c, ncores)[kernel] = MatmulProgram(p[c])
                          /\ LoopPlan(p[c], m0, m, b[c])
  PROVE  PlansRight
<1> DEFINE n == ncores
<1>1. n \in Nat \ {0} /\ Cores = 0 .. (n - 1)
  BY DEF MatmulTest, Cores
<1>3. \A c \in Cores : LoopPlan(p[c], m0, m, b[c])
  OBVIOUS
<1>4. ASSUME NEW c \in 0 .. (n - 1), NEW i \in 1 .. (m0 + m + 1), NEW e \in p[c][i].stores
      PROVE  \E s \in 1 .. m : i = m0 + s /\ e = b[c][s]
  <2>1. LoopPlan(p[c], m0, m, b[c])
    BY <1>1, <1>3
  <2>2. i \notin 1 .. m0 /\ i # m0 + m + 1
    BY <1>4, <2>1 DEF LoopPlan
  <2>3. PICK s \in 1 .. m : i = m0 + s
    <3>1. i - m0 \in 1 .. m /\ i = m0 + (i - m0)
      BY <2>2
    <3> QED
      BY <3>1
  <2>4. e = b[c][s]
    BY <2>1, <2>3 DEF LoopPlan
  <2> QED
    BY <2>3, <2>4
<1>5. \A c \in 0 .. (n - 1), s \in 1 .. m : m0 + s \in 1 .. (m0 + m + 1) /\ b[c][s] \in p[c][m0 + s].stores
  <2> TAKE c \in 0 .. (n - 1), s \in 1 .. m
  <2>1. LoopPlan(p[c], m0, m, b[c])
    BY <1>1, <1>3
  <2> QED
    BY <2>1 DEF LoopPlan
<1>6. ASSUME NEW r \in All, NEW col \in All, NEW t \in All
      PROVE  \E c \in 0 .. (n - 1), i \in 1 .. (m0 + m + 1) : \E e \in p[c][i].stores :
               /\ Adds(e, r, col, t)
               /\ \A d \in 0 .. (n - 1), j \in 1 .. (m0 + m + 1) : \A f \in p[d][j].stores :
                    Adds(f, r, col, t) => d = c /\ j = i /\ f = e
  <2>1. PICK c \in 0 .. (n - 1), h \in 0 .. (K - 1), l \in 0 .. (w - 1) :
          AddedAt(n, w, m, b, r, col, t, c, h, l)
    BY DEF LoopDealt
  <2>2. PICK s \in 1 .. m : /\ Outer(s, w) = h /\ Inner(s, w) = l
                            /\ \A u \in 1 .. m : Outer(u, w) = h /\ Inner(u, w) = l => u = s
    <3>1. OneTurn(m, w, h, l)
      BY DigitsOf
    <3> QED
      BY <3>1 DEF OneTurn
  <2>3. /\ m0 + s \in 1 .. (m0 + m + 1) /\ b[c][s] \in p[c][m0 + s].stores
        /\ Adds(b[c][s], r, col, t)
    BY <1>5, <2>1, <2>2 DEF AddedAt
  <2>4. ASSUME NEW d \in 0 .. (n - 1), NEW j \in 1 .. (m0 + m + 1), NEW f \in p[d][j].stores,
               Adds(f, r, col, t)
        PROVE  d = c /\ j = m0 + s /\ f = b[c][s]
    <3>1. PICK u \in 1 .. m : j = m0 + u /\ f = b[d][u]
      BY <1>4
    <3> QED
      BY <2>1, <2>2, <2>4, <3>1 DEF AddedAt
  <2> QED
    BY <2>3, <2>4
<1>7. \A c \in 0 .. (n - 1) : \A i \in 1 .. (m0 + m + 1) : \A e \in p[c][i].stores :
        e.terms \subseteq All /\ e.terms # {} /\ (e.op # "set" \/ e.terms = All)
  <2> TAKE c \in 0 .. (n - 1)
  <2> TAKE i \in 1 .. (m0 + m + 1)
  <2> TAKE e \in p[c][i].stores
  <2>1. PICK s \in 1 .. m : e = b[c][s]
    BY <1>4
  <2> QED
    BY <2>1 DEF LoopDealt
<1>8. PICK len \in Nat : len = m0 + m + 1
  OBVIOUS
<1>9. AddedOnce(n, len, p)
  <2>1. AddedOnce(n, m0 + m + 1, p)
    BY <1>6, <1>7, Zenon DEF AddedOnce
  <2> QED
    BY <1>8, <2>1
<1>10. \A c \in Cores : /\ Linked(c, ncores)[kernel] = MatmulProgram(p[c])
                       /\ IsPlan(p[c]) /\ Len(p[c]) = len
  BY <1>3, <1>8 DEF LoopPlan
<1> QED
  BY <1>9, <1>10, OnceRight DEF MatmulTest

\* A loop, with or without segments that store nothing before it.
LEMMA LoopIsPlan ==
  ASSUME NEW m \in Nat, NEW f, f = [s \in 1 .. m |-> f[s]], NEW b,
         \A s \in 1 .. m : f[s].stores = {b[s]}
  PROVE  /\ LoopPlan(f \o <<Idle>>, 0, m, b)
         /\ \A a : \A m0 \in Nat :
              IsPlan(a) /\ Len(a) = m0 /\ (\A i \in 1 .. m0 : a[i].stores = {}) =>
                LoopPlan((a \o f) \o <<Idle>>, m0, m, b)
<1>1. IsPlan(f) /\ Len(f) = m
  <2>1. IsPlan(f) /\ DOMAIN f = 1 .. m
    BY DEF IsPlan
  <2> QED
    BY <2>1, PlanLength
<1>2. Idle.stores = {}
  BY DEF Idle, Seg, Segment
<1>3. LoopPlan(f \o <<Idle>>, 0, m, b)
  <2>1. /\ IsPlan(f \o <<Idle>>) /\ Len(f \o <<Idle>>) = Len(f) + 1
        /\ \A i \in 1 .. Len(f) : (f \o <<Idle>>)[i] = f[i]
        /\ (f \o <<Idle>>)[Len(f) + 1] = Idle
    BY <1>1, PlanSnoc
  <2> DEFINE p == f \o <<Idle>>
  <2> HIDE DEF p
  <2>2. IsPlan(p) /\ Len(p) = m + 1 /\ (\A i \in 1 .. m : p[i] = f[i]) /\ p[m + 1] = Idle
    BY <1>1, <2>1 DEF p
  <2>3. 0 + m + 1 = m + 1 /\ \A s \in 1 .. m : 0 + s = s
    OBVIOUS
  <2>4. LoopPlan(p, 0, m, b)
    BY <1>2, <2>2, <2>3 DEF LoopPlan
  <2> QED
    BY <2>4 DEF p
<1>4. ASSUME NEW a, NEW m0 \in Nat, IsPlan(a), Len(a) = m0, \A i \in 1 .. m0 : a[i].stores = {}
      PROVE  LoopPlan((a \o f) \o <<Idle>>, m0, m, b)
  <2> DEFINE g == a \o f
             p == g \o <<Idle>>
  <2>1. /\ IsPlan(g) /\ Len(g) = m0 + m
        /\ \A i \in 1 .. m0 : g[i] = a[i]
        /\ \A i \in 1 .. m : g[m0 + i] = f[i]
    BY <1>1, <1>4, PlanConcat
  <2> HIDE DEF g
  <2>2. /\ IsPlan(p) /\ Len(p) = Len(g) + 1
        /\ \A i \in 1 .. Len(g) : p[i] = g[i]
        /\ p[Len(g) + 1] = Idle
    BY <2>1, PlanSnoc
  <2> HIDE DEF p
  <2>3. /\ \A i \in 1 .. m0 : p[i] = a[i]
        /\ \A i \in 1 .. m : p[m0 + i] = f[i]
    <3>1. \A i \in 1 .. m0 : i \in 1 .. (m0 + m)
      OBVIOUS
    <3>2. \A i \in 1 .. m : m0 + i \in 1 .. (m0 + m)
      OBVIOUS
    <3> QED
      BY <2>1, <2>2, <3>1, <3>2
  <2>4. LoopPlan(p, m0, m, b)
    BY <1>2, <1>4, <2>1, <2>2, <2>3 DEF LoopPlan
  <2> QED
    BY <2>4 DEF p, g
<1> QED
  BY <1>3, <1>4

\* The turns of a loop are numbers of two digits.
LEMMA DigitsIn ==
  ASSUME NEW K \in Nat, NEW w \in Nat, NEW m \in Nat, m = K * w, NEW s \in 1 .. m
  PROVE  Outer(s, w) \in 0 .. (K - 1) /\ Inner(s, w) \in 0 .. (w - 1)
<1>1. PICK a \in Nat : a = s - 1 /\ a < K * w
  <2>1. s - 1 \in Nat /\ s - 1 < m
    OBVIOUS
  <2> QED
    BY <2>1
<1>2. w # 0 /\ a \div w \in 0 .. (K - 1)
  BY <1>1, QuotientBelow, Zenon
<1>3. a % w \in 0 .. (w - 1)
  <2>1. w \in Nat \ {0}
    BY <1>2
  <2> QED
    BY <2>1
<1> QED
  BY <1>1, <1>2, <1>3, Zenon DEF Outer, Inner

\* The product is added by the block of this core and turn alone.
OnlyAt(n, K, w, B, r, col, t, c, h, l) ==
  \A d \in 0 .. (n - 1), x \in 0 .. (K - 1), y \in 0 .. (w - 1) :
    Adds(B[d][x][y], r, col, t) <=> d = c /\ x = h /\ y = l

\* Blocks B[c][h][l], one for each turn of the nested loops of each core, that
\* add every product once.
Grid(n, K, w, B) ==
  /\ \A c \in 0 .. (n - 1), h \in 0 .. (K - 1), l \in 0 .. (w - 1) :
       /\ B[c][h][l].terms \subseteq All /\ B[c][h][l].terms # {}
       /\ B[c][h][l].op # "set" \/ B[c][h][l].terms = All
  /\ \A r, col, t \in All :
       \E c \in 0 .. (n - 1), h \in 0 .. (K - 1), l \in 0 .. (w - 1) :
         OnlyAt(n, K, w, B, r, col, t, c, h, l)

\* Loops that store such blocks deal the products out.
LEMMA GridDealt ==
  ASSUME NEW n \in Nat \ {0}, NEW K \in Nat, NEW w \in Nat, NEW m \in Nat, m = K * w,
         NEW B, Grid(n, K, w, B), NEW b,
         \A c \in 0 .. (n - 1), s \in 1 .. m : b[c][s] = B[c][Outer(s, w)][Inner(s, w)]
  PROVE  LoopDealt(n, K, w, m, b)
<1>1. \A s \in 1 .. m : Outer(s, w) \in 0 .. (K - 1) /\ Inner(s, w) \in 0 .. (w - 1)
  BY DigitsIn
<1>2. \A c \in 0 .. (n - 1), s \in 1 .. m :
        b[c][s].terms \subseteq All /\ b[c][s].terms # {}
        /\ (b[c][s].op # "set" \/ b[c][s].terms = All)
  <2> TAKE c \in 0 .. (n - 1), s \in 1 .. m
  <2>1. PICK h \in 0 .. (K - 1), l \in 0 .. (w - 1) : b[c][s] = B[c][h][l]
    BY <1>1
  <2> QED
    BY <2>1 DEF Grid
<1>3. ASSUME NEW r \in All, NEW col \in All, NEW t \in All
      PROVE  \E c \in 0 .. (n - 1), h \in 0 .. (K - 1), l \in 0 .. (w - 1) :
               AddedAt(n, w, m, b, r, col, t, c, h, l)
  <2>1. PICK c \in 0 .. (n - 1), h \in 0 .. (K - 1), l \in 0 .. (w - 1) :
          OnlyAt(n, K, w, B, r, col, t, c, h, l)
    BY Zenon DEF Grid
  <2>2. AddedAt(n, w, m, b, r, col, t, c, h, l)
    <3> SUFFICES ASSUME NEW d \in 0 .. (n - 1), NEW s \in 1 .. m
                 PROVE  Adds(b[d][s], r, col, t) <=> d = c /\ Outer(s, w) = h /\ Inner(s, w) = l
      BY DEF AddedAt
    <3>1. PICK x \in 0 .. (K - 1), y \in 0 .. (w - 1) :
            x = Outer(s, w) /\ y = Inner(s, w) /\ b[d][s] = B[d][x][y]
      BY <1>1
    <3>2. Adds(B[d][x][y], r, col, t) <=> d = c /\ x = h /\ y = l
      BY <2>1 DEF OnlyAt
    <3> QED
      BY <3>1, <3>2
  <2> QED
    BY <2>2
<1> QED
  BY <1>2, <1>3, Zenon DEF LoopDealt

\* The blocks b[c][s] of the turns of the loops, and plans p that store them.
TurnBlocks(n, m, w, B, b) ==
  \A c \in 0 .. (n - 1), s \in 1 .. m : b[c][s] = B[c][Outer(s, w)][Inner(s, w)]

LoopPlans(m0, m, b, p) ==
  \A c \in Cores : /\ Linked(c, ncores)[kernel] = MatmulProgram(p[c])
                   /\ LoopPlan(p[c], m0, m, b[c])

\* Plans of such loops: the check passes.
LEMMA GridRight ==
  ASSUME MatmulTest, NEW K \in Nat, NEW w \in Nat \ {0}, NEW m \in Nat, m = K * w,
         NEW B, Grid(ncores, K, w, B), NEW b, TurnBlocks(ncores, m, w, B, b),
         NEW m0 \in Nat, NEW p, LoopPlans(m0, m, b, p)
  PROVE  PlansRight
<1>1. ncores \in Nat \ {0} /\ w \in Nat
  BY DEF MatmulTest
<1>2. LoopDealt(ncores, K, w, m, b)
  BY <1>1, GridDealt DEF TurnBlocks
<1>3. \A c \in Cores : /\ Linked(c, ncores)[kernel] = MatmulProgram(p[c])
                       /\ LoopPlan(p[c], m0, m, b[c])
  BY DEF LoopPlans
<1> QED
  BY <1>2, <1>3, LoopRight, Zenon

\* Groups of one, two or four cut the numbers of a matrix up.
LEMMA GroupsCut ==
  ASSUME NEW g \in {1, 2, 4}, NEW N \in Nat, Lda = g * N
  PROVE  Partition(All, N, [l \in 0 .. (N - 1) |-> (g * l) .. (g * l + g - 1)])
<1> DEFINE G == [l \in 0 .. (N - 1) |-> (g * l) .. (g * l + g - 1)]
<1>1. \A l \in 0 .. (N - 1) : G[l] = (g * l) .. (g * l + g - 1)
  OBVIOUS
<1> HIDE DEF G
<1>2. ASSUME NEW x \in All
      PROVE  \E c \in 0 .. (N - 1) : \A d \in 0 .. (N - 1) : x \in G[d] <=> d = c
  <2>1. x \in Nat /\ x < g * N
    BY LdaAssumption DEF All
  <2>2. PICK c \in 0 .. (N - 1) : \A d \in 0 .. (N - 1) : x \in (g * d) .. (g * d + g - 1) <=> d = c
    <3>1. CASE g = 1
      <4>1. x \in 0 .. (N - 1) /\ \A d \in 0 .. (N - 1) : x \in (1 * d) .. (1 * d + 1 - 1) <=> d = x
        BY <2>1, <3>1
      <4> QED
        BY <3>1, <4>1
    <3>2. CASE g = 2
      <4>1. x \div 2 \in 0 .. (N - 1)
            /\ \A d \in 0 .. (N - 1) : x \in (2 * d) .. (2 * d + 2 - 1) <=> d = x \div 2
        BY <2>1, <3>2
      <4> QED
        BY <3>2, <4>1
    <3>3. CASE g = 4
      <4>1. x \div 4 \in 0 .. (N - 1)
            /\ \A d \in 0 .. (N - 1) : x \in (4 * d) .. (4 * d + 4 - 1) <=> d = x \div 4
        BY <2>1, <3>3
      <4> QED
        BY <3>3, <4>1
    <3> QED
      BY <3>1, <3>2, <3>3
  <2> QED
    BY <1>1, <2>2, Zenon
<1>3. Partition(All, N, G)
  BY <1>2 DEF Partition
<1> QED
  BY <1>3 DEF G

\* A row is row k of one core.
RowOf(n, r, c, k) ==
  \A d \in 0 .. (n - 1), x \in 0 .. (Blk(n) - 1) : r = d * Blk(n) + x <=> d = c /\ x = k

LEMMA OwnRow ==
  ASSUME NEW n \in Nat \ {0}, Lda % n = 0, NEW r \in All
  PROVE  \E c \in 0 .. (n - 1), k \in 0 .. (Blk(n) - 1) : RowOf(n, r, c, k)
<1>1. PICK c \in 0 .. (n - 1) : \A d \in 0 .. (n - 1) : r \in Own(d, n) <=> d = c
  BY OwnCover
<1>2. PICK b \in Nat : b = Blk(n)
  BY Products
<1>3. ASSUME NEW d \in 0 .. (n - 1)
      PROVE  d * b \in Nat /\ Own(d, n) = (d * b) .. (d * b + b - 1)
  <2>1. PICK x \in Nat : x = d * b /\ (d + 1) * b = x + b
    OBVIOUS
  <2>2. Own(d, n) = (d * b) .. ((d + 1) * b - 1)
    BY <1>2 DEF Own
  <2> QED
    BY <2>1, <2>2
<1>4. r \in Int
  BY DEF All
<1>5. PICK k \in 0 .. (b - 1) : r = c * b + k
  <2>1. PICK y \in Nat : y = c * b /\ Own(c, n) = y .. (y + b - 1)
    BY <1>3
  <2>2. r \in y .. (y + b - 1)
    BY <1>1, <2>1
  <2>3. r - y \in 0 .. (b - 1) /\ r = y + (r - y)
    BY <1>4, <2>2
  <2> QED
    BY <2>1, <2>3
<1>6. ASSUME NEW d \in 0 .. (n - 1), NEW x \in 0 .. (b - 1)
      PROVE  r = d * b + x <=> d = c /\ x = k
  <2>1. ASSUME r = d * b + x PROVE d = c /\ x = k
    <3>1. PICK y \in Nat : y = d * b /\ Own(d, n) = y .. (y + b - 1)
      BY <1>3
    <3>2. r = y + x
      BY <2>1, <3>1
    <3>3. r \in y .. (y + b - 1)
      BY <3>2
    <3>4. d = c
      BY <1>1, <3>1, <3>3
    <3>5. r = y + k
      BY <1>5, <3>1, <3>4
    <3> QED
      BY <3>2, <3>4, <3>5
  <2> QED
    BY <1>5, <2>1
<1>7. RowOf(n, r, c, k)
  <2>1. \A d \in 0 .. (n - 1), x \in 0 .. (b - 1) : r = d * b + x <=> d = c /\ x = k
    BY <1>6
  <2> SUFFICES ASSUME NEW d \in 0 .. (n - 1), NEW x \in 0 .. (Blk(n) - 1)
               PROVE  r = d * Blk(n) + x <=> d = c /\ x = k
    BY DEF RowOf
  <2>2. x \in 0 .. (b - 1)
    BY <1>2
  <2>3. r = d * b + x <=> d = c /\ x = k
    BY <2>1, <2>2, Zenon
  <2> QED
    BY <1>2, <2>3, Zenon
<1> QED
  BY <1>2, <1>5, <1>7, Zenon

\* Each row belongs to one turn of one core.
CoreTurns(n, K, R) ==
  \A r \in All :
    \E c \in 0 .. (n - 1), h \in 0 .. (K - 1) :
      \A d \in 0 .. (n - 1), x \in 0 .. (K - 1) : r \in R[d][x] <=> d = c /\ x = h

\* The terms in w groups.
TermsCut(w, S) == Partition(All, w, S) /\ \A l \in 0 .. (w - 1) : S[l] \subseteq All /\ S[l] # {}

\* The rows go by the outer loop, the products by the inner one.
RowsTerms(n, K, w, stride, R, S, B) ==
  \A c \in 0 .. (n - 1), h \in 0 .. (K - 1), l \in 0 .. (w - 1) :
    B[c][h][l] = Block("add", stride, R[c][h], All, S[l])

LEMMA RowsThenTerms ==
  ASSUME NEW n \in Nat \ {0}, NEW K \in Nat, NEW w \in Nat, NEW R, CoreTurns(n, K, R),
         NEW S, TermsCut(w, S), NEW stride, NEW B, RowsTerms(n, K, w, stride, R, S, B)
  PROVE  Grid(n, K, w, B)
<1>1. \A rows, terms : /\ Block("add", stride, rows, All, terms).rows = rows
                       /\ Block("add", stride, rows, All, terms).cols = All
                       /\ Block("add", stride, rows, All, terms).terms = terms
                       /\ Block("add", stride, rows, All, terms).op # "set"
  BY DEF Block
<1>2. ASSUME NEW c \in 0 .. (n - 1), NEW h \in 0 .. (K - 1), NEW l \in 0 .. (w - 1)
      PROVE  /\ B[c][h][l].rows = R[c][h] /\ B[c][h][l].cols = All
             /\ B[c][h][l].terms = S[l] /\ B[c][h][l].op # "set"
  <2>1. B[c][h][l] = Block("add", stride, R[c][h], All, S[l])
    BY DEF RowsTerms
  <2> QED
    BY <1>1, <2>1
<1>3. ASSUME NEW r \in All, NEW col \in All, NEW t \in All
      PROVE  \E c \in 0 .. (n - 1), h \in 0 .. (K - 1), l \in 0 .. (w - 1) :
               OnlyAt(n, K, w, B, r, col, t, c, h, l)
  <2>1. PICK c \in 0 .. (n - 1), h \in 0 .. (K - 1) :
          \A d \in 0 .. (n - 1), x \in 0 .. (K - 1) : r \in R[d][x] <=> d = c /\ x = h
    BY DEF CoreTurns
  <2>2. PICK l \in 0 .. (w - 1) : \A y \in 0 .. (w - 1) : t \in S[y] <=> y = l
    BY DEF TermsCut, Partition
  <2>3. OnlyAt(n, K, w, B, r, col, t, c, h, l)
    BY <1>2, <2>1, <2>2 DEF OnlyAt, Adds
  <2> QED
    BY <2>3
<1>4. \A c \in 0 .. (n - 1), h \in 0 .. (K - 1), l \in 0 .. (w - 1) :
        /\ B[c][h][l].terms \subseteq All /\ B[c][h][l].terms # {}
        /\ B[c][h][l].op # "set" \/ B[c][h][l].terms = All
  <2> TAKE c \in 0 .. (n - 1), h \in 0 .. (K - 1), l \in 0 .. (w - 1)
  <2>1. B[c][h][l].terms = S[l] /\ B[c][h][l].op # "set"
    BY <1>2
  <2>2. S[l] \subseteq All /\ S[l] # {}
    BY DEF TermsCut
  <2> QED
    BY <2>1, <2>2, Zenon
<1> QED
  BY <1>3, <1>4, Zenon DEF Grid

\* The rows and the columns go by one loop each, the outer one for the rows, or
\* the inner one.
RowsColumns(n, K, w, stride, R, S, B) ==
  \A c \in 0 .. (n - 1), h \in 0 .. (K - 1), l \in 0 .. (w - 1) :
    B[c][h][l] = Block("set", stride, R[c][h], S[l], All)

ColumnsRows(n, K, w, stride, R, S, B) ==
  \A c \in 0 .. (n - 1), h \in 0 .. (K - 1), l \in 0 .. (w - 1) :
    B[c][h][l] = Block("set", stride, R[c][l], S[h], All)

LEMMA RowsAndColumns ==
  ASSUME NEW n \in Nat \ {0}, NEW K \in Nat, NEW w \in Nat, NEW stride, NEW R, NEW S, NEW B,
         \/ /\ CoreTurns(n, K, R) /\ Partition(All, w, S)
            /\ RowsColumns(n, K, w, stride, R, S, B)
         \/ /\ CoreTurns(n, w, R) /\ Partition(All, K, S)
            /\ ColumnsRows(n, K, w, stride, R, S, B)
  PROVE  Grid(n, K, w, B)
<1>1. \A rows, cols : /\ Block("set", stride, rows, cols, All).rows = rows
                      /\ Block("set", stride, rows, cols, All).cols = cols
                      /\ Block("set", stride, rows, cols, All).terms = All
  BY DEF Block
<1>2. CASE /\ CoreTurns(n, K, R) /\ Partition(All, w, S)
           /\ RowsColumns(n, K, w, stride, R, S, B)
  <2>1. ASSUME NEW c \in 0 .. (n - 1), NEW h \in 0 .. (K - 1), NEW l \in 0 .. (w - 1)
        PROVE  B[c][h][l].rows = R[c][h] /\ B[c][h][l].cols = S[l] /\ B[c][h][l].terms = All
    <3>1. B[c][h][l] = Block("set", stride, R[c][h], S[l], All)
      BY <1>2 DEF RowsColumns
    <3> QED
      BY <1>1, <3>1
  <2>2. ASSUME NEW r \in All, NEW col \in All, NEW t \in All
        PROVE  \E c \in 0 .. (n - 1), h \in 0 .. (K - 1), l \in 0 .. (w - 1) :
                 OnlyAt(n, K, w, B, r, col, t, c, h, l)
    <3>1. PICK c \in 0 .. (n - 1), h \in 0 .. (K - 1) :
            \A d \in 0 .. (n - 1), x \in 0 .. (K - 1) : r \in R[d][x] <=> d = c /\ x = h
      BY <1>2 DEF CoreTurns
    <3>2. PICK l \in 0 .. (w - 1) : \A y \in 0 .. (w - 1) : col \in S[y] <=> y = l
      BY <1>2 DEF Partition
    <3>3. OnlyAt(n, K, w, B, r, col, t, c, h, l)
      BY <2>1, <3>1, <3>2 DEF OnlyAt, Adds
    <3> QED
      BY <3>3
  <2>3. \A c \in 0 .. (n - 1), h \in 0 .. (K - 1), l \in 0 .. (w - 1) :
          /\ B[c][h][l].terms \subseteq All /\ B[c][h][l].terms # {}
          /\ B[c][h][l].op # "set" \/ B[c][h][l].terms = All
    <3> TAKE c \in 0 .. (n - 1), h \in 0 .. (K - 1), l \in 0 .. (w - 1)
    <3>1. B[c][h][l].terms = All
      BY <2>1
    <3> QED
      BY <3>1, AllNotEmpty, Zenon
  <2> QED
    BY <2>2, <2>3, Zenon DEF Grid
<1>3. CASE /\ CoreTurns(n, w, R) /\ Partition(All, K, S)
           /\ ColumnsRows(n, K, w, stride, R, S, B)
  <2>1. ASSUME NEW c \in 0 .. (n - 1), NEW h \in 0 .. (K - 1), NEW l \in 0 .. (w - 1)
        PROVE  B[c][h][l].rows = R[c][l] /\ B[c][h][l].cols = S[h] /\ B[c][h][l].terms = All
    <3>1. B[c][h][l] = Block("set", stride, R[c][l], S[h], All)
      BY <1>3 DEF ColumnsRows
    <3> QED
      BY <1>1, <3>1
  <2>2. ASSUME NEW r \in All, NEW col \in All, NEW t \in All
        PROVE  \E c \in 0 .. (n - 1), h \in 0 .. (K - 1), l \in 0 .. (w - 1) :
                 OnlyAt(n, K, w, B, r, col, t, c, h, l)
    <3>1. PICK c \in 0 .. (n - 1), l \in 0 .. (w - 1) :
            \A d \in 0 .. (n - 1), y \in 0 .. (w - 1) : r \in R[d][y] <=> d = c /\ y = l
      BY <1>3 DEF CoreTurns
    <3>2. PICK h \in 0 .. (K - 1) : \A x \in 0 .. (K - 1) : col \in S[x] <=> x = h
      BY <1>3 DEF Partition
    <3>3. OnlyAt(n, K, w, B, r, col, t, c, h, l)
      BY <2>1, <3>1, <3>2 DEF OnlyAt, Adds
    <3> QED
      BY <3>3
  <2>3. \A c \in 0 .. (n - 1), h \in 0 .. (K - 1), l \in 0 .. (w - 1) :
          /\ B[c][h][l].terms \subseteq All /\ B[c][h][l].terms # {}
          /\ B[c][h][l].op # "set" \/ B[c][h][l].terms = All
    <3> TAKE c \in 0 .. (n - 1), h \in 0 .. (K - 1), l \in 0 .. (w - 1)
    <3>1. B[c][h][l].terms = All
      BY <2>1
    <3> QED
      BY <3>1, AllNotEmpty, Zenon
  <2> QED
    BY <2>2, <2>3, Zenon DEF Grid
<1> QED
  BY <1>2, <1>3

\* All the core's rows in every turn, the columns by the outer loop and the
\* products by the inner one.
ColumnsTerms(n, K, w, stride, R, C, S, B) ==
  \A c \in 0 .. (n - 1), h \in 0 .. (K - 1), l \in 0 .. (w - 1) :
    B[c][h][l] = Block("add", stride, R[c], C[h], S[l])

LEMMA ColumnsThenTerms ==
  ASSUME NEW n \in Nat \ {0}, NEW K \in Nat, NEW w \in Nat, NEW stride,
         NEW R, Partition(All, n, R), NEW C, Partition(All, K, C),
         NEW S, TermsCut(w, S), NEW B, ColumnsTerms(n, K, w, stride, R, C, S, B)
  PROVE  Grid(n, K, w, B)
<1>1. \A rows, cols, terms : /\ Block("add", stride, rows, cols, terms).rows = rows
                             /\ Block("add", stride, rows, cols, terms).cols = cols
                             /\ Block("add", stride, rows, cols, terms).terms = terms
                             /\ Block("add", stride, rows, cols, terms).op # "set"
  BY DEF Block
<1>2. ASSUME NEW c \in 0 .. (n - 1), NEW h \in 0 .. (K - 1), NEW l \in 0 .. (w - 1)
      PROVE  /\ B[c][h][l].rows = R[c] /\ B[c][h][l].cols = C[h]
             /\ B[c][h][l].terms = S[l] /\ B[c][h][l].op # "set"
  <2>1. B[c][h][l] = Block("add", stride, R[c], C[h], S[l])
    BY DEF ColumnsTerms
  <2> QED
    BY <1>1, <2>1
<1>3. ASSUME NEW r \in All, NEW col \in All, NEW t \in All
      PROVE  \E c \in 0 .. (n - 1), h \in 0 .. (K - 1), l \in 0 .. (w - 1) :
               OnlyAt(n, K, w, B, r, col, t, c, h, l)
  <2>1. PICK c \in 0 .. (n - 1) : \A d \in 0 .. (n - 1) : r \in R[d] <=> d = c
    BY DEF Partition
  <2>2. PICK h \in 0 .. (K - 1) : \A x \in 0 .. (K - 1) : col \in C[x] <=> x = h
    BY DEF Partition
  <2>3. PICK l \in 0 .. (w - 1) : \A y \in 0 .. (w - 1) : t \in S[y] <=> y = l
    BY DEF TermsCut, Partition
  <2>4. OnlyAt(n, K, w, B, r, col, t, c, h, l)
    <3> SUFFICES ASSUME NEW d \in 0 .. (n - 1), NEW x \in 0 .. (K - 1), NEW y \in 0 .. (w - 1)
                 PROVE  Adds(B[d][x][y], r, col, t) <=> (d = c /\ x = h /\ y = l)
      BY Zenon DEF OnlyAt
    <3>1. Adds(B[d][x][y], r, col, t) <=> r \in R[d] /\ col \in C[x] /\ t \in S[y]
      <4>1. B[d][x][y].rows = R[d] /\ B[d][x][y].cols = C[x] /\ B[d][x][y].terms = S[y]
        BY <1>2
      <4> QED
        BY <4>1, Zenon DEF Adds
    <3> QED
      BY <2>1, <2>2, <2>3, <3>1, Zenon
  <2> QED
    BY <2>4
<1>4. \A c \in 0 .. (n - 1), h \in 0 .. (K - 1), l \in 0 .. (w - 1) :
        /\ B[c][h][l].terms \subseteq All /\ B[c][h][l].terms # {}
        /\ B[c][h][l].op # "set" \/ B[c][h][l].terms = All
  <2> TAKE c \in 0 .. (n - 1), h \in 0 .. (K - 1), l \in 0 .. (w - 1)
  <2>1. B[c][h][l].terms = S[l] /\ B[c][h][l].op # "set"
    BY <1>2
  <2>2. S[l] \subseteq All /\ S[l] # {}
    BY DEF TermsCut
  <2> QED
    BY <2>1, <2>2, Zenon
<1> QED
  BY <1>3, <1>4, Zenon DEF Grid

\* Single rows of the core's own: a turn for each.
OwnRows(n, K, R) ==
  K = Blk(n) /\ \A c \in 0 .. (n - 1), h \in 0 .. (K - 1) : R[c][h] = {c * K + h}

LEMMA OwnTurns ==
  ASSUME NEW n \in Nat \ {0}, Lda % n = 0, NEW K \in Nat, NEW R, OwnRows(n, K, R)
  PROVE  CoreTurns(n, K, R)
<1> SUFFICES ASSUME NEW r \in All
             PROVE  \E c \in 0 .. (n - 1), h \in 0 .. (K - 1) :
                      \A d \in 0 .. (n - 1), x \in 0 .. (K - 1) : r \in R[d][x] <=> d = c /\ x = h
  BY DEF CoreTurns
<1>1. \E c \in 0 .. (n - 1), k \in 0 .. (K - 1) : RowOf(n, r, c, k)
  BY OwnRow, Zenon DEF OwnRows
<1>2. PICK c \in 0 .. (n - 1), k \in 0 .. (K - 1) : RowOf(n, r, c, k)
  BY <1>1, Zenon
<1> WITNESS c \in 0 .. (n - 1), k \in 0 .. (K - 1)
<1> TAKE d \in 0 .. (n - 1), x \in 0 .. (K - 1)
<1>3. r = d * K + x <=> d = c /\ x = k
  BY <1>2, Zenon DEF RowOf, OwnRows
<1>4. R[d][x] = {d * K + x}
  BY DEF OwnRows
<1> QED
  BY <1>3, <1>4, Zenon

\* A row and the n-th behind it: a turn for each two of the core's rows.
PairedRows(n, K, R) ==
  \A c \in 0 .. (n - 1), h \in 0 .. (K - 1) : R[c][h] = {c + 2 * n * h, c + 2 * n * h + n}

LEMMA PairedTurns ==
  ASSUME NEW n \in Nat \ {0}, NEW K \in Nat, Lda = (2 * n) * K, NEW R, PairedRows(n, K, R)
  PROVE  CoreTurns(n, K, R)
<1> SUFFICES ASSUME NEW r \in All
             PROVE  \E c \in 0 .. (n - 1), h \in 0 .. (K - 1) :
                      \A d \in 0 .. (n - 1), x \in 0 .. (K - 1) : r \in R[d][x] <=> d = c /\ x = h
  BY DEF CoreTurns
<1>1. r \in Nat /\ r < (2 * n) * K
  BY LdaAssumption DEF All
<1>2. PICK q \in Nat : r = n * q + (r % n)
  BY <1>1, Division
<1>3. PICK c \in 0 .. (n - 1) : c = r % n
  BY <1>1
<1>4. PICK a \in Nat : a = n * q /\ r = c + a
  <2>1. n * q \in Nat
    BY ProductIsNat
  <2> QED
    BY <1>2, <1>3, <2>1
<1>5. PICK h \in Nat : q = 2 * h \/ q = 2 * h + 1
  <2>1. q \div 2 \in Nat /\ (q = 2 * (q \div 2) \/ q = 2 * (q \div 2) + 1)
    OBVIOUS
  <2> QED
    BY <2>1
<1>6. ASSUME NEW x \in Nat
      PROVE  n * (2 * x) = 2 * n * x /\ n * (2 * x + 1) = 2 * n * x + n /\ 2 * n * x \in Nat
  OBVIOUS
<1>7. h < K
  <2> SUFFICES ASSUME h >= K PROVE FALSE
    OBVIOUS
  <2>1. PICK z \in Nat : h = K + z
    <3>1. h - K \in Nat /\ h = K + (h - K)
      OBVIOUS
    <3> QED
      BY <3>1
  <2>2. 2 * n * h = (2 * n) * K + 2 * n * z /\ 2 * n * z \in Nat /\ (2 * n) * K \in Nat
    BY <2>1
  <2>3. a = 2 * n * h \/ a = 2 * n * h + n
    BY <1>4, <1>5, <1>6
  <2> QED
    BY <1>1, <1>4, <2>2, <2>3
<1>8. ASSUME NEW d \in 0 .. (n - 1), NEW x \in 0 .. (K - 1) PROVE r \in R[d][x] <=> d = c /\ x = h
  <2>1. PICK y \in Nat : y = 2 * n * x
    BY <1>6
  <2>2. R[d][x] = {d + y, d + y + n}
    BY <2>1 DEF PairedRows
  <2>3. ASSUME r \in R[d][x] PROVE d = c /\ x = h
    <3>1. PICK p \in Nat : r = d + n * p /\ (p = 2 * x \/ p = 2 * x + 1)
      <4>1. 2 * x \in Nat /\ 2 * x + 1 \in Nat /\ n * (2 * x) = y /\ n * (2 * x + 1) = y + n
        BY <1>6, <2>1
      <4>2. r = d + y \/ r = d + (y + n)
        BY <2>2, <2>3
      <4> QED
        BY <4>1, <4>2
    <3>2. d = c
      <4> SUFFICES ASSUME d # c PROVE FALSE
        OBVIOUS
      <4>1. r \in Turn(d, n) /\ r \in Turn(c, n)
        BY <1>4, <3>1 DEF Turn
      <4> QED
        BY <4>1, TurnsApart
    <3>3. PICK v \in Nat : v = n * p
      BY ProductIsNat
    <3>4. v = a
      BY <1>4, <3>1, <3>2, <3>3
    <3>5. (n * p) \div n = p /\ (n * q) \div n = q
      BY QuotientOf
    <3>6. p = q
      BY <1>4, <3>3, <3>4, <3>5, Zenon
    <3> QED
      BY <1>5, <3>1, <3>2, <3>6
  <2>4. ASSUME d = c, x = h PROVE r \in R[d][x]
    <3>1. a = y \/ a = y + n
      BY <1>4, <1>5, <1>6, <2>1, <2>4
    <3> QED
      BY <1>4, <2>2, <2>4, <3>1
  <2> QED
    BY <2>3, <2>4
<1>9. h \in 0 .. (K - 1)
  BY <1>7
<1> QED
  BY <1>8, <1>9

\* A plan of m0 segments that store nothing.
StoresNothing(p, m0) == IsPlan(p) /\ Len(p) = m0 /\ \A i \in 1 .. m0 : p[i].stores = {}

LEMMA LoopStoresNothing ==
  ASSUME NEW m0 \in Nat, NEW p, p = [i \in 1 .. m0 |-> p[i]], \A i \in 1 .. m0 : p[i].stores = {}
  PROVE  StoresNothing(p, m0)
<1>1. IsPlan(p)
  BY DEF IsPlan
<1>2. Len(p) = m0
  BY <1>1, PlanLength
<1> QED
  BY <1>1, <1>2 DEF StoresNothing

\* A segment behind such a plan is the only one that stores something.
OnlyLastStores(p, m, x) ==
  /\ IsPlan(p) /\ Len(p) = m /\ p[m] = x
  /\ \A i \in 1 .. m : i # m => p[i].stores = {}

LEMMA LastStores ==
  ASSUME NEW m0 \in Nat, NEW a, StoresNothing(a, m0), NEW x
  PROVE  OnlyLastStores(a \o <<x>>, m0 + 1, x)
<1> DEFINE p == a \o <<x>>
<1>1. IsPlan(a) /\ Len(a) = m0 /\ \A i \in 1 .. m0 : a[i].stores = {}
  BY DEF StoresNothing
<1>2. /\ IsPlan(p) /\ Len(p) = m0 + 1 /\ p[m0 + 1] = x
      /\ \A i \in 1 .. m0 : p[i] = a[i]
  BY <1>1, PlanSnoc
<1> HIDE DEF p
<1>3. \A i \in 1 .. (m0 + 1) : i # m0 + 1 => i \in 1 .. m0
  OBVIOUS
<1>4. OnlyLastStores(p, m0 + 1, x)
  BY <1>1, <1>2, <1>3 DEF OnlyLastStores
<1> QED
  BY <1>4 DEF p

LEMMA TransposingStoresNothing ==
  ASSUME NEW c, NEW n
  PROVE  StoresNothing(TransposeB(c, n), Lda)
<1>1. PICK p : p = TransposeB(c, n)
  OBVIOUS
<1>2. p = [i \in 1 .. Lda |-> p[i]] /\ \A i \in 1 .. Lda : p[i].stores = {}
  BY <1>1 DEF TransposeB, Segment
<1>3. Lda \in Nat
  BY LdaAssumption
<1> QED
  BY <1>1, <1>2, <1>3, LoopStoresNothing

\* The plans q are loops f that store the blocks b, alone or behind plans that
\* store nothing.
LoopOf(m, b, f, q) ==
  /\ \A c \in Cores : /\ Linked(c, ncores)[kernel] = MatmulProgram(q[c])
                      /\ f[c] = [s \in 1 .. m |-> f[c][s]]
                      /\ \A s \in 1 .. m : f[c][s].stores = {b[c][s]}
  /\ \/ \A c \in Cores : q[c] = f[c] \o <<Idle>>
     \/ \E m0 \in Nat : \E a :
          \A c \in Cores : StoresNothing(a[c], m0) /\ q[c] = (a[c] \o f[c]) \o <<Idle>>

\* Such loops, of the blocks of a grid: the check passes.
LEMMA GridLoopRight ==
  ASSUME MatmulTest, NEW K \in Nat, NEW w \in Nat \ {0}, NEW m \in Nat, m = K * w,
         NEW B, Grid(ncores, K, w, B), NEW b, TurnBlocks(ncores, m, w, B, b),
         NEW f, NEW q, LoopOf(m, b, f, q)
  PROVE  PlansRight
<1>1. ASSUME NEW c \in Cores
      PROVE  /\ LoopPlan(f[c] \o <<Idle>>, 0, m, b[c])
             /\ \A m0 \in Nat : \A a :
                  StoresNothing(a, m0) => LoopPlan((a \o f[c]) \o <<Idle>>, m0, m, b[c])
  <2>1. PICK g, e : g = f[c] /\ e = b[c]
    OBVIOUS
  <2>2. g = [s \in 1 .. m |-> g[s]] /\ \A s \in 1 .. m : g[s].stores = {e[s]}
    BY <2>1 DEF LoopOf
  <2>3. /\ LoopPlan(g \o <<Idle>>, 0, m, e)
        /\ \A m0 \in Nat : \A a : StoresNothing(a, m0) => LoopPlan((a \o g) \o <<Idle>>, m0, m, e)
    BY <2>2, LoopIsPlan DEF StoresNothing
  <2> QED
    BY <2>1, <2>3
<1>2. \E m0 \in Nat : \A c \in Cores : LoopPlan(q[c], m0, m, b[c])
  <2>1. CASE \A c \in Cores : q[c] = f[c] \o <<Idle>>
    <3>1. \A c \in Cores : LoopPlan(q[c], 0, m, b[c])
      BY <1>1, <2>1
    <3> QED
      BY <3>1
  <2>2. CASE \E m0 \in Nat : \E a :
               \A c \in Cores : StoresNothing(a[c], m0) /\ q[c] = (a[c] \o f[c]) \o <<Idle>>
    <3>1. PICK m0 \in Nat : \E a :
            \A c \in Cores : StoresNothing(a[c], m0) /\ q[c] = (a[c] \o f[c]) \o <<Idle>>
      BY <2>2
    <3>2. PICK a :
            \A c \in Cores : StoresNothing(a[c], m0) /\ q[c] = (a[c] \o f[c]) \o <<Idle>>
      BY <3>1
    <3>3. \A c \in Cores : LoopPlan(q[c], m0, m, b[c])
      BY <1>1, <3>2
    <3> QED
      BY <3>3
  <2> QED
    BY <2>1, <2>2 DEF LoopOf
<1>3. PICK m0 \in Nat : \A c \in Cores : LoopPlan(q[c], m0, m, b[c])
  BY <1>2
<1>4. LoopPlans(m0, m, b, q)
  BY <1>3 DEF LoopOf, LoopPlans
<1> QED
  BY <1>4, GridRight, SMTT(60)

\* Groups of one, two or four numbers of a matrix.
GroupsOf(g, N) == [l \in 0 .. (N - 1) |-> (g * l) .. (g * l + g - 1)]

LEMMA GroupsOfTerms ==
  ASSUME NEW g \in {1, 2, 4}, NEW N \in Nat, Lda = g * N
  PROVE  TermsCut(N, GroupsOf(g, N))
<1>1. Partition(All, N, GroupsOf(g, N))
  BY GroupsCut DEF GroupsOf
<1>2. ASSUME NEW l \in 0 .. (N - 1) PROVE GroupsOf(g, N)[l] \subseteq All /\ GroupsOf(g, N)[l] # {}
  <2>1. GroupsOf(g, N)[l] = (g * l) .. (g * l + g - 1)
    BY DEF GroupsOf
  <2>2. g * l \in Nat /\ g * l + g - 1 < g * N /\ g * l <= g * l + g - 1
    OBVIOUS
  <2>3. g * l \in GroupsOf(g, N)[l]
    BY <2>1, <2>2
  <2>4. GroupsOf(g, N)[l] \subseteq All
    BY <2>1, <2>2, LdaAssumption DEF All
  <2> QED
    BY <2>3, <2>4
<1> QED
  BY <1>1, <1>2 DEF TermsCut

\* A row of the core's and a group of terms in each turn.
RowTurns(g, w, stride, q) ==
  \A c \in Cores :
    /\ Linked(c, ncores)[kernel] = MatmulProgram(q[c])
    /\ q[c] = [s \in 1 .. (Blk(ncores) * w) |->
                 Seg({Block("add", stride, {c * Blk(ncores) + Outer(s, w)}, All,
                            (g * Inner(s, w)) .. (g * Inner(s, w) + g - 1))})]
              \o <<Idle>>

LEMMA RowTurnsRight ==
  ASSUME MatmulTest, Lda % ncores = 0, NEW g \in {1, 2, 4}, NEW w \in Nat \ {0}, Lda = g * w,
         NEW stride, NEW q, RowTurns(g, w, stride, q)
  PROVE  PlansRight
<1>1. ncores \in Nat \ {0} /\ Cores = 0 .. (ncores - 1) /\ w \in Nat
  BY DEF MatmulTest, Cores
<1>2. PICK K \in Nat : K = Blk(ncores)
  <2>1. 0 \in 0 .. (ncores - 1)
    BY <1>1
  <2> QED
    BY <1>1, <2>1, Products
<1>3. PICK m \in Nat : m = K * w
  BY <1>1, ProductIsNat
<1> DEFINE n == ncores
           R == [c \in Cores |-> [h \in 0 .. (K - 1) |-> {c * K + h}]]
           S == GroupsOf(g, w)
           B == [c \in Cores |-> [h \in 0 .. (K - 1) |-> [l \in 0 .. (w - 1) |->
                   Block("add", stride, R[c][h], All, S[l])]]]
           b == [c \in Cores |-> [s \in 1 .. m |-> B[c][Outer(s, w)][Inner(s, w)]]]
           f == [c \in Cores |-> [s \in 1 .. m |-> Seg({b[c][s]})]]
<1>4. CoreTurns(n, K, R)
  <2>1. OwnRows(n, K, R)
    BY <1>1, <1>2 DEF OwnRows
  <2> HIDE DEF R
  <2> QED
    BY <1>1, <1>2, <2>1, OwnTurns
<1>5. TermsCut(w, S)
  BY <1>1, GroupsOfTerms
<1>6. RowsTerms(n, K, w, stride, R, S, B)
  <2> HIDE DEF R, S
  <2> QED
    BY <1>1 DEF RowsTerms
<1>7. Grid(n, K, w, B)
  <2> HIDE DEF B, R, S
  <2> QED
    BY <1>1, <1>4, <1>5, <1>6, RowsThenTerms
<1>8. TurnBlocks(n, m, w, B, b)
  <2> HIDE DEF B
  <2> QED
    BY <1>1 DEF TurnBlocks
<1>9. ASSUME NEW c \in Cores, NEW s \in 1 .. m
      PROVE  b[c][s] = Block("add", stride, {c * Blk(n) + Outer(s, w)}, All,
                             (g * Inner(s, w)) .. (g * Inner(s, w) + g - 1))
  <2>1. Outer(s, w) \in 0 .. (K - 1) /\ Inner(s, w) \in 0 .. (w - 1)
    BY <1>1, <1>3, DigitsIn
  <2>2. R[c][Outer(s, w)] = {c * K + Outer(s, w)}
        /\ S[Inner(s, w)] = (g * Inner(s, w)) .. (g * Inner(s, w) + g - 1)
    BY <2>1 DEF GroupsOf
  <2> HIDE DEF R, S
  <2>3. b[c][s] = Block("add", stride, R[c][Outer(s, w)], All, S[Inner(s, w)])
    BY <2>1
  <2> QED
    BY <1>2, <2>2, <2>3
<1>10. LoopOf(m, b, f, q)
  <2> HIDE DEF b
  <2>1. ASSUME NEW c \in Cores PROVE q[c] = f[c] \o <<Idle>>
    <3>1. q[c] = [s \in 1 .. m |->
                    Seg({Block("add", stride, {c * Blk(n) + Outer(s, w)}, All,
                               (g * Inner(s, w)) .. (g * Inner(s, w) + g - 1))})] \o <<Idle>>
      BY <1>2, <1>3 DEF RowTurns
    <3>2. [s \in 1 .. m |->
             Seg({Block("add", stride, {c * Blk(n) + Outer(s, w)}, All,
                        (g * Inner(s, w)) .. (g * Inner(s, w) + g - 1))})]
            = [s \in 1 .. m |-> Seg({b[c][s]})]
      BY <1>9
    <3>3. f[c] = [s \in 1 .. m |-> Seg({b[c][s]})]
      OBVIOUS
    <3> QED
      BY <3>1, <3>2, <3>3, Zenon
  <2>2. ASSUME NEW c \in Cores
        PROVE  f[c] = [s \in 1 .. m |-> f[c][s]] /\ \A s \in 1 .. m : f[c][s].stores = {b[c][s]}
    BY DEF Seg, Segment
  <2> HIDE DEF f
  <2> QED
    BY <2>1, <2>2 DEF LoopOf, RowTurns
<1> HIDE DEF f, b, B
<1> QED
  BY <1>1, <1>3, <1>7, <1>8, <1>10, GridLoopRight

\* The blocks of a loop's turns, and the loop itself, from those of its grid.
GridBlocks(m, w, B) == [c \in Cores |-> [s \in 1 .. m |-> B[c][Outer(s, w)][Inner(s, w)]]]

LEMMA GridTurns ==
  ASSUME MatmulTest, NEW K \in Nat, NEW w \in Nat, NEW m \in Nat, m = K * w, NEW B
  PROVE  TurnBlocks(ncores, m, w, B, GridBlocks(m, w, B))
BY DEF TurnBlocks, GridBlocks, MatmulTest, Cores

\* ag, cg: two columns and four terms in each turn.
LEMMA AgRight ==
  ASSUME MatmulTest, Lda % ncores = 0, Lda % 4 = 0, Blk(ncores) % 4 = 0, kernel \in {"ag", "cg"}
  PROVE  PlansRight
<1> DEFINE n == ncores
<1>1. n \in Nat \ {0} /\ Cores = 0 .. (n - 1)
  BY DEF MatmulTest, Cores
<1>2. PICK K \in Nat, w \in Nat \ {0} : K = Lda \div 2 /\ w = Lda \div 4 /\ Lda = 2 * K /\ Lda = 4 * w
  <2>1. Lda \in Nat \ {0}
    BY LdaAssumption
  <2>2. Lda \div 2 \in Nat /\ Lda \div 4 \in Nat \ {0}
        /\ Lda = 2 * (Lda \div 2) /\ Lda = 4 * (Lda \div 4)
    BY <2>1
  <2> QED
    BY <2>2
<1>3. PICK m \in Nat : m = K * w
  BY <1>2, ProductIsNat
<1> DEFINE R == [c \in 0 .. (n - 1) |-> Own(c, n)]
           C == GroupsOf(2, K)
           S == GroupsOf(4, w)
           B == [c \in Cores |-> [h \in 0 .. (K - 1) |-> [l \in 0 .. (w - 1) |->
                   Block("add", Lda, R[c], C[h], S[l])]]]
           b == GridBlocks(m, w, B)
           f == [c \in Cores |-> [s \in 1 .. m |-> Seg({b[c][s]})]]
           q == [c \in Cores |-> ag_matmul(c, n)]
<1>4. Partition(All, n, R) /\ Partition(All, K, C) /\ TermsCut(w, S)
  <2>1. TermsCut(K, C) /\ TermsCut(w, S)
    BY <1>2, GroupsOfTerms
  <2> QED
    BY <1>1, <2>1, OwnPartition DEF TermsCut
<1>5. ColumnsTerms(n, K, w, Lda, R, C, S, B)
  <2> HIDE DEF R, C, S
  <2> QED
    BY <1>1 DEF ColumnsTerms
<1>6. Grid(n, K, w, B)
  <2> HIDE DEF B, R, C, S
  <2> QED
    BY <1>1, <1>4, <1>5, ColumnsThenTerms
<1>7. TurnBlocks(n, m, w, B, b)
  <2> HIDE DEF B
  <2> QED
    BY <1>2, <1>3, GridTurns
<1>8. ASSUME NEW c \in Cores, NEW s \in 1 .. m
      PROVE  LET i == 2 * ((s - 1) \div w)
                 k == 4 * ((s - 1) % w)
             IN  b[c][s] = Add(Own(c, n), {i, i + 1}, k .. (k + 3))
  <2>1. Outer(s, w) \in 0 .. (K - 1) /\ Inner(s, w) \in 0 .. (w - 1)
    BY <1>2, <1>3, DigitsIn
  <2>2. PICK h \in 0 .. (K - 1), l \in 0 .. (w - 1) : h = (s - 1) \div w /\ l = (s - 1) % w
                                                /\ h = Outer(s, w) /\ l = Inner(s, w)
    BY <2>1 DEF Outer, Inner
  <2>3. R[c] = Own(c, n) /\ C[h] = (2 * h) .. (2 * h + 2 - 1) /\ S[l] = (4 * l) .. (4 * l + 4 - 1)
    BY <1>1 DEF GroupsOf
  <2>4. (2 * h) .. (2 * h + 2 - 1) = {2 * h, 2 * h + 1} /\ 4 * l + 4 - 1 = 4 * l + 3
    OBVIOUS
  <2> HIDE DEF R, C, S
  <2>5. b[c][s] = Block("add", Lda, R[c], C[h], S[l])
    BY <2>2 DEF GridBlocks
  <2> QED
    BY <2>2, <2>3, <2>4, <2>5 DEF Add
<1>9. ASSUME NEW c \in Cores PROVE Unrolled(c * Blk(n), (c + 1) * Blk(n), 4) = Own(c, n)
  <2>1. c \in Nat /\ 4 \in Nat \ {0}
    BY <1>1
  <2> QED
    BY <1>1, <2>1, EvenRanges
<1> HIDE DEF b
<1>10. ASSUME NEW c \in Cores PROVE q[c] = f[c] \o <<Idle>>
  <2>1. f[c] = [s \in 1 .. m |-> Seg({b[c][s]})]
    OBVIOUS
  <2>2. [s \in 1 .. m |-> Seg({b[c][s]})]
          = [s \in 1 .. m |->
               LET i == 2 * ((s - 1) \div w)
                   k == 4 * ((s - 1) % w)
               IN  Seg({Add(Own(c, n), {i, i + 1}, k .. (k + 3))})]
    BY <1>8
  <2>3. ag_matmul(c, n)
          = [s \in 1 .. m |->
               LET i == 2 * ((s - 1) \div w)
                   k == 4 * ((s - 1) % w)
               IN  Seg({Add(Own(c, n), {i, i + 1}, k .. (k + 3))})] \o <<Idle>>
    BY <1>2, <1>3, <1>9 DEF ag_matmul
  <2> QED
    BY <2>1, <2>2, <2>3, Zenon
<1>11. ASSUME NEW c \in Cores PROVE Linked(c, n)[kernel] = MatmulProgram(q[c])
  <2>1. Linked(c, n).ag = MatmulProgram(ag_matmul(c, n)) /\ Linked(c, n).cg = MatmulProgram(cg_matmul(c, n))
    BY SMTT(30) DEF Linked
  <2>2. cg_matmul(c, n) = ag_matmul(c, n)
    BY DEF cg_matmul
  <2> QED
    BY <2>1, <2>2
<1> HIDE DEF q
<1>12. LoopOf(m, b, f, q)
  <2>1. ASSUME NEW c \in Cores
        PROVE  f[c] = [s \in 1 .. m |-> f[c][s]] /\ \A s \in 1 .. m : f[c][s].stores = {b[c][s]}
    BY DEF Seg, Segment
  <2> HIDE DEF f
  <2> QED
    BY <1>10, <1>11, <2>1 DEF LoopOf
<1> HIDE DEF f, B
<1> QED
  BY <1>2, <1>3, <1>6, <1>7, <1>12, GridLoopRight

\* cs: a column of two rows in each turn.
LEMMA CsRight ==
  ASSUME MatmulTest, Lda % (2 * ncores) = 0, kernel = "cs"
  PROVE  PlansRight
<1> DEFINE n == ncores
<1>1. n \in Nat \ {0} /\ Cores = 0 .. (n - 1)
  BY DEF MatmulTest, Cores
<1>2. Lda \in Nat \ {0} /\ Lda = 1 * Lda
  BY LdaAssumption
<1>3. PICK K \in Nat : /\ Lda = (2 * n) * K
                      /\ \A c \in 0 .. (n - 1) : (Lda - c + 2 * n - 1) \div (2 * n) = K
  BY <1>1, PairsOfRows
<1>4. PICK m \in Nat : m = K * Lda
  BY <1>2, ProductIsNat
<1> DEFINE R == [c \in Cores |-> [h \in 0 .. (K - 1) |-> {c + 2 * n * h, c + 2 * n * h + n}]]
           S == GroupsOf(1, Lda)
           B == [c \in Cores |-> [h \in 0 .. (K - 1) |-> [l \in 0 .. (Lda - 1) |->
                   Block("set", Lda, R[c][h], S[l], All)]]]
           b == GridBlocks(m, Lda, B)
           f == [c \in Cores |-> [s \in 1 .. m |-> Seg({b[c][s]})]]
           q == [c \in Cores |-> cs_matmul(c, n)]
<1>5. CoreTurns(n, K, R)
  <2>1. PairedRows(n, K, R)
    BY <1>1 DEF PairedRows
  <2> HIDE DEF R
  <2> QED
    BY <1>1, <1>3, <2>1, PairedTurns
<1>6. Partition(All, Lda, S)
  BY <1>2, GroupsOfTerms DEF TermsCut
<1>7. RowsColumns(n, K, Lda, Lda, R, S, B)
  <2> HIDE DEF R, S
  <2> QED
    BY <1>1 DEF RowsColumns
<1>8. Grid(n, K, Lda, B)
  <2> HIDE DEF B, R, S
  <2> QED
    BY <1>1, <1>2, <1>5, <1>6, <1>7, RowsAndColumns
<1>9. TurnBlocks(n, m, Lda, B, b)
  <2> HIDE DEF B
  <2> QED
    BY <1>2, <1>4, GridTurns
<1>10. ASSUME NEW c \in Cores, NEW s \in 1 .. m
      PROVE  LET j == c + 2 * n * ((s - 1) \div Lda)
             IN  b[c][s] = Set({j, j + n}, {(s - 1) % Lda}, All)
  <2>1. Outer(s, Lda) \in 0 .. (K - 1) /\ Inner(s, Lda) \in 0 .. (Lda - 1)
    BY <1>2, <1>4, DigitsIn
  <2>2. PICK h \in 0 .. (K - 1), l \in 0 .. (Lda - 1) :
          /\ h = (s - 1) \div Lda /\ l = (s - 1) % Lda
          /\ h = Outer(s, Lda) /\ l = Inner(s, Lda)
    BY <2>1 DEF Outer, Inner
  <2>3. R[c][h] = {c + 2 * n * h, c + 2 * n * h + n} /\ S[l] = (1 * l) .. (1 * l + 1 - 1)
    BY <1>1 DEF GroupsOf
  <2>4. (1 * l) .. (1 * l + 1 - 1) = {l}
    OBVIOUS
  <2> HIDE DEF R, S
  <2>5. b[c][s] = Block("set", Lda, R[c][h], S[l], All)
    BY <2>2 DEF GridBlocks
  <2> QED
    BY <2>2, <2>3, <2>4, <2>5 DEF Set
<1> HIDE DEF b
<1>11. ASSUME NEW c \in Cores PROVE q[c] = f[c] \o <<Idle>>
  <2>1. f[c] = [s \in 1 .. m |-> Seg({b[c][s]})]
    OBVIOUS
  <2>2. [s \in 1 .. m |-> Seg({b[c][s]})]
          = [s \in 1 .. m |->
               LET j == c + 2 * n * ((s - 1) \div Lda)
               IN  Seg({Set({j, j + n}, {(s - 1) % Lda}, All)})]
    BY <1>10
  <2>3. cs_matmul(c, n)
          = [s \in 1 .. m |->
               LET j == c + 2 * n * ((s - 1) \div Lda)
               IN  Seg({Set({j, j + n}, {(s - 1) % Lda}, All)})] \o <<Idle>>
    BY <1>1, <1>3, <1>4 DEF cs_matmul
  <2> QED
    BY <2>1, <2>2, <2>3, Zenon
<1>12. ASSUME NEW c \in Cores PROVE Linked(c, n)[kernel] = MatmulProgram(q[c])
  <2>1. Linked(c, n).cs = MatmulProgram(cs_matmul(c, n))
    BY SMTT(30) DEF Linked
  <2> QED
    BY <2>1
<1> HIDE DEF q
<1>13. LoopOf(m, b, f, q)
  <2>1. ASSUME NEW c \in Cores
        PROVE  f[c] = [s \in 1 .. m |-> f[c][s]] /\ \A s \in 1 .. m : f[c][s].stores = {b[c][s]}
    BY DEF Seg, Segment
  <2> HIDE DEF f
  <2> QED
    BY <1>11, <1>12, <2>1 DEF LoopOf
<1> HIDE DEF f, B
<1> QED
  BY <1>2, <1>4, <1>8, <1>9, <1>13, GridLoopRight

\* Every core has rows.
LEMMA OwnNotEmpty ==
  ASSUME NEW n \in Nat \ {0}, Lda % n = 0
  PROVE  Blk(n) \in Nat \ {0}
<1>1. Blk(n) \in Nat
  <2>1. 0 \in 0 .. (n - 1)
    OBVIOUS
  <2> QED
    BY <2>1, Products
<1>2. Lda \in Nat \ {0} /\ Lda = n * (Lda \div n) + (Lda % n)
  BY LdaAssumption, Division
<1>3. ASSUME Blk(n) = 0 PROVE FALSE
  <2>1. Lda \div n = 0 /\ n * 0 = 0
    BY <1>3 DEF Blk
  <2> QED
    BY <1>2, <2>1
<1> QED
  BY <1>1, <1>3

\* ae: four columns of a row of the core's in each turn, behind the transposing
\* of B.
LEMMA AeRight ==
  ASSUME MatmulTest, Lda % ncores = 0, Lda % 8 = 0, kernel = "ae"
  PROVE  PlansRight
<1> DEFINE n == ncores
<1>1. n \in Nat \ {0} /\ Cores = 0 .. (n - 1)
  BY DEF MatmulTest, Cores
<1>2. PICK K \in Nat : K = Lda \div 4 /\ Lda = 4 * K
  <2>1. Lda \in Nat
    BY LdaAssumption
  <2>2. Lda \div 4 \in Nat /\ Lda = 4 * (Lda \div 4)
    BY <2>1
  <2> QED
    BY <2>2
<1>3. PICK w \in Nat \ {0} : w = Blk(n)
  BY <1>1, OwnNotEmpty
<1>4. PICK m \in Nat : m = K * w
  BY <1>2, ProductIsNat
<1> DEFINE R == [c \in Cores |-> [l \in 0 .. (w - 1) |-> {c * w + l}]]
           S == GroupsOf(4, K)
           B == [c \in Cores |-> [h \in 0 .. (K - 1) |-> [l \in 0 .. (w - 1) |->
                   Block("set", Lda, R[c][l], S[h], All)]]]
           b == GridBlocks(m, w, B)
           f == [c \in Cores |-> [s \in 1 .. m |->
                   LET i == 4 * ((s - 1) \div Blk(n))
                   IN  Segment({Set({c * Blk(n) + ((s - 1) % Blk(n))}, i .. (i + 3),
                                    Unrolled(0, Lda, 8))},
                               {}, {Area(i .. (i + 3), Unrolled(0, Lda, 8))})]]
           q == [c \in Cores |-> ae_matmul(c, n)]
<1>5. CoreTurns(n, w, R)
  <2>1. OwnRows(n, w, R)
    BY <1>1, <1>3 DEF OwnRows
  <2> HIDE DEF R
  <2> QED
    BY <1>1, <2>1, OwnTurns
<1>6. Partition(All, K, S)
  BY <1>2, GroupsOfTerms DEF TermsCut
<1>7. ColumnsRows(n, K, w, Lda, R, S, B)
  <2> HIDE DEF R, S
  <2> QED
    BY <1>1 DEF ColumnsRows
<1>8. Grid(n, K, w, B)
  <2> HIDE DEF B, R, S
  <2> QED
    BY <1>1, <1>5, <1>6, <1>7, RowsAndColumns
<1>9. TurnBlocks(n, m, w, B, b)
  <2> HIDE DEF B
  <2> QED
    BY <1>4, GridTurns
<1>10. ASSUME NEW c \in Cores, NEW s \in 1 .. m
      PROVE  LET i == 4 * ((s - 1) \div w)
             IN  b[c][s] = Set({c * w + ((s - 1) % w)}, i .. (i + 3), All)
  <2>1. Outer(s, w) \in 0 .. (K - 1) /\ Inner(s, w) \in 0 .. (w - 1)
    BY <1>4, DigitsIn
  <2>2. PICK h \in 0 .. (K - 1), l \in 0 .. (w - 1) : h = (s - 1) \div w /\ l = (s - 1) % w
                                                /\ h = Outer(s, w) /\ l = Inner(s, w)
    BY <2>1 DEF Outer, Inner
  <2>3. R[c][l] = {c * w + l} /\ S[h] = (4 * h) .. (4 * h + 4 - 1)
    BY <1>1 DEF GroupsOf
  <2>4. 4 * h + 4 - 1 = 4 * h + 3
    OBVIOUS
  <2> HIDE DEF R, S
  <2>5. b[c][s] = Block("set", Lda, R[c][l], S[h], All)
    BY <2>2 DEF GridBlocks
  <2> QED
    BY <2>2, <2>3, <2>4, <2>5 DEF Set
<1>11. Unrolled(0, Lda, 8) = All
  <2>1. 0 \in Nat /\ 8 \in Nat \ {0}
    OBVIOUS
  <2> QED
    BY <1>1, <2>1, EvenRanges
<1>12. ASSUME NEW c \in Cores PROVE q[c] = (TransposeB(c, n) \o f[c]) \o <<Idle>>
  BY <1>2, <1>3, <1>4 DEF ae_matmul
<1>13. ASSUME NEW c \in Cores PROVE Linked(c, n)[kernel] = MatmulProgram(q[c])
  <2>1. Linked(c, n).ae = MatmulProgram(ae_matmul(c, n))
    BY SMTT(30) DEF Linked
  <2> QED
    BY <2>1
<1> HIDE DEF b, q
<1>14. ASSUME NEW c \in Cores
       PROVE  f[c] = [s \in 1 .. m |-> f[c][s]] /\ \A s \in 1 .. m : f[c][s].stores = {b[c][s]}
  <2>1. f[c] = [s \in 1 .. m |-> f[c][s]]
    OBVIOUS
  <2>2. ASSUME NEW s \in 1 .. m PROVE f[c][s].stores = {b[c][s]}
    <3>1. f[c][s].stores
            = {Set({c * Blk(n) + ((s - 1) % Blk(n))},
                   (4 * ((s - 1) \div Blk(n))) .. (4 * ((s - 1) \div Blk(n)) + 3),
                   Unrolled(0, Lda, 8))}
      BY DEF Segment
    <3> HIDE DEF f
    <3> QED
      BY <1>3, <1>10, <1>11, <3>1
  <2> QED
    BY <2>1, <2>2
<1> HIDE DEF f, B
<1>15. LoopOf(m, b, f, q)
  <2> DEFINE a == [c \in Cores |-> TransposeB(c, n)]
  <2>1. Lda \in Nat
    BY LdaAssumption
  <2>2. \A c \in Cores : StoresNothing(TransposeB(c, n), Lda)
    BY TransposingStoresNothing, Zenon
  <2>3. \A c \in Cores : StoresNothing(a[c], Lda) /\ q[c] = (a[c] \o f[c]) \o <<Idle>>
    BY <1>12, <2>2
  <2> HIDE DEF a
  <2> QED
    BY <1>13, <1>14, <2>1, <2>3 DEF LoopOf
<1> QED
  BY <1>4, <1>8, <1>9, <1>15, GridLoopRight

\* an, ad: a row of the core's and one term, or two, in each turn.
LEMMA AnRight ==
  ASSUME MatmulTest, Lda % ncores = 0, kernel = "an" \/ (kernel = "ad" /\ Lda = 32)
  PROVE  PlansRight
<1> DEFINE n == ncores
<1>1. n \in Nat \ {0} /\ Cores = 0 .. (n - 1) /\ Lda \in Nat \ {0}
  BY LdaAssumption DEF MatmulTest, Cores
<1>2. PICK K \in Nat : K = Blk(n)
  <2>1. 0 \in 0 .. (n - 1)
    BY <1>1
  <2> QED
    BY <1>1, <2>1, Products
<1>3. ASSUME NEW c \in Cores
      PROVE  /\ Linked(c, n).an = MatmulProgram(an_matmul(c, n))
             /\ Linked(c, n).ad = MatmulProgram(ad_matmul(c, n))
  BY SMTT(30) DEF Linked
<1>4. CASE kernel = "an"
  <2> DEFINE q == [c \in Cores |-> an_matmul(c, n)]
  <2>1. ASSUME NEW x \in 0 .. (Lda - 1) PROVE (1 * x) .. (1 * x + 1 - 1) = {x}
    OBVIOUS
  <2>2. ASSUME NEW c \in Cores, NEW s \in 1 .. (K * Lda)
        PROVE  Seg({Add({c * Blk(n) + ((s - 1) \div Lda)}, All, {(s - 1) % Lda})})
                 = Seg({Block("add", Lda, {c * Blk(n) + Outer(s, Lda)}, All,
                              (1 * Inner(s, Lda)) .. (1 * Inner(s, Lda) + 1 - 1))})
    <3>1. (s - 1) % Lda \in 0 .. (Lda - 1)
      <4>1. s \in Int
        BY <1>1
      <4> QED
        BY <1>1, <4>1
    <3> QED
      BY <2>1, <3>1 DEF Add, Outer, Inner
  <2>3. ASSUME NEW c \in Cores
        PROVE  /\ Linked(c, ncores)[kernel] = MatmulProgram(q[c])
               /\ q[c] = [s \in 1 .. (Blk(ncores) * Lda) |->
                            Seg({Block("add", Lda, {c * Blk(ncores) + Outer(s, Lda)}, All,
                                       (1 * Inner(s, Lda)) .. (1 * Inner(s, Lda) + 1 - 1))})]
                         \o <<Idle>>
    BY <1>2, <1>3, <1>4, <2>2 DEF an_matmul
  <2>4. RowTurns(1, Lda, Lda, q)
    <3> HIDE DEF q
    <3> QED
      BY <2>3 DEF RowTurns
  <2>5. 1 \in {1, 2, 4} /\ Lda = 1 * Lda
    BY <1>1
  <2> HIDE DEF q
  <2> QED
    BY <1>1, <2>5, <2>4, RowTurnsRight
<1>5. CASE kernel = "ad" /\ Lda = 32
  <2> DEFINE q == [c \in Cores |-> ad_matmul(c, n)]
  <2>1. ASSUME NEW x \in 0 .. 15 PROVE (2 * x) .. (2 * x + 2 - 1) = {2 * x, 2 * x + 1}
    OBVIOUS
  <2>2. ASSUME NEW c \in Cores, NEW s \in 1 .. (K * 16)
        PROVE  LET k == 2 * ((s - 1) % 16)
               IN  Seg({Add32({c * Blk(n) + ((s - 1) \div 16)}, 0 .. 31, {k, k + 1})})
                     = Seg({Block("add", 32, {c * Blk(n) + Outer(s, 16)}, All,
                                  (2 * Inner(s, 16)) .. (2 * Inner(s, 16) + 2 - 1))})
    <3>1. (s - 1) % 16 \in 0 .. 15
      OBVIOUS
    <3>2. 0 .. 31 = All
      BY <1>5 DEF All
    <3> QED
      BY <2>1, <3>1, <3>2 DEF Add32, Outer, Inner
  <2>3. ASSUME NEW c \in Cores
        PROVE  /\ Linked(c, ncores)[kernel] = MatmulProgram(q[c])
               /\ q[c] = [s \in 1 .. (Blk(ncores) * 16) |->
                            Seg({Block("add", 32, {c * Blk(ncores) + Outer(s, 16)}, All,
                                       (2 * Inner(s, 16)) .. (2 * Inner(s, 16) + 2 - 1))})]
                         \o <<Idle>>
    BY <1>2, <1>3, <1>5, <2>2 DEF ad_matmul
  <2>4. RowTurns(2, 16, 32, q)
    <3> HIDE DEF q
    <3> QED
      BY <2>3 DEF RowTurns
  <2>5. 2 \in {1, 2, 4} /\ Lda = 2 * 16 /\ 16 \in Nat \ {0}
    BY <1>5
  <2> HIDE DEF q
  <2> QED
    BY <2>5, <2>4, RowTurnsRight
<1> QED
  BY <1>4, <1>5

\* The loops of the transposed kernels: K groups of 32 rows, b blocks of sixteen of
\* the core's columns, v groups of "width" columns in a block; t turns for a block
\* and w for all of them.
Nest(n, K, b, v, width, t, w) ==
  /\ n \in Nat \ {0} /\ K \in Nat /\ b \in Nat /\ Lda = 32 * K /\ Blk(n) = 16 * b
  /\ v \in {2, 4} /\ width \in {4, 8} /\ v * width = 16 /\ t = 16 * v /\ w = t * b

\* A turn of the inner loops is a number of three digits: the
\* block of sixteen columns, the pair of rows, and the group of columns.
TurnOf(w, t, v, q, e, d, l) ==
  \A y \in 0 .. (w - 1) : (y \div t = q /\ (y % t) \div v = e /\ y % v = d) <=> y = l

TurnsAreDigits(b, v, t, w) ==
  \A q \in 0 .. (b - 1), e \in 0 .. 15, d \in 0 .. (v - 1) :
    \E l \in 0 .. (w - 1) : TurnOf(w, t, v, q, e, d, l)

LEMMA TransposedDigits ==
  ASSUME NEW n, NEW K, NEW b, NEW v, NEW width, NEW t, NEW w, Nest(n, K, b, v, width, t, w)
  PROVE  TurnsAreDigits(b, v, t, w)
<1> USE DEF Nest
<1> SUFFICES ASSUME NEW q \in 0 .. (b - 1), NEW e \in 0 .. 15, NEW d \in 0 .. (v - 1)
             PROVE  \E l \in 0 .. (w - 1) : TurnOf(w, t, v, q, e, d, l)
  BY DEF TurnsAreDigits
<1>1. CASE v = 2
  <2>1. t = 32 /\ w = 32 * b
    BY <1>1
  <2>2. 32 * q + 2 * e + d \in 0 .. (w - 1)
    BY <1>1, <2>1
  <2>3. \A y \in 0 .. (w - 1) :
          (y \div 32 = q /\ (y % 32) \div 2 = e /\ y % 2 = d) <=> y = 32 * q + 2 * e + d
    BY <1>1, <2>1
  <2> QED
    BY <1>1, <2>1, <2>2, <2>3 DEF TurnOf
<1>2. CASE v = 4
  <2>1. t = 64 /\ w = 64 * b
    BY <1>2
  <2>2. 64 * q + 4 * e + d \in 0 .. (w - 1)
    BY <1>2, <2>1
  <2>3. \A y \in 0 .. (w - 1) :
          (y \div 64 = q /\ (y % 64) \div 4 = e /\ y % 4 = d) <=> y = 64 * q + 4 * e + d
    BY <1>2, <2>1
  <2> QED
    BY <1>2, <2>1, <2>2, <2>3 DEF TurnOf
<1> QED
  BY <1>1, <1>2

\* The rows and the columns of such a turn.
PairAt(t, v, h, y) ==
  LET j == 32 * h + 2 * ((y % t) \div v)
  IN  {j, j + 1}

ColumnsAt(n, t, v, width, c, y) ==
  LET i == c * Blk(n) + 16 * (y \div t) + width * (y % v)
  IN  i .. (i + width - 1)

TransposedGrid(n, K, w, t, v, width, B) ==
  \A c \in 0 .. (n - 1), h \in 0 .. (K - 1), y \in 0 .. (w - 1) :
    B[c][h][y] = Add(PairAt(t, v, h, y), ColumnsAt(n, t, v, width, c, y), All)

RowIn(K, t, v, r, h, e) ==
  \A x \in 0 .. (K - 1), y \in Nat : r \in PairAt(t, v, x, y) <=> x = h /\ (y % t) \div v = e

ColumnIn(n, w, t, v, width, col, c, q, g) ==
  \A d \in 0 .. (n - 1), y \in 0 .. (w - 1) :
    col \in ColumnsAt(n, t, v, width, d, y) <=> d = c /\ y \div t = q /\ y % v = g

LEMMA TransposedRows ==
  ASSUME NEW n, NEW K, NEW b, NEW v, NEW width, NEW t, NEW w, Nest(n, K, b, v, width, t, w),
         NEW r \in All
  PROVE  \E h \in 0 .. (K - 1), e \in 0 .. 15 : RowIn(K, t, v, r, h, e)
<1> USE DEF Nest
<1>1. r \in Nat /\ r < 32 * K
  BY LdaAssumption DEF All
<1>2. PICK h \in 0 .. (K - 1), e \in 0 .. 15 : r = 32 * h + 2 * e \/ r = 32 * h + 2 * e + 1
  <2>1. r \div 32 \in 0 .. (K - 1) /\ (r % 32) \div 2 \in 0 .. 15
    BY <1>1
  <2>2. r = 32 * (r \div 32) + 2 * ((r % 32) \div 2) \/ r = 32 * (r \div 32) + 2 * ((r % 32) \div 2) + 1
    BY <1>1
  <2> QED
    BY <2>1, <2>2
<1>3. ASSUME NEW x \in 0 .. (K - 1), NEW y \in Nat
      PROVE  r \in PairAt(t, v, x, y) <=> x = h /\ (y % t) \div v = e
  <2>1. PICK z \in 0 .. 15 : z = (y % t) \div v
    <3>1. CASE v = 2
      BY <3>1
    <3>2. CASE v = 4
      BY <3>2
    <3> QED
      BY <3>1, <3>2
  <2>2. PairAt(t, v, x, y) = {32 * x + 2 * z, 32 * x + 2 * z + 1}
    BY <2>1 DEF PairAt
  <2>3. r \in {32 * x + 2 * z, 32 * x + 2 * z + 1} <=> x = h /\ z = e
    BY <1>2
  <2> QED
    BY <2>1, <2>2, <2>3
<1>4. RowIn(K, t, v, r, h, e)
  BY <1>3 DEF RowIn
<1> QED
  BY <1>4

LEMMA TransposedColumns ==
  ASSUME NEW n, NEW K, NEW b, NEW v, NEW width, NEW t, NEW w, Nest(n, K, b, v, width, t, w),
         Lda % n = 0, NEW col \in All
  PROVE  \E c \in 0 .. (n - 1), q \in 0 .. (b - 1), g \in 0 .. (v - 1) :
           ColumnIn(n, w, t, v, width, col, c, q, g)
<1> USE DEF Nest
<1>1. PICK c \in 0 .. (n - 1), k \in 0 .. (Blk(n) - 1) : RowOf(n, col, c, k)
  BY OwnRow
<1>2. k \in 0 .. (16 * b - 1)
  BY <1>1
<1>3. PICK q \in 0 .. (b - 1), g \in 0 .. (v - 1), o \in 0 .. (width - 1) : k = 16 * q + width * g + o
  <2>1. CASE v = 2 /\ width = 8
    <3>1. k \div 16 \in 0 .. (b - 1) /\ (k % 16) \div 8 \in 0 .. 1 /\ k % 8 \in 0 .. 7
          /\ k = 16 * (k \div 16) + 8 * ((k % 16) \div 8) + (k % 8)
      BY <1>2
    <3> QED
      BY <2>1, <3>1
  <2>2. CASE v = 4 /\ width = 4
    <3>1. k \div 16 \in 0 .. (b - 1) /\ (k % 16) \div 4 \in 0 .. 3 /\ k % 4 \in 0 .. 3
          /\ k = 16 * (k \div 16) + 4 * ((k % 16) \div 4) + (k % 4)
      BY <1>2
    <3> QED
      BY <2>2, <3>1
  <2> QED
    BY <2>1, <2>2
<1>4. ASSUME NEW d \in 0 .. (n - 1), NEW y \in 0 .. (w - 1)
      PROVE  col \in ColumnsAt(n, t, v, width, d, y) <=> d = c /\ y \div t = q /\ y % v = g
  <2>1. PICK p \in 0 .. (b - 1), f \in 0 .. (v - 1) : p = y \div t /\ f = y % v
    <3>1. CASE v = 2
      BY <3>1
    <3>2. CASE v = 4
      BY <3>2
    <3> QED
      BY <3>1, <3>2
  <2>2. PICK j \in Nat : j = 16 * p + width * f /\ j + width <= 16 * b
    <3>1. CASE v = 2 /\ width = 8
      BY <2>1, <3>1
    <3>2. CASE v = 4 /\ width = 4
      BY <2>1, <3>2
    <3> QED
      BY <3>1, <3>2
  <2>3. PICK s \in Nat : s = d * Blk(n)
    BY Products
  <2>4. col \in Int
    BY DEF All
  <2>5. col \in (s + j) .. (s + j + width - 1) <=> d = c /\ k \in j .. (j + width - 1)
    <3>1. ASSUME col \in (s + j) .. (s + j + width - 1) PROVE d = c /\ k \in j .. (j + width - 1)
      <4>1. PICK z \in j .. (j + width - 1) : col = s + z
        <5>1. col - s \in j .. (j + width - 1) /\ col = s + (col - s)
          BY <2>4, <3>1
        <5> QED
          BY <5>1
      <4>2. z \in 0 .. (Blk(n) - 1)
        BY <2>2
      <4>3. col = d * Blk(n) + z
        BY <2>3, <4>1
      <4>4. d = c /\ z = k
        BY <1>1, <4>2, <4>3, Zenon DEF RowOf
      <4> QED
        BY <4>4
    <3>2. ASSUME d = c, k \in j .. (j + width - 1) PROVE col \in (s + j) .. (s + j + width - 1)
      <4>1. col = c * Blk(n) + k
        BY <1>1, Zenon DEF RowOf
      <4>2. col = s + k
        BY <2>3, <3>2, <4>1
      <4> QED
        BY <3>2, <4>2
    <3> QED
      BY <3>1, <3>2
  <2>6. k \in j .. (j + width - 1) <=> p = q /\ f = g
    <3>1. CASE v = 2 /\ width = 8
      BY <1>3, <2>2, <3>1
    <3>2. CASE v = 4 /\ width = 4
      BY <1>3, <2>2, <3>2
    <3> QED
      BY <3>1, <3>2
  <2>7. ColumnsAt(n, t, v, width, d, y) = (s + j) .. (s + j + width - 1)
    <3>1. PICK x, z \in Nat : x = 16 * p /\ z = width * f
      OBVIOUS
    <3>2. ColumnsAt(n, t, v, width, d, y) = (s + x + z) .. (s + x + z + width - 1)
      BY <2>1, <2>3, <3>1 DEF ColumnsAt
    <3>3. s + x + z = s + j
      BY <2>2, <3>1
    <3> QED
      BY <3>2, <3>3
  <2> QED
    BY <2>1, <2>5, <2>6, <2>7
<1>5. ColumnIn(n, w, t, v, width, col, c, q, g)
  BY <1>4 DEF ColumnIn
<1> QED
  BY <1>5

LEMMA TransposedCut ==
  ASSUME NEW n, NEW K, NEW b, NEW v, NEW width, NEW t, NEW w, Nest(n, K, b, v, width, t, w),
         Lda % n = 0, NEW B, TransposedGrid(n, K, w, t, v, width, B)
  PROVE  Grid(n, K, w, B)
<1>1. \A rows, cols : /\ Add(rows, cols, All).rows = rows /\ Add(rows, cols, All).cols = cols
                      /\ Add(rows, cols, All).terms = All /\ Add(rows, cols, All).op # "set"
  BY DEF Add, Block
<1>2. ASSUME NEW c \in 0 .. (n - 1), NEW h \in 0 .. (K - 1), NEW y \in 0 .. (w - 1)
      PROVE  /\ B[c][h][y].rows = PairAt(t, v, h, y)
             /\ B[c][h][y].cols = ColumnsAt(n, t, v, width, c, y)
             /\ B[c][h][y].terms = All /\ B[c][h][y].op # "set"
  <2>1. B[c][h][y] = Add(PairAt(t, v, h, y), ColumnsAt(n, t, v, width, c, y), All)
    BY DEF TransposedGrid
  <2> QED
    BY <1>1, <2>1
<1>3. ASSUME NEW r \in All, NEW col \in All, NEW z \in All
      PROVE  \E c \in 0 .. (n - 1), h \in 0 .. (K - 1), l \in 0 .. (w - 1) :
               OnlyAt(n, K, w, B, r, col, z, c, h, l)
  <2>1. PICK h \in 0 .. (K - 1), e \in 0 .. 15 : RowIn(K, t, v, r, h, e)
    BY TransposedRows
  <2>2. PICK c \in 0 .. (n - 1), q \in 0 .. (b - 1), g \in 0 .. (v - 1) :
          ColumnIn(n, w, t, v, width, col, c, q, g)
    BY TransposedColumns
  <2>3. PICK l \in 0 .. (w - 1) : TurnOf(w, t, v, q, e, g, l)
    <3>1. TurnsAreDigits(b, v, t, w)
      BY TransposedDigits
    <3> QED
      BY <3>1, Zenon DEF TurnsAreDigits
  <2>4. OnlyAt(n, K, w, B, r, col, z, c, h, l)
    <3> SUFFICES ASSUME NEW d \in 0 .. (n - 1), NEW x \in 0 .. (K - 1), NEW y \in 0 .. (w - 1)
                 PROVE  Adds(B[d][x][y], r, col, z) <=> (d = c /\ x = h /\ y = l)
      BY Zenon DEF OnlyAt
    <3>1. y \in Nat
      OBVIOUS
    <3>2. Adds(B[d][x][y], r, col, z)
            <=> r \in PairAt(t, v, x, y) /\ col \in ColumnsAt(n, t, v, width, d, y)
      <4>1. /\ B[d][x][y].rows = PairAt(t, v, x, y)
            /\ B[d][x][y].cols = ColumnsAt(n, t, v, width, d, y)
            /\ B[d][x][y].terms = All
        BY <1>2
      <4> QED
        BY <4>1, Zenon DEF Adds
    <3>3. r \in PairAt(t, v, x, y) <=> x = h /\ (y % t) \div v = e
      BY <2>1, <3>1, Zenon DEF RowIn
    <3>4. col \in ColumnsAt(n, t, v, width, d, y) <=> d = c /\ y \div t = q /\ y % v = g
      BY <2>2, Zenon DEF ColumnIn
    <3>5. (y \div t = q /\ (y % t) \div v = e /\ y % v = g) <=> y = l
      BY <2>3, Zenon DEF TurnOf
    <3> QED
      BY <3>2, <3>3, <3>4, <3>5, Zenon
  <2> QED
    BY <2>4
<1>4. \A c \in 0 .. (n - 1), h \in 0 .. (K - 1), l \in 0 .. (w - 1) :
        /\ B[c][h][l].terms \subseteq All /\ B[c][h][l].terms # {}
        /\ B[c][h][l].op # "set" \/ B[c][h][l].terms = All
  <2> TAKE c \in 0 .. (n - 1), h \in 0 .. (K - 1), l \in 0 .. (w - 1)
  <2>1. B[c][h][l].terms = All
    BY <1>2
  <2> QED
    BY <2>1, AllNotEmpty, Zenon
<1> QED
  BY <1>3, <1>4, Zenon DEF Grid

\* The segment of a turn.
TurnSegment(n, w, t, v, width, terms, c, s) ==
  LET j2 == 32 * ((s - 1) \div w)
      inJ2 == (s - 1) % w
      i2 == c * Blk(n) + 16 * (inJ2 \div t)
      j  == j2 + 2 * ((inJ2 % t) \div v)
      i  == i2 + width * (inJ2 % v)
  IN  Seg({Add({j, j + 1}, i .. (i + width - 1), terms)})

\* br, dr: two rows of 4 or 8 columns in each turn, behind the transposing of the
\* core's columns of B.
LEMMA TransposedRight ==
  ASSUME MatmulTest, Lda % ncores = 0, Lda % 32 = 0, Blk(ncores) % 16 = 0,
         kernel \in {"br", "dr"}
  PROVE  PlansRight
<1> DEFINE n == ncores
<1>1. n \in Nat \ {0} /\ Cores = 0 .. (n - 1)
  BY DEF MatmulTest, Cores
<1>2. PICK v \in {2, 4}, width \in {4, 8} :
        /\ v * width = 16 /\ 16 \div width = v
        /\ \A c \in Cores : Linked(c, n)[kernel] = MatmulProgram(TransposedBlocks(c, n, width))
  <2>1. \A c \in Cores : /\ Linked(c, n).br = MatmulProgram(TransposedBlocks(c, n, 4))
                         /\ Linked(c, n).dr = MatmulProgram(TransposedBlocks(c, n, 8))
    <3>1. \A c \in Cores : /\ Linked(c, n).br = MatmulProgram(br_matmul(c, n))
                           /\ Linked(c, n).dr = MatmulProgram(dr_matmul(c, n))
      BY SMTT(30) DEF Linked
    <3> QED
      BY <3>1 DEF br_matmul, dr_matmul
  <2>2. CASE kernel = "br"
    <3>1. 4 * 4 = 16 /\ 16 \div 4 = 4 /\ 4 \in {2, 4} /\ 4 \in {4, 8}
      OBVIOUS
    <3> QED
      BY <2>1, <2>2, <3>1
  <2>3. CASE kernel = "dr"
    <3>1. 2 * 8 = 16 /\ 16 \div 8 = 2 /\ 2 \in {2, 4} /\ 8 \in {4, 8}
      OBVIOUS
    <3> QED
      BY <2>1, <2>3, <3>1
  <2> QED
    BY <2>2, <2>3
<1>3. PICK K \in Nat : Lda = 32 * K /\ (Lda + 31) \div 32 = K
  <2>1. Lda \in Nat
    BY LdaAssumption
  <2>2. Lda \div 32 \in Nat /\ Lda = 32 * (Lda \div 32) /\ (Lda + 31) \div 32 = Lda \div 32
    BY <2>1
  <2> QED
    BY <2>2
<1>4. PICK b \in Nat \ {0} : Blk(n) = 16 * b /\ (Blk(n) + 15) \div 16 = b
  <2>1. Blk(n) \in Nat \ {0}
    BY <1>1, OwnNotEmpty
  <2>2. Blk(n) \div 16 \in Nat \ {0} /\ Blk(n) = 16 * (Blk(n) \div 16)
        /\ (Blk(n) + 15) \div 16 = Blk(n) \div 16
    BY <2>1
  <2> QED
    BY <2>2
<1>5. PICK t \in Nat \ {0} : t = 16 * v /\ t = 16 * (16 \div width)
  BY <1>2
<1>6. PICK w \in Nat \ {0} : w = t * b /\ w = 16 * ((16 * ((Blk(n) + 15) \div 16)) \div width)
  <2>1. CASE v = 2 /\ width = 8
    BY <1>4, <1>5, <2>1
  <2>2. CASE v = 4 /\ width = 4
    BY <1>4, <1>5, <2>2
  <2> QED
    BY <1>2, <2>1, <2>2
<1>7. PICK m \in Nat : m = K * w
  BY ProductIsNat
<1>8. PICK m0 \in Nat : m0 = (Lda + 1) \div 2
  BY LdaAssumption
<1> DEFINE B == [c \in Cores |-> [h \in 0 .. (K - 1) |-> [y \in 0 .. (w - 1) |->
                   Add(PairAt(t, v, h, y), ColumnsAt(n, t, v, width, c, y), All)]]]
           b0 == GridBlocks(m, w, B)
           f == [c \in Cores |-> [s \in 1 .. m |-> Seg({b0[c][s]})]]
           a == [c \in Cores |-> [s \in 1 .. m0 |-> Idle]]
           q == [c \in Cores |-> TransposedBlocks(c, n, width)]
<1>9. Grid(n, K, w, B)
  <2>1. TransposedGrid(n, K, w, t, v, width, B)
    BY <1>1 DEF TransposedGrid
  <2>2. Nest(n, K, b, v, width, t, w)
    BY <1>1, <1>2, <1>3, <1>4, <1>5, <1>6 DEF Nest
  <2> HIDE DEF B
  <2> QED
    BY <2>1, <2>2, TransposedCut
<1>10. TurnBlocks(n, m, w, B, b0)
  <2> HIDE DEF B
  <2> QED
    BY <1>7, GridTurns
<1>11. ASSUME NEW c \in Cores, NEW s \in 1 .. m
       PROVE  TurnSegment(n, w, t, v, width, All, c, s) = Seg({b0[c][s]})
  <2>1. Outer(s, w) \in 0 .. (K - 1) /\ Inner(s, w) \in 0 .. (w - 1)
    BY <1>7, DigitsIn
  <2>2. PICK h \in 0 .. (K - 1), y \in 0 .. (w - 1) : h = (s - 1) \div w /\ y = (s - 1) % w
                                                /\ h = Outer(s, w) /\ y = Inner(s, w)
    BY <2>1 DEF Outer, Inner
  <2>3. b0[c][s] = Add(PairAt(t, v, h, y), ColumnsAt(n, t, v, width, c, y), All)
    BY <2>2 DEF GridBlocks
  <2> HIDE DEF b0
  <2> QED
    BY <2>2, <2>3 DEF PairAt, ColumnsAt, TurnSegment
<1>12. Unrolled(0, Lda, 32) = All
  <2>1. 0 \in Nat /\ 32 \in Nat \ {0}
    OBVIOUS
  <2> QED
    BY <1>1, <2>1, EvenRanges
<1> HIDE DEF b0
<1>13. ASSUME NEW c \in Cores PROVE q[c] = (a[c] \o f[c]) \o <<Idle>>
  <2> DEFINE perRow == (16 * ((Blk(n) + 15) \div 16)) \div width
             g == [s \in 1 .. (((Lda + 31) \div 32) * 16 * perRow) |->
                     LET j2 == 32 * ((s - 1) \div (16 * perRow))
                         inJ2 == (s - 1) % (16 * perRow)
                         perI2 == 16 * (16 \div width)
                         i2 == c * Blk(n) + 16 * (inJ2 \div perI2)
                         j  == j2 + 2 * ((inJ2 % perI2) \div (16 \div width))
                         i  == i2 + width * (inJ2 % (16 \div width))
                     IN  Seg({Add({j, j + 1}, i .. (i + width - 1), Unrolled(0, Lda, 32))})]
  <2>1. f[c] = [s \in 1 .. m |-> Seg({b0[c][s]})]
    OBVIOUS
  <2>2. ((Lda + 31) \div 32) * 16 * perRow = m
    <3>1. PICK p \in Nat : p = perRow
      <4>1. CASE width = 8
        BY <1>4, <4>1
      <4>2. CASE width = 4
        BY <1>4, <4>2
      <4> QED
        BY <4>1, <4>2
    <3>2. K * 16 * p = K * (16 * p)
      OBVIOUS
    <3> QED
      BY <1>3, <1>6, <1>7, <3>1, <3>2
  <2>3. TransposedBlocks(c, n, width) = ([s \in 1 .. m0 |-> Idle] \o g) \o <<Idle>>
    BY <1>8 DEF TransposedBlocks
  <2>4. 16 * perRow = w
    BY <1>6
  <2>5. q[c] = TransposedBlocks(c, n, width) /\ a[c] = [s \in 1 .. m0 |-> Idle]
    OBVIOUS
  <2> HIDE DEF q, a, f, perRow
  <2>6. g = [s \in 1 .. m |-> TurnSegment(n, w, t, v, width, All, c, s)]
    <3>1. g = [s \in 1 .. m |-> g[s]]
      BY <2>2
    <3>2. ASSUME NEW s \in 1 .. m PROVE g[s] = TurnSegment(n, w, t, v, width, All, c, s)
      <4>1. g[s] = TurnSegment(n, 16 * perRow, 16 * (16 \div width), 16 \div width, width,
                               Unrolled(0, Lda, 32), c, s)
        BY <2>2 DEF TurnSegment
      <4> HIDE DEF g
      <4>2. 16 * perRow = w /\ 16 * (16 \div width) = t /\ 16 \div width = v
            /\ Unrolled(0, Lda, 32) = All
        BY <1>2, <1>5, <1>12, <2>4
      <4> QED
        BY <4>1, <4>2
    <3> HIDE DEF g
    <3> QED
      BY <3>1, <3>2
  <2>7. [s \in 1 .. m |-> TurnSegment(n, w, t, v, width, All, c, s)] = [s \in 1 .. m |-> Seg({b0[c][s]})]
    BY <1>11
  <2> HIDE DEF g
  <2> QED
    BY <2>1, <2>3, <2>5, <2>6, <2>7, Zenon
<1>14. ASSUME NEW c \in Cores PROVE Linked(c, n)[kernel] = MatmulProgram(q[c])
  BY <1>2
<1> HIDE DEF q
<1>15. LoopOf(m, b0, f, q)
  <2>1. ASSUME NEW c \in Cores
        PROVE  f[c] = [s \in 1 .. m |-> f[c][s]] /\ \A s \in 1 .. m : f[c][s].stores = {b0[c][s]}
    BY DEF Seg, Segment
  <2>2. ASSUME NEW c \in Cores PROVE StoresNothing(a[c], m0)
    <3>1. PICK p : p = a[c]
      OBVIOUS
    <3>2. p = [s \in 1 .. m0 |-> p[s]] /\ \A s \in 1 .. m0 : p[s].stores = {}
      BY <3>1 DEF Idle, Seg, Segment
    <3> QED
      BY <3>1, <3>2, LoopStoresNothing
  <2> HIDE DEF f, a
  <2>3. \A c \in Cores : StoresNothing(a[c], m0) /\ q[c] = (a[c] \o f[c]) \o <<Idle>>
    BY <1>13, <2>2
  <2>4. \E m1 \in Nat : \E p :
          \A c \in Cores : StoresNothing(p[c], m1) /\ q[c] = (p[c] \o f[c]) \o <<Idle>>
    BY <2>3, Zenon
  <2> QED
    BY <1>14, <2>1, <2>4 DEF LoopOf
<1> HIDE DEF f, B
<1> QED
  BY <1>7, <1>9, <1>10, <1>15, GridLoopRight

\* The core's rows, cut at the columns that the cores have the rows of.
CutInSquares(n, R, op, stride, S) ==
  \A c \in 0 .. (n - 1) : S[c] = {Block(op, stride, R[c], R[x], All) : x \in 0 .. (n - 1)}

LEMMA SquaresDealt ==
  ASSUME NEW n \in Nat \ {0}, NEW R, Partition(All, n, R), NEW op, NEW stride, NEW S,
         CutInSquares(n, R, op, stride, S)
  PROVE  DealtOnce(n, S)
<1> DEFINE b(c, x) == Block(op, stride, R[c], R[x], All)
<1>1. \A c, x : b(c, x).rows = R[c] /\ b(c, x).cols = R[x] /\ b(c, x).terms = All
  BY DEF Block
<1>2. \A c \in 0 .. (n - 1) : S[c] = {b(c, x) : x \in 0 .. (n - 1)}
  BY DEF CutInSquares
<1> HIDE DEF b
<1>3. \A r, col, t \in All : \A c, x : Adds(b(c, x), r, col, t) <=> r \in R[c] /\ col \in R[x]
  BY <1>1 DEF Adds
<1>4. ASSUME NEW r \in All, NEW col \in All, NEW t \in All
      PROVE  \E c \in 0 .. (n - 1) : \E e \in S[c] :
               /\ Adds(e, r, col, t)
               /\ \A d \in 0 .. (n - 1) : \A f \in S[d] : Adds(f, r, col, t) => d = c /\ f = e
  <2>1. PICK c \in 0 .. (n - 1) : \A d \in 0 .. (n - 1) : r \in R[d] <=> d = c
    BY DEF Partition
  <2>2. PICK x \in 0 .. (n - 1) : \A y \in 0 .. (n - 1) : col \in R[y] <=> y = x
    BY DEF Partition
  <2>3. b(c, x) \in S[c] /\ Adds(b(c, x), r, col, t)
    BY <1>2, <1>3, <2>1, <2>2
  <2>4. ASSUME NEW d \in 0 .. (n - 1), NEW f \in S[d], Adds(f, r, col, t)
        PROVE  d = c /\ f = b(c, x)
    <3>1. PICK y \in 0 .. (n - 1) : f = b(d, y)
      BY <1>2
    <3>2. r \in R[d] /\ col \in R[y]
      BY <1>3, <2>4, <3>1
    <3> QED
      BY <2>1, <2>2, <3>1, <3>2
  <2> QED
    BY <2>3, <2>4
<1>5. \A c \in 0 .. (n - 1) : \A e \in S[c] :
        e.terms \subseteq All /\ e.terms # {} /\ (e.op # "set" \/ e.terms = All)
  BY <1>1, <1>2, AllNotEmpty
<1> QED
  BY <1>4, <1>5 DEF DealtOnce

LEMMA LastBehindTransposing ==
  ASSUME NEW c, NEW n, NEW x
  PROVE  OnlyLastStores(TransposeB(c, n) \o <<x>>, Lda + 1, x)
<1>1. Lda \in Nat
  BY LdaAssumption
<1>2. PICK a : a = TransposeB(c, n) /\ StoresNothing(a, Lda)
  BY TransposingStoresNothing
<1> QED
  BY <1>1, <1>2, LastStores

\* ce: such blocks, behind the transposing of B.
LEMMA CeRight ==
  ASSUME MatmulTest, Lda % ncores = 0, Lda = 32, Blk(ncores) % 8 = 0, kernel = "ce"
  PROVE  PlansRight
<1> DEFINE n == ncores
           R == [c \in 0 .. (n - 1) |-> Own(c, n)]
           S == [c \in 0 .. (n - 1) |-> {Block("add", Lda, R[c], R[x], All) : x \in 0 .. (n - 1)}]
           p == [c \in Cores |-> ce_matmul(c, n)]
<1>1. n \in Nat \ {0} /\ Cores = 0 .. (n - 1) /\ Lda \in Nat
  BY LdaAssumption DEF MatmulTest, Cores
<1>2. Partition(All, n, R)
  BY <1>1, OwnPartition
<1>3. \A c \in 0 .. (n - 1) : R[c] = Own(c, n)
  OBVIOUS
<1> HIDE DEF R
<1>4. CutInSquares(n, R, "add", Lda, S)
  BY DEF CutInSquares
<1>5. DealtOnce(n, S)
  <2> HIDE DEF S
  <2> QED
    BY <1>1, <1>2, <1>4, SquaresDealt
<1>6. Unrolled(0, Lda, 8) = All
  <2>1. 8 \in Nat \ {0} /\ Lda % 8 = 0 /\ 0 \in Nat
    OBVIOUS
  <2> QED
    BY <1>1, <2>1, EvenRanges
<1>7. ASSUME NEW x \in 0 .. (n - 1)
      PROVE  Unrolled(x * (32 \div n), (x + 1) * (32 \div n), 8) = R[x]
  <2>1. 8 \in Nat \ {0} /\ x \in Nat
    OBVIOUS
  <2>2. Unrolled(x * Blk(n), (x + 1) * Blk(n), 8) = Own(x, n)
    BY <1>1, <2>1, EvenRanges
  <2>3. Blk(n) = 32 \div n
    BY DEF Blk
  <2> QED
    BY <1>3, <2>2, <2>3
<1>8. ASSUME NEW c \in 0 .. (n - 1)
      PROVE  S[c] = {Add(Own(c, n), Unrolled(x * (32 \div n), (x + 1) * (32 \div n), 8),
                         Unrolled(0, Lda, 8)) : x \in 0 .. (n - 1)}
  BY <1>3, <1>6, <1>7 DEF Add
<1> HIDE DEF S
<1> DEFINE last(c) == Segment(S[c], {}, {Area(0 .. 31, Unrolled(0, Lda, 8))})
<1>9. ASSUME NEW c \in Cores PROVE p[c] = TransposeB(c, n) \o <<last(c)>>
  BY <1>1, <1>8 DEF ce_matmul
<1>10. \A c, x : OnlyLastStores(TransposeB(c, n) \o <<x>>, Lda + 1, x)
  BY LastBehindTransposing, Zenon
<1>11. ASSUME NEW c \in Cores PROVE Linked(c, n)[kernel] = MatmulProgram(p[c])
  <2>1. Linked(c, n).ce = MatmulProgram(ce_matmul(c, n))
    BY SMTT(30) DEF Linked
  <2> QED
    BY <2>1
<1>12. \A c : last(c).stores = S[c]
  BY DEF Segment
<1> HIDE DEF p, last
<1>13. PICK m \in Nat : m = Lda + 1
  BY <1>1
<1>14. ASSUME NEW c \in Cores PROVE OnlyLastStores(p[c], m, last(c))
  BY <1>9, <1>10, <1>13
<1>15. PICK q \in 1 .. m : q = m
  BY <1>1, <1>13
<1>16. StoresIn(q, m, p, S)
  BY <1>11, <1>12, <1>14, <1>15 DEF StoresIn, OnlyLastStores
<1> QED
  BY <1>5, <1>16, DealtRight

\* The kernels with a barrier in each turn of their loops, when the steps divide
\* what they go through.  BB of ae has room for 32 rows of 32, tB of br and dr for
\* 64 of 64.
LoopKernels(n) ==
  {"an"}
  \cup (IF Lda = 32 THEN {"ad"} ELSE {})
  \cup (IF Lda % 8 = 0 /\ Lda <= 32 THEN {"ae"} ELSE {})
  \cup (IF Lda % 4 = 0 /\ Blk(n) % 4 = 0 THEN {"ag", "cg"} ELSE {})
  \cup (IF Lda % 32 = 0 /\ Blk(n) % 16 = 0 /\ Lda <= 64 THEN {"br", "dr"} ELSE {})
  \cup (IF Lda = 32 /\ Blk(n) % 8 = 0 THEN {"ce"} ELSE {})

LEMMA LoopsRight ==
  ASSUME MatmulTest, Lda % ncores = 0, kernel \in LoopKernels(ncores)
  PROVE  PlansRight
<1>1. \/ kernel = "an" \/ (kernel = "ad" /\ Lda = 32)
      \/ Lda % 8 = 0 /\ kernel = "ae"
      \/ Lda % 4 = 0 /\ Blk(ncores) % 4 = 0 /\ kernel \in {"ag", "cg"}
      \/ Lda % 32 = 0 /\ Blk(ncores) % 16 = 0 /\ kernel \in {"br", "dr"}
      \/ Lda = 32 /\ Blk(ncores) % 8 = 0 /\ kernel = "ce"
  BY DEF LoopKernels
<1> QED
  BY <1>1, AnRight, AeRight, AgRight, TransposedRight, CeRight

\* The kernels whose results are right on n cores: those whose steps divide
\* what they go through, so that every product is added once.
RightKernels(n) ==
  {"bc", "dc", "vvadd4", "vvadd"}
  \cup (IF DataSize % (8 * n) = 0 THEN {"vvadd1"} ELSE {})
  \cup (IF DataSize % (2 * n) = 0 THEN {"vvadd2"} ELSE {})
  \cup (IF DataSize % n = 0 THEN {"vvadd0", "vvadd3"} ELSE {})
  \cup (IF Lda = 32 THEN {"al", "av", "ay", "az", "bf", "bk", "bo", "cl", "cv", "cy", "df", "dv"}
                     ELSE {})
  \cup (IF Lda % 4 = 0 THEN {"ds"} ELSE {})
  \cup (IF Lda % 8 = 0 THEN {"ak", "bh", "bj", "ck"} ELSE {})
  \cup (IF Lda % (2 * n) = 0 THEN {"aq", "cs"} ELSE {})
  \cup (IF Lda % (4 * n) = 0 THEN {"bs"} ELSE {})
  \cup (IF Lda % n = 0 THEN OwnKernels(n) \cup LoopKernels(n) ELSE {})

\* However the cores interleave, no check fails in a test that links one of these
\* kernels: at every number of cores in CoreCounts, lda and number of elements.
THEOREM ResultsAreRight == Spec => [](kernel \in RightKernels(ncores) => VerifyPasses)
<1>1. MtInv => (kernel \in RightKernels(ncores) => PlansRight)
  <2> SUFFICES ASSUME MtInv, kernel \in RightKernels(ncores) PROVE PlansRight
    OBVIOUS
  <2>1. ncores \in CoreCounts /\ ncores \in Nat \ {0} /\ kernel \in Kernels
    BY DEF MtInv, BInv, BarrierTypeOK
  <2>2. CASE kernel \in VectorKernels
    <3>1. kernel \in {"vvadd0", "vvadd1", "vvadd2", "vvadd3", "vvadd4", "vvadd"}
      BY <2>2 DEF VectorKernels
    <3>2. kernel \in {"vvadd0", "vvadd3"} => DataSize % ncores = 0
      BY DEF RightKernels, OwnKernels, LoopKernels
    <3> QED
      BY <2>1, <3>1, <3>2, VectorsRight
  <2>3. CASE kernel \notin VectorKernels
    <3>1. MatmulTest
      BY <2>1, <2>3 DEF MatmulTest
    <3>2. CASE Lda = 32 /\ kernel \in {"av", "bk", "bo", "cv", "dv"}
      BY <3>1, <3>2, RowSplitsRight
    <3>3. CASE Lda = 32 /\ kernel \in {"al", "bf", "cl", "df"}
      BY <3>1, <3>3, ColumnSplitsRight
    <3>4. CASE (Lda = 32 /\ kernel \in {"ay", "az", "cy"}) \/ kernel \in {"bc", "dc"}
      BY <3>1, <3>4, HalvesRight
    <3>5. CASE (Lda % 4 = 0 /\ kernel = "ds") \/ kernel \in {"aq", "bs"}
               \/ (Lda % 8 = 0 /\ kernel \in {"ak", "ck"})
      BY <3>1, <3>5, DealtBlocksRight
    <3>6. CASE Lda % 8 = 0 /\ kernel \in {"bh", "bj"}
      BY <3>1, <3>6, RowSplitsRight
    <3>7. CASE Lda % ncores = 0 /\ kernel \in OwnKernels(ncores)
      BY <3>1, <3>7, OwnRight
    <3>8. CASE Lda % ncores = 0 /\ kernel \in LoopKernels(ncores)
      BY <3>1, <3>8, LoopsRight
    <3>9. CASE Lda % (2 * ncores) = 0 /\ kernel = "cs"
      BY <3>1, <3>9, CsRight
    <3> QED
      BY <2>3, <2>1, <3>2, <3>3, <3>4, <3>5, <3>6, <3>7, <3>8, <3>9 DEF RightKernels, VectorKernels
  <2> QED
    BY <2>2, <2>3
<1> QED
  BY <1>1, ChecksAreInPlans, MtInvariant, PTL
=============================================================================
