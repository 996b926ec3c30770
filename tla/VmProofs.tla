------------------------------ MODULE VmProofs ------------------------------
(***************************************************************************)
(* For every number of test pages whose generator has its full period:     *)
(* the handler never faults, its assertions fail only for accesses outside *)
(* the test pages, every frame has one owner, the exit code is heard, and  *)
(* demand paging is transparent to the program.                            *)
(*                                                                         *)
(* The free list never leaves its array while the program runs: its nodes  *)
(* are those from the head on, and those before the head have gone to the  *)
(* mapped pages, one each, so that "head" counts the mapped pages and an   *)
(* unmapped page finds a node.  A clear A bit belongs to the page that is  *)
(* about to be accessed, or evict() would find one; a clear D bit means    *)
(* that the frame equals the page's image; a cached translation is the one *)
(* in memory.                                                              *)
(***************************************************************************)
EXTENDS Vm, FiniteSetTheorems, SequenceTheorems, WellFoundedInduction, TLAPS

MappedPages == {p \in Pages : pte[p].frame # 0}

\* Types of what TypeOK does not name.
AccessTypes ==
  /\ access \in [op : {"load"}, page : 0 .. MAX_TEST_PAGES]
                \cup [op : {"store"}, page : 0 .. MAX_TEST_PAGES, value : Values]
                \cup {[op |-> "ecall"], [op |-> "fssr"], [op |-> "none"]}
  /\ loaded \in Values /\ adue \in BOOLEAN

\* The nodes of the free list are in their place from boot on, and those before
\* the head have gone to the mapped pages.
ListInv ==
  /\ head \in FreeNodes
  /\ tail = IF head = MAX_TEST_PAGES - 1 THEN Null ELSE MAX_TEST_PAGES - 1
  /\ \A n \in FreeNodes : node[n].next = NextNode(n) /\ node[n].addr \in Frames
  /\ \A m, n \in FreeNodes : node[m].addr = node[n].addr => m = n
  /\ \A p \in Pages : node[MapNode(p)].addr = pte[p].frame
  /\ \A p \in MappedPages : \E n \in 0 .. (head - 1) : pte[p].frame = node[n].addr
  /\ Cardinality(MappedPages) = head

\* No frame is mapped twice, and no stale translation is cached.
MapInv ==
  /\ \A p \in Pages : pte[p].frame = 0 => pte[p] = Invalid
  /\ \A p, q \in MappedPages : pte[p].frame = pte[q].frame => p = q
  /\ \A p \in Pages : tlb[p] \in {Uncached, pte[p]}

\* What the A and D bits say of a page.
BitsInv ==
  /\ \A p \in MappedPages : ~pte[p].a => access.op \in {"load", "store"} /\ access.page = p
  /\ \A p \in MappedPages : ~pte[p].d => frames[pte[p].frame] = home[p]

HandlerInv ==
  /\ pc # "lost"
  /\ pc \in {"fault", "copy", "protect"} =>
       access.op \in {"load", "store"} /\ page = access.page
  /\ pc = "fault" /\ page \in Pages => ~Allows(pte[page], access.op)
  /\ pc \in {"copy", "protect"} => page \in MappedPages /\ pte[page].a /\ pte[page].d
  /\ pc = "protect" => frames[pte[page].frame] = home[page]
  /\ pc = "evict" =>
       /\ access.op = "ecall" /\ page \in 1 .. MAX_TEST_PAGES
       /\ \A p \in Pages : p >= page => node[MapNode(p)].addr = pte[p].frame

\* The exit code on its way: still to be said, in tohost, or heard.
HostInv ==
  \/ pc \notin {"say", "done"} /\ say = <<>> /\ tohost = 0 /\ heard = <<>>
  \/ /\ pc = "say" /\ tohost = 0 /\ heard = <<>>
     /\ say \in {<<1>>, <<841>>, <<Text, 3>>}
  \/ /\ pc = "say" /\ say = <<3>>
     /\ \/ tohost = Text /\ heard = <<>>
        \/ tohost = 0 /\ heard = <<Text>>
  \/ /\ pc = "done" /\ say = <<>>
     /\ \/ tohost \in {1, 841} /\ heard = <<>>
        \/ tohost = 0 /\ heard \in {<<1>>, <<841>>, <<Text, 3>>}
        \/ tohost = 3 /\ heard = <<Text>>

\* Only an access outside the test pages fails an assertion.
SayInv ==
  pc = "say" /\ say \in {<<Text, 3>>, <<3>>} =>
    access.op \in {"load", "store"} /\ access.page \notin Pages

IInv ==
  /\ TypeOK /\ AccessTypes /\ (Running => ListInv)
  /\ MapInv /\ BitsInv /\ HandlerInv /\ HostInv /\ SayInv

-----------------------------------------------------------------------------
LEMMA Sizes == MAX_TEST_PAGES \in Nat /\ MAX_TEST_PAGES > 1
  BY LfsrAssumption

LEMMA NodeFacts ==
  /\ \A n \in FreeNodes : n \in Nodes /\ n \in Nat
  /\ \A p \in Pages : MapNode(p) \in Nodes /\ MapNode(p) \notin FreeNodes
  /\ \A p, q \in Pages : MapNode(p) = MapNode(q) => p = q
  /\ Null \notin Nodes /\ Nodes \subseteq Nat
  BY Sizes DEF FreeNodes, Nodes, MapNode, Pages, Null

LEMMA ShuffleFacts ==
  ASSUME NEW random \in 1 .. MAX_TEST_PAGES
  PROVE  /\ \A n \in FreeNodes : Shuffled(LfsrBits, random)[n] \in Frames
         /\ \A m, n \in FreeNodes :
              Shuffled(LfsrBits, random)[m] = Shuffled(LfsrBits, random)[n] => m = n
<1> DEFINE frame == Shuffled(LfsrBits, random)
           f == [n \in FreeNodes |-> frame[n]]
<1>1. {frame[i] : i \in FreeNodes} = Frames
  BY PeriodAssumption, Sizes DEF FullPeriod, FreeNodes, Frames
<1> HIDE DEF frame
<1>2. f \in Surjection(FreeNodes, Frames)
  BY <1>1 DEF Surjection
<1>3. /\ IsFiniteSet(FreeNodes)
      /\ Cardinality(FreeNodes) = MAX_TEST_PAGES
      /\ Cardinality(Frames) = MAX_TEST_PAGES
  BY Sizes, FS_Interval DEF FreeNodes, Frames
<1>4. f \in Injection(FreeNodes, Frames)
  BY <1>2, <1>3, FS_SurjSameCardinalityImpliesInj
<1>5. \A m, n \in FreeNodes : frame[m] = frame[n] => m = n
  <2> SUFFICES ASSUME NEW m \in FreeNodes, NEW n \in FreeNodes, frame[m] = frame[n]
               PROVE  m = n
    OBVIOUS
  <2>1. f[m] = f[n]
    OBVIOUS
  <2> QED
    BY <1>4, <2>1 DEF Injection, IsInjective
<1> QED
  BY <1>1, <1>5 DEF frame

LEMMA InitInv == Init => IInv
<1> SUFFICES ASSUME Init PROVE IInv
  OBVIOUS
<1>1. PICK random \in 1 .. MAX_TEST_PAGES :
        node = [n \in Nodes |->
                 IF n \notin FreeNodes THEN [addr |-> 0, next |-> Null]
                 ELSE [addr |-> Shuffled(LfsrBits, random)[n], next |-> NextNode(n)]]
  BY DEF Init
<1>2. \A n \in FreeNodes : NextNode(n) \in Nodes \cup {Null}
  BY Sizes DEF NextNode, FreeNodes, Nodes
<1>3. TypeOK
  BY <1>1, <1>2, ShuffleFacts, Sizes DEF Init, TypeOK, Invalid, Entries, Nodes, FreeNodes
<1>4. AccessTypes
  BY ValuesAssumption DEF Init, AccessTypes
<1>5. MappedPages = {}
  BY DEF Init, MappedPages, Invalid
<1>6. ListInv
  <2>1. Cardinality(MappedPages) = head
    BY <1>5, FS_EmptySet DEF Init
  <2>2. \A n \in FreeNodes : /\ node[n].next = NextNode(n)
                             /\ node[n].addr = Shuffled(LfsrBits, random)[n]
    BY <1>1, NodeFacts
  <2>3. \A p \in Pages : node[MapNode(p)].addr = pte[p].frame
    BY <1>1, NodeFacts DEF Init, Invalid
  <2>4. head \in FreeNodes /\ tail = MAX_TEST_PAGES - 1 /\ head # MAX_TEST_PAGES - 1
    BY Sizes DEF Init, FreeNodes
  <2>5. \A n \in FreeNodes : node[n].next = NextNode(n) /\ node[n].addr \in Frames
    BY <2>2, ShuffleFacts
  <2>6. \A m, n \in FreeNodes : node[m].addr = node[n].addr => m = n
    BY <2>2, ShuffleFacts
  <2> QED
    BY <1>5, <2>1, <2>3, <2>4, <2>5, <2>6 DEF ListInv
<1>7. MapInv /\ BitsInv
  BY <1>5 DEF Init, MapInv, BitsInv
<1>8. HandlerInv /\ HostInv /\ SayInv
  BY DEF Init, HandlerInv, HostInv, SayInv
<1> QED
  BY <1>3, <1>4, <1>6, <1>7, <1>8 DEF IInv

\* The translation used is the one in memory.
LEMMA Coherent ==
  ASSUME IInv, NEW p \in Pages
  PROVE  Entry(p) = pte[p] /\ Entry(p) \in Entries
  BY DEF IInv, MapInv, TypeOK, Entry

LEMMA Parts ==
  IInv => /\ TypeOK /\ AccessTypes /\ MapInv /\ BitsInv /\ HandlerInv /\ HostInv /\ SayInv
          /\ Running => ListInv
  BY DEF IInv

LEMMA ListKept == ASSUME ListInv, UNCHANGED <<pte, lists>> PROVE ListInv'
  BY DEF ListInv, lists, MappedPages

LEMMA MapKept == ASSUME MapInv, UNCHANGED <<pte, tlb>> PROVE MapInv'
  BY DEF MapInv, MappedPages

LEMMA BitsKept == ASSUME BitsInv, UNCHANGED <<pte, access, home, frames>> PROVE BitsInv'
  BY DEF BitsInv, MappedPages

LEMMA Silent ==
  ASSUME HostInv, UNCHANGED <<say, host>>, pc \notin {"say", "done"}, pc' \notin {"say", "done"}
  PROVE  HostInv' /\ SayInv'
  BY DEF HostInv, SayInv, host

LEMMA StepFill == ASSUME IInv, NEW p \in Pages, Fill(p) PROVE IInv'
<1>1. UNCHANGED <<pte, lists, home, frames, adue, access, loaded, pc, page, host, say>>
  BY DEF Fill
<1>2. tlb' = [tlb EXCEPT ![p] = pte[p]]
  BY DEF Fill
<1>3. TypeOK' /\ AccessTypes'
  BY <1>1, <1>2, Parts DEF TypeOK, AccessTypes, lists
<1>4. MapInv'
  BY <1>1, <1>2, Parts DEF TypeOK, MapInv, MappedPages
<1>5. HandlerInv'
  BY <1>1, Parts DEF HandlerInv, MappedPages, Allows, lists
<1>6. HostInv' /\ SayInv'
  BY <1>1, Parts DEF HostInv, SayInv, host
<1> QED
  BY <1>1, <1>3, <1>4, <1>5, <1>6, Parts, ListKept, BitsKept DEF IInv, Running

LEMMA StepIssue == ASSUME IInv, Issue PROVE IInv'
<1>1. /\ UNCHANGED <<pte, lists, home, frames, machine, loaded, pc, page, host, say>>
      /\ pc = "user" /\ access.op = "none"
  BY DEF Issue
<1>2. TypeOK' /\ AccessTypes'
  BY <1>1, Parts DEF TypeOK, AccessTypes, lists, machine, Issue
<1>3. BitsInv'
  BY <1>1, Parts DEF BitsInv, MappedPages
<1>4. HandlerInv'
  BY <1>1 DEF HandlerInv
<1>5. HostInv' /\ SayInv'
  BY <1>1, Parts, Silent
<1> QED
  BY <1>1, <1>2, <1>3, <1>4, <1>5, Parts, ListKept, MapKept DEF IInv, Running, machine

LEMMA StepRetire == ASSUME IInv, Retire PROVE IInv'
<1> DEFINE f == pte[access.page].frame
<1>1. /\ UNCHANGED <<pte, lists, home, machine, pc, page, host, say>>
      /\ pc = "user" /\ access' = [op |-> "none"]
  BY DEF Retire, Accessing
<1>2. /\ access.page \in Pages /\ Allows(pte[access.page], access.op)
      /\ access.op \in {"load", "store"}
  BY Coherent DEF Retire, Accessing
<1>3. f \in Frames
  BY <1>2, Parts DEF TypeOK, Entries, Allows
<1>4. CASE access.op = "load"
  <2>1. frames' = frames /\ loaded' = frames[f]
    BY <1>2, <1>4, Coherent DEF Retire
  <2>2. TypeOK' /\ AccessTypes'
    BY <1>1, <1>3, <2>1, Parts DEF TypeOK, AccessTypes, lists, machine
  <2>3. BitsInv'
    BY <1>1, <1>2, <2>1, Parts DEF BitsInv, MappedPages, Allows
  <2> QED
    BY <1>1, <2>2, <2>3, Parts, ListKept, MapKept, Silent DEF IInv, Running, machine, HandlerInv
<1>5. CASE access.op = "store"
  <2>1. frames' = [frames EXCEPT ![f] = access.value] /\ loaded' = loaded
    BY <1>2, <1>5, Coherent DEF Retire
  <2>2. access.value \in Values
    BY <1>5, Parts DEF AccessTypes
  <2>3. TypeOK' /\ AccessTypes'
    BY <1>1, <1>3, <2>1, <2>2, Parts DEF TypeOK, AccessTypes, lists, machine
  <2>4. access.page \in MappedPages /\ pte[access.page].a /\ pte[access.page].d
    BY <1>2, <1>5 DEF Allows, MappedPages
  <2>5. BitsInv'
    BY <1>1, <1>2, <1>3, <2>1, <2>4, Parts DEF BitsInv, MapInv, MappedPages, TypeOK
  <2> QED
    BY <1>1, <2>3, <2>5, Parts, ListKept, MapKept, Silent DEF IInv, Running, machine, HandlerInv
<1> QED
  BY <1>2, <1>4, <1>5

LEMMA StepSetBits == ASSUME IInv, SetBits PROVE IInv'
<1> DEFINE p == access.page
           new == [pte[p] EXCEPT !.a = TRUE, !.d = @ \/ access.op = "store"]
<1>1. /\ UNCHANGED <<lists, home, frames, adue, access, loaded, pc, page, host, say>>
      /\ pc = "user" /\ p \in Pages /\ Entry(p).frame # 0
      /\ pte' = [pte EXCEPT ![p] = new] /\ tlb' = [tlb EXCEPT ![p] = new]
  BY DEF SetBits, Accessing, Mapped
<1>2. pte[p] \in Entries /\ pte[p].frame # 0
  BY <1>1, Coherent
<1>3. new \in Entries /\ new.frame = pte[p].frame /\ new.a /\ (pte[p].d => new.d)
  BY <1>2 DEF Entries
<1> HIDE DEF new
<1>4. TypeOK' /\ AccessTypes'
  BY <1>1, <1>3, Parts DEF TypeOK, AccessTypes, lists
<1>5. \A q \in Pages : pte'[q] = IF q = p THEN new ELSE pte[q]
  BY <1>1, Parts DEF TypeOK
<1>6. \A q \in Pages : tlb'[q] = IF q = p THEN new ELSE tlb[q]
  BY <1>1, Parts DEF TypeOK
<1>7. MappedPages' = MappedPages /\ \A q \in Pages : pte'[q].frame = pte[q].frame
  BY <1>3, <1>5 DEF MappedPages
<1>8. ListInv'
  BY <1>1, <1>7, Parts DEF ListInv, lists, Running
<1>9. MapInv'
  BY <1>2, <1>3, <1>5, <1>6, <1>7, Parts DEF MapInv, MappedPages
<1>10. BitsInv'
  BY <1>1, <1>3, <1>5, <1>7, Parts DEF BitsInv, MappedPages
<1> QED
  BY <1>1, <1>4, <1>8, <1>9, <1>10, Parts, Silent DEF IInv, HandlerInv

LEMMA StepTrap == ASSUME IInv, Trap PROVE IInv'
<1>1. /\ UNCHANGED <<pte, lists, home, frames, machine, access, loaded, host>>
      /\ pc = "user"
  BY DEF Trap, Accessing
<1>2. MapInv' /\ BitsInv' /\ AccessTypes' /\ (Running => ListInv')
  BY <1>1, Parts, MapKept, BitsKept, ListKept DEF AccessTypes, machine
<1>3. say = <<>> /\ tohost = 0 /\ heard = <<>>
  BY <1>1, Parts DEF HostInv
<1>4. CASE /\ Accessing /\ pc' = "fault" /\ page' = access.page /\ say' = say
           /\ IF Mapped(access.page) THEN ~adue /\ ~Allows(Entry(access.page), access.op)
              ELSE TRUE
  <2>1. access.page \in 0 .. MAX_TEST_PAGES /\ access.op \in {"load", "store"}
    BY <1>4, Parts DEF AccessTypes, Accessing
  <2>2. TypeOK'
    BY <1>1, <1>4, <2>1, Parts DEF TypeOK, lists, machine
  <2>3. access.page \in Pages => ~Allows(pte[access.page], access.op)
    BY <1>4, Coherent DEF Mapped, Allows
  <2>4. HandlerInv'
    BY <1>1, <1>4, <2>1, <2>3 DEF HandlerInv, Allows
  <2> QED
    BY <1>1, <1>2, <1>4, <2>2, <2>4, Parts, Silent DEF IInv, Running
<1>5. CASE access.op = "ecall" /\ pc' = "evict" /\ page' = 1 /\ say' = say
  <2>1. TypeOK'
    BY <1>1, <1>5, Parts, Sizes DEF TypeOK, lists, machine
  <2>2. HandlerInv'
    BY <1>1, <1>5, Parts, Sizes DEF HandlerInv, ListInv, Running, lists
  <2> QED
    BY <1>1, <1>2, <1>5, <2>1, <2>2, Parts, Silent DEF IInv, Running
<1>6. CASE access.op = "fssr" /\ pc' = "say" /\ say' = <<841>> /\ page' = page
  <2>1. TypeOK'
    BY <1>1, <1>6, Parts DEF TypeOK, lists, machine
  <2>2. HandlerInv' /\ HostInv'
    BY <1>1, <1>3, <1>6 DEF HandlerInv, HostInv, host
  <2>3. SayInv'
    BY <1>6 DEF SayInv, Text
  <2> QED
    BY <1>2, <1>6, <2>1, <2>2, <2>3 DEF IInv, Running
<1> QED
  BY <1>4, <1>5, <1>6 DEF Trap

\* assert() failing on an access outside the test pages.
LEMMA StepOutOfRange == ASSUME IInv, OutOfRange PROVE IInv'
<1>1. /\ UNCHANGED <<pte, lists, home, frames, machine, access, loaded, page, host>>
      /\ pc = "fault" /\ page \notin Pages /\ pc' = "say" /\ say' = <<Text, 3>>
  BY DEF OutOfRange, Assertion
<1>2. MapInv' /\ BitsInv' /\ AccessTypes'
  BY <1>1, Parts, MapKept, BitsKept DEF AccessTypes, machine
<1>3. TypeOK'
  BY <1>1, Parts DEF TypeOK, lists, machine
<1>4. HandlerInv'
  BY <1>1 DEF HandlerInv
<1>5. HostInv'
  BY <1>1, Parts DEF HostInv, host
<1>6. SayInv'
  BY <1>1, Parts DEF SayInv, HandlerInv
<1> QED
  BY <1>1, <1>2, <1>3, <1>4, <1>5, <1>6 DEF IInv, Running

\* A fault for a bit finds a bit to set.
LEMMA SoftFaultSets ==
  ASSUME IInv, SoftFault
  PROVE  /\ page \in Pages /\ pte[page] # Invalid /\ ~Allows(pte[page], access.op)
         /\ pte' = [pte EXCEPT ![page] = IF @.a THEN [@ EXCEPT !.d = TRUE]
                                         ELSE [@ EXCEPT !.a = TRUE]]
         /\ flush_page(page) /\ pc' = "user" /\ say' = say
<1>1. page \in Pages /\ pte[page] # Invalid /\ ~Allows(pte[page], access.op)
  BY Parts DEF SoftFault, HandlerInv
<1>2. pte[page].frame # 0
  BY <1>1, Parts DEF MapInv
<1>3. access.op \in {"load", "store"}
  BY Parts DEF SoftFault, HandlerInv
<1>4. ~(pte[page].a /\ (pte[page].d \/ access.op # "store"))
  BY <1>1, <1>2, <1>3 DEF Allows
<1> QED
  BY <1>1, <1>4 DEF SoftFault

LEMMA StepSoftFault == ASSUME IInv, SoftFault PROVE IInv'
<1> DEFINE new == IF pte[page].a THEN [pte[page] EXCEPT !.d = TRUE]
                  ELSE [pte[page] EXCEPT !.a = TRUE]
<1>1. /\ UNCHANGED <<lists, home, frames, adue, access, loaded, page, host>>
      /\ page \in Pages /\ pte[page] # Invalid /\ pc = "fault" /\ pc' = "user" /\ say' = say
      /\ pte' = [pte EXCEPT ![page] = new] /\ tlb' = [tlb EXCEPT ![page] = Uncached]
  BY SoftFaultSets DEF SoftFault, flush_page
<1>2. pte[page] \in Entries /\ pte[page].frame # 0
  BY <1>1, Parts DEF TypeOK, MapInv
<1>3. /\ new \in Entries /\ new.frame = pte[page].frame
      /\ (pte[page].d => new.d) /\ (pte[page].a => new.a)
  BY <1>2 DEF Entries
<1> HIDE DEF new
<1>4. TypeOK' /\ AccessTypes'
  BY <1>1, <1>3, Parts DEF TypeOK, AccessTypes, lists
<1>5. \A q \in Pages : /\ pte'[q] = IF q = page THEN new ELSE pte[q]
                       /\ tlb'[q] = IF q = page THEN Uncached ELSE tlb[q]
  BY <1>1, Parts DEF TypeOK
<1>6. MappedPages' = MappedPages /\ \A q \in Pages : pte'[q].frame = pte[q].frame
  BY <1>3, <1>5 DEF MappedPages
<1>7. ListInv'
  BY <1>1, <1>6, Parts DEF ListInv, lists, Running
<1>8. MapInv'
  BY <1>2, <1>3, <1>5, <1>6, Parts DEF MapInv, MappedPages
<1>9. BitsInv'
  BY <1>1, <1>3, <1>5, <1>6, Parts DEF BitsInv, MappedPages
<1> QED
  BY <1>1, <1>4, <1>7, <1>8, <1>9, Parts, Silent DEF IInv, HandlerInv

\* There are more frames than pages: a page without a frame finds the free list
\* with two nodes at least.
LEMMA FrameLeft ==
  ASSUME IInv, Running, NEW p \in Pages, p \notin MappedPages
  PROVE  /\ head \in 0 .. (MAX_TEST_PAGES - 2)
         /\ Cardinality(MappedPages \cup {p}) = head + 1
<1>1. ListInv
  BY Parts
<1>2. IsFiniteSet(Pages) /\ Cardinality(Pages) = MAX_TEST_PAGES - 1
  BY Sizes, FS_Interval DEF Pages
<1>3. MappedPages \subseteq Pages /\ (MappedPages \cup {p}) \subseteq Pages
  BY DEF MappedPages
<1>4. IsFiniteSet(MappedPages)
  BY <1>2, <1>3, FS_Subset
<1>5. Cardinality(MappedPages \cup {p}) = Cardinality(MappedPages) + 1
  BY <1>4, FS_AddElement
<1>6. Cardinality(MappedPages \cup {p}) <= MAX_TEST_PAGES - 1
  BY <1>2, <1>3, FS_Subset
<1> QED
  BY <1>1, <1>5, <1>6, Sizes DEF ListInv, FreeNodes

\* The assertions of the first fault hold.
LEMMA TakeFrameTakes ==
  ASSUME IInv, TakeFrame
  PROVE  /\ page \in Pages /\ page \notin MappedPages
         /\ head \in 0 .. (MAX_TEST_PAGES - 2) /\ head' = head + 1
         /\ Cardinality(MappedPages \cup {page}) = head + 1
         /\ tail' = IF head' = tail THEN Null ELSE tail
         /\ node' = [node EXCEPT ![MapNode(page)] = node[head]]
         /\ pte' = [pte EXCEPT ![page] = [frame |-> node[head].addr, a |-> TRUE, d |-> TRUE]]
         /\ flush_page(page) /\ pc' = "copy" /\ say' = say
<1>1. page \in Pages /\ pte[page] = Invalid /\ pc = "fault"
  BY DEF TakeFrame
<1>2. page \notin MappedPages /\ Running
  BY <1>1 DEF MappedPages, Invalid, Running
<1>3. /\ head \in 0 .. (MAX_TEST_PAGES - 2)
      /\ Cardinality(MappedPages \cup {page}) = head + 1
  BY <1>1, <1>2, FrameLeft
<1>4. head # Null
  BY <1>3 DEF Null
<1>5. node[MapNode(page)].addr = 0
  BY <1>1, <1>2, Parts DEF ListInv, Invalid
<1>6. node[head].next = head + 1
  BY <1>2, <1>3, Parts, Sizes DEF ListInv, NextNode, FreeNodes
<1> QED
  BY <1>1, <1>2, <1>3, <1>4, <1>5, <1>6 DEF TakeFrame, GivenNode

LEMMA StepTakeFrame == ASSUME IInv, TakeFrame PROVE IInv'
<1> DEFINE f == node[head].addr
           new == [frame |-> f, a |-> TRUE, d |-> TRUE]
<1>1. /\ UNCHANGED <<home, frames, adue, access, loaded, page, host>>
      /\ page \in Pages /\ page \notin MappedPages
      /\ pc = "fault" /\ pc' = "copy" /\ say' = say
      /\ head \in 0 .. (MAX_TEST_PAGES - 2) /\ head' = head + 1
      /\ Cardinality(MappedPages \cup {page}) = head + 1
      /\ tail' = IF head' = tail THEN Null ELSE tail
      /\ node' = [node EXCEPT ![MapNode(page)] = node[head]]
      /\ pte' = [pte EXCEPT ![page] = new] /\ tlb' = [tlb EXCEPT ![page] = Uncached]
  BY TakeFrameTakes DEF TakeFrame, flush_page
<1>2. ListInv /\ TypeOK /\ MapInv /\ head \in FreeNodes /\ head + 1 \in FreeNodes
  BY <1>1, Parts, Sizes DEF Running, ListInv, FreeNodes
<1>3. f \in Frames /\ f # 0
  BY <1>2 DEF ListInv, Frames
<1>4. TypeOK' /\ AccessTypes'
  <2>1. new \in Entries
    BY <1>3 DEF Entries
  <2>2. node' \in [Nodes -> [addr : {0} \cup Frames, next : Nodes \cup {Null}]]
    BY <1>1, <1>2, NodeFacts DEF TypeOK
  <2>3. head' \in Nodes \cup {Null} /\ tail' \in Nodes \cup {Null}
    BY <1>1, <1>2, NodeFacts DEF TypeOK
  <2> HIDE DEF new
  <2> QED
    BY <1>1, <1>2, <2>1, <2>2, <2>3, Parts DEF TypeOK, AccessTypes
<1>5. \A q \in Pages : /\ pte'[q] = IF q = page THEN new ELSE pte[q]
                       /\ tlb'[q] = IF q = page THEN Uncached ELSE tlb[q]
  BY <1>1, <1>2 DEF TypeOK
<1>6. MappedPages' = MappedPages \cup {page}
  BY <1>1, <1>3, <1>5 DEF MappedPages
<1>7. \A n \in FreeNodes : node'[n] = node[n]
  BY <1>1, <1>2, NodeFacts DEF TypeOK
<1>8. \A q \in Pages : node'[MapNode(q)] = IF q = page THEN node[head] ELSE node[MapNode(q)]
  BY <1>1, <1>2, NodeFacts DEF TypeOK
<1>9. \A q \in MappedPages : pte[q].frame # f
  BY <1>1, <1>2, Sizes DEF ListInv, FreeNodes
<1>10. ListInv'
  <2>1. tail' = IF head' = MAX_TEST_PAGES - 1 THEN Null ELSE MAX_TEST_PAGES - 1
    BY <1>1, <1>2, Sizes DEF ListInv, Null, FreeNodes
  <2>2. \A n \in FreeNodes : node'[n].next = NextNode(n) /\ node'[n].addr \in Frames
    BY <1>2, <1>7 DEF ListInv
  <2>3. \A m, n \in FreeNodes : node'[m].addr = node'[n].addr => m = n
    BY <1>2, <1>7 DEF ListInv
  <2>4. \A q \in Pages : node'[MapNode(q)].addr = pte'[q].frame
    BY <1>2, <1>5, <1>8 DEF ListInv
  <2>5. \A q \in MappedPages' : \E n \in 0 .. (head' - 1) : pte'[q].frame = node'[n].addr
    <3>1. \A q \in MappedPages : \E n \in 0 .. (head' - 1) : pte'[q].frame = node'[n].addr
      <4> SUFFICES ASSUME NEW q \in MappedPages
                   PROVE  \E n \in 0 .. (head' - 1) : pte'[q].frame = node'[n].addr
        OBVIOUS
      <4>1. PICK n \in 0 .. (head - 1) : pte[q].frame = node[n].addr
        BY <1>2 DEF ListInv
      <4>2. n \in FreeNodes /\ n \in 0 .. (head' - 1)
        BY <1>1, Sizes DEF FreeNodes
      <4>3. q \in Pages /\ q # page
        BY <1>1 DEF MappedPages
      <4> QED
        BY <1>5, <1>7, <4>1, <4>2, <4>3
    <3>2. \E n \in 0 .. (head' - 1) : pte'[page].frame = node'[n].addr
      <4>1. node'[head] = node[head] /\ head \in 0 .. (head' - 1)
        BY <1>1, <1>2, <1>7
      <4> QED
        BY <1>1, <1>5, <4>1
    <3> QED
      BY <1>6, <3>1, <3>2
  <2>6. Cardinality(MappedPages') = head' /\ head' \in FreeNodes
    BY <1>1, <1>2, <1>6
  <2> QED
    BY <2>1, <2>2, <2>3, <2>4, <2>5, <2>6 DEF ListInv
<1>11. MapInv'
  <2>1. \A q \in Pages : pte'[q].frame = 0 => pte'[q] = Invalid
    BY <1>2, <1>3, <1>5 DEF MapInv
  <2>2. \A p, q \in MappedPages' : pte'[p].frame = pte'[q].frame => p = q
    <3>1. \A q \in MappedPages : q \in Pages /\ q # page /\ pte'[q].frame = pte[q].frame
      BY <1>1, <1>5 DEF MappedPages
    <3>2. pte'[page].frame = f
      BY <1>1, <1>5
    <3> HIDE DEF f
    <3> QED
      BY <1>2, <1>6, <1>9, <3>1, <3>2 DEF MapInv
  <2>3. \A q \in Pages : tlb'[q] \in {Uncached, pte'[q]}
    BY <1>2, <1>5 DEF MapInv
  <2> QED
    BY <2>1, <2>2, <2>3 DEF MapInv
<1>12. BitsInv'
  <2>1. pte'[page].a /\ pte'[page].d
    BY <1>1, <1>5
  <2>2. \A q \in MappedPages : q \in Pages /\ pte'[q] = pte[q]
    BY <1>1, <1>5 DEF MappedPages
  <2> QED
    BY <1>1, <1>6, <2>1, <2>2, Parts DEF BitsInv
<1>13. HandlerInv'
  BY <1>1, <1>5, <1>6, Parts DEF HandlerInv
<1> QED
  BY <1>1, <1>4, <1>10, <1>11, <1>12, <1>13, Parts, Silent DEF IInv

\* The copy goes to the new frame, and the handler does not fault.
LEMMA CopyInCopies ==
  ASSUME IInv, CopyIn
  PROVE  /\ page \in MappedPages /\ page \in Pages /\ pte[page].frame \in Frames
         /\ frames' = [frames EXCEPT ![pte[page].frame] = home[page]]
         /\ pc = "copy" /\ pc' = "protect"
<1>1. page \in MappedPages /\ pte[page].a /\ pte[page].d /\ pc = "copy"
  BY Parts DEF CopyIn, HandlerInv
<1>2. page \in Pages /\ pte[page].frame # 0
  BY <1>1 DEF MappedPages
<1>3. pte[page].frame \in Frames
  BY <1>2, Parts DEF TypeOK, Entries
<1>4. Entry(page) = pte[page]
  BY <1>2, Coherent
<1> QED
  BY <1>1, <1>2, <1>3, <1>4 DEF CopyIn, Allows

LEMMA StepCopyIn == ASSUME IInv, CopyIn PROVE IInv'
<1> DEFINE f == pte[page].frame
<1>1. /\ UNCHANGED <<pte, lists, home, machine, access, loaded, page, host, say>>
      /\ page \in MappedPages /\ page \in Pages /\ f \in Frames
      /\ frames' = [frames EXCEPT ![f] = home[page]]
      /\ pc = "copy" /\ pc' = "protect"
  BY CopyInCopies DEF CopyIn
<1>2. frames'[f] = home[page] /\ \A g \in Frames : g # f => frames'[g] = frames[g]
  BY <1>1, Parts DEF TypeOK
<1>3. TypeOK' /\ AccessTypes'
  BY <1>1, Parts DEF TypeOK, AccessTypes, lists, machine
<1>4. BitsInv'
  <2>1. \A q \in MappedPages : pte[q].frame \in Frames /\ (pte[q].frame = f => q = page)
    BY <1>1, Parts DEF MappedPages, TypeOK, Entries, MapInv
  <2>2. MappedPages' = MappedPages
    BY <1>1 DEF MappedPages
  <2> HIDE DEF f
  <2> QED
    BY <1>1, <1>2, <2>1, <2>2, Parts DEF BitsInv
<1>5. HandlerInv'
  BY <1>1, <1>2, Parts DEF HandlerInv, MappedPages
<1> QED
  BY <1>1, <1>3, <1>4, <1>5, Parts, ListKept, MapKept, Silent DEF IInv, Running, machine

LEMMA StepProtect == ASSUME IInv, Protect PROVE IInv'
<1> DEFINE new == [pte[page] EXCEPT !.a = FALSE, !.d = FALSE]
<1>1. /\ UNCHANGED <<lists, home, frames, adue, access, loaded, page, host, say>>
      /\ pc = "protect" /\ pc' = "user" /\ tlb' = [tlb EXCEPT ![page] = Uncached]
  BY DEF Protect, flush_page
<1>2. /\ page \in MappedPages /\ page \in Pages /\ frames[pte[page].frame] = home[page]
      /\ access.op \in {"load", "store"} /\ page = access.page
  BY <1>1, Parts DEF HandlerInv, MappedPages
<1>3. pte[page] \in Entries /\ pte[page].frame # 0
  BY <1>2, Parts DEF TypeOK, MappedPages
<1>4. \A q \in Pages : /\ pte'[q] = IF q = page THEN new ELSE pte[q]
                       /\ tlb'[q] = IF q = page THEN Uncached ELSE tlb[q]
  <2>1. pte' = [pte EXCEPT ![page].a = FALSE, ![page].d = FALSE]
    BY DEF Protect
  <2> QED
    BY <1>1, <1>2, <2>1, Parts DEF TypeOK, Entries
<1>5. new \in Entries /\ new.frame = pte[page].frame
  BY <1>3 DEF Entries
<1> HIDE DEF new
<1>6. TypeOK' /\ AccessTypes'
  <2>1. pte' \in [Pages -> Entries]
    <3>1. pte' = [pte EXCEPT ![page].a = FALSE, ![page].d = FALSE]
      BY DEF Protect
    <3>2. DOMAIN pte' = Pages /\ pte' = [q \in Pages |-> pte'[q]]
      BY <3>1, Parts DEF TypeOK
    <3> QED
      BY <1>4, <1>5, <3>2, Parts DEF TypeOK
  <2> QED
    BY <1>1, <2>1, Parts DEF TypeOK, AccessTypes, lists
<1>7. MappedPages' = MappedPages /\ \A q \in Pages : pte'[q].frame = pte[q].frame
  BY <1>4, <1>5 DEF MappedPages
<1>8. ListInv'
  <2>1. ListInv
    BY <1>1, Parts DEF Running
  <2>2. node' = node /\ head' = head /\ tail' = tail
    BY <1>1 DEF lists
  <2>3. \A q \in MappedPages : q \in Pages
    BY DEF MappedPages
  <2> QED
    BY <1>7, <2>1, <2>2, <2>3 DEF ListInv
<1>9. MapInv'
  BY <1>3, <1>4, <1>5, <1>7, Parts DEF MapInv, MappedPages
<1>10. BitsInv'
  <2>1. \A q \in MappedPages : q \in Pages
    BY DEF MappedPages
  <2> QED
    BY <1>1, <1>2, <1>4, <1>5, <1>7, <2>1, Parts DEF BitsInv
<1> QED
  BY <1>1, <1>6, <1>8, <1>9, <1>10, Parts, Silent DEF IInv, HandlerInv

\* What evict() finds: the page's bits are as it asserts.
LEMMA EvictFinds ==
  ASSUME IInv, pc = "evict", page \in Pages, node[MapNode(page)].addr # 0
  PROVE  /\ page \in MappedPages /\ pte[page].frame \in Frames
         /\ Entry(page) = pte[page] /\ pte[page].a /\ Allows(Entry(page), "load")
         /\ frames[pte[page].frame] # home[page] =>
              pte[page].d /\ Allows(Entry(page), "store")
<1>1. access.op = "ecall" /\ node[MapNode(page)].addr = pte[page].frame
  BY Parts DEF HandlerInv
<1>2. page \in MappedPages
  BY <1>1 DEF MappedPages
<1>3. pte[page].a /\ (frames[pte[page].frame] # home[page] => pte[page].d)
  BY <1>1, <1>2, Parts DEF BitsInv
<1>4. Entry(page) = pte[page] /\ pte[page].frame \in Frames /\ pte[page].frame # 0
  BY <1>1, Coherent DEF Entries
<1> QED
  BY <1>2, <1>3, <1>4 DEF Allows

LEMMA StepEvict == ASSUME IInv, Evict PROVE IInv'
<1> DEFINE n == MapNode(page)
           f == pte[page].frame
<1>1. /\ UNCHANGED <<pte, home, machine, access, loaded, host>>
      /\ pc = "evict" /\ page \in Pages /\ access.op = "ecall"
  BY Parts DEF Evict, HandlerInv
<1>2. n \in Nodes /\ page + 1 \in 1 .. MAX_TEST_PAGES
  BY <1>1, NodeFacts, Sizes DEF Pages
<1>3. AccessTypes' /\ MapInv'
  BY <1>1, Parts, MapKept DEF AccessTypes, machine
<1>4. CASE node[n].addr = 0
  <2>1. page' = page + 1 /\ UNCHANGED <<lists, frames, pc, say>>
    BY <1>4 DEF Evict
  <2>2. TypeOK'
    BY <1>1, <1>2, <2>1, Parts DEF TypeOK, lists, machine
  <2>3. HandlerInv'
    BY <1>1, <1>2, <2>1, Parts DEF HandlerInv, lists, Pages
  <2> QED
    BY <1>1, <1>3, <2>1, <2>2, <2>3, Parts, BitsKept, Silent DEF IInv, Running
<1>5. CASE node[n].addr # 0
  <2>1. /\ page \in MappedPages /\ f \in Frames
        /\ frames' = [frames EXCEPT ![f] = home[page]]
        /\ node' = [m \in Nodes |-> [addr |-> IF m = n THEN 0 ELSE node[m].addr,
                                     next |-> IF m = tail THEN n ELSE node[m].next]]
        /\ head' = (IF tail = Null THEN n ELSE head) /\ tail' = n
        /\ page' = page + 1 /\ pc' = pc /\ say' = say
    BY <1>1, <1>5, EvictFinds DEF Evict
  <2>2. TypeOK'
    <3>1. node' \in [Nodes -> [addr : {0} \cup Frames, next : Nodes \cup {Null}]]
      BY <1>2, <2>1, Parts DEF TypeOK
    <3>2. frames' \in [Frames -> Values]
      BY <1>1, <2>1, Parts DEF TypeOK
    <3> QED
      BY <1>1, <1>2, <2>1, <3>1, <3>2, Parts DEF TypeOK, machine
  <2>3. BitsInv'
    <3>1. frames'[f] = home[page] /\ \A g \in Frames : g # f => frames'[g] = frames[g]
      BY <2>1, Parts DEF TypeOK
    <3>2. \A q \in MappedPages : pte[q].frame \in Frames /\ (pte[q].frame = f => q = page)
      BY <2>1, Parts DEF MappedPages, TypeOK, Entries, MapInv
    <3>3. MappedPages' = MappedPages
      BY <1>1 DEF MappedPages
    <3> HIDE DEF f
    <3> QED
      BY <1>1, <3>1, <3>2, <3>3, Parts DEF BitsInv
  <2>4. HandlerInv'
    <3>1. \A p \in Pages : p >= page + 1 => node'[MapNode(p)].addr = pte[p].frame
      <4> SUFFICES ASSUME NEW p \in Pages, p >= page + 1
                   PROVE  node'[MapNode(p)].addr = pte[p].frame
        OBVIOUS
      <4>1. p >= page /\ p # page
        BY <1>1 DEF Pages
      <4>2. MapNode(p) # n /\ MapNode(p) \in Nodes
        BY <1>1, <4>1, NodeFacts
      <4>3. node[MapNode(p)].addr = pte[p].frame
        BY <1>1, <4>1, Parts DEF HandlerInv
      <4> QED
        BY <2>1, <4>2, <4>3
    <3> QED
      BY <1>1, <1>2, <2>1, <3>1 DEF HandlerInv
  <2> QED
    BY <1>1, <1>3, <2>1, <2>2, <2>3, <2>4, Parts, Silent DEF IInv, Running
<1> QED
  BY <1>4, <1>5

LEMMA StepEvictedAll == ASSUME IInv, EvictedAll PROVE IInv'
<1>1. /\ UNCHANGED <<pte, lists, home, frames, machine, access, loaded, page, host>>
      /\ pc = "evict" /\ pc' = "say" /\ say' = <<1>>
  BY DEF EvictedAll
<1>2. MapInv' /\ BitsInv' /\ AccessTypes'
  BY <1>1, Parts, MapKept, BitsKept DEF AccessTypes, machine
<1>3. TypeOK' /\ HandlerInv'
  BY <1>1, Parts DEF TypeOK, HandlerInv, lists, machine
<1>4. HostInv'
  BY <1>1, Parts DEF HostInv, host
<1>5. SayInv'
  BY <1>1 DEF SayInv, Text
<1> QED
  BY <1>1, <1>2, <1>3, <1>4, <1>5 DEF IInv, Running

\* The words of a message.
LEMMA Message ==
  /\ \A x : Head(<<x>>) = x /\ Tail(<<x>>) = <<>> /\ Len(<<x>>) = 1
  /\ \A x, y : Head(<<x, y>>) = x /\ Tail(<<x, y>>) = <<y>> /\ Len(<<x, y>>) = 2
  OBVIOUS

LEMMA Hearing ==
  /\ \A x \in Nat : Append(<<>>, x) = <<x>>
  /\ \A x, y \in Nat : Append(<<x>>, y) = <<x, y>>
<1>1. ASSUME NEW x \in Nat PROVE Append(<<>>, x) = <<x>>
  <2>1. <<>> \in Seq(Nat) /\ <<x>> \in Seq(Nat) /\ Len(<<x>>) = 1
    OBVIOUS
  <2>2. /\ Append(<<>>, x) \in Seq(Nat) /\ Len(Append(<<>>, x)) = 1
        /\ Append(<<>>, x)[1] = x
    BY <2>1, AppendProperties
  <2> QED
    BY <2>1, <2>2, SeqEqual
<1>2. ASSUME NEW x \in Nat, NEW y \in Nat PROVE Append(<<x>>, y) = <<x, y>>
  <2>1. <<x>> \in Seq(Nat) /\ <<x, y>> \in Seq(Nat) /\ Len(<<x, y>>) = 2
    OBVIOUS
  <2>2. /\ Append(<<x>>, y) \in Seq(Nat) /\ Len(Append(<<x>>, y)) = 2
        /\ Append(<<x>>, y)[1] = x /\ Append(<<x>>, y)[2] = y
    BY <2>1, AppendProperties
  <2>3. \A i \in 1 .. Len(<<x, y>>) : Append(<<x>>, y)[i] = <<x, y>>[i]
    <3>1. \A i \in 1 .. 2 : i = 1 \/ i = 2
      OBVIOUS
    <3> QED
      BY <2>1, <2>2, <3>1
  <2> QED
    BY <2>1, <2>2, <2>3, SeqEqual
<1> QED
  BY <1>1, <1>2

LEMMA StepSay == ASSUME IInv, do_tohost PROVE IInv'
<1>1. /\ UNCHANGED <<pte, lists, home, frames, machine, access, loaded, page, heard>>
      /\ pc = "say" /\ pc' = (IF Len(say) = 1 THEN "done" ELSE "say")
      /\ tohost = 0 /\ tohost' = Head(say) /\ say' = Tail(say)
  BY DEF do_tohost
<1>2. MapInv' /\ BitsInv' /\ AccessTypes'
  BY <1>1, Parts, MapKept, BitsKept DEF AccessTypes, machine
<1>3. TypeOK' /\ HandlerInv'
  BY <1>1, Parts DEF TypeOK, HandlerInv, lists, machine
<1>4. \/ say \in {<<1>>, <<841>>, <<Text, 3>>} /\ heard = <<>>
      \/ say = <<3>> /\ heard = <<Text>>
  BY <1>1, Parts DEF HostInv, Text
<1>5. HostInv' /\ SayInv'
  <2>1. CASE say = <<1>> \/ say = <<841>>
    <3>1. heard = <<>>
      BY <1>4, <2>1
    <3>2. pc' = "done" /\ say' = <<>> /\ tohost' \in {1, 841} /\ heard' = <<>>
      BY <1>1, <2>1, <3>1, Message
    <3> QED
      BY <3>2 DEF HostInv, SayInv
  <2>2. CASE say = <<Text, 3>>
    BY <1>1, <1>4, <2>2, Message, Parts DEF HostInv, SayInv, Text
  <2>3. CASE say = <<3>>
    BY <1>1, <1>4, <2>3, Message DEF HostInv, SayInv, Text
  <2> QED
    BY <1>4, <2>1, <2>2, <2>3
<1>6. ~Running'
  BY <1>1 DEF Running
<1> QED
  BY <1>2, <1>3, <1>5, <1>6 DEF IInv

LEMMA StepHost == ASSUME IInv, Host PROVE IInv'
<1>1. /\ UNCHANGED <<pte, lists, home, frames, machine, access, loaded, pc, page, say>>
      /\ tohost # 0 /\ heard' = Append(heard, tohost) /\ tohost' = 0
  BY DEF Host
<1>2. MapInv' /\ BitsInv' /\ AccessTypes' /\ SayInv'
  BY <1>1, Parts, MapKept, BitsKept DEF AccessTypes, machine, SayInv
<1>3. TypeOK' /\ HandlerInv'
  BY <1>1, Parts DEF TypeOK, HandlerInv, lists, machine, MappedPages, Allows
<1>4. HostInv' /\ ~Running'
  <2>1. CASE pc = "say"
    <3>1. say = <<3>> /\ tohost = 2 /\ heard = <<>>
      BY <1>1, <2>1, Parts DEF HostInv, Text
    <3>2. heard' = <<2>>
      BY <1>1, <3>1, Hearing
    <3> QED
      BY <1>1, <2>1, <3>1, <3>2 DEF HostInv, Running, Text
  <2>2. CASE pc = "done"
    <3>1. /\ say = <<>>
          /\ \/ tohost \in {1, 841} /\ heard = <<>>
             \/ tohost = 3 /\ heard = <<2>>
      BY <1>1, <2>2, Parts DEF HostInv, Text
    <3>2. heard' \in {<<1>>, <<841>>, <<2, 3>>}
      <4>1. CASE tohost \in {1, 841} /\ heard = <<>>
        <5>1. heard' = <<tohost>>
          BY <1>1, <4>1, Hearing
        <5> QED
          BY <4>1, <5>1
      <4>2. CASE tohost = 3 /\ heard = <<2>>
        BY <1>1, <4>2, Hearing
      <4> QED
        BY <3>1, <4>1, <4>2
    <3> QED
      BY <1>1, <2>2, <3>1, <3>2 DEF HostInv, Running, Text
  <2> QED
    BY <1>1, <2>1, <2>2, Parts DEF HostInv
<1> QED
  BY <1>2, <1>3, <1>4 DEF IInv

LEMMA StepInv == IInv /\ [Next]_vars => IInv'
<1> SUFFICES ASSUME IInv, [Next]_vars PROVE IInv'
  OBVIOUS
<1>1. CASE UNCHANGED vars
  <2>1. UNCHANGED <<pte, lists, home, frames, machine, adue, access, loaded, pc, page, host, say>>
    BY <1>1 DEF vars, lists, machine, host
  <2>2. MapInv' /\ BitsInv' /\ (Running => ListInv')
    BY <2>1, Parts, MapKept, BitsKept, ListKept DEF machine
  <2>3. TypeOK' /\ AccessTypes' /\ HandlerInv' /\ HostInv' /\ SayInv'
    BY <2>1, Parts DEF TypeOK, AccessTypes, HandlerInv, HostInv, SayInv, lists, machine,
                       host, MappedPages, Allows
  <2> QED
    BY <2>1, <2>2, <2>3 DEF IInv, Running
<1>2. CASE \E p \in Pages : Fill(p)
  BY <1>2, StepFill
<1>3. CASE Stopped
  BY <1>1, <1>3 DEF Stopped
<1>4. CASE handle_fault
  BY <1>4, StepOutOfRange, StepSoftFault, StepTakeFrame, StepCopyIn, StepProtect DEF handle_fault
<1> QED
  BY <1>1, <1>2, <1>3, <1>4, StepIssue, StepRetire, StepSetBits, StepTrap, StepEvict,
     StepEvictedAll, StepSay, StepHost DEF Next, Hart

\* The invariant of vm.c.
THEOREM VmInvariant == Spec => []IInv
  BY InitInv, StepInv, PTL DEF Spec

\* The page table, the lists and the memory keep their types.
THEOREM VmTypeOK == Spec => []TypeOK
<1>1. IInv => TypeOK
  BY DEF IInv
<1> QED
  BY <1>1, VmInvariant, PTL

\* No assertion of vm.c fails for an access inside the test pages, and the
\* handler never faults.
THEOREM NoAssertionFails == Spec => []AssertionsHold
<1>1. IInv => AssertionsHold
  <2> SUFFICES ASSUME IInv PROVE AssertionsHold
    OBVIOUS
  <2>1. pc # "lost"
    BY Parts DEF HandlerInv
  <2>2. ASSUME pc = "say", 3 \in {say[i] : i \in 1 .. Len(say)}
        PROVE  access.op \in {"load", "store"} /\ access.page \notin Pages
    <3>1. PICK i \in 1 .. Len(say) : say[i] = 3
      BY <2>2
    <3>2. say # <<1>> /\ say # <<841>>
      BY <3>1
    <3> QED
      BY <2>2, <3>2, Parts DEF HostInv, SayInv
  <2> QED
    BY <2>1, <2>2 DEF AssertionsHold
<1> QED
  BY <1>1, VmInvariant, PTL

\* Once the hart has ended, the host has heard its exit code.
THEOREM ExitHeard == Spec => []HostHears
<1>1. IInv => HostHears
  BY Parts DEF HostInv, HostHears
<1> QED
  BY <1>1, VmInvariant, PTL

-----------------------------------------------------------------------------
(* The free list *)

\* Induction, for a set given by what its elements satisfy.
LEMMA SetInduction ==
  ASSUME NEW S, 0 \in S, \A n \in Nat : n \in S => n + 1 \in S
  PROVE  Nat \subseteq S
<1> DEFINE R == {ss \in Nat \X Nat : ss[1] < ss[2]}
<1>1. IsWellFoundedOn(R, Nat)
  BY NatLessThanWellFounded DEF OpToRel
<1>2. SUFFICES ASSUME Nat \ S # {} PROVE FALSE
  OBVIOUS
<1>3. PICK x \in Nat \ S : \A y \in Nat \ S : ~(<<y, x>> \in R)
  BY <1>1, <1>2, WFMin
<1>4. x # 0 /\ x - 1 \in Nat /\ x - 1 < x
  BY <1>3
<1>5. x - 1 \notin S
  BY <1>3, <1>4
<1>6. <<x - 1, x>> \in R
  BY <1>3, <1>4
<1> QED
  BY <1>3, <1>4, <1>5, <1>6

\* The nodes from the head on are the free list, in the order of the array.
LEMMA FreeNodesLeft ==
  ASSUME IInv, Running
  PROVE  FreeList = head .. (MAX_TEST_PAGES - 1)
<1> DEFINE M == MAX_TEST_PAGES
           Step(g, k) == IF k = 0 THEN head
                         ELSE IF g[k - 1] = Null THEN Null ELSE node[g[k - 1]].next
           After(g) == g = [k \in 0 .. M |-> Step(g, k)]
           after == CHOOSE g : After(g)
           walk == [k \in 0 .. M |-> IF head + k < M THEN head + k ELSE Null]
<1>1. FreeList = {after[k] : k \in 0 .. M} \ {Null}
  BY DEF FreeList
<1>2. /\ M \in Nat /\ M > 1 /\ head \in 0 .. (M - 1)
      /\ \A n \in 0 .. (M - 1) : node[n].next = IF n = M - 1 THEN Null ELSE n + 1
  BY Parts, Sizes DEF ListInv, NextNode, FreeNodes
<1>3. After(walk)
  <2>1. \A k \in 0 .. M : walk[k] = Step(walk, k)
    <3> SUFFICES ASSUME NEW k \in 0 .. M PROVE walk[k] = Step(walk, k)
      OBVIOUS
    <3>1. CASE k = 0
      BY <1>2, <3>1
    <3>2. CASE k # 0
      <4>1. k - 1 \in 0 .. M
        BY <1>2, <3>2
      <4>2. walk[k - 1] = IF head + k <= M THEN head + k - 1 ELSE Null
        BY <1>2, <4>1
      <4>3. walk[k] = IF head + k < M THEN head + k ELSE Null
        OBVIOUS
      <4>4. CASE head + k <= M
        <5>1. walk[k - 1] = head + k - 1 /\ head + k - 1 \in 0 .. (M - 1)
              /\ head + k - 1 # Null
          BY <1>2, <3>2, <4>2, <4>4 DEF Null
        <5> HIDE DEF walk
        <5>2. node[walk[k - 1]].next = IF head + k = M THEN Null ELSE head + k
          BY <1>2, <5>1
        <5> QED
          BY <1>2, <3>2, <4>3, <4>4, <5>1, <5>2
      <4>5. CASE ~(head + k <= M)
        <5>1. walk[k - 1] = Null /\ walk[k] = Null
          BY <1>2, <4>2, <4>3, <4>5
        <5> HIDE DEF walk
        <5> QED
          BY <3>2, <5>1
      <4> QED
        BY <4>4, <4>5
    <3> QED
      BY <3>1, <3>2
  <2> QED
    BY <2>1
<1>4. After(after)
  <2> HIDE DEF After
  <2> QED
    BY <1>3
<1>5. \A k \in 0 .. M : after[k] = walk[k]
  <2> DEFINE S == {k \in Nat : k <= M => after[k] = walk[k]}
  <2> HIDE DEF after, walk
  <2>1. \A k \in 0 .. M : after[k] = Step(after, k) /\ walk[k] = Step(walk, k)
    BY <1>3, <1>4
  <2>2. 0 \in S
    BY <1>2, <2>1
  <2>3. ASSUME NEW k \in Nat, k \in S PROVE k + 1 \in S
    <3>1. SUFFICES ASSUME k + 1 <= M PROVE after[k + 1] = walk[k + 1]
      OBVIOUS
    <3>2. after[k] = walk[k] /\ k + 1 \in 0 .. M /\ k + 1 # 0 /\ (k + 1) - 1 = k
      BY <1>2, <2>3, <3>1
    <3> QED
      BY <2>1, <3>2
  <2>4. Nat \subseteq S
    <3> HIDE DEF S
    <3> QED
      BY <2>2, <2>3, SetInduction
  <2> QED
    BY <1>2, <2>4
<1>6. {after[k] : k \in 0 .. M} = {walk[k] : k \in 0 .. M}
  <2> HIDE DEF after, walk
  <2> QED
    BY <1>5
<1>7. {walk[k] : k \in 0 .. M} \ {Null} = head .. (M - 1)
  <2>1. ASSUME NEW n \in head .. (M - 1) PROVE n \in {walk[k] : k \in 0 .. M} \ {Null}
    <3>1. n - head \in 0 .. M /\ head + (n - head) = n /\ n < M /\ n # Null
      BY <1>2 DEF Null
    <3> QED
      BY <3>1
  <2>2. ASSUME NEW k \in 0 .. M, walk[k] # Null PROVE walk[k] \in head .. (M - 1)
    <3>1. head + k < M /\ walk[k] = head + k
      BY <1>2, <2>2
    <3> HIDE DEF walk
    <3> QED
      BY <1>2, <3>1
  <2> QED
    BY <2>1, <2>2
<1> HIDE DEF after, walk
<1> QED
  BY <1>1, <1>6, <1>7

\* Every frame has one owner, and all are accounted for.
THEOREM FramesOwned == Spec => []OneOwner
<1>1. IInv => OneOwner
  <2> SUFFICES ASSUME IInv, Running PROVE OneOwner
    BY DEF OneOwner
  <2> DEFINE rest == head .. (MAX_TEST_PAGES - 1)
             free == {node[n].addr : n \in rest}
             f == [n \in rest |-> node[n].addr]
  <2>1. FreeList = rest
    BY FreeNodesLeft
  <2>2. ListInv /\ MapInv
    BY Parts
  <2>3. /\ head \in Nat /\ head < MAX_TEST_PAGES
        /\ \A n \in rest : n \in FreeNodes
        /\ \A n \in 0 .. (head - 1) : n \in FreeNodes /\ n \notin rest
    BY <2>2, Sizes DEF ListInv, FreeNodes
  <2>4. \A n \in rest : node[n].addr \in Frames /\ node[n].addr # 0
    BY <2>2, <2>3, Sizes DEF ListInv, Frames
  <2>5. free \ {0} = free
    BY <2>4
  <2>6. Cardinality(free) = MAX_TEST_PAGES - head
    <3>1. IsFiniteSet(rest) /\ Cardinality(rest) = MAX_TEST_PAGES - head
      BY <2>3, Sizes, FS_Interval
    <3>2. f \in Bijection(rest, free)
      <4>1. f \in Injection(rest, free)
        BY <2>2, <2>3 DEF ListInv, Injection, IsInjective
      <4>2. f \in Surjection(rest, free)
        BY DEF Surjection
      <4> QED
        BY <4>1, <4>2 DEF Bijection
    <3> HIDE DEF rest, free, f
    <3>3. ExistsBijection(rest, free)
      BY <3>2 DEF ExistsBijection
    <3> QED
      BY <3>1, <3>3, FS_Bijection
  <2>7. {pte[p].frame : p \in MappedPages} \cap free = {}
    <3> SUFFICES ASSUME NEW p \in MappedPages, NEW n \in rest, pte[p].frame = node[n].addr
                 PROVE  FALSE
      OBVIOUS
    <3>1. PICK m \in 0 .. (head - 1) : pte[p].frame = node[m].addr
      BY <2>2 DEF ListInv
    <3>2. m = n
      BY <2>2, <2>3, <3>1 DEF ListInv
    <3> QED
      BY <2>3, <3>1, <3>2
  <2>8. /\ Cardinality(MappedPages) = head
        /\ \A p \in Pages : pte[p].frame = node[MapNode(p)].addr
        /\ \A p, q \in MappedPages : p # q => pte[p].frame # pte[q].frame
    BY <2>2 DEF ListInv, MapInv
  <2>9. Cardinality(free \ {0}) + Cardinality(MappedPages) = MAX_TEST_PAGES
    <3> HIDE DEF free
    <3> QED
      BY <2>3, <2>5, <2>6, <2>8, Sizes
  <2> HIDE DEF rest
  <2> QED
    BY <2>1, <2>7, <2>8, <2>9 DEF OneOwner, MappedPages
<1> QED
  BY <1>1, VmInvariant, PTL

-----------------------------------------------------------------------------
(* The program's memory *)

\* A page shows its image or its frame.
LEMMA SeenType == TypeOK => Seen \in [Pages -> Values]
<1> SUFFICES ASSUME TypeOK, NEW p \in Pages,
                    ~(node[MapNode(p)].addr = 0 \/ (pc = "copy" /\ page = p))
             PROVE  frames[node[MapNode(p)].addr] \in Values
  BY DEF TypeOK, Seen
<1>1. node[MapNode(p)].addr \in Frames
  BY NodeFacts DEF TypeOK
<1> QED
  BY <1>1 DEF TypeOK

\* The lists, the memory and the end of a copy decide what is seen.
LEMMA SeenKept ==
  ASSUME UNCHANGED <<node, home, frames, page>>, (pc' = "copy") = (pc = "copy")
  PROVE  Seen' = Seen
  BY DEF Seen

\* A step the program cannot see.
LEMMA Unseen ==
  ASSUME Seen' = Seen, UNCHANGED <<access, loaded>>, Running' = Running
  PROVE  [Flat!Next]_(Flat!vars)
  BY DEF Flat!vars

\* A step of a program that has ended, or ends.
LEMMA Ended ==
  ASSUME TypeOK', UNCHANGED <<access, loaded>>, ~Running', access # [op |-> "none"],
         ~(access.op \in {"load", "store"} /\ access.page \in Pages)
  PROVE  Flat!Next
<1>1. TypeOK' => (Seen \in [Pages -> Values])'
  BY SeenType, PTL
<1> QED
  BY <1>1 DEF Flat!Next, Flat!Exit, Flat!Free, Flat!Inside

LEMMA FlatIssue == ASSUME IInv, Issue PROVE Flat!Next
<1>1. /\ UNCHANGED <<pte, lists, home, frames, machine, loaded, pc, page, host, say>>
      /\ access = [op |-> "none"]
  BY Parts DEF Issue, AccessTypes
<1>2. access' \in Flat!Accesses
  <2>1. Pages \cup {0, MAX_TEST_PAGES} = 0 .. MAX_TEST_PAGES
    BY Sizes DEF Pages
  <2> QED
    BY <2>1 DEF Issue, Flat!Accesses
<1>3. Seen' = Seen /\ Running' = Running
  BY <1>1, SeenKept DEF lists, Running
<1> QED
  BY <1>1, <1>2, <1>3 DEF Flat!Next, Flat!Issue, Flat!Free

\* While the program runs, a page's content is in its frame, of its own.
LEMMA SeenMapped ==
  ASSUME IInv, Running, NEW p \in Pages
  PROVE  Seen[p] = IF p \notin MappedPages \/ (pc = "copy" /\ page = p) THEN home[p]
                   ELSE frames[pte[p].frame]
  BY Parts DEF ListInv, Seen, MappedPages

LEMMA FlatRetire == ASSUME IInv, Retire PROVE Flat!Next
<1> DEFINE p == access.page
           f == pte[p].frame
<1>1. /\ UNCHANGED <<pte, lists, home, machine, pc, page, host, say>>
      /\ pc = "user" /\ access' = [op |-> "none"] /\ Running /\ Running'
  BY DEF Retire, Accessing, Running
<1>2. /\ p \in Pages /\ Allows(pte[p], access.op) /\ access.op \in {"load", "store"}
  BY Coherent DEF Retire, Accessing
<1>3. p \in MappedPages /\ f \in Frames
  BY <1>2, Parts DEF TypeOK, Entries, Allows, MappedPages
<1>4. Seen[p] = frames[f]
  BY <1>1, <1>2, <1>3, SeenMapped
<1>5. CASE access.op = "load"
  <2>1. frames' = frames /\ loaded' = frames[f]
    BY <1>2, <1>5, Coherent DEF Retire
  <2>2. Seen' = Seen
    BY <1>1, <2>1, SeenKept DEF lists
  <2> QED
    BY <1>1, <1>2, <1>4, <1>5, <2>1, <2>2 DEF Flat!Next, Flat!Load, Flat!Free, Flat!Inside
<1>6. CASE access.op = "store"
  <2>1. frames' = [frames EXCEPT ![f] = access.value] /\ loaded' = loaded
    BY <1>2, <1>6, Coherent DEF Retire
  <2>2. /\ frames'[f] = access.value
        /\ \A g \in Frames : g # f => frames'[g] = frames[g]
    BY <1>3, <2>1, Parts DEF TypeOK
  <2>3. IInv' /\ MappedPages' = MappedPages
    BY <1>1, StepRetire DEF MappedPages
  <2>4. \A q \in Pages : Seen'[q] = IF q = p THEN access.value ELSE Seen[q]
    <3> SUFFICES ASSUME NEW q \in Pages
                 PROVE  Seen'[q] = IF q = p THEN access.value ELSE Seen[q]
      OBVIOUS
    <3>1. Seen'[q] = IF q \notin MappedPages THEN home[q] ELSE frames'[pte[q].frame]
      BY <1>1, Parts DEF ListInv, Seen, MappedPages, lists
    <3>2. Seen[q] = IF q \notin MappedPages THEN home[q] ELSE frames[pte[q].frame]
      BY <1>1, SeenMapped
    <3>3. CASE q = p
      BY <1>3, <2>2, <3>1, <3>3
    <3>4. CASE q # p /\ q \in MappedPages
      <4>1. pte[q].frame # f /\ pte[q].frame \in Frames
        BY <1>3, <3>4, Parts DEF MapInv, TypeOK, Entries, MappedPages
      <4> QED
        BY <2>2, <3>1, <3>2, <3>4, <4>1
    <3> QED
      BY <3>1, <3>2, <3>3, <3>4
  <2>5. Seen' = [Seen EXCEPT ![p] = access.value]
    BY <2>4 DEF Seen
  <2> QED
    BY <1>1, <1>2, <1>6, <2>1, <2>5 DEF Flat!Next, Flat!Store, Flat!Free, Flat!Inside
<1> QED
  BY <1>2, <1>5, <1>6

LEMMA FlatTrap == ASSUME IInv, Trap PROVE [Flat!Next]_(Flat!vars)
<1>1. /\ UNCHANGED <<pte, lists, home, frames, machine, access, loaded, host>>
      /\ pc = "user"
  BY DEF Trap, Accessing
<1>2. TypeOK'
  BY StepTrap, Parts DEF IInv
<1>3. CASE Accessing /\ pc' = "fault" /\ page' = access.page
  <2>1. Seen' = Seen
    BY <1>1, <1>3 DEF Seen, lists
  <2> QED
    BY <1>1, <1>3, <2>1, Unseen DEF Running
<1>4. CASE access.op \in {"ecall", "fssr"} /\ pc' \in {"evict", "say"}
  BY <1>1, <1>2, <1>4, Ended DEF Running
<1> QED
  BY <1>3, <1>4 DEF Trap

\* The fresh frame is hidden until the image has been copied into it.
LEMMA FlatTakeFrame == ASSUME IInv, TakeFrame PROVE Seen' = Seen
<1>1. /\ node' = [node EXCEPT ![MapNode(page)] = GivenNode]
      /\ UNCHANGED <<home, frames, page>> /\ pc = "fault" /\ pc' = "copy" /\ page \in Pages
      /\ node[MapNode(page)].addr = 0
  <2>1. pc = "fault" /\ page \in Pages /\ page \notin MappedPages /\ Running
    BY TakeFrameTakes DEF TakeFrame, Running
  <2>2. node[MapNode(page)].addr = 0
    BY <2>1, Parts DEF ListInv, MappedPages
  <2> QED
    BY <2>1, <2>2, TakeFrameTakes DEF TakeFrame, GivenNode
<1>2. \A q \in Pages : Seen'[q] = Seen[q]
  <2> SUFFICES ASSUME NEW q \in Pages PROVE Seen'[q] = Seen[q]
    OBVIOUS
  <2>1. CASE q = page
    BY <1>1, <2>1 DEF Seen
  <2>2. CASE q # page
    <3>1. MapNode(q) # MapNode(page) /\ MapNode(q) \in Nodes
      BY <1>1, <2>2, NodeFacts
    <3>2. node'[MapNode(q)] = node[MapNode(q)]
      BY <1>1, <3>1, Parts DEF TypeOK
    <3> QED
      BY <1>1, <2>2, <3>2 DEF Seen
  <2> QED
    BY <2>1, <2>2
<1> QED
  BY <1>2 DEF Seen

\* The copy shows what the image showed.
LEMMA FlatCopyIn == ASSUME IInv, CopyIn PROVE Seen' = Seen
<1> DEFINE f == pte[page].frame
<1>1. /\ UNCHANGED <<pte, lists, home, page>>
      /\ page \in MappedPages /\ page \in Pages /\ f \in Frames
      /\ frames' = [frames EXCEPT ![f] = home[page]]
      /\ pc = "copy" /\ pc' = "protect" /\ Running
  BY CopyInCopies DEF CopyIn, Running
<1>2. frames'[f] = home[page] /\ \A g \in Frames : g # f => frames'[g] = frames[g]
  BY <1>1, Parts DEF TypeOK
<1>3. \A q \in Pages : Seen'[q] = Seen[q]
  <2> SUFFICES ASSUME NEW q \in Pages PROVE Seen'[q] = Seen[q]
    OBVIOUS
  <2>1. Seen'[q] = IF q \notin MappedPages THEN home[q] ELSE frames'[pte[q].frame]
    BY <1>1, Parts DEF ListInv, Seen, MappedPages, lists
  <2>2. Seen[q] = IF q \notin MappedPages \/ q = page THEN home[q] ELSE frames[pte[q].frame]
    BY <1>1, SeenMapped
  <2>3. q \in MappedPages /\ q # page => pte[q].frame \in Frames /\ pte[q].frame # f
    BY <1>1, Parts DEF MapInv, TypeOK, Entries, MappedPages
  <2> HIDE DEF f
  <2> QED
    BY <1>1, <1>2, <2>1, <2>2, <2>3 DEF f
<1> QED
  BY <1>3 DEF Seen

LEMMA FlatFault == ASSUME IInv, handle_fault PROVE [Flat!Next]_(Flat!vars)
<1>1. CASE OutOfRange
  <2>1. /\ UNCHANGED <<access, loaded>> /\ ~Running'
        /\ access.op \in {"load", "store"} /\ access.page \notin Pages
    BY <1>1, Parts DEF OutOfRange, Assertion, HandlerInv, Running
  <2>2. TypeOK'
    BY <1>1, StepOutOfRange DEF IInv
  <2> QED
    BY <2>1, <2>2, Ended
<1>2. CASE SoftFault
  <2>1. /\ UNCHANGED <<lists, home, frames, access, loaded, page>>
        /\ pc = "fault" /\ pc' = "user"
    BY <1>2, SoftFaultSets DEF SoftFault
  <2> QED
    BY <2>1, SeenKept, Unseen DEF lists, Running
<1>3. CASE TakeFrame
  <2>1. UNCHANGED <<access, loaded>> /\ pc = "fault" /\ pc' = "copy"
    BY <1>3, TakeFrameTakes DEF TakeFrame
  <2> QED
    BY <1>3, <2>1, FlatTakeFrame, Unseen DEF Running
<1>4. CASE CopyIn
  <2>1. UNCHANGED <<access, loaded>> /\ pc = "copy" /\ pc' = "protect"
    BY <1>4, CopyInCopies DEF CopyIn
  <2> QED
    BY <1>4, <2>1, FlatCopyIn, Unseen DEF Running
<1>5. CASE Protect
  <2>1. /\ UNCHANGED <<lists, home, frames, access, loaded, page>>
        /\ pc = "protect" /\ pc' = "user"
    BY <1>5 DEF Protect
  <2> QED
    BY <2>1, SeenKept, Unseen DEF lists, Running
<1> QED
  BY <1>1, <1>2, <1>3, <1>4, <1>5 DEF handle_fault

LEMMA FlatEvict == ASSUME IInv, Evict PROVE Flat!Next
<1>1. UNCHANGED <<access, loaded>> /\ access.op = "ecall"
  BY Parts DEF Evict, HandlerInv
<1>2. pc' # "user" /\ pc' # "fault" /\ pc' # "copy" /\ pc' # "protect"
  BY DEF Evict, Assertion
<1>3. TypeOK'
  BY StepEvict DEF IInv
<1> QED
  BY <1>1, <1>2, <1>3, Ended DEF Running

LEMMA FlatStep == ASSUME IInv, [Next]_vars PROVE [Flat!Next]_(Flat!vars)
<1>1. CASE UNCHANGED vars
  BY <1>1, SeenKept, Unseen DEF vars, Running
<1>2. CASE \E p \in Pages : Fill(p)
  BY <1>2, SeenKept, Unseen DEF Fill, lists, Running
<1>3. CASE SetBits
  BY <1>3, SeenKept, Unseen DEF SetBits, lists, Running
<1>4. CASE EvictedAll
  BY <1>4, SeenKept, Unseen DEF EvictedAll, lists, Running
<1>5. CASE do_tohost
  BY <1>5, SeenKept, Unseen DEF do_tohost, lists, Running
<1>6. CASE Host
  BY <1>6, SeenKept, Unseen DEF Host, lists, Running
<1>7. CASE Stopped
  BY <1>1, <1>7 DEF Stopped
<1> QED
  BY <1>1, <1>2, <1>3, <1>4, <1>5, <1>6, <1>7, FlatIssue, FlatRetire, FlatTrap, FlatFault,
     FlatEvict DEF Next, Hart

\* Demand paging is transparent: each step of the environment is one of a
\* memory with one value in each page, or none.
THEOREM PagingTransparent == Spec => ImplementsFlatMemory
<1>1. Init => Flat!Init
  <2> SUFFICES ASSUME Init PROVE Flat!Init
    OBVIOUS
  <2>1. Seen \in [Pages -> Values] /\ loaded \in Values
    BY InitInv, Parts, SeenType DEF AccessTypes
  <2> QED
    BY <2>1 DEF Init, Flat!Init, Flat!Free, Running
<1>2. IInv /\ [Next]_vars => [Flat!Next]_(Flat!vars)
  BY FlatStep
<1> QED
  BY <1>1, <1>2, VmInvariant, PTL DEF Spec, ImplementsFlatMemory, Flat!Spec
=============================================================================
