--------------------------------- MODULE Vm ---------------------------------
(***************************************************************************)
(* The virtual-memory test environment, riscv-tests/env/v/vm.c: a user     *)
(* program whose pages are copied in on its first access to each, from a   *)
(* shuffled free list of frames, with the accessed and dirty bits of every *)
(* page left to page faults.                                               *)
(*                                                                         *)
(* A page holds one value.  "home" is the page's image below DRAM_BASE +   *)
(* MAX_TEST_PAGES*PGSIZE, "frames" the pages above it.  The machine is     *)
(* external: a TLB that may cache the current translation of any page at   *)
(* any time, valid or not, and drops it only at sfence.vma, and that       *)
(* either traps on a clear A or D bit or sets the bit itself ("adue").     *)
(* The other hart (coherence_torture) reads and adds zero: it changes      *)
(* nothing the program could see, and is left out.                         *)
(***************************************************************************)
EXTENDS Integers, Sequences, FiniteSets

CONSTANTS LfsrBits,       \* 6 in riscv_test.h
          MAX_TEST_PAGES, \* 63: the period of the LFSR
          Values          \* what a page may hold

ASSUME LfsrAssumption ==
  /\ LfsrBits \in Nat \ {0} /\ MAX_TEST_PAGES \in Nat
  /\ MAX_TEST_PAGES = 2^LfsrBits - 1 /\ MAX_TEST_PAGES > 1

\* vm_boot clears the registers the program starts with.
ASSUME ValuesAssumption == 0 \in Values

Pages  == 1 .. (MAX_TEST_PAGES - 1)        \* page 0 stays unmapped
Frames == 1 .. MAX_TEST_PAGES              \* after the last home page
FreeNodes == 0 .. (MAX_TEST_PAGES - 1)     \* freelist_nodes
Null == -1

\* The two node arrays share one space of addresses.
MapNode(p) == MAX_TEST_PAGES + p           \* &user_mapping[p]
Nodes == FreeNodes \cup {MapNode(p) : p \in Pages}

VARIABLES
  pte,          \* user_llpt: no entry, or a frame with its A and D bits
  node,         \* freelist_nodes and user_mapping: frame (0: none) and next
  head, tail,   \* freelist_head, freelist_tail
  home, frames, \* the contents of memory
  tlb,          \* cached translations, or Uncached
  adue,         \* the machine sets A and D itself
  access,       \* what the program is doing: an access, or its exit call
  loaded,       \* the result of its last load
  pc,           \* who runs: "user", or where in the handler
  page,         \* addr/PGSIZE of the handler
  tohost,       \* the word shared with the host, 0 when empty
  say,          \* what is still to be sent with do_tohost
  heard         \* what the host has read

machine == <<tlb, adue>>
lists   == <<node, head, tail>>
host    == <<tohost, heard>>
vars == <<pte, node, head, tail, home, frames, tlb, adue, access, loaded, pc, page,
          tohost, say, heard>>

Invalid == [frame |-> 0, a |-> FALSE, d |-> FALSE]
Uncached == [frame |-> -1, a |-> FALSE, d |-> FALSE]
Entries == [frame : {0} \cup Frames, a : BOOLEAN, d : BOOLEAN]

---------------------------------------------------------------------------
(* Boot *)

\* The two low bits' exclusive or shifted in at the top.
LFSR_NEXT(bits, x) == ((x + (x \div 2)) % 2) * 2^(bits - 1) + x \div 2

\* The frame of freelist_nodes[i], from a given value of "random".
Shuffled(bits, random) ==
  LET frame[i \in 0 .. (2^bits - 2)] ==
        IF i = 0 THEN random ELSE LFSR_NEXT(bits, frame[i - 1])
  IN  frame

\* riscv_test.h on MAX_TEST_PAGES: "this must be the period of the LFSR below".
\* Every seed then gives each frame to one node.
FullPeriod(bits, period) ==
  \A random \in 1 .. period :
    {Shuffled(bits, random)[i] : i \in 0 .. (period - 1)} = 1 .. period

ASSUME PeriodAssumption == FullPeriod(LfsrBits, MAX_TEST_PAGES)

\* "next = 0" of the last node forgotten (a mutation).
NextNode_NoEnd(n) == n + 1

NextNode(n) == IF n = MAX_TEST_PAGES - 1 THEN Null ELSE n + 1

Init ==
  /\ pte = [p \in Pages |-> Invalid]
  /\ \E random \in 1 .. MAX_TEST_PAGES :
       node = [n \in Nodes |->
                 IF n \notin FreeNodes THEN [addr |-> 0, next |-> Null]
                 ELSE [addr |-> Shuffled(LfsrBits, random)[n], next |-> NextNode(n)]]
  /\ head = 0
  /\ tail = MAX_TEST_PAGES - 1
  /\ home \in [Pages -> Values]
  /\ frames \in [Frames -> Values]
  /\ tlb = [p \in Pages |-> Uncached]
  /\ adue \in BOOLEAN
  /\ access = [op |-> "none"]
  /\ loaded = 0
  /\ pc = "user"
  /\ page = 0
  /\ tohost = 0
  /\ say = <<>>
  /\ heard = <<>>

---------------------------------------------------------------------------
(* The machine *)

\* The translation an access of page p goes through.
Entry(p) == IF tlb[p] = Uncached THEN pte[p] ELSE tlb[p]
Allows(e, op) == e.frame # 0 /\ e.a /\ (op = "store" => e.d)

Fill(p) ==
  /\ pc # "done"
  /\ tlb[p] = Uncached
  /\ tlb' = [tlb EXCEPT ![p] = pte[p]]
  /\ UNCHANGED <<pte, lists, home, frames, adue, access, loaded, pc, page, host, say>>

\* The program's next instruction; "fssr" is one the hardware does not have.
\* Pages 0 and MAX_TEST_PAGES stand for all addresses outside.
Issue ==
  /\ pc = "user"
  /\ access.op = "none"
  /\ access' \in [op : {"load"}, page : 0 .. MAX_TEST_PAGES]
                 \cup [op : {"store"}, page : 0 .. MAX_TEST_PAGES, value : Values]
                 \cup {[op |-> "ecall"], [op |-> "fssr"]}
  /\ UNCHANGED <<pte, lists, home, frames, machine, loaded, pc, page, host, say>>

Accessing == pc = "user" /\ access.op \in {"load", "store"}
Mapped(p) == p \in Pages /\ Entry(p).frame # 0

Retire ==
  /\ Accessing
  /\ access.page \in Pages /\ Allows(Entry(access.page), access.op)
  /\ LET f == Entry(access.page).frame
     IN  IF access.op = "load"
         THEN loaded' = frames[f] /\ UNCHANGED frames
         ELSE frames' = [frames EXCEPT ![f] = access.value] /\ UNCHANGED loaded
  /\ access' = [op |-> "none"]
  /\ UNCHANGED <<pte, lists, home, machine, pc, page, host, say>>

\* A walk that sets A, and D for a store.
SetBits ==
  /\ Accessing /\ adue
  /\ Mapped(access.page) /\ ~Allows(Entry(access.page), access.op)
  /\ LET p == access.page
         new == [pte[p] EXCEPT !.a = TRUE, !.d = @ \/ access.op = "store"]
     IN  /\ pte' = [pte EXCEPT ![p] = new]
         /\ tlb' = [tlb EXCEPT ![p] = new]
  /\ UNCHANGED <<lists, home, frames, adue, access, loaded, pc, page, host, say>>

\* trap_entry, handle_trap: the page faults and the exit call.  Nothing else is
\* delegated: any other exception ends in the machine-mode vector, at wtf().
Trap ==
  /\ \/ /\ Accessing
        /\ IF Mapped(access.page) THEN ~adue /\ ~Allows(Entry(access.page), access.op)
           ELSE TRUE
        /\ pc' = "fault" /\ page' = access.page /\ UNCHANGED say
     \/ /\ pc = "user" /\ access.op = "ecall"
        /\ pc' = "evict" /\ page' = 1 /\ UNCHANGED say
     \/ /\ pc = "user" /\ access.op = "fssr"
        /\ pc' = "say" /\ say' = <<841>> /\ UNCHANGED page
  /\ UNCHANGED <<pte, lists, home, frames, machine, access, loaded, host>>

---------------------------------------------------------------------------
(* handle_fault *)

\* assert() failing: cputstring(), here one word, then terminate(3).
Text == 2
Assertion == pc' = "say" /\ say' = <<Text, 3>>

flush_page(p) == tlb' = [tlb EXCEPT ![p] = Uncached]

OutOfRange ==
  /\ pc = "fault" /\ page \notin Pages
  /\ Assertion
  /\ UNCHANGED <<pte, lists, home, frames, machine, access, loaded, page, host>>

\* The dirty bit never set (a mutation).
SoftFault_NoDirty ==
  /\ pc = "fault" /\ page \in Pages /\ pte[page] # Invalid
  /\ pte' = [pte EXCEPT ![page].a = TRUE]
  /\ flush_page(page)
  /\ pc' = "user"
  /\ UNCHANGED <<lists, home, frames, adue, access, loaded, page, say, host>>

\* A fault on a page that is there asks for its A bit, or for its D bit.
SoftFault ==
  /\ pc = "fault" /\ page \in Pages /\ pte[page] # Invalid
  /\ IF pte[page].a /\ (pte[page].d \/ access.op # "store")
     THEN Assertion /\ UNCHANGED <<pte, tlb>>
     ELSE /\ pte' = [pte EXCEPT ![page] = IF @.a THEN [@ EXCEPT !.d = TRUE]
                                                 ELSE [@ EXCEPT !.a = TRUE]]
          /\ flush_page(page)
          /\ pc' = "user"
          /\ UNCHANGED say
  /\ UNCHANGED <<lists, home, frames, adue, access, loaded, page, host>>

\* *freelist_head read after the head has moved on (a mutation).
GivenNode_Late == node[node[head].next]

\* The node a fault takes, copied with its link.
GivenNode == node[head]

\* The first node of the free list gives its frame, mapped with A and D set
\* for the copy that follows.
TakeFrame ==
  /\ pc = "fault" /\ page \in Pages /\ pte[page] = Invalid
  /\ IF head = Null \/ node[MapNode(page)].addr # 0
     THEN Assertion /\ UNCHANGED <<pte, tlb, lists>>
     ELSE /\ head' = node[head].next
          /\ tail' = IF head' = tail THEN Null ELSE tail
          /\ node' = [node EXCEPT ![MapNode(page)] = GivenNode]
          /\ pte' = [pte EXCEPT ![page] = [frame |-> node[head].addr, a |-> TRUE, d |-> TRUE]]
          /\ flush_page(page)
          /\ pc' = "copy"
          /\ UNCHANGED say
  /\ UNCHANGED <<home, frames, adue, access, loaded, page, host>>

\* The frame used as it is (a mutation).
CopyIn_Skipped ==
  /\ pc = "copy"
  /\ pc' = "protect"
  /\ UNCHANGED <<pte, lists, home, frames, machine, access, loaded, page, host, say>>

\* memcpy to the user's address.  A page fault of the handler itself would
\* overwrite the trap frame: it counts as lost.
CopyIn ==
  /\ pc = "copy"
  /\ IF Allows(Entry(page), "store")
     THEN frames' = [frames EXCEPT ![Entry(page).frame] = home[page]] /\ pc' = "protect"
     ELSE pc' = "lost" /\ UNCHANGED frames
  /\ UNCHANGED <<pte, lists, home, machine, access, loaded, page, host, say>>

\* The second flush_page left out (a mutation).
Protect_NoFlush ==
  /\ pc = "protect"
  /\ pte' = [pte EXCEPT ![page].a = FALSE, ![page].d = FALSE]
  /\ pc' = "user"
  /\ UNCHANGED <<lists, home, frames, machine, access, loaded, page, host, say>>

\* user_llpt[..] = new_pte, without A and D; pop_tf.
Protect ==
  /\ pc = "protect"
  /\ pte' = [pte EXCEPT ![page].a = FALSE, ![page].d = FALSE]
  /\ flush_page(page)
  /\ pc' = "user"
  /\ UNCHANGED <<lists, home, frames, adue, access, loaded, page, host, say>>

handle_fault == OutOfRange \/ SoftFault \/ TakeFrame \/ CopyIn \/ Protect

---------------------------------------------------------------------------
(* The exit call: evict() for every page, then terminate(n) *)

\* The page goes back to its image and its node to the end of the free list.
Evict ==
  /\ pc = "evict" /\ page \in Pages
  /\ LET n == MapNode(page)
         e == Entry(page)
         differs == frames[e.frame] # home[page]
     IN  IF node[n].addr = 0
         THEN page' = page + 1 /\ UNCHANGED <<lists, frames, pc, say>>
         ELSE IF ~pte[page].a
         THEN Assertion /\ UNCHANGED <<lists, frames, page>>
         ELSE IF ~Allows(e, "load")
         THEN pc' = "lost" /\ UNCHANGED <<lists, frames, page, say>>
         ELSE IF differs /\ ~pte[page].d
         THEN Assertion /\ UNCHANGED <<lists, frames, page>>
         ELSE IF differs /\ ~Allows(e, "store")
         THEN pc' = "lost" /\ UNCHANGED <<lists, frames, page, say>>
         ELSE /\ frames' = [frames EXCEPT ![e.frame] = home[page]]
              /\ node' = [m \in Nodes |-> [addr |-> IF m = n THEN 0 ELSE node[m].addr,
                                           next |-> IF m = tail THEN n ELSE node[m].next]]
              /\ head' = IF tail = Null THEN n ELSE head
              /\ tail' = n
              /\ page' = page + 1
              /\ UNCHANGED <<pc, say>>
  /\ UNCHANGED <<pte, home, machine, access, loaded, host>>

EvictedAll ==
  /\ pc = "evict" /\ page \notin Pages
  /\ pc' = "say" /\ say' = <<1>>
  /\ UNCHANGED <<pte, lists, home, frames, machine, access, loaded, page, host>>

\* The word written over the one before (a mutation).
do_tohost_NoWait ==
  /\ pc = "say"
  /\ tohost' = Head(say)
  /\ say' = Tail(say)
  /\ pc' = IF Len(say) = 1 THEN "done" ELSE "say"
  /\ UNCHANGED <<pte, lists, home, frames, machine, access, loaded, page, heard>>

\* do_tohost: spin while the host has not taken the last word.
do_tohost ==
  /\ pc = "say" /\ tohost = 0
  /\ tohost' = Head(say)
  /\ say' = Tail(say)
  /\ pc' = IF Len(say) = 1 THEN "done" ELSE "say"
  /\ UNCHANGED <<pte, lists, home, frames, machine, access, loaded, page, heard>>

\* The host takes a word and clears it.
Host ==
  /\ tohost # 0
  /\ heard' = Append(heard, tohost)
  /\ tohost' = 0
  /\ UNCHANGED <<pte, lists, home, frames, machine, access, loaded, pc, page, say>>

Stopped ==
  /\ pc = "done" /\ tohost = 0
  /\ UNCHANGED vars

Hart == Retire \/ SetBits \/ Trap \/ handle_fault \/ Evict \/ EvictedAll \/ do_tohost

Next == Issue \/ Hart \/ (\E p \in Pages : Fill(p)) \/ Host \/ Stopped

Spec == Init /\ [][Next]_vars
FairSpec == Spec /\ WF_vars(Hart) /\ WF_vars(Host)

---------------------------------------------------------------------------
(* Properties *)

TypeOK ==
  /\ pte \in [Pages -> Entries]
  /\ node \in [Nodes -> [addr : {0} \cup Frames, next : Nodes \cup {Null}]]
  /\ head \in Nodes \cup {Null} /\ tail \in Nodes \cup {Null}
  /\ home \in [Pages -> Values] /\ frames \in [Frames -> Values]
  /\ tlb \in [Pages -> Entries \cup {Uncached}]
  /\ pc \in {"user", "fault", "copy", "protect", "evict", "say", "lost", "done"}
  /\ page \in 0 .. MAX_TEST_PAGES

Running == pc \in {"user", "fault", "copy", "protect"}

\* The free list, from its head on.
FreeList ==
  LET after[k \in 0 .. MAX_TEST_PAGES] ==
        IF k = 0 THEN head
        ELSE IF after[k - 1] = Null THEN Null ELSE node[after[k - 1]].next
  IN  {after[k] : k \in 0 .. MAX_TEST_PAGES} \ {Null}

\* While the program runs every frame is in one place: at one page, or once on
\* the free list, though user_mapping[] copies a node's link with its frame and
\* the tail is cleared one node early.
OneOwner ==
  Running =>
    LET mapped == {p \in Pages : pte[p].frame # 0}
    IN  /\ \A p \in Pages : pte[p].frame = node[MapNode(p)].addr
        /\ \A p, q \in mapped : p # q => pte[p].frame # pte[q].frame
        /\ {pte[p].frame : p \in mapped} \cap {node[n].addr : n \in FreeList} = {}
        /\ Cardinality({node[n].addr : n \in FreeList} \ {0}) + Cardinality(mapped)
             = MAX_TEST_PAGES

\* The assertions of vm.c fail for no access inside the test pages, and the
\* handler itself never faults, on machines of either kind and whatever the
\* TLB keeps between the two sfence.vma of a fault.
AssertionsHold ==
  /\ pc # "lost"
  /\ pc = "say" /\ 3 \in {say[i] : i \in 1 .. Len(say)} =>
       access.op \in {"load", "store"} /\ access.page \notin Pages

\* do_tohost loses nothing: once the hart has ended the host has heard the exit
\* code, behind the text when an assertion failed.
HostHears == pc = "done" /\ tohost = 0 => heard \in {<<1>>, <<841>>, <<Text, 3>>}

\* The program's view of its pages.
Seen == [p \in Pages |-> IF node[MapNode(p)].addr = 0 \/ (pc = "copy" /\ page = p)
                         THEN home[p] ELSE frames[node[MapNode(p)].addr]]

Flat == INSTANCE FlatMemory WITH
  Outside <- {0, MAX_TEST_PAGES}, mem <- Seen, exited <- ~Running

\* Demand paging is transparent: a load returns what the program last stored in
\* the page, or its image; copying, remapping and the junk of a fresh frame are
\* never seen.
ImplementsFlatMemory == Flat!Spec

\* No access faults for ever: a frame, the A bit and the D bit are at most
\* three faults, and an access outside ends the test.
AccessEnds == access.op # "none" ~> (access.op = "none" \/ (pc = "done" /\ tohost = 0))
=============================================================================
