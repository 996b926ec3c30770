-------------------------------- MODULE Mt --------------------------------
(***************************************************************************)
(* The multi-threaded tests of riscv-tests: thread_entry() of              *)
(* benchmarks/mt-matmul and mt-vvadd running one kernel of riscv-tests/mt  *)
(* on ncores cores, with the barrier of util.h between the pieces of work. *)
(*                                                                         *)
(* A core's program is a sequence of items with a barrier after each but   *)
(* the last.  An item is a segment of a kernel plan, possibly preceded by  *)
(* a check of the results.  A core is in its item while pc is "work"; the  *)
(* stores of an item count as done when the core enters the barrier, which *)
(* is sound as long as items in progress at the same time do not conflict  *)
(* (NoRace).                                                               *)
(***************************************************************************)
EXTENDS Integers, FiniteSets, FiniteSetsExt, SenseBarrier, Matmul, Vvadd

CONSTANTS Kernels,    \* the kernels to run, by file name
          CoreCounts  \* the values of ncores

VARIABLES kernel,     \* the kernel linked with thread_entry
          exited      \* "no", or what the first exit() reports

vars == <<barrierVars, kernel, exited>>

---------------------------------------------------------------------------
(* Programs *)

VectorKernels == Kernels \cap {"vvadd0", "vvadd1", "vvadd2", "vvadd3", "vvadd4", "vvadd"}

Item(check, segment) == [check |-> check, segment |-> segment]

\* thread_entry of mt-matmul.c: every core verifies the results and exits.
MatmulProgram(plan) ==
  [i \in 1 .. Len(plan) |-> Item(FALSE, plan[i])] \o <<Item(TRUE, Idle)>>

\* thread_entry of mt-vvadd.c.  Element i of the results is z[0, i], the terms
\* of its sum are 0 (x[i]) and 1 (y[i]).  After the first addition core 0
\* verifies the results and copies x over them; the second adds in place.
VvaddProgram(c, z) ==
  LET Elements(op, is, terms) == Block(op, DataSize, {0}, is, terms)
  IN  <<Item(FALSE, Idle),
        Item(FALSE, Seg({Elements("set", z, {0, 1})})),
        IF c = 0
        THEN Item(TRUE, Seg({Elements("set", 0 .. (DataSize - 1), {0})}))
        ELSE Item(FALSE, Idle),
        Item(FALSE, Seg({Elements("add", z, {1})})),
        Item(c = 0, Idle),
        Item(FALSE, Idle)>>

\* thread_entry linked with each of the kernels.
Linked(c, n) ==
  [ad |-> MatmulProgram(ad_matmul(c, n)), ae |-> MatmulProgram(ae_matmul(c, n)),
   af |-> MatmulProgram(af_matmul(c, n)), ag |-> MatmulProgram(ag_matmul(c, n)),
   ai |-> MatmulProgram(ai_matmul(c, n)), ak |-> MatmulProgram(ak_matmul(c, n)),
   al |-> MatmulProgram(al_matmul(c, n)), am |-> MatmulProgram(am_matmul(c, n)),
   an |-> MatmulProgram(an_matmul(c, n)), ap |-> MatmulProgram(ap_matmul(c, n)),
   aq |-> MatmulProgram(aq_matmul(c, n)), ar |-> MatmulProgram(ar_matmul(c, n)),
   at |-> MatmulProgram(at_matmul(c, n)), av |-> MatmulProgram(av_matmul(c, n)),
   ay |-> MatmulProgram(ay_matmul(c, n)), az |-> MatmulProgram(az_matmul(c, n)),
   bb |-> MatmulProgram(bb_matmul(c, n)), bc |-> MatmulProgram(bc_matmul(c, n)),
   bf |-> MatmulProgram(bf_matmul(c, n)), bh |-> MatmulProgram(bh_matmul(c, n)),
   bj |-> MatmulProgram(bj_matmul(c, n)), bk |-> MatmulProgram(bk_matmul(c, n)),
   bm |-> MatmulProgram(bm_matmul(c, n)), bo |-> MatmulProgram(bo_matmul(c, n)),
   br |-> MatmulProgram(br_matmul(c, n)), bs |-> MatmulProgram(bs_matmul(c, n)),
   ce |-> MatmulProgram(ce_matmul(c, n)), cf |-> MatmulProgram(cf_matmul(c, n)),
   cg |-> MatmulProgram(cg_matmul(c, n)), ci |-> MatmulProgram(ci_matmul(c, n)),
   ck |-> MatmulProgram(ck_matmul(c, n)), cl |-> MatmulProgram(cl_matmul(c, n)),
   cm |-> MatmulProgram(cm_matmul(c, n)), cs |-> MatmulProgram(cs_matmul(c, n)),
   cv |-> MatmulProgram(cv_matmul(c, n)), cy |-> MatmulProgram(cy_matmul(c, n)),
   dc |-> MatmulProgram(dc_matmul(c, n)), df |-> MatmulProgram(df_matmul(c, n)),
   dm |-> MatmulProgram(dm_matmul(c, n)), do |-> MatmulProgram(do_matmul(c, n)),
   dr |-> MatmulProgram(dr_matmul(c, n)), ds |-> MatmulProgram(ds_matmul(c, n)),
   du |-> MatmulProgram(du_matmul(c, n)), dv |-> MatmulProgram(dv_matmul(c, n)),
   matmul |-> MatmulProgram(matmul(c, n)), vvadd0 |-> VvaddProgram(c, vvadd0(c, n)),
   vvadd1 |-> VvaddProgram(c, vvadd1(c, n)), vvadd2 |-> VvaddProgram(c, vvadd2(c, n)),
   vvadd3 |-> VvaddProgram(c, vvadd3(c, n)), vvadd4 |-> VvaddProgram(c, vvadd4(c, n)),
   vvadd |-> VvaddProgram(c, vvadd(c, n))]

\* Programs[n][c + 1]: what core c of n runs.  Concatenation makes tuples of
\* the functions, which TLC evaluates once.
Programs ==
  <<>> \o [n \in 1 .. Max(CoreCounts) |->
             IF n \in CoreCounts THEN <<>> \o [i \in 1 .. n |-> Linked(i - 1, n)] ELSE <<>>]

Program(c) == Programs[ncores][c + 1][kernel]
Here(c)    == Program(c)[item[c]]

\* The items a core has been through.
Finished(c) == IF pc[c] = "work" THEN item[c] - 1 ELSE item[c]

ASSUME MtAssumption ==
  /\ Max(CoreCounts) \in Nat /\ CoreCounts \subseteq 1 .. Max(CoreCounts)
  /\ Kernels \subseteq DOMAIN Linked(0, 1)

---------------------------------------------------------------------------
(* verify(ARRAY_SIZE, results_data, verify_data) *)

Results(k) == IF k \in VectorKernels
              THEN [rows |-> {0}, cols |-> 0 .. (DataSize - 1), terms |-> {0, 1}]
              ELSE [rows |-> All, cols |-> All, terms |-> All]

\* What the stores <<item, core, block>> leave in an element: since the last
\* one that overwrote it, every term of its sum was added exactly once.
Holds(stores, terms) ==
  LET last == Max({0} \cup {s[1] : s \in {t \in stores : t[3].op = "set"}})
      live == {s \in stores : s[1] >= last}
  IN  /\ UNION {s[3].terms : s \in live} = terms
      /\ MapThenSumSet(LAMBDA s : Cardinality(s[3].terms), live) = Cardinality(terms)

\* The results after all n cores have been through their items before item i.
\* Elements are told apart by row and column, which are those of the array as
\* long as the stores keep to it (InBounds).
RightAt(n, k, i) ==
  LET Stores(x) == Programs[n][x[2] + 1][k][x[1]].segment.stores
      result == Results(k)
  IN  \A r \in result.rows :
        LET onRow == {x \in (1 .. (i - 1)) \X (0 .. (n - 1)) : \E b \in Stores(x) : r \in b.rows}
        IN  \A col \in result.cols :
              Holds(UNION {{<<x[1], x[2], b>> : b \in {b \in Stores(x) : r \in b.rows /\ col \in b.cols}} :
                             x \in onRow}, result.terms)

\* A constant, which TLC computes once: the places where a check passes.
RightChecks ==
  {x \in UNION {{<<n, k, i>> : i \in 1 .. Len(Programs[n][1][k])} :
                   n \in CoreCounts, k \in Kernels} :
     Programs[x[1]][1][x[2]][x[3]].check /\ RightAt(x[1], x[2], x[3])}

\* The check a core makes: all stores it depends on have been made, and they
\* leave the right sums.
verify(c) ==
  /\ \A d \in Cores : Finished(d) >= item[c] - 1
  /\ <<ncores, kernel, item[c]>> \in RightChecks

---------------------------------------------------------------------------
Init ==
  /\ ncores \in CoreCounts
  /\ BarrierInit
  /\ kernel \in Kernels
  /\ exited = "no"

\* if (res) exit(res);
Rejected(c) == Here(c).check /\ ~verify(c)

Fail(c) ==
  /\ pc[c] = "work"
  /\ Rejected(c)
  /\ exited' = "fail"
  /\ UNCHANGED <<barrierVars, kernel>>

\* The core finishes its item and enters the barrier behind it.
Work(c) ==
  /\ item[c] < Len(Program(c))
  /\ ~Rejected(c)
  /\ Arrive(c)
  /\ UNCHANGED <<kernel, exited>>

Synchronize(c) == InBarrier(c) /\ UNCHANGED <<kernel, exited>>

\* exit(0) at the end of thread_entry; the host stops all cores.
Exit(c) ==
  /\ pc[c] = "work"
  /\ item[c] = Len(Program(c))
  /\ ~Rejected(c)
  /\ exited' = "pass"
  /\ UNCHANGED <<barrierVars, kernel>>

Step(c) == exited = "no" /\ (Work(c) \/ Synchronize(c) \/ Fail(c) \/ Exit(c))

Halted == exited # "no" /\ UNCHANGED vars

Next == (\E c \in Cores : Step(c)) \/ Halted

Spec == Init /\ [][Next]_vars

\* Every core keeps executing.
Fairness == \A c \in 0 .. (Max(CoreCounts) - 1) : WF_vars(c \in Cores /\ Step(c))

---------------------------------------------------------------------------
(* Properties *)

TypeOK ==
  /\ BarrierTypeOK
  /\ \A c \in Cores : item[c] \in 1 .. Len(Program(c))
  /\ kernel \in Kernels
  /\ exited \in {"no", "pass", "fail"}

Overlap(a, b) == a.rows \cap b.rows # {} /\ a.cols \cap b.cols # {}
SomeOverlap(as, bs) == \E a \in as, b \in bs : Overlap(a, b)

Conflict(x, y) ==
  \/ SomeOverlap(x.segment.stores, y.segment.stores)
  \/ x.check /\ y.segment.stores # {}
  \/ SomeOverlap(x.segment.fills, y.segment.fills \cup y.segment.reads)

\* No data race: while two cores are in their items, neither stores an element
\* of the results or of a shared scratch array that the other one stores,
\* accumulates into, reads or verifies.
NoRace ==
  exited = "no" =>
    \A c, d \in Cores :
      c # d /\ pc[c] = "work" /\ pc[d] = "work" => ~Conflict(Here(c), Here(d))

\* A block inside an array of "height" rows of "width" elements.
Fits(b, height, width) ==
  b.stride = width /\ b.rows \subseteq 0 .. (height - 1) /\ b.cols \subseteq 0 .. (width - 1)

\* The unrolled loops stay inside results_data as the dataset.h of the build
\* declares it, Lda rows of Lda elements or DataSize elements, and inside their
\* row of it: two elements of blocks are the same element of the array only if
\* they agree in row and column, which is what NoRace and verify compare.
InBounds ==
  \A c \in Cores : \A b \in Here(c).segment.stores :
    IF kernel \in VectorKernels THEN Fits(b, 1, DataSize) ELSE Fits(b, Lda, Lda)

\* A core reads only elements of the shared scratch arrays (the transposed or
\* copied B) that have been filled, by itself or before a barrier it passed.
ScratchFilled ==
  \A c \in Cores : pc[c] = "work" =>
    \A a \in Here(c).segment.reads :
      LET filled == UNION {UNION {Program(d)[i].segment.fills :
                                    i \in 1 .. IF d = c THEN item[c] ELSE Finished(d)} :
                             d \in Cores}
      IN  \A r \in a.rows : a.cols \subseteq UNION {f.cols : f \in {g \in filled : r \in g.rows}}

\* The test never reports a wrong result: whenever a core verifies, all stores have
\* been made and each element is the sum of its products, each taken once.  It
\* is claimed of the kernels at the sizes they are written for, where the number of
\* cores divides them; those for 32 by 32 only fail it at the size of dataset.h.
VerifyPasses == exited # "fail"

\* The test ends: all cores make the same number of barrier calls, and none is
\* left behind spinning.
Terminates == <>(exited # "no")
===========================================================================
