------------------------------- MODULE MCMt -------------------------------
EXTENDS Mt

MCCoreCounts == {1, 2, 4}

\* The kernels that go by the lda and the number of elements they are given.
\* Left out are those for 32 by 32 only, which is not the size of dataset.h:
\* constants of 32, 31 or 16 in their loops, blocks of 32 (br, dr), a
\* transposition of 32 (at).
SizedKernels ==
  {"ae", "ag", "ai", "ak", "an", "ap", "aq", "ar", "bb", "bc", "bh", "bj", "bm", "bs", "cg",
   "ci", "ck", "cs", "dc", "dm", "ds", "matmul",
   "vvadd0", "vvadd1", "vvadd2", "vvadd3", "vvadd4", "vvadd"}

\* Of these, the kernels that are wrong on n cores: vvadd1 stores past the end on
\* more than one; dm has all cores but the last copy the same part of B.
Unfit(n) ==
  (IF n > 1 THEN {"vvadd1"} ELSE {}) \cup (IF n > 2 THEN {"dm"} ELSE {})

MCInit == Init /\ kernel \notin Unfit(ncores)
MCSpec == MCInit /\ [][Next]_vars /\ Fairness
===========================================================================
