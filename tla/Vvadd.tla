------------------------------- MODULE Vvadd -------------------------------
(***************************************************************************)
(* The vector additions z[i] = x[i] + y[i] of riscv-tests/mt and           *)
(* benchmarks/mt-vvadd: which elements of z core "coreid" of "ncores"      *)
(* stores when the vectors have DataSize elements.                         *)
(***************************************************************************)
EXTENDS Naturals, Loops

CONSTANT DataSize     \* DATA_SIZE of mt-vvadd's dataset.h

ASSUME DataSizeAssumption == DataSize \in Nat \ {0}

Chunk(n) == DataSize \div n

\* A chunk per core, then what is left over, interleaved.
vvadd0(c, n) ==
  LET leftover == DataSize % Chunk(n)
  IN  ((c * Chunk(n)) .. ((c + 1) * Chunk(n) - 1))
      \cup Strided(DataSize - leftover + c, DataSize, n)

\* Two groups of four elements per turn of the loop.
vvadd1(c, n) ==
  UNION {(i .. (i + 3)) \cup ((i + n * 4) .. (i + n * 4 + 3)) :
           i \in Strided(c * 4, DataSize, 8 * n)}

\* The step left at ncores for a loop that does two (a mutation).
vvadd2_SingleStep(c, n) == UNION {{i, i + n} : i \in Strided(c, DataSize, n)}

vvadd2(c, n) == UNION {{i, i + n} : i \in Strided(c, DataSize, 2 * n)}

\* Duff's device over count = n / ncores elements: the first pass does
\* count % 8 of them (8 when that is 0), each of the other passes 8.
vvadd3(c, n) ==
  LET passes == (Chunk(n) + 7) \div 8
      first  == IF Chunk(n) % 8 = 0 THEN 8 ELSE Chunk(n) % 8
  IN  (c * Chunk(n)) .. (c * Chunk(n) + first + 8 * (passes - 1) - 1)

vvadd4(c, n) == Strided(c, DataSize, n)
vvadd(c, n)  == Strided(c, DataSize, n)
============================================================================
