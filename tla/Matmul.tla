------------------------------ MODULE Matmul ------------------------------
(***************************************************************************)
(* The kernels of riscv-tests/mt: 44 versions of                           *)
(* matmul(coreid, ncores, lda, A, B, C), each the body one core runs.      *)
(* A kernel is modelled by its plan: the sequence of segments a core       *)
(* executes, two neighbours separated by one call of barrier(ncores).      *)
(* What the arithmetic works on is kept as blocks of matrix indices: which *)
(* elements C[col + row*stride] a segment stores, which of the products    *)
(* A[row,t]*B[t,col] each store contributes, whether the stores overwrite  *)
(* ("set") or accumulate ("add"), and which elements of a shared static    *)
(* scratch array it fills and reads.  The order of the stores within a     *)
(* segment and the register temporaries are left out.                      *)
(***************************************************************************)
EXTENDS Naturals, Sequences, Loops

CONSTANT Lda          \* lda: DIM_SIZE of the dataset.h built with the kernel

ASSUME LdaAssumption == Lda \in Nat \ {0}

All == 0 .. (Lda - 1)
Blk(n) == Lda \div n
\* "j <= max" in the loop over the core's rows (a mutation)
Own_OneMore(c, n) == (c * Blk(n)) .. ((c + 1) * Blk(n))

Own(c, n) == (c * Blk(n)) .. ((c + 1) * Blk(n) - 1)

Block(op, stride, rows, cols, terms) ==
  [op |-> op, stride |-> stride, rows |-> rows, cols |-> cols, terms |-> terms]
Add(rows, cols, terms)   == Block("add", Lda, rows, cols, terms)
Set(rows, cols, terms)   == Block("set", Lda, rows, cols, terms)
Add32(rows, cols, terms) == Block("add", 32, rows, cols, terms)
Set32(rows, cols, terms) == Block("set", 32, rows, cols, terms)

Segment(stores, fills, reads) ==
  [stores |-> stores, fills |-> fills, reads |-> reads]
Seg(stores) == Segment(stores, {}, {})
Idle == Seg({})

Area(rows, cols) == [rows |-> rows, cols |-> cols]

\* "if (coreid == 0) first;  if (coreid == 1 || ncores == 1) second".
Split(c, n, first, second) ==
  (IF c = 0 THEN first ELSE {}) \cup (IF c = 1 \/ n = 1 THEN second ELSE {})

---------------------------------------------------------------------------
(* Mutations *)

\* the last column of B left out
TransposeB_OneLess(c, n) ==
  [k \in 1 .. (Lda - 1) |-> Segment({}, {Area(Own(c, n), {k - 1})}, {})]

\* a product counted in both halves
LdaHalf_OneMore(m) == ((m * Lda) \div 2) .. (((m + 1) * Lda) \div 2)

---------------------------------------------------------------------------
(* Kernels with barriers inside *)

ad_matmul(c, n) ==
  [s \in 1 .. (Blk(n) * 16) |->
     LET k == 2 * ((s - 1) % 16)
     IN  Seg({Add32({c * Blk(n) + ((s - 1) \div 16)}, 0 .. 31, {k, k + 1})})]
  \o <<Idle>>

\* B is transposed into the static BB, one of its columns per barrier.
TransposeB(c, n) ==
  [k \in 1 .. Lda |-> Segment({}, {Area(Own(c, n), {k - 1})}, {})]

ae_matmul(c, n) ==
  TransposeB(c, n)
  \o [s \in 1 .. ((Lda \div 4) * Blk(n)) |->
        LET i == 4 * ((s - 1) \div Blk(n))
        IN  Segment({Set({c * Blk(n) + ((s - 1) % Blk(n))}, i .. (i + 3),
                         Unrolled(0, Lda, 8))},
                    {}, {Area(i .. (i + 3), Unrolled(0, Lda, 8))})]
  \o <<Idle>>

ag_matmul(c, n) ==
  [s \in 1 .. ((Lda \div 2) * (Lda \div 4)) |->
     LET i == 2 * ((s - 1) \div (Lda \div 4))
         k == 4 * ((s - 1) % (Lda \div 4))
     IN  Seg({Add(Unrolled(c * Blk(n), (c + 1) * Blk(n), 4), {i, i + 1},
                  k .. (k + 3))})]
  \o <<Idle>>

cg_matmul(c, n) == ag_matmul(c, n)

ai_matmul(c, n) ==
  LET lo == (c * Lda) \div n
  IN  <<Idle, Seg({Set(lo .. (lo + Blk(n) - 1), Unrolled(0, Lda, 4), All)})>>

\* The same blocks; a core other than 0 adds the products from the last down.
ci_matmul(c, n) == ai_matmul(c, n)

an_matmul(c, n) ==
  [s \in 1 .. (Blk(n) * Lda) |->
     Seg({Add({c * Blk(n) + ((s - 1) \div Lda)}, All, {(s - 1) % Lda})})]
  \o <<Idle>>

\* A private transposition of the core's columns of B (one barrier per two
\* rows of B), then two rows by "width" columns per barrier.
TransposedBlocks(c, n, width) ==
  LET perRow == (16 * ((Blk(n) + 15) \div 16)) \div width
  IN  [s \in 1 .. ((Lda + 1) \div 2) |-> Idle]
      \o [s \in 1 .. (((Lda + 31) \div 32) * 16 * perRow) |->
            LET j2 == 32 * ((s - 1) \div (16 * perRow))
                \* i2 runs over 16-column blocks, j over pairs of rows, i
                \* over the columns of a block
                inJ2 == (s - 1) % (16 * perRow)
                perI2 == 16 * (16 \div width)
                i2 == c * Blk(n) + 16 * (inJ2 \div perI2)
                j  == j2 + 2 * ((inJ2 % perI2) \div (16 \div width))
                i  == i2 + width * (inJ2 % (16 \div width))
            IN  Seg({Add({j, j + 1}, i .. (i + width - 1), Unrolled(0, Lda, 32))})]
      \o <<Idle>>

br_matmul(c, n) == TransposedBlocks(c, n, 4)
dr_matmul(c, n) == TransposedBlocks(c, n, 8)

ce_matmul(c, n) ==
  TransposeB(c, n)
  \o <<Segment({Add(Own(c, n), Unrolled(x * (32 \div n), (x + 1) * (32 \div n), 8),
                    Unrolled(0, Lda, 8)) : x \in 0 .. (n - 1)},
               {}, {Area(0 .. 31, Unrolled(0, Lda, 8))})>>

cs_matmul(c, n) ==
  [s \in 1 .. (((Lda - c + 2 * n - 1) \div (2 * n)) * Lda) |->
     LET j == c + 2 * n * ((s - 1) \div Lda)
     IN  Seg({Set({j, j + n}, {(s - 1) % Lda}, All)})]
  \o <<Idle>>

\* The shared copy B1 of B: the last core copies the first lda*lda/ncores
\* elements, the others the rest; only the last core reads it.
dm_matmul(c, n) ==
  LET last == c = n - 1
  IN  <<Segment({}, {Area(IF last THEN 0 .. (Blk(n) - 1) ELSE Blk(n) .. (Lda - 1),
                          All)}, {}),
        Segment({Add(Unrolled(Blk(n) * c,
                              4 * ((IF last THEN Lda ELSE Blk(n) * (c + 1)) \div 4), 4),
                     Unrolled(0, 4 * (Lda \div 4), 4), All)},
                {}, IF last THEN {Area(All, All)} ELSE {})>>

---------------------------------------------------------------------------
(* Kernels without a barrier: the core's blocks of rows or columns *)

af_matmul(c, n) ==
  <<Seg({Set32(Unrolled((c * Lda) \div n, (Lda * (1 + c)) \div n, 2), All,
               Unrolled(0, Lda, 4))})>>

am_matmul(c, n) ==
  <<Seg({Set32(Unrolled((c * 32) \div n, (32 * (1 + c)) \div n, 2), 0 .. 31,
               Unrolled(0, Lda, 4))})>>
du_matmul(c, n) == am_matmul(c, n)

ak_matmul(c, n) ==
  <<Seg({Add((UNION {jj .. (jj + 15) : jj \in Strided(16 * c, Lda, 16 * n)}) \cap All,
             Unrolled(0, Lda, 8), Unrolled(0, Lda, 4))})>>

\* The columns start at 16*coreid and wrap around.
ck_matmul(c, n) ==
  LET jjs == Strided(16 * c, Lda, 16 * n)
  IN  <<Seg({Add(UNION {Unrolled(jj, IF jj + 16 < Lda THEN jj + 16 ELSE Lda, 4) : jj \in jjs},
                 UNION {Unrolled(ii, IF ii + 16 < Lda THEN ii + 16 ELSE Lda, 2) :
                          ii \in Strided(0, Lda, 16)},
                 Unrolled(0, Lda, 8))})>>

ap_matmul(c, n) == <<Seg({Add(Own(c, n), All, All)})>>
ar_matmul(c, n) == <<Seg({Add(Own(c, n) \cap All, All, All)})>>
matmul(c, n)    == <<Seg({Set(Own(c, n), All, All)})>>

aq_matmul(c, n) ==
  <<Seg({Add(All, UNION {{i, i + n} : i \in Strided(c, Lda, 2 * n)}, All)})>>

\* The private transposition of B has loops to 32 and rows of lda: unless these
\* agree most of it is not B's, and the terms leave out the few products that are.
at_matmul(c, n) ==
  <<Seg({Add(All, Unrolled((c * Lda) \div n, ((c + 1) * Lda) \div n, 8),
             IF Lda = 32 THEN Unrolled(0, Lda, 16) ELSE {})})>>

bb_matmul(c, n) ==
  <<Seg({Set(Unrolled(c * Blk(n), (c + 1) * Blk(n), 4), Unrolled(0, Lda, 2), All)})>>

bm_matmul(c, n) ==
  <<Seg({Add(Unrolled(Blk(n) * c,
                      4 * ((IF c = n - 1 THEN Lda ELSE Blk(n) * (c + 1)) \div 4), 4),
             Unrolled(0, Lda, 4), All)})>>

bs_matmul(c, n) ==
  <<Seg({Add(UNION {{j, j + n, j + 2 * n, j + 3 * n} : j \in Strided(c, Lda, 4 * n)},
             All, All)})>>
ds_matmul(c, n) ==
  <<Seg({Add(UNION {j .. (j + 3) : j \in Strided(4 * c, Lda, 4 * n)}, All,
             Unrolled(0, Lda, 2))})>>

do_matmul(c, n) ==
  <<Seg({Set32((c * (32 \div n)) .. ((c + 1) * (32 \div n) - 1), 0 .. 31, 0 .. 31)})>>

---------------------------------------------------------------------------
(* Kernels split between core 0 and core 1, which returns or idles in any  *)
(* other core                                                              *)

al_matmul(c, n) ==
  <<Seg(Split(c, n, {Add(0 .. 31, 0 .. 15, 0 .. 31)}, {Add(0 .. 31, 16 .. 31, 0 .. 31)}))>>

cl_matmul(c, n) ==
  <<Seg(Split(c, n, {Add(0 .. 31, 0 .. 15, 0 .. 31)},
              {Add(rows, 16 .. 31, 0 .. 31) : rows \in {16 .. 31, 0 .. 15}}))>>

\* Core 0 goes through the rows from the first, core 1 from the last half.
FirstColumns == {Add(rows, 0 .. 15, 0 .. 31) : rows \in {0 .. 15, 16 .. 31}}
LastColumns  == {Add(rows, 16 .. 31, 0 .. 31) : rows \in {16 .. 31, 0 .. 15}}

df_matmul(c, n) == <<Seg(Split(c, n, FirstColumns, LastColumns))>>

bf_matmul(c, n) ==
  <<Seg(Split(c, n, {Set(0 .. 31, 0 .. 15, 0 .. 31)}, {Set(0 .. 31, 16 .. 31, 0 .. 31)}))>>

\* Four blocks of eight products for every element.
EightTerms == {(8 * m) .. (8 * m + 7) : m \in 0 .. 3}

FirstRows == {Add(0 .. 15, 0 .. 31, terms) : terms \in EightTerms}
LastRows  == {Add(16 .. 31, 0 .. 31, terms) : terms \in EightTerms}

av_matmul(c, n) == <<Seg(Split(c, n, FirstRows, LastRows))>>
cv_matmul(c, n) == av_matmul(c, n)

bo_matmul(c, n) ==
  <<Seg(Split(c, n, {Set(Unrolled(0, 16, 2), 0 .. 31, 0 .. 31)},
              {Set(Unrolled(16, 32, 2), 0 .. 31, 0 .. 31)}))>>

\* m selects a half of the products.
LdaHalf(m) == ((m * Lda) \div 2) .. (((m + 1) * Lda) \div 2 - 1)

bh_matmul(c, n) ==
  <<Seg(Split(c, n, {Add(0 .. (Lda \div 2 - 1), Unrolled(0, Lda, 8), LdaHalf(m)) : m \in {0, 1}},
              {Add((Lda \div 2) .. (Lda - 1), All, LdaHalf(m)) : m \in {0, 1}}))>>
bj_matmul(c, n) == bh_matmul(c, n)

KkHalf(kk) == kk .. (kk + 15)

bk_matmul(c, n) ==
  <<Seg(Split(c, n, {Add32(0 .. 15, 0 .. 31, KkHalf(kk)) : kk \in {0, 16}},
              {Add32(16 .. 31, 0 .. 31, KkHalf(kk)) : kk \in {0, 16}}))>>

\* The roles swapped: "if (coreid || ncores == 1)" does the first rows.
dv_matmul(c, n) ==
  <<Seg(Split(c, n, {Add32(16 .. 31, 0 .. 31, KkHalf(kk)) : kk \in {0, 16}},
              {Add32(0 .. 15, 0 .. 31, KkHalf(kk)) : kk \in {0, 16}}))>>

\* C as one array of 2*512 elements, 16 rows of 32 per core.
SixteenRows(c, n) ==
  Set32((16 * c) .. (16 * (IF n = 1 THEN 2 ELSE c + 1) - 1), 0 .. 31, Unrolled(0, Lda, 2))

ay_matmul(c, n) == IF c > 1 THEN <<Idle>> ELSE <<Seg({SixteenRows(c, n)})>>
az_matmul(c, n) == ay_matmul(c, n)

\* Core 1 first copies A and B into the static A1 and B1.
cy_matmul(c, n) ==
  CASE c = 0 -> <<Seg({SixteenRows(c, n)})>>
    [] c = 1 -> <<Segment({SixteenRows(c, n)}, {Area(0 .. 31, 0 .. 31)},
                          {Area(0 .. 31, 0 .. 31)})>>
    [] c > 1 -> <<Idle>>

\* The blocked versions are for 32x32 on two cores; any other call is left to
\* core 0.
Naive(c) == IF c > 0 THEN <<Idle>> ELSE <<Seg({Add(All, All, All)})>>
TwoCoreRows(c) == (16 * c) .. ((IF c = 1 THEN 32 ELSE 16 * (c + 1)) - 1)

bc_matmul(c, n) ==
  IF n = 2 /\ Lda = 32
  THEN <<Seg({Add(TwoCoreRows(c), 0 .. 31, KkHalf(kk)) : kk \in {0, 16}})>>
  ELSE Naive(c)

\* Each core starts with its own half of the products, then takes the other.
dc_matmul(c, n) == bc_matmul(c, n)

---------------------------------------------------------------------------
(* Kernels that add into the same elements from both cores: core 0 the     *)
(* products 0 to 15 of every row from the first down, core 1 the products  *)
(* 16 to 31 from the last row up, with nothing that keeps them apart.      *)

cf_matmul(c, n) ==
  IF c > 1 THEN <<Idle>>
  ELSE <<Seg(Split(c, n, {Add32(0 .. 31, 0 .. 31, 0 .. 15)},
                   {Add32(0 .. 31, 0 .. 31, 16 .. 31)}))>>

cm_matmul(c, n) ==
  <<Seg(Split(c, n, {Add(Unrolled(0, Lda, 2), 0 .. 31, 0 .. 15)},
              {Add(0 .. 31, 0 .. 31, 16 .. 31)}))>>
===========================================================================
