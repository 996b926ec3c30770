----------------------------- MODULE BiosProofs -----------------------------
(***************************************************************************)
(* For words and bytes of any number of digits, a buffer of any length     *)
(* that holds a word and any values to load: the BIOS carries out what was *)
(* typed, and the terminal shows what the BIOS has of it.                  *)
(*                                                                         *)
(* Bios and Monitor compute by recursive functions over the word.  Each is *)
(* first shown to meet its own equation (SizeDef, ScannedDef, ReadDef),    *)
(* by induction over its domain; two conversions are then compared index   *)
(* by index.  Monitor takes a number modulo the size of a word once, at    *)
(* the end, ascii.c after every digit.                                     *)
(*                                                                         *)
(* The invariant says what the types do not: where the cursor stands on    *)
(* the screen, and that a buffer holds no NUL before its index, or the     *)
(* word read from it would be shorter than the one typed.                  *)
(***************************************************************************)
EXTENDS Bios, SequenceTheorems, WellFoundedInduction, TLAPS

\* Induction, for a set given by what its elements satisfy.
LEMMA SetInduction ==
  ASSUME NEW S, 0 \in S, \A m \in Nat : m \in S => m + 1 \in S
  PROVE  Nat \subseteq S
<1> DEFINE R == {ss \in Nat \X Nat : ss[1] < ss[2]}
<1>1. IsWellFoundedOn(R, Nat)
  BY NatLessThanWellFounded DEF OpToRel
<1>2. SUFFICES ASSUME Nat \ S # {} PROVE FALSE
  OBVIOUS
<1>3. PICK x \in Nat \ S : \A y \in Nat \ S : ~(<<y, x>> \in R)
  BY <1>1, <1>2, WFMin
<1>4. x # 0 /\ x - 1 \in Nat /\ x - 1 < x
  BY <1>3
<1>5. x - 1 \notin S
  BY <1>3, <1>4
<1>6. <<x - 1, x>> \in R
  BY <1>3, <1>4
<1> QED
  BY <1>3, <1>4, <1>5, <1>6

-----------------------------------------------------------------------------
(* What the recursive functions return *)

\* Size meets its equation.
LEMMA SizeDef ==
  Size = [d \in 0 .. WordDigits |-> IF d = 0 THEN 1 ELSE 16 * Size[d - 1]]
<1> DEFINE Is(g, m) == g = [d \in 0 .. m |-> IF d = 0 THEN 1 ELSE 16 * g[d - 1]]
           S == {m \in Nat : \E g : Is(g, m)}
<1>1. 0 \in S
  <2>1. Is([d \in 0 .. 0 |-> 1], 0)
    OBVIOUS
  <2> QED
    BY <2>1
<1>2. ASSUME NEW m \in Nat, m \in S PROVE m + 1 \in S
  <2>1. PICK g : Is(g, m)
    BY <1>2
  <2> DEFINE h == [d \in 0 .. (m + 1) |-> IF d = 0 THEN 1 ELSE 16 * g[d - 1]]
  <2>2. \A d \in 0 .. m : h[d] = g[d]
    BY <2>1
  <2>3. \A d \in 0 .. (m + 1) : d # 0 => h[d - 1] = g[d - 1]
    <3> HIDE DEF h
    <3> QED
      BY <2>2
  <2>4. h = [d \in 0 .. (m + 1) |-> IF d = 0 THEN 1 ELSE 16 * h[d - 1]]
    <3> DEFINE H == h
    <3> HIDE DEF H
    <3>1. [d \in 0 .. (m + 1) |-> IF d = 0 THEN 1 ELSE 16 * g[d - 1]]
            = [d \in 0 .. (m + 1) |-> IF d = 0 THEN 1 ELSE 16 * H[d - 1]]
      BY <2>3 DEF H
    <3> QED
      BY <3>1 DEF H
  <2>5. Is(h, m + 1)
    BY <2>4
  <2> HIDE DEF Is, h
  <2> QED
    BY <2>5
<1>3. Nat \subseteq S
  <2> HIDE DEF S
  <2> QED
    BY <1>1, <1>2, SetInduction
<1>4. \E g : Is(g, WordDigits)
  BY <1>3, DigitsAssumption
<1>5. Size = CHOOSE g : Is(g, WordDigits)
  BY DEF Size
<1> QED
  BY <1>4, <1>5

LEMMA SizeStep ==
  /\ Size[0] = 1
  /\ \A d \in 1 .. WordDigits : Size[d] = 16 * Size[d - 1]
<1>1. ASSUME NEW d \in 0 .. WordDigits
      PROVE  Size[d] = IF d = 0 THEN 1 ELSE 16 * Size[d - 1]
  <2> DEFINE f == [e \in 0 .. WordDigits |-> IF e = 0 THEN 1 ELSE 16 * Size[e - 1]]
  <2>1. f[d] = IF d = 0 THEN 1 ELSE 16 * Size[d - 1]
    OBVIOUS
  <2>2. Size = f
    BY SizeDef
  <2> HIDE DEF f
  <2> QED
    BY <2>1, <2>2
<1> QED
  BY <1>1, DigitsAssumption

LEMMA SizeType == \A d \in 0 .. WordDigits : Size[d] \in Nat \ {0}
<1> DEFINE S == {m \in Nat : m <= WordDigits => Size[m] \in Nat \ {0}}
<1>1. 0 \in S
  BY SizeStep
<1>2. ASSUME NEW m \in Nat, m \in S PROVE m + 1 \in S
  <2> SUFFICES ASSUME m + 1 <= WordDigits PROVE Size[m + 1] \in Nat \ {0}
    OBVIOUS
  <2>1. Size[m] \in Nat \ {0}
    BY <1>2, DigitsAssumption
  <2>2. Size[m + 1] = 16 * Size[m]
    BY SizeStep, DigitsAssumption
  <2> QED
    BY <2>1, <2>2
<1>3. Nat \subseteq S
  <2> HIDE DEF S
  <2> QED
    BY <1>1, <1>2, SetInduction
<1> QED
  BY <1>3, DigitsAssumption

\* A type of more digits has more values.
LEMMA SizeGrows ==
  ASSUME NEW a \in 0 .. WordDigits, NEW z \in a .. WordDigits
  PROVE  Size[a] <= Size[z]
<1> DEFINE S == {m \in Nat : a + m <= WordDigits => Size[a] <= Size[a + m]}
<1>1. 0 \in S
  BY SizeType, DigitsAssumption
<1>2. ASSUME NEW m \in Nat, m \in S PROVE m + 1 \in S
  <2> SUFFICES ASSUME a + (m + 1) <= WordDigits
               PROVE  Size[a] <= Size[a + (m + 1)]
    OBVIOUS
  <2>1. Size[a] <= Size[a + m] /\ Size[a] \in Nat /\ Size[a + m] \in Nat
    BY <1>2, SizeType, DigitsAssumption
  <2>2. Size[a + (m + 1)] = 16 * Size[a + m]
    <3>1. PICK d \in 1 .. WordDigits : d = a + (m + 1)
      BY DigitsAssumption
    <3>2. Size[d] = 16 * Size[d - 1] /\ d - 1 = a + m
      BY <3>1, SizeStep, DigitsAssumption
    <3> QED
      BY <3>1, <3>2
  <2> QED
    BY <2>1, <2>2
<1>3. Nat \subseteq S
  <2> HIDE DEF S
  <2> QED
    BY <1>1, <1>2, SetInduction
<1>4. z - a \in S
  BY <1>3, DigitsAssumption
<1> QED
  BY <1>4, DigitsAssumption

\* A conversion, character by character: what it has after k of them, if it
\* had t[k - 1] before.
ScanNext(b, base, digits, t, k) ==
  IF k = 0 THEN 0
  ELSE IF \E l \in 0 .. (k - 1) : b[l] = NUL THEN t[k - 1]
  ELSE IF b[k - 1] \in DOMAIN Digit
       THEN (base * t[k - 1] + Digit[b[k - 1]]) % Size[digits] ELSE t[k - 1]

Scanned(b, limit, base, digits) ==
  CHOOSE t : t = [k \in 0 .. limit |-> ScanNext(b, base, digits, t, k)]

LEMMA ConvertedScans ==
  ASSUME NEW b, NEW limit, NEW base, NEW digits
  PROVE  Converted(b, limit, base, digits) = Scanned(b, limit, base, digits)[limit]
BY DEF Converted, Scanned, ScanNext

LEMMA ScannedDef ==
  ASSUME NEW b, NEW limit \in Nat, NEW base, NEW digits, NEW k \in 0 .. limit
  PROVE  Scanned(b, limit, base, digits)[k]
           = ScanNext(b, base, digits, Scanned(b, limit, base, digits), k)
<1> DEFINE Again(g, m) == [k_1 \in 0 .. m |-> ScanNext(b, base, digits, g, k_1)]
           Is(g, m) == g = Again(g, m)
           S == {m \in Nat : \E g : Is(g, m)}
<1>1. 0 \in S
  <2>1. Is([d \in 0 .. 0 |-> 0], 0)
    BY DEF ScanNext
  <2> QED
    BY <2>1
<1>2. ASSUME NEW m \in Nat, m \in S PROVE m + 1 \in S
  <2>1. PICK g : Is(g, m)
    BY <1>2
  <2> DEFINE h == Again(g, m + 1)
  <2>2. \A d \in 0 .. m : h[d] = g[d]
    BY <2>1
  <2>3. \A d \in 0 .. (m + 1) : d # 0 => h[d - 1] = g[d - 1]
    <3> HIDE DEF h
    <3> QED
      BY <2>2
  <2>4. h = Again(h, m + 1)
    <3> DEFINE H == h
    <3> HIDE DEF H
    <3>1. \A d \in 0 .. (m + 1) : ScanNext(b, base, digits, g, d) = ScanNext(b, base, digits, H, d)
      BY <2>3 DEF H, ScanNext
    <3>2. Again(g, m + 1) = Again(H, m + 1)
      BY <3>1
    <3> QED
      BY <3>2 DEF H
  <2>5. Is(h, m + 1)
    BY <2>4
  <2> HIDE DEF Is, h
  <2> QED
    BY <2>5
<1>3. Nat \subseteq S
  <2> HIDE DEF S
  <2> QED
    BY <1>1, <1>2, SetInduction
<1>4. \E g : Is(g, limit)
  BY <1>3
<1>5. Scanned(b, limit, base, digits) = CHOOSE g : Is(g, limit)
  BY DEF Scanned
<1> DEFINE t == Scanned(b, limit, base, digits)
<1> HIDE DEF t
<1>6. t = Again(t, limit)
  BY <1>4, <1>5 DEF t
<1>7. Again(t, limit)[k] = ScanNext(b, base, digits, t, k)
  OBVIOUS
<1> QED
  BY <1>6, <1>7 DEF t

\* The number a word writes, in the same manner.
ReadNext(w, base, t, k) ==
  IF k = 0 THEN 0
  ELSE IF w[k] \in DOMAIN Digit THEN base * t[k - 1] + Digit[w[k]] ELSE t[k - 1]

Read(w, last, base) ==
  CHOOSE t : t = [k \in 0 .. last |-> ReadNext(w, base, t, k)]

LEMMA ValueReads ==
  ASSUME NEW w, NEW limit, NEW base
  PROVE  LET last == IF limit < Len(w) THEN limit ELSE Len(w)
         IN  M!Value(w, limit, base) = Read(w, last, base)[last] % Size[WordDigits]
BY DEF M!Value, Read, ReadNext, M!Digit, Digit, M!Size, Size

LEMMA ReadDef ==
  ASSUME NEW w, NEW last \in Nat, NEW base, NEW k \in 0 .. last
  PROVE  Read(w, last, base)[k]
           = ReadNext(w, base, Read(w, last, base), k)
<1> DEFINE Again(g, m) == [k_1 \in 0 .. m |-> ReadNext(w, base, g, k_1)]
           Is(g, m) == g = Again(g, m)
           S == {m \in Nat : \E g : Is(g, m)}
<1>1. 0 \in S
  <2>1. Is([d \in 0 .. 0 |-> 0], 0)
    BY DEF ReadNext
  <2> QED
    BY <2>1
<1>2. ASSUME NEW m \in Nat, m \in S PROVE m + 1 \in S
  <2>1. PICK g : Is(g, m)
    BY <1>2
  <2> DEFINE h == Again(g, m + 1)
  <2>2. \A d \in 0 .. m : h[d] = g[d]
    BY <2>1
  <2>3. \A d \in 0 .. (m + 1) : d # 0 => h[d - 1] = g[d - 1]
    <3> HIDE DEF h
    <3> QED
      BY <2>2
  <2>4. h = Again(h, m + 1)
    <3> DEFINE H == h
    <3> HIDE DEF H
    <3>1. \A d \in 0 .. (m + 1) : ReadNext(w, base, g, d) = ReadNext(w, base, H, d)
      BY <2>3 DEF H, ReadNext
    <3>2. Again(g, m + 1) = Again(H, m + 1)
      BY <3>1
    <3> QED
      BY <3>2 DEF H
  <2>5. Is(h, m + 1)
    BY <2>4
  <2> HIDE DEF Is, h
  <2> QED
    BY <2>5
<1>3. Nat \subseteq S
  <2> HIDE DEF S
  <2> QED
    BY <1>1, <1>2, SetInduction
<1>4. \E g : Is(g, last)
  BY <1>3
<1>5. Read(w, last, base) = CHOOSE g : Is(g, last)
  BY DEF Read
<1> DEFINE t == Read(w, last, base)
<1> HIDE DEF t
<1>6. t = Again(t, last)
  BY <1>4, <1>5 DEF t
<1>7. Again(t, last)[k] = ReadNext(w, base, t, k)
  OBVIOUS
<1> QED
  BY <1>6, <1>7 DEF t

LEMMA ReadType ==
  ASSUME NEW w, NEW last \in Nat, NEW base \in Nat
  PROVE  \A k \in 0 .. last : Read(w, last, base)[k] \in Nat
<1> DEFINE t == Read(w, last, base)
           S == {m \in Nat : m <= last => t[m] \in Nat}
<1>0. \A k \in 0 .. last : t[k] = ReadNext(w, base, t, k)
  BY ReadDef
<1> HIDE DEF t
<1>1. 0 \in S
  BY <1>0 DEF ReadNext
<1>2. ASSUME NEW m \in Nat, m \in S PROVE m + 1 \in S
  <2> SUFFICES ASSUME m + 1 <= last PROVE t[m + 1] \in Nat
    OBVIOUS
  <2>1. t[m] \in Nat
    BY <1>2
  <2>2. t[m + 1] = ReadNext(w, base, t, m + 1)
    BY <1>0
  <2>3. t[m + 1 - 1] = t[m]
    OBVIOUS
  <2>4. \A c \in DOMAIN Digit : Digit[c] \in Nat
    BY DEF Digit
  <2>5. t[m + 1] = IF w[m + 1] \in DOMAIN Digit THEN base * t[m] + Digit[w[m + 1]] ELSE t[m]
    BY <2>2, <2>3 DEF ReadNext
  <2> QED
    BY <2>1, <2>4, <2>5
<1>3. Nat \subseteq S
  <2> HIDE DEF S
  <2> QED
    BY <1>1, <1>2, SetInduction
<1> QED
  BY <1>3 DEF t

\* Digits of a base up to 16 stay below the size of a type that has them all.
LEMMA ReadBound ==
  ASSUME NEW w, NEW last \in 0 .. WordDigits
  PROVE  Read(w, last, 16)[last] < Size[last]
<1> DEFINE t == Read(w, last, 16)
           S == {m \in Nat : m <= last => t[m] < Size[m]}
<1>0. \A k \in 0 .. last : t[k] = ReadNext(w, 16, t, k) /\ t[k] \in Nat
  BY ReadDef, ReadType, DigitsAssumption
<1> HIDE DEF t
<1>1. 0 \in S
  BY <1>0, SizeStep DEF ReadNext
<1>2. ASSUME NEW m \in Nat, m \in S PROVE m + 1 \in S
  <2> SUFFICES ASSUME m + 1 <= last PROVE t[m + 1] < Size[m + 1]
    OBVIOUS
  <2>1. t[m] \in Nat /\ t[m] < Size[m] /\ Size[m] \in Nat
    BY <1>0, <1>2, SizeType, DigitsAssumption
  <2>2. t[m + 1] = ReadNext(w, 16, t, m + 1)
    BY <1>0
  <2>3. t[m + 1 - 1] = t[m]
    OBVIOUS
  <2>4. \A c \in DOMAIN Digit : Digit[c] \in 0 .. 1
    BY DEF Digit
  <2>5. t[m + 1] = IF w[m + 1] \in DOMAIN Digit THEN 16 * t[m] + Digit[w[m + 1]] ELSE t[m]
    BY <2>2, <2>3 DEF ReadNext
  <2>6. Size[m + 1] = 16 * Size[m]
    <3>1. PICK d \in 1 .. WordDigits : d = m + 1
      BY DigitsAssumption
    <3>2. Size[d] = 16 * Size[d - 1] /\ d - 1 = m
      BY <3>1, SizeStep, DigitsAssumption
    <3> QED
      BY <3>1, <3>2
  <2> QED
    BY <2>1, <2>4, <2>5, <2>6
<1>3. Nat \subseteq S
  <2> HIDE DEF S
  <2> QED
    BY <1>1, <1>2, SetInduction
<1> QED
  BY <1>3 DEF t

-----------------------------------------------------------------------------
(* Sums in a type *)

LEMMA RemainderIsUnique ==
  ASSUME NEW m \in Nat \ {0}, NEW q \in Nat, NEW r \in 0 .. (m - 1)
  PROVE  (m * q + r) % m = r
OBVIOUS

LEMMA Multiples ==
  ASSUME NEW m \in Nat \ {0}, NEW q \in Nat, NEW a \in Nat
  PROVE  (m * q + a) % m = a % m
<1>1. PICK p \in Nat, r \in 0 .. (m - 1) : a = m * p + r
  <2>1. a = m * (a \div m) + (a % m) /\ a \div m \in Nat /\ a % m \in 0 .. (m - 1)
    OBVIOUS
  <2> QED
    BY <2>1
<1>2. m * q + a = m * (q + p) + r
  BY <1>1
<1> QED
  BY <1>1, <1>2, RemainderIsUnique

\* Whether a sum wraps at each step or at the end makes no difference.
LEMMA WrapsOnce ==
  ASSUME NEW m \in Nat \ {0}, NEW base \in Nat, NEW x \in Nat, NEW d \in Nat
  PROVE  (base * (x % m) + d) % m = (base * x + d) % m
<1>1. x = m * (x \div m) + (x % m) /\ x \div m \in Nat /\ x % m \in Nat
  OBVIOUS
<1>2. PICK q \in Nat, r \in Nat : x = m * q + r /\ r = x % m
  BY <1>1
<1>3. base * x + d = m * (base * q) + (base * r + d)
  <2>1. base * (m * q + r) = base * (m * q) + base * r
    <3>1. \A a, b, c \in Nat : a * (b + c) = a * b + a * c
      OBVIOUS
    <3>2. m * q \in Nat
      OBVIOUS
    <3> QED
      BY <3>1, <3>2
  <2>2. base * (m * q) = m * (base * q)
    BY <1>2
  <2> QED
    BY <1>2, <2>1, <2>2
<1>4. base * q \in Nat /\ base * r + d \in Nat
  BY <1>2
<1>5. (m * (base * q) + (base * r + d)) % m = (base * r + d) % m
  BY <1>4, Multiples
<1> QED
  BY <1>2, <1>3, <1>5
-----------------------------------------------------------------------------
(* The conversions *)

\* A buffer holds the word w: its characters and a NUL behind them.
Holds(b, w) ==
  /\ w \in Seq(Chars)
  /\ \A l \in 0 .. (Len(w) - 1) : b[l] = w[l + 1]
  /\ b[Len(w)] = NUL

LEMMA CharsAreNotNUL == NUL \notin Chars
BY DEF NUL, Chars

\* What a buffer holds up to its NUL, or up to the limit, is converted as if the
\* sum were taken without bound and cut at the end.
LEMMA ScannedIsRead ==
  ASSUME NEW b, NEW w, Holds(b, w), NEW limit \in Nat, NEW base \in Nat,
         NEW digits \in 0 .. WordDigits,
         NEW last \in Nat, last = IF limit < Len(w) THEN limit ELSE Len(w)
  PROVE  Converted(b, limit, base, digits) = Read(w, last, base)[last] % Size[digits]
<1> DEFINE e == Len(w)
<1>0. /\ e \in Nat /\ b[e] = NUL /\ last = (IF limit < e THEN limit ELSE e)
      /\ \A l \in 0 .. (e - 1) : b[l] = w[l + 1] /\ b[l] # NUL
  <2>1. e \in Nat /\ \A l \in 1 .. e : w[l] \in Chars
    BY DEF Holds
  <2> QED
    BY <2>1, CharsAreNotNUL DEF Holds
<1> HIDE DEF e
<1> DEFINE s == Scanned(b, limit, base, digits)
           t == Read(w, last, base)
           at(k) == IF k < last THEN k ELSE last
           S == {m \in Nat : m <= limit => s[m] = t[at(m)] % Size[digits]}
<1>1. \A k \in 0 .. limit : s[k] = ScanNext(b, base, digits, s, k)
  BY ScannedDef
<1>2. \A k \in 0 .. last : t[k] = ReadNext(w, base, t, k) /\ t[k] \in Nat
  BY ReadDef, ReadType
<1>3. Size[digits] \in Nat \ {0}
  BY SizeType
<1>10. ASSUME NEW x \in Nat, NEW d \in Nat
       PROVE  (base * (x % Size[digits]) + d) % Size[digits] = (base * x + d) % Size[digits]
  BY <1>3, WrapsOnce
<1> HIDE DEF s, t
<1>4. 0 \in S
  <2>1. s[0] = 0 /\ t[0] = 0 /\ at(0) = 0
    BY <1>1, <1>2 DEF ScanNext, ReadNext
  <2> QED
    BY <2>1, <1>3
<1>5. ASSUME NEW m \in Nat, m \in S PROVE m + 1 \in S
  <2> SUFFICES ASSUME m + 1 <= limit PROVE s[m + 1] = t[at(m + 1)] % Size[digits]
    OBVIOUS
  <2>1. s[m] = t[at(m)] % Size[digits]
    BY <1>5
  <2>2. s[m + 1] = ScanNext(b, base, digits, s, m + 1)
    BY <1>1
  <2>3. s[m + 1] = IF \E l \in 0 .. m : b[l] = NUL THEN s[m]
                   ELSE IF b[m] \in DOMAIN Digit THEN (base * s[m] + Digit[b[m]]) % Size[digits]
                   ELSE s[m]
    <3>1. m + 1 - 1 = m
      OBVIOUS
    <3> QED
      BY <2>2, <3>1 DEF ScanNext
  <2>4. CASE m < e
    <3>1. m + 1 <= last /\ at(m + 1) = m + 1 /\ at(m) = m
      BY <1>0, <2>4
    <3>2. ~(\E l \in 0 .. m : b[l] = NUL) /\ b[m] = w[m + 1]
      BY <1>0, <2>4
    <3>3. t[m + 1] = ReadNext(w, base, t, m + 1)
      BY <3>1, <1>2
    <3>4. t[m + 1] = IF w[m + 1] \in DOMAIN Digit THEN base * t[m] + Digit[w[m + 1]] ELSE t[m]
      <4>1. m + 1 - 1 = m
        OBVIOUS
      <4> QED
        BY <3>3, <4>1 DEF ReadNext
    <3>5. CASE w[m + 1] \in DOMAIN Digit
      <4>1. Digit[w[m + 1]] \in Nat
        BY <3>5 DEF Digit
      <4>2. t[m] \in Nat
        BY <3>1, <1>2
      <4>3. (base * (t[m] % Size[digits]) + Digit[w[m + 1]]) % Size[digits]
              = (base * t[m] + Digit[w[m + 1]]) % Size[digits]
        BY <1>10, <4>1, <4>2
      <4> QED
        BY <2>1, <2>3, <3>1, <3>2, <3>4, <3>5, <4>3
    <3>6. CASE w[m + 1] \notin DOMAIN Digit
      BY <2>1, <2>3, <3>1, <3>2, <3>4, <3>6
    <3> QED
      BY <3>5, <3>6
  <2>5. CASE m >= e
    <3>1. last = e /\ at(m + 1) = at(m)
      BY <1>0, <2>5
    <3>2. \E l \in 0 .. m : b[l] = NUL
      BY <1>0, <2>5
    <3> QED
      BY <2>1, <2>3, <3>1, <3>2
  <2> QED
    BY <1>0, <2>4, <2>5
<1>6. Nat \subseteq S
  <2> HIDE DEF S
  <2> QED
    BY <1>4, <1>5, SetInduction
<1>7. at(limit) = last
  BY <1>0
<1>8. s[limit] = t[last] % Size[digits]
  BY <1>6, <1>7
<1> QED
  BY <1>8, ConvertedScans DEF s, t
\* strcmp sees just the word.
LEMMA StringIsWord ==
  ASSUME NEW b, NEW w, Holds(b, w), 0 .. Len(w) \subseteq DOMAIN b, DOMAIN b \subseteq Nat
  PROVE  String(b) = w
<1> DEFINE End(k) == b[k] = NUL /\ \A l \in 0 .. (k - 1) : b[l] # NUL
<1>1. Len(w) \in Nat /\ \A l \in 1 .. Len(w) : w[l] \in Chars
  BY DEF Holds
<1>2. \A l \in 0 .. (Len(w) - 1) : b[l] # NUL
  BY <1>1, CharsAreNotNUL DEF Holds
<1>3. Len(w) \in DOMAIN b /\ End(Len(w))
  BY <1>1, <1>2 DEF Holds
<1>4. \A k \in DOMAIN b : End(k) => k = Len(w)
  BY <1>1, <1>2, <1>3
<1>5. (CHOOSE k \in DOMAIN b : End(k)) = Len(w)
  BY <1>3, <1>4
<1>6. String(b) = [k \in 1 .. Len(w) |-> b[k - 1]]
  BY <1>5 DEF String
<1>7. \A k \in 1 .. Len(w) : b[k - 1] = w[k]
  BY <1>1 DEF Holds
<1>8. w = [k \in 1 .. Len(w) |-> w[k]]
  BY DEF Holds
<1> QED
  BY <1>6, <1>7, <1>8

\* Each conversion gives the value of the word.
LEMMA ConversionsAgree ==
  ASSUME NEW b, NEW w, Holds(b, w)
  PROVE  /\ ascii_hex_to_uint32(b) = M!Hex(w) /\ M!Hex(w) \in Word
         /\ ascii_hex_to_uint8(b) = M!HexByte(w) /\ M!HexByte(w) \in Word
         /\ ascii_dec_to_uint32(b) = M!Dec(w) /\ M!Dec(w) \in Word
<1>1. Len(w) \in Nat /\ \A l \in 1 .. Len(w) : w[l] \in Chars
  BY DEF Holds
<1>2. \A l \in 0 .. (Len(w) - 1) : b[l] = w[l + 1] /\ b[l] # NUL
  BY <1>1, CharsAreNotNUL DEF Holds
<1>3. b[Len(w)] = NUL
  BY DEF Holds
<1> DEFINE Last(limit) == IF limit < Len(w) THEN limit ELSE Len(w)
           R(limit, base) == Read(w, Last(limit), base)[Last(limit)]
<1>4. ASSUME NEW limit \in Nat, NEW base \in Nat, NEW digits \in 0 .. WordDigits
      PROVE  Converted(b, limit, base, digits) = R(limit, base) % Size[digits]
  <2>1. Last(limit) \in Nat
    BY <1>1
  <2> QED
    BY <2>1, ScannedIsRead
<1>5. ASSUME NEW limit \in Nat, NEW base \in Nat
      PROVE  M!Value(w, limit, base) = R(limit, base) % Size[WordDigits]
  BY ValueReads
<1>6. ASSUME NEW limit \in Nat, NEW base \in Nat PROVE R(limit, base) \in Nat
  <2>1. Last(limit) \in Nat /\ Last(limit) \in 0 .. Last(limit)
    BY <1>1
  <2> HIDE DEF Last
  <2> QED
    BY <2>1, ReadType
<1>7. Size[WordDigits] \in Nat \ {0}
  BY SizeType, DigitsAssumption
<1>8. ASSUME NEW x \in Nat PROVE x % Size[WordDigits] \in Word
  BY <1>7 DEF Word
<1>9. WordDigits \in Nat /\ ByteDigits \in Nat /\ ByteDigits \in 0 .. WordDigits /\ WordDigits \in 0 .. WordDigits
  BY DigitsAssumption
<1>10. R(ByteDigits, 16) % Size[ByteDigits] = R(ByteDigits, 16) % Size[WordDigits]
  <2>1. Last(ByteDigits) \in 0 .. ByteDigits /\ Last(ByteDigits) \in 0 .. WordDigits
    BY <1>1, <1>9
  <2>2. R(ByteDigits, 16) < Size[Last(ByteDigits)]
    <3> HIDE DEF Last
    <3> QED
      BY <2>1, ReadBound
  <2>3. Size[Last(ByteDigits)] <= Size[ByteDigits] /\ Size[ByteDigits] <= Size[WordDigits]
    <3> HIDE DEF Last
    <3>1. ByteDigits \in Last(ByteDigits) .. WordDigits /\ WordDigits \in ByteDigits .. WordDigits
      BY <1>9, <2>1
    <3> QED
      BY <1>9, <2>1, <3>1, SizeGrows
  <2>4. /\ Size[Last(ByteDigits)] \in Nat /\ Size[ByteDigits] \in Nat \ {0}
        /\ R(ByteDigits, 16) \in Nat
    <3> HIDE DEF Last
    <3> QED
      BY <1>6, <1>9, <2>1, SizeType
  <2>5. \A r \in Nat, m \in Nat \ {0} : r < m => r % m = r
    OBVIOUS
  <2> HIDE DEF R
  <2> QED
    BY <1>7, <2>2, <2>3, <2>4, <2>5
<1> HIDE DEF R
<1>11. ascii_hex_to_uint32(b) = M!Hex(w) /\ M!Hex(w) \in Word
  BY <1>4, <1>5, <1>6, <1>8, <1>9 DEF ascii_hex_to_uint32, M!Hex
<1>12. ascii_hex_to_uint8(b) = M!HexByte(w) /\ M!HexByte(w) \in Word
  BY <1>4, <1>5, <1>6, <1>8, <1>9, <1>10 DEF ascii_hex_to_uint8, M!HexByte
<1>13. ascii_dec_to_uint32(b) = M!Dec(w) /\ M!Dec(w) \in Word
  BY <1>4, <1>5, <1>6, <1>8, <1>9 DEF ascii_dec_to_uint32, M!Dec
<1> QED
  BY <1>11, <1>12, <1>13

-----------------------------------------------------------------------------
(* The terminal *)

\* The screen as the characters of out are written.
Screens(out) ==
  CHOOSE t : t = [k \in 0 .. Len(out) |->
                    IF k = 0 THEN <<shown, col>> ELSE Written(t[k - 1], out[k])]

LEMMA ShowsScreens ==
  ASSUME NEW out, Shows(out)
  PROVE  /\ shown' = Screens(out)[Len(out)][1] /\ col' = Screens(out)[Len(out)][2]
         /\ newline' = newline
BY DEF Shows, Screens

LEMMA ScreensDef ==
  ASSUME NEW out, Len(out) \in Nat
  PROVE  \A k \in 0 .. Len(out) :
           Screens(out)[k] = IF k = 0 THEN <<shown, col>> ELSE Written(Screens(out)[k - 1], out[k])
<1> DEFINE p == <<shown, col>>
<1> HIDE DEF p
<1> DEFINE Again(g, m) == [d \in 0 .. m |-> IF d = 0 THEN p ELSE Written(g[d - 1], out[d])]
           Is(g, m) == g = Again(g, m)
           S == {m \in Nat : \E g : Is(g, m)}
<1>1. 0 \in S
  <2>1. Is([d \in 0 .. 0 |-> p], 0)
    OBVIOUS
  <2> QED
    BY <2>1
<1>2. ASSUME NEW m \in Nat, m \in S PROVE m + 1 \in S
  <2>1. PICK g : Is(g, m)
    BY <1>2
  <2> DEFINE h == Again(g, m + 1)
  <2>2. \A d \in 0 .. m : h[d] = g[d]
    BY <2>1
  <2>3. \A d \in 0 .. (m + 1) : d # 0 => h[d - 1] = g[d - 1]
    <3> HIDE DEF h
    <3> QED
      BY <2>2
  <2>4. h = Again(h, m + 1)
    <3> DEFINE H == h
    <3> HIDE DEF H
    <3>1. Again(g, m + 1) = Again(H, m + 1)
      BY <2>3 DEF H
    <3> QED
      BY <3>1 DEF H
  <2>5. Is(h, m + 1)
    BY <2>4
  <2> HIDE DEF Is, h
  <2> QED
    BY <2>5
<1>3. Nat \subseteq S
  <2> HIDE DEF S
  <2> QED
    BY <1>1, <1>2, SetInduction
<1>4. \E g : Is(g, Len(out))
  BY <1>3
<1>5. Screens(out) = CHOOSE g : Is(g, Len(out))
  BY DEF Screens, p
<1> DEFINE t == Screens(out)
<1> HIDE DEF t
<1>6. t = Again(t, Len(out))
  BY <1>4, <1>5 DEF t
<1>7. \A k \in 0 .. Len(out) : Again(t, Len(out))[k] = IF k = 0 THEN p ELSE Written(t[k - 1], out[k])
  OBVIOUS
<1> QED
  BY <1>6, <1>7 DEF t, p

\* What is on the screen after one, two and three characters.
LEMMA ShowsOne ==
  ASSUME NEW c, Shows(<<c>>)
  PROVE  LET s == Written(<<shown, col>>, c)
         IN  shown' = s[1] /\ col' = s[2] /\ newline' = newline
<1> DEFINE out == <<c>>
<1>1. Len(out) = 1 /\ out[1] = c
  OBVIOUS
<1>2. Shows(out)
  OBVIOUS
<1> HIDE DEF out
<1> DEFINE t == Screens(out)
<1>3. t[0] = <<shown, col>> /\ t[1] = Written(t[0], c)
  <2>1. \A k \in 0 .. 1 : t[k] = IF k = 0 THEN <<shown, col>> ELSE Written(t[k - 1], out[k])
    BY <1>1, ScreensDef, SMTT(30)
  <2> HIDE DEF t
  <2> QED
    BY <1>1, <2>1
<1>4. shown' = t[1][1] /\ col' = t[1][2] /\ newline' = newline
  BY <1>1, <1>2, ShowsScreens
<1> HIDE DEF t
<1> QED
  BY <1>3, <1>4

LEMMA ShowsTwo ==
  ASSUME NEW c, NEW d, Shows(<<c, d>>)
  PROVE  LET s == Written(Written(<<shown, col>>, c), d)
         IN  shown' = s[1] /\ col' = s[2] /\ newline' = newline
<1> DEFINE out == <<c, d>>
<1>1. Len(out) = 2 /\ out[1] = c /\ out[2] = d
  OBVIOUS
<1>2. Shows(out)
  OBVIOUS
<1> HIDE DEF out
<1> DEFINE t == Screens(out)
<1>3. t[0] = <<shown, col>> /\ t[1] = Written(t[0], c) /\ t[2] = Written(t[1], d)
  <2>1. \A k \in 0 .. 2 : t[k] = IF k = 0 THEN <<shown, col>> ELSE Written(t[k - 1], out[k])
    BY <1>1, ScreensDef
  <2> HIDE DEF t
  <2> QED
    BY <1>1, <2>1
<1>4. shown' = t[2][1] /\ col' = t[2][2] /\ newline' = newline
  BY <1>1, <1>2, ShowsScreens
<1> HIDE DEF t
<1> QED
  BY <1>3, <1>4

LEMMA ShowsThree ==
  ASSUME NEW c, NEW d, NEW e, Shows(<<c, d, e>>)
  PROVE  LET s == Written(Written(Written(<<shown, col>>, c), d), e)
         IN  shown' = s[1] /\ col' = s[2] /\ newline' = newline
<1> DEFINE out == <<c, d, e>>
<1>1. Len(out) = 3 /\ out[1] = c /\ out[2] = d /\ out[3] = e
  OBVIOUS
<1>2. Shows(out)
  OBVIOUS
<1> HIDE DEF out
<1> DEFINE t == Screens(out)
<1>3. /\ t[0] = <<shown, col>> /\ t[1] = Written(t[0], c)
      /\ t[2] = Written(t[1], d) /\ t[3] = Written(t[2], e)
  <2>1. Len(out) \in Nat
    BY <1>1
  <2>2. \A k \in 0 .. Len(out) : t[k] = IF k = 0 THEN <<shown, col>> ELSE Written(t[k - 1], out[k])
    BY <2>1, ScreensDef
  <2> HIDE DEF t
  <2> QED
    BY <1>1, <2>2
<1>4. shown' = t[3][1] /\ col' = t[3][2] /\ newline' = newline
  BY <1>1, <1>2, ShowsScreens
<1> HIDE DEF t
<1> QED
  BY <1>3, <1>4
-----------------------------------------------------------------------------
(* Sequences and buffers *)

LEMMA FunctionIsSeq ==
  ASSUME NEW S, NEW m \in Nat, NEW f \in [1 .. m -> S]
  PROVE  f \in Seq(S) /\ Len(f) = m
<1>1. f \in Seq(S)
  BY SeqDef
<1>2. DOMAIN f = 1 .. Len(f) /\ Len(f) \in Nat
  BY <1>1, LenProperties
<1>3. DOMAIN f = 1 .. m
  OBVIOUS
<1> QED
  BY <1>1, <1>2, <1>3

\* A character over what was at its place.
LEMMA Overwritten ==
  ASSUME NEW text \in Seq(Chars), NEW column \in 0 .. Len(text), NEW c \in Chars
  PROVE  LET new == SubSeq(text, 1, column) \o <<c>> \o SubSeq(text, column + 2, Len(text))
         IN  /\ new \in Seq(Chars)
             /\ Len(new) = IF column = Len(text) THEN column + 1 ELSE Len(text)
             /\ \A k \in 1 .. Len(new) : new[k] = IF k = column + 1 THEN c ELSE text[k]
<1> DEFINE before == SubSeq(text, 1, column)
           after == SubSeq(text, column + 2, Len(text))
           new == before \o <<c>> \o after
<1>1. Len(text) \in Nat /\ \A k \in 1 .. Len(text) : text[k] \in Chars
  OBVIOUS
<1>2. /\ before \in Seq(Chars) /\ Len(before) = column
      /\ \A k \in 1 .. column : before[k] = text[k]
  <2>1. \A k \in 1 .. column : text[k] \in Chars
    BY <1>1
  <2> QED
    BY <1>1, <2>1, SubSeqProperties
<1>3. /\ after \in Seq(Chars)
      /\ Len(after) = IF column + 2 <= Len(text) THEN Len(text) - (column + 2) + 1 ELSE 0
      /\ \A k \in 1 .. (Len(text) - (column + 2) + 1) : after[k] = text[column + 2 + k - 1]
  <2>1. \A k \in (column + 2) .. Len(text) : text[k] \in Chars
    BY <1>1
  <2> QED
    BY <1>1, <2>1, SubSeqProperties
<1>4. <<c>> \in Seq(Chars) /\ Len(<<c>>) = 1 /\ <<c>>[1] = c
  OBVIOUS
<1> HIDE DEF before, after
<1> DEFINE one == <<c>>
           front == before \o one
<1>5. one \in Seq(Chars) /\ Len(one) = 1 /\ one[1] = c
  BY <1>4
<1> HIDE DEF one
<1>6. /\ front \in Seq(Chars) /\ Len(front) = column + 1
      /\ \A k \in 1 .. (column + 1) : front[k] = IF k = column + 1 THEN c ELSE text[k]
  <2>1. /\ front \in Seq(Chars) /\ Len(front) = Len(before) + Len(one)
        /\ \A k \in 1 .. (Len(before) + Len(one)) :
             front[k] = IF k <= Len(before) THEN before[k] ELSE one[k - Len(before)]
    BY <1>2, <1>5, ConcatProperties
  <2> HIDE DEF front
  <2> QED
    BY <1>2, <1>5, <2>1
<1> HIDE DEF front
<1>7. /\ front \o after \in Seq(Chars) /\ Len(front \o after) = Len(front) + Len(after)
      /\ \A k \in 1 .. (Len(front) + Len(after)) :
           (front \o after)[k] = IF k <= Len(front) THEN front[k] ELSE after[k - Len(front)]
  BY <1>3, <1>6, ConcatProperties
<1>8. new = front \o after
  BY DEF front, one
<1> HIDE DEF new
<1>9. new \in Seq(Chars) /\ Len(new) = IF column = Len(text) THEN column + 1 ELSE Len(text)
  <2>1. Len(new) = column + 1 + Len(after) /\ new \in Seq(Chars)
    BY <1>6, <1>7, <1>8
  <2>2. column \in Nat /\ column <= Len(text)
    BY <1>1
  <2>3. Len(after) = IF column + 2 <= Len(text) THEN Len(text) - (column + 2) + 1 ELSE 0
    BY <1>3
  <2>4. CASE column + 2 <= Len(text)
    BY <1>1, <2>1, <2>2, <2>3, <2>4
  <2>5. CASE ~(column + 2 <= Len(text))
    <3>1. column = Len(text) \/ column + 1 = Len(text)
      BY <1>1, <2>2, <2>5
    <3> QED
      BY <1>1, <2>1, <2>2, <2>3, <2>5, <3>1
  <2> QED
    BY <2>4, <2>5
<1>10. ASSUME NEW k \in 1 .. Len(new) PROVE new[k] = IF k = column + 1 THEN c ELSE text[k]
  <2>1. CASE k <= column + 1
    BY <1>1, <1>3, <1>6, <1>7, <1>8, <1>9, <2>1
  <2>2. CASE k > column + 1
    <3>1. column + 2 <= Len(text) /\ k - (column + 1) \in 1 .. (Len(text) - (column + 2) + 1)
      BY <1>1, <1>9, <2>2
    <3>2. new[k] = after[k - (column + 1)]
      BY <1>1, <1>3, <1>6, <1>7, <1>8, <1>9, <2>2, <3>1
    <3>3. column + 2 + (k - (column + 1)) - 1 = k
      BY <1>1, <1>9
    <3> QED
      BY <1>3, <2>2, <3>1, <3>2, <3>3
  <2> QED
    BY <1>1, <1>9, <2>1, <2>2
<1> QED
  BY <1>9, <1>10 DEF new, front, one, before, after

-----------------------------------------------------------------------------
(* The inductive invariant *)

Printable == Chars \ {"space", "return", "backspace"}

\* With the types and the screen: the buffers hold characters up to the index,
\* and the counters of a transfer are at rest outside of one.
IInv ==
  /\ TypeOK /\ ScreenShowsToken
  /\ \A k \in 0 .. (i - 1) : buffer[k] \in Printable
  /\ \A k \in 0 .. (j - 1) : chars[k] \in Chars
  /\ pc = "store" => i = 0 /\ 4 * n < length /\ shown = <<>> /\ col = 0
  /\ pc # "store" => j = 0 /\ length = 0 /\ n = 0

LEMMA LengthFacts == BUFFER_LEN \in Nat \ {0} /\ WordDigits \in Nat \ {0} /\ WordDigits < BUFFER_LEN
BY LengthAssumption, DigitsAssumption

LEMMA WordFacts == Size[WordDigits] \in Nat \ {0} /\ 0 \in Word /\ Word \subseteq Nat
BY SizeType, DigitsAssumption DEF Word

LEMMA Types ==
  ASSUME IInv
  PROVE  /\ buffer \in [0 .. (BUFFER_LEN - 1) -> Chars \cup {NUL}]
         /\ i \in 0 .. (BUFFER_LEN - 1) /\ i \in Nat
         /\ value \in Word /\ length \in Word /\ n \in Nat
         /\ chars \in [0 .. WordDigits -> Chars \cup {NUL}]
         /\ j \in 0 .. (WordDigits - 1) /\ j \in Nat
         /\ shown \in Seq(Chars) /\ col \in 0 .. Len(shown) /\ Len(shown) \in Nat /\ col \in Nat
         /\ newline \in BOOLEAN
<1>1. TypeOK
  BY DEF IInv
<1>2. /\ buffer \in [0 .. (BUFFER_LEN - 1) -> Chars \cup {NUL}]
      /\ i \in 0 .. (BUFFER_LEN - 1)
      /\ value \in Word /\ length \in Word /\ n \in Nat
      /\ chars \in [0 .. WordDigits -> Chars \cup {NUL}]
      /\ j \in 0 .. (WordDigits - 1)
      /\ shown \in Seq(Chars) /\ col \in 0 .. Len(shown)
      /\ newline \in BOOLEAN
  BY <1>1, Zenon DEF TypeOK
<1>3. i \in Nat /\ j \in Nat
  BY <1>2, LengthFacts
<1>4. Len(shown) \in Nat /\ col \in Nat
  BY <1>2
<1> QED
  BY <1>2, <1>3, <1>4

LEMMA TypedIsSeq ==
  ASSUME IInv
  PROVE  /\ Typed \in Seq(Printable) /\ Typed \in Seq(Chars) /\ Len(Typed) = i
         /\ DOMAIN Typed = 1 .. i
         /\ \A k \in 1 .. i : Typed[k] = buffer[k - 1]
<1>1. i \in Nat
  BY Types
<1>2. \A k \in 1 .. i : buffer[k - 1] \in Printable
  BY <1>1 DEF IInv
<1>3. Typed \in [1 .. i -> Printable] /\ Typed \in [1 .. i -> Chars]
  BY <1>2 DEF Typed, Printable
<1>4. DOMAIN Typed = 1 .. i /\ \A k \in 1 .. i : Typed[k] = buffer[k - 1]
  BY DEF Typed
<1> HIDE DEF Typed
<1> QED
  BY <1>1, <1>3, <1>4, FunctionIsSeq

\* read_token ends the word it has read.
LEMMA EndedHolds ==
  ASSUME IInv
  PROVE  /\ Holds(Ended(i), Typed)
         /\ Ended(i) \in [0 .. (BUFFER_LEN - 1) -> Chars \cup {NUL}]
         /\ String(Ended(i)) = Typed
<1>1. i \in 0 .. (BUFFER_LEN - 1) /\ i \in Nat /\ buffer \in [0 .. (BUFFER_LEN - 1) -> Chars \cup {NUL}]
  BY Types
<1> DEFINE b == Ended(i)
<1>2. /\ b \in [0 .. (BUFFER_LEN - 1) -> Chars \cup {NUL}] /\ b[i] = NUL
      /\ \A k \in 0 .. (i - 1) : b[k] = buffer[k]
  BY <1>1, LengthFacts DEF Ended
<1>3. Typed \in Seq(Chars) /\ Len(Typed) = i /\ \A k \in 1 .. i : Typed[k] = buffer[k - 1]
  BY TypedIsSeq
<1> HIDE DEF b
<1>4. Holds(b, Typed)
  BY <1>1, <1>2, <1>3 DEF Holds
<1>5. 0 .. Len(Typed) \subseteq DOMAIN b /\ DOMAIN b \subseteq Nat
  BY <1>1, <1>2, <1>3, LengthFacts
<1> QED
  BY <1>2, <1>4, <1>5, StringIsWord DEF b
LEMMA InitInv == Init => IInv
<1> SUFFICES ASSUME Init PROVE IInv
  OBVIOUS
<1>1. /\ i = 0 /\ j = 0 /\ n = 0 /\ value = 0 /\ length = 0 /\ pc = "input"
      /\ shown = <<>> /\ col = 0 /\ newline = FALSE /\ key = NUL
      /\ chars = [k \in 0 .. WordDigits |-> NUL]
  BY DEF Init
<1>2. buffer \in [0 .. (BUFFER_LEN - 1) -> Chars \cup {NUL}]
  <2>1. PICK junk \in {NUL, "0"} : buffer = [k \in 0 .. (BUFFER_LEN - 1) |-> junk]
    BY DEF Init
  <2> QED
    BY <2>1 DEF Chars
<1>3. TypeOK
  <2>1. 0 \in 0 .. (BUFFER_LEN - 1) /\ 0 \in 0 .. (WordDigits - 1)
    BY LengthFacts
  <2>2. shown \in Seq(Chars) /\ col \in 0 .. Len(shown)
    BY <1>1
  <2> QED
    BY <1>1, <1>2, <2>1, <2>2, WordFacts DEF TypeOK
<1>4. ScreenShowsToken
  <2>1. col = 0 + i /\ col <= Len(shown) /\ DOMAIN shown = {}
    BY <1>1
  <2> QED
    BY <2>1 DEF ScreenShowsToken
<1> QED
  BY <1>1, <1>3, <1>4 DEF IInv

\* The screen of a word, as a step on it needs it.
LEMMA ScreenOf ==
  ASSUME IInv, pc # "store"
  PROVE  \E lead \in 0 .. 1 :
           /\ lead = 1 => newline
           /\ col = lead + i /\ col <= Len(shown)
           /\ \A k \in 1 .. Len(shown) :
                shown[k] = IF lead < k /\ k <= lead + i THEN buffer[k - lead - 1] ELSE "space"
<1>1. PICK lead \in 0 .. 1 :
           /\ lead = 1 => newline
           /\ col = lead + i /\ col <= Len(shown)
           /\ \A k \in DOMAIN shown :
                shown[k] = IF k - lead \in DOMAIN Typed THEN Typed[k - lead] ELSE "space"
  BY DEF IInv, ScreenShowsToken
<1>2. ASSUME NEW k \in 1 .. Len(shown)
      PROVE  shown[k] = IF lead < k /\ k <= lead + i THEN buffer[k - lead - 1] ELSE "space"
  <2>1. shown[k] = IF k - lead \in 1 .. i THEN Typed[k - lead] ELSE "space"
    <3>1. k \in DOMAIN shown
      BY Types
    <3> QED
      BY <1>1, <3>1, TypedIsSeq
  <2>2. k - lead \in 1 .. i <=> (lead < k /\ k <= lead + i)
    BY Types
  <2>3. k - lead \in 1 .. i => Typed[k - lead] = buffer[k - lead - 1]
    BY TypedIsSeq
  <2> QED
    BY <2>1, <2>2, <2>3
<1> QED
  BY <1>1, <1>2

\* The other way round, for the next state.
LEMMA ScreenThen ==
  ASSUME i' \in Nat, shown' \in Seq(Chars), NEW lead \in 0 .. 1,
         lead = 1 => newline', col' = lead + i', col' <= Len(shown'),
         \A k \in 1 .. Len(shown') :
           shown'[k] = IF lead < k /\ k <= lead + i' THEN buffer'[k - lead - 1] ELSE "space"
  PROVE  ScreenShowsToken'
<1>1. DOMAIN (Typed') = 1 .. i' /\ \A k \in 1 .. i' : (Typed')[k] = buffer'[k - 1]
  BY DEF Typed
<1>2. ASSUME NEW k \in DOMAIN (shown')
      PROVE  shown'[k] = IF k - lead \in DOMAIN (Typed') THEN (Typed')[k - lead] ELSE "space"
  <2>1. k \in 1 .. Len(shown')
    OBVIOUS
  <2>2. k - lead \in 1 .. i' <=> (lead < k /\ k <= lead + i')
    BY <2>1
  <2>3. k - lead \in 1 .. i' => (Typed')[k - lead] = buffer'[k - lead - 1]
    BY <1>1
  <2> QED
    BY <1>1, <2>1, <2>2, <2>3
<1> QED
  BY <1>2 DEF ScreenShowsToken

-----------------------------------------------------------------------------
(* The editor preserves it *)

LEMMA CharacterKeeps ==
  ASSUME IInv, pc # "store", NEW c \in Printable, key' = c, i + 1 < BUFFER_LEN,
         Stays, Shows(<<c>>), buffer' = [buffer EXCEPT ![i] = c], i' = i + 1
  PROVE  IInv'
<1>1. c \in Chars /\ c # "backspace"
  BY DEF Printable
<1>2. PICK lead \in 0 .. 1 :
           /\ lead = 1 => newline
           /\ col = lead + i /\ col <= Len(shown)
           /\ \A k \in 1 .. Len(shown) :
                shown[k] = IF lead < k /\ k <= lead + i THEN buffer[k - lead - 1] ELSE "space"
  BY ScreenOf
<1>3. /\ shown' = SubSeq(shown, 1, col) \o <<c>> \o SubSeq(shown, col + 2, Len(shown))
      /\ col' = col + 1 /\ newline' = newline
  <2>1. col # -1
    BY Types
  <2> QED
    BY <1>1, <2>1, ShowsOne DEF Written
<1>4. /\ shown' \in Seq(Chars)
      /\ Len(shown') = IF col = Len(shown) THEN col + 1 ELSE Len(shown)
      /\ \A k \in 1 .. Len(shown') : shown'[k] = IF k = col + 1 THEN c ELSE shown[k]
  <2>1. shown \in Seq(Chars) /\ col \in 0 .. Len(shown)
    BY Types
  <2>2. LET new == SubSeq(shown, 1, col) \o <<c>> \o SubSeq(shown, col + 2, Len(shown))
        IN  /\ new \in Seq(Chars)
            /\ Len(new) = IF col = Len(shown) THEN col + 1 ELSE Len(shown)
            /\ \A k \in 1 .. Len(new) : new[k] = IF k = col + 1 THEN c ELSE shown[k]
    BY <1>1, <2>1, Overwritten, ZenonT(60)
  <2> QED
    BY <1>3, <2>2, Zenon
<1>5. i' \in 0 .. (BUFFER_LEN - 1) /\ i' \in Nat
  BY Types, LengthFacts
<1>6. /\ buffer' \in [0 .. (BUFFER_LEN - 1) -> Chars \cup {NUL}]
      /\ \A k \in 0 .. (BUFFER_LEN - 1) : buffer'[k] = IF k = i THEN c ELSE buffer[k]
  BY <1>1, Types
<1>7. ScreenShowsToken'
  <2>1. col' = lead + i' /\ col' <= Len(shown')
    <3>1. col' = col + 1 /\ i' = i + 1 /\ col = lead + i /\ col <= Len(shown)
      BY <1>2, <1>3
    <3>2. Len(shown') = IF col = Len(shown) THEN col + 1 ELSE Len(shown)
      BY <1>4
    <3>3. i \in Nat /\ col \in Nat /\ Len(shown) \in Nat
      BY Types
    <3> QED
      BY <3>1, <3>2, <3>3
  <2>2. ASSUME NEW k \in 1 .. Len(shown')
        PROVE  shown'[k] = IF lead < k /\ k <= lead + i' THEN buffer'[k - lead - 1] ELSE "space"
    <3>1. CASE k = col + 1
      <4>1. i \in Nat /\ i \in 0 .. (BUFFER_LEN - 1)
        BY Types
      <4>2. lead < k /\ k <= lead + i' /\ k - lead - 1 = i
        BY <1>2, <3>1, <4>1
      <4>3. buffer'[i] = c
        BY <1>6, <4>1
      <4> QED
        BY <1>4, <3>1, <4>2, <4>3
    <3>2. CASE k # col + 1
      <4>1. k \in 1 .. Len(shown) /\ shown'[k] = shown[k]
        BY <1>4, <3>2, Types
      <4>2. i \in Nat /\ i \in 0 .. (BUFFER_LEN - 1)
        BY Types
      <4>3. k <= lead + i' <=> k <= lead + i
        BY <1>2, <3>2, <4>1, <4>2
      <4>4. lead < k /\ k <= lead + i =>
              k - lead - 1 \in 0 .. (BUFFER_LEN - 1) /\ k - lead - 1 # i
        BY <4>1, <4>2, LengthFacts
      <4>5. lead < k /\ k <= lead + i => buffer'[k - lead - 1] = buffer[k - lead - 1]
        BY <1>6, <4>4
      <4> QED
        BY <1>2, <4>1, <4>3, <4>5
    <3> QED
      BY <3>1, <3>2
  <2> QED
    BY <1>2, <1>3, <1>4, <1>5, <2>1, <2>2, ScreenThen
<1>8. \A k \in 0 .. (i' - 1) : buffer'[k] \in Printable
  BY <1>6, Types DEF IInv
<1>9. TypeOK'
  <2>1. col' \in 0 .. Len(shown')
    <3>1. col \in Nat /\ Len(shown) \in Nat
      BY Types
    <3> QED
      BY <1>2, <1>3, <1>4, <3>1
  <2>2. newline' \in BOOLEAN
    BY <1>3, Types
  <2> QED
    BY <1>1, <1>4, <1>5, <1>6, <2>1, <2>2 DEF IInv, TypeOK, Stays
<1> QED
  BY <1>7, <1>8, <1>9 DEF IInv, Stays
\* One character other than a backspace, written over what was there.
LEMMA WrittenOver ==
  ASSUME NEW text \in Seq(Chars), NEW column \in 0 .. Len(text), NEW c \in Chars, c # "backspace"
  PROVE  \E new \in Seq(Chars) :
           /\ Written(<<text, column>>, c) = <<new, column + 1>>
           /\ Len(new) = IF column = Len(text) THEN column + 1 ELSE Len(text)
           /\ \A k \in 1 .. Len(new) : new[k] = IF k = column + 1 THEN c ELSE text[k]
<1> DEFINE new == SubSeq(text, 1, column) \o <<c>> \o SubSeq(text, column + 2, Len(text))
<1>1. /\ new \in Seq(Chars)
      /\ Len(new) = IF column = Len(text) THEN column + 1 ELSE Len(text)
      /\ \A k \in 1 .. Len(new) : new[k] = IF k = column + 1 THEN c ELSE text[k]
  BY Overwritten, ZenonT(60)
<1>2. Written(<<text, column>>, c) = <<new, column + 1>>
  <2>1. column # -1
    OBVIOUS
  <2> QED
    BY <2>1 DEF Written
<1> HIDE DEF new
<1> QED
  BY <1>1, <1>2

LEMMA BlankWritten ==
  ASSUME NEW text \in Seq(Chars)
  PROVE  \E new \in Seq(Chars) :
           /\ Written(<<text, 0>>, "space") = <<new, 1>>
           /\ Len(new) = IF 0 = Len(text) THEN 1 ELSE Len(text)
           /\ \A k \in 1 .. Len(new) : new[k] = IF k = 1 THEN "space" ELSE text[k]
<1>1. PICK zero \in 0 .. Len(text) : zero = 0
  OBVIOUS
<1>2. "space" \in Chars /\ "space" # "backspace"
  BY DEF Chars
<1>3. PICK new \in Seq(Chars) :
           /\ Written(<<text, zero>>, "space") = <<new, zero + 1>>
           /\ Len(new) = IF zero = Len(text) THEN zero + 1 ELSE Len(text)
           /\ \A k \in 1 .. Len(new) : new[k] = IF k = zero + 1 THEN "space" ELSE text[k]
  BY <1>2, WrittenOver
<1>4. zero + 1 = 1
  BY <1>1
<1> QED
  BY <1>1, <1>3, <1>4

LEMMA RuboutKeeps ==
  ASSUME IInv, pc # "store", i # 0, Stays, Shows(<<"backspace">> \o Rubout),
         buffer' = [buffer EXCEPT ![i] = NUL], i' = i - 1, key' \in Chars
  PROVE  IInv'
<1>1. PICK lead \in 0 .. 1 :
           /\ lead = 1 => newline
           /\ col = lead + i /\ col <= Len(shown)
           /\ \A k \in 1 .. Len(shown) :
                shown[k] = IF lead < k /\ k <= lead + i THEN buffer[k - lead - 1] ELSE "space"
  BY ScreenOf
<1>2. /\ i \in 1 .. (BUFFER_LEN - 1) /\ i - 1 \in Nat /\ i - 1 \in 0 .. (BUFFER_LEN - 1)
      /\ col \in 1 .. Len(shown) /\ col - 1 \in 0 .. Len(shown) /\ Len(shown) \in Nat
  <2>1. i \in 0 .. (BUFFER_LEN - 1) /\ i \in Nat /\ col \in Nat /\ Len(shown) \in Nat
    BY Types
  <2>2. i - 1 \in Nat /\ i \in 1 .. (BUFFER_LEN - 1) /\ i - 1 \in 0 .. (BUFFER_LEN - 1)
    BY <2>1, LengthFacts
  <2>3. col >= 1 /\ col <= Len(shown)
    BY <1>1, <2>1
  <2> QED
    BY <2>1, <2>2, <2>3
<1>3. "space" \in Chars /\ "space" # "backspace"
  BY DEF Chars
<1>4. PICK new \in Seq(Chars) :
           /\ Written(<<shown, col - 1>>, "space") = <<new, col - 1 + 1>>
           /\ Len(new) = IF col - 1 = Len(shown) THEN col - 1 + 1 ELSE Len(shown)
           /\ \A k \in 1 .. Len(new) : new[k] = IF k = col - 1 + 1 THEN "space" ELSE shown[k]
  <2>1. PICK before \in 0 .. Len(shown) : before = col - 1
    BY <1>2
  <2>2. shown \in Seq(Chars)
    BY Types
  <2>3. \E new \in Seq(Chars) :
           /\ Written(<<shown, before>>, "space") = <<new, before + 1>>
           /\ Len(new) = IF before = Len(shown) THEN before + 1 ELSE Len(shown)
           /\ \A k \in 1 .. Len(new) : new[k] = IF k = before + 1 THEN "space" ELSE shown[k]
    BY <1>3, <2>2, WrittenOver
  <2> QED
    BY <2>1, <2>3
<1>5. shown' = new /\ col' = col - 1 /\ newline' = newline
  <2>1. Shows(<<"backspace", "space", "backspace">>)
    <3> DEFINE one == <<"backspace">>
               two == <<"space", "backspace">>
               all == <<"backspace", "space", "backspace">>
    <3>1. /\ one \in Seq(Chars) /\ Len(one) = 1 /\ one[1] = "backspace"
          /\ two \in Seq(Chars) /\ Len(two) = 2 /\ two[1] = "space" /\ two[2] = "backspace"
          /\ all \in Seq(Chars) /\ Len(all) = 3
          /\ all[1] = "backspace" /\ all[2] = "space" /\ all[3] = "backspace"
      BY DEF Chars
    <3>2. Shows(one \o two)
      BY DEF Rubout
    <3> HIDE DEF one, two, all
    <3>3. /\ one \o two \in Seq(Chars) /\ Len(one \o two) = 3
          /\ \A k \in 1 .. 3 : (one \o two)[k] = IF k <= 1 THEN one[k] ELSE two[k - 1]
      <4>1. /\ one \o two \in Seq(Chars) /\ Len(one \o two) = Len(one) + Len(two)
            /\ \A k \in 1 .. (Len(one) + Len(two)) :
                 (one \o two)[k] = IF k <= Len(one) THEN one[k] ELSE two[k - Len(one)]
        BY <3>1, ConcatProperties
      <4>2. Len(one) + Len(two) = 3
        BY <3>1
      <4> QED
        BY <3>1, <4>1, <4>2
    <3>4. \A k \in 1 .. 3 : (one \o two)[k] = all[k]
      <4>1. \A k \in 1 .. 3 : k = 1 \/ k = 2 \/ k = 3
        OBVIOUS
      <4> QED
        BY <3>1, <3>3, <4>1
    <3>5. one \o two = all
      BY <3>1, <3>3, <3>4, SeqEqual
    <3> QED
      BY <3>2, <3>5 DEF all
  <2>2. Written(<<shown, col>>, "backspace") = <<shown, col - 1>>
    BY <1>2 DEF Written
  <2>3. Written(<<new, col>>, "backspace") = <<new, col - 1>>
    BY <1>2 DEF Written
  <2>4. col - 1 + 1 = col
    BY <1>2
  <2> QED
    <3>1. Written(<<shown, col - 1>>, "space") = <<new, col>>
      BY <1>4, <2>4
    <3>2. LET s == Written(Written(Written(<<shown, col>>, "backspace"), "space"), "backspace")
          IN  shown' = s[1] /\ col' = s[2] /\ newline' = newline
      BY <2>1, ShowsThree
    <3>3. Written(Written(Written(<<shown, col>>, "backspace"), "space"), "backspace") = <<new, col - 1>>
      BY <2>2, <2>3, <3>1
    <3> QED
      BY <3>2, <3>3
<1>6. /\ Len(new) = Len(shown)
      /\ \A k \in 1 .. Len(new) : new[k] = IF k = col THEN "space" ELSE shown[k]
  BY <1>2, <1>4
<1>7. /\ buffer' \in [0 .. (BUFFER_LEN - 1) -> Chars \cup {NUL}]
      /\ \A k \in 0 .. (i - 1) : buffer'[k] = buffer[k]
  BY <1>2, Types
<1>8. ScreenShowsToken'
  <2>1. col' = lead + i' /\ col' <= Len(shown') /\ shown' \in Seq(Chars) /\ i' \in Nat
    BY <1>1, <1>2, <1>4, <1>5, <1>6
  <2>2. ASSUME NEW k \in 1 .. Len(shown')
        PROVE  shown'[k] = IF lead < k /\ k <= lead + i' THEN buffer'[k - lead - 1] ELSE "space"
    <3>1. k \in 1 .. Len(shown) /\ k \in 1 .. Len(new) /\ shown'[k] = new[k]
      BY <1>5, <1>6
    <3>2. CASE k = col
      <4>1. ~(k <= lead + i')
        BY <1>1, <1>2, <3>2
      <4> QED
        BY <1>6, <3>1, <3>2, <4>1
    <3>3. CASE k # col
      <4>1. k <= lead + i' <=> k <= lead + i
        BY <1>1, <1>2, <3>1, <3>3
      <4>2. lead < k /\ k <= lead + i' => buffer'[k - lead - 1] = buffer[k - lead - 1]
        BY <1>2, <1>7, <3>1
      <4> QED
        BY <1>1, <1>6, <3>1, <3>3, <4>1, <4>2
    <3> QED
      BY <3>2, <3>3
  <2> QED
    BY <1>1, <1>5, <2>1, <2>2, ScreenThen
<1>9. \A k \in 0 .. (i' - 1) : buffer'[k] \in Printable
  BY <1>2, <1>7 DEF IInv
<1>10. TypeOK'
  <2>1. col' \in 0 .. Len(shown') /\ shown' \in Seq(Chars) /\ i' \in 0 .. (BUFFER_LEN - 1)
    BY <1>2, <1>5, <1>6
  <2>2. newline' \in BOOLEAN
    BY <1>5, Types
  <2> QED
    BY <1>7, <2>1, <2>2 DEF IInv, TypeOK, Stays
<1> QED
  BY <1>8, <1>9, <1>10 DEF IInv, Stays

\* A backspace before the first character.
LEMMA EmptyKeeps ==
  ASSUME IInv, pc # "store", i = 0, Stays, Shows(<<"backspace", "space">>),
         UNCHANGED <<buffer, i>>, key' \in Chars
  PROVE  IInv'
<1>1. PICK lead \in 0 .. 1 :
           /\ lead = 1 => newline
           /\ col = lead + i /\ col <= Len(shown)
           /\ \A k \in 1 .. Len(shown) :
                shown[k] = IF lead < k /\ k <= lead + i THEN buffer[k - lead - 1] ELSE "space"
  BY ScreenOf
<1>2. /\ col = lead /\ Len(shown) \in Nat
      /\ \A k \in 1 .. Len(shown) : shown[k] = "space"
  <2>1. col = lead
    BY <1>1
  <2>2. \A k \in 1 .. Len(shown) : ~(lead < k /\ k <= lead + i)
    OBVIOUS
  <2> QED
    BY <1>1, <2>1, <2>2, Types
<1>3. "space" \in Chars /\ "space" # "backspace"
  BY DEF Chars
<1>8. PICK new \in Seq(Chars) :
           /\ Written(<<shown, 0>>, "space") = <<new, 1>>
           /\ Len(new) = IF 0 = Len(shown) THEN 1 ELSE Len(shown)
           /\ \A k \in 1 .. Len(new) : new[k] = IF k = 1 THEN "space" ELSE shown[k]
  BY Types, BlankWritten
<1>4. \E blank \in 0 .. 1 :
        /\ blank = 1 => newline
        /\ col' = blank /\ newline' = newline /\ shown' \in Seq(Chars) /\ col' <= Len(shown')
        /\ \A k \in 1 .. Len(shown') : shown'[k] = "space"
  <2>1. CASE newline
    <3>1. Written(<<shown, col>>, "backspace") = <<shown, 0>>
      <4>1. (IF col = 0 /\ newline THEN 0 ELSE col - 1) = 0
        BY <1>2, <2>1
      <4>2. Written(<<shown, col>>, "backspace")
              = <<shown, IF col = 0 /\ newline THEN 0 ELSE col - 1>>
        BY DEF Written
      <4> QED
        BY <4>1, <4>2
    <3>3. shown' = new /\ col' = 1 /\ newline' = newline
      BY <3>1, <1>8, ShowsTwo
    <3>4. Len(new) \in Nat /\ 1 <= Len(new)
      BY <1>2, <1>8
    <3>5. \A k \in 1 .. Len(new) : new[k] = "space"
      BY <1>2, <1>8
    <3> QED
      BY <2>1, <3>3, <3>4, <3>5
  <2>2. CASE ~newline
    <3>1. col = 0
      BY <1>1, <1>2, <2>2
    <3>2. Written(<<shown, col>>, "backspace") = <<shown, -1>>
      BY <2>2, <3>1 DEF Written
    <3>3. Written(<<shown, -1>>, "space") = <<shown, 0>>
      BY <1>3 DEF Written
    <3>4. shown' = shown /\ col' = 0 /\ newline' = newline
      BY <3>2, <3>3, ShowsTwo, SMTT(30)
    <3> QED
      BY <1>2, <3>4, Types
  <2> QED
    BY <2>1, <2>2
<1>5. PICK blank \in 0 .. 1 :
        /\ blank = 1 => newline
        /\ col' = blank /\ newline' = newline /\ shown' \in Seq(Chars) /\ col' <= Len(shown')
        /\ \A k \in 1 .. Len(shown') : shown'[k] = "space"
  BY <1>4
<1>6. ScreenShowsToken'
  <2>1. i' = 0 /\ i' \in Nat /\ col' = blank + i' /\ (blank = 1 => newline')
    BY <1>5
  <2>2. \A k \in 1 .. Len(shown') : ~(blank < k /\ k <= blank + i')
    BY <2>1
  <2>3. \A k \in 1 .. Len(shown') :
          shown'[k] = IF blank < k /\ k <= blank + i' THEN buffer'[k - blank - 1] ELSE "space"
    BY <1>5, <2>2
  <2> QED
    BY <1>5, <2>1, <2>3, ScreenThen
<1>7. TypeOK'
  <2>1. col' \in 0 .. Len(shown') /\ newline' \in BOOLEAN
    BY <1>5, Types
  <2> QED
    BY <1>5, <2>1 DEF IInv, TypeOK, Stays
<1> QED
  BY <1>6, <1>7 DEF IInv, Stays
-----------------------------------------------------------------------------
(* main and store preserve it *)

Calls == {"input", "file address", "file length", "store", "jal", "lw", "lbu",
          "sw word", "sw address", "sb byte", "sb address", "led"}

\* The answers are written into the buffer.
LEMMA AnswerType ==
  ASSUME NEW x, NEW digits,
         NEW b \in [0 .. (BUFFER_LEN - 1) -> Chars \cup {NUL}]
  PROVE  to_ascii_hex(x, b, digits) \in [0 .. (BUFFER_LEN - 1) -> Chars \cup {NUL}]
BY DEF to_ascii_hex, Chars

LEMMA LoopEffect ==
  ASSUME NEW effect, Loop(effect)
  PROVE  pc' = "input" /\ bus' = effect /\ value' = 0 /\ length' = 0 /\ n' = 0
BY DEF Loop, Idle

LEMMA ReadsEffect ==
  ASSUME NEW next, Reads(next)
  PROVE  pc' = next /\ bus' = Nothing /\ length' = 0 /\ n' = 0
BY DEF Reads

\* The command whose name has been typed, and where its words are read.
LEMMA DispatchNames ==
  ASSUME NEW b, Dispatch(b)
  PROVE  /\ pc = "input" /\ buffer' = b
         /\ \/ /\ String(b) \notin {<<name>> : name \in M!Names}
               /\ Loop(<<"unrecognized", String(b)>>)
            \/ /\ value' = 0
               /\ \/ String(b) = <<"file">> /\ Reads("file address")
                  \/ String(b) = <<"jal">> /\ Reads("jal")
                  \/ String(b) = <<"lw">> /\ Reads("lw")
                  \/ String(b) = <<"lbu">> /\ Reads("lbu")
                  \/ String(b) = <<"sw">> /\ Reads("sw word")
                  \/ String(b) = <<"sb">> /\ Reads("sb byte")
                  \/ String(b) = <<"led">> /\ Reads("led")
<1> DEFINE first == [file |-> "file address", jal |-> "jal", lw |-> "lw", lbu |-> "lbu",
                     sw |-> "sw word", sb |-> "sb byte", led |-> "led"]
<1>1. DOMAIN first = M!Names
  BY DEF M!Names
<1>2. /\ first["file"] = "file address" /\ first["jal"] = "jal" /\ first["lw"] = "lw"
      /\ first["lbu"] = "lbu" /\ first["sw"] = "sw word" /\ first["sb"] = "sb byte"
      /\ first["led"] = "led"
  OBVIOUS
<1>3. /\ pc = "input" /\ buffer' = b
      /\ \/ \E name \in DOMAIN first :
              String(b) = <<name>> /\ Reads(first[name]) /\ value' = 0
         \/ /\ String(b) \notin {<<name>> : name \in DOMAIN first}
            /\ Loop(<<"unrecognized", String(b)>>)
  BY Zenon DEF Dispatch, Same
<1> HIDE DEF first
<1>4. CASE \E name \in DOMAIN first :
             String(b) = <<name>> /\ Reads(first[name]) /\ value' = 0
  <2>1. PICK name \in M!Names : String(b) = <<name>> /\ Reads(first[name]) /\ value' = 0
    BY <1>1, <1>4
  <2>2. \/ name = "file" \/ name = "jal" \/ name = "lw" \/ name = "lbu"
        \/ name = "sw" \/ name = "sb" \/ name = "led"
    BY <2>1 DEF M!Names
  <2> QED
    BY <1>2, <1>3, <2>1, <2>2, Zenon
<1> QED
  BY <1>1, <1>3, <1>4, Zenon

\* What main does with a word, as far as the invariant is concerned.
LEMMA ReturnEffect ==
  ASSUME IInv, pc # "store", NEW c, Return(Ended(i), c)
  PROVE  /\ pc' \in Calls /\ value' \in Word
         /\ buffer' \in [0 .. (BUFFER_LEN - 1) -> Chars \cup {NUL}]
         /\ pc' = "store" => length' \in Word \ {0} /\ n' = 0
         /\ pc' # "store" => length' = 0 /\ n' = 0
         /\ i' = 0 /\ chars' = chars /\ j' = j
         /\ shown' = <<>> /\ col' = 0 /\ newline' \in BOOLEAN
<1> DEFINE b == Ended(i)
<1>1. b \in [0 .. (BUFFER_LEN - 1) -> Chars \cup {NUL}] /\ Holds(b, Typed)
  BY EndedHolds
<1> HIDE DEF b
<1>2. ascii_hex_to_uint32(b) \in Word /\ ascii_hex_to_uint8(b) \in Word /\ ascii_dec_to_uint32(b) \in Word
  BY <1>1, ConversionsAgree
<1>3. /\ i' = 0 /\ chars' = chars /\ j' = j
      /\ shown' = <<>> /\ col' = 0 /\ newline' \in BOOLEAN
  BY DEF Return
<1> DEFINE Effect == /\ pc' \in Calls /\ value' \in Word
                     /\ buffer' \in [0 .. (BUFFER_LEN - 1) -> Chars \cup {NUL}]
                     /\ pc' = "store" => length' \in Word \ {0} /\ n' = 0
                     /\ pc' # "store" => length' = 0 /\ n' = 0
<1>4. ASSUME Dispatch(b) PROVE Effect
  <2>1. buffer' = b
    BY <1>4, DispatchNames
  <2>2. CASE Loop(<<"unrecognized", String(b)>>)
    <3>1. pc' = "input" /\ value' = 0 /\ length' = 0 /\ n' = 0
      BY <2>2, LoopEffect
    <3> QED
      BY <1>1, <2>1, <3>1, WordFacts DEF Calls
  <2>3. ASSUME NEW next \in Calls \ {"store"}, Reads(next), value' = 0 PROVE Effect
    <3>1. pc' = next /\ length' = 0 /\ n' = 0
      BY <2>3, ReadsEffect
    <3> QED
      BY <1>1, <2>1, <2>3, <3>1, WordFacts DEF Calls
  <2>4. \/ Loop(<<"unrecognized", String(b)>>)
        \/ /\ value' = 0
           /\ \/ Reads("file address") \/ Reads("jal") \/ Reads("lw") \/ Reads("lbu")
              \/ Reads("sw word") \/ Reads("sb byte") \/ Reads("led")
    BY <1>4, DispatchNames, Zenon
  <2>5. /\ "file address" \in Calls \ {"store"} /\ "jal" \in Calls \ {"store"}
        /\ "lw" \in Calls \ {"store"} /\ "lbu" \in Calls \ {"store"}
        /\ "sw word" \in Calls \ {"store"} /\ "sb byte" \in Calls \ {"store"}
        /\ "led" \in Calls \ {"store"}
    BY DEF Calls
  <2> HIDE DEF Effect
  <2> QED
    BY <2>2, <2>3, <2>4, <2>5, Zenon
<1> DEFINE Back == buffer' = b /\ \E effect : Loop(effect)
           More(next) == buffer' = b /\ Reads(next) /\ value' \in Word
<1>5. ASSUME Back PROVE Effect
  <2>1. pc' = "input" /\ value' = 0 /\ length' = 0 /\ n' = 0
    BY <1>5, LoopEffect
  <2> QED
    BY <1>1, <1>5, <2>1, WordFacts DEF Calls
<1>6. ASSUME NEW next \in {"file length", "sw address", "sb address"}, More(next) PROVE Effect
  <2>1. pc' = next /\ length' = 0 /\ n' = 0
    BY <1>6, ReadsEffect
  <2> QED
    BY <1>1, <1>6, <2>1 DEF Calls
<1>7. ASSUME FileLength(b) PROVE Effect
  <2>1. CASE ascii_dec_to_uint32(b) = 0
    <3>1. Back
      BY <1>7, <2>1 DEF FileLength, Same
    <3> QED
      BY <1>5, <3>1
  <2>2. CASE ascii_dec_to_uint32(b) # 0
    <3>1. /\ buffer' = b /\ pc' = "store" /\ length' = ascii_dec_to_uint32(b) /\ n' = 0
          /\ value' = value
      BY <1>7, <2>2 DEF FileLength, Same
    <3> QED
      BY <1>1, <1>2, <2>2, <3>1, Types DEF Calls
  <2> QED
    BY <2>1, <2>2
<1>8. ASSUME NEW name, NEW digits, Load(b, name, digits) PROVE Effect
  <2>1. PICK v \in Values :
          /\ Same(to_ascii_hex(v % Size[digits],
                               to_ascii_hex(ascii_hex_to_uint32(b), b, WordDigits), digits))
          /\ Loop(<<"load", digits, ascii_hex_to_uint32(b), v % Size[digits]>>)
    BY <1>8 DEF Load
  <2>2. buffer' \in [0 .. (BUFFER_LEN - 1) -> Chars \cup {NUL}]
    BY <1>1, <2>1, AnswerType DEF Same
  <2>3. pc' = "input" /\ value' = 0 /\ length' = 0 /\ n' = 0
    BY <2>1, LoopEffect
  <2> QED
    BY <2>2, <2>3, WordFacts DEF Calls
<1>9. FileAddress(b) => More("file length")
  BY <1>2 DEF FileAddress, Same
<1>10. Jal(b) \/ Led(b) => Back
  BY DEF Jal, Led, Same
<1>11. /\ StoreWord(b) => Back \/ More("sw address")
       /\ StoreByte(b) => Back \/ More("sb address")
  BY <1>2 DEF StoreWord, StoreByte, Same
<1>12. \/ Dispatch(b) \/ FileAddress(b) \/ FileLength(b) \/ Jal(b)
       \/ Load(b, "lw", WordDigits) \/ Load(b, "lbu", ByteDigits)
       \/ StoreWord(b) \/ StoreByte(b) \/ Led(b)
  BY DEF Return, b
<1>13. Effect
  <2> HIDE DEF Effect, Back, More
  <2> QED
    BY <1>4, <1>5, <1>6, <1>7, <1>8, <1>9, <1>10, <1>11, <1>12, Zenon
<1> QED
  BY <1>3, <1>13

LEMMA ReturnKeeps ==
  ASSUME IInv, pc # "store", NEW c, Return(Ended(i), c), key' \in Chars
  PROVE  IInv'
<1>1. /\ pc' \in Calls /\ value' \in Word
      /\ buffer' \in [0 .. (BUFFER_LEN - 1) -> Chars \cup {NUL}]
      /\ pc' = "store" => length' \in Word \ {0} /\ n' = 0
      /\ pc' # "store" => length' = 0 /\ n' = 0
      /\ i' = 0 /\ chars' = chars /\ j' = j
      /\ shown' = <<>> /\ col' = 0 /\ newline' \in BOOLEAN
  BY ReturnEffect
<1>2. j = 0
  BY DEF IInv
<1>3. TypeOK'
  <2>1. i' \in 0 .. (BUFFER_LEN - 1)
    BY <1>1, LengthFacts
  <2>2. shown' \in Seq(Chars) /\ col' \in 0 .. Len(shown')
    BY <1>1
  <2>3. length' \in Word /\ n' \in Nat /\ (n' = 0 \/ 4 * n' < length')
    BY <1>1, WordFacts
  <2>4. chars' \in [0 .. WordDigits -> Chars \cup {NUL}] /\ j' \in 0 .. (WordDigits - 1)
    BY <1>1, Types
  <2> QED
    BY <1>1, <2>1, <2>2, <2>3, <2>4 DEF TypeOK, Calls
<1>4. ScreenShowsToken'
  <2>1. Len(shown') = 0 /\ shown' \in Seq(Chars) /\ i' \in Nat /\ col' = 0 + i' /\ col' <= Len(shown')
    BY <1>1
  <2>2. 1 .. Len(shown') = {} /\ 0 \in 0 .. 1
    BY <2>1
  <2> QED
    BY <2>1, <2>2, ScreenThen
<1>5. pc' = "store" => 4 * n' < length'
  <2> SUFFICES ASSUME pc' = "store" PROVE 4 * n' < length'
    OBVIOUS
  <2>1. length' \in Nat \ {0} /\ n' = 0
    BY <1>1, WordFacts
  <2> QED
    BY <2>1
<1> QED
  BY <1>1, <1>2, <1>3, <1>4, <1>5 DEF IInv

LEMMA TransferKeeps ==
  ASSUME IInv, pc = "store", NEW c \in Chars, key' = c, read_n(c)
  PROVE  IInv'
<1>1. UNCHANGED <<buffer, i, shown, col, newline>> /\ i = 0 /\ 4 * n < length /\ shown = <<>> /\ col = 0
  BY DEF read_n, IInv
<1>2. ScreenShowsToken'
  <2>1. Len(shown') = 0 /\ shown' \in Seq(Chars) /\ i' \in Nat /\ col' = 0 + i' /\ col' <= Len(shown')
    BY <1>1
  <2>2. 1 .. Len(shown') = {} /\ 0 \in 0 .. 1
    BY <2>1
  <2> QED
    BY <2>1, <2>2, ScreenThen
<1>3. /\ buffer' \in [0 .. (BUFFER_LEN - 1) -> Chars \cup {NUL}] /\ i' \in 0 .. (BUFFER_LEN - 1)
      /\ shown' \in Seq(Chars) /\ col' \in 0 .. Len(shown') /\ newline' \in BOOLEAN
  BY <1>1, Types
<1>4. CASE j + 1 < WordDigits
  <2>1. chars' = [chars EXCEPT ![j] = c] /\ j' = j + 1 /\ UNCHANGED <<pc, value, length, n>>
    BY <1>4 DEF read_n
  <2>2. chars' \in [0 .. WordDigits -> Chars \cup {NUL}] /\ j' \in 0 .. (WordDigits - 1)
    BY <1>4, <2>1, Types, LengthFacts
  <2>3. \A k \in 0 .. (j' - 1) : chars'[k] \in Chars
    <3>1. \A k \in 0 .. (j - 1) : chars[k] \in Chars
      BY DEF IInv
    <3>2. \A k \in 0 .. WordDigits : chars'[k] = IF k = j THEN c ELSE chars[k]
      BY <2>1, Types
    <3>3. ASSUME NEW k \in 0 .. (j' - 1) PROVE chars'[k] \in Chars
      <4>1. k \in 0 .. WordDigits /\ (k = j \/ k \in 0 .. (j - 1))
        BY <1>4, <2>1, Types, LengthFacts
      <4> QED
        BY <3>1, <3>2, <4>1
    <3> QED
      BY <3>3
  <2>4. TypeOK'
    BY <1>3, <2>1, <2>2 DEF IInv, TypeOK
  <2> QED
    BY <1>1, <1>2, <2>1, <2>3, <2>4 DEF IInv
<1>5. CASE ~(j + 1 < WordDigits)
  <2>1. chars' = [k \in DOMAIN chars |-> NUL] /\ j' = 0
    BY <1>5 DEF read_n
  <2>2. \/ (n + 1) * 4 < length /\ n' = n + 1 /\ UNCHANGED <<pc, value, length>>
        \/ pc' = "input" /\ Idle
    BY <1>5 DEF read_n, Loop
  <2>3. chars' \in [0 .. WordDigits -> Chars \cup {NUL}] /\ j' \in 0 .. (WordDigits - 1)
    BY <2>1, Types, LengthFacts
  <2>4. CASE (n + 1) * 4 < length /\ n' = n + 1 /\ UNCHANGED <<pc, value, length>>
    <3>1. n' \in Nat /\ 4 * n' < length'
      BY <2>4, Types, WordFacts
    <3>2. TypeOK'
      BY <1>3, <2>3, <2>4, <3>1 DEF IInv, TypeOK
    <3> QED
      BY <1>1, <1>2, <2>1, <2>4, <3>1, <3>2 DEF IInv
  <2>5. CASE pc' = "input" /\ Idle
    <3>1. value' = 0 /\ length' = 0 /\ n' = 0
      BY <2>5 DEF Idle
    <3>2. TypeOK'
      BY <1>3, <2>3, <2>5, <3>1, WordFacts DEF TypeOK
    <3> QED
      BY <1>1, <1>2, <2>1, <2>5, <3>1, <3>2 DEF IInv
  <2> QED
    BY <2>2, <2>4, <2>5
<1> QED
  BY <1>4, <1>5
\* Every step of the program: the cases of Next.
LEMMA NextInv == IInv /\ [Next]_vars => IInv'
<1> SUFFICES ASSUME IInv, [Next]_vars PROVE IInv'
  OBVIOUS
<1>1. CASE Next
  <2>1. PICK c \in Chars : /\ key' = c
                           /\ \/ pc # "store" /\ read_token(c)
                              \/ pc = "store" /\ read_n(c)
    BY <1>1 DEF Next
  <2>2. CASE pc = "store" /\ read_n(c)
    BY <2>1, <2>2, TransferKeeps
  <2>3. CASE pc # "store" /\ c = "backspace" /\ Backspace
    <3>1. key' \in Chars
      BY <2>1
    <3>2. CASE i = 0
      BY <2>3, <3>1, <3>2, EmptyKeeps DEF Backspace
    <3>3. CASE i # 0
      BY <2>3, <3>1, <3>3, RuboutKeeps DEF Backspace
    <3> QED
      BY <3>2, <3>3
  <2>4. CASE pc # "store" /\ c \in ds /\ Return(Ended(i), c)
    BY <2>1, <2>4, ReturnKeeps
  <2>5. CASE pc # "store" /\ c \notin ds \cup {"backspace"} /\ Character(c)
    <3>1. CASE i + 1 < BUFFER_LEN
      <4>1. c \in Printable
        BY <2>5 DEF Printable, ds
      <4> QED
        BY <2>1, <2>5, <3>1, <4>1, CharacterKeeps DEF Character
    <3>2. CASE ~(i + 1 < BUFFER_LEN)
      <4>1. i = BUFFER_LEN - 1
        <5>1. i \in 0 .. (BUFFER_LEN - 1)
          BY Types
        <5> QED
          BY <3>2, <5>1, LengthFacts
      <4> QED
        BY <2>1, <2>5, <3>2, <4>1, ReturnKeeps DEF Character
    <3> QED
      BY <3>1, <3>2
  <2> QED
    BY <2>1, <2>2, <2>3, <2>4, <2>5 DEF read_token
<1>2. CASE UNCHANGED vars
  <2>1. Typed' = Typed
    BY <1>2 DEF vars, Typed
  <2> QED
    BY <1>2, <2>1 DEF IInv, TypeOK, ScreenShowsToken, vars
<1> QED
  BY <1>1, <1>2

\* read_token and store keep their indices inside the buffers, and the screen
\* and the buffer agree, whatever is typed.
THEOREM BiosInvariant == Spec => []IInv
BY InitInv, NextInv, PTL DEF Spec

\* The type invariant: no index leaves its buffer, a transfer its file, a number its type.
THEOREM BiosTypeOK == Spec => []TypeOK
<1>1. IInv => TypeOK
  BY DEF IInv
<1> QED
  BY <1>1, BiosInvariant, PTL

\* What the terminal shows of the word being typed is what read_token has of it.
THEOREM ScreenIsBuffer == Spec => []ScreenShowsToken
<1>1. IInv => ScreenShowsToken
  BY DEF IInv
<1> QED
  BY <1>1, BiosInvariant, PTL
-----------------------------------------------------------------------------
(* What the BIOS promises *)

LEMMA SameNames ==
  /\ M!Chars = Chars /\ M!Delimiters = ds /\ M!Nothing = Nothing /\ M!Idle = "idle"
  /\ M!Size = Size /\ Size[WordDigits] \in Nat
<1>1. DOMAIN M!Digit = {"0", "1"}
  BY DEF M!Digit
<1>2. M!Chars = Chars
  BY <1>1 DEF M!Chars, M!Names, M!Delimiters, Chars
<1>3. M!Delimiters = ds /\ M!Nothing = Nothing /\ M!Idle = "idle"
  BY DEF M!Delimiters, ds, M!Nothing, Nothing, M!Idle
<1>4. M!Size = Size
  BY DEF M!Size, Size
<1> QED
  BY <1>2, <1>3, <1>4, SizeType, DigitsAssumption

LEMMA AppendToEmpty == Len(<<>>) = 0 /\ \A v : Append(<<>>, v) = <<v>> /\ Len(<<v>>) = 1
OBVIOUS

\* Where the program is, as the monitor has it.
LEMMA TransferringIsStore == M!Transferring <=> pc = "store"
<1>1. CASE pc = "store"
  BY <1>1 DEF M!Transferring, Command, Args
<1>2. CASE pc \in {"file length", "sw address", "sb address"}
  <2>1. Args = <<value>>
    BY <1>2 DEF Args
  <2>2. Len(Args) = 1
    BY <2>1, AppendToEmpty
  <2>3. Len(Args) # 3
    BY <2>2
  <2>4. pc # "store"
    BY <1>2
  <2> QED
    BY <2>3, <2>4 DEF M!Transferring
<1>3. CASE pc \notin {"store", "file length", "sw address", "sb address"}
  <2>1. Args = <<>>
    BY <1>3 DEF Args
  <2>2. Len(Args) = 0
    BY <2>1, AppendToEmpty
  <2>3. Len(Args) # 3
    BY <2>2
  <2>4. pc # "store"
    BY <1>3
  <2> QED
    BY <2>3, <2>4 DEF M!Transferring
<1> QED
  BY <1>1, <1>2, <1>3

LEMMA EmptyTyped ==
  /\ i' = 0 => Typed' = <<>>
  /\ j' = 0 => [k \in 1 .. j' |-> chars'[k - 1]] = <<>>
BY DEF Typed

\* Back in the loop, and at the next word of the command.
LEMMA LoopDone ==
  ASSUME NEW effect, Loop(effect)
  PROVE  M!Done(effect)
<1>1. pc' = "input" /\ bus' = effect
  BY LoopEffect
<1> QED
  BY <1>1 DEF M!Done, M!Idle, Command, Args

LEMMA ReadsMore ==
  ASSUME NEW v, value' = v, Args = <<>>,
         \/ pc = "file address" /\ Reads("file length")
         \/ pc = "sw word" /\ Reads("sw address")
         \/ pc = "sb byte" /\ Reads("sb address")
  PROVE  M!More(v)
<1>1. Command' = Command /\ Args' = <<v>> /\ bus' = Nothing
  BY ReadsEffect DEF Command, Args, Reads
<1>2. Append(Args, v) = <<v>>
  BY AppendToEmpty
<1> QED
  BY <1>1, <1>2, SameNames DEF M!More

\* A word that read_token returns is entered.
LEMMA WordIsEntered ==
  ASSUME IInv, pc # "store", NEW c, Return(Ended(i), c)
  PROVE  M!Enter(Typed) /\ Text' = <<>>
<1> DEFINE b == Ended(i)
<1>1. Holds(b, Typed) /\ String(b) = Typed
  BY EndedHolds
<1>2. /\ ascii_hex_to_uint32(b) = M!Hex(Typed)
      /\ ascii_hex_to_uint8(b) = M!HexByte(Typed)
      /\ ascii_dec_to_uint32(b) = M!Dec(Typed)
  BY <1>1, ConversionsAgree
<1>3. Text' = <<>>
  <2>1. i' = 0 /\ j' = 0
    <3>1. j = 0
      BY DEF IInv
    <3> QED
      BY <3>1, ReturnEffect
  <2> QED
    BY <2>1, EmptyTyped DEF Text
<1> HIDE DEF b
<1>4. ASSUME Dispatch(b) PROVE M!Enter(Typed)
  <2>1. /\ pc = "input"
        /\ \/ /\ Typed \notin {<<name>> : name \in M!Names}
              /\ Loop(<<"unrecognized", Typed>>)
           \/ \/ Typed = <<"file">> /\ Reads("file address")
              \/ Typed = <<"jal">> /\ Reads("jal")
              \/ Typed = <<"lw">> /\ Reads("lw")
              \/ Typed = <<"lbu">> /\ Reads("lbu")
              \/ Typed = <<"sw">> /\ Reads("sw word")
              \/ Typed = <<"sb">> /\ Reads("sb byte")
              \/ Typed = <<"led">> /\ Reads("led")
    BY <1>1, <1>4, DispatchNames, Zenon
  <2>2. Command = M!Idle
    BY <2>1 DEF Command, M!Idle
  <2>3. CASE Typed \notin {<<name>> : name \in M!Names} /\ Loop(<<"unrecognized", Typed>>)
    BY <2>2, <2>3, LoopDone DEF M!Enter
  <2>4. ASSUME NEW name \in M!Names, Typed = <<name>>, NEW next, Reads(next),
               next \in {"file address", "jal", "lw", "lbu", "sw word", "sb byte", "led"},
               name = (IF next = "file address" THEN "file" ELSE IF next = "sw word" THEN "sw"
                       ELSE IF next = "sb byte" THEN "sb" ELSE next)
        PROVE  M!Enter(Typed)
    <3>1. pc' = next /\ bus' = Nothing
      BY <2>4, ReadsEffect
    <3>2. Command' = name /\ Args' = <<>>
      BY <2>4, <3>1 DEF Command, Args
    <3>3. Typed \in {<<nm>> : nm \in M!Names} /\ Typed[1] = name
      BY <2>4
    <3> QED
      BY <2>2, <3>1, <3>2, <3>3, SameNames DEF M!Enter
  <2>5. {"file", "jal", "lw", "lbu", "sw", "sb", "led"} = M!Names
    BY DEF M!Names
  <2> QED
    BY <2>1, <2>3, <2>4, <2>5
<1>5. ASSUME FileAddress(b) PROVE M!Enter(Typed)
  <2>1. pc = "file address" /\ Reads("file length") /\ value' = M!Hex(Typed)
    BY <1>2, <1>5 DEF FileAddress
  <2>2. Command = "file" /\ Args = <<>>
    BY <2>1 DEF Command, Args
  <2> QED
    BY <2>1, <2>2, ReadsMore DEF M!Enter
<1>6. ASSUME FileLength(b) PROVE M!Enter(Typed)
  <2>1. pc = "file length" /\ Command = "file" /\ Args = <<value>> /\ Args # <<>> /\ Args[1] = value
    BY <1>6 DEF FileLength, Command, Args
  <2>2. CASE M!Dec(Typed) = 0
    <3>1. M!Done(M!Nothing)
      BY <1>2, <1>6, <2>2, LoopDone, SameNames DEF FileLength
    <3> QED
      BY <2>1, <2>2, <3>1 DEF M!Enter
  <2>3. CASE M!Dec(Typed) # 0
    <3>1. pc' = "store" /\ bus' = Nothing /\ length' = M!Dec(Typed) /\ n' = 0 /\ value' = value
      BY <1>2, <1>6, <2>3 DEF FileLength
    <3>2. Command' = Command /\ Args' = <<Args[1], M!Dec(Typed), 0>>
      BY <2>1, <3>1 DEF Command, Args
    <3> QED
      BY <2>1, <2>3, <3>1, <3>2, SameNames DEF M!Enter
  <2> QED
    BY <2>2, <2>3
<1>7. ASSUME Jal(b) PROVE M!Enter(Typed)
  <2>1. Command = "jal" /\ M!Done(<<"call", M!Hex(Typed)>>)
    BY <1>2, <1>7, LoopDone DEF Jal, Command
  <2> QED
    BY <2>1 DEF M!Enter
<1>8. ASSUME Load(b, "lw", WordDigits) PROVE M!Enter(Typed)
  <2>1. PICK v \in Values : Loop(<<"load", WordDigits, M!Hex(Typed), v % Size[WordDigits]>>)
    BY <1>2, <1>8 DEF Load
  <2>2. v % Size[WordDigits] = v
    BY ValuesAssumption, WordFacts DEF Word
  <2>3. Command = "lw" /\ M!Done(<<"load", WordDigits, M!Hex(Typed), v>>)
    BY <1>8, <2>1, <2>2, LoopDone DEF Load, Command
  <2> QED
    BY <2>3 DEF M!Enter
<1>9. ASSUME Load(b, "lbu", ByteDigits) PROVE M!Enter(Typed)
  <2>1. PICK v \in Values : Loop(<<"load", ByteDigits, M!Hex(Typed), v % Size[ByteDigits]>>)
    BY <1>2, <1>9 DEF Load
  <2>2. Command = "lbu" /\ M!Done(<<"load", ByteDigits, M!Hex(Typed), v % M!Size[ByteDigits]>>)
    BY <1>9, <2>1, LoopDone, SameNames DEF Load, Command
  <2> QED
    BY <2>2 DEF M!Enter
<1>10. ASSUME StoreWord(b) PROVE M!Enter(Typed)
  <2>1. CASE pc = "sw word" /\ Reads("sw address") /\ value' = M!Hex(Typed)
    <3>1. Command = "sw" /\ Args = <<>>
      BY <2>1 DEF Command, Args
    <3> QED
      BY <2>1, <3>1, ReadsMore DEF M!Enter
  <2>2. CASE pc = "sw address" /\ Loop(<<"store", WordDigits, M!Hex(Typed), value>>)
    <3>1. Command = "sw" /\ Args # <<>> /\ Args[1] = value
      BY <2>2 DEF Command, Args
    <3> QED
      BY <2>2, <3>1, LoopDone DEF M!Enter
  <2> QED
    BY <1>2, <1>10, <2>1, <2>2 DEF StoreWord
<1>11. ASSUME StoreByte(b) PROVE M!Enter(Typed)
  <2>1. CASE pc = "sb byte" /\ Reads("sb address") /\ value' = M!HexByte(Typed)
    <3>1. Command = "sb" /\ Args = <<>>
      BY <2>1 DEF Command, Args
    <3> QED
      BY <2>1, <3>1, ReadsMore DEF M!Enter
  <2>2. CASE pc = "sb address" /\ Loop(<<"store", ByteDigits, M!Hex(Typed), value>>)
    <3>1. Command = "sb" /\ Args # <<>> /\ Args[1] = value
      BY <2>2 DEF Command, Args
    <3> QED
      BY <2>2, <3>1, LoopDone DEF M!Enter
  <2> QED
    BY <1>2, <1>11, <2>1, <2>2 DEF StoreByte
<1>12. ASSUME Led(b) PROVE M!Enter(Typed)
  <2>1. Command = "led" /\ M!Done(<<"led", M!Hex(Typed)>>)
    BY <1>2, <1>12, LoopDone DEF Led, Command
  <2> QED
    BY <2>1 DEF M!Enter
<1>13. \/ Dispatch(b) \/ FileAddress(b) \/ FileLength(b) \/ Jal(b)
       \/ Load(b, "lw", WordDigits) \/ Load(b, "lbu", ByteDigits)
       \/ StoreWord(b) \/ StoreByte(b) \/ Led(b)
  BY DEF Return, b
<1> QED
  BY <1>3, <1>4, <1>5, <1>6, <1>7, <1>8, <1>9, <1>10, <1>11, <1>12, <1>13
\* Editing a word.
LEMMA EditingIsEdit ==
  ASSUME IInv, pc # "store", NEW c \in Chars, read_token(c)
  PROVE  M!Edit(c)
<1>1. /\ Text = Typed /\ Typed \in Seq(Chars) /\ Len(Typed) = i /\ i \in Nat
      /\ \A k \in 1 .. i : Typed[k] = buffer[k - 1]
  BY TypedIsSeq, Types DEF Text
<1>2. ASSUME Stays PROVE bus' = M!Nothing /\ UNCHANGED <<Command, Args>> /\ Text' = Typed'
  BY <1>2, SameNames DEF Stays, Command, Args, Text
<1>3. CASE c = "backspace" /\ Backspace
  <2>1. Stays
    BY <1>3 DEF Backspace
  <2>2. Typed' = SubSeq(Typed, 1, Len(Typed) - 1)
    <3>1. CASE i = 0
      <4>1. i' = 0 /\ Typed' = <<>>
        BY <1>3, <3>1, EmptyTyped DEF Backspace
      <4>2. SubSeq(Typed, 1, Len(Typed) - 1) = <<>>
        BY <1>1, <3>1, SubSeqEmpty
      <4> QED
        BY <4>1, <4>2
    <3>2. CASE i # 0
      <4>1. buffer' = [buffer EXCEPT ![i] = NUL] /\ i' = i - 1
        BY <1>3, <3>2 DEF Backspace
      <4> DEFINE short == SubSeq(Typed, 1, i - 1)
      <4>2. short \in Seq(Chars) /\ Len(short) = i - 1 /\ \A k \in 1 .. (i - 1) : short[k] = Typed[k]
        <5>1. \A k \in 1 .. (i - 1) : Typed[k] \in Chars
          BY <1>1
        <5> QED
          BY <1>1, <3>2, <5>1, SubSeqProperties
      <4> HIDE DEF short
      <4>3. ASSUME NEW k \in 1 .. (i - 1) PROVE buffer'[k - 1] = short[k]
        <5>1. i \in 0 .. (BUFFER_LEN - 1) /\ buffer \in [0 .. (BUFFER_LEN - 1) -> Chars \cup {NUL}]
          BY Types
        <5>2. k \in 1 .. i /\ k - 1 \in 0 .. (BUFFER_LEN - 1) /\ k - 1 # i
          BY <5>1, LengthFacts
        <5> QED
          BY <1>1, <4>1, <4>2, <5>1, <5>2
      <4>4. Typed' = [k \in 1 .. (i - 1) |-> buffer'[k - 1]]
        BY <4>1 DEF Typed
      <4>5. short = [k \in 1 .. (i - 1) |-> short[k]]
        BY <4>2
      <4>6. Typed' = short
        BY <4>3, <4>4, <4>5
      <4> QED
        BY <1>1, <4>6 DEF short
    <3> QED
      BY <3>1, <3>2
  <2> QED
    BY <1>1, <1>2, <1>3, <2>1, <2>2 DEF M!Edit
<1>4. CASE c \in ds /\ Return(Ended(i), c)
  <2>1. M!Enter(Text) /\ Text' = <<>>
    BY <1>1, <1>4, WordIsEntered
  <2> QED
    BY <1>4, <2>1, SameNames DEF M!Edit
<1>5. CASE c \notin ds \cup {"backspace"} /\ Character(c)
  <2>1. CASE i + 1 < BUFFER_LEN
    <3>1. Stays /\ buffer' = [buffer EXCEPT ![i] = c] /\ i' = i + 1
      BY <1>5, <2>1 DEF Character
    <3> DEFINE long == Append(Typed, c)
    <3>2. long \in Seq(Chars) /\ Len(long) = i + 1 /\ \A k \in 1 .. i : long[k] = Typed[k]
      BY <1>1, AppendProperties
    <3>3. long[i + 1] = c
      BY <1>1, AppendProperties
    <3> HIDE DEF long
    <3>4. \A k \in 0 .. (BUFFER_LEN - 1) : buffer'[k] = IF k = i THEN c ELSE buffer[k]
      BY <3>1, Types
    <3>5. ASSUME NEW k \in 1 .. (i + 1) PROVE buffer'[k - 1] = long[k]
      <4>1. CASE k = i + 1
        <5>1. k - 1 = i /\ i \in 0 .. (BUFFER_LEN - 1)
          BY <4>1, Types
        <5> QED
          BY <3>3, <3>4, <4>1, <5>1
      <4>2. CASE k # i + 1
        <5>1. i \in 0 .. (BUFFER_LEN - 1)
          BY Types
        <5>2. k \in 1 .. i /\ k - 1 \in 0 .. (BUFFER_LEN - 1) /\ k - 1 # i
          BY <4>2, <5>1, LengthFacts
        <5> QED
          BY <1>1, <3>2, <3>4, <5>2
      <4> QED
        BY <4>1, <4>2
    <3>6. Typed' = [k \in 1 .. (i + 1) |-> buffer'[k - 1]]
      BY <3>1 DEF Typed
    <3>7. long = [k \in 1 .. (i + 1) |-> long[k]]
      BY <3>2
    <3>8. Typed' = Append(Typed, c)
      BY <3>5, <3>6, <3>7 DEF long
    <3> QED
      BY <1>1, <1>2, <1>5, <2>1, <3>1, <3>8, SameNames DEF M!Edit
  <2>2. CASE ~(i + 1 < BUFFER_LEN)
    <3>1. i = BUFFER_LEN - 1
      <4>1. i \in 0 .. (BUFFER_LEN - 1)
        BY Types
      <4> QED
        BY <2>2, <4>1, LengthFacts
    <3>2. M!Enter(Text) /\ Text' = <<>>
      BY <1>1, <1>5, <2>2, <3>1, WordIsEntered DEF Character
    <3> QED
      BY <1>1, <1>5, <2>2, <3>2, SameNames DEF M!Edit
  <2> QED
    BY <2>1, <2>2
<1> QED
  BY <1>3, <1>4, <1>5 DEF read_token

\* Storing a file.
LEMMA StoringIsTransfer ==
  ASSUME IInv, pc = "store", NEW c \in Chars, read_n(c)
  PROVE  M!Transfer(c)
<1> DEFINE w == Append(Text, c)
<1>1. /\ Text \in Seq(Chars) /\ Len(Text) = j /\ j \in Nat
      /\ \A k \in 1 .. j : Text[k] = chars[k - 1]
  <2>1. Text = [k \in 1 .. j |-> chars[k - 1]]
    BY DEF Text
  <2>2. \A k \in 1 .. j : chars[k - 1] \in Chars
    <3>1. \A k \in 0 .. (j - 1) : chars[k] \in Chars
      BY DEF IInv
    <3> QED
      BY <3>1, Types
  <2>3. Text \in [1 .. j -> Chars]
    BY <2>1, <2>2
  <2>4. j \in Nat
    BY Types
  <2> QED
    BY <2>1, <2>3, <2>4, FunctionIsSeq
<1>2. /\ w \in Seq(Chars) /\ Len(w) = j + 1 /\ w[j + 1] = c
      /\ \A k \in 1 .. j : w[k] = chars[k - 1]
  BY <1>1, AppendProperties
<1>3. Args = <<value, length, n>> /\ Args[1] = value /\ Args[2] = length /\ Args[3] = n /\ Command = "file"
  BY DEF Args, Command
<1> HIDE DEF w
<1>4. CASE j + 1 < WordDigits
  <2>1. /\ chars' = [chars EXCEPT ![j] = c] /\ j' = j + 1
        /\ bus' = Nothing /\ UNCHANGED <<pc, value, length, n>>
    BY <1>4 DEF read_n
  <2>2. \A k \in 0 .. WordDigits : chars'[k] = IF k = j THEN c ELSE chars[k]
    BY <2>1, Types
  <2>3. ASSUME NEW k \in 1 .. (j + 1) PROVE chars'[k - 1] = w[k]
    <3>1. j \in 0 .. (WordDigits - 1)
      BY Types
    <3>2. k - 1 \in 0 .. WordDigits /\ (k = j + 1 => k - 1 = j)
          /\ (k # j + 1 => k \in 1 .. j /\ k - 1 # j)
      BY <3>1, LengthFacts
    <3>3. CASE k = j + 1
      BY <1>2, <2>2, <3>2, <3>3
    <3>4. CASE k # j + 1
      BY <1>2, <2>2, <3>2, <3>4
    <3> QED
      BY <3>3, <3>4
  <2>4. Text' = [k \in 1 .. (j + 1) |-> chars'[k - 1]]
    BY <2>1 DEF Text
  <2>5. w = [k \in 1 .. (j + 1) |-> w[k]]
    BY <1>2
  <2>6. Text' = w
    BY <2>3, <2>4, <2>5
  <2>7. UNCHANGED <<Command, Args>>
    BY <2>1 DEF Command, Args
  <2> QED
    BY <1>2, <1>4, <2>1, <2>6, <2>7, SameNames DEF M!Transfer, w
<1>5. CASE ~(j + 1 < WordDigits)
  <2> DEFINE word == [chars EXCEPT ![j] = c, ![WordDigits] = NUL]
             effect == <<"store", WordDigits, (value + n * 4) % Size[WordDigits],
                         ascii_hex_to_uint32(word)>>
  <2>1. j + 1 = WordDigits
    BY <1>5, Types, LengthFacts
  <2>2. ascii_hex_to_uint32(word) = M!Hex(w)
    <3>1. \A k \in 0 .. WordDigits :
            word[k] = IF k = WordDigits THEN NUL ELSE IF k = j THEN c ELSE chars[k]
      BY <2>1, Types
    <3> HIDE DEF word
    <3>2. word[Len(w)] = NUL
      BY <1>2, <2>1, <3>1, LengthFacts
    <3>3. ASSUME NEW l \in 0 .. (Len(w) - 1) PROVE word[l] = w[l + 1]
      <4>1. l \in 0 .. WordDigits /\ l # WordDigits /\ l + 1 \in 1 .. (j + 1) /\ l + 1 - 1 = l
        BY <1>2, <2>1, Types
      <4>2. CASE l = j
        BY <1>2, <3>1, <4>1, <4>2
      <4>3. CASE l # j
        <5>1. l + 1 \in 1 .. j
          BY <4>1, <4>3, Types
        <5> QED
          BY <1>2, <3>1, <4>1, <4>3, <5>1
      <4> QED
        BY <4>2, <4>3
    <3>4. Holds(word, w)
      BY <1>2, <3>2, <3>3 DEF Holds
    <3> QED
      BY <3>4, ConversionsAgree
  <2>3. effect = <<"store", WordDigits, (Args[1] + 4 * Args[3]) % M!Size[WordDigits], M!Hex(w)>>
    <3>1. value + n * 4 = Args[1] + 4 * Args[3]
      BY <1>3, Types, WordFacts
    <3> QED
      BY <2>2, <3>1, SameNames
  <2>4. j' = 0
    BY <1>5 DEF read_n
  <2>5. Text' = <<>>
    <3>1. i' = 0
      BY DEF read_n, IInv
    <3> QED
      BY <2>4, <3>1, EmptyTyped DEF Text
  <2>6. (n + 1) * 4 < length <=> n + 1 # M!WordsOf(length)
    <3>1. n \in Nat /\ length \in Nat /\ 4 * n < length
      BY Types, WordFacts DEF IInv
    <3> QED
      BY <3>1 DEF M!WordsOf
  <2>7. CASE (n + 1) * 4 < length
    <3>1. n' = n + 1 /\ bus' = effect /\ UNCHANGED <<pc, value, length>>
      BY <1>5, <2>7, Zenon DEF read_n
    <3>2. Command' = Command /\ Args' = <<value, length, n + 1>>
      BY <3>1 DEF Command, Args
    <3>3. <<value, length, n + 1>> = [Args EXCEPT ![3] = @ + 1]
      BY <1>3
    <3> HIDE DEF effect
    <3> QED
      BY <1>2, <1>3, <1>5, <2>3, <2>5, <2>6, <2>7, <3>1, <3>2, <3>3 DEF M!Transfer, w
  <2>8. CASE ~((n + 1) * 4 < length)
    <3>1. Loop(effect)
      BY <1>5, <2>8, Zenon DEF read_n
    <3>2. M!Done(effect)
      BY <3>1, LoopDone
    <3> HIDE DEF effect
    <3> QED
      BY <1>2, <1>3, <1>5, <2>3, <2>5, <2>6, <2>8, <3>2 DEF M!Transfer, w
  <2> QED
    BY <2>7, <2>8
<1> QED
  BY <1>4, <1>5

LEMMA MonitorInit == Init => M!Init
<1> SUFFICES ASSUME Init PROVE M!Init
  OBVIOUS
<1>1. i = 0 /\ pc = "input" /\ key = NUL /\ bus = Nothing
  BY DEF Init
<1>2. Text = <<>> /\ Command = "idle" /\ Args = <<>>
  BY <1>1 DEF Text, Typed, Command, Args
<1> QED
  BY <1>1, <1>2, SameNames DEF M!Init, NUL

LEMMA MonitorStep ==
  IInv /\ [Next]_vars => [M!Next]_<<Text, Command, Args, key, bus>>
<1> SUFFICES ASSUME IInv, [Next]_vars PROVE [M!Next]_<<Text, Command, Args, key, bus>>
  OBVIOUS
<1>1. CASE Next
  <2>1. PICK c \in Chars : /\ key' = c
                           /\ \/ pc # "store" /\ read_token(c)
                              \/ pc = "store" /\ read_n(c)
    BY <1>1 DEF Next
  <2>2. M!Transferring => M!Transfer(c)
    BY <2>1, TransferringIsStore, StoringIsTransfer
  <2>3. ~M!Transferring => M!Edit(c)
    BY <2>1, TransferringIsStore, EditingIsEdit
  <2> QED
    BY <2>1, <2>2, <2>3, SameNames DEF M!Next
<1>2. CASE UNCHANGED vars
  BY <1>2 DEF vars, Text, Typed, Command, Args
<1> QED
  BY <1>1, <1>2

\* Through the shared buffer, the NULs and C's types, commands are carried out
\* as typed, each once, and a file is stored whole: main, read_token, store and
\* the conversions implement the monitor.
THEOREM BiosImplementsMonitor == Spec => ImplementsMonitor
<1>1. Init => M!Init
  BY MonitorInit
<1>2. IInv /\ [Next]_vars => [M!Next]_<<Text, Command, Args, key, bus>>
  BY MonitorStep
<1> QED
  BY <1>1, <1>2, BiosInvariant, PTL DEF Spec, ImplementsMonitor, M!Spec
=============================================================================
