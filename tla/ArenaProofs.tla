---------------------------- MODULE ArenaProofs ----------------------------
(***************************************************************************)
(* Proofs about Arena for every value of its constants: its types, that     *)
(* every block is in one place, and that the arena never hands a byte out   *)
(* twice and every open scope stays restorable.  The last two hold only     *)
(* together: what a rewind keeps lies below the mark of its scope because   *)
(* the handlers keep every older region below that mark and every newer one *)
(* above it.                                                                *)
(***************************************************************************)
EXTENDS Arena, FiniteSetTheorems, SequenceTheorems, TLAPS

-----------------------------------------------------------------------------
(* Arithmetic *)

\* Division with remainder, by a divisor that is not a literal.
LEMMA DivMod ==
  ASSUME NEW m \in Int, NEW n \in Nat \ {0}
  PROVE  m = n * (m \div n) + (m % n) /\ m \div n \in Int
OBVIOUS

LEMMA MultipleMod ==
  ASSUME NEW m \in Int, NEW n \in Nat \ {0}
  PROVE  (n * m) % n = 0
OBVIOUS

\* The padding is less than the alignment and makes the address aligned.
LEMMA PadAligns ==
  ASSUME NEW m \in Int, NEW n \in Nat \ {0}
  PROVE  /\ (-m) % n \in 0..(n - 1)
         /\ (m + ((-m) % n)) % n = 0
<1> DEFINE q == (-m) \div n
<1>1. -m = n * q + ((-m) % n) /\ q \in Int
  BY DivMod
<1>2. m + ((-m) % n) = n * (-q)
  BY <1>1
<1>3. (n * (-q)) % n = 0
  BY <1>1, MultipleMod
<1>4. (-m) % n \in 0..(n - 1)
  OBVIOUS
<1> QED
  BY <1>2, <1>3, <1>4

-----------------------------------------------------------------------------
(* Sequences *)

LEMMA RangeAppend ==
  ASSUME NEW S, NEW s \in Seq(S), NEW e \in S
  PROVE  Range(Append(s, e)) = Range(s) \cup {e}
<1>1. \A y \in Range(s) : y \in Range(Append(s, e))
  BY DEF Range
<1>2. e \in Range(Append(s, e))
  <2>1. Len(s) + 1 \in DOMAIN Append(s, e) /\ Append(s, e)[Len(s) + 1] = e
    OBVIOUS
  <2> QED
    BY <2>1 DEF Range
<1>3. \A y \in Range(Append(s, e)) : y \in Range(s) \/ y = e
  BY DEF Range
<1> QED
  BY <1>1, <1>2, <1>3

LEMMA InjectiveAppend ==
  ASSUME NEW S, NEW s \in Seq(S), NEW e \in S, IsInjective(s), e \notin Range(s)
  PROVE  IsInjective(Append(s, e))
BY DEF IsInjective, Range

LEMMA RemoveAtProperties ==
  ASSUME NEW S, NEW s \in Seq(S), NEW i \in 1..Len(s)
  PROVE  /\ RemoveAt(s, i) \in Seq(S)
         /\ Len(RemoveAt(s, i)) = Len(s) - 1
         /\ \A j \in 1..(Len(s) - 1) : RemoveAt(s, i)[j] = IF j < i THEN s[j] ELSE s[j + 1]
<1> DEFINE a == SubSeq(s, 1, i - 1)
           b == SubSeq(s, i + 1, Len(s))
<1>1. /\ a \in Seq(S) /\ Len(a) = i - 1
      /\ \A j \in 1..(i - 1) : a[j] = s[j]
  OBVIOUS
<1>2. /\ b \in Seq(S) /\ Len(b) = Len(s) - i
      /\ \A j \in 1..(Len(s) - i) : b[j] = s[j + i]
  OBVIOUS
<1>3. RemoveAt(s, i) = a \o b
  BY DEF RemoveAt
<1> HIDE DEF a, b
<1>4. /\ a \o b \in Seq(S)
      /\ Len(a \o b) = Len(a) + Len(b)
      /\ \A j \in 1..(Len(a) + Len(b)) :
           (a \o b)[j] = IF j <= Len(a) THEN a[j] ELSE b[j - Len(a)]
  BY <1>1, <1>2, ConcatProperties
<1> QED
  BY <1>1, <1>2, <1>3, <1>4

LEMMA RemoveAtInjective ==
  ASSUME NEW S, NEW s \in Seq(S), NEW i \in 1..Len(s), IsInjective(s)
  PROVE  /\ IsInjective(RemoveAt(s, i))
         /\ Range(RemoveAt(s, i)) = Range(s) \ {s[i]}
<1> DEFINE r == RemoveAt(s, i)
<1>1. /\ r \in Seq(S) /\ Len(r) = Len(s) - 1
      /\ \A j \in 1..(Len(s) - 1) : r[j] = IF j < i THEN s[j] ELSE s[j + 1]
  BY RemoveAtProperties
<1> HIDE DEF r
<1>2. IsInjective(r)
  <2>1. SUFFICES ASSUME NEW j \in 1..(Len(s) - 1), NEW k \in 1..(Len(s) - 1), r[j] = r[k]
                 PROVE  j = k
    BY <1>1 DEF IsInjective
  <2> DEFINE up(n) == IF n < i THEN n ELSE n + 1
  <2>2. /\ up(j) \in 1..Len(s) /\ up(k) \in 1..Len(s)
        /\ s[up(j)] = s[up(k)]
    BY <1>1, <2>1
  <2>3. up(j) = up(k)
    <3> HIDE DEF up
    <3> QED
      BY <2>2 DEF IsInjective
  <2> QED
    BY <2>3
<1>3. ASSUME NEW y \in Range(r)
      PROVE  y \in Range(s) \ {s[i]}
  <2>1. PICK j \in 1..(Len(s) - 1) : r[j] = y
    BY <1>1, SMTT(30) DEF Range
  <2>2. PICK p \in 1..Len(s) : p # i /\ s[p] = y
    <3>1. CASE j < i
      BY <1>1, <2>1, <3>1
    <3>2. CASE ~(j < i)
      BY <1>1, <2>1, <3>2
    <3> QED
      BY <3>1, <3>2
  <2>3. s[p] # s[i]
    BY <2>2 DEF IsInjective
  <2>4. y \in Range(s)
    BY <2>2 DEF Range
  <2> QED
    BY <2>2, <2>3, <2>4
<1>4. ASSUME NEW y \in Range(s) \ {s[i]}
      PROVE  y \in Range(r)
  <2>1. PICK j \in 1..Len(s) : s[j] = y
    BY DEF Range
  <2>2. CASE j < i
    BY <1>1, <2>1, <2>2 DEF Range
  <2>3. CASE j > i
    <3>1. j - 1 \in 1..Len(r) /\ r[j - 1] = y
      BY <1>1, <2>1, <2>3
    <3> QED
      BY <1>1, <3>1 DEF Range
  <2> QED
    BY <2>1, <2>2, <2>3
<1> QED
  BY <1>2, <1>3, <1>4 DEF r

LEMMA InjectiveConcat ==
  ASSUME NEW S, NEW s \in Seq(S), NEW t \in Seq(S),
         IsInjective(s), IsInjective(t), Range(s) \cap Range(t) = {}
  PROVE  IsInjective(s \o t)
<1>1. /\ s \o t \in Seq(S)
      /\ Len(s \o t) = Len(s) + Len(t)
      /\ \A j \in 1..(Len(s) + Len(t)) :
           (s \o t)[j] = IF j <= Len(s) THEN s[j] ELSE t[j - Len(s)]
  BY ConcatProperties
<1>2. \A m \in 1..Len(s), n \in 1..Len(t) : s[m] # t[n]
  BY DEF Range
<1>3. /\ \A m, n \in 1..Len(s) : s[m] = s[n] => m = n
      /\ \A m, n \in 1..Len(t) : t[m] = t[n] => m = n
  BY DEF IsInjective
<1>4. ASSUME NEW m \in 1..(Len(s) + Len(t)), NEW n \in 1..(Len(s) + Len(t)),
             (s \o t)[m] = (s \o t)[n]
      PROVE  m = n
  <2>1. CASE m <= Len(s) /\ n <= Len(s)
    BY <1>1, <1>3, <1>4, <2>1
  <2>2. CASE m > Len(s) /\ n > Len(s)
    <3>1. /\ m - Len(s) \in 1..Len(t) /\ n - Len(s) \in 1..Len(t)
          /\ t[m - Len(s)] = t[n - Len(s)]
      BY <1>1, <1>4, <2>2
    <3> QED
      BY <1>3, <3>1
  <2>3. CASE m <= Len(s) /\ n > Len(s)
    BY <1>1, <1>2, <1>4, <2>3
  <2>4. CASE m > Len(s) /\ n <= Len(s)
    <3>1. m - Len(s) \in 1..Len(t) /\ n \in 1..Len(s) /\ t[m - Len(s)] = s[n]
      BY <1>1, <1>4, <2>4
    <3> QED
      BY <1>2, <3>1
  <2> QED
    BY <2>1, <2>2, <2>3, <2>4
<1> QED
  BY <1>1, <1>4 DEF IsInjective

\* A sequence SetToSeqs(S) offers lists every element of S exactly once.
LEMMA SetToSeqsProperties ==
  ASSUME NEW S, IsFiniteSet(S), NEW s \in SetToSeqs(S)
  PROVE  s \in Seq(S) /\ IsInjective(s) /\ Range(s) = S
<1> DEFINE n == Cardinality(S)
<1>1. n \in Nat
  BY FS_CardinalityType
<1>2. s \in [1..n -> S] /\ \A i, j \in 1..n : i # j => s[i] # s[j]
  BY DEF SetToSeqs
<1>3. s \in Seq(S) /\ Len(s) = n
  BY <1>1, <1>2
<1>4. IsInjective(s)
  BY <1>2 DEF IsInjective
<1>5. s \in Injection(1..n, S)
  BY <1>2 DEF Injection, IsInjective
<1>6. Cardinality(1..n) = n /\ IsFiniteSet(1..n)
  BY <1>1, FS_Interval
<1>7. s \in Surjection(1..n, S)
  BY <1>5, <1>6, FS_Injection
<1>8. Range(s) = S
  BY <1>2, <1>7 DEF Range, Surjection
<1> QED
  BY <1>3, <1>4, <1>8

-----------------------------------------------------------------------------
(* Counting bytes *)

LEMMA IntervalCounts ==
  ASSUME NEW n \in Nat
  PROVE  IsFiniteSet(1..n) /\ Cardinality(1..n) = n
BY FS_Interval

LEMMA BoxCounts ==
  ASSUME NEW b, NEW n \in Nat
  PROVE  IsFiniteSet({b} \X (1..n)) /\ Cardinality({b} \X (1..n)) = n
<1>1. IsFiniteSet({b}) /\ Cardinality({b}) = 1
  BY FS_Singleton
<1>2. /\ IsFiniteSet({b} \X (1..n))
      /\ Cardinality({b} \X (1..n)) = Cardinality({b}) * Cardinality(1..n)
  BY <1>1, IntervalCounts, FS_Product
<1> QED
  BY <1>1, <1>2, IntervalCounts

\* The bytes the ledger h records for the blocks of S.
LentBy(h, S) == UNION {{b} \X (1..h[b]) : b \in S}

LEMMA InLent ==
  ASSUME NEW S, NEW h, NEW y
  PROVE  y \in LentBy(h, S) <=> \E b \in S : \E i \in 1..h[b] : y = <<b, i>>
BY DEF LentBy

LEMMA LentFinite ==
  ASSUME NEW S, IsFiniteSet(S), NEW h, \A b \in S : h[b] \in Nat
  PROVE  IsFiniteSet(LentBy(h, S)) /\ Cardinality(LentBy(h, S)) \in Nat
<1> DEFINE T == {{b} \X (1..h[b]) : b \in S}
           g == [b \in S |-> {b} \X (1..h[b])]
<1>1. g \in Surjection(S, T)
  BY DEF Surjection
<1>2. IsFiniteSet(T)
  BY <1>1, FS_Surjection
<1>3. ASSUME NEW B \in T
      PROVE  IsFiniteSet(B)
  <2>1. PICK b \in S : B = {b} \X (1..h[b])
    OBVIOUS
  <2> QED
    BY <2>1, BoxCounts
<1>4. IsFiniteSet(UNION T)
  BY <1>2, <1>3, FS_UNION
<1> QED
  BY <1>4, FS_CardinalityType DEF LentBy

\* Returning the blocks of T lowers the count by the bytes lent for T.
LEMMA ReturnCounts ==
  ASSUME NEW S, IsFiniteSet(S), NEW T \in SUBSET S,
         NEW h \in [S -> Nat]
  PROVE  Cardinality(LentBy([b \in S |-> IF b \in T THEN 0 ELSE h[b]], S))
           = Cardinality(LentBy(h, S)) - Cardinality(LentBy(h, T))
<1> DEFINE g == [b \in S |-> IF b \in T THEN 0 ELSE h[b]]
<1> \A b \in S : g[b] = IF b \in T THEN 0 ELSE h[b]
  OBVIOUS
<1> HIDE DEF g
<1>1. LentBy(g, S) = LentBy(h, S) \ LentBy(h, T)
  <2>1. ASSUME NEW y \in LentBy(g, S)
        PROVE  y \in LentBy(h, S) \ LentBy(h, T)
    BY InLent
  <2>2. ASSUME NEW y \in LentBy(h, S) \ LentBy(h, T)
        PROVE  y \in LentBy(g, S)
    BY InLent
  <2> QED
    BY <2>1, <2>2
<1>2. LentBy(h, S) \cap LentBy(h, T) = LentBy(h, T)
  BY InLent
<1>3. IsFiniteSet(LentBy(h, S))
  BY LentFinite
<1>4. Cardinality(LentBy(h, S) \ LentBy(h, T))
        = Cardinality(LentBy(h, S)) - Cardinality(LentBy(h, S) \cap LentBy(h, T))
  BY <1>3, FS_Difference
<1> QED
  BY <1>1, <1>2, <1>4 DEF g

\* Lending n bytes at a free address raises it by n.
LEMMA LendCounts ==
  ASSUME NEW S, IsFiniteSet(S), NEW b \in S, NEW n \in Nat,
         NEW h \in [S -> Nat], h[b] = 0
  PROVE  Cardinality(LentBy([h EXCEPT ![b] = n], S)) = Cardinality(LentBy(h, S)) + n
<1> DEFINE g == [h EXCEPT ![b] = n]
           B == {b} \X (1..n)
<1>0. \A c \in S : g[c] = IF c = b THEN n ELSE h[c]
  OBVIOUS
<1> HIDE DEF g
<1>1. LentBy(g, S) = LentBy(h, S) \cup B
  <2>1. ASSUME NEW y \in LentBy(g, S)
        PROVE  y \in LentBy(h, S) \cup B
    BY InLent, <1>0
  <2>2. ASSUME NEW y \in LentBy(h, S)
        PROVE  y \in LentBy(g, S)
    BY InLent, <1>0
  <2>3. ASSUME NEW y \in B
        PROVE  y \in LentBy(g, S)
    BY InLent, <1>0
  <2> QED
    BY <2>1, <2>2, <2>3
<1>2. LentBy(h, S) \cap B = {}
  BY InLent
<1>3. IsFiniteSet(LentBy(h, S)) /\ Cardinality(LentBy(h, S)) \in Nat
  BY LentFinite
<1>4. IsFiniteSet(B) /\ Cardinality(B) = n
  BY BoxCounts
<1>5. Cardinality(LentBy(h, S) \cap B) = 0
  BY <1>2, FS_EmptySet, Zenon
<1> HIDE DEF B
<1>6. Cardinality(LentBy(h, S) \cup B) = Cardinality(LentBy(h, S)) + Cardinality(B)
                                           - Cardinality(LentBy(h, S) \cap B)
  BY <1>3, <1>4, FS_Union
<1> QED
  <2>1. Cardinality(LentBy(g, S)) = Cardinality(LentBy(h, S)) + n
    BY <1>1, <1>3, <1>4, <1>5, <1>6
  <2> QED
    BY <2>1 DEF g

LEMMA FootprintIsLent ==
  ASSUME NEW S, NEW h, \A b \in S : h[b] = Hdr + block[b].cap
  PROVE  Footprint(S) = Cardinality(LentBy(h, S))
<1>1. UNION {{b} \X (1..(Hdr + block[b].cap)) : b \in S} = LentBy(h, S)
  BY Zenon DEF LentBy
<1> QED
  BY <1>1, Zenon DEF Footprint

LEMMA FootprintType ==
  ASSUME NEW S \in SUBSET Blocks, block \in [Blocks -> Cell]
  PROVE  Footprint(S) \in Nat
<1> DEFINE h == [b \in S |-> Hdr + block[b].cap]
<1>1. IsFiniteSet(S)
  BY BlocksAssumption, FS_Subset
<1>2. \A b \in S : h[b] \in Nat /\ h[b] = Hdr + block[b].cap
  BY LayoutAssumption DEF Cell
<1> HIDE DEF h
<1>3. Footprint(S) = Cardinality(LentBy(h, S))
  BY <1>2, FootprintIsLent
<1> QED
  BY <1>1, <1>2, <1>3, LentFinite

-----------------------------------------------------------------------------
(* What a step does.  Every handler ends in one of the effects below, with   *)
(* arguments that passed its guards.                                         *)

\* What AllocCore is called with: a positive size, a resolved alignment, and
\* for the move path of realloc a region of the innermost scope.
CoreArgs(size, align, old, oldSize) ==
  /\ size \in Nat \ {0} /\ align \in 1..MaxAlign
  /\ \/ old = {} /\ oldSize = 0
     \/ \E x \in live : old = {x} /\ oldSize = x.size /\ x.depth = temp_depth

Grown(size, align, old, oldSize) ==
  /\ ~fixed
  /\ \/ TakeFreeBlock(size, align, old, oldSize)
     \/ NoneFits(DataNeed(size, align)) /\ TakeNewBlock(size, align, old, oldSize)

Served ==
  \E size \in Nat, align \in Nat, old \in SUBSET live, oldSize \in Nat :
    /\ CoreArgs(size, align, old, oldSize)
    /\ \/ BumpCurrent(size, align, old, oldSize)
       \/ Grown(size, align, old, oldSize)

Resized ==
  \E x \in live, newSize \in Nat \ {0} :
    x.depth = temp_depth /\ CanResize(x, newSize) /\ ResizeInPlace(x, newSize)

RolledBack == \E x \in live : x.depth = temp_depth /\ RollBack(x)

Failed == \E error \in Status : Fail(error)

Effect ==
  \/ NoEffect \/ Failed \/ Served \/ Resized \/ RolledBack
  \/ TempBegin \/ TempEnd \/ Reset \/ Trim \/ ClearError \/ Deinit

LEMMA AlignEffectiveType ==
  ASSUME NEW align \in Nat, AlignValid(align)
  PROVE  AlignEffective(align) \in 1..MaxAlign
BY AlignAssumption DEF AlignValid, AlignEffective, Larger

LEMMA ProductBound ==
  ASSUME NEW m \in Nat, NEW n \in Nat, NEW h \in Nat, m < h, n < h
  PROVE  m * n < h * h
OBVIOUS

LEMMA QuotientBound ==
  ASSUME NEW m \in Nat, NEW n \in Nat \ {0}, NEW p \in Nat, m <= p \div n
  PROVE  m * n <= p
<1>1. p = n * (p \div n) + (p % n) /\ p \div n \in Int
  BY DivMod
<1>2. p % n >= 0
  OBVIOUS
<1>3. n * m <= n * (p \div n)
  BY <1>1
<1> QED
  BY <1>1, <1>2, <1>3

\* The guard of arena_alloc_impl lets no product through that wraps size_t.
LEMMA ProductExact ==
  ASSUME NEW count \in Nat \ {0}, NEW size \in Nat \ {0},
         ~ProductOverflows(count, size)
  PROVE  /\ (count * size) % SizeMod = count * size
         /\ count * size \in 1..PtrMax
<1>1. count * size < SizeMod
  <2>1. CASE count < Half /\ size < Half
    BY <2>1, ProductBound, WidthAssumption DEF SizeMod
  <2>2. CASE count >= Half \/ size >= Half
    <3>1. count <= PtrMax \div size
      <4>1. PtrMax \div size \in Int
        BY DivMod, WidthAssumption
      <4> QED
        BY <2>2, <4>1 DEF ProductOverflows
    <3>2. count * size <= PtrMax
      BY <3>1, QuotientBound, WidthAssumption
    <3> QED
      BY <3>2, WidthAssumption DEF SizeMod
  <2> QED
    BY <2>1, <2>2, WidthAssumption
<1>2. count * size \in Nat \ {0}
  OBVIOUS
<1>3. SizeMod \in Nat \ {0}
  BY WidthAssumption DEF SizeMod
<1>4. \A p \in Nat, q \in Nat \ {0} : p < q => p % q = p
  OBVIOUS
<1>5. (count * size) % SizeMod = count * size
  BY <1>1, <1>2, <1>3, <1>4
<1>6. (count * size) % SizeMod <= PtrMax
  BY <1>2, <1>3, <1>5, WidthAssumption DEF ProductOverflows
<1> QED
  BY <1>2, <1>5, <1>6

LEMMA CoreEffect ==
  ASSUME NEW size \in Nat, NEW align \in Nat, NEW old \in SUBSET live,
         NEW oldSize \in Nat, CoreArgs(size, align, old, oldSize),
         AllocCore(size, align, old, oldSize)
  PROVE  Effect
BY DEF AllocCore, GrowAndBump, Grown, Served, Failed, Status, Effect

LEMMA ImplEffect ==
  ASSUME NEW count \in Nat, NEW size \in Nat, NEW align \in Nat,
         NEW old \in SUBSET live, NEW oldSize \in Nat,
         \/ old = {} /\ oldSize = 0
         \/ \E x \in live : old = {x} /\ oldSize = x.size /\ x.depth = temp_depth,
         AllocImpl(count, size, align, old, oldSize)
  PROVE  Effect
<1>1. CASE NoEffect
  BY <1>1 DEF Effect
<1>2. CASE \E error \in Status : Fail(error)
  BY <1>2 DEF Effect, Failed
<1>3. CASE /\ AlignValid(align) /\ count # 0 /\ size # 0
           /\ ~ProductOverflows(count, size)
           /\ AllocCore((count * size) % SizeMod, AlignEffective(align), old, oldSize)
  <2>1. (count * size) % SizeMod \in Nat \ {0}
    BY <1>3, ProductExact
  <2>2. AlignEffective(align) \in 1..MaxAlign
    BY <1>3, AlignEffectiveType
  <2>3. CoreArgs((count * size) % SizeMod, AlignEffective(align), old, oldSize)
    BY <2>1, <2>2 DEF CoreArgs
  <2> QED
    BY <1>3, <2>1, <2>2, <2>3, CoreEffect, AlignAssumption
<1> QED
  BY <1>1, <1>2, <1>3 DEF AllocImpl, Status

LEMMA DefaultEffect ==
  ASSUME NEW size \in Nat, AllocDefault(size)
  PROVE  Effect
<1>1. CASE NoEffect
  BY <1>1 DEF Effect
<1>2. CASE \E error \in Status : Fail(error)
  BY <1>2 DEF Effect, Failed
<1>3. CASE size # 0 /\ AllocCore(size, AlignEffective(0), {}, 0)
  <2>1. AlignEffective(0) \in 1..MaxAlign
    BY AlignEffectiveType DEF AlignValid
  <2>2. CoreArgs(size, AlignEffective(0), {}, 0)
    BY <1>3, <2>1 DEF CoreArgs
  <2> QED
    BY <1>3, <2>1, <2>2, CoreEffect, AlignAssumption
<1> QED
  BY <1>1, <1>2, <1>3 DEF AllocDefault, Status

\* Every step of the arena is one of the effects.
LEMMA NextEffect ==
  ASSUME TypeOK, [Next]_vars
  PROVE  Effect
<1> USE ArgsAssumption
<1>1. ASSUME NEW size \in Sizes, Alloc(size)
      PROVE  Effect
  BY <1>1, DefaultEffect DEF Alloc
<1>2. ASSUME NEW count \in Counts, NEW size \in Sizes, NEW align \in Aligns,
             AllocN(count, size, align)
      PROVE  Effect
  BY <1>2, ImplEffect DEF AllocN
<1>3. ASSUME NEW srcIsNull \in BOOLEAN, NEW size \in Sizes, MemDup(srcIsNull, size)
      PROVE  Effect
  BY <1>3, DefaultEffect DEF MemDup, Effect, Failed, Status
<1>4. ASSUME NEW x \in live, NEW size \in Sizes, NEW align \in Aligns,
             Resizable(x), Realloc(x, size, align)
      PROVE  Effect
  <2>1. CASE NoEffect \/ Failed
    BY <2>1 DEF Effect
  <2>2. CASE size # 0 /\ CanResize(x, size) /\ ResizeInPlace(x, size)
    BY <1>4, <2>2 DEF Effect, Resized, Resizable
  <2>3. CASE AllocImpl(1, size, align, {x}, x.size)
    <3>1. x.size \in Nat
      BY DEF TypeOK, Place
    <3> QED
      BY <1>4, <2>3, <3>1, ImplEffect DEF Resizable
  <2> QED
    BY <1>4, <2>1, <2>2, <2>3 DEF Realloc, Failed, Status
<1>5. ASSUME NEW size \in Sizes, NEW align \in Aligns, ReallocNull(size, align)
      PROVE  Effect
  BY <1>5, ImplEffect DEF ReallocNull, Effect, Failed, Status
<1>6. ASSUME NEW x \in live, Resizable(x), XFree(x)
      PROVE  Effect
  BY <1>6 DEF Resizable, XFree, Effect, RolledBack
<1>7. CASE TempBegin \/ TempEnd \/ Reset \/ Trim \/ ClearError \/ Deinit
  BY <1>7 DEF Effect
<1>8. CASE UNCHANGED vars
  BY <1>8 DEF Effect, NoEffect
<1> QED
  BY <1>1, <1>2, <1>3, <1>4, <1>5, <1>6, <1>7, <1>8 DEF Next

-----------------------------------------------------------------------------
(* Type correctness *)

LEMMA PadType ==
  ASSUME NEW cell \in Cell, NEW align \in 1..MaxAlign
  PROVE  /\ Pad(cell, align) \in 0..(align - 1)
         /\ (cell.skew + cell.used + Pad(cell, align)) % align = 0
<1>1. cell.skew + cell.used \in Int /\ align \in Nat \ {0}
  BY AlignAssumption DEF Cell
<1> QED
  BY <1>1, PadAligns DEF Pad

LEMMA BytesType ==
  ASSUME NEW b \in Blocks, NEW from \in Nat, NEW to \in Int
  PROVE  Bytes(b, from, to) \subseteq Blocks \X Nat
BY DEF Bytes

LEMMA RegionType ==
  ASSUME NEW x \in Place
  PROVE  /\ Region(x) \subseteq Blocks \X Nat
         /\ Extent(x) \subseteq Blocks \X Nat
<1>1. x.blk \in Blocks /\ x.off \in Nat /\ x.size \in Nat
  BY DEF Place
<1> QED
  BY <1>1, BytesType, LayoutAssumption DEF Region, Extent

LEMMA CarveType ==
  ASSUME TypeOK, NEW b \in Blocks, NEW cell \in Cell,
         NEW size \in Nat, NEW align \in Nat, NEW old \in SUBSET live,
         NEW oldSize \in Nat, CoreArgs(size, align, old, oldSize),
         Carve(b, cell, size, align, old, oldSize)
  PROVE  /\ block' \in [Blocks -> Cell] /\ used' \in Int /\ high_water' \in Nat
         /\ live' \subseteq Place
         /\ abandoned' \subseteq Blocks \X Nat /\ shadow' \subseteq Blocks \X Nat
<1> DEFINE pad == Pad(cell, align)
           new == [blk |-> b, off |-> cell.used + pad, size |-> size,
                   align |-> align, depth |-> temp_depth]
           moved == UNION {Region(x) : x \in old}
<1>1. size \in Nat \ {0} /\ align \in 1..MaxAlign /\ pad \in Nat
  BY PadType DEF CoreArgs
<1>2. new \in Place
  BY <1>1 DEF Place, TypeOK, Cell
<1>3. Region(new) \subseteq Blocks \X Nat
  BY <1>2, RegionType
<1>4. moved \subseteq Blocks \X Nat
  BY RegionType DEF TypeOK
<1>5. [cell EXCEPT !.used = @ + pad + (size + Redzone)] \in Cell
  BY <1>1, LayoutAssumption DEF Cell
<1>6. block' \in [Blocks -> Cell]
  BY <1>5 DEF Carve, TypeOK
<1>7. used' \in Int /\ high_water' \in Nat
  <2>1. /\ used' = used + pad + (size + Redzone) - oldSize
        /\ high_water' = Larger(high_water, used + pad + (size + Redzone))
    BY Zenon DEF Carve
  <2>2. used \in Int /\ high_water \in Nat /\ Redzone \in Nat
    BY LayoutAssumption DEF TypeOK
  <2> HIDE DEF pad
  <2> QED
    BY <1>1, <2>1, <2>2 DEF Larger
<1>8. live' \subseteq Place
  BY <1>2 DEF Carve, TypeOK
<1>9. abandoned' \subseteq Blocks \X Nat
  BY <1>4 DEF Carve, TypeOK
<1>10. shadow' \subseteq Blocks \X Nat
  BY <1>3 DEF Carve, TypeOK
<1> QED
  BY <1>6, <1>7, <1>8, <1>9, <1>10

LEMMA BumpEnteredType ==
  ASSUME TypeOK, NEW b \in Blocks, NEW cell \in Cell,
         NEW size \in Nat, NEW align \in Nat, NEW old \in SUBSET live,
         NEW oldSize \in Nat, CoreArgs(size, align, old, oldSize),
         BumpEntered(b, cell, size, align, old, oldSize)
  PROVE  /\ chain' \in Seq(Blocks) /\ aborted' \in BOOLEAN
         /\ block' \in [Blocks -> Cell] /\ used' \in Int /\ high_water' \in Nat
         /\ live' \subseteq Place
         /\ abandoned' \subseteq Blocks \X Nat /\ shadow' \subseteq Blocks \X Nat
<1>1. chain' \in Seq(Blocks) /\ aborted' \in BOOLEAN
  <2>1. chain' = Append(chain, b)
    BY Zenon DEF BumpEntered
  <2>2. aborted' \in BOOLEAN
    BY Zenon DEF BumpEntered, Fits
  <2> QED
    BY <2>1, <2>2 DEF TypeOK
<1>2. CASE Carve(b, cell, size, align, old, oldSize)
  BY <1>1, <1>2, CarveType
<1>3. CASE block' = [block EXCEPT ![b] = cell] /\ UNCHANGED stats
  BY <1>1, <1>3 DEF TypeOK, stats
<1> QED
  BY <1>2, <1>3 DEF BumpEntered

\* The header fields arena_new_block writes.
NewCell(size, align, skew) ==
  [cap |-> NewBlockSize(DataNeed(size, align)) - Hdr, used |-> 0,
   oversize |-> NewBlockSize(DataNeed(size, align)) # next_block, skew |-> skew]

LEMMA NewCellType ==
  ASSUME TypeOK, NEW size \in Nat \ {0}, NEW align \in 1..MaxAlign, NEW skew \in Skews
  PROVE  /\ NewCell(size, align, skew) \in Cell
         /\ NewBlockSize(DataNeed(size, align)) \in Nat
         /\ NewBlockSize(DataNeed(size, align)) >= Hdr + DataNeed(size, align)
         /\ DataNeed(size, align) \in Nat
         /\ DataNeed(size, align) = size + (align - 1) + Redzone
<1>1. DataNeed(size, align) \in Nat /\ DataNeed(size, align) = size + (align - 1) + Redzone
  BY LayoutAssumption, AlignAssumption DEF DataNeed
<1>2. /\ NewBlockSize(DataNeed(size, align)) \in Nat
      /\ NewBlockSize(DataNeed(size, align)) >= Hdr + DataNeed(size, align)
  BY <1>1, LayoutAssumption DEF NewBlockSize, Larger, TypeOK
<1>3. skew \in 0..(MaxAlign - 1)
  BY AlignAssumption
<1> QED
  BY <1>1, <1>2, <1>3, LayoutAssumption DEF NewCell, Cell

LEMMA ServedType ==
  ASSUME TypeOK, Served
  PROVE  TypeOK'
<1>1. PICK size \in Nat, align \in Nat, old \in SUBSET live, oldSize \in Nat :
        /\ CoreArgs(size, align, old, oldSize)
        /\ \/ BumpCurrent(size, align, old, oldSize)
           \/ Grown(size, align, old, oldSize)
  BY DEF Served
<1>2. CASE BumpCurrent(size, align, old, oldSize)
  <2>1. Current \in Blocks /\ block[Current] \in Cell
    BY <1>2 DEF BumpCurrent, FitsCurrent, Current, Last, TypeOK
  <2>2. Carve(Current, block[Current], size, align, old, oldSize)
    BY <1>2 DEF BumpCurrent
  <2> QED
    BY <1>1, <1>2, <2>1, <2>2, CarveType DEF BumpCurrent, TypeOK, policy, epoch
<1>3. CASE TakeFreeBlock(size, align, old, oldSize)
  <2>1. PICK i \in DOMAIN freeList :
          /\ freeList' = RemoveAt(freeList, i)
          /\ BumpEntered(freeList[i], block[freeList[i]], size, align, old, oldSize)
    BY <1>3 DEF TakeFreeBlock
  <2>2. freeList[i] \in Blocks /\ block[freeList[i]] \in Cell
    BY <2>1 DEF TypeOK
  <2>3. freeList' \in Seq(Blocks)
    BY <2>1, RemoveAtProperties DEF TypeOK
  <2> QED
    BY <1>1, <1>3, <2>1, <2>2, <2>3, BumpEnteredType
       DEF TakeFreeBlock, TypeOK, policy, epoch
<1>4. CASE TakeNewBlock(size, align, old, oldSize)
  <2>1. PICK b \in Blocks, skew \in Skews :
          /\ held' = [held EXCEPT ![b] = NewBlockSize(DataNeed(size, align))]
          /\ BumpEntered(b, NewCell(size, align, skew), size, align, old, oldSize)
    BY <1>4 DEF TakeNewBlock, NewCell
  <2>2. size \in Nat \ {0} /\ align \in 1..MaxAlign
    BY <1>1 DEF CoreArgs
  <2>3. NewCell(size, align, skew) \in Cell /\ NewBlockSize(DataNeed(size, align)) \in Nat
    BY <2>2, NewCellType
  <2>4. held' \in [Blocks -> Nat] /\ next_block' \in Nat /\ committed' \in Int
    BY <1>4, <2>1, <2>3 DEF TakeNewBlock, TypeOK, Smaller
  <2> QED
    BY <1>1, <1>4, <2>1, <2>3, <2>4, BumpEnteredType DEF TakeNewBlock, TypeOK, policy, epoch
<1> QED
  BY <1>1, <1>2, <1>3, <1>4 DEF Grown

LEMMA ResizedType ==
  ASSUME TypeOK, Resized
  PROVE  TypeOK'
<1>1. PICK x \in live, newSize \in Nat \ {0} : CanResize(x, newSize) /\ ResizeInPlace(x, newSize)
  BY DEF Resized
<1>2. /\ x \in Place /\ x.blk \in Blocks /\ x.off \in Nat /\ x.size \in Nat
      /\ block[x.blk] \in Cell
  BY DEF TypeOK, Place
<1>3. block[x.blk].used + (newSize - x.size) \in Nat
  BY <1>1, <1>2, LayoutAssumption DEF CanResize, IsLastAlloc, Current, Cell
<1>4. block' \in [Blocks -> Cell]
  <2>1. [block[x.blk] EXCEPT !.used = @ + (newSize - x.size)] \in Cell
    BY <1>2, <1>3 DEF Cell
  <2>2. block' = [block EXCEPT ![x.blk] = [block[x.blk] EXCEPT !.used = @ + (newSize - x.size)]]
    BY <1>1 DEF ResizeInPlace
  <2> QED
    BY <1>2, <2>1, <2>2 DEF TypeOK
<1>5. used' \in Int /\ high_water' \in Nat
  <2>1. /\ used' = used + (newSize - x.size)
        /\ high_water' = Larger(high_water, used + (newSize - x.size))
    BY <1>1, Zenon DEF ResizeInPlace
  <2> QED
    BY <1>2, <2>1 DEF TypeOK, Larger
<1>6. live' \subseteq Place
  BY <1>1, <1>2 DEF ResizeInPlace, TypeOK, Place
<1>7. shadow' \subseteq Blocks \X Nat
  <2>1. Bytes(x.blk, x.off + x.size, x.off + newSize) \subseteq Blocks \X Nat
    BY <1>2, BytesType
  <2> QED
    BY <1>1, <2>1, Zenon DEF ResizeInPlace, ResizedShadow, TypeOK
<1> QED
  BY <1>1, <1>4, <1>5, <1>6, <1>7 DEF ResizeInPlace, TypeOK, policy, epoch

LEMMA RolledBackType ==
  ASSUME TypeOK, RolledBack
  PROVE  TypeOK'
<1>1. PICK x \in live : RollBack(x)
  BY DEF RolledBack
<1>2. x \in Place /\ x.blk \in Blocks /\ x.off \in Nat /\ x.size \in Nat
  BY DEF TypeOK, Place
<1>3. block' \in [Blocks -> Cell]
  BY <1>1, <1>2 DEF RollBack, TypeOK, Cell
<1>4. used' \in Int
  <2>1. used' = used - (x.size + Redzone)
    BY <1>1, Zenon DEF RollBack, GivenBack
  <2> QED
    BY <1>2, <2>1, LayoutAssumption DEF TypeOK
<1>5. live' \subseteq Place /\ shadow' \subseteq Blocks \X Nat
  BY <1>1 DEF RollBack, TypeOK
<1> QED
  BY <1>1, <1>3, <1>4, <1>5, Zenon DEF RollBack, TypeOK, policy, epoch

LEMMA DiscardType ==
  ASSUME TypeOK, NEW S \in SUBSET Blocks, Discard(S)
  PROVE  /\ freeList' \in Seq(Blocks) /\ committed' \in Int /\ held' \in [Blocks -> Nat]
<1> DEFINE normal == {b \in S : ~block[b].oversize}
<1>1. IsFiniteSet(normal)
  BY BlocksAssumption, FS_Subset
<1>2. PICK order \in SetToSeqs(normal) : freeList' = order \o freeList
  BY DEF Discard
<1>3. order \in Seq(normal)
  BY <1>1, <1>2, SetToSeqsProperties
<1>4. order \in Seq(Blocks)
  BY <1>3, SeqMonotonic
<1>5. freeList' \in Seq(Blocks)
  BY <1>2, <1>4, ConcatProperties DEF TypeOK
<1>6. Release(S \ normal)
  BY DEF Discard
<1>7. Footprint(S \ normal) \in Nat
  BY FootprintType DEF TypeOK
<1> QED
  BY <1>5, <1>6, <1>7 DEF Release, TypeOK

LEMMA DiscardedType ==
  ASSUME TypeOK, NEW b \in Blocks
  PROVE  Discarded(b) \in Cell /\ Absent \in Cell
<1>1. block[b] \in Cell
  BY DEF TypeOK
<1>2. Absent \in Cell
  BY AlignAssumption DEF Absent, Cell
<1>3. [block[b] EXCEPT !.used = 0] \in Cell
  BY <1>1 DEF Cell
<1> QED
  BY <1>2, <1>3, Zenon DEF Discarded

LEMMA FailedType ==
  ASSUME TypeOK, Failed
  PROVE  TypeOK'
<1>1. PICK error \in Status : Fail(error)
  BY DEF Failed
<1>2. status' \in Status
  BY <1>1 DEF Fail, TypeOK
<1> QED
  BY <1>1, <1>2, Zenon DEF Fail, TypeOK, heap, stats, policy, epoch

LEMMA TempBeginType ==
  ASSUME TypeOK, TempBegin
  PROVE  TypeOK'
<1> DEFINE t == Snapshot(temp_depth + 1)
<1>1. chain # <<>> => Current \in Blocks /\ block[Current].used \in Nat
  BY DEF TypeOK, Current, Last, Cell
<1>2. t \in Scope
  BY <1>1 DEF TypeOK, Scope, Snapshot
<1>3. scopes' \in Seq(Scope)
  BY <1>2 DEF TempBegin, TypeOK
<1>4. temp_depth' \in Nat
  BY DEF TempBegin, TypeOK
<1> QED
  BY <1>3, <1>4, Zenon DEF TempBegin, TypeOK, heap, stats, policy

LEMMA TempEndType ==
  ASSUME TypeOK, TempEnd
  PROVE  TypeOK'
<1> DEFINE t == Last(scopes)
<1>1. t \in Scope /\ scopes' \in Seq(Scope)
  BY DEF TempEnd, TypeOK, Last, Front
<1>2. aborted' \in BOOLEAN
  BY Zenon DEF TempEnd, TempEndAsserts
<1>3. CASE UNCHANGED <<heap, stats, policy, temp_depth, generation, status>>
  BY <1>1, <1>2, <1>3, Zenon DEF TypeOK, heap, stats, policy
<1>4. ASSUME NEW k \in 0..Len(chain), Rewind(t, k)
      PROVE  TypeOK'
  <2>1. Popped(k) \subseteq Blocks
    BY DEF Popped, TypeOK
  <2>2. freeList' \in Seq(Blocks) /\ committed' \in Int /\ held' \in [Blocks -> Nat]
    BY <1>4, <2>1, DiscardType, Zenon DEF Rewind
  <2>3. chain' \in Seq(Blocks)
    BY <1>4 DEF Rewind, TypeOK
  <2>4. ASSUME NEW b \in Blocks
        PROVE  /\ Discarded(b) \in Cell /\ block[b] \in Cell
               /\ [block[b] EXCEPT !.used = Smaller(@, t.block_used)] \in Cell
    <3>1. block[b] \in Cell /\ t.block_used \in Nat
      BY <1>1 DEF TypeOK, Scope
    <3>2. Smaller(block[b].used, t.block_used) \in Nat
      BY <3>1 DEF Cell, Smaller
    <3> QED
      BY <3>1, <3>2, DiscardedType DEF Cell
  <2>5. block' \in [Blocks -> Cell]
    BY <1>4, <2>4 DEF Rewind
  <2>6. used' \in Int /\ temp_depth' \in Nat
    <3>1. used' = Smaller(used, t.used) /\ temp_depth' = IF temp_depth > 0 THEN temp_depth - 1 ELSE 0
      BY <1>4, Zenon DEF Rewind
    <3> QED
      BY <1>1, <3>1 DEF TypeOK, Scope, Smaller
  <2>7. /\ live' \subseteq Place
        /\ abandoned' \subseteq Blocks \X Nat /\ shadow' \subseteq Blocks \X Nat
    BY <1>4, Zenon DEF Rewind, TypeOK
  <2>8. UNCHANGED <<next_block, high_water, policy, generation, status>>
    BY <1>4, Zenon DEF Rewind
  <2> QED
    BY <1>1, <1>2, <2>2, <2>3, <2>5, <2>6, <2>7, <2>8, Zenon DEF TypeOK, policy
<1> QED
  BY <1>3, <1>4, Zenon DEF TempEnd

LEMMA ResetType ==
  ASSUME TypeOK, Reset
  PROVE  TypeOK'
<1>1. /\ chain' \in Seq(Blocks) /\ freeList' \in Seq(Blocks)
      /\ block' \in [Blocks -> Cell]
      /\ committed' \in Int /\ held' \in [Blocks -> Nat]
  <2>1. CASE fixed
    <3>1. block' = [b \in Blocks |-> [block[b] EXCEPT !.used = 0]]
      BY <2>1, Zenon DEF Reset
    <3>2. block' \in [Blocks -> Cell]
      BY <3>1 DEF TypeOK, Cell
    <3> QED
      BY <2>1, <3>2, Zenon DEF Reset, TypeOK
  <2>2. CASE ~fixed
    <3>1. PICK k \in 0..Len(chain) :
            /\ chain' = IF k = 0 THEN <<>> ELSE <<chain[k]>>
            /\ Discard(Popped(0) \ (IF k = 0 THEN {} ELSE {chain[k]}))
            /\ block' = [b \in Blocks |-> IF b \in Popped(0) THEN Discarded(b)
                                                             ELSE block[b]]
      BY <2>2, Zenon DEF Reset
    <3>2. Popped(0) \subseteq Blocks
      BY DEF Popped, TypeOK
    <3>3. freeList' \in Seq(Blocks) /\ committed' \in Int /\ held' \in [Blocks -> Nat]
      BY <3>1, <3>2, DiscardType
    <3>4. chain' \in Seq(Blocks)
      BY <3>1 DEF TypeOK
    <3>5. block' \in [Blocks -> Cell]
      BY <3>1, DiscardedType DEF TypeOK
    <3> QED
      BY <3>3, <3>4, <3>5
  <2> QED
    BY <2>1, <2>2
<1>2. /\ used' = 0 /\ live' = {} /\ abandoned' = {} /\ shadow' \subseteq shadow
      /\ temp_depth' = 0 /\ generation' = generation + 1 /\ scopes' = <<>>
      /\ status' = "OK" /\ UNCHANGED <<high_water, next_block, policy, aborted>>
  BY Zenon DEF Reset
<1>3. /\ used' \in Int /\ temp_depth' \in Nat /\ generation' \in Nat
      /\ scopes' \in Seq(Scope) /\ status' \in Status
  BY <1>2 DEF TypeOK, Status
<1> QED
  BY <1>1, <1>2, <1>3, Zenon DEF TypeOK, policy

LEMMA TrimType ==
  ASSUME TypeOK, Trim
  PROVE  TypeOK'
<1>1. CASE NoEffect
  BY <1>1, Zenon DEF NoEffect, TypeOK, vars, heap, stats, policy, epoch
<1>2. CASE /\ Release(Range(freeList))
           /\ freeList' = <<>>
           /\ block' = [b \in Blocks |-> IF b \in Range(freeList) THEN Absent ELSE block[b]]
           /\ UNCHANGED <<chain, next_block, stats, policy, epoch, status, aborted>>
  <2>1. Range(freeList) \subseteq Blocks
    BY DEF TypeOK, Range
  <2>2. Footprint(Range(freeList)) \in Nat
    BY <2>1, FootprintType DEF TypeOK
  <2>3. committed' \in Int /\ held' \in [Blocks -> Nat]
    BY <1>2, <2>2 DEF Release, TypeOK
  <2>4. block' \in [Blocks -> Cell]
    BY <1>2, DiscardedType DEF TypeOK
  <2>5. freeList' \in Seq(Blocks)
    BY <1>2
  <2> QED
    BY <1>2, <2>3, <2>4, <2>5, Zenon DEF TypeOK, stats, policy, epoch
<1> QED
  BY <1>1, <1>2, Zenon DEF Trim

LEMMA DeinitType ==
  ASSUME TypeOK, Deinit
  PROVE  TypeOK'
<1>1. /\ chain' = <<>> /\ freeList' = <<>> /\ block' = [b \in Blocks |-> Absent]
      /\ used' = 0 /\ committed' = 0 /\ high_water' = 0
      /\ next_block' = MinDefault /\ max_block' = MaxDefault /\ fixed' = FALSE
      /\ temp_depth' = 0 /\ generation' = generation + 1 /\ scopes' = <<>>
      /\ status' = "OK" /\ live' = {} /\ abandoned' = {} /\ shadow' = {}
      /\ UNCHANGED <<parentRefuses, aborted>>
  BY Zenon DEF Deinit
<1>2. held' \in [Blocks -> Nat]
  BY DEF Deinit, TypeOK
<1>3. block' \in [Blocks -> Cell]
  BY <1>1, DiscardedType
<1>4. /\ chain' \in Seq(Blocks) /\ freeList' \in Seq(Blocks) /\ scopes' \in Seq(Scope)
      /\ used' \in Int /\ committed' \in Int /\ high_water' \in Nat
      /\ next_block' \in Nat /\ max_block' \in Nat /\ temp_depth' \in Nat
      /\ generation' \in Nat /\ status' \in Status
  BY <1>1, PolicyAssumption DEF TypeOK, Status
<1> QED
  BY <1>1, <1>2, <1>3, <1>4, Zenon DEF TypeOK

LEMMA EffectType ==
  ASSUME TypeOK, Effect
  PROVE  TypeOK'
<1>1. CASE NoEffect
  BY <1>1, Zenon DEF NoEffect, TypeOK, vars, heap, stats, policy, epoch
<1>2. CASE ClearError
  <2>1. status' \in Status
    BY <1>2 DEF ClearError, Status
  <2> QED
    BY <1>2, <2>1, Zenon DEF ClearError, TypeOK, heap, stats, policy, epoch
<1> QED
  BY <1>1, <1>2, FailedType, ServedType, ResizedType, RolledBackType, TempBeginType,
     TempEndType, ResetType, TrimType, DeinitType DEF Effect

LEMMA InitType ==
  ASSUME Init
  PROVE  TypeOK
<1>1. ASSUME NEW next \in Nat, NEW max \in Nat, NEW flag \in BOOLEAN,
             NEW refuses \in BOOLEAN, NEW error \in Status,
             InitFields(next, max, flag, refuses, error),
             chain \in Seq(Blocks), block \in [Blocks -> Cell], committed \in Nat
      PROVE  TypeOK
  <2>1. /\ freeList \in Seq(Blocks) /\ scopes \in Seq(Scope) /\ used \in Int
        /\ high_water \in Nat /\ temp_depth \in Nat /\ generation \in Nat
        /\ held \in [Blocks -> Nat] /\ committed \in Int
    BY <1>1 DEF InitFields
  <2>2. next_block \in Nat /\ max_block \in Nat /\ status \in Status
    BY <1>1, Zenon DEF InitFields
  <2>3. fixed \in BOOLEAN /\ parentRefuses \in BOOLEAN /\ aborted \in BOOLEAN
    BY <1>1, Zenon DEF InitFields
  <2>4. /\ live \subseteq Place
        /\ abandoned \subseteq Blocks \X Nat /\ shadow \subseteq Blocks \X Nat
    BY <1>1, Zenon DEF InitFields
  <2> QED
    BY <1>1, <2>1, <2>2, <2>3, <2>4, Zenon DEF TypeOK
<1>2. Absent \in Cell
  BY AlignAssumption DEF Absent, Cell
<1>3. ASSUME NoBlocks
      PROVE  chain \in Seq(Blocks) /\ block \in [Blocks -> Cell] /\ committed \in Nat
  BY <1>2, <1>3 DEF NoBlocks
<1>4. \A error \in {"OK", "ERR_ARG", "ERR_OVERFLOW"} : error \in Status
  BY DEF Status
<1>5. CASE InitDefault
  BY <1>1, <1>3, <1>4, <1>5, PolicyAssumption DEF InitDefault
<1>6. ASSUME NEW args \in SizedArgs, InitSized(args[1], args[2])
      PROVE  TypeOK
  <2>1. args[1] \in Nat /\ args[2] \in Nat
    BY ArgsAssumption
  <2> QED
    BY <1>1, <1>3, <1>4, <1>6, <2>1, PolicyAssumption DEF InitSized
<1>7. ASSUME NEW size \in BufferSizes, NEW base \in Skews, InitFixed(size, base)
      PROVE  TypeOK
  <2>1. size \in Nat /\ base \in Nat
    BY ArgsAssumption, AlignAssumption
  <2>2. FixedPad(base) \in Nat
    BY <2>1, PadAligns, LayoutAssumption DEF FixedPad
  <2>3. CASE NoBlocks
    <3>1. PICK error \in Status : InitFields(0, 0, TRUE, TRUE, error)
      BY <1>4, <1>7, Zenon DEF InitFixed
    <3> QED
      BY <1>1, <1>3, <2>3, <3>1
  <2>4. CASE /\ chain = <<>> /\ block = [b \in Blocks |-> Absent] /\ committed = size
             /\ InitFields(0, 0, TRUE, TRUE, "OK")
    <3>1. chain \in Seq(Blocks) /\ block \in [Blocks -> Cell]
      BY <1>2, <2>4
    <3> QED
      BY <1>1, <1>4, <2>1, <2>4, <3>1
  <2>5. ASSUME NEW b \in Blocks, size >= FixedPad(base) + Hdr, chain = <<b>>,
               block = [[c \in Blocks |-> Absent] EXCEPT ![b] =
                 [cap |-> size - FixedPad(base) - Hdr, used |-> 0, oversize |-> FALSE,
                  skew |-> (base + FixedPad(base) + Hdr) % MaxAlign]],
               committed = size, InitFields(0, 0, TRUE, TRUE, "OK")
        PROVE  TypeOK
    <3> DEFINE skew == (base + FixedPad(base) + Hdr) % MaxAlign
    <3>1. skew \in 0..(MaxAlign - 1)
      BY <2>1, <2>2, LayoutAssumption, AlignAssumption
    <3>2. size - FixedPad(base) - Hdr \in Nat
      BY <2>1, <2>2, <2>5, LayoutAssumption
    <3> HIDE DEF skew
    <3>3. [cap |-> size - FixedPad(base) - Hdr, used |-> 0, oversize |-> FALSE,
           skew |-> skew] \in Cell
      BY <3>1, <3>2 DEF Cell
    <3>4. block \in [Blocks -> Cell]
      BY <1>2, <2>5, <3>3 DEF skew
    <3>5. chain \in Seq(Blocks)
      BY <2>5
    <3> QED
      BY <1>1, <1>4, <2>1, <2>5, <3>4, <3>5
  <2> QED
    BY <1>7, <2>3, <2>4, <2>5, Zenon DEF InitFixed
<1> QED
  BY <1>5, <1>6, <1>7 DEF Init

\* Every state of every run of the arena is well typed: no counter the handlers
\* lower (the cursor of a block, the depth, the ledger) goes below zero.
THEOREM TypeCorrect == Spec => []TypeOK
<1>1. Init => TypeOK
  BY InitType
<1>2. TypeOK /\ [Next]_vars => TypeOK'
  BY NextEffect, EffectType
<1> QED
  BY <1>1, <1>2, PTL DEF Spec

-----------------------------------------------------------------------------
(* Lists of blocks *)

LEMMA OwnedType ==
  ASSUME TypeOK
  PROVE  Owned \subseteq Blocks /\ Range(chain) \subseteq Blocks /\ Range(freeList) \subseteq Blocks
BY DEF TypeOK, Owned, Range

LEMMA FrontProperties ==
  ASSUME NEW S, NEW s \in Seq(S), s # <<>>
  PROVE  /\ Len(Front(s)) = Len(s) - 1
         /\ \A i \in 1..(Len(s) - 1) : Front(s)[i] = s[i]
<1> DEFINE n == Len(s) - 1
<1>1. n \in 0..Len(s)
  BY EmptySeq
<1>2. Front(s) = SubSeq(s, 1, n)
  BY Zenon DEF Front
<1> HIDE DEF n
<1>3. /\ Len(SubSeq(s, 1, n)) = n
      /\ \A i \in 1..n : SubSeq(s, 1, n)[i] = s[i]
  BY <1>1
<1> QED
  BY <1>2, <1>3 DEF n

LEMMA RangeConcat ==
  ASSUME NEW S, NEW s \in Seq(S), NEW t \in Seq(S)
  PROVE  Range(s \o t) = Range(s) \cup Range(t)
<1>1. /\ s \o t \in Seq(S)
      /\ Len(s \o t) = Len(s) + Len(t)
      /\ \A j \in 1..(Len(s) + Len(t)) :
           (s \o t)[j] = IF j <= Len(s) THEN s[j] ELSE t[j - Len(s)]
  BY ConcatProperties
<1> DEFINE r == s \o t
<1>2. r \in Seq(S) /\ Len(r) = Len(s) + Len(t)
  BY <1>1
<1>3. \A j \in 1..(Len(s) + Len(t)) : r[j] = IF j <= Len(s) THEN s[j] ELSE t[j - Len(s)]
  BY <1>1
<1> HIDE DEF r
<1>4. ASSUME NEW y \in Range(s)
      PROVE  y \in Range(r)
  <2>1. PICK j \in 1..Len(s) : y = s[j]
    BY DEF Range
  <2>2. r[j] = y /\ j \in 1..Len(r)
    BY <1>2, <1>3, <2>1
  <2> QED
    BY <1>2, <2>2 DEF Range
<1>5. ASSUME NEW y \in Range(t)
      PROVE  y \in Range(r)
  <2>1. PICK j \in 1..Len(t) : y = t[j]
    BY DEF Range
  <2>2. r[Len(s) + j] = y /\ Len(s) + j \in 1..Len(r)
    BY <1>2, <1>3, <2>1
  <2> QED
    BY <1>2, <2>2 DEF Range
<1>6. ASSUME NEW y \in Range(r)
      PROVE  y \in Range(s) \cup Range(t)
  <2>1. PICK j \in 1..(Len(s) + Len(t)) : y = r[j]
    BY <1>2 DEF Range
  <2>2. CASE j <= Len(s)
    BY <1>3, <2>1, <2>2 DEF Range
  <2>3. CASE j > Len(s)
    <3>1. j - Len(s) \in 1..Len(t) /\ y = t[j - Len(s)]
      BY <1>3, <2>1, <2>3
    <3> QED
      BY <3>1 DEF Range
  <2> QED
    BY <2>1, <2>2, <2>3
<1> QED
  BY <1>4, <1>5, <1>6 DEF r

\* Cutting the chain back to chain[k] takes exactly the popped blocks off it.
LEMMA CutChain ==
  ASSUME TypeOK, IsInjective(chain), NEW k \in 0..Len(chain)
  PROVE  /\ SubSeq(chain, 1, k) \in Seq(Blocks) /\ Len(SubSeq(chain, 1, k)) = k
         /\ \A i \in 1..k : SubSeq(chain, 1, k)[i] = chain[i]
         /\ IsInjective(SubSeq(chain, 1, k))
         /\ Popped(k) \subseteq Range(chain)
         /\ Range(SubSeq(chain, 1, k)) = Range(chain) \ Popped(k)
<1> DEFINE c == SubSeq(chain, 1, k)
<1>1. c \in Seq(Blocks) /\ Len(c) = k /\ \A i \in 1..k : c[i] = chain[i]
  BY DEF TypeOK
<1> HIDE DEF c
<1>2. chain \in Seq(Blocks)
  BY DEF TypeOK
<1>3. IsInjective(c)
  BY <1>1, <1>2 DEF IsInjective
<1>4. Popped(k) \subseteq Range(chain)
  BY <1>2 DEF Popped, Range
<1>5. ASSUME NEW y \in Range(c)
      PROVE  y \in Range(chain) \ Popped(k)
  <2>1. PICK i \in 1..k : y = chain[i]
    BY <1>1 DEF Range
  <2>2. y \in Range(chain)
    BY <1>2, <2>1 DEF Range
  <2>3. \A j \in (k + 1)..Len(chain) : y # chain[j]
    BY <1>2, <2>1 DEF IsInjective
  <2> QED
    BY <2>2, <2>3 DEF Popped
<1>6. ASSUME NEW y \in Range(chain) \ Popped(k)
      PROVE  y \in Range(c)
  <2>1. PICK i \in 1..Len(chain) : y = chain[i]
    BY <1>2 DEF Range
  <2>2. i \in 1..k
    BY <1>2, <1>6, <2>1 DEF Popped
  <2> QED
    BY <1>1, <2>1, <2>2 DEF Range
<1> QED
  BY <1>1, <1>3, <1>4, <1>5, <1>6 DEF c

LEMMA PoppedAll ==
  ASSUME TypeOK
  PROVE  Popped(0) = Range(chain)
<1>1. chain \in Seq(Blocks)
  BY DEF TypeOK
<1>2. DOMAIN chain = 1..Len(chain) /\ (0 + 1)..Len(chain) = 1..Len(chain)
  BY <1>1
<1> QED
  BY <1>2, Zenon DEF Popped, Range

-----------------------------------------------------------------------------
(* The ledger *)

LEMMA LentIsLentBy == Lent = LentBy(held, Blocks)
BY DEF Lent, LentBy

\* A step that touches only the used fields of owned blocks.
LEMMA SameBlocksAccounted ==
  ASSUME TypeOK, BlocksAccounted, block' \in [Blocks -> Cell],
         UNCHANGED <<chain, freeList, committed, held, fixed>>,
         \A b \in Blocks : block'[b].cap = block[b].cap,
         \A b \in Blocks \ Owned : block'[b] = block[b]
  PROVE  BlocksAccounted'
<1>1. Owned' = Owned /\ Lent' = Lent
  BY Zenon DEF Owned, Lent, Range
<1> QED
  BY <1>1 DEF BlocksAccounted

\* A block the current one may be: it is on the chain, so it is owned.
LEMMA CurrentOwned ==
  ASSUME TypeOK, chain # <<>>
  PROVE  Current \in Range(chain) /\ Current \in Owned /\ Current \in Blocks
<1>1. Len(chain) \in DOMAIN chain /\ Current = chain[Len(chain)]
  BY DEF TypeOK, Current, Last
<1> QED
  BY <1>1, OwnedType DEF Range, Owned

\* Carving leaves the capacity of every block but b alone, and gives b the cell's.
LEMMA CarveBlock ==
  ASSUME TypeOK, NEW b \in Blocks, NEW cell \in Cell, NEW size, NEW align, NEW old, NEW oldSize,
         Carve(b, cell, size, align, old, oldSize)
  PROVE  /\ \A c \in Blocks \ {b} : block'[c] = block[c]
         /\ block'[b].cap = cell.cap /\ block'[b].oversize = cell.oversize
         /\ block'[b].skew = cell.skew
         /\ block'[b].used = cell.used + Pad(cell, align) + (size + Redzone)
<1>1. block' = [block EXCEPT ![b] = [cell EXCEPT !.used = @ + Pad(cell, align) + (size + Redzone)]]
  BY Zenon DEF Carve
<1> QED
  BY <1>1 DEF TypeOK, Cell

LEMMA EnteredBlock ==
  ASSUME TypeOK, NEW b \in Blocks, NEW cell \in Cell, NEW size, NEW align, NEW old, NEW oldSize,
         BumpEntered(b, cell, size, align, old, oldSize)
  PROVE  /\ chain' = Append(chain, b)
         /\ \A c \in Blocks \ {b} : block'[c] = block[c]
         /\ block'[b].cap = cell.cap /\ block'[b].oversize = cell.oversize
<1>1. chain' = Append(chain, b)
  BY Zenon DEF BumpEntered
<1>2. CASE Carve(b, cell, size, align, old, oldSize)
  BY <1>1, <1>2, CarveBlock
<1>3. CASE block' = [block EXCEPT ![b] = cell]
  BY <1>1, <1>3 DEF TypeOK
<1> QED
  BY <1>2, <1>3, Zenon DEF BumpEntered

\* A retained block moves from the free list to the chain.
LEMMA FreeBlockAccounted ==
  ASSUME TypeOK, TypeOK', BlocksAccounted, NEW i \in DOMAIN freeList,
         freeList' = RemoveAt(freeList, i), chain' = Append(chain, freeList[i]),
         \A c \in Blocks \ {freeList[i]} : block'[c] = block[c],
         block'[freeList[i]].cap = block[freeList[i]].cap,
         UNCHANGED <<committed, held, fixed>>
  PROVE  BlocksAccounted'
<1> DEFINE b == freeList[i]
<1>1. /\ chain \in Seq(Blocks) /\ freeList \in Seq(Blocks) /\ i \in 1..Len(freeList)
      /\ b \in Blocks /\ b \in Range(freeList)
  <2>1. chain \in Seq(Blocks) /\ freeList \in Seq(Blocks)
    BY Zenon DEF TypeOK
  <2>2. b \in Range(freeList)
    BY Zenon DEF Range
  <2> QED
    BY <2>1, <2>2, SMTT(30)
<1>2. IsInjective(chain) /\ IsInjective(freeList) /\ Range(chain) \cap Range(freeList) = {}
  BY DEF BlocksAccounted
<1>3. Range(chain') = Range(chain) \cup {b} /\ IsInjective(chain')
  BY <1>1, <1>2, RangeAppend, InjectiveAppend
<1>4. Range(freeList') = Range(freeList) \ {b} /\ IsInjective(freeList')
  BY <1>1, <1>2, RemoveAtInjective
<1>5. Owned' = Owned /\ Lent' = Lent
  <2>1. Owned' = Range(chain') \cup Range(freeList')
    BY Zenon DEF Owned, Range
  <2>2. Lent' = Lent
    BY Zenon DEF Lent
  <2> QED
    BY <1>1, <1>3, <1>4, <2>1, <2>2 DEF Owned
<1>6. Range(chain)' = Range(chain') /\ Range(freeList)' = Range(freeList')
  BY Zenon DEF Range
<1>7. IsInjective(chain)' /\ IsInjective(freeList)'
  BY <1>3, <1>4, Zenon DEF IsInjective
<1>8. \A c \in Blocks : block'[c].cap = block[c].cap
  OBVIOUS
<1>9. \A c \in Blocks \ Owned : block'[c] = block[c]
  BY <1>1 DEF Owned
<1> QED
  BY <1>2, <1>3, <1>4, <1>5, <1>6, <1>7, <1>8, <1>9 DEF BlocksAccounted

\* A block the parent lent enters the chain.
LEMMA NewBlockAccounted ==
  ASSUME TypeOK, TypeOK', BlocksAccounted, ~fixed, NEW b \in Blocks, NEW n \in Nat,
         held[b] = 0, held' = [held EXCEPT ![b] = n], chain' = Append(chain, b),
         \A c \in Blocks \ {b} : block'[c] = block[c],
         n = Hdr + block'[b].cap, committed' = committed + n,
         UNCHANGED <<freeList, fixed>>
  PROVE  BlocksAccounted'
<1>1. chain \in Seq(Blocks) /\ freeList \in Seq(Blocks)
  BY DEF TypeOK
<1>2. b \notin Owned
  <2>1. held[b] = IF b \in Owned THEN Hdr + block[b].cap ELSE 0
    BY Zenon DEF BlocksAccounted
  <2>2. block[b].cap \in Nat
    BY DEF TypeOK, Cell
  <2> QED
    BY <2>1, <2>2, LayoutAssumption
<1>3. b \notin Range(chain) /\ b \notin Range(freeList)
  BY <1>2 DEF Owned
<1>4. IsInjective(chain) /\ IsInjective(freeList) /\ Range(chain) \cap Range(freeList) = {}
  BY DEF BlocksAccounted
<1>5. Range(chain') = Range(chain) \cup {b} /\ IsInjective(chain')
  BY <1>1, <1>3, <1>4, RangeAppend, InjectiveAppend
<1>6. Range(chain)' = Range(chain') /\ Range(freeList)' = Range(freeList)
  BY Zenon DEF Range
<1>7. IsInjective(chain)' /\ IsInjective(freeList)'
  BY <1>4, <1>5, Zenon DEF IsInjective
<1>8. Owned' = Owned \cup {b}
  BY <1>5, <1>6 DEF Owned
<1>9. committed' = Cardinality(Lent')
  <2>1. held \in [Blocks -> Nat]
    BY DEF TypeOK
  <2>2. Cardinality(LentBy([held EXCEPT ![b] = n], Blocks)) = Cardinality(LentBy(held, Blocks)) + n
    BY <2>1, BlocksAssumption, LendCounts
  <2>3. Lent' = LentBy(held', Blocks)
    BY Zenon DEF Lent, LentBy
  <2>4. committed = Cardinality(LentBy(held, Blocks))
    BY LentIsLentBy DEF BlocksAccounted
  <2> QED
    BY <2>2, <2>3, <2>4
<1>10. \A c \in Blocks : held'[c] = IF c \in Owned' /\ ~fixed' THEN Hdr + block'[c].cap ELSE 0
  <2>1. \A c \in Blocks : held[c] = IF c \in Owned THEN Hdr + block[c].cap ELSE 0
    BY DEF BlocksAccounted
  <2>2. \A c \in Blocks : held'[c] = IF c = b THEN n ELSE held[c]
    BY DEF TypeOK
  <2> QED
    BY <1>8, <2>1, <2>2
<1>11. \A c \in Blocks \ Owned' : block'[c] = Absent
  BY <1>8 DEF BlocksAccounted
<1> QED
  BY <1>3, <1>4, <1>5, <1>6, <1>7, <1>9, <1>10, <1>11 DEF BlocksAccounted, Absent

\* A step that takes the blocks of S off the chain, to the parent or to the
\* free list, and rewinds or releases each.
LEMMA DiscardAccounted ==
  ASSUME TypeOK, TypeOK', BlocksAccounted, NEW S \in SUBSET Range(chain),
         Discard(S), IsInjective(chain'), Range(chain') = Range(chain) \ S,
         \A b \in S : block'[b] = Discarded(b),
         \A b \in Blocks \ S : block'[b].cap = block[b].cap,
         \A b \in Blocks \ Owned : block'[b] = block[b],
         fixed' = fixed
  PROVE  BlocksAccounted'
<1> DEFINE normal == {b \in S : ~block[b].oversize}
           gone   == S \ normal
<1>1. /\ S \subseteq Blocks /\ normal \subseteq Blocks /\ gone \subseteq Blocks
      /\ IsFiniteSet(normal)
  BY OwnedType, BlocksAssumption, FS_Subset
<1>2. IsInjective(freeList) /\ Range(chain) \cap Range(freeList) = {}
  BY DEF BlocksAccounted
<1>3. PICK order \in SetToSeqs(normal) : freeList' = order \o freeList
  BY DEF Discard
<1>4. order \in Seq(Blocks) /\ IsInjective(order) /\ Range(order) = normal
  <2>1. order \in Seq(normal) /\ IsInjective(order) /\ Range(order) = normal
    BY <1>1, <1>3, SetToSeqsProperties
  <2> QED
    BY <1>1, <2>1, SeqMonotonic
<1>5. freeList \in Seq(Blocks)
  BY DEF TypeOK
<1>6. IsInjective(freeList') /\ Range(freeList') = normal \cup Range(freeList)
  <2>1. Range(order) \cap Range(freeList) = {}
    BY <1>2, <1>4
  <2> QED
    BY <1>2, <1>3, <1>4, <1>5, <2>1, InjectiveConcat, RangeConcat
<1>7. Range(chain)' = Range(chain') /\ Range(freeList)' = Range(freeList')
  BY Zenon DEF Range
<1>8. IsInjective(chain)' /\ IsInjective(freeList)'
  BY <1>6, Zenon DEF IsInjective
<1>9. Owned' = Owned \ gone
  BY <1>2, <1>6, <1>7 DEF Owned
<1>10. /\ held' = [b \in Blocks |-> IF b \in gone THEN 0 ELSE held[b]]
       /\ committed' = committed - Footprint(gone)
  BY Zenon DEF Discard, Release
<1>11. \A b \in Blocks : held[b] = IF b \in Owned /\ ~fixed THEN Hdr + block[b].cap ELSE 0
  BY Zenon DEF BlocksAccounted
<1>12. \A b \in Blocks \ gone : block'[b].cap = block[b].cap
  <2>1. ASSUME NEW b \in normal
        PROVE  block'[b].cap = block[b].cap
    <3>1. block'[b] = [block[b] EXCEPT !.used = 0]
      BY Zenon DEF Discarded
    <3>2. block[b] \in Cell
      BY <1>1 DEF TypeOK
    <3> QED
      BY <3>1, <3>2 DEF Cell
  <2> QED
    BY <2>1
<1>13. \A b \in gone : block'[b] = Absent
  BY DEF Discarded
<1> HIDE DEF normal, gone
<1>14. \A b \in Blocks : held'[b] = IF b \in Owned' /\ ~fixed' THEN Hdr + block'[b].cap ELSE 0
  BY <1>9, <1>10, <1>11, <1>12
<1>15. \A b \in Blocks \ Owned' : block'[b] = Absent
  BY <1>9, <1>13 DEF BlocksAccounted
<1>16. ASSUME ~fixed
       PROVE  committed' = Cardinality(Lent')
  <2>1. held \in [Blocks -> Nat]
    BY DEF TypeOK
  <2>2. Cardinality(LentBy([b \in Blocks |-> IF b \in gone THEN 0 ELSE held[b]], Blocks))
          = Cardinality(LentBy(held, Blocks)) - Cardinality(LentBy(held, gone))
    BY <1>1, <2>1, BlocksAssumption, ReturnCounts
  <2>3. gone \subseteq Owned
    BY DEF gone, Owned
  <2>4. \A b \in gone : held[b] = Hdr + block[b].cap
    BY <1>1, <1>11, <1>16, <2>3
  <2>5. Footprint(gone) = Cardinality(LentBy(held, gone))
    BY <2>4, FootprintIsLent
  <2>6. Lent' = LentBy(held', Blocks)
    BY Zenon DEF Lent, LentBy
  <2>7. committed = Cardinality(LentBy(held, Blocks))
    BY <1>16, LentIsLentBy DEF BlocksAccounted
  <2> QED
    BY <1>10, <2>2, <2>5, <2>6, <2>7
<1>17. Range(chain)' \cap Range(freeList)' = {}
  BY <1>2, <1>6, <1>7 DEF normal
<1> QED
  BY <1>8, <1>14, <1>15, <1>16, <1>17 DEF BlocksAccounted, Absent

-----------------------------------------------------------------------------
(* Each effect keeps the ledger. *)

LEMMA ServedAccounted ==
  ASSUME TypeOK, TypeOK', BlocksAccounted, Served
  PROVE  BlocksAccounted'
<1>1. PICK size \in Nat, align \in Nat, old \in SUBSET live, oldSize \in Nat :
        /\ CoreArgs(size, align, old, oldSize)
        /\ \/ BumpCurrent(size, align, old, oldSize)
           \/ Grown(size, align, old, oldSize)
  BY DEF Served
<1>2. CASE BumpCurrent(size, align, old, oldSize)
  <2>1. /\ chain # <<>> /\ Carve(Current, block[Current], size, align, old, oldSize)
        /\ UNCHANGED <<chain, freeList, committed, held, policy>>
    BY <1>2, Zenon DEF BumpCurrent, FitsCurrent
  <2>2. Current \in Owned /\ Current \in Blocks
    BY <2>1, CurrentOwned
  <2>3. block[Current] \in Cell /\ block' \in [Blocks -> Cell]
    BY <2>2 DEF TypeOK
  <2>4. /\ \A c \in Blocks \ {Current} : block'[c] = block[c]
        /\ block'[Current].cap = block[Current].cap
    BY <2>1, <2>2, <2>3, CarveBlock
  <2>5. \A c \in Blocks : block'[c].cap = block[c].cap
    BY <2>4, Zenon
  <2>6. \A c \in Blocks \ Owned : block'[c] = block[c]
    BY <2>2, <2>4, Zenon
  <2>7. UNCHANGED <<chain, freeList, committed, held, fixed>>
    BY <2>1, Zenon DEF policy
  <2> QED
    BY <2>3, <2>5, <2>6, <2>7, SameBlocksAccounted
<1>3. CASE TakeFreeBlock(size, align, old, oldSize)
  <2>1. PICK i \in DOMAIN freeList :
          /\ freeList' = RemoveAt(freeList, i)
          /\ BumpEntered(freeList[i], block[freeList[i]], size, align, old, oldSize)
    BY <1>3 DEF TakeFreeBlock
  <2>2. freeList[i] \in Blocks /\ block[freeList[i]] \in Cell
    <3>1. freeList \in Seq(Blocks) /\ block \in [Blocks -> Cell]
      BY Zenon DEF TypeOK
    <3>2. freeList[i] \in Blocks
      <4> HIDE <2>1
      <4> QED
        BY <3>1
    <3> QED
      BY <3>1, <3>2, Zenon
  <2>3. /\ chain' = Append(chain, freeList[i])
        /\ \A c \in Blocks \ {freeList[i]} : block'[c] = block[c]
        /\ block'[freeList[i]].cap = block[freeList[i]].cap
    BY <2>1, <2>2, EnteredBlock
  <2>4. UNCHANGED <<committed, held, fixed>>
    BY <1>3, Zenon DEF TakeFreeBlock, policy
  <2> QED
    BY <2>1, <2>3, <2>4, FreeBlockAccounted
<1>4. CASE ~fixed /\ TakeNewBlock(size, align, old, oldSize)
  <2> DEFINE n == NewBlockSize(DataNeed(size, align))
  <2>1. PICK b \in Blocks, skew \in Skews :
          /\ held[b] = 0 /\ held' = [held EXCEPT ![b] = n]
          /\ BumpEntered(b, NewCell(size, align, skew), size, align, old, oldSize)
    BY <1>4 DEF TakeNewBlock, NewCell
  <2>2. size \in Nat \ {0} /\ align \in 1..MaxAlign
    BY <1>1 DEF CoreArgs
  <2>3. NewCell(size, align, skew) \in Cell /\ n \in Nat
    BY <2>2, NewCellType
  <2>4. /\ chain' = Append(chain, b)
        /\ \A c \in Blocks \ {b} : block'[c] = block[c]
        /\ block'[b].cap = NewCell(size, align, skew).cap
    BY <2>1, <2>3, EnteredBlock
  <2>5. n = Hdr + block'[b].cap
    <3>1. NewCell(size, align, skew).cap = n - Hdr
      BY Zenon DEF NewCell
    <3> HIDE DEF n
    <3> QED
      BY <2>3, <2>4, <3>1, LayoutAssumption
  <2>6. committed' = committed + n /\ UNCHANGED <<freeList, fixed>>
    BY <1>4, Zenon DEF TakeNewBlock, policy
  <2> HIDE DEF n
  <2> QED
    BY <1>4, <2>1, <2>3, <2>4, <2>5, <2>6, NewBlockAccounted
<1> QED
  BY <1>1, <1>2, <1>3, <1>4, Zenon DEF Grown

\* The block of a region that is the last allocation is the current one.
LEMMA LastBlock ==
  ASSUME TypeOK, NEW x \in live, IsLastAlloc(x)
  PROVE  x.blk = Current /\ x.blk \in Blocks /\ x.blk \in Owned /\ chain # <<>>
<1>1. chain # <<>> /\ x.blk = Current
  BY Zenon DEF IsLastAlloc
<1> QED
  BY <1>1, CurrentOwned

LEMMA ResizedAccounted ==
  ASSUME TypeOK, TypeOK', BlocksAccounted, Resized
  PROVE  BlocksAccounted'
<1>1. PICK x \in live, newSize \in Nat \ {0} : CanResize(x, newSize) /\ ResizeInPlace(x, newSize)
  BY DEF Resized
<1>2. x.blk \in Blocks /\ x.blk \in Owned
  BY <1>1, LastBlock DEF CanResize
<1>3. block' = [block EXCEPT ![x.blk] = [block[x.blk] EXCEPT !.used = @ + (newSize - x.size)]]
  BY <1>1 DEF ResizeInPlace
<1>4. UNCHANGED <<chain, freeList, committed, held, fixed>>
  BY <1>1, Zenon DEF ResizeInPlace, policy
<1>5. /\ \A b \in Blocks : block'[b].cap = block[b].cap
      /\ \A b \in Blocks \ Owned : block'[b] = block[b]
  BY <1>2, <1>3 DEF TypeOK, Cell
<1> QED
  BY <1>4, <1>5, SameBlocksAccounted DEF TypeOK

LEMMA RolledBackAccounted ==
  ASSUME TypeOK, TypeOK', BlocksAccounted, RolledBack
  PROVE  BlocksAccounted'
<1>1. PICK x \in live : RollBack(x)
  BY DEF RolledBack
<1>2. IsLastAlloc(x)
  BY <1>1, Zenon DEF RollBack
<1>3. x.blk \in Blocks /\ x.blk \in Owned
  BY <1>2, LastBlock
<1>4. block' = [block EXCEPT ![x.blk].used = x.off]
  BY <1>1, Zenon DEF RollBack
<1>5. UNCHANGED <<chain, freeList, committed, held, fixed>>
  BY <1>1, Zenon DEF RollBack, policy
<1>6. /\ \A b \in Blocks : block'[b].cap = block[b].cap
      /\ \A b \in Blocks \ Owned : block'[b] = block[b]
  BY <1>3, <1>4 DEF TypeOK, Cell
<1> QED
  BY <1>5, <1>6, SameBlocksAccounted DEF TypeOK

LEMMA TempEndAccounted ==
  ASSUME TypeOK, TypeOK', BlocksAccounted, TempEnd
  PROVE  BlocksAccounted'
<1> DEFINE t == Last(scopes)
<1>1. CASE UNCHANGED <<heap, stats, policy, temp_depth, generation, status>>
  <2>1. UNCHANGED <<chain, freeList, block, committed, held, fixed>>
    BY <1>1, Zenon DEF heap, policy
  <2> QED
    BY <2>1, SameBlocksAccounted DEF TypeOK
<1>2. ASSUME NEW k \in 0..Len(chain), StopAt(t, k), Rewind(t, k)
      PROVE  BlocksAccounted'
  <2>1. /\ Discard(Popped(k)) /\ chain' = SubSeq(chain, 1, k) /\ UNCHANGED policy
        /\ block' = [b \in Blocks |->
                       IF b \in Popped(k) THEN Discarded(b)
                       ELSE IF k > 0 /\ b = chain[k]
                            THEN [block[b] EXCEPT !.used = Smaller(@, t.block_used)]
                            ELSE block[b]]
    BY <1>2, Zenon DEF Rewind
  <2>2. IsInjective(chain)
    BY DEF BlocksAccounted
  <2>3. /\ Popped(k) \subseteq Range(chain) /\ IsInjective(chain')
        /\ Range(chain') = Range(chain) \ Popped(k)
    BY <2>1, <2>2, CutChain
  <2>4. k > 0 => chain[k] \in Owned
    BY SMTT(30) DEF TypeOK, Owned, Range
  <2>5. \A b \in Blocks \ Popped(k) : block'[b].cap = block[b].cap
    BY <2>1, SMTT(30) DEF TypeOK, Cell
  <2>6. Popped(k) \subseteq Owned /\ Popped(k) \subseteq Blocks
    BY <2>3, OwnedType DEF Owned
  <2>7. \A b \in Blocks \ Owned : block'[b] = block[b]
    BY <2>1, <2>4, <2>6
  <2>8. \A b \in Popped(k) : block'[b] = Discarded(b)
    BY <2>1, <2>6
  <2>9. fixed' = fixed
    BY <2>1 DEF policy
  <2> QED
    BY <2>1, <2>3, <2>5, <2>7, <2>8, <2>9, DiscardAccounted
<1> QED
  BY <1>1, <1>2, Zenon DEF TempEnd

LEMMA ResetAccounted ==
  ASSUME TypeOK, TypeOK', BlocksAccounted, Reset
  PROVE  BlocksAccounted'
<1>1. fixed' = fixed
  BY Zenon DEF Reset, policy
<1>2. CASE fixed
  <2>1. /\ block' = [b \in Blocks |-> [block[b] EXCEPT !.used = 0]]
        /\ UNCHANGED <<chain, freeList, committed, held>>
    BY <1>2, Zenon DEF Reset
  <2>2. \A b \in Blocks : block'[b].cap = block[b].cap
    BY <2>1 DEF TypeOK, Cell
  <2>3. \A b \in Blocks \ Owned : block'[b] = block[b]
    BY <2>1 DEF BlocksAccounted, Absent
  <2> QED
    BY <1>1, <2>1, <2>2, <2>3, SameBlocksAccounted DEF TypeOK
<1>3. CASE ~fixed
  <2>1. PICK k \in 0..Len(chain) :
          /\ chain' = IF k = 0 THEN <<>> ELSE <<chain[k]>>
          /\ OldestNormal(k)
          /\ Discard(Popped(0) \ (IF k = 0 THEN {} ELSE {chain[k]}))
          /\ block' = [b \in Blocks |-> IF b \in Popped(0) THEN Discarded(b)
                                                           ELSE block[b]]
    BY <1>3, Zenon DEF Reset
  <2> DEFINE S == Popped(0) \ (IF k = 0 THEN {} ELSE {chain[k]})
  <2>2. Popped(0) = Range(chain) /\ Popped(0) \subseteq Blocks /\ Popped(0) \subseteq Owned
    BY PoppedAll, OwnedType DEF Owned
  <2>3. k > 0 => chain[k] \in Popped(0)
    BY DEF Popped
  <2>4. IsInjective(chain') /\ Range(chain') = Range(chain) \ S
    <3>1. CASE k = 0
      <4>1. Range(<<>>) = {} /\ IsInjective(<<>>)
        BY DEF Range, IsInjective
      <4> QED
        BY <2>1, <2>2, <3>1, <4>1
    <3>2. CASE k > 0
      <4>1. Range(<<chain[k]>>) = {chain[k]} /\ IsInjective(<<chain[k]>>)
        BY DEF Range, IsInjective
      <4> QED
        BY <2>1, <2>2, <2>3, <3>2, <4>1
    <3> QED
      BY <3>1, <3>2
  <2>5. \A b \in Blocks \ S : block'[b].cap = block[b].cap
    <3>1. ASSUME NEW b \in Blocks \ S, b \in Popped(0)
          PROVE  block'[b].cap = block[b].cap
      <4>1. k > 0 /\ b = chain[k] /\ ~block[b].oversize
        BY <2>1, <3>1 DEF OldestNormal
      <4>2. block'[b] = [block[b] EXCEPT !.used = 0]
        BY <2>1, <3>1, <4>1 DEF Discarded
      <4> QED
        BY <3>1, <4>2 DEF TypeOK, Cell
    <3> QED
      BY <2>1, <3>1
  <2>6. \A b \in S : block'[b] = Discarded(b)
    BY <2>1, <2>2
  <2>7. \A b \in Blocks \ Owned : block'[b] = block[b]
    BY <2>1, <2>2
  <2>8. S \subseteq Range(chain) /\ Discard(S)
    BY <2>1, <2>2
  <2> HIDE DEF S
  <2> QED
    BY <1>1, <2>4, <2>5, <2>6, <2>7, <2>8, DiscardAccounted
<1> QED
  BY <1>2, <1>3

LEMMA TrimAccounted ==
  ASSUME TypeOK, TypeOK', BlocksAccounted, Trim
  PROVE  BlocksAccounted'
<1> DEFINE S == Range(freeList)
<1>1. CASE NoEffect
  <2>1. UNCHANGED <<chain, freeList, block, committed, held, fixed>>
    BY <1>1, Zenon DEF NoEffect, vars, heap, policy
  <2> QED
    BY <2>1, SameBlocksAccounted DEF TypeOK
<1>2. CASE /\ ~fixed /\ Release(S) /\ freeList' = <<>>
           /\ block' = [b \in Blocks |-> IF b \in S THEN Absent ELSE block[b]]
           /\ UNCHANGED <<chain, next_block, stats, policy, epoch, status, aborted>>
  <2>1. /\ committed' = committed - Footprint(S)
        /\ held' = [b \in Blocks |-> IF b \in S THEN 0 ELSE held[b]]
        /\ chain' = chain /\ fixed' = fixed
    BY <1>2, Zenon DEF Release, policy
  <2>2. /\ IsInjective(chain) /\ Range(chain) \cap S = {}
        /\ \A b \in Blocks : held[b] = IF b \in Owned THEN Hdr + block[b].cap ELSE 0
        /\ \A b \in Blocks \ Owned : block[b] = Absent
        /\ committed = Cardinality(LentBy(held, Blocks))
    BY <1>2, LentIsLentBy, Zenon DEF BlocksAccounted
  <2>3. S \subseteq Blocks /\ S \subseteq Owned
    BY OwnedType DEF Owned
  <2>4. Range(freeList)' = {} /\ IsInjective(freeList)'
    BY <1>2 DEF Range, IsInjective
  <2>5. Range(chain)' = Range(chain) /\ IsInjective(chain)'
    BY <2>1, <2>2, Zenon DEF Range, IsInjective
  <2>6. Owned' = Owned \ S
    BY <2>2, <2>4, <2>5 DEF Owned
  <2>7. committed' = Cardinality(Lent')
    <3>1. held \in [Blocks -> Nat]
      BY DEF TypeOK
    <3>2. Cardinality(LentBy([b \in Blocks |-> IF b \in S THEN 0 ELSE held[b]], Blocks))
            = Cardinality(LentBy(held, Blocks)) - Cardinality(LentBy(held, S))
      BY <2>3, <3>1, BlocksAssumption, ReturnCounts
    <3>3. Footprint(S) = Cardinality(LentBy(held, S))
      BY <2>2, <2>3, FootprintIsLent
    <3>4. Lent' = LentBy(held', Blocks)
      BY Zenon DEF Lent, LentBy
    <3> HIDE DEF S
    <3> QED
      BY <2>1, <2>2, <3>2, <3>3, <3>4
  <2>8. \A b \in Blocks : held'[b] = IF b \in Owned' /\ ~fixed' THEN Hdr + block'[b].cap ELSE 0
    BY <1>2, <2>1, <2>2, <2>3, <2>6
  <2>9. \A b \in Blocks \ Owned' : block'[b] = Absent
    BY <1>2, <2>2, <2>6
  <2> QED
    BY <2>4, <2>5, <2>7, <2>8, <2>9 DEF BlocksAccounted, Absent
<1> QED
  BY <1>1, <1>2, Zenon DEF Trim

\* An arena without blocks.
LEMMA EmptyAccounted ==
  ASSUME chain = <<>>, freeList = <<>>, block = [b \in Blocks |-> Absent],
         held = [b \in Blocks |-> 0], fixed \/ committed = 0
  PROVE  BlocksAccounted
<1>1. Range(chain) = {} /\ Range(freeList) = {} /\ IsInjective(chain) /\ IsInjective(freeList)
  BY DEF Range, IsInjective
<1>2. Owned = {}
  BY <1>1 DEF Owned
<1>3. Cardinality(Lent) = 0
  <2>1. Lent = {}
    BY DEF Lent
  <2> QED
    BY <2>1, FS_EmptySet, Zenon
<1> QED
  BY <1>1, <1>2, <1>3 DEF BlocksAccounted

LEMMA DeinitAccounted ==
  ASSUME TypeOK, TypeOK', BlocksAccounted, Deinit
  PROVE  BlocksAccounted'
<1>1. /\ chain' = <<>> /\ freeList' = <<>> /\ block' = [b \in Blocks |-> Absent]
      /\ committed' = 0
      /\ held' = [b \in Blocks |->
           IF ~fixed /\ b \in Range(chain) \cup Range(freeList) THEN 0 ELSE held[b]]
  BY Zenon DEF Deinit
<1>2. held' = [b \in Blocks |-> 0]
  BY <1>1 DEF BlocksAccounted, Owned
<1>3. Range(chain') = {} /\ Range(freeList') = {} /\ IsInjective(chain') /\ IsInjective(freeList')
  BY <1>1 DEF Range, IsInjective
<1>4. /\ Range(chain)' = {} /\ Range(freeList)' = {}
      /\ IsInjective(chain)' /\ IsInjective(freeList)'
  BY <1>3, Zenon DEF Range, IsInjective
<1>5. Owned' = {}
  BY <1>4 DEF Owned
<1>6. Cardinality(Lent') = 0
  <2>1. Lent' = {}
    BY <1>2 DEF Lent
  <2> QED
    BY <2>1, FS_EmptySet, Zenon
<1> QED
  BY <1>1, <1>2, <1>4, <1>5, <1>6 DEF BlocksAccounted, Absent

LEMMA EffectAccounted ==
  ASSUME TypeOK, TypeOK', BlocksAccounted, Effect
  PROVE  BlocksAccounted'
<1>1. CASE UNCHANGED <<heap, policy>>
  <2>1. UNCHANGED <<chain, freeList, block, committed, held, fixed>>
    BY <1>1, Zenon DEF heap, policy
  <2> QED
    BY <2>1, SameBlocksAccounted DEF TypeOK
<1>2. NoEffect \/ Failed \/ TempBegin \/ ClearError => UNCHANGED <<heap, policy>>
  BY Zenon DEF NoEffect, vars, Failed, Fail, TempBegin, ClearError
<1> QED
  BY <1>1, <1>2, ServedAccounted, ResizedAccounted, RolledBackAccounted, TempEndAccounted,
     ResetAccounted, TrimAccounted, DeinitAccounted DEF Effect

LEMMA InitAccounted ==
  ASSUME Init
  PROVE  BlocksAccounted
<1>1. /\ freeList = <<>> /\ held = [b \in Blocks |-> 0]
  BY Zenon DEF Init, InitDefault, InitSized, InitFixed, InitFields
<1>2. CASE NoBlocks
  BY <1>1, <1>2, EmptyAccounted DEF NoBlocks
<1>3. ASSUME NEW size \in BufferSizes, NEW base \in Skews, InitFixed(size, base)
      PROVE  BlocksAccounted
  <2>1. fixed = TRUE
    BY <1>3, Zenon DEF InitFixed, InitFields
  <2>2. CASE NoBlocks
    BY <1>1, <2>2, EmptyAccounted DEF NoBlocks
  <2>3. CASE chain = <<>> /\ block = [b \in Blocks |-> Absent]
    BY <1>1, <2>1, <2>3, EmptyAccounted
  <2>4. ASSUME NEW b \in Blocks, NEW cell,
               chain = <<b>>, block = [[c \in Blocks |-> Absent] EXCEPT ![b] = cell]
        PROVE  BlocksAccounted
    <3>1. Range(chain) = {b} /\ IsInjective(chain)
      BY <2>4 DEF Range, IsInjective
    <3>2. Range(freeList) = {} /\ IsInjective(freeList)
      BY <1>1 DEF Range, IsInjective
    <3>3. Owned = {b}
      BY <3>1, <3>2 DEF Owned
    <3>4. \A c \in Blocks \ Owned : block[c] = Absent
      BY <2>4, <3>3
    <3> QED
      BY <1>1, <2>1, <3>1, <3>2, <3>4 DEF BlocksAccounted
  <2> QED
    BY <1>3, <2>2, <2>3, <2>4, Zenon DEF InitFixed
<1> QED
  BY <1>2, <1>3, Zenon DEF Init, InitDefault, InitSized

\* No order of growth, rewinds, resets, trims and deinits loses a block, lists one
\* twice or returns it to the parent with another size than it was lent with, and
\* committed is always the number of bytes the parent lent.
THEOREM BlocksAlwaysAccounted == Spec => []BlocksAccounted
<1>1. Init => BlocksAccounted
  BY InitAccounted
<1>2. TypeOK /\ TypeOK' /\ BlocksAccounted /\ [Next]_vars => BlocksAccounted'
  BY NextEffect, EffectAccounted
<1> QED
  BY <1>1, <1>2, TypeCorrect, PTL DEF Spec

-----------------------------------------------------------------------------
(* What the arena retains for reuse is clean.  That nothing is ever retained *)
(* in a fixed arena needs one fact more: a scope of a fixed arena with a     *)
(* block names that block, so its end pops nothing.                          *)

(* The parts of FreeListClean *)

Growth == next_block <= max_block
FixedKeepsNothing == fixed => freeList = <<>>
NormalBounded ==
  \A b \in Owned : ~fixed /\ ~block[b].oversize => Hdr + block[b].cap <= next_block
RetainedRewound == \A b \in Range(freeList) : block[b].used = 0 /\ ~block[b].oversize

\* A fixed arena has at most its one block, and the scopes opened on it name it.
FixedChain ==
  fixed => /\ Len(chain) <= 1
           /\ chain # <<>> => \A i \in 1..Len(scopes) : scopes[i].block # NULL

RetainedInv == FreeListClean /\ FixedChain

LEMMA CleanParts ==
  FreeListClean <=> Growth /\ FixedKeepsNothing /\ NormalBounded /\ RetainedRewound
BY Zenon DEF FreeListClean, Growth, FixedKeepsNothing, NormalBounded, RetainedRewound

LEMMA CleanPartsPrime ==
  FreeListClean' <=> Growth' /\ FixedKeepsNothing' /\ NormalBounded' /\ RetainedRewound'
BY Zenon DEF FreeListClean, Growth, FixedKeepsNothing, NormalBounded, RetainedRewound

\* What is a normal block after the step was one of this size before.
SameKind(b) ==
  ~block'[b].oversize => ~block[b].oversize /\ block'[b].cap = block[b].cap

\* A step that gains no block and retains only rewound normal ones.
LEMMA NothingGained ==
  ASSUME TypeOK, FreeListClean, UNCHANGED <<fixed, next_block, max_block>>,
         Owned' \subseteq Owned, \A b \in Owned' : SameKind(b),
         fixed => freeList' = <<>>,
         \A b \in Range(freeList)' : block'[b].used = 0 /\ ~block'[b].oversize
  PROVE  FreeListClean'
<1>1. Growth' /\ FixedKeepsNothing'
  BY CleanParts, Zenon DEF Growth, FixedKeepsNothing
<1>2. NormalBounded'
  BY CleanParts DEF NormalBounded, SameKind
<1>3. RetainedRewound'
  BY DEF RetainedRewound
<1> QED
  BY <1>1, <1>2, <1>3, CleanPartsPrime

\* A step that works on blocks of the chain only.
LEMMA ChainWorked ==
  ASSUME TypeOK, BlocksAccounted, FreeListClean,
         UNCHANGED <<chain, freeList, fixed, next_block, max_block>>,
         \A b \in Owned : SameKind(b),
         \A b \in Range(freeList) : block'[b] = block[b]
  PROVE  FreeListClean'
<1>1. Range(freeList)' = Range(freeList) /\ Owned' = Owned
  BY Zenon DEF Range, Owned
<1>2. (fixed => freeList = <<>>) /\ RetainedRewound
  BY CleanParts DEF FixedKeepsNothing
<1>3. \A b \in Range(freeList)' : block'[b].used = 0 /\ ~block'[b].oversize
  BY <1>1, <1>2 DEF RetainedRewound
<1> QED
  BY <1>1, <1>2, <1>3, NothingGained

-----------------------------------------------------------------------------
(* Allocation *)

LEMMA ServedClean ==
  ASSUME TypeOK, TypeOK', BlocksAccounted, FreeListClean, Served
  PROVE  FreeListClean'
<1>1. PICK size \in Nat, align \in Nat, old \in SUBSET live, oldSize \in Nat :
        /\ CoreArgs(size, align, old, oldSize)
        /\ \/ BumpCurrent(size, align, old, oldSize)
           \/ Grown(size, align, old, oldSize)
  BY DEF Served
<1>2. Range(chain) \cap Range(freeList) = {} /\ Range(freeList) \subseteq Blocks
  BY OwnedType DEF BlocksAccounted
<1>3. CASE BumpCurrent(size, align, old, oldSize)
  <2>1. /\ chain # <<>> /\ Carve(Current, block[Current], size, align, old, oldSize)
        /\ UNCHANGED <<chain, freeList, next_block, policy>>
    BY <1>3, Zenon DEF BumpCurrent, FitsCurrent
  <2>2. Current \in Range(chain) /\ Current \in Blocks
    BY <2>1, CurrentOwned
  <2>3. block[Current] \in Cell
    BY <2>2 DEF TypeOK
  <2>4. /\ \A c \in Blocks \ {Current} : block'[c] = block[c]
        /\ block'[Current].cap = block[Current].cap
        /\ block'[Current].oversize = block[Current].oversize
    BY <2>1, <2>2, <2>3, CarveBlock
  <2>5. \A b \in Owned : SameKind(b)
    BY <2>4, OwnedType DEF SameKind
  <2>6. \A b \in Range(freeList) : block'[b] = block[b]
    BY <1>2, <2>2, <2>4
  <2>7. UNCHANGED <<chain, freeList, fixed, next_block, max_block>>
    BY <2>1, Zenon DEF policy
  <2> QED
    BY <2>5, <2>6, <2>7, ChainWorked
<1>4. CASE ~fixed /\ TakeFreeBlock(size, align, old, oldSize)
  <2>1. PICK i \in DOMAIN freeList :
          /\ freeList' = RemoveAt(freeList, i)
          /\ BumpEntered(freeList[i], block[freeList[i]], size, align, old, oldSize)
    BY <1>4 DEF TakeFreeBlock
  <2>2. chain \in Seq(Blocks) /\ freeList \in Seq(Blocks) /\ IsInjective(freeList)
    BY DEF TypeOK, BlocksAccounted
  <2> DEFINE b == freeList[i]
  <2>3. i \in 1..Len(freeList) /\ b \in Blocks /\ b \in Range(freeList)
    <3>1. i \in 1..Len(freeList) /\ b \in Blocks
      <4> HIDE <2>1
      <4> QED
        BY <2>2
    <3> QED
      BY <3>1, Zenon DEF Range
  <2>4. block[b] \in Cell
    BY <2>3 DEF TypeOK
  <2>5. /\ chain' = Append(chain, b)
        /\ \A c \in Blocks \ {b} : block'[c] = block[c]
        /\ block'[b].cap = block[b].cap /\ block'[b].oversize = block[b].oversize
    BY <2>1, <2>3, <2>4, EnteredBlock
  <2>6. Range(freeList') = Range(freeList) \ {b} /\ Range(chain') = Range(chain) \cup {b}
    BY <2>1, <2>2, <2>3, <2>5, RemoveAtInjective, RangeAppend
  <2>7. Range(freeList)' = Range(freeList') /\ Range(chain)' = Range(chain')
    BY Zenon DEF Range
  <2>8. Owned' = Owned
    BY <2>3, <2>6, <2>7 DEF Owned
  <2>9. UNCHANGED <<fixed, next_block, max_block>>
    BY <1>4, Zenon DEF TakeFreeBlock, policy
  <2>10. \A c \in Owned' : SameKind(c)
    BY <2>5, <2>8, OwnedType DEF SameKind
  <2>11. \A c \in Range(freeList)' : block'[c].used = 0 /\ ~block'[c].oversize
    BY <1>2, <2>5, <2>6, <2>7, CleanParts DEF RetainedRewound
  <2> QED
    BY <1>4, <2>8, <2>9, <2>10, <2>11, NothingGained
<1>5. CASE ~fixed /\ TakeNewBlock(size, align, old, oldSize)
  <2> DEFINE n == NewBlockSize(DataNeed(size, align))
  <2>1. PICK b \in Blocks, skew \in Skews :
          /\ held[b] = 0
          /\ BumpEntered(b, NewCell(size, align, skew), size, align, old, oldSize)
    BY <1>5 DEF TakeNewBlock, NewCell
  <2>2. size \in Nat \ {0} /\ align \in 1..MaxAlign
    BY <1>1 DEF CoreArgs
  <2>3. NewCell(size, align, skew) \in Cell /\ n \in Nat
    BY <2>2, NewCellType
  <2>4. /\ chain' = Append(chain, b)
        /\ \A c \in Blocks \ {b} : block'[c] = block[c]
        /\ block'[b].cap = n - Hdr /\ block'[b].oversize = (n # next_block)
    BY <2>1, <2>3, EnteredBlock, Zenon DEF NewCell
  <2>5. b \notin Owned
    <3>1. held[b] = IF b \in Owned /\ ~fixed THEN Hdr + block[b].cap ELSE 0
      BY Zenon DEF BlocksAccounted
    <3>2. block[b].cap \in Nat
      BY DEF TypeOK, Cell
    <3> QED
      BY <1>5, <2>1, <3>1, <3>2, LayoutAssumption
  <2>6. /\ next_block' = IF n # next_block THEN next_block ELSE Smaller(2 * next_block, max_block)
        /\ UNCHANGED <<freeList, fixed, max_block>>
    BY <1>5, Zenon DEF TakeNewBlock, policy
  <2> HIDE DEF n
  <2>7. next_block <= next_block' /\ Growth'
    <3>1. next_block \in Nat /\ max_block \in Nat /\ next_block <= max_block
      BY CleanParts DEF TypeOK, Growth
    <3> QED
      BY <2>6, <3>1 DEF Smaller, Growth
  <2>8. Range(chain') = Range(chain) \cup {b}
    <3>1. chain \in Seq(Blocks)
      BY Zenon DEF TypeOK
    <3> QED
      BY <2>4, <3>1, RangeAppend
  <2>9. Range(freeList)' = Range(freeList) /\ Range(chain)' = Range(chain')
    BY <2>6, Zenon DEF Range
  <2>10. Owned' = Owned \cup {b}
    BY <2>8, <2>9 DEF Owned
  <2>11. NormalBounded'
    <3>1. ASSUME NEW c \in Owned, ~block'[c].oversize
          PROVE  Hdr + block'[c].cap <= next_block'
      <4>1. c \in Blocks /\ block'[c] = block[c]
        BY <2>4, <2>5, OwnedType
      <4>2. Hdr + block[c].cap <= next_block
        BY <1>5, <3>1, <4>1, CleanParts DEF NormalBounded
      <4>3. block[c].cap \in Nat /\ next_block \in Nat /\ next_block' \in Nat
        BY <4>1 DEF TypeOK, Cell
      <4> QED
        BY <2>7, <4>1, <4>2, <4>3, LayoutAssumption
    <3>2. ~block'[b].oversize => Hdr + block'[b].cap <= next_block'
      <4>1. next_block \in Nat /\ next_block' \in Nat
        BY DEF TypeOK
      <4>2. ~block'[b].oversize => n = next_block
        BY <2>4, Zenon
      <4>3. Hdr + block'[b].cap = n
        BY <2>3, <2>4, LayoutAssumption
      <4> QED
        BY <2>7, <4>1, <4>2, <4>3
    <3> QED
      BY <2>10, <3>1, <3>2 DEF NormalBounded
  <2>12. RetainedRewound'
    BY <1>2, <2>4, <2>5, <2>9, CleanParts DEF RetainedRewound, Owned
  <2>13. FixedKeepsNothing'
    BY <1>5, <2>6 DEF FixedKeepsNothing
  <2> QED
    BY <2>7, <2>11, <2>12, <2>13, CleanPartsPrime
<1> QED
  BY <1>1, <1>3, <1>4, <1>5, Zenon DEF Grown

-----------------------------------------------------------------------------
(* Resizing and releasing one region *)

LEMMA ResizedClean ==
  ASSUME TypeOK, BlocksAccounted, FreeListClean, Resized
  PROVE  FreeListClean'
<1>1. PICK x \in live, newSize \in Nat \ {0} : CanResize(x, newSize) /\ ResizeInPlace(x, newSize)
  BY DEF Resized
<1>2. x.blk \in Blocks /\ x.blk \in Range(chain)
  BY <1>1, CurrentOwned DEF CanResize, IsLastAlloc
<1>3. block' = [block EXCEPT ![x.blk] = [block[x.blk] EXCEPT !.used = @ + (newSize - x.size)]]
  BY <1>1 DEF ResizeInPlace
<1>4. UNCHANGED <<chain, freeList, fixed, next_block, max_block>>
  BY <1>1, Zenon DEF ResizeInPlace, policy
<1>5. \A b \in Blocks : SameKind(b) /\ (b # x.blk => block'[b] = block[b])
  BY <1>2, <1>3 DEF TypeOK, Cell, SameKind
<1>6. Range(freeList) \subseteq Blocks \ {x.blk} /\ Owned \subseteq Blocks
  BY <1>2, OwnedType DEF BlocksAccounted
<1> QED
  BY <1>4, <1>5, <1>6, ChainWorked

LEMMA RolledBackClean ==
  ASSUME TypeOK, BlocksAccounted, FreeListClean, RolledBack
  PROVE  FreeListClean'
<1>1. PICK x \in live : RollBack(x)
  BY DEF RolledBack
<1>2. x.blk \in Blocks /\ x.blk \in Range(chain)
  BY <1>1, CurrentOwned DEF RollBack, IsLastAlloc
<1>3. block' = [block EXCEPT ![x.blk].used = x.off]
  BY <1>1, Zenon DEF RollBack
<1>4. UNCHANGED <<chain, freeList, fixed, next_block, max_block>>
  BY <1>1, Zenon DEF RollBack, policy
<1>5. \A b \in Blocks : SameKind(b) /\ (b # x.blk => block'[b] = block[b])
  BY <1>2, <1>3 DEF TypeOK, Cell, SameKind
<1>6. Range(freeList) \subseteq Blocks \ {x.blk} /\ Owned \subseteq Blocks
  BY <1>2, OwnedType DEF BlocksAccounted
<1> QED
  BY <1>4, <1>5, <1>6, ChainWorked

-----------------------------------------------------------------------------
(* Bulk operations *)

\* What a discarded block looks like: an oversize one is gone, a normal one rewound.
LEMMA DiscardedNormal ==
  ASSUME TypeOK, NEW b \in Blocks
  PROVE  /\ ~block[b].oversize => /\ Discarded(b).used = 0 /\ Discarded(b).cap = block[b].cap
                                  /\ ~Discarded(b).oversize
         /\ block[b].oversize => Discarded(b) = Absent
<1>1. block[b] \in Cell
  BY DEF TypeOK
<1> QED
  BY <1>1 DEF Discarded, Cell

\* The blocks of S leave the chain; nothing is gained, the normal ones are retained.
LEMMA DiscardClean ==
  ASSUME TypeOK, BlocksAccounted, FreeListClean, NEW S \in SUBSET Range(chain),
         Discard(S), Range(chain') = Range(chain) \ S,
         UNCHANGED <<fixed, next_block, max_block>>, fixed => S = {},
         \A b \in S : block'[b] = Discarded(b),
         \A b \in Range(chain) \ S : SameKind(b),
         \A b \in Range(freeList) : block'[b] = block[b]
  PROVE  FreeListClean'
<1> DEFINE normal == {b \in S : ~block[b].oversize}
<1>1. /\ S \subseteq Blocks /\ normal \subseteq Blocks /\ IsFiniteSet(normal)
      /\ Range(freeList) \subseteq Blocks
  BY OwnedType, BlocksAssumption, FS_Subset
<1>2. PICK order \in SetToSeqs(normal) : freeList' = order \o freeList
  BY DEF Discard
<1>3. order \in Seq(Blocks) /\ Range(order) = normal
  <2>1. order \in Seq(normal) /\ Range(order) = normal
    BY <1>1, <1>2, SetToSeqsProperties
  <2> QED
    BY <1>1, <2>1, SeqMonotonic
<1>4. freeList \in Seq(Blocks)
  BY DEF TypeOK
<1>5. Range(freeList') = normal \cup Range(freeList)
  BY <1>2, <1>3, <1>4, RangeConcat
<1>6. Range(chain)' = Range(chain') /\ Range(freeList)' = Range(freeList')
  BY Zenon DEF Range
<1>7. Owned' \subseteq Owned
  BY <1>5, <1>6 DEF Owned
<1>8. FixedKeepsNothing /\ NormalBounded /\ RetainedRewound
  BY CleanParts
<1>9. \A b \in normal : block'[b].used = 0 /\ ~block'[b].oversize /\ SameKind(b)
  BY <1>1, DiscardedNormal DEF SameKind
<1>10. \A b \in Range(freeList) : block'[b].used = 0 /\ ~block'[b].oversize /\ SameKind(b)
  BY <1>8 DEF RetainedRewound, SameKind
<1>11. \A b \in Owned' : SameKind(b)
  BY <1>5, <1>6, <1>9, <1>10 DEF Owned
<1>12. \A b \in Range(freeList)' : block'[b].used = 0 /\ ~block'[b].oversize
  BY <1>5, <1>6, <1>9, <1>10
<1>13. ASSUME fixed
       PROVE  freeList' = <<>>
  <2>1. Range(freeList') = {}
    <3>1. normal = {} /\ freeList = <<>>
      BY <1>8, <1>13 DEF FixedKeepsNothing
    <3>2. Range(freeList) = {}
      BY <3>1 DEF Range
    <3> QED
      BY <1>5, <3>1, <3>2
  <2>2. freeList' \in Seq(Blocks)
    BY <1>2, <1>3, <1>4, ConcatProperties
  <2>3. ASSUME NEW i \in DOMAIN freeList'
        PROVE  FALSE
    <3>1. freeList'[i] \in Range(freeList')
      BY Zenon DEF Range
    <3> QED
      BY <2>1, <3>1
  <2>4. DOMAIN freeList' = {}
    BY <2>3
  <2> QED
    BY <2>2, <2>4
<1> QED
  BY <1>7, <1>11, <1>12, <1>13, NothingGained

\* In a fixed arena the end of a scope pops nothing.
LEMMA FixedPopsNothing ==
  ASSUME TypeOK, FixedChain, fixed, scopes # <<>>,
         NEW k \in 0..Len(chain), StopAt(Last(scopes), k)
  PROVE  Popped(k) = {}
<1>1. chain \in Seq(Blocks) /\ scopes \in Seq(Scope) /\ Len(chain) <= 1
  BY DEF TypeOK, FixedChain
<1>2. Last(scopes) = scopes[Len(scopes)] /\ Len(scopes) \in 1..Len(scopes)
  BY <1>1 DEF Last
<1>3. k = Len(chain)
  <2>1. CASE chain = <<>>
    BY <2>1
  <2>2. CASE chain # <<>>
    <3>1. scopes[Len(scopes)].block # NULL
      BY <1>2, <2>2 DEF FixedChain
    <3>2. k # 0
      BY <1>2, <3>1 DEF StopAt
    <3> QED
      BY <1>1, <3>2
  <2> QED
    BY <2>1, <2>2
<1> QED
  BY <1>1, <1>3 DEF Popped

LEMMA TempEndClean ==
  ASSUME TypeOK, BlocksAccounted, FreeListClean, FixedChain, TempEnd
  PROVE  FreeListClean'
<1> DEFINE t == Last(scopes)
<1>1. CASE UNCHANGED <<heap, stats, policy, temp_depth, generation, status>>
  <2>1. UNCHANGED <<chain, freeList, block, fixed, next_block, max_block>>
    BY <1>1, Zenon DEF heap, policy
  <2> QED
    BY <2>1, ChainWorked DEF SameKind
<1>2. ASSUME NEW k \in 0..Len(chain), StopAt(t, k), Rewind(t, k)
      PROVE  FreeListClean'
  <2>1. /\ Discard(Popped(k)) /\ chain' = SubSeq(chain, 1, k) /\ UNCHANGED <<next_block, policy>>
        /\ block' = [b \in Blocks |->
                       IF b \in Popped(k) THEN Discarded(b)
                       ELSE IF k > 0 /\ b = chain[k]
                            THEN [block[b] EXCEPT !.used = Smaller(@, t.block_used)]
                            ELSE block[b]]
    BY <1>2, Zenon DEF Rewind
  <2>2. IsInjective(chain) /\ Range(chain) \cap Range(freeList) = {}
    BY DEF BlocksAccounted
  <2>3. Popped(k) \subseteq Range(chain) /\ Range(chain') = Range(chain) \ Popped(k)
    BY <2>1, <2>2, CutChain
  <2>4. k > 0 => chain[k] \in Range(chain)
    BY SMTT(30) DEF TypeOK, Range
  <2>5. Range(chain) \subseteq Blocks /\ Range(freeList) \subseteq Blocks
    BY OwnedType
  <2>6. \A b \in Popped(k) : block'[b] = Discarded(b)
    BY <2>1, <2>3, <2>5
  <2>7. \A b \in Range(chain) \ Popped(k) : SameKind(b)
    BY <2>1, <2>5, SMTT(30) DEF TypeOK, Cell, SameKind
  <2>8. \A b \in Range(freeList) : block'[b] = block[b]
    BY <2>1, <2>2, <2>3, <2>4, <2>5
  <2>9. fixed => Popped(k) = {}
    BY <1>2, FixedPopsNothing DEF TempEnd
  <2>10. UNCHANGED <<fixed, next_block, max_block>>
    BY <2>1 DEF policy
  <2> QED
    BY <2>1, <2>3, <2>6, <2>7, <2>8, <2>9, <2>10, DiscardClean
<1> QED
  BY <1>1, <1>2, Zenon DEF TempEnd

LEMMA ResetClean ==
  ASSUME TypeOK, BlocksAccounted, FreeListClean, Reset
  PROVE  FreeListClean'
<1>1. UNCHANGED <<fixed, next_block, max_block>>
  BY Zenon DEF Reset, policy
<1>2. /\ Range(chain) \cap Range(freeList) = {} /\ Popped(0) = Range(chain)
      /\ Range(chain) \subseteq Blocks /\ Range(freeList) \subseteq Blocks
  BY OwnedType, PoppedAll DEF BlocksAccounted
<1>3. CASE fixed
  <2>1. /\ block' = [b \in Blocks |-> [block[b] EXCEPT !.used = 0]]
        /\ UNCHANGED <<chain, freeList>>
    BY <1>3, Zenon DEF Reset
  <2>2. freeList = <<>> /\ Range(freeList) = {}
    BY <1>3, CleanParts DEF FixedKeepsNothing, Range
  <2>3. \A b \in Owned : SameKind(b)
    BY <2>1, OwnedType DEF TypeOK, Cell, SameKind
  <2> QED
    BY <1>1, <2>1, <2>2, <2>3, ChainWorked
<1>4. CASE ~fixed
  <2>1. PICK k \in 0..Len(chain) :
          /\ chain' = IF k = 0 THEN <<>> ELSE <<chain[k]>>
          /\ OldestNormal(k)
          /\ Discard(Popped(0) \ (IF k = 0 THEN {} ELSE {chain[k]}))
          /\ block' = [b \in Blocks |-> IF b \in Popped(0) THEN Discarded(b)
                                                           ELSE block[b]]
    BY <1>4, Zenon DEF Reset
  <2> DEFINE S == Popped(0) \ (IF k = 0 THEN {} ELSE {chain[k]})
  <2>2. Range(chain') = Range(chain) \ S
    <3>1. CASE k = 0
      <4>1. Range(<<>>) = {}
        BY DEF Range
      <4> QED
        BY <1>2, <2>1, <3>1, <4>1
    <3>2. CASE k > 0
      <4>1. Range(<<chain[k]>>) = {chain[k]}
        BY DEF Range
      <4>2. chain[k] \in Range(chain)
        BY <1>2, <3>2 DEF Popped
      <4> QED
        BY <1>2, <2>1, <3>2, <4>1, <4>2
    <3> QED
      BY <3>1, <3>2
  <2>3. \A b \in Range(chain) : block'[b] = Discarded(b)
    BY <1>2, <2>1
  <2>4. ASSUME NEW b \in Range(chain) \ S
        PROVE  SameKind(b)
    <3>1. b \in Blocks /\ b = chain[k] /\ k > 0 /\ ~block[b].oversize
      BY <1>2, <2>1 DEF OldestNormal
    <3> QED
      BY <2>3, <3>1, DiscardedNormal DEF SameKind
  <2>5. \A b \in Range(freeList) : block'[b] = block[b]
    BY <1>2, <2>1
  <2>6. S \subseteq Range(chain) /\ Discard(S)
    BY <1>2, <2>1
  <2> HIDE DEF S
  <2> QED
    BY <1>1, <1>4, <2>2, <2>3, <2>4, <2>5, <2>6, DiscardClean
<1> QED
  BY <1>3, <1>4

LEMMA TrimClean ==
  ASSUME TypeOK, BlocksAccounted, FreeListClean, Trim
  PROVE  FreeListClean'
<1>1. CASE NoEffect
  <2>1. UNCHANGED <<chain, freeList, block, fixed, next_block, max_block>>
    BY <1>1, Zenon DEF NoEffect, vars, heap, policy
  <2> QED
    BY <2>1, ChainWorked DEF SameKind
<1>2. CASE /\ freeList' = <<>>
           /\ block' = [b \in Blocks |-> IF b \in Range(freeList) THEN Absent ELSE block[b]]
           /\ UNCHANGED <<chain, next_block, stats, policy, epoch, status, aborted>>
  <2>1. UNCHANGED <<chain, fixed, next_block, max_block>>
    BY <1>2, Zenon DEF policy
  <2>2. Range(freeList') = {}
    BY <1>2 DEF Range
  <2>3. Range(freeList)' = {} /\ Range(chain)' = Range(chain)
    BY <2>1, <2>2, Zenon DEF Range
  <2>4. Owned' = Range(chain) /\ Range(chain) \subseteq Owned
    BY <2>3 DEF Owned
  <2>5. \A b \in Range(chain) : block'[b] = block[b]
    BY <1>2, OwnedType DEF BlocksAccounted
  <2> QED
    BY <1>2, <2>1, <2>3, <2>4, <2>5, NothingGained DEF SameKind
<1> QED
  BY <1>1, <1>2, Zenon DEF Trim

LEMMA DeinitClean ==
  ASSUME Deinit
  PROVE  FreeListClean'
<1>1. /\ chain' = <<>> /\ freeList' = <<>> /\ fixed' = FALSE
      /\ next_block' = MinDefault /\ max_block' = MaxDefault
  BY Zenon DEF Deinit
<1>2. Range(chain') = {} /\ Range(freeList') = {}
  BY <1>1 DEF Range
<1>3. Owned' = {} /\ Range(freeList)' = {}
  BY <1>2 DEF Owned, Range
<1> QED
  BY <1>1, <1>3, PolicyAssumption DEF FreeListClean

-----------------------------------------------------------------------------
(* The inductive invariant *)

LEMMA FixedChainKept ==
  ASSUME TypeOK, FixedChain, Effect
  PROVE  FixedChain'
<1>1. CASE UNCHANGED <<chain, scopes, fixed>>
  BY <1>1 DEF FixedChain
<1>2. CASE ~fixed'
  BY <1>2 DEF FixedChain
<1>3. CASE Served
  <2>1. PICK size, align, old, oldSize :
          \/ BumpCurrent(size, align, old, oldSize)
          \/ Grown(size, align, old, oldSize)
    BY <1>3, Zenon DEF Served
  <2>2. BumpCurrent(size, align, old, oldSize) => UNCHANGED <<chain, scopes, fixed>>
    BY Zenon DEF BumpCurrent, policy, epoch
  <2>3. Grown(size, align, old, oldSize) => ~fixed'
    BY Zenon DEF Grown, TakeFreeBlock, TakeNewBlock, policy
  <2> QED
    BY <1>1, <1>2, <2>1, <2>2, <2>3
<1>4. CASE TempBegin
  <2>1. /\ scopes' = Append(scopes, Snapshot(temp_depth + 1)) /\ chain' = chain
        /\ fixed' = fixed /\ scopes \in Seq(Scope)
    BY <1>4, Zenon DEF TempBegin, heap, policy, TypeOK
  <2>2. chain # <<>> => Snapshot(temp_depth + 1).block # NULL
    BY CurrentOwned, BlocksAssumption DEF Snapshot
  <2>3. ASSUME fixed, chain # <<>>, NEW i \in 1..(Len(scopes) + 1)
        PROVE  scopes'[i].block # NULL
    BY <2>1, <2>2, <2>3 DEF FixedChain
  <2>4. Len(scopes') = Len(scopes) + 1
    BY <2>1
  <2> QED
    BY <2>1, <2>3, <2>4 DEF FixedChain
<1>5. CASE TempEnd
  <2>1. scopes' = Front(scopes) /\ scopes # <<>> /\ fixed' = fixed
    BY <1>5, Zenon DEF TempEnd, Rewind, policy
  <2>2. scopes \in Seq(Scope) /\ chain \in Seq(Blocks) /\ Len(scopes) \in Nat
    BY DEF TypeOK
  <2>3. /\ Len(scopes') = Len(scopes) - 1
        /\ \A i \in 1..(Len(scopes) - 1) : scopes'[i] = scopes[i]
    BY <2>1, <2>2, FrontProperties
  <2>4. chain' = chain \/ \E k \in 0..Len(chain) : chain' = SubSeq(chain, 1, k)
    BY <1>5, Zenon DEF TempEnd, Rewind, heap
  <2>5. Len(chain') <= Len(chain) /\ (chain' # <<>> => chain # <<>>)
    BY <2>2, <2>4
  <2>6. Len(chain) <= 1 => Len(chain') <= 1
    BY <2>2, <2>4
  <2>7. \A i \in 1..Len(scopes') : scopes'[i] = scopes[i] /\ i \in 1..Len(scopes)
    BY <2>2, <2>3
  <2> QED
    BY <2>1, <2>5, <2>6, <2>7 DEF FixedChain
<1>6. CASE Reset
  <2>1. scopes' = <<>> /\ fixed' = fixed
    BY <1>6, Zenon DEF Reset, policy
  <2>2. CASE fixed
    <3>1. chain' = chain
      BY <1>6, <2>2, Zenon DEF Reset
    <3> QED
      BY <2>1, <3>1 DEF FixedChain
  <2> QED
    BY <1>2, <2>1, <2>2
<1>7. NoEffect \/ Failed \/ Resized \/ RolledBack \/ Trim \/ ClearError
        => UNCHANGED <<chain, scopes, fixed>>
  BY Zenon DEF NoEffect, vars, heap, policy, epoch, Failed, Fail, Resized, ResizeInPlace,
     RolledBack, RollBack, Trim, ClearError
<1>8. Deinit => ~fixed'
  BY Zenon DEF Deinit
<1> QED
  BY <1>1, <1>2, <1>3, <1>4, <1>5, <1>6, <1>7, <1>8 DEF Effect

LEMMA EffectClean ==
  ASSUME TypeOK, TypeOK', BlocksAccounted, RetainedInv, Effect
  PROVE  RetainedInv'
<1>1. FreeListClean /\ FixedChain
  BY DEF RetainedInv
<1>2. CASE UNCHANGED <<heap, policy>>
  <2>1. UNCHANGED <<chain, freeList, block, fixed, next_block, max_block>>
    BY <1>2, Zenon DEF heap, policy
  <2>2. FreeListClean'
    BY <1>1, <2>1, ChainWorked DEF SameKind
  <2> QED
    BY <1>1, <2>2, FixedChainKept DEF RetainedInv
<1>3. NoEffect \/ Failed \/ TempBegin \/ ClearError => UNCHANGED <<heap, policy>>
  BY Zenon DEF NoEffect, vars, Failed, Fail, TempBegin, ClearError
<1>4. CASE Served \/ Resized \/ RolledBack \/ TempEnd \/ Reset \/ Trim \/ Deinit
  BY <1>1, <1>4, ServedClean, ResizedClean, RolledBackClean, TempEndClean, ResetClean,
     TrimClean, DeinitClean, FixedChainKept DEF RetainedInv
<1> QED
  BY <1>2, <1>3, <1>4 DEF Effect

LEMMA InitClean ==
  ASSUME Init
  PROVE  RetainedInv
<1>1. freeList = <<>> /\ scopes = <<>>
  BY Zenon DEF Init, InitDefault, InitSized, InitFixed, InitFields
<1>2. Range(freeList) = {} /\ 1..Len(scopes) = {}
  BY <1>1 DEF Range
<1>3. CASE NoBlocks /\ next_block <= max_block
  <2>1. chain = <<>> /\ Range(chain) = {}
    BY <1>3 DEF NoBlocks, Range
  <2>2. Owned = {} /\ Len(chain) <= 1
    BY <1>2, <2>1 DEF Owned
  <2> QED
    BY <1>1, <1>2, <1>3, <2>2 DEF RetainedInv, FreeListClean, FixedChain
<1>4. CASE fixed /\ next_block <= max_block /\ (chain = <<>> \/ \E b \in Blocks : chain = <<b>>)
  <2>1. Len(chain) <= 1
    <3>1. CASE chain = <<>>
      BY <3>1
    <3>2. ASSUME NEW b \in Blocks, chain = <<b>>
          PROVE  Len(chain) <= 1
      BY <3>2
    <3> QED
      BY <1>4, <3>1, <3>2
  <2> QED
    BY <1>1, <1>2, <1>4, <2>1 DEF RetainedInv, FreeListClean, FixedChain
<1>5. CASE InitDefault
  BY <1>3, <1>5, PolicyAssumption DEF InitDefault, InitFields
<1>6. ASSUME NEW args \in SizedArgs, InitSized(args[1], args[2])
      PROVE  NoBlocks /\ next_block <= max_block
  BY <1>6, PolicyAssumption DEF InitSized, InitFields
<1>7. ASSUME NEW size \in BufferSizes, NEW base \in Skews, InitFixed(size, base)
      PROVE  fixed /\ next_block <= max_block /\ (chain = <<>> \/ \E b \in Blocks : chain = <<b>>)
  BY <1>7 DEF InitFixed, InitFields, NoBlocks
<1> QED
  BY <1>3, <1>4, <1>5, <1>6, <1>7 DEF Init

\* What the arena retains is always clean, for every policy and every set of blocks:
\* rewound blocks of a size the growth policy would ask for, never an oversize one,
\* and nothing in a fixed arena (arena_retire_block, arena_grow_and_bump).
THEOREM FreeListAlwaysClean == Spec => []FreeListClean
<1>1. Init => RetainedInv
  BY InitClean
<1>2. TypeOK /\ TypeOK' /\ BlocksAccounted /\ RetainedInv /\ [Next]_vars => RetainedInv'
  BY NextEffect, EffectClean
<1>3. RetainedInv => FreeListClean
  BY DEF RetainedInv
<1> QED
  BY <1>1, <1>2, <1>3, TypeCorrect, BlocksAlwaysAccounted, PTL DEF Spec
-----------------------------------------------------------------------------
(* The parts of RegionsSafe *)

End(x) == x.off + x.size + Redzone

CursorsBounded == \A b \in Blocks : block[b].used <= block[b].cap
Placed(x) == /\ x.blk \in Range(chain)
             /\ End(x) <= block[x.blk].used
             /\ (block[x.blk].skew + x.off) % x.align = 0
Apart(x, y) == x # y /\ x.blk = y.blk => End(x) <= y.off \/ End(y) <= x.off

LEMMA RegionsParts ==
  RegionsSafe <=> /\ CursorsBounded
                  /\ \A x \in live : Placed(x)
                  /\ \A x, y \in live : Apart(x, y)
BY Zenon DEF RegionsSafe, CursorsBounded, Placed, Apart, End

LEMMA RegionsPartsPrime ==
  RegionsSafe' <=> /\ CursorsBounded'
                   /\ \A x \in live' : Placed(x)'
                   /\ \A x, y \in live' : Apart(x, y)
BY Zenon DEF RegionsSafe, CursorsBounded, Placed, Apart, End

LEMMA PlaceType ==
  ASSUME TypeOK, NEW x \in live
  PROVE  /\ x.blk \in Blocks /\ x.off \in Nat /\ x.size \in Nat \ {0}
         /\ x.align \in 1..MaxAlign /\ x.depth \in Nat /\ End(x) \in Nat
         /\ block[x.blk].used \in Nat
<1>1. x \in Place
  BY DEF TypeOK
<1>2. /\ x.blk \in Blocks /\ x.off \in Nat /\ x.size \in Nat \ {0}
      /\ x.align \in 1..MaxAlign /\ x.depth \in Nat
  BY <1>1 DEF Place
<1>3. block[x.blk] \in Cell
  BY <1>2 DEF TypeOK
<1> QED
  BY <1>2, <1>3, LayoutAssumption DEF End, Cell

LEMMA CellType ==
  ASSUME TypeOK, NEW b \in Blocks
  PROVE  /\ block[b] \in Cell /\ block[b].used \in Nat /\ block[b].cap \in Nat
         /\ block[b].skew \in Nat
<1>1. block[b] \in Cell
  BY DEF TypeOK
<1> QED
  BY <1>1, AlignAssumption DEF Cell

\* A step that keeps the chain and the cursors of its blocks and gives nothing out.
LEMMA RegionsKept ==
  ASSUME RegionsSafe, CursorsBounded', live' \subseteq live,
         \A x \in live' : /\ x.blk \in Range(chain)'
                          /\ End(x) <= block'[x.blk].used
                          /\ block'[x.blk].skew = block[x.blk].skew
  PROVE  RegionsSafe'
<1>1. ASSUME NEW x \in live'
      PROVE  Placed(x)'
  <2>1. (block[x.blk].skew + x.off) % x.align = 0
    BY RegionsParts, Zenon DEF Placed
  <2>2. (block'[x.blk].skew + x.off) % x.align = 0
    BY <2>1
  <2> QED
    BY <2>2, Zenon DEF Placed, End
<1>2. \A x, y \in live' : Apart(x, y)
  BY RegionsParts, Zenon
<1> QED
  BY <1>1, <1>2, RegionsPartsPrime, Zenon

\* Carving a region past a cursor no region reaches over.
LEMMA CarveRegions ==
  ASSUME TypeOK, TypeOK', RegionsSafe, NEW b \in Blocks, NEW cell \in Cell,
         NEW size \in Nat \ {0}, NEW align \in 1..MaxAlign, NEW old \in SUBSET live, NEW oldSize,
         Carve(b, cell, size, align, old, oldSize), Fits(cell, size, align),
         b \in Range(chain)', Range(chain) \subseteq Range(chain)',
         \A x \in live : x.blk = b => End(x) <= cell.used /\ block[b].skew = cell.skew
  PROVE  RegionsSafe'
<1>1. /\ Pad(cell, align) \in Nat
      /\ (cell.skew + cell.used + Pad(cell, align)) % align = 0
  BY PadType
<1>2. cell.used \in Nat /\ cell.cap \in Nat /\ cell.skew \in Nat
  BY AlignAssumption DEF Cell
<1>3. /\ \A c \in Blocks \ {b} : block'[c] = block[c]
      /\ block'[b].cap = cell.cap /\ block'[b].skew = cell.skew
      /\ block'[b].used = cell.used + Pad(cell, align) + (size + Redzone)
  BY CarveBlock
<1>4. PICK new : /\ new = [blk |-> b, off |-> cell.used + Pad(cell, align), size |-> size,
                            align |-> align, depth |-> temp_depth]
                 /\ live' = (live \ old) \cup {new}
  BY Zenon DEF Carve
<1>5. Pad(cell, align) + size + Redzone <= cell.cap - cell.used
  BY DEF Fits
<1>6. CursorsBounded'
  <2>1. block'[b].used <= block'[b].cap
    BY <1>1, <1>2, <1>3, <1>5, LayoutAssumption
  <2>2. \A c \in Blocks \ {b} : block'[c].used <= block'[c].cap
    BY <1>3, RegionsParts DEF CursorsBounded
  <2> QED
    BY <2>1, <2>2, Zenon DEF CursorsBounded
<1>7. /\ new.blk = b /\ new.off = cell.used + Pad(cell, align) /\ new.size = size
      /\ new.align = align
  BY <1>4
<1>8. Placed(new)'
  <2>1. End(new) <= block'[b].used
    BY <1>1, <1>2, <1>3, <1>7, LayoutAssumption DEF End
  <2>2. block'[b].skew + new.off = cell.skew + cell.used + Pad(cell, align)
    BY <1>1, <1>2, <1>3, <1>7
  <2>3. (block'[b].skew + new.off) % new.align = 0
    BY <1>1, <1>7, <2>2
  <2> QED
    BY <1>7, <2>1, <2>3, Zenon DEF Placed, End
<1>9. ASSUME NEW x \in live
      PROVE  Placed(x)' /\ (x.blk = b => End(x) <= new.off)
  <2>1. /\ x.blk \in Range(chain) /\ End(x) <= block[x.blk].used
        /\ (block[x.blk].skew + x.off) % x.align = 0
    BY RegionsParts, Zenon DEF Placed
  <2>2. x.blk \in Blocks /\ End(x) \in Nat
    BY PlaceType
  <2>3. x.blk = b => End(x) <= new.off /\ End(x) <= block'[b].used
    BY <1>1, <1>2, <1>3, <1>7, <2>2, LayoutAssumption
  <2>4. block'[x.blk].skew = block[x.blk].skew
    BY <1>3, <2>2
  <2>5. End(x) <= block'[x.blk].used
    BY <1>3, <2>1, <2>2, <2>3
  <2>6. (block'[x.blk].skew + x.off) % x.align = 0
    BY <2>1, <2>4
  <2> QED
    BY <2>1, <2>3, <2>5, <2>6, Zenon DEF Placed, End
<1>10. \A x, y \in live' : Apart(x, y)
  <2>1. \A x \in live : Apart(x, new) /\ Apart(new, x)
    BY <1>7, <1>9, Zenon DEF Apart
  <2>2. Apart(new, new)
    BY Zenon DEF Apart
  <2>3. \A x, y \in live : Apart(x, y)
    BY RegionsParts, Zenon
  <2> QED
    BY <1>4, <2>1, <2>2, <2>3
<1>11. \A x \in live' : Placed(x)'
  BY <1>4, <1>8, <1>9, Zenon
<1> QED
  BY <1>6, <1>10, <1>11, RegionsPartsPrime, Zenon

LEMMA ServedRegions ==
  ASSUME TypeOK, TypeOK', BlocksAccounted, RegionsSafe, Served
  PROVE  RegionsSafe'
<1>1. PICK size \in Nat, align \in Nat, old \in SUBSET live, oldSize \in Nat :
        /\ CoreArgs(size, align, old, oldSize)
        /\ \/ BumpCurrent(size, align, old, oldSize)
           \/ Grown(size, align, old, oldSize)
  BY DEF Served
<1>2. size \in Nat \ {0} /\ align \in 1..MaxAlign
  BY <1>1 DEF CoreArgs
<1>3. CASE BumpCurrent(size, align, old, oldSize)
  <2>1. /\ chain # <<>> /\ Fits(block[Current], size, align) /\ chain' = chain
        /\ Carve(Current, block[Current], size, align, old, oldSize)
    BY <1>3, Zenon DEF BumpCurrent, FitsCurrent
  <2>2. Current \in Range(chain) /\ Current \in Blocks /\ block[Current] \in Cell
    BY <2>1, CurrentOwned, CellType
  <2>3. Range(chain)' = Range(chain)
    BY <2>1, Zenon DEF Range
  <2>4. \A x \in live : x.blk = Current => End(x) <= block[Current].used
    BY RegionsParts, Zenon DEF Placed
  <2> QED
    BY <1>2, <2>1, <2>2, <2>3, <2>4, CarveRegions
\* A block that enters the chain holds no region yet.
<1>4. ASSUME NEW b \in Blocks, NEW cell \in Cell, b \notin Range(chain),
             cell.used <= cell.cap, BumpEntered(b, cell, size, align, old, oldSize)
      PROVE  RegionsSafe'
  <2>1. chain' = Append(chain, b)
    BY <1>4, Zenon DEF BumpEntered
  <2>2. Range(chain)' = Range(chain) \cup {b}
    <3>1. Range(chain') = Range(chain) \cup {b}
      <4>1. chain \in Seq(Blocks)
        BY Zenon DEF TypeOK
      <4> QED
        BY <2>1, <4>1, RangeAppend
    <3> QED
      BY <3>1, Zenon DEF Range
  <2>3. \A x \in live : x.blk # b
    BY <1>4, RegionsParts, Zenon DEF Placed
  <2>4. CASE Fits(cell, size, align) /\ Carve(b, cell, size, align, old, oldSize)
    BY <1>2, <1>4, <2>2, <2>3, <2>4, CarveRegions
  <2>5. CASE block' = [block EXCEPT ![b] = cell] /\ UNCHANGED stats
    <3>1. \A c \in Blocks : block'[c] = IF c = b THEN cell ELSE block[c]
      BY <2>5 DEF TypeOK
    <3>2. CursorsBounded'
      <4>1. \A c \in Blocks : block[c].used <= block[c].cap
        BY RegionsParts, Zenon DEF CursorsBounded
      <4>2. \A c \in Blocks : block'[c].used <= block'[c].cap
        BY <1>4, <3>1, <4>1, Zenon
      <4> QED
        BY <4>2, Zenon DEF CursorsBounded
    <3>3. live' = live
      BY <2>5 DEF stats
    <3>4. ASSUME NEW x \in live
          PROVE  /\ x.blk \in Range(chain)' /\ End(x) <= block'[x.blk].used
                 /\ block'[x.blk].skew = block[x.blk].skew
      <4>1. x.blk \in Range(chain) /\ End(x) <= block[x.blk].used /\ x.blk \in Blocks
        BY RegionsParts, PlaceType, Zenon DEF Placed
      <4> QED
        BY <2>2, <2>3, <3>1, <4>1
    <3> QED
      BY <3>2, <3>3, <3>4, RegionsKept, Zenon
  <2> QED
    BY <1>4, <2>4, <2>5, Zenon DEF BumpEntered
<1>5. CASE TakeFreeBlock(size, align, old, oldSize)
  <2>1. PICK i \in DOMAIN freeList :
          BumpEntered(freeList[i], block[freeList[i]], size, align, old, oldSize)
    BY <1>5 DEF TakeFreeBlock
  <2>2. freeList[i] \in Blocks /\ freeList[i] \in Range(freeList)
    BY DEF TypeOK, Range
  <2>3. freeList[i] \notin Range(chain)
    BY <2>2 DEF BlocksAccounted
  <2>4. block[freeList[i]].used <= block[freeList[i]].cap /\ block[freeList[i]] \in Cell
    <3>1. CursorsBounded
      BY RegionsParts
    <3>2. block[freeList[i]].used <= block[freeList[i]].cap
      BY <2>2, <3>1, Zenon DEF CursorsBounded
    <3> QED
      BY <2>2, <3>2, CellType, Zenon
  <2> QED
    BY <1>4, <2>1, <2>2, <2>3, <2>4
<1>6. CASE ~fixed /\ TakeNewBlock(size, align, old, oldSize)
  <2>1. PICK b \in Blocks, skew \in Skews :
          /\ held[b] = 0
          /\ BumpEntered(b, NewCell(size, align, skew), size, align, old, oldSize)
    BY <1>6 DEF TakeNewBlock, NewCell
  <2>2. NewCell(size, align, skew) \in Cell
    BY <1>2, NewCellType
  <2>3. NewCell(size, align, skew).used <= NewCell(size, align, skew).cap
    <3>1. NewCell(size, align, skew).used = 0
      BY Zenon DEF NewCell
    <3> QED
      BY <2>2, <3>1 DEF Cell
  <2>4. b \notin Range(chain)
    <3>1. held[b] = IF b \in Owned /\ ~fixed THEN Hdr + block[b].cap ELSE 0
      BY Zenon DEF BlocksAccounted
    <3> QED
      BY <1>6, <2>1, <3>1, CellType, LayoutAssumption DEF Owned
  <2> QED
    BY <1>4, <2>1, <2>2, <2>3, <2>4
<1> QED
  BY <1>1, <1>3, <1>5, <1>6, Zenon DEF Grown

\* Every other region of the current block lies below the last one.
LEMMA BelowLast ==
  ASSUME TypeOK, RegionsSafe, NEW x \in live, IsLastAlloc(x)
  PROVE  /\ x.blk = Current /\ x.blk \in Blocks /\ x.blk \in Range(chain) /\ chain # <<>>
         /\ End(x) = block[x.blk].used /\ x.off <= block[x.blk].used
         /\ \A y \in live : y # x /\ y.blk = x.blk => End(y) <= x.off
<1>1. chain # <<>> /\ x.blk = Current /\ End(x) = block[x.blk].used
  BY Zenon DEF IsLastAlloc, End
<1>2. x.blk \in Blocks /\ x.blk \in Range(chain)
  BY <1>1, CurrentOwned
<1>3. x.off <= block[x.blk].used
  BY <1>1, PlaceType, LayoutAssumption DEF End
<1>4. ASSUME NEW y \in live, y # x, y.blk = x.blk
      PROVE  End(y) <= x.off
  <2>1. End(x) <= y.off \/ End(y) <= x.off
    BY <1>4, RegionsParts, Zenon DEF Apart
  <2>2. End(y) <= block[x.blk].used
    BY <1>4, RegionsParts, Zenon DEF Placed
  <2> QED
    BY <1>1, <2>1, <2>2, PlaceType, LayoutAssumption DEF End
<1> QED
  BY <1>1, <1>2, <1>3, <1>4

LEMMA ResizedRegions ==
  ASSUME TypeOK, TypeOK', RegionsSafe, NEW x \in live, NEW newSize \in Nat \ {0},
         CanResize(x, newSize), ResizeInPlace(x, newSize)
  PROVE  RegionsSafe'
<1>1. /\ x.blk = Current /\ x.blk \in Blocks /\ x.blk \in Range(chain)
      /\ End(x) = block[x.blk].used
      /\ \A y \in live : y # x /\ y.blk = x.blk => End(y) <= x.off
  BY BelowLast DEF CanResize
<1>2. PICK n : n = [x EXCEPT !.size = newSize]
  OBVIOUS
<1>3. /\ block' = [block EXCEPT ![x.blk].used = @ + (newSize - x.size)]
      /\ live' = (live \ {x}) \cup {n} /\ chain' = chain
  BY <1>2, Zenon DEF ResizeInPlace
<1>4. x \in Place
  BY DEF TypeOK
<1>5. n.blk = x.blk /\ n.off = x.off /\ n.size = newSize /\ n.align = x.align
  BY <1>2, <1>4 DEF Place
<1>6. /\ x.off \in Nat /\ x.size \in Nat /\ End(x) \in Nat
      /\ block[x.blk].used \in Nat /\ block[x.blk].cap \in Nat
  BY <1>1, PlaceType, CellType
<1>7. /\ \A b \in Blocks \ {x.blk} : block'[b] = block[b]
      /\ block'[x.blk].used = block[x.blk].used + (newSize - x.size)
      /\ block'[x.blk].cap = block[x.blk].cap /\ block'[x.blk].skew = block[x.blk].skew
  BY <1>1, <1>3 DEF TypeOK, Cell
<1>8. End(n) = block'[x.blk].used /\ x.off <= block'[x.blk].used
  BY <1>1, <1>5, <1>6, <1>7, LayoutAssumption DEF End
<1>9. CursorsBounded'
  <2>1. newSize - x.size <= block[x.blk].cap - block[x.blk].used
    BY <1>1 DEF CanResize
  <2>2. block'[x.blk].used <= block'[x.blk].cap
    BY <1>6, <1>7, <2>1
  <2>3. \A b \in Blocks \ {x.blk} : block'[b].used <= block'[b].cap
    BY <1>7, RegionsParts DEF CursorsBounded
  <2> QED
    BY <2>2, <2>3, Zenon DEF CursorsBounded
<1>10. Range(chain)' = Range(chain)
  BY <1>3, Zenon DEF Range
<1>11. ASSUME NEW y \in live
       PROVE  (y # x => Placed(y)') /\ (y.blk \in Range(chain)')
  <2>1. /\ y.blk \in Range(chain) /\ End(y) <= block[y.blk].used
        /\ (block[y.blk].skew + y.off) % y.align = 0
    BY RegionsParts, Zenon DEF Placed
  <2>2. y # x => End(y) <= block'[y.blk].used
    BY <1>1, <1>6, <1>7, <1>8, <2>1, PlaceType
  <2>3. block'[y.blk].skew = block[y.blk].skew
    BY <1>7, PlaceType
  <2>4. (block'[y.blk].skew + y.off) % y.align = 0
    BY <2>1, <2>3
  <2> QED
    BY <1>10, <2>1, <2>2, <2>4, Zenon DEF Placed, End
<1>12. Placed(n)'
  <2>1. (block[x.blk].skew + x.off) % x.align = 0
    BY RegionsParts, Zenon DEF Placed
  <2>2. (block'[n.blk].skew + n.off) % n.align = 0
    BY <1>5, <1>7, <2>1
  <2>3. End(n) <= block'[n.blk].used
    BY <1>1, <1>5, <1>6, <1>7, <1>8
  <2> QED
    BY <1>1, <1>5, <1>10, <2>2, <2>3, Zenon DEF Placed, End
<1>13. \A y \in live \ {x} : Apart(y, n) /\ Apart(n, y)
  BY <1>1, <1>5, Zenon DEF Apart
<1>14. \A y, z \in live' : Apart(y, z)
  <2>1. Apart(n, n) /\ \A y, z \in live : Apart(y, z)
    BY RegionsParts, Zenon DEF Apart
  <2> QED
    BY <1>3, <1>13, <2>1
<1>15. \A y \in live' : Placed(y)'
  BY <1>3, <1>11, <1>12, Zenon
<1> QED
  BY <1>9, <1>14, <1>15, RegionsPartsPrime, Zenon

LEMMA RolledBackRegions ==
  ASSUME TypeOK, TypeOK', RegionsSafe, NEW x \in live, RollBack(x)
  PROVE  RegionsSafe'
<1>1. IsLastAlloc(x)
  BY Zenon DEF RollBack
<1>2. /\ x.blk = Current /\ x.blk \in Blocks /\ x.blk \in Range(chain)
      /\ x.off <= block[x.blk].used
      /\ \A y \in live : y # x /\ y.blk = x.blk => End(y) <= x.off
  BY <1>1, BelowLast
<1>3. /\ block' = [block EXCEPT ![x.blk].used = x.off] /\ live' = live \ {x} /\ chain' = chain
  BY Zenon DEF RollBack
<1>4. /\ \A b \in Blocks \ {x.blk} : block'[b] = block[b]
      /\ block'[x.blk].used = x.off
      /\ block'[x.blk].cap = block[x.blk].cap /\ block'[x.blk].skew = block[x.blk].skew
  BY <1>2, <1>3 DEF TypeOK, Cell
<1>5. CursorsBounded'
  <2>1. \A b \in Blocks : block[b].used <= block[b].cap
    BY RegionsParts, Zenon DEF CursorsBounded
  <2>2. block'[x.blk].used <= block'[x.blk].cap
    BY <1>2, <1>4, <2>1, CellType, PlaceType
  <2>3. \A b \in Blocks \ {x.blk} : block'[b].used <= block'[b].cap
    BY <1>4, <2>1
  <2> QED
    BY <2>2, <2>3, Zenon DEF CursorsBounded
<1>6. ASSUME NEW y \in live'
      PROVE  /\ y.blk \in Range(chain)' /\ End(y) <= block'[y.blk].used
             /\ block'[y.blk].skew = block[y.blk].skew
  <2>1. y \in live /\ y # x
    BY <1>3
  <2>2. y.blk \in Range(chain) /\ End(y) <= block[y.blk].used /\ y.blk \in Blocks
    BY <2>1, RegionsParts, PlaceType, Zenon DEF Placed
  <2>3. Range(chain)' = Range(chain)
    BY <1>3, Zenon DEF Range
  <2> QED
    BY <1>2, <1>4, <2>1, <2>2, <2>3
<1> QED
  BY <1>3, <1>5, <1>6, RegionsKept

-----------------------------------------------------------------------------
(* The marks of open scopes *)

\* The chain of the next state starts with the chain of this one.
ChainKept ==
  /\ Len(chain') >= Len(chain)
  /\ \A j \in 1..Len(chain) : chain'[j] = chain[j]

LEMMA MarkUnique ==
  ASSUME NEW c \in Seq(Blocks), IsInjective(c), NEW t, NEW k \in 0..Len(c), NEW l \in 0..Len(c),
         IF k = 0 THEN t.block = NULL ELSE t.block = c[k],
         IF l = 0 THEN t.block = NULL ELSE t.block = c[l]
  PROVE  k = l
<1>1. \A j \in 1..Len(c) : c[j] # NULL
  BY BlocksAssumption
<1>2. k = 0 <=> l = 0
  BY <1>1
<1> QED
  BY <1>2 DEF IsInjective

\* What ScopesConsistent says of one scope.
ScopeHeld(i) ==
  /\ scopes[i].depth = i /\ scopes[i].generation = generation
  /\ \E k \in 0..Len(chain) : StopAt(scopes[i], k) /\ Separates(scopes[i], k, i)
Nested(t, u, k, l) ==
  StopAt(t, k) /\ StopAt(u, l) => k <= l /\ (k = l => t.block_used <= u.block_used)

LEMMA ScopesParts ==
  ScopesConsistent <=>
    /\ Len(scopes) = temp_depth /\ \A x \in live : x.depth <= temp_depth
    /\ \A i \in 1..Len(scopes) : ScopeHeld(i)
    /\ \A i, j \in 1..Len(scopes), k, l \in 0..Len(chain) :
         i < j => Nested(scopes[i], scopes[j], k, l)
BY Zenon DEF ScopesConsistent, ScopeHeld, Nested

LEMMA ScopesPartsPrime ==
  ScopesConsistent' <=>
    /\ Len(scopes') = temp_depth' /\ \A x \in live' : x.depth <= temp_depth'
    /\ \A i \in 1..Len(scopes') : ScopeHeld(i)'
    /\ \A i, j \in 1..Len(scopes'), k, l \in 0..Len(chain') :
         i < j => Nested(scopes[i], scopes[j], k, l)'
BY Zenon DEF ScopesConsistent, ScopeHeld, Nested

LEMMA StopAtKept ==
  ASSUME TypeOK, TypeOK', ChainKept, NEW t, NEW k, StopAt(t, k)
  PROVE  StopAt(t, k)'
<1>1. Len(chain) \in Nat /\ Len(chain') \in Nat
  BY DEF TypeOK
<1>2. k \in 0..Len(chain)
  BY DEF StopAt
<1>3. k \in 0..Len(chain') /\ (k # 0 => chain'[k] = chain[k])
  BY <1>1, <1>2 DEF ChainKept
<1> QED
  BY <1>3, Zenon DEF StopAt

\* A scope still separates the regions when its block keeps a cursor above the
\* mark and every new region is one of the innermost scope, above the mark.
LEMMA SeparatesKept ==
  ASSUME TypeOK, TypeOK', ChainKept, NEW t, NEW k \in 0..Len(chain), NEW i \in Nat,
         i <= temp_depth, Separates(t, k, i),
         k > 0 => t.block_used <= block'[chain[k]].used,
         \A x \in live' : x \in live \/ (x.depth = temp_depth /\ AboveMark(t, k, x)')
  PROVE  Separates(t, k, i)'
<1>1. /\ chain \in Seq(Blocks) /\ chain' \in Seq(Blocks) /\ temp_depth \in Nat
      /\ Len(chain) \in Nat /\ Len(chain') \in Nat
  <2>1. chain \in Seq(Blocks) /\ chain' \in Seq(Blocks) /\ temp_depth \in Nat
    BY Zenon DEF TypeOK
  <2> QED
    BY <2>1, SMTT(30)
<1>2. k > 0 => t.block_used <= block'[chain'[k]].used
  BY DEF ChainKept
<1>3. ASSUME NEW x \in live, x.depth < i
      PROVE  BelowMark(t, k, x)'
  <2>1. PICK j \in 1..k : chain[j] = x.blk /\ (j = k => End(x) <= t.block_used)
    BY <1>3 DEF Separates, BelowMark, End
  <2>2. chain'[j] = x.blk
    BY <1>1, <2>1 DEF ChainKept
  <2> QED
    BY <2>1, <2>2, Zenon DEF BelowMark, End
<1>4. ASSUME NEW x \in live, ~(x.depth < i)
      PROVE  AboveMark(t, k, x)'
  <2>1. PICK j \in 1..Len(chain) : j >= k /\ chain[j] = x.blk /\ (j = k => x.off >= t.block_used)
    BY <1>4 DEF Separates, AboveMark
  <2>2. j \in 1..Len(chain') /\ chain'[j] = x.blk
    BY <1>1, <2>1 DEF ChainKept
  <2> QED
    BY <2>1, <2>2, Zenon DEF AboveMark
<1>5. \A x \in live' : IF x.depth < i THEN BelowMark(t, k, x)' ELSE AboveMark(t, k, x)'
  BY <1>1, <1>3, <1>4
<1> QED
  BY <1>2, <1>5, Zenon DEF Separates

\* The open scopes stay consistent through a step that only adds to the chain.
LEMMA ScopesKept ==
  ASSUME TypeOK, TypeOK', BlocksAccounted', ScopesConsistent, ChainKept, UNCHANGED epoch,
         \A x \in live' : x.depth <= temp_depth,
         \A i \in 1..Len(scopes), k \in 0..Len(chain), t \in Scope :
           t = scopes[i] /\ StopAt(t, k) /\ Separates(t, k, i) =>
             /\ k > 0 => t.block_used <= block'[chain[k]].used
             /\ \A x \in live' : x \in live \/ (x.depth = temp_depth /\ AboveMark(t, k, x)')
  PROVE  ScopesConsistent'
<1>1. scopes' = scopes /\ temp_depth' = temp_depth /\ generation' = generation
  BY DEF epoch
<1>2. /\ Len(scopes) = temp_depth /\ \A x \in live : x.depth <= temp_depth
      /\ \A i \in 1..Len(scopes) : ScopeHeld(i)
      /\ \A i, j \in 1..Len(scopes), k, l \in 0..Len(chain) :
           i < j => Nested(scopes[i], scopes[j], k, l)
  BY ScopesParts, Zenon
<1>3. ASSUME NEW i \in 1..Len(scopes)
      PROVE  \E k \in 0..Len(chain) : \E t \in Scope :
               /\ t = scopes[i] /\ StopAt(t, k) /\ StopAt(t, k)' /\ Separates(t, k, i)'
  <2>1. PICK k \in 0..Len(chain) : StopAt(scopes[i], k) /\ Separates(scopes[i], k, i)
    BY <1>2, Zenon DEF ScopeHeld
  <2>2. PICK t \in Scope : t = scopes[i]
    <3>1. scopes \in Seq(Scope)
      BY Zenon DEF TypeOK
    <3>2. scopes[i] \in Scope
      BY <3>1, SMTT(30)
    <3> QED
      BY <3>2, Zenon
  <2>3. StopAt(t, k) /\ Separates(t, k, i)
    BY <2>1, <2>2, Zenon
  <2>4. StopAt(t, k)'
    BY <2>3, StopAtKept
  <2>5. i \in Nat /\ i <= temp_depth
    BY <1>2, SMTT(30) DEF TypeOK
  <2>6. Separates(t, k, i)'
    <3>1. k > 0 => t.block_used <= block'[chain[k]].used
      BY <2>2, <2>3
    <3>2. \A x \in live' : x \in live \/ (x.depth = temp_depth /\ AboveMark(t, k, x)')
      BY <2>2, <2>3
    <3> QED
      BY <2>3, <2>5, <3>1, <3>2, SeparatesKept
  <2> QED
    BY <2>2, <2>3, <2>4, <2>6
<1>4. Len(chain') \in Nat /\ Len(chain) \in Nat /\ Len(chain') >= Len(chain)
  <2>1. chain \in Seq(Blocks) /\ chain' \in Seq(Blocks)
    BY Zenon DEF TypeOK
  <2>2. Len(chain') >= Len(chain)
    BY Zenon DEF ChainKept
  <2> QED
    BY <2>1, <2>2, SMTT(30)
<1>5. ASSUME NEW i \in 1..Len(scopes)
      PROVE  ScopeHeld(i)'
  <2>1. PICK k \in 0..Len(chain), t \in Scope :
          t = scopes[i] /\ StopAt(t, k)' /\ Separates(t, k, i)'
    BY <1>3
  <2>2. t = scopes'[i]
    BY <1>1, <2>1
  <2>3. StopAt(scopes[i], k)' /\ Separates(scopes[i], k, i)'
    BY <2>1, <2>2
  <2>4. scopes'[i].depth = i /\ scopes'[i].generation = generation'
    BY <1>1, <1>2, Zenon DEF ScopeHeld
  <2>5. k \in 0..Len(chain')
    BY <1>4
  <2> QED
    BY <2>3, <2>4, <2>5, Zenon DEF ScopeHeld
<1>6. chain' \in Seq(Blocks) /\ IsInjective(chain')
  BY Zenon DEF TypeOK, BlocksAccounted, IsInjective
<1>7. ASSUME NEW i \in 1..Len(scopes), NEW j \in 1..Len(scopes), i < j,
             NEW k \in 0..Len(chain'), NEW l \in 0..Len(chain')
      PROVE  Nested(scopes[i], scopes[j], k, l)'
  <2>1. PICK m \in 0..Len(chain), t \in Scope : t = scopes[i] /\ StopAt(t, m) /\ StopAt(t, m)'
    BY <1>3
  <2>2. PICK n \in 0..Len(chain), u \in Scope : u = scopes[j] /\ StopAt(u, n) /\ StopAt(u, n)'
    BY <1>3
  <2>3. m <= n /\ (m = n => t.block_used <= u.block_used)
    BY <1>2, <1>7, <2>1, <2>2 DEF Nested
  <2>4. m \in 0..Len(chain') /\ n \in 0..Len(chain')
    BY <1>4
  <2>5. StopAt(t, k)' => k = m
    BY <1>6, <2>1, <2>4, MarkUnique DEF StopAt
  <2>6. StopAt(u, l)' => l = n
    BY <1>6, <2>2, <2>4, MarkUnique DEF StopAt
  <2>7. Nested(t, u, k, l)'
    BY <2>3, <2>5, <2>6, Zenon DEF Nested
  <2>8. t = scopes'[i] /\ u = scopes'[j]
    BY <1>1, <2>1, <2>2
  <2> QED
    BY <2>7, <2>8
<1> QED
  BY <1>1, <1>2, <1>5, <1>7, ScopesPartsPrime, Zenon

\* What a consistent scope gives of its mark.
LEMMA MarkFacts ==
  ASSUME TypeOK, NEW t \in Scope, NEW k \in 0..Len(chain), NEW i, StopAt(t, k), Separates(t, k, i)
  PROVE  /\ t.block_used \in Nat
         /\ k > 0 => /\ chain[k] \in Blocks /\ chain[k] \in Range(chain)
                     /\ t.block_used <= block[chain[k]].used
<1>1. t.block_used \in Nat
  BY DEF Scope
<1>2. k > 0 => chain[k] \in Blocks /\ chain[k] \in Range(chain)
  BY DEF TypeOK, Range
<1> QED
  BY <1>1, <1>2 DEF Separates

\* Carving a region at the end of the newest block.
LEMMA CarveScopes ==
  ASSUME TypeOK, TypeOK', BlocksAccounted, BlocksAccounted', ScopesConsistent,
         NEW b \in Blocks, NEW cell \in Cell,
         NEW size \in Nat \ {0}, NEW align \in 1..MaxAlign, NEW old \in SUBSET live, NEW oldSize,
         Carve(b, cell, size, align, old, oldSize), UNCHANGED epoch,
         \/ chain' = chain /\ chain # <<>> /\ b = Current /\ cell = block[b]
         \/ chain' = Append(chain, b) /\ b \notin Range(chain)
  PROVE  ScopesConsistent'
<1>1. PICK new : /\ new = [blk |-> b, off |-> cell.used + Pad(cell, align), size |-> size,
                            align |-> align, depth |-> temp_depth]
                 /\ live' = (live \ old) \cup {new}
  BY Zenon DEF Carve
<1>2. new.blk = b /\ new.off = cell.used + Pad(cell, align) /\ new.depth = temp_depth
  BY <1>1
<1>3. /\ \A c \in Blocks \ {b} : block'[c] = block[c]
      /\ block'[b].used = cell.used + Pad(cell, align) + (size + Redzone)
  BY CarveBlock
<1>4. Pad(cell, align) \in Nat /\ cell.used \in Nat /\ Redzone \in Nat
  BY PadType, LayoutAssumption DEF Cell
<1>5. /\ chain \in Seq(Blocks) /\ chain' \in Seq(Blocks) /\ temp_depth \in Nat
      /\ Len(chain) \in Nat /\ Len(chain') \in Nat /\ chain'[Len(chain')] = b /\ Len(chain') > 0
  <2>1. chain \in Seq(Blocks) /\ chain' \in Seq(Blocks) /\ temp_depth \in Nat
    BY Zenon DEF TypeOK
  <2>2. chain # <<>> /\ b = Current => Len(chain) > 0 /\ chain[Len(chain)] = b
    BY <2>1 DEF Current, Last
  <2> QED
    BY <2>1, <2>2
<1>6. ChainKept
  BY <1>5 DEF ChainKept
<1>7. \A x \in live' : x.depth <= temp_depth
  BY <1>1, <1>2, <1>5, ScopesParts
<1>8. ASSUME NEW i \in 1..Len(scopes), NEW k \in 0..Len(chain), NEW t \in Scope,
             t = scopes[i], StopAt(t, k), Separates(t, k, i)
      PROVE  /\ k > 0 => t.block_used <= block'[chain[k]].used
             /\ \A x \in live' : x \in live \/ (x.depth = temp_depth /\ AboveMark(t, k, x)')
  <2>1. /\ t.block_used \in Nat
        /\ k > 0 => /\ chain[k] \in Blocks /\ chain[k] \in Range(chain)
                    /\ t.block_used <= block[chain[k]].used
    BY <1>8, MarkFacts
  <2>2. ASSUME k > 0
        PROVE  t.block_used <= block'[chain[k]].used
    <3>1. CASE chain[k] = b
      <4>1. cell = block[b]
        BY <2>1, <2>2, <3>1
      <4> QED
        BY <1>3, <1>4, <2>1, <2>2, <3>1, <4>1
    <3>2. CASE chain[k] # b
      BY <1>3, <2>1, <2>2, <3>2
    <3> QED
      BY <3>1, <3>2
  <2>3. AboveMark(t, k, new)'
    <3>1. Len(chain') \in 1..Len(chain') /\ Len(chain') >= k
      BY <1>5, <1>6 DEF ChainKept
    <3>2. Len(chain') = k => new.off >= t.block_used
      <4>1. ASSUME Len(chain') = k
            PROVE  chain' = chain /\ cell = block[b] /\ chain[k] = b
        BY <1>5, <4>1
      <4>2. ASSUME Len(chain') = k
            PROVE  t.block_used <= cell.used
        BY <1>5, <2>1, <4>1, <4>2
      <4> QED
        BY <1>2, <1>4, <2>1, <4>2
    <3> QED
      BY <1>2, <1>5, <3>1, <3>2 DEF AboveMark
  <2> QED
    BY <1>1, <1>2, <2>2, <2>3
<1> QED
  BY <1>6, <1>7, <1>8, ScopesKept

LEMMA ServedScopes ==
  ASSUME TypeOK, TypeOK', BlocksAccounted, BlocksAccounted', ScopesConsistent, Served
  PROVE  ScopesConsistent'
<1>1. PICK size \in Nat, align \in Nat, old \in SUBSET live, oldSize \in Nat :
        /\ CoreArgs(size, align, old, oldSize)
        /\ \/ BumpCurrent(size, align, old, oldSize)
           \/ Grown(size, align, old, oldSize)
  BY DEF Served
<1>2. size \in Nat \ {0} /\ align \in 1..MaxAlign
  BY <1>1 DEF CoreArgs
<1>3. CASE BumpCurrent(size, align, old, oldSize)
  <2>1. /\ chain # <<>> /\ chain' = chain /\ UNCHANGED epoch
        /\ Carve(Current, block[Current], size, align, old, oldSize)
    BY <1>3, Zenon DEF BumpCurrent, FitsCurrent
  <2>2. Current \in Blocks /\ block[Current] \in Cell
    BY <2>1, CurrentOwned, CellType
  <2> QED
    BY <1>2, <2>1, <2>2, CarveScopes
<1>4. ASSUME NEW b \in Blocks, NEW cell \in Cell, b \notin Range(chain),
             BumpEntered(b, cell, size, align, old, oldSize), UNCHANGED epoch
      PROVE  ScopesConsistent'
  <2>1. chain' = Append(chain, b)
    BY <1>4, Zenon DEF BumpEntered
  <2>2. CASE Carve(b, cell, size, align, old, oldSize)
    BY <1>2, <1>4, <2>1, <2>2, CarveScopes
  <2>3. CASE block' = [block EXCEPT ![b] = cell] /\ UNCHANGED stats
    <3>1. \A c \in Blocks \ {b} : block'[c] = block[c]
      BY <2>3 DEF TypeOK
    <3>2. live' = live
      BY <2>3 DEF stats
    <3>3. ChainKept
      BY <2>1 DEF ChainKept, TypeOK
    <3>4. ASSUME NEW i \in 1..Len(scopes), NEW k \in 0..Len(chain), NEW t \in Scope,
                 t = scopes[i], StopAt(t, k), Separates(t, k, i)
          PROVE  k > 0 => t.block_used <= block'[chain[k]].used
      BY <1>4, <3>1, <3>4, MarkFacts
    <3>5. \A x \in live' : x.depth <= temp_depth
      BY <3>2, ScopesParts
    <3> QED
      BY <1>4, <3>2, <3>3, <3>4, <3>5, ScopesKept
  <2> QED
    BY <1>4, <2>2, <2>3, Zenon DEF BumpEntered
<1>5. CASE TakeFreeBlock(size, align, old, oldSize)
  <2>1. PICK i \in DOMAIN freeList :
          BumpEntered(freeList[i], block[freeList[i]], size, align, old, oldSize)
    BY <1>5 DEF TakeFreeBlock
  <2>2. freeList[i] \in Blocks /\ freeList[i] \in Range(freeList)
    BY DEF TypeOK, Range
  <2>3. freeList[i] \notin Range(chain) /\ block[freeList[i]] \in Cell
    BY <2>2, CellType DEF BlocksAccounted
  <2>4. UNCHANGED epoch
    BY <1>5, Zenon DEF TakeFreeBlock
  <2> QED
    BY <1>4, <2>1, <2>2, <2>3, <2>4
<1>6. CASE ~fixed /\ TakeNewBlock(size, align, old, oldSize)
  <2>1. PICK b \in Blocks, skew \in Skews :
          /\ held[b] = 0
          /\ BumpEntered(b, NewCell(size, align, skew), size, align, old, oldSize)
    BY <1>6 DEF TakeNewBlock, NewCell
  <2>2. NewCell(size, align, skew) \in Cell
    BY <1>2, NewCellType
  <2>3. b \notin Range(chain)
    <3>1. held[b] = IF b \in Owned /\ ~fixed THEN Hdr + block[b].cap ELSE 0
      BY Zenon DEF BlocksAccounted
    <3> QED
      BY <1>6, <2>1, <3>1, CellType, LayoutAssumption DEF Owned
  <2>4. UNCHANGED epoch
    BY <1>6, Zenon DEF TakeNewBlock
  <2> QED
    BY <1>4, <2>1, <2>2, <2>3, <2>4
<1> QED
  BY <1>1, <1>3, <1>5, <1>6, Zenon DEF Grown

\* The last region lies above the mark of every scope it was made in.
LEMMA LastAboveMark ==
  ASSUME TypeOK, BlocksAccounted, NEW x \in live, IsLastAlloc(x), x.depth = temp_depth,
         NEW t \in Scope, NEW i \in Nat, i <= temp_depth, NEW k \in 0..Len(chain),
         Separates(t, k, i)
  PROVE  /\ AboveMark(t, k, x)
         /\ k > 0 /\ chain[k] = x.blk => t.block_used <= x.off
<1>1. AboveMark(t, k, x)
  BY DEF Separates, TypeOK
<1>2. ASSUME k > 0, chain[k] = x.blk
      PROVE  t.block_used <= x.off
  <2>1. PICK j \in 1..Len(chain) : j >= k /\ chain[j] = x.blk /\ (j = k => x.off >= t.block_used)
    BY <1>1 DEF AboveMark
  <2>2. chain \in Seq(Blocks) /\ IsInjective(chain)
    BY DEF TypeOK, BlocksAccounted
  <2>3. j = k
    BY <1>2, <2>1, <2>2 DEF IsInjective
  <2>4. x.off \in Nat /\ t.block_used \in Nat
    BY PlaceType DEF Scope
  <2> QED
    BY <2>1, <2>3, <2>4
<1> QED
  BY <1>1, <1>2

\* The handlers that move the cursor of the last region: realloc in place, xfree.
LEMMA LastMovedScopes ==
  ASSUME TypeOK, TypeOK', BlocksAccounted, BlocksAccounted', ScopesConsistent,
         NEW x \in live, IsLastAlloc(x), x.depth = temp_depth,
         chain' = chain, UNCHANGED epoch,
         \A c \in Blocks \ {x.blk} : block'[c] = block[c],
         x.off <= block'[x.blk].used,
         \A y \in live' : \/ y \in live
                          \/ y.depth = x.depth /\ y.blk = x.blk /\ y.off = x.off
  PROVE  ScopesConsistent'
<1>1. ChainKept
  BY DEF ChainKept, TypeOK
<1>2. \A y \in live' : y.depth <= temp_depth
  BY ScopesParts DEF TypeOK
<1>3. ASSUME NEW i \in 1..Len(scopes), NEW k \in 0..Len(chain), NEW t \in Scope,
             t = scopes[i], StopAt(t, k), Separates(t, k, i)
      PROVE  /\ k > 0 => t.block_used <= block'[chain[k]].used
             /\ \A y \in live' : y \in live \/ (y.depth = temp_depth /\ AboveMark(t, k, y)')
  <2>1. i \in Nat /\ i <= temp_depth
    BY ScopesParts DEF TypeOK
  <2>2. /\ AboveMark(t, k, x)
        /\ k > 0 /\ chain[k] = x.blk => t.block_used <= x.off
    BY <1>3, <2>1, LastAboveMark
  <2>3. /\ t.block_used \in Nat
        /\ k > 0 => /\ chain[k] \in Blocks /\ chain[k] \in Range(chain)
                    /\ t.block_used <= block[chain[k]].used
    BY <1>3, MarkFacts
  <2>4. x.off \in Nat /\ x.blk \in Blocks
    BY PlaceType
  <2>5. block'[x.blk].used \in Nat
    BY <2>4 DEF TypeOK, Cell
  <2>6. ASSUME k > 0
        PROVE  t.block_used <= block'[chain[k]].used
    <3>1. CASE chain[k] = x.blk
      BY <2>2, <2>3, <2>4, <2>5, <2>6, <3>1
    <3>2. CASE chain[k] # x.blk
      BY <2>3, <2>6, <3>2
    <3> QED
      BY <3>1, <3>2
  <2>7. ASSUME NEW y \in live', y.blk = x.blk, y.off = x.off
        PROVE  AboveMark(t, k, y)'
    <3>1. PICK j \in 1..Len(chain) : j >= k /\ chain[j] = x.blk /\ (j = k => x.off >= t.block_used)
      BY <2>2 DEF AboveMark
    <3> QED
      BY <2>7, <3>1 DEF AboveMark
  <2> QED
    BY <2>6, <2>7
<1> QED
  BY <1>1, <1>2, <1>3, ScopesKept

LEMMA ResizedScopes ==
  ASSUME TypeOK, TypeOK', BlocksAccounted, BlocksAccounted', RegionsSafe, ScopesConsistent,
         NEW x \in live, NEW newSize \in Nat \ {0}, x.depth = temp_depth,
         CanResize(x, newSize), ResizeInPlace(x, newSize)
  PROVE  ScopesConsistent'
<1>1. IsLastAlloc(x)
  BY Zenon DEF CanResize
<1>2. x.blk \in Blocks /\ End(x) = block[x.blk].used
  BY <1>1, BelowLast
<1>3. PICK n : n = [x EXCEPT !.size = newSize]
  OBVIOUS
<1>4. /\ block' = [block EXCEPT ![x.blk].used = @ + (newSize - x.size)]
      /\ live' = (live \ {x}) \cup {n} /\ chain' = chain /\ UNCHANGED epoch
  BY <1>3, Zenon DEF ResizeInPlace
<1>5. n.blk = x.blk /\ n.off = x.off /\ n.depth = x.depth
  <2>1. x \in Place
    BY DEF TypeOK
  <2> QED
    BY <1>3, <2>1 DEF Place
<1>6. /\ \A c \in Blocks \ {x.blk} : block'[c] = block[c]
      /\ block'[x.blk].used = block[x.blk].used + (newSize - x.size)
  BY <1>2, <1>4 DEF TypeOK, Cell
<1>7. x.off <= block'[x.blk].used
  BY <1>2, <1>6, PlaceType, LayoutAssumption DEF End
<1>8. \A y \in live' : y \in live \/ (y.depth = x.depth /\ y.blk = x.blk /\ y.off = x.off)
  BY <1>4, <1>5
<1> QED
  BY <1>1, <1>4, <1>6, <1>7, <1>8, LastMovedScopes

LEMMA RolledBackScopes ==
  ASSUME TypeOK, TypeOK', BlocksAccounted, BlocksAccounted', RegionsSafe, ScopesConsistent,
         NEW x \in live, x.depth = temp_depth, RollBack(x)
  PROVE  ScopesConsistent'
<1>1. IsLastAlloc(x)
  BY Zenon DEF RollBack
<1>2. x.blk \in Blocks /\ x.off \in Nat
  BY PlaceType
<1>3. /\ block' = [block EXCEPT ![x.blk].used = x.off] /\ live' = live \ {x} /\ chain' = chain
      /\ UNCHANGED epoch
  BY Zenon DEF RollBack
<1>4. /\ \A c \in Blocks \ {x.blk} : block'[c] = block[c]
      /\ block'[x.blk].used = x.off
  BY <1>2, <1>3 DEF TypeOK, Cell
<1> QED
  BY <1>1, <1>2, <1>3, <1>4, LastMovedScopes

\* A scope begun in an arena without blocks has its mark at zero.
NullMarks == \A i \in 1..Len(scopes) : scopes[i].block = NULL => scopes[i].block_used = 0

LEMMA TempBeginSafe ==
  ASSUME TypeOK, TypeOK', BlocksAccounted, RegionsSafe, ScopesConsistent, NullMarks, TempBegin
  PROVE  RegionsSafe' /\ ScopesConsistent'
<1>1. PICK t, n, top : t = Snapshot(temp_depth + 1) /\ n = Len(scopes) + 1 /\ top = Len(chain)
  OBVIOUS
<1>2. /\ temp_depth' = temp_depth + 1 /\ scopes' = Append(scopes, t)
      /\ UNCHANGED <<heap, stats, policy, generation, status, aborted>>
  BY <1>1, Zenon DEF TempBegin
<1>3. UNCHANGED <<chain, block, live, generation>>
  BY <1>2, Zenon DEF heap, stats
<1>4. RegionsSafe'
  <2>1. CursorsBounded'
    BY <1>3, RegionsParts DEF CursorsBounded
  <2>2. ASSUME NEW x \in live'
        PROVE  /\ x.blk \in Range(chain)' /\ End(x) <= block'[x.blk].used
               /\ block'[x.blk].skew = block[x.blk].skew
    <3>1. x \in live
      BY <1>3
    <3>2. x.blk \in Range(chain) /\ End(x) <= block[x.blk].used
      BY <3>1, RegionsParts, Zenon DEF Placed
    <3>3. Range(chain)' = Range(chain)
      BY <1>3, Zenon DEF Range
    <3> QED
      BY <1>3, <3>2, <3>3, Zenon
  <2> QED
    BY <1>3, <2>1, <2>2, RegionsKept
<1>5. /\ Len(scopes) = temp_depth /\ \A x \in live : x.depth <= temp_depth
      /\ \A i \in 1..Len(scopes) : ScopeHeld(i)
      /\ \A i, j \in 1..Len(scopes), k, l \in 0..Len(chain) :
           i < j => Nested(scopes[i], scopes[j], k, l)
  BY ScopesParts, Zenon
<1>6. /\ chain \in Seq(Blocks) /\ IsInjective(chain) /\ scopes \in Seq(Scope)
      /\ temp_depth \in Nat /\ top \in Nat
  BY <1>1 DEF TypeOK, BlocksAccounted
<1>7. /\ Len(scopes') = n /\ scopes'[n] = t /\ n = temp_depth + 1
      /\ \A i \in 1..Len(scopes) : scopes'[i] = scopes[i]
  BY <1>1, <1>2, <1>5, <1>6
<1>8. /\ t.depth = n /\ t.generation = generation
      /\ t.block = IF chain = <<>> THEN NULL ELSE Current
      /\ t.block_used = IF chain = <<>> THEN 0 ELSE block[Current].used
  BY <1>1, <1>7 DEF Snapshot
<1>9. /\ StopAt(t, top)
      /\ top > 0 => t.block_used = block[chain[top]].used
  BY <1>1, <1>6, <1>8 DEF StopAt, Current, Last
<1>10. Separates(t, top, n)
  <2>1. ASSUME NEW x \in live
        PROVE  x.depth < n /\ BelowMark(t, top, x)
    <3>1. x.blk \in Range(chain) /\ End(x) <= block[x.blk].used
      BY RegionsParts, Zenon DEF Placed
    <3>2. PICK j \in 1..top : chain[j] = x.blk
      BY <1>1, <1>6, <3>1 DEF Range
    <3>3. j = top => End(x) <= t.block_used
      BY <1>9, <3>1, <3>2
    <3>4. x.depth < n
      BY <1>5, <1>6, <1>7, PlaceType
    <3> QED
      BY <3>2, <3>3, <3>4 DEF BelowMark, End
  <2>2. top > 0 => t.block_used <= block[chain[top]].used
    <3>1. top > 0 => block[chain[top]].used \in Nat
      BY <1>1, <1>6, CellType
    <3> QED
      BY <1>9, <3>1
  <2> QED
    BY <2>1, <2>2, Zenon DEF Separates
\* Marks and separation depend only on what the step leaves alone.
<1>11. ASSUME NEW u, NEW k, NEW i
       PROVE  /\ StopAt(u, k)' <=> StopAt(u, k)
              /\ Separates(u, k, i)' <=> Separates(u, k, i)
  BY <1>3, Zenon DEF StopAt, Separates, BelowMark, AboveMark
<1>12. ASSUME NEW i \in 1..n
       PROVE  ScopeHeld(i)'
  <2>1. CASE i = n
    <3>1. StopAt(t, top)' /\ Separates(t, top, n)' /\ top \in 0..Len(chain')
      BY <1>1, <1>3, <1>6, <1>9, <1>10, <1>11
    <3>2. StopAt(scopes[i], top)' /\ Separates(scopes[i], top, i)'
      BY <1>7, <2>1, <3>1
    <3> QED
      BY <1>3, <1>7, <1>8, <2>1, <3>1, <3>2 DEF ScopeHeld
  <2>2. CASE i \in 1..Len(scopes)
    <3>1. PICK u : u = scopes[i]
      OBVIOUS
    <3>2. /\ u.depth = i /\ u.generation = generation
          /\ \E k \in 0..Len(chain) : StopAt(u, k) /\ Separates(u, k, i)
      BY <1>5, <2>2, <3>1, Zenon DEF ScopeHeld
    <3>3. PICK k \in 0..Len(chain) : StopAt(u, k)' /\ Separates(u, k, i)'
      BY <1>11, <3>2, Zenon
    <3>4. u = scopes'[i]
      BY <1>7, <2>2, <3>1
    <3>5. StopAt(scopes[i], k)' /\ Separates(scopes[i], k, i)'
      BY <3>3, <3>4
    <3> QED
      BY <1>3, <3>2, <3>3, <3>4, <3>5 DEF ScopeHeld
  <2> QED
    BY <1>1, <1>5, <1>6, <2>1, <2>2
<1>13. ASSUME NEW i \in 1..n, NEW j \in 1..n, i < j, NEW k \in 0..Len(chain'), NEW l \in 0..Len(chain')
       PROVE  Nested(scopes[i], scopes[j], k, l)'
  <2>1. k \in 0..Len(chain) /\ l \in 0..Len(chain) /\ i \in 1..Len(scopes)
    BY <1>1, <1>3, <1>5, <1>6, <1>13
  <2>2. PICK u, v : u = scopes'[i] /\ v = scopes'[j]
    OBVIOUS
  <2>3. u = scopes[i]
    BY <1>7, <2>1, <2>2
  <2>4. Nested(u, v, k, l)
    <3>1. CASE j \in 1..Len(scopes)
      BY <1>5, <1>7, <1>13, <2>1, <2>2, <2>3, <3>1
    <3>2. CASE j = n
      <4>1. v = t
        BY <1>7, <2>2, <3>2
      <4>2. StopAt(t, l) => l = top
        BY <1>1, <1>6, <1>9, MarkUnique DEF StopAt
      <4>3. PICK m \in 0..Len(chain) : StopAt(u, m) /\ Separates(u, m, i)
        BY <1>5, <2>1, <2>3, Zenon DEF ScopeHeld
      <4>4. StopAt(u, k) => k = m
        BY <1>6, <4>3, MarkUnique DEF StopAt
      <4>5. m > 0 => u.block_used <= block[chain[m]].used
        BY <4>3, Zenon DEF Separates
      <4>6. m = top /\ m = 0 => u.block_used <= t.block_used
        <5>1. m = 0 => u.block_used = 0
          BY <2>1, <2>3, <4>3 DEF NullMarks, StopAt
        <5>2. t.block_used \in Nat
          BY <1>6, <1>8, CurrentOwned, CellType
        <5> QED
          BY <5>1, <5>2
      <4>7. m <= top /\ (m = top => u.block_used <= t.block_used)
        BY <1>1, <1>6, <1>9, <4>5, <4>6
      <4> QED
        BY <4>1, <4>2, <4>4, <4>7 DEF Nested
    <3> QED
      BY <1>1, <1>5, <1>6, <3>1, <3>2
  <2>5. Nested(u, v, k, l)'
    BY <1>11, <2>4, Zenon DEF Nested
  <2> QED
    BY <2>2, <2>5
<1>14. \A x \in live' : x.depth <= temp_depth'
  BY <1>2, <1>3, <1>5, <1>6, PlaceType
<1> QED
  BY <1>2, <1>4, <1>7, <1>12, <1>13, <1>14, ScopesPartsPrime

\* What ending a scope does to the blocks: everything above the mark is given up
\* and the block of the mark gets its cursor back.
LEMMA RewindFacts ==
  ASSUME TypeOK, BlocksAccounted, CursorsBounded, NEW t \in Scope, NEW k \in 0..Len(chain),
         NEW i, StopAt(t, k), Separates(t, k, i), Rewind(t, k)
  PROVE  /\ chain' \in Seq(Blocks) /\ Len(chain') = k /\ IsInjective(chain')
         /\ \A j \in 1..k : chain'[j] = chain[j] /\ chain[j] \in Range(chain)'
         /\ \A j \in 1..k : IF j = k THEN block'[chain[j]].used = t.block_used
                                     ELSE block'[chain[j]] = block[chain[j]]
         /\ \A j \in 1..k : block'[chain[j]].skew = block[chain[j]].skew
         /\ CursorsBounded'
<1>1. /\ chain' = SubSeq(chain, 1, k)
      /\ block' = [b \in Blocks |->
                     IF b \in Popped(k) THEN Discarded(b)
                     ELSE IF k > 0 /\ b = chain[k]
                          THEN [block[b] EXCEPT !.used = Smaller(@, t.block_used)]
                          ELSE block[b]]
  BY Zenon DEF Rewind
<1>2. chain \in Seq(Blocks) /\ IsInjective(chain) /\ Len(chain) \in Nat
  BY DEF TypeOK, BlocksAccounted
<1>3. /\ chain' \in Seq(Blocks) /\ Len(chain') = k /\ IsInjective(chain')
      /\ \A j \in 1..k : chain'[j] = chain[j]
  BY <1>1, <1>2, CutChain
<1>4. \A j \in 1..k : chain[j] \in Range(chain)'
  BY <1>3 DEF Range
<1>5. ASSUME NEW j \in 1..k
      PROVE  chain[j] \notin Popped(k) /\ chain[j] \in Blocks
  BY <1>2 DEF Popped, IsInjective
<1>6. ASSUME k > 0
      PROVE  /\ block'[chain[k]] = [block[chain[k]] EXCEPT !.used = t.block_used]
             /\ block'[chain[k]].used = t.block_used
             /\ block'[chain[k]].skew = block[chain[k]].skew
             /\ block'[chain[k]].cap = block[chain[k]].cap
  <2>1. chain[k] \notin Popped(k) /\ chain[k] \in Blocks /\ block[chain[k]] \in Cell
    BY <1>5, <1>6, CellType
  <2>2. t.block_used <= block[chain[k]].used /\ t.block_used \in Nat /\ block[chain[k]].used \in Nat
    BY <1>6, <2>1, MarkFacts, CellType
  <2>3. Smaller(block[chain[k]].used, t.block_used) = t.block_used
    BY <2>2 DEF Smaller
  <2>4. block'[chain[k]] = [block[chain[k]] EXCEPT !.used = Smaller(@, t.block_used)]
    BY <1>1, <1>6, <2>1
  <2>5. block'[chain[k]] = [block[chain[k]] EXCEPT !.used = t.block_used]
    BY <2>3, <2>4
  <2> QED
    BY <2>1, <2>5 DEF Cell
<1>7. ASSUME NEW j \in 1..k, j # k
      PROVE  block'[chain[j]] = block[chain[j]]
  <2>1. chain[j] # chain[k]
    BY <1>2, <1>7 DEF IsInjective
  <2> QED
    BY <1>1, <1>5, <2>1
<1>8. ASSUME NEW b \in Blocks
      PROVE  block'[b].used <= block'[b].cap
  <2>1. block[b] \in Cell /\ block[b].used <= block[b].cap /\ block[b].cap \in Nat
    BY CellType DEF CursorsBounded
  <2>2. CASE b \in Popped(k)
    <3>1. block'[b] = Discarded(b)
      BY <1>1, <2>2
    <3>2. Discarded(b).used = 0 /\ Discarded(b).cap \in Nat
      BY <2>1 DEF Discarded, Absent, Cell
    <3> QED
      BY <3>1, <3>2
  <2>3. CASE b \notin Popped(k) /\ k > 0 /\ b = chain[k]
    <3>1. t.block_used <= block[b].used /\ t.block_used \in Nat
      BY <2>3, MarkFacts
    <3> QED
      BY <1>6, <2>1, <2>3, <3>1, CellType
  <2>4. CASE b \notin Popped(k) /\ ~(k > 0 /\ b = chain[k])
    BY <1>1, <2>1, <2>4
  <2> QED
    BY <2>2, <2>3, <2>4
<1>9. CursorsBounded'
  BY <1>8, Zenon DEF CursorsBounded
<1>10. \A j \in 1..k : IF j = k THEN block'[chain[j]].used = t.block_used
                                ELSE block'[chain[j]] = block[chain[j]]
  BY <1>6, <1>7
<1>11. \A j \in 1..k : block'[chain[j]].skew = block[chain[j]].skew
  BY <1>6, <1>7
<1> QED
  BY <1>3, <1>4, <1>9, <1>10, <1>11

LEMMA TempEndSafe ==
  ASSUME TypeOK, TypeOK', BlocksAccounted, RegionsSafe, ScopesConsistent, TempEnd
  PROVE  RegionsSafe' /\ ScopesConsistent'
<1>1. PICK t, n : t = Last(scopes) /\ n = Len(scopes)
  OBVIOUS
<1>2. /\ n = temp_depth /\ \A x \in live : x.depth <= temp_depth
      /\ \A i \in 1..Len(scopes) : ScopeHeld(i)
      /\ \A i, j \in 1..Len(scopes), k, l \in 0..Len(chain) :
           i < j => Nested(scopes[i], scopes[j], k, l)
  BY <1>1, ScopesParts, Zenon
<1>3. /\ chain \in Seq(Blocks) /\ IsInjective(chain) /\ Len(chain) \in Nat
      /\ scopes \in Seq(Scope) /\ scopes # <<>> /\ scopes' = Front(scopes)
  BY DEF TypeOK, BlocksAccounted, TempEnd
<1>4. /\ n \in Nat /\ n > 0 /\ t = scopes[n] /\ t \in Scope
      /\ Len(scopes') = n - 1 /\ \A i \in 1..(n - 1) : scopes'[i] = scopes[i]
  BY <1>1, <1>3 DEF Last, Front
<1>5. PICK k \in 0..Len(chain) : StopAt(t, k) /\ Separates(t, k, n)
  BY <1>1, <1>2, <1>4 DEF ScopeHeld
<1>6. Rewind(t, k)
  <2>1. PICK l \in 0..Len(chain) : StopAt(t, l) /\ Rewind(t, l)
    BY <1>1, <1>5, Zenon DEF TempEnd
  <2>2. l = k
    BY <1>3, <1>5, <2>1, MarkUnique DEF StopAt
  <2> QED
    BY <2>1, <2>2
<1>7. /\ live' = {x \in live : x.depth < temp_depth} /\ generation' = generation
      /\ temp_depth' = IF temp_depth > 0 THEN temp_depth - 1 ELSE 0
  BY <1>6, Zenon DEF Rewind
<1>8. temp_depth' = n - 1
  BY <1>2, <1>4, <1>7
<1>9. CursorsBounded
  BY RegionsParts
<1>10. /\ chain' \in Seq(Blocks) /\ Len(chain') = k /\ IsInjective(chain')
       /\ \A j \in 1..k : chain'[j] = chain[j] /\ chain[j] \in Range(chain)'
       /\ \A j \in 1..k : IF j = k THEN block'[chain[j]].used = t.block_used
                                   ELSE block'[chain[j]] = block[chain[j]]
       /\ \A j \in 1..k : block'[chain[j]].skew = block[chain[j]].skew
       /\ CursorsBounded'
  BY <1>4, <1>5, <1>6, <1>9, RewindFacts
\* The regions that survive are the older ones, all below the mark.
<1>11. ASSUME NEW x \in live'
       PROVE  /\ x \in live /\ x.depth < n
              /\ \E j \in 1..k : chain[j] = x.blk /\ (j = k => End(x) <= t.block_used)
  <2>1. x \in live /\ x.depth < n
    BY <1>2, <1>7
  <2> QED
    BY <1>5, <2>1 DEF Separates, BelowMark, End
<1>12. RegionsSafe'
  <2>1. ASSUME NEW x \in live'
        PROVE  /\ x.blk \in Range(chain)' /\ End(x) <= block'[x.blk].used
               /\ block'[x.blk].skew = block[x.blk].skew
    <3>1. x \in live
      BY <1>11
    <3>2. PICK j \in 1..k : chain[j] = x.blk /\ (j = k => End(x) <= t.block_used)
      BY <1>11
    <3>3. End(x) <= block[x.blk].used
      BY <3>1, RegionsParts, Zenon DEF Placed
    <3> QED
      BY <1>10, <3>2, <3>3
  <2> QED
    BY <1>7, <1>10, <2>1, RegionsKept
<1>13. ASSUME NEW i \in 1..(n - 1)
       PROVE  \E m \in 0..k : \E u \in Scope :
                u = scopes[i] /\ StopAt(u, m) /\ StopAt(u, m)' /\ Separates(u, m, i)'
  <2>1. i \in 1..Len(scopes) /\ i < n /\ n \in 1..Len(scopes)
    BY <1>1, <1>4
  <2>2. PICK u \in Scope : u = scopes[i]
    <3>1. scopes[i] \in Scope
      BY <1>3, <2>1
    <3> QED
      BY <3>1
  <2>3. PICK m \in 0..Len(chain) : StopAt(u, m) /\ Separates(u, m, i)
    BY <1>2, <2>1, <2>2, Zenon DEF ScopeHeld
  <2>4. m <= k /\ (m = k => u.block_used <= t.block_used)
    <3>1. Nested(u, t, m, k)
      BY <1>2, <1>4, <2>1, <2>2
    <3> QED
      BY <1>5, <2>3, <3>1 DEF Nested
  <2>5. m \in 0..k
    BY <2>4
  <2>6. StopAt(u, m)'
    <3>1. m \in 0..Len(chain') /\ (m # 0 => chain'[m] = chain[m])
      BY <1>10, <2>5
    <3>2. IF m = 0 THEN u.block = NULL ELSE u.block = chain[m]
      BY <2>3, Zenon DEF StopAt
    <3> QED
      BY <3>1, <3>2, Zenon DEF StopAt
  <2>7. m > 0 => u.block_used <= block'[chain'[m]].used
    <3>1. m > 0 => u.block_used <= block[chain[m]].used
      BY <2>3, Zenon DEF Separates
    <3> QED
      BY <1>10, <2>4, <2>5, <3>1
  <2>8. ASSUME NEW x \in live', x.depth < i
        PROVE  BelowMark(u, m, x)'
    <3>1. PICK j \in 1..m : chain[j] = x.blk /\ (j = m => End(x) <= u.block_used)
      BY <1>11, <2>3, <2>8 DEF Separates, BelowMark, End
    <3>2. chain'[j] = x.blk
      BY <1>10, <2>5, <3>1
    <3> QED
      BY <3>1, <3>2, Zenon DEF BelowMark, End
  <2>9. ASSUME NEW x \in live', ~(x.depth < i)
        PROVE  AboveMark(u, m, x)'
    <3>1. PICK j \in 1..Len(chain) : j >= m /\ chain[j] = x.blk /\ (j = m => x.off >= u.block_used)
      BY <1>11, <2>3, <2>9 DEF Separates, AboveMark
    <3>2. PICK l \in 1..k : chain[l] = x.blk
      BY <1>11
    <3>3. j = l
      BY <1>3, <3>1, <3>2 DEF IsInjective
    <3>4. j \in 1..Len(chain') /\ chain'[j] = x.blk
      BY <1>10, <3>1, <3>2, <3>3
    <3> QED
      BY <3>1, <3>4, Zenon DEF AboveMark
  <2>10. Separates(u, m, i)'
    BY <2>7, <2>8, <2>9, Zenon DEF Separates
  <2> QED
    BY <2>2, <2>3, <2>5, <2>6, <2>10
<1>14. ASSUME NEW i \in 1..(n - 1)
       PROVE  ScopeHeld(i)'
  <2>1. PICK m \in 0..k, u \in Scope : u = scopes[i] /\ StopAt(u, m)' /\ Separates(u, m, i)'
    BY <1>13
  <2>2. u = scopes'[i] /\ m \in 0..Len(chain')
    BY <1>4, <1>10, <2>1
  <2>3. StopAt(scopes[i], m)' /\ Separates(scopes[i], m, i)'
    BY <2>1, <2>2
  <2>4. scopes'[i].depth = i /\ scopes'[i].generation = generation'
    BY <1>1, <1>2, <1>4, <1>7 DEF ScopeHeld
  <2> QED
    BY <2>2, <2>3, <2>4, Zenon DEF ScopeHeld
<1>15. ASSUME NEW i \in 1..(n - 1), NEW j \in 1..(n - 1), i < j,
              NEW l \in 0..Len(chain'), NEW r \in 0..Len(chain')
       PROVE  Nested(scopes[i], scopes[j], l, r)'
  <2>1. PICK m \in 0..k, u \in Scope : u = scopes[i] /\ StopAt(u, m) /\ StopAt(u, m)'
    BY <1>13
  <2>2. PICK o \in 0..k, v \in Scope : v = scopes[j] /\ StopAt(v, o) /\ StopAt(v, o)'
    BY <1>13
  <2>3. m \in 0..Len(chain) /\ o \in 0..Len(chain) /\ i \in 1..Len(scopes) /\ j \in 1..Len(scopes)
    BY <1>1, <1>3, <1>4
  <2>4. m <= o /\ (m = o => u.block_used <= v.block_used)
    BY <1>2, <1>15, <2>1, <2>2, <2>3 DEF Nested
  <2>5. StopAt(u, l)' => l = m
    BY <1>10, <2>1, MarkUnique DEF StopAt
  <2>6. StopAt(v, r)' => r = o
    BY <1>10, <2>2, MarkUnique DEF StopAt
  <2>7. Nested(u, v, l, r)'
    BY <2>4, <2>5, <2>6, Zenon DEF Nested
  <2>8. u = scopes'[i] /\ v = scopes'[j]
    BY <1>4, <2>1, <2>2
  <2> QED
    BY <2>7, <2>8
<1>16. \A x \in live' : x.depth <= temp_depth'
  BY <1>4, <1>8, <1>11, PlaceType
<1> QED
  BY <1>4, <1>8, <1>12, <1>14, <1>15, <1>16, ScopesPartsPrime

\* A step that gives up every region and every scope.
LEMMA EmptiedSafe ==
  ASSUME CursorsBounded', live' = {}, scopes' = <<>>, temp_depth' = 0
  PROVE  RegionsSafe' /\ ScopesConsistent'
<1>1. RegionsSafe'
  BY RegionsPartsPrime
<1>2. Len(scopes') = 0 /\ 1..Len(scopes') = {}
  OBVIOUS
<1>3. ScopesConsistent'
  BY <1>2, ScopesPartsPrime
<1> QED
  BY <1>1, <1>3

\* A step that leaves the chain, its blocks, the regions and the scopes alone.
LEMMA SameSafe ==
  ASSUME TypeOK, TypeOK', BlocksAccounted', RegionsSafe, ScopesConsistent,
         UNCHANGED <<chain, live, epoch>>, CursorsBounded',
         \A b \in Range(chain) : block'[b] = block[b]
  PROVE  RegionsSafe' /\ ScopesConsistent'
<1>1. Range(chain)' = Range(chain)
  BY Zenon DEF Range
<1>2. \A x \in live' : /\ x.blk \in Range(chain)' /\ End(x) <= block'[x.blk].used
                       /\ block'[x.blk].skew = block[x.blk].skew
  BY <1>1, RegionsParts DEF Placed
<1>3. RegionsSafe'
  BY <1>2, RegionsKept
<1>4. ChainKept
  BY DEF ChainKept, TypeOK
<1>5. \A x \in live' : x.depth <= temp_depth
  BY ScopesParts
<1>6. ASSUME NEW i \in 1..Len(scopes), NEW k \in 0..Len(chain), NEW t \in Scope,
             t = scopes[i], StopAt(t, k), Separates(t, k, i)
      PROVE  k > 0 => t.block_used <= block'[chain[k]].used
  BY <1>6, MarkFacts
<1>7. ScopesConsistent'
  BY <1>4, <1>5, <1>6, ScopesKept
<1> QED
  BY <1>3, <1>7

LEMMA DiscardedBounded ==
  ASSUME TypeOK, NEW b \in Blocks
  PROVE  Discarded(b).used <= Discarded(b).cap /\ Absent.used <= Absent.cap
<1>1. block[b] \in Cell
  BY CellType
<1>2. Discarded(b).used = 0 /\ Discarded(b).cap \in Nat
  BY <1>1 DEF Discarded, Absent, Cell
<1> QED
  BY <1>2 DEF Absent

LEMMA ResetSafe ==
  ASSUME TypeOK, RegionsSafe, Reset
  PROVE  RegionsSafe' /\ ScopesConsistent'
<1>1. \A b \in Blocks : block[b].used <= block[b].cap
  BY RegionsParts DEF CursorsBounded
<1>2. live' = {} /\ scopes' = <<>> /\ temp_depth' = 0
  BY Zenon DEF Reset
<1>3. \A b \in Blocks : block'[b].used <= block'[b].cap
  <2>1. CASE block' = [b \in Blocks |-> [block[b] EXCEPT !.used = 0]]
    <3>1. ASSUME NEW b \in Blocks
          PROVE  block'[b].used <= block'[b].cap
      <4>1. block'[b] = [block[b] EXCEPT !.used = 0]
        BY <2>1
      <4>2. block[b] \in Cell
        BY CellType
      <4> QED
        BY <4>1, <4>2 DEF Cell
    <3> QED
      BY <3>1
  <2>2. CASE block' = [b \in Blocks |-> IF b \in Popped(0) THEN Discarded(b) ELSE block[b]]
    BY <1>1, <2>2, DiscardedBounded
  <2> QED
    BY <2>1, <2>2, Zenon DEF Reset
<1>4. CursorsBounded'
  BY <1>3, Zenon DEF CursorsBounded
<1> QED
  BY <1>2, <1>4, EmptiedSafe

LEMMA TrimSafe ==
  ASSUME TypeOK, TypeOK', BlocksAccounted, BlocksAccounted', RegionsSafe, ScopesConsistent, Trim
  PROVE  RegionsSafe' /\ ScopesConsistent'
<1>1. CursorsBounded
  BY RegionsParts
<1>2. CASE NoEffect
  <2>1. UNCHANGED <<chain, live, epoch, block>>
    BY <1>2, Zenon DEF NoEffect, vars, heap, stats
  <2>2. CursorsBounded'
    BY <1>1, <2>1 DEF CursorsBounded
  <2> QED
    BY <2>1, <2>2, SameSafe
<1>3. CASE /\ block' = [b \in Blocks |-> IF b \in Range(freeList) THEN Absent ELSE block[b]]
           /\ UNCHANGED <<chain, next_block, stats, policy, epoch, status, aborted>>
  <2>1. UNCHANGED <<chain, live, epoch>>
    BY <1>3, Zenon DEF stats
  <2>2. \A b \in Range(chain) : block'[b] = block[b]
    <3>1. Range(chain) \cap Range(freeList) = {} /\ Range(chain) \subseteq Blocks
      BY OwnedType DEF BlocksAccounted
    <3> QED
      BY <1>3, <3>1
  <2>3. \A b \in Blocks : block'[b].used <= block'[b].cap
    BY <1>1, <1>3, DiscardedBounded DEF CursorsBounded
  <2>4. CursorsBounded'
    BY <2>3, Zenon DEF CursorsBounded
  <2> QED
    BY <2>1, <2>2, <2>4, SameSafe
<1> QED
  BY <1>2, <1>3, Zenon DEF Trim

LEMMA DeinitSafe ==
  ASSUME Deinit
  PROVE  RegionsSafe' /\ ScopesConsistent'
<1>1. block' = [b \in Blocks |-> Absent] /\ live' = {} /\ scopes' = <<>> /\ temp_depth' = 0
  BY Zenon DEF Deinit
<1>2. \A b \in Blocks : block'[b].used <= block'[b].cap
  BY <1>1 DEF Absent
<1>3. CursorsBounded'
  BY <1>2, Zenon DEF CursorsBounded
<1> QED
  BY <1>1, <1>3, EmptiedSafe

-----------------------------------------------------------------------------
(* The inductive invariant *)

SafetyInv == BlocksAccounted /\ RegionsSafe /\ ScopesConsistent /\ NullMarks

LEMMA NullMarksKept ==
  ASSUME TypeOK, NullMarks, Effect
  PROVE  NullMarks'
<1>1. scopes \in Seq(Scope)
  BY DEF TypeOK
<1>2. CASE scopes' = scopes
  BY <1>2 DEF NullMarks
<1>3. CASE scopes' = <<>>
  BY <1>3 DEF NullMarks
<1>4. CASE TempBegin
  <2>1. scopes' = Append(scopes, Snapshot(temp_depth + 1))
    BY <1>4, Zenon DEF TempBegin
  <2>2. Snapshot(temp_depth + 1).block = NULL => Snapshot(temp_depth + 1).block_used = 0
    BY CurrentOwned, BlocksAssumption DEF Snapshot
  <2> HIDE DEF NullMarks
  <2>3. ASSUME NEW i \in 1..(Len(scopes) + 1), scopes'[i].block = NULL
        PROVE  scopes'[i].block_used = 0
    BY <1>1, <2>1, <2>2, <2>3 DEF NullMarks
  <2>4. Len(scopes') = Len(scopes) + 1
    BY <1>1, <2>1
  <2> QED
    BY <2>3, <2>4 DEF NullMarks
<1>5. CASE TempEnd
  <2>1. scopes' = Front(scopes) /\ scopes # <<>>
    BY <1>5, Zenon DEF TempEnd
  <2>2. /\ Len(scopes') = Len(scopes) - 1
        /\ \A i \in 1..(Len(scopes) - 1) : scopes'[i] = scopes[i]
    BY <1>1, <2>1, FrontProperties
  <2>3. \A i \in 1..Len(scopes') : scopes'[i] = scopes[i] /\ i \in 1..Len(scopes)
    BY <1>1, <2>2
  <2> QED
    BY <2>3, Zenon DEF NullMarks
<1>6. \/ scopes' = scopes \/ scopes' = <<>> \/ TempBegin \/ TempEnd
  <2>1. NoEffect \/ Failed \/ ClearError => UNCHANGED epoch
    BY Zenon DEF NoEffect, vars, Failed, Fail, ClearError
  <2>2. ASSUME Served
        PROVE  UNCHANGED epoch
    <3>1. PICK size, align, old, oldSize :
            \/ BumpCurrent(size, align, old, oldSize)
            \/ TakeFreeBlock(size, align, old, oldSize)
            \/ TakeNewBlock(size, align, old, oldSize)
      BY <2>2, Zenon DEF Served, Grown
    <3> QED
      BY <3>1, Zenon DEF BumpCurrent, TakeFreeBlock, TakeNewBlock
  <2>3. Resized \/ RolledBack => UNCHANGED epoch
    BY Zenon DEF Resized, ResizeInPlace, RolledBack, RollBack
  <2>4. Trim => UNCHANGED epoch
    BY Zenon DEF Trim, NoEffect, vars
  <2>5. Reset \/ Deinit => scopes' = <<>>
    BY Zenon DEF Reset, Deinit
  <2>6. UNCHANGED epoch => scopes' = scopes
    BY Zenon DEF epoch
  <2> QED
    BY <2>1, <2>2, <2>3, <2>4, <2>5, <2>6, Zenon DEF Effect
<1> QED
  BY <1>2, <1>3, <1>4, <1>5, <1>6

LEMMA EffectSafe ==
  ASSUME TypeOK, TypeOK', SafetyInv, Effect
  PROVE  SafetyInv'
<1>1. BlocksAccounted /\ RegionsSafe /\ ScopesConsistent /\ NullMarks
  BY DEF SafetyInv
<1>2. BlocksAccounted' /\ NullMarks'
  BY <1>1, EffectAccounted, NullMarksKept
<1>3. CASE NoEffect \/ Failed \/ ClearError
  <2>1. UNCHANGED <<chain, block, live, epoch>>
    BY <1>3, Zenon DEF NoEffect, vars, heap, stats, Failed, Fail, ClearError
  <2>2. CursorsBounded'
    BY <1>1, <2>1, RegionsParts DEF CursorsBounded
  <2>3. RegionsSafe' /\ ScopesConsistent'
    BY <1>1, <1>2, <2>1, <2>2, SameSafe
  <2> QED
    BY <1>2, <2>3 DEF SafetyInv
<1>4. CASE Served
  <2>1. RegionsSafe' /\ ScopesConsistent'
    BY <1>1, <1>2, <1>4, ServedRegions, ServedScopes
  <2> QED
    BY <1>2, <2>1 DEF SafetyInv
<1>5. CASE Resized
  <2>1. PICK x \in live, newSize \in Nat \ {0} :
          x.depth = temp_depth /\ CanResize(x, newSize) /\ ResizeInPlace(x, newSize)
    BY <1>5 DEF Resized
  <2>2. RegionsSafe' /\ ScopesConsistent'
    BY <1>1, <1>2, <2>1, ResizedRegions, ResizedScopes
  <2> QED
    BY <1>2, <2>2 DEF SafetyInv
<1>6. CASE RolledBack
  <2>1. PICK x \in live : x.depth = temp_depth /\ RollBack(x)
    BY <1>6 DEF RolledBack
  <2>2. RegionsSafe' /\ ScopesConsistent'
    BY <1>1, <1>2, <2>1, RolledBackRegions, RolledBackScopes
  <2> QED
    BY <1>2, <2>2 DEF SafetyInv
<1>7. CASE TempBegin \/ TempEnd \/ Reset \/ Trim \/ Deinit
  <2>1. RegionsSafe' /\ ScopesConsistent'
    BY <1>1, <1>2, <1>7, TempBeginSafe, TempEndSafe, ResetSafe, TrimSafe, DeinitSafe
  <2> QED
    BY <1>2, <2>1 DEF SafetyInv
<1> QED
  BY <1>3, <1>4, <1>5, <1>6, <1>7 DEF Effect

LEMMA InitSafe ==
  ASSUME Init
  PROVE  SafetyInv
<1>1. live = {} /\ scopes = <<>> /\ temp_depth = 0
  BY Zenon DEF Init, InitDefault, InitSized, InitFixed, InitFields
<1>2. TypeOK /\ BlocksAccounted
  BY InitType, InitAccounted
<1>3. ASSUME NEW b \in Blocks
      PROVE  block[b].used <= block[b].cap
  <2>1. block[b].used = 0
    <3>1. CASE block = [c \in Blocks |-> Absent]
      BY <3>1 DEF Absent
    <3>2. ASSUME NEW d \in Blocks, NEW cap, NEW skew,
                 block = [[c \in Blocks |-> Absent] EXCEPT ![d] =
                   [cap |-> cap, used |-> 0, oversize |-> FALSE, skew |-> skew]]
          PROVE  block[b].used = 0
      BY <3>2 DEF Absent
    <3> QED
      BY <3>1, <3>2, Zenon DEF Init, InitDefault, InitSized, InitFixed, NoBlocks
  <2> QED
    BY <1>2, <2>1, CellType
<1>4. RegionsSafe
  BY <1>1, <1>3, RegionsParts DEF CursorsBounded
<1>5. ScopesConsistent /\ NullMarks
  <2>1. Len(scopes) = 0 /\ 1..Len(scopes) = {}
    BY <1>1
  <2> QED
    BY <1>1, <2>1, ScopesParts DEF NullMarks
<1> QED
  BY <1>2, <1>4, <1>5 DEF SafetyInv

LEMMA SafetyInvHolds == Spec => []SafetyInv
<1>1. Init => SafetyInv
  BY InitSafe
<1>2. TypeOK /\ TypeOK' /\ SafetyInv /\ [Next]_vars => SafetyInv'
  BY NextEffect, EffectSafe
<1> QED
  BY <1>1, <1>2, TypeCorrect, PTL DEF Spec

\* The arena never hands a byte out twice: whatever the order of allocations,
\* resizes, frees, scopes, resets and trims, regions keep inside the blocks on
\* the chain, aligned as asked, and redzones included none overlaps another.
THEOREM RegionsAlwaysSafe == Spec => []RegionsSafe
<1>1. SafetyInv => RegionsSafe
  BY DEF SafetyInv
<1> QED
  BY <1>1, SafetyInvHolds, PTL

\* Every open snapshot stays restorable until its scope ends: the block it names
\* is on the chain, with the cursor at or above the mark, all older regions
\* below it and all newer ones above it.
THEOREM ScopesAlwaysConsistent == Spec => []ScopesConsistent
<1>1. SafetyInv => ScopesConsistent
  BY DEF SafetyInv
<1> QED
  BY <1>1, SafetyInvHolds, PTL
=============================================================================
