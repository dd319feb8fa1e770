---------------------------- MODULE ViewsProofs ----------------------------
(***************************************************************************)
(* Proof that the calls on borrowed views answer by the bytes of the views  *)
(* alone: comparisons, slices and trims, and the split of a view.           *)
(***************************************************************************)
EXTENDS StrViews, FiniteSetTheorems, WellFoundedInduction, TLAPS

-----------------------------------------------------------------------------
(* Numbers                                                                  *)

LEMMA LeastNumber ==
  ASSUME NEW T, T \subseteq Nat, T # {}
  PROVE  \E x \in T : \A y \in T : x <= y
<1> DEFINE R == {ss \in Nat \X Nat : ss[1] < ss[2]}
<1>1. IsWellFoundedOn(R, Nat)
  BY NatLessThanWellFounded DEF OpToRel
<1> HIDE DEF R
<1>2. PICK x \in T : \A y \in T : ~(<<y, x>> \in R)
  BY <1>1, WFMin
<1>3. \A y \in T : ~(y < x)
  BY <1>2 DEF R
<1> QED
  BY <1>3

LEMMA MinIs ==
  ASSUME NEW T, T \subseteq Nat, T # {}
  PROVE  Min(T) \in T /\ \A y \in T : Min(T) <= y
<1>1. \E x \in T : \A y \in T : x <= y
  BY LeastNumber
<1> QED
  BY <1>1 DEF Min

LEMMA MaxIs ==
  ASSUME NEW T, NEW n \in Nat, T \subseteq 0..n, T # {}
  PROVE  Max(T) \in T /\ \A y \in T : Max(T) >= y
<1> DEFINE D == {d \in Nat : \E x \in T : d = n - x}
<1>1. D \subseteq Nat /\ D # {}
  <2>1. PICK x \in T : x \in 0..n
    OBVIOUS
  <2>2. n - x \in D
    BY <2>1
  <2> QED
    BY <2>2
<1>2. PICK z \in D : \A y \in D : z <= y
  BY <1>1, LeastNumber
<1>3. PICK x \in T : z = n - x /\ x \in 0..n
  BY <1>2
<1>4. ASSUME NEW y \in T
      PROVE  x >= y
  <2>1. y \in 0..n /\ n - y \in D
    OBVIOUS
  <2>2. z <= n - y
    BY <1>2, <2>1
  <2> QED
    BY <1>3, <2>1, <2>2
<1> HIDE DEF D
<1> QED
  BY <1>4 DEF Max
-----------------------------------------------------------------------------
(* The buffer and the views that lie in it.                                 *)

BufOK == buf \in [0..EmptyBuf -> Bytes] /\ buf[StringLen] = Nul /\ buf[EmptyBuf] = Nul

\* A view a caller can have: inside the buffer, or without bytes that can be read.
ViewOK(v) ==
  /\ v \in [ptr : 0..EmptyBuf \cup {NULL}, len : 0..SizeMax]
  /\ IF v.ptr = NULL THEN v.len > 0 ELSE v.ptr + v.len <= EmptyBuf + 1

\* The bytes of the buffer from p on, n of them.
Lies(p, n) == p \in Nat /\ n \in Nat /\ p + n <= EmptyBuf + 1
\* s is what lies there.
BytesAt(s, p, n) ==
  /\ s \in Seq(Bytes) /\ Len(s) = n /\ Lies(p, n)
  /\ \A k \in 1..n : \A x \in Nat : x + 1 = p + k => s[k] = buf[x]

LEMMA SizesAre ==
  EmptyBuf \in Nat /\ StringLen \in Nat /\ SizeMax \in Nat /\ EmptyBuf = StringLen + 1 /\ SizeMax >= EmptyBuf
BY StrViewsAssumption DEF EmptyBuf

LEMMA ByteIs ==
  ASSUME BufOK, NEW x \in Nat, x <= EmptyBuf
  PROVE  buf[x] \in Bytes /\ buf[x] \in Nat
<1>1. x \in 0..EmptyBuf  BY SizesAre
<1>. QED  BY <1>1, StrViewsAssumption DEF BufOK

LEMMA ValidIs ==
  ASSUME NEW v, ViewOK(v)
  PROVE  /\ IsValid(v) <=> v.ptr # NULL
         /\ IsValid(v) => Lies(v.ptr, v.len) /\ v.ptr \in 0..EmptyBuf
         /\ v.len \in Nat /\ v.len <= SizeMax
<1>1. v.len \in Nat /\ v.len <= SizeMax /\ v.ptr \in 0..EmptyBuf \cup {NULL}  BY SizesAre DEF ViewOK
<1>2. v.ptr = NULL => v.len > 0  BY DEF ViewOK
<1>3. IsValid(v) <=> v.ptr # NULL  BY <1>1, <1>2 DEF IsValid
<1>4. v.ptr # NULL => v.ptr \in 0..EmptyBuf /\ v.ptr + v.len <= EmptyBuf + 1  BY <1>1 DEF ViewOK
<1>. QED  BY <1>1, <1>3, <1>4, SizesAre DEF Lies

LEMMA ContentIs ==
  ASSUME BufOK, NEW v, ViewOK(v)
  PROVE  /\ IsValid(v) => BytesAt(Content(v), v.ptr, v.len)
         /\ ~IsValid(v) => Content(v) = <<>>
<1>1. ASSUME IsValid(v)  PROVE BytesAt(Content(v), v.ptr, v.len)
  <2>1. PICK p \in Nat, n \in Nat : p = v.ptr /\ n = v.len /\ Lies(p, n) /\ p + n <= EmptyBuf + 1
    BY <1>1, ValidIs DEF Lies
  <2>2. Content(v) = [k \in 1..n |-> buf[p + k - 1]]  BY <1>1, <2>1 DEF Content
  <2>3. ASSUME NEW k \in 1..n  PROVE buf[p + k - 1] \in Bytes /\ p + k - 1 \in Nat
    <3>1. PICK x \in Nat : x = p + k - 1 /\ x <= EmptyBuf  BY <2>1, SizesAre
    <3>. QED  BY <3>1, ByteIs
  <2>4. Content(v) \in Seq(Bytes) /\ Len(Content(v)) = n
    <3>1. Content(v) \in [1..n -> Bytes]  BY <2>2, <2>3
    <3>2. PICK c : c = Content(v)  OBVIOUS
    <3>3. c \in [1..n -> Bytes]  BY <3>1, <3>2
    <3>. QED  BY <3>2, <3>3, <2>1
  <2>5. ASSUME NEW k \in 1..n, NEW x \in Nat, x + 1 = p + k  PROVE Content(v)[k] = buf[x]
    <3>1. x = p + k - 1  BY <2>5, <2>1
    <3>. QED  BY <3>1, <2>2
  <2>. QED  BY <2>1, <2>4, <2>5 DEF BytesAt
<1>. QED  BY <1>1 DEF Content

LEMMA BytesAre ==
  ASSUME BufOK, NEW s, NEW p, NEW n, BytesAt(s, p, n), NEW k \in Nat, k < n
  PROVE  s[k + 1] = buf[p + k] /\ buf[p + k] \in Nat /\ buf[p + k] \in Bytes
<1>1. p \in Nat /\ n \in Nat /\ p + n <= EmptyBuf + 1  BY DEF BytesAt, Lies
<1>2. PICK x \in Nat : x = p + k /\ x <= EmptyBuf  BY <1>1, SizesAre
<1>3. k + 1 \in 1..n /\ x + 1 = p + (k + 1)  BY <1>1, <1>2
<1>4. s[k + 1] = buf[x]  BY <1>3 DEF BytesAt
<1>. QED  BY <1>2, <1>4, ByteIs

LEMMA SameBytes ==
  ASSUME NEW s \in Seq(Bytes), NEW t \in Seq(Bytes), Len(s) = Len(t), \A j \in 1..Len(s) : s[j] = t[j]
  PROVE  s = t
OBVIOUS
-----------------------------------------------------------------------------
(* Comparing.                                                               *)

\* The m bytes from l and those from r are the same.
Agree(l, r, m) == \A k \in 0..(m - 1) : buf[l + k] = buf[r + k]
Differ(l, r, m, k) == k \in 0..(m - 1) /\ Agree(l, r, k) /\ buf[l + k] # buf[r + k]

LEMMA MemcmpIs ==
  ASSUME BufOK, NEW l, NEW r, NEW m, Lies(l, m), Lies(r, m)
  PROVE  \/ Agree(l, r, m) /\ Memcmp(l, r, m) = 0
         \/ \E k : /\ Differ(l, r, m, k) /\ Memcmp(l, r, m) # 0
                   /\ Memcmp(l, r, m) = buf[l + k] - buf[r + k]
<1>. DEFINE T == {k \in 0..(m - 1) : buf[l + k] # buf[r + k]}
<1>1. l \in Nat /\ r \in Nat /\ m \in Nat /\ l + m <= EmptyBuf + 1 /\ r + m <= EmptyBuf + 1  BY DEF Lies
<1>2. CASE T = {}
  <2>1. Memcmp(l, r, m) = 0  BY <1>2 DEF Memcmp
  <2>2. Agree(l, r, m)  BY <1>2 DEF Agree
  <2>. QED  BY <2>1, <2>2
<1>3. CASE T # {}
  <2>1. T \subseteq Nat  BY <1>1
  <2>2. Min(T) \in T /\ \A y \in T : Min(T) <= y  BY <1>3, <2>1, MinIs
  <2>3. PICK k \in Nat : k = Min(T) /\ k \in 0..(m - 1) /\ buf[l + k] # buf[r + k]  BY <2>1, <2>2
  <2>4. Memcmp(l, r, m) = buf[l + k] - buf[r + k]  BY <1>3, <2>3 DEF Memcmp
  <2>5. Agree(l, r, k)
    <3>1. SUFFICES ASSUME NEW j \in 0..(k - 1), buf[l + j] # buf[r + j]  PROVE FALSE  BY DEF Agree
    <3>2. j \in 0..(m - 1) /\ j < k  BY <1>1, <2>3
    <3>3. j \in T  BY <3>1, <3>2
    <3>. QED  BY <3>2, <3>3, <2>2, <2>3
  <2>6. buf[l + k] \in Nat /\ buf[r + k] \in Nat
    <3>1. k < m  BY <1>1, <2>3
    <3>2. l + k \in Nat /\ r + k \in Nat /\ l + k <= EmptyBuf /\ r + k <= EmptyBuf
      BY <1>1, <2>3, <3>1, SizesAre
    <3>3. PICK x \in Nat, y \in Nat : x = l + k /\ y = r + k /\ x <= EmptyBuf /\ y <= EmptyBuf
      BY <3>2
    <3>. QED  BY <3>3, ByteIs
  <2>7. Memcmp(l, r, m) # 0
    <3>1. PICK x \in Nat, y \in Nat : x = buf[l + k] /\ y = buf[r + k] /\ x # y  BY <2>3, <2>6
    <3>2. x - y # 0  BY <3>1
    <3>. QED  BY <2>4, <3>1, <3>2
  <2>8. Differ(l, r, m, k)  BY <2>3, <2>5 DEF Differ
  <2>. QED  BY <2>4, <2>7, <2>8
<1>. QED  BY <1>2, <1>3

LEMMA SpanEqualIs ==
  ASSUME BufOK, NEW l, NEW r, NEW m, Lies(l, m), Lies(r, m)
  PROVE  IsSpanEqual(l, r, m) <=> Agree(l, r, m)
<1>1. m = 0 => Agree(l, r, m)  BY DEF Agree
<1>2. ASSUME NEW k, Differ(l, r, m, k)  PROVE ~Agree(l, r, m)  BY <1>2 DEF Differ, Agree
<1>3. Memcmp(l, r, m) = 0 <=> Agree(l, r, m)  BY <1>2, MemcmpIs
<1>. QED  BY <1>1, <1>3 DEF IsSpanEqual

\* The same bytes in the buffer and in the sequences.
LEMMA AgreeIs ==
  ASSUME BufOK, NEW s, NEW l, NEW n, BytesAt(s, l, n), NEW t, NEW r, NEW e, BytesAt(t, r, e),
         NEW m \in Nat, m <= n, m <= e
  PROVE  Agree(l, r, m) <=> \A j \in 1..m : s[j] = t[j]
<1>1. n \in Nat /\ e \in Nat  BY DEF BytesAt, Lies
<1>2. ASSUME Agree(l, r, m), NEW j \in 1..m  PROVE s[j] = t[j]
  <2>1. PICK k \in Nat : j = k + 1 /\ k < m /\ k < n /\ k < e /\ k \in 0..(m - 1)  BY <1>1, <1>2
  <2>2. s[k + 1] = buf[l + k] /\ t[k + 1] = buf[r + k]  BY <2>1, BytesAre
  <2>3. buf[l + k] = buf[r + k]  BY <1>2, <2>1 DEF Agree
  <2>. QED  BY <2>1, <2>2, <2>3
<1>3. ASSUME \A j \in 1..m : s[j] = t[j], NEW k \in 0..(m - 1)  PROVE buf[l + k] = buf[r + k]
  <2>1. k \in Nat /\ k < n /\ k < e /\ k + 1 \in 1..m  BY <1>1, <1>3
  <2>2. s[k + 1] = buf[l + k] /\ t[k + 1] = buf[r + k]  BY <2>1, BytesAre
  <2>. QED  BY <1>3, <2>1, <2>2
<1>. QED  BY <1>2, <1>3 DEF Agree

LEMMA ElementIs ==
  ASSUME NEW s \in Seq(Bytes), NEW j \in 1..Len(s)
  PROVE  s[j] \in Bytes /\ s[j] \in Nat
<1>1. s[j] \in Bytes  OBVIOUS
<1>. QED  BY <1>1, StrViewsAssumption

LEMMA EqualIs ==
  ASSUME BufOK, NEW s, NEW l, NEW n, BytesAt(s, l, n), NEW t, NEW r, NEW e, BytesAt(t, r, e)
  PROVE  n = e /\ IsSpanEqual(l, r, n) <=> s = t
<1>1. n \in Nat /\ e \in Nat /\ Len(s) = n /\ Len(t) = e /\ s \in Seq(Bytes) /\ t \in Seq(Bytes)
      /\ Lies(l, n) /\ Lies(r, e)
  BY DEF BytesAt, Lies
<1>2. ASSUME n = e  PROVE IsSpanEqual(l, r, n) <=> \A j \in 1..n : s[j] = t[j]
  <2>1. n <= n /\ n <= e /\ Lies(r, n)  BY <1>1, <1>2
  <2>2. IsSpanEqual(l, r, n) <=> Agree(l, r, n)  BY <1>1, <2>1, SpanEqualIs
  <2>3. Agree(l, r, n) <=> \A j \in 1..n : s[j] = t[j]  BY <1>1, <2>1, AgreeIs
  <2>. QED  BY <2>2, <2>3
<1>3. s = t => n = e /\ \A j \in 1..n : s[j] = t[j]  BY <1>1
<1>4. n = e /\ (\A j \in 1..n : s[j] = t[j]) => s = t  BY <1>1, SameBytes
<1>. QED  BY <1>2, <1>3, <1>4

LEMMA HeadIs ==
  ASSUME NEW s \in Seq(Bytes), NEW m \in Nat, m <= Len(s)
  PROVE  /\ SubSeq(s, 1, m) \in Seq(Bytes) /\ Len(SubSeq(s, 1, m)) = m
         /\ \A j \in 1..m : SubSeq(s, 1, m)[j] = s[j]
<1>1. Len(s) \in Nat  OBVIOUS
<1>2. Len(SubSeq(s, 1, m)) = m  BY <1>1
<1>3. \A j \in 1..m : SubSeq(s, 1, m)[j] = s[j]  BY <1>1
<1>4. \A j \in 1..m : s[j] \in Bytes  BY <1>1
<1>5. SubSeq(s, 1, m) \in Seq(Bytes)  BY <1>1, <1>4
<1>. QED  BY <1>2, <1>3, <1>5

LEMMA HeadsEqual ==
  ASSUME NEW s \in Seq(Bytes), NEW t \in Seq(Bytes), NEW m \in Nat, m <= Len(s), m <= Len(t)
  PROVE  SubSeq(s, 1, m) = SubSeq(t, 1, m) <=> \A j \in 1..m : s[j] = t[j]
<1>1. PICK u, w : u = SubSeq(s, 1, m) /\ w = SubSeq(t, 1, m)  OBVIOUS
<1>2. u \in Seq(Bytes) /\ w \in Seq(Bytes) /\ Len(u) = m /\ Len(w) = m  BY <1>1, HeadIs
<1>3. \A j \in 1..m : u[j] = s[j] /\ w[j] = t[j]  BY <1>1, HeadIs
<1>4. (\A j \in 1..m : s[j] = t[j]) => u = w  BY <1>2, <1>3, SameBytes
<1>. QED  BY <1>1, <1>3, <1>4

LEMMA PrefixIs ==
  ASSUME BufOK, NEW s, NEW l, NEW n, BytesAt(s, l, n), NEW t, NEW r, NEW e, BytesAt(t, r, e)
  PROVE  e <= n /\ IsSpanEqual(l, r, e) <=> IsPrefix(t, s)
<1>1. n \in Nat /\ e \in Nat /\ Len(s) = n /\ Len(t) = e /\ s \in Seq(Bytes) /\ t \in Seq(Bytes)
      /\ Lies(l, n) /\ Lies(r, e)
  BY DEF BytesAt, Lies
<1>2. ASSUME e <= n  PROVE IsSpanEqual(l, r, e) <=> SubSeq(t, 1, e) = SubSeq(s, 1, e)
  <2>1. e <= e /\ Lies(l, e)  BY <1>1, <1>2, SizesAre DEF Lies
  <2>2. IsSpanEqual(l, r, e) <=> Agree(l, r, e)  BY <1>1, <2>1, SpanEqualIs
  <2>3. Agree(l, r, e) <=> \A j \in 1..e : s[j] = t[j]  BY <1>1, <1>2, <2>1, AgreeIs
  <2>4. SubSeq(s, 1, e) = SubSeq(t, 1, e) <=> \A j \in 1..e : s[j] = t[j]
    BY <1>1, <1>2, <2>1, HeadsEqual
  <2>. QED  BY <2>2, <2>3, <2>4
<1>. QED  BY <1>1, <1>2 DEF IsPrefix

LEMMA ReverseIs ==
  ASSUME NEW s \in Seq(Bytes)
  PROVE  /\ Reverse(s) \in Seq(Bytes) /\ Len(Reverse(s)) = Len(s)
         /\ \A i \in 1..Len(s) : Reverse(s)[i] = s[(Len(s) - i) + 1]
<1>1. PICK n \in Nat : n = Len(s)  OBVIOUS
<1>2. Reverse(s) = [i \in 1..n |-> s[(n - i) + 1]]  BY <1>1 DEF Reverse
<1>3. ASSUME NEW i \in 1..n  PROVE s[(n - i) + 1] \in Bytes
  <2>1. (n - i) + 1 \in 1..n  BY <1>1
  <2>. QED  BY <1>1, <2>1
<1>4. PICK f : f = Reverse(s)  OBVIOUS
<1>5. f \in [1..n -> Bytes] /\ \A i \in 1..n : f[i] = s[(n - i) + 1]  BY <1>2, <1>3, <1>4
<1>6. f \in Seq(Bytes) /\ Len(f) = n  BY <1>1, <1>5
<1>. QED  BY <1>1, <1>4, <1>5, <1>6

LEMMA SuffixIs ==
  ASSUME BufOK, NEW s, NEW l, NEW n, BytesAt(s, l, n), NEW t, NEW r, NEW e, BytesAt(t, r, e)
  PROVE  e <= n /\ (e = 0 \/ IsSpanEqual(l + (n - e), r, e)) <=> IsSuffix(t, s)
<1>1. n \in Nat /\ e \in Nat /\ Len(s) = n /\ Len(t) = e /\ s \in Seq(Bytes) /\ t \in Seq(Bytes)
      /\ Lies(l, n) /\ Lies(r, e)
  BY DEF BytesAt, Lies
<1>2. PICK u, w : u = Reverse(t) /\ w = Reverse(s)  OBVIOUS
<1>3. /\ u \in Seq(Bytes) /\ w \in Seq(Bytes) /\ Len(u) = e /\ Len(w) = n
      /\ \A i \in 1..e : u[i] = t[(e - i) + 1]
      /\ \A i \in 1..n : w[i] = s[(n - i) + 1]
  BY <1>1, <1>2, ReverseIs
<1>4. IsSuffix(t, s) <=> e <= n /\ SubSeq(u, 1, e) = SubSeq(w, 1, e)
  BY <1>2, <1>3 DEF IsSuffix, IsPrefix
<1>5. ASSUME e <= n  PROVE (e = 0 \/ IsSpanEqual(l + (n - e), r, e)) <=> SubSeq(u, 1, e) = SubSeq(w, 1, e)
  <2>1. SubSeq(u, 1, e) = SubSeq(w, 1, e) <=> \A j \in 1..e : u[j] = w[j]
    <3>1. e <= e  BY <1>1
    <3>. QED  BY <1>1, <1>3, <1>5, <3>1, HeadsEqual
  <2>2. PICK q \in Nat, g \in Nat : q = n - e /\ g = l + q /\ g = l + (n - e) /\ Lies(g, e)
    BY <1>1, <1>5, SizesAre DEF Lies
  <2>3. IsSpanEqual(g, r, e) <=> Agree(g, r, e)  BY <1>1, <2>2, SpanEqualIs
  <2>4. ASSUME Agree(g, r, e), NEW j \in 1..e  PROVE u[j] = w[j]
    <3>1. PICK k \in Nat : k = e - j /\ k < e /\ k \in 0..(e - 1)  BY <1>1
    <3>2. PICK y \in Nat : y = q + k /\ y < n /\ l + y = g + k
      <4>1. l \in Nat  BY <1>1 DEF Lies
      <4>2. q + k \in Nat /\ q + k < n /\ l + (q + k) = g + k  BY <4>1, <1>1, <2>2, <3>1
      <4>. QED  BY <4>2
    <3>3. t[k + 1] = buf[r + k] /\ s[y + 1] = buf[l + y]
      <4>1. k \in Nat /\ k < e /\ y \in Nat /\ y < n  BY <3>1, <3>2
      <4>2. t[k + 1] = buf[r + k]  BY <4>1, BytesAre
      <4>3. s[y + 1] = buf[l + y]  BY <4>1, BytesAre
      <4>. QED  BY <4>2, <4>3
    <3>4. buf[g + k] = buf[r + k]  BY <2>4, <3>1 DEF Agree
    <3>5. u[j] = t[(e - j) + 1] /\ w[j] = s[(n - j) + 1] /\ (e - j) + 1 = k + 1 /\ (n - j) + 1 = y + 1
      BY <1>1, <1>3, <1>5, <2>2, <3>1, <3>2
    <3>. QED  BY <3>2, <3>3, <3>4, <3>5
  <2>5. ASSUME \A j \in 1..e : u[j] = w[j], NEW k \in 0..(e - 1)  PROVE buf[g + k] = buf[r + k]
    <3>1. PICK j \in 1..e : k = e - j /\ k \in Nat /\ k < e
      <4>1. e - k \in 1..e /\ k = e - (e - k) /\ k \in Nat /\ k < e  BY <1>1
      <4>. QED  BY <4>1
    <3>2. PICK y \in Nat : y = q + k /\ y < n /\ l + y = g + k
      <4>1. l \in Nat  BY <1>1 DEF Lies
      <4>2. q + k \in Nat /\ q + k < n /\ l + (q + k) = g + k  BY <4>1, <1>1, <2>2, <3>1
      <4>. QED  BY <4>2
    <3>3. t[k + 1] = buf[r + k] /\ s[y + 1] = buf[l + y]
      <4>1. k \in Nat /\ k < e /\ y \in Nat /\ y < n  BY <3>1, <3>2
      <4>2. t[k + 1] = buf[r + k]  BY <4>1, BytesAre
      <4>3. s[y + 1] = buf[l + y]  BY <4>1, BytesAre
      <4>. QED  BY <4>2, <4>3
    <3>4. u[j] = t[(e - j) + 1] /\ w[j] = s[(n - j) + 1] /\ (e - j) + 1 = k + 1 /\ (n - j) + 1 = y + 1
      BY <1>1, <1>3, <1>5, <2>2, <3>1, <3>2
    <3>. QED  BY <2>5, <3>1, <3>2, <3>3, <3>4
  <2>6. e = 0 => \A j \in 1..e : u[j] = w[j]  OBVIOUS
  <2>7. Agree(g, r, e) <=> \A j \in 1..e : u[j] = w[j]  BY <2>4, <2>5 DEF Agree
  <2>. QED  BY <2>1, <2>2, <2>3, <2>6, <2>7
<1>. QED  BY <1>4, <1>5

\* The order of byte strings, by the first place at which they differ.
Same(s, t, k) == \A j \in 1..k : s[j] = t[j]

LEMMA BeforeIs ==
  ASSUME NEW s \in Seq(Bytes), NEW t \in Seq(Bytes)
  PROVE  Before(s, t) <=>
           \E k \in 0..Len(s) : /\ k <= Len(t) /\ Same(s, t, k) /\ k < Len(t)
                                /\ k < Len(s) => s[k + 1] < t[k + 1]
<1>1. ASSUME NEW k \in 0..Len(s), k <= Len(t)
      PROVE  SubSeq(s, 1, k) = SubSeq(t, 1, k) <=> Same(s, t, k)
  <2>1. k \in Nat /\ k <= Len(s)  OBVIOUS
  <2>. QED  BY <1>1, <2>1, HeadsEqual DEF Same
<1>2. \A k \in 0..Len(s) : k < Len(s) \/ k = Len(s)  OBVIOUS
<1>3. \A k \in 0..Len(s) : k = Len(s) => ~(k < Len(s))  OBVIOUS
<1>. QED  BY <1>1, <1>2, <1>3 DEF Before

LEMMA BeforeByLength ==
  ASSUME NEW s \in Seq(Bytes), NEW t \in Seq(Bytes), NEW m \in Nat, m <= Len(s), m <= Len(t),
         m = Len(s) \/ m = Len(t), Same(s, t, m)
  PROVE  /\ Before(s, t) <=> Len(s) < Len(t)
         /\ s = t <=> Len(s) = Len(t)
<1>1. PICK n \in Nat, e \in Nat : n = Len(s) /\ e = Len(t)  OBVIOUS
<1>2. ASSUME n < e  PROVE Before(s, t)
  <2>1. m = n /\ n \in 0..n /\ n <= e  BY <1>1, <1>2
  <2>. QED  BY <1>1, <1>2, <2>1, BeforeIs
<1>3. ASSUME Before(s, t)  PROVE n < e
  <2>1. PICK k \in 0..n : k <= e /\ Same(s, t, k) /\ k < e /\ (k < n => s[k + 1] < t[k + 1])
    BY <1>1, <1>3, BeforeIs
  <2>2. SUFFICES ASSUME ~(n < e)  PROVE FALSE  BY <1>1
  <2>3. k < m /\ k < n /\ k + 1 \in 1..m /\ k \in Nat  BY <1>1, <2>1, <2>2
  <2>4. s[k + 1] = t[k + 1] /\ s[k + 1] < t[k + 1]  BY <2>1, <2>3 DEF Same
  <2>5. s[k + 1] \in Nat /\ t[k + 1] \in Nat
    <3>1. k + 1 \in 1..Len(s) /\ k + 1 \in 1..Len(t)  BY <1>1, <2>3
    <3>. QED  BY <3>1, ElementIs
  <2>. QED  BY <2>4, <2>5
<1>4. n = e => s = t
  <2>1. ASSUME n = e  PROVE \A j \in 1..Len(s) : s[j] = t[j]  BY <1>1, <2>1 DEF Same
  <2>. QED  BY <1>1, <2>1, SameBytes
<1>. QED  BY <1>1, <1>2, <1>3, <1>4

LEMMA BeforeByByte ==
  ASSUME NEW s \in Seq(Bytes), NEW t \in Seq(Bytes), NEW k \in Nat, k < Len(s), k < Len(t),
         Same(s, t, k), s[k + 1] # t[k + 1]
  PROVE  /\ Before(s, t) <=> s[k + 1] < t[k + 1]
         /\ s # t
<1>1. PICK n \in Nat, e \in Nat : n = Len(s) /\ e = Len(t)  OBVIOUS
<1>2. ASSUME NEW j \in Nat, j < n, j < e  PROVE s[j + 1] \in Nat /\ t[j + 1] \in Nat
  <2>1. j + 1 \in 1..Len(s) /\ j + 1 \in 1..Len(t)  BY <1>1, <1>2
  <2>. QED  BY <2>1, ElementIs
<1>3. ASSUME s[k + 1] < t[k + 1]  PROVE Before(s, t)
  <2>1. k \in 0..n /\ k <= e /\ k < e  BY <1>1
  <2>. QED  BY <1>1, <1>3, <2>1, BeforeIs
<1>4. ASSUME Before(s, t)  PROVE s[k + 1] < t[k + 1]
  <2>1. PICK q \in 0..n : q <= e /\ Same(s, t, q) /\ q < e /\ (q < n => s[q + 1] < t[q + 1])
    BY <1>1, <1>4, BeforeIs
  <2>2. q \in Nat /\ ~(k < q)
    <3>1. k < q => k + 1 \in 1..q  BY <1>1, <2>1
    <3>. QED  BY <2>1, <3>1, <1>1 DEF Same
  <2>3. q < n  BY <1>1, <2>2
  <2>4. ~(q < k)
    <3>1. q < k => q + 1 \in 1..k  BY <2>2
    <3>2. q < k => s[q + 1] = t[q + 1]  BY <3>1 DEF Same
    <3>3. s[q + 1] \in Nat /\ t[q + 1] \in Nat /\ s[q + 1] < t[q + 1]  BY <1>2, <2>1, <2>2, <2>3
    <3>. QED  BY <3>2, <3>3
  <2>5. q = k  BY <2>2, <2>4
  <2>. QED  BY <2>1, <2>3, <2>5
<1>. QED  BY <1>3, <1>4

LEMMA MinOfTwo ==
  ASSUME NEW x \in Nat, NEW y \in Nat
  PROVE  Min({x, y}) = IF x < y THEN x ELSE y
<1>1. {x, y} \subseteq Nat /\ {x, y} # {}  OBVIOUS
<1>2. Min({x, y}) \in {x, y} /\ \A z \in {x, y} : Min({x, y}) <= z  BY <1>1, MinIs
<1>3. PICK m \in {x, y} : m = Min({x, y}) /\ m <= x /\ m <= y  BY <1>2
<1>. QED  BY <1>3

LEMMA CompareIs ==
  ASSUME BufOK, NEW left, ViewOK(left), IsValid(left), NEW right, ViewOK(right), IsValid(right)
  PROVE  CompareValid(left, right) = Expected("compare", Content(left), Content(right))
<1>1. PICK s, t, l, r, n, e : /\ s = Content(left) /\ l = left.ptr /\ n = left.len
                              /\ t = Content(right) /\ r = right.ptr /\ e = right.len
  OBVIOUS
<1>2. BytesAt(s, l, n) /\ BytesAt(t, r, e)  BY <1>1, ContentIs
<1>3. n \in Nat /\ e \in Nat /\ Len(s) = n /\ Len(t) = e /\ s \in Seq(Bytes) /\ t \in Seq(Bytes)
      /\ Lies(l, n) /\ Lies(r, e)
  BY <1>2 DEF BytesAt, Lies
<1>4. PICK m \in Nat : m = Min({n, e}) /\ m <= n /\ m <= e /\ (m = n \/ m = e)
  BY <1>3, MinOfTwo
<1>5. Lies(l, m) /\ Lies(r, m)  BY <1>3, <1>4, SizesAre DEF Lies
<1>6. PICK c : c = CompareBytes(l, r, m)  OBVIOUS
<1>7. CompareValid(left, right) = IF c # 0 THEN c ELSE CompareLengths(n, e)
  BY <1>1, <1>4, <1>6 DEF CompareValid
<1>8. Expected("compare", s, t) = IF Before(s, t) THEN -1 ELSE IF s = t THEN 0 ELSE 1
  BY DEF Expected
<1>9. CASE Agree(l, r, m)
  <2>1. c = 0
    <3>1. m # 0 => Memcmp(l, r, m) = 0
      <4>1. ASSUME NEW k, Differ(l, r, m, k)  PROVE FALSE  BY <1>9, <4>1 DEF Differ, Agree
      <4>. QED  BY <4>1, <1>5, MemcmpIs
    <3>. QED  BY <3>1, <1>6 DEF CompareBytes, Order
  <2>2. Same(s, t, m)  BY <1>2, <1>4, <1>9, AgreeIs DEF Same
  <2>3. (Before(s, t) <=> n < e) /\ (s = t <=> n = e)  BY <2>2, <1>3, <1>4, BeforeByLength
  <2>4. CompareLengths(n, e) = IF n < e THEN -1 ELSE IF n = e THEN 0 ELSE 1
    BY <1>3 DEF CompareLengths, Order
  <2>. QED  BY <2>1, <2>3, <2>4, <1>1, <1>7, <1>8
<1>10. CASE ~Agree(l, r, m)
  <2>1. PICK k : Differ(l, r, m, k) /\ Memcmp(l, r, m) # 0 /\ Memcmp(l, r, m) = buf[l + k] - buf[r + k]
    BY <1>5, <1>10, MemcmpIs
  <2>2. k \in Nat /\ k < n /\ k < e /\ k <= n /\ k <= e /\ m # 0  BY <2>1, <1>3, <1>4 DEF Differ
  <2>3. s[k + 1] = buf[l + k] /\ buf[l + k] \in Nat  BY <1>2, <2>2, BytesAre
  <2>4. t[k + 1] = buf[r + k] /\ buf[r + k] \in Nat  BY <1>2, <2>2, BytesAre
  <2>5. Same(s, t, k)  BY <1>2, <2>1, <2>2, AgreeIs DEF Same, Differ
  <2>6. PICK x \in Nat, y \in Nat : x = s[k + 1] /\ y = t[k + 1] /\ x # y /\ Memcmp(l, r, m) = x - y
    BY <2>1, <2>3, <2>4 DEF Differ
  <2>7. (Before(s, t) <=> x < y) /\ s # t  BY <2>2, <2>5, <2>6, <1>3, BeforeByByte
  <2>8. c = IF x < y THEN -1 ELSE 1
    <3>1. c = Order(x - y)  BY <1>6, <2>2, <2>6 DEF CompareBytes
    <3>. QED  BY <3>1, <2>6 DEF Order
  <2>. QED  BY <2>7, <2>8, <1>1, <1>7, <1>8
<1>. QED  BY <1>9, <1>10

LEMMA HoldsLike ==
  ASSUME BufOK, NEW left, ViewOK(left), IsValid(left), NEW right, ViewOK(right), IsValid(right),
         NEW call \in Calls
  PROVE  /\ Holds(call, left, right) <=> Expected(call, Content(left), Content(right))
         /\ Holds(call, left, right) \in BOOLEAN
         /\ Expected(call, Content(left), Content(right)) \in BOOLEAN
<1>1. PICK s, t, l, r, n, e : /\ s = Content(left) /\ l = left.ptr /\ n = left.len
                              /\ t = Content(right) /\ r = right.ptr /\ e = right.len
  OBVIOUS
<1>2. BytesAt(s, l, n) /\ BytesAt(t, r, e)  BY <1>1, ContentIs
<1>3. CASE call = "equals"
  <2>1. Holds(call, left, right) = (n = e /\ IsSpanEqual(l, r, n))
    BY <1>1, <1>3, Zenon DEF Holds, IsContentEqual
  <2>2. Expected(call, s, t) = (s = t)  BY <1>3, Zenon DEF Expected
  <2>3. n = e /\ IsSpanEqual(l, r, n) <=> s = t  BY <1>2, EqualIs
  <2>4. (s = t) \in BOOLEAN /\ (n = e /\ IsSpanEqual(l, r, n)) \in BOOLEAN  OBVIOUS
  <2>5. Holds(call, left, right) \in BOOLEAN /\ Expected(call, s, t) \in BOOLEAN
    BY <2>1, <2>2, <2>4, Zenon
  <2>6. Holds(call, left, right) <=> Expected(call, s, t)  BY <2>1, <2>2, <2>3, Zenon
  <2>. QED  BY <2>5, <2>6, <1>1, Zenon
<1>4. CASE call = "prefix"
  <2>1. Holds(call, left, right) = (e <= n /\ IsSpanEqual(l, r, e))
    BY <1>1, <1>4, "equals" # "prefix", Zenon DEF Holds, HasPrefix
  <2>2. Expected(call, s, t) = IsPrefix(t, s)  BY <1>4, "equals" # "prefix", Zenon DEF Expected
  <2>3. IsPrefix(t, s) \in BOOLEAN  BY Zenon DEF IsPrefix
  <2>. QED  BY <2>1, <2>2, <2>3, <1>1, <1>2, PrefixIs, Zenon
<1>5. CASE call = "suffix"
  <2>1. Holds(call, left, right) = (e <= n /\ (e = 0 \/ IsSpanEqual(l + (n - e), r, e)))
    BY <1>1, <1>5, "equals" # "suffix", "prefix" # "suffix", Zenon DEF Holds, HasSuffix
  <2>2. Expected(call, s, t) = IsSuffix(t, s)
    BY <1>5, "equals" # "suffix", "prefix" # "suffix", Zenon DEF Expected
  <2>3. IsSuffix(t, s) \in BOOLEAN  BY Zenon DEF IsSuffix, IsPrefix
  <2>. QED  BY <2>1, <2>2, <2>3, <1>1, <1>2, SuffixIs, Zenon
<1>. QED  BY <1>3, <1>4, <1>5 DEF Calls

LEMMA ExpectedAnswer ==
  ASSUME NEW call \in Calls, NEW s, NEW t
  PROVE  Expected(call, s, t) \in BOOLEAN
<1>1. CASE call = "equals"
  BY <1>1, Zenon DEF Expected
<1>2. CASE call = "prefix"
  BY <1>2, "equals" # "prefix", Zenon DEF Expected, IsPrefix
<1>3. CASE call = "suffix"
  BY <1>3, "equals" # "suffix", "prefix" # "suffix", Zenon DEF Expected, IsSuffix, IsPrefix
<1>. QED  BY <1>1, <1>2, <1>3 DEF Calls

LEMMA HoldsIs ==
  ASSUME BufOK, NEW left, ViewOK(left), IsValid(left), NEW right, ViewOK(right), IsValid(right),
         NEW call \in Calls
  PROVE  Holds(call, left, right) = Expected(call, Content(left), Content(right))
<1>1. PICK h, x : h = Holds(call, left, right) /\ x = Expected(call, Content(left), Content(right))
  OBVIOUS
<1>2. Holds(call, left, right) <=> Expected(call, Content(left), Content(right))
  BY HoldsLike
<1>3. Holds(call, left, right) \in BOOLEAN
  BY HoldsLike
<1>4. Expected(call, Content(left), Content(right)) \in BOOLEAN
  BY ExpectedAnswer
<1>5. h \in BOOLEAN /\ x \in BOOLEAN /\ (h <=> x)
  <2>1. h \in BOOLEAN  BY <1>1, <1>3, Zenon
  <2>2. x \in BOOLEAN  BY <1>1, <1>4, Zenon
  <2>3. h <=> x  BY <1>1, <1>2, Zenon
  <2>. QED  BY <2>1, <2>2, <2>3, Zenon
<1>6. h = x  BY <1>5
<1>. QED  BY <1>1, <1>6, Zenon

-----------------------------------------------------------------------------
(* Trimming.  Each of the two functions is the one its equation allows: it  *)
(* leaves the bytes from the first, or up to the last, that is no whitespace.*)

Blank(x) == IsWhitespace(buf[x])

\* k bytes of whitespace lead the bytes from p on, n of them.
Leads(p, n, k) == k \in 0..n /\ (\A j \in 0..(k - 1) : Blank(p + j)) /\ (k < n => ~Blank(p + k))
\* The last byte that is no whitespace is the k-th of them.
Keeps(p, n, k) == k \in 0..n /\ (\A j \in k..(n - 1) : Blank(p + j)) /\ (k > 0 => ~Blank(p + (k - 1)))

LEMMA LeadsExists ==
  ASSUME NEW p \in Nat, NEW n \in Nat
  PROVE  \E k : Leads(p, n, k)
<1>. DEFINE T == {k \in 0..n : k = n \/ ~Blank(p + k)}
<1>1. T \subseteq Nat /\ n \in T  OBVIOUS
<1>2. PICK k \in T : \A y \in T : k <= y  BY <1>1, LeastNumber
<1>3. k \in 0..n /\ (k < n => ~Blank(p + k))  BY <1>2
<1>4. ASSUME NEW j \in 0..(k - 1), ~Blank(p + j)  PROVE FALSE
  <2>1. j \in 0..n /\ j < k  BY <1>3
  <2>2. j \in T  BY <2>1, <1>4
  <2>. QED  BY <1>2, <1>3, <2>1, <2>2
<1>. QED  BY <1>3, <1>4 DEF Leads

LEMMA LeadsOnce ==
  ASSUME NEW p \in Nat, NEW n \in Nat, NEW k, Leads(p, n, k), NEW q, Leads(p, n, q)
  PROVE  k = q
<1>1. k \in Nat /\ q \in Nat /\ k <= n /\ q <= n  BY DEF Leads
<1>2. ~(k < q)
  <2>1. k < q => k \in 0..(q - 1) /\ k < n  BY <1>1
  <2>. QED  BY <2>1 DEF Leads
<1>3. ~(q < k)
  <2>1. q < k => q \in 0..(k - 1) /\ q < n  BY <1>1
  <2>. QED  BY <2>1 DEF Leads
<1>. QED  BY <1>1, <1>2, <1>3

LEMMA LeadsStep ==
  ASSUME NEW p \in Nat, NEW n \in Nat, n > 0
  PROVE  /\ ~Blank(p) => Leads(p, n, 0)
         /\ \A k \in Nat : \A q \in Nat : \A m \in Nat :
              Blank(p) /\ q = p + 1 /\ m + 1 = n /\ Leads(q, m, k) => Leads(p, n, k + 1)
<1>1. ~Blank(p) => Leads(p, n, 0)
  <2>1. p + 0 = p  OBVIOUS
  <2>. QED  BY <2>1 DEF Leads
<1>2. ASSUME NEW k \in Nat, NEW q \in Nat, NEW m \in Nat, Blank(p), q = p + 1, m + 1 = n, Leads(q, m, k)
      PROVE  Leads(p, n, k + 1)
  <2>1. k + 1 \in 0..n  BY <1>2 DEF Leads
  <2>2. ASSUME NEW j \in 0..((k + 1) - 1)  PROVE Blank(p + j)
    <3>1. CASE j = 0
      <4>1. p + j = p  BY <3>1
      <4>. QED  BY <4>1, <1>2
    <3>2. CASE j # 0
      <4>1. PICK i \in Nat : i = j - 1 /\ i \in 0..(k - 1) /\ p + j = q + i  BY <1>2, <3>2
      <4>. QED  BY <4>1, <1>2 DEF Leads
    <3>. QED  BY <3>1, <3>2
  <2>3. ASSUME k + 1 < n  PROVE ~Blank(p + (k + 1))
    <3>1. k < m /\ p + (k + 1) = q + k  BY <1>2, <2>3
    <3>. QED  BY <3>1, <1>2 DEF Leads
  <2>. QED  BY <2>1, <2>2, <2>3 DEF Leads
<1>. QED  BY <1>1, <1>2

LEMMA KeepsExists ==
  ASSUME NEW p \in Nat, NEW n \in Nat
  PROVE  \E k : Keeps(p, n, k)
<1>. DEFINE T == {k \in 0..n : k = 0 \/ ~Blank(p + (k - 1))}
<1>1. T \subseteq 0..n /\ 0 \in T  OBVIOUS
<1>2. PICK k \in T : \A y \in T : k >= y  BY <1>1, MaxIs
<1>3. k \in 0..n /\ (k > 0 => ~Blank(p + (k - 1)))  BY <1>2
<1>4. ASSUME NEW j \in k..(n - 1), ~Blank(p + j)  PROVE FALSE
  <2>1. PICK i \in 0..n : i = j + 1 /\ i > k /\ i - 1 = j  BY <1>3
  <2>2. i \in T  BY <2>1, <1>4
  <2>3. k >= i  BY <1>2, <2>2
  <2>. QED  BY <1>3, <2>1, <2>3
<1>. QED  BY <1>3, <1>4 DEF Keeps

LEMMA KeepsOnce ==
  ASSUME NEW p \in Nat, NEW n \in Nat, NEW k, Keeps(p, n, k), NEW q, Keeps(p, n, q)
  PROVE  k = q
<1>1. k \in Nat /\ q \in Nat /\ k <= n /\ q <= n  BY DEF Keeps
<1>2. ~(k < q)
  <2>1. k < q => q - 1 \in k..(n - 1) /\ q > 0  BY <1>1
  <2>. QED  BY <2>1 DEF Keeps
<1>3. ~(q < k)
  <2>1. q < k => k - 1 \in q..(n - 1) /\ k > 0  BY <1>1
  <2>. QED  BY <2>1 DEF Keeps
<1>. QED  BY <1>1, <1>2, <1>3

LEMMA KeepsStep ==
  ASSUME NEW p \in Nat, NEW n \in Nat, NEW m \in Nat, m + 1 = n
  PROVE  /\ ~Blank(p + m) => Keeps(p, n, n)
         /\ \A k \in Nat : Blank(p + m) /\ Keeps(p, m, k) => Keeps(p, n, k)
<1>1. ~Blank(p + m) => Keeps(p, n, n)
  <2>1. n - 1 = m /\ n \in 0..n  OBVIOUS
  <2>2. \A j \in n..(n - 1) : FALSE  OBVIOUS
  <2>. QED  BY <2>1, <2>2 DEF Keeps
<1>2. ASSUME NEW k \in Nat, Blank(p + m), Keeps(p, m, k)  PROVE Keeps(p, n, k)
  <2>1. k \in 0..n  BY <1>2 DEF Keeps
  <2>2. ASSUME NEW j \in k..(n - 1)  PROVE Blank(p + j)
    <3>1. j = m \/ j \in k..(m - 1)  OBVIOUS
    <3>. QED  BY <3>1, <1>2 DEF Keeps
  <2>. QED  BY <2>1, <2>2, <1>2 DEF Keeps
<1>. QED  BY <1>1, <1>2

\* Where the two loops stop.
LeftEnd(v) == CHOOSE k : Leads(v.ptr, v.len, k)
RightEnd(v) == CHOOSE k : Keeps(v.ptr, v.len, k)

LEMMA EndsAre ==
  ASSUME NEW v \in Views
  PROVE  Leads(v.ptr, v.len, LeftEnd(v)) /\ Keeps(v.ptr, v.len, RightEnd(v))
<1>1. v.ptr \in Nat /\ v.len \in Nat  BY SizesAre DEF Views
<1>. QED  BY <1>1, LeadsExists, KeepsExists DEF LeftEnd, RightEnd

\* v without its first k bytes, and its first k bytes.
Behind(v, k) == [ptr |-> v.ptr + k, len |-> v.len - k]
UpTo(v, k) == [v EXCEPT !.len = k]

LEMMA LeftStep ==
  ASSUME BufOK, NEW v \in Views, v.len > 0
  PROVE  /\ ~Blank(v.ptr) => LeftEnd(v) = 0
         /\ Blank(v.ptr) => /\ Behind(v, 1) \in Views
                            /\ LeftEnd(v) = LeftEnd(Behind(v, 1)) + 1
<1>1. PICK p \in Nat, n \in Nat : p = v.ptr /\ n = v.len /\ p <= EmptyBuf /\ n <= SizeMax /\ n > 0
  BY SizesAre DEF Views
<1>2. Leads(p, n, LeftEnd(v))  BY <1>1, EndsAre
<1>3. ASSUME ~Blank(p)  PROVE LeftEnd(v) = 0
  <2>1. Leads(p, n, 0)  BY <1>1, <1>3, LeadsStep
  <2>. QED  BY <1>1, <1>2, <2>1, LeadsOnce
<1>4. ASSUME Blank(p)  PROVE Behind(v, 1) \in Views /\ LeftEnd(v) = LeftEnd(Behind(v, 1)) + 1
  <2>1. p # EmptyBuf  BY <1>4, StrViewsAssumption DEF Blank, IsWhitespace, BufOK
  <2>2. PICK q \in Nat, m \in Nat : q = p + 1 /\ m = n - 1 /\ m + 1 = n  BY <1>1
  <2>3. PICK w : w = Behind(v, 1) /\ w.ptr = q /\ w.len = m
    <3>1. PICK w : w = Behind(v, 1)  OBVIOUS
    <3>2. w = [ptr |-> q, len |-> m]  BY <2>2, <3>1, <1>1 DEF Behind
    <3>3. w.ptr = q /\ w.len = m  BY <3>2
    <3>. QED  BY <3>1, <3>3
  <2>4. w \in Views
    <3>1. q \in 0..EmptyBuf /\ m \in 0..SizeMax  BY <1>1, <2>2, <2>1, SizesAre
    <3>2. w = [ptr |-> q, len |-> m]  BY <2>2, <2>3, <1>1 DEF Behind
    <3>. QED  BY <3>1, <3>2 DEF Views
  <2>5. PICK k : k = LeftEnd(w) /\ Leads(q, m, k)  BY <2>3, <2>4, EndsAre
  <2>6. k \in Nat  BY <2>5 DEF Leads
  <2>7. Leads(p, n, k + 1)  BY <1>1, <1>4, <2>2, <2>5, <2>6, LeadsStep
  <2>8. LeftEnd(v) = k + 1  BY <1>1, <1>2, <2>7, LeadsOnce
  <2>. QED  BY <2>3, <2>4, <2>5, <2>8
<1>. QED  BY <1>1, <1>3, <1>4

LEMMA RightStep ==
  ASSUME NEW v \in Views, v.len > 0
  PROVE  /\ ~Blank(v.ptr + v.len - 1) => RightEnd(v) = v.len
         /\ Blank(v.ptr + v.len - 1) => /\ UpTo(v, v.len - 1) \in Views
                                        /\ RightEnd(v) = RightEnd(UpTo(v, v.len - 1))
<1>1. PICK p \in Nat, n \in Nat : p = v.ptr /\ n = v.len /\ p <= EmptyBuf /\ n <= SizeMax /\ n > 0
  BY SizesAre DEF Views
<1>2. Keeps(p, n, RightEnd(v))  BY <1>1, EndsAre
<1>3. PICK m \in Nat : m + 1 = n /\ m = n - 1 /\ p + n - 1 = p + m  BY <1>1
<1>4. ASSUME ~Blank(p + m)  PROVE RightEnd(v) = n
  <2>1. Keeps(p, n, n)  BY <1>3, <1>4, KeepsStep
  <2>. QED  BY <1>1, <1>2, <2>1, KeepsOnce
<1>5. ASSUME Blank(p + m)  PROVE UpTo(v, m) \in Views /\ RightEnd(v) = RightEnd(UpTo(v, m))
  <2>1. m \in 0..SizeMax  BY <1>1, <1>3, SizesAre
  <2>2. PICK w : w = UpTo(v, m) /\ w.ptr = p /\ w.len = m /\ w \in Views
    <3>1. PICK w : w = [v EXCEPT !.len = m]  OBVIOUS
    <3>2. w \in Views  BY <2>1, <3>1 DEF Views
    <3>3. w.ptr = p /\ w.len = m  BY <1>1, <3>1 DEF Views
    <3>. QED  BY <3>1, <3>2, <3>3 DEF UpTo
  <2>3. PICK k : k = RightEnd(w) /\ Keeps(p, m, k)  BY <2>2, EndsAre
  <2>4. k \in Nat  BY <2>3 DEF Keeps
  <2>5. Keeps(p, n, k)  BY <1>3, <1>5, <2>3, <2>4, KeepsStep
  <2>6. RightEnd(v) = k  BY <1>1, <1>2, <2>5, KeepsOnce
  <2>. QED  BY <2>2, <2>3, <2>6
<1>. QED  BY <1>1, <1>3, <1>4, <1>5

LEMMA BehindIs ==
  ASSUME NEW v \in Views
  PROVE  /\ Behind(v, 0) = v
         /\ Behind(v, 1) = [ptr |-> v.ptr + 1, len |-> v.len - 1]
         /\ \A k \in Nat : Behind(v, k + 1) = Behind(Behind(v, 1), k)
<1>1. PICK p \in Nat, n \in Nat : p = v.ptr /\ n = v.len /\ v = [ptr |-> p, len |-> n]
  BY SizesAre DEF Views
<1>2. Behind(v, 0) = v
  <2>1. p + 0 = p /\ n - 0 = n  OBVIOUS
  <2>. QED  BY <1>1, <2>1 DEF Behind
<1>3. ASSUME NEW k \in Nat  PROVE Behind(v, k + 1) = Behind(Behind(v, 1), k)
  <2>1. PICK w : w = Behind(v, 1)  OBVIOUS
  <2>2. w = [ptr |-> p + 1, len |-> n - 1]  BY <1>1, <2>1 DEF Behind
  <2>3. w.ptr = p + 1 /\ w.len = n - 1  BY <2>2
  <2>4. (p + 1) + k = p + (k + 1) /\ (n - 1) - k = n - (k + 1)  OBVIOUS
  <2>. QED  BY <1>1, <2>1, <2>3, <2>4 DEF Behind
<1>. QED  BY <1>2, <1>3 DEF Behind

\* A function on views that a step makes shorter is the one that has the equation.
LEMMA TrimLeftEquation ==
  ASSUME BufOK
  PROVE  TrimLeft = [v \in Views |-> IF v.len > 0 /\ IsWhitespace(buf[v.ptr])
                                     THEN TrimLeft[[ptr |-> v.ptr + 1, len |-> v.len - 1]] ELSE v]
<1>. DEFINE W == [v \in Views |-> Behind(v, LeftEnd(v))]
<1>1. W = [v \in Views |-> IF v.len > 0 /\ IsWhitespace(buf[v.ptr])
                           THEN W[[ptr |-> v.ptr + 1, len |-> v.len - 1]] ELSE v]
  <2>1. SUFFICES ASSUME NEW v \in Views
                 PROVE  W[v] = IF v.len > 0 /\ IsWhitespace(buf[v.ptr])
                               THEN W[[ptr |-> v.ptr + 1, len |-> v.len - 1]] ELSE v
    OBVIOUS
  <2>2. W[v] = Behind(v, LeftEnd(v)) /\ v.len \in Nat /\ v.ptr \in Nat  BY SizesAre DEF Views
  <2>3. CASE v.len > 0 /\ Blank(v.ptr)
    <3>1. PICK w : w = Behind(v, 1) /\ w \in Views /\ LeftEnd(v) = LeftEnd(w) + 1
      BY <2>3, LeftStep
    <3>2. LeftEnd(w) \in Nat
      <4>1. Leads(w.ptr, w.len, LeftEnd(w)) /\ w.len \in Nat  BY <3>1, EndsAre, SizesAre DEF Views
      <4>. QED  BY <4>1 DEF Leads
    <3>3. Behind(v, LeftEnd(v)) = Behind(w, LeftEnd(w))  BY <3>1, <3>2, BehindIs
    <3>4. W[w] = Behind(w, LeftEnd(w))  BY <3>1
    <3>5. w = [ptr |-> v.ptr + 1, len |-> v.len - 1]  BY <3>1, BehindIs
    <3>. HIDE DEF W
    <3>. QED  BY <2>2, <2>3, <3>3, <3>4, <3>5 DEF Blank
  <2>4. CASE v.len > 0 /\ ~Blank(v.ptr)
    <3>1. LeftEnd(v) = 0  BY <2>4, LeftStep
    <3>. HIDE DEF W
    <3>. QED  BY <2>2, <2>4, <3>1, BehindIs DEF Blank
  <2>5. CASE ~(v.len > 0)
    <3>1. LeftEnd(v) = 0
      <4>1. Leads(v.ptr, v.len, LeftEnd(v)) /\ v.len = 0  BY <2>2, <2>5, EndsAre
      <4>. QED  BY <4>1 DEF Leads
    <3>. HIDE DEF W
    <3>. QED  BY <2>2, <2>5, <3>1, BehindIs
  <2>. QED  BY <2>3, <2>4, <2>5
<1>. HIDE DEF W
<1>2. \E f : f = [v \in Views |-> IF v.len > 0 /\ IsWhitespace(buf[v.ptr])
                                  THEN f[[ptr |-> v.ptr + 1, len |-> v.len - 1]] ELSE v]
  BY <1>1
<1>. QED  BY <1>2 DEF TrimLeft

LEMMA UpToIs ==
  ASSUME NEW v \in Views
  PROVE  /\ UpTo(v, v.len) = v
         /\ UpTo(v, v.len - 1) = [v EXCEPT !.len = @ - 1]
         /\ \A m, k : UpTo(UpTo(v, m), k) = UpTo(v, k)
         /\ \A m : UpTo(v, m) = [ptr |-> v.ptr, len |-> m]
<1>1. PICK p, n : p = v.ptr /\ n = v.len /\ v = [ptr |-> p, len |-> n]
  BY DEF Views
<1>2. ASSUME NEW m  PROVE UpTo(v, m) = [ptr |-> p, len |-> m]
  BY <1>1 DEF UpTo
<1>3. ASSUME NEW m, NEW k  PROVE UpTo(UpTo(v, m), k) = UpTo(v, k)
  <2>1. PICK w : w = UpTo(v, m)  OBVIOUS
  <2>2. w = [ptr |-> p, len |-> m]  BY <1>2, <2>1
  <2>3. [w EXCEPT !.len = k] = [ptr |-> p, len |-> k]  BY <2>2
  <2>4. UpTo(w, k) = [w EXCEPT !.len = k]  BY DEF UpTo
  <2>. QED  BY <2>1, <2>3, <2>4, <1>2
<1>4. UpTo(v, v.len - 1) = [v EXCEPT !.len = @ - 1]  BY DEF UpTo
<1>. QED  BY <1>1, <1>2, <1>3, <1>4

LEMMA UpToTwice ==
  ASSUME NEW v \in Views, NEW m, NEW k
  PROVE  UpTo(UpTo(v, m), k) = UpTo(v, k)
<1>1. \A x, y : UpTo(UpTo(v, x), y) = UpTo(v, y)
  BY UpToIs
<1>. QED  BY <1>1, Zenon

LEMMA TrimRightEquation ==
  TrimRight = [v \in Views |-> IF v.len > 0 /\ IsWhitespace(buf[v.ptr + v.len - 1])
                               THEN TrimRight[[v EXCEPT !.len = @ - 1]] ELSE v]
<1>. DEFINE W == [v \in Views |-> UpTo(v, RightEnd(v))]
<1>1. W = [v \in Views |-> IF v.len > 0 /\ IsWhitespace(buf[v.ptr + v.len - 1])
                           THEN W[[v EXCEPT !.len = @ - 1]] ELSE v]
  <2>1. SUFFICES ASSUME NEW v \in Views
                 PROVE  W[v] = IF v.len > 0 /\ IsWhitespace(buf[v.ptr + v.len - 1])
                               THEN W[[v EXCEPT !.len = @ - 1]] ELSE v
    OBVIOUS
  <2>2. W[v] = UpTo(v, RightEnd(v)) /\ v.len \in Nat /\ v.ptr \in Nat  BY SizesAre DEF Views
  <2>3. CASE v.len > 0 /\ Blank(v.ptr + v.len - 1)
    <3>1. UpTo(v, v.len - 1) \in Views /\ RightEnd(v) = RightEnd(UpTo(v, v.len - 1))
      BY <2>3, RightStep
    <3>2. PICK w : w = UpTo(v, v.len - 1) /\ w \in Views /\ RightEnd(v) = RightEnd(w)
      BY <3>1
    <3>3. PICK k, m : k = RightEnd(v) /\ k = RightEnd(w) /\ m = v.len - 1  BY <3>2
    <3>4. UpTo(v, RightEnd(v)) = UpTo(w, RightEnd(w))
      <4>1. UpTo(UpTo(v, m), k) = UpTo(v, k)  BY UpToTwice, Zenon
      <4>. QED  BY <3>2, <3>3, <4>1, Zenon
    <3>5. W[w] = UpTo(w, RightEnd(w))  BY <3>2
    <3>6. w = [v EXCEPT !.len = @ - 1]  BY <3>2, UpToIs
    <3>. HIDE DEF W
    <3>. QED  BY <2>2, <2>3, <3>4, <3>5, <3>6 DEF Blank
  <2>4. CASE v.len > 0 /\ ~Blank(v.ptr + v.len - 1)
    <3>1. RightEnd(v) = v.len  BY <2>4, RightStep
    <3>. HIDE DEF W
    <3>. QED  BY <2>2, <2>4, <3>1, UpToIs DEF Blank
  <2>5. CASE ~(v.len > 0)
    <3>1. RightEnd(v) = v.len
      <4>1. Keeps(v.ptr, v.len, RightEnd(v)) /\ v.len = 0  BY <2>2, <2>5, EndsAre
      <4>. QED  BY <4>1 DEF Keeps
    <3>. HIDE DEF W
    <3>. QED  BY <2>2, <2>5, <3>1, UpToIs
  <2>. QED  BY <2>3, <2>4, <2>5
<1>. HIDE DEF W
<1>2. \E f : f = [v \in Views |-> IF v.len > 0 /\ IsWhitespace(buf[v.ptr + v.len - 1])
                                  THEN f[[v EXCEPT !.len = @ - 1]] ELSE v]
  BY <1>1
<1>. QED  BY <1>2 DEF TrimRight

\* So both functions stop where the loops do: no shortest view is an exception.
LEMMA TrimLeftIs ==
  ASSUME BufOK, NEW v \in Views
  PROVE  TrimLeft[v] = Behind(v, LeftEnd(v))
<1>. DEFINE T == {n \in Nat : \E w \in Views : w.len = n /\ TrimLeft[w] # Behind(w, LeftEnd(w))}
<1>1. SUFFICES ASSUME TrimLeft[v] # Behind(v, LeftEnd(v))  PROVE FALSE
  OBVIOUS
<1>2. T \subseteq Nat /\ T # {}
  <2>1. v.len \in T  BY <1>1, SizesAre DEF Views
  <2>. QED  BY <2>1
<1>3. PICK n \in T : \A y \in T : n <= y  BY <1>2, LeastNumber
<1>4. PICK w \in Views : w.len = n /\ TrimLeft[w] # Behind(w, LeftEnd(w))  BY <1>3
<1>5. w.len \in Nat  BY SizesAre DEF Views
<1>6. TrimLeft[w] = IF w.len > 0 /\ Blank(w.ptr)
                    THEN TrimLeft[[ptr |-> w.ptr + 1, len |-> w.len - 1]] ELSE w
  BY TrimLeftEquation DEF Blank
<1>7. CASE w.len > 0 /\ Blank(w.ptr)
  <2>1. PICK u : u = Behind(w, 1) /\ u \in Views /\ LeftEnd(w) = LeftEnd(u) + 1
    BY <1>7, LeftStep
  <2>2. LeftEnd(u) \in Nat
    <3>1. Leads(u.ptr, u.len, LeftEnd(u)) /\ u.len \in Nat  BY <2>1, EndsAre, SizesAre DEF Views
    <3>. QED  BY <3>1 DEF Leads
  <2>3. Behind(w, LeftEnd(w)) = Behind(u, LeftEnd(u))  BY <2>1, <2>2, BehindIs
  <2>4. u = [ptr |-> w.ptr + 1, len |-> w.len - 1]  BY <2>1, BehindIs
  <2>5. u.len = n - 1  BY <2>4, <1>4
  <2>6. n - 1 \in Nat  BY <1>4, <1>5, <1>7
  <2>7. TrimLeft[u] = Behind(u, LeftEnd(u))
    <3>1. SUFFICES ASSUME TrimLeft[u] # Behind(u, LeftEnd(u))  PROVE FALSE  OBVIOUS
    <3>2. n - 1 \in T  BY <2>1, <2>5, <2>6, <3>1
    <3>. QED  BY <3>2, <1>3, <1>4, <1>5
  <2>. QED  BY <1>4, <1>6, <1>7, <2>3, <2>4, <2>7
<1>8. CASE w.len > 0 /\ ~Blank(w.ptr)
  BY <1>8, <1>4, <1>6, LeftStep, BehindIs
<1>9. CASE ~(w.len > 0)
  <2>1. LeftEnd(w) = 0
    <3>1. Leads(w.ptr, w.len, LeftEnd(w)) /\ w.len = 0  BY <1>5, <1>9, EndsAre
    <3>. QED  BY <3>1 DEF Leads
  <2>. QED  BY <2>1, <1>4, <1>6, <1>9, BehindIs
<1>. QED  BY <1>7, <1>8, <1>9

LEMMA TrimRightIs ==
  ASSUME NEW v \in Views
  PROVE  TrimRight[v] = UpTo(v, RightEnd(v))
<1>. DEFINE T == {n \in Nat : \E w \in Views : w.len = n /\ TrimRight[w] # UpTo(w, RightEnd(w))}
<1>1. SUFFICES ASSUME TrimRight[v] # UpTo(v, RightEnd(v))  PROVE FALSE
  OBVIOUS
<1>2. T \subseteq Nat /\ T # {}
  <2>1. v.len \in T  BY <1>1, SizesAre DEF Views
  <2>. QED  BY <2>1
<1>3. PICK n \in T : \A y \in T : n <= y  BY <1>2, LeastNumber
<1>4. PICK w \in Views : w.len = n /\ TrimRight[w] # UpTo(w, RightEnd(w))  BY <1>3
<1>5. w.len \in Nat  BY SizesAre DEF Views
<1>6. TrimRight[w] = IF w.len > 0 /\ Blank(w.ptr + w.len - 1)
                     THEN TrimRight[[w EXCEPT !.len = @ - 1]] ELSE w
  BY TrimRightEquation DEF Blank
<1>7. CASE w.len > 0 /\ Blank(w.ptr + w.len - 1)
  <2>1. UpTo(w, w.len - 1) \in Views /\ RightEnd(w) = RightEnd(UpTo(w, w.len - 1))
    BY <1>7, RightStep
  <2>2. PICK u : u = UpTo(w, w.len - 1) /\ u \in Views /\ RightEnd(w) = RightEnd(u)
    BY <2>1
  <2>3. PICK k, m : k = RightEnd(w) /\ k = RightEnd(u) /\ m = w.len - 1  BY <2>2
  <2>4. UpTo(w, RightEnd(w)) = UpTo(u, RightEnd(u))
    <3>1. UpTo(UpTo(w, m), k) = UpTo(w, k)  BY UpToTwice, Zenon
    <3>. QED  BY <2>2, <2>3, <3>1, Zenon
  <2>5. u = [w EXCEPT !.len = @ - 1]  BY <2>2, UpToIs
  <2>6. u.len = n - 1
    <3>1. u = [ptr |-> w.ptr, len |-> w.len - 1]  BY <2>2, UpToIs
    <3>. QED  BY <3>1, <1>4
  <2>7. n - 1 \in Nat  BY <1>4, <1>5, <1>7
  <2>8. TrimRight[u] = UpTo(u, RightEnd(u))
    <3>1. SUFFICES ASSUME TrimRight[u] # UpTo(u, RightEnd(u))  PROVE FALSE  OBVIOUS
    <3>2. n - 1 \in T  BY <2>2, <2>6, <2>7, <3>1
    <3>. QED  BY <3>2, <1>3, <1>4, <1>5
  <2>. QED  BY <1>4, <1>6, <1>7, <2>4, <2>5, <2>8
<1>8. CASE w.len > 0 /\ ~Blank(w.ptr + w.len - 1)
  BY <1>8, <1>4, <1>6, RightStep, UpToIs
<1>9. CASE ~(w.len > 0)
  <2>1. RightEnd(w) = w.len
    <3>1. Keeps(w.ptr, w.len, RightEnd(w)) /\ w.len = 0  BY <1>5, <1>9, EndsAre
    <3>. QED  BY <3>1 DEF Keeps
  <2>. QED  BY <2>1, <1>4, <1>6, <1>9, UpToIs
<1>. QED  BY <1>7, <1>8, <1>9

\* The bytes of a view that are no whitespace.
Kept(v) == IF IsValid(v) THEN {k \in 0..(v.len - 1) : buf[v.ptr + k] \notin Whitespace} ELSE {}

\* q is a behind p, and m bytes are left of n.
Cut(p, n, a, q, m) == q = p + a /\ m + a = n

\* T are the places of those of n bytes from p on, and what they say of a and b.
KeptIn(T, p, n) == \A k : k \in T <=> k \in 0..(n - 1) /\ ~Blank(p + k)
Spans(T, n, a, b) ==
  /\ a \in Nat /\ b \in Nat /\ a + b <= n
  /\ T = {} => b = 0
  /\ T # {} => Min(T) = a /\ Max(T) = (a + b) - 1

LEMMA KeptIs ==
  ASSUME NEW T, NEW p \in Nat, NEW n \in Nat, KeptIn(T, p, n), NEW a, NEW q \in Nat, NEW m \in Nat,
         NEW b, Leads(p, n, a), Cut(p, n, a, q, m), Keeps(q, m, b)
  PROVE  Spans(T, n, a, b)
<1>1. a \in Nat /\ b \in Nat /\ b <= m /\ a <= n /\ a + b <= n  BY DEF Leads, Keeps, Cut
<1>2. q = p + a /\ m + a = n  BY DEF Cut
<1>3. \A k : k \in T <=> k \in 0..(n - 1) /\ ~Blank(p + k)
  BY DEF KeptIn
<1>4. ASSUME NEW k \in T  PROVE k \in Nat /\ a <= k /\ k < a + b
  <2>1. k \in Nat /\ k < n /\ ~Blank(p + k)  BY <1>3
  <2>2. a <= k
    <3>1. k < a => k \in 0..(a - 1)  BY <1>1, <2>1
    <3>. QED  BY <3>1, <2>1, <1>1 DEF Leads
  <2>3. PICK j \in Nat : j = k - a /\ j < m /\ q + j = p + k  BY <1>1, <1>2, <2>1, <2>2
  <2>4. j < b
    <3>1. ~(j < b) => j \in b..(m - 1)  BY <1>1, <2>3
    <3>. QED  BY <3>1, <2>1, <2>3 DEF Keeps
  <2>. QED  BY <1>1, <2>1, <2>2, <2>3, <2>4
<1>5. b > 0 => a \in T /\ (a + b) - 1 \in T
  <2>1. HAVE b > 0
  <2>2. a < n  BY <1>1, <2>1
  <2>3. ~Blank(p + a)  BY <2>2 DEF Leads
  <2>4. q + (b - 1) = p + ((a + b) - 1) /\ (a + b) - 1 \in 0..(n - 1) /\ a \in 0..(n - 1)  BY <1>1, <1>2, <2>1, <2>2
  <2>5. ~Blank(q + (b - 1))  BY <2>1 DEF Keeps
  <2>. QED  BY <1>3, <2>3, <2>4, <2>5
<1>6. T = {} => b = 0  BY <1>1, <1>5
<1>7. ASSUME T # {}  PROVE Min(T) = a /\ Max(T) = (a + b) - 1
  <2>1. T \subseteq Nat /\ T \subseteq 0..n  BY <1>3
  <2>2. b > 0  BY <1>1, <1>4, <1>7
  <2>3. a \in T /\ (a + b) - 1 \in T  BY <1>5, <2>2
  <2>4. Min(T) \in T /\ Min(T) <= a  BY <1>7, <2>1, <2>3, MinIs
  <2>5. Max(T) \in T /\ Max(T) >= (a + b) - 1  BY <1>7, <2>1, <2>3, MaxIs
  <2>6. Min(T) = a
    <3>1. Min(T) \in Nat /\ a <= Min(T)  BY <1>4, <2>4
    <3>. QED  BY <1>1, <2>4, <3>1
  <2>7. Max(T) = (a + b) - 1
    <3>1. Max(T) \in Nat /\ Max(T) < a + b  BY <1>4, <2>5
    <3>. QED  BY <1>1, <2>5, <3>1
  <2>. QED  BY <2>6, <2>7
<1>. QED  BY <1>1, <1>6, <1>7 DEF Spans

LEMMA EmptyViewIs == ViewOK(EmptyView) /\ IsValid(EmptyView) /\ EmptyView.len = 0 /\ EmptyView.ptr = EmptyBuf
<1>1. EmptyView.len = 0 /\ EmptyView.ptr = EmptyBuf  BY DEF EmptyView
<1>2. EmptyBuf # NULL /\ EmptyBuf \in 0..EmptyBuf /\ 0 \in 0..SizeMax  BY SizesAre, StrViewsAssumption
<1>3. EmptyView \in [ptr : 0..EmptyBuf \cup {NULL}, len : 0..SizeMax]  BY <1>2 DEF EmptyView
<1>4. EmptyView.ptr + EmptyView.len <= EmptyBuf + 1  BY <1>1, SizesAre
<1>. QED  BY <1>1, <1>2, <1>3, <1>4 DEF ViewOK, IsValid

LEMMA TrimmedIs ==
  ASSUME BufOK, NEW v, ViewOK(v)
  PROVE  /\ ViewOK(Trimmed(v)) /\ IsValid(Trimmed(v))
         /\ Kept(v) = {} => Trimmed(v).len = 0
         /\ Kept(v) # {} => Trimmed(v) = [ptr |-> v.ptr + Min(Kept(v)), len |-> Max(Kept(v)) - Min(Kept(v)) + 1]
<1>1. CASE ~IsValid(v) \/ v.len = 0
  <2>1. Trimmed(v) = EmptyView  BY <1>1 DEF Trimmed
  <2>2. Kept(v) = {}  BY <1>1 DEF Kept
  <2>. QED  BY <2>1, <2>2, EmptyViewIs
<1>2. CASE IsValid(v) /\ v.len # 0
  <2>1. PICK p \in Nat, n \in Nat : p = v.ptr /\ n = v.len /\ p \in 0..EmptyBuf /\ n \in 0..SizeMax
                                    /\ p + n <= EmptyBuf + 1 /\ n > 0
    BY <1>2, ValidIs, SizesAre DEF Lies
  <2>2. v \in Views /\ v = [ptr |-> p, len |-> n]
    <3>1. v = [ptr |-> p, len |-> n]  BY <2>1 DEF ViewOK
    <3>. QED  BY <3>1, <2>1 DEF Views
  <2>3. PICK a : a = LeftEnd(v) /\ Leads(p, n, a)  BY <2>1, <2>2, EndsAre
  <2>4. a \in Nat /\ a <= n  BY <2>3 DEF Leads
  <2>5. PICK q \in Nat, m \in Nat : q = p + a /\ m = n - a /\ m + a = n  BY <2>4
  <2>6. q \in 0..EmptyBuf
    <3>1. CASE a < n
      BY <3>1, <2>1, <2>4, <2>5, SizesAre
    <3>2. CASE a = n
      <4>1. PICK j \in Nat : j = n - 1 /\ j \in 0..(a - 1)  BY <3>2, <2>1
      <4>2. Blank(p + j)  BY <2>3, <4>1 DEF Leads
      <4>3. p + j # EmptyBuf  BY <4>2, StrViewsAssumption DEF Blank, IsWhitespace, BufOK
      <4>4. PICK x \in Nat : x = p + j  OBVIOUS
      <4>5. PICK e \in Nat : e = EmptyBuf  BY SizesAre
      <4>6. p + n <= e + 1 /\ q = p + n /\ j = n - 1 /\ x # e  BY <2>1, <2>5, <3>2, <4>1, <4>3, <4>4, <4>5
      <4>7. q \in 0..e  BY ONLY <4>6, <4>4, p \in Nat, n \in Nat, j \in Nat, e \in Nat, x \in Nat
      <4>. QED  BY <4>5, <4>7
    <3>. QED  BY <3>1, <3>2, <2>1, <2>4
  <2>7. PICK w : w = Behind(v, a) /\ w = [ptr |-> q, len |-> m] /\ w.ptr = q /\ w.len = m
    <3>1. PICK w : w = Behind(v, a)  OBVIOUS
    <3>2. w = [ptr |-> q, len |-> m]  BY <2>1, <2>5, <3>1 DEF Behind
    <3>. QED  BY <3>1, <3>2
  <2>8. w \in Views
    <3>1. m \in 0..SizeMax  BY <2>1, <2>4, <2>5, SizesAre
    <3>. QED  BY <3>1, <2>6, <2>7 DEF Views
  <2>9. PICK b : b = RightEnd(w) /\ Keeps(q, m, b)  BY <2>7, <2>8, EndsAre
  <2>10. Trimmed(v) = [ptr |-> q, len |-> b]
    <3>1. Trimmed(v) = TrimRight[TrimLeft[v]]  BY <1>2 DEF Trimmed
    <3>2. TrimLeft[v] = w  BY <2>2, <2>3, <2>7, TrimLeftIs
    <3>3. TrimRight[w] = UpTo(w, b)  BY <2>8, <2>9, TrimRightIs
    <3>4. UpTo(w, b) = [ptr |-> q, len |-> b]  BY <2>7, <2>8, UpToIs
    <3>. QED  BY <3>1, <3>2, <3>3, <3>4
  <2>11. a + b <= n /\ b \in Nat /\ (Kept(v) = {} => b = 0)
         /\ (Kept(v) # {} => Min(Kept(v)) = a /\ Max(Kept(v)) = (a + b) - 1)
    <3>1. PICK T : T = Kept(v)  OBVIOUS
    <3>2. KeptIn(T, p, n)  BY <1>2, <2>1, <3>1 DEF Kept, KeptIn, Blank, IsWhitespace
    <3>3. Cut(p, n, a, q, m)  BY <2>5 DEF Cut
    <3>4. Spans(T, n, a, b)  BY <2>3, <2>9, <3>2, <3>3, KeptIs
    <3>. QED  BY <3>1, <3>4 DEF Spans
  <2>12. PICK w2 : w2 = Trimmed(v) /\ w2 = [ptr |-> q, len |-> b] /\ w2.ptr = q /\ w2.len = b
    <3>1. PICK w2 : w2 = [ptr |-> q, len |-> b]  OBVIOUS
    <3>. QED  BY <3>1, <2>10
  <2>13. ViewOK(w2) /\ IsValid(w2)
    <3>1. q # NULL  BY StrViewsAssumption
    <3>2. b \in 0..SizeMax /\ q + b <= EmptyBuf + 1  BY <2>1, <2>4, <2>5, <2>11, SizesAre
    <3>3. w2 \in [ptr : 0..EmptyBuf \cup {NULL}, len : 0..SizeMax]  BY <2>6, <2>12, <3>2
    <3>. QED  BY <3>1, <3>2, <3>3, <2>12 DEF ViewOK, IsValid
  <2>14. ((a + b) - 1) - a + 1 = b  BY <2>4, <2>11
  <2>. QED  BY <2>1, <2>5, <2>11, <2>12, <2>13, <2>14
<1>. QED  BY <1>1, <1>2

-----------------------------------------------------------------------------
(* What each call keeps and answers.                                        *)

ViewsInv == BufOK /\ ViewOK(value) /\ ViewOK(other)

AnswerRight(call, left, right, got) ==
  IF BothValid(left, right) THEN got = Expected(call, Content(left), Content(right))
  ELSE got = IF call = "compare" THEN "ERR_ARG" ELSE FALSE

\* The buffer does not change, so a view keeps its content.
LEMMA ContentSame ==
  ASSUME buf' = buf, NEW v
  PROVE  Content(v)' = Content(v)
BY DEF Content, IsValid

LEMMA ReturnRight ==
  ASSUME NEW call, NEW left, NEW right, NEW got, Return(call, left, right, got),
         call \in Calls \cup {"compare"}, AnswerRight(call, left, right, got), ViewsInv
  PROVE  ViewsInv' /\ AnswersExact' /\ SubviewsExact'
<1>1. buf' = buf /\ value' = value /\ other' = other  BY DEF Return
<1>2. ViewsInv'  BY <1>1 DEF ViewsInv, BufOK, ViewOK
<1>3. PICK r : r = result'  OBVIOUS
<1>4. r.call = call /\ r.left = left /\ r.right = right /\ r.got = got  BY <1>3 DEF Return
<1>5. Content(left)' = Content(left) /\ Content(right)' = Content(right)  BY <1>1, ContentSame
<1>6. IF BothValid(left, right) THEN got = Expected(call, Content(left)', Content(right)')
      ELSE got = IF call = "compare" THEN "ERR_ARG" ELSE FALSE
  BY <1>5 DEF AnswerRight
<1>7. AnswersExact'
  BY <1>3, <1>4, <1>6 DEF AnswersExact, BothValid, IsValid
<1>8. call # "slice" /\ call # "trim"  BY DEF Calls
<1>9. SubviewsExact'  BY <1>3, <1>4, <1>8 DEF SubviewsExact
<1>. QED  BY <1>2, <1>7, <1>9

LEMMA FromNIs ==
  ASSUME NEW p \in 0..EmptyBuf \cup {NULL}, NEW n \in 0..SizeMax, p # NULL => p + n <= EmptyBuf + 1
  PROVE  ViewOK(FromN(p, n)) /\ (p # NULL => IsValid(FromN(p, n)))
<1>1. CASE p = NULL /\ n = 0
  BY <1>1, EmptyViewIs DEF FromN
<1>2. CASE ~(p = NULL /\ n = 0)
  <2>1. PICK w : w = FromN(p, n) /\ w = [ptr |-> p, len |-> n]  BY <1>2 DEF FromN
  <2>2. w.ptr = p /\ w.len = n  BY <2>1
  <2>3. w \in [ptr : 0..EmptyBuf \cup {NULL}, len : 0..SizeMax]  BY <2>1
  <2>4. p = NULL => n > 0  BY <1>2, SizesAre
  <2>5. ViewOK(w)  BY <2>2, <2>3, <2>4 DEF ViewOK
  <2>. QED  BY <2>1, <2>2, <2>5 DEF IsValid
<1>. QED  BY <1>1, <1>2

LEMMA FromCStringIs ==
  ASSUME BufOK, NEW p \in 0..EmptyBuf \cup {NULL}
  PROVE  ViewOK(FromCString(p)) /\ (p # NULL => IsValid(FromCString(p)))
<1>1. CASE p = NULL
  BY <1>1, EmptyViewIs DEF FromCString
<1>2. CASE p # NULL
  <2>1. p \in Nat /\ p <= EmptyBuf  BY <1>2, SizesAre
  <2>2. PICK T : T = {i \in p..EmptyBuf : buf[i] = Nul}  OBVIOUS
  <2>3. T \subseteq Nat /\ EmptyBuf \in T  BY <2>1, <2>2, SizesAre DEF BufOK
  <2>4. PICK m \in Nat : m = Min(T) /\ m \in T  BY <2>3, MinIs
  <2>5. PICK n \in Nat : n = m - p /\ n = Measure(p) /\ n \in 0..SizeMax /\ p + n <= EmptyBuf + 1
    <3>1. m \in p..EmptyBuf  BY <2>2, <2>4
    <3>2. Measure(p) = m - p  BY <2>2, <2>4 DEF Measure
    <3>3. m - p \in 0..SizeMax /\ p + (m - p) <= EmptyBuf + 1 /\ m - p \in Nat  BY <2>1, <3>1, SizesAre
    <3>. QED  BY <3>2, <3>3
  <2>6. FromCString(p) = FromN(p, n)  BY <1>2, <2>5 DEF FromCString
  <2>. QED  BY <1>2, <2>5, <2>6, FromNIs
<1>. QED  BY <1>1, <1>2

LEMMA AskRight ==
  ASSUME ViewsInv, NEW call \in Calls, Ask(call)
  PROVE  ViewsInv' /\ AnswersExact' /\ SubviewsExact'
<1>1. PICK l, r : l = value /\ r = other  OBVIOUS
<1>2. ViewOK(l) /\ ViewOK(r) /\ BufOK  BY <1>1 DEF ViewsInv
<1>3. PICK g : g = (BothValid(l, r) /\ Holds(call, l, r))  OBVIOUS
<1>4. Return(call, l, r, g)  BY <1>1, <1>3, Zenon DEF Ask
<1>5. call # "compare"  BY DEF Calls
<1>6. AnswerRight(call, l, r, g)
  <2>1. CASE BothValid(l, r)
    <3>1. IsValid(l) /\ IsValid(r)  BY <2>1 DEF BothValid
    <3>2. Holds(call, l, r) = Expected(call, Content(l), Content(r))
      BY <1>2, <3>1, HoldsIs
    <3>3. g = Expected(call, Content(l), Content(r))
      <4>1. g = Holds(call, l, r)
        <5>1. (BothValid(l, r) /\ Holds(call, l, r)) = Holds(call, l, r)
          <6>1. Holds(call, l, r) \in BOOLEAN  BY <1>2, <3>1, HoldsLike
          <6>. QED  BY <2>1, <6>1, Zenon
        <5>. QED  BY <1>3, <5>1, Zenon
      <4>. QED  BY <3>2, <4>1, Zenon
    <3>. QED  BY <2>1, <3>3 DEF AnswerRight
  <2>2. CASE ~BothValid(l, r)
    <3>1. g = FALSE  BY <1>3, <2>2, Zenon
    <3>. QED  BY <2>2, <3>1, <1>5 DEF AnswerRight
  <2>. QED  BY <2>1, <2>2
<1>. QED  BY <1>4, <1>6, ReturnRight

LEMMA StringViewsAre ==
  ASSUME NEW v \in StringViews
  PROVE  ViewOK(v) /\ IsValid(v)
<1>1. CASE v = [ptr |-> 0, len |-> StringLen]
  <2>1. v.ptr = 0 /\ v.len = StringLen  BY <1>1
  <2>2. 0 \in 0..EmptyBuf /\ 0 # NULL /\ StringLen \in 0..SizeMax /\ 0 + StringLen <= EmptyBuf + 1
    BY SizesAre, StrViewsAssumption
  <2>3. v \in [ptr : 0..EmptyBuf \cup {NULL}, len : 0..SizeMax]  BY <1>1, <2>2
  <2>. QED  BY <2>1, <2>2, <2>3 DEF ViewOK, IsValid
<1>2. CASE v = EmptyView
  BY <1>2, EmptyViewIs
<1>. QED  BY <1>1, <1>2 DEF StringViews

LEMMA AskStringRight ==
  ASSUME ViewsInv, NEW call \in Calls, AskString(call)
  PROVE  ViewsInv' /\ AnswersExact' /\ SubviewsExact'
<1>1. PICK p : p = other.ptr  OBVIOUS
<1>2. BufOK /\ p \in 0..EmptyBuf \cup {NULL}  BY <1>1 DEF ViewsInv, ViewOK
<1>3. PICK r : r = FromCString(p)  OBVIOUS
<1>4. PICK l : l \in StringViews /\ IF p = NULL THEN Return(call, l, Missing, FALSE)
                                           ELSE Return(call, l, r, Holds(call, l, r))
  BY <1>1, <1>3, Zenon DEF AskString
<1>5. ViewOK(l) /\ IsValid(l)  BY <1>4, StringViewsAre
<1>6. call # "compare"  BY DEF Calls
<1>7. CASE p = NULL
  <2>1. PICK m : m = Missing  OBVIOUS
  <2>2. m.ptr = NULL /\ m.len = 1  BY <2>1 DEF Missing
  <2>3. ~BothValid(l, m)  BY <2>2 DEF BothValid, IsValid
  <2>4. AnswerRight(call, l, m, FALSE)  BY <2>3, <1>6 DEF AnswerRight
  <2>. QED  BY <1>4, <1>7, <2>1, <2>4, ReturnRight
<1>8. CASE p # NULL
  <2>1. ViewOK(r) /\ IsValid(r)  BY <1>2, <1>3, <1>8, FromCStringIs
  <2>2. PICK g : g = Holds(call, l, r)  OBVIOUS
  <2>3. Holds(call, l, r) = Expected(call, Content(l), Content(r))
    BY <1>2, <1>5, <2>1, HoldsIs
  <2>4. g = Expected(call, Content(l), Content(r))  BY <2>2, <2>3, Zenon
  <2>5. AnswerRight(call, l, r, g)  BY <2>1, <2>4, <1>5 DEF AnswerRight, BothValid
  <2>6. Return(call, l, r, g)  BY <1>4, <1>8, <2>2, Zenon
  <2>. QED  BY <2>5, <2>6, ReturnRight
<1>. QED  BY <1>7, <1>8

LEMMA CompareRight ==
  ASSUME ViewsInv, Compare
  PROVE  ViewsInv' /\ AnswersExact' /\ SubviewsExact'
<1>1. PICK l, r : l = value /\ r = other  OBVIOUS
<1>2. ViewOK(l) /\ ViewOK(r) /\ BufOK  BY <1>1 DEF ViewsInv
<1>3. PICK g : g = IF BothValid(l, r) THEN CompareValid(l, r) ELSE "ERR_ARG"  OBVIOUS
<1>4. Return("compare", l, r, g)  BY <1>1, <1>3, Zenon DEF Compare
<1>5. AnswerRight("compare", l, r, g)
  <2>1. CASE BothValid(l, r)
    <3>1. IsValid(l) /\ IsValid(r)  BY <2>1 DEF BothValid
    <3>2. CompareValid(l, r) = Expected("compare", Content(l), Content(r))
      BY <1>2, <3>1, CompareIs
    <3>. QED  BY <1>3, <2>1, <3>2 DEF AnswerRight
  <2>2. CASE ~BothValid(l, r)
    BY <1>3, <2>2 DEF AnswerRight
  <2>. QED  BY <2>1, <2>2
<1>. QED  BY <1>4, <1>5, ReturnRight

LEMMA NothingAsked ==
  ASSUME result.call = "none"
  PROVE  AnswersExact /\ SubviewsExact
<1>1. "none" \notin Calls \cup {"compare"} /\ "none" # "slice" /\ "none" # "trim"  BY DEF Calls
<1>. QED  BY <1>1 DEF AnswersExact, SubviewsExact

LEMMA NoCallRight ==
  ASSUME result' = NoCall
  PROVE  AnswersExact' /\ SubviewsExact'
<1>1. result'.call = "none"  BY DEF NoCall
<1>2. "none" \notin Calls \cup {"compare"} /\ "none" # "slice" /\ "none" # "trim"  BY DEF Calls
<1>. QED  BY <1>1, <1>2 DEF AnswersExact, SubviewsExact

\* The views are what the next state holds.
LEMMA ViewsKept ==
  ASSUME BufOK, buf' = buf, NEW v, ViewOK(v), value' = v, NEW w, ViewOK(w), other' = w
  PROVE  ViewsInv'
<1>1. BufOK'  BY DEF BufOK
<1>2. ViewOK(value')  OBVIOUS
<1>3. ViewOK(other')  OBVIOUS
<1>. QED  BY <1>1, <1>2, <1>3 DEF ViewsInv, ViewOK

LEMMA ViewFromNRight ==
  ASSUME ViewsInv, NEW ptr \in 0..EmptyBuf \cup {NULL}, NEW len \in 0..SizeMax, ViewFromN(ptr, len)
  PROVE  ViewsInv' /\ AnswersExact' /\ SubviewsExact'
<1>1. PICK v, w : v = value /\ w = FromN(ptr, len)  OBVIOUS
<1>2. ViewOK(v) /\ BufOK  BY <1>1 DEF ViewsInv
<1>3. ptr # NULL => ptr + len <= EmptyBuf + 1  BY DEF ViewFromN
<1>4. ViewOK(w)  BY <1>1, <1>3, FromNIs
<1>5. buf' = buf /\ value' = v /\ other' = w /\ result' = NoCall  BY <1>1 DEF ViewFromN
<1>. QED  BY <1>2, <1>4, <1>5, ViewsKept, NoCallRight

LEMMA ViewFromCStringRight ==
  ASSUME ViewsInv, NEW ptr \in 0..EmptyBuf \cup {NULL}, ViewFromCString(ptr)
  PROVE  ViewsInv' /\ AnswersExact' /\ SubviewsExact'
<1>1. PICK v, w : v = value /\ w = FromCString(ptr)  OBVIOUS
<1>2. ViewOK(v) /\ BufOK  BY <1>1 DEF ViewsInv
<1>3. ViewOK(w)  BY <1>1, <1>2, FromCStringIs
<1>4. buf' = buf /\ value' = v /\ other' = w /\ result' = NoCall  BY <1>1 DEF ViewFromCString
<1>. QED  BY <1>2, <1>3, <1>4, ViewsKept, NoCallRight

LEMMA SpanIs ==
  ASSUME NEW len \in Nat, NEW idx \in Nat, NEW span \in Nat
  PROVE  SpanInside(len, idx, span) <=> idx + span <= len
BY DEF SpanInside

LEMMA SliceRight ==
  ASSUME ViewsInv, NEW offset \in 0..SizeMax, NEW len \in 0..SizeMax, Slice(offset, len)
  PROVE  ViewsInv' /\ AnswersExact' /\ SubviewsExact'
<1>1. PICK v, w : v = value /\ w = other  OBVIOUS
<1>2. ViewOK(v) /\ ViewOK(w) /\ BufOK  BY <1>1 DEF ViewsInv
<1>3. offset \in Nat /\ len \in Nat  BY SizesAre
<1>4. SpanInside(StringLen, offset, len) <=> offset + len <= StringLen  BY <1>3, SizesAre, SpanIs
<1>5. PICK s : s = [ptr |-> offset, len |-> len]  OBVIOUS
<1>6. s.ptr = offset /\ s.len = len  BY <1>5
<1>7. PICK u : u = IF SpanInside(StringLen, offset, len) THEN s ELSE v  OBVIOUS
<1>8. buf' = buf /\ value' = u /\ other' = w  BY <1>1, <1>5, <1>7 DEF Slice
<1>9. PICK r : r = result'  OBVIOUS
<1>10. /\ r.call = "slice" /\ r.left = s /\ r.right = v
       /\ r.got = IF SpanInside(StringLen, offset, len) THEN "OK" ELSE "ERR_RANGE"
  BY <1>1, <1>5, <1>9 DEF Slice
<1>11. ViewOK(u)
  <2>1. CASE offset + len <= StringLen
    <3>1. offset \in 0..EmptyBuf /\ offset # NULL /\ offset + len <= EmptyBuf + 1
      BY <2>1, <1>3, SizesAre, StrViewsAssumption
    <3>2. s \in [ptr : 0..EmptyBuf \cup {NULL}, len : 0..SizeMax]  BY <1>5, <3>1
    <3>. QED  BY <2>1, <3>1, <3>2, <1>4, <1>6, <1>7 DEF ViewOK
  <2>2. CASE ~(offset + len <= StringLen)
    BY <2>2, <1>2, <1>4, <1>7
  <2>. QED  BY <2>1, <2>2
<1>12. ViewsInv'  BY <1>2, <1>8, <1>11, ViewsKept
<1>13. "slice" \notin Calls \cup {"compare"} /\ "slice" # "trim"  BY DEF Calls
<1>14. AnswersExact'  BY <1>9, <1>10, <1>13 DEF AnswersExact
<1>15. SubviewsExact'
  BY <1>4, <1>6, <1>7, <1>8, <1>9, <1>10, <1>13 DEF SubviewsExact
<1>. QED  BY <1>12, <1>14, <1>15

LEMMA TrimIsRight ==
  ASSUME ViewsInv, NEW v, ViewOK(v), Trim(v)
  PROVE  ViewsInv' /\ AnswersExact' /\ SubviewsExact'
<1>1. PICK u, w : u = Trimmed(v) /\ w = other  OBVIOUS
<1>2. ViewOK(w) /\ BufOK  BY <1>1 DEF ViewsInv
<1>3. PICK T : T = Kept(v)  OBVIOUS
<1>4. /\ ViewOK(u) /\ IsValid(u)
      /\ T = {} => u.len = 0
      /\ T # {} => u = [ptr |-> v.ptr + Min(T), len |-> Max(T) - Min(T) + 1]
  BY <1>1, <1>2, <1>3, TrimmedIs
<1>5. buf' = buf /\ value' = u /\ other' = w  BY <1>1 DEF Trim
<1>6. PICK r : r = result'  OBVIOUS
<1>7. r.call = "trim" /\ r.left = v  BY <1>6 DEF Trim
<1>8. ViewsInv'  BY <1>2, <1>4, <1>5, ViewsKept
<1>9. "trim" \notin Calls \cup {"compare"} /\ "slice" # "trim"  BY DEF Calls
<1>10. AnswersExact'  BY <1>6, <1>7, <1>9 DEF AnswersExact
<1>11. T = IF IsValid(v) THEN {k \in 0..(v.len - 1) : buf'[v.ptr + k] \notin Whitespace} ELSE {}
  BY <1>3, <1>5 DEF Kept
<1>12. SubviewsExact'
  <2>1. IF T = {} THEN u.len = 0 /\ IsValid(u)
        ELSE u = [ptr |-> v.ptr + Min(T), len |-> Max(T) - Min(T) + 1]
    BY <1>4
  <2>2. IsValid(u)' <=> IsValid(u)  BY DEF IsValid
  <2>. QED  BY <1>5, <1>6, <1>7, <1>9, <1>11, <2>1, <2>2, Zenon DEF SubviewsExact, IsValid
<1>. QED  BY <1>8, <1>10, <1>12

-----------------------------------------------------------------------------
(* Splitting.  The i-th separator is the one that i others precede.         *)

\* Where the parts of s end, and how many of those ends lie before x.
Ends(s, sep) == {i \in 0..(Len(s) - 1) : s[i + 1] = sep} \cup {Len(s)}
UpToX(E, x) == {f \in E : f < x}
Below(E, x) == Cardinality(UpToX(E, x))
IsEnd(E, i, e) == e \in E /\ Below(E, e) = i
\* No end lies from x up to m.
Clear(E, x, m) == \A f \in E : ~(x <= f /\ f < m)

LEMMA EndsFinite ==
  ASSUME NEW n \in Nat, NEW E, E \subseteq 0..n
  PROVE  /\ IsFiniteSet(E) /\ Cardinality(E) \in Nat /\ Cardinality(E) <= n + 1
         /\ Cardinality(E) = n + 1 => E = 0..n
<1>1. IsFiniteSet(0..n) /\ Cardinality(0..n) = n + 1
  <2>1. 0 \in Int /\ n \in Int /\ ~(0 > n)  OBVIOUS
  <2>2. IsFiniteSet(0..n) /\ Cardinality(0..n) = n - 0 + 1  BY <2>1, FS_Interval
  <2>. QED  BY <2>2
<1>2. PICK T : T = 0..n  OBVIOUS
<1>3. E \in SUBSET T /\ IsFiniteSet(T)  BY <1>1, <1>2
<1>4. IsFiniteSet(E) /\ Cardinality(E) <= Cardinality(T) /\ (Cardinality(T) = Cardinality(E) => T = E)
  BY <1>3, FS_Subset
<1>5. Cardinality(E) \in Nat  BY <1>4, FS_CardinalityType
<1>. QED  BY <1>1, <1>2, <1>4, <1>5

LEMMA BelowIs ==
  ASSUME NEW n \in Nat, NEW E, E \subseteq 0..n, NEW x \in Nat
  PROVE  /\ IsFiniteSet(UpToX(E, x)) /\ Below(E, x) \in Nat /\ Below(E, x) <= x
         /\ Below(E, x) = x => \A f \in Nat : f < x => f \in E
<1>1. PICK T : T = UpToX(E, x)  OBVIOUS
<1>2. \A f : f \in T <=> f \in E /\ f < x  BY <1>1 DEF UpToX
<1>3. ASSUME NEW f \in T  PROVE f \in Nat /\ f < x
  <2>1. f \in E /\ f < x  BY <1>2
  <2>. QED  BY <2>1
<1>4. CASE x = 0
  <2>1. T = {}  BY <1>4, <1>3
  <2>2. IsFiniteSet(T) /\ Cardinality(T) = 0  BY <2>1, FS_EmptySet
  <2>. QED  BY <1>1, <1>4, <2>2 DEF Below
<1>5. CASE x # 0
  <2>1. PICK m \in Nat : m = x - 1 /\ m + 1 = x  BY <1>5
  <2>2. T \subseteq 0..m  BY <1>3, <2>1
  <2>3. /\ IsFiniteSet(T) /\ Cardinality(T) \in Nat /\ Cardinality(T) <= m + 1
        /\ Cardinality(T) = m + 1 => T = 0..m
    BY <2>2, EndsFinite
  <2>4. Below(E, x) = x => \A f \in Nat : f < x => f \in E
    <3>1. SUFFICES ASSUME T = 0..m, NEW f \in Nat, f < x  PROVE f \in E
      BY <1>1, <2>1, <2>3 DEF Below
    <3>2. f \in T  BY <2>1, <3>1
    <3>. QED  BY <1>2, <3>2
  <2>. QED  BY <1>1, <2>1, <2>3, <2>4 DEF Below
<1>. QED  BY <1>4, <1>5

Follows(y, m) == y = m + 1
Within(E, n) == E \subseteq 0..n
CountIs(E, x, c) == Below(E, x) = c

LEMMA BelowNext ==
  ASSUME NEW n \in Nat, NEW E, Within(E, n), NEW x \in Nat, NEW m \in Nat, m \in E, x <= m, Clear(E, x, m),
         NEW y \in Nat, Follows(y, m), NEW c \in Nat, CountIs(E, x, c), NEW d \in Nat, Follows(d, c)
  PROVE  CountIs(E, m, c) /\ CountIs(E, y, d)
<1>1. y = m + 1 /\ d = c + 1 /\ E \subseteq 0..n /\ Below(E, x) = c  BY DEF Follows, Within, CountIs
<1>2. PICK S, T, U : S = UpToX(E, x) /\ T = UpToX(E, m) /\ U = UpToX(E, y)  OBVIOUS
<1>3. \A f : /\ f \in S <=> f \in E /\ f < x
             /\ f \in T <=> f \in E /\ f < m
             /\ f \in U <=> f \in E /\ f < y
  BY <1>2 DEF UpToX
<1>4. m \in Nat /\ \A f \in E : f \in Nat  BY <1>1
<1>5. T = S
  <2>1. \A f \in E : f < x <=> f < m  BY <1>4 DEF Clear
  <2>. QED  BY <1>3, <2>1
<1>6. U = T \cup {m} /\ m \notin T
  <2>1. \A f \in E : f < y <=> f < m \/ f = m  BY <1>4, <1>1
  <2>2. ~(m < m)  BY <1>4
  <2>. QED  BY <1>3, <2>1, <2>2
<1>7. IsFiniteSet(T)  BY <1>2, <1>4, <1>1, BelowIs
<1>8. Cardinality(T \cup {m}) = Cardinality(T) + 1  BY <1>6, <1>7, FS_AddElement
<1>. QED  BY <1>2, <1>5, <1>6, <1>8, <1>1 DEF Below, CountIs

\* Two ends have not the same number of ends before them.
LEMMA EndOnce ==
  ASSUME NEW n \in Nat, NEW E, E \subseteq 0..n, NEW i, NEW d, IsEnd(E, i, d), NEW e, IsEnd(E, i, e)
  PROVE  d = e
<1>1. ASSUME NEW a \in E, NEW b \in E, a < b  PROVE Below(E, a) # Below(E, b)
  <2>1. a \in Nat /\ b \in Nat  OBVIOUS
  <2>2. PICK S, T : S = UpToX(E, a) /\ T = UpToX(E, b)  OBVIOUS
  <2>3. \A f : (f \in S <=> f \in E /\ f < a) /\ (f \in T <=> f \in E /\ f < b)
    BY <2>2 DEF UpToX
  <2>4. S \subseteq T
    <3>1. SUFFICES ASSUME NEW f \in S  PROVE f \in T  OBVIOUS
    <3>2. f \in E /\ f < a  BY <2>3
    <3>3. f \in Nat  BY <3>2
    <3>4. f < b  BY <1>1, <2>1, <3>2, <3>3
    <3>. QED  BY <2>3, <3>2, <3>4
  <2>5. a \in T /\ a \notin S  BY <1>1, <2>1, <2>3
  <2>6. IsFiniteSet(T)  BY <2>1, <2>2, BelowIs
  <2>7. Cardinality(T) = Cardinality(S) => T = S  BY <2>4, <2>6, FS_Subset
  <2>. QED  BY <2>2, <2>5, <2>7 DEF Below
<1>2. d \in E /\ e \in E /\ Below(E, d) = Below(E, e)  BY DEF IsEnd
<1>3. d \in Nat /\ e \in Nat  BY <1>2
<1>4. ~(d < e) /\ ~(e < d)  BY <1>1, <1>2
<1>. QED  BY <1>3, <1>4

\* What part i of those that end in E looks like.
Starts(E, i, a) == IF i = 0 THEN a = 0 ELSE \E b \in E : IsEnd(E, i - 1, b) /\ a = b + 1
IsPart(E, i, p) == \E a, e : Starts(E, i, a) /\ IsEnd(E, i, e) /\ p = [ptr |-> a, len |-> e - a]
\* The array ps of cp views holds the first c of them.
Filled(E, cp, ps, c) ==
  /\ DOMAIN ps = 0..(cp - 1)
  /\ \A i \in 0..(cp - 1) : IF i < c THEN IsPart(E, i, ps[i]) ELSE ps[i] = Splitting!Unset

\* The loop: c parts are behind it, which end before st.
Going(s, sep, cp, ps, c, st) ==
  /\ c \in Nat /\ c <= SizeMax /\ st \in 0..Len(s)
  /\ Below(Ends(s, sep), st) = c /\ Starts(Ends(s, sep), c, st)
  /\ Filled(Ends(s, sep), cp, ps, c)

Untouched(cp, ps, w) == w = Splitting!Unset /\ \A i \in 0..(cp - 1) : ps[i] = Splitting!Unset

SplitState(s, sep, cp, ps, c, st, w, what) ==
  /\ cp \in Nat
  /\ what = "none" => c = 0 /\ st = 0 /\ cp = 0
  /\ what = "running" => Going(s, sep, cp, ps, c, st) /\ w = Splitting!Unset
  /\ what = "OK" => /\ w = Cardinality(Ends(s, sep))
                    /\ Filled(Ends(s, sep), cp, ps, Cardinality(Ends(s, sep)))
  /\ what = "ERR_OVERFLOW" => Cardinality(Ends(s, sep)) > SizeMax
  /\ what \notin {"running", "OK"} => Untouched(cp, ps, w)

SplitInv == SplitState(Content(value), separator, cap, parts, count, start, written, status)

\* A source: the bytes of a view.
IsSource(s) == s \in Seq(Bytes) /\ Len(s) \in Nat /\ Len(s) <= SizeMax

LEMMA EndsAreIn ==
  ASSUME NEW s, IsSource(s), NEW sep
  PROVE  /\ Ends(s, sep) \subseteq 0..Len(s) /\ Len(s) \in Ends(s, sep)
         /\ \A i \in Nat : i < Len(s) => (i \in Ends(s, sep) <=> s[i + 1] = sep)
<1>1. PICK n \in Nat : n = Len(s)  BY DEF IsSource
<1>2. \A i : i \in Ends(s, sep) <=> i = n \/ (i \in 0..(n - 1) /\ s[i + 1] = sep)
  BY <1>1 DEF Ends
<1>3. ASSUME NEW i \in Ends(s, sep)  PROVE i \in 0..n
  BY <1>2
<1>4. ASSUME NEW i \in Nat, i < n  PROVE i \in Ends(s, sep) <=> s[i + 1] = sep
  <2>1. i # n /\ i \in 0..(n - 1)  BY <1>4
  <2>. QED  BY <1>2, <2>1
<1>. QED  BY <1>1, <1>2, <1>3, <1>4

\* The next state of a split, whatever its parts are.
LEMMA SplitKept ==
  ASSUME NEW s, NEW sep, NEW cp, NEW ps, NEW c, NEW st, NEW w, NEW what,
         s = Content(value)', sep = separator', cp = cap', ps = parts', c = count', st = start',
         w = written', what = status', SplitState(s, sep, cp, ps, c, st, w, what)
  PROVE  SplitInv'
BY DEF SplitInv

\* A part a separator ends, or the source: c is counted, and the next one starts behind it.
LEMMA PartFound ==
  ASSUME NEW s, IsSource(s), NEW sep, NEW cp \in Nat, NEW ps, NEW c, NEW st, Going(s, sep, cp, ps, c, st),
         NEW m \in Nat, m \in Ends(s, sep), st <= m, Clear(Ends(s, sep), st, m),
         NEW y \in Nat, y = m + 1, NEW d \in Nat, d = c + 1
  PROVE  /\ IsPart(Ends(s, sep), c, [ptr |-> st, len |-> m - st])
         /\ Below(Ends(s, sep), m) = c /\ Below(Ends(s, sep), y) = d /\ Starts(Ends(s, sep), d, y)
<1>1. PICK E : E = Ends(s, sep)  OBVIOUS
<1>2. PICK n \in Nat : n = Len(s) /\ E \subseteq 0..n  BY <1>1, EndsAreIn DEF IsSource
<1>3. c \in Nat /\ st \in Nat /\ Below(E, st) = c /\ Starts(E, c, st)  BY <1>1, <1>2 DEF Going
<1>4. Below(E, m) = c /\ Below(E, y) = d
  <2>1. m \in E /\ E \subseteq 0..n /\ Clear(E, st, m)  BY <1>1, <1>2
  <2>2. Follows(y, m) /\ Follows(d, c)  BY DEF Follows
  <2>3. Within(E, n) /\ CountIs(E, st, c)  BY <1>2, <1>3 DEF Within, CountIs
  <2>4. CountIs(E, m, c) /\ CountIs(E, y, d)  BY <1>3, <2>1, <2>2, <2>3, BelowNext
  <2>. QED  BY <2>4 DEF CountIs
<1>5. IsEnd(E, c, m)  BY <1>1, <1>4 DEF IsEnd
<1>6. IsPart(E, c, [ptr |-> st, len |-> m - st])  BY <1>3, <1>5 DEF IsPart
<1>7. Starts(E, d, y)
  <2>1. d # 0 /\ d - 1 = c  BY <1>3
  <2>. QED  BY <1>1, <1>5, <2>1 DEF Starts
<1>. QED  BY <1>1, <1>4, <1>6, <1>7

\* str_store_split_part of part c.
LEMMA PartStored ==
  ASSUME NEW E, NEW cp \in Nat, NEW ps, NEW c \in Nat, Filled(E, cp, ps, c), NEW p, IsPart(E, c, p),
         NEW qs, qs = IF c < cp THEN [ps EXCEPT ![c] = p] ELSE ps, NEW d \in Nat, d = c + 1
  PROVE  Filled(E, cp, qs, d)
<1>1. DOMAIN ps = 0..(cp - 1)  BY DEF Filled
<1>2. DOMAIN qs = 0..(cp - 1)  BY <1>1
<1>3. ASSUME NEW i \in 0..(cp - 1)
      PROVE  IF i < d THEN IsPart(E, i, qs[i]) ELSE qs[i] = Splitting!Unset
  <2>1. IF i < c THEN IsPart(E, i, ps[i]) ELSE ps[i] = Splitting!Unset  BY DEF Filled
  <2>2. CASE i = c
    <3>1. qs[i] = p  BY <2>2, <1>1
    <3>2. i < d  BY <2>2
    <3>. QED  BY <2>2, <3>1, <3>2
  <2>3. CASE i # c
    <3>1. qs[i] = ps[i]  BY <2>3, <1>1
    <3>2. i < c <=> i < d  BY <2>3
    <3>. QED  BY <2>1, <3>1, <3>2
  <2>. QED  BY <2>2, <2>3
<1>. QED  BY <1>2, <1>3 DEF Filled

LEMMA SourceIs ==
  ASSUME BufOK, NEW v, ViewOK(v)
  PROVE  IsSource(Content(v))
<1>1. CASE IsValid(v)
  <2>1. BytesAt(Content(v), v.ptr, v.len)  BY <1>1, ContentIs
  <2>2. v.len \in Nat /\ v.len <= SizeMax  BY ValidIs
  <2>. QED  BY <2>1, <2>2 DEF BytesAt, IsSource
<1>2. CASE ~IsValid(v)
  <2>1. Content(v) = <<>>  BY <1>2, ContentIs
  <2>. QED  BY <2>1, SizesAre DEF IsSource
<1>. QED  BY <1>1, <1>2

LEMMA SourceKept ==
  ASSUME ViewsInv
  PROVE  IsSource(Content(value))
<1>1. PICK v : v = value  OBVIOUS
<1>2. IsSource(Content(v))  BY <1>1, SourceIs DEF ViewsInv
<1>. QED  BY <1>1, <1>2

LEMMA SourceSame ==
  ASSUME buf' = buf, value' = value
  PROVE  Content(value)' = Content(value)
BY DEF Content, IsValid

\* A counter that stays within a size_t does not wrap.
LEMMA CountedIs ==
  ASSUME NEW c \in Nat, NEW d \in Nat, Follows(d, c), d <= SizeMax
  PROVE  Splitting!Counted(c) = d
BY SizesAre DEF Splitting!Counted, Follows

LEMMA CutRight ==
  ASSUME ViewsInv, SplitInv, UNCHANGED views, Splitting!CutAtSeparator
  PROVE  SplitInv'
<1>1. PICK s, sep, cp, ps, c, st, w : /\ s = Content(value) /\ sep = separator /\ cp = cap /\ ps = parts
                                      /\ c = count /\ st = start /\ w = written
  OBVIOUS
<1>2. IsSource(s)  BY <1>1, SourceKept
<1>3. PICK n \in Nat : n = Len(s) /\ n <= SizeMax  BY <1>2 DEF IsSource
<1>4. status = "running"  BY DEF Splitting!CutAtSeparator
<1>5. cp \in Nat /\ Going(s, sep, cp, ps, c, st) /\ w = Splitting!Unset
  BY <1>1, <1>4 DEF SplitInv, SplitState
<1>6. c \in Nat /\ st \in Nat /\ Filled(Ends(s, sep), cp, ps, c)  BY <1>3, <1>5 DEF Going
<1>7. PICK T : T = Splitting!Separators  OBVIOUS
<1>8. \A i : i \in T <=> i \in st..(n - 1) /\ s[i + 1] = sep
  BY <1>1, <1>3, <1>7 DEF Splitting!Separators, Splitting!ByteAt
<1>9. T # {} /\ T \subseteq Nat  BY <1>6, <1>7, <1>8 DEF Splitting!CutAtSeparator
<1>10. PICK m \in Nat : m = Min(T) /\ m \in T /\ \A f \in T : m <= f  BY <1>9, MinIs
<1>11. m < n /\ st <= m /\ s[m + 1] = sep  BY <1>3, <1>6, <1>8, <1>10
<1>12. m = Splitting!Min(Splitting!Separators)
  <2>1. Splitting!Min(T) = Min(T)  BY DEF Splitting!Min, Min
  <2>. QED  BY <1>7, <1>10, <2>1
<1>13. PICK E : E = Ends(s, sep)  OBVIOUS
<1>14. E \subseteq 0..n /\ m \in E /\ \A i \in Nat : i < n => (i \in E <=> s[i + 1] = sep)
  BY <1>2, <1>3, <1>11, <1>13, EndsAreIn
<1>15. Clear(E, st, m)
  <2>1. SUFFICES ASSUME NEW f \in E, st <= f, f < m  PROVE FALSE  BY DEF Clear
  <2>2. f \in Nat  BY <1>14
  <2>3. f < n /\ f \in st..(n - 1)  BY <1>3, <1>6, <1>11, <2>1, <2>2
  <2>4. f \in T  BY <1>8, <1>14, <2>2, <2>3
  <2>. QED  BY <1>10, <2>1, <2>2, <2>4
<1>16. m + 1 \in Nat /\ c + 1 \in Nat  BY <1>6
<1>17. PICK y \in Nat, d \in Nat : y = m + 1 /\ d = c + 1  BY <1>16
<1>18. PICK p : p = [ptr |-> st, len |-> m - st]  OBVIOUS
<1>19. IsPart(E, c, p) /\ Below(E, y) = d /\ Starts(E, d, y)
  BY <1>2, <1>5, <1>11, <1>13, <1>14, <1>15, <1>17, <1>18, PartFound
<1>20. d <= SizeMax /\ y \in 0..n
  <2>1. y <= n  BY <1>3, <1>11, <1>17
  <2>2. Below(E, y) <= y  BY <1>3, <1>14, BelowIs
  <2>. QED  BY <1>3, <1>19, <2>1, <2>2, SizesAre
<1>21. PICK qs : qs = IF c < cp THEN [ps EXCEPT ![c] = p] ELSE ps  OBVIOUS
<1>22. Filled(E, cp, qs, d)  BY <1>5, <1>6, <1>13, <1>17, <1>19, <1>21, PartStored
<1>23. Going(s, sep, cp, qs, d, y)  BY <1>3, <1>13, <1>19, <1>20, <1>22 DEF Going
<1>24. SplitState(s, sep, cp, qs, d, y, w, "running")  BY <1>5, <1>23 DEF SplitState
<1>25. parts' = qs
  BY <1>1, <1>21, <1>18, <1>12 DEF Splitting!CutAtSeparator, Splitting!StorePart
<1>26. count' = d
  <2>1. Follows(d, c)  BY <1>17 DEF Follows
  <2>2. Splitting!Counted(c) = d  BY <1>6, <1>20, <2>1, CountedIs
  <2>. QED  BY <1>1, <2>2 DEF Splitting!CutAtSeparator
<1>27. start' = y  BY <1>17, <1>12 DEF Splitting!CutAtSeparator
<1>28. separator' = sep /\ cap' = cp /\ written' = w /\ status' = "running"
  BY <1>1, <1>4 DEF Splitting!CutAtSeparator
<1>29. Content(value)' = s  BY <1>1, SourceSame DEF views
<1>. QED  BY <1>24, <1>25, <1>26, <1>27, <1>28, <1>29, SplitKept

LEMMA LastRight ==
  ASSUME ViewsInv, SplitInv, UNCHANGED views, Splitting!LastPart
  PROVE  SplitInv'
<1>1. PICK s, sep, cp, ps, c, st : /\ s = Content(value) /\ sep = separator /\ cp = cap /\ ps = parts
                                   /\ c = count /\ st = start
  OBVIOUS
<1>2. IsSource(s)  BY <1>1, SourceKept
<1>3. PICK n \in Nat : n = Len(s) /\ n <= SizeMax  BY <1>2 DEF IsSource
<1>4. status = "running"  BY DEF Splitting!LastPart
<1>5. cp \in Nat /\ Going(s, sep, cp, ps, c, st)
  BY <1>1, <1>4 DEF SplitInv, SplitState
<1>6. c \in Nat /\ c <= SizeMax /\ st \in Nat /\ st <= n /\ Filled(Ends(s, sep), cp, ps, c)
      /\ Below(Ends(s, sep), st) = c
  BY <1>3, <1>5 DEF Going
<1>7. PICK T : T = Splitting!Separators  OBVIOUS
<1>8. \A i : i \in T <=> i \in st..(n - 1) /\ s[i + 1] = sep
  BY <1>1, <1>3, <1>7 DEF Splitting!Separators, Splitting!ByteAt
<1>9. T = {}  BY <1>7 DEF Splitting!LastPart
<1>10. PICK E : E = Ends(s, sep)  OBVIOUS
<1>11. E \subseteq 0..n /\ n \in E /\ \A i \in Nat : i < n => (i \in E <=> s[i + 1] = sep)
  BY <1>2, <1>3, <1>10, EndsAreIn
<1>12. Clear(E, st, n)
  <2>1. SUFFICES ASSUME NEW f \in E, st <= f, f < n  PROVE FALSE  BY DEF Clear
  <2>2. f \in Nat  BY <1>11
  <2>3. f \in st..(n - 1)  BY <1>3, <1>6, <2>1, <2>2
  <2>4. f \in T  BY <1>8, <1>11, <2>1, <2>2, <2>3
  <2>. QED  BY <1>9, <2>4
<1>13. n + 1 \in Nat /\ c + 1 \in Nat  BY <1>6
<1>14. PICK y \in Nat, d \in Nat : y = n + 1 /\ d = c + 1  BY <1>13
<1>15. PICK p : p = [ptr |-> st, len |-> n - st]  OBVIOUS
<1>16. IsPart(E, c, p) /\ Below(E, y) = d /\ Below(E, n) = c
  BY <1>2, <1>5, <1>6, <1>10, <1>11, <1>12, <1>14, <1>15, PartFound
<1>17. Cardinality(E) = d
  <2>1. UpToX(E, y) = E
    <3>1. \A f \in E : f < y  BY <1>11, <1>14
    <3>. QED  BY <3>1 DEF UpToX
  <2>. QED  BY <1>16, <2>1 DEF Below
<1>18. d <= SizeMax
  <2>1. SUFFICES ASSUME ~(d <= SizeMax)  PROVE FALSE  OBVIOUS
  <2>2. c = SizeMax  BY <1>6, <1>14, <2>1, SizesAre
  <2>3. c <= n /\ (c = n => \A f \in Nat : f < n => f \in E)
    BY <1>11, <1>16, BelowIs
  <2>4. c = n /\ n = SizeMax  BY <1>3, <1>6, <2>2, <2>3
  <2>5. \A i \in 0..(SizeMax - 1) : s[i + 1] = sep
    <3>1. SUFFICES ASSUME NEW i \in 0..(SizeMax - 1)  PROVE s[i + 1] = sep  OBVIOUS
    <3>2. i \in Nat /\ i < n  BY <2>4, SizesAre
    <3>. QED  BY <1>11, <2>3, <2>4, <3>2
  <2>6. Splitting!AllSeparators
    BY <1>1, <1>3, <2>4, <2>5 DEF Splitting!AllSeparators, Splitting!ByteAt
  <2>. QED  BY <2>6 DEF Splitting!LastPart
<1>19. PICK qs : qs = IF c < cp THEN [ps EXCEPT ![c] = p] ELSE ps  OBVIOUS
<1>20. Filled(E, cp, qs, d)  BY <1>5, <1>6, <1>10, <1>14, <1>16, <1>19, PartStored
<1>21. SplitState(s, sep, cp, qs, d, st, d, "OK")
  BY <1>5, <1>10, <1>17, <1>20 DEF SplitState
<1>22. parts' = qs
  BY <1>1, <1>3, <1>14, <1>15, <1>19 DEF Splitting!LastPart, Splitting!StorePart
<1>23. count' = d
  <2>1. Follows(d, c)  BY <1>14 DEF Follows
  <2>2. Splitting!Counted(c) = d  BY <1>6, <1>18, <2>1, CountedIs
  <2>. QED  BY <1>1, <2>2 DEF Splitting!LastPart
<1>24. written' = d /\ status' = "OK" /\ start' = st /\ separator' = sep /\ cap' = cp
  BY <1>1, <1>23 DEF Splitting!LastPart
<1>25. Content(value)' = s  BY <1>1, SourceSame DEF views
<1>. QED  BY <1>21, <1>22, <1>23, <1>24, <1>25, SplitKept

LEMMA RefuseRight ==
  ASSUME ViewsInv, SplitInv, UNCHANGED views, Splitting!RefuseOverflow
  PROVE  SplitInv'
<1>1. PICK s, sep, cp, ps, w : /\ s = Content(value) /\ sep = separator /\ cp = cap /\ ps = parts
                               /\ w = written
  OBVIOUS
<1>2. IsSource(s)  BY <1>1, SourceKept
<1>3. status = "running" /\ count = 0 /\ Splitting!AllSeparators  BY DEF Splitting!RefuseOverflow
<1>4. cp \in Nat /\ Filled(Ends(s, sep), cp, ps, 0) /\ w = Splitting!Unset
  BY <1>1, <1>3 DEF SplitInv, SplitState, Going
<1>5. Untouched(cp, ps, w)
  <2>1. \A i \in 0..(cp - 1) : ~(i < 0)  OBVIOUS
  <2>. QED  BY <1>4, <2>1 DEF Filled, Untouched
<1>6. PICK n \in Nat : n = Len(s) /\ n = SizeMax /\ \A i \in 0..(n - 1) : s[i + 1] = sep
  BY <1>1, <1>3, SizesAre DEF Splitting!AllSeparators, Splitting!ByteAt
<1>7. PICK E : E = Ends(s, sep)  OBVIOUS
<1>8. E \subseteq 0..n /\ n \in E /\ \A i \in Nat : i < n => (i \in E <=> s[i + 1] = sep)
  <2>1. n = Len(s)  BY <1>6
  <2>. QED  BY <1>2, <1>7, <2>1, EndsAreIn
<1>9. E = 0..n
  <2>1. SUFFICES ASSUME NEW i \in 0..n  PROVE i \in E  BY <1>8
  <2>2. i \in Nat /\ (i = n \/ i < n)  OBVIOUS
  <2>3. i < n => s[i + 1] = sep  BY <1>6, <2>2
  <2>. QED  BY <1>8, <2>2, <2>3
<1>10. Cardinality(E) > SizeMax
  <2>1. 0 \in Int /\ n \in Int /\ ~(0 > n)  OBVIOUS
  <2>2. Cardinality(E) = n - 0 + 1  BY <1>9, <2>1, FS_Interval
  <2>. QED  BY <1>6, <2>2
<1>11. PICK c, st : c = count /\ st = start  OBVIOUS
<1>12. SplitState(s, sep, cp, ps, c, st, w, "ERR_OVERFLOW")
  BY <1>4, <1>5, <1>7, <1>10 DEF SplitState
<1>13. /\ separator' = sep /\ cap' = cp /\ parts' = ps /\ written' = w /\ count' = c /\ start' = st
       /\ status' = "ERR_OVERFLOW"
  BY <1>1, <1>11 DEF Splitting!RefuseOverflow
<1>14. Content(value)' = s  BY <1>1, SourceSame DEF views
<1>. QED  BY <1>12, <1>13, <1>14, SplitKept

LEMMA SplitViewRight ==
  ASSUME ViewsInv, SplitInv, NEW v, ViewOK(v), NEW byte \in Bytes, NEW n \in 0..MaxCap, SplitView(v, byte, n)
  PROVE  ViewsInv' /\ AnswersExact' /\ SubviewsExact' /\ SplitInv'
<1>1. /\ value' = v /\ other' = EmptyView /\ result' = NoCall /\ buf' = buf
      /\ Splitting!Call(byte, n, IsValid(v))
  BY DEF SplitView
<1>2. BufOK /\ ViewOK(EmptyView)  BY EmptyViewIs DEF ViewsInv
<1>3. ViewsInv' /\ AnswersExact' /\ SubviewsExact'
  BY <1>1, <1>2, ViewsKept, NoCallRight
<1>4. PICK s : s = Content(v)  OBVIOUS
<1>5. IsSource(s)  BY <1>2, <1>4, SourceIs
<1>6. Content(value)' = s  BY <1>1, <1>4 DEF Content, IsValid
<1>7. status = "none" /\ count = 0 /\ start = 0 /\ written = Splitting!Unset
  BY <1>1 DEF Splitting!Call, SplitInv, SplitState, Untouched
<1>8. PICK ps : ps = [i \in 0..(n - 1) |-> Splitting!Unset]  OBVIOUS
<1>9. PICK u : u = Splitting!Unset  OBVIOUS
<1>10. PICK what : what = IF IsValid(v) THEN "running" ELSE "ERR_ARG"  OBVIOUS
<1>11. /\ separator' = byte /\ cap' = n /\ parts' = ps /\ count' = 0 /\ start' = 0 /\ written' = u
       /\ status' = what
  BY <1>1, <1>7, <1>8, <1>9, <1>10, Zenon DEF Splitting!Call
<1>12. n \in Nat  BY StrViewsAssumption
<1>13. Untouched(n, ps, u)  BY <1>8, <1>9 DEF Untouched
<1>14. Going(s, byte, n, ps, 0, 0)
  <2>1. PICK k, E : k \in Nat /\ k = Len(s) /\ E = Ends(s, byte) /\ E \subseteq 0..k
    <3>1. Len(s) \in Nat /\ Ends(s, byte) \subseteq 0..Len(s)  BY <1>5, EndsAreIn DEF IsSource
    <3>. QED  BY <3>1
  <2>2. Below(E, 0) = 0
    <3>1. Below(E, 0) \in Nat /\ Below(E, 0) <= 0  BY <2>1, BelowIs
    <3>. QED  BY <3>1
  <2>3. Starts(E, 0, 0)  BY DEF Starts
  <2>4. Filled(E, n, ps, 0)
    <3>1. DOMAIN ps = 0..(n - 1) /\ \A i \in 0..(n - 1) : ps[i] = Splitting!Unset  BY <1>8
    <3>2. \A i \in 0..(n - 1) : ~(i < 0)  BY <1>12
    <3>. QED  BY <3>1, <3>2 DEF Filled
  <2>. QED  BY <2>1, <2>2, <2>3, <2>4, SizesAre DEF Going
<1>15. SplitState(s, byte, n, ps, 0, 0, u, what)
  BY <1>9, <1>10, <1>12, <1>13, <1>14 DEF SplitState
<1>16. PICK z : z = 0  OBVIOUS
<1>17. SplitInv'  BY <1>6, <1>11, <1>15, <1>16, SplitKept
<1>. QED  BY <1>3, <1>17

LEMMA NotSplitYet ==
  ASSUME SplitInv, status = "none", UNCHANGED split
  PROVE  SplitInv'
<1>1. PICK s, sep, cp, ps, c, st, w : /\ s = Content(value)' /\ sep = separator /\ cp = cap /\ ps = parts
                                      /\ c = count /\ st = start /\ w = written
  OBVIOUS
<1>2. SplitState(s, sep, cp, ps, c, st, w, "none")
  BY <1>1 DEF SplitInv, SplitState
<1>3. /\ separator' = sep /\ cap' = cp /\ parts' = ps /\ written' = w /\ count' = c /\ start' = st
      /\ status' = "none"
  BY <1>1 DEF split
<1>. QED  BY <1>1, <1>2, <1>3, SplitKept

LEMMA NothingSplit ==
  ASSUME SplitInv, UNCHANGED vars
  PROVE  SplitInv'
<1>1. PICK s, sep, cp, ps, c, st, w, what : /\ s = Content(value) /\ sep = separator /\ cp = cap /\ ps = parts
                                            /\ c = count /\ st = start /\ w = written /\ what = status
  OBVIOUS
<1>2. SplitState(s, sep, cp, ps, c, st, w, what)  BY <1>1 DEF SplitInv
<1>3. /\ separator' = sep /\ cap' = cp /\ parts' = ps /\ written' = w /\ count' = c /\ start' = st
      /\ status' = what
  BY <1>1 DEF vars, split
<1>4. Content(value)' = s  BY <1>1, SourceSame DEF vars, views
<1>. QED  BY <1>2, <1>3, <1>4, SplitKept

LEMMA SameViews ==
  ASSUME ViewsInv, AnswersExact, SubviewsExact, UNCHANGED views
  PROVE  ViewsInv' /\ AnswersExact' /\ SubviewsExact'
<1>1. buf' = buf /\ value' = value /\ other' = other /\ result' = result  BY DEF views
<1>2. ViewsInv'  BY <1>1 DEF ViewsInv, BufOK, ViewOK
<1>3. AnswersExact'
  <2>1. PICK l, r : l = result.left /\ r = result.right  OBVIOUS
  <2>2. Content(l)' = Content(l) /\ Content(r)' = Content(r)  BY <1>1, ContentSame
  <2>. QED  BY <1>1, <2>1, <2>2 DEF AnswersExact, BothValid, IsValid
<1>4. SubviewsExact'  BY <1>1 DEF SubviewsExact, IsValid
<1>. QED  BY <1>2, <1>3, <1>4

\* What the module of the split calls the ends and the parts.
LEMMA PartEndsAre ==
  Splitting!PartEnds = Ends(Content(value), separator)
BY DEF Splitting!PartEnds, Splitting!ByteAt, Ends

LEMMA EndOfIs ==
  ASSUME NEW n \in Nat, NEW E, E \subseteq 0..n, E = Splitting!PartEnds, NEW i, NEW e, IsEnd(E, i, e)
  PROVE  Splitting!EndOf(i) = e
<1>1. \A x : Splitting!Cardinality({f \in E : f < x}) = Below(E, x)
  BY DEF Below, UpToX, Splitting!Cardinality, Cardinality
<1>2. PICK d : d = Splitting!EndOf(i)  OBVIOUS
<1>3. d \in E /\ Below(E, d) = i
  <2>1. e \in E /\ Below(E, e) = i  BY DEF IsEnd
  <2>2. \E x \in E : Splitting!Cardinality({f \in E : f < x}) = i  BY <1>1, <2>1
  <2>3. d = CHOOSE x \in E : Splitting!Cardinality({f \in E : f < x}) = i  BY <1>2, Zenon DEF Splitting!EndOf
  <2>4. d \in E /\ Splitting!Cardinality({f \in E : f < d}) = i  BY <2>2, <2>3, Zenon
  <2>. QED  BY <1>1, <2>4
<1>4. IsEnd(E, i, d)  BY <1>3 DEF IsEnd
<1>5. d = e  BY <1>4, EndOnce
<1>. QED  BY <1>2, <1>5

LEMMA PartIs ==
  ASSUME NEW n \in Nat, NEW E, E \subseteq 0..n, E = Splitting!PartEnds, NEW i \in Nat, NEW p, IsPart(E, i, p)
  PROVE  Splitting!Part(i) = p
<1>1. PICK a, e : Starts(E, i, a) /\ IsEnd(E, i, e) /\ p = [ptr |-> a, len |-> e - a]  BY DEF IsPart
<1>2. Splitting!EndOf(i) = e  BY <1>1, EndOfIs
<1>3. a = IF i = 0 THEN 0 ELSE Splitting!EndOf(i - 1) + 1
  <2>1. CASE i = 0
    BY <1>1, <2>1 DEF Starts
  <2>2. CASE i # 0
    <3>1. PICK b \in E : IsEnd(E, i - 1, b) /\ a = b + 1  BY <1>1, <2>2 DEF Starts
    <3>2. PICK j : j = i - 1  OBVIOUS
    <3>3. Splitting!EndOf(j) = b  BY <3>1, <3>2, EndOfIs
    <3>. QED  BY <2>2, <3>1, <3>2, <3>3
  <2>. QED  BY <2>1, <2>2
<1>. QED  BY <1>1, <1>2, <1>3 DEF Splitting!Part

LEMMA SplitIsExact ==
  ASSUME ViewsInv, SplitInv
  PROVE  SplitExact
<1>1. PICK E, s, sep : E = Ends(s, sep) /\ s = Content(value) /\ sep = separator  OBVIOUS
<1>2. E = Splitting!PartEnds  BY <1>1, PartEndsAre
<1>3. IsSource(s)  BY <1>1, SourceKept
<1>4. PICK n : n = Len(s) /\ n \in Nat  BY <1>3 DEF IsSource
<1>5. E \subseteq 0..n  BY <1>1, <1>3, <1>4, EndsAreIn
<1>6. Splitting!Cardinality(E) = Cardinality(E)  BY DEF Splitting!Cardinality, Cardinality
<1>7. ASSUME status = "OK"
      PROVE  /\ written = Cardinality(E)
             /\ \A i \in 0..(cap - 1) : parts[i] = IF i < Cardinality(E) THEN Splitting!Part(i) ELSE Splitting!Unset
  <2>1. written = Cardinality(E) /\ Filled(E, cap, parts, Cardinality(E)) /\ cap \in Nat
    BY <1>1, <1>7 DEF SplitInv, SplitState
  <2>2. ASSUME NEW i \in 0..(cap - 1)
        PROVE  parts[i] = IF i < Cardinality(E) THEN Splitting!Part(i) ELSE Splitting!Unset
    <3>1. IF i < Cardinality(E) THEN IsPart(E, i, parts[i]) ELSE parts[i] = Splitting!Unset
      BY <2>1 DEF Filled
    <3>2. PICK p, j : p = parts[i] /\ j = i /\ j \in Nat  BY <2>1
    <3>3. IsPart(E, j, p) => Splitting!Part(j) = p  BY <1>2, <1>4, <1>5, <3>2, PartIs
    <3>. QED  BY <3>1, <3>2, <3>3
  <2>. QED  BY <2>1, <2>2
<1>8. status = "ERR_OVERFLOW" => Cardinality(E) > SizeMax
  BY <1>1 DEF SplitInv, SplitState
<1>9. status \notin {"running", "OK"} =>
        written = Splitting!Unset /\ \A i \in 0..(cap - 1) : parts[i] = Splitting!Unset
  BY DEF SplitInv, SplitState, Untouched
<1>. QED  BY <1>2, <1>6, <1>7, <1>8, <1>9 DEF SplitExact, Splitting!SplitExact
-----------------------------------------------------------------------------
(* The theorems.                                                            *)

ViewsSound == ViewsInv /\ AnswersExact /\ SubviewsExact /\ SplitInv

LEMMA InitViews ==
  ASSUME Init
  PROVE  ViewsSound
<1>1. ViewsInv  BY EmptyViewIs DEF Init, ViewsInv, BufOK
<1>2. AnswersExact /\ SubviewsExact
  <2>1. result.call = "none"  BY DEF Init, NoCall
  <2>. QED  BY <2>1, NothingAsked
<1>3. /\ separator = -1 /\ cap = 0 /\ parts = <<>> /\ written = Splitting!Unset
      /\ count = 0 /\ start = 0 /\ status = "none"
  BY DEF Init, Splitting!Init
<1>4. \A i \in 0..(cap - 1) : FALSE  BY <1>3
<1>5. SplitInv  BY <1>3, <1>4 DEF SplitInv, SplitState, Untouched
<1>. QED  BY <1>1, <1>2, <1>5 DEF ViewsSound

LEMMA CallRight ==
  ASSUME ViewsInv, ViewCall
  PROVE  ViewsInv' /\ AnswersExact' /\ SubviewsExact'
<1>1. CASE \E ptr \in 0..EmptyBuf \cup {NULL}, len \in 0..SizeMax : ViewFromN(ptr, len)
  BY <1>1, ViewFromNRight
<1>2. CASE \E ptr \in 0..EmptyBuf \cup {NULL} : ViewFromCString(ptr)
  BY <1>2, ViewFromCStringRight
<1>3. CASE \E offset, len \in 0..SizeMax : Slice(offset, len)
  BY <1>3, SliceRight
<1>4. ASSUME Trim(value) \/ Trim(other)
      PROVE  ViewsInv' /\ AnswersExact' /\ SubviewsExact'
  <2>1. PICK v : (v = value \/ v = other) /\ Trim(v)  BY <1>4
  <2>2. ViewOK(v)  BY <2>1 DEF ViewsInv
  <2>. QED  BY <2>1, <2>2, TrimIsRight
<1>5. CASE \E call \in Calls : Ask(call) \/ AskString(call)
  BY <1>5, AskRight, AskStringRight
<1>6. CASE Compare
  BY <1>6, CompareRight
<1>. QED  BY <1>1, <1>2, <1>3, <1>4, <1>5, <1>6 DEF ViewCall

LEMMA NextViews ==
  ASSUME ViewsSound, [Next]_vars
  PROVE  ViewsSound'
<1>1. ViewsInv /\ AnswersExact /\ SubviewsExact /\ SplitInv  BY DEF ViewsSound
<1>2. CASE status = "none" /\ ViewCall /\ UNCHANGED split
  BY <1>1, <1>2, CallRight, NotSplitYet DEF ViewsSound
<1>3. ASSUME NEW byte \in Bytes, NEW n \in 0..MaxCap, SplitView(value, byte, n) \/ SplitView(other, byte, n)
      PROVE  ViewsSound'
  <2>1. PICK v : (v = value \/ v = other) /\ SplitView(v, byte, n)  BY <1>3
  <2>2. ViewOK(v)  BY <1>1, <2>1 DEF ViewsInv
  <2>. QED  BY <1>1, <2>1, <2>2, SplitViewRight DEF ViewsSound
<1>4. CASE UNCHANGED views /\ Splitting!Step
  <2>1. ViewsInv' /\ AnswersExact' /\ SubviewsExact'  BY <1>1, <1>4, SameViews
  <2>2. SplitInv'  BY <1>1, <1>4, RefuseRight, CutRight, LastRight DEF Splitting!Step
  <2>. QED  BY <2>1, <2>2 DEF ViewsSound
<1>5. CASE UNCHANGED vars
  <2>1. UNCHANGED views  BY <1>5 DEF vars
  <2>2. ViewsInv' /\ AnswersExact' /\ SubviewsExact'  BY <1>1, <2>1, SameViews
  <2>3. SplitInv'  BY <1>1, <1>5, NothingSplit
  <2>. QED  BY <2>2, <2>3 DEF ViewsSound
<1>. QED  BY <1>2, <1>3, <1>4, <1>5 DEF Next

LEMMA ViewsAreSound == Spec => []ViewsSound
<1>1. Init => ViewsSound  BY InitViews
<1>2. ViewsSound /\ [Next]_vars => ViewsSound'  BY NextViews
<1>. QED  BY <1>1, <1>2, PTL DEF Spec

\* StrViews!AnswersExact: equality, prefix, suffix and order are those of the contents, for
\* views that overlap, share bytes or lie apart, and an invalid view is refused.
THEOREM AnswersAreExact == Spec => []AnswersExact
<1>1. ViewsSound => AnswersExact  BY DEF ViewsSound
<1>. QED  BY <1>1, ViewsAreSound, PTL

\* StrViews!SubviewsExact: a slice ends inside the string or is refused, for every offset and
\* length of a size_t, and the two loops of a trim keep all between the outermost bytes
\* that are no whitespace.
THEOREM SubviewsAreExact == Spec => []SubviewsExact
<1>1. ViewsSound => SubviewsExact  BY DEF ViewsSound
<1>. QED  BY <1>1, ViewsAreSound, PTL

\* StrViews!SplitExact: the split of every view, into an array of every size, counts all
\* parts, stores the first of them, and refuses only what a size_t cannot count.
THEOREM SplitsAreExact == Spec => []SplitExact
<1>1. ViewsSound => SplitExact  BY SplitIsExact DEF ViewsSound
<1>. QED  BY <1>1, ViewsAreSound, PTL

=============================================================================
