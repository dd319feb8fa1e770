----------------------------- MODULE StrRefines -----------------------------
(***************************************************************************)
(* Proof that str_t is the byte sequence str.h promises (StrBuffer          *)
(* implements StrValue), and that no call that fits the capacity fails for  *)
(* memory.                                                                  *)
(*                                                                         *)
(* StrProofs shows of each helper that the string stays whole; here each is *)
(* followed once more for the text it leaves and for the reasons it fails.  *)
(***************************************************************************)
EXTENDS StrProofs

-----------------------------------------------------------------------------
(* Sequences                                                                *)

LEMMA SameSequence ==
  ASSUME NEW S, NEW s \in Seq(S), NEW t \in Seq(S), Len(s) = Len(t),
         \A i \in 1..Len(s) : s[i] = t[i]
  PROVE  s = t
OBVIOUS

LEMMA JoinedIs ==
  ASSUME NEW S, NEW v \in Seq(S), NEW w \in Seq(S)
  PROVE  /\ v \o w \in Seq(S) /\ Len(v \o w) = Len(v) + Len(w)
         /\ \A i \in 1..(Len(v) + Len(w)) : (v \o w)[i] = IF i <= Len(v) THEN v[i] ELSE w[i - Len(v)]
OBVIOUS

LEMMA SubSeqIs ==
  ASSUME NEW S, NEW s \in Seq(S), NEW a \in Nat, NEW n \in Nat, a + n <= Len(s)
  PROVE  /\ SubSeq(s, a + 1, a + n) \in Seq(S) /\ Len(SubSeq(s, a + 1, a + n)) = n
         /\ \A i \in 1..n : SubSeq(s, a + 1, a + n)[i] = s[a + i]
OBVIOUS

LEMMA AppendIs ==
  ASSUME NEW S, NEW s \in Seq(S), NEW e \in S
  PROVE  /\ Append(s, e) \in Seq(S) /\ Len(Append(s, e)) = Len(s) + 1 /\ Append(s, e)[Len(s) + 1] = e
         /\ \A i \in 1..Len(s) : Append(s, e)[i] = s[i]
         /\ Len(s) \in Nat
OBVIOUS

SplicedAs(S, u, v, idx, k, w) ==
  /\ u \in Seq(S)
  /\ Len(u) = (Len(v) - k) + Len(w)
  /\ \A i \in 1..((Len(v) - k) + Len(w)) :
       u[i] = IF i <= idx THEN v[i] ELSE IF i <= idx + Len(w) THEN w[i - idx] ELSE v[(i - Len(w)) + k]

LEMMA SplicedIs ==
  ASSUME NEW S, NEW v \in Seq(S), NEW w \in Seq(S), NEW idx \in Nat, NEW k \in Nat, idx + k <= Len(v)
  PROVE  SplicedAs(S, Value!Spliced(v, idx, k, w), v, idx, k, w)
<1> DEFINE head == SubSeq(v, 1, idx)
           tail == SubSeq(v, idx + k + 1, Len(v))
<1>1. head \in Seq(S) /\ Len(head) = idx /\ \A i \in 1..idx : head[i] = v[i]
  OBVIOUS
<1>2. /\ tail \in Seq(S) /\ Len(tail) = Len(v) - idx - k
      /\ \A i \in 1..(Len(v) - idx - k) : tail[i] = v[idx + k + i]
  OBVIOUS
<1> HIDE DEF head, tail
<1>3. /\ head \o w \in Seq(S) /\ Len(head \o w) = idx + Len(w)
      /\ \A i \in 1..(idx + Len(w)) : (head \o w)[i] = IF i <= idx THEN head[i] ELSE w[i - idx]
  BY <1>1, JoinedIs
<1>4. PICK u : /\ u = head \o w /\ u \in Seq(S) /\ Len(u) = idx + Len(w)
               /\ \A i \in 1..(idx + Len(w)) : u[i] = IF i <= idx THEN head[i] ELSE w[i - idx]
  BY <1>3
<1>5. /\ u \o tail \in Seq(S) /\ Len(u \o tail) = Len(u) + Len(tail)
      /\ \A i \in 1..(Len(u) + Len(tail)) : (u \o tail)[i] = IF i <= Len(u) THEN u[i] ELSE tail[i - Len(u)]
  <2>1. u \in Seq(S) /\ tail \in Seq(S)
    BY <1>2, <1>4
  <2> QED
    BY <2>1, JoinedIs
<1>6. Value!Spliced(v, idx, k, w) = u \o tail
  BY <1>4 DEF Value!Spliced, head, tail
<1>7. /\ Len(w) \in Nat /\ Len(v) \in Nat /\ Len(u) = idx + Len(w) /\ Len(tail) = (Len(v) - idx) - k
      /\ Len(u) + Len(tail) = (Len(v) - k) + Len(w)
  <2>1. Len(w) \in Nat /\ Len(v) \in Nat
    OBVIOUS
  <2> QED
    BY <1>2, <1>4, <2>1
<1>8. ASSUME NEW i \in 1..((Len(v) - k) + Len(w))
      PROVE  (u \o tail)[i] = IF i <= idx THEN v[i]
                              ELSE IF i <= idx + Len(w) THEN w[i - idx] ELSE v[(i - Len(w)) + k]
  <2>1. CASE i <= idx
    BY <1>1, <1>4, <1>5, <1>7, <2>1, SMTT(30)
  <2>2. CASE i > idx /\ i <= idx + Len(w)
    BY <1>4, <1>5, <1>7, <2>2, SMTT(30)
  <2>3. CASE i > idx + Len(w)
    <3>1. i - Len(u) \in 1..(Len(v) - idx - k) /\ idx + k + (i - Len(u)) = (i - Len(w)) + k
      BY <1>7, <2>3
    <3>2. (u \o tail)[i] = tail[i - Len(u)]
      BY <1>5, <1>7, <2>3, SMTT(30)
    <3> QED
      <4>1. PICK j : j = i - Len(u) /\ j \in 1..(Len(v) - idx - k) /\ idx + k + j = (i - Len(w)) + k
        BY <3>1
      <4>2. tail[j] = v[idx + k + j]
        BY <1>2, <4>1
      <4>3. i - Len(u) = j
        BY <4>1
      <4>4. tail[i - Len(u)] = v[(i - Len(w)) + k]
        BY <4>1, <4>2, <4>3
      <4>5. ~(i <= idx) /\ ~(i <= idx + Len(w))
        BY <1>7, <2>3
      <4> QED
        BY <3>2, <4>4, <4>5
  <2> QED
    BY <1>7, <2>1, <2>2, <2>3, SMTT(30)
<1>9. u \o tail \in Seq(S) /\ Len(u \o tail) = (Len(v) - k) + Len(w)
  BY <1>5, <1>7
<1>10. SplicedAs(S, u \o tail, v, idx, k, w)
  BY <1>8, <1>9 DEF SplicedAs
<1> QED
  BY <1>6, <1>10

-----------------------------------------------------------------------------
(* Bytes in the buffer                                                      *)

Byte(m, i) == m.heap[m.s.buf][i]

Text(m) == Load(m.heap, At(m.s.buf, 0), m.s.len)

LEMMA OwnBlock ==
  ASSUME NEW m, NEW R, Roomy(m, R), m.s.cap > 0
  PROVE  /\ m.s.buf \in DOMAIN m.heap /\ m.s.buf \in Nat \ {NULL} /\ m.s.buf # CALLER
         /\ m.heap[m.s.buf] \in Seq(Cells) /\ Len(m.heap[m.s.buf]) = m.s.cap
         /\ m.s.len \in Nat /\ m.s.cap \in Nat /\ m.s.len < m.s.cap
<1>1. m.s.buf \in DOMAIN m.heap /\ Len(m.heap[m.s.buf]) = m.s.cap
  BY DEF Roomy
<1>2. IsHeap(m.heap) /\ m.s.len \in Nat /\ m.s.cap \in Nat /\ m.s.len < m.s.cap
  BY MachineType
<1> QED
  BY <1>1, <1>2 DEF IsHeap, CALLER

\* A pointer into the buffer reads what is there.
LEMMA OwnLoad ==
  ASSUME NEW m, NEW R, Roomy(m, R), m.s.cap > 0, NEW p \in Place, p.blk = m.s.buf,
         NEW n \in Nat, p.off + n <= m.s.cap
  PROVE  \A i \in 1..n : Load(m.heap, p, n)[i] = Byte(m, p.off + i)
<1>1. PICK h, b, bytes : h = m.heap /\ b = m.s.buf /\ bytes = h[b]
  OBVIOUS
<1>2. b \in DOMAIN h /\ b # CALLER /\ Len(bytes) = m.s.cap
  BY <1>1, OwnBlock
<1>3. Load(h, p, n) = [i \in 1..n |-> IF p.off + i <= Len(bytes) THEN bytes[p.off + i] ELSE Junk]
  BY <1>1, <1>2 DEF Load
<1>4. p.off \in Nat
  BY DEF Place
<1>5. m.s.cap \in Nat
  BY OwnBlock
<1>6. \A i \in 1..n : p.off + i <= Len(bytes)
  BY <1>2, <1>4, <1>5
<1> QED
  BY <1>1, <1>3, <1>6 DEF Byte

LEMMA TextIs ==
  ASSUME NEW m, NEW R, Roomy(m, R)
  PROVE  /\ Text(m) \in Seq(Cells) /\ Len(Text(m)) = m.s.len /\ m.s.len \in Nat
         /\ m.s.cap > 0 => \A i \in 1..m.s.len : Text(m)[i] = Byte(m, i)
<1>1. PICK p : p = At(m.s.buf, 0)
  OBVIOUS
<1>2. p \in Place /\ m.s.len \in Nat /\ IsHeap(m.heap) /\ p.blk = m.s.buf /\ p.off = 0
  BY <1>1, MachineType DEF At
<1>3. Text(m) = Load(m.heap, p, m.s.len)
  BY <1>1 DEF Text
<1>4. Text(m) \in Seq(Cells) /\ Len(Text(m)) = m.s.len
  BY <1>2, <1>3, LoadType
<1>5. ASSUME m.s.cap > 0
      PROVE  \A i \in 1..m.s.len : Text(m)[i] = Byte(m, i)
  <2>1. p.off + m.s.len <= m.s.cap
    BY <1>2, <1>5, OwnBlock
  <2>2. \A i \in 1..m.s.len : Load(m.heap, p, m.s.len)[i] = Byte(m, p.off + i)
    BY <1>2, <1>5, <2>1, OwnLoad
  <2>3. \A i \in 1..m.s.len : p.off + i = i
    BY <1>2
  <2> QED
    BY <1>3, <2>2, <2>3
<1> QED
  BY <1>2, <1>4, <1>5

\* The text is w when the bytes of the buffer are.
LEMMA TextBy ==
  ASSUME NEW m, NEW R, Roomy(m, R), NEW w \in Seq(Cells), m.s.len = Len(w), m.s.cap > 0,
         \A i \in 1..Len(w) : Byte(m, i) = w[i]
  PROVE  Text(m) = w
<1>1. /\ Text(m) \in Seq(Cells) /\ Len(Text(m)) = Len(w)
      /\ \A i \in 1..Len(w) : Text(m)[i] = w[i]
  BY TextIs
<1> QED
  BY <1>1, SameSequence

\* memmove writes the bytes that were at p before.
LEMMA MovedBytes ==
  ASSUME NEW m, NEW R, Roomy(m, R), m.s.cap > 0,
         NEW off \in Nat, NEW p \in Place, NEW n \in Nat, off + n <= m.s.cap,
         NEW f, f = str_move_bytes(m, off, p, n)
  PROVE  /\ Roomy(f, R) /\ f.s = m.s /\ f.ret = m.ret
         /\ \A i \in 1..m.s.cap :
              Byte(f, i) = IF i > off /\ i <= off + n THEN Load(m.heap, p, n)[i - off] ELSE Byte(m, i)
<1>1. PICK w : w = Load(m.heap, p, n)
  OBVIOUS
<1>2. w \in Seq(Cells) /\ Len(w) = n
  BY <1>1, LoadType DEF Roomy, IsMachine
<1>3. f = Store(m, off, w)
  BY <1>1, Zenon DEF str_move_bytes
<1>4. /\ Roomy(Store(m, off, w), R)
      /\ Store(m, off, w).s = m.s /\ Store(m, off, w).ret = m.ret
      /\ \A i \in 1..m.s.cap :
           Store(m, off, w).heap[m.s.buf][i] =
             IF i > off /\ i <= off + Len(w) THEN w[i - off] ELSE m.heap[m.s.buf][i]
  BY <1>2, StoreInside
<1> QED
  BY <1>1, <1>2, <1>3, <1>4 DEF Byte

\* The buffer of m written to, and its string as before.
Writing(m, R, f) ==
  Roomy(m, R) /\ m.s.cap > 0 /\ Roomy(f, R) /\ f.s = m.s /\ f.ret = m.ret

Closed(f, n) == str_write_terminator([f EXCEPT !.s.len = n])

\* The end of a write of n bytes leaves the first n of them.
LEMMA FinishedBytes ==
  ASSUME NEW m, NEW R, NEW f, Writing(m, R, f), NEW n \in Nat, n < m.s.cap,
         NEW o, o = Closed(f, n)
  PROVE  /\ Rewritten(m, R, o, n) /\ o.s.len = n /\ o.s.cap = m.s.cap /\ o.s.status = m.s.status
         /\ \A i \in 1..n : Byte(o, i) = Byte(f, i)
<1> USE DEF Writing
<1>1. Rewritten(m, R, o, n)
  BY EndOfWrite DEF Closed
<1>2. m.s \in StrState /\ m.s.cap \in Nat
  BY MachineType
<1>3. /\ o.s.buf = m.s.buf /\ o.s.len = n /\ o.s.cap = m.s.cap /\ o.s.status = m.s.status
  BY <1>1, <1>2 DEF Rewritten, StrState
<1>4. PICK e : e = [f EXCEPT !.s.len = n]
  OBVIOUS
<1>5. Roomy(e, R) /\ e.s = [f.s EXCEPT !.len = n] /\ e.ret = f.ret /\ e.heap = f.heap
  <2>1. {"heap", "s", "ret"} \subseteq DOMAIN f
    BY DEF Roomy, IsMachine
  <2>2. e.heap = f.heap
    BY <1>4, <2>1
  <2> QED
    BY <1>4, <2>2, LengthSet
<1>6. e.s.buf = m.s.buf /\ e.s.len = n /\ e.s.cap = m.s.cap
  BY <1>2, <1>5 DEF StrState
<1>7. PICK w : w = <<Nul>> /\ w \in Seq(Cells) /\ Len(w) = 1 /\ n + 1 <= e.s.cap
  <2>1. Nul \in Cells
    BY StrApiAssumption DEF Cells
  <2>2. <<Nul>> \in Seq(Cells) /\ Len(<<Nul>>) = 1
    BY <2>1
  <2>3. n + 1 <= e.s.cap
    BY <1>2, <1>6
  <2> QED
    BY <2>2, <2>3
<1>8. \A i \in 1..e.s.cap :
        Store(e, n, w).heap[e.s.buf][i] =
          IF i > n /\ i <= n + Len(w) THEN w[i - n] ELSE e.heap[e.s.buf][i]
  <2>1. e.s.cap > 0 /\ n + Len(w) <= e.s.cap /\ Roomy(e, R) /\ w \in Seq(Cells)
    BY <1>5, <1>6, <1>7
  <2> QED
    BY <2>1, StoreInside
<1>9. o = Store(e, n, w)
  BY <1>4, <1>6, <1>7 DEF str_write_terminator, Closed
<1>10. \A i \in 1..n : i \in 1..e.s.cap /\ ~(i > n)
  BY <1>2, <1>6
<1>11. \A i \in 1..n : o.heap[e.s.buf][i] = e.heap[e.s.buf][i]
  BY <1>8, <1>9, <1>10
<1> QED
  BY <1>1, <1>3, <1>5, <1>6, <1>11 DEF Byte

-----------------------------------------------------------------------------
(* Writing content: the text each write leaves.                             *)

\* A write left the string whole, with text w and its status as it was.
Wrote(m, R, o, w) ==
  /\ Sound(o, R) /\ o.ret = m.ret /\ o.s.status = m.s.status
  /\ w \in Seq(Cells) /\ Text(o) = w

\* The end of a write whose bytes are the text to leave.
LEMMA WroteBy ==
  ASSUME NEW m, NEW R, NEW f, Writing(m, R, f), NEW n \in Nat, n < m.s.cap,
         NEW w \in Seq(Cells), Len(w) = n, \A i \in 1..n : Byte(f, i) = w[i]
  PROVE  Wrote(m, R, Closed(f, n), w)
<1>1. PICK o : o = Closed(f, n)
  OBVIOUS
<1>2. /\ Rewritten(m, R, o, n) /\ o.s.len = n /\ o.s.cap = m.s.cap /\ o.s.status = m.s.status
      /\ \A i \in 1..n : Byte(o, i) = Byte(f, i)
  BY <1>1, FinishedBytes
<1>3. Sound(o, R) /\ o.ret = m.ret
  BY <1>2 DEF Rewritten
<1>4. Roomy(o, R) /\ o.s.cap > 0 /\ o.s.len = Len(w) /\ \A i \in 1..Len(w) : Byte(o, i) = w[i]
  BY <1>2, <1>3 DEF Sound, Writing
<1>5. Text(o) = w
  BY <1>4, TextBy
<1> QED
  BY <1>1, <1>2, <1>3, <1>5 DEF Wrote

LEMMA ClearedText ==
  ASSUME NEW m, NEW R, Roomy(m, R)
  PROVE  Wrote(m, R, str_clear_content(m), <<>>)
<1>1. PICK o : o = str_clear_content(m)
  OBVIOUS
<1>2. Sound(o, R) /\ o.s = [m.s EXCEPT !.len = 0] /\ o.ret = m.ret
  BY <1>1, ContentCleared DEF Rewritten
<1>3. m.s \in StrState
  BY MachineType
<1>4. o.s.len = 0 /\ o.s.status = m.s.status
  BY <1>2, <1>3 DEF StrState
<1>5. Text(o) \in Seq(Cells) /\ Len(Text(o)) = 0
  BY <1>2, <1>4, TextIs DEF Sound
<1>6. Text(o) = <<>>
  BY <1>5
<1> QED
  BY <1>1, <1>2, <1>4, <1>5, <1>6 DEF Wrote

LEMMA ReplacedText ==
  ASSUME NEW m, NEW R, Roomy(m, R), m.s.cap > 0, NEW p \in Place, NEW n \in Nat, n < m.s.cap
  PROVE  Wrote(m, R, str_replace_content(m, p, n), Load(m.heap, p, n))
<1>1. PICK f : f = str_move_bytes(m, 0, p, n)
  OBVIOUS
<1>2. PICK w : w = Load(m.heap, p, n)
  OBVIOUS
<1>3. w \in Seq(Cells) /\ Len(w) = n /\ m.s.cap \in Nat
  BY <1>2, LoadType, MachineType
<1>4. /\ Roomy(f, R) /\ f.s = m.s /\ f.ret = m.ret
      /\ \A i \in 1..m.s.cap : Byte(f, i) = IF i > 0 /\ i <= 0 + n THEN w[i - 0] ELSE Byte(m, i)
  <2>1. 0 \in Nat /\ 0 + n <= m.s.cap
    BY <1>3
  <2> QED
    BY <1>1, <1>2, <2>1, MovedBytes
<1>5. \A i \in 1..n : Byte(f, i) = w[i]
  <2> TAKE i \in 1..n
  <2>1. i \in 1..m.s.cap /\ i > 0 /\ i <= 0 + n /\ i - 0 = i
    BY <1>3
  <2> QED
    BY <1>4, <2>1
<1>6. Wrote(m, R, Closed(f, n), w)
  BY <1>3, <1>4, <1>5, WroteBy DEF Writing
<1> QED
  BY <1>1, <1>2, <1>6, Zenon DEF str_replace_content, Closed

LEMMA AppendedText ==
  ASSUME NEW m, NEW R, Roomy(m, R), m.s.cap > 0, NEW p \in Place, NEW n \in Nat,
         m.s.len + n < m.s.cap
  PROVE  Wrote(m, R, str_append_content(m, p, n), Text(m) \o Load(m.heap, p, n))
<1>1. PICK f : f = str_move_bytes(m, m.s.len, p, n)
  OBVIOUS
<1>2. PICK w : w = Load(m.heap, p, n)
  OBVIOUS
<1>3. PICK len, cap : len = m.s.len /\ cap = m.s.cap /\ len \in Nat /\ cap \in Nat /\ len + n < cap
  BY MachineType
<1>4. w \in Seq(Cells) /\ Len(w) = n
  BY <1>2, LoadType, MachineType
<1>5. /\ Roomy(f, R) /\ f.s = m.s /\ f.ret = m.ret
      /\ \A i \in 1..cap : Byte(f, i) = IF i > len /\ i <= len + n THEN w[i - len] ELSE Byte(m, i)
  <2>1. len + n <= m.s.cap
    BY <1>3
  <2> QED
    BY <1>1, <1>2, <1>3, <2>1, MovedBytes
<1>6. PICK v : v = Text(m) /\ v \in Seq(Cells) /\ Len(v) = len /\ \A i \in 1..len : v[i] = Byte(m, i)
  BY <1>3, TextIs
<1>7. PICK u : /\ u = v \o w /\ u \in Seq(Cells) /\ Len(u) = len + n
               /\ \A i \in 1..(len + n) : u[i] = IF i <= len THEN v[i] ELSE w[i - len]
  <2>1. /\ v \o w \in Seq(Cells) /\ Len(v \o w) = Len(v) + Len(w)
        /\ \A i \in 1..(Len(v) + Len(w)) : (v \o w)[i] = IF i <= Len(v) THEN v[i] ELSE w[i - Len(v)]
    BY <1>4, <1>6, JoinedIs
  <2> QED
    BY <1>4, <1>6, <2>1
<1>8. \A i \in 1..(len + n) : Byte(f, i) = u[i]
  <2> TAKE i \in 1..(len + n)
  <2>1. i \in 1..cap
    BY <1>3
  <2>2. CASE i <= len
    BY <1>3, <1>5, <1>6, <1>7, <2>1, <2>2
  <2>3. CASE i > len
    <3>1. i > len /\ i <= len + n /\ ~(i <= len)
      BY <1>3, <2>3
    <3>2. Byte(f, i) = w[i - len]
      BY <1>5, <2>1, <3>1
    <3>3. u[i] = w[i - len]
      BY <1>7, <3>1
    <3> QED
      BY <3>2, <3>3
  <2> QED
    BY <1>3, <2>2, <2>3
<1>9. Wrote(m, R, Closed(f, len + n), u)
  <2>1. Writing(m, R, f)
    BY <1>5 DEF Writing
  <2>2. len + n \in Nat /\ len + n < m.s.cap
    BY <1>3
  <2> QED
    BY <1>7, <1>8, <2>1, <2>2, WroteBy
<1>10. str_append_content(m, p, n) = Closed(f, len + n)
  BY <1>1, <1>3, <1>5, Zenon DEF str_append_content, Closed
<1> QED
  BY <1>2, <1>6, <1>7, <1>9, <1>10

LEMMA ExtendedText ==
  ASSUME NEW m, NEW R, Roomy(m, R), m.s.cap > 0, NEW n \in Nat, NEW byte \in Bytes,
         m.s.len < n, n < m.s.cap
  PROVE  Wrote(m, R, str_extend_content(m, n, byte),
               [i \in 1..n |-> IF i <= m.s.len THEN Text(m)[i] ELSE byte])
<1>1. PICK len, cap, k : /\ len = m.s.len /\ cap = m.s.cap /\ k = n - len
                         /\ len \in Nat /\ cap \in Nat /\ k \in Nat /\ len < n /\ n < cap
  BY MachineType
<1>2. PICK w : w = [i \in 1..k |-> byte]
  OBVIOUS
<1>3. w \in Seq(Cells) /\ Len(w) = k /\ \A i \in 1..k : w[i] = byte
  BY <1>1, <1>2 DEF Cells
<1>4. PICK f : f = Store(m, len, w)
  OBVIOUS
<1>5. /\ Roomy(f, R) /\ f.s = m.s /\ f.ret = m.ret
      /\ \A i \in 1..cap : Byte(f, i) = IF i > len /\ i <= len + k THEN w[i - len] ELSE Byte(m, i)
  <2>1. len + Len(w) <= m.s.cap
    <3>1. len + k = n /\ n <= m.s.cap
      BY <1>1
    <3> QED
      BY <1>3, <3>1
  <2>2. /\ Roomy(Store(m, len, w), R)
        /\ Store(m, len, w).s = m.s /\ Store(m, len, w).ret = m.ret
        /\ \A i \in 1..m.s.cap :
             Store(m, len, w).heap[m.s.buf][i] =
               IF i > len /\ i <= len + Len(w) THEN w[i - len] ELSE m.heap[m.s.buf][i]
    BY <1>1, <1>3, <2>1, StoreInside
  <2> QED
    BY <1>1, <1>3, <1>4, <2>2 DEF Byte
<1>6. PICK v : v = Text(m) /\ v \in Seq(Cells) /\ Len(v) = len /\ \A i \in 1..len : v[i] = Byte(m, i)
  BY <1>1, TextIs
<1>7. PICK u : u = [i \in 1..n |-> IF i <= len THEN v[i] ELSE byte]
  OBVIOUS
<1>8. u \in Seq(Cells) /\ Len(u) = n
  <2>1. \A i \in 1..n : (IF i <= len THEN v[i] ELSE byte) \in Cells
    BY <1>1, <1>6 DEF Cells
  <2>2. u \in [1..n -> Cells]
    BY <1>7, <2>1, Zenon
  <2> QED
    BY <1>7, <2>2
<1>9. \A i \in 1..n : Byte(f, i) = u[i]
  <2> TAKE i \in 1..n
  <2>1. i \in 1..cap /\ u[i] = IF i <= len THEN v[i] ELSE byte
    BY <1>1, <1>7
  <2>2. CASE i <= len
    BY <1>1, <1>5, <1>6, <2>1, <2>2
  <2>3. CASE i > len
    <3>1. i - len \in 1..k /\ i <= len + k
      BY <1>1, <2>3
    <3> QED
      <4>1. Byte(f, i) = w[i - len]
        BY <1>5, <2>1, <2>3, <3>1
      <4>2. w[i - len] = byte
        BY <1>3, <3>1
      <4>3. u[i] = byte
        BY <1>1, <2>1, <2>3
      <4> QED
        BY <4>1, <4>2, <4>3
  <2> QED
    BY <1>1, <2>2, <2>3
<1>10. Wrote(m, R, Closed(f, n), u)
  <2>1. Writing(m, R, f) /\ n < m.s.cap
    BY <1>1, <1>5 DEF Writing
  <2> QED
    BY <1>8, <1>9, <2>1, WroteBy
<1>11. str_extend_content(m, n, byte) = Closed(f, n)
  BY <1>1, <1>2, <1>4, Zenon DEF str_extend_content, Closed
<1> QED
  BY <1>1, <1>6, <1>7, <1>10, <1>11

-----------------------------------------------------------------------------
(* Writes in the middle: the tail moves, then the gap is filled.            *)

\* The tail behind the k bytes from idx, with its terminator, leaves room for n.
Parted(m, idx, k, n) ==
  str_move_bytes(m, idx + n, At(m.s.buf, idx + k), ((m.s.len - idx) - k) + 1)

Fits(m, idx, k, n) ==
  idx \in Nat /\ k \in Nat /\ n \in Nat /\ idx + k <= m.s.len /\ (m.s.len - k) + n < m.s.cap

LEMMA PartedBytes ==
  ASSUME NEW m, NEW R, Roomy(m, R), m.s.cap > 0, NEW idx, NEW k, NEW n, Fits(m, idx, k, n),
         NEW t, t = Parted(m, idx, k, n)
  PROVE  /\ Writing(m, R, t)
         /\ \A i \in 1..m.s.cap :
              Byte(t, i) = IF i > idx + n /\ i <= (m.s.len - k) + n + 1 THEN Byte(m, (i - n) + k)
                           ELSE Byte(m, i)
<1>1. PICK len, cap, rest, p :
        /\ len = m.s.len /\ cap = m.s.cap /\ len \in Nat /\ cap \in Nat /\ len < cap
        /\ rest = ((len - idx) - k) + 1 /\ p = At(m.s.buf, idx + k)
  BY OwnBlock
<1>2. /\ idx \in Nat /\ k \in Nat /\ n \in Nat /\ idx + k <= len /\ (len - k) + n < cap
      /\ rest \in Nat /\ idx + n \in Nat /\ idx + k \in Nat
      /\ (idx + n) + rest = (len - k) + n + 1 /\ (idx + n) + rest <= cap
      /\ (idx + k) + rest = len + 1 /\ (idx + k) + rest <= cap
  BY <1>1 DEF Fits
<1>3. p \in Place /\ p.blk = m.s.buf /\ p.off = idx + k
  BY <1>1, <1>2, MachineType DEF At
<1>4. t = str_move_bytes(m, idx + n, p, rest)
  BY <1>1, Zenon DEF Parted
<1>5. /\ Roomy(t, R) /\ t.s = m.s /\ t.ret = m.ret
      /\ \A i \in 1..m.s.cap :
           Byte(t, i) = IF i > idx + n /\ i <= (idx + n) + rest
                        THEN Load(m.heap, p, rest)[i - (idx + n)] ELSE Byte(m, i)
  BY <1>1, <1>2, <1>3, <1>4, MovedBytes
<1>6. \A j \in 1..rest : Load(m.heap, p, rest)[j] = Byte(m, p.off + j)
  BY <1>1, <1>2, <1>3, OwnLoad
<1>7. ASSUME NEW i \in 1..m.s.cap
      PROVE  Byte(t, i) = IF i > idx + n /\ i <= (m.s.len - k) + n + 1 THEN Byte(m, (i - n) + k)
                          ELSE Byte(m, i)
  <2>1. CASE i > idx + n /\ i <= (idx + n) + rest
    <3>1. PICK j \in 1..rest : j = i - (idx + n) /\ p.off + j = (i - n) + k
      BY <1>1, <1>2, <1>3, <2>1
    <3>2. Byte(t, i) = Load(m.heap, p, rest)[j]
      BY <1>5, <2>1, <3>1
    <3>3. Load(m.heap, p, rest)[j] = Byte(m, (i - n) + k)
      BY <1>6, <3>1
    <3> QED
      BY <1>1, <1>2, <2>1, <3>2, <3>3
  <2>2. CASE ~(i > idx + n /\ i <= (idx + n) + rest)
    <3>1. Byte(t, i) = Byte(m, i)
      BY <1>5, <2>2
    <3> QED
      BY <1>1, <1>2, <2>2, <3>1
  <2> QED
    BY <2>1, <2>2
<1> QED
  BY <1>5, <1>7 DEF Writing

\* The gap of t filled with w.
Filled(m, R, t, f, idx, w) ==
  /\ Writing(m, R, f)
  /\ \A i \in 1..m.s.cap :
       Byte(f, i) = IF i > idx /\ i <= idx + Len(w) THEN w[i - idx] ELSE Byte(t, i)

LEMMA SplicedText ==
  ASSUME NEW m, NEW R, Roomy(m, R), m.s.cap > 0, NEW idx, NEW k, NEW w \in Seq(Cells),
         Fits(m, idx, k, Len(w)), NEW f, Filled(m, R, Parted(m, idx, k, Len(w)), f, idx, w)
  PROVE  Wrote(m, R, Closed(f, (m.s.len - k) + Len(w)), Value!Spliced(Text(m), idx, k, w))
<1>1. PICK len, cap, n, new :
        /\ len = m.s.len /\ cap = m.s.cap /\ len \in Nat /\ cap \in Nat /\ len < cap
        /\ n = Len(w) /\ n \in Nat /\ new = (len - k) + n
  <2>1. Len(w) \in Nat
    OBVIOUS
  <2> QED
    BY <2>1, OwnBlock
<1>2. /\ idx \in Nat /\ k \in Nat /\ idx + k <= len /\ new < cap /\ new \in Nat
  BY <1>1 DEF Fits
<1>3. PICK t : t = Parted(m, idx, k, n)
  OBVIOUS
<1>4. \A i \in 1..cap :
        Byte(t, i) = IF i > idx + n /\ i <= new + 1 THEN Byte(m, (i - n) + k) ELSE Byte(m, i)
  BY <1>1, <1>3, PartedBytes
<1>5. /\ Writing(m, R, f)
      /\ \A i \in 1..cap : Byte(f, i) = IF i > idx /\ i <= idx + n THEN w[i - idx] ELSE Byte(t, i)
  BY <1>1, <1>3 DEF Filled
<1>6. PICK v : v = Text(m) /\ v \in Seq(Cells) /\ Len(v) = len /\ \A i \in 1..len : v[i] = Byte(m, i)
  BY <1>1, TextIs
<1>7. PICK u : /\ u = Value!Spliced(v, idx, k, w) /\ u \in Seq(Cells) /\ Len(u) = new
               /\ \A i \in 1..new :
                    u[i] = IF i <= idx THEN v[i] ELSE IF i <= idx + n THEN w[i - idx] ELSE v[(i - n) + k]
  <2>1. PICK u : u = Value!Spliced(v, idx, k, w)
    OBVIOUS
  <2>2. SplicedAs(Cells, u, v, idx, k, w)
    <3>1. idx \in Nat /\ k \in Nat /\ idx + k <= Len(v) /\ v \in Seq(Cells) /\ w \in Seq(Cells)
      BY <1>2, <1>6
    <3> QED
      BY <2>1, <3>1, SplicedIs
  <2>3. (Len(v) - k) + Len(w) = new /\ Len(w) = n
    BY <1>1, <1>6
  <2>4. /\ u \in Seq(Cells) /\ Len(u) = new
        /\ \A i \in 1..new :
             u[i] = IF i <= idx THEN v[i] ELSE IF i <= idx + n THEN w[i - idx] ELSE v[(i - n) + k]
    BY <2>2, <2>3, Zenon DEF SplicedAs
  <2> QED
    BY <2>1, <2>4
<1>8. ASSUME NEW i \in 1..new
      PROVE  Byte(f, i) = u[i]
  <2>1. i \in 1..cap /\ i <= new /\ i \in Nat /\ i > 0
    BY <1>1, <1>2, <1>8, SMTT(30)
  <2>2. CASE i <= idx
    <3>1. ~(i > idx)
      BY <1>2, <2>1, <2>2
    <3>2. Byte(f, i) = Byte(t, i)
      BY <1>5, <2>1, <3>1
    <3>3. Byte(t, i) = Byte(m, i)
      BY <1>1, <1>2, <1>4, <2>1, <2>2, SMTT(30)
    <3>4. Byte(m, i) = v[i]
      BY <1>1, <1>2, <1>6, <2>2, SMTT(30)
    <3> QED
      BY <1>7, <2>2, <3>2, <3>3, <3>4
  <2>3. CASE i > idx /\ i <= idx + n
    <3>1. Byte(f, i) = w[i - idx]
      BY <1>5, <2>1, <2>3
    <3>2. ~(i <= idx)
      BY <1>2, <2>3
    <3> QED
      BY <1>7, <2>3, <3>1, <3>2
  <2>4. CASE i > idx + n
    <3>1. ~(i <= idx) /\ ~(i <= idx + n) /\ i <= new + 1
      BY <1>1, <1>2, <2>4, SMTT(30)
    <3>2. Byte(f, i) = Byte(t, i)
      BY <1>5, <2>1, <3>1
    <3>3. Byte(t, i) = Byte(m, (i - n) + k)
      BY <1>4, <2>1, <2>4, <3>1
    <3>4. (i - n) + k \in 1..len
      BY <1>1, <1>2, <2>1, <2>4, SMTT(30)
    <3>5. v[(i - n) + k] = Byte(m, (i - n) + k)
      BY <1>6, <3>4
    <3>6. u[i] = v[(i - n) + k]
      BY <1>7, <3>1
    <3> QED
      BY <3>2, <3>3, <3>5, <3>6
  <2> QED
    BY <1>1, <1>2, <2>2, <2>3, <2>4
<1>9. Wrote(m, R, Closed(f, new), u)
  <2>1. new < m.s.cap
    BY <1>1, <1>2
  <2> QED
    BY <1>2, <1>5, <1>7, <1>8, <2>1, WroteBy
<1> QED
  BY <1>1, <1>6, <1>7, <1>9

\* A copy of n bytes from p fills the gap.
LEMMA FilledFrom ==
  ASSUME NEW m, NEW R, Roomy(m, R), m.s.cap > 0, NEW idx, NEW k, NEW n, Fits(m, idx, k, n),
         NEW t, t = Parted(m, idx, k, n), NEW p \in Place, NEW w, w = Load(t.heap, p, n),
         NEW f, f = str_move_bytes(t, idx, p, n)
  PROVE  Filled(m, R, t, f, idx, w) /\ w \in Seq(Cells) /\ Len(w) = n
<1>1. Writing(m, R, t)
  BY PartedBytes
<1>2. /\ Roomy(t, R) /\ t.s = m.s /\ t.ret = m.ret /\ t.s.cap > 0
      /\ idx \in Nat /\ n \in Nat /\ idx + n <= t.s.cap
  <2>1. m.s.len \in Nat /\ m.s.cap \in Nat
    BY OwnBlock
  <2> QED
    BY <1>1, <2>1 DEF Writing, Fits
<1>3. w \in Seq(Cells) /\ Len(w) = n
  BY <1>2, LoadType, MachineType
<1>4. /\ Roomy(f, R) /\ f.s = t.s /\ f.ret = t.ret
      /\ \A i \in 1..t.s.cap : Byte(f, i) = IF i > idx /\ i <= idx + n THEN w[i - idx] ELSE Byte(t, i)
  BY <1>2, MovedBytes
<1>5. Writing(m, R, f)
  BY <1>1, <1>2, <1>4 DEF Writing
<1> QED
  BY <1>2, <1>3, <1>4, <1>5 DEF Filled

LEMMA GapText ==
  ASSUME NEW m, NEW R, Roomy(m, R), m.s.cap > 0, NEW n \in Nat, NEW idx \in Nat,
         idx + n <= m.s.len
  PROVE  Wrote(m, R, str_close_gap(m, idx, n), Value!Spliced(Text(m), idx, n, <<>>))
<1>1. PICK len, w, t : /\ len = m.s.len /\ len \in Nat /\ len < m.s.cap /\ m.s.cap \in Nat
                       /\ w = <<>> /\ w \in Seq(Cells) /\ Len(w) = 0 /\ t = Parted(m, idx, n, 0)
  <2>1. <<>> \in Seq(Cells) /\ Len(<<>>) = 0
    OBVIOUS
  <2> QED
    BY <2>1, OwnBlock
<1>2. Fits(m, idx, n, 0)
  BY <1>1 DEF Fits
<1>3. Writing(m, R, t)
  BY <1>1, <1>2, PartedBytes
<1>4. Filled(m, R, t, t, idx, w)
  BY <1>1, <1>3 DEF Filled
<1>5. Wrote(m, R, Closed(t, (len - n) + 0), Value!Spliced(Text(m), idx, n, w))
  BY <1>1, <1>2, <1>4, SplicedText
<1>6. t.s.len = len /\ idx + 0 = idx /\ (len - n) + 0 = len - n
  BY <1>1, <1>3 DEF Writing
<1>7. t = str_move_bytes(m, idx, At(m.s.buf, idx + n), ((len - idx) - n) + 1)
  BY <1>1, <1>6 DEF Parted
<1>8. str_close_gap(m, idx, n) = Closed(t, len - n)
  BY <1>1, <1>6, <1>7, Zenon DEF str_close_gap, Closed
<1> QED
  BY <1>1, <1>5, <1>6, <1>8

LEMMA InsertedText ==
  ASSUME NEW m, NEW R, Roomy(m, R), m.s.cap > 0, NEW idx, NEW n, Fits(m, idx, 0, n), NEW p \in Place,
         NEW w, w = Load(Parted(m, idx, 0, n).heap, p, n)
  PROVE  Wrote(m, R, str_commit_insert(m, idx, p, n), Value!Spliced(Text(m), idx, 0, w))
<1>1. PICK len, t, f : /\ len = m.s.len /\ len \in Nat /\ idx \in Nat /\ n \in Nat
                       /\ t = Parted(m, idx, 0, n) /\ f = str_move_bytes(t, idx, p, n)
  BY OwnBlock DEF Fits
<1>2. Filled(m, R, t, f, idx, w) /\ w \in Seq(Cells) /\ Len(w) = n
  BY <1>1, FilledFrom
<1>3. Wrote(m, R, Closed(f, (len - 0) + n), Value!Spliced(Text(m), idx, 0, w))
  BY <1>1, <1>2, SplicedText
<1>4. f.s.len = len /\ idx + 0 = idx /\ (len - 0) + n = len + n /\ ((len - idx) - 0) + 1 = (len - idx) + 1
  BY <1>1, <1>2 DEF Filled, Writing
<1>5. t = str_move_bytes(m, idx + n, At(m.s.buf, idx), (len - idx) + 1)
  BY <1>1, <1>4 DEF Parted
<1>6. str_commit_insert(m, idx, p, n) = Closed(f, len + n)
  BY <1>1, <1>4, <1>5, Zenon DEF str_commit_insert, Closed
<1> QED
  BY <1>3, <1>4, <1>6

LEMMA ReplacementText ==
  ASSUME NEW m, NEW R, Roomy(m, R), m.s.cap > 0, NEW idx, NEW k, NEW n, Fits(m, idx, k, n),
         NEW p \in Place, NEW w, w = Load(Parted(m, idx, k, n).heap, p, n)
  PROVE  Wrote(m, R, str_commit_replacement(m, idx, k, p, n), Value!Spliced(Text(m), idx, k, w))
<1>1. PICK len, t, f : /\ len = m.s.len
                       /\ t = Parted(m, idx, k, n) /\ f = str_move_bytes(t, idx, p, n)
  OBVIOUS
<1>2. Filled(m, R, t, f, idx, w) /\ w \in Seq(Cells) /\ Len(w) = n
  BY <1>1, FilledFrom
<1>3. Wrote(m, R, Closed(f, (len - k) + n), Value!Spliced(Text(m), idx, k, w))
  BY <1>1, <1>2, SplicedText
<1>4. f.s.len = len
  BY <1>1, <1>2 DEF Filled, Writing
<1>5. str_commit_replacement(m, idx, k, p, n) = Closed(f, (len - k) + n)
  BY <1>1, <1>4, Zenon DEF str_commit_replacement, Closed, Parted
<1> QED
  BY <1>3, <1>5

-----------------------------------------------------------------------------
(* Where the source of a write lies.                                        *)

Outside(R, p) == p.blk = CALLER \/ p.blk = NULL \/ p.blk \in DOMAIN R

Inside(m, p, n) == m.s.cap > 0 /\ p.blk = m.s.buf /\ p.off + n <= m.s.len + 1

\* A pointer a call may be given: elsewhere, or somewhere in the allocation.
Aimed(m, R, p) ==
  Outside(R, p) \/ (m.s.cap > 0 /\ p.blk = m.s.buf /\ p.off < m.s.cap)

\* n bytes from p reach beyond the terminator of the string they lie in.
Overlaps(m, p, n) ==
  n > 0 /\ str_find_allocation_offset(m.s, p) /\ (p.off > m.s.len \/ n > (m.s.len - p.off) + 1)

LEMMA NoBytes ==
  ASSUME NEW h, IsHeap(h), NEW p \in Place
  PROVE  Load(h, p, 0) = <<>>
<1>1. Load(h, p, 0) \in Seq(Cells) /\ Len(Load(h, p, 0)) = 0
  BY LoadType
<1> QED
  BY <1>1

LEMMA OutsideLoad ==
  ASSUME NEW m, NEW R, Roomy(m, R), NEW e, Roomy(e, R), NEW p \in Place, Outside(R, p), NEW n
  PROVE  Load(e.heap, p, n) = Load(m.heap, p, n) /\ ~str_find_allocation_offset(m.s, p)
<1>1. PICK h, g : h = m.heap /\ g = e.heap
  OBVIOUS
<1>2. /\ IsHeap(h) /\ IsHeap(g) /\ m.s.buf \in Nat /\ m.s.buf \notin DOMAIN R
      /\ \A b \in DOMAIN R : b \in DOMAIN h /\ h[b] = R[b] /\ b \in DOMAIN g /\ g[b] = R[b]
  BY <1>1, MachineType DEF Roomy
<1>3. NULL \notin DOMAIN h /\ NULL \notin DOMAIN g /\ CALLER \notin DOMAIN h /\ CALLER \notin DOMAIN g
  BY <1>2 DEF IsHeap, CALLER
<1>4. ~str_find_allocation_offset(m.s, p)
  BY <1>2 DEF str_find_allocation_offset, Outside, CALLER
<1>5. CASE p.blk = CALLER
  BY <1>1, <1>3, <1>4, <1>5 DEF Load
<1>6. CASE p.blk = NULL
  BY <1>1, <1>3, <1>4, <1>6 DEF Load
<1>7. CASE p.blk \in DOMAIN R
  BY <1>1, <1>2, <1>3, <1>4, <1>7 DEF Load
<1> QED
  BY <1>5, <1>6, <1>7 DEF Outside

LEMMA InsideFound ==
  ASSUME NEW m, NEW R, Roomy(m, R), NEW p \in Place, NEW n \in Nat, n > 0, Inside(m, p, n)
  PROVE  str_find_allocation_offset(m.s, p)
<1>1. m.s.buf \in Nat \ {NULL} /\ m.s.len \in Nat /\ m.s.cap \in Nat /\ m.s.len < m.s.cap
  BY OwnBlock DEF Inside
<1>2. p.off \in Nat
  BY DEF Place
<1> QED
  BY <1>1, <1>2 DEF str_find_allocation_offset, Inside

LEMMA AimedReads ==
  ASSUME NEW m, NEW R, Roomy(m, R), NEW p \in Place, Aimed(m, R, p), NEW n \in Nat, n > 0
  PROVE  /\ ~Overlaps(m, p, n) => Outside(R, p) \/ Inside(m, p, n)
         /\ Outside(R, p) => ~Overlaps(m, p, n)
<1>1. Outside(R, p) => ~Overlaps(m, p, n)
  BY OutsideLoad DEF Overlaps
<1>2. CASE m.s.cap > 0 /\ p.blk = m.s.buf /\ p.off < m.s.cap
  <2>1. m.s.buf \in Nat \ {NULL} /\ m.s.len \in Nat /\ m.s.cap \in Nat /\ m.s.len < m.s.cap
    BY <1>2, OwnBlock
  <2>2. p.off \in Nat
    BY DEF Place
  <2>3. str_find_allocation_offset(m.s, p)
    BY <1>2, <2>1 DEF str_find_allocation_offset
  <2>4. ~Overlaps(m, p, n) => p.off + n <= m.s.len + 1
    BY <2>1, <2>2, <2>3 DEF Overlaps
  <2> QED
    BY <1>1, <1>2, <2>4 DEF Inside
<1> QED
  BY <1>1, <1>2 DEF Aimed

-----------------------------------------------------------------------------
(* A larger buffer holds the same text.                                     *)

SameText(m, e) ==
  /\ e.s.len = m.s.len /\ e.s.status = m.s.status
  /\ m.s.cap > 0 => e.s.cap > 0 /\ \A i \in 1..(m.s.len + 1) : Byte(e, i) = Byte(m, i)

LEMMA ReallocBytes ==
  ASSUME NEW h, IsHeap(h), NEW b, NEW n \in Nat, NEW a \in Realloc(h, b, n)
  PROVE  \A i \in 1..n : i <= Len(h[b]) => a.heap[a.buf][i] = h[b][i]
<1>1. PICK bytes : bytes = [i \in 1..n |-> IF i <= Len(h[b]) THEN h[b][i] ELSE Junk]
  OBVIOUS
<1>2. PICK g, c : a = [heap |-> Placed(g, c, bytes), buf |-> c]
  BY <1>1 DEF Realloc
<1>3. Placed(g, c, bytes)[c] = bytes
  BY DEF Placed
<1>4. a.heap = Placed(g, c, bytes) /\ a.buf = c
  BY <1>2
<1>5. a.heap[a.buf] = bytes
  BY <1>3, <1>4
<1> QED
  BY <1>1, <1>5

LEMMA GrownText ==
  ASSUME NEW m, NEW R, Sound(m, R), m.ret = "OK", NEW need \in 1..SizeMax,
         NEW e \in str_ensure_capacity(m, need), e.ret = "OK"
  PROVE  SameText(m, e)
<1>1. m.s.cap \in Nat /\ m.s.len \in Nat /\ (m.s.cap > 0 => m.s.len < m.s.cap) /\ Roomy(m, R)
  BY MachineType DEF Sound
<1>2. CASE need <= m.s.cap
  <2>1. e = m
    BY <1>2, Zenon DEF str_ensure_capacity
  <2> QED
    BY <1>1, <2>1 DEF SameText
<1>3. CASE ~(need <= m.s.cap)
  <2>1. PICK n : n = str_choose_capacity(m.s.cap, need)
    OBVIOUS
  <2>2. n \in 1..SizeMax /\ n >= need /\ n \in Nat /\ n > m.s.cap
    <3>1. n \in 1..SizeMax /\ n >= need
      BY <2>1, ChosenCapacity
    <3> QED
      BY <1>1, <1>3, <3>1, StrApiAssumption
  <2>3. \/ e = With(m, "ERR_ALLOC")
        \/ \E a \in str_expand_heap(m, n) : e = Rehoused(m, a, n)
    BY <1>3, <2>1 DEF str_ensure_capacity, Rehoused
  <2>4. e # With(m, "ERR_ALLOC")
    <3>1. With(m, "ERR_ALLOC").ret = "ERR_ALLOC"
      BY Checked, StatusNames
    <3> QED
      BY <3>1
  <2>5. PICK a \in str_expand_heap(m, n) : e = Rehoused(m, a, n)
    BY <2>3, <2>4
  <2>6. Moved(m, R, a, n)
    BY <2>2, HeapExpanded
  <2>7. m.s.len < n
    <3>1. m.s.cap = 0 => m.s.len = 0
      BY <1>1 DEF Roomy
    <3> QED
      BY <1>1, <2>2, <3>1
  <2>8. e.heap = a.heap /\ e.s.buf = a.buf /\ e.s.len = m.s.len /\ e.s.cap = n /\ e.s.status = m.s.status
    <3>1. e.heap = a.heap /\ e.s.buf = a.buf
      BY <2>2, <2>5, <2>6, <2>7, BufferMoved
    <3>2. e.s.len = m.s.len /\ e.s.cap = n /\ e.s.status = m.s.status
      BY <2>2, <2>5, <2>6, <2>7, BufferMoved
    <3> QED
      BY <3>1, <3>2
  <2>9. ASSUME m.s.cap > 0
        PROVE  \A i \in 1..(m.s.len + 1) : Byte(e, i) = Byte(m, i)
    <3>1. a \in Realloc(m.heap, m.s.buf, n)
      BY <2>9, Zenon DEF str_expand_heap, str_is_owned
    <3>2. Len(m.heap[m.s.buf]) = m.s.cap /\ IsHeap(m.heap)
      BY <1>1, <2>9, OwnBlock, MachineType
    <3>3. \A i \in 1..n : i <= Len(m.heap[m.s.buf]) => a.heap[a.buf][i] = m.heap[m.s.buf][i]
      BY <2>2, <3>1, <3>2, ReallocBytes
    <3>4. \A i \in 1..(m.s.len + 1) : i \in 1..n /\ i <= m.s.cap
      BY <1>1, <2>2, <2>9
    <3> QED
      BY <2>8, <3>2, <3>3, <3>4 DEF Byte
  <2> QED
    BY <1>1, <2>2, <2>8, <2>9 DEF SameText
<1> QED
  BY <1>2, <1>3

LEMMA SameTextHeld ==
  ASSUME NEW m, NEW R, Roomy(m, R), NEW e, Roomy(e, R), SameText(m, e)
  PROVE  Text(e) = Text(m)
<1>1. PICK len, v, w : /\ len = m.s.len /\ v = Text(m) /\ w = Text(e) /\ len \in Nat
                       /\ v \in Seq(Cells) /\ w \in Seq(Cells) /\ Len(v) = len /\ Len(w) = len
  BY TextIs DEF SameText
<1>2. CASE m.s.cap > 0
  <2>1. \A i \in 1..len : v[i] = Byte(m, i)
    BY <1>1, <1>2, TextIs
  <2>2. \A i \in 1..len : w[i] = Byte(e, i)
    <3>1. e.s.cap > 0 /\ e.s.len = len
      BY <1>1, <1>2 DEF SameText
    <3> QED
      BY <1>1, <3>1, TextIs
  <2>3. \A i \in 1..len : Byte(e, i) = Byte(m, i)
    BY <1>1, <1>2 DEF SameText
  <2>4. \A i \in 1..Len(v) : v[i] = w[i]
    BY <1>1, <2>1, <2>2, <2>3
  <2> QED
    BY <1>1, <2>4, SameSequence
<1>3. CASE m.s.cap = 0
  <2>1. len = 0
    BY <1>1, <1>3 DEF Roomy
  <2> QED
    BY <1>1, <2>1
<1> QED
  BY <1>2, <1>3, MachineType

\* The source where it is after the buffer moved reads the same.
LEMMA RebasedLoad ==
  ASSUME NEW m, NEW R, Roomy(m, R), NEW e, Roomy(e, R), SameText(m, e), NEW p \in Place,
         NEW n \in Nat, n > 0, Outside(R, p) \/ Inside(m, p, n), NEW q, q = Rebased(m.s, e.s, p)
  PROVE  /\ q \in Place /\ q.off = p.off /\ Load(e.heap, q, n) = Load(m.heap, p, n)
         /\ Outside(R, p) => q = p
         /\ Inside(m, p, n) => Inside(e, q, n) /\ q = [p EXCEPT !.blk = e.s.buf]
<1>1. q \in Place
  BY RebasedPlace, MachineType
<1>2. CASE Outside(R, p)
  <2>1. ~str_find_allocation_offset(m.s, p) /\ Load(e.heap, p, n) = Load(m.heap, p, n)
    BY <1>2, OutsideLoad
  <2>2. q = p
    BY <2>1 DEF Rebased
  <2>3. ~Inside(m, p, n)
    BY <2>1, InsideFound
  <2> QED
    BY <1>1, <2>1, <2>2, <2>3
<1>3. CASE Inside(m, p, n)
  <2>1. ~Outside(R, p) /\ str_find_allocation_offset(m.s, p)
    BY <1>3, InsideFound, OutsideLoad
  <2>2. q = [p EXCEPT !.blk = e.s.buf]
    BY <2>1 DEF Rebased
  <2>3. q.blk = e.s.buf /\ q.off = p.off /\ p.off \in Nat
    BY <2>2 DEF Place
  <2>4. /\ m.s.cap > 0 /\ p.blk = m.s.buf /\ p.off + n <= m.s.len + 1 /\ e.s.len = m.s.len /\ e.s.cap > 0
        /\ \A i \in 1..(m.s.len + 1) : Byte(e, i) = Byte(m, i)
    BY <1>3 DEF Inside, SameText
  <2>5. /\ m.s.len \in Nat /\ m.s.len < m.s.cap /\ m.s.cap \in Nat /\ m.s.len < e.s.cap /\ e.s.cap \in Nat
    BY <2>4, OwnBlock
  <2>6. p.off + n <= m.s.cap /\ q.off + n <= e.s.cap
    BY <2>3, <2>4, <2>5
  <2>7. \A i \in 1..n : Load(m.heap, p, n)[i] = Byte(m, p.off + i)
    BY <2>4, <2>6, OwnLoad
  <2>8. \A i \in 1..n : Load(e.heap, q, n)[i] = Byte(e, p.off + i)
    BY <1>1, <2>3, <2>4, <2>6, OwnLoad
  <2>9. \A i \in 1..n : p.off + i \in 1..(m.s.len + 1)
    BY <2>3, <2>4, <2>5
  <2>10. PICK v, w : /\ v = Load(m.heap, p, n) /\ w = Load(e.heap, q, n) /\ v \in Seq(Cells) /\ w \in Seq(Cells)
                    /\ Len(v) = n /\ Len(w) = n
    <3>1. IsHeap(m.heap) /\ IsHeap(e.heap)
      BY MachineType
    <3>2. Load(m.heap, p, n) \in Seq(Cells) /\ Len(Load(m.heap, p, n)) = n
      BY <3>1, LoadType
    <3>3. Load(e.heap, q, n) \in Seq(Cells) /\ Len(Load(e.heap, q, n)) = n
      BY <1>1, <3>1, LoadType
    <3> QED
      BY <3>2, <3>3
  <2>11. \A i \in 1..Len(v) : v[i] = w[i]
    BY <2>4, <2>7, <2>8, <2>9, <2>10
  <2>12. v = w
    BY <2>10, <2>11, SameSequence
  <2>13. Inside(e, q, n)
    BY <2>3, <2>4 DEF Inside
  <2> QED
    BY <1>1, <2>1, <2>2, <2>3, <2>10, <2>12, <2>13
<1> QED
  BY <1>2, <1>3

-----------------------------------------------------------------------------
(* What a body does: it writes, or it refuses for a reason.                 *)

\* The reasons of a write that needs room for need bytes; bad: its source overlaps.
Refuses(m, need, bad, r) ==
  \/ r = "ERR_OVERFLOW" /\ need >= SizeMax
  \/ r = "ERR_ARG" /\ bad
  \/ r = "ERR_ALLOC" /\ need < SizeMax /\ ~bad /\ need >= m.s.cap

Does(m, R, o, need, bad, w) ==
  \/ need < SizeMax /\ ~bad /\ Wrote(m, R, o, w)
  \/ o.ret # "OK" /\ Refuses(m, need, bad, o.ret)

\* The buffer of e has room for need bytes and still the text of m.
Grown(m, R, e, need) ==
  Sound(e, R) /\ e.ret = m.ret /\ SameText(m, e) /\ e.s.cap > need

LEMMA WroteSince ==
  ASSUME NEW m, NEW R, NEW e, e.ret = m.ret, e.s.status = m.s.status, NEW o, NEW w, Wrote(e, R, o, w)
  PROVE  Wrote(m, R, o, w)
BY DEF Wrote

LEMMA WroteNothing ==
  ASSUME NEW m, NEW R, Sound(m, R)
  PROVE  Wrote(m, R, m, Text(m))
BY TextIs DEF Wrote, Sound

\* A string's length and terminator fit the width of a size.
LEMMA LengthFits ==
  ASSUME NEW m, NEW R, Roomy(m, R)
  PROVE  m.s.len \in Nat /\ m.s.len < SizeMax
<1>1. m.s \in StrState /\ m.s.len \in Nat /\ m.s.cap \in Nat /\ (m.s.cap > 0 => m.s.len < m.s.cap)
  BY MachineType
<1>2. m.s.cap <= SizeMax /\ SizeMax \in Nat \ {0}
  BY <1>1, StateType
<1>3. m.s.cap = 0 => m.s.len = 0
  BY DEF Roomy
<1> QED
  BY <1>1, <1>2, <1>3

LEMMA EnsuredRoom ==
  ASSUME NEW m, NEW R, Sound(m, R), m.ret = "OK", NEW need \in Nat, need < SizeMax,
         NEW e \in str_ensure_capacity(m, need + 1)
  PROVE  \/ e.ret = "OK" /\ Grown(m, R, e, need)
         \/ e.ret = "ERR_ALLOC" /\ need >= m.s.cap
<1>1. need + 1 \in 1..SizeMax /\ m.s.cap \in Nat
  BY StrApiAssumption, MachineType DEF Sound
<1>2. /\ Kept(m, R, e) /\ e.ret \in {"OK", "ERR_ALLOC"}
      /\ e.ret = "OK" => e.s.cap >= need + 1
      /\ e.ret # "OK" => need + 1 > m.s.cap
  BY <1>1, CapacityEnsured
<1>3. CASE e.ret = "OK"
  <2>1. SameText(m, e)
    BY <1>1, <1>3, GrownText
  <2>2. Sound(e, R) /\ e.s.cap \in Nat
    BY <1>2, MachineType DEF Kept, Sound
  <2>3. e.s.cap > need
    BY <1>2, <1>3, <2>2
  <2> QED
    BY <1>3, <2>1, <2>2, <2>3 DEF Grown
<1>4. CASE e.ret # "OK"
  BY <1>1, <1>2, <1>4
<1> QED
  BY <1>3, <1>4

LEMMA CalculatedRoom ==
  ASSUME NEW m, NEW R, Sound(m, R), m.ret = "OK", NEW need \in Nat,
         NEW c, c = str_calculate_capacity(m, need)
  PROVE  /\ c.heap = m.heap /\ c.s = m.s /\ Sound(c, R)
         /\ \/ c.ret = "OK" /\ need < SizeMax
            \/ c.ret = "ERR_OVERFLOW" /\ need >= SizeMax
<1>1. Passed(m, R, c) /\ (c.ret = "OK" => need < SizeMax) /\ (c.ret # "OK" => need >= SizeMax)
  BY CapacityCalculated
<1>2. c.ret \in {"OK", "ERR_OVERFLOW"}
  <2>1. PICK r \in {"OK", "ERR_OVERFLOW"} : c = With(m, r)
    BY DEF str_calculate_capacity
  <2>2. r \in Statuses
    BY <2>1, StatusNames
  <2>3. With(m, r).ret = r
    BY <2>2, Checked
  <2> QED
    BY <2>1, <2>3
<1> QED
  BY <1>1, <1>2, PassedSound

LEMMA OverlapFound ==
  ASSUME NEW m, NEW R, Sound(m, R), NEW p, NEW n \in Nat, n > 0, NEW d, d = str_detect_overlap(m, p, n)
  PROVE  /\ d.heap = m.heap /\ d.s = m.s /\ Sound(d, R)
         /\ \/ d.ret = "OK" /\ ~Overlaps(m, p, n)
            \/ d.ret = "ERR_ARG" /\ Overlaps(m, p, n)
<1>1. PICK r \in {"OK", "ERR_ARG"} : d = With(m, r) /\ (r = "ERR_ARG" <=> Overlaps(m, p, n))
  BY DEF str_detect_overlap, Overlaps
<1>2. r \in Statuses
  BY <1>1, StatusNames
<1>3. d.heap = m.heap /\ d.s = m.s /\ d.ret = r /\ Kept(m, R, d)
  BY <1>1, <1>2, Checked
<1> QED
  BY <1>1, <1>3 DEF Kept

LEMMA PreparedWrite ==
  ASSUME NEW m, NEW R, Sound(m, R), m.ret = "OK", NEW p, NEW n \in Nat, n > 0, NEW base \in Nat,
         NEW e \in str_prepare_write(m, p, n, base)
  PROVE  \/ e.ret = "OK" /\ Grown(m, R, e, base + n) /\ base + n < SizeMax /\ ~Overlaps(m, p, n)
         \/ e.ret # "OK" /\ Refuses(m, base + n, Overlaps(m, p, n), e.ret)
<1>1. PICK need, c : need \in Nat /\ need = base + n /\ c = str_calculate_capacity(m, need)
  OBVIOUS
<1>2. PICK d : /\ IF c.ret = "OK" THEN d = str_detect_overlap(c, p, n) ELSE d = c
               /\ IF d.ret = "OK" THEN e \in str_ensure_capacity(d, need + 1) ELSE e = d
  <2>1. e \in Then(Then({c}, LAMBDA o : {str_detect_overlap(o, p, n)}),
                   LAMBDA o : str_ensure_capacity(o, base + n + 1))
    BY <1>1, Zenon DEF str_prepare_write
  <2>2. PICK d \in Then({c}, LAMBDA o : {str_detect_overlap(o, p, n)}) :
          IF d.ret = "OK" THEN e \in str_ensure_capacity(d, base + n + 1) ELSE e = d
    BY <2>1 DEF Then
  <2>3. IF c.ret = "OK" THEN d = str_detect_overlap(c, p, n) ELSE d = c
    BY <2>2 DEF Then
  <2> QED
    BY <1>1, <2>2, <2>3
<1>3. /\ c.heap = m.heap /\ c.s = m.s /\ Sound(c, R)
      /\ \/ c.ret = "OK" /\ need < SizeMax
         \/ c.ret = "ERR_OVERFLOW" /\ need >= SizeMax
  BY <1>1, CalculatedRoom
<1>4. CASE c.ret # "OK"
  BY <1>1, <1>2, <1>3, <1>4 DEF Refuses
<1>5. CASE c.ret = "OK"
  <2>1. /\ d.heap = m.heap /\ d.s = m.s /\ Sound(d, R)
        /\ \/ d.ret = "OK" /\ ~Overlaps(c, p, n)
           \/ d.ret = "ERR_ARG" /\ Overlaps(c, p, n)
    BY <1>2, <1>3, <1>5, OverlapFound
  <2>2. Overlaps(c, p, n) <=> Overlaps(m, p, n)
    BY <1>3 DEF Overlaps
  <2>3. CASE d.ret # "OK"
    BY <1>1, <1>2, <2>1, <2>2, <2>3 DEF Refuses
  <2>4. CASE d.ret = "OK"
    <3>1. \/ e.ret = "OK" /\ Grown(d, R, e, need)
          \/ e.ret = "ERR_ALLOC" /\ need >= d.s.cap
      BY <1>1, <1>2, <1>3, <1>5, <2>1, <2>4, EnsuredRoom
    <3>2. Grown(d, R, e, need) => Grown(m, R, e, need)
      BY <2>1, <2>4 DEF Grown, SameText, Byte
    <3> QED
      BY <1>1, <1>3, <1>5, <2>1, <2>2, <2>4, <3>1, <3>2 DEF Refuses
  <2> QED
    BY <2>3, <2>4
<1> QED
  BY <1>4, <1>5

\* The source after the buffer has grown, as it was before.
LEMMA GrownSource ==
  ASSUME NEW m, NEW R, Sound(m, R), m.ret = "OK", NEW p \in Place, Aimed(m, R, p), NEW n \in Nat, n > 0,
         ~Overlaps(m, p, n), NEW need, NEW e, Grown(m, R, e, need), NEW q, q = Rebased(m.s, e.s, p)
  PROVE  /\ q \in Place /\ q.off = p.off /\ Load(e.heap, q, n) = Load(m.heap, p, n)
         /\ Outside(R, p) \/ Inside(m, p, n)
         /\ Outside(R, p) => q = p
         /\ Inside(m, p, n) => Inside(e, q, n) /\ q = [p EXCEPT !.blk = e.s.buf]
         /\ Roomy(m, R) /\ Roomy(e, R) /\ Text(e) = Text(m) /\ e.s.len = m.s.len /\ m.s.len \in Nat
<1>1. Roomy(m, R) /\ Roomy(e, R) /\ SameText(m, e)
  BY DEF Sound, Grown
<1>2. Outside(R, p) \/ Inside(m, p, n)
  BY <1>1, AimedReads
<1>3. /\ q \in Place /\ q.off = p.off /\ Load(e.heap, q, n) = Load(m.heap, p, n)
      /\ Outside(R, p) => q = p
      /\ Inside(m, p, n) => Inside(e, q, n) /\ q = [p EXCEPT !.blk = e.s.buf]
  BY <1>1, <1>2, RebasedLoad
<1>4. Text(e) = Text(m) /\ e.s.len = m.s.len /\ m.s.len \in Nat
  BY <1>1, SameTextHeld, MachineType DEF SameText
<1> QED
  BY <1>1, <1>2, <1>3, <1>4

LEMMA SetText ==
  ASSUME NEW m, NEW R, Sound(m, R), m.ret = "OK", NEW p \in Place, Aimed(m, R, p), NEW n \in Nat,
         NEW o \in str_set_valid_span(m, p, n)
  PROVE  Does(m, R, o, n, Overlaps(m, p, n), Load(m.heap, p, n))
<1>1. Roomy(m, R) /\ IsHeap(m.heap)
  BY MachineType DEF Sound
<1>2. CASE n = 0
  <2>1. o = str_clear_content(m)
    BY <1>2 DEF str_set_valid_span
  <2>2. Wrote(m, R, o, Load(m.heap, p, n))
    BY <1>1, <1>2, <2>1, ClearedText, NoBytes
  <2>3. 0 < SizeMax
    BY StrApiAssumption
  <2> QED
    BY <1>2, <2>2, <2>3 DEF Does, Overlaps
<1>3. CASE n > 0
  <2>1. o \in Then(str_prepare_write(m, p, n, 0),
                   LAMBDA e : {str_replace_content(e, Rebased(m.s, e.s, p), n)})
    <3>1. n # 0
      BY <1>3
    <3> QED
      BY <3>1, Zenon DEF str_set_valid_span
  <2>2. PICK e \in str_prepare_write(m, p, n, 0) :
          IF e.ret = "OK" THEN o = str_replace_content(e, Rebased(m.s, e.s, p), n) ELSE o = e
    BY <2>1 DEF Then
  <2>3. \/ e.ret = "OK" /\ Grown(m, R, e, n) /\ n < SizeMax /\ ~Overlaps(m, p, n)
        \/ e.ret # "OK" /\ Refuses(m, n, Overlaps(m, p, n), e.ret)
    <3>1. 0 + n = n /\ 0 \in Nat
      OBVIOUS
    <3> QED
      BY <1>3, <2>2, <3>1, PreparedWrite
  <2>4. CASE e.ret # "OK"
    BY <2>2, <2>3, <2>4 DEF Does
  <2>5. CASE e.ret = "OK"
    <3>1. PICK q : q = Rebased(m.s, e.s, p)
      OBVIOUS
    <3>2. q \in Place /\ Load(e.heap, q, n) = Load(m.heap, p, n) /\ Roomy(e, R)
      BY <1>3, <2>3, <2>5, <3>1, GrownSource
    <3>3. n < e.s.cap /\ e.s.cap > 0 /\ e.ret = m.ret /\ e.s.status = m.s.status
      BY <1>3, <2>3, <2>5, <3>2, MachineType DEF Grown, SameText
    <3>4. Wrote(e, R, o, Load(e.heap, q, n))
      BY <2>2, <2>5, <3>1, <3>2, <3>3, ReplacedText
    <3>5. Wrote(m, R, o, Load(m.heap, p, n))
      BY <3>2, <3>3, <3>4, WroteSince
    <3> QED
      BY <2>3, <2>5, <3>5 DEF Does
  <2> QED
    BY <2>4, <2>5
<1> QED
  BY <1>2, <1>3

LEMMA AppendText ==
  ASSUME NEW m, NEW R, Sound(m, R), m.ret = "OK", NEW p \in Place, Aimed(m, R, p), NEW n \in Nat,
         NEW o \in str_append_valid_span(m, p, n)
  PROVE  Does(m, R, o, m.s.len + n, Overlaps(m, p, n), Text(m) \o Load(m.heap, p, n))
<1>1. Roomy(m, R) /\ IsHeap(m.heap) /\ m.s.len \in Nat
  BY MachineType DEF Sound
<1>2. CASE n = 0
  <2>1. o = m
    BY <1>2 DEF str_append_valid_span
  <2>2. Text(m) \in Seq(Cells) /\ Load(m.heap, p, n) = <<>>
    BY <1>1, <1>2, TextIs, NoBytes
  <2>3. Text(m) \o Load(m.heap, p, n) = Text(m)
    BY <2>2
  <2>4. m.s.len + n < SizeMax
    BY <1>1, <1>2, LengthFits
  <2>5. Wrote(m, R, o, Text(m) \o Load(m.heap, p, n))
    BY <2>1, <2>3, WroteNothing
  <2> QED
    BY <1>2, <2>4, <2>5 DEF Does, Overlaps
<1>3. CASE n > 0
  <2>1. o \in Then(str_prepare_write(m, p, n, m.s.len),
                   LAMBDA e : {str_append_content(e, Rebased(m.s, e.s, p), n)})
    <3>1. n # 0
      BY <1>3
    <3> QED
      BY <3>1, Zenon DEF str_append_valid_span
  <2>2. PICK e \in str_prepare_write(m, p, n, m.s.len) :
          IF e.ret = "OK" THEN o = str_append_content(e, Rebased(m.s, e.s, p), n) ELSE o = e
    BY <2>1 DEF Then
  <2>3. \/ /\ e.ret = "OK" /\ Grown(m, R, e, m.s.len + n) /\ m.s.len + n < SizeMax
           /\ ~Overlaps(m, p, n)
        \/ e.ret # "OK" /\ Refuses(m, m.s.len + n, Overlaps(m, p, n), e.ret)
    BY <1>1, <1>3, <2>2, PreparedWrite
  <2>4. CASE e.ret # "OK"
    BY <2>2, <2>3, <2>4 DEF Does
  <2>5. CASE e.ret = "OK"
    <3>1. PICK q : q = Rebased(m.s, e.s, p)
      OBVIOUS
    <3>2. /\ q \in Place /\ Load(e.heap, q, n) = Load(m.heap, p, n) /\ Roomy(e, R)
          /\ Text(e) = Text(m) /\ e.s.len = m.s.len
      BY <1>3, <2>3, <2>5, <3>1, GrownSource
    <3>3. e.s.len + n < e.s.cap /\ e.s.cap > 0 /\ e.ret = m.ret /\ e.s.status = m.s.status
      BY <1>1, <1>3, <2>3, <2>5, <3>2, MachineType DEF Grown, SameText
    <3>4. Wrote(e, R, o, Text(e) \o Load(e.heap, q, n))
      BY <2>2, <2>5, <3>1, <3>2, <3>3, AppendedText
    <3>5. Wrote(m, R, o, Text(m) \o Load(m.heap, p, n))
      BY <3>2, <3>3, <3>4, WroteSince
    <3> QED
      BY <2>3, <2>5, <3>5 DEF Does
  <2> QED
    BY <2>4, <2>5
<1> QED
  BY <1>2, <1>3

LEMMA UnaliasedText ==
  ASSUME NEW m, NEW R, Sound(m, R), m.ret = "OK", NEW w \in Seq(Bytes),
         NEW o \in str_append_unaliased_span(m, w)
  PROVE  Does(m, R, o, m.s.len + Len(w), FALSE, Text(m) \o w)
<1>1. Roomy(m, R) /\ IsHeap(m.heap) /\ m.s.len \in Nat /\ Len(w) \in Nat
  BY MachineType DEF Sound
<1>2. CASE w = <<>>
  <2>1. o = m
    BY <1>2 DEF str_append_unaliased_span
  <2>2. Text(m) \in Seq(Cells) /\ Len(w) = 0
    BY <1>1, <1>2, TextIs
  <2>3. Text(m) \o w = Text(m)
    BY <1>2, <2>2
  <2>4. m.s.len + Len(w) < SizeMax
    BY <1>1, <2>2, LengthFits
  <2>5. Wrote(m, R, o, Text(m) \o w)
    BY <2>1, <2>3, WroteNothing
  <2> QED
    BY <2>4, <2>5 DEF Does
<1>3. CASE w # <<>>
  <2>1. PICK p, n : p = [blk |-> CALLER, off |-> 0, bytes |-> w] /\ n = Len(w)
    OBVIOUS
  <2>2. p \in Place /\ n \in Nat /\ p.blk = CALLER /\ p.off = 0 /\ p.bytes = w
    BY <1>1, <2>1 DEF Place, CALLER
  <2>3. PICK need, c : need \in Nat /\ need = m.s.len + n /\ c = str_calculate_capacity(m, need)
    BY <1>1, <2>2
  <2>4. PICK e : /\ IF c.ret = "OK" THEN e \in str_ensure_capacity(c, need + 1) ELSE e = c
                 /\ IF e.ret = "OK" THEN o = str_append_content(e, p, n) ELSE o = e
    <3>1. o \in Then(Then({c}, LAMBDA q : str_ensure_capacity(q, m.s.len + Len(w) + 1)),
                     LAMBDA q : {str_append_content(q, [blk |-> CALLER, off |-> 0, bytes |-> w], Len(w))})
      BY <1>3, <2>1, <2>3, Zenon DEF str_append_unaliased_span
    <3>2. PICK e \in Then({c}, LAMBDA q : str_ensure_capacity(q, m.s.len + Len(w) + 1)) :
            IF e.ret = "OK" THEN o = str_append_content(e, p, n) ELSE o = e
      BY <2>1, <3>1 DEF Then
    <3>3. IF c.ret = "OK" THEN e \in str_ensure_capacity(c, m.s.len + Len(w) + 1) ELSE e = c
      BY <3>2 DEF Then
    <3> QED
      BY <2>1, <2>3, <3>2, <3>3
  <2>5. /\ c.heap = m.heap /\ c.s = m.s /\ Sound(c, R)
        /\ \/ c.ret = "OK" /\ need < SizeMax
           \/ c.ret = "ERR_OVERFLOW" /\ need >= SizeMax
    BY <2>3, CalculatedRoom
  <2>6. CASE c.ret # "OK"
    BY <2>1, <2>3, <2>4, <2>5, <2>6 DEF Does, Refuses
  <2>7. CASE c.ret = "OK"
    <3>1. \/ e.ret = "OK" /\ Grown(c, R, e, need)
          \/ e.ret = "ERR_ALLOC" /\ need >= c.s.cap
      BY <2>3, <2>4, <2>5, <2>7, EnsuredRoom
    <3>2. CASE e.ret # "OK"
      BY <2>1, <2>3, <2>4, <2>5, <2>7, <3>1, <3>2 DEF Does, Refuses
    <3>3. CASE e.ret = "OK"
      <4>1. Grown(m, R, e, need) /\ Roomy(e, R)
        BY <2>5, <2>7, <3>1, <3>3 DEF Grown, SameText, Byte, Sound
      <4>2. Text(e) = Text(m) /\ e.s.len = m.s.len /\ e.s.status = m.s.status /\ e.ret = m.ret
        BY <1>1, <4>1, SameTextHeld DEF Grown, SameText
      <4>3. e.s.len + n < e.s.cap /\ e.s.cap > 0
        BY <1>1, <2>2, <2>3, <4>1, <4>2, MachineType DEF Grown
      <4>4. Wrote(e, R, o, Text(e) \o Load(e.heap, p, n))
        BY <2>2, <2>4, <3>3, <4>1, <4>3, AppendedText
      <4>5. Load(e.heap, p, n) = w
        <5>1. p.blk \notin DOMAIN e.heap
          <6>1. IsHeap(e.heap)
            BY <4>1, MachineType
          <6> QED
            BY <2>2, <6>1 DEF IsHeap, CALLER
        <5>2. Load(e.heap, p, n) = [i \in 1..n |-> IF 0 + i <= Len(w) THEN w[0 + i] ELSE Junk]
          BY <2>2, <5>1 DEF Load
        <5>3. \A i \in 1..n : 0 + i = i /\ i <= Len(w)
          BY <2>1, <2>2
        <5>4. Load(e.heap, p, n) \in Seq(Cells) /\ Len(Load(e.heap, p, n)) = n
          BY <2>2, <4>1, LoadType, MachineType
        <5>5. w \in Seq(Cells)
          BY DEF Cells
        <5>6. \A i \in 1..n : Load(e.heap, p, n)[i] = w[i]
          BY <5>2, <5>3
        <5> QED
          BY <2>1, <5>4, <5>5, <5>6, SameSequence
      <4>6. Wrote(m, R, o, Text(m) \o w)
        BY <4>2, <4>4, <4>5, WroteSince
      <4> QED
        BY <2>1, <2>3, <2>5, <2>7, <4>6 DEF Does
    <3> QED
      BY <3>2, <3>3
  <2> QED
    BY <2>6, <2>7
<1> QED
  BY <1>2, <1>3

\* A source in the string is read where the tail has taken it.
LEMMA AdjustedLoad ==
  ASSUME NEW m, NEW R, Roomy(m, R), m.s.cap > 0, NEW idx, NEW n, Fits(m, idx, 0, n), n > 0,
         NEW p \in Place, Inside(m, p, n),
         NEW q, q = [p EXCEPT !.off = str_adjust_source_offset(p, idx, n)]
  PROVE  q \in Place /\ Load(Parted(m, idx, 0, n).heap, q, n) = Load(m.heap, p, n)
<1>1. PICK len, cap, t : /\ len = m.s.len /\ cap = m.s.cap /\ t = Parted(m, idx, 0, n)
                         /\ len \in Nat /\ cap \in Nat /\ len < cap
  BY OwnBlock
<1>2. /\ idx \in Nat /\ n \in Nat /\ idx <= len /\ len + n < cap
      /\ p.off \in Nat /\ p.blk = m.s.buf /\ p.off + n <= len + 1
  BY <1>1 DEF Fits, Place, Inside
<1>3. /\ Roomy(t, R) /\ t.s = m.s
      /\ \A i \in 1..cap : Byte(t, i) = IF i > idx + n /\ i <= (len - 0) + n + 1 THEN Byte(m, (i - n) + 0)
                                        ELSE Byte(m, i)
  BY <1>1, PartedBytes DEF Writing
<1>4. q \in Place /\ q.blk = m.s.buf /\ q.off = IF p.off >= idx THEN p.off + n ELSE p.off
  BY <1>2 DEF Place, str_adjust_source_offset
<1>5. p.off + n <= m.s.cap /\ q.off + n <= t.s.cap /\ t.s.cap > 0 /\ q.blk = t.s.buf
  BY <1>1, <1>2, <1>3, <1>4
<1>6. PICK v : v = Load(m.heap, p, n) /\ v \in Seq(Cells) /\ Len(v) = n /\ \A i \in 1..n : v[i] = Byte(m, p.off + i)
  <2>1. IsHeap(m.heap)
    BY MachineType
  <2>2. Load(m.heap, p, n) \in Seq(Cells) /\ Len(Load(m.heap, p, n)) = n
    BY <1>2, <2>1, LoadType
  <2>3. \A i \in 1..n : Load(m.heap, p, n)[i] = Byte(m, p.off + i)
    BY <1>2, <1>5, OwnLoad
  <2> QED
    BY <2>2, <2>3
<1>7. PICK w : w = Load(t.heap, q, n) /\ w \in Seq(Cells) /\ Len(w) = n /\ \A i \in 1..n : w[i] = Byte(t, q.off + i)
  <2>1. IsHeap(t.heap)
    BY <1>3, MachineType
  <2>2. Load(t.heap, q, n) \in Seq(Cells) /\ Len(Load(t.heap, q, n)) = n
    BY <1>2, <1>4, <2>1, LoadType
  <2>3. \A i \in 1..n : Load(t.heap, q, n)[i] = Byte(t, q.off + i)
    BY <1>2, <1>3, <1>4, <1>5, OwnLoad
  <2> QED
    BY <2>2, <2>3
<1>8. ASSUME NEW i \in 1..n
      PROVE  Byte(t, q.off + i) = Byte(m, p.off + i)
  <2>1. CASE p.off >= idx
    <3>1. PICK j : j = q.off + i /\ j \in 1..cap /\ j > idx + n /\ j <= (len - 0) + n + 1 /\ (j - n) + 0 = p.off + i
      BY <1>1, <1>2, <1>4, <2>1
    <3>2. Byte(t, j) = Byte(m, (j - n) + 0)
      BY <1>3, <3>1
    <3> QED
      BY <3>1, <3>2
  <2>2. CASE p.off < idx
    <3>1. PICK j : j = q.off + i /\ j = p.off + i /\ j \in 1..cap /\ ~(j > idx + n)
      BY <1>1, <1>2, <1>4, <2>2
    <3>2. Byte(t, j) = Byte(m, j)
      BY <1>3, <3>1
    <3> QED
      BY <3>1, <3>2
  <2> QED
    BY <1>2, <2>1, <2>2
<1>9. \A i \in 1..Len(v) : v[i] = w[i]
  BY <1>6, <1>7, <1>8
<1> QED
  BY <1>1, <1>4, <1>6, <1>7, <1>9, SameSequence

LEMMA InsertText ==
  ASSUME NEW m, NEW R, Sound(m, R), m.ret = "OK", NEW p \in Place, Aimed(m, R, p), NEW n \in Nat, n > 0,
         NEW idx \in Nat, idx <= m.s.len, NEW o \in str_insert_span(m, idx, p, n)
  PROVE  Does(m, R, o, m.s.len + n, Overlaps(m, p, n), Value!Spliced(Text(m), idx, 0, Load(m.heap, p, n)))
<1> DEFINE inside == str_find_allocation_offset(m.s, p)
           q == IF inside THEN [p EXCEPT !.off = str_adjust_source_offset(p, idx, n)] ELSE p
<1>1. Roomy(m, R) /\ m.s.len \in Nat
  BY MachineType DEF Sound
<1>2. o \in Then(str_prepare_write(m, p, n, m.s.len),
                 LAMBDA e : {str_commit_insert(e, idx, IF inside THEN [q EXCEPT !.blk = e.s.buf] ELSE q, n)})
  BY Zenon DEF str_insert_span
<1> HIDE DEF q, inside
<1>3. PICK e \in str_prepare_write(m, p, n, m.s.len) :
        IF e.ret = "OK"
        THEN o = str_commit_insert(e, idx, IF inside THEN [q EXCEPT !.blk = e.s.buf] ELSE q, n)
        ELSE o = e
  BY <1>2 DEF Then
<1>4. \/ /\ e.ret = "OK" /\ Grown(m, R, e, m.s.len + n) /\ m.s.len + n < SizeMax
         /\ ~Overlaps(m, p, n)
      \/ e.ret # "OK" /\ Refuses(m, m.s.len + n, Overlaps(m, p, n), e.ret)
  BY <1>1, <1>3, PreparedWrite
<1>5. CASE e.ret # "OK"
  BY <1>3, <1>4, <1>5 DEF Does
<1>6. CASE e.ret = "OK"
  <2>1. PICK r : r = Rebased(m.s, e.s, p)
    OBVIOUS
  <2>2. /\ r \in Place /\ r.off = p.off /\ Load(e.heap, r, n) = Load(m.heap, p, n)
        /\ Outside(R, p) \/ Inside(m, p, n)
        /\ Outside(R, p) => r = p
        /\ Inside(m, p, n) => Inside(e, r, n) /\ r = [p EXCEPT !.blk = e.s.buf]
        /\ Roomy(m, R) /\ Roomy(e, R) /\ Text(e) = Text(m) /\ e.s.len = m.s.len /\ m.s.len \in Nat
    BY <1>4, <1>6, <2>1, GrownSource
  <2>3. e.s.cap > e.s.len + n /\ e.s.cap > 0 /\ e.ret = m.ret /\ e.s.status = m.s.status /\ e.s.cap \in Nat
    BY <1>1, <1>4, <1>6, <2>2, MachineType DEF Grown, SameText
  <2>4. Fits(e, idx, 0, n)
    BY <2>2, <2>3 DEF Fits
  <2>5. PICK z : /\ o = str_commit_insert(e, idx, z, n) /\ z \in Place
                 /\ Load(Parted(e, idx, 0, n).heap, z, n) = Load(m.heap, p, n)
    <3>1. CASE Outside(R, p)
      <4>1. ~inside
        BY <2>2, <3>1, OutsideLoad DEF inside
      <4>2. o = str_commit_insert(e, idx, p, n)
        BY <1>3, <1>6, <4>1 DEF q
      <4>3. Roomy(Parted(e, idx, 0, n), R)
        BY <2>2, <2>3, <2>4, PartedBytes DEF Writing
      <4>4. Load(Parted(e, idx, 0, n).heap, p, n) = Load(m.heap, p, n)
        BY <2>2, <3>1, <4>3, OutsideLoad
      <4> QED
        BY <4>2, <4>4
    <3>2. CASE Inside(m, p, n)
      <4>1. inside
        BY <2>2, <3>2, InsideFound DEF inside
      <4>2. PICK z : z = [r EXCEPT !.off = str_adjust_source_offset(r, idx, n)]
        OBVIOUS
      <4>3. z \in Place /\ Load(Parted(e, idx, 0, n).heap, z, n) = Load(e.heap, r, n)
        BY <2>2, <2>3, <2>4, <3>2, <4>2, AdjustedLoad
      <4>4. str_adjust_source_offset(r, idx, n) = str_adjust_source_offset(p, idx, n)
        BY <2>2 DEF str_adjust_source_offset
      <4>5. z = [q EXCEPT !.blk = e.s.buf]
        BY <2>2, <3>2, <4>1, <4>2, <4>4 DEF q, Place
      <4> QED
        BY <1>3, <1>6, <2>2, <4>1, <4>3, <4>5
    <3> QED
      BY <2>2, <3>1, <3>2
  <2>6. Wrote(e, R, o, Value!Spliced(Text(e), idx, 0, Load(m.heap, p, n)))
    BY <2>2, <2>3, <2>4, <2>5, InsertedText
  <2>7. Wrote(m, R, o, Value!Spliced(Text(m), idx, 0, Load(m.heap, p, n)))
    BY <2>2, <2>3, <2>6, WroteSince
  <2> QED
    BY <1>4, <1>6, <2>7 DEF Does
<1> QED
  BY <1>5, <1>6

-----------------------------------------------------------------------------
(* Blocks that come and go elsewhere do not change what is read.            *)

LEMMA LoadElsewhere ==
  ASSUME NEW h, IsHeap(h), NEW g, IsHeap(g), NEW p, NEW n,
         p.blk \in DOMAIN h <=> p.blk \in DOMAIN g, p.blk \in DOMAIN h => g[p.blk] = h[p.blk]
  PROVE  Load(g, p, n) = Load(h, p, n)
<1>1. CALLER \notin DOMAIN h /\ CALLER \notin DOMAIN g
  BY DEF IsHeap, CALLER
<1>2. CASE p.blk = CALLER
  BY <1>1, <1>2 DEF Load
<1>3. CASE p.blk # CALLER /\ p.blk \in DOMAIN h
  BY <1>3 DEF Load
<1>4. CASE p.blk # CALLER /\ p.blk \notin DOMAIN h
  BY <1>4 DEF Load
<1> QED
  BY <1>2, <1>3, <1>4

\* The same string with the same buffer, whatever the other blocks are.
LEMMA TextElsewhere ==
  ASSUME NEW m, NEW R, Roomy(m, R), NEW o, NEW Q, Roomy(o, Q), o.s = m.s,
         m.s.cap > 0 => o.heap[m.s.buf] = m.heap[m.s.buf]
  PROVE  Text(o) = Text(m)
<1>1. PICK p : p = At(m.s.buf, 0)
  OBVIOUS
<1>2. /\ p \in Place /\ p.blk = m.s.buf /\ IsHeap(m.heap) /\ IsHeap(o.heap) /\ m.s.cap \in Nat
      /\ Text(m) = Load(m.heap, p, m.s.len) /\ Text(o) = Load(o.heap, p, m.s.len)
  <2>1. IsHeap(m.heap) /\ IsHeap(o.heap) /\ m.s.cap \in Nat /\ p \in Place
    BY <1>1, MachineType
  <2>2. p.blk = m.s.buf
    BY <1>1 DEF At
  <2> QED
    BY <1>1, <2>1, <2>2 DEF Text
<1>3. CASE m.s.cap > 0
  <2>1. m.s.buf \in DOMAIN m.heap /\ m.s.buf \in DOMAIN o.heap
    BY <1>3, OwnBlock
  <2>2. Load(o.heap, p, m.s.len) = Load(m.heap, p, m.s.len)
    BY <1>2, <1>3, <2>1, LoadElsewhere
  <2> QED
    BY <1>2, <2>2
<1>4. CASE m.s.cap = 0
  <2>1. m.s.len = 0
    BY <1>4 DEF Roomy
  <2> QED
    BY <1>2, <2>1, NoBytes
<1> QED
  BY <1>2, <1>3, <1>4

\* A block of its own for the time of a call does not change the text.
LEMMA LodgedText ==
  ASSUME NEW m, NEW R, Sound(m, R), NEW b, NEW bytes \in Seq(Cells), NEW l, Lodged(m, b, bytes, l)
  PROVE  Text(l) = Text(m)
<1>1. Sound(l, Placed(R, b, bytes)) /\ b \in Nat \ {NULL} /\ b \notin DOMAIN m.heap
  BY LodgedSound
<1>2. l.s = m.s /\ l.heap = Placed(m.heap, b, bytes) /\ Roomy(m, R) /\ Roomy(l, Placed(R, b, bytes))
  BY <1>1 DEF Lodged, Sound
<1>3. IsHeap(m.heap)
  BY <1>2, MachineType
<1>4. \A c \in DOMAIN m.heap \ {b} : Placed(m.heap, b, bytes)[c] = m.heap[c]
  BY <1>1, <1>3, PlacedHeap
<1>5. m.s.cap > 0 => l.heap[m.s.buf] = m.heap[m.s.buf]
  <2>1. m.s.cap > 0 => m.s.buf \in DOMAIN m.heap
    BY <1>2, OwnBlock
  <2> QED
    BY <1>1, <1>2, <1>4, <2>1
<1> QED
  BY <1>2, <1>5, TextElsewhere

LEMMA LodgedLoad ==
  ASSUME NEW m, NEW R, Sound(m, R), NEW b, NEW bytes \in Seq(Cells), NEW l, Lodged(m, b, bytes, l),
         NEW p, p = At(b, 0), NEW n, n = Len(bytes)
  PROVE  p \in Place /\ Load(l.heap, p, n) = bytes
<1>1. b \in Nat \ {NULL} /\ b # CALLER /\ n \in Nat
  <2>1. b \in Nat \ {NULL}
    BY LodgedSound
  <2>2. Len(bytes) \in Nat
    OBVIOUS
  <2> QED
    BY <2>1, <2>2 DEF CALLER
<1>2. p \in Place /\ p.blk = b /\ p.off = 0
  BY <1>1, AtType DEF At
<1>3. PICK h, g : h = m.heap /\ g = l.heap /\ IsHeap(h) /\ g = Placed(h, b, bytes)
  BY MachineType DEF Sound, Lodged
<1>4. b \in DOMAIN g /\ g[b] = bytes
  <2>1. g = [c \in DOMAIN h \cup {b} |-> IF c = b THEN bytes ELSE h[c]]
    BY <1>3, Zenon DEF Placed
  <2> QED
    BY <2>1
<1>5. IsHeap(g)
  <2>1. /\ IsHeap(Placed(h, b, bytes)) /\ DOMAIN Placed(h, b, bytes) = DOMAIN h \cup {b}
        /\ Placed(h, b, bytes)[b] = bytes
        /\ \A c \in DOMAIN h \ {b} : Placed(h, b, bytes)[c] = h[c]
    <3>1. b \in Nat \ {NULL} /\ IsHeap(h)
      BY <1>1, <1>3
    <3> QED
      BY <3>1, PlacedHeap, Zenon
  <2> QED
    BY <1>3, <2>1
<1>6. Load(g, p, n) = [i \in 1..n |-> IF 0 + i <= Len(bytes) THEN bytes[0 + i] ELSE Junk]
  BY <1>1, <1>2, <1>4 DEF Load
<1>7. PICK w : w = Load(g, p, n) /\ w \in Seq(Cells) /\ Len(w) = n
  BY <1>1, <1>2, <1>5, LoadType
<1>8. \A i \in 1..n : w[i] = bytes[i]
  <2>1. \A i \in 1..n : 0 + i = i /\ i <= Len(bytes)
    BY <1>1
  <2> QED
    BY <1>6, <1>7, <2>1
<1>9. w = bytes
  BY <1>7, <1>8, SameSequence
<1> QED
  BY <1>2, <1>3, <1>7, <1>9

LEMMA ReleasedText ==
  ASSUME NEW m, NEW R, Sound(m, R), NEW b, NEW bytes \in Seq(Cells), NEW l, Lodged(m, b, bytes, l),
         NEW a, Sound(a, Placed(R, b, bytes)), NEW o, Sound(o, R),
         o.heap = Released(a.heap, b), o.s = a.s
  PROVE  Text(o) = Text(a)
<1>1. PICK Q : Q = Placed(R, b, bytes)
  OBVIOUS
<1>2. Roomy(a, Q) /\ Roomy(o, R) /\ IsHeap(a.heap)
  BY <1>1, MachineType DEF Sound
<1>3. b \in DOMAIN Q
  <2>1. Q = [c \in DOMAIN R \cup {b} |-> IF c = b THEN bytes ELSE R[c]]
    BY <1>1, Zenon DEF Placed
  <2> QED
    BY <2>1
<1>4. a.s.buf # b
  BY <1>2, <1>3 DEF Roomy
<1>5. \A c \in DOMAIN a.heap \ {b} : Released(a.heap, b)[c] = a.heap[c]
  BY <1>2, ReleasedHeap
<1>6. a.s.cap > 0 => o.heap[a.s.buf] = a.heap[a.s.buf]
  <2>1. a.s.cap > 0 => a.s.buf \in DOMAIN a.heap
    BY <1>2, OwnBlock
  <2> QED
    BY <1>4, <1>5, <2>1
<1> QED
  BY <1>2, <1>6, TextElsewhere

\* An append_fmt, for the text it renders; it needs memory of its own.
LEMMA FormatText ==
  ASSUME NEW m, NEW R, Sound(m, R), m.ret = "OK", NEW text \in Seq(Bytes), Len(text) < SizeMax,
         NEW how \in {"renders", "fails", "changes"}, how = "changes" => Len(text) >= FormatStack,
         NEW o \in str_append_format_payload(m, text, how)
  PROVE  \/ how = "renders" /\ m.s.len + Len(text) < SizeMax /\ Wrote(m, R, o, Text(m) \o text)
         \/ o.ret = "ERR_FMT" /\ how # "renders"
         \/ o.ret = "ERR_OVERFLOW" /\ m.s.len + Len(text) >= SizeMax
         \/ o.ret = "ERR_ALLOC"
<1>1. Len(text) \in Nat /\ FormatStack \in Nat /\ m.s.len \in Nat
  BY StrBufferAssumption, MachineType DEF Sound
<1>2. CASE how = "fails"
  <2>1. o = With(m, "ERR_FMT")
    BY <1>2 DEF str_append_format_payload
  <2>2. o.ret = "ERR_FMT"
    BY <2>1, StatusNames, Checked
  <2> QED
    BY <1>2, <2>2
<1>3. CASE how # "fails" /\ Len(text) < FormatStack
  <2>1. o \in str_append_unaliased_span(m, text)
    BY <1>3, Zenon DEF str_append_format_payload
  <2>2. how = "renders"
    BY <1>1, <1>3
  <2>3. Does(m, R, o, m.s.len + Len(text), FALSE, Text(m) \o text)
    BY <2>1, UnaliasedText
  <2> QED
    BY <2>2, <2>3 DEF Does, Refuses
<1>4. CASE how # "fails" /\ ~(Len(text) < FormatStack)
  <2>1. PICK c, b : c = str_calculate_capacity(m, Len(text)) /\ b = FreshBlock(m.heap)
    OBVIOUS
  <2>2. c.heap = m.heap /\ c.s = m.s /\ Sound(c, R) /\ c.ret = "OK"
    <3>1. PICK k \in Nat : k = Len(text) /\ k < SizeMax /\ c = str_calculate_capacity(m, k)
      BY <1>1, <2>1
    <3>2. ~(k >= SizeMax)
      BY <3>1, StrApiAssumption
    <3> QED
      BY <3>1, <3>2, CalculatedRoom
  <2>3. PICK q :
          /\ IF q.ret = "OK"
             THEN \E a \in IF how = "renders" THEN str_append_unaliased_span(q, text) ELSE {With(q, "ERR_FMT")} :
                    o = [a EXCEPT !.heap = Released(a.heap, b)]
             ELSE o = q
          /\ q = With(c, "ERR_ALLOC") \/ q = [c EXCEPT !.heap = Malloc(c.heap, Len(text) + 1)]
    <3>1. o \in Then(Then({c}, LAMBDA q : {With(q, "ERR_ALLOC"), [q EXCEPT !.heap = Malloc(@, Len(text) + 1)]}),
                     LAMBDA q : {[a EXCEPT !.heap = Released(@, FreshBlock(m.heap))] :
                                   a \in IF how = "renders" THEN str_append_unaliased_span(q, text)
                                         ELSE {With(q, "ERR_FMT")}})
      BY <1>4, <2>1, Zenon DEF str_append_format_payload
    <3>2. PICK q \in Then({c}, LAMBDA q : {With(q, "ERR_ALLOC"), [q EXCEPT !.heap = Malloc(@, Len(text) + 1)]}) :
            IF q.ret = "OK"
            THEN \E a \in IF how = "renders" THEN str_append_unaliased_span(q, text) ELSE {With(q, "ERR_FMT")} :
                   o = [a EXCEPT !.heap = Released(a.heap, b)]
            ELSE o = q
      BY <2>1, <3>1 DEF Then
    <3>3. q = With(c, "ERR_ALLOC") \/ q = [c EXCEPT !.heap = Malloc(c.heap, Len(text) + 1)]
      BY <2>2, <3>2 DEF Then
    <3> QED
      BY <3>2, <3>3, Zenon
  <2>4. CASE q = With(c, "ERR_ALLOC")
    <3>1. q.ret = "ERR_ALLOC"
      BY <2>2, <2>4, StatusNames, Checked
    <3> QED
      BY <2>3, <3>1
  <2>5. CASE q = [c EXCEPT !.heap = Malloc(c.heap, Len(text) + 1)]
    <3>1. PICK k \in Nat : k = Len(text) + 1
      BY <1>1
    <3>2. PICK bytes : bytes = [i \in 1..k |-> Junk]
      OBVIOUS
    <3>3. bytes \in Seq(Cells)
      <4>1. bytes \in [1..k -> Cells]
        BY <3>2 DEF Cells
      <4> QED
        BY <3>1, <4>1
    <3>4. Lodged(m, b, bytes, q)
      <4>1. {"heap", "s", "ret"} \subseteq DOMAIN c
        BY <2>2 DEF Sound, Roomy, IsMachine
      <4>2. Malloc(c.heap, Len(text) + 1) = Placed(m.heap, b, bytes)
        BY <2>1, <2>2, <3>1, <3>2 DEF Malloc
      <4> QED
        BY <2>1, <2>2, <2>5, <4>1, <4>2 DEF Lodged
    <3>5. PICK Q : Q = Placed(R, b, bytes)
      OBVIOUS
    <3>6. Sound(q, Q) /\ q.ret = "OK" /\ q.s = m.s /\ Text(q) = Text(m)
      <4>1. Sound(q, Q)
        BY <3>3, <3>4, <3>5, LodgedSound
      <4>2. Text(q) = Text(m)
        BY <3>3, <3>4, LodgedText
      <4>3. q.ret = m.ret /\ q.s = m.s
        BY <3>4 DEF Lodged
      <4> QED
        BY <4>1, <4>2, <4>3
    <3>7. PICK a : /\ a \in IF how = "renders" THEN str_append_unaliased_span(q, text) ELSE {With(q, "ERR_FMT")}
                   /\ o = [a EXCEPT !.heap = Released(a.heap, b)]
      BY <2>3, <3>6
    <3>8. Kept(q, Q, a)
      <4>1. CASE how = "renders"
        BY <3>6, <3>7, <4>1, AppendUnaliased
      <4>2. CASE how # "renders"
        BY <3>6, <3>7, <4>2, StatusNames, Checked
      <4> QED
        BY <4>1, <4>2
    <3>9. {"heap", "s", "ret"} \subseteq DOMAIN a
      BY <3>8 DEF Kept, Sound, Roomy, IsMachine
    <3>10. /\ {"heap", "s", "ret"} \subseteq DOMAIN o
          /\ o.heap = Released(a.heap, b) /\ o.s = a.s /\ o.ret = a.ret
      BY <3>7, <3>9
    <3>11. CASE how # "renders"
      <4>1. a.ret = "ERR_FMT"
        BY <3>6, <3>7, <3>11, StatusNames, Checked
      <4> QED
        BY <3>10, <3>11, <4>1
    <3>12. CASE how = "renders"
      <4>1. Does(q, Q, a, q.s.len + Len(text), FALSE, Text(q) \o text)
        BY <3>6, <3>7, <3>12, UnaliasedText
      <4>2. CASE a.ret # "OK" /\ Refuses(q, q.s.len + Len(text), FALSE, a.ret)
        BY <3>6, <3>10, <4>2 DEF Refuses
      <4>3. CASE q.s.len + Len(text) < SizeMax /\ Wrote(q, Q, a, Text(q) \o text)
        <5>1. Sound(o, R)
          <6>1. Kept(m, R, o)
            BY <3>3, <3>4, <3>5, <3>8, <3>10, LodgingReleased
          <6> QED
            BY <6>1 DEF Kept
        <5>2. Sound(a, Q)
          BY <4>3 DEF Wrote
        <5>3. Text(o) = Text(a)
          BY <3>3, <3>4, <3>5, <3>10, <5>1, <5>2, ReleasedText
        <5>4. Wrote(m, R, o, Text(m) \o text)
          BY <3>6, <3>10, <4>3, <5>1, <5>3 DEF Wrote
        <5> QED
          BY <3>6, <3>12, <4>3, <5>4
      <4> QED
        BY <4>1, <4>2, <4>3 DEF Does
    <3> QED
      BY <3>11, <3>12
  <2> QED
    BY <2>3, <2>4, <2>5
<1> QED
  BY <1>2, <1>3, <1>4

-----------------------------------------------------------------------------
(* Replacements, and the calls that change the room.                        *)

\* Like Does, for the calls that may need memory besides the buffer.
Manages(m, R, o, need, bad, w) ==
  \/ need < SizeMax /\ ~bad /\ Wrote(m, R, o, w)
  \/ o.ret = "ERR_OVERFLOW" /\ need >= SizeMax
  \/ o.ret = "ERR_ARG" /\ bad
  \/ o.ret = "ERR_ALLOC" /\ need < SizeMax /\ ~bad

\* The source of a replacement is never in the buffer that is rewritten.
LEMMA StagedSource ==
  ASSUME NEW m, NEW R, Sound(m, R), m.ret = "OK", NEW p \in Place, Aimed(m, R, p), NEW n \in Nat,
         NEW q \in str_stage_replacement(m, p, n)
  PROVE  \/ q.ret = "ERR_ARG" /\ Overlaps(m, p, n)
         \/ q.ret = "ERR_ALLOC" /\ ~Overlaps(m, p, n)
         \/ /\ q.ret = "OK" /\ ~Overlaps(m, p, n) /\ q.staged = NULL /\ q.heap = m.heap /\ q.s = m.s
            /\ q.src = p /\ Sound(q, R) /\ (n > 0 => Outside(R, p))
         \/ /\ q.ret = "OK" /\ ~Overlaps(m, p, n) /\ q.src = At(q.staged, 0)
            /\ Lodged(m, q.staged, Load(m.heap, p, n), q)
<1>1. Roomy(m, R)
  BY DEF Sound
<1>2. CASE n = 0 \/ ~str_find_allocation_offset(m.s, p)
  <2>1. q = Staged(m, m.heap, p, NULL)
    BY <1>2, Zenon DEF str_stage_replacement
  <2>2. /\ q.heap = m.heap /\ q.s = m.s /\ q.ret = m.ret /\ q.src = p /\ q.staged = NULL
        /\ {"heap", "s", "ret"} \subseteq DOMAIN q
    BY <2>1 DEF Staged
  <2>3. Sound(q, R)
    BY <2>2 DEF Sound, Roomy, IsMachine, Terminated
  <2>4. ~Overlaps(m, p, n)
    BY <1>2 DEF Overlaps
  <2>5. n > 0 => Outside(R, p)
    BY <1>1, <1>2, <2>4, AimedReads, InsideFound
  <2> QED
    BY <2>2, <2>3, <2>4, <2>5
<1>3. CASE ~(n = 0 \/ ~str_find_allocation_offset(m.s, p))
  <2>1. PICK b, bytes, d : /\ b = FreshBlock(m.heap) /\ bytes = Load(m.heap, p, n)
                           /\ d = str_detect_overlap(m, p, n)
    OBVIOUS
  <2>2. /\ d.heap = m.heap /\ d.s = m.s /\ Sound(d, R)
        /\ \/ d.ret = "OK" /\ ~Overlaps(m, p, n)
           \/ d.ret = "ERR_ARG" /\ Overlaps(m, p, n)
    BY <1>3, <2>1, OverlapFound
  <2>3. IF d.ret = "OK" THEN q = With(d, "ERR_ALLOC") \/ q = Staged(d, Placed(m.heap, b, bytes), At(b, 0), b)
        ELSE q = d
    <3>1. q \in Then({d}, LAMBDA o : {With(o, "ERR_ALLOC"),
                                      Staged(o, Placed(m.heap, FreshBlock(m.heap), Load(m.heap, p, n)),
                                             At(FreshBlock(m.heap), 0), FreshBlock(m.heap))})
      BY <1>3, <2>1, Zenon DEF str_stage_replacement
    <3> QED
      BY <2>1, <3>1 DEF Then
  <2>4. CASE d.ret # "OK"
    BY <2>2, <2>3, <2>4
  <2>5. CASE d.ret = "OK" /\ q = With(d, "ERR_ALLOC")
    <3>1. q.ret = "ERR_ALLOC"
      BY <2>2, <2>5, StatusNames, Checked
    <3> QED
      BY <2>2, <2>5, <3>1
  <2>6. CASE d.ret = "OK" /\ q = Staged(d, Placed(m.heap, b, bytes), At(b, 0), b)
    <3>1. /\ q.heap = Placed(m.heap, b, bytes) /\ q.s = d.s /\ q.ret = d.ret /\ q.src = At(b, 0)
          /\ q.staged = b /\ {"heap", "s", "ret"} \subseteq DOMAIN q
      BY <2>6 DEF Staged
    <3>2. Lodged(m, q.staged, bytes, q)
      BY <2>1, <2>2, <2>6, <3>1 DEF Lodged
    <3> QED
      BY <2>1, <2>2, <2>6, <3>1, <3>2
  <2> QED
    BY <2>3, <2>4, <2>5, <2>6
<1> QED
  BY <1>2, <1>3

LEMMA ReplacingText ==
  ASSUME NEW m, NEW R, Sound(m, R), m.ret = "OK", NEW p \in Place, NEW n \in Nat, n > 0 => Outside(R, p),
         NEW k \in Nat, NEW idx \in Nat, idx + k <= m.s.len, (m.s.len - k) + n < SizeMax,
         NEW g \in Replacing(m, idx, k, p, n)
  PROVE  \/ Wrote(m, R, g, Value!Spliced(Text(m), idx, k, Load(m.heap, p, n)))
         \/ g.ret = "ERR_ALLOC"
<1>1. Roomy(m, R) /\ m.s.len \in Nat /\ IsHeap(m.heap)
  BY MachineType DEF Sound
<1>2. PICK new : new = (m.s.len - k) + n /\ new \in Nat /\ new < SizeMax
  BY <1>1
<1>3. PICK e \in str_ensure_capacity(m, new + 1) :
        IF e.ret = "OK" THEN g = str_commit_replacement(e, idx, k, p, n) ELSE g = e
  BY <1>2 DEF Replacing, Then
<1>4. \/ e.ret = "OK" /\ Grown(m, R, e, new)
      \/ e.ret = "ERR_ALLOC" /\ new >= m.s.cap
  BY <1>2, <1>3, EnsuredRoom
<1>5. CASE e.ret # "OK"
  BY <1>3, <1>4, <1>5
<1>6. CASE e.ret = "OK"
  <2>1. Roomy(e, R) /\ SameText(m, e) /\ e.ret = m.ret /\ e.s.cap > new
    BY <1>4, <1>6 DEF Grown, Sound
  <2>2. Text(e) = Text(m) /\ e.s.len = m.s.len /\ e.s.status = m.s.status /\ e.s.cap \in Nat
    BY <1>1, <2>1, SameTextHeld, MachineType DEF SameText
  <2>3. e.s.cap > 0 /\ Fits(e, idx, k, n)
    BY <1>1, <1>2, <2>1, <2>2 DEF Fits
  <2>4. Roomy(Parted(e, idx, k, n), R)
    BY <2>1, <2>3, PartedBytes DEF Writing
  <2>5. Load(Parted(e, idx, k, n).heap, p, n) = Load(m.heap, p, n)
    <3>1. CASE n > 0
      BY <1>1, <2>4, <3>1, OutsideLoad
    <3>2. CASE n = 0
      BY <1>1, <2>4, <3>2, NoBytes, MachineType
    <3> QED
      BY <3>1, <3>2
  <2>6. Wrote(e, R, g, Value!Spliced(Text(e), idx, k, Load(m.heap, p, n)))
    BY <1>3, <1>6, <2>1, <2>3, <2>5, ReplacementText
  <2>7. Wrote(m, R, g, Value!Spliced(Text(m), idx, k, Load(m.heap, p, n)))
    BY <2>1, <2>2, <2>6, WroteSince
  <2> QED
    BY <2>7
<1> QED
  BY <1>5, <1>6

LEMMA ReplacedResizedText ==
  ASSUME NEW m, NEW R, Sound(m, R), m.ret = "OK", NEW p \in Place, Aimed(m, R, p), NEW n \in Nat,
         NEW k \in Nat, NEW idx \in Nat, idx + k <= m.s.len,
         NEW o \in str_replace_resized_span(m, idx, k, p, n)
  PROVE  Manages(m, R, o, (m.s.len - k) + n, Overlaps(m, p, n),
                 Value!Spliced(Text(m), idx, k, Load(m.heap, p, n)))
<1> DEFINE new == (m.s.len - k) + n
<1>1. m.s.len \in Nat /\ IsHeap(m.heap)
  BY MachineType DEF Sound
<1>2. PICK c, w : new \in Nat /\ c = str_calculate_capacity(m, new) /\ w = Load(m.heap, p, n)
  BY <1>1
<1>3. PICK q :
        /\ IF c.ret = "OK" THEN q \in str_stage_replacement(c, p, n) ELSE q = c
        /\ IF q.ret = "OK"
           THEN \E g \in Then(str_ensure_capacity(q, new + 1),
                              LAMBDA e : {str_commit_replacement(e, idx, k, q.src, n)}) :
                  o = [heap |-> Released(g.heap, q.staged), s |-> g.s, ret |-> g.ret]
           ELSE o = q
  <2>1. o \in Then(Then({c}, LAMBDA r : str_stage_replacement(r, p, n)),
                   LAMBDA r : {[heap |-> Released(g.heap, r.staged), s |-> g.s, ret |-> g.ret] :
                                 g \in Then(str_ensure_capacity(r, new + 1),
                                            LAMBDA e : {str_commit_replacement(e, idx, k, r.src, n)})})
    BY <1>2, ZenonT(60) DEF str_replace_resized_span
  <2>2. PICK q \in Then({c}, LAMBDA r : str_stage_replacement(r, p, n)) :
          o \in IF q.ret = "OK"
                THEN {[heap |-> Released(g.heap, q.staged), s |-> g.s, ret |-> g.ret] :
                        g \in Then(str_ensure_capacity(q, new + 1),
                                   LAMBDA e : {str_commit_replacement(e, idx, k, q.src, n)})}
                ELSE {q}
    BY <2>1, Zenon DEF Then
  <2>3. IF c.ret = "OK" THEN q \in str_stage_replacement(c, p, n) ELSE q = c
    BY <2>2 DEF Then
  <2> QED
    BY <2>2, <2>3, Zenon
<1>4. /\ c.heap = m.heap /\ c.s = m.s /\ Sound(c, R)
      /\ \/ c.ret = "OK" /\ new < SizeMax
         \/ c.ret = "ERR_OVERFLOW" /\ new >= SizeMax
  BY <1>2, CalculatedRoom
<1>5. /\ Overlaps(c, p, n) <=> Overlaps(m, p, n)
      /\ Aimed(c, R, p) /\ Load(c.heap, p, n) = w
  BY <1>2, <1>4 DEF Overlaps, Aimed
<1>6. CASE c.ret # "OK"
  BY <1>2, <1>3, <1>4, <1>6 DEF Manages
<1>7. CASE c.ret = "OK" /\ q.ret # "OK"
  <2>1. \/ q.ret = "ERR_ARG" /\ Overlaps(m, p, n)
        \/ q.ret = "ERR_ALLOC" /\ ~Overlaps(m, p, n)
    BY <1>3, <1>4, <1>5, <1>7, StagedSource
  <2> QED
    BY <1>2, <1>3, <1>4, <1>7, <2>1 DEF Manages
<1>8. CASE c.ret = "OK" /\ q.ret = "OK"
  <2>1. /\ ~Overlaps(m, p, n)
        /\ \/ /\ q.staged = NULL /\ q.heap = m.heap /\ q.s = m.s
              /\ q.src = p /\ Sound(q, R) /\ (n > 0 => Outside(R, p))
           \/ q.src = At(q.staged, 0) /\ Lodged(c, q.staged, w, q)
    BY <1>3, <1>4, <1>5, <1>8, StagedSource
  <2>2. q.s = m.s
    BY <1>4, <2>1 DEF Lodged
  <2>3. PICK g : /\ g \in Replacing(q, idx, k, q.src, n)
                 /\ o = [heap |-> Released(g.heap, q.staged), s |-> g.s, ret |-> g.ret]
    <3>1. \E g \in Then(str_ensure_capacity(q, new + 1),
                        LAMBDA e : {str_commit_replacement(e, idx, k, q.src, n)}) :
            o = [heap |-> Released(g.heap, q.staged), s |-> g.s, ret |-> g.ret]
      BY <1>3, <1>8, Zenon
    <3>2. new + 1 = (q.s.len - k) + n + 1
      BY <1>2, <2>2
    <3> QED
      BY <3>1, <3>2, Zenon DEF Replacing
  <2>4. o.heap = Released(g.heap, q.staged) /\ o.s = g.s /\ o.ret = g.ret
    BY <2>3
  <2>5. Sound(o, R)
    <3>1. Kept(m, R, o)
      BY ReplacedResized
    <3> QED
      BY <3>1 DEF Kept
  <2>6. idx + k <= q.s.len /\ (q.s.len - k) + n < SizeMax
    BY <1>2, <1>4, <1>8, <2>2
  <2>7. o.ret = "ERR_ALLOC" \/ Wrote(m, R, o, Value!Spliced(Text(m), idx, k, w))
    <3>1. CASE /\ q.staged = NULL /\ q.heap = m.heap /\ q.s = m.s
               /\ q.src = p /\ Sound(q, R) /\ (n > 0 => Outside(R, p))
      <4>1. Wrote(q, R, g, Value!Spliced(Text(q), idx, k, Load(q.heap, p, n))) \/ g.ret = "ERR_ALLOC"
        BY <1>8, <2>3, <2>6, <3>1, ReplacingText
      <4>2. Text(q) = Text(m) /\ Load(q.heap, p, n) = w
        BY <1>2, <3>1 DEF Text
      <4>3. CASE Wrote(q, R, g, Value!Spliced(Text(m), idx, k, w))
        <5>1. Roomy(g, R) /\ IsHeap(g.heap)
          BY <4>3, MachineType DEF Wrote, Sound
        <5>2. o.heap = g.heap
          <6>1. NULL \notin DOMAIN g.heap
            BY <5>1 DEF IsHeap
          <6>2. Released(g.heap, NULL) = g.heap
            BY <5>1, <6>1, ReleasedHeap
          <6> QED
            BY <2>4, <3>1, <6>2
        <5>3. Text(o) = Text(g)
          BY <2>4, <5>2 DEF Text
        <5> QED
          BY <1>8, <2>2, <2>4, <2>5, <4>3, <5>3 DEF Wrote
      <4> QED
        BY <2>4, <4>1, <4>2, <4>3
    <3>2. CASE q.src = At(q.staged, 0) /\ Lodged(c, q.staged, w, q)
      <4>1. w \in Seq(Cells) /\ Len(w) = n
        BY <1>1, <1>2, LoadType
      <4>2. PICK b, Q : b = q.staged /\ Q = Placed(R, b, w)
        OBVIOUS
      <4>3. Sound(q, Q) /\ b \in Nat \ {NULL} /\ b \notin DOMAIN m.heap /\ Text(q) = Text(c)
        BY <1>4, <3>2, <4>1, <4>2, LodgedSound, LodgedText
      <4>4. q.src \in Place /\ Load(q.heap, q.src, n) = w
        BY <1>4, <3>2, <4>1, LodgedLoad
      <4>5. Outside(Q, q.src)
        <5>1. q.src.blk = b
          BY <3>2, <4>2 DEF At
        <5> QED
          BY <4>2, <5>1 DEF Outside, Placed
      <4>6. Wrote(q, Q, g, Value!Spliced(Text(q), idx, k, Load(q.heap, q.src, n))) \/ g.ret = "ERR_ALLOC"
        BY <1>8, <2>3, <2>6, <4>3, <4>4, <4>5, ReplacingText
      <4>7. Text(q) = Text(m)
        BY <1>4, <4>3 DEF Text
      <4>8. CASE Wrote(q, Q, g, Value!Spliced(Text(m), idx, k, w))
        <5>1. Sound(g, Q)
          BY <4>8 DEF Wrote
        <5>2. Text(o) = Text(g)
          BY <1>4, <2>4, <2>5, <3>2, <4>1, <4>2, <5>1, ReleasedText
        <5> QED
          BY <1>8, <2>2, <2>4, <2>5, <4>8, <5>2 DEF Wrote
      <4> QED
        BY <2>4, <4>4, <4>6, <4>7, <4>8
    <3> QED
      BY <2>1, <3>1, <3>2
  <2> QED
    BY <1>2, <1>4, <1>8, <2>1, <2>7 DEF Manages
<1> QED
  BY <1>6, <1>7, <1>8

LEMMA ReplacedEqualText ==
  ASSUME NEW m, NEW R, Sound(m, R), m.ret = "OK", NEW p \in Place, NEW n \in Nat, n > 0,
         NEW idx \in Nat, idx + n <= m.s.len, NEW o \in str_replace_equal_span(m, idx, p, n)
  PROVE  \/ ~Overlaps(m, p, n) /\ Wrote(m, R, o, Value!Spliced(Text(m), idx, n, Load(m.heap, p, n)))
         \/ o.ret = "ERR_ARG" /\ Overlaps(m, p, n)
<1>1. PICK d, w : d = str_detect_overlap(m, p, n) /\ w = Load(m.heap, p, n)
  OBVIOUS
<1>2. IF d.ret = "OK" THEN o = str_move_bytes(d, idx, p, n) ELSE o = d
  BY <1>1 DEF str_replace_equal_span, Then
<1>3. /\ d.heap = m.heap /\ d.s = m.s /\ Sound(d, R)
      /\ \/ d.ret = "OK" /\ ~Overlaps(m, p, n)
         \/ d.ret = "ERR_ARG" /\ Overlaps(m, p, n)
  BY <1>1, OverlapFound
<1>4. CASE d.ret # "OK"
  BY <1>2, <1>3, <1>4
<1>5. CASE d.ret = "OK"
  <2>1. PICK len, cap : /\ len = m.s.len /\ cap = m.s.cap /\ len \in Nat /\ cap \in Nat /\ len < cap /\ cap > 0
                        /\ idx + n <= len
    <3>1. m.s.len \in Nat /\ m.s.cap \in Nat /\ (m.s.cap = 0 => m.s.len = 0) /\ (m.s.cap > 0 => m.s.len < m.s.cap)
      BY MachineType DEF Sound, Roomy
    <3> QED
      BY <3>1
  <2>2. Roomy(d, R) /\ IsHeap(m.heap) /\ w \in Seq(Cells) /\ Len(w) = n
    BY <1>1, <1>3, LoadType, MachineType DEF Sound
  <2>3. /\ Roomy(o, R) /\ o.s = d.s /\ o.ret = d.ret
        /\ \A i \in 1..cap : Byte(o, i) = IF i > idx /\ i <= idx + n THEN w[i - idx] ELSE Byte(d, i)
    <3>1. d.s.cap > 0 /\ idx + n <= d.s.cap /\ d.s.cap = cap /\ o = str_move_bytes(d, idx, p, n)
      BY <1>2, <1>3, <1>5, <2>1
    <3>2. Load(d.heap, p, n) = w
      BY <1>1, <1>3
    <3> QED
      BY <2>2, <3>1, <3>2, MovedBytes
  <2>4. PICK v : v = Text(d) /\ v \in Seq(Cells) /\ Len(v) = len /\ \A i \in 1..len : v[i] = Byte(d, i)
    BY <1>3, <2>1, <2>2, TextIs
  <2>5. Text(m) = v
    BY <1>3, <2>4 DEF Text
  <2>6. PICK u : /\ u = Value!Spliced(v, idx, n, w) /\ u \in Seq(Cells) /\ Len(u) = len
                 /\ \A i \in 1..len : u[i] = IF i <= idx THEN v[i]
                                             ELSE IF i <= idx + n THEN w[i - idx] ELSE v[(i - n) + n]
    <3>1. /\ Value!Spliced(v, idx, n, w) \in Seq(Cells)
          /\ Len(Value!Spliced(v, idx, n, w)) = (Len(v) - n) + Len(w)
          /\ \A i \in 1..((Len(v) - n) + Len(w)) :
               Value!Spliced(v, idx, n, w)[i] =
                 IF i <= idx THEN v[i]
                 ELSE IF i <= idx + Len(w) THEN w[i - idx] ELSE v[(i - Len(w)) + n]
      <4>1. idx \in Nat /\ n \in Nat /\ idx + n <= Len(v) /\ v \in Seq(Cells) /\ w \in Seq(Cells)
        BY <2>1, <2>2, <2>4
      <4>2. PICK k : k = n /\ k \in Nat /\ idx + k <= Len(v)
        BY <4>1
      <4>3. /\ Value!Spliced(v, idx, k, w) \in Seq(Cells)
            /\ Len(Value!Spliced(v, idx, k, w)) = (Len(v) - k) + Len(w)
            /\ \A i \in 1..((Len(v) - k) + Len(w)) :
                 Value!Spliced(v, idx, k, w)[i] =
                   IF i <= idx THEN v[i]
                   ELSE IF i <= idx + Len(w) THEN w[i - idx] ELSE v[(i - Len(w)) + k]
        <5>1. SplicedAs(Cells, Value!Spliced(v, idx, k, w), v, idx, k, w)
          BY <4>1, <4>2, SplicedIs
        <5> QED
          BY <5>1 DEF SplicedAs
      <4> QED
        BY <4>2, <4>3
    <3>2. (Len(v) - n) + Len(w) = len
      BY <2>1, <2>2, <2>4
    <3> QED
      BY <2>2, <3>1, <3>2
  <2>7. \A i \in 1..len : Byte(o, i) = u[i]
    <3> TAKE i \in 1..len
    <3>1. i \in 1..cap /\ i \in Nat /\ (i - n) + n = i
      BY <2>1
    <3>2. CASE i <= idx
      <4>1. ~(i > idx)
        BY <3>1, <3>2
      <4> QED
        BY <2>3, <2>4, <2>6, <3>1, <3>2, <4>1
    <3>3. CASE i > idx /\ i <= idx + n
      <4>1. ~(i <= idx)
        BY <3>1, <3>3
      <4> QED
        BY <2>3, <2>6, <3>1, <3>3, <4>1
    <3>4. CASE i > idx + n
      <4>1. ~(i <= idx) /\ ~(i <= idx + n)
        BY <3>1, <3>4
      <4>2. u[i] = v[i]
        BY <2>6, <3>1, <4>1
      <4>3. Byte(o, i) = Byte(d, i)
        BY <2>3, <3>1, <4>1
      <4> QED
        BY <2>4, <4>2, <4>3
    <3> QED
      BY <3>1, <3>2, <3>3, <3>4
  <2>8. Sound(o, R)
    <3>1. Kept(m, R, o)
      BY ReplacedEqual
    <3> QED
      BY <3>1 DEF Kept
  <2>9. Text(o) = u
    <3>1. o.s.len = Len(u) /\ o.s.cap > 0 /\ \A i \in 1..Len(u) : Byte(o, i) = u[i]
      BY <1>3, <2>1, <2>3, <2>6, <2>7
    <3> QED
      BY <2>3, <2>6, <3>1, TextBy
  <2>10. Wrote(m, R, o, u)
    BY <1>3, <1>5, <2>3, <2>6, <2>8, <2>9 DEF Wrote
  <2> QED
    BY <1>1, <1>3, <1>5, <2>5, <2>6, <2>10
<1> QED
  BY <1>4, <1>5

LEMMA AppliedText ==
  ASSUME NEW m, NEW R, Sound(m, R), m.ret = "OK", NEW p \in Place, Aimed(m, R, p), NEW n \in Nat,
         NEW k \in Nat, n > 0 \/ k > 0, NEW idx \in Nat, idx + k <= m.s.len,
         NEW o \in str_apply_replacement(m, idx, k, p, n)
  PROVE  Manages(m, R, o, (m.s.len - k) + n, Overlaps(m, p, n),
                 Value!Spliced(Text(m), idx, k, Load(m.heap, p, n)))
<1>1. CASE k = n
  <2>1. o \in str_replace_equal_span(m, idx, p, n) /\ n > 0 /\ idx + n <= m.s.len
    BY <1>1 DEF str_apply_replacement
  <2>2. \/ ~Overlaps(m, p, n) /\ Wrote(m, R, o, Value!Spliced(Text(m), idx, n, Load(m.heap, p, n)))
        \/ o.ret = "ERR_ARG" /\ Overlaps(m, p, n)
    BY <2>1, ReplacedEqualText
  <2>3. (m.s.len - k) + n < SizeMax
    <3>1. m.s.len \in Nat /\ m.s.len < SizeMax
      BY LengthFits DEF Sound
    <3> QED
      BY <1>1, <3>1
  <2> QED
    BY <1>1, <2>2, <2>3 DEF Manages
<1>2. CASE k # n
  <2>1. o \in str_replace_resized_span(m, idx, k, p, n)
    BY <1>2 DEF str_apply_replacement
  <2> QED
    BY <2>1, ReplacedResizedText
<1> QED
  BY <1>1, <1>2

LEMMA GrowText ==
  ASSUME NEW m, NEW R, Sound(m, R), m.ret = "OK", NEW n \in Nat, m.s.len < n, NEW byte \in Bytes,
         NEW o \in str_grow_content(m, n, byte)
  PROVE  Does(m, R, o, n, FALSE, [i \in 1..n |-> IF i <= m.s.len THEN Text(m)[i] ELSE byte])
<1>1. Roomy(m, R) /\ m.s.len \in Nat
  BY MachineType DEF Sound
<1>2. PICK c : c = str_calculate_capacity(m, n)
  OBVIOUS
<1>3. PICK e : /\ IF c.ret = "OK" THEN e \in str_ensure_capacity(c, n + 1) ELSE e = c
               /\ IF e.ret = "OK" THEN o = str_extend_content(e, n, byte) ELSE o = e
  <2>1. o \in Then(Then({c}, LAMBDA q : str_ensure_capacity(q, n + 1)),
                   LAMBDA q : {str_extend_content(q, n, byte)})
    BY <1>2, Zenon DEF str_grow_content
  <2>2. PICK e \in Then({c}, LAMBDA q : str_ensure_capacity(q, n + 1)) :
          IF e.ret = "OK" THEN o = str_extend_content(e, n, byte) ELSE o = e
    BY <2>1 DEF Then
  <2>3. IF c.ret = "OK" THEN e \in str_ensure_capacity(c, n + 1) ELSE e = c
    BY <2>2 DEF Then
  <2> QED
    BY <2>2, <2>3
<1>4. /\ c.heap = m.heap /\ c.s = m.s /\ Sound(c, R)
      /\ \/ c.ret = "OK" /\ n < SizeMax
         \/ c.ret = "ERR_OVERFLOW" /\ n >= SizeMax
  BY <1>2, CalculatedRoom
<1>5. CASE c.ret # "OK"
  BY <1>3, <1>4, <1>5 DEF Does, Refuses
<1>6. CASE c.ret = "OK"
  <2>1. \/ e.ret = "OK" /\ Grown(c, R, e, n)
        \/ e.ret = "ERR_ALLOC" /\ n >= c.s.cap
    BY <1>3, <1>4, <1>6, EnsuredRoom
  <2>2. CASE e.ret # "OK"
    BY <1>3, <1>4, <1>6, <2>1, <2>2 DEF Does, Refuses
  <2>3. CASE e.ret = "OK"
    <3>1. Grown(m, R, e, n) /\ Roomy(e, R)
      BY <1>4, <1>6, <2>1, <2>3 DEF Grown, SameText, Byte, Sound
    <3>2. Text(e) = Text(m) /\ e.s.len = m.s.len /\ e.s.status = m.s.status /\ e.ret = m.ret
      BY <1>1, <3>1, SameTextHeld DEF Grown, SameText
    <3>3. n < e.s.cap /\ e.s.cap > 0
      BY <3>1, MachineType DEF Grown
    <3>4. Wrote(e, R, o, [i \in 1..n |-> IF i <= e.s.len THEN Text(e)[i] ELSE byte])
      BY <1>3, <2>3, <3>1, <3>2, <3>3, ExtendedText
    <3>5. Wrote(m, R, o, [i \in 1..n |-> IF i <= m.s.len THEN Text(m)[i] ELSE byte])
      BY <3>2, <3>4, WroteSince
    <3> QED
      BY <1>4, <1>6, <3>5 DEF Does
  <2> QED
    BY <2>2, <2>3
<1> QED
  BY <1>5, <1>6

LEMMA ShrinkText ==
  ASSUME NEW m, NEW R, Sound(m, R), m.ret = "OK", m.s.cap > 0, NEW n, n = m.s.len + 1,
         NEW o \in str_shrink_heap(m, n)
  PROVE  Wrote(m, R, o, Text(m)) \/ o.ret = "ERR_ALLOC"
<1>1. /\ n \in 1..SizeMax /\ n \in Nat /\ m.s.len < n /\ m.s.len \in Nat /\ Roomy(m, R)
      /\ m.s.cap \in Nat /\ n <= m.s.cap
  <2>1. m.s.len \in Nat /\ m.s.cap \in Nat /\ m.s.len < m.s.cap /\ m.s.cap <= SizeMax /\ SizeMax \in Nat
    BY MachineType, StateType DEF Sound
  <2> QED
    BY <2>1 DEF Sound
<1>2. \/ o = m \/ o = With(m, "ERR_ALLOC")
      \/ \E a \in Realloc(m.heap, m.s.buf, n) : o = Rehoused(m, a, n)
  BY DEF str_shrink_heap, Rehoused
<1>3. CASE o = m
  BY <1>3, WroteNothing
<1>4. CASE o = With(m, "ERR_ALLOC")
  BY <1>4, StatusNames, Checked
<1>5. ASSUME NEW a \in Realloc(m.heap, m.s.buf, n), o = Rehoused(m, a, n)
      PROVE  Wrote(m, R, o, Text(m))
  <2>1. Moved(m, R, a, n) /\ o = Rehoused(m, a, n)
    BY <1>1, <1>5, ReallocMoves
  <2>2. Sound(o, R) /\ o.ret = m.ret /\ o.heap = a.heap
    BY <1>1, <2>1, BufferMoved
  <2>3. o.s.buf = a.buf /\ o.s.len = m.s.len /\ o.s.cap = n /\ o.s.status = m.s.status
    BY <1>1, <2>1, BufferMoved
  <2>4. Len(m.heap[m.s.buf]) = m.s.cap /\ IsHeap(m.heap)
    BY <1>1, OwnBlock, MachineType
  <2>5. \A i \in 1..n : i <= Len(m.heap[m.s.buf]) => a.heap[a.buf][i] = m.heap[m.s.buf][i]
    BY <1>1, <2>4, ReallocBytes
  <2>6. \A i \in 1..(m.s.len + 1) : i \in 1..n /\ i <= m.s.cap
    BY <1>1
  <2>7. \A i \in 1..(m.s.len + 1) : Byte(o, i) = Byte(m, i)
    BY <2>2, <2>3, <2>4, <2>5, <2>6 DEF Byte
  <2>8. SameText(m, o)
    BY <1>1, <2>3, <2>7 DEF SameText
  <2>9. Text(o) = Text(m) /\ Text(m) \in Seq(Cells)
    BY <1>1, <2>2, <2>8, SameTextHeld, TextIs DEF Sound
  <2> QED
    BY <2>2, <2>3, <2>9 DEF Wrote
<1> QED
  BY <1>2, <1>3, <1>4, <1>5

\* A string whose length is 0.
LEMMA NoText ==
  ASSUME NEW m, NEW R, Roomy(m, R), m.s.len = 0
  PROVE  Text(m) = <<>>
<1>1. Text(m) \in Seq(Cells) /\ Len(Text(m)) = 0
  BY TextIs
<1> QED
  BY <1>1

LEMMA DiscardedText ==
  ASSUME NEW m, NEW R, Sound(m, R), NEW o, o = Discarded(m)
  PROVE  /\ Sound(o, R) /\ o.ret = m.ret /\ o.s = STR_EMPTY /\ o.s.status = "OK" /\ Text(o) = <<>>
         /\ o.heap = Released(m.heap, m.s.buf)
<1>1. Sound(o, R) /\ o.ret = m.ret /\ o.s = STR_EMPTY /\ o.heap = Released(m.heap, m.s.buf)
  BY DiscardedSound
<1>2. o.s.len = 0 /\ o.s.status = "OK"
  BY <1>1 DEF STR_EMPTY
<1>3. Text(o) = <<>>
  BY <1>1, <1>2, NoText DEF Sound
<1> QED
  BY <1>1, <1>2, <1>3

\* A copy has the bytes of its source and a status of its own.
LEMMA CopyText ==
  ASSUME NEW m, NEW R, Sound(m, R), m.ret = "OK", NEW source \in StrState, source.len < SizeMax,
         source.buf = NULL \/ source.buf \in DOMAIN m.heap, NEW o \in CopyOf(m, source)
  PROVE  \/ /\ Sound(o, R) /\ o.ret = "OK" /\ o.s.status = "OK"
            /\ Text(o) = Load(m.heap, At(source.buf, 0), source.len)
         \/ o.ret = "ERR_ALLOC"
<1>1. PICK h, b, e, p : /\ h = m.heap /\ b = m.s.buf /\ e = [m EXCEPT !.s = STR_EMPTY]
                        /\ p = At(source.buf, 0)
  OBVIOUS
<1>2. /\ {"heap", "s", "ret"} \subseteq DOMAIN m /\ IsHeap(h) /\ m.ret \in Statuses
      /\ IF m.s.cap = 0 THEN b = NULL ELSE b \in DOMAIN h
  BY <1>1 DEF Sound, Roomy, IsMachine
<1>3. e.heap = h /\ e.s = STR_EMPTY /\ e.ret = "OK" /\ {"heap", "s", "ret"} \subseteq DOMAIN e
  BY <1>1, <1>2
<1>4. Sound(e, h)
  BY <1>2, <1>3, EmptySound
<1>5. p \in Place /\ source.len \in Nat /\ p.blk = source.buf
  BY <1>1, StateType, AtType DEF At
<1>6. PICK q \in str_set_valid_span(e, p, source.len) :
        o = IF q.ret = "OK" THEN [q EXCEPT !.heap = Released(q.heap, b)]
            ELSE [q EXCEPT !.heap = Discarded(q).heap, !.s = m.s]
  BY <1>1 DEF CopyOf
<1>7. Aimed(e, h, p) /\ ~Overlaps(e, p, source.len)
  BY <1>1, <1>3, <1>5, EmptyState DEF Aimed, Outside, Overlaps, str_find_allocation_offset
<1>8. Does(e, h, q, source.len, Overlaps(e, p, source.len), Load(h, p, source.len))
  BY <1>3, <1>4, <1>5, <1>6, <1>7, SetText
<1>9. Sound(q, h)
  <2>1. Kept(e, h, q)
    BY <1>3, <1>4, <1>5, <1>6, SetSpan
  <2> QED
    BY <2>1 DEF Kept
<1>10. {"heap", "s", "ret"} \subseteq DOMAIN q
  BY <1>9 DEF Sound, Roomy, IsMachine
<1>11. CASE q.ret = "OK"
  <2>1. Wrote(e, h, q, Load(h, p, source.len))
    BY <1>8, <1>11 DEF Does
  <2>2. o.heap = Released(q.heap, b) /\ o.s = q.s /\ o.ret = "OK"
    BY <1>6, <1>10, <1>11
  <2>3. Sound(o, R)
    <3>1. Answered(m, R, o)
      BY Copied
    <3> QED
      BY <3>1 DEF Answered
  <2>4. Roomy(q, h) /\ Roomy(o, R) /\ IsHeap(q.heap) /\ q.s.cap \in Nat
    BY <1>9, <2>3, MachineType DEF Sound
  <2>5. q.s.cap > 0 => o.heap[q.s.buf] = q.heap[q.s.buf]
    <3>1. q.s.cap > 0 => q.s.buf \in DOMAIN q.heap /\ q.s.buf # NULL /\ q.s.buf \notin DOMAIN h
      BY <2>4, OwnBlock DEF Roomy
    <3>2. \A c \in DOMAIN q.heap \ {b} : Released(q.heap, b)[c] = q.heap[c]
      BY <2>4, ReleasedHeap
    <3> QED
      BY <1>2, <2>2, <3>1, <3>2
  <2>6. Text(o) = Text(q)
    BY <2>2, <2>4, <2>5, TextElsewhere
  <2>7. o.s.status = "OK" /\ Text(q) = Load(h, p, source.len)
    BY <1>3, <2>1, <2>2 DEF Wrote, STR_EMPTY
  <2> QED
    BY <1>1, <2>2, <2>3, <2>6, <2>7
<1>12. CASE q.ret # "OK"
  <2>1. q.ret = "ERR_ALLOC"
    <3>1. ~(source.len >= SizeMax)
      BY <1>5, StrApiAssumption
    <3>2. Refuses(e, source.len, Overlaps(e, p, source.len), q.ret)
      BY <1>3, <1>8, <1>12 DEF Does, Wrote
    <3> QED
      BY <1>7, <3>1, <3>2 DEF Refuses
  <2>2. o.ret = q.ret
    BY <1>6, <1>10, <1>12
  <2> QED
    BY <2>1, <2>2
<1> QED
  BY <1>11, <1>12

-----------------------------------------------------------------------------
(* The bytes of a span, and the C string at a pointer.                      *)

\* z is w with a NUL behind it; its first NUL comes after l bytes.
NulBehind(w, z) ==
  /\ z \in Seq(Cells) /\ Len(z) = Len(w) + 1 /\ z[Len(w) + 1] = Nul /\ Len(w) \in Nat
  /\ \A i \in 1..Len(w) : z[i] = w[i]
NulAfter(z, l) == l \in Nat /\ z[l + 1] = Nul /\ \A i \in 1..l : z[i] # Nul

LEMMA FirstNul ==
  ASSUME NEW w \in Seq(Cells), NEW z, NulBehind(w, z), NEW l, NulAfter(z, l), l <= Len(w)
  PROVE  /\ UpToNul(w) \in Seq(Cells) /\ Len(UpToNul(w)) = l
         /\ \A i \in 1..l : UpToNul(w)[i] = z[i]
<1> PICK k \in Nat : k = Len(w)
  OBVIOUS
<1> l \in Nat /\ l <= k /\ z[l + 1] = Nul /\ z \in Seq(Cells)
  BY DEF NulAfter, NulBehind
<1> (\A i \in 1..k : z[i] = w[i]) /\ \A i \in 1..l : z[i] # Nul
  BY DEF NulAfter, NulBehind
<1> DEFINE stops == {i \in 1..Len(w) : w[i] = Nul}
<1>1. CASE l = k
  <2>1. stops = {}
    BY <1>1
  <2>2. UpToNul(w) = w
    BY <2>1, Zenon DEF UpToNul
  <2> QED
    BY <1>1, <2>2
<1>2. CASE l < k
  <2>1. l + 1 \in stops /\ stops # {}
    BY <1>2
  <2>2. stops \subseteq Nat
    OBVIOUS
  <2>3. Min(stops) \in stops /\ \A y \in stops : Min(stops) <= y
    BY <2>1, <2>2, MinIs
  <2>4. PICK c \in Nat : c = Min(stops) /\ c \in stops /\ c <= l + 1
    BY <2>1, <2>2, <2>3
  <2>5. w[c] = Nul /\ c \in 1..k
    BY <2>4
  <2>6. ~(c <= l)
    BY <2>5
  <2>7. c - 1 = l
    BY <2>4, <2>6
  <2>8. UpToNul(w) = SubSeq(w, 1, Min(stops) - 1)
    BY <2>1, Zenon DEF UpToNul, Min
  <2>9. UpToNul(w) = SubSeq(w, 1, l)
    BY <2>4, <2>7, <2>8
  <2>10. /\ SubSeq(w, 1, l) \in Seq(Cells) /\ Len(SubSeq(w, 1, l)) = l
         /\ \A i \in 1..l : SubSeq(w, 1, l)[i] = w[i]
    BY <1>2
  <2>11. \A i \in 1..l : w[i] = z[i]
    BY <1>2
  <2> QED
    BY <2>9, <2>10, <2>11
<1> QED
  BY <1>1, <1>2

IsNuls(T, z) == \A i : i \in T <=> i \in 1..Len(z) /\ z[i] = Nul

LEMMA NulFound ==
  ASSUME NEW w \in Seq(Cells), NEW z, NulBehind(w, z), NEW T, IsNuls(T, z), NEW l, l = Min(T) - 1
  PROVE  /\ T # {} /\ l \in Nat /\ l <= Len(w)
         /\ UpToNul(w) \in Seq(Cells) /\ Len(UpToNul(w)) = l
         /\ \A i \in 1..l : UpToNul(w)[i] = z[i]
<1>1. \A i : i \in T <=> i \in 1..Len(z) /\ z[i] = Nul
  BY DEF IsNuls
<1>2. /\ z \in Seq(Cells) /\ Len(z) = Len(w) + 1 /\ z[Len(w) + 1] = Nul /\ Len(w) \in Nat
      /\ \A i \in 1..Len(w) : z[i] = w[i]
  BY DEF NulBehind
<1>3. Len(w) + 1 \in T
  BY <1>1, <1>2
<1>4. T \subseteq Nat
  BY <1>1
<1>5. Min(T) \in T /\ \A y \in T : Min(T) <= y
  BY <1>3, <1>4, MinIs, Zenon
<1>6. Min(T) \in 1..(Len(w) + 1) /\ z[Min(T)] = Nul
  BY <1>1, <1>2, <1>5
<1>7. \A i \in 1..(Len(w) + 1) : i < Min(T) => z[i] # Nul
  <2> TAKE i \in 1..(Len(w) + 1)
  <2>1. i \in Nat
    BY <1>2
  <2>2. z[i] = Nul => i \in T
    BY <1>1, <1>2
  <2>3. z[i] = Nul => Min(T) <= i
    BY <1>5, <2>2
  <2>4. Min(T) \in Nat
    BY <1>2, <1>6
  <2>5. i < Min(T) => ~(Min(T) <= i)
    BY ONLY <2>1, <2>4
  <2> QED
    BY ONLY <2>3, <2>5
<1> HIDE DEF Min
<1>8. /\ l \in Nat /\ l <= Len(w) /\ l + 1 = Min(T)
  BY ONLY <1>2, <1>6, l = Min(T) - 1
<1>9. z[l + 1] = Nul
  BY <1>6, <1>8
<1>10. \A i \in 1..l : z[i] # Nul
  BY ONLY <1>2, <1>7, <1>8
<1>11. /\ UpToNul(w) \in Seq(Cells) /\ Len(UpToNul(w)) = l
       /\ \A i \in 1..l : UpToNul(w)[i] = z[i]
  <2>1. NulAfter(z, l)
    BY <1>8, <1>9, <1>10 DEF NulAfter
  <2>2. l <= Len(w) /\ w \in Seq(Cells) /\ NulBehind(w, z)
    BY <1>8
  <2>3. UpToNul(w) \in Seq(Cells)
    BY ONLY <2>1, <2>2, FirstNul
  <2>4. Len(UpToNul(w)) = l
    BY ONLY <2>1, <2>2, FirstNul
  <2>5. \A i \in 1..l : UpToNul(w)[i] = z[i]
    BY ONLY <2>1, <2>2, FirstNul
  <2> QED
    BY ONLY <2>3, <2>4, <2>5
<1> QED
  BY <1>3, <1>8, <1>11

\* Reading fewer bytes from the same place.
LEMMA LoadPrefix ==
  ASSUME NEW h, NEW p, NEW n \in Nat, NEW l \in Nat, l <= n
  PROVE  \A i \in 1..l : Load(h, p, l)[i] = Load(h, p, n)[i]
<1> DEFINE bytes == CASE p.blk = CALLER     -> p.bytes
                      [] p.blk \in DOMAIN h -> h[p.blk]
                      [] OTHER              -> <<>>
           Cell(i) == IF p.off + i <= Len(bytes) THEN bytes[p.off + i] ELSE Junk
<1>1. Load(h, p, l) = [i \in 1..l |-> Cell(i)] /\ Load(h, p, n) = [i \in 1..n |-> Cell(i)]
  BY Zenon DEF Load
<1> HIDE DEF Cell
<1> QED
  BY <1>1

LEMMA MeasuredText ==
  ASSUME NEW m, NEW R, Sound(m, R), NEW p \in Place, NEW w \in Seq(Cells), NEW n \in Nat,
         n = IF str_find_allocation_offset(m.s, p) THEN (m.s.len - p.off) + 1 ELSE Len(p.bytes),
         Load(m.heap, p, n) = Append(w, Nul)
  PROVE  /\ NulsAt(m, p) # {} /\ CStringLen(m, p) \in Nat /\ CStringLen(m, p) <= Len(w)
         /\ Load(m.heap, p, CStringLen(m, p)) = UpToNul(w)
<1>1. PICK z : z = Append(w, Nul) /\ z = Load(m.heap, p, n)
  OBVIOUS
<1>2. IsHeap(m.heap)
  BY MachineType DEF Sound
<1>3. Len(z) = n /\ n = Len(w) + 1
  BY <1>1, <1>2, LoadType
<1>4. PICK T : T = NulsAt(m, p)
  OBVIOUS
<1>5. T = {i \in 1..Len(z) : z[i] = Nul}
  <2>1. NulsAt(m, p) = {i \in 1..n : Load(m.heap, p, n)[i] = Nul}
    BY Zenon DEF NulsAt
  <2> QED
    BY <1>1, <1>3, <1>4, <2>1
<1>6. PICK l : l = CStringLen(m, p) /\ l = Min(T) - 1
  BY <1>4 DEF CStringLen
<1>7. /\ T # {} /\ l \in Nat /\ l <= Len(w)
      /\ UpToNul(w) \in Seq(Cells) /\ Len(UpToNul(w)) = l
      /\ \A i \in 1..l : UpToNul(w)[i] = z[i]
  <2>1. IsNuls(T, z)
    BY <1>5 DEF IsNuls
  <2>2. NulBehind(w, z)
    <3>1. Nul \in Cells
      BY StrApiAssumption DEF Cells
    <3> QED
      BY <1>1, <3>1 DEF NulBehind
  <2>3. w \in Seq(Cells) /\ l = Min(T) - 1
    BY <1>6
  <2> QED
    BY ONLY <2>1, <2>2, <2>3, NulFound
<1>8. l <= n
  BY <1>3, <1>7
<1>9. PICK u : u = Load(m.heap, p, l) /\ u \in Seq(Cells) /\ Len(u) = l
  BY <1>2, <1>7, LoadType
<1>10. \A i \in 1..l : u[i] = z[i]
  BY <1>1, <1>7, <1>8, <1>9, LoadPrefix
<1>11. u = UpToNul(w)
  <2>1. \A i \in 1..Len(u) : u[i] = UpToNul(w)[i]
    BY <1>7, <1>9, <1>10
  <2> QED
    BY <1>7, <1>9, <2>1, SameSequence
<1> QED
  BY <1>4, <1>6, <1>7, <1>9, <1>11

\* The string's own storage, up to and with its terminator.
LEMMA SelfBytes ==
  ASSUME NEW m, NEW R, Sound(m, R), m.s.cap > 0, NEW p \in Place, p.blk = m.s.buf, NEW n \in Nat,
         p.off + n <= m.s.len + 1
  PROVE  Load(m.heap, p, n) = SubSeq(Append(Text(m), Nul), p.off + 1, p.off + n)
<1>1. Roomy(m, R) /\ IsHeap(m.heap) /\ p.off \in Nat
  BY MachineType DEF Sound, Place
<1>2. m.s.len \in Nat /\ m.s.cap \in Nat /\ m.s.len < m.s.cap
  BY <1>1, OwnBlock
<1>3. PICK v : v = Text(m) /\ v \in Seq(Cells) /\ Len(v) = m.s.len /\ \A i \in 1..m.s.len : v[i] = Byte(m, i)
  BY <1>1, TextIs
<1>4. Byte(m, m.s.len + 1) = Nul
  BY DEF Sound, Terminated, Byte
<1>5. PICK z : /\ z = Append(v, Nul) /\ z \in Seq(Cells) /\ Len(z) = m.s.len + 1
               /\ \A i \in 1..(m.s.len + 1) : z[i] = Byte(m, i)
  <2>1. Nul \in Cells
    BY StrApiAssumption DEF Cells
  <2>2. /\ Append(v, Nul) \in Seq(Cells) /\ Len(Append(v, Nul)) = m.s.len + 1
        /\ Append(v, Nul)[m.s.len + 1] = Nul /\ \A i \in 1..m.s.len : Append(v, Nul)[i] = v[i]
    BY <1>3, <2>1
  <2>3. \A i \in 1..(m.s.len + 1) : i = m.s.len + 1 \/ i \in 1..m.s.len
    BY <1>2
  <2> QED
    BY <1>3, <1>4, <2>2, <2>3
<1>6. PICK w : w = Load(m.heap, p, n) /\ w \in Seq(Cells) /\ Len(w) = n
  BY <1>1, LoadType
<1>7. \A i \in 1..n : w[i] = Byte(m, p.off + i)
  <2>1. p.off + n <= m.s.cap
    BY <1>1, <1>2
  <2> QED
    BY <1>1, <1>6, <2>1, OwnLoad
<1>8. PICK off : off = p.off /\ off \in Nat /\ off + n <= Len(z)
  BY <1>1, <1>5
<1>9. /\ SubSeq(z, off + 1, off + n) \in Seq(Cells) /\ Len(SubSeq(z, off + 1, off + n)) = n
      /\ \A i \in 1..n : SubSeq(z, off + 1, off + n)[i] = z[off + i]
  <2>1. z \in Seq(Cells)
    BY <1>5
  <2> QED
    BY <1>8, <2>1, SubSeqIs, Zenon
<1>10. \A i \in 1..n : z[off + i] = Byte(m, p.off + i)
  <2>1. \A i \in 1..n : off + i \in 1..(m.s.len + 1)
    BY <1>5, <1>8
  <2> QED
    BY <1>5, <1>8, <2>1
<1>11. w = SubSeq(z, off + 1, off + n)
  <2>1. \A i \in 1..Len(w) : w[i] = SubSeq(z, off + 1, off + n)[i]
    BY <1>6, <1>7, <1>9, <1>10
  <2> QED
    BY <1>6, <1>9, <2>1, SameSequence
<1> QED
  BY <1>3, <1>5, <1>6, <1>8, <1>11

LEMMA TailIs ==
  ASSUME NEW v \in Seq(Cells), NEW off \in Nat, off <= Len(v)
  PROVE  /\ SubSeq(v, off + 1, Len(v)) \in Seq(Cells) /\ Len(SubSeq(v, off + 1, Len(v))) = Len(v) - off
         /\ SubSeq(Append(v, Nul), off + 1, Len(v) + 1) = Append(SubSeq(v, off + 1, Len(v)), Nul)
<1>1. Nul \in Cells
  BY StrApiAssumption DEF Cells
<1>2. /\ Append(v, Nul) \in Seq(Cells) /\ Len(Append(v, Nul)) = Len(v) + 1
      /\ Append(v, Nul)[Len(v) + 1] = Nul /\ Len(v) \in Nat
      /\ \A i \in 1..Len(v) : Append(v, Nul)[i] = v[i]
  BY <1>1
<1>3. PICK n \in Nat : n = Len(v)
  BY <1>2
<1>4. PICK z \in Seq(Cells) : /\ z = Append(v, Nul) /\ Len(z) = n + 1 /\ z[n + 1] = Nul
                              /\ \A i \in 1..n : z[i] = v[i]
  BY <1>2, <1>3
<1>5. PICK k \in Nat : k = n - off /\ off + k = n /\ off + (k + 1) = n + 1
  <2>1. off <= n
    BY <1>3
  <2>2. n - off \in Nat /\ off + (n - off) = n /\ off + ((n - off) + 1) = n + 1
    BY <2>1
  <2> QED
    BY <2>2
<1>6. PICK t \in Seq(Cells) : /\ t = SubSeq(v, off + 1, off + k) /\ Len(t) = k
                              /\ \A i \in 1..k : t[i] = v[off + i]
  <2>1. off + k <= Len(v)
    BY <1>3, <1>5
  <2>2. /\ SubSeq(v, off + 1, off + k) \in Seq(Cells) /\ Len(SubSeq(v, off + 1, off + k)) = k
        /\ \A i \in 1..k : SubSeq(v, off + 1, off + k)[i] = v[off + i]
    BY <2>1, SubSeqIs, Zenon
  <2> QED
    BY <2>2
<1>7. PICK u \in Seq(Cells) : /\ u = SubSeq(z, off + 1, off + (k + 1)) /\ Len(u) = k + 1
                              /\ \A i \in 1..(k + 1) : u[i] = z[off + i]
  <2>1. off + (k + 1) <= Len(z) /\ k + 1 \in Nat
    BY <1>4, <1>5
  <2>2. /\ SubSeq(z, off + 1, off + (k + 1)) \in Seq(Cells) /\ Len(SubSeq(z, off + 1, off + (k + 1))) = k + 1
        /\ \A i \in 1..(k + 1) : SubSeq(z, off + 1, off + (k + 1))[i] = z[off + i]
    BY <2>1, SubSeqIs, Zenon
  <2> QED
    BY <2>2
<1>8. PICK s \in Seq(Cells) : /\ s = Append(t, Nul) /\ Len(s) = k + 1 /\ s[k + 1] = Nul
                              /\ \A i \in 1..k : s[i] = t[i]
  <2>1. /\ Append(t, Nul) \in Seq(Cells) /\ Len(Append(t, Nul)) = Len(t) + 1
        /\ Append(t, Nul)[Len(t) + 1] = Nul /\ \A i \in 1..Len(t) : Append(t, Nul)[i] = t[i]
    BY <1>1
  <2> QED
    BY <1>6, <2>1
<1>9. \A i \in 1..(k + 1) : u[i] = s[i]
  <2> TAKE i \in 1..(k + 1)
  <2>1. CASE i \in 1..k
    <3>1. off + i \in 1..n
      BY <1>5, <2>1
    <3>2. u[i] = z[off + i] /\ z[off + i] = v[off + i]
      BY <1>4, <1>7, <3>1
    <3>3. s[i] = t[i] /\ t[i] = v[off + i]
      BY <1>6, <1>8, <2>1
    <3> QED
      BY <3>2, <3>3
  <2>2. CASE i = k + 1
    <3>1. u[i] = z[off + (k + 1)]
      BY <1>7, <2>2
    <3> QED
      BY <1>4, <1>5, <1>8, <2>2, <3>1
  <2> QED
    BY <2>1, <2>2
<1>10. u = s
  <2>1. Len(u) = Len(s) /\ \A i \in 1..Len(u) : u[i] = s[i]
    BY <1>7, <1>8, <1>9
  <2> QED
    BY <2>1, SameSequence
<1> QED
  BY <1>3, <1>4, <1>5, <1>6, <1>7, <1>8, <1>10

LEMMA WithNul ==
  ASSUME NEW w \in Seq(Cells)
  PROVE  \E z \in Seq(Cells) :
           z = Append(w, Nul) /\ Len(z) = Len(w) + 1 /\ \A i \in 1..Len(w) : z[i] = w[i]
<1>1. Nul \in Cells
  BY StrApiAssumption DEF Cells
<1>2. Append(w, Nul) \in Seq(Cells)
  BY <1>1
<1>3. Len(Append(w, Nul)) = Len(w) + 1 /\ \A i \in 1..Len(w) : Append(w, Nul)[i] = w[i]
  BY <1>1
<1> QED
  BY <1>2, <1>3, Zenon

LEMMA ValueCString ==
  ASSUME NEW v, NEW span
  PROVE  /\ span.at # "self" => Value!CString(v, span) = UpToNul(span.bytes)
         /\ span.at = "self" => Value!CString(v, span) = UpToNul(SubSeq(v, span.off + 1, Len(v)))
<1> DEFINE w == IF span.at = "self" THEN SubSeq(v, span.off + 1, Len(v)) ELSE span.bytes
<1>1. Value!CString(v, span) = Value!UpToNul(w)
  BY Zenon DEF Value!CString
<1>2. Value!UpToNul(w) = UpToNul(w)
  BY Zenon DEF Value!UpToNul, UpToNul
<1>3. /\ span.at = "self" => w = SubSeq(v, span.off + 1, Len(v))
      /\ span.at # "self" => w = span.bytes
  OBVIOUS
<1> HIDE DEF w
<1> QED
  BY <1>1, <1>2, <1>3, Zenon

\* A span as a caller may pass it to the string of m.
Borrowed(m, span) ==
  \/ span.at = "null" /\ span.n \in {0, 1} /\ span.bytes = <<>>
  \/ span.at = "caller" /\ span.bytes \in Seq(Bytes) /\ span.n = Len(span.bytes)
  \/ span.at = "self" /\ m.s.cap > 0 /\ span.off \in Nat /\ span.off < m.s.cap /\ span.n \in Nat \ {0}

LEMMA SpanBorrowed ==
  ASSUME StrInv, NEW x \in Strings, NEW span \in Spans(x) \cup CStrings(x)
  PROVE  Borrowed(Machine(x), span)
<1>1. str[x] \in StrState /\ str[x].cap \in Nat /\ SizeMax \in Nat /\ Machine(x).s = str[x]
  BY MachineSound, StateType
<1>2. CASE span \in {NullSpan(0), NullSpan(1)}
  BY <1>2 DEF NullSpan, Borrowed
<1>3. ASSUME NEW w \in CallerSpans, span = CallerSpan(w)
      PROVE  Borrowed(Machine(x), span)
  <2>1. w \in Seq(Bytes)
    BY StrApiAssumption
  <2> QED
    BY <1>3, <2>1 DEF CallerSpan, Borrowed
<1>4. ASSUME NEW off \in 0..(str[x].cap - 1), NEW n \in 1..SizeMax, span = SelfSpan(off, n)
      PROVE  Borrowed(Machine(x), span)
  <2>1. span.at = "self" /\ span.off = off /\ span.n = n
    BY <1>4 DEF SelfSpan
  <2>2. off \in Nat /\ off < str[x].cap /\ str[x].cap > 0 /\ n \in Nat \ {0}
    BY <1>1
  <2> QED
    BY <1>1, <2>1, <2>2 DEF Borrowed
<1>5. 1 \in 1..SizeMax
  BY StrApiAssumption
<1> QED
  BY <1>2, <1>3, <1>4, <1>5 DEF Spans, CStrings

LEMMA PointerIs ==
  ASSUME NEW m, NEW R, Sound(m, R), NEW span, Borrowed(m, span), NEW p, p = Pointer(m.s, span)
  PROVE  /\ p \in Place /\ Aimed(m, R, p) /\ span.n \in Nat
         /\ span.at = "null" => p.blk = NULL
         /\ span.at = "caller" => p.blk = CALLER
         /\ span.at = "caller" => p = [blk |-> CALLER, off |-> 0, bytes |-> Append(span.bytes, Nul)]
         /\ span.at = "self" => p.blk = m.s.buf /\ p.off = span.off
<1>1. Roomy(m, R) /\ m.s.buf \in Nat /\ NULL \in Int /\ 0 \in Nat
  BY MachineType DEF Sound, NULL
<1>2. CASE span.at = "null" /\ span.n \in {0, 1}
  <2>1. p = At(NULL, 0) /\ At(NULL, 0) \in Place /\ p.blk = NULL
    BY <1>1, <1>2, AtType DEF Pointer, At
  <2> QED
    BY <1>2, <2>1 DEF Aimed, Outside
<1>3. CASE span.at = "caller" /\ span.bytes \in Seq(Bytes) /\ span.n = Len(span.bytes)
  <2>1. PICK w \in Seq(Bytes) : w = span.bytes
    BY <1>3
  <2>2. Nul \in Bytes
    BY StrApiAssumption
  <2>3. Append(w, Nul) \in Seq(Bytes) /\ Len(w) \in Nat
    BY <2>2
  <2>4. p = [blk |-> CALLER, off |-> 0, bytes |-> Append(w, Nul)] /\ p.blk = CALLER
    BY <1>3, <2>1 DEF Pointer
  <2>5. p \in Place
    BY <2>3, <2>4 DEF Place, CALLER
  <2> QED
    BY <1>3, <2>1, <2>3, <2>4, <2>5 DEF Aimed, Outside
<1>4. CASE span.at = "self" /\ m.s.cap > 0 /\ span.off \in Nat /\ span.off < m.s.cap /\ span.n \in Nat \ {0}
  <2>1. p = At(m.s.buf, span.off) /\ p.blk = m.s.buf /\ p.off = span.off
    BY <1>4 DEF Pointer, At
  <2>2. p \in Place
    BY <1>1, <1>4, <2>1, AtType
  <2> QED
    BY <1>4, <2>1, <2>2 DEF Aimed
<1> QED
  BY <1>2, <1>3, <1>4 DEF Borrowed

SameBytes(l, w, n) == \A i \in 1..n : l[i] = w[i]

LEMMA CallerLoad ==
  ASSUME NEW h, IsHeap(h), NEW w \in Seq(Cells), NEW p, p.blk = CALLER, p.off = 0, p.bytes = w,
         NEW n \in Nat, n <= Len(w)
  PROVE  SameBytes(Load(h, p, n), w, n)
<1> DEFINE bytes == CASE p.blk = CALLER     -> p.bytes
                      [] p.blk \in DOMAIN h -> h[p.blk]
                      [] OTHER              -> <<>>
           Cell(i) == IF p.off + i <= Len(bytes) THEN bytes[p.off + i] ELSE Junk
<1>1. Load(h, p, n) = [i \in 1..n |-> Cell(i)]
  BY Zenon DEF Load
<1>2. CALLER \notin DOMAIN h
  BY DEF IsHeap, CALLER
<1>3. bytes = w
  BY <1>2
<1> HIDE DEF bytes
<1>4. \A i \in 1..n : Cell(i) = w[i]
  BY <1>3
<1> HIDE DEF Cell
<1> QED
  BY <1>1, <1>4 DEF SameBytes

\* A span is read as what it stands for, or reaches out of the string it lies in.
LEMMA SpanRead ==
  ASSUME NEW m, NEW R, Sound(m, R), NEW span, Borrowed(m, span), NEW p, p = Pointer(m.s, span),
         ~(span.n > 0 /\ span.at = "null")
  PROVE  /\ Overlaps(m, p, span.n) <=> span.at = "self" /\ span.off + span.n > Len(Text(m)) + 1
         /\ ~Overlaps(m, p, span.n) => Load(m.heap, p, span.n) = Value!SpanBytes(Text(m), span)
<1>1. /\ Roomy(m, R) /\ IsHeap(m.heap) /\ m.s.buf \in Nat
      /\ p \in Place /\ Aimed(m, R, p) /\ span.n \in Nat
      /\ span.at = "null" => p.blk = NULL
      /\ span.at = "caller" => p = [blk |-> CALLER, off |-> 0, bytes |-> Append(span.bytes, Nul)]
      /\ span.at = "self" => p.blk = m.s.buf /\ p.off = span.off
  <2>1. Roomy(m, R) /\ IsHeap(m.heap) /\ m.s.buf \in Nat
    BY MachineType DEF Sound
  <2>2. p \in Place /\ Aimed(m, R, p) /\ span.n \in Nat
    BY PointerIs
  <2>3. span.at = "null" => p.blk = NULL
    BY PointerIs
  <2>4. span.at = "caller" => p = [blk |-> CALLER, off |-> 0, bytes |-> Append(span.bytes, Nul)]
    BY DEF Pointer
  <2>5. span.at = "self" => p.blk = m.s.buf /\ p.off = span.off
    BY PointerIs
  <2> QED
    BY <2>1, <2>2, <2>3, <2>4, <2>5
<1>2. Len(Text(m)) = m.s.len /\ m.s.len \in Nat
  BY <1>1, TextIs
<1>3. CASE span.at = "null" /\ span.n \in {0, 1} /\ span.bytes = <<>>
  <2>1. span.n = 0
    BY <1>3
  <2>2. Value!SpanBytes(Text(m), span) = <<>>
    BY <1>3 DEF Value!SpanBytes
  <2>3. Load(m.heap, p, 0) = <<>>
    BY <1>1, NoBytes
  <2>4. ~Overlaps(m, p, span.n)
    BY <2>1 DEF Overlaps
  <2> QED
    BY <1>3, <2>1, <2>2, <2>3, <2>4
<1>4. CASE span.at = "caller" /\ span.bytes \in Seq(Bytes) /\ span.n = Len(span.bytes)
  <2>1. PICK w \in Seq(Cells) : w = span.bytes /\ Len(w) = span.n
    BY <1>4 DEF Cells
  <2>2. PICK z \in Seq(Cells) : z = Append(w, Nul) /\ Len(z) = Len(w) + 1 /\ \A i \in 1..Len(w) : z[i] = w[i]
    BY WithNul
  <2>3. p.blk = CALLER /\ p.off = 0 /\ p.bytes = z
    BY <1>1, <1>4, <2>1, <2>2
  <2>4. ~Overlaps(m, p, span.n)
    BY <1>1, <2>3 DEF Overlaps, str_find_allocation_offset, CALLER
  <2>5. PICK n \in Nat : n = span.n /\ n = Len(w) /\ n <= Len(z)
    BY <1>1, <2>1, <2>2
  <2>6. Load(m.heap, p, n) \in Seq(Cells) /\ Len(Load(m.heap, p, n)) = n
    BY <1>1, LoadType
  <2>7. \A i \in 1..n : Load(m.heap, p, n)[i] = z[i]
    <3>1. SameBytes(Load(m.heap, p, n), z, n)
      BY <1>1, <2>3, <2>5, CallerLoad
    <3> QED
      BY <3>1 DEF SameBytes
  <2>8. Load(m.heap, p, n) = w
    <3>1. Len(Load(m.heap, p, n)) = Len(w) /\ \A i \in 1..Len(Load(m.heap, p, n)) : Load(m.heap, p, n)[i] = w[i]
      BY <2>2, <2>5, <2>6, <2>7
    <3> QED
      BY <2>6, <3>1, SameSequence
  <2>9. Value!SpanBytes(Text(m), span) = w
    BY <1>4, <2>1 DEF Value!SpanBytes
  <2> QED
    BY <1>4, <2>4, <2>5, <2>8, <2>9
<1>5. CASE span.at = "self" /\ m.s.cap > 0 /\ span.off \in Nat /\ span.off < m.s.cap /\ span.n \in Nat \ {0}
  <2>1. m.s.buf # NULL /\ m.s.cap \in Nat
    BY <1>1, <1>5, OwnBlock
  <2>2. str_find_allocation_offset(m.s, p)
    BY <1>1, <1>5, <2>1 DEF str_find_allocation_offset
  <2>3. Overlaps(m, p, span.n) <=> span.off + span.n > m.s.len + 1
    BY <1>1, <1>2, <1>5, <2>2 DEF Overlaps
  <2>4. ASSUME ~Overlaps(m, p, span.n)
        PROVE  Load(m.heap, p, span.n) = Value!SpanBytes(Text(m), span)
    <3>1. p.off + span.n <= m.s.len + 1
      BY <1>1, <1>2, <1>5, <2>3, <2>4
    <3>2. Load(m.heap, p, span.n) = SubSeq(Append(Text(m), Nul), p.off + 1, p.off + span.n)
      BY <1>1, <1>5, <3>1, SelfBytes
    <3> QED
      BY <1>1, <1>5, <3>2 DEF Value!SpanBytes
  <2> QED
    BY <1>2, <1>5, <2>3, <2>4
<1> QED
  BY <1>3, <1>4, <1>5 DEF Borrowed

\* A C string that starts where it may is read up to its first NUL.
LEMMA CStringAt ==
  ASSUME NEW m, NEW R, Sound(m, R), NEW span, Borrowed(m, span), NEW p, p = Pointer(m.s, span),
         span.at # "null", span.at = "self" => span.off <= m.s.len
  PROVE  /\ NulsAt(m, p) # {} /\ CStringLen(m, p) \in Nat /\ ~Overlaps(m, p, CStringLen(m, p))
         /\ Load(m.heap, p, CStringLen(m, p)) = Value!CString(Text(m), span)
<1>1. /\ Roomy(m, R) /\ IsHeap(m.heap) /\ m.s.buf \in Nat /\ p \in Place
      /\ span.at = "caller" => p = [blk |-> CALLER, off |-> 0, bytes |-> Append(span.bytes, Nul)]
      /\ span.at = "self" => p.blk = m.s.buf /\ p.off = span.off
  BY PointerIs, MachineType, SMTT(30) DEF Sound
<1>2. PICK v \in Seq(Cells) : v = Text(m) /\ Len(v) = m.s.len /\ m.s.len \in Nat
  BY <1>1, TextIs
<1>3. CASE span.at = "caller" /\ span.bytes \in Seq(Bytes) /\ span.n = Len(span.bytes)
  <2>1. PICK w \in Seq(Cells) : w = span.bytes
    BY <1>3 DEF Cells
  <2>2. PICK z \in Seq(Cells) : z = Append(w, Nul)
    BY WithNul
  <2>3. p.blk = CALLER /\ p.off = 0 /\ p.bytes = z
    BY <1>1, <1>3, <2>1, <2>2
  <2>4. ~str_find_allocation_offset(m.s, p)
    BY <1>1, <2>3 DEF str_find_allocation_offset, CALLER
  <2>5. PICK n \in Nat : n = Len(z)
    BY <2>2
  <2>6. Load(m.heap, p, n) \in Seq(Cells) /\ Len(Load(m.heap, p, n)) = n
    BY <1>1, LoadType
  <2>7. \A i \in 1..n : Load(m.heap, p, n)[i] = z[i]
    <3>1. IsHeap(m.heap) /\ p.blk = CALLER /\ p.off = 0 /\ p.bytes = z /\ n <= Len(z)
      BY <1>1, <2>3, <2>5
    <3>2. SameBytes(Load(m.heap, p, n), z, n)
      BY <3>1, CallerLoad
    <3> QED
      BY <3>2 DEF SameBytes
  <2>8. Load(m.heap, p, n) = z
    BY <2>5, <2>6, <2>7, SameSequence
  <2>9. n = IF str_find_allocation_offset(m.s, p) THEN (m.s.len - p.off) + 1 ELSE Len(p.bytes)
    BY <2>3, <2>4, <2>5
  <2>10. /\ NulsAt(m, p) # {} /\ CStringLen(m, p) \in Nat
         /\ Load(m.heap, p, CStringLen(m, p)) = UpToNul(w)
    <3>1. Load(m.heap, p, n) = Append(w, Nul)
      BY <2>2, <2>8
    <3> QED
      BY <1>1, <2>9, <3>1, MeasuredText
  <2>11. Value!CString(Text(m), span) = UpToNul(w)
    BY <1>3, <2>1, ValueCString
  <2> QED
    BY <2>4, <2>10, <2>11 DEF Overlaps
<1>4. CASE span.at = "self" /\ m.s.cap > 0 /\ span.off \in Nat /\ span.off < m.s.cap /\ span.n \in Nat \ {0}
  <2>1. m.s.buf # NULL /\ m.s.cap \in Nat
    BY <1>1, <1>4, OwnBlock
  <2>2. str_find_allocation_offset(m.s, p)
    BY <1>1, <1>4, <2>1 DEF str_find_allocation_offset
  <2>3. PICK off \in Nat : off = span.off /\ off = p.off /\ off <= Len(v)
    BY <1>1, <1>2, <1>4
  <2>4. PICK t : /\ t = SubSeq(v, off + 1, Len(v)) /\ t \in Seq(Cells) /\ Len(t) = Len(v) - off
                 /\ SubSeq(Append(v, Nul), off + 1, Len(v) + 1) = Append(t, Nul)
    <3>1. /\ SubSeq(v, off + 1, Len(v)) \in Seq(Cells) /\ Len(SubSeq(v, off + 1, Len(v))) = Len(v) - off
          /\ SubSeq(Append(v, Nul), off + 1, Len(v) + 1) = Append(SubSeq(v, off + 1, Len(v)), Nul)
      BY <2>3, TailIs, Zenon
    <3> QED
      BY <3>1
  <2>5. PICK n \in Nat : n = (m.s.len - p.off) + 1 /\ off + n = Len(v) + 1
    BY <1>2, <2>3
  <2>6. Load(m.heap, p, n) = SubSeq(Append(Text(m), Nul), p.off + 1, p.off + n)
    <3>1. p.off + n <= m.s.len + 1
      BY <1>2, <2>3, <2>5, SMTT(30)
    <3> QED
      BY <1>1, <1>4, <3>1, SelfBytes
  <2>7. Load(m.heap, p, n) = Append(t, Nul)
    BY <1>2, <2>3, <2>4, <2>5, <2>6
  <2>8. n = IF str_find_allocation_offset(m.s, p) THEN (m.s.len - p.off) + 1 ELSE Len(p.bytes)
    BY <2>2, <2>5
  <2>9. /\ NulsAt(m, p) # {} /\ CStringLen(m, p) \in Nat /\ CStringLen(m, p) <= Len(t)
        /\ Load(m.heap, p, CStringLen(m, p)) = UpToNul(t)
    BY <1>1, <2>4, <2>7, <2>8, MeasuredText, ZenonT(60)
  <2>10. Value!CString(Text(m), span) = UpToNul(t)
    <3>1. t = SubSeq(Text(m), span.off + 1, Len(Text(m)))
      BY <1>2, <2>3, <2>4
    <3> QED
      BY <1>4, <3>1, ValueCString, Zenon
  <2>11. ~Overlaps(m, p, CStringLen(m, p))
    <3>1. PICK l \in Nat : l = CStringLen(m, p) /\ l <= Len(v) - off
      BY <2>4, <2>9
    <3> QED
      BY <1>2, <2>3, <3>1 DEF Overlaps
  <2> QED
    BY <2>9, <2>10, <2>11
<1> QED
  BY <1>3, <1>4 DEF Borrowed

\* The argument of a mutator that takes a C string is refused, or measured.
LEMMA CStringRead ==
  ASSUME NEW m, NEW R, Sound(m, R), NEW span, Borrowed(m, span), NEW p, p = Pointer(m.s, span),
         NEW o \in str_measure_c_string_input(m, p)
  PROVE  /\ o.heap = m.heap /\ o.s = m.s /\ Sound(o, R)
         /\ \/ o.ret = "ERR_ARG" /\ (span.at = "null" \/ (span.at = "self" /\ span.off > Len(Text(m))))
            \/ /\ o.ret = "OK" /\ span.at # "null" /\ ~(span.at = "self" /\ span.off > Len(Text(m)))
               /\ CStringLen(o, p) \in Nat /\ ~Overlaps(o, p, CStringLen(o, p))
               /\ Load(o.heap, p, CStringLen(o, p)) = Value!CString(Text(m), span)
<1>1. /\ Roomy(m, R) /\ m.s.buf \in Nat /\ p \in Place
      /\ span.at = "null" => p.blk = NULL
      /\ span.at = "caller" => p.blk = CALLER
      /\ span.at = "self" => p.blk = m.s.buf /\ p.off = span.off
  <2>1. Roomy(m, R) /\ m.s.buf \in Nat
    BY MachineType DEF Sound
  <2>2. span.at = "null" => p.blk = NULL
    BY PointerIs
  <2>3. span.at = "caller" => p.blk = CALLER
    BY PointerIs
  <2>4. p \in Place
    BY PointerIs
  <2>5. span.at = "self" => p.blk = m.s.buf /\ p.off = span.off
    BY PointerIs
  <2> QED
    BY <2>1, <2>2, <2>3, <2>4, <2>5
<1>2. Len(Text(m)) = m.s.len /\ m.s.len \in Nat
  BY <1>1, TextIs
<1>3. o.heap = m.heap /\ o.s = m.s /\ Sound(o, R)
  BY CStringMeasured, PassedSound
<1>4. CASE span.at = "null"
  <2>1. o = With(m, "ERR_ARG")
    BY <1>1, <1>4 DEF str_measure_c_string_input
  <2>2. o.ret = "ERR_ARG"
    BY <2>1, StatusNames, Checked
  <2> QED
    BY <1>3, <1>4, <2>2
<1>5. CASE span.at # "null"
  <2>1. p.blk # NULL
    <3>1. CASE span.at = "caller"
      BY <1>1, <3>1 DEF CALLER, NULL
    <3>2. CASE span.at = "self" /\ m.s.cap > 0
      BY <1>1, <3>2, OwnBlock
    <3> QED
      BY <1>5, <3>1, <3>2 DEF Borrowed
  <2>2. PICK d : d = str_detect_overlap(m, p, 1)
    OBVIOUS
  <2>3. o \in IF d.ret = "OK" THEN {With(d, IF NulsAt(d, p) = {} THEN "ERR_ARG" ELSE "OK")} ELSE {d}
    BY <2>1, <2>2 DEF str_measure_c_string_input, Then
  <2>4. /\ d.heap = m.heap /\ d.s = m.s /\ Sound(d, R)
        /\ \/ d.ret = "OK" /\ ~Overlaps(m, p, 1)
           \/ d.ret = "ERR_ARG" /\ Overlaps(m, p, 1)
    BY <2>2, OverlapFound
  <2>5. Overlaps(m, p, 1) <=> span.at = "self" /\ span.off > m.s.len
    <3>1. CASE span.at = "caller"
      <4>1. p.blk = CALLER
        BY <1>1, <3>1
      <4> QED
        BY <1>1, <3>1, <4>1 DEF Overlaps, str_find_allocation_offset, CALLER
    <3>2. CASE span.at = "self" /\ m.s.cap > 0 /\ span.off \in Nat /\ span.off < m.s.cap
      <4>1. str_find_allocation_offset(m.s, p)
        BY <1>1, <2>1, <3>2 DEF str_find_allocation_offset
      <4> QED
        BY <1>1, <1>2, <3>2, <4>1 DEF Overlaps
    <3> QED
      BY <1>5, <3>1, <3>2 DEF Borrowed
  <2>6. CASE d.ret # "OK"
    <3>1. o = d
      BY <2>3, <2>6
    <3> QED
      BY <1>2, <1>3, <2>4, <2>5, <2>6, <3>1
  <2>7. CASE d.ret = "OK"
    <3>1. span.at = "self" => span.off <= m.s.len
      <4>1. span.at = "self" => span.off \in Nat
        BY <1>5 DEF Borrowed
      <4> QED
        BY <1>2, <2>4, <2>5, <2>7, <4>1
    <3>2. Borrowed(o, span) /\ p = Pointer(o.s, span)
      BY <1>3 DEF Borrowed
    <3>3. Text(o) = Text(m)
      BY <1>3 DEF Text
    <3>4. /\ NulsAt(o, p) # {} /\ CStringLen(o, p) \in Nat /\ ~Overlaps(o, p, CStringLen(o, p))
          /\ Load(o.heap, p, CStringLen(o, p)) = Value!CString(Text(o), span)
      <4>1. span.at = "self" => span.off <= o.s.len
        BY <1>3, <3>1
      <4> QED
        BY <1>3, <1>5, <3>2, <4>1, CStringAt
    <3>5. NulsAt(o, p) = NulsAt(d, p)
      BY <1>3, <2>4 DEF NulsAt
    <3>6. o.ret = "OK"
      <4>1. o = With(d, "OK")
        BY <2>3, <2>7, <3>4, <3>5
      <4> QED
        BY <2>4, <4>1, StatusNames, Checked
    <3>7. ~(span.at = "self" /\ span.off > Len(Text(m)))
      BY <1>2, <2>4, <2>5, <2>7
    <3> QED
      BY <1>3, <1>5, <3>3, <3>4, <3>6, <3>7
  <2> QED
    BY <2>6, <2>7
<1> QED
  BY <1>4, <1>5

-----------------------------------------------------------------------------
(* What a call asks for, and what str.h allows it to answer.                *)

LEMMA FaultsAre ==
  ASSUME NEW v, NEW d, d.how = "renders", Value!RequestedLen(v, d) \in Nat
  PROVE  /\ ~Value!BadArgument(v, d) /\ ~Value!BadRange(v, d) /\ Value!RequestedLen(v, d) < SizeMax
              => Value!Faults(v, d) = {} /\ (d.op # "remove" => Value!MayLackMemory(v, d))
         /\ Value!BadArgument(v, d) => "ERR_ARG" \in Value!Faults(v, d)
         /\ Value!BadRange(v, d) => "ERR_RANGE" \in Value!Faults(v, d)
         /\ ( /\ ~Value!BadRange(v, d) /\ Value!RequestedLen(v, d) >= SizeMax
              /\ d.op \in Value!TakesSpan \/ ~Value!BadArgument(v, d) )
              => "ERR_OVERFLOW" \in Value!Faults(v, d)
<1> DEFINE arg == IF Value!BadArgument(v, d) THEN {"ERR_ARG"} ELSE {}
           range == IF Value!BadRange(v, d) THEN {"ERR_RANGE"} ELSE {}
           room == IF d.op \notin Value!TakesSpan /\ Value!BadArgument(v, d) THEN {}
                   ELSE IF Value!TooLong(v, d) THEN {"ERR_OVERFLOW"} ELSE {}
           format == IF d.how # "renders" THEN {"ERR_FMT"} ELSE {}
<1>1. Value!Faults(v, d) = arg \cup range \cup room \cup format
  BY Zenon DEF Value!Faults
<1>2. format = {}
  OBVIOUS
<1>3. SizeMax \in Nat
  BY StrApiAssumption
<1>4. Value!TooLong(v, d) <=> ~Value!BadRange(v, d) /\ Value!RequestedLen(v, d) >= SizeMax
  BY <1>3 DEF Value!TooLong
<1>5. ASSUME ~Value!BadArgument(v, d), ~Value!BadRange(v, d), Value!RequestedLen(v, d) < SizeMax
      PROVE  Value!Faults(v, d) = {} /\ (d.op # "remove" => Value!MayLackMemory(v, d))
  <2>1. arg = {} /\ range = {} /\ room = {}
    BY <1>3, <1>4, <1>5
  <2>2. Value!Faults(v, d) = {}
    BY <1>1, <1>2, <2>1
  <2> QED
    BY <2>2 DEF Value!MayLackMemory
<1>6. Value!BadArgument(v, d) => "ERR_ARG" \in Value!Faults(v, d)
  BY <1>1
<1>7. Value!BadRange(v, d) => "ERR_RANGE" \in Value!Faults(v, d)
  BY <1>1
<1>8. ASSUME ~Value!BadRange(v, d), Value!RequestedLen(v, d) >= SizeMax,
             d.op \in Value!TakesSpan \/ ~Value!BadArgument(v, d)
      PROVE  "ERR_OVERFLOW" \in Value!Faults(v, d)
  <2>1. room = {"ERR_OVERFLOW"}
    BY <1>4, <1>8
  <2> QED
    BY <1>1, <2>1
<1> QED
  BY <1>5, <1>6, <1>7, <1>8

\* The body q of the mutator d on x gives what d promises, or a reason why not.
Honours(x, d, q) ==
  \/ /\ q.ret = "OK" /\ Value!Faults(Content(x), d) = {}
     /\ Text(q) = Value!Result(Content(x), d) /\ q.s.status = "OK"
     /\ (d.op = "reserve" /\ d.k > 0) => q.s.cap > d.k
  \/ /\ q.ret # "OK"
     /\ \/ q.ret \in Value!Faults(Content(x), d)
        \/ q.ret = "ERR_ALLOC" /\ Value!MayLackMemory(Content(x), d)
     /\ (q.ret = "ERR_ALLOC" /\ d.op \in InPlace) => Value!RequestedLen(Content(x), d) >= str[x].cap

LEMMA ContentIs ==
  ASSUME StrInv, NEW x \in Strings
  PROVE  /\ Content(x) = Text(Machine(x)) /\ Content(x) \in Seq(Cells)
         /\ Len(Content(x)) = str[x].len /\ str[x].len \in Nat /\ str[x].len < SizeMax
<1>1. Sound(Machine(x), Others(x)) /\ Machine(x).s = str[x] /\ Machine(x).heap = heap
  BY MachineSound
<1>2. Roomy(Machine(x), Others(x))
  BY <1>1 DEF Sound
<1>3. Content(x) = Text(Machine(x))
  BY <1>1 DEF Content, Text
<1>4. Text(Machine(x)) \in Seq(Cells) /\ Len(Text(Machine(x))) = str[x].len /\ str[x].len \in Nat
  BY <1>1, <1>2, TextIs
<1>5. str[x].len < SizeMax
  BY <1>1, <1>2, LengthFits
<1> QED
  BY <1>3, <1>4, <1>5

\* The call d on x has no fault but those of a write that needs room for need bytes.
Asks(x, d, need, bad) ==
  /\ d.how = "renders" /\ d.op \notin {"remove", "reserve"} /\ need \in Nat
  /\ Value!RequestedLen(Content(x), d) = need /\ ~Value!BadRange(Content(x), d)
  /\ Value!BadArgument(Content(x), d) <=> bad
  /\ d.op \in Value!TakesSpan \/ ~bad

LEMMA DoesHonours ==
  ASSUME StrInv, NEW x \in Strings, str[x].status = "OK", NEW m, m = Machine(x), NEW R,
         NEW d, NEW need, NEW bad, Asks(x, d, need, bad), NEW w, Value!Result(Content(x), d) = w,
         NEW q, Does(m, R, q, need, bad, w)
  PROVE  Honours(x, d, q)
<1>1. m.s = str[x] /\ m.ret = "OK" /\ SizeMax \in Nat /\ str[x].cap \in Nat
  BY MachineSound, StateType, StrApiAssumption
<1>2. PICK v : v = Content(x)
  OBVIOUS
<1>3. /\ d.how = "renders" /\ d.op \notin {"remove", "reserve"} /\ need \in Nat
      /\ Value!RequestedLen(v, d) = need /\ ~Value!BadRange(v, d)
      /\ Value!BadArgument(v, d) <=> bad
      /\ d.op \in Value!TakesSpan \/ ~bad
  BY <1>2 DEF Asks
<1>4. CASE need < SizeMax /\ ~bad /\ Wrote(m, R, q, w)
  <2>1. q.ret = "OK" /\ q.s.status = "OK" /\ Text(q) = w
    BY <1>1, <1>4 DEF Wrote
  <2>2. Value!Faults(v, d) = {}
    BY <1>3, <1>4, FaultsAre
  <2> QED
    BY <1>2, <1>3, <2>1, <2>2 DEF Honours
<1>5. CASE q.ret # "OK" /\ Refuses(m, need, bad, q.ret)
  <2>1. CASE q.ret = "ERR_OVERFLOW" /\ need >= SizeMax
    <3>1. "ERR_OVERFLOW" \in Value!Faults(v, d)
      BY <1>3, <2>1, FaultsAre
    <3> QED
      BY <1>2, <2>1, <3>1 DEF Honours
  <2>2. CASE q.ret = "ERR_ARG" /\ bad
    <3>1. "ERR_ARG" \in Value!Faults(v, d)
      BY <1>3, <2>2, FaultsAre
    <3> QED
      BY <1>2, <2>2, <3>1 DEF Honours
  <2>3. CASE q.ret = "ERR_ALLOC" /\ need < SizeMax /\ ~bad /\ need >= m.s.cap
    <3>1. Value!MayLackMemory(v, d)
      BY <1>3, <2>3, FaultsAre
    <3> QED
      BY <1>1, <1>2, <1>3, <2>3, <3>1 DEF Honours
  <2> QED
    BY <1>5, <2>1, <2>2, <2>3 DEF Refuses
<1> QED
  BY <1>4, <1>5 DEF Does

LEMMA ManagesHonours ==
  ASSUME StrInv, NEW x \in Strings, str[x].status = "OK", NEW m, m = Machine(x), NEW R,
         NEW d, NEW need, NEW bad, Asks(x, d, need, bad), d.op \notin InPlace,
         NEW w, Value!Result(Content(x), d) = w, NEW q, Manages(m, R, q, need, bad, w)
  PROVE  Honours(x, d, q)
<1>1. m.s = str[x] /\ m.ret = "OK" /\ SizeMax \in Nat
  BY MachineSound, StrApiAssumption
<1>2. PICK v : v = Content(x)
  OBVIOUS
<1>3. /\ d.how = "renders" /\ d.op \notin {"remove", "reserve"} /\ need \in Nat
      /\ Value!RequestedLen(v, d) = need /\ ~Value!BadRange(v, d)
      /\ Value!BadArgument(v, d) <=> bad
      /\ d.op \in Value!TakesSpan \/ ~bad
  BY <1>2 DEF Asks
<1>4. CASE need < SizeMax /\ ~bad /\ Wrote(m, R, q, w)
  <2>1. q.ret = "OK" /\ q.s.status = "OK" /\ Text(q) = w
    BY <1>1, <1>4 DEF Wrote
  <2>2. Value!Faults(v, d) = {}
    BY <1>3, <1>4, FaultsAre
  <2> QED
    BY <1>2, <1>3, <2>1, <2>2 DEF Honours
<1>5. CASE q.ret = "ERR_OVERFLOW" /\ need >= SizeMax
  <2>1. "ERR_OVERFLOW" \in Value!Faults(v, d)
    BY <1>3, <1>5, FaultsAre
  <2> QED
    BY <1>2, <1>5, <2>1 DEF Honours
<1>6. CASE q.ret = "ERR_ARG" /\ bad
  <2>1. "ERR_ARG" \in Value!Faults(v, d)
    BY <1>3, <1>6, FaultsAre
  <2> QED
    BY <1>2, <1>6, <2>1 DEF Honours
<1>7. CASE q.ret = "ERR_ALLOC" /\ need < SizeMax /\ ~bad
  <2>1. Value!MayLackMemory(v, d)
    BY <1>3, <1>7, FaultsAre
  <2> QED
    BY <1>2, <1>7, <2>1 DEF Honours
<1> QED
  BY <1>4, <1>5, <1>6, <1>7 DEF Manages

-----------------------------------------------------------------------------
(* The contents after a call.                                               *)

\* A call on x leaves the content of every other string as it was.
LEMMA ContentsAfter ==
  ASSUME StrInv, NEW x \in Strings, Step(x)
  PROVE  \A y \in Strings \ {x} : Content(y)' = Content(y) /\ str'[y] = str[y]
<1>1. PICK o : Ran(x, o) /\ Outcome(Machine(x), Others(x), o)
  BY DEF Step
<1>2. PICK R : R = Others(x)
  OBVIOUS
<1>3. str \in [Strings -> StrState] /\ IsHeap(heap)
  BY StrFacts
<1>4. str' = [str EXCEPT ![x] = o.s] /\ heap' = o.heap
  BY <1>1 DEF Ran
<1>5. IsHeap(o.heap) /\ \A b \in DOMAIN R : b \in DOMAIN o.heap /\ o.heap[b] = R[b]
  BY <1>1, <1>2 DEF Outcome, Sound, Roomy, IsMachine
<1>6. /\ \A y \in Strings \ {x} : str[y].buf # NULL => str[y].buf \in DOMAIN R
      /\ \A b \in DOMAIN R : R[b] = heap[b] /\ b \in DOMAIN heap
  BY <1>2, OthersOwned
<1>7. ASSUME NEW y \in Strings \ {x}
      PROVE  Content(y)' = Content(y) /\ str'[y] = str[y]
  <2>1. str'[y] = str[y]
    BY <1>3, <1>4
  <2>2. PICK p, n : p = At(str[y].buf, 0) /\ p.blk = str[y].buf /\ n = str[y].len
    <3>1. At(str[y].buf, 0).blk = str[y].buf
      BY DEF At
    <3> QED
      BY <3>1
  <2>3. NULL \notin DOMAIN heap /\ NULL \notin DOMAIN o.heap
    BY <1>3, <1>5 DEF IsHeap
  <2>4. /\ p.blk \in DOMAIN heap <=> p.blk \in DOMAIN o.heap
        /\ p.blk \in DOMAIN heap => o.heap[p.blk] = heap[p.blk]
    BY <1>5, <1>6, <2>2, <2>3
  <2>5. Load(o.heap, p, n) = Load(heap, p, n)
    BY <1>3, <1>5, <2>4, LoadElsewhere
  <2> QED
    BY <1>4, <2>1, <2>2, <2>5 DEF Content
<1> QED
  BY <1>7

\* The content and the status of x become w and r; the other strings keep theirs.
Becomes(x, w, r) ==
  /\ \A y \in Strings \ {x} : Content(y)' = Content(y) /\ str'[y] = str[y]
  /\ Content(x)' = w /\ str'[x].status = r

\* The state of StrValue.
Values   == [y \in Strings |-> Content(y)]
Failures == [y \in Strings |-> str[y].status]

ValuesMove(x, w, r) ==
  /\ Values' = [Values EXCEPT ![x] = w] /\ Failures' = [Failures EXCEPT ![x] = r]
  /\ w = Content(x) => Values' = Values
  /\ r = str[x].status => Failures' = Failures
  /\ Values[x] = Content(x) /\ Failures[x] = str[x].status

LEMMA ValuesAfter ==
  ASSUME NEW x \in Strings, NEW w, NEW r, Becomes(x, w, r)
  PROVE  ValuesMove(x, w, r)
<1>1. /\ \A y \in Strings \ {x} : Content(y)' = Content(y) /\ str'[y] = str[y]
      /\ Content(x)' = w /\ str'[x].status = r
  BY DEF Becomes
<1>2. /\ Values' = [y \in Strings |-> Content(y)'] /\ Values = [y \in Strings |-> Content(y)]
      /\ Failures' = [y \in Strings |-> str'[y].status] /\ Failures = [y \in Strings |-> str[y].status]
  BY DEF Values, Failures
<1>3. Values' = [Values EXCEPT ![x] = w]
  BY <1>1, <1>2
<1>4. Failures' = [Failures EXCEPT ![x] = r]
  BY <1>1, <1>2
<1>5. w = Content(x) => Values' = Values
  BY <1>1, <1>2
<1>6. r = str[x].status => Failures' = Failures
  BY <1>1, <1>2
<1>7. Values[x] = Content(x) /\ Failures[x] = str[x].status
  BY <1>2
<1> QED
  BY <1>3, <1>4, <1>5, <1>6, <1>7 DEF ValuesMove

\* A mutation answers with a recorded failure, fails, or does what it says.
LEMMA MutationValue ==
  ASSUME NEW x \in Strings, NEW d, d = call', d.op \in Mutators, d.x = x,
         NEW w, NEW r, Becomes(x, w, r),
         \/ str[x].status # "OK" /\ d.ret = str[x].status /\ w = Content(x) /\ r = str[x].status
         \/ /\ str[x].status = "OK" /\ d.ret = "OK" /\ Value!Faults(Content(x), d) = {}
            /\ w = Value!Result(Content(x), d) /\ r = str[x].status
         \/ /\ str[x].status = "OK" /\ d.ret # "OK" /\ w = Content(x) /\ r = d.ret
            /\ \/ d.ret \in Value!Faults(Content(x), d)
               \/ d.ret = "ERR_ALLOC" /\ Value!MayLackMemory(Content(x), d)
  PROVE  Value!Next
<1>1. /\ Values' = [Values EXCEPT ![x] = w] /\ Failures' = [Failures EXCEPT ![x] = r]
      /\ w = Content(x) => Values' = Values
      /\ r = str[x].status => Failures' = Failures
      /\ Values[x] = Content(x) /\ Failures[x] = str[x].status
  <2>1. ValuesMove(x, w, r)
    BY ValuesAfter
  <2> QED
    BY <2>1, Zenon DEF ValuesMove
<1>2. d.op \in Value!Mutators
  BY DEF Mutators, Value!Mutators
<1>3. Value!Mutate(call') <=>
        /\ d.op \in Value!Mutators
        /\ \/ Failures[d.x] # "OK" /\ d.ret = Failures[d.x] /\ Values' = Values /\ Failures' = Failures
           \/ /\ Failures[d.x] = "OK" /\ d.ret = "OK" /\ Value!Faults(Values[d.x], d) = {}
              /\ Values' = [Values EXCEPT ![d.x] = Value!Result(Values[d.x], d)]
              /\ Failures' = Failures
           \/ /\ Failures[d.x] = "OK" /\ d.ret # "OK"
              /\ \/ d.ret \in Value!Faults(Values[d.x], d)
                 \/ d.ret = "ERR_ALLOC" /\ Value!MayLackMemory(Values[d.x], d)
              /\ Failures' = [Failures EXCEPT ![d.x] = d.ret]
              /\ Values' = Values
  BY Zenon DEF Value!Mutate, Values, Failures
<1>4. Value!Mutate(call')
  BY <1>1, <1>2, <1>3
<1> QED
  BY <1>4 DEF Value!Next

\* What ReservedNeverFails says of one step.
ReservationHolds ==
  LET c == call'
  IN /\ (c.op \in InPlace /\ c.ret = "ERR_ALLOC" /\ str[c.x].status = "OK") =>
          Value!RequestedLen(Content(c.x), c) >= str[c.x].cap
     /\ (c.op = "reserve" /\ c.ret = "OK" /\ c.k > 0) => str'[c.x].cap > c.k

Refined == Value!Next /\ ReservationHolds

LEMMA MutatorRefines ==
  ASSUME StrInv, NEW x \in Strings, Step(x), NEW d, d = call', d.op \in Mutators, d.x = x,
         NEW o, Ran(x, o), NEW S, o \in Mutation(Machine(x), S),
         str[x].status = "OK" => \A q \in S : Answered(Machine(x), Others(x), q) /\ Honours(x, d, q)
  PROVE  Refined
<1>1. PICK m, R : m = Machine(x) /\ R = Others(x)
  OBVIOUS
<1>2. /\ Sound(m, R) /\ m.s = str[x] /\ m.heap = heap /\ m.s \in StrState /\ str[x].status \in Statuses
      /\ str \in [Strings -> StrState]
  BY <1>1, MachineSound, StateType, StrFacts
<1>3. str' = [str EXCEPT ![x] = o.s] /\ heap' = o.heap /\ d.ret = o.ret
  BY DEF Ran
<1>4. str'[x] = o.s
  BY <1>2, <1>3
<1>5. \A y \in Strings \ {x} : Content(y)' = Content(y) /\ str'[y] = str[y]
  BY ContentsAfter
<1>6. o \in Mutation(m, S) /\ (str[x].status = "OK" => \A q \in S : Answered(m, R, q) /\ Honours(x, d, q))
  BY <1>1
<1>7. CASE str[x].status # "OK"
  <2>1. o = With(m, str[x].status)
    BY <1>2, <1>6, <1>7 DEF Mutation
  <2>2. o.heap = m.heap /\ o.s = m.s /\ o.ret = str[x].status
    BY <1>2, <2>1, Checked
  <2>3. Content(x)' = Content(x)
    BY <1>2, <1>3, <1>4, <2>2 DEF Content
  <2>4. Becomes(x, Content(x), str[x].status)
    BY <1>2, <1>4, <1>5, <2>2, <2>3 DEF Becomes
  <2>5. Value!Next
    BY <1>3, <1>7, <2>2, <2>4, MutationValue
  <2>6. ReservationHolds
    BY <1>3, <1>7, <2>2 DEF ReservationHolds
  <2> QED
    BY <2>5, <2>6 DEF Refined
<1>8. CASE str[x].status = "OK"
  <2>1. PICK q \in S : o = str_record_failure(q)
    BY <1>2, <1>6, <1>8 DEF Mutation
  <2>2. Answered(m, R, q) /\ Honours(x, d, q)
    BY <1>6, <1>8
  <2>3. Outcome(m, R, o) /\ o.ret = q.ret
    BY <1>2, <2>1, <2>2, Recorded
  <2>4. CASE q.ret = "OK"
    <3>1. o = q
      BY <2>1, <2>4 DEF str_record_failure
    <3>2. /\ Value!Faults(Content(x), d) = {} /\ Text(q) = Value!Result(Content(x), d) /\ q.s.status = "OK"
          /\ (d.op = "reserve" /\ d.k > 0) => q.s.cap > d.k
      BY <2>2, <2>4 DEF Honours
    <3>3. Content(x)' = Text(q)
      BY <1>3, <1>4, <3>1 DEF Content, Text
    <3>4. Becomes(x, Value!Result(Content(x), d), str[x].status)
      BY <1>4, <1>5, <1>8, <3>1, <3>2, <3>3 DEF Becomes
    <3>5. Value!Next
      <4>1. d.ret = "OK"
        BY <1>3, <2>3, <2>4
      <4> QED
        BY <1>8, <3>2, <3>4, <4>1, MutationValue
    <3>6. ReservationHolds
      BY <1>3, <1>4, <2>3, <2>4, <3>1, <3>2 DEF ReservationHolds
    <3> QED
      BY <3>5, <3>6 DEF Refined
  <2>5. CASE q.ret # "OK"
    <3>1. o = [q EXCEPT !.s.status = q.ret]
      BY <2>1, <2>5 DEF str_record_failure
    <3>2. q.s \in StrState /\ {"heap", "s", "ret"} \subseteq DOMAIN q
      BY <2>2 DEF Answered, Sound, Roomy, IsMachine
    <3>3. o.s.status = q.ret
      <4>1. o.s = [q.s EXCEPT !.status = q.ret]
        BY <3>1, <3>2
      <4> QED
        BY <3>2, <4>1 DEF StrState
    <3>4. o.heap = m.heap /\ [m.s EXCEPT !.status = o.s.status] = o.s
      BY <2>3, <2>5 DEF Outcome
    <3>5. o.s.buf = m.s.buf /\ o.s.len = m.s.len
      <4>1. o.s = [m.s EXCEPT !.status = q.ret]
        BY <3>3, <3>4
      <4> QED
        BY <1>2, <4>1 DEF StrState
    <3>6. Content(x)' = Content(x)
      BY <1>2, <1>3, <1>4, <3>4, <3>5 DEF Content
    <3>7. Becomes(x, Content(x), q.ret)
      BY <1>4, <1>5, <3>3, <3>6 DEF Becomes
    <3>8. /\ \/ q.ret \in Value!Faults(Content(x), d)
             \/ q.ret = "ERR_ALLOC" /\ Value!MayLackMemory(Content(x), d)
          /\ (q.ret = "ERR_ALLOC" /\ d.op \in InPlace) => Value!RequestedLen(Content(x), d) >= str[x].cap
      BY <2>2, <2>5 DEF Honours
    <3>9. d.ret = q.ret
      BY <1>3, <2>3
    <3>10. Value!Next
      BY <1>8, <2>5, <3>7, <3>8, <3>9, MutationValue
    <3>11. ReservationHolds
      BY <2>5, <3>8, <3>9 DEF ReservationHolds
    <3> QED
      BY <3>10, <3>11 DEF Refined
  <2> QED
    BY <2>4, <2>5
<1> QED
  BY <1>7, <1>8

-----------------------------------------------------------------------------
(* The mutators, one by one.                                                *)

Called(c, d) == d = [c EXCEPT !.ret = d.ret]

LEMMA CalledKeeps ==
  ASSUME NEW c, NEW d, Called(c, d), {"op", "idx", "k", "span", "fill", "how"} \subseteq DOMAIN c
  PROVE  /\ d.op = c.op /\ d.idx = c.idx /\ d.k = c.k /\ d.span = c.span
         /\ d.fill = c.fill /\ d.how = c.how
BY DEF Called

LEMMA RunCalled ==
  ASSUME NEW x, NEW op, NEW c, IsCall(c, x, op), NEW S, Run(c, S)
  PROVE  Called(c, call') /\ \E o \in S : Ran(x, o)
<1>1. PICK o \in S : /\ str' = [str EXCEPT ![c.x] = o.s] /\ heap' = o.heap
                     /\ call' = [c EXCEPT !.ret = o.ret] /\ detached' = detached
  BY DEF Run
<1>2. {"x", "op", "ret"} \subseteq DOMAIN c /\ c.x = x
  BY DEF IsCall
<1>3. call'.ret = o.ret /\ call'.x = x
  BY <1>1, <1>2
<1>4. Called(c, call')
  BY <1>1, <1>3 DEF Called
<1> QED
  BY <1>1, <1>2, <1>3, <1>4 DEF Ran

LEMMA RunRefines ==
  ASSUME StrInv, NEW x \in Strings, Step(x), NEW op \in Mutators, NEW c, IsCall(c, x, op),
         NEW S, Run(c, Mutation(Machine(x), S)), NEW d, d = call',
         str[x].status = "OK" => \A q \in S : Answered(Machine(x), Others(x), q) /\ Honours(x, d, q)
  PROVE  Refined
<1>1. Called(c, d) /\ \E o \in Mutation(Machine(x), S) : Ran(x, o)
  BY RunCalled
<1>2. {"x", "op", "ret"} \subseteq DOMAIN c /\ c.x = x /\ c.op = op
  BY DEF IsCall
<1>3. d.op \in Mutators /\ d.x = x
  BY <1>1, <1>2 DEF Called
<1>4. PICK o : Ran(x, o) /\ o \in Mutation(Machine(x), S)
  BY <1>1
<1> QED
  BY <1>3, <1>4, MutatorRefines

\* A refusal of the argument or of the range.
LEMMA RefusalHonours ==
  ASSUME NEW x, NEW d, NEW q,
         \/ q.ret = "ERR_ARG" /\ Value!BadArgument(Content(x), d)
         \/ q.ret = "ERR_RANGE" /\ Value!BadRange(Content(x), d)
  PROVE  Honours(x, d, q)
<1>1. q.ret \in Value!Faults(Content(x), d)
  BY DEF Value!Faults
<1> QED
  BY <1>1 DEF Honours

LEMMA CStringAsks ==
  ASSUME NEW v, NEW d, d.op \in {"set", "append", "append_fmt"}
  PROVE  /\ ~Value!BadRange(v, d)
         /\ Value!BadArgument(v, d) <=> d.span.at = "null" \/ (d.span.at = "self" /\ d.span.off > Len(v))
         /\ d.op = "set" => Value!Result(v, d) = Value!CString(v, d.span)
         /\ d.op = "append" => Value!Result(v, d) = v \o Value!CString(v, d.span)
         /\ d.op = "append_fmt" => Value!Result(v, d) = v \o d.text
         /\ Value!RequestedLen(v, d) = Len(Value!Result(v, d))
<1>1. ~Value!BadRange(v, d)
  BY DEF Value!BadRange
<1>2. Value!BadArgument(v, d) <=> d.span.at = "null" \/ (d.span.at = "self" /\ d.span.off > Len(v))
  BY DEF Value!BadArgument, Value!TakesSpan, Value!TakesCString
<1>3. d.op = "set" => Value!Result(v, d) = Value!CString(v, d.span)
  BY DEF Value!Result
<1>4. d.op = "append" => Value!Result(v, d) = v \o Value!CString(v, d.span)
  BY DEF Value!Result
<1>5. d.op = "append_fmt" => Value!Result(v, d) = v \o d.text
  BY DEF Value!Result
<1>6. Value!RequestedLen(v, d) = Len(Value!Result(v, d))
  BY DEF Value!RequestedLen
<1> QED
  BY <1>1, <1>2, <1>3, <1>4, <1>5, <1>6

LEMMA SetRefines ==
  ASSUME StrInv, NEW x \in Strings, NEW span \in CStrings(x), Set(x, span)
  PROVE  Refined
<1> DEFINE m == Machine(x)
           p == Pointer(str[x], span)
           c == [Call("set", x) EXCEPT !.span = span]
           S == Then(str_measure_c_string_input(m, p), LAMBDA e : str_set_valid_span(e, p, CStringLen(e, p)))
<1>1. Run(c, Mutation(m, S))
  BY Zenon DEF Set, CStringMutation
<1>2. IsCall(c, x, "set") /\ "set" \in Mutators
  BY DEF Call, IsCall, Mutators
<1>3. PICK d : d = call' /\ d.op = "set" /\ d.span = span /\ d.how = "renders"
  <2>1. Called(c, call')
    BY <1>1, <1>2, RunCalled
  <2> QED
    BY <2>1 DEF Called, Call
<1>4. ASSUME NEW q \in S
      PROVE  \E v \in str_measure_c_string_input(m, p) :
               q \in IF v.ret = "OK" THEN str_set_valid_span(v, p, CStringLen(v, p)) ELSE {v}
  BY <1>4 DEF Then
<1>5. Step(x)
  BY SetStep
<1>6. PICK R : R = Others(x)
  OBVIOUS
<1>7. /\ Sound(m, R) /\ m.ret = "OK" /\ m.s = str[x] /\ Borrowed(m, span) /\ p = Pointer(m.s, span)
      /\ p \in Place /\ Aimed(m, R, p) /\ Content(x) = Text(m)
  <2>1. Sound(m, R) /\ m.ret = "OK" /\ m.s = str[x] /\ Borrowed(m, span)
    BY <1>6, MachineSound, SpanBorrowed
  <2>2. p = Pointer(m.s, span)
    BY <2>1
  <2>3. p \in Place /\ Aimed(m, R, p)
    BY <2>1, <2>2, PointerIs
  <2> QED
    BY <2>1, <2>2, <2>3, ContentIs
<1>8. m = Machine(x) /\ p = Pointer(str[x], span)
  OBVIOUS
<1> HIDE DEF m, p, c, S
<1>9. ASSUME str[x].status = "OK", NEW q \in S
      PROVE  Answered(m, R, q) /\ Honours(x, d, q)
  <2>1. PICK v \in str_measure_c_string_input(m, p) :
          q \in IF v.ret = "OK" THEN str_set_valid_span(v, p, CStringLen(v, p)) ELSE {v}
    BY <1>4
  <2>2. /\ v.heap = m.heap /\ v.s = m.s /\ Sound(v, R)
        /\ \/ v.ret = "ERR_ARG" /\ (span.at = "null" \/ (span.at = "self" /\ span.off > Len(Text(m))))
           \/ /\ v.ret = "OK" /\ span.at # "null" /\ ~(span.at = "self" /\ span.off > Len(Text(m)))
              /\ CStringLen(v, p) \in Nat /\ ~Overlaps(v, p, CStringLen(v, p))
              /\ Load(v.heap, p, CStringLen(v, p)) = Value!CString(Text(m), span)
    BY <1>7, CStringRead
  <2>3. Kept(m, R, v)
    BY <1>7, CStringMeasured, PassedSound
  <2>4. CASE v.ret = "ERR_ARG" /\ (span.at = "null" \/ (span.at = "self" /\ span.off > Len(Text(m))))
    <3>1. q = v
      BY <2>1, <2>4
    <3>2. Value!BadArgument(Content(x), d)
      BY <1>3, <1>7, <2>4, CStringAsks
    <3> QED
      BY <2>3, <2>4, <3>1, <3>2, RefusalHonours, KeptAnswered
  <2>5. ASSUME v.ret = "OK", span.at # "null", ~(span.at = "self" /\ span.off > Len(Text(m))),
               CStringLen(v, p) \in Nat, ~Overlaps(v, p, CStringLen(v, p)),
               Load(v.heap, p, CStringLen(v, p)) = Value!CString(Text(m), span)
        PROVE  Answered(m, R, q) /\ Honours(x, d, q)
    <3>1. PICK n \in Nat : n = CStringLen(v, p)
      BY <2>5
    <3>2. q \in str_set_valid_span(v, p, n)
      BY <2>1, <2>5, <3>1
    <3>3. Kept(m, R, q)
      <4>1. Kept(v, R, q)
        BY <1>7, <2>2, <2>5, <3>2, SetSpan
      <4> QED
        BY <2>2, <4>1, KeptSince
    <3>4. Does(v, R, q, n, Overlaps(v, p, n), Load(v.heap, p, n))
      <4>1. Aimed(v, R, p)
        BY <1>7, <2>2 DEF Aimed
      <4> QED
        BY <1>7, <2>2, <2>5, <3>2, <4>1, SetText
    <3>5. PICK w : w = Value!CString(Text(m), span) /\ w = Load(v.heap, p, n)
      BY <2>5, <3>1
    <3>6. Does(m, R, q, n, FALSE, w)
      <4>1. Does(v, R, q, n, FALSE, w)
        BY <2>5, <3>1, <3>4, <3>5 DEF Does, Refuses
      <4> QED
        BY <1>7, <2>2, <2>5, <4>1 DEF Does, Refuses, Wrote
    <3>7. Len(w) = n
      <4>1. IsHeap(v.heap)
        BY <2>2, MachineType DEF Sound
      <4> QED
        BY <1>7, <3>5, <4>1, LoadType
    <3>8. Value!Result(Content(x), d) = w /\ Asks(x, d, n, FALSE)
      <4>1. Value!Result(Content(x), d) = w
        <5>1. d.op \in {"set", "append", "append_fmt"} /\ d.op = "set"
          BY <1>3
        <5>2. Value!Result(Content(x), d) = Value!CString(Content(x), d.span)
          BY <5>1, CStringAsks
        <5>3. d.span = span /\ Content(x) = Text(m)
          BY <1>3, <1>7
        <5> QED
          BY Zenon, <5>2, <5>3, <3>5
      <4>2. Value!RequestedLen(Content(x), d) = n /\ ~Value!BadRange(Content(x), d)
        BY <1>3, <3>7, <4>1, CStringAsks
      <4>3. ~Value!BadArgument(Content(x), d)
        BY <1>3, <1>7, <2>5, CStringAsks
      <4> QED
        BY <1>3, <4>1, <4>2, <4>3 DEF Asks
    <3>9. Honours(x, d, q)
      BY <1>8, <1>9, <3>6, <3>8, DoesHonours
    <3> QED
      BY <3>3, <3>9, KeptAnswered
  <2> QED
    BY <2>2, <2>4, <2>5
<1> QED
  BY <1>1, <1>2, <1>3, <1>5, <1>6, <1>8, <1>9, RunRefines

LEMMA AppendCStringRefines ==
  ASSUME StrInv, NEW x \in Strings, NEW span \in CStrings(x), AppendCString(x, span)
  PROVE  Refined
<1> DEFINE m == Machine(x)
           p == Pointer(str[x], span)
           c == [Call("append", x) EXCEPT !.span = span]
           S == Then(str_measure_c_string_input(m, p), LAMBDA e : str_append_valid_span(e, p, CStringLen(e, p)))
<1>1. Run(c, Mutation(m, S))
  BY Zenon DEF AppendCString, CStringMutation
<1>2. IsCall(c, x, "append") /\ "append" \in Mutators
  BY DEF Call, IsCall, Mutators
<1>3. PICK d : d = call' /\ d.op = "append" /\ d.span = span /\ d.how = "renders"
  <2>1. Called(c, call')
    BY <1>1, <1>2, RunCalled
  <2> QED
    BY <2>1 DEF Called, Call
<1>4. ASSUME NEW q \in S
      PROVE  \E v \in str_measure_c_string_input(m, p) :
               q \in IF v.ret = "OK" THEN str_append_valid_span(v, p, CStringLen(v, p)) ELSE {v}
  BY <1>4 DEF Then
<1>5. Step(x)
  BY AppendCStringStep
<1>6. PICK R : R = Others(x)
  OBVIOUS
<1>7. /\ Sound(m, R) /\ m.ret = "OK" /\ m.s = str[x] /\ Borrowed(m, span) /\ p = Pointer(m.s, span)
      /\ p \in Place /\ Aimed(m, R, p) /\ Content(x) = Text(m)
  <2>1. Sound(m, R) /\ m.ret = "OK" /\ m.s = str[x] /\ Borrowed(m, span)
    BY <1>6, MachineSound, SpanBorrowed
  <2>2. p = Pointer(m.s, span)
    BY <2>1
  <2>3. p \in Place /\ Aimed(m, R, p)
    BY <2>1, <2>2, PointerIs
  <2> QED
    BY <2>1, <2>2, <2>3, ContentIs
<1>8. m = Machine(x) /\ p = Pointer(str[x], span)
  OBVIOUS
<1> HIDE DEF m, p, c, S
<1>9. ASSUME str[x].status = "OK", NEW q \in S
      PROVE  Answered(m, R, q) /\ Honours(x, d, q)
  <2>1. PICK v \in str_measure_c_string_input(m, p) :
          q \in IF v.ret = "OK" THEN str_append_valid_span(v, p, CStringLen(v, p)) ELSE {v}
    BY <1>4
  <2>2. /\ v.heap = m.heap /\ v.s = m.s /\ Sound(v, R)
        /\ \/ v.ret = "ERR_ARG" /\ (span.at = "null" \/ (span.at = "self" /\ span.off > Len(Text(m))))
           \/ /\ v.ret = "OK" /\ span.at # "null" /\ ~(span.at = "self" /\ span.off > Len(Text(m)))
              /\ CStringLen(v, p) \in Nat /\ ~Overlaps(v, p, CStringLen(v, p))
              /\ Load(v.heap, p, CStringLen(v, p)) = Value!CString(Text(m), span)
    BY <1>7, CStringRead
  <2>3. Kept(m, R, v)
    BY <1>7, CStringMeasured, PassedSound
  <2>4. CASE v.ret = "ERR_ARG" /\ (span.at = "null" \/ (span.at = "self" /\ span.off > Len(Text(m))))
    <3>1. q = v
      BY <2>1, <2>4
    <3>2. Value!BadArgument(Content(x), d)
      BY <1>3, <1>7, <2>4, CStringAsks
    <3> QED
      BY <2>3, <2>4, <3>1, <3>2, RefusalHonours, KeptAnswered
  <2>5. ASSUME v.ret = "OK", span.at # "null", ~(span.at = "self" /\ span.off > Len(Text(m))),
               CStringLen(v, p) \in Nat, ~Overlaps(v, p, CStringLen(v, p)),
               Load(v.heap, p, CStringLen(v, p)) = Value!CString(Text(m), span)
        PROVE  Answered(m, R, q) /\ Honours(x, d, q)
    <3>1. PICK n \in Nat : n = CStringLen(v, p)
      BY <2>5
    <3>2. q \in str_append_valid_span(v, p, n)
      BY <2>1, <2>5, <3>1
    <3>3. Kept(m, R, q)
      <4>1. Kept(v, R, q)
        BY <1>7, <2>2, <2>5, <3>2, AppendSpan
      <4> QED
        BY <2>2, <4>1, KeptSince
    <3>4. Does(v, R, q, v.s.len + n, Overlaps(v, p, n), Text(v) \o Load(v.heap, p, n))
      <4>1. Aimed(v, R, p)
        BY <1>7, <2>2 DEF Aimed
      <4> QED
        BY <1>7, <2>2, <2>5, <3>2, <4>1, AppendText
    <3>5. PICK u : u = Value!CString(Text(m), span) /\ u = Load(v.heap, p, n)
      BY <2>5, <3>1
    <3>6. Text(v) = Text(m) /\ v.s.len = m.s.len
      BY <2>2 DEF Text
    <3>7. Text(m) \in Seq(Cells) /\ u \in Seq(Cells) /\ Len(u) = n /\ Len(Text(m)) = m.s.len /\ m.s.len \in Nat
      <4>1. IsHeap(v.heap)
        BY <2>2, MachineType DEF Sound
      <4>2. u \in Seq(Cells) /\ Len(u) = n
        BY <1>7, <3>5, <4>1, LoadType
      <4> QED
        BY <1>7, <4>2, TextIs DEF Sound
    <3>8. PICK w : w = Text(m) \o u
      OBVIOUS
    <3>9. w \in Seq(Cells) /\ Len(w) = m.s.len + n
      BY <3>7, <3>8, JoinedIs
    <3>10. Does(m, R, q, m.s.len + n, FALSE, w)
      <4>1. Does(v, R, q, m.s.len + n, FALSE, w)
        BY <2>5, <3>1, <3>4, <3>5, <3>6, <3>8 DEF Does, Refuses
      <4> QED
        BY <1>7, <2>2, <2>5, <4>1 DEF Does, Refuses, Wrote
    <3>11. Value!Result(Content(x), d) = w /\ Asks(x, d, m.s.len + n, FALSE)
      <4>1. Value!Result(Content(x), d) = w
        <5>1. d.op \in {"set", "append", "append_fmt"} /\ d.op = "append"
          BY <1>3
        <5>2. Value!Result(Content(x), d) = Content(x) \o Value!CString(Content(x), d.span)
          BY <5>1, CStringAsks
        <5>3. d.span = span /\ Content(x) = Text(m)
          BY <1>3, <1>7
        <5> QED
          BY Zenon, <5>2, <5>3, <3>5, <3>8
      <4>2. Value!RequestedLen(Content(x), d) = m.s.len + n /\ ~Value!BadRange(Content(x), d)
        BY <1>3, <3>9, <4>1, CStringAsks
      <4>3. ~Value!BadArgument(Content(x), d)
        BY <1>3, <1>7, <2>5, CStringAsks
      <4> QED
        BY <1>3, <3>7, <4>1, <4>2, <4>3 DEF Asks
    <3>12. Honours(x, d, q)
      BY <1>8, <1>9, <3>10, <3>11, DoesHonours
    <3> QED
      BY <3>3, <3>12, KeptAnswered
  <2> QED
    BY <2>2, <2>4, <2>5
<1> QED
  BY <1>1, <1>2, <1>3, <1>5, <1>6, <1>8, <1>9, RunRefines

\* A rendering has the faults of its argument, of its length, and its own.
LEMMA FormatFaults ==
  ASSUME NEW v \in Seq(Cells), NEW d, d.op = "append_fmt", d.text \in Seq(Cells),
         ~Value!BadArgument(v, d)
  PROVE  /\ Value!Result(v, d) = v \o d.text
         /\ Len(v) + Len(d.text) < SizeMax /\ d.how = "renders" => Value!Faults(v, d) = {}
         /\ Len(v) + Len(d.text) >= SizeMax => "ERR_OVERFLOW" \in Value!Faults(v, d)
         /\ d.how # "renders" => "ERR_FMT" \in Value!Faults(v, d)
         /\ Value!MayLackMemory(v, d)
<1>1. d.op \in {"set", "append", "append_fmt"}
  OBVIOUS
<1>2. Value!Result(v, d) = v \o d.text /\ ~Value!BadRange(v, d)
  BY <1>1, CStringAsks
<1>3. Value!RequestedLen(v, d) = Len(v \o d.text)
  <2>1. Value!RequestedLen(v, d) = Len(Value!Result(v, d))
    BY <1>1, CStringAsks
  <2> QED
    BY ONLY <1>2, <2>1
<1>4. Value!RequestedLen(v, d) = Len(v) + Len(d.text)
  BY <1>3, JoinedIs
<1>5. Len(v) \in Nat /\ Len(d.text) \in Nat
  OBVIOUS
<1>6. PICK N \in Nat : N = Len(v) + Len(d.text)
  BY <1>5
<1>7. Value!TooLong(v, d) <=> N >= SizeMax
  BY <1>2, <1>4, <1>6, StrApiAssumption DEF Value!TooLong
<1>8. "append_fmt" \notin Value!TakesSpan
  BY DEF Value!TakesSpan
<1>9. d.how # "renders" => "ERR_FMT" \in Value!Faults(v, d)
  BY DEF Value!Faults
<1>10. N >= SizeMax => "ERR_OVERFLOW" \in Value!Faults(v, d)
  BY <1>7, <1>8 DEF Value!Faults
<1>11. ASSUME N < SizeMax, d.how = "renders"
       PROVE  Value!Faults(v, d) = {}
  <2>1. ~Value!TooLong(v, d)
    BY <1>6, <1>7, <1>11, StrApiAssumption
  <2> QED
    BY <1>2, <1>11, <2>1 DEF Value!Faults
<1>12. Value!MayLackMemory(v, d)
  BY DEF Value!MayLackMemory
<1> QED
  BY <1>2, <1>6, <1>9, <1>10, <1>11, <1>12

LEMMA AppendFmtRefines ==
  ASSUME StrInv, NEW x \in Strings, NEW format \in CStrings(x), NEW text \in CallerSpans,
         NEW how \in {"renders", "fails", "changes"}, AppendFmt(x, format, text, how)
  PROVE  Refined
<1> DEFINE m == Machine(x)
           p == Pointer(str[x], format)
           c == [Call("append_fmt", x) EXCEPT !.span = format, !.text = text, !.how = how]
           S == Then(str_measure_c_string_input(m, p), LAMBDA e : str_append_format_payload(e, text, how))
<1>1. Run(c, Mutation(m, S)) /\ (how = "changes" => Len(text) >= FormatStack)
  BY Zenon DEF AppendFmt, CStringMutation
<1>2. IsCall(c, x, "append_fmt") /\ "append_fmt" \in Mutators
  BY DEF Call, IsCall, Mutators
<1>3. PICK d : d = call' /\ d.op = "append_fmt" /\ d.span = format /\ d.how = how /\ d.text = text
  <2>1. Called(c, call')
    BY <1>1, <1>2, RunCalled
  <2> QED
    BY <2>1 DEF Called, Call
<1>4. ASSUME NEW q \in S
      PROVE  \E v \in str_measure_c_string_input(m, p) :
               q \in IF v.ret = "OK" THEN str_append_format_payload(v, text, how) ELSE {v}
  BY <1>4 DEF Then
<1>5. Step(x)
  BY AppendFmtStep
<1>6. PICK R : R = Others(x)
  OBVIOUS
<1>7. /\ Sound(m, R) /\ m.ret = "OK" /\ m.s = str[x] /\ Borrowed(m, format) /\ p = Pointer(m.s, format)
      /\ p \in Place /\ Aimed(m, R, p) /\ Content(x) = Text(m)
  <2>1. Sound(m, R) /\ m.ret = "OK" /\ m.s = str[x] /\ Borrowed(m, format)
    BY <1>6, MachineSound, SpanBorrowed
  <2>2. p = Pointer(m.s, format)
    BY <2>1
  <2>3. p \in Place /\ Aimed(m, R, p)
    BY <2>1, <2>2, PointerIs
  <2> QED
    BY <2>1, <2>2, <2>3, ContentIs
<1>8. m = Machine(x) /\ p = Pointer(str[x], format)
  OBVIOUS
<1>9. text \in Seq(Bytes) /\ text \in Seq(Cells) /\ Len(text) < SizeMax /\ Len(text) \in Nat
  BY StrApiAssumption DEF Cells
<1> HIDE DEF m, p, c, S
<1>10. ASSUME str[x].status = "OK", NEW q \in S
      PROVE  Answered(m, R, q) /\ Honours(x, d, q)
  <2>1. PICK v \in str_measure_c_string_input(m, p) :
          q \in IF v.ret = "OK" THEN str_append_format_payload(v, text, how) ELSE {v}
    BY <1>4
  <2>2. /\ v.heap = m.heap /\ v.s = m.s /\ Sound(v, R)
        /\ \/ v.ret = "ERR_ARG" /\ (format.at = "null" \/ (format.at = "self" /\ format.off > Len(Text(m))))
           \/ /\ v.ret = "OK" /\ format.at # "null" /\ ~(format.at = "self" /\ format.off > Len(Text(m)))
    BY <1>7, CStringRead
  <2>3. Kept(m, R, v)
    BY <1>7, CStringMeasured, PassedSound
  <2>4. CASE v.ret = "ERR_ARG" /\ (format.at = "null" \/ (format.at = "self" /\ format.off > Len(Text(m))))
    <3>1. q = v
      BY <2>1, <2>4
    <3>2. Value!BadArgument(Content(x), d)
      BY <1>3, <1>7, <2>4, CStringAsks
    <3> QED
      BY <2>3, <2>4, <3>1, <3>2, RefusalHonours, KeptAnswered
  <2>5. ASSUME v.ret = "OK", format.at # "null", ~(format.at = "self" /\ format.off > Len(Text(m)))
        PROVE  Answered(m, R, q) /\ Honours(x, d, q)
    <3>1. q \in str_append_format_payload(v, text, how)
      BY <2>1, <2>5
    <3>2. Kept(m, R, q)
      <4>1. Kept(v, R, q)
        BY <1>9, <2>2, <2>5, <3>1, FormatAppended
      <4> QED
        BY <2>2, <4>1, KeptSince
    <3>3. \/ how = "renders" /\ v.s.len + Len(text) < SizeMax /\ Wrote(v, R, q, Text(v) \o text)
          \/ q.ret = "ERR_FMT" /\ how # "renders"
          \/ q.ret = "ERR_OVERFLOW" /\ v.s.len + Len(text) >= SizeMax
          \/ q.ret = "ERR_ALLOC"
      BY <1>1, <1>9, <2>2, <2>5, <3>1, FormatText
    <3>4. Text(v) = Text(m) /\ v.s.len = m.s.len
      BY <2>2 DEF Text
    <3>5. PICK t \in Seq(Cells) : t = Content(x) /\ t = Text(m) /\ Len(t) = m.s.len
      BY <1>7, TextIs DEF Sound
    <3>6. ~Value!BadArgument(t, d)
      BY <1>3, <2>5, <3>5, CStringAsks
    <3>7. /\ Value!Result(t, d) = t \o text
          /\ Len(t) + Len(text) < SizeMax /\ how = "renders" => Value!Faults(t, d) = {}
          /\ Len(t) + Len(text) >= SizeMax => "ERR_OVERFLOW" \in Value!Faults(t, d)
          /\ how # "renders" => "ERR_FMT" \in Value!Faults(t, d)
          /\ Value!MayLackMemory(t, d)
      BY <1>3, <1>9, <3>6, FormatFaults
    <3>8. d.op \notin InPlace /\ d.op # "reserve"
      BY <1>3 DEF InPlace
    <3>9. CASE how = "renders" /\ v.s.len + Len(text) < SizeMax /\ Wrote(v, R, q, Text(v) \o text)
      <4>1. q.ret = "OK" /\ q.s.status = "OK" /\ Text(q) = t \o text
        BY <1>7, <1>10, <2>2, <2>5, <3>4, <3>5, <3>9 DEF Wrote
      <4>2. Value!Faults(t, d) = {}
        BY <3>4, <3>5, <3>7, <3>9
      <4>3. Honours(x, d, q)
        BY <3>5, <3>7, <3>8, <4>1, <4>2 DEF Honours
      <4> QED
        BY <3>2, <4>3, KeptAnswered
    <3>10. CASE q.ret = "ERR_FMT" /\ how # "renders"
      <4>1. Honours(x, d, q)
        BY <3>5, <3>7, <3>10 DEF Honours
      <4> QED
        BY <3>2, <4>1, KeptAnswered
    <3>11. CASE q.ret = "ERR_OVERFLOW" /\ v.s.len + Len(text) >= SizeMax
      <4>1. "ERR_OVERFLOW" \in Value!Faults(t, d)
        BY <3>4, <3>5, <3>7, <3>11
      <4>2. Honours(x, d, q)
        BY <3>5, <3>11, <4>1 DEF Honours
      <4> QED
        BY <3>2, <4>2, KeptAnswered
    <3>12. CASE q.ret = "ERR_ALLOC"
      <4>1. Honours(x, d, q)
        BY <3>5, <3>7, <3>8, <3>12 DEF Honours
      <4> QED
        BY <3>2, <4>1, KeptAnswered
    <3> QED
      BY <3>3, <3>9, <3>10, <3>11, <3>12
  <2> QED
    BY <2>2, <2>4, <2>5
<1> QED
  BY <1>1, <1>2, <1>3, <1>5, <1>6, <1>8, <1>10, RunRefines

LEMMA SpanAsks ==
  ASSUME NEW v, NEW d, d.op \in {"set_n", "append_n", "insert_n", "replace_view"}
  PROVE  /\ Value!BadArgument(v, d) <=>
              \/ d.span.n > 0 /\ d.span.at = "null"
              \/ d.span.at = "self" /\ d.span.off + d.span.n > Len(v) + 1
         /\ d.op \in {"set_n", "append_n"} => ~Value!BadRange(v, d)
         /\ d.op = "insert_n" => (Value!BadRange(v, d) <=> d.idx > Len(v))
         /\ d.op = "replace_view" => (Value!BadRange(v, d) <=> d.idx + d.k > Len(v))
         /\ d.op = "set_n" => Value!Result(v, d) = Value!SpanBytes(v, d.span)
         /\ d.op = "append_n" => Value!Result(v, d) = v \o Value!SpanBytes(v, d.span)
         /\ d.op = "insert_n" => Value!Result(v, d) = Value!Spliced(v, d.idx, 0, Value!SpanBytes(v, d.span))
         /\ d.op = "replace_view" =>
              Value!Result(v, d) = Value!Spliced(v, d.idx, d.k, Value!SpanBytes(v, d.span))
         /\ d.op = "set_n" => Value!RequestedLen(v, d) = d.span.n
         /\ d.op \in {"append_n", "insert_n"} => Value!RequestedLen(v, d) = Len(v) + d.span.n
         /\ d.op = "replace_view" => Value!RequestedLen(v, d) = Len(v) - d.k + d.span.n
         /\ d.op \in Value!TakesSpan
<1>1. d.op \in Value!TakesSpan /\ d.op \notin Value!TakesCString
  BY DEF Value!TakesSpan, Value!TakesCString
<1>2. Value!BadArgument(v, d) <=>
        \/ d.span.n > 0 /\ d.span.at = "null"
        \/ d.span.at = "self" /\ d.span.off + d.span.n > Len(v) + 1
  BY <1>1 DEF Value!BadArgument
<1>3. /\ d.op \in {"set_n", "append_n"} => ~Value!BadRange(v, d)
      /\ d.op = "insert_n" => (Value!BadRange(v, d) <=> d.idx > Len(v))
      /\ d.op = "replace_view" => (Value!BadRange(v, d) <=> d.idx + d.k > Len(v))
  BY DEF Value!BadRange
<1>4. /\ d.op = "set_n" => Value!Result(v, d) = Value!SpanBytes(v, d.span)
      /\ d.op = "append_n" => Value!Result(v, d) = v \o Value!SpanBytes(v, d.span)
  BY DEF Value!Result
<1>5. d.op = "insert_n" => Value!Result(v, d) = Value!Spliced(v, d.idx, 0, Value!SpanBytes(v, d.span))
  BY DEF Value!Result
<1>6. d.op = "replace_view" => Value!Result(v, d) = Value!Spliced(v, d.idx, d.k, Value!SpanBytes(v, d.span))
  BY DEF Value!Result
<1>7. /\ d.op = "set_n" => Value!RequestedLen(v, d) = d.span.n
      /\ d.op \in {"append_n", "insert_n"} => Value!RequestedLen(v, d) = Len(v) + d.span.n
      /\ d.op = "replace_view" => Value!RequestedLen(v, d) = Len(v) - d.k + d.span.n
  BY DEF Value!RequestedLen
<1> QED
  BY <1>1, <1>2, <1>3, <1>4, <1>5, <1>6, <1>7

\* The call d on x with the n bytes of span, and the machine, the other blocks
\* and the pointer of its body.
Passing(x, d, span, m, R, p) ==
  /\ m = Machine(x) /\ Sound(m, R) /\ m.ret = "OK" /\ m.s = str[x] /\ Content(x) = Text(m)
  /\ Borrowed(m, span) /\ p = Pointer(m.s, span) /\ p \in Place /\ Aimed(m, R, p)
  /\ span.n \in Nat /\ d.span = span /\ d.how = "renders"
  /\ Text(m) \in Seq(Cells) /\ Len(Text(m)) = m.s.len /\ m.s.len \in Nat /\ m.s.len < SizeMax

LEMMA PassingIs ==
  ASSUME StrInv, NEW x \in Strings, NEW span \in Spans(x), NEW d, d.span = span, d.how = "renders",
         NEW R, R = Others(x), NEW m, m = Machine(x), NEW p, p = Pointer(str[x], span)
  PROVE  Passing(x, d, span, m, R, p)
<1>1. Sound(m, R) /\ m.ret = "OK" /\ m.s = str[x] /\ Borrowed(m, span)
  BY MachineSound, SpanBorrowed
<1>2. p = Pointer(m.s, span)
  BY <1>1
<1>3. p \in Place /\ Aimed(m, R, p) /\ span.n \in Nat
  BY <1>1, <1>2, PointerIs
<1>4. /\ Content(x) = Text(m) /\ Text(m) \in Seq(Cells) /\ Len(Text(m)) = m.s.len
      /\ m.s.len \in Nat /\ m.s.len < SizeMax
  BY <1>1, ContentIs
<1> QED
  BY <1>1, <1>2, <1>3, <1>4 DEF Passing

\* The source of a span is refused, or read as what it stands for.
Reads(x, d, span, m, R, p, v) ==
  /\ v.heap = m.heap /\ v.s = m.s /\ Sound(v, R) /\ Kept(m, R, v) /\ Text(v) = Text(m)
  /\ \/ v.ret = "ERR_ARG" /\ Value!BadArgument(Content(x), d)
     \/ /\ v.ret = "OK" /\ (Overlaps(v, p, span.n) <=> Value!BadArgument(Content(x), d))
        /\ ~Overlaps(v, p, span.n) => Load(v.heap, p, span.n) = Value!SpanBytes(Text(m), span)

LEMMA SourceRead ==
  ASSUME NEW x, NEW d, d.op \in {"set_n", "append_n", "insert_n", "replace_view"},
         NEW span, NEW m, NEW R, NEW p, Passing(x, d, span, m, R, p),
         NEW v, v = str_validate_source(m, span)
  PROVE  Reads(x, d, span, m, R, p, v)
<1>1. /\ Sound(m, R) /\ m.ret = "OK" /\ Borrowed(m, span) /\ p = Pointer(m.s, span)
      /\ Content(x) = Text(m) /\ d.span = span
  BY DEF Passing
<1>2. Passed(m, R, v)
  BY <1>1, SourceValidated
<1>3. v.heap = m.heap /\ v.s = m.s /\ Sound(v, R) /\ Kept(m, R, v)
  BY <1>2, PassedSound
<1>4. Text(v) = Text(m)
  BY <1>3 DEF Text
<1>5. {"heap", "s", "ret"} \subseteq DOMAIN m
  BY <1>1 DEF Sound, Roomy, IsMachine
<1>6. IF span.n > 0 /\ span.at = "null" THEN v.ret = "ERR_ARG" ELSE v.ret = "OK"
  BY <1>5 DEF str_validate_source, With
<1>7. PICK bad \in BOOLEAN : bad <=> Value!BadArgument(Content(x), d)
  OBVIOUS
<1>8. bad <=> \/ span.n > 0 /\ span.at = "null"
              \/ span.at = "self" /\ span.off + span.n > Len(Text(m)) + 1
  BY <1>1, <1>7, SpanAsks
<1>9. CASE span.n > 0 /\ span.at = "null"
  BY <1>3, <1>4, <1>6, <1>7, <1>8, <1>9 DEF Reads
<1>10. CASE ~(span.n > 0 /\ span.at = "null")
  <2>1. /\ Overlaps(m, p, span.n) <=> span.at = "self" /\ span.off + span.n > Len(Text(m)) + 1
        /\ ~Overlaps(m, p, span.n) => Load(m.heap, p, span.n) = Value!SpanBytes(Text(m), span)
    BY <1>1, <1>10, SpanRead
  <2>2. Overlaps(v, p, span.n) <=> Overlaps(m, p, span.n)
    BY <1>3 DEF Overlaps
  <2>3. Overlaps(v, p, span.n) <=> bad
    BY <1>8, <1>10, <2>1, <2>2
  <2> QED
    BY <1>3, <1>4, <1>6, <1>7, <1>10, <2>1, <2>2, <2>3 DEF Reads
<1> QED
  BY <1>9, <1>10

\* A body that does what its bytes say, when they may be read at all.
LEMMA SpanDoes ==
  ASSUME StrInv, NEW x \in Strings, str[x].status = "OK", NEW m, m = Machine(x), NEW R,
         NEW d, NEW need, NEW bad \in BOOLEAN, Asks(x, d, need, bad),
         NEW w, ~bad => Value!Result(Content(x), d) = w, NEW q, Does(m, R, q, need, bad, w)
  PROVE  Honours(x, d, q)
<1>1. PICK r : r = Value!Result(Content(x), d)
  OBVIOUS
<1>2. Does(m, R, q, need, bad, r)
  BY <1>1 DEF Does
<1> QED
  BY <1>1, <1>2, DoesHonours

LEMMA SpanManages ==
  ASSUME StrInv, NEW x \in Strings, str[x].status = "OK", NEW m, m = Machine(x), NEW R,
         NEW d, NEW need, NEW bad \in BOOLEAN, Asks(x, d, need, bad), d.op \notin InPlace,
         NEW w, ~bad => Value!Result(Content(x), d) = w, NEW q, Manages(m, R, q, need, bad, w)
  PROVE  Honours(x, d, q)
<1>1. PICK r : r = Value!Result(Content(x), d)
  OBVIOUS
<1>2. Manages(m, R, q, need, bad, r)
  BY <1>1 DEF Manages
<1> QED
  BY <1>1, <1>2, ManagesHonours

\* What a body does after checks that change nothing.
LEMMA DoesSince ==
  ASSUME NEW m, NEW R, NEW v, v.s = m.s, v.ret = m.ret, NEW q, NEW need, NEW bad, NEW w,
         Does(v, R, q, need, bad, w)
  PROVE  Does(m, R, q, need, bad, w)
BY DEF Does, Refuses, Wrote

LEMMA ManagesSince ==
  ASSUME NEW m, NEW R, NEW v, v.s = m.s, v.ret = m.ret, NEW q, NEW need, NEW bad, NEW w,
         Manages(v, R, q, need, bad, w)
  PROVE  Manages(m, R, q, need, bad, w)
BY DEF Manages, Wrote

\* The n bytes from idx lie within len bytes, or are refused.
Ranged(m, R, o, len, idx, n) ==
  /\ o.heap = m.heap /\ o.s = m.s /\ Sound(o, R) /\ Kept(m, R, o) /\ Text(o) = Text(m)
  /\ \/ o.ret = "OK" /\ idx + n <= len
     \/ o.ret = "ERR_RANGE" /\ idx + n > len

LEMMA RangeChecked ==
  ASSUME NEW m, NEW R, Sound(m, R), NEW len \in Nat, NEW idx \in Nat, NEW n \in Nat,
         NEW o, o = str_validate_span(m, len, idx, n)
  PROVE  Ranged(m, R, o, len, idx, n)
<1>1. Passed(m, R, o)
  BY SpanValidated
<1>2. o.heap = m.heap /\ o.s = m.s /\ Sound(o, R) /\ Kept(m, R, o)
  BY <1>1, PassedSound
<1>3. Text(o) = Text(m)
  BY <1>2 DEF Text
<1>4. {"heap", "s", "ret"} \subseteq DOMAIN m
  BY DEF Sound, Roomy, IsMachine
<1>5. IF idx > len \/ n > len - idx THEN o.ret = "ERR_RANGE" ELSE o.ret = "OK"
  BY <1>4 DEF str_validate_span, With
<1>6. idx > len \/ n > len - idx <=> idx + n > len
  OBVIOUS
<1> QED
  BY <1>2, <1>3, <1>5, <1>6 DEF Ranged

LEMMA SplicedNothing ==
  ASSUME NEW v \in Seq(Cells), NEW idx \in Nat, idx <= Len(v)
  PROVE  Value!Spliced(v, idx, 0, <<>>) = v
<1>1. <<>> \in Seq(Cells) /\ Len(<<>>) = 0 /\ Len(v) \in Nat
  OBVIOUS
<1>2. PICK s \in Seq(Cells) : /\ s = Value!Spliced(v, idx, 0, <<>>) /\ Len(s) = Len(v)
                              /\ \A i \in 1..Len(v) : s[i] = v[i]
  <2>1. PICK e \in Seq(Cells) : e = <<>> /\ Len(e) = 0
    BY <1>1
  <2>2. PICK k \in Nat : k = 0
    OBVIOUS
  <2>3. idx + k <= Len(v)
    BY <1>1, <2>2
  <2>4. PICK s : s = Value!Spliced(v, idx, k, e)
    OBVIOUS
  <2>5. /\ Value!Spliced(v, idx, k, e) \in Seq(Cells)
        /\ Len(Value!Spliced(v, idx, k, e)) = (Len(v) - k) + Len(e)
        /\ \A i \in 1..((Len(v) - k) + Len(e)) :
             Value!Spliced(v, idx, k, e)[i] =
               IF i <= idx THEN v[i] ELSE IF i <= idx + Len(e) THEN e[i - idx] ELSE v[(i - Len(e)) + k]
    <3>1. SplicedAs(Cells, Value!Spliced(v, idx, k, e), v, idx, k, e)
      BY <2>3, SplicedIs
    <3> QED
      BY <3>1 DEF SplicedAs
  <2>6. Len(s) = Len(v)
    BY <1>1, <2>1, <2>2, <2>5, <2>4
  <2>7. \A i \in 1..Len(v) : s[i] = v[i]
    BY <1>1, <2>1, <2>2, <2>5, <2>4
  <2> QED
    BY <2>1, <2>2, <2>5, <2>6, <2>7, <2>4
<1>3. s = v
  BY <1>2, SameSequence
<1> QED
  BY <1>2, <1>3

LEMMA SetNRefines ==
  ASSUME StrInv, NEW x \in Strings, NEW span \in Spans(x), SetN(x, span)
  PROVE  Refined
<1> DEFINE m == Machine(x)
           p == Pointer(str[x], span)
           c == [Call("set_n", x) EXCEPT !.span = span]
           v == str_validate_source(m, span)
           S == Then({v}, LAMBDA e : str_set_valid_span(e, p, span.n))
<1>1. Run(c, Mutation(m, S))
  BY Zenon DEF SetN, SpanMutation
<1>2. IsCall(c, x, "set_n") /\ "set_n" \in Mutators
  BY DEF Call, IsCall, Mutators
<1>3. PICK d : d = call' /\ d.op = "set_n" /\ d.span = span /\ d.how = "renders"
  <2>1. Called(c, call')
    BY <1>1, <1>2, RunCalled
  <2> QED
    BY <2>1 DEF Called, Call
<1>4. ASSUME NEW q \in S
      PROVE  q \in IF v.ret = "OK" THEN str_set_valid_span(v, p, span.n) ELSE {v}
  BY <1>4 DEF Then
<1>5. Step(x)
  BY SetNStep
<1>6. PICK R : R = Others(x)
  OBVIOUS
<1>7. Passing(x, d, span, m, R, p) /\ Reads(x, d, span, m, R, p, v)
  <2>1. m = Machine(x) /\ p = Pointer(str[x], span) /\ v = str_validate_source(m, span)
    OBVIOUS
  <2> HIDE DEF m, p, v, S, c
  <2>2. Passing(x, d, span, m, R, p)
    BY <1>3, <1>6, <2>1, PassingIs
  <2>3. d.op \in {"set_n", "append_n", "insert_n", "replace_view"}
    BY <1>3
  <2>4. Reads(x, d, span, m, R, p, v)
    BY <2>1, <2>2, <2>3, SourceRead
  <2> QED
    BY <2>2, <2>4
<1>8. m = Machine(x)
  OBVIOUS
<1> HIDE DEF m, p, c, v, S
<1>9. ASSUME str[x].status = "OK", NEW q \in S
      PROVE  Answered(m, R, q) /\ Honours(x, d, q)
  <2>1. q \in IF v.ret = "OK" THEN str_set_valid_span(v, p, span.n) ELSE {v}
    BY <1>4
  <2>2. PICK n \in Nat : n = span.n
    BY <1>7 DEF Passing
  <2>3. /\ v.heap = m.heap /\ v.s = m.s /\ Sound(v, R) /\ Kept(m, R, v) /\ Text(v) = Text(m)
        /\ \/ v.ret = "ERR_ARG" /\ Value!BadArgument(Content(x), d)
           \/ /\ v.ret = "OK" /\ (Overlaps(v, p, n) <=> Value!BadArgument(Content(x), d))
              /\ ~Overlaps(v, p, n) => Load(v.heap, p, n) = Value!SpanBytes(Text(m), span)
    BY <1>7, <2>2 DEF Reads
  <2>4. CASE v.ret = "ERR_ARG" /\ Value!BadArgument(Content(x), d)
    <3>1. q = v
      BY <2>1, <2>4
    <3> QED
      BY <2>3, <2>4, <3>1, RefusalHonours, KeptAnswered
  <2>5. ASSUME v.ret = "OK", Overlaps(v, p, n) <=> Value!BadArgument(Content(x), d),
               ~Overlaps(v, p, n) => Load(v.heap, p, n) = Value!SpanBytes(Text(m), span)
        PROVE  Answered(m, R, q) /\ Honours(x, d, q)
    <3>1. q \in str_set_valid_span(v, p, n)
      BY <2>1, <2>2, <2>5
    <3>2. /\ m.ret = "OK" /\ p \in Place /\ Aimed(m, R, p) /\ Content(x) = Text(m) /\ d.span = span
          /\ Len(Text(m)) = m.s.len /\ m.s.len \in Nat
      BY <1>7 DEF Passing
    <3>3. Aimed(v, R, p)
      BY <2>3, <3>2 DEF Aimed
    <3>4. Kept(m, R, q)
      <4>1. Kept(v, R, q)
        BY <2>3, <2>5, <3>1, <3>2, SetSpan
      <4> QED
        BY <2>3, <4>1, KeptSince
    <3>5. PICK bad \in BOOLEAN : bad <=> Overlaps(v, p, n)
      OBVIOUS
    <3>6. PICK b : b = Load(v.heap, p, n)
      OBVIOUS
    <3>7. Does(m, R, q, n, bad, b)
      <4>1. Does(v, R, q, n, Overlaps(v, p, n), Load(v.heap, p, n))
        BY <2>3, <2>5, <3>1, <3>2, <3>3, SetText
      <4>2. Does(v, R, q, n, bad, b)
        BY <2>3, <3>5, <3>6, <4>1 DEF Does, Refuses
      <4> QED
        BY <2>3, <2>5, <3>2, <4>2, DoesSince
    <3>8. ~bad => Value!Result(Content(x), d) = b
      <4>1. d.op \in {"set_n", "append_n", "insert_n", "replace_view"} /\ d.op = "set_n"
        BY <1>3
      <4>2. Value!Result(Content(x), d) = Value!SpanBytes(Content(x), d.span)
        BY <4>1, SpanAsks
      <4>3. ~bad => b = Value!SpanBytes(Text(m), span)
        BY <2>5, <3>5, <3>6
      <4> QED
        BY ONLY <3>2, <4>2, <4>3
    <3>9. Asks(x, d, n, bad)
      <4>1. d.op \in {"set_n", "append_n", "insert_n", "replace_view"} /\ d.op = "set_n"
        BY <1>3
      <4>2. ~Value!BadRange(Content(x), d) /\ d.op \in Value!TakesSpan
        BY <4>1, SpanAsks
      <4>3. Value!RequestedLen(Content(x), d) = n
        <5>1. Value!RequestedLen(Content(x), d) = d.span.n
          BY <4>1, SpanAsks
        <5> QED
          BY <2>2, <3>2, <5>1
      <4>4. n \in Nat
        BY <3>2
      <4> QED
        BY <1>3, <2>5, <3>5, <4>2, <4>3, <4>4 DEF Asks
    <3>10. Honours(x, d, q)
      BY <1>8, <1>9, <3>7, <3>8, <3>9, SpanDoes
    <3> QED
      BY <3>4, <3>10, KeptAnswered
  <2> QED
    BY <2>3, <2>4, <2>5
<1> QED
  BY <1>1, <1>2, <1>3, <1>5, <1>6, <1>8, <1>9, RunRefines

LEMMA AppendNRefines ==
  ASSUME StrInv, NEW x \in Strings, NEW span \in Spans(x), AppendN(x, span)
  PROVE  Refined
<1> DEFINE m == Machine(x)
           p == Pointer(str[x], span)
           c == [Call("append_n", x) EXCEPT !.span = span]
           v == str_validate_source(m, span)
           S == Then({v}, LAMBDA e : str_append_valid_span(e, p, span.n))
<1>1. Run(c, Mutation(m, S))
  BY Zenon DEF AppendN, SpanMutation
<1>2. IsCall(c, x, "append_n") /\ "append_n" \in Mutators
  BY DEF Call, IsCall, Mutators
<1>3. PICK d : d = call' /\ d.op = "append_n" /\ d.span = span /\ d.how = "renders"
  <2>1. Called(c, call')
    BY <1>1, <1>2, RunCalled
  <2> QED
    BY <2>1 DEF Called, Call
<1>4. ASSUME NEW q \in S
      PROVE  q \in IF v.ret = "OK" THEN str_append_valid_span(v, p, span.n) ELSE {v}
  BY <1>4 DEF Then
<1>5. Step(x)
  BY AppendNStep
<1>6. PICK R : R = Others(x)
  OBVIOUS
<1>7. Passing(x, d, span, m, R, p) /\ Reads(x, d, span, m, R, p, v)
  <2>1. m = Machine(x) /\ p = Pointer(str[x], span) /\ v = str_validate_source(m, span)
    OBVIOUS
  <2> HIDE DEF m, p, v, S, c
  <2>2. Passing(x, d, span, m, R, p)
    BY <1>3, <1>6, <2>1, PassingIs
  <2>3. d.op \in {"set_n", "append_n", "insert_n", "replace_view"}
    BY <1>3
  <2>4. Reads(x, d, span, m, R, p, v)
    BY <2>1, <2>2, <2>3, SourceRead
  <2> QED
    BY <2>2, <2>4
<1>8. m = Machine(x)
  OBVIOUS
<1> HIDE DEF m, p, c, v, S
<1>9. ASSUME str[x].status = "OK", NEW q \in S
      PROVE  Answered(m, R, q) /\ Honours(x, d, q)
  <2>1. q \in IF v.ret = "OK" THEN str_append_valid_span(v, p, span.n) ELSE {v}
    BY <1>4
  <2>2. PICK n \in Nat : n = span.n
    BY <1>7 DEF Passing
  <2>3. /\ v.heap = m.heap /\ v.s = m.s /\ Sound(v, R) /\ Kept(m, R, v) /\ Text(v) = Text(m)
        /\ \/ v.ret = "ERR_ARG" /\ Value!BadArgument(Content(x), d)
           \/ /\ v.ret = "OK" /\ (Overlaps(v, p, n) <=> Value!BadArgument(Content(x), d))
              /\ ~Overlaps(v, p, n) => Load(v.heap, p, n) = Value!SpanBytes(Text(m), span)
    BY <1>7, <2>2 DEF Reads
  <2>4. CASE v.ret = "ERR_ARG" /\ Value!BadArgument(Content(x), d)
    <3>1. q = v
      BY <2>1, <2>4
    <3> QED
      BY <2>3, <2>4, <3>1, RefusalHonours, KeptAnswered
  <2>5. ASSUME v.ret = "OK", Overlaps(v, p, n) <=> Value!BadArgument(Content(x), d),
               ~Overlaps(v, p, n) => Load(v.heap, p, n) = Value!SpanBytes(Text(m), span)
        PROVE  Answered(m, R, q) /\ Honours(x, d, q)
    <3>1. q \in str_append_valid_span(v, p, n)
      BY <2>1, <2>2, <2>5
    <3>2. /\ m.ret = "OK" /\ p \in Place /\ Aimed(m, R, p) /\ Content(x) = Text(m) /\ d.span = span
          /\ Len(Text(m)) = m.s.len /\ m.s.len \in Nat
      BY <1>7 DEF Passing
    <3>3. Aimed(v, R, p)
      BY <2>3, <3>2 DEF Aimed
    <3>4. Kept(m, R, q)
      <4>1. Kept(v, R, q)
        BY <2>3, <2>5, <3>1, <3>2, AppendSpan
      <4> QED
        BY <2>3, <4>1, KeptSince
    <3>5. PICK bad \in BOOLEAN : bad <=> Overlaps(v, p, n)
      OBVIOUS
    <3>6. PICK b : b = Load(v.heap, p, n)
      OBVIOUS
    <3>7. Does(m, R, q, m.s.len + n, bad, Text(m) \o b)
      <4>1. Does(v, R, q, v.s.len + n, Overlaps(v, p, n), Text(v) \o Load(v.heap, p, n))
        BY <2>3, <2>5, <3>1, <3>2, <3>3, AppendText
      <4>2. Does(v, R, q, m.s.len + n, bad, Text(m) \o b)
        BY <2>3, <3>5, <3>6, <4>1 DEF Does, Refuses
      <4> QED
        BY <2>3, <2>5, <3>2, <4>2, DoesSince
    <3>8. ~bad => Value!Result(Content(x), d) = Text(m) \o b
      <4>1. d.op \in {"set_n", "append_n", "insert_n", "replace_view"} /\ d.op = "append_n"
        BY <1>3
      <4>2. Value!Result(Content(x), d) = Content(x) \o Value!SpanBytes(Content(x), d.span)
        BY <4>1, SpanAsks
      <4>3. ~bad => b = Value!SpanBytes(Text(m), span)
        BY <2>5, <3>5, <3>6
      <4> QED
        BY ONLY <3>2, <4>2, <4>3
    <3>9. Asks(x, d, m.s.len + n, bad)
      <4>1. d.op \in {"set_n", "append_n", "insert_n", "replace_view"} /\ d.op = "append_n"
        BY <1>3
      <4>2. ~Value!BadRange(Content(x), d) /\ d.op \in Value!TakesSpan
        BY <4>1, SpanAsks
      <4>3. Value!RequestedLen(Content(x), d) = m.s.len + n
        <5>1. Value!RequestedLen(Content(x), d) = Len(Content(x)) + d.span.n
          BY <4>1, SpanAsks
        <5> QED
          BY <2>2, <3>2, <5>1
      <4>4. m.s.len + n \in Nat
        BY <3>2
      <4> QED
        BY <1>3, <2>5, <3>5, <4>2, <4>3, <4>4 DEF Asks
    <3>10. Honours(x, d, q)
      BY <1>8, <1>9, <3>7, <3>8, <3>9, SpanDoes
    <3> QED
      BY <3>4, <3>10, KeptAnswered
  <2> QED
    BY <2>3, <2>4, <2>5
<1> QED
  BY <1>1, <1>2, <1>3, <1>5, <1>6, <1>8, <1>9, RunRefines

LEMMA InsertNRefines ==
  ASSUME StrInv, NEW x \in Strings, NEW idx \in Nat, NEW span \in Spans(x), InsertN(x, idx, span)
  PROVE  Refined
<1> DEFINE m == Machine(x)
           p == Pointer(str[x], span)
           c == [Call("insert_n", x) EXCEPT !.idx = idx, !.span = span]
           v == str_validate_source(m, span)
           g == str_validate_span(v, v.s.len, idx, 0)
           S == Then({v}, LAMBDA e : Then({str_validate_span(e, e.s.len, idx, 0)},
                                         LAMBDA f : IF span.n = 0 THEN {f} ELSE str_insert_span(f, idx, p, span.n)))
<1>1. Run(c, Mutation(m, S))
  BY Zenon DEF InsertN, SpanMutation
<1>2. IsCall(c, x, "insert_n") /\ "insert_n" \in Mutators
  BY DEF Call, IsCall, Mutators
<1>3. PICK d : d = call' /\ d.op = "insert_n" /\ d.span = span /\ d.how = "renders" /\ d.idx = idx
  <2>1. Called(c, call')
    BY <1>1, <1>2, RunCalled
  <2>2. /\ {"op", "idx", "k", "span", "fill", "how"} \subseteq DOMAIN c
        /\ c.op = "insert_n" /\ c.span = span /\ c.how = "renders" /\ c.idx = idx
    BY DEF Call
  <2> HIDE DEF c
  <2> QED
    BY <2>1, <2>2, CalledKeeps
<1>4. ASSUME NEW q \in S
      PROVE  \/ v.ret # "OK" /\ q = v
             \/ v.ret = "OK" /\ g.ret # "OK" /\ q = g
             \/ /\ v.ret = "OK" /\ g.ret = "OK"
                /\ q \in IF span.n = 0 THEN {g} ELSE str_insert_span(g, idx, p, span.n)
  BY <1>4 DEF Then
<1>5. Step(x)
  BY InsertNStep
<1>6. PICK R : R = Others(x)
  OBVIOUS
<1>7. Passing(x, d, span, m, R, p) /\ Reads(x, d, span, m, R, p, v)
  <2>1. m = Machine(x) /\ p = Pointer(str[x], span) /\ v = str_validate_source(m, span)
    OBVIOUS
  <2> HIDE DEF m, p, v, g, S, c
  <2>2. Passing(x, d, span, m, R, p)
    BY <1>3, <1>6, <2>1, PassingIs
  <2>3. d.op \in {"set_n", "append_n", "insert_n", "replace_view"}
    BY <1>3
  <2>4. Reads(x, d, span, m, R, p, v)
    BY <2>1, <2>2, <2>3, SourceRead
  <2> QED
    BY <2>2, <2>4
<1>8. m = Machine(x) /\ g = str_validate_span(v, v.s.len, idx, 0)
  OBVIOUS
<1> HIDE DEF m, p, c, v, g, S
<1>9. ASSUME str[x].status = "OK", NEW q \in S
      PROVE  Answered(m, R, q) /\ Honours(x, d, q)
  <2>1. PICK n \in Nat : n = span.n
    BY <1>7 DEF Passing
  <2>2. \/ v.ret # "OK" /\ q = v
        \/ v.ret = "OK" /\ g.ret # "OK" /\ q = g
        \/ /\ v.ret = "OK" /\ g.ret = "OK"
           /\ q \in IF n = 0 THEN {g} ELSE str_insert_span(g, idx, p, n)
    BY <1>4, <2>1
  <2>3. /\ v.heap = m.heap /\ v.s = m.s /\ Sound(v, R) /\ Kept(m, R, v) /\ Text(v) = Text(m)
        /\ \/ v.ret = "ERR_ARG" /\ Value!BadArgument(Content(x), d)
           \/ /\ v.ret = "OK" /\ (Overlaps(v, p, n) <=> Value!BadArgument(Content(x), d))
              /\ ~Overlaps(v, p, n) => Load(v.heap, p, n) = Value!SpanBytes(Text(m), span)
    BY <1>7, <2>1 DEF Reads
  <2>4. /\ m.ret = "OK" /\ m.s = str[x] /\ Sound(m, R) /\ p \in Place /\ Aimed(m, R, p) /\ d.span = span
        /\ Content(x) = Text(m) /\ Text(m) \in Seq(Cells)
        /\ Len(Text(m)) = m.s.len /\ m.s.len \in Nat /\ m.s.len < SizeMax
    BY <1>7 DEF Passing
  <2>5. /\ g.heap = m.heap /\ g.s = m.s /\ Sound(g, R) /\ Kept(m, R, g) /\ Text(g) = Text(m)
        /\ \/ g.ret = "OK" /\ idx + 0 <= m.s.len
           \/ g.ret = "ERR_RANGE" /\ idx + 0 > m.s.len
    <3>1. 0 \in Nat /\ v.s.len \in Nat /\ v.s.len = m.s.len
      BY <2>3, <2>4
    <3>2. /\ g.heap = v.heap /\ g.s = v.s /\ Sound(g, R) /\ Kept(v, R, g) /\ Text(g) = Text(v)
          /\ \/ g.ret = "OK" /\ idx + 0 <= v.s.len
             \/ g.ret = "ERR_RANGE" /\ idx + 0 > v.s.len
      <4>1. PICK len \in Nat : len = v.s.len
        BY <3>1
      <4>2. PICK j \in Nat : j = 0
        BY <3>1
      <4>3. Sound(v, R) /\ g = str_validate_span(v, len, idx, j)
        BY <1>8, <2>3, <4>1, <4>2
      <4>4. Ranged(v, R, g, len, idx, j)
        BY <4>3, RangeChecked
      <4> QED
        BY <4>1, <4>2, <4>4 DEF Ranged
    <3>3. Kept(m, R, g)
      BY <2>3, <3>2, KeptSince
    <3> QED
      BY <2>3, <3>1, <3>2, <3>3
  <2>6. d.op \in {"set_n", "append_n", "insert_n", "replace_view"} /\ d.op = "insert_n"
    BY <1>3
  <2>7. Value!BadRange(Content(x), d) <=> idx + 0 > m.s.len
    <3>1. Value!BadRange(Content(x), d) <=> d.idx > Len(Content(x))
      BY <2>6, SpanAsks
    <3> QED
      BY <1>3, <2>4, <3>1
  <2>8. CASE v.ret # "OK" /\ q = v
    <3>1. q.ret = "ERR_ARG" /\ Value!BadArgument(Content(x), d)
      BY <2>3, <2>8
    <3> QED
      BY <2>3, <2>8, <3>1, RefusalHonours, KeptAnswered
  <2>9. CASE v.ret = "OK" /\ g.ret # "OK" /\ q = g
    <3>1. q.ret = "ERR_RANGE" /\ Value!BadRange(Content(x), d)
      BY <2>5, <2>7, <2>9
    <3> QED
      BY <2>5, <2>9, <3>1, RefusalHonours, KeptAnswered
  <2>10. ASSUME v.ret = "OK", g.ret = "OK",
                q \in IF n = 0 THEN {g} ELSE str_insert_span(g, idx, p, n)
         PROVE  Answered(m, R, q) /\ Honours(x, d, q)
    <3>1. idx + 0 <= m.s.len /\ idx <= m.s.len
      BY <2>4, <2>5, <2>10
    <3>2. PICK bad \in BOOLEAN : bad <=> Overlaps(v, p, n)
      OBVIOUS
    <3>3. PICK b : b = Load(g.heap, p, n)
      OBVIOUS
    <3>4. ~bad => b = Value!SpanBytes(Text(m), span)
      BY <2>3, <2>5, <2>10, <3>2, <3>3
    <3>5. bad <=> Value!BadArgument(Content(x), d)
      BY <2>3, <2>10, <3>2
    <3>6. Overlaps(g, p, n) <=> bad
      BY <2>3, <2>5, <3>2 DEF Overlaps
    <3>7. PICK need : need = m.s.len + n
      OBVIOUS
    <3>8. PICK w : w = Value!Spliced(Text(m), idx, 0, b)
      OBVIOUS
    <3>9. ~bad => Value!Result(Content(x), d) = w
      <4>1. Value!Result(Content(x), d) = Value!Spliced(Content(x), d.idx, 0, Value!SpanBytes(Content(x), d.span))
        BY <2>6, SpanAsks
      <4>2. Value!Result(Content(x), d) = Value!Spliced(Text(m), idx, 0, Value!SpanBytes(Text(m), span))
        BY ONLY <1>3, <2>4, <4>1
      <4> QED
        BY ONLY <3>4, <3>8, <4>2
    <3>10. Asks(x, d, need, bad)
      <4>1. ~Value!BadRange(Content(x), d)
        BY <2>4, <2>7, <3>1
      <4>2. d.op \in Value!TakesSpan
        BY <2>6 DEF Value!TakesSpan
      <4>3. Value!RequestedLen(Content(x), d) = need
        <5>1. Value!RequestedLen(Content(x), d) = Len(Content(x)) + d.span.n
          BY <2>6, SpanAsks
        <5> QED
          BY <1>3, <2>1, <2>4, <3>7, <5>1
      <4>4. need \in Nat
        BY <2>4, <3>1, <3>7
      <4> QED
        BY <1>3, <3>5, <4>1, <4>2, <4>3, <4>4 DEF Asks
    <3>11. CASE n = 0
      <4>1. q = g
        BY <2>10, <3>11
      <4>2. ~bad
        BY <3>2, <3>11 DEF Overlaps
      <4>3. b = <<>>
        <5>1. IsHeap(g.heap)
          BY <2>5, MachineType DEF Sound
        <5>2. Load(g.heap, p, 0) = <<>>
          BY <2>4, <5>1, NoBytes
        <5> QED
          BY <3>3, <3>11, <5>2
      <4>4. w = Text(m)
        <5>1. Value!Spliced(Text(m), idx, 0, <<>>) = Text(m)
          BY <2>4, <3>1, SplicedNothing
        <5> QED
          BY <3>8, <3>11, <4>3, <5>1
      <4>5. Does(m, R, q, need, FALSE, w)
        <5>1. need < SizeMax
          BY <2>4, <3>7, <3>11
        <5>2. Wrote(m, R, q, w)
          BY <2>4, <2>5, <2>10, <4>1, <4>4 DEF Wrote
        <5> QED
          BY <5>1, <5>2 DEF Does
      <4>6. Asks(x, d, need, FALSE)
        BY <3>10, <4>2 DEF Asks
      <4>7. Honours(x, d, q)
        BY <1>8, <1>9, <3>9, <4>2, <4>5, <4>6, DoesHonours
      <4> QED
        BY <2>5, <4>1, <4>7, KeptAnswered
    <3>12. CASE ~(n = 0)
      <4>1. q \in str_insert_span(g, idx, p, n)
        BY <2>10, <3>12
      <4>2. Aimed(g, R, p)
        BY <2>4, <2>5 DEF Aimed
      <4>3. n > 0
        BY <3>12
      <4>4. idx + 0 <= g.s.len /\ idx <= g.s.len /\ g.s.len = m.s.len
        BY <2>5, <3>1
      <4>5. Kept(m, R, q)
        <5>1. Kept(g, R, q)
          BY <2>4, <2>5, <2>10, <4>1, <4>3, <4>4, InsertSpan
        <5> QED
          BY <2>5, <5>1, KeptSince
      <4>6. Does(m, R, q, need, bad, w)
        <5>1. Does(g, R, q, g.s.len + n, Overlaps(g, p, n), Value!Spliced(Text(g), idx, 0, Load(g.heap, p, n)))
          BY <2>4, <2>5, <2>10, <4>1, <4>2, <4>3, <4>4, InsertText
        <5>2. Does(g, R, q, need, Overlaps(g, p, n), w)
          BY <2>5, <3>3, <3>7, <3>8, <4>4, <5>1
        <5>3. Does(g, R, q, need, bad, w)
          BY <3>6, <5>2 DEF Does, Manages, Refuses
        <5> QED
          BY <2>4, <2>5, <2>10, <5>3, DoesSince
      <4>7. Honours(x, d, q)
        BY <1>8, <1>9, <2>6, <3>9, <3>10, <4>6, SpanDoes
      <4> QED
        BY <4>5, <4>7, KeptAnswered
    <3> QED
      BY <3>11, <3>12
  <2> QED
    BY <2>2, <2>8, <2>9, <2>10
<1> QED
  BY <1>1, <1>2, <1>3, <1>5, <1>6, <1>8, <1>9, RunRefines

LEMMA ReplaceViewRefines ==
  ASSUME StrInv, NEW x \in Strings, NEW idx \in Nat, NEW k \in Nat,
         NEW span \in Spans(x), ReplaceView(x, idx, k, span)
  PROVE  Refined
<1> DEFINE m == Machine(x)
           p == Pointer(str[x], span)
           c == [Call("replace_view", x) EXCEPT !.idx = idx, !.k = k, !.span = span]
           v == str_validate_source(m, span)
           g == str_validate_span(v, v.s.len, idx, k)
           S == Then({v}, LAMBDA e : Then({str_validate_span(e, e.s.len, idx, k)},
                                         LAMBDA f : IF k = 0 /\ span.n = 0 THEN {f} ELSE str_apply_replacement(f, idx, k, p, span.n)))
<1>1. Run(c, Mutation(m, S))
  BY Zenon DEF ReplaceView, SpanMutation
<1>2. IsCall(c, x, "replace_view") /\ "replace_view" \in Mutators
  BY DEF Call, IsCall, Mutators
<1>3. PICK d : d = call' /\ d.op = "replace_view" /\ d.span = span /\ d.how = "renders" /\ d.idx = idx /\ d.k = k
  <2>1. Called(c, call')
    BY <1>1, <1>2, RunCalled
  <2>2. /\ {"op", "idx", "k", "span", "fill", "how"} \subseteq DOMAIN c
        /\ c.op = "replace_view" /\ c.span = span /\ c.how = "renders" /\ c.idx = idx /\ c.k = k
    BY DEF Call
  <2> HIDE DEF c
  <2> QED
    BY <2>1, <2>2, CalledKeeps
<1>4. ASSUME NEW q \in S
      PROVE  \/ v.ret # "OK" /\ q = v
             \/ v.ret = "OK" /\ g.ret # "OK" /\ q = g
             \/ /\ v.ret = "OK" /\ g.ret = "OK"
                /\ q \in IF k = 0 /\ span.n = 0 THEN {g} ELSE str_apply_replacement(g, idx, k, p, span.n)
  BY <1>4 DEF Then
<1>5. Step(x)
  BY ReplaceViewStep
<1>6. PICK R : R = Others(x)
  OBVIOUS
<1>7. Passing(x, d, span, m, R, p) /\ Reads(x, d, span, m, R, p, v)
  <2>1. m = Machine(x) /\ p = Pointer(str[x], span) /\ v = str_validate_source(m, span)
    OBVIOUS
  <2> HIDE DEF m, p, v, g, S, c
  <2>2. Passing(x, d, span, m, R, p)
    BY <1>3, <1>6, <2>1, PassingIs
  <2>3. d.op \in {"set_n", "append_n", "insert_n", "replace_view"}
    BY <1>3
  <2>4. Reads(x, d, span, m, R, p, v)
    BY <2>1, <2>2, <2>3, SourceRead
  <2> QED
    BY <2>2, <2>4
<1>8. m = Machine(x) /\ g = str_validate_span(v, v.s.len, idx, k)
  OBVIOUS
<1> HIDE DEF m, p, c, v, g, S
<1>9. ASSUME str[x].status = "OK", NEW q \in S
      PROVE  Answered(m, R, q) /\ Honours(x, d, q)
  <2>1. PICK n \in Nat : n = span.n
    BY <1>7 DEF Passing
  <2>2. \/ v.ret # "OK" /\ q = v
        \/ v.ret = "OK" /\ g.ret # "OK" /\ q = g
        \/ /\ v.ret = "OK" /\ g.ret = "OK"
           /\ q \in IF k = 0 /\ n = 0 THEN {g} ELSE str_apply_replacement(g, idx, k, p, n)
    BY <1>4, <2>1
  <2>3. /\ v.heap = m.heap /\ v.s = m.s /\ Sound(v, R) /\ Kept(m, R, v) /\ Text(v) = Text(m)
        /\ \/ v.ret = "ERR_ARG" /\ Value!BadArgument(Content(x), d)
           \/ /\ v.ret = "OK" /\ (Overlaps(v, p, n) <=> Value!BadArgument(Content(x), d))
              /\ ~Overlaps(v, p, n) => Load(v.heap, p, n) = Value!SpanBytes(Text(m), span)
    BY <1>7, <2>1 DEF Reads
  <2>4. /\ m.ret = "OK" /\ m.s = str[x] /\ Sound(m, R) /\ p \in Place /\ Aimed(m, R, p) /\ d.span = span
        /\ Content(x) = Text(m) /\ Text(m) \in Seq(Cells)
        /\ Len(Text(m)) = m.s.len /\ m.s.len \in Nat /\ m.s.len < SizeMax
    BY <1>7 DEF Passing
  <2>5. /\ g.heap = m.heap /\ g.s = m.s /\ Sound(g, R) /\ Kept(m, R, g) /\ Text(g) = Text(m)
        /\ \/ g.ret = "OK" /\ idx + k <= m.s.len
           \/ g.ret = "ERR_RANGE" /\ idx + k > m.s.len
    <3>1. 0 \in Nat /\ v.s.len \in Nat /\ v.s.len = m.s.len
      BY <2>3, <2>4
    <3>2. /\ g.heap = v.heap /\ g.s = v.s /\ Sound(g, R) /\ Kept(v, R, g) /\ Text(g) = Text(v)
          /\ \/ g.ret = "OK" /\ idx + k <= v.s.len
             \/ g.ret = "ERR_RANGE" /\ idx + k > v.s.len
      <4>1. PICK len \in Nat : len = v.s.len
        BY <3>1
      <4>2. PICK j \in Nat : j = k
        BY <3>1
      <4>3. Sound(v, R) /\ g = str_validate_span(v, len, idx, j)
        BY <1>8, <2>3, <4>1, <4>2
      <4>4. Ranged(v, R, g, len, idx, j)
        BY <4>3, RangeChecked
      <4> QED
        BY <4>1, <4>2, <4>4 DEF Ranged
    <3>3. Kept(m, R, g)
      BY <2>3, <3>2, KeptSince
    <3> QED
      BY <2>3, <3>1, <3>2, <3>3
  <2>6. d.op \in {"set_n", "append_n", "insert_n", "replace_view"} /\ d.op = "replace_view"
    BY <1>3
  <2>7. Value!BadRange(Content(x), d) <=> idx + k > m.s.len
    <3>1. Value!BadRange(Content(x), d) <=> d.idx + d.k > Len(Content(x))
      BY <2>6, SpanAsks
    <3> QED
      BY <1>3, <2>4, <3>1
  <2>8. CASE v.ret # "OK" /\ q = v
    <3>1. q.ret = "ERR_ARG" /\ Value!BadArgument(Content(x), d)
      BY <2>3, <2>8
    <3> QED
      BY <2>3, <2>8, <3>1, RefusalHonours, KeptAnswered
  <2>9. CASE v.ret = "OK" /\ g.ret # "OK" /\ q = g
    <3>1. q.ret = "ERR_RANGE" /\ Value!BadRange(Content(x), d)
      BY <2>5, <2>7, <2>9
    <3> QED
      BY <2>5, <2>9, <3>1, RefusalHonours, KeptAnswered
  <2>10. ASSUME v.ret = "OK", g.ret = "OK",
                q \in IF k = 0 /\ n = 0 THEN {g} ELSE str_apply_replacement(g, idx, k, p, n)
         PROVE  Answered(m, R, q) /\ Honours(x, d, q)
    <3>1. idx + k <= m.s.len /\ idx <= m.s.len
      BY <2>4, <2>5, <2>10
    <3>2. PICK bad \in BOOLEAN : bad <=> Overlaps(v, p, n)
      OBVIOUS
    <3>3. PICK b : b = Load(g.heap, p, n)
      OBVIOUS
    <3>4. ~bad => b = Value!SpanBytes(Text(m), span)
      BY <2>3, <2>5, <2>10, <3>2, <3>3
    <3>5. bad <=> Value!BadArgument(Content(x), d)
      BY <2>3, <2>10, <3>2
    <3>6. Overlaps(g, p, n) <=> bad
      BY <2>3, <2>5, <3>2 DEF Overlaps
    <3>7. PICK need : need = (m.s.len - k) + n
      OBVIOUS
    <3>8. PICK w : w = Value!Spliced(Text(m), idx, k, b)
      OBVIOUS
    <3>9. ~bad => Value!Result(Content(x), d) = w
      <4>1. Value!Result(Content(x), d) = Value!Spliced(Content(x), d.idx, d.k, Value!SpanBytes(Content(x), d.span))
        BY <2>6, SpanAsks
      <4>2. Value!Result(Content(x), d) = Value!Spliced(Text(m), idx, k, Value!SpanBytes(Text(m), span))
        BY ONLY <1>3, <2>4, <4>1
      <4> QED
        BY ONLY <3>4, <3>8, <4>2
    <3>10. Asks(x, d, need, bad)
      <4>1. ~Value!BadRange(Content(x), d)
        BY <2>4, <2>7, <3>1
      <4>2. d.op \in Value!TakesSpan
        BY <2>6 DEF Value!TakesSpan
      <4>3. Value!RequestedLen(Content(x), d) = need
        <5>1. Value!RequestedLen(Content(x), d) = Len(Content(x)) - d.k + d.span.n
          BY <2>6, SpanAsks
        <5> QED
          BY <1>3, <2>1, <2>4, <3>7, <5>1
      <4>4. need \in Nat
        BY <2>4, <3>1, <3>7
      <4> QED
        BY <1>3, <3>5, <4>1, <4>2, <4>3, <4>4 DEF Asks
    <3>11. CASE k = 0 /\ n = 0
      <4>1. q = g
        BY <2>10, <3>11
      <4>2. ~bad
        BY <3>2, <3>11 DEF Overlaps
      <4>3. b = <<>>
        <5>1. IsHeap(g.heap)
          BY <2>5, MachineType DEF Sound
        <5>2. Load(g.heap, p, 0) = <<>>
          BY <2>4, <5>1, NoBytes
        <5> QED
          BY <3>3, <3>11, <5>2
      <4>4. w = Text(m)
        <5>1. Value!Spliced(Text(m), idx, 0, <<>>) = Text(m)
          BY <2>4, <3>1, SplicedNothing
        <5> QED
          BY <3>8, <3>11, <4>3, <5>1
      <4>5. Does(m, R, q, need, FALSE, w)
        <5>1. need < SizeMax
          BY <2>4, <3>7, <3>11
        <5>2. Wrote(m, R, q, w)
          BY <2>4, <2>5, <2>10, <4>1, <4>4 DEF Wrote
        <5> QED
          BY <5>1, <5>2 DEF Does
      <4>6. Asks(x, d, need, FALSE)
        BY <3>10, <4>2 DEF Asks
      <4>7. Honours(x, d, q)
        BY <1>8, <1>9, <3>9, <4>2, <4>5, <4>6, DoesHonours
      <4> QED
        BY <2>5, <4>1, <4>7, KeptAnswered
    <3>12. CASE ~(k = 0 /\ n = 0)
      <4>1. q \in str_apply_replacement(g, idx, k, p, n)
        BY <2>10, <3>12
      <4>2. Aimed(g, R, p)
        BY <2>4, <2>5 DEF Aimed
      <4>3. n > 0 \/ k > 0
        BY <3>12
      <4>4. idx + k <= g.s.len /\ idx <= g.s.len /\ g.s.len = m.s.len
        BY <2>5, <3>1
      <4>5. Kept(m, R, q)
        <5>1. Kept(g, R, q)
          BY <2>4, <2>5, <2>10, <4>1, <4>3, <4>4, ReplacementApplied
        <5> QED
          BY <2>5, <5>1, KeptSince
      <4>6. Manages(m, R, q, need, bad, w)
        <5>1. Manages(g, R, q, (g.s.len - k) + n, Overlaps(g, p, n), Value!Spliced(Text(g), idx, k, Load(g.heap, p, n)))
          BY <2>4, <2>5, <2>10, <4>1, <4>2, <4>3, <4>4, AppliedText
        <5>2. Manages(g, R, q, need, Overlaps(g, p, n), w)
          BY <2>5, <3>3, <3>7, <3>8, <4>4, <5>1
        <5>3. Manages(g, R, q, need, bad, w)
          BY <3>6, <5>2 DEF Does, Manages, Refuses
        <5> QED
          BY <2>4, <2>5, <2>10, <5>3, ManagesSince
      <4>7. Honours(x, d, q)
        BY <1>8, <1>9, <2>6, <3>9, <3>10, <4>6, SpanManages DEF InPlace
      <4> QED
        BY <4>5, <4>7, KeptAnswered
    <3> QED
      BY <3>11, <3>12
  <2> QED
    BY <2>2, <2>8, <2>9, <2>10
<1> QED
  BY <1>1, <1>2, <1>3, <1>5, <1>6, <1>8, <1>9, RunRefines

LEMMA PlainAsks ==
  ASSUME NEW v, NEW d, d.op \in {"append_char", "resize", "shrink_to_fit"}
  PROVE  /\ ~Value!BadArgument(v, d) /\ ~Value!BadRange(v, d)
         /\ Value!RequestedLen(v, d) = Len(Value!Result(v, d))
         /\ d.op = "append_char" => Value!Result(v, d) = Append(v, d.fill)
         /\ d.op = "resize" => Value!Result(v, d) = [i \in 1..d.k |-> IF i <= Len(v) THEN v[i] ELSE d.fill]
         /\ d.op = "shrink_to_fit" => Value!Result(v, d) = v
<1>1. ~Value!BadArgument(v, d) /\ ~Value!BadRange(v, d)
  BY DEF Value!BadArgument, Value!BadRange, Value!TakesSpan, Value!TakesCString
<1>2. Value!RequestedLen(v, d) = Len(Value!Result(v, d))
  BY DEF Value!RequestedLen
<1>3. d.op = "append_char" => Value!Result(v, d) = Append(v, d.fill)
  BY DEF Value!Result
<1>4. d.op = "resize" => Value!Result(v, d) = [i \in 1..d.k |-> IF i <= Len(v) THEN v[i] ELSE d.fill]
  BY DEF Value!Result
<1>5. d.op = "shrink_to_fit" => Value!Result(v, d) = v
  BY DEF Value!Result
<1> QED
  BY <1>1, <1>2, <1>3, <1>4, <1>5

LEMMA OneByte ==
  ASSUME NEW S, NEW e \in S
  PROVE  \E w \in Seq(S) : w = <<e>> /\ Len(w) = 1 /\ w[1] = e
<1>1. <<e>> \in Seq(S) /\ Len(<<e>>) = 1 /\ <<e>>[1] = e
  OBVIOUS
<1> QED
  BY <1>1

LEMMA EmptyIs ==
  ASSUME NEW S
  PROVE  \E w \in Seq(S) : w = <<>> /\ Len(w) = 0
<1>1. <<>> \in Seq(S) /\ Len(<<>>) = 0
  OBVIOUS
<1> QED
  BY <1>1

LEMMA AppendedByte ==
  ASSUME NEW v \in Seq(Cells), NEW e \in Cells
  PROVE  v \o <<e>> = Append(v, e)
<1>1. PICK w \in Seq(Cells) : w = <<e>> /\ Len(w) = 1 /\ w[1] = e
  BY OneByte
<1>2. Len(v) \in Nat
  OBVIOUS
<1>3. /\ v \o w \in Seq(Cells) /\ Len(v \o w) = Len(v) + Len(w)
      /\ \A i \in 1..(Len(v) + Len(w)) : (v \o w)[i] = IF i <= Len(v) THEN v[i] ELSE w[i - Len(v)]
  BY JoinedIs
<1>4. PICK j \in Seq(Cells) : /\ j = v \o w /\ Len(j) = Len(v) + Len(w)
                              /\ \A i \in 1..(Len(v) + Len(w)) : j[i] = IF i <= Len(v) THEN v[i] ELSE w[i - Len(v)]
  BY ONLY <1>3
<1>5. /\ Append(v, e) \in Seq(Cells) /\ Len(Append(v, e)) = Len(v) + 1 /\ Append(v, e)[Len(v) + 1] = e
      /\ \A i \in 1..Len(v) : Append(v, e)[i] = v[i]
  BY AppendIs
<1>6. PICK a \in Seq(Cells) : /\ a = Append(v, e) /\ Len(a) = Len(v) + 1 /\ a[Len(v) + 1] = e
                              /\ \A i \in 1..Len(v) : a[i] = v[i]
  BY ONLY <1>5
<1>7. ASSUME NEW i \in 1..Len(j) PROVE j[i] = a[i]
  <2>1. CASE i <= Len(v)
    BY <1>1, <1>2, <1>4, <1>6, <1>7, <2>1
  <2>2. CASE i = Len(v) + 1
    BY <1>1, <1>2, <1>4, <1>6, <1>7, <2>2
  <2> QED
    BY <1>1, <1>2, <1>4, <1>7, <2>1, <2>2
<1>8. Len(j) = Len(a)
  BY <1>1, <1>4, <1>6
<1>9. j = a
  BY <1>7, <1>8, SameSequence
<1> QED
  BY <1>1, <1>4, <1>6, <1>9

LEMMA ResizedIs ==
  ASSUME NEW v \in Seq(Cells), NEW e \in Cells, NEW n \in Nat,
         NEW r, r = [i \in 1..n |-> IF i <= Len(v) THEN v[i] ELSE e]
  PROVE  /\ r \in Seq(Cells) /\ Len(r) = n
         /\ n = Len(v) => r = v
         /\ n < Len(v) => Value!Spliced(v, n, Len(v) - n, <<>>) = r
<1>1. Len(v) \in Nat /\ \A i \in 1..Len(v) : v[i] \in Cells
  OBVIOUS
<1>2. r \in Seq(Cells) /\ Len(r) = n
  <2>1. \A i \in 1..n : (IF i <= Len(v) THEN v[i] ELSE e) \in Cells
    BY <1>1
  <2>2. r \in [1..n -> Cells]
    BY <2>1
  <2> QED
    BY <2>2
<1>3. \A i \in 1..n : r[i] = IF i <= Len(v) THEN v[i] ELSE e
  OBVIOUS
<1>4. ASSUME n = Len(v)
      PROVE  r = v
  <2>1. \A i \in 1..Len(r) : r[i] = v[i]
    BY <1>1, <1>2, <1>3, <1>4
  <2> QED
    BY <1>2, <1>4, <2>1, SameSequence
<1>5. ASSUME n < Len(v)
      PROVE  Value!Spliced(v, n, Len(v) - n, <<>>) = r
  <2>1. PICK w \in Seq(Cells) : w = <<>> /\ Len(w) = 0
    BY EmptyIs
  <2>2. Len(v) - n \in Nat
    BY <1>1, <1>5
  <2>3. PICK k \in Nat : k = Len(v) - n
    BY ONLY <2>2
  <2>4. n + k <= Len(v)
    BY <1>1, <2>3
  <2>5. /\ Value!Spliced(v, n, k, w) \in Seq(Cells)
        /\ Len(Value!Spliced(v, n, k, w)) = (Len(v) - k) + Len(w)
        /\ \A i \in 1..((Len(v) - k) + Len(w)) :
             Value!Spliced(v, n, k, w)[i] =
               IF i <= n THEN v[i] ELSE IF i <= n + Len(w) THEN w[i - n] ELSE v[(i - Len(w)) + k]
    <3>1. SplicedAs(Cells, Value!Spliced(v, n, k, w), v, n, k, w)
      BY <2>4, SplicedIs
    <3> QED
      BY <3>1 DEF SplicedAs
  <2>6. PICK s \in Seq(Cells) : s = Value!Spliced(v, n, k, w)
    BY <2>5
  <2>7. Len(s) = n
    BY <1>1, <2>1, <2>3, <2>5, <2>6
  <2>8. \A i \in 1..Len(s) : s[i] = r[i]
    BY <1>1, <1>3, <1>5, <2>1, <2>3, <2>5, <2>6, <2>7
  <2>9. s = r
    BY <1>2, <2>7, <2>8, SameSequence
  <2> QED
    BY <2>1, <2>3, <2>6, <2>9
<1> QED
  BY <1>2, <1>4, <1>5

\* The machine of a call on x, and the blocks that are not x's.
Starting(x, m, R) ==
  /\ m = Machine(x) /\ Sound(m, R) /\ m.ret = "OK" /\ m.s = str[x] /\ m.heap = heap
  /\ Content(x) = Text(m) /\ Text(m) \in Seq(Cells) /\ Len(Text(m)) = m.s.len
  /\ m.s.len \in Nat /\ m.s.len < SizeMax

LEMMA StartingIs ==
  ASSUME StrInv, NEW x \in Strings, NEW R, R = Others(x), NEW m, m = Machine(x)
  PROVE  Starting(x, m, R)
<1>1. Sound(m, R) /\ m.ret = "OK" /\ m.s = str[x] /\ m.heap = heap
  BY MachineSound
<1>2. /\ Content(x) = Text(m) /\ Text(m) \in Seq(Cells) /\ Len(Text(m)) = m.s.len
      /\ m.s.len \in Nat /\ m.s.len < SizeMax
  BY <1>1, ContentIs
<1> QED
  BY <1>1, <1>2 DEF Starting

LEMMA AppendCharRefines ==
  ASSUME StrInv, NEW x \in Strings, NEW byte \in Bytes, AppendChar(x, byte)
  PROVE  Refined
<1> DEFINE m == Machine(x)
           c == [Call("append_char", x) EXCEPT !.fill = byte]
           S == str_append_unaliased_span(m, <<byte>>)
<1>1. Run(c, Mutation(m, S))
  BY Zenon DEF AppendChar
<1>2. IsCall(c, x, "append_char") /\ "append_char" \in Mutators
  BY DEF Call, IsCall, Mutators
<1>3. PICK d : d = call' /\ d.op = "append_char" /\ d.fill = byte /\ d.how = "renders"
  <2>1. Called(c, call')
    BY <1>1, <1>2, RunCalled
  <2> QED
    BY <2>1 DEF Called, Call
<1>4. Step(x)
  BY AppendCharStep
<1>5. PICK R : R = Others(x)
  OBVIOUS
<1>6. m = Machine(x) /\ S = str_append_unaliased_span(m, <<byte>>)
  OBVIOUS
<1> HIDE DEF m, c, S
<1>7. Starting(x, m, R)
  BY <1>5, <1>6, StartingIs
<1>8. ASSUME str[x].status = "OK", NEW q \in S
      PROVE  Answered(m, R, q) /\ Honours(x, d, q)
  <2>1. PICK b \in Seq(Bytes) : b = <<byte>> /\ Len(b) = 1
    BY OneByte
  <2>2. /\ Sound(m, R) /\ m.ret = "OK" /\ Content(x) = Text(m) /\ Text(m) \in Seq(Cells)
        /\ Len(Text(m)) = m.s.len /\ m.s.len \in Nat
    BY <1>7 DEF Starting
  <2>3. q \in str_append_unaliased_span(m, b)
    BY <1>6, <1>8, <2>1
  <2>4. Kept(m, R, q)
    BY <2>2, <2>3, AppendUnaliased
  <2>5. Does(m, R, q, m.s.len + Len(b), FALSE, Text(m) \o b)
    BY <2>2, <2>3, UnaliasedText
  <2>6. PICK w : w = Append(Text(m), byte)
    OBVIOUS
  <2>7. Does(m, R, q, m.s.len + 1, FALSE, w)
    <3>1. Text(m) \o b = w
      BY <2>1, <2>2, <2>6, AppendedByte DEF Cells
    <3> QED
      BY <2>1, <2>5, <3>1
  <2>8. Value!Result(Content(x), d) = w
    <3>1. d.op \in {"append_char", "resize", "shrink_to_fit"} /\ d.op = "append_char"
      BY <1>3
    <3>2. Value!Result(Content(x), d) = Append(Content(x), d.fill)
      BY <3>1, PlainAsks
    <3> QED
      BY ONLY <1>3, <2>2, <2>6, <3>2
  <2>9. Asks(x, d, m.s.len + 1, FALSE)
    <3>1. d.op \in {"append_char", "resize", "shrink_to_fit"}
      BY <1>3
    <3>2. ~Value!BadArgument(Content(x), d) /\ ~Value!BadRange(Content(x), d)
      BY <3>1, PlainAsks
    <3>3. Value!RequestedLen(Content(x), d) = Len(Value!Result(Content(x), d))
      BY <3>1, PlainAsks
    <3>4. Len(w) = m.s.len + 1
      BY <2>2, <2>6, AppendIs DEF Cells
    <3> QED
      BY <1>3, <2>2, <2>8, <3>2, <3>3, <3>4 DEF Asks
  <2>10. Honours(x, d, q)
    BY <1>6, <1>8, <2>7, <2>8, <2>9, DoesHonours
  <2> QED
    BY <2>4, <2>10, KeptAnswered
<1> QED
  BY <1>1, <1>2, <1>3, <1>4, <1>5, <1>6, <1>8, RunRefines

\* A reservation asks for room and leaves the text alone.
LEMMA ReserveAsks ==
  ASSUME NEW v, NEW d, d.op = "reserve", d.how = "renders", d.k \in Nat
  PROVE  /\ Value!Result(v, d) = v /\ Value!RequestedLen(v, d) = d.k
         /\ d.k < SizeMax => Value!Faults(v, d) = {} /\ Value!MayLackMemory(v, d)
         /\ d.k >= SizeMax => "ERR_OVERFLOW" \in Value!Faults(v, d)
<1>1. Value!Result(v, d) = v
  BY DEF Value!Result
<1>2. Value!RequestedLen(v, d) = d.k
  BY DEF Value!RequestedLen
<1>3. ~Value!BadArgument(v, d) /\ ~Value!BadRange(v, d)
  BY DEF Value!BadArgument, Value!BadRange, Value!TakesSpan, Value!TakesCString
<1>4. Value!RequestedLen(v, d) \in Nat
  BY <1>2
<1>5. d.k < SizeMax => Value!Faults(v, d) = {} /\ Value!MayLackMemory(v, d)
  BY <1>2, <1>3, <1>4, FaultsAre
<1>6. d.k >= SizeMax => "ERR_OVERFLOW" \in Value!Faults(v, d)
  BY <1>2, <1>3, <1>4, FaultsAre
<1> QED
  BY <1>1, <1>2, <1>5, <1>6

LEMMA ReserveRefines ==
  ASSUME StrInv, NEW x \in Strings, NEW n \in Nat, Reserve(x, n)
  PROVE  Refined
<1> DEFINE m == Machine(x)
           c == [Call("reserve", x) EXCEPT !.k = n]
           v == str_calculate_capacity(m, n)
           S == IF n = 0 THEN {m}
                ELSE Then({str_calculate_capacity(m, n)}, LAMBDA o : str_ensure_capacity(o, n + 1))
<1>1. Run(c, Mutation(m, S))
  BY Zenon DEF Reserve
<1>2. IsCall(c, x, "reserve") /\ "reserve" \in Mutators
  BY DEF Call, IsCall, Mutators
<1>3. PICK d : d = call' /\ d.op = "reserve" /\ d.k = n /\ d.how = "renders"
  <2>1. Called(c, call')
    BY <1>1, <1>2, RunCalled
  <2> QED
    BY <2>1 DEF Called, Call
<1>4. ASSUME NEW q \in S
      PROVE  \/ n = 0 /\ q = m
             \/ n # 0 /\ v.ret # "OK" /\ q = v
             \/ n # 0 /\ v.ret = "OK" /\ q \in str_ensure_capacity(v, n + 1)
  BY <1>4 DEF Then
<1>5. Step(x)
  BY ReserveStep
<1>6. PICK R : R = Others(x)
  OBVIOUS
<1>7. m = Machine(x) /\ v = str_calculate_capacity(m, n)
  OBVIOUS
<1> HIDE DEF m, c, v, S
<1>8. Starting(x, m, R)
  BY <1>6, <1>7, StartingIs
<1>9. ASSUME str[x].status = "OK", NEW q \in S
      PROVE  Answered(m, R, q) /\ Honours(x, d, q)
  <2>1. \/ n = 0 /\ q = m
        \/ n # 0 /\ v.ret # "OK" /\ q = v
        \/ n # 0 /\ v.ret = "OK" /\ q \in str_ensure_capacity(v, n + 1)
    BY <1>4
  <2>2. /\ Sound(m, R) /\ m.ret = "OK" /\ m.s = str[x] /\ Content(x) = Text(m)
        /\ m.s.cap \in Nat /\ SizeMax \in Nat \ {0}
    <3>1. Sound(m, R) /\ m.ret = "OK" /\ m.s = str[x] /\ Content(x) = Text(m)
      BY <1>8 DEF Starting
    <3>2. m.s.cap \in Nat
      BY <3>1, MachineType DEF Sound
    <3> QED
      BY <3>1, <3>2, StrApiAssumption
  <2>3. PICK t : t = Content(x) /\ t = Text(m)
    BY <2>2
  <2>4. /\ Value!Result(t, d) = t /\ Value!RequestedLen(t, d) = n
        /\ n < SizeMax => Value!Faults(t, d) = {} /\ Value!MayLackMemory(t, d)
        /\ n >= SizeMax => "ERR_OVERFLOW" \in Value!Faults(t, d)
    <3>1. d.op = "reserve" /\ d.how = "renders" /\ d.k \in Nat
      BY <1>3
    <3> QED
      BY <1>3, <3>1, ReserveAsks
  <2>5. CASE n = 0 /\ q = m
    <3>1. Value!Faults(t, d) = {} /\ ~(d.op = "reserve" /\ d.k > 0)
      BY <1>3, <2>2, <2>4, <2>5
    <3>2. Honours(x, d, q)
      BY <1>9, <2>2, <2>3, <2>4, <2>5, <3>1 DEF Honours
    <3> QED
      BY <2>2, <2>5, <3>2, KeptItself, KeptAnswered
  <2>6. CASE n # 0 /\ ~(n = 0 /\ q = m)
    <3>1. /\ v.heap = m.heap /\ v.s = m.s /\ Sound(v, R)
          /\ \/ v.ret = "OK" /\ n < SizeMax
             \/ v.ret = "ERR_OVERFLOW" /\ n >= SizeMax
      BY <1>7, <2>2, CalculatedRoom
    <3>2. CASE v.ret = "ERR_OVERFLOW" /\ n >= SizeMax
      <4>1. q = v
        BY <2>1, <2>6, <3>2
      <4>2. Honours(x, d, q)
        BY <2>3, <2>4, <3>2, <4>1 DEF Honours
      <4>3. Answered(m, R, q)
        BY <3>1, <4>1 DEF Answered
      <4> QED
        BY <4>2, <4>3
    <3>3. ASSUME v.ret = "OK", n < SizeMax
          PROVE  Answered(m, R, q) /\ Honours(x, d, q)
      <4>1. q \in str_ensure_capacity(v, n + 1)
        BY <2>1, <2>6, <3>3
      <4>2. \/ q.ret = "OK" /\ Grown(v, R, q, n)
            \/ q.ret = "ERR_ALLOC" /\ n >= v.s.cap
        BY <3>1, <3>3, <4>1, EnsuredRoom
      <4>3. Answered(m, R, q)
        <5>1. n + 1 \in 1..SizeMax
          BY <2>2, <3>3
        <5>2. Kept(v, R, q)
          BY <3>1, <3>3, <4>1, <5>1, CapacityEnsured
        <5> QED
          BY <3>1, <5>2, KeptSince, KeptAnswered
      <4>4. CASE q.ret = "OK" /\ Grown(v, R, q, n)
        <5>1. Sound(q, R) /\ SameText(v, q) /\ q.s.cap > n
          BY <4>4 DEF Grown
        <5>2. Text(q) = Text(v)
          BY <3>1, <5>1, SameTextHeld DEF Sound
        <5>3. Text(v) = t
          BY <2>3, <3>1 DEF Text
        <5>4. q.s.status = "OK"
          BY <1>9, <2>2, <3>1, <5>1 DEF SameText
        <5>5. Honours(x, d, q)
          BY <1>3, <2>3, <2>4, <3>3, <4>4, <5>1, <5>2, <5>3, <5>4 DEF Honours
        <5> QED
          BY <4>3, <5>5
      <4>5. CASE q.ret = "ERR_ALLOC" /\ n >= v.s.cap
        <5>1. Value!RequestedLen(t, d) >= str[x].cap
          BY <2>2, <2>4, <3>1, <4>5
        <5>2. Honours(x, d, q)
          BY <2>3, <2>4, <3>3, <4>5, <5>1 DEF Honours
        <5> QED
          BY <4>3, <5>2
      <4> QED
        BY <4>2, <4>4, <4>5
    <3> QED
      BY <3>1, <3>2, <3>3
  <2> QED
    BY <2>1, <2>5, <2>6
<1> QED
  BY <1>1, <1>2, <1>3, <1>5, <1>6, <1>7, <1>9, RunRefines

LEMMA ShrinkToFitRefines ==
  ASSUME StrInv, NEW x \in Strings, ShrinkToFit(x)
  PROVE  Refined
<1> DEFINE m == Machine(x)
           c == Call("shrink_to_fit", x)
           S == CASE str[x].cap = 0 -> {m}
                  [] str[x].cap > 0 /\ str[x].len = 0 -> {Discarded(m)}
                  [] OTHER -> str_shrink_heap(m, str[x].len + 1)
<1>1. Run(c, Mutation(m, S))
  BY Zenon DEF ShrinkToFit
<1>2. IsCall(c, x, "shrink_to_fit") /\ "shrink_to_fit" \in Mutators
  BY DEF Call, IsCall, Mutators
<1>3. PICK d : d = call' /\ d.op = "shrink_to_fit" /\ d.how = "renders"
  <2>1. Called(c, call')
    BY <1>1, <1>2, RunCalled
  <2> QED
    BY <2>1 DEF Called, Call
<1>4. Step(x)
  BY ShrinkToFitStep
<1>5. PICK R : R = Others(x)
  OBVIOUS
<1>6. Starting(x, m, R)
  BY <1>5, StartingIs
<1>7. m = Machine(x)
  OBVIOUS
<1>8. ASSUME NEW q \in S
      PROVE  \/ q = m
             \/ m.s.len = 0 /\ q = Discarded(m)
             \/ m.s.cap > 0 /\ q \in str_shrink_heap(m, m.s.len + 1)
  <2>1. m.s = str[x] /\ Sound(m, R)
    BY <1>6 DEF Starting
  <2>2. PICK s : s = str[x] /\ s = m.s
    BY <2>1
  <2>3. q \in CASE s.cap = 0 -> {m}
                [] s.cap > 0 /\ s.len = 0 -> {Discarded(m)}
                [] OTHER -> str_shrink_heap(m, s.len + 1)
    BY Zenon, <1>8, <2>2
  <2>4. s.cap \in Nat
    BY <2>1, <2>2, MachineType DEF Sound
  <2>5. (s.cap = 0 /\ ~(s.cap > 0)) \/ (s.cap # 0 /\ s.cap > 0)
    BY <2>4
  <2> HIDE DEF m, c, S
  <2> QED
    BY <2>2, <2>3, <2>5
<1> HIDE DEF m, c, S
<1>9. ASSUME str[x].status = "OK", NEW q \in S
      PROVE  Answered(m, R, q) /\ Honours(x, d, q)
  <2>1. \/ q = m
        \/ m.s.len = 0 /\ q = Discarded(m)
        \/ m.s.cap > 0 /\ q \in str_shrink_heap(m, m.s.len + 1)
    BY <1>8
  <2>2. /\ Sound(m, R) /\ m.ret = "OK" /\ m.s = str[x] /\ Content(x) = Text(m) /\ Text(m) \in Seq(Cells)
        /\ Len(Text(m)) = m.s.len /\ m.s.len \in Nat /\ m.s.len < SizeMax
    BY <1>6 DEF Starting
  <2>3. PICK n \in Nat : n = m.s.len
    BY <2>2
  <2>4. PICK t \in Seq(Cells) : t = Text(m) /\ t = Content(x) /\ Len(t) = n
    BY <2>2, <2>3
  <2>5. Value!Result(t, d) = t /\ Asks(x, d, n, FALSE)
    <3>1. d.op \in {"append_char", "resize", "shrink_to_fit"} /\ d.op = "shrink_to_fit"
      BY <1>3
    <3>2. Value!Result(t, d) = t
      BY <3>1, PlainAsks
    <3>3. ~Value!BadArgument(t, d) /\ ~Value!BadRange(t, d)
      BY <3>1, PlainAsks
    <3>4. Value!RequestedLen(t, d) = Len(Value!Result(t, d))
      BY <3>1, PlainAsks
    <3> QED
      BY <1>3, <2>4, <3>2, <3>3, <3>4 DEF Asks
  <2>6. Answered(m, R, q) /\ Manages(m, R, q, n, FALSE, t)
    <3>1. CASE q = m
      <4>1. Wrote(m, R, m, Text(m))
        BY <2>2, WroteNothing
      <4> QED
        BY <2>2, <2>3, <2>4, <3>1, <4>1, KeptItself, KeptAnswered DEF Manages
    <3>2. CASE m.s.len = 0 /\ q = Discarded(m)
      <4>1. Sound(q, R) /\ q.ret = m.ret /\ q.s.status = "OK" /\ Text(q) = <<>>
        BY <2>2, <3>2, DiscardedText
      <4>2. Text(m) = <<>>
        BY <2>2, <3>2, NoText DEF Sound
      <4>3. Wrote(m, R, q, t)
        BY <1>9, <2>2, <2>4, <4>1, <4>2 DEF Wrote
      <4>4. Answered(m, R, q)
        BY <2>2, <4>1 DEF Answered
      <4> QED
        BY <2>2, <2>3, <4>3, <4>4 DEF Manages
    <3>3. CASE m.s.cap > 0 /\ q \in str_shrink_heap(m, m.s.len + 1)
      <4>1. PICK j : j = m.s.len + 1
        OBVIOUS
      <4>2. q \in str_shrink_heap(m, j)
        BY <3>3, <4>1
      <4>3. Answered(m, R, q)
        BY <2>2, <3>3, <4>1, <4>2, Shrunk
      <4>4. Wrote(m, R, q, Text(m)) \/ q.ret = "ERR_ALLOC"
        BY <2>2, <3>3, <4>1, <4>2, ShrinkText
      <4> QED
        BY <2>2, <2>3, <2>4, <4>3, <4>4 DEF Manages
    <3> QED
      BY <2>1, <3>1, <3>2, <3>3
  <2>7. d.op \notin InPlace
    BY <1>3 DEF InPlace
  <2>8. Honours(x, d, q)
    BY <1>7, <1>9, <2>4, <2>5, <2>6, <2>7, ManagesHonours
  <2> QED
    BY <2>6, <2>8
<1> QED
  BY <1>1, <1>2, <1>3, <1>4, <1>5, <1>7, <1>9, RunRefines

LEMMA ResizeRefines ==
  ASSUME StrInv, NEW x \in Strings, NEW n \in Nat, NEW byte \in Bytes, Resize(x, n, byte)
  PROVE  Refined
<1> DEFINE m == Machine(x)
           c == [Call("resize", x) EXCEPT !.k = n, !.fill = byte]
           S == CASE n = str[x].len -> {m}
                  [] n < str[x].len -> {str_close_gap(m, n, str[x].len - n)}
                  [] n > str[x].len -> str_grow_content(m, n, byte)
<1>1. Run(c, Mutation(m, S))
  BY Zenon DEF Resize
<1>2. IsCall(c, x, "resize") /\ "resize" \in Mutators
  BY DEF Call, IsCall, Mutators
<1>3. PICK d : d = call' /\ d.op = "resize" /\ d.k = n /\ d.fill = byte /\ d.how = "renders"
  <2>1. Called(c, call')
    BY <1>1, <1>2, RunCalled
  <2> QED
    BY <2>1 DEF Called, Call
<1>4. Step(x)
  BY ResizeStep
<1>5. PICK R : R = Others(x)
  OBVIOUS
<1>6. Starting(x, m, R)
  BY <1>5, StartingIs
<1>7. m = Machine(x)
  OBVIOUS
<1>8. ASSUME NEW q \in S
      PROVE  \/ n = m.s.len /\ q = m
             \/ n < m.s.len /\ q = str_close_gap(m, n, m.s.len - n)
             \/ n > m.s.len /\ q \in str_grow_content(m, n, byte)
  <2>1. m.s = str[x] /\ m.s.len \in Nat
    BY <1>6 DEF Starting
  <2>2. PICK len \in Nat : len = str[x].len /\ len = m.s.len
    BY <2>1
  <2>3. q \in CASE n = len -> {m}
                [] n < len -> {str_close_gap(m, n, len - n)}
                [] n > len -> str_grow_content(m, n, byte)
    BY Zenon, <1>8, <2>2
  <2>4. (n = len /\ ~(n < len) /\ ~(n > len)) \/ (n # len /\ n < len /\ ~(n > len)) \/ (n # len /\ ~(n < len) /\ n > len)
    BY <2>2
  <2> HIDE DEF m, c, S
  <2> QED
    BY <2>2, <2>3, <2>4
<1> HIDE DEF m, c, S
<1>9. ASSUME str[x].status = "OK", NEW q \in S
      PROVE  Answered(m, R, q) /\ Honours(x, d, q)
  <2>1. \/ n = m.s.len /\ q = m
        \/ n < m.s.len /\ q = str_close_gap(m, n, m.s.len - n)
        \/ n > m.s.len /\ q \in str_grow_content(m, n, byte)
    BY <1>8
  <2>2. /\ Sound(m, R) /\ m.ret = "OK" /\ m.s = str[x] /\ Content(x) = Text(m) /\ Text(m) \in Seq(Cells)
        /\ Len(Text(m)) = m.s.len /\ m.s.len \in Nat /\ m.s.len < SizeMax
    BY <1>6 DEF Starting
  <2>3. byte \in Cells
    BY DEF Cells
  <2>4. PICK t \in Seq(Cells) : t = Text(m) /\ t = Content(x) /\ Len(t) = m.s.len
    BY <2>2
  <2>5. PICK w : w = [i \in 1..n |-> IF i <= Len(t) THEN t[i] ELSE byte]
    OBVIOUS
  <2>6. /\ w \in Seq(Cells) /\ Len(w) = n
        /\ n = Len(t) => w = t
        /\ n < Len(t) => Value!Spliced(t, n, Len(t) - n, <<>>) = w
    BY <2>3, <2>5, ResizedIs
  <2>7. Value!Result(t, d) = w /\ Asks(x, d, n, FALSE)
    <3>1. d.op \in {"append_char", "resize", "shrink_to_fit"} /\ d.op = "resize"
      BY <1>3
    <3>2. Value!Result(t, d) = [i \in 1..d.k |-> IF i <= Len(t) THEN t[i] ELSE d.fill]
      BY <3>1, PlainAsks
    <3>3. Value!Result(t, d) = w
      BY ONLY <1>3, <2>5, <3>2
    <3>4. ~Value!BadArgument(t, d) /\ ~Value!BadRange(t, d)
      BY <3>1, PlainAsks
    <3>5. Value!RequestedLen(t, d) = Len(Value!Result(t, d))
      BY <3>1, PlainAsks
    <3> QED
      BY <1>3, <2>4, <2>6, <3>3, <3>4, <3>5 DEF Asks
  <2>8. Answered(m, R, q) /\ Does(m, R, q, n, FALSE, w)
    <3>1. CASE n = m.s.len /\ q = m
      <4>1. Wrote(m, R, m, Text(m))
        BY <2>2, WroteNothing
      <4>2. w = Text(m)
        BY <2>4, <2>6, <3>1
      <4> QED
        BY <2>2, <3>1, <4>1, <4>2, KeptItself, KeptAnswered DEF Does
    <3>2. CASE n < m.s.len /\ q = str_close_gap(m, n, m.s.len - n)
      <4>1. m.s.len - n \in Nat /\ n + (m.s.len - n) <= m.s.len
        BY <2>2, <3>2
      <4>2. PICK k \in Nat : k = m.s.len - n /\ n + k <= m.s.len
        BY ONLY <4>1
      <4>3. Roomy(m, R) /\ m.s.cap > 0
        <5>1. Roomy(m, R) /\ m.s.cap \in Nat
          BY <2>2, MachineType DEF Sound
        <5>2. m.s.cap # 0
          BY <2>2, <3>2, <5>1 DEF Roomy
        <5> QED
          BY <5>1, <5>2
      <4>4. q = str_close_gap(m, n, k)
        BY <3>2, <4>2
      <4>5. Answered(m, R, q)
        <5>1. Rewritten(m, R, q, m.s.len - k)
          BY <4>2, <4>3, <4>4, GapClosed
        <5> QED
          BY <2>2, <5>1, KeptItself, RewrittenKept, KeptAnswered
      <4>6. Wrote(m, R, q, Value!Spliced(Text(m), n, k, <<>>))
        BY <4>2, <4>3, <4>4, GapText
      <4>7. Value!Spliced(Text(m), n, k, <<>>) = w
        BY <2>4, <2>6, <3>2, <4>2
      <4>8. Wrote(m, R, q, w)
        BY ONLY <4>6, <4>7
      <4>9. n < SizeMax
        BY <2>2, <3>2, StrApiAssumption
      <4> QED
        BY <4>5, <4>8, <4>9 DEF Does
    <3>3. CASE n > m.s.len /\ q \in str_grow_content(m, n, byte)
      <4>1. Answered(m, R, q)
        BY <2>2, <3>3, ContentGrown, KeptAnswered
      <4>2. Does(m, R, q, n, FALSE, [i \in 1..n |-> IF i <= m.s.len THEN Text(m)[i] ELSE byte])
        <5>1. Sound(m, R) /\ m.ret = "OK" /\ m.s.len < n /\ q \in str_grow_content(m, n, byte)
          BY <2>2, <3>3
        <5> QED
          BY Zenon, <5>1, GrowText
      <4>3. w = [i \in 1..n |-> IF i <= m.s.len THEN Text(m)[i] ELSE byte]
        BY ONLY <2>4, <2>5
      <4> QED
        BY ONLY <4>1, <4>2, <4>3
    <3> QED
      BY <2>1, <3>1, <3>2, <3>3
  <2>9. Honours(x, d, q)
    BY <1>7, <1>9, <2>4, <2>7, <2>8, DoesHonours
  <2> QED
    BY <2>8, <2>9
<1> QED
  BY <1>1, <1>2, <1>3, <1>4, <1>5, <1>7, <1>9, RunRefines

\* A removal is refused for its range or leaves the rest of the text.
LEMMA RemoveAsks ==
  ASSUME NEW v \in Seq(Cells), Len(v) < SizeMax, NEW d, d.op = "remove", d.how = "renders",
         d.idx \in Nat, d.k \in Nat
  PROVE  /\ Value!BadRange(v, d) <=> d.idx + d.k > Len(v)
         /\ Value!Result(v, d) = Value!Spliced(v, d.idx, d.k, <<>>)
         /\ d.idx + d.k <= Len(v) => Value!Faults(v, d) = {}
<1>1. Value!BadRange(v, d) <=> d.idx + d.k > Len(v)
  BY DEF Value!BadRange
<1>2. Value!Result(v, d) = Value!Spliced(v, d.idx, d.k, <<>>)
  BY DEF Value!Result
<1>3. ~Value!BadArgument(v, d)
  BY DEF Value!BadArgument, Value!TakesSpan, Value!TakesCString
<1>4. Value!RequestedLen(v, d) = Len(Value!Result(v, d))
  BY DEF Value!RequestedLen
<1>5. ASSUME d.idx + d.k <= Len(v)
      PROVE  Value!Faults(v, d) = {}
  <2>1. PICK w \in Seq(Cells) : w = <<>> /\ Len(w) = 0
    BY EmptyIs
  <2>2. PICK idx \in Nat, k \in Nat : idx = d.idx /\ k = d.k /\ idx + k <= Len(v)
    BY <1>5
  <2>3. idx + k <= Len(v)
    BY <2>2
  <2>4. /\ Value!Spliced(v, idx, k, w) \in Seq(Cells)
        /\ Len(Value!Spliced(v, idx, k, w)) = (Len(v) - k) + Len(w)
        /\ \A i \in 1..((Len(v) - k) + Len(w)) :
             Value!Spliced(v, idx, k, w)[i] =
               IF i <= idx THEN v[i] ELSE IF i <= idx + Len(w) THEN w[i - idx] ELSE v[(i - Len(w)) + k]
    <3>1. SplicedAs(Cells, Value!Spliced(v, idx, k, w), v, idx, k, w)
      BY <2>3, SplicedIs
    <3> QED
      BY <3>1 DEF SplicedAs
  <2>5. Value!RequestedLen(v, d) = Len(Value!Spliced(v, idx, k, w))
    BY ONLY <1>2, <1>4, <2>1, <2>2
  <2>6. Len(v) \in Nat
    OBVIOUS
  <2>7. Value!RequestedLen(v, d) \in Nat /\ Value!RequestedLen(v, d) < SizeMax
    BY <2>1, <2>2, <2>4, <2>5, <2>6, StrApiAssumption
  <2>8. ~Value!BadRange(v, d)
    BY <1>1, <1>5, <2>6
  <2> QED
    BY <1>3, <2>7, <2>8, FaultsAre
<1> QED
  BY <1>1, <1>2, <1>5

LEMMA RemoveSpanRefines ==
  ASSUME StrInv, NEW x \in Strings, NEW idx \in Nat, NEW n \in Nat, RemoveSpan(x, idx, n)
  PROVE  Refined
<1> DEFINE m == Machine(x)
           c == [Call("remove", x) EXCEPT !.idx = idx, !.k = n]
           g == str_validate_span(m, str[x].len, idx, n)
           S == Then({g}, LAMBDA o : IF n = 0 THEN {o} ELSE {str_close_gap(o, idx, n)})
<1>1. Run(c, Mutation(m, S))
  BY Zenon DEF RemoveSpan
<1>2. IsCall(c, x, "remove") /\ "remove" \in Mutators
  BY DEF Call, IsCall, Mutators
<1>3. PICK d : d = call' /\ d.op = "remove" /\ d.idx = idx /\ d.k = n /\ d.how = "renders"
  <2>1. Called(c, call')
    BY <1>1, <1>2, RunCalled
  <2> QED
    BY <2>1 DEF Called, Call
<1>4. ASSUME NEW q \in S
      PROVE  \/ g.ret # "OK" /\ q = g
             \/ g.ret = "OK" /\ n = 0 /\ q = g
             \/ g.ret = "OK" /\ n # 0 /\ q = str_close_gap(g, idx, n)
  BY <1>4 DEF Then
<1>5. Step(x)
  BY RemoveSpanStep
<1>6. PICK R : R = Others(x)
  OBVIOUS
<1>7. Starting(x, m, R)
  BY <1>6, StartingIs
<1>8. m = Machine(x) /\ g = str_validate_span(m, str[x].len, idx, n)
  OBVIOUS
<1> HIDE DEF m, c, g, S
<1>9. ASSUME str[x].status = "OK", NEW q \in S
      PROVE  Answered(m, R, q) /\ Honours(x, d, q)
  <2>1. \/ g.ret # "OK" /\ q = g
        \/ g.ret = "OK" /\ n = 0 /\ q = g
        \/ g.ret = "OK" /\ n # 0 /\ q = str_close_gap(g, idx, n)
    BY <1>4
  <2>2. /\ Sound(m, R) /\ m.ret = "OK" /\ m.s = str[x] /\ Content(x) = Text(m) /\ Text(m) \in Seq(Cells)
        /\ Len(Text(m)) = m.s.len /\ m.s.len \in Nat /\ m.s.len < SizeMax
    BY <1>7 DEF Starting
  <2>3. PICK len \in Nat : len = m.s.len
    BY <2>2
  <2>4. PICK t \in Seq(Cells) : t = Text(m) /\ t = Content(x) /\ Len(t) = len /\ Len(t) < SizeMax
    BY <2>2, <2>3
  <2>5. /\ Value!BadRange(t, d) <=> idx + n > len
        /\ Value!Result(t, d) = Value!Spliced(t, idx, n, <<>>)
        /\ idx + n <= len => Value!Faults(t, d) = {}
    <3>1. d.op = "remove" /\ d.how = "renders" /\ d.idx \in Nat /\ d.k \in Nat
      BY <1>3
    <3>2. /\ Value!BadRange(t, d) <=> d.idx + d.k > Len(t)
          /\ Value!Result(t, d) = Value!Spliced(t, d.idx, d.k, <<>>)
          /\ d.idx + d.k <= Len(t) => Value!Faults(t, d) = {}
      BY <2>4, <3>1, RemoveAsks
    <3> QED
      BY ONLY <1>3, <2>4, <3>2
  <2>6. Ranged(m, R, g, len, idx, n)
    <3>1. g = str_validate_span(m, len, idx, n)
      BY <1>8, <2>2, <2>3
    <3> QED
      BY <2>2, <3>1, RangeChecked
  <2>7. /\ g.heap = m.heap /\ g.s = m.s /\ Sound(g, R) /\ Kept(m, R, g) /\ Text(g) = t
        /\ \/ g.ret = "OK" /\ idx + n <= len
           \/ g.ret = "ERR_RANGE" /\ idx + n > len
    BY <2>4, <2>6 DEF Ranged
  <2>8. d.op # "reserve"
    BY <1>3
  <2>9. CASE g.ret # "OK" /\ q = g
    <3>1. q.ret = "ERR_RANGE" /\ Value!BadRange(Content(x), d)
      BY <2>4, <2>5, <2>7, <2>9
    <3> QED
      BY <2>7, <2>9, <3>1, RefusalHonours, KeptAnswered
  <2>10. ASSUME q.ret = "OK", idx + n <= len, Text(q) = Value!Spliced(t, idx, n, <<>>), q.s.status = "OK"
         PROVE  Honours(x, d, q)
    BY <2>4, <2>5, <2>8, <2>10 DEF Honours
  <2>11. CASE g.ret = "OK" /\ n = 0 /\ q = g
    <3>1. idx <= Len(t) /\ idx + n <= len
      BY <2>3, <2>4, <2>7, <2>11
    <3>2. Value!Spliced(t, idx, 0, <<>>) = t
      BY <3>1, SplicedNothing
    <3>3. Text(q) = Value!Spliced(t, idx, n, <<>>)
      BY ONLY <2>7, <2>11, <3>2
    <3>4. q.s.status = "OK" /\ q.ret = "OK"
      BY <1>9, <2>2, <2>7, <2>11
    <3>5. Honours(x, d, q)
      BY <2>10, <3>1, <3>3, <3>4
    <3> QED
      BY <2>7, <2>11, <3>5, KeptAnswered
  <2>12. CASE g.ret = "OK" /\ n # 0 /\ q = str_close_gap(g, idx, n)
    <3>1. Roomy(g, R) /\ g.s.cap > 0 /\ idx + n <= g.s.len
      <4>1. Roomy(g, R) /\ g.s.cap \in Nat
        BY <2>7, MachineType DEF Sound
      <4>2. idx + n <= g.s.len /\ g.s.len # 0
        BY <2>3, <2>7, <2>12
      <4>3. g.s.cap # 0
        BY <4>1, <4>2 DEF Roomy
      <4> QED
        BY <4>1, <4>2, <4>3
    <3>2. Wrote(g, R, q, Value!Spliced(Text(g), idx, n, <<>>))
      BY <2>12, <3>1, GapText
    <3>3. Text(q) = Value!Spliced(t, idx, n, <<>>) /\ q.ret = "OK" /\ q.s.status = "OK" /\ Sound(q, R)
      BY <1>9, <2>2, <2>7, <2>12, <3>2 DEF Wrote
    <3>4. Honours(x, d, q)
      BY <2>7, <2>10, <2>12, <3>3
    <3> QED
      BY <3>3, <3>4 DEF Answered
  <2> QED
    BY <2>1, <2>9, <2>11, <2>12
<1> QED
  BY <1>1, <1>2, <1>3, <1>5, <1>6, <1>8, <1>9, RunRefines

LEMMA CopyAsks ==
  ASSUME NEW v, NEW d, d.op = "copy"
  PROVE  /\ Value!BadArgument(v, d) <=> d.y = NoString
         /\ ~Value!BadRange(v, d)
         /\ d.y \in Strings /\ d.y # NoString => Value!Result(v, d) = Content(d.y)
         /\ Value!RequestedLen(v, d) = Len(Value!Result(v, d))
<1>1. Value!BadArgument(v, d) <=> d.y = NoString
  BY DEF Value!BadArgument, Value!TakesSpan, Value!TakesCString
<1>2. ~Value!BadRange(v, d)
  BY DEF Value!BadRange
<1>3. d.y \in Strings /\ d.y # NoString => Value!Result(v, d) = Content(d.y)
  BY DEF Value!Result
<1>4. Value!RequestedLen(v, d) = Len(Value!Result(v, d))
  BY DEF Value!RequestedLen
<1> QED
  BY <1>1, <1>2, <1>3, <1>4

LEMMA CopyRefines ==
  ASSUME StrInv, NEW x \in Strings, NEW y \in Strings \cup {NoString}, Copy(x, y)
  PROVE  Refined
<1> DEFINE m == Machine(x)
           c == [Call("copy", x) EXCEPT !.y = y]
           S == CASE y = NoString -> {With(m, "ERR_ARG")}
                  [] y = x        -> {m}
                  [] OTHER        -> CopyOf(m, str[y])
<1>1. Run(c, Mutation(m, S))
  BY Zenon DEF Copy
<1>2. IsCall(c, x, "copy") /\ "copy" \in Mutators
  BY DEF Call, IsCall, Mutators
<1>3. PICK d : d = call' /\ d.op = "copy" /\ d.y = y /\ d.how = "renders"
  <2>1. Called(c, call')
    BY <1>1, <1>2, RunCalled
  <2> QED
    BY <2>1 DEF Called, Call
<1>4. Step(x)
  BY CopyStep
<1>5. PICK R : R = Others(x)
  OBVIOUS
<1>6. Starting(x, m, R)
  BY <1>5, StartingIs
<1>7. m = Machine(x)
  OBVIOUS
<1>8. ASSUME NEW q \in S
      PROVE  \/ y = NoString /\ q = With(m, "ERR_ARG")
             \/ y \in Strings /\ y = x /\ q = m
             \/ y \in Strings /\ y # x /\ q \in CopyOf(m, str[y])
  <2>1. q \in CASE y = NoString -> {With(m, "ERR_ARG")}
                [] y = x        -> {m}
                [] OTHER        -> CopyOf(m, str[y])
    BY Zenon, <1>8
  <2>2. NoString \notin Strings
    BY StrApiAssumption
  <2> HIDE DEF m, c, S
  <2> QED
    BY <2>1, <2>2
<1> HIDE DEF m, c, S
<1>9. ASSUME str[x].status = "OK", NEW q \in S
      PROVE  Answered(m, R, q) /\ Honours(x, d, q)
  <2>1. \/ y = NoString /\ q = With(m, "ERR_ARG")
        \/ y \in Strings /\ y = x /\ q = m
        \/ y \in Strings /\ y # x /\ q \in CopyOf(m, str[y])
    BY <1>8
  <2>2. /\ Sound(m, R) /\ m.ret = "OK" /\ m.s = str[x] /\ m.heap = heap /\ Content(x) = Text(m)
    BY <1>6 DEF Starting
  <2>3. CASE y = NoString /\ q = With(m, "ERR_ARG")
    <3>1. Kept(m, R, q) /\ q.ret = "ERR_ARG"
      BY <2>2, <2>3, StatusNames, Checked
    <3>2. Value!BadArgument(Content(x), d)
      BY <1>3, <2>3, CopyAsks
    <3> QED
      BY <3>1, <3>2, RefusalHonours, KeptAnswered
  <2>4. ASSUME y \in Strings, (y = x /\ q = m) \/ (y # x /\ q \in CopyOf(m, str[y]))
        PROVE  Answered(m, R, q) /\ Honours(x, d, q)
    <3>1. y # NoString
      BY <2>4, StrApiAssumption
    <3>2. PICK w : w = Content(y)
      OBVIOUS
    <3>3. /\ w \in Seq(Cells) /\ Len(w) = str[y].len /\ str[y].len \in Nat /\ str[y].len < SizeMax
          /\ w = Text(Machine(y))
      BY <2>4, <3>2, ContentIs
    <3>4. PICK n \in Nat : n = str[y].len
      BY <3>3
    <3>5. Value!Result(Content(x), d) = w /\ Asks(x, d, n, FALSE)
      <4>1. d.op = "copy" /\ d.y \in Strings /\ d.y # NoString
        BY <1>3, <2>4, <3>1
      <4>2. Value!Result(Content(x), d) = Content(d.y)
        BY <4>1, CopyAsks
      <4>3. Value!Result(Content(x), d) = w
        BY ONLY <1>3, <3>2, <4>2
      <4>4. ~Value!BadArgument(Content(x), d) /\ ~Value!BadRange(Content(x), d)
        BY <4>1, CopyAsks
      <4>5. Value!RequestedLen(Content(x), d) = Len(Value!Result(Content(x), d))
        BY <4>1, CopyAsks
      <4> QED
        BY <1>3, <3>3, <3>4, <4>3, <4>4, <4>5 DEF Asks
    <3>6. Answered(m, R, q) /\ Manages(m, R, q, n, FALSE, w)
      <4>1. CASE y = x /\ q = m
        <5>1. Wrote(m, R, m, Text(m))
          BY <2>2, WroteNothing
        <5>2. w = Text(m)
          BY <2>2, <3>2, <4>1
        <5> QED
          BY <2>2, <3>3, <3>4, <4>1, <5>1, <5>2, KeptItself, KeptAnswered DEF Manages
      <4>2. CASE y # x /\ q \in CopyOf(m, str[y])
        <5>1. PICK source \in StrState : source = str[y]
          BY <2>4, MachineSound
        <5>2. source.buf = NULL \/ source.buf \in DOMAIN m.heap
          BY <2>2, <2>4, <5>1, StrFacts
        <5>3. q \in CopyOf(m, source) /\ source.len < SizeMax
          BY <3>3, <4>2, <5>1
        <5>4. Answered(m, R, q)
          BY <2>2, <5>1, <5>3, Copied
        <5>5. \/ /\ Sound(q, R) /\ q.ret = "OK" /\ q.s.status = "OK"
                 /\ Text(q) = Load(m.heap, At(source.buf, 0), source.len)
              \/ q.ret = "ERR_ALLOC"
          BY <2>2, <5>2, <5>3, CopyText
        <5>6. w = Load(m.heap, At(source.buf, 0), source.len)
          BY <2>2, <3>2, <5>1 DEF Content
        <5>7. Wrote(m, R, q, w) \/ q.ret = "ERR_ALLOC"
          BY <1>9, <2>2, <3>3, <5>5, <5>6 DEF Wrote
        <5> QED
          BY <3>3, <3>4, <5>4, <5>7 DEF Manages
      <4> QED
        BY <2>4, <4>1, <4>2
    <3>7. d.op \notin InPlace
      BY <1>3 DEF InPlace
    <3>8. Honours(x, d, q)
      BY <1>7, <1>9, <3>5, <3>6, <3>7, ManagesHonours
    <3> QED
      BY <3>6, <3>8
  <2> QED
    BY <2>1, <2>3, <2>4
<1> QED
  BY <1>1, <1>2, <1>3, <1>4, <1>5, <1>7, <1>9, RunRefines

-----------------------------------------------------------------------------
(* The calls that are not mutators.                                         *)

LEMMA NoReservation ==
  ASSUME call'.op \notin InPlace
  PROVE  ReservationHolds
<1>1. "reserve" \in InPlace
  BY DEF InPlace
<1> QED
  BY <1>1 DEF ReservationHolds

\* A buffer that is still there holds the same content.
LEMMA ContentCarried ==
  ASSUME StrInv, IsHeap(heap'), NEW y \in Strings, NEW z \in Strings,
         str'[z].buf = str[y].buf, str'[z].len = str[y].len,
         str[y].buf # NULL => str[y].buf \in DOMAIN heap' /\ heap'[str[y].buf] = heap[str[y].buf]
  PROVE  Content(z)' = Content(y)
<1>1. str \in [Strings -> StrState] /\ IsHeap(heap) /\ SoundState(str[y], heap) /\ NULL \notin DOMAIN heap
  BY StrFacts
<1>2. str[y].buf # NULL => str[y].buf \in DOMAIN heap
  <2>1. str[y] \in StrState
    BY <1>1
  <2> QED
    BY <1>1, <2>1, OwnedBuffer
<1>3. NULL \notin DOMAIN heap'
  BY DEF IsHeap
<1>4. PICK p, n : p = At(str[y].buf, 0) /\ p.blk = str[y].buf /\ n = str[y].len
  <2>1. At(str[y].buf, 0).blk = str[y].buf
    BY DEF At
  <2> QED
    BY <2>1
<1>5. PICK g : g = heap'
  OBVIOUS
<1>6. IsHeap(g) /\ (p.blk \in DOMAIN heap <=> p.blk \in DOMAIN g) /\ (p.blk \in DOMAIN heap => g[p.blk] = heap[p.blk])
  BY <1>1, <1>2, <1>3, <1>4, <1>5
<1>7. Load(g, p, n) = Load(heap, p, n)
  BY <1>1, <1>6, LoadElsewhere
<1> QED
  BY <1>4, <1>5, <1>7 DEF Content

LEMMA ContentEmptied ==
  ASSUME IsHeap(heap'), NEW z, str'[z] = STR_EMPTY
  PROVE  Content(z)' = <<>>
<1>1. STR_EMPTY.buf = NULL /\ STR_EMPTY.len = 0
  BY EmptyState
<1>2. NULL \in Int /\ 0 \in Nat
  BY DEF NULL
<1>3. At(NULL, 0) \in Place
  BY <1>2, AtType
<1>4. PICK g : g = heap' /\ IsHeap(g)
  OBVIOUS
<1>5. Load(g, At(NULL, 0), 0) = <<>>
  BY <1>3, <1>4, NoBytes
<1> QED
  BY <1>1, <1>4, <1>5 DEF Content

\* The content of the string a call has worked on.
LEMMA RanContent ==
  ASSUME StrInv, NEW x \in Strings, NEW o, Ran(x, o)
  PROVE  str'[x] = o.s /\ Content(x)' = Text(o)
<1>1. str' = [str EXCEPT ![x] = o.s] /\ heap' = o.heap
  BY DEF Ran
<1>2. str \in [Strings -> StrState]
  BY StrFacts
<1>3. str'[x] = o.s
  BY <1>1, <1>2
<1> QED
  BY <1>1, <1>3 DEF Content, Text

LEMMA EmptyValue ==
  ASSUME NEW x \in Strings, NEW d, d = call', d.op \in {"deinit", "clear"}, d.x = x, Becomes(x, <<>>, "OK")
  PROVE  Value!Next
<1>1. Values' = [Values EXCEPT ![x] = <<>>] /\ Failures' = [Failures EXCEPT ![x] = "OK"]
  <2>1. ValuesMove(x, <<>>, "OK")
    BY ValuesAfter
  <2> QED
    BY <2>1, Zenon DEF ValuesMove
<1>2. Value!Empty(call') <=>
        /\ d.op \in {"deinit", "clear"}
        /\ Values' = [Values EXCEPT ![d.x] = <<>>] /\ Failures' = [Failures EXCEPT ![d.x] = "OK"]
  BY Zenon DEF Value!Empty, Values, Failures
<1>3. Value!Empty(call')
  BY <1>1, <1>2
<1> QED
  BY <1>3 DEF Value!Next

LEMMA ClearErrorValue ==
  ASSUME NEW x \in Strings, NEW d, d = call', d.op = "clear_error", d.x = x, Becomes(x, Content(x), "OK")
  PROVE  Value!Next
<1>1. Values' = Values /\ Failures' = [Failures EXCEPT ![x] = "OK"]
  <2>1. PICK w, r : w = Content(x) /\ r = "OK"
    OBVIOUS
  <2>2. Becomes(x, w, r)
    BY <2>1
  <2>3. /\ Values' = [Values EXCEPT ![x] = w] /\ Failures' = [Failures EXCEPT ![x] = r]
        /\ w = Content(x) => Values' = Values
        /\ r = str[x].status => Failures' = Failures
        /\ Values[x] = Content(x) /\ Failures[x] = str[x].status
    <3>1. ValuesMove(x, w, r)
      BY <2>2, ValuesAfter
    <3> QED
      BY <3>1, Zenon DEF ValuesMove
  <2> QED
    BY <2>1, <2>3
<1>2. Value!ClearError(call') <=>
        /\ d.op = "clear_error"
        /\ Failures' = [Failures EXCEPT ![d.x] = "OK"] /\ Values' = Values
  BY Zenon DEF Value!ClearError, Values, Failures
<1>3. Value!ClearError(call')
  BY <1>1, <1>2
<1> QED
  BY <1>3 DEF Value!Next

LEMMA DeinitRefines ==
  ASSUME StrInv, NEW x \in Strings, Deinit(x)
  PROVE  Refined
<1> DEFINE m == Machine(x)
           c == Call("deinit", x)
<1>1. IsCall(c, x, "deinit")
  BY DEF Call, IsCall
<1>2. Run(c, {Discarded(m)})
  BY Zenon DEF Deinit
<1>3. Called(c, call') /\ \E o \in {Discarded(m)} : Ran(x, o)
  BY <1>1, <1>2, RunCalled
<1>4. PICK d : d = call' /\ d.op = "deinit" /\ d.x = x
  BY <1>3 DEF Called, Call
<1>5. PICK o : o = Discarded(m) /\ Ran(x, o)
  BY <1>3
<1>6. PICK R : R = Others(x) /\ Sound(m, R)
  BY MachineSound
<1> HIDE DEF m, c
<1>7. o.s.status = "OK" /\ Text(o) = <<>>
  BY <1>5, <1>6, DiscardedText
<1>8. str'[x] = o.s /\ Content(x)' = Text(o)
  BY <1>5, RanContent
<1>9. \A y \in Strings \ {x} : Content(y)' = Content(y) /\ str'[y] = str[y]
  BY DeinitStep, ContentsAfter
<1>10. Becomes(x, <<>>, "OK")
  BY <1>7, <1>8, <1>9 DEF Becomes
<1>11. Value!Next
  BY <1>4, <1>10, EmptyValue
<1>12. ReservationHolds
  BY <1>4, NoReservation DEF InPlace
<1> QED
  BY <1>11, <1>12 DEF Refined

LEMMA ClearRefines ==
  ASSUME StrInv, NEW x \in Strings, Clear(x)
  PROVE  Refined
<1> DEFINE m == Machine(x)
           c == Call("clear", x)
           e == Unrecorded(m)
<1>1. IsCall(c, x, "clear")
  BY DEF Call, IsCall
<1>2. Run(c, {str_clear_content(e)})
  BY Zenon DEF Clear, Unrecorded
<1>3. Called(c, call') /\ \E o \in {str_clear_content(e)} : Ran(x, o)
  BY <1>1, <1>2, RunCalled
<1>4. PICK d : d = call' /\ d.op = "clear" /\ d.x = x
  BY <1>3 DEF Called, Call
<1>5. PICK o : o = str_clear_content(e) /\ Ran(x, o)
  BY <1>3
<1>6. PICK R : R = Others(x) /\ Sound(m, R)
  BY MachineSound
<1>7. e = Unrecorded(m) /\ m.s = str[x] /\ str[x] \in StrState
  BY MachineSound
<1> HIDE DEF m, c, e
<1>8. Sound(e, R) /\ e.s.status = "OK"
  <2>1. Sound(e, R)
    BY <1>6, <1>7, StatusCleared
  <2>2. {"heap", "s", "ret"} \subseteq DOMAIN m
    BY <1>6 DEF Sound, Roomy, IsMachine
  <2>3. e.s = [m.s EXCEPT !.status = "OK"]
    BY <1>7, <2>2 DEF Unrecorded
  <2> QED
    BY <1>7, <2>1, <2>3 DEF StrState
<1>9. o.s.status = "OK" /\ Text(o) = <<>>
  <2>1. Wrote(e, R, str_clear_content(e), <<>>)
    BY <1>8, ClearedText DEF Sound
  <2> QED
    BY <1>5, <1>8, <2>1 DEF Wrote
<1>10. str'[x] = o.s /\ Content(x)' = Text(o)
  BY <1>5, RanContent
<1>11. \A y \in Strings \ {x} : Content(y)' = Content(y) /\ str'[y] = str[y]
  BY ClearStep, ContentsAfter
<1>12. Becomes(x, <<>>, "OK")
  BY <1>9, <1>10, <1>11 DEF Becomes
<1>13. Value!Next
  BY <1>4, <1>12, EmptyValue
<1>14. ReservationHolds
  BY <1>4, NoReservation DEF InPlace
<1> QED
  BY <1>13, <1>14 DEF Refined

LEMMA ClearErrorRefines ==
  ASSUME StrInv, NEW x \in Strings, ClearError(x)
  PROVE  Refined
<1> DEFINE m == Machine(x)
           c == Call("clear_error", x)
           e == Unrecorded(m)
<1>1. IsCall(c, x, "clear_error")
  BY DEF Call, IsCall
<1>2. Run(c, {e})
  BY Zenon DEF ClearError, Unrecorded
<1>3. Called(c, call') /\ \E o \in {e} : Ran(x, o)
  BY <1>1, <1>2, RunCalled
<1>4. PICK d : d = call' /\ d.op = "clear_error" /\ d.x = x
  BY <1>3 DEF Called, Call
<1>5. Ran(x, e)
  BY <1>3
<1>6. /\ e = Unrecorded(m) /\ m.s = str[x] /\ str[x] \in StrState /\ Content(x) = Text(m)
      /\ {"heap", "s", "ret"} \subseteq DOMAIN m
  BY MachineSound, ContentIs DEF Sound, Roomy, IsMachine
<1> HIDE DEF m, c, e
<1>7. e.s.status = "OK" /\ Text(e) = Text(m)
  <2>1. e.s = [m.s EXCEPT !.status = "OK"] /\ e.heap = m.heap
    BY <1>6 DEF Unrecorded
  <2>2. e.s.status = "OK" /\ e.s.buf = m.s.buf /\ e.s.len = m.s.len
    BY <1>6, <2>1 DEF StrState
  <2> QED
    BY <2>1, <2>2 DEF Text
<1>8. str'[x] = e.s /\ Content(x)' = Text(e)
  BY <1>5, RanContent
<1>9. \A y \in Strings \ {x} : Content(y)' = Content(y) /\ str'[y] = str[y]
  BY ClearErrorStep, ContentsAfter
<1>10. Becomes(x, Content(x), "OK")
  BY <1>6, <1>7, <1>8, <1>9 DEF Becomes
<1>11. Value!Next
  BY <1>4, <1>10, ClearErrorValue
<1>12. ReservationHolds
  BY <1>4, NoReservation DEF InPlace
<1> QED
  BY <1>11, <1>12 DEF Refined

-----------------------------------------------------------------------------
(* The calls that pass a buffer on.                                         *)

ValuesSame == Values' = Values /\ Failures' = Failures

LEMMA SameValues ==
  ASSUME \A z \in Strings : Content(z)' = Content(z) /\ str'[z].status = str[z].status
  PROVE  ValuesSame
<1>1. /\ Values' = [y \in Strings |-> Content(y)'] /\ Values = [y \in Strings |-> Content(y)]
      /\ Failures' = [y \in Strings |-> str'[y].status] /\ Failures = [y \in Strings |-> str[y].status]
  BY DEF Values, Failures
<1> QED
  BY <1>1 DEF ValuesSame

LEMMA UnchangedValues ==
  ASSUME str' = str, heap' = heap
  PROVE  ValuesSame
<1>1. \A z \in Strings : Content(z)' = Content(z) /\ str'[z].status = str[z].status
  BY DEF Content
<1> QED
  BY <1>1, SameValues

\* A move does to the byte sequences what StrValue says of it.
LEMMA MoveValue ==
  ASSUME NEW x \in Strings, NEW y \in Strings \cup {NoString}, NEW d, d = call', d.op = "move",
         d.x = x, d.y = y,
         \/ y \in {NoString, x} /\ ValuesSame
         \/ /\ y \in Strings /\ y # x
            /\ \A z \in Strings \ {x, y} : Content(z)' = Content(z) /\ str'[z].status = str[z].status
            /\ Content(x)' = Content(y) /\ str'[x].status = str[y].status
            /\ Content(y)' = <<>> /\ str'[y].status = "OK"
  PROVE  Value!Next
<1>1. Value!Move(call') <=>
        /\ d.op = "move"
        /\ IF d.y \in {NoString, d.x} THEN Values' = Values /\ Failures' = Failures
           ELSE /\ Values' = [Values EXCEPT ![d.x] = Values[d.y], ![d.y] = <<>>]
                /\ Failures' = [Failures EXCEPT ![d.x] = Failures[d.y], ![d.y] = "OK"]
  BY Zenon DEF Value!Move, Values, Failures
<1>2. CASE y \in {NoString, x} /\ ValuesSame
  <2>1. Value!Move(call')
    BY <1>1, <1>2 DEF ValuesSame
  <2> QED
    BY <2>1 DEF Value!Next
<1>3. CASE /\ y \in Strings /\ y # x
           /\ \A z \in Strings \ {x, y} : Content(z)' = Content(z) /\ str'[z].status = str[z].status
           /\ Content(x)' = Content(y) /\ str'[x].status = str[y].status
           /\ Content(y)' = <<>> /\ str'[y].status = "OK"
  <2>1. /\ Values' = [z \in Strings |-> Content(z)'] /\ Values = [z \in Strings |-> Content(z)]
        /\ Failures' = [z \in Strings |-> str'[z].status] /\ Failures = [z \in Strings |-> str[z].status]
    BY DEF Values, Failures
  <2>2. Values' = [Values EXCEPT ![x] = Values[y], ![y] = <<>>]
    BY <1>3, <2>1
  <2>3. Failures' = [Failures EXCEPT ![x] = Failures[y], ![y] = "OK"]
    BY <1>3, <2>1
  <2>4. y \notin {NoString, x}
    BY <1>3, StrApiAssumption
  <2>5. Value!Move(call')
    BY <1>1, <2>2, <2>3, <2>4
  <2> QED
    BY <2>5 DEF Value!Next
<1> QED
  BY <1>2, <1>3

LEMMA MoveRefines ==
  ASSUME StrInv, NEW x \in Strings, NEW y \in Strings \cup {NoString}, Move(x, y)
  PROVE  Refined
<1>1. PICK d : d = call'
  OBVIOUS
<1>2. d.x = x /\ d.y = y /\ d.op = "move"
  <2>1. d = [Call("move", x) EXCEPT !.y = y]
    BY <1>1 DEF Move
  <2> QED
    BY <2>1 DEF Call
<1>3. CASE y \in {NoString, x}
  <2>1. str' = str /\ heap' = heap
    BY <1>3 DEF Move
  <2>2. ValuesSame
    BY <2>1, UnchangedValues
  <2> QED
    BY <1>1, <1>2, <1>3, <2>2, MoveValue, NoReservation DEF InPlace, Refined
<1>4. CASE y \notin {NoString, x}
  <2>1. PICK b : b = str[x].buf
    OBVIOUS
  <2>2. y \in Strings /\ y # x /\ x # y
    BY <1>4
  <2>3. str' = [str EXCEPT ![x] = str[y], ![y] = STR_EMPTY] /\ heap' = Discarded(Machine(x)).heap
    BY <1>4 DEF Move, str_transfer_state
  <2>4. str \in [Strings -> StrState] /\ IsHeap(heap) /\ \A z \in Strings : SoundState(str[z], heap)
    BY StrFacts
  <2>5. str'[x] = str[y] /\ str'[y] = STR_EMPTY /\ \A z \in Strings \ {x, y} : str'[z] = str[z]
    BY <2>2, <2>3, <2>4
  <2>6. /\ IsHeap(heap') /\ DOMAIN heap' = DOMAIN heap \ {b}
        /\ \A c \in DOMAIN heap \ {b} : heap'[c] = heap[c]
    <3>1. heap' = Released(heap, b)
      BY <2>1, <2>3, MachineSound, DiscardedSound
    <3>2. /\ IsHeap(Released(heap, b)) /\ DOMAIN Released(heap, b) = DOMAIN heap \ {b}
          /\ \A c \in DOMAIN heap \ {b} : Released(heap, b)[c] = heap[c]
      BY <2>4, ReleasedHeap, ZenonT(60)
    <3> QED
      BY <3>1, <3>2, Zenon
  <2>7. \A z \in Strings : z # x /\ str[z].buf # NULL =>
          str[z].buf \in DOMAIN heap' /\ heap'[str[z].buf] = heap[str[z].buf]
    <3>1. \A z \in Strings : z # x /\ str[z].buf # NULL => str[z].buf # b
      BY <2>1, StrFacts
    <3>2. \A z \in Strings : str[z].buf # NULL => str[z].buf \in DOMAIN heap
      BY <2>4, OwnedBuffer
    <3> QED
      BY <2>6, <3>1, <3>2
  <2>8. \A z \in Strings \ {x, y} : Content(z)' = Content(z) /\ str'[z].status = str[z].status
    <3>1. ASSUME NEW z \in Strings \ {x, y}
          PROVE  Content(z)' = Content(z)
      <4>1. str[z].buf # NULL => str[z].buf \in DOMAIN heap' /\ heap'[str[z].buf] = heap[str[z].buf]
        BY <2>7
      <4>2. str'[z].buf = str[z].buf /\ str'[z].len = str[z].len
        BY <2>5
      <4> QED
        BY <2>6, <4>1, <4>2, ContentCarried
    <3> QED
      BY <2>5, <3>1
  <2>9. Content(x)' = Content(y)
    <3>1. str[y].buf # NULL => str[y].buf \in DOMAIN heap' /\ heap'[str[y].buf] = heap[str[y].buf]
      BY <2>2, <2>7
    <3>2. str'[x].buf = str[y].buf /\ str'[x].len = str[y].len
      BY <2>5
    <3> QED
      BY <2>2, <2>6, <3>1, <3>2, ContentCarried
  <2>10. Content(y)' = <<>> /\ str'[y].status = "OK"
    <3>1. Content(y)' = <<>>
      BY <2>5, <2>6, ContentEmptied
    <3>2. STR_EMPTY.status = "OK"
      BY DEF STR_EMPTY
    <3> QED
      BY <2>5, <3>1, <3>2
  <2>11. Value!Next
    BY <1>1, <1>2, <2>2, <2>5, <2>8, <2>9, <2>10, MoveValue
  <2> QED
    BY <1>1, <1>2, <2>11, NoReservation DEF InPlace, Refined
<1> QED
  BY <1>3, <1>4

LEMMA FreeDetachedRefines ==
  ASSUME StrInv, NEW b \in detached, FreeDetached(b)
  PROVE  Refined
<1>1. heap' = Released(heap, b) /\ str' = str /\ call'.op = "free"
  BY DEF FreeDetached, Call
<1>2. /\ IsHeap(heap') /\ DOMAIN heap' = DOMAIN heap \ {b}
      /\ \A c \in DOMAIN heap \ {b} : heap'[c] = heap[c]
  <2>1. IsHeap(heap)
    BY StrFacts
  <2>2. /\ IsHeap(Released(heap, b)) /\ DOMAIN Released(heap, b) = DOMAIN heap \ {b}
        /\ \A c \in DOMAIN heap \ {b} : Released(heap, b)[c] = heap[c]
    BY <2>1, ReleasedHeap, ZenonT(60)
  <2> QED
    BY <1>1, <2>2, Zenon
<1>3. ASSUME NEW z \in Strings
      PROVE  Content(z)' = Content(z) /\ str'[z].status = str[z].status
  <2>1. str[z] \in StrState /\ SoundState(str[z], heap) /\ IsHeap(heap) /\ str[z].buf # b
    BY StrFacts
  <2>2. str[z].buf # NULL => str[z].buf \in DOMAIN heap
    BY <2>1, OwnedBuffer
  <2>3. str[z].buf # NULL => str[z].buf \in DOMAIN heap' /\ heap'[str[z].buf] = heap[str[z].buf]
    BY <1>2, <2>1, <2>2
  <2>4. str'[z].buf = str[z].buf /\ str'[z].len = str[z].len
    BY <1>1
  <2>5. Content(z)' = Content(z)
    BY <1>2, <2>3, <2>4, ContentCarried
  <2> QED
    BY <1>1, <2>5
<1>4. ValuesSame
  BY <1>3, SameValues
<1>5. Value!Free(call') <=> call'.op = "free" /\ Values' = Values /\ Failures' = Failures
  BY Zenon DEF Value!Free, Values, Failures
<1>6. Value!Free(call')
  BY <1>1, <1>4, <1>5 DEF ValuesSame
<1>7. Value!Next
  BY <1>6 DEF Value!Next
<1> QED
  BY <1>1, <1>7, NoReservation DEF InPlace, Refined

\* A detached content is the one the string had; a refused one was empty.
LEMMA DetachValue ==
  ASSUME NEW x \in Strings, NEW d, d = call', d.op = "detach", d.x = x, NEW w, NEW r, Becomes(x, w, r),
         \/ d.ret = "OK" /\ d.out = Content(x) /\ w = <<>> /\ r = "OK"
         \/ d.ret = "ERR_ALLOC" /\ Content(x) = <<>> /\ w = Content(x) /\ r = "ERR_ALLOC"
  PROVE  Value!Next
<1>1. /\ Values' = [Values EXCEPT ![x] = w] /\ Failures' = [Failures EXCEPT ![x] = r]
      /\ w = Content(x) => Values' = Values
      /\ r = str[x].status => Failures' = Failures
      /\ Values[x] = Content(x) /\ Failures[x] = str[x].status
  <2>1. ValuesMove(x, w, r)
    BY ValuesAfter
  <2> QED
    BY <2>1, Zenon DEF ValuesMove
<1>2. Value!Detach(call') <=>
        /\ d.op = "detach"
        /\ \/ /\ d.ret = "OK" /\ d.out = Values[d.x]
              /\ Values' = [Values EXCEPT ![d.x] = <<>>]
              /\ Failures' = [Failures EXCEPT ![d.x] = "OK"]
           \/ /\ d.ret = "ERR_ALLOC" /\ Values[d.x] = <<>>
              /\ Failures' = [Failures EXCEPT ![d.x] = "ERR_ALLOC"]
              /\ Values' = Values
  BY Zenon DEF Value!Detach, Values, Failures
<1>3. Value!Detach(call')
  BY <1>1, <1>2
<1> QED
  BY <1>3 DEF Value!Next

LEMMA DetachRefines ==
  ASSUME StrInv, NEW x \in Strings, Detach(x)
  PROVE  Refined
<1>1. /\ str \in [Strings -> StrState] /\ IsHeap(heap) /\ NULL \notin DOMAIN heap
      /\ \A z \in Strings : SoundState(str[z], heap)
  BY StrFacts
<1>2. \A z \in Strings : /\ str[z].cap = 0 <=> str[z].buf = NULL
                         /\ str[z].buf # NULL => str[z].buf \in DOMAIN heap
  BY <1>1, OwnedBuffer
<1>3. PICK d : d = call'
  OBVIOUS
<1>4. STR_EMPTY.status = "OK"
  BY DEF STR_EMPTY
\* The others keep their content when the heap keeps its blocks.
<1>5. ASSUME IsHeap(heap'), \A c \in DOMAIN heap : c \in DOMAIN heap' /\ heap'[c] = heap[c],
             NEW z \in Strings, str'[z].buf = str[z].buf, str'[z].len = str[z].len
      PROVE  Content(z)' = Content(z)
  <2>1. str[z].buf # NULL => str[z].buf \in DOMAIN heap' /\ heap'[str[z].buf] = heap[str[z].buf]
    BY <1>2, <1>5
  <2> QED
    BY <1>5, <2>1, ContentCarried
\* x gives its content away, and the heap keeps the blocks it has.
<1>6. ASSUME str' = [str EXCEPT ![x] = STR_EMPTY], IsHeap(heap'),
             \A c \in DOMAIN heap : c \in DOMAIN heap' /\ heap'[c] = heap[c],
             d.op = "detach", d.x = x, d.ret = "OK", d.out = Content(x)
      PROVE  Refined
  <2>1. str'[x] = STR_EMPTY /\ \A z \in Strings \ {x} : str'[z] = str[z]
    BY <1>1, <1>6
  <2>2. \A z \in Strings \ {x} : Content(z)' = Content(z) /\ str'[z] = str[z]
    BY <1>5, <1>6, <2>1
  <2>3. Content(x)' = <<>>
    BY <1>6, <2>1, ContentEmptied
  <2>4. Becomes(x, <<>>, "OK")
    BY <1>4, <2>1, <2>2, <2>3 DEF Becomes
  <2>5. PICK w, r : w = <<>> /\ r = "OK" /\ Becomes(x, w, r)
    BY <2>4
  <2>6. Value!Next
    BY <1>3, <1>6, <2>5, DetachValue
  <2> QED
    BY <1>3, <1>6, <2>6, NoReservation DEF InPlace, Refined
<1>7. CASE str_take_owned_buffer(x)
  <2>1. /\ str' = [str EXCEPT ![x] = STR_EMPTY] /\ heap' = heap
        /\ d = [Call("detach", x) EXCEPT !.out = Load(heap, At(str[x].buf, 0), str[x].len)]
    BY <1>3, <1>7 DEF str_take_owned_buffer
  <2>2. PICK out : out = Content(x) /\ d = [Call("detach", x) EXCEPT !.out = out]
    BY <2>1 DEF Content
  <2>3. d.op = "detach" /\ d.x = x /\ d.ret = "OK" /\ d.out = Content(x)
    BY <2>2 DEF Call
  <2>4. IsHeap(heap') /\ \A c \in DOMAIN heap : c \in DOMAIN heap' /\ heap'[c] = heap[c]
    BY <1>1, <2>1
  <2> QED
    BY <1>6, <2>1, <2>3, <2>4
<1>8. CASE str_allocate_empty_buffer(x)
  <2>1. str[x].cap = 0
    <3>1. ~(str[x].cap > 0)
      BY <1>8 DEF str_allocate_empty_buffer, str_is_owned
    <3> QED
      BY <1>1, <3>1, StateType
  <2>2. Content(x) = <<>>
    <3>1. str[x].len = 0
      BY <1>1, <2>1 DEF SoundState
    <3>2. Content(x) \in Seq(Cells) /\ Len(Content(x)) = 0
      BY <3>1, ContentIs
    <3> QED
      BY <3>2
  <2>3. \/ /\ str' = [str EXCEPT ![x] = STR_EMPTY] /\ heap' = Placed(heap, FreshBlock(heap), <<Nul>>)
           /\ d = Call("detach", x)
        \/ /\ str' = [str EXCEPT ![x].status = "ERR_ALLOC"] /\ heap' = heap
           /\ d = [Call("detach", x) EXCEPT !.ret = "ERR_ALLOC"]
    BY <1>3, <1>8, Zenon DEF str_allocate_empty_buffer
  <2>4. CASE /\ str' = [str EXCEPT ![x] = STR_EMPTY] /\ heap' = Placed(heap, FreshBlock(heap), <<Nul>>)
             /\ d = Call("detach", x)
    <3>1. PICK b \in Nat \ {NULL} : b = FreshBlock(heap) /\ b \notin DOMAIN heap
      BY <1>1, FreshIsFree
    <3>2. PICK w \in Seq(Cells) : w = <<Nul>>
      <4>1. Nul \in Cells
        BY StrApiAssumption DEF Cells
      <4>2. <<Nul>> \in Seq(Cells)
        BY <4>1
      <4> QED
        BY <4>2, Zenon
    <3>3. /\ IsHeap(Placed(heap, b, w)) /\ DOMAIN Placed(heap, b, w) = DOMAIN heap \cup {b}
          /\ \A c \in DOMAIN heap \ {b} : Placed(heap, b, w)[c] = heap[c]
      BY <1>1, PlacedHeap, ZenonT(60)
    <3>4. heap' = Placed(heap, b, w)
      BY <2>4, <3>1, <3>2
    <3>5. /\ IsHeap(heap') /\ DOMAIN heap' = DOMAIN heap \cup {b}
          /\ \A c \in DOMAIN heap \ {b} : heap'[c] = heap[c]
      BY <3>3, <3>4, Zenon
    <3>6. \A c \in DOMAIN heap : c \in DOMAIN heap' /\ heap'[c] = heap[c]
      BY <3>1, <3>5
    <3>7. d.op = "detach" /\ d.x = x /\ d.ret = "OK" /\ d.out = <<>>
      BY <2>4 DEF Call
    <3> QED
      BY <1>6, <2>2, <2>4, <3>5, <3>6, <3>7
  <2>5. CASE /\ str' = [str EXCEPT ![x].status = "ERR_ALLOC"] /\ heap' = heap
             /\ d = [Call("detach", x) EXCEPT !.ret = "ERR_ALLOC"]
    <3>1. PICK s : s = [str[x] EXCEPT !.status = "ERR_ALLOC"]
      OBVIOUS
    <3>2. s.buf = str[x].buf /\ s.len = str[x].len /\ s.status = "ERR_ALLOC"
      BY <1>1, <3>1 DEF StrState
    <3>3. str'[x] = s /\ \A z \in Strings \ {x} : str'[z] = str[z]
      BY <1>1, <2>5, <3>1
    <3>4. IsHeap(heap') /\ \A c \in DOMAIN heap : c \in DOMAIN heap' /\ heap'[c] = heap[c]
      BY <1>1, <2>5
    <3>5. \A z \in Strings \ {x} : Content(z)' = Content(z) /\ str'[z] = str[z]
      BY <1>5, <3>3, <3>4
    <3>6. Content(x)' = Content(x)
      BY <1>5, <3>2, <3>3, <3>4
    <3>7. PICK w, r : w = Content(x) /\ r = "ERR_ALLOC"
      OBVIOUS
    <3>8. Becomes(x, w, r)
      BY <3>2, <3>3, <3>5, <3>6, <3>7 DEF Becomes
    <3>9. d.op = "detach" /\ d.x = x /\ d.ret = "ERR_ALLOC"
      BY <2>5 DEF Call
    <3>10. Value!Next
      BY <1>3, <2>2, <3>7, <3>8, <3>9, DetachValue
    <3> QED
      BY <1>3, <3>9, <3>10, NoReservation DEF InPlace, Refined
  <2> QED
    BY <2>3, <2>4, <2>5
<1> QED
  BY <1>7, <1>8 DEF Detach

-----------------------------------------------------------------------------
(* The theorems.                                                            *)

LEMMA NextRefines ==
  ASSUME StrInv, Next
  PROVE  Refined
<1>1. ASSUME NEW b \in detached, FreeDetached(b)
      PROVE  Refined
  BY <1>1, FreeDetachedRefines
<1>2. ASSUME NEW x \in Strings,
             \/ Deinit(x) \/ Clear(x) \/ ClearError(x) \/ Detach(x) \/ ShrinkToFit(x)
             \/ \E y \in Strings \cup {NoString} : Move(x, y) \/ Copy(x, y)
      PROVE  Refined
  BY <1>2, DeinitRefines, ClearRefines, ClearErrorRefines, DetachRefines, ShrinkToFitRefines,
     MoveRefines, CopyRefines
<1>3. ASSUME NEW x \in Strings,
             \/ \E span \in CStrings(x) : Set(x, span) \/ AppendCString(x, span)
             \/ \E span \in Spans(x) : SetN(x, span) \/ AppendN(x, span)
             \/ \E byte \in Bytes : AppendChar(x, byte)
             \/ \E format \in CStrings(x), text \in CallerSpans, how \in {"renders", "fails", "changes"} :
                  AppendFmt(x, format, text, how)
      PROVE  Refined
  BY <1>3, SetRefines, AppendCStringRefines, SetNRefines, AppendNRefines, AppendCharRefines,
     AppendFmtRefines
<1>4. ASSUME NEW x \in Strings,
             \/ \E n \in 0..SizeMax : Reserve(x, n) \/ \E byte \in Bytes : Resize(x, n, byte)
             \/ \E idx \in Places(x), span \in Spans(x) : InsertN(x, idx, span)
             \/ \E idx, n \in Places(x) : RemoveSpan(x, idx, n)
             \/ \E idx, k \in Places(x), span \in Spans(x) : ReplaceView(x, idx, k, span)
      PROVE  Refined
  <2>1. Places(x) \subseteq Nat /\ 0..SizeMax \subseteq Nat
    BY MachineSound, StateType DEF Places
  <2>2. ASSUME NEW n \in 0..SizeMax, Reserve(x, n) \/ \E byte \in Bytes : Resize(x, n, byte)
        PROVE  Refined
    BY <2>1, <2>2, ReserveRefines, ResizeRefines
  <2>3. ASSUME NEW idx \in Places(x), NEW span \in Spans(x), InsertN(x, idx, span)
        PROVE  Refined
    BY <2>1, <2>3, InsertNRefines
  <2>4. ASSUME NEW idx \in Places(x), NEW n \in Places(x), RemoveSpan(x, idx, n)
        PROVE  Refined
    BY <2>1, <2>4, RemoveSpanRefines
  <2>5. ASSUME NEW idx \in Places(x), NEW k \in Places(x), NEW span \in Spans(x), ReplaceView(x, idx, k, span)
        PROVE  Refined
    BY <2>1, <2>5, ReplaceViewRefines
  <2> QED
    BY <1>4, <2>2, <2>3, <2>4, <2>5
<1> QED
  BY <1>1, <1>2, <1>3, <1>4, Zenon DEF Next

\* str_reserve keeps its promise: the room it reserved is there when it returns,
\* and no call whose content fits the capacity fails for memory, whichever way
\* the content is assembled.
THEOREM ReservationsHold == Spec => ReservedNeverFails
<1>1. StrInv /\ [Next]_vars => [ReservationHolds]_vars
  BY NextRefines DEF Refined
<1>2. [ReservationHolds]_vars =>
        [LET c == call'
         IN /\ c.op \in InPlace /\ c.ret = "ERR_ALLOC" /\ str[c.x].status = "OK" =>
                 Value!RequestedLen(Content(c.x), c) >= str[c.x].cap
            /\ c.op = "reserve" /\ c.ret = "OK" /\ c.k > 0 => str'[c.x].cap > c.k]_vars
  BY Zenon DEF ReservationHolds
<1> QED
  BY StrInvariant, <1>1, <1>2, PTL DEF Spec, ReservedNeverFails

LEMMA InitValue == Init => Value!Init
<1> SUFFICES ASSUME Init PROVE Value!Init
  OBVIOUS
<1>1. /\ str = [x \in Strings |-> STR_EMPTY] /\ call = Call("init", NoString) /\ StrInv
  BY InitStr DEF Init
<1>2. \A x \in Strings : Content(x) = <<>>
  <2>1. ASSUME NEW x \in Strings
        PROVE  Content(x) = <<>>
    <3>1. str[x].len = 0
      BY <1>1, EmptyState
    <3>2. Content(x) \in Seq(Cells) /\ Len(Content(x)) = 0
      BY <1>1, <3>1, ContentIs
    <3> QED
      BY <3>2
  <2> QED
    BY <2>1
<1>3. \A x \in Strings : str[x].status = "OK"
  BY <1>1 DEF STR_EMPTY
<1>4. [x \in Strings |-> Content(x)] = [x \in Strings |-> <<>>]
  BY <1>2
<1>5. [x \in Strings |-> str[x].status] = [x \in Strings |-> "OK"]
  BY <1>3
<1>6. call = Value!Call("init", NoString)
  BY <1>1 DEF Call, NullSpan, Value!Call, Value!NullSpan
<1> QED
  BY <1>4, <1>5, <1>6, Zenon DEF Value!Init

\* agenc-str is the byte sequence str.h promises, for every number of strings,
\* every span and every answer of the allocator: each call leaves the content
\* its name says, as if the bytes it was given had been copied first, or leaves
\* all as it was and records a failure it had a reason for.
THEOREM StringsAreValues == Spec => ImplementsStrValue
<1>1. StrInv /\ [Next]_vars => [Value!Next]_Value!vars
  <2>1. ASSUME UNCHANGED vars
        PROVE  Value!vars' = Value!vars
    <3>1. str' = str /\ heap' = heap /\ call' = call
      BY <2>1 DEF vars
    <3>2. Values' = Values /\ Failures' = Failures
      BY <3>1, UnchangedValues DEF ValuesSame
    <3> QED
      BY <3>1, <3>2 DEF Value!vars, Values, Failures
  <2>2. ASSUME StrInv, Next
        PROVE  Value!Next
    BY <2>2, NextRefines DEF Refined
  <2> QED
    BY <2>1, <2>2
<1> QED
  BY InitValue, StrInvariant, <1>1, PTL
     DEF Spec, ImplementsStrValue, Value!Spec

=============================================================================
