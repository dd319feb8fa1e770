----------------------------- MODULE StrProofs -----------------------------
(***************************************************************************)
(* Proof that str_t keeps its buffer: type correctness, BufferSound and     *)
(* OneOwner of StrBuffer, that a failed call changes nothing, and that no   *)
(* call but a few lowers a capacity.                                        *)
(*                                                                         *)
(* A call works on the one string it is made on, so the proof follows the   *)
(* helpers one by one: each leaves the blocks that are not the string's own *)
(* as they were (Others), and the string with a buffer of its own that is   *)
(* as large as recorded, with room for the content and a NUL behind it.     *)
(***************************************************************************)
EXTENDS StrBuffer, FiniteSetTheorems, WellFoundedInduction, TLAPS

-----------------------------------------------------------------------------
(* Numbers                                                                  *)

LEMMA LeastNumber ==
  ASSUME NEW T, T \subseteq Nat, T # {}
  PROVE  \E x \in T : \A y \in T : x <= y
<1> DEFINE R == {ss \in Nat \X Nat : ss[1] < ss[2]}
<1>1. IsWellFoundedOn(R, Nat)
  BY NatLessThanWellFounded DEF OpToRel
<1> HIDE DEF R
<1>2. PICK x \in T : \A y \in T : ~(<<y, x>> \in R)
  BY <1>1, WFMin
<1>3. \A y \in T : ~(y < x)
  BY <1>2 DEF R
<1> QED
  BY <1>3

LEMMA MinIs ==
  ASSUME NEW T, T \subseteq Nat, T # {}
  PROVE  Min(T) \in T /\ \A y \in T : Min(T) <= y
<1>1. \E x \in T : \A y \in T : x <= y
  BY LeastNumber
<1> QED
  BY <1>1 DEF Min

LEMMA MaxOfTwo ==
  ASSUME NEW m \in Nat, NEW n \in Nat
  PROVE  /\ Max({m, n}) \in {m, n} /\ Max({m, n}) >= m /\ Max({m, n}) >= n
<1>1. \E x \in {m, n} : \A y \in {m, n} : x >= y
  <2>1. CASE m >= n
    BY <2>1
  <2>2. CASE n >= m
    BY <2>2
  <2> QED
    BY <2>1, <2>2
<1> QED
  BY <1>1 DEF Max

LEMMA ChosenCapacity ==
  ASSUME NEW cap, NEW need \in 1..SizeMax
  PROVE  /\ str_choose_capacity(cap, need) \in 1..SizeMax
         /\ str_choose_capacity(cap, need) >= need
<1> DEFINE doublings == {c \in 1..SizeMax : \E k \in 0..SizeMax : c = Max({cap, MinCap}) * 2^k}
           enough    == {c \in doublings : c >= need}
<1>1. enough \subseteq {c \in 1..SizeMax : c >= need}
  BY Zenon
<1> HIDE DEF enough
<1>2. CASE enough = {}
  <2>1. str_choose_capacity(cap, need) = need
    BY <1>2, Zenon DEF str_choose_capacity, enough
  <2> QED
    BY <2>1
<1>3. CASE enough # {}
  <2>1. enough \subseteq Nat
    BY <1>1
  <2>2. Min(enough) \in enough
    BY <1>3, <2>1, MinIs
  <2>3. str_choose_capacity(cap, need) = Min(enough)
    BY <1>3, Zenon DEF str_choose_capacity, enough
  <2> QED
    BY <1>1, <2>2, <2>3
<1> QED
  BY <1>2, <1>3

-----------------------------------------------------------------------------
(* The heap                                                                 *)

Cells == Bytes \cup {Junk}
Size  == 0..SizeMax
StrState == [buf : Nat, len : Size, cap : Size, status : Statuses]

IsHeap(h) ==
  /\ h = [b \in DOMAIN h |-> h[b]]
  /\ IsFiniteSet(DOMAIN h) /\ DOMAIN h \subseteq Nat \ {NULL}
  /\ \A b \in DOMAIN h : h[b] \in Seq(Cells)

\* malloc finds an address that is not in use.
LEMMA FreshIsFree ==
  ASSUME NEW h, IsHeap(h)
  PROVE  FreshBlock(h) \in Nat \ {NULL} /\ FreshBlock(h) \notin DOMAIN h
<1>1. PICK n : n = Cardinality(DOMAIN h)
  OBVIOUS
<1>2. n \in Nat /\ IsFiniteSet(DOMAIN h)
  BY <1>1, FS_CardinalityType DEF IsHeap
<1>3. IsFiniteSet(1..(n + 1)) /\ Cardinality(1..(n + 1)) = n + 1
  <2>1. 1 \in Int /\ n + 1 \in Int /\ 1 <= n + 1
    BY <1>2
  <2> QED
    BY <2>1, FS_Interval
<1>4. (1..(n + 1)) \ DOMAIN h # {}
  <2>1. ASSUME 1..(n + 1) \subseteq DOMAIN h
        PROVE  FALSE
    <3>1. Cardinality(1..(n + 1)) <= n
      BY <1>1, <1>2, <2>1, FS_Subset
    <3> QED
      BY <1>2, <1>3, <3>1
  <2> QED
    BY <2>1
<1>5. (1..(n + 1)) \ DOMAIN h \subseteq Nat \ {NULL}
  BY <1>2 DEF NULL
<1>6. Min((1..(n + 1)) \ DOMAIN h) \in (1..(n + 1)) \ DOMAIN h
  BY <1>4, <1>5, MinIs
<1>7. FreshBlock(h) = Min((1..(n + 1)) \ DOMAIN h)
  BY <1>1, Zenon DEF FreshBlock
<1> QED
  BY <1>5, <1>6, <1>7

LEMMA PlacedHeap ==
  ASSUME NEW h, IsHeap(h), NEW b \in Nat \ {NULL}, NEW bytes \in Seq(Cells)
  PROVE  /\ IsHeap(Placed(h, b, bytes)) /\ DOMAIN Placed(h, b, bytes) = DOMAIN h \cup {b}
         /\ Placed(h, b, bytes)[b] = bytes
         /\ \A c \in DOMAIN h \ {b} : Placed(h, b, bytes)[c] = h[c]
<1>1. PICK g : g = Placed(h, b, bytes)
  OBVIOUS
<1>2. g = [c \in DOMAIN h \cup {b} |-> IF c = b THEN bytes ELSE h[c]]
  BY <1>1, Zenon DEF Placed
<1>3. /\ DOMAIN g = DOMAIN h \cup {b} /\ g[b] = bytes
      /\ \A c \in DOMAIN h \ {b} : g[c] = h[c]
      /\ g = [c \in DOMAIN g |-> g[c]]
  BY <1>2
<1>4. IsFiniteSet(DOMAIN h \cup {b})
  BY FS_AddElement DEF IsHeap
<1> QED
  BY <1>1, <1>3, <1>4 DEF IsHeap

LEMMA ReleasedHeap ==
  ASSUME NEW h, IsHeap(h), NEW b
  PROVE  /\ IsHeap(Released(h, b)) /\ DOMAIN Released(h, b) = DOMAIN h \ {b}
         /\ \A c \in DOMAIN h \ {b} : Released(h, b)[c] = h[c]
         /\ b \notin DOMAIN h => Released(h, b) = h
<1>1. PICK g : g = Released(h, b)
  OBVIOUS
<1>2. g = [c \in DOMAIN h \ {b} |-> h[c]]
  BY <1>1, Zenon DEF Released
<1>3. /\ DOMAIN g = DOMAIN h \ {b} /\ \A c \in DOMAIN h \ {b} : g[c] = h[c]
      /\ g = [c \in DOMAIN g |-> g[c]]
  BY <1>2
<1>4. IsFiniteSet(DOMAIN h \ {b})
  BY FS_Subset DEF IsHeap
<1>5. b \notin DOMAIN h => g = h
  <2>1. h = [c \in DOMAIN h |-> h[c]]
    BY Zenon DEF IsHeap
  <2>2. b \notin DOMAIN h => DOMAIN h \ {b} = DOMAIN h
    OBVIOUS
  <2> QED
    BY <1>2, <2>1, <2>2, Zenon
<1> QED
  BY <1>1, <1>3, <1>4, <1>5 DEF IsHeap

\* What was put in a block of its own can be taken away again.
LEMMA PlacedReleased ==
  ASSUME NEW h, IsHeap(h), NEW b \in Nat \ {NULL}, b \notin DOMAIN h, NEW bytes \in Seq(Cells)
  PROVE  Released(Placed(h, b, bytes), b) = h
<1>1. PICK g : g = Placed(h, b, bytes)
  OBVIOUS
<1>2. DOMAIN g = DOMAIN h \cup {b} /\ \A c \in DOMAIN h \ {b} : g[c] = h[c]
  <2>1. g = [c \in DOMAIN h \cup {b} |-> IF c = b THEN bytes ELSE h[c]]
    BY <1>1, Zenon DEF Placed
  <2> QED
    BY <2>1
<1>3. DOMAIN g \ {b} = DOMAIN h /\ \A c \in DOMAIN h : g[c] = h[c]
  BY <1>2
<1>4. Released(g, b) = [c \in DOMAIN g \ {b} |-> g[c]]
  BY Zenon DEF Released
<1>5. h = [c \in DOMAIN h |-> h[c]]
  BY Zenon DEF IsHeap
<1>6. Released(g, b) = [c \in DOMAIN h |-> h[c]]
  BY <1>3, <1>4
<1> QED
  BY <1>1, <1>5, <1>6

-----------------------------------------------------------------------------
(* Memory                                                                   *)

Place == [blk : Int, off : Nat, bytes : Seq(Bytes)]

LEMMA AtType ==
  ASSUME NEW b \in Int, NEW off \in Nat
  PROVE  At(b, off) \in Place
<1>1. <<>> \in Seq(Bytes)
  OBVIOUS
<1> QED
  BY <1>1 DEF At, Place

LEMMA LoadType ==
  ASSUME NEW h, IsHeap(h), NEW p \in Place, NEW n \in Nat
  PROVE  Load(h, p, n) \in Seq(Cells) /\ Len(Load(h, p, n)) = n
<1>1. p.off \in Nat /\ p.bytes \in Seq(Cells) /\ <<>> \in Seq(Cells)
  BY DEF Place, Cells
<1>2. PICK bytes \in Seq(Cells) :
        Load(h, p, n) = [i \in 1..n |-> IF p.off + i <= Len(bytes) THEN bytes[p.off + i] ELSE Junk]
  <2>1. CASE p.blk = CALLER
    <3>1. p.blk \notin DOMAIN h
      BY <2>1 DEF IsHeap, CALLER
    <3> QED
      BY <1>1, <2>1, <3>1 DEF Load
  <2>2. CASE p.blk # CALLER /\ p.blk \in DOMAIN h
    <3>1. h[p.blk] \in Seq(Cells)
      BY <2>2 DEF IsHeap
    <3> QED
      BY <2>2, <3>1 DEF Load
  <2>3. CASE p.blk # CALLER /\ p.blk \notin DOMAIN h
    BY <1>1, <2>3 DEF Load
  <2> QED
    BY <2>1, <2>2, <2>3
<1>3. \A i \in 1..n : (IF p.off + i <= Len(bytes) THEN bytes[p.off + i] ELSE Junk) \in Cells
  BY <1>1 DEF Cells
<1> QED
  BY <1>2, <1>3

-----------------------------------------------------------------------------
(* A machine whose string has a buffer of its own; R is the heap without it. *)

IsMachine(m) ==
  /\ {"heap", "s", "ret"} \subseteq DOMAIN m
  /\ IsHeap(m.heap) /\ m.s \in StrState /\ m.ret \in Statuses

Roomy(m, R) ==
  /\ IsMachine(m)
  /\ \A b \in DOMAIN R : b \in DOMAIN m.heap /\ m.heap[b] = R[b]
  /\ m.s.buf \notin DOMAIN R
  /\ IF m.s.cap = 0
     THEN m.s.buf = NULL /\ m.s.len = 0 /\ DOMAIN m.heap = DOMAIN R
     ELSE /\ DOMAIN m.heap = DOMAIN R \cup {m.s.buf}
          /\ Len(m.heap[m.s.buf]) = m.s.cap /\ m.s.len < m.s.cap

Terminated(m) == m.s.cap > 0 => m.heap[m.s.buf][m.s.len + 1] = Nul

Sound(m, R) == Roomy(m, R) /\ Terminated(m)

LEMMA StateType ==
  ASSUME NEW s \in StrState
  PROVE  /\ s.buf \in Nat /\ s.len \in Nat /\ s.cap \in Nat /\ s.len <= SizeMax
         /\ s.cap <= SizeMax /\ s.status \in Statuses /\ SizeMax \in Nat \ {0}
BY StrApiAssumption DEF StrState, Size

\* A write inside the buffer changes the bytes it covers and nothing else.
LEMMA StoreInside ==
  ASSUME NEW m, NEW R, Roomy(m, R), m.s.cap > 0,
         NEW off \in Nat, NEW w \in Seq(Cells), off + Len(w) <= m.s.cap
  PROVE  /\ Roomy(Store(m, off, w), R)
         /\ Store(m, off, w).s = m.s /\ Store(m, off, w).ret = m.ret
         /\ \A i \in 1..m.s.cap :
              Store(m, off, w).heap[m.s.buf][i] =
                IF i > off /\ i <= off + Len(w) THEN w[i - off] ELSE m.heap[m.s.buf][i]
<1>1. PICK h, s : h = m.heap /\ s = m.s
  OBVIOUS
<1>2. /\ IsHeap(h) /\ s \in StrState /\ m.ret \in Statuses /\ {"heap", "s", "ret"} \subseteq DOMAIN m
      /\ s.buf \in DOMAIN h /\ Len(h[s.buf]) = s.cap /\ s.cap \in Nat \ {0}
  BY <1>1, StateType DEF Roomy, IsMachine
<1>3. h[s.buf] \in Seq(Cells)
  BY <1>2 DEF IsHeap
<1>4. CASE w = <<>>
  <2>1. Store(m, off, w) = m
    BY <1>4, Zenon DEF Store
  <2>2. Len(w) = 0
    BY <1>4
  <2>3. \A i \in 1..m.s.cap : ~(i > off /\ i <= off + Len(w))
    BY <1>1, <1>2, <2>2
  <2> QED
    BY <2>1, <2>3
<1>5. CASE w # <<>>
  <2>1. Max({Len(h[s.buf]), off + Len(w)}) = s.cap
    <3>1. PICK k \in Nat : k = off + Len(w)
      OBVIOUS
    <3>2. Max({s.cap, k}) \in {s.cap, k} /\ Max({s.cap, k}) >= s.cap
      BY <1>2, MaxOfTwo
    <3> QED
      BY <1>1, <1>2, <3>1, <3>2
  <2>2. PICK bytes : bytes = [i \in 1..s.cap |->
                       IF i > off /\ i <= off + Len(w) THEN w[i - off]
                       ELSE IF i <= Len(h[s.buf]) THEN h[s.buf][i] ELSE Junk]
    OBVIOUS
  <2>3. bytes \in Seq(Cells) /\ Len(bytes) = s.cap
    <3>1. \A i \in 1..s.cap :
            (IF i > off /\ i <= off + Len(w) THEN w[i - off]
             ELSE IF i <= Len(h[s.buf]) THEN h[s.buf][i] ELSE Junk) \in Cells
      BY <1>2, <1>3 DEF Cells
    <3>2. bytes \in [1..s.cap -> Cells] /\ s.cap \in Nat
      BY <1>2, <2>2, <3>1, Zenon
    <3> QED
      BY <3>2
  <2>4. Store(m, off, w) = [m EXCEPT !.heap[m.s.buf] = bytes]
    BY <1>1, <1>5, <2>1, <2>2, Zenon DEF Store
  <2>5. PICK g, o : g = [h EXCEPT ![s.buf] = bytes] /\ o = Store(m, off, w)
    OBVIOUS
  <2>6. o.heap = g /\ o.s = s /\ o.ret = m.ret /\ DOMAIN o = DOMAIN m
    BY <1>1, <1>2, <2>4, <2>5
  <2>7. /\ DOMAIN g = DOMAIN h /\ g[s.buf] = bytes /\ \A b \in DOMAIN h \ {s.buf} : g[b] = h[b]
        /\ g = [b \in DOMAIN g |-> g[b]]
    BY <1>2, <2>5
  <2>8. IsHeap(g)
    BY <1>2, <2>3, <2>7 DEF IsHeap
  <2>9. IsMachine(o)
    BY <1>1, <1>2, <2>6, <2>8 DEF IsMachine
  <2>10. Roomy(o, R)
    BY <1>1, <1>2, <2>3, <2>6, <2>7, <2>9 DEF Roomy
  <2>11. \A i \in 1..s.cap : bytes[i] = IF i > off /\ i <= off + Len(w) THEN w[i - off] ELSE h[s.buf][i]
    BY <1>2, <2>2
  <2> QED
    BY <1>1, <2>5, <2>6, <2>7, <2>10, <2>11
<1> QED
  BY <1>4, <1>5

LEMMA MovedInside ==
  ASSUME NEW m, NEW R, Roomy(m, R), m.s.cap > 0,
         NEW off \in Nat, NEW p \in Place, NEW n \in Nat, off + n <= m.s.cap
  PROVE  /\ Roomy(str_move_bytes(m, off, p, n), R)
         /\ str_move_bytes(m, off, p, n).s = m.s /\ str_move_bytes(m, off, p, n).ret = m.ret
         /\ \A i \in 1..m.s.cap : i <= off \/ i > off + n =>
              str_move_bytes(m, off, p, n).heap[m.s.buf][i] = m.heap[m.s.buf][i]
<1>1. PICK w : w = Load(m.heap, p, n)
  OBVIOUS
<1>2. w \in Seq(Cells) /\ Len(w) = n
  BY <1>1, LoadType DEF Roomy, IsMachine
<1>3. str_move_bytes(m, off, p, n) = Store(m, off, w)
  BY <1>1, Zenon DEF str_move_bytes
<1>4. /\ Roomy(Store(m, off, w), R)
      /\ Store(m, off, w).s = m.s /\ Store(m, off, w).ret = m.ret
      /\ \A i \in 1..m.s.cap :
           Store(m, off, w).heap[m.s.buf][i] =
             IF i > off /\ i <= off + Len(w) THEN w[i - off] ELSE m.heap[m.s.buf][i]
  BY <1>2, StoreInside
<1>5. m.s.cap \in Nat
  BY StateType DEF Roomy, IsMachine
<1>6. \A i \in 1..m.s.cap : i <= off \/ i > off + n => ~(i > off /\ i <= off + Len(w))
  BY <1>2, <1>5
<1> QED
  BY <1>3, <1>4, <1>6

\* Whatever was written before, the terminator makes the string whole again.
LEMMA TerminatorWritten ==
  ASSUME NEW m, NEW R, Roomy(m, R), m.s.cap > 0
  PROVE  /\ Sound(str_write_terminator(m), R)
         /\ str_write_terminator(m).s = m.s /\ str_write_terminator(m).ret = m.ret
<1>1. PICK w, off : w = <<Nul>> /\ off = m.s.len
  OBVIOUS
<1>2. w \in Seq(Cells) /\ Len(w) = 1 /\ w[1] = Nul
  BY <1>1, StrApiAssumption DEF Cells
<1>3. off \in Nat /\ off + 1 <= m.s.cap /\ m.s.cap \in Nat
  BY <1>1, StateType DEF Roomy, IsMachine
<1>4. str_write_terminator(m) = Store(m, off, w)
  BY <1>1, Zenon DEF str_write_terminator
<1>5. /\ Roomy(Store(m, off, w), R)
      /\ Store(m, off, w).s = m.s /\ Store(m, off, w).ret = m.ret
      /\ \A i \in 1..m.s.cap :
           Store(m, off, w).heap[m.s.buf][i] =
             IF i > off /\ i <= off + Len(w) THEN w[i - off] ELSE m.heap[m.s.buf][i]
  BY <1>2, <1>3, StoreInside
<1>6. off + 1 \in 1..m.s.cap /\ off + 1 > off /\ off + 1 <= off + Len(w) /\ (off + 1) - off = 1
  BY <1>2, <1>3
<1>7. Store(m, off, w).heap[m.s.buf][off + 1] = Nul
  BY <1>2, <1>5, <1>6
<1> QED
  BY <1>1, <1>4, <1>5, <1>7 DEF Sound, Terminated

LEMMA LengthSet ==
  ASSUME NEW m, NEW R, Roomy(m, R), m.s.cap > 0, NEW n \in Nat, n < m.s.cap
  PROVE  /\ Roomy([m EXCEPT !.s.len = n], R)
         /\ [m EXCEPT !.s.len = n].s = [m.s EXCEPT !.len = n]
         /\ [m EXCEPT !.s.len = n].ret = m.ret
<1>1. PICK s, o : s = m.s /\ o = [m EXCEPT !.s.len = n]
  OBVIOUS
<1>2. s \in StrState /\ {"heap", "s", "ret"} \subseteq DOMAIN m
  BY <1>1 DEF Roomy, IsMachine
<1>3. o.s = [s EXCEPT !.len = n] /\ o.heap = m.heap /\ o.ret = m.ret /\ DOMAIN o = DOMAIN m
  BY <1>1, <1>2
<1>4. /\ o.s \in StrState /\ o.s.len = n /\ o.s.buf = s.buf /\ o.s.cap = s.cap
      /\ o.s.status = s.status
  <2>1. n \in Size
    BY <1>1, <1>2, StateType DEF Size
  <2> QED
    BY <1>2, <1>3, <2>1 DEF StrState
<1>5. IsMachine(o)
  BY <1>1, <1>2, <1>3, <1>4 DEF Roomy, IsMachine
<1>6. Roomy(o, R)
  BY <1>1, <1>3, <1>4, <1>5 DEF Roomy
<1> QED
  BY <1>1, <1>3, <1>6

\* The end of every write: the new length, and the terminator behind it.
LEMMA Finished ==
  ASSUME NEW m, NEW R, Roomy(m, R), m.s.cap > 0, NEW n \in Nat, n < m.s.cap
  PROVE  /\ Sound(str_write_terminator([m EXCEPT !.s.len = n]), R)
         /\ str_write_terminator([m EXCEPT !.s.len = n]).s = [m.s EXCEPT !.len = n]
         /\ str_write_terminator([m EXCEPT !.s.len = n]).ret = m.ret
<1>1. PICK o : o = [m EXCEPT !.s.len = n]
  OBVIOUS
<1>2. Roomy(o, R) /\ o.s = [m.s EXCEPT !.len = n] /\ o.ret = m.ret
  BY <1>1, LengthSet
<1>3. o.s.cap = m.s.cap
  BY <1>2 DEF Roomy, IsMachine, StrState
<1> QED
  BY <1>1, <1>2, <1>3, TerminatorWritten

-----------------------------------------------------------------------------
(* Writing content: each leaves a sound string of the length it says.       *)

Rewritten(m, R, o, n) == Sound(o, R) /\ o.s = [m.s EXCEPT !.len = n] /\ o.ret = m.ret

LEMMA MachineType ==
  ASSUME NEW m, NEW R, Roomy(m, R)
  PROVE  /\ m.s.buf \in Nat /\ m.s.len \in Nat /\ m.s.cap \in Nat /\ m.s \in StrState
         /\ m.s.cap > 0 => m.s.len < m.s.cap
         /\ IsHeap(m.heap) /\ m.ret \in Statuses /\ At(m.s.buf, 0) \in Place
         /\ \A off \in Nat : At(m.s.buf, off) \in Place
<1>1. m.s \in StrState /\ m.s.buf \in Nat /\ m.s.buf \in Int
  BY StateType DEF Roomy, IsMachine
<1>2. At(m.s.buf, 0) \in Place /\ \A off \in Nat : At(m.s.buf, off) \in Place
  BY <1>1, AtType
<1> QED
  BY <1>1, <1>2, StateType DEF Roomy, IsMachine

\* The last two steps of every write.
LEMMA EndOfWrite ==
  ASSUME NEW m, NEW R, NEW f, Roomy(f, R), f.s = m.s, f.ret = m.ret, m.s.cap > 0,
         NEW n \in Nat, n < m.s.cap
  PROVE  Rewritten(m, R, str_write_terminator([f EXCEPT !.s.len = n]), n)
<1>1. /\ Sound(str_write_terminator([f EXCEPT !.s.len = n]), R)
      /\ str_write_terminator([f EXCEPT !.s.len = n]).s = [f.s EXCEPT !.len = n]
      /\ str_write_terminator([f EXCEPT !.s.len = n]).ret = f.ret
  BY Finished
<1> QED
  BY <1>1 DEF Rewritten

LEMMA ContentCleared ==
  ASSUME NEW m, NEW R, Roomy(m, R)
  PROVE  Rewritten(m, R, str_clear_content(m), 0)
<1>1. m.s \in StrState /\ m.s.cap \in Nat /\ {"heap", "s", "ret"} \subseteq DOMAIN m
  BY MachineType DEF Roomy, IsMachine
<1>2. CASE m.s.cap > 0
  <2>1. PICK e : e = [m EXCEPT !.s.len = 0]
    OBVIOUS
  <2>2. Roomy(e, R) /\ e.s = [m.s EXCEPT !.len = 0] /\ e.ret = m.ret
    BY <1>1, <1>2, <2>1, LengthSet
  <2>3. e.s.cap > 0 /\ e.s.len = 0
    BY <1>1, <1>2, <2>2 DEF StrState
  <2>4. /\ Sound(str_write_terminator(e), R)
        /\ str_write_terminator(e).s = e.s /\ str_write_terminator(e).ret = e.ret
    BY <2>2, <2>3, TerminatorWritten
  <2>5. str_clear_content(m) = str_write_terminator(e)
    <3>1. str_is_owned(m.s)
      BY <1>2 DEF str_is_owned
    <3> QED
      BY <2>1, <2>3, <3>1 DEF str_clear_content, str_write_terminator
  <2> QED
    BY <2>2, <2>4, <2>5 DEF Rewritten
<1>3. CASE m.s.cap = 0
  <2>1. PICK e : e = [m EXCEPT !.s.len = 0]
    OBVIOUS
  <2>2. /\ e.s = [m.s EXCEPT !.len = 0] /\ e.heap = m.heap /\ e.ret = m.ret
        /\ DOMAIN e = DOMAIN m
    BY <1>1, <2>1
  <2>3. e.s = m.s
    BY <1>1, <1>3, <2>2 DEF Roomy, StrState
  <2>4. Sound(e, R)
    BY <1>3, <2>2, <2>3 DEF Sound, Roomy, IsMachine, Terminated
  <2>5. str_clear_content(m) = e
    BY <1>3, <2>1 DEF str_clear_content, str_is_owned
  <2> QED
    BY <2>2, <2>4, <2>5 DEF Rewritten
<1> QED
  BY <1>1, <1>2, <1>3

LEMMA ContentReplaced ==
  ASSUME NEW m, NEW R, Roomy(m, R), m.s.cap > 0, NEW p \in Place, NEW n \in Nat, n < m.s.cap
  PROVE  Rewritten(m, R, str_replace_content(m, p, n), n)
<1>1. PICK f : f = str_move_bytes(m, 0, p, n)
  OBVIOUS
<1>2. Roomy(f, R) /\ f.s = m.s /\ f.ret = m.ret
  <2>1. 0 \in Nat /\ 0 + n <= m.s.cap
    BY MachineType
  <2> QED
    BY <1>1, <2>1, MovedInside
<1>3. Rewritten(m, R, str_write_terminator([f EXCEPT !.s.len = n]), n)
  BY <1>2, EndOfWrite
<1> QED
  BY <1>1, <1>3, Zenon DEF str_replace_content

LEMMA ContentAppended ==
  ASSUME NEW m, NEW R, Roomy(m, R), m.s.cap > 0, NEW p \in Place, NEW n \in Nat,
         m.s.len + n < m.s.cap
  PROVE  Rewritten(m, R, str_append_content(m, p, n), m.s.len + n)
<1> DEFINE new == m.s.len + n
<1>0. m.s.len \in Nat /\ new \in Nat /\ new <= m.s.cap
  BY MachineType
<1> HIDE DEF new
<1>1. PICK f : f = str_move_bytes(m, m.s.len, p, n)
  OBVIOUS
<1>2. Roomy(f, R) /\ f.s = m.s /\ f.ret = m.ret
  BY <1>0, <1>1, MovedInside DEF new
<1>3. Rewritten(m, R, str_write_terminator([f EXCEPT !.s.len = new]), new)
  BY <1>0, <1>2, EndOfWrite DEF new
<1>4. str_append_content(m, p, n) = str_write_terminator([f EXCEPT !.s.len = f.s.len + n])
  BY <1>1, Zenon DEF str_append_content
<1> QED
  BY <1>2, <1>3, <1>4, Zenon DEF new

LEMMA InsertCommitted ==
  ASSUME NEW m, NEW R, Roomy(m, R), m.s.cap > 0, NEW p \in Place, NEW n \in Nat,
         NEW idx \in Nat, idx <= m.s.len, m.s.len + n < m.s.cap
  PROVE  Rewritten(m, R, str_commit_insert(m, idx, p, n), m.s.len + n)
<1>1. PICK len \in Nat, cap \in Nat, k \in Nat :
        len = m.s.len /\ cap = m.s.cap /\ k = (len - idx) + 1
  BY MachineType
<1>2. PICK tail : tail = str_move_bytes(m, idx + n, At(m.s.buf, idx), k)
  OBVIOUS
<1>3. Roomy(tail, R) /\ tail.s = m.s /\ tail.ret = m.ret
  <2>1. idx + n \in Nat /\ idx + n + k <= m.s.cap
    BY <1>1
  <2>2. At(m.s.buf, idx) \in Place
    BY MachineType
  <2> QED
    BY <1>2, <2>1, <2>2, MovedInside
<1>4. PICK f : f = str_move_bytes(tail, idx, p, n)
  OBVIOUS
<1>5. Roomy(f, R) /\ f.s = m.s /\ f.ret = m.ret
  <2>1. idx + n <= tail.s.cap /\ tail.s.cap > 0
    BY <1>1, <1>3
  <2> QED
    BY <1>3, <1>4, <2>1, MovedInside
<1>6. Rewritten(m, R, str_write_terminator([f EXCEPT !.s.len = m.s.len + n]), m.s.len + n)
  BY <1>5, MachineType, EndOfWrite
<1>7. str_commit_insert(m, idx, p, n) = str_write_terminator([f EXCEPT !.s.len = f.s.len + n])
  BY <1>1, <1>2, <1>4, Zenon DEF str_commit_insert
<1> QED
  BY <1>5, <1>6, <1>7, Zenon

LEMMA GapClosed ==
  ASSUME NEW m, NEW R, Roomy(m, R), m.s.cap > 0, NEW n \in Nat, NEW idx \in Nat,
         idx + n <= m.s.len
  PROVE  Rewritten(m, R, str_close_gap(m, idx, n), m.s.len - n)
<1>1. PICK len \in Nat, cap \in Nat, k \in Nat, rest \in Nat :
        /\ len = m.s.len /\ cap = m.s.cap /\ k = (len - idx - n) + 1 /\ rest = len - n
        /\ len < cap
  <2>1. m.s.len \in Nat /\ m.s.cap \in Nat /\ m.s.len < m.s.cap
    BY MachineType
  <2> QED
    BY <2>1
<1>2. PICK f : f = str_move_bytes(m, idx, At(m.s.buf, idx + n), k)
  OBVIOUS
<1>3. Roomy(f, R) /\ f.s = m.s /\ f.ret = m.ret
  <2>1. idx + n \in Nat /\ idx + k <= m.s.cap
    BY <1>1
  <2>2. At(m.s.buf, idx + n) \in Place
    BY <2>1, MachineType
  <2> QED
    BY <1>2, <2>1, <2>2, MovedInside
<1>4. Rewritten(m, R, str_write_terminator([f EXCEPT !.s.len = rest]), rest)
  <2>1. rest < m.s.cap
    BY <1>1
  <2> QED
    BY <1>3, <2>1, EndOfWrite
<1>5. str_close_gap(m, idx, n) = str_write_terminator([f EXCEPT !.s.len = f.s.len - n])
  BY <1>1, <1>2, Zenon DEF str_close_gap
<1> QED
  BY <1>1, <1>3, <1>4, <1>5, Zenon

LEMMA ContentExtended ==
  ASSUME NEW m, NEW R, Roomy(m, R), m.s.cap > 0, NEW n \in Nat, NEW byte \in Bytes,
         m.s.len < n, n < m.s.cap
  PROVE  Rewritten(m, R, str_extend_content(m, n, byte), n)
<1>1. PICK len \in Nat, k \in Nat : len = m.s.len /\ k = n - len
  BY MachineType
<1>2. PICK w : w = [i \in 1..k |-> byte]
  OBVIOUS
<1>3. w \in Seq(Cells) /\ Len(w) = k
  BY <1>1, <1>2 DEF Cells
<1>4. PICK f : f = Store(m, len, w)
  OBVIOUS
<1>5. Roomy(f, R) /\ f.s = m.s /\ f.ret = m.ret
  <2>1. len + Len(w) <= m.s.cap
    BY <1>1, <1>3, MachineType
  <2> QED
    BY <1>3, <1>4, <2>1, StoreInside
<1>6. Rewritten(m, R, str_write_terminator([f EXCEPT !.s.len = n]), n)
  BY <1>5, EndOfWrite
<1>7. str_extend_content(m, n, byte) = str_write_terminator([f EXCEPT !.s.len = n])
  BY <1>1, <1>2, <1>4, Zenon DEF str_extend_content
<1> QED
  BY <1>6, <1>7, Zenon

LEMMA ReplacementCommitted ==
  ASSUME NEW m, NEW R, Roomy(m, R), m.s.cap > 0, NEW p \in Place, NEW n \in Nat, NEW k \in Nat,
         NEW idx \in Nat, idx + k <= m.s.len, (m.s.len - k) + n < m.s.cap
  PROVE  Rewritten(m, R, str_commit_replacement(m, idx, k, p, n), (m.s.len - k) + n)
<1>1. PICK len \in Nat, cap \in Nat, rest \in Nat, new \in Nat :
        /\ len = m.s.len /\ cap = m.s.cap /\ rest = (len - idx - k) + 1
        /\ new = (len - k) + n
  BY MachineType
<1>2. PICK suffix : suffix = str_move_bytes(m, idx + n, At(m.s.buf, idx + k), rest)
  OBVIOUS
<1>3. Roomy(suffix, R) /\ suffix.s = m.s /\ suffix.ret = m.ret
  <2>1. idx + n \in Nat /\ idx + k \in Nat /\ idx + n + rest <= m.s.cap
    BY <1>1
  <2>2. At(m.s.buf, idx + k) \in Place
    BY <2>1, MachineType
  <2> QED
    BY <1>2, <2>1, <2>2, MovedInside
<1>4. PICK f : f = str_move_bytes(suffix, idx, p, n)
  OBVIOUS
<1>5. Roomy(f, R) /\ f.s = m.s /\ f.ret = m.ret
  <2>1. idx + n <= suffix.s.cap /\ suffix.s.cap > 0
    BY <1>1, <1>3
  <2> QED
    BY <1>3, <1>4, <2>1, MovedInside
<1>6. Rewritten(m, R, str_write_terminator([f EXCEPT !.s.len = new]), new)
  <2>1. new < m.s.cap
    BY <1>1
  <2> QED
    BY <1>5, <2>1, EndOfWrite
<1>7. str_commit_replacement(m, idx, k, p, n)
        = str_write_terminator([f EXCEPT !.s.len = (f.s.len - k) + n])
  BY <1>1, <1>2, <1>4, Zenon DEF str_commit_replacement
<1> QED
  BY <1>1, <1>5, <1>6, <1>7, Zenon

-----------------------------------------------------------------------------
(* Capacity                                                                 *)

\* What a call may leave behind: a sound string with no less room, and nothing
\* changed when it fails.
Kept(m, R, o) ==
  /\ Sound(o, R) /\ o.s.cap >= m.s.cap
  /\ o.ret # "OK" => o.heap = m.heap /\ o.s = m.s

LEMMA StatusNames == {"OK", "ERR_ARG", "ERR_RANGE", "ERR_ALLOC", "ERR_OVERFLOW", "ERR_FMT"} = Statuses
BY DEF Statuses, Errors

LEMMA Checked ==
  ASSUME NEW m, NEW R, Sound(m, R), NEW r \in Statuses
  PROVE  /\ Kept(m, R, With(m, r)) /\ With(m, r).heap = m.heap /\ With(m, r).s = m.s
         /\ With(m, r).ret = r
<1>1. PICK o : o = With(m, r)
  OBVIOUS
<1>2. {"heap", "s", "ret"} \subseteq DOMAIN m
  BY DEF Sound, Roomy, IsMachine
<1>3. o.heap = m.heap /\ o.s = m.s /\ o.ret = r /\ DOMAIN o = DOMAIN m
  BY <1>1, <1>2 DEF With
<1>4. IsMachine(o)
  BY <1>2, <1>3 DEF Sound, Roomy, IsMachine
<1>5. Sound(o, R)
  BY <1>3, <1>4 DEF Sound, Roomy, Terminated
<1>6. o.s.cap >= m.s.cap
  BY <1>3, MachineType DEF Sound
<1> QED
  BY <1>1, <1>3, <1>5, <1>6 DEF Kept

LEMMA KeptItself ==
  ASSUME NEW m, NEW R, Sound(m, R)
  PROVE  Kept(m, R, m)
BY MachineType DEF Kept, Sound

\* Checks that change nothing may come before.
LEMMA KeptSince ==
  ASSUME NEW m, NEW R, NEW e, e.heap = m.heap, e.s = m.s, NEW o, Kept(e, R, o)
  PROVE  Kept(m, R, o)
BY DEF Kept

\* A write that succeeds in a string that was kept so far.
LEMMA RewrittenKept ==
  ASSUME NEW m, NEW R, NEW e, Kept(m, R, e), e.ret = "OK", NEW n, NEW o, Rewritten(e, R, o, n)
  PROVE  Kept(m, R, o)
<1>1. e.s \in StrState /\ o.s = [e.s EXCEPT !.len = n] /\ o.ret = "OK" /\ Sound(o, R)
  BY DEF Kept, Sound, Roomy, IsMachine, Rewritten
<1>2. o.s.cap = e.s.cap
  BY <1>1 DEF StrState
<1> QED
  BY <1>1, <1>2 DEF Kept

\* The heap and the buffer after an allocation of n bytes for the string of m.
Moved(m, R, a, n) ==
  /\ IsHeap(a.heap) /\ a.buf \in Nat \ {NULL} /\ a.buf \notin DOMAIN R
  /\ DOMAIN a.heap = DOMAIN R \cup {a.buf}
  /\ \A b \in DOMAIN R : a.heap[b] = R[b]
  /\ Len(a.heap[a.buf]) = n /\ (m.s.len < n => a.heap[a.buf][m.s.len + 1] = Nul)

LEMMA ReallocMoves ==
  ASSUME NEW m, NEW R, Sound(m, R), m.s.cap > 0, NEW n \in 1..SizeMax,
         NEW a \in Realloc(m.heap, m.s.buf, n)
  PROVE  Moved(m, R, a, n)
<1>1. PICK h, b, bytes : /\ h = m.heap /\ b = m.s.buf
                         /\ bytes = [i \in 1..n |-> IF i <= Len(h[b]) THEN h[b][i] ELSE Junk]
  OBVIOUS
<1>2. n \in Nat /\ m.s.len \in Nat /\ m.s.cap \in Nat /\ m.s.len < m.s.cap
  BY MachineType, StrApiAssumption DEF Sound
<1>3. /\ IsHeap(h) /\ b \in DOMAIN h /\ b \in Nat \ {NULL} /\ DOMAIN h = DOMAIN R \cup {b}
      /\ b \notin DOMAIN R /\ Len(h[b]) = m.s.cap /\ h[b][m.s.len + 1] = Nul
      /\ \A c \in DOMAIN R : h[c] = R[c]
  BY <1>1, <1>2 DEF Sound, Roomy, IsMachine, IsHeap, Terminated
<1>4. bytes \in Seq(Cells) /\ Len(bytes) = n
  <2>1. h[b] \in Seq(Cells)
    BY <1>3 DEF IsHeap
  <2>2. \A i \in 1..n : (IF i <= Len(h[b]) THEN h[b][i] ELSE Junk) \in Cells
    BY <2>1 DEF Cells
  <2>3. bytes \in [1..n -> Cells]
    BY <1>1, <2>2, Zenon
  <2> QED
    BY <1>2, <2>3
<1>5. m.s.len < n => bytes[m.s.len + 1] = Nul
  <2>1. m.s.len < n => m.s.len + 1 \in 1..n /\ m.s.len + 1 <= Len(h[b])
    BY <1>2, <1>3
  <2> QED
    BY <1>1, <1>3, <2>1
<1>6. PICK g, moved : g = Released(h, b) /\ moved = FreshBlock(h)
  OBVIOUS
<1>7. a \in {[heap |-> Placed(h, b, bytes), buf |-> b], [heap |-> Placed(g, moved, bytes), buf |-> moved]}
  BY <1>1, <1>6, Zenon DEF Realloc
<1>8. CASE a = [heap |-> Placed(h, b, bytes), buf |-> b]
  <2>1. a.heap = Placed(h, b, bytes) /\ a.buf = b
    BY <1>8
  <2>2. /\ IsHeap(a.heap) /\ DOMAIN a.heap = DOMAIN h \cup {b} /\ a.heap[b] = bytes
        /\ \A c \in DOMAIN h \ {b} : a.heap[c] = h[c]
    <3>1. b \in Nat \ {NULL} /\ bytes \in Seq(Cells) /\ IsHeap(h)
      BY <1>3, <1>4
    <3>2. /\ IsHeap(Placed(h, b, bytes)) /\ DOMAIN Placed(h, b, bytes) = DOMAIN h \cup {b}
          /\ Placed(h, b, bytes)[b] = bytes
          /\ \A c \in DOMAIN h \ {b} : Placed(h, b, bytes)[c] = h[c]
      BY <3>1, PlacedHeap, ZenonT(60)
    <3> QED
      BY <2>1, <3>2, Zenon
  <2> QED
    BY <1>3, <1>4, <1>5, <2>1, <2>2 DEF Moved
<1>9. CASE a = [heap |-> Placed(g, moved, bytes), buf |-> moved]
  <2>1. a.heap = Placed(g, moved, bytes) /\ a.buf = moved
    BY <1>9
  <2>2. moved \in Nat \ {NULL} /\ moved \notin DOMAIN h
    BY <1>3, <1>6, FreshIsFree
  <2>3. /\ IsHeap(g) /\ DOMAIN g = DOMAIN h \ {b} /\ \A c \in DOMAIN h \ {b} : g[c] = h[c]
    <3>1. IsHeap(h)
      BY <1>3
    <3>2. /\ IsHeap(Released(h, b)) /\ DOMAIN Released(h, b) = DOMAIN h \ {b}
          /\ \A c \in DOMAIN h \ {b} : Released(h, b)[c] = h[c]
      BY <3>1, ReleasedHeap, ZenonT(60)
    <3> QED
      BY <1>6, <3>2, Zenon
  <2>4. /\ IsHeap(a.heap) /\ DOMAIN a.heap = DOMAIN g \cup {moved} /\ a.heap[moved] = bytes
        /\ \A c \in DOMAIN g \ {moved} : a.heap[c] = g[c]
    <3>1. moved \in Nat \ {NULL} /\ bytes \in Seq(Cells) /\ IsHeap(g)
      BY <1>4, <2>2, <2>3
    <3>2. /\ IsHeap(Placed(g, moved, bytes)) /\ DOMAIN Placed(g, moved, bytes) = DOMAIN g \cup {moved}
          /\ Placed(g, moved, bytes)[moved] = bytes
          /\ \A c \in DOMAIN g \ {moved} : Placed(g, moved, bytes)[c] = g[c]
      BY <3>1, PlacedHeap, ZenonT(60)
    <3> QED
      BY <2>1, <3>2, Zenon
  <2> QED
    BY <1>3, <1>4, <1>5, <2>1, <2>2, <2>3, <2>4 DEF Moved
<1> QED
  BY <1>7, <1>8, <1>9

LEMMA HeapExpanded ==
  ASSUME NEW m, NEW R, Sound(m, R), NEW n \in 1..SizeMax, NEW a \in str_expand_heap(m, n)
  PROVE  Moved(m, R, a, n)
<1>1. CASE m.s.cap > 0
  <2>1. a \in Realloc(m.heap, m.s.buf, n)
    BY <1>1, Zenon DEF str_expand_heap, str_is_owned
  <2> QED
    BY <1>1, <2>1, ReallocMoves
<1>2. CASE m.s.cap = 0
  <2>1. PICK b, h, bytes : /\ b = FreshBlock(m.heap) /\ h = m.heap
                           /\ bytes = [i \in 1..n |-> IF i = 1 THEN Nul ELSE Junk]
    OBVIOUS
  <2>2. a = [heap |-> Placed(h, b, bytes), buf |-> b]
    <3>1. ~(m.s.cap > 0)
      BY <1>2
    <3> QED
      BY <2>1, <3>1, Zenon DEF str_expand_heap, str_is_owned
  <2>3. /\ IsHeap(h) /\ DOMAIN h = DOMAIN R /\ m.s.len = 0
        /\ \A c \in DOMAIN R : h[c] = R[c]
    BY <1>2, <2>1 DEF Sound, Roomy, IsMachine
  <2>4. b \in Nat \ {NULL} /\ b \notin DOMAIN h
    BY <2>1, <2>3, FreshIsFree
  <2>5. bytes \in Seq(Cells) /\ Len(bytes) = n /\ bytes[1] = Nul
    <3>1. n \in Nat /\ 1 \in 1..n /\ Nul \in Cells /\ Junk \in Cells
      BY StrApiAssumption DEF Cells
    <3>2. bytes \in [1..n -> Cells]
      BY <2>1, <3>1
    <3> QED
      BY <2>1, <3>1, <3>2
  <2>6. a.heap = Placed(h, b, bytes) /\ a.buf = b
    BY <2>2
  <2>7. /\ IsHeap(a.heap) /\ DOMAIN a.heap = DOMAIN h \cup {b} /\ a.heap[b] = bytes
        /\ \A c \in DOMAIN h \ {b} : a.heap[c] = h[c]
    <3>1. b \in Nat \ {NULL} /\ bytes \in Seq(Cells) /\ IsHeap(h)
      BY <2>3, <2>4, <2>5
    <3>2. /\ IsHeap(Placed(h, b, bytes)) /\ DOMAIN Placed(h, b, bytes) = DOMAIN h \cup {b}
          /\ Placed(h, b, bytes)[b] = bytes
          /\ \A c \in DOMAIN h \ {b} : Placed(h, b, bytes)[c] = h[c]
      BY <3>1, PlacedHeap, ZenonT(60)
    <3> QED
      BY <2>6, <3>2, Zenon
  <2> QED
    BY <2>3, <2>4, <2>5, <2>6, <2>7 DEF Moved
<1> QED
  BY <1>1, <1>2, MachineType DEF Sound

\* The string after its buffer became another one of n bytes.
Rehoused(m, a, n) == [m EXCEPT !.heap = a.heap, !.s.buf = a.buf, !.s.cap = n]

LEMMA BufferMoved ==
  ASSUME NEW m, NEW R, Sound(m, R), NEW n \in 1..SizeMax, m.s.len < n, NEW a, Moved(m, R, a, n),
         NEW o, o = Rehoused(m, a, n)
  PROVE  /\ Sound(o, R) /\ o.ret = m.ret /\ o.heap = a.heap
         /\ o.s.buf = a.buf /\ o.s.len = m.s.len /\ o.s.cap = n /\ o.s.status = m.s.status
<1>1. m.s \in StrState /\ {"heap", "s", "ret"} \subseteq DOMAIN m /\ m.ret \in Statuses
  BY DEF Sound, Roomy, IsMachine
<1>2. PICK s : s = [buf |-> a.buf, len |-> m.s.len, cap |-> n, status |-> m.s.status]
  OBVIOUS
<1>3. o.heap = a.heap /\ o.ret = m.ret /\ DOMAIN o = DOMAIN m
  BY <1>1 DEF Rehoused
<1>4. o.s = s
  BY <1>1, <1>2 DEF StrState, Rehoused
<1>5. s \in StrState /\ n \in Nat \ {0}
  BY <1>1, <1>2, StrApiAssumption DEF StrState, Size, Moved
<1>6. IsMachine(o)
  BY <1>1, <1>3, <1>4, <1>5 DEF IsMachine, Moved
<1>7. s.buf = a.buf /\ s.cap = n /\ s.len = m.s.len /\ s.status = m.s.status
  BY <1>2
<1>8. Roomy(o, R)
  BY <1>3, <1>4, <1>5, <1>6, <1>7 DEF Roomy, Moved
<1>9. Terminated(o)
  BY <1>3, <1>4, <1>7 DEF Terminated, Moved
<1> QED
  BY <1>3, <1>4, <1>7, <1>8, <1>9 DEF Sound

LEMMA CapacityEnsured ==
  ASSUME NEW m, NEW R, Sound(m, R), m.ret = "OK", NEW need \in 1..SizeMax,
         NEW e \in str_ensure_capacity(m, need)
  PROVE  /\ Kept(m, R, e) /\ e.ret \in {"OK", "ERR_ALLOC"} /\ e.s.len = m.s.len
         /\ e.ret = "OK" => e.s.cap >= need
         /\ e.ret # "OK" => need > m.s.cap
<1>1. m.s.cap \in Nat /\ m.s.len \in Nat /\ (m.s.cap > 0 => m.s.len < m.s.cap)
  BY MachineType DEF Sound
<1>2. CASE need <= m.s.cap
  <2>1. e = m
    BY <1>2, Zenon DEF str_ensure_capacity
  <2> QED
    BY <1>2, <2>1, KeptItself
<1>3. CASE ~(need <= m.s.cap)
  <2>1. PICK n : n = str_choose_capacity(m.s.cap, need)
    OBVIOUS
  <2>2. n \in 1..SizeMax /\ n >= need
    BY <2>1, ChosenCapacity
  <2>3. \/ e = With(m, "ERR_ALLOC")
        \/ \E a \in str_expand_heap(m, n) :
             e = Rehoused(m, a, n)
    BY <1>3, <2>1 DEF str_ensure_capacity, Rehoused
  <2>4. CASE e = With(m, "ERR_ALLOC")
    <3>1. "ERR_ALLOC" \in Statuses
      BY StatusNames
    <3> QED
      BY <1>1, <1>3, <2>4, <3>1, Checked
  <2>5. ASSUME NEW a \in str_expand_heap(m, n),
               e = Rehoused(m, a, n)
        PROVE  /\ Kept(m, R, e) /\ e.ret = "OK" /\ e.s.len = m.s.len /\ e.s.cap >= need
    <3>1. Moved(m, R, a, n)
      BY <2>2, HeapExpanded
    <3>2. m.s.len < n
      <4>1. m.s.cap = 0 => m.s.len = 0
        BY DEF Sound, Roomy
      <4> QED
        BY <1>1, <1>3, <2>2, <4>1
    <3>3. /\ Sound(e, R) /\ e.ret = m.ret
          /\ e.s.len = m.s.len /\ e.s.cap = n
      <4>1. n \in 1..SizeMax
        BY <2>2
      <4>2. e = Rehoused(m, a, n)
        BY <2>5
      <4>3. Sound(m, R) /\ Moved(m, R, a, n) /\ m.s.len < n
        BY <3>1, <3>2
      <4>4. Sound(e, R)
        BY <4>1, <4>2, <4>3, BufferMoved
      <4>5. e.ret = m.ret
        BY <4>1, <4>2, <4>3, BufferMoved
      <4>6. e.s.len = m.s.len /\ e.s.cap = n
        BY <4>1, <4>2, <4>3, BufferMoved
      <4> QED
        BY <4>4, <4>5, <4>6
    <3> QED
      BY <1>1, <1>3, <2>2, <3>3 DEF Kept
  <2> QED
    BY <1>1, <1>3, <2>3, <2>4, <2>5
<1> QED
  BY <1>2, <1>3

-----------------------------------------------------------------------------
(* The checks that come first: each leaves a status and nothing else.       *)

Passed(m, R, o) == Kept(m, R, o) /\ o.heap = m.heap /\ o.s = m.s

LEMMA PassedSound ==
  ASSUME NEW m, NEW R, NEW o, Passed(m, R, o)
  PROVE  Sound(o, R) /\ Kept(m, R, o) /\ o.heap = m.heap /\ o.s = m.s
BY DEF Passed, Kept

LEMMA SourceValidated ==
  ASSUME NEW m, NEW R, Sound(m, R), NEW span
  PROVE  Passed(m, R, str_validate_source(m, span))
<1>1. PICK r \in Statuses : str_validate_source(m, span) = With(m, r)
  BY StatusNames DEF str_validate_source
<1> QED
  BY <1>1, Checked DEF Passed

LEMMA SpanValidated ==
  ASSUME NEW m, NEW R, Sound(m, R), NEW len \in Nat, NEW idx \in Nat, NEW n \in Nat
  PROVE  /\ Passed(m, R, str_validate_span(m, len, idx, n))
         /\ str_validate_span(m, len, idx, n).ret = "OK" => idx + n <= len
<1>1. PICK r \in Statuses : /\ str_validate_span(m, len, idx, n) = With(m, r)
                            /\ r = "OK" => ~(idx > len \/ n > len - idx)
  BY StatusNames DEF str_validate_span
<1>2. ~(idx > len \/ n > len - idx) => idx + n <= len
  OBVIOUS
<1> QED
  BY <1>1, <1>2, Checked DEF Passed

LEMMA CapacityCalculated ==
  ASSUME NEW m, NEW R, Sound(m, R), NEW n \in Nat
  PROVE  /\ Passed(m, R, str_calculate_capacity(m, n))
         /\ str_calculate_capacity(m, n).ret = "OK" => n < SizeMax
         /\ str_calculate_capacity(m, n).ret # "OK" => n >= SizeMax
<1>1. PICK r \in Statuses : /\ str_calculate_capacity(m, n) = With(m, r)
                            /\ r = "OK" <=> ~(n > SizeMax - 1)
  BY StatusNames DEF str_calculate_capacity
<1>2. ~(n > SizeMax - 1) <=> n < SizeMax
  BY StrApiAssumption
<1>3. n < SizeMax \/ n >= SizeMax
  BY StrApiAssumption
<1> QED
  BY <1>1, <1>2, <1>3, Checked DEF Passed

LEMMA OverlapDetected ==
  ASSUME NEW m, NEW R, Sound(m, R), NEW p, NEW n
  PROVE  Passed(m, R, str_detect_overlap(m, p, n))
<1>1. PICK r \in Statuses : str_detect_overlap(m, p, n) = With(m, r)
  BY StatusNames DEF str_detect_overlap
<1> QED
  BY <1>1, Checked DEF Passed

\* The length of a C string is a number once a NUL was found.
LEMMA CStringMeasured ==
  ASSUME NEW m, NEW R, Sound(m, R), NEW p, NEW o \in str_measure_c_string_input(m, p)
  PROVE  Passed(m, R, o) /\ (o.ret = "OK" => CStringLen(o, p) \in Nat)
<1>1. CASE p.blk = NULL
  <2>1. o = With(m, "ERR_ARG")
    BY <1>1 DEF str_measure_c_string_input
  <2> QED
    BY <2>1, StatusNames, Checked DEF Passed
<1>2. CASE p.blk # NULL
  <2>1. PICK d : d = str_detect_overlap(m, p, 1)
    OBVIOUS
  <2>2. o \in IF d.ret = "OK" THEN {With(d, IF NulsAt(d, p) = {} THEN "ERR_ARG" ELSE "OK")} ELSE {d}
    BY <1>2, <2>1 DEF str_measure_c_string_input, Then
  <2>3. Passed(m, R, d) /\ Sound(d, R) /\ d.heap = m.heap /\ d.s = m.s
    BY <2>1, OverlapDetected, PassedSound
  <2>4. CASE d.ret # "OK"
    BY <2>2, <2>3, <2>4
  <2>5. CASE d.ret = "OK"
    <3>1. PICK r \in Statuses : o = With(d, r) /\ (r = "OK" => NulsAt(d, p) # {})
      BY <2>2, <2>5, StatusNames
    <3>2. Kept(d, R, o) /\ o.heap = d.heap /\ o.s = d.s /\ o.ret = r
      BY <2>3, <3>1, Checked
    <3>3. Passed(m, R, o)
      BY <2>3, <3>2, KeptSince DEF Passed
    <3>4. NulsAt(o, p) = NulsAt(d, p)
      BY <3>2 DEF NulsAt
    <3>5. PICK T : T = NulsAt(d, p)
      OBVIOUS
    <3>6. T \subseteq Nat /\ \A i \in T : i >= 1
      <4>1. PICK n : T = {i \in 1..n : Load(d.heap, p, n)[i] = Nul}
        BY <3>5, Zenon DEF NulsAt
      <4> QED
        BY <4>1
    <3>7. T # {} => Min(T) \in T
      BY <3>6, MinIs
    <3>8. CStringLen(o, p) = Min(T) - 1
      BY <3>4, <3>5 DEF CStringLen
    <3> QED
      BY <3>1, <3>2, <3>3, <3>5, <3>6, <3>7, <3>8
  <2> QED
    BY <2>4, <2>5
<1> QED
  BY <1>1, <1>2

-----------------------------------------------------------------------------
(* Writes that may need a larger buffer.                                    *)

LEMMA RebasedPlace ==
  ASSUME NEW s, NEW t, t.buf \in Nat, NEW p \in Place
  PROVE  Rebased(s, t, p) \in Place
<1>1. [p EXCEPT !.blk = t.buf] \in Place
  BY DEF Place
<1> QED
  BY <1>1 DEF Rebased

LEMMA WritePrepared ==
  ASSUME NEW m, NEW R, Sound(m, R), m.ret = "OK", NEW p, NEW n \in Nat, NEW base \in Nat,
         NEW e \in str_prepare_write(m, p, n, base)
  PROVE  /\ Kept(m, R, e) /\ e.s.len = m.s.len
         /\ e.ret = "OK" => e.s.cap > base + n
<1>1. PICK need, c : need \in Nat /\ need = base + n /\ c = str_calculate_capacity(m, base + n)
  OBVIOUS
<1>2. /\ Passed(m, R, c) /\ Sound(c, R) /\ c.heap = m.heap /\ c.s = m.s
      /\ c.ret = "OK" => need + 1 \in 1..SizeMax
  <2>1. Passed(m, R, c) /\ (c.ret = "OK" => need < SizeMax)
    BY <1>1, CapacityCalculated
  <2>2. need < SizeMax => need + 1 \in 1..SizeMax
    BY <1>1, StrApiAssumption
  <2> QED
    BY <2>1, <2>2, PassedSound
<1>3. PICK d : /\ IF c.ret = "OK" THEN d = str_detect_overlap(c, p, n) ELSE d = c
               /\ IF d.ret = "OK" THEN e \in str_ensure_capacity(d, need + 1) ELSE e = d
  <2>1. e \in Then(Then({c}, LAMBDA o : {str_detect_overlap(o, p, n)}),
                   LAMBDA o : str_ensure_capacity(o, base + n + 1))
    BY <1>1, Zenon DEF str_prepare_write
  <2>2. PICK d \in Then({c}, LAMBDA o : {str_detect_overlap(o, p, n)}) :
          IF d.ret = "OK" THEN e \in str_ensure_capacity(d, base + n + 1) ELSE e = d
    BY <2>1 DEF Then
  <2>3. IF c.ret = "OK" THEN d = str_detect_overlap(c, p, n) ELSE d = c
    BY <2>2 DEF Then
  <2> QED
    BY <1>1, <2>2, <2>3
<1>4. /\ Passed(c, R, d) /\ Sound(d, R) /\ d.heap = c.heap /\ d.s = c.s
      /\ d.ret = "OK" => c.ret = "OK"
  BY <1>2, <1>3, OverlapDetected, PassedSound, KeptItself DEF Passed
<1>5. /\ Kept(d, R, e) /\ e.s.len = d.s.len /\ (e.ret = "OK" => e.s.cap >= need + 1)
  <2>1. CASE d.ret # "OK"
    BY <1>3, <1>4, <2>1, KeptItself
  <2>2. CASE d.ret = "OK"
    BY <1>2, <1>3, <1>4, <2>2, CapacityEnsured
  <2> QED
    BY <2>1, <2>2
<1>6. Kept(m, R, e)
  BY <1>2, <1>4, <1>5, KeptSince
<1>7. e.s.cap \in Nat
  BY <1>5, MachineType DEF Kept, Sound
<1> QED
  BY <1>1, <1>2, <1>4, <1>5, <1>6, <1>7

LEMMA SetSpan ==
  ASSUME NEW m, NEW R, Sound(m, R), m.ret = "OK", NEW p \in Place, NEW n \in Nat,
         NEW o \in str_set_valid_span(m, p, n)
  PROVE  Kept(m, R, o)
<1>1. CASE n = 0
  <2>1. o = str_clear_content(m)
    BY <1>1 DEF str_set_valid_span
  <2>2. Rewritten(m, R, o, 0)
    BY <2>1, ContentCleared DEF Sound
  <2> QED
    BY <2>2, KeptItself, RewrittenKept
<1>2. CASE n # 0
  <2>1. o \in Then(str_prepare_write(m, p, n, 0),
                   LAMBDA e : {str_replace_content(e, Rebased(m.s, e.s, p), n)})
    BY <1>2, Zenon DEF str_set_valid_span
  <2>2. PICK e \in str_prepare_write(m, p, n, 0) :
          IF e.ret = "OK" THEN o = str_replace_content(e, Rebased(m.s, e.s, p), n) ELSE o = e
    BY <2>1 DEF Then
  <2>3. Kept(m, R, e) /\ (e.ret = "OK" => e.s.cap > n)
    BY WritePrepared
  <2>4. CASE e.ret # "OK"
    BY <2>2, <2>3, <2>4
  <2>5. CASE e.ret = "OK"
    <3>1. Roomy(e, R) /\ e.s.cap > n /\ e.s.cap > 0 /\ e.s.buf \in Nat
      BY <2>3, <2>5, MachineType DEF Kept, Sound
    <3>2. Rebased(m.s, e.s, p) \in Place
      BY <3>1, RebasedPlace
    <3>3. Rewritten(e, R, o, n)
      BY <2>2, <2>5, <3>1, <3>2, ContentReplaced
    <3> QED
      BY <2>3, <2>5, <3>3, RewrittenKept
  <2> QED
    BY <2>4, <2>5
<1> QED
  BY <1>1, <1>2

LEMMA AppendSpan ==
  ASSUME NEW m, NEW R, Sound(m, R), m.ret = "OK", NEW p \in Place, NEW n \in Nat,
         NEW o \in str_append_valid_span(m, p, n)
  PROVE  Kept(m, R, o)
<1>1. CASE n = 0
  <2>1. o = m
    BY <1>1 DEF str_append_valid_span
  <2> QED
    BY <2>1, KeptItself
<1>2. CASE n # 0
  <2>1. o \in Then(str_prepare_write(m, p, n, m.s.len),
                   LAMBDA e : {str_append_content(e, Rebased(m.s, e.s, p), n)})
    BY <1>2, Zenon DEF str_append_valid_span
  <2>2. PICK e \in str_prepare_write(m, p, n, m.s.len) :
          IF e.ret = "OK" THEN o = str_append_content(e, Rebased(m.s, e.s, p), n) ELSE o = e
    BY <2>1 DEF Then
  <2>3. m.s.len \in Nat
    BY MachineType DEF Sound
  <2>4. Kept(m, R, e) /\ e.s.len = m.s.len /\ (e.ret = "OK" => e.s.cap > m.s.len + n)
    BY <2>3, WritePrepared
  <2>5. CASE e.ret # "OK"
    BY <2>2, <2>4, <2>5
  <2>6. CASE e.ret = "OK"
    <3>1. Roomy(e, R) /\ e.s.len + n < e.s.cap /\ e.s.cap > 0 /\ e.s.buf \in Nat
      BY <2>3, <2>4, <2>6, MachineType DEF Kept, Sound
    <3>2. Rebased(m.s, e.s, p) \in Place
      BY <3>1, RebasedPlace
    <3>3. Rewritten(e, R, o, e.s.len + n)
      BY <2>2, <2>6, <3>1, <3>2, ContentAppended
    <3> QED
      BY <2>4, <2>6, <3>3, RewrittenKept
  <2> QED
    BY <2>5, <2>6
<1> QED
  BY <1>1, <1>2

LEMMA AppendUnaliased ==
  ASSUME NEW m, NEW R, Sound(m, R), m.ret = "OK", NEW w \in Seq(Bytes),
         NEW o \in str_append_unaliased_span(m, w)
  PROVE  Kept(m, R, o)
<1>1. CASE w = <<>>
  <2>1. o = m
    BY <1>1 DEF str_append_unaliased_span
  <2> QED
    BY <2>1, KeptItself
<1>2. CASE w # <<>>
  <2>1. PICK p : p = [blk |-> CALLER, off |-> 0, bytes |-> w]
    OBVIOUS
  <2>2. p \in Place /\ m.s.len \in Nat /\ Len(w) \in Nat
    BY <2>1, MachineType DEF Place, CALLER, Sound
  <2>3. PICK need, c : /\ need \in Nat /\ need = m.s.len + Len(w)
                     /\ c = str_calculate_capacity(m, m.s.len + Len(w))
    BY <2>2
  <2>4. PICK e : /\ IF c.ret = "OK" THEN e \in str_ensure_capacity(c, need + 1) ELSE e = c
                 /\ IF e.ret = "OK" THEN o = str_append_content(e, p, Len(w)) ELSE o = e
    <3>1. o \in Then(Then({c}, LAMBDA q : str_ensure_capacity(q, m.s.len + Len(w) + 1)),
                     LAMBDA q : {str_append_content(q, [blk |-> CALLER, off |-> 0, bytes |-> w], Len(w))})
      BY <1>2, <2>3, Zenon DEF str_append_unaliased_span
    <3>2. PICK e \in Then({c}, LAMBDA q : str_ensure_capacity(q, m.s.len + Len(w) + 1)) :
            IF e.ret = "OK" THEN o = str_append_content(e, p, Len(w)) ELSE o = e
      BY <2>1, <3>1 DEF Then
    <3>3. IF c.ret = "OK" THEN e \in str_ensure_capacity(c, m.s.len + Len(w) + 1) ELSE e = c
      BY <3>2 DEF Then
    <3> QED
      BY <2>3, <3>2, <3>3
  <2>5. /\ Passed(m, R, c) /\ Sound(c, R) /\ c.heap = m.heap /\ c.s = m.s
        /\ c.ret = "OK" => need + 1 \in 1..SizeMax
    <3>1. Passed(m, R, c) /\ (c.ret = "OK" => need < SizeMax)
      BY <2>3, CapacityCalculated
    <3>2. need < SizeMax => need + 1 \in 1..SizeMax
      BY <2>3, StrApiAssumption
    <3> QED
      BY <3>1, <3>2, PassedSound
  <2>6. CASE c.ret # "OK"
    BY <2>4, <2>5, <2>6 DEF Passed
  <2>7. CASE c.ret = "OK"
    <3>1. /\ Kept(c, R, e) /\ e.s.len = m.s.len /\ (e.ret = "OK" => e.s.cap >= need + 1)
      BY <2>4, <2>5, <2>7, CapacityEnsured
    <3>2. Kept(m, R, e)
      BY <2>5, <3>1, KeptSince
    <3>3. CASE e.ret # "OK"
      BY <2>4, <3>2, <3>3
    <3>4. CASE e.ret = "OK"
      <4>1. Roomy(e, R) /\ e.s.len + Len(w) < e.s.cap /\ e.s.cap > 0
        BY <2>2, <2>3, <3>1, <3>4, MachineType DEF Kept, Sound
      <4>2. Rewritten(e, R, o, e.s.len + Len(w))
        BY <2>2, <2>4, <3>4, <4>1, ContentAppended
      <4> QED
        BY <3>2, <3>4, <4>2, RewrittenKept
    <3> QED
      BY <3>3, <3>4
  <2> QED
    BY <2>6, <2>7
<1> QED
  BY <1>1, <1>2

LEMMA InsertSpan ==
  ASSUME NEW m, NEW R, Sound(m, R), m.ret = "OK", NEW p \in Place, NEW n \in Nat,
         NEW idx \in Nat, idx <= m.s.len, NEW o \in str_insert_span(m, idx, p, n)
  PROVE  Kept(m, R, o)
<1> DEFINE inside == str_find_allocation_offset(m.s, p)
           q == IF inside THEN [p EXCEPT !.off = str_adjust_source_offset(p, idx, n)] ELSE p
<1>1. q \in Place
  <2>1. str_adjust_source_offset(p, idx, n) \in Nat
    BY DEF str_adjust_source_offset, Place
  <2>2. [p EXCEPT !.off = str_adjust_source_offset(p, idx, n)] \in Place
    BY <2>1 DEF Place
  <2> QED
    BY <2>2
<1>2. o \in Then(str_prepare_write(m, p, n, m.s.len),
                 LAMBDA e : {str_commit_insert(e, idx, IF inside THEN [q EXCEPT !.blk = e.s.buf] ELSE q, n)})
  BY Zenon DEF str_insert_span
<1> HIDE DEF q, inside
<1>3. PICK e \in str_prepare_write(m, p, n, m.s.len) :
        IF e.ret = "OK"
        THEN o = str_commit_insert(e, idx, IF inside THEN [q EXCEPT !.blk = e.s.buf] ELSE q, n)
        ELSE o = e
  BY <1>2 DEF Then
<1>4. m.s.len \in Nat
  BY MachineType DEF Sound
<1>5. Kept(m, R, e) /\ e.s.len = m.s.len /\ (e.ret = "OK" => e.s.cap > m.s.len + n)
  BY <1>4, WritePrepared
<1>6. CASE e.ret # "OK"
  BY <1>3, <1>5, <1>6
<1>7. CASE e.ret = "OK"
  <2>1. Roomy(e, R) /\ e.s.len + n < e.s.cap /\ e.s.cap > 0 /\ e.s.buf \in Nat /\ idx <= e.s.len
    BY <1>4, <1>5, <1>7, MachineType DEF Kept, Sound
  <2>2. PICK r \in Place : r = IF inside THEN [q EXCEPT !.blk = e.s.buf] ELSE q
    <3>1. [q EXCEPT !.blk = e.s.buf] \in Place
      BY <1>1, <2>1 DEF Place
    <3> QED
      BY <1>1, <3>1
  <2>3. o = str_commit_insert(e, idx, r, n)
    BY <1>3, <1>7, <2>2
  <2>4. Rewritten(e, R, o, e.s.len + n)
    BY <2>1, <2>3, InsertCommitted
  <2> QED
    BY <1>5, <1>7, <2>4, RewrittenKept
<1> QED
  BY <1>6, <1>7

-----------------------------------------------------------------------------
(* A block that is allocated for the time of one call.                      *)

\* The machine m with bytes in a block of their own.
Lodged(m, b, bytes, l) ==
  /\ {"heap", "s", "ret"} \subseteq DOMAIN l /\ b = FreshBlock(m.heap)
  /\ l.heap = Placed(m.heap, b, bytes) /\ l.s = m.s /\ l.ret = m.ret

LEMMA LodgedSound ==
  ASSUME NEW m, NEW R, Sound(m, R), NEW b, NEW bytes \in Seq(Cells), NEW l, Lodged(m, b, bytes, l)
  PROVE  /\ Sound(l, Placed(R, b, bytes))
         /\ b \in Nat \ {NULL} /\ b \notin DOMAIN m.heap /\ b \notin DOMAIN R
<1>1. PICK h, g, Q : h = m.heap /\ g = l.heap /\ Q = Placed(R, b, bytes)
  OBVIOUS
<1>2. IsHeap(h) /\ m.s \in StrState /\ m.ret \in Statuses
  BY <1>1, MachineType DEF Sound
<1>3. b \in Nat \ {NULL} /\ b \notin DOMAIN h
  BY <1>1, <1>2, FreshIsFree DEF Lodged
<1>4. g = Placed(h, b, bytes) /\ l.s = m.s /\ l.ret = m.ret /\ {"heap", "s", "ret"} \subseteq DOMAIN l
  BY <1>1 DEF Lodged
<1>5. /\ IsHeap(g) /\ DOMAIN g = DOMAIN h \cup {b} /\ g[b] = bytes
      /\ \A c \in DOMAIN h \ {b} : g[c] = h[c]
  <2>1. /\ IsHeap(Placed(h, b, bytes)) /\ DOMAIN Placed(h, b, bytes) = DOMAIN h \cup {b}
        /\ Placed(h, b, bytes)[b] = bytes
        /\ \A c \in DOMAIN h \ {b} : Placed(h, b, bytes)[c] = h[c]
    BY <1>2, <1>3, PlacedHeap, ZenonT(60)
  <2> QED
    BY <1>4, <2>1, Zenon
<1>6. DOMAIN Q = DOMAIN R \cup {b} /\ \A c \in DOMAIN Q : Q[c] = IF c = b THEN bytes ELSE R[c]
  <2>1. Q = [c \in DOMAIN R \cup {b} |-> IF c = b THEN bytes ELSE R[c]]
    BY <1>1, Zenon DEF Placed
  <2> QED
    BY <2>1
<1>7. /\ \A c \in DOMAIN R : c \in DOMAIN h /\ h[c] = R[c]
      /\ m.s.buf \notin DOMAIN R /\ (m.s.cap > 0 => h[m.s.buf][m.s.len + 1] = Nul)
      /\ IF m.s.cap = 0
         THEN m.s.buf = NULL /\ m.s.len = 0 /\ DOMAIN h = DOMAIN R
         ELSE /\ DOMAIN h = DOMAIN R \cup {m.s.buf}
              /\ Len(h[m.s.buf]) = m.s.cap /\ m.s.len < m.s.cap
  BY <1>1 DEF Sound, Roomy, Terminated
<1>8. IsMachine(l)
  BY <1>1, <1>2, <1>4, <1>5 DEF IsMachine
<1>9. \A c \in DOMAIN Q : c \in DOMAIN g /\ g[c] = Q[c]
  BY <1>3, <1>5, <1>6, <1>7
<1>10. l.s.buf \notin DOMAIN Q
  BY <1>3, <1>4, <1>6, <1>7
<1>11. m.s.cap # 0 => m.s.buf \in DOMAIN h \ {b}
  BY <1>3, <1>7
<1>12. IF l.s.cap = 0
       THEN l.s.buf = NULL /\ l.s.len = 0 /\ DOMAIN g = DOMAIN Q
       ELSE /\ DOMAIN g = DOMAIN Q \cup {l.s.buf}
            /\ Len(g[l.s.buf]) = l.s.cap /\ l.s.len < l.s.cap
  BY <1>4, <1>5, <1>6, <1>7, <1>11
<1>13. m.s.cap \in Nat /\ (l.s.cap > 0 => g[l.s.buf][l.s.len + 1] = Nul)
  BY <1>2, <1>4, <1>5, <1>7, <1>11, StateType
<1>14. Sound(l, Q)
  BY <1>1, <1>8, <1>9, <1>10, <1>12, <1>13 DEF Sound, Roomy, Terminated
<1> QED
  BY <1>1, <1>3, <1>7, <1>14

\* Its release gives m back when nothing else happened, and what was kept since.
LEMMA LodgingReleased ==
  ASSUME NEW m, NEW R, Sound(m, R), NEW b, NEW bytes \in Seq(Cells), NEW l, Lodged(m, b, bytes, l),
         NEW a, Kept(l, Placed(R, b, bytes), a), NEW o, {"heap", "s", "ret"} \subseteq DOMAIN o,
         o.heap = Released(a.heap, b), o.s = a.s, o.ret = a.ret
  PROVE  Kept(m, R, o)
<1>1. PICK h, g, r, Q : h = m.heap /\ g = a.heap /\ r = o.heap /\ Q = Placed(R, b, bytes)
  OBVIOUS
<1>2. IsHeap(h) /\ b \in Nat \ {NULL} /\ b \notin DOMAIN h /\ b \notin DOMAIN R
  BY <1>1, LodgedSound, MachineType DEF Sound
<1>3. /\ IsHeap(g) /\ a.s \in StrState /\ a.ret \in Statuses /\ a.s.cap >= m.s.cap
      /\ \A c \in DOMAIN Q : c \in DOMAIN g /\ g[c] = Q[c]
      /\ a.s.buf \notin DOMAIN Q /\ (a.s.cap > 0 => g[a.s.buf][a.s.len + 1] = Nul)
      /\ IF a.s.cap = 0
         THEN a.s.buf = NULL /\ a.s.len = 0 /\ DOMAIN g = DOMAIN Q
         ELSE /\ DOMAIN g = DOMAIN Q \cup {a.s.buf}
              /\ Len(g[a.s.buf]) = a.s.cap /\ a.s.len < a.s.cap
      /\ a.ret # "OK" => g = Placed(h, b, bytes) /\ a.s = m.s
  BY <1>1 DEF Kept, Sound, Roomy, IsMachine, Terminated, Lodged
<1>4. DOMAIN Q = DOMAIN R \cup {b} /\ \A c \in DOMAIN R : Q[c] = R[c]
  <2>1. Q = [c \in DOMAIN R \cup {b} |-> IF c = b THEN bytes ELSE R[c]]
    BY <1>1, Zenon DEF Placed
  <2> QED
    BY <1>2, <2>1
<1>5. IsHeap(r) /\ DOMAIN r = DOMAIN g \ {b} /\ \A c \in DOMAIN g \ {b} : r[c] = g[c]
  <2>1. /\ IsHeap(Released(g, b)) /\ DOMAIN Released(g, b) = DOMAIN g \ {b}
        /\ \A c \in DOMAIN g \ {b} : Released(g, b)[c] = g[c]
    BY <1>3, ReleasedHeap, ZenonT(60)
  <2> QED
    BY <1>1, <2>1, Zenon
<1>6. IsMachine(o)
  BY <1>1, <1>3, <1>5 DEF IsMachine
<1>7. /\ \A c \in DOMAIN R : c \in DOMAIN r /\ r[c] = R[c]
      /\ o.s.buf \notin DOMAIN R
  BY <1>2, <1>3, <1>4, <1>5
<1>8. a.s.cap # 0 => a.s.buf \in DOMAIN g \ {b}
  BY <1>3, <1>4
<1>9. IF o.s.cap = 0
      THEN o.s.buf = NULL /\ o.s.len = 0 /\ DOMAIN r = DOMAIN R
      ELSE /\ DOMAIN r = DOMAIN R \cup {o.s.buf}
           /\ Len(r[o.s.buf]) = o.s.cap /\ o.s.len < o.s.cap
  <2>1. CASE a.s.cap = 0
    <3>1. DOMAIN r = DOMAIN R
      BY <1>2, <1>3, <1>4, <1>5, <2>1
    <3> QED
      BY <1>3, <2>1, <3>1
  <2>2. CASE a.s.cap # 0
    <3>1. DOMAIN r = DOMAIN R \cup {a.s.buf}
      BY <1>2, <1>3, <1>4, <1>5, <1>8, <2>2
    <3>2. r[a.s.buf] = g[a.s.buf]
      BY <1>5, <1>8, <2>2
    <3> QED
      BY <1>3, <2>2, <3>1, <3>2
  <2> QED
    BY <2>1, <2>2
<1>10. o.s.cap > 0 => r[o.s.buf][o.s.len + 1] = Nul
  BY <1>3, <1>5, <1>8, StateType
<1>11. Sound(o, R)
  BY <1>1, <1>6, <1>7, <1>9, <1>10 DEF Sound, Roomy, Terminated
<1>12. o.ret # "OK" => r = h /\ o.s = m.s
  <2>1. Released(Placed(h, b, bytes), b) = h
    BY <1>2, PlacedReleased, ZenonT(60)
  <2> QED
    BY <1>1, <1>3, <2>1
<1> QED
  BY <1>1, <1>3, <1>11, <1>12 DEF Kept

LEMMA FormatAppended ==
  ASSUME NEW m, NEW R, Sound(m, R), m.ret = "OK", NEW text \in Seq(Bytes), NEW how,
         NEW o \in str_append_format_payload(m, text, how)
  PROVE  Kept(m, R, o)
<1>1. CASE how = "fails"
  <2>1. o = With(m, "ERR_FMT")
    BY <1>1 DEF str_append_format_payload
  <2> QED
    BY <2>1, StatusNames, Checked
<1>2. CASE how # "fails" /\ Len(text) < FormatStack
  <2>1. o \in str_append_unaliased_span(m, text)
    BY <1>2, Zenon DEF str_append_format_payload
  <2> QED
    BY <2>1, AppendUnaliased
<1>3. CASE how # "fails" /\ ~(Len(text) < FormatStack)
  <2>1. PICK c, b : c = str_calculate_capacity(m, Len(text)) /\ b = FreshBlock(m.heap)
    OBVIOUS
  <2>2. Passed(m, R, c) /\ Sound(c, R) /\ c.heap = m.heap /\ c.s = m.s
    BY <2>1, CapacityCalculated, PassedSound
  <2>4. PICK q :
          /\ IF q.ret = "OK"
             THEN \E a \in IF how = "renders" THEN str_append_unaliased_span(q, text) ELSE {With(q, "ERR_FMT")} :
                    o = [a EXCEPT !.heap = Released(a.heap, b)]
             ELSE o = q
          /\ IF c.ret = "OK"
             THEN q = With(c, "ERR_ALLOC") \/ q = [c EXCEPT !.heap = Malloc(c.heap, Len(text) + 1)]
             ELSE q = c
    <3>1. o \in Then(Then({c}, LAMBDA q : {With(q, "ERR_ALLOC"), [q EXCEPT !.heap = Malloc(@, Len(text) + 1)]}),
                     LAMBDA q : {[a EXCEPT !.heap = Released(@, FreshBlock(m.heap))] :
                                   a \in IF how = "renders" THEN str_append_unaliased_span(q, text)
                                         ELSE {With(q, "ERR_FMT")}})
      BY <1>3, <2>1, Zenon DEF str_append_format_payload
    <3>2. PICK q \in Then({c}, LAMBDA q : {With(q, "ERR_ALLOC"), [q EXCEPT !.heap = Malloc(@, Len(text) + 1)]}) :
            IF q.ret = "OK"
            THEN \E a \in IF how = "renders" THEN str_append_unaliased_span(q, text) ELSE {With(q, "ERR_FMT")} :
                   o = [a EXCEPT !.heap = Released(a.heap, b)]
            ELSE o = q
      BY <2>1, <3>1 DEF Then
    <3>3. IF c.ret = "OK" THEN q = With(c, "ERR_ALLOC") \/ q = [c EXCEPT !.heap = Malloc(c.heap, Len(text) + 1)]
          ELSE q = c
      BY <3>2 DEF Then
    <3> QED
      BY <3>2, <3>3, Zenon
  <2>6. CASE c.ret # "OK"
    BY <2>2, <2>4, <2>6 DEF Passed
  <2>7. CASE c.ret = "OK" /\ q = With(c, "ERR_ALLOC")
    <3>1. Kept(c, R, q) /\ q.ret = "ERR_ALLOC"
      BY <2>2, <2>7, StatusNames, Checked
    <3> QED
      BY <2>2, <2>4, <3>1, KeptSince
  <2>8. CASE c.ret = "OK" /\ q = [c EXCEPT !.heap = Malloc(c.heap, Len(text) + 1)]
    <3>0. PICK k \in Nat : k = Len(text) + 1
      <4>1. Len(text) + 1 \in Nat
        OBVIOUS
      <4> QED
        BY <4>1
    <3>1. PICK bytes : bytes = [i \in 1..k |-> Junk]
      OBVIOUS
    <3>2. bytes \in Seq(Cells)
      <4>1. bytes \in [1..k -> Cells]
        BY <3>1 DEF Cells
      <4> QED
        BY <3>0, <4>1
    <3>3. Lodged(m, b, bytes, q)
      <4>1. {"heap", "s", "ret"} \subseteq DOMAIN c
        BY <2>2 DEF Sound, Roomy, IsMachine
      <4>2. Malloc(c.heap, Len(text) + 1) = Placed(m.heap, b, bytes)
        BY <2>1, <2>2, <3>0, <3>1 DEF Malloc
      <4> QED
        BY <2>1, <2>2, <2>8, <4>1, <4>2 DEF Lodged
    <3>4. Sound(q, Placed(R, b, bytes))
      BY <3>2, <3>3, LodgedSound
    <3>5. q.ret = "OK"
      BY <2>8, <3>3 DEF Lodged
    <3>6. PICK a : /\ a \in IF how = "renders" THEN str_append_unaliased_span(q, text) ELSE {With(q, "ERR_FMT")}
                   /\ o = [a EXCEPT !.heap = Released(a.heap, b)]
      BY <2>4, <3>5
    <3>7. Kept(q, Placed(R, b, bytes), a)
      <4>1. CASE how = "renders"
        BY <3>4, <3>5, <3>6, <4>1, AppendUnaliased
      <4>2. CASE how # "renders"
        BY <3>4, <3>6, <4>2, StatusNames, Checked
      <4> QED
        BY <4>1, <4>2
    <3>8. {"heap", "s", "ret"} \subseteq DOMAIN a
      BY <3>7 DEF Kept, Sound, Roomy, IsMachine
    <3>9. /\ {"heap", "s", "ret"} \subseteq DOMAIN o
          /\ o.heap = Released(a.heap, b) /\ o.s = a.s /\ o.ret = a.ret
      BY <3>6, <3>8
    <3> QED
      BY <3>2, <3>3, <3>7, <3>9, LodgingReleased
  <2> QED
    BY <2>4, <2>6, <2>7, <2>8
<1> QED
  BY <1>1, <1>2, <1>3

\* A source outside the string stays where it is; one inside is copied out.
LEMMA ReplacementStaged ==
  ASSUME NEW m, NEW R, Sound(m, R), m.ret = "OK", NEW p \in Place, NEW n \in Nat,
         NEW q \in str_stage_replacement(m, p, n)
  PROVE  \/ q.ret # "OK" /\ Kept(m, R, q)
         \/ /\ q.ret = "OK" /\ Sound(q, R) /\ q.heap = m.heap /\ q.s = m.s
            /\ q.src \in Place /\ q.staged = NULL
         \/ /\ q.ret = "OK" /\ q.src \in Place
            /\ \E bytes \in Seq(Cells) : Lodged(m, q.staged, bytes, q)
<1>1. CASE n = 0 \/ ~str_find_allocation_offset(m.s, p)
  <2>1. q = Staged(m, m.heap, p, NULL)
    BY <1>1, Zenon DEF str_stage_replacement
  <2>2. /\ q.heap = m.heap /\ q.s = m.s /\ q.ret = m.ret /\ q.src = p /\ q.staged = NULL
        /\ {"heap", "s", "ret"} \subseteq DOMAIN q
    BY <2>1 DEF Staged
  <2>3. Sound(q, R)
    BY <2>2 DEF Sound, Roomy, IsMachine, Terminated
  <2> QED
    BY <2>2, <2>3
<1>2. CASE ~(n = 0 \/ ~str_find_allocation_offset(m.s, p))
  <2>1. PICK b, bytes, d : /\ b = FreshBlock(m.heap) /\ bytes = Load(m.heap, p, n)
                           /\ d = str_detect_overlap(m, p, n)
    OBVIOUS
  <2>2. bytes \in Seq(Cells) /\ IsHeap(m.heap) /\ b \in Nat
    BY <2>1, LoadType, MachineType, FreshIsFree DEF Sound
  <2>3. /\ Passed(m, R, d) /\ Sound(d, R) /\ d.heap = m.heap /\ d.s = m.s
    BY <2>1, OverlapDetected, PassedSound
  <2>4. q \in Then({d}, LAMBDA o : {With(o, "ERR_ALLOC"),
                                    Staged(o, Placed(m.heap, FreshBlock(m.heap), Load(m.heap, p, n)),
                                           At(FreshBlock(m.heap), 0), FreshBlock(m.heap))})
    BY <1>2, <2>1, Zenon DEF str_stage_replacement
  <2>5. IF d.ret = "OK" THEN q = With(d, "ERR_ALLOC") \/ q = Staged(d, Placed(m.heap, b, bytes), At(b, 0), b)
        ELSE q = d
    BY <2>1, <2>4 DEF Then
  <2>6. CASE d.ret # "OK"
    BY <2>3, <2>5, <2>6 DEF Passed
  <2>7. CASE q = With(d, "ERR_ALLOC")
    <3>1. Kept(d, R, q) /\ q.ret = "ERR_ALLOC"
      BY <2>3, <2>7, StatusNames, Checked
    <3> QED
      BY <2>3, <3>1, KeptSince
  <2>8. CASE d.ret = "OK" /\ q = Staged(d, Placed(m.heap, b, bytes), At(b, 0), b)
    <3>1. /\ q.heap = Placed(m.heap, b, bytes) /\ q.s = d.s /\ q.ret = d.ret /\ q.src = At(b, 0)
          /\ q.staged = b /\ {"heap", "s", "ret"} \subseteq DOMAIN q
      BY <2>8 DEF Staged
    <3>2. At(b, 0) \in Place
      BY <2>2, AtType
    <3>3. Lodged(m, q.staged, bytes, q)
      BY <2>1, <2>3, <2>8, <3>1 DEF Lodged
    <3> QED
      BY <2>2, <2>8, <3>1, <3>2, <3>3
  <2> QED
    BY <2>5, <2>6, <2>7, <2>8
<1> QED
  BY <1>1, <1>2

\* The buffer made large enough and the replacement written into it.
Replacing(m, idx, k, p, n) ==
  Then(str_ensure_capacity(m, (m.s.len - k) + n + 1),
       LAMBDA e : {str_commit_replacement(e, idx, k, p, n)})

LEMMA ReplacementWritten ==
  ASSUME NEW m, NEW R, Sound(m, R), m.ret = "OK", NEW p \in Place, NEW n \in Nat, NEW k \in Nat,
         NEW idx \in Nat, idx + k <= m.s.len, (m.s.len - k) + n + 1 \in 1..SizeMax,
         NEW g \in Replacing(m, idx, k, p, n)
  PROVE  Kept(m, R, g)
<1> DEFINE new == (m.s.len - k) + n
<1>1. PICK e \in str_ensure_capacity(m, new + 1) :
        IF e.ret = "OK" THEN g = str_commit_replacement(e, idx, k, p, n) ELSE g = e
  BY DEF Replacing, Then
<1>2. Kept(m, R, e) /\ e.s.len = m.s.len /\ (e.ret = "OK" => e.s.cap >= new + 1)
  BY CapacityEnsured
<1>3. CASE e.ret # "OK"
  BY <1>1, <1>2, <1>3
<1>4. CASE e.ret = "OK"
  <2>1. /\ Roomy(e, R) /\ e.s.cap > 0 /\ idx + k <= e.s.len /\ (e.s.len - k) + n < e.s.cap
    <3>1. Roomy(e, R)
      BY <1>2 DEF Kept, Sound
    <3>2. e.s.cap \in Nat /\ m.s.len \in Nat
      BY <3>1, MachineType DEF Sound
    <3> QED
      BY <1>2, <1>4, <3>1, <3>2
  <2>2. Rewritten(e, R, g, (e.s.len - k) + n)
    BY <1>1, <1>4, <2>1, ReplacementCommitted
  <2> QED
    BY <1>2, <1>4, <2>2, RewrittenKept
<1> QED
  BY <1>3, <1>4

LEMMA ReplacedResized ==
  ASSUME NEW m, NEW R, Sound(m, R), m.ret = "OK", NEW p \in Place, NEW n \in Nat, NEW k \in Nat,
         NEW idx \in Nat, idx + k <= m.s.len, NEW o \in str_replace_resized_span(m, idx, k, p, n)
  PROVE  Kept(m, R, o)
<1> DEFINE new == (m.s.len - k) + n
<1>1. m.s.len \in Nat /\ new \in Nat
  <2>1. m.s.len \in Nat
    BY MachineType DEF Sound
  <2> QED
    BY <2>1
<1>2. PICK c : c = str_calculate_capacity(m, new)
  OBVIOUS
<1>3. PICK q :
        /\ IF c.ret = "OK" THEN q \in str_stage_replacement(c, p, n) ELSE q = c
        /\ IF q.ret = "OK"
           THEN \E g \in Then(str_ensure_capacity(q, new + 1),
                              LAMBDA e : {str_commit_replacement(e, idx, k, q.src, n)}) :
                  o = [heap |-> Released(g.heap, q.staged), s |-> g.s, ret |-> g.ret]
           ELSE o = q
  <2>1. o \in Then(Then({c}, LAMBDA r : str_stage_replacement(r, p, n)),
                   LAMBDA r : {[heap |-> Released(g.heap, r.staged), s |-> g.s, ret |-> g.ret] :
                                 g \in Then(str_ensure_capacity(r, new + 1),
                                            LAMBDA e : {str_commit_replacement(e, idx, k, r.src, n)})})
    BY <1>2, ZenonT(60) DEF str_replace_resized_span
  <2>2. PICK q \in Then({c}, LAMBDA r : str_stage_replacement(r, p, n)) :
          o \in IF q.ret = "OK"
                THEN {[heap |-> Released(g.heap, q.staged), s |-> g.s, ret |-> g.ret] :
                        g \in Then(str_ensure_capacity(q, new + 1),
                                   LAMBDA e : {str_commit_replacement(e, idx, k, q.src, n)})}
                ELSE {q}
    BY <2>1, Zenon DEF Then
  <2>3. IF c.ret = "OK" THEN q \in str_stage_replacement(c, p, n) ELSE q = c
    BY <2>2 DEF Then
  <2> QED
    BY <2>2, <2>3, Zenon
<1>4. /\ Passed(m, R, c) /\ Sound(c, R) /\ c.heap = m.heap /\ c.s = m.s
      /\ c.ret = "OK" => new + 1 \in 1..SizeMax
  <2>1. Passed(m, R, c) /\ (c.ret = "OK" => new < SizeMax)
    BY <1>1, <1>2, CapacityCalculated
  <2>2. new < SizeMax => new + 1 \in 1..SizeMax
    BY <1>1, StrApiAssumption
  <2> QED
    BY <2>1, <2>2, PassedSound
<1>5. CASE c.ret # "OK"
  BY <1>3, <1>4, <1>5 DEF Passed
<1>6. CASE c.ret = "OK" /\ q.ret # "OK"
  <2>1. Kept(c, R, q)
    BY <1>3, <1>4, <1>6, ReplacementStaged
  <2> QED
    BY <1>3, <1>4, <1>6, <2>1, KeptSince
<1>7. CASE c.ret = "OK" /\ q.ret = "OK"
  <2>1. \/ /\ Sound(q, R) /\ q.heap = c.heap /\ q.s = c.s
           /\ q.src \in Place /\ q.staged = NULL
        \/ /\ q.src \in Place
           /\ \E bytes \in Seq(Cells) : Lodged(c, q.staged, bytes, q)
    BY <1>3, <1>4, <1>7, ReplacementStaged
  <2>2. q.s = m.s
    BY <1>4, <2>1 DEF Lodged
  <2>3. PICK g : /\ g \in Replacing(q, idx, k, q.src, n)
                 /\ o = [heap |-> Released(g.heap, q.staged), s |-> g.s, ret |-> g.ret]
    BY <1>3, <1>7, <2>2, Zenon DEF Replacing
  <2>4. /\ o.heap = Released(g.heap, q.staged) /\ o.s = g.s /\ o.ret = g.ret
        /\ {"heap", "s", "ret"} \subseteq DOMAIN o
    BY <2>3
  <2>5. idx + k <= q.s.len /\ (q.s.len - k) + n + 1 \in 1..SizeMax
    BY <1>4, <1>7, <2>2
  <2>6. CASE Sound(q, R) /\ q.heap = c.heap /\ q.s = c.s /\ q.src \in Place /\ q.staged = NULL
    <3>1. Kept(q, R, g)
      BY <1>7, <2>3, <2>5, <2>6, ReplacementWritten
    <3>2. Sound(g, R) /\ IsHeap(g.heap)
      BY <3>1, MachineType DEF Kept, Sound
    <3>3. NULL \notin DOMAIN g.heap
      BY <3>2 DEF IsHeap
    <3>4. o.heap = g.heap
      <4>1. Released(g.heap, NULL) = g.heap
        BY <3>2, <3>3, ReleasedHeap
      <4> QED
        BY <2>4, <2>6, <4>1
    <3>5. IsMachine(o)
      BY <2>4, <3>2, <3>4 DEF IsMachine, Sound, Roomy
    <3>6. Sound(o, R)
      BY <2>4, <3>2, <3>4, <3>5 DEF Sound, Roomy, Terminated
    <3> QED
      BY <1>4, <2>2, <2>4, <2>6, <3>1, <3>4, <3>6 DEF Kept
  <2>7. ASSUME q.src \in Place, NEW bytes \in Seq(Cells), Lodged(c, q.staged, bytes, q)
        PROVE  Kept(m, R, o)
    <3>1. Sound(q, Placed(R, q.staged, bytes))
      BY <1>4, <2>7, LodgedSound
    <3>2. Kept(q, Placed(R, q.staged, bytes), g)
      BY <1>7, <2>3, <2>5, <2>7, <3>1, ReplacementWritten
    <3>3. Kept(c, R, o)
      BY <1>4, <2>4, <2>7, <3>2, LodgingReleased
    <3> QED
      BY <1>4, <3>3, KeptSince
  <2> QED
    BY <2>1, <2>6, <2>7
<1> QED
  BY <1>5, <1>6, <1>7

\* As many bytes as before: the terminator is not touched.
LEMMA ReplacedEqual ==
  ASSUME NEW m, NEW R, Sound(m, R), m.ret = "OK", NEW p \in Place, NEW n \in Nat, n > 0,
         NEW idx \in Nat, idx + n <= m.s.len, NEW o \in str_replace_equal_span(m, idx, p, n)
  PROVE  Kept(m, R, o)
<1>1. PICK d : d = str_detect_overlap(m, p, n)
  OBVIOUS
<1>2. IF d.ret = "OK" THEN o = str_move_bytes(d, idx, p, n) ELSE o = d
  BY <1>1 DEF str_replace_equal_span, Then
<1>3. Passed(m, R, d) /\ Sound(d, R) /\ d.heap = m.heap /\ d.s = m.s
  BY <1>1, OverlapDetected, PassedSound
<1>4. CASE d.ret # "OK"
  BY <1>2, <1>3, <1>4 DEF Passed
<1>5. CASE d.ret = "OK"
  <2>1. /\ Roomy(d, R) /\ d.s.len \in Nat /\ d.s.cap \in Nat /\ (d.s.cap > 0 => d.s.len < d.s.cap)
        /\ d.s.cap = 0 => d.s.len = 0
    <3>1. Roomy(d, R)
      BY <1>3 DEF Sound
    <3>2. d.s.cap = 0 => d.s.len = 0
      BY <3>1 DEF Roomy
    <3> QED
      BY <3>1, <3>2, MachineType
  <2>2. d.s.cap > 0 /\ idx + n <= d.s.len /\ idx + n <= d.s.cap
    BY <1>3, <2>1
  <2>3. /\ Roomy(o, R) /\ o.s = d.s /\ o.ret = d.ret
        /\ \A i \in 1..d.s.cap : i <= idx \/ i > idx + n => o.heap[d.s.buf][i] = d.heap[d.s.buf][i]
    BY <1>2, <1>5, <2>1, <2>2, MovedInside
  <2>4. d.s.len + 1 \in 1..d.s.cap /\ d.s.len + 1 > idx + n
    BY <2>1, <2>2
  <2>5. d.heap[d.s.buf][d.s.len + 1] = Nul
    BY <1>3, <2>2 DEF Sound, Terminated
  <2>6. Sound(o, R)
    BY <2>3, <2>4, <2>5 DEF Sound, Terminated
  <2> QED
    BY <1>3, <1>5, <2>1, <2>3, <2>6 DEF Kept
<1> QED
  BY <1>4, <1>5

LEMMA ReplacementApplied ==
  ASSUME NEW m, NEW R, Sound(m, R), m.ret = "OK", NEW p \in Place, NEW n \in Nat, NEW k \in Nat,
         n > 0 \/ k > 0, NEW idx \in Nat, idx + k <= m.s.len,
         NEW o \in str_apply_replacement(m, idx, k, p, n)
  PROVE  Kept(m, R, o)
<1>1. CASE k = n
  <2>1. o \in str_replace_equal_span(m, idx, p, n) /\ n > 0
    BY <1>1 DEF str_apply_replacement
  <2> QED
    BY <1>1, <2>1, ReplacedEqual
<1>2. CASE k # n
  <2>1. o \in str_replace_resized_span(m, idx, k, p, n)
    BY <1>2 DEF str_apply_replacement
  <2> QED
    BY <2>1, ReplacedResized
<1> QED
  BY <1>1, <1>2

LEMMA ContentGrown ==
  ASSUME NEW m, NEW R, Sound(m, R), m.ret = "OK", NEW n \in Nat, m.s.len < n, NEW byte \in Bytes,
         NEW o \in str_grow_content(m, n, byte)
  PROVE  Kept(m, R, o)
<1>1. PICK c : c = str_calculate_capacity(m, n)
  OBVIOUS
<1>2. PICK e : /\ IF c.ret = "OK" THEN e \in str_ensure_capacity(c, n + 1) ELSE e = c
               /\ IF e.ret = "OK" THEN o = str_extend_content(e, n, byte) ELSE o = e
  <2>1. o \in Then(Then({c}, LAMBDA q : str_ensure_capacity(q, n + 1)),
                   LAMBDA q : {str_extend_content(q, n, byte)})
    BY <1>1, Zenon DEF str_grow_content
  <2>2. PICK e \in Then({c}, LAMBDA q : str_ensure_capacity(q, n + 1)) :
          IF e.ret = "OK" THEN o = str_extend_content(e, n, byte) ELSE o = e
    BY <2>1 DEF Then
  <2>3. IF c.ret = "OK" THEN e \in str_ensure_capacity(c, n + 1) ELSE e = c
    BY <2>2 DEF Then
  <2> QED
    BY <2>2, <2>3, Zenon
<1>3. /\ Passed(m, R, c) /\ Sound(c, R) /\ c.heap = m.heap /\ c.s = m.s
      /\ c.ret = "OK" => n + 1 \in 1..SizeMax
  <2>1. Passed(m, R, c) /\ (c.ret = "OK" => n < SizeMax)
    BY <1>1, CapacityCalculated
  <2>2. n < SizeMax => n + 1 \in 1..SizeMax
    BY StrApiAssumption
  <2> QED
    BY <2>1, <2>2, PassedSound
<1>4. CASE c.ret # "OK"
  BY <1>2, <1>3, <1>4 DEF Passed
<1>5. CASE c.ret = "OK"
  <2>1. Kept(c, R, e) /\ e.s.len = m.s.len /\ (e.ret = "OK" => e.s.cap >= n + 1)
    BY <1>2, <1>3, <1>5, CapacityEnsured
  <2>2. Kept(m, R, e)
    BY <1>3, <2>1, KeptSince
  <2>3. CASE e.ret # "OK"
    BY <1>2, <2>2, <2>3
  <2>4. CASE e.ret = "OK"
    <3>1. Roomy(e, R) /\ e.s.cap \in Nat
      BY <2>1, MachineType DEF Kept, Sound
    <3>2. e.s.cap > 0 /\ e.s.len < n /\ n < e.s.cap
      BY <2>1, <2>4, <3>1
    <3>3. Rewritten(e, R, o, n)
      BY <1>2, <2>4, <3>1, <3>2, ContentExtended
    <3> QED
      BY <2>2, <2>4, <3>3, RewrittenKept
  <2> QED
    BY <2>3, <2>4
<1> QED
  BY <1>4, <1>5

-----------------------------------------------------------------------------
(* Calls that give the buffer, or a part of it, up.                         *)

\* A sound string, and nothing changed when the call fails.
Answered(m, R, o) ==
  /\ Sound(o, R)
  /\ o.ret # "OK" => o.heap = m.heap /\ o.s = m.s

LEMMA Shrunk ==
  ASSUME NEW m, NEW R, Sound(m, R), m.ret = "OK", m.s.cap > 0, NEW n, n = m.s.len + 1,
         NEW o \in str_shrink_heap(m, n)
  PROVE  Answered(m, R, o)
<1>1. n \in 1..SizeMax /\ m.s.len < n
  <2>1. m.s.len \in Nat /\ m.s.cap \in Nat /\ m.s.len < m.s.cap /\ m.s.cap <= SizeMax /\ SizeMax \in Nat
    BY MachineType, StateType DEF Sound
  <2> QED
    BY <2>1
<1>2. \/ o = m \/ o = With(m, "ERR_ALLOC")
      \/ \E a \in Realloc(m.heap, m.s.buf, n) : o = Rehoused(m, a, n)
  BY DEF str_shrink_heap, Rehoused
<1>3. CASE o = m
  BY <1>3 DEF Answered
<1>4. CASE o = With(m, "ERR_ALLOC")
  BY <1>4, StatusNames, Checked DEF Answered, Kept
<1>5. ASSUME NEW a \in Realloc(m.heap, m.s.buf, n), o = Rehoused(m, a, n)
      PROVE  Answered(m, R, o)
  <2>1. Moved(m, R, a, n)
    BY <1>1, ReallocMoves
  <2>2. o = Rehoused(m, a, n)
    BY <1>5
  <2>3. Sound(o, R)
    BY <1>1, <2>1, <2>2, BufferMoved
  <2>4. o.ret = m.ret
    BY <1>1, <2>1, <2>2, BufferMoved
  <2> QED
    BY <2>3, <2>4 DEF Answered
<1> QED
  BY <1>2, <1>3, <1>4, <1>5

LEMMA EmptyState == STR_EMPTY \in StrState /\ STR_EMPTY.cap = 0 /\ STR_EMPTY.len = 0 /\ STR_EMPTY.buf = NULL
BY StrApiAssumption, StatusNames DEF STR_EMPTY, StrState, Size, NULL

\* A string with status s.status that owns nothing, next to the blocks R.
LEMMA EmptySound ==
  ASSUME NEW o, {"heap", "s", "ret"} \subseteq DOMAIN o, NEW R, IsHeap(o.heap), o.ret \in Statuses,
         o.s = STR_EMPTY, DOMAIN o.heap = DOMAIN R, \A b \in DOMAIN R : o.heap[b] = R[b]
  PROVE  Sound(o, R)
<1>1. IsMachine(o)
  BY EmptyState DEF IsMachine
<1>2. o.s.buf \notin DOMAIN R
  BY EmptyState DEF IsHeap
<1> QED
  BY <1>1, <1>2, EmptyState DEF Sound, Roomy, Terminated

LEMMA DiscardedSound ==
  ASSUME NEW m, NEW R, Sound(m, R)
  PROVE  /\ Sound(Discarded(m), R) /\ Discarded(m).ret = m.ret /\ Discarded(m).s = STR_EMPTY
         /\ Discarded(m).heap = Released(m.heap, m.s.buf)
<1>1. PICK h, b, o : h = m.heap /\ b = m.s.buf /\ o = Discarded(m)
  OBVIOUS
<1>2. /\ {"heap", "s", "ret"} \subseteq DOMAIN m /\ IsHeap(h) /\ m.ret \in Statuses
      /\ \A c \in DOMAIN R : c \in DOMAIN h /\ h[c] = R[c]
      /\ b \notin DOMAIN R
      /\ IF m.s.cap = 0 THEN b = NULL /\ DOMAIN h = DOMAIN R ELSE DOMAIN h = DOMAIN R \cup {b}
  BY <1>1 DEF Sound, Roomy, IsMachine
<1>3. /\ o.heap = Released(h, b) /\ o.s = STR_EMPTY /\ o.ret = m.ret
      /\ {"heap", "s", "ret"} \subseteq DOMAIN o
  BY <1>1, <1>2 DEF Discarded
<1>4. /\ IsHeap(Released(h, b)) /\ DOMAIN Released(h, b) = DOMAIN h \ {b}
      /\ \A c \in DOMAIN h \ {b} : Released(h, b)[c] = h[c]
  BY <1>2, ReleasedHeap, ZenonT(60)
<1>5. DOMAIN h \ {b} = DOMAIN R
  BY <1>2
<1>6. Sound(o, R)
  <2>1. IsHeap(o.heap) /\ DOMAIN o.heap = DOMAIN R
    BY <1>3, <1>4, <1>5
  <2>2. \A c \in DOMAIN R : o.heap[c] = R[c]
    BY <1>2, <1>3, <1>4, <1>5
  <2> QED
    BY <1>2, <1>3, <2>1, <2>2, EmptySound
<1> QED
  BY <1>1, <1>3, <1>6

\* The scratch string of a copy owns nothing, and every block is another's.
LEMMA Copied ==
  ASSUME NEW m, NEW R, Sound(m, R), m.ret = "OK", NEW source \in StrState, NEW o \in CopyOf(m, source)
  PROVE  Answered(m, R, o)
<1>1. PICK h, b, e, p : /\ h = m.heap /\ b = m.s.buf /\ e = [m EXCEPT !.s = STR_EMPTY]
                        /\ p = At(source.buf, 0)
  OBVIOUS
<1>2. /\ {"heap", "s", "ret"} \subseteq DOMAIN m /\ IsHeap(h) /\ m.ret \in Statuses
      /\ \A c \in DOMAIN R : c \in DOMAIN h /\ h[c] = R[c]
      /\ b \notin DOMAIN R
      /\ IF m.s.cap = 0 THEN b = NULL /\ DOMAIN h = DOMAIN R ELSE DOMAIN h = DOMAIN R \cup {b}
  BY <1>1 DEF Sound, Roomy, IsMachine
<1>3. e.heap = h /\ e.s = STR_EMPTY /\ e.ret = "OK" /\ {"heap", "s", "ret"} \subseteq DOMAIN e
  BY <1>1, <1>2
<1>4. Sound(e, h)
  BY <1>2, <1>3, EmptySound
<1>5. p \in Place /\ source.len \in Nat
  BY <1>1, StateType, AtType
<1>6. PICK q \in str_set_valid_span(e, p, source.len) :
        o = IF q.ret = "OK" THEN [q EXCEPT !.heap = Released(q.heap, b)]
            ELSE [q EXCEPT !.heap = Discarded(q).heap, !.s = m.s]
  BY <1>1 DEF CopyOf
<1>7. Kept(e, h, q)
  BY <1>3, <1>4, <1>5, SetSpan
<1>8. PICK g, s : g = q.heap /\ s = q.s
  OBVIOUS
<1>9. /\ {"heap", "s", "ret"} \subseteq DOMAIN q /\ IsHeap(g) /\ q.ret \in Statuses
      /\ s \in StrState /\ s.buf \notin DOMAIN h
      /\ \A c \in DOMAIN h : c \in DOMAIN g /\ g[c] = h[c]
      /\ IF s.cap = 0 THEN s.buf = NULL /\ s.len = 0 /\ DOMAIN g = DOMAIN h
         ELSE /\ DOMAIN g = DOMAIN h \cup {s.buf}
              /\ Len(g[s.buf]) = s.cap /\ s.len < s.cap
      /\ s.cap > 0 => g[s.buf][s.len + 1] = Nul
      /\ q.ret # "OK" => g = h /\ s = STR_EMPTY
  BY <1>3, <1>7, <1>8 DEF Kept, Sound, Roomy, IsMachine, Terminated
<1>10. CASE q.ret = "OK"
  <2>1. PICK r : r = Released(g, b)
    OBVIOUS
  <2>2. IsHeap(r) /\ DOMAIN r = DOMAIN g \ {b} /\ \A c \in DOMAIN g \ {b} : r[c] = g[c]
    <3>1. /\ IsHeap(Released(g, b)) /\ DOMAIN Released(g, b) = DOMAIN g \ {b}
          /\ \A c \in DOMAIN g \ {b} : Released(g, b)[c] = g[c]
      BY <1>9, ReleasedHeap, ZenonT(60)
    <3> QED
      BY <2>1, <3>1, Zenon
  <2>3. o.heap = r /\ o.s = s /\ o.ret = "OK" /\ {"heap", "s", "ret"} \subseteq DOMAIN o
    BY <1>6, <1>8, <1>9, <1>10, <2>1
  <2>4. DOMAIN h \ {b} = DOMAIN R
    BY <1>2
  <2>5. s.cap # 0 => s.buf # b
    <3>1. m.s.cap # 0 => b \in DOMAIN h
      BY <1>2
    <3>2. s.cap # 0 => s.buf \in DOMAIN g
      BY <1>9
    <3>3. NULL \notin DOMAIN g
      BY <1>9 DEF IsHeap
    <3> QED
      BY <1>2, <1>9, <3>1, <3>2, <3>3
  <2>6. s.cap # 0 => s.buf \in DOMAIN g \ {b}
    BY <1>9, <2>5
  <2>7. IsMachine(o)
    BY <1>9, <2>2, <2>3, StatusNames DEF IsMachine
  <2>8. s.buf \notin DOMAIN R /\ \A c \in DOMAIN R : c \in DOMAIN r /\ r[c] = R[c]
    BY <1>2, <1>9, <2>2
  <2>9. IF s.cap = 0 THEN DOMAIN r = DOMAIN R ELSE DOMAIN r = DOMAIN R \cup {s.buf} /\ r[s.buf] = g[s.buf]
    BY <1>9, <2>2, <2>4, <2>6
  <2>10. Roomy(o, R)
    BY <1>9, <2>3, <2>7, <2>8, <2>9 DEF Roomy
  <2>11. Terminated(o)
    BY <1>9, <2>3, <2>9, StateType DEF Terminated
  <2> QED
    BY <2>3, <2>10, <2>11 DEF Answered, Sound
<1>11. CASE q.ret # "OK"
  <2>1. o.heap = Discarded(q).heap /\ o.s = m.s /\ o.ret = q.ret /\ {"heap", "s", "ret"} \subseteq DOMAIN o
    BY <1>6, <1>9, <1>11
  <2>2. Discarded(q).heap = Released(q.heap, q.s.buf)
    BY <1>9 DEF Discarded
  <2>3. Released(h, NULL) = h
    <3>1. NULL \notin DOMAIN h
      BY <1>2 DEF IsHeap
    <3> QED
      BY <1>2, <3>1, ReleasedHeap
  <2>4. o.heap = h
    BY <1>8, <1>9, <1>11, <2>1, <2>2, <2>3, EmptyState
  <2>5. Sound(o, R)
    BY <1>1, <1>9, <2>1, <2>4 DEF Sound, Roomy, IsMachine, Terminated
  <2> QED
    BY <1>1, <2>1, <2>4, <2>5 DEF Answered
<1> QED
  BY <1>10, <1>11

-----------------------------------------------------------------------------
(* The end of a call: a mutator records its failure in the string.          *)

\* A sound string, and nothing changed but a status when the call fails.
Outcome(m, R, o) ==
  /\ Sound(o, R)
  /\ o.ret # "OK" => o.heap = m.heap /\ [m.s EXCEPT !.status = o.s.status] = o.s

LEMMA KeptAnswered ==
  ASSUME NEW m, NEW R, NEW o, Kept(m, R, o)
  PROVE  Answered(m, R, o)
BY DEF Kept, Answered

\* A string with a failure recorded answers with it.
LEMMA Refused ==
  ASSUME NEW m, NEW R, Sound(m, R), NEW o, o = With(m, m.s.status)
  PROVE  Outcome(m, R, o) /\ o.s.cap >= m.s.cap
<1>1. m.s.status \in Statuses /\ m.s \in StrState
  BY MachineType, StateType DEF Sound
<1>2. Kept(m, R, o) /\ o.heap = m.heap /\ o.s = m.s
  BY <1>1, Checked
<1>3. [m.s EXCEPT !.status = m.s.status] = m.s
  BY <1>1 DEF StrState
<1> QED
  BY <1>2, <1>3 DEF Kept, Outcome

LEMMA Recorded ==
  ASSUME NEW m, NEW R, m.s \in StrState, NEW q, Answered(m, R, q), NEW o, o = str_record_failure(q)
  PROVE  Outcome(m, R, o) /\ o.s.cap = q.s.cap /\ o.ret = q.ret
<1>1. CASE q.ret = "OK"
  BY <1>1 DEF str_record_failure, Answered, Outcome
<1>2. CASE q.ret # "OK"
  <2>1. {"heap", "s", "ret"} \subseteq DOMAIN q /\ q.s = m.s /\ q.heap = m.heap /\ q.ret \in Statuses
    BY <1>2 DEF Answered, Sound, Roomy, IsMachine
  <2>2. PICK t : t = [m.s EXCEPT !.status = q.ret]
    OBVIOUS
  <2>3. /\ t \in StrState /\ t.buf = m.s.buf /\ t.len = m.s.len /\ t.cap = m.s.cap /\ t.status = q.ret
    BY <2>1, <2>2 DEF StrState
  <2>4. o.heap = q.heap /\ o.s = t /\ o.ret = q.ret /\ {"heap", "s", "ret"} \subseteq DOMAIN o
    BY <1>2, <2>1, <2>2 DEF str_record_failure
  <2>5. Sound(o, R)
    BY <2>1, <2>3, <2>4 DEF Answered, Sound, Roomy, IsMachine, Terminated
  <2>6. [m.s EXCEPT !.status = o.s.status] = o.s
    BY <2>2, <2>3, <2>4
  <2> QED
    BY <2>1, <2>3, <2>4, <2>5, <2>6 DEF Outcome
<1> QED
  BY <1>1, <1>2

-----------------------------------------------------------------------------
(* The strings of the caller.                                               *)

StrInv == TypeOK /\ IsHeap(heap) /\ BufferSound /\ OneOwner

\* The blocks that are not x's buffer.
Others(x) == [b \in DOMAIN heap \ {str[x].buf} |-> heap[b]]

LEMMA MachineSound ==
  ASSUME StrInv, NEW x \in Strings
  PROVE  /\ Sound(Machine(x), Others(x)) /\ Machine(x).ret = "OK" /\ Machine(x).s = str[x]
         /\ Machine(x).heap = heap /\ str[x] \in StrState
<1>1. PICK m, R : m = Machine(x) /\ R = Others(x)
  OBVIOUS
<1>2. m.heap = heap /\ m.s = str[x] /\ m.ret = "OK" /\ {"heap", "s", "ret"} \subseteq DOMAIN m
  BY <1>1 DEF Machine
<1>3. str[x] \in StrState
  <2>1. str \in [Strings -> StrState]
    BY Zenon DEF StrInv, TypeOK, StrState, Size
  <2> QED
    BY <2>1
<1>4. IsMachine(m)
  BY <1>2, <1>3, StatusNames DEF IsMachine, StrInv
<1>5. DOMAIN R = DOMAIN heap \ {str[x].buf} /\ \A b \in DOMAIN R : R[b] = heap[b]
  <2>1. R = [b \in DOMAIN heap \ {str[x].buf} |-> heap[b]]
    BY <1>1, Zenon DEF Others
  <2> QED
    BY <2>1
<1>6. IF str[x].cap = 0 THEN str[x].buf = NULL /\ str[x].len = 0
      ELSE /\ str[x].buf \in DOMAIN heap /\ Len(heap[str[x].buf]) = str[x].cap
           /\ str[x].len < str[x].cap /\ heap[str[x].buf][str[x].len + 1] = Nul
  <2>1. BufferSound
    BY DEF StrInv
  <2> QED
    BY <2>1, Zenon DEF BufferSound
<1>7. NULL \notin DOMAIN heap
  BY DEF StrInv, IsHeap
<1>8. Roomy(m, R)
  BY <1>2, <1>4, <1>5, <1>6, <1>7 DEF Roomy
<1>9. Terminated(m)
  BY <1>2, <1>3, <1>6, StateType DEF Terminated
<1> QED
  BY <1>1, <1>2, <1>3, <1>8, <1>9 DEF Sound

\* The call on x ended in o.
Ran(x, o) ==
  /\ str' = [str EXCEPT ![x] = o.s] /\ heap' = o.heap /\ detached' = detached
  /\ call'.ret = o.ret /\ call'.x = x

\* The calls that may lower the capacity of the string they are made on.
Lowering == {"deinit", "copy", "shrink_to_fit"}

\* What a call on x alone does.
Step(x) ==
  \E o : /\ Ran(x, o) /\ Outcome(Machine(x), Others(x), o)
         /\ call'.op \in Lowering \/ o.s.cap >= str[x].cap

\* The owner of a block other than x's buffer.
LEMMA OthersOwned ==
  ASSUME StrInv, NEW x \in Strings
  PROVE  /\ \A y \in Strings \ {x} : str[y].buf # NULL => str[y].buf \in DOMAIN Others(x)
         /\ detached \subseteq DOMAIN Others(x)
         /\ \A b \in DOMAIN Others(x) : b \in detached \/ \E y \in Strings \ {x} : b = str[y].buf
         /\ \A b \in DOMAIN Others(x) : Others(x)[b] = heap[b] /\ b \in DOMAIN heap
<1>1. DOMAIN Others(x) = DOMAIN heap \ {str[x].buf} /\ \A b \in DOMAIN Others(x) : Others(x)[b] = heap[b]
  BY DEF Others
<1>2. /\ DOMAIN heap = {str[y].buf : y \in {z \in Strings : str[z].buf # NULL}} \cup detached
      /\ \A y \in Strings : str[y].buf # NULL => str[y].buf \notin detached
      /\ \A y, z \in Strings : str[y].buf # NULL /\ str[z].buf # NULL /\ str[y].buf = str[z].buf => y = z
  BY DEF StrInv, OneOwner
<1>3. \A y \in Strings : str[y].buf # NULL => str[y].buf \in DOMAIN heap
  BY <1>2
<1>4. detached \subseteq DOMAIN heap /\ NULL \notin DOMAIN heap
  BY DEF StrInv, TypeOK, IsHeap
<1> QED
  BY <1>1, <1>2, <1>3, <1>4

LEMMA StepKeeps ==
  ASSUME StrInv, NEW x \in Strings, Step(x)
  PROVE  StrInv'
<1>1. PICK o : Ran(x, o) /\ Sound(o, Others(x))
  BY DEF Step, Outcome
<1>2. PICK R : R = Others(x)
  OBVIOUS
<1>3. /\ \A y \in Strings \ {x} : str[y].buf # NULL => str[y].buf \in DOMAIN R
      /\ detached \subseteq DOMAIN R
      /\ \A b \in DOMAIN R : b \in detached \/ \E y \in Strings \ {x} : b = str[y].buf
      /\ \A b \in DOMAIN R : R[b] = heap[b] /\ b \in DOMAIN heap
  BY <1>2, OthersOwned
<1>4. /\ o.s \in StrState /\ IsHeap(heap')
      /\ \A b \in DOMAIN R : b \in DOMAIN heap' /\ heap'[b] = R[b]
      /\ o.s.buf \notin DOMAIN R
      /\ IF o.s.cap = 0 THEN o.s.buf = NULL /\ o.s.len = 0 /\ DOMAIN heap' = DOMAIN R
         ELSE /\ DOMAIN heap' = DOMAIN R \cup {o.s.buf}
              /\ Len(heap'[o.s.buf]) = o.s.cap /\ o.s.len < o.s.cap
      /\ o.s.cap > 0 => heap'[o.s.buf][o.s.len + 1] = Nul
  BY <1>1, <1>2 DEF Sound, Roomy, IsMachine, Terminated, Ran
<1>5. str \in [Strings -> StrState]
  BY Zenon DEF StrInv, TypeOK, StrState, Size
<1>6. /\ str' \in [Strings -> StrState] /\ str'[x] = o.s /\ \A y \in Strings \ {x} : str'[y] = str[y]
  BY <1>1, <1>4, <1>5 DEF Ran
<1>7. detached' = detached /\ NULL \notin DOMAIN heap'
  BY <1>1, <1>4 DEF Ran, IsHeap
<1>8. TypeOK'
  <2>1. (str \in [Strings -> [buf : Nat, len : 0..SizeMax, cap : 0..SizeMax, status : Statuses]])'
    BY <1>6, Zenon DEF StrState, Size
  <2>2. DOMAIN heap' \subseteq Nat \ {NULL} /\ \A b \in DOMAIN heap' : heap'[b] \in Seq(Bytes \cup {Junk})
    BY <1>4, Zenon DEF IsHeap, Cells
  <2>3. detached' \subseteq DOMAIN heap'
    BY <1>3, <1>4, <1>7
  <2> QED
    BY <2>1, <2>2, <2>3, Zenon DEF TypeOK
<1>9. BufferSound'
  <2>1. ASSUME NEW y \in Strings
        PROVE  IF str'[y].cap = 0 THEN str'[y].buf = NULL /\ str'[y].len = 0
               ELSE /\ str'[y].buf \in DOMAIN heap' /\ Len(heap'[str'[y].buf]) = str'[y].cap
                    /\ str'[y].len < str'[y].cap /\ heap'[str'[y].buf][str'[y].len + 1] = Nul
    <3>1. CASE y = x
      BY <1>4, <1>6, <3>1, StateType
    <3>2. CASE y # x
      <4>1. IF str[y].cap = 0 THEN str[y].buf = NULL /\ str[y].len = 0
            ELSE /\ str[y].buf \in DOMAIN heap /\ Len(heap[str[y].buf]) = str[y].cap
                 /\ str[y].len < str[y].cap /\ heap[str[y].buf][str[y].len + 1] = Nul
        <5>1. BufferSound
          BY DEF StrInv
        <5> QED
          BY <5>1, Zenon DEF BufferSound
      <4>2. NULL \notin DOMAIN heap
        BY DEF StrInv, IsHeap
      <4>3. str[y].cap # 0 => str[y].buf \in DOMAIN R
        BY <1>3, <3>2, <4>1, <4>2
      <4> QED
        BY <1>3, <1>4, <1>6, <3>2, <4>1, <4>3
    <3> QED
      BY <3>1, <3>2
  <2> QED
    BY <2>1, Zenon DEF BufferSound
<1>10. OneOwner'
  <2>1. str'[x].buf # NULL => str'[x].buf \in DOMAIN heap' /\ str'[x].buf \notin DOMAIN R
    BY <1>4, <1>6
  <2>2. \A y \in Strings \ {x} : str'[y].buf # NULL => str'[y].buf \in DOMAIN R
    BY <1>3, <1>6
  <2>3. \A b \in DOMAIN heap' : b \in DOMAIN R \/ b = str'[x].buf
    BY <1>4, <1>6
  <2>4. DOMAIN heap' = {str'[y].buf : y \in {z \in Strings : str'[z].buf # NULL}} \cup detached'
    <3>1. \A b \in DOMAIN heap' : b \in detached' \/ \E y \in Strings : str'[y].buf # NULL /\ b = str'[y].buf
      BY <1>3, <1>6, <1>7, <2>3
    <3>2. \A y \in Strings : str'[y].buf # NULL => str'[y].buf \in DOMAIN heap'
      BY <1>4, <2>1, <2>2
    <3>3. detached' \subseteq DOMAIN heap'
      BY <1>3, <1>4, <1>7
    <3> QED
      BY <3>1, <3>2, <3>3
  <2>5. \A y \in Strings : str'[y].buf # NULL => str'[y].buf \notin detached'
    <3>1. \A y \in Strings : str[y].buf # NULL => str[y].buf \notin detached
      BY DEF StrInv, OneOwner
    <3> QED
      BY <1>3, <1>6, <1>7, <2>1, <3>1
  <2>6. \A y, z \in Strings : str'[y].buf # NULL /\ str'[z].buf # NULL /\ str'[y].buf = str'[z].buf => y = z
    <3>1. \A y, z \in Strings : str[y].buf # NULL /\ str[z].buf # NULL /\ str[y].buf = str[z].buf => y = z
      BY DEF StrInv, OneOwner
    <3> QED
      BY <1>6, <2>1, <2>2, <3>1
  <2> QED
    BY <2>4, <2>5, <2>6 DEF OneOwner
<1> QED
  BY <1>4, <1>8, <1>9, <1>10, Zenon DEF StrInv

\* What a step of the system may not do.
FailureChangesNothing ==
  call'.ret # "OK" =>
    /\ heap' = heap
    /\ \A x \in Strings : [str[x] EXCEPT !.status = str'[x].status] = str'[x]

CapacityOnlyGivenUp ==
  \A x \in Strings :
    str'[x].cap < str[x].cap =>
      \/ call'.x = x /\ call'.op \in {"deinit", "move", "copy", "detach", "shrink_to_fit"}
      \/ call'.y = x /\ call'.op = "move"

LEMMA SameState ==
  ASSUME NEW s \in StrState
  PROVE  [s EXCEPT !.status = s.status] = s
BY DEF StrState

LEMMA StepSafe ==
  ASSUME StrInv, NEW x \in Strings, Step(x)
  PROVE  FailureChangesNothing /\ CapacityOnlyGivenUp
<1>1. PICK o : Ran(x, o) /\ Outcome(Machine(x), Others(x), o) /\ (call'.op \in Lowering \/ o.s.cap >= str[x].cap)
  BY DEF Step
<1>2. Machine(x).s = str[x] /\ Machine(x).heap = heap
  BY MachineSound
<1>3. str \in [Strings -> StrState]
  BY Zenon DEF StrInv, TypeOK, StrState, Size
<1>4. /\ str'[x] = o.s /\ \A y \in Strings \ {x} : str'[y] = str[y]
      /\ heap' = o.heap /\ call'.ret = o.ret /\ call'.x = x
  BY <1>1, <1>3 DEF Ran
<1>5. FailureChangesNothing
  <2>1. o.ret # "OK" => o.heap = heap /\ [str[x] EXCEPT !.status = o.s.status] = o.s
    BY <1>1, <1>2 DEF Outcome
  <2>2. \A y \in Strings : y = x \/ [str[y] EXCEPT !.status = str'[y].status] = str'[y]
    BY <1>3, <1>4, SameState
  <2> QED
    BY <1>4, <2>1, <2>2 DEF FailureChangesNothing
<1>6. CapacityOnlyGivenUp
  <2>1. \A y \in Strings \ {x} : ~(str'[y].cap < str[y].cap)
    BY <1>3, <1>4, StateType
  <2>2. str'[x].cap < str[x].cap => call'.op \in Lowering
    <3>1. o.s \in StrState
      BY <1>1 DEF Outcome, Sound, Roomy, IsMachine
    <3> QED
      BY <1>1, <1>3, <1>4, <3>1, StateType
  <2> QED
    BY <1>4, <2>1, <2>2 DEF CapacityOnlyGivenUp, Lowering
<1> QED
  BY <1>5, <1>6

-----------------------------------------------------------------------------
(* The calls, one by one.                                                   *)

Ended(c, o) ==
  /\ str' = [str EXCEPT ![c.x] = o.s] /\ heap' = o.heap
  /\ call' = [c EXCEPT !.ret = o.ret] /\ detached' = detached

IsCall(c, x, op) == c.x = x /\ c.op = op /\ {"x", "op", "ret"} \subseteq DOMAIN c

LEMMA CallStep ==
  ASSUME NEW x \in Strings, NEW op, NEW c, IsCall(c, x, op), NEW o, Ended(c, o),
         Outcome(Machine(x), Others(x), o), op \in Lowering \/ o.s.cap >= str[x].cap
  PROVE  Step(x)
<1>1. /\ {"x", "op", "ret"} \subseteq DOMAIN c /\ c.x = x /\ c.op = op
      /\ call' = [c EXCEPT !.ret = o.ret]
  BY DEF Ended, IsCall
<1>2. call'.x = x /\ call'.op = op /\ call'.ret = o.ret
  BY <1>1
<1>3. Ran(x, o)
  BY <1>1, <1>2 DEF Ended, Ran
<1> QED
  BY <1>2, <1>3 DEF Step

\* A mutator ends with the recorded status, or with what its body did.
Ends(x, op, o) ==
  \/ o = With(Machine(x), str[x].status)
  \/ \E q : /\ Answered(Machine(x), Others(x), q) /\ o = str_record_failure(q)
            /\ op \in Lowering \/ q.s.cap >= str[x].cap

LEMMA MutatorStep ==
  ASSUME StrInv, NEW x \in Strings, NEW op, NEW c, IsCall(c, x, op), NEW o, Ended(c, o), Ends(x, op, o)
  PROVE  Step(x)
<1>1. PICK m, R : m = Machine(x) /\ R = Others(x)
  OBVIOUS
<1>2. Sound(m, R) /\ m.s = str[x] /\ m.s \in StrState
  BY <1>1, MachineSound
<1>3. Outcome(m, R, o) /\ (op \in Lowering \/ o.s.cap >= str[x].cap)
  <2>1. CASE o = With(m, m.s.status)
    BY <1>2, <2>1, Refused
  <2>2. ASSUME NEW q, Answered(m, R, q), o = str_record_failure(q), op \in Lowering \/ q.s.cap >= str[x].cap
        PROVE  Outcome(m, R, o) /\ (op \in Lowering \/ o.s.cap >= str[x].cap)
    <3>1. Outcome(m, R, o) /\ o.s.cap = q.s.cap
      BY <1>2, <2>2, Recorded
    <3> QED
      BY <2>2, <3>1
  <2> QED
    BY <1>1, <1>2, <2>1, <2>2 DEF Ends
<1> QED
  BY <1>1, <1>3, CallStep

\* The body of a mutator that keeps the capacity.
LEMMA KeptEnds ==
  ASSUME StrInv, NEW x \in Strings, NEW op, NEW q, Kept(Machine(x), Others(x), q),
         NEW o, o = str_record_failure(q)
  PROVE  Ends(x, op, o)
<1>1. Answered(Machine(x), Others(x), q) /\ q.s.cap >= str[x].cap
  BY KeptAnswered, MachineSound DEF Kept
<1> QED
  BY <1>1 DEF Ends

\* The pointers a caller may pass.
LEMMA SpanTyped ==
  ASSUME StrInv, NEW x \in Strings, NEW span \in Spans(x) \cup CStrings(x)
  PROVE  Pointer(str[x], span) \in Place /\ span.n \in Nat
<1>1. str[x] \in StrState /\ str[x].cap \in Nat /\ str[x].buf \in Nat /\ SizeMax \in Nat
  BY MachineSound, StateType
<1>2. <<>> \in Seq(Bytes)
  OBVIOUS
<1>3. CASE span \in {NullSpan(0), NullSpan(1)}
  <2>1. span.at = "null" /\ span.n \in Nat
    BY <1>3 DEF NullSpan
  <2>2. Pointer(str[x], span) = At(NULL, 0) /\ At(NULL, 0) \in Place
    BY <2>1, AtType DEF Pointer, NULL
  <2> QED
    BY <2>1, <2>2
<1>4. ASSUME NEW w \in CallerSpans, span = CallerSpan(w)
      PROVE  Pointer(str[x], span) \in Place /\ span.n \in Nat
  <2>1. w \in Seq(Bytes) /\ Nul \in Bytes
    BY StrApiAssumption
  <2>2. span.at = "caller" /\ span.bytes = w /\ span.n = Len(w)
    BY <1>4 DEF CallerSpan
  <2>3. Append(w, Nul) \in Seq(Bytes) /\ Len(w) \in Nat
    BY <2>1
  <2>4. Pointer(str[x], span) = [blk |-> CALLER, off |-> 0, bytes |-> Append(w, Nul)]
    BY <2>2 DEF Pointer
  <2> QED
    BY <2>2, <2>3, <2>4 DEF Place, CALLER
<1>5. ASSUME NEW off \in 0..(str[x].cap - 1), NEW n \in 1..SizeMax, span = SelfSpan(off, n)
      PROVE  Pointer(str[x], span) \in Place /\ span.n \in Nat
  <2>1. span.at = "self" /\ span.off = off /\ span.n = n
    BY <1>5 DEF SelfSpan
  <2>2. off \in Nat /\ n \in Nat
    BY <1>1
  <2>3. At(str[x].buf, off) \in Place
    BY <1>1, <2>2, AtType
  <2>4. Pointer(str[x], span) = At(str[x].buf, off)
    BY <2>1 DEF Pointer
  <2> QED
    BY <2>1, <2>2, <2>3, <2>4
<1>6. 1 \in 1..SizeMax
  BY StrApiAssumption
<1> QED
  BY <1>3, <1>4, <1>5, <1>6 DEF Spans, CStrings

\* The mutators that measure a C string first.
LEMMA SetStep ==
  ASSUME StrInv, NEW x \in Strings, NEW span \in CStrings(x), Set(x, span)
  PROVE  Step(x)
<1> DEFINE m == Machine(x)
           p == Pointer(str[x], span)
           c == [Call("set", x) EXCEPT !.span = span]
<1>1. PICK R : R = Others(x)
  OBVIOUS
<1>2. m = Machine(x) /\ Sound(m, R) /\ m.ret = "OK" /\ m.s = str[x] /\ p \in Place
  BY <1>1, MachineSound, SpanTyped
<1>3. IsCall(c, x, "set")
  BY DEF Call, IsCall
<1>4. PICK o : /\ Ended(c, o)
               /\ \/ o = With(m, m.s.status)
                  \/ \E v \in str_measure_c_string_input(m, p) :
                       \E q \in IF v.ret = "OK" THEN str_set_valid_span(v, p, CStringLen(v, p)) ELSE {v} :
                         o = str_record_failure(q)
  <2>1. PICK o : Ended(c, o) /\ o \in CStringMutation(m, p, LAMBDA v : str_set_valid_span(v, p, CStringLen(v, p)))
    BY Zenon DEF Set, Run, Ended
  <2>2. \/ o = With(m, m.s.status)
        \/ \E v \in str_measure_c_string_input(m, p) :
             \E q \in IF v.ret = "OK" THEN str_set_valid_span(v, p, CStringLen(v, p)) ELSE {v} :
               o = str_record_failure(q)
    BY <2>1 DEF CStringMutation, Mutation, Then
  <2> QED
    BY <2>1, <2>2, Zenon
<1> HIDE DEF m, p, c
<1>5. ASSUME NEW v \in str_measure_c_string_input(m, p),
             NEW q \in IF v.ret = "OK" THEN str_set_valid_span(v, p, CStringLen(v, p)) ELSE {v}
      PROVE  Kept(m, R, q)
  <2>1. Passed(m, R, v) /\ (v.ret = "OK" => CStringLen(v, p) \in Nat)
    BY <1>2, CStringMeasured
  <2>2. Sound(v, R) /\ Kept(m, R, v) /\ v.heap = m.heap /\ v.s = m.s
    BY <2>1, PassedSound
  <2>3. v.ret = "OK" => Kept(v, R, q)
    BY <1>2, <1>5, <2>1, <2>2, SetSpan
  <2> QED
    BY <1>5, <2>2, <2>3, KeptSince
<1>6. Ends(x, "set", o)
  BY <1>1, <1>2, <1>4, <1>5, KeptEnds DEF Ends
<1> QED
  BY <1>3, <1>4, <1>6, MutatorStep

LEMMA AppendCStringStep ==
  ASSUME StrInv, NEW x \in Strings, NEW span \in CStrings(x), AppendCString(x, span)
  PROVE  Step(x)
<1> DEFINE m == Machine(x)
           p == Pointer(str[x], span)
           c == [Call("append", x) EXCEPT !.span = span]
<1>1. PICK R : R = Others(x)
  OBVIOUS
<1>2. m = Machine(x) /\ Sound(m, R) /\ m.ret = "OK" /\ m.s = str[x] /\ p \in Place
  BY <1>1, MachineSound, SpanTyped
<1>3. IsCall(c, x, "append")
  BY DEF Call, IsCall
<1>4. PICK o : /\ Ended(c, o)
               /\ \/ o = With(m, m.s.status)
                  \/ \E v \in str_measure_c_string_input(m, p) :
                       \E q \in IF v.ret = "OK" THEN str_append_valid_span(v, p, CStringLen(v, p)) ELSE {v} :
                         o = str_record_failure(q)
  <2>1. PICK o : Ended(c, o) /\ o \in CStringMutation(m, p, LAMBDA v : str_append_valid_span(v, p, CStringLen(v, p)))
    BY Zenon DEF AppendCString, Run, Ended
  <2>2. \/ o = With(m, m.s.status)
        \/ \E v \in str_measure_c_string_input(m, p) :
             \E q \in IF v.ret = "OK" THEN str_append_valid_span(v, p, CStringLen(v, p)) ELSE {v} :
               o = str_record_failure(q)
    BY <2>1 DEF CStringMutation, Mutation, Then
  <2> QED
    BY <2>1, <2>2, Zenon
<1> HIDE DEF m, p, c
<1>5. ASSUME NEW v \in str_measure_c_string_input(m, p),
             NEW q \in IF v.ret = "OK" THEN str_append_valid_span(v, p, CStringLen(v, p)) ELSE {v}
      PROVE  Kept(m, R, q)
  <2>1. Passed(m, R, v) /\ (v.ret = "OK" => CStringLen(v, p) \in Nat)
    BY <1>2, CStringMeasured
  <2>2. Sound(v, R) /\ Kept(m, R, v) /\ v.heap = m.heap /\ v.s = m.s
    BY <2>1, PassedSound
  <2>3. v.ret = "OK" => Kept(v, R, q)
    BY <1>2, <1>5, <2>1, <2>2, AppendSpan
  <2> QED
    BY <1>5, <2>2, <2>3, KeptSince
<1>6. Ends(x, "append", o)
  BY <1>1, <1>2, <1>4, <1>5, KeptEnds DEF Ends
<1> QED
  BY <1>3, <1>4, <1>6, MutatorStep

LEMMA AppendFmtStep ==
  ASSUME StrInv, NEW x \in Strings, NEW format \in CStrings(x), NEW text \in CallerSpans, NEW how,
         AppendFmt(x, format, text, how)
  PROVE  Step(x)
<1> DEFINE m == Machine(x)
           p == Pointer(str[x], format)
           c == [Call("append_fmt", x) EXCEPT !.span = format, !.text = text, !.how = how]
<1>1. PICK R : R = Others(x)
  OBVIOUS
<1>2. m = Machine(x) /\ Sound(m, R) /\ m.ret = "OK" /\ m.s = str[x] /\ text \in Seq(Bytes)
  BY <1>1, MachineSound, StrApiAssumption
<1>3. IsCall(c, x, "append_fmt")
  BY DEF Call, IsCall
<1>4. PICK o : /\ Ended(c, o)
               /\ \/ o = With(m, m.s.status)
                  \/ \E v \in str_measure_c_string_input(m, p) :
                       \E q \in IF v.ret = "OK" THEN str_append_format_payload(v, text, how) ELSE {v} :
                         o = str_record_failure(q)
  <2>1. PICK o : Ended(c, o) /\ o \in CStringMutation(m, p, LAMBDA v : str_append_format_payload(v, text, how))
    BY Zenon DEF AppendFmt, Run, Ended
  <2>2. \/ o = With(m, m.s.status)
        \/ \E v \in str_measure_c_string_input(m, p) :
             \E q \in IF v.ret = "OK" THEN str_append_format_payload(v, text, how) ELSE {v} :
               o = str_record_failure(q)
    BY <2>1 DEF CStringMutation, Mutation, Then
  <2> QED
    BY <2>1, <2>2, Zenon
<1> HIDE DEF m, p, c
<1>5. ASSUME NEW v \in str_measure_c_string_input(m, p),
             NEW q \in IF v.ret = "OK" THEN str_append_format_payload(v, text, how) ELSE {v}
      PROVE  Kept(m, R, q)
  <2>1. Sound(v, R) /\ Kept(m, R, v) /\ v.heap = m.heap /\ v.s = m.s
    BY <1>2, CStringMeasured, PassedSound
  <2>2. v.ret = "OK" => Kept(v, R, q)
    BY <1>2, <1>5, <2>1, FormatAppended
  <2> QED
    BY <1>5, <2>1, <2>2, KeptSince
<1>6. Ends(x, "append_fmt", o)
  BY <1>1, <1>2, <1>4, <1>5, KeptEnds DEF Ends
<1> QED
  BY <1>3, <1>4, <1>6, MutatorStep

\* The mutators that take n bytes of a span.
LEMMA SetNStep ==
  ASSUME StrInv, NEW x \in Strings, NEW span \in Spans(x), SetN(x, span)
  PROVE  Step(x)
<1> DEFINE m == Machine(x)
           p == Pointer(str[x], span)
           c == [Call("set_n", x) EXCEPT !.span = span]
           v == str_validate_source(m, span)
<1>1. PICK R : R = Others(x)
  OBVIOUS
<1>2. /\ m = Machine(x) /\ Sound(m, R) /\ m.ret = "OK" /\ m.s = str[x] /\ p \in Place /\ span.n \in Nat
      /\ Passed(m, R, v)
  <2>1. m = Machine(x) /\ Sound(m, R) /\ m.ret = "OK" /\ m.s = str[x]
    BY <1>1, MachineSound
  <2>2. Passed(m, R, v)
    BY <2>1, SourceValidated
  <2> QED
    BY <2>1, <2>2, SpanTyped
<1>3. IsCall(c, x, "set_n")
  BY DEF Call, IsCall
<1>4. PICK o : /\ Ended(c, o)
               /\ \/ o = With(m, m.s.status)
                  \/ \E q \in IF v.ret = "OK" THEN str_set_valid_span(v, p, span.n) ELSE {v} :
                       o = str_record_failure(q)
  <2>1. PICK o : Ended(c, o) /\ o \in SpanMutation(m, span, LAMBDA e : str_set_valid_span(e, p, span.n))
    BY Zenon DEF SetN, Run, Ended
  <2>2. \/ o = With(m, m.s.status)
        \/ \E q \in IF v.ret = "OK" THEN str_set_valid_span(v, p, span.n) ELSE {v} :
             o = str_record_failure(q)
    BY <2>1 DEF SpanMutation, Mutation, Then
  <2> QED
    BY <2>1, <2>2, Zenon
<1> HIDE DEF m, p, c, v
<1>5. ASSUME NEW q \in IF v.ret = "OK" THEN str_set_valid_span(v, p, span.n) ELSE {v}
      PROVE  Kept(m, R, q)
  <2>1. Sound(v, R) /\ Kept(m, R, v) /\ v.heap = m.heap /\ v.s = m.s
    BY <1>2, PassedSound
  <2>2. v.ret = "OK" => Kept(v, R, q)
    BY <1>2, <1>5, <2>1, SetSpan
  <2> QED
    BY <1>5, <2>1, <2>2, KeptSince
<1>6. Ends(x, "set_n", o)
  BY <1>1, <1>2, <1>4, <1>5, KeptEnds DEF Ends
<1> QED
  BY <1>3, <1>4, <1>6, MutatorStep

LEMMA AppendNStep ==
  ASSUME StrInv, NEW x \in Strings, NEW span \in Spans(x), AppendN(x, span)
  PROVE  Step(x)
<1> DEFINE m == Machine(x)
           p == Pointer(str[x], span)
           c == [Call("append_n", x) EXCEPT !.span = span]
           v == str_validate_source(m, span)
<1>1. PICK R : R = Others(x)
  OBVIOUS
<1>2. /\ m = Machine(x) /\ Sound(m, R) /\ m.ret = "OK" /\ m.s = str[x] /\ p \in Place /\ span.n \in Nat
      /\ Passed(m, R, v)
  <2>1. m = Machine(x) /\ Sound(m, R) /\ m.ret = "OK" /\ m.s = str[x]
    BY <1>1, MachineSound
  <2>2. Passed(m, R, v)
    BY <2>1, SourceValidated
  <2> QED
    BY <2>1, <2>2, SpanTyped
<1>3. IsCall(c, x, "append_n")
  BY DEF Call, IsCall
<1>4. PICK o : /\ Ended(c, o)
               /\ \/ o = With(m, m.s.status)
                  \/ \E q \in IF v.ret = "OK" THEN str_append_valid_span(v, p, span.n) ELSE {v} :
                       o = str_record_failure(q)
  <2>1. PICK o : Ended(c, o) /\ o \in SpanMutation(m, span, LAMBDA e : str_append_valid_span(e, p, span.n))
    BY Zenon DEF AppendN, Run, Ended
  <2>2. \/ o = With(m, m.s.status)
        \/ \E q \in IF v.ret = "OK" THEN str_append_valid_span(v, p, span.n) ELSE {v} :
             o = str_record_failure(q)
    BY <2>1 DEF SpanMutation, Mutation, Then
  <2> QED
    BY <2>1, <2>2, Zenon
<1> HIDE DEF m, p, c, v
<1>5. ASSUME NEW q \in IF v.ret = "OK" THEN str_append_valid_span(v, p, span.n) ELSE {v}
      PROVE  Kept(m, R, q)
  <2>1. Sound(v, R) /\ Kept(m, R, v) /\ v.heap = m.heap /\ v.s = m.s
    BY <1>2, PassedSound
  <2>2. v.ret = "OK" => Kept(v, R, q)
    BY <1>2, <1>5, <2>1, AppendSpan
  <2> QED
    BY <1>5, <2>1, <2>2, KeptSince
<1>6. Ends(x, "append_n", o)
  BY <1>1, <1>2, <1>4, <1>5, KeptEnds DEF Ends
<1> QED
  BY <1>3, <1>4, <1>6, MutatorStep

LEMMA InsertNStep ==
  ASSUME StrInv, NEW x \in Strings, NEW idx \in Nat, NEW span \in Spans(x), InsertN(x, idx, span)
  PROVE  Step(x)
<1> DEFINE m == Machine(x)
           p == Pointer(str[x], span)
           c == [Call("insert_n", x) EXCEPT !.idx = idx, !.span = span]
           v == str_validate_source(m, span)
           w == str_validate_span(v, v.s.len, idx, 0)
<1>1. PICK R : R = Others(x)
  OBVIOUS
<1>2. /\ m = Machine(x) /\ Sound(m, R) /\ m.ret = "OK" /\ m.s = str[x] /\ p \in Place /\ span.n \in Nat
      /\ Passed(m, R, v)
  <2>1. m = Machine(x) /\ Sound(m, R) /\ m.ret = "OK" /\ m.s = str[x]
    BY <1>1, MachineSound
  <2>2. Passed(m, R, v)
    BY <2>1, SourceValidated
  <2> QED
    BY <2>1, <2>2, SpanTyped
<1>3. IsCall(c, x, "insert_n")
  BY DEF Call, IsCall
<1>4. PICK o : /\ Ended(c, o)
               /\ \/ o = With(m, m.s.status)
                  \/ \E q : /\ o = str_record_failure(q)
                            /\ \/ v.ret # "OK" /\ q = v
                               \/ v.ret = "OK" /\ w.ret # "OK" /\ q = w
                               \/ /\ v.ret = "OK" /\ w.ret = "OK"
                                  /\ q \in IF span.n = 0 THEN {w} ELSE str_insert_span(w, idx, p, span.n)
  <2>1. PICK o : /\ Ended(c, o)
                 /\ o \in SpanMutation(m, span, LAMBDA e :
                            Then({str_validate_span(e, e.s.len, idx, 0)},
                                 LAMBDA f : IF span.n = 0 THEN {f} ELSE str_insert_span(f, idx, p, span.n)))
    BY Zenon DEF InsertN, Run, Ended
  <2>2. \/ o = With(m, m.s.status)
        \/ \E q : /\ o = str_record_failure(q)
                  /\ \/ v.ret # "OK" /\ q = v
                     \/ v.ret = "OK" /\ w.ret # "OK" /\ q = w
                     \/ /\ v.ret = "OK" /\ w.ret = "OK"
                        /\ q \in IF span.n = 0 THEN {w} ELSE str_insert_span(w, idx, p, span.n)
    BY <2>1 DEF SpanMutation, Mutation, Then
  <2> QED
    BY <2>1, <2>2, Zenon
<1>5. Passed(v, R, w) /\ (w.ret = "OK" => idx <= v.s.len)
  <2>1. Sound(v, R) /\ v.s.len \in Nat
    BY <1>2, PassedSound, MachineType DEF Sound
  <2>2. Passed(v, R, w) /\ (w.ret = "OK" => idx + 0 <= v.s.len)
    BY <2>1, SpanValidated
  <2> QED
    BY <2>2
<1> HIDE DEF m, p, c, v, w
<1>6. ASSUME NEW q, \/ v.ret # "OK" /\ q = v
                    \/ v.ret = "OK" /\ w.ret # "OK" /\ q = w
                    \/ /\ v.ret = "OK" /\ w.ret = "OK"
                       /\ q \in IF span.n = 0 THEN {w} ELSE str_insert_span(w, idx, p, span.n)
      PROVE  Kept(m, R, q)
  <2>1. /\ Sound(w, R) /\ Kept(m, R, v) /\ w.heap = m.heap /\ w.s = m.s /\ w.s = v.s
        /\ v.heap = m.heap /\ v.s = m.s /\ Kept(v, R, w)
    BY <1>2, <1>5, PassedSound
  <2>2. v.ret = "OK" /\ w.ret = "OK" => Kept(w, R, q)
    BY <1>2, <1>5, <1>6, <2>1, InsertSpan, KeptItself
  <2>3. Kept(m, R, w)
    BY <2>1, KeptSince
  <2> QED
    BY <1>6, <2>1, <2>2, <2>3, KeptSince
<1>7. Ends(x, "insert_n", o)
  BY <1>1, <1>2, <1>4, <1>6, KeptEnds DEF Ends
<1> QED
  BY <1>3, <1>4, <1>7, MutatorStep

LEMMA ReplaceViewStep ==
  ASSUME StrInv, NEW x \in Strings, NEW idx \in Nat, NEW k \in Nat,
         NEW span \in Spans(x), ReplaceView(x, idx, k, span)
  PROVE  Step(x)
<1> DEFINE m == Machine(x)
           p == Pointer(str[x], span)
           c == [Call("replace_view", x) EXCEPT !.idx = idx, !.k = k, !.span = span]
           v == str_validate_source(m, span)
           w == str_validate_span(v, v.s.len, idx, k)
<1>1. PICK R : R = Others(x)
  OBVIOUS
<1>2. /\ m = Machine(x) /\ Sound(m, R) /\ m.ret = "OK" /\ m.s = str[x] /\ p \in Place /\ span.n \in Nat
      /\ Passed(m, R, v)
  <2>1. m = Machine(x) /\ Sound(m, R) /\ m.ret = "OK" /\ m.s = str[x]
    BY <1>1, MachineSound
  <2>2. Passed(m, R, v)
    BY <2>1, SourceValidated
  <2> QED
    BY <2>1, <2>2, SpanTyped
<1>3. IsCall(c, x, "replace_view")
  BY DEF Call, IsCall
<1>4. PICK o : /\ Ended(c, o)
               /\ \/ o = With(m, m.s.status)
                  \/ \E q : /\ o = str_record_failure(q)
                            /\ \/ v.ret # "OK" /\ q = v
                               \/ v.ret = "OK" /\ w.ret # "OK" /\ q = w
                               \/ /\ v.ret = "OK" /\ w.ret = "OK"
                                  /\ q \in IF k = 0 /\ span.n = 0 THEN {w} ELSE str_apply_replacement(w, idx, k, p, span.n)
  <2>1. PICK o : /\ Ended(c, o)
                 /\ o \in SpanMutation(m, span, LAMBDA e :
                            Then({str_validate_span(e, e.s.len, idx, k)},
                                 LAMBDA f : IF k = 0 /\ span.n = 0 THEN {f} ELSE str_apply_replacement(f, idx, k, p, span.n)))
    BY Zenon DEF ReplaceView, Run, Ended
  <2>2. \/ o = With(m, m.s.status)
        \/ \E q : /\ o = str_record_failure(q)
                  /\ \/ v.ret # "OK" /\ q = v
                     \/ v.ret = "OK" /\ w.ret # "OK" /\ q = w
                     \/ /\ v.ret = "OK" /\ w.ret = "OK"
                        /\ q \in IF k = 0 /\ span.n = 0 THEN {w} ELSE str_apply_replacement(w, idx, k, p, span.n)
    BY <2>1 DEF SpanMutation, Mutation, Then
  <2> QED
    BY <2>1, <2>2, Zenon
<1>5. Passed(v, R, w) /\ (w.ret = "OK" => idx + k <= v.s.len)
  <2>1. Sound(v, R) /\ v.s.len \in Nat
    BY <1>2, PassedSound, MachineType DEF Sound
  <2>2. Passed(v, R, w) /\ (w.ret = "OK" => idx + k <= v.s.len)
    BY <2>1, SpanValidated
  <2> QED
    BY <2>2
<1> HIDE DEF m, p, c, v, w
<1>6. ASSUME NEW q, \/ v.ret # "OK" /\ q = v
                    \/ v.ret = "OK" /\ w.ret # "OK" /\ q = w
                    \/ /\ v.ret = "OK" /\ w.ret = "OK"
                       /\ q \in IF k = 0 /\ span.n = 0 THEN {w} ELSE str_apply_replacement(w, idx, k, p, span.n)
      PROVE  Kept(m, R, q)
  <2>1. /\ Sound(w, R) /\ Kept(m, R, v) /\ w.heap = m.heap /\ w.s = m.s /\ w.s = v.s
        /\ v.heap = m.heap /\ v.s = m.s /\ Kept(v, R, w)
    BY <1>2, <1>5, PassedSound
  <2>2. v.ret = "OK" /\ w.ret = "OK" => Kept(w, R, q)
    BY <1>2, <1>5, <1>6, <2>1, ReplacementApplied, KeptItself
  <2>3. Kept(m, R, w)
    BY <2>1, KeptSince
  <2> QED
    BY <1>6, <2>1, <2>2, <2>3, KeptSince
<1>7. Ends(x, "replace_view", o)
  BY <1>1, <1>2, <1>4, <1>6, KeptEnds DEF Ends
<1> QED
  BY <1>3, <1>4, <1>7, MutatorStep

\* The mutators that take no span.
LEMMA AppendCharStep ==
  ASSUME StrInv, NEW x \in Strings, NEW byte \in Bytes, AppendChar(x, byte)
  PROVE  Step(x)
<1> DEFINE m == Machine(x)
           c == [Call("append_char", x) EXCEPT !.fill = byte]
<1>1. PICK R : R = Others(x)
  OBVIOUS
<1>2. m = Machine(x) /\ Sound(m, R) /\ m.ret = "OK" /\ m.s = str[x] /\ <<byte>> \in Seq(Bytes)
  BY <1>1, MachineSound
<1>3. IsCall(c, x, "append_char")
  BY DEF Call, IsCall
<1>4. PICK o : /\ Ended(c, o)
               /\ \/ o = With(m, m.s.status)
                  \/ \E q \in str_append_unaliased_span(m, <<byte>>) : o = str_record_failure(q)
  BY Zenon DEF AppendChar, Run, Ended, Mutation
<1> HIDE DEF m, c
<1>5. ASSUME NEW q \in str_append_unaliased_span(m, <<byte>>)
      PROVE  Kept(m, R, q)
  BY <1>2, AppendUnaliased
<1>6. Ends(x, "append_char", o)
  BY <1>1, <1>2, <1>4, <1>5, KeptEnds DEF Ends
<1> QED
  BY <1>3, <1>4, <1>6, MutatorStep

LEMMA ReserveStep ==
  ASSUME StrInv, NEW x \in Strings, NEW n \in Nat, Reserve(x, n)
  PROVE  Step(x)
<1> DEFINE m == Machine(x)
           c == [Call("reserve", x) EXCEPT !.k = n]
           v == str_calculate_capacity(m, n)
<1>1. PICK R : R = Others(x)
  OBVIOUS
<1>2. m = Machine(x) /\ Sound(m, R) /\ m.ret = "OK" /\ m.s = str[x]
  BY <1>1, MachineSound
<1>3. IsCall(c, x, "reserve")
  BY DEF Call, IsCall
<1>4. PICK o : /\ Ended(c, o)
               /\ \/ o = With(m, m.s.status)
                  \/ \E q : /\ o = str_record_failure(q)
                            /\ \/ q = m
                               \/ v.ret # "OK" /\ q = v
                               \/ v.ret = "OK" /\ q \in str_ensure_capacity(v, n + 1)
  <2>1. PICK o : /\ Ended(c, o)
                 /\ o \in Mutation(m, IF n = 0 THEN {m}
                                      ELSE Then({v}, LAMBDA e : str_ensure_capacity(e, n + 1)))
    BY Zenon DEF Reserve, Run, Ended
  <2>2. \/ o = With(m, m.s.status)
        \/ \E q : /\ o = str_record_failure(q)
                  /\ \/ q = m
                     \/ v.ret # "OK" /\ q = v
                     \/ v.ret = "OK" /\ q \in str_ensure_capacity(v, n + 1)
    BY <2>1 DEF Mutation, Then
  <2> QED
    BY <2>1, <2>2, Zenon
<1>5. /\ Sound(v, R) /\ Kept(m, R, v) /\ v.heap = m.heap /\ v.s = m.s
      /\ v.ret = "OK" => n + 1 \in 1..SizeMax
  <2>1. Passed(m, R, v) /\ (v.ret = "OK" => n < SizeMax)
    BY <1>2, CapacityCalculated
  <2>2. n < SizeMax => n + 1 \in 1..SizeMax
    BY StrApiAssumption
  <2> QED
    BY <2>1, <2>2, PassedSound
<1> HIDE DEF m, c, v
<1>6. ASSUME NEW q, \/ q = m
                    \/ v.ret # "OK" /\ q = v
                    \/ v.ret = "OK" /\ q \in str_ensure_capacity(v, n + 1)
      PROVE  Kept(m, R, q)
  <2>1. v.ret = "OK" /\ q \in str_ensure_capacity(v, n + 1) => Kept(v, R, q)
    BY <1>5, CapacityEnsured
  <2> QED
    BY <1>2, <1>5, <1>6, <2>1, KeptSince, KeptItself
<1>7. Ends(x, "reserve", o)
  BY <1>1, <1>2, <1>4, <1>6, KeptEnds DEF Ends
<1> QED
  BY <1>3, <1>4, <1>7, MutatorStep

LEMMA ResizeStep ==
  ASSUME StrInv, NEW x \in Strings, NEW n \in Nat, NEW byte \in Bytes, Resize(x, n, byte)
  PROVE  Step(x)
<1> DEFINE m == Machine(x)
           c == [Call("resize", x) EXCEPT !.k = n, !.fill = byte]
<1>1. PICK R, len : R = Others(x) /\ len = str[x].len
  OBVIOUS
<1>2. /\ m = Machine(x) /\ Sound(m, R) /\ m.ret = "OK" /\ m.s = str[x]
      /\ len \in Nat /\ m.s.len = len
  BY <1>1, MachineSound, StateType
<1>3. IsCall(c, x, "resize")
  BY DEF Call, IsCall
<1>4. PICK o : /\ Ended(c, o)
               /\ \/ o = With(m, m.s.status)
                  \/ \E q : /\ o = str_record_failure(q)
                            /\ \/ q = m
                               \/ n < len /\ q = str_close_gap(m, n, len - n)
                               \/ n > len /\ q \in str_grow_content(m, n, byte)
  <2>1. PICK o : /\ Ended(c, o)
                 /\ o \in Mutation(m, CASE n = str[x].len -> {m}
                                       [] n < str[x].len -> {str_close_gap(m, n, str[x].len - n)}
                                       [] n > str[x].len -> str_grow_content(m, n, byte))
    BY Zenon DEF Resize, Run, Ended
  <2>2. \/ o = With(m, m.s.status)
        \/ \E q \in CASE n = len -> {m}
                      [] n < len -> {str_close_gap(m, n, len - n)}
                      [] n > len -> str_grow_content(m, n, byte) : o = str_record_failure(q)
    BY <1>1, <2>1, Zenon DEF Mutation
  <2>3. n = len \/ n < len \/ n > len
    BY <1>2
  <2> QED
    BY <1>2, <2>1, <2>2, <2>3
<1> HIDE DEF m, c
<1>5. ASSUME NEW q, \/ q = m
                    \/ n < len /\ q = str_close_gap(m, n, len - n)
                    \/ n > len /\ q \in str_grow_content(m, n, byte)
      PROVE  Kept(m, R, q)
  <2>1. CASE n < len /\ q = str_close_gap(m, n, len - n)
    <3>1. PICK k \in Nat : k = len - n /\ n + k <= m.s.len
      BY <1>2, <2>1
    <3>2. Roomy(m, R) /\ m.s.cap > 0
      <4>1. Roomy(m, R) /\ m.s.cap \in Nat
        BY <1>2, MachineType DEF Sound
      <4>2. m.s.cap # 0
        BY <1>2, <2>1, <4>1 DEF Roomy
      <4> QED
        BY <4>1, <4>2
    <3>3. Rewritten(m, R, q, m.s.len - k)
      BY <2>1, <3>1, <3>2, GapClosed
    <3> QED
      BY <1>2, <3>3, KeptItself, RewrittenKept
  <2>2. CASE n > len /\ q \in str_grow_content(m, n, byte)
    BY <1>2, <2>2, ContentGrown
  <2> QED
    BY <1>2, <1>5, <2>1, <2>2, KeptItself
<1>6. Ends(x, "resize", o)
  BY <1>1, <1>2, <1>4, <1>5, KeptEnds DEF Ends
<1> QED
  BY <1>3, <1>4, <1>6, MutatorStep

LEMMA RemoveSpanStep ==
  ASSUME StrInv, NEW x \in Strings, NEW idx \in Nat, NEW n \in Nat, RemoveSpan(x, idx, n)
  PROVE  Step(x)
<1> DEFINE m == Machine(x)
           c == [Call("remove", x) EXCEPT !.idx = idx, !.k = n]
           v == str_validate_span(m, str[x].len, idx, n)
<1>1. PICK R : R = Others(x)
  OBVIOUS
<1>2. m = Machine(x) /\ Sound(m, R) /\ m.ret = "OK" /\ m.s = str[x] /\ m.s.len \in Nat
  BY <1>1, MachineSound, StateType
<1>3. IsCall(c, x, "remove")
  BY DEF Call, IsCall
<1>4. PICK o : /\ Ended(c, o)
               /\ \/ o = With(m, m.s.status)
                  \/ \E q : /\ o = str_record_failure(q)
                            /\ \/ q = v
                               \/ v.ret = "OK" /\ n # 0 /\ q = str_close_gap(v, idx, n)
  <2>1. PICK o : /\ Ended(c, o)
                 /\ o \in Mutation(m, Then({v}, LAMBDA e : IF n = 0 THEN {e} ELSE {str_close_gap(e, idx, n)}))
    BY Zenon DEF RemoveSpan, Run, Ended
  <2>2. \/ o = With(m, m.s.status)
        \/ \E q : /\ o = str_record_failure(q)
                  /\ \/ q = v
                     \/ v.ret = "OK" /\ n # 0 /\ q = str_close_gap(v, idx, n)
    BY <2>1 DEF Mutation, Then
  <2> QED
    BY <2>1, <2>2, Zenon
<1>5. /\ Sound(v, R) /\ Kept(m, R, v) /\ v.heap = m.heap /\ v.s = m.s
      /\ v.ret = "OK" => idx + n <= m.s.len
  <2>1. Passed(m, R, v) /\ (v.ret = "OK" => idx + n <= m.s.len)
    BY <1>2, SpanValidated
  <2> QED
    BY <2>1, PassedSound
<1> HIDE DEF m, c, v
<1>6. ASSUME NEW q, \/ q = v
                    \/ v.ret = "OK" /\ n # 0 /\ q = str_close_gap(v, idx, n)
      PROVE  Kept(m, R, q)
  <2>1. CASE v.ret = "OK" /\ n # 0 /\ q = str_close_gap(v, idx, n)
    <3>1. Roomy(v, R) /\ v.s.cap > 0 /\ idx + n <= v.s.len
      <4>1. Roomy(v, R) /\ v.s.cap \in Nat /\ idx + n <= v.s.len /\ v.s.len \in Nat
        BY <1>5, <2>1, MachineType DEF Sound
      <4>2. v.s.cap # 0
        BY <2>1, <4>1 DEF Roomy
      <4> QED
        BY <4>1, <4>2
    <3>2. Rewritten(v, R, q, v.s.len - n)
      BY <2>1, <3>1, GapClosed
    <3> QED
      BY <1>5, <2>1, <3>2, RewrittenKept
  <2> QED
    BY <1>5, <1>6, <2>1
<1>7. Ends(x, "remove", o)
  BY <1>1, <1>2, <1>4, <1>6, KeptEnds DEF Ends
<1> QED
  BY <1>3, <1>4, <1>7, MutatorStep

LEMMA ShrinkToFitStep ==
  ASSUME StrInv, NEW x \in Strings, ShrinkToFit(x)
  PROVE  Step(x)
<1> DEFINE m == Machine(x)
           c == Call("shrink_to_fit", x)
<1>1. PICK R : R = Others(x)
  OBVIOUS
<1>2. /\ m = Machine(x) /\ Sound(m, R) /\ m.ret = "OK" /\ m.s = str[x]
      /\ str[x].cap \in Nat /\ str[x].len \in Nat
  BY <1>1, MachineSound, StateType
<1>3. IsCall(c, x, "shrink_to_fit")
  BY DEF Call, IsCall
<1>4. PICK o : /\ Ended(c, o)
               /\ \/ o = With(m, m.s.status)
                  \/ \E q : /\ o = str_record_failure(q)
                            /\ \/ q = m \/ q = Discarded(m)
                               \/ str[x].cap > 0 /\ q \in str_shrink_heap(m, str[x].len + 1)
  <2>1. PICK o : /\ Ended(c, o)
                 /\ o \in Mutation(m, CASE str[x].cap = 0 -> {m}
                                       [] str[x].cap > 0 /\ str[x].len = 0 -> {Discarded(m)}
                                       [] OTHER -> str_shrink_heap(m, str[x].len + 1))
    BY Zenon DEF ShrinkToFit, Run, Ended
  <2>2. \/ o = With(m, m.s.status)
        \/ \E q \in CASE str[x].cap = 0 -> {m}
                      [] str[x].cap > 0 /\ str[x].len = 0 -> {Discarded(m)}
                      [] OTHER -> str_shrink_heap(m, str[x].len + 1) : o = str_record_failure(q)
    BY <2>1, Zenon DEF Mutation
  <2> HIDE DEF m
  <2>3. str[x].cap = 0 \/ str[x].cap > 0
    BY <1>2
  <2> QED
    BY <2>1, <2>2, <2>3
<1> HIDE DEF m, c
<1>5. ASSUME NEW q, \/ q = m \/ q = Discarded(m)
                    \/ str[x].cap > 0 /\ q \in str_shrink_heap(m, str[x].len + 1)
      PROVE  Answered(m, R, q)
  <2>1. CASE q = m
    BY <1>2, <2>1 DEF Answered
  <2>2. CASE q = Discarded(m)
    BY <1>2, <2>2, DiscardedSound DEF Answered
  <2>3. CASE str[x].cap > 0 /\ q \in str_shrink_heap(m, str[x].len + 1)
    BY <1>2, <2>3, Shrunk
  <2> QED
    BY <1>5, <2>1, <2>2, <2>3
<1>6. Ends(x, "shrink_to_fit", o)
  BY <1>1, <1>2, <1>4, <1>5 DEF Ends, Lowering
<1> QED
  BY <1>3, <1>4, <1>6, MutatorStep

LEMMA CopyStep ==
  ASSUME StrInv, NEW x \in Strings, NEW y \in Strings \cup {NoString}, Copy(x, y)
  PROVE  Step(x)
<1> DEFINE m == Machine(x)
           c == [Call("copy", x) EXCEPT !.y = y]
<1>1. PICK R : R = Others(x)
  OBVIOUS
<1>2. m = Machine(x) /\ Sound(m, R) /\ m.ret = "OK" /\ m.s = str[x]
  BY <1>1, MachineSound
<1>3. IsCall(c, x, "copy")
  BY DEF Call, IsCall
<1>4. PICK o : /\ Ended(c, o)
               /\ \/ o = With(m, m.s.status)
                  \/ \E q : /\ o = str_record_failure(q)
                            /\ \/ q = m \/ q = With(m, "ERR_ARG")
                               \/ y \in Strings /\ q \in CopyOf(m, str[y])
  <2>1. PICK o : /\ Ended(c, o)
                 /\ o \in Mutation(m, CASE y = NoString -> {With(m, "ERR_ARG")}
                                       [] y = x        -> {m}
                                       [] OTHER        -> CopyOf(m, str[y]))
    BY Zenon DEF Copy, Run, Ended
  <2>2. \/ o = With(m, m.s.status)
        \/ \E q \in CASE y = NoString -> {With(m, "ERR_ARG")}
                      [] y = x        -> {m}
                      [] OTHER        -> CopyOf(m, str[y]) : o = str_record_failure(q)
    BY <2>1, Zenon DEF Mutation
  <2> HIDE DEF m
  <2>3. NoString \notin Strings
    BY StrApiAssumption
  <2> QED
    BY <2>1, <2>2, <2>3
<1> HIDE DEF m, c
<1>5. ASSUME NEW q, \/ q = m \/ q = With(m, "ERR_ARG")
                    \/ y \in Strings /\ q \in CopyOf(m, str[y])
      PROVE  Answered(m, R, q)
  <2>1. CASE q = m
    BY <1>2, <2>1 DEF Answered
  <2>2. CASE q = With(m, "ERR_ARG")
    BY <1>2, <2>2, StatusNames, Checked, KeptAnswered
  <2>3. CASE y \in Strings /\ q \in CopyOf(m, str[y])
    <3>1. str[y] \in StrState
      BY <2>3, MachineSound
    <3> QED
      BY <1>2, <2>3, <3>1, Copied
  <2> QED
    BY <1>5, <2>1, <2>2, <2>3
<1>6. Ends(x, "copy", o)
  BY <1>1, <1>2, <1>4, <1>5 DEF Ends, Lowering
<1> QED
  BY <1>3, <1>4, <1>6, MutatorStep

\* The calls that never fail.
LEMMA DeinitStep ==
  ASSUME StrInv, NEW x \in Strings, Deinit(x)
  PROVE  Step(x)
<1> DEFINE m == Machine(x)
           c == Call("deinit", x)
<1>1. PICK R : R = Others(x)
  OBVIOUS
<1>2. m = Machine(x) /\ Sound(m, R) /\ m.ret = "OK"
  BY <1>1, MachineSound
<1>3. IsCall(c, x, "deinit")
  BY DEF Call, IsCall
<1>4. Ended(c, Discarded(m))
  BY Zenon DEF Deinit, Run, Ended
<1> HIDE DEF m, c
<1>5. Outcome(m, R, Discarded(m))
  BY <1>2, DiscardedSound DEF Outcome
<1>6. "deinit" \in Lowering
  BY DEF Lowering
<1> QED
  BY <1>1, <1>2, <1>3, <1>4, <1>5, <1>6, CallStep

\* Clearing the status does not touch the buffer.
Unrecorded(m) == [m EXCEPT !.s.status = "OK"]

LEMMA StatusCleared ==
  ASSUME NEW m, NEW R, Sound(m, R), NEW e, e = Unrecorded(m)
  PROVE  Sound(e, R) /\ e.ret = m.ret /\ e.s.cap = m.s.cap /\ e.s \in StrState
<1>1. m.s \in StrState /\ {"heap", "s", "ret"} \subseteq DOMAIN m
  BY DEF Sound, Roomy, IsMachine
<1>2. e.heap = m.heap /\ e.ret = m.ret /\ DOMAIN e = DOMAIN m /\ e.s = [m.s EXCEPT !.status = "OK"]
  BY <1>1 DEF Unrecorded
<1>3. /\ e.s \in StrState /\ e.s.buf = m.s.buf /\ e.s.len = m.s.len /\ e.s.cap = m.s.cap
  BY <1>1, <1>2, StatusNames DEF StrState
<1> QED
  BY <1>1, <1>2, <1>3 DEF Sound, Roomy, IsMachine, Terminated

LEMMA ClearStep ==
  ASSUME StrInv, NEW x \in Strings, Clear(x)
  PROVE  Step(x)
<1> DEFINE m == Machine(x)
           c == Call("clear", x)
           e == Unrecorded(m)
           o == str_clear_content(e)
<1>1. PICK R : R = Others(x)
  OBVIOUS
<1>2. m = Machine(x) /\ Sound(m, R) /\ m.ret = "OK" /\ m.s = str[x] /\ str[x] \in StrState
  BY <1>1, MachineSound
<1>3. IsCall(c, x, "clear")
  BY DEF Call, IsCall
<1>4. Ended(c, o)
  BY Zenon DEF Clear, Run, Ended, Unrecorded
<1> HIDE DEF m, c, o
<1>5. Sound(e, R) /\ e.ret = "OK" /\ e.s.cap = str[x].cap /\ e.s \in StrState
  BY <1>2, StatusCleared
<1> HIDE DEF e
<1>6. Sound(o, R) /\ o.ret = "OK" /\ o.s = [e.s EXCEPT !.len = 0]
  <2>1. Rewritten(e, R, o, 0)
    BY <1>5, ContentCleared DEF o, Sound
  <2> QED
    BY <1>5, <2>1 DEF Rewritten
<1>7. o.s.cap >= str[x].cap
  <2>1. o.s.cap = str[x].cap
    BY <1>5, <1>6 DEF StrState
  <2> QED
    BY <1>2, <2>1, StateType
<1>8. Outcome(m, R, o)
  BY <1>6 DEF Outcome
<1> QED
  BY <1>1, <1>2, <1>3, <1>4, <1>7, <1>8, CallStep

LEMMA ClearErrorStep ==
  ASSUME StrInv, NEW x \in Strings, ClearError(x)
  PROVE  Step(x)
<1> DEFINE m == Machine(x)
           c == Call("clear_error", x)
           o == Unrecorded(m)
<1>1. PICK R : R = Others(x)
  OBVIOUS
<1>2. m = Machine(x) /\ Sound(m, R) /\ m.ret = "OK" /\ m.s = str[x] /\ str[x] \in StrState
  BY <1>1, MachineSound
<1>3. IsCall(c, x, "clear_error")
  BY DEF Call, IsCall
<1>4. Ended(c, o)
  BY Zenon DEF ClearError, Run, Ended, Unrecorded
<1> HIDE DEF m, c
<1>5. Sound(o, R) /\ o.ret = "OK" /\ o.s.cap = str[x].cap
  BY <1>2, StatusCleared
<1>6. o.s.cap >= str[x].cap
  BY <1>2, <1>5, StateType
<1> HIDE DEF o
<1>7. Outcome(m, R, o)
  BY <1>5 DEF Outcome
<1> QED
  BY <1>1, <1>2, <1>3, <1>4, <1>6, <1>7, CallStep

-----------------------------------------------------------------------------
(* The calls that pass a buffer on: move, detach and the caller's free.     *)

SoundState(s, h) ==
  IF s.cap = 0 THEN s.buf = NULL /\ s.len = 0
  ELSE /\ s.buf \in DOMAIN h /\ Len(h[s.buf]) = s.cap
       /\ s.len < s.cap /\ h[s.buf][s.len + 1] = Nul

LEMMA StrFacts ==
  ASSUME StrInv
  PROVE  /\ str \in [Strings -> StrState] /\ IsHeap(heap) /\ NULL \notin DOMAIN heap
         /\ detached \subseteq DOMAIN heap /\ \A x \in Strings : SoundState(str[x], heap)
         /\ DOMAIN heap = {str[x].buf : x \in {z \in Strings : str[z].buf # NULL}} \cup detached
         /\ \A x \in Strings : str[x].buf # NULL => str[x].buf \notin detached
         /\ \A x, y \in Strings : str[x].buf # NULL /\ str[y].buf # NULL /\ str[x].buf = str[y].buf => x = y
<1>1. str \in [Strings -> StrState]
  BY Zenon DEF StrInv, TypeOK, StrState, Size
<1>2. \A x \in Strings : SoundState(str[x], heap)
  BY Zenon DEF StrInv, BufferSound, SoundState
<1>3. IsHeap(heap) /\ NULL \notin DOMAIN heap /\ detached \subseteq DOMAIN heap
  BY DEF StrInv, IsHeap, TypeOK
<1>4. /\ DOMAIN heap = {str[x].buf : x \in {z \in Strings : str[z].buf # NULL}} \cup detached
      /\ \A x \in Strings : str[x].buf # NULL => str[x].buf \notin detached
      /\ \A x, y \in Strings : str[x].buf # NULL /\ str[y].buf # NULL /\ str[x].buf = str[y].buf => x = y
  BY DEF StrInv, OneOwner
<1> QED
  BY <1>1, <1>2, <1>3, <1>4

LEMMA StrFactsSuffice ==
  ASSUME str' \in [Strings -> StrState], IsHeap(heap'), detached' \subseteq DOMAIN heap',
         \A x \in Strings : SoundState(str'[x], heap'),
         DOMAIN heap' = {str'[x].buf : x \in {z \in Strings : str'[z].buf # NULL}} \cup detached',
         \A x \in Strings : str'[x].buf # NULL => str'[x].buf \notin detached',
         \A x, y \in Strings : str'[x].buf # NULL /\ str'[y].buf # NULL /\ str'[x].buf = str'[y].buf => x = y
  PROVE  StrInv'
<1>1. TypeOK'
  <2>1. (str \in [Strings -> [buf : Nat, len : 0..SizeMax, cap : 0..SizeMax, status : Statuses]])'
    BY Zenon DEF StrState, Size
  <2>2. DOMAIN heap' \subseteq Nat \ {NULL} /\ \A b \in DOMAIN heap' : heap'[b] \in Seq(Bytes \cup {Junk})
    BY Zenon DEF IsHeap, Cells
  <2> QED
    BY <2>1, <2>2, Zenon DEF TypeOK
<1>2. BufferSound'
  BY Zenon DEF BufferSound, SoundState
<1>3. OneOwner'
  BY DEF OneOwner
<1> QED
  BY <1>1, <1>2, <1>3 DEF StrInv

\* A string without a buffer owns nothing, and one with a buffer owns a block.
LEMMA OwnedBuffer ==
  ASSUME NEW s \in StrState, NEW h, IsHeap(h), SoundState(s, h)
  PROVE  /\ s.cap = 0 <=> s.buf = NULL
         /\ s.buf # NULL => s.buf \in DOMAIN h
BY DEF SoundState, IsHeap

LEMMA EmptySoundState ==
  ASSUME NEW h
  PROVE  SoundState(STR_EMPTY, h)
BY EmptyState DEF SoundState

\* A sound string stays sound where its buffer stays as it is.
LEMMA SoundElsewhere ==
  ASSUME NEW s, NEW h, NEW g, SoundState(s, h),
         s.cap # 0 => s.buf \in DOMAIN g /\ g[s.buf] = h[s.buf]
  PROVE  SoundState(s, g)
BY DEF SoundState

LEMMA FreeDetachedKeeps ==
  ASSUME StrInv, NEW b \in detached, FreeDetached(b)
  PROVE  StrInv' /\ FailureChangesNothing /\ CapacityOnlyGivenUp
<1>1. /\ heap' = Released(heap, b) /\ detached' = detached \ {b} /\ str' = str /\ call'.ret = "OK"
  BY DEF FreeDetached, Call
<1>2. /\ IsHeap(heap') /\ DOMAIN heap' = DOMAIN heap \ {b}
      /\ \A c \in DOMAIN heap \ {b} : heap'[c] = heap[c]
  <2>1. IsHeap(heap)
    BY StrFacts
  <2>2. /\ IsHeap(Released(heap, b)) /\ DOMAIN Released(heap, b) = DOMAIN heap \ {b}
        /\ \A c \in DOMAIN heap \ {b} : Released(heap, b)[c] = heap[c]
    BY <2>1, ReleasedHeap, ZenonT(60)
  <2> QED
    BY <1>1, <2>2, Zenon
<1>3. \A x \in Strings : str[x].buf # b
  BY StrFacts
<1>4. \A x \in Strings : SoundState(str[x], heap')
  <2>1. ASSUME NEW x \in Strings
        PROVE  SoundState(str[x], heap')
    <3>1. str[x] \in StrState /\ SoundState(str[x], heap) /\ IsHeap(heap)
      BY StrFacts
    <3>2. str[x].cap # 0 => str[x].buf \in DOMAIN heap
      BY <3>1, OwnedBuffer
    <3> QED
      BY <1>2, <1>3, <3>1, <3>2, SoundElsewhere
  <2> QED
    BY <2>1
<1>5. DOMAIN heap' = {str[x].buf : x \in {z \in Strings : str[z].buf # NULL}} \cup (detached \ {b})
  BY <1>2, <1>3, StrFacts
<1>6. StrInv'
  BY <1>1, <1>2, <1>4, <1>5, StrFacts, StrFactsSuffice
<1>7. str \in [Strings -> StrState]
  BY StrFacts
<1> QED
  BY <1>1, <1>6, <1>7, StateType DEF FailureChangesNothing, CapacityOnlyGivenUp

LEMMA UnchangedKeeps ==
  ASSUME StrInv, str' = str, heap' = heap, detached' = detached
  PROVE  StrInv' /\ FailureChangesNothing /\ CapacityOnlyGivenUp
<1>1. StrInv'
  BY StrFacts, StrFactsSuffice
<1>2. str \in [Strings -> StrState]
  BY StrFacts
<1>3. FailureChangesNothing
  BY <1>2, SameState DEF FailureChangesNothing
<1>4. CapacityOnlyGivenUp
  BY <1>2, StateType DEF CapacityOnlyGivenUp
<1> QED
  BY <1>1, <1>3, <1>4

LEMMA MoveKeeps ==
  ASSUME StrInv, NEW x \in Strings, NEW y \in Strings \cup {NoString}, Move(x, y)
  PROVE  StrInv' /\ FailureChangesNothing /\ CapacityOnlyGivenUp
<1>1. CASE y \in {NoString, x}
  <2>1. str' = str /\ heap' = heap /\ detached' = detached
    BY <1>1 DEF Move
  <2> QED
    BY <2>1, UnchangedKeeps
<1>2. CASE y \notin {NoString, x}
  <2>1. PICK b : b = str[x].buf
    OBVIOUS
  <2>2. y \in Strings /\ y # x /\ x # y
    BY <1>2
  <2>3. /\ str' = [str EXCEPT ![x] = str[y], ![y] = STR_EMPTY] /\ detached' = detached
        /\ heap' = Discarded(Machine(x)).heap /\ call' = [Call("move", x) EXCEPT !.y = y]
    BY <1>2 DEF Move, str_transfer_state
  <2>4. call'.x = x /\ call'.y = y /\ call'.op = "move" /\ call'.ret = "OK"
    BY <2>3 DEF Call
  <2>5. str \in [Strings -> StrState] /\ IsHeap(heap) /\ \A z \in Strings : SoundState(str[z], heap)
    BY StrFacts
  <2>6. /\ str' \in [Strings -> StrState] /\ str'[x] = str[y] /\ str'[y] = STR_EMPTY
        /\ \A z \in Strings \ {x, y} : str'[z] = str[z]
    BY <2>2, <2>3, <2>5, EmptyState
  <2>7. /\ IsHeap(heap') /\ DOMAIN heap' = DOMAIN heap \ {b}
        /\ \A c \in DOMAIN heap \ {b} : heap'[c] = heap[c]
    <3>1. heap' = Released(heap, b)
      BY <2>1, <2>3, MachineSound, DiscardedSound
    <3>2. /\ IsHeap(Released(heap, b)) /\ DOMAIN Released(heap, b) = DOMAIN heap \ {b}
          /\ \A c \in DOMAIN heap \ {b} : Released(heap, b)[c] = heap[c]
      BY <2>5, ReleasedHeap, ZenonT(60)
    <3> QED
      BY <3>1, <3>2, Zenon
  <2>8. \A z \in Strings : /\ str[z].cap = 0 <=> str[z].buf = NULL
                           /\ str[z].buf # NULL => str[z].buf \in DOMAIN heap
                           /\ z # x /\ str[z].buf # NULL => str[z].buf # b
    <3>1. \A z \in Strings : z # x /\ str[z].buf # NULL => str[z].buf # b
      BY <2>1, StrFacts
    <3> QED
      BY <2>5, <3>1, OwnedBuffer
  <2>9. \A z \in Strings : z # x => SoundState(str[z], heap')
    <3>1. ASSUME NEW z \in Strings, z # x
          PROVE  SoundState(str[z], heap')
      <4>1. str[z].cap # 0 => str[z].buf \in DOMAIN heap \ {b}
        BY <2>8, <3>1
      <4> QED
        BY <2>5, <2>7, <4>1, SoundElsewhere
    <3> QED
      BY <3>1
  <2>10. \A z \in Strings : SoundState(str'[z], heap')
    BY <2>2, <2>6, <2>9, EmptySoundState
  <2>11. b \notin detached \/ b = NULL
    BY <2>1, StrFacts
  <2>12. detached' \subseteq DOMAIN heap'
    BY <2>3, <2>7, <2>11, StrFacts
  <2>13. DOMAIN heap' = {str'[z].buf : z \in {w \in Strings : str'[w].buf # NULL}} \cup detached'
    <3>1. \A c \in DOMAIN heap : c \in detached \/ \E z \in Strings : str[z].buf # NULL /\ c = str[z].buf
      BY StrFacts
    <3>2. \A c \in DOMAIN heap' : c \in detached' \/ \E w \in Strings : str'[w].buf # NULL /\ c = str'[w].buf
      <4>1. ASSUME NEW c \in DOMAIN heap', c \notin detached
            PROVE  \E w \in Strings : str'[w].buf # NULL /\ c = str'[w].buf
        <5>1. PICK z \in Strings : str[z].buf # NULL /\ c = str[z].buf
          BY <2>7, <3>1, <4>1
        <5>2. z # x
          BY <2>1, <2>7, <4>1, <5>1
        <5>3. CASE z = y
          BY <2>6, <5>1, <5>3
        <5>4. CASE z # y
          BY <2>6, <5>1, <5>2, <5>4
        <5> QED
          BY <5>3, <5>4
      <4> QED
        BY <2>3, <4>1
    <3>3. \A w \in Strings : str'[w].buf # NULL => str'[w].buf \in DOMAIN heap'
      BY <2>2, <2>6, <2>7, <2>8, EmptyState
    <3> QED
      BY <2>12, <3>2, <3>3
  <2>14. \A w \in Strings : str'[w].buf # NULL => str'[w].buf \notin detached'
    BY <2>2, <2>3, <2>6, EmptyState, StrFacts
  <2>15. \A w, z \in Strings : str'[w].buf # NULL /\ str'[z].buf # NULL /\ str'[w].buf = str'[z].buf => w = z
    <3>1. \A w, z \in Strings : str[w].buf # NULL /\ str[z].buf # NULL /\ str[w].buf = str[z].buf => w = z
      BY StrFacts
    <3> QED
      BY <2>2, <2>6, <3>1, EmptyState
  <2>16. StrInv'
    BY <2>6, <2>7, <2>10, <2>12, <2>13, <2>14, <2>15, StrFactsSuffice
  <2>17. CapacityOnlyGivenUp
    BY <2>2, <2>4, <2>5, <2>6, StateType DEF CapacityOnlyGivenUp
  <2> QED
    BY <2>4, <2>16, <2>17 DEF FailureChangesNothing
<1> QED
  BY <1>1, <1>2

LEMMA DetachKeeps ==
  ASSUME StrInv, NEW x \in Strings, Detach(x)
  PROVE  StrInv' /\ FailureChangesNothing /\ CapacityOnlyGivenUp
<1>1. /\ str \in [Strings -> StrState] /\ IsHeap(heap) /\ \A z \in Strings : SoundState(str[z], heap)
      /\ NULL \notin DOMAIN heap /\ detached \subseteq DOMAIN heap
      /\ DOMAIN heap = {str[z].buf : z \in {w \in Strings : str[w].buf # NULL}} \cup detached
      /\ \A z \in Strings : str[z].buf # NULL => str[z].buf \notin detached
      /\ \A w, z \in Strings : str[w].buf # NULL /\ str[z].buf # NULL /\ str[w].buf = str[z].buf => w = z
  BY StrFacts
<1>2. \A z \in Strings : /\ str[z].cap = 0 <=> str[z].buf = NULL
                         /\ str[z].buf # NULL => str[z].buf \in DOMAIN heap
  BY <1>1, OwnedBuffer
<1>3. CASE str_take_owned_buffer(x)
  <2>1. /\ str[x].cap > 0 /\ str' = [str EXCEPT ![x] = STR_EMPTY] /\ detached' = detached \cup {str[x].buf}
        /\ heap' = heap /\ call'.x = x /\ call'.op = "detach" /\ call'.ret = "OK"
    BY <1>3 DEF str_take_owned_buffer, str_is_owned, Call
  <2>2. /\ str' \in [Strings -> StrState] /\ str'[x] = STR_EMPTY
        /\ \A z \in Strings \ {x} : str'[z] = str[z]
    BY <1>1, <2>1, EmptyState
  <2>3. str[x].buf # NULL /\ str[x].buf \in DOMAIN heap
    BY <1>2, <2>1
  <2>4. \A z \in Strings : SoundState(str'[z], heap')
    BY <1>1, <2>1, <2>2, EmptySoundState
  <2>5. detached' \subseteq DOMAIN heap'
    BY <1>1, <2>1, <2>3
  <2>6. DOMAIN heap' = {str'[z].buf : z \in {w \in Strings : str'[w].buf # NULL}} \cup detached'
    <3>1. \A c \in DOMAIN heap' : c \in detached' \/ \E w \in Strings : str'[w].buf # NULL /\ c = str'[w].buf
      BY <1>1, <2>1, <2>2
    <3>2. \A w \in Strings : str'[w].buf # NULL => str'[w].buf \in DOMAIN heap'
      BY <1>2, <2>1, <2>2, EmptyState
    <3> QED
      BY <2>5, <3>1, <3>2
  <2>7. \A w \in Strings : str'[w].buf # NULL => str'[w].buf \notin detached'
    BY <1>1, <2>1, <2>2, <2>3, EmptyState
  <2>8. \A w, z \in Strings : str'[w].buf # NULL /\ str'[z].buf # NULL /\ str'[w].buf = str'[z].buf => w = z
    BY <1>1, <2>2, EmptyState
  <2>9. IsHeap(heap')
    BY <1>1, <2>1
  <2>10. StrInv'
    BY <2>2, <2>4, <2>5, <2>6, <2>7, <2>8, <2>9, StrFactsSuffice
  <2>11. CapacityOnlyGivenUp
    BY <1>1, <2>1, <2>2, StateType DEF CapacityOnlyGivenUp
  <2> QED
    BY <2>1, <2>10, <2>11 DEF FailureChangesNothing
<1>4. ASSUME str[x].cap = 0, NEW b, b = FreshBlock(heap), str' = [str EXCEPT ![x] = STR_EMPTY],
             heap' = Placed(heap, b, <<Nul>>), detached' = detached \cup {b}, call' = Call("detach", x)
      PROVE  StrInv' /\ FailureChangesNothing /\ CapacityOnlyGivenUp
  <2>1. call'.x = x /\ call'.op = "detach" /\ call'.ret = "OK"
    BY <1>4 DEF Call
  <2>2. /\ str' \in [Strings -> StrState] /\ str'[x] = STR_EMPTY
        /\ \A z \in Strings \ {x} : str'[z] = str[z]
    BY <1>1, <1>4, EmptyState
  <2>3. b \in Nat \ {NULL} /\ b \notin DOMAIN heap
    BY <1>1, <1>4, FreshIsFree
  <2>4. /\ IsHeap(heap') /\ DOMAIN heap' = DOMAIN heap \cup {b}
        /\ \A c \in DOMAIN heap \ {b} : heap'[c] = heap[c]
    <3>1. PICK w \in Seq(Cells) : w = <<Nul>>
      <4>1. Nul \in Cells
        BY StrApiAssumption DEF Cells
      <4>2. <<Nul>> \in Seq(Cells)
        BY <4>1
      <4> QED
        BY <4>2, Zenon
    <3>2. IsHeap(heap)
      BY <1>1
    <3>3. /\ IsHeap(Placed(heap, b, w)) /\ DOMAIN Placed(heap, b, w) = DOMAIN heap \cup {b}
          /\ \A c \in DOMAIN heap \ {b} : Placed(heap, b, w)[c] = heap[c]
      BY <2>3, <3>2, PlacedHeap, ZenonT(60)
    <3>4. heap' = Placed(heap, b, w)
      BY <1>4, <3>1
    <3> QED
      BY <3>3, <3>4, Zenon
  <2>5. \A z \in Strings : SoundState(str[z], heap')
    <3>1. ASSUME NEW z \in Strings
          PROVE  SoundState(str[z], heap')
      <4>1. str[z].cap # 0 => str[z].buf \in DOMAIN heap' /\ heap'[str[z].buf] = heap[str[z].buf]
        BY <1>2, <2>3, <2>4
      <4> QED
        BY <1>1, <4>1, SoundElsewhere
    <3> QED
      BY <3>1
  <2>6. \A z \in Strings : SoundState(str'[z], heap')
    BY <2>2, <2>5, EmptySoundState
  <2>7. detached' \subseteq DOMAIN heap'
    BY <1>1, <1>4, <2>4
  <2>8. DOMAIN heap' = {str'[z].buf : z \in {w \in Strings : str'[w].buf # NULL}} \cup detached'
    <3>1. str[x].buf = NULL
      BY <1>2, <1>4
    <3>2. \A c \in DOMAIN heap' : c \in detached' \/ \E w \in Strings : str'[w].buf # NULL /\ c = str'[w].buf
      BY <1>1, <1>4, <2>2, <2>4, <3>1
    <3>3. \A w \in Strings : str'[w].buf # NULL => str'[w].buf \in DOMAIN heap'
      BY <1>2, <2>2, <2>4, EmptyState
    <3> QED
      BY <2>7, <3>2, <3>3
  <2>9. \A w \in Strings : str'[w].buf # NULL => str'[w].buf \notin detached'
    BY <1>1, <1>2, <1>4, <2>2, <2>3, EmptyState
  <2>10. \A w, z \in Strings : str'[w].buf # NULL /\ str'[z].buf # NULL /\ str'[w].buf = str'[z].buf => w = z
    BY <1>1, <2>2, EmptyState
  <2>11. StrInv'
    BY <2>2, <2>4, <2>6, <2>7, <2>8, <2>9, <2>10, StrFactsSuffice
  <2>12. CapacityOnlyGivenUp
    BY <1>1, <2>1, <2>2, StateType DEF CapacityOnlyGivenUp
  <2> QED
    BY <2>1, <2>11, <2>12 DEF FailureChangesNothing
<1>5. CASE str' = [str EXCEPT ![x].status = "ERR_ALLOC"] /\ heap' = heap /\ detached' = detached
  <2>1. PICK s : s = [str[x] EXCEPT !.status = "ERR_ALLOC"]
    OBVIOUS
  <2>2. /\ s \in StrState /\ s.buf = str[x].buf /\ s.len = str[x].len /\ s.cap = str[x].cap
        /\ s.status = "ERR_ALLOC"
    BY <1>1, <2>1, StatusNames DEF StrState
  <2>3. /\ str' \in [Strings -> StrState] /\ str'[x] = s
        /\ \A z \in Strings \ {x} : str'[z] = str[z]
    BY <1>1, <1>5, <2>1, <2>2
  <2>4. \A z \in Strings : str'[z].buf = str[z].buf /\ str'[z].cap = str[z].cap
    BY <2>2, <2>3
  <2>5. \A z \in Strings : SoundState(str'[z], heap')
    BY <1>1, <1>5, <2>2, <2>3 DEF SoundState
  <2>6. StrInv'
    <3>1. DOMAIN heap' = {str'[z].buf : z \in {w \in Strings : str'[w].buf # NULL}} \cup detached'
      BY <1>1, <1>5, <2>4
    <3>2. /\ \A w \in Strings : str'[w].buf # NULL => str'[w].buf \notin detached'
          /\ \A w, z \in Strings : str'[w].buf # NULL /\ str'[z].buf # NULL /\ str'[w].buf = str'[z].buf => w = z
      BY <1>1, <1>5, <2>4
    <3>3. IsHeap(heap') /\ detached' \subseteq DOMAIN heap'
      BY <1>1, <1>5
    <3> QED
      BY <2>3, <2>5, <3>1, <3>2, <3>3, StrFactsSuffice
  <2>7. FailureChangesNothing
    <3>1. [str[x] EXCEPT !.status = str'[x].status] = str'[x]
      BY <2>1, <2>2, <2>3
    <3>2. \A z \in Strings \ {x} : [str[z] EXCEPT !.status = str'[z].status] = str'[z]
      BY <1>1, <2>3, SameState
    <3> QED
      BY <1>5, <3>1, <3>2 DEF FailureChangesNothing
  <2>8. CapacityOnlyGivenUp
    BY <1>1, <2>4, StateType DEF CapacityOnlyGivenUp
  <2> QED
    BY <2>6, <2>7, <2>8
<1>6. str_take_owned_buffer(x) \/ str_allocate_empty_buffer(x)
  BY DEF Detach
<1>7. CASE str_allocate_empty_buffer(x)
  <2>1. str[x].cap = 0
    <3>1. ~(str[x].cap > 0)
      BY <1>7 DEF str_allocate_empty_buffer, str_is_owned
    <3> QED
      BY <1>1, <3>1, StateType
  <2>2. \/ /\ str' = [str EXCEPT ![x] = STR_EMPTY] /\ heap' = Placed(heap, FreshBlock(heap), <<Nul>>)
           /\ detached' = detached \cup {FreshBlock(heap)} /\ call' = Call("detach", x)
        \/ str' = [str EXCEPT ![x].status = "ERR_ALLOC"] /\ heap' = heap /\ detached' = detached
    BY <1>7, Zenon DEF str_allocate_empty_buffer
  <2> QED
    BY <1>4, <1>5, <2>1, <2>2
<1> QED
  BY <1>3, <1>6, <1>7

-----------------------------------------------------------------------------
(* The theorems.                                                            *)

LEMMA InitStr == Init => StrInv
<1> SUFFICES ASSUME Init PROVE StrInv
  OBVIOUS
<1>1. str = [x \in Strings |-> STR_EMPTY] /\ heap = <<>> /\ detached = {}
  BY DEF Init
<1>2. DOMAIN heap = {} /\ heap = [b \in DOMAIN heap |-> heap[b]]
  BY <1>1
<1>3. IsHeap(heap)
  BY <1>2, FS_EmptySet DEF IsHeap
<1>4. TypeOK
  <2>1. str \in [Strings -> StrState]
    BY <1>1, EmptyState
  <2>2. str \in [Strings -> [buf : Nat, len : 0..SizeMax, cap : 0..SizeMax, status : Statuses]]
    BY <2>1, Zenon DEF StrState, Size
  <2> QED
    BY <1>1, <1>2, <2>2 DEF TypeOK
<1>5. BufferSound
  BY <1>1, EmptyState DEF BufferSound
<1>6. OneOwner
  BY <1>1, <1>2, EmptyState DEF OneOwner
<1> QED
  BY <1>3, <1>4, <1>5, <1>6 DEF StrInv

Safe == StrInv' /\ FailureChangesNothing /\ CapacityOnlyGivenUp

LEMMA StepSuffices ==
  ASSUME StrInv, NEW x \in Strings, Step(x)
  PROVE  Safe
BY StepKeeps, StepSafe DEF Safe

LEMMA NextStr ==
  ASSUME StrInv, [Next]_vars
  PROVE  Safe
<1>1. CASE UNCHANGED vars
  <2>1. str' = str /\ heap' = heap /\ detached' = detached
    BY <1>1 DEF vars
  <2> QED
    BY <2>1, UnchangedKeeps DEF Safe
<1>2. ASSUME NEW b \in detached, FreeDetached(b)
      PROVE  Safe
  BY <1>2, FreeDetachedKeeps DEF Safe
<1>3. ASSUME NEW x \in Strings,
             \/ Deinit(x) \/ Clear(x) \/ ClearError(x) \/ Detach(x) \/ ShrinkToFit(x)
             \/ \E y \in Strings \cup {NoString} : Move(x, y) \/ Copy(x, y)
      PROVE  Safe
  <2>1. CASE Deinit(x)
    BY <2>1, DeinitStep, StepSuffices
  <2>2. CASE Clear(x)
    BY <2>2, ClearStep, StepSuffices
  <2>3. CASE ClearError(x)
    BY <2>3, ClearErrorStep, StepSuffices
  <2>4. CASE Detach(x)
    BY <2>4, DetachKeeps DEF Safe
  <2>5. CASE ShrinkToFit(x)
    BY <2>5, ShrinkToFitStep, StepSuffices
  <2>6. ASSUME NEW y \in Strings \cup {NoString}, Move(x, y)
        PROVE  Safe
    BY <2>6, MoveKeeps DEF Safe
  <2>7. ASSUME NEW y \in Strings \cup {NoString}, Copy(x, y)
        PROVE  Safe
    BY <2>7, CopyStep, StepSuffices
  <2> QED
    BY <1>3, <2>1, <2>2, <2>3, <2>4, <2>5, <2>6, <2>7
<1>4. ASSUME NEW x \in Strings,
             \/ \E span \in CStrings(x) : Set(x, span) \/ AppendCString(x, span)
             \/ \E span \in Spans(x) : SetN(x, span) \/ AppendN(x, span)
             \/ \E byte \in Bytes : AppendChar(x, byte)
             \/ \E format \in CStrings(x), text \in CallerSpans, how \in {"renders", "fails", "changes"} :
                  AppendFmt(x, format, text, how)
      PROVE  Step(x)
  BY <1>4, SetStep, AppendCStringStep, SetNStep, AppendNStep, AppendCharStep, AppendFmtStep
<1>5. ASSUME NEW x \in Strings,
             \/ \E n \in 0..SizeMax : Reserve(x, n) \/ \E byte \in Bytes : Resize(x, n, byte)
             \/ \E idx \in Places(x), span \in Spans(x) : InsertN(x, idx, span)
             \/ \E idx, n \in Places(x) : RemoveSpan(x, idx, n)
             \/ \E idx, k \in Places(x), span \in Spans(x) : ReplaceView(x, idx, k, span)
      PROVE  Step(x)
  <2>1. Places(x) \subseteq Nat /\ 0..SizeMax \subseteq Nat
    BY MachineSound, StateType DEF Places
  <2>2. ASSUME NEW n \in 0..SizeMax, Reserve(x, n) \/ \E byte \in Bytes : Resize(x, n, byte)
        PROVE  Step(x)
    BY <2>1, <2>2, ReserveStep, ResizeStep
  <2>3. ASSUME NEW idx \in Places(x), NEW span \in Spans(x), InsertN(x, idx, span)
        PROVE  Step(x)
    BY <2>1, <2>3, InsertNStep
  <2>4. ASSUME NEW idx \in Places(x), NEW n \in Places(x), RemoveSpan(x, idx, n)
        PROVE  Step(x)
    BY <2>1, <2>4, RemoveSpanStep
  <2>5. ASSUME NEW idx \in Places(x), NEW k \in Places(x), NEW span \in Spans(x), ReplaceView(x, idx, k, span)
        PROVE  Step(x)
    BY <2>1, <2>5, ReplaceViewStep
  <2> QED
    BY <1>5, <2>2, <2>3, <2>4, <2>5
<1>6. CASE Next
  BY <1>2, <1>3, <1>4, <1>5, <1>6, StepSuffices, Zenon DEF Next
<1> QED
  BY <1>1, <1>6

LEMMA StrInvariant == Spec => []StrInv
<1>1. StrInv /\ [Next]_vars => StrInv'
  BY NextStr DEF Safe
<1> QED
  BY InitStr, <1>1, PTL DEF Spec

\* Whatever the caller does with its strings, in whatever order and however the
\* allocator answers, their fields, the heap and the detached buffers keep their
\* types: lengths and capacities never leave size_t.
THEOREM TypesAlwaysHold == Spec => []TypeOK
<1>1. StrInv => TypeOK
  BY DEF StrInv
<1> QED
  BY StrInvariant, <1>1, PTL

\* No sequence of calls of agenc-str writes outside a buffer, records a capacity
\* the buffer does not have, or leaves a content without its NUL: not when a
\* span points into the string itself and the buffer moves under it, not when
\* an allocation fails half-way.
THEOREM BuffersAlwaysSound == Spec => []BufferSound
<1>1. StrInv => BufferSound
  BY DEF StrInv
<1> QED
  BY StrInvariant, <1>1, PTL

\* agenc-str never leaks a block, shares one between two strings, or frees one
\* that a string or the caller still holds.
THEOREM OneOwnerAlways == Spec => []OneOwner
<1>1. StrInv => OneOwner
  BY DEF StrInv
<1> QED
  BY StrInvariant, <1>1, PTL

\* A call that returns an error leaves every byte, length, capacity and buffer
\* as it found them, and only records a status.
THEOREM FailuresAreAtomic == Spec => FailureAtomic
<1>1. StrInv /\ [Next]_vars => [FailureChangesNothing]_vars
  BY NextStr DEF Safe
<1>2. [FailureChangesNothing]_vars =>
        [call'.ret # "OK" =>
           /\ heap' = heap
           /\ \A x \in Strings : [str[x] EXCEPT !.status = str'[x].status] = str'[x]]_vars
  BY Zenon DEF FailureChangesNothing
<1> QED
  BY StrInvariant, <1>1, <1>2, PTL DEF Spec, FailureAtomic

\* A capacity once reserved is never lowered behind the caller's back: only by
\* the calls that give the buffer up or ask for less.
THEOREM ReservationsLast == Spec => CapacityKept
<1>1. StrInv /\ [Next]_vars => [CapacityOnlyGivenUp]_vars
  BY NextStr DEF Safe
<1>2. [CapacityOnlyGivenUp]_vars =>
        [\A x \in Strings :
           str'[x].cap < str[x].cap =>
             \/ call'.x = x /\ call'.op \in {"deinit", "move", "copy", "detach", "shrink_to_fit"}
             \/ call'.y = x /\ call'.op = "move"]_vars
  BY Zenon DEF CapacityOnlyGivenUp
<1> QED
  BY StrInvariant, <1>1, <1>2, PTL DEF Spec, CapacityKept

=============================================================================
