--------------------------- MODULE BackendsProofs ---------------------------
(***************************************************************************)
(* Proofs about Backends: the heap and what the client holds always agree,   *)
(* and both backends implement AllocContract.  The invariant adds to         *)
(* ChunksAccounted the types, that the null backend never gave out anything, *)
(* and that every block held came through the guards of the libc backend.    *)
(***************************************************************************)
EXTENDS Backends, TLAPS

Blocks == [ptr : Chunks, size : 1..PtrMax, align : 0..MaxAlignT]

TypeOK ==
  /\ backend \in {"libc", "null"}
  /\ heap \in [Chunks -> Nat]
  /\ held \subseteq Blocks
  /\ last \in [ptr : Chunks \cup {NULL}, old_size : Nat, new_size : Nat,
               grown : Chunks \cup {NULL}]

BackendInv ==
  /\ TypeOK
  /\ ChunksAccounted
  /\ ShrinkServed
  /\ backend = "null" => held = {}
  /\ \A x \in held : x.align # 0 => MaxAlignT % x.align = 0
-----------------------------------------------------------------------------
(* Arithmetic.                                                              *)

LEMMA MultipleOf ==
  ASSUME NEW n \in Int, n > 0, NEW m \in Int
  PROVE  (n * m) % n = 0
  BY SMTT(30)

\* A chunk is aligned to whatever divides the alignment of all chunks.
LEMMA ChunkAligned ==
  ASSUME NEW c \in Nat, NEW a \in Nat \ {0}, MaxAlignT % a = 0
  PROVE  (c * MaxAlignT) % a = 0
<1>1. MaxAlignT \in Nat \ {0}
  BY BackendsAssumption
<1>2. MaxAlignT = a * (MaxAlignT \div a) /\ MaxAlignT \div a \in Int
  BY <1>1
<1>3. c * MaxAlignT = a * (c * (MaxAlignT \div a))
  BY <1>1, <1>2
<1>4. c * (MaxAlignT \div a) \in Int
  BY <1>2
<1> QED
  BY <1>3, <1>4, MultipleOf
-----------------------------------------------------------------------------
(* What the backends return.                                                *)

\* A served request: from the free chunks, on the libc backend, through its guards.
LEMMA XallocOutcome ==
  ASSUME BackendInv, NEW size \in Nat, NEW align \in Nat,
         NEW outcome \in Xalloc(size, align), outcome # Failed
  PROVE  /\ backend = "libc" /\ Supported(size, align) /\ size \in 1..PtrMax
         /\ \E c \in Chunks : /\ heap[c] = 0
                              /\ outcome = <<c, [heap EXCEPT ![c] = size]>>
  BY BackendsAssumption DEF Xalloc, Malloc, Unused, Supported

\* A served resize: in place, moved to a free chunk, or rescued on a shrink.
LEMMA XreallocOutcome ==
  ASSUME BackendInv, NEW x \in held, NEW size \in Nat,
         NEW outcome \in Xrealloc(x.ptr, x.size, size, x.align), size # 0
  PROVE  \/ outcome = Failed /\ size > x.size
         \/ /\ backend = "libc" /\ Supported(size, x.align) /\ size \in 1..PtrMax
            /\ \/ outcome = <<x.ptr, [heap EXCEPT ![x.ptr] = size]>>
               \/ size <= x.size /\ outcome = <<x.ptr, heap>>
               \/ \E c \in Chunks :
                    /\ heap[c] = 0
                    /\ outcome = <<c, [heap EXCEPT ![x.ptr] = 0, ![c] = size]>>
<1>1. /\ x.ptr \in Chunks /\ x.ptr # NULL /\ x.size \in 1..PtrMax /\ PtrMax \in Nat
      /\ x.align \in 0..MaxAlignT /\ backend = "libc"
  BY BackendsAssumption DEF BackendInv, TypeOK, Blocks
<1>2. CASE backend = "null" \/ ~Supported(size, x.align)
  BY <1>1, <1>2, BackendsAssumption DEF Xrealloc, Supported
<1>3. CASE ~(backend = "null" \/ ~Supported(size, x.align))
  <2>1. backend = "libc" /\ Supported(size, x.align) /\ size \in 1..PtrMax
    BY <1>1, <1>3 DEF Supported, BackendInv, TypeOK
  <2>2. PICK raw \in Realloc(x.ptr, size) : outcome = Rescue(raw, x.ptr, x.size, size)
    BY <1>1, <1>3 DEF Xrealloc
  <2>3. CASE raw = Failed
    BY <1>1, <2>1, <2>2, <2>3 DEF Rescue
  <2>4. CASE raw # Failed
    BY <1>1, <2>1, <2>2, <2>4 DEF Rescue, Realloc, Unused
  <2> QED
    BY <2>3, <2>4
<1> QED
  BY <1>2, <1>3
-----------------------------------------------------------------------------
(* The step relation, as what it does to the heap and to what is held.      *)

\* A block of a free chunk is handed out.
Served(c, size, align) ==
  /\ backend = "libc" /\ c \in Chunks /\ heap[c] = 0
  /\ size \in 1..PtrMax /\ align \in 0..MaxAlignT
  /\ align # 0 => MaxAlignT % align = 0
  /\ heap' = [heap EXCEPT ![c] = size]
  /\ held' = held \cup {[ptr |-> c, size |-> size, align |-> align]}

\* The block x is resized to y: in place, in its old chunk or in a free one.
Resized(x, y) ==
  /\ backend = "libc" /\ x \in held /\ y \in Blocks /\ y.align = x.align
  /\ held' = (held \ {x}) \cup {y}
  /\ \/ y.ptr = x.ptr /\ heap' = [heap EXCEPT ![x.ptr] = y.size]
     \/ y.ptr = x.ptr /\ y.size <= x.size /\ heap' = heap
     \/ heap[y.ptr] = 0 /\ heap' = [heap EXCEPT ![x.ptr] = 0, ![y.ptr] = y.size]

Freed(x) ==
  /\ x \in held /\ held' = held \ {x}
  /\ heap' = [heap EXCEPT ![x.ptr] = 0]

Effect ==
  \/ UNCHANGED <<heap, held>>
  \/ \E c \in Chunks, size \in 1..PtrMax, align \in 0..MaxAlignT : Served(c, size, align)
  \/ \E x \in held, y \in Blocks : Resized(x, y)
  \/ \E x \in held : Freed(x)

\* What a served request of the client adds.
LEMMA ServedEffect ==
  ASSUME BackendInv, NEW size \in Sizes, NEW align \in Aligns, AlignAsserted(align),
         NEW outcome \in Xalloc(size, align),
         heap' = outcome[2], held' = held \cup Hold(outcome[1], size, align)
  PROVE  Effect /\ outcome[1] \in Chunks \cup {NULL}
<1>1. size \in Nat /\ align \in Nat
  BY BackendsAssumption
<1>2. CASE outcome = Failed
  BY <1>2 DEF Failed, Hold, Effect
<1>3. CASE outcome # Failed
  <2>1. /\ backend = "libc" /\ Supported(size, align) /\ size \in 1..PtrMax
        /\ \E c \in Chunks : /\ heap[c] = 0
                             /\ outcome = <<c, [heap EXCEPT ![c] = size]>>
    BY <1>1, <1>3, XallocOutcome
  <2>2. PICK c \in Chunks : heap[c] = 0 /\ outcome = <<c, [heap EXCEPT ![c] = size]>>
    BY <2>1
  <2>3. held' = held \cup {[ptr |-> c, size |-> size, align |-> align]}
    BY <2>2, BackendsAssumption DEF Hold
  <2>4. align \in 0..MaxAlignT /\ (align # 0 => MaxAlignT % align = 0)
    BY <1>1, <2>1, MaxAlignTAssumption, BackendsAssumption DEF Supported
  <2>5. Served(c, size, align)
    BY <1>1, <2>1, <2>2, <2>3, <2>4 DEF Served
  <2> QED
    BY <1>1, <2>1, <2>2, <2>4, <2>5 DEF Effect
<1> QED
  BY <1>2, <1>3

\* What a resize of a held block does, served or not.
LEMMA ResizedEffect ==
  ASSUME BackendInv, NEW x \in held, NEW size \in Sizes, size # 0,
         NEW outcome \in Xrealloc(x.ptr, x.size, size, x.align),
         heap' = outcome[2],
         held' = IF outcome[1] = NULL THEN held
                 ELSE (held \ {x}) \cup Hold(outcome[1], size, x.align)
  PROVE  /\ Effect
         /\ outcome[1] \in Chunks \cup {NULL}
         /\ size <= x.size => outcome[1] # NULL
<1>1. /\ x.ptr \in Chunks /\ x.ptr # NULL /\ x.size \in 1..PtrMax /\ PtrMax \in Nat
      /\ x.align \in 0..MaxAlignT /\ size \in Nat /\ NULL \notin Chunks
  BY BackendsAssumption DEF BackendInv, TypeOK, Blocks
<1>2. CASE outcome = Failed /\ size > x.size
  BY <1>1, <1>2 DEF Failed, Effect
<1>3. CASE /\ backend = "libc" /\ size \in 1..PtrMax
           /\ \/ outcome = <<x.ptr, [heap EXCEPT ![x.ptr] = size]>>
              \/ size <= x.size /\ outcome = <<x.ptr, heap>>
              \/ \E c \in Chunks :
                   /\ heap[c] = 0
                   /\ outcome = <<c, [heap EXCEPT ![x.ptr] = 0, ![c] = size]>>
  <2>1. outcome[1] \in Chunks
    BY <1>1, <1>3
  <2> DEFINE y == [ptr |-> outcome[1], size |-> size, align |-> x.align]
  <2>2. y \in Blocks /\ y.align = x.align
    BY <1>1, <1>3, <2>1 DEF Blocks
  <2>3. held' = (held \ {x}) \cup {y}
    BY <1>1, <2>1 DEF Hold
  <2>4. Resized(x, y)
    <3>1. CASE outcome = <<x.ptr, [heap EXCEPT ![x.ptr] = size]>>
      BY <1>1, <1>3, <2>2, <2>3, <3>1 DEF Resized
    <3>2. CASE size <= x.size /\ outcome = <<x.ptr, heap>>
      BY <1>1, <1>3, <2>2, <2>3, <3>2 DEF Resized
    <3>3. ASSUME NEW c \in Chunks, heap[c] = 0,
                 outcome = <<c, [heap EXCEPT ![x.ptr] = 0, ![c] = size]>>
          PROVE  Resized(x, y)
      <4>1. y.ptr = c /\ heap' = [heap EXCEPT ![x.ptr] = 0, ![c] = size]
        BY <3>3
      <4>2. heap' = [heap EXCEPT ![x.ptr] = 0, ![y.ptr] = y.size]
        BY <4>1
      <4> QED
        BY <1>1, <1>3, <2>2, <2>3, <3>3, <4>1, <4>2 DEF Resized
    <3> QED
      BY <1>3, <3>1, <3>2, <3>3
  <2> QED
    BY <1>1, <2>1, <2>2, <2>4 DEF Effect
<1> QED
  BY <1>1, <1>2, <1>3, XreallocOutcome

\* A request through xrealloc of NULL is one through xalloc.
LEMMA NullResizeIsAlloc ==
  ASSUME NEW size \in Nat, NEW align \in Nat, backend \in {"libc", "null"}
  PROVE  Xrealloc(NULL, 0, size, align) = Xalloc(size, align)
BY DEF Xrealloc, Xalloc

\* Every step, by its effect, and what it leaves of the last xrealloc.
LEMMA NextEffect ==
  ASSUME BackendInv, Next
  PROVE  Effect /\ UNCHANGED backend /\ last' \in [ptr : Chunks \cup {NULL},
           old_size : Nat, new_size : Nat, grown : Chunks \cup {NULL}] /\ ShrinkServed'
<1>1. ASSUME NEW size \in Sizes, NEW align \in Aligns, Alloc(size, align)
      PROVE  Effect /\ UNCHANGED <<backend, last>>
  BY <1>1, ServedEffect DEF Alloc
<1>2. ASSUME NEW size \in Sizes, NEW align \in Aligns, ResizeNull(size, align)
      PROVE  Effect /\ UNCHANGED backend /\ last'.ptr = NULL /\ last' \in [ptr : Chunks \cup {NULL},
               old_size : Nat, new_size : Nat, grown : Chunks \cup {NULL}]
  <2>1. size \in Nat /\ align \in Nat /\ backend \in {"libc", "null"}
    BY BackendsAssumption DEF BackendInv, TypeOK
  <2>2. PICK outcome \in Xalloc(size, align) :
          /\ heap' = outcome[2] /\ held' = held \cup Hold(outcome[1], size, align)
          /\ last' = [NoRealloc EXCEPT !.new_size = size, !.grown = outcome[1]]
    BY <1>2, <2>1, NullResizeIsAlloc DEF ResizeNull
  <2>3. AlignAsserted(align) /\ UNCHANGED backend
    BY <1>2 DEF ResizeNull
  <2> QED
    BY <2>1, <2>2, <2>3, ServedEffect DEF NoRealloc
<1>3. ASSUME NEW x \in held, NEW size \in Sizes, Resize(x, size)
      PROVE  Effect /\ UNCHANGED backend /\ ShrinkServed' /\ last' \in [ptr : Chunks \cup {NULL},
               old_size : Nat, new_size : Nat, grown : Chunks \cup {NULL}]
  <2>1. size \in Nat /\ size # 0 /\ UNCHANGED backend
    BY <1>3, BackendsAssumption DEF Resize
  <2>2. x.ptr \in Chunks /\ x.size \in Nat
    BY BackendsAssumption DEF BackendInv, TypeOK, Blocks
  <2>3. PICK outcome \in Xrealloc(x.ptr, x.size, size, x.align) :
          /\ heap' = outcome[2]
          /\ held' = IF outcome[1] = NULL THEN held
                     ELSE (held \ {x}) \cup Hold(outcome[1], size, x.align)
          /\ last' = [ptr |-> x.ptr, old_size |-> x.size, new_size |-> size,
                      grown |-> outcome[1]]
    BY <1>3 DEF Resize
  <2> QED
    BY <2>1, <2>2, <2>3, ResizedEffect DEF ShrinkServed
<1>4. ASSUME NEW x \in held, Free(x)
      PROVE  Effect /\ UNCHANGED <<backend, last>>
  <2>1. x.ptr # NULL /\ backend # "null"
    BY BackendsAssumption DEF BackendInv, TypeOK, Blocks
  <2>2. Freed(x)
    BY <1>4, <2>1 DEF Free, Xfree, Freed
  <2> QED
    BY <1>4, <2>2 DEF Free, Effect
<1>5. FreeNull => Effect /\ UNCHANGED <<backend, last>>
  BY DEF FreeNull, Xfree, Effect
<1>6. UNCHANGED last => ShrinkServed' /\ last' \in [ptr : Chunks \cup {NULL},
        old_size : Nat, new_size : Nat, grown : Chunks \cup {NULL}]
  BY DEF BackendInv, TypeOK, ShrinkServed
<1> QED
  BY <1>1, <1>2, <1>3, <1>4, <1>5, <1>6 DEF Next, ShrinkServed
-----------------------------------------------------------------------------
(* The invariant.                                                           *)

\* The facts of the invariant about one block and one chunk.
LEMMA BlockFacts ==
  ASSUME BackendInv
  PROVE  /\ \A x \in held : /\ x \in Blocks /\ x.ptr \in Chunks /\ x.size \in Nat \ {0}
                            /\ x.align \in Nat /\ x.size <= heap[x.ptr]
         /\ \A x, y \in held : x.ptr = y.ptr => x = y
         /\ \A c \in Chunks : heap[c] \in Nat /\ (heap[c] # 0 => \E x \in held : x.ptr = c)
         /\ heap \in [Chunks -> Nat] /\ held \subseteq Blocks /\ PtrMax \in Nat
BY BackendsAssumption DEF BackendInv, TypeOK, ChunksAccounted, Blocks

\* What is left to show of a step that hands out, resizes or frees a block.
LEMMA InvPrime ==
  ASSUME BackendInv, UNCHANGED backend, backend = "libc",
         last' \in [ptr : Chunks \cup {NULL}, old_size : Nat, new_size : Nat,
                    grown : Chunks \cup {NULL}],
         ShrinkServed', heap' \in [Chunks -> Nat], held' \subseteq Blocks,
         ChunksAccounted', \A x \in held' : x.align # 0 => MaxAlignT % x.align = 0
  PROVE  BackendInv'
BY DEF BackendInv, TypeOK

LEMMA EffectInv ==
  ASSUME BackendInv, Effect, UNCHANGED backend,
         last' \in [ptr : Chunks \cup {NULL}, old_size : Nat, new_size : Nat,
                    grown : Chunks \cup {NULL}],
         ShrinkServed'
  PROVE  BackendInv'
<1>1. CASE UNCHANGED <<heap, held>>
  BY <1>1 DEF BackendInv, TypeOK, ChunksAccounted
<1>2. ASSUME NEW c \in Chunks, NEW size \in 1..PtrMax, NEW align \in 0..MaxAlignT,
             Served(c, size, align)
      PROVE  BackendInv'
  <2> DEFINE y == [ptr |-> c, size |-> size, align |-> align]
  <2>1. /\ held' = held \cup {y} /\ heap' = [heap EXCEPT ![c] = size] /\ heap[c] = 0
        /\ backend = "libc" /\ (align # 0 => MaxAlignT % align = 0)
    BY <1>2 DEF Served
  <2>2. y \in Blocks /\ size \in Nat \ {0}
    BY BackendsAssumption DEF Blocks
  <2>3. \A x \in held : x.ptr # c
    BY <2>1, BlockFacts
  <2>4. /\ heap' \in [Chunks -> Nat] /\ heap'[c] = size
        /\ \A d \in Chunks : d # c => heap'[d] = heap[d]
    BY <2>1, <2>2, BlockFacts
  <2>5. ChunksAccounted'
    BY <2>1, <2>2, <2>3, <2>4, BlockFacts DEF ChunksAccounted
  <2>6. held' \subseteq Blocks /\ \A x \in held' : x.align # 0 => MaxAlignT % x.align = 0
    BY <2>1, <2>2, BlockFacts DEF BackendInv
  <2> QED
    BY <2>1, <2>4, <2>5, <2>6, InvPrime
<1>3. ASSUME NEW x \in held, NEW y \in Blocks, Resized(x, y)
      PROVE  BackendInv'
  <2>1. /\ held' = (held \ {x}) \cup {y} /\ backend = "libc" /\ y.align = x.align
        /\ y.ptr \in Chunks /\ y.size \in Nat \ {0} /\ x.ptr \in Chunks
    BY <1>3, BackendsAssumption, BlockFacts DEF Resized, Blocks
  <2>2. \A z \in held \ {x} : z.ptr # y.ptr /\ z.ptr # x.ptr
    BY <1>3, BlockFacts DEF Resized
  <2>3. /\ heap' \in [Chunks -> Nat] /\ y.size <= heap'[y.ptr]
        /\ \A d \in Chunks \ {x.ptr, y.ptr} : heap'[d] = heap[d]
        /\ x.ptr # y.ptr => heap'[x.ptr] = 0
    <3>1. CASE y.ptr = x.ptr /\ heap' = [heap EXCEPT ![x.ptr] = y.size]
      BY <2>1, <3>1, BlockFacts
    <3>2. CASE y.ptr = x.ptr /\ y.size <= x.size /\ heap' = heap
      BY <2>1, <3>2, BlockFacts
    <3>3. CASE heap[y.ptr] = 0 /\ heap' = [heap EXCEPT ![x.ptr] = 0, ![y.ptr] = y.size]
      BY <2>1, <3>3, BlockFacts
    <3> QED
      BY <1>3, <3>1, <3>2, <3>3 DEF Resized
  <2>4. ChunksAccounted'
    <3>1. \A z \in held' : z.size <= heap'[z.ptr]
      BY <2>1, <2>2, <2>3, BlockFacts
    <3>2. \A z, w \in held' : z.ptr = w.ptr => z = w
      BY <2>1, <2>2, BlockFacts
    <3>3. \A d \in Chunks : heap'[d] # 0 => \E z \in held' : z.ptr = d
      BY <2>1, <2>2, <2>3, BlockFacts
    <3> QED
      BY <3>1, <3>2, <3>3 DEF ChunksAccounted
  <2>5. held' \subseteq Blocks /\ \A z \in held' : z.align # 0 => MaxAlignT % z.align = 0
    BY <2>1, BlockFacts DEF BackendInv
  <2> QED
    BY <2>1, <2>3, <2>4, <2>5, InvPrime
<1>4. ASSUME NEW x \in held, Freed(x)
      PROVE  BackendInv'
  <2>1. held' = held \ {x} /\ heap' = [heap EXCEPT ![x.ptr] = 0] /\ x.ptr \in Chunks
    BY <1>4, BlockFacts DEF Freed
  <2>2. backend = "libc"
    BY DEF BackendInv, TypeOK
  <2>3. /\ heap' \in [Chunks -> Nat] /\ heap'[x.ptr] = 0
        /\ \A d \in Chunks \ {x.ptr} : heap'[d] = heap[d]
    BY <2>1, BlockFacts
  <2>4. \A z \in held' : z.ptr # x.ptr
    BY <2>1, BlockFacts
  <2>5. ChunksAccounted'
    BY <2>1, <2>3, <2>4, BlockFacts DEF ChunksAccounted
  <2>6. held' \subseteq Blocks /\ \A z \in held' : z.align # 0 => MaxAlignT % z.align = 0
    BY <2>1, BlockFacts DEF BackendInv
  <2> QED
    BY <2>2, <2>3, <2>5, <2>6, InvPrime
<1> QED
  BY <1>1, <1>2, <1>3, <1>4 DEF Effect

\* The invariant holds of every behaviour, and every step of one is an Effect.
LEMMA BackendInvHolds == Spec => []BackendInv
<1>1. Init => BackendInv
  BY BackendsAssumption DEF Init, BackendInv, TypeOK, ChunksAccounted, ShrinkServed, NoRealloc
<1>2. BackendInv /\ [Next]_vars => BackendInv'
  <2> SUFFICES ASSUME BackendInv, [Next]_vars PROVE BackendInv'
    OBVIOUS
  <2>1. CASE Next
    BY <2>1, NextEffect, EffectInv
  <2>2. CASE UNCHANGED vars
    BY <2>2 DEF vars, BackendInv, TypeOK, ChunksAccounted, ShrinkServed
  <2> QED
    BY <2>1, <2>2
<1> QED
  BY <1>1, <1>2, PTL DEF Spec
-----------------------------------------------------------------------------
(* The theorems.                                                            *)

\* Whatever the sizes and however malloc and realloc answer, every chunk of the heap is
\* held by exactly one block that fits in it (alloc_libc_xrealloc, alloc_libc_xfree).
THEOREM ChunksAlwaysAccounted == Spec => []ChunksAccounted
BY BackendInvHolds, PTL DEF BackendInv

\* No shrink of a held block is ever refused, even when realloc fails it
\* (the rescue at the end of alloc_libc_xrealloc).
THEOREM ShrinkAlwaysServed == Spec => []ShrinkServed
BY BackendInvHolds, PTL DEF BackendInv
-----------------------------------------------------------------------------
(* The refinement.                                                          *)

Regions == {Lease(x) : x \in held}

\* A block that came through the guards meets the contract apart from other chunks.
LEMMA LeaseFresh ==
  ASSUME NEW x \in Blocks, x.align # 0 => MaxAlignT % x.align = 0,
         NEW others, \A y \in others : y.mem # x.ptr
  PROVE  Contract!Fresh(Lease(x), others)
<1>1. x.ptr \in Nat /\ x.align \in Nat /\ x.size \in 1..PtrMax /\ MaxAlignT \in Nat \ {0}
  <2>1. x.ptr \in Chunks /\ x.align \in 0..MaxAlignT /\ x.size \in 1..PtrMax
    BY DEF Blocks
  <2>2. Chunks \subseteq Nat /\ MaxAlignT \in Nat \ {0} /\ PtrMax \in Nat
    BY BackendsAssumption
  <2>3. x.ptr \in Nat
    BY <2>1, <2>2
  <2>4. x.align \in Nat
    BY <2>1, <2>2
  <2> QED
    BY <2>1, <2>2, <2>3, <2>4
<1> DEFINE a == IF x.align = 0 THEN MaxAlignT ELSE x.align
<1>2. a \in Nat \ {0} /\ MaxAlignT % a = 0
  BY <1>1
<1>3. (x.ptr * MaxAlignT) % a = 0
  BY <1>1, <1>2, ChunkAligned
<1>4. /\ Lease(x).mem = x.ptr /\ Lease(x).addr = x.ptr * MaxAlignT
      /\ Lease(x).size = x.size /\ Lease(x).align = a
  BY DEF Lease
<1>5. \A y \in others : ~Contract!Overlap(Lease(x), y)
  BY <1>4 DEF Contract!Overlap
<1> QED
  BY <1>1, <1>3, <1>4, <1>5 DEF Contract!Fresh

LEMMA EffectRefines ==
  ASSUME BackendInv, BackendInv', Effect
  PROVE  [Contract!Next]_<<Regions, FALSE>>
<1>1. CASE UNCHANGED <<heap, held>>
  BY <1>1 DEF Regions, Lease
<1>2. ASSUME NEW c \in Chunks, NEW size \in 1..PtrMax, NEW align \in 0..MaxAlignT,
             Served(c, size, align)
      PROVE  Contract!XAlloc
  <2> DEFINE y == [ptr |-> c, size |-> size, align |-> align]
  <2>1. held' = held \cup {y} /\ heap[c] = 0 /\ (align # 0 => MaxAlignT % align = 0)
    BY <1>2 DEF Served
  <2>2. y \in Blocks
    BY <1>2 DEF Blocks
  <2>3. \A r \in Regions : r.mem # c
    BY <2>1, BlockFacts DEF Regions, Lease
  <2>4. Contract!Fresh(Lease(y), Regions)
    BY <2>1, <2>2, <2>3, LeaseFresh
  <2>5. Regions' = Regions \cup {Lease(y)}
    BY <2>1 DEF Regions, Lease
  <2>6. Lease(y) \in Regions' \ Regions
    BY <2>3, <2>5 DEF Lease
  <2> QED
    BY <2>4, <2>5, <2>6 DEF Contract!XAlloc, Regions
<1>3. ASSUME NEW x \in held, NEW y \in Blocks, Resized(x, y)
      PROVE  Contract!XRealloc
  <2>1. held' = (held \ {x}) \cup {y} /\ y.align = x.align
    BY <1>3 DEF Resized
  <2>2. \A z \in held \ {x} : z.ptr # y.ptr /\ z.ptr # x.ptr
    BY <1>3, BlockFacts DEF Resized
  <2>3. y.align # 0 => MaxAlignT % y.align = 0
    BY <2>1 DEF BackendInv
  <2>4. Regions \ {Lease(x)} = {Lease(z) : z \in held \ {x}}
    BY <2>2 DEF Regions, Lease
  <2>5. Regions' = (Regions \ {Lease(x)}) \cup {Lease(y)}
    BY <2>1, <2>4 DEF Regions, Lease
  <2>6. Contract!Fresh(Lease(y), Regions \ {Lease(x)})
    <3>1. \A r \in Regions \ {Lease(x)} : r.mem # y.ptr
      BY <2>2, <2>4 DEF Lease
    <3> QED
      BY <2>3, <3>1, LeaseFresh
  <2>7. Lease(y).align = Lease(x).align /\ Lease(y).scope = Lease(x).scope
    BY <2>1 DEF Lease
  <2>8. \/ <<Lease(y).mem, Lease(y).addr>> = <<Lease(x).mem, Lease(x).addr>>
        \/ ~Contract!Overlap(Lease(x), Lease(y))
    BY DEF Lease, Contract!Overlap
  <2> QED
    BY <2>5, <2>6, <2>7, <2>8 DEF Contract!XRealloc, Regions
<1>4. ASSUME NEW x \in held, Freed(x)
      PROVE  Contract!XFree
  <2>1. held' = held \ {x}
    BY <1>4 DEF Freed
  <2>2. \A z \in held \ {x} : z.ptr # x.ptr
    BY BlockFacts
  <2>3. Regions' = Regions \ {Lease(x)}
    BY <2>1, <2>2 DEF Regions, Lease
  <2> QED
    BY <2>3 DEF Contract!XFree, Regions
<1> QED
  BY <1>1, <1>2, <1>3, <1>4 DEF Effect, Contract!Next

\* The libc and the null backend are what alloc.h promises the holder of an alloc_t:
\* a served request is in range, aligned and apart from everything held, a resize
\* keeps the alignment, and a refusal changes nothing.
THEOREM BackendsKeepContract == Spec => ImplementsAlloc
<1>1. Init => Contract!Init
  BY DEF Init, Contract!Init
<1>2. BackendInv /\ BackendInv' /\ [Next]_vars => [Contract!Next]_<<Regions, FALSE>>
  <2> SUFFICES ASSUME BackendInv, BackendInv', [Next]_vars
               PROVE  [Contract!Next]_<<Regions, FALSE>>
    OBVIOUS
  <2>1. CASE Next
    BY <2>1, NextEffect, EffectRefines
  <2>2. CASE UNCHANGED vars
    BY <2>2 DEF vars, Regions, Lease
  <2> QED
    BY <2>1, <2>2
<1> QED
  BY <1>1, <1>2, BackendInvHolds, PTL DEF Spec, ImplementsAlloc, Contract!Spec, Regions
=============================================================================
