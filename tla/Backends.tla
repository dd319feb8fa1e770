------------------------------ MODULE Backends ------------------------------
(***************************************************************************)
(* The libc and null backends of agenc-arena/src/arena.c, called through the *)
(* helpers of alloc.h by a client that keeps to its preconditions.  malloc,  *)
(* realloc and free are external: each may fail, and realloc may move.       *)
(* A call is described by its outcomes, pairs of what it returns and what it *)
(* leaves in the heap.                                                       *)
(***************************************************************************)
EXTENDS Integers, FiniteSets

CONSTANTS
  Chunks,         \* what malloc can return: chunk c is at address c * MaxAlignT
  NULL,
  MaxAlignT,      \* _Alignof(max_align_t)
  PtrMax,         \* PTRDIFF_MAX
  Sizes, Aligns   \* arguments of the calls

ASSUME BackendsAssumption ==
  /\ Chunks \subseteq Nat /\ NULL \notin Chunks
  /\ MaxAlignT \in Nat \ {0} /\ PtrMax \in Nat
  /\ Sizes \subseteq Nat /\ Aligns \subseteq Nat

VARIABLES
  backend,        \* which of the two the client was given
  heap,           \* the chunk sizes malloc knows, 0 when free
  held,           \* what the client holds: [ptr, size, align]
  last            \* the last xrealloc: [ptr, old_size, new_size, grown]

vars == <<backend, heap, held, last>>

NoRealloc == [ptr |-> NULL, old_size |-> 0, new_size |-> 0, grown |-> NULL]

Init ==
  /\ backend \in {"libc", "null"}
  /\ heap = [c \in Chunks |-> 0] /\ held = {} /\ last = NoRealloc
-----------------------------------------------------------------------------
(* The external heap.                                                       *)

Unused == {c \in Chunks : heap[c] = 0}
Failed == <<NULL, heap>>

Malloc(size) == {Failed} \cup {<<c, [heap EXCEPT ![c] = size]>> : c \in Unused}

Realloc(ptr, size) ==
  {Failed, <<ptr, [heap EXCEPT ![ptr] = size]>>}
    \cup {<<c, [heap EXCEPT ![ptr] = 0, ![c] = size]>> : c \in Unused}
-----------------------------------------------------------------------------
(* The backends.                                                            *)

\* fault: any alignment will do
AnyAlign(size, align) == size # 0 /\ size <= PtrMax

\* The guards of alloc_libc_xalloc and alloc_libc_xrealloc.
Supported(size, align) == size # 0 /\ size <= PtrMax /\ align <= MaxAlignT

Xalloc(size, align) ==
  IF backend = "libc" /\ Supported(size, align) THEN Malloc(size) ELSE {Failed}

\* fault: the failed shrink is reported
NoRescue(outcome, ptr, old_size, new_size) == outcome

\* fault: the old block is handed back whatever was asked for
RescueAlways(outcome, ptr, old_size, new_size) ==
  IF outcome = Failed THEN <<ptr, heap>> ELSE outcome

\* ISO C lets realloc fail on a shrink; the old block already serves it.
Rescue(outcome, ptr, old_size, new_size) ==
  IF outcome = Failed /\ new_size <= old_size THEN <<ptr, heap>> ELSE outcome

Xrealloc(ptr, old_size, new_size, align) ==
  IF backend = "null" \/ ~Supported(new_size, align) THEN {Failed}
  ELSE IF ptr = NULL THEN Malloc(new_size)
  ELSE {Rescue(outcome, ptr, old_size, new_size) : outcome \in Realloc(ptr, new_size)}

Xfree(ptr) ==
  IF backend = "null" \/ ptr = NULL THEN heap ELSE [heap EXCEPT ![ptr] = 0]
-----------------------------------------------------------------------------
(* The client, through the helpers of alloc.h.                              *)

\* The assert of the helpers: 0 or a power of two.
AlignAsserted(align) == align = 0 \/ \E k \in 0..align : align = 2 ^ k

\* MaxAlignT is a power of two, so a smaller one divides it.
ASSUME MaxAlignTAssumption ==
  \A align \in Aligns \ {0} :
    AlignAsserted(align) /\ align <= MaxAlignT => MaxAlignT % align = 0

Hold(ptr, size, align) ==
  IF ptr = NULL THEN {} ELSE {[ptr |-> ptr, size |-> size, align |-> align]}

\* alloc_alloc, and alloc_zeroed
Alloc(size, align) ==
  /\ AlignAsserted(align)
  /\ \E outcome \in Xalloc(size, align) :
       /\ heap' = outcome[2]
       /\ held' = held \cup Hold(outcome[1], size, align)
  /\ UNCHANGED <<backend, last>>

\* alloc_realloc of a held block, by its own size and alignment.
Resize(x, new_size) ==
  /\ new_size # 0
  /\ \E outcome \in Xrealloc(x.ptr, x.size, new_size, x.align) :
       /\ heap' = outcome[2]
       /\ held' = IF outcome[1] = NULL THEN held
                  ELSE (held \ {x}) \cup Hold(outcome[1], new_size, x.align)
       /\ last' = [ptr |-> x.ptr, old_size |-> x.size, new_size |-> new_size,
                   grown |-> outcome[1]]
  /\ UNCHANGED backend

\* alloc_realloc of NULL.
ResizeNull(new_size, align) ==
  /\ new_size # 0 /\ AlignAsserted(align)
  /\ \E outcome \in Xrealloc(NULL, 0, new_size, align) :
       /\ heap' = outcome[2]
       /\ held' = held \cup Hold(outcome[1], new_size, align)
       /\ last' = [NoRealloc EXCEPT !.new_size = new_size, !.grown = outcome[1]]
  /\ UNCHANGED backend

\* alloc_free
Free(x) ==
  /\ heap' = Xfree(x.ptr)
  /\ held' = held \ {x}
  /\ UNCHANGED <<backend, last>>

FreeNull == heap' = Xfree(NULL) /\ UNCHANGED <<backend, held, last>>

Next ==
  \/ \E size \in Sizes, align \in Aligns : Alloc(size, align) \/ ResizeNull(size, align)
  \/ \E x \in held, size \in Sizes : Resize(x, size)
  \/ \E x \in held : Free(x)
  \/ FreeNull

Spec == Init /\ [][Next]_vars
-----------------------------------------------------------------------------
(* Properties.                                                              *)

\* Every chunk malloc gave out is held by exactly one block, which fits in it, through
\* moves, refusals and shrinks served by the old block: nothing leaks, nothing is
\* freed twice, and no block is larger than its chunk (alloc_libc_xrealloc).
ChunksAccounted ==
  /\ \A x \in held : x.size <= heap[x.ptr]
  /\ \A x, y \in held : x.ptr = y.ptr => x = y
  /\ \A c \in Chunks : heap[c] # 0 => \E x \in held : x.ptr = c

\* alloc.h: the libc backend never fails a shrink, whatever realloc does.
ShrinkServed ==
  last.ptr # NULL /\ last.new_size <= last.old_size => last.grown # NULL

Lease(x) == [mem |-> x.ptr, addr |-> x.ptr * MaxAlignT, size |-> x.size,
             align |-> IF x.align = 0 THEN MaxAlignT ELSE x.align, scope |-> 0]

Contract == INSTANCE AllocContract
              WITH regions <- {Lease(x) : x \in held}, latched <- FALSE

\* Both backends are what alloc.h promises: a served request is aligned and apart
\* from what the client holds, and a refused one changes nothing.
ImplementsAlloc == Contract!Spec
=============================================================================
