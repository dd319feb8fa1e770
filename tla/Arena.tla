------------------------------- MODULE Arena -------------------------------
(***************************************************************************)
(* The region allocator of agenc-arena/src/arena.c: one arena, the parent  *)
(* allocator it takes blocks from, and one client that keeps to the        *)
(* contract of arena.h.                                                    *)
(*                                                                         *)
(* Sequential C: one public call is one action.  The block lists are kept  *)
(* as sequences of block addresses: chain is a->current and the link       *)
(* fields behind it, OLDEST FIRST, so that a->current is Last(chain) and   *)
(* the link of chain[i] is chain[i-1]; freeList is a->free_blocks, its     *)
(* head first.  A data byte is a pair <<block, offset>>.                   *)
(*                                                                         *)
(* Definitions marked "fault" are what the next definition would be with   *)
(* one plausible mistake; nothing here uses them.  They show that the      *)
(* properties tell the difference.                                         *)
(***************************************************************************)
EXTENDS Integers, FiniteSets, SequencesExt

CONSTANTS
  Blocks,           \* the addresses the parent can hand out
  NULL,             \* the null block pointer
  Hdr,              \* ARENA_BLOCK_HDR
  FixedOverhead,    \* ARENA_FIXED_OVERHEAD
  BlockAlign,       \* _Alignof(struct arena_block)
  MinDefault,       \* ARENA_MIN_BLOCK_DEFAULT
  MaxDefault,       \* ARENA_MAX_BLOCK_DEFAULT
  DefaultAlign,     \* ARENA_DEFAULT_ALIGN
  MaxAlign,         \* ARENA_MAX_ALIGN
  AlignFloor,       \* 8 in an AddressSanitizer build, else 1
  Redzone,          \* ARENA_REDZONE
  Half,             \* 2 ^ (bits of size_t / 2)
  PtrMax            \* PTRDIFF_MAX

\* What the client and the parent may do, and the bounds of the model.
CONSTANTS
  Skews,            \* data address of a parent's block, modulo MaxAlign
  SizedArgs,        \* <<min_block, max_block>> passed to arena_init_sized
  BufferSizes,      \* sizes passed to arena_init_fixed
  Counts, Sizes, Aligns,  \* arguments of the allocation calls
  MaxDepth,         \* bound on nested temp scopes
  MaxGeneration     \* bound on resets and deinits

SizeMod == Half * Half  \* size_t arithmetic is modulo this

ASSUME BlocksAssumption == IsFiniteSet(Blocks) /\ NULL \notin Blocks
ASSUME LayoutAssumption ==
  /\ Hdr \in Nat \ {0} /\ BlockAlign \in Nat \ {0} /\ Redzone \in Nat
  /\ FixedOverhead \in Nat /\ Hdr + BlockAlign - 1 <= FixedOverhead
ASSUME PolicyAssumption ==
  /\ MinDefault \in Nat /\ MaxDefault \in Nat
  /\ FixedOverhead <= MinDefault /\ MinDefault <= MaxDefault
  /\ MaxDefault <= PtrMax
ASSUME AlignAssumption ==
  /\ MaxAlign \in Nat \ {0}
  /\ DefaultAlign \in 1..MaxAlign /\ AlignFloor \in 1..MaxAlign
  /\ Skews \subseteq 0..(MaxAlign - 1)
ASSUME WidthAssumption ==
  /\ Half \in Nat \ {0} /\ PtrMax \in Nat
  /\ 2 * (PtrMax + 1) = SizeMod
ASSUME ArgsAssumption ==
  /\ SizedArgs \subseteq Nat \X Nat /\ BufferSizes \subseteq Nat
  /\ Counts \subseteq Nat /\ Sizes \subseteq Nat /\ Aligns \subseteq Nat
  /\ MaxDepth \in Nat /\ MaxGeneration \in Nat

VARIABLES
  chain, freeList,  \* the two lists of blocks
  block,            \* the header fields of each block, and its address skew
  used, committed, high_water,
  next_block, max_block,
  temp_depth, generation,
  fixed,            \* a->flags & ARENA_FLAG_FIXED
  parentRefuses,    \* a->parent is alloc_null(): it never gives a block
  status,
  held,             \* the parent's ledger: bytes it lent at each address
  scopes,           \* the arena_temp_t values the client holds, LIFO
  aborted,          \* an assert() of a debug build has failed: the last step
  live,             \* the regions handed out and not reclaimed
  abandoned,        \* bytes of realloc sources left behind
  shadow            \* the addressable data bytes, as ASan or Valgrind sees them

heap   == <<chain, freeList, block, committed, held, next_block>>
stats  == <<used, high_water, live, abandoned, shadow>>
policy == <<max_block, fixed, parentRefuses>>
epoch  == <<temp_depth, generation, scopes>>
vars   == <<heap, stats, policy, epoch, status, aborted>>

-----------------------------------------------------------------------------
Absent == [cap |-> 0, used |-> 0, oversize |-> FALSE, skew |-> 0]

Larger(m, n) == IF m > n THEN m ELSE n

SmallerInverted(m, n) == IF m < n THEN n ELSE m  \* fault: the comparison turned round
Smaller(m, n) == IF m < n THEN m ELSE n

Bytes(b, from, to) == {b} \X (from..(to - 1))
Region(x) == Bytes(x.blk, x.off, x.off + x.size)
Extent(x) == Bytes(x.blk, x.off, x.off + x.size + Redzone)
Consumed(cells) == UNION {Bytes(b, 0, cells[b].used) : b \in Blocks}

Current == Last(chain)

\* fault: the loop also pops the block it should stop at
PoppedInclusive(k) == {chain[i] : i \in Larger(k, 1)..Len(chain)}
Popped(k) == {chain[i] : i \in (k + 1)..Len(chain)}  \* entered after chain[k]

\* The bytes of the blocks in S, headers included, as the parent counts them.
Footprint(S) ==
  Cardinality(UNION {{b} \X (1..(Hdr + block[b].cap)) : b \in S})

IsPowerOfTwo(n) == \E k \in 0..n : n = 2 ^ k
AlignValid(align) == align = 0 \/ (align \in 1..MaxAlign /\ IsPowerOfTwo(align))
AlignEffective(align) ==
  Larger(IF align = 0 THEN DefaultAlign ELSE align, AlignFloor)

\* arena_fail: the first failure sticks; nothing else changes.
Fail(error) ==
  /\ status' = IF status = "OK" THEN error ELSE status
  /\ UNCHANGED <<heap, stats, policy, epoch, aborted>>

NoEffect == UNCHANGED vars

-----------------------------------------------------------------------------
(* Initial states: each way of initialising an arena. *)

InitFields(next, max, flag, refuses, error) ==
  /\ freeList = <<>> /\ used = 0 /\ high_water = 0
  /\ next_block = next /\ max_block = max /\ fixed = flag
  /\ parentRefuses = refuses /\ status = error
  /\ temp_depth = 0 /\ generation = 0 /\ scopes = <<>> /\ aborted = FALSE
  /\ held = [b \in Blocks |-> 0]
  /\ live = {} /\ abandoned = {} /\ shadow = {}

NoBlocks == chain = <<>> /\ block = [b \in Blocks |-> Absent] /\ committed = 0

InitDefault == NoBlocks /\ InitFields(MinDefault, MaxDefault, FALSE, FALSE, "OK")

InitSized(min, max) ==
  /\ NoBlocks
  /\ \/ /\ min < FixedOverhead \/ min > max \/ max > PtrMax
        /\ InitFields(MinDefault, MaxDefault, FALSE, FALSE, "ERR_ARG")
     \/ /\ min >= FixedOverhead /\ min <= max /\ max <= PtrMax
        /\ InitFields(min, max, FALSE, FALSE, "OK")

\* The header is placed at the first aligned byte of the caller's buffer.
FixedPad(base) == (-base) % BlockAlign

InitFixed(size, base) ==
  \/ /\ size = 0 \/ size > PtrMax
     /\ NoBlocks
     /\ InitFields(0, 0, TRUE, TRUE, IF size = 0 THEN "ERR_ARG" ELSE "ERR_OVERFLOW")
  \/ /\ size \in 1..PtrMax /\ size < FixedPad(base) + Hdr
     /\ chain = <<>> /\ block = [b \in Blocks |-> Absent] /\ committed = size
     /\ InitFields(0, 0, TRUE, TRUE, "OK")
  \/ /\ size \in 1..PtrMax /\ size >= FixedPad(base) + Hdr
     /\ \E b \in Blocks :
          /\ chain = <<b>>
          /\ block = [[c \in Blocks |-> Absent] EXCEPT ![b] =
               [cap |-> size - FixedPad(base) - Hdr, used |-> 0, oversize |-> FALSE,
                skew |-> (base + FixedPad(base) + Hdr) % MaxAlign]]
     /\ committed = size
     /\ InitFields(0, 0, TRUE, TRUE, "OK")

Init ==
  \/ InitDefault
  \/ \E args \in SizedArgs : InitSized(args[1], args[2])
  \/ \E size \in BufferSizes, base \in Skews : InitFixed(size, base)

-----------------------------------------------------------------------------
(* Allocation.  Every entry point ends in AllocCore.  realloc's move path  *)
(* hands over the region it replaces: old is {} or {x}.                     *)

\* fault: the offset is aligned, not the address
PadOffset(cell, align) == (-cell.used) % align
Pad(cell, align) == (-(cell.skew + cell.used)) % align

\* fault: the padding is left out of the comparison
FitsUnpadded(cell, size, align) == size + Redzone <= cell.cap - cell.used
Fits(cell, size, align) ==
  Pad(cell, align) + size + Redzone <= cell.cap - cell.used

\* arena_try_bump on a block it fits in, then the end of arena_realloc_move.
Carve(b, cell, size, align, old, oldSize) ==
  LET pad   == Pad(cell, align)
      total == size + Redzone
      new   == [blk |-> b, off |-> cell.used + pad, size |-> size,
                align |-> align, depth |-> temp_depth]
      moved == UNION {Region(x) : x \in old}
  IN /\ block' = [block EXCEPT ![b] = [cell EXCEPT !.used = @ + pad + total]]
     /\ used' = used + pad + total - oldSize
     /\ high_water' = Larger(high_water, used + pad + total)
     /\ live' = (live \ old) \cup {new}
     /\ abandoned' = abandoned \cup moved
     /\ shadow' = (shadow \cup Region(new)) \ moved

\* fault: no slack for the padding
DataNeedBare(size, align) == size + Redzone
DataNeed(size, align) == size + (align - 1) + Redzone

\* The bump after a block was linked: it must fit, or the assert fails.
BumpEntered(b, cell, size, align, old, oldSize) ==
  /\ chain' = Append(chain, b)
  /\ aborted' = ~Fits(cell, size, align)
  /\ IF Fits(cell, size, align)
     THEN Carve(b, cell, size, align, old, oldSize)
     ELSE block' = [block EXCEPT ![b] = cell] /\ UNCHANGED stats

FirstListed(i, need) == i = 1  \* fault: takes the head whatever its size
FirstFit(i, need) ==
  /\ block[freeList[i]].cap >= need
  /\ \A j \in 1..(i - 1) : block[freeList[j]].cap < need

TakeFreeBlock(size, align, old, oldSize) ==
  \E i \in DOMAIN freeList :
    /\ FirstFit(i, DataNeed(size, align))
    /\ freeList' = RemoveAt(freeList, i)
    /\ BumpEntered(freeList[i], block[freeList[i]], size, align, old, oldSize)
    /\ UNCHANGED <<committed, held, next_block, policy, epoch, status>>

NewBlockSize(need) == Larger(next_block, Hdr + need)

NoneFits(need) == \A i \in DOMAIN freeList : block[freeList[i]].cap < need

\* arena_new_block when the parent answers, and the bump.
TakeNewBlock(size, align, old, oldSize) ==
  LET blockSize == NewBlockSize(DataNeed(size, align))
      oversize  == blockSize # next_block
  IN /\ ~parentRefuses
     /\ \E b \in Blocks, skew \in Skews :
          /\ held[b] = 0
          /\ held' = [held EXCEPT ![b] = blockSize]
          /\ BumpEntered(b, [cap |-> blockSize - Hdr, used |-> 0,
                             oversize |-> oversize, skew |-> skew],
                         size, align, old, oldSize)
     /\ next_block' = IF oversize THEN next_block ELSE Smaller(2 * next_block, max_block)
     /\ committed' = committed + blockSize
     /\ UNCHANGED <<freeList, policy, epoch, status>>

GrowAndBump(size, align, old, oldSize) ==
  \/ /\ fixed
     /\ Fail("ERR_ALLOC")
  \/ /\ ~fixed
     /\ DataNeed(size, align) > PtrMax - Hdr
     /\ Fail("ERR_OVERFLOW")
  \/ /\ ~fixed
     /\ DataNeed(size, align) <= PtrMax - Hdr
     /\ \/ TakeFreeBlock(size, align, old, oldSize)
        \/ /\ NoneFits(DataNeed(size, align))
           /\ \/ TakeNewBlock(size, align, old, oldSize)
              \/ Fail("ERR_ALLOC")                    \* the parent refuses

FitsCurrent(size, align) == chain # <<>> /\ Fits(block[Current], size, align)

BumpCurrent(size, align, old, oldSize) ==
  /\ FitsCurrent(size, align)
  /\ Carve(Current, block[Current], size, align, old, oldSize)
  /\ UNCHANGED <<chain, freeList, committed, held, next_block>>
  /\ UNCHANGED <<policy, epoch, status, aborted>>

AllocCore(size, align, old, oldSize) ==
  \/ BumpCurrent(size, align, old, oldSize)
  \/ ~FitsCurrent(size, align) /\ GrowAndBump(size, align, old, oldSize)

\* The count * size guard divides only when an operand fills half a word.
ProductWraps(count, size) ==  \* fault: only the wrapped product is compared
  (count * size) % SizeMod > PtrMax
ProductOverflows(count, size) ==
  \/ (count >= Half \/ size >= Half) /\ count > PtrMax \div size
  \/ (count * size) % SizeMod > PtrMax

AllocImpl(count, size, align, old, oldSize) ==
  \/ status # "OK" /\ NoEffect
  \/ status = "OK" /\ ~AlignValid(align) /\ Fail("ERR_ARG")
  \/ /\ status = "OK" /\ AlignValid(align)
     /\ \/ /\ count = 0 \/ size = 0
           /\ NoEffect
        \/ /\ count # 0 /\ size # 0
           /\ \/ ProductOverflows(count, size) /\ Fail("ERR_OVERFLOW")
              \/ /\ ~ProductOverflows(count, size)
                 /\ AllocCore((count * size) % SizeMod, AlignEffective(align),
                              old, oldSize)

AllocDefault(size) ==
  \/ (status # "OK" \/ size = 0) /\ NoEffect
  \/ /\ status = "OK" /\ size # 0
     /\ \/ size > PtrMax /\ Fail("ERR_OVERFLOW")
        \/ size <= PtrMax /\ AllocCore(size, AlignEffective(0), {}, 0)

Alloc(size) == AllocDefault(size)                        \* and its _zeroed form
AllocN(count, size, align) == AllocImpl(count, size, align, {}, 0)

MemDup(srcIsNull, size) ==
  \/ status = "OK" /\ srcIsNull /\ size # 0 /\ Fail("ERR_ARG")
  \/ (status # "OK" \/ ~srcIsNull \/ size = 0) /\ AllocDefault(size)

-----------------------------------------------------------------------------
(* Resizing and releasing one region.                                       *)

\* fault: the end of the region is not compared with the cursor
IsLastByBlock(x) == chain # <<>> /\ x.blk = Current
IsLastAlloc(x) ==
  /\ chain # <<>> /\ x.blk = Current
  /\ x.size <= block[Current].used
  /\ x.off + x.size + Redzone = block[Current].used

\* fault: the extension is not made addressable on this path
ResizedShadowShrunk(x, newSize) ==
  shadow \ Bytes(x.blk, x.off + newSize, x.off + x.size)
ResizedShadow(x, newSize) ==
  (shadow \ Bytes(x.blk, x.off + newSize, x.off + x.size))
    \cup Bytes(x.blk, x.off + x.size, x.off + newSize)

\* arena_try_resize_last, by a positive or a negative amount.
ResizeInPlace(x, newSize) ==
  LET diff == newSize - x.size
  IN /\ block' = [block EXCEPT ![x.blk].used = @ + diff]
     /\ used' = used + diff
     /\ high_water' = Larger(high_water, used + diff)
     /\ live' = (live \ {x}) \cup {[x EXCEPT !.size = newSize]}
     /\ shadow' = ResizedShadow(x, newSize)
     /\ UNCHANGED <<chain, freeList, committed, held, next_block, abandoned>>
     /\ UNCHANGED <<policy, epoch, status, aborted>>

CanResize(x, newSize) ==
  /\ IsLastAlloc(x)
  /\ newSize - x.size <= block[Current].cap - block[Current].used

Realloc(x, newSize, align) ==
  \/ status # "OK" /\ NoEffect
  \/ /\ status = "OK" /\ (~AlignValid(align) \/ newSize = 0)
     /\ Fail("ERR_ARG")
  \/ /\ status = "OK" /\ AlignValid(align) /\ newSize # 0
     /\ \/ newSize > PtrMax /\ Fail("ERR_OVERFLOW")
        \/ newSize <= PtrMax /\ CanResize(x, newSize) /\ ResizeInPlace(x, newSize)
        \/ /\ newSize <= PtrMax /\ ~CanResize(x, newSize)
           /\ AllocImpl(1, newSize, align, {x}, x.size)

ReallocNull(newSize, align) ==
  \/ status # "OK" /\ NoEffect
  \/ /\ status = "OK" /\ (~AlignValid(align) \/ newSize = 0)
     /\ Fail("ERR_ARG")
  \/ /\ status = "OK" /\ AlignValid(align) /\ newSize # 0
     /\ AllocImpl(1, newSize, align, {}, 0)

GivenBack(x) == x.size + Redzone

RollBack(x) ==
  /\ IsLastAlloc(x)
  /\ block' = [block EXCEPT ![x.blk].used = x.off]
  /\ used' = used - GivenBack(x)
  /\ live' = live \ {x}
  /\ shadow' = shadow \ Bytes(x.blk, x.off, block[x.blk].used)
  /\ UNCHANGED <<chain, freeList, committed, held, next_block, high_water, abandoned>>
  /\ UNCHANGED <<policy, epoch, status, aborted>>

\* arena_adapter_xfree.  When it is a no-op the region stays in live: the
\* arena has not reclaimed it.
XFree(x) == RollBack(x) \/ (~IsLastAlloc(x) /\ NoEffect)

-----------------------------------------------------------------------------
(* Bulk operations.                                                         *)

\* arena_release_block on every block of S.
Release(S) ==
  /\ committed' = committed - Footprint(S)
  /\ held' = [b \in Blocks |-> IF b \in S THEN 0 ELSE held[b]]

\* order lists the blocks of S oldest first, as the chain does.
ChainOrder(order) ==
  \A i, j \in DOMAIN chain, m, n \in DOMAIN order :
    m < n /\ chain[i] = order[m] /\ chain[j] = order[n] => i < j

\* The blocks of S leave the chain, newest first: an oversize block goes back
\* to the parent, a normal one is rewound and pushed on the free list.
Discard(S) ==
  LET normal == {b \in S : ~block[b].oversize}
  IN /\ \E order \in SetToSeqs(normal) :
          ChainOrder(order) /\ freeList' = order \o freeList
     /\ Release(S \ normal)

DiscardedKept(b) ==  \* fault: a retired block is not rewound
  IF block[b].oversize THEN Absent ELSE block[b]
Discarded(b) == IF block[b].oversize THEN Absent ELSE [block[b] EXCEPT !.used = 0]

\* fault: the depth is read before it is raised
SnapshotEarlyDepth(depth) ==
  [block      |-> IF chain = <<>> THEN NULL ELSE Current,
   block_used |-> IF chain = <<>> THEN 0 ELSE block[Current].used,
   used |-> used, generation |-> generation, depth |-> temp_depth]
Snapshot(depth) ==
  [block      |-> IF chain = <<>> THEN NULL ELSE Current,
   block_used |-> IF chain = <<>> THEN 0 ELSE block[Current].used,
   used |-> used, generation |-> generation, depth |-> depth]

TempBegin ==
  /\ temp_depth < MaxDepth
  /\ temp_depth' = temp_depth + 1
  /\ scopes' = Append(scopes, Snapshot(temp_depth + 1))
  /\ UNCHANGED <<heap, stats, policy, generation, status, aborted>>

\* chain[k] is the block the snapshot names; k = 0 is the NULL end of the chain.
StopAt(t, k) ==
  /\ k \in 0..Len(chain)
  /\ IF k = 0 THEN t.block = NULL ELSE t.block = chain[k]

Rewind(t, k) ==
  LET Top(b)  == k > 0 /\ b = chain[k]
      cells   == [b \in Blocks |->
                    IF b \in Popped(k) THEN Discarded(b)
                    ELSE IF Top(b)
                         THEN [block[b] EXCEPT !.used = Smaller(@, t.block_used)]
                         ELSE block[b]]
      dropped == UNION {Bytes(b, IF Top(b) THEN t.block_used ELSE 0, block[b].used) :
                          b \in {c \in Blocks : c \in Popped(k) \/ Top(c)}}
  IN /\ Discard(Popped(k))
     /\ chain' = SubSeq(chain, 1, k)
     /\ block' = cells
     /\ used' = Smaller(used, t.used)
     /\ temp_depth' = IF temp_depth > 0 THEN temp_depth - 1 ELSE 0
     /\ shadow' = shadow \ dropped
     /\ abandoned' = abandoned \cap Consumed(cells)
     /\ live' = {x \in live : x.depth < temp_depth}
     /\ UNCHANGED <<next_block, high_water, policy, generation, status>>

TempEndAsserts(t, k) ==
  /\ t.generation = generation
  /\ t.depth = temp_depth
  /\ used >= t.used
  /\ k > 0 => block[chain[k]].used >= t.block_used

TempEnd ==
  /\ scopes # <<>>
  /\ scopes' = Front(scopes)
  /\ LET t == Last(scopes)
     IN \/ \E k \in 0..Len(chain) :
             /\ StopAt(t, k)
             /\ Rewind(t, k)
             /\ aborted' = ~TempEndAsserts(t, k)
        \/ /\ \A k \in 0..Len(chain) : ~StopAt(t, k)
           /\ aborted' = TRUE
           /\ UNCHANGED <<heap, stats, policy, temp_depth, generation, status>>

\* The oldest normal block stays current; k = 0 when there is none.
OldestNormal(k) ==
  /\ k \in 0..Len(chain)
  /\ IF k = 0 THEN \A i \in DOMAIN chain : block[chain[i]].oversize
              ELSE /\ ~block[chain[k]].oversize
                   /\ \A i \in 1..(k - 1) : block[chain[i]].oversize

Reset ==
  /\ generation < MaxGeneration
  /\ \/ /\ fixed
        /\ block' = [b \in Blocks |-> [block[b] EXCEPT !.used = 0]]
        /\ UNCHANGED <<chain, freeList, committed, held>>
     \/ /\ ~fixed
        /\ \E k \in 0..Len(chain) :
             /\ OldestNormal(k)
             /\ chain' = IF k = 0 THEN <<>> ELSE <<chain[k]>>
             /\ Discard(Popped(0) \ (IF k = 0 THEN {} ELSE {chain[k]}))
             /\ block' = [b \in Blocks |-> IF b \in Popped(0) THEN Discarded(b)
                                                             ELSE block[b]]
  /\ used' = 0 /\ live' = {} /\ abandoned' = {}
  /\ shadow' = shadow \ Consumed(block)
  /\ temp_depth' = 0 /\ generation' = generation + 1 /\ scopes' = <<>>
  /\ status' = "OK"
  /\ UNCHANGED <<high_water, next_block, policy, aborted>>

Trim ==
  \/ fixed /\ NoEffect
  \/ /\ ~fixed
     /\ Release(Range(freeList))
     /\ freeList' = <<>>
     /\ block' = [b \in Blocks |-> IF b \in Range(freeList) THEN Absent ELSE block[b]]
     /\ UNCHANGED <<chain, next_block, stats, policy, epoch, status, aborted>>

ClearError ==
  /\ status' = "OK"
  /\ UNCHANGED <<heap, stats, policy, epoch, aborted>>

\* Everything goes back to the parent, then arena_init with the same parent.
Deinit ==
  /\ generation < MaxGeneration
  /\ held' = [b \in Blocks |->
       IF ~fixed /\ b \in Range(chain) \cup Range(freeList) THEN 0 ELSE held[b]]
  /\ chain' = <<>> /\ freeList' = <<>> /\ block' = [b \in Blocks |-> Absent]
  /\ used' = 0 /\ committed' = 0 /\ high_water' = 0
  /\ next_block' = MinDefault /\ max_block' = MaxDefault /\ fixed' = FALSE
  /\ temp_depth' = 0 /\ generation' = generation + 1 /\ scopes' = <<>>
  /\ status' = "OK"
  /\ live' = {} /\ abandoned' = {} /\ shadow' = {}
  /\ UNCHANGED <<parentRefuses, aborted>>

-----------------------------------------------------------------------------
\* While a scope is open, only regions made inside it may be resized or freed;
\* the align passed to realloc is the region's own, or detectably invalid.
Resizable(x) == x.depth = temp_depth
AlignFor(x, align) == AlignValid(align) => AlignEffective(align) = x.align

Next ==
  /\ ~aborted
  /\ \/ \E size \in Sizes : Alloc(size)
     \/ \E count \in Counts, size \in Sizes, align \in Aligns :
          AllocN(count, size, align)
     \/ \E srcIsNull \in BOOLEAN, size \in Sizes : MemDup(srcIsNull, size)
     \/ \E x \in live, size \in Sizes, align \in Aligns :
          Resizable(x) /\ AlignFor(x, align) /\ Realloc(x, size, align)
     \/ \E size \in Sizes, align \in Aligns : ReallocNull(size, align)
     \/ \E x \in live : Resizable(x) /\ XFree(x)
     \/ TempBegin \/ TempEnd \/ Reset \/ Trim \/ ClearError \/ Deinit

Spec == Init /\ [][Next]_vars

-----------------------------------------------------------------------------
(* Properties *)

Status == {"OK", "ERR_ARG", "ERR_ALLOC", "ERR_OVERFLOW"}
Cell   == [cap : Nat, used : Nat, oversize : BOOLEAN, skew : 0..(MaxAlign - 1)]
Place  == [blk : Blocks, off : Nat, size : Nat \ {0}, align : 1..MaxAlign, depth : Nat]
Scope  == [block : Blocks \cup {NULL}, block_used : Nat, used : Int,
           generation : Nat, depth : Nat]

TypeOK ==
  /\ chain \in Seq(Blocks) /\ freeList \in Seq(Blocks)
  /\ block \in [Blocks -> Cell] /\ held \in [Blocks -> Nat]
  /\ used \in Int /\ committed \in Int /\ high_water \in Nat
  /\ next_block \in Nat /\ max_block \in Nat
  /\ temp_depth \in Nat /\ generation \in Nat
  /\ fixed \in BOOLEAN /\ parentRefuses \in BOOLEAN /\ aborted \in BOOLEAN
  /\ status \in Status
  /\ scopes \in Seq(Scope)
  /\ live \subseteq Place
  /\ abandoned \subseteq Blocks \X Nat /\ shadow \subseteq Blocks \X Nat

Owned == Range(chain) \cup Range(freeList)
Lent  == UNION {{b} \X (1..held[b]) : b \in Blocks}

\* No block is lost, listed twice or returned with another size than it was
\* lent with, through any order of growth, rewinds, resets, trims and deinits
\* (arena_new_block, arena_release_block, arena_pop_to_block); and committed
\* is exactly what the parent lent.
BlocksAccounted ==
  /\ IsInjective(chain) /\ IsInjective(freeList)
  /\ Range(chain) \cap Range(freeList) = {}
  /\ \A b \in Blocks : held[b] = IF b \in Owned /\ ~fixed THEN Hdr + block[b].cap ELSE 0
  /\ \A b \in Blocks \ Owned : block[b] = Absent
  /\ ~fixed => committed = Cardinality(Lent)

\* Every region handed out and not reclaimed lies below the cursor of a block
\* on the chain, at the alignment asked for, and no two overlap, redzones
\* included: a rewind, a reused block or a resize never hands a byte out twice.
RegionsSafe ==
  /\ \A b \in Blocks : block[b].used <= block[b].cap
  /\ \A x \in live :
       /\ x.blk \in Range(chain)
       /\ x.off + x.size + Redzone <= block[x.blk].used
       /\ (block[x.blk].skew + x.off) % x.align = 0
  /\ \A x, y \in live : x # y /\ x.blk = y.blk =>
       x.off + x.size + Redzone <= y.off \/ y.off + y.size + Redzone <= x.off

\* a->used, which six handlers adjust by differences and temp_end restores
\* from a snapshot, is exactly the bytes below the cursors less the sources
\* realloc left behind, and never above high_water.
UsedExact ==
  /\ abandoned \subseteq Consumed(block)
  /\ \A x \in live : Extent(x) \cap abandoned = {}
  /\ used = Cardinality(Consumed(block) \ abandoned)
  /\ used <= high_water

\* The poison marks agree with the regions: all bytes of a live region are
\* addressable, and nothing else is (padding, redzones, sources left behind,
\* rewound bytes, retained blocks).
ShadowExact == shadow = UNION {Region(x) : x \in live}

\* What the header promises of open scopes, in terms of the snapshots the client
\* holds.  chain[k] is the block snapshot t names; a region is below the mark
\* when it lies wholly under the snapshot's cursor, above it when wholly over.
BelowMark(t, k, x) ==
  \E i \in 1..k : /\ chain[i] = x.blk
                  /\ i = k => x.off + x.size + Redzone <= t.block_used
AboveMark(t, k, x) ==
  \E i \in 1..Len(chain) : /\ i >= k /\ chain[i] = x.blk
                           /\ i = k => x.off >= t.block_used

\* The regions made before scope i began lie below its mark, all others above.
Separates(t, k, i) ==
  /\ k > 0 => t.block_used <= block[chain[k]].used
  /\ \A x \in live : IF x.depth < i THEN BelowMark(t, k, x) ELSE AboveMark(t, k, x)

\* Every open snapshot stays restorable until its scope ends: its block is on
\* the chain with the cursor at or above the mark, no region of an older scope
\* reaches over the mark or moved, and the marks of nested scopes are nested
\* (arena_temp_begin, arena_temp_end, arena_pop_to_block).
ScopesConsistent ==
  /\ Len(scopes) = temp_depth
  /\ \A x \in live : x.depth <= temp_depth
  /\ \A i \in 1..Len(scopes) :
       /\ scopes[i].depth = i /\ scopes[i].generation = generation
       /\ \E k \in 0..Len(chain) : StopAt(scopes[i], k) /\ Separates(scopes[i], k, i)
  /\ \A i, j \in 1..Len(scopes), k, l \in 0..Len(chain) :
       i < j /\ StopAt(scopes[i], k) /\ StopAt(scopes[j], l)
         => k <= l /\ (k = l => scopes[i].block_used <= scopes[j].block_used)

\* The used field of an open snapshot is what UsedExact says of the bytes below
\* its mark, although sources left behind since then are no longer counted.
BelowCursor(t) ==
  {y \in Consumed(block) : \E k \in 0..Len(chain), i \in 1..Len(chain) :
     StopAt(t, k) /\ i <= k /\ chain[i] = y[1] /\ (i = k => y[2] < t.block_used)}
ScopesUsed ==
  \A i \in 1..Len(scopes) :
    scopes[i].used = Cardinality(BelowCursor(scopes[i]) \ abandoned)

\* What is retained for reuse: rewound normal blocks within the growth policy,
\* never an oversize block, and nothing in a fixed arena.
FreeListClean ==
  /\ next_block <= max_block
  /\ fixed => freeList = <<>>
  /\ \A b \in Owned : ~fixed /\ ~block[b].oversize => Hdr + block[b].cap <= next_block
  /\ \A b \in Range(freeList) : block[b].used = 0 /\ ~block[b].oversize

\* No assert of a debug build fails: the bump after a growth fits, and the
\* stop block, generation, depth, used and cursor checks of temp_end hold for
\* a client that keeps to the contract, whatever failed, was freed, trimmed or
\* reset between begin and end.
NoAbort == ~aborted

\* arena_alloc_n on an arena without an error serves exactly count * size
\* bytes at the alignment asked for, or records a status: the product never
\* wraps into a smaller region.
ServedExactly ==
  [][\A count \in Counts, size \in Sizes, align \in Aligns :
       /\ status = "OK" /\ status' = "OK" /\ AlignValid(align) /\ count * size > 0
       /\ AllocN(count, size, align) /\ ~aborted'
       => \E x \in live' \ live :
            x.size = count * size /\ x.align = AlignEffective(align)]_vars

\* Ending a scope brings the arena back to its begin: the same current block
\* with the same cursor and the same used, although temp_end only ever lowers
\* them.
TempEndRestores ==
  [][TempEnd =>
       LET t == Last(scopes)
       IN /\ used' = t.used /\ temp_depth' = t.depth - 1
          /\ IF t.block = NULL THEN chain' = <<>>
             ELSE Last(chain') = t.block /\ block'[t.block].used = t.block_used]_vars
=============================================================================
