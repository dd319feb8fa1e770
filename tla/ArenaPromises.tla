--------------------------- MODULE ArenaPromises ----------------------------
(***************************************************************************)
(* Proofs of what the arena promises its client.  The bytes add up: used is *)
(* the number of bytes below the cursors less the sources realloc left      *)
(* behind, the poison marks are those of the live regions, an open snapshot *)
(* still records the used its end will find, and for all that no assert of  *)
(* a debug build can fail.  And every request is served exactly or refused, *)
(* as AllocContract says: what an allocation did is stated once, for every  *)
(* entry point.                                                             *)
(***************************************************************************)
EXTENDS ArenaAlloc, ArenaProofs

-----------------------------------------------------------------------------
(* Sets of data bytes *)

LEMMA InBytes ==
  ASSUME NEW b \in Blocks, NEW from \in Nat, NEW to \in Int, NEW c, NEW i
  PROVE  <<c, i>> \in Bytes(b, from, to) <=> c = b /\ i \in Nat /\ from <= i /\ i < to
BY DEF Bytes

LEMMA SamePairs ==
  ASSUME NEW A \in SUBSET (Blocks \X Nat), NEW B \in SUBSET (Blocks \X Nat),
         \A c \in Blocks, i \in Nat : <<c, i>> \in A <=> <<c, i>> \in B
  PROVE  A = B
<1>1. \A p \in Blocks \X Nat : p = <<p[1], p[2]>> /\ p[1] \in Blocks /\ p[2] \in Nat
  OBVIOUS
<1>2. \A p \in Blocks \X Nat : p \in A <=> p \in B
  BY <1>1
<1> QED
  BY <1>2

LEMMA BytesCount ==
  ASSUME NEW b \in Blocks, NEW from \in Nat, NEW to \in Nat, from <= to
  PROVE  IsFiniteSet(Bytes(b, from, to)) /\ Cardinality(Bytes(b, from, to)) = to - from
<1>1. IsFiniteSet({b}) /\ Cardinality({b}) = 1
  BY FS_Singleton
<1>2. /\ IsFiniteSet(from..(to - 1))
      /\ Cardinality(from..(to - 1)) = IF from > to - 1 THEN 0 ELSE (to - 1) - from + 1
  BY FS_Interval
<1>3. /\ IsFiniteSet({b} \X (from..(to - 1)))
      /\ Cardinality({b} \X (from..(to - 1))) = Cardinality({b}) * Cardinality(from..(to - 1))
  BY <1>1, <1>2, FS_Product
<1>4. Cardinality(from..(to - 1)) = to - from
  BY <1>2
<1> QED
  BY <1>1, <1>3, <1>4 DEF Bytes

LEMMA InConsumed ==
  ASSUME NEW cells \in [Blocks -> Cell], NEW c, NEW i
  PROVE  <<c, i>> \in Consumed(cells) <=> c \in Blocks /\ i \in Nat /\ i < cells[c].used
<1>1. \A b \in Blocks : cells[b].used \in Int
  BY DEF Cell
<1>2. ASSUME <<c, i>> \in Consumed(cells)
      PROVE  c \in Blocks /\ i \in Nat /\ i < cells[c].used
  <2>1. PICK b \in Blocks : <<c, i>> \in Bytes(b, 0, cells[b].used)
    BY <1>2 DEF Consumed
  <2> QED
    BY <1>1, <2>1, InBytes
<1>3. ASSUME c \in Blocks, i \in Nat, i < cells[c].used
      PROVE  <<c, i>> \in Consumed(cells)
  <2>1. <<c, i>> \in Bytes(c, 0, cells[c].used)
    BY <1>1, <1>3, InBytes
  <2> QED
    BY <1>3, <2>1, Zenon DEF Consumed
<1> QED
  BY <1>2, <1>3

LEMMA ConsumedType ==
  ASSUME NEW cells \in [Blocks -> Cell]
  PROVE  Consumed(cells) \subseteq Blocks \X Nat /\ IsFiniteSet(Consumed(cells))
<1> DEFINE T == {Bytes(b, 0, cells[b].used) : b \in Blocks}
           g == [b \in Blocks |-> Bytes(b, 0, cells[b].used)]
<1>1. \A b \in Blocks : cells[b].used \in Nat
  BY DEF Cell
<1>2. g \in Surjection(Blocks, T)
  BY DEF Surjection
<1>3. IsFiniteSet(T)
  BY <1>2, BlocksAssumption, FS_Surjection
<1>4. ASSUME NEW B \in T
      PROVE  IsFiniteSet(B) /\ B \subseteq Blocks \X Nat
  <2>1. PICK b \in Blocks : B = Bytes(b, 0, cells[b].used)
    OBVIOUS
  <2>2. cells[b].used \in Nat
    BY <1>1
  <2> HIDE DEF T
  <2> QED
    BY <2>1, <2>2, BytesCount, BytesType
<1>5. IsFiniteSet(UNION T)
  BY <1>3, <1>4, FS_UNION
<1>6. UNION T \subseteq Blocks \X Nat
  BY <1>4
<1> QED
  BY <1>5, <1>6, Zenon DEF Consumed

LEMMA CountAdded ==
  ASSUME NEW A, IsFiniteSet(A), NEW B, IsFiniteSet(B), A \cap B = {}
  PROVE  IsFiniteSet(A \cup B) /\ Cardinality(A \cup B) = Cardinality(A) + Cardinality(B)
<1>1. Cardinality(A \cap B) = 0
  BY FS_EmptySet, Zenon
<1>2. Cardinality(A) \in Nat /\ Cardinality(B) \in Nat
  BY FS_CardinalityType
<1>3. /\ IsFiniteSet(A \cup B)
      /\ Cardinality(A \cup B) = Cardinality(A) + Cardinality(B) - Cardinality(A \cap B)
  BY FS_Union
<1> QED
  BY <1>1, <1>2, <1>3

LEMMA CountRemoved ==
  ASSUME NEW A, IsFiniteSet(A), NEW B \in SUBSET A
  PROVE  IsFiniteSet(A \ B) /\ Cardinality(A \ B) = Cardinality(A) - Cardinality(B)
<1>1. A \cap B = B
  OBVIOUS
<1> QED
  BY <1>1, FS_Difference

\* The cursor of b moves up from u: exactly the bytes between are consumed.
LEMMA CursorMoved ==
  ASSUME NEW low \in [Blocks -> Cell], NEW high \in [Blocks -> Cell], NEW b \in Blocks,
         low[b].used <= high[b].used,
         \A c \in Blocks \ {b} : low[c].used = high[c].used
  PROVE  /\ Consumed(high) = Consumed(low) \cup Bytes(b, low[b].used, high[b].used)
         /\ Consumed(low) \cap Bytes(b, low[b].used, high[b].used) = {}
         /\ IsFiniteSet(Bytes(b, low[b].used, high[b].used))
         /\ Cardinality(Bytes(b, low[b].used, high[b].used)) = high[b].used - low[b].used
<1> DEFINE new == Bytes(b, low[b].used, high[b].used)
<1>1. \A c \in Blocks : low[c].used \in Nat /\ high[c].used \in Nat
  BY DEF Cell
<1>2. \A c, i : <<c, i>> \in new <=> c = b /\ i \in Nat /\ low[b].used <= i /\ i < high[b].used
  <2>1. PICK from \in Nat, to \in Int : from = low[b].used /\ to = high[b].used
    BY <1>1
  <2> QED
    BY <2>1, InBytes
<1>3. /\ Consumed(low) \subseteq Blocks \X Nat /\ Consumed(high) \subseteq Blocks \X Nat
      /\ new \subseteq Blocks \X Nat
  BY <1>1, ConsumedType, BytesType
<1>4. IsFiniteSet(new) /\ Cardinality(new) = high[b].used - low[b].used
  BY <1>1, BytesCount
<1> HIDE DEF new
<1>5. ASSUME NEW c \in Blocks, NEW i \in Nat
      PROVE  /\ <<c, i>> \in Consumed(high) <=> <<c, i>> \in Consumed(low) \/ <<c, i>> \in new
             /\ ~(<<c, i>> \in Consumed(low) /\ <<c, i>> \in new)
  <2>1. /\ <<c, i>> \in Consumed(high) <=> i < high[c].used
        /\ <<c, i>> \in Consumed(low) <=> i < low[c].used
    BY InConsumed
  <2> QED
    BY <1>1, <1>2, <2>1
<1>6. Consumed(high) = Consumed(low) \cup new
  BY <1>3, <1>5, SamePairs
<1>7. Consumed(low) \cap new = {}
  BY <1>3, <1>5, SamePairs
<1> QED
  BY <1>4, <1>6, <1>7 DEF new

LEMMA InRegion ==
  ASSUME NEW x \in Place, NEW c, NEW i
  PROVE  /\ <<c, i>> \in Region(x) <=>
              c = x.blk /\ i \in Nat /\ x.off <= i /\ i < x.off + x.size
         /\ <<c, i>> \in Extent(x) <=> c = x.blk /\ i \in Nat /\ x.off <= i /\ i < End(x)
<1>1. x.blk \in Blocks /\ x.off \in Nat /\ x.off + x.size \in Int /\ End(x) \in Int
  BY LayoutAssumption DEF Place, End
<1>2. <<c, i>> \in Region(x) <=>
        c = x.blk /\ i \in Nat /\ x.off <= i /\ i < x.off + x.size
  BY <1>1, InBytes DEF Region
<1>3. <<c, i>> \in Bytes(x.blk, x.off, End(x)) <=>
        c = x.blk /\ i \in Nat /\ x.off <= i /\ i < End(x)
  BY <1>1, InBytes
<1>4. Extent(x) = Bytes(x.blk, x.off, End(x))
  BY Zenon DEF Extent, End
<1> QED
  BY <1>2, <1>3, <1>4

LEMMA RegionCount ==
  ASSUME NEW x \in Place
  PROVE  /\ Region(x) \subseteq Extent(x)
         /\ IsFiniteSet(Region(x)) /\ Cardinality(Region(x)) = x.size
<1>1. x.blk \in Blocks /\ x.off \in Nat /\ x.size \in Nat
  BY DEF Place
<1>2. IsFiniteSet(Region(x)) /\ Cardinality(Region(x)) = (x.off + x.size) - x.off
  BY <1>1, BytesCount DEF Region
<1>3. \A c \in Blocks, i \in Nat : <<c, i>> \in Region(x) => <<c, i>> \in Extent(x)
  BY <1>1, InRegion, LayoutAssumption DEF End
<1>4. Region(x) \subseteq Extent(x)
  <2>1. \A p \in Region(x) : \E c \in Blocks, i \in Nat : p = <<c, i>>
    BY RegionType
  <2> QED
    BY <1>3, <2>1
<1> QED
  BY <1>1, <1>2, <1>4

LEMMA RegionConsumed ==
  ASSUME TypeOK, RegionsSafe, NEW x \in live
  PROVE  Extent(x) \subseteq Consumed(block) /\ Region(x) \subseteq Consumed(block)
<1>1. x \in Place /\ x.blk \in Blocks /\ End(x) \in Nat /\ block[x.blk].used \in Nat
  BY PlaceType DEF TypeOK
<1>2. End(x) <= block[x.blk].used
  BY RegionsParts, Zenon DEF Placed
<1>3. block \in [Blocks -> Cell]
  BY DEF TypeOK
<1>4. ASSUME NEW c \in Blocks, NEW i \in Nat, <<c, i>> \in Extent(x)
      PROVE  <<c, i>> \in Consumed(block)
  <2>1. c = x.blk /\ i < End(x)
    BY <1>1, <1>4, InRegion
  <2> QED
    BY <1>1, <1>2, <1>3, <2>1, InConsumed
<1>5. \A p \in Extent(x) : \E c \in Blocks, i \in Nat : p = <<c, i>>
  BY <1>1, RegionType
<1> QED
  BY <1>1, <1>4, <1>5, RegionCount

LEMMA ExtentsDisjoint ==
  ASSUME TypeOK, RegionsSafe, NEW x \in live, NEW y \in live, x # y
  PROVE  Extent(x) \cap Extent(y) = {}
<1>1. /\ x \in Place /\ x.blk \in Blocks /\ End(x) \in Nat /\ x.off \in Nat
      /\ y \in Place /\ End(y) \in Nat /\ y.off \in Nat
  BY PlaceType DEF TypeOK
<1>2. x.blk = y.blk => End(x) <= y.off \/ End(y) <= x.off
  BY RegionsParts, Zenon DEF Apart
<1>3. ASSUME NEW c \in Blocks, NEW i \in Nat, <<c, i>> \in Extent(x), <<c, i>> \in Extent(y)
      PROVE  FALSE
  <2>1. c = x.blk /\ x.off <= i /\ i < End(x)
    BY <1>1, <1>3, InRegion
  <2>2. c = y.blk /\ y.off <= i /\ i < End(y)
    BY <1>1, <1>3, InRegion
  <2> QED
    BY <1>1, <1>2, <2>1, <2>2
<1>4. \A p \in Extent(x) : \E c \in Blocks, i \in Nat : p = <<c, i>>
  BY <1>1, RegionType
<1> QED
  BY <1>3, <1>4

\* No block off the chain holds a consumed byte.
LEMMA OffChain ==
  ASSUME TypeOK, BlocksAccounted, FreeListClean, NEW b \in Blocks \ Range(chain)
  PROVE  block[b].used = 0
<1>1. CASE b \in Range(freeList)
  BY <1>1, CleanParts DEF RetainedRewound
<1>2. CASE b \notin Range(freeList)
  <2>1. b \notin Owned
    BY <1>2 DEF Owned
  <2>2. block[b] = Absent
    BY <2>1 DEF BlocksAccounted
  <2> QED
    BY <2>2 DEF Absent
<1> QED
  BY <1>1, <1>2

-----------------------------------------------------------------------------
(* Growth *)

\* What an allocation does: one region is carved past the cursor of a block
\* that is, or becomes, the newest of the chain, and the bump after a growth
\* fits, so no assert fails.
Extended(b, cell) ==
  /\ b \in Blocks /\ cell \in Cell /\ cell.used = block[b].used
  /\ \/ chain' = chain /\ chain # <<>> /\ b = Current
     \/ chain' = Append(chain, b) /\ b \notin Range(chain)
  /\ UNCHANGED epoch /\ (aborted' = aborted \/ aborted' = FALSE)

LEMMA NeedFits ==
  ASSUME NEW cell \in Cell, NEW size \in Nat, NEW align \in 1..MaxAlign,
         cell.used = 0, cell.cap >= DataNeed(size, align)
  PROVE  Fits(cell, size, align)
<1>1. Pad(cell, align) \in 0..(align - 1)
  BY PadType
<1>2. cell.cap \in Nat /\ align \in Nat /\ Redzone \in Nat
  BY AlignAssumption, LayoutAssumption DEF Cell
<1>3. cell.cap >= size + (align - 1) + Redzone
  BY DEF DataNeed
<1> QED
  BY <1>1, <1>2, <1>3 DEF Fits

LEMMA ServedCarves ==
  ASSUME TypeOK, BlocksAccounted, FreeListClean, Served
  PROVE  \E b \in Blocks, cell \in Cell, size \in Nat \ {0}, align \in 1..MaxAlign,
            old \in SUBSET live, oldSize \in Nat :
           /\ CoreArgs(size, align, old, oldSize) /\ Extended(b, cell)
           /\ Carve(b, cell, size, align, old, oldSize)
<1>1. PICK size \in Nat, align \in Nat, old \in SUBSET live, oldSize \in Nat :
        /\ CoreArgs(size, align, old, oldSize)
        /\ \/ BumpCurrent(size, align, old, oldSize)
           \/ Grown(size, align, old, oldSize)
  BY DEF Served
<1>2. size \in Nat \ {0} /\ align \in 1..MaxAlign
  BY <1>1 DEF CoreArgs
<1>3. SUFFICES \E b \in Blocks, cell \in Cell :
                 Extended(b, cell) /\ Carve(b, cell, size, align, old, oldSize)
  BY <1>1, <1>2
<1>4. CASE BumpCurrent(size, align, old, oldSize)
  <2>1. /\ chain # <<>> /\ Carve(Current, block[Current], size, align, old, oldSize)
        /\ chain' = chain /\ UNCHANGED epoch /\ aborted' = aborted
    BY <1>4, Zenon DEF BumpCurrent, FitsCurrent
  <2>2. Current \in Blocks /\ block[Current] \in Cell
    BY <2>1, CurrentOwned, CellType
  <2> QED
    BY <2>1, <2>2, Zenon DEF Extended
<1>5. ASSUME NEW b \in Blocks \ Range(chain), NEW cell \in Cell,
             BumpEntered(b, cell, size, align, old, oldSize), UNCHANGED epoch,
             cell.used = 0, cell.cap >= DataNeed(size, align)
      PROVE  Extended(b, cell) /\ Carve(b, cell, size, align, old, oldSize)
  <2>1. Fits(cell, size, align)
    BY <1>2, <1>5, NeedFits
  <2>2. block[b].used = cell.used
    BY <1>5, OffChain
  <2>3. /\ chain' = Append(chain, b) /\ aborted' = FALSE
        /\ Carve(b, cell, size, align, old, oldSize)
    BY <1>5, <2>1, Zenon DEF BumpEntered
  <2> QED
    BY <1>5, <2>2, <2>3, Zenon DEF Extended
<1>6. CASE TakeFreeBlock(size, align, old, oldSize)
  <2>1. PICK i \in DOMAIN freeList :
          /\ FirstFit(i, DataNeed(size, align))
          /\ BumpEntered(freeList[i], block[freeList[i]], size, align, old, oldSize)
          /\ UNCHANGED epoch
    BY <1>6, Zenon DEF TakeFreeBlock
  <2>2. freeList[i] \in Range(freeList)
    BY Zenon DEF Range
  <2>3. freeList[i] \in Blocks \ Range(chain)
    BY <2>2, OwnedType DEF BlocksAccounted
  <2>4. block[freeList[i]] \in Cell /\ block[freeList[i]].used = 0
    BY <2>2, <2>3, CellType, CleanParts DEF RetainedRewound
  <2>5. block[freeList[i]].cap >= DataNeed(size, align)
    BY <2>1, Zenon DEF FirstFit
  <2> QED
    BY <1>5, <2>1, <2>3, <2>4, <2>5
<1>7. CASE ~fixed /\ TakeNewBlock(size, align, old, oldSize)
  <2>1. PICK b \in Blocks, skew \in Skews :
          /\ held[b] = 0 /\ UNCHANGED epoch
          /\ BumpEntered(b, NewCell(size, align, skew), size, align, old, oldSize)
    BY <1>7, Zenon DEF TakeNewBlock, NewCell
  <2>2. b \notin Range(chain)
    <3>1. b \in Owned => held[b] = Hdr + block[b].cap
      BY <1>7 DEF BlocksAccounted
    <3> QED
      BY <2>1, <3>1, CellType, LayoutAssumption DEF Owned
  <2>3. /\ NewCell(size, align, skew) \in Cell
        /\ NewBlockSize(DataNeed(size, align)) \in Nat
        /\ NewBlockSize(DataNeed(size, align)) >= Hdr + DataNeed(size, align)
        /\ DataNeed(size, align) \in Nat
    BY <1>2, NewCellType
  <2>4. /\ NewCell(size, align, skew).used = 0
        /\ NewCell(size, align, skew).cap = NewBlockSize(DataNeed(size, align)) - Hdr
    BY DEF NewCell
  <2>5. NewCell(size, align, skew).cap >= DataNeed(size, align)
    BY <2>3, <2>4, LayoutAssumption
  <2> QED
    BY <1>5, <2>1, <2>2, <2>3, <2>4, <2>5
<1> QED
  BY <1>1, <1>4, <1>6, <1>7, Zenon DEF Grown

-----------------------------------------------------------------------------
(* One region carved *)

Moved(old) == UNION {Region(x) : x \in old}

\* The bytes the cursor of b passes over in a step.
Passed(b) == Bytes(b, block[b].used, block'[b].used)

\* A region is carved out of bytes that were not consumed.
LEMMA CarvedBytes ==
  ASSUME TypeOK, TypeOK', NEW b \in Blocks, NEW cell \in Cell, cell.used = block[b].used,
         NEW size \in Nat \ {0}, NEW align \in 1..MaxAlign, NEW old \in SUBSET live,
         NEW oldSize \in Nat, Carve(b, cell, size, align, old, oldSize)
  PROVE  /\ \A c \in Blocks \ {b} : block'[c] = block[c]
         /\ block[b].used <= block'[b].used
         /\ Consumed(block') = Consumed(block) \cup Passed(b)
         /\ Consumed(block) \cap Passed(b) = {}
         /\ IsFiniteSet(Passed(b)) /\ Cardinality(Passed(b)) = block'[b].used - block[b].used
         /\ used' = used + (block'[b].used - block[b].used) - oldSize
         /\ high_water' = Larger(high_water, used + (block'[b].used - block[b].used))
         /\ abandoned' = abandoned \cup Moved(old)
         /\ \E new \in Place : /\ live' = (live \ old) \cup {new}
                               /\ shadow' = (shadow \cup Region(new)) \ Moved(old)
                               /\ Extent(new) \subseteq Passed(b)
                               /\ new.depth = temp_depth
<1>1. /\ \A c \in Blocks \ {b} : block'[c] = block[c]
      /\ block'[b].used = cell.used + Pad(cell, align) + (size + Redzone)
  BY CarveBlock
<1>2. PICK pad \in Nat : pad = Pad(cell, align)
  BY PadType
<1>3. cell.used \in Nat /\ Redzone \in Nat /\ used \in Int
  BY LayoutAssumption DEF Cell, TypeOK
<1>4. block[b].used <= block'[b].used /\ block'[b].used - block[b].used = pad + (size + Redzone)
  BY <1>1, <1>2, <1>3
<1>5. /\ Consumed(block') = Consumed(block) \cup Passed(b)
      /\ Consumed(block) \cap Passed(b) = {}
      /\ IsFiniteSet(Passed(b)) /\ Cardinality(Passed(b)) = block'[b].used - block[b].used
  <2>1. block \in [Blocks -> Cell] /\ block' \in [Blocks -> Cell]
    BY Zenon DEF TypeOK
  <2>2. \A c \in Blocks \ {b} : block[c].used = block'[c].used
    BY <1>1
  <2> QED
    BY <1>4, <2>1, <2>2, CursorMoved DEF Passed
<1>6. PICK new : /\ new = [blk |-> b, off |-> cell.used + Pad(cell, align), size |-> size,
                            align |-> align, depth |-> temp_depth]
                 /\ live' = (live \ old) \cup {new}
                 /\ shadow' = (shadow \cup Region(new)) \ Moved(old)
  BY Zenon DEF Carve, Moved
<1>7. /\ used' = used + pad + (size + Redzone) - oldSize
      /\ high_water' = Larger(high_water, used + pad + (size + Redzone))
      /\ abandoned' = abandoned \cup Moved(old)
  BY <1>2, Zenon DEF Carve, Moved
<1>8. new \in Place
  BY <1>6 DEF TypeOK
<1>9. /\ new.blk = b /\ new.off = cell.used + pad /\ new.depth = temp_depth
      /\ End(new) = block'[b].used
  BY <1>1, <1>2, <1>3, <1>6 DEF End
<1>10. Extent(new) \subseteq Passed(b)
  <2>1. ASSUME NEW c \in Blocks, NEW i \in Nat, <<c, i>> \in Extent(new)
        PROVE  <<c, i>> \in Passed(b)
    <3>1. c = b /\ cell.used + pad <= i /\ i < block'[b].used
      BY <1>8, <1>9, <2>1, InRegion
    <3>2. block[b].used \in Nat /\ block'[b].used \in Int /\ block[b].used <= i
      BY <1>1, <1>2, <1>3, <3>1
    <3> QED
      BY <3>1, <3>2, InBytes DEF Passed
  <2>2. \A p \in Extent(new) : \E c \in Blocks, i \in Nat : p = <<c, i>>
    BY <1>8, RegionType
  <2> QED
    BY <2>1, <2>2
<1>11. /\ used' = used + (block'[b].used - block[b].used) - oldSize
       /\ high_water' = Larger(high_water, used + (block'[b].used - block[b].used))
  <2>1. /\ used + pad + (size + Redzone) - oldSize = used + (pad + (size + Redzone)) - oldSize
        /\ used + pad + (size + Redzone) = used + (pad + (size + Redzone))
    BY <1>2, <1>3
  <2> QED
    BY <1>4, <1>7, <2>1
<1> QED
  BY <1>1, <1>4, <1>5, <1>6, <1>7, <1>8, <1>9, <1>10, <1>11

\* The bytes realloc's move path leaves behind: those of one region, or none.
LEMMA MovedBytes ==
  ASSUME TypeOK, RegionsSafe, NEW old \in SUBSET live, NEW size, NEW align, NEW oldSize \in Nat,
         CoreArgs(size, align, old, oldSize)
  PROVE  /\ Moved(old) \subseteq Consumed(block)
         /\ IsFiniteSet(Moved(old)) /\ Cardinality(Moved(old)) = oldSize
         /\ \A x \in live \ old : Extent(x) \cap Moved(old) = {}
         /\ \A x \in old : Region(x) \subseteq Moved(old)
         /\ \A x \in old : x.depth = temp_depth
<1>1. CASE old = {} /\ oldSize = 0
  <2>1. Moved(old) = {}
    BY <1>1 DEF Moved
  <2> QED
    BY <1>1, <2>1, FS_EmptySet
<1>2. ASSUME NEW x \in live, old = {x}, oldSize = x.size, x.depth = temp_depth
      PROVE  /\ Moved(old) \subseteq Consumed(block)
             /\ IsFiniteSet(Moved(old)) /\ Cardinality(Moved(old)) = oldSize
             /\ \A y \in live \ old : Extent(y) \cap Moved(old) = {}
             /\ \A y \in old : Region(y) \subseteq Moved(old)
             /\ \A y \in old : y.depth = temp_depth
  <2>1. Moved(old) = Region(x)
    BY <1>2 DEF Moved
  <2>2. x \in Place
    BY DEF TypeOK
  <2>3. /\ Region(x) \subseteq Consumed(block) /\ Region(x) \subseteq Extent(x)
        /\ IsFiniteSet(Region(x)) /\ Cardinality(Region(x)) = x.size
    BY <2>2, RegionConsumed, RegionCount
  <2>4. \A y \in live \ old : Extent(y) \cap Extent(x) = {}
    BY <1>2, ExtentsDisjoint
  <2> QED
    BY <1>2, <2>1, <2>3, <2>4
<1> QED
  BY <1>1, <1>2 DEF CoreArgs

-----------------------------------------------------------------------------
(* The poison marks *)

Shown(S) == UNION {Region(x) : x \in S}

LEMMA ServedShadow ==
  ASSUME TypeOK, TypeOK', BlocksAccounted, RegionsSafe, FreeListClean, ShadowExact, Served
  PROVE  ShadowExact'
<1>1. PICK b \in Blocks, cell \in Cell, size \in Nat \ {0}, align \in 1..MaxAlign,
          old \in SUBSET live, oldSize \in Nat :
        /\ CoreArgs(size, align, old, oldSize) /\ Extended(b, cell)
        /\ Carve(b, cell, size, align, old, oldSize)
  BY ServedCarves
<1>2. cell.used = block[b].used
  BY <1>1 DEF Extended
<1>3. PICK new \in Place : /\ live' = (live \ old) \cup {new}
                           /\ shadow' = (shadow \cup Region(new)) \ Moved(old)
                           /\ Extent(new) \subseteq Passed(b)
  BY <1>1, <1>2, CarvedBytes
<1>4. /\ Consumed(block) \cap Passed(b) = {}
      /\ Moved(old) \subseteq Consumed(block)
      /\ \A x \in live \ old : Extent(x) \cap Moved(old) = {}
      /\ \A x \in old : Region(x) \subseteq Moved(old)
  <2>1. Consumed(block) \cap Passed(b) = {}
    BY <1>1, <1>2, CarvedBytes
  <2> QED
    BY <1>1, <2>1, MovedBytes
<1>5. /\ Region(new) \cap Moved(old) = {}
      /\ \A x \in live \ old : Region(x) \cap Moved(old) = {}
  <2>1. Region(new) \subseteq Extent(new) /\ \A x \in live : Region(x) \subseteq Extent(x)
    BY RegionCount DEF TypeOK
  <2> QED
    BY <1>3, <1>4, <2>1
<1>6. shadow = Shown(live)
  BY Zenon DEF ShadowExact, Shown
<1>7. shadow' = Shown(live')
  BY <1>3, <1>4, <1>5, <1>6 DEF Shown
<1> QED
  BY <1>7, Zenon DEF ShadowExact, Shown

\* What is shown besides the last region x lies outside of what x may reach.
LEMMA ShownBesidesLast ==
  ASSUME TypeOK, RegionsSafe, ShadowExact, NEW x \in live, IsLastAlloc(x),
         NEW c \in Blocks, NEW i \in Nat
  PROVE  /\ <<c, i>> \in Shown(live \ {x}) => c # x.blk \/ i < x.off
         /\ <<c, i>> \in shadow <=>
              <<c, i>> \in Shown(live \ {x}) \/ (c = x.blk /\ x.off <= i /\ i < x.off + x.size)
<1>1. \A y \in live \ {x} : y.blk = x.blk => End(y) <= x.off
  BY BelowLast
<1>2. ASSUME NEW y \in live \ {x}, <<c, i>> \in Region(y)
      PROVE  c # x.blk \/ i < x.off
  <2>1. y \in Place /\ End(y) \in Nat /\ x.off \in Nat
    BY PlaceType DEF TypeOK
  <2>2. c = y.blk /\ i < End(y)
    <3>1. <<c, i>> \in Extent(y)
      BY <1>2, <2>1, RegionCount
    <3> QED
      BY <2>1, <3>1, InRegion
  <2> QED
    BY <1>1, <2>1, <2>2
<1>3. <<c, i>> \in Region(x) <=> c = x.blk /\ x.off <= i /\ i < x.off + x.size
  BY InRegion DEF TypeOK
<1>4. shadow = Shown(live)
  BY Zenon DEF ShadowExact, Shown
<1>5. <<c, i>> \in shadow <=> <<c, i>> \in Shown(live \ {x}) \/ <<c, i>> \in Region(x)
  BY <1>4 DEF Shown
<1>6. <<c, i>> \in Shown(live \ {x}) => \E y \in live \ {x} : <<c, i>> \in Region(y)
  BY Zenon DEF Shown
<1> QED
  BY <1>2, <1>3, <1>5, <1>6

LEMMA ResizedShadowExact ==
  ASSUME TypeOK, TypeOK', RegionsSafe, ShadowExact, NEW x \in live, NEW newSize \in Nat \ {0},
         CanResize(x, newSize), ResizeInPlace(x, newSize)
  PROVE  ShadowExact'
<1>1. IsLastAlloc(x)
  BY Zenon DEF CanResize
<1>2. /\ x \in Place /\ x.blk \in Blocks /\ x.off \in Nat /\ x.size \in Nat
      /\ x.off + newSize \in Nat /\ x.off + x.size \in Nat
  <2>1. x \in Place /\ x.blk \in Blocks /\ x.off \in Nat /\ x.size \in Nat
    BY PlaceType, Zenon DEF TypeOK
  <2> QED
    BY <2>1
<1>3. PICK n : n = [x EXCEPT !.size = newSize]
  OBVIOUS
<1>4. /\ live' = (live \ {x}) \cup {n} /\ shadow' = ResizedShadow(x, newSize)
  BY <1>3, Zenon DEF ResizeInPlace
<1>5. n \in Place /\ n.blk = x.blk /\ n.off = x.off /\ n.size = newSize
  BY <1>2, <1>3 DEF Place
<1>6. Shown(live') = Shown(live \ {x}) \cup Region(n)
  BY <1>4 DEF Shown
<1>7. ASSUME NEW c \in Blocks, NEW i \in Nat
      PROVE  <<c, i>> \in shadow' <=> <<c, i>> \in Shown(live')
  <2>1. /\ <<c, i>> \in Shown(live \ {x}) => c # x.blk \/ i < x.off
        /\ <<c, i>> \in shadow <=>
             <<c, i>> \in Shown(live \ {x}) \/ (c = x.blk /\ x.off <= i /\ i < x.off + x.size)
    BY <1>1, ShownBesidesLast
  <2>2. <<c, i>> \in Region(n) <=> c = x.blk /\ x.off <= i /\ i < x.off + newSize
    BY <1>5, InRegion
  <2>3. /\ <<c, i>> \in Bytes(x.blk, x.off + newSize, x.off + x.size) <=>
             c = x.blk /\ x.off + newSize <= i /\ i < x.off + x.size
        /\ <<c, i>> \in Bytes(x.blk, x.off + x.size, x.off + newSize) <=>
             c = x.blk /\ x.off + x.size <= i /\ i < x.off + newSize
    BY <1>2, InBytes
  <2>4. <<c, i>> \in shadow' <=>
          \/ /\ <<c, i>> \in shadow
             /\ <<c, i>> \notin Bytes(x.blk, x.off + newSize, x.off + x.size)
          \/ <<c, i>> \in Bytes(x.blk, x.off + x.size, x.off + newSize)
    BY <1>4 DEF ResizedShadow
  <2>5. <<c, i>> \in Shown(live') <=> <<c, i>> \in Shown(live \ {x}) \/ <<c, i>> \in Region(n)
    BY <1>6
  <2> QED
    BY <1>2, <2>1, <2>2, <2>3, <2>4, <2>5
<1>8. shadow' \subseteq Blocks \X Nat /\ Shown(live') \subseteq Blocks \X Nat
  BY RegionType DEF TypeOK, Shown
<1>9. shadow' = Shown(live')
  BY <1>7, <1>8, SamePairs
<1> QED
  BY <1>9, Zenon DEF ShadowExact, Shown

LEMMA RolledBackShadow ==
  ASSUME TypeOK, TypeOK', RegionsSafe, ShadowExact, NEW x \in live, RollBack(x)
  PROVE  ShadowExact'
<1>1. /\ IsLastAlloc(x) /\ live' = live \ {x}
      /\ shadow' = shadow \ Bytes(x.blk, x.off, block[x.blk].used)
  BY Zenon DEF RollBack
<1>2. /\ x.blk \in Blocks /\ x.off \in Nat /\ x.size \in Nat /\ block[x.blk].used \in Nat
      /\ x.off + x.size <= block[x.blk].used
  BY <1>1, BelowLast, PlaceType, LayoutAssumption DEF End
<1>3. ASSUME NEW c \in Blocks, NEW i \in Nat
      PROVE  <<c, i>> \in shadow' <=> <<c, i>> \in Shown(live')
  <2>1. /\ <<c, i>> \in Shown(live \ {x}) => c # x.blk \/ i < x.off
        /\ <<c, i>> \in shadow <=>
             <<c, i>> \in Shown(live \ {x}) \/ (c = x.blk /\ x.off <= i /\ i < x.off + x.size)
    BY <1>1, ShownBesidesLast
  <2>2. <<c, i>> \in Bytes(x.blk, x.off, block[x.blk].used) <=>
          c = x.blk /\ x.off <= i /\ i < block[x.blk].used
    BY <1>2, InBytes
  <2> QED
    BY <1>1, <1>2, <2>1, <2>2
<1>4. shadow' \subseteq Blocks \X Nat /\ Shown(live') \subseteq Blocks \X Nat
  BY RegionType DEF TypeOK, Shown
<1>5. shadow' = Shown(live')
  BY <1>3, <1>4, SamePairs
<1> QED
  BY <1>5, Zenon DEF ShadowExact, Shown

-----------------------------------------------------------------------------
(* The end of a scope *)

\* temp_end finds the block the innermost snapshot names, and rewinds to it.
LEMMA TempEndRewinds ==
  ASSUME TypeOK, BlocksAccounted, ScopesConsistent, TempEnd
  PROVE  /\ Len(scopes) \in Nat \ {0} /\ Len(scopes) = temp_depth
         /\ Last(scopes) \in Scope /\ Last(scopes) = scopes[Len(scopes)]
         /\ Last(scopes).depth = temp_depth /\ Last(scopes).generation = generation
         /\ scopes' = Front(scopes)
         /\ \E k \in 0..Len(chain) :
              /\ StopAt(Last(scopes), k) /\ Separates(Last(scopes), k, Len(scopes))
              /\ Rewind(Last(scopes), k)
              /\ aborted' = ~TempEndAsserts(Last(scopes), k)
<1>1. PICK t, n : t = Last(scopes) /\ n = Len(scopes)
  OBVIOUS
<1>2. n = temp_depth /\ \A i \in 1..Len(scopes) : ScopeHeld(i)
  BY <1>1, ScopesParts, Zenon
<1>3. /\ chain \in Seq(Blocks) /\ IsInjective(chain) /\ Len(chain) \in Nat
      /\ scopes \in Seq(Scope) /\ scopes # <<>> /\ scopes' = Front(scopes)
  BY DEF TypeOK, BlocksAccounted, TempEnd
<1>4. n \in Nat \ {0} /\ t = scopes[n] /\ t \in Scope
  BY <1>1, <1>3 DEF Last
<1>5. /\ t.depth = n /\ t.generation = generation
      /\ \E k \in 0..Len(chain) : StopAt(t, k) /\ Separates(t, k, n)
  BY <1>1, <1>2, <1>4 DEF ScopeHeld
<1>6. PICK k \in 0..Len(chain) : StopAt(t, k) /\ Separates(t, k, n)
  BY <1>5
<1>7. PICK l \in 0..Len(chain) :
        StopAt(t, l) /\ Rewind(t, l) /\ aborted' = ~TempEndAsserts(t, l)
  BY <1>1, <1>6, Zenon DEF TempEnd
<1>8. l = k
  BY <1>3, <1>6, <1>7, MarkUnique DEF StopAt
<1>9. /\ StopAt(t, k) /\ Separates(t, k, n) /\ Rewind(t, k)
      /\ aborted' = ~TempEndAsserts(t, k)
  BY <1>6, <1>7, <1>8, Zenon
<1>10. \E m \in 0..Len(chain) :
         /\ StopAt(t, m) /\ Separates(t, m, n) /\ Rewind(t, m)
         /\ aborted' = ~TempEndAsserts(t, m)
  BY <1>9
<1> QED
  BY <1>1, <1>2, <1>3, <1>4, <1>5, <1>10

\* BelowCursor, of a chain and of the cells it runs through.
StopsAt(list, t, k) ==
  k \in 0..Len(list) /\ IF k = 0 THEN t.block = NULL ELSE t.block = list[k]
Below(list, cells, t) ==
  {y \in Consumed(cells) : \E k \in 0..Len(list), i \in 1..Len(list) :
     StopsAt(list, t, k) /\ i <= k /\ list[i] = y[1] /\ (i = k => y[2] < t.block_used)}

LEMMA BelowIs ==
  ASSUME NEW t
  PROVE  /\ BelowCursor(t) = Below(chain, block, t)
         /\ BelowCursor(t)' = Below(chain', block', t)
         /\ \A k : StopAt(t, k) <=> StopsAt(chain, t, k)
<1>1. /\ \A k : StopAt(t, k) <=> StopsAt(chain, t, k)
      /\ \A k : StopAt(t, k)' <=> StopsAt(chain', t, k)
  BY Zenon DEF StopAt, StopsAt
<1> QED
  BY <1>1, Zenon DEF BelowCursor, Below

\* The bytes below the mark of t, when t names list[k].
LEMMA InBelow ==
  ASSUME NEW list \in Seq(Blocks), IsInjective(list), NEW cells \in [Blocks -> Cell],
         NEW t \in Scope, NEW k \in 0..Len(list), StopsAt(list, t, k),
         k > 0 => t.block_used <= cells[list[k]].used, NEW c \in Blocks, NEW i \in Nat
  PROVE  <<c, i>> \in Below(list, cells, t) <=>
           \E j \in 1..k : list[j] = c /\ i < IF j = k THEN t.block_used ELSE cells[c].used
<1>1. Len(list) \in Nat
  OBVIOUS
<1>2. <<c, i>> \in Consumed(cells) <=> i < cells[c].used
  BY InConsumed
<1>3. <<c, i>> \in Below(list, cells, t) <=>
        /\ i < cells[c].used
        /\ \E l \in 0..Len(list), j \in 1..Len(list) :
             StopsAt(list, t, l) /\ j <= l /\ list[j] = c /\ (j = l => i < t.block_used)
  BY <1>2 DEF Below
<1>4. \A l \in 0..Len(list) : StopsAt(list, t, l) => l = k
  BY MarkUnique DEF StopsAt
<1>5. t.block_used \in Nat /\ cells[c].used \in Nat
  BY DEF Scope, Cell
<1> QED
  BY <1>1, <1>3, <1>4, <1>5

\* A rewind gives up the consumed bytes above the mark, and only those.
LEMMA RewindBytes ==
  ASSUME TypeOK, TypeOK', BlocksAccounted, FreeListClean, CursorsBounded,
         NEW t \in Scope, NEW k \in 0..Len(chain), NEW n,
         StopAt(t, k), Separates(t, k, n), Rewind(t, k)
  PROVE  /\ Consumed(block') = BelowCursor(t)
         /\ Consumed(block') \subseteq Consumed(block)
         /\ shadow' = shadow \ (Consumed(block) \ Consumed(block'))
         /\ \A j \in (k + 1)..Len(chain) : block'[chain[j]].used = 0
<1> DEFINE Top(b) == k > 0 /\ b = chain[k]
           From(b) == IF Top(b) THEN t.block_used ELSE 0
           Cut == {c \in Blocks : c \in Popped(k) \/ Top(c)}
           dropped == UNION {Bytes(b, From(b), block[b].used) : b \in Cut}
<1>1. /\ block' = [b \in Blocks |->
                     IF b \in Popped(k) THEN Discarded(b)
                     ELSE IF Top(b) THEN [block[b] EXCEPT !.used = Smaller(@, t.block_used)]
                     ELSE block[b]]
      /\ shadow' = shadow \ dropped
  BY Zenon DEF Rewind
<1>2. chain \in Seq(Blocks) /\ IsInjective(chain) /\ Len(chain) \in Nat
  BY DEF TypeOK, BlocksAccounted
<1>3. \A j \in 1..k : IF j = k THEN block'[chain[j]].used = t.block_used
                               ELSE block'[chain[j]] = block[chain[j]]
  BY RewindFacts
<1>4. t.block_used \in Nat /\ (k > 0 => chain[k] \in Blocks /\ t.block_used <= block[chain[k]].used)
  BY MarkFacts
<1>5. \A c \in Blocks : block[c].used \in Nat /\ block'[c].used \in Nat
  <2>1. \A c \in Blocks : block[c] \in Cell /\ block'[c] \in Cell
    BY Zenon DEF TypeOK
  <2> QED
    BY <2>1 DEF Cell
<1>6. \A c \in Popped(k) : c \in Blocks /\ block'[c].used = 0
  <2>1. ASSUME NEW c \in Popped(k)
        PROVE  c \in Blocks /\ block'[c].used = 0
    <3>1. c \in Blocks /\ block[c] \in Cell
      BY <1>2, CellType DEF Popped
    <3>2. block'[c] = Discarded(c)
      BY <1>1, <3>1
    <3>3. Discarded(c).used = 0
      BY <3>1 DEF Discarded, Absent, Cell
    <3> QED
      BY <3>1, <3>2, <3>3
  <2> QED
    BY <2>1
<1>7. \A j \in (k + 1)..Len(chain) : chain[j] \in Popped(k)
  BY DEF Popped
<1>8. ASSUME NEW c \in Blocks, c \notin Range(chain)
      PROVE  block[c].used = 0 /\ block'[c].used = 0 /\ c \notin Cut
  <2>1. block[c].used = 0
    BY <1>8, OffChain
  <2>2. c \notin Popped(k) /\ ~Top(c)
    BY <1>2, <1>8 DEF Popped, Range
  <2> QED
    BY <1>1, <2>1, <2>2
<1>9. block \in [Blocks -> Cell] /\ block' \in [Blocks -> Cell]
  BY Zenon DEF TypeOK
<1>10. ASSUME NEW c \in Blocks, NEW i \in Nat
       PROVE  /\ <<c, i>> \in Consumed(block) <=> i < block[c].used
              /\ <<c, i>> \in Consumed(block') <=> i < block'[c].used
              /\ <<c, i>> \in dropped <=> c \in Cut /\ From(c) <= i /\ i < block[c].used
  <2>1. \A b \in Blocks : From(b) \in Nat
    BY <1>4
  <2>2. \A b \in Blocks : <<c, i>> \in Bytes(b, From(b), block[b].used) <=>
                            c = b /\ From(b) <= i /\ i < block[b].used
    <3>1. ASSUME NEW b \in Blocks
          PROVE  <<c, i>> \in Bytes(b, From(b), block[b].used) <=>
                   c = b /\ From(b) <= i /\ i < block[b].used
      <4> HIDE DEF From
      <4> QED
        BY <1>5, <2>1, InBytes
    <3> QED
      BY <3>1
  <2>3. <<c, i>> \in dropped <=> \E b \in Cut : <<c, i>> \in Bytes(b, From(b), block[b].used)
    BY Zenon
  <2> HIDE DEF From, dropped
  <2>4. <<c, i>> \in dropped <=> c \in Cut /\ From(c) <= i /\ i < block[c].used
    BY <2>2, <2>3
  <2> QED
    BY <1>9, <2>4, InConsumed
<1>11. ASSUME NEW j \in 1..k
       PROVE  chain[j] \notin Popped(k)
  BY <1>2 DEF Popped, IsInjective
<1>12. ASSUME NEW c \in Blocks
       PROVE  \/ c \in Popped(k) /\ From(c) = 0 /\ c \in Cut /\ block'[c].used = 0
              \/ /\ Top(c) /\ From(c) = t.block_used /\ c \in Cut
                 /\ block'[c].used = t.block_used /\ t.block_used <= block[c].used
              \/ c \notin Cut /\ block'[c].used = block[c].used
  <2>1. CASE c \in Popped(k)
    <3>1. ~Top(c)
      BY <1>11, <2>1
    <3> QED
      BY <1>6, <2>1, <3>1
  <2>2. CASE c \notin Popped(k) /\ Top(c)
    BY <1>3, <1>4, <2>2
  <2>3. CASE c \notin Popped(k) /\ ~Top(c)
    BY <1>1, <2>3
  <2> QED
    BY <2>1, <2>2, <2>3
<1> HIDE DEF From, Cut, dropped, Top
<1>13. ASSUME NEW c \in Blocks, NEW i \in Nat
       PROVE  /\ <<c, i>> \in Consumed(block') => <<c, i>> \in Consumed(block)
              /\ <<c, i>> \in dropped <=>
                   <<c, i>> \in Consumed(block) /\ <<c, i>> \notin Consumed(block')
  BY <1>4, <1>5, <1>10, <1>12
<1>14. ASSUME NEW c \in Blocks, NEW i \in Nat
       PROVE  <<c, i>> \in Consumed(block') <=> <<c, i>> \in BelowCursor(t)
  <2>1. <<c, i>> \in BelowCursor(t) <=>
          \E j \in 1..k : chain[j] = c /\ i < IF j = k THEN t.block_used ELSE block[c].used
    <3>1. StopsAt(chain, t, k) /\ BelowCursor(t) = Below(chain, block, t)
      BY BelowIs, Zenon
    <3> QED
      BY <1>2, <1>4, <1>9, <3>1, InBelow
  <2>2. ASSUME NEW j \in 1..k, chain[j] = c, i < IF j = k THEN t.block_used ELSE block[c].used
        PROVE  <<c, i>> \in Consumed(block')
    BY <1>3, <1>10, <2>2
  <2>3. ASSUME <<c, i>> \in Consumed(block')
        PROVE  \E j \in 1..k : chain[j] = c /\ i < IF j = k THEN t.block_used ELSE block[c].used
    <3>1. i < block'[c].used
      BY <1>10, <2>3
    <3>2. c \in Range(chain) /\ c \notin Popped(k)
      BY <1>6, <1>8, <3>1
    <3>3. PICK j \in 1..Len(chain) : chain[j] = c
      BY <1>2, <3>2 DEF Range
    <3>4. j \in 1..k
      BY <1>2, <1>7, <3>2, <3>3
    <3> QED
      BY <1>3, <3>1, <3>3, <3>4
  <2> QED
    BY <2>1, <2>2, <2>3
<1>15. /\ Consumed(block) \subseteq Blocks \X Nat /\ Consumed(block') \subseteq Blocks \X Nat
       /\ BelowCursor(t) \subseteq Blocks \X Nat
  BY <1>9, ConsumedType DEF BelowCursor
<1>16. Consumed(block') = BelowCursor(t)
  BY <1>14, <1>15, SamePairs
<1>17. Consumed(block') \subseteq Consumed(block)
  BY <1>16 DEF BelowCursor
<1>18. shadow' = shadow \ (Consumed(block) \ Consumed(block'))
  <2>1. shadow' = shadow \ dropped
    BY <1>1, Zenon
  <2>2. shadow \subseteq Blocks \X Nat
    BY Zenon DEF TypeOK
  <2> QED
    BY <1>13, <2>1, <2>2, SamePairs
<1>19. \A j \in (k + 1)..Len(chain) : block'[chain[j]].used = 0
  BY <1>6, <1>7
<1> QED
  BY <1>16, <1>17, <1>18, <1>19

LEMMA TempEndShadow ==
  ASSUME TypeOK, TypeOK', BlocksAccounted, RegionsSafe, ScopesConsistent, RegionsSafe',
         FreeListClean, ShadowExact, TempEnd
  PROVE  ShadowExact'
<1>1. PICK t \in Scope, n \in Nat \ {0} :
        /\ t = Last(scopes) /\ n = Len(scopes) /\ n = temp_depth
  BY TempEndRewinds
<1>2. PICK k \in 0..Len(chain) : StopAt(t, k) /\ Separates(t, k, n) /\ Rewind(t, k)
  BY <1>1, TempEndRewinds
<1>3. CursorsBounded
  BY RegionsParts
<1>4. /\ Consumed(block') \subseteq Consumed(block)
      /\ shadow' = shadow \ (Consumed(block) \ Consumed(block'))
      /\ \A j \in (k + 1)..Len(chain) : block'[chain[j]].used = 0
  BY <1>2, <1>3, RewindBytes
<1>5. live' = {x \in live : x.depth < n}
  BY <1>1, <1>2, Zenon DEF Rewind
<1>6. ASSUME NEW x \in live'
      PROVE  Region(x) \subseteq Consumed(block')
  <2>1. /\ x.blk \in Blocks /\ End(x) \in Nat /\ x \in Place
        /\ End(x) <= block'[x.blk].used
    <3>1. x \in live
      BY <1>5
    <3>2. Placed(x)'
      BY RegionsPartsPrime, Zenon
    <3> QED
      BY <3>1, <3>2, PlaceType DEF TypeOK, Placed, End
  <2>2. block' \in [Blocks -> Cell] /\ block'[x.blk].used \in Nat
    BY <2>1 DEF TypeOK, Cell
  <2>3. ASSUME NEW c \in Blocks, NEW i \in Nat, <<c, i>> \in Extent(x)
        PROVE  <<c, i>> \in Consumed(block')
    <3>1. c = x.blk /\ i < End(x)
      BY <2>1, <2>3, InRegion
    <3>2. i < block'[c].used
      BY <2>1, <2>2, <3>1
    <3> QED
      BY <2>2, <3>2, InConsumed
  <2>4. \A p \in Region(x) : p \in Extent(x) /\ \E c \in Blocks, i \in Nat : p = <<c, i>>
    BY <2>1, RegionType, RegionCount
  <2> QED
    BY <2>3, <2>4
<1>7. ASSUME NEW x \in live \ live'
      PROVE  Region(x) \cap Consumed(block') = {}
  <2>1. x \in live /\ x \in Place /\ ~(x.depth < n)
    BY <1>5 DEF TypeOK
  <2>2. PICK j \in 1..Len(chain) : j >= k /\ chain[j] = x.blk /\ (j = k => x.off >= t.block_used)
    BY <1>2, <2>1 DEF Separates, AboveMark
  <2>3. /\ x.off \in Nat /\ t.block_used \in Nat /\ block' \in [Blocks -> Cell]
        /\ Len(chain) \in Nat
    <3>1. block' \in [Blocks -> Cell] /\ chain \in Seq(Blocks)
      BY Zenon DEF TypeOK
    <3> QED
      BY <2>1, <3>1, PlaceType DEF Scope
  <2>4. j = k => block'[chain[j]].used = t.block_used
    BY <1>2, <1>3, <2>2, RewindFacts
  <2>5. j # k => block'[chain[j]].used = 0
    BY <1>4, <2>2, <2>3
  <2>6. ASSUME NEW c \in Blocks, NEW i \in Nat, <<c, i>> \in Region(x), <<c, i>> \in Consumed(block')
        PROVE  FALSE
    <3>1. c = x.blk /\ x.off <= i
      BY <2>1, <2>6, InRegion
    <3>2. i < block'[c].used
      BY <2>3, <2>6, InConsumed
    <3> QED
      BY <2>2, <2>3, <2>4, <2>5, <3>1, <3>2
  <2>7. \A p \in Region(x) : \E c \in Blocks, i \in Nat : p = <<c, i>>
    BY <2>1, RegionType
  <2> QED
    BY <2>6, <2>7
<1>8. ASSUME NEW x \in live
      PROVE  Region(x) \subseteq Consumed(block)
  BY RegionConsumed
<1>9. shadow = Shown(live)
  BY Zenon DEF ShadowExact, Shown
<1>10. shadow' = Shown(live')
  BY <1>4, <1>5, <1>6, <1>7, <1>8, <1>9 DEF Shown
<1> QED
  BY <1>10, Zenon DEF ShadowExact, Shown

\* Nothing is shown outside the consumed bytes.
LEMMA ShadowConsumed ==
  ASSUME TypeOK, RegionsSafe, ShadowExact
  PROVE  shadow \subseteq Consumed(block)
<1>1. shadow = Shown(live)
  BY Zenon DEF ShadowExact, Shown
<1> QED
  BY <1>1, RegionConsumed DEF Shown

LEMMA EffectShadow ==
  ASSUME TypeOK, TypeOK', SafetyInv, SafetyInv', FreeListClean, ShadowExact, Effect
  PROVE  ShadowExact'
<1>1. BlocksAccounted /\ RegionsSafe /\ ScopesConsistent /\ RegionsSafe'
  BY DEF SafetyInv
<1>2. CASE shadow' = shadow /\ live' = live
  BY <1>2, Zenon DEF ShadowExact
<1>3. \/ NoEffect \/ Failed \/ TempBegin \/ Trim \/ ClearError
      => shadow' = shadow /\ live' = live
  BY Zenon DEF NoEffect, vars, stats, Failed, Fail, TempBegin, Trim, ClearError
<1>4. CASE Served
  BY <1>1, <1>4, ServedShadow
<1>5. CASE Resized
  BY <1>1, <1>5, ResizedShadowExact DEF Resized
<1>6. CASE RolledBack
  BY <1>1, <1>6, RolledBackShadow DEF RolledBack
<1>7. CASE TempEnd
  BY <1>1, <1>7, TempEndShadow
<1>8. CASE Reset \/ Deinit
  <2>1. live' = {} /\ shadow' \subseteq shadow \ Consumed(block)
    BY <1>8, Zenon DEF Reset, Deinit
  <2>2. shadow' = {}
    BY <1>1, <2>1, ShadowConsumed
  <2> QED
    BY <2>1, <2>2 DEF ShadowExact
<1> QED
  BY <1>2, <1>3, <1>4, <1>5, <1>6, <1>7, <1>8 DEF Effect

-----------------------------------------------------------------------------
(* The bytes in use *)

Counted == Consumed(block) \ abandoned
LeftBehind == abandoned \subseteq Consumed(block) /\ \A x \in live : Extent(x) \cap abandoned = {}

LEMMA UsedParts ==
  UsedExact <=> LeftBehind /\ used = Cardinality(Counted) /\ used <= high_water
BY Zenon DEF UsedExact, LeftBehind, Counted

LEMMA UsedPartsPrime ==
  UsedExact' <=> LeftBehind' /\ used' = Cardinality(Counted') /\ used' <= high_water'
BY Zenon DEF UsedExact, LeftBehind, Counted

LEMMA CountedFinite ==
  ASSUME TypeOK
  PROVE  IsFiniteSet(Counted) /\ Cardinality(Counted) \in Nat
<1>1. IsFiniteSet(Consumed(block))
  BY ConsumedType DEF TypeOK
<1>2. IsFiniteSet(Counted)
  BY <1>1, FS_Difference DEF Counted
<1> QED
  BY <1>2, FS_CardinalityType

LEMMA ServedUsed ==
  ASSUME TypeOK, TypeOK', BlocksAccounted, RegionsSafe, FreeListClean, UsedExact, Served
  PROVE  UsedExact'
<1>1. PICK b \in Blocks, cell \in Cell, size \in Nat \ {0}, align \in 1..MaxAlign,
          old \in SUBSET live, oldSize \in Nat :
        /\ CoreArgs(size, align, old, oldSize) /\ Extended(b, cell)
        /\ Carve(b, cell, size, align, old, oldSize)
  BY ServedCarves
<1>2. cell.used = block[b].used /\ Carve(b, cell, size, align, old, oldSize)
  BY <1>1 DEF Extended
<1>3. PICK grown \in Int : grown = block'[b].used - block[b].used
  <2>1. block[b] \in Cell /\ block'[b] \in Cell
    BY Zenon DEF TypeOK
  <2> QED
    BY <2>1 DEF Cell
<1>4. /\ Consumed(block') = Consumed(block) \cup Passed(b)
      /\ Consumed(block) \cap Passed(b) = {}
      /\ IsFiniteSet(Passed(b)) /\ Cardinality(Passed(b)) = grown
      /\ used' = used + grown - oldSize
      /\ high_water' = Larger(high_water, used + grown)
      /\ abandoned' = abandoned \cup Moved(old)
  <2>1. /\ Consumed(block') = Consumed(block) \cup Passed(b)
        /\ Consumed(block) \cap Passed(b) = {}
        /\ IsFiniteSet(Passed(b)) /\ Cardinality(Passed(b)) = block'[b].used - block[b].used
    BY <1>2, CarvedBytes
  <2>2. used' = used + (block'[b].used - block[b].used) - oldSize
    BY <1>2, CarvedBytes
  <2>3. high_water' = Larger(high_water, used + (block'[b].used - block[b].used))
    BY <1>2, CarvedBytes
  <2>4. abandoned' = abandoned \cup Moved(old)
    BY <1>2, CarvedBytes
  <2> QED
    BY <1>3, <2>1, <2>2, <2>3, <2>4, Zenon
<1>5. PICK new \in Place : /\ live' = (live \ old) \cup {new}
                           /\ shadow' = (shadow \cup Region(new)) \ Moved(old)
                           /\ Extent(new) \subseteq Passed(b)
  BY <1>2, CarvedBytes
<1>6. /\ Moved(old) \subseteq Consumed(block)
      /\ IsFiniteSet(Moved(old)) /\ Cardinality(Moved(old)) = oldSize
      /\ \A x \in live \ old : Extent(x) \cap Moved(old) = {}
  BY <1>1, MovedBytes
<1>7. /\ abandoned \subseteq Consumed(block) /\ \A x \in live : Extent(x) \cap abandoned = {}
      /\ used = Cardinality(Counted) /\ used <= high_water
  BY UsedParts, Zenon DEF LeftBehind
<1>8. Moved(old) \cap abandoned = {}
  <2>1. \A x \in live : Region(x) \subseteq Extent(x)
    BY RegionCount DEF TypeOK
  <2> QED
    BY <1>7, <2>1 DEF Moved
<1>9. LeftBehind'
  <2>1. abandoned' \subseteq Consumed(block')
    BY <1>4, <1>6, <1>7
  <2>2. \A x \in live' : Extent(x) \cap abandoned' = {}
    BY <1>4, <1>5, <1>6, <1>7
  <2> QED
    BY <2>1, <2>2, Zenon DEF LeftBehind
<1>10. Counted' = (Counted \cup Passed(b)) \ Moved(old)
  <2>1. Counted' = Consumed(block') \ abandoned'
    BY Zenon DEF Counted
  <2> QED
    BY <1>4, <1>6, <1>7, <2>1 DEF Counted
<1>11. Cardinality(Counted') = Cardinality(Counted) + grown - oldSize
  <2>1. Counted \cap Passed(b) = {}
    BY <1>4 DEF Counted
  <2>2. /\ IsFiniteSet(Counted \cup Passed(b))
        /\ Cardinality(Counted \cup Passed(b)) = Cardinality(Counted) + grown
    BY <1>4, <2>1, CountedFinite, CountAdded
  <2>3. Moved(old) \subseteq Counted \cup Passed(b)
    BY <1>6, <1>8 DEF Counted
  <2>4. Cardinality((Counted \cup Passed(b)) \ Moved(old))
          = Cardinality(Counted \cup Passed(b)) - Cardinality(Moved(old))
    BY <2>2, <2>3, CountRemoved
  <2>5. Cardinality(Counted') = Cardinality(Counted \cup Passed(b)) - Cardinality(Moved(old))
    BY <1>10, <2>4, Zenon
  <2>6. Cardinality(Counted) \in Nat
    BY CountedFinite
  <2> QED
    BY <1>6, <2>2, <2>5, <2>6
<1>12. used' = Cardinality(Counted') /\ used' <= high_water'
  <2>1. used \in Int /\ high_water \in Nat
    BY Zenon DEF TypeOK
  <2> QED
    BY <1>4, <1>7, <1>11, <2>1 DEF Larger
<1> QED
  BY <1>9, <1>12, UsedPartsPrime

\* The cursor of the last region moves, never below where the region begins.
LEMMA LastMovedCount ==
  ASSUME TypeOK, TypeOK', RegionsSafe, LeftBehind, NEW x \in live, IsLastAlloc(x),
         abandoned' = abandoned, \A c \in Blocks \ {x.blk} : block'[c].used = block[c].used,
         x.off <= block'[x.blk].used
  PROVE  /\ abandoned' \subseteq Consumed(block')
         /\ Cardinality(Counted')
              = Cardinality(Counted) + (block'[x.blk].used - block[x.blk].used)
<1> DEFINE b == x.blk
<1>1. /\ b \in Blocks /\ End(x) = block[b].used /\ x \in Place
      /\ block \in [Blocks -> Cell] /\ block' \in [Blocks -> Cell]
  <2>1. b \in Blocks /\ End(x) = block[b].used
    BY BelowLast
  <2> QED
    BY <2>1, Zenon DEF TypeOK
<1>2. block[b].used \in Nat /\ block'[b].used \in Nat
  BY <1>1 DEF Cell
<1>3. abandoned \subseteq Consumed(block) /\ Extent(x) \cap abandoned = {}
  BY Zenon DEF LeftBehind
<1>4. Counted' = Consumed(block') \ abandoned
  BY Zenon DEF Counted
<1>5. CASE block[b].used <= block'[b].used
  <2>1. PICK new : new = Bytes(b, block[b].used, block'[b].used)
    OBVIOUS
  <2>2. /\ Consumed(block') = Consumed(block) \cup new /\ Consumed(block) \cap new = {}
        /\ IsFiniteSet(new) /\ Cardinality(new) = block'[b].used - block[b].used
    BY <1>1, <1>5, <2>1, CursorMoved
  <2>3. Counted' = Counted \cup new /\ Counted \cap new = {}
    BY <1>3, <1>4, <2>2 DEF Counted
  <2>4. Cardinality(Counted') = Cardinality(Counted) + Cardinality(new)
    BY <2>2, <2>3, CountedFinite, CountAdded
  <2> QED
    BY <1>3, <2>2, <2>4
<1>6. CASE block'[b].used < block[b].used
  <2>1. PICK lost : lost = Bytes(b, block'[b].used, block[b].used)
    OBVIOUS
  <2>2. /\ Consumed(block) = Consumed(block') \cup lost /\ Consumed(block') \cap lost = {}
        /\ IsFiniteSet(lost) /\ Cardinality(lost) = block[b].used - block'[b].used
    <3>1. block'[b].used <= block[b].used /\ \A c \in Blocks \ {b} : block'[c].used = block[c].used
      BY <1>2, <1>6
    <3> QED
      BY <1>1, <2>1, <3>1, CursorMoved
  <2>3. lost \subseteq Extent(x)
    <3>1. ASSUME NEW c \in Blocks, NEW i \in Nat, <<c, i>> \in lost
          PROVE  <<c, i>> \in Extent(x)
      <4>1. c = b /\ block'[b].used <= i /\ i < block[b].used
        BY <1>1, <1>2, <2>1, <3>1, InBytes
      <4>2. x.off \in Nat /\ x.off <= i
        BY <1>2, <4>1, PlaceType
      <4> QED
        BY <1>1, <4>1, <4>2, InRegion
    <3>2. lost \subseteq Blocks \X Nat
      BY <1>1, <1>2, <2>1, BytesType
    <3> QED
      BY <3>1, <3>2
  <2>4. Counted' = Counted \ lost /\ lost \subseteq Counted
    BY <1>3, <1>4, <2>2, <2>3 DEF Counted
  <2>5. Cardinality(Counted') = Cardinality(Counted) - Cardinality(lost)
    BY <2>4, CountedFinite, CountRemoved
  <2>6. Cardinality(Counted') = Cardinality(Counted) + (block'[b].used - block[b].used)
    BY <1>2, <2>2, <2>5, CountedFinite
  <2> QED
    BY <1>3, <2>2, <2>3, <2>6
<1> QED
  BY <1>2, <1>5, <1>6

LEMMA ResizedUsed ==
  ASSUME TypeOK, TypeOK', RegionsSafe, UsedExact, NEW x \in live, NEW newSize \in Nat \ {0},
         CanResize(x, newSize), ResizeInPlace(x, newSize)
  PROVE  UsedExact'
<1>1. /\ IsLastAlloc(x) /\ abandoned' = abandoned
      /\ block' = [block EXCEPT ![x.blk].used = @ + (newSize - x.size)]
      /\ used' = used + (newSize - x.size)
      /\ high_water' = Larger(high_water, used + (newSize - x.size))
  BY Zenon DEF CanResize, ResizeInPlace
<1>2. PICK n : n = [x EXCEPT !.size = newSize]
  OBVIOUS
<1>3. live' = (live \ {x}) \cup {n}
  BY <1>2, Zenon DEF ResizeInPlace
<1>4. x.blk \in Blocks /\ End(x) = block[x.blk].used
  BY <1>1, BelowLast
<1>5. /\ x \in Place /\ x.off \in Nat /\ x.size \in Nat /\ block[x.blk].used \in Nat
      /\ block \in [Blocks -> Cell] /\ End(x) = x.off + x.size + Redzone /\ Redzone \in Nat
  <2>1. x \in Place /\ block \in [Blocks -> Cell]
    BY Zenon DEF TypeOK
  <2> QED
    BY <2>1, PlaceType, LayoutAssumption DEF End
<1>6. /\ \A c \in Blocks \ {x.blk} : block'[c].used = block[c].used
      /\ block'[x.blk].used = block[x.blk].used + (newSize - x.size)
  BY <1>1, <1>4, <1>5 DEF Cell
<1>7. x.off <= block'[x.blk].used
  <2>1. PICK u \in Nat, size \in Nat, off \in Nat :
          u = block[x.blk].used /\ size = x.size /\ off = x.off
    BY <1>5
  <2>2. u = off + size + Redzone
    BY <1>4, <1>5, <2>1, Zenon
  <2>3. block'[x.blk].used = u + (newSize - size)
    BY <1>6, <2>1, Zenon
  <2> QED
    BY <1>5, <2>1, <2>2, <2>3
<1>8. LeftBehind /\ used = Cardinality(Counted) /\ used <= high_water
  BY UsedParts, Zenon
<1>9. /\ abandoned' \subseteq Consumed(block')
      /\ Cardinality(Counted') = Cardinality(Counted) + (block'[x.blk].used - block[x.blk].used)
  BY <1>1, <1>6, <1>7, <1>8, LastMovedCount
<1>10. n \in Place /\ n.blk = x.blk /\ n.off = x.off /\ End(n) = x.off + newSize + Redzone
  BY <1>2, <1>5 DEF Place, End
<1>11. Extent(n) \cap abandoned = {}
  <2>1. ASSUME NEW c \in Blocks, NEW i \in Nat, <<c, i>> \in Extent(n), <<c, i>> \in abandoned
        PROVE  FALSE
    <3>1. c = x.blk /\ x.off <= i
      BY <1>10, <2>1, InRegion
    <3>2. i < End(x)
      <4>1. <<c, i>> \in Consumed(block)
        BY <1>8, <2>1 DEF LeftBehind
      <4> QED
        BY <1>4, <1>5, <3>1, <4>1, InConsumed
    <3>3. <<c, i>> \in Extent(x)
      BY <1>5, <3>1, <3>2, InRegion
    <3> QED
      BY <1>8, <2>1, <3>3 DEF LeftBehind
  <2>2. \A p \in Extent(n) : \E c \in Blocks, i \in Nat : p = <<c, i>>
    BY <1>10, RegionType
  <2> QED
    BY <2>1, <2>2
<1>12. LeftBehind'
  <2>1. \A y \in live' : Extent(y) \cap abandoned' = {}
    BY <1>1, <1>3, <1>8, <1>11 DEF LeftBehind
  <2> QED
    BY <1>9, <2>1, Zenon DEF LeftBehind
<1>13. used' = Cardinality(Counted') /\ used' <= high_water'
  <2>1. used \in Int /\ high_water \in Nat
    BY Zenon DEF TypeOK
  <2> QED
    BY <1>1, <1>5, <1>6, <1>8, <1>9, <2>1 DEF Larger
<1> QED
  BY <1>12, <1>13, UsedPartsPrime

LEMMA RolledBackUsed ==
  ASSUME TypeOK, TypeOK', RegionsSafe, UsedExact, NEW x \in live, RollBack(x)
  PROVE  UsedExact'
<1>1. /\ IsLastAlloc(x) /\ abandoned' = abandoned /\ live' = live \ {x}
      /\ block' = [block EXCEPT ![x.blk].used = x.off]
      /\ used' = used - (x.size + Redzone) /\ high_water' = high_water
  BY Zenon DEF RollBack, GivenBack
<1>2. x.blk \in Blocks /\ End(x) = block[x.blk].used
  BY <1>1, BelowLast
<1>3. /\ x.off \in Nat /\ x.size \in Nat /\ block[x.blk].used \in Nat
      /\ block \in [Blocks -> Cell] /\ End(x) = x.off + x.size + Redzone /\ Redzone \in Nat
  <2>1. block \in [Blocks -> Cell]
    BY Zenon DEF TypeOK
  <2> QED
    BY <2>1, PlaceType, LayoutAssumption DEF End
<1>4. /\ \A c \in Blocks \ {x.blk} : block'[c].used = block[c].used
      /\ block'[x.blk].used = x.off
  BY <1>1, <1>2, <1>3 DEF Cell
<1>5. LeftBehind /\ used = Cardinality(Counted) /\ used <= high_water
  BY UsedParts, Zenon
<1>6. /\ abandoned' \subseteq Consumed(block')
      /\ Cardinality(Counted') = Cardinality(Counted) + (block'[x.blk].used - block[x.blk].used)
  <2>1. x.off <= block'[x.blk].used
    BY <1>3, <1>4
  <2> QED
    BY <1>1, <1>4, <1>5, <2>1, LastMovedCount
<1>7. LeftBehind'
  <2>1. \A y \in live' : Extent(y) \cap abandoned' = {}
    BY <1>1, <1>5 DEF LeftBehind
  <2> QED
    BY <1>6, <2>1, Zenon DEF LeftBehind
<1>8. used' = Cardinality(Counted') /\ used' <= high_water'
  <2>1. used \in Int /\ high_water \in Nat
    BY Zenon DEF TypeOK
  <2>2. PICK u \in Nat, size \in Nat, off \in Nat :
          u = block[x.blk].used /\ size = x.size /\ off = x.off
    BY <1>3
  <2>3. u = off + size + Redzone
    BY <1>2, <1>3, <2>2, Zenon
  <2>4. Cardinality(Counted') = used + (off - u) /\ used' = used - (size + Redzone)
    BY <1>1, <1>4, <1>5, <1>6, <2>2, Zenon
  <2> QED
    BY <1>1, <1>3, <1>5, <2>1, <2>3, <2>4
<1> QED
  BY <1>7, <1>8, UsedPartsPrime

LEMMA SameConsumed ==
  ASSUME NEW m \in [Blocks -> Cell], NEW n \in [Blocks -> Cell],
         \A b \in Blocks : m[b].used = n[b].used
  PROVE  Consumed(m) = Consumed(n)
BY Zenon DEF Consumed

LEMMA NoneConsumed ==
  ASSUME NEW cells \in [Blocks -> Cell], \A b \in Blocks : cells[b].used = 0
  PROVE  Consumed(cells) = {}
<1>1. ASSUME NEW c \in Blocks, NEW i \in Nat, <<c, i>> \in Consumed(cells)
      PROVE  FALSE
  BY <1>1, InConsumed
<1>2. \A p \in Consumed(cells) : \E c \in Blocks, i \in Nat : p = <<c, i>>
  BY ConsumedType
<1> QED
  BY <1>1, <1>2

\* What is in use once a scope has ended is what was in use below its mark,
\* which is what its snapshot records; so temp_end asserts nothing untrue.
LEMMA TempEndCounts ==
  ASSUME TypeOK, TypeOK', BlocksAccounted, RegionsSafe, ScopesConsistent, FreeListClean,
         UsedExact, ScopesUsed, TempEnd
  PROVE  /\ UsedExact' /\ used' = Last(scopes).used
         /\ aborted' = FALSE
<1>1. PICK t \in Scope, n \in Nat \ {0} :
        /\ t = Last(scopes) /\ n = Len(scopes) /\ n = temp_depth
        /\ t = scopes[n] /\ t.depth = temp_depth /\ t.generation = generation
  BY TempEndRewinds
<1>2. PICK k \in 0..Len(chain) : /\ StopAt(t, k) /\ Separates(t, k, n) /\ Rewind(t, k)
                                 /\ aborted' = ~TempEndAsserts(t, k)
  BY <1>1, TempEndRewinds
<1>3. /\ Consumed(block') = BelowCursor(t) /\ Consumed(block') \subseteq Consumed(block)
  BY <1>2, RegionsParts, RewindBytes
<1>4. /\ used' = Smaller(used, t.used) /\ high_water' = high_water
      /\ abandoned' = abandoned \cap Consumed(block')
      /\ live' = {x \in live : x.depth < temp_depth}
  BY <1>2, Zenon DEF Rewind
<1>5. LeftBehind /\ used = Cardinality(Counted) /\ used <= high_water
  BY UsedParts, Zenon
<1>6. Counted' = BelowCursor(t) \ abandoned
  <2>1. Counted' = Consumed(block') \ abandoned'
    BY Zenon DEF Counted
  <2> QED
    BY <1>3, <1>4, <2>1
<1>7. t.used = Cardinality(Counted')
  <2>1. n \in 1..Len(scopes)
    BY <1>1
  <2> QED
    BY <1>1, <1>6, <2>1, Zenon DEF ScopesUsed
<1>8. Counted' \subseteq Counted
  BY <1>3, <1>6 DEF Counted
<1>9. t.used <= used /\ t.used \in Int /\ used \in Int /\ high_water \in Nat
  <2>1. Cardinality(Counted') <= Cardinality(Counted)
    BY <1>8, CountedFinite, FS_Subset
  <2>2. used \in Int /\ high_water \in Nat
    BY Zenon DEF TypeOK
  <2> QED
    BY <1>5, <1>7, <2>1, <2>2 DEF Scope
<1>10. used' = t.used
  BY <1>4, <1>9 DEF Smaller
<1>11. LeftBehind'
  <2>1. abandoned' \subseteq Consumed(block') /\ \A x \in live' : Extent(x) \cap abandoned' = {}
    BY <1>4, <1>5 DEF LeftBehind
  <2> QED
    BY <2>1, Zenon DEF LeftBehind
<1>12. UsedExact'
  <2>1. used' = Cardinality(Counted') /\ used' <= high_water'
    BY <1>4, <1>5, <1>7, <1>9, <1>10
  <2> QED
    BY <1>11, <2>1, UsedPartsPrime
<1>13. TempEndAsserts(t, k)
  <2>1. k > 0 => t.block_used <= block[chain[k]].used /\ t.block_used \in Nat
    BY <1>2, MarkFacts
  <2>2. k > 0 => block[chain[k]].used \in Nat
    BY <1>2, MarkFacts, CellType
  <2> QED
    BY <1>1, <1>9, <2>1, <2>2 DEF TempEndAsserts
<1>14. aborted' = FALSE
  BY <1>2, <1>13, Zenon
<1> QED
  BY <1>1, <1>10, <1>12, <1>14

\* After a reset, nothing is consumed.
LEMMA ResetEmpties ==
  ASSUME TypeOK, TypeOK', BlocksAccounted, FreeListClean, Reset
  PROVE  Consumed(block') = {}
<1>1. ASSUME NEW c \in Blocks
      PROVE  block'[c].used = 0
  <2>1. block[c] \in Cell
    BY CellType
  <2>2. CASE block' = [b \in Blocks |-> [block[b] EXCEPT !.used = 0]]
    BY <2>1, <2>2 DEF Cell
  <2>3. CASE block' = [b \in Blocks |-> IF b \in Popped(0) THEN Discarded(b) ELSE block[b]]
    <3>1. Popped(0) = Range(chain)
      BY PoppedAll
    <3>2. c \in Range(chain) => block'[c] = Discarded(c) /\ Discarded(c).used = 0
      BY <2>1, <2>3, <3>1 DEF Discarded, Absent, Cell
    <3>3. c \notin Range(chain) => block'[c] = block[c] /\ block[c].used = 0
      BY <2>3, <3>1, OffChain
    <3> QED
      BY <3>2, <3>3
  <2> QED
    BY <2>2, <2>3, Zenon DEF Reset
<1>2. block' \in [Blocks -> Cell]
  BY Zenon DEF TypeOK
<1> QED
  BY <1>1, <1>2, NoneConsumed

LEMMA NothingUsed ==
  ASSUME live' = {}, abandoned' = {}, used' = 0, high_water' \in Nat, Consumed(block') = {}
  PROVE  UsedExact'
<1>1. Consumed(block') \ abandoned' = {}
  OBVIOUS
<1>2. Cardinality(Consumed(block') \ abandoned') = 0
  BY <1>1, FS_EmptySet, Zenon
<1>3. used' <= high_water'
  OBVIOUS
<1> QED
  BY <1>2, <1>3 DEF UsedExact

LEMMA TrimKeepsBytes ==
  ASSUME TypeOK, TypeOK', FreeListClean, Trim
  PROVE  Consumed(block') = Consumed(block)
<1>1. block \in [Blocks -> Cell] /\ block' \in [Blocks -> Cell]
  BY Zenon DEF TypeOK
<1>2. CASE block' = block
  BY <1>2
<1>3. CASE block' = [b \in Blocks |-> IF b \in Range(freeList) THEN Absent ELSE block[b]]
  <2>1. \A b \in Range(freeList) : block[b].used = 0
    BY CleanParts DEF RetainedRewound
  <2>2. \A b \in Blocks : block'[b].used = block[b].used
    BY <1>3, <2>1 DEF Absent
  <2> QED
    BY <1>1, <2>2, SameConsumed
<1> QED
  BY <1>2, <1>3, Zenon DEF Trim, NoEffect, vars, heap

LEMMA EffectUsed ==
  ASSUME TypeOK, TypeOK', SafetyInv, FreeListClean, UsedExact, ScopesUsed, Effect
  PROVE  UsedExact'
<1>1. BlocksAccounted /\ RegionsSafe /\ ScopesConsistent
  BY DEF SafetyInv
<1>2. CASE UNCHANGED <<live, abandoned, used, high_water>> /\ Consumed(block') = Consumed(block)
  BY <1>2, Zenon DEF UsedExact
<1>3. \/ NoEffect \/ Failed \/ TempBegin \/ ClearError
      => UNCHANGED <<live, abandoned, used, high_water, block>>
  BY Zenon DEF NoEffect, vars, heap, stats, Failed, Fail, TempBegin, ClearError
<1>4. CASE Served
  BY <1>1, <1>4, ServedUsed
<1>5. CASE Resized
  BY <1>1, <1>5, ResizedUsed DEF Resized
<1>6. CASE RolledBack
  BY <1>1, <1>6, RolledBackUsed DEF RolledBack
<1>7. CASE TempEnd
  BY <1>1, <1>7, TempEndCounts
<1>8. CASE Reset
  <2>1. live' = {} /\ abandoned' = {} /\ used' = 0
    BY <1>8, Zenon DEF Reset
  <2>2. Consumed(block') = {} /\ high_water' \in Nat
    BY <1>1, <1>8, ResetEmpties DEF TypeOK
  <2> QED
    BY <2>1, <2>2, NothingUsed
<1>9. CASE Deinit
  <2>1. live' = {} /\ abandoned' = {} /\ used' = 0 /\ block' = [b \in Blocks |-> Absent]
    BY <1>9, Zenon DEF Deinit
  <2>2. block' \in [Blocks -> Cell] /\ high_water' \in Nat
    BY Zenon DEF TypeOK
  <2>3. Consumed(block') = {}
    BY <2>1, <2>2, NoneConsumed DEF Absent
  <2> QED
    BY <2>1, <2>2, <2>3, NothingUsed
<1>10. CASE Trim
  <2>1. UNCHANGED <<live, abandoned, used, high_water>>
    BY <1>10, Zenon DEF Trim, NoEffect, vars, stats
  <2> QED
    BY <1>2, <1>10, <2>1, TrimKeepsBytes
<1> QED
  BY <1>2, <1>3, <1>4, <1>5, <1>6, <1>7, <1>8, <1>9, <1>10 DEF Effect

-----------------------------------------------------------------------------
(* The used an open snapshot records *)

\* Two chains that agree up to the block t names, with cursors that agree up to
\* the mark, have the same bytes below it.
LEMMA SameBelow ==
  ASSUME NEW l \in Seq(Blocks), IsInjective(l), NEW m \in [Blocks -> Cell],
         NEW r \in Seq(Blocks), IsInjective(r), NEW n \in [Blocks -> Cell],
         NEW t \in Scope, NEW k \in 0..Len(l), k <= Len(r), StopsAt(l, t, k),
         k > 0 => t.block_used <= m[l[k]].used /\ t.block_used <= n[l[k]].used,
         \A j \in 1..k : r[j] = l[j] /\ (j # k => n[l[j]].used = m[l[j]].used)
  PROVE  Below(l, m, t) = Below(r, n, t)
<1>1. k \in 0..Len(r) /\ StopsAt(r, t, k)
  <2>1. k \in 0..Len(r) /\ (k # 0 => r[k] = l[k])
    OBVIOUS
  <2> QED
    BY <2>1, Zenon DEF StopsAt
<1>2. ASSUME NEW c \in Blocks, NEW i \in Nat
      PROVE  <<c, i>> \in Below(l, m, t) <=> <<c, i>> \in Below(r, n, t)
  <2>1. <<c, i>> \in Below(l, m, t) <=>
          \E j \in 1..k : l[j] = c /\ i < IF j = k THEN t.block_used ELSE m[c].used
    BY InBelow
  <2>2. <<c, i>> \in Below(r, n, t) <=>
          \E j \in 1..k : r[j] = c /\ i < IF j = k THEN t.block_used ELSE n[c].used
    <3>1. k > 0 => t.block_used <= n[r[k]].used
      OBVIOUS
    <3> QED
      BY <1>1, <3>1, InBelow
  <2> QED
    BY <2>1, <2>2
<1>3. Below(l, m, t) \subseteq Blocks \X Nat /\ Below(r, n, t) \subseteq Blocks \X Nat
  BY ConsumedType DEF Below
<1> QED
  BY <1>2, <1>3, SamePairs

\* What ScopesUsed says of one scope, in this state and in the next.
Recorded(t) == t.used = Cardinality(Below(chain, block, t) \ abandoned)

LEMMA ScopesUsedParts ==
  ScopesUsed <=> \A i \in 1..Len(scopes) : Recorded(scopes[i])
BY BelowIs, Zenon DEF ScopesUsed, Recorded

LEMMA ScopesUsedPartsPrime ==
  ScopesUsed' <=> \A i \in 1..Len(scopes') :
                    scopes'[i].used = Cardinality(Below(chain', block', scopes'[i]) \ abandoned')
<1>1. ScopesUsed' <=> \A i \in 1..Len(scopes') :
                        scopes'[i].used = Cardinality(BelowCursor(scopes[i])' \ abandoned')
  BY Zenon DEF ScopesUsed
<1>2. \A i : BelowCursor(scopes[i])' = Below(chain', block', scopes'[i])
  <2>1. \A i : \A k : StopAt(scopes[i], k)' <=> StopsAt(chain', scopes'[i], k)
    BY Zenon DEF StopAt, StopsAt
  <2> QED
    BY <2>1, Zenon DEF BelowCursor, Below
<1> QED
  BY <1>1, <1>2, Zenon

\* A step that leaves alone the blocks below the mark, keeps the cursor of the
\* marked one over it and leaves behind no byte below it.
Undisturbed(t, k) ==
  /\ k <= Len(chain')
  /\ k > 0 => t.block_used <= block'[chain[k]].used
  /\ \A j \in 1..k : /\ chain'[j] = chain[j]
                     /\ j # k => block'[chain[j]].used = block[chain[j]].used
  /\ abandoned' \cap Below(chain, block, t) = abandoned \cap Below(chain, block, t)

LEMMA RecordedKept ==
  ASSUME TypeOK, TypeOK', BlocksAccounted, BlocksAccounted', ScopesConsistent, ScopesUsed,
         NEW i \in 1..Len(scopes), NEW t \in Scope, t = scopes[i],
         \A k \in 0..Len(chain) : StopAt(t, k) /\ Separates(t, k, i) => Undisturbed(t, k)
  PROVE  t.used = Cardinality(Below(chain', block', t) \ abandoned')
<1>1. PICK k \in 0..Len(chain) : StopAt(t, k) /\ Separates(t, k, i)
  BY ScopesParts, Zenon DEF ScopeHeld
<1>2. Undisturbed(t, k)
  BY <1>1
<1>3. /\ chain \in Seq(Blocks) /\ IsInjective(chain) /\ block \in [Blocks -> Cell]
      /\ chain' \in Seq(Blocks) /\ IsInjective(chain') /\ block' \in [Blocks -> Cell]
  BY Zenon DEF TypeOK, BlocksAccounted, IsInjective
<1>4. StopsAt(chain, t, k) /\ (k > 0 => t.block_used <= block[chain[k]].used)
  BY <1>1, BelowIs, Zenon DEF Separates
<1>5. Below(chain', block', t) = Below(chain, block, t)
  <2>1. k > 0 => t.block_used <= block[chain[k]].used /\ t.block_used <= block'[chain[k]].used
    BY <1>2, <1>4 DEF Undisturbed
  <2>2. /\ k <= Len(chain')
        /\ \A j \in 1..k : /\ chain'[j] = chain[j]
                           /\ j # k => block'[chain[j]].used = block[chain[j]].used
    BY <1>2, Zenon DEF Undisturbed
  <2>3. StopsAt(chain, t, k)
    BY <1>4
  <2> HIDE DEF Below
  <2>4. PICK l, m, r, n : l = chain /\ m = block /\ r = chain' /\ n = block'
    OBVIOUS
  <2>5. Below(l, m, t) = Below(r, n, t)
    <3>1. /\ l \in Seq(Blocks) /\ IsInjective(l) /\ m \in [Blocks -> Cell]
          /\ r \in Seq(Blocks) /\ IsInjective(r) /\ n \in [Blocks -> Cell]
      BY <1>3, <2>4, Zenon
    <3>2. StopsAt(l, t, k) /\ k <= Len(r)
      BY <2>2, <2>3, <2>4, Zenon
    <3>3. k > 0 => t.block_used <= m[l[k]].used /\ t.block_used <= n[l[k]].used
      BY <2>1, <2>4, Zenon
    <3>4. \A j \in 1..k : r[j] = l[j] /\ (j # k => n[l[j]].used = m[l[j]].used)
      BY <2>2, <2>4, Zenon
    <3>5. k \in 0..Len(l)
      BY <2>4
    <3> HIDE DEF StopsAt
    <3> QED
      BY <3>1, <3>2, <3>3, <3>4, <3>5, SameBelow, ZenonT(60)
  <2> QED
    BY <2>4, <2>5, Zenon
<1>6. Below(chain', block', t) \ abandoned' = Below(chain, block, t) \ abandoned
  BY <1>2, <1>5 DEF Undisturbed
<1>7. t.used = Cardinality(Below(chain, block, t) \ abandoned)
  BY ScopesUsedParts, Zenon DEF Recorded
<1> QED
  BY <1>6, <1>7

LEMMA ScopesUsedKept ==
  ASSUME TypeOK, TypeOK', BlocksAccounted, BlocksAccounted', ScopesConsistent, ScopesUsed,
         scopes' = scopes,
         \A i \in 1..Len(scopes), t \in Scope, k \in 0..Len(chain) :
           t = scopes[i] /\ StopAt(t, k) /\ Separates(t, k, i) => Undisturbed(t, k)
  PROVE  ScopesUsed'
<1>1. scopes \in Seq(Scope)
  BY DEF TypeOK
<1>2. ASSUME NEW i \in 1..Len(scopes)
      PROVE  scopes'[i].used = Cardinality(Below(chain', block', scopes'[i]) \ abandoned')
  <2>1. PICK t \in Scope : t = scopes[i]
    BY <1>1
  <2>2. t.used = Cardinality(Below(chain', block', t) \ abandoned')
    BY <2>1, RecordedKept
  <2> QED
    BY <2>1, <2>2
<1> QED
  BY <1>2, ScopesUsedPartsPrime

\* A region above the mark has no byte below it.
LEMMA AboveNotBelow ==
  ASSUME TypeOK, BlocksAccounted, NEW t \in Scope, NEW k \in 0..Len(chain), NEW n,
         StopAt(t, k), Separates(t, k, n), NEW x \in live, AboveMark(t, k, x)
  PROVE  Region(x) \cap Below(chain, block, t) = {}
<1>1. /\ chain \in Seq(Blocks) /\ IsInjective(chain) /\ block \in [Blocks -> Cell]
      /\ x \in Place
  BY Zenon DEF TypeOK, BlocksAccounted
<1>2. StopsAt(chain, t, k) /\ (k > 0 => t.block_used <= block[chain[k]].used)
  BY BelowIs, Zenon DEF Separates
<1>3. PICK l \in 1..Len(chain) : l >= k /\ chain[l] = x.blk /\ (l = k => x.off >= t.block_used)
  BY DEF AboveMark
<1>4. ASSUME NEW c \in Blocks, NEW i \in Nat, <<c, i>> \in Region(x),
             <<c, i>> \in Below(chain, block, t)
      PROVE  FALSE
  <2>1. c = x.blk /\ x.off <= i
    BY <1>1, <1>4, InRegion
  <2>2. PICK j \in 1..k : chain[j] = c /\ i < IF j = k THEN t.block_used ELSE block[c].used
    BY <1>1, <1>2, <1>4, InBelow
  <2>3. j = l
    BY <1>1, <1>3, <2>1, <2>2 DEF IsInjective
  <2>4. x.off \in Nat /\ t.block_used \in Nat
    BY PlaceType DEF Scope
  <2> QED
    BY <1>3, <2>1, <2>2, <2>3, <2>4
<1>5. \A p \in Region(x) : \E c \in Blocks, i \in Nat : p = <<c, i>>
  BY <1>1, RegionType
<1> QED
  BY <1>4, <1>5

\* The current block is the marked one or newer than it.
LEMMA CurrentNewest ==
  ASSUME TypeOK, BlocksAccounted, NEW k \in 0..Len(chain), NEW j \in 1..k, j # k
  PROVE  chain[j] \in Blocks /\ chain[j] # Current
<1>1. chain \in Seq(Blocks) /\ IsInjective(chain) /\ Current = chain[Len(chain)]
  BY DEF TypeOK, BlocksAccounted, Current, Last
<1> QED
  BY <1>1 DEF IsInjective

LEMMA ServedScopesUsed ==
  ASSUME TypeOK, TypeOK', BlocksAccounted, BlocksAccounted', RegionsSafe, ScopesConsistent,
         FreeListClean, ScopesUsed, Served
  PROVE  ScopesUsed'
<1>1. PICK b \in Blocks, cell \in Cell, size \in Nat \ {0}, align \in 1..MaxAlign,
          old \in SUBSET live, oldSize \in Nat :
        /\ CoreArgs(size, align, old, oldSize) /\ Extended(b, cell)
        /\ Carve(b, cell, size, align, old, oldSize)
  BY ServedCarves
<1>2. cell.used = block[b].used /\ Carve(b, cell, size, align, old, oldSize)
  BY <1>1 DEF Extended
<1>3. /\ \A c \in Blocks \ {b} : block'[c] = block[c]
      /\ block[b].used <= block'[b].used
      /\ abandoned' = abandoned \cup Moved(old)
  BY <1>2, CarvedBytes
<1>4. scopes' = scopes
  BY <1>1, Zenon DEF Extended, epoch
<1>5. \A c \in Blocks : block[c].used \in Nat /\ block'[c].used \in Nat
  <2>1. \A c \in Blocks : block[c] \in Cell /\ block'[c] \in Cell
    BY Zenon DEF TypeOK
  <2> QED
    BY <2>1 DEF Cell
<1>6. chain \in Seq(Blocks) /\ chain' \in Seq(Blocks) /\ temp_depth \in Nat
  BY Zenon DEF TypeOK
<1>7. /\ Len(chain') >= Len(chain) /\ \A j \in 1..Len(chain) : chain'[j] = chain[j]
      /\ b = Current \/ b \notin Range(chain)
  <2>1. CASE chain' = chain /\ b = Current
    BY <1>6, <2>1
  <2>2. CASE chain' = Append(chain, b) /\ b \notin Range(chain)
    BY <1>6, <2>2
  <2> QED
    BY <1>1, <2>1, <2>2, Zenon DEF Extended
<1>8. ASSUME NEW i \in 1..Len(scopes), NEW t \in Scope, NEW k \in 0..Len(chain),
             t = scopes[i], StopAt(t, k), Separates(t, k, i)
      PROVE  Undisturbed(t, k)
  <2>1. /\ t.block_used \in Nat
        /\ k > 0 => /\ chain[k] \in Blocks /\ t.block_used <= block[chain[k]].used
    BY <1>8, MarkFacts
  <2>2. k > 0 => t.block_used <= block'[chain[k]].used
    <3>1. k > 0 => block[chain[k]].used <= block'[chain[k]].used
      BY <1>3, <1>5, <2>1
    <3> QED
      BY <1>5, <2>1, <3>1
  <2>3. ASSUME NEW j \in 1..k, j # k
        PROVE  block'[chain[j]] = block[chain[j]]
    <3>1. chain[j] \in Blocks /\ chain[j] # Current /\ chain[j] \in Range(chain)
      BY <1>6, <2>3, CurrentNewest DEF Range
    <3> QED
      BY <1>3, <1>7, <3>1
  <2>4. Moved(old) \cap Below(chain, block, t) = {}
    <3>1. ASSUME NEW x \in old
          PROVE  Region(x) \cap Below(chain, block, t) = {}
      <4>1. x \in live /\ x.depth = temp_depth
        BY <1>1, MovedBytes
      <4>2. i <= temp_depth
        BY <1>6, ScopesParts
      <4>3. AboveMark(t, k, x)
        BY <1>6, <1>8, <4>1, <4>2 DEF Separates
      <4> QED
        BY <1>8, <4>1, <4>3, AboveNotBelow
    <3> QED
      BY <3>1 DEF Moved
  <2>5. abandoned' \cap Below(chain, block, t) = abandoned \cap Below(chain, block, t)
    BY <1>3, <2>4
  <2>6. k <= Len(chain') /\ \A j \in 1..k : chain'[j] = chain[j]
    BY <1>6, <1>7
  <2> QED
    BY <2>2, <2>3, <2>5, <2>6 DEF Undisturbed
<1> QED
  BY <1>4, <1>8, ScopesUsedKept

\* The handlers that move the cursor of the last region.
LEMMA LastMovedScopesUsed ==
  ASSUME TypeOK, TypeOK', BlocksAccounted, BlocksAccounted', ScopesConsistent, ScopesUsed,
         NEW x \in live, IsLastAlloc(x), x.depth = temp_depth,
         chain' = chain, scopes' = scopes, abandoned' = abandoned,
         \A c \in Blocks \ {x.blk} : block'[c] = block[c], x.off <= block'[x.blk].used
  PROVE  ScopesUsed'
<1>1. ASSUME NEW i \in 1..Len(scopes), NEW t \in Scope, NEW k \in 0..Len(chain),
             t = scopes[i], StopAt(t, k), Separates(t, k, i)
      PROVE  Undisturbed(t, k)
  <2>1. i \in Nat /\ i <= temp_depth
    <3>1. Len(scopes) = temp_depth /\ temp_depth \in Nat
      BY ScopesParts, Zenon DEF TypeOK
    <3> QED
      BY <3>1
  <2>2. k > 0 /\ chain[k] = x.blk => t.block_used <= x.off
    BY <1>1, <2>1, LastAboveMark
  <2>3. /\ t.block_used \in Nat
        /\ k > 0 => /\ chain[k] \in Blocks /\ t.block_used <= block[chain[k]].used
    BY <1>1, MarkFacts
  <2>4. x.blk \in Blocks /\ x.blk = Current /\ x.off \in Nat
    BY PlaceType, Zenon DEF IsLastAlloc
  <2>5. block'[x.blk].used \in Nat
    <3>1. block'[x.blk] \in Cell
      BY <2>4 DEF TypeOK
    <3> QED
      BY <3>1 DEF Cell
  <2>6. k > 0 => t.block_used <= block'[chain[k]].used
    <3>1. k > 0 /\ chain[k] # x.blk => block'[chain[k]] = block[chain[k]]
      BY <2>3
    <3> QED
      BY <2>2, <2>3, <2>4, <2>5, <3>1
  <2>7. \A j \in 1..k : j # k => block'[chain[j]] = block[chain[j]]
    BY <2>4, CurrentNewest
  <2>8. k <= Len(chain)
    BY DEF TypeOK
  <2> QED
    BY <2>6, <2>7, <2>8 DEF Undisturbed
<1> QED
  BY <1>1, ScopesUsedKept

LEMMA TempBeginScopesUsed ==
  ASSUME TypeOK, TypeOK', BlocksAccounted, BlocksAccounted', ScopesConsistent, FreeListClean,
         UsedExact, ScopesUsed, TempBegin
  PROVE  ScopesUsed'
<1>1. PICK t, n : t = Snapshot(temp_depth + 1) /\ n = Len(scopes) + 1
  OBVIOUS
<1>2. scopes' = Append(scopes, t) /\ UNCHANGED <<heap, stats>>
  BY <1>1, Zenon DEF TempBegin
<1>3. chain' = chain /\ block' = block /\ abandoned' = abandoned
  BY <1>2, Zenon DEF heap, stats
<1>4. /\ scopes \in Seq(Scope) /\ scopes' \in Seq(Scope) /\ chain \in Seq(Blocks)
      /\ IsInjective(chain) /\ block \in [Blocks -> Cell]
  BY Zenon DEF TypeOK, BlocksAccounted
<1>5. /\ Len(scopes') = n /\ scopes'[n] = t /\ n \in Nat /\ n - 1 = Len(scopes)
      /\ \A i \in 1..(n - 1) : scopes'[i] = scopes[i]
  BY <1>1, <1>2, <1>4
<1>6. t \in Scope
  BY <1>4, <1>5
<1>7. ASSUME NEW i \in 1..(n - 1)
      PROVE  scopes'[i].used = Cardinality(Below(chain', block', scopes'[i]) \ abandoned')
  <2>1. Recorded(scopes[i])
    BY <1>5, ScopesUsedParts
  <2> QED
    BY <1>3, <1>5, <2>1, Zenon DEF Recorded
<1>8. Below(chain, block, t) = Consumed(block)
  <2>1. PICK k \in Nat : k = Len(chain)
    BY <1>4
  <2>2. /\ t.block = IF chain = <<>> THEN NULL ELSE Current
        /\ t.block_used = IF chain = <<>> THEN 0 ELSE block[Current].used
    BY <1>1 DEF Snapshot
  <2>3. StopsAt(chain, t, k) /\ (k > 0 => chain[k] \in Blocks /\ t.block_used = block[chain[k]].used)
    BY <1>4, <2>1, <2>2 DEF StopsAt, Current, Last
  <2>4. \A c \in Blocks : block[c].used \in Nat
    BY <1>4 DEF Cell
  <2>5. ASSUME NEW c \in Blocks, NEW i \in Nat
        PROVE  <<c, i>> \in Below(chain, block, t) <=> <<c, i>> \in Consumed(block)
    <3>1. <<c, i>> \in Below(chain, block, t) <=>
            \E j \in 1..k : chain[j] = c /\ i < IF j = k THEN t.block_used ELSE block[c].used
      <4>1. k > 0 => t.block_used <= block[chain[k]].used
        BY <2>3, <2>4
      <4>2. k \in 0..Len(chain)
        BY <2>1
      <4> QED
        BY <1>4, <1>6, <2>3, <4>1, <4>2, InBelow
    <3>2. <<c, i>> \in Consumed(block) <=> i < block[c].used
      BY <1>4, InConsumed
    <3>3. c \notin Range(chain) => block[c].used = 0
      BY OffChain
    <3>4. c \in Range(chain) => \E j \in 1..k : chain[j] = c
      BY <1>4, <2>1 DEF Range
    <3> QED
      BY <2>3, <3>1, <3>2, <3>3, <3>4
  <2>6. Consumed(block) \subseteq Blocks \X Nat /\ Below(chain, block, t) \subseteq Blocks \X Nat
    BY <1>4, ConsumedType DEF Below
  <2> QED
    BY <2>5, <2>6, SamePairs
<1>9. t.used = Cardinality(Below(chain', block', t) \ abandoned')
  <2>1. t.used = used
    BY <1>1 DEF Snapshot
  <2>2. used = Cardinality(Consumed(block) \ abandoned)
    BY Zenon DEF UsedExact
  <2> QED
    BY <1>3, <1>8, <2>1, <2>2, Zenon
<1>10. \A i \in 1..n : i \in 1..(n - 1) \/ i = n
  BY <1>5
<1>11. \A i \in 1..Len(scopes') :
         scopes'[i].used = Cardinality(Below(chain', block', scopes'[i]) \ abandoned')
  BY <1>5, <1>7, <1>9, <1>10, Zenon
<1> QED
  BY <1>11, ScopesUsedPartsPrime, Zenon

LEMMA TempEndScopesUsed ==
  ASSUME TypeOK, TypeOK', BlocksAccounted, BlocksAccounted', RegionsSafe, ScopesConsistent,
         FreeListClean, ScopesUsed, TempEnd
  PROVE  ScopesUsed'
<1>1. PICK t \in Scope, n \in Nat \ {0} : t = Last(scopes) /\ n = Len(scopes) /\ t = scopes[n]
  BY TempEndRewinds
<1>2. PICK k \in 0..Len(chain) : StopAt(t, k) /\ Separates(t, k, n) /\ Rewind(t, k)
  BY <1>1, TempEndRewinds
<1>3. CursorsBounded
  BY RegionsParts
<1>4. /\ Len(chain') = k /\ \A j \in 1..k : chain'[j] = chain[j]
      /\ \A j \in 1..k : IF j = k THEN block'[chain[j]].used = t.block_used
                                  ELSE block'[chain[j]] = block[chain[j]]
  BY <1>2, <1>3, RewindFacts
<1>5. abandoned' = abandoned \cap Consumed(block')
  BY <1>2, Zenon DEF Rewind
<1>6. Consumed(block') = Below(chain, block, t)
  <2>1. Consumed(block') = BelowCursor(t)
    BY <1>2, <1>3, RewindBytes
  <2> QED
    BY <2>1, BelowIs
<1>7. /\ scopes \in Seq(Scope) /\ chain \in Seq(Blocks) /\ IsInjective(chain)
      /\ block \in [Blocks -> Cell] /\ block' \in [Blocks -> Cell]
      /\ chain' \in Seq(Blocks) /\ IsInjective(chain')
  BY Zenon DEF TypeOK, BlocksAccounted, IsInjective
<1>8. Len(scopes') = n - 1 /\ \A i \in 1..(n - 1) : scopes'[i] = scopes[i]
  <2>1. scopes' = Front(scopes) /\ scopes # <<>>
    BY Zenon DEF TempEnd
  <2> QED
    BY <1>1, <1>7, <2>1, FrontProperties
<1>9. ASSUME NEW i \in 1..(n - 1)
      PROVE  scopes'[i].used = Cardinality(Below(chain', block', scopes'[i]) \ abandoned')
  <2>1. i \in 1..Len(scopes) /\ n \in 1..Len(scopes) /\ i < n
    BY <1>1
  <2>2. PICK u \in Scope : u = scopes[i]
    BY <1>7, <2>1
  <2>3. ASSUME NEW m \in 0..Len(chain), StopAt(u, m), Separates(u, m, i)
        PROVE  Undisturbed(u, m)
    <3>1. m <= k /\ (m = k => u.block_used <= t.block_used)
      <4>1. Nested(u, t, m, k)
        BY <1>1, <2>1, <2>2, ScopesParts
      <4> QED
        BY <1>2, <2>3, <4>1 DEF Nested
    <3>2. /\ u.block_used \in Nat
          /\ m > 0 => /\ chain[m] \in Blocks /\ u.block_used <= block[chain[m]].used
      BY <2>3, MarkFacts
    <3>3. m > 0 => u.block_used <= block'[chain[m]].used
      BY <1>4, <3>1, <3>2
    <3>4. \A j \in 1..m : j \in 1..k /\ (j # m => j # k)
      BY <3>1
    <3>5. \A j \in 1..m : chain'[j] = chain[j] /\ (j # m => block'[chain[j]] = block[chain[j]])
      BY <1>4, <3>4
    <3>6. Below(chain', block', u) = Below(chain, block, u)
      <4>1. m > 0 => u.block_used <= block[chain[m]].used /\ u.block_used <= block'[chain[m]].used
        BY <3>2, <3>3
      <4>2. m <= Len(chain') /\ StopsAt(chain, u, m)
        BY <1>4, <2>3, <3>1, BelowIs
      <4> HIDE DEF Below
      <4>3. Below(chain, block, u) = Below(chain', block', u)
        BY <1>7, <3>5, <4>1, <4>2, SameBelow, SMTT(30)
      <4> QED
        BY <4>3
    <3>7. Below(chain, block, u) \subseteq Consumed(block')
      BY <3>6 DEF Below
    <3>8. abandoned' \cap Below(chain, block, u) = abandoned \cap Below(chain, block, u)
      BY <1>5, <3>7
    <3> QED
      BY <1>4, <3>1, <3>3, <3>5, <3>8 DEF Undisturbed
  <2>4. u.used = Cardinality(Below(chain', block', u) \ abandoned')
    BY <2>1, <2>2, <2>3, RecordedKept
  <2> QED
    BY <1>8, <2>2, <2>4
<1> QED
  BY <1>8, <1>9, ScopesUsedPartsPrime

LEMMA TrimScopesUsed ==
  ASSUME TypeOK, TypeOK', BlocksAccounted, BlocksAccounted', ScopesConsistent, ScopesUsed, Trim
  PROVE  ScopesUsed'
<1>1. chain' = chain /\ scopes' = scopes /\ abandoned' = abandoned
  BY Zenon DEF Trim, NoEffect, vars, heap, stats, epoch
<1>2. ASSUME NEW b \in Range(chain)
      PROVE  b \in Blocks /\ block'[b] = block[b]
  <2>1. b \in Blocks /\ b \notin Range(freeList)
    BY OwnedType DEF BlocksAccounted
  <2>2. CASE block' = block
    BY <2>1, <2>2
  <2>3. CASE block' = [c \in Blocks |-> IF c \in Range(freeList) THEN Absent ELSE block[c]]
    BY <2>1, <2>3
  <2> QED
    BY <2>2, <2>3, Zenon DEF Trim, NoEffect, vars, heap
<1>3. chain \in Seq(Blocks)
  BY Zenon DEF TypeOK
<1>4. \A j \in 1..Len(chain) : chain[j] \in Range(chain)
  BY <1>3 DEF Range
<1>5. ASSUME NEW i \in 1..Len(scopes), NEW t \in Scope, NEW k \in 0..Len(chain),
             t = scopes[i], StopAt(t, k), Separates(t, k, i)
      PROVE  Undisturbed(t, k)
  <2>1. k > 0 => chain[k] \in Range(chain) /\ t.block_used <= block[chain[k]].used
    BY <1>5, MarkFacts
  <2>2. k > 0 => t.block_used <= block'[chain[k]].used
    BY <1>2, <2>1
  <2>3. \A j \in 1..k : block'[chain[j]] = block[chain[j]]
    BY <1>2, <1>3, <1>4
  <2>4. k <= Len(chain)
    BY <1>3
  <2> QED
    BY <1>1, <2>2, <2>3, <2>4 DEF Undisturbed
<1> QED
  BY <1>1, <1>5, ScopesUsedKept

\* A step that changes none of what the snapshots are compared with.
LEMMA SameScopesUsed ==
  ASSUME ScopesUsed, UNCHANGED <<chain, block, scopes, abandoned>>
  PROVE  ScopesUsed'
<1>1. \A i \in 1..Len(scopes) :
        scopes[i].used = Cardinality(Below(chain, block, scopes[i]) \ abandoned)
  BY ScopesUsedParts, Zenon DEF Recorded
<1> QED
  BY <1>1, ScopesUsedPartsPrime, Zenon

LEMMA EffectScopesUsed ==
  ASSUME TypeOK, TypeOK', SafetyInv, SafetyInv', FreeListClean, UsedExact, ScopesUsed, Effect
  PROVE  ScopesUsed'
<1>1. BlocksAccounted /\ RegionsSafe /\ ScopesConsistent /\ BlocksAccounted'
  BY DEF SafetyInv
<1>2. CASE NoEffect \/ Failed \/ ClearError
  <2>1. UNCHANGED <<chain, block, scopes, abandoned>>
    BY <1>2, Zenon DEF NoEffect, vars, heap, stats, epoch, Failed, Fail, ClearError
  <2> QED
    BY <2>1, SameScopesUsed
<1>3. CASE Served
  BY <1>1, <1>3, ServedScopesUsed
<1>4. CASE Resized
  <2>1. PICK x \in live, newSize \in Nat \ {0} :
          x.depth = temp_depth /\ CanResize(x, newSize) /\ ResizeInPlace(x, newSize)
    BY <1>4 DEF Resized
  <2>2. /\ IsLastAlloc(x)
        /\ block' = [block EXCEPT ![x.blk].used = @ + (newSize - x.size)]
        /\ chain' = chain /\ abandoned' = abandoned /\ scopes' = scopes
    BY <2>1, Zenon DEF CanResize, ResizeInPlace, epoch
  <2>3. x.blk \in Blocks /\ End(x) = block[x.blk].used
    BY <1>1, <2>2, BelowLast
  <2>4. /\ \A c \in Blocks \ {x.blk} : block'[c] = block[c]
        /\ block'[x.blk].used = block[x.blk].used + (newSize - x.size)
    BY <2>2, <2>3 DEF TypeOK, Cell
  <2>5. x.off <= block'[x.blk].used
    BY <2>3, <2>4, PlaceType, LayoutAssumption DEF End
  <2> QED
    BY <1>1, <2>1, <2>2, <2>4, <2>5, LastMovedScopesUsed
<1>5. CASE RolledBack
  <2>1. PICK x \in live : x.depth = temp_depth /\ RollBack(x)
    BY <1>5 DEF RolledBack
  <2>2. /\ IsLastAlloc(x) /\ block' = [block EXCEPT ![x.blk].used = x.off]
        /\ chain' = chain /\ abandoned' = abandoned /\ scopes' = scopes
    BY <2>1, Zenon DEF RollBack, epoch
  <2>3. x.blk \in Blocks /\ x.off \in Nat
    BY PlaceType
  <2>4. (\A c \in Blocks \ {x.blk} : block'[c] = block[c]) /\ block'[x.blk].used = x.off
    BY <2>2, <2>3 DEF TypeOK, Cell
  <2> QED
    BY <1>1, <2>1, <2>2, <2>3, <2>4, LastMovedScopesUsed
<1>6. CASE TempBegin
  BY <1>1, <1>6, TempBeginScopesUsed
<1>7. CASE TempEnd
  BY <1>1, <1>7, TempEndScopesUsed
<1>8. CASE Trim
  BY <1>1, <1>8, TrimScopesUsed
<1>9. CASE Reset \/ Deinit
  <2>1. scopes' = <<>>
    BY <1>9, Zenon DEF Reset, Deinit
  <2>2. 1..Len(scopes') = {}
    BY <2>1
  <2> QED
    BY <2>2, ScopesUsedPartsPrime, Zenon
<1> QED
  BY <1>2, <1>3, <1>4, <1>5, <1>6, <1>7, <1>8, <1>9 DEF Effect

-----------------------------------------------------------------------------
(* No assert fails *)

\* Of all the handlers only the bump after a growth and temp_end assert anything.
LEMMA EffectNoAbort ==
  ASSUME TypeOK, TypeOK', SafetyInv, FreeListClean, UsedExact, ScopesUsed, NoAbort, Effect
  PROVE  NoAbort'
<1>1. BlocksAccounted /\ RegionsSafe /\ ScopesConsistent
  BY DEF SafetyInv
<1>2. CASE Served
  <2>1. aborted' = aborted \/ aborted' = FALSE
    BY <1>1, <1>2, ServedCarves, Zenon DEF Extended
  <2> QED
    BY <2>1 DEF NoAbort
<1>3. CASE TempEnd
  BY <1>1, <1>3, TempEndCounts DEF NoAbort
<1>4. CASE ~Served /\ ~TempEnd
  <2>1. NoEffect \/ Failed \/ TempBegin \/ ClearError \/ Trim => aborted' = aborted
    BY Zenon DEF NoEffect, vars, Failed, Fail, TempBegin, ClearError, Trim
  <2>2. Resized \/ RolledBack \/ Reset \/ Deinit => aborted' = aborted
    BY Zenon DEF Resized, ResizeInPlace, RolledBack, RollBack, Reset, Deinit
  <2> QED
    BY <1>4, <2>1, <2>2 DEF Effect, NoAbort
<1> QED
  BY <1>2, <1>3, <1>4

-----------------------------------------------------------------------------
(* The invariant *)

\* Each part needs others before it is inductive: a counter is restored from a
\* snapshot (UsedExact needs ScopesUsed), a snapshot is taken of a counter
\* (ScopesUsed needs UsedExact), and what an end drops is what the placement of
\* blocks, regions and marks says it is (SafetyInv, RetainedInv).
CountsInv == SafetyInv /\ RetainedInv /\ ShadowExact /\ UsedExact /\ ScopesUsed /\ NoAbort

LEMMA InitCounts ==
  ASSUME Init
  PROVE  CountsInv
<1>1. /\ live = {} /\ abandoned = {} /\ shadow = {} /\ scopes = <<>> /\ aborted = FALSE
      /\ used = 0 /\ high_water = 0
  BY Zenon DEF Init, InitDefault, InitSized, InitFixed, InitFields
<1>2. SafetyInv /\ RetainedInv
  BY InitSafe, InitClean
<1>3. ASSUME NEW b \in Blocks
      PROVE  block[b].used = 0
  <2>1. CASE block = [c \in Blocks |-> Absent]
    BY <2>1 DEF Absent
  <2>2. ASSUME NEW d \in Blocks, NEW cap, NEW skew,
               block = [[c \in Blocks |-> Absent] EXCEPT ![d] =
                 [cap |-> cap, used |-> 0, oversize |-> FALSE, skew |-> skew]]
        PROVE  block[b].used = 0
    BY <2>2 DEF Absent
  <2> QED
    BY <2>1, <2>2, Zenon DEF Init, InitDefault, InitSized, InitFixed, NoBlocks
<1>4. Consumed(block) = {}
  <2>1. block \in [Blocks -> Cell]
    BY InitType, Zenon DEF TypeOK
  <2> QED
    BY <1>3, <2>1, NoneConsumed
<1>5. UsedExact
  <2>1. Consumed(block) \ abandoned = {} /\ Cardinality({}) = 0
    BY <1>4, FS_EmptySet
  <2> QED
    BY <1>1, <1>4, <2>1 DEF UsedExact
<1>6. ShadowExact
  BY <1>1 DEF ShadowExact
<1>7. ScopesUsed
  BY <1>1 DEF ScopesUsed
<1> QED
  BY <1>1, <1>2, <1>5, <1>6, <1>7 DEF CountsInv, NoAbort

LEMMA EffectCounts ==
  ASSUME TypeOK, TypeOK', CountsInv, Effect
  PROVE  CountsInv'
<1>1. /\ SafetyInv /\ RetainedInv /\ FreeListClean /\ BlocksAccounted
      /\ ShadowExact /\ UsedExact /\ ScopesUsed /\ NoAbort
  BY DEF CountsInv, RetainedInv, SafetyInv
<1>2. SafetyInv' /\ RetainedInv'
  BY <1>1, EffectSafe, EffectClean
<1>3. ShadowExact' /\ UsedExact'
  BY <1>1, <1>2, EffectShadow, EffectUsed
<1>4. ScopesUsed' /\ NoAbort'
  BY <1>1, <1>2, EffectScopesUsed, EffectNoAbort
<1> QED
  BY <1>2, <1>3, <1>4 DEF CountsInv

LEMMA CountsInvHolds == Spec => []CountsInv
<1>1. Init => CountsInv
  BY InitCounts
<1>2. TypeOK /\ TypeOK' /\ CountsInv /\ [Next]_vars => CountsInv'
  BY NextEffect, EffectCounts
<1> QED
  BY <1>1, <1>2, TypeCorrect, PTL DEF Spec

\* What a sanitizer sees is always the truth: exactly the bytes of the regions
\* handed out and not reclaimed are addressable, through bumps, moves, resizes,
\* frees, rewinds and reuse of blocks (the ARENA_POISON and ARENA_UNPOISON calls).
THEOREM ShadowAlwaysExact == Spec => []ShadowExact
<1>1. CountsInv => ShadowExact
  BY DEF CountsInv
<1> QED
  BY <1>1, CountsInvHolds, PTL

\* a->used never drifts: after any sequence of calls it is the number of bytes
\* below the cursors less the sources realloc left behind, it is at most
\* high_water, and no left-behind source is inside a region in use.
THEOREM UsedAlwaysExact == Spec => []UsedExact
<1>1. CountsInv => UsedExact
  BY DEF CountsInv
<1> QED
  BY <1>1, CountsInvHolds, PTL

\* The used field of every open snapshot is what arena_temp_end will find in use
\* below its mark, whatever was allocated, moved, trimmed or ended since then.
THEOREM SnapshotsAlwaysExact == Spec => []ScopesUsed
<1>1. CountsInv => ScopesUsed
  BY DEF CountsInv
<1> QED
  BY <1>1, CountsInvHolds, PTL

\* No assert of arena.c fails, for any sizes, alignments, policy and parent: a
\* block taken for a request has room for it, and an end finds the generation,
\* depth, used and cursor its snapshot promises.
THEOREM NeverAborts == Spec => []NoAbort
<1>1. CountsInv => NoAbort
  BY DEF CountsInv
<1> QED
  BY <1>1, CountsInvHolds, PTL

\* Ending a scope always brings the arena back to its begin: the counter, the depth,
\* the current block and its cursor are the ones arena_temp_begin recorded.
THEOREM TempEndAlwaysRestores == Spec => TempEndRestores
<1> DEFINE t == Last(scopes)
           Restored ==
             /\ used' = t.used /\ temp_depth' = t.depth - 1
             /\ IF t.block = NULL THEN chain' = <<>>
                ELSE Last(chain') = t.block /\ block'[t.block].used = t.block_used
<1>1. ASSUME TypeOK, TypeOK', CountsInv, TempEnd
      PROVE  Restored
  <2>1. /\ BlocksAccounted /\ RegionsSafe /\ ScopesConsistent /\ FreeListClean
        /\ UsedExact /\ ScopesUsed
    BY <1>1 DEF CountsInv, SafetyInv, RetainedInv
  <2>2. used' = t.used
    BY <1>1, <2>1, TempEndCounts
  <2>3. t \in Scope /\ t.depth = temp_depth /\ temp_depth \in Nat \ {0}
    BY <1>1, <2>1, TempEndRewinds
  <2>4. PICK k \in 0..Len(chain) :
          StopAt(t, k) /\ Separates(t, k, Len(scopes)) /\ Rewind(t, k)
    BY <1>1, <2>1, TempEndRewinds
  <2>5. /\ Len(chain') = k /\ \A j \in 1..k : chain'[j] = chain[j]
        /\ k > 0 => block'[chain[k]].used = t.block_used
    BY <1>1, <2>1, <2>3, <2>4, RegionsParts, RewindFacts
  <2>6. temp_depth' = t.depth - 1
    <3>1. temp_depth' = IF temp_depth > 0 THEN temp_depth - 1 ELSE 0
      BY <2>4, Zenon DEF Rewind
    <3> QED
      BY <2>3, <3>1
  <2>7. chain \in Seq(Blocks) /\ chain' \in Seq(Blocks)
    BY <1>1, Zenon DEF TypeOK
  <2>8. CASE k = 0
    <3>1. t.block = NULL
      BY <2>4, <2>8, Zenon DEF StopAt
    <3>2. chain' = <<>>
      BY <2>5, <2>7, <2>8
    <3> QED
      BY <2>2, <2>6, <3>1, <3>2, Zenon
  <2>9. CASE k > 0
    <3>1. t.block = chain[k]
      BY <2>4, <2>9 DEF StopAt
    <3>2. t.block \in Blocks /\ t.block # NULL
      BY <2>4, <2>7, <2>9, <3>1, BlocksAssumption
    <3>3. Last(chain') = chain[k]
      BY <2>5, <2>9 DEF Last
    <3>4. block'[t.block].used = t.block_used
      BY <2>5, <2>9, <3>1
    <3> QED
      BY <2>2, <2>6, <3>1, <3>2, <3>3, <3>4, Zenon
  <2> QED
    BY <2>4, <2>8, <2>9
<1>2. TypeOK /\ TypeOK' /\ CountsInv /\ [Next]_vars => [TempEnd => Restored]_vars
  BY <1>1
<1> QED
  BY <1>2, TypeCorrect, CountsInvHolds, PTL DEF Spec, TempEndRestores
-----------------------------------------------------------------------------
(* What an allocation did.                                                  *)

\* No block a live region lies in has moved.
SkewsKept == \A y \in live : block'[y.blk].skew = block[y.blk].skew

\* A region of this size and alignment replaced those of old, above every other
\* region of its block.
Carved(size, align, old) ==
  \E new \in Place :
    /\ new.size = size /\ new.align = align /\ new.depth = temp_depth
    /\ live' = (live \ old) \cup {new}
    /\ (block'[new.blk].skew + new.off) % align = 0
    /\ \A y \in live : y.blk = new.blk => y.off + y.size <= new.off
    /\ SkewsKept /\ UNCHANGED status

\* Nothing was given out: the call recorded a failure, or an assert has failed.
NothingServed ==
  /\ live' = live /\ SkewsKept
  /\ \/ aborted' /\ UNCHANGED status
     \/ status' # "OK"

LEMMA CarveOutcome ==
  ASSUME TypeOK, RegionsSafe, NEW b \in Blocks, NEW cell \in Cell,
         NEW size \in Nat \ {0}, NEW align \in 1..MaxAlign, NEW old \in SUBSET live, NEW oldSize,
         Carve(b, cell, size, align, old, oldSize), UNCHANGED status,
         \A y \in live : y.blk = b => End(y) <= cell.used /\ block[b].skew = cell.skew
  PROVE  Carved(size, align, old)
<1>1. /\ Pad(cell, align) \in Nat
      /\ (cell.skew + cell.used + Pad(cell, align)) % align = 0
  BY PadType
<1>2. cell.used \in Nat /\ cell.skew \in Nat
  BY AlignAssumption DEF Cell
<1>3. (\A c \in Blocks \ {b} : block'[c] = block[c]) /\ block'[b].skew = cell.skew
  BY CarveBlock
<1>4. PICK new : /\ new = [blk |-> b, off |-> cell.used + Pad(cell, align), size |-> size,
                            align |-> align, depth |-> temp_depth]
                 /\ live' = (live \ old) \cup {new}
  BY Zenon DEF Carve
<1>5. /\ new.blk = b /\ new.off = cell.used + Pad(cell, align) /\ new.size = size
      /\ new.align = align /\ new.depth = temp_depth
  BY <1>4
<1>6. new \in Place
  <2>1. cell.used + Pad(cell, align) \in Nat
    BY <1>1, <1>2
  <2>2. temp_depth \in Nat
    BY Zenon DEF TypeOK
  <2> QED
    BY <1>4, <2>1, <2>2 DEF Place
<1>7. (block'[new.blk].skew + new.off) % align = 0
  <2>1. block'[new.blk].skew + new.off = cell.skew + cell.used + Pad(cell, align)
    BY <1>1, <1>2, <1>3, <1>5
  <2> QED
    BY <1>1, <2>1
<1>8. ASSUME NEW y \in live, y.blk = new.blk
      PROVE  y.off + y.size <= new.off
  <2>1. End(y) <= cell.used /\ y.off \in Nat /\ y.size \in Nat
    BY <1>5, <1>8, PlaceType
  <2> QED
    BY <1>1, <1>2, <1>5, <2>1, LayoutAssumption DEF End
<1>9. SkewsKept
  BY <1>3, PlaceType DEF SkewsKept
<1> QED
  BY <1>4, <1>5, <1>6, <1>7, <1>8, <1>9, Zenon DEF Carved

LEMMA EnteredOutcome ==
  ASSUME TypeOK, RegionsSafe, NEW b \in Blocks \ Range(chain), NEW cell \in Cell,
         NEW size \in Nat \ {0}, NEW align \in 1..MaxAlign, NEW old \in SUBSET live, NEW oldSize,
         BumpEntered(b, cell, size, align, old, oldSize), UNCHANGED status
  PROVE  Carved(size, align, old) \/ NothingServed
<1>1. \A y \in live : y.blk # b
  BY RegionsParts, Zenon DEF Placed
<1>2. CASE Fits(cell, size, align)
  <2>1. Carve(b, cell, size, align, old, oldSize)
    BY <1>2, Zenon DEF BumpEntered
  <2> QED
    BY <1>1, <2>1, CarveOutcome
<1>3. CASE ~Fits(cell, size, align)
  <2>1. aborted' /\ block' = [block EXCEPT ![b] = cell] /\ live' = live
    BY <1>3, Zenon DEF BumpEntered, stats
  <2>2. SkewsKept
    BY <1>1, <2>1, PlaceType DEF SkewsKept, TypeOK
  <2> QED
    BY <2>1, <2>2 DEF NothingServed
<1> QED
  BY <1>2, <1>3

LEMMA CoreOutcome ==
  ASSUME TypeOK, BlocksAccounted, RegionsSafe, status = "OK",
         NEW size \in Nat \ {0}, NEW align \in 1..MaxAlign, NEW old \in SUBSET live, NEW oldSize,
         AllocCore(size, align, old, oldSize)
  PROVE  Carved(size, align, old) \/ NothingServed
<1>1. CASE BumpCurrent(size, align, old, oldSize)
  <2>1. /\ chain # <<>> /\ UNCHANGED status
        /\ Carve(Current, block[Current], size, align, old, oldSize)
    BY <1>1, Zenon DEF BumpCurrent, FitsCurrent
  <2>2. Current \in Blocks /\ block[Current] \in Cell
    BY <2>1, CurrentOwned, CellType
  <2>3. \A y \in live : y.blk = Current => End(y) <= block[Current].used
    BY RegionsParts, Zenon DEF Placed
  <2> QED
    BY <2>1, <2>2, <2>3, CarveOutcome
<1>2. CASE Fail("ERR_ALLOC") \/ Fail("ERR_OVERFLOW")
  <2>1. UNCHANGED <<live, block>> /\ status' # "OK"
    BY <1>2 DEF Fail, heap, stats
  <2> QED
    BY <2>1 DEF NothingServed, SkewsKept
<1>3. CASE TakeFreeBlock(size, align, old, oldSize)
  <2>1. PICK i \in DOMAIN freeList :
          BumpEntered(freeList[i], block[freeList[i]], size, align, old, oldSize)
    BY <1>3 DEF TakeFreeBlock
  <2>2. freeList[i] \in Blocks /\ freeList[i] \in Range(freeList)
    BY DEF TypeOK, Range
  <2>3. freeList[i] \notin Range(chain)
    BY <2>2 DEF BlocksAccounted
  <2>4. block[freeList[i]] \in Cell /\ UNCHANGED status
    BY <1>3, <2>2, CellType DEF TakeFreeBlock
  <2> QED
    BY <2>1, <2>2, <2>3, <2>4, EnteredOutcome
<1>4. CASE ~fixed /\ TakeNewBlock(size, align, old, oldSize)
  <2>1. PICK b \in Blocks, skew \in Skews :
          /\ held[b] = 0
          /\ BumpEntered(b, NewCell(size, align, skew), size, align, old, oldSize)
    BY <1>4 DEF TakeNewBlock, NewCell
  <2>2. NewCell(size, align, skew) \in Cell /\ UNCHANGED status
    BY <1>4, NewCellType DEF TakeNewBlock
  <2>3. b \notin Range(chain)
    <3>1. held[b] = IF b \in Owned /\ ~fixed THEN Hdr + block[b].cap ELSE 0
      BY Zenon DEF BlocksAccounted
    <3> QED
      BY <1>4, <2>1, <3>1, CellType, LayoutAssumption DEF Owned
  <2> QED
    BY <2>1, <2>2, <2>3, EnteredOutcome
<1> QED
  BY <1>1, <1>2, <1>3, <1>4, Zenon DEF AllocCore, GrowAndBump

\* The outcomes of arena_alloc_impl: nothing to do, a region of count * size bytes
\* at the alignment asked for, or nothing served.
LEMMA ImplOutcome ==
  ASSUME TypeOK, BlocksAccounted, RegionsSafe,
         NEW count \in Nat, NEW size \in Nat, NEW align \in Nat,
         NEW old \in SUBSET live, NEW oldSize,
         AllocImpl(count, size, align, old, oldSize)
  PROVE  \/ (status # "OK" \/ count = 0 \/ size = 0) /\ NoEffect
         \/ status = "OK" /\ NothingServed
         \/ /\ AlignValid(align) /\ count * size \in 1..PtrMax /\ status = "OK"
            /\ AlignEffective(align) \in 1..MaxAlign
            /\ Carved(count * size, AlignEffective(align), old)
<1>1. CASE status = "OK" /\ \E error \in Status \ {"OK"} : Fail(error)
  <2>1. UNCHANGED <<live, block>> /\ status' # "OK"
    BY <1>1 DEF Fail, heap, stats
  <2> QED
    BY <1>1, <2>1 DEF NothingServed, SkewsKept
<1>2. CASE /\ status = "OK" /\ AlignValid(align) /\ count # 0 /\ size # 0
           /\ ~ProductOverflows(count, size)
           /\ AllocCore((count * size) % SizeMod, AlignEffective(align), old, oldSize)
  <2>1. (count * size) % SizeMod = count * size /\ count * size \in 1..PtrMax
    BY <1>2, ProductExact
  <2>2. AlignEffective(align) \in 1..MaxAlign
    BY <1>2, AlignEffectiveType
  <2>3. count * size \in Nat \ {0}
    BY <2>1, WidthAssumption
  <2>4. AllocCore(count * size, AlignEffective(align), old, oldSize)
    BY <1>2, <2>1
  <2>5. Carved(count * size, AlignEffective(align), old) \/ NothingServed
    BY <1>2, <2>2, <2>3, <2>4, CoreOutcome
  <2> QED
    BY <1>2, <2>1, <2>2, <2>5
<1> QED
  BY <1>1, <1>2 DEF AllocImpl, Status

\* A region above every other of its block is none of them.
LEMMA CarvedIsNew ==
  ASSUME TypeOK, NEW new \in Place,
         \A y \in live : y.blk = new.blk => y.off + y.size <= new.off
  PROVE  new \notin live
<1>1. new.off \in Nat /\ new.size \in Nat \ {0}
  BY DEF Place
<1> QED
  BY <1>1
-----------------------------------------------------------------------------
(* Served exactly *)

\* For every width of size_t: arena_alloc_n gives out exactly count * size bytes at the
\* alignment asked for, or records a status; no product wraps into a smaller region.
THEOREM AlwaysServedExactly == Spec => ServedExactly
<1>1. ASSUME TypeOK, SafetyInv,
             NEW count \in Counts, NEW size \in Sizes, NEW align \in Aligns,
             status = "OK", status' = "OK", AlignValid(align), count * size > 0,
             AllocN(count, size, align), ~aborted'
      PROVE  \E x \in live' \ live :
               x.size = count * size /\ x.align = AlignEffective(align)
  <2>1. count \in Nat /\ size \in Nat /\ align \in Nat
    BY ArgsAssumption
  <2>2. BlocksAccounted /\ RegionsSafe
    BY <1>1 DEF SafetyInv
  <2>3. count # 0 /\ size # 0
    BY <1>1, <2>1
  <2>4. ~NothingServed
    BY <1>1 DEF NothingServed
  <2>5. Carved(count * size, AlignEffective(align), {})
    BY <1>1, <2>1, <2>2, <2>3, <2>4, ImplOutcome DEF AllocN
  <2>6. PICK new \in Place :
          /\ new.size = count * size /\ new.align = AlignEffective(align)
          /\ live' = live \cup {new}
          /\ \A y \in live : y.blk = new.blk => y.off + y.size <= new.off
    BY <2>5 DEF Carved
  <2>7. new \notin live
    BY <1>1, <2>6, CarvedIsNew
  <2> QED
    BY <2>6, <2>7
<1> DEFINE Exact ==
      \A count \in Counts, size \in Sizes, align \in Aligns :
       /\ status = "OK" /\ status' = "OK" /\ AlignValid(align) /\ count * size > 0
       /\ AllocN(count, size, align) /\ ~aborted'
       => \E x \in live' \ live :
            x.size = count * size /\ x.align = AlignEffective(align)
<1>2. TypeOK /\ SafetyInv /\ [Next]_vars => [Exact]_vars
  BY <1>1
<1> QED
  BY <1>2, TypeCorrect, SafetyInvHolds, PTL DEF Spec, ServedExactly
-----------------------------------------------------------------------------
(* The steps of the contract.                                               *)

Regions == {Lease(x) : x \in live}

LEMMA LeaseFields ==
  ASSUME NEW x
  PROVE  /\ Lease(x).mem = x.blk /\ Lease(x).addr = block[x.blk].skew + x.off
         /\ Lease(x).size = x.size /\ Lease(x).align = x.align /\ Lease(x).scope = x.depth
BY DEF Lease

\* Different live regions are different regions to the client.
LEMMA LeaseUnique ==
  ASSUME TypeOK, NEW x \in live, NEW y \in live, Lease(x) = Lease(y)
  PROVE  x = y
<1>1. /\ x.blk = y.blk /\ block[x.blk].skew + x.off = block[y.blk].skew + y.off
      /\ x.size = y.size /\ x.align = y.align /\ x.depth = y.depth
  BY LeaseFields
<1>2. x.off \in Nat /\ y.off \in Nat /\ block[x.blk].skew \in Nat
  BY PlaceType, CellType
<1>3. x.off = y.off
  BY <1>1, <1>2
<1>4. x \in Place /\ y \in Place
  BY DEF TypeOK
<1> QED
  BY <1>1, <1>3, <1>4 DEF Place

LEMMA LeaseKept ==
  ASSUME NEW x \in live, SkewsKept
  PROVE  Lease(x)' = Lease(x)
BY DEF SkewsKept, Lease

\* A step that leaves every region where it is.
LEMMA SameRegions ==
  ASSUME live' = live, SkewsKept
  PROVE  Regions' = Regions
BY LeaseKept DEF Regions

\* A step that takes regions away, by what it takes away.
LEMMA FewerRegions ==
  ASSUME SkewsKept, live' \subseteq live
  PROVE  Regions' = {Lease(x) : x \in live'}
BY LeaseKept DEF Regions

LEMMA RefuseStep ==
  ASSUME live' = live, SkewsKept, status # "OK" => status' # "OK"
  PROVE  Contract!Refuse
BY SameRegions DEF Contract!Refuse, Regions

\* A region carved above all others of its block is fresh, to all of them.
LEMMA CarvedFresh ==
  ASSUME TypeOK, SkewsKept, NEW new \in Place, new.size \in 1..PtrMax,
         (block'[new.blk].skew + new.off) % new.align = 0, block'[new.blk].skew \in Nat,
         \A y \in live : y.blk = new.blk => y.off + y.size <= new.off
  PROVE  /\ Contract!Fresh(Lease(new)', Regions)
         /\ \A y \in live : ~Contract!Overlap(Lease(y), Lease(new)')
         /\ Lease(new)' \notin Regions
<1> DEFINE n == [mem |-> new.blk, addr |-> block'[new.blk].skew + new.off,
                 size |-> new.size, align |-> new.align, scope |-> new.depth]
<1>1. Lease(new)' = n
  BY DEF Lease
<1>2. /\ n.mem = new.blk /\ n.addr = block'[new.blk].skew + new.off
      /\ n.size = new.size /\ n.align = new.align
  OBVIOUS
<1> HIDE DEF n
<1>3. new.off \in Nat /\ new.size \in Nat
  BY DEF Place
<1>4. ASSUME NEW y \in live
      PROVE  /\ ~Contract!Overlap(n, Lease(y)) /\ ~Contract!Overlap(Lease(y), n)
             /\ n # Lease(y)
  <2>1. /\ Lease(y).mem = y.blk /\ Lease(y).addr = block[y.blk].skew + y.off
        /\ Lease(y).size = y.size
    BY LeaseFields
  <2>2. y.off \in Nat /\ y.size \in Nat \ {0} /\ block'[y.blk].skew = block[y.blk].skew
    BY PlaceType DEF SkewsKept
  <2>3. y.blk = new.blk => Lease(y).addr + Lease(y).size <= n.addr /\ Lease(y).addr # n.addr
    <3>1. SUFFICES ASSUME y.blk = new.blk
                   PROVE  Lease(y).addr + Lease(y).size <= n.addr /\ Lease(y).addr # n.addr
      OBVIOUS
    <3>2. PICK skew \in Nat : skew = block'[new.blk].skew
      OBVIOUS
    <3>3. block[y.blk].skew = skew
      BY <2>2, <3>1, <3>2
    <3>4. /\ Lease(y).addr = skew + y.off /\ n.addr = skew + new.off
          /\ y.off + y.size <= new.off
      BY <1>2, <2>1, <3>1, <3>2, <3>3
    <3> QED
      BY <1>3, <2>1, <2>2, <3>2, <3>4
  <2>4. y.blk = new.blk => ~(n.addr < Lease(y).addr + Lease(y).size)
    BY <1>2, <1>3, <2>1, <2>2, <2>3
  <2> QED
    BY <1>2, <2>1, <2>3, <2>4, Zenon DEF Contract!Overlap
<1>5. Contract!Fresh(n, Regions)
  BY <1>2, <1>4 DEF Contract!Fresh, Regions
<1>6. n \notin Regions
  BY <1>4 DEF Regions
<1> QED
  BY <1>1, <1>4, <1>5, <1>6

LEMMA SkewPrime ==
  ASSUME TypeOK', NEW x \in Place
  PROVE  block'[x.blk].skew \in Nat
<1>1. x.blk \in Blocks
  BY DEF Place
<1>2. block' \in [Blocks -> Cell]
  BY Zenon DEF TypeOK
<1>3. block'[x.blk] \in Cell
  BY <1>1, <1>2
<1> QED
  BY <1>3, AlignAssumption DEF Cell

LEMMA CarvedAlloc ==
  ASSUME TypeOK, TypeOK', status = "OK", NEW size \in 1..PtrMax, NEW align \in Nat,
         Carved(size, align, {})
  PROVE  Contract!XAlloc
<1>1. PICK new \in Place :
        /\ new.size = size /\ new.align = align /\ live' = live \cup {new}
        /\ (block'[new.blk].skew + new.off) % align = 0
        /\ \A y \in live : y.blk = new.blk => y.off + y.size <= new.off
        /\ SkewsKept /\ UNCHANGED status
  BY DEF Carved
<1>2. block'[new.blk].skew \in Nat
  BY SkewPrime
<1>3. Contract!Fresh(Lease(new)', Regions) /\ Lease(new)' \notin Regions
  BY <1>1, <1>2, CarvedFresh
<1>4. Regions' = Regions \cup {Lease(new)'}
  <2>1. Regions' = {Lease(x)' : x \in live'}
    BY DEF Regions
  <2> QED
    BY <1>1, <2>1, LeaseKept DEF Regions
<1> QED
  BY <1>1, <1>3, <1>4 DEF Contract!XAlloc, Regions

LEMMA CarvedRealloc ==
  ASSUME TypeOK, TypeOK', status = "OK", NEW size \in 1..PtrMax,
         NEW x \in live, x.depth = temp_depth, Carved(size, x.align, {x})
  PROVE  Contract!XRealloc
<1>1. PICK new \in Place :
        /\ new.size = size /\ new.align = x.align /\ new.depth = temp_depth
        /\ live' = (live \ {x}) \cup {new}
        /\ (block'[new.blk].skew + new.off) % x.align = 0
        /\ \A y \in live : y.blk = new.blk => y.off + y.size <= new.off
        /\ SkewsKept /\ UNCHANGED status
  BY DEF Carved
<1>2. block'[new.blk].skew \in Nat
  BY SkewPrime
<1>3. /\ Contract!Fresh(Lease(new)', Regions)
      /\ ~Contract!Overlap(Lease(x), Lease(new)')
  BY <1>1, <1>2, CarvedFresh
<1>4. Contract!Fresh(Lease(new)', Regions \ {Lease(x)})
  BY <1>3 DEF Contract!Fresh
<1>5. Regions' = (Regions \ {Lease(x)}) \cup {Lease(new)'}
  <2>1. Regions' = {Lease(y)' : y \in live'}
    BY DEF Regions
  <2>2. Regions \ {Lease(x)} = {Lease(y) : y \in live \ {x}}
    BY LeaseUnique DEF Regions
  <2> QED
    BY <1>1, <2>1, <2>2, LeaseKept
<1>6. Lease(new)'.align = Lease(x).align /\ Lease(new)'.scope = Lease(x).scope
  BY <1>1 DEF Lease
<1>7. Lease(x) \in Regions /\ Lease(new)' \in Regions'
  BY <1>5 DEF Regions
<1> QED
  BY <1>1, <1>3, <1>4, <1>5, <1>6, <1>7 DEF Contract!XRealloc, Regions

\* arena_try_resize_last: every other region of the block lies below the last one.
LEMMA ResizedStep ==
  ASSUME TypeOK, RegionsSafe, status = "OK", NEW x \in live, NEW newSize \in 1..PtrMax,
         newSize # 0, CanResize(x, newSize), ResizeInPlace(x, newSize)
  PROVE  Contract!XRealloc
<1>1. PICK new : new = [x EXCEPT !.size = newSize]
  OBVIOUS
<1>2. /\ block' = [block EXCEPT ![x.blk].used = @ + (newSize - x.size)]
      /\ live' = (live \ {x}) \cup {new} /\ UNCHANGED status
  BY <1>1, Zenon DEF ResizeInPlace
<1>3. x \in Place /\ x.blk \in Blocks /\ x.off \in Nat
  BY PlaceType DEF TypeOK
<1>4. /\ new.blk = x.blk /\ new.off = x.off /\ new.size = newSize
      /\ new.align = x.align /\ new.depth = x.depth
  BY <1>1, <1>3 DEF Place
<1>5. \A b \in Blocks : block'[b].skew = block[b].skew
  BY <1>2, <1>3 DEF TypeOK, Cell
<1>6. SkewsKept
  BY <1>5, PlaceType DEF SkewsKept
<1> DEFINE n == Lease(new)'
<1>7. /\ n.mem = x.blk /\ n.addr = block[x.blk].skew + x.off
      /\ n.size = newSize /\ n.align = x.align /\ n.scope = x.depth
  BY <1>3, <1>4, <1>5 DEF Lease
<1>8. /\ Lease(x).mem = n.mem /\ Lease(x).addr = n.addr
      /\ Lease(x).align = n.align /\ Lease(x).scope = n.scope
  BY <1>7, LeaseFields
<1>9. Regions \ {Lease(x)} = {Lease(y) : y \in live \ {x}}
  BY LeaseUnique DEF Regions
<1>10. Regions' = (Regions \ {Lease(x)}) \cup {n}
  <2>1. Regions' = {Lease(y)' : y \in live'}
    BY DEF Regions
  <2> QED
    BY <1>2, <1>6, <1>9, <2>1, LeaseKept
<1> HIDE DEF n
<1>11. ASSUME NEW y \in live \ {x}
       PROVE  ~Contract!Overlap(n, Lease(y))
  <2>1. Lease(y).mem = y.blk /\ Lease(y).addr = block[y.blk].skew + y.off /\ Lease(y).size = y.size
    BY LeaseFields
  <2>2. SUFFICES ASSUME y.blk = x.blk
                 PROVE  ~(n.addr < Lease(y).addr + Lease(y).size)
    BY <1>7, <2>1, Zenon DEF Contract!Overlap
  <2>3. End(y) <= x.off
    BY <2>2, BelowLast DEF CanResize
  <2>4. y.off \in Nat /\ y.size \in Nat /\ y.off + y.size <= x.off
    BY <1>3, <2>3, PlaceType, LayoutAssumption DEF End
  <2>5. PICK skew \in Nat : skew = block[x.blk].skew
    BY <1>3, CellType
  <2>6. n.addr = skew + x.off /\ Lease(y).addr = skew + y.off
    BY <1>7, <2>1, <2>2, <2>5
  <2> QED
    BY <1>3, <2>1, <2>4, <2>5, <2>6
<1>12. n.addr % n.align = 0
  BY <1>7, RegionsParts DEF Placed
<1>13. Contract!Fresh(n, Regions \ {Lease(x)})
  BY <1>7, <1>9, <1>11, <1>12 DEF Contract!Fresh
<1>14. Lease(x) \in Regions /\ n \in Regions'
  BY <1>10 DEF Regions
<1> QED
  BY <1>2, <1>8, <1>10, <1>13, <1>14 DEF Contract!XRealloc, Regions

\* arena_adapter_xfree of the region at the cursor.
LEMMA RolledBackStep ==
  ASSUME TypeOK, NEW x \in live, RollBack(x)
  PROVE  Contract!XFree
<1>1. /\ block' = [block EXCEPT ![x.blk].used = x.off]
      /\ live' = live \ {x} /\ UNCHANGED status
  BY Zenon DEF RollBack
<1>2. \A b \in Blocks : block'[b].skew = block[b].skew
  BY <1>1, PlaceType DEF TypeOK, Cell
<1>3. SkewsKept
  BY <1>2, PlaceType DEF SkewsKept
<1>4. Regions' = {Lease(y) : y \in live \ {x}}
  BY <1>1, <1>3, FewerRegions
<1>5. Regions \ {Lease(x)} = {Lease(y) : y \in live \ {x}}
  BY LeaseUnique DEF Regions
<1>6. Lease(x) \in Regions
  BY DEF Regions
<1> QED
  BY <1>1, <1>4, <1>5, <1>6 DEF Contract!XFree, Regions

\* The end of a scope takes the regions made in it, and leaves the others in place:
\* they lie in blocks that stay on the chain.
LEMMA TempEndStep ==
  ASSUME TypeOK, TypeOK', BlocksAccounted, RegionsSafe, ScopesConsistent, TempEnd
  PROVE  Contract!OwnerEndsScope \/ UNCHANGED <<Regions, status>>
<1>1. /\ Len(scopes) = temp_depth /\ scopes # <<>> /\ scopes \in Seq(Scope)
      /\ chain \in Seq(Blocks) /\ IsInjective(chain) /\ UNCHANGED status
      /\ \A x \in live : x.depth <= temp_depth
  BY ScopesParts DEF TempEnd, Rewind, TypeOK, BlocksAccounted
<1>2. PICK n : n = Len(scopes)
  OBVIOUS
<1>3. n \in Nat /\ n > 0 /\ Last(scopes) = scopes[n] /\ scopes[n] \in Scope
  BY <1>1, <1>2 DEF Last
<1>4. PICK k \in 0..Len(chain) : StopAt(scopes[n], k) /\ Separates(scopes[n], k, n)
  BY <1>2, <1>3, ScopesParts DEF ScopeHeld
<1>5. Rewind(scopes[n], k)
  <2>1. PICK l \in 0..Len(chain) : StopAt(scopes[n], l) /\ Rewind(scopes[n], l)
    BY <1>3, <1>4, Zenon DEF TempEnd
  <2>2. l = k
    BY <1>1, <1>4, <2>1, MarkUnique DEF StopAt
  <2> QED
    BY <2>1, <2>2
<1>6. live' = {x \in live : x.depth < n} /\ n = temp_depth
  BY <1>1, <1>2, <1>5, Zenon DEF Rewind
<1>7. \A j \in 1..k : block'[chain[j]].skew = block[chain[j]].skew
  BY <1>3, <1>4, <1>5, RegionsParts, RewindFacts
<1>8. ASSUME NEW x \in live'
      PROVE  x \in live /\ Lease(x)' = Lease(x)
  <2>1. x \in live /\ x.depth < n
    BY <1>6
  <2>2. PICK j \in 1..k : chain[j] = x.blk
    BY <1>4, <2>1 DEF Separates, BelowMark
  <2> QED
    BY <1>7, <2>1, <2>2 DEF Lease
<1>9. Regions' = {Lease(x) : x \in live'}
  BY <1>8 DEF Regions
<1>10. CASE \E x \in live : x.depth = n
  <2>1. n \in {r.scope : r \in Regions}
    BY <1>10, LeaseFields DEF Regions
  <2>2. Regions' = {r \in Regions : r.scope < n}
    BY <1>6, <1>9, LeaseFields DEF Regions
  <2> QED
    BY <1>1, <2>1, <2>2 DEF Contract!OwnerEndsScope, Regions
<1>11. CASE ~\E x \in live : x.depth = n
  <2>1. live' = live
    BY <1>1, <1>3, <1>6, <1>11, PlaceType
  <2> QED
    BY <1>1, <1>9, <2>1 DEF Regions
<1> QED
  BY <1>10, <1>11

\* reset and deinit.
LEMMA EmptiedStep ==
  ASSUME live' = {}, status' = "OK"
  PROVE  Contract!OwnerResets
BY DEF Contract!OwnerResets
-----------------------------------------------------------------------------
(* The entry points.                                                        *)

Latched == status # "OK"
Abstract == [Contract!Next]_<<Regions, Latched>>

LEMMA QuietStep ==
  ASSUME live' = live, block' = block,
         status' = status \/ status' = "OK" \/ status = "OK"
  PROVE  Abstract
<1>1. SkewsKept
  BY DEF SkewsKept
<1>2. Regions' = Regions
  BY <1>1, SameRegions
<1>3. CASE UNCHANGED status
  BY <1>2, <1>3 DEF Abstract, Latched
<1>4. CASE status' = "OK"
  BY <1>2, <1>4 DEF Abstract, Contract!Next, Contract!OwnerClears, Regions, Latched
<1>5. CASE status = "OK" /\ status' # "OK"
  BY <1>1, <1>5, RefuseStep DEF Abstract, Contract!Next, Regions, Latched
<1> QED
  BY <1>3, <1>4, <1>5

LEMMA FailStep ==
  ASSUME NEW error \in Status \ {"OK"}, Fail(error)
  PROVE  Abstract
<1>1. live' = live /\ block' = block
  BY Zenon DEF Fail, heap, stats
<1>2. status' = status \/ status = "OK"
  BY Zenon DEF Fail
<1> QED
  BY <1>1, <1>2, QuietStep

LEMMA NothingServedStep ==
  ASSUME status = "OK", NothingServed
  PROVE  Abstract
<1>1. CASE UNCHANGED status
  BY <1>1, SameRegions DEF NothingServed, Abstract, Latched
<1>2. CASE status' # "OK"
  BY <1>2, RefuseStep DEF NothingServed, Abstract, Contract!Next, Regions, Latched
<1> QED
  BY <1>1, <1>2 DEF NothingServed

LEMMA NoEffectStep ==
  ASSUME NoEffect
  PROVE  Abstract
<1>1. live' = live /\ block' = block /\ status' = status
  BY Zenon DEF NoEffect, vars, heap, stats
<1> QED
  BY <1>1, QuietStep

LEMMA ImplStep ==
  ASSUME TypeOK, TypeOK', SafetyInv, NEW count \in Nat, NEW size \in Nat, NEW align \in Nat,
         AllocImpl(count, size, align, {}, 0)
  PROVE  Abstract
<1>1. BlocksAccounted /\ RegionsSafe
  BY DEF SafetyInv
<1>2. CASE status = "OK" /\ count * size \in 1..PtrMax /\ AlignEffective(align) \in 1..MaxAlign
           /\ Carved(count * size, AlignEffective(align), {})
  BY <1>2, CarvedAlloc, AlignAssumption DEF Abstract, Contract!Next, Regions, Latched
<1> QED
  BY <1>1, <1>2, ImplOutcome, NothingServedStep, NoEffectStep

LEMMA DefaultStep ==
  ASSUME TypeOK, TypeOK', SafetyInv, NEW size \in Nat, AllocDefault(size)
  PROVE  Abstract
<1>1. CASE NoEffect
  BY <1>1, NoEffectStep
<1>2. CASE Fail("ERR_OVERFLOW")
  BY <1>2, FailStep DEF Status
<1>3. CASE /\ status = "OK" /\ size # 0 /\ size <= PtrMax
           /\ AllocCore(size, AlignEffective(0), {}, 0)
  <2>1. BlocksAccounted /\ RegionsSafe
    BY DEF SafetyInv
  <2>2. AlignEffective(0) \in 1..MaxAlign
    BY AlignEffectiveType DEF AlignValid
  <2>3. size \in 1..PtrMax /\ AlignEffective(0) \in Nat
    BY <1>3, <2>2, WidthAssumption, AlignAssumption
  <2>4. Carved(size, AlignEffective(0), {}) \/ NothingServed
    BY <1>3, <2>1, <2>2, CoreOutcome
  <2> QED
    BY <1>3, <2>3, <2>4, CarvedAlloc, NothingServedStep
       DEF Abstract, Contract!Next, Regions, Latched
<1> QED
  BY <1>1, <1>2, <1>3, Zenon DEF AllocDefault

LEMMA ReallocStep ==
  ASSUME TypeOK, TypeOK', SafetyInv, NEW x \in live, NEW newSize \in Nat, NEW align \in Nat,
         Resizable(x), AlignFor(x, align), Realloc(x, newSize, align)
  PROVE  Abstract
<1>1. BlocksAccounted /\ RegionsSafe
  BY DEF SafetyInv
<1>2. CASE NoEffect
  BY <1>2, NoEffectStep
<1>3. CASE Fail("ERR_ARG") \/ Fail("ERR_OVERFLOW")
  BY <1>3, FailStep DEF Status
<1>4. CASE /\ status = "OK" /\ newSize # 0 /\ newSize <= PtrMax
           /\ CanResize(x, newSize) /\ ResizeInPlace(x, newSize)
  <2>1. newSize \in 1..PtrMax
    BY <1>4, WidthAssumption
  <2> QED
    BY <1>1, <1>4, <2>1, ResizedStep DEF Abstract, Contract!Next, Regions, Latched
<1>5. CASE AlignValid(align) /\ AllocImpl(1, newSize, align, {x}, x.size)
  <2>1. AlignEffective(align) = x.align
    BY <1>5 DEF AlignFor
  <2>2. ASSUME status = "OK", newSize \in 1..PtrMax, Carved(newSize, x.align, {x})
        PROVE  Abstract
    BY <2>2, CarvedRealloc DEF Abstract, Contract!Next, Resizable, Regions, Latched
  <2>3. 1 * newSize = newSize
    OBVIOUS
  <2>4. \/ NoEffect
        \/ status = "OK" /\ NothingServed
        \/ status = "OK" /\ newSize \in 1..PtrMax /\ Carved(newSize, x.align, {x})
    BY <1>1, <1>5, <2>1, <2>3, ImplOutcome
  <2> QED
    BY <2>2, <2>4, NoEffectStep, NothingServedStep
<1> QED
  BY <1>2, <1>3, <1>4, <1>5, Zenon DEF Realloc

\* Every call of the client, through the adapter or by the owner, is a step of the
\* contract or leaves it alone.
LEMMA NextStep ==
  ASSUME TypeOK, TypeOK', SafetyInv, [Next]_vars
  PROVE  Abstract
<1> USE ArgsAssumption
<1>1. ASSUME NEW size \in Sizes, Alloc(size)
      PROVE  Abstract
  BY <1>1, DefaultStep DEF Alloc
<1>2. ASSUME NEW count \in Counts, NEW size \in Sizes, NEW align \in Aligns,
             AllocN(count, size, align)
      PROVE  Abstract
  BY <1>2, ImplStep DEF AllocN
<1>3. ASSUME NEW srcIsNull \in BOOLEAN, NEW size \in Sizes, MemDup(srcIsNull, size)
      PROVE  Abstract
  BY <1>3, DefaultStep, FailStep DEF MemDup, Status
<1>4. ASSUME NEW x \in live, NEW size \in Sizes, NEW align \in Aligns,
             Resizable(x), AlignFor(x, align), Realloc(x, size, align)
      PROVE  Abstract
  BY <1>4, ReallocStep
<1>5. ASSUME NEW size \in Sizes, NEW align \in Aligns, ReallocNull(size, align)
      PROVE  Abstract
  BY <1>5, ImplStep, FailStep, NoEffectStep DEF ReallocNull, Status
<1>6. ASSUME NEW x \in live, XFree(x)
      PROVE  Abstract
  BY <1>6, RolledBackStep, NoEffectStep DEF XFree, Abstract, Contract!Next, Regions, Latched
<1>7. CASE TempEnd
  <2>1. BlocksAccounted /\ RegionsSafe /\ ScopesConsistent
    BY DEF SafetyInv
  <2> QED
    BY <1>7, <2>1, TempEndStep DEF Abstract, Contract!Next, Regions, Latched
<1>8. CASE Reset \/ Deinit
  <2>1. live' = {} /\ status' = "OK"
    BY <1>8, Zenon DEF Reset, Deinit
  <2> QED
    BY <2>1, EmptiedStep DEF Abstract, Contract!Next, Regions, Latched
<1>9. CASE TempBegin \/ ClearError \/ UNCHANGED vars
  <2>1. live' = live /\ block' = block /\ (status' = status \/ status' = "OK")
    BY <1>9, Zenon DEF TempBegin, ClearError, vars, heap, stats
  <2> QED
    BY <2>1, QuietStep
<1>10. CASE Trim
  <2>1. CASE NoEffect
    BY <2>1, NoEffectStep
  <2>2. CASE /\ block' = [b \in Blocks |-> IF b \in Range(freeList) THEN Absent ELSE block[b]]
             /\ UNCHANGED <<chain, next_block, stats, policy, epoch, status, aborted>>
    <3>1. live' = live /\ UNCHANGED status
      BY <2>2, Zenon DEF stats
    <3>2. \A y \in live : y.blk \in Blocks /\ y.blk \notin Range(freeList)
      BY RegionsParts, PlaceType DEF SafetyInv, Placed, BlocksAccounted
    <3>3. SkewsKept
      BY <2>2, <3>2 DEF SkewsKept
    <3> QED
      BY <3>1, <3>3, SameRegions DEF Abstract, Latched
  <2> QED
    BY <1>10, <2>1, <2>2, Zenon DEF Trim
<1> QED
  BY <1>1, <1>2, <1>3, <1>4, <1>5, <1>6, <1>7, <1>8, <1>9, <1>10, Zenon DEF Next

\* The arena is a backend in the sense of alloc.h, for every layout, policy and width:
\* a served call adds or replaces one region in range, aligned and apart from all
\* others; a refused one leaves them all alone; only xfree, xrealloc and the owner's
\* scope ends, resets and deinits take a region away.
THEOREM ArenaKeepsContract == Spec => ImplementsAlloc
<1>1. Init => Contract!Init
  <2>1. Init => live = {}
    BY Zenon DEF Init, InitDefault, InitSized, InitFixed, InitFields
  <2> QED
    BY <2>1 DEF Contract!Init
<1>2. TypeOK /\ TypeOK' /\ SafetyInv /\ [Next]_vars => [Contract!Next]_<<Regions, Latched>>
  BY NextStep DEF Abstract
<1> QED
  BY <1>1, <1>2, TypeCorrect, SafetyInvHolds, PTL
     DEF Spec, ImplementsAlloc, Contract!Spec, Regions, Latched
=============================================================================
