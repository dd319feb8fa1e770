--------------------------- MODULE AllocContract ---------------------------
(***************************************************************************)
(* What alloc.h promises the holder of an alloc_t, whatever the backend: the *)
(* regions it holds, and whether the backend refuses until its owner acts.   *)
(* A region is [mem, addr, size, align, scope]: the piece of memory it lies  *)
(* in, its address there, what was asked for, and the owner's scope it dies  *)
(* with.                                                                     *)
(***************************************************************************)
EXTENDS Integers

CONSTANT PtrMax   \* PTRDIFF_MAX

VARIABLES regions, latched

Overlap(x, y) ==
  x.mem = y.mem /\ x.addr < y.addr + y.size /\ y.addr < x.addr + x.size

\* A region may join others: its size and alignment are right and it lies apart.
Fresh(x, others) ==
  /\ x.size \in 1..PtrMax /\ x.addr % x.align = 0
  /\ \A y \in others : ~Overlap(x, y)

Init == regions = {} /\ latched \in BOOLEAN

\* xalloc, served.
XAlloc ==
  /\ ~latched /\ UNCHANGED latched
  /\ \E x \in regions' \ regions :
       regions' = regions \cup {x} /\ Fresh(x, regions)

\* xrealloc, served: in place, or moved to where the old region was not.
XRealloc ==
  /\ ~latched /\ UNCHANGED latched
  /\ \E x \in regions, y \in regions' :
       /\ regions' = (regions \ {x}) \cup {y} /\ Fresh(y, regions \ {x})
       /\ y.align = x.align /\ y.scope = x.scope
       /\ <<y.mem, y.addr>> = <<x.mem, x.addr>> \/ ~Overlap(x, y)

\* A refused call leaves every region alone; it may latch.
Refuse == UNCHANGED regions /\ (latched => latched')

\* xfree; it need not reclaim anything, and then it is a stutter.
XFree == (\E x \in regions : regions' = regions \ {x}) /\ UNCHANGED latched

\* The owner of the instance behind ctx ends a scope, starts over, or clears the latch.
OwnerEndsScope ==
  /\ \E s \in {x.scope : x \in regions} : regions' = {x \in regions : x.scope < s}
  /\ UNCHANGED latched
OwnerResets == regions' = {} /\ latched' = FALSE
OwnerClears == UNCHANGED regions /\ latched' = FALSE

Next == XAlloc \/ XRealloc \/ Refuse \/ XFree \/ OwnerEndsScope \/ OwnerResets \/ OwnerClears

Spec == Init /\ [][Next]_<<regions, latched>>
=============================================================================
