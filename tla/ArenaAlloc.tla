----------------------------- MODULE ArenaAlloc -----------------------------
(***************************************************************************)
(* An arena, seen through the alloc_t that arena_allocator makes of it.      *)
(***************************************************************************)
EXTENDS Arena

\* A live region as the holder of the alloc_t knows it.
Lease(x) == [mem |-> x.blk, addr |-> block[x.blk].skew + x.off,
             size |-> x.size, align |-> x.align, scope |-> x.depth]

Contract == INSTANCE AllocContract
              WITH regions <- {Lease(x) : x \in live}, latched <- (status # "OK")

\* The arena is a backend in the sense of alloc.h: a served call adds or replaces one
\* region, aligned and apart from all others; a refused one, at whatever step, leaves
\* them all alone; an error refuses everything until the owner acts; nothing but xfree,
\* xrealloc and the owner's calls takes a region away.
ImplementsAlloc == Contract!Spec
=============================================================================
