----------------------------- MODULE ArenaLifo -----------------------------
(***************************************************************************)
(* A generic alloc_t consumer over arena_allocator(a): it allocates through *)
(* the adapter and frees in exactly the opposite order.  stack holds the    *)
(* regions it has not freed, padding the alignment bytes its allocations    *)
(* consumed.                                                                *)
(***************************************************************************)
EXTENDS Arena

VARIABLES stack, padding

lifoVars == <<vars, stack, padding>>

LifoInit == Init /\ stack = <<>> /\ padding = 0

\* arena_adapter_xalloc
XAlloc(size, align) ==
  /\ AllocN(1, size, align)
  /\ \/ live' = live /\ UNCHANGED <<stack, padding>>
     \/ /\ live' # live
        /\ stack' = Append(stack, CHOOSE x \in live' : x \notin live)
        /\ padding' = padding + (used' - used) - (size + Redzone)

XFreeNewest ==
  /\ stack # <<>>
  /\ XFree(Last(stack))
  /\ stack' = Front(stack)
  /\ UNCHANGED padding

LifoNext ==
  \/ \E size \in Sizes, align \in Aligns : XAlloc(size, align)
  \/ XFreeNewest

LifoSpec == LifoInit /\ [][LifoNext]_lifoVars

\* arena.h: "xfree rolls the cursor back when given the most recent live
\* allocation ..., so LIFO alloc/free pairs cost zero net memory apart from
\* alignment padding": once everything is freed, only padding is still used.
LifoCostsOnlyPadding == stack = <<>> => used <= padding
=============================================================================
