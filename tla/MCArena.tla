------------------------------ MODULE MCArena ------------------------------
(* Instances of Arena for TLC. *)
EXTENDS ArenaAlloc

\* The parent's addresses are interchangeable.
Symmetry == Permutations(Blocks)

\* Valid sizes, one below ARENA_FIXED_OVERHEAD, and a reversed pair.
MCSizedArgs == {<<4, 5>>, <<2, 5>>, <<5, 4>>}
NoArgs == {}
=============================================================================
