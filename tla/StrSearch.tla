----------------------------- MODULE StrSearch -----------------------------
(***************************************************************************)
(* The search of agenc-str: the two-way algorithm with its factorisation of *)
(* the needle, one loop iteration per action, and the short cases around    *)
(* it.  The haystack and the direction are chosen when they are first read. *)
(***************************************************************************)
EXTENDS Integers, Sequences, FiniteSetsExt

CONSTANTS
  Bytes,          \* the values of an unsigned char
  MaxNeedle,      \* bound: length of the needle
  MaxHaystack,    \* bound: length of the haystack
  SizeMax         \* SIZE_MAX, which no view is longer than

ASSUME StrSearchAssumption ==
  /\ Bytes \subseteq Nat /\ MaxNeedle \in Nat /\ SizeMax \in Nat \ {0}
  /\ MaxHaystack \in 0..SizeMax

VARIABLES
  needle, haystack, mode,
  phase,          \* "start", "forward", "reverse", "search", "done", "refused"
  walk,           \* str_suffix_walk_t
  forward,        \* the factor of the forward walk
  context,        \* factor, full_shift and saved_memory of str_search_context_t
  state,          \* str_search_state_t
  steps,          \* iterations of the loop that is running
  found

vars == <<needle, haystack, mode, phase, walk, forward, context, state, steps, found>>

STR_NPOS == SizeMax

Views(n) == UNION {[1..k -> Bytes] : k \in 0..n}
ByteAt(v, i) == v[i + 1]

\* fault: one pass is taken to be enough
ONE_WALK_PASS == 1

STR_SUFFIX_WALK_PASSES == 2
NoFactor == [cut |-> 0, period |-> 1]
NewWalk == [cut |-> 0, period |-> 1, candidate |-> 0, offset |-> 1]
NoContext == [factor |-> NoFactor, full_shift |-> 1, saved_memory |-> 0]
-----------------------------------------------------------------------------
(* The factorisation of the needle.                                         *)

IsByteBefore(left, right, isReverse) == IF isReverse THEN left > right ELSE left < right

WalkIsComplete == walk.offset >= Len(needle) - walk.candidate

\* Compares the maximal suffix so far with the candidate behind it.
Walked(w, isReverse) ==
  LET suffixByte    == ByteAt(needle, w.cut + w.offset - 1)
      candidateByte == ByteAt(needle, w.candidate + w.offset)
      passed        == w.candidate + w.offset
  IN CASE candidateByte = suffixByte /\ w.offset = w.period ->
            [w EXCEPT !.candidate = passed, !.offset = 1]
       [] candidateByte = suffixByte /\ w.offset # w.period ->
            [w EXCEPT !.offset = @ + 1]
       [] candidateByte # suffixByte /\ IsByteBefore(candidateByte, suffixByte, isReverse) ->
            [w EXCEPT !.candidate = passed, !.offset = 1, !.period = passed - w.cut + 1]
       [] OTHER ->
            [w EXCEPT !.candidate = @ + 1, !.cut = w.candidate + 1, !.offset = 1, !.period = 1]

\* str_run_suffix_walk_pass: at most one comparison per needle byte and pass.
WalkStep ==
  /\ phase \in {"forward", "reverse"}
  /\ ~WalkIsComplete /\ steps < STR_SUFFIX_WALK_PASSES * Len(needle)
  /\ walk' = Walked(walk, phase = "reverse")
  /\ steps' = steps + 1
  /\ UNCHANGED <<needle, haystack, mode, phase, forward, context, state, found>>

FactorOf(w) == [cut |-> w.cut, period |-> w.period]

EndForwardWalk ==
  /\ phase = "forward"
  /\ WalkIsComplete \/ steps = STR_SUFFIX_WALK_PASSES * Len(needle)
  /\ forward' = FactorOf(walk)
  /\ phase' = "reverse" /\ walk' = NewWalk /\ steps' = 0
  /\ UNCHANGED <<needle, haystack, mode, context, state, found>>

\* fault: the earlier cut is kept
EarlierFactor(f, r) == IF r.cut < f.cut THEN r ELSE f

\* str_find_critical_factor
CriticalFactor(f, r) == IF r.cut > f.cut THEN r ELSE f

IsFactorPeriodic(f) ==
  /\ f.period <= Len(needle) - f.cut
  /\ SubSeq(needle, 1, f.cut) = SubSeq(needle, f.period + 1, f.period + f.cut)

NonperiodicShift(f) == Max({f.cut, Len(needle) - f.cut + 1})

SearchContext(f) ==
  IF IsFactorPeriodic(f)
  THEN [factor |-> f, full_shift |-> f.period, saved_memory |-> Len(needle) - f.period]
  ELSE [factor |-> f, full_shift |-> NonperiodicShift(f), saved_memory |-> 0]

\* The reverse walk ends and the text is met.
BuildSearchContext(h, m) ==
  /\ phase = "reverse"
  /\ WalkIsComplete \/ steps = STR_SUFFIX_WALK_PASSES * Len(needle)
  /\ Len(h) >= Len(needle)
  /\ context' = SearchContext(CriticalFactor(forward, FactorOf(walk)))
  /\ haystack' = h /\ mode' = m
  /\ phase' = "search" /\ steps' = 0
  /\ state' = [idx |-> 0, memory |-> 0]
  /\ walk' = NewWalk /\ forward' = NoFactor
  /\ UNCHANGED <<needle, found>>
-----------------------------------------------------------------------------
(* The search.                                                              *)

LastIdx == Len(haystack) - Len(needle)

Matches(i) == ByteAt(needle, i) = ByteAt(haystack, state.idx + i)

\* The first mismatch from the cut, or from the remembered prefix; the length of
\* the needle when there is none.
ScanRight ==
  LET scanned == Max({context.factor.cut, state.memory})..(Len(needle) - 1)
  IN Min({i \in scanned : ~Matches(i)} \cup {Len(needle)})

\* fault: the first byte is not looked at
HasAlmostLeftMatch == \A i \in (state.memory + 1)..(context.factor.cut - 1) : Matches(i)

HasCandidateLeftMatch == \A i \in state.memory..(context.factor.cut - 1) : Matches(i)

\* fault: one place too far
AdvanceBeyond(shift, memory) ==
  IF shift > LastIdx + 1 - state.idx
  THEN phase' = "done" /\ state' = [state EXCEPT !.memory = memory]
  ELSE /\ phase' = (IF steps < LastIdx THEN "search" ELSE "done")
       /\ state' = [idx |-> state.idx + shift, memory |-> memory]

\* Moves by shift with that much memory, or ends the search.
Advance(shift, memory) ==
  IF shift > LastIdx - state.idx
  THEN phase' = "done" /\ state' = [state EXCEPT !.memory = memory]
  ELSE /\ phase' = (IF steps < LastIdx THEN "search" ELSE "done")
       /\ state' = [idx |-> state.idx + shift, memory |-> memory]

\* fault: the remembered prefix survives a mismatch
MismatchKeepingMemory ==
  /\ ScanRight < Len(needle)
  /\ Advance(ScanRight - context.factor.cut + 1, state.memory)
  /\ UNCHANGED found

SearchOnMismatch ==
  /\ ScanRight < Len(needle)
  /\ Advance(ScanRight - context.factor.cut + 1, 0)
  /\ UNCHANGED found

SearchAfterRightMatch ==
  /\ ScanRight = Len(needle)
  /\ found' = (IF HasCandidateLeftMatch THEN state.idx ELSE found)
  /\ IF HasCandidateLeftMatch /\ mode = "FIRST"
     THEN phase' = "done" /\ UNCHANGED state
     ELSE Advance(context.full_shift, context.saved_memory)

SearchStep ==
  /\ phase = "search"
  /\ SearchOnMismatch \/ SearchAfterRightMatch
  /\ steps' = steps + 1
  /\ UNCHANGED <<needle, haystack, mode, walk, forward, context>>
-----------------------------------------------------------------------------
(* A call of str_view_find ("FIRST") or str_view_rfind ("LAST").            *)

Modes == {"FIRST", "LAST"}

Init ==
  /\ needle \in Views(MaxNeedle)
  /\ haystack = <<>> /\ mode = "FIRST"
  /\ phase = "start" /\ walk = NewWalk /\ forward = NoFactor /\ context = NoContext
  /\ state = [idx |-> 0, memory |-> 0] /\ steps = 0 /\ found = STR_NPOS

\* str_search_view_byte
SearchViewByte(h, m) ==
  LET places == {i \in 0..(Len(h) - 1) : ByteAt(h, i) = ByteAt(needle, 0)}
  IN IF places = {} THEN STR_NPOS ELSE IF m = "FIRST" THEN Min(places) ELSE Max(places)

\* Behind the last byte of the longest view is an index that would read as a missing result.
IsSentinel(h, m) == m = "LAST" /\ Len(needle) = 0 /\ Len(h) = STR_NPOS

\* str_find_view_match answers ERR_OVERFLOW and writes no index.
RefuseSentinel(h, m) ==
  /\ phase = "start" /\ IsSentinel(h, m)
  /\ haystack' = h /\ mode' = m /\ phase' = "refused"
  /\ UNCHANGED <<needle, walk, forward, context, state, steps, found>>

\* str_locate_view_match and str_search_view, when no two-way search is needed.
AnswerShort(h, m) ==
  /\ phase = "start" /\ ~IsSentinel(h, m)
  /\ Len(needle) <= 1 \/ Len(h) < Len(needle)
  /\ found' = (CASE Len(needle) = 0                        -> IF m = "FIRST" THEN 0 ELSE Len(h)
                 [] Len(needle) > 0 /\ Len(h) < Len(needle) -> STR_NPOS
                 [] OTHER                                   -> SearchViewByte(h, m))
  /\ haystack' = h /\ mode' = m /\ phase' = "done"
  /\ UNCHANGED <<needle, walk, forward, context, state, steps>>

BeginTwoWay ==
  /\ phase = "start" /\ Len(needle) > 1
  /\ phase' = "forward"
  /\ UNCHANGED <<needle, haystack, mode, walk, forward, context, state, steps, found>>

Next ==
  \/ \E h \in Views(MaxHaystack), m \in Modes :
       RefuseSentinel(h, m) \/ AnswerShort(h, m) \/ BuildSearchContext(h, m)
  \/ BeginTwoWay \/ WalkStep \/ EndForwardWalk \/ SearchStep

Spec == Init /\ [][Next]_vars
-----------------------------------------------------------------------------
(* Properties.                                                              *)

OccursAt(i) == SubSeq(haystack, i + 1, i + Len(needle)) = needle

Occurrences == {i \in 0..LastIdx : OccursAt(i)}

TypeOK ==
  /\ needle \in Seq(Bytes) /\ haystack \in Seq(Bytes) /\ mode \in Modes
  /\ phase \in {"start", "forward", "reverse", "search", "done", "refused"}
  /\ walk \in [cut : Nat, period : Nat \ {0}, candidate : Nat, offset : Nat \ {0}]
  /\ found \in Nat
  /\ phase \in {"forward", "reverse"} => walk.candidate < Len(needle)
  /\ phase = "search" => state.idx \in 0..LastIdx /\ state.memory \in 0..(Len(needle) - 1)

\* str.h of str_view_find and str_view_rfind: the answer is the first (last) place where
\* the needle occurs, and STR_NPOS when there is none; it reads as STR_NPOS only then,
\* since a call is refused exactly when the index it found would.
SearchExact ==
  /\ phase = "done" =>
       /\ found = IF Occurrences = {} THEN STR_NPOS
                  ELSE IF mode = "FIRST" THEN Min(Occurrences) ELSE Max(Occurrences)
       /\ found = STR_NPOS => Occurrences = {}
  /\ phase = "refused" => mode = "LAST" /\ Occurrences # {} /\ Max(Occurrences) = STR_NPOS

\* The prefix remembered after a shift by the period does match at the new place.
MemoryMatches ==
  phase = "search" => \A i \in 0..(state.memory - 1) : Matches(i)

\* The comment in str_find_maximal_suffix: the walk is over within two passes,
\* so the factor it returns is that of the whole needle.
WalkCompletes ==
  phase \in {"forward", "reverse"} /\ steps = STR_SUFFIX_WALK_PASSES * Len(needle)
    => WalkIsComplete

IsPeriod(v, p) == \A i \in 1..(Len(v) - p) : v[i] = v[i + p]
Period(v) == Min({p \in 1..Len(v) : IsPeriod(v, p)})

\* The least repetition around a cut.
LocalPeriod(v, c) ==
  Min({p \in 1..Len(v) : \A i \in (c - p + 1)..c : i >= 1 /\ i + p <= Len(v) => v[i] = v[i + p]})

\* The cut is critical (the repetition around it is the period of the needle),
\* and the shift after a full match never exceeds the period.
FactorCritical ==
  phase = "search" =>
    /\ LocalPeriod(needle, context.factor.cut) = Period(needle)
    /\ context.full_shift <= Period(needle)
=============================================================================
