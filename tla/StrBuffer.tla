----------------------------- MODULE StrBuffer -----------------------------
(***************************************************************************)
(* str_t of agenc-str over heap blocks: every mutator and lifecycle call,   *)
(* with the allocations that may fail, the reallocations that may move, the *)
(* borrowed spans that point into the string itself and the order of the    *)
(* memmoves.                                                                *)
(*                                                                         *)
(* A call is a composition of helpers, each from a machine state            *)
(* [heap, s, ret] (the heap, the str_t the call works on and the status so  *)
(* far) to the set of the states it may leave behind.                       *)
(***************************************************************************)
EXTENDS StrApi, FiniteSetsExt

CONSTANTS
  Junk,           \* a byte never written, or read through a dead pointer
  MinCap,         \* STR_MIN_CAPACITY_BYTES
  FormatStack,    \* STR_FORMAT_STACK_BYTES
  MaxDetached     \* bound: detached buffers the caller holds at a time

ASSUME StrBufferAssumption ==
  /\ Junk \notin Bytes
  /\ MinCap \in 1..SizeMax
  /\ FormatStack \in Nat \ {0}
  /\ MaxDetached \in Nat

VARIABLES
  str,        \* [Strings -> [buf, len, cap, status]]
  heap,       \* the allocated blocks: address -> its bytes
  detached,   \* the blocks the caller has to free()
  call        \* the last call

vars == <<str, heap, detached, call>>

NULL   == 0       \* heap blocks have the addresses 1, 2, ...
CALLER == -1      \* memory that belongs to the caller

STR_EMPTY == [buf |-> NULL, len |-> 0, cap |-> 0, status |-> "OK"]

str_is_owned(s) == s.cap > 0
-----------------------------------------------------------------------------
(* malloc, realloc, free and memory.                                        *)

FreshBlock(h) == Min(1..(Cardinality(DOMAIN h) + 1) \ DOMAIN h)

\* The heap h with bytes in block b.
Placed(h, b, bytes) ==
  [c \in DOMAIN h \cup {b} |-> IF c = b THEN bytes ELSE h[c]]

Malloc(h, n) == Placed(h, FreshBlock(h), [i \in 1..n |-> Junk])

\* free(NULL) does nothing.
Released(h, b) == [c \in DOMAIN h \ {b} |-> h[c]]

\* The blocks b may have become: resized where it is, or moved.
Realloc(h, b, n) ==
  LET bytes == [i \in 1..n |-> IF i <= Len(h[b]) THEN h[b][i] ELSE Junk]
      moved == FreshBlock(h)
  IN {[heap |-> Placed(h, b, bytes), buf |-> b],
      [heap |-> Placed(Released(h, b), moved, bytes), buf |-> moved]}

\* The n bytes at pointer p; nothing can be said of them outside a live block.
Load(h, p, n) ==
  LET bytes == CASE p.blk = CALLER       -> p.bytes
                 [] p.blk \in DOMAIN h   -> h[p.blk]
                 [] OTHER                -> <<>>
  IN [i \in 1..n |-> IF p.off + i <= Len(bytes) THEN bytes[p.off + i] ELSE Junk]

\* Writing w at offset off of m's buffer.  A write past the end makes the block
\* longer than it was allocated, which BufferSound refuses.
Store(m, off, w) ==
  LET b == m.heap[m.s.buf]
      bytes == [i \in 1..Max({Len(b), off + Len(w)}) |->
                  IF i > off /\ i <= off + Len(w) THEN w[i - off]
                  ELSE IF i <= Len(b) THEN b[i] ELSE Junk]
  IN IF w = <<>> THEN m ELSE [m EXCEPT !.heap[m.s.buf] = bytes]

\* memmove within and into the buffer: all of the source is read first.
str_move_bytes(m, off, p, n) == Store(m, off, Load(m.heap, p, n))

At(b, off) == [blk |-> b, off |-> off, bytes |-> <<>>]

\* The pointer a caller passes for a span.  A C string of its own is followed
\* by its terminator.
Pointer(s, span) ==
  CASE span.at = "null"   -> At(NULL, 0)
    [] span.at = "self"   -> At(s.buf, span.off)
    [] span.at = "caller" -> [blk |-> CALLER, off |-> 0, bytes |-> Append(span.bytes, Nul)]
-----------------------------------------------------------------------------
(* Statuses.                                                                *)

With(m, r) == [m EXCEPT !.ret = r]

\* STR_TRY: later steps happen only if the earlier ones returned STR_OK.
Then(outcomes, F(_)) ==
  UNION {IF m.ret = "OK" THEN F(m) ELSE {m} : m \in outcomes}

str_record_failure(m) == IF m.ret = "OK" THEN m ELSE [m EXCEPT !.s.status = m.ret]

\* Every mutator: a recorded failure is returned before anything is looked at.
Mutation(m, outcomes) ==
  IF m.s.status # "OK" THEN {With(m, m.s.status)}
  ELSE {str_record_failure(o) : o \in outcomes}

str_validate_source(m, span) ==
  With(m, IF span.n > 0 /\ span.at = "null" THEN "ERR_ARG" ELSE "OK")

str_validate_span(m, len, idx, n) ==
  With(m, IF idx > len \/ n > len - idx THEN "ERR_RANGE" ELSE "OK")

\* fault: the size arithmetic wraps unnoticed.
unchecked_capacity(m, n) == m

\* str_add_size twice: the room for n content bytes and their terminator.
str_calculate_capacity(m, n) ==
  With(m, IF n > SizeMax - 1 THEN "ERR_OVERFLOW" ELSE "OK")
-----------------------------------------------------------------------------
(* Capacity.                                                                *)

\* The first doubling of at least MinCap that need fits in; need itself when
\* none does before a doubling overflows.
str_choose_capacity(cap, need) ==
  LET doublings == {c \in 1..SizeMax : \E k \in 0..SizeMax : c = Max({cap, MinCap}) * 2^k}
      enough    == {c \in doublings : c >= need}
  IN IF enough = {} THEN need ELSE Min(enough)

\* A first allocation starts as an empty C string.
str_expand_heap(m, n) ==
  IF str_is_owned(m.s) THEN Realloc(m.heap, m.s.buf, n)
  ELSE LET b == FreshBlock(m.heap)
           bytes == [i \in 1..n |-> IF i = 1 THEN Nul ELSE Junk]
       IN {[heap |-> Placed(m.heap, b, bytes), buf |-> b]}

str_ensure_capacity(m, need) ==
  IF need <= m.s.cap THEN {m}
  ELSE LET n == str_choose_capacity(m.s.cap, need)
       IN {With(m, "ERR_ALLOC")} \cup
          {[m EXCEPT !.heap = a.heap, !.s.buf = a.buf, !.s.cap = n] :
             a \in str_expand_heap(m, n)}
-----------------------------------------------------------------------------
(* Borrowed spans that may point into the string.                           *)

str_find_allocation_offset(s, p) == s.buf # NULL /\ p.blk = s.buf /\ p.off < s.cap

\* A span inside the allocation may reach the terminator, never spare capacity.
str_detect_overlap(m, p, n) ==
  With(m, IF /\ str_find_allocation_offset(m.s, p)
             /\ \/ p.off > m.s.len
                \/ n > (m.s.len - p.off) + 1
          THEN "ERR_ARG" ELSE "OK")

\* Where a pointer into the old buffer of s points after a reallocation to t.
Rebased(s, t, p) ==
  IF str_find_allocation_offset(s, p) THEN [p EXCEPT !.blk = t.buf] ELSE p

\* The places of a NUL in the C string at p, read up to the terminator of the
\* string when p points into it.
NulsAt(m, p) ==
  LET n == IF str_find_allocation_offset(m.s, p) THEN (m.s.len - p.off) + 1
           ELSE Len(p.bytes)
  IN {i \in 1..n : Load(m.heap, p, n)[i] = Nul}

CStringLen(m, p) == Min(NulsAt(m, p)) - 1

\* A C string inside the string starts in its content or at its terminator.
str_measure_c_string_input(m, p) ==
  IF p.blk = NULL THEN {With(m, "ERR_ARG")}
  ELSE Then({str_detect_overlap(m, p, 1)},
            LAMBDA o : {With(o, IF NulsAt(o, p) = {} THEN "ERR_ARG" ELSE "OK")})
-----------------------------------------------------------------------------
(* Writing content.                                                         *)

str_write_terminator(m) == Store(m, m.s.len, <<Nul>>)

str_clear_content(m) ==
  LET e == [m EXCEPT !.s.len = 0] IN IF str_is_owned(m.s) THEN Store(e, 0, <<Nul>>) ELSE e

str_replace_content(m, p, n) ==
  str_write_terminator([str_move_bytes(m, 0, p, n) EXCEPT !.s.len = n])

str_append_content(m, p, n) ==
  str_write_terminator([str_move_bytes(m, m.s.len, p, n) EXCEPT !.s.len = @ + n])

\* fault: the source is taken to stay where it is.
unadjusted_offset(p, idx, n) == p.off

\* The tail goes first, so a source at or after idx has moved with it.
str_adjust_source_offset(p, idx, n) == IF p.off >= idx THEN p.off + n ELSE p.off

str_commit_insert(m, idx, p, n) ==
  LET tail   == str_move_bytes(m, idx + n, At(m.s.buf, idx), (m.s.len - idx) + 1)
      filled == str_move_bytes(tail, idx, p, n)
  IN str_write_terminator([filled EXCEPT !.s.len = @ + n])

str_close_gap(m, idx, n) ==
  LET moved == str_move_bytes(m, idx, At(m.s.buf, idx + n), (m.s.len - idx - n) + 1)
  IN str_write_terminator([moved EXCEPT !.s.len = @ - n])

str_extend_content(m, n, byte) ==
  LET filled == Store(m, m.s.len, [i \in 1..(n - m.s.len) |-> byte])
  IN str_write_terminator([filled EXCEPT !.s.len = n])

str_grow_content(m, n, byte) ==
  Then(Then({str_calculate_capacity(m, n)}, LAMBDA o : str_ensure_capacity(o, n + 1)),
       LAMBDA o : {str_extend_content(o, n, byte)})

str_commit_replacement(m, idx, k, p, n) ==
  LET suffix == str_move_bytes(m, idx + n, At(m.s.buf, idx + k), (m.s.len - idx - k) + 1)
      filled == str_move_bytes(suffix, idx, p, n)
  IN str_write_terminator([filled EXCEPT !.s.len = (@ - k) + n])
-----------------------------------------------------------------------------
(* The bodies of the mutators.                                              *)

\* fault: no room for the terminator.
prepare_without_nul(m, p, n, base) ==
  Then(Then({str_calculate_capacity(m, base + n)},
            LAMBDA o : {str_detect_overlap(o, p, n)}),
       LAMBDA o : str_ensure_capacity(o, base + n))

\* Room for base + n bytes, the source checked before and rebased after.
str_prepare_write(m, p, n, base) ==
  Then(Then({str_calculate_capacity(m, base + n)},
            LAMBDA o : {str_detect_overlap(o, p, n)}),
       LAMBDA o : str_ensure_capacity(o, base + n + 1))

str_set_valid_span(m, p, n) ==
  IF n = 0 THEN {str_clear_content(m)}
  ELSE Then(str_prepare_write(m, p, n, 0),
            LAMBDA o : {str_replace_content(o, Rebased(m.s, o.s, p), n)})

str_append_valid_span(m, p, n) ==
  IF n = 0 THEN {m}
  ELSE Then(str_prepare_write(m, p, n, m.s.len),
            LAMBDA o : {str_append_content(o, Rebased(m.s, o.s, p), n)})

\* Bytes the library rendered itself: no overlap to look for.
str_append_unaliased_span(m, w) ==
  IF w = <<>> THEN {m}
  ELSE Then(Then({str_calculate_capacity(m, m.s.len + Len(w))},
                 LAMBDA o : str_ensure_capacity(o, m.s.len + Len(w) + 1)),
            LAMBDA o : {str_append_content(o, [blk |-> CALLER, off |-> 0, bytes |-> w], Len(w))})

\* Output that fits the stack buffer is appended from there; longer output is
\* rendered again into a block of its own, which must agree with the first.
str_append_format_payload(m, text, how) ==
  IF how = "fails" THEN {With(m, "ERR_FMT")}
  ELSE IF Len(text) < FormatStack THEN str_append_unaliased_span(m, text)
  ELSE Then(Then({str_calculate_capacity(m, Len(text))},
                 LAMBDA o : {With(o, "ERR_ALLOC"), [o EXCEPT !.heap = Malloc(@, Len(text) + 1)]}),
            LAMBDA o : LET appended == IF how = "renders" THEN str_append_unaliased_span(o, text)
                                       ELSE {With(o, "ERR_FMT")}
                       IN {[a EXCEPT !.heap = Released(@, FreshBlock(m.heap))] : a \in appended})

str_insert_span(m, idx, p, n) ==
  LET inside == str_find_allocation_offset(m.s, p)
      q == IF inside THEN [p EXCEPT !.off = str_adjust_source_offset(p, idx, n)] ELSE p
  IN Then(str_prepare_write(m, p, n, m.s.len),
          LAMBDA o : {str_commit_insert(o, idx, IF inside THEN [q EXCEPT !.blk = o.s.buf] ELSE q, n)})

\* The machine m with heap h, once the source to copy is at p and block b, if
\* not NULL, is the copy to free.
Staged(m, h, p, b) == [heap |-> h, s |-> m.s, ret |-> m.ret, src |-> p, staged |-> b]

\* A replacement from the string itself is copied out before the buffer moves.
str_stage_replacement(m, p, n) ==
  IF n = 0 \/ ~str_find_allocation_offset(m.s, p) THEN {Staged(m, m.heap, p, NULL)}
  ELSE LET b == FreshBlock(m.heap)
           copy == Placed(m.heap, b, Load(m.heap, p, n))
       IN Then({str_detect_overlap(m, p, n)},
               LAMBDA o : {With(o, "ERR_ALLOC"), Staged(o, copy, At(b, 0), b)})

\* fault: the staged copy is forgotten when the buffer cannot grow.
replace_leaking_stage(m, idx, k, p, n) ==
  LET newLen == (m.s.len - k) + n
      Finish(o, g) == [heap |-> IF g.ret = "OK" THEN Released(g.heap, o.staged) ELSE g.heap,
                       s |-> g.s, ret |-> g.ret]
  IN Then(Then({str_calculate_capacity(m, newLen)},
               LAMBDA o : str_stage_replacement(o, p, n)),
          LAMBDA o : {Finish(o, g) :
                        g \in Then(str_ensure_capacity(o, newLen + 1),
                                   LAMBDA e : {str_commit_replacement(e, idx, k, o.src, n)})})

str_replace_resized_span(m, idx, k, p, n) ==
  LET newLen == (m.s.len - k) + n
      Finish(o, g) == [heap |-> Released(g.heap, o.staged), s |-> g.s, ret |-> g.ret]
  IN Then(Then({str_calculate_capacity(m, newLen)},
               LAMBDA o : str_stage_replacement(o, p, n)),
          LAMBDA o : {Finish(o, g) :
                        g \in Then(str_ensure_capacity(o, newLen + 1),
                                   LAMBDA e : {str_commit_replacement(e, idx, k, o.src, n)})})

str_replace_equal_span(m, idx, p, n) ==
  Then({str_detect_overlap(m, p, n)}, LAMBDA o : {str_move_bytes(o, idx, p, n)})

str_apply_replacement(m, idx, k, p, n) ==
  IF k = n THEN str_replace_equal_span(m, idx, p, n)
  ELSE str_replace_resized_span(m, idx, k, p, n)

str_shrink_heap(m, n) ==
  IF n = m.s.cap THEN {m}
  ELSE {With(m, "ERR_ALLOC")} \cup
       {[m EXCEPT !.heap = a.heap, !.s.buf = a.buf, !.s.cap = n] : a \in Realloc(m.heap, m.s.buf, n)}

\* str_deinit, and str_discard_heap of an owned empty string.
Discarded(m) == [m EXCEPT !.heap = Released(@, m.s.buf), !.s = STR_EMPTY]
-----------------------------------------------------------------------------
(* The calls.                                                               *)

Init ==
  /\ str = [x \in Strings |-> STR_EMPTY]
  /\ heap = <<>>
  /\ detached = {}
  /\ call = Call("init", NoString)

Machine(x) == [heap |-> heap, s |-> str[x], ret |-> "OK"]

\* Call c on a string ends in one of the outcomes.
Run(c, outcomes) ==
  \E o \in outcomes :
    /\ str' = [str EXCEPT ![c.x] = o.s]
    /\ heap' = o.heap
    /\ call' = [c EXCEPT !.ret = o.ret]
    /\ UNCHANGED detached

\* Spans the caller may pass to x: nothing is inspected through an empty one,
\* and a pointer into x starts inside its allocation.
Spans(x) ==
  {NullSpan(0), NullSpan(1)} \cup {CallerSpan(w) : w \in CallerSpans}
    \cup {SelfSpan(off, n) : off \in 0..(str[x].cap - 1), n \in 1..SizeMax}

\* Starts of C strings the caller may pass to x.
CStrings(x) ==
  {NullSpan(0)} \cup {CallerSpan(w) : w \in CallerSpans}
    \cup {SelfSpan(off, 1) : off \in 0..(str[x].cap - 1)}

\* Indexes and counts the caller may pass: past the end every one is refused
\* like the first and the largest.
Places(x) == 0..(str[x].len + 1) \cup {SizeMax}

Deinit(x) == Run(Call("deinit", x), {Discarded(Machine(x))})

\* fault: clear gives the buffer up.
ClearReleasing(x) == Run(Call("clear", x), {Discarded(Machine(x))})

Clear(x) ==
  Run(Call("clear", x), {str_clear_content([Machine(x) EXCEPT !.s.status = "OK"])})

ClearError(x) == Run(Call("clear_error", x), {[Machine(x) EXCEPT !.s.status = "OK"]})

str_transfer_state(x, y) == str' = [str EXCEPT ![x] = str[y], ![y] = STR_EMPTY]

\* fault: the destination's buffer is dropped.
MoveLeaking(x, y) ==
  /\ call' = [Call("move", x) EXCEPT !.y = y]
  /\ IF y \in {NoString, x} THEN UNCHANGED str
     ELSE str_transfer_state(x, y)
  /\ UNCHANGED <<heap, detached>>

Move(x, y) ==
  /\ call' = [Call("move", x) EXCEPT !.y = y]
  /\ IF y \in {NoString, x} THEN UNCHANGED <<str, heap>>
     ELSE /\ heap' = Discarded(Machine(x)).heap
          /\ str_transfer_state(x, y)
  /\ UNCHANGED detached

\* fault: the status goes along with the bytes.
CopyWithStatus(m, source) ==
  {IF o.ret = "OK"
   THEN [o EXCEPT !.heap = Released(@, m.s.buf), !.s.status = source.status]
   ELSE [o EXCEPT !.heap = Discarded(o).heap, !.s = m.s] :
     o \in str_set_valid_span([m EXCEPT !.s = STR_EMPTY], At(source.buf, 0), source.len)}

\* The copy is made in a scratch string, which then moves into x.
CopyOf(m, source) ==
  LET scratch == [m EXCEPT !.s = STR_EMPTY]
  IN {IF o.ret = "OK" THEN [o EXCEPT !.heap = Released(@, m.s.buf)]
      ELSE [o EXCEPT !.heap = Discarded(o).heap, !.s = m.s] :
        o \in str_set_valid_span(scratch, At(source.buf, 0), source.len)}

Copy(x, y) ==
  LET m == Machine(x)
  IN Run([Call("copy", x) EXCEPT !.y = y],
         Mutation(m, CASE y = NoString -> {With(m, "ERR_ARG")}
                       [] y = x        -> {m}
                       [] OTHER        -> CopyOf(m, str[y])))

\* The buffer leaves with its bytes, whatever the status.
str_take_owned_buffer(x) ==
  /\ str_is_owned(str[x]) /\ Cardinality(detached) < MaxDetached
  /\ str' = [str EXCEPT ![x] = STR_EMPTY]
  /\ detached' = detached \cup {str[x].buf}
  /\ call' = [Call("detach", x) EXCEPT !.out = Load(heap, At(str[x].buf, 0), str[x].len)]
  /\ UNCHANGED heap

\* An unowned string needs a byte for the terminator it hands out.
str_allocate_empty_buffer(x) ==
  /\ ~str_is_owned(str[x])
  /\ \/ LET b == FreshBlock(heap)
        IN /\ Cardinality(detached) < MaxDetached
           /\ str' = [str EXCEPT ![x] = STR_EMPTY]
           /\ heap' = Placed(heap, b, <<Nul>>)
           /\ detached' = detached \cup {b}
           /\ call' = Call("detach", x)
     \/ /\ str' = [str EXCEPT ![x].status = "ERR_ALLOC"]
        /\ call' = [Call("detach", x) EXCEPT !.ret = "ERR_ALLOC"]
        /\ UNCHANGED <<heap, detached>>

Detach(x) == str_take_owned_buffer(x) \/ str_allocate_empty_buffer(x)

\* The caller frees a C string it was handed.
FreeDetached(b) ==
  /\ heap' = Released(heap, b)
  /\ detached' = detached \ {b}
  /\ call' = Call("free", NoString)
  /\ UNCHANGED str

\* Mutators that take n bytes of a span: str_begin_mutation, then Body.
SpanMutation(m, span, Body(_)) == Mutation(m, Then({str_validate_source(m, span)}, Body))

\* Mutators that take a C string, with the length measured for Body.
CStringMutation(m, p, Body(_)) == Mutation(m, Then(str_measure_c_string_input(m, p), Body))

Set(x, span) ==
  LET m == Machine(x)
      p == Pointer(str[x], span)
  IN Run([Call("set", x) EXCEPT !.span = span],
         CStringMutation(m, p, LAMBDA o : str_set_valid_span(o, p, CStringLen(o, p))))

SetN(x, span) ==
  LET p == Pointer(str[x], span)
  IN Run([Call("set_n", x) EXCEPT !.span = span],
         SpanMutation(Machine(x), span, LAMBDA o : str_set_valid_span(o, p, span.n)))

AppendCString(x, span) ==
  LET m == Machine(x)
      p == Pointer(str[x], span)
  IN Run([Call("append", x) EXCEPT !.span = span],
         CStringMutation(m, p, LAMBDA o : str_append_valid_span(o, p, CStringLen(o, p))))

AppendN(x, span) ==
  LET p == Pointer(str[x], span)
  IN Run([Call("append_n", x) EXCEPT !.span = span],
         SpanMutation(Machine(x), span, LAMBDA o : str_append_valid_span(o, p, span.n)))

AppendChar(x, byte) ==
  Run([Call("append_char", x) EXCEPT !.fill = byte],
      Mutation(Machine(x), str_append_unaliased_span(Machine(x), <<byte>>)))

\* vsnprintf renders text, fails, or (only when it is asked twice) disagrees
\* with its first rendering.
AppendFmt(x, format, text, how) ==
  /\ how = "changes" => Len(text) >= FormatStack
  /\ Run([Call("append_fmt", x) EXCEPT !.span = format, !.text = text, !.how = how],
         CStringMutation(Machine(x), Pointer(str[x], format),
                         LAMBDA o : str_append_format_payload(o, text, how)))

\* fault: the reservation forgets the terminator.
ReserveWithoutNul(x, n) ==
  LET m == Machine(x)
  IN Run([Call("reserve", x) EXCEPT !.k = n],
         Mutation(m, IF n = 0 THEN {m} ELSE str_ensure_capacity(m, n)))

Reserve(x, n) ==
  LET m == Machine(x)
  IN Run([Call("reserve", x) EXCEPT !.k = n],
         Mutation(m, IF n = 0 THEN {m}
                     ELSE Then({str_calculate_capacity(m, n)},
                               LAMBDA o : str_ensure_capacity(o, n + 1))))

ShrinkToFit(x) ==
  LET m == Machine(x)
  IN Run(Call("shrink_to_fit", x),
         Mutation(m, CASE str[x].cap = 0 -> {m}
                       [] str[x].cap > 0 /\ str[x].len = 0 -> {Discarded(m)}
                       [] OTHER -> str_shrink_heap(m, str[x].len + 1)))

Resize(x, n, byte) ==
  LET m == Machine(x)
      len == str[x].len
  IN Run([Call("resize", x) EXCEPT !.k = n, !.fill = byte],
         Mutation(m, CASE n = len -> {m}
                       [] n < len -> {str_close_gap(m, n, len - n)}
                       [] n > len -> str_grow_content(m, n, byte)))

InsertN(x, idx, span) ==
  LET p == Pointer(str[x], span)
  IN Run([Call("insert_n", x) EXCEPT !.idx = idx, !.span = span],
         SpanMutation(Machine(x), span, LAMBDA o :
           Then({str_validate_span(o, o.s.len, idx, 0)},
                LAMBDA v : IF span.n = 0 THEN {v} ELSE str_insert_span(v, idx, p, span.n))))

RemoveSpan(x, idx, n) ==
  LET m == Machine(x)
  IN Run([Call("remove", x) EXCEPT !.idx = idx, !.k = n],
         Mutation(m, Then({str_validate_span(m, str[x].len, idx, n)},
                          LAMBDA o : IF n = 0 THEN {o} ELSE {str_close_gap(o, idx, n)})))

ReplaceView(x, idx, k, span) ==
  LET p == Pointer(str[x], span)
      Replaced(v) == IF k = 0 /\ span.n = 0 THEN {v}
                     ELSE str_apply_replacement(v, idx, k, p, span.n)
  IN Run([Call("replace_view", x) EXCEPT !.idx = idx, !.k = k, !.span = span],
         SpanMutation(Machine(x), span, LAMBDA o :
           Then({str_validate_span(o, o.s.len, idx, k)}, Replaced)))

Next ==
  \/ \E x \in Strings :
       \/ Deinit(x) \/ Clear(x) \/ ClearError(x) \/ Detach(x) \/ ShrinkToFit(x)
       \/ \E y \in Strings \cup {NoString} : Move(x, y) \/ Copy(x, y)
       \/ \E span \in CStrings(x) : Set(x, span) \/ AppendCString(x, span)
       \/ \E span \in Spans(x) : SetN(x, span) \/ AppendN(x, span)
       \/ \E byte \in Bytes : AppendChar(x, byte)
       \/ \E format \in CStrings(x), text \in CallerSpans, how \in {"renders", "fails", "changes"} :
            AppendFmt(x, format, text, how)
       \/ \E n \in 0..SizeMax : Reserve(x, n) \/ \E byte \in Bytes : Resize(x, n, byte)
       \/ \E idx \in Places(x), span \in Spans(x) : InsertN(x, idx, span)
       \/ \E idx, n \in Places(x) : RemoveSpan(x, idx, n)
       \/ \E idx, k \in Places(x), span \in Spans(x) : ReplaceView(x, idx, k, span)
  \/ \E b \in detached : FreeDetached(b)

Spec == Init /\ [][Next]_vars
-----------------------------------------------------------------------------
(* Properties.                                                              *)

TypeOK ==
  /\ str \in [Strings -> [buf : Nat, len : 0..SizeMax, cap : 0..SizeMax, status : Statuses]]
  /\ DOMAIN heap \subseteq Nat \ {NULL}
  /\ \A b \in DOMAIN heap : heap[b] \in Seq(Bytes \cup {Junk})
  /\ detached \subseteq DOMAIN heap

\* The invariants of str_t (str.h): without a buffer there is no content, and a
\* buffer has the capacity recorded for it, room for the content and a NUL
\* right behind it.  A write outside the buffer would break it too.
BufferSound ==
  \A x \in Strings :
    LET s == str[x]
    IN IF s.cap = 0 THEN s.buf = NULL /\ s.len = 0
       ELSE /\ s.buf \in DOMAIN heap /\ Len(heap[s.buf]) = s.cap
            /\ s.len < s.cap /\ heap[s.buf][s.len + 1] = Nul

\* Every block has one owner, a string or the caller: nothing leaks, nothing is
\* freed under a string, and no two strings share a buffer, whatever calls
\* fail, move their buffer or stage a copy.
OneOwner ==
  LET owned == {x \in Strings : str[x].buf # NULL}
  IN /\ DOMAIN heap = {str[x].buf : x \in owned} \cup detached
     /\ \A x \in owned : str[x].buf \notin detached
     /\ \A x, y \in owned : str[x].buf = str[y].buf => x = y

Content(x) == Load(heap, At(str[x].buf, 0), str[x].len)

Value == INSTANCE StrValue WITH val <- [x \in Strings |-> Content(x)],
                                status <- [x \in Strings |-> str[x].status]

\* Every call does to the byte sequences what str.h says of it: the same result
\* for a span of the string itself, moved buffers or not, as for a copy of it;
\* an error only for a reason, and a sticky one.
ImplementsStrValue == Value!Spec

\* str.h: "A failed mutator preserves bytes, length, capacity, and ownership":
\* only a status is recorded, every block keeps its place and its bytes.
FailureAtomic ==
  [][call'.ret # "OK" =>
       /\ heap' = heap
       /\ \A x \in Strings : [str[x] EXCEPT !.status = str'[x].status] = str'[x]]_vars

InPlace == {"set", "set_n", "append", "append_n", "append_char", "reserve", "resize", "insert_n"}

\* str_reserve: the room it promises is there, and no call whose content fits
\* the capacity fails for memory.
ReservedNeverFails ==
  [][LET c == call'
     IN /\ c.op \in InPlace /\ c.ret = "ERR_ALLOC" /\ str[c.x].status = "OK" =>
             Value!RequestedLen(Content(c.x), c) >= str[c.x].cap
        /\ c.op = "reserve" /\ c.ret = "OK" /\ c.k > 0 => str'[c.x].cap > c.k]_vars

\* Only the calls that give a buffer up or ask for less lower a capacity, so a
\* reservation outlives clear, remove, failures and whatever is written.
CapacityKept ==
  [][\A x \in Strings :
       str'[x].cap < str[x].cap =>
         \/ call'.x = x /\ call'.op \in {"deinit", "move", "copy", "detach", "shrink_to_fit"}
         \/ call'.y = x /\ call'.op = "move"]_vars
=============================================================================
