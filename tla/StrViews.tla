------------------------------ MODULE StrViews ------------------------------
(***************************************************************************)
(* Borrowed views of agenc-str: making, slicing, trimming, comparing, and    *)
(* at the end splitting one.  All views lie in one object, the buffer of a   *)
(* string, and share its bytes.                                              *)
(***************************************************************************)
EXTENDS Integers, SequencesExt, FiniteSetsExt

CONSTANTS
  Bytes,          \* the values of an unsigned char
  Whitespace,     \* str_ascii_whitespace_bytes
  StringLen,      \* bound: content bytes of the string
  SizeMax,        \* SIZE_MAX, above the length of any string
  MaxCap,         \* bound: views in the array of a split
  NULL

Nul == 0

ASSUME StrViewsAssumption ==
  /\ Bytes \subseteq Nat /\ Nul \in Bytes /\ Whitespace \subseteq Bytes \ {Nul}
  /\ StringLen \in Nat /\ SizeMax \in Nat /\ SizeMax > StringLen
  /\ MaxCap \in Nat /\ NULL \notin Int

VARIABLES
  buf,            \* the bytes of the string, with its terminator
  value, other,   \* two views the caller keeps
  result,         \* the last call: its name, the views it was given, what it returned
  separator, cap, parts, count, start, written, status  \* the split, as in StrSplit

views == <<buf, value, other, result>>
split == <<separator, cap, parts, count, start, written, status>>
vars == <<views, split>>

\* str_empty_buf, a NUL of its own behind the buffer.
EmptyBuf == StringLen + 1
EmptyView == [ptr |-> EmptyBuf, len |-> 0]
NoCall == [call |-> "none", left |-> EmptyView, right |-> EmptyView, got |-> 0]

IsValid(v) == v.ptr # NULL \/ v.len = 0

Content(v) == IF IsValid(v) THEN [k \in 1..v.len |-> buf[v.ptr + k - 1]] ELSE <<>>

Splitting == INSTANCE StrSplit WITH source <- Content(value)

Init ==
  /\ buf \in {b \in [0..EmptyBuf -> Bytes] : b[StringLen] = Nul /\ b[EmptyBuf] = Nul}
  /\ value = EmptyView /\ other = EmptyView /\ result = NoCall
  /\ Splitting!Init
-----------------------------------------------------------------------------
(* Making views.                                                            *)

FromN(ptr, len) ==
  IF ptr = NULL /\ len = 0 THEN EmptyView ELSE [ptr |-> ptr, len |-> len]

\* strlen
Measure(ptr) == Min({i \in ptr..EmptyBuf : buf[i] = Nul}) - ptr

FromCString(ptr) == IF ptr = NULL THEN EmptyView ELSE FromN(ptr, Measure(ptr))

\* fault: the end of the span is computed, and may wrap
SpanEndsInside(len, idx, span) == (idx + span) % (SizeMax + 1) <= len

\* str_validate_span
SpanInside(len, idx, span) == idx <= len /\ span <= len - idx

IsWhitespace(byte) == byte \in Whitespace

\* The views that are trimmed: valid ones.
Views == [ptr : 0..EmptyBuf, len : 0..SizeMax]

TrimLeft[v \in Views] ==
  IF v.len > 0 /\ IsWhitespace(buf[v.ptr])
  THEN TrimLeft[[ptr |-> v.ptr + 1, len |-> v.len - 1]] ELSE v

TrimRight[v \in Views] ==
  IF v.len > 0 /\ IsWhitespace(buf[v.ptr + v.len - 1])
  THEN TrimRight[[v EXCEPT !.len = @ - 1]] ELSE v

Trimmed(v) == IF ~IsValid(v) \/ v.len = 0 THEN EmptyView ELSE TrimRight[TrimLeft[v]]
-----------------------------------------------------------------------------
(* Comparing views.                                                         *)

\* memcmp: the difference of the first bytes that differ, or any number of its sign.
Memcmp(left, right, len) ==
  LET differ == {k \in 0..(len - 1) : buf[left + k] # buf[right + k]}
  IN IF differ = {} THEN 0 ELSE buf[left + Min(differ)] - buf[right + Min(differ)]

IsSpanEqual(left, right, len) == len = 0 \/ Memcmp(left, right, len) = 0

Order(n) == IF n < 0 THEN -1 ELSE IF n > 0 THEN 1 ELSE 0

CompareBytes(left, right, len) == IF len = 0 THEN 0 ELSE Order(Memcmp(left, right, len))
CompareLengths(left, right) == Order(left - right)

\* fault: the shorter view comes first whatever its bytes
CompareShortlex(left, right) ==
  IF left.len # right.len THEN CompareLengths(left.len, right.len)
  ELSE CompareBytes(left.ptr, right.ptr, left.len)

CompareValid(left, right) ==
  LET common == CompareBytes(left.ptr, right.ptr, Min({left.len, right.len}))
  IN IF common # 0 THEN common ELSE CompareLengths(left.len, right.len)

IsContentEqual(left, right) ==
  left.len = right.len /\ IsSpanEqual(left.ptr, right.ptr, left.len)

HasPrefix(v, prefix) ==
  prefix.len <= v.len /\ IsSpanEqual(v.ptr, prefix.ptr, prefix.len)

HasSuffix(v, suffix) ==
  /\ suffix.len <= v.len
  /\ suffix.len = 0 \/ IsSpanEqual(v.ptr + (v.len - suffix.len), suffix.ptr, suffix.len)

Holds(call, left, right) ==
  CASE call = "equals" -> IsContentEqual(left, right)
    [] call = "prefix" -> HasPrefix(left, right)
    [] call = "suffix" -> HasSuffix(left, right)

BothValid(left, right) == IsValid(left) /\ IsValid(right)
-----------------------------------------------------------------------------
(* The calls.                                                               *)

Return(call, left, right, got) ==
  /\ result' = [call |-> call, left |-> left, right |-> right, got |-> got]
  /\ UNCHANGED <<buf, value, other>>

\* str_view_from_n and str_view_from_cstr, of bytes that can be read.
ViewFromN(ptr, len) ==
  /\ ptr # NULL => ptr + len <= EmptyBuf + 1
  /\ other' = FromN(ptr, len) /\ result' = NoCall
  /\ UNCHANGED <<buf, value>>

ViewFromCString(ptr) ==
  /\ other' = FromCString(ptr) /\ result' = NoCall
  /\ UNCHANGED <<buf, value>>

\* str_view is the slice of the whole string.
Slice(offset, len) ==
  /\ value' = IF SpanInside(StringLen, offset, len) THEN [ptr |-> offset, len |-> len] ELSE value
  /\ result' = [call |-> "slice", left |-> [ptr |-> offset, len |-> len], right |-> value,
                got |-> IF SpanInside(StringLen, offset, len) THEN "OK" ELSE "ERR_RANGE"]
  /\ UNCHANGED <<buf, other>>

Trim(v) ==
  /\ value' = Trimmed(v)
  /\ result' = [call |-> "trim", left |-> v, right |-> other, got |-> 0]
  /\ UNCHANGED <<buf, other>>

\* str_view_equals, str_view_starts_with, str_view_ends_with
Ask(call) ==
  Return(call, value, other, BothValid(value, other) /\ Holds(call, value, other))

\* What str_make_view makes of the string, and of one without a buffer.
StringViews == {[ptr |-> 0, len |-> StringLen], EmptyView}

\* The caller has no C string: as good as an invalid view.
Missing == [ptr |-> NULL, len |-> 1]

\* str_equals_cstr, str_starts_with, str_ends_with, of the C string at other.ptr.
AskString(call) ==
  LET string == FromCString(other.ptr)
  IN \E left \in StringViews :
       IF other.ptr = NULL THEN Return(call, left, Missing, FALSE)
       ELSE Return(call, left, string, Holds(call, left, string))

\* str_view_compare
Compare ==
  Return("compare", value, other,
         IF BothValid(value, other) THEN CompareValid(value, other) ELSE "ERR_ARG")

Calls == {"equals", "prefix", "suffix"}

ViewCall ==
  \/ \E ptr \in 0..EmptyBuf \cup {NULL}, len \in 0..SizeMax : ViewFromN(ptr, len)
  \/ \E ptr \in 0..EmptyBuf \cup {NULL} : ViewFromCString(ptr)
  \/ \E offset, len \in 0..SizeMax : Slice(offset, len)
  \/ Trim(value) \/ Trim(other)
  \/ \E call \in Calls : Ask(call) \/ AskString(call)
  \/ Compare

\* The caller splits a view it has, and uses no other afterwards; what the call before
\* returned makes no difference, so one such state is enough.
SplitView(v, byte, n) ==
  /\ result = NoCall
  /\ value' = v /\ other' = EmptyView /\ result' = NoCall /\ UNCHANGED buf
  /\ Splitting!Call(byte, n, IsValid(v))

Next ==
  \/ status = "none" /\ ViewCall /\ UNCHANGED split
  \/ \E v \in {value, other}, byte \in Bytes, n \in 0..MaxCap : SplitView(v, byte, n)
  \/ UNCHANGED views /\ Splitting!Step

Spec == Init /\ [][Next]_vars
-----------------------------------------------------------------------------
(* Properties.                                                              *)

\* Lexical order of byte strings, a proper prefix first.
Before(s, t) ==
  \E k \in 0..Len(s) :
    /\ k <= Len(t) /\ SubSeq(s, 1, k) = SubSeq(t, 1, k)
    /\ IF k = Len(s) THEN k < Len(t) ELSE k < Len(t) /\ s[k + 1] < t[k + 1]

\* What str.h says of each answer, on the contents of the views alone.
Expected(call, s, t) ==
  CASE call = "equals"  -> s = t
    [] call = "prefix"  -> IsPrefix(t, s)
    [] call = "suffix"  -> IsSuffix(t, s)
    [] call = "compare" -> IF Before(s, t) THEN -1 ELSE IF s = t THEN 0 ELSE 1

\* The answer depends on the bytes of the views only, not on where they lie, overlap
\* or end; an invalid view is refused without being read.
AnswersExact ==
  result.call \in Calls \cup {"compare"} =>
    IF BothValid(result.left, result.right)
    THEN result.got = Expected(result.call, Content(result.left), Content(result.right))
    ELSE result.got = IF result.call = "compare" THEN "ERR_ARG" ELSE FALSE

\* A slice is refused exactly when it would end behind the string, for every offset and
\* length a size_t holds; a trim keeps the bytes from the first to the last that is no
\* whitespace, and an invalid or blank view becomes an empty one.
SubviewsExact ==
  /\ result.call = "slice" =>
       IF result.left.ptr + result.left.len <= StringLen
       THEN result.got = "OK" /\ value = result.left
       ELSE result.got = "ERR_RANGE" /\ value = result.right
  /\ result.call = "trim" =>
       LET v    == result.left
           kept == IF IsValid(v) THEN {k \in 0..(v.len - 1) : buf[v.ptr + k] \notin Whitespace}
                   ELSE {}
       IN IF kept = {} THEN value.len = 0 /\ IsValid(value)
          ELSE value = [ptr |-> v.ptr + Min(kept), len |-> Max(kept) - Min(kept) + 1]

\* StrSplit!SplitExact of every view the calls above can make.
SplitExact == Splitting!SplitExact
=============================================================================
