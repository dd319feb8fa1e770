------------------------------ MODULE StrApi ------------------------------
(***************************************************************************)
(* What a caller of agenc-str sees: the status codes, the byte spans it     *)
(* may pass, and the record of one call.  StrValue says what a call         *)
(* promises, StrBuffer what the code does; both speak of these.             *)
(***************************************************************************)
EXTENDS Integers, Sequences, FiniteSets

CONSTANTS
  Strings,        \* the str_t objects of the caller
  Bytes,          \* the values of a char
  Nul,            \* '\0'
  SizeMax,        \* SIZE_MAX
  CallerSpans,    \* byte spans outside every str_t
  NoString        \* a NULL str_t pointer

ASSUME StrApiAssumption ==
  /\ Nul \in Bytes
  /\ SizeMax \in Nat \ {0}
  /\ CallerSpans \subseteq Seq(Bytes)
  /\ \A w \in CallerSpans : Len(w) < SizeMax
  /\ NoString \notin Strings

Errors == {"ERR_ARG", "ERR_RANGE", "ERR_ALLOC", "ERR_OVERFLOW", "ERR_FMT"}
Statuses == {"OK"} \cup Errors

(* A borrowed span: a NULL pointer, bytes of the caller's own, or n bytes    *)
(* from offset off of the storage of the string it is passed to.             *)
NullSpan(n)     == [at |-> "null", off |-> 0, n |-> n, bytes |-> <<>>]
CallerSpan(w)   == [at |-> "caller", off |-> 0, n |-> Len(w), bytes |-> w]
SelfSpan(o, n)  == [at |-> "self", off |-> o, n |-> n, bytes |-> <<>>]

\* A call and what it returned.  x is the string it is made on, y the source
\* string, idx and k indexes and lengths, span the borrowed bytes, fill the
\* byte of an append_char or a resize, text what an append_fmt renders and how
\* the rendering ends, out the bytes handed to the caller.
Call(op, x) ==
  [op |-> op, x |-> x, y |-> NoString, idx |-> 0, k |-> 0, span |-> NullSpan(0),
   fill |-> Nul, text |-> <<>>, how |-> "renders", out |-> <<>>, ret |-> "OK"]

\* The operations that keep a sticky status: each returns it before anything else.
Mutators == {"copy", "set", "set_n", "append", "append_n", "append_char", "append_fmt",
             "reserve", "shrink_to_fit", "resize", "insert_n", "remove", "replace_view"}

\* The bytes before the first NUL of w.
UpToNul(w) == LET stops == {i \in 1..Len(w) : w[i] = Nul}
              IN IF stops = {} THEN w
                 ELSE SubSeq(w, 1, (CHOOSE i \in stops : \A j \in stops : i <= j) - 1)
=============================================================================
