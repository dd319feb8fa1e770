----------------------------- MODULE StrValue -----------------------------
(***************************************************************************)
(* The promise of str.h: a string is a byte sequence with a sticky status,  *)
(* and a mutator replaces the sequence by the one its name says or leaves   *)
(* it alone and records why.  StrBuffer implements this over heap blocks.   *)
(***************************************************************************)
EXTENDS StrApi

VARIABLES
  val,        \* [Strings -> Seq(Bytes)], the content
  status,     \* [Strings -> Statuses], the sticky status
  call        \* the last call

vars == <<val, status, call>>

SpanBytes(v, span) ==
  IF span.at = "self" THEN SubSeq(Append(v, Nul), span.off + 1, span.off + span.n)
  ELSE span.bytes

CString(v, span) ==
  UpToNul(IF span.at = "self" THEN SubSeq(v, span.off + 1, Len(v)) ELSE span.bytes)

\* v with k bytes from idx replaced by w.
Spliced(v, idx, k, w) ==
  SubSeq(v, 1, idx) \o w \o SubSeq(v, idx + k + 1, Len(v))

Result(v, c) ==
  CASE c.op = "copy"         -> IF c.y = NoString THEN <<>> ELSE val[c.y]
    [] c.op = "set"          -> CString(v, c.span)
    [] c.op = "set_n"        -> SpanBytes(v, c.span)
    [] c.op = "append"       -> v \o CString(v, c.span)
    [] c.op = "append_n"     -> v \o SpanBytes(v, c.span)
    [] c.op = "append_char"  -> Append(v, c.fill)
    [] c.op = "append_fmt"   -> v \o c.text
    [] c.op = "insert_n"     -> Spliced(v, c.idx, 0, SpanBytes(v, c.span))
    [] c.op = "remove"       -> Spliced(v, c.idx, c.k, <<>>)
    [] c.op = "replace_view" -> Spliced(v, c.idx, c.k, SpanBytes(v, c.span))
    [] c.op = "resize"       -> [i \in 1..c.k |-> IF i <= Len(v) THEN v[i] ELSE c.fill]
    [] OTHER                 -> v

\* The content length a request asks for, whatever its span is worth.
RequestedLen(v, c) ==
  CASE c.op = "set_n"               -> c.span.n
    [] c.op = "reserve"             -> c.k
    [] c.op \in {"append_n", "insert_n"} -> Len(v) + c.span.n
    [] c.op = "replace_view"        -> Len(v) - c.k + c.span.n
    [] OTHER                        -> Len(Result(v, c))

TakesSpan    == {"set_n", "append_n", "insert_n", "replace_view"}
TakesCString == {"set", "append", "append_fmt"}

BadArgument(v, c) ==
  \/ c.op = "copy" /\ c.y = NoString
  \/ c.op \in TakesSpan /\ c.span.n > 0 /\ c.span.at = "null"
  \/ c.op \in TakesSpan /\ c.span.at = "self" /\ c.span.off + c.span.n > Len(v) + 1
  \/ c.op \in TakesCString /\ c.span.at = "null"
  \/ c.op \in TakesCString /\ c.span.at = "self" /\ c.span.off > Len(v)

BadRange(v, c) ==
  \/ c.op = "insert_n" /\ c.idx > Len(v)
  \/ c.op \in {"remove", "replace_view"} /\ c.idx + c.k > Len(v)

TooLong(v, c) == ~BadRange(v, c) /\ RequestedLen(v, c) + 1 > SizeMax

Faults(v, c) ==
  (IF BadArgument(v, c) THEN {"ERR_ARG"} ELSE {})
    \cup (IF BadRange(v, c) THEN {"ERR_RANGE"} ELSE {})
    \cup (IF c.op \notin TakesSpan /\ BadArgument(v, c) THEN {}
          ELSE IF TooLong(v, c) THEN {"ERR_OVERFLOW"} ELSE {})
    \cup (IF c.how # "renders" THEN {"ERR_FMT"} ELSE {})

\* An append_fmt renders into memory of its own before it asks for room.
MayLackMemory(v, c) ==
  c.op # "remove" /\ (Faults(v, c) = {} \/ c.op = "append_fmt")
-----------------------------------------------------------------------------
Init ==
  /\ val = [x \in Strings |-> <<>>]
  /\ status = [x \in Strings |-> "OK"]
  /\ call = Call("init", NoString)

Mutate(c) ==
  /\ c.op \in Mutators
  /\ \/ \* An earlier failure is still recorded.
        status[c.x] # "OK" /\ c.ret = status[c.x] /\ UNCHANGED <<val, status>>
     \/ /\ status[c.x] = "OK" /\ c.ret = "OK" /\ Faults(val[c.x], c) = {}
        /\ val' = [val EXCEPT ![c.x] = Result(val[c.x], c)]
        /\ UNCHANGED status
     \/ /\ status[c.x] = "OK" /\ c.ret # "OK"
        /\ \/ c.ret \in Faults(val[c.x], c)
           \/ c.ret = "ERR_ALLOC" /\ MayLackMemory(val[c.x], c)
        /\ status' = [status EXCEPT ![c.x] = c.ret]
        /\ UNCHANGED val

\* deinit and clear empty a string, whatever its status.
Empty(c) ==
  /\ c.op \in {"deinit", "clear"}
  /\ val' = [val EXCEPT ![c.x] = <<>>]
  /\ status' = [status EXCEPT ![c.x] = "OK"]

ClearError(c) ==
  /\ c.op = "clear_error"
  /\ status' = [status EXCEPT ![c.x] = "OK"]
  /\ UNCHANGED val

Move(c) ==
  /\ c.op = "move"
  /\ IF c.y \in {NoString, c.x} THEN UNCHANGED <<val, status>>
     ELSE /\ val' = [val EXCEPT ![c.x] = val[c.y], ![c.y] = <<>>]
          /\ status' = [status EXCEPT ![c.x] = status[c.y], ![c.y] = "OK"]

\* The content leaves with the caller, and a recorded failure is forgotten;
\* only an empty string may lack the memory for its terminator.
Detach(c) ==
  /\ c.op = "detach"
  /\ \/ /\ c.ret = "OK" /\ c.out = val[c.x]
        /\ val' = [val EXCEPT ![c.x] = <<>>]
        /\ status' = [status EXCEPT ![c.x] = "OK"]
     \/ /\ c.ret = "ERR_ALLOC" /\ val[c.x] = <<>>
        /\ status' = [status EXCEPT ![c.x] = "ERR_ALLOC"]
        /\ UNCHANGED val

Free(c) == c.op = "free" /\ UNCHANGED <<val, status>>

Next ==
  LET c == call'
  IN Mutate(c) \/ Empty(c) \/ ClearError(c) \/ Move(c) \/ Detach(c) \/ Free(c)

Spec == Init /\ [][Next]_vars
=============================================================================
