----------------------------- MODULE StrSplit -----------------------------
(***************************************************************************)
(* str_split_view of agenc-str: one iteration of its loop per action.  The   *)
(* caller gives an array of cap views; all parts are counted, those that fit *)
(* are stored.  The view belongs to the caller, who keeps it meanwhile.      *)
(***************************************************************************)
EXTENDS Integers, Sequences, FiniteSetsExt

CONSTANT SizeMax  \* SIZE_MAX, also the length of the longest view

VARIABLES
  source,         \* the bytes of the view
  separator,
  cap,            \* split_output->cap
  parts,          \* split_output->parts, from 0: [ptr, len], or the caller's Unset
  count,          \* the local counter, a size_t
  start,          \* where the next part starts; cursor.idx is the same
  written,        \* split_output->count, or Unset
  status          \* "none", "running", or what the call returned

Unset == [ptr |-> -1, len |-> 0]
ByteAt(v, i) == v[i + 1]

Init ==
  /\ separator = -1 /\ cap = 0 /\ parts = <<>> /\ written = Unset
  /\ count = 0 /\ start = 0 /\ status = "none"

\* str_split_view, of an array of n views; valid is what str_validate_split_arguments says.
Call(byte, n, valid) ==
  /\ status = "none"
  /\ separator' = byte /\ cap' = n /\ parts' = [i \in 0..(n - 1) |-> Unset]
  /\ status' = IF valid THEN "running" ELSE "ERR_ARG"
  /\ UNCHANGED <<count, start, written>>

\* fault: the limit is not looked for
NeverTooMany == FALSE

\* SIZE_MAX separators would make one part more than a size_t can count.
AllSeparators ==
  Len(source) = SizeMax /\ \A i \in 0..(SizeMax - 1) : ByteAt(source, i) = separator

RefuseOverflow ==
  /\ status = "running" /\ count = 0 /\ AllSeparators
  /\ status' = "ERR_OVERFLOW"
  /\ UNCHANGED <<source, separator, cap, parts, count, start, written>>

Separators == {i \in start..(Len(source) - 1) : ByteAt(source, i) = separator}

\* str_store_split_part
StorePart(len) ==
  parts' = IF count < cap THEN [parts EXCEPT ![count] = [ptr |-> start, len |-> len]] ELSE parts

Counted(n) == (n + 1) % (SizeMax + 1)

CutAtSeparator ==
  /\ status = "running" /\ ~AllSeparators /\ Separators # {}
  /\ StorePart(Min(Separators) - start)
  /\ count' = Counted(count)
  /\ start' = Min(Separators) + 1
  /\ UNCHANGED <<source, separator, cap, written, status>>

\* What follows the last separator is a part too, even when empty.
LastPart ==
  /\ status = "running" /\ ~AllSeparators /\ Separators = {}
  /\ StorePart(Len(source) - start)
  /\ count' = Counted(count)
  /\ written' = count' /\ status' = "OK"
  /\ UNCHANGED <<source, separator, cap, start>>

Step == RefuseOverflow \/ CutAtSeparator \/ LastPart
-----------------------------------------------------------------------------
(* Properties.                                                              *)

\* Part i of the split: between the i-th separator (from 1) and the next.
PartEnds == {i \in 0..(Len(source) - 1) : ByteAt(source, i) = separator} \cup {Len(source)}
EndOf(i) == CHOOSE e \in PartEnds : Cardinality({f \in PartEnds : f < e}) = i
Part(i) == LET from == IF i = 0 THEN 0 ELSE EndOf(i - 1) + 1
           IN [ptr |-> from, len |-> EndOf(i) - from]

\* A successful split: count is the full number of parts, truncated array or not,
\* the array holds the first of them in order, and nothing of the source is lost
\* but the separators.  A refused one has written nothing, and a valid one is refused
\* only when a size_t does not hold the number of parts.
SplitExact ==
  /\ status = "OK" =>
       /\ written = Cardinality(PartEnds)
       /\ \A i \in 0..(cap - 1) :
            parts[i] = IF i < Cardinality(PartEnds) THEN Part(i) ELSE Unset
  /\ status = "ERR_OVERFLOW" => Cardinality(PartEnds) > SizeMax
  /\ status \notin {"running", "OK"} =>
       written = Unset /\ \A i \in 0..(cap - 1) : parts[i] = Unset
=============================================================================
