-------------------------------- MODULE MCStr --------------------------------
EXTENDS StrBuffer, TLC

CONSTANTS a

\* Embedded NULs, an empty span, spans that fit and that overflow.
MCSpans == {<<>>, <<a>>, <<Nul, a>>, <<a, a, Nul>>}
MCOneSpan == {<<a>>}
MCBytes == {Nul, a}

\* States that differ in less than this have the same successors but for the
\* names of blocks: the last call is looked at by the properties of a step only,
\* an address is compared with others and never computed with, and the bytes of
\* a detached block are read by no call.  A leaked, shared or freed block shows
\* in the number of blocks or in the bytes.
MCView ==
  <<[x \in Strings |-> <<str[x].len, str[x].cap, str[x].status, str[x].buf = NULL,
                         Load(heap, At(str[x].buf, 0), str[x].cap)>>],
    Cardinality(detached), Cardinality(DOMAIN heap)>>

\* Two strings: the calls that relate them, and of the mutators of one string
\* those that reach every content, capacity, move, staging and kind of failure.
PairNext ==
  \/ \E x \in Strings :
       \/ Deinit(x) \/ Clear(x) \/ ClearError(x) \/ Detach(x) \/ ShrinkToFit(x)
       \/ \E y \in Strings \cup {NoString} : Move(x, y) \/ Copy(x, y)
       \/ \E span \in Spans(x) : AppendN(x, span)
       \/ \E byte \in Bytes : AppendChar(x, byte)
       \/ \E n \in 0..SizeMax : Reserve(x, n)
       \/ \E span \in Spans(x) : ReplaceView(x, 0, str[x].len, span)
  \/ \E b \in detached : FreeDetached(b)

PairSpec == Init /\ [][PairNext]_vars

MCSymmetry == Permutations(Strings)
=============================================================================
