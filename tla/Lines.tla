------------------------------- MODULE Lines --------------------------------
(***************************************************************************)
(* How a text is split into lines (Screen/detail/splitIntoLines.cpp) after *)
(* PrintableStringConverter has written what cannot be printed as escape   *)
(* sequences.  A text is a sequence of characters.                         *)
(***************************************************************************)
EXTENDS Integers, SequencesExt

Escape == "\\"

\* hasEscaped(): whether the text from position it on starts with this sequence.
HasEscaped(c, text, it) == it < Len(text) /\ text[it] = Escape /\ text[it + 1] = c

\* A line end is one of these sequences, or both of them in one order or the other.
Cr == "n"
Lf == "r"
IsLineEnd(text, it) == HasEscaped(Cr, text, it) \/ HasEscaped(Lf, text, it)

\* endOfEscapeSequenceBlock(), findEndOfEscapeSequence(): the first position after.
EndOfBlock(text, it) ==
    CASE HasEscaped(Cr, text, it) -> IF HasEscaped(Lf, text, it + 2) THEN it + 4 ELSE it + 2
      [] HasEscaped(Lf, text, it) -> IF HasEscaped(Cr, text, it + 2) THEN it + 4 ELSE it + 2
      [] HasEscaped("x", text, it) -> it + 4
      [] OTHER -> it + 2

\* The loop of findNextLineBreak(). limit: the first position that does not fit;
\* good: behind the last blank or escape sequence so far.
RECURSIVE Scan(_, _, _, _, _)
Scan(text, begin, limit, it, good) ==
    CASE it > Len(text) -> it
      [] it <= Len(text) /\ it >= limit -> IF good # begin THEN good ELSE it
      [] it <= Len(text) /\ it < limit /\ text[it] = " " -> Scan(text, begin, limit, it + 1, it + 1)
      [] it <= Len(text) /\ it < limit /\ text[it] = Escape ->
            LET end == EndOfBlock(text, it)
            IN  CASE limit < end -> it
                  [] limit >= end /\ IsLineEnd(text, it) -> end
                  [] OTHER -> Scan(text, begin, limit, end, end)
      [] OTHER -> Scan(text, begin, limit, it + 1, good)

LineBreak(text, begin, columns) ==
    LET rest == Len(text) + 1 - begin
    IN  Scan(text, begin, IF rest >= columns THEN begin + columns ELSE Len(text) + 1, begin, begin)

MinColumns == 4     \* an escape sequence has up to four characters

RECURSIVE LinesFrom(_, _, _)
LinesFrom(text, begin, columns) ==
    IF begin > Len(text) THEN <<>>
    ELSE LET next == LineBreak(text, begin, columns)
         IN  <<SubSeq(text, begin, next - 1)>> \o LinesFrom(text, next, columns)

SplitIntoLines(text, available) ==
    LinesFrom(text, 1, IF available > MinColumns THEN available ELSE MinColumns)

-----------------------------------------------------------------------------
(* Properties.                                                             *)

\* The texts PrintableStringConverter makes: a backslash starts a sequence.
Sequences(pieces, n) == {FlattenSeq(s) : s \in UNION {[1 .. k -> pieces] : k \in 0 .. n}}

Pieces == {<<"a">>, <<"n">>, <<" ">>, <<Escape, Escape>>, <<Escape, Cr>>, <<Escape, Lf>>,
           <<Escape, "x", "0", "7">>}

\* Every line has a character and fits, so that splitting comes to an end; together
\* they are the text; and no escape sequence is torn apart, as each line could have
\* been written by PrintableStringConverter on its own.
SplitRight(texts, written) ==
    \A text \in texts, available \in 1 .. 6 :
        LET lines   == SplitIntoLines(text, available)
            columns == IF available > 4 THEN available ELSE 4
        IN  /\ FlattenSeq(lines) = text
            /\ \A i \in DOMAIN lines :
                  /\ lines[i] # <<>> /\ Len(lines[i]) <= columns
                  /\ lines[i] \in written

=============================================================================
