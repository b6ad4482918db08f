------------------------------ MODULE KeyOrder ------------------------------
(***************************************************************************)
(* How keys are compared (Log.hpp, Log::Key::starshipOperator()), and what *)
(* keys are made of a time (Tree/KeyExtractor.cpp, fromUnixTs()).  A key   *)
(* is a text and the number of its log; a text is a sequence of integers,  *)
(* the codes of its characters.                                            *)
(***************************************************************************)
EXTENDS Integers, Sequences

CONSTANT Units      \* Units[f]: how many units of the format f a second has

Precise == Units["UNIX_ns"]

ASSUME UnitsAssumption ==
    /\ "UNIX_ns" \in DOMAIN Units
    /\ \A f \in DOMAIN Units : Units[f] \in Nat \ {0} /\ Precise % Units[f] = 0

Key(text, sequenceNumber) == [text |-> text, sequenceNumber |-> sequenceNumber]

CompareNumbers(l, r) == IF l < r THEN -1 ELSE IF l > r THEN 1 ELSE 0

\* Where two texts differ, as far as the shorter one goes.
Apart(l, r) == {i \in 1 .. (IF Len(l) < Len(r) THEN Len(l) ELSE Len(r)) : l[i] # r[i]}

FirstApart(l, r) == CHOOSE i \in Apart(l, r) : \A j \in Apart(l, r) : i <= j

CompareTexts(l, r) ==
    IF Apart(l, r) = {} THEN CompareNumbers(Len(l), Len(r))
    ELSE CompareNumbers(l[FirstApart(l, r)], r[FirstApart(l, r)])

\* starshipOperator() of keys. Keys with the same number are those of one log.
Compare(l, r) ==
    IF l.sequenceNumber = r.sequenceNumber THEN 0
    ELSE IF CompareTexts(l.text, r.text) # 0 THEN CompareTexts(l.text, r.text)
    ELSE CompareNumbers(l.sequenceNumber, r.sequenceNumber)

-----------------------------------------------------------------------------
(* A date is a text of two parts: the day and time of a second, and what   *)
(* is printed after the dot.  Each part is as long in all dates of the     *)
(* years 0 to 9999 without a fraction below zero, so that it counts as one *)
(* character; a fraction below zero has a minus sign, and is no such text. *)
(* Of later years, which have a digit more, nothing is said here.          *)

\* C++ division: the quotient is cut, the rest has the sign of the dividend.
Quotient(n, div)  == IF n >= 0 THEN n \div div ELSE -((-n) \div div)
Remainder(n, div) == n - div * Quotient(n, div)

\* fromUnixTs()
FromUnixTs(ts, div) == <<Quotient(ts, div), Remainder(ts, div) * (Precise \div div)>>

=============================================================================
