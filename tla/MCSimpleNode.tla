---------------------------- MODULE MCSimpleNode ----------------------------
(***************************************************************************)
(* One child, two threads that insert, three logs and chunks of two: the   *)
(* copy takes up to three chunks, and a log can arrive before, between and *)
(* behind what the copy has passed.                                        *)
(***************************************************************************)
EXTENDS SimpleNode

CONSTANT a

MCKeys == 1 .. 3
MCMatches == [c \in {a} |-> {1, 3}]

\* For two children: fewer logs and one thread.
CONSTANT b

FewKeys == 1 .. 2
TwoMatch == [c \in {a, b} |-> IF c = a THEN {1, 2} ELSE {2}]

=============================================================================
