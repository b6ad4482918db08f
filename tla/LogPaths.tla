------------------------------ MODULE LogPaths ------------------------------
(***************************************************************************)
(* Paths into a log (Tree/Path.hpp) and what they find there               *)
(* (Utils/forEachMatch.hpp, Utils/matchesLog.cpp).                         *)
(*                                                                         *)
(* A JSON value is null, a leaf (known by the text value2str() makes of    *)
(* it), an object or an array.  A function that calls f on one value after *)
(* the other until f says stop is the set of those values: what is made of *)
(* it says only whether there is one, or gathers them all.                 *)
(***************************************************************************)
EXTENDS Integers, Sequences, Functions

CONSTANT MaxDepth   \* bound: no value is nested deeper in a log

ASSUME MaxDepthAssumption == MaxDepth \in Nat

Null      == [is |-> "null"]
Leaf(t)   == [is |-> "leaf", text |-> t]
Object(f) == [is |-> "object", fields |-> f]
Array(s)  == [is |-> "array", items |-> s]

\* Path::Entry.  An array without an index stands for all its items.
NoIndex == -1
Field(name)     == [name |-> name, isArray |-> FALSE, index |-> NoIndex]
AllOf(name)     == [name |-> name, isArray |-> TRUE, index |-> NoIndex]
ItemOf(name, i) == [name |-> name, isArray |-> TRUE, index |-> i]

Path(isAbsolute, entries) == [isAbsolute |-> isAbsolute, entries |-> entries]

-----------------------------------------------------------------------------
(* Utils/forEachMatch.hpp                                                  *)

\* findByName(): a field that is null counts as missing.
Has(node, entry) ==
    /\ node.is = "object" /\ entry.name \in DOMAIN node.fields
    /\ node.fields[entry.name] # Null

\* The loop of forEachMatchOne(): what an entry leads to. Only the last entry may
\* lead to an array without saying so.
Step(node, entry, isLast) ==
    IF ~Has(node, entry) THEN {}
    ELSE LET next == node.fields[entry.name]
         IN  IF ~entry.isArray THEN IF isLast \/ next.is # "array" THEN {next} ELSE {}
             ELSE IF next.is # "array" THEN {}
             ELSE IF entry.index = NoIndex THEN Range(next.items)
             ELSE IF entry.index < Len(next.items) THEN {next.items[entry.index + 1]}
             ELSE {}

\* What is reached from a node after each entry of a path.
Reached(node, entries) ==
    LET reached[n \in 0 .. Len(entries)] ==
            IF n = 0 THEN {node}
            ELSE UNION {Step(next, entries[n], n = Len(entries)) : next \in reached[n - 1]}
    IN  reached

\* handleEndOfPath()
MatchOne(node, entries) == Reached(node, entries)[Len(entries)] \ {Null}

\* The fields of a node, of those fields, and so on; not what is in arrays.
Fields(node) == IF node.is = "object" THEN Range(node.fields) ELSE {}

FieldsBelow(node) ==
    LET below[n \in 0 .. MaxDepth] ==
            IF n = 0 THEN {node} ELSE UNION {Fields(next) : next \in below[n - 1]}
    IN  below

\* forEachMatchRelative(): here, and in every object below.
MatchRelative(node, entries) ==
    UNION {MatchOne(next, entries) : next \in UNION Range(FieldsBelow(node))}

\* forEachMatch()
Match(root, path) ==
    IF path.entries = <<>> THEN IF path.isAbsolute THEN {root} ELSE {}
    ELSE IF path.isAbsolute THEN MatchOne(root, path.entries)
    ELSE MatchRelative(root, path.entries)

-----------------------------------------------------------------------------
(* Utils/matchesLog.cpp.  A regular expression is the set of the texts it  *)
(* is found in.                                                            *)

MatchesKey(root, path, re) ==
    \E node \in Match(root, path) : node.is = "object" /\ DOMAIN node.fields \cap re # {}

MatchesValue(root, path, re) ==
    \E node \in Match(root, path) : node.is = "leaf" /\ node.text \in re

\* allNodeValues(): leafs, and what dump() makes of objects and arrays; here a
\* value stands for its own text, as different values have different ones.
AllNodeValues(root, path) == Match(root, path) \ {Null}

\* The recursion of matchesAny*(): all there is in a log; nothing is below a null.
Parts(node) == Fields(node) \cup (IF node.is = "array" THEN Range(node.items) ELSE {})

Nodes(node) ==
    LET below[n \in 0 .. MaxDepth] ==
            IF n = 0 THEN {node} ELSE UNION {Parts(next) : next \in below[n - 1]}
    IN  UNION Range(below)

\* logMayContain(): the text that is looked for is first looked for in the log as
\* it came, where quotes, backslashes and control characters of a word are
\* escaped. found: the words the text is in; written: those it is in as written.
\* Left out are texts that also stand between the words of a log, like a colon.
Query(found, written) == [found |-> found, written |-> written]

LogMayContain(root, query) ==
    \E node \in Nodes(root) :
        \/ node.is = "object" /\ DOMAIN node.fields \cap query.written # {}
        \/ node.is = "leaf" /\ node.text \in query.written

MatchesAnyKey(root, query) ==
    /\ LogMayContain(root, query)
    /\ \E node \in Nodes(root) : node.is = "object" /\ DOMAIN node.fields \cap query.found # {}

MatchesAnyValue(root, query) ==
    /\ LogMayContain(root, query)
    /\ \E node \in Nodes(root) : node.is = "leaf" /\ node.text \in query.found

MatchesAnyKeyValue(root, key, value) ==
    /\ LogMayContain(root, key) /\ LogMayContain(root, value)
    /\ \E node \in Nodes(root) :
          /\ node.is = "object"
          /\ \E k \in DOMAIN node.fields \cap key.found :
                node.fields[k].is = "leaf" /\ node.fields[k].text \in value.found

\* allValues(): leafs only.
AllValues(root, path) == {node.text : node \in {n \in Match(root, path) : n.is = "leaf"}}

=============================================================================
