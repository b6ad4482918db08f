---------------------------- MODULE KeyExtractor ----------------------------
(***************************************************************************)
(* The key of a log (Tree/KeyExtractor.cpp): the value a path leads to, as *)
(* it is or made into a date and time (KeyOrder).  A number is counted in  *)
(* units of which a second has Units[format]; a double is what it is in    *)
(* the smallest unit.  A leaf is known by its text, and by the kinds of    *)
(* number the text is.                                                     *)
(***************************************************************************)
EXTENDS PathTexts, KeyOrder

CONSTANTS
    Int64,      \* Int64[w]: the number toOptInt() makes of a text w, if it does
    Double,     \* Double[w]: the same of toOptFloat(), in the units of a second
    Quoted,     \* the texts that are strings of JSON; other leafs are numbers
    Floats,     \* the texts that are floating point numbers of JSON
    Iso         \* the texts as long as a date and time

Formats == {"Raw", "ISO8601_ns", "UNIX_float"} \cup DOMAIN Units

\* The constructor. Its check of arrays looks at what the path was before it was
\* moved away, and finds nothing.
InvalidKeyPath(path) == path.entries = <<>> \/ ~path.isAbsolute \/ ~IsUnique(path)

\* getKeyNode(): indexes are not looked at; a null is a value here.
RECURSIVE KeyNodes(_, _)
KeyNodes(node, entries) ==
    IF entries = <<>> THEN {node}
    ELSE IF node.is = "object" /\ Head(entries).name \in DOMAIN node.fields
         THEN KeyNodes(node.fields[Head(entries).name], Tail(entries))
    ELSE {}

Text(t)  == [is |-> "text", text |-> t]
NotFound == Text("<< key not found >>")
Invalid  == Text("<< invalid key >>")

Date(ts, div) == [is |-> "date", text |-> FromUnixTs(ts, div)]

KeyAny(nodes) ==
    IF nodes = {} THEN NotFound
    ELSE LET node == CHOOSE n \in nodes : TRUE
         IN  IF node.is = "leaf" THEN Text(node.text) ELSE Invalid

KeyIso(nodes) ==
    IF nodes = {} THEN Invalid      \* "<< key not found >>" is not as long as a date
    ELSE LET node == CHOOSE n \in nodes : TRUE
         IN  IF node.is = "leaf" /\ node.text \in Quoted \cap Iso THEN Text(node.text) ELSE Invalid

\* getKeyInt(), getKeyFloat()
KeyNumbers(nodes, known) == {known[n.text] : n \in {m \in nodes : m.is = "leaf" /\ m.text \in DOMAIN known}}

WholeNumbers == [w \in DOMAIN Int64 \ Floats |-> Int64[w]]

FromNumber(numbers, div) ==
    IF numbers = {} THEN Invalid ELSE Date(CHOOSE n \in numbers : TRUE, div)

\* operator()
KeyOf(json, path, format) ==
    LET nodes == KeyNodes(json, path.entries)
    IN  CASE format = "Raw"        -> KeyAny(nodes)
          [] format = "ISO8601_ns" -> KeyIso(nodes)
          [] format = "UNIX_float" -> FromNumber(KeyNumbers(nodes, Double), Precise)
          [] OTHER                 -> FromNumber(KeyNumbers(nodes, WholeNumbers), Units[format])

=============================================================================
