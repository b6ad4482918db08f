---------------------------- MODULE MCLogEntry -----------------------------
(* Three logs.  The first has the same name at two depths, and one that     *)
(* reads as an item of an array; the second an array of a text and an       *)
(* object, an array in an array, and a null; the third cannot be looked at  *)
(* in detail.                                                               *)
EXTENDS FilterTests, KeyTests, TextTests, SelectorTests

NamesOrder == <<"a", "a[1]", "b", "d.d">>
AllWords   == {"a", "a[1]", "b", "x", "X", "tab", "shown"}
LowerCase  == [w \in AllWords |-> IF w = "X" THEN "x" ELSE w]

\* As Path::Entry parses it (PathTexts).
WithBrackets == "a[1]" :> ItemOf("a", 1)

ASSUME BracketsParsed == WithBrackets["a[1]"] = Entry(<<"a", "[", "1", "]">>)

JSON1 == Object("a" :> Leaf("x") @@ "a[1]" :> Leaf("b") @@ "b" :> Object("a" :> Leaf("tab")))
JSON2 == Object("a" :> Array(<<Leaf("X"), Object("a" :> Leaf("x")), Array(<<Leaf("b")>>)>>)
                @@ "b" :> Null)
JSON3 == Object("d.d" :> Leaf("x"))

Log1 == [key |-> 1, json |-> JSON1]
Log2 == [key |-> 2, json |-> JSON2]
Log3 == [key |-> 3, json |-> JSON3]

AllLogs == {Log1, Log2, Log3}

\* The pool copies what was there, and one log comes both ways.
PoolAndPump == [pool |-> {Log1, Log2}, pump |-> {Log2, Log3}]

LeftOut == <<Path(FALSE, <<Field("b")>>)>>

AsTyped == [Name  |-> {},
            Path  |-> {Refused, Path(FALSE, <<Field("a")>>), Path(TRUE, <<AllOf("a")>>)},
            regex |-> {Refused, {"x"}},
            Edge  |-> {Refused, 2},
            Trim  |-> {Refused, <<Path(FALSE, <<Field("a")>>)>>}]
============================================================================
