--------------------------- MODULE SelectorTests ----------------------------
(***************************************************************************)
(* The unit tests of the selector of JSONs (Json/Selector.ut.cpp), without *)
(* those that are compiled out: they are of a parser that knows more.      *)
(***************************************************************************)
EXTENDS Sequences, TLC

LOCAL INSTANCE SequencesExt

S == INSTANCE Selector

Kind(c) == CASE c = "\"" -> "quote"
             [] c = "\\" -> "backslash"
             [] c \in {" ", "\t"} -> "blank"
             [] c \in {"\n", "\r"} -> S!NewLine
             [] c \in {"{", "}", "[", "]"} -> c
             [] OTHER -> "x"

Read(text) == [i \in 1 .. Len(text) |-> Kind(SubSeq(text, i, i))]

\* The fixture: update() of every character of a text, which does not throw.
Updated(hardBreak, s, text) ==
    LET step(t, c) == IF S!Throws(hardBreak, t, c) THEN Assert(FALSE, text) ELSE S!Update(hardBreak, t, c)
    IN  FoldLeft(step, s, Read(text))

Fed(text) == Updated(FALSE, S!Start, text)
FedNls(text) == Updated(TRUE, S!Start, text)

Complete(s, text) == S!JsonComplete(s) /\ s.buffer = Read(text) /\ ~S!EosThrows(s)
Unfinished(s, text) == ~S!JsonComplete(s) /\ s.buffer = Read(text)

SelectsNothing ==
    \A text \in {"", " ", "\t", "\r", "\n", " \t\r\n"} :
        Unfinished(Fed(text), "") /\ ~S!EosThrows(Fed(text))

SelectsStrings ==
    /\ Fed("\"").buffer = Read("\"")
    /\ Complete(Fed("\"foo bar\""), "\"foo bar\"")
    /\ Complete(Fed("\"foo \\\"\\r\\n bar\""), "\"foo \\\"\\r\\n bar\"")

SelectsWords ==
    /\ \A text \in {"true", "false", "null", "42"} : Complete(Fed(text), text)
    /\ \A sign \in {"", "-"}, front \in {"0", "123", "10"}, dot \in {"", "."}, back \in {"", "0", "01", "12345"},
          exp \in {"e", "E"}, expSign \in {"", "-", "+"}, expDig \in {"0", "1", "6789"} :
          LET n == sign \o front \o dot \o back \o exp \o expSign \o expDig
          IN  Complete(Fed(n), n)
    /\ Unfinished(Fed("\"xx"), "\"xx") /\ S!EosThrows(Fed("\"xx"))

SelectsObjects ==
    /\ Complete(Fed("{}"), "{}") /\ Complete(Fed("\t\r\n {\r\t\n } \r\t\n"), "{}")
    /\ Complete(Fed("{  \"foo\"   :  \"b a r\"  }"), "{\"foo\":\"b a r\"}")
    /\ \A value \in {"4.2", "true", "false", "null"} :
          Complete(Fed("{  \"foo\"   :  " \o value \o "  }"), "{\"foo\":" \o value \o "}")
    /\ Complete(Fed("{ \"foo\" : \"b a a r\"  , \"answer\": 42 }"), "{\"foo\":\"b a a r\",\"answer\":42}")
    /\ Complete(Fed("{ \"xx\":false,\"foo\" : \"b a a r\"  , \"answer\": 42 }"),
                "{\"xx\":false,\"foo\":\"b a a r\",\"answer\":42}")

SelectsNoHalfs ==
    /\ Unfinished(Fed("{"), "{") /\ S!EosThrows(Fed("{"))
    /\ Unfinished(Fed(" [ "), "[") /\ S!EosThrows(Fed(" [ "))
    /\ Unfinished(Fed(" [ false , "), "[false,")

SelectsArrays ==
    /\ Complete(Fed("[]"), "[]") /\ Complete(Fed(" \t\r\n[ \t\r\n] \r\n\t"), "[]")
    /\ \A text \in {"[\"foo bar\"]", "[42.666]", "[true]", "[false]", "[false,true,\"narf\"]"} :
          Complete(Fed(text), text)
    /\ Complete(Fed(" [ false , true\r\t \n, \r\t\n \"narf\" ] "), "[false,true,\"narf\"]")

NestedJson      == "[ 42, { \"raspberry\": 3.14 }, { \"true\": false } ]"
NestedJsonRead  == "[42,{\"raspberry\":3.14},{\"true\":false}]"

SelectsNested(hardBreak) ==
    /\ Complete(Updated(hardBreak, S!Start, " { \"narf\" : { \"foo\" : \"bar\" } } "), "{\"narf\":{\"foo\":\"bar\"}}")
    /\ Complete(Updated(hardBreak, S!Start, " " \o NestedJson \o " "), NestedJsonRead)

\* After reset() the line goes on.
SelectsAgain ==
    /\ Complete(FedNls(" { \"answer\": 42 } "), "{\"answer\":42}")
    /\ Complete(FedNls(" [ 41, 43]"), "[41,43]")

BreaksOnNewLine ==
    /\ Unfinished(FedNls("\n\n"), "")
    /\ Complete(FedNls("{ \"foo\":  \n"), "{\"foo\":")
    /\ Complete(FedNls("{ \"foo\": \"oops\n"), "{\"foo\":\"oops")

ASSUME SelectorUnitTests ==
    /\ SelectsNothing /\ SelectsStrings /\ SelectsWords /\ SelectsObjects /\ SelectsNoHalfs
    /\ SelectsArrays /\ SelectsNested(FALSE) /\ SelectsNested(TRUE)
    /\ SelectsAgain /\ BreaksOnNewLine

=============================================================================
