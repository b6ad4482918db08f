----------------------------- MODULE TextTests ------------------------------
(***************************************************************************)
(* The unit tests of the texts logs are shown as, said of Lines and        *)
(* PrettyPrint (Screen/detail/splitIntoLines.ut.cpp,                       *)
(* Printers/OrderedPrettyPrint.ut.cpp).                                    *)
(***************************************************************************)
EXTENDS PrettyPrint

L == INSTANCE Lines

Chars(text) == [i \in 1 .. Len(text) |-> SubSeq(text, i, i)]

Splits(text, columns, lines) ==
    L!SplitIntoLines(Chars(text), columns) = [i \in DOMAIN lines |-> Chars(lines[i])]

-----------------------------------------------------------------------------
(* splitIntoLines.ut.cpp                                                   *)

ShortTexts == Splits("", 100, <<>>) /\ Splits("foo bar", 100, <<"foo bar">>)

WrapsLines ==
    /\ Splits("foobar", 6, <<"foobar">>) /\ Splits("foobarX", 6, <<"foobar", "X">>)
    /\ Splits("foobar012345", 6, <<"foobar", "012345">>)
    /\ Splits("foobar012345xxx", 6, <<"foobar", "012345", "xxx">>)
    /\ Splits("foo\\bar", 6, <<"foo\\b", "ar">>)
    /\ Splits("foo\\nbar", 4, <<"foo", "\\n", "bar">>) /\ Splits("foo\\tx", 4, <<"foo", "\\tx">>)
    /\ \A columns \in {2, 4, 5} : Splits("foo\\x42bar", columns, <<"foo", "\\x42", "bar">>)
    /\ Splits("foobar012345x\\nok\\n", 6, <<"foobar", "012345", "x\\n", "ok\\n">>)

WrapsWords ==
    /\ Splits("foo bar", 6, <<"foo ", "bar">>) /\ Splits("foo\\tbar", 6, <<"foo\\t", "bar">>)
    /\ Splits("foo\\nbar", 6, <<"foo\\n", "bar">>) /\ Splits("foo\\rbar", 6, <<"foo\\r", "bar">>)
    /\ Splits("foo\\n\\r\\n\\rbar", 7, <<"foo\\n\\r", "\\n\\r", "bar">>)
    /\ Splits("foo\\r\\n\\r\\nbar", 7, <<"foo\\r\\n", "\\r\\n", "bar">>)
    /\ Splits("foo\\n\\nbar", 7, <<"foo\\n", "\\n", "bar">>)
    /\ Splits("foo\\r\\rbar", 7, <<"foo\\r", "\\r", "bar">>)
    /\ Splits("a     z", 6, <<"a     ", "z">>)
    /\ Splits("a            z", 6, <<"a     ", "      ", " z">>)

(* The lines of every text of up to four pieces, in up to six columns, are *)
(* that text, fit, and can be shown on their own (splitIntoLines.cpp).     *)
AllTextsSplit == L!SplitRight(L!Sequences(L!Pieces, 4), L!Sequences(L!Pieces, 6))

ASSUME LinesTests == ShortTexts /\ WrapsLines /\ WrapsWords /\ AllTextsSplit

-----------------------------------------------------------------------------
(* OrderedPrettyPrint.ut.cpp. The sequence number is left out.             *)

TestOrder     == <<"a", "abc", "answer", "b", "bar", "c", "expected", "foo", "fran", "myx", "narf", "root", "xx\t", "xxx">>
TestPrintable == "xx\t" :> "xx\\t" @@ "x\rxx" :> "x\\rxx"
TestFloatTexts == {"4.500000", "0.000500", "123456789.500000", "4.200000", "100.000000", "0.000000"}

Prints(config, json, text) == PrettyPrint(config, "some-key", json) = "some-key " \o text

\* What makeLog() does of a JSON text, for values that are leafs.
Numbers(items) == Array([i \in DOMAIN items |-> Leaf(items[i])])

PrintsDirectly ==
    /\ \A text \in {"xxx", "42", "1234567890", "true"} :
          Prints(NoConfig, Object("myx" :> Leaf(text)), "myx=" \o text)
    /\ Prints(NoConfig, Object("myx" :> Leaf("4.500000")), "myx=4.5")
    /\ Prints(NoConfig, Object("myx" :> Leaf("0.000500")), "myx=0.0005")
    /\ Prints(NoConfig, Object("myx" :> Leaf("123456789.500000")), "myx=123456789.5")
    /\ Prints(NoConfig, Object(<<>>), "")
    /\ Prints(NoConfig, Object("foo" :> Leaf("bar") @@ "answer" :> Leaf("42")), "answer=42 foo=bar")
    /\ Prints(NoConfig, Object("answer" :> Object("expected" :> Object(<<>>))), "answer={ expected={ } }")
    /\ Prints(NoConfig, Object("answer" :> Object("expected" :> Leaf("42"))), "answer={ expected=42 }")
    /\ Prints(NoConfig, Object("narf" :> Object("fran" :> Object("xxx" :> Leaf("42")))),
              "narf={ fran={ xxx=42 } }")

PrintsPriorities ==
    LET config == PrettyConfig({}, <<"foo", "bar">>, <<>>)
        tests  == {<<"narf" :> Leaf("xxx"), "narf=xxx">>,
                   <<"narf" :> Leaf("yyy") @@ "foo" :> Leaf("xxx"), "foo=xxx narf=yyy">>,
                   <<"narf" :> Leaf("yyy") @@ "bar" :> Leaf("xxx"), "bar=xxx narf=yyy">>,
                   <<"narf" :> Leaf("yyy") @@ "bar" :> Leaf("zzz") @@ "foo" :> Leaf("xxx"), "foo=xxx bar=zzz narf=yyy">>}
    IN  \A test \in tests :
            /\ Prints(config, Object(test[1]), test[2])
            /\ Prints(config, Object("root" :> Object(test[1])), "root={ " \o test[2] \o " }")

PrintsSilentTags ==
    LET config == PrettyConfig({"foo", "bar"}, <<>>, <<>>)
    IN  /\ \A test \in {<<"narf", "narf=xxx">>, <<"bar", "xxx">>, <<"foo", "xxx">>} :
              /\ Prints(config, Object(test[1] :> Leaf("xxx")), test[2])
              /\ Prints(config, Object("root" :> Object(test[1] :> Leaf("xxx"))), "root={ " \o test[2] \o " }")
        /\ Prints(config, Object("bar" :> Object("narf" :> Leaf("xxx"))), "{ narf=xxx }")

PrintsPadded ==
    LET config == PrettyConfig({}, <<>>, "narf" :> 5)
        root(text) == Object("root" :> Object("narf" :> Leaf(text)))
        narf(text) == Object("narf" :> Leaf(text))
    IN  /\ Prints(config, narf("xxx"), "narf=  xxx") /\ Prints(config, narf("12345"), "narf=12345")
        /\ Prints(config, root("xxx"), "root={ narf=  xxx }") /\ Prints(config, root("42"), "root={ narf=   42 }")
        /\ Prints(config, root("true"), "root={ narf= true }")
        /\ Prints(config, root("4.200000"), "root={ narf=  4.2 }")
        /\ Prints(config, Object("narf" :> narf("xxx")), "narf={ narf=  xxx }")
        /\ Prints(config, Object("a" :> narf("def") @@ "b" :> Leaf("def") @@ "c" :> narf("abc")),
                  "a={ narf=  def } b=def c={ narf=  abc }")

PrintsAllOptions ==
    Prints(PrettyConfig({"foo", "bar"}, <<"foo", "narf">>, "narf" :> 5),
           Object("narf" :> Leaf("yyy") @@ "bar" :> Leaf("zzz") @@ "foo" :> Leaf("xxx")), "xxx narf=  yyy zzz")

PrintsPrintable == Prints(NoConfig, Object("xx\t" :> Leaf("x\rxx")), "xx\\t=x\\rxx")

PrintsArrays ==
    LET foo(items) == Object("foo" :> Numbers(items))
    IN  /\ Prints(NoConfig, Numbers(<<>>), "[ ]") /\ Prints(NoConfig, Numbers(<<"1">>), "[ 1 ]")
        /\ Prints(NoConfig, Numbers(<<"1", "2", "3">>), "[ 1 2 3 ]")
        /\ Prints(NoConfig, foo(<<>>), "foo=[ ]") /\ Prints(NoConfig, foo(<<"1">>), "foo=[ 1 ]")
        /\ Prints(NoConfig, foo(<<"1", "2", "3">>), "foo=[ 1 2 3 ]")
        /\ Prints(NoConfig,
                  Object("foo" :> Array(<<Object("bar" :> Numbers(<<"1", "2">>)), Object("narf" :> Numbers(<<"42", "13">>))>>)),
                  "foo=[ { bar=[ 1 2 ] } { narf=[ 42 13 ] } ]")

ASSUME PrettyPrintTests ==
    /\ PrintsDirectly /\ PrintsPriorities /\ PrintsSilentTags /\ PrintsPadded
    /\ PrintsAllOptions /\ PrintsPrintable /\ PrintsArrays

(* What no test says: zeros of a whole number are cut too; a null and a    *)
(* tag of priority that is given twice do not print.                       *)
ASSUME NotPrinted ==
    /\ Prints(NoConfig, Object("myx" :> Leaf("100.000000")), "myx=1")
    /\ Prints(NoConfig, Object("myx" :> Leaf("0.000000")), "myx=")
    /\ PrettyPrint(NoConfig, "k", Object("a" :> Null)) = Fails({"logic_error"})
    /\ PrettyPrint(PrettyConfig({}, <<"a", "a">>, <<>>), "k", Object("a" :> Leaf("x"))) = Fails({"assertion"})

=============================================================================
