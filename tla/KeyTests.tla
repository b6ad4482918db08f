------------------------------ MODULE KeyTests ------------------------------
(***************************************************************************)
(* The unit tests of paths as texts, of keys and of their order, said of   *)
(* PathTexts, KeyExtractor and KeyOrder (Tree/Path.ut.cpp,                 *)
(* Tree/KeyExtractor.ut.cpp, Log.ut.cpp), and what the help of the program *)
(* says of its options, said of Config.                                    *)
(* A second has ten milliseconds, a hundred microseconds and a thousand    *)
(* nanoseconds here.                                                       *)
(***************************************************************************)
EXTENDS Config

TestUnits == [UNIX |-> 1, UNIX_ms |-> 10, UNIX_us |-> 100, UNIX_ns |-> 1000]

TestIndex == "42" :> 42 @@ " 42" :> 42 @@ "42 " :> 42 @@ " 42 " :> 42 @@ "13" :> 13
             @@ "1" :> 1 @@ "3" :> 3 @@ " " :> NoIndex

\* The numbers of the test: integers, and those that are strings; then floats.
TestInts    == "7" :> 7 @@ "71" :> 71 @@ "712" :> 712 @@ "7123" :> 7123
               @@ "8" :> 8 @@ "81" :> 81 @@ "812" :> 812 @@ "8123" :> 8123
TestDoubles == "7" :> 7000 @@ "8" :> 8000 @@ "7.12" :> 7120 @@ "8.12" :> 8120 @@ "3.14" :> 3140 @@ "2.71" :> 2710
TestQuoted  == {"8", "81", "812", "8123", "8.12", "2.71", "sth", "iso", "raw", "foo", ".iso", "iso8601-ns"}
TestFloats  == {"7.12", "3.14"}
TestTokens  == ".iso" :> <<".", "iso">> @@ "foo" :> <<"foo">> @@ "iso" :> <<"iso">>
               @@ "sth" :> <<"sth", "[">> @@ "raw" :> <<".">>

-----------------------------------------------------------------------------
(* Path.ut.cpp                                                             *)

AbsoluteDetected ==
    /\ ~Parse(<<>>).isAbsolute /\ Parse(<<".">>).isAbsolute
    /\ Parse(<<".", "foo", ".", "bar">>).isAbsolute
    /\ ~Parse(<<"oops", ".", "foo", ".", "bar">>).isAbsolute
    /\ ~Parse(<<"foo", "[", "]", ".", "bar", "[", "42", "]">>).isAbsolute

UniqueDetected ==
    /\ \A text \in {<<>>, <<"foo", ".", "bar">>, <<"foo", "[", "]", ".", "bar", "[", "42", "]">>,
                    <<".", "foo", "[", "]", ".", "bar">>, <<".", "foo", ".", "bar", "[", "]">>} :
          ~IsUnique(Parse(text))
    /\ \A text \in {<<".">>, <<".", "foo", ".", "bar">>, <<".", "foo", "[", "42", "]", ".", "bar">>,
                    <<".", "foo", "[", "42", "]", ".", "bar", "[", "13", "]">>} :
          IsUnique(Parse(text))

Parses ==
    /\ Build(<<>>) = Parse(<<>>) /\ Build(<< <<".">> >>) = Parse(<<".">>)
    /\ Build(<< <<"foo">> >>) = Parse(<<"foo">>)
    /\ Build(<< <<"foo">>, <<"bar">> >>) = Parse(<<"foo", ".", "bar">>)
    /\ Build(<< <<".">>, <<"foo">>, <<"bar">> >>) = Parse(<<".", "foo", ".", "bar">>)
    /\ \A text \in {<<".", "[", "]">>, <<".", "[", "42", "]">>, <<"foo", "[", ".", "bar">>,
                    <<"foo", "]", ".", "bar">>} :
          Parse(text) = Thrown("InvalidArray")
    /\ \A text \in {<<".", ".">>, <<".", "foo", ".", "bar", ".">>, <<"foo", ".", ".", "bar">>,
                    <<"foo", ".", ".", ".", "bar">>, <<".", ".", "foo", ".", "bar">>,
                    <<"foo", ".", "bar", ".", ".">>} :
          Parse(text) = Thrown("EmptyNode")

WritesPaths ==
    \A text \in {<<>>, <<".">>, <<"foo">>, <<"foo", ".", "bar">>, <<".", "foo", ".", "bar">>,
                 <<"space is ok", ".", "bar">>} :
        Str(Parse(text)) = text

BuildsPaths ==
    /\ Build(<<>>) = Parse(<<>>) /\ Build(<< <<".">> >>) = Parse(<<".">>)
    /\ Build(<< <<"foo">> >>) = Parse(<<"foo">>)
    /\ Build(<< <<".">>, <<"foo">> >>) = Parse(<<".", "foo">>)
    /\ Build(<< <<"foo">>, <<"bar">> >>) = Parse(<<"foo", ".", "bar">>)

ParsesEntries ==
    /\ Entry(<<>>) = Thrown("EmptyNode") /\ Entry(<<"a", ".", "b">>) = Thrown("InvalidNode")
    /\ \A text \in {<<"a", "[">>, <<"[", "]", "a">>, <<"a", "[", "b", "]">>, <<"a", "[", "3">>, <<"a3", "]">>,
                    <<"a", "[", "3", "]", "b">>, <<"a", "[", "-1", "]">>, <<"[", "]">>, <<"[", "a", "]">>,
                    <<"[", "1", "]">>, <<"a", "]", "1", "[">>} :
          Entry(text) = Thrown("InvalidArray")
    /\ \A name \in {"foo", "a", "abc", "space is ok", "misc !@#$%^&*()"} :
          Entry(<<name>>) = Field(name) /\ EntryStr(Entry(<<name>>)) = <<name>>
    /\ \A index \in {"42", " 42", "42 ", " 42 "} :
          LET e == Entry(<<"foo", "[", index, "]">>)
          IN  e = ItemOf("foo", 42) /\ EntryStr(e) = <<"foo", "[", "42", "]">>
    /\ \A text \in {<<"foo", "[", "]">>, <<"foo", "[", " ", "]">>} :
          Entry(text) = AllOf("foo") /\ EntryStr(Entry(text)) = <<"foo", "[", "]">>

ASSUME PathTests ==
    AbsoluteDetected /\ UniqueDetected /\ Parses /\ WritesPaths /\ BuildsPaths /\ ParsesEntries

\* All texts of up to five of these tokens.
ASSUME PathsParsedAsWritten ==
    ParsedAsWritten(UNION {[1 .. n -> {".", "[", "]", "foo", " 42", " "}] : n \in 0 .. 5})

-----------------------------------------------------------------------------
(* KeyExtractor.ut.cpp                                                     *)

J == Object("iso" :> Leaf("iso") @@ "unix" :> Leaf("7") @@ "unix_ms" :> Leaf("71") @@ "unix_us" :> Leaf("712")
            @@ "unix_ns" :> Leaf("7123") @@ "unix_fp" :> Leaf("7.12") @@ "str-unix" :> Leaf("8")
            @@ "str-unix_ms" :> Leaf("81") @@ "str-unix_us" :> Leaf("812") @@ "str-unix_ns" :> Leaf("8123")
            @@ "str-unix_fp" :> Leaf("8.12") @@ "foo" :> Object("bar" :> Leaf("sth"))
            @@ "float" :> Leaf("3.14") @@ "str-float" :> Leaf("2.71"))

Ke(name, format) == KeyOf(J, Parse(<<".", name>>), format)
FooBar2          == <<".", "foo", ".", "bar">>
SthAs(format)    == KeyOf(J, Parse(FooBar2), format)
DateOf(s, fract) == [is |-> "date", text |-> <<s, fract>>]

KeyAsItIs ==
    /\ Str(Parse(FooBar2)) = FooBar2
    /\ SthAs("Raw") = Text("sth") /\ Ke("unix", "Raw") = Text("7")
    /\ KeyOf(J, Parse(<<".", "not", ".", "there">>), "Raw") = NotFound
    /\ Ke("iso", "ISO8601_ns") = Text("iso") /\ SthAs("ISO8601_ns") = Invalid

NoNumbers(format) == SthAs(format) = Invalid /\ Ke("float", format) = Invalid /\ Ke("str-float", format) = Invalid

KeyOfSeconds ==
    /\ Ke("unix", "UNIX") = DateOf(7, 0) /\ Ke("str-unix", "UNIX") = DateOf(8, 0) /\ NoNumbers("UNIX")
    /\ Ke("unix_ms", "UNIX_ms") = DateOf(7, 100) /\ Ke("str-unix_ms", "UNIX_ms") = DateOf(8, 100)
    /\ NoNumbers("UNIX_ms")

KeyOfParts ==
    /\ Ke("unix_us", "UNIX_us") = DateOf(7, 120) /\ Ke("str-unix_us", "UNIX_us") = DateOf(8, 120)
    /\ NoNumbers("UNIX_us")
    /\ Ke("unix_ns", "UNIX_ns") = DateOf(7, 123) /\ Ke("str-unix_ns", "UNIX_ns") = DateOf(8, 123)
    /\ NoNumbers("UNIX_ns")

KeyOfFloat ==
    /\ Ke("unix_fp", "UNIX_float") = DateOf(7, 120) /\ Ke("str-unix_fp", "UNIX_float") = DateOf(8, 120)
    /\ Ke("unix", "UNIX_float") = DateOf(7, 0) /\ Ke("str-unix", "UNIX_float") = DateOf(8, 0)
    /\ SthAs("UNIX_float") = Invalid

KeyPaths ==
    /\ \A text \in {<<>>, <<".">>, <<"non", ".", "absolute">>, <<".", "has", "[", "]", ".", "it">>} :
          InvalidKeyPath(Parse(text))
    /\ ~InvalidKeyPath(Parse(<<".", "foo", "[", "42", "]", ".", "bar", "[", "13", "]", ".", "narf">>))

ASSUME KeyExtractorTests == KeyAsItIs /\ KeyOfSeconds /\ KeyOfParts /\ KeyOfFloat /\ KeyPaths

-----------------------------------------------------------------------------
(* Log.ut.cpp, "Key"                                                       *)

Foo == <<102, 111, 111>>
Bar == <<98, 97, 114>>
F   == <<102>>

KeysCompare ==
    LET Before(l, r) == Compare(l, r) = -1 /\ Compare(r, l) = 1
    IN  /\ Compare(Key(Foo, 42), Key(Foo, 42)) = 0
        /\ Before(Key(Foo, 13), Key(Foo, 42))
        /\ Before(Key(Bar, 42), Key(Foo, 13)) /\ Before(Key(Bar, 66), Key(Foo, 99))
        /\ Before(Key(Bar, 42), Key(F, 13)) /\ Before(Key(Bar, 13), Key(F, 42))

ASSUME LogTests == KeysCompare

-----------------------------------------------------------------------------
(* The help text of the program (prepareOptions()).                        *)

KeyPathGiven == "key-path" :> Leaf(".iso")

Defaults ==
    LET config == ExtractConfig(KeyPathGiven)
    IN  /\ config.port = "4242" /\ config.hardBreak /\ config.keyFormat = "ISO8601_ns"
        /\ config.silentTags = {} /\ config.priorityTags = <<>> /\ config.paddedFields = <<>>
        /\ config.trimFields = <<Path(TRUE, <<Field("iso")>>)>>

GivenOptions ==
    LET With(name, value) == ExtractConfig(name :> value @@ KeyPathGiven)
        tags == Array(<<Leaf("foo"), Leaf("iso")>>)
    IN  /\ With("help", Null) = Help
        /\ ~With("parse-by-json", Null).hardBreak /\ With("parse-by-line", Null).hardBreak
        /\ With("key-format", Leaf("raw")).keyFormat = "Raw"
        /\ With("silent-tags", tags).silentTags = {"foo", "iso"}
        /\ With("priority-tags", tags).priorityTags = <<"foo", "iso">>
        /\ With("trim-fields", tags).trimFields =
               <<Path(FALSE, <<Field("foo")>>), Path(FALSE, <<Field("iso")>>), Path(TRUE, <<Field("iso")>>)>>
        /\ With("dont-trim-key", Null).trimFields = <<>>
        /\ With("padded-fields", Object("foo" :> Leaf("7"))).paddedFields = ("foo" :> 7)

RefusedOptions ==
    /\ \A options \in {<<>>, "key-path" :> Leaf("foo"), "key-path" :> Leaf("raw"), "key-path" :> Leaf("sth"),
                       "parse-by-json" :> Null @@ "parse-by-line" :> Null @@ KeyPathGiven} :
          ExtractConfig(options) = InvalidConfig
    /\ \A name \in {"port", "silent-tags", "priority-tags", "trim-fields", "padded-fields"} :
          ExtractConfig(name :> Malformed @@ KeyPathGiven) = InvalidConfig
    /\ \A name \in {"silent-tags", "priority-tags", "trim-fields", "padded-fields"}, json \in
           {Leaf("foo"), Array(<<Leaf("7")>>), Object("foo" :> Leaf("8"))} :
          ExtractConfig(name :> json @@ KeyPathGiven) = InvalidConfig
    /\ ExtractConfig("trim-fields" :> Array(<<Leaf("sth")>>) @@ KeyPathGiven) = InvalidConfig
    /\ ExtractConfig("key-format" :> Leaf("sth") @@ KeyPathGiven) = InvalidConfig

ASSUME ConfigTests == Defaults /\ GivenOptions /\ RefusedOptions

=============================================================================
