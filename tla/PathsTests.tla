----------------------------- MODULE PathsTests -----------------------------
(***************************************************************************)
(* The unit tests of what paths find in a log, and cut out of it, said of  *)
(* the operators of LogPaths: Utils/matchesLog.ut.cpp,                     *)
(* Utils/forEachMatch.ut.cpp and Utils/trimFields.ut.cpp.  A regular       *)
(* expression is the texts it is found in; those of a test that has no dot *)
(* or bracket are found where their characters are.                        *)
(***************************************************************************)
EXTENDS Trimming, FiniteSets, TLC

Abs(names) == Path(TRUE, [i \in DOMAIN names |-> Field(names[i])])
Rel(names) == Path(FALSE, [i \in DOMAIN names |-> Field(names[i])])
AbsOf(entries) == Path(TRUE, entries)
RelOf(entries) == Path(FALSE, entries)

One(name, value) == Object(name :> value)
FooBar(text) == One("foo", One("bar", Leaf(text)))
OneTwo == Array(<<One("one", Leaf("1")), One("two", Leaf("2"))>>)
Ping(narf) == One("PING", One("PONG", One("narf", narf)))

\* log_ and logMulti_ of the fixtures.
Log == Object(Ping(One("fran", Leaf("a_c"))).fields @@ FooBar("a/c").fields @@ ("array" :> OneTwo))
LogMulti ==
    Object("one" :> Ping(Leaf("42")) @@ "two" :> Ping(One("fran", Leaf("aaa")))
           @@ "three" :> FooBar("xxx") @@ "four" :> FooBar("yyy") @@ "five" :> One("foo", OneTwo))

TestWords == {"PING", "PONG", "narf", "fran", "a_c", "foo", "bar", "a/c", "array", "one", "1", "two", "2",
              "42", "aaa", "three", "xxx", "four", "yyy", "five", "77", "88", "99", "xx"}

\* std::string::find(), and an expression that is no more than a text.
Containing(text) ==
    {w \in TestWords : \E i \in 1 .. Len(w) - Len(text) + 1 : SubSeq(w, i, i + Len(text) - 1) = text}

-----------------------------------------------------------------------------
(* matchesLog.ut.cpp                                                       *)

Value(path, text)      == MatchesValue(Log, path, Containing(text))
ValueMulti(path, text) == MatchesValue(LogMulti, path, Containing(text))

ValueOfAbsolutePath ==
    /\ Value(Abs(<<"foo", "bar">>), "a") /\ Value(Abs(<<"foo", "bar">>), "a/c")
    /\ ~Value(Abs(<<"foo", "bar">>), "A/C") /\ ~Value(Abs(<<"FOO", "BAR">>), "a/c")
    /\ ~Value(Abs(<<"foo">>), "bar") /\ ~Value(Abs(<<"no", "such", "node">>), "a/c")
    /\ ~Value(Abs(<<>>), "a/c")
    /\ Value(AbsOf(<<ItemOf("array", 0), Field("one")>>), "1")
    /\ ~Value(AbsOf(<<ItemOf("array", 1), Field("one")>>), "1")

ValueOfRelativePath ==
    /\ Value(Rel(<<"fran">>), "a_c") /\ ~Value(Rel(<<"fran">>), "A_C")
    /\ Value(Rel(<<"narf", "fran">>), "a_c") /\ ~Value(Rel(<<"narf", "fran">>), "A_C")
    /\ ~Value(Rel(<<"NARF", "FRAN">>), "a_c") /\ ~Value(Rel(<<"ping", "fran">>), "a_c")
    /\ ~Value(Rel(<<"foo">>), "bar") /\ ~Value(Rel(<<"no", "such", "node">>), "a=c")
    /\ ~Value(Rel(<<>>), "a=c")
    /\ ValueMulti(Rel(<<"narf">>), "42")
    /\ \A path \in {Rel(<<"bar">>), Rel(<<"foo", "bar">>)} :
          ValueMulti(path, "xxx") /\ ValueMulti(path, "yyy") /\ ~ValueMulti(path, "zzz")

KeyOfLog(path, text)   == MatchesKey(Log, path, Containing(text))
KeyMulti(path, text)   == MatchesKey(LogMulti, path, Containing(text))

KeyOfAbsolutePath ==
    LET narf == Abs(<<"PING", "PONG", "narf">>)
    IN  /\ KeyOfLog(narf, "fran") /\ ~KeyOfLog(narf, "FRAN") /\ ~KeyOfLog(narf, "FRANxx")
        /\ ~KeyOfLog(Abs(<<"PONG", "narf">>), "fran")
        /\ KeyOfLog(Abs(<<"foo">>), "bar") /\ ~KeyOfLog(Abs(<<"foo">>), "BAR")
        /\ ~KeyOfLog(Abs(<<"no", "such", "node">>), "bar") /\ ~KeyOfLog(Abs(<<>>), "bar")
        /\ KeyOfLog(AbsOf(<<AllOf("array")>>), "on") /\ ~KeyOfLog(AbsOf(<<AllOf("array")>>), "XYZ")

KeyOfRelativePath ==
    /\ \A path \in {Rel(<<"narf">>), Rel(<<"PONG", "narf">>)} :
          KeyOfLog(path, "fran") /\ ~KeyOfLog(path, "FRAN") /\ ~KeyOfLog(path, "franXX")
    /\ KeyOfLog(Rel(<<"foo">>), "bar")
    /\ ~KeyOfLog(Rel(<<"no", "such", "node">>), "bar") /\ ~KeyOfLog(Rel(<<>>), "bar")
    /\ KeyMulti(Rel(<<"narf">>), "fran") /\ ~KeyMulti(Rel(<<"narf">>), "FRAN")
    /\ KeyMulti(Rel(<<"foo">>), "bar") /\ ~KeyMulti(Rel(<<"foo">>), "BAR")
    /\ ~KeyMulti(Rel(<<"foo">>), "zzz")

ValuesOfPath ==
    /\ AllValues(Log, Abs(<<"foo", "bar">>)) = {"a/c"}
    /\ AllValues(Log, Abs(<<"xxx", "yyy">>)) = {}
    /\ AllValues(LogMulti, Rel(<<"foo", "bar">>)) = {"xxx", "yyy"}
    /\ AllValues(Log, Rel(<<"xxx", "yyy">>)) = {}
    /\ AllValues(LogMulti, Rel(<<"foo">>)) = {}
    /\ LET repeated == Object("one" :> One("bar", Leaf("xx")) @@ "two" :> One("bar", Leaf("xx")))
       IN  AllValues(repeated, Rel(<<"bar">>)) = {"xx"}

ValuesOfNodes ==
    /\ AllNodeValues(LogMulti, Rel(<<"bar">>)) = {Leaf("xxx"), Leaf("yyy")}
    /\ AllNodeValues(LogMulti, Rel(<<"foo">>)) = {OneTwo, One("bar", Leaf("xxx")), One("bar", Leaf("yyy"))}
    /\ AllNodeValues(Log, Abs(<<"foo", "bar">>)) = {Leaf("a/c")}
    /\ AllNodeValues(Log, Abs(<<"foo">>)) = {One("bar", Leaf("a/c"))}

TextQuery(text) == Query(Containing(text), Containing(text))

AnyKey ==
    /\ \A text \in {"", "a", "f", "fo", "foo", "oo", "array"} : MatchesAnyKey(Log, TextQuery(text))
    /\ \A text \in {"x", "1", "foO", "a_c"} : ~MatchesAnyKey(Log, TextQuery(text))
    /\ MatchesAnyKey(LogMulti, TextQuery("an"))
    /\ ~MatchesAnyKey(LogMulti, TextQuery("1")) /\ ~MatchesAnyKey(LogMulti, TextQuery("aaa"))

AnyValue ==
    /\ \A text \in {"", "1", "a", "a_", "a_c"} : MatchesAnyValue(Log, TextQuery(text))
    /\ \A text \in {"x", "a_C", "array"} : ~MatchesAnyValue(Log, TextQuery(text))
    /\ MatchesAnyValue(LogMulti, TextQuery("4")) /\ MatchesAnyValue(LogMulti, TextQuery("2"))
    /\ ~MatchesAnyValue(LogMulti, TextQuery("3"))

AnyKeyValue ==
    LET In(log, key, value) == MatchesAnyKeyValue(log, TextQuery(key), TextQuery(value))
    IN  /\ In(Log, "", "") /\ ~In(Log, "fran", "x") /\ In(Log, "fra", "a_") /\ In(Log, "one", "1")
        /\ ~In(Log, "two", "1") /\ ~In(Log, "one", "2") /\ In(Log, "a", "a") /\ ~In(Log, "narf", "a_")
        /\ In(Log, "", "a_c") /\ ~In(Log, "", "a_C") /\ ~In(Log, "", "array")
        /\ In(LogMulti, "rf", "4") /\ In(LogMulti, "na", "2") /\ ~In(LogMulti, "narf", "3")

ArraysAndIndexes ==
    LET log == Object("four" :> One("foo", Array(<<Leaf("77"), Leaf("88")>>))
                      @@ "five" :> One("foo", Array(<<One("one", Leaf("77")), One("two", Leaf("88")),
                                                      One("three", Leaf("99"))>>)))
        V(entries) == MatchesValue(log, AbsOf(entries), Containing("77"))
        K(path, text) == MatchesKey(log, path, Containing(text))
    IN  /\ ~V(<<Field("four"), Field("foo")>>) /\ V(<<Field("four"), AllOf("foo")>>)
        /\ ~V(<<Field("five"), Field("foo"), Field("one")>>)
        /\ V(<<Field("five"), AllOf("foo"), Field("one")>>)
        /\ ~K(AbsOf(<<Field("four"), Field("foo")>>), "1") /\ ~K(AbsOf(<<Field("four"), AllOf("foo")>>), "1")
        /\ ~K(AbsOf(<<Field("five"), Field("foo")>>), "one") /\ K(AbsOf(<<Field("five"), AllOf("foo")>>), "one")
        /\ K(RelOf(<<ItemOf("foo", 2)>>), "") /\ ~K(RelOf(<<ItemOf("foo", 3)>>), "")

ASSUME MatchesLogTests ==
    /\ ValueOfAbsolutePath /\ ValueOfRelativePath /\ KeyOfAbsolutePath /\ KeyOfRelativePath
    /\ ValuesOfPath /\ ValuesOfNodes /\ AnyKey /\ AnyValue /\ AnyKeyValue /\ ArraysAndIndexes

-----------------------------------------------------------------------------
(* forEachMatch.ut.cpp. Where the test counts values, it has different ones. *)

Big == Object(LogMulti.fields @@ ("six" :> Array(<<Leaf("13"), Leaf("42"), Leaf("69"), Leaf("51")>>)))
Nested ==
    One("meh", One("foo", Array(<<One("bar", Array(<<Leaf("1"), Leaf("2"), Leaf("3")>>)),
                                  One("bar", Array(<<Leaf("42"), Leaf("13")>>))>>)))

Matches1 ==
    /\ Match(Null, Abs(<<"one">>)) = {}
    /\ Match(Big, Rel(<<>>)) = {}
    /\ Match(Big, Abs(<<>>)) = {Big}
    /\ Match(Big, Abs(<<"four">>)) = {Big.fields["four"]}
    /\ Match(Big, Abs(<<"does", "not", "exist">>)) = {}
    /\ Match(Big, Rel(<<"four">>)) = {Big.fields["four"]}
    /\ Match(Big, Rel(<<"narf", "fran">>)) = {Leaf("aaa")}
    /\ Match(Big, Rel(<<"four", "does", "not", "exist">>)) = {}
    /\ Match(Big, Rel(<<"PING">>)) =
           {Ping(narf).fields["PING"] : narf \in {Leaf("42"), One("fran", Leaf("aaa"))}}

MatchesInArrays ==
    /\ Match(Big, RelOf(<<ItemOf("foo", 1)>>)) = {One("two", Leaf("2"))}
    /\ Match(Big, RelOf(<<ItemOf("foo", 0), Field("one")>>)) = {Leaf("1")}
    /\ Match(Big, RelOf(<<ItemOf("foo", 42), Field("not"), Field("exist")>>)) = {}
    /\ Match(Nested, RelOf(<<AllOf("foo"), AllOf("bar")>>)) =
           {Leaf("1"), Leaf("2"), Leaf("3"), Leaf("42"), Leaf("13")}

ArraysAsLastElement ==
    LET json == Object("four" :> FooBar("yyy")
                       @@ "five" :> One("foo", Array(<<One("one", Leaf("1")), One("two", Leaf("2")),
                                                       One("three", Leaf("3"))>>)))
    IN  /\ Cardinality(Match(json, Rel(<<"foo">>))) = 2
        /\ Cardinality(Match(json, RelOf(<<AllOf("foo")>>))) = 3

ASSUME ForEachMatchTests == Matches1 /\ MatchesInArrays /\ ArraysAsLastElement

-----------------------------------------------------------------------------
(* trimFields.ut.cpp                                                       *)

\* nlohmann's erase(): of the field the names lead to.
RECURSIVE Erased(_, _)
Erased(node, names) ==
    IF Len(names) = 1 THEN Object([k \in DOMAIN node.fields \ {names[1]} |-> node.fields[k]])
    ELSE Object([node.fields EXCEPT ![names[1]] = Erased(@, Tail(names))])

\* A log is what is left of another after it was trimmed.
IsLeft(log, of, fields) ==
    {place.way : place \in Places(log)} = {place.way : place \in TrimFields(of, fields)}

TrimsNothing ==
    /\ IsLeft(Log, Log, <<>>)
    /\ IsLeft(Log, Log, <<Rel(<<>>)>>)
    /\ IsLeft(Log, Log, <<Abs(<<"no", "such", "path">>), Rel(<<"does", "not", "exist">>)>>)

TrimsPaths ==
    /\ IsLeft(Erased(Log, <<"foo", "bar">>), Log, <<Abs(<<"foo", "bar">>)>>)
    /\ IsLeft(Erased(Log, <<"foo">>), Log, <<Abs(<<"foo">>)>>)
    /\ IsLeft(Erased(LogMulti, <<"two", "PING", "PONG", "narf", "fran">>), LogMulti, <<Rel(<<"fran">>)>>)
    /\ IsLeft(Erased(LogMulti, <<"three">>), LogMulti, <<Rel(<<"three">>)>>)
    /\ IsLeft(Erased(LogMulti, <<"three", "foo">>), LogMulti, <<Rel(<<"three", "foo">>)>>)

TrimsManyPaths ==
    /\ IsLeft(Erased(Erased(LogMulti, <<"three", "foo", "bar">>), <<"four", "foo", "bar">>),
              LogMulti, <<Rel(<<"foo", "bar">>)>>)
    /\ IsLeft(Erased(Erased(Log, <<"foo", "bar">>), <<"PING", "PONG">>),
              Log, <<Abs(<<"foo", "bar">>), Rel(<<"PONG">>)>>)

ASSUME TrimFieldsTests == TrimsNothing /\ TrimsPaths /\ TrimsManyPaths

=============================================================================
