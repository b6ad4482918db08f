---------------------------- MODULE FilterTests -----------------------------
(***************************************************************************)
(* The unit tests of the filters, said of FilterNodes and LogEntry:        *)
(* Tree/Filter/Grep.ut.cpp, and Tree/FilterFactory.ut.cpp.                 *)
(***************************************************************************)
EXTENDS LogEntry, PathsTests

-----------------------------------------------------------------------------
(* Grep.ut.cpp                                                             *)

LowerCaseOf == [w \in TestWords \cup {"A/C"} |-> IF w = "A/C" THEN "a/c" ELSE w]

G == INSTANCE FilterNodes WITH Words <- DOMAIN LowerCaseOf, Lower <- LowerCaseOf

Grep(compare, case, search, path, text) ==
    [Compare |-> compare, Case |-> case, Search |-> search, Path |-> path, Trim |-> "False",
     regex |-> {w \in DOMAIN LowerCaseOf : w \in Containing(text) \/ w = text}]

Takes(compare, path, text, json) == G!GrepMatches(Grep(compare, "Sensitive", "Regular", path, text), json)

GrepValues ==
    /\ Takes("Value", Abs(<<"foo", "bar">>), "a/c", Log)
    /\ ~Takes("Value", Abs(<<"FOO", "BAR">>), "a/c", Log)
    /\ Takes("Value", Rel(<<"fran">>), "a_c", Log) /\ ~Takes("Value", Rel(<<"fran">>), "A_C", Log)
    /\ Takes("Value", Rel(<<"narf">>), "42", LogMulti) /\ ~Takes("Value", Rel(<<"bar">>), "zzz", LogMulti)

GrepKeys ==
    /\ Takes("Key", Abs(<<"foo">>), "bar", Log) /\ ~Takes("Key", Abs(<<"foo">>), "BAR", Log)
    /\ \A json \in {Log, LogMulti} :
          Takes("Key", Rel(<<"narf">>), "fran", json) /\ ~Takes("Key", Rel(<<"narf">>), "FRAN", json)

GrepInsensitive ==
    LET Takes2(path, text) == G!GrepMatches(Grep("Value", "Insensitive", "Regular", path, text), Log)
    IN  /\ Takes2(Abs(<<"foo", "bar">>), "a/c") /\ Takes2(Abs(<<"foo", "bar">>), "A/C")
        /\ ~Takes2(Abs(<<"FOO", "BAR">>), "a/c")

GrepInverse ==
    LET Takes2(path, text) == G!GrepMatches(Grep("Value", "Sensitive", "Inverse", path, text), Log)
    IN  /\ ~Takes2(Abs(<<"foo", "bar">>), "a/c") /\ Takes2(Abs(<<"foo", "bar">>), "xxx")
        /\ Takes2(Abs(<<"FOO", "BAR">>), "a/c")

GrepTrim ==
    LET options == Grep("Value", "Sensitive", "Regular", Abs(<<"foo", "bar">>), "a/c")
    IN  /\ OwnTrim([type |-> "Grep", options |-> options]) = <<>>
        /\ OwnTrim([type |-> "Grep", options |-> [options EXCEPT !.Trim = "True"]]) = <<options.Path>>

ASSUME GrepTests == GrepValues /\ GrepKeys /\ GrepInsensitive /\ GrepInverse /\ GrepTrim

-----------------------------------------------------------------------------
(* FilterFactory.ut.cpp                                                    *)

FooBarPath == Abs(<<"foo", "bar">>)

\* An option more, one less, and one that does not parse.
Missing(options, name) == [o \in DOMAIN options \ {name} |-> options[o]]
Unknown(options)       == ("foo" :> "bar") @@ options
Wrong(options, name)   == [options EXCEPT ![name] = Refused]

\* What all types have in common: valid options are needed, all of them and no
\* other, and each is parsed.
Factory(type, options) ==
    /\ CanBuild(type, options)
    /\ \A name \in DOMAIN options : ~CanBuild(type, Wrong(options, name))
    /\ ~CanBuild(type, Unknown(options))

BuildsAcceptAll ==
    LET Trims(fields) == OwnTrim([type |-> "AcceptAll", options |-> "Trim" :> fields])
        other == Abs(<<"some", "other", "value">>)
    IN  /\ CanBuild("AcceptAll", <<>>) /\ OwnTrim([type |-> "AcceptAll", options |-> <<>>]) = <<>>
        /\ Factory("AcceptAll", "Trim" :> <<FooBarPath>>) /\ Trims(<<FooBarPath>>) = <<FooBarPath>>
        /\ Factory("AcceptAll", "Trim" :> <<FooBarPath, other>>) /\ Trims(<<FooBarPath, other>>) = <<FooBarPath, other>>

BuildsExplode ==
    Factory("Explode", "Path" :> FooBarPath) /\ ~CanBuild("Explode", <<>>)

GrepOptions(type) ==
    \A compare \in {"Key", "Value"}, case \in {"Sensitive", "Insensitive"}, search \in {"Regular", "Inverse"} :
        LET options == Grep(compare, case, search, FooBarPath, "a")
        IN  /\ Factory(type, options)
            /\ \A name \in DOMAIN options : ~CanBuild(type, Missing(options, name))

BuildsGrep == GrepOptions("Grep")

BuildsBinarySplit ==
    /\ GrepOptions("BinarySplit")
    /\ LET options == Grep("Key", "Sensitive", "Regular", FooBarPath, "a")
       IN  Cardinality(DOMAIN FirstChildren([type |-> "BinarySplit", options |-> options])) = 2

BuildsFromAndTo ==
    \A type \in {"From", "To"} : Factory(type, "Edge" :> 42) /\ ~CanBuild(type, <<>>)

ASSUME FilterFactoryTests ==
    BuildsAcceptAll /\ BuildsExplode /\ BuildsGrep /\ BuildsBinarySplit /\ BuildsFromAndTo

=============================================================================
