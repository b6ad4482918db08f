------------------------------- MODULE Config -------------------------------
(***************************************************************************)
(* The configuration of the program (CursATE/extractConfig.cpp), made of   *)
(* the options on its command line.  options is a function from those that *)
(* are given to their values: a number, a word, or the JSON a word parses  *)
(* to, or Malformed when it does not.                                      *)
(***************************************************************************)
EXTENDS KeyExtractor

CONSTANT Tokenized  \* Tokenized[w]: the tokens of a word that is the text of a path

Malformed     == [is |-> "malformed"]
Help          == [is |-> "help"]
InvalidConfig == Thrown("InvalidConfig")

Default(options, name, value) == IF name \in DOMAIN options THEN options[name] ELSE value

\* possibleKeyFormats()
KeyFormats ==
    [n \in {"raw", "iso8601-ns", "unix", "unix-ms", "unix-us", "unix-ns", "unix-float"} |->
        CASE n = "raw" -> "Raw"         [] n = "iso8601-ns" -> "ISO8601_ns"
          [] n = "unix" -> "UNIX"       [] n = "unix-ms" -> "UNIX_ms"
          [] n = "unix-us" -> "UNIX_us" [] n = "unix-ns" -> "UNIX_ns"
          [] n = "unix-float" -> "UNIX_float"]

IsString(json)  == json.is = "leaf" /\ json.text \in Quoted
IsInteger(json) == json.is = "leaf" /\ json.text \in DOMAIN Int64 \ (Quoted \cup Floats)

\* toVectorOfString()
StringsOf(json) == [i \in DOMAIN json.items |-> json.items[i].text]
AreStrings(json) == json.is = "array" /\ \A i \in DOMAIN json.items : IsString(json.items[i])

\* toVectorOfPaths()
PathsOf(json)  == [i \in DOMAIN json.items |-> Parse(Tokenized[json.items[i].text])]
ArePaths(json) == AreStrings(json) /\ \A i \in DOMAIN json.items : ~Throws(PathsOf(json)[i])

\* toMapStringNumber()
NumbersOf(json)  == [k \in DOMAIN json.fields |-> Int64[json.fields[k].text]]
AreNumbers(json) == json.is = "object" /\ \A k \in DOMAIN json.fields : IsInteger(json.fields[k])

Accepted(options) ==
    /\ \A name \in DOMAIN options : options[name] # Malformed
    /\ ~{"parse-by-json", "parse-by-line"} \subseteq DOMAIN options
    /\ "key-format" \in DOMAIN options => options["key-format"].text \in DOMAIN KeyFormats
    /\ "key-path" \in DOMAIN options
    /\ LET path == Parse(Tokenized[options["key-path"].text])
       IN  ~Throws(path) /\ ~InvalidKeyPath(path)
    /\ \A name \in {"silent-tags", "priority-tags"} \cap DOMAIN options : AreStrings(options[name])
    /\ "padded-fields" \in DOMAIN options => AreNumbers(options["padded-fields"])
    /\ "trim-fields" \in DOMAIN options => ArePaths(options["trim-fields"])

\* extractConfig()
ExtractConfig(options) ==
    IF Default(options, "port", Help) = Malformed THEN InvalidConfig
    ELSE IF "help" \in DOMAIN options THEN Help
    ELSE IF ~Accepted(options) THEN InvalidConfig
    ELSE LET none == Array(<<>>)
             path == Parse(Tokenized[options["key-path"].text])
         IN  [is |-> "config",
              port |-> Default(options, "port", Leaf("4242")).text,
              hardBreak |-> "parse-by-json" \notin DOMAIN options,
              keyPath |-> path,
              keyFormat |-> KeyFormats[Default(options, "key-format", Leaf("iso8601-ns")).text],
              silentTags |-> ToSet(StringsOf(Default(options, "silent-tags", none))),
              priorityTags |-> StringsOf(Default(options, "priority-tags", none)),
              paddedFields |-> NumbersOf(Default(options, "padded-fields", Object(<<>>))),
              trimFields |-> PathsOf(Default(options, "trim-fields", none))
                                 \o (IF "dont-trim-key" \in DOMAIN options THEN <<>> ELSE <<path>>)]

=============================================================================
