----------------------------- MODULE PathTexts ------------------------------
(***************************************************************************)
(* The text of a path (Tree/Path.cpp): how it is parsed, built from the    *)
(* texts of its entries, and written.  A text is a sequence of the tokens  *)
(* ".", "[", "]" and words, the longest runs of other characters.          *)
(***************************************************************************)
EXTENDS LogPaths, SequencesExt

CONSTANT Index      \* Index[w]: what \s*([0-9]*)\s* makes of the word w, if it
                    \* does: a number, or NoIndex when there are only blanks

ASSUME IndexAssumption == \A w \in DOMAIN Index : Index[w] \in Nat \cup {NoIndex}

Thrown(exception) == [thrown |-> exception]
Throws(result)    == "thrown" \in DOMAIN result

IsWord(token) == token \notin {".", "[", "]"}

\* The constructor of Path::Entry.  Bound: numbers fit into 64 bits (stoull()).
Entry(text) ==
    LET named  == text # <<>> /\ IsWord(text[1])
        number == IF Len(text) = 4 THEN text[3] ELSE ""
    IN  CASE text = <<>>           -> Thrown("EmptyNode")
          [] "." \in ToSet(text)   -> Thrown("InvalidNode")
          [] named /\ Len(text) = 1 -> Field(text[1])
          [] named /\ Tail(text) = <<"[", "]">> -> AllOf(text[1])
          [] named /\ Tail(text) = <<"[", number, "]">> /\ number \in DOMAIN Index ->
                IF Index[number] = NoIndex THEN AllOf(text[1]) ELSE ItemOf(text[1], Index[number])
          [] OTHER -> Thrown("InvalidArray")

\* Entries are made from left to right; the first that throws ends it.
PathOf(isAbsolute, texts) ==
    LET entries == [i \in DOMAIN texts |-> Entry(texts[i])]
        wrong   == {i \in DOMAIN texts : Throws(entries[i])}
    IN  IF wrong = {} THEN Path(isAbsolute, entries)
        ELSE entries[CHOOSE i \in wrong : \A j \in wrong : i <= j]

\* boost::tokenizer: what is between the dots, where there is something.
Tokens(text) ==
    SelectSeq(FoldLeft(LAMBDA parts, token :
                           IF token = "." THEN Append(parts, <<>>)
                           ELSE [parts EXCEPT ![Len(parts)] = Append(@, token)],
                       << <<>> >>, text),
              LAMBDA part : part # <<>>)

Parse(text) ==
    CASE text = <<>>    -> Path(FALSE, <<>>)
      [] text = <<".">> -> Path(TRUE, <<>>)
      [] OTHER ->
            IF \/ \E i \in 1 .. Len(text) - 1 : text[i] = "." /\ text[i + 1] = "."
               \/ Last(text) = "."
            THEN Thrown("EmptyNode")
            ELSE PathOf(text[1] = ".", Tokens(text))

\* nodes: the texts of the entries, and "." first for an absolute path.
Build(nodes) ==
    IF nodes # <<>> /\ nodes[1] = <<".">> THEN PathOf(TRUE, Tail(nodes)) ELSE PathOf(FALSE, nodes)

EntryStr(entry) ==
    <<entry.name>> \o
    (CASE ~entry.isArray -> <<>>
       [] entry.isArray /\ entry.index = NoIndex -> <<"[", "]">>
       [] OTHER -> <<"[", ToString(entry.index), "]">>)

Str(path) ==
    (IF path.isAbsolute THEN <<".">> ELSE <<>>)
        \o FlattenSeq([i \in DOMAIN path.entries |->
               IF i = 1 THEN EntryStr(path.entries[i]) ELSE <<".">> \o EntryStr(path.entries[i])])

IsUnique(path) ==
    path.isAbsolute /\ \A i \in DOMAIN path.entries :
                          path.entries[i].isArray => path.entries[i].index # NoIndex

-----------------------------------------------------------------------------
(* Properties.                                                             *)

\* A path is written so that it parses again, to itself: fields to trim and
\* paths in forms are written into options and parsed from them.  Two texts of
\* one path differ in nothing but the blanks around an index.
ParsedAsWritten(texts) ==
    \A text \in texts :
        LET path == Parse(text)
        IN  ~Throws(path) =>
                /\ Parse(Str(path)) = path
                /\ Len(Str(path)) <= Len(text)
                /\ Build((IF path.isAbsolute THEN << <<".">> >> ELSE <<>>)
                            \o [i \in DOMAIN path.entries |-> EntryStr(path.entries[i])]) = path

=============================================================================
