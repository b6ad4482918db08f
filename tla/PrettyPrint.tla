---------------------------- MODULE PrettyPrint -----------------------------
(***************************************************************************)
(* The line a log is shown as (Printers/OrderedPrettyPrint.cpp), behind    *)
(* its sequence number.  A configuration has the tags that are silent, as  *)
(* a set, those of priority, as a sequence, and the padding of fields.     *)
(***************************************************************************)
EXTENDS LogPaths, SequencesExt

CONSTANTS
    NameOrder,      \* names of fields as an object iterates over them
    Printable,      \* Printable[w]: what PrintableStringConverter makes of an odd word
    FloatTexts      \* the texts that are floating point numbers

PrettyConfig(silent, priority, padding) ==
    [silentTags |-> silent, priorityTags |-> priority, paddedFields |-> padding]

NoConfig == PrettyConfig({}, <<>>, <<>>)

Fails(why) == [fails |-> why]

Concat(texts) == FoldLeft(LAMBDA a, b : a \o b, "", texts)

PrintableText(word) == IF word \in DOMAIN Printable THEN Printable[word] ELSE word

\* normalFloat(): zeros and dots are cut from the end; those of the whole part
\* too, when there is nothing else behind them.
RECURSIVE NormalFloat(_)
NormalFloat(text) ==
    IF text # "" /\ SubSeq(text, Len(text), Len(text)) \in {"0", "."}
    THEN NormalFloat(SubSeq(text, 1, Len(text) - 1))
    ELSE text

PaddingFor(config, tag) == IF tag \in DOMAIN config.paddedFields THEN config.paddedFields[tag] ELSE 0

\* constructValue(), with std::setw().
ValueText(text, padding) ==
    LET shown == IF text \in FloatTexts THEN NormalFloat(text) ELSE PrintableText(text)
    IN  Concat([i \in 1 .. padding - Len(shown) |-> " "]) \o shown

\* prioritizedIteratorsVector()
Prioritized(config, node) ==
    LET first == SelectSeq(config.priorityTags, LAMBDA n : n \in DOMAIN node.fields)
    IN  first \o SelectSeq(NameOrder, LAMBDA n : n \in DOMAIN node.fields \ ToSet(first))

\* printNode(), constructObject(), constructArray()
RECURSIVE PrintNode(_, _, _)
PrintField(config, name, value) ==
    (IF name \in config.silentTags THEN "" ELSE PrintableText(name) \o "=")
        \o PrintNode(config, value, PaddingFor(config, name))

PrintNode(config, node, padding) ==
    CASE node.is = "object" ->
            LET names == Prioritized(config, node)
            IN  "{" \o Concat([i \in DOMAIN names |->
                                  " " \o PrintField(config, names[i], node.fields[names[i]])]) \o " }"
      [] node.is = "array" ->
            "[" \o Concat([i \in DOMAIN node.items |-> " " \o PrintNode(config, node.items[i], 0)]) \o " ]"
      [] node.is = "leaf" -> ValueText(node.text, padding)

\* A tag of priority that is given twice is looked for again after it was taken
\* out, and the assertion that it was found fails. A null has no text: it throws.
Failures(config, node) ==
    LET tags    == config.priorityTags
        repeats == {tags[i] : i \in {j \in DOMAIN tags : tags[j] \in ToSet(SubSeq(tags, 1, j - 1))}}
    IN  {why \in {"assertion", "logic_error"} :
            \E n \in Nodes(node) :
               IF why = "logic_error" THEN n = Null
               ELSE n.is = "object" /\ repeats \cap DOMAIN n.fields # {}}

\* operator(): an object of its own has no braces.
PrettyPrint(config, key, json) ==
    IF Failures(config, json) # {} THEN Fails(Failures(config, json))
    ELSE key \o " " \o
         (IF json.is # "object" THEN PrintNode(config, json, PaddingFor(config, key))
          ELSE LET names == Prioritized(config, json)
               IN  Concat([i \in DOMAIN names |->
                       (IF i = 1 THEN "" ELSE " ")
                           \o PrintField(config, names[i], json.fields[names[i]])]))

=============================================================================
