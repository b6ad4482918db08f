------------------------------ MODULE LogEntry ------------------------------
(***************************************************************************)
(* From the details of a log to a filter: Screen/LogEntry.cpp, its lines   *)
(* (Screen/detail/LogEntryDataSource.cpp), the forms it opens (Form), and  *)
(* Tree/FilterFactory.cpp, which makes a node of what the form holds.  The *)
(* node is added to the root, and logs come to it (FilterNodes).           *)
(*                                                                         *)
(* A path or an expression in an input field is what parsing makes of it,  *)
(* or Refused when the parser, or the constructor of the filter, throws.   *)
(***************************************************************************)
EXTENDS FilterNodes, Form, SequencesExt

CONSTANTS
    Names,      \* the names of fields in the order of their objects
    NoNames,    \* those Path::Entry does not take
    Bracketed,  \* Bracketed[name]: what Path::Entry takes a name for that ends in
                \* [n] or []: an item of an array, or all of them
    Odd,        \* the words that are not shown as they are
    Typed,      \* Typed[label]: what may be typed into a field; proposals aside
    Refused

ASSUME BracketedAssumption ==
    \A name \in DOMAIN Bracketed :
        name \notin NoNames /\ Bracketed[name].isArray /\ Bracketed[name].name # name

VARIABLES
    screen,     \* "list", "refused", "details", "form" or "error"
    log,        \* the log whose details are shown
    line,       \* the line that is selected
    asked,      \* the form: "choose", or the type of a filter
    form,       \* what is in the form
    origin      \* history: the log and the line of a filter built as proposed

dialog == <<screen, log, line, asked, form>>
vars   == <<nodeVars, dialog, origin>>

-----------------------------------------------------------------------------
(* Screen/detail/LogEntryDataSource.cpp                                    *)

\* PrintableStringConverter: a word with a backslash or a character that cannot
\* be printed turns into another word.
Shown(word) == IF word \in Odd THEN "shown" ELSE word

Line(entries, value) ==
    [path |-> Path(TRUE, entries), value |-> IF value.is = "leaf" THEN {Shown(value.text)} ELSE {}]

\* A broken variant: an item is counted from one.
ItemFromOne(name, i) == ItemOf(name, i)

\* The entry for the item of an array.
ItemEntry(name, i) == ItemOf(name, i - 1)

\* The entry for a field of an object. Brackets are put behind the name of an array.
FieldEntry(name, value) ==
    IF value.is = "array" THEN AllOf(name)
    ELSE IF name \in DOMAIN Bracketed THEN Bracketed[name] ELSE Field(name)

\* appendTree(): what has no value of its own is followed by what is in it. The
\* path of an item takes the place of the path of its array.
RECURSIVE TreeLines(_, _)
TreeLines(node, entries) ==
    CASE node.is = "object" ->
            LET names == SelectSeq(Names, LAMBDA n : n \in DOMAIN node.fields)
            IN  FlattenSeq([i \in DOMAIN names |->
                    LET value == node.fields[names[i]]
                        here  == Append(entries, FieldEntry(Shown(names[i]), value))
                    IN  <<Line(here, value)>> \o TreeLines(value, here)])
      [] node.is = "array" ->
            FlattenSeq([i \in DOMAIN node.items |->
                LET here == Append(Front(entries), ItemEntry(Shown(Last(entries).name), i))
                IN  <<Line(here, node.items[i])>> \o TreeLines(node.items[i], here)])
      [] OTHER -> <<>>

\* constructEntries(), for every log there is.
LinesOf == [l \in Logs |-> TreeLines(l.json, <<>>)]

-----------------------------------------------------------------------------
(* The forms.                                                              *)

OkQuit == <<ButtonField("ok", TRUE), ButtonField("quit", TRUE)>>

Layout(name) ==
    CASE name = "choose" ->
            <<ButtonField("Grep", FALSE), ButtonField("Explode", FALSE),
              ButtonField("BinarySplit", FALSE), ButtonField("From", FALSE),
              ButtonField("To", FALSE), ButtonField("AcceptAll", FALSE),
              ButtonField("cancel", TRUE)>>
      [] name \in {"Grep", "BinarySplit"} ->
            <<InputField("Name"), InputField("Path"), InputField("regex"),
              RadioField("Compare", <<"Key", "Value">>),
              RadioField("Case", <<"Sensitive", "Insensitive">>),
              RadioField("Search", <<"Regular", "Inverse">>),
              RadioField("Trim", <<"False", "True">>)>> \o OkQuit
      [] name = "Explode"        -> <<InputField("Name"), InputField("Path")>> \o OkQuit
      [] name \in {"From", "To"} -> <<InputField("Name"), InputField("Edge")>> \o OkQuit
      [] name = "AcceptAll"      -> <<InputField("Name"), InputField("Trim")>> \o OkQuit

\* What a form holds when it is opened. The expression proposed for a value is
\* found in this text only; an empty one is found everywhere.
Proposal(name, l, n) ==
    LET path  == LinesOf[l][n].path
        value == LinesOf[l][n].value
        common == [Name |-> "name", ok |-> "false", quit |-> "false"]
    IN  CASE name = "choose" -> [t \in FilterTypes \cup {"cancel"} |-> "false"]
          [] name \in {"Grep", "BinarySplit"} ->
                [Path |-> path, regex |-> IF value = {} THEN Words ELSE value,
                 Compare |-> IF value = {} THEN "Key" ELSE "Value",
                 Case |-> "Sensitive", Search |-> "Regular", Trim |-> "False"] @@ common
          [] name = "Explode"        -> [Path |-> path] @@ common
          [] name \in {"From", "To"} -> [Edge |-> l.key] @@ common
          [] name = "AcceptAll"      -> [Trim |-> <<>>] @@ common

\* The options each form hands over; fields to trim only if there are any.
Options(name, values) ==
    LET labels ==
            CASE name \in {"Grep", "BinarySplit"} -> {"Path", "regex", "Compare", "Case", "Search", "Trim"}
              [] name = "Explode"        -> {"Path"}
              [] name \in {"From", "To"} -> {"Edge"}
              [] name = "AcceptAll"      -> IF values.Trim = <<>> THEN {} ELSE {"Trim"}
    IN  [l \in labels |-> values[l]]

-----------------------------------------------------------------------------
(* Tree/FilterFactory.cpp: an option that is missing, one that is not known *)
(* and one that does not parse are refused.                                *)

Needed(type) ==
    CASE type \in {"Grep", "BinarySplit"} -> {"Path", "regex", "Compare", "Case", "Search", "Trim"}
      [] type = "Explode"        -> {"Path"}
      [] type \in {"From", "To"} -> {"Edge"}
      [] type = "AcceptAll"      -> {}

CanBuild(type, options) ==
    /\ Needed(type) \subseteq DOMAIN options
    /\ DOMAIN options \subseteq Needed(type) \cup (IF type = "AcceptAll" THEN {"Trim"} ELSE {})
    /\ \A l \in DOMAIN options : options[l] # Refused

-----------------------------------------------------------------------------

Init ==
    /\ NodesInit
    /\ screen = "list" /\ log = None /\ line = 0
    /\ asked = None /\ form = None /\ origin = None

\* processLogEntry() of LogList, LogEntry::process(). A name that cannot be part
\* of a path throws, also that of an array with brackets of its own, and the list
\* shows that.  Bound: one filter at a time. A log without a field has no line: it
\* is left out here.
OpenDetails(l) ==
    /\ screen = "list" /\ filter = None /\ LinesOf[l] # <<>>
    /\ IF \E i \in DOMAIN LinesOf[l] :
             Last(LinesOf[l][i].path.entries).name \in NoNames \cup DOMAIN Bracketed
       THEN screen' = "refused" /\ UNCHANGED <<log, line>>
       ELSE screen' = "details" /\ log' = l /\ line' = 1
    /\ UNCHANGED <<nodeVars, asked, form, origin>>

\* displayError() of LogList::run(), until a key is hit.
Refuse ==
    /\ screen = "refused" /\ screen' = "list"
    /\ UNCHANGED <<nodeVars, log, line, asked, form, origin>>

\* Keys of navigate() that move the window.
SelectLine ==
    /\ screen = "details"
    /\ line' \in DOMAIN LinesOf[log]
    /\ UNCHANGED <<nodeVars, screen, log, asked, form, origin>>

CloseDetails ==
    /\ screen = "details"
    /\ screen' = "list" /\ log' = None /\ line' = 0
    /\ UNCHANGED <<nodeVars, asked, form, origin>>

OpenForm(name) ==
    /\ screen' = "form" /\ asked' = name
    /\ form' = Process(Layout(name), NewForm(Proposal(name, log, line)))

\* createFilterBasedOnSelection(), selectFilter()
ChooseFilter ==
    /\ screen = "details"
    /\ OpenForm("choose")
    /\ UNCHANGED <<nodeVars, log, line, origin>>

\* A key of the form.
Press(forms) ==
    /\ screen = "form" /\ ~form.left
    /\ form' \in forms
    /\ UNCHANGED <<nodeVars, screen, log, line, asked, origin>>

Escape == Press(Exit(form))

FormKey ==
    \/ Press(ToPrevious(Layout(asked), form))
    \/ Press(ToNext(Layout(asked), form))
    \/ Press(ToFirst(form))
    \/ Press(ToLast(Layout(asked), form))
    \/ Press(Enter(Layout(asked), form))
    \/ Press(Turn(Layout(asked), form))
    \/ Press(Type(Layout(asked), form, Typed))
    \/ screen = "form" /\ \E n \in DOMAIN Layout(asked) : Press(Shortcut(Layout(asked), form, n))

CloseForm == screen' = "details" /\ asked' = None /\ form' = None

\* process() of the form that asks for the type returns.
FilterChosen ==
    /\ screen = "form" /\ asked = "choose" /\ form.left
    /\ \/ \E t \in FilterTypes : form.values[t] = "true" /\ OpenForm(t)
       \/ (\A t \in FilterTypes : form.values[t] # "true") /\ CloseForm
    /\ UNCHANGED <<nodeVars, log, line, origin>>

FormLeft == screen = "form" /\ asked \in FilterTypes /\ form.left

FormQuit ==
    /\ FormLeft /\ form.values.ok # "true"
    /\ CloseForm
    /\ UNCHANGED <<nodeVars, log, line, origin>>

\* What was typed is refused: displayError(), and the same form again.
BuildFails ==
    /\ FormLeft /\ form.values.ok = "true"
    /\ ~CanBuild(asked, Options(asked, form.values))
    /\ screen' = "error"
    /\ UNCHANGED <<nodeVars, log, line, asked, form, origin>>

ErrorDisplayed ==
    /\ screen = "error" /\ screen' = "form"
    /\ form' = Process(Layout(asked), form)
    /\ UNCHANGED <<nodeVars, log, line, asked, origin>>

\* FilterFactory::build(), and the list adds the node.
BuildFilter ==
    /\ FormLeft /\ form.values.ok = "true"
    /\ LET options == Options(asked, form.values)
       IN  /\ CanBuild(asked, options)
           /\ Add([type |-> asked, options |-> options])
           /\ origin' = IF options = Options(asked, Proposal(asked, log, line))
                        THEN [log |-> log, line |-> LinesOf[log][line]] ELSE None
    /\ screen' = "list" /\ log' = None /\ line' = 0 /\ asked' = None /\ form' = None

Dialog ==
    \/ \E l \in Logs : OpenDetails(l)
    \/ Refuse \/ SelectLine \/ CloseDetails \/ ChooseFilter
    \/ Escape \/ FormKey \/ FilterChosen \/ FormQuit
    \/ BuildFails \/ ErrorDisplayed \/ BuildFilter

LogsComing ==
    /\ NodesNext
    /\ origin' = IF filter' = None THEN None ELSE origin
    /\ UNCHANGED dialog

\* The program goes on by itself; the user, who may do anything else, hits Escape
\* again and again.
Fairness ==
    /\ WF_vars(FilterChosen \/ FormQuit \/ BuildFails \/ ErrorDisplayed \/ BuildFilter)
    /\ SF_vars(Escape)

Next == Dialog \/ LogsComing

Spec == Init /\ [][Next]_vars /\ Fairness

-----------------------------------------------------------------------------
(* Properties.                                                             *)

\* A line with a value that is shown as it is in the log, where it is not that of
\* an item inside an item (LogEntryDataSource.cpp drops the index of the outer one)
\* and no field on the way to it has a name that reads as an item of an array.
Faithful(l, json) ==
    LET Here == {p \in Places(json) : p.value.is = "leaf" /\ l.value = {p.value.text}}
    IN  /\ Here # {}
        /\ \A p \in Here : \A i \in DOMAIN p.way : p.way[i].name \notin {""} \cup DOMAIN Bracketed

\* A filter made as it is proposed, for a line that has a value, takes the log it
\* was made for: the path the details show, the expression made of the value, the
\* options of the form and the search through the log fit together.
ProposedFilterTakesItsLog ==
    origin # None /\ filter # None /\ origin.log \in Done /\ Faithful(origin.line, origin.log.json) =>
        CASE filter.type = "BinarySplit" -> origin.log \in content[1]
          [] filter.type = "Explode" ->
                \E v \in DOMAIN named : v.is = "leaf" /\ {v.text} = origin.line.value
                                         /\ origin.log \in content[named[v]]
          [] OTHER -> origin.log \in logs

TypeOK ==
    /\ filter # None => CanBuild(filter.type, filter.options)
    /\ screen \in {"list", "refused", "details", "form", "error"}
    /\ screen \in {"details", "form", "error"} => log \in Logs /\ line \in DOMAIN LinesOf[log]
    /\ screen \in {"form", "error"} => asked \in FilterTypes \cup {"choose"} /\ form.at \in DOMAIN Layout(asked)

\* What the forms are about is there: a line of a log while one of them is open, and
\* options the factory takes. And a proposed filter takes its log.
DialogOK == TypeOK /\ ProposedFilterTakesItsLog

\* Whatever was typed, whichever error was shown, Escape leads out of a form.
FormsCanBeLeft == screen \in {"form", "error"} ~> screen \in {"details", "list"}

=============================================================================
