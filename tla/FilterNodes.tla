---------------------------- MODULE FilterNodes -----------------------------
(***************************************************************************)
(* A filter under the root node and the logs that come to it: the filters  *)
(* of one condition (Tree/Filter/Grep.cpp, From.hpp, To.hpp, AcceptAll.cpp)*)
(* and those with children of their own (BinarySplit.cpp, Explode.cpp).    *)
(* Threads bring the logs: the data pumps, as they arrive, and the pool,   *)
(* which copies what the root had before; a log may come both ways.        *)
(* A step is what is done under one lock.                                  *)
(***************************************************************************)
EXTENDS Trimming, FiniteSets, TLC

CONSTANTS
    Logs,       \* the logs: records of a key and a json
    Words,      \* the names of fields and the texts of leafs in them
    Lower,      \* Lower[w]: a word without the difference between cases
    Threads,    \* the threads that insert logs
    Brings,     \* Brings[t]: the logs that come by thread t
    RootTrim,   \* trimFields_ of the root
    None

ASSUME WordsAssumption == DOMAIN Lower = Words
ASSUME BringsAssumption == Logs = UNION {Brings[t] : t \in Threads}
ASSUME LogsAssumption == \A log \in Logs : IsJson(log.json)

VARIABLES
    filter,     \* the node under the root, as built, or None
    trim,       \* trimFields_ of the node
    logs,       \* logs() of the node
    named,      \* children_ of Explode: for each name the number of a child
    content,    \* content[i]: the logs of child i; 0 is the one for the others
    trims,      \* trims[i]: trimFields_ of child i
    taken,      \* taken[t]: the logs that thread t has begun to insert
    work        \* what each thread is doing

nodeVars == <<filter, trim, logs, named, content, trims, taken, work>>

Idle == [at |-> "idle"]

-----------------------------------------------------------------------------
(* Conditions.                                                             *)

\* regexType(): icase.
Regex(o) == IF o.Case = "Sensitive" THEN o.regex
            ELSE {w \in Words : \E v \in o.regex : Lower[w] = Lower[v]}

\* Grep::matches(), checkMatch()
GrepMatches(o, json) ==
    LET res == IF o.Compare = "Key" THEN MatchesKey(json, o.Path, Regex(o))
                                    ELSE MatchesValue(json, o.Path, Regex(o))
    IN  IF o.Search = "Regular" THEN res ELSE ~res

\* matches() of the nodes that have a condition.
Matches(node, log) ==
    CASE node.type = "Grep" -> GrepMatches(node.options, log.json)
      [] node.type = "From" -> log.key >= node.options.Edge
      [] node.type = "To"   -> log.key <= node.options.Edge
      [] OTHER -> TRUE

\* optTrim() of Grep, and the fields AcceptAll is given.
OptTrim(o)    == IF o.Trim = "True" THEN <<o.Path>> ELSE <<>>
OwnTrim(node) ==
    CASE node.type = "Grep"      -> OptTrim(node.options)
      [] node.type = "AcceptAll" -> IF "Trim" \in DOMAIN node.options THEN node.options.Trim ELSE <<>>
      [] OTHER -> <<>>

\* What FilterFactory makes nodes of: an entry of a path has a name.
FilterTypes == {"Grep", "Explode", "BinarySplit", "From", "To", "AcceptAll"}
Entries     == [name : STRING \ {""}, isArray : BOOLEAN, index : Nat \cup {NoIndex}]
IsPath(p)   == p.isAbsolute \in BOOLEAN /\ p.entries \in Seq(Entries)
ListsPaths(s) == s \in Seq(Range(s)) /\ \A p \in Range(s) : IsPath(p)

CanBeMade(node) ==
    /\ node # None /\ node.type \in FilterTypes
    /\ node.type \in {"Grep", "Explode", "BinarySplit"} => IsPath(node.options.Path)
    /\ node.type = "AcceptAll" => ListsPaths(OwnTrim(node))

ASSUME RootTrimAssumption == ListsPaths(RootTrim)

\* The children a node is made with.
FirstChildren(node) ==
    CASE node.type = "BinarySplit" -> [i \in {0, 1} |-> IF i = 0 THEN <<>> ELSE OptTrim(node.options)]
      [] node.type = "Explode"     -> [i \in {0} |-> <<node.options.Path>>]
      [] OTHER -> <<>>

-----------------------------------------------------------------------------

NodesInit ==
    /\ filter = None
    /\ trim = <<>> /\ logs = {}
    /\ named = <<>> /\ content = <<>> /\ trims = <<>>
    /\ taken = [t \in Threads |-> {}] /\ work = [t \in Threads |-> Idle]

\* A broken variant: only the node itself is told what the root leaves out.
AddToItself(node) ==
    /\ filter = None
    /\ filter' = node
    /\ trim' = OwnTrim(node) \o RootTrim
    /\ trims' = FirstChildren(node)
    /\ content' = [i \in DOMAIN trims' |-> {}]
    /\ UNCHANGED <<logs, named, taken, work>>

\* Node::add() of the root; trimAdditionalFields() goes on to all children.
Add(node) ==
    /\ filter = None
    /\ filter' = node
    /\ trim' = OwnTrim(node) \o RootTrim
    /\ trims' = [i \in DOMAIN FirstChildren(node) |-> FirstChildren(node)[i] \o RootTrim]
    /\ content' = [i \in DOMAIN trims' |-> {}]
    /\ UNCHANGED <<logs, named, taken, work>>

\* SimpleNode::insert(). It has no children here.
InsertSimple(t, log) ==
    /\ filter # None /\ filter.type \in {"Grep", "From", "To", "AcceptAll"}
    /\ work[t] = Idle /\ log \in Brings[t] \ taken[t]
    /\ taken' = [taken EXCEPT ![t] = @ \cup {log}]
    /\ logs' = IF Matches(filter, log) THEN logs \cup {log} ELSE logs
    /\ UNCHANGED <<filter, trim, named, content, trims, work>>

\* BinarySplit::insert(): the log is stored here first ...
InsertSplit(t, log) ==
    /\ filter # None /\ filter.type = "BinarySplit"
    /\ work[t] = Idle /\ log \in Brings[t] \ taken[t]
    /\ taken' = [taken EXCEPT ![t] = @ \cup {log}]
    /\ logs' = logs \cup {log}
    /\ work' = [work EXCEPT ![t] = [at |-> "split", log |-> log]]
    /\ UNCHANGED <<filter, trim, named, content, trims>>

\* ... and then in one of the halves.
InsertHalf(t) ==
    /\ work[t].at = "split"
    /\ LET half == IF GrepMatches(filter.options, work[t].log.json) THEN 1 ELSE 0
       IN  content' = [content EXCEPT ![half] = @ \cup {work[t].log}]
    /\ work' = [work EXCEPT ![t] = Idle]
    /\ UNCHANGED <<filter, trim, logs, named, trims, taken>>

\* Explode::insert(): the log is stored here, and its values are looked up.
InsertExplode(t, log) ==
    /\ filter # None /\ filter.type = "Explode"
    /\ work[t] = Idle /\ log \in Brings[t] \ taken[t]
    /\ taken' = [taken EXCEPT ![t] = @ \cup {log}]
    /\ logs' = logs \cup {log}
    /\ LET values == AllNodeValues(log.json, filter.options.Path)
       IN  work' = [work EXCEPT ![t] =
                        IF values = {}
                        THEN [at |-> "store", log |-> log, values |-> values, child |-> 0]
                        ELSE [at |-> "values", log |-> log, values |-> values]]
    /\ UNCHANGED <<filter, trim, named, content, trims>>

\* insert() of a map.
With(f, x, y) == [z \in DOMAIN f \cup {x} |-> IF z = x THEN y ELSE f[z]]

\* allNodeValues() has them in order.
NextOf(values) == CHOOSE v \in values : TRUE

\* A broken variant: looked up before the lock is taken, a child that another
\* thread has just made is made once more.
NodeForAnew(t) ==
    /\ work[t].at = "values"
    /\ LET value == NextOf(work[t].values)
           child == Cardinality(DOMAIN content)
           new   == value \notin DOMAIN named \/ content[named[value]] = {}
       IN  /\ named' = IF new THEN With(named, value, child) ELSE named
           /\ content' = IF new THEN With(content, child, {}) ELSE content
           /\ trims' = IF new THEN With(trims, child, Append(trim, filter.options.Path)) ELSE trims
           /\ work' = [work EXCEPT ![t] = [at |-> "store", log |-> @.log, values |-> @.values \ {value},
                                           child |-> named'[value]]]
    /\ UNCHANGED <<filter, trim, logs, taken>>

\* nodeFor(): under the mutex, the child of that name is found or made.
NodeFor(t) ==
    /\ work[t].at = "values"
    /\ LET value == NextOf(work[t].values)
           child == Cardinality(DOMAIN content)
           new   == value \notin DOMAIN named
       IN  /\ named' = IF new THEN With(named, value, child) ELSE named
           /\ content' = IF new THEN With(content, child, {}) ELSE content
           /\ trims' = IF new THEN With(trims, child, Append(trim, filter.options.Path)) ELSE trims
           /\ work' = [work EXCEPT ![t] = [at |-> "store", log |-> @.log, values |-> @.values \ {value},
                                           child |-> named'[value]]]
    /\ UNCHANGED <<filter, trim, logs, taken>>

\* insert() of the child, which accepts all.
Store(t) ==
    /\ work[t].at = "store"
    /\ content' = [content EXCEPT ![work[t].child] = @ \cup {work[t].log}]
    /\ work' = [work EXCEPT ![t] = IF @.values = {} THEN Idle
                                   ELSE [at |-> "values", log |-> @.log, values |-> @.values]]
    /\ UNCHANGED <<filter, trim, logs, named, trims, taken>>

\* The node is deleted when every log has come to it, and another may follow.
Delete ==
    /\ filter # None
    /\ \A t \in Threads : work[t] = Idle /\ taken[t] = Brings[t]
    /\ filter' = None
    /\ trim' = <<>> /\ logs' = {} /\ named' = <<>> /\ content' = <<>> /\ trims' = <<>>
    /\ taken' = [t \in Threads |-> {}]
    /\ UNCHANGED work

NodesNext ==
    \/ \E t \in Threads, log \in Logs :
          InsertSimple(t, log) \/ InsertSplit(t, log) \/ InsertExplode(t, log)
    \/ \E t \in Threads : InsertHalf(t) \/ NodeFor(t) \/ Store(t)
    \/ Delete

\* A node of any filter under the root, one after the other.
NodesSpec == NodesInit /\ [][NodesNext \/ \E node : CanBeMade(node) /\ Add(node)]_nodeVars

-----------------------------------------------------------------------------
(* Properties.                                                             *)

Done == (UNION {taken[t] : t \in Threads})
            \ {work[t].log : t \in {u \in Threads : work[u] # Idle}}

\* An entry of a path, which has a name, and a step of a way.
Fits(step, entry) ==
    /\ step.name = entry.name
    /\ IF entry.isArray THEN step.item # NoIndex /\ entry.index \in {NoIndex, step.item}
                        ELSE step.item = NoIndex

\* The last steps of a way are those a path says.
EndsAlong(path, way) ==
    LET front == Len(way) - Len(path.entries)
    IN  /\ IF path.isAbsolute THEN front = 0 ELSE front >= 0 /\ path.entries # <<>>
        /\ \A i \in DOMAIN path.entries : Fits(way[front + i], path.entries[i])

\* What is in front of them, if the path is relative, are fields of objects.
LeadsAlong(path, way) ==
    /\ EndsAlong(path, way)
    /\ \A i \in 1 .. Len(way) - Len(path.entries) : way[i].item = NoIndex

Found(json, path) ==
    {place.value : place \in {p \in Places(json) : p.value # Null /\ LeadsAlong(path, p.way)}}

\* Every log that is through is where it belongs, and in no other place, however
\* many threads brought it: BinarySplit has it in the one half its condition
\* says, Explode in the one child of each of its values, or with the others when
\* it has none. What a path leads to is defined here by the places in a log.
EveryLogInItsPlace ==
    \A log \in Logs :
        LET places == {i \in DOMAIN content : log \in content[i]}
            meant  == IF filter = None THEN {}
                      ELSE CASE filter.type = "Explode" ->
                                    LET values == Found(log.json, filter.options.Path)
                                    IN  IF values = {} THEN {0}
                                        ELSE {named[v] : v \in values \cap DOMAIN named}
                             [] filter.type = "BinarySplit" ->
                                    {IF GrepMatches(filter.options, log.json) THEN 1 ELSE 0}
                             [] OTHER -> {}
        IN  /\ IF log \in Done THEN places = meant ELSE places \subseteq meant
            /\ places # {} => log \in logs
            /\ log \in Done /\ filter.type = "Explode" =>
                   Found(log.json, filter.options.Path) \subseteq DOMAIN named

NodesTypeOK ==
    /\ filter # None => CanBeMade(filter)
    /\ logs \subseteq Logs
    /\ DOMAIN content = DOMAIN trims
    /\ \A v \in DOMAIN named : named[v] \in DOMAIN content \ {0}
    /\ \A i \in DOMAIN content : content[i] \subseteq Logs
    /\ \A t \in Threads : taken[t] \subseteq Brings[t]

\* Both, and no two values share a child.
NodesOK ==
    /\ NodesTypeOK /\ EveryLogInItsPlace
    /\ \A v, w \in DOMAIN named : v # w => named[v] # named[w]

\* A path that trimFields() can follow: arrays are no more than its end.
Plain(path) == \A i \in 1 .. Len(path.entries) - 1 : ~path.entries[i].isArray

\* What a window shows of a log (FilterWindows.cpp: trimFields(in,
\* node->trimFields())) has no place left at the end of a path that the root, a filter
\* above or the node itself leaves out, not even in an array, where a relative path
\* finds nothing. Cutting is a walk of its own through a log, and a node hears of what
\* is left out when it is added, or made by its parent.
NoneShown(shown, fields, paths) ==
    \A log \in shown : \A p \in {q \in paths : Plain(q) /\ q.entries # <<>>} :
        \A place \in TrimFields(log.json, fields) : ~EndsAlong(p, place.way)

ShownWithoutTrimmed ==
    filter # None =>
        /\ NoneShown(logs, trim, Range(RootTrim) \cup Range(OwnTrim(filter)))
        /\ \A i \in DOMAIN content :
              NoneShown(content[i], trims[i],
                      Range(RootTrim)
                          \cup (IF filter.type = "Explode" THEN {filter.options.Path} ELSE {})
                          \cup (IF filter.type = "BinarySplit" /\ i = 1
                                THEN Range(OptTrim(filter.options)) ELSE {}))

=============================================================================
