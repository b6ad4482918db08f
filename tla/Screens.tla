------------------------------ MODULE Screens -------------------------------
(***************************************************************************)
(* The tree of filters and the screens that work on it: Screen/LogList.cpp *)
(* (a window over the logs of one node, marks, new filters),               *)
(* Screen/FilterTree.cpp (choosing and deleting nodes), and which of them  *)
(* keeps a node alive.  What a window shows is ScrolableWindow, what a     *)
(* node has in it SimpleNode.                                              *)
(*                                                                         *)
(* The user interface is one thread: what it does for a key is a step, but *)
(* the screen of the tree stays open for several.  Meanwhile threads of    *)
(* the pool give children to nodes that split their logs, and drop nodes   *)
(* that were deleted.  A node lives as long as somebody owns it.           *)
(***************************************************************************)
EXTENDS Integers, FiniteSets

CONSTANTS
    Nodes,      \* the nodes there may be; 0 is the root
    Marks,      \* the keys a mark may have
    Cramped     \* the nodes that may be added while the terminal is too small

ASSUME NodesAssumption == 0 \in Nodes /\ Nodes \subseteq Nat /\ IsFiniteSet(Nodes)

VARIABLES
    kind,       \* "none": not there yet; "simple"; "split": Explode or BinarySplit
    parent,     \* the node that lists it among its children
    currentNode,    \* currentNode_
    window,     \* the node that currentWindow_ is of
    windows,    \* the nodes of entries_ of FilterWindows (weak pointers)
    marks,      \* the node of each mark (weak pointers)
    tasks,      \* the nodes that a task on the pool is to drop
    screen,     \* "list" or "tree"
    lines,      \* entries_ of the FilterTreeDataSource: a node per line
    line,       \* the line that is selected
    initial,    \* initialSelection of navigate()
    strayed,    \* history: a mark has led to a node that was deleted
    unshown     \* history: no window could be made for the node

tree   == <<kind, parent>>
list   == <<currentNode, window, windows>>
dialog == <<screen, lines, line, initial>>
vars   == <<tree, list, marks, tasks, dialog, strayed, unshown>>

Root == 0
None == -1

Unused == {n \in Nodes : kind[n] = "none"}

\* A node and the nodes it is under.
Above(up, node) ==
    LET above[n \in Nodes] == {n} \cup (IF up[n] = None THEN {} ELSE above[up[n]])
    IN  above[node]

Under(up, node) == {n \in Nodes : node \in Above(up, n)}

Tree == Under(parent, Root)

\* A broken variant: marks own their nodes.
OwnersAndMarks ==
    {Root, currentNode} \cup tasks \cup {lines[i] : i \in DOMAIN lines}
        \cup ({marks[m] : m \in Marks} \ {None})

\* Who owns nodes, apart from a parent: LogList its root_ and currentNode_, a task
\* the node it drops, the screen of the tree all it shows. (A task that copies
\* logs to a node owns it too, which is no more than a task that drops it late.)
Owners == {Root, currentNode} \cup tasks \cup {lines[i] : i \in DOMAIN lines}

\* The nodes whose weak pointers can be locked.
Alive == {n \in Nodes : Above(parent, n) \cap Owners # {}}

-----------------------------------------------------------------------------
(* Threads of the pool.                                                    *)

\* Explode::nodeFor(): a log has a value that none had before. (The second child
\* of a BinarySplit comes with it, which is as soon as can be.) The names are in
\* order, so the new child may be anywhere but first.
Grow(node) ==
    /\ kind[node] = "split" /\ node \in Alive
    /\ \E n \in Unused :
          /\ \E first \in Nodes : parent[first] = node /\ first < n
          /\ kind' = [kind EXCEPT ![n] = "simple"]
          /\ parent' = [parent EXCEPT ![n] = node]
    /\ UNCHANGED <<list, marks, tasks, dialog, strayed, unshown>>

\* The task that deleteNode() enqueues: p.reset().
Reset(node) ==
    /\ node \in tasks
    /\ tasks' = tasks \ {node}
    /\ UNCHANGED <<tree, list, marks, dialog, strayed, unshown>>

-----------------------------------------------------------------------------
(* LogList.                                                                *)

\* A broken variant: a new window is not remembered.
ShowOnce(node) == window' = node /\ UNCHANGED windows

\* FilterWindows::window(): the one the node has, or a new one.
Show(node) == window' = node /\ windows' = windows \cup {node}

\* Node::add() of a filter: after the other children. One that splits its logs
\* has a child of its own from the beginning.
NewNodes(as, node) ==
    LET next == CHOOSE n \in Unused : \A m \in Unused : n <= m
        own  == CHOOSE n \in Unused \ {next} : \A m \in Unused \ {next} : n <= m
    IN  IF as = "simple"
        THEN /\ kind' = [kind EXCEPT ![next] = as]
             /\ parent' = [parent EXCEPT ![next] = node]
             /\ currentNode' = next
        ELSE /\ Unused # {next}
             /\ kind' = [kind EXCEPT ![next] = as, ![own] = "simple"]
             /\ parent' = [parent EXCEPT ![next] = node, ![own] = next]
             /\ currentNode' = next

\* processLogEntry(). A node that splits takes no other children: add() throws.
\* If the terminal has become too small, window() throws when the node is the
\* current one already.
AddFilter ==
    /\ screen = "list"
    /\ kind[currentNode] = "simple" /\ Unused # {}
    /\ \E as \in {"simple", "split"} : NewNodes(as, currentNode)
    /\ \/ Show(currentNode') /\ unshown' = FALSE
       \/ currentNode' \in Cramped /\ unshown' = TRUE /\ UNCHANGED <<window, windows>>
    /\ UNCHANGED <<marks, tasks, dialog, strayed>>

\* centerAroundLog() makes windows of all the nodes, or of those from here on.
Center ==
    /\ screen = "list"
    /\ \E node \in {Root, currentNode} : windows' = windows \cup Under(parent, node)
    /\ UNCHANGED <<tree, currentNode, window, marks, tasks, dialog, strayed, unshown>>

\* createMark(); then Marks::prune().
SetMark(m) ==
    /\ screen = "list"
    /\ marks' = [k \in Marks |-> IF k = m THEN currentNode
                                 ELSE IF marks[k] \in Alive THEN marks[k] ELSE None]
    /\ UNCHANGED <<tree, list, tasks, dialog, strayed, unshown>>

\* gotoMarkAbsolute(), to a node that is still there.
GotoMark(m) ==
    /\ screen = "list"
    /\ marks[m] \in Alive
    /\ Show(marks[m])
    /\ currentNode' = marks[m]
    /\ strayed' = (marks[m] \notin Tree)
    /\ unshown' = FALSE
    /\ UNCHANGED <<tree, marks, tasks, dialog>>

-----------------------------------------------------------------------------
(* FilterTree.                                                             *)

\* appendTree() lists a node before its children, and these in their order.
Before(up, m, n) ==
    m # n /\ \/ m \in Above(up, n)
             \/ \E a \in Above(up, m), b \in Above(up, n) : up[a] = up[b] /\ a < b

\* constructEntries()
Entries(up) ==
    LET shown == Under(up, Root)
        index(n) == Cardinality({m \in shown : Before(up, m, n)})
    IN  [i \in 0 .. Cardinality(shown) - 1 |-> CHOOSE n \in shown : index(n) = i]

\* node2id(): the first line for a node that is not there.
LineOf(entries, node) ==
    IF \E i \in DOMAIN entries : entries[i] = node
    THEN CHOOSE i \in DOMAIN entries : entries[i] = node
    ELSE 0

\* A broken variant: there is one list as long as the screen is open.
ListOnce(up, node) ==
    /\ screen' = "tree"
    /\ lines' = IF screen = "tree" THEN lines ELSE Entries(up)
    /\ line' = LineOf(lines', node) /\ initial' = line'

\* The loop of selectNext() makes a new list, and navigate() selects a node.
List(up, node) ==
    /\ screen' = "tree"
    /\ lines' = Entries(up)
    /\ line' = LineOf(lines', node) /\ initial' = line'

\* processFilterTree()
OpenTree ==
    /\ screen = "list"
    /\ List(parent, currentNode)
    /\ UNCHANGED <<tree, list, marks, tasks, strayed, unshown>>

MoveLine ==
    /\ screen = "tree"
    /\ line' \in DOMAIN lines
    /\ UNCHANGED <<tree, list, marks, tasks, screen, lines, initial, strayed, unshown>>

\* id2node() of the line that is selected.
Selected == lines[line]

\* A broken variant: every node but the root can be removed.
RemovableUnlessRoot(node) == node # Root

\* Is the node one that its parent removes? Neither the root nor a child that a
\* splitting node has made: its remove() throws.
Removable(node) == node # Root /\ kind[parent[node]] = "simple"

\* selectUp(): the line above that of a node that was deleted.
NextSelected == line - 1

\* deleteNode(), after the user has confirmed it; the list is made anew.
Delete ==
    /\ screen = "tree"
    /\ IF Removable(Selected)
       THEN /\ parent' = [parent EXCEPT ![Selected] = None]
            /\ tasks' = tasks \cup {Selected}
            /\ List(parent', lines[NextSelected])
       ELSE List(parent, Selected) /\ UNCHANGED <<parent, tasks>>
    /\ UNCHANGED <<kind, list, marks, strayed, unshown>>

\* Enter returns the line that is selected, 'q' the one that was. LogList goes to
\* the node and FilterWindows::prune() forgets the windows of nodes that are gone.
Choose ==
    /\ screen = "tree"
    /\ \E i \in {line, initial} : currentNode' = lines[i]
    /\ screen' = "list" /\ lines' = <<>> /\ line' = 0 /\ initial' = 0
    /\ UNCHANGED <<tree, marks, tasks>>
    /\ window' = currentNode'
    /\ windows' = (windows \cup {currentNode'}) \cap Alive'
    /\ strayed' = FALSE /\ unshown' = FALSE

-----------------------------------------------------------------------------

Init ==
    /\ kind = [n \in Nodes |-> IF n = Root THEN "simple" ELSE "none"]
    /\ parent = [n \in Nodes |-> None]
    /\ currentNode = Root /\ window = Root /\ windows = {Root}
    /\ marks = [m \in Marks |-> None]
    /\ tasks = {}
    /\ screen = "list" /\ lines = <<>> /\ line = 0 /\ initial = 0
    /\ strayed = FALSE /\ unshown = FALSE

Pool == \E n \in Nodes : Grow(n) \/ Reset(n)
Keys == AddFilter \/ Center \/ OpenTree \/ MoveLine \/ Delete \/ Choose
            \/ \E m \in Marks : SetMark(m) \/ GotoMark(m)

Next == Pool \/ Keys

\* The pool runs its tasks. The user need not do anything.
Spec == Init /\ [][Next]_vars /\ WF_vars(\E n \in Nodes : Reset(n))

-----------------------------------------------------------------------------
\* Types.
TypeOK ==
    /\ kind \in [Nodes -> {"none", "simple", "split"}]
    /\ parent \in [Nodes -> Nodes \cup {None}]
    /\ currentNode \in Nodes /\ window \in Nodes
    /\ windows \subseteq Nodes /\ tasks \subseteq Nodes
    /\ marks \in [Marks -> Nodes \cup {None}]
    /\ screen \in {"list", "tree"}
    /\ line \in Nat /\ initial \in Nat
    /\ strayed \in BOOLEAN /\ unshown \in BOOLEAN

(* The node that the keys work on (filters are added to it, it is searched *)
(* and piped to a host) is the one whose logs are on the screen, and its   *)
(* window is the one that later visits will find: only a terminal that is  *)
(* too small comes between them, and only until the next node is chosen.   *)
WindowShowsNode == unshown \/ (window = currentNode /\ currentNode \in windows)

(* Whatever is deleted, LogList stays at or comes to a node of the tree,   *)
(* one that new logs reach: but for a mark whose node was deleted and is   *)
(* not gone yet, which leads out of the tree.                              *)
CurrentNodeInTree ==
    /\ screen = "list" => strayed \/ currentNode \in Tree
    /\ screen = "tree" => lines[line] \in Tree /\ lines[initial] \in Tree

Inv == TypeOK /\ WindowShowsNode

(* A node leaves the tree only because the user has deleted the line that  *)
(* shows it or a node above it, as the list has it and whatever children   *)
(* came after it was made; and children of a splitting node only with it.  *)
DeletesWhatIsShown ==
    [][\A n \in Tree \ Tree' :
          /\ screen = "tree"
          /\ lines[line] \in Above(parent, n)
          /\ kind[parent[lines[line]]] = "simple"]_vars

(* A node that was deleted goes, although windows and marks know it: it is *)
(* kept only by the screen of the tree, and by LogList if that is there.   *)
Kept(n) == kind[n] # "none" /\ n \notin Tree /\ n \in Alive

DeletedNodesGo ==
    []<>(screen = "list" => \A n \in Nodes : Kept(n) => n \in Under(parent, currentNode))

=============================================================================
