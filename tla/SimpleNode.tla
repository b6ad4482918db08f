----------------------------- MODULE SimpleNode -----------------------------
(***************************************************************************)
(* A node of the filter tree and its children, Tree/SimpleNode.cpp.  Logs  *)
(* are inserted by any number of threads while children are added and      *)
(* removed; a new child gets the logs the node has by a task of the thread *)
(* pool that copies them in chunks, each chunk a task of its own.          *)
(*                                                                         *)
(* A step is what runs under one hold of a lock: of the Logs of the node,  *)
(* of the Logs of a child (a child's insert(); what that does to the       *)
(* child's own children is this module again, one level down), or of       *)
(* mutex_, which guards children_ in add() and remove() only.              *)
(*                                                                         *)
(* The pool runs tasks of the node's queue and of the queues of its        *)
(* children, on several threads and in turns, so in no particular order:   *)
(* the queued tasks are sets here.  children_ is a vector, but no child    *)
(* cares where it stands: it is a set too, and a loop visits it in any     *)
(* order.                                                                  *)
(***************************************************************************)
EXTENDS Logs

CONSTANTS
    Keys,       \* the keys of logs
    Accepted,   \* the logs that the node itself takes (matches())
    Nodes,      \* the nodes that may become children
    Matches,    \* for each of them, the logs it takes
    Inserters,  \* the threads that call insert()
    chunkSize   \* logs per chunk: 10'000

ASSUME KeysAssumption == Keys \subseteq Nat /\ Accepted \subseteq Keys
ASSUME MatchesAssumption == Matches \in [Nodes -> SUBSET Keys]

\* A chunk of one log is what ends the copy, so a chunk has room for two.
ASSUME ChunkAssumption == chunkSize \in Nat /\ chunkSize >= 2

VARIABLES
    logs,       \* the keys in logs_
    children,   \* children_
    view,       \* the logs of each node that may be a child
    at,         \* where each inserter is: "idle", "logged" or "loop"
    key,        \* the log it inserts
    todo,       \* the children its loop has still to visit
    raced,      \* what has happened to children_ since its loop began
    copy,       \* how far each child is with getting the logs of the node
    cursor,     \* lastKey of the copy
    chunks,     \* the tasks insertChunk(), queued or running
    torn,       \* history: logs whose loop has passed over a child
    crashed     \* the program died of undefined behaviour

loopVars == <<at, key, todo, raced>>
copyVars == <<copy, cursor, chunks>>
vars == <<logs, children, view, loopVars, copyVars, torn, crashed>>

NoKey == -1     \* the value of a local variable outside its function

\* A task insertChunk(), queued or with its weak pointer locked.
Chunk(c, ks, is) == [node |-> c, keys |-> ks, is |-> is]

\* A broken variant: a child does not look whether it takes the log.
ChildTakesAll(c, k) == view' = [view EXCEPT ![c] = Inserted(@, k)]

\* A child's insert(): its matches(), and its Logs. A matches() that throws is
\* swallowed by insertToChild(), which is the same as not taking the log.
ChildInserts(c, k) ==
    view' = IF k \in Matches[c] THEN [view EXCEPT ![c] = Inserted(@, k)] ELSE view

-----------------------------------------------------------------------------
(* insert().                                                               *)

\* A broken variant: the log goes to the children only.
InsertLogUnstored(t, k) ==
    /\ ~crashed /\ at[t] = "idle"
    /\ k \in Accepted
    /\ at' = [at EXCEPT ![t] = "logged"]
    /\ key' = [key EXCEPT ![t] = k]
    /\ UNCHANGED <<logs, children, view, todo, raced, copyVars, torn, crashed>>

\* A log the node takes goes into its Logs. (Another log leaves no trace.)
InsertLog(t, k) ==
    /\ ~crashed /\ at[t] = "idle"
    /\ k \in Accepted
    /\ logs' = Inserted(logs, k)
    /\ at' = [at EXCEPT ![t] = "logged"]
    /\ key' = [key EXCEPT ![t] = k]
    /\ UNCHANGED <<children, view, todo, raced, copyVars, torn, crashed>>

\* The loop of an inserter goes on with these children, or ends.
GoOn(t, rest) ==
    /\ todo' = [todo EXCEPT ![t] = rest]
    /\ at' = [at EXCEPT ![t] = IF rest = {} THEN "idle" ELSE "loop"]
    /\ key' = [key EXCEPT ![t] = IF rest = {} THEN NoKey ELSE @]
    /\ raced' = [raced EXCEPT ![t] = IF rest = {} THEN "no" ELSE @]

\* A broken variant: children that are still being filled are left to the copy.
BeginLoopFilled(t) ==
    /\ ~crashed /\ at[t] = "logged"
    /\ GoOn(t, {c \in children : copy[c] = "done"})
    /\ UNCHANGED <<logs, children, view, copyVars, torn, crashed>>

\* insertToChildren() reads begin() and end() of children_, without mutex_.
BeginLoop(t) ==
    /\ ~crashed /\ at[t] = "logged"
    /\ GoOn(t, children)
    /\ UNCHANGED <<logs, children, view, copyVars, torn, crashed>>

\* The loop inserts the log to the next child.
Visit(t) ==
    /\ ~crashed /\ at[t] = "loop"
    /\ \E c \in todo[t] : ChildInserts(c, key[t]) /\ GoOn(t, todo[t] \ {c})
    /\ UNCHANGED <<logs, children, copyVars, torn, crashed>>

\* The loop reads a vector that has been changed under it. erase() has moved
\* the children down by one: the one after the current one is passed over ...
PassOver(t) ==
    /\ ~crashed /\ at[t] = "loop" /\ raced[t] = "shrunk"
    /\ torn' = torn \cup {key[t]}
    /\ \E c \in todo[t] : GoOn(t, todo[t] \ {c})
    /\ UNCHANGED <<logs, children, view, copyVars, crashed>>

\* ... or there is no child any more where it reads: push_back() has given the
\* memory back, erase() has emptied the place.
Crash(t) ==
    /\ ~crashed /\ at[t] = "loop" /\ raced[t] # "no"
    /\ crashed' = TRUE
    /\ UNCHANGED <<logs, children, view, loopVars, copyVars, torn>>

-----------------------------------------------------------------------------
(* add() and remove(), under mutex_.                                       *)

\* The loops that are under way read a vector that changes.
RaceLoops(how) ==
    raced' = [t \in Inserters |->
                IF at[t] = "loop" /\ raced[t] # "shrunk" THEN how ELSE raced[t]]

\* addImpl() lists the child ...
ListChild(c) ==
    /\ ~crashed /\ copy[c] = "none"
    /\ children' = children \cup {c}
    /\ RaceLoops("grown")
    /\ copy' = [copy EXCEPT ![c] = "listed"]
    /\ UNCHANGED <<logs, view, at, key, todo, cursor, chunks, torn, crashed>>

\* ... and passAllLogsToChild() enqueues the copy.
EnqueueCopy(c) ==
    /\ ~crashed /\ copy[c] = "listed"
    /\ copy' = [copy EXCEPT ![c] = "queued"]
    /\ UNCHANGED <<logs, children, view, loopVars, cursor, chunks, torn, crashed>>

\* remove(): the node loses the child. Whoever called add() has it first.
RemoveChild(c) ==
    /\ ~crashed /\ c \in children /\ copy[c] # "listed"
    /\ children' = children \ {c}
    /\ RaceLoops("shrunk")
    /\ UNCHANGED <<logs, view, at, key, todo, copyVars, torn, crashed>>

-----------------------------------------------------------------------------
(* The copy: enqueueInsertionOfAllChunks() and insertChunk(). Their weak   *)
(* pointer to the child can be locked as long as the node lists the child, *)
(* and perhaps for a while after. (The pool is there as long as the child, *)
(* which owns it.)                                                         *)

Stop(c) ==
    /\ copy' = [copy EXCEPT ![c] = "done"]
    /\ cursor' = [cursor EXCEPT ![c] = NoKey]

\* getFirstKey().
BeginCopy(c) ==
    /\ ~crashed /\ copy[c] = "queued"
    /\ IF logs = {}
       THEN Stop(c)
       ELSE /\ copy' = [copy EXCEPT ![c] = "running"]
            /\ cursor' = [cursor EXCEPT ![c] = First(logs)]
    /\ UNCHANGED <<logs, children, view, loopVars, chunks, torn, crashed>>

NextChunk(c) == From(logs, cursor[c], chunkSize)

\* A broken variant: a full chunk ends the copy as well.
ChunkNotOverfull(ks) == Cardinality(ks) <= chunkSize

\* The chunk that ends the copy: done = (chunk.size() == 1).
LastChunk(ks) == Cardinality(ks) = 1

\* A broken variant: the next chunk starts behind the last log of this one.
NextCursorBehind(ks) == Last(ks) + 1

NextCursor(ks) == Last(ks)

\* An iteration. The next chunk starts with the last log of this one.
CopyChunk(c) ==
    /\ ~crashed /\ copy[c] = "running"
    /\ chunks' = IF NextChunk(c) = {} THEN chunks
                 ELSE chunks \cup {Chunk(c, NextChunk(c), "queued")}
    /\ IF NextChunk(c) = {} \/ LastChunk(NextChunk(c))
       THEN Stop(c)
       ELSE cursor' = [cursor EXCEPT ![c] = NextCursor(NextChunk(c))] /\ UNCHANGED copy
    /\ UNCHANGED <<logs, children, view, loopVars, torn, crashed>>

\* The child is gone, and with it the rest of the copy.
AbandonCopy(c) ==
    /\ ~crashed /\ copy[c] = "running" /\ c \notin children
    /\ Stop(c)
    /\ UNCHANGED <<logs, children, view, loopVars, chunks, torn, crashed>>

\* insertChunk() locks its weak pointer ...
HoldChild(ch) ==
    /\ ~crashed /\ ch.is = "queued"
    /\ chunks' = (chunks \ {ch}) \cup {Chunk(ch.node, ch.keys, "locked")}
    /\ UNCHANGED <<logs, children, view, loopVars, copy, cursor, torn, crashed>>

\* ... or finds the child gone.
DropChunk(ch) ==
    /\ ~crashed /\ ch.is = "queued" /\ ch.node \notin children
    /\ chunks' = chunks \ {ch}
    /\ UNCHANGED <<logs, children, view, loopVars, copy, cursor, torn, crashed>>

\* What is left of a chunk when its first log is inserted.
Rest(ch) == ch.keys \ {First(ch.keys)}

\* It inserts its logs one by one, in order.
InsertNext(ch) ==
    /\ ~crashed /\ ch.is = "locked"
    /\ ChildInserts(ch.node, First(ch.keys))
    /\ chunks' = (chunks \ {ch})
                    \cup (IF Rest(ch) = {} THEN {} ELSE {Chunk(ch.node, Rest(ch), "locked")})
    /\ UNCHANGED <<logs, children, loopVars, copy, cursor, torn, crashed>>

-----------------------------------------------------------------------------

Init ==
    /\ logs = {} /\ children = {} /\ chunks = {} /\ torn = {}
    /\ view = [c \in Nodes |-> {}]
    /\ at = [t \in Inserters |-> "idle"]
    /\ key = [t \in Inserters |-> NoKey]
    /\ todo = [t \in Inserters |-> {}]
    /\ raced = [t \in Inserters |-> "no"]
    /\ copy = [c \in Nodes |-> "none"]
    /\ cursor = [c \in Nodes |-> NoKey]
    /\ crashed = FALSE

LoopStep(t) == BeginLoop(t) \/ Visit(t) \/ PassOver(t) \/ Crash(t)

Membership(c) == ListChild(c) \/ EnqueueCopy(c) \/ RemoveChild(c)

CopyTask(c) == BeginCopy(c) \/ CopyChunk(c) \/ AbandonCopy(c)

ChunkTask(ch) == HoldChild(ch) \/ DropChunk(ch) \/ InsertNext(ch)

Dead == crashed /\ UNCHANGED vars

Next ==
    \/ \E t \in Inserters : (\E k \in Keys : InsertLog(t, k)) \/ LoopStep(t)
    \/ \E c \in Nodes : Membership(c) \/ CopyTask(c)
    \/ \E ch \in chunks : ChunkTask(ch)
    \/ Dead

\* The threads that are inside insert() or addImpl() go on, and the pool runs
\* its tasks: filters are served in turns, so none is passed over for ever.
Fairness ==
    /\ \A t \in Inserters : WF_vars(LoopStep(t))
    /\ \A c \in Nodes :
          /\ WF_vars(EnqueueCopy(c))
          /\ WF_vars(CopyTask(c))
          /\ WF_vars(\E ch \in chunks : ch.node = c /\ ChunkTask(ch))

Spec == Init /\ [][Next]_vars /\ Fairness

-----------------------------------------------------------------------------
(* Properties.                                                             *)

\* Every variable has its type.
TypeOK ==
    /\ logs \subseteq Keys /\ IsFiniteSet(logs)
    /\ children \subseteq Nodes
    /\ view \in [Nodes -> SUBSET Keys]
    /\ at \in [Inserters -> {"idle", "logged", "loop"}]
    /\ key \in [Inserters -> Keys \cup {NoKey}]
    /\ todo \in [Inserters -> SUBSET Nodes]
    /\ raced \in [Inserters -> {"no", "grown", "shrunk"}]
    /\ copy \in [Nodes -> {"none", "listed", "queued", "running", "done"}]
    /\ cursor \in [Nodes -> Keys \cup {NoKey}]
    /\ chunks \subseteq [node : Nodes, keys : SUBSET Keys, is : {"queued", "locked"}]
    /\ torn \subseteq Keys
    /\ crashed \in BOOLEAN

\* What is on its way to a child is a log of the node.
OnTheWay ==
    /\ \A t \in Inserters : at[t] # "idle" => key[t] \in logs
    /\ \A c \in Nodes : copy[c] = "running" => cursor[c] \in logs
    /\ \A ch \in chunks : ch.keys # {} /\ ch.keys \subseteq logs

\* A child that misses a log of the node will get it: from the loop of an
\* inserter, from a chunk, or from the part of the copy that is still to come.
Pending(c, k) ==
    \/ \E t \in Inserters : at[t] = "logged" /\ key[t] = k
    \/ \E t \in Inserters : at[t] = "loop" /\ key[t] = k /\ c \in todo[t]
    \/ copy[c] \in {"listed", "queued"}
    \/ copy[c] = "running" /\ cursor[c] <= k
    \/ \E ch \in chunks : ch.node = c /\ k \in ch.keys

\* No log falls between the loops of insert() and the copy of add(), whatever
\* arrives while a child is being added: every log the child takes is in the
\* child or on its way, unless the children changed under a loop.
NoLostLog ==
    \A c \in children : \A k \in logs \cap Matches[c] :
        k \in view[c] \/ k \in torn \/ Pending(c, k)

\* A child that is listed has been through addImpl().
ListedIsCopied == \A c \in children : copy[c] # "none"

\* A child shows logs of its node only, and only those its filter takes.
ShownIsThere == \A c \in Nodes : view[c] \subseteq logs \cap Matches[c]

\* What every step preserves. The parts need each other: what is on its way must
\* be a log of the node for the child to show no other, and the copy must stand
\* on a log of the node for its next chunk to be found.
Inv == TypeOK /\ OnTheWay /\ ListedIsCopied /\ ShownIsThere /\ NoLostLog

Quiet ==
    /\ \A t \in Inserters : at[t] = "idle"
    /\ \A c \in Nodes : copy[c] \in {"none", "done"}
    /\ chunks = {}

\* When nothing is under way, a child shows just the logs of the node that its
\* filter takes, those apart whose loop was disturbed.
CompleteWhenQuiet ==
    Quiet => \A c \in children :
                /\ view[c] \subseteq logs \cap Matches[c]
                /\ logs \cap Matches[c] \subseteq view[c] \cup torn

\* The promise of a node: see FilteredView.
FV == INSTANCE FilteredView WITH base <- logs, kids <- children,
                                 excused <- torn, up <- ~crashed

\* Every step of the node is one the promise allows.
ImplementsFilteredView == FV!Safe

\* Every child comes to show what it misses, for as long as it is a child.
FillsViews == FV!Fair

\* The test "adding child in a middle of a run adds all the logs to its filter
\* base" (SimpleNode.ut.cpp:71): insertion and addition may go together.
NoCrash == ~crashed

=============================================================================
