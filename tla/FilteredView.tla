---------------------------- MODULE FilteredView ----------------------------
(***************************************************************************)
(* What a node of the filter tree promises, without the threads, the tasks *)
(* and the chunks that make it true: every child shows logs of the node    *)
(* that its filter takes, and nothing else; what it shows it keeps; and it *)
(* comes to show all of them.                                              *)
(*                                                                         *)
(* The promise has one hole: SimpleNode goes through its children without  *)
(* the mutex that addition and removal of children take.  A log that is on *)
(* its way to the children while they change may miss some of them         *)
(* (excused), or the program dies (up is FALSE).                           *)
(***************************************************************************)
CONSTANTS
    Keys,       \* the logs
    Nodes,      \* the nodes that may become children
    Matches     \* for each of them, the logs its filter takes

VARIABLES
    base,       \* the logs of the node
    kids,       \* its children
    view,       \* the logs of each child
    excused,    \* the logs that were on their way when the children changed
    up          \* whether the program runs

vars == <<base, kids, view, excused, up>>

\* The logs a child is to show and does not show yet.
Missing(c) == {k \in base \cap Matches[c] : k \notin view[c] /\ k \notin excused}

Init ==
    /\ base = {} /\ kids = {} /\ excused = {}
    /\ view = [c \in Nodes |-> {}]
    /\ up = TRUE

\* A log arrives.
Receive ==
    /\ up
    /\ \E k \in Keys : base' = base \cup {k}
    /\ UNCHANGED <<kids, view, excused, up>>

AddKid ==
    /\ up
    /\ \E c \in Nodes : kids' = kids \cup {c}
    /\ UNCHANGED <<base, view, excused, up>>

DropKid ==
    /\ up
    /\ \E c \in Nodes : kids' = kids \ {c}
    /\ UNCHANGED <<base, view, excused, up>>

\* A child shows one more log of the node.
Show(c) ==
    /\ up
    /\ \E k \in base \cap Matches[c] : view' = [view EXCEPT ![c] = @ \cup {k}]
    /\ UNCHANGED <<base, kids, excused, up>>

Excuse ==
    /\ up
    /\ \E k \in base : excused' = excused \cup {k}
    /\ UNCHANGED <<base, kids, view, up>>

Die == up' = FALSE /\ UNCHANGED <<base, kids, view, excused>>

Next == Receive \/ AddKid \/ DropKid \/ (\E c \in Nodes : Show(c)) \/ Excuse \/ Die

\* A child that misses a log gets one of those it misses.
ShowMissing(c) ==
    /\ c \in kids
    /\ \E k \in Missing(c) : view' = [view EXCEPT ![c] = @ \cup {k}]
    /\ Show(c)

Safe == Init /\ [][Next]_vars
Fair == \A c \in Nodes : WF_vars(ShowMissing(c))

Spec == Safe /\ Fair

=============================================================================
