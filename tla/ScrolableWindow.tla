--------------------------- MODULE ScrolableWindow ---------------------------
(***************************************************************************)
(* A window that shows some lines of a data source, one of them selected:  *)
(* Curses/detail/ScrolableWindowBackend.cpp, the refresh() of              *)
(* ScrolableWindow.cpp, and the loop of Screen/LogList.cpp that refreshes  *)
(* the window and waits for a key.                                         *)
(*                                                                         *)
(* The logs of a node arrive from other threads: each call of the data     *)
(* source is a step, and logs may arrive between any two.  They are only   *)
(* pruned by tests.  The source of a window outlives it: it is a list that *)
(* does not change, or the logs of a node that LogList holds.              *)
(***************************************************************************)
EXTENDS DataSource

CONSTANTS
    Ids,        \* the ids there may be, 0, 1 and so on
    Heights     \* the heights the terminal may have, without a border

ASSUME IdsAssumption ==
    IsFiniteSet(Ids) /\ 0 \in Ids /\ Ids \subseteq Nat /\ \A x \in Ids : 0 .. x \subseteq Ids
ASSUME HeightsAssumption == Heights \subseteq Nat \ {0}

VARIABLES
    kind,       \* "logs" or "list"
    source,     \* the ids in dataSource_
    screen,     \* the height of the terminal
    rows,       \* rows(), what the window was told of it
    buffer,     \* the ids in buffer_
    selection,  \* currentSelection_
    follow,     \* followMode_
    pc,         \* which call of the data source, or which key, is next ...
    after,      \* ... and where it goes on after the operation
    offset,     \* the argument of offsetBy()
    target,     \* the id to select
    start       \* history: what there was when the last refresh() began

winVars  == <<screen, rows, buffer, selection>>
callVars == <<after, offset, target>>
vars     == <<kind, source, winVars, follow, pc, callVars, start>>

surround == IF rows > 0 THEN rows - 1 ELSE 0

\* currentSelectionDistanceFromTheTop()
Distance == IF selection \in buffer THEN Position(buffer, selection) ELSE 0

Ask(before, id, behind) == Get(kind, source, before, id, behind)

\* Inserting a log to the node.
Arrive ==
    /\ kind = "logs"
    /\ \E x \in Ids \ source : source' = source \cup {x}
    /\ UNCHANGED <<kind, winVars, follow, pc, callVars, start>>

-----------------------------------------------------------------------------
(* offsetBy()                                                              *)

\* A broken variant: a selection that is set is taken to be shown.
DropDeadLinesOnly ==
    /\ pc = "update"
    /\ buffer' = IF source = {} THEN {} ELSE buffer
    /\ selection' = IF buffer' = {} THEN NoId ELSE selection
    /\ pc' = IF selection' = NoId THEN "first" ELSE "compare"
    /\ UNCHANGED <<kind, source, screen, rows, follow, callVars, start>>

\* dropLeadingDeadElementsFromBuffer(): get() of a line that is gone is empty
\* only when the source is. A selection outside of the buffer moves to its top.
DropDead ==
    /\ pc = "update"
    /\ buffer' = IF source = {} THEN {} ELSE buffer
    /\ selection' = IF selection \in buffer' THEN selection ELSE FirstId(buffer')
    /\ pc' = IF selection' = NoId THEN "first" ELSE "compare"
    /\ UNCHANGED <<kind, source, screen, rows, follow, callVars, start>>

\* The window is empty: it begins with the first line, if there is one.
BeginWithFirst ==
    /\ pc = "first"
    /\ selection' = FirstId(source)
    /\ pc' = IF source = {} THEN after ELSE "fill"
    /\ UNCHANGED <<kind, source, screen, rows, buffer, follow, callVars, start>>

FillFromFirst ==
    /\ pc = "fill"
    /\ buffer' = Ask(0, selection, surround)
    /\ pc' = "compare"
    /\ UNCHANGED <<kind, source, screen, rows, selection, follow, callVars, start>>

\* Are there lines the window does not have?
Compare ==
    /\ pc = "compare"
    /\ pc' = IF Cardinality(buffer) < Cardinality(source) THEN "around"
             ELSE IF offset = 0 THEN after ELSE "move"
    /\ UNCHANGED <<kind, source, winVars, follow, callVars, start>>

\* A broken variant: the selection is to be in the middle.
FillAroundMiddle ==
    /\ pc = "around"
    /\ buffer' = Ask(surround \div 2, selection, surround - surround \div 2)
    /\ pc' = IF offset = 0 THEN after ELSE "move"
    /\ UNCHANGED <<kind, source, screen, rows, selection, follow, callVars, start>>

\* The lines around the selection, which keeps its distance from the top.
FillAround ==
    /\ pc = "around"
    /\ buffer' = Ask(Distance, selection, surround - Distance)
    /\ pc' = IF offset = 0 THEN after ELSE "move"
    /\ UNCHANGED <<kind, source, screen, rows, selection, follow, callVars, start>>

\* moveSelection(), and the end when the line it finds is shown already.
Move ==
    LET lines == IF offset > 0 THEN Ask(0, selection, offset) ELSE Ask(-offset, selection, 0)
        moved == IF offset > 0 THEN LastId(lines) ELSE FirstId(lines)
    IN  /\ pc = "move"
        /\ IF moved = NoId THEN pc' = after /\ UNCHANGED <<selection, target>>
           ELSE IF moved \in buffer
           THEN pc' = after /\ selection' = moved /\ UNCHANGED target
           ELSE pc' = "jump" /\ target' = moved /\ UNCHANGED selection
        /\ UNCHANGED <<kind, source, screen, rows, buffer, follow, after, offset, start>>

\* Otherwise it becomes the first or the last line that is shown.
Jump ==
    /\ pc = "jump"
    /\ buffer' = IF offset < 0 THEN Ask(0, target, surround) ELSE Ask(surround, target, 0)
    /\ selection' = target
    /\ pc' = after
    /\ UNCHANGED <<kind, source, screen, rows, follow, callVars, start>>

-----------------------------------------------------------------------------
(* select(), selectNearest(), selectFirst() and selectLast()               *)

\* A broken variant: all that get() returns is kept.
Unbalanced(lines, id) == lines

\* eraseToEqualSize() with the counts of countBeforeAfter(): lines are erased on
\* the longer side until a window full is left; a line that is not there counts
\* as the last.
Balanced(lines, id) ==
    LET above == IF id \in lines THEN {x \in lines : x < id} ELSE lines
        below == (lines \ above) \ {id}
        keep  == rows - Cardinality(lines \cap {id})
        down  == keep - keep \div 2
        nBelow == IF Cardinality(below) < down THEN Cardinality(below)
                  ELSE IF Cardinality(above) < keep - down THEN keep - Cardinality(above)
                  ELSE down
    IN  (lines \cap {id}) \cup To(above, LastId(above), keep - nBelow)
                          \cup From(below, FirstId(below), nBelow)

\* The lines of select(id): no more than the window has room for.
Fitting(lines, id) == IF Cardinality(lines) > rows THEN Balanced(lines, id) ELSE lines

Select ==
    /\ pc = "select"
    /\ IF selection = target THEN UNCHANGED <<buffer, selection>>
       ELSE /\ buffer' = Fitting(Ask(surround, target, surround), target)
            /\ selection' = IF buffer' = {} THEN NoId ELSE target
    /\ pc' = after
    /\ UNCHANGED <<kind, source, screen, rows, follow, callVars, start>>

FindNearest ==
    /\ pc = "nearest"
    /\ IF source = {} THEN pc' = after /\ UNCHANGED target
       ELSE pc' = "select" /\ target' \in Nearest(source, target)
    /\ UNCHANGED <<kind, source, winVars, follow, after, offset, start>>

\* selectFirst() and selectLast(): the line, and then the lines next to it.
SelectEnd ==
    /\ pc \in {"home", "end"}
    /\ selection' = IF pc = "home" THEN FirstId(source) ELSE LastId(source)
    /\ pc' = IF source = {} THEN after ELSE IF pc = "home" THEN "fillHome" ELSE "fillEnd"
    /\ UNCHANGED <<kind, source, screen, rows, buffer, follow, callVars, start>>

FillEnd ==
    /\ pc \in {"fillHome", "fillEnd"}
    /\ buffer' = IF pc = "fillHome" THEN Ask(0, selection, surround) ELSE Ask(surround, selection, 0)
    /\ pc' = after
    /\ UNCHANGED <<kind, source, screen, rows, selection, follow, callVars, start>>

-----------------------------------------------------------------------------
(* resize(), the loop and the keys.                                        *)

\* trimFromEnd() and trimFromBegin(): both stop at the selection.
Trimmed(lines, n) ==
    LET upper == From(lines, FirstId(lines), IF n > Distance THEN n ELSE Distance + 1)
    IN  To(upper, LastId(upper), n)

\* trimBufferToFitNewSize(), then update().
Resize(n) ==
    /\ rows' = n
    /\ buffer' = IF Cardinality(buffer) > n /\ selection # NoId THEN Trimmed(buffer, n) ELSE buffer
    /\ pc' = "update"
    /\ offset' = 0

\* A broken variant: the follow mode is over after one look.
LoopOnce ==
    /\ pc = "loop"
    /\ pc' = IF follow /\ buffer = {} THEN "end" ELSE "refresh"
    /\ after' = "refresh"
    /\ UNCHANGED <<kind, source, winVars, follow, offset, target, start>>

\* LogList::run(): the follow mode selects the last log before each refresh.
Loop ==
    /\ pc = "loop"
    /\ pc' = IF follow THEN "end" ELSE "refresh"
    /\ after' = "refresh"
    /\ UNCHANGED <<kind, source, winVars, follow, offset, target, start>>

Refresh ==
    /\ pc = "refresh"
    /\ Resize(screen)
    /\ after' = "key"
    /\ start' = [source |-> source, rows |-> rows, distance |-> Distance,
                 selection |-> IF selection \in buffer THEN selection ELSE NoId]
    /\ UNCHANGED <<kind, source, screen, selection, follow, target>>

\* What a key sets off: an operation that begins at p.
Press(p) ==
    /\ pc = "key"
    /\ follow' = FALSE
    /\ pc' = p /\ after' = "loop"
    /\ UNCHANGED <<kind, source, screen, rows, start>>

\* selectUp(), selectDown(), selectPageUp() and selectPageDown()
PressMove ==
    /\ Press("update")
    /\ offset' \in {-1, 1, -rows, rows}
    /\ UNCHANGED <<buffer, selection, target>>

PressEnd ==
    /\ \E p \in {"home", "end"} : Press(p)
    /\ UNCHANGED <<buffer, selection, offset, target>>

\* selectFirstVisible(), selectMiddleVisible() and selectLastVisible()
PressVisible ==
    /\ Press("loop")
    /\ IF buffer = {} THEN UNCHANGED selection
       ELSE \E n \in {0, Cardinality(buffer) \div 2, Cardinality(buffer) - 1} :
            selection' = CHOOSE x \in buffer : Position(buffer, x) = n
    /\ UNCHANGED <<buffer, offset, target>>

\* A search has found a log of the node, or the user goes to a mark.
PressGoto ==
    /\ kind = "logs"
    /\ \/ Press("select")  /\ target' \in source
       \/ Press("nearest") /\ target' \in Ids
    /\ UNCHANGED <<buffer, selection, offset>>

PressFollow ==
    /\ kind = "logs" /\ pc = "key"
    /\ follow' = TRUE
    /\ pc' = "loop"
    /\ UNCHANGED <<kind, source, winVars, callVars, start>>

\* getChar() returns nothing for a while.
NoKey ==
    /\ pc = "key"
    /\ pc' = "loop"
    /\ UNCHANGED <<kind, source, winVars, follow, callVars, start>>

\* The terminal changes its size, which getch() tells as a key that nothing is
\* bound to: the follow mode is over.
ResizeTerminal ==
    /\ pc = "key"
    /\ screen' \in Heights
    /\ follow' = FALSE
    /\ pc' = "loop"
    /\ UNCHANGED <<kind, source, rows, buffer, selection, callVars, start>>

-----------------------------------------------------------------------------
(* A new window: the constructor calls resize(); FilterWindows::window()   *)
(* selects the last log, and LogList::processLogEntry() the log the user   *)
(* looked at, which the filter may not take, or not have yet.              *)

Open ==
    /\ pc = "open"
    /\ Resize(screen)
    /\ after' = "opened"
    /\ UNCHANGED <<kind, source, screen, selection, follow, target, start>>

Opened ==
    /\ pc = "opened"
    /\ pc' = IF kind = "logs" THEN "end" ELSE "chosen"
    /\ after' = "chosen"
    /\ UNCHANGED <<kind, source, winVars, follow, offset, target, start>>

Choose ==
    /\ pc = "chosen"
    /\ \/ pc' = "loop" /\ UNCHANGED target
       \/ pc' = "select" /\ target' \in IF kind = "logs" THEN Ids ELSE source
    /\ after' = "loop"
    /\ UNCHANGED <<kind, source, winVars, follow, offset, start>>

Init ==
    /\ kind \in {"logs", "list"}
    /\ source \in IF kind = "logs" THEN SUBSET Ids ELSE {0 .. n : n \in Ids}
    /\ screen \in Heights
    /\ rows = 1
    /\ buffer = {}
    /\ selection = NoId
    /\ follow = FALSE
    /\ pc = "open"
    /\ after = "opened"
    /\ offset = 0
    /\ target = NoId
    /\ start = [source |-> {}, rows |-> 1, distance |-> 0, selection |-> NoId]

Work ==
    \/ DropDead \/ BeginWithFirst \/ FillFromFirst \/ Compare \/ FillAround \/ Move \/ Jump
    \/ Select \/ FindNearest \/ SelectEnd \/ FillEnd
    \/ Loop \/ Refresh \/ Open \/ Opened \/ Choose
Keys == PressMove \/ PressEnd \/ PressVisible \/ PressGoto \/ PressFollow

Next == Work \/ NoKey \/ Keys \/ ResizeTerminal \/ Arrive

\* The thread of the user interface runs, and getChar() has a timeout. Nobody
\* need press a key and no log need arrive.
Spec == Init /\ [][Next]_vars /\ WF_vars(Work \/ NoKey)

-----------------------------------------------------------------------------
\* Types.
TypeOK ==
    /\ kind \in {"logs", "list"} /\ source \subseteq Ids
    /\ screen \in Heights /\ rows \in Heights \cup {1}
    /\ buffer \subseteq source
    /\ selection \in Ids \cup {NoId} /\ target \in Ids \cup {NoId}
    /\ follow \in BOOLEAN
    /\ pc \in {"open", "opened", "chosen", "loop", "refresh", "key", "update", "first", "fill",
               "compare", "around", "move", "jump", "select", "nearest", "home", "end",
               "fillHome", "fillEnd"}
    /\ after \in {"opened", "chosen", "loop", "refresh", "key"}
    /\ offset \in {-1, 1} \cup Heights \cup {-h : h \in Heights} \cup {0}

(* The assertions of the code, at the places where they stand: there are   *)
(* never more lines than rows (also between the calls, whatever arrives),  *)
(* a window that is compared with its source has lines and a selection,    *)
(* and one that is trimmed has its selection among its lines.              *)
AssertionsHold ==
    /\ Cardinality(buffer) <= rows
    /\ pc \in {"compare", "around", "move", "jump"} => buffer # {} /\ selection # NoId
    /\ pc \in {"around", "move"} => Distance < rows
    /\ pc = "refresh" /\ Cardinality(buffer) > screen => selection \in buffer
    /\ pc = "key" /\ selection # NoId => buffer # {}

Inv == TypeOK /\ AssertionsHold

(* When the user looks at the window, no log that was there when it was    *)
(* drawn is left out between two lines, and the selected line is one of    *)
(* them: whatever the window, and select() of a log that is not in the     *)
(* node, left behind.                                                      *)
NothingLeftOut ==
    pc = "key" =>
        /\ \A x \in start.source : buffer # {} /\ First(buffer) <= x /\ x <= Last(buffer) => x \in buffer
        /\ start.source # {} => selection \in buffer

(* Drawing never moves the cursor: logs that arrive above and below it     *)
(* leave the selection on its log, and the log on its row, unless the      *)
(* height of the window has changed.                                       *)
CursorStays ==
    pc = "key" /\ start.selection # NoId =>
        /\ selection = start.selection
        /\ start.rows = rows => Distance = start.distance

(* In follow mode the window comes to show the newest log, as long as no   *)
(* key ends it.                                                            *)
FollowShowsNewest ==
    []<>(follow /\ source # {} => selection = Last(source) /\ selection \in buffer)

=============================================================================
