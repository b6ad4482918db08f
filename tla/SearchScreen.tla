---------------------------- MODULE SearchScreen ----------------------------
(***************************************************************************)
(* A search as the user sees it: Screen/Search.cpp starts a TreeSearch     *)
(* next to the selected log, waits a moment for its answer and then shows  *)
(* a progress bar (Screen/ProgressBar.cpp) until there is one, or the user *)
(* gives up.  The pattern and its form are left out.                       *)
(***************************************************************************)
EXTENDS TreeSearch

VARIABLES
    selection,  \* currentSelection, a log of the window
    ui,         \* where triggerSearch() is
    result      \* the status it returns

searchVars == vars
screenVars == <<selection, ui, result>>
allVars    == <<vars, screenVars>>

Return(status) == ui' = "done" /\ result' = status

\* A broken variant: the search begins at the selected log.
BesideOrAt(key) == key

\* advanceByOne(): the log next to the selected one.
Beside(key) ==
    LET data == IF dir = "Forward" THEN From(logs, key, 2) ELSE To(logs, key, 2)
    IN  IF Cardinality(data) < 2 THEN NoKey
        ELSE IF dir = "Forward" THEN Last(data) ELSE First(data)

Trigger ==
    /\ ui = "asked"
    /\ IF Beside(selection) = NoKey
       THEN Return("notFound") /\ UNCHANGED <<start, uiQueue>>
       ELSE /\ start' = Beside(selection)
            /\ uiQueue' = Append(uiQueue, FirstTask)
            /\ ui' = "early" /\ UNCHANGED result
    /\ UNCHANGED <<logs, dir, cancel, found, countVars, threadVars, localVars, resultVars, selection>>

\* hasResultEarly() finds the answer in time ...
Early ==
    /\ ui = "early" /\ answered
    /\ ui' = "translate"
    /\ UNCHANGED <<searchVars, selection, result>>

\* ... or does not; the progress bar needs some room.
Late ==
    /\ ui = "early"
    /\ \/ ui' = "bar" /\ UNCHANGED result
       \/ Return("error")
    /\ UNCHANGED <<searchVars, selection>>

\* ProgressBar::process(), no key was pressed.
Progress ==
    /\ ui = "bar" /\ answered
    /\ ui' = "translate"
    /\ UNCHANGED <<searchVars, selection, result>>

\* The key 'q' cancels the search, which goes on for a while with nobody waiting.
Abort ==
    /\ ui = "bar"
    /\ Cancel
    /\ Return("canceled")
    /\ UNCHANGED selection

Translate ==
    /\ ui = "translate"
    /\ Return(IF cancel THEN "canceled" ELSE IF answer = NoKey THEN "notFound" ELSE "found")
    /\ UNCHANGED <<searchVars, selection>>

ScreenInit ==
    /\ Fresh
    /\ selection \in Present
    /\ start = selection
    /\ uiQueue = <<>>
    /\ ui = "asked" /\ result = "none"

Screen == Trigger \/ Early \/ Late \/ Progress \/ Translate

ScreenNext ==
    \/ Screen \/ Abort
    \/ ((\E t \in Threads : Step(t)) \/ (\E k \in Keys : InsertLog(k))) /\ UNCHANGED screenVars

\* The user interface and the threads of the pool run; the user may not give up.
ScreenSpec ==
    /\ ScreenInit /\ [][ScreenNext]_allVars
    /\ WF_allVars(Screen)
    /\ \A t \in Threads : WF_allVars(Step(t) /\ UNCHANGED screenVars)

-----------------------------------------------------------------------------
Beyond(k) == Sooner(selection, k)

(* "Next match" goes to the next match: it never stays where it is, and    *)
(* among the logs that were there when the key was pressed it passes over  *)
(* none. "No matching element found" means there is none.                  *)
ResultIsNext ==
    /\ AnswerIsFirst
    /\ result = "found" =>
          /\ answer \in logs \cap Matching /\ Beyond(answer)
          /\ \A k \in Present \cap Matching : Beyond(k) => ~Sooner(k, answer)
    /\ result = "notFound" => \A k \in Present \cap Matching : ~Beyond(k)

(* Every search that the pool is given comes to its end, the canceled ones *)
(* too, and the user is told.                                              *)
SearchEnds == SearchIsAnswered /\ (ui = "asked" ~> ui = "done")

=============================================================================
