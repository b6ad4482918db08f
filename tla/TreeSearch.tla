----------------------------- MODULE TreeSearch -----------------------------
(***************************************************************************)
(* One search through the logs of a node, Tree/Search.cpp, on the threads  *)
(* of the pool: a task cuts the logs into chunks and enqueues a job for    *)
(* each of them, the jobs run side by side and report what they find, and  *)
(* a last task waits for them and gives the answer.  Meanwhile logs arrive *)
(* and the user may cancel.  All tasks go through the pool's user          *)
(* interface queue, which is served in order (WorkerThreads).              *)
(*                                                                         *)
(* A step is one access to an atomic, or what runs under one hold of the   *)
(* lock of the logs or of SharedState.  A query that throws is a query     *)
(* that does not match.                                                    *)
(***************************************************************************)
EXTENDS Logs, Sequences

CONSTANTS
    Keys,       \* the keys of logs
    Present,    \* the logs that are there when search() is called
    Matching,   \* the logs the query matches
    Threads,    \* the threads of the pool
    chunkSize   \* chunkSize_

ASSUME KeysAssumption == Keys \subseteq Nat /\ Present \subseteq Keys

\* With chunks of one log the cutting never comes to an end.
ASSUME ChunkAssumption == chunkSize \in Nat /\ chunkSize >= 2

VARIABLES
    logs,       \* the logs of the node
    dir,        \* the Direction of the search ...
    start,      \* ... and its startPoint
    cancel, found, required, compares, total, finished, \* SharedState
    uiQueue,    \* the tasks in the pool's queue
    at,         \* where each thread is
    hand,       \* the logs of the chunk in the hands of each thread
    size,       \* the size of this chunk
    keyNow, sum,        \* locals of enqueueAllChunks()
    answered, answer    \* the promise, and its value

callVars   == <<dir, start>>
countVars  == <<required, compares, total, finished>>
threadVars == <<at, hand, size>>
localVars  == <<keyNow, sum>>
resultVars == <<answered, answer>>
vars == <<logs, callVars, cancel, found, countVars, uiQueue, threadVars, localVars, resultVars>>

NoKey == -1     \* an Optional that is empty

Task(kind, ks) == [kind |-> kind, keys |-> ks]

-----------------------------------------------------------------------------
(* The two directions. The code has each job twice.                        *)

Sooner(j, k) == IF dir = "Forward" THEN j < k ELSE k < j
GetChunk(k)  == IF dir = "Forward" THEN From(logs, k, chunkSize) ELSE To(logs, k, chunkSize)
Front(ks)    == IF dir = "Forward" THEN First(ks) ELSE Last(ks)

LastKey(ks) == IF dir = "Forward" THEN Last(ks) ELSE First(ks)

CanStopEarly(k) == cancel \/ (found # NoKey /\ (found = k \/ Sooner(found, k)))

\* A broken variant: the last report wins.
ReportedLast(k) == k

\* reportFinding(): the sooner of two findings stays.
Reported(k) == IF found = NoKey \/ Sooner(k, found) THEN k ELSE found

\* Where the first log at or after the start is, and how many there are from it
\* on.  Logs::index() of a key that is there is its position, so that it is less
\* than size(), as long as no log comes twice (LogKeyIndexCache).
EstimatedCompares ==
    IF NotBelow(logs, start) = {} THEN 0
    ELSE LET index == Position(logs, First(NotBelow(logs, start)))
         IN  IF dir = "Forward" THEN Cardinality(logs) - index ELSE index

-----------------------------------------------------------------------------

\* A thread is at its next place, with this chunk in its hands.
Goto(t, place, ks, n) ==
    /\ at' = [at EXCEPT ![t] = place]
    /\ hand' = [hand EXCEPT ![t] = ks]
    /\ size' = [size EXCEPT ![t] = n]

Move(t, place) == at' = [at EXCEPT ![t] = place] /\ UNCHANGED <<hand, size>>

Release(t) == Goto(t, "idle", {}, 0)

\* A thread takes the next task.
Take(t) ==
    /\ at[t] = "idle" /\ uiQueue # <<>>
    /\ Goto(t, Head(uiQueue).kind, Head(uiQueue).keys, Cardinality(Head(uiQueue).keys))
    /\ uiQueue' = Tail(uiQueue)
    /\ UNCHANGED <<logs, callVars, cancel, found, countVars, localVars, resultVars>>

(* enqueueAllChunks().                                                     *)

Estimate(t) ==
    /\ at[t] = "estimate"
    /\ required' = EstimatedCompares
    /\ keyNow' = start
    /\ Move(t, "ask")
    /\ UNCHANGED <<logs, callVars, cancel, found, compares, total, finished, uiQueue, sum,
                   resultVars>>

Ask(t) ==
    /\ at[t] = "ask"
    /\ Move(t, IF CanStopEarly(keyNow) THEN "finish" ELSE "push")
    /\ UNCHANGED <<logs, callVars, cancel, found, countVars, uiQueue, localVars, resultVars>>

\* The next chunk starts with the last log of this one.
Push(t) ==
    LET chunk == GetChunk(keyNow)
    IN  /\ at[t] = "push"
        /\ IF chunk = {}
           THEN Move(t, "finish") /\ UNCHANGED <<uiQueue, localVars>>
           ELSE /\ uiQueue' = Append(uiQueue, Task("check", chunk))
                /\ keyNow' = LastKey(chunk)
                /\ sum' = sum + Cardinality(chunk)
                /\ Goto(t, "count", {}, Cardinality(chunk))
        /\ UNCHANGED <<logs, callVars, cancel, found, countVars, resultVars>>

\* The job is counted when it is in the queue already, and may be done already.
Count(t) ==
    /\ at[t] = "count"
    /\ total' = total + 1
    /\ Goto(t, IF size[t] < chunkSize THEN "finish" ELSE "ask", {}, 0)
    /\ UNCHANGED <<logs, callVars, cancel, found, required, compares, finished, uiQueue,
                   localVars, resultVars>>

\* A broken variant: the estimate is good enough.
FinishEstimated(t) ==
    /\ at[t] = "finish"
    /\ uiQueue' = Append(uiQueue, Task("spin", {}))
    /\ Release(t)
    /\ UNCHANGED <<logs, callVars, cancel, found, countVars, localVars, resultVars>>

Finish(t) ==
    /\ at[t] = "finish"
    /\ required' = sum
    /\ uiQueue' = Append(uiQueue, Task("spin", {}))
    /\ Release(t)
    /\ UNCHANGED <<logs, callVars, cancel, found, compares, total, finished, localVars,
                   resultVars>>

(* ForwardSearchJob and BackwardSearchJob.                                 *)

\* A broken variant: a job that stops early is not counted as done.
CheckUncounted(t) ==
    /\ at[t] = "check"
    /\ IF CanStopEarly(Front(hand[t])) THEN Release(t) ELSE Move(t, "scan")
    /\ UNCHANGED <<logs, callVars, cancel, found, countVars, uiQueue, localVars, resultVars>>

Check(t) ==
    /\ at[t] = "check"
    /\ Move(t, IF CanStopEarly(Front(hand[t])) THEN "done" ELSE "scan")
    /\ UNCHANGED <<logs, callVars, cancel, found, countVars, uiQueue, localVars, resultVars>>

\* An iteration: a log that matches is reported and ends the job.
Scan(t) ==
    LET k == Front(hand[t])
    IN  /\ at[t] = "scan"
        /\ IF hand[t] = {} \/ cancel
           THEN Move(t, "sum") /\ UNCHANGED found
           ELSE IF k \in Matching
                THEN Move(t, "sum") /\ found' = Reported(k)
                ELSE Goto(t, "scan", hand[t] \ {k}, size[t]) /\ UNCHANGED found
        /\ UNCHANGED <<logs, callVars, cancel, countVars, uiQueue, localVars, resultVars>>

Sum(t) ==
    /\ at[t] = "sum"
    /\ compares' = compares + size[t]
    /\ Move(t, "done")
    /\ UNCHANGED <<logs, callVars, cancel, found, required, total, finished, uiQueue, localVars,
                   resultVars>>

\* taskGuard.
Done(t) ==
    /\ at[t] = "done"
    /\ finished' = finished + 1
    /\ Release(t)
    /\ UNCHANGED <<logs, callVars, cancel, found, required, compares, total, uiQueue, localVars,
                   resultVars>>

(* SetSearchResult.                                                        *)

\* A broken variant: no job in the queue is taken for no job at work.
NothingQueued == uiQueue = <<>> \/ cancel

AllDone == total = finished \/ cancel

Spin(t) ==
    /\ at[t] = "spin" /\ AllDone
    /\ Move(t, "set")
    /\ UNCHANGED <<logs, callVars, cancel, found, countVars, uiQueue, localVars, resultVars>>

SetResult(t) ==
    /\ at[t] = "set"
    /\ answered' = TRUE
    /\ answer' = IF cancel THEN NoKey ELSE found
    /\ Release(t)
    /\ UNCHANGED <<logs, callVars, cancel, found, countVars, uiQueue, localVars>>

(* The user, and the logs that arrive.                                     *)

Cancel ==
    /\ ~cancel
    /\ cancel' = TRUE
    /\ UNCHANGED <<logs, callVars, found, countVars, uiQueue, threadVars, localVars, resultVars>>

InsertLog(k) ==
    /\ logs' = Inserted(logs, k)
    /\ UNCHANGED <<callVars, cancel, found, countVars, uiQueue, threadVars, localVars, resultVars>>

-----------------------------------------------------------------------------

\* What search() enqueues.
FirstTask == Task("estimate", {})

\* A search that has not begun.
Fresh ==
    /\ logs = Present
    /\ dir \in {"Forward", "Backward"}
    /\ cancel = FALSE /\ found = NoKey
    /\ required = 0 /\ compares = 0 /\ total = 0 /\ finished = 0
    /\ at = [t \in Threads |-> "idle"]
    /\ hand = [t \in Threads |-> {}] /\ size = [t \in Threads |-> 0]
    /\ keyNow = NoKey /\ sum = 0
    /\ answered = FALSE /\ answer = NoKey

\* search() has been called, from anywhere.
Init == Fresh /\ start \in Keys /\ uiQueue = <<FirstTask>>

Step(t) ==
    \/ Take(t)
    \/ Estimate(t) \/ Ask(t) \/ Push(t) \/ Count(t) \/ Finish(t)
    \/ Check(t) \/ Scan(t) \/ Sum(t) \/ Done(t)
    \/ Spin(t) \/ SetResult(t)

Next == (\E t \in Threads : Step(t)) \/ Cancel \/ (\E k \in Keys : InsertLog(k))

\* The threads of the pool run.
Spec == Init /\ [][Next]_vars /\ \A t \in Threads : WF_vars(Step(t))

-----------------------------------------------------------------------------
(* Properties.                                                             *)

\* Every variable has its type.
TypeOK ==
    /\ logs \subseteq Keys
    /\ dir \in {"Forward", "Backward"} /\ start \in Keys
    /\ cancel \in BOOLEAN /\ answered \in BOOLEAN
    /\ {found, keyNow, answer} \subseteq Keys \cup {NoKey}
    /\ {required, compares, total, finished, sum} \subseteq Nat
    /\ \A i \in DOMAIN uiQueue : uiQueue[i].keys \subseteq Keys
    /\ at \in [Threads -> {"idle", "estimate", "ask", "push", "count", "finish",
                           "check", "scan", "sum", "done", "spin", "set"}]
    /\ hand \in [Threads -> SUBSET Keys] /\ size \in [Threads -> Nat]

\* The logs the search is to look at that were there when it was asked for.
Expected == {k \in Present \cap Matching : k = start \/ Sooner(start, k)}

\* The answer is the first match, although the chunks are searched side by side:
\* a log that matches and is not before the start, and no log that was there
\* when search() was called comes sooner. "Not found" of a search that was not
\* canceled means that there was none.
AnswerIsFirst ==
    answered =>
        IF answer = NoKey THEN cancel \/ Expected = {}
        ELSE /\ answer \in logs \cap Matching
             /\ ~Sooner(answer, start)
             /\ \A k \in Expected : ~Sooner(k, answer)

\* SetSearchResult reads keyFound_ without its lock: no job can still write it
\* then, unless the search was canceled, and then it is not read.
AnswerReadAlone ==
    \A t, u \in Threads :
        at[t] = "set" /\ ~cancel => at[u] \notin {"check", "scan", "sum", "done"}

\* Types, and the answer.
Inv == TypeOK /\ AnswerReadAlone

\* "comparesDone <= requiredCompares" (Search.ut.cpp:299), once the chunks have
\* been cut, canceled or not. Before, required is an estimate.
ProgressReasonable ==
    (answered \/ \E t \in Threads : at[t] \in {"spin", "set"}) => compares <= required

\* Every search is answered, although the task that answers holds a thread of the
\* pool while it waits for others: what it waits for stands before it in the queue.
SearchIsAnswered == uiQueue # <<>> ~> answered

=============================================================================
