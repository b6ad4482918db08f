----------------------------- MODULE MultiQueue -----------------------------
(***************************************************************************)
(* The queue of the worker threads, Utils/detail/MultiQueue.hpp: tasks of  *)
(* the user interface first, then the tasks of the filters, one FIFO per   *)
(* filter (a filter is its type and name) served in turns, and last the    *)
(* batch tasks.  Every operation runs under the queue's lock, so each is   *)
(* an operator on the value of the queue.                                  *)
(***************************************************************************)
EXTENDS Naturals, Sequences, SequencesExt

\* Queue's members: ui_, nextFilter_ (a 0-based index), filters_ and batch_.
\* An Entry is the filter it belongs to and its own FIFO.
EmptyQueue == [ui |-> <<>>, next |-> 0, filters |-> <<>>, batch |-> <<>>]

\* The 1-based places of filters_.
Places(q) == DOMAIN q.filters

\* Queue::size(): every task that waits, over all the queues.
QueueSize(q) ==
    Len(q.ui) + Len(q.batch)
        + Cardinality(UNION {{i} \X DOMAIN q.filters[i].tasks : i \in Places(q)})

EnqueueUi(q, task) == [q EXCEPT !.ui = Append(@, task)]

EnqueueBatch(q, task) == [q EXCEPT !.batch = Append(@, task)]

\* Queue::getQueue() finds the filter's entry or appends a new one. Entries
\* are never taken out again, so filters_ only grows.
EnqueueFilter(q, filter, task) ==
    LET known == {i \in Places(q) : q.filters[i].filter = filter}
    IN  IF known # {}
        THEN [q EXCEPT !.filters[CHOOSE i \in known : TRUE].tasks = Append(@, task)]
        ELSE [q EXCEPT !.filters = Append(@, [filter |-> filter, tasks |-> <<task>>])]

\* The place nextFilterIndex() returns on its (i+1)-th call in a row: it wraps
\* to the first place after the last one.
Turn(q, i) == ((q.next + i) % Len(q.filters)) + 1

\* The calls of nextFilterIndex() that dequeue(filters_) makes before it meets
\* an entry with a task: it gives up after one full round.
EmptyTurns(q) ==
    LET n == Len(q.filters)
        hits == {i \in 0 .. n - 1 : q.filters[Turn(q, i)].tasks # <<>>}
    IN  IF hits = {} THEN n ELSE CHOOSE i \in hits : \A j \in hits : i <= j

HasFilterTask(q) == EmptyTurns(q) < Len(q.filters)

\* The classes of a queue: where the next dequeue() takes its task from. For a
\* filter task, the place of its entry.
UiClass == "ui"
BatchClass == "batch"
FilterClass == "filter"

NextClass(q) ==
    IF q.ui # <<>> THEN UiClass
    ELSE IF HasFilterTask(q) THEN FilterClass
    ELSE BatchClass

NextPlace(q) == Turn(q, EmptyTurns(q))

\* Queue::dequeue(), for a queue that is not empty: the task, and what is left.
\* A round over empty entries brings nextFilter_ back to where it was.
DequeuedTask(q) ==
    CASE NextClass(q) = UiClass     -> Head(q.ui)
      [] NextClass(q) = FilterClass -> Head(q.filters[NextPlace(q)].tasks)
      [] OTHER                      -> Head(q.batch)

\* A broken variant: the turn does not pass on.
SameTurn(q) == q.next

\* Where nextFilter_ stands after the turn that found a task.
AfterTurn(q) == (q.next + EmptyTurns(q) + 1) % Len(q.filters)

\* A broken variant: the task of a filter is copied, not moved, out of its FIFO.
DequeueCopy(q) ==
    CASE NextClass(q) = UiClass ->
            [q EXCEPT !.ui = Tail(@)]
      [] NextClass(q) = FilterClass ->
            [q EXCEPT !.next = AfterTurn(q)]
      [] OTHER ->
            [q EXCEPT !.batch = Tail(@)]

DequeueRest(q) ==
    CASE NextClass(q) = UiClass ->
            [q EXCEPT !.ui = Tail(@)]
      [] NextClass(q) = FilterClass ->
            [q EXCEPT !.filters[NextPlace(q)].tasks = Tail(@),
                      !.next = AfterTurn(q)]
      [] OTHER ->
            [q EXCEPT !.batch = Tail(@)]

=============================================================================
