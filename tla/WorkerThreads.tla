---------------------------- MODULE WorkerThreads ----------------------------
(***************************************************************************)
(* The thread pool, Utils/WorkerThreads.{hpp,cpp}: threads that take the   *)
(* tasks of a MultiQueue, clients that enqueue tasks, one client that may  *)
(* call waitForAll(), and the destructor that stops the threads.           *)
(*                                                                         *)
(* A step is what runs under one hold of the queue's lock, or one access   *)
(* to an atomic or to an Event.  What a task computes is left out: a task  *)
(* enqueues the tasks it spawns, one after another, and ends.              *)
(***************************************************************************)
EXTENDS MultiQueue, FiniteSets

CONSTANTS
    Workers,    \* the threads of the pool
    Tasks,      \* the tasks of the clients and those that tasks spawn
    ClassOf,    \* the class of each task: UiClass, BatchClass or a filter
    Spawns,     \* for each task, the sequence of tasks it enqueues when it runs
    MaxCalls    \* bound: how often waitForAll() is called

\* A null TaskPtr, and the blocker task of a round of waitForAll().
NoTask     == <<>>
Blocker(r) == <<"blocker", r>>

\* threads_ has at least one thread (the constructor takes max(count, 1)), and
\* a task is enqueued once: by a client or by the one task that spawns it.
ASSUME WorkersAssumption == IsFiniteSet(Workers) /\ Workers # {}
ASSUME SpawnsAssumption ==
    /\ Spawns \in [Tasks -> Seq(Tasks)]
    /\ \A s \in Tasks : IsInjective(Spawns[s])
    /\ \A s, t \in Tasks : s # t => ToSet(Spawns[s]) \cap ToSet(Spawns[t]) = {}
ASSUME TasksAssumption == \A t \in Tasks : t # NoTask /\ t \notin {"blocker"} \X Nat
ASSUME MaxCallsAssumption == MaxCalls \in Nat

VARIABLES
    q,          \* q_, the queue
    waiting,    \* the threads asleep on the queue's condition variable
    running,    \* running_, the tasks being processed
    quit,       \* quit_
    pc,         \* where each thread is
    cmd,        \* the command each thread took from the queue last
    todo,       \* what the task of each thread has still to enqueue
    wait,       \* the caller of waitForAll(): where it is, and its locals
    arrived,    \* how many blockers of the round have set their Event
    released,   \* the last round whose waitAll Event is set
    dtor,       \* how far the destructor has come
    submitted, started, done,   \* history: tasks enqueued, taken, finished
    before,     \* history: the tasks submitted when waitForAll() was called
    late,       \* history: the tasks each thread took after quit_ was set
    bypass      \* history: turns other filters had while a filter's tasks waited

poolVars    == <<q, waiting, running, quit, pc, cmd, todo>>
waitVars    == <<wait, arrived, released>>
historyVars == <<submitted, started, done, before, late, bypass>>
vars        == <<poolVars, waitVars, dtor, historyVars>>

Filters   == {ClassOf[t] : t \in Tasks} \ {UiClass, BatchClass}
RootTasks == Tasks \ UNION {ToSet(Spawns[t]) : t \in Tasks}
Commands  == Tasks \cup {NoTask} \cup {Blocker(r) : r \in 0 .. released + 1}
Queued    == QueueSize(q)

\* The tasks that sit in a filter's queue.
TasksOf(qq, f) ==
    UNION {ToSet(qq.filters[i].tasks) : i \in {i \in Places(qq) : qq.filters[i].filter = f}}

-----------------------------------------------------------------------------
(* Enqueueing: enqueueUi, enqueueFilter and enqueueBatch push under the    *)
(* lock and notify_all().                                                  *)

Enqueue(qq, t) ==
    CASE ClassOf[t] = UiClass    -> EnqueueUi(qq, t)
      [] ClassOf[t] = BatchClass -> EnqueueBatch(qq, t)
      [] OTHER                   -> EnqueueFilter(qq, ClassOf[t], t)

\* A broken variant: the notification is forgotten.
NoNotify == waiting' = waiting

NotifyAll == waiting' = {}

Push(t) ==
    /\ q' = Enqueue(q, t)
    /\ NotifyAll
    /\ submitted' = submitted \cup {t}

\* A client enqueues a task. Nobody does once the destructor runs.
Submit(t) ==
    /\ dtor = "alive"
    /\ t \in RootTasks \ submitted
    /\ Push(t)
    /\ UNCHANGED <<running, quit, pc, cmd, todo, waitVars, dtor,
                   started, done, before, late, bypass>>

-----------------------------------------------------------------------------
(* A thread of the pool: processingLoop() and getTask().                   *)

\* A broken variant: the loop never looks at quit_.
CheckNothing(w) ==
    /\ pc[w] = "check"
    /\ pc' = [pc EXCEPT ![w] = "get"]
    /\ UNCHANGED <<q, waiting, running, quit, cmd, todo, waitVars, dtor, historyVars>>

\* while(not quit_)
CheckQuit(w) ==
    /\ pc[w] = "check"
    /\ pc' = [pc EXCEPT ![w] = IF quit THEN "exit" ELSE "get"]
    /\ UNCHANGED <<q, waiting, running, quit, cmd, todo, waitVars, dtor, historyVars>>

\* waitForNonEmpty() on an empty queue: the thread sleeps and gives up the lock.
Sleep(w) ==
    /\ pc[w] = "get" /\ w \notin waiting
    /\ Queued = 0
    /\ waiting' = waiting \cup {w}
    /\ UNCHANGED <<q, running, quit, pc, cmd, todo, waitVars, dtor, historyVars>>

\* How the bypass counts change when a filter's task is taken.
CountTurns(f) ==
    [g \in Filters |-> IF g # f /\ TasksOf(q, g) # {} THEN bypass[g] + 1 ELSE 0]

\* getTask() on a queue that is not empty, still under the lock.
Take(w) ==
    LET t == DequeuedTask(q)
    IN  /\ pc[w] = "get" /\ w \notin waiting
        /\ Queued > 0
        /\ running' = running + 1
        /\ q' = DequeueRest(q)
        /\ cmd' = [cmd EXCEPT ![w] = t]
        /\ pc' = [pc EXCEPT ![w] = "run"]
        /\ todo' = [todo EXCEPT ![w] = IF t \in Tasks THEN Spawns[t] ELSE <<>>]
        /\ started' = started \cup ({t} \cap Tasks)
        /\ late' = [late EXCEPT ![w] = IF quit /\ t \in Tasks THEN @ + 1 ELSE @]
        /\ bypass' = IF NextClass(q) = FilterClass THEN CountTurns(ClassOf[t]) ELSE bypass
        /\ UNCHANGED <<waiting, quit, waitVars, dtor, submitted, done, before>>

\* The running task enqueues the next task it spawns.
Spawn(w) ==
    /\ pc[w] = "run" /\ todo[w] # <<>>
    /\ Push(Head(todo[w]))
    /\ todo' = [todo EXCEPT ![w] = Tail(@)]
    /\ UNCHANGED <<running, quit, pc, cmd, waitVars, dtor, started, done, before, late, bypass>>

\* A broken variant: the guard is missing.
EndUnguarded(w) ==
    /\ running' = running
    /\ cmd' = [cmd EXCEPT ![w] = NoTask]
    /\ pc' = [pc EXCEPT ![w] = "check"]

\* The end of an iteration: the command and the guard go out of scope, and the
\* guard takes the thread out of running_.
EndIteration(w) ==
    /\ running' = running - 1
    /\ cmd' = [cmd EXCEPT ![w] = NoTask]
    /\ pc' = [pc EXCEPT ![w] = "check"]

\* The task ends, or there was none to run.
Finish(w) ==
    /\ pc[w] = "run" /\ todo[w] = <<>>
    /\ cmd[w] \in Tasks \cup {NoTask}
    /\ EndIteration(w)
    /\ done' = done \cup ({cmd[w]} \cap Tasks)
    /\ UNCHANGED <<q, waiting, quit, todo, waitVars, dtor,
                   submitted, started, before, late, bypass>>

\* A blocker sets its Event ...
Arrive(w) ==
    /\ pc[w] = "run" /\ cmd[w] \notin Tasks \cup {NoTask}
    /\ arrived' = arrived + 1
    /\ pc' = [pc EXCEPT ![w] = "blocked"]
    /\ UNCHANGED <<q, waiting, running, quit, cmd, todo, wait, released, dtor, historyVars>>

\* ... and waits for waitAll.
Unblock(w) ==
    /\ pc[w] = "blocked"
    /\ cmd[w] \in {Blocker(r) : r \in 0 .. released}
    /\ EndIteration(w)
    /\ UNCHANGED <<q, waiting, quit, todo, waitVars, dtor, historyVars>>

-----------------------------------------------------------------------------
(* waitForAll(), called by one client at a time.                           *)

\* A broken variant: one blocker too few.
TooFewBlockers == Cardinality(Workers) - 1

\* The blockers of a round: one per thread.
BlockerCount == Cardinality(Workers)

CallWaitForAll ==
    /\ wait.pc = "idle" /\ dtor = "alive"
    /\ wait.calls < MaxCalls
    /\ wait' = [wait EXCEPT !.pc = "enqueue", !.sent = 0, !.calls = @ + 1]
    /\ arrived' = 0
    /\ before' = submitted
    /\ UNCHANGED <<poolVars, released, dtor, submitted, started, done, late, bypass>>

\* A broken variant: the blockers go where they overtake everything.
PushUrgent(qq) == EnqueueUi(qq, Blocker(released + 1))

\* enqueueBatch() of a blocker.
PushBlocker(qq) == EnqueueBatch(qq, Blocker(released + 1))

\* The blockers are enqueued one by one.
EnqueueBlocker ==
    /\ wait.pc = "enqueue"
    /\ wait.sent < BlockerCount
    /\ q' = PushBlocker(q)
    /\ NotifyAll
    /\ wait' = [wait EXCEPT !.sent = @ + 1]
    /\ UNCHANGED <<running, quit, pc, cmd, todo, arrived, released, dtor, historyVars>>

\* for(auto& b: blocked) b->wait(), then the read of queued().
AllArrived == arrived = BlockerCount

\* A broken variant: one round is taken to be enough.
NeverMore == FALSE

HasMoreTasks == Queued > 0

ReadQueued ==
    /\ wait.pc = "enqueue"
    /\ wait.sent = BlockerCount
    /\ AllArrived
    /\ wait' = [wait EXCEPT !.pc = "release", !.hasMore = HasMoreTasks]
    /\ UNCHANGED <<poolVars, arrived, released, dtor, historyVars>>

\* waitAll->set(), and either another round or the return.
ReleaseAll ==
    /\ wait.pc = "release"
    /\ released' = released + 1
    /\ arrived' = 0
    /\ wait' = [wait EXCEPT !.pc = IF wait.hasMore THEN "enqueue" ELSE "idle", !.sent = 0]
    /\ UNCHANGED <<poolVars, dtor, historyVars>>

-----------------------------------------------------------------------------
(* ~WorkerThreads(): the owner destroys the pool when it has no other call *)
(* in progress.                                                            *)

SetQuit ==
    /\ dtor = "alive" /\ wait.pc = "idle"
    /\ quit' = TRUE
    /\ dtor' = "quit"
    /\ UNCHANGED <<q, waiting, running, pc, cmd, todo, waitVars, historyVars>>

\* A broken variant: one null task too few.
TooFewNulls == [i \in 1 .. Cardinality(Workers) - 1 |-> NoTask]

\* One null task per thread, under one hold of the lock.
NullTasks == [i \in 1 .. Cardinality(Workers) |-> NoTask]

PushNullTasks ==
    /\ dtor = "quit"
    /\ q' = [q EXCEPT !.ui = @ \o NullTasks]
    /\ NotifyAll
    /\ dtor' = "join"
    /\ UNCHANGED <<running, quit, pc, cmd, todo, waitVars, historyVars>>

\* threads_ is the last member, so it is joined before the queue goes away.
Join ==
    /\ dtor = "join"
    /\ \A w \in Workers : pc[w] = "exit"
    /\ dtor' = "gone"
    /\ UNCHANGED <<poolVars, waitVars, historyVars>>

Gone == dtor = "gone" /\ UNCHANGED vars

-----------------------------------------------------------------------------

Init ==
    /\ q = EmptyQueue
    /\ waiting = {}
    /\ running = 0
    /\ quit = FALSE
    /\ pc = [w \in Workers |-> "check"]
    /\ cmd = [w \in Workers |-> NoTask]
    /\ todo = [w \in Workers |-> <<>>]
    /\ wait = [pc |-> "idle", sent |-> 0, hasMore |-> FALSE, calls |-> 0]
    /\ arrived = 0
    /\ released = 0
    /\ dtor = "alive"
    /\ submitted = {} /\ started = {} /\ done = {} /\ before = {}
    /\ late = [w \in Workers |-> 0]
    /\ bypass = [f \in Filters |-> 0]

Worker(w) ==
    \/ CheckQuit(w) \/ Sleep(w) \/ Take(w) \/ Spawn(w)
    \/ Finish(w) \/ Arrive(w) \/ Unblock(w)

\* The caller of waitForAll() once it is inside the call.
Waiter == EnqueueBlocker \/ ReadQueued \/ ReleaseAll

Destructor == PushNullTasks \/ Join

Next ==
    \/ \E t \in Tasks : Submit(t)
    \/ \E w \in Workers : Worker(w)
    \/ CallWaitForAll \/ Waiter
    \/ SetQuit \/ Destructor \/ Gone

\* Every thread that can run does run: the pool's threads, the client inside
\* waitForAll() and the owner inside the destructor. Nobody has to submit a
\* task, to call waitForAll() or to destroy the pool.
Fairness ==
    /\ \A w \in Workers : WF_vars(Worker(w))
    /\ WF_vars(Waiter)
    /\ WF_vars(Destructor)

Spec == Init /\ [][Next]_vars /\ Fairness

-----------------------------------------------------------------------------
(* Properties.                                                             *)

Pcs == {"check", "get", "run", "blocked", "exit"}

\* Every variable has its type.
TypeOK ==
    /\ q.ui \in Seq(Commands) /\ q.batch \in Seq(Commands)
    /\ \A i \in Places(q) :
          q.filters[i].filter \in Filters /\ q.filters[i].tasks \in Seq(Tasks)
    /\ q.next \in 0 .. Len(q.filters) /\ (q.filters # <<>> => q.next < Len(q.filters))
    /\ waiting \subseteq Workers
    /\ running \in 0 .. Cardinality(Workers)
    /\ quit \in BOOLEAN
    /\ pc \in [Workers -> Pcs]
    /\ cmd \in [Workers -> Commands]
    /\ todo \in [Workers -> Seq(Tasks)]
    /\ wait \in [pc : {"idle", "enqueue", "release"}, sent : 0 .. Cardinality(Workers),
                 hasMore : BOOLEAN, calls : 0 .. MaxCalls]
    /\ arrived \in 0 .. Cardinality(Workers)
    /\ released \in Nat
    /\ dtor \in {"alive", "quit", "join", "gone"}
    /\ done \subseteq started /\ started \subseteq submitted /\ submitted \subseteq Tasks
    /\ before \subseteq submitted
    /\ late \in [Workers -> Nat]
    /\ bypass \in [Filters -> Nat]

\* The assertion of waitForAll() (WorkerThreads.cpp:43): when no task waits,
\* every thread of the pool sits in a blocker, so running() is threads().
WaitForAllAssertion ==
    wait.pc = "release" /\ ~wait.hasMore => running = Cardinality(Workers)

\* What the callers of waitForAll() rely on: when it reads that no task waits,
\* every task enqueued so far is done, those that tasks enqueued included.
WaitForAllWaits ==
    [][ReadQueued /\ ~wait'.hasMore => submitted = done]_vars

\* A blocker of waitForAll() never overtakes a task enqueued before the call:
\* batch is the lowest class and each class is a FIFO.
IsBlocking(w) == pc[w] \in {"run", "blocked"} /\ cmd[w] = Blocker(released + 1)

NoOvertaking == (\E w \in Workers : IsBlocking(w)) => before \subseteq started

\* Filters are served in turns: while the tasks of a filter wait, every other
\* filter gets at most one turn, so a busy filter cannot hold up another one.
FilterBoundedBypass == \A f \in Filters : bypass[f] < Len(q.filters) \/ bypass[f] = 0

\* A thread that passed the test of quit_ just before the destructor set it
\* takes at most one more task.
AtMostOneLateTask == \A w \in Workers : late[w] <= 1

\* A task is never lost and never runs twice: it waits once, or a thread has it,
\* or it is done. A wake-up, a turn or a shutdown must not drop one.
Occurrences(t) ==
    LET In(s)   == {i \in DOMAIN s : s[i] = t}
        holders == {w \in Workers : pc[w] = "run" /\ cmd[w] = t}
    IN  Cardinality(In(q.ui)) + Cardinality(In(q.batch)) + Cardinality(holders)
        + Cardinality(UNION {{p} \X In(q.filters[p].tasks) : p \in Places(q)})

EveryTaskOnce ==
    \A t \in Tasks : Occurrences(t) = IF t \in submitted \ done THEN 1 ELSE 0

\* No task waits for ever: time and again the pool has run everything that was
\* enqueued, or it is being destroyed. The tasks of an instance are finitely
\* many; without that bound a steady flow of ui tasks starves the others.
PoolDrains == []<>(submitted = done \/ quit)

\* waitForAll() returns when the clients stop enqueueing.
WaitForAllReturns == (wait.pc # "idle") ~> (wait.pc = "idle")

\* The destructor ends: no thread stays asleep on the empty queue.
ShutdownCompletes == (dtor = "quit") ~> (dtor = "gone")

=============================================================================
