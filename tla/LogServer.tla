------------------------------ MODULE LogServer ------------------------------
(***************************************************************************)
(* The log server and the program around it: Net/TcpServer.cpp with its    *)
(* threads for accepting and for each client, the pool that parses         *)
(* batches, and the data pumps of CursATE/Main.cpp that move logs from the *)
(* server to the root node, until the program stops them all.              *)
(*                                                                         *)
(* An item is what the selector cuts out of a client's stream: a JSON, or  *)
(* a character it refuses.  Time is counted in periods of                  *)
(* bulkPackageTimeout_: due is how many are left until the deadline.       *)
(***************************************************************************)
EXTENDS Selector, FiniteSets

CONSTANTS
    Clients,    \* the connections
    Stream,     \* what the remote end of each of them sends, in order
    Refused,    \* the items the selector throws at
    Broken,     \* the items it lets pass although they are no JSON
    NonObjects, \* the JSONs that are no object
    Workers,    \* the threads of the pool
    Pumps,      \* dataPumpThreads_
    g_jsonChunkSize,        \* JSONs in a full bulk
    g_maxElementsInQueue,   \* entries of the queue from which on clients wait
    MaxLag,     \* bound: a deadline further in the past than this stays there
    MaxBatches  \* bound: batches that wait on the pool, which has no limit

Items == UNION {ToSet(Stream[c]) : c \in Clients}

\* Each item is told from all others, and from the connections.
ASSUME StreamAssumption ==
    /\ Stream \in [Clients -> Seq(Items)] /\ Items \cap Clients = {}
    /\ \A c \in Clients : IsInjective(Stream[c])
    /\ \A c, d \in Clients : c # d => ToSet(Stream[c]) \cap ToSet(Stream[d]) = {}
\* threadsCount() of Main.cpp is at least one.
ASSUME ThreadsAssumption ==
    /\ IsFiniteSet(Clients) /\ IsFiniteSet(Workers)
    /\ IsFiniteSet(Pumps) /\ Pumps # {}
ASSUME LimitsAssumption ==
    /\ g_jsonChunkSize \in Nat \ {0} /\ g_maxElementsInQueue \in Nat \ {0}
    /\ MaxLag \in Nat /\ MaxBatches \in Nat \ {0}

VARIABLES
    unread,     \* what the remote ends have sent, or will, and was not read
    pc,         \* where the thread of each client is
    data,       \* the part of the buffer that processInputData() has not seen
    bulk,       \* inputJsons
    sent,       \* dataSent
    due,        \* periods until the deadline
    pool,       \* the batches that wait for a thread of the pool
    work,       \* what each thread of the pool does
    queue,      \* queue_
    pump,       \* what each data pump does
    acceptor,   \* where workerLoop() is
    signal,     \* there is a byte in the socket pair that interrupts accept()
    quit,       \* quit_ of the server
    mainQuit,   \* quit_ of Main
    main,       \* where the main thread is, and calls of interrupt() it has left
    inserted,   \* how often an item was inserted to the root node
    failed      \* how often something was counted in errors_, here or in Main

clientVars == <<unread, pc, data, bulk, sent, due>>
poolVars   == <<pool, work>>
pumpVars   == <<pump, inserted>>
stopVars   == <<acceptor, signal, quit, mainQuit, main>>
vars == <<clientVars, poolVars, queue, pumpVars, failed, stopVars>>

Idle == [at |-> "idle", batch |-> <<>>]

\* errors_ goes up by one for each of them.
Count(counts, items) == [j \in DOMAIN counts |-> IF j \in items THEN counts[j] + 1 ELSE counts[j]]

\* parseToAnnotatedLogs(): what does not parse is left out, the rest keeps its order.
Kept(batch)   == {i \in DOMAIN batch : batch[i] \notin Broken}
Nth(S, n)     == CHOOSE i \in S : Cardinality({k \in S : k <= i}) = n
Parsed(batch) == [n \in 1 .. Cardinality(Kept(batch)) |-> batch[Nth(Kept(batch), n)]]

Unparsed(batch) == ToSet(batch) \cap Broken

-----------------------------------------------------------------------------
(* Connections: workerLoop() and accept().  Each loop of a thread looks at  *)
(* quit_ at the end of the step before: that step is the thread's own.     *)

AcceptLoop == acceptor' = IF quit THEN "end" ELSE "accept"

\* waitForData() takes all bytes out of the socket pair.
AcceptInterrupted ==
    /\ acceptor = "accept" /\ signal
    /\ AcceptLoop
    /\ signal' = FALSE
    /\ UNCHANGED <<clientVars, poolVars, queue, pumpVars, failed, quit, mainQuit, main>>

\* while(not *quit_) of processClient().
Loop == IF quit THEN "end" ELSE "read"

\* The new thread starts with a deadline one period ahead.
Accept(c) ==
    /\ acceptor = "accept" /\ pc[c] = "queued"
    /\ AcceptLoop
    /\ pc' = [pc EXCEPT ![c] = Loop]
    /\ due' = [due EXCEPT ![c] = 1]
    /\ UNCHANGED <<unread, data, bulk, sent, poolVars, queue, pumpVars, failed, signal, quit, mainQuit, main>>

-----------------------------------------------------------------------------
(* The thread of a client: processClient().                                *)

\* readSome() returns some of what was sent.
Read(c) ==
    /\ pc[c] = "read"
    /\ \E n \in 1 .. Len(unread[c]) :
        /\ data' = [data EXCEPT ![c] = SubSeq(unread[c], 1, n)]
        /\ unread' = [unread EXCEPT ![c] = SubSeq(@, n + 1, Len(@))]
    /\ pc' = [pc EXCEPT ![c] = "data"]
    /\ UNCHANGED <<bulk, sent, due, poolVars, queue, pumpVars, failed, stopVars>>

\* The first test of processInputIfReady().
Ready(c, b) == Len(b) >= g_jsonChunkSize \/ due[c] <= 0

\* A broken variant: nothing is sent unless there is data.
TimeoutIgnored(c) ==
    /\ pc[c] = "read"
    /\ pc' = [pc EXCEPT ![c] = Loop]
    /\ UNCHANGED <<unread, data, bulk, sent, due, poolVars, queue, pumpVars, failed, stopVars>>

\* No data for a period: a bulk is sent when it is time, even an empty one.
Timeout(c) ==
    /\ pc[c] = "read"
    /\ pc' = [pc EXCEPT ![c] = IF Ready(c, bulk[c]) THEN "wait" ELSE Loop]
    /\ UNCHANGED <<unread, data, bulk, sent, due, poolVars, queue, pumpVars, failed, stopVars>>

\* processInputData(): the next item of the buffer.
Select(c) ==
    /\ pc[c] = "data" /\ data[c] # <<>>
    /\ data' = [data EXCEPT ![c] = Tail(@)]
    /\ IF Head(data[c]) \in Refused
       THEN /\ failed' = Count(failed, {Head(data[c])})
            /\ UNCHANGED <<bulk, pc>>
       ELSE /\ bulk' = [bulk EXCEPT ![c] = Append(@, Head(data[c]))]
            /\ pc' = [pc EXCEPT ![c] = IF Ready(c, bulk'[c]) THEN "wait" ELSE "data"]
            /\ UNCHANGED failed
    /\ UNCHANGED <<unread, sent, due, poolVars, queue, pumpVars, stopVars>>

\* The end of the buffer: the deadline moves by one period when bulks were sent.
EndOfData(c) ==
    /\ pc[c] = "data" /\ data[c] = <<>>
    /\ due' = [due EXCEPT ![c] = IF sent[c] THEN @ + 1 ELSE @]
    /\ sent' = [sent EXCEPT ![c] = FALSE]
    /\ pc' = [pc EXCEPT ![c] = Loop]
    /\ UNCHANGED <<unread, data, bulk, poolVars, queue, pumpVars, failed, stopVars>>

\* A broken variant: quit_ is not looked at.
WaitForRoomOnly(c) ==
    /\ pc[c] = "wait" /\ Len(queue) < g_maxElementsInQueue
    /\ pc' = [pc EXCEPT ![c] = "enqueue"]
    /\ UNCHANGED <<unread, data, bulk, sent, due, poolVars, queue, pumpVars, failed, stopVars>>

\* waitForQueueSizeLowEnough() of processInputIfReady(), which looks at quit_
\* once a second while the queue is full.
WaitForRoom(c) ==
    /\ pc[c] = "wait"
    /\ \/ Len(queue) < g_maxElementsInQueue /\ pc' = [pc EXCEPT ![c] = "enqueue"]
       \/ Len(queue) >= g_maxElementsInQueue /\ quit /\ pc' = [pc EXCEPT ![c] = "data"]
    /\ UNCHANGED <<unread, data, bulk, sent, due, poolVars, queue, pumpVars, failed, stopVars>>

\* A broken variant: the bulk is copied, not swapped out.
EnqueueCopy(c) ==
    /\ pc[c] = "enqueue" /\ Len(pool) < MaxBatches
    /\ Len(queue) < g_maxElementsInQueue
    /\ pool' = Append(pool, bulk[c])
    /\ sent' = [sent EXCEPT ![c] = TRUE]
    /\ pc' = [pc EXCEPT ![c] = "data"]
    /\ UNCHANGED <<unread, data, bulk, due, work, queue, pumpVars, failed, stopVars>>

\* queueJsonsForParsing(): takes the bulk, waits for room once more, and gives
\* the bulk to the pool; it is dropped when the queue is full and quit_ is set.
EnqueueBulk(c) ==
    /\ pc[c] = "enqueue" /\ Len(pool) < MaxBatches
    /\ \/ Len(queue) < g_maxElementsInQueue /\ pool' = Append(pool, bulk[c])
       \/ Len(queue) >= g_maxElementsInQueue /\ quit /\ UNCHANGED pool
    /\ bulk' = [bulk EXCEPT ![c] = <<>>]
    /\ sent' = [sent EXCEPT ![c] = TRUE]
    /\ pc' = [pc EXCEPT ![c] = "data"]
    /\ UNCHANGED <<unread, data, due, work, queue, pumpVars, failed, stopVars>>

\* The remote end has closed: sendOutRemainingLogs() parses on this thread,
\* unless the server quits or there is nothing left.
Close(c) ==
    /\ pc[c] = "read" /\ unread[c] = <<>>
    /\ bulk' = [bulk EXCEPT ![c] = Parsed(@)]
    /\ IF quit \/ bulk[c] = <<>>
       THEN /\ pc' = [pc EXCEPT ![c] = "end"]
            /\ UNCHANGED failed
       ELSE /\ pc' = [pc EXCEPT ![c] = "push"]
            /\ failed' = Count(failed, Unparsed(bulk[c]))
    /\ UNCHANGED <<unread, data, sent, due, poolVars, queue, pumpVars, stopVars>>

\* ... and pushes without a look at the size of the queue.
PushRest(c) ==
    /\ pc[c] = "push"
    /\ queue' = Append(queue, bulk[c])
    /\ bulk' = [bulk EXCEPT ![c] = <<>>]
    /\ pc' = [pc EXCEPT ![c] = "end"]
    /\ UNCHANGED <<unread, data, sent, due, poolVars, pumpVars, failed, stopVars>>

\* The connection breaks: read() throws, processOneClient() counts the error, and
\* the bulk is gone with the stack of processClient().
Break(c) ==
    /\ pc[c] = "read"
    /\ failed' = Count(failed, {c})
    /\ bulk' = [bulk EXCEPT ![c] = <<>>]
    /\ pc' = [pc EXCEPT ![c] = "end"]
    /\ UNCHANGED <<unread, data, sent, due, poolVars, queue, pumpVars, stopVars>>

\* A period passes.
Tick ==
    /\ due' = [c \in Clients |-> IF due[c] > -MaxLag THEN due[c] - 1 ELSE due[c]]
    /\ UNCHANGED <<unread, pc, data, bulk, sent, poolVars, queue, pumpVars, failed, stopVars>>

-----------------------------------------------------------------------------
(* A thread of the pool, with the task of queueJsonsForParsing().          *)

\* The task takes its batch apart, unless the server quits or it is empty.
Parse(w) ==
    LET batch == Head(pool)
    IN  /\ work[w] = Idle /\ pool # <<>>
        /\ pool' = Tail(pool)
        /\ IF quit \/ batch = <<>>
           THEN UNCHANGED <<work, failed>>
           ELSE /\ work' = [work EXCEPT ![w] = [at |-> "push", batch |-> Parsed(batch)]]
                /\ failed' = Count(failed, Unparsed(batch))
        /\ UNCHANGED <<clientVars, queue, pumpVars, stopVars>>

Push(w) ==
    /\ work[w].at = "push"
    /\ queue' = Append(queue, work[w].batch)
    /\ work' = [work EXCEPT ![w] = Idle]
    /\ UNCHANGED <<clientVars, pool, pumpVars, failed, stopVars>>

-----------------------------------------------------------------------------
(* A data pump: dataPumpLoop() and readNextLogs().                         *)

ReadNextLogs(p) ==
    /\ pump[p].at = "read" /\ queue # <<>>
    /\ pump' = [pump EXCEPT ![p] = [at |-> "insert", batch |-> Head(queue)]]
    /\ queue' = Tail(queue)
    /\ UNCHANGED <<clientVars, poolVars, inserted, failed, stopVars>>

\* The loop over the logs of the entry, in one step: root_ may be inserted to
\* from any thread.  External: insert() does not throw.
InsertLogs(p) ==
    LET logs == ToSet(pump[p].batch)
    IN  /\ pump[p].at = "insert"
        /\ inserted' = Count(inserted, logs \ NonObjects)
        /\ failed' = Count(failed, logs \cap NonObjects)
        /\ pump' = [pump EXCEPT ![p] = [at |-> IF mainQuit THEN "end" ELSE "read", batch |-> <<>>]]
        /\ UNCHANGED <<clientVars, poolVars, queue, stopVars>>

-----------------------------------------------------------------------------
(* The main thread: Main::stop(), which run() and the destructor call, and *)
(* the destructors of the members.                                         *)

\* A broken variant: one call for all the data pumps.
OneCall == {1}

\* stop() calls interrupt() once for each data pump; it is called twice, but
\* only once when run() has thrown.
StopCalls == {Cardinality(Pumps), 2 * Cardinality(Pumps)}

Stop ==
    /\ main.at = "run"
    /\ \E n \in StopCalls : main' = [at |-> "interrupt", calls |-> n]
    /\ mainQuit' = TRUE
    /\ UNCHANGED <<clientVars, poolVars, queue, pumpVars, failed, acceptor, signal, quit>>

\* interrupt(): sets quit_, interrupts accept(), and pushes an empty entry.
InterruptQuit ==
    /\ main.at \in {"interrupt", "destroy"} /\ main.calls > 0 /\ ~ quit
    /\ quit' = TRUE
    /\ UNCHANGED <<clientVars, poolVars, queue, pumpVars, failed, acceptor, signal, mainQuit, main>>

Interrupt ==
    /\ main.at \in {"interrupt", "destroy"} /\ main.calls > 0 /\ quit
    /\ signal' = TRUE
    /\ queue' = Append(queue, <<>>)
    /\ main' = [main EXCEPT !.calls = @ - 1]
    /\ UNCHANGED <<clientVars, poolVars, pumpVars, failed, acceptor, quit, mainQuit>>

\* dataPumpThreads_ is destroyed first; then ~TcpServer() interrupts once more.
JoinPumps ==
    /\ main = [at |-> "interrupt", calls |-> 0]
    /\ \A p \in Pumps : pump[p].at = "end"
    /\ main' = [at |-> "destroy", calls |-> 1]
    /\ UNCHANGED <<clientVars, poolVars, queue, pumpVars, failed, acceptor, signal, quit, mainQuit>>

\* The threads of the server are joined: workerThread_ and clientThreads_.
JoinServer ==
    /\ main = [at |-> "destroy", calls |-> 0]
    /\ acceptor = "end"
    /\ \A c \in Clients : pc[c] \in {"queued", "end"}
    /\ main' = [main EXCEPT !.at = "stopped"]
    /\ UNCHANGED <<clientVars, poolVars, queue, pumpVars, failed, acceptor, signal, quit, mainQuit>>

-----------------------------------------------------------------------------
Init ==
    /\ unread = Stream
    /\ pc = [c \in Clients |-> "queued"]
    /\ data = [c \in Clients |-> <<>>]
    /\ bulk = [c \in Clients |-> <<>>]
    /\ sent = [c \in Clients |-> FALSE]
    /\ due = [c \in Clients |-> 0]
    /\ pool = <<>>
    /\ work = [w \in Workers |-> Idle]
    /\ queue = <<>>
    /\ pump = [p \in Pumps |-> [at |-> "read", batch |-> <<>>]]
    /\ acceptor = "accept"
    /\ signal = FALSE
    /\ quit = FALSE
    /\ mainQuit = FALSE
    /\ main = [at |-> "run", calls |-> 0]
    /\ inserted = [j \in Items |-> 0]
    /\ failed = [x \in Items \cup Clients |-> 0]

ServeClient(c) ==
    \/ Timeout(c) \/ Select(c) \/ EndOfData(c)
    \/ WaitForRoom(c) \/ EnqueueBulk(c) \/ PushRest(c)
RunWorker(w) == Parse(w) \/ Push(w)
RunPump(p)   == ReadNextLogs(p) \/ InsertLogs(p)
AcceptClient == AcceptInterrupted \/ \E c \in Clients : Accept(c)
StopProgram  == InterruptQuit \/ Interrupt \/ JoinPumps \/ JoinServer

Next ==
    \/ \E c \in Clients : Read(c) \/ ServeClient(c) \/ Close(c) \/ Break(c)
    \/ \E w \in Workers : RunWorker(w)
    \/ \E p \in Pumps : RunPump(p)
    \/ AcceptClient \/ Stop \/ StopProgram \/ Tick

(***************************************************************************)
(* Fairness: every thread runs.  A thread that reads gets the data once    *)
(* they are there, and the remote end sends them some time: without SF it  *)
(* could run into timeouts for ever.  Connections need not close or break, *)
(* and nobody need stop the program.                                       *)
(***************************************************************************)
Fairness ==
    /\ \A c \in Clients : WF_vars(ServeClient(c)) /\ SF_vars(Read(c))
    /\ \A w \in Workers : WF_vars(RunWorker(w))
    /\ \A p \in Pumps : WF_vars(RunPump(p))
    /\ WF_vars(AcceptClient) /\ WF_vars(StopProgram) /\ WF_vars(Tick)

Spec == Init /\ [][Next]_vars /\ Fairness

-----------------------------------------------------------------------------
(* Types: the items of a client stay in order while they are its own.      *)
TypeOK ==
    /\ \A c \in Clients :
        /\ IsSuffix(data[c] \o unread[c], Stream[c])
        /\ pc[c] \in {"queued", "read", "data", "wait", "enqueue", "push", "end"}
        /\ quit \/ Len(bulk[c]) <= g_jsonChunkSize
        /\ sent[c] \in BOOLEAN
        /\ due[c] \in -MaxLag .. Len(Stream[c]) + 1
    /\ \A i \in DOMAIN pool : ToSet(pool[i]) \subseteq Items
    /\ \A i \in DOMAIN queue : ToSet(queue[i]) \subseteq Items \ (Broken \cup Refused)
    /\ \A w \in Workers : work[w].at \in {"idle", "push"}
    /\ \A p \in Pumps : pump[p].at \in {"read", "insert", "end"}
    /\ acceptor \in {"accept", "end"}
    /\ {signal, quit, mainQuit} \subseteq BOOLEAN
    /\ main.at \in {"run", "interrupt", "destroy", "stopped"}
    /\ main.calls \in 0 .. 2 * Cardinality(Pumps)
    /\ \A j \in Items : inserted[j] = 0 \/ j \notin Refused \cup Broken \cup NonObjects

\* How often an item is somewhere in the program, or has come to its end.
Times(j, s) == Cardinality({i \in DOMAIN s : s[i] = j})
TimesIn(j, batches) ==
    Cardinality({x \in UNION {{b} \X DOMAIN batches[b] : b \in DOMAIN batches} :
                    batches[x[1]][x[2]] = j})
Copies(j) ==
    inserted[j] + failed[j] + TimesIn(j, data) + TimesIn(j, bulk) + TimesIn(j, pool)
        + TimesIn(j, [w \in Workers |-> work[w].batch])
        + TimesIn(j, queue) + TimesIn(j, [p \in Pumps |-> pump[p].batch])

(* Between the socket and the root node no item is doubled; and none is    *)
(* lost unless the server was told to quit, or the connection broke and    *)
(* took with it what was not yet given to the pool.  (The bulk is swapped  *)
(* out, moved to a task, moved to the queue and moved to the pump.)        *)
ItemsConserved ==
    \A c \in Clients : \A j \in ToSet(Stream[c]) \ ToSet(unread[c]) :
        /\ Copies(j) <= 1
        /\ Copies(j) = 0 => quit \/ failed[c] > 0

(* Each data pump that can still wait for an entry of the queue when the   *)
(* program stops has one to come: readNextLogs() has no timeout, so that   *)
(* the join of the pumps depends on the number of calls of interrupt().    *)
EnoughWakeUps ==
    mainQuit => Cardinality({p \in Pumps : pump[p].at = "read"}) <= Len(queue) + main.calls

(* Both, in one invariant.                                                 *)
Inv == TypeOK /\ EnoughWakeUps

(* Two logs of a client that is still connected reach the queue in the     *)
(* order they were sent, as the test "server recovers from an error in one *)
(* of the JSONs" expects of readNextLogs().                                *)
ArrivalOrder ==
    \A c \in {c \in Clients : pc[c] \notin {"push", "end"}} : \A i, k \in DOMAIN Stream[c] :
        i < k /\ TimesIn(Stream[c][k], queue) > 0
            => /\ TimesIn(Stream[c][i], pool) = 0
               /\ \A w \in Workers : Times(Stream[c][i], work[w].batch) = 0

(* What a client sends is shown or counted as an error some time, although *)
(* a bulk waits for its size or for its deadline and the client may keep   *)
(* the connection open: unless the connection breaks or the program stops. *)
ItemsDelivered ==
    \A c \in Clients :
        <>(\/ \A j \in ToSet(Stream[c]) : inserted[j] + failed[j] = 1
           \/ failed[c] > 0 \/ mainQuit)

(* The program stops when it is told to: no thread waits for ever on the   *)
(* queue, on its limit, on a socket or on accept().                        *)
ProgramStops == main.at # "run" ~> main.at = "stopped"

(* The selector, for the streams a server may be given: looked at once,    *)
(* before anything has happened.                                           *)
StreamsAreCutRight == Init => SelectorRight

=============================================================================
