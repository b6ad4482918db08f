# LogATE: a TLA+ model

LogATE receives logs as JSON over TCP, keeps them in a tree of filters and shows
them on a terminal (CursATE). This directory holds TLA+ modules translated from
its C++ sources, TLC runs over them and proofs checked by TLAPS. Paths below are
relative to `src/` of the repository (`LogATE/...`, `CursATE/...`).

## The system

    TCP clients --> TcpServer --batches--> WorkerThreads (parse) --> queue
                                                                      |
                 UI <-- windows <-- filter tree <-- insert() <-- pump threads (Main)
                  \-- Search --> WorkerThreads

| component | state | operations | what makes it correct |
|---|---|---|---|
| thread pool, `LogATE/Utils/WorkerThreads`, `detail/MultiQueue` | a queue of UI tasks, one of batch tasks, one per filter; `running_`, `quit_` | enqueue*, waitForAll, destructor, the loop of a thread | every task runs once; filters are served in turns; UI first; waitForAll waits for all; the destructor ends |
| logs of a node, `Tree/Logs`, `detail/LogKeyIndexCache` | a set ordered by key; remembered positions | insert, pruneUpTo, from, to, index | positions are exact after any history; the cache stays sparse |
| node, `Tree/Node`, `Tree/SimpleNode` | logs, children | insert, add, remove, pruneUpTo, trimAdditionalFields | a child shows exactly the logs of its node that it takes, whatever arrives while it is added |
| filters, `Tree/Filter/*`, `FilterFactory`, `Path` | options; Explode: children by value; BinarySplit: two halves | insert / matches, children, build | each log is in just the right children, and nothing that was cut out is shown |
| search, `Tree/Search`, `Screen/Search` | SharedState: cancel, found, counters | search, the jobs, the answer; progress, giving up | the user gets the next match; there is an answer |
| server, `Net/TcpServer`, sockets | the queue of parsed logs, errors, quit | readNextLogs, interrupt, the client threads | nothing that was read is lost or doubled; batches do not wait for ever; shutdown ends |
| selector, `Json/Selector` | nesting, string and escape state | update, reset | objects are cut where they end; recovery after errors |
| keys, `Log`, `SequenceNumber`, `KeyExtractor` | the next sequence number | comparison, extraction | a total order that agrees with time |
| main, `CursATE/Main` | pump threads, quit | dataPumpLoop, stop | every received log gets to the root; stop ends |
| windows, `Curses/detail/ScrolableWindowBackend`, `Screen/detail/*DataSource` | the lines shown, the selection | select*, resize, display | the lines have no gap and the selection is one of them, with a source that grows |
| log list and filter tree, `Screen/LogList`, `FilterTree`, `FilterWindows`, `Marks` | the current node and window, marks, lines of the tree | keys of the user | the keys work on the node that is shown, which is in the tree; deleted nodes go |
| details and forms, `Screen/LogEntry`, `Curses/Form` | lines of a log, fields of a form | keys of the user | a filter takes the log it was proposed for; a form can be left |

What is hard: the UI, the pump threads and the threads of the pool work on the
tree at the same time; a child is filled by tasks while logs keep arriving; a
search reads what others write, on a pool that also has to run its own waiter;
windows ask a source several times for one screen while it grows; shutdown has to
wake every thread that sleeps. `PROJECT.json` lists the hazards, each at its line,
with the properties that cover it or the reason why none does.

## The modules

| module | models | how state and actions correspond |
|---|---|---|
| `MultiQueue` | `Utils/detail/MultiQueue.hpp` | operators on a record: the three kinds of queues and `nextFilter_` |
| `WorkerThreads` | `Utils/WorkerThreads.*` | a step is one hold of the queue's lock or one access to an atomic or Event; `pc` is the place in `processingLoop()`, `wait` the caller of `waitForAll()`, `dtor` the destructor |
| `Logs` | `Tree/Logs.*` | operators on a set of keys; a log is its key |
| `LogKeyIndexCache` | `Tree/detail/LogKeyIndexCache.*` as `Logs` calls it | `cache` is a function from remembered keys to indexes; one action per operation of `Logs` that touches it |
| `FilteredView` | the promise of a node | abstract: logs arrive, children come and go, and each comes to show what it misses |
| `SimpleNode` | `Tree/SimpleNode.cpp` | `at/key/todo/raced`: a thread inside `insert()`; `copy/cursor`: the task that copies; `chunks`: the tasks `insertChunk()` |
| `TreeSearch` | `Tree/Search.cpp` | `at` is the place of each pool thread in one of the tasks of a search; `hand` the chunk it works on |
| `SearchScreen` | `Screen/Search.cpp`, `Screen/ProgressBar.cpp` | extends `TreeSearch`: `ui` is the place in `triggerSearch()`, `result` its status |
| `LogServer` | `Net/TcpServer.cpp`, `CursATE/Main.cpp` | the threads that accept (`acceptor`), serve a client (`pc`, `data`, `bulk`, `due`), parse (`pool`, `work`), pump (`pump`), and the main thread that stops them all |
| `Selector` | `Json/Selector.hpp` and the loop of `processInputData()` | what is left of the selector, and what came out, after each character of a stream |
| `LogPaths` | `Utils/forEachMatch.hpp`, `matchesLog.cpp`, `value2str.cpp`, `Tree/Path.hpp` | operators on JSON values: where a path leads, level by level down to `MaxDepth` |
| `Trimming` | `Utils/trimFields.cpp` | operators: the places in a log, each a way from the root and the value there, and which of them are left when paths are cut out of it |
| `FilterNodes` | `Tree/Filter/*`, `Node::add()` | a filter under the root, and threads that bring logs to it; a step is one hold of a lock |
| `Form` | `Curses/Form.hpp`, `Curses/Field/*` | operators: what a key makes of a form |
| `LogEntry` | `Screen/LogEntry.cpp`, `LogEntryDataSource.cpp`, `FilterFactory.cpp` | extends `FilterNodes` and `Form`: from the details of a log to a filter that gets logs |
| `DataSource` | `Curses/DataSource.hpp` and its implementations | operators on the set of ids |
| `ScrolableWindow` | `Curses/detail/ScrolableWindowBackend.cpp`, `ScrolableWindow.cpp` | each call of the data source is a step (`pc`, `after`); logs may arrive between any two |
| `Screens` | `Screen/LogList.cpp`, `FilterTree.cpp`, `FilterWindows.cpp`, `Marks.cpp` | the tree as `kind` and `parent`; who owns a node decides which weak pointers still work (`Alive`) |
| `PathTexts` | `Tree/Path.cpp` | operators: a path from a text, from the texts of its entries, and back; a text is a sequence of tokens |
| `KeyExtractor` | `Tree/KeyExtractor.cpp` | operators: the key of a log in each source format |
| `KeyOrder` | `Log.hpp`, `fromUnixTs()` | operators: how keys are compared, and what is made of a time |
| `Config` | `CursATE/extractConfig.cpp` | operators: what is taken and refused of the options and the file |
| `PrettyPrint` | `Printers/OrderedPrettyPrint.cpp`, `Utils/PrintableStringConverter.cpp` | operators: the line of a log, and when there is none |
| `Lines` | `Screen/detail/splitIntoLines.cpp` | operators: a text cut into lines |
| `PathsTests`, `FilterTests`, `KeyTests`, `TextTests`, `SelectorTests`, `CacheTests` | unit tests of the above | see "Unit tests replayed" |
| `WorkerThreadsProofs`, `LogsProofs`, `LogKeyProofs`, `SimpleNodeProofs`, `TreeSearchProofs`, `LogServerProofs`, `WindowAndFilterProofs`, `ScreensProofs` | theorems | see below |
| `MC*` | instances for TLC | |

How they fit together. `SimpleNode` and `TreeSearch` use `Logs` and take the pool
by what `WorkerThreads` shows of it: a queue of filter tasks is served in turns
with the others, and by several threads, so the tasks of a copy run in any order
but none is passed over for ever; UI tasks start in the order in which they were
enqueued. `SimpleNode` implements `FilteredView` (`FV`, with `logs`, `children`,
`torn` and `~crashed` for `base`, `kids`, `excused` and `up`). `SearchScreen` and
`LogEntry` extend the modules they work on and compose their actions with the
user's. `ScrolableWindow` works over any `DataSource`, of which the logs of a node
are the one that grows. `LogServer` has parsing on a pool of `Workers`, and
extends `Selector`, which cuts its streams (`MCStreamIsCut`). All modules with
logs have integers for keys; `LogKeyProofs` is why they may.

`SimpleNode` is one level of the tree. What a child does with a log is the same
module one level down, so the levels compose: the copy and the loop of the parent
are inserting threads of the child. `FilterNodes` takes this level as given and
has the filters that make children of their own.

### Undefined behaviour

`insertToChildren()` iterates `children_` without the mutex `add()` and
`remove()` hold. A loop during which the vector changes is `raced`: it may go on,
pass over a child (only after an erase; the log is then `torn`), or crash. The two
loads of `begin()` and `end()` are one step; a change between them would add
nothing but further ways to `Crash`.

### What properties excuse

A history variable names each case in which the code does not keep what a property
says, so that the property says it for all the others: `torn` above; `strayed` in
`Screens`, when a mark was set on a node that has been deleted and something still
owns it (`LogList.cpp:438` then shows a node no log will reach); `unshown`, when a
filter was added on a terminal with no room for its window (`LogList.cpp:208`
throws after `currentNode_` has changed). `Faithful` in `LogEntry` leaves out lines
whose proposal cannot be right (see "Observations").

## The runs

| run | instance | shows |
|---|---|---|
| `worker_threads` | 2 threads, 4 tasks in 3 classes (one is enqueued by a task), one call of waitForAll | the safety and liveness properties of the pool |
| `log_key_index_cache` | 7 keys, every sequence of insertions, questions and prunings, no duplicates | the cache is exact and sparse, answers are exact |
| `index_of_duplicates` (violated) | the same with duplicates, every computed index remembered | a repeated insertion spoils remembered indexes |
| `index_of_absent_key` (violated) | no duplicates, every computed index remembered | `index()` runs out of the set |
| `simple_node` | 1 child, 2 inserting threads, 3 logs, chunks of 2 | the inductive invariant, completeness, each step is one of FilteredView, a child gets what it misses |
| `simple_node_race` (violated) | 2 children, 1 thread | the unguarded loop over the children |
| `tree_search` | 3 threads, 4 keys, 1 late log, both directions, all selections, a user who may give up; 111 134 states | the result is the next match, the answer is read alone, progress does not exceed its end, every search ends and the user is told |
| `log_server` | 1 client, 1 parsing thread, 2 pumps, a log, a refused character and a broken JSON, bulks of 2, a queue full with 1; 155 705 states | nothing is lost or doubled, streams are cut right, everything arrives, the program stops |
| `server_order` (violated) | 2 logs, 2 parsing threads | bulks of one client overtake each other |
| `window` | 4 ids, heights 1 to 3, logs and lists, all keys, any resizing; 840 356 states | the assertions of the code, no gaps, the cursor stays, follow mode follows |
| `screens` | 5 nodes, 1 mark, 1 node for which there may be no room; 326 745 states | the window belongs to the current node, which is in the tree; only what is shown is deleted; deleted nodes go |
| `filters` | 3 logs, one of which comes by two threads, six types of filters, forms with anything typed; 193 785 states | each log in its place, nothing trimmed is shown, a proposed filter takes its log, forms can be left |

Bounds, and why they do.

- Pool: two threads are enough to have one asleep and one blocked, two filters with
  two tasks on one of them for turns; each task runs once, so the run is finite
  (`MaxCalls` bounds `waitForAll()`).
- Cache: with seven keys, `insertEveryNth` 3 and `cacheIfDistanceAbove` 1, three
  entries are remembered at a time, so every case of `index()` (end, left, between
  from either side) occurs.
- Node: three logs and chunks of two give a copy of three chunks (two full, one of
  one log), with a log arriving before, in and behind each; more children add no
  interaction except through `raced`, which `simple_node_race` has.
- Search: up to four overlapping chunks, two of them searched at a time by two
  threads while the third still cuts.
- Server: a bulk is full, ends by its deadline or by the close of the connection;
  with a queue that is full with one entry the client waits in both places where it
  looks for room. `MaxLag` stops a deadline that has passed from running away,
  `MaxBatches` bounds the batches on the pool, which the code does not. Clients
  share only the pool, the queue and the thread that accepts; one is enough for each
  of these to be late. `server_order` has the second parsing thread.
- Selector: every junk of up to three characters before a good line, and texts with
  every kind of value at two levels, with brackets, quotes and escapes in strings.
- Window: four lines and three rows have lines above, below and on both sides of
  what is shown, and a source shorter than the window.
- Screens: five nodes make a splitting node with a child below a filter, next to
  another; nodes are used once.
- Filters: names at two depths, arrays of a text, an object and an array, a null, a
  word that cannot be printed and a name with a dot. `MaxDepth` is 6: no log is nested
  deeper (`LogsAssumption`, which TLC evaluates), and no test looks deeper.

Every property has a mutant of a mapped definition that breaks it.

### Unit tests replayed

Many of the modules are pure operators. They are checked against what the unit tests
of the repository (`*.ut.cpp`) expect: each `TEST_CASE` is an operator that says the
same of the model's operators, with the names, values and paths of the test, and an
`ASSUME` that TLC evaluates at the start of a run. A definition that differs from the
code where a test looks stops the run.

| module | tests | evaluated by |
|---|---|---|
| `PathsTests` | `matchesLog.ut`, `forEachMatch.ut`, `trimFields.ut` | `filters` |
| `FilterTests` | `Grep.ut`, `FilterFactory.ut` | `filters` |
| `KeyTests` | `Path.ut`, `KeyExtractor.ut`, `Log.ut` (the order of keys), and the defaults that the help of the options states | `filters` |
| `TextTests` | `splitIntoLines.ut`, `OrderedPrettyPrint.ut` | `filters` |
| `SelectorTests` | `Selector.ut` | `filters` |
| `CacheTests` | `Logs.ut`, `LogKeyIndexCache.ut`, `LogDataSource.ut` | `screens` |

Some of these modules have more than the tests: that a path that was parsed and
written is parsed to itself (`ParsedAsWritten`, over all texts of up to five tokens),
and that a text is cut into lines without anything lost, no line too long, no escape
sequence torn (`AllTextsSplit`, over all texts of up to four pieces and one to six
columns).

Scaled for TLC: a second has 10 ms, 100 us and 1000 ns; the random tests of the cache
have 30 keys instead of 300. Texts are tokens or short strings, so what a library
makes of a text (a number, a tokenized option, a regular expression) is a constant
that the test gives.

Not replayed: tests of threads, sockets, files and time (`WorkerThreads`, the nodes,
`Search`, the server), whose subject the runs cover in every interleaving, and tests of
the layout of windows (`ScrolableWindowBackend.ut`), whose operations the run `window`
takes in every order.

The assumption `chunkSize >= 2` is one the code needs: a copy with chunks of one
log stops after the first, and a search with chunks of one never stops cutting.
The program uses 10'000 for both.

### Fairness

Of what a running thread does next, weak fairness. `WorkerThreads`: each thread,
the caller inside `waitForAll()`, the owner inside the destructor; nobody has to
submit or to destroy. `SimpleNode`: a thread inside `insert()` or `addImpl()` goes
on, and the pool runs the copy and the chunks of each child; `PoolDrains` and
`FilterBoundedBypass` of `WorkerThreads` are the justification. Logs need not
arrive, children need not come. `SearchScreen`: the UI thread and each thread of
the pool; the user need not give up. `LogServer`: every thread, the clock and,
once it has begun, the stopping; clients need not close and nobody need stop the
program. `ScrolableWindow`: the UI thread, whose wait for a key has a timeout.
`Screens`: the pool drops what it was given to drop.

Strong fairness in two places, both about what comes from outside. `Read` in
`LogServer`: a client's socket that has data some time is read some time; the
thread could otherwise only ever look at it in the moments of a timeout.
`Escape` in `LogEntry`: a user who wants to leave hits the key again and again; the
form is not ready for it while an error is displayed. `FormsCanBeLeft` is about
such a user.

## The proofs

All sets of logs, pumps and threads are finite where a theorem says so; otherwise
the constants are what the named assumptions of the modules say.

`WorkerThreadsProofs`, for any number of threads, any tasks of any classes and
filters, any spawning in which a task is enqueued once, and any number of calls of
`waitForAll()`. A task that is enqueued twice would be two tasks here. The queue is
seen as lanes: one for the user interface, one for the batch tasks, one for each
place of `filters_`. Every operation of `MultiQueue` appends to one lane (`Grows`) or
takes the head of one (`Shrinks`), and no other property of the queue is needed for
most parts of the invariant `IInv`:

- `Types` and `Hands`: the counters `running_` and `arrived` are numbers of threads
  at certain places, and a thread has a command only while it runs it
  (`TypeCorrect`);
- `Once`: a task waits at one place of one lane, or is in the hands of one thread, or
  is done; `Spawned`: what a task has still to enqueue was enqueued by nobody
  (`NoTaskIsLost`);
- `Rounds`: the blockers that wait and those that threads hold are as many as
  `waitForAll()` has enqueued, all of its current round. When all have arrived each
  thread sits in one, so no thread runs a task, and with empty lanes `Once` says that
  all tasks are done (`AssertionHolds`, `WaitForAllIsExact`);
- `InFront`: what was enqueued before the call is in another lane than a blocker of
  the round, or before it in the same (`NobodyOvertakes`): the lane of the batch tasks
  is served only when the others are empty;
- `Lateness`: a thread that has taken a task after `quit_` was set looks at `quit_`
  before it takes another (`OneLateTask`);
- `Turns`: the turns that others had while a filter waited and the turns from
  `nextFilter_` to its place are together less than the number of filters
  (`FiltersTakeTurns`). New filters come behind the last, and none is taken out.

`LogsProofs`: first and last exist (`LeastExists`, from the well-foundedness of
strict inclusion); `from()` and `to()` leave out only what is behind everything
they return (`FromTakesTheLowest`, `ToTakesTheHighest`), and only when they are
full (`FromReturnsAllItCan`, `ToReturnsAllItCan`); if `from()` leaves out anything
it returns two logs at least (`AChunkOfOneIsTheLast`), which is why
`chunk.size() == 1` may end a copy; what `from()` and `to()` return for two logs
(`TwoFromALog`, `TwoToALog`), and that they return no more than they are asked for
(`FromIsBounded`, `ToIsBounded`); there is a log at each position up to the end
(`EveryPositionIsTaken`); how inserting and pruning move positions.

`LogKeyProofs`, for keys with any texts and any units: `KeysAreOrdered`, comparing
is a strict total order of keys, on which `std::set` and the integers of all other
modules rest. It goes through the first place in which two texts differ (`FirstApart`);
transitivity looks at the nearer of two such places. `TimesInOrder`: from
1970 to the end of the year 9999 the key of an earlier time comes before that of a
later one. The quotient is a date of fixed length and the rest a fraction that is never
negative; before 1970 it is, and later dates are longer, and the order is lost.

The same module, for any `insertEveryNth`, any `cacheIfDistanceAbove` and
any keys, without duplicates (`index_of_duplicates` shows what they do):
`CacheIsExact`, `AnswersAreExact`, `CacheIsSparse`. The invariant adds to exactness
that the set is finite and that remembered positions differ by the distance; an
insertion and a prune move positions by just what the cache adds and subtracts
(`PositionAfterInsert`, `PositionAfterPrune`).

`SimpleNodeProofs`, for any sets of keys, nodes and threads, any filters and any
chunk size of two or more:

- `InvHolds`: the inductive invariant `Inv`. `NoLostLog` is not inductive by
  itself: the copy's next chunk is found only if `cursor` is a log of the node and
  the set is finite (`OnTheWay`, `TypeOK`), and what a child shows is in the node
  only if what is on its way is (`ShownIsThere`).
- `NoLogIsLost`: every log that a listed child takes is in the child, or pending,
  or torn. The argument is in the lemmas `...Keeps`: the step that adds a log
  makes it pending in a loop; the step that lists a child makes all logs pending in
  its copy; a chunk moves logs from the rest of the copy to itself and leaves those
  behind it; an insertion puts the log into the child.
- `QuietNodeIsComplete`: with nothing under way a child shows exactly its logs.
- `NodeImplementsView`: every step is a step of `FilteredView` or a stutter.

`TreeSearchProofs`, for any logs, query, number of threads and chunk size of two
or more, whatever arrives or is canceled: `AnswerIsFirstMatch` and, for what the
user sees, `UserGetsNextMatch`. The invariant `SInv` has

- `OneLeads`: one token goes from the first task through the cutting to the last
  task and ends in the answer, so there is one thread that cuts or answers;
- `JobsCounted`: the jobs enqueued, queued and at work balance, but for one that was
  enqueued and not counted yet. With `OneLeads` this one is counted before the last
  task looks, so `total = finished` means that no job is left (`ReadAlone`): the
  answer is read alone although it is read without the lock;
- `Ranges`: what is cut, searched and found lies beyond the start;
- `ExpectedPending`: each log to look at is not sooner than what was found, or in a
  chunk that waits or is searched, or not cut yet. A job that stops early gives up
  only logs that are not sooner than what was found (`StoppingEarly`); a chunk
  passes on its last key, and all it could hold and does not is behind it
  (`ChunkIsNext`).

`ProgressStaysBelow` adds what is owed (`Owed`): what the jobs have compared, the logs
of the chunks in the queue and the sizes of the chunks in the hands of threads are
together not more than the sum of the chunks; a job that stops early adds nothing.
From the last chunk on (`CutOff`, which by `OneLeads` begins once) this sum is the
end of the bar.

When nothing is left, the first log found is the answer. The screen starts the
search at the log next to the selected one (`BesideIsNext`), so that nothing lies
between.

`LogServerProofs`, for any number of pumps, clients and parsing threads, any streams
of items that can be told apart, and any sizes of bulks and of the queue.
`NothingLostOrDoubled` counts: the invariant `Conserved` says that each item is in one
place (`Total`: still to be read, in the buffer, in a bulk, on the pool, at a thread of
it, in the queue, at a pump, inserted, or counted as an error), or in none, and then
the server quits or its client has failed. A step moves items between two neighbouring
places (`Parts` splits the sum accordingly, so that a step shows only what it changes);
only `Break` and the end of a quitting thread take some away. That a step moves each
item once rests on `StreamOf`, by which what is unread and in the buffer is the rest of
the stream, and on `ThreadAt`, which says what the thread of a client still holds at
each place of `processClient()`. What is parsed has each item as often as the batch, or
not at all (`Parsed` by the ranks of what is kept). `ThreadAt` also bounds the deadline:
it moves on when a bulk was sent, so it has passed or something was read since it moved
last, and it is never more than one period ahead of the number of items read. `ServerInvariant` follows with the types.

`EveryPumpIsWoken`: each pump that can still wait in `readNextLogs()` has an entry of the
queue or a call of `interrupt()` to come: a pump that takes an entry afterwards sees
`quit_` and does not come back. It is the part of the invariant of `LogServer` that
`ProgramStops` rests on.

The same module has the selector, for streams of any length: `SelectorInvariant`. `Run` over
two streams one after the other is two runs (`RunConcat`), so that what is left of the
selector between two pieces is all that has to be known. `NewLineRecovers`: with
`hardBreak`, whatever was received, the line that follows is cut as if it were the first;
what junk leaves in front of it is brackets and a string that the new line ends, and a
buffer that is emptied. `ObjectsComeOutWhole`: every object
of the grammar comes out as one JSON without white space outside its strings, and the stream
goes on as if it began behind it. The grammar (`JsonTexts`) is the least set of texts with
white space, strings and other characters in it that is closed under writing one behind the
other and under putting brackets around; texts that leave the selector as they found it,
at whatever level, but for themselves in its buffer, are closed in the same way (`Keeps`).
The texts that the run tries are a small part of this (`SelectorCutsRight`). The
counters of brackets are numbers here; in the code they have 32 bits.

`WindowAndFilterProofs` has two components that share nothing but lemmas about sets of
keys. Its first part, for any finite set of ids, any heights of the terminal, both
kinds of sources, any keys, and logs that arrive between any two calls of the source:
`AssertionsOfWindow`, `DrawnWithoutGaps`, `DrawingKeepsCursor`. What `get()` returns of a
line that is there is a stretch of the source without gaps that has the line, is no
longer than what was asked for, and has as many lines in front of it as were asked for,
if there are (`AskAround`, for both kinds of sources); `eraseToEqualSize()` leaves no
more lines than rows wherever the log of `select()` would be (`BalancedFits`), and
trimming keeps the selection (`TrimmedHasSelection`). The invariant `IInv` has to these

- `Lines`: at each place of the code, whether there are lines and whether the selection
  is one of them. After `select()` of a log that is not in the node it is not, and only
  `update()` repairs this;
- `Sizes`: the window knows the height of the terminal, but for the way from the key
  that noticed a new one to `refresh()`, on which the selection is one of the lines
  (`Settled`): this is why trimming never loses it;
- `Drawn`: from the beginning of `refresh()` on nothing is moved, and what was there
  then is still in the source when the last `get()` of it is made.

Its second part, for any filter that can be made, any number of threads, and logs that
are any JSON nested at most `MaxDepth` deep. `PathsFindPlaces`: what the code finds by
walking (`AllNodeValues`) is what the places of the log say (`Found`), for every path,
absolute or relative. The walk goes down the entries of the path and may stop at an
array, a null or a missing name; a place is a way from the root, chosen before anything
is looked up, and the path says only whether the way ends as it should. Both are
functions of the number of steps (`ReachedUnfolds`, `FieldsUnfold`, `PlacesUnfold`), so
one direction goes by the steps of the walk (`ReachedIsBehind`, `FieldsArePlaces`) and
the other by those of the way (`BehindIsReached`, `PlacesAreFields`). An entry has a
name, which is why no path leads into an array that is itself an item. `NodesAreRight`:
each log that is through is where it belongs and nowhere else, and no value has two
children. It needs `PathsFindPlaces` at the end, and the invariant `NodesInv`, which has

- `Working`: what a thread is doing fits the filter there is, the values it has left
  are values of its log, and the child it is about to fill is one the log belongs to;
- `Numbered`: the children are 0, 1, ... up to the number of the last, 0 has no name,
  and no two names have the same child, so the next number is free. That looking up
  and making a child is one step is needed just here;
- `Placed`: a log in a child belongs there, and is in the node. That it does not stop
  belonging there is the lemma `GoesOn`: the step that makes a child moves none;
- `Under`: of a log that a thread has taken, nothing is forgotten: each of its values
  is still to be looked up, or has a child that thread is about to fill, or one
  with the log in it. When the thread is through only the last is left.

The third part is what is cut out of a log. `TrimmedIsGone`: when `trimFields()` is
through, no place of the log is left at the end of a path it was given, whatever the
other paths were and in whatever order they came. Two things have to be known of what is
left after each step. It is `Whole`: with a place there is all the way to it, with an
object in front of each step that has a name, and with the field that the step is to or
into (`LogIsWhole`, `ErasingLeavesWhole`); so the loop of `trimFrom()` finds a place
behind each entry, the field at the end of it is erased, and so is what is in it
(`EndIsCut`). And it is only ever less (`TrimmingTakes`, `OneTakes`): what one path has
cut out none that follows brings back. The condition `Plain`, that arrays are no more
than the end of a path, is needed: the loop goes by names. `NothingLeftOutIsShown` has to
this that every node knows the paths in question (`TrimsAreTold`): the root hands them
down when the node is added, with the children there are, and Explode gives those it makes
later the list of the node it is (`NodeForTells`).

`LogEntry` takes its steps of these from `FilterNodes`; that the nodes its forms make
can be made (`CanBeMade`) is a part of `NodesOK` there. `CanBeMade` says of the options
that paths are paths, `RootTrimAssumption` the same of those the program is started with;
`getTrimFields()` makes them with `Path::parse()`.

`ScreensProofs`, for any finite set of nodes and any marks, with threads that give
children to splitting nodes at any time: `KeysWorkOnWhatIsShown`, `UserStaysInTree`,
`OnlyWhatIsShownIsDeleted`, `LineAboveIsSelected`. The nodes have no cycles
(`Grounded`: every set of nodes has one whose parent is not in it), so what is above a
node is a chain (`AboveIsChain`), and the order of the list is a strict total one of the
tree (`BeforeTransitive`, `BeforeTotal`): there is one node in each line and one line
for each node (`TreeIsListed`). The recursive function `Above` is not taken on trust
either: the least closed set with a node solves its equation (`AboveUnfolds`). The
invariant `IInv` has to the properties

- `TreeOK`: no cycles, the root has no parent, and a node that is not there yet has no
  part in the tree: giving a node a child changes nothing above the others
  (`AddChild`), and taking one from its parent only what is under it (`CutNode`);
- `ListOK`: every line of the screen is of a node of the tree, the root first, and no
  line is under the one of a node below it. This is why the line above a deleted
  node is still there to be selected, and why children that come while the list is
  open do no harm.

Only model-checked: liveness (`FillsViews`, `PoolDrains`, `SearchEnds`,
`ItemsDelivered`, `ProgramStops`, `FollowShowsNewest`, ...), which is out of TLAPS'
reach here; and what rests on a recursion that makes a new value or text of a JSON
(`PathTexts`, `KeyExtractor`, `PrettyPrint`, the lines of `LogEntry`), of the properties
of runs `DialogOK`.

## Findings

Four runs end in a violation, each a disagreement of the code with a test or an
assertion of the repository: repeated insertion and the index cache
(`Logs.cpp:53`), `index()` of an absent key (`LogKeyIndexCache.cpp:118`), the loop
over children without the mutex (`SimpleNode.cpp:67`), and the order in which bulks
of one client are parsed (`TcpServer.cpp:167`). `PROJECT.json` quotes both sides.

## Observations

Met while modelling, and left out of the models by an assumption or a bound that
the modules name:

- `help.cpp` has `e` as exit of forms; in `selectFilter()` (`LogEntry.cpp:111`,
  `:118`) `e` is listed twice and the first entry, Explode, wins.
- On a terminal of some 18 to 38 columns `form.process()` throws ScreenTooSmall
  (`Form.hpp:101`) before it reads a key, inside the loop of `LogEntry.cpp:184-206`
  that catches and tries again; only a wider terminal ends it. `LogEntry` has a wide
  terminal.
- The details of the log `{}` have no line, and `navigate()` uses the selection that
  is not there (`LogEntry.cpp:63`). `OpenDetails` leaves it out.
- In an array inside an array `LogEntryDataSource` drops the outer index, and the
  path it proposes leads elsewhere; a word with a backslash or an unprintable
  character is shown, and proposed, as another. `Faithful` leaves both out.
- A name with a dot keeps the details of its log from being shown (`NoNames`).
- A field whose name ends in `[1]` or `[]` is taken by `Path::Entry` (`Path.cpp:27-42`)
  for an item of an array, or for all of them: the filter proposed for it looks for
  that array, and does not find the field (`Bracketed`; `Faithful` leaves it out).
- `trimFields()` follows arrays only at the end of a path (`Plain`), and cuts what a
  relative path says also where it begins in an array, where finding does not look
  (`EndsAlong`, `LeadsAlong`).
- Without `hardBreak` a bracket that is never closed swallows all that follows;
  recovery is stated for `hardBreak` alone.
- The limit of the queue does not count the batches on the pool (`TcpServer.cpp:215`).
- `LogEntryDataSource::nearestTo()` always gives the last line.
- `KeyExtractor.cpp:165` cuts the fraction of a second also before 1970, where this
  turns the order round; `"%09ld"` then prints a minus sign. Times are from 1970 on.
- `"%04d"` (`KeyExtractor.cpp:177`) prints the year 10000 with a digit more, and its
  logs come before those of the year 2000. Times end with the year 9999.
- With repeated logs (finding `index_of_duplicates`) `Logs::index()` may answer with
  more than there are, and `BUT_ASSERT(size > index)` (`Search.cpp:212`) fails.
  `EstimatedCompares`, and the run, have no log twice.
- When `insert()` throws, `Main.cpp:66-70` counts one error, and the rest of the logs
  that the data pump holds is lost. `InsertLogs` has an `insert()` that does not throw.
- A resized terminal is a key to `LogList` (`LogList.cpp:95`, `:108`), which ends the
  follow mode (`ResizeTerminal`).
- The check for arrays in the path of a key (`KeyExtractor.cpp:19`) goes over the path
  that was moved away one line up, so it never throws; a test relies on it.
- A name in a log may be the empty text; `Path::Entry` takes none, so nothing finds it.
- An index of a path that does not fit into 64 bits makes `std::stoull` throw
  `std::out_of_range`, not one of the exceptions of `Path`. Indexes fit here.
- `logMayContain()` looks for a word in the raw text, where quotes, backslashes and
  control characters are escaped; a word with one of them is never found
  (`LogMayContain` has the set of words as they are written).
- A tag given twice as priority makes the assertion of `prioritizedIteratorsVector()`
  fail (`OrderedPrettyPrint.cpp:81`); `Failures` has it.
- A null in a log makes `OrderedPrettyPrint` throw `std::logic_error`; `Failures` too.
- `normalFloat()` strips the zeros of whole numbers as well: 100.0 is printed as `1`
  and 0.0 as nothing (`NotPrinted` in `TextTests`).
- `splitIntoLines.cpp:114` makes a `std::logic_error` and does not throw it; `Lines`
  takes any number of columns.

## Not modelled

- Sockets and epoll beyond what they give the server (system calls), and the client.
- Dates of the calendar: a date is the number of its second. Sequence numbers are one
  atomic increment and are parameters.
- What libraries make of texts: JSON, regular expressions, numbers, program options.
- The editing of a line in an input field, horizontal scrolling, drawing, colours,
  help texts, the set-up of the terminal.
- `Node::pruneUpTo()` over several levels: only tests call it. That of `Logs` is in
  `LogKeyIndexCache`.
- The end of the pool while a task holds its last owner: the program keeps it until
  the end of `main()`.
- The tests that "Unit tests replayed" leaves out.
- The library `But` (locks, Fifo, Event, JoiningThread) is not part of the repository
  and is taken as its users take it.
