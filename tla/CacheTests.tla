----------------------------- MODULE CacheTests -----------------------------
(***************************************************************************)
(* The unit tests of the logs of a node, of their positions and of the     *)
(* lists made of them, said of Logs, LogKeyIndexCache and DataSource       *)
(* (Tree/Logs.ut.cpp, Tree/detail/LogKeyIndexCache.ut.cpp,                 *)
(* Screen/detail/LogDataSource.ut.cpp).                                    *)
(***************************************************************************)
EXTENDS DataSource, Sequences

SE == INSTANCE SequencesExt

-----------------------------------------------------------------------------
(* Logs.ut.cpp                                                             *)

Six == {2, 3, 5, 7, 8, 9}

InsertsInOrder ==
    /\ Inserted({}, 42) = {42} /\ First({42}) = 42 /\ Last({42}) = 42
    /\ \A i \in 0 .. 9 : LET logs == Inserted(0 .. i - 1, i)
                         IN  Cardinality(logs) = i + 1 /\ Last(logs) = i
    /\ LET logs == Inserted(Inserted({}, 43), 41) IN First(logs) = 41 /\ Last(logs) = 43

Prunes == PrunedUpTo(Six, 8) = {8, 9} /\ PrunedUpTo(Six, 1) = Six /\ PrunedUpTo(Six, 42) = {}

Ranges ==
    /\ Between(Six, 3, 8) = {3, 5, 7} /\ Between(Six, 1, 8) = {2, 3, 5, 7}
    /\ Between(Six, 3, 42) = {3, 5, 7, 8, 9} /\ Between(Six, 3, 6) = {3, 5}

CountsFrom ==
    /\ From(Six, 3, 0) = {} /\ From(Six, 2, 1) = {2} /\ From(Six, 9, 1) = {9} /\ From(Six, 1, 1) = {2}
    /\ From(Six, 6, 1) = {7} /\ From(Six, 4, 2) = {5, 7} /\ From(Six, 3, 99) = {3, 5, 7, 8, 9}
    /\ From(Six, 13, 5) = {} /\ From(Six, 0, 99) = Six

CountsTo ==
    /\ To(Six, 3, 0) = {} /\ To(Six, 99, 0) = {} /\ To(Six, 2, 1) = {2} /\ To(Six, 9, 1) = {9}
    /\ To(Six, 0, 1) = {} /\ To(Six, 13, 1) = {9} /\ To(Six, 9, 2) = {8, 9} /\ To(Six, 9, 6) = Six
    /\ To(Six, 9, 666) = Six /\ To(Six, 5, 666) = {2, 3, 5} /\ To(Six, 5, 2) = {3, 5}

ASSUME LogsTests == InsertsInOrder /\ Prunes /\ Ranges /\ CountsFrom /\ CountsTo

-----------------------------------------------------------------------------
(* LogKeyIndexCache.ut.cpp: what is done, and what is expected. The fixture *)
(* inserts into the set and tells the cache, or into the set alone.         *)

Cache(nth, above) ==
    INSTANCE LogKeyIndexCache WITH Keys <- Int, insertEveryNth <- nth, cacheIfDistanceAbove <- above,
                                   Duplicates <- FALSE, logs <- {}, cache <- <<>>, counter <- 0, lost <- FALSE

Insert(key)           == [does |-> "insert", key |-> key]
Data(key)             == [does |-> "data", key |-> key]
Prune(key)            == [does |-> "prune", key |-> key]
Ask(key, index, size) == [does |-> "ask", key |-> key, index |-> index, size |-> size]
Size(size)            == [does |-> "size", size |-> size]

Does(nth, above, s, step) ==
    CASE step.does = "data" -> [s EXCEPT !.logs = Inserted(@, step.key)]
      [] step.does = "insert" ->
            LET logs    == Inserted(s.logs, step.key)
                shifted == Cache(nth, above)!Shifted(s.cache, step.key)
            IN  IF Cache(nth, above)!CounterFull(s.count)
                THEN [s EXCEPT !.logs = logs, !.count = 0,
                               !.cache = Cache(nth, above)!CacheAfterIndex(logs, shifted, step.key)]
                ELSE [s EXCEPT !.logs = logs, !.count = @ + 1, !.cache = shifted]
      [] step.does = "prune" ->
            LET logs == PrunedUpTo(s.logs, step.key)
            IN  [s EXCEPT !.logs = logs, !.cache = Cache(nth, above)!CacheAfterPrune(logs, s.cache, step.key)]
      [] step.does = "ask" ->
            LET after == Cache(nth, above)!CacheAfterIndex(s.logs, s.cache, step.key)
            IN  [s EXCEPT !.cache = after,
                          !.right = @ /\ ~Cache(nth, above)!RunsAway(s.logs, s.cache, step.key)
                                      /\ Cache(nth, above)!IndexOf(s.logs, s.cache, step.key) = step.index
                                      /\ Cardinality(DOMAIN after) = step.size]
      [] step.does = "size" -> [s EXCEPT !.right = @ /\ Cardinality(DOMAIN s.cache) = step.size]

Start == [logs |-> {}, cache |-> <<>>, count |-> 0, right |-> TRUE]

Right(nth, above, steps) == SE!FoldLeft(LAMBDA s, step : Does(nth, above, s, step), Start, steps).right

\* The keys of the fixture, in their order.
Aaa == 5    Bar1 == 10    Bar4 == 11    Foo == 20    Gemini == 25
Kamboom == 30    Kszy == 40    Narf == 50    SomeKey == 60    Xxx == 70

FillWithData == <<Insert(Bar1), Insert(Bar4), Insert(Foo), Insert(Kamboom), Insert(Kszy), Insert(Narf)>>

Fixture(steps) == Right(100000, 0, steps)

AbsentAreZero ==
    /\ Fixture(<<Ask(SomeKey, 0, 0)>>)
    /\ Fixture(FillWithData \o <<Ask(SomeKey, 0, 0)>>)
    /\ Fixture(FillWithData \o <<Ask(Aaa, 0, 0)>>)
    /\ Fixture(FillWithData \o <<Ask(Bar1, 0, 1), Ask(Bar4, 1, 2), Prune(Bar4), Size(1),
                                 Ask(Bar1, 0, 1), Ask(Bar4, 0, 1)>>)

FindsElements ==
    Fixture(FillWithData \o
        <<Size(0), Ask(Bar1, 0, 1), Ask(Bar4, 1, 2), Ask(Foo, 2, 3), Ask(Kamboom, 3, 4), Ask(Kszy, 4, 5),
          Ask(Narf, 5, 6), Ask(Kamboom, 3, 6), Insert(Gemini), Size(6), Ask(Bar1, 0, 6), Ask(Bar4, 1, 6),
          Ask(Foo, 2, 6), Ask(Kamboom, 4, 6), Ask(Kszy, 5, 6), Ask(Narf, 6, 6), Ask(Gemini, 3, 7)>>)

CleansUp ==
    Fixture(FillWithData \o
        <<Prune(Foo), Size(0), Ask(Bar1, 0, 0), Ask(Bar4, 0, 0), Ask(Foo, 0, 1), Ask(Kamboom, 1, 2),
          Ask(Kszy, 2, 3), Ask(Narf, 3, 4), Prune(Xxx), Size(0), Ask(Bar1, 0, 0), Ask(Bar4, 0, 0),
          Ask(Foo, 0, 0), Ask(Kamboom, 0, 0), Ask(Kszy, 0, 0), Ask(Narf, 0, 0)>>)

OneElement ==
    Fixture(<<Insert(Foo), Size(0), Ask(Bar1, 0, 0), Ask(Bar4, 0, 0), Ask(Foo, 0, 1), Ask(Kamboom, 0, 1),
              Ask(Kszy, 0, 1), Ask(Narf, 0, 1)>>)

OtherOrders ==
    \A asked \in {<<Ask(Bar1, 0, 1)>>, <<Ask(Narf, 5, 1)>>, <<Ask(Kamboom, 3, 1)>>,
                  <<Ask(Bar4, 1, 1), Ask(Kszy, 4, 2), Ask(Kamboom, 3, 3)>>,
                  <<Ask(Narf, 5, 1), Ask(Kszy, 4, 2), Ask(Kamboom, 3, 3)>>} :
        Fixture(FillWithData \o asked)

\* randomData(), randomQueries(): thirty keys, in two other orders.
RandomQueries ==
    \A factor \in {7, 11} :
        Fixture([i \in 1 .. 30 |-> Insert(i - 1)] \o <<Size(0)>> \o
                [i \in 1 .. 30 |-> LET q == (i * factor) % 30 IN Ask(q, q, i)])

EveryNth ==
    Right(3, 0, <<Insert(1), Size(0), Insert(2), Size(0), Insert(3), Size(1),
                  Insert(4), Size(1), Insert(5), Size(1), Insert(6), Size(2)>>)

NotTooClose ==
    LET data == [i \in 1 .. 15 |-> Data(i - 1)] \o <<Size(0), Ask(4, 4, 1), Ask(10, 10, 2)>>
        edge == [i \in 1 .. 5 |-> Data(i - 1)] \o <<Size(0)>>
    IN  /\ \A far \in {0, 1, 7, 13, 14} : Right(1000, 2, Append(data, Ask(far, far, 3)))
        /\ \A near \in {2, 5, 8, 11} :
              Right(1000, 2, data \o <<Ask(near, near, 2), Ask(near + 1, near + 1, 2)>>)
        /\ \A pair \in {<<0, 1>>, <<1, 0>>, <<4, 3>>, <<3, 4>>} :
              Right(1000, 2, edge \o <<Ask(pair[1], pair[1], 1), Ask(pair[2], pair[2], 1)>>)

AnyDistance == Right(1000, 0, <<Data(0), Data(1), Data(2), Size(0), Ask(0, 0, 1), Ask(1, 1, 2), Ask(2, 2, 3)>>)

\* Logs.ut.cpp: finding elements' indexes.
FindsIndexes ==
    Fixture(<<Insert(2), Insert(3), Insert(5), Insert(7), Insert(8), Insert(9), Ask(5, 2, 1), Ask(9, 5, 2),
              Ask(3, 1, 3), Ask(2, 0, 4), Prune(5), Ask(5, 0, 2), Ask(9, 3, 2), Ask(3, 0, 2), Ask(2, 0, 2)>>)

ASSUME LogKeyIndexCacheTests ==
    /\ AbsentAreZero /\ FindsElements /\ CleansUp /\ OneElement /\ OtherOrders
    /\ RandomQueries /\ EveryNth /\ NotTooClose /\ AnyDistance /\ FindsIndexes

-----------------------------------------------------------------------------
(* LogDataSource.ut.cpp                                                    *)

EmptySource == FirstId({}) = NoId /\ LastId({}) = NoId /\ LogsGet({}, 1000, 42, 1000) = {}

FiveLogs ==
    LET source == {1, 2, 4, 6, 8}
    IN  FirstId(source) = 1 /\ LastId(source) = 8 /\ LogsGet(source, 1000, 42, 1000) = source

NearestLogs ==
    /\ Nearest({}, 42) = {}
    /\ \A id \in {0, 1, 42} : Nearest({1}, id) = {1}
    /\ \A test \in {<<0, 1>>, <<1, 1>>, <<2, 2>>, <<3, 4>>, <<5, 6>>, <<7, 6>>, <<10, 18>>, <<16, 18>>, <<666, 18>>} :
          test[2] \in Nearest({1, 2, 4, 6, 18}, test[1])

IndexOfElement ==
    Fixture(<<Ask(1, 0, 0), Ask(2, 0, 0), Insert(1), Ask(1, 0, 1), Ask(2, 0, 1), Insert(2), Insert(4), Insert(6),
              Insert(8), Ask(2, 1, 2), Ask(3, 0, 2), Ask(4, 2, 3), Ask(5, 0, 3), Ask(6, 3, 4), Ask(7, 0, 4),
              Ask(8, 4, 5), Ask(9, 0, 5)>>)

ASSUME LogDataSourceTests == EmptySource /\ FiveLogs /\ NearestLogs /\ IndexOfElement

=============================================================================
