----------------------------- MODULE DataSource -----------------------------
(***************************************************************************)
(* What a window asks of its data source (CursATE/Curses/DataSource.hpp),  *)
(* for the logs of a node (Screen/detail/LogDataSource.cpp) and for the    *)
(* lists of the other screens (FilterTreeDataSource.cpp,                   *)
(* LogEntryDataSource.cpp, ConstStringDataSource.cpp).  A source is the    *)
(* set of its ids; ids are integers, and those of a list are its indexes,  *)
(* from 0 on.  The text of a line is left out.                             *)
(***************************************************************************)
EXTENDS Logs

NoId == -1      \* an Optional<Id> that is empty

FirstId(source) == IF source = {} THEN NoId ELSE First(source)
LastId(source)  == IF source = {} THEN NoId ELSE Last(source)

\* LogDataSource::get(): both bounds hold the log itself.  For an id that is not
\* there the result has one log more than it is meant to have.
LogsGet(source, before, id, after) == To(source, id, before + 1) \cup From(source, id, after + 1)

\* get() of a list: what is missing in front is made up for behind.
ListGet(source, before, id, after) ==
    LET size == Cardinality(source)
        from == IF before > id THEN 0 ELSE id - before
        to   == IF size < from + before + 1 + after THEN size ELSE from + before + 1 + after
    IN  from .. to - 1

Get(kind, source, before, id, after) ==
    IF kind = "logs" THEN LogsGet(source, before, id, after)
                     ELSE ListGet(source, before, id, after)

\* LogDataSource::nearestTo(): the log, or one of its neighbours. Which of the
\* two depends on how many characters of their ids agree.
Nearest(source, id) ==
    IF id \in source THEN {id} ELSE To(source, id, 1) \cup From(source, id, 1)

=============================================================================
