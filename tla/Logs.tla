-------------------------------- MODULE Logs --------------------------------
(***************************************************************************)
(* The logs of a node, Tree/Logs.{hpp,cpp}: a std::set<Log> ordered by     *)
(* key.  A log is its key here: two logs have the same key only when they  *)
(* are the same log (keys are compared by their sequence number first).    *)
(* Keys are integers, compared with <.  Every operation runs under the     *)
(* lock of the Logs, so it is an operator on the set.                      *)
(***************************************************************************)
EXTENDS Integers, FiniteSets

\* What std::distance(begin, it) computes: the position of a key in the set.
Position(logs, key) == Cardinality({k \in logs : k < key})

\* The logs lower_bound() and upper_bound() start from.
NotBelow(logs, key) == {k \in logs : key <= k}
NotAbove(logs, key) == {k \in logs : k <= key}

\* Logs::range(begin, end): without the log at the end. Only tests ask for it.
Between(logs, begin, end) == {k \in logs : begin <= k /\ k < end}

\* Logs::from(first, count): the count lowest logs from first on.
From(logs, first, count) ==
    {k \in NotBelow(logs, first) :
        Cardinality({j \in NotBelow(logs, first) : j < k}) < count}

\* Logs::to(last, count): the count highest logs up to last.
To(logs, last, count) ==
    {k \in NotAbove(logs, last) :
        Cardinality({j \in NotAbove(logs, last) : j > k}) < count}

\* Logs::first() and Logs::last(), the front and the back of a chunk too, of a
\* set that is not empty.
First(logs) == CHOOSE k \in logs : \A j \in logs : k <= j
Last(logs)  == CHOOSE k \in logs : \A j \in logs : j <= k

\* Logs::insert() and Logs::pruneUpTo(), of the set alone.
Inserted(logs, key)          == logs \cup {key}
PrunedUpTo(logs, firstToKeep) == NotBelow(logs, firstToKeep)

=============================================================================
