-------------------------- MODULE LogKeyIndexCache --------------------------
(***************************************************************************)
(* The positions of logs, Tree/detail/LogKeyIndexCache.{hpp,cpp} as        *)
(* Tree/Logs.cpp uses it: std::set cannot say at which position a key is,  *)
(* so some positions are remembered and the others are computed from the   *)
(* nearest remembered one.  Insertions and prunings correct what is        *)
(* remembered.  All operations run under the lock of the Logs.             *)
(*                                                                         *)
(* cache_ is a vector sorted by key, without two entries of one key: here, *)
(* a function from the remembered keys to their index.                     *)
(***************************************************************************)
EXTENDS Logs

CONSTANTS
    Keys,                   \* the keys of logs
    insertEveryNth,         \* every n-th insertion is remembered
    cacheIfDistanceAbove,   \* how far from the remembered ones a new entry must be
    Duplicates              \* whether a log that is there already may be inserted again

ASSUME KeysAssumption == Keys \subseteq Int
ASSUME SettingsAssumption ==
    insertEveryNth \in Nat /\ cacheIfDistanceAbove \in Nat /\ Duplicates \in BOOLEAN

VARIABLES
    logs,       \* Logs::logs_, *data_
    cache,      \* cache_: the index_ of every remembered key
    counter,    \* insertionCounter_
    lost        \* a call of index() has run out of the set and does not return

vars == <<logs, cache, counter, lost>>

-----------------------------------------------------------------------------
(* LogKeyIndexCache::index(), for a set s of logs and what c remembers.    *)

Below(c, key) == {k \in DOMAIN c : k < key}
Above(c, key) == {k \in DOMAIN c : k >= key}    \* from the lower bound on

\* std::distance() between two logs of the set.
Distance(s, from, to) == Position(s, to) - Position(s, from)

\* addToCacheAtTheEnd(): from the last remembered key, if there is one.
IndexAtTheEnd(s, c, key) ==
    IF DOMAIN c = {} THEN Position(s, key)
    ELSE Distance(s, Last(DOMAIN c), key) + c[Last(DOMAIN c)]

\* addToCacheLeftOf(): back from the first remembered key.
IndexLeftOf(s, c, key) == c[First(DOMAIN c)] - Distance(s, key, First(DOMAIN c))

\* addToCacheBetween(): steps from both sides at once, the lower one first.
\* A broken variant: the count from above is one off.
IndexBetweenOffByOne(s, c, key) ==
    LET low  == Last(Below(c, key))
        high == First(Above(c, key))
        up   == Distance(s, low, key)
        down == Distance(s, key, high)
    IN  IF up <= down THEN c[low] + up ELSE c[high] - down + 1

IndexBetween(s, c, key) ==
    LET low  == Last(Below(c, key))
        high == First(Above(c, key))
        up   == Distance(s, low, key)
        down == Distance(s, key, high)
    IN  IF up <= down THEN c[low] + up ELSE c[high] - down

\* The index computed for a log that is in the set but not remembered.
ComputedIndex(s, c, key) ==
    IF Above(c, key) = {} THEN IndexAtTheEnd(s, c, key)
    ELSE IF Below(c, key) = {} THEN IndexLeftOf(s, c, key)
    ELSE IndexBetween(s, c, key)

\* addToCacheBetween() looks for its key between two others and never for the
\* end of the set: it does not come back when the key is not there.
RunsAway(s, c, key) ==
    key \notin s /\ key \notin DOMAIN c /\ Below(c, key) # {} /\ Above(c, key) # {}

\* What index(key) returns, when it returns.
IndexOf(s, c, key) ==
    IF key \in DOMAIN c THEN c[key]
    ELSE IF key \notin s THEN 0
    ELSE ComputedIndex(s, c, key)

\* hasEntryCloseEnough(): the entries looked at are the one before the place of
\* the new one, the one at that place and the one after it.
\* A broken variant: only the entry before the place is looked at.
LeftNeighbour(c, key) == IF Below(c, key) = {} THEN {} ELSE {Last(Below(c, key))}

Neighbours(c, key) ==
    LET here == Above(c, key)
    IN  (IF Below(c, key) = {} THEN {} ELSE {Last(Below(c, key))})
        \cup (IF here = {} THEN {} ELSE {First(here)})
        \cup (IF Cardinality(here) < 2 THEN {} ELSE {First(here \ {First(here)})})

AbsDiff(a, b) == IF a < b THEN b - a ELSE a - b

HasEntryCloseEnough(c, key, pos) ==
    \E k \in Neighbours(c, key) : AbsDiff(c[k], pos) <= cacheIfDistanceAbove

\* What is remembered after index(key): a computed index is, unless a close
\* enough one is remembered already.
CacheAfterIndex(s, c, key) ==
    LET pos == ComputedIndex(s, c, key)
    IN  IF key \in DOMAIN c \/ key \notin s \/ HasEntryCloseEnough(c, key, pos)
        THEN c
        ELSE [k \in DOMAIN c \cup {key} |-> IF k = key THEN pos ELSE c[k]]

-----------------------------------------------------------------------------
(* The corrections.                                                        *)

\* updateAfterInsertion(): what stands after the new log moves by one ...
\* A broken variant: an insertion moves nothing.
Unshifted(c, key) == c

Shifted(c, key) == [k \in DOMAIN c |-> IF k > key THEN c[k] + 1 ELSE c[k]]

CounterFull(count) == count + 1 >= insertEveryNth

\* updateAfterPruneUpTo(): forget what was pruned, and move the others by what
\* the first of them has moved.
Kept(c, key) == {k \in DOMAIN c : k >= key}

CacheAfterPrune(s, c, key) ==
    LET first == First(Kept(c, key))
        diff  == c[first] - Position(s, first)
    IN  [k \in Kept(c, key) |-> c[k] - diff]

-----------------------------------------------------------------------------
(* The operations of Logs.                                                 *)

Init ==
    /\ logs = {}
    /\ cache = [k \in {} |-> 0]
    /\ counter = 0
    /\ lost = FALSE

\* Logs::insert(). The set ignores a log it has; the cache is told all the same.
Insert(key) ==
    /\ ~lost
    /\ key \notin logs \/ Duplicates
    /\ logs' = Inserted(logs, key)
    /\ IF CounterFull(counter)
       THEN /\ counter' = 0
            /\ cache' = CacheAfterIndex(logs', Shifted(cache, key), key)
       ELSE /\ counter' = counter + 1
            /\ cache' = Shifted(cache, key)
    /\ UNCHANGED lost

\* Logs::index().
Index(key) ==
    /\ ~lost
    /\ IF RunsAway(logs, cache, key)
       THEN lost' = TRUE /\ UNCHANGED cache
       ELSE cache' = CacheAfterIndex(logs, cache, key) /\ UNCHANGED lost
    /\ UNCHANGED <<logs, counter>>

\* Logs::pruneUpTo().
PruneUpTo(key) ==
    /\ ~lost
    /\ logs' = PrunedUpTo(logs, key)
    /\ cache' = CacheAfterPrune(logs', cache, key)
    /\ UNCHANGED <<counter, lost>>

\* The lock is never given back.
Stuck == lost /\ UNCHANGED vars

Next == \/ \E key \in Keys : Insert(key) \/ Index(key) \/ PruneUpTo(key)
        \/ Stuck

Spec == Init /\ [][Next]_vars

-----------------------------------------------------------------------------
(* Properties.                                                             *)

\* Every variable has its type.
TypeOK ==
    /\ logs \subseteq Keys /\ IsFiniteSet(logs)
    /\ DOMAIN cache \subseteq Keys /\ cache \in [DOMAIN cache -> Int]
    /\ counter \in 0 .. insertEveryNth
    /\ lost \in BOOLEAN

\* Whatever is remembered is the position of a log that is there, after any
\* sequence of insertions, questions and prunings.
CacheExact ==
    \A k \in DOMAIN cache : k \in logs /\ cache[k] = Position(logs, k)

\* Types, and what is remembered.
Inv == TypeOK /\ CacheExact

\* index() says the position of every log, remembered or computed, and 0 for a
\* key before the first or after the last remembered one that is not a log.
AnswerExact ==
    \A k \in Keys : ~RunsAway(logs, cache, k) =>
        IndexOf(logs, cache, k) = IF k \in logs THEN Position(logs, k) ELSE 0

\* The cache does not fill up: any two entries are further apart than
\* cacheIfDistanceAbove, whatever was inserted or pruned between them since.
CacheSparse ==
    \A j, k \in DOMAIN cache :
        j # k => AbsDiff(cache[j], cache[k]) > cacheIfDistanceAbove

\* The assertion BUT_ASSERT( size > index ) of Search.cpp:212, on the index of
\* any log of the node.
IndexBelowSize == \A k \in logs : IndexOf(logs, cache, k) < Cardinality(logs)

\* The test "non-existing elements return 0" (Logs.ut.cpp:206): index() returns,
\* whatever it is asked.
IndexReturns == ~lost

=============================================================================
