-------------------------- MODULE TreeSearchProofs --------------------------
(***************************************************************************)
(* A search gives the first match, for every set of logs, every query, any *)
(* number of threads and every size of chunks of two or more, whatever     *)
(* logs arrive meanwhile; and its screen makes of it the next match beyond *)
(* the selected log.                                                       *)
(***************************************************************************)
EXTENDS SearchScreen, LogsProofs, FunctionTheorems

-----------------------------------------------------------------------------
(* The order of the search.                                                *)

LEMMA SoonerIsOrder ==
    ASSUME NEW i \in Int, NEW j \in Int, NEW k \in Int
    PROVE  /\ ~Sooner(i, i)
           /\ Sooner(i, j) => ~Sooner(j, i)
           /\ Sooner(i, j) \/ Sooner(j, i) \/ i = j
           /\ ~Sooner(j, i) /\ ~Sooner(k, j) => ~Sooner(k, i)
           /\ Sooner(i, j) /\ ~Sooner(k, j) => Sooner(i, k)
           /\ ~Sooner(j, i) /\ Sooner(j, k) => Sooner(i, k)
BY DEF Sooner

\* The front of a chunk is its first log in this order, and its last key the last.
LEMMA EndsOfChunk ==
    ASSUME NEW ks, IsFiniteSet(ks), ks \subseteq Int, ks # {}
    PROVE  /\ Front(ks) \in ks /\ LastKey(ks) \in ks
           /\ \A k \in ks : ~Sooner(k, Front(ks)) /\ ~Sooner(LastKey(ks), k)
<1>1. /\ First(ks) \in ks /\ \A k \in ks : First(ks) <= k
      /\ Last(ks) \in ks /\ \A k \in ks : k <= Last(ks)
  BY FirstIsLeast, LastIsGreatest
<1>2. ASSUME NEW k \in ks
      PROVE  ~Sooner(k, Front(ks)) /\ ~Sooner(LastKey(ks), k)
  <2>1. k \in Int /\ First(ks) \in Int /\ Last(ks) \in Int /\ First(ks) <= k /\ k <= Last(ks)
    BY <1>1
  <2> QED BY <2>1 DEF Sooner, Front, LastKey
<1> QED BY <1>1, <1>2 DEF Front, LastKey

\* A chunk has the logs that come next, as many as it can.
LEMMA ChunkIsNext ==
    ASSUME IsFiniteSet(logs), logs \subseteq Int, NEW key \in Int
    PROVE  /\ GetChunk(key) \subseteq logs /\ IsFiniteSet(GetChunk(key))
           /\ \A j \in GetChunk(key) : ~Sooner(j, key)
           /\ \A k \in logs : k \notin GetChunk(key) /\ ~Sooner(k, key) =>
                 /\ \A j \in GetChunk(key) : Sooner(j, k)
                 /\ Cardinality(GetChunk(key)) >= chunkSize
<1>1. chunkSize \in Nat
  BY ChunkAssumption
<1>2. CASE dir = "Forward"
  <2>1. GetChunk(key) = From(logs, key, chunkSize)
    BY <1>2 DEF GetChunk
  <2>2. GetChunk(key) \subseteq logs /\ \A j \in GetChunk(key) : ~Sooner(j, key)
    <3> SUFFICES ASSUME NEW j \in GetChunk(key)
                 PROVE  j \in logs /\ ~Sooner(j, key)
      OBVIOUS
    <3>1. j \in logs /\ key <= j
      BY <2>1 DEF From, NotBelow
    <3>2. j \in Int
      BY <3>1
    <3> QED BY <1>2, <3>1, <3>2 DEF Sooner
  <2>3. IsFiniteSet(GetChunk(key))
    BY <2>2, FS_Subset
  <2>4. ASSUME NEW k \in logs, k \notin GetChunk(key), ~Sooner(k, key)
        PROVE  /\ \A j \in GetChunk(key) : Sooner(j, k)
               /\ Cardinality(GetChunk(key)) >= chunkSize
    <3>1. k \in Int /\ ~(k < key)
      BY <1>2, <2>4 DEF Sooner
    <3>2. k \in NotBelow(logs, key)
      BY <3>1 DEF NotBelow
    <3>3. k \notin From(logs, key, chunkSize)
      BY <2>1, <2>4
    <3>4. ASSUME NEW j \in GetChunk(key)
          PROVE  Sooner(j, k)
      <4>1. j \in From(logs, key, chunkSize)
        BY <2>1
      <4>2. j < k
        BY <1>1, <3>2, <3>3, <4>1, FromTakesTheLowest
      <4> QED BY <1>2, <4>2 DEF Sooner
    <3>5. Cardinality(From(logs, key, chunkSize)) >= chunkSize
      BY <1>1, <3>2, <3>3, FromReturnsAllItCan
    <3> QED BY <2>1, <3>4, <3>5
  <2> QED BY <2>2, <2>3, <2>4
<1>3. CASE dir # "Forward"
  <2>1. GetChunk(key) = To(logs, key, chunkSize)
    BY <1>3 DEF GetChunk
  <2>2. GetChunk(key) \subseteq logs /\ \A j \in GetChunk(key) : ~Sooner(j, key)
    <3> SUFFICES ASSUME NEW j \in GetChunk(key)
                 PROVE  j \in logs /\ ~Sooner(j, key)
      OBVIOUS
    <3>1. j \in logs /\ j <= key
      BY <2>1 DEF To, NotAbove
    <3>2. j \in Int
      BY <3>1
    <3> QED BY <1>3, <3>1, <3>2 DEF Sooner
  <2>3. IsFiniteSet(GetChunk(key))
    BY <2>2, FS_Subset
  <2>4. ASSUME NEW k \in logs, k \notin GetChunk(key), ~Sooner(k, key)
        PROVE  /\ \A j \in GetChunk(key) : Sooner(j, k)
               /\ Cardinality(GetChunk(key)) >= chunkSize
    <3>1. k \in Int /\ ~(key < k)
      BY <1>3, <2>4 DEF Sooner
    <3>2. k \in NotAbove(logs, key)
      BY <3>1 DEF NotAbove
    <3>3. k \notin To(logs, key, chunkSize)
      BY <2>1, <2>4
    <3>4. ASSUME NEW j \in GetChunk(key)
          PROVE  Sooner(j, k)
      <4>1. j \in To(logs, key, chunkSize)
        BY <2>1
      <4>2. k < j
        BY <1>1, <3>2, <3>3, <4>1, ToTakesTheHighest
      <4> QED BY <1>3, <4>2 DEF Sooner
    <3>5. Cardinality(To(logs, key, chunkSize)) >= chunkSize
      BY <1>1, <3>2, <3>3, ToReturnsAllItCan
    <3> QED BY <2>1, <3>4, <3>5
  <2> QED BY <2>2, <2>3, <2>4
<1> QED BY <1>2, <1>3

-----------------------------------------------------------------------------
(* The jobs that wait in the queue.                                        *)

Tasks == [kind : {"estimate", "check", "spin"}, keys : SUBSET Keys]

Jobs(q) == {i \in DOMAIN q : q[i].kind = "check"}

LEMMA TasksInQueue ==
    ASSUME NEW q \in Seq(Tasks), NEW i \in DOMAIN q
    PROVE  q[i] \in Tasks /\ q[i].keys \subseteq Keys
<1>1. q[i] \in Tasks
  OBVIOUS
<1> QED BY <1>1 DEF Tasks

LEMMA JobsAreFinite ==
    ASSUME NEW q \in Seq(Tasks)
    PROVE  IsFiniteSet(Jobs(q)) /\ Cardinality(Jobs(q)) \in Nat
<1>1. Jobs(q) \subseteq 1 .. Len(q) /\ Len(q) \in Nat
  BY DEF Jobs
<1>2. IsFiniteSet(1 .. Len(q))
  BY <1>1, FS_Interval
<1> QED BY <1>1, <1>2, FS_Subset, FS_CardinalityType

LEMMA JobsAfterAppend ==
    ASSUME NEW q \in Seq(Tasks), NEW task \in Tasks
    PROVE  /\ Append(q, task) \in Seq(Tasks)
           /\ \A i \in DOMAIN q : i \in DOMAIN Append(q, task) /\ Append(q, task)[i] = q[i]
           /\ \E i \in DOMAIN Append(q, task) : Append(q, task)[i] = task
           /\ \A i \in DOMAIN Append(q, task) :
                 (i \in DOMAIN q /\ Append(q, task)[i] = q[i])
                 \/ (i = Len(q) + 1 /\ Append(q, task)[i] = task)
           /\ Cardinality(Jobs(Append(q, task))) =
                 Cardinality(Jobs(q)) + (IF task.kind = "check" THEN 1 ELSE 0)
<1> DEFINE r == Append(q, task)
           n == Len(q) + 1
<1>1. /\ r \in Seq(Tasks) /\ n \in Nat /\ n >= 1 /\ DOMAIN r = 1 .. n /\ DOMAIN q = 1 .. n - 1
      /\ r[n] = task /\ \A i \in 1 .. n - 1 : r[i] = q[i]
  OBVIOUS
<1>2. /\ DOMAIN r = DOMAIN q \cup {n} /\ n \notin DOMAIN q
      /\ \A i \in DOMAIN q : r[i] = q[i]
  <2> HIDE DEF r, n
  <2>1. \A i : i \in 1 .. n <=> i \in 1 .. n - 1 \/ i = n
    BY <1>1
  <2>2. 1 .. n = (1 .. n - 1) \cup {n} /\ n \notin 1 .. n - 1
    BY <1>1, <2>1
  <2> QED BY <1>1, <2>2
<1>3. Cardinality(Jobs(r)) = Cardinality(Jobs(q)) + (IF task.kind = "check" THEN 1 ELSE 0)
  <2> HIDE DEF r, n
  <2>1. n \notin Jobs(q)
    BY <1>2 DEF Jobs
  <2>2. CASE task.kind = "check"
    <3>1. Jobs(r) = Jobs(q) \cup {n}
      BY <1>1, <1>2, <2>2 DEF Jobs
    <3> QED BY <2>1, <2>2, <3>1, JobsAreFinite, FS_AddElement
  <2>3. CASE task.kind # "check"
    <3>1. Jobs(r) = Jobs(q)
      BY <1>1, <1>2, <2>3 DEF Jobs
    <3> QED BY <2>3, <3>1, JobsAreFinite
  <2> QED BY <2>2, <2>3
<1> QED BY <1>1, <1>2, <1>3

LEMMA JobsAfterTail ==
    ASSUME NEW q \in Seq(Tasks), q # <<>>
    PROVE  /\ Tail(q) \in Seq(Tasks) /\ Head(q) \in Tasks /\ 1 \in DOMAIN q /\ Head(q) = q[1]
           /\ \A i \in DOMAIN Tail(q) : i \in Nat /\ i + 1 \in DOMAIN q /\ i + 1 # 1 /\ Tail(q)[i] = q[i + 1]
           /\ \A i \in DOMAIN q : i = 1 \/ (i - 1 \in DOMAIN Tail(q) /\ Tail(q)[i - 1] = q[i])
           /\ Cardinality(Jobs(Tail(q))) =
                 Cardinality(Jobs(q)) - (IF Head(q).kind = "check" THEN 1 ELSE 0)
<1> DEFINE r == Tail(q)
           n == Len(q)
           Later == Jobs(q) \ {1}
           f == [i \in Jobs(r) |-> i + 1]
<1>1. /\ r \in Seq(Tasks) /\ Head(q) \in Tasks /\ Head(q) = q[1] /\ n \in Nat /\ n >= 1
      /\ DOMAIN q = 1 .. n /\ DOMAIN r = 1 .. n - 1 /\ \A i \in 1 .. n - 1 : r[i] = q[i + 1]
  OBVIOUS
<1>2. /\ 1 \in DOMAIN q
      /\ \A i \in DOMAIN r : i \in Nat /\ i + 1 \in DOMAIN q /\ i + 1 # 1 /\ r[i] = q[i + 1]
      /\ \A i \in DOMAIN q : i = 1 \/ (i - 1 \in DOMAIN r /\ r[i - 1] = q[i])
  <2> HIDE DEF r, n
  <2> QED BY <1>1
<1>3. Cardinality(Jobs(r)) = Cardinality(Later)
  <2> HIDE DEF r, n
  <2>1. Jobs(r) \subseteq Nat /\ Later \subseteq Nat
    BY <1>1 DEF Jobs
  <2>2. ASSUME NEW i \in Jobs(r) PROVE i + 1 \in Later
    BY <1>2, <2>2 DEF Jobs
  <2>3. ASSUME NEW i \in Later PROVE i - 1 \in Jobs(r)
    BY <1>2, <2>3 DEF Jobs
  <2>4. f \in Bijection(Jobs(r), Later)
    <3>1. f \in [Jobs(r) -> Later]
      BY <2>2
    <3>2. \A i, j \in Jobs(r) : f[i] = f[j] => i = j
      BY <2>1
    <3>3. \A k \in Later : \E i \in Jobs(r) : f[i] = k
      <4> SUFFICES ASSUME NEW k \in Later PROVE f[k - 1] = k /\ k - 1 \in Jobs(r)
        OBVIOUS
      <4>1. k \in Nat /\ k - 1 \in Jobs(r)
        BY <2>1, <2>3
      <4>2. f[k - 1] = (k - 1) + 1
        BY <4>1
      <4> QED BY <4>1, <4>2
    <3> HIDE DEF f
    <3> QED BY <3>1, <3>2, <3>3, Fun_IsBij
  <2>5. ExistsBijection(Jobs(r), Later)
    BY <2>4 DEF ExistsBijection
  <2> QED BY <1>1, <2>5, JobsAreFinite, FS_Bijection
<1>4. Cardinality(Later) = Cardinality(Jobs(q)) - (IF Head(q).kind = "check" THEN 1 ELSE 0)
  <2>1. Head(q).kind = "check" <=> 1 \in Jobs(q)
    BY <1>1, <1>2 DEF Jobs
  <2>2. CASE Head(q).kind = "check"
    BY <2>1, <2>2, JobsAreFinite, FS_RemoveElement
  <2>3. CASE Head(q).kind # "check"
    <3>1. Cardinality(Later) = Cardinality(Jobs(q))
      <4>1. Later = Jobs(q)
        BY <2>1, <2>3
      <4> QED BY <4>1
    <3>2. Cardinality(Jobs(q)) \in Nat
      BY JobsAreFinite
    <3> HIDE DEF Later
    <3> QED BY <2>3, <3>1, <3>2
  <2> QED BY <2>2, <2>3
<1> QED BY <1>1, <1>2, <1>3, <1>4

-----------------------------------------------------------------------------
(* The inductive invariant.                                                *)

\* The order, with the direction as a parameter.
Before(d, j, k) == IF d = "Forward" THEN j < k ELSE k < j

\* The tasks that are there once: whoever cuts, and whoever answers.
Leads  == {"estimate", "ask", "push", "count", "finish", "spin", "set"}
AtWork == {"check", "scan", "sum", "done"}

Types ==
    /\ TypeOK
    /\ uiQueue \in Seq(Tasks)
    /\ IsFiniteSet(logs) /\ Present \subseteq logs

\* At most one thread cuts or answers, or one task to do so is in the queue, and
\* none when there is an answer.
OneLeads ==
    /\ \A t, u \in Threads : at[t] \in Leads /\ at[u] \in Leads => t = u
    /\ \A i, j \in DOMAIN uiQueue :
          uiQueue[i].kind # "check" /\ uiQueue[j].kind # "check" => i = j
    /\ \A t \in Threads, i \in DOMAIN uiQueue : at[t] \in Leads => uiQueue[i].kind = "check"
    /\ answered => (\A t \in Threads : at[t] \notin Leads)
                   /\ (\A i \in DOMAIN uiQueue : uiQueue[i].kind = "check")

WorkingOf(pl) == {t \in Threads : pl[t] \in AtWork}
UncountedOf(pl) == IF \E t \in Threads : pl[t] = "count" THEN 1 ELSE 0

\* Every job is counted, but for one that was enqueued just now.
JobsCounted ==
    total + UncountedOf(at) = finished + Cardinality(Jobs(uiQueue)) + Cardinality(WorkingOf(at))

\* When the answer is read there is no job, neither at work nor in the queue.
ReadAlone ==
    \A t \in Threads : at[t] = "set" /\ ~cancel => Jobs(uiQueue) = {} /\ WorkingOf(at) = {}

\* What is cut, searched and found are logs of the node, none before the start.
InRange(k) == k \in logs /\ ~Before(dir, k, start)

Ranges ==
    /\ \A i \in DOMAIN uiQueue : \A k \in uiQueue[i].keys : InRange(k)
    /\ \A i \in DOMAIN uiQueue : uiQueue[i].kind = "check" => uiQueue[i].keys # {}
    /\ \A t \in Threads : \A k \in hand[t] : InRange(k)
    /\ \A t \in Threads : at[t] = "check" => hand[t] # {}
    /\ found # NoKey => found \in Matching /\ InRange(found)
    /\ (\E t \in Threads : at[t] \in {"ask", "push", "count"}) =>
          keyNow \in Keys /\ ~Before(dir, keyNow, start)

\* A log is found, or one that is sooner; or it is in a chunk that is searched or
\* waits; or it is not cut yet.
Pending(k) ==
    \/ found # NoKey /\ ~Before(dir, k, found)
    \/ \E i \in DOMAIN uiQueue : uiQueue[i].kind = "check" /\ k \in uiQueue[i].keys
    \/ \E t \in Threads : at[t] \in {"check", "scan"} /\ k \in hand[t]
    \/ \E i \in DOMAIN uiQueue : uiQueue[i].kind = "estimate"
    \/ \E t \in Threads : at[t] = "estimate"
    \/ /\ \E t \in Threads : at[t] \in {"ask", "push"} \/ (at[t] = "count" /\ size[t] >= chunkSize)
       /\ ~Before(dir, k, keyNow)

\* The logs to look at, as Expected has them.
IsExpected(k) == k \in Present \cap Matching /\ ~Before(dir, k, start)

ExpectedPending == cancel \/ answered \/ \A k \in Keys : IsExpected(k) => Pending(k)

\* AnswerIsFirst in these words.
FirstIsAnswer ==
    answered =>
        IF answer = NoKey THEN cancel \/ \A k \in Keys : ~IsExpected(k)
        ELSE /\ answer \in Matching /\ InRange(answer)
             /\ \A k \in Keys : IsExpected(k) => ~Before(dir, k, answer)

SInv ==
    /\ Types /\ OneLeads /\ JobsCounted /\ ReadAlone /\ Ranges
    /\ ExpectedPending /\ FirstIsAnswer

-----------------------------------------------------------------------------
(* What the operators of the module do.                                    *)

LEMMA OrderFacts ==
    ASSUME NEW d, NEW i \in Int, NEW j \in Int, NEW k \in Int
    PROVE  /\ ~Before(d, i, i)
           /\ Before(d, i, j) => ~Before(d, j, i)
           /\ Before(d, i, j) \/ Before(d, j, i) \/ i = j
           /\ ~Before(d, j, i) /\ ~Before(d, k, j) => ~Before(d, k, i)
BY DEF Before

LEMMA SoonerIsBefore ==
    ASSUME NEW j, NEW k
    PROVE  Sooner(j, k) = Before(dir, j, k)
BY DEF Sooner, Before

LEMMA KeysAreNumbers ==
    /\ Keys \subseteq Int /\ Present \subseteq Keys
    /\ NoKey \in Int /\ NoKey \notin Keys
BY KeysAssumption DEF NoKey

LEMMA ExpectedIsExpected ==
    ASSUME start \in Keys
    PROVE  Expected = {k \in Keys : IsExpected(k)}
<1>1. ASSUME NEW k \in Keys
      PROVE  (k = start \/ Sooner(start, k)) <=> ~Before(dir, k, start)
  BY KeysAreNumbers, OrderFacts, SoonerIsBefore
<1> QED BY <1>1, KeysAreNumbers DEF Expected, IsExpected

LEMMA StoppingEarly ==
    ASSUME found \in Int, NEW k \in Int, CanStopEarly(k), ~cancel
    PROVE  found # NoKey /\ ~Before(dir, k, found)
BY OrderFacts, SoonerIsBefore DEF CanStopEarly

LEMMA Reporting ==
    ASSUME found \in Int, NEW k \in Int
    PROVE  /\ Reported(k) = k \/ (Reported(k) = found /\ found # NoKey)
           /\ ~Before(dir, k, Reported(k))
           /\ found # NoKey => ~Before(dir, found, Reported(k))
<1>1. CASE found = NoKey \/ Sooner(k, found)
  BY <1>1, OrderFacts, SoonerIsBefore DEF Reported
<1>2. CASE ~(found = NoKey \/ Sooner(k, found))
  BY <1>2, OrderFacts, SoonerIsBefore DEF Reported
<1> QED BY <1>1, <1>2

LEMMA EstimateIsNat ==
    ASSUME IsFiniteSet(logs), logs \subseteq Int, start \in Int
    PROVE  EstimatedCompares \in Nat
<1> DEFINE N == NotBelow(logs, start)
<1>1. N \subseteq logs /\ IsFiniteSet(N)
  BY FS_Subset DEF NotBelow
<1>2. CASE N = {}
  BY <1>2 DEF EstimatedCompares
<1>3. CASE N # {}
  <2>1. First(N) \in Int
    <3> HIDE DEF N
    <3> QED BY <1>1, <1>3, FirstIsLeast
  <2>2. Position(logs, First(N)) \in Nat
    BY <2>1, PositionIsNat
  <2>3. /\ Cardinality(logs) \in Nat
        /\ Position(logs, First(N)) <= Cardinality(logs)
    <3>1. {k \in logs : k < First(N)} \subseteq logs
      OBVIOUS
    <3> HIDE DEF N
    <3> QED BY <3>1, FS_Subset, FS_CardinalityType DEF Position
  <2>4. EstimatedCompares = IF dir = "Forward" THEN Cardinality(logs) - Position(logs, First(N))
                            ELSE Position(logs, First(N))
    BY <1>3 DEF EstimatedCompares
  <2> HIDE DEF N
  <2> QED BY <2>2, <2>3, <2>4
<1> QED BY <1>2, <1>3

LEMMA TaskIsTask ==
    ASSUME NEW kind \in {"estimate", "check", "spin"}, NEW ks \in SUBSET Keys
    PROVE  Task(kind, ks) \in Tasks /\ Task(kind, ks).kind = kind /\ Task(kind, ks).keys = ks
BY DEF Task, Tasks

\* A thread that goes to work, or comes from it.
LEMMA WorkingAfter ==
    ASSUME IsFiniteSet(Threads), NEW pl, NEW t \in Threads, NEW to,
           DOMAIN pl = Threads
    PROVE  LET qs == [pl EXCEPT ![t] = to]
           IN  /\ IsFiniteSet(WorkingOf(pl)) /\ Cardinality(WorkingOf(pl)) \in Nat
               /\ pl[t] \in AtWork /\ to \in AtWork => WorkingOf(qs) = WorkingOf(pl)
               /\ pl[t] \notin AtWork /\ to \notin AtWork => WorkingOf(qs) = WorkingOf(pl)
               /\ pl[t] \notin AtWork /\ to \in AtWork =>
                     Cardinality(WorkingOf(qs)) = Cardinality(WorkingOf(pl)) + 1
               /\ pl[t] \in AtWork /\ to \notin AtWork =>
                     Cardinality(WorkingOf(qs)) = Cardinality(WorkingOf(pl)) - 1
<1> DEFINE qs == [pl EXCEPT ![t] = to]
           W == WorkingOf(pl)
           V == WorkingOf(qs)
<1>1. \A u \in Threads : qs[u] = IF u = t THEN to ELSE pl[u]
  OBVIOUS
<1> HIDE DEF qs
<1>2. IsFiniteSet(W) /\ Cardinality(W) \in Nat
  BY FS_Subset, FS_CardinalityType DEF WorkingOf
<1>3. pl[t] \in AtWork /\ to \in AtWork => V = W
  BY <1>1 DEF WorkingOf
<1>4. pl[t] \notin AtWork /\ to \notin AtWork => V = W
  BY <1>1 DEF WorkingOf
<1>5. pl[t] \notin AtWork /\ to \in AtWork => V = W \cup {t} /\ t \notin W
  BY <1>1 DEF WorkingOf
<1>6. pl[t] \in AtWork /\ to \notin AtWork => V = W \ {t} /\ t \in W
  BY <1>1 DEF WorkingOf
<1> HIDE DEF W, V
<1>7. pl[t] \notin AtWork /\ to \in AtWork => Cardinality(V) = Cardinality(W) + 1
  BY <1>2, <1>5, FS_AddElement
<1>8. pl[t] \in AtWork /\ to \notin AtWork => Cardinality(V) = Cardinality(W) - 1
  BY <1>2, <1>6, FS_RemoveElement
<1> QED BY <1>2, <1>3, <1>4, <1>7, <1>8 DEF qs, V, W

-----------------------------------------------------------------------------
(* The steps of a thread keep each part of the invariant.                  *)

USE DEF callVars, countVars, threadVars, localVars, resultVars

LEMMA StepFrame ==
    ASSUME NEW t \in Threads, Step(t)
    PROVE  UNCHANGED <<logs, dir, start, cancel>>
BY DEF Step, Take, Estimate, Ask, Push, Count, Finish, Check, Scan, Sum, Done, Spin, SetResult,
       Goto, Move, Release

\* What a thread cuts off next.
LEMMA NextChunk ==
    ASSUME Types, Ranges, NEW t \in Threads, at[t] = "push"
    PROVE  /\ keyNow \in Keys /\ GetChunk(keyNow) \in SUBSET Keys
           /\ IsFiniteSet(GetChunk(keyNow)) /\ Cardinality(GetChunk(keyNow)) \in Nat
           /\ GetChunk(keyNow) # {} => LastKey(GetChunk(keyNow)) \in GetChunk(keyNow)
           /\ \A k \in GetChunk(keyNow) : InRange(k) /\ ~Before(dir, k, keyNow)
<1>1. keyNow \in Keys /\ keyNow \in Int /\ start \in Int /\ ~Before(dir, keyNow, start)
      /\ IsFiniteSet(logs) /\ logs \subseteq Keys /\ logs \subseteq Int
  BY KeysAreNumbers DEF Types, TypeOK, Ranges
<1>2. /\ GetChunk(keyNow) \subseteq logs /\ IsFiniteSet(GetChunk(keyNow))
      /\ \A j \in GetChunk(keyNow) : ~Sooner(j, keyNow)
  BY <1>1, ChunkIsNext
<1>3. ASSUME NEW k \in GetChunk(keyNow)
      PROVE  InRange(k) /\ ~Before(dir, k, keyNow)
  BY <1>1, <1>2, <1>3, OrderFacts, SoonerIsBefore DEF InRange
<1> QED BY <1>1, <1>2, <1>3, EndsOfChunk, FS_CardinalityType

LEMMA TypesKept ==
    ASSUME Types, Ranges, NEW t \in Threads, Step(t)
    PROVE  Types'
<1> DEFINE Places == {"idle", "estimate", "ask", "push", "count", "finish",
                      "check", "scan", "sum", "done", "spin", "set"}
<1>1. /\ logs \subseteq Keys /\ logs \subseteq Int /\ IsFiniteSet(logs) /\ Present \subseteq logs
      /\ dir \in {"Forward", "Backward"} /\ start \in Keys
      /\ cancel \in BOOLEAN /\ answered \in BOOLEAN
      /\ found \in Keys \cup {NoKey} /\ keyNow \in Keys \cup {NoKey} /\ answer \in Keys \cup {NoKey}
      /\ required \in Nat /\ compares \in Nat /\ total \in Nat /\ finished \in Nat /\ sum \in Nat
      /\ at \in [Threads -> Places] /\ hand \in [Threads -> SUBSET Keys] /\ size \in [Threads -> Nat]
      /\ uiQueue \in Seq(Tasks) /\ chunkSize \in Nat
  BY KeysAreNumbers, ChunkAssumption DEF Types, TypeOK
<1>2. UNCHANGED <<logs, dir, start, cancel>>
  BY StepFrame
<1> DEFINE Rest ==
      /\ answered' \in BOOLEAN
      /\ found' \in Keys \cup {NoKey} /\ keyNow' \in Keys \cup {NoKey} /\ answer' \in Keys \cup {NoKey}
      /\ required' \in Nat /\ compares' \in Nat /\ total' \in Nat /\ finished' \in Nat /\ sum' \in Nat
      /\ at' \in [Threads -> Places] /\ hand' \in [Threads -> SUBSET Keys] /\ size' \in [Threads -> Nat]
      /\ uiQueue' \in Seq(Tasks)
<1>3. SUFFICES Rest
  <2> SUFFICES ASSUME Rest PROVE Types'
    OBVIOUS
  <2>1. \A i \in DOMAIN uiQueue' : uiQueue'[i].keys \subseteq Keys
    BY TasksInQueue
  <2> QED BY <1>1, <1>2, <2>1 DEF Types, TypeOK
<1>4. CASE Take(t)
  <2>1. /\ Tail(uiQueue) \in Seq(Tasks) /\ Head(uiQueue) \in Tasks /\ 1 \in DOMAIN uiQueue
        /\ Head(uiQueue) = uiQueue[1]
    BY <1>1, <1>4, JobsAfterTail DEF Take
  <2>2. Head(uiQueue).kind \in Places /\ Head(uiQueue).keys \in SUBSET Keys
    BY <2>1 DEF Tasks
  <2>3. Cardinality(Head(uiQueue).keys) \in Nat
    <3>1. Head(uiQueue).keys \subseteq logs
      BY <2>1 DEF Ranges, InRange
    <3> QED BY <1>1, <3>1, FS_Subset, FS_CardinalityType
  <2> QED BY <1>1, <1>4, <2>1, <2>2, <2>3 DEF Take, Goto
<1>5. CASE Estimate(t)
  <2>1. EstimatedCompares \in Nat
    BY <1>1, KeysAreNumbers, EstimateIsNat
  <2> QED BY <1>1, <1>5, <2>1 DEF Estimate, Move
<1>6. CASE Ask(t)
  BY <1>1, <1>6 DEF Ask, Move
<1>7. CASE Push(t)
  <2>1. /\ keyNow \in Keys /\ GetChunk(keyNow) \in SUBSET Keys
        /\ Cardinality(GetChunk(keyNow)) \in Nat
        /\ GetChunk(keyNow) # {} => LastKey(GetChunk(keyNow)) \in Keys
    BY <1>7, NextChunk DEF Push
  <2>2. CASE GetChunk(keyNow) = {}
    BY <1>1, <1>7, <2>2 DEF Push, Move
  <2>3. CASE GetChunk(keyNow) # {}
    <3> DEFINE n == Cardinality(GetChunk(keyNow))
               q == Append(uiQueue, Task("check", GetChunk(keyNow)))
    <3>1. q \in Seq(Tasks)
      BY <1>1, <2>1, TaskIsTask
    <3>2. /\ uiQueue' = q /\ keyNow' = LastKey(GetChunk(keyNow)) /\ sum' = sum + n
          /\ at' = [at EXCEPT ![t] = "count"] /\ hand' = [hand EXCEPT ![t] = {}]
          /\ size' = [size EXCEPT ![t] = n]
          /\ UNCHANGED <<found, required, compares, total, finished, answered, answer>>
      BY <1>7, <2>3 DEF Push, Goto
    <3> HIDE DEF n, q
    <3>3. n \in Nat /\ LastKey(GetChunk(keyNow)) \in Keys
      BY <2>1, <2>3 DEF n
    <3> QED BY <1>1, <3>1, <3>2, <3>3
  <2> QED BY <2>2, <2>3
<1>8. CASE Count(t)
  BY <1>1, <1>8 DEF Count, Goto
<1>9. CASE Finish(t)
  <2>1. Append(uiQueue, Task("spin", {})) \in Seq(Tasks)
    BY <1>1, TaskIsTask
  <2> QED BY <1>1, <1>9, <2>1 DEF Finish, Release, Goto
<1>10. CASE Check(t)
  BY <1>1, <1>10 DEF Check, Move
<1>11. CASE Scan(t)
  <2>1. hand[t] # {} => Front(hand[t]) \in Keys /\ Reported(Front(hand[t])) \in Keys \cup {NoKey}
    <3> SUFFICES ASSUME hand[t] # {} PROVE Front(hand[t]) \in hand[t]
      BY <1>1 DEF Reported
    <3>1. hand[t] \subseteq logs
      BY DEF Ranges, InRange
    <3> QED BY <1>1, <3>1, FS_Subset, EndsOfChunk
  <2>2. /\ found' \in Keys \cup {NoKey}
        /\ UNCHANGED <<keyNow, answer, answered, required, compares, total, finished, sum, uiQueue>>
    BY <1>1, <1>11, <2>1 DEF Scan
  <2>3. \E place \in {"scan", "sum"}, ks \in SUBSET hand[t] :
            /\ at' = [at EXCEPT ![t] = place]
            /\ hand' = [hand EXCEPT ![t] = ks] /\ size' = [size EXCEPT ![t] = size[t]]
    <3>1. CASE hand[t] = {} \/ cancel \/ Front(hand[t]) \in Matching
      <4>1. Move(t, "sum")
        BY <1>11, <3>1 DEF Scan
      <4>2. hand = [hand EXCEPT ![t] = hand[t]] /\ size = [size EXCEPT ![t] = size[t]]
        BY <1>1
      <4> QED BY <4>1, <4>2 DEF Move
    <3>2. CASE ~(hand[t] = {} \/ cancel \/ Front(hand[t]) \in Matching)
      <4>1. Goto(t, "scan", hand[t] \ {Front(hand[t])}, size[t])
        BY <1>11, <3>2 DEF Scan
      <4> QED BY <4>1 DEF Goto
    <3> QED BY <3>1, <3>2
  <2>4. at' \in [Threads -> Places] /\ hand' \in [Threads -> SUBSET Keys] /\ size' \in [Threads -> Nat]
    BY <1>1, <2>3
  <2> QED BY <1>1, <2>2, <2>4
<1>12. CASE Sum(t)
  BY <1>1, <1>12 DEF Sum, Move
<1>13. CASE Done(t)
  BY <1>1, <1>13 DEF Done, Release, Goto
<1>14. CASE Spin(t)
  BY <1>1, <1>14 DEF Spin, Move
<1>15. CASE SetResult(t)
  BY <1>1, <1>15 DEF SetResult, Release, Goto
<1> QED BY <1>4, <1>5, <1>6, <1>7, <1>8, <1>9, <1>10, <1>11, <1>12, <1>13, <1>14, <1>15 DEF Step

LEMMA OneLeadsKept ==
    ASSUME Types, OneLeads, NEW t \in Threads, Step(t)
    PROVE  OneLeads'
<1>1. DOMAIN at = Threads /\ uiQueue \in Seq(Tasks)
  BY DEF Types, TypeOK
<1> USE DEF Leads
<1>2. CASE Take(t)
  <2>1. /\ uiQueue' = Tail(uiQueue) /\ at' = [at EXCEPT ![t] = Head(uiQueue).kind]
        /\ at[t] = "idle" /\ answered' = answered
    BY <1>2 DEF Take, Goto
  <2>2. /\ \A i \in DOMAIN uiQueue' : i \in Nat /\ i + 1 \in DOMAIN uiQueue /\ i + 1 # 1
                                      /\ uiQueue'[i] = uiQueue[i + 1]
        /\ 1 \in DOMAIN uiQueue /\ Head(uiQueue) = uiQueue[1] /\ Head(uiQueue) \in Tasks
    BY <1>1, <1>2, <2>1, JobsAfterTail DEF Take
  <2>3. at'[t] \in Leads => at'[t] # "check" /\ at'[t] = uiQueue[1].kind
    BY <1>1, <2>1, <2>2
  <2>4. \A u \in Threads \ {t} : at'[u] = at[u]
    BY <1>1, <2>1
  <2>5. \A i, j \in DOMAIN uiQueue' :
          uiQueue'[i].kind # "check" /\ uiQueue'[j].kind # "check" => i = j
    <3> SUFFICES ASSUME NEW i \in DOMAIN uiQueue', NEW j \in DOMAIN uiQueue',
                        uiQueue'[i].kind # "check", uiQueue'[j].kind # "check"
                 PROVE  i = j
      OBVIOUS
    <3>1. i + 1 = j + 1
      BY <2>2 DEF OneLeads
    <3> QED BY <2>2, <3>1
  <2>6. \A u \in Threads, i \in DOMAIN uiQueue' : at'[u] \in Leads => uiQueue'[i].kind = "check"
    <3> SUFFICES ASSUME NEW u \in Threads, NEW i \in DOMAIN uiQueue', at'[u] \in Leads
                 PROVE  uiQueue'[i].kind = "check"
      OBVIOUS
    <3>1. i + 1 \in DOMAIN uiQueue /\ i + 1 # 1 /\ uiQueue'[i] = uiQueue[i + 1]
      BY <2>2
    <3>2. CASE u = t
      BY <2>2, <2>3, <3>1, <3>2 DEF OneLeads
    <3>3. CASE u # t
      BY <2>4, <3>1, <3>3 DEF OneLeads
    <3> QED BY <3>2, <3>3
  <2>7. \A u, v \in Threads : at'[u] \in Leads /\ at'[v] \in Leads => u = v
    <3>1. ASSUME NEW u \in Threads, u # t, at'[u] \in Leads, at'[t] \in Leads PROVE FALSE
      <4>1. at[u] \in Leads
        BY <2>4, <3>1
      <4>2. uiQueue[1].kind = "check"
        BY <2>2, <4>1 DEF OneLeads
      <4> QED BY <2>3, <3>1, <4>2
    <3> QED BY <2>4, <3>1 DEF OneLeads
  <2>8. answered => (\A u \in Threads : at'[u] \notin Leads)
                    /\ (\A i \in DOMAIN uiQueue' : uiQueue'[i].kind = "check")
    <3> SUFFICES ASSUME answered
                 PROVE  (\A u \in Threads : at'[u] \notin Leads)
                        /\ (\A i \in DOMAIN uiQueue' : uiQueue'[i].kind = "check")
      OBVIOUS
    <3>1. uiQueue[1].kind = "check"
      BY <2>2 DEF OneLeads
    <3> QED BY <2>2, <2>3, <2>4, <3>1 DEF OneLeads
  <2> QED BY <2>1, <2>5, <2>6, <2>7, <2>8 DEF OneLeads
\* The thread leads, and goes on.
<1>3. CASE Estimate(t) \/ Ask(t) \/ Count(t) \/ Spin(t) \/ (Push(t) /\ GetChunk(keyNow) = {})
  <2>1. /\ at[t] \in Leads /\ at' = [at EXCEPT ![t] = at'[t]]
        /\ uiQueue' = uiQueue /\ answered' = answered
    BY <1>1, <1>3 DEF Estimate, Ask, Count, Spin, Push, Move, Goto
  <2>2. \A u \in Threads \ {t} : at'[u] = at[u]
    BY <1>1, <2>1
  <2> QED BY <2>1, <2>2 DEF OneLeads
<1>4. CASE Push(t) /\ GetChunk(keyNow) # {}
  <2>1. /\ at[t] = "push" /\ at' = [at EXCEPT ![t] = "count"] /\ answered' = answered
        /\ uiQueue' = Append(uiQueue, Task("check", GetChunk(keyNow)))
    BY <1>4 DEF Push, Goto
  <2>2. \A u \in Threads \ {t} : at'[u] = at[u]
    BY <1>1, <2>1
  <2>3. \A i \in DOMAIN uiQueue' :
          (i \in DOMAIN uiQueue /\ uiQueue'[i] = uiQueue[i]) \/ uiQueue'[i].kind = "check"
    <3>1. \A i \in DOMAIN uiQueue' :
            (i \in DOMAIN uiQueue /\ uiQueue'[i] = uiQueue[i])
            \/ uiQueue'[i] = Task("check", GetChunk(keyNow))
      BY <1>1, <2>1
    <3> QED BY <3>1 DEF Task
  <2> QED BY <2>1, <2>2, <2>3 DEF OneLeads
<1>5. CASE Finish(t)
  <2>1. /\ at[t] = "finish" /\ at' = [at EXCEPT ![t] = "idle"] /\ answered' = answered
        /\ uiQueue' = Append(uiQueue, Task("spin", {}))
    BY <1>5 DEF Finish, Release, Goto
  <2>2. (\A u \in Threads \ {t} : at'[u] = at[u] /\ at[u] \notin Leads) /\ at'[t] = "idle" /\ ~answered
    BY <1>1, <2>1 DEF OneLeads
  <2>3. \A i \in DOMAIN uiQueue' :
          (i \in DOMAIN uiQueue /\ uiQueue'[i] = uiQueue[i]) \/ i = Len(uiQueue) + 1
    BY <1>1, <2>1
  <2>4. \A i \in DOMAIN uiQueue : uiQueue[i].kind = "check"
    BY <2>1 DEF OneLeads
  <2> QED BY <2>1, <2>2, <2>3, <2>4 DEF OneLeads
\* The thread does not lead.
<1>6. CASE Check(t) \/ Scan(t) \/ Sum(t) \/ Done(t)
  <2>1. /\ at'[t] \notin Leads /\ at' = [at EXCEPT ![t] = at'[t]]
        /\ uiQueue' = uiQueue /\ answered' = answered
    BY <1>1, <1>6 DEF Check, Scan, Sum, Done, Release, Move, Goto
  <2>2. \A u \in Threads \ {t} : at'[u] = at[u]
    BY <1>1, <2>1
  <2> QED BY <2>1, <2>2 DEF OneLeads
<1>7. CASE SetResult(t)
  <2>1. at[t] = "set" /\ at' = [at EXCEPT ![t] = "idle"] /\ uiQueue' = uiQueue
    BY <1>7 DEF SetResult, Release, Goto
  <2>2. (\A u \in Threads \ {t} : at'[u] = at[u] /\ at[u] \notin Leads) /\ at'[t] = "idle"
    BY <1>1, <2>1 DEF OneLeads
  <2>3. \A i \in DOMAIN uiQueue : uiQueue[i].kind = "check"
    BY <2>1 DEF OneLeads
  <2> QED BY <2>1, <2>2, <2>3 DEF OneLeads
<1> QED BY <1>2, <1>3, <1>4, <1>5, <1>6, <1>7 DEF Step

LEMMA OneThreadMoves ==
    ASSUME Types, NEW t \in Threads, Step(t)
    PROVE  at' = [at EXCEPT ![t] = at'[t]]
<1>1. DOMAIN at = Threads
  BY DEF Types, TypeOK
<1> QED BY <1>1 DEF Step, Take, Estimate, Ask, Push, Count, Finish, Check, Scan, Sum, Done, Spin,
                    SetResult, Goto, Move, Release

LEMMA JobsCountedKept ==
    ASSUME IsFiniteSet(Threads), Types, Ranges, OneLeads, JobsCounted, NEW t \in Threads, Step(t)
    PROVE  JobsCounted'
<1> DEFINE J(q) == Cardinality(Jobs(q))
           W(pl) == Cardinality(WorkingOf(pl))
           U(pl) == UncountedOf(pl)
<1>1. /\ DOMAIN at = Threads /\ uiQueue \in Seq(Tasks)
      /\ total \in Nat /\ finished \in Nat /\ J(uiQueue) \in Nat
  BY JobsAreFinite DEF Types, TypeOK
<1>2. /\ W(at) \in Nat
      /\ at[t] \in AtWork /\ at'[t] \in AtWork => W(at') = W(at)
      /\ at[t] \notin AtWork /\ at'[t] \notin AtWork => W(at') = W(at)
      /\ at[t] \notin AtWork /\ at'[t] \in AtWork => W(at') = W(at) + 1
      /\ at[t] \in AtWork /\ at'[t] \notin AtWork => W(at') = W(at) - 1
  <2> DEFINE qs == [at EXCEPT ![t] = at'[t]]
  <2>1. qs = at'
    BY OneThreadMoves
  <2>2. /\ W(at) \in Nat
        /\ at[t] \in AtWork /\ at'[t] \in AtWork => WorkingOf(qs) = WorkingOf(at)
        /\ at[t] \notin AtWork /\ at'[t] \notin AtWork => WorkingOf(qs) = WorkingOf(at)
        /\ at[t] \notin AtWork /\ at'[t] \in AtWork => W(qs) = W(at) + 1
        /\ at[t] \in AtWork /\ at'[t] \notin AtWork => W(qs) = W(at) - 1
    BY <1>1, WorkingAfter
  <2> HIDE DEF qs
  <2> QED BY <2>1, <2>2
<1>3. /\ at[t] # "count" /\ at'[t] # "count" => U(at') = U(at)
      /\ at[t] \in Leads /\ at[t] # "count" => U(at) = 0 /\ (at'[t] = "count" => U(at') = 1)
      /\ at[t] = "count" => U(at) = 1 /\ (at'[t] # "count" => U(at') = 0)
      /\ U(at) \in {0, 1}
  <2>1. \A u \in Threads : u # t => at'[u] = at[u]
    BY <1>1, OneThreadMoves
  <2> QED BY <2>1 DEF UncountedOf, OneLeads, Leads
<1>4. total + U(at) = finished + J(uiQueue) + W(at)
  BY DEF JobsCounted
<1>5. SUFFICES total' + U(at') = finished' + J(uiQueue') + W(at')
  BY DEF JobsCounted, J, W, U
<1>6. CASE Take(t)
  <2>1. /\ at[t] = "idle" /\ at'[t] = Head(uiQueue).kind /\ uiQueue' = Tail(uiQueue)
        /\ total' = total /\ finished' = finished /\ uiQueue # <<>>
    BY <1>1, <1>6 DEF Take, Goto
  <2>2. /\ Head(uiQueue).kind \in {"estimate", "check", "spin"}
        /\ J(uiQueue') = J(uiQueue) - (IF Head(uiQueue).kind = "check" THEN 1 ELSE 0)
    BY <1>1, <2>1, JobsAfterTail DEF Tasks
  <2>3. U(at') = U(at)
    BY <1>3, <2>1, <2>2
  <2>4. CASE Head(uiQueue).kind = "check"
    <3>1. W(at') = W(at) + 1 /\ J(uiQueue') = J(uiQueue) - 1
      BY <1>2, <2>1, <2>2, <2>4 DEF AtWork
    <3> HIDE DEF J, W, U
    <3> QED BY <1>1, <1>2, <1>3, <1>4, <2>1, <2>3, <3>1
  <2>5. CASE Head(uiQueue).kind # "check"
    <3>1. W(at') = W(at) /\ J(uiQueue') = J(uiQueue)
      <4>1. W(at') = W(at)
        BY <1>2, <2>1, <2>2, <2>5 DEF AtWork
      <4>2. J(uiQueue') = J(uiQueue) - 0
        BY <2>2, <2>5
      <4> HIDE DEF J, W
      <4> QED BY <1>1, <4>1, <4>2
    <3> HIDE DEF J, W, U
    <3> QED BY <1>4, <2>1, <2>3, <3>1
  <2> QED BY <2>4, <2>5
\* Nothing is counted, and the thread neither comes to work nor leaves it.
<1>7. CASE Estimate(t) \/ Ask(t) \/ Check(t) \/ Scan(t) \/ Sum(t) \/ Spin(t) \/ SetResult(t)
           \/ (Push(t) /\ GetChunk(keyNow) = {})
  <2>1. /\ at[t] # "count" /\ at'[t] # "count"
        /\ at[t] \in AtWork <=> at'[t] \in AtWork
        /\ uiQueue' = uiQueue /\ total' = total /\ finished' = finished
    BY <1>1, <1>7 DEF Estimate, Ask, Check, Scan, Sum, Spin, SetResult, Push, Release, Move, Goto, AtWork
  <2>2. U(at') = U(at) /\ W(at') = W(at)
    BY <1>2, <1>3, <2>1
  <2> HIDE DEF J, W, U
  <2> QED BY <1>4, <2>1, <2>2
<1>8. CASE Push(t) /\ GetChunk(keyNow) # {}
  <2>1. /\ at[t] = "push" /\ at'[t] = "count"
        /\ uiQueue' = Append(uiQueue, Task("check", GetChunk(keyNow)))
        /\ total' = total /\ finished' = finished
    BY <1>1, <1>8 DEF Push, Goto
  <2>2. J(uiQueue') = J(uiQueue) + 1
    <3>1. GetChunk(keyNow) \in SUBSET Keys
      BY <2>1, NextChunk
    <3> QED BY <1>1, <2>1, <3>1, TaskIsTask, JobsAfterAppend
  <2>3. U(at') = 1 /\ U(at) = 0 /\ W(at') = W(at)
    BY <1>2, <1>3, <2>1 DEF Leads, AtWork
  <2> HIDE DEF J, W, U
  <2> QED BY <1>1, <1>2, <1>4, <2>1, <2>2, <2>3
<1>9. CASE Count(t)
  <2>1. /\ at[t] = "count" /\ at'[t] \in {"finish", "ask"}
        /\ uiQueue' = uiQueue /\ total' = total + 1 /\ finished' = finished
    BY <1>1, <1>9 DEF Count, Goto
  <2>2. U(at') = 0 /\ U(at) = 1 /\ W(at') = W(at)
    BY <1>2, <1>3, <2>1 DEF AtWork
  <2> HIDE DEF J, W, U
  <2> QED BY <1>1, <1>2, <1>4, <2>1, <2>2
<1>10. CASE Finish(t)
  <2>1. /\ at[t] = "finish" /\ at'[t] = "idle"
        /\ uiQueue' = Append(uiQueue, Task("spin", {}))
        /\ total' = total /\ finished' = finished
    BY <1>1, <1>10 DEF Finish, Release, Goto
  <2>2. J(uiQueue') = J(uiQueue) + 0
    BY <1>1, <2>1, TaskIsTask, JobsAfterAppend
  <2>3. U(at') = U(at) /\ W(at') = W(at)
    BY <1>2, <1>3, <2>1 DEF AtWork
  <2> HIDE DEF J, W, U
  <2> QED BY <1>1, <1>2, <1>4, <2>1, <2>2, <2>3
<1>11. CASE Done(t)
  <2>1. /\ at[t] = "done" /\ at'[t] = "idle"
        /\ uiQueue' = uiQueue /\ total' = total /\ finished' = finished + 1
    BY <1>1, <1>11 DEF Done, Release, Goto
  <2>2. U(at') = U(at) /\ W(at') = W(at) - 1
    BY <1>2, <1>3, <2>1 DEF AtWork
  <2> HIDE DEF J, W, U
  <2> QED BY <1>1, <1>2, <1>3, <1>4, <2>1, <2>2
<1> QED BY <1>6, <1>7, <1>8, <1>9, <1>10, <1>11 DEF Step

\* The counts agree only when there is no job, and later no job can come.
LEMMA ReadAloneKept ==
    ASSUME IsFiniteSet(Threads), Types, OneLeads, JobsCounted, ReadAlone, NEW t \in Threads, Step(t)
    PROVE  ReadAlone'
<1>1. DOMAIN at = Threads /\ uiQueue \in Seq(Tasks) /\ total \in Nat /\ finished \in Nat
  BY DEF Types, TypeOK
<1>2. CASE Spin(t)
  <2>1. /\ at[t] = "spin" /\ at' = [at EXCEPT ![t] = "set"] /\ uiQueue' = uiQueue /\ cancel' = cancel
        /\ total = finished \/ cancel
    BY <1>2 DEF Spin, Move, AllDone
  <2>2. WorkingOf(at') = WorkingOf(at)
    BY <1>1, <2>1, WorkingAfter DEF AtWork
  <2>3. ASSUME ~cancel
        PROVE  Jobs(uiQueue) = {} /\ WorkingOf(at) = {}
    <3> DEFINE j == Cardinality(Jobs(uiQueue))
               w == Cardinality(WorkingOf(at))
    <3>1. UncountedOf(at) = 0
      BY <2>1 DEF UncountedOf, OneLeads, Leads
    <3>2. total + 0 = finished + j + w /\ total = finished
      BY <2>1, <2>3, <3>1 DEF JobsCounted
    <3>3. j \in Nat /\ w \in Nat /\ IsFiniteSet(Jobs(uiQueue)) /\ IsFiniteSet(WorkingOf(at))
      BY <1>1, JobsAreFinite, WorkingAfter
    <3>4. j = 0 /\ w = 0
      <4> HIDE DEF j, w
      <4> QED BY <1>1, <3>2, <3>3
    <3> QED BY <3>3, <3>4, FS_EmptySet
  <2> QED BY <2>1, <2>2, <2>3 DEF ReadAlone
<1>3. CASE ~Spin(t)
  <2> SUFFICES ASSUME NEW u \in Threads, at'[u] = "set", ~cancel'
               PROVE  Jobs(uiQueue') = {} /\ WorkingOf(at') = {}
    BY DEF ReadAlone
  <2>1. cancel' = cancel
    BY StepFrame
  <2>2. at[u] = "set"
    <3>1. at' = [at EXCEPT ![t] = at'[t]] /\ at'[t] # "set"
      <4>1. CASE Take(t)
        <5>1. at' = [at EXCEPT ![t] = Head(uiQueue).kind] /\ uiQueue # <<>>
          BY <4>1 DEF Take, Goto
        <5>2. Head(uiQueue).kind # "set"
          BY <1>1, <5>1, JobsAfterTail DEF Tasks
        <5> QED BY <1>1, <5>1, <5>2
      <4>2. CASE ~Take(t)
        BY <1>1, <1>3, <4>2 DEF Step, Estimate, Ask, Push, Count, Finish, Check, Scan, Sum, Done,
           SetResult, Move, Release, Goto
      <4> QED BY <4>1, <4>2
    <3> QED BY <1>1, <3>1
  <2>3. Jobs(uiQueue) = {} /\ WorkingOf(at) = {}
    BY <2>1, <2>2 DEF ReadAlone
  <2>4. u # t
    <3> SUFFICES ASSUME u = t PROVE FALSE
      OBVIOUS
    <3>1. SetResult(t)
      BY <2>2 DEF Step, Take, Estimate, Ask, Push, Count, Finish, Check, Scan, Sum, Done, Spin
    <3>2. at'[t] = "idle"
      BY <1>1, <3>1 DEF SetResult, Release, Goto
    <3> QED BY <3>2
  <2>5. at[t] \notin Leads /\ at[t] \notin AtWork
    BY <2>2, <2>3, <2>4 DEF OneLeads, Leads, WorkingOf
  <2>6. Take(t)
    BY <2>5 DEF Leads, AtWork, Step, Estimate, Ask, Push, Count, Finish, Check, Scan, Sum, Done,
       Spin, SetResult
  <2>7. /\ uiQueue' = Tail(uiQueue) /\ at' = [at EXCEPT ![t] = Head(uiQueue).kind] /\ uiQueue # <<>>
    BY <2>6 DEF Take, Goto
  <2>8. /\ Head(uiQueue) = uiQueue[1] /\ 1 \in DOMAIN uiQueue /\ Head(uiQueue) \in Tasks
        /\ \A i \in DOMAIN uiQueue' : i + 1 \in DOMAIN uiQueue /\ uiQueue'[i] = uiQueue[i + 1]
    BY <1>1, <2>7, JobsAfterTail
  <2>9. Head(uiQueue).kind \notin AtWork
    BY <2>3, <2>8 DEF Jobs, Tasks, AtWork
  <2>10. WorkingOf(at') = {}
    BY <1>1, <2>3, <2>5, <2>7, <2>9, WorkingAfter
  <2>11. Jobs(uiQueue') = {}
    BY <2>3, <2>8 DEF Jobs
  <2> QED BY <2>10, <2>11
<1> QED BY <1>2, <1>3

LEMMA RangesKept ==
    ASSUME Types, Ranges, NEW t \in Threads, Step(t)
    PROVE  Ranges'
<1>1. /\ DOMAIN at = Threads /\ DOMAIN hand = Threads /\ uiQueue \in Seq(Tasks)
      /\ start \in Keys /\ start \in Int /\ found \in Int /\ logs \subseteq Int /\ IsFiniteSet(logs)
  BY KeysAreNumbers DEF Types, TypeOK
<1>2. UNCHANGED <<logs, dir, start>>
  BY StepFrame
<1>3. \A k : InRange(k)' <=> InRange(k)
  BY <1>2 DEF InRange
<1>4. CASE Take(t)
  <2>1. /\ at' = [at EXCEPT ![t] = Head(uiQueue).kind] /\ hand' = [hand EXCEPT ![t] = Head(uiQueue).keys]
        /\ uiQueue # <<>> /\ uiQueue' = Tail(uiQueue) /\ found' = found /\ keyNow' = keyNow
    BY <1>4 DEF Take, Goto
  <2>2. /\ Head(uiQueue) = uiQueue[1] /\ 1 \in DOMAIN uiQueue
        /\ Head(uiQueue).kind \in {"estimate", "check", "spin"}
        /\ \A i \in DOMAIN uiQueue' : i + 1 \in DOMAIN uiQueue /\ uiQueue'[i] = uiQueue[i + 1]
    BY <1>1, <2>1, JobsAfterTail DEF Tasks
  <2> QED BY <1>1, <1>2, <1>3, <2>1, <2>2 DEF Ranges
<1>5. CASE Estimate(t)
  <2>1. /\ at' = [at EXCEPT ![t] = "ask"] /\ keyNow' = start
        /\ UNCHANGED <<hand, uiQueue, found>>
    BY <1>5 DEF Estimate, Move
  <2>2. ~Before(dir, start, start)
    BY <1>1, OrderFacts
  <2> QED BY <1>1, <1>2, <1>3, <2>1, <2>2 DEF Ranges
<1>6. CASE Ask(t)
  <2>1. /\ at[t] = "ask" /\ at' = [at EXCEPT ![t] = at'[t]] /\ at'[t] # "check"
        /\ UNCHANGED <<hand, uiQueue, found, keyNow>>
    BY <1>1, <1>6 DEF Ask, Move
  <2> QED BY <1>1, <1>2, <1>3, <2>1 DEF Ranges
<1>7. CASE Push(t)
  <2>1. /\ keyNow \in Keys /\ GetChunk(keyNow) \in SUBSET Keys
        /\ GetChunk(keyNow) # {} => LastKey(GetChunk(keyNow)) \in GetChunk(keyNow)
        /\ \A k \in GetChunk(keyNow) : InRange(k)
    BY <1>7, NextChunk DEF Push
  <2>2. CASE GetChunk(keyNow) = {}
    <3>1. /\ at' = [at EXCEPT ![t] = "finish"] /\ UNCHANGED <<hand, uiQueue, found, keyNow>>
      BY <1>7, <2>2 DEF Push, Move
    <3> QED BY <1>1, <1>2, <1>3, <3>1 DEF Ranges
  <2>3. CASE GetChunk(keyNow) # {}
    <3>1. /\ at' = [at EXCEPT ![t] = "count"] /\ hand' = [hand EXCEPT ![t] = {}]
          /\ uiQueue' = Append(uiQueue, Task("check", GetChunk(keyNow)))
          /\ found' = found /\ keyNow' = LastKey(GetChunk(keyNow))
      BY <1>7, <2>3 DEF Push, Goto
    <3>2. keyNow' \in Keys /\ ~Before(dir, keyNow', start)
      BY <2>1, <2>3, <3>1 DEF InRange
    <3>3. \A i \in DOMAIN uiQueue' :
            (i \in DOMAIN uiQueue /\ uiQueue'[i] = uiQueue[i]) \/ uiQueue'[i].keys = GetChunk(keyNow)
      BY <1>1, <2>1, <3>1, TaskIsTask, JobsAfterAppend
    <3>4. /\ \A i \in DOMAIN uiQueue' : \A k \in uiQueue'[i].keys : InRange(k)
          /\ \A i \in DOMAIN uiQueue' : uiQueue'[i].kind = "check" => uiQueue'[i].keys # {}
      BY <2>1, <2>3, <3>3 DEF Ranges
    <3> QED BY <1>1, <1>2, <1>3, <3>1, <3>2, <3>4 DEF Ranges
  <2> QED BY <2>2, <2>3
<1>8. CASE Count(t)
  <2>1. /\ at[t] = "count" /\ at' = [at EXCEPT ![t] = at'[t]] /\ at'[t] # "check"
        /\ hand' = [hand EXCEPT ![t] = {}] /\ UNCHANGED <<uiQueue, found, keyNow>>
    BY <1>1, <1>8 DEF Count, Goto
  <2> QED BY <1>1, <1>2, <1>3, <2>1 DEF Ranges
<1>9. CASE Finish(t)
  <2>1. /\ at' = [at EXCEPT ![t] = "idle"] /\ hand' = [hand EXCEPT ![t] = {}]
        /\ uiQueue' = Append(uiQueue, Task("spin", {})) /\ UNCHANGED <<found, keyNow>>
    BY <1>9 DEF Finish, Release, Goto
  <2>2. \A i \in DOMAIN uiQueue' :
          (i \in DOMAIN uiQueue /\ uiQueue'[i] = uiQueue[i])
          \/ (uiQueue'[i].keys = {} /\ uiQueue'[i].kind = "spin")
    BY <1>1, <2>1, TaskIsTask, JobsAfterAppend
  <2> QED BY <1>1, <1>2, <1>3, <2>1, <2>2 DEF Ranges
<1>10. CASE Check(t) \/ Sum(t) \/ Spin(t)
  <2>1. /\ at' = [at EXCEPT ![t] = at'[t]] /\ at'[t] \notin {"ask", "push", "count", "check"}
        /\ UNCHANGED <<hand, uiQueue, found, keyNow>>
    BY <1>1, <1>10 DEF Check, Sum, Spin, Move
  <2> QED BY <1>1, <1>2, <1>3, <2>1 DEF Ranges
<1>11. CASE Scan(t)
  <2> DEFINE k == Front(hand[t])
  <2>1. /\ at' = [at EXCEPT ![t] = at'[t]] /\ at'[t] \notin {"ask", "push", "count", "check"}
        /\ UNCHANGED <<uiQueue, keyNow>>
        /\ hand' = hand \/ hand' = [hand EXCEPT ![t] = hand[t] \ {k}]
        /\ found' = found \/ (hand[t] # {} /\ k \in Matching /\ found' = Reported(k))
    <3> HIDE DEF k
    <3> QED BY <1>1, <1>11 DEF Scan, Move, Goto, k
  <2>2. hand[t] # {} => k \in hand[t] /\ InRange(k) /\ k \in Int
    <3>1. hand[t] \subseteq logs
      BY DEF Ranges, InRange
    <3> QED BY <1>1, <3>1, FS_Subset, EndsOfChunk DEF Ranges
  <2>3. found' # NoKey => found' \in Matching /\ InRange(found')
    <3> HIDE DEF k
    <3> QED BY <1>1, <2>1, <2>2, Reporting DEF Ranges
  <2>4. \A u \in Threads : hand'[u] \subseteq hand[u]
    BY <1>1, <2>1
  <2> QED BY <1>1, <1>2, <1>3, <2>1, <2>3, <2>4 DEF Ranges
<1>12. CASE Done(t) \/ SetResult(t)
  <2>1. /\ at' = [at EXCEPT ![t] = "idle"] /\ hand' = [hand EXCEPT ![t] = {}]
        /\ UNCHANGED <<uiQueue, found, keyNow>>
    BY <1>12 DEF Done, SetResult, Release, Goto
  <2> QED BY <1>1, <1>2, <1>3, <2>1 DEF Ranges
<1> QED BY <1>4, <1>5, <1>6, <1>7, <1>8, <1>9, <1>10, <1>11, <1>12 DEF Step

\* What is found stays, or gives way to something sooner.
LEMMA FoundStays ==
    ASSUME Types, Ranges, NEW t \in Threads, Step(t), NEW k \in Keys,
           found # NoKey, ~Before(dir, k, found)
    PROVE  found' # NoKey /\ ~Before(dir, k, found')
<1>1. /\ k \in Int /\ found \in Int /\ NoKey \notin Keys /\ found \in Keys
      /\ logs \subseteq Keys /\ logs \subseteq Int /\ IsFiniteSet(logs)
  BY KeysAreNumbers DEF Types, TypeOK
<1>2. CASE Scan(t)
  <2> DEFINE j == Front(hand[t])
  <2>1. found' = found \/ (hand[t] # {} /\ found' = Reported(j))
    BY <1>2 DEF Scan
  <2>2. hand[t] # {} => j \in Keys /\ j \in Int
    <3>1. hand[t] \subseteq logs
      BY DEF Ranges, InRange
    <3> QED BY <1>1, <3>1, FS_Subset, EndsOfChunk
  <2> HIDE DEF j
  <2>3. CASE found' = found
    BY <2>3
  <2>4. CASE hand[t] # {} /\ found' = Reported(j)
    <3>1. j \in Int /\ j \in Keys
      BY <2>2, <2>4
    <3>2. /\ found' = j \/ found' = found
          /\ ~Before(dir, found, found')
      BY <1>1, <2>4, <3>1, Reporting
    <3>3. found' \in Int /\ found' # NoKey
      BY <1>1, <3>1, <3>2
    <3> QED BY <1>1, <3>2, <3>3, OrderFacts
  <2> QED BY <2>1, <2>3, <2>4
<1>3. CASE ~Scan(t)
  BY <1>3 DEF Step, Take, Estimate, Ask, Push, Count, Finish, Check, Sum, Done, Spin, SetResult
<1> QED BY <1>2, <1>3

\* A log that is pending stays so until there is an answer.
LEMMA PendingKept ==
    ASSUME Types, OneLeads, Ranges, NEW t \in Threads, Step(t), ~SetResult(t), ~cancel,
           NEW k \in Keys, IsExpected(k), Pending(k)
    PROVE  Pending(k)'
<1>1. /\ DOMAIN at = Threads /\ DOMAIN hand = Threads /\ DOMAIN size = Threads
      /\ uiQueue \in Seq(Tasks)
      /\ start \in Keys /\ start \in Int /\ found \in Int /\ keyNow \in Int /\ k \in Int
      /\ logs \subseteq Int /\ IsFiniteSet(logs) /\ k \in logs /\ k \in Matching
      /\ ~Before(dir, k, start)
  BY KeysAreNumbers DEF Types, TypeOK, IsExpected
<1>2. dir' = dir
  BY StepFrame
<1>3. \A u \in Threads : u # t => at'[u] = at[u] /\ hand'[u] = hand[u] /\ size'[u] = size[u]
  BY <1>1 DEF Step, Take, Estimate, Ask, Push, Count, Finish, Check, Scan, Sum, Done, Spin,
              SetResult, Goto, Move, Release
<1>4. CASE found # NoKey /\ ~Before(dir, k, found)
  BY <1>2, <1>4, FoundStays DEF Pending
<1>5. CASE ~(found # NoKey /\ ~Before(dir, k, found)) /\ Take(t)
  <2>1. /\ at[t] = "idle" /\ at'[t] = Head(uiQueue).kind /\ hand'[t] = Head(uiQueue).keys
        /\ uiQueue # <<>> /\ uiQueue' = Tail(uiQueue) /\ keyNow' = keyNow
    BY <1>1, <1>5 DEF Take, Goto
  <2>2. /\ Head(uiQueue) = uiQueue[1]
        /\ \A i \in DOMAIN uiQueue : i = 1 \/ (i - 1 \in DOMAIN uiQueue' /\ uiQueue'[i - 1] = uiQueue[i])
    BY <1>1, <2>1, JobsAfterTail
  <2>3. ASSUME NEW i \in DOMAIN uiQueue, uiQueue[i].kind = "check", k \in uiQueue[i].keys
        PROVE  Pending(k)'
    <3>1. CASE i = 1
      BY <2>1, <2>2, <2>3, <3>1 DEF Pending
    <3>2. CASE i # 1
      BY <2>2, <2>3, <3>2 DEF Pending
    <3> QED BY <3>1, <3>2
  <2>4. ASSUME NEW i \in DOMAIN uiQueue, uiQueue[i].kind = "estimate"
        PROVE  Pending(k)'
    <3>1. CASE i = 1
      BY <2>1, <2>2, <2>4, <3>1 DEF Pending
    <3>2. CASE i # 1
      BY <2>2, <2>4, <3>2 DEF Pending
    <3> QED BY <3>1, <3>2
  <2> QED BY <1>2, <1>3, <1>5, <2>1, <2>3, <2>4 DEF Pending
<1>6. CASE Estimate(t)
  <2>1. at'[t] = "ask" /\ keyNow' = start
    BY <1>1, <1>6 DEF Estimate, Move
  <2> QED BY <1>1, <1>2, <2>1 DEF Pending
<1>7. CASE ~(found # NoKey /\ ~Before(dir, k, found)) /\ Ask(t)
  <2>1. /\ at[t] = "ask" /\ uiQueue' = uiQueue /\ keyNow' = keyNow
        /\ ~CanStopEarly(keyNow) => at'[t] = "push"
    BY <1>1, <1>7 DEF Ask, Move
  <2>2. CanStopEarly(keyNow) => Before(dir, k, keyNow)
    BY <1>1, <1>7, StoppingEarly, OrderFacts
  <2> QED BY <1>2, <1>3, <1>7, <2>1, <2>2 DEF Pending
<1>8. CASE ~(found # NoKey /\ ~Before(dir, k, found)) /\ Push(t)
  <2> DEFINE chunk == GetChunk(keyNow)
  <2>1. at[t] = "push" /\ chunkSize \in Nat /\ chunkSize >= 2
    BY <1>8, ChunkAssumption DEF Push
  <2>2. /\ chunk \in SUBSET Keys /\ chunk \subseteq Int
        /\ chunk # {} => LastKey(chunk) \in chunk
    BY <2>1, NextChunk, KeysAreNumbers
  <2>3. ASSUME ~Before(dir, k, keyNow), k \notin chunk
        PROVE  /\ \A j \in chunk : ~Before(dir, k, j)
               /\ Cardinality(chunk) >= chunkSize /\ chunk # {}
    <3>1. /\ \A j \in chunk : Sooner(j, k)
          /\ Cardinality(chunk) >= chunkSize
      BY <1>1, <2>3, ChunkIsNext, SoonerIsBefore
    <3>2. \A j \in chunk : ~Before(dir, k, j)
      <4> HIDE DEF chunk
      <4> QED BY <1>1, <2>2, <3>1, SoonerIsBefore, OrderFacts
    <3>3. chunk # {}
      <4> HIDE DEF chunk
      <4> QED BY <2>1, <3>1, FS_EmptySet
    <3> QED BY <3>1, <3>2, <3>3
  <2>4. CASE chunk = {}
    <3>1. uiQueue' = uiQueue /\ keyNow' = keyNow
      BY <1>8, <2>4 DEF Push
    <3>2. Before(dir, k, keyNow)
      BY <2>3, <2>4
    <3> HIDE DEF chunk
    <3> QED BY <1>2, <1>3, <1>8, <2>1, <3>1, <3>2 DEF Pending
  <2>5. CASE chunk # {}
    <3>1. /\ at'[t] = "count" /\ size'[t] = Cardinality(chunk) /\ keyNow' = LastKey(chunk)
          /\ uiQueue' = Append(uiQueue, Task("check", chunk))
      BY <1>1, <1>8, <2>5 DEF Push, Goto
    <3> HIDE DEF chunk
    <3>2. /\ \A i \in DOMAIN uiQueue : i \in DOMAIN uiQueue' /\ uiQueue'[i] = uiQueue[i]
          /\ \E i \in DOMAIN uiQueue' : uiQueue'[i].kind = "check" /\ uiQueue'[i].keys = chunk
      BY <1>1, <2>2, <3>1, TaskIsTask, JobsAfterAppend
    <3>3. CASE ~Before(dir, k, keyNow) /\ k \in chunk
      BY <3>2, <3>3 DEF Pending
    <3>4. CASE ~Before(dir, k, keyNow) /\ k \notin chunk
      BY <1>2, <2>2, <2>3, <2>5, <3>1, <3>4 DEF Pending
    <3>5. CASE Before(dir, k, keyNow)
      BY <1>2, <1>3, <1>8, <2>1, <3>2, <3>5 DEF Pending
    <3> QED BY <3>3, <3>4, <3>5
  <2> QED BY <2>4, <2>5
<1>9. CASE ~(found # NoKey /\ ~Before(dir, k, found)) /\ Count(t)
  <2>1. /\ at[t] = "count" /\ uiQueue' = uiQueue /\ keyNow' = keyNow
        /\ ~(size[t] < chunkSize) => at'[t] = "ask"
    BY <1>1, <1>9 DEF Count, Goto
  <2>2. size[t] >= chunkSize => ~(size[t] < chunkSize)
    BY ChunkAssumption DEF Types, TypeOK
  <2> QED BY <1>2, <1>3, <1>9, <2>1, <2>2 DEF Pending
<1>10. CASE ~(found # NoKey /\ ~Before(dir, k, found)) /\ Finish(t)
  <2>1. at[t] = "finish" /\ uiQueue' = Append(uiQueue, Task("spin", {})) /\ keyNow' = keyNow
    BY <1>10 DEF Finish
  <2>2. \A i \in DOMAIN uiQueue : i \in DOMAIN uiQueue' /\ uiQueue'[i] = uiQueue[i]
    BY <1>1, <2>1, TaskIsTask, JobsAfterAppend
  <2> QED BY <1>2, <1>3, <1>10, <2>1, <2>2 DEF Pending
<1>11. CASE ~(found # NoKey /\ ~Before(dir, k, found)) /\ Check(t)
  <2> DEFINE j == Front(hand[t])
  <2>1. /\ at[t] = "check" /\ uiQueue' = uiQueue /\ keyNow' = keyNow /\ hand' = hand
        /\ ~CanStopEarly(j) => at'[t] = "scan"
    BY <1>1, <1>11 DEF Check, Move
  <2>2. k \in hand[t] => ~CanStopEarly(j)
    <3> SUFFICES ASSUME k \in hand[t], CanStopEarly(j) PROVE FALSE
      OBVIOUS
    <3>1. hand[t] \subseteq logs
      BY DEF Ranges, InRange
    <3>2. j \in Int /\ ~Sooner(k, j)
      BY <1>1, <3>1, FS_Subset, EndsOfChunk
    <3> HIDE DEF j
    <3> QED BY <1>1, <1>11, <3>2, StoppingEarly, OrderFacts, SoonerIsBefore
  <2> HIDE DEF j
  <2> QED BY <1>2, <1>3, <1>11, <2>1, <2>2 DEF Pending
<1>12. CASE ~(found # NoKey /\ ~Before(dir, k, found)) /\ Scan(t)
  <2> DEFINE j == Front(hand[t])
  <2>1. at[t] = "scan" /\ uiQueue' = uiQueue /\ keyNow' = keyNow
    BY <1>12 DEF Scan
  <2>2. ASSUME k \in hand[t]
        PROVE  Pending(k)'
    <3>1. hand[t] \subseteq logs
      BY DEF Ranges, InRange
    <3>2. j \in logs /\ j \in Int /\ ~Before(dir, k, j)
      BY <1>1, <2>2, <3>1, FS_Subset, EndsOfChunk, SoonerIsBefore
    <3>3. CASE j \in Matching
      <4>1. found' = Reported(j)
        BY <1>12, <2>2, <3>3 DEF Scan
      <4> HIDE DEF j
      <4>2. (found' = j \/ (found' = found /\ found # NoKey)) /\ ~Before(dir, j, found')
        BY <1>1, <3>2, <4>1, Reporting
      <4>3. found' \in Int /\ found' # NoKey
        BY <1>1, <3>2, <4>2, KeysAreNumbers DEF Types, TypeOK
      <4>4. ~Before(dir, k, found')
        BY <1>1, <3>2, <4>2, <4>3, OrderFacts
      <4> QED BY <1>2, <4>3, <4>4 DEF Pending
    <3>4. CASE j \notin Matching
      <4>1. at'[t] = "scan" /\ hand'[t] = hand[t] \ {j} /\ k # j
        BY <1>1, <1>12, <2>2, <3>4 DEF Scan, Goto
      <4> HIDE DEF j
      <4> QED BY <2>2, <4>1 DEF Pending
    <3> QED BY <3>3, <3>4
  <2> QED BY <1>2, <1>3, <1>12, <2>1, <2>2 DEF Pending
<1>13. CASE ~(found # NoKey /\ ~Before(dir, k, found)) /\ (Sum(t) \/ Done(t) \/ Spin(t))
  <2>1. at[t] \in {"sum", "done", "spin"} /\ uiQueue' = uiQueue /\ keyNow' = keyNow
    BY <1>13 DEF Sum, Done, Spin
  <2> QED BY <1>2, <1>3, <1>13, <2>1 DEF Pending
<1> QED BY <1>4, <1>5, <1>6, <1>7, <1>8, <1>9, <1>10, <1>11, <1>12, <1>13 DEF Step

LEMMA AnswerKept ==
    ASSUME Types, OneLeads, ReadAlone, Ranges, ExpectedPending, FirstIsAnswer,
           NEW t \in Threads, Step(t)
    PROVE  ExpectedPending' /\ FirstIsAnswer'
<1>1. UNCHANGED <<logs, dir, start, cancel>>
  BY StepFrame
<1>2. \A k : (IsExpected(k)' <=> IsExpected(k)) /\ (InRange(k)' <=> InRange(k))
  BY <1>1 DEF IsExpected, InRange
<1>3. CASE SetResult(t)
  <2>1. at[t] = "set" /\ answered' = TRUE /\ answer' = IF cancel THEN NoKey ELSE found
    BY <1>3 DEF SetResult
  <2>2. ASSUME ~cancel, NEW k \in Keys, IsExpected(k)
        PROVE  found # NoKey /\ ~Before(dir, k, found)
    <3>1. ~answered
      BY <2>1 DEF OneLeads, Leads
    <3>2. Pending(k)
      BY <2>2, <3>1 DEF ExpectedPending
    <3>3. /\ \A i \in DOMAIN uiQueue : uiQueue[i].kind # "check"
          /\ \A i \in DOMAIN uiQueue : uiQueue[i].kind = "check"
          /\ \A u \in Threads : at[u] \notin {"check", "scan"}
          /\ \A u \in Threads : at[u] \in Leads => u = t
      BY <2>1, <2>2 DEF ReadAlone, Jobs, WorkingOf, AtWork, OneLeads, Leads
    <3> QED BY <2>1, <3>2, <3>3 DEF Pending, Leads
  <2>3. CASE cancel
    BY <1>1, <2>1, <2>3 DEF ExpectedPending, FirstIsAnswer
  <2>4. CASE ~cancel
    <3>1. answer' = found
      BY <2>1, <2>4
    <3>2. answer' # NoKey => answer' \in Matching /\ InRange(answer')
      BY <3>1 DEF Ranges
    <3>3. \A k \in Keys : IsExpected(k) => answer' # NoKey /\ ~Before(dir, k, answer')
      BY <2>2, <2>4, <3>1
    <3> QED BY <1>1, <1>2, <2>1, <3>2, <3>3 DEF ExpectedPending, FirstIsAnswer
  <2> QED BY <2>3, <2>4
<1>4. CASE ~SetResult(t)
  <2>1. answered' = answered /\ answer' = answer
    BY <1>4 DEF Step, Take, Estimate, Ask, Push, Count, Finish, Check, Scan, Sum, Done, Spin
  <2>2. FirstIsAnswer'
    BY <1>1, <1>2, <2>1 DEF FirstIsAnswer
  <2>3. ASSUME ~cancel, ~answered, NEW k \in Keys, IsExpected(k)'
        PROVE  Pending(k)'
    BY <1>2, <1>4, <2>3, PendingKept DEF ExpectedPending
  <2> QED BY <1>1, <2>1, <2>2, <2>3 DEF ExpectedPending
<1> QED BY <1>3, <1>4

LEMMA StepKeeps ==
    ASSUME IsFiniteSet(Threads), SInv, NEW t \in Threads, Step(t)
    PROVE  SInv'
BY TypesKept, OneLeadsKept, JobsCountedKept, ReadAloneKept, RangesKept, AnswerKept DEF SInv

\* A log that arrives, which need not be one to look at.
LEMMA InsertLogKeeps ==
    ASSUME Types, OneLeads, JobsCounted, ReadAlone, Ranges, FirstIsAnswer,
           NEW key \in Keys, InsertLog(key)
    PROVE  /\ Types' /\ OneLeads' /\ JobsCounted' /\ ReadAlone' /\ Ranges' /\ FirstIsAnswer'
           /\ ExpectedPending => ExpectedPending'
<1>1. /\ logs' = logs \cup {key}
      /\ UNCHANGED <<dir, start, cancel, found, required, compares, total, finished, uiQueue,
                     at, hand, size, keyNow, sum, answered, answer>>
  BY DEF InsertLog, Inserted
<1>2. IsFiniteSet(logs')
  BY <1>1, FS_AddElement DEF Types
<1>3. Types'
  BY <1>1, <1>2 DEF Types, TypeOK
<1>4. OneLeads' /\ JobsCounted' /\ ReadAlone'
  BY <1>1 DEF OneLeads, JobsCounted, ReadAlone
<1>5. \A k : InRange(k) => InRange(k)'
  BY <1>1 DEF InRange
<1>6. Ranges'
  BY <1>1, <1>5 DEF Ranges
<1>7. \A k : IsExpected(k)' <=> IsExpected(k)
  BY <1>1 DEF IsExpected
<1>8. FirstIsAnswer'
  BY <1>1, <1>5, <1>7 DEF FirstIsAnswer
<1>9. ExpectedPending => ExpectedPending'
  <2>1. \A k : Pending(k) => Pending(k)'
    BY <1>1 DEF Pending
  <2> QED BY <1>1, <1>7, <2>1 DEF ExpectedPending
<1> QED BY <1>3, <1>4, <1>6, <1>8, <1>9

LEMMA CancelKeeps ==
    ASSUME Types, OneLeads, JobsCounted, ReadAlone, Ranges, FirstIsAnswer, Cancel
    PROVE  /\ Types' /\ OneLeads' /\ JobsCounted' /\ ReadAlone' /\ Ranges' /\ FirstIsAnswer'
           /\ ExpectedPending'
<1>1. /\ cancel' = TRUE
      /\ UNCHANGED <<logs, dir, start, found, required, compares, total, finished, uiQueue,
                     at, hand, size, keyNow, sum, answered, answer>>
  BY DEF Cancel
<1>2. Types'
  BY <1>1 DEF Types, TypeOK
<1>3. OneLeads' /\ JobsCounted' /\ ReadAlone'
  BY <1>1 DEF OneLeads, JobsCounted, ReadAlone
<1>4. \A k : InRange(k)' <=> InRange(k)
  BY <1>1 DEF InRange
<1>5. Ranges'
  BY <1>1, <1>4 DEF Ranges
<1>6. FirstIsAnswer' /\ ExpectedPending'
  BY <1>1, <1>4 DEF FirstIsAnswer, ExpectedPending, IsExpected
<1> QED BY <1>2, <1>3, <1>5, <1>6

LEMMA StutterKeeps ==
    ASSUME Types, OneLeads, JobsCounted, ReadAlone, Ranges, FirstIsAnswer, UNCHANGED vars
    PROVE  /\ Types' /\ OneLeads' /\ JobsCounted' /\ ReadAlone' /\ Ranges' /\ FirstIsAnswer'
           /\ ExpectedPending => ExpectedPending'
<1> USE DEF vars
<1>1. Types' /\ OneLeads' /\ JobsCounted' /\ ReadAlone'
  BY DEF Types, TypeOK, OneLeads, JobsCounted, ReadAlone
<1>2. \A k : (InRange(k)' <=> InRange(k)) /\ (IsExpected(k)' <=> IsExpected(k))
  BY DEF InRange, IsExpected
<1>3. Ranges' /\ FirstIsAnswer'
  BY <1>2 DEF Ranges, FirstIsAnswer
<1>4. \A k : Pending(k) => Pending(k)'
  BY DEF Pending
<1> QED BY <1>1, <1>2, <1>3, <1>4 DEF ExpectedPending

\* No thread has begun with the search.
Quiet ==
    /\ at = [t \in Threads |-> "idle"] /\ hand = [t \in Threads |-> {}]
    /\ ~answered /\ found = NoKey /\ total = 0 /\ finished = 0

LEMMA FreshIsTyped ==
    ASSUME IsFiniteSet(Present), Fresh, start \in Keys, uiQueue \in Seq(Tasks)
    PROVE  Types
<1>1. Present \subseteq Keys /\ NoKey \in Keys \cup {NoKey}
  BY KeysAssumption
<1>2. \A i \in DOMAIN uiQueue : uiQueue[i].keys \subseteq Keys
  BY TasksInQueue
<1>3. /\ at \in [Threads -> {"idle", "estimate", "ask", "push", "count", "finish",
                             "check", "scan", "sum", "done", "spin", "set"}]
      /\ hand \in [Threads -> SUBSET Keys] /\ size \in [Threads -> Nat]
  BY DEF Fresh
<1>4. /\ logs = Present /\ dir \in {"Forward", "Backward"}
      /\ cancel = FALSE /\ answered = FALSE
      /\ found = NoKey /\ keyNow = NoKey /\ answer = NoKey
      /\ required = 0 /\ compares = 0 /\ total = 0 /\ finished = 0 /\ sum = 0
  BY DEF Fresh
<1>5. logs \subseteq Keys
  BY <1>1, <1>4
<1>6. cancel \in BOOLEAN /\ answered \in BOOLEAN
  BY <1>4
<1>7. {found, keyNow, answer} \subseteq Keys \cup {NoKey}
  BY <1>4
<1>8. {required, compares, total, finished, sum} \subseteq Nat
  BY <1>4
<1>9. TypeOK
  BY <1>2, <1>3, <1>4, <1>5, <1>6, <1>7, <1>8, Zenon DEF TypeOK
<1> QED BY <1>4, <1>9 DEF Types

\* A search that begins: with the task that search() enqueues, or without it.
BeginsWell(q) ==
    Quiet /\ uiQueue = q =>
        /\ OneLeads /\ JobsCounted /\ ReadAlone /\ Ranges /\ FirstIsAnswer
        /\ (q # <<>> => ExpectedPending)

LEMMA BeginningKeeps == \A q \in {<<>>, <<FirstTask>>} : BeginsWell(q)
<1> SUFFICES ASSUME NEW q \in {<<>>, <<FirstTask>>}, Quiet, uiQueue = q
             PROVE  /\ OneLeads /\ JobsCounted /\ ReadAlone /\ Ranges /\ FirstIsAnswer
                    /\ (q # <<>> => ExpectedPending)
  BY DEF BeginsWell
<1> USE DEF Quiet
<1>1. /\ FirstTask.kind = "estimate" /\ FirstTask.keys = {}
  BY DEF FirstTask, Task
<1>2. \A i \in DOMAIN uiQueue : i = 1 /\ uiQueue[i] = FirstTask
  OBVIOUS
<1>3. \A t \in Threads : at[t] \notin Leads /\ at[t] \notin AtWork /\ hand[t] = {}
  BY DEF Leads, AtWork
<1>4. OneLeads /\ ReadAlone
  BY <1>2, <1>3 DEF OneLeads, ReadAlone, Leads
<1>5. JobsCounted
  <2>1. Jobs(uiQueue) = {} /\ WorkingOf(at) = {} /\ UncountedOf(at) = 0
    BY <1>1, <1>2, <1>3 DEF Jobs, WorkingOf, UncountedOf
  <2>2. Cardinality({}) = 0
    BY FS_EmptySet
  <2>3. total + 0 = finished + 0 + 0
    OBVIOUS
  <2> QED BY <2>1, <2>2, <2>3 DEF JobsCounted
<1>6. Ranges
  BY <1>1, <1>2, <1>3 DEF Ranges
<1>7. q # <<>> => ExpectedPending
  <2> SUFFICES ASSUME q # <<>> PROVE \E i \in DOMAIN uiQueue : uiQueue[i].kind = "estimate"
    BY DEF ExpectedPending, Pending
  <2>1. uiQueue = <<FirstTask>>
    OBVIOUS
  <2>2. 1 \in DOMAIN uiQueue /\ uiQueue[1] = FirstTask
    BY <2>1
  <2> QED BY <1>1, <2>2
<1> QED BY <1>4, <1>5, <1>6, <1>7 DEF FirstIsAnswer

LEMMA FirstTaskIsTask == FirstTask \in Tasks /\ <<FirstTask>> \in Seq(Tasks) /\ <<>> \in Seq(Tasks)
<1>1. FirstTask \in Tasks
  BY TaskIsTask DEF FirstTask
<1> QED BY <1>1

LEMMA SInvIsInv ==
    ASSUME Types, ReadAlone, Ranges, FirstIsAnswer
    PROVE  Inv /\ AnswerIsFirst
<1>1. AnswerReadAlone
  BY DEF AnswerReadAlone, ReadAlone, WorkingOf, AtWork
<1>2. AnswerIsFirst
  <2>1. /\ Expected = {k \in Keys : IsExpected(k)}
        /\ \A j, k : Sooner(j, k) = Before(dir, j, k)
    BY ExpectedIsExpected, SoonerIsBefore DEF Types, TypeOK
  <2> QED BY <2>1 DEF AnswerIsFirst, FirstIsAnswer, InRange
<1> QED BY <1>1, <1>2 DEF Inv, Types

-----------------------------------------------------------------------------
\* A search, called from anywhere: with any number of threads and any chunk size
\* from two on, it gives the first match among the logs that were there when it was
\* called, or "not found" only if there is none or it was canceled, and reads its
\* answer when no job is left (Search.cpp).
THEOREM AnswerIsFirstMatch ==
    ASSUME IsFiniteSet(Present), IsFiniteSet(Threads)
    PROVE  Spec => [](Inv /\ AnswerIsFirst)
<1>1. Init => SInv
  <2> SUFFICES ASSUME Init PROVE SInv
    OBVIOUS
  <2>1. Fresh /\ start \in Keys /\ uiQueue = <<FirstTask>>
    BY DEF Init
  <2>2. Types
    BY <2>1, FirstTaskIsTask, FreshIsTyped
  <2>3. Quiet
    BY <2>1 DEF Fresh, Quiet
  <2> QED BY <2>1, <2>2, <2>3, BeginningKeeps DEF SInv, BeginsWell
<1>2. SInv /\ [Next]_vars => SInv'
  <2> SUFFICES ASSUME SInv, [Next]_vars PROVE SInv'
    OBVIOUS
  <2>1. ASSUME NEW t \in Threads, Step(t) PROVE SInv'
    BY <2>1, StepKeeps
  <2>2. CASE Cancel
    BY <2>2, CancelKeeps DEF SInv
  <2>3. ASSUME NEW k \in Keys, InsertLog(k) PROVE SInv'
    BY <2>3, InsertLogKeeps DEF SInv
  <2>4. CASE UNCHANGED vars
    BY <2>4, StutterKeeps DEF SInv
  <2> QED BY <2>1, <2>2, <2>3, <2>4 DEF Next
<1>3. SInv => Inv /\ AnswerIsFirst
  BY SInvIsInv DEF SInv
<1> QED BY <1>1, <1>2, <1>3, PTL DEF Spec

-----------------------------------------------------------------------------
(* The search screen.                                                      *)

\* advanceByOne() gives the log next to the selected one, if there is one.
LEMMA BesideIsNext ==
    ASSUME IsFiniteSet(logs), logs \subseteq Int, NoKey \notin logs, NEW key \in logs
    PROVE  IF Beside(key) = NoKey THEN \A k \in logs : ~Before(dir, key, k)
           ELSE /\ Beside(key) \in logs /\ Before(dir, key, Beside(key))
                /\ \A k \in logs : Before(dir, key, k) => ~Before(dir, k, Beside(key))
<1>1. CASE dir = "Forward"
  <2> DEFINE D == From(logs, key, 2)
  <2>1. IF Cardinality(D) < 2 THEN \A k \in logs : ~(key < k)
        ELSE /\ Last(D) \in logs /\ key < Last(D)
             /\ \A k \in logs : key < k => Last(D) <= k
    BY TwoFromALog
  <2>2. Beside(key) = IF Cardinality(D) < 2 THEN NoKey ELSE Last(D)
    BY <1>1 DEF Beside
  <2>3. CASE Cardinality(D) < 2
    <3>1. \A k \in logs : ~Before(dir, key, k)
      BY <1>1, <2>1, <2>3 DEF Before
    <3> HIDE DEF D
    <3> QED BY <2>2, <2>3, <3>1
  <2>4. CASE ~(Cardinality(D) < 2)
    <3>1. Beside(key) = Last(D) /\ Last(D) \in logs /\ Last(D) \in Int
      BY <2>1, <2>2, <2>4
    <3> HIDE DEF D
    <3>2. Before(dir, key, Beside(key))
      BY <1>1, <2>1, <2>4, <3>1 DEF Before
    <3>3. \A k \in logs : Before(dir, key, k) => ~Before(dir, k, Beside(key))
      BY <1>1, <2>1, <2>4, <3>1 DEF Before
    <3> QED BY <3>1, <3>2, <3>3
  <2> QED BY <2>3, <2>4
<1>2. CASE dir # "Forward"
  <2> DEFINE D == To(logs, key, 2)
  <2>1. IF Cardinality(D) < 2 THEN \A k \in logs : ~(k < key)
        ELSE /\ First(D) \in logs /\ First(D) < key
             /\ \A k \in logs : k < key => k <= First(D)
    BY TwoToALog
  <2>2. Beside(key) = IF Cardinality(D) < 2 THEN NoKey ELSE First(D)
    BY <1>2 DEF Beside
  <2>3. CASE Cardinality(D) < 2
    <3>1. \A k \in logs : ~Before(dir, key, k)
      BY <1>2, <2>1, <2>3 DEF Before
    <3> HIDE DEF D
    <3> QED BY <2>2, <2>3, <3>1
  <2>4. CASE ~(Cardinality(D) < 2)
    <3>1. Beside(key) = First(D) /\ First(D) \in logs /\ First(D) \in Int
      BY <2>1, <2>2, <2>4
    <3> HIDE DEF D
    <3>2. Before(dir, key, Beside(key))
      BY <1>2, <2>1, <2>4, <3>1 DEF Before
    <3>3. \A k \in logs : Before(dir, key, k) => ~Before(dir, k, Beside(key))
      BY <1>2, <2>1, <2>4, <3>1 DEF Before
    <3> QED BY <3>1, <3>2, <3>3
  <2> QED BY <2>3, <2>4
<1> QED BY <1>1, <1>2

\* No search has been started, and perhaps none will be: nothing is beyond.
NotBegun ==
    /\ Quiet /\ uiQueue = <<>>
    /\ \/ ui = "asked" /\ result = "none"
       \/ /\ ui = "done" /\ result = "notFound"
          /\ \A k \in Present : ~Before(dir, selection, k)

\* A search from the log next to the selected one, and what is made of its answer.
Begun ==
    /\ ui \in {"early", "bar", "translate", "done"}
    /\ ExpectedPending
    /\ Before(dir, selection, start)
    /\ \A k \in Present : Before(dir, selection, k) => ~Before(dir, k, start)
    /\ ui = "translate" => answered
    /\ result = "found" => answered /\ answer # NoKey
    /\ result = "notFound" => answered /\ answer = NoKey /\ ~cancel

Sound == Types /\ OneLeads /\ JobsCounted /\ ReadAlone /\ Ranges /\ FirstIsAnswer

ScreenInv == Sound /\ selection \in Present /\ (NotBegun \/ Begun)

LEMMA AnswerStays ==
    ASSUME OneLeads, answered, NEW t \in Threads, Step(t)
    PROVE  UNCHANGED <<answered, answer>>
<1>1. at[t] # "set"
  BY DEF OneLeads, Leads
<1> QED BY <1>1 DEF Step, Take, Estimate, Ask, Push, Count, Finish, Check, Scan, Sum, Done,
                    Spin, SetResult

\* The threads and the logs do not disturb what the screen knows.
LEMMA BackgroundKeeps ==
    ASSUME IsFiniteSet(Threads), ScreenInv, UNCHANGED screenVars,
           (\E t \in Threads : Step(t)) \/ (\E k \in Keys : InsertLog(k))
    PROVE  ScreenInv'
<1>1. UNCHANGED <<selection, ui, result>>
  BY DEF screenVars
<1>2. ASSUME NEW t \in Threads, Step(t)
      PROVE  ScreenInv'
  <2>1. ~NotBegun
    BY <1>2 DEF NotBegun, Quiet, Step, Take, Estimate, Ask, Push, Count, Finish, Check, Scan,
                Sum, Done, Spin, SetResult
  <2>2. Begun
    BY <2>1 DEF ScreenInv
  <2>3. SInv'
    BY <1>2, <2>2, StepKeeps DEF ScreenInv, Sound, Begun, SInv
  <2>4. UNCHANGED <<dir, start, cancel>> /\ (answered => UNCHANGED <<answered, answer>>)
    BY <1>2, StepFrame, AnswerStays DEF ScreenInv, Sound
  <2>5. Begun'
    BY <1>1, <2>2, <2>3, <2>4 DEF Begun, SInv
  <2> QED BY <1>1, <2>3, <2>5 DEF ScreenInv, Sound, SInv
<1>3. ASSUME NEW k \in Keys, InsertLog(k)
      PROVE  ScreenInv'
  <2>1. Sound' /\ (ExpectedPending => ExpectedPending')
    BY <1>3, InsertLogKeeps DEF ScreenInv, Sound
  <2>2. UNCHANGED <<dir, start, cancel, found, total, finished, uiQueue, at, hand, answered, answer>>
    BY <1>3 DEF InsertLog, callVars, countVars, threadVars, resultVars
  <2>3. (NotBegun => NotBegun') /\ (Begun => Begun')
    BY <1>1, <2>1, <2>2 DEF NotBegun, Begun, Quiet
  <2> QED BY <1>1, <2>1, <2>3 DEF ScreenInv
<1> QED BY <1>2, <1>3

\* The screen moves on, and leaves the search alone.
LEMMA ScreenMovesKeep ==
    ASSUME ScreenInv, UNCHANGED <<vars, selection>>,
           Early \/ Late \/ Progress \/ Translate \/ UNCHANGED screenVars
    PROVE  ScreenInv'
<1>1. Sound' /\ (ExpectedPending => ExpectedPending')
  BY StutterKeeps DEF ScreenInv, Sound
<1>2. UNCHANGED <<dir, start, cancel, found, total, finished, uiQueue, at, hand, answered, answer>>
  BY DEF vars, callVars, countVars, threadVars, resultVars
<1>3. CASE UNCHANGED screenVars
  <2>1. (NotBegun => NotBegun') /\ (Begun => Begun')
    BY <1>1, <1>2, <1>3 DEF screenVars, NotBegun, Begun, Quiet
  <2> QED BY <1>1, <2>1 DEF ScreenInv
<1>4. CASE Early \/ Late \/ Progress \/ Translate
  <2>1. ui \in {"early", "bar", "translate"}
    BY <1>4 DEF Early, Late, Progress, Translate
  <2>2. Begun
    BY <2>1 DEF ScreenInv, NotBegun
  <2>3. /\ ui' \in {"early", "bar", "translate", "done"}
        /\ ui' = "translate" => answered
        /\ result' = "found" => answered /\ answer # NoKey
        /\ result' = "notFound" => answered /\ answer = NoKey /\ ~cancel
    BY <1>4, <2>2 DEF Begun, Early, Late, Progress, Translate, Return
  <2>4. Begun'
    BY <1>1, <1>2, <2>2, <2>3 DEF Begun
  <2> QED BY <1>1, <2>4 DEF ScreenInv
<1> QED BY <1>3, <1>4

LEMMA TriggerKeeps ==
    ASSUME ScreenInv, Trigger
    PROVE  ScreenInv'
<1>1. Quiet /\ uiQueue = <<>> /\ ui = "asked" /\ result = "none"
  BY DEF ScreenInv, NotBegun, Begun, Trigger
<1>2. UNCHANGED <<logs, dir, cancel, found, required, compares, total, finished, at, hand, size,
                  keyNow, sum, answered, answer, selection>>
  BY DEF Trigger, countVars, threadVars, localVars, resultVars
<1>3. IsFiniteSet(logs) /\ logs \subseteq Keys /\ Present \subseteq logs /\ selection \in Present
  BY DEF ScreenInv, Sound, Types, TypeOK
<1>4. IF Beside(selection) = NoKey THEN \A k \in logs : ~Before(dir, selection, k)
      ELSE /\ Beside(selection) \in logs /\ Before(dir, selection, Beside(selection))
           /\ \A k \in logs : Before(dir, selection, k) => ~Before(dir, k, Beside(selection))
  BY <1>3, KeysAreNumbers, BesideIsNext
<1>5. CASE Beside(selection) = NoKey
  <2>1. /\ UNCHANGED <<start, uiQueue>> /\ ui' = "done" /\ result' = "notFound"
    BY <1>5 DEF Trigger, Return
  <2>2. UNCHANGED vars
    BY <1>2, <2>1 DEF vars, callVars, countVars, threadVars, localVars, resultVars
  <2>3. Sound'
    BY <2>2, StutterKeeps DEF ScreenInv, Sound
  <2>4. NotBegun'
    BY <1>1, <1>2, <1>3, <1>4, <1>5, <2>1 DEF NotBegun, Quiet
  <2> QED BY <1>2, <1>3, <2>3, <2>4 DEF ScreenInv
<1>6. CASE Beside(selection) # NoKey
  <2>1. /\ start' = Beside(selection) /\ ui' = "early" /\ result' = "none"
        /\ uiQueue' = Append(<<>>, FirstTask)
    BY <1>1, <1>6 DEF Trigger
  <2>2. uiQueue' = <<FirstTask>> /\ start' \in Keys
    BY <1>3, <1>4, <1>6, <2>1
  <2>3. Types'
    <3>1. uiQueue' \in Seq(Tasks)
      BY <2>2, FirstTaskIsTask
    <3>2. \A i \in DOMAIN uiQueue' : uiQueue'[i].keys \subseteq Keys
      BY <2>2 DEF FirstTask, Task
    <3> QED BY <1>2, <2>2, <3>1, <3>2 DEF ScreenInv, Sound, Types, TypeOK
  <2>4. Quiet'
    BY <1>1, <1>2 DEF Quiet
  <2>5. (\A q \in {<<>>, <<FirstTask>>} : BeginsWell(q))'
    BY BeginningKeeps, PTL
  <2>6. Sound' /\ ExpectedPending'
    BY <2>2, <2>3, <2>4, <2>5 DEF Sound, BeginsWell
  <2>7. Begun'
    BY <1>2, <1>3, <1>4, <1>6, <2>1, <2>6 DEF Begun
  <2> QED BY <1>2, <1>3, <2>6, <2>7 DEF ScreenInv
<1> QED BY <1>5, <1>6

LEMMA AbortKeeps ==
    ASSUME ScreenInv, Abort
    PROVE  ScreenInv'
<1>1. Cancel /\ ui = "bar" /\ ui' = "done" /\ result' = "canceled" /\ selection' = selection
  BY DEF Abort, Return
<1>2. Begun
  BY <1>1 DEF ScreenInv, NotBegun
<1>3. Sound' /\ ExpectedPending'
  BY <1>1, CancelKeeps DEF ScreenInv, Sound
<1>4. UNCHANGED <<dir, start>>
  BY <1>1 DEF Cancel, callVars
<1>5. Begun'
  BY <1>1, <1>2, <1>3, <1>4 DEF Begun
<1> QED BY <1>1, <1>3, <1>5 DEF ScreenInv

LEMMA ScreenInvIsNext ==
    ASSUME ScreenInv
    PROVE  ResultIsNext
<1>1. AnswerIsFirst
  BY SInvIsInv DEF ScreenInv, Sound
<1>2. /\ selection \in Int /\ start \in Int /\ Present \subseteq Keys /\ Keys \subseteq Int
  BY KeysAreNumbers DEF ScreenInv, Sound, Types, TypeOK
<1>3. \A k : Beyond(k) = Before(dir, selection, k)
  BY SoonerIsBefore DEF Beyond
<1>4. ASSUME Begun, NEW k \in Present \cap Matching, Before(dir, selection, k)
      PROVE  k \in Keys /\ IsExpected(k)
  BY <1>2, <1>4 DEF Begun, IsExpected
<1>5. ASSUME result = "found"
      PROVE  /\ answer \in logs \cap Matching /\ Beyond(answer)
             /\ \A k \in Present \cap Matching : Beyond(k) => ~Sooner(k, answer)
  <2>1. Begun /\ answered /\ answer # NoKey
    BY <1>5 DEF ScreenInv, NotBegun, Begun
  <2>2. /\ answer \in Matching /\ InRange(answer) /\ Before(dir, selection, start)
        /\ \A k \in Keys : IsExpected(k) => ~Before(dir, k, answer)
    BY <2>1 DEF ScreenInv, Sound, FirstIsAnswer, Begun
  <2>3. answer \in logs /\ answer \in Int /\ ~Before(dir, answer, start)
    BY <1>2, <2>2 DEF InRange, ScreenInv, Sound, Types, TypeOK
  <2>4. Before(dir, selection, answer)
    BY <1>2, <2>2, <2>3 DEF Before
  <2> QED BY <1>3, <1>4, <2>1, <2>2, <2>3, <2>4, SoonerIsBefore
<1>6. ASSUME result = "notFound", NEW k \in Present \cap Matching
      PROVE  ~Beyond(k)
  <2>1. CASE NotBegun
    BY <1>3, <1>6, <2>1 DEF NotBegun
  <2>2. CASE Begun
    BY <1>3, <1>4, <1>6, <2>2 DEF ScreenInv, Sound, FirstIsAnswer, Begun
  <2> QED BY <2>1, <2>2 DEF ScreenInv
<1> QED BY <1>1, <1>5, <1>6 DEF ResultIsNext

LEMMA ScreenBegins ==
    ASSUME IsFiniteSet(Present)
    PROVE  ScreenInit => ScreenInv
<1> SUFFICES ASSUME ScreenInit PROVE ScreenInv
  OBVIOUS
<1>1. Fresh /\ selection \in Present /\ start \in Keys /\ uiQueue = <<>>
  BY KeysAreNumbers DEF ScreenInit
<1>2. Types
  BY <1>1, FirstTaskIsTask, FreshIsTyped
<1>3. Quiet
  BY <1>1 DEF Fresh, Quiet
<1>4. Sound
  BY <1>1, <1>2, <1>3, BeginningKeeps DEF Sound, BeginsWell
<1> QED BY <1>1, <1>3, <1>4 DEF ScreenInit, ScreenInv, NotBegun

\* A step of the screen that leaves the search alone.
ScreenMoves == Early \/ Late \/ Progress \/ Translate \/ UNCHANGED allVars

LEMMA ScreenMovesFrame ==
    ASSUME ScreenMoves
    PROVE  UNCHANGED <<vars, selection>>
BY DEF ScreenMoves, Early, Late, Progress, Translate, searchVars, allVars, screenVars

LEMMA ScreenStepKeeps ==
    ASSUME IsFiniteSet(Threads), ScreenInv, [ScreenNext]_allVars
    PROVE  ScreenInv'
<1>1. CASE Trigger
  BY <1>1, TriggerKeeps
<1>2. CASE ScreenMoves
  <2>1. UNCHANGED <<vars, selection>>
    BY <1>2, ScreenMovesFrame
  <2>2. Early \/ Late \/ Progress \/ Translate \/ UNCHANGED screenVars
    BY <1>2 DEF ScreenMoves, allVars
  <2> QED BY <2>1, <2>2, ScreenMovesKeep
<1>3. CASE Abort
  BY <1>3, AbortKeeps
<1>4. CASE ((\E t \in Threads : Step(t)) \/ (\E k \in Keys : InsertLog(k)))
           /\ UNCHANGED screenVars
  BY <1>4, BackgroundKeeps
<1> QED BY <1>1, <1>2, <1>3, <1>4 DEF ScreenNext, Screen, ScreenMoves

\* The user's search ("next match", "previous match"): the status and the log the
\* screen makes of an answer are those of the next match beyond the selected log,
\* whatever is canceled or arrives meanwhile (Screen/Search.cpp).
THEOREM UserGetsNextMatch ==
    ASSUME IsFiniteSet(Present), IsFiniteSet(Threads)
    PROVE  ScreenSpec => []ResultIsNext
<1>1. ScreenInv => ResultIsNext
  BY ScreenInvIsNext
<1>2. ScreenInv /\ [ScreenNext]_allVars => ScreenInv'
  BY ScreenStepKeeps
<1> QED BY ScreenBegins, <1>1, <1>2, PTL DEF ScreenSpec

-----------------------------------------------------------------------------
(* The progress bar: what the jobs have compared and what those in the     *)
(* queue and at work have still to add is not more than what was cut.      *)

Searching == {"check", "scan", "sum"}

\* The logs of the chunks in the queue, each with its place, and as many marks
\* for each thread that searches as the chunk it took had logs.
QueueLogs(q) == {x \in (DOMAIN q) \X Keys : q[x[1]].kind = "check" /\ x[2] \in q[x[1]].keys}
ThreadLogs(pl, sz) == {x \in Threads \X Nat : pl[x[1]] \in Searching /\ x[2] \in 1 .. sz[x[1]]}

\* The chunks are cut, and the end of the bar is known.
CutOff ==
    \/ answered
    \/ \E t \in Threads : at[t] \in {"spin", "set"}
    \/ \E i \in DOMAIN uiQueue : uiQueue[i].kind = "spin"

Owed ==
    /\ IsFiniteSet(QueueLogs(uiQueue)) /\ IsFiniteSet(ThreadLogs(at, size))
    /\ compares + Cardinality(QueueLogs(uiQueue)) + Cardinality(ThreadLogs(at, size)) <= sum
    /\ CutOff => required = sum

LEMMA RowOfLogs ==
    ASSUME NEW i, NEW S, IsFiniteSet(S)
    PROVE  IsFiniteSet({i} \X S) /\ Cardinality({i} \X S) = Cardinality(S)
<1>1. IsFiniteSet({i}) /\ Cardinality({i}) = 1
  BY FS_Singleton
<1>2. IsFiniteSet({i} \X S) /\ Cardinality({i} \X S) = 1 * Cardinality(S)
  BY <1>1, FS_Product
<1>3. Cardinality(S) \in Nat
  BY FS_CardinalityType
<1> QED BY <1>2, <1>3

LEMMA RowApart ==
    ASSUME NEW R, NEW i, NEW S, IsFiniteSet(R), IsFiniteSet(S), \A x \in R : x[1] # i
    PROVE  /\ IsFiniteSet(R \cup ({i} \X S))
           /\ Cardinality(R \cup ({i} \X S)) = Cardinality(R) + Cardinality(S)
<1>1. PICK Row : Row = {i} \X S
  OBVIOUS
<1>2. IsFiniteSet(Row) /\ Cardinality(Row) = Cardinality(S)
  BY <1>1, RowOfLogs
<1>3. R \cap Row = {}
  BY <1>1
<1>4. /\ IsFiniteSet(R \cup Row)
      /\ Cardinality(R \cup Row) = Cardinality(R) + Cardinality(Row) - Cardinality(R \cap Row)
  BY <1>2, FS_Union
<1>5. Cardinality(R \cap Row) = 0 /\ Cardinality(R) \in Nat /\ Cardinality(Row) \in Nat
  BY <1>2, <1>3, FS_EmptySet, FS_CardinalityType
<1> QED BY <1>1, <1>2, <1>4, <1>5

LEMMA QueueLogsAppend ==
    ASSUME NEW q \in Seq(Tasks), NEW task \in Tasks, IsFiniteSet(QueueLogs(q)),
           IsFiniteSet(task.keys)
    PROVE  /\ IsFiniteSet(QueueLogs(Append(q, task)))
           /\ Cardinality(QueueLogs(Append(q, task))) =
                 Cardinality(QueueLogs(q))
                     + (IF task.kind = "check" THEN Cardinality(task.keys) ELSE 0)
<1>1. PICK r, n : r = Append(q, task) /\ n = Len(q) + 1
  OBVIOUS
<1>2. /\ r \in Seq(Tasks) /\ n \in Nat /\ DOMAIN r = 1 .. n /\ DOMAIN q = 1 .. n - 1
      /\ r[n] = task /\ \A i \in 1 .. n - 1 : r[i] = q[i]
  BY <1>1
<1>3. n \in 1 .. n /\ n \notin 1 .. n - 1 /\ \A i \in 1 .. n : i = n \/ i \in 1 .. n - 1
  BY <1>1, <1>2
<1>4. task.keys \subseteq Keys
  BY DEF Tasks
<1>5. Cardinality(QueueLogs(q)) \in Nat
  BY FS_CardinalityType
<1>6. CASE task.kind = "check"
  <2>1. QueueLogs(r) = QueueLogs(q) \cup ({n} \X task.keys)
    <3>1. QueueLogs(r) \subseteq QueueLogs(q) \cup ({n} \X task.keys)
      BY <1>2, <1>3 DEF QueueLogs
    <3>2. QueueLogs(q) \subseteq QueueLogs(r)
      BY <1>2, <1>3 DEF QueueLogs
    <3>3. {n} \X task.keys \subseteq QueueLogs(r)
      BY <1>2, <1>3, <1>4, <1>6 DEF QueueLogs
    <3> QED BY <3>1, <3>2, <3>3
  <2>2. \A x \in QueueLogs(q) : x[1] # n
    BY <1>2, <1>3 DEF QueueLogs
  <2>3. /\ IsFiniteSet(QueueLogs(q) \cup ({n} \X task.keys))
        /\ Cardinality(QueueLogs(q) \cup ({n} \X task.keys)) =
              Cardinality(QueueLogs(q)) + Cardinality(task.keys)
    BY <2>2, RowApart
  <2> QED BY <1>1, <1>6, <2>1, <2>3
<1>7. CASE task.kind # "check"
  <2>1. QueueLogs(r) = QueueLogs(q)
    BY <1>2, <1>3, <1>7 DEF QueueLogs
  <2> QED BY <1>1, <1>5, <1>7, <2>1
<1> QED BY <1>6, <1>7

LEMMA QueueLogsTail ==
    ASSUME NEW q \in Seq(Tasks), q # <<>>, IsFiniteSet(QueueLogs(q)),
           IsFiniteSet(Head(q).keys)
    PROVE  /\ IsFiniteSet(QueueLogs(Tail(q)))
           /\ Cardinality(QueueLogs(q)) =
                 Cardinality(QueueLogs(Tail(q)))
                     + (IF Head(q).kind = "check" THEN Cardinality(Head(q).keys) ELSE 0)
<1>1. PICK r, task : r = Tail(q) /\ task = Head(q)
  OBVIOUS
<1>2. /\ r \in Seq(Tasks) /\ task \in Tasks /\ 1 \in DOMAIN q /\ task = q[1]
      /\ \A i \in DOMAIN r : i \in Nat /\ i + 1 \in DOMAIN q /\ i + 1 # 1 /\ r[i] = q[i + 1]
      /\ \A i \in DOMAIN q : i = 1 \/ (i - 1 \in DOMAIN r /\ r[i - 1] = q[i])
      /\ DOMAIN q \subseteq Nat
  BY <1>1, JobsAfterTail
<1> DEFINE Later == {x \in QueueLogs(q) : x[1] # 1}
           f == [x \in QueueLogs(r) |-> <<x[1] + 1, x[2]>>]
<1>3. IsFiniteSet(Later)
  BY FS_Subset
<1>4. f \in Bijection(QueueLogs(r), Later)
  <2>1. ASSUME NEW x \in QueueLogs(r)
        PROVE  f[x] \in Later
    <3>1. x[1] \in DOMAIN r /\ x[2] \in Keys /\ r[x[1]].kind = "check" /\ x[2] \in r[x[1]].keys
      BY DEF QueueLogs
    <3>2. PICK i, k : i = x[1] + 1 /\ k = x[2]
      OBVIOUS
    <3>3. i \in DOMAIN q /\ k \in Keys /\ q[i].kind = "check" /\ k \in q[i].keys /\ i # 1
      BY <1>2, <3>1, <3>2
    <3>4. <<i, k>> \in QueueLogs(q)
      BY <3>3 DEF QueueLogs
    <3> QED BY <3>2, <3>3, <3>4
  <2>2. f \in [QueueLogs(r) -> Later]
    BY <2>1
  <2>3. \A x, y \in QueueLogs(r) : f[x] = f[y] => x = y
    <3> SUFFICES ASSUME NEW x \in QueueLogs(r), NEW y \in QueueLogs(r), f[x] = f[y]
                 PROVE  x = y
      OBVIOUS
    <3>1. x[1] \in Nat /\ y[1] \in Nat /\ x = <<x[1], x[2]>> /\ y = <<y[1], y[2]>>
      BY <1>2 DEF QueueLogs
    <3>2. x[1] + 1 = y[1] + 1 /\ x[2] = y[2]
      OBVIOUS
    <3> QED BY <3>1, <3>2
  <2>4. \A y \in Later : \E x \in QueueLogs(r) : f[x] = y
    <3> SUFFICES ASSUME NEW y \in Later
                 PROVE  \E x \in QueueLogs(r) : f[x] = y
      OBVIOUS
    <3>1. PICK i, k : y = <<i, k>> /\ i \in DOMAIN q /\ k \in Keys /\ q[i].kind = "check"
                      /\ k \in q[i].keys /\ i # 1
      BY DEF QueueLogs
    <3>2. i - 1 \in DOMAIN r /\ r[i - 1] = q[i] /\ i \in Nat
      BY <1>2, <3>1
    <3>3. <<i - 1, k>> \in QueueLogs(r)
      BY <3>1, <3>2 DEF QueueLogs
    <3>4. f[<<i - 1, k>>] = <<(i - 1) + 1, k>>
      BY <3>3
    <3>5. (i - 1) + 1 = i
      BY <3>2
    <3> QED BY <3>1, <3>3, <3>4, <3>5
  <2> HIDE DEF f
  <2> QED BY <2>2, <2>3, <2>4, Fun_IsBij
<1>5. IsFiniteSet(QueueLogs(r)) /\ Cardinality(QueueLogs(r)) = Cardinality(Later)
  <2>1. ExistsBijection(QueueLogs(r), Later)
    BY <1>4 DEF ExistsBijection
  <2>2. ExistsBijection(Later, QueueLogs(r))
    BY <2>1, Fun_ExistsBijSymmetric
  <2> QED BY <1>3, <2>2, FS_Bijection
<1>6. CASE task.kind = "check"
  <2>1. task.keys \subseteq Keys
    BY <1>2 DEF Tasks
  <2>2. QueueLogs(q) = Later \cup ({1} \X task.keys)
    <3>1. {1} \X task.keys \subseteq QueueLogs(q)
      BY <1>2, <1>6, <2>1 DEF QueueLogs
    <3>2. QueueLogs(q) \subseteq Later \cup ({1} \X task.keys)
      BY <1>2 DEF QueueLogs
    <3> QED BY <3>1, <3>2
  <2>3. \A x \in Later : x[1] # 1
    OBVIOUS
  <2> HIDE DEF Later
  <2>4. Cardinality(Later \cup ({1} \X task.keys)) = Cardinality(Later) + Cardinality(task.keys)
    <3>1. PICK R, S : R = Later /\ S = task.keys
      OBVIOUS
    <3>2. IsFiniteSet(R) /\ IsFiniteSet(S) /\ \A x \in R : x[1] # 1
      BY <1>1, <1>3, <2>3, <3>1
    <3> QED BY <3>1, <3>2, RowApart
  <2> QED BY <1>1, <1>5, <1>6, <2>2, <2>4
<1>7. CASE task.kind # "check"
  <2>1. Later = QueueLogs(q)
    BY <1>2, <1>7 DEF QueueLogs
  <2>2. Cardinality(QueueLogs(q)) \in Nat
    BY FS_CardinalityType
  <2> HIDE DEF Later
  <2> QED BY <1>1, <1>5, <1>7, <2>1, <2>2
<1> QED BY <1>6, <1>7

\* The marks of one thread, and those of the others.
Others(t, pl, sz) == {x \in ThreadLogs(pl, sz) : x[1] # t}

LEMMA ThreadLogsOf ==
    ASSUME NEW pl, NEW sz \in [Threads -> Nat], NEW t \in Threads,
           IsFiniteSet(Others(t, pl, sz))
    PROVE  /\ IsFiniteSet(ThreadLogs(pl, sz))
           /\ Cardinality(ThreadLogs(pl, sz)) =
                 Cardinality(Others(t, pl, sz)) + (IF pl[t] \in Searching THEN sz[t] ELSE 0)
<1>0. PICK R : R = Others(t, pl, sz)
  OBVIOUS
<1>1. PICK n \in Nat : n = sz[t]
  OBVIOUS
<1>2. IsFiniteSet(1 .. n) /\ Cardinality(1 .. n) = n
  BY FS_Interval
<1>3. Cardinality(R) \in Nat
  BY <1>0, FS_CardinalityType
<1>4. CASE pl[t] \in Searching
  <2>1. ThreadLogs(pl, sz) = R \cup ({t} \X (1 .. n))
    <3>1. {t} \X (1 .. n) \subseteq ThreadLogs(pl, sz)
      BY <1>1, <1>4 DEF ThreadLogs
    <3>2. ThreadLogs(pl, sz) \subseteq R \cup ({t} \X (1 .. n))
      BY <1>0, <1>1 DEF ThreadLogs, Others
    <3>3. R \subseteq ThreadLogs(pl, sz)
      BY <1>0 DEF Others
    <3> QED BY <3>1, <3>2, <3>3
  <2>2. \A x \in R : x[1] # t
    BY <1>0 DEF Others
  <2>3. /\ IsFiniteSet(R \cup ({t} \X (1 .. n)))
        /\ Cardinality(R \cup ({t} \X (1 .. n))) = Cardinality(R) + Cardinality(1 .. n)
    <3>1. PICK S : S = 1 .. n
      OBVIOUS
    <3>2. IsFiniteSet(R) /\ IsFiniteSet(S)
      BY <1>0, <1>2, <3>1
    <3> QED BY <2>2, <3>1, <3>2, RowApart
  <2> QED BY <1>0, <1>1, <1>2, <1>4, <2>1, <2>3
<1>5. CASE pl[t] \notin Searching
  <2>1. ThreadLogs(pl, sz) = R
    BY <1>0, <1>5 DEF ThreadLogs, Others
  <2> QED BY <1>0, <1>3, <1>5, <2>1
<1> QED BY <1>4, <1>5

LEMMA ThreadLogsAfter ==
    ASSUME Types, IsFiniteSet(ThreadLogs(at, size)), NEW t \in Threads, NEW to, NEW n \in Nat,
           at' = [at EXCEPT ![t] = to], size' = [size EXCEPT ![t] = n]
    PROVE  /\ IsFiniteSet(ThreadLogs(at, size)')
           /\ Cardinality(ThreadLogs(at, size)')
                     + (IF at[t] \in Searching THEN size[t] ELSE 0) =
                 Cardinality(ThreadLogs(at, size)) + (IF to \in Searching THEN n ELSE 0)
<1>1. DOMAIN at = Threads /\ size \in [Threads -> Nat]
  BY DEF Types, TypeOK
<1>2. /\ size' \in [Threads -> Nat] /\ size'[t] = n /\ at'[t] = to
      /\ \A u \in Threads : u # t => size'[u] = size[u] /\ at'[u] = at[u]
  BY <1>1
<1>3. PICK R : R = Others(t, at, size)
  OBVIOUS
<1>4. IsFiniteSet(R) /\ Cardinality(R) \in Nat
  BY <1>3, FS_Subset, FS_CardinalityType DEF Others
<1>5. Cardinality(ThreadLogs(at, size)) = Cardinality(R) + (IF at[t] \in Searching THEN size[t] ELSE 0)
  BY <1>1, <1>3, <1>4, ThreadLogsOf
<1>6. R = Others(t, at', size')
  BY <1>2, <1>3 DEF ThreadLogs, Others
<1>7. PICK p, s : p = at' /\ s = size' /\ s \in [Threads -> Nat]
  BY <1>2
<1>8. IsFiniteSet(Others(t, p, s))
  BY <1>4, <1>6, <1>7
<1>9. /\ IsFiniteSet(ThreadLogs(p, s))
      /\ Cardinality(ThreadLogs(p, s)) =
            Cardinality(Others(t, p, s)) + (IF p[t] \in Searching THEN s[t] ELSE 0)
  BY <1>7, <1>8, ThreadLogsOf
<1>10. /\ IsFiniteSet(ThreadLogs(at, size)')
       /\ Cardinality(ThreadLogs(at, size)') = Cardinality(R) + (IF to \in Searching THEN n ELSE 0)
  BY <1>2, <1>6, <1>7, <1>9
<1>11. size[t] \in Nat
  BY <1>1
<1> QED BY <1>4, <1>5, <1>10, <1>11

\* What a chunk has is finite: it is part of the logs.
LEMMA PartsAreFinite ==
    ASSUME Types, Ranges
    PROVE  /\ \A i \in DOMAIN uiQueue : IsFiniteSet(uiQueue[i].keys)
           /\ \A i \in DOMAIN uiQueue : Cardinality(uiQueue[i].keys) \in Nat
<1>1. ASSUME NEW i \in DOMAIN uiQueue
      PROVE  IsFiniteSet(uiQueue[i].keys)
  <2>1. uiQueue[i].keys \subseteq logs
    BY DEF Ranges, InRange
  <2> QED BY <2>1, FS_Subset DEF Types
<1> QED BY <1>1, FS_CardinalityType

\* A step that cuts the chunks off is the step of the one thread that leads.
LEMMA LeaderAlone ==
    ASSUME OneLeads, NEW t \in Threads, at[t] \in Leads \ {"spin", "set"}
    PROVE  ~CutOff
BY DEF OneLeads, Leads, CutOff

LEMMA OwedKept ==
    ASSUME Types, OneLeads, Ranges, Owed, NEW t \in Threads, Step(t)
    PROVE  Owed'
<1> DEFINE Q(q) == Cardinality(QueueLogs(q))
           H(pl, sz) == Cardinality(ThreadLogs(pl, sz))
<1>1. /\ DOMAIN at = Threads /\ size \in [Threads -> Nat] /\ uiQueue \in Seq(Tasks)
      /\ compares \in Nat /\ sum \in Nat
  BY DEF Types, TypeOK
<1>2. /\ IsFiniteSet(QueueLogs(uiQueue)) /\ IsFiniteSet(ThreadLogs(at, size))
      /\ compares + Q(uiQueue) + H(at, size) <= sum
      /\ CutOff => required = sum
  BY DEF Owed
<1>3. Q(uiQueue) \in Nat /\ H(at, size) \in Nat
  BY <1>2, FS_CardinalityType
<1>4. CASE Take(t)
  <2>1. PICK task : task = Head(uiQueue)
    OBVIOUS
  <2>2. /\ at[t] = "idle" /\ uiQueue # <<>> /\ uiQueue' = Tail(uiQueue)
        /\ at' = [at EXCEPT ![t] = task.kind] /\ size' = [size EXCEPT ![t] = Cardinality(task.keys)]
        /\ UNCHANGED <<compares, sum, required, answered>>
    BY <1>4, <2>1 DEF Take, Goto
  <2>3. /\ 1 \in DOMAIN uiQueue /\ task = uiQueue[1] /\ task \in Tasks
        /\ \A i \in DOMAIN uiQueue' : i + 1 \in DOMAIN uiQueue /\ uiQueue'[i] = uiQueue[i + 1]
    BY <1>1, <2>1, <2>2, JobsAfterTail
  <2>4. IsFiniteSet(task.keys) /\ Cardinality(task.keys) \in Nat
    BY <2>3, PartsAreFinite
  <2>5. /\ IsFiniteSet(QueueLogs(uiQueue'))
        /\ Q(uiQueue) = Q(uiQueue') + (IF task.kind = "check" THEN Cardinality(task.keys) ELSE 0)
    BY <1>1, <1>2, <2>1, <2>2, <2>4, QueueLogsTail
  <2>6. task.kind \in Searching <=> task.kind = "check"
    BY <2>3 DEF Tasks, Searching
  <2>7. /\ IsFiniteSet(ThreadLogs(at, size)')
        /\ H(at', size') + (IF at[t] \in Searching THEN size[t] ELSE 0) =
              H(at, size) + (IF task.kind \in Searching THEN Cardinality(task.keys) ELSE 0)
    BY <1>2, <2>2, <2>4, ThreadLogsAfter DEF ThreadLogs
  <2>8. Q(uiQueue') \in Nat /\ H(at', size') \in Nat
    BY <2>5, <2>7, FS_CardinalityType DEF ThreadLogs
  <2>9. at[t] \notin Searching
    BY <2>2 DEF Searching
  <2>10. compares' + Q(uiQueue') + H(at', size') <= sum'
    <3> HIDE DEF Q, H
    <3>1. H(at', size') = H(at, size) + (IF task.kind = "check" THEN Cardinality(task.keys) ELSE 0)
      BY <1>3, <2>6, <2>7, <2>8, <2>9
    <3> QED BY <1>1, <1>2, <1>3, <2>2, <2>4, <2>5, <2>8, <3>1
  <2>11. CutOff' => CutOff
    <3>1. task.kind # "set"
      BY <2>3 DEF Tasks
    <3> QED BY <1>1, <2>2, <2>3, <3>1 DEF CutOff
  <2> QED BY <1>2, <2>2, <2>5, <2>7, <2>10, <2>11 DEF Owed, ThreadLogs
\* The chunks stay, and the thread does not begin to search.
<1>5. CASE \/ Estimate(t) \/ Ask(t) \/ Count(t) \/ Check(t) \/ Scan(t) \/ Done(t)
           \/ Spin(t) \/ SetResult(t) \/ (Push(t) /\ GetChunk(keyNow) = {})
  <2>1. PICK to, n : /\ at' = [at EXCEPT ![t] = to] /\ size' = [size EXCEPT ![t] = n] /\ n \in Nat
                     /\ to \in Searching => at[t] \in Searching /\ n = size[t]
                     /\ to \in {"spin", "set"} => at[t] \in {"spin", "set"}
    <3>1. size[t] \in Nat /\ 0 \in Nat
      BY <1>1
    <3>2. size = [size EXCEPT ![t] = size[t]]
      BY <1>1
    <3>3. ASSUME NEW to, Move(t, to), to \in Searching => at[t] \in Searching,
                 to \in {"spin", "set"} => at[t] \in {"spin", "set"}
          PROVE  \E n : /\ at' = [at EXCEPT ![t] = to] /\ size' = [size EXCEPT ![t] = n] /\ n \in Nat
                        /\ to \in Searching => n = size[t]
      <4>1. at' = [at EXCEPT ![t] = to] /\ size' = [size EXCEPT ![t] = size[t]]
        BY <3>2, <3>3 DEF Move
      <4> QED BY <3>1, <4>1
    <3>4. CASE Estimate(t)
      <4>1. Move(t, "ask")
        BY <3>4 DEF Estimate
      <4> QED BY <3>3, <4>1 DEF Searching
    <3>5. CASE Ask(t)
      <4>1. PICK to \in {"finish", "push"} : Move(t, to)
        BY <3>5 DEF Ask
      <4> QED BY <3>3, <4>1 DEF Searching
    <3>6. CASE Check(t)
      <4>1. at[t] = "check" /\ \E to \in {"done", "scan"} : Move(t, to)
        BY <3>6 DEF Check
      <4> QED BY <3>3, <4>1 DEF Searching
    <3>7. CASE Spin(t)
      <4>1. at[t] = "spin" /\ Move(t, "set")
        BY <3>7 DEF Spin
      <4> QED BY <3>3, <4>1 DEF Searching
    <3>8. CASE Push(t) /\ GetChunk(keyNow) = {}
      <4>1. Move(t, "finish")
        BY <3>8 DEF Push
      <4> QED BY <3>3, <4>1 DEF Searching
    <3>9. CASE Count(t)
      <4>1. PICK to \in {"finish", "ask"} : Goto(t, to, {}, 0)
        BY <3>9 DEF Count
      <4> QED BY <3>1, <4>1 DEF Goto, Searching
    <3>10. CASE Done(t) \/ SetResult(t)
      <4>1. Goto(t, "idle", {}, 0)
        BY <3>10 DEF Done, SetResult, Release
      <4>2. /\ at' = [at EXCEPT ![t] = "idle"] /\ size' = [size EXCEPT ![t] = 0]
            /\ "idle" \notin Searching /\ "idle" \notin {"spin", "set"}
        BY <4>1 DEF Goto, Searching
      <4> QED BY <3>1, <4>2
    <3>11. CASE Scan(t)
      <4>1. at[t] = "scan" /\ (Move(t, "sum") \/ Goto(t, "scan", hand[t] \ {Front(hand[t])}, size[t]))
        BY <3>11 DEF Scan
      <4>2. CASE Move(t, "sum")
        BY <3>3, <4>1, <4>2 DEF Searching
      <4>3. CASE Goto(t, "scan", hand[t] \ {Front(hand[t])}, size[t])
        BY <3>1, <4>1, <4>3 DEF Goto, Searching
      <4> QED BY <4>1, <4>2, <4>3
    <3> QED BY <1>5, <3>4, <3>5, <3>6, <3>7, <3>8, <3>9, <3>10, <3>11
  <2>2. UNCHANGED <<uiQueue, compares, sum>>
    BY <1>5 DEF Estimate, Ask, Count, Check, Scan, Done, Spin, SetResult, Push
  <2>3. /\ IsFiniteSet(ThreadLogs(at, size)')
        /\ H(at', size') + (IF at[t] \in Searching THEN size[t] ELSE 0) =
              H(at, size) + (IF to \in Searching THEN n ELSE 0)
    BY <1>2, <2>1, ThreadLogsAfter DEF ThreadLogs
  <2>4. H(at', size') \in Nat
    BY <2>3, FS_CardinalityType DEF ThreadLogs
  <2>5. size[t] \in Nat
    BY <1>1
  <2>6. compares' + Q(uiQueue') + H(at', size') <= sum'
    <3> HIDE DEF Q, H
    <3>1. H(at', size') <= H(at, size)
      BY <1>3, <2>1, <2>3, <2>4, <2>5
    <3> QED BY <1>1, <1>2, <1>3, <2>2, <2>4, <3>1
  <2>7. CutOff' => CutOff
    <3>1. (\E u \in Threads : at'[u] \in {"spin", "set"}) => \E u \in Threads : at[u] \in {"spin", "set"}
      BY <1>1, <2>1
    <3>2. answered' => answered \/ at[t] = "set"
      BY <1>5 DEF Estimate, Ask, Count, Check, Scan, Done, Spin, SetResult, Push
    <3> QED BY <2>2, <3>1, <3>2 DEF CutOff
  <2>8. CutOff' => required' = sum'
    <3>1. CASE Estimate(t)
      BY <2>7, <3>1, LeaderAlone DEF Estimate, Leads
    <3>2. CASE ~Estimate(t)
      <4>1. required' = required
        BY <1>5, <3>2 DEF Ask, Count, Check, Scan, Done, Spin, SetResult, Push
      <4> QED BY <1>2, <2>2, <2>7, <4>1
    <3> QED BY <3>1, <3>2
  <2> QED BY <1>2, <2>2, <2>3, <2>6, <2>8 DEF Owed, ThreadLogs
<1>6. CASE Push(t) /\ GetChunk(keyNow) # {}
  <2>1. PICK chunk, task : chunk = GetChunk(keyNow) /\ task = Task("check", chunk)
    OBVIOUS
  <2>2. /\ at[t] = "push" /\ uiQueue' = Append(uiQueue, task) /\ sum' = sum + Cardinality(chunk)
        /\ at' = [at EXCEPT ![t] = "count"] /\ size' = [size EXCEPT ![t] = Cardinality(chunk)]
        /\ UNCHANGED <<compares, required, answered>>
    BY <1>6, <2>1 DEF Push, Goto
  <2>3. IsFiniteSet(chunk) /\ Cardinality(chunk) \in Nat /\ chunk \in SUBSET Keys
    BY <2>1, <2>2, NextChunk
  <2>4. task \in Tasks /\ task.kind = "check" /\ task.keys = chunk
    BY <2>1, <2>3, TaskIsTask
  <2>5. IsFiniteSet(QueueLogs(uiQueue')) /\ Q(uiQueue') = Q(uiQueue) + Cardinality(chunk)
    BY <1>1, <1>2, <2>2, <2>3, <2>4, QueueLogsAppend
  <2>6. IsFiniteSet(ThreadLogs(at, size)') /\ H(at', size') = H(at, size)
    <3>1. /\ IsFiniteSet(ThreadLogs(at, size)')
          /\ H(at', size') + (IF at[t] \in Searching THEN size[t] ELSE 0) =
                H(at, size) + (IF "count" \in Searching THEN Cardinality(chunk) ELSE 0)
      BY <1>2, <2>2, <2>3, ThreadLogsAfter DEF ThreadLogs
    <3>2. at[t] \notin Searching /\ "count" \notin Searching
      BY <2>2 DEF Searching
    <3>3. H(at', size') \in Nat
      BY <3>1, FS_CardinalityType DEF ThreadLogs
    <3> HIDE DEF H
    <3> QED BY <1>3, <3>1, <3>2, <3>3
  <2>7. compares' + Q(uiQueue') + H(at', size') <= sum'
    <3> HIDE DEF Q, H
    <3> QED BY <1>1, <1>2, <1>3, <2>2, <2>3, <2>5, <2>6
  <2>8. ~CutOff'
    <3>1. ~CutOff
      BY <2>2, LeaderAlone DEF Leads
    <3>2. \A i \in DOMAIN uiQueue' : (i \in DOMAIN uiQueue /\ uiQueue'[i] = uiQueue[i]) \/ uiQueue'[i] = task
      BY <1>1, <2>2, <2>4, JobsAfterAppend
    <3>3. \A u \in Threads : at'[u] = at[u] \/ at'[u] = "count"
      BY <1>1, <2>2
    <3> QED BY <2>2, <2>4, <3>1, <3>2, <3>3 DEF CutOff
  <2> QED BY <2>5, <2>6, <2>7, <2>8 DEF Owed, ThreadLogs
<1>7. CASE Finish(t)
  <2>1. PICK task : task = Task("spin", {})
    OBVIOUS
  <2>2. /\ at[t] = "finish" /\ uiQueue' = Append(uiQueue, task) /\ required' = sum
        /\ at' = [at EXCEPT ![t] = "idle"] /\ size' = [size EXCEPT ![t] = 0]
        /\ UNCHANGED <<compares, sum, answered>>
    BY <1>7, <2>1 DEF Finish, Release, Goto
  <2>3. task \in Tasks /\ task.kind = "spin" /\ IsFiniteSet(task.keys)
    BY <2>1, TaskIsTask, FS_EmptySet
  <2>4. IsFiniteSet(QueueLogs(uiQueue')) /\ Q(uiQueue') = Q(uiQueue) + 0
    BY <1>1, <1>2, <2>2, <2>3, QueueLogsAppend
  <2>5. IsFiniteSet(ThreadLogs(at, size)') /\ H(at', size') = H(at, size)
    <3>1. /\ IsFiniteSet(ThreadLogs(at, size)')
          /\ H(at', size') + (IF at[t] \in Searching THEN size[t] ELSE 0) =
                H(at, size) + (IF "idle" \in Searching THEN 0 ELSE 0)
      BY <1>2, <2>2, ThreadLogsAfter DEF ThreadLogs
    <3>2. at[t] \notin Searching
      BY <2>2 DEF Searching
    <3>3. H(at', size') \in Nat
      BY <3>1, FS_CardinalityType DEF ThreadLogs
    <3> HIDE DEF H
    <3> QED BY <1>3, <3>1, <3>2, <3>3
  <2>6. compares' + Q(uiQueue') + H(at', size') <= sum'
    <3> HIDE DEF Q, H
    <3> QED BY <1>1, <1>2, <1>3, <2>2, <2>4, <2>5
  <2> QED BY <2>2, <2>4, <2>5, <2>6 DEF Owed, ThreadLogs
<1>8. CASE Sum(t)
  <2>1. /\ at[t] = "sum" /\ compares' = compares + size[t]
        /\ at' = [at EXCEPT ![t] = "done"] /\ size' = [size EXCEPT ![t] = size[t]]
        /\ UNCHANGED <<uiQueue, sum, required, answered>>
    BY <1>1, <1>8 DEF Sum, Move
  <2>2. size[t] \in Nat
    BY <1>1
  <2>3. IsFiniteSet(ThreadLogs(at, size)') /\ H(at', size') + size[t] = H(at, size)
    <3>1. /\ IsFiniteSet(ThreadLogs(at, size)')
          /\ H(at', size') + (IF at[t] \in Searching THEN size[t] ELSE 0) =
                H(at, size) + (IF "done" \in Searching THEN size[t] ELSE 0)
      BY <1>2, <2>1, <2>2, ThreadLogsAfter DEF ThreadLogs
    <3>2. at[t] \in Searching /\ "done" \notin Searching
      BY <2>1 DEF Searching
    <3> HIDE DEF H
    <3> QED BY <1>3, <3>1, <3>2
  <2>4. H(at', size') \in Nat
    BY <2>3, FS_CardinalityType DEF ThreadLogs
  <2>5. compares' + Q(uiQueue') + H(at', size') <= sum'
    <3> HIDE DEF Q, H
    <3> QED BY <1>1, <1>2, <1>3, <2>1, <2>2, <2>3, <2>4
  <2>6. CutOff' => CutOff
    BY <1>1, <2>1 DEF CutOff
  <2> QED BY <1>2, <2>1, <2>3, <2>5, <2>6 DEF Owed, ThreadLogs
<1> QED BY <1>4, <1>5, <1>6, <1>7, <1>8 DEF Step

\* A search that begins owes nothing.
LEMMA OwedAtFirst ==
    ASSUME Fresh, uiQueue = <<>>
    PROVE  Owed
<1>1. QueueLogs(uiQueue) = {} /\ ThreadLogs(at, size) = {}
  BY DEF Fresh, QueueLogs, ThreadLogs, Searching
<1>2. compares = 0 /\ sum = 0 /\ ~CutOff
  BY DEF Fresh, CutOff
<1>3. IsFiniteSet({}) /\ Cardinality({}) = 0
  BY FS_EmptySet
<1>4. /\ IsFiniteSet(QueueLogs(uiQueue)) /\ Cardinality(QueueLogs(uiQueue)) = 0
      /\ IsFiniteSet(ThreadLogs(at, size)) /\ Cardinality(ThreadLogs(at, size)) = 0
  BY <1>1, <1>3
<1>5. compares + Cardinality(QueueLogs(uiQueue)) + Cardinality(ThreadLogs(at, size)) <= sum
  <2>1. 0 + 0 + 0 <= 0
    OBVIOUS
  <2> QED BY <1>2, <1>4, <2>1
<1> QED BY <1>2, <1>4, <1>5 DEF Owed

LEMMA OwedTriggered ==
    ASSUME Types, Owed, Trigger
    PROVE  Owed'
<1>1. UNCHANGED <<at, size, compares, sum, required, answered>>
  BY DEF Trigger, countVars, threadVars, localVars, resultVars
<1>2. ThreadLogs(at, size)' = ThreadLogs(at, size)
  BY <1>1 DEF ThreadLogs
<1>3. CASE uiQueue' = uiQueue
  BY <1>1, <1>2, <1>3 DEF Owed, QueueLogs, CutOff
<1>4. CASE uiQueue' = Append(uiQueue, FirstTask)
  <2>1. /\ uiQueue \in Seq(Tasks) /\ FirstTask \in Tasks /\ FirstTask.kind = "estimate"
        /\ IsFiniteSet(FirstTask.keys)
    BY TaskIsTask, FS_EmptySet DEF FirstTask, Types
  <2>2. /\ IsFiniteSet(QueueLogs(uiQueue'))
        /\ Cardinality(QueueLogs(uiQueue')) = Cardinality(QueueLogs(uiQueue)) + 0
    BY <1>4, <2>1, QueueLogsAppend DEF Owed
  <2>3. Cardinality(QueueLogs(uiQueue')) = Cardinality(QueueLogs(uiQueue))
    <3>1. Cardinality(QueueLogs(uiQueue)) \in Nat
      BY FS_CardinalityType DEF Owed
    <3> QED BY <2>2, <3>1
  <2>4. CutOff' => CutOff
    <3>1. \A i \in DOMAIN uiQueue' : \/ (i \in DOMAIN uiQueue /\ uiQueue'[i] = uiQueue[i])
                                     \/ uiQueue'[i] = FirstTask
      BY <1>4, <2>1, JobsAfterAppend
    <3> QED BY <1>1, <2>1, <3>1 DEF CutOff
  <2>5. QueueLogs(uiQueue)' = QueueLogs(uiQueue')
    BY DEF QueueLogs
  <2> QED BY <1>1, <1>2, <2>2, <2>3, <2>4, <2>5 DEF Owed
<1> QED BY <1>3, <1>4 DEF Trigger

LEMMA OwedScreenStep ==
    ASSUME ScreenInv, Owed, [ScreenNext]_allVars
    PROVE  Owed'
<1>1. Types /\ OneLeads /\ Ranges
  BY DEF ScreenInv, Sound
<1>2. CASE Trigger
  BY <1>1, <1>2, OwedTriggered
<1>3. ASSUME UNCHANGED <<uiQueue, at, size, compares, sum, required, answered>>
      PROVE  Owed'
  BY <1>3 DEF Owed, QueueLogs, ThreadLogs, CutOff
<1>4. CASE ScreenMoves
  BY <1>3, <1>4, ScreenMovesFrame DEF vars
<1>5. CASE Abort
  BY <1>3, <1>5 DEF Abort, Cancel
<1>6. ASSUME NEW t \in Threads, Step(t)
      PROVE  Owed'
  BY <1>1, <1>6, OwedKept
<1>7. ASSUME NEW k \in Keys, InsertLog(k)
      PROVE  Owed'
  BY <1>3, <1>7 DEF InsertLog
<1> QED BY <1>2, <1>4, <1>5, <1>6, <1>7 DEF ScreenNext, Screen, ScreenMoves

\* The progress bar never passes its end once the chunks are cut, whoever searches
\* them and whatever is canceled: each chunk is in the sum before a job can have
\* compared its logs, and is compared by one job (Search.cpp; Search.ut.cpp:299).
THEOREM ProgressStaysBelow ==
    ASSUME IsFiniteSet(Present), IsFiniteSet(Threads)
    PROVE  ScreenSpec => []ProgressReasonable
<1>1. ScreenInit => ScreenInv /\ Owed
  BY ScreenBegins, OwedAtFirst DEF ScreenInit
<1>2. ScreenInv /\ Owed /\ [ScreenNext]_allVars => (ScreenInv /\ Owed)'
  BY ScreenStepKeeps, OwedScreenStep
<1>3. ScreenInv /\ Owed => ProgressReasonable
  <2> SUFFICES ASSUME ScreenInv, Owed, CutOff PROVE compares <= required
    BY DEF ProgressReasonable, CutOff
  <2>1. compares \in Nat /\ sum \in Nat
    BY DEF ScreenInv, Sound, Types, TypeOK
  <2>2. Cardinality(QueueLogs(uiQueue)) \in Nat /\ Cardinality(ThreadLogs(at, size)) \in Nat
    BY FS_CardinalityType DEF Owed
  <2> QED BY <2>1, <2>2 DEF Owed
<1> QED BY <1>1, <1>2, <1>3, PTL DEF ScreenSpec

=============================================================================
