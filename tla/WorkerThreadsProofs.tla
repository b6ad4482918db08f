------------------------- MODULE WorkerThreadsProofs -------------------------
(***************************************************************************)
(* The safety of the thread pool, for any number of threads and any tasks, *)
(* classes and filters: no task is lost or runs twice, waitForAll() waits  *)
(* for all that was enqueued, filters have their turns, and a thread takes *)
(* at most one task after the destructor has begun.                        *)
(***************************************************************************)
EXTENDS WorkerThreads, Integers, FiniteSetTheorems, FunctionTheorems, WellFoundedInduction,
        SequenceTheorems, TLAPS

(***************************************************************************)
(* The queue is seen as lanes: that of the user interface, that of the     *)
(* batch tasks, and one per place of filters_; lanes that are not there    *)
(* yet are empty.  Every operation of the queue appends to one lane or     *)
(* takes the head of one.                                                  *)
(***************************************************************************)
Lanes == Int
UiLane == 0
BatchLane == -1

Lane(qq, l) ==
    IF l = UiLane THEN qq.ui
    ELSE IF l = BatchLane THEN qq.batch
    ELSE IF l \in Places(qq) THEN qq.filters[l].tasks
    ELSE <<>>

Grows(old, new, l, c) ==
    /\ Lane(new, l) = Append(Lane(old, l), c)
    /\ \A k \in Lanes \ {l} : Lane(new, k) = Lane(old, k)

Shrinks(old, new, l) ==
    /\ Lane(old, l) # <<>> /\ Lane(new, l) = Tail(Lane(old, l))
    /\ \A k \in Lanes \ {l} : Lane(new, k) = Lane(old, k)

Waits(qq, c) == \E l \in Lanes : \E i \in DOMAIN Lane(qq, l) : Lane(qq, l)[i] = c

-----------------------------------------------------------------------------
(* The inductive invariant.                                                *)

BlockersUpTo(n) == {Blocker(r) : r \in 0 .. n}

QueueType(n) ==
    [ui : Seq(Tasks \cup {NoTask}), next : Nat,
     filters : Seq([filter : Filters, tasks : Seq(Tasks)]),
     batch : Seq(Tasks \cup BlockersUpTo(n))]

Busy    == {w \in Workers : pc[w] \in {"run", "blocked"}}
Current == Blocker(released + 1)
Settled == {w \in Workers : pc[w] = "blocked" /\ cmd[w] = Current}

CallType ==
    [pc : {"idle", "enqueue", "release"}, sent : 0 .. Cardinality(Workers),
     hasMore : BOOLEAN, calls : 0 .. MaxCalls]

Types ==
    /\ q \in QueueType(released + 1)
    /\ waiting \subseteq Workers
    /\ running = Cardinality(Busy)
    /\ quit \in BOOLEAN
    /\ pc \in [Workers -> Pcs]
    /\ cmd \in [Workers -> Tasks \cup {NoTask} \cup BlockersUpTo(released + 1)]
    /\ todo \in [Workers -> Seq(Tasks)]
    /\ wait \in CallType
    /\ arrived = Cardinality(Settled)
    /\ released \in Nat
    /\ dtor \in {"alive", "quit", "join", "gone"}
    /\ submitted \subseteq Tasks /\ before \subseteq submitted
    /\ late \in [Workers -> Nat]
    /\ bypass \in [Filters -> Nat]

\* A thread has a command only while it runs it.
Hands ==
    \A w \in Workers :
        /\ pc[w] \in {"check", "get", "exit"} => cmd[w] = NoTask
        /\ pc[w] = "blocked" => cmd[w] \in BlockersUpTo(released + 1)
        /\ todo[w] # <<>> => pc[w] = "run" /\ cmd[w] \in Tasks

\* A task waits in one place, or is run by one thread, or is done.
Unique(qq) ==
    \A l, m \in Lanes : \A i \in DOMAIN Lane(qq, l), j \in DOMAIN Lane(qq, m) :
        Lane(qq, l)[i] = Lane(qq, m)[j] /\ Lane(qq, l)[i] \in Tasks => l = m /\ i = j

Runs(w, t) == pc[w] = "run" /\ cmd[w] = t

Once ==
    /\ Unique(q)
    /\ started \subseteq submitted /\ done \subseteq started
    /\ \A t \in Tasks : Waits(q, t) <=> t \in submitted \ started
    /\ \A t \in Tasks : (\E w \in Workers : Runs(w, t)) <=> t \in started \ done
    /\ \A t \in Tasks : \A v, w \in Workers : Runs(v, t) /\ Runs(w, t) => v = w

\* What a task enqueues is not enqueued before, by it or by another one.
Spawned ==
    /\ \A s \in Tasks \ started : ToSet(Spawns[s]) \cap submitted = {}
    /\ \A w \in Workers :
          cmd[w] \in Tasks =>
              /\ IsInjective(todo[w])
              /\ ToSet(todo[w]) \subseteq ToSet(Spawns[cmd[w]]) \ submitted

\* All the blockers are of the current round: as many of them wait or are held as
\* were enqueued, and a round ends when each thread sits in one.
Holders  == {w \in Workers : cmd[w] = Current}
Blockers == {i \in DOMAIN q.batch : q.batch[i] = Current}

Rounds ==
    /\ \A w \in Workers : pc[w] = "run" => cmd[w] \in Tasks \cup {NoTask, Current}
    /\ \A i \in DOMAIN q.batch : q.batch[i] \in Tasks \cup {Current}
    /\ Cardinality(Blockers) + Cardinality(Holders) = wait.sent
    /\ wait.pc = "idle" => wait.sent = 0
    /\ wait.pc = "release" => arrived = Cardinality(Workers) /\ wait.sent = Cardinality(Workers)

\* What was enqueued before the call is in front of every blocker of the round.
InFront ==
    /\ NoOvertaking
    /\ \A i \in DOMAIN q.batch : q.batch[i] = Current =>
          \A t \in before :
              \/ t \in started
              \/ \E l \in Lanes \ {BatchLane} : \E j \in DOMAIN Lane(q, l) : Lane(q, l)[j] = t
              \/ \E j \in DOMAIN q.batch : j < i /\ q.batch[j] = t

Lateness ==
    \A w \in Workers :
        /\ late[w] > 0 => quit
        /\ late[w] > 0 => pc[w] \in {"check", "exit"} \/ (pc[w] = "run" /\ cmd[w] \in Tasks)
        /\ late[w] <= 1

\* The turns from next_ to a place, over n places.
Distance(p, next, n) == IF p - 1 >= next THEN p - 1 - next ELSE p - 1 - next + n

\* A filter whose tasks wait has a turn before the others have had one turn more.
Turns ==
    /\ q.next \in 0 .. Len(q.filters) /\ (q.filters # <<>> => q.next < Len(q.filters))
    /\ \A i, j \in Places(q) : q.filters[i].filter = q.filters[j].filter => i = j
    /\ \A i \in Places(q) : \A k \in DOMAIN q.filters[i].tasks :
          ClassOf[q.filters[i].tasks[k]] = q.filters[i].filter
    /\ \A i \in Places(q) :
          IF q.filters[i].tasks = <<>> THEN bypass[q.filters[i].filter] = 0
          ELSE bypass[q.filters[i].filter] + Distance(i, q.next, Len(q.filters)) < Len(q.filters)
    /\ \A f \in Filters : (\A i \in Places(q) : q.filters[i].filter # f) => bypass[f] = 0

IInv == Types /\ Hands /\ Once /\ Spawned /\ Rounds /\ InFront /\ Lateness /\ Turns

-----------------------------------------------------------------------------
(* The queue's operations on its lanes.                                    *)

LEMMA LaneTypes ==
    ASSUME NEW n \in Nat, NEW qq \in QueueType(n), NEW l \in Lanes
    PROVE  /\ Lane(qq, l) \in Seq(Tasks \cup {NoTask} \cup BlockersUpTo(n))
           /\ l # BatchLane => Lane(qq, l) \in Seq(Tasks \cup {NoTask})
<1>1. CASE l = UiLane
  BY <1>1 DEF Lane, QueueType, UiLane, BatchLane
<1>2. CASE l = BatchLane
  BY <1>2 DEF Lane, QueueType, UiLane, BatchLane
<1>3. CASE l \notin {UiLane, BatchLane} /\ l \in Places(qq)
  <2>1. qq.filters \in Seq([filter : Filters, tasks : Seq(Tasks)]) /\ l \in 1 .. Len(qq.filters)
    BY <1>3 DEF QueueType, Places
  <2>2. qq.filters[l] \in [filter : Filters, tasks : Seq(Tasks)]
    BY <2>1, ElementOfSeq
  <2>3. Lane(qq, l) \in Seq(Tasks)
    BY <1>3, <2>2 DEF Lane
  <2>4. Lane(qq, l) \in Seq(Tasks \cup {NoTask})
    BY <2>3, SeqMonotonic
  <2>5. Lane(qq, l) \in Seq(Tasks \cup {NoTask} \cup BlockersUpTo(n))
    BY <2>3, SeqMonotonic
  <2> QED BY <2>4, <2>5
<1>4. CASE l \notin {UiLane, BatchLane} /\ l \notin Places(qq)
  BY <1>4 DEF Lane
<1> QED BY <1>1, <1>2, <1>3, <1>4

\* The first task of a filter opens an entry behind the others, the next ones
\* join it.
Opens(old, new, f, t) ==
    /\ \A i \in Places(old) : old.filters[i].filter # f
    /\ new = [old EXCEPT !.filters = Append(old.filters, [filter |-> f, tasks |-> <<t>>])]

Joins(old, new, f, t) ==
    \E i \in Places(old) :
        /\ old.filters[i].filter = f
        /\ new = [old EXCEPT !.filters[i].tasks = Append(@, t)]

LEMMA EnqueueFilterEntry ==
    ASSUME NEW qq, NEW f, NEW t
    PROVE  Opens(qq, EnqueueFilter(qq, f, t), f, t) \/ Joins(qq, EnqueueFilter(qq, f, t), f, t)
<1> DEFINE known == {i \in Places(qq) : qq.filters[i].filter = f}
<1>1. CASE known = {}
  BY <1>1 DEF EnqueueFilter, Opens
<1>2. CASE known # {}
  <2>1. (CHOOSE i \in known : TRUE) \in known
    BY <1>2
  <2> QED BY <1>2, <2>1 DEF EnqueueFilter, Joins
<1> QED BY <1>1, <1>2

LEMMA EnqueueFilterGrows ==
    ASSUME NEW n \in Nat, NEW qq \in QueueType(n), NEW f \in Filters, NEW t \in Tasks
    PROVE  /\ EnqueueFilter(qq, f, t) \in QueueType(n)
           /\ \E l \in Lanes \ {UiLane, BatchLane} : Grows(qq, EnqueueFilter(qq, f, t), l, t)
<1> DEFINE new == EnqueueFilter(qq, f, t)
           E   == [filter : Filters, tasks : Seq(Tasks)]
<1>1. qq.filters \in Seq(E) /\ Len(qq.filters) \in Nat /\ Places(qq) = 1 .. Len(qq.filters)
  BY DEF QueueType, Places
<1>2. CASE Opens(qq, new, f, t)
  <2> DEFINE at == Append(qq.filters, [filter |-> f, tasks |-> <<t>>])
             l  == Len(qq.filters) + 1
  <2>1. new = [qq EXCEPT !.filters = at]
    BY <1>2 DEF Opens
  <2>2. [filter |-> f, tasks |-> <<t>>] \in E
    OBVIOUS
  <2>3. /\ at \in Seq(E) /\ DOMAIN at = 1 .. l /\ at[l] = [filter |-> f, tasks |-> <<t>>]
        /\ \A i \in 1 .. Len(qq.filters) : at[i] = qq.filters[i]
    BY <1>1, <2>2
  <2>4. new \in QueueType(n) /\ new.filters = at /\ new.ui = qq.ui /\ new.batch = qq.batch
    BY <2>1, <2>3 DEF QueueType
  <2>5. l \in Lanes \ {UiLane, BatchLane} /\ Lane(qq, l) = <<>> /\ Lane(new, l) = <<t>>
    BY <1>1, <2>3, <2>4 DEF Lane, Lanes, UiLane, BatchLane, Places
  <2>6. \A k \in Lanes \ {l} : Lane(new, k) = Lane(qq, k)
    BY <1>1, <2>3, <2>4 DEF Lane, Lanes, UiLane, BatchLane, Places
  <2>7. Append(<<>>, t) = <<t>>
    OBVIOUS
  <2> QED BY <2>4, <2>5, <2>6, <2>7 DEF Grows
<1>3. ASSUME NEW i \in Places(qq), qq.filters[i].filter = f,
             new = [qq EXCEPT !.filters[i].tasks = Append(@, t)]
      PROVE  new \in QueueType(n) /\ \E l \in Lanes \ {UiLane, BatchLane} : Grows(qq, new, l, t)
  <2>1. /\ new.filters = [qq.filters EXCEPT ![i].tasks = Append(@, t)]
        /\ new.ui = qq.ui /\ new.batch = qq.batch /\ new.next = qq.next
        /\ new = [qq EXCEPT !.filters = new.filters]
    BY <1>3 DEF QueueType
  <2>2. [qq.filters[i] EXCEPT !.tasks = Append(@, t)] \in E
    <3>1. i \in 1 .. Len(qq.filters)
      BY <1>1
    <3>3. qq.filters[i] \in E
      BY <1>1, <3>1, ElementOfSeq
    <3>2. Append(qq.filters[i].tasks, t) \in Seq(Tasks)
      BY <3>3
    <3> QED BY <3>3, <3>2
  <2>3. /\ new.filters \in Seq(E) /\ DOMAIN new.filters = 1 .. Len(qq.filters)
        /\ new.filters[i].tasks = Append(qq.filters[i].tasks, t)
        /\ \A k \in 1 .. Len(qq.filters) : k # i => new.filters[k] = qq.filters[k]
    BY <1>1, <2>1, <2>2
  <2>4. new \in QueueType(n)
    BY <2>1, <2>3 DEF QueueType
  <2>5. i \in Lanes \ {UiLane, BatchLane}
    BY <1>1 DEF Lanes, UiLane, BatchLane
  <2>6. Lane(new, i) = Append(Lane(qq, i), t)
    BY <1>1, <2>3, <2>5 DEF Lane, Places
  <2>7. \A k \in Lanes \ {i} : Lane(new, k) = Lane(qq, k)
    BY <1>1, <2>1, <2>3 DEF Lane, Places
  <2> QED BY <2>4, <2>5, <2>6, <2>7 DEF Grows
<1> QED BY <1>2, <1>3, EnqueueFilterEntry DEF Joins

LEMMA UiGrows ==
    ASSUME NEW n \in Nat, NEW qq \in QueueType(n), NEW c \in Tasks \cup {NoTask}
    PROVE  EnqueueUi(qq, c) \in QueueType(n) /\ Grows(qq, EnqueueUi(qq, c), UiLane, c)
<1>1. Append(qq.ui, c) \in Seq(Tasks \cup {NoTask})
  BY DEF QueueType
<1> DEFINE new == EnqueueUi(qq, c)
<1>2. /\ new.ui = Append(qq.ui, c) /\ new.batch = qq.batch /\ new.filters = qq.filters
      /\ new \in QueueType(n)
  BY <1>1 DEF EnqueueUi, QueueType
<1>3. Lane(new, UiLane) = Append(Lane(qq, UiLane), c)
  BY <1>2 DEF Lane
<1>4. \A k \in Lanes \ {UiLane} : Lane(new, k) = Lane(qq, k)
  BY <1>2 DEF Lane, Places
<1> QED BY <1>2, <1>3, <1>4 DEF Grows

LEMMA BatchGrows ==
    ASSUME NEW n \in Nat, NEW qq \in QueueType(n), NEW c \in Tasks \cup BlockersUpTo(n)
    PROVE  EnqueueBatch(qq, c) \in QueueType(n) /\ Grows(qq, EnqueueBatch(qq, c), BatchLane, c)
<1>1. Append(qq.batch, c) \in Seq(Tasks \cup BlockersUpTo(n))
  BY DEF QueueType
<1> DEFINE new == EnqueueBatch(qq, c)
<1>2. /\ new.batch = Append(qq.batch, c) /\ new.ui = qq.ui /\ new.filters = qq.filters
      /\ new \in QueueType(n)
  BY <1>1 DEF EnqueueBatch, QueueType
<1>3. Lane(new, BatchLane) = Append(Lane(qq, BatchLane), c)
  BY <1>2 DEF Lane, UiLane, BatchLane
<1>4. \A k \in Lanes \ {BatchLane} : Lane(new, k) = Lane(qq, k)
  BY <1>2 DEF Lane, Places
<1> QED BY <1>2, <1>3, <1>4 DEF Grows

LEMMA EnqueueGrows ==
    ASSUME NEW n \in Nat, NEW qq \in QueueType(n), NEW t \in Tasks
    PROVE  /\ Enqueue(qq, t) \in QueueType(n)
           /\ \E l \in Lanes : Grows(qq, Enqueue(qq, t), l, t)
<1>0. UiLane \in Lanes /\ BatchLane \in Lanes
  BY DEF UiLane, BatchLane, Lanes
<1>1. CASE ClassOf[t] = UiClass
  <2>1. Enqueue(qq, t) = EnqueueUi(qq, t)
    BY <1>1 DEF Enqueue, UiClass, BatchClass
  <2> QED BY <1>0, <2>1, UiGrows
<1>2. CASE ClassOf[t] = BatchClass
  <2>1. Enqueue(qq, t) = EnqueueBatch(qq, t)
    BY <1>2 DEF Enqueue, UiClass, BatchClass
  <2> QED BY <1>0, <2>1, BatchGrows
<1>3. CASE ClassOf[t] \notin {UiClass, BatchClass}
  <2>1. ClassOf[t] \in Filters
    BY <1>3 DEF Filters
  <2>2. Enqueue(qq, t) = EnqueueFilter(qq, ClassOf[t], t)
    BY <1>3 DEF Enqueue
  <2> QED BY <2>1, <2>2, EnqueueFilterGrows
<1> QED BY <1>1, <1>2, <1>3

-----------------------------------------------------------------------------
(* The turns of the filters.                                               *)

Turning(qq) ==
    qq.next \in 0 .. Len(qq.filters) /\ (qq.filters # <<>> => qq.next < Len(qq.filters))

DistanceTo(qq, p) == Distance(p, qq.next, Len(qq.filters))

LEMMA LeastExists ==
    ASSUME NEW S \in SUBSET Nat, S # {}
    PROVE  \E x \in S : \A y \in S : x <= y
<1> DEFINE Below == {ss \in Nat \X Nat : ss[1] < ss[2]}
<1>1. PICK x \in S : \A y \in S : <<y, x>> \notin OpToRel(<, Nat)
  BY NatLessThanWellFounded, WFMin
<1>2. OpToRel(<, Nat) = Below
  BY Zenon DEF OpToRel
<1>3. ASSUME NEW y \in S PROVE x <= y
  <2>1. <<y, x>> \notin Below
    BY <1>1, <1>2
  <2> QED BY <2>1
<1> QED BY <1>3

\* The remainder of a sum of two turns.
LEMMA Wrap ==
    ASSUME NEW n \in Nat \ {0}, NEW a \in 0 .. n - 1, NEW i \in 0 .. n
    PROVE  (a + i) % n = IF a + i < n THEN a + i ELSE a + i - n
<1>1. CASE a + i < n
  <2>1. (a + i) % n = a + i
    BY <1>1
  <2> QED BY <1>1, <2>1
<1>2. CASE a + i >= n
  <2>1. (a + i) % n = a + i - n
    BY <1>2
  <2> QED BY <1>2, <2>1
<1> QED BY <1>1, <1>2

LEMMA TurnIs ==
    ASSUME NEW qq, Len(qq.filters) \in Nat \ {0}, qq.next \in 0 .. Len(qq.filters) - 1,
           NEW i \in 0 .. Len(qq.filters) - 1
    PROVE  Turn(qq, i) = (IF qq.next + i < Len(qq.filters) THEN qq.next + i
                          ELSE qq.next + i - Len(qq.filters)) + 1
<1> DEFINE len == Len(qq.filters)
           a   == qq.next
<1>1. len \in Nat \ {0} /\ a \in 0 .. len - 1 /\ i \in 0 .. len
  OBVIOUS
<1>2. (a + i) % len = IF a + i < len THEN a + i ELSE a + i - len
  <2> HIDE DEF len, a
  <2> QED BY <1>1, Wrap
<1> QED BY <1>2 DEF Turn

\* The turns of one round reach every place once.
LEMMA TurnReaches ==
    ASSUME NEW n \in Nat, NEW qq \in QueueType(n), Turning(qq), NEW p \in Places(qq)
    PROVE  /\ Len(qq.filters) \in Nat \ {0} /\ qq.next \in 0 .. Len(qq.filters) - 1
           /\ DistanceTo(qq, p) \in 0 .. Len(qq.filters) - 1
           /\ Turn(qq, DistanceTo(qq, p)) = p
           /\ \A i \in 0 .. Len(qq.filters) - 1 : Turn(qq, i) = p => i = DistanceTo(qq, p)
<1> DEFINE len == Len(qq.filters)
<1>1. len \in Nat /\ p \in 1 .. len /\ qq.next \in 0 .. len
  BY DEF QueueType, Places, Turning
<1>2. qq.filters # <<>>
  BY <1>1
<1>3. len \in Nat \ {0} /\ qq.next \in 0 .. len - 1
  BY <1>1, <1>2 DEF Turning
<1>4. DistanceTo(qq, p) \in 0 .. len - 1
  BY <1>1, <1>3 DEF DistanceTo, Distance
<1>5. \A i \in 0 .. len - 1 :
         Turn(qq, i) = (IF qq.next + i < len THEN qq.next + i ELSE qq.next + i - len) + 1
  BY <1>3, TurnIs
<1>6. DistanceTo(qq, p) = IF p - 1 >= qq.next THEN p - 1 - qq.next ELSE p - 1 - qq.next + len
  BY DEF DistanceTo, Distance
<1> HIDE DEF len
<1>7. Turn(qq, DistanceTo(qq, p)) = p
  <2>1. Turn(qq, DistanceTo(qq, p)) =
           (IF qq.next + DistanceTo(qq, p) < len THEN qq.next + DistanceTo(qq, p)
            ELSE qq.next + DistanceTo(qq, p) - len) + 1
    BY <1>4, <1>5
  <2> QED BY <1>1, <1>3, <1>6, <2>1
<1>8. ASSUME NEW i \in 0 .. len - 1, Turn(qq, i) = p PROVE i = DistanceTo(qq, p)
  <2>1. Turn(qq, i) = (IF qq.next + i < len THEN qq.next + i ELSE qq.next + i - len) + 1
    BY <1>5
  <2> QED BY <1>1, <1>3, <1>6, <1>8, <2>1
<1> USE DEF len
<1> QED BY <1>3, <1>4, <1>7, <1>8

\* A place is met at its own distance.
LEMMA TurnMeets ==
    ASSUME NEW n \in Nat, NEW qq \in QueueType(n), Turning(qq), qq.filters # <<>>,
           NEW i \in 0 .. Len(qq.filters) - 1
    PROVE  Turn(qq, i) \in Places(qq) /\ DistanceTo(qq, Turn(qq, i)) = i
<1> DEFINE len == Len(qq.filters)
<1>1. len \in Nat \ {0} /\ qq.next \in 0 .. len - 1 /\ Places(qq) = 1 .. len
  BY DEF QueueType, Places, Turning
<1>2. Turn(qq, i) = (IF qq.next + i < len THEN qq.next + i ELSE qq.next + i - len) + 1
  BY <1>1, TurnIs
<1>3. Turn(qq, i) \in Places(qq)
  BY <1>1, <1>2
<1> QED BY <1>3, TurnReaches

\* dequeue() of the filters takes the nearest entry that has a task, if there is one.
LEMMA NearestFilter ==
    ASSUME NEW n \in Nat, NEW qq \in QueueType(n), Turning(qq)
    PROVE  /\ HasFilterTask(qq) <=> \E p \in Places(qq) : qq.filters[p].tasks # <<>>
           /\ HasFilterTask(qq) =>
                 /\ NextPlace(qq) \in Places(qq)
                 /\ qq.filters[NextPlace(qq)].tasks # <<>>
                 /\ EmptyTurns(qq) = DistanceTo(qq, NextPlace(qq))
                 /\ \A p \in Places(qq) \ {NextPlace(qq)} :
                       qq.filters[p].tasks # <<>> => DistanceTo(qq, p) > EmptyTurns(qq)
<1> DEFINE len  == Len(qq.filters)
           hits == {i \in 0 .. len - 1 : qq.filters[Turn(qq, i)].tasks # <<>>}
<1>1. len \in Nat
  BY DEF QueueType
<1>2. CASE hits = {}
  <2>1. EmptyTurns(qq) = len /\ ~ HasFilterTask(qq)
    BY <1>1, <1>2 DEF EmptyTurns, HasFilterTask
  <2>2. \A p \in Places(qq) : qq.filters[p].tasks = <<>>
    BY <1>2, TurnReaches
  <2> QED BY <2>1, <2>2
<1>3. CASE hits # {}
  <2> DEFINE e == EmptyTurns(qq)
  <2>1. e = CHOOSE i \in hits : \A j \in hits : i <= j
    BY <1>3 DEF EmptyTurns
  <2>2. hits \in SUBSET Nat
    BY <1>1
  <2>3. \E i \in hits : \A j \in hits : i <= j
    <3> HIDE DEF hits
    <3> QED BY <1>3, <2>2, LeastExists
  <2>4. e \in hits /\ \A j \in hits : e <= j
    <3> HIDE DEF hits
    <3> QED BY <2>1, <2>3
  <2>5. e \in 0 .. len - 1 /\ HasFilterTask(qq) /\ qq.filters[NextPlace(qq)].tasks # <<>>
    BY <1>1, <2>4 DEF HasFilterTask, NextPlace
  <2>6. qq.filters # <<>>
    BY <1>1, <2>5
  <2>7. NextPlace(qq) \in Places(qq) /\ e = DistanceTo(qq, NextPlace(qq))
    BY <2>5, <2>6, TurnMeets DEF NextPlace
  <2>8. ASSUME NEW p \in Places(qq) \ {NextPlace(qq)}, qq.filters[p].tasks # <<>>
        PROVE  DistanceTo(qq, p) > e
    <3>1. DistanceTo(qq, p) \in 0 .. len - 1 /\ Turn(qq, DistanceTo(qq, p)) = p
      BY TurnReaches
    <3>2. DistanceTo(qq, p) \in hits /\ DistanceTo(qq, p) # e
      BY <2>8, <3>1 DEF NextPlace
    <3> QED BY <1>1, <2>4, <2>5, <3>1, <3>2
  <2> QED BY <2>5, <2>7, <2>8
<1> QED BY <1>2, <1>3

-----------------------------------------------------------------------------
(* The size of the queue, and what dequeue() takes.                        *)

FilterTasks(qq) == UNION {{i} \X DOMAIN qq.filters[i].tasks : i \in Places(qq)}

LEMMA FilterTasksFinite ==
    ASSUME NEW n \in Nat, NEW qq \in QueueType(n)
    PROVE  IsFiniteSet(FilterTasks(qq))
<1> DEFINE of == [i \in Places(qq) |-> {i} \X DOMAIN qq.filters[i].tasks]
           S  == {{i} \X DOMAIN qq.filters[i].tasks : i \in Places(qq)}
<1>1. Len(qq.filters) \in Nat /\ Places(qq) = 1 .. Len(qq.filters)
  BY DEF QueueType, Places
<1>2. IsFiniteSet(Places(qq))
  BY <1>1, FS_Interval
<1>3. of \in Surjection(Places(qq), S)
  BY DEF Surjection
<1>4. IsFiniteSet(S)
  <2> HIDE DEF of, S
  <2> QED BY <1>2, <1>3, FS_Surjection
<1>5. ASSUME NEW T \in S PROVE IsFiniteSet(T)
  <2>1. PICK i \in Places(qq) : T = {i} \X DOMAIN qq.filters[i].tasks
    OBVIOUS
  <2>2. qq.filters[i] \in [filter : Filters, tasks : Seq(Tasks)]
    BY <1>1, ElementOfSeq DEF QueueType
  <2>3. qq.filters[i].tasks \in Seq(Tasks)
    BY <2>2
  <2>4. IsFiniteSet(DOMAIN qq.filters[i].tasks)
    BY <2>3, FS_Interval, LenProperties
  <2> QED BY <2>1, <2>4, FS_Singleton, FS_Product
<1> QED BY <1>4, <1>5, FS_UNION DEF FilterTasks

LEMMA EmptyDomain ==
    ASSUME NEW S, NEW s \in Seq(S)
    PROVE  DOMAIN s = {} <=> s = <<>>
OBVIOUS

LEMMA SumOfSizes ==
    ASSUME NEW a \in Nat, NEW b \in Nat, NEW c \in Nat
    PROVE  a + b + c \in Nat /\ (a + b + c = 0 <=> a = 0 /\ b = 0 /\ c = 0)
OBVIOUS

\* The queue is empty when every lane is.
LEMMA EmptyLanes ==
    ASSUME NEW n \in Nat, NEW qq \in QueueType(n)
    PROVE  /\ QueueSize(qq) \in Nat
           /\ QueueSize(qq) = 0 <=> \A l \in Lanes : Lane(qq, l) = <<>>
           /\ QueueSize(qq) = 0 <=>
                 /\ qq.ui = <<>> /\ qq.batch = <<>>
                 /\ \A p \in Places(qq) : qq.filters[p].tasks = <<>>
<1>1. Len(qq.ui) \in Nat /\ Len(qq.batch) \in Nat
  BY DEF QueueType
<1>2. /\ Cardinality(FilterTasks(qq)) \in Nat
      /\ Cardinality(FilterTasks(qq)) = 0 <=> FilterTasks(qq) = {}
  BY FilterTasksFinite, FS_CardinalityType, FS_EmptySet
<1>3. QueueSize(qq) = Len(qq.ui) + Len(qq.batch) + Cardinality(FilterTasks(qq))
  BY DEF QueueSize, FilterTasks
<1>4. (Len(qq.ui) = 0 <=> qq.ui = <<>>) /\ (Len(qq.batch) = 0 <=> qq.batch = <<>>)
  BY DEF QueueType
<1>5. FilterTasks(qq) = {} <=> \A p \in Places(qq) : qq.filters[p].tasks = <<>>
  <2>1. ASSUME NEW p \in Places(qq)
        PROVE  DOMAIN qq.filters[p].tasks = {} <=> qq.filters[p].tasks = <<>>
    <3>1. qq.filters \in Seq([filter : Filters, tasks : Seq(Tasks)]) /\ p \in 1 .. Len(qq.filters)
      BY DEF QueueType, Places
    <3>2. qq.filters[p] \in [filter : Filters, tasks : Seq(Tasks)]
      BY <3>1, ElementOfSeq
    <3>3. qq.filters[p].tasks \in Seq(Tasks)
      BY <3>2
    <3> QED BY <3>3, EmptyDomain
  <2>2. FilterTasks(qq) = {} <=> \A p \in Places(qq) : DOMAIN qq.filters[p].tasks = {}
    <3>1. CASE \A p \in Places(qq) : DOMAIN qq.filters[p].tasks = {}
      BY <3>1 DEF FilterTasks
    <3>2. ASSUME NEW p \in Places(qq), NEW k \in DOMAIN qq.filters[p].tasks
          PROVE  <<p, k>> \in FilterTasks(qq)
      BY DEF FilterTasks
    <3> QED BY <3>1, <3>2
  <2> QED BY <2>1, <2>2
<1>6. (\A l \in Lanes : Lane(qq, l) = <<>>) <=>
         qq.ui = <<>> /\ qq.batch = <<>> /\ \A p \in Places(qq) : qq.filters[p].tasks = <<>>
  <2>1. Lane(qq, UiLane) = qq.ui /\ Lane(qq, BatchLane) = qq.batch
    BY DEF Lane, UiLane, BatchLane
  <2>2. \A p \in Places(qq) : p \in Lanes /\ Lane(qq, p) = qq.filters[p].tasks
    BY DEF Lane, Lanes, UiLane, BatchLane, Places, QueueType
  <2>3. UiLane \in Lanes /\ BatchLane \in Lanes
    BY DEF UiLane, BatchLane, Lanes
  <2> QED BY <2>1, <2>2, <2>3 DEF Lane
<1>7. QueueSize(qq) \in Nat
  <2>1. Len(qq.ui) + Len(qq.batch) + Cardinality(FilterTasks(qq)) \in Nat
    BY <1>1, <1>2, SumOfSizes
  <2> QED BY <1>3, <2>1
<1>8. QueueSize(qq) = 0 <=>
         Len(qq.ui) = 0 /\ Len(qq.batch) = 0 /\ Cardinality(FilterTasks(qq)) = 0
  BY <1>1, <1>2, <1>3, SumOfSizes
<1>9. QueueSize(qq) = 0 <=>
         qq.ui = <<>> /\ qq.batch = <<>> /\ \A p \in Places(qq) : qq.filters[p].tasks = <<>>
  BY <1>2, <1>4, <1>5, <1>8
<1> QED BY <1>6, <1>7, <1>9

Takes(qq, l) ==
    /\ DequeueRest(qq) \in QueueType(released + 1)
    /\ Shrinks(qq, DequeueRest(qq), l)
    /\ DequeuedTask(qq) = Head(Lane(qq, l))

\* Each class of tasks takes the head of its lane.
LEMMA TakesUi ==
    ASSUME released \in Nat, NEW qq \in QueueType(released + 1), NextClass(qq) = UiClass
    PROVE  /\ Takes(qq, UiLane)
           /\ DequeueRest(qq).filters = qq.filters /\ DequeueRest(qq).next = qq.next
<1> DEFINE new == DequeueRest(qq)
<1>1. qq.ui # <<>> /\ qq.ui \in Seq(Tasks \cup {NoTask})
  BY DEF NextClass, UiClass, FilterClass, BatchClass, QueueType
<1>2. new = [qq EXCEPT !.ui = Tail(@)] /\ DequeuedTask(qq) = Head(qq.ui)
  BY DEF DequeueRest, DequeuedTask, UiClass, FilterClass, BatchClass
<1>3. Tail(qq.ui) \in Seq(Tasks \cup {NoTask})
  BY <1>1, HeadTailProperties
<1>4. /\ new.ui = Tail(qq.ui) /\ new.batch = qq.batch /\ new.filters = qq.filters
      /\ new.next = qq.next /\ new \in QueueType(released + 1)
  BY <1>2, <1>3 DEF QueueType
<1>5. Lane(new, UiLane) = Tail(Lane(qq, UiLane)) /\ Lane(qq, UiLane) = qq.ui
  BY <1>4 DEF Lane
<1>6. \A k \in Lanes \ {UiLane} : Lane(new, k) = Lane(qq, k)
  BY <1>4 DEF Lane, Places
<1> QED BY <1>1, <1>2, <1>4, <1>5, <1>6 DEF Takes, Shrinks

LEMMA TakesBatch ==
    ASSUME released \in Nat, NEW qq \in QueueType(released + 1), Turning(qq),
           QueueSize(qq) # 0, NextClass(qq) = BatchClass
    PROVE  /\ Takes(qq, BatchLane)
           /\ \A k \in Lanes \ {BatchLane} : Lane(qq, k) = <<>>
           /\ DequeueRest(qq).filters = qq.filters /\ DequeueRest(qq).next = qq.next
<1> DEFINE new == DequeueRest(qq)
<1>1. qq.ui = <<>> /\ ~ HasFilterTask(qq)
  BY DEF NextClass, UiClass, FilterClass, BatchClass
<1>2. \A p \in Places(qq) : qq.filters[p].tasks = <<>>
  BY <1>1, NearestFilter
<1>3. qq.batch # <<>>
  BY <1>1, <1>2, EmptyLanes
<1>4. new = [qq EXCEPT !.batch = Tail(@)] /\ DequeuedTask(qq) = Head(qq.batch)
  BY DEF DequeueRest, DequeuedTask, UiClass, FilterClass, BatchClass
<1>5. Tail(qq.batch) \in Seq(Tasks \cup BlockersUpTo(released + 1))
  BY <1>3, HeadTailProperties DEF QueueType
<1>6. /\ new.batch = Tail(qq.batch) /\ new.ui = qq.ui /\ new.filters = qq.filters
      /\ new.next = qq.next /\ new \in QueueType(released + 1)
  BY <1>4, <1>5 DEF QueueType
<1>7. Lane(new, BatchLane) = Tail(Lane(qq, BatchLane)) /\ Lane(qq, BatchLane) = qq.batch
  BY <1>6 DEF Lane, UiLane, BatchLane
<1>8. \A k \in Lanes \ {BatchLane} : Lane(new, k) = Lane(qq, k)
  BY <1>6 DEF Lane, Places
<1>9. \A k \in Lanes \ {BatchLane} : Lane(qq, k) = <<>>
  BY <1>1, <1>2 DEF Lane
<1> QED BY <1>3, <1>4, <1>6, <1>7, <1>8, <1>9 DEF Takes, Shrinks

LEMMA TakesFilter ==
    ASSUME released \in Nat, NEW qq \in QueueType(released + 1), Turning(qq),
           NextClass(qq) = FilterClass
    PROVE  LET p == NextPlace(qq)
               new == DequeueRest(qq)
           IN  /\ p \in Places(qq) /\ p \in Lanes \ {UiLane, BatchLane}
               /\ Takes(qq, p)
               /\ Len(new.filters) = Len(qq.filters) /\ new.next = AfterTurn(qq)
               /\ Places(new) = Places(qq)
               /\ \A i \in Places(qq) : new.filters[i].filter = qq.filters[i].filter
               /\ \A i \in Places(qq) \ {p} : new.filters[i] = qq.filters[i]
               /\ new.filters[p].tasks = Tail(qq.filters[p].tasks)
               /\ DequeuedTask(qq) = Head(qq.filters[p].tasks)
               /\ qq.filters[p].tasks \in Seq(Tasks) /\ qq.filters[p].tasks # <<>>
               /\ HasFilterTask(qq)
<1> DEFINE new == DequeueRest(qq)
           p   == NextPlace(qq)
           E   == [filter : Filters, tasks : Seq(Tasks)]
<1>1. HasFilterTask(qq)
  BY DEF NextClass, UiClass, FilterClass, BatchClass
<1>2. p \in Places(qq) /\ qq.filters[p].tasks # <<>>
  BY <1>1, NearestFilter
<1>3. /\ new = [qq EXCEPT !.filters[p].tasks = Tail(@), !.next = AfterTurn(qq)]
      /\ DequeuedTask(qq) = Head(qq.filters[p].tasks)
  BY DEF DequeueRest, DequeuedTask, UiClass, FilterClass, BatchClass
<1> HIDE DEF p
<1>4. /\ qq.filters \in Seq(E) /\ Len(qq.filters) \in Nat
      /\ p \in 1 .. Len(qq.filters) /\ Places(qq) = 1 .. Len(qq.filters)
  BY <1>2 DEF QueueType, Places
<1>5. qq.filters[p] \in E
  BY <1>4, ElementOfSeq
<1>6. qq.filters[p].tasks \in Seq(Tasks) /\ Tail(qq.filters[p].tasks) \in Seq(Tasks)
  BY <1>2, <1>5, HeadTailProperties
<1>7. [qq.filters[p] EXCEPT !.tasks = Tail(@)] \in E
  BY <1>5, <1>6
<1>8. /\ new.filters = [qq.filters EXCEPT ![p].tasks = Tail(@)]
      /\ new.ui = qq.ui /\ new.batch = qq.batch /\ new.next = AfterTurn(qq)
      /\ new = [qq EXCEPT !.filters = new.filters, !.next = new.next]
  BY <1>3 DEF QueueType
<1>9. new.filters = [qq.filters EXCEPT ![p] = [qq.filters[p] EXCEPT !.tasks = Tail(@)]]
  BY <1>8
<1>10. /\ new.filters \in Seq(E) /\ Len(new.filters) = Len(qq.filters)
       /\ DOMAIN new.filters = 1 .. Len(qq.filters)
       /\ \A i \in 1 .. Len(qq.filters) : i # p => new.filters[i] = qq.filters[i]
       /\ new.filters[p] = [qq.filters[p] EXCEPT !.tasks = Tail(@)]
  BY <1>4, <1>7, <1>9, ExceptSeq, LenProperties
<1>11. /\ new.filters[p].tasks = Tail(qq.filters[p].tasks)
       /\ new.filters[p].filter = qq.filters[p].filter
  BY <1>5, <1>10
<1>12. Places(new) = Places(qq)
  BY <1>4, <1>10 DEF Places
<1>13. AfterTurn(qq) \in Nat
  <2>1. qq.next \in Nat /\ Len(qq.filters) \in Nat \ {0}
    BY <1>4 DEF QueueType
  <2>2. EmptyTurns(qq) \in Nat
    BY <1>1, <1>2, NearestFilter, TurnReaches DEF p
  <2> QED BY <2>1, <2>2 DEF AfterTurn
<1>14. new \in QueueType(released + 1)
  BY <1>8, <1>10, <1>13 DEF QueueType
<1>15. p \in Lanes \ {UiLane, BatchLane}
  BY <1>4 DEF Lanes, UiLane, BatchLane
<1>16. Lane(qq, p) = qq.filters[p].tasks /\ Lane(new, p) = new.filters[p].tasks
  BY <1>2, <1>12, <1>15 DEF Lane
<1>17. \A k \in Lanes \ {p} : Lane(new, k) = Lane(qq, k)
  BY <1>4, <1>8, <1>10, <1>12 DEF Lane
<1>18. Takes(qq, p)
  BY <1>2, <1>3, <1>11, <1>14, <1>16, <1>17 DEF Takes, Shrinks
<1>19. \A i \in Places(qq) : new.filters[i].filter = qq.filters[i].filter
  BY <1>4, <1>10, <1>11
<1> QED
  BY <1>1, <1>2, <1>3, <1>4, <1>6, <1>8, <1>10, <1>11, <1>12, <1>15, <1>18, <1>19 DEF p

\* A queue that is not empty has a task to take, and a batch task only when all
\* the rest is empty.
LEMMA TakesSome ==
    ASSUME released \in Nat, NEW qq \in QueueType(released + 1), Turning(qq), QueueSize(qq) # 0
    PROVE  \E l \in Lanes :
              /\ Takes(qq, l)
              /\ l = BatchLane => \A k \in Lanes \ {BatchLane} : Lane(qq, k) = <<>>
<1>1. NextClass(qq) \in {UiClass, FilterClass, BatchClass}
  BY DEF NextClass
<1>2. CASE NextClass(qq) = UiClass
  <2>1. UiLane \in Lanes /\ UiLane # BatchLane
    BY DEF UiLane, BatchLane, Lanes
  <2> QED BY <1>2, <2>1, TakesUi
<1>3. CASE NextClass(qq) = FilterClass
  BY <1>3, TakesFilter
<1>4. CASE NextClass(qq) = BatchClass
  <2>1. BatchLane \in Lanes
    BY DEF BatchLane, Lanes
  <2> QED BY <1>4, <2>1, TakesBatch
<1> QED BY <1>1, <1>2, <1>3, <1>4

-----------------------------------------------------------------------------
(* What an operation changes of the tasks that wait.                       *)

\* What waits stays where it is.
Keeps(old, new) ==
    \A k \in Lanes : \A i \in DOMAIN Lane(old, k) :
        i \in DOMAIN Lane(new, k) /\ Lane(new, k)[i] = Lane(old, k)[i]

LEMMA GrowsWaits ==
    ASSUME NEW n \in Nat, NEW qq \in QueueType(n), NEW new, NEW l \in Lanes, NEW c,
           Grows(qq, new, l, c)
    PROVE  /\ \A x : Waits(new, x) <=> Waits(qq, x) \/ x = c
           /\ Unique(qq) /\ (c \in Tasks => ~ Waits(qq, c)) => Unique(new)
           /\ Keeps(qq, new)
           /\ \A k \in Lanes : \A i \in DOMAIN Lane(new, k) :
                 \/ i \in DOMAIN Lane(qq, k) /\ Lane(new, k)[i] = Lane(qq, k)[i]
                 \/ k = l /\ Lane(new, k)[i] = c /\ \A j \in DOMAIN Lane(qq, k) : j < i
<1> DEFINE S == Tasks \cup {NoTask} \cup BlockersUpTo(n)
           s == Lane(qq, l)
<1>1. s \in Seq(S) /\ Lane(new, l) = Append(s, c)
  BY LaneTypes DEF Grows
<1>2. /\ Len(s) \in Nat /\ DOMAIN s = 1 .. Len(s)
      /\ DOMAIN Lane(new, l) = 1 .. Len(s) + 1
      /\ Lane(new, l)[Len(s) + 1] = c
      /\ \A i \in 1 .. Len(s) : Lane(new, l)[i] = s[i]
  <2> HIDE DEF S, s
  <2> QED BY <1>1
<1>3. \A k \in Lanes \ {l} : Lane(new, k) = Lane(qq, k)
  BY DEF Grows
<1>4. \A k \in Lanes : \A i \in DOMAIN Lane(new, k) :
         \/ i \in DOMAIN Lane(qq, k) /\ Lane(new, k)[i] = Lane(qq, k)[i]
         \/ k = l /\ i = Len(s) + 1 /\ Lane(new, k)[i] = c
  BY <1>2, <1>3
<1>5. \A k \in Lanes : \A i \in DOMAIN Lane(qq, k) :
         i \in DOMAIN Lane(new, k) /\ Lane(new, k)[i] = Lane(qq, k)[i]
  BY <1>2, <1>3
<1>6. Len(s) + 1 \in DOMAIN Lane(new, l) /\ Lane(new, l)[Len(s) + 1] = c
  BY <1>2
<1>7. \A x : Waits(new, x) <=> Waits(qq, x) \/ x = c
  BY <1>4, <1>5, <1>6 DEF Waits
<1>8. ASSUME Unique(qq), c \in Tasks => ~ Waits(qq, c) PROVE Unique(new)
  <2> SUFFICES ASSUME NEW k \in Lanes, NEW m \in Lanes,
                      NEW i \in DOMAIN Lane(new, k), NEW j \in DOMAIN Lane(new, m),
                      Lane(new, k)[i] = Lane(new, m)[j], Lane(new, k)[i] \in Tasks
               PROVE  k = m /\ i = j
    BY DEF Unique
  <2>1. CASE i \in DOMAIN Lane(qq, k) /\ j \in DOMAIN Lane(qq, m)
    BY <1>5, <1>8, <2>1 DEF Unique
  <2>2. CASE i \notin DOMAIN Lane(qq, k) /\ j \notin DOMAIN Lane(qq, m)
    BY <1>4, <2>2
  <2>3. CASE i \notin DOMAIN Lane(qq, k) /\ j \in DOMAIN Lane(qq, m)
    <3>1. Lane(new, k)[i] = c /\ Lane(qq, m)[j] = c
      BY <1>4, <1>5, <2>3
    <3> QED BY <1>8, <2>3, <3>1 DEF Waits
  <2>4. CASE i \in DOMAIN Lane(qq, k) /\ j \notin DOMAIN Lane(qq, m)
    <3>1. Lane(new, m)[j] = c /\ Lane(qq, k)[i] = c
      BY <1>4, <1>5, <2>4
    <3> QED BY <1>8, <2>4, <3>1 DEF Waits
  <2> QED BY <2>1, <2>2, <2>3, <2>4
<1>9. \A j \in DOMAIN s : j < Len(s) + 1
  BY <1>2
<1> QED BY <1>4, <1>5, <1>7, <1>8, <1>9 DEF Keeps

LEMMA ShrinksWaits ==
    ASSUME NEW n \in Nat, NEW qq \in QueueType(n), NEW new, NEW l \in Lanes,
           Shrinks(qq, new, l)
    PROVE  /\ \A x : Waits(qq, x) <=> Waits(new, x) \/ x = Head(Lane(qq, l))
           /\ Unique(qq) => Unique(new)
           /\ Unique(qq) /\ Head(Lane(qq, l)) \in Tasks => ~ Waits(new, Head(Lane(qq, l)))
           /\ 1 \in DOMAIN Lane(qq, l) /\ Lane(qq, l)[1] = Head(Lane(qq, l))
           /\ \A i \in DOMAIN Lane(new, l) :
                 /\ i \in Nat \ {0} /\ i + 1 \in DOMAIN Lane(qq, l)
                 /\ Lane(new, l)[i] = Lane(qq, l)[i + 1]
           /\ \A i \in DOMAIN Lane(qq, l) :
                 /\ i \in Nat \ {0}
                 /\ i # 1 => i - 1 \in DOMAIN Lane(new, l)
<1> DEFINE S == Tasks \cup {NoTask} \cup BlockersUpTo(n)
           s == Lane(qq, l)
<1>1. s \in Seq(S) /\ s # <<>> /\ Lane(new, l) = Tail(s)
  BY LaneTypes DEF Shrinks
<1>2. /\ Len(s) \in Nat \ {0} /\ DOMAIN s = 1 .. Len(s)
      /\ DOMAIN Lane(new, l) = 1 .. Len(s) - 1
      /\ Head(s) = s[1]
      /\ \A i \in 1 .. Len(s) - 1 : Lane(new, l)[i] = s[i + 1]
  <2> HIDE DEF S, s
  <2> QED BY <1>1, HeadTailProperties, LenProperties
<1>3. \A k \in Lanes \ {l} : Lane(new, k) = Lane(qq, k)
  BY DEF Shrinks
<1> DEFINE At(k, i) == IF k = l THEN i + 1 ELSE i
<1>4. ASSUME NEW k \in Lanes, NEW i \in DOMAIN Lane(new, k)
      PROVE  At(k, i) \in DOMAIN Lane(qq, k) /\ Lane(new, k)[i] = Lane(qq, k)[At(k, i)]
  BY <1>2, <1>3
<1>5. ASSUME NEW k \in Lanes, NEW i \in DOMAIN Lane(qq, k)
      PROVE  \/ k = l /\ i = 1
             \/ \E j \in DOMAIN Lane(new, k) : Lane(new, k)[j] = Lane(qq, k)[i]
  <2>1. CASE k = l /\ i # 1
    <3>1. i - 1 \in DOMAIN Lane(new, k) /\ i - 1 + 1 = i
      BY <1>2, <2>1
    <3>2. Lane(new, k)[i - 1] = s[i - 1 + 1]
      BY <1>2, <2>1, <3>1
    <3> QED BY <2>1, <3>1, <3>2
  <2>2. CASE k # l
    BY <1>3, <2>2
  <2> QED BY <2>1, <2>2
<1>6. 1 \in DOMAIN s /\ s[1] = Head(s)
  BY <1>2
<1>7. ASSUME NEW x PROVE Waits(qq, x) <=> Waits(new, x) \/ x = Head(s)
  <2>1. Waits(qq, x) => Waits(new, x) \/ x = Head(s)
    BY <1>5, <1>6 DEF Waits
  <2>2. Waits(new, x) => Waits(qq, x)
    BY <1>4 DEF Waits
  <2>3. Waits(qq, Head(s))
    BY <1>6 DEF Waits
  <2> QED BY <2>1, <2>2, <2>3
<1>8. \A k \in Lanes : \A i, j \in DOMAIN Lane(new, k) :
         (At(k, i) = At(k, j) => i = j) /\ (k = l => At(k, i) # 1)
  BY <1>2, <1>3
<1>9. ASSUME Unique(qq) PROVE Unique(new)
  <2> SUFFICES ASSUME NEW k \in Lanes, NEW m \in Lanes,
                      NEW i \in DOMAIN Lane(new, k), NEW j \in DOMAIN Lane(new, m),
                      Lane(new, k)[i] = Lane(new, m)[j], Lane(new, k)[i] \in Tasks
               PROVE  k = m /\ i = j
    BY DEF Unique
  <2>1. k = m /\ At(k, i) = At(m, j)
    <3> HIDE DEF At
    <3> QED BY <1>4, <1>9 DEF Unique
  <2> QED BY <1>8, <2>1
<1>10. ASSUME Unique(qq), Head(s) \in Tasks, Waits(new, Head(s)) PROVE FALSE
  <2>1. PICK k \in Lanes : \E i \in DOMAIN Lane(new, k) : Lane(new, k)[i] = Head(s)
    BY <1>10 DEF Waits
  <2>2. PICK i \in DOMAIN Lane(new, k) : Lane(new, k)[i] = Head(s)
    BY <2>1
  <2>3. k = l /\ At(k, i) = 1
    <3> HIDE DEF At
    <3> QED BY <1>4, <1>6, <1>10, <2>2 DEF Unique
  <2> QED BY <1>8, <2>3
<1>11. \A i \in DOMAIN Lane(new, l) : i \in Nat \ {0} /\ i + 1 \in DOMAIN s
  BY <1>2
<1>12. \A i \in DOMAIN s : i \in Nat \ {0} /\ (i # 1 => i - 1 \in DOMAIN Lane(new, l))
  BY <1>2
<1> QED BY <1>2, <1>6, <1>7, <1>9, <1>10, <1>11, <1>12

\* Nothing but null tasks is added to the lanes.
Pads(old, new) ==
    /\ Keeps(old, new)
    /\ \A k \in Lanes : \A i \in DOMAIN Lane(new, k) :
          \/ i \in DOMAIN Lane(old, k) /\ Lane(new, k)[i] = Lane(old, k)[i]
          \/ Lane(new, k)[i] = NoTask

LEMMA PadsWait ==
    ASSUME NEW qq, NEW new, Pads(qq, new)
    PROVE  /\ \A x : Waits(new, x) => Waits(qq, x) \/ x = NoTask
           /\ \A x : Waits(qq, x) => Waits(new, x)
           /\ Unique(qq) => Unique(new)
<1>1. \A x : Waits(new, x) => Waits(qq, x) \/ x = NoTask
  BY DEF Waits, Pads, Keeps
<1>2. \A x : Waits(qq, x) => Waits(new, x)
  BY DEF Waits, Pads, Keeps
<1>3. ASSUME Unique(qq) PROVE Unique(new)
  <2> SUFFICES ASSUME NEW k \in Lanes, NEW m \in Lanes,
                      NEW i \in DOMAIN Lane(new, k), NEW j \in DOMAIN Lane(new, m),
                      Lane(new, k)[i] = Lane(new, m)[j], Lane(new, k)[i] \in Tasks
               PROVE  k = m /\ i = j
    BY DEF Unique
  <2> QED BY <1>3, TasksAssumption DEF Unique, Pads, Keeps
<1> QED BY <1>1, <1>2, <1>3

\* The null tasks of the destructor go behind the tasks of the user interface.
LEMMA NullsPad ==
    ASSUME NEW n \in Nat, NEW qq \in QueueType(n), NEW new,
           new = [qq EXCEPT !.ui = @ \o NullTasks]
    PROVE  /\ new \in QueueType(n)
           /\ new.filters = qq.filters /\ new.next = qq.next /\ new.batch = qq.batch
           /\ Pads(qq, new)
<1> DEFINE S == Tasks \cup {NoTask}
           s == qq.ui
<1>1. Cardinality(Workers) \in Nat
  BY WorkersAssumption, FS_CardinalityType
<1>2. /\ NullTasks \in Seq(S) /\ Len(NullTasks) = Cardinality(Workers)
      /\ \A i \in 1 .. Cardinality(Workers) : NullTasks[i] = NoTask
  BY <1>1 DEF NullTasks
<1>3. s \in Seq(S)
  BY DEF QueueType
<1>4. /\ s \o NullTasks \in Seq(S) /\ Len(s) \in Nat
      /\ DOMAIN s = 1 .. Len(s) /\ DOMAIN (s \o NullTasks) = 1 .. Len(s) + Cardinality(Workers)
      /\ \A i \in 1 .. Len(s) : (s \o NullTasks)[i] = s[i]
      /\ \A i \in 1 .. Len(s) + Cardinality(Workers) : i > Len(s) => (s \o NullTasks)[i] = NoTask
  <2> HIDE DEF S, s
  <2>1. /\ s \o NullTasks \in Seq(S)
        /\ Len(s \o NullTasks) = Len(s) + Cardinality(Workers)
        /\ \A i \in 1 .. Len(s) + Cardinality(Workers) : (s \o NullTasks)[i] =
              IF i <= Len(s) THEN s[i] ELSE NullTasks[i - Len(s)]
    BY <1>2, <1>3, ConcatProperties
  <2>2. Len(s) \in Nat /\ DOMAIN s = 1 .. Len(s)
    BY <1>3, LenProperties
  <2>3. DOMAIN (s \o NullTasks) = 1 .. Len(s) + Cardinality(Workers)
    BY <2>1, LenProperties
  <2>4. \A i \in 1 .. Len(s) : (s \o NullTasks)[i] = s[i]
    BY <1>1, <2>1, <2>2
  <2>5. ASSUME NEW i \in 1 .. Len(s) + Cardinality(Workers), i > Len(s)
        PROVE  (s \o NullTasks)[i] = NoTask
    <3>1. i - Len(s) \in 1 .. Cardinality(Workers) /\ ~(i <= Len(s))
      BY <1>1, <2>2, <2>5
    <3> QED BY <1>2, <2>1, <3>1
  <2> QED BY <2>1, <2>2, <2>3, <2>4, <2>5
<1>5. /\ new.ui = s \o NullTasks /\ new.batch = qq.batch /\ new.filters = qq.filters
      /\ new.next = qq.next /\ new \in QueueType(n)
  BY <1>4 DEF QueueType
<1>6. Lane(new, UiLane) = s \o NullTasks /\ Lane(qq, UiLane) = s
  BY <1>5 DEF Lane
<1>7. \A k \in Lanes \ {UiLane} : Lane(new, k) = Lane(qq, k)
  BY <1>5 DEF Lane, Places
<1> HIDE DEF s
<1>8. ASSUME NEW k \in Lanes, NEW i \in DOMAIN Lane(qq, k)
      PROVE  i \in DOMAIN Lane(new, k) /\ Lane(new, k)[i] = Lane(qq, k)[i]
  <2>1. CASE k = UiLane
    <3>1. i \in 1 .. Len(s)
      BY <1>4, <1>6, <2>1
    <3>2. i \in 1 .. Len(s) + Cardinality(Workers)
      BY <1>1, <1>4, <3>1
    <3> QED BY <1>4, <1>6, <2>1, <3>1, <3>2
  <2> QED BY <1>7, <2>1
<1>9. ASSUME NEW k \in Lanes, NEW i \in DOMAIN Lane(new, k)
      PROVE  \/ i \in DOMAIN Lane(qq, k) /\ Lane(new, k)[i] = Lane(qq, k)[i]
             \/ Lane(new, k)[i] = NoTask
  <2>1. CASE k = UiLane
    <3>1. i \in 1 .. Len(s) + Cardinality(Workers)
      BY <1>4, <1>6, <2>1
    <3>2. CASE i > Len(s)
      BY <1>4, <1>6, <2>1, <3>1, <3>2
    <3>3. CASE ~(i > Len(s))
      <4>1. i \in 1 .. Len(s)
        BY <1>1, <1>4, <3>1, <3>3
      <4> QED BY <1>4, <1>6, <2>1, <4>1
    <3> QED BY <3>2, <3>3
  <2> QED BY <1>7, <2>1
<1>10. Pads(qq, new)
  BY <1>8, <1>9 DEF Pads, Keeps
<1> QED BY <1>5, <1>10

-----------------------------------------------------------------------------
(* The commands.                                                           *)

LEMMA BlockerFacts ==
    ASSUME NEW r \in Nat
    PROVE  /\ Blocker(r) # NoTask /\ Blocker(r) \notin Tasks /\ NoTask \notin Tasks
           /\ \A s \in Nat : Blocker(r) = Blocker(s) => r = s
<1>1. Blocker(r) \in {"blocker"} \X Nat
  BY DEF Blocker
<1>2. Blocker(r) # NoTask
  BY DEF Blocker, NoTask
<1>3. Blocker(r) \notin Tasks /\ NoTask \notin Tasks
  BY <1>1, TasksAssumption
<1>4. \A s \in Nat : Blocker(r) = Blocker(s) => r = s
  BY DEF Blocker
<1> QED BY <1>2, <1>3, <1>4

LEMMA CurrentFacts ==
    ASSUME released \in Nat
    PROVE  /\ Current \notin Tasks /\ Current # NoTask
           /\ Current \in BlockersUpTo(released + 1)
           /\ \A n \in 0 .. released : Current \notin BlockersUpTo(n)
           /\ NoTask \notin Tasks /\ NoTask \notin BlockersUpTo(released + 1)
           /\ Tasks \cap BlockersUpTo(released + 1) = {}
<1>1. released + 1 \in Nat /\ \A n \in 0 .. released : n # released + 1
  OBVIOUS
<1>2. Current \notin Tasks /\ Current # NoTask /\ Current \in BlockersUpTo(released + 1)
  BY <1>1, BlockerFacts DEF Current, BlockersUpTo
<1>3. ASSUME NEW n \in 0 .. released PROVE Current \notin BlockersUpTo(n)
  <2>1. \A r \in 0 .. n : r \in Nat /\ r # released + 1
    OBVIOUS
  <2> QED BY <1>1, <2>1, BlockerFacts DEF Current, BlockersUpTo
<1>4. \A r \in 0 .. released + 1 : Blocker(r) # NoTask /\ Blocker(r) \notin Tasks /\ NoTask \notin Tasks
  <2>1. \A r \in 0 .. released + 1 : r \in Nat
    OBVIOUS
  <2> QED BY <2>1, BlockerFacts
<1>5. NoTask \notin Tasks /\ NoTask \notin BlockersUpTo(released + 1)
      /\ Tasks \cap BlockersUpTo(released + 1) = {}
  BY <1>1, <1>4 DEF BlockersUpTo
<1> QED BY <1>2, <1>3, <1>5

LEMMA WorkerSets ==
    ASSUME NEW S, S \subseteq Workers
    PROVE  /\ IsFiniteSet(S) /\ Cardinality(S) \in Nat
           /\ Cardinality(S) <= Cardinality(Workers) /\ Cardinality(Workers) \in Nat \ {0}
           /\ Cardinality(S) = Cardinality(Workers) => S = Workers
           /\ \A w \in Workers \ S : Cardinality(S \cup {w}) = Cardinality(S) + 1
           /\ \A w \in S : Cardinality(S \ {w}) = Cardinality(S) - 1
           /\ Cardinality({}) = 0 /\ (Cardinality(S) = 0 => S = {})
<1>1. IsFiniteSet(Workers) /\ Workers # {}
  BY WorkersAssumption
<1>2. /\ IsFiniteSet(S) /\ Cardinality(S) <= Cardinality(Workers)
      /\ Cardinality(S) = Cardinality(Workers) => S = Workers
  BY <1>1, FS_Subset
<1>3. Cardinality(S) \in Nat /\ Cardinality(Workers) \in Nat /\ Cardinality(Workers) # 0
  BY <1>1, <1>2, FS_CardinalityType, FS_EmptySet
<1>4. \A w \in Workers \ S : Cardinality(S \cup {w}) = Cardinality(S) + 1
  BY <1>2, FS_AddElement
<1>5. \A w \in S : Cardinality(S \ {w}) = Cardinality(S) - 1
  BY <1>2, FS_RemoveElement
<1>6. Cardinality({}) = 0 /\ (Cardinality(S) = 0 => S = {})
  BY <1>2, FS_EmptySet
<1> QED BY <1>2, <1>3, <1>4, <1>5, <1>6

\* What a thread takes: a command, and never an old blocker.
LEMMA TakesCommand ==
    ASSUME IInv, NEW l \in Lanes, Takes(q, l)
    PROVE  /\ DequeuedTask(q) \in Tasks \cup {NoTask, Current}
           /\ Waits(q, DequeuedTask(q))
           /\ DequeuedTask(q) = Current => l = BatchLane
<1> DEFINE s == Lane(q, l)
<1>1. released + 1 \in Nat /\ q \in QueueType(released + 1)
  BY DEF IInv, Types
<1>2. s \in Seq(Tasks \cup {NoTask} \cup BlockersUpTo(released + 1)) /\ s # <<>>
  BY <1>1, LaneTypes DEF Takes, Shrinks
<1>3. 1 \in DOMAIN s /\ DequeuedTask(q) = s[1]
  <2>1. DequeuedTask(q) = Head(s)
    BY DEF Takes
  <2> HIDE DEF s
  <2> QED BY <1>2, <2>1
<1>4. Waits(q, DequeuedTask(q))
  BY <1>3 DEF Waits
<1>5. CASE l = BatchLane
  <2>1. s = q.batch
    BY <1>5 DEF Lane, UiLane, BatchLane
  <2> QED BY <1>3, <1>4, <1>5, <2>1 DEF IInv, Rounds
<1>6. CASE l # BatchLane
  <2>1. s \in Seq(Tasks \cup {NoTask})
    BY <1>1, <1>6, LaneTypes
  <2>2. s[1] \in Tasks \cup {NoTask}
    <3> HIDE DEF s
    <3> QED BY <1>2, <2>1
  <2> QED BY <1>1, <1>3, <1>4, <2>2, CurrentFacts DEF IInv, Types
<1> QED BY <1>5, <1>6

-----------------------------------------------------------------------------
(* Each part of the invariant is preserved.                                *)

LEMMA PushTypes ==
    ASSUME IInv, NEW t \in Tasks, Push(t)
    PROVE  /\ q' \in QueueType(released + 1) /\ waiting' = {}
           /\ submitted' \subseteq Tasks /\ submitted \subseteq submitted'
           /\ \E l \in Lanes : Grows(q, q', l, t)
<1>1. released + 1 \in Nat /\ q \in QueueType(released + 1) /\ submitted \subseteq Tasks
  BY DEF IInv, Types
<1> QED BY <1>1, EnqueueGrows DEF Push, NotifyAll

LEMMA TakeTypes ==
    ASSUME IInv, NEW w \in Workers, Take(w)
    PROVE  \E l \in Lanes :
              /\ Takes(q, l)
              /\ l = BatchLane => \A k \in Lanes \ {BatchLane} : Lane(q, k) = <<>>
<1>1. released \in Nat /\ q \in QueueType(released + 1) /\ Turning(q)
  BY DEF IInv, Types, Turns, Turning
<1>2. QueueSize(q) # 0
  BY DEF Take, Queued
<1> QED BY <1>1, <1>2, TakesSome

LEMMA BlockersFinite ==
    ASSUME IInv
    PROVE  IsFiniteSet(Blockers) /\ Cardinality(Blockers) \in Nat
           /\ (Cardinality(Blockers) = 0 => Blockers = {})
<1>1. q.batch \in Seq(Tasks \cup BlockersUpTo(released + 1))
  BY DEF IInv, Types, QueueType
<1>2. IsFiniteSet(DOMAIN q.batch)
  <2>1. Len(q.batch) \in Nat /\ DOMAIN q.batch = 1 .. Len(q.batch)
    BY <1>1, LenProperties
  <2> QED BY <2>1, FS_Interval
<1>3. Blockers \subseteq DOMAIN q.batch
  BY DEF Blockers
<1> QED BY <1>2, <1>3, FS_Subset, FS_CardinalityType, FS_EmptySet

\* The end of an iteration: a thread that was busy with something else than the
\* current blocker has nothing to do any more.
LEMMA EndTypes ==
    ASSUME IInv, NEW w \in Workers, pc[w] \in {"run", "blocked"}, EndIteration(w),
           pc[w] = "blocked" => cmd[w] # Current, released' = released
    PROVE  /\ running' = Cardinality(Busy')
           /\ pc' \in [Workers -> Pcs]
           /\ cmd' \in [Workers -> Tasks \cup {NoTask} \cup BlockersUpTo(released + 1)]
           /\ Settled' = Settled
<1>1. /\ pc \in [Workers -> Pcs] /\ running = Cardinality(Busy)
      /\ cmd \in [Workers -> Tasks \cup {NoTask} \cup BlockersUpTo(released + 1)]
  BY DEF IInv, Types
<1>2. pc' = [pc EXCEPT ![w] = "check"] /\ cmd' = [cmd EXCEPT ![w] = NoTask]
      /\ running' = running - 1
  BY DEF EndIteration
<1>3. Busy' = Busy \ {w} /\ w \in Busy
  BY <1>1, <1>2 DEF Busy, Pcs
<1>4. running' = Cardinality(Busy')
  <2>1. Busy \subseteq Workers
    BY DEF Busy
  <2> QED BY <1>1, <1>2, <1>3, <2>1, WorkerSets
<1>5. pc' \in [Workers -> Pcs]
  BY <1>1, <1>2 DEF Pcs
<1>6. cmd' \in [Workers -> Tasks \cup {NoTask} \cup BlockersUpTo(released + 1)]
  BY <1>1, <1>2
<1>7. Settled' = Settled
  BY <1>1, <1>2 DEF Settled, Current
<1> QED BY <1>4, <1>5, <1>6, <1>7

LEMMA TypesStep ==
    ASSUME IInv, [Next]_vars
    PROVE  Types'
<1>0. released \in Nat /\ released + 1 \in Nat
  BY DEF IInv, Types
<1>1. CASE UNCHANGED vars
  BY <1>1 DEF IInv, Types, vars, poolVars, waitVars, historyVars, Busy, Settled, Current
<1>2. ASSUME NEW t \in Tasks, Submit(t) PROVE Types'
  <2>1. /\ q' \in QueueType(released + 1) /\ waiting' = {}
        /\ submitted' \subseteq Tasks /\ submitted \subseteq submitted'
    BY <1>2, PushTypes DEF Submit
  <2>2. UNCHANGED <<running, quit, pc, cmd, todo, wait, arrived, released, dtor,
                    before, late, bypass>>
    BY <1>2 DEF Submit, waitVars
  <2> QED BY <2>1, <2>2 DEF IInv, Types, Busy, Settled, Current
<1>3. ASSUME NEW w \in Workers, CheckQuit(w) PROVE Types'
  <2>1. /\ pc[w] = "check" /\ pc' = [pc EXCEPT ![w] = IF quit THEN "exit" ELSE "get"]
        /\ UNCHANGED <<q, waiting, running, quit, cmd, todo, wait, arrived, released, dtor,
                       submitted, before, late, bypass>>
    BY <1>3 DEF CheckQuit, waitVars, historyVars
  <2>2. pc' \in [Workers -> Pcs] /\ Busy' = Busy /\ Settled' = Settled
    BY <2>1 DEF IInv, Types, Busy, Settled, Current, Pcs
  <2> QED BY <2>1, <2>2 DEF IInv, Types
<1>4. ASSUME NEW w \in Workers, Sleep(w) PROVE Types'
  BY <1>4 DEF Sleep, waitVars, historyVars, IInv, Types, Busy, Settled, Current
<1>5. ASSUME NEW w \in Workers, Take(w) PROVE Types'
  <2> DEFINE t == DequeuedTask(q)
  <2>1. /\ pc[w] = "get" /\ running' = running + 1 /\ q' = DequeueRest(q)
        /\ cmd' = [cmd EXCEPT ![w] = t] /\ pc' = [pc EXCEPT ![w] = "run"]
        /\ todo' = [todo EXCEPT ![w] = IF t \in Tasks THEN Spawns[t] ELSE <<>>]
        /\ late' = [late EXCEPT ![w] = IF quit /\ t \in Tasks THEN @ + 1 ELSE @]
        /\ bypass' = IF NextClass(q) = FilterClass THEN CountTurns(ClassOf[t]) ELSE bypass
        /\ UNCHANGED <<waiting, quit, wait, arrived, released, dtor, submitted, before>>
    BY <1>5 DEF Take, waitVars
  <2>2. q' \in QueueType(released + 1) /\ t \in Tasks \cup {NoTask, Current}
    BY <1>5, <2>1, TakeTypes, TakesCommand DEF Takes
  <2> HIDE DEF t
  <2>3. /\ pc \in [Workers -> Pcs] /\ todo \in [Workers -> Seq(Tasks)]
        /\ cmd \in [Workers -> Tasks \cup {NoTask} \cup BlockersUpTo(released + 1)]
        /\ late \in [Workers -> Nat] /\ bypass \in [Filters -> Nat]
        /\ running = Cardinality(Busy) /\ arrived = Cardinality(Settled)
    BY DEF IInv, Types
  <2>4. pc' \in [Workers -> Pcs]
    BY <2>1, <2>3 DEF Pcs
  <2>5. cmd' \in [Workers -> Tasks \cup {NoTask} \cup BlockersUpTo(released + 1)]
    BY <1>0, <2>1, <2>2, <2>3, CurrentFacts
  <2>6. todo' \in [Workers -> Seq(Tasks)]
    <3>1. (IF t \in Tasks THEN Spawns[t] ELSE <<>>) \in Seq(Tasks)
      BY SpawnsAssumption
    <3> QED BY <2>1, <2>3, <3>1
  <2>7. late' \in [Workers -> Nat] /\ bypass' \in [Filters -> Nat]
    <3>1. \A f \in Filters : bypass[f] \in Nat /\ bypass[f] + 1 \in Nat
      BY <2>3
    <3> QED BY <2>1, <2>3, <3>1 DEF CountTurns
  <2>8. Busy' = Busy \cup {w} /\ w \notin Busy /\ Busy \subseteq Workers
    BY <2>1, <2>3 DEF Busy
  <2>9. running' = Cardinality(Busy')
    BY <2>1, <2>3, <2>8, WorkerSets
  <2>10. Settled' = Settled
    BY <2>1, <2>3 DEF Settled, Current
  <2> QED BY <2>1, <2>2, <2>4, <2>5, <2>6, <2>7, <2>9, <2>10 DEF IInv, Types
<1>6. ASSUME NEW w \in Workers, Spawn(w) PROVE Types'
  <2>1. todo[w] \in Seq(Tasks) /\ todo[w] # <<>> /\ todo \in [Workers -> Seq(Tasks)]
    BY <1>6 DEF IInv, Types, Spawn
  <2>2. Head(todo[w]) \in Tasks /\ Tail(todo[w]) \in Seq(Tasks)
    BY <2>1
  <2>3. /\ q' \in QueueType(released + 1) /\ waiting' = {}
        /\ submitted' \subseteq Tasks /\ submitted \subseteq submitted'
    BY <1>6, <2>2, PushTypes DEF Spawn
  <2>4. /\ todo' = [todo EXCEPT ![w] = Tail(@)]
        /\ UNCHANGED <<running, quit, pc, cmd, wait, arrived, released, dtor,
                       before, late, bypass>>
    BY <1>6 DEF Spawn, waitVars
  <2>5. todo' \in [Workers -> Seq(Tasks)]
    BY <2>1, <2>2, <2>4
  <2> QED BY <2>3, <2>4, <2>5 DEF IInv, Types, Busy, Settled, Current
<1>7. ASSUME NEW w \in Workers, Finish(w) \/ Unblock(w) PROVE Types'
  <2>1. /\ pc[w] \in {"run", "blocked"} /\ EndIteration(w)
        /\ UNCHANGED <<q, waiting, quit, todo, wait, arrived, released, dtor,
                       submitted, before, late, bypass>>
    BY <1>7 DEF Finish, Unblock, waitVars, historyVars
  <2>2. pc[w] = "blocked" => cmd[w] # Current
    <3>1. pc[w] = "blocked" => cmd[w] \in BlockersUpTo(released)
      BY <1>7 DEF Finish, Unblock, BlockersUpTo
    <3> QED BY <1>0, <3>1, CurrentFacts
  <2>3. /\ running' = Cardinality(Busy') /\ pc' \in [Workers -> Pcs] /\ Settled' = Settled
        /\ cmd' \in [Workers -> Tasks \cup {NoTask} \cup BlockersUpTo(released + 1)]
    BY <2>1, <2>2, EndTypes
  <2> QED BY <2>1, <2>3 DEF IInv, Types
<1>8. ASSUME NEW w \in Workers, Arrive(w) PROVE Types'
  <2>1. /\ pc[w] = "run" /\ cmd[w] \notin Tasks \cup {NoTask}
        /\ arrived' = arrived + 1 /\ pc' = [pc EXCEPT ![w] = "blocked"]
        /\ UNCHANGED <<q, waiting, running, quit, cmd, todo, wait, released, dtor,
                       submitted, before, late, bypass>>
    BY <1>8 DEF Arrive, historyVars
  <2>2. cmd[w] = Current
    BY <2>1 DEF IInv, Rounds
  <2>3. Settled' = Settled \cup {w} /\ w \notin Settled /\ Settled \subseteq Workers
    BY <2>1, <2>2 DEF Settled, Current, IInv, Types
  <2>4. arrived' = Cardinality(Settled')
    BY <2>1, <2>3, WorkerSets DEF IInv, Types
  <2>5. pc' \in [Workers -> Pcs] /\ Busy' = Busy
    BY <2>1 DEF Busy, IInv, Types, Pcs
  <2> QED BY <2>1, <2>4, <2>5 DEF IInv, Types
<1>9. CASE CallWaitForAll
  <2>1. /\ wait.pc = "idle" /\ wait.calls < MaxCalls /\ arrived' = 0 /\ before' = submitted
        /\ wait' = [wait EXCEPT !.pc = "enqueue", !.sent = 0, !.calls = @ + 1]
        /\ UNCHANGED <<q, waiting, running, quit, pc, cmd, todo, released, dtor,
                       submitted, late, bypass>>
    BY <1>9 DEF CallWaitForAll, poolVars
  <2>2. Settled = {}
    <3>1. /\ Cardinality(Blockers) + Cardinality(Holders) = 0
          /\ Holders \subseteq Workers /\ Settled \subseteq Holders
      BY <2>1 DEF IInv, Rounds, Holders, Settled
    <3>2. Cardinality(Holders) = 0
      BY <3>1, WorkerSets, BlockersFinite
    <3> QED BY <3>1, <3>2, WorkerSets
  <2>3. Busy' = Busy /\ Settled' = {} /\ Cardinality({}) = 0
    BY <2>1, <2>2, FS_EmptySet DEF Busy, Settled, Current
  <2>4. wait' \in CallType
    <3>1. wait \in CallType /\ Cardinality(Workers) \in Nat
      BY WorkersAssumption, FS_CardinalityType DEF IInv, Types
    <3>2. wait.calls + 1 \in 0 .. MaxCalls /\ 0 \in 0 .. Cardinality(Workers)
      BY <2>1, <3>1, MaxCallsAssumption DEF CallType
    <3> QED BY <2>1, <3>1, <3>2 DEF CallType
  <2> QED BY <2>1, <2>3, <2>4 DEF IInv, Types
<1>10. CASE EnqueueBlocker
  <2>1. /\ wait.pc = "enqueue" /\ wait.sent < Cardinality(Workers)
        /\ q' = EnqueueBatch(q, Current) /\ waiting' = {}
        /\ wait' = [wait EXCEPT !.sent = @ + 1]
        /\ UNCHANGED <<running, quit, pc, cmd, todo, arrived, released, dtor,
                       submitted, before, late, bypass>>
    BY <1>10 DEF EnqueueBlocker, PushBlocker, BlockerCount, NotifyAll, Current, historyVars
  <2>2. q' \in QueueType(released + 1)
    BY <1>0, <2>1, BatchGrows, CurrentFacts DEF IInv, Types
  <2>3. wait' \in CallType
    <3>1. wait \in CallType /\ Cardinality(Workers) \in Nat
      BY WorkersAssumption, FS_CardinalityType DEF IInv, Types
    <3>2. wait.sent + 1 \in 0 .. Cardinality(Workers)
      BY <2>1, <3>1 DEF CallType
    <3> QED BY <2>1, <3>1, <3>2 DEF CallType
  <2> QED BY <2>1, <2>2, <2>3 DEF IInv, Types, Busy, Settled, Current
<1>11. CASE ReadQueued
  <2>1. /\ wait' = [wait EXCEPT !.pc = "release", !.hasMore = HasMoreTasks]
        /\ UNCHANGED <<q, waiting, running, quit, pc, cmd, todo, arrived, released, dtor,
                       submitted, before, late, bypass>>
    BY <1>11 DEF ReadQueued, poolVars, historyVars
  <2>2. wait' \in CallType
    <3>1. wait \in CallType
      BY DEF IInv, Types
    <3>2. HasMoreTasks \in BOOLEAN
      BY DEF HasMoreTasks
    <3> QED BY <2>1, <3>1, <3>2 DEF CallType
  <2> QED BY <2>1, <2>2 DEF IInv, Types, Busy, Settled, Current
<1>12. CASE ReleaseAll
  <2>1. /\ wait.pc = "release" /\ released' = released + 1 /\ arrived' = 0
        /\ wait' = [wait EXCEPT !.pc = IF wait.hasMore THEN "enqueue" ELSE "idle", !.sent = 0]
        /\ UNCHANGED <<q, waiting, running, quit, pc, cmd, todo, dtor,
                       submitted, before, late, bypass>>
    BY <1>12 DEF ReleaseAll, poolVars, historyVars
  <2>2. /\ released' \in Nat /\ released' + 1 \in Nat
        /\ BlockersUpTo(released + 1) \subseteq BlockersUpTo(released' + 1)
    BY <1>0, <2>1 DEF BlockersUpTo
  <2>3. q' \in QueueType(released' + 1)
    <3>1. q.batch \in Seq(Tasks \cup BlockersUpTo(released + 1)) /\ q \in QueueType(released + 1)
      BY DEF IInv, Types, QueueType
    <3>2. q.batch \in Seq(Tasks \cup BlockersUpTo(released' + 1))
      BY <2>2, <3>1, SeqMonotonic
    <3> QED BY <2>1, <3>1, <3>2 DEF QueueType
  <2>4. cmd' \in [Workers -> Tasks \cup {NoTask} \cup BlockersUpTo(released' + 1)]
    BY <2>1, <2>2 DEF IInv, Types
  <2>5. Settled' = {}
    <3>1. Current' = Blocker(released' + 1)
      BY DEF Current
    <3>2. released' + 1 \in Nat /\ \A r \in 0 .. released + 1 : r \in Nat /\ r # released' + 1
      BY <1>0, <2>1
    <3>3. Blocker(released' + 1) \notin Tasks \cup {NoTask} \cup BlockersUpTo(released + 1)
      BY <3>2, BlockerFacts DEF BlockersUpTo
    <3> QED BY <2>1, <3>1, <3>3 DEF IInv, Types, Settled
  <2>6. Busy' = Busy
    BY <2>1 DEF Busy
  <2>7. wait' \in CallType
    <3>1. wait \in CallType /\ Cardinality(Workers) \in Nat
      BY WorkersAssumption, FS_CardinalityType DEF IInv, Types
    <3>2. 0 \in 0 .. Cardinality(Workers)
      BY <3>1
    <3> QED BY <2>1, <3>1, <3>2 DEF CallType
  <2> QED BY <2>1, <2>2, <2>3, <2>4, <2>5, <2>6, <2>7, FS_EmptySet DEF IInv, Types
<1>13. CASE SetQuit \/ Join
  BY <1>13 DEF SetQuit, Join, poolVars, waitVars, historyVars, IInv, Types, Busy, Settled, Current
<1>14. CASE PushNullTasks
  <2>1. /\ q' = [q EXCEPT !.ui = @ \o NullTasks] /\ waiting' = {} /\ dtor' = "join"
        /\ UNCHANGED <<running, quit, pc, cmd, todo, wait, arrived, released,
                       submitted, before, late, bypass>>
    BY <1>14 DEF PushNullTasks, NotifyAll, waitVars, historyVars
  <2>2. q' \in QueueType(released + 1)
    BY <1>0, <2>1, NullsPad DEF IInv, Types
  <2> QED BY <2>1, <2>2 DEF IInv, Types, Busy, Settled, Current
<1>15. CASE Gone
  BY <1>1, <1>15 DEF Gone
<1> QED
  BY <1>1, <1>2, <1>3, <1>4, <1>5, <1>6, <1>7, <1>8, <1>9, <1>10, <1>11, <1>12, <1>13,
     <1>14, <1>15 DEF Next, Worker, Waiter, Destructor

LEMMA HandsStep ==
    ASSUME IInv, [Next]_vars
    PROVE  Hands'
<1>0. /\ released \in Nat /\ todo \in [Workers -> Seq(Tasks)] /\ pc \in [Workers -> Pcs]
      /\ cmd \in [Workers -> Tasks \cup {NoTask} \cup BlockersUpTo(released + 1)]
      /\ Hands
  BY DEF IInv, Types
<1>1. CASE UNCHANGED <<pc, cmd, todo, released>>
  BY <1>0, <1>1 DEF Hands
<1>2. ASSUME NEW w \in Workers, CheckQuit(w) PROVE Hands'
  BY <1>0, <1>2 DEF CheckQuit, waitVars, Hands
<1>3. ASSUME NEW w \in Workers, Take(w) PROVE Hands'
  <2> DEFINE t == DequeuedTask(q)
  <2>1. /\ pc[w] = "get" /\ UNCHANGED released
        /\ cmd' = [cmd EXCEPT ![w] = t] /\ pc' = [pc EXCEPT ![w] = "run"]
        /\ todo' = [todo EXCEPT ![w] = IF t \in Tasks THEN Spawns[t] ELSE <<>>]
    BY <1>3 DEF Take, waitVars
  <2> QED BY <1>0, <2>1 DEF Hands
<1>4. ASSUME NEW w \in Workers, Spawn(w) PROVE Hands'
  <2>1. /\ pc[w] = "run" /\ todo[w] # <<>> /\ todo' = [todo EXCEPT ![w] = Tail(@)]
        /\ UNCHANGED <<pc, cmd, released>>
    BY <1>4 DEF Spawn, waitVars
  <2>2. cmd[w] \in Tasks
    BY <1>0, <2>1 DEF Hands
  <2> QED BY <1>0, <2>1, <2>2 DEF Hands
<1>5. ASSUME NEW w \in Workers, Finish(w) \/ Unblock(w) PROVE Hands'
  <2>1. /\ pc' = [pc EXCEPT ![w] = "check"] /\ cmd' = [cmd EXCEPT ![w] = NoTask]
        /\ UNCHANGED <<todo, released>>
    BY <1>5 DEF Finish, Unblock, EndIteration, waitVars
  <2>2. todo[w] = <<>>
    BY <1>0, <1>5 DEF Finish, Unblock, Hands
  <2> QED BY <1>0, <2>1, <2>2 DEF Hands
<1>6. ASSUME NEW w \in Workers, Arrive(w) PROVE Hands'
  <2>1. /\ pc[w] = "run" /\ cmd[w] \notin Tasks \cup {NoTask}
        /\ pc' = [pc EXCEPT ![w] = "blocked"] /\ UNCHANGED <<cmd, todo, released>>
    BY <1>6 DEF Arrive
  <2>2. todo[w] = <<>> /\ cmd[w] \in BlockersUpTo(released + 1)
    BY <1>0, <2>1 DEF Hands
  <2> QED BY <1>0, <2>1, <2>2 DEF Hands
<1>7. CASE ReleaseAll
  <2>1. released' = released + 1 /\ UNCHANGED <<pc, cmd, todo>>
    BY <1>7 DEF ReleaseAll, poolVars
  <2>2. BlockersUpTo(released + 1) \subseteq BlockersUpTo(released' + 1)
    BY <1>0, <2>1 DEF BlockersUpTo
  <2> QED BY <1>0, <2>1, <2>2 DEF Hands
<1> QED
  BY <1>1, <1>2, <1>3, <1>4, <1>5, <1>6, <1>7
     DEF Next, Worker, Waiter, Destructor, Submit, Sleep, CallWaitForAll, EnqueueBlocker,
         ReadQueued, SetQuit, PushNullTasks, Join, Gone, vars, poolVars, waitVars

\* A thread that has a task runs it.
LEMMA TasksRun ==
    ASSUME IInv, NEW w \in Workers, cmd[w] \in Tasks
    PROVE  pc[w] = "run" /\ cmd[w] \in started \ done /\ Runs(w, cmd[w])
<1>1. released \in Nat /\ pc[w] \in Pcs
  BY DEF IInv, Types
<1>2. pc[w] = "run"
  BY <1>1, CurrentFacts DEF IInv, Hands, Pcs
<1> QED BY <1>2 DEF IInv, Once, Runs

\* A task that is enqueued for the first time.
LEMMA OncePush ==
    ASSUME IInv, NEW t \in Tasks, Push(t), t \notin submitted,
           UNCHANGED <<pc, cmd, started, done>>
    PROVE  Once'
<1>1. released + 1 \in Nat /\ q \in QueueType(released + 1) /\ Once
  BY DEF IInv, Types
<1>2. PICK l \in Lanes : Grows(q, q', l, t)
  BY PushTypes
<1>3. submitted' = submitted \cup {t}
  BY DEF Push
<1>4. ~ Waits(q, t) /\ t \notin started
  BY <1>1 DEF Once
<1>5. Unique(q') /\ \A x : Waits(q', x) <=> Waits(q, x) \/ x = t
  BY <1>1, <1>2, <1>4, GrowsWaits DEF Once
<1>6. \A w \in Workers : \A x \in Tasks : Runs(w, x)' <=> Runs(w, x)
  BY DEF Runs
<1>7. \A x \in Tasks : Waits(q', x) <=> x \in submitted' \ started'
  BY <1>1, <1>3, <1>4, <1>5 DEF Once
<1> QED BY <1>1, <1>3, <1>5, <1>6, <1>7 DEF Once

\* The task a thread is about to enqueue is new.
LEMMA SpawnsNew ==
    ASSUME IInv, NEW w \in Workers, Spawn(w)
    PROVE  /\ Head(todo[w]) \in Tasks \ submitted /\ Push(Head(todo[w]))
           /\ Head(todo[w]) \in ToSet(Spawns[cmd[w]])
           /\ cmd[w] \in Tasks /\ todo[w] \in Seq(Tasks) /\ todo[w] # <<>>
<1>1. todo[w] \in Seq(Tasks) /\ todo[w] # <<>> /\ cmd[w] \in Tasks
  BY DEF Spawn, IInv, Types, Hands
<1>2. Head(todo[w]) \in Tasks /\ Head(todo[w]) \in ToSet(todo[w])
  BY <1>1 DEF ToSet
<1>3. ToSet(todo[w]) \subseteq ToSet(Spawns[cmd[w]]) \ submitted
  BY <1>1 DEF IInv, Spawned
<1> QED BY <1>1, <1>2, <1>3 DEF Spawn

LEMMA OnceStep ==
    ASSUME IInv, [Next]_vars
    PROVE  Once'
<1>0. released \in Nat /\ released + 1 \in Nat /\ q \in QueueType(released + 1) /\ Once
      /\ pc \in [Workers -> Pcs]
      /\ cmd \in [Workers -> Tasks \cup {NoTask} \cup BlockersUpTo(released + 1)]
  BY DEF IInv, Types
<1>1. CASE UNCHANGED <<q, pc, cmd, submitted, started, done>>
  BY <1>0, <1>1 DEF Once, Runs
<1>2. ASSUME NEW t \in Tasks, Submit(t) PROVE Once'
  BY <1>2, OncePush DEF Submit
<1>3. ASSUME NEW w \in Workers, CheckQuit(w) PROVE Once'
  <2>1. /\ pc[w] = "check" /\ pc' = [pc EXCEPT ![w] = IF quit THEN "exit" ELSE "get"]
        /\ UNCHANGED <<q, cmd, submitted, started, done>>
    BY <1>3 DEF CheckQuit, historyVars
  <2>2. \A v \in Workers : \A x \in Tasks : Runs(v, x)' <=> Runs(v, x)
    BY <1>0, <2>1 DEF Runs
  <2> QED BY <1>0, <2>1, <2>2 DEF Once
<1>4. ASSUME NEW w \in Workers, Take(w) PROVE Once'
  <2> DEFINE t == DequeuedTask(q)
  <2>1. /\ pc[w] = "get" /\ q' = DequeueRest(q)
        /\ cmd' = [cmd EXCEPT ![w] = t] /\ pc' = [pc EXCEPT ![w] = "run"]
        /\ started' = started \cup ({t} \cap Tasks)
        /\ UNCHANGED <<submitted, done>>
    BY <1>4 DEF Take
  <2>2. PICK l \in Lanes : Takes(q, l)
    BY <1>4, TakeTypes
  <2>3. /\ Shrinks(q, q', l) /\ t = Head(Lane(q, l))
        /\ t \in Tasks \cup {NoTask, Current} /\ Waits(q, t)
    BY <2>1, <2>2, TakesCommand DEF Takes
  <2> HIDE DEF t
  <2>4. /\ Unique(q') /\ (t \in Tasks => ~ Waits(q', t))
        /\ \A x : Waits(q, x) <=> Waits(q', x) \/ x = t
    BY <1>0, <2>3, ShrinksWaits DEF Once
  <2>5. t \in Tasks => t \in submitted \ started
    BY <1>0, <2>3 DEF Once
  <2>6. \A v \in Workers : \A x \in Tasks : Runs(v, x)' <=> Runs(v, x) \/ (v = w /\ x = t)
    BY <1>0, <2>1 DEF Runs
  <2>7. started' \subseteq submitted' /\ done' \subseteq started'
    BY <1>0, <2>1, <2>5 DEF Once
  <2>8. \A x \in Tasks : Waits(q', x) <=> x \in submitted' \ started'
    BY <1>0, <2>1, <2>4, <2>5 DEF Once
  <2>9. \A x \in Tasks : (\E v \in Workers : Runs(v, x)') <=> x \in started' \ done'
    BY <1>0, <2>1, <2>5, <2>6 DEF Once
  <2>10. \A x \in Tasks : \A u, v \in Workers : Runs(u, x)' /\ Runs(v, x)' => u = v
    BY <1>0, <2>5, <2>6 DEF Once
  <2> QED BY <2>4, <2>7, <2>8, <2>9, <2>10 DEF Once
<1>5. ASSUME NEW w \in Workers, Spawn(w) PROVE Once'
  BY <1>5, OncePush, SpawnsNew DEF Spawn
<1>6. ASSUME NEW w \in Workers, Finish(w) PROVE Once'
  <2>1. /\ pc[w] = "run" /\ done' = done \cup ({cmd[w]} \cap Tasks)
        /\ pc' = [pc EXCEPT ![w] = "check"] /\ cmd' = [cmd EXCEPT ![w] = NoTask]
        /\ UNCHANGED <<q, submitted, started>>
    BY <1>6 DEF Finish, EndIteration
  <2>2. \A v \in Workers : \A x \in Tasks : Runs(v, x)' <=> Runs(v, x) /\ v # w
    BY <1>0, <2>1 DEF Runs
  <2>3. \A x \in Tasks : Runs(w, x) <=> cmd[w] = x
    BY <2>1 DEF Runs
  <2>4. started' \subseteq submitted' /\ done' \subseteq started'
    BY <1>0, <2>1, <2>3 DEF Once
  <2>5. \A x \in Tasks : (\E v \in Workers : Runs(v, x)') <=> x \in started' \ done'
    BY <1>0, <2>1, <2>2, <2>3 DEF Once
  <2> QED BY <1>0, <2>1, <2>2, <2>4, <2>5 DEF Once
<1>7. ASSUME NEW w \in Workers, Arrive(w) \/ Unblock(w) PROVE Once'
  <2>1. /\ UNCHANGED <<q, submitted, started, done>>
        /\ \A v \in Workers \ {w} : pc'[v] = pc[v] /\ cmd'[v] = cmd[v]
        /\ pc'[w] # "run"
    BY <1>0, <1>7 DEF Arrive, Unblock, EndIteration, historyVars
  <2>2. cmd[w] \notin Tasks
    <3>1. CASE Unblock(w)
      BY <3>1, TasksRun DEF Unblock
    <3> QED BY <1>7, <3>1 DEF Arrive
  <2>3. \A v \in Workers : \A x \in Tasks : Runs(v, x)' <=> Runs(v, x)
    BY <2>1, <2>2 DEF Runs
  <2> QED BY <1>0, <2>1, <2>3 DEF Once
<1>8. CASE EnqueueBlocker
  <2>1. q' = EnqueueBatch(q, Current) /\ UNCHANGED <<pc, cmd, submitted, started, done>>
    BY <1>8 DEF EnqueueBlocker, PushBlocker, Current, historyVars
  <2>2. Current \notin Tasks /\ Grows(q, q', BatchLane, Current) /\ BatchLane \in Lanes
    BY <1>0, <2>1, BatchGrows, CurrentFacts DEF BatchLane, Lanes
  <2>3. Unique(q') /\ \A x : Waits(q', x) <=> Waits(q, x) \/ x = Current
    BY <1>0, <2>2, GrowsWaits DEF Once
  <2>4. \A v \in Workers : \A x \in Tasks : Runs(v, x)' <=> Runs(v, x)
    BY <2>1 DEF Runs
  <2> QED BY <1>0, <2>1, <2>2, <2>3, <2>4 DEF Once
<1>9. CASE PushNullTasks
  <2>1. q' = [q EXCEPT !.ui = @ \o NullTasks] /\ UNCHANGED <<pc, cmd, submitted, started, done>>
    BY <1>9 DEF PushNullTasks, historyVars
  <2>2. Pads(q, q')
    BY <1>0, <2>1, NullsPad
  <2>3. Unique(q') /\ \A x \in Tasks : Waits(q', x) <=> Waits(q, x)
    BY <1>0, <2>2, PadsWait, CurrentFacts DEF Once
  <2>4. \A v \in Workers : \A x \in Tasks : Runs(v, x)' <=> Runs(v, x)
    BY <2>1 DEF Runs
  <2> QED BY <1>0, <2>1, <2>3, <2>4 DEF Once
<1> QED
  BY <1>1, <1>2, <1>3, <1>4, <1>5, <1>6, <1>7, <1>8, <1>9
     DEF Next, Worker, Waiter, Destructor, Sleep, CallWaitForAll,
         ReadQueued, ReleaseAll, SetQuit, Join, Gone, vars, poolVars, historyVars

LEMMA TailIsRest ==
    ASSUME NEW S, NEW s \in Seq(S), s # <<>>, IsInjective(s)
    PROVE  /\ IsInjective(Tail(s)) /\ ToSet(Tail(s)) \subseteq ToSet(s) \ {Head(s)}
<1>1. /\ Len(s) \in Nat \ {0} /\ DOMAIN s = 1 .. Len(s) /\ Head(s) = s[1]
      /\ Tail(s) \in Seq(S) /\ Len(Tail(s)) = Len(s) - 1
      /\ \A i \in 1 .. Len(s) - 1 : Tail(s)[i] = s[i + 1]
  BY HeadTailProperties
<1>2. DOMAIN Tail(s) = 1 .. Len(s) - 1
  BY <1>1, LenProperties
<1>3. \A i \in 1 .. Len(s) - 1 : i + 1 \in DOMAIN s /\ 1 \in DOMAIN s /\ i + 1 # 1
  BY <1>1
<1>4. \A i, j \in DOMAIN s : s[i] = s[j] => i = j
  BY DEF IsInjective
<1>5. IsInjective(Tail(s))
  <2>1. ASSUME NEW i \in DOMAIN Tail(s), NEW j \in DOMAIN Tail(s), Tail(s)[i] = Tail(s)[j]
        PROVE  i = j
    <3>1. i \in 1 .. Len(s) - 1 /\ j \in 1 .. Len(s) - 1
      BY <1>2
    <3>2. i + 1 = j + 1
      BY <1>1, <1>3, <1>4, <2>1, <3>1
    <3> QED BY <1>1, <3>1, <3>2
  <2> QED BY <2>1 DEF IsInjective
<1>6. ASSUME NEW x \in ToSet(Tail(s)) PROVE x \in ToSet(s) \ {Head(s)}
  <2>1. PICK i \in 1 .. Len(s) - 1 : x = s[i + 1]
    BY <1>1, <1>2 DEF ToSet
  <2> QED BY <1>1, <1>3, <1>4, <2>1 DEF ToSet
<1> QED BY <1>5, <1>6

LEMMA SpawnedStep ==
    ASSUME IInv, [Next]_vars
    PROVE  Spawned'
<1>0. /\ released \in Nat /\ Spawned /\ todo \in [Workers -> Seq(Tasks)]
      /\ cmd \in [Workers -> Tasks \cup {NoTask} \cup BlockersUpTo(released + 1)]
      /\ NoTask \notin Tasks
  BY CurrentFacts DEF IInv, Types
<1>1. CASE UNCHANGED <<cmd, todo, submitted, started>>
  BY <1>0, <1>1 DEF Spawned
<1>2. ASSUME NEW t \in Tasks, Submit(t) PROVE Spawned'
  <2>1. \A s \in Tasks : t \notin ToSet(Spawns[s])
    BY <1>2 DEF Submit, RootTasks
  <2>2. submitted' = submitted \cup {t} /\ UNCHANGED <<cmd, todo, started>>
    BY <1>2 DEF Submit, Push
  <2> QED BY <1>0, <2>1, <2>2 DEF Spawned
<1>3. ASSUME NEW w \in Workers, Take(w) PROVE Spawned'
  <2> DEFINE t == DequeuedTask(q)
  <2>1. /\ cmd' = [cmd EXCEPT ![w] = t]
        /\ todo' = [todo EXCEPT ![w] = IF t \in Tasks THEN Spawns[t] ELSE <<>>]
        /\ started' = started \cup ({t} \cap Tasks) /\ UNCHANGED submitted
    BY <1>3 DEF Take
  <2>2. t \in Tasks => t \notin started
    BY <1>3, TakeTypes, TakesCommand DEF IInv, Once
  <2> HIDE DEF t
  <2>3. ASSUME t \in Tasks
        PROVE  IsInjective(Spawns[t]) /\ ToSet(Spawns[t]) \cap submitted = {}
    BY <1>0, <2>2, <2>3, SpawnsAssumption DEF Spawned
  <2>4. \A s \in Tasks \ started' : ToSet(Spawns[s]) \cap submitted' = {}
    BY <1>0, <2>1 DEF Spawned
  <2>5. ASSUME NEW v \in Workers, cmd'[v] \in Tasks
        PROVE  /\ IsInjective(todo'[v])
               /\ ToSet(todo'[v]) \subseteq ToSet(Spawns[cmd'[v]]) \ submitted'
    <3>1. CASE v = w
      <4>1. cmd'[v] = t /\ t \in Tasks /\ todo'[v] = Spawns[t]
        BY <1>0, <2>1, <2>5, <3>1
      <4> QED BY <2>1, <2>3, <4>1
    <3>2. CASE v # w
      <4>1. cmd'[v] = cmd[v] /\ todo'[v] = todo[v]
        BY <1>0, <2>1, <3>2
      <4> QED BY <1>0, <2>1, <2>5, <4>1 DEF Spawned
    <3> QED BY <3>1, <3>2
  <2> QED BY <2>4, <2>5 DEF Spawned
<1>4. ASSUME NEW w \in Workers, Spawn(w) PROVE Spawned'
  <2> DEFINE t == Head(todo[w])
  <2>1. /\ t \in Tasks \ submitted /\ t \in ToSet(Spawns[cmd[w]]) /\ cmd[w] \in Tasks
        /\ todo[w] \in Seq(Tasks) /\ todo[w] # <<>>
    BY <1>4, SpawnsNew
  <2>2. /\ submitted' = submitted \cup {t} /\ todo' = [todo EXCEPT ![w] = Tail(@)]
        /\ UNCHANGED <<cmd, started>>
    BY <1>4 DEF Spawn, Push
  <2>3. IsInjective(Tail(todo[w])) /\ ToSet(Tail(todo[w])) \subseteq ToSet(todo[w]) \ {t}
    <3>1. IsInjective(todo[w])
      BY <1>0, <2>1 DEF Spawned
    <3> QED BY <2>1, <3>1, TailIsRest
  <2> HIDE DEF t
  <2>4. \A s \in Tasks : s # cmd[w] => t \notin ToSet(Spawns[s])
    BY <2>1, SpawnsAssumption
  <2>5. ASSUME NEW s \in Tasks \ started' PROVE ToSet(Spawns[s]) \cap submitted' = {}
    <3>1. s # cmd[w]
      BY <2>1, <2>2, TasksRun
    <3> QED BY <1>0, <2>2, <2>4, <3>1 DEF Spawned
  <2>6. ASSUME NEW v \in Workers, cmd'[v] \in Tasks
        PROVE  /\ IsInjective(todo'[v])
               /\ ToSet(todo'[v]) \subseteq ToSet(Spawns[cmd'[v]]) \ submitted'
    <3>1. CASE v = w
      <4>1. todo'[v] = Tail(todo[w]) /\ cmd'[v] = cmd[w]
        BY <1>0, <2>2, <3>1
      <4>2. ToSet(todo[w]) \subseteq ToSet(Spawns[cmd[w]]) \ submitted
        BY <1>0, <2>1 DEF Spawned
      <4> QED BY <2>2, <2>3, <4>1, <4>2
    <3>2. CASE v # w
      <4>1. todo'[v] = todo[v] /\ cmd'[v] = cmd[v] /\ cmd[v] \in Tasks
        BY <1>0, <2>2, <2>6, <3>2
      <4>2. cmd[v] # cmd[w]
        BY <2>1, <3>2, <4>1, TasksRun DEF IInv, Once
      <4>3. /\ IsInjective(todo[v])
            /\ ToSet(todo[v]) \subseteq ToSet(Spawns[cmd[v]]) \ submitted
        BY <1>0, <4>1 DEF Spawned
      <4> QED BY <2>2, <2>4, <4>1, <4>2, <4>3
    <3> QED BY <3>1, <3>2
  <2> QED BY <2>5, <2>6 DEF Spawned
<1>5. ASSUME NEW w \in Workers, Finish(w) \/ Unblock(w) PROVE Spawned'
  <2>1. cmd' = [cmd EXCEPT ![w] = NoTask] /\ UNCHANGED <<todo, submitted, started>>
    BY <1>5 DEF Finish, Unblock, EndIteration, historyVars
  <2>2. \A v \in Workers : cmd'[v] \in Tasks => cmd'[v] = cmd[v]
    BY <1>0, <2>1
  <2> QED BY <1>0, <2>1, <2>2 DEF Spawned
<1> QED
  BY <1>1, <1>2, <1>3, <1>4, <1>5
     DEF Next, Worker, Waiter, Destructor, CheckQuit, Sleep, Arrive, CallWaitForAll,
         EnqueueBlocker, ReadQueued, ReleaseAll, SetQuit, PushNullTasks, Join, Gone,
         vars, poolVars, historyVars

LEMMA LatenessStep ==
    ASSUME IInv, [Next]_vars
    PROVE  Lateness'
<1>0. /\ released \in Nat /\ Lateness /\ pc \in [Workers -> Pcs] /\ late \in [Workers -> Nat]
      /\ cmd \in [Workers -> Tasks \cup {NoTask} \cup BlockersUpTo(released + 1)]
      /\ quit \in BOOLEAN
  BY DEF IInv, Types
<1>1. CASE UNCHANGED <<pc, cmd, late>> /\ (quit => quit')
  BY <1>0, <1>1 DEF Lateness
<1>2. ASSUME NEW w \in Workers, CheckQuit(w) PROVE Lateness'
  BY <1>0, <1>2 DEF CheckQuit, historyVars, Lateness
<1>3. ASSUME NEW w \in Workers, Take(w) PROVE Lateness'
  <2> DEFINE t == DequeuedTask(q)
  <2>1. /\ pc[w] = "get" /\ UNCHANGED quit
        /\ cmd' = [cmd EXCEPT ![w] = t] /\ pc' = [pc EXCEPT ![w] = "run"]
        /\ late' = [late EXCEPT ![w] = IF quit /\ t \in Tasks THEN @ + 1 ELSE @]
    BY <1>3 DEF Take
  <2>2. late[w] = 0
    BY <1>0, <2>1 DEF Lateness
  <2> HIDE DEF t
  <2> QED BY <1>0, <2>1, <2>2 DEF Lateness
<1>4. ASSUME NEW w \in Workers, Finish(w) \/ Unblock(w) PROVE Lateness'
  <2>1. /\ pc' = [pc EXCEPT ![w] = "check"] /\ cmd' = [cmd EXCEPT ![w] = NoTask]
        /\ UNCHANGED <<late, quit>>
    BY <1>4 DEF Finish, Unblock, EndIteration, historyVars
  <2> QED BY <1>0, <2>1 DEF Lateness
<1>5. ASSUME NEW w \in Workers, Arrive(w) PROVE Lateness'
  <2>1. /\ pc[w] = "run" /\ cmd[w] \notin Tasks \cup {NoTask}
        /\ pc' = [pc EXCEPT ![w] = "blocked"] /\ UNCHANGED <<cmd, late, quit>>
    BY <1>5 DEF Arrive, historyVars
  <2>2. late[w] = 0
    BY <1>0, <2>1 DEF Lateness
  <2> QED BY <1>0, <2>1, <2>2 DEF Lateness
<1> QED
  BY <1>1, <1>2, <1>3, <1>4, <1>5
     DEF Next, Worker, Waiter, Destructor, Submit, Sleep, Spawn, CallWaitForAll,
         EnqueueBlocker, ReadQueued, ReleaseAll, SetQuit, PushNullTasks, Join, Gone,
         vars, poolVars, historyVars

-----------------------------------------------------------------------------
(* The rounds of waitForAll().                                             *)

\* Between the calls no blocker of the next round is there.
LEMMA IdleRound ==
    ASSUME IInv, wait.pc = "idle"
    PROVE  Holders = {} /\ Blockers = {} /\ Settled = {}
<1>1. Cardinality(Blockers) + Cardinality(Holders) = 0
  BY DEF IInv, Rounds
<1>2. Holders \subseteq Workers
  BY DEF Holders
<1>3. Cardinality(Holders) = 0 /\ Cardinality(Blockers) = 0
  BY <1>1, <1>2, WorkerSets, BlockersFinite
<1> QED BY <1>2, <1>3, WorkerSets, BlockersFinite DEF Settled, Holders

\* The blocker of the next round is new.
LEMMA NextRound ==
    ASSUME released \in Nat, released' = released + 1
    PROVE  Current' \notin Tasks \cup {NoTask} \cup BlockersUpTo(released + 1)
<1>1. Current' = Blocker(released' + 1)
  BY DEF Current
<1>2. released' + 1 \in Nat /\ \A r \in 0 .. released + 1 : r \in Nat /\ r # released' + 1
  OBVIOUS
<1> QED BY <1>1, <1>2, BlockerFacts DEF BlockersUpTo

\* What a blocker of the round at a place of the batch tasks has in front of it.
Precedes(i, t) ==
    \/ t \in started
    \/ \E l \in Lanes \ {BatchLane} : \E j \in DOMAIN Lane(q, l) : Lane(q, l)[j] = t
    \/ \E j \in DOMAIN q.batch : j < i /\ q.batch[j] = t

LEMMA BatchIsLane == \A qq : Lane(qq, BatchLane) = qq.batch /\ BatchLane \in Lanes
BY DEF Lane, UiLane, BatchLane, Lanes

\* Nothing that is in front gives way to what is appended.
LEMMA GrowsInFront ==
    ASSUME IInv, NEW l \in Lanes, NEW c, Grows(q, q', l, c),
           c \in Tasks \/ (c = Current /\ l = BatchLane),
           UNCHANGED <<pc, cmd, started, before, released>>
    PROVE  InFront'
<1>0. /\ released + 1 \in Nat /\ q \in QueueType(released + 1) /\ InFront /\ Once
      /\ before \subseteq submitted /\ submitted \subseteq Tasks /\ released \in Nat
  BY DEF IInv, Types
<1>1. NoOvertaking'
  BY <1>0 DEF InFront, NoOvertaking, IsBlocking
<1>2. /\ \A k \in Lanes : \A i \in DOMAIN Lane(q, k) :
            i \in DOMAIN Lane(q', k) /\ Lane(q', k)[i] = Lane(q, k)[i]
      /\ \A k \in Lanes : \A i \in DOMAIN Lane(q', k) :
            \/ i \in DOMAIN Lane(q, k) /\ Lane(q', k)[i] = Lane(q, k)[i]
            \/ k = l /\ Lane(q', k)[i] = c /\ \A j \in DOMAIN Lane(q, k) : j < i
  <2>1. released + 1 \in Nat /\ q \in QueueType(released + 1)
    BY <1>0
  <2>2. Keeps(q, q')
    BY <2>1, GrowsWaits
  <2>3. \A k \in Lanes : \A i \in DOMAIN Lane(q', k) :
           \/ i \in DOMAIN Lane(q, k) /\ Lane(q', k)[i] = Lane(q, k)[i]
           \/ k = l /\ Lane(q', k)[i] = c /\ \A j \in DOMAIN Lane(q, k) : j < i
    BY <2>1, GrowsWaits
  <2> QED BY <2>2, <2>3 DEF Keeps
<1>3. ASSUME NEW i \in DOMAIN q'.batch, q'.batch[i] = Current, NEW t \in before
      PROVE  Precedes(i, t)
  <2>1. CASE i \in DOMAIN q.batch /\ q.batch[i] = Current
    BY <1>0, <2>1 DEF InFront, Precedes
  <2>2. CASE \A j \in DOMAIN q.batch : j < i
    <3>1. t \in started \/ Waits(q, t)
      BY <1>0 DEF Once
    <3> QED BY <2>2, <3>1, BatchIsLane DEF Waits, Precedes
  <2> QED BY <1>2, <1>3, <2>1, <2>2, BatchIsLane
<1>4. ASSUME NEW i \in DOMAIN q'.batch, NEW t, Precedes(i, t)
      PROVE  Precedes(i, t)'
  <2>1. CASE t \in started
    BY <2>1 DEF Precedes
  <2>2. CASE \E k \in Lanes \ {BatchLane} : \E j \in DOMAIN Lane(q, k) : Lane(q, k)[j] = t
    BY <1>2, <2>2 DEF Precedes
  <2>3. CASE \E j \in DOMAIN q.batch : j < i /\ q.batch[j] = t
    BY <1>2, <2>3, BatchIsLane DEF Precedes
  <2> QED BY <1>4, <2>1, <2>2, <2>3 DEF Precedes
<1>5. Current' = Current /\ before' = before
  BY DEF Current
<1> QED BY <1>1, <1>3, <1>4, <1>5 DEF InFront, Precedes

LEMMA InFrontStep ==
    ASSUME IInv, [Next]_vars
    PROVE  InFront'
<1>0. /\ released \in Nat /\ released + 1 \in Nat /\ q \in QueueType(released + 1) /\ InFront
      /\ Once /\ pc \in [Workers -> Pcs]
      /\ cmd \in [Workers -> Tasks \cup {NoTask} \cup BlockersUpTo(released + 1)]
  BY DEF IInv, Types
<1>1. CASE UNCHANGED <<q, pc, cmd, started, before, released>>
  BY <1>0, <1>1 DEF InFront, NoOvertaking, IsBlocking, Current
<1>2. ASSUME NEW t \in Tasks, Submit(t) PROVE InFront'
  BY <1>2, PushTypes, GrowsInFront DEF Submit, waitVars
<1>3. ASSUME NEW w \in Workers, Spawn(w) PROVE InFront'
  BY <1>3, SpawnsNew, PushTypes, GrowsInFront DEF Spawn, waitVars
<1>4. CASE EnqueueBlocker
  <2>1. q' = EnqueueBatch(q, Current) /\ UNCHANGED <<pc, cmd, started, before, released>>
    BY <1>4 DEF EnqueueBlocker, PushBlocker, Current, historyVars
  <2>2. Grows(q, q', BatchLane, Current)
    BY <1>0, <2>1, BatchGrows, CurrentFacts
  <2> QED BY <2>1, <2>2, BatchIsLane, GrowsInFront
<1>5. ASSUME NEW w \in Workers, CheckQuit(w) \/ Finish(w) \/ Arrive(w) \/ Unblock(w)
      PROVE  InFront'
  <2>1. UNCHANGED <<q, started, before, released>>
    BY <1>5 DEF CheckQuit, Finish, Arrive, Unblock, historyVars, waitVars
  <2>2. ASSUME NEW v \in Workers, IsBlocking(v)' PROVE IsBlocking(v)
    <3>1. Current # NoTask
      BY <1>0, CurrentFacts
    <3> QED
      BY <1>0, <1>5, <2>1, <2>2, <3>1
         DEF IsBlocking, CheckQuit, Finish, Arrive, Unblock, EndIteration, Current
  <2> QED BY <1>0, <2>1, <2>2 DEF InFront, NoOvertaking, Current
<1>6. ASSUME NEW w \in Workers, Take(w) PROVE InFront'
  <2> DEFINE t == DequeuedTask(q)
  <2>1. /\ q' = DequeueRest(q) /\ cmd' = [cmd EXCEPT ![w] = t] /\ pc' = [pc EXCEPT ![w] = "run"]
        /\ started' = started \cup ({t} \cap Tasks) /\ UNCHANGED <<before, released>>
    BY <1>6 DEF Take, waitVars
  <2>2. PICK l \in Lanes :
           /\ Takes(q, l)
           /\ l = BatchLane => \A k \in Lanes \ {BatchLane} : Lane(q, k) = <<>>
    BY <1>6, TakeTypes
  <2>3. /\ Shrinks(q, q', l) /\ t = Head(Lane(q, l))
        /\ t \in Tasks \cup {NoTask, Current} /\ (t = Current => l = BatchLane)
    BY <2>1, <2>2, TakesCommand DEF Takes
  <2> HIDE DEF t
  <2>4. /\ 1 \in DOMAIN Lane(q, l) /\ Lane(q, l)[1] = t
        /\ \A i \in DOMAIN Lane(q', l) :
              /\ i \in Nat \ {0} /\ i + 1 \in DOMAIN Lane(q, l)
              /\ Lane(q', l)[i] = Lane(q, l)[i + 1]
        /\ \A i \in DOMAIN Lane(q, l) : i \in Nat \ {0} /\ (i # 1 => i - 1 \in DOMAIN Lane(q', l))
    BY <1>0, <2>3, ShrinksWaits
  <2>5. \A k \in Lanes \ {l} : Lane(q', k) = Lane(q, k)
    BY <2>3 DEF Shrinks
  <2>6. before \subseteq Tasks /\ Current' = Current
    BY <2>1 DEF IInv, Types, Current
  <2>7. CASE l = BatchLane
    <3>1. \A k \in Lanes \ {BatchLane} : DOMAIN Lane(q, k) = {}
      BY <2>2, <2>7
    <3>2. \A i \in DOMAIN q.batch : q.batch[i] = Current =>
             \A x \in before : x \in started \/ \E j \in DOMAIN q.batch : j < i /\ q.batch[j] = x
      BY <1>0, <3>1 DEF InFront
    <3>3. ASSUME t = Current PROVE before \subseteq started
      BY <2>4, <2>7, <3>2, <3>3, BatchIsLane
    <3>4. NoOvertaking'
      <4>1. ASSUME NEW v \in Workers, IsBlocking(v)' PROVE IsBlocking(v) \/ t = Current
        BY <1>0, <2>1, <4>1 DEF IsBlocking, Current
      <4> QED BY <1>0, <2>1, <3>3, <4>1 DEF InFront, NoOvertaking
    <3>5. ASSUME NEW i \in DOMAIN q'.batch, q'.batch[i] = Current, NEW x \in before
          PROVE  x \in started' \/ \E j \in DOMAIN q'.batch : j < i /\ q'.batch[j] = x
      <4>1. i \in Nat \ {0} /\ i + 1 \in DOMAIN q.batch /\ q.batch[i + 1] = Current
        BY <2>4, <2>7, <3>5, BatchIsLane
      <4>2. CASE x \in started
        BY <2>1, <4>2
      <4>3. ASSUME NEW j \in DOMAIN q.batch, j < i + 1, q.batch[j] = x
            PROVE  x \in started' \/ \E k \in DOMAIN q'.batch : k < i /\ q'.batch[k] = x
        <5>1. CASE j = 1
          BY <2>1, <2>4, <2>6, <2>7, <4>3, <5>1, BatchIsLane
        <5>2. CASE j # 1
          <6>1. j \in Nat \ {0} /\ j - 1 \in DOMAIN q'.batch /\ j - 1 + 1 = j /\ j - 1 < i
            BY <2>4, <2>7, <4>1, <4>3, <5>2, BatchIsLane
          <6>2. q'.batch[j - 1] = q.batch[j - 1 + 1]
            BY <2>4, <2>7, <6>1, BatchIsLane
          <6> QED BY <4>3, <6>1, <6>2
        <5> QED BY <5>1, <5>2
      <4> QED BY <3>2, <4>1, <4>2, <4>3
    <3> QED BY <2>1, <2>6, <3>4, <3>5 DEF InFront
  <2>8. CASE l # BatchLane
    <3>1. q'.batch = q.batch /\ t # Current
      BY <2>3, <2>5, <2>8, BatchIsLane
    <3>2. NoOvertaking'
      <4>1. ASSUME NEW v \in Workers, IsBlocking(v)' PROVE IsBlocking(v)
        BY <1>0, <2>1, <3>1, <4>1 DEF IsBlocking, Current
      <4> QED BY <1>0, <2>1, <4>1 DEF InFront, NoOvertaking
    <3>3. ASSUME NEW k \in Lanes \ {BatchLane}, NEW j \in DOMAIN Lane(q, k), Lane(q, k)[j] \in Tasks
          PROVE  \/ Lane(q, k)[j] \in started'
                 \/ \E i \in DOMAIN Lane(q', k) : Lane(q', k)[i] = Lane(q, k)[j]
      <4>1. CASE k = l /\ j = 1
        BY <2>1, <2>4, <3>3, <4>1
      <4>2. CASE k = l /\ j # 1
        <5>1. j - 1 \in DOMAIN Lane(q', k) /\ j - 1 + 1 = j
          BY <2>4, <4>2
        <5>2. Lane(q', k)[j - 1] = Lane(q, k)[j - 1 + 1]
          BY <2>4, <4>2, <5>1
        <5> QED BY <5>1, <5>2
      <4>3. CASE k # l
        BY <2>5, <4>3
      <4> QED BY <4>1, <4>2, <4>3
    <3>4. ASSUME NEW i \in DOMAIN q.batch, q.batch[i] = Current, NEW x \in before
          PROVE  Precedes(i, x)'
      <4>1. Precedes(i, x)
        BY <1>0, <3>4 DEF InFront, Precedes
      <4>2. CASE \E k \in Lanes \ {BatchLane} : \E j \in DOMAIN Lane(q, k) : Lane(q, k)[j] = x
        BY <2>6, <3>3, <4>2 DEF Precedes
      <4> QED BY <2>1, <3>1, <4>1, <4>2 DEF Precedes
    <3> QED BY <2>1, <2>6, <3>1, <3>2, <3>4 DEF InFront, Precedes
  <2> QED BY <2>7, <2>8
<1>7. CASE CallWaitForAll
  <2>1. wait.pc = "idle" /\ UNCHANGED <<q, pc, cmd, started, released>>
    BY <1>7 DEF CallWaitForAll, poolVars
  <2>2. Holders = {} /\ Blockers = {}
    BY <2>1, IdleRound
  <2> QED BY <2>1, <2>2 DEF InFront, NoOvertaking, IsBlocking, Current, Holders, Blockers
<1>8. CASE ReleaseAll
  <2>1. released' = released + 1 /\ UNCHANGED <<q, pc, cmd, started, before>>
    BY <1>8 DEF ReleaseAll, poolVars, historyVars
  <2>2. Current' \notin Tasks \cup {NoTask} \cup BlockersUpTo(released + 1)
    BY <1>0, <2>1, NextRound
  <2>3. \A i \in DOMAIN q.batch : q.batch[i] \in Tasks \cup BlockersUpTo(released + 1)
    BY <1>0, LenProperties, ElementOfSeq DEF QueueType
  <2> QED BY <1>0, <2>1, <2>2, <2>3 DEF InFront, NoOvertaking, IsBlocking, Current
<1>9. CASE PushNullTasks
  <2>1. q' = [q EXCEPT !.ui = @ \o NullTasks] /\ UNCHANGED <<pc, cmd, started, before, released>>
    BY <1>9 DEF PushNullTasks, historyVars, waitVars
  <2>2. Pads(q, q') /\ q'.batch = q.batch
    BY <1>0, <2>1, NullsPad
  <2>3. NoOvertaking'
    BY <1>0, <2>1 DEF InFront, NoOvertaking, IsBlocking
  <2>4. ASSUME NEW i \in DOMAIN q.batch, q.batch[i] = Current, NEW x \in before
        PROVE  Precedes(i, x)'
    <3>1. Precedes(i, x)
      BY <1>0, <2>4 DEF InFront, Precedes
    <3>2. UNCHANGED <<started, q.batch>>
      BY <2>1, <2>2
    <3>3. CASE \E k \in Lanes \ {BatchLane} : \E j \in DOMAIN Lane(q, k) : Lane(q, k)[j] = x
      BY <2>2, <3>3 DEF Precedes, Pads, Keeps
    <3> QED BY <3>1, <3>2, <3>3 DEF Precedes
  <2>5. Current' = Current /\ before' = before /\ q'.batch = q.batch
    BY <2>1, <2>2 DEF Current
  <2> QED BY <2>3, <2>4, <2>5 DEF InFront, Precedes
<1> QED
  BY <1>1, <1>2, <1>3, <1>4, <1>5, <1>6, <1>7, <1>8, <1>9
     DEF Next, Worker, Waiter, Destructor, Sleep, ReadQueued, SetQuit, Join, Gone,
         vars, poolVars, waitVars, historyVars

\* Taking the head of a sequence takes one of the places of a value, or none.
PlacesOf(s, c) == {i \in DOMAIN s : s[i] = c}

LEMMA TailCount ==
    ASSUME NEW S, NEW s \in Seq(S), s # <<>>, NEW c
    PROVE  Cardinality(PlacesOf(Tail(s), c)) =
              IF Head(s) = c THEN Cardinality(PlacesOf(s, c)) - 1 ELSE Cardinality(PlacesOf(s, c))
<1>0. PICK A, B : /\ A = PlacesOf(Tail(s), c) /\ A = {i \in DOMAIN Tail(s) : Tail(s)[i] = c}
                  /\ B = PlacesOf(s, c) /\ B = {i \in DOMAIN s : s[i] = c}
  BY DEF PlacesOf
<1>1. /\ Len(s) \in Nat \ {0} /\ DOMAIN s = 1 .. Len(s) /\ Head(s) = s[1]
      /\ DOMAIN Tail(s) = 1 .. Len(s) - 1
      /\ \A i \in 1 .. Len(s) - 1 : Tail(s)[i] = s[i + 1]
  BY HeadTailProperties, LenProperties
<1>2. IsFiniteSet(B)
  <2>1. IsFiniteSet(1 .. Len(s))
    BY <1>1, FS_Interval
  <2>2. B \subseteq 1 .. Len(s)
    BY <1>0, <1>1
  <2> QED BY <2>1, <2>2, FS_Subset
<1> DEFINE f == [i \in B \ {1} |-> i - 1]
<1>3. f \in [B \ {1} -> A]
  <2>1. ASSUME NEW i \in B \ {1} PROVE i - 1 \in A
    <3>1. i \in 1 .. Len(s) /\ i # 1 /\ s[i] = c
      BY <1>0, <1>1
    <3>2. i - 1 \in 1 .. Len(s) - 1 /\ i - 1 + 1 = i
      BY <1>1, <3>1
    <3> QED BY <1>0, <1>1, <3>1, <3>2
  <2> QED BY <2>1
<1>4. \A i, j \in B \ {1} : f[i] = f[j] => i = j
  <2>1. B \subseteq Int
    BY <1>0, <1>1
  <2> QED BY <2>1
<1>5. \A k \in A : \E i \in B \ {1} : f[i] = k
  <2>1. ASSUME NEW k \in A PROVE k + 1 \in B \ {1} /\ k + 1 - 1 = k
    <3>1. k \in 1 .. Len(s) - 1 /\ Tail(s)[k] = c
      BY <1>0, <1>1
    <3>2. k + 1 \in 1 .. Len(s) /\ k + 1 # 1 /\ s[k + 1] = c
      BY <1>1, <3>1
    <3> QED BY <1>0, <1>1, <3>1, <3>2
  <2>2. ASSUME NEW k \in A PROVE \E i \in B \ {1} : f[i] = k
    <3>1. f[k + 1] = k
      BY <2>1
    <3> QED BY <2>1, <3>1
  <2> QED BY <2>2
<1>6. ExistsBijection(B \ {1}, A)
  <2> HIDE DEF f
  <2>1. f \in Bijection(B \ {1}, A)
    BY <1>3, <1>4, <1>5 DEF Bijection, Injection, Surjection, IsInjective
  <2> QED BY <2>1 DEF ExistsBijection
<1>7. /\ IsFiniteSet(B \ {1})
      /\ Cardinality(B \ {1}) = IF 1 \in B THEN Cardinality(B) - 1 ELSE Cardinality(B)
  BY <1>2, FS_RemoveElement
<1>8. Cardinality(A) = Cardinality(B \ {1})
  BY <1>6, <1>7, FS_Bijection
<1>9. 1 \in B <=> Head(s) = c
  BY <1>0, <1>1
<1> QED BY <1>0, <1>7, <1>8, <1>9

\* A task goes to a lane: the blockers stay.
LEMMA RoundsPush ==
    ASSUME IInv, NEW t \in Tasks, Push(t), UNCHANGED <<pc, cmd, wait, arrived, released>>
    PROVE  Rounds'
<1>1. PICK l \in Lanes : Grows(q, q', l, t)
  BY PushTypes
<1>2. /\ released \in Nat /\ released + 1 \in Nat /\ q \in QueueType(released + 1) /\ Rounds
      /\ Current' = Current /\ Current \notin Tasks
  BY CurrentFacts DEF IInv, Types, Current
<1>3. Keeps(q, q')
  BY <1>1, <1>2, GrowsWaits
<1>4. \A k \in Lanes : \A i \in DOMAIN Lane(q', k) :
         \/ i \in DOMAIN Lane(q, k) /\ Lane(q', k)[i] = Lane(q, k)[i]
         \/ k = l /\ Lane(q', k)[i] = t /\ \A j \in DOMAIN Lane(q, k) : j < i
  BY <1>1, <1>2, GrowsWaits
<1>5. \A i \in DOMAIN q'.batch :
         \/ i \in DOMAIN q.batch /\ q'.batch[i] = q.batch[i]
         \/ q'.batch[i] = t
  BY <1>4, BatchIsLane
<1>6. \A i \in DOMAIN q.batch : i \in DOMAIN q'.batch /\ q'.batch[i] = q.batch[i]
  BY <1>3, BatchIsLane DEF Keeps
<1>7. Blockers' = Blockers /\ Holders' = Holders
  BY <1>2, <1>5, <1>6 DEF Blockers, Holders
<1>8. \A i \in DOMAIN q'.batch : q'.batch[i] \in Tasks \cup {Current}
  BY <1>2, <1>5 DEF Rounds
<1> QED BY <1>2, <1>7, <1>8 DEF Rounds

LEMMA RoundsTake ==
    ASSUME IInv, NEW w \in Workers, Take(w)
    PROVE  Rounds'
<1> DEFINE t == DequeuedTask(q)
<1>1. /\ pc[w] = "get" /\ q' = DequeueRest(q)
      /\ cmd' = [cmd EXCEPT ![w] = t] /\ pc' = [pc EXCEPT ![w] = "run"]
      /\ UNCHANGED <<wait, arrived, released>>
  BY DEF Take, waitVars
<1>2. PICK l \in Lanes : Takes(q, l)
  BY TakeTypes
<1>3. /\ Shrinks(q, q', l) /\ t = Head(Lane(q, l))
      /\ t \in Tasks \cup {NoTask, Current} /\ (t = Current => l = BatchLane)
  BY <1>1, <1>2, TakesCommand DEF Takes
<1> HIDE DEF t
<1>4. /\ released \in Nat /\ q.batch \in Seq(Tasks \cup BlockersUpTo(released + 1)) /\ Rounds
      /\ Current' = Current /\ Current # NoTask
      /\ pc \in [Workers -> Pcs]
      /\ cmd \in [Workers -> Tasks \cup {NoTask} \cup BlockersUpTo(released + 1)]
      /\ cmd[w] = NoTask
  BY <1>1, CurrentFacts DEF IInv, Types, QueueType, Current, Hands
<1>5. \A v \in Workers : pc'[v] = "run" => cmd'[v] \in Tasks \cup {NoTask, Current}
  BY <1>1, <1>3, <1>4 DEF Rounds
<1>6. Cardinality(Holders') = IF t = Current THEN Cardinality(Holders) + 1 ELSE Cardinality(Holders)
  <2>1. Holders \subseteq Workers /\ w \notin Holders
    BY <1>4 DEF Holders
  <2>2. Holders' = IF t = Current THEN Holders \cup {w} ELSE Holders
    BY <1>1, <1>4 DEF Holders
  <2> QED BY <2>1, <2>2, WorkerSets
<1>7. CASE l = BatchLane
  <2>1. q.batch # <<>> /\ q'.batch = Tail(q.batch) /\ t = Head(q.batch)
    BY <1>3, <1>7, BatchIsLane DEF Shrinks
  <2>2. Blockers' = PlacesOf(Tail(q.batch), Current) /\ Blockers = PlacesOf(q.batch, Current)
    BY <1>4, <2>1 DEF Blockers, PlacesOf
  <2>3. Cardinality(Blockers') =
           IF t = Current THEN Cardinality(Blockers) - 1 ELSE Cardinality(Blockers)
    BY <1>4, <2>1, <2>2, TailCount
  <2>4. Cardinality(Blockers') + Cardinality(Holders') = wait.sent
    <3>1. Cardinality(Blockers) \in Nat /\ Cardinality(Holders) \in Nat
      BY BlockersFinite, WorkerSets DEF Holders
    <3>2. Cardinality(Blockers) + Cardinality(Holders) = wait.sent
      BY <1>4 DEF Rounds
    <3> QED BY <1>6, <2>3, <3>1, <3>2
  <2>5. \A i \in DOMAIN Tail(q.batch) :
           i + 1 \in DOMAIN q.batch /\ Tail(q.batch)[i] = q.batch[i + 1]
    BY <1>4, <2>1, HeadTailProperties, LenProperties
  <2>6. \A i \in DOMAIN q'.batch : q'.batch[i] \in Tasks \cup {Current}
    BY <1>4, <2>1, <2>5 DEF Rounds
  <2> QED BY <1>1, <1>4, <1>5, <2>4, <2>6 DEF Rounds
<1>8. CASE l # BatchLane
  <2>1. q'.batch = q.batch /\ t # Current
    BY <1>3, <1>8, BatchIsLane DEF Shrinks
  <2>2. Blockers' = Blockers
    BY <1>4, <2>1 DEF Blockers
  <2> QED BY <1>1, <1>4, <1>5, <1>6, <2>1, <2>2 DEF Rounds
<1> QED BY <1>7, <1>8

LEMMA RoundsStep ==
    ASSUME IInv, [Next]_vars
    PROVE  Rounds'
<1>0. /\ released \in Nat /\ released + 1 \in Nat /\ q \in QueueType(released + 1) /\ Rounds
      /\ Hands /\ wait \in CallType /\ pc \in [Workers -> Pcs]
      /\ cmd \in [Workers -> Tasks \cup {NoTask} \cup BlockersUpTo(released + 1)]
      /\ arrived = Cardinality(Settled)
  BY DEF IInv, Types
<1>1. CASE UNCHANGED <<q, pc, cmd, wait, arrived, released>>
  BY <1>0, <1>1 DEF Rounds, Blockers, Holders, Current
<1>2. ASSUME NEW t \in Tasks, Submit(t) PROVE Rounds'
  BY <1>2, RoundsPush DEF Submit, waitVars
<1>3. ASSUME NEW w \in Workers, Spawn(w) PROVE Rounds'
  BY <1>3, SpawnsNew, RoundsPush DEF Spawn, waitVars
<1>4. ASSUME NEW w \in Workers, Take(w) PROVE Rounds'
  BY <1>4, RoundsTake
<1>5. ASSUME NEW w \in Workers, CheckQuit(w) PROVE Rounds'
  <2>1. /\ pc' = [pc EXCEPT ![w] = IF quit THEN "exit" ELSE "get"]
        /\ UNCHANGED <<q, cmd, wait, arrived, released>>
    BY <1>5 DEF CheckQuit, waitVars
  <2>2. Blockers' = Blockers /\ Holders' = Holders /\ Current' = Current
    BY <2>1 DEF Blockers, Holders, Current
  <2> QED BY <1>0, <2>1, <2>2 DEF Rounds
<1>6. ASSUME NEW w \in Workers, Finish(w) \/ Unblock(w) PROVE Rounds'
  <2>1. /\ pc' = [pc EXCEPT ![w] = "check"] /\ cmd' = [cmd EXCEPT ![w] = NoTask]
        /\ UNCHANGED <<q, wait, arrived, released>>
    BY <1>6 DEF Finish, Unblock, EndIteration, waitVars
  <2>2. cmd[w] # Current /\ NoTask # Current
    BY <1>0, <1>6, CurrentFacts DEF Finish, Unblock, BlockersUpTo
  <2>3. Blockers' = Blockers /\ Holders' = Holders /\ Current' = Current
    BY <1>0, <2>1, <2>2 DEF Blockers, Holders, Current
  <2> QED BY <1>0, <2>1, <2>3 DEF Rounds
<1>7. ASSUME NEW w \in Workers, Arrive(w) PROVE Rounds'
  <2>1. /\ pc[w] = "run" /\ pc' = [pc EXCEPT ![w] = "blocked"] /\ arrived' = arrived + 1
        /\ cmd[w] \notin Tasks \cup {NoTask} /\ UNCHANGED <<q, cmd, wait, released>>
    BY <1>7 DEF Arrive
  <2>2. Blockers' = Blockers /\ Holders' = Holders /\ Current' = Current
    BY <2>1 DEF Blockers, Holders, Current
  <2>3. wait.pc # "release"
    <3>1. ASSUME arrived = Cardinality(Workers) PROVE FALSE
      <4>1. Settled \subseteq Workers /\ w \notin Settled
        BY <2>1 DEF Settled
      <4> QED BY <1>0, <3>1, <4>1, WorkerSets
    <3> QED BY <1>0, <3>1 DEF Rounds
  <2> QED BY <1>0, <2>1, <2>2, <2>3 DEF Rounds
<1>8. CASE CallWaitForAll
  <2>1. /\ wait.pc = "idle" /\ UNCHANGED <<q, pc, cmd, released>>
        /\ wait' = [wait EXCEPT !.pc = "enqueue", !.sent = 0, !.calls = @ + 1]
    BY <1>8 DEF CallWaitForAll, poolVars
  <2>2. wait'.pc = "enqueue" /\ wait'.sent = 0 /\ wait.sent = 0
    BY <1>0, <2>1 DEF CallType, Rounds
  <2>3. Blockers' = Blockers /\ Holders' = Holders /\ Current' = Current
    BY <2>1 DEF Blockers, Holders, Current
  <2> QED BY <1>0, <2>1, <2>2, <2>3 DEF Rounds
<1>9. CASE EnqueueBlocker
  <2>1. /\ wait.pc = "enqueue" /\ wait' = [wait EXCEPT !.sent = @ + 1]
        /\ q' = EnqueueBatch(q, Current) /\ UNCHANGED <<pc, cmd, arrived, released>>
    BY <1>9 DEF EnqueueBlocker, PushBlocker, Current, historyVars
  <2>2. q'.batch = Append(q.batch, Current) /\ q.batch \in Seq(Tasks \cup BlockersUpTo(released + 1))
    BY <1>0, <2>1 DEF EnqueueBatch, QueueType
  <2> DEFINE len == Len(q.batch)
  <2>3. /\ len \in Nat /\ DOMAIN q.batch = 1 .. len /\ DOMAIN q'.batch = 1 .. len + 1
        /\ q'.batch[len + 1] = Current /\ \A i \in 1 .. len : q'.batch[i] = q.batch[i]
    BY <2>2
  <2>4. Current' = Current /\ Holders' = Holders
    BY <2>1 DEF Current, Holders
  <2>5. Blockers' = Blockers \cup {len + 1} /\ len + 1 \notin Blockers
    BY <2>3, <2>4 DEF Blockers
  <2>6. /\ Cardinality(Blockers') = Cardinality(Blockers) + 1
        /\ Cardinality(Blockers) \in Nat /\ Cardinality(Holders) \in Nat
    BY <2>5, BlockersFinite, FS_AddElement, WorkerSets DEF Holders
  <2>7. wait'.sent = wait.sent + 1 /\ wait'.pc = "enqueue"
    BY <1>0, <2>1 DEF CallType
  <2>8. Cardinality(Blockers') + Cardinality(Holders') = wait'.sent
    BY <1>0, <2>4, <2>6, <2>7 DEF Rounds
  <2>9. \A i \in DOMAIN q'.batch : q'.batch[i] \in Tasks \cup {Current}
    BY <1>0, <2>3 DEF Rounds
  <2> QED BY <1>0, <2>1, <2>4, <2>7, <2>8, <2>9 DEF Rounds
<1>10. CASE ReadQueued
  <2>1. /\ wait.sent = Cardinality(Workers) /\ arrived = Cardinality(Workers)
        /\ wait' = [wait EXCEPT !.pc = "release", !.hasMore = HasMoreTasks]
        /\ UNCHANGED <<q, pc, cmd, arrived, released>>
    BY <1>10 DEF ReadQueued, AllArrived, BlockerCount, poolVars
  <2>2. wait'.pc = "release" /\ wait'.sent = wait.sent
    BY <1>0, <2>1 DEF CallType
  <2>3. Blockers' = Blockers /\ Holders' = Holders /\ Current' = Current
    BY <2>1 DEF Blockers, Holders, Current
  <2> QED BY <1>0, <2>1, <2>2, <2>3 DEF Rounds
<1>11. CASE ReleaseAll
  <2>1. /\ wait.pc = "release" /\ released' = released + 1 /\ UNCHANGED <<q, pc, cmd>>
        /\ wait' = [wait EXCEPT !.pc = IF wait.hasMore THEN "enqueue" ELSE "idle", !.sent = 0]
    BY <1>11 DEF ReleaseAll, poolVars
  <2>2. Settled = Workers
    BY <1>0, <2>1, WorkerSets DEF Rounds, Settled
  <2>3. Holders = Workers /\ \A w \in Workers : pc[w] # "run"
    BY <2>2 DEF Settled, Holders
  <2>4. Blockers = {}
    <3>1. /\ Cardinality(Blockers) + Cardinality(Workers) = Cardinality(Workers)
          /\ Cardinality(Workers) \in Nat
      BY <1>0, <2>1, <2>3, WorkerSets DEF Rounds
    <3> QED BY <3>1, BlockersFinite
  <2>5. \A i \in DOMAIN q'.batch : q'.batch[i] \in Tasks
    BY <1>0, <2>1, <2>4 DEF Rounds, Blockers
  <2>6. Current' \notin Tasks \cup {NoTask} \cup BlockersUpTo(released + 1)
    BY <1>0, <2>1, NextRound
  <2>7. Blockers' = {} /\ Holders' = {}
    BY <1>0, <2>1, <2>5, <2>6 DEF Blockers, Holders
  <2>8. wait'.sent = 0 /\ wait'.pc # "release"
    BY <1>0, <2>1 DEF CallType
  <2> QED BY <2>1, <2>3, <2>5, <2>7, <2>8, FS_EmptySet DEF Rounds
<1>12. CASE PushNullTasks
  <2>1. /\ q' = [q EXCEPT !.ui = @ \o NullTasks]
        /\ UNCHANGED <<pc, cmd, wait, arrived, released>>
    BY <1>12 DEF PushNullTasks, waitVars
  <2>2. q'.batch = q.batch
    BY <1>0, <2>1, NullsPad
  <2>3. Blockers' = Blockers /\ Holders' = Holders /\ Current' = Current
    BY <2>1, <2>2 DEF Blockers, Holders, Current
  <2>4. \A i \in DOMAIN q'.batch : q'.batch[i] \in Tasks \cup {Current}
    BY <1>0, <2>2 DEF Rounds
  <2> HIDE DEF NullTasks
  <2>5. UNCHANGED <<pc, cmd, wait, arrived>>
    BY <2>1
  <2> QED BY <1>0, <2>3, <2>4, <2>5 DEF Rounds
<1> QED
  BY <1>1, <1>2, <1>3, <1>4, <1>5, <1>6, <1>7, <1>8, <1>9, <1>10, <1>11, <1>12
     DEF Next, Worker, Waiter, Destructor, Sleep, SetQuit, Join, Gone,
         vars, poolVars, waitVars

-----------------------------------------------------------------------------
(* The turns of the filters.                                               *)

LEMMA DistanceRange ==
    ASSUME NEW n \in Nat, NEW next \in 0 .. n - 1, NEW p \in 1 .. n
    PROVE  Distance(p, next, n) \in 0 .. n - 1
BY DEF Distance

\* With one more place a place is at most one turn farther.
LEMMA DistanceGrows ==
    ASSUME NEW n \in Nat, NEW next \in 0 .. n - 1, NEW p \in 1 .. n
    PROVE  Distance(p, next, n + 1) \in Nat /\ Distance(p, next, n + 1) <= Distance(p, next, n) + 1
BY DEF Distance

\* After e empty turns and one that found a task the places behind are nearer.
LEMMA DistanceAfter ==
    ASSUME NEW n \in Nat \ {0}, NEW next \in 0 .. n - 1, NEW e \in 0 .. n - 1
    PROVE  /\ (next + e + 1) % n \in 0 .. n - 1
           /\ \A p \in 1 .. n : Distance(p, next, n) > e =>
                 Distance(p, (next + e + 1) % n, n) = Distance(p, next, n) - e - 1
<1> DEFINE after == (next + e + 1) % n
<1>1. after = IF next + e + 1 < n THEN next + e + 1 ELSE next + e + 1 - n
  <2>1. e + 1 \in 0 .. n /\ next + e + 1 = next + (e + 1)
    OBVIOUS
  <2>2. (next + (e + 1)) % n = IF next + (e + 1) < n THEN next + (e + 1) ELSE next + (e + 1) - n
    BY <2>1, Wrap
  <2> QED BY <2>1, <2>2
<1> HIDE DEF after
<1>2. after \in 0 .. n - 1
  BY <1>1
<1>3. ASSUME NEW p \in 1 .. n, Distance(p, next, n) > e
      PROVE  Distance(p, after, n) = Distance(p, next, n) - e - 1
  BY <1>1, <1>2, <1>3 DEF Distance
<1> QED BY <1>2, <1>3 DEF after

LEMMA TurnsTypes ==
    ASSUME IInv
    PROVE  /\ q \in QueueType(released + 1) /\ released + 1 \in Nat /\ Turns /\ Turning(q)
           /\ Len(q.filters) \in Nat /\ Places(q) = 1 .. Len(q.filters)
           /\ \A i \in Places(q) : q.filters[i] \in [filter : Filters, tasks : Seq(Tasks)]
           /\ bypass \in [Filters -> Nat]
           /\ q.filters # <<>> <=> Len(q.filters) # 0
<1>1. /\ q \in QueueType(released + 1) /\ released + 1 \in Nat /\ Turns /\ Turning(q)
      /\ bypass \in [Filters -> Nat]
  BY DEF IInv, Types, Turns, Turning
<1>2. q.filters \in Seq([filter : Filters, tasks : Seq(Tasks)])
  BY <1>1 DEF QueueType
<1>3. Len(q.filters) \in Nat /\ Places(q) = 1 .. Len(q.filters)
  BY <1>2 DEF Places
<1>4. \A i \in Places(q) : q.filters[i] \in [filter : Filters, tasks : Seq(Tasks)]
  BY <1>2, <1>3, ElementOfSeq
<1>5. q.filters # <<>> <=> Len(q.filters) # 0
  BY <1>2, EmptySeq
<1> QED BY <1>1, <1>3, <1>4, <1>5

\* The first task of a filter opens an entry behind the others.
LEMMA TurnsOpen ==
    ASSUME IInv, NEW f \in Filters, NEW t \in Tasks, ClassOf[t] = f,
           Opens(q, q', f, t), bypass' = bypass
    PROVE  Turns'
<1> DEFINE len == Len(q.filters)
<1>1. /\ len \in Nat /\ Places(q) = 1 .. len /\ Turns /\ bypass \in [Filters -> Nat]
      /\ \A i \in Places(q) : q.filters[i] \in [filter : Filters, tasks : Seq(Tasks)]
      /\ q.next \in 0 .. len
  BY TurnsTypes DEF Turning
<1>2. q'.filters = Append(q.filters, [filter |-> f, tasks |-> <<t>>]) /\ q'.next = q.next
  BY TurnsTypes DEF QueueType, Opens
<1>3. /\ Len(q'.filters) = len + 1 /\ Places(q') = 1 .. len + 1
      /\ q'.filters[len + 1] = [filter |-> f, tasks |-> <<t>>]
      /\ \A i \in 1 .. len : q'.filters[i] = q.filters[i]
  <2>1. q.filters \in Seq([filter : Filters, tasks : Seq(Tasks)])
    BY TurnsTypes DEF QueueType
  <2>2. [filter |-> f, tasks |-> <<t>>] \in [filter : Filters, tasks : Seq(Tasks)]
    OBVIOUS
  <2> QED BY <1>2, <2>1, <2>2 DEF Places
<1>4. q'.filters[len + 1].filter = f /\ q'.filters[len + 1].tasks = <<t>> /\ <<t>> # <<>>
      /\ DOMAIN q'.filters[len + 1].tasks = {1} /\ q'.filters[len + 1].tasks[1] = t
  BY <1>3
<1>5. \A i \in 1 .. len + 1 : i \in 1 .. len \/ i = len + 1
  BY <1>1
<1>6. \A i \in 1 .. len : i \in 1 .. len + 1 /\ i # len + 1
  BY <1>1
<1> HIDE DEF len
<1>7. q'.next \in 0 .. len + 1 /\ q'.next < len + 1
  BY <1>1, <1>2
<1>8. \A i, j \in Places(q') : q'.filters[i].filter = q'.filters[j].filter => i = j
  BY <1>1, <1>3, <1>4, <1>5 DEF Turns, Opens
<1>9. ASSUME NEW i \in Places(q'), NEW k \in DOMAIN q'.filters[i].tasks
      PROVE  ClassOf[q'.filters[i].tasks[k]] = q'.filters[i].filter
  BY <1>1, <1>3, <1>4, <1>5, <1>9 DEF Turns
<1>10. ASSUME NEW i \in Places(q')
       PROVE  IF q'.filters[i].tasks = <<>> THEN bypass'[q'.filters[i].filter] = 0
              ELSE bypass'[q'.filters[i].filter] + Distance(i, q'.next, len + 1) < len + 1
  <2>1. CASE i = len + 1
    <3>1. bypass[f] = 0
      BY <1>1 DEF Turns, Opens
    <3>2. Distance(i, q.next, len + 1) = len - q.next
      BY <1>1, <2>1 DEF Distance
    <3>3. q'.filters[i].tasks # <<>> /\ q'.filters[i].filter = f
      BY <1>4, <2>1
    <3>4. bypass'[f] = 0 /\ Distance(i, q'.next, len + 1) = len - q.next
      BY <1>2, <3>1, <3>2
    <3>5. 0 + (len - q.next) < len + 1
      BY <1>1
    <3> QED BY <3>3, <3>4, <3>5
  <2>2. CASE i \in 1 .. len
    <3> DEFINE b == bypass[q.filters[i].filter]
    <3>1. q'.filters[i] = q.filters[i] /\ b \in Nat
      BY <1>1, <1>3, <2>2
    <3>2. CASE q.filters[i].tasks = <<>>
      <4>1. b = 0
        BY <1>1, <2>2, <3>2 DEF Turns
      <4> QED BY <3>1, <3>2, <4>1
    <3>3. CASE q.filters[i].tasks # <<>>
      <4>1. b + Distance(i, q.next, len) < len
        BY <1>1, <2>2, <3>3 DEF Turns, len
      <4>2. q.next \in 0 .. len - 1
        BY <1>1, <2>2, TurnReaches, TurnsTypes DEF len
      <4>3. Distance(i, q.next, len) \in 0 .. len - 1
        BY <1>1, <2>2, <4>2, DistanceRange
      <4>4. /\ Distance(i, q.next, len + 1) \in Nat
            /\ Distance(i, q.next, len + 1) <= Distance(i, q.next, len) + 1
        BY <1>1, <2>2, <4>2, DistanceGrows
      <4>5. b + Distance(i, q.next, len + 1) < len + 1
        <5> HIDE DEF b
        <5> QED BY <1>1, <3>1, <4>1, <4>3, <4>4
      <4> QED BY <1>2, <3>1, <3>3, <4>5
    <3> QED BY <3>2, <3>3
  <2> QED BY <1>3, <1>5, <2>1, <2>2
<1>11. ASSUME NEW g \in Filters, \A i \in Places(q') : q'.filters[i].filter # g
       PROVE  bypass'[g] = 0
  <2>1. \A i \in Places(q) : q.filters[i].filter # g
    BY <1>1, <1>3, <1>6, <1>11
  <2> QED BY <1>1, <2>1 DEF Turns
<1> QED BY <1>3, <1>7, <1>8, <1>9, <1>10, <1>11 DEF Turns

\* Another task of a filter joins its entry.
LEMMA TurnsJoin ==
    ASSUME IInv, NEW t \in Tasks, NEW p \in Places(q), q.filters[p].filter = ClassOf[t],
           q' = [q EXCEPT !.filters[p].tasks = Append(@, t)],
           bypass' = bypass
    PROVE  Turns'
<1> DEFINE len == Len(q.filters)
           E   == [filter : Filters, tasks : Seq(Tasks)]
<1>1. /\ len \in Nat /\ Places(q) = 1 .. len /\ Turns /\ bypass \in [Filters -> Nat]
      /\ \A i \in Places(q) : q.filters[i] \in E
      /\ q.next \in 0 .. len /\ q.filters \in Seq(E)
  BY TurnsTypes DEF Turning, QueueType
<1>2. q'.filters = [q.filters EXCEPT ![p].tasks = Append(@, t)] /\ q'.next = q.next
  BY TurnsTypes DEF QueueType
<1>3. q.filters[p].tasks \in Seq(Tasks)
  BY <1>1
<1>4. /\ Append(q.filters[p].tasks, t) \in Seq(Tasks) /\ Append(q.filters[p].tasks, t) # <<>>
      /\ \A k \in DOMAIN Append(q.filters[p].tasks, t) :
            \/ k \in DOMAIN q.filters[p].tasks
                  /\ Append(q.filters[p].tasks, t)[k] = q.filters[p].tasks[k]
            \/ Append(q.filters[p].tasks, t)[k] = t
  BY <1>3
<1>5. [q.filters[p] EXCEPT !.tasks = Append(@, t)] \in E
  BY <1>1, <1>4
<1>6. /\ Len(q'.filters) = len /\ Places(q') = Places(q)
      /\ q'.filters[p] = [q.filters[p] EXCEPT !.tasks = Append(@, t)]
      /\ \A i \in Places(q) : i # p => q'.filters[i] = q.filters[i]
  <2>1. q'.filters = [q.filters EXCEPT ![p] = [q.filters[p] EXCEPT !.tasks = Append(@, t)]]
    BY <1>2
  <2>2. DOMAIN q'.filters = DOMAIN q.filters /\ q'.filters \in Seq(E)
    BY <1>1, <1>5, <2>1, ExceptSeq
  <2>3. Len(q'.filters) = len /\ Places(q') = Places(q)
    BY <1>1, <2>2, LenProperties DEF Places
  <2> QED BY <1>1, <2>1, <2>3 DEF Places
<1>7. q'.filters[p].tasks = Append(q.filters[p].tasks, t) /\ q'.filters[p].filter = q.filters[p].filter
  BY <1>1, <1>6
<1>8. \A i \in Places(q) : q'.filters[i].filter = q.filters[i].filter
  BY <1>6, <1>7
<1> HIDE DEF len
<1>9. q'.next \in 0 .. len /\ (q'.filters # <<>> => q'.next < len)
  BY <1>1, <1>2, TurnReaches, TurnsTypes DEF len
<1>10. ASSUME NEW i \in Places(q'), NEW k \in DOMAIN q'.filters[i].tasks
       PROVE  ClassOf[q'.filters[i].tasks[k]] = q'.filters[i].filter
  <2>1. CASE i = p
    BY <1>1, <1>4, <1>7, <1>10, <2>1 DEF Turns
  <2>2. CASE i # p
    <3>1. i \in Places(q) /\ q'.filters[i] = q.filters[i]
      BY <1>6, <2>2
    <3>2. k \in DOMAIN q.filters[i].tasks
      BY <1>10, <3>1
    <3> QED BY <1>1, <3>1, <3>2 DEF Turns
  <2> QED BY <2>1, <2>2
<1>11. ASSUME NEW i \in Places(q')
       PROVE  IF q'.filters[i].tasks = <<>> THEN bypass'[q'.filters[i].filter] = 0
              ELSE bypass'[q'.filters[i].filter] + Distance(i, q'.next, len) < len
  <2>1. CASE i = p /\ q.filters[p].tasks = <<>>
    <3>1. bypass[q.filters[p].filter] = 0 /\ DistanceTo(q, p) \in 0 .. len - 1
      BY <1>1, <2>1, TurnReaches, TurnsTypes DEF Turns, len
    <3>2. Distance(p, q'.next, len) \in 0 .. len - 1
      BY <1>2, <3>1 DEF DistanceTo, len
    <3>3. bypass'[q'.filters[i].filter] = 0 /\ q'.filters[i].tasks # <<>>
      BY <1>4, <1>7, <2>1, <3>1
    <3>4. 0 + Distance(p, q'.next, len) < len
      BY <1>1, <3>2
    <3> QED BY <2>1, <3>3, <3>4
  <2>2. CASE i = p /\ q.filters[p].tasks # <<>>
    BY <1>1, <1>2, <1>4, <1>7, <2>2 DEF Turns, len
  <2>3. CASE i # p
    BY <1>1, <1>2, <1>6, <2>3 DEF Turns, len
  <2> QED BY <2>1, <2>2, <2>3
<1>12. ASSUME NEW g \in Filters, \A i \in Places(q') : q'.filters[i].filter # g
       PROVE  bypass'[g] = 0
  <2>1. \A i \in Places(q) : q.filters[i].filter # g
    BY <1>6, <1>8, <1>12
  <2>2. bypass[g] = 0
    BY <1>1, <2>1 DEF Turns
  <2> QED BY <2>2
<1>13. \A i, j \in Places(q') : q'.filters[i].filter = q'.filters[j].filter => i = j
  BY <1>1, <1>6, <1>8 DEF Turns
<1> QED BY <1>6, <1>9, <1>10, <1>11, <1>12, <1>13 DEF Turns

\* The turn of a filter: it starts again, the others that wait come nearer.
LEMMA TurnsTake ==
    ASSUME IInv, NEW w \in Workers, Take(w), NextClass(q) = FilterClass
    PROVE  Turns'
<1> DEFINE len == Len(q.filters)
           p   == NextPlace(q)
           e   == EmptyTurns(q)
           t   == DequeuedTask(q)
           f   == q.filters[p].filter
<1>1. /\ len \in Nat /\ Places(q) = 1 .. len /\ Turns /\ bypass \in [Filters -> Nat]
      /\ \A i \in Places(q) : q.filters[i] \in [filter : Filters, tasks : Seq(Tasks)]
      /\ released \in Nat /\ q \in QueueType(released + 1) /\ Turning(q)
  BY TurnsTypes DEF IInv, Types
<1>2. q' = DequeueRest(q) /\ bypass' = CountTurns(ClassOf[t])
  BY DEF Take
<1>3. /\ p \in Places(q) /\ Len(q'.filters) = len /\ q'.next = AfterTurn(q)
      /\ Places(q') = Places(q) /\ HasFilterTask(q)
      /\ \A i \in Places(q) : q'.filters[i].filter = q.filters[i].filter
      /\ \A i \in Places(q) \ {p} : q'.filters[i] = q.filters[i]
      /\ q'.filters[p].tasks = Tail(q.filters[p].tasks)
      /\ t = Head(q.filters[p].tasks)
      /\ q.filters[p].tasks \in Seq(Tasks) /\ q.filters[p].tasks # <<>>
  BY <1>1, <1>2, TakesFilter
<1>4. /\ e = DistanceTo(q, p)
      /\ \A i \in Places(q) \ {p} : q.filters[i].tasks # <<>> => DistanceTo(q, i) > e
  BY <1>1, <1>3, NearestFilter
<1>5. len \in Nat \ {0} /\ q.next \in 0 .. len - 1 /\ e \in 0 .. len - 1
  BY <1>1, <1>3, <1>4, TurnReaches
<1> HIDE DEF p, t
<1>6. ClassOf[t] = f
  <2>1. 1 \in DOMAIN q.filters[p].tasks /\ t = q.filters[p].tasks[1]
    BY <1>3, LenProperties
  <2> QED BY <1>1, <1>3, <2>1 DEF Turns
<1>7. /\ q'.next \in 0 .. len - 1
      /\ \A i \in Places(q) \ {p} : q.filters[i].tasks # <<>> =>
            Distance(i, q'.next, len) = DistanceTo(q, i) - e - 1
  <2>1. q'.next = (q.next + e + 1) % len
    BY <1>3 DEF AfterTurn
  <2>2. \A i \in Places(q) : DistanceTo(q, i) = Distance(i, q.next, len)
    BY DEF DistanceTo
  <2> HIDE DEF e, len
  <2>3. q'.next \in 0 .. len - 1
    BY <1>5, <2>1, DistanceAfter
  <2>4. ASSUME NEW i \in 1 .. len, Distance(i, q.next, len) > e
        PROVE  Distance(i, q'.next, len) = Distance(i, q.next, len) - e - 1
    <3>1. Distance(i, (q.next + e + 1) % len, len) = Distance(i, q.next, len) - e - 1
      BY <1>5, <2>4, DistanceAfter
    <3> QED BY <2>1, <3>1
  <2> QED BY <1>1, <1>4, <2>2, <2>3, <2>4
<1>8. ASSUME NEW i \in Places(q) PROVE TasksOf(q, q.filters[i].filter) = ToSet(q.filters[i].tasks)
  <2>1. {j \in Places(q) : q.filters[j].filter = q.filters[i].filter} = {i}
    BY <1>1 DEF Turns
  <2> QED BY <2>1 DEF TasksOf
<1>9. \A g \in Filters :
         bypass'[g] = IF g # f /\ TasksOf(q, g) # {} THEN bypass[g] + 1 ELSE 0
  BY <1>2, <1>6 DEF CountTurns
<1> HIDE DEF len, e, f
<1>10. q'.next \in 0 .. len /\ (q'.filters # <<>> => q'.next < len)
  BY <1>1, <1>7
<1>11. \A i, j \in Places(q') : q'.filters[i].filter = q'.filters[j].filter => i = j
  BY <1>1, <1>3 DEF Turns
<1>12. ASSUME NEW i \in Places(q'), NEW k \in DOMAIN q'.filters[i].tasks
       PROVE  ClassOf[q'.filters[i].tasks[k]] = q'.filters[i].filter
  <2>1. CASE i = p
    <3>1. k \in DOMAIN Tail(q.filters[p].tasks)
      BY <1>3, <1>12, <2>1
    <3>2. k + 1 \in DOMAIN q.filters[p].tasks
          /\ Tail(q.filters[p].tasks)[k] = q.filters[p].tasks[k + 1]
      BY <1>3, <3>1, HeadTailProperties, LenProperties
    <3>3. ClassOf[q.filters[p].tasks[k + 1]] = q.filters[p].filter
      BY <1>1, <1>3, <3>2 DEF Turns
    <3> QED BY <1>3, <2>1, <3>2, <3>3
  <2>2. CASE i # p
    <3>1. i \in Places(q) /\ q'.filters[i] = q.filters[i]
      BY <1>3, <2>2
    <3>2. k \in DOMAIN q.filters[i].tasks
      BY <1>12, <3>1
    <3> QED BY <1>1, <3>1, <3>2 DEF Turns
  <2> QED BY <2>1, <2>2
<1>13. ASSUME NEW i \in Places(q')
       PROVE  IF q'.filters[i].tasks = <<>> THEN bypass'[q'.filters[i].filter] = 0
              ELSE bypass'[q'.filters[i].filter] + Distance(i, q'.next, len) < len
  <2>1. i \in Places(q) /\ q'.filters[i].filter = q.filters[i].filter
        /\ q.filters[i].filter \in Filters
    BY <1>1, <1>3
  <2>2. CASE i = p
    <3>1. bypass'[q'.filters[i].filter] = 0
      BY <1>9, <2>1, <2>2 DEF f
    <3>2. Distance(i, q'.next, len) \in 0 .. len - 1
      BY <1>1, <1>7, <2>1, DistanceRange
    <3>3. 0 + Distance(i, q'.next, len) < len
      BY <1>5, <3>2
    <3> QED BY <3>1, <3>3
  <2>3. CASE i # p
    <3> DEFINE b == bypass[q.filters[i].filter]
               d == DistanceTo(q, i)
    <3>1. q'.filters[i] = q.filters[i] /\ q.filters[i].filter # f /\ b \in Nat
      BY <1>1, <1>3, <2>1, <2>3 DEF Turns, f
    <3>2. CASE q.filters[i].tasks = <<>>
      <4>1. TasksOf(q, q.filters[i].filter) = {}
        <5>1. TasksOf(q, q.filters[i].filter) = ToSet(q.filters[i].tasks)
          BY <1>8, <2>1
        <5>2. ToSet(<<>>) = {}
          BY DEF ToSet
        <5> QED BY <3>2, <5>1, <5>2
      <4>2. bypass'[q'.filters[i].filter] = 0
        BY <1>9, <2>1, <4>1
      <4> QED BY <3>1, <3>2, <4>2
    <3>3. CASE q.filters[i].tasks # <<>>
      <4>1. b + d < len
        BY <1>1, <2>1, <3>3 DEF Turns, DistanceTo, len
      <4>2. d \in 0 .. len - 1
        BY <1>1, <2>1, TurnReaches DEF len
      <4>3. Distance(i, q'.next, len) = d - e - 1
        BY <1>7, <2>1, <2>3, <3>3
      <4>4. bypass'[q'.filters[i].filter] \in {b + 1, 0}
        BY <1>9, <2>1
      <4>5. b + 1 + (d - e - 1) < len /\ 0 + (d - e - 1) < len
        <5> HIDE DEF b, d
        <5> QED BY <1>5, <3>1, <4>1, <4>2
      <4> QED BY <3>1, <3>3, <4>3, <4>4, <4>5
    <3> QED BY <3>2, <3>3
  <2> QED BY <2>2, <2>3
<1>14. ASSUME NEW g \in Filters, \A i \in Places(q') : q'.filters[i].filter # g
       PROVE  bypass'[g] = 0
  <2>1. {i \in Places(q) : q.filters[i].filter = g} = {}
    BY <1>3, <1>14
  <2>2. TasksOf(q, g) = {}
    BY <2>1 DEF TasksOf
  <2> QED BY <1>9, <2>2
<1> QED BY <1>3, <1>10, <1>11, <1>12, <1>13, <1>14 DEF Turns

LEMMA TurnsStep ==
    ASSUME IInv, [Next]_vars
    PROVE  Turns'
<1>0. /\ released \in Nat /\ released + 1 \in Nat /\ q \in QueueType(released + 1)
      /\ Turns /\ Turning(q)
  BY TurnsTypes DEF IInv, Types
<1>1. CASE q'.filters = q.filters /\ q'.next = q.next /\ bypass' = bypass
  BY <1>0, <1>1 DEF Turns, Places
<1>2. ASSUME NEW t \in Tasks, Push(t), bypass' = bypass PROVE Turns'
  <2>1. CASE ClassOf[t] \in {UiClass, BatchClass}
    <3>1. q' = EnqueueUi(q, t) \/ q' = EnqueueBatch(q, t)
      BY <1>2, <2>1 DEF Push, Enqueue, UiClass, BatchClass
    <3>2. q'.filters = q.filters /\ q'.next = q.next
      BY <1>0, <3>1 DEF EnqueueUi, EnqueueBatch, QueueType
    <3> QED BY <1>1, <1>2, <3>2
  <2>2. CASE ClassOf[t] \notin {UiClass, BatchClass}
    <3>1. ClassOf[t] \in Filters
      BY <2>2 DEF Filters
    <3>2. q' = EnqueueFilter(q, ClassOf[t], t)
      BY <1>2, <2>2 DEF Push, Enqueue
    <3>3. Opens(q, q', ClassOf[t], t) \/ Joins(q, q', ClassOf[t], t)
      BY <3>2, EnqueueFilterEntry
    <3> QED BY <1>2, <3>1, <3>3, TurnsOpen, TurnsJoin DEF Joins
  <2> QED BY <2>1, <2>2
<1>3. ASSUME NEW t \in Tasks, Submit(t) PROVE Turns'
  BY <1>2, <1>3 DEF Submit
<1>4. ASSUME NEW w \in Workers, Spawn(w) PROVE Turns'
  BY <1>2, <1>4, SpawnsNew DEF Spawn
<1>5. ASSUME NEW w \in Workers, Take(w) PROVE Turns'
  <2>1. CASE NextClass(q) = FilterClass
    BY <1>5, <2>1, TurnsTake
  <2>2. CASE NextClass(q) # FilterClass
    <3>1. q' = DequeueRest(q) /\ bypass' = bypass /\ QueueSize(q) # 0
      BY <1>5, <2>2 DEF Take, Queued
    <3>2. q'.filters = q.filters /\ q'.next = q.next
      BY <1>0, <2>2, <3>1, TakesUi, TakesBatch DEF NextClass
    <3> QED BY <1>1, <3>1, <3>2
  <2> QED BY <2>1, <2>2
<1>6. CASE EnqueueBlocker
  <2>1. q' = EnqueueBatch(q, Current) /\ bypass' = bypass
    BY <1>6 DEF EnqueueBlocker, PushBlocker, Current, historyVars
  <2>2. q'.filters = q.filters /\ q'.next = q.next
    BY <1>0, <2>1 DEF EnqueueBatch, QueueType
  <2> QED BY <1>1, <2>1, <2>2
<1>7. CASE PushNullTasks
  <2>1. q' = [q EXCEPT !.ui = @ \o NullTasks] /\ bypass' = bypass
    BY <1>7 DEF PushNullTasks, historyVars
  <2>2. q'.filters = q.filters /\ q'.next = q.next
    BY <1>0, <2>1, NullsPad
  <2> QED BY <1>1, <2>1, <2>2
<1>8. CASE UNCHANGED <<q, bypass>>
  BY <1>1, <1>8
<1> QED
  BY <1>3, <1>4, <1>5, <1>6, <1>7, <1>8
     DEF Next, Worker, Waiter, Destructor, CheckQuit, Sleep, Finish, Arrive, Unblock,
         CallWaitForAll, ReadQueued, ReleaseAll, SetQuit, Join, Gone,
         vars, poolVars, historyVars

-----------------------------------------------------------------------------
(* The invariant holds from the start.                                     *)

LEMMA EmptyStart ==
    /\ \A l \in Lanes : Lane(EmptyQueue, l) = <<>>
    /\ \A n \in Nat : EmptyQueue \in QueueType(n)
<1>1. \A l \in Lanes : Lane(EmptyQueue, l) = <<>>
  BY DEF Lane, EmptyQueue, Places
<1>2. \A n \in Nat : EmptyQueue \in QueueType(n)
  BY DEF EmptyQueue, QueueType
<1> QED BY <1>1, <1>2

LEMMA InitIInv == Init => IInv
<1> SUFFICES ASSUME Init PROVE IInv
  OBVIOUS
<1> USE DEF Init
<1>0. /\ Cardinality({}) = 0 /\ Cardinality(Workers) \in Nat
      /\ \A w \in Workers : pc[w] = "check" /\ cmd[w] = NoTask
      /\ NoTask \notin Tasks /\ Current # NoTask
  BY WorkerSets, CurrentFacts
<1>1. Types
  <2>1. q \in QueueType(released + 1)
    BY EmptyStart
  <2>2. Busy = {} /\ Settled = {}
    BY <1>0 DEF Busy, Settled
  <2>3. wait \in CallType
    BY <1>0, MaxCallsAssumption DEF CallType
  <2>4. pc \in [Workers -> Pcs] /\ todo \in [Workers -> Seq(Tasks)]
    BY DEF Pcs
  <2> QED BY <1>0, <2>1, <2>2, <2>3, <2>4 DEF Types
<1>2. Hands
  BY <1>0 DEF Hands
<1>3. \A l \in Lanes : DOMAIN Lane(q, l) = {}
  BY EmptyStart
<1>4. Once
  BY <1>0, <1>3 DEF Once, Unique, Waits, Runs
<1>5. Spawned
  BY <1>0, SpawnsAssumption DEF Spawned
<1>6. DOMAIN q.batch = {} /\ Places(q) = {}
  BY DEF EmptyQueue, Places
<1>7. Rounds
  <2>1. Holders = {} /\ Blockers = {}
    BY <1>0, <1>6 DEF Holders, Blockers
  <2> QED BY <1>0, <1>6, <2>1 DEF Rounds
<1>8. InFront
  BY <1>6 DEF InFront, NoOvertaking
<1>9. Lateness
  BY DEF Lateness
<1>10. Turns
  BY <1>6 DEF Turns, EmptyQueue
<1> QED BY <1>1, <1>2, <1>4, <1>5, <1>7, <1>8, <1>9, <1>10 DEF IInv

LEMMA NextIInv == IInv /\ [Next]_vars => IInv'
BY TypesStep, HandsStep, OnceStep, SpawnedStep, RoundsStep, InFrontStep, LatenessStep, TurnsStep
   DEF IInv

-----------------------------------------------------------------------------
(* What the invariant says of the system.                                  *)

LEMMA AtMostOne ==
    ASSUME NEW S, \A x, y \in S : x = y
    PROVE  Cardinality(S) = IF S = {} THEN 0 ELSE 1
<1>1. CASE S = {}
  BY <1>1, FS_EmptySet
<1>2. CASE S # {}
  <2>1. PICK x \in S : S = {x}
    BY <1>2
  <2> QED BY <1>2, <2>1, FS_Singleton
<1> QED BY <1>1, <1>2

\* The places where a task is, counted.
LEMMA CountOfTask ==
    ASSUME IInv, NEW t \in Tasks
    PROVE  Occurrences(t) = IF t \in submitted \ done THEN 1 ELSE 0
<1> DEFINE In(s) == {i \in DOMAIN s : s[i] = t}
           U == In(q.ui)
           B == In(q.batch)
           H == {w \in Workers : pc[w] = "run" /\ cmd[w] = t}
           F == UNION {{p} \X In(q.filters[p].tasks) : p \in Places(q)}
<1>1. Once /\ q \in QueueType(released + 1)
  BY DEF IInv, Types
<1>2. /\ UiLane \in Lanes /\ BatchLane \in Lanes /\ UiLane # BatchLane
      /\ Lane(q, UiLane) = q.ui /\ Lane(q, BatchLane) = q.batch
  BY DEF Lane, UiLane, BatchLane, Lanes
<1>3. \A p \in Places(q) : p \in Lanes \ {UiLane, BatchLane} /\ Lane(q, p) = q.filters[p].tasks
  BY <1>1 DEF Lane, Lanes, UiLane, BatchLane, Places, QueueType
<1>4. \A l, m \in Lanes : \A i \in DOMAIN Lane(q, l), j \in DOMAIN Lane(q, m) :
         Lane(q, l)[i] = t /\ Lane(q, m)[j] = t => l = m /\ i = j
  BY <1>1 DEF Once, Unique
<1>5. \A x \in F : \E p \in Places(q) : \E i \in In(q.filters[p].tasks) : x = <<p, i>>
  OBVIOUS
<1>6. ASSUME NEW p \in Places(q), NEW i \in In(q.filters[p].tasks) PROVE F # {}
  <2>1. <<p, i>> \in F
    OBVIOUS
  <2> QED BY <2>1
<1>7. Cardinality(U) = IF U = {} THEN 0 ELSE 1
  BY <1>2, <1>4, AtMostOne
<1>8. Cardinality(B) = IF B = {} THEN 0 ELSE 1
  BY <1>2, <1>4, AtMostOne
<1>9. Cardinality(H) = IF H = {} THEN 0 ELSE 1
  <2>1. \A v, w \in H : v = w
    BY <1>1 DEF Once, Runs
  <2> QED BY <2>1, AtMostOne
<1>10. Cardinality(F) = IF F = {} THEN 0 ELSE 1
  <2>1. ASSUME NEW x \in F, NEW y \in F PROVE x = y
    <3>1. PICK p \in Places(q) : \E i \in In(q.filters[p].tasks) : x = <<p, i>>
      BY <1>5
    <3>2. PICK r \in Places(q) : \E j \in In(q.filters[r].tasks) : y = <<r, j>>
      BY <1>5
    <3> QED BY <1>3, <1>4, <3>1, <3>2
  <2> QED BY <2>1, AtMostOne
<1>11. H # {} <=> t \in started \ done
  BY <1>1 DEF Once, Runs
<1>12. U # {} \/ B # {} \/ F # {} <=> t \in submitted \ started
  <2>1. ASSUME t \in submitted \ started PROVE U # {} \/ B # {} \/ F # {}
    <3>1. PICK l \in Lanes : \E i \in DOMAIN Lane(q, l) : Lane(q, l)[i] = t
      BY <1>1, <2>1 DEF Once, Waits
    <3>2. CASE l = UiLane
      BY <1>2, <3>1, <3>2
    <3>3. CASE l = BatchLane
      BY <1>2, <3>1, <3>3
    <3>4. CASE l \notin {UiLane, BatchLane}
      <4>1. l \in Places(q)
        BY <3>1, <3>4 DEF Lane
      <4>2. PICK i \in In(q.filters[l].tasks) : TRUE
        BY <1>3, <3>1, <4>1
      <4> QED BY <1>6, <4>1, <4>2
    <3> QED BY <3>2, <3>3, <3>4
  <2>2. ASSUME U # {} PROVE Waits(q, t)
    BY <1>2, <2>2 DEF Waits
  <2>3. ASSUME B # {} PROVE Waits(q, t)
    BY <1>2, <2>3 DEF Waits
  <2>4. ASSUME F # {} PROVE Waits(q, t)
    <3>1. PICK p \in Places(q) : In(q.filters[p].tasks) # {}
      BY <1>5, <2>4
    <3> QED BY <1>3, <3>1 DEF Waits
  <2> QED BY <1>1, <2>1, <2>2, <2>3, <2>4 DEF Once
<1>13. ~ (U # {} /\ B # {}) /\ ~ (U # {} /\ F # {}) /\ ~ (B # {} /\ F # {})
  BY <1>2, <1>3, <1>4, <1>5
<1>14. Occurrences(t) = Cardinality(U) + Cardinality(B) + Cardinality(H) + Cardinality(F)
  BY DEF Occurrences
<1>15. started \subseteq submitted /\ done \subseteq started
  BY <1>1 DEF Once
<1> HIDE DEF U, B, H, F
<1> QED BY <1>7, <1>8, <1>9, <1>10, <1>11, <1>12, <1>13, <1>14, <1>15

\* Once every thread sits in its blocker, none of them runs a task.
LEMMA AllSettled ==
    ASSUME IInv, arrived = Cardinality(Workers)
    PROVE  \A w \in Workers : pc[w] = "blocked"
<1>1. Settled = Workers
  <2>1. Settled \subseteq Workers /\ arrived = Cardinality(Settled)
    BY DEF Settled, IInv, Types
  <2> QED BY <2>1, WorkerSets
<1> QED BY <1>1 DEF Settled

-----------------------------------------------------------------------------
(* The theorems.                                                           *)

\* The inductive invariant of the pool (WorkerThreads.cpp and MultiQueue.hpp), for
\* any number of threads, tasks and calls.
THEOREM Invariance == Spec => []IInv
BY InitIInv, NextIInv, PTL DEF Spec

\* The variables keep their types: no more threads are busy and no more blockers
\* have been reached than there are threads, and next_ is a place of filters_.
THEOREM TypeCorrect == Spec => []TypeOK
<1>1. ASSUME IInv PROVE TypeOK
  <2>1. Types /\ Once /\ Turns /\ released \in Nat /\ q \in QueueType(released + 1)
    BY <1>1 DEF IInv, Types
  <2>2. Commands = Tasks \cup {NoTask} \cup BlockersUpTo(released + 1)
    BY DEF Commands, BlockersUpTo
  <2>3. q.ui \in Seq(Commands) /\ q.batch \in Seq(Commands)
    BY <2>1, <2>2, SeqMonotonic DEF QueueType
  <2>4. \A i \in Places(q) : q.filters[i].filter \in Filters /\ q.filters[i].tasks \in Seq(Tasks)
    <3>1. q.filters \in Seq([filter : Filters, tasks : Seq(Tasks)]) /\ Places(q) = 1 .. Len(q.filters)
      BY <2>1 DEF QueueType, Places
    <3>2. \A i \in Places(q) : q.filters[i] \in [filter : Filters, tasks : Seq(Tasks)]
      BY <3>1, ElementOfSeq
    <3> QED BY <3>2
  <2>5. q.next \in 0 .. Len(q.filters) /\ (q.filters # <<>> => q.next < Len(q.filters))
    BY <2>1 DEF Turns
  <2>6. running \in 0 .. Cardinality(Workers) /\ arrived \in 0 .. Cardinality(Workers)
    <3>1. Busy \subseteq Workers /\ Settled \subseteq Workers
      BY DEF Busy, Settled
    <3> QED BY <2>1, <3>1, WorkerSets DEF Types
  <2>7. cmd \in [Workers -> Commands] /\ wait \in CallType
    BY <2>1, <2>2 DEF Types
  <2>8. done \subseteq started /\ started \subseteq submitted
    BY <2>1 DEF Once
  <2> QED BY <2>1, <2>3, <2>4, <2>5, <2>6, <2>7, <2>8 DEF TypeOK, Types, CallType
<1> QED BY <1>1, Invariance, PTL

\* The assertion of waitForAll() holds whenever it is reached.
THEOREM AssertionHolds == Spec => []WaitForAllAssertion
<1>1. ASSUME IInv PROVE WaitForAllAssertion
  <2> SUFFICES ASSUME wait.pc = "release" PROVE running = Cardinality(Workers)
    BY DEF WaitForAllAssertion
  <2>1. \A w \in Workers : pc[w] = "blocked"
    BY <1>1, AllSettled DEF IInv, Rounds
  <2>2. Busy = Workers
    BY <2>1 DEF Busy
  <2> QED BY <1>1, <2>2 DEF IInv, Types
<1> QED BY <1>1, Invariance, PTL

\* No blocker overtakes a task that was enqueued before waitForAll() was called.
THEOREM NobodyOvertakes == Spec => []NoOvertaking
<1>1. IInv => NoOvertaking
  BY DEF IInv, InFront
<1> QED BY <1>1, Invariance, PTL

\* While the tasks of a filter wait, the others have fewer turns than there are
\* filters.
THEOREM FiltersTakeTurns == Spec => []FilterBoundedBypass
<1>1. ASSUME IInv PROVE FilterBoundedBypass
  <2> SUFFICES ASSUME NEW f \in Filters PROVE bypass[f] < Len(q.filters) \/ bypass[f] = 0
    BY DEF FilterBoundedBypass
  <2>1. CASE \A i \in Places(q) : q.filters[i].filter # f
    BY <1>1, <2>1 DEF IInv, Turns
  <2>2. CASE \E i \in Places(q) : q.filters[i].filter = f
    <3>1. PICK i \in Places(q) : q.filters[i].filter = f
      BY <2>2
    <3>2. CASE q.filters[i].tasks = <<>>
      BY <1>1, <3>1, <3>2 DEF IInv, Turns
    <3>3. CASE q.filters[i].tasks # <<>>
      <4>1. bypass[f] + Distance(i, q.next, Len(q.filters)) < Len(q.filters)
        BY <1>1, <3>1, <3>3 DEF IInv, Turns
      <4>2. /\ Len(q.filters) \in Nat /\ bypass[f] \in Nat
            /\ Distance(i, q.next, Len(q.filters)) \in Nat
        <5>1. released \in Nat /\ q \in QueueType(released + 1) /\ bypass[f] \in Nat /\ Turning(q)
          BY <1>1 DEF IInv, Types, Turns, Turning
        <5>2. /\ DistanceTo(q, i) \in 0 .. Len(q.filters) - 1
              /\ Len(q.filters) \in Nat \ {0}
          BY <5>1, TurnReaches
        <5> QED BY <5>1, <5>2 DEF DistanceTo
      <4> QED BY <4>1, <4>2
    <3> QED BY <3>2, <3>3
  <2> QED BY <2>1, <2>2
<1> QED BY <1>1, Invariance, PTL

\* A thread takes at most one task after the destructor has set quit_.
THEOREM OneLateTask == Spec => []AtMostOneLateTask
<1>1. IInv => AtMostOneLateTask
  BY DEF IInv, Lateness, AtMostOneLateTask
<1> QED BY <1>1, Invariance, PTL

\* A task that was enqueued and is not done yet waits in one place or is run by
\* one thread; no other task is anywhere.
THEOREM NoTaskIsLost == Spec => []EveryTaskOnce
<1>1. IInv => EveryTaskOnce
  BY CountOfTask DEF EveryTaskOnce
<1> QED BY <1>1, Invariance, PTL

\* When waitForAll() is about to return, all that was enqueued is done, what the
\* tasks enqueued included.
THEOREM WaitForAllIsExact == Spec => WaitForAllWaits
<1>1. ASSUME IInv, ReadQueued, ~wait'.hasMore PROVE submitted = done
  <2>1. Queued = 0
    <3>1. wait \in CallType /\ wait' = [wait EXCEPT !.pc = "release", !.hasMore = HasMoreTasks]
      BY <1>1 DEF IInv, Types, ReadQueued
    <3>2. ~ (Queued > 0)
      <4>1. wait'.hasMore = HasMoreTasks
        BY <3>1 DEF CallType
      <4> QED BY <1>1, <4>1, Zenon DEF HasMoreTasks
    <3>3. Queued \in Nat
      <4>1. released + 1 \in Nat /\ q \in QueueType(released + 1)
        BY <1>1 DEF IInv, Types
      <4> QED BY <4>1, EmptyLanes DEF Queued
    <3> QED BY <3>2, <3>3
  <2>2. \A t : ~ Waits(q, t)
    <3>1. \A l \in Lanes : Lane(q, l) = <<>>
      BY <1>1, <2>1, EmptyLanes DEF IInv, Types, Queued
    <3> QED BY <3>1 DEF Waits
  <2>3. \A w \in Workers, t \in Tasks : ~ Runs(w, t)
    BY <1>1, AllSettled DEF ReadQueued, AllArrived, BlockerCount, Runs
  <2> QED BY <1>1, <2>2, <2>3 DEF IInv, Types, Once
<1>2. IInv /\ [Next]_vars => [ReadQueued /\ ~wait'.hasMore => submitted = done]_vars
  BY <1>1
<1> QED BY <1>2, Invariance, PTL DEF Spec, WaitForAllWaits

=============================================================================
