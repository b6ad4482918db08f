-------------------------- MODULE SimpleNodeProofs --------------------------
(***************************************************************************)
(* What a node of the filter tree keeps, for every set of logs, filters,   *)
(* threads and children, and every size of chunks.                         *)
(***************************************************************************)
EXTENDS SimpleNode, LogsProofs

USE DEF NoKey

-----------------------------------------------------------------------------
(* The pieces actions share.                                               *)

LEMMA InitInv == Init => Inv
<1> SUFFICES ASSUME Init PROVE Inv
  OBVIOUS
<1> USE DEF Init
<1>1. TypeOK
  <2>1. IsFiniteSet(logs)
    BY FS_EmptySet
  <2> QED BY <2>1 DEF TypeOK
<1>2. OnTheWay /\ ListedIsCopied
  BY DEF OnTheWay, ListedIsCopied
<1>3. ShownIsThere /\ NoLostLog
  BY DEF ShownIsThere, NoLostLog
<1> QED BY <1>1, <1>2, <1>3 DEF Inv

\* The types a loop leaves behind.
LEMMA GoOnType ==
    ASSUME TypeOK, NEW t \in Inserters, NEW rest \in SUBSET Nodes, GoOn(t, rest)
    PROVE  /\ todo' \in [Inserters -> SUBSET Nodes]
           /\ at' \in [Inserters -> {"idle", "logged", "loop"}]
           /\ key' \in [Inserters -> Keys \cup {NoKey}]
           /\ raced' \in [Inserters -> {"no", "grown", "shrunk"}]
BY DEF TypeOK, GoOn

\* A chunk is a chunk of logs of the node, and not empty where the copy stands on
\* a log of the node.
LEMMA NextChunkIsLogs ==
    ASSUME NEW c
    PROVE  NextChunk(c) \subseteq logs
BY DEF NextChunk, From, NotBelow

LEMMA ChunkIsChunk ==
    ASSUME NEW c \in Nodes, NEW ks \in SUBSET Keys, NEW is \in {"queued", "locked"}
    PROVE  /\ Chunk(c, ks, is) \in [node : Nodes, keys : SUBSET Keys, is : {"queued", "locked"}]
           /\ Chunk(c, ks, is).node = c
           /\ Chunk(c, ks, is).keys = ks
BY DEF Chunk

LEMMA LogsFinite ==
    ASSUME TypeOK
    PROVE  IsFiniteSet(logs) /\ logs \subseteq Int
BY KeysAssumption DEF TypeOK

LEMMA FirstOfChunk ==
    ASSUME TypeOK, NEW ks, ks \subseteq logs, ks # {}
    PROVE  First(ks) \in ks /\ Last(ks) \in ks
           /\ \A k \in ks : First(ks) <= k /\ k <= Last(ks)
<1>1. IsFiniteSet(ks) /\ ks \subseteq Int
  BY LogsFinite, FS_Subset
<1> QED BY <1>1, FirstIsLeast, LastIsGreatest

-----------------------------------------------------------------------------
(* Types, and what is on its way.                                          *)

LEMMA InsertionTyped ==
    ASSUME TypeOK, OnTheWay, NEW t \in Inserters,
           (\E k \in Keys : InsertLog(t, k)) \/ LoopStep(t)
    PROVE  TypeOK' /\ OnTheWay'
<1>1. CASE \E k \in Keys : InsertLog(t, k)
  <2>1. PICK k \in Keys : InsertLog(t, k)
    BY <1>1
  <2>2. IsFiniteSet(logs')
    BY <2>1, FS_AddElement DEF InsertLog, Inserted, TypeOK
  <2>3. TypeOK'
    BY <2>1, <2>2 DEF InsertLog, Inserted, TypeOK, copyVars
  <2>4. OnTheWay'
    BY <2>1 DEF InsertLog, Inserted, TypeOK, OnTheWay, copyVars
  <2> QED BY <2>3, <2>4
<1>2. CASE BeginLoop(t)
  <2>1. children \in SUBSET Nodes /\ GoOn(t, children)
    BY <1>2 DEF BeginLoop, TypeOK
  <2>2. TypeOK'
    BY <1>2, <2>1, GoOnType DEF BeginLoop, TypeOK, copyVars
  <2>3. OnTheWay'
    BY <1>2 DEF BeginLoop, GoOn, TypeOK, OnTheWay, copyVars
  <2> QED BY <2>2, <2>3
<1>3. CASE Visit(t)
  <2>1. PICK c \in todo[t] : ChildInserts(c, key[t]) /\ GoOn(t, todo[t] \ {c})
    BY <1>3 DEF Visit
  <2>2. todo[t] \ {c} \in SUBSET Nodes /\ c \in Nodes /\ key[t] \in Keys
    BY <1>3 DEF Visit, TypeOK, OnTheWay
  <2>3. view' \in [Nodes -> SUBSET Keys]
    BY <2>1, <2>2 DEF ChildInserts, Inserted, TypeOK
  <2>4. TypeOK'
    BY <1>3, <2>1, <2>2, <2>3, GoOnType DEF Visit, TypeOK, copyVars
  <2>5. OnTheWay'
    BY <1>3, <2>1 DEF Visit, GoOn, TypeOK, OnTheWay, copyVars
  <2> QED BY <2>4, <2>5
<1>4. CASE PassOver(t)
  <2>1. PICK c \in todo[t] : GoOn(t, todo[t] \ {c})
    BY <1>4 DEF PassOver
  <2>2. todo[t] \ {c} \in SUBSET Nodes /\ key[t] \in Keys
    BY <1>4 DEF PassOver, TypeOK, OnTheWay
  <2>3. TypeOK'
    BY <1>4, <2>1, <2>2, GoOnType DEF PassOver, TypeOK, copyVars
  <2>4. OnTheWay'
    BY <1>4, <2>1 DEF PassOver, GoOn, TypeOK, OnTheWay, copyVars
  <2> QED BY <2>3, <2>4
<1>5. CASE Crash(t)
  BY <1>5 DEF Crash, TypeOK, OnTheWay, loopVars, copyVars
<1> QED BY <1>1, <1>2, <1>3, <1>4, <1>5 DEF LoopStep

LEMMA MembershipTyped ==
    ASSUME TypeOK, OnTheWay, NEW c \in Nodes, Membership(c)
    PROVE  TypeOK' /\ OnTheWay'
<1>1. CASE ListChild(c)
  <2>1. TypeOK'
    BY <1>1 DEF ListChild, RaceLoops, TypeOK
  <2>2. OnTheWay'
    BY <1>1 DEF ListChild, TypeOK, OnTheWay
  <2> QED BY <2>1, <2>2
<1>2. CASE EnqueueCopy(c)
  BY <1>2 DEF EnqueueCopy, TypeOK, OnTheWay, loopVars
<1>3. CASE RemoveChild(c)
  <2>1. TypeOK'
    BY <1>3 DEF RemoveChild, RaceLoops, TypeOK, copyVars
  <2>2. OnTheWay'
    BY <1>3 DEF RemoveChild, OnTheWay, copyVars
  <2> QED BY <2>1, <2>2
<1> QED BY <1>1, <1>2, <1>3 DEF Membership

LEMMA CopyTyped ==
    ASSUME TypeOK, OnTheWay, NEW c \in Nodes, CopyTask(c)
    PROVE  TypeOK' /\ OnTheWay'
<1>1. CASE BeginCopy(c)
  <2>1. logs # {} => First(logs) \in logs
    BY FirstOfChunk
  <2>2. TypeOK'
    BY <1>1, <2>1 DEF BeginCopy, Stop, TypeOK, loopVars
  <2>3. OnTheWay'
    BY <1>1, <2>1 DEF BeginCopy, Stop, TypeOK, OnTheWay, loopVars
  <2> QED BY <2>2, <2>3
<1>2. CASE CopyChunk(c)
  <2> DEFINE ks == NextChunk(c)
  <2>1. ks \subseteq logs
    BY NextChunkIsLogs
  <2>2. ks # {} => NextCursor(ks) \in logs
    BY <2>1, FirstOfChunk DEF NextCursor
  <2>3. chunks' = chunks \/ (ks # {} /\ chunks' = chunks \cup {Chunk(c, ks, "queued")})
    BY <1>2 DEF CopyChunk
  <2>4. \/ Stop(c)
        \/ ks # {} /\ cursor' = [cursor EXCEPT ![c] = NextCursor(ks)] /\ copy' = copy
    BY <1>2 DEF CopyChunk
  <2>5. UNCHANGED <<logs, children, view, at, key, todo, raced, torn, crashed>>
    BY <1>2 DEF CopyChunk, loopVars
  <2> HIDE DEF ks
  <2>6. TypeOK'
    <3>1. chunks' \subseteq [node : Nodes, keys : SUBSET Keys, is : {"queued", "locked"}]
      <4>1. Chunk(c, ks, "queued") \in [node : Nodes, keys : SUBSET Keys, is : {"queued", "locked"}]
        <5>1. ks \in SUBSET Keys
          BY <2>1 DEF TypeOK
        <5> QED BY <5>1, ChunkIsChunk
      <4> QED BY <2>3, <4>1 DEF TypeOK
    <3>2. cursor' \in [Nodes -> Keys \cup {NoKey}]
          /\ copy' \in [Nodes -> {"none", "listed", "queued", "running", "done"}]
      BY <2>2, <2>4 DEF Stop, TypeOK
    <3> QED BY <2>5, <3>1, <3>2 DEF TypeOK
  <2>7. OnTheWay'
    <3>1. \A ch \in chunks' : ch.keys # {} /\ ch.keys \subseteq logs
      BY <2>1, <2>3 DEF Chunk, OnTheWay
    <3>2. \A d \in Nodes : copy'[d] = "running" => cursor'[d] \in logs
      BY <2>2, <2>4 DEF Stop, TypeOK, OnTheWay
    <3> QED BY <2>5, <3>1, <3>2 DEF OnTheWay
  <2> QED BY <2>6, <2>7
<1>3. CASE AbandonCopy(c)
  <2>1. TypeOK'
    BY <1>3 DEF AbandonCopy, Stop, TypeOK, loopVars
  <2>2. OnTheWay'
    BY <1>3 DEF AbandonCopy, Stop, TypeOK, OnTheWay, loopVars
  <2> QED BY <2>1, <2>2
<1> QED BY <1>1, <1>2, <1>3 DEF CopyTask

LEMMA ChunkTyped ==
    ASSUME TypeOK, OnTheWay, NEW ch \in chunks, ChunkTask(ch)
    PROVE  TypeOK' /\ OnTheWay'
<1>1. ch.node \in Nodes /\ ch.keys \subseteq Keys /\ ch.keys \subseteq logs /\ ch.keys # {}
  BY DEF TypeOK, OnTheWay
<1>2. UNCHANGED <<logs, children, at, key, todo, raced, copy, cursor, torn, crashed>>
  BY DEF ChunkTask, HoldChild, DropChunk, InsertNext, loopVars
<1>3. view' \in [Nodes -> SUBSET Keys]
  <2>1. First(ch.keys) \in Keys
    BY <1>1, FirstOfChunk
  <2>2. view' = view \/ view' = [view EXCEPT ![ch.node] = @ \cup {First(ch.keys)}]
    BY DEF ChunkTask, HoldChild, DropChunk, InsertNext, ChildInserts, Inserted
  <2> QED BY <1>1, <2>1, <2>2 DEF TypeOK
<1>4. \A d \in chunks' : d \in chunks \/ (d.keys # {} /\ d.keys \subseteq ch.keys
                /\ d \in [node : Nodes, keys : SUBSET Keys, is : {"queued", "locked"}])
  <2>1. CASE HoldChild(ch)
    <3>1. chunks' = (chunks \ {ch}) \cup {Chunk(ch.node, ch.keys, "locked")}
      BY <2>1 DEF HoldChild
    <3>2. ch.keys \in SUBSET Keys
      BY <1>1
    <3> DEFINE new == Chunk(ch.node, ch.keys, "locked")
    <3>3. new.keys = ch.keys /\ new \in [node : Nodes, keys : SUBSET Keys, is : {"queued", "locked"}]
      BY <1>1, <3>2, ChunkIsChunk
    <3>4. new.keys # {} /\ new.keys \subseteq ch.keys
      BY <1>1, <3>3
    <3>5. chunks' \subseteq (chunks \cup {new})
      BY <3>1
    <3> HIDE DEF new
    <3> QED BY <3>3, <3>4, <3>5
  <2>2. CASE DropChunk(ch)
    BY <2>2 DEF DropChunk
  <2>3. CASE InsertNext(ch)
    <3>1. \/ chunks' = (chunks \ {ch}) \cup {}
          \/ Rest(ch) # {} /\ chunks' = (chunks \ {ch}) \cup {Chunk(ch.node, Rest(ch), "locked")}
      BY <2>3 DEF InsertNext
    <3>2. Rest(ch) \subseteq ch.keys
      BY DEF Rest
    <3> DEFINE new == Chunk(ch.node, Rest(ch), "locked")
    <3>3. Rest(ch) \in SUBSET Keys
      BY <1>1, <3>2
    <3>4. new.keys = Rest(ch)
          /\ new \in [node : Nodes, keys : SUBSET Keys, is : {"queued", "locked"}]
      BY <1>1, <3>3, ChunkIsChunk
    <3>5. chunks' \subseteq (chunks \cup {new})
          /\ (Rest(ch) = {} => chunks' \subseteq chunks)
      BY <3>1
    <3> HIDE DEF new
    <3> QED BY <1>1, <3>2, <3>4, <3>5
  <2> QED BY <2>1, <2>2, <2>3 DEF ChunkTask
<1>5. TypeOK'
  BY <1>2, <1>3, <1>4 DEF TypeOK
<1>6. OnTheWay'
  BY <1>1, <1>2, <1>4 DEF OnTheWay
<1> QED BY <1>5, <1>6

LEMMA NextTyped ==
    ASSUME TypeOK, OnTheWay, [Next]_vars
    PROVE  TypeOK' /\ OnTheWay'
<1>1. CASE UNCHANGED vars
  BY <1>1 DEF TypeOK, OnTheWay, vars, loopVars, copyVars
<1> QED BY <1>1, InsertionTyped, MembershipTyped, CopyTyped, ChunkTyped DEF Next, Dead

-----------------------------------------------------------------------------
(* What a child shows.                                                     *)

\* The log that a step inserts to a child is a log of the node that it takes.
LEMMA ShowsTaken ==
    ASSUME TypeOK, ShownIsThere, NEW c \in Nodes, NEW k \in logs, ChildInserts(c, k),
           logs' = logs
    PROVE  ShownIsThere'
<1>1. view' = view \/ (k \in Matches[c] /\ view' = [view EXCEPT ![c] = @ \cup {k}])
  BY DEF ChildInserts, Inserted
<1> QED BY <1>1 DEF ShownIsThere, TypeOK

LEMMA NextShown ==
    ASSUME TypeOK, OnTheWay, ShownIsThere, [Next]_vars
    PROVE  ShownIsThere'
<1>1. CASE view' = view /\ logs \subseteq logs'
  BY <1>1 DEF ShownIsThere
<1>2. ASSUME NEW t \in Inserters, Visit(t)
      PROVE  ShownIsThere'
  <2>1. PICK c \in todo[t] : ChildInserts(c, key[t])
    BY <1>2 DEF Visit
  <2>2. c \in Nodes /\ key[t] \in logs /\ logs' = logs
    BY <1>2 DEF Visit, TypeOK, OnTheWay
  <2> QED BY <2>1, <2>2, ShowsTaken
<1>3. ASSUME NEW ch \in chunks, InsertNext(ch)
      PROVE  ShownIsThere'
  <2>1. First(ch.keys) \in logs /\ ch.node \in Nodes
    BY FirstOfChunk DEF TypeOK, OnTheWay
  <2>2. ChildInserts(ch.node, First(ch.keys)) /\ logs' = logs
    BY <1>3 DEF InsertNext
  <2> QED BY <2>1, <2>2, ShowsTaken
<1>4. ASSUME NEW t \in Inserters, NEW k \in Keys, InsertLog(t, k)
      PROVE  view' = view /\ logs \subseteq logs'
  BY <1>4 DEF InsertLog, Inserted
<1>5. ASSUME NEW t \in Inserters, BeginLoop(t) \/ PassOver(t) \/ Crash(t)
      PROVE  view' = view /\ logs' = logs
  BY <1>5 DEF BeginLoop, PassOver, Crash
<1>6. ASSUME NEW c \in Nodes, Membership(c) \/ CopyTask(c)
      PROVE  view' = view /\ logs' = logs
  BY <1>6 DEF Membership, ListChild, EnqueueCopy, RemoveChild, CopyTask, BeginCopy,
              CopyChunk, AbandonCopy
<1>7. ASSUME NEW ch \in chunks, HoldChild(ch) \/ DropChunk(ch)
      PROVE  view' = view /\ logs' = logs
  BY <1>7 DEF HoldChild, DropChunk
<1>8. CASE UNCHANGED vars
  BY <1>1, <1>8 DEF vars
<1> QED BY <1>1, <1>2, <1>3, <1>4, <1>5, <1>6, <1>7, <1>8
        DEF Next, Dead, LoopStep, ChunkTask

\* The copy of a listed child has begun, and what has begun is not undone.
LEMMA NextListed ==
    ASSUME TypeOK, ListedIsCopied, [Next]_vars
    PROVE  ListedIsCopied'
<1>1. ASSUME NEW c \in Nodes, ListChild(c) PROVE ListedIsCopied'
  BY <1>1 DEF ListChild, ListedIsCopied, TypeOK
<1>2. ASSUME NEW c \in Nodes, RemoveChild(c) \/ EnqueueCopy(c) PROVE ListedIsCopied'
  BY <1>2 DEF RemoveChild, EnqueueCopy, ListedIsCopied, TypeOK, copyVars
<1>3. ASSUME NEW c \in Nodes, CopyTask(c) PROVE ListedIsCopied'
  <2>1. children' = children
    BY <1>3 DEF CopyTask, BeginCopy, CopyChunk, AbandonCopy
  <2>2. copy' = copy \/ \E s \in {"running", "done"} : copy' = [copy EXCEPT ![c] = s]
    BY <1>3 DEF CopyTask, BeginCopy, CopyChunk, AbandonCopy, Stop
  <2> QED BY <2>1, <2>2 DEF ListedIsCopied, TypeOK
<1>4. CASE UNCHANGED <<children, copy>>
  BY <1>4 DEF ListedIsCopied
<1>5. ASSUME NEW t \in Inserters, (\E k \in Keys : InsertLog(t, k)) \/ LoopStep(t)
      PROVE  UNCHANGED <<children, copy>>
  BY <1>5 DEF InsertLog, LoopStep, BeginLoop, Visit, PassOver, Crash, copyVars
<1>6. ASSUME NEW ch \in chunks, ChunkTask(ch) PROVE UNCHANGED <<children, copy>>
  BY <1>6 DEF ChunkTask, HoldChild, DropChunk, InsertNext
<1>7. CASE UNCHANGED vars
  BY <1>4, <1>7 DEF vars, copyVars
<1> QED BY <1>1, <1>2, <1>3, <1>4, <1>5, <1>6, <1>7 DEF Next, Dead, Membership

-----------------------------------------------------------------------------
(* No log is lost. The step that adds a log makes it pending, the steps    *)
(* that end one reason for it to be pending leave another one behind, or   *)
(* have put it in the child.                                               *)

\* The part of Pending that inserters account for, and the part that the copy of
\* the child does.
ByLoop(c, k) ==
    \/ \E t \in Inserters : at[t] = "logged" /\ key[t] = k
    \/ \E t \in Inserters : at[t] = "loop" /\ key[t] = k /\ c \in todo[t]

ByCopy(c, k) ==
    \/ copy[c] \in {"listed", "queued"}
    \/ copy[c] = "running" /\ cursor[c] <= k
    \/ \E ch \in chunks : ch.node = c /\ k \in ch.keys

LEMMA PendingParts ==
    /\ \A c, k : Pending(c, k) <=> ByLoop(c, k) \/ ByCopy(c, k)
    /\ \A c, k : Pending(c, k)' <=> ByLoop(c, k)' \/ ByCopy(c, k)'
BY DEF Pending, ByLoop, ByCopy

\* What a child shows it keeps.
LEMMA ViewGrows ==
    ASSUME TypeOK, NEW d \in Nodes, NEW k, ChildInserts(d, k), NEW c \in Nodes
    PROVE  view[c] \subseteq view'[c] /\ (k \in Matches[d] => k \in view'[d])
BY DEF ChildInserts, Inserted, TypeOK

LEMMA LoopStepKeeps ==
    ASSUME TypeOK, OnTheWay, NoLostLog, NEW t \in Inserters, LoopStep(t)
    PROVE  NoLostLog'
<1> SUFFICES ASSUME NEW c \in children, NEW k \in logs \cap Matches[c]
             PROVE  k \in view'[c] \/ k \in torn' \/ Pending(c, k)'
  BY DEF LoopStep, BeginLoop, Visit, PassOver, Crash, NoLostLog
<1>1. c \in Nodes /\ UNCHANGED <<children, copy, cursor, chunks>>
  BY DEF LoopStep, BeginLoop, Visit, PassOver, Crash, copyVars, TypeOK
<1>2. k \in view[c] \/ k \in torn \/ ByLoop(c, k) \/ ByCopy(c, k)
  BY PendingParts DEF NoLostLog
<1>3. CASE ByCopy(c, k)
  BY <1>1, <1>3, PendingParts DEF ByCopy
<1>4. CASE k \in view[c] \/ k \in torn
  <2>1. torn \subseteq torn'
    BY DEF LoopStep, BeginLoop, Visit, PassOver, Crash
  <2>2. view[c] \subseteq view'[c]
    <3>1. CASE Visit(t)
      <4>1. PICK d \in todo[t] : ChildInserts(d, key[t])
        BY <3>1 DEF Visit
      <4> QED BY <1>1, <4>1, ViewGrows DEF TypeOK
    <3> QED BY <3>1 DEF LoopStep, BeginLoop, PassOver, Crash
  <2> QED BY <1>4, <2>1, <2>2
<1>5. CASE ByLoop(c, k)
  <2>1. PICK u \in Inserters :
            key[u] = k /\ (at[u] = "logged" \/ (at[u] = "loop" /\ c \in todo[u]))
    BY <1>5 DEF ByLoop
  <2>2. CASE u # t \/ Crash(t)
    <3>1. at'[u] = at[u] /\ key'[u] = key[u] /\ todo'[u] = todo[u]
      BY <2>2 DEF LoopStep, BeginLoop, Visit, PassOver, Crash, GoOn, TypeOK, loopVars
    <3> QED BY <2>1, <3>1, PendingParts DEF ByLoop
  <2>3. CASE u = t /\ BeginLoop(t)
    <3>1. at[t] = "logged" /\ key[t] = k /\ GoOn(t, children)
      BY <2>1, <2>3 DEF BeginLoop
    <3>2. at'[t] = "loop" /\ key'[t] = k /\ c \in todo'[t]
      BY <3>1 DEF GoOn, TypeOK
    <3> QED BY <3>2, PendingParts DEF ByLoop
  <2>4. CASE u = t /\ Visit(t)
    <3>1. PICK d \in todo[t] : ChildInserts(d, key[t]) /\ GoOn(t, todo[t] \ {d})
      BY <2>4 DEF Visit
    <3>2. at[t] = "loop" /\ key[t] = k /\ c \in todo[t]
      BY <2>1, <2>4 DEF Visit
    <3>3. CASE d = c
      BY <1>1, <3>1, <3>2, <3>3, ViewGrows
    <3>4. CASE d # c
      <4>1. at'[t] = "loop" /\ key'[t] = k /\ c \in todo'[t]
        BY <3>1, <3>2, <3>4 DEF GoOn, TypeOK
      <4> QED BY <4>1, PendingParts DEF ByLoop
    <3> QED BY <3>3, <3>4
  <2>5. CASE u = t /\ PassOver(t)
    BY <2>1, <2>5 DEF PassOver
  <2> QED BY <2>2, <2>3, <2>4, <2>5 DEF LoopStep
<1> QED BY <1>2, <1>3, <1>4, <1>5

LEMMA InsertLogKeeps ==
    ASSUME TypeOK, NoLostLog, NEW t \in Inserters, NEW j \in Keys, InsertLog(t, j)
    PROVE  NoLostLog'
<1> SUFFICES ASSUME NEW c \in children, NEW k \in logs' \cap Matches[c]
             PROVE  k \in view[c] \/ k \in torn \/ Pending(c, k)'
  BY DEF InsertLog, NoLostLog
<1>1. CASE k = j
  <2>1. at'[t] = "logged" /\ key'[t] = k
    BY <1>1 DEF InsertLog, TypeOK
  <2> QED BY <2>1, PendingParts DEF ByLoop
<1>2. CASE k # j
  <2>1. k \in view[c] \/ k \in torn \/ ByLoop(c, k) \/ ByCopy(c, k)
    BY <1>2, PendingParts DEF NoLostLog, InsertLog, Inserted
  <2>2. ByLoop(c, k) => ByLoop(c, k)'
    BY DEF ByLoop, InsertLog, TypeOK
  <2>3. ByCopy(c, k) => ByCopy(c, k)'
    BY DEF ByCopy, InsertLog, copyVars
  <2> QED BY <2>1, <2>2, <2>3, PendingParts
<1> QED BY <1>1, <1>2

LEMMA MembershipKeeps ==
    ASSUME TypeOK, NoLostLog, NEW d \in Nodes, Membership(d)
    PROVE  NoLostLog'
<1> SUFFICES ASSUME NEW c \in children', NEW k \in logs \cap Matches[c]
             PROVE  k \in view[c] \/ k \in torn \/ Pending(c, k)'
  BY DEF Membership, ListChild, EnqueueCopy, RemoveChild, NoLostLog
<1>1. CASE c \notin children \/ (EnqueueCopy(d) /\ c = d)
  <2>1. copy'[c] \in {"listed", "queued"}
    BY <1>1 DEF Membership, ListChild, EnqueueCopy, RemoveChild, TypeOK
  <2> QED BY <2>1, PendingParts DEF ByCopy
<1>2. CASE c \in children /\ ~(EnqueueCopy(d) /\ c = d)
  <2>1. k \in view[c] \/ k \in torn \/ ByLoop(c, k) \/ ByCopy(c, k)
    BY <1>2, PendingParts DEF NoLostLog
  <2>2. ByLoop(c, k) => ByLoop(c, k)'
    BY DEF ByLoop, Membership, ListChild, EnqueueCopy, RemoveChild, loopVars
  <2>3. ByCopy(c, k) => ByCopy(c, k)'
    <3>1. UNCHANGED <<cursor, chunks>>
      BY DEF Membership, ListChild, EnqueueCopy, RemoveChild, copyVars
    <3>2. copy'[c] = copy[c] \/ copy'[c] = "listed"
      <4>1. c \in Nodes
        BY <1>2 DEF TypeOK
      <4>2. CASE ListChild(d)
        BY <4>1, <4>2 DEF ListChild, TypeOK
      <4>3. CASE EnqueueCopy(d)
        BY <1>2, <4>1, <4>3 DEF EnqueueCopy, TypeOK
      <4>4. CASE RemoveChild(d)
        BY <4>4 DEF RemoveChild, copyVars
      <4> QED BY <4>2, <4>3, <4>4 DEF Membership
    <3> QED BY <3>1, <3>2 DEF ByCopy
  <2> QED BY <2>1, <2>2, <2>3, PendingParts
<1> QED BY <1>1, <1>2

\* A log that the next chunk leaves out is behind its last log, where the copy
\* goes on: the copy does not end with this chunk.
LEMMA NextChunkLeavesOut ==
    ASSUME TypeOK, OnTheWay, NEW c \in Nodes, copy[c] = "running",
           NEW k \in logs, cursor[c] <= k, k \notin NextChunk(c)
    PROVE  /\ NextChunk(c) # {} /\ ~LastChunk(NextChunk(c))
           /\ NextCursor(NextChunk(c)) <= k
<1> DEFINE ks == NextChunk(c)
<1>1. cursor[c] \in Int /\ IsFiniteSet(logs) /\ logs \subseteq Int /\ k \in Int
      /\ chunkSize \in Nat /\ chunkSize >= 2
  BY LogsFinite, ChunkAssumption DEF OnTheWay
<1>2. k \in NotBelow(logs, cursor[c]) /\ k \notin From(logs, cursor[c], chunkSize)
      /\ ks = From(logs, cursor[c], chunkSize)
  BY DEF NotBelow, NextChunk
<1>3. PICK i, j \in ks : i # j
  BY <1>1, <1>2, AChunkOfOneIsTheLast
<1>4. ks \subseteq logs /\ IsFiniteSet(ks)
  BY <1>1, NextChunkIsLogs, FS_Subset
<1>5. Cardinality(ks) # 1
  <2> HIDE DEF ks
  <2> QED BY <1>3, <1>4, FS_Singleton
<1>6. Last(ks) < k
  <2>1. Last(ks) \in ks
    BY <1>3, <1>4, FirstOfChunk
  <2> QED BY <1>1, <1>2, <2>1, FromTakesTheLowest
<1>7. Last(ks) \in Int
  BY <1>1, <1>3, <1>4, FirstOfChunk
<1> QED BY <1>1, <1>3, <1>5, <1>6, <1>7 DEF LastChunk, NextCursor

LEMMA CopyKeeps ==
    ASSUME TypeOK, OnTheWay, NoLostLog, NEW d \in Nodes, CopyTask(d)
    PROVE  NoLostLog'
<1>1. UNCHANGED <<logs, children, view, at, key, todo, torn>>
  BY DEF CopyTask, BeginCopy, CopyChunk, AbandonCopy, loopVars
<1> SUFFICES ASSUME NEW c \in children, NEW k \in logs \cap Matches[c]
             PROVE  k \in view[c] \/ k \in torn \/ Pending(c, k)'
  BY <1>1 DEF NoLostLog
<1>2. c \in Nodes /\ k \in logs
  BY DEF TypeOK
<1>3. k \in view[c] \/ k \in torn \/ ByLoop(c, k) \/ ByCopy(c, k)
  BY PendingParts DEF NoLostLog
<1>4. ByLoop(c, k) => ByLoop(c, k)'
  BY <1>1 DEF ByLoop
<1>5. chunks \subseteq chunks'
  BY DEF CopyTask, BeginCopy, CopyChunk, AbandonCopy
<1>6. ASSUME ByCopy(c, k) PROVE ByCopy(c, k)'
  <2>1. CASE \E ch \in chunks : ch.node = c /\ k \in ch.keys
    BY <1>5, <2>1 DEF ByCopy
  <2>2. CASE c # d
    <3>1. copy'[c] = copy[c] /\ cursor'[c] = cursor[c]
      BY <1>2, <2>2 DEF CopyTask, BeginCopy, CopyChunk, AbandonCopy, Stop, TypeOK
    <3> QED BY <1>5, <1>6, <3>1 DEF ByCopy
  <2>3. CASE c = d /\ BeginCopy(d)
    <3>1. First(logs) <= k
      BY <1>2, FirstOfChunk
    <3>2. copy'[c] = "running" /\ cursor'[c] = First(logs)
      BY <1>2, <2>3 DEF BeginCopy, TypeOK
    <3> QED BY <3>1, <3>2 DEF ByCopy
  <2>4. CASE c = d /\ CopyChunk(d) /\ copy[c] = "running" /\ cursor[c] <= k
    <3>1. CASE k \in NextChunk(c)
      <4>1. Chunk(c, NextChunk(c), "queued") \in chunks'
        BY <2>4, <3>1 DEF CopyChunk
      <4>2. Chunk(c, NextChunk(c), "queued").node = c
            /\ k \in Chunk(c, NextChunk(c), "queued").keys
        BY <3>1 DEF Chunk
      <4> QED BY <4>1, <4>2 DEF ByCopy
    <3>2. CASE k \notin NextChunk(c)
      <4>1. /\ NextChunk(c) # {} /\ ~LastChunk(NextChunk(c))
            /\ NextCursor(NextChunk(c)) <= k
        BY <1>2, <2>4, <3>2, NextChunkLeavesOut
      <4>2. copy' = copy /\ cursor' = [cursor EXCEPT ![c] = NextCursor(NextChunk(c))]
        BY <2>4, <4>1 DEF CopyChunk
      <4> QED BY <1>2, <2>4, <4>1, <4>2 DEF ByCopy, TypeOK
    <3> QED BY <3>1, <3>2
  <2>5. CASE c = d /\ AbandonCopy(d)
    BY <2>5 DEF AbandonCopy
  <2> QED BY <1>6, <2>1, <2>2, <2>3, <2>4, <2>5 DEF ByCopy, CopyTask, CopyChunk
<1> QED BY <1>3, <1>4, <1>6, PendingParts

LEMMA ChunkKeeps ==
    ASSUME TypeOK, OnTheWay, NoLostLog, NEW ch \in chunks, ChunkTask(ch)
    PROVE  NoLostLog'
<1>1. UNCHANGED <<logs, children, at, key, todo, copy, cursor, torn>>
  BY DEF ChunkTask, HoldChild, DropChunk, InsertNext, loopVars
<1> SUFFICES ASSUME NEW c \in children, NEW k \in logs \cap Matches[c]
             PROVE  k \in view'[c] \/ k \in torn \/ Pending(c, k)'
  BY <1>1 DEF NoLostLog
<1>2. c \in Nodes /\ ch.node \in Nodes
  BY DEF TypeOK
<1>3. view[c] \subseteq view'[c]
  BY <1>2, ViewGrows DEF ChunkTask, HoldChild, DropChunk, InsertNext
<1>4. k \in view[c] \/ k \in torn \/ ByLoop(c, k) \/ ByCopy(c, k)
  BY PendingParts DEF NoLostLog
<1>5. ByLoop(c, k) => ByLoop(c, k)'
  BY <1>1 DEF ByLoop
<1>6. ASSUME ByCopy(c, k) PROVE k \in view'[c] \/ ByCopy(c, k)'
  <2>1. CASE ~\E x \in chunks : x.node = c /\ k \in x.keys
    BY <1>1, <1>6, <2>1 DEF ByCopy
  <2>2. ASSUME NEW x \in chunks, x.node = c, k \in x.keys
        PROVE  k \in view'[c] \/ ByCopy(c, k)'
    <3>1. CASE x \in chunks'
      BY <2>2, <3>1 DEF ByCopy
    <3>2. CASE x = ch /\ HoldChild(ch)
      <4> DEFINE new == Chunk(ch.node, ch.keys, "locked")
      <4>1. new.node = c /\ k \in new.keys /\ new \in chunks'
        BY <2>2, <3>2 DEF HoldChild, Chunk
      <4> QED BY <4>1 DEF ByCopy
    <3>3. CASE x = ch /\ DropChunk(ch)
      BY <2>2, <3>3 DEF DropChunk
    <3>4. CASE x = ch /\ InsertNext(ch)
      <4>1. CASE k = First(ch.keys)
        BY <1>2, <2>2, <3>4, <4>1, ViewGrows DEF InsertNext
      <4>2. CASE k # First(ch.keys)
        <5> DEFINE new == Chunk(ch.node, Rest(ch), "locked")
        <5>1. k \in Rest(ch)
          BY <2>2, <3>4, <4>2 DEF Rest
        <5>2. new.node = c /\ k \in new.keys
          BY <2>2, <3>4, <5>1 DEF Chunk
        <5>3. new \in chunks'
          BY <3>4, <5>1 DEF InsertNext
        <5> QED BY <5>2, <5>3 DEF ByCopy
      <4> QED BY <4>1, <4>2
    <3>5. x = ch \/ x \in chunks'
      BY DEF ChunkTask, HoldChild, DropChunk, InsertNext
    <3> QED BY <3>1, <3>2, <3>3, <3>4, <3>5 DEF ChunkTask
  <2> QED BY <2>1, <2>2
<1> QED BY <1>3, <1>4, <1>5, <1>6, PendingParts

-----------------------------------------------------------------------------
(* The theorems.                                                           *)

LEMMA NextInv == Inv /\ [Next]_vars => Inv'
<1> SUFFICES ASSUME Inv, [Next]_vars PROVE Inv'
  OBVIOUS
<1> USE DEF Inv
<1>1. TypeOK' /\ OnTheWay'
  BY NextTyped
<1>2. ShownIsThere' /\ ListedIsCopied'
  BY NextShown, NextListed
<1>3. NoLostLog'
  <2>1. CASE UNCHANGED vars
    BY <2>1 DEF vars, loopVars, copyVars, NoLostLog, Pending
  <2> QED BY <2>1, LoopStepKeeps, InsertLogKeeps, MembershipKeeps, CopyKeeps, ChunkKeeps
          DEF Next, Dead
<1> QED BY <1>1, <1>2, <1>3

\* The inductive invariant: SimpleNode.cpp as a whole, with any number of threads.
THEOREM InvHolds == Spec => []Inv
BY InitInv, NextInv, PTL DEF Spec

\* The variables keep their types, and the logs of a node are a finite set.
THEOREM TypeCorrect == Spec => []TypeOK
<1>1. Inv => TypeOK
  BY DEF Inv
<1> QED BY <1>1, InvHolds, PTL

\* No log falls between the loops of insert() and the copy of addImpl(), however
\* the threads are interleaved and wherever chunks begin and end.
THEOREM NoLogIsLost == Spec => []NoLostLog
<1>1. Inv => NoLostLog
  BY DEF Inv
<1> QED BY <1>1, InvHolds, PTL

\* When no insertion, no copy and no chunk is under way, a child shows just the
\* logs of the node that its filter takes, those apart whose loop was disturbed.
THEOREM QuietNodeIsComplete == Spec => []CompleteWhenQuiet
<1>1. Inv => CompleteWhenQuiet
  <2> SUFFICES ASSUME Inv, Quiet, NEW c \in children
               PROVE  /\ view[c] \subseteq logs \cap Matches[c]
                      /\ logs \cap Matches[c] \subseteq view[c] \cup torn
    BY DEF CompleteWhenQuiet
  <2>1. c \in Nodes /\ copy[c] = "done"
    BY DEF Inv, TypeOK, ListedIsCopied, Quiet
  <2>2. \A k : ~Pending(c, k)
    BY <2>1 DEF Pending, Quiet
  <2> QED BY <2>1, <2>2 DEF Inv, ShownIsThere, NoLostLog
<1> QED BY <1>1, InvHolds, PTL

\* Every step of the node is a step of FilteredView, or leaves what that speaks
\* of as it is.
LEMMA StepsAllowed ==
    ASSUME Inv, [Next]_vars
    PROVE  [FV!Next]_(FV!vars)
<1> USE DEF FV!vars, FV!Next
<1>1. CASE UNCHANGED vars
  BY <1>1 DEF vars
<1>2. ASSUME NEW t \in Inserters, NEW k \in Keys, InsertLog(t, k)
      PROVE  FV!Receive
  BY <1>2 DEF InsertLog, Inserted, FV!Receive
<1>3. ASSUME NEW t \in Inserters, BeginLoop(t)
      PROVE  UNCHANGED FV!vars
  BY <1>3 DEF BeginLoop
<1>4. ASSUME NEW t \in Inserters, Visit(t)
      PROVE  [\E c \in Nodes : FV!Show(c)]_(FV!vars)
  <2>1. PICK c \in todo[t] : ChildInserts(c, key[t])
    BY <1>4 DEF Visit
  <2>2. c \in Nodes /\ key[t] \in logs
    BY <1>4 DEF Visit, Inv, TypeOK, OnTheWay
  <2> QED BY <1>4, <2>1, <2>2 DEF Visit, ChildInserts, Inserted, FV!Show
<1>5. ASSUME NEW t \in Inserters, PassOver(t)
      PROVE  FV!Excuse
  <2>1. key[t] \in logs
    BY <1>5 DEF PassOver, Inv, OnTheWay
  <2> QED BY <1>5, <2>1 DEF PassOver, FV!Excuse
<1>6. ASSUME NEW t \in Inserters, Crash(t)
      PROVE  FV!Die
  BY <1>6 DEF Crash, FV!Die
<1>7. ASSUME NEW c \in Nodes, ListChild(c)
      PROVE  FV!AddKid
  BY <1>7 DEF ListChild, FV!AddKid
<1>8. ASSUME NEW c \in Nodes, RemoveChild(c)
      PROVE  FV!DropKid
  BY <1>8 DEF RemoveChild, FV!DropKid
<1>9. ASSUME NEW c \in Nodes, EnqueueCopy(c) \/ CopyTask(c)
      PROVE  UNCHANGED FV!vars
  BY <1>9 DEF EnqueueCopy, CopyTask, BeginCopy, CopyChunk, AbandonCopy
<1>10. ASSUME NEW ch \in chunks, HoldChild(ch) \/ DropChunk(ch)
       PROVE  UNCHANGED FV!vars
  BY <1>10 DEF HoldChild, DropChunk
<1>11. ASSUME NEW ch \in chunks, InsertNext(ch)
       PROVE  [\E c \in Nodes : FV!Show(c)]_(FV!vars)
  <2>1. ch.node \in Nodes /\ First(ch.keys) \in logs
    BY FirstOfChunk DEF Inv, TypeOK, OnTheWay
  <2> QED BY <1>11, <2>1 DEF InsertNext, ChildInserts, Inserted, FV!Show
<1> QED BY <1>1, <1>2, <1>3, <1>4, <1>5, <1>6, <1>7, <1>8, <1>9, <1>10, <1>11
        DEF Next, Dead, LoopStep, Membership, ChunkTask

\* The node implements what FilteredView promises, as far as single steps go.
THEOREM NodeImplementsView == Spec => ImplementsFilteredView
<1>1. Init => FV!Init
  BY DEF Init, FV!Init
<1>2. Inv /\ [Next]_vars => [FV!Next]_(FV!vars)
  BY StepsAllowed
<1> QED BY <1>1, <1>2, InvHolds, PTL DEF Spec, ImplementsFilteredView, FV!Safe

=============================================================================
