-------------------------- MODULE LogServerProofs ---------------------------
(***************************************************************************)
(* Nothing that a client sends is lost or doubled on its way to the root   *)
(* node, and the program has enough calls of interrupt() to stop every     *)
(* data pump: for any number of pumps, clients and threads of the pool,    *)
(* whatever the clients send and however long the queue may be.  At the    *)
(* end, the selector: every object of a stream comes out whole.            *)
(***************************************************************************)
EXTENDS LogServer, FiniteSetTheorems, FunctionTheorems, SequenceTheorems, WellFoundedInduction, TLAPS

\* The pumps that have still to get an entry from the queue.
Reading(ps) == {p \in Pumps : ps[p].at = "read"}

\* What a step that does not touch the pumps may do to the queue.
Grows == queue' = queue \/ \E e : queue' = Append(queue, e)

\* The shape of what the argument counts; nothing depends on the batches.
Shape ==
    /\ \E S : queue \in Seq(S)
    /\ \E S : pump \in [Pumps -> [at : {"read", "insert", "end"}, batch : S]]
    /\ main \in [at : {"run", "interrupt", "destroy", "stopped"}, calls : Nat]

\* EnoughWakeUps is inductive with the shape alone.
WakeUps == Shape /\ EnoughWakeUps

-----------------------------------------------------------------------------
(* The invariant of the items: where they are, and how often.              *)

Total(j) == Copies(j) + TimesIn(j, unread)

Consumed(c) == Len(Stream[c]) - Len(unread[c])

Good == Items \ (Broken \cup Refused)

Types ==
    /\ unread \in [Clients -> Seq(Items)] /\ data \in [Clients -> Seq(Items)]
    /\ bulk \in [Clients -> Seq(Items \ Refused)]
    /\ pc \in [Clients -> {"queued", "read", "data", "wait", "enqueue", "push", "end"}]
    /\ sent \in [Clients -> BOOLEAN] /\ due \in [Clients -> Int]
    /\ pool \in Seq(Seq(Items \ Refused)) /\ queue \in Seq(Seq(Good))
    /\ work \in [Workers -> [at : {"idle", "push"}, batch : Seq(Good)]]
    /\ pump \in [Pumps -> [at : {"read", "insert", "end"}, batch : Seq(Good)]]
    /\ acceptor \in {"accept", "end"} /\ {signal, quit, mainQuit} \subseteq BOOLEAN
    /\ main \in [at : {"run", "interrupt", "destroy", "stopped"},
                 calls : 0 .. 2 * Cardinality(Pumps)]
    /\ inserted \in [Items -> Nat] /\ failed \in [Items \cup Clients -> Nat]

\* What is unread or in the buffer of a client is the rest of its stream.
StreamOf(c) ==
    /\ Len(data[c]) + Len(unread[c]) <= Len(Stream[c])
    /\ \A i \in DOMAIN unread[c] : unread[c][i] = Stream[c][Consumed(c) + i]
    /\ \A i \in DOMAIN data[c] : data[c][i] = Stream[c][Consumed(c) - Len(data[c]) + i]
    /\ ToSet(bulk[c]) \subseteq ToSet(Stream[c])

\* The thread of a client at each of its places: the deadline has moved at most
\* once for each time it was read from the client.
ThreadAt(c) ==
    /\ pc[c] \notin {"data", "wait", "enqueue"} => data[c] = <<>>
    /\ pc[c] = "queued" => bulk[c] = <<>>
    /\ pc[c] = "push" => ToSet(bulk[c]) \cap Broken = {}
    /\ quit \/ Len(bulk[c]) <= g_jsonChunkSize
    /\ pc[c] = "read" => Len(bulk[c]) < g_jsonChunkSize
    /\ pc[c] = "data" => quit \/ Len(bulk[c]) < g_jsonChunkSize
    /\ due[c] >= -MaxLag /\ due[c] <= Consumed(c) + 1
    /\ pc[c] \in {"data", "wait", "enqueue"} => due[c] <= Consumed(c)

Threads == \A c \in Clients : StreamOf(c) /\ ThreadAt(c)

Hands ==
    /\ \A p \in Pumps : pump[p].at # "insert" => pump[p].batch = <<>>
    /\ \A j \in Items : inserted[j] = 0 \/ j \in Good \ NonObjects

\* An item is at one place, or at none: then the server quits, or its client broke.
Conserved ==
    /\ \A j \in Items : Total(j) <= 1
    /\ \A c \in Clients : \A j \in ToSet(Stream[c]) : Total(j) = 0 => quit \/ failed[c] > 0

IInv == Types /\ Threads /\ Hands /\ Conserved

-----------------------------------------------------------------------------
(* How often an item is in a batch.                                        *)

At(j, s) == {i \in DOMAIN s : s[i] = j}

LEMMA AtFinite ==
    ASSUME NEW S, NEW s \in Seq(S), NEW j
    PROVE  /\ IsFiniteSet(At(j, s)) /\ At(j, s) \subseteq 1 .. Len(s)
           /\ Times(j, s) = Cardinality(At(j, s)) /\ Times(j, s) \in Nat
           /\ Times(j, s) = 0 <=> j \notin ToSet(s)
<1>1. Len(s) \in Nat /\ DOMAIN s = 1 .. Len(s)
  BY LenProperties
<1>2. IsFiniteSet(At(j, s)) /\ At(j, s) \subseteq 1 .. Len(s)
  <2>1. IsFiniteSet(1 .. Len(s))
    BY <1>1, FS_Interval
  <2>2. At(j, s) \subseteq 1 .. Len(s)
    BY <1>1 DEF At
  <2> QED BY <2>1, <2>2, FS_Subset
<1>3. Times(j, s) = Cardinality(At(j, s))
  BY DEF Times, At
<1>4. At(j, s) = {} <=> j \notin ToSet(s)
  BY DEF At, ToSet
<1>5. Times(j, s) \in Nat /\ (Times(j, s) = 0 <=> At(j, s) = {})
  BY <1>2, <1>3, FS_CardinalityType, FS_EmptySet
<1> QED BY <1>2, <1>3, <1>4, <1>5

LEMMA DisjointCount ==
    ASSUME NEW A, NEW B, IsFiniteSet(A), IsFiniteSet(B), A \cap B = {}
    PROVE  Cardinality(A \cup B) = Cardinality(A) + Cardinality(B) /\ IsFiniteSet(A \cup B)
<1>1. /\ Cardinality(A \cup B) = Cardinality(A) + Cardinality(B) - Cardinality(A \cap B)
      /\ IsFiniteSet(A \cup B)
  BY FS_Union
<1>2. Cardinality(A \cap B) = 0 /\ Cardinality(A) \in Nat /\ Cardinality(B) \in Nat
  BY FS_EmptySet, FS_CardinalityType
<1> QED BY <1>1, <1>2

\* An injective function keeps the number of elements.
LEMMA ImageCount ==
    ASSUME NEW A, NEW B, NEW f \in [A -> B], IsFiniteSet(A),
           \A x, y \in A : f[x] = f[y] => x = y,
           \A y \in B : \E x \in A : f[x] = y
    PROVE  IsFiniteSet(B) /\ Cardinality(B) = Cardinality(A)
<1>1. f \in Bijection(A, B)
  BY DEF Bijection, Injection, Surjection, IsInjective
<1>2. ExistsBijection(A, B)
  BY <1>1 DEF ExistsBijection
<1> QED BY <1>2, FS_Bijection

LEMMA TimesConcat ==
    ASSUME NEW S, NEW s \in Seq(S), NEW t \in Seq(S), NEW j
    PROVE  Times(j, s \o t) = Times(j, s) + Times(j, t)
<1>0. PICK A, B, C : A = At(j, s) /\ B = At(j, t) /\ C = At(j, s \o t)
  OBVIOUS
<1>1. /\ Len(s) \in Nat /\ DOMAIN s = 1 .. Len(s)
      /\ Len(t) \in Nat /\ DOMAIN t = 1 .. Len(t)
      /\ s \o t \in Seq(S) /\ Len(s \o t) = Len(s) + Len(t)
      /\ DOMAIN (s \o t) = 1 .. Len(s) + Len(t)
      /\ \A i \in 1 .. Len(s) : (s \o t)[i] = s[i]
      /\ \A i \in 1 .. Len(t) : (s \o t)[Len(s) + i] = t[i]
  BY ConcatProperties, LenProperties
<1> DEFINE D == {i \in C : i > Len(s)}
           f == [i \in B |-> Len(s) + i]
<1>2. IsFiniteSet(A) /\ IsFiniteSet(B) /\ A \subseteq 1 .. Len(s) /\ B \subseteq 1 .. Len(t)
  BY <1>0, AtFinite
<1>3. D \subseteq Int /\ \A i \in D : i - Len(s) \in B
  <2>1. \A i \in D : i \in 1 .. Len(s) + Len(t) /\ i > Len(s) /\ (s \o t)[i] = j
    BY <1>0, <1>1 DEF At
  <2>2. ASSUME NEW i \in D PROVE i - Len(s) \in B
    <3>1. i - Len(s) \in 1 .. Len(t) /\ Len(s) + (i - Len(s)) = i
      BY <1>1, <2>1
    <3>2. t[i - Len(s)] = j
      BY <1>1, <2>1, <3>1
    <3> QED BY <1>0, <1>1, <3>1, <3>2 DEF At
  <2> QED BY <2>1, <2>2
<1>4. \A i \in B : Len(s) + i \in D
  <2>1. ASSUME NEW i \in B PROVE Len(s) + i \in D
    <3>1. i \in 1 .. Len(t) /\ t[i] = j
      BY <1>0, <1>1 DEF At
    <3>2. Len(s) + i \in 1 .. Len(s) + Len(t) /\ Len(s) + i > Len(s) /\ (s \o t)[Len(s) + i] = j
      BY <1>1, <3>1
    <3> QED BY <1>0, <1>1, <3>2 DEF At
  <2> QED BY <2>1
<1>5. IsFiniteSet(D) /\ Cardinality(D) = Cardinality(B)
  <2>1. f \in [B -> D]
    BY <1>4
  <2>2. \A x, y \in B : f[x] = f[y] => x = y
    BY <1>1, <1>2
  <2>3. ASSUME NEW y \in D PROVE \E x \in B : f[x] = y
    <3>1. y - Len(s) \in B /\ Len(s) + (y - Len(s)) = y
      BY <1>1, <1>3
    <3> QED BY <3>1
  <2> HIDE DEF f, D
  <2> QED BY <1>2, <2>1, <2>2, <2>3, ImageCount
<1>6. C = A \cup D /\ A \cap D = {}
  <2>1. ASSUME NEW i \in C, ~ (i > Len(s)) PROVE i \in A
    <3>1. i \in 1 .. Len(s) + Len(t) /\ (s \o t)[i] = j
      BY <1>0, <1>1 DEF At
    <3>2. i \in 1 .. Len(s)
      BY <1>1, <2>1, <3>1
    <3> QED BY <1>0, <1>1, <3>1, <3>2 DEF At
  <2>2. ASSUME NEW i \in A PROVE i \in C /\ ~ (i > Len(s))
    <3>1. i \in 1 .. Len(s) /\ s[i] = j
      BY <1>0, <1>1 DEF At
    <3>2. i \in 1 .. Len(s) + Len(t) /\ (s \o t)[i] = j
      BY <1>1, <3>1
    <3> QED BY <1>0, <1>1, <3>1, <3>2 DEF At
  <2> QED BY <2>1, <2>2
<1>7. Cardinality(C) = Cardinality(A) + Cardinality(D)
  BY <1>2, <1>5, <1>6, DisjointCount
<1> QED BY <1>0, <1>1, <1>5, <1>7, AtFinite

LEMMA TimesOne ==
    ASSUME NEW S, NEW x \in S, NEW j
    PROVE  Times(j, <<x>>) = (IF x = j THEN 1 ELSE 0) /\ Times(j, <<>>) = 0
<1>1. {i \in DOMAIN <<x>> : <<x>>[i] = j} = IF x = j THEN {1} ELSE {}
  OBVIOUS
<1>2. {i \in DOMAIN <<>> : <<>>[i] = j} = {}
  OBVIOUS
<1> QED BY <1>1, <1>2, FS_EmptySet, FS_Singleton DEF Times

LEMMA TimesAppend ==
    ASSUME NEW S, NEW s \in Seq(S), NEW x \in S, NEW j
    PROVE  Times(j, Append(s, x)) = Times(j, s) + (IF x = j THEN 1 ELSE 0)
<1>1. Append(s, x) = s \o <<x>> /\ <<x>> \in Seq(S)
  BY AppendIsConcat
<1>2. Times(j, s \o <<x>>) = Times(j, s) + Times(j, <<x>>)
  BY <1>1, TimesConcat
<1>3. Times(j, <<x>>) = IF x = j THEN 1 ELSE 0
  BY TimesOne
<1> QED BY <1>1, <1>2, <1>3

LEMMA TimesTail ==
    ASSUME NEW S, NEW s \in Seq(S), s # <<>>, NEW j
    PROVE  Times(j, s) = Times(j, Tail(s)) + (IF Head(s) = j THEN 1 ELSE 0)
<1>1. Head(s) \in S /\ Tail(s) \in Seq(S) /\ <<Head(s)>> \in Seq(S)
  BY HeadTailProperties
<1>2. s = <<Head(s)>> \o Tail(s)
  OBVIOUS
<1>3. Times(j, s) = Times(j, <<Head(s)>>) + Times(j, Tail(s))
  BY <1>1, <1>2, TimesConcat
<1>4. Times(j, <<Head(s)>>) \in Nat /\ Times(j, Tail(s)) \in Nat
  BY <1>1, AtFinite
<1> QED BY <1>1, <1>3, <1>4, TimesOne

LEMMA TimesSplit ==
    ASSUME NEW S, NEW s \in Seq(S), NEW n \in 0 .. Len(s), NEW j
    PROVE  /\ SubSeq(s, 1, n) \in Seq(S) /\ SubSeq(s, n + 1, Len(s)) \in Seq(S)
           /\ Times(j, s) = Times(j, SubSeq(s, 1, n)) + Times(j, SubSeq(s, n + 1, Len(s)))
<1>1. Len(s) \in Nat /\ \A i \in 1 .. Len(s) : s[i] \in S
  BY LenProperties, ElementOfSeq
<1>2. SubSeq(s, 1, n) \in Seq(S) /\ SubSeq(s, n + 1, Len(s)) \in Seq(S)
  BY <1>1, SubSeqProperties
<1>3. SubSeq(s, 1, n) \o SubSeq(s, n + 1, Len(s)) = s
  <2>1. 1 \in 1 .. Len(s) + 1 /\ n \in 1 - 1 .. Len(s) /\ Len(s) \in n .. Len(s)
    BY <1>1
  <2>2. SubSeq(s, 1, n) \o SubSeq(s, n + 1, Len(s)) = SubSeq(s, 1, Len(s))
    BY <2>1, ConcatAdjacentSubSeq
  <2> QED BY <2>2, SubSeqFull
<1>4. Times(j, SubSeq(s, 1, n) \o SubSeq(s, n + 1, Len(s)))
         = Times(j, SubSeq(s, 1, n)) + Times(j, SubSeq(s, n + 1, Len(s)))
  BY <1>2, TimesConcat
<1> QED BY <1>2, <1>3, <1>4

-----------------------------------------------------------------------------
(* How often an item is in a family of batches.                            *)

Spots(j, F) ==
    {x \in UNION {{b} \X DOMAIN F[b] : b \in DOMAIN F} : F[x[1]][x[2]] = j}

LEMMA SpotIn ==
    ASSUME NEW F, NEW j, NEW x
    PROVE  x \in Spots(j, F) <=> \E b \in DOMAIN F : \E i \in At(j, F[b]) : x = <<b, i>>
<1>1. ASSUME NEW b \in DOMAIN F, NEW i \in At(j, F[b]), x = <<b, i>> PROVE x \in Spots(j, F)
  <2>1. x \in {b} \X DOMAIN F[b] /\ F[x[1]][x[2]] = j
    BY <1>1 DEF At
  <2> QED BY <2>1 DEF Spots
<1>2. ASSUME x \in Spots(j, F) PROVE \E b \in DOMAIN F : \E i \in At(j, F[b]) : x = <<b, i>>
  <2>1. PICK b \in DOMAIN F : x \in {b} \X DOMAIN F[b]
    BY <1>2 DEF Spots
  <2>2. F[x[1]][x[2]] = j /\ x[1] = b /\ x[2] \in DOMAIN F[b] /\ x = <<b, x[2]>>
    BY <1>2, <2>1 DEF Spots
  <2> QED BY <2>2 DEF At
<1> QED BY <1>1, <1>2

LEMMA SpotsFinite ==
    ASSUME NEW D, IsFiniteSet(D), NEW S, NEW F \in [D -> Seq(S)], NEW j
    PROVE  /\ IsFiniteSet(Spots(j, F)) /\ TimesIn(j, F) = Cardinality(Spots(j, F))
           /\ TimesIn(j, F) \in Nat
           /\ \A b \in D : Times(j, F[b]) \in Nat /\ Times(j, F[b]) <= TimesIn(j, F)
<1> DEFINE of == [b \in D |-> {b} \X DOMAIN F[b]]
           P  == {{b} \X DOMAIN F[b] : b \in D}
<1>1. DOMAIN F = D /\ \A b \in D : F[b] \in Seq(S)
  OBVIOUS
<1>2. of \in Surjection(D, P)
  BY DEF Surjection
<1>3. IsFiniteSet(P)
  <2> HIDE DEF of, P
  <2> QED BY <1>2, FS_Surjection
<1>4. ASSUME NEW T \in P PROVE IsFiniteSet(T)
  <2>1. PICK b \in D : T = {b} \X DOMAIN F[b]
    OBVIOUS
  <2>2. IsFiniteSet(DOMAIN F[b])
    BY <1>1, FS_Interval, LenProperties
  <2> QED BY <2>1, <2>2, FS_Singleton, FS_Product
<1>5. IsFiniteSet(UNION P)
  BY <1>3, <1>4, FS_UNION
<1>6. IsFiniteSet(Spots(j, F))
  <2>1. Spots(j, F) \subseteq UNION P
    BY <1>1 DEF Spots
  <2> QED BY <1>5, <2>1, FS_Subset
<1>7. TimesIn(j, F) = Cardinality(Spots(j, F)) /\ TimesIn(j, F) \in Nat
  BY <1>6, FS_CardinalityType DEF TimesIn, Spots
<1>8. ASSUME NEW b \in D PROVE Times(j, F[b]) \in Nat /\ Times(j, F[b]) <= TimesIn(j, F)
  <2>1. IsFiniteSet(At(j, F[b])) /\ Times(j, F[b]) = Cardinality(At(j, F[b]))
        /\ Times(j, F[b]) \in Nat
    BY <1>1, AtFinite
  <2> DEFINE B == {x \in Spots(j, F) : x[1] = b}
             f == [i \in At(j, F[b]) |-> <<b, i>>]
  <2>2. f \in [At(j, F[b]) -> B]
    BY <1>1, SpotIn
  <2>3. \A y \in B : \E i \in At(j, F[b]) : f[i] = y
    BY <1>1, SpotIn
  <2>4. \A i, k \in At(j, F[b]) : f[i] = f[k] => i = k
    OBVIOUS
  <2>5. Cardinality(B) = Cardinality(At(j, F[b]))
    <3> HIDE DEF f, B
    <3> QED BY <2>1, <2>2, <2>3, <2>4, ImageCount
  <2>6. Cardinality(B) <= Cardinality(Spots(j, F))
    <3>1. B \in SUBSET Spots(j, F)
      OBVIOUS
    <3> QED BY <1>6, <3>1, FS_Subset
  <2> QED BY <1>7, <2>1, <2>5, <2>6
<1> QED BY <1>6, <1>7, <1>8

\* One batch of the family is replaced.
Elsewhere(j, F, b) == {x \in Spots(j, F) : x[1] # b}

LEMMA RestCount ==
    ASSUME NEW D, IsFiniteSet(D), NEW S, NEW F \in [D -> Seq(S)], NEW b \in D, NEW j
    PROVE  /\ IsFiniteSet(Elsewhere(j, F, b))
           /\ TimesIn(j, F) = Cardinality(Elsewhere(j, F, b)) + Times(j, F[b])
<1> DEFINE A == {x \in Spots(j, F) : x[1] # b}
           B == {x \in Spots(j, F) : x[1] = b}
           f == [i \in At(j, F[b]) |-> <<b, i>>]
<1>1. DOMAIN F = D /\ F[b] \in Seq(S)
  OBVIOUS
<1>2. IsFiniteSet(Spots(j, F)) /\ TimesIn(j, F) = Cardinality(Spots(j, F))
  BY SpotsFinite
<1>3. IsFiniteSet(At(j, F[b])) /\ Times(j, F[b]) = Cardinality(At(j, F[b]))
  BY <1>1, AtFinite
<1>4. IsFiniteSet(A) /\ IsFiniteSet(B)
  BY <1>2, FS_Subset
<1>5. f \in [At(j, F[b]) -> B]
  BY <1>1, SpotIn
<1>6. \A y \in B : \E i \in At(j, F[b]) : f[i] = y
  BY <1>1, SpotIn
<1>7. \A i, k \in At(j, F[b]) : f[i] = f[k] => i = k
  OBVIOUS
<1>8. Cardinality(B) = Cardinality(At(j, F[b]))
  <2> HIDE DEF f, B
  <2> QED BY <1>3, <1>5, <1>6, <1>7, ImageCount
<1>9. Spots(j, F) = A \cup B /\ A \cap B = {}
  OBVIOUS
<1>10. Cardinality(Spots(j, F)) = Cardinality(A) + Cardinality(B)
  BY <1>4, <1>9, DisjointCount
<1> QED BY <1>2, <1>3, <1>4, <1>8, <1>10 DEF Elsewhere

\* Two families of D that differ at b at most.
Replaced(D, S, F, G, b) ==
    /\ F \in [D -> Seq(S)] /\ G \in [D -> Seq(S)] /\ b \in D
    /\ \A d \in D \ {b} : G[d] = F[d]

LEMMA TimesInExcept ==
    ASSUME NEW D, IsFiniteSet(D), NEW S, NEW F, NEW G, NEW b, Replaced(D, S, F, G, b), NEW j
    PROVE  /\ TimesIn(j, G) = TimesIn(j, F) - Times(j, F[b]) + Times(j, G[b])
           /\ TimesIn(j, F) \in Nat /\ TimesIn(j, G) \in Nat
           /\ Times(j, F[b]) \in Nat /\ Times(j, G[b]) \in Nat
           /\ Times(j, F[b]) <= TimesIn(j, F)
<1>0. /\ F \in [D -> Seq(S)] /\ G \in [D -> Seq(S)] /\ b \in D
      /\ \A d \in D \ {b} : G[d] = F[d]
  BY DEF Replaced
<1>1. Elsewhere(j, G, b) = Elsewhere(j, F, b)
  <2>1. \A x : x \in Spots(j, F) <=> \E c \in DOMAIN F : \E i \in At(j, F[c]) : x = <<c, i>>
    BY SpotIn
  <2>2. \A x : x \in Spots(j, G) <=> \E c \in DOMAIN G : \E i \in At(j, G[c]) : x = <<c, i>>
    BY SpotIn
  <2>3. DOMAIN F = D /\ DOMAIN G = D
    BY <1>0
  <2>4. ASSUME NEW x, x[1] # b PROVE x \in Spots(j, F) <=> x \in Spots(j, G)
    BY <1>0, <2>1, <2>2, <2>3, <2>4
  <2> QED BY <2>4 DEF Elsewhere
<1>2. TimesIn(j, F) = Cardinality(Elsewhere(j, F, b)) + Times(j, F[b])
  BY <1>0, RestCount
<1>3. TimesIn(j, G) = Cardinality(Elsewhere(j, G, b)) + Times(j, G[b])
  BY <1>0, RestCount
<1>4. Cardinality(Elsewhere(j, F, b)) \in Nat
  BY <1>0, RestCount, FS_CardinalityType
<1>5. /\ TimesIn(j, F) \in Nat /\ TimesIn(j, G) \in Nat
      /\ Times(j, F[b]) \in Nat /\ Times(j, G[b]) \in Nat
      /\ Times(j, F[b]) <= TimesIn(j, F)
  BY <1>0, SpotsFinite
<1> QED BY <1>1, <1>2, <1>3, <1>4, <1>5

\* Batches in a queue.
LEMMA TimesInConcat ==
    ASSUME NEW S, NEW F \in Seq(Seq(S)), NEW G \in Seq(Seq(S)), NEW j
    PROVE  TimesIn(j, F \o G) = TimesIn(j, F) + TimesIn(j, G)
<1>0. PICK A, B, C : A = Spots(j, F) /\ B = Spots(j, G) /\ C = Spots(j, F \o G)
  OBVIOUS
<1>1. /\ Len(F) \in Nat /\ DOMAIN F = 1 .. Len(F)
      /\ Len(G) \in Nat /\ DOMAIN G = 1 .. Len(G)
      /\ F \o G \in Seq(Seq(S)) /\ Len(F \o G) = Len(F) + Len(G)
      /\ DOMAIN (F \o G) = 1 .. Len(F) + Len(G)
      /\ \A i \in 1 .. Len(F) : (F \o G)[i] = F[i]
      /\ \A i \in 1 .. Len(G) : (F \o G)[Len(F) + i] = G[i]
  BY ConcatProperties, LenProperties
<1>2. IsFiniteSet(A) /\ IsFiniteSet(B) /\ IsFiniteSet(C)
      /\ TimesIn(j, F) = Cardinality(A) /\ TimesIn(j, G) = Cardinality(B)
      /\ TimesIn(j, F \o G) = Cardinality(C)
  <2>1. \A H \in Seq(Seq(S)) : IsFiniteSet(Spots(j, H)) /\ TimesIn(j, H) = Cardinality(Spots(j, H))
    <3> TAKE H \in Seq(Seq(S))
    <3>1. H \in [1 .. Len(H) -> Seq(S)] /\ IsFiniteSet(1 .. Len(H))
      BY LenProperties, FS_Interval
    <3> QED BY <3>1, SpotsFinite
  <2> QED BY <1>0, <1>1, <2>1
<1> DEFINE D == {x \in C : x[1] > Len(F)}
           f == [x \in B |-> <<Len(F) + x[1], x[2]>>]
<1>3. \A x : x \in A <=> \E b \in 1 .. Len(F) : \E i \in At(j, F[b]) : x = <<b, i>>
  BY <1>0, <1>1, SpotIn
<1>4. \A x : x \in B <=> \E b \in 1 .. Len(G) : \E i \in At(j, G[b]) : x = <<b, i>>
  BY <1>0, <1>1, SpotIn
<1>5. \A x : x \in C <=> \E b \in 1 .. Len(F) + Len(G) : \E i \in At(j, (F \o G)[b]) : x = <<b, i>>
  <2>1. PICK H : H = F \o G
    OBVIOUS
  <2>2. \A x : x \in Spots(j, H) <=> \E b \in DOMAIN H : \E i \in At(j, H[b]) : x = <<b, i>>
    BY SpotIn
  <2>3. C = Spots(j, H) /\ DOMAIN H = 1 .. Len(F) + Len(G)
    BY <1>0, <1>1, <2>1
  <2>4. \A x : x \in C <=> \E b \in 1 .. Len(F) + Len(G) : \E i \in At(j, H[b]) : x = <<b, i>>
    BY <2>2, <2>3
  <2> QED BY <2>1, <2>4
<1>6. ASSUME NEW x \in B PROVE <<Len(F) + x[1], x[2]>> \in D
  <2>1. PICK b \in 1 .. Len(G) : \E i \in At(j, G[b]) : x = <<b, i>>
    BY <1>4
  <2>2. PICK i \in At(j, G[b]) : x = <<b, i>>
    BY <2>1
  <2>3. Len(F) + b \in 1 .. Len(F) + Len(G) /\ Len(F) + b > Len(F) /\ (F \o G)[Len(F) + b] = G[b]
    BY <1>1
  <2>4. <<Len(F) + b, i>> \in C
    BY <1>5, <2>3
  <2> QED BY <2>2, <2>3, <2>4
<1>7. ASSUME NEW y \in D PROVE \E x \in B : f[x] = y
  <2>1. PICK b \in 1 .. Len(F) + Len(G) : \E i \in At(j, (F \o G)[b]) : y = <<b, i>>
    BY <1>5
  <2>2. PICK i \in At(j, (F \o G)[b]) : y = <<b, i>>
    BY <2>1
  <2>3. b > Len(F)
    BY <2>2
  <2>4. b - Len(F) \in 1 .. Len(G) /\ Len(F) + (b - Len(F)) = b
    BY <1>1, <2>3
  <2>5. (F \o G)[b] = G[b - Len(F)]
    BY <1>1, <2>4
  <2>6. <<b - Len(F), i>> \in B
    BY <1>4, <2>2, <2>4, <2>5
  <2>7. f[<<b - Len(F), i>>] = y
    BY <2>2, <2>4, <2>6
  <2> QED BY <2>6, <2>7
<1>8. \A x, y \in B : f[x] = f[y] => x = y
  <2> SUFFICES ASSUME NEW x \in B, NEW y \in B, f[x] = f[y] PROVE x = y
    OBVIOUS
  <2>1. PICK b \in 1 .. Len(G) : \E i \in At(j, G[b]) : x = <<b, i>>
    BY <1>4
  <2>2. PICK c \in 1 .. Len(G) : \E k \in At(j, G[c]) : y = <<c, k>>
    BY <1>4
  <2>3. Len(F) + b = Len(F) + c /\ x[2] = y[2]
    BY <2>1, <2>2
  <2>4. b = c
    BY <1>1, <2>3
  <2> QED BY <2>1, <2>2, <2>3, <2>4
<1>9. IsFiniteSet(D) /\ Cardinality(D) = Cardinality(B)
  <2>1. f \in [B -> D]
    BY <1>6
  <2> HIDE DEF f, D
  <2> QED BY <1>2, <1>7, <1>8, <2>1, ImageCount
<1>10. ASSUME NEW x PROVE x \in A <=> x \in C /\ ~ (x[1] > Len(F))
  <2>1. ASSUME x \in A PROVE x \in C /\ ~ (x[1] > Len(F))
    <3>1. PICK b \in 1 .. Len(F) : \E i \in At(j, F[b]) : x = <<b, i>>
      BY <1>3, <2>1
    <3>2. b \in 1 .. Len(F) + Len(G) /\ (F \o G)[b] = F[b] /\ ~ (b > Len(F))
      BY <1>1
    <3> QED BY <1>5, <3>1, <3>2
  <2>2. ASSUME x \in C, ~ (x[1] > Len(F)) PROVE x \in A
    <3>1. PICK b \in 1 .. Len(F) + Len(G) : \E i \in At(j, (F \o G)[b]) : x = <<b, i>>
      BY <1>5, <2>2
    <3>2. x[1] = b
      BY <3>1
    <3>3. b \in 1 .. Len(F) /\ (F \o G)[b] = F[b]
      BY <1>1, <2>2, <3>2
    <3> QED BY <1>3, <3>1, <3>3
  <2> QED BY <2>1, <2>2
<1>11. C = A \cup D /\ A \cap D = {}
  BY <1>10
<1>12. Cardinality(C) = Cardinality(A) + Cardinality(D)
  <2> HIDE DEF D
  <2> QED BY <1>2, <1>9, <1>11, DisjointCount
<1> QED BY <1>2, <1>9, <1>12

\* A family of one batch.
LEMMA TimesInOne ==
    ASSUME NEW S, NEW s \in Seq(S), NEW j
    PROVE  TimesIn(j, <<s>>) = Times(j, s) /\ TimesIn(j, <<>>) = 0
<1>1. TimesIn(j, <<>>) = 0
  <2>1. Spots(j, <<>>) = {}
    BY SpotIn
  <2> QED BY <2>1, FS_EmptySet DEF TimesIn, Spots
<1>2. PICK F : F = <<s>>
  OBVIOUS
<1>3. F \in [{1} -> Seq(S)] /\ F[1] = s
  BY <1>2
<1>4. IsFiniteSet({1})
  BY FS_Singleton
<1>5. TimesIn(j, F) = Cardinality(Elsewhere(j, F, 1)) + Times(j, s)
  BY <1>3, <1>4, RestCount
<1>6. Elsewhere(j, F, 1) = {}
  BY <1>3, SpotIn DEF Elsewhere
<1>7. Times(j, s) \in Nat
  BY AtFinite
<1>8. TimesIn(j, F) = Times(j, s)
  <2>1. Cardinality(Elsewhere(j, F, 1)) = 0
    BY <1>6, FS_EmptySet
  <2>2. TimesIn(j, F) = 0 + Times(j, s)
    BY <1>5, <2>1
  <2> QED BY <1>7, <2>2
<1> QED BY <1>1, <1>2, <1>8

LEMMA TimesInAppend ==
    ASSUME NEW S, NEW F \in Seq(Seq(S)), NEW s \in Seq(S), NEW j
    PROVE  TimesIn(j, Append(F, s)) = TimesIn(j, F) + Times(j, s)
<1>1. Append(F, s) = F \o <<s>> /\ <<s>> \in Seq(Seq(S))
  BY AppendIsConcat
<1>2. TimesIn(j, F \o <<s>>) = TimesIn(j, F) + TimesIn(j, <<s>>)
  BY <1>1, TimesInConcat
<1>3. TimesIn(j, <<s>>) = Times(j, s)
  BY TimesInOne
<1> QED BY <1>1, <1>2, <1>3

LEMMA TimesInTail ==
    ASSUME NEW S, NEW F \in Seq(Seq(S)), F # <<>>, NEW j
    PROVE  TimesIn(j, F) = Times(j, Head(F)) + TimesIn(j, Tail(F))
<1>1. Head(F) \in Seq(S) /\ Tail(F) \in Seq(Seq(S)) /\ <<Head(F)>> \in Seq(Seq(S))
  BY HeadTailProperties
<1>2. F = <<Head(F)>> \o Tail(F)
  OBVIOUS
<1>3. TimesIn(j, <<Head(F)>> \o Tail(F)) = TimesIn(j, <<Head(F)>>) + TimesIn(j, Tail(F))
  BY <1>1, TimesInConcat
<1>4. TimesIn(j, <<Head(F)>>) = Times(j, Head(F))
  BY <1>1, TimesInOne
<1> QED BY <1>2, <1>3, <1>4

-----------------------------------------------------------------------------
(* What parses keeps its number.                                           *)

Rank(S, i) == Cardinality({k \in S : k <= i})

\* The members of a finite set of numbers have the ranks up to its size.
LEMMA RanksReach ==
    ASSUME NEW S \in SUBSET Nat, IsFiniteSet(S)
    PROVE  /\ \A n \in 1 .. Cardinality(S) : Nth(S, n) \in S /\ Rank(S, Nth(S, n)) = n
           /\ \A i \in S : Rank(S, i) \in 1 .. Cardinality(S) /\ Nth(S, Rank(S, i)) = i
<1> DEFINE N == Cardinality(S)
           f == [i \in S |-> Rank(S, i)]
<1>1. N \in Nat /\ IsFiniteSet(1 .. N) /\ Cardinality(1 .. N) = N
  <2>1. N \in Nat
    BY FS_CardinalityType
  <2> HIDE DEF N
  <2> QED BY <2>1, FS_Interval
<1>2. \A i \in S : IsFiniteSet({k \in S : k <= i}) /\ Rank(S, i) \in Nat /\ Rank(S, i) <= N
  <2> TAKE i \in S
  <2>1. {k \in S : k <= i} \in SUBSET S
    OBVIOUS
  <2> QED BY <2>1, FS_Subset, FS_CardinalityType DEF Rank
<1>3. \A i \in S : Rank(S, i) # 0
  <2> TAKE i \in S
  <2>1. i \in {k \in S : k <= i}
    OBVIOUS
  <2> QED BY <1>2, <2>1, FS_EmptySet DEF Rank
<1>4. \A i \in S : Rank(S, i) \in 1 .. N
  <2> TAKE i \in S
  <2>1. N \in Nat /\ Rank(S, i) \in Nat /\ Rank(S, i) <= N /\ Rank(S, i) # 0
    BY <1>1, <1>2, <1>3
  <2> HIDE DEF N
  <2> QED BY <2>1
<1>5. ASSUME NEW i \in S, NEW k \in S, i < k PROVE Rank(S, i) < Rank(S, k)
  <2> DEFINE A == {m \in S : m <= i}
             B == {m \in S : m <= k}
  <2>1. A \in SUBSET B /\ k \in B /\ k \notin A
    <3>1. i \in Nat /\ k \in Nat /\ \A m \in S : m \in Nat
      OBVIOUS
    <3>2. \A m \in S : m <= i => m <= k
      BY <1>5, <3>1
    <3>3. A \in SUBSET B
      BY <3>2
    <3>4. k \in B /\ ~ (k <= i)
      BY <1>5, <3>1
    <3> QED BY <3>3, <3>4
  <2>2. IsFiniteSet(B) /\ Cardinality(A) \in Nat /\ Cardinality(B) \in Nat
    BY <1>2 DEF Rank
  <2>3. Cardinality(A) <= Cardinality(B) /\ Cardinality(A) # Cardinality(B)
    <3> HIDE DEF A, B
    <3> QED BY <2>1, <2>2, FS_Subset
  <2> QED BY <2>2, <2>3 DEF Rank
<1>6. \A i, k \in S : Rank(S, i) = Rank(S, k) => i = k
  <2> SUFFICES ASSUME NEW i \in S, NEW k \in S, i # k PROVE Rank(S, i) # Rank(S, k)
    OBVIOUS
  <2>1. i < k \/ k < i
    OBVIOUS
  <2>2. Rank(S, i) < Rank(S, k) \/ Rank(S, k) < Rank(S, i)
    BY <1>5, <2>1
  <2>3. Rank(S, i) \in Nat /\ Rank(S, k) \in Nat
    BY <1>2
  <2> QED BY <2>2, <2>3
<1>7. f \in Injection(S, 1 .. N)
  <2>1. f \in [S -> 1 .. N]
    BY <1>4
  <2> QED BY <1>6, <2>1 DEF Injection, IsInjective
<1>8. f \in Surjection(S, 1 .. N)
  <2> HIDE DEF f
  <2> QED BY <1>1, <1>7, FS_Injection
<1>9. \A n \in 1 .. N : \E i \in S : Rank(S, i) = n
  BY <1>8 DEF Surjection
<1>10. ASSUME NEW n \in 1 .. N PROVE Nth(S, n) \in S /\ Rank(S, Nth(S, n)) = n
  BY <1>9 DEF Nth, Rank
<1>11. ASSUME NEW i \in S PROVE Rank(S, i) \in 1 .. N /\ Nth(S, Rank(S, i)) = i
  <2>1. Rank(S, i) \in 1 .. N
    BY <1>4
  <2>2. Nth(S, Rank(S, i)) \in S /\ Rank(S, Nth(S, Rank(S, i))) = Rank(S, i)
    BY <1>10, <2>1
  <2> QED BY <1>6, <2>1, <2>2
<1> QED BY <1>10, <1>11

LEMMA ParsedFacts ==
    ASSUME NEW S, NEW s \in Seq(S)
    PROVE  /\ Parsed(s) \in Seq(S \ Broken) /\ Len(Parsed(s)) <= Len(s)
           /\ \A j : Times(j, Parsed(s)) = IF j \in Broken THEN 0 ELSE Times(j, s)
           /\ ToSet(Parsed(s)) \subseteq ToSet(s) \ Broken
<1> DEFINE K == Kept(s)
           N == Cardinality(K)
<1>1. Len(s) \in Nat /\ DOMAIN s = 1 .. Len(s) /\ \A i \in 1 .. Len(s) : s[i] \in S
  BY LenProperties, ElementOfSeq
<1>2. K \in SUBSET (1 .. Len(s)) /\ K \in SUBSET Nat /\ \A i \in K : s[i] \in S \ Broken
  BY <1>1 DEF Kept
<1>3. IsFiniteSet(1 .. Len(s)) /\ Cardinality(1 .. Len(s)) = Len(s)
  <2>1. PICK n \in Nat : n = Len(s)
    BY <1>1
  <2>2. IsFiniteSet(1 .. n) /\ Cardinality(1 .. n) = n
    BY FS_Interval
  <2> QED BY <2>1, <2>2
<1>4. IsFiniteSet(K) /\ N \in Nat /\ N <= Len(s)
  <2> HIDE DEF K
  <2> QED BY <1>2, <1>3, FS_Subset, FS_CardinalityType
<1>5. /\ \A n \in 1 .. N : Nth(K, n) \in K /\ Rank(K, Nth(K, n)) = n
      /\ \A i \in K : Rank(K, i) \in 1 .. N /\ Nth(K, Rank(K, i)) = i
  <2> HIDE DEF K
  <2> QED BY <1>2, <1>4, RanksReach
<1>6. Parsed(s) = [n \in 1 .. N |-> s[Nth(K, n)]]
  BY DEF Parsed
<1> HIDE DEF K, N
<1>7. Parsed(s) \in Seq(S \ Broken) /\ Len(Parsed(s)) = N
  <2>1. \A n \in 1 .. N : s[Nth(K, n)] \in S \ Broken
    BY <1>2, <1>5
  <2>2. Parsed(s) \in [1 .. N -> S \ Broken]
    BY <1>6, <2>1
  <2>3. Parsed(s) \in Seq(S \ Broken)
    BY <1>4, <2>2, SeqDef
  <2>4. Len(Parsed(s)) \in Nat /\ DOMAIN Parsed(s) = 1 .. Len(Parsed(s))
    BY <2>3, LenProperties
  <2> QED BY <1>4, <2>2, <2>3, <2>4
<1>8. ASSUME NEW j, j \in Broken PROVE Times(j, Parsed(s)) = 0
  <2>1. j \notin ToSet(Parsed(s))
    <3>1. \A n \in 1 .. N : Parsed(s)[n] \in S \ Broken
      BY <1>2, <1>5, <1>6
    <3> QED BY <1>6, <1>8, <3>1 DEF ToSet
  <2> QED BY <1>7, <2>1, AtFinite
<1>9. ASSUME NEW j, j \notin Broken PROVE Times(j, Parsed(s)) = Times(j, s)
  <2> DEFINE A == At(j, s)
             B == At(j, Parsed(s))
             f == [i \in A |-> Rank(K, i)]
  <2>1. A \in SUBSET K /\ \A i \in K : i \in A <=> s[i] = j
    BY <1>1, <1>2, <1>9 DEF At, K, Kept
  <2>2. B \in SUBSET (1 .. N) /\ \A n \in 1 .. N : n \in B <=> s[Nth(K, n)] = j
    BY <1>6 DEF At
  <2>3. f \in [A -> B]
    BY <1>5, <2>1, <2>2
  <2>4. \A x, y \in A : f[x] = f[y] => x = y
    BY <1>5, <2>1
  <2>5. ASSUME NEW y \in B PROVE \E x \in A : f[x] = y
    <3>1. Nth(K, y) \in A /\ Rank(K, Nth(K, y)) = y
      BY <1>5, <2>1, <2>2
    <3> QED BY <3>1
  <2>6. IsFiniteSet(A) /\ Times(j, s) = Cardinality(A)
    BY AtFinite
  <2>7. Times(j, Parsed(s)) = Cardinality(B)
    BY <1>7, AtFinite
  <2>8. Cardinality(B) = Cardinality(A)
    <3> HIDE DEF f, A, B
    <3> QED BY <2>3, <2>4, <2>5, <2>6, ImageCount
  <2> QED BY <2>6, <2>7, <2>8
<1>10. ToSet(Parsed(s)) \subseteq ToSet(s) \ Broken
  BY <1>1, <1>2, <1>5, <1>6 DEF ToSet, K, Kept
<1> QED BY <1>4, <1>7, <1>8, <1>9, <1>10

-----------------------------------------------------------------------------
(* The parts of a sum.                                                     *)

WorkBatches == [w \in Workers |-> work[w].batch]
PumpBatches == [p \in Pumps |-> pump[p].batch]

\* A step that keeps every item, or only drops some because the server quits.
Steady ==
    /\ quit => quit'
    /\ \A x \in Items \cup Clients : failed'[x] >= failed[x]
    /\ \A j \in Items : \/ Total(j)' = Total(j)
                        \/ quit /\ Total(j)' <= Total(j) /\ Total(j)' \in Nat

LEMMA SeqInto ==
    ASSUME NEW S, NEW s \in Seq(S), NEW T, ToSet(s) \subseteq T
    PROVE  s \in Seq(T)
<1>1. Len(s) \in Nat /\ DOMAIN s = 1 .. Len(s) /\ s \in [1 .. Len(s) -> S]
  BY LenProperties
<1>2. \A i \in 1 .. Len(s) : s[i] \in T
  BY <1>1 DEF ToSet
<1>3. s \in [1 .. Len(s) -> T]
  BY <1>1, <1>2
<1> QED BY <1>1, <1>3, SeqDef

LEMMA StreamFacts ==
    ASSUME NEW c \in Clients
    PROVE  /\ Stream[c] \in Seq(Items) /\ Len(Stream[c]) \in Nat
           /\ DOMAIN Stream[c] = 1 .. Len(Stream[c])
           /\ ToSet(Stream[c]) \subseteq Items /\ c \notin Items
<1>1. Stream[c] \in Seq(Items) /\ c \notin Items
  BY StreamAssumption
<1>2. ToSet(Stream[c]) \subseteq Items
  BY DEF Items
<1> QED BY <1>1, <1>2, LenProperties

\* What an item is counted by: with its client, on its way, and at its end.
WithClients(j) == TimesIn(j, unread) + TimesIn(j, data) + TimesIn(j, bulk)
WithPool(j)    == TimesIn(j, pool) + TimesIn(j, WorkBatches)
WithPumps(j)   == TimesIn(j, queue) + TimesIn(j, PumpBatches)
AtEnd(j)       == inserted[j] + failed[j]

Parts(j) ==
    /\ TimesIn(j, unread) \in Nat /\ TimesIn(j, data) \in Nat /\ TimesIn(j, bulk) \in Nat
    /\ TimesIn(j, pool) \in Nat /\ TimesIn(j, WorkBatches) \in Nat
    /\ TimesIn(j, queue) \in Nat /\ TimesIn(j, PumpBatches) \in Nat
    /\ WithClients(j) \in Nat /\ WithPool(j) \in Nat /\ WithPumps(j) \in Nat /\ AtEnd(j) \in Nat
    /\ Total(j) = WithClients(j) + WithPool(j) + WithPumps(j) + AtEnd(j)

LEMMA Sums == Types => \A j \in Items : Parts(j)
<1> SUFFICES ASSUME Types, NEW j \in Items PROVE Parts(j)
  OBVIOUS
<1>1. IsFiniteSet(Clients) /\ IsFiniteSet(Workers) /\ IsFiniteSet(Pumps)
  BY ThreadsAssumption
<1>2. TimesIn(j, unread) \in Nat /\ TimesIn(j, data) \in Nat
  BY <1>1, SpotsFinite DEF Types
<1>3. TimesIn(j, bulk) \in Nat
  BY <1>1, SpotsFinite DEF Types
<1>4. WorkBatches \in [Workers -> Seq(Good)] /\ PumpBatches \in [Pumps -> Seq(Good)]
  BY DEF Types, WorkBatches, PumpBatches
<1>5. TimesIn(j, WorkBatches) \in Nat /\ TimesIn(j, PumpBatches) \in Nat
  BY <1>1, <1>4, SpotsFinite
<1>6. ASSUME NEW S, NEW F \in Seq(Seq(S)) PROVE TimesIn(j, F) \in Nat
  <2>1. F \in [1 .. Len(F) -> Seq(S)] /\ IsFiniteSet(1 .. Len(F))
    BY LenProperties, FS_Interval
  <2> QED BY <2>1, SpotsFinite
<1>7. TimesIn(j, pool) \in Nat /\ TimesIn(j, queue) \in Nat
  BY <1>6 DEF Types
<1>8. AtEnd(j) \in Nat
  BY DEF Types, AtEnd
<1>9. WithClients(j) \in Nat /\ WithPool(j) \in Nat /\ WithPumps(j) \in Nat
  BY <1>2, <1>3, <1>5, <1>7 DEF WithClients, WithPool, WithPumps
<1>10. Total(j) = WithClients(j) + WithPool(j) + WithPumps(j) + AtEnd(j)
  <2>1. inserted \in [Items -> Nat] /\ failed \in [Items \cup Clients -> Nat]
    BY DEF Types
  <2> QED BY <1>2, <1>3, <1>5, <1>7, <2>1
          DEF Total, Copies, AtEnd, WithClients, WithPool, WithPumps, WorkBatches, PumpBatches
<1> QED BY <1>2, <1>3, <1>5, <1>7, <1>8, <1>9, <1>10 DEF Parts

LEMMA SumsNext == Types' => \A j \in Items : Parts(j)'
<1>1. (Types => \A j \in Items : Parts(j))'
  BY Sums, PTL
<1> QED BY <1>1

LEMMA ClientFacts ==
    ASSUME Types, Threads, NEW c \in Clients
    PROVE  /\ StreamOf(c) /\ ThreadAt(c) /\ due[c] \in Int
           /\ unread[c] \in Seq(Items) /\ Len(unread[c]) \in Nat
           /\ DOMAIN unread[c] = 1 .. Len(unread[c])
           /\ data[c] \in Seq(Items) /\ Len(data[c]) \in Nat /\ DOMAIN data[c] = 1 .. Len(data[c])
           /\ bulk[c] \in Seq(Items \ Refused) /\ Len(bulk[c]) \in Nat
           /\ Len(Stream[c]) \in Nat /\ Consumed(c) \in Nat
           /\ Consumed(c) + Len(unread[c]) = Len(Stream[c])
           /\ Len(data[c]) <= Consumed(c)
           /\ g_jsonChunkSize \in Nat \ {0} /\ MaxLag \in Nat
<1>1. /\ unread[c] \in Seq(Items) /\ data[c] \in Seq(Items) /\ bulk[c] \in Seq(Items \ Refused)
      /\ due[c] \in Int /\ StreamOf(c) /\ ThreadAt(c)
  BY DEF Types, Threads
<1>2. /\ Len(unread[c]) \in Nat /\ DOMAIN unread[c] = 1 .. Len(unread[c])
      /\ Len(data[c]) \in Nat /\ DOMAIN data[c] = 1 .. Len(data[c]) /\ Len(bulk[c]) \in Nat
  BY <1>1, LenProperties
<1>3. Len(Stream[c]) \in Nat
  BY StreamFacts
<1>4. /\ Consumed(c) \in Nat /\ Consumed(c) + Len(unread[c]) = Len(Stream[c])
      /\ Len(data[c]) <= Consumed(c)
  <2>1. Len(data[c]) + Len(unread[c]) <= Len(Stream[c])
    BY <1>1 DEF StreamOf
  <2>2. /\ data \in [Clients -> Seq(Items)] /\ unread \in [Clients -> Seq(Items)]
        /\ Stream \in [Clients -> Seq(Items)]
    BY StreamAssumption DEF Types
  <2> QED BY <2>1, <2>2 DEF Consumed
<1> QED BY <1>1, <1>2, <1>3, <1>4, LimitsAssumption

\* A step that moves no item.
LEMMA SteadyFrame ==
    ASSUME Types,
           UNCHANGED <<unread, data, bulk, pool, work, queue, pump, inserted, failed>>,
           quit => quit'
    PROVE  Steady
<1>1. \A j \in Items : Total(j)' = Total(j)
  BY DEF Total, Copies
<1>2. \A x \in Items \cup Clients : failed'[x] >= failed[x]
  BY DEF Types
<1> QED BY <1>1, <1>2 DEF Steady

\* The threads of the other clients are where they were.
LEMMA ThreadsFrame ==
    ASSUME Types, Threads, NEW c \in Clients, quit => quit',
           \A d \in Clients \ {c} : /\ unread'[d] = unread[d] /\ data'[d] = data[d]
                                    /\ bulk'[d] = bulk[d] /\ pc'[d] = pc[d] /\ due'[d] = due[d],
           StreamOf(c)', ThreadAt(c)'
    PROVE  Threads'
<1>1. ASSUME NEW d \in Clients \ {c} PROVE StreamOf(d)' /\ ThreadAt(d)'
  <2>1. /\ unread'[d] = unread[d] /\ data'[d] = data[d]
        /\ bulk'[d] = bulk[d] /\ pc'[d] = pc[d] /\ due'[d] = due[d]
    BY <1>1
  <2>2. StreamOf(d) /\ ThreadAt(d)
    BY DEF Threads
  <2>3. Consumed(d)' = Consumed(d)
    BY <2>1 DEF Consumed
  <2>4. StreamOf(d)'
    BY <2>1, <2>2, <2>3 DEF StreamOf
  <2>5. ThreadAt(d)'
    BY <2>1, <2>2, <2>3 DEF ThreadAt
  <2> QED BY <2>4, <2>5
<1> QED BY <1>1 DEF Threads

-----------------------------------------------------------------------------
(* The thread of a client.                                                 *)

LEMMA ReadKeeps ==
    ASSUME IInv, NEW c \in Clients, Read(c)
    PROVE  Types' /\ Threads' /\ Hands' /\ Steady
<1>1. Types /\ Threads /\ pc[c] = "read" /\ data[c] = <<>> /\ Len(data[c]) = 0
  BY DEF IInv, Threads, ThreadAt, Read
<1>2. PICK n \in 1 .. Len(unread[c]) :
         /\ data' = [data EXCEPT ![c] = SubSeq(unread[c], 1, n)]
         /\ unread' = [unread EXCEPT ![c] = SubSeq(@, n + 1, Len(@))]
  BY DEF Read
<1>3. /\ pc' = [pc EXCEPT ![c] = "data"]
      /\ UNCHANGED <<bulk, sent, due, pool, work, queue, pump, inserted, failed,
                     acceptor, signal, quit, mainQuit, main>>
  BY DEF Read, poolVars, pumpVars, stopVars
<1> DEFINE d == SubSeq(unread[c], 1, n)
           u == SubSeq(unread[c], n + 1, Len(unread[c]))
<1>4. /\ d \in Seq(Items) /\ u \in Seq(Items)
      /\ \A j : Times(j, unread[c]) = Times(j, d) + Times(j, u)
  BY <1>1, ClientFacts, TimesSplit
<1>5. /\ Len(d) = n /\ \A i \in 1 .. n : d[i] = unread[c][i]
      /\ Len(u) = Len(unread[c]) - n /\ \A i \in 1 .. Len(unread[c]) - n : u[i] = unread[c][n + i]
      /\ DOMAIN d = 1 .. Len(d) /\ DOMAIN u = 1 .. Len(u)
  <2>1. \A i \in 1 .. Len(unread[c]) : unread[c][i] \in Items
    BY <1>1, ClientFacts, ElementOfSeq
  <2>2. Len(d) = n /\ \A i \in 1 .. n : d[i] = unread[c][i]
    BY <1>1, <2>1, ClientFacts, SubSeqProperties
  <2>3. Len(u) = Len(unread[c]) - n /\ \A i \in 1 .. Len(unread[c]) - n : u[i] = unread[c][n + i]
    BY <1>1, <2>1, ClientFacts, SubSeqProperties
  <2> QED BY <1>4, <2>2, <2>3, LenProperties
<1>6. /\ data' = [data EXCEPT ![c] = d] /\ unread' = [unread EXCEPT ![c] = u]
      /\ data \in [Clients -> Seq(Items)] /\ unread \in [Clients -> Seq(Items)]
  BY <1>1, <1>2 DEF Types
<1> HIDE DEF d, u
<1>7. Types'
  BY <1>1, <1>3, <1>4, <1>6 DEF Types
<1>8. unread'[c] = u /\ data'[c] = d /\ bulk'[c] = bulk[c] /\ pc'[c] = "data" /\ due'[c] = due[c]
  BY <1>1, <1>3, <1>6 DEF Types
<1>9. Consumed(c)' = Consumed(c) + n
  <2>1. Consumed(c)' = Len(Stream[c]) - Len(u) /\ Consumed(c) = Len(Stream[c]) - Len(unread[c])
    BY <1>8 DEF Consumed
  <2> QED BY <1>1, <1>5, <2>1, ClientFacts
<1>10. StreamOf(c)'
  <2>0. StreamOf(c) /\ Consumed(c) \in Nat /\ Len(unread[c]) \in Nat /\ Len(Stream[c]) \in Nat
    BY <1>1, ClientFacts
  <2>1. Len(d) + Len(u) <= Len(Stream[c]) /\ ToSet(bulk'[c]) \subseteq ToSet(Stream[c])
    <3>1. Len(data[c]) + Len(unread[c]) <= Len(Stream[c]) /\ ToSet(bulk[c]) \subseteq ToSet(Stream[c])
      BY <2>0 DEF StreamOf
    <3> QED BY <1>1, <1>5, <1>8, <2>0, <3>1
  <2>2. ASSUME NEW i \in 1 .. Len(u) PROVE u[i] = Stream[c][Consumed(c)' + i]
    <3>1. n + i \in 1 .. Len(unread[c]) /\ i \in 1 .. Len(unread[c]) - n
      BY <1>1, <1>5, ClientFacts
    <3>2. u[i] = Stream[c][Consumed(c) + (n + i)]
      BY <1>1, <1>5, <3>1, ClientFacts DEF StreamOf
    <3>3. Consumed(c) + (n + i) = Consumed(c)' + i
      BY <1>1, <1>9, <3>1, ClientFacts
    <3> QED BY <3>2, <3>3
  <2>3. ASSUME NEW i \in 1 .. n PROVE d[i] = Stream[c][Consumed(c)' - Len(d) + i]
    <3>0. i \in DOMAIN unread[c] /\ d[i] = unread[c][i]
      BY <1>1, <1>5, ClientFacts
    <3>1. d[i] = Stream[c][Consumed(c) + i]
      BY <2>0, <3>0 DEF StreamOf
    <3>2. Consumed(c) + i = Consumed(c)' - Len(d) + i
      BY <1>1, <1>5, <1>9, ClientFacts
    <3> QED BY <3>1, <3>2
  <2> QED BY <1>5, <1>8, <2>1, <2>2, <2>3 DEF StreamOf
<1>11. ThreadAt(c)'
  BY <1>1, <1>3, <1>8, <1>9, ClientFacts DEF ThreadAt
<1>12. Threads'
  BY <1>1, <1>3, <1>6, <1>10, <1>11, ThreadsFrame DEF Types
<1>13. Hands'
  BY <1>3 DEF IInv, Hands
<1>14. Steady
  <2>1. ASSUME NEW j \in Items PROVE Total(j)' = Total(j)
    <3>0. data' \in [Clients -> Seq(Items)] /\ unread' \in [Clients -> Seq(Items)]
      BY <1>7 DEF Types
    <3>1. /\ TimesIn(j, data') = TimesIn(j, data) - Times(j, data[c]) + Times(j, data'[c])
          /\ TimesIn(j, data) \in Nat /\ Times(j, data[c]) \in Nat /\ Times(j, data'[c]) \in Nat
      <4>1. Replaced(Clients, Items, data, data', c)
        BY <1>6, <3>0 DEF Replaced
      <4> QED BY <4>1, ThreadsAssumption, TimesInExcept
    <3>2. /\ TimesIn(j, unread') = TimesIn(j, unread) - Times(j, unread[c]) + Times(j, unread'[c])
          /\ TimesIn(j, unread) \in Nat /\ Times(j, unread[c]) \in Nat /\ Times(j, unread'[c]) \in Nat
      <4>1. Replaced(Clients, Items, unread, unread', c)
        BY <1>6, <3>0 DEF Replaced
      <4> QED BY <4>1, ThreadsAssumption, TimesInExcept
    <3>3. Parts(j) /\ Parts(j)'
      BY <1>1, <1>7, Sums, SumsNext
    <3>4. /\ AtEnd(j)' = AtEnd(j) /\ WithPool(j)' = WithPool(j) /\ WithPumps(j)' = WithPumps(j)
          /\ TimesIn(j, bulk)' = TimesIn(j, bulk)
      BY <1>3 DEF AtEnd, WithPool, WithPumps, WorkBatches, PumpBatches
    <3>5. TimesIn(j, data') + TimesIn(j, unread') = TimesIn(j, data) + TimesIn(j, unread)
      <4>1. Times(j, data[c]) = 0 /\ Times(j, unread[c]) = Times(j, data'[c]) + Times(j, unread'[c])
        BY <1>1, <1>4, <1>8, TimesOne
      <4> QED BY <3>1, <3>2, <4>1
    <3>6. WithClients(j)' = WithClients(j)
      BY <3>3, <3>4, <3>5 DEF Parts, WithClients
    <3> QED BY <3>3, <3>4, <3>6 DEF Parts
  <2>2. \A x \in Items \cup Clients : failed'[x] >= failed[x]
    <3>1. failed' = failed /\ failed \in [Items \cup Clients -> Nat]
      BY <1>1, <1>3 DEF Types
    <3> QED BY <3>1
  <2> QED BY <1>3, <2>1, <2>2 DEF Steady
<1> QED BY <1>7, <1>12, <1>13, <1>14

\* A step of a client's thread that moves no item.
LEMMA ControlFrame ==
    ASSUME IInv, NEW c \in Clients, quit' = quit,
           UNCHANGED <<unread, data, bulk, pool, work, queue, pump, inserted, failed>>,
           \A d \in Clients \ {c} : pc'[d] = pc[d] /\ due'[d] = due[d],
           ThreadAt(c)'
    PROVE  Threads' /\ Hands' /\ Steady
<1>1. Types /\ Threads /\ Hands
  BY DEF IInv
<1>2. StreamOf(c)'
  <2>1. StreamOf(c)
    BY <1>1 DEF Threads
  <2>2. Consumed(c)' = Consumed(c)
    BY DEF Consumed
  <2> QED BY <2>1, <2>2 DEF StreamOf
<1>3. Threads'
  BY <1>1, <1>2, ThreadsFrame
<1>4. Hands'
  BY <1>1 DEF Hands
<1> QED BY <1>1, <1>3, <1>4, SteadyFrame

LEMMA TimeoutKeeps ==
    ASSUME IInv, NEW c \in Clients, Timeout(c)
    PROVE  Types' /\ Threads' /\ Hands' /\ Steady
<1>1. Types /\ Threads
  BY DEF IInv
<1>2. /\ pc[c] = "read"
      /\ pc' = [pc EXCEPT ![c] = IF Ready(c, bulk[c]) THEN "wait" ELSE Loop]
      /\ UNCHANGED <<unread, data, bulk, sent, due, pool, work, queue, pump, inserted, failed,
                     acceptor, signal, quit, mainQuit, main>>
  BY DEF Timeout, poolVars, pumpVars, stopVars
<1>3. Loop \in {"read", "end"}
  BY DEF Loop
<1>4. Types'
  BY <1>1, <1>2, <1>3 DEF Types
<1>5. ThreadAt(c)'
  <2>1. pc \in [Clients -> {"queued", "read", "data", "wait", "enqueue", "push", "end"}]
        /\ bulk \in [Clients -> Seq(Items \ Refused)] /\ due \in [Clients -> Int]
    BY <1>1 DEF Types
  <2>2. ThreadAt(c) /\ Consumed(c) \in Nat /\ g_jsonChunkSize \in Nat \ {0}
    BY <1>1, ClientFacts
  <2>3. Consumed(c)' = Consumed(c)
    BY <1>2 DEF Consumed
  <2>4. data[c] = <<>> /\ Len(bulk[c]) < g_jsonChunkSize /\ due[c] >= -MaxLag /\ due[c] <= Consumed(c) + 1
        /\ (quit \/ Len(bulk[c]) <= g_jsonChunkSize)
    BY <1>2, <2>2 DEF ThreadAt
  <2>5. Ready(c, bulk[c]) => due[c] <= 0
    BY <2>1, <2>2, <2>4 DEF Ready
  <2>6. /\ pc'[c] \in {"wait", "read", "end"} /\ (pc'[c] = "wait" => due[c] <= 0)
    BY <1>2, <1>3, <2>1, <2>5
  <2>7. due[c] <= 0 => due[c] <= Consumed(c)
    BY <2>1, <2>2
  <2> QED BY <1>2, <2>3, <2>4, <2>6, <2>7 DEF ThreadAt
<1>6. \A d \in Clients \ {c} : pc'[d] = pc[d] /\ due'[d] = due[d]
  BY <1>1, <1>2 DEF Types
<1> QED BY <1>2, <1>4, <1>5, <1>6, ControlFrame

LEMMA EndOfDataKeeps ==
    ASSUME IInv, NEW c \in Clients, EndOfData(c)
    PROVE  Types' /\ Threads' /\ Hands' /\ Steady
<1>1. Types /\ Threads
  BY DEF IInv
<1>2. /\ pc[c] = "data" /\ data[c] = <<>>
      /\ due' = [due EXCEPT ![c] = IF sent[c] THEN @ + 1 ELSE @]
      /\ sent' = [sent EXCEPT ![c] = FALSE]
      /\ pc' = [pc EXCEPT ![c] = Loop]
      /\ UNCHANGED <<unread, data, bulk, pool, work, queue, pump, inserted, failed,
                     acceptor, signal, quit, mainQuit, main>>
  BY DEF EndOfData, poolVars, pumpVars, stopVars
<1>3. Loop \in {"read", "end"} /\ (quit => Loop = "end")
  BY DEF Loop
<1>4. pc \in [Clients -> {"queued", "read", "data", "wait", "enqueue", "push", "end"}]
      /\ bulk \in [Clients -> Seq(Items \ Refused)] /\ due \in [Clients -> Int]
      /\ quit \in BOOLEAN
  BY <1>1 DEF Types
<1>5. Types'
  <2>1. due' \in [Clients -> Int]
    BY <1>2, <1>4
  <2> QED BY <1>1, <1>2, <1>3, <2>1 DEF Types
<1>6. ThreadAt(c)'
  <2>2. ThreadAt(c) /\ Consumed(c) \in Nat /\ g_jsonChunkSize \in Nat \ {0} /\ MaxLag \in Nat
    BY <1>1, ClientFacts
  <2>3. Consumed(c)' = Consumed(c)
    BY <1>2 DEF Consumed
  <2>4. due[c] >= -MaxLag /\ due[c] <= Consumed(c) /\ (quit \/ Len(bulk[c]) < g_jsonChunkSize)
    BY <1>2, <2>2 DEF ThreadAt
  <2>5. due'[c] >= -MaxLag /\ due'[c] <= Consumed(c) + 1
    BY <1>2, <1>4, <2>2, <2>4
  <2>6. pc'[c] = Loop
    BY <1>2, <1>4
  <2>7. quit \/ Len(bulk[c]) <= g_jsonChunkSize
    BY <1>4, <2>2, <2>4
  <2> QED BY <1>2, <1>3, <2>3, <2>4, <2>5, <2>6, <2>7 DEF ThreadAt
<1>7. \A d \in Clients \ {c} : pc'[d] = pc[d] /\ due'[d] = due[d]
  BY <1>2, <1>4
<1> QED BY <1>2, <1>5, <1>6, <1>7, ControlFrame

LEMMA WaitForRoomKeeps ==
    ASSUME IInv, NEW c \in Clients, WaitForRoom(c)
    PROVE  Types' /\ Threads' /\ Hands' /\ Steady
<1>1. Types /\ Threads
  BY DEF IInv
<1>2. /\ pc[c] = "wait"
      /\ \/ pc' = [pc EXCEPT ![c] = "enqueue"]
         \/ quit /\ pc' = [pc EXCEPT ![c] = "data"]
      /\ UNCHANGED <<unread, data, bulk, sent, due, pool, work, queue, pump, inserted, failed,
                     acceptor, signal, quit, mainQuit, main>>
  BY DEF WaitForRoom, poolVars, pumpVars, stopVars
<1>3. Types'
  BY <1>1, <1>2 DEF Types
<1>4. ThreadAt(c)'
  <2>1. ThreadAt(c) /\ Consumed(c)' = Consumed(c)
    BY <1>1, <1>2 DEF Threads, Consumed
  <2>2. pc'[c] = "enqueue" \/ (quit /\ pc'[c] = "data")
    BY <1>1, <1>2 DEF Types
  <2> QED BY <1>2, <2>1, <2>2 DEF ThreadAt
<1>5. \A d \in Clients \ {c} : pc'[d] = pc[d] /\ due'[d] = due[d]
  BY <1>1, <1>2 DEF Types
<1> QED BY <1>2, <1>3, <1>4, <1>5, ControlFrame

LEMMA AcceptKeeps ==
    ASSUME IInv, NEW c \in Clients, Accept(c)
    PROVE  Types' /\ Threads' /\ Hands' /\ Steady
<1>1. Types /\ Threads
  BY DEF IInv
<1>2. /\ pc[c] = "queued" /\ pc' = [pc EXCEPT ![c] = Loop] /\ due' = [due EXCEPT ![c] = 1]
      /\ UNCHANGED <<unread, data, bulk, sent, pool, work, queue, pump, inserted, failed,
                     signal, quit, mainQuit, main>>
      /\ acceptor' \in {"accept", "end"}
  BY DEF Accept, AcceptLoop, poolVars, pumpVars
<1>3. Loop \in {"read", "end"}
  BY DEF Loop
<1>4. Types'
  <2>1. due' \in [Clients -> Int]
    BY <1>1, <1>2 DEF Types
  <2>2. pc' \in [Clients -> {"queued", "read", "data", "wait", "enqueue", "push", "end"}]
    BY <1>1, <1>2, <1>3 DEF Types
  <2> QED BY <1>1, <1>2, <2>1, <2>2 DEF Types
<1>5. ThreadAt(c)'
  <2>1. ThreadAt(c) /\ Consumed(c) \in Nat /\ g_jsonChunkSize \in Nat \ {0} /\ MaxLag \in Nat
    BY <1>1, ClientFacts
  <2>2. Consumed(c)' = Consumed(c)
    BY <1>2 DEF Consumed
  <2>3. data[c] = <<>> /\ bulk[c] = <<>>
    BY <1>2, <2>1 DEF ThreadAt
  <2>4. pc'[c] \in {"read", "end"} /\ due'[c] = 1
    BY <1>1, <1>2, <1>3 DEF Types
  <2>5. Len(bulk[c]) < g_jsonChunkSize /\ Len(bulk[c]) <= g_jsonChunkSize
    BY <2>1, <2>3
  <2>6. 1 >= -MaxLag /\ 1 <= Consumed(c) + 1
    BY <2>1
  <2> QED BY <1>2, <2>2, <2>3, <2>4, <2>5, <2>6 DEF ThreadAt
<1>6. \A d \in Clients \ {c} : pc'[d] = pc[d] /\ due'[d] = due[d]
  BY <1>1, <1>2 DEF Types
<1> QED BY <1>2, <1>4, <1>5, <1>6, ControlFrame

LEMMA TickKeeps ==
    ASSUME IInv, Tick
    PROVE  Types' /\ Threads' /\ Hands' /\ Steady
<1>1. Types /\ Threads /\ Hands
  BY DEF IInv
<1>2. /\ due' = [c \in Clients |-> IF due[c] > -MaxLag THEN due[c] - 1 ELSE due[c]]
      /\ UNCHANGED <<unread, pc, data, bulk, sent, pool, work, queue, pump, inserted, failed,
                     acceptor, signal, quit, mainQuit, main>>
  BY DEF Tick, poolVars, pumpVars, stopVars
<1>3. Types'
  <2>1. due' \in [Clients -> Int]
    BY <1>1, <1>2 DEF Types
  <2> QED BY <1>1, <1>2, <2>1 DEF Types
<1>4. ASSUME NEW c \in Clients PROVE StreamOf(c)' /\ ThreadAt(c)'
  <2>1. StreamOf(c) /\ ThreadAt(c) /\ Consumed(c) \in Nat /\ MaxLag \in Nat
    BY <1>1, ClientFacts
  <2>2. Consumed(c)' = Consumed(c)
    BY <1>2 DEF Consumed
  <2>3. StreamOf(c)'
    BY <1>2, <2>1, <2>2 DEF StreamOf
  <2>4. due \in [Clients -> Int] /\ due'[c] = IF due[c] > -MaxLag THEN due[c] - 1 ELSE due[c]
    BY <1>1, <1>2 DEF Types
  <2>5. due[c] >= -MaxLag /\ due[c] <= Consumed(c) + 1
    BY <2>1 DEF ThreadAt
  <2>6. due'[c] >= -MaxLag /\ due'[c] <= Consumed(c) + 1 /\ (due[c] <= Consumed(c) => due'[c] <= Consumed(c))
    BY <2>1, <2>4, <2>5
  <2>7. ThreadAt(c)'
    BY <1>2, <2>1, <2>2, <2>6 DEF ThreadAt
  <2> QED BY <2>3, <2>7
<1>5. Hands'
  BY <1>1, <1>2 DEF Hands
<1> QED BY <1>1, <1>2, <1>3, <1>4, <1>5, SteadyFrame DEF Threads

\* A step of the program that is no client's.
LEMMA ServerFrame ==
    ASSUME IInv, quit => quit',
           UNCHANGED <<unread, pc, data, bulk, due>>
    PROVE  Threads'
<1>1. ASSUME NEW c \in Clients PROVE StreamOf(c)' /\ ThreadAt(c)'
  <2>1. StreamOf(c) /\ ThreadAt(c)
    BY DEF IInv, Threads
  <2>2. Consumed(c)' = Consumed(c)
    BY DEF Consumed
  <2> QED BY <2>1, <2>2 DEF StreamOf, ThreadAt
<1> QED BY <1>1 DEF Threads

LEMMA SelectKeeps ==
    ASSUME IInv, NEW c \in Clients, Select(c)
    PROVE  Types' /\ Threads' /\ Hands' /\ Steady
<1>1. Types /\ Threads /\ Hands
  BY DEF IInv
<1>2. /\ pc[c] = "data" /\ data[c] # <<>>
      /\ data' = [data EXCEPT ![c] = Tail(data[c])]
      /\ UNCHANGED <<unread, sent, due, pool, work, queue, pump, inserted,
                     acceptor, signal, quit, mainQuit, main>>
  BY DEF Select, poolVars, pumpVars, stopVars
<1>3. \/ /\ Head(data[c]) \in Refused /\ failed' = Count(failed, {Head(data[c])})
         /\ UNCHANGED <<bulk, pc>>
      \/ /\ Head(data[c]) \notin Refused /\ failed' = failed
         /\ bulk' = [bulk EXCEPT ![c] = Append(bulk[c], Head(data[c]))]
         /\ pc' = [pc EXCEPT ![c] = IF Ready(c, bulk'[c]) THEN "wait" ELSE "data"]
  BY DEF Select
<1>4. PICK x, t, b : x = Head(data[c]) /\ t = Tail(data[c]) /\ b = bulk[c]
  OBVIOUS
<1>5. /\ x \in Items /\ t \in Seq(Items) /\ b \in Seq(Items \ Refused)
      /\ Len(data[c]) \in Nat /\ Len(t) = Len(data[c]) - 1 /\ DOMAIN t = 1 .. Len(t)
      /\ data[c] # <<>> /\ Len(data[c]) >= 1 /\ x = data[c][1] /\ DOMAIN data[c] = 1 .. Len(data[c])
      /\ \A i \in 1 .. Len(t) : t[i] = data[c][i + 1]
      /\ \A j : Times(j, data[c]) = Times(j, t) + (IF x = j THEN 1 ELSE 0)
  <2>1. PICK d : d = data[c]
    OBVIOUS
  <2>2. d \in Seq(Items) /\ d # <<>> /\ x = Head(d) /\ t = Tail(d) /\ b \in Seq(Items \ Refused)
    BY <1>1, <1>2, <1>4, <2>1 DEF Types
  <2>3. /\ x \in Items /\ t \in Seq(Items) /\ Len(t) = Len(d) - 1
        /\ \A i \in 1 .. Len(t) : t[i] = d[i + 1]
    BY <2>2, HeadTailProperties
  <2>4. Len(d) \in Nat /\ Len(d) >= 1 /\ x = d[1] /\ DOMAIN d = 1 .. Len(d) /\ DOMAIN t = 1 .. Len(t)
    BY <2>2, <2>3, LenProperties, EmptySeq
  <2>5. \A j : Times(j, d) = Times(j, t) + (IF x = j THEN 1 ELSE 0)
    BY <2>2, TimesTail
  <2> QED BY <2>1, <2>2, <2>3, <2>4, <2>5
<1>6. /\ data \in [Clients -> Seq(Items)] /\ bulk \in [Clients -> Seq(Items \ Refused)]
      /\ pc \in [Clients -> {"queued", "read", "data", "wait", "enqueue", "push", "end"}]
      /\ failed \in [Items \cup Clients -> Nat] /\ due \in [Clients -> Int]
      /\ unread \in [Clients -> Seq(Items)] /\ Stream \in [Clients -> Seq(Items)]
  BY <1>1, StreamAssumption DEF Types
<1>7. /\ data' \in [Clients -> Seq(Items)] /\ data'[c] = t
      /\ \A d \in Clients \ {c} : data'[d] = data[d]
  BY <1>2, <1>4, <1>5, <1>6
<1>8. /\ bulk' \in [Clients -> Seq(Items \ Refused)]
      /\ \A d \in Clients \ {c} : bulk'[d] = bulk[d] /\ pc'[d] = pc[d]
      /\ failed' \in [Items \cup Clients -> Nat]
      /\ \A y \in Items \cup Clients : failed'[y] >= failed[y]
      /\ ToSet(bulk'[c]) \subseteq ToSet(b) \cup {x}
      /\ \A j \in Items : Times(j, bulk'[c]) + failed'[j] = Times(j, b) + failed[j] + (IF x = j THEN 1 ELSE 0)
      /\ \/ bulk'[c] = b /\ pc'[c] = "data"
         \/ /\ Len(bulk'[c]) = Len(b) + 1
            /\ pc'[c] = IF Ready(c, bulk'[c]) THEN "wait" ELSE "data"
  <2>1. CASE x \in Refused
    <3>1. failed' = Count(failed, {x}) /\ UNCHANGED <<bulk, pc>>
      BY <1>3, <1>4, <2>1
    <3>2. /\ failed' \in [Items \cup Clients -> Nat]
          /\ \A y \in Items \cup Clients :
               failed'[y] = failed[y] + (IF y \in {x} THEN 1 ELSE 0) /\ failed'[y] >= failed[y]
      BY <1>6, <3>1 DEF Count
    <3>3. \A j \in Items : Times(j, b) \in Nat
      BY <1>5, AtFinite
    <3>4. ASSUME NEW j \in Items
          PROVE  Times(j, b) + failed'[j] = Times(j, b) + failed[j] + (IF x = j THEN 1 ELSE 0)
      <4>1. failed'[j] = failed[j] + (IF x = j THEN 1 ELSE 0)
        BY <3>2
      <4> QED BY <1>6, <3>2, <3>3, <4>1
    <3> QED BY <1>2, <1>4, <1>6, <3>1, <3>2, <3>4
  <2>2. CASE x \notin Refused
    <3>1. /\ failed' = failed /\ bulk' = [bulk EXCEPT ![c] = Append(b, x)]
          /\ pc' = [pc EXCEPT ![c] = IF Ready(c, bulk'[c]) THEN "wait" ELSE "data"]
      BY <1>3, <1>4, <2>2
    <3>2. PICK a : a = Append(b, x)
      OBVIOUS
    <3>3. a \in Seq(Items \ Refused) /\ Len(a) = Len(b) + 1
      BY <1>5, <2>2, <3>2, AppendProperties
    <3>4. \A j : Times(j, a) = Times(j, b) + (IF x = j THEN 1 ELSE 0)
      BY <1>5, <2>2, <3>2, TimesAppend
    <3>5. ToSet(a) \subseteq ToSet(b) \cup {x}
      <4>1. \A y : y \in ToSet(a) => Times(y, a) # 0
        BY <3>3, AtFinite
      <4>2. \A y : Times(y, b) # 0 => y \in ToSet(b)
        BY <1>5, AtFinite
      <4>3. \A y : Times(y, b) \in Nat
        BY <1>5, AtFinite
      <4> QED BY <3>4, <4>1, <4>2, <4>3
    <3>6. bulk' = [bulk EXCEPT ![c] = a]
      BY <3>1, <3>2
    <3>7. /\ bulk' \in [Clients -> Seq(Items \ Refused)] /\ bulk'[c] = a
          /\ \A d \in Clients \ {c} : bulk'[d] = bulk[d] /\ pc'[d] = pc[d]
          /\ pc'[c] = IF Ready(c, bulk'[c]) THEN "wait" ELSE "data"
      BY <1>6, <3>1, <3>3, <3>6
    <3>8. \A j \in Items : Times(j, b) \in Nat
      BY <1>5, AtFinite
    <3>9. ASSUME NEW j \in Items
          PROVE  Times(j, bulk'[c]) + failed'[j] = Times(j, b) + failed[j] + (IF x = j THEN 1 ELSE 0)
      <4>1. failed'[j] = failed[j] /\ Times(j, bulk'[c]) = Times(j, b) + (IF x = j THEN 1 ELSE 0)
        BY <3>1, <3>4, <3>7
      <4> QED BY <1>6, <3>8, <4>1
    <3>10. \A y \in Items \cup Clients : failed'[y] >= failed[y]
      BY <1>6, <3>1
    <3> QED BY <1>6, <3>1, <3>3, <3>5, <3>7, <3>9, <3>10
  <2> QED BY <2>1, <2>2
<1>9. pc' \in [Clients -> {"queued", "read", "data", "wait", "enqueue", "push", "end"}]
  <2>1. pc' = pc \/ \E q \in {"wait", "data"} : pc' = [pc EXCEPT ![c] = q]
    BY <1>3
  <2> QED BY <1>6, <2>1
<1>10. Types'
  BY <1>1, <1>2, <1>7, <1>8, <1>9 DEF Types
<1>11. /\ StreamOf(c) /\ ThreadAt(c) /\ Consumed(c) \in Nat /\ Consumed(c)' = Consumed(c)
       /\ Consumed(c) + Len(unread[c]) = Len(Stream[c]) /\ Len(data[c]) <= Consumed(c)
       /\ g_jsonChunkSize \in Nat \ {0} /\ Len(b) \in Nat /\ Len(unread[c]) \in Nat
       /\ Len(Stream[c]) \in Nat
  BY <1>1, <1>2, <1>4, ClientFacts DEF Consumed
<1>12. StreamOf(c)'
  <2>1. Len(t) + Len(unread[c]) <= Len(Stream[c])
    BY <1>5, <1>6, <1>11
  <2>2. ASSUME NEW i \in 1 .. Len(t) PROVE t[i] = Stream[c][Consumed(c) - Len(t) + i]
    <3>1. i + 1 \in DOMAIN data[c] /\ t[i] = data[c][i + 1]
      BY <1>5
    <3>2. t[i] = Stream[c][Consumed(c) - Len(data[c]) + (i + 1)]
      BY <1>11, <3>1 DEF StreamOf
    <3>3. PICK k \in Nat : k = Len(data[c]) /\ Len(t) = k - 1
      BY <1>5
    <3>4. Consumed(c) - k + (i + 1) = Consumed(c) - Len(t) + i
      BY <1>11, <3>3
    <3> QED BY <3>2, <3>3, <3>4
  <2>3. x \in ToSet(Stream[c])
    <3>1. 1 \in DOMAIN data[c]
      BY <1>5
    <3>2. x = Stream[c][Consumed(c) - Len(data[c]) + 1]
      BY <1>5, <1>11, <3>1 DEF StreamOf
    <3>3. PICK k, m \in Nat : k = Len(data[c]) /\ m = Len(Stream[c]) /\ 1 <= k /\ k <= Consumed(c)
      BY <1>5, <1>11
    <3>4. Consumed(c) <= m
      <4>1. PICK l \in Nat : l = Len(unread[c])
        BY <1>11
      <4> QED BY <1>11, <3>3, <4>1
    <3>5. Consumed(c) - k + 1 \in 1 .. m
      BY <1>11, <3>3, <3>4
    <3> QED BY <3>2, <3>3, <3>5, StreamFacts DEF ToSet
  <2>4. ToSet(bulk'[c]) \subseteq ToSet(Stream[c])
    BY <1>4, <1>8, <1>11, <2>3 DEF StreamOf
  <2>5. \A i \in DOMAIN unread[c] : unread[c][i] = Stream[c][Consumed(c) + i]
    BY <1>11 DEF StreamOf
  <2> QED BY <1>2, <1>5, <1>7, <1>11, <2>1, <2>2, <2>4, <2>5 DEF StreamOf
<1>13. ThreadAt(c)'
  <2>1. /\ due[c] >= -MaxLag /\ due[c] <= Consumed(c) + 1 /\ due[c] <= Consumed(c)
        /\ (quit \/ Len(b) < g_jsonChunkSize) /\ (quit \/ Len(b) <= g_jsonChunkSize)
    BY <1>2, <1>4, <1>11 DEF ThreadAt
  <2>2. /\ pc'[c] \in {"data", "wait"} /\ (quit \/ Len(bulk'[c]) <= g_jsonChunkSize)
        /\ pc'[c] = "data" => quit \/ Len(bulk'[c]) < g_jsonChunkSize
    <3>0. PICK a, q : a = bulk'[c] /\ q = pc'[c]
      OBVIOUS
    <3>1. CASE a = b /\ q = "data"
      <4>1. /\ q \in {"data", "wait"} /\ (quit \/ Len(a) <= g_jsonChunkSize)
            /\ q = "data" => quit \/ Len(a) < g_jsonChunkSize
        BY <2>1, <3>1
      <4> QED BY <3>0, <4>1
    <3>2. CASE Len(a) = Len(b) + 1 /\ q = IF Ready(c, a) THEN "wait" ELSE "data"
      <4>1. quit \/ Len(a) <= g_jsonChunkSize
        BY <1>11, <2>1, <3>2
      <4>2. q = "data" => ~ Ready(c, a)
        BY <3>2
      <4>3. q = "data" => Len(a) < g_jsonChunkSize
        BY <1>11, <3>2, <4>2 DEF Ready
      <4> QED BY <3>0, <3>2, <4>1, <4>3
    <3> QED BY <1>8, <3>0, <3>1, <3>2
  <2> QED BY <1>2, <1>11, <2>1, <2>2 DEF ThreadAt
<1>14. Threads'
  BY <1>1, <1>2, <1>7, <1>8, <1>12, <1>13, ThreadsFrame
<1>15. Hands'
  BY <1>1, <1>2 DEF Hands
<1>16. ASSUME NEW j \in Items PROVE Total(j)' = Total(j)
  <2>1. /\ TimesIn(j, data') = TimesIn(j, data) - Times(j, data[c]) + Times(j, t)
        /\ Times(j, data[c]) \in Nat /\ Times(j, t) \in Nat
    <3>1. Replaced(Clients, Items, data, data', c)
      BY <1>6, <1>7 DEF Replaced
    <3> QED BY <1>7, <3>1, ThreadsAssumption, TimesInExcept
  <2>2. /\ TimesIn(j, bulk') = TimesIn(j, bulk) - Times(j, b) + Times(j, bulk'[c])
        /\ Times(j, b) \in Nat /\ Times(j, bulk'[c]) \in Nat
    <3>1. Replaced(Clients, Items \ Refused, bulk, bulk', c)
      BY <1>6, <1>8 DEF Replaced
    <3> QED BY <1>4, <3>1, ThreadsAssumption, TimesInExcept
  <2>3. Parts(j) /\ Parts(j)'
    BY <1>1, <1>10, Sums, SumsNext
  <2>4. WithPool(j)' = WithPool(j) /\ WithPumps(j)' = WithPumps(j) /\ TimesIn(j, unread)' = TimesIn(j, unread)
    BY <1>2 DEF WithPool, WithPumps, WorkBatches, PumpBatches
  <2>5. PICK f, g, h \in Nat : f = failed[j] /\ g = failed'[j] /\ h = inserted[j]
    BY <1>1, <1>6, <1>8 DEF Types
  <2>6. AtEnd(j) = h + f /\ AtEnd(j)' = h + g
    BY <1>2, <2>5 DEF AtEnd
  <2>7. Times(j, bulk'[c]) + g = Times(j, b) + f + (IF x = j THEN 1 ELSE 0)
    BY <1>8, <2>5
  <2>8. Times(j, data[c]) = Times(j, t) + (IF x = j THEN 1 ELSE 0)
    BY <1>5
  <2>9. WithClients(j)' + g = WithClients(j) + f
    BY <2>1, <2>2, <2>3, <2>4, <2>5, <2>7, <2>8 DEF WithClients, Parts
  <2> QED BY <2>3, <2>4, <2>5, <2>6, <2>9 DEF Parts
<1> QED BY <1>2, <1>8, <1>10, <1>14, <1>15, <1>16 DEF Steady

\* The bulk of a client becomes another, of some of its items.
LEMMA BulkStep ==
    ASSUME IInv, NEW c \in Clients, Replaced(Clients, Items \ Refused, bulk, bulk', c),
           ToSet(bulk'[c]) \subseteq ToSet(bulk[c]),
           UNCHANGED <<unread, data, due>>, quit' = quit,
           \A d \in Clients \ {c} : pc'[d] = pc[d],
           ThreadAt(c)'
    PROVE  /\ Threads'
           /\ \A j : /\ TimesIn(j, bulk') = TimesIn(j, bulk) - Times(j, bulk[c]) + Times(j, bulk'[c])
                     /\ Times(j, bulk[c]) \in Nat /\ Times(j, bulk'[c]) \in Nat
                     /\ Times(j, bulk[c]) <= TimesIn(j, bulk)
<1>1. Types /\ Threads
  BY DEF IInv
<1>2. \A d \in Clients \ {c} : bulk'[d] = bulk[d]
  BY DEF Replaced
<1>3. StreamOf(c)'
  <2>1. StreamOf(c) /\ Consumed(c)' = Consumed(c)
    BY <1>1 DEF Threads, Consumed
  <2> QED BY <2>1 DEF StreamOf
<1>4. Threads'
  BY <1>1, <1>2, <1>3, ThreadsFrame
<1>5. ASSUME NEW j
      PROVE  /\ TimesIn(j, bulk') = TimesIn(j, bulk) - Times(j, bulk[c]) + Times(j, bulk'[c])
             /\ Times(j, bulk[c]) \in Nat /\ Times(j, bulk'[c]) \in Nat
             /\ Times(j, bulk[c]) <= TimesIn(j, bulk)
  BY ThreadsAssumption, TimesInExcept
<1> QED BY <1>4, <1>5

LEMMA NothingIn ==
    ASSUME NEW j PROVE Times(j, <<>>) = 0 /\ ToSet(<<>>) = {}
<1>1. {i \in DOMAIN <<>> : <<>>[i] = j} = {}
  OBVIOUS
<1> QED BY <1>1, FS_EmptySet DEF Times, ToSet

LEMMA BulkGone ==
    ASSUME IInv, NEW c \in Clients, bulk' = [bulk EXCEPT ![c] = <<>>],
           UNCHANGED <<unread, data, due>>, quit' = quit,
           \A d \in Clients \ {c} : pc'[d] = pc[d],
           ThreadAt(c)'
    PROVE  /\ bulk' \in [Clients -> Seq(Items \ Refused)] /\ Threads'
           /\ \A j : /\ TimesIn(j, bulk') = TimesIn(j, bulk) - Times(j, bulk[c])
                     /\ Times(j, bulk[c]) \in Nat /\ Times(j, bulk[c]) <= TimesIn(j, bulk)
<1>0. bulk \in [Clients -> Seq(Items \ Refused)] /\ <<>> \in Seq(Items \ Refused)
  BY DEF IInv, Types
<1>1. Replaced(Clients, Items \ Refused, bulk, bulk', c) /\ bulk'[c] = <<>>
  BY <1>0 DEF Replaced
<1>2. ToSet(bulk'[c]) \subseteq ToSet(bulk[c]) /\ \A j : Times(j, bulk'[c]) = 0
  BY <1>1, NothingIn
<1>3. /\ Threads'
      /\ \A j : /\ TimesIn(j, bulk') = TimesIn(j, bulk) - Times(j, bulk[c]) + Times(j, bulk'[c])
                /\ Times(j, bulk[c]) \in Nat /\ Times(j, bulk'[c]) \in Nat
                /\ Times(j, bulk[c]) <= TimesIn(j, bulk)
  BY <1>1, <1>2, BulkStep
<1>4. \A j : TimesIn(j, bulk) \in Nat
  BY <1>0, ThreadsAssumption, SpotsFinite
<1>5. bulk' \in [Clients -> Seq(Items \ Refused)]
  BY <1>1 DEF Replaced
<1>6. ASSUME NEW j
      PROVE  /\ TimesIn(j, bulk') = TimesIn(j, bulk) - Times(j, bulk[c])
             /\ Times(j, bulk[c]) \in Nat /\ Times(j, bulk[c]) <= TimesIn(j, bulk)
  <2>1. /\ TimesIn(j, bulk') = TimesIn(j, bulk) - Times(j, bulk[c]) + Times(j, bulk'[c])
        /\ Times(j, bulk[c]) \in Nat /\ Times(j, bulk[c]) <= TimesIn(j, bulk)
    BY <1>3
  <2>2. Times(j, bulk'[c]) = 0 /\ TimesIn(j, bulk) \in Nat
    BY <1>2, <1>4
  <2>3. PICK m, n, k : m = TimesIn(j, bulk) /\ n = Times(j, bulk[c]) /\ k = TimesIn(j, bulk')
    OBVIOUS
  <2>4. k = m - n + 0 /\ m \in Nat /\ n \in Nat
    BY <2>1, <2>2, <2>3
  <2>5. k = m - n
    BY <2>4
  <2> QED BY <2>1, <2>3, <2>5
<1> QED BY <1>3, <1>5, <1>6

LEMMA EnqueueBulkKeeps ==
    ASSUME IInv, NEW c \in Clients, EnqueueBulk(c)
    PROVE  Types' /\ Threads' /\ Hands' /\ Steady
<1>1. Types /\ Threads /\ Hands
  BY DEF IInv
<1>2. PICK b : b = bulk[c]
  OBVIOUS
<1>3. /\ pc[c] = "enqueue"
      /\ pool' = Append(pool, b) \/ (quit /\ pool' = pool)
      /\ bulk' = [bulk EXCEPT ![c] = <<>>] /\ sent' = [sent EXCEPT ![c] = TRUE]
      /\ pc' = [pc EXCEPT ![c] = "data"]
      /\ UNCHANGED <<unread, data, due, work, queue, pump, inserted, failed,
                     acceptor, signal, quit, mainQuit, main>>
  BY <1>2 DEF EnqueueBulk, pumpVars, stopVars
<1>4. /\ pc \in [Clients -> {"queued", "read", "data", "wait", "enqueue", "push", "end"}]
      /\ b \in Seq(Items \ Refused) /\ pool \in Seq(Seq(Items \ Refused))
      /\ bulk \in [Clients -> Seq(Items \ Refused)] /\ quit \in BOOLEAN
      /\ <<>> \in Seq(Items \ Refused)
  BY <1>1, <1>2 DEF Types
<1>5. ThreadAt(c)'
  <2>1. ThreadAt(c) /\ Consumed(c)' = Consumed(c) /\ g_jsonChunkSize \in Nat \ {0}
    BY <1>1, <1>3, LimitsAssumption DEF Threads, Consumed
  <2>2. pc'[c] = "data" /\ bulk'[c] = <<>>
    BY <1>3, <1>4
  <2>3. Len(<<>>) < g_jsonChunkSize /\ Len(<<>>) <= g_jsonChunkSize
    BY <2>1
  <2>4. due[c] >= -MaxLag /\ due[c] <= Consumed(c) + 1 /\ due[c] <= Consumed(c)
    BY <1>3, <2>1 DEF ThreadAt
  <2> QED BY <1>3, <2>1, <2>2, <2>3, <2>4 DEF ThreadAt
<1>6. /\ bulk' \in [Clients -> Seq(Items \ Refused)] /\ Threads'
      /\ \A j : /\ TimesIn(j, bulk') = TimesIn(j, bulk) - Times(j, b)
                /\ Times(j, b) \in Nat /\ Times(j, b) <= TimesIn(j, bulk)
  <2>1. \A d \in Clients \ {c} : pc'[d] = pc[d]
    BY <1>3, <1>4
  <2> QED BY <1>2, <1>3, <1>5, <2>1, BulkGone
<1>7. pool' \in Seq(Seq(Items \ Refused))
  <2>1. PICK T : T = Seq(Items \ Refused)
    OBVIOUS
  <2>2. Append(pool, b) \in Seq(T)
    BY <1>4, <2>1, AppendProperties
  <2> QED BY <1>3, <1>4, <2>1, <2>2
<1>8. Types'
  BY <1>1, <1>3, <1>4, <1>6, <1>7 DEF Types
<1>9. Hands'
  BY <1>1, <1>3 DEF Hands
<1>10. ASSUME NEW j \in Items
       PROVE  Total(j)' = Total(j) \/ (quit /\ Total(j)' <= Total(j) /\ Total(j)' \in Nat)
  <2>1. Parts(j) /\ Parts(j)'
    BY <1>1, <1>8, Sums, SumsNext
  <2>2. /\ TimesIn(j, bulk)' = TimesIn(j, bulk) - Times(j, b) /\ Times(j, b) \in Nat
    BY <1>6, <2>1 DEF Parts
  <2>3. /\ WithPumps(j)' = WithPumps(j) /\ AtEnd(j)' = AtEnd(j)
        /\ TimesIn(j, unread)' = TimesIn(j, unread) /\ TimesIn(j, data)' = TimesIn(j, data)
        /\ TimesIn(j, WorkBatches)' = TimesIn(j, WorkBatches)
    BY <1>3 DEF WithPumps, AtEnd, WorkBatches, PumpBatches
  <2>4. WithClients(j)' = WithClients(j) - Times(j, b)
    BY <2>1, <2>2, <2>3 DEF Parts, WithClients
  <2>5. CASE pool' = Append(pool, b)
    <3>1. TimesIn(j, pool)' = TimesIn(j, pool) + Times(j, b)
      BY <1>4, <2>5, TimesInAppend
    <3>2. WithPool(j)' = WithPool(j) + Times(j, b)
      BY <2>1, <2>2, <2>3, <3>1 DEF Parts, WithPool
    <3> QED BY <2>1, <2>2, <2>3, <2>4, <3>2 DEF Parts
  <2>6. CASE quit /\ pool' = pool
    <3>1. WithPool(j)' = WithPool(j)
      BY <2>3, <2>6 DEF WithPool
    <3> QED BY <2>1, <2>2, <2>3, <2>4, <2>6, <3>1 DEF Parts
  <2> QED BY <1>3, <2>5, <2>6
<1>11. \A x \in Items \cup Clients : failed'[x] >= failed[x]
  BY <1>1, <1>3 DEF Types
<1> QED BY <1>3, <1>6, <1>8, <1>9, <1>10, <1>11 DEF Steady

LEMMA PushRestKeeps ==
    ASSUME IInv, NEW c \in Clients, PushRest(c)
    PROVE  Types' /\ Threads' /\ Hands' /\ Steady
<1>1. Types /\ Threads /\ Hands
  BY DEF IInv
<1>2. PICK b : b = bulk[c]
  OBVIOUS
<1>3. /\ pc[c] = "push" /\ queue' = Append(queue, b)
      /\ bulk' = [bulk EXCEPT ![c] = <<>>] /\ pc' = [pc EXCEPT ![c] = "end"]
      /\ UNCHANGED <<unread, data, sent, due, pool, work, pump, inserted, failed,
                     acceptor, signal, quit, mainQuit, main>>
  BY <1>2 DEF PushRest, poolVars, pumpVars, stopVars
<1>4. /\ pc \in [Clients -> {"queued", "read", "data", "wait", "enqueue", "push", "end"}]
      /\ b \in Seq(Items \ Refused) /\ queue \in Seq(Seq(Good))
      /\ bulk \in [Clients -> Seq(Items \ Refused)]
      /\ <<>> \in Seq(Items \ Refused)
  BY <1>1, <1>2 DEF Types
<1>5. ThreadAt(c) /\ Consumed(c)' = Consumed(c) /\ g_jsonChunkSize \in Nat \ {0}
  BY <1>1, <1>3, LimitsAssumption DEF Threads, Consumed
<1>6. b \in Seq(Good)
  <2>1. ToSet(b) \cap Broken = {}
    BY <1>2, <1>3, <1>5 DEF ThreadAt
  <2>2. ToSet(b) \subseteq Items \ Refused
    BY <1>4, LenProperties, ElementOfSeq DEF ToSet
  <2>3. ToSet(b) \subseteq Good
    BY <2>1, <2>2 DEF Good
  <2> QED BY <1>4, <2>3, SeqInto
<1>7. ThreadAt(c)'
  <2>1. pc'[c] = "end" /\ bulk'[c] = <<>> /\ data[c] = <<>>
    BY <1>3, <1>4, <1>5 DEF ThreadAt
  <2>2. Len(<<>>) <= g_jsonChunkSize
    BY <1>5
  <2>3. due[c] >= -MaxLag /\ due[c] <= Consumed(c) + 1
    BY <1>5 DEF ThreadAt
  <2> QED BY <1>3, <1>5, <2>1, <2>2, <2>3 DEF ThreadAt
<1>8. /\ bulk' \in [Clients -> Seq(Items \ Refused)] /\ Threads'
      /\ \A j : /\ TimesIn(j, bulk') = TimesIn(j, bulk) - Times(j, b)
                /\ Times(j, b) \in Nat /\ Times(j, b) <= TimesIn(j, bulk)
  <2>1. \A d \in Clients \ {c} : pc'[d] = pc[d]
    BY <1>3, <1>4
  <2> QED BY <1>2, <1>3, <1>7, <2>1, BulkGone
<1>9. queue' \in Seq(Seq(Good))
  BY <1>3, <1>4, <1>6, AppendProperties
<1>10. Types'
  BY <1>1, <1>3, <1>4, <1>8, <1>9 DEF Types
<1>11. Hands'
  BY <1>1, <1>3 DEF Hands
<1>12. ASSUME NEW j \in Items PROVE Total(j)' = Total(j)
  <2>1. Parts(j) /\ Parts(j)'
    BY <1>1, <1>10, Sums, SumsNext
  <2>2. /\ TimesIn(j, bulk)' = TimesIn(j, bulk) - Times(j, b) /\ Times(j, b) \in Nat
    BY <1>8, <2>1 DEF Parts
  <2>3. /\ WithPool(j)' = WithPool(j) /\ AtEnd(j)' = AtEnd(j)
        /\ TimesIn(j, unread)' = TimesIn(j, unread) /\ TimesIn(j, data)' = TimesIn(j, data)
        /\ TimesIn(j, PumpBatches)' = TimesIn(j, PumpBatches)
    BY <1>3 DEF WithPool, AtEnd, WorkBatches, PumpBatches
  <2>4. WithClients(j)' = WithClients(j) - Times(j, b)
    BY <2>1, <2>2, <2>3 DEF Parts, WithClients
  <2>5. TimesIn(j, queue)' = TimesIn(j, queue) + Times(j, b)
    BY <1>3, <1>4, <1>6, TimesInAppend
  <2>6. WithPumps(j)' = WithPumps(j) + Times(j, b)
    BY <2>1, <2>2, <2>3, <2>5 DEF Parts, WithPumps
  <2> QED BY <2>1, <2>2, <2>3, <2>4, <2>6 DEF Parts
<1>13. \A x \in Items \cup Clients : failed'[x] >= failed[x]
  BY <1>1, <1>3 DEF Types
<1> QED BY <1>3, <1>8, <1>10, <1>11, <1>12, <1>13 DEF Steady

\* Where an item is, it is once.
LEMMA EachOnce ==
    ASSUME IInv, NEW j \in Items
    PROVE  /\ Parts(j) /\ Total(j) <= 1 /\ TimesIn(j, bulk) <= 1 /\ TimesIn(j, pool) <= 1
           /\ TimesIn(j, PumpBatches) <= 1
<1>1. Parts(j) /\ Total(j) <= 1
  BY Sums DEF IInv, Conserved
<1>2. WithClients(j) <= 1 /\ WithPool(j) <= 1 /\ WithPumps(j) <= 1
  BY <1>1 DEF Parts
<1> QED BY <1>1, <1>2 DEF Parts, WithClients, WithPool, WithPumps

\* What parses and what does not, of a batch with no item twice.
LEMMA ParseCount ==
    ASSUME NEW S, NEW s \in Seq(S), NEW j, Times(j, s) <= 1
    PROVE  /\ Times(j, s) = Times(j, Parsed(s)) + (IF j \in Unparsed(s) THEN 1 ELSE 0)
           /\ Times(j, Parsed(s)) \in Nat
<1>1. /\ Times(j, s) \in Nat /\ (Times(j, s) = 0 <=> j \notin ToSet(s))
      /\ Times(j, Parsed(s)) = IF j \in Broken THEN 0 ELSE Times(j, s)
  BY AtFinite, ParsedFacts
<1>2. CASE j \in Broken /\ j \in ToSet(s)
  BY <1>1, <1>2 DEF Unparsed
<1>3. CASE ~ (j \in Broken /\ j \in ToSet(s))
  BY <1>1, <1>3 DEF Unparsed
<1> QED BY <1>2, <1>3

LEMMA CloseKeeps ==
    ASSUME IInv, NEW c \in Clients, Close(c)
    PROVE  Types' /\ Threads' /\ Hands' /\ Steady
<1>1. Types /\ Threads /\ Hands
  BY DEF IInv
<1>2. PICK b, q : b = bulk[c] /\ q = Parsed(b)
  OBVIOUS
<1>3. /\ pc[c] = "read" /\ bulk' = [bulk EXCEPT ![c] = q]
      /\ \/ /\ quit \/ b = <<>>
            /\ pc' = [pc EXCEPT ![c] = "end"] /\ failed' = failed
         \/ /\ pc' = [pc EXCEPT ![c] = "push"] /\ failed' = Count(failed, Unparsed(b))
      /\ UNCHANGED <<unread, data, sent, due, pool, work, queue, pump, inserted,
                     acceptor, signal, quit, mainQuit, main>>
  BY <1>2 DEF Close, poolVars, pumpVars, stopVars
<1>4. /\ pc \in [Clients -> {"queued", "read", "data", "wait", "enqueue", "push", "end"}]
      /\ b \in Seq(Items \ Refused) /\ bulk \in [Clients -> Seq(Items \ Refused)]
      /\ failed \in [Items \cup Clients -> Nat] /\ quit \in BOOLEAN
  BY <1>1, <1>2 DEF Types
<1>5. q \in Seq(Items \ Refused) /\ Len(q) <= Len(b) /\ ToSet(q) \subseteq ToSet(b) \ Broken
      /\ Len(q) \in Nat /\ Len(b) \in Nat
  <2>1. q \in Seq((Items \ Refused) \ Broken) /\ Len(q) <= Len(b) /\ ToSet(q) \subseteq ToSet(b) \ Broken
    BY <1>2, <1>4, ParsedFacts
  <2>2. ToSet(b) \subseteq Items \ Refused
    BY <1>4, LenProperties, ElementOfSeq DEF ToSet
  <2>3. q \in Seq(Items \ Refused)
    BY <2>1, <2>2, SeqInto
  <2> QED BY <1>4, <2>1, <2>3, LenProperties
<1>6. /\ pc' \in [Clients -> {"queued", "read", "data", "wait", "enqueue", "push", "end"}]
      /\ pc'[c] \in {"push", "end"} /\ \A d \in Clients \ {c} : pc'[d] = pc[d]
  BY <1>3, <1>4
<1>7. failed' \in [Items \cup Clients -> Nat] /\ \A x \in Items \cup Clients : failed'[x] >= failed[x]
  <2>1. CASE failed' = failed
    BY <1>4, <2>1
  <2>2. CASE failed' = Count(failed, Unparsed(b))
    BY <1>4, <2>2 DEF Count
  <2> QED BY <1>3, <2>1, <2>2
<1>8. Replaced(Clients, Items \ Refused, bulk, bulk', c) /\ bulk'[c] = q
  BY <1>3, <1>4, <1>5 DEF Replaced
<1>9. ThreadAt(c)'
  <2>1. ThreadAt(c) /\ Consumed(c)' = Consumed(c) /\ g_jsonChunkSize \in Nat \ {0}
    BY <1>1, <1>3, LimitsAssumption DEF Threads, Consumed
  <2>2. data[c] = <<>> /\ Len(b) < g_jsonChunkSize /\ due[c] >= -MaxLag /\ due[c] <= Consumed(c) + 1
    BY <1>2, <1>3, <2>1 DEF ThreadAt
  <2>3. Len(q) <= g_jsonChunkSize /\ ToSet(q) \cap Broken = {}
    BY <1>5, <2>1, <2>2
  <2> QED BY <1>3, <1>6, <1>8, <2>1, <2>2, <2>3 DEF ThreadAt
<1>10. /\ Threads'
       /\ \A j : /\ TimesIn(j, bulk') = TimesIn(j, bulk) - Times(j, b) + Times(j, q)
                 /\ Times(j, b) \in Nat /\ Times(j, q) \in Nat
                 /\ Times(j, b) <= TimesIn(j, bulk)
  <2>1. ToSet(bulk'[c]) \subseteq ToSet(bulk[c])
    BY <1>2, <1>5, <1>8
  <2>2. /\ Threads'
        /\ \A j : /\ TimesIn(j, bulk') = TimesIn(j, bulk) - Times(j, bulk[c]) + Times(j, bulk'[c])
                  /\ Times(j, bulk[c]) \in Nat /\ Times(j, bulk'[c]) \in Nat
                  /\ Times(j, bulk[c]) <= TimesIn(j, bulk)
    BY <1>3, <1>6, <1>8, <1>9, <2>1, BulkStep
  <2> QED BY <1>2, <1>8, <2>2
<1>11. Types'
  <2>1. bulk' \in [Clients -> Seq(Items \ Refused)]
    BY <1>8 DEF Replaced
  <2> QED BY <1>1, <1>3, <1>6, <1>7, <2>1 DEF Types
<1>12. Hands'
  BY <1>1, <1>3 DEF Hands
<1>13. ASSUME NEW j \in Items
       PROVE  Total(j)' = Total(j) \/ (quit /\ Total(j)' <= Total(j) /\ Total(j)' \in Nat)
  <2>1. Parts(j) /\ Parts(j)' /\ TimesIn(j, bulk) <= 1
    BY <1>1, <1>11, SumsNext, EachOnce
  <2>2. PICK m \in Nat, n \in Nat : m = Times(j, b) /\ n = Times(j, q)
    BY <1>10
  <2>3. TimesIn(j, bulk)' = TimesIn(j, bulk) - m + n /\ m <= 1
    BY <1>10, <2>1, <2>2 DEF Parts
  <2>4. /\ WithPool(j)' = WithPool(j) /\ WithPumps(j)' = WithPumps(j)
        /\ TimesIn(j, unread)' = TimesIn(j, unread) /\ TimesIn(j, data)' = TimesIn(j, data)
    BY <1>3 DEF WithPool, WithPumps, WorkBatches, PumpBatches
  <2>5. WithClients(j)' = WithClients(j) - m + n
    BY <2>1, <2>3, <2>4 DEF Parts, WithClients
  <2>6. m = n + (IF j \in Unparsed(b) THEN 1 ELSE 0)
    BY <1>2, <1>4, <2>2, <2>3, ParseCount
  <2>7. PICK f \in Nat, g \in Nat, h \in Nat : f = failed[j] /\ g = failed'[j] /\ h = inserted[j]
    BY <1>1, <1>4, <1>7 DEF Types
  <2>8. AtEnd(j) = h + f /\ AtEnd(j)' = h + g
    BY <1>3, <2>7 DEF AtEnd
  <2>9. CASE failed' = Count(failed, Unparsed(b))
    <3>1. g = f + (IF j \in Unparsed(b) THEN 1 ELSE 0)
      BY <1>4, <2>7, <2>9 DEF Count
    <3> QED BY <2>1, <2>4, <2>5, <2>6, <2>8, <3>1 DEF Parts
  <2>10. CASE failed' = failed /\ b = <<>>
    <3>1. m = 0 /\ g = f
      BY <2>2, <2>7, <2>10, NothingIn
    <3>2. n = 0
      BY <2>6, <3>1
    <3> QED BY <2>1, <2>4, <2>5, <2>8, <3>1, <3>2 DEF Parts
  <2>11. CASE failed' = failed /\ quit
    <3>1. n <= m /\ g = f
      BY <2>6, <2>7, <2>11
    <3> QED BY <2>1, <2>4, <2>5, <2>8, <2>11, <3>1 DEF Parts
  <2> QED BY <1>3, <2>9, <2>10, <2>11
<1> QED BY <1>3, <1>7, <1>10, <1>11, <1>12, <1>13 DEF Steady

\* The connection breaks: what it drops is only its own.
LEMMA BreakKeeps ==
    ASSUME IInv, NEW c \in Clients, Break(c)
    PROVE  Types' /\ Threads' /\ Hands' /\ Conserved'
<1>1. Types /\ Threads /\ Hands /\ Conserved
  BY DEF IInv
<1>2. PICK b : b = bulk[c]
  OBVIOUS
<1>3. /\ pc[c] = "read" /\ failed' = Count(failed, {c})
      /\ bulk' = [bulk EXCEPT ![c] = <<>>] /\ pc' = [pc EXCEPT ![c] = "end"]
      /\ UNCHANGED <<unread, data, sent, due, pool, work, queue, pump, inserted,
                     acceptor, signal, quit, mainQuit, main>>
  BY <1>2 DEF Break, poolVars, pumpVars, stopVars
<1>4. /\ pc \in [Clients -> {"queued", "read", "data", "wait", "enqueue", "push", "end"}]
      /\ b \in Seq(Items \ Refused) /\ bulk \in [Clients -> Seq(Items \ Refused)]
      /\ failed \in [Items \cup Clients -> Nat]
  BY <1>1, <1>2 DEF Types
<1>5. /\ failed' \in [Items \cup Clients -> Nat]
      /\ \A j \in Items : failed'[j] = failed[j]
      /\ \A d \in Clients : failed'[d] >= failed[d]
      /\ failed'[c] > 0
  <2>1. c \notin Items
    BY StreamFacts
  <2> QED BY <1>3, <1>4, <2>1 DEF Count
<1>6. ThreadAt(c)'
  <2>1. ThreadAt(c) /\ Consumed(c)' = Consumed(c) /\ g_jsonChunkSize \in Nat \ {0}
    BY <1>1, <1>3, LimitsAssumption DEF Threads, Consumed
  <2>2. pc'[c] = "end" /\ bulk'[c] = <<>> /\ data[c] = <<>>
    BY <1>3, <1>4, <2>1 DEF ThreadAt
  <2>3. Len(<<>>) <= g_jsonChunkSize
    BY <2>1
  <2>4. due[c] >= -MaxLag /\ due[c] <= Consumed(c) + 1
    BY <2>1 DEF ThreadAt
  <2> QED BY <1>3, <2>1, <2>2, <2>3, <2>4 DEF ThreadAt
<1>7. /\ bulk' \in [Clients -> Seq(Items \ Refused)] /\ Threads'
      /\ \A j : /\ TimesIn(j, bulk') = TimesIn(j, bulk) - Times(j, b)
                /\ Times(j, b) \in Nat /\ Times(j, b) <= TimesIn(j, bulk)
  <2>1. \A d \in Clients \ {c} : pc'[d] = pc[d]
    BY <1>3, <1>4
  <2> QED BY <1>2, <1>3, <1>6, <2>1, BulkGone
<1>8. Types'
  <2>1. pc' \in [Clients -> {"queued", "read", "data", "wait", "enqueue", "push", "end"}]
    BY <1>3, <1>4
  <2> QED BY <1>1, <1>3, <1>5, <1>7, <2>1 DEF Types
<1>9. Hands'
  BY <1>1, <1>3 DEF Hands
<1>10. ASSUME NEW j \in Items
       PROVE  /\ Total(j)' = Total(j) - Times(j, b) /\ Total(j) \in Nat /\ Total(j) <= 1
              /\ Total(j)' \in Nat /\ Times(j, b) \in Nat
  <2>1. Parts(j) /\ Parts(j)' /\ Total(j) <= 1
    BY <1>8, SumsNext, EachOnce
  <2>2. TimesIn(j, bulk)' = TimesIn(j, bulk) - Times(j, b) /\ Times(j, b) \in Nat
    BY <1>7
  <2>3. /\ WithPool(j)' = WithPool(j) /\ WithPumps(j)' = WithPumps(j)
        /\ TimesIn(j, unread)' = TimesIn(j, unread) /\ TimesIn(j, data)' = TimesIn(j, data)
    BY <1>3 DEF WithPool, WithPumps, WorkBatches, PumpBatches
  <2>4. AtEnd(j)' = AtEnd(j)
    BY <1>3, <1>5 DEF AtEnd
  <2>5. WithClients(j)' = WithClients(j) - Times(j, b)
    BY <2>1, <2>2, <2>3 DEF Parts, WithClients
  <2> QED BY <2>1, <2>2, <2>3, <2>4, <2>5 DEF Parts
<1>11. ASSUME NEW j \in Items PROVE Total(j)' <= 1
  BY <1>10
<1>12. ASSUME NEW d \in Clients, NEW j \in ToSet(Stream[d]), Total(j)' = 0
       PROVE  quit' \/ failed'[d] > 0
  <2>1. j \in Items
    BY StreamFacts
  <2>2. CASE d = c
    BY <1>5, <2>2
  <2>3. CASE d # c
    <3>1. j \notin ToSet(Stream[c])
      BY <2>3, StreamAssumption
    <3>2. ToSet(b) \subseteq ToSet(Stream[c])
      BY <1>1, <1>2 DEF Threads, StreamOf
    <3>3. Times(j, b) = 0
      BY <1>4, <3>1, <3>2, AtFinite
    <3>4. Total(j) = 0
      BY <1>10, <1>12, <2>1, <3>3
    <3>5. quit \/ failed[d] > 0
      BY <1>1, <3>4 DEF Conserved
    <3>6. failed[d] > 0 => failed'[d] > 0
      <4>1. PICK m \in Nat, n \in Nat : m = failed[d] /\ n = failed'[d]
        BY <1>4, <1>5
      <4> QED BY <1>5, <4>1
    <3> QED BY <1>3, <3>5, <3>6
  <2> QED BY <2>2, <2>3
<1>13. Conserved'
  BY <1>11, <1>12 DEF Conserved
<1> QED BY <1>7, <1>8, <1>9, <1>13

-----------------------------------------------------------------------------
(* The pool and the pumps.                                                 *)

LEMMA ParseKeeps ==
    ASSUME IInv, NEW w \in Workers, Parse(w)
    PROVE  Types' /\ Threads' /\ Hands' /\ Steady
<1>1. Types /\ Threads /\ Hands
  BY DEF IInv
<1>2. PICK b, t, q : b = Head(pool) /\ t = Tail(pool) /\ q = Parsed(b)
  OBVIOUS
<1>3. /\ work[w] = Idle /\ pool # <<>> /\ pool' = t
      /\ \/ (quit \/ b = <<>>) /\ work' = work /\ failed' = failed
         \/ /\ work' = [work EXCEPT ![w] = [at |-> "push", batch |-> q]]
            /\ failed' = Count(failed, Unparsed(b))
      /\ UNCHANGED <<unread, pc, data, bulk, sent, due, queue, pump, inserted,
                     acceptor, signal, quit, mainQuit, main>>
  BY <1>2 DEF Parse, clientVars, pumpVars, stopVars
<1>4. /\ b \in Seq(Items \ Refused) /\ t \in Seq(Seq(Items \ Refused))
      /\ \A j : TimesIn(j, pool) = Times(j, b) + TimesIn(j, t)
  <2>1. PICK S : S = Items \ Refused
    OBVIOUS
  <2>2. pool \in Seq(Seq(S)) /\ pool # <<>>
    BY <1>1, <1>3, <2>1 DEF Types
  <2>3. b \in Seq(S) /\ t \in Seq(Seq(S))
    BY <1>2, <2>2, HeadTailProperties
  <2>4. \A j : TimesIn(j, pool) = Times(j, b) + TimesIn(j, t)
    BY <1>2, <2>2, TimesInTail
  <2> QED BY <2>1, <2>3, <2>4
<1>5. q \in Seq(Good)
  <2>1. q \in Seq((Items \ Refused) \ Broken) /\ ToSet(q) \subseteq ToSet(b) \ Broken
    BY <1>2, <1>4, ParsedFacts
  <2>2. ToSet(b) \subseteq Items \ Refused
    BY <1>4, LenProperties, ElementOfSeq DEF ToSet
  <2>3. ToSet(q) \subseteq Good
    BY <2>1, <2>2 DEF Good
  <2> QED BY <2>1, <2>3, SeqInto
<1>6. /\ failed \in [Items \cup Clients -> Nat] /\ inserted \in [Items -> Nat]
      /\ work \in [Workers -> [at : {"idle", "push"}, batch : Seq(Good)]]
  BY <1>1 DEF Types
<1>7. failed' \in [Items \cup Clients -> Nat] /\ \A x \in Items \cup Clients : failed'[x] >= failed[x]
  <2>1. CASE failed' = failed
    BY <1>6, <2>1
  <2>2. CASE failed' = Count(failed, Unparsed(b))
    BY <1>6, <2>2 DEF Count
  <2> QED BY <1>3, <2>1, <2>2
<1>8. work' \in [Workers -> [at : {"idle", "push"}, batch : Seq(Good)]]
  <2>1. CASE work' = work
    BY <1>6, <2>1
  <2>2. CASE work' = [work EXCEPT ![w] = [at |-> "push", batch |-> q]]
    BY <1>5, <1>6, <2>2
  <2> QED BY <1>3, <2>1, <2>2
<1>9. Types'
  BY <1>1, <1>3, <1>4, <1>7, <1>8 DEF Types
<1>10. Threads'
  BY <1>3, ServerFrame
<1>11. Hands'
  BY <1>1, <1>3 DEF Hands
<1>12. ASSUME NEW j \in Items
       PROVE  Total(j)' = Total(j) \/ (quit /\ Total(j)' <= Total(j) /\ Total(j)' \in Nat)
  <2>1. Parts(j) /\ Parts(j)' /\ TimesIn(j, pool) <= 1
    BY <1>9, SumsNext, EachOnce
  <2>2. PICK m \in Nat, n \in Nat : m = Times(j, b) /\ n = Times(j, q)
    BY <1>4, <1>5, AtFinite
  <2>3. TimesIn(j, pool) = m + TimesIn(j, pool') /\ m <= 1
    <3>1. TimesIn(j, pool) = m + TimesIn(j, pool')
      BY <1>3, <1>4, <2>2
    <3>2. TimesIn(j, pool) \in Nat /\ TimesIn(j, pool') \in Nat
      BY <2>1 DEF Parts
    <3> QED BY <2>1, <3>1, <3>2
  <2>4. m = n + (IF j \in Unparsed(b) THEN 1 ELSE 0)
    BY <1>2, <1>4, <2>2, <2>3, ParseCount
  <2>5. WithClients(j)' = WithClients(j) /\ WithPumps(j)' = WithPumps(j)
    BY <1>3 DEF WithClients, WithPumps, PumpBatches
  <2>6. PICK f \in Nat, g \in Nat, h \in Nat : f = failed[j] /\ g = failed'[j] /\ h = inserted[j]
    BY <1>6, <1>7
  <2>7. AtEnd(j) = h + f /\ AtEnd(j)' = h + g
    BY <1>3, <2>6 DEF AtEnd
  <2>8. CASE /\ work' = [work EXCEPT ![w] = [at |-> "push", batch |-> q]]
             /\ failed' = Count(failed, Unparsed(b))
    <3>1. g = f + (IF j \in Unparsed(b) THEN 1 ELSE 0)
      BY <1>6, <2>6, <2>8 DEF Count
    <3>2. TimesIn(j, WorkBatches') = TimesIn(j, WorkBatches) + n
      <4>1. /\ Replaced(Workers, Good, WorkBatches, WorkBatches', w)
            /\ WorkBatches[w] = <<>> /\ WorkBatches'[w] = q
        BY <1>3, <1>5, <1>6, <1>8, <2>8 DEF Replaced, WorkBatches, Idle
      <4>2. TimesIn(j, WorkBatches')
               = TimesIn(j, WorkBatches) - Times(j, WorkBatches[w]) + Times(j, WorkBatches'[w])
        BY <4>1, ThreadsAssumption, TimesInExcept
      <4>3. Times(j, WorkBatches[w]) = 0 /\ Times(j, WorkBatches'[w]) = n
        BY <2>2, <4>1, NothingIn
      <4> QED BY <2>1, <4>2, <4>3 DEF Parts
    <3>3. WithPool(j)' = WithPool(j) - m + n
      BY <2>1, <2>3, <3>2 DEF Parts, WithPool
    <3> QED BY <2>1, <2>4, <2>5, <2>7, <3>1, <3>3 DEF Parts
  <2>9. CASE (quit \/ b = <<>>) /\ work' = work /\ failed' = failed
    <3>1. TimesIn(j, WorkBatches)' = TimesIn(j, WorkBatches) /\ g = f
      BY <2>6, <2>9 DEF WorkBatches
    <3>2. WithPool(j)' = WithPool(j) - m
      BY <2>1, <2>3, <3>1 DEF Parts, WithPool
    <3>3. Total(j)' = Total(j) - m
      BY <2>1, <2>5, <2>7, <3>1, <3>2 DEF Parts
    <3>4. b = <<>> => m = 0
      BY <2>2, NothingIn
    <3>5. Total(j) \in Nat /\ Total(j)' \in Nat
      BY <2>1 DEF Parts
    <3> QED BY <2>9, <3>3, <3>4, <3>5
  <2> QED BY <1>3, <2>8, <2>9
<1> QED BY <1>3, <1>7, <1>9, <1>10, <1>11, <1>12 DEF Steady

LEMMA PushKeeps ==
    ASSUME IInv, NEW w \in Workers, Push(w)
    PROVE  Types' /\ Threads' /\ Hands' /\ Steady
<1>1. Types /\ Threads /\ Hands
  BY DEF IInv
<1>2. PICK b : b = work[w].batch
  OBVIOUS
<1>3. /\ queue' = Append(queue, b) /\ work' = [work EXCEPT ![w] = Idle]
      /\ UNCHANGED <<unread, pc, data, bulk, sent, due, pool, pump, inserted, failed,
                     acceptor, signal, quit, mainQuit, main>>
  BY <1>2 DEF Push, clientVars, pumpVars, stopVars
<1>4. /\ work \in [Workers -> [at : {"idle", "push"}, batch : Seq(Good)]]
      /\ b \in Seq(Good) /\ queue \in Seq(Seq(Good)) /\ <<>> \in Seq(Good)
  BY <1>1, <1>2 DEF Types
<1>5. work' \in [Workers -> [at : {"idle", "push"}, batch : Seq(Good)]]
  BY <1>3, <1>4 DEF Idle
<1>6. queue' \in Seq(Seq(Good))
  BY <1>3, <1>4, AppendProperties
<1>7. Types'
  BY <1>1, <1>3, <1>5, <1>6 DEF Types
<1>8. Threads'
  BY <1>3, ServerFrame
<1>9. Hands'
  BY <1>1, <1>3 DEF Hands
<1>10. ASSUME NEW j \in Items PROVE Total(j)' = Total(j)
  <2>1. Parts(j) /\ Parts(j)'
    BY <1>1, <1>7, Sums, SumsNext
  <2>2. PICK m \in Nat : m = Times(j, b)
    BY <1>4, AtFinite
  <2>3. TimesIn(j, WorkBatches') = TimesIn(j, WorkBatches) - m
    <3>1. /\ Replaced(Workers, Good, WorkBatches, WorkBatches', w)
          /\ WorkBatches[w] = b /\ WorkBatches'[w] = <<>>
      BY <1>2, <1>3, <1>4, <1>5 DEF Replaced, WorkBatches, Idle
    <3>2. TimesIn(j, WorkBatches')
             = TimesIn(j, WorkBatches) - Times(j, WorkBatches[w]) + Times(j, WorkBatches'[w])
      BY <3>1, ThreadsAssumption, TimesInExcept
    <3>3. Times(j, WorkBatches[w]) = m /\ Times(j, WorkBatches'[w]) = 0
      BY <2>2, <3>1, NothingIn
    <3> QED BY <2>1, <3>2, <3>3 DEF Parts
  <2>4. TimesIn(j, queue') = TimesIn(j, queue) + m
    BY <1>3, <1>4, <2>2, TimesInAppend
  <2>5. /\ WithClients(j)' = WithClients(j) /\ AtEnd(j)' = AtEnd(j)
        /\ TimesIn(j, pool)' = TimesIn(j, pool) /\ TimesIn(j, PumpBatches)' = TimesIn(j, PumpBatches)
    BY <1>3 DEF WithClients, AtEnd, PumpBatches
  <2>6. WithPool(j)' = WithPool(j) - m /\ WithPumps(j)' = WithPumps(j) + m
    BY <2>1, <2>3, <2>4, <2>5 DEF Parts, WithPool, WithPumps
  <2> QED BY <2>1, <2>5, <2>6 DEF Parts
<1>11. \A x \in Items \cup Clients : failed'[x] >= failed[x]
  BY <1>1, <1>3 DEF Types
<1> QED BY <1>3, <1>7, <1>8, <1>9, <1>10, <1>11 DEF Steady

LEMMA ReadNextLogsKeeps ==
    ASSUME IInv, NEW p \in Pumps, ReadNextLogs(p)
    PROVE  Types' /\ Threads' /\ Hands' /\ Steady
<1>1. Types /\ Threads /\ Hands
  BY DEF IInv
<1>2. PICK b, t : b = Head(queue) /\ t = Tail(queue)
  OBVIOUS
<1>3. /\ pump[p].at = "read" /\ queue # <<>> /\ queue' = t
      /\ pump' = [pump EXCEPT ![p] = [at |-> "insert", batch |-> b]]
      /\ UNCHANGED <<unread, pc, data, bulk, sent, due, pool, work, inserted, failed,
                     acceptor, signal, quit, mainQuit, main>>
  BY <1>2 DEF ReadNextLogs, clientVars, poolVars, stopVars
<1>4. /\ b \in Seq(Good) /\ t \in Seq(Seq(Good))
      /\ \A j : TimesIn(j, queue) = Times(j, b) + TimesIn(j, t)
  <2>1. queue \in Seq(Seq(Good)) /\ queue # <<>>
    BY <1>1, <1>3 DEF Types
  <2>2. b \in Seq(Good) /\ t \in Seq(Seq(Good))
    BY <1>2, <2>1, HeadTailProperties
  <2>3. \A j : TimesIn(j, queue) = Times(j, b) + TimesIn(j, t)
    BY <1>2, <2>1, TimesInTail
  <2> QED BY <2>2, <2>3
<1>5. pump \in [Pumps -> [at : {"read", "insert", "end"}, batch : Seq(Good)]]
  BY <1>1 DEF Types
<1>6. pump' \in [Pumps -> [at : {"read", "insert", "end"}, batch : Seq(Good)]]
  BY <1>3, <1>4, <1>5
<1>7. Types'
  BY <1>1, <1>3, <1>4, <1>6 DEF Types
<1>8. Threads'
  BY <1>3, ServerFrame
<1>9. Hands'
  <2>1. ASSUME NEW r \in Pumps, pump'[r].at # "insert" PROVE pump'[r].batch = <<>>
    <3>1. r # p /\ pump'[r] = pump[r]
      BY <1>3, <1>5, <2>1
    <3> QED BY <1>1, <2>1, <3>1 DEF Hands
  <2> QED BY <1>1, <1>3, <2>1 DEF Hands
<1>10. ASSUME NEW j \in Items PROVE Total(j)' = Total(j)
  <2>1. Parts(j) /\ Parts(j)'
    BY <1>1, <1>7, Sums, SumsNext
  <2>2. PICK m \in Nat : m = Times(j, b)
    BY <1>4, AtFinite
  <2>3. TimesIn(j, PumpBatches') = TimesIn(j, PumpBatches) + m
    <3>1. pump[p].batch = <<>>
      BY <1>1, <1>3 DEF Hands
    <3>2. /\ Replaced(Pumps, Good, PumpBatches, PumpBatches', p)
          /\ PumpBatches[p] = <<>> /\ PumpBatches'[p] = b
      BY <1>3, <1>5, <1>6, <3>1 DEF Replaced, PumpBatches
    <3>3. TimesIn(j, PumpBatches')
             = TimesIn(j, PumpBatches) - Times(j, PumpBatches[p]) + Times(j, PumpBatches'[p])
      BY <3>2, ThreadsAssumption, TimesInExcept
    <3>4. Times(j, PumpBatches[p]) = 0 /\ Times(j, PumpBatches'[p]) = m
      BY <2>2, <3>2, NothingIn
    <3> QED BY <2>1, <3>3, <3>4 DEF Parts
  <2>4. TimesIn(j, queue) = m + TimesIn(j, queue')
    BY <1>3, <1>4, <2>2
  <2>5. WithClients(j)' = WithClients(j) /\ AtEnd(j)' = AtEnd(j) /\ WithPool(j)' = WithPool(j)
    BY <1>3 DEF WithClients, AtEnd, WithPool, WorkBatches
  <2>6. WithPumps(j)' = WithPumps(j)
    BY <2>1, <2>3, <2>4 DEF Parts, WithPumps
  <2> QED BY <2>1, <2>5, <2>6 DEF Parts
<1>11. \A x \in Items \cup Clients : failed'[x] >= failed[x]
  BY <1>1, <1>3 DEF Types
<1> QED BY <1>3, <1>7, <1>8, <1>9, <1>10, <1>11 DEF Steady

LEMMA InsertLogsKeeps ==
    ASSUME IInv, NEW p \in Pumps, InsertLogs(p)
    PROVE  Types' /\ Threads' /\ Hands' /\ Steady
<1>1. Types /\ Threads /\ Hands
  BY DEF IInv
<1>2. PICK b, q : b = pump[p].batch /\ q = IF mainQuit THEN "end" ELSE "read"
  OBVIOUS
<1>3. /\ inserted' = Count(inserted, ToSet(b) \ NonObjects)
      /\ failed' = Count(failed, ToSet(b) \cap NonObjects)
      /\ pump' = [pump EXCEPT ![p] = [at |-> q, batch |-> <<>>]]
      /\ UNCHANGED <<unread, pc, data, bulk, sent, due, pool, work, queue,
                     acceptor, signal, quit, mainQuit, main>>
  BY <1>2 DEF InsertLogs, clientVars, poolVars, stopVars
<1>4. /\ pump \in [Pumps -> [at : {"read", "insert", "end"}, batch : Seq(Good)]]
      /\ b \in Seq(Good) /\ <<>> \in Seq(Good) /\ q \in {"read", "insert", "end"}
      /\ inserted \in [Items -> Nat] /\ failed \in [Items \cup Clients -> Nat]
  BY <1>1, <1>2 DEF Types
<1>5. pump' \in [Pumps -> [at : {"read", "insert", "end"}, batch : Seq(Good)]]
  BY <1>3, <1>4
<1>6. /\ inserted' \in [Items -> Nat] /\ failed' \in [Items \cup Clients -> Nat]
      /\ \A x \in Items \cup Clients : failed'[x] >= failed[x]
  BY <1>3, <1>4 DEF Count
<1>7. Types'
  BY <1>1, <1>3, <1>5, <1>6 DEF Types
<1>8. Threads'
  BY <1>3, ServerFrame
<1>9. Hands'
  <2>1. ASSUME NEW r \in Pumps, pump'[r].at # "insert" PROVE pump'[r].batch = <<>>
    <3>1. CASE r = p
      BY <1>3, <1>4, <3>1
    <3>2. CASE r # p
      BY <1>1, <1>3, <1>4, <2>1, <3>2 DEF Hands
    <3> QED BY <3>1, <3>2
  <2>2. ASSUME NEW j \in Items PROVE inserted'[j] = 0 \/ j \in Good \ NonObjects
    <3>1. CASE j \in ToSet(b) \ NonObjects
      <4>1. ToSet(b) \subseteq Good
        BY <1>4, LenProperties, ElementOfSeq DEF ToSet
      <4> QED BY <3>1, <4>1
    <3>2. CASE j \notin ToSet(b) \ NonObjects
      BY <1>1, <1>3, <1>4, <3>2 DEF Count, Hands
    <3> QED BY <3>1, <3>2
  <2> QED BY <2>1, <2>2 DEF Hands
<1>10. ASSUME NEW j \in Items PROVE Total(j)' = Total(j)
  <2>1. Parts(j) /\ Parts(j)' /\ TimesIn(j, PumpBatches) <= 1
    BY <1>7, SumsNext, EachOnce
  <2>2. PICK m \in Nat : m = Times(j, b) /\ (m = 0 <=> j \notin ToSet(b))
    BY <1>4, AtFinite
  <2>3. TimesIn(j, PumpBatches') = TimesIn(j, PumpBatches) - m /\ m <= 1
    <3>1. /\ Replaced(Pumps, Good, PumpBatches, PumpBatches', p)
          /\ PumpBatches[p] = b /\ PumpBatches'[p] = <<>>
      BY <1>2, <1>3, <1>4, <1>5 DEF Replaced, PumpBatches
    <3>2. /\ TimesIn(j, PumpBatches')
                = TimesIn(j, PumpBatches) - Times(j, PumpBatches[p]) + Times(j, PumpBatches'[p])
          /\ Times(j, PumpBatches[p]) <= TimesIn(j, PumpBatches)
      BY <3>1, ThreadsAssumption, TimesInExcept
    <3>3. Times(j, PumpBatches[p]) = m /\ Times(j, PumpBatches'[p]) = 0
      BY <2>2, <3>1, NothingIn
    <3> QED BY <2>1, <3>2, <3>3 DEF Parts
  <2>4. PICK f \in Nat, g \in Nat, h \in Nat, i \in Nat :
          f = failed[j] /\ g = failed'[j] /\ h = inserted[j] /\ i = inserted'[j]
    BY <1>4, <1>6
  <2>5. AtEnd(j) = h + f /\ AtEnd(j)' = i + g
    BY <2>4 DEF AtEnd
  <2>6. /\ i = h + (IF j \in ToSet(b) \ NonObjects THEN 1 ELSE 0)
        /\ g = f + (IF j \in ToSet(b) \cap NonObjects THEN 1 ELSE 0)
    BY <1>3, <1>4, <2>4 DEF Count
  <2>7. i + g = h + f + m
    <3>1. CASE j \in ToSet(b)
      <4>1. m = 1
        BY <2>2, <2>3, <3>1
      <4> QED BY <2>6, <3>1, <4>1
    <3>2. CASE j \notin ToSet(b)
      BY <2>2, <2>6, <3>2
    <3> QED BY <3>1, <3>2
  <2>8. WithClients(j)' = WithClients(j) /\ WithPool(j)' = WithPool(j)
        /\ TimesIn(j, queue)' = TimesIn(j, queue)
    BY <1>3 DEF WithClients, WithPool, WorkBatches
  <2>9. WithPumps(j)' = WithPumps(j) - m
    BY <2>1, <2>3, <2>8 DEF Parts, WithPumps
  <2>10. AtEnd(j)' = AtEnd(j) + m
    BY <2>5, <2>7
  <2> QED BY <2>1, <2>8, <2>9, <2>10 DEF Parts
<1> QED BY <1>3, <1>6, <1>7, <1>8, <1>9, <1>10 DEF Steady

-----------------------------------------------------------------------------
(* Stopping.                                                               *)

LEMMA InterruptKeeps ==
    ASSUME IInv, Interrupt
    PROVE  Types' /\ Threads' /\ Hands' /\ Steady
<1>1. Types /\ Threads /\ Hands
  BY DEF IInv
<1>2. /\ main.calls > 0 /\ signal' = TRUE /\ queue' = Append(queue, <<>>)
      /\ main' = [main EXCEPT !.calls = @ - 1]
      /\ UNCHANGED <<unread, pc, data, bulk, sent, due, pool, work, pump, inserted, failed,
                     acceptor, quit, mainQuit>>
  BY DEF Interrupt, clientVars, poolVars, pumpVars
<1>3. queue \in Seq(Seq(Good)) /\ <<>> \in Seq(Good)
  BY <1>1 DEF Types
<1>4. queue' \in Seq(Seq(Good))
  BY <1>2, <1>3, AppendProperties
<1>5. main' \in [at : {"run", "interrupt", "destroy", "stopped"}, calls : 0 .. 2 * Cardinality(Pumps)]
  <2>1. PICK n \in Nat : n = Cardinality(Pumps)
    BY ThreadsAssumption, FS_CardinalityType
  <2>2. main \in [at : {"run", "interrupt", "destroy", "stopped"}, calls : 0 .. 2 * n]
    BY <1>1, <2>1 DEF Types
  <2> QED BY <1>2, <2>1, <2>2
<1>6. Types'
  BY <1>1, <1>2, <1>4, <1>5 DEF Types
<1>7. Threads'
  BY <1>2, ServerFrame
<1>8. Hands'
  BY <1>1, <1>2 DEF Hands
<1>9. ASSUME NEW j \in Items PROVE Total(j)' = Total(j)
  <2>1. Parts(j) /\ Parts(j)'
    BY <1>1, <1>6, Sums, SumsNext
  <2>2. TimesIn(j, queue') = TimesIn(j, queue)
    <3>1. TimesIn(j, Append(queue, <<>>)) = TimesIn(j, queue) + Times(j, <<>>)
      BY <1>3, TimesInAppend
    <3> QED BY <1>2, <2>1, <3>1, NothingIn DEF Parts
  <2>3. /\ WithClients(j)' = WithClients(j) /\ WithPool(j)' = WithPool(j)
        /\ AtEnd(j)' = AtEnd(j) /\ TimesIn(j, PumpBatches)' = TimesIn(j, PumpBatches)
    BY <1>2 DEF WithClients, WithPool, AtEnd, WorkBatches, PumpBatches
  <2>4. WithPumps(j)' = WithPumps(j)
    BY <2>2, <2>3 DEF WithPumps
  <2> QED BY <2>1, <2>3, <2>4 DEF Parts
<1>10. \A x \in Items \cup Clients : failed'[x] >= failed[x]
  BY <1>1, <1>2 DEF Types
<1> QED BY <1>2, <1>6, <1>7, <1>8, <1>9, <1>10 DEF Steady

\* What is left moves no item.
LEMMA StopKeeps ==
    ASSUME IInv, Stop \/ InterruptQuit \/ JoinPumps \/ JoinServer \/ AcceptInterrupted
    PROVE  Types' /\ Threads' /\ Hands' /\ Steady
<1>1. Types /\ Threads /\ Hands
  BY DEF IInv
<1>2. /\ UNCHANGED <<unread, pc, data, bulk, sent, due, pool, work, queue, pump, inserted, failed>>
      /\ quit' = quit \/ quit' = TRUE
  BY DEF Stop, InterruptQuit, JoinPumps, JoinServer, AcceptInterrupted,
         clientVars, poolVars, pumpVars
<1>3. acceptor' \in {"accept", "end"} /\ {signal', quit', mainQuit'} \subseteq BOOLEAN
  BY <1>1 DEF Types, Stop, InterruptQuit, JoinPumps, JoinServer, AcceptInterrupted, AcceptLoop
<1>4. main' \in [at : {"run", "interrupt", "destroy", "stopped"}, calls : 0 .. 2 * Cardinality(Pumps)]
  <2>1. PICK n \in Nat : n = Cardinality(Pumps) /\ n # 0
    BY ThreadsAssumption, FS_CardinalityType, FS_EmptySet
  <2>2. main \in [at : {"run", "interrupt", "destroy", "stopped"}, calls : 0 .. 2 * n]
    BY <1>1, <2>1 DEF Types
  <2>3. CASE main' = main
    BY <2>1, <2>2, <2>3
  <2>4. CASE Stop
    <3>1. PICK k \in StopCalls : main' = [at |-> "interrupt", calls |-> k]
      BY <2>4 DEF Stop
    <3>2. k \in 0 .. 2 * n
      BY <2>1, <3>1 DEF StopCalls
    <3> QED BY <2>1, <3>1, <3>2
  <2>5. CASE JoinPumps
    <3>1. main' = [at |-> "destroy", calls |-> 1] /\ 1 \in 0 .. 2 * n
      BY <2>1, <2>5 DEF JoinPumps
    <3> QED BY <2>1, <3>1
  <2>6. CASE JoinServer
    BY <2>1, <2>2, <2>6 DEF JoinServer
  <2> QED BY <2>3, <2>4, <2>5, <2>6 DEF InterruptQuit, AcceptInterrupted
<1>5. Types'
  BY <1>1, <1>2, <1>3, <1>4 DEF Types
<1>6. Threads'
  BY <1>2, ServerFrame
<1>7. Hands'
  BY <1>1, <1>2 DEF Hands
<1> QED BY <1>1, <1>2, <1>5, <1>6, <1>7, SteadyFrame

-----------------------------------------------------------------------------
(* The invariant of the items is inductive.                                *)

LEMMA ConservedStep ==
    ASSUME IInv, Types', Steady
    PROVE  Conserved'
<1>1. Types /\ Conserved
  BY DEF IInv
<1>2. ASSUME NEW j \in Items
      PROVE  /\ Total(j) \in Nat /\ Total(j)' \in Nat /\ Total(j)' <= 1
             /\ Total(j)' = Total(j) \/ quit
  <2>1. Parts(j) /\ Parts(j)' /\ Total(j) <= 1
    BY SumsNext, EachOnce
  <2>2. WithClients(j)' \in Nat /\ WithPool(j)' \in Nat /\ WithPumps(j)' \in Nat /\ AtEnd(j)' \in Nat
        /\ Total(j)' = WithClients(j)' + WithPool(j)' + WithPumps(j)' + AtEnd(j)'
    BY <2>1 DEF Parts
  <2>3. Total(j)' \in Nat /\ Total(j) \in Nat
    BY <2>1, <2>2 DEF Parts
  <2>4. Total(j)' = Total(j) \/ (quit /\ Total(j)' <= Total(j))
    BY DEF Steady
  <2> QED BY <2>1, <2>3, <2>4
<1>3. ASSUME NEW c \in Clients, NEW j \in ToSet(Stream[c]), Total(j)' = 0
      PROVE  quit' \/ failed'[c] > 0
  <2>1. j \in Items
    BY StreamFacts
  <2>2. CASE quit
    BY <2>2 DEF Steady
  <2>3. CASE ~ quit
    <3>1. Total(j) = 0
      BY <1>2, <1>3, <2>1, <2>3
    <3>2. failed[c] > 0
      BY <1>1, <2>3, <3>1 DEF Conserved
    <3>3. failed'[c] >= failed[c]
      BY DEF Steady
    <3>4. PICK m \in Nat, n \in Nat : m = failed[c] /\ n = failed'[c]
      BY <1>1 DEF Types
    <3>5. n > 0
      BY <3>2, <3>3, <3>4
    <3> QED BY <3>4, <3>5
  <2> QED BY <2>2, <2>3
<1>4. \A j \in Items : Total(j)' <= 1
  BY <1>2
<1> QED BY <1>3, <1>4 DEF Conserved

\* At first each item is in the stream of one client, once.
LEMMA FirstTotal ==
    ASSUME Init, NEW j \in Items
    PROVE  Total(j) = 1
<1>1. PICK c \in Clients : j \in ToSet(Stream[c])
  BY DEF Items
<1>2. PICK k \in DOMAIN Stream[c] : Stream[c][k] = j
  BY <1>1 DEF ToSet
<1>3. ASSUME NEW x \in Spots(j, Stream) PROVE x = <<c, k>>
  <2>1. PICK d \in DOMAIN Stream : \E i \in At(j, Stream[d]) : x = <<d, i>>
    BY SpotIn
  <2>2. PICK i \in At(j, Stream[d]) : x = <<d, i>>
    BY <2>1
  <2>3. d \in Clients /\ i \in DOMAIN Stream[d] /\ Stream[d][i] = j
    BY StreamAssumption DEF At
  <2>4. d = c
    BY <1>1, <2>3, StreamAssumption DEF ToSet
  <2>5. i = k
    <3>1. IsInjective(Stream[c])
      BY StreamAssumption
    <3> QED BY <1>2, <2>3, <2>4, <3>1 DEF IsInjective
  <2> QED BY <2>2, <2>4, <2>5
<1>4. <<c, k>> \in Spots(j, Stream)
  <2>1. c \in DOMAIN Stream /\ k \in At(j, Stream[c])
    BY <1>2, StreamAssumption DEF At
  <2> QED BY <2>1, SpotIn
<1>5. TimesIn(j, unread) = 1
  <2>1. Spots(j, Stream) = {<<c, k>>}
    BY <1>3, <1>4
  <2>2. TimesIn(j, Stream) = Cardinality(Spots(j, Stream))
    BY DEF TimesIn, Spots
  <2> QED BY <2>1, <2>2, FS_Singleton DEF Init
<1>6. ASSUME NEW F, \A b \in DOMAIN F : F[b] = <<>> PROVE TimesIn(j, F) = 0
  <2>1. Spots(j, F) = {}
    BY <1>6, SpotIn DEF At
  <2>2. TimesIn(j, F) = Cardinality(Spots(j, F))
    BY DEF TimesIn, Spots
  <2> QED BY <2>1, <2>2, FS_EmptySet
<1>7. /\ TimesIn(j, data) = 0 /\ TimesIn(j, bulk) = 0
  BY <1>6 DEF Init
<1>8. TimesIn(j, pool) = 0 /\ TimesIn(j, queue) = 0
  BY <1>6 DEF Init
<1>9. TimesIn(j, WorkBatches) = 0 /\ TimesIn(j, PumpBatches) = 0
  BY <1>6 DEF Init, WorkBatches, PumpBatches, Idle
<1>10. inserted[j] = 0 /\ failed[j] = 0
  BY DEF Init
<1> QED BY <1>5, <1>7, <1>8, <1>9, <1>10 DEF Total, Copies, WorkBatches, PumpBatches

LEMMA InitIInv == Init => IInv
<1> SUFFICES ASSUME Init PROVE IInv
  OBVIOUS
<1>1. Types
  <2>1. unread \in [Clients -> Seq(Items)] /\ data \in [Clients -> Seq(Items)]
    BY StreamAssumption DEF Init
  <2>2. bulk \in [Clients -> Seq(Items \ Refused)]
    BY DEF Init
  <2>3. /\ pc \in [Clients -> {"queued", "read", "data", "wait", "enqueue", "push", "end"}]
        /\ sent \in [Clients -> BOOLEAN] /\ due \in [Clients -> Int]
    BY DEF Init
  <2>4. pool \in Seq(Seq(Items \ Refused)) /\ queue \in Seq(Seq(Good))
    BY DEF Init
  <2>5. /\ work \in [Workers -> [at : {"idle", "push"}, batch : Seq(Good)]]
        /\ pump \in [Pumps -> [at : {"read", "insert", "end"}, batch : Seq(Good)]]
    BY DEF Init, Idle
  <2>6. acceptor \in {"accept", "end"} /\ {signal, quit, mainQuit} \subseteq BOOLEAN
    BY DEF Init
  <2>7. main \in [at : {"run", "interrupt", "destroy", "stopped"}, calls : 0 .. 2 * Cardinality(Pumps)]
    <3>1. PICK n \in Nat : n = Cardinality(Pumps)
      BY ThreadsAssumption, FS_CardinalityType
    <3>2. 0 \in 0 .. 2 * n
      OBVIOUS
    <3> QED BY <3>1, <3>2 DEF Init
  <2>8. inserted \in [Items -> Nat] /\ failed \in [Items \cup Clients -> Nat]
    BY DEF Init
  <2> QED BY <2>1, <2>2, <2>3, <2>4, <2>5, <2>6, <2>7, <2>8 DEF Types
<1>2. ASSUME NEW c \in Clients PROVE StreamOf(c) /\ ThreadAt(c)
  <2>1. /\ unread[c] = Stream[c] /\ data[c] = <<>> /\ bulk[c] = <<>>
        /\ pc[c] = "queued" /\ due[c] = 0
    BY DEF Init
  <2>2. Len(Stream[c]) \in Nat /\ DOMAIN Stream[c] = 1 .. Len(Stream[c])
    BY StreamFacts
  <2>3. PICK n \in Nat : n = Len(Stream[c])
    BY <2>2
  <2>4. Consumed(c) = 0
    BY <2>1, <2>3 DEF Consumed
  <2>5. StreamOf(c)
    <3>1. Len(data[c]) + Len(unread[c]) <= Len(Stream[c])
      BY <2>1, <2>3
    <3>2. ASSUME NEW i \in DOMAIN unread[c] PROVE unread[c][i] = Stream[c][Consumed(c) + i]
      BY <2>1, <2>2, <2>4
    <3>3. DOMAIN data[c] = {} /\ ToSet(bulk[c]) = {}
      BY <2>1 DEF ToSet
    <3> QED BY <3>1, <3>2, <3>3 DEF StreamOf
  <2>6. ThreadAt(c)
    <3>1. g_jsonChunkSize \in Nat \ {0} /\ MaxLag \in Nat
      BY LimitsAssumption
    <3>2. 0 >= -MaxLag /\ 0 <= g_jsonChunkSize /\ Len(<<>>) = 0
      BY <3>1
    <3> QED BY <2>1, <2>4, <3>2 DEF ThreadAt
  <2> QED BY <2>5, <2>6
<1>3. Hands
  BY DEF Init, Hands
<1>4. Conserved
  <2>1. \A j \in Items : Total(j) = 1
    BY FirstTotal
  <2>2. \A c \in Clients : ToSet(Stream[c]) \subseteq Items
    BY StreamFacts
  <2> QED BY <2>1, <2>2 DEF Conserved
<1> QED BY <1>1, <1>2, <1>3, <1>4 DEF IInv, Threads

LEMMA NextIInv ==
    ASSUME IInv, [Next]_vars
    PROVE  IInv'
<1>1. ASSUME Types' /\ Threads' /\ Hands' /\ Steady PROVE IInv'
  BY <1>1, ConservedStep DEF IInv
<1>2. CASE UNCHANGED vars
  <2>1. UNCHANGED <<unread, pc, data, bulk, sent, due, pool, work, queue, pump, inserted, failed,
                    acceptor, signal, quit, mainQuit, main>>
    BY <1>2 DEF vars, clientVars, poolVars, pumpVars, stopVars
  <2>2. Types' /\ Hands'
    BY <2>1 DEF IInv, Types, Hands
  <2>3. Threads'
    BY <2>1, ServerFrame
  <2>4. Steady
    BY <2>1, SteadyFrame DEF IInv
  <2> QED BY <1>1, <2>2, <2>3, <2>4
<1>3. ASSUME NEW c \in Clients, Read(c) \/ ServeClient(c) \/ Close(c) \/ Break(c) PROVE IInv'
  <2>1. CASE Break(c)
    BY <2>1, BreakKeeps DEF IInv
  <2>2. CASE Read(c) \/ Close(c)
    BY <1>1, <2>2, ReadKeeps, CloseKeeps
  <2>3. CASE ServeClient(c)
    BY <1>1, <2>3, TimeoutKeeps, SelectKeeps, EndOfDataKeeps, WaitForRoomKeeps, EnqueueBulkKeeps,
       PushRestKeeps DEF ServeClient
  <2> QED BY <1>3, <2>1, <2>2, <2>3
<1>4. ASSUME NEW w \in Workers, RunWorker(w) PROVE IInv'
  BY <1>1, <1>4, ParseKeeps, PushKeeps DEF RunWorker
<1>5. ASSUME NEW p \in Pumps, RunPump(p) PROVE IInv'
  BY <1>1, <1>5, ReadNextLogsKeeps, InsertLogsKeeps DEF RunPump
<1>6. CASE AcceptClient
  BY <1>1, <1>6, StopKeeps, AcceptKeeps DEF AcceptClient
<1>7. CASE Stop \/ StopProgram
  BY <1>1, <1>7, StopKeeps, InterruptKeeps DEF StopProgram
<1>8. CASE Tick
  BY <1>1, <1>8, TickKeeps
<1> QED BY <1>2, <1>3, <1>4, <1>5, <1>6, <1>7, <1>8 DEF Next

\* What the clients have sent is where it should be, in their order.
THEOREM Invariance == Spec => []IInv
<1>1. IInv /\ [Next]_vars => IInv'
  BY NextIInv
<1> QED BY InitIInv, <1>1, PTL DEF Spec

\* An item that was read is not among what is unread of any client.
LEMMA ReadOnce ==
    ASSUME IInv, NEW c \in Clients, NEW j \in ToSet(Stream[c]) \ ToSet(unread[c])
    PROVE  TimesIn(j, unread) = 0
<1>1. ASSUME NEW d \in Clients, NEW i \in At(j, unread[d]) PROVE FALSE
  <2>1. i \in DOMAIN unread[d] /\ unread[d][i] = j
    BY DEF At
  <2>2. StreamOf(d) /\ Consumed(d) \in Nat /\ Consumed(d) + Len(unread[d]) = Len(Stream[d])
        /\ DOMAIN unread[d] = 1 .. Len(unread[d]) /\ Len(unread[d]) \in Nat /\ Len(Stream[d]) \in Nat
    BY ClientFacts DEF IInv
  <2>3. PICK m \in Nat, n \in Nat : m = Len(unread[d]) /\ n = Len(Stream[d])
    BY <2>2
  <2>4. Consumed(d) + i \in 1 .. n
    BY <2>1, <2>2, <2>3
  <2>5. j = Stream[d][Consumed(d) + i]
    BY <2>1, <2>2 DEF StreamOf
  <2>6. j \in ToSet(Stream[d])
    BY <2>3, <2>4, <2>5, StreamFacts DEF ToSet
  <2>7. d = c
    BY <2>6, StreamAssumption
  <2> QED BY <2>1, <2>7 DEF ToSet
<1>2. DOMAIN unread = Clients
  BY DEF IInv, Types
<1>3. Spots(j, unread) = {}
  BY <1>1, <1>2, SpotIn
<1>4. TimesIn(j, unread) = Cardinality(Spots(j, unread))
  BY DEF TimesIn, Spots
<1> QED BY <1>3, <1>4, FS_EmptySet

\* From the socket of a client to the root node, through the bulk, the pool, the queue and
\* the pump, no item is ever at two places: and one that was read is somewhere, or
\* counted as an error, unless the server quits or its connection broke (TcpServer.cpp).
THEOREM NothingLostOrDoubled == Spec => []ItemsConserved
<1>1. IInv => ItemsConserved
  <2> SUFFICES ASSUME IInv, NEW c \in Clients, NEW j \in ToSet(Stream[c]) \ ToSet(unread[c])
               PROVE  Copies(j) <= 1 /\ (Copies(j) = 0 => quit \/ failed[c] > 0)
    BY DEF ItemsConserved
  <2>1. j \in Items
    BY StreamFacts
  <2>2. Total(j) = Copies(j) + TimesIn(j, unread) /\ TimesIn(j, unread) = 0
    BY ReadOnce DEF Total
  <2>3. Parts(j) /\ Total(j) <= 1
    BY <2>1, EachOnce
  <2>4. Copies(j) = Total(j)
    <3>1. /\ inserted \in [Items -> Nat] /\ failed \in [Items \cup Clients -> Nat]
      BY DEF IInv, Types
    <3>2. Copies(j) \in Int
      BY <2>1, <2>3, <3>1 DEF Parts, Copies, WorkBatches, PumpBatches
    <3> QED BY <2>2, <3>2
  <2> QED BY <2>3, <2>4 DEF IInv, Conserved
<1> QED BY <1>1, Invariance, PTL

-----------------------------------------------------------------------------
(* Sequences of batches, whatever is in them.                              *)

LEMMA AppendAny ==
    ASSUME NEW S, NEW s \in Seq(S), NEW e
    PROVE  Append(s, e) \in Seq(S \cup {e}) /\ Len(Append(s, e)) = Len(s) + 1
<1> DEFINE T == S \cup {e}
<1>1. s \in Seq(T) /\ e \in T
  OBVIOUS
<1> HIDE DEF T
<1>2. Append(s, e) \in Seq(T) /\ Len(Append(s, e)) = Len(s) + 1
  BY <1>1
<1> QED BY <1>2 DEF T

LEMMA ReadingIsFinite ==
    ASSUME IsFiniteSet(Pumps), NEW ps
    PROVE  /\ IsFiniteSet(Reading(ps))
           /\ Cardinality(Reading(ps)) \in Nat /\ Cardinality(Pumps) \in Nat
           /\ Cardinality(Reading(ps)) <= Cardinality(Pumps)
<1>1. Reading(ps) \subseteq Pumps
  BY DEF Reading
<1> QED BY <1>1, FS_Subset, FS_CardinalityType

-----------------------------------------------------------------------------
(* The steps, by what they do to the queue, the pumps and the main thread. *)

LEMMA InitWakeUps == Init => WakeUps
<1> SUFFICES ASSUME Init PROVE WakeUps
  OBVIOUS
<1>1. queue \in Seq({})
  BY DEF Init
<1>2. pump \in [Pumps -> [at : {"read", "insert", "end"}, batch : {<<>>}]]
  BY DEF Init
<1>3. main \in [at : {"run", "interrupt", "destroy", "stopped"}, calls : Nat] /\ ~mainQuit
  BY DEF Init
<1> QED BY <1>1, <1>2, <1>3 DEF WakeUps, Shape, EnoughWakeUps

\* Clients, workers and accept() at most append to the queue.
LEMMA OthersOnlyAppend ==
    ASSUME \/ \E c \in Clients : Read(c) \/ ServeClient(c) \/ Close(c) \/ Break(c)
           \/ \E w \in Workers : RunWorker(w)
           \/ AcceptClient \/ Tick
    PROVE  Grows /\ UNCHANGED <<pump, main, mainQuit>>
<1> USE DEF stopVars, pumpVars, Grows
<1>1. ASSUME NEW c \in Clients, Read(c) \/ Close(c) \/ Break(c)
      PROVE  Grows /\ UNCHANGED <<pump, main, mainQuit>>
  BY <1>1 DEF Read, Close, Break
<1>2. ASSUME NEW c \in Clients, ServeClient(c)
      PROVE  Grows /\ UNCHANGED <<pump, main, mainQuit>>
  BY <1>2 DEF ServeClient, Timeout, Select, EndOfData, WaitForRoom, EnqueueBulk, PushRest
<1>3. ASSUME NEW w \in Workers, RunWorker(w)
      PROVE  Grows /\ UNCHANGED <<pump, main, mainQuit>>
  BY <1>3 DEF RunWorker, Parse, Push
<1>4. CASE AcceptClient
  BY <1>4 DEF AcceptClient, AcceptInterrupted, Accept
<1>5. CASE Tick
  BY <1>5 DEF Tick
<1> QED BY <1>1, <1>2, <1>3, <1>4, <1>5

LEMMA GrowthWakes ==
    ASSUME WakeUps, IsFiniteSet(Pumps), Grows, UNCHANGED <<pump, main, mainQuit>>
    PROVE  WakeUps'
<1>1. PICK S : queue \in Seq(S)
  BY DEF WakeUps, Shape
<1>2. (\E T : queue' \in Seq(T)) /\ Len(queue') \in Nat /\ Len(queue') >= Len(queue)
  <2>1. CASE queue' = queue
    BY <1>1, <2>1
  <2>2. ASSUME NEW e, queue' = Append(queue, e)
        PROVE  (\E T : queue' \in Seq(T)) /\ Len(queue') \in Nat /\ Len(queue') >= Len(queue)
    <3>1. queue' \in Seq(S \cup {e}) /\ Len(queue') = Len(queue) + 1
      BY <1>1, <2>2, AppendAny
    <3>2. Len(queue) \in Nat
      BY <1>1
    <3> QED BY <3>1, <3>2
  <2> QED BY <2>1, <2>2 DEF Grows
<1>3. Shape'
  BY <1>2 DEF WakeUps, Shape
<1>4. EnoughWakeUps'
  <2> SUFFICES ASSUME mainQuit
               PROVE  Cardinality(Reading(pump)) <= Len(queue') + main.calls
    BY DEF EnoughWakeUps, Reading
  <2>1. Cardinality(Reading(pump)) <= Len(queue) + main.calls
    BY DEF WakeUps, EnoughWakeUps, Reading
  <2>2. Cardinality(Reading(pump)) \in Nat /\ Len(queue) \in Nat /\ main.calls \in Nat
    BY <1>1, ReadingIsFinite DEF WakeUps, Shape
  <2> QED BY <1>2, <2>1, <2>2
<1> QED BY <1>3, <1>4 DEF WakeUps

\* A pump that takes an entry does not wait for one any more.
LEMMA ReadNextLogsWakes ==
    ASSUME WakeUps, IsFiniteSet(Pumps), NEW p \in Pumps, ReadNextLogs(p)
    PROVE  WakeUps'
<1>1. PICK S : queue \in Seq(S)
  BY DEF WakeUps, Shape
<1>2. PICK B : pump \in [Pumps -> [at : {"read", "insert", "end"}, batch : B]]
  BY DEF WakeUps, Shape
<1>3. /\ pump[p].at = "read" /\ queue # <<>> /\ queue' = Tail(queue)
      /\ pump' = [pump EXCEPT ![p] = [at |-> "insert", batch |-> Head(queue)]]
      /\ main' = main /\ mainQuit' = mainQuit
  BY DEF ReadNextLogs, stopVars
<1>4. queue' \in Seq(S) /\ Len(queue') = Len(queue) - 1 /\ Len(queue) \in Nat
  BY <1>1, <1>3
<1>5. pump' \in [Pumps -> [at : {"read", "insert", "end"}, batch : B \cup {Head(queue)}]]
  BY <1>2, <1>3
<1>6. Reading(pump') = Reading(pump) \ {p} /\ p \in Reading(pump)
  BY <1>2, <1>3 DEF Reading
<1>7. Cardinality(Reading(pump')) = Cardinality(Reading(pump)) - 1
  BY <1>6, ReadingIsFinite, FS_RemoveElement
<1>8. EnoughWakeUps'
  <2> SUFFICES ASSUME mainQuit
               PROVE  Cardinality(Reading(pump')) <= Len(queue') + main.calls
    BY <1>3 DEF EnoughWakeUps, Reading
  <2>1. Cardinality(Reading(pump)) <= Len(queue) + main.calls
    BY DEF WakeUps, EnoughWakeUps, Reading
  <2>2. Cardinality(Reading(pump)) \in Nat /\ main.calls \in Nat
    BY ReadingIsFinite DEF WakeUps, Shape
  <2> QED BY <1>4, <1>7, <2>1, <2>2
<1>9. Shape'
  BY <1>3, <1>4, <1>5 DEF WakeUps, Shape
<1> QED BY <1>8, <1>9 DEF WakeUps

\* A pump that has seen mainQuit ends; no pump begins to wait then.
LEMMA InsertLogsWakes ==
    ASSUME WakeUps, IsFiniteSet(Pumps), NEW p \in Pumps, InsertLogs(p)
    PROVE  WakeUps'
<1>1. PICK B : pump \in [Pumps -> [at : {"read", "insert", "end"}, batch : B]]
  BY DEF WakeUps, Shape
<1>2. /\ pump[p].at = "insert" /\ queue' = queue /\ main' = main /\ mainQuit' = mainQuit
      /\ pump' = [pump EXCEPT ![p] = [at |-> IF mainQuit THEN "end" ELSE "read", batch |-> <<>>]]
  BY DEF InsertLogs, stopVars
<1>3. pump' \in [Pumps -> [at : {"read", "insert", "end"}, batch : B \cup {<<>>}]]
  BY <1>1, <1>2
<1>4. mainQuit => Reading(pump') = Reading(pump)
  BY <1>1, <1>2 DEF Reading
<1>5. EnoughWakeUps'
  BY <1>2, <1>4 DEF WakeUps, EnoughWakeUps, Reading
<1>6. Shape'
  BY <1>2, <1>3 DEF WakeUps, Shape
<1> QED BY <1>5, <1>6 DEF WakeUps

\* stop() will call interrupt() once for each pump at least.
LEMMA StopWakes ==
    ASSUME WakeUps, IsFiniteSet(Pumps), Stop
    PROVE  WakeUps'
<1>1. Cardinality(Pumps) \in Nat
  BY ReadingIsFinite
<1>2. PICK n \in StopCalls : main' = [at |-> "interrupt", calls |-> n]
  BY DEF Stop
<1>3. n \in Nat /\ n >= Cardinality(Pumps)
  BY <1>1, <1>2 DEF StopCalls
<1>4. queue' = queue /\ pump' = pump
  BY DEF Stop, pumpVars
<1>5. Len(queue) \in Nat
  BY DEF WakeUps, Shape
<1>6. main'.calls = n
  BY <1>2
<1>7. Cardinality(Reading(pump)) <= Len(queue) + n
  BY <1>1, <1>3, <1>5, ReadingIsFinite
<1>8. Shape'
  BY <1>2, <1>3, <1>4 DEF WakeUps, Shape
<1> QED BY <1>4, <1>6, <1>7, <1>8 DEF WakeUps, EnoughWakeUps, Reading

\* A call of interrupt() that is made becomes an entry of the queue.
LEMMA StopProgramWakes ==
    ASSUME WakeUps, IsFiniteSet(Pumps), StopProgram
    PROVE  WakeUps'
<1>1. PICK S : queue \in Seq(S)
  BY DEF WakeUps, Shape
<1>2. Len(queue) \in Nat /\ main.calls \in Nat /\ Cardinality(Reading(pump)) \in Nat
  BY <1>1, ReadingIsFinite DEF WakeUps, Shape
<1>3. CASE InterruptQuit
  BY <1>3, GrowthWakes DEF InterruptQuit, Grows, pumpVars
<1>4. CASE Interrupt
  <2>1. /\ queue' = Append(queue, <<>>) /\ main' = [main EXCEPT !.calls = @ - 1]
        /\ main.calls > 0 /\ pump' = pump /\ mainQuit' = mainQuit
    BY <1>4 DEF Interrupt, pumpVars
  <2>2. queue' \in Seq(S \cup {<<>>}) /\ Len(queue') = Len(queue) + 1
    BY <1>1, <2>1, AppendAny
  <2>3. /\ main' \in [at : {"run", "interrupt", "destroy", "stopped"}, calls : Nat]
        /\ main'.calls = main.calls - 1
    BY <1>2, <2>1 DEF WakeUps, Shape
  <2>4. Shape'
    BY <2>1, <2>2, <2>3 DEF WakeUps, Shape
  <2>5. EnoughWakeUps'
    <3> SUFFICES ASSUME mainQuit
                 PROVE  Cardinality(Reading(pump)) <= Len(queue') + main'.calls
      BY <2>1 DEF EnoughWakeUps, Reading
    <3>1. Cardinality(Reading(pump)) <= Len(queue) + main.calls
      BY DEF WakeUps, EnoughWakeUps, Reading
    <3> QED BY <1>2, <2>2, <2>3, <3>1
  <2> QED BY <2>4, <2>5 DEF WakeUps
<1>5. CASE JoinPumps
  <2>1. /\ queue' = queue /\ pump' = pump /\ main' = [at |-> "destroy", calls |-> 1]
        /\ \A p \in Pumps : pump[p].at = "end"
    BY <1>5 DEF JoinPumps, pumpVars
  <2>2. Cardinality(Reading(pump)) = 0
    BY <2>1, FS_EmptySet DEF Reading
  <2>3. Cardinality(Reading(pump)) <= Len(queue') + main'.calls
    BY <1>2, <2>1, <2>2
  <2> QED BY <2>1, <2>3 DEF WakeUps, Shape, EnoughWakeUps, Reading
<1>6. CASE JoinServer
  <2>1. /\ queue' = queue /\ pump' = pump /\ mainQuit' = mainQuit
        /\ main' \in [at : {"run", "interrupt", "destroy", "stopped"}, calls : Nat]
        /\ main'.calls = main.calls
    BY <1>6 DEF JoinServer, pumpVars, WakeUps, Shape
  <2> QED BY <2>1 DEF WakeUps, Shape, EnoughWakeUps
<1> QED BY <1>3, <1>4, <1>5, <1>6 DEF StopProgram

LEMMA NextWakeUps ==
    ASSUME WakeUps, IsFiniteSet(Pumps), [Next]_vars
    PROVE  WakeUps'
<1>1. CASE UNCHANGED vars
  BY <1>1, GrowthWakes DEF vars, pumpVars, stopVars, Grows
<1>2. CASE Next
  <2>1. CASE \/ \E c \in Clients : Read(c) \/ ServeClient(c) \/ Close(c) \/ Break(c)
             \/ \E w \in Workers : RunWorker(w)
             \/ AcceptClient \/ Tick
    BY <2>1, OthersOnlyAppend, GrowthWakes
  <2>2. ASSUME NEW p \in Pumps, RunPump(p)
        PROVE  WakeUps'
    BY <2>2, ReadNextLogsWakes, InsertLogsWakes DEF RunPump
  <2>3. CASE Stop
    BY <2>3, StopWakes
  <2>4. CASE StopProgram
    BY <2>4, StopProgramWakes
  <2> QED BY <1>2, <2>1, <2>2, <2>3, <2>4 DEF Next
<1> QED BY <1>1, <1>2

-----------------------------------------------------------------------------
\* However many data pumps there are, from the moment the program is told to stop
\* each that can still wait in readNextLogs(), which has no timeout, has an entry
\* of the queue or a call of interrupt() to come: none sleeps through the join
\* (Main::stop(), TcpServer::interrupt()).
THEOREM EveryPumpIsWoken == Spec => []EnoughWakeUps
<1>1. WakeUps /\ [Next]_vars => WakeUps'
  BY NextWakeUps, ThreadsAssumption
<1>2. WakeUps => EnoughWakeUps
  BY DEF WakeUps
<1> QED BY InitWakeUps, <1>1, <1>2, PTL DEF Spec

-----------------------------------------------------------------------------
(* The types, which hold the order of each stream.                         *)

LEMMA SuffixByPlace ==
    ASSUME NEW S, NEW s \in Seq(S), NEW t \in Seq(S), NEW k \in Nat, Len(t) = Len(s) + k,
           \A i \in 1 .. Len(s) : s[i] = t[k + i]
    PROVE  IsSuffix(s, t)
<1>1. PICK m \in Nat, n \in Nat : m = Len(s) /\ n = Len(t)
  BY LenProperties
<1>2. n = m + k /\ \A i \in 1 .. m : s[i] = t[k + i]
  BY <1>1
<1>3. PICK p, q : p = Reverse(s) /\ q = Reverse(t)
  OBVIOUS
<1>4. p = [i \in 1 .. m |-> s[m - i + 1]] /\ q = [i \in 1 .. n |-> t[n - i + 1]]
  BY <1>1, <1>3 DEF Reverse
<1>5. \A i \in 1 .. m : m - i + 1 \in 1 .. m /\ s[m - i + 1] \in S
  BY <1>1, ElementOfSeq
<1>6. \A i \in 1 .. n : n - i + 1 \in 1 .. n /\ t[n - i + 1] \in S
  BY <1>1, ElementOfSeq
<1>7. p \in Seq(S) /\ Len(p) = m /\ q \in Seq(S) /\ Len(q) = n
  <2>1. p \in [1 .. m -> S]
    BY <1>4, <1>5
  <2>2. p \in Seq(S) /\ Len(p) = m
    <3>1. p \in Seq(S)
      BY <2>1, SeqDef
    <3>2. PICK l \in Nat : l = Len(p) /\ 1 .. l = DOMAIN p
      BY <3>1, LenProperties
    <3>3. 1 .. l = 1 .. m
      BY <2>1, <3>2
    <3>4. l = m
      BY <3>3
    <3> QED BY <3>1, <3>2, <3>4
  <2>3. q \in [1 .. n -> S]
    BY <1>4, <1>6
  <2>4. q \in Seq(S) /\ Len(q) = n
    <3>1. q \in Seq(S)
      BY <2>3, SeqDef
    <3>2. PICK l \in Nat : l = Len(q) /\ 1 .. l = DOMAIN q
      BY <3>1, LenProperties
    <3>3. 1 .. l = 1 .. n
      BY <2>3, <3>2
    <3>4. l = n
      BY <3>3
    <3> QED BY <3>1, <3>2, <3>4
  <2> QED BY <2>2, <2>4
<1>8. \A i \in 1 .. m : p[i] = q[i]
  <2> TAKE i \in 1 .. m
  <2>1. p[i] = s[m - i + 1] /\ m - i + 1 \in 1 .. m
    BY <1>4, <1>5
  <2>2. s[m - i + 1] = t[k + (m - i + 1)]
    BY <1>2, <2>1
  <2>3. i \in 1 .. n /\ k + (m - i + 1) = n - i + 1
    BY <1>2
  <2> QED BY <1>4, <2>1, <2>2, <2>3
<1>9. \A i \in 1 .. m : p[i] \in S /\ q[i] \in S
  BY <1>2, <1>7, <1>8, ElementOfSeq
<1>10. /\ SubSeq(p, 1, m) \in Seq(S) /\ Len(SubSeq(p, 1, m)) = m
       /\ \A i \in 1 .. m : SubSeq(p, 1, m)[i] = p[i]
  BY <1>9, SubSeqProperties
<1>11. /\ SubSeq(q, 1, m) \in Seq(S) /\ Len(SubSeq(q, 1, m)) = m
       /\ \A i \in 1 .. m : SubSeq(q, 1, m)[i] = q[i]
  BY <1>9, SubSeqProperties
<1>12. SubSeq(p, 1, m) = SubSeq(q, 1, m)
  BY <1>8, <1>10, <1>11, SeqEqual
<1> QED BY <1>2, <1>3, <1>7, <1>12 DEF IsSuffix, IsPrefix

\* The data in the buffer and what was not read yet are the end of the stream.
LEMMA RestOfStream ==
    ASSUME Types, Threads, NEW c \in Clients
    PROVE  IsSuffix(data[c] \o unread[c], Stream[c])
<1>1. PICK d, u, s : d = data[c] /\ u = unread[c] /\ s = Stream[c]
  OBVIOUS
<1>2. d \in Seq(Items) /\ u \in Seq(Items) /\ s \in Seq(Items)
  BY <1>1, ClientFacts, StreamFacts
<1>3. PICK m \in Nat, n \in Nat, l \in Nat : m = Len(d) /\ n = Len(u) /\ l = Len(s)
  BY <1>2, LenProperties
<1>4. /\ Consumed(c) \in Nat /\ Consumed(c) + n = l /\ m <= Consumed(c)
      /\ \A i \in 1 .. n : u[i] = s[Consumed(c) + i]
      /\ \A i \in 1 .. m : d[i] = s[Consumed(c) - m + i]
  <2>1. /\ StreamOf(c) /\ Consumed(c) \in Nat /\ Consumed(c) + Len(unread[c]) = Len(Stream[c])
        /\ Len(data[c]) <= Consumed(c)
        /\ DOMAIN unread[c] = 1 .. Len(unread[c]) /\ DOMAIN data[c] = 1 .. Len(data[c])
    BY ClientFacts
  <2> QED BY <1>1, <1>3, <2>1 DEF StreamOf
<1>5. PICK v : v = d \o u
  OBVIOUS
<1>6. /\ v \in Seq(Items) /\ Len(v) = m + n
      /\ \A i \in 1 .. m + n : v[i] = IF i <= m THEN d[i] ELSE u[i - m]
  BY <1>2, <1>3, <1>5, ConcatProperties
<1>7. PICK k \in Nat : k = Consumed(c) - m
  BY <1>4
<1>8. ASSUME NEW i \in 1 .. Len(v) PROVE v[i] = s[k + i]
  <2>1. i \in 1 .. m + n
    BY <1>6
  <2>2. CASE i <= m
    <3>1. i \in 1 .. m /\ v[i] = d[i]
      BY <1>6, <2>1, <2>2
    <3> QED BY <1>4, <1>7, <3>1
  <2>3. CASE ~ (i <= m)
    <3>1. i - m \in 1 .. n /\ v[i] = u[i - m]
      BY <1>6, <2>1, <2>3
    <3>2. Consumed(c) + (i - m) = k + i
      BY <1>4, <1>7, <2>1
    <3> QED BY <1>4, <3>1, <3>2
  <2> QED BY <2>2, <2>3
<1>9. Len(s) = Len(v) + k
  BY <1>3, <1>4, <1>6, <1>7
<1>10. IsSuffix(v, s)
  BY <1>2, <1>6, <1>8, <1>9, SuffixByPlace
<1> QED BY <1>1, <1>5, <1>10

LEMMA InSeq ==
    ASSUME NEW S, NEW s \in Seq(Seq(S)), NEW i \in DOMAIN s
    PROVE  ToSet(s[i]) \subseteq S
<1>1. s[i] \in Seq(S)
  BY LenProperties, ElementOfSeq
<1> QED BY <1>1, LenProperties, ElementOfSeq DEF ToSet

LEMMA IInvTypeOK == IInv => TypeOK
<1> SUFFICES ASSUME IInv PROVE TypeOK
  OBVIOUS
<1>1. Types /\ Threads /\ Hands
  BY DEF IInv
<1>2. ASSUME NEW c \in Clients
      PROVE  /\ IsSuffix(data[c] \o unread[c], Stream[c])
             /\ pc[c] \in {"queued", "read", "data", "wait", "enqueue", "push", "end"}
             /\ quit \/ Len(bulk[c]) <= g_jsonChunkSize
             /\ sent[c] \in BOOLEAN
             /\ due[c] \in -MaxLag .. Len(Stream[c]) + 1
  <2>1. due[c] \in -MaxLag .. Len(Stream[c]) + 1
    <3>1. /\ due[c] \in Int /\ ThreadAt(c) /\ Consumed(c) \in Nat /\ Len(unread[c]) \in Nat
          /\ Consumed(c) + Len(unread[c]) = Len(Stream[c]) /\ MaxLag \in Nat /\ Len(Stream[c]) \in Nat
      BY <1>1, ClientFacts
    <3>2. PICK n \in Nat, l \in Nat, x \in Int : n = Len(unread[c]) /\ l = Len(Stream[c]) /\ x = due[c]
      BY <3>1
    <3>3. x >= -MaxLag /\ x <= Consumed(c) + 1
      BY <3>1, <3>2 DEF ThreadAt
    <3>4. x \in -MaxLag .. l + 1
      BY <3>1, <3>2, <3>3
    <3> QED BY <3>2, <3>4
  <2>2. quit \/ Len(bulk[c]) <= g_jsonChunkSize
    BY <1>1 DEF Threads, ThreadAt
  <2>3. pc[c] \in {"queued", "read", "data", "wait", "enqueue", "push", "end"} /\ sent[c] \in BOOLEAN
    BY <1>1 DEF Types
  <2> QED BY <1>1, <2>1, <2>2, <2>3, RestOfStream
<1>3. \A i \in DOMAIN pool : ToSet(pool[i]) \subseteq Items
  BY <1>1, InSeq DEF Types
<1>4. \A i \in DOMAIN queue : ToSet(queue[i]) \subseteq Items \ (Broken \cup Refused)
  BY <1>1, InSeq DEF Types, Good
<1>5. /\ \A w \in Workers : work[w].at \in {"idle", "push"}
      /\ \A p \in Pumps : pump[p].at \in {"read", "insert", "end"}
      /\ acceptor \in {"accept", "end"} /\ {signal, quit, mainQuit} \subseteq BOOLEAN
      /\ main.at \in {"run", "interrupt", "destroy", "stopped"}
      /\ main.calls \in 0 .. 2 * Cardinality(Pumps)
  BY <1>1 DEF Types
<1>6. \A j \in Items : inserted[j] = 0 \/ j \notin Refused \cup Broken \cup NonObjects
  BY <1>1 DEF Hands, Good
<1> QED BY <1>2, <1>3, <1>4, <1>5, <1>6 DEF TypeOK

\* Every type of the server holds, and with them that a client's items stay in order
\* while they are its own, that only what parses is queued and only objects are inserted;
\* and there are enough calls of interrupt() for the pumps.
THEOREM ServerInvariant == Spec => []Inv
<1>1. Spec => []TypeOK
  BY IInvTypeOK, Invariance, PTL
<1> QED BY <1>1, EveryPumpIsWoken, PTL DEF Inv

-----------------------------------------------------------------------------
(* The selector, over a stream of any length.                              *)

\* A set with zero and with every successor in it has all numbers.
LEMMA SetInduction ==
    ASSUME NEW S, 0 \in S, \A n \in Nat : n \in S => n + 1 \in S
    PROVE  Nat \subseteq S
<1> DEFINE Bad == {n \in Nat : n \notin S}
<1> SUFFICES ASSUME Bad # {} PROVE FALSE
  OBVIOUS
<1>1. IsWellFoundedOn(OpToRel(<, Nat), Nat)
  BY NatLessThanWellFounded
<1>2. PICK n \in Bad : \A m \in Bad : <<m, n>> \notin OpToRel(<, Nat)
  <2>1. Bad \subseteq Nat
    OBVIOUS
  <2> HIDE DEF Bad
  <2> QED BY <1>1, <2>1, WFMin
<1>3. n \in Nat /\ n # 0 /\ n - 1 \in Nat
  OBVIOUS
<1>4. n - 1 \notin S
  <2>1. n = (n - 1) + 1
    BY <1>3
  <2> QED BY <1>3, <2>1
<1>5. <<n - 1, n>> \in OpToRel(<, Nat)
  BY <1>3 DEF OpToRel
<1> QED BY <1>2, <1>3, <1>4, <1>5

\* What the selector may be like between two characters.
Selectors == [inString : BOOLEAN, pass : BOOLEAN, objects : Int, arrays : Int, buffer : Seq(Chars)]
Pieces    == [is : {"json", "error"}, text : Seq(Chars)]
Cuts      == Seq(Pieces)
States    == [selector : Selectors, items : Cuts]

LEMMA UpdateType ==
    ASSUME NEW hardBreak \in BOOLEAN, NEW s \in Selectors, NEW c \in Chars
    PROVE  Update(hardBreak, s, c) \in Selectors
<1>1. Append(s.buffer, c) \in Seq(Chars)
  BY DEF Selectors
<1>2. InString(s, c) \in Selectors
  BY <1>1 DEF InString, Selectors
<1>3. Outside(s, c) \in Selectors
  <2>1. Deeper(c, "{", "}") \in Int /\ Deeper(c, "[", "]") \in Int
    BY DEF Deeper
  <2>2. PICK o \in Int, a \in Int : o = Deeper(c, "{", "}") /\ a = Deeper(c, "[", "]")
    BY <2>1, Zenon
  <2>3. s.objects + o \in Int /\ s.arrays + a \in Int
    BY DEF Selectors
  <2> QED BY <1>1, <2>2, <2>3 DEF Outside, Selectors
<1>4. Character(s, c) \in Selectors
  BY <1>2, <1>3 DEF Character
<1>5. Outermost(s.buffer) \in Selectors
  BY DEF Outermost, Selectors
<1> QED BY <1>4, <1>5 DEF Update

LEMMA ReceiveType ==
    ASSUME NEW hardBreak \in BOOLEAN, NEW state \in States, NEW c \in Chars
    PROVE  Receive(hardBreak, state, c) \in States
<1> DEFINE s == state.selector
<1>1. s \in Selectors /\ state.items \in Cuts
  BY DEF States
<1>2. Start \in Selectors
  BY DEF Start, Outermost, Selectors
<1>3. Append(s.buffer, c) \in Seq(Chars)
  BY <1>1 DEF Selectors
<1>4. Update(hardBreak, s, c) \in Selectors
  <2> HIDE DEF s
  <2> QED BY <1>1, UpdateType
<1>5. Update(hardBreak, s, c).buffer \in Seq(Chars)
  BY <1>4 DEF Selectors
<1>6. \A t \in Seq(Chars) : Append(state.items, Item(t)) \in Cuts /\ Append(state.items, Error(t)) \in Cuts
  BY <1>1 DEF Cuts, Pieces, Item, Error
<1> HIDE DEF s
<1> QED BY <1>1, <1>2, <1>3, <1>4, <1>5, <1>6 DEF Receive, States, s

\* f has the states from one character to the next.
Trace(hardBreak, state, stream, f) ==
    /\ f[0] = state
    /\ \A n \in 1 .. Len(stream) : f[n] = Receive(hardBreak, f[n - 1], stream[n])

LEMMA TraceExists ==
    ASSUME NEW hardBreak \in BOOLEAN, NEW state \in States, NEW stream \in Seq(Chars)
    PROVE  \E f \in [0 .. Len(stream) -> States] : Trace(hardBreak, state, stream, f)
<1> DEFINE To(n, f) == /\ f[0] = state
                       /\ \A i \in 1 .. n : f[i] = Receive(hardBreak, f[i - 1], stream[i])
           S == {n \in Nat : n <= Len(stream) => \E f \in [0 .. n -> States] : To(n, f)}
<1>1. Len(stream) \in Nat
  OBVIOUS
<1>2. 0 \in S
  <2> DEFINE f == [i \in 0 .. 0 |-> state]
  <2>1. f \in [0 .. 0 -> States] /\ To(0, f)
    OBVIOUS
  <2> QED BY <2>1
<1>3. ASSUME NEW n \in Nat, n \in S PROVE n + 1 \in S
  <2> SUFFICES ASSUME n + 1 <= Len(stream)
               PROVE  \E f \in [0 .. n + 1 -> States] : To(n + 1, f)
    OBVIOUS
  <2>1. PICK g \in [0 .. n -> States] : To(n, g)
    BY <1>1, <1>3
  <2>2. stream[n + 1] \in Chars /\ g[n] \in States
    BY <1>1
  <2>3. Receive(hardBreak, g[n], stream[n + 1]) \in States
    BY <2>2, ReceiveType
  <2> DEFINE f == [i \in 0 .. n + 1 |-> IF i <= n THEN g[i] ELSE Receive(hardBreak, g[n], stream[n + 1])]
  <2>4. f \in [0 .. n + 1 -> States]
    BY <2>3
  <2>5. f[0] = state
    BY <2>1
  <2>6. ASSUME NEW i \in 1 .. n + 1 PROVE f[i] = Receive(hardBreak, f[i - 1], stream[i])
    <3>1. CASE i <= n
      <4>1. f[i] = g[i] /\ f[i - 1] = g[i - 1] /\ i \in 1 .. n
        BY <3>1
      <4> QED BY <2>1, <4>1
    <3>2. CASE i = n + 1
      <4>1. f[i] = Receive(hardBreak, g[n], stream[n + 1]) /\ f[i - 1] = g[n]
        BY <3>2
      <4> QED BY <3>2, <4>1
    <3> QED BY <3>1, <3>2
  <2> HIDE DEF f
  <2> QED BY <2>4, <2>5, <2>6
<1>4. Len(stream) \in S
  <2> HIDE DEF S
  <2>1. Nat \subseteq S
    BY <1>2, <1>3, SetInduction
  <2> QED BY <1>1, <2>1
<1> QED BY <1>1, <1>4 DEF Trace

\* There is one trace of a stream, and it ends where Run does.
LEMMA TraceIsRun ==
    ASSUME NEW hardBreak \in BOOLEAN, NEW state \in States, NEW stream \in Seq(Chars),
           NEW f, Trace(hardBreak, state, stream, f)
    PROVE  Run(hardBreak, state, stream) = f[Len(stream)]
<1> DEFINE Solves(g) == g = [n \in 0 .. Len(stream) |->
                              IF n = 0 THEN state ELSE Receive(hardBreak, g[n - 1], stream[n])]
           after == CHOOSE g : Solves(g)
<1>1. Len(stream) \in Nat
  OBVIOUS
<1>2. PICK h \in [0 .. Len(stream) -> States] : Trace(hardBreak, state, stream, h)
  BY TraceExists
<1>3. Solves(h)
  <2>1. ASSUME NEW n \in 0 .. Len(stream)
        PROVE  h[n] = IF n = 0 THEN state ELSE Receive(hardBreak, h[n - 1], stream[n])
    BY <1>1, <1>2 DEF Trace
  <2> QED BY <2>1
<1>4. Solves(after)
  <2> HIDE DEF Solves
  <2> QED BY <1>3
<1>5. Run(hardBreak, state, stream) = after[Len(stream)]
  BY DEF Run
<1> HIDE DEF after
<1> DEFINE S == {n \in Nat : n <= Len(stream) => after[n] = f[n]}
<1>6. 0 \in S
  <2>1. after[0] = state
    BY <1>1, <1>4
  <2> QED BY <2>1 DEF Trace
<1>7. ASSUME NEW n \in Nat, n \in S PROVE n + 1 \in S
  <2> SUFFICES ASSUME n + 1 <= Len(stream) PROVE after[n + 1] = f[n + 1]
    OBVIOUS
  <2>1. n + 1 \in 0 .. Len(stream) /\ n + 1 # 0 /\ (n + 1) - 1 = n /\ n + 1 \in 1 .. Len(stream)
    BY <1>1
  <2>2. after[n + 1] = Receive(hardBreak, after[n], stream[n + 1])
    BY <1>4, <2>1
  <2>3. f[n + 1] = Receive(hardBreak, f[n], stream[n + 1])
    BY <2>1 DEF Trace
  <2>4. after[n] = f[n]
    BY <1>1, <1>7
  <2> QED BY <2>2, <2>3, <2>4
<1>8. Len(stream) \in S
  <2> HIDE DEF S
  <2>1. Nat \subseteq S
    BY <1>6, <1>7, SetInduction
  <2> QED BY <1>1, <2>1
<1> QED BY <1>1, <1>5, <1>8

LEMMA RunType ==
    ASSUME NEW hardBreak \in BOOLEAN, NEW state \in States, NEW stream \in Seq(Chars)
    PROVE  Run(hardBreak, state, stream) \in States
<1>1. PICK f \in [0 .. Len(stream) -> States] : Trace(hardBreak, state, stream, f)
  BY TraceExists
<1>2. Run(hardBreak, state, stream) = f[Len(stream)]
  BY <1>1, TraceIsRun
<1> QED BY <1>2

\* The server goes on where it was: nothing depends on how much is read at a time.
LEMMA RunConcat ==
    ASSUME NEW hardBreak \in BOOLEAN, NEW state \in States,
           NEW first \in Seq(Chars), NEW then \in Seq(Chars)
    PROVE  Run(hardBreak, state, first \o then) =
              Run(hardBreak, Run(hardBreak, state, first), then)
<1> DEFINE stream == first \o then
           m == Len(first)
<1>1. /\ stream \in Seq(Chars) /\ m \in Nat /\ Len(then) \in Nat /\ Len(stream) = m + Len(then)
      /\ \A n \in 1 .. m : stream[n] = first[n]
      /\ \A n \in 1 .. Len(then) : stream[m + n] = then[n]
  BY ConcatProperties
<1> HIDE DEF stream, m
<1>2. PICK f \in [0 .. Len(stream) -> States] : Trace(hardBreak, state, stream, f)
  BY <1>1, TraceExists
<1>3. \A n \in 1 .. m + Len(then) : f[n] = Receive(hardBreak, f[n - 1], stream[n])
  BY <1>1, <1>2 DEF Trace
<1>4. Trace(hardBreak, state, first, f)
  <2>1. ASSUME NEW n \in 1 .. m PROVE f[n] = Receive(hardBreak, f[n - 1], first[n])
    BY <1>1, <1>3
  <2> QED BY <1>2, <2>1 DEF Trace, m
<1>5. Run(hardBreak, state, first) = f[m]
  BY <1>4, TraceIsRun DEF m
<1> DEFINE g == [n \in 0 .. Len(then) |-> f[m + n]]
<1>6. Trace(hardBreak, f[m], then, g)
  <2>1. g[0] = f[m]
    BY <1>1
  <2>2. ASSUME NEW n \in 1 .. Len(then) PROVE g[n] = Receive(hardBreak, g[n - 1], then[n])
    <3>1. m + n \in 1 .. m + Len(then) /\ (m + n) - 1 = m + (n - 1) /\ n - 1 \in 0 .. Len(then)
      BY <1>1
    <3>2. f[m + n] = Receive(hardBreak, f[m + (n - 1)], stream[m + n])
      BY <1>3, <3>1
    <3> QED BY <1>1, <3>1, <3>2
  <2> HIDE DEF g
  <2> QED BY <2>1, <2>2 DEF Trace
<1>7. f[m] \in States /\ Run(hardBreak, f[m], then) = g[Len(then)]
  <2>1. f[m] \in States
    BY <1>1
  <2> HIDE DEF g
  <2> QED BY <1>6, <2>1, TraceIsRun
<1>8. Run(hardBreak, state, stream) = f[Len(stream)]
  BY <1>1, <1>2, TraceIsRun
<1> QED BY <1>1, <1>5, <1>7, <1>8 DEF stream

LEMMA RunOne ==
    ASSUME NEW hardBreak \in BOOLEAN, NEW state \in States, NEW c \in Chars
    PROVE  /\ Run(hardBreak, state, <<c>>) = Receive(hardBreak, state, c)
           /\ Run(hardBreak, state, <<>>) = state
<1>1. PICK f \in [0 .. Len(<<c>>) -> States] : Trace(hardBreak, state, <<c>>, f)
  BY TraceExists, <<c>> \in Seq(Chars)
<1>2. Run(hardBreak, state, <<c>>) = f[1]
  BY <1>1, TraceIsRun, <<c>> \in Seq(Chars), Len(<<c>>) = 1
<1>3. f[1] = Receive(hardBreak, f[1 - 1], <<c>>[1]) /\ f[0] = state
  BY <1>1 DEF Trace
<1>4. PICK g \in [0 .. Len(<<>>) -> States] : Trace(hardBreak, state, <<>>, g)
  BY TraceExists, <<>> \in Seq(Chars)
<1>5. Run(hardBreak, state, <<>>) = g[0] /\ g[0] = state
  BY <1>4, TraceIsRun, <<>> \in Seq(Chars), Len(<<>>) = 0 DEF Trace
<1> QED BY <1>2, <1>3, <1>5

-----------------------------------------------------------------------------
(* What a text does, whatever came out before it.                          *)

St(selector, items) == [selector |-> selector, items |-> items]

\* From the selector s the text leads to t, and the items come out.
Leads(hardBreak, s, text, t, items) == Run(hardBreak, St(s, <<>>), text) = St(t, items)

LEMMA StIn ==
    ASSUME NEW s \in Selectors, NEW items \in Cuts
    PROVE  St(s, items) \in States /\ St(s, items).selector = s /\ St(s, items).items = items
BY DEF St, States

LEMMA ConcatAppend ==
    ASSUME NEW p \in Cuts, NEW q \in Cuts, NEW e \in Pieces
    PROVE  Append(p \o q, e) = p \o Append(q, e)
<1> USE DEF Cuts
<1>1. p \o q \in Cuts /\ <<e>> \in Cuts
  BY ConcatProperties
<1>2. Append(p \o q, e) = (p \o q) \o <<e>> /\ Append(q, e) = q \o <<e>>
  BY <1>1, AppendIsConcat
<1> QED BY <1>1, <1>2, ConcatAssociative

LEMMA ItemsOnlyAppended ==
    ASSUME NEW hardBreak \in BOOLEAN, NEW state \in States, NEW c \in Chars, NEW items \in Cuts
    PROVE  Receive(hardBreak, St(state.selector, items \o state.items), c) =
              St(Receive(hardBreak, state, c).selector, items \o Receive(hardBreak, state, c).items)
<1>1. PICK s \in Selectors, j \in Cuts : s = state.selector /\ j = state.items
  BY DEF States
<1>2. state = St(s, j)
  BY <1>1 DEF States, St
<1>3. \A e \in Pieces : Append(items \o j, e) = items \o Append(j, e)
  BY ConcatAppend
<1> DEFINE u == Update(hardBreak, s, c)
           from == Receive(hardBreak, St(s, j), c)
<1> SUFFICES Receive(hardBreak, St(s, items \o j), c) = St(from.selector, items \o from.items)
  BY <1>1, <1>2
<1>4. CASE Throws(hardBreak, s, c)
  <2> DEFINE e == Error(Append(s.buffer, c))
  <2>1. e \in Pieces
    <3>1. Append(s.buffer, c) \in Seq(Chars)
      BY DEF Selectors
    <3> QED BY <3>1 DEF Error, Pieces
  <2>2. Receive(hardBreak, St(s, items \o j), c) = St(Start, Append(items \o j, e))
    BY <1>4 DEF Receive, St
  <2>3. from = St(Start, Append(j, e))
    BY <1>4 DEF Receive, St
  <2> HIDE DEF e, from
  <2> QED BY <1>3, <2>1, <2>2, <2>3 DEF St
<1>5. CASE ~Throws(hardBreak, s, c) /\ JsonComplete(u)
  <2> DEFINE e == Item(u.buffer)
  <2>1. e \in Pieces
    <3>1. u \in Selectors
      BY UpdateType
    <3> HIDE DEF u
    <3> QED BY <3>1 DEF Item, Pieces, Selectors
  <2>2. Receive(hardBreak, St(s, items \o j), c) = St(Start, Append(items \o j, e))
    BY <1>5 DEF Receive, St
  <2>3. from = St(Start, Append(j, e))
    BY <1>5 DEF Receive, St
  <2> HIDE DEF e, from
  <2> QED BY <1>3, <2>1, <2>2, <2>3 DEF St
<1>6. CASE ~Throws(hardBreak, s, c) /\ ~JsonComplete(u)
  <2>1. Receive(hardBreak, St(s, items \o j), c) = St(u, items \o j)
    BY <1>6 DEF Receive, St
  <2>2. from = St(u, j)
    BY <1>6 DEF Receive, St
  <2> HIDE DEF u, from
  <2> QED BY <2>1, <2>2 DEF St
<1> QED BY <1>4, <1>5, <1>6

\* What came out already stays, and does not change what comes out.
LEMMA RunAppends ==
    ASSUME NEW hardBreak \in BOOLEAN, NEW s \in Selectors, NEW items \in Cuts, NEW text \in Seq(Chars),
           NEW t, NEW more, Leads(hardBreak, s, text, t, more)
    PROVE  Run(hardBreak, St(s, items), text) = St(t, items \o more)
<1> DEFINE one == St(s, <<>>)
           after == St(s, items)
<1>1. one \in States /\ after \in States /\ one.items = <<>> /\ one.selector = s
  <2>1. <<>> \in Cuts
    BY DEF Cuts
  <2> QED BY <2>1, StIn
<1> HIDE DEF one, after
<1>2. PICK f \in [0 .. Len(text) -> States] : Trace(hardBreak, one, text, f)
  BY <1>1, TraceExists
<1>3. Run(hardBreak, one, text) = f[Len(text)]
  BY <1>1, <1>2, TraceIsRun
<1> DEFINE g == [n \in 0 .. Len(text) |-> St(f[n].selector, items \o f[n].items)]
<1>4. Trace(hardBreak, after, text, g)
  <2>1. g[0] = after
    <3>1. f[0] = one
      BY <1>2 DEF Trace
    <3>2. items \o <<>> = items
      BY DEF Cuts
    <3>3. g[0] = St(s, items)
      BY <1>1, <3>1, <3>2
    <3> QED BY <3>3 DEF after
  <2>2. ASSUME NEW n \in 1 .. Len(text) PROVE g[n] = Receive(hardBreak, g[n - 1], text[n])
    <3>1. n - 1 \in 0 .. Len(text) /\ n \in 0 .. Len(text) /\ text[n] \in Chars
      OBVIOUS
    <3>2. f[n - 1] \in States
      BY <3>1
    <3>3. f[n] = Receive(hardBreak, f[n - 1], text[n])
      BY <1>2 DEF Trace
    <3>4. g[n - 1] = St(f[n - 1].selector, items \o f[n - 1].items)
      BY <3>1
    <3>5. g[n] = St(f[n].selector, items \o f[n].items)
      BY <3>1
    <3> HIDE DEF g
    <3>6. PICK state \in States, c \in Chars : state = f[n - 1] /\ c = text[n]
      BY <3>1, <3>2
    <3> QED BY <3>3, <3>4, <3>5, <3>6, ItemsOnlyAppended
  <2> HIDE DEF g
  <2> QED BY <2>1, <2>2 DEF Trace
<1>5. Run(hardBreak, after, text) = g[Len(text)]
  <2> HIDE DEF g
  <2> QED BY <1>1, <1>4, TraceIsRun
<1>6. g[Len(text)] = St(f[Len(text)].selector, items \o f[Len(text)].items)
  OBVIOUS
<1>7. f[Len(text)] = St(t, more)
  BY <1>3 DEF Leads, one
<1> QED BY <1>5, <1>6, <1>7 DEF after, St

LEMMA LeadsOn ==
    ASSUME NEW hardBreak \in BOOLEAN, NEW s \in Selectors, NEW t \in Selectors, NEW u \in Selectors,
           NEW first \in Seq(Chars), NEW then \in Seq(Chars), NEW items \in Cuts, NEW more \in Cuts,
           Leads(hardBreak, s, first, t, items), Leads(hardBreak, t, then, u, more)
    PROVE  Leads(hardBreak, s, first \o then, u, items \o more)
<1>1. <<>> \in Cuts
  BY DEF Cuts
<1>2. St(s, <<>>) \in States
  BY <1>1, StIn
<1>3. Run(hardBreak, St(s, <<>>), first \o then) = Run(hardBreak, St(t, items), then)
  BY <1>2, RunConcat DEF Leads
<1>4. Run(hardBreak, St(t, items), then) = St(u, items \o more)
  BY RunAppends
<1> QED BY <1>3, <1>4 DEF Leads

\* Every text leads somewhere.
LEMMA LeadsSomewhere ==
    ASSUME NEW hardBreak \in BOOLEAN, NEW s \in Selectors, NEW text \in Seq(Chars)
    PROVE  \E t \in Selectors, items \in Cuts : Leads(hardBreak, s, text, t, items)
<1>1. St(s, <<>>) \in States
  BY StIn, <<>> \in Cuts DEF Cuts
<1>2. PICK state \in States : state = Run(hardBreak, St(s, <<>>), text)
  BY <1>1, RunType
<1>3. state = St(state.selector, state.items) /\ state.selector \in Selectors /\ state.items \in Cuts
  BY DEF States, St
<1> QED BY <1>2, <1>3 DEF Leads

LEMMA CutIs ==
    ASSUME NEW hardBreak \in BOOLEAN, NEW text, NEW t, NEW items, Leads(hardBreak, Start, text, t, items)
    PROVE  Cut(hardBreak, text) = items
BY DEF Cut, Leads, St

\* A text behind which nothing is left over does not change what comes after it.
LEMMA CutOn ==
    ASSUME NEW hardBreak \in BOOLEAN, NEW text \in Seq(Chars), NEW rest \in Seq(Chars), NEW items \in Cuts,
           Leads(hardBreak, Start, text, Start, items)
    PROVE  Cut(hardBreak, text \o rest) = items \o Cut(hardBreak, rest)
<1>1. Start \in Selectors
  BY DEF Start, Outermost, Selectors
<1>2. PICK t \in Selectors, more \in Cuts : Leads(hardBreak, Start, rest, t, more)
  BY <1>1, LeadsSomewhere
<1>3. Leads(hardBreak, Start, text \o rest, t, items \o more)
  BY <1>1, <1>2, LeadsOn
<1> QED BY <1>2, <1>3, CutIs

\* One character, when it is not refused.
LEMMA LeadsByOne ==
    ASSUME NEW hardBreak \in BOOLEAN, NEW s \in Selectors, NEW c \in Chars, ~Throws(hardBreak, s, c)
    PROVE  /\ ~JsonComplete(Update(hardBreak, s, c)) => Leads(hardBreak, s, <<c>>, Update(hardBreak, s, c), <<>>)
           /\ JsonComplete(Update(hardBreak, s, c)) =>
                 Leads(hardBreak, s, <<c>>, Start, <<Item(Update(hardBreak, s, c).buffer)>>)
<1>1. St(s, <<>>) \in States /\ St(s, <<>>).selector = s
  BY StIn, <<>> \in Cuts DEF Cuts
<1>2. Run(hardBreak, St(s, <<>>), <<c>>) = Receive(hardBreak, St(s, <<>>), c)
  BY <1>1, RunOne
<1> QED BY <1>1, <1>2 DEF Leads, Receive, St

-----------------------------------------------------------------------------
(* A new line that breaks hard leaves nothing over.                        *)

LEMMA BehindNewLine ==
    ASSUME NEW s \in Selectors
    PROVE  \E items \in Cuts : Leads(TRUE, s, <<NewLine>>, Start, items)
<1> DEFINE u == Update(TRUE, s, NewLine)
<1>1. NewLine \in Chars /\ ~Throws(TRUE, s, NewLine)
  BY DEF Chars, Whitespace, NewLine, Throws
<1>2. u = [inString |-> FALSE, pass |-> FALSE, objects |-> 0, arrays |-> 0, buffer |-> s.buffer]
  BY DEF Update, Outermost
<1>3. s.buffer \in Seq(Chars)
  BY DEF Selectors
<1> HIDE DEF u
<1>4. CASE s.buffer = <<>>
  <2>1. u = Start /\ ~JsonComplete(u)
    BY <1>2, <1>4 DEF Start, Outermost, JsonComplete
  <2>2. <<>> \in Cuts
    BY DEF Cuts
  <2> QED BY <1>1, <2>1, <2>2, LeadsByOne DEF u
<1>5. CASE s.buffer # <<>>
  <2>1. JsonComplete(u) /\ u.buffer = s.buffer
    BY <1>2, <1>5 DEF JsonComplete
  <2>2. <<Item(u.buffer)>> \in Cuts
    BY <1>3, <2>1 DEF Cuts, Pieces, Item
  <2> QED BY <1>1, <2>1, <2>2, LeadsByOne DEF u
<1> QED BY <1>4, <1>5

(* Whatever a client has sent, a string that was not closed, brackets too  *)
(* many or too few: the line that comes next is cut as if it were the      *)
(* first.                                                                  *)
THEOREM NewLineRecovers ==
    ASSUME NEW junk \in Seq(Chars), NEW rest \in Seq(Chars)
    PROVE  Cut(TRUE, junk \o <<NewLine>> \o rest) = Cut(TRUE, junk \o <<NewLine>>) \o Cut(TRUE, rest)
<1>1. Start \in Selectors /\ <<NewLine>> \in Seq(Chars)
  <2>1. NewLine \in Chars
    BY DEF Chars, Whitespace
  <2>2. Start \in Selectors
    BY DEF Start, Outermost, Selectors
  <2> QED BY <2>1, <2>2
<1>2. PICK t \in Selectors, items \in Cuts : Leads(TRUE, Start, junk, t, items)
  BY <1>1, LeadsSomewhere
<1>3. PICK more \in Cuts : Leads(TRUE, t, <<NewLine>>, Start, more)
  BY BehindNewLine
<1> DEFINE line == junk \o <<NewLine>>
           all == items \o more
<1>4. line \in Seq(Chars) /\ all \in Cuts
  BY <1>1, ConcatProperties DEF Cuts
<1>5. Leads(TRUE, Start, line, Start, all)
  BY <1>1, <1>2, <1>3, LeadsOn
<1> HIDE DEF line, all
<1>6. Cut(TRUE, line) = all /\ Cut(TRUE, line \o rest) = all \o Cut(TRUE, rest)
  BY <1>4, <1>5, CutIs, CutOn
<1> QED BY <1>6 DEF line

-----------------------------------------------------------------------------
(* JSON texts inside an object.                                            *)

Sel(inString, pass, objects, arrays, buffer) ==
    [inString |-> inString, pass |-> pass, objects |-> objects, arrays |-> arrays, buffer |-> buffer]

Texted == Seq(Chars)

\* The characters that end an open text at once.
Breaks(hardBreak) == IF hardBreak THEN {NewLine} ELSE {}

LEMMA SelIn ==
    ASSUME NEW i \in BOOLEAN, NEW p \in BOOLEAN, NEW o \in Int, NEW a \in Int, NEW b \in Texted
    PROVE  Sel(i, p, o, a, b) \in Selectors
BY DEF Sel, Selectors, Texted

LEMMA SelWith ==
    ASSUME NEW i \in BOOLEAN, NEW o \in Nat \ {0}, NEW a \in Nat
    PROVE  \A b \in Texted, p \in BOOLEAN : Sel(i, p, o, a, b) \in Selectors
<1>1. o \in Int /\ a \in Int
  OBVIOUS
<1> QED BY <1>1, SelIn

LEMMA OneMore ==
    ASSUME NEW b \in Texted, NEW c \in Chars
    PROVE  Append(b, c) = b \o <<c>> /\ b \o <<c>> \in Texted /\ <<c>> \in Texted
BY AppendIsConcat, ConcatProperties DEF Texted

\* A bracket that closes has one to close, and does not end the object.
Fits(c, o, a) == ~(c = "}" /\ o = 1) /\ ~(c = "]" /\ a = 0)

\* A character inside an object and outside strings.
LEMMA InnerTo ==
    ASSUME NEW hardBreak \in BOOLEAN, NEW o \in Nat \ {0}, NEW a \in Nat, NEW b \in Texted,
           NEW c \in Chars \ Whitespace, Fits(c, o, a)
    PROVE  LET s == Sel(FALSE, FALSE, o, a, b)
               up == Deeper(c, "{", "}")
               right == Deeper(c, "[", "]")
           IN  /\ c # "quote" => Leads(hardBreak, s, <<c>>, Sel(FALSE, FALSE, o + up, a + right, b \o <<c>>), <<>>)
               /\ c = "quote" => Leads(hardBreak, s, <<c>>, Sel(TRUE, FALSE, o, a, b \o <<c>>), <<>>)
<1> DEFINE s == Sel(FALSE, FALSE, o, a, b)
           u == Update(hardBreak, s, c)
<1>1. s \in Selectors /\ c \in Chars
  <2>1. o \in Int /\ a \in Int
    OBVIOUS
  <2> QED BY <2>1, SelIn
<1>2. ~(hardBreak /\ c = NewLine)
  BY DEF Whitespace
<1>3. s.inString = FALSE /\ s.pass = FALSE /\ s.objects = o /\ s.arrays = a /\ s.buffer = b
  BY DEF Sel
<1> HIDE DEF s
<1>4. ~Throws(hardBreak, s, c)
  BY <1>3 DEF Throws, Fits
<1>5. u = Outside(s, c)
  BY <1>2, <1>3 DEF Update, Character
<1>6. Append(b, c) = b \o <<c>>
  BY OneMore
<1>7. ASSUME c # "quote"
      PROVE  Leads(hardBreak, s, <<c>>,
                   Sel(FALSE, FALSE, o + Deeper(c, "{", "}"), a + Deeper(c, "[", "]"), b \o <<c>>), <<>>)
  <2> DEFINE up == Deeper(c, "{", "}")
             right == Deeper(c, "[", "]")
             t == Sel(FALSE, FALSE, o + up, a + right, b \o <<c>>)
  <2>1. (c = "{" => up = 1) /\ (c = "}" => up = -1) /\ (c \notin {"{", "}"} => up = 0)
    BY DEF Deeper
  <2>2. o + up # 0
    <3>1. c = "}" => o # 1
      BY DEF Fits
    <3> HIDE DEF up
    <3>2. CASE c = "{"
      <4>1. up = 1
        BY <2>1, <3>2
      <4> QED BY <4>1
    <3>3. CASE c = "}"
      <4>1. up = -1 /\ o # 1
        BY <2>1, <3>1, <3>3
      <4> QED BY <4>1
    <3>4. CASE c \notin {"{", "}"}
      <4>1. up = 0
        BY <2>1, <3>4
      <4> QED BY <4>1
    <3> QED BY <3>2, <3>3, <3>4
  <2> HIDE DEF up, right
  <2>3. u = t
    <3>1. Outside(s, c) = Sel(c = "quote", FALSE, o + up, a + right, b \o <<c>>)
      BY <1>3, <1>6, Zenon DEF Outside, Sel, up, right
    <3>2. (c = "quote") = FALSE
      BY <1>7
    <3> QED BY <1>5, <3>1, <3>2, Zenon
  <2>4. ~JsonComplete(t)
    BY <2>2 DEF JsonComplete, Sel
  <2> HIDE DEF t
  <2> QED BY <1>1, <1>4, <2>3, <2>4, LeadsByOne DEF t, up, right
<1>8. ASSUME c = "quote" PROVE Leads(hardBreak, s, <<c>>, Sel(TRUE, FALSE, o, a, b \o <<c>>), <<>>)
  <2> DEFINE t == Sel(TRUE, FALSE, o, a, b \o <<c>>)
  <2>1. Deeper(c, "{", "}") = 0 /\ Deeper(c, "[", "]") = 0
    BY <1>8 DEF Deeper
  <2>2. o + 0 = o /\ a + 0 = a
    OBVIOUS
  <2>3. u = t
    <3>1. Outside(s, c) = Sel(c = "quote", FALSE, o, a, b \o <<c>>)
      BY <1>3, <1>6, <2>1, <2>2, Zenon DEF Outside, Sel
    <3>2. (c = "quote") = TRUE
      BY <1>8
    <3> QED BY <1>5, <3>1, <3>2, Zenon
  <2>4. ~JsonComplete(t)
    BY DEF JsonComplete, Sel
  <2> HIDE DEF t
  <2> QED BY <1>1, <1>4, <2>3, <2>4, LeadsByOne DEF t
<1> QED BY <1>7, <1>8 DEF s

LEMMA BlankSkipped ==
    ASSUME NEW hardBreak \in BOOLEAN, NEW o \in Nat \ {0}, NEW a \in Nat, NEW b \in Texted,
           NEW c \in Whitespace \ Breaks(hardBreak)
    PROVE  Leads(hardBreak, Sel(FALSE, FALSE, o, a, b), <<c>>, Sel(FALSE, FALSE, o, a, b), <<>>)
<1> DEFINE s == Sel(FALSE, FALSE, o, a, b)
<1>1. s \in Selectors
  <2>1. o \in Int /\ a \in Int
    OBVIOUS
  <2> QED BY <2>1, SelIn
<1>2. ~(hardBreak /\ c = NewLine) /\ c \in Chars /\ c # "}" /\ c # "]"
  BY DEF Breaks, Whitespace, NewLine, Chars
<1>3. s.inString = FALSE /\ s.objects = o /\ o # 0
  BY DEF Sel
<1> HIDE DEF s
<1>4. ~Throws(hardBreak, s, c) /\ Update(hardBreak, s, c) = s /\ ~JsonComplete(s)
  BY <1>2, <1>3 DEF Throws, Update, Character, JsonComplete
<1>5. Leads(hardBreak, s, <<c>>, s, <<>>)
  BY <1>1, <1>2, <1>4, LeadsByOne
<1> QED BY <1>5 DEF s

\* A character inside a string.
LEMMA QuotedTo ==
    ASSUME NEW hardBreak \in BOOLEAN, NEW o \in Nat \ {0}, NEW a \in Nat, NEW b \in Texted,
           NEW c \in Chars \ Breaks(hardBreak)
    PROVE  LET s(pass) == Sel(TRUE, pass, o, a, b)
               next(i, p) == Sel(i, p, o, a, b \o <<c>>)
           IN  /\ Leads(hardBreak, s(TRUE), <<c>>, next(TRUE, FALSE), <<>>)
               /\ c \notin {"quote", "backslash"} => Leads(hardBreak, s(FALSE), <<c>>, next(TRUE, FALSE), <<>>)
               /\ c = "backslash" => Leads(hardBreak, s(FALSE), <<c>>, next(TRUE, TRUE), <<>>)
               /\ c = "quote" => Leads(hardBreak, s(FALSE), <<c>>, next(FALSE, FALSE), <<>>)
<1> DEFINE s(pass) == Sel(TRUE, pass, o, a, b)
           next(i, p) == Sel(i, p, o, a, b \o <<c>>)
<1>1. c \in Chars /\ ~(hardBreak /\ c = NewLine) /\ Append(b, c) = b \o <<c>>
  BY OneMore DEF Breaks
<1>2. ASSUME NEW i \in BOOLEAN, NEW p \in BOOLEAN, NEW pass \in BOOLEAN,
             (pass \/ c # "quote") = i, (~pass /\ c = "backslash") = p
      PROVE  Leads(hardBreak, s(pass), <<c>>, next(i, p), <<>>)
  <2> DEFINE v == s(pass)
             t == next(i, p)
  <2>1. v \in Selectors
    <3>1. o \in Int /\ a \in Int
      OBVIOUS
    <3> QED BY <3>1, SelIn
  <2>2. v.inString = TRUE /\ v.pass = pass /\ v.objects = o /\ v.arrays = a /\ v.buffer = b
    BY DEF Sel
  <2>3. t.objects = o /\ o # 0
    BY DEF Sel
  <2> HIDE DEF v
  <2>4. ~Throws(hardBreak, v, c)
    BY <2>2 DEF Throws
  <2>5. Update(hardBreak, v, c) = InString(v, c)
    BY <1>1, <2>2 DEF Update, Character
  <2>6. InString(v, c) = t
    BY <1>1, <1>2, <2>2, Zenon DEF InString, Sel
  <2> HIDE DEF t
  <2>7. ~JsonComplete(t)
    BY <2>3 DEF JsonComplete
  <2> QED BY <1>1, <2>1, <2>4, <2>5, <2>6, <2>7, LeadsByOne DEF v, t
<1>3. Leads(hardBreak, s(TRUE), <<c>>, next(TRUE, FALSE), <<>>)
  <2>1. (TRUE \/ c # "quote") = TRUE /\ (~TRUE /\ c = "backslash") = FALSE
    OBVIOUS
  <2> HIDE DEF s, next
  <2> QED BY <1>2, <2>1
<1>4. ASSUME c \notin {"quote", "backslash"} PROVE Leads(hardBreak, s(FALSE), <<c>>, next(TRUE, FALSE), <<>>)
  <2>1. (FALSE \/ c # "quote") = TRUE /\ (~FALSE /\ c = "backslash") = FALSE
    BY <1>4
  <2> HIDE DEF s, next
  <2> QED BY <1>2, <2>1
<1>5. ASSUME c = "backslash" PROVE Leads(hardBreak, s(FALSE), <<c>>, next(TRUE, TRUE), <<>>)
  <2>1. (FALSE \/ c # "quote") = TRUE /\ (~FALSE /\ c = "backslash") = TRUE
    BY <1>5
  <2> HIDE DEF s, next
  <2> QED BY <1>2, <2>1
<1>6. ASSUME c = "quote" PROVE Leads(hardBreak, s(FALSE), <<c>>, next(FALSE, FALSE), <<>>)
  <2>1. (FALSE \/ c # "quote") = FALSE /\ (~FALSE /\ c = "backslash") = FALSE
    BY <1>6
  <2> HIDE DEF s, next
  <2> QED BY <1>2, <2>1
<1> QED BY <1>3, <1>4, <1>5, <1>6

\* Inside an object nothing changes but the buffer, which gets what is kept.
Keeps(hardBreak, text, kept) ==
    /\ text \in Texted /\ kept \in Texted
    /\ \A o \in Nat \ {0}, a \in Nat, b \in Texted :
          Leads(hardBreak, Sel(FALSE, FALSE, o, a, b), text, Sel(FALSE, FALSE, o, a, b \o kept), <<>>)

\* The same in a string.
KeepsQuoted(hardBreak, text) ==
    /\ text \in Texted
    /\ \A o \in Nat \ {0}, a \in Nat, b \in Texted :
          Leads(hardBreak, Sel(TRUE, FALSE, o, a, b), text, Sel(TRUE, FALSE, o, a, b \o text), <<>>)

LEMMA TextConcat ==
    ASSUME NEW p \in Texted, NEW q \in Texted
    PROVE  /\ p \o q \in Texted /\ <<>> \in Texted /\ p \o <<>> = p /\ <<>> \o p = p
           /\ \A r \in Texted : (p \o q) \o r = p \o (q \o r)
<1> USE DEF Texted
<1>1. p \o q \in Texted /\ <<>> \in Texted
  BY ConcatProperties
<1>2. p \o <<>> = p /\ <<>> \o p = p
  BY ConcatEmptySeq
<1>3. \A r \in Texted : (p \o q) \o r = p \o (q \o r)
  BY ConcatAssociative
<1> QED BY <1>1, <1>2, <1>3

LEMMA Regroup ==
    ASSUME NEW p \in Texted, NEW q \in Texted, NEW r \in Texted
    PROVE  /\ p \o q \in Texted /\ (p \o q) \o r \in Texted /\ q \o r \in Texted
           /\ (p \o q) \o r = p \o (q \o r)
<1>1. p \o q \in Texted /\ q \o r \in Texted
  BY TextConcat
<1>2. (p \o q) \o r = p \o (q \o r)
  BY ConcatAssociative DEF Texted
<1>3. (p \o q) \o r \in Texted
  BY <1>1, TextConcat
<1> QED BY <1>1, <1>2, <1>3

LEMMA TextsClosed == \A p, q \in Texted : p \o q \in Texted
BY TextConcat

LEMMA TextsAssoc == \A p, q, r \in Texted : (p \o q) \o r = p \o (q \o r)
BY Regroup

LEMMA NoText == <<>> \in Texted
BY DEF Texted

LEMMA OneChar ==
    ASSUME NEW c \in Chars
    PROVE  <<c>> \in Texted
BY NoText, OneMore

LEMMA TwoChars ==
    ASSUME NEW c, NEW d
    PROVE  <<c, d>> = <<c>> \o <<d>>
<1> DEFINE S == {c, d}
           s == <<c>> \o <<d>>
           t == <<c, d>>
<1>1. <<c>> \in Seq(S) /\ <<d>> \in Seq(S) /\ Len(<<c>>) = 1 /\ Len(<<d>>) = 1
  OBVIOUS
<1>2. <<c>>[1] = c /\ <<d>>[1] = d
  OBVIOUS
<1>3. s \in Seq(S) /\ Len(s) = 2 /\ s[1] = c /\ s[2] = d
  BY <1>1, <1>2, ConcatProperties
<1>4. t \in Seq(S) /\ Len(t) = 2 /\ t[1] = c /\ t[2] = d
  OBVIOUS
<1>5. Len(s) = Len(t) /\ \A i \in 1 .. Len(s) : s[i] = t[i]
  <2> HIDE DEF s, t
  <2> QED BY <1>3, <1>4
<1> HIDE DEF s, t, S
<1>6. s = t
  BY <1>3, <1>4, <1>5, SeqEqual
<1> QED BY <1>6 DEF s, t

LEMMA ThreeChars ==
    ASSUME NEW c, NEW d, NEW e
    PROVE  <<c, d, e>> = (<<c>> \o <<d>>) \o <<e>>
<1> DEFINE S == {c, d, e}
           s == <<c, d>> \o <<e>>
           t == <<c, d, e>>
<1>1. <<c, d>> \in Seq(S) /\ <<e>> \in Seq(S) /\ Len(<<c, d>>) = 2 /\ Len(<<e>>) = 1
  OBVIOUS
<1>2. <<c, d>>[1] = c /\ <<c, d>>[2] = d /\ <<e>>[1] = e
  OBVIOUS
<1>3. s \in Seq(S) /\ Len(s) = 3 /\ s[1] = c /\ s[2] = d /\ s[3] = e
  BY <1>1, <1>2, ConcatProperties
<1>4. t \in Seq(S) /\ Len(t) = 3 /\ t[1] = c /\ t[2] = d /\ t[3] = e
  OBVIOUS
<1>5. Len(s) = Len(t) /\ \A i \in 1 .. Len(s) : s[i] = t[i]
  <2> HIDE DEF s, t
  <2> QED BY <1>3, <1>4
<1> HIDE DEF s, t, S
<1>6. s = t
  BY <1>3, <1>4, <1>5, SeqEqual
<1> QED BY <1>6, TwoChars DEF s, t
\* One text after the other, while nothing comes out.
LEMMA LeadsThrough ==
    ASSUME NEW hardBreak \in BOOLEAN, NEW s \in Selectors, NEW t \in Selectors, NEW u \in Selectors,
           NEW first \in Texted, NEW then \in Texted,
           Leads(hardBreak, s, first, t, <<>>), Leads(hardBreak, t, then, u, <<>>)
    PROVE  Leads(hardBreak, s, first \o then, u, <<>>)
<1>1. <<>> \in Cuts /\ <<>> \o <<>> = <<>>
  BY DEF Cuts
<1>2. first \in Seq(Chars) /\ then \in Seq(Chars)
  BY DEF Texted
<1>3. Leads(hardBreak, s, first \o then, u, <<>> \o <<>>)
  BY <1>1, <1>2, LeadsOn
<1> QED BY <1>1, <1>3

LEMMA NothingLeadsNowhere ==
    ASSUME NEW hardBreak \in BOOLEAN, NEW s \in Selectors
    PROVE  Leads(hardBreak, s, <<>>, s, <<>>)
<1>1. St(s, <<>>) \in States
  BY StIn, <<>> \in Cuts DEF Cuts
<1>2. \E c : c \in Chars
  BY DEF Chars
<1> QED BY <1>1, <1>2, RunOne DEF Leads

LEMMA KeepsConcat ==
    ASSUME NEW hardBreak \in BOOLEAN, NEW text, NEW kept, NEW text2, NEW kept2,
           Keeps(hardBreak, text, kept), Keeps(hardBreak, text2, kept2)
    PROVE  Keeps(hardBreak, text \o text2, kept \o kept2)
<1>1. text \in Texted /\ kept \in Texted /\ text2 \in Texted /\ kept2 \in Texted
  BY DEF Keeps
<1>2. text \o text2 \in Texted /\ kept \o kept2 \in Texted
  BY <1>1, TextConcat
<1>3. ASSUME NEW o \in Nat \ {0}, NEW a \in Nat, NEW b \in Texted
      PROVE  Leads(hardBreak, Sel(FALSE, FALSE, o, a, b), text \o text2,
                   Sel(FALSE, FALSE, o, a, b \o (kept \o kept2)), <<>>)
  <2>1. b \o kept \in Texted /\ (b \o kept) \o kept2 = b \o (kept \o kept2) /\ (b \o kept) \o kept2 \in Texted
    BY <1>1, Regroup
  <2>2. Leads(hardBreak, Sel(FALSE, FALSE, o, a, b), text, Sel(FALSE, FALSE, o, a, b \o kept), <<>>)
    BY DEF Keeps
  <2>3. Leads(hardBreak, Sel(FALSE, FALSE, o, a, b \o kept), text2, Sel(FALSE, FALSE, o, a, (b \o kept) \o kept2), <<>>)
    BY <2>1 DEF Keeps
  <2>4. \A c \in Texted : Sel(FALSE, FALSE, o, a, c) \in Selectors
    BY SelWith
  <2> QED BY <1>1, <2>1, <2>2, <2>3, <2>4, LeadsThrough
<1> QED BY <1>2, <1>3 DEF Keeps

LEMMA KeepsQuotedOn ==
    ASSUME NEW hardBreak \in BOOLEAN, NEW text, NEW text2,
           KeepsQuoted(hardBreak, text), KeepsQuoted(hardBreak, text2)
    PROVE  KeepsQuoted(hardBreak, text \o text2)
<1>1. text \in Texted /\ text2 \in Texted
  BY DEF KeepsQuoted
<1>2. text \o text2 \in Texted
  BY <1>1, TextConcat
<1>3. ASSUME NEW o \in Nat \ {0}, NEW a \in Nat, NEW b \in Texted
      PROVE  Leads(hardBreak, Sel(TRUE, FALSE, o, a, b), text \o text2,
                   Sel(TRUE, FALSE, o, a, b \o (text \o text2)), <<>>)
  <2>1. b \o text \in Texted /\ (b \o text) \o text2 = b \o (text \o text2) /\ (b \o text) \o text2 \in Texted
    BY <1>1, Regroup
  <2>2. Leads(hardBreak, Sel(TRUE, FALSE, o, a, b), text, Sel(TRUE, FALSE, o, a, b \o text), <<>>)
    BY DEF KeepsQuoted
  <2>3. Leads(hardBreak, Sel(TRUE, FALSE, o, a, b \o text), text2, Sel(TRUE, FALSE, o, a, (b \o text) \o text2), <<>>)
    BY <2>1 DEF KeepsQuoted
  <2>4. \A c \in Texted : Sel(TRUE, FALSE, o, a, c) \in Selectors
    BY SelWith
  <2> QED BY <1>1, <2>1, <2>2, <2>3, <2>4, LeadsThrough
<1> QED BY <1>2, <1>3 DEF KeepsQuoted

LEMMA KeepsOne ==
    ASSUME NEW hardBreak \in BOOLEAN
    PROVE  /\ Keeps(hardBreak, <<>>, <<>>) /\ Keeps(hardBreak, <<"x">>, <<"x">>)
           /\ \A c \in Whitespace \ Breaks(hardBreak) : Keeps(hardBreak, <<c>>, <<>>)
           /\ KeepsQuoted(hardBreak, <<>>)
           /\ \A c \in Chars \ (Breaks(hardBreak) \cup {"quote", "backslash"}) : KeepsQuoted(hardBreak, <<c>>)
           /\ \A c \in Chars \ Breaks(hardBreak) : KeepsQuoted(hardBreak, <<"backslash", c>>)
<1>1. <<>> \in Texted /\ \A c \in Chars : <<c>> \in Texted
  BY DEF Texted
<1>2. "x" \in Chars \ Whitespace /\ "x" # "quote" /\ "backslash" \in Chars /\ Whitespace \subseteq Chars
  BY DEF Chars, Whitespace, NewLine
<1>3. ASSUME NEW i \in BOOLEAN, NEW o \in Nat \ {0}, NEW a \in Nat, NEW b \in Texted
      PROVE  Leads(hardBreak, Sel(i, FALSE, o, a, b), <<>>, Sel(i, FALSE, o, a, b \o <<>>), <<>>)
  <2>1. b \o <<>> = b
    BY TextConcat
  <2>2. Sel(i, FALSE, o, a, b) \in Selectors
    BY SelWith
  <2> QED BY <2>1, <2>2, NothingLeadsNowhere
<1>4. Keeps(hardBreak, <<>>, <<>>) /\ KeepsQuoted(hardBreak, <<>>)
  BY <1>1, <1>3 DEF Keeps, KeepsQuoted
<1>5. Keeps(hardBreak, <<"x">>, <<"x">>)
  <2>1. ASSUME NEW o \in Nat \ {0}, NEW a \in Nat, NEW b \in Texted
        PROVE  Leads(hardBreak, Sel(FALSE, FALSE, o, a, b), <<"x">>, Sel(FALSE, FALSE, o, a, b \o <<"x">>), <<>>)
    <3>1. Fits("x", o, a)
      BY DEF Fits
    <3>2. Deeper("x", "{", "}") = 0 /\ Deeper("x", "[", "]") = 0
      BY DEF Deeper
    <3>3. o + 0 = o /\ a + 0 = a
      OBVIOUS
    <3>4. PICK c \in Chars \ Whitespace : c = "x"
      BY <1>2
    <3> QED BY <1>2, <3>1, <3>2, <3>3, <3>4, InnerTo
  <2> QED BY <1>1, <1>2, <2>1 DEF Keeps
<1>6. ASSUME NEW c \in Whitespace \ Breaks(hardBreak) PROVE Keeps(hardBreak, <<c>>, <<>>)
  <2>1. \A b \in Texted : b \o <<>> = b
    BY TextConcat
  <2>2. <<c>> \in Texted
    BY <1>1, <1>2
  <2> QED BY <1>1, <2>1, <2>2, BlankSkipped DEF Keeps
<1>7. ASSUME NEW c \in Chars \ (Breaks(hardBreak) \cup {"quote", "backslash"}) PROVE KeepsQuoted(hardBreak, <<c>>)
  BY <1>1, QuotedTo DEF KeepsQuoted
<1>8. ASSUME NEW c \in Chars \ Breaks(hardBreak) PROVE KeepsQuoted(hardBreak, <<"backslash", c>>)
  <2>1. <<"backslash", c>> = <<"backslash">> \o <<c>> /\ <<"backslash", c>> \in Texted
    BY <1>2 DEF Texted
  <2>2. ASSUME NEW o \in Nat \ {0}, NEW a \in Nat, NEW b \in Texted
        PROVE  Leads(hardBreak, Sel(TRUE, FALSE, o, a, b), <<"backslash">> \o <<c>>,
                     Sel(TRUE, FALSE, o, a, b \o (<<"backslash">> \o <<c>>)), <<>>)
    <3>1. PICK e \in Chars \ Breaks(hardBreak) : e = "backslash"
      BY <1>2 DEF Breaks, NewLine
    <3>2. <<e>> \in Texted /\ <<c>> \in Texted
      BY <1>1
    <3>3. /\ b \o <<e>> \in Texted /\ (b \o <<e>>) \o <<c>> = b \o (<<e>> \o <<c>>)
          /\ (b \o <<e>>) \o <<c>> \in Texted
      BY <3>2, Regroup
    <3>4. Leads(hardBreak, Sel(TRUE, FALSE, o, a, b), <<e>>, Sel(TRUE, TRUE, o, a, b \o <<e>>), <<>>)
      BY <3>1, QuotedTo
    <3>5. Leads(hardBreak, Sel(TRUE, TRUE, o, a, b \o <<e>>), <<c>>,
                Sel(TRUE, FALSE, o, a, (b \o <<e>>) \o <<c>>), <<>>)
      BY <3>3, QuotedTo
    <3>6. \A p \in BOOLEAN, d \in Texted : Sel(TRUE, p, o, a, d) \in Selectors
      BY SelWith
    <3> QED BY <3>1, <3>2, <3>3, <3>4, <3>5, <3>6, LeadsThrough
  <2> QED BY <2>1, <2>2 DEF KeepsQuoted
<1> QED BY <1>4, <1>5, <1>6, <1>7, <1>8

LEMMA KeepsString ==
    ASSUME NEW hardBreak \in BOOLEAN, NEW text, KeepsQuoted(hardBreak, text)
    PROVE  LET string == <<"quote">> \o text \o <<"quote">>
           IN  Keeps(hardBreak, string, string)
<1>1. PICK q \in Chars \ Whitespace : q = "quote"
  BY DEF Chars, Whitespace, NewLine
<1>2. text \in Texted /\ <<q>> \in Texted /\ q \notin Breaks(hardBreak)
  BY <1>1 DEF KeepsQuoted, Texted, Breaks, NewLine
<1>3. <<q>> \o text \in Texted /\ (<<q>> \o text) \o <<q>> \in Texted
  BY <1>2, Regroup
<1>4. ASSUME NEW o \in Nat \ {0}, NEW a \in Nat, NEW b \in Texted
      PROVE  Leads(hardBreak, Sel(FALSE, FALSE, o, a, b), (<<q>> \o text) \o <<q>>,
                   Sel(FALSE, FALSE, o, a, b \o ((<<q>> \o text) \o <<q>>)), <<>>)
  <2>1. Fits(q, o, a)
    BY <1>1 DEF Fits
  <2> DEFINE b1 == b \o <<q>>
             b2 == b1 \o text
             b3 == b2 \o <<q>>
  <2>2. b1 \in Texted /\ b2 \in Texted /\ b3 \in Texted
    BY <1>2, Regroup
  <2>3. Leads(hardBreak, Sel(FALSE, FALSE, o, a, b), <<q>>, Sel(TRUE, FALSE, o, a, b1), <<>>)
    BY <1>1, <2>1, InnerTo
  <2>4. Leads(hardBreak, Sel(TRUE, FALSE, o, a, b1), text, Sel(TRUE, FALSE, o, a, b2), <<>>)
    BY <2>2 DEF KeepsQuoted
  <2>5. Leads(hardBreak, Sel(TRUE, FALSE, o, a, b2), <<q>>, Sel(FALSE, FALSE, o, a, b3), <<>>)
    BY <1>1, <1>2, <2>2, QuotedTo
  <2>6. b3 = b \o ((<<q>> \o text) \o <<q>>)
    <3>1. b2 = b \o (<<q>> \o text)
      BY <1>2, Regroup
    <3>2. (b \o (<<q>> \o text)) \o <<q>> = b \o ((<<q>> \o text) \o <<q>>)
      BY <1>2, <1>3, Regroup
    <3> QED BY <3>1, <3>2
  <2>7. \A c \in Texted, i \in BOOLEAN : Sel(i, FALSE, o, a, c) \in Selectors
    BY SelWith
  <2> HIDE DEF b1, b2, b3
  <2>8. Leads(hardBreak, Sel(FALSE, FALSE, o, a, b), <<q>> \o text, Sel(TRUE, FALSE, o, a, b2), <<>>)
    BY <1>2, <2>2, <2>3, <2>4, <2>7, LeadsThrough
  <2>9. Leads(hardBreak, Sel(FALSE, FALSE, o, a, b), (<<q>> \o text) \o <<q>>, Sel(FALSE, FALSE, o, a, b3), <<>>)
    BY <1>2, <1>3, <2>2, <2>5, <2>7, <2>8, LeadsThrough
  <2> QED BY <2>6, <2>9
<1> QED BY <1>1, <1>3, <1>4 DEF Keeps

LEMMA UpAndDown ==
    ASSUME NEW n \in Nat
    PROVE  /\ n + 1 \in Nat \ {0} /\ n + 1 # 0 /\ n + 0 = n /\ (n + 1) + (-1) = n /\ n + (-0) = n
           /\ n # 0 => n + 1 # 1
OBVIOUS

\* A bracket that opens, what is in it, and the one that closes.
LEMMA KeepsBracket ==
    ASSUME NEW hardBreak \in BOOLEAN, NEW text, NEW kept, Keeps(hardBreak, text, kept),
           NEW open \in {"{", "["}, NEW close \in {"}", "]"}, (open = "{") <=> (close = "}")
    PROVE  Keeps(hardBreak, <<open>> \o text \o <<close>>, <<open>> \o kept \o <<close>>)
<1>1. /\ open \in Chars \ Whitespace /\ close \in Chars \ Whitespace
      /\ open # "quote" /\ close # "quote"
  BY DEF Chars, Whitespace, NewLine
<1>2. text \in Texted /\ kept \in Texted /\ <<open>> \in Texted /\ <<close>> \in Texted
  <2>1. text \in Texted /\ kept \in Texted
    BY DEF Keeps
  <2>2. <<open>> \in Texted /\ <<close>> \in Texted
    <3>1. open \in Chars /\ close \in Chars
      BY <1>1
    <3> QED BY <3>1, OneChar
  <2> QED BY <2>1, <2>2
<1>3. /\ <<open>> \o text \in Texted /\ (<<open>> \o text) \o <<close>> \in Texted
      /\ <<open>> \o kept \in Texted /\ (<<open>> \o kept) \o <<close>> \in Texted
  BY <1>2, Regroup
<1>4. ASSUME NEW o \in Nat \ {0}, NEW a \in Nat, NEW b \in Texted
      PROVE  Leads(hardBreak, Sel(FALSE, FALSE, o, a, b), (<<open>> \o text) \o <<close>>,
                   Sel(FALSE, FALSE, o, a, b \o ((<<open>> \o kept) \o <<close>>)), <<>>)
  <2> DEFINE b1 == b \o <<open>>
             b2 == b1 \o kept
             b3 == b2 \o <<close>>
  <2>1. b1 \in Texted /\ b2 \in Texted /\ b3 \in Texted
    BY <1>2, Regroup
  <2>2. PICK o1 \in Nat \ {0}, a1 \in Nat :
          /\ o + Deeper(open, "{", "}") = o1 /\ a + Deeper(open, "[", "]") = a1
          /\ o1 + Deeper(close, "{", "}") = o /\ a1 + Deeper(close, "[", "]") = a
          /\ Fits(open, o, a) /\ Fits(close, o1, a1)
    <3>1. CASE open = "{"
      <4>1. close = "}"
        BY <3>1
      <4>2. /\ Deeper(open, "{", "}") = 1 /\ Deeper(open, "[", "]") = 0
            /\ Deeper(close, "{", "}") = -1 /\ Deeper(close, "[", "]") = 0
        BY <3>1, <4>1 DEF Deeper
      <4>3. o + 1 \in Nat \ {0} /\ a + 0 = a /\ (o + 1) + (-1) = o /\ o + 1 # 1
        <5>1. o \in Nat /\ o # 0
          OBVIOUS
        <5> QED BY <5>1, UpAndDown
      <4>4. Fits(open, o, a) /\ Fits(close, o + 1, a)
        BY <3>1, <4>1, <4>3 DEF Fits
      <4> QED BY <4>2, <4>3, <4>4
    <3>2. CASE open = "["
      <4>1. close = "]"
        BY <3>2
      <4>2. /\ Deeper(open, "{", "}") = 0 /\ Deeper(open, "[", "]") = 1
            /\ Deeper(close, "{", "}") = 0 /\ Deeper(close, "[", "]") = -1
        BY <3>2, <4>1 DEF Deeper
      <4>3. a + 1 \in Nat /\ o + 0 = o /\ (a + 1) + (-1) = a /\ a + 1 # 0
        BY UpAndDown
      <4>4. Fits(open, o, a) /\ Fits(close, o, a + 1)
        BY <3>2, <4>1, <4>3 DEF Fits
      <4> QED BY <4>2, <4>3, <4>4
    <3> QED BY <3>1, <3>2
  <2>3. Leads(hardBreak, Sel(FALSE, FALSE, o, a, b), <<open>>, Sel(FALSE, FALSE, o1, a1, b1), <<>>)
    BY <1>1, <2>2, InnerTo
  <2>4. Leads(hardBreak, Sel(FALSE, FALSE, o1, a1, b1), text, Sel(FALSE, FALSE, o1, a1, b2), <<>>)
    BY <2>1 DEF Keeps
  <2>5. Leads(hardBreak, Sel(FALSE, FALSE, o1, a1, b2), <<close>>, Sel(FALSE, FALSE, o, a, b3), <<>>)
    BY <1>1, <2>1, <2>2, InnerTo
  <2>6. b3 = b \o ((<<open>> \o kept) \o <<close>>)
    <3>1. b2 = b \o (<<open>> \o kept)
      BY <1>2, Regroup
    <3>2. \A q \in Texted : (b \o q) \o <<close>> = b \o (q \o <<close>>)
      BY <1>2, Regroup
    <3> QED BY <1>3, <3>1, <3>2
  <2>7. \A c \in Texted : Sel(FALSE, FALSE, o, a, c) \in Selectors /\ Sel(FALSE, FALSE, o1, a1, c) \in Selectors
    BY SelWith
  <2> HIDE DEF b1, b2, b3
  <2>8. Leads(hardBreak, Sel(FALSE, FALSE, o, a, b), <<open>> \o text, Sel(FALSE, FALSE, o1, a1, b2), <<>>)
    BY <1>2, <2>1, <2>3, <2>4, <2>7, LeadsThrough
  <2>9. Leads(hardBreak, Sel(FALSE, FALSE, o, a, b), (<<open>> \o text) \o <<close>>,
              Sel(FALSE, FALSE, o, a, b3), <<>>)
    BY <1>2, <1>3, <2>1, <2>5, <2>7, <2>8, LeadsThrough
  <2> QED BY <2>6, <2>9
<1> QED BY <1>3, <1>4 DEF Keeps

\* The object itself, from its first bracket to its last one.
LEMMA ObjectOut ==
    ASSUME NEW hardBreak \in BOOLEAN, NEW text, NEW kept, Keeps(hardBreak, text, kept)
    PROVE  /\ <<"{">> \o text \o <<"}">> \in Texted /\ <<"{">> \o kept \o <<"}">> \in Texted
           /\ Leads(hardBreak, Start, <<"{">> \o text \o <<"}">>, Start, <<Item(<<"{">> \o kept \o <<"}">>)>>)
<1>1. PICK open \in Chars, close \in Chars : open = "{" /\ close = "}"
  BY DEF Chars
<1>2. text \in Texted /\ kept \in Texted /\ <<open>> \in Texted /\ <<close>> \in Texted /\ <<>> \in Texted
  BY DEF Keeps, Texted
<1>3. /\ <<open>> \o text \in Texted /\ (<<open>> \o text) \o <<close>> \in Texted
      /\ <<open>> \o kept \in Texted /\ (<<open>> \o kept) \o <<close>> \in Texted
  BY <1>2, Regroup
<1> DEFINE s1 == Sel(FALSE, FALSE, 1, 0, <<open>>)
           s2 == Sel(FALSE, FALSE, 1, 0, <<open>> \o kept)
           whole == (<<open>> \o kept) \o <<close>>
           end == Sel(FALSE, FALSE, 0, 0, whole)
<1>4. Start \in Selectors /\ s1 \in Selectors /\ s2 \in Selectors
  <2>1. Start \in Selectors
    BY DEF Start, Outermost, Selectors
  <2>2. 1 \in Int /\ 0 \in Int /\ FALSE \in BOOLEAN
    OBVIOUS
  <2> QED BY <1>2, <1>3, <2>1, <2>2, SelIn
<1>5. Leads(hardBreak, Start, <<open>>, s1, <<>>)
  <2>1. ~Throws(hardBreak, Start, open)
    BY <1>1 DEF Throws
  <2>2. Deeper(open, "{", "}") = 1 /\ Deeper(open, "[", "]") = 0
    BY <1>1 DEF Deeper
  <2>3. (open = "quote") = FALSE
    BY <1>1
  <2>9. Append(<<>>, open) = <<open>>
    OBVIOUS
  <2>4. open \notin Whitespace /\ ~(hardBreak /\ open = NewLine)
    BY <1>1 DEF Whitespace, NewLine
  <2>5. Update(hardBreak, Start, open) = Outside(Start, open)
    BY <2>4 DEF Update, Character, Start, Outermost
  <2>6. Outside(Start, open) = Sel(open = "quote", FALSE, 0 + 1, 0 + 0, Append(<<>>, open))
    BY <2>2, Zenon DEF Outside, Start, Outermost, Sel
  <2>7. Outside(Start, open) = s1
    <3>1. 0 + 1 = 1 /\ 0 + 0 = 0
      OBVIOUS
    <3> QED BY <2>3, <2>9, <2>6, <3>1, Zenon
  <2>8. ~JsonComplete(s1)
    BY DEF JsonComplete, Sel
  <2> HIDE DEF s1
  <2> QED BY <1>4, <2>1, <2>5, <2>7, <2>8, LeadsByOne
<1>6. Leads(hardBreak, s1, text, s2, <<>>)
  <2>1. 1 \in Nat \ {0} /\ 0 \in Nat
    OBVIOUS
  <2> QED BY <1>2, <2>1 DEF Keeps
<1>7. Leads(hardBreak, s2, <<close>>, Start, <<Item(whole)>>)
  <2>0. s2.inString = FALSE /\ s2.pass = FALSE /\ s2.objects = 1 /\ s2.arrays = 0 /\ s2.buffer = <<open>> \o kept
    BY DEF Sel
  <2> HIDE DEF s2
  <2>1. ~Throws(hardBreak, s2, close)
    <3>1. s2.objects = 1
      BY <2>0
    <3>2. s2.objects # 0
      BY <3>1
    <3>3. close # "]"
      BY <1>1
    <3> QED BY <3>2, <3>3 DEF Throws
  <2>2. Deeper(close, "{", "}") = -1 /\ Deeper(close, "[", "]") = 0
    BY <1>1 DEF Deeper
  <2>3. Append(<<open>> \o kept, close) = whole /\ (close = "quote") = FALSE
    BY <1>1, <1>3, OneMore
  <2>4. close \notin Whitespace /\ ~(hardBreak /\ close = NewLine)
    BY <1>1 DEF Whitespace, NewLine
  <2>5. Update(hardBreak, s2, close) = Outside(s2, close)
    BY <2>0, <2>4 DEF Update, Character
  <2>6. Outside(s2, close) = Sel(close = "quote", FALSE, 1 + (-1), 0 + 0, Append(<<open>> \o kept, close))
    BY <2>0, <2>2, Zenon DEF Outside, Sel
  <2>7. Outside(s2, close) = end
    <3>1. 1 + (-1) = 0 /\ 0 + 0 = 0
      OBVIOUS
    <3> QED BY <2>3, <2>6, <3>1, Zenon
  <2>8. JsonComplete(end) /\ end.buffer = whole
    <3>1. whole # <<>>
      <4>1. Append(<<open>> \o kept, close) # <<>>
        BY <1>3, AppendProperties DEF Texted
      <4> QED BY <2>3, <4>1
    <3> HIDE DEF whole
    <3> QED BY <3>1 DEF JsonComplete, Sel
  <2> HIDE DEF end, whole
  <2> QED BY <1>4, <2>1, <2>5, <2>7, <2>8, LeadsByOne
<1>8. Leads(hardBreak, Start, <<open>> \o text, s2, <<>>)
  <2> HIDE DEF s1, s2
  <2> QED BY <1>2, <1>4, <1>5, <1>6, LeadsThrough
<1>9. Leads(hardBreak, Start, (<<open>> \o text) \o <<close>>, Start, <<Item(whole)>>)
  <2>1. <<Item(whole)>> \in Cuts /\ <<>> \in Cuts /\ <<>> \o <<Item(whole)>> = <<Item(whole)>>
    <3>1. Item(whole) \in Pieces
      BY <1>3 DEF Item, Pieces, Texted
    <3> HIDE DEF whole
    <3> QED BY <3>1, ConcatEmptySeq DEF Cuts
  <2>2. <<open>> \o text \in Seq(Chars) /\ <<close>> \in Seq(Chars)
    BY <1>2, <1>3 DEF Texted
  <2> HIDE DEF s2, whole
  <2>3. Leads(hardBreak, Start, (<<open>> \o text) \o <<close>>, Start, <<>> \o <<Item(whole)>>)
    BY <1>4, <1>7, <1>8, <2>1, <2>2, LeadsOn
  <2> QED BY <2>1, <2>3
<1> QED BY <1>1, <1>3, <1>9

-----------------------------------------------------------------------------
(* The texts of JSON, by the rules they are built with.                    *)

\* What may be between two quotes: characters, escaped ones too.
Written(hardBreak, S) ==
    /\ <<>> \in S
    /\ \A s \in S, c \in Chars \ (Breaks(hardBreak) \cup {"quote", "backslash"}) : s \o <<c>> \in S
    /\ \A s \in S, c \in Chars \ Breaks(hardBreak) : s \o <<"backslash", c>> \in S

StringTexts(hardBreak) ==
    {s \in Texted : \A S \in SUBSET Texted : Written(hardBreak, S) => s \in S}

\* Texts, each with what is left of it without white space outside strings:
\* brackets in pairs, strings, and anything else that is no bracket.
Grammar(hardBreak, G) ==
    /\ <<<<>>, <<>>>> \in G /\ <<<<"x">>, <<"x">>>> \in G
    /\ \A c \in Whitespace \ Breaks(hardBreak) : <<<<c>>, <<>>>> \in G
    /\ \A s \in StringTexts(hardBreak) :
          <<<<"quote">> \o s \o <<"quote">>, <<"quote">> \o s \o <<"quote">>>> \in G
    /\ \A p \in G, q \in G : <<p[1] \o q[1], p[2] \o q[2]>> \in G
    /\ \A p \in G : /\ <<<<"{">> \o p[1] \o <<"}">>, <<"{">> \o p[2] \o <<"}">>>> \in G
                    /\ <<<<"[">> \o p[1] \o <<"]">>, <<"[">> \o p[2] \o <<"]">>>> \in G

JsonTexts(hardBreak) ==
    {p \in Texted \X Texted : \A G \in SUBSET (Texted \X Texted) : Grammar(hardBreak, G) => p \in G}

LEMMA StringTextsKept ==
    ASSUME NEW hardBreak \in BOOLEAN, NEW s \in StringTexts(hardBreak)
    PROVE  KeepsQuoted(hardBreak, s)
<1> DEFINE S == {t \in Texted : KeepsQuoted(hardBreak, t)}
<1>1. \A t : KeepsQuoted(hardBreak, t) => t \in S
  BY DEF KeepsQuoted
<1>2. <<>> \in S
  BY <1>1, KeepsOne
<1>3. ASSUME NEW t \in S, NEW c \in Chars \ (Breaks(hardBreak) \cup {"quote", "backslash"}) PROVE t \o <<c>> \in S
  <2>1. KeepsQuoted(hardBreak, <<c>>)
    BY KeepsOne
  <2>2. KeepsQuoted(hardBreak, t \o <<c>>)
    BY <2>1, KeepsQuotedOn
  <2> QED BY <1>1, <2>2
<1>4. ASSUME NEW t \in S, NEW c \in Chars \ Breaks(hardBreak) PROVE t \o <<"backslash", c>> \in S
  <2>1. KeepsQuoted(hardBreak, <<"backslash", c>>)
    BY KeepsOne
  <2>2. KeepsQuoted(hardBreak, t \o <<"backslash", c>>)
    BY <2>1, KeepsQuotedOn
  <2> QED BY <1>1, <2>2
<1>5. S \in SUBSET Texted
  OBVIOUS
<1>6. s \in S
  <2> HIDE DEF S
  <2>1. Written(hardBreak, S)
    BY <1>2, <1>3, <1>4 DEF Written
  <2> QED BY <1>5, <2>1 DEF StringTexts
<1> QED BY <1>6

LEMMA JsonTextsKept ==
    ASSUME NEW hardBreak \in BOOLEAN, NEW p \in JsonTexts(hardBreak)
    PROVE  Keeps(hardBreak, p[1], p[2])
<1> DEFINE G == {q \in Texted \X Texted : Keeps(hardBreak, q[1], q[2])}
<1>1. \A t, k : Keeps(hardBreak, t, k) => <<t, k>> \in G
  BY DEF Keeps
<1>2. \A q \in G : Keeps(hardBreak, q[1], q[2])
  OBVIOUS
<1>3. G \in SUBSET (Texted \X Texted)
  OBVIOUS
<1> HIDE DEF G
<1>4. <<<<>>, <<>>>> \in G /\ <<<<"x">>, <<"x">>>> \in G
  BY <1>1, KeepsOne
<1>5. \A c \in Whitespace \ Breaks(hardBreak) : <<<<c>>, <<>>>> \in G
  BY <1>1, KeepsOne
<1>6. ASSUME NEW s \in StringTexts(hardBreak)
      PROVE  <<<<"quote">> \o s \o <<"quote">>, <<"quote">> \o s \o <<"quote">>>> \in G
  <2>1. KeepsQuoted(hardBreak, s)
    BY StringTextsKept
  <2> QED BY <1>1, <2>1, KeepsString
<1>7. ASSUME NEW q \in G, NEW r \in G PROVE <<q[1] \o r[1], q[2] \o r[2]>> \in G
  BY <1>1, <1>2, KeepsConcat
<1>8. ASSUME NEW q \in G
      PROVE  /\ <<<<"{">> \o q[1] \o <<"}">>, <<"{">> \o q[2] \o <<"}">>>> \in G
             /\ <<<<"[">> \o q[1] \o <<"]">>, <<"[">> \o q[2] \o <<"]">>>> \in G
  <2>1. Keeps(hardBreak, q[1], q[2])
    BY <1>2
  <2>2. ASSUME NEW open \in {"{", "["}, NEW close \in {"}", "]"}, (open = "{") <=> (close = "}")
        PROVE  <<<<open>> \o q[1] \o <<close>>, <<open>> \o q[2] \o <<close>>>> \in G
    <3>1. Keeps(hardBreak, <<open>> \o q[1] \o <<close>>, <<open>> \o q[2] \o <<close>>)
      BY <2>1, <2>2, KeepsBracket
    <3> QED BY <1>1, <3>1
  <2> QED BY <2>2
<1>9. Grammar(hardBreak, G)
  BY <1>4, <1>5, <1>6, <1>7, <1>8 DEF Grammar
<1>10. p \in G
  BY <1>3, <1>9 DEF JsonTexts
<1> QED BY <1>2, <1>10

(* An object comes out as one JSON, without the white space outside its    *)
(* strings, and the stream goes on as if it began behind it: whatever is   *)
(* in the object, however deep, and whatever is in its strings.            *)
THEOREM ObjectsComeOutWhole ==
    ASSUME NEW hardBreak \in BOOLEAN, NEW p \in JsonTexts(hardBreak), NEW rest \in Seq(Chars)
    PROVE  Cut(hardBreak, <<"{">> \o p[1] \o <<"}">> \o rest) =
              <<Item(<<"{">> \o p[2] \o <<"}">>)>> \o Cut(hardBreak, rest)
<1> DEFINE text == <<"{">> \o p[1] \o <<"}">>
           kept == <<"{">> \o p[2] \o <<"}">>
<1>1. Keeps(hardBreak, p[1], p[2])
  BY JsonTextsKept
<1>2. text \in Texted /\ kept \in Texted /\ Leads(hardBreak, Start, text, Start, <<Item(kept)>>)
  BY <1>1, ObjectOut
<1> HIDE DEF text, kept
<1>3. text \in Seq(Chars) /\ <<Item(kept)>> \in Cuts
  BY <1>2 DEF Texted, Cuts, Pieces, Item
<1>4. Cut(hardBreak, text \o rest) = <<Item(kept)>> \o Cut(hardBreak, rest)
  BY <1>2, <1>3, CutOn
<1> QED BY <1>4 DEF text, kept

-----------------------------------------------------------------------------
(* What the run checks of the selector.                                    *)

Whole(hardBreak, t) == t \in Texted /\ Leads(hardBreak, Start, t, Start, <<Item(t)>>)

LEMMA SampleStrings ==
    ASSUME NEW hardBreak \in BOOLEAN, NEW t \in Strings
    PROVE  Keeps(hardBreak, t, t)
<1> DEFINE S == {<<>>, <<"{">>, <<"]">>, <<"backslash", "quote">>, <<"backslash", "backslash">>, <<"x", "blank">>}
<1>1. PICK s \in S : t = <<"quote">> \o s \o <<"quote">>
  BY DEF Strings
<1>2. /\ {"{", "]", "x", "blank"} \subseteq Chars \ (Breaks(hardBreak) \cup {"quote", "backslash"})
      /\ {"quote", "backslash"} \subseteq Chars \ Breaks(hardBreak)
  BY DEF Chars, Whitespace, NewLine, Breaks
<1>3. KeepsQuoted(hardBreak, <<>>)
  BY KeepsOne
<1>4. /\ KeepsQuoted(hardBreak, <<"{">>) /\ KeepsQuoted(hardBreak, <<"]">>)
      /\ KeepsQuoted(hardBreak, <<"x">>) /\ KeepsQuoted(hardBreak, <<"blank">>)
  BY <1>2, KeepsOne
<1>5. /\ KeepsQuoted(hardBreak, <<"backslash", "quote">>)
      /\ KeepsQuoted(hardBreak, <<"backslash", "backslash">>)
  BY <1>2, KeepsOne
<1>6. KeepsQuoted(hardBreak, <<"x", "blank">>)
  <2>1. <<"x", "blank">> = <<"x">> \o <<"blank">>
    BY TwoChars, Zenon
  <2>2. KeepsQuoted(hardBreak, <<"x">> \o <<"blank">>)
    BY <1>4, KeepsQuotedOn
  <2> QED BY <2>1, <2>2
<1>7. KeepsQuoted(hardBreak, s)
  BY <1>3, <1>4, <1>5, <1>6
<1> QED BY <1>1, <1>7, KeepsString

LEMMA SampleArrays ==
    ASSUME NEW hardBreak \in BOOLEAN, NEW values, \A v \in values : Keeps(hardBreak, v, v), NEW t \in ArraysOf(values)
    PROVE  Keeps(hardBreak, t, t)
<1>1. Keeps(hardBreak, <<>>, <<>>) /\ Keeps(hardBreak, <<"x">>, <<"x">>)
  BY KeepsOne
<1>2. ASSUME NEW v, Keeps(hardBreak, v, v)
      PROVE  Keeps(hardBreak, <<"[">> \o v \o <<"]">>, <<"[">> \o v \o <<"]">>)
  <2>1. PICK open \in {"{", "["}, close \in {"}", "]"} : open = "[" /\ close = "]"
    OBVIOUS
  <2>2. (open = "{") <=> (close = "}")
    BY <2>1
  <2>3. Keeps(hardBreak, <<open>> \o v \o <<close>>, <<open>> \o v \o <<close>>)
    BY <1>2, <2>2, KeepsBracket
  <2> QED BY <2>1, <2>3
<1>3. CASE \E v \in values \cup {<<>>} : t = <<"[">> \o v \o <<"]">>
  BY <1>1, <1>2, <1>3
<1>4. CASE \E v \in values : t = <<"[">> \o v \o <<"x">> \o v \o <<"]">>
  <2>1. PICK v \in values : t = <<"[">> \o v \o <<"x">> \o v \o <<"]">>
    BY <1>4
  <2> DEFINE w == (v \o <<"x">>) \o v
  <2>2. Keeps(hardBreak, w, w)
    <3>1. Keeps(hardBreak, v \o <<"x">>, v \o <<"x">>)
      BY <1>1, KeepsConcat
    <3> QED BY <3>1, KeepsConcat
  <2>3. t = <<"[">> \o w \o <<"]">>
    <3>1. v \in Texted /\ <<"[">> \in Texted /\ <<"]">> \in Texted /\ <<"x">> \in Texted
      <4>1. "[" \in Chars /\ "]" \in Chars /\ "x" \in Chars
        BY DEF Chars
      <4>2. v \in Texted
        BY DEF Keeps
      <4> QED BY <4>1, <4>2, OneChar
    <3>2. v \o <<"x">> \in Texted
      BY <3>1, TextsClosed, Zenon
    <3>3. (<<"[">> \o v) \o <<"x">> = <<"[">> \o (v \o <<"x">>)
      BY <3>1, TextsAssoc, Zenon
    <3>4. (<<"[">> \o (v \o <<"x">>)) \o v = <<"[">> \o ((v \o <<"x">>) \o v)
      BY <3>1, <3>2, TextsAssoc, Zenon
    <3> QED BY <2>1, <3>3, <3>4
  <2> HIDE DEF w
  <2> QED BY <1>2, <2>2, <2>3
<1> QED BY <1>3, <1>4 DEF ArraysOf

LEMMA EmptyObject == <<"{", "}">> = <<"{">> \o <<>> \o <<"}">>
<1>1. "{" \in Chars
  BY DEF Chars
<1>2. <<"{">> \o <<>> = <<"{">>
  BY <1>1, OneChar, TextConcat
<1> QED BY <1>2, TwoChars, Zenon

LEMMA SampleObjects ==
    ASSUME NEW hardBreak \in BOOLEAN, NEW values, \A v \in values : Keeps(hardBreak, v, v), NEW t \in ObjectsOf(values)
    PROVE  \E v : Keeps(hardBreak, v, v) /\ t = <<"{">> \o v \o <<"}">>
<1>1. Keeps(hardBreak, <<>>, <<>>) /\ Keeps(hardBreak, <<"x">>, <<"x">>)
  BY KeepsOne
<1>2. CASE t = <<"{", "}">>
  <2>1. <<"{", "}">> = <<"{">> \o <<>> \o <<"}">>
    BY EmptyObject
  <2> QED BY <1>1, <1>2, <2>1
<1>3. CASE \E n \in Strings, v \in values : t = <<"{">> \o n \o <<"x">> \o v \o <<"}">>
  <2>1. PICK n \in Strings, v \in values : t = <<"{">> \o n \o <<"x">> \o v \o <<"}">>
    BY <1>3
  <2>2. Keeps(hardBreak, n, n) /\ Keeps(hardBreak, v, v)
    BY SampleStrings
  <2> DEFINE w == (n \o <<"x">>) \o v
  <2>3. Keeps(hardBreak, w, w)
    <3>1. Keeps(hardBreak, n \o <<"x">>, n \o <<"x">>)
      BY <1>1, <2>2, KeepsConcat
    <3> QED BY <2>2, <3>1, KeepsConcat
  <2>4. t = <<"{">> \o w \o <<"}">>
    <3>1. n \in Texted /\ v \in Texted /\ <<"{">> \in Texted /\ <<"x">> \in Texted
      <4>1. "{" \in Chars /\ "x" \in Chars
        BY DEF Chars
      <4> QED BY <2>2, <4>1, OneChar DEF Keeps
    <3>2. n \o <<"x">> \in Texted
      BY <3>1, Regroup
    <3>3. (<<"{">> \o n) \o <<"x">> = <<"{">> \o (n \o <<"x">>)
      BY <3>1, TextsAssoc, Zenon
    <3>4. (<<"{">> \o (n \o <<"x">>)) \o v = <<"{">> \o ((n \o <<"x">>) \o v)
      BY <3>1, <3>2, TextsAssoc, Zenon
    <3> QED BY <2>1, <3>3, <3>4
  <2> HIDE DEF w
  <2> QED BY <2>3, <2>4
<1>4. t = <<"{", "}">> \/ \E n \in Strings, v \in values : t = <<"{">> \o n \o <<"x">> \o v \o <<"}">>
  BY DEF ObjectsOf
<1> QED BY <1>2, <1>3, <1>4

LEMMA ObjectsAreWhole ==
    ASSUME NEW hardBreak \in BOOLEAN, NEW values, \A v \in values : Keeps(hardBreak, v, v), NEW t \in ObjectsOf(values)
    PROVE  Whole(hardBreak, t)
<1>1. PICK v : Keeps(hardBreak, v, v) /\ t = <<"{">> \o v \o <<"}">>
  BY SampleObjects
<1> QED BY <1>1, ObjectOut DEF Whole

LEMMA TextsAreWhole ==
    ASSUME NEW hardBreak \in BOOLEAN, NEW t \in Texts
    PROVE  Whole(hardBreak, t)
<1>1. \A v \in Strings : Keeps(hardBreak, v, v)
  BY SampleStrings
<1>2. Keeps(hardBreak, <<>>, <<>>) /\ Keeps(hardBreak, <<"x">>, <<"x">>)
  BY KeepsOne
<1>3. \A v \in Values : Keeps(hardBreak, v, v)
  <2>1. \A v \in ArraysOf(Strings) : Keeps(hardBreak, v, v)
    BY <1>1, SampleArrays
  <2> QED BY <1>1, <1>2, <2>1 DEF Values
<1>4. Keeps(hardBreak, <<"{", "}">>, <<"{", "}">>)
  <2>1. PICK open \in {"{", "["}, close \in {"}", "]"} : open = "{" /\ close = "}"
    OBVIOUS
  <2>2. (open = "{") <=> (close = "}")
    BY <2>1
  <2>3. Keeps(hardBreak, <<open>> \o <<>> \o <<close>>, <<open>> \o <<>> \o <<close>>)
    BY <1>2, <2>2, KeepsBracket
  <2>4. <<"{", "}">> = <<"{">> \o <<>> \o <<"}">>
    BY EmptyObject
  <2> QED BY <2>1, <2>3, <2>4
<1>5. CASE t \in ObjectsOf(Values)
  BY <1>3, <1>5, ObjectsAreWhole
<1>6. CASE t \in ObjectsOf({<<"{", "}">>})
  <2>1. \A v \in {<<"{", "}">>} : Keeps(hardBreak, v, v)
    BY <1>4
  <2> QED BY <1>6, <2>1, ObjectsAreWhole
<1> QED BY <1>5, <1>6 DEF Texts

LEMMA NestedShape ==
    ASSUME NEW a \in Chars, NEW c \in Chars, NEW string \in Texted, NEW more \in Texted
    PROVE  <<a>> \o string \o (more \o <<c>>) = <<a>> \o (string \o more) \o <<c>>
<1>1. <<a>> \in Texted /\ <<c>> \in Texted
  BY OneChar
<1>2. string \o (more \o <<c>>) = (string \o more) \o <<c>>
  <2>1. (string \o more) \o <<c>> = string \o (more \o <<c>>)
    BY <1>1, Regroup
  <2> QED BY <2>1, Zenon
<1>3. more \o <<c>> \in Texted /\ string \o more \in Texted
  BY <1>1, TextsClosed, Zenon
<1>4. (<<a>> \o string) \o (more \o <<c>>) = <<a>> \o (string \o (more \o <<c>>))
  BY <1>1, <1>3, TextsAssoc, Zenon
<1>5. (<<a>> \o (string \o more)) \o <<c>> = <<a>> \o ((string \o more) \o <<c>>)
  BY <1>1, <1>3, TextsAssoc, Zenon
<1> QED BY <1>2, <1>4, <1>5, Zenon

LEMMA NestedIsWhole ==
    ASSUME NEW hardBreak \in BOOLEAN
    PROVE  Whole(hardBreak, <<"{">> \o <<"quote", "}", "quote">> \o <<"x", "x", "}">>)
<1>1. PICK a \in Chars, b \in Chars, c \in Chars, d \in Chars : a = "{" /\ b = "quote" /\ c = "}" /\ d = "x"
  BY DEF Chars
<1> DEFINE string == <<b>> \o <<c>> \o <<b>>
           more == <<d>> \o <<d>>
           w == string \o more
<1>2. Keeps(hardBreak, w, w)
  <2>1. Keeps(hardBreak, <<d>>, <<d>>)
    BY <1>1, KeepsOne
  <2>2. c \in Chars \ (Breaks(hardBreak) \cup {"quote", "backslash"})
    BY <1>1 DEF Chars, Breaks, NewLine
  <2>3. KeepsQuoted(hardBreak, <<c>>)
    BY <2>2, KeepsOne
  <2>4. Keeps(hardBreak, string, string)
    BY <1>1, <2>3, KeepsString
  <2>5. Keeps(hardBreak, more, more)
    BY <2>1, KeepsConcat
  <2> HIDE DEF string, more
  <2> QED BY <2>4, <2>5, KeepsConcat
<1>3. <<a>> \o <<b, c, b>> \o <<d, d, c>> = <<a>> \o w \o <<c>>
  <2>1. <<b, c, b>> = string
    BY ThreeChars
  <2>2. <<d, d, c>> = more \o <<c>>
    BY ThreeChars
  <2>3. string \in Texted /\ more \in Texted
    <3>1. <<b>> \in Texted /\ <<c>> \in Texted /\ <<d>> \in Texted
      BY OneChar
    <3> QED BY <3>1, TextsClosed, Zenon
  <2> HIDE DEF string, more
  <2>4. <<a>> \o string \o (more \o <<c>>) = <<a>> \o (string \o more) \o <<c>>
    BY <2>3, NestedShape
  <2> QED BY <2>1, <2>2, <2>4, Zenon
<1> HIDE DEF w
<1>4. Whole(hardBreak, <<a>> \o w \o <<c>>)
  BY <1>1, <1>2, ObjectOut DEF Whole
<1>5. Whole(hardBreak, <<a>> \o <<b, c, b>> \o <<d, d, c>>)
  BY <1>3, <1>4, Zenon
<1> QED BY <1>1, <1>5, Zenon

LEMMA GapsVanish ==
    ASSUME NEW hardBreak \in BOOLEAN, NEW gap \in Gaps
    PROVE  gap \in Texted /\ Leads(hardBreak, Start, gap, Start, <<>>)
<1>1. Start \in Selectors
  BY DEF Start, Outermost, Selectors
<1>2. ASSUME NEW c \in Whitespace PROVE <<c>> \in Texted /\ Leads(hardBreak, Start, <<c>>, Start, <<>>)
  <2>1. c \in Chars /\ c # "}" /\ c # "]"
    BY DEF Chars, Whitespace, NewLine
  <2>2. ~Throws(hardBreak, Start, c)
    BY <2>1 DEF Throws
  <2>3. Update(hardBreak, Start, c) = Start
    BY DEF Update, Character, Start, Outermost
  <2>4. ~JsonComplete(Start)
    BY DEF JsonComplete, Start, Outermost
  <2> QED BY <1>1, <2>1, <2>2, <2>3, <2>4, LeadsByOne, OneChar
<1>3. <<>> \in Texted /\ Leads(hardBreak, Start, <<>>, Start, <<>>)
  BY <1>1, NothingLeadsNowhere DEF Texted
<1>4. NewLine \in Whitespace /\ "blank" \in Whitespace
  BY DEF Whitespace
<1> QED BY <1>2, <1>3, <1>4 DEF Gaps

\* One text after the other, each of which comes out or vanishes.
LEMMA WholeOn ==
    ASSUME NEW hardBreak \in BOOLEAN, NEW first \in Texted, NEW items \in Cuts,
           Leads(hardBreak, Start, first, Start, items),
           NEW then \in Texted, NEW more \in Cuts, Leads(hardBreak, Start, then, Start, more)
    PROVE  /\ first \o then \in Texted /\ items \o more \in Cuts
           /\ Leads(hardBreak, Start, first \o then, Start, items \o more)
<1>1. Start \in Selectors
  BY DEF Start, Outermost, Selectors
<1>2. first \in Seq(Chars) /\ then \in Seq(Chars)
  BY DEF Texted
<1>3. first \o then \in Texted /\ items \o more \in Cuts
  BY ConcatProperties DEF Texted, Cuts
<1> QED BY <1>1, <1>2, <1>3, LeadsOn

LEMMA ThreeItems ==
    ASSUME NEW a, NEW b
    PROVE  (((<<a>> \o <<>>) \o <<b>>) \o <<>>) \o <<a>> = <<a, b, a>>
<1>1. <<a>> \in Seq({a, b}) /\ <<a>> \o <<b>> \in Seq({a, b})
  OBVIOUS
<1>2. <<a>> \o <<>> = <<a>> /\ (<<a>> \o <<b>>) \o <<>> = <<a>> \o <<b>>
  BY <1>1, ConcatEmptySeq
<1>3. <<a, b, a>> = (<<a>> \o <<b>>) \o <<a>>
  BY ThreeChars
<1> QED BY <1>2, <1>3, Zenon

(* The texts the run tries are such objects.                               *)
THEOREM SelectorCutsRight == SelectorRight
<1>1. ASSUME NEW t \in Texts, NEW gap \in Gaps, NEW hardBreak \in BOOLEAN, NEW u,
             u = <<"{">> \o <<"quote", "}", "quote">> \o <<"x", "x", "}">>
      PROVE  Cut(hardBreak, t \o gap \o u \o <<"blank">> \o t) = <<Item(t), Item(u), Item(t)>>
  <2>1. Whole(hardBreak, t) /\ Whole(hardBreak, u)
    BY <1>1, TextsAreWhole, NestedIsWhole
  <2>2. ASSUME NEW v, Whole(hardBreak, v)
        PROVE  v \in Texted /\ <<Item(v)>> \in Cuts /\ Leads(hardBreak, Start, v, Start, <<Item(v)>>)
    <3>1. v \in Texted /\ Leads(hardBreak, Start, v, Start, <<Item(v)>>)
      BY <2>2 DEF Whole
    <3>2. Item(v) \in Pieces
      BY <3>1 DEF Item, Pieces, Texted
    <3> QED BY <3>1, <3>2 DEF Cuts
  <2>3. /\ <<"blank">> \in Texted /\ Leads(hardBreak, Start, <<"blank">>, Start, <<>>)
        /\ gap \in Texted /\ Leads(hardBreak, Start, gap, Start, <<>>) /\ <<>> \in Cuts
    BY GapsVanish DEF Gaps, Cuts
  <2> DEFINE i1 == <<Item(t)>> \o <<>>
             i2 == i1 \o <<Item(u)>>
             i3 == i2 \o <<>>
             i4 == i3 \o <<Item(t)>>
             t1 == t \o gap
             t2 == t1 \o u
             t3 == t2 \o <<"blank">>
             t4 == t3 \o t
  <2>4. t1 \in Texted /\ i1 \in Cuts /\ Leads(hardBreak, Start, t1, Start, i1)
    BY <2>1, <2>2, <2>3, WholeOn
  <2> HIDE DEF t1, i1
  <2>5. t2 \in Texted /\ i2 \in Cuts /\ Leads(hardBreak, Start, t2, Start, i2)
    BY <2>1, <2>2, <2>4, WholeOn
  <2> HIDE DEF t2, i2
  <2>6. t3 \in Texted /\ i3 \in Cuts /\ Leads(hardBreak, Start, t3, Start, i3)
    BY <2>3, <2>5, WholeOn
  <2> HIDE DEF t3, i3
  <2>7. t4 \in Texted /\ i4 \in Cuts /\ Leads(hardBreak, Start, t4, Start, i4)
    BY <2>1, <2>2, <2>6, WholeOn
  <2>8. i4 = <<Item(t), Item(u), Item(t)>>
    BY ThreeItems DEF i1, i2, i3
  <2> HIDE DEF t4, i4
  <2>9. Cut(hardBreak, t4) = i4
    BY <2>7, CutIs
  <2> QED BY <2>8, <2>9 DEF t1, t2, t3, t4
<1>2. ASSUME NEW junk \in Junk, NEW t \in ObjectsOf({<<"x">>})
      PROVE  Cut(TRUE, junk \o <<NewLine>> \o t) = Cut(TRUE, junk \o <<NewLine>>) \o <<Item(t)>>
  <2>1. junk \in Seq(Chars)
    <3>1. PICK n \in 0 .. 3 : junk \in [1 .. n -> Chars]
      BY Zenon DEF Junk
    <3> QED BY <3>1
  <2>2. \A v \in {<<"x">>} : Keeps(TRUE, v, v)
    BY KeepsOne
  <2>3. Whole(TRUE, t)
    BY <2>2, ObjectsAreWhole
  <2>4. t \in Seq(Chars) /\ Cut(TRUE, t) = <<Item(t)>>
    BY <2>3, CutIs DEF Whole, Texted
  <2> QED BY <2>1, <2>4, NewLineRecovers
<1> QED BY <1>1, <1>2 DEF SelectorRight

(* The same for the server, which cuts with a selector of its own for each *)
(* connection.                                                             *)
THEOREM SelectorInvariant == Spec => []StreamsAreCutRight
<1>1. SelectorRight
  BY SelectorCutsRight
<1>2. StreamsAreCutRight
  BY <1>1 DEF StreamsAreCutRight
<1> QED BY <1>2, PTL

=============================================================================
