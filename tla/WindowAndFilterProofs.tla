----------------------- MODULE WindowAndFilterProofs ------------------------
(***************************************************************************)
(* Two components that share nothing but what is known of sets of keys.    *)
(*                                                                         *)
(* The window over a data source, for every set of ids and every height of *)
(* the terminal: its assertions hold whatever arrives between the calls of *)
(* the source, nothing is left out between two lines that are shown, and   *)
(* drawing leaves the cursor on its log and the log on its row.            *)
(*                                                                         *)
(* A filter with children of its own, for every filter, all logs and any   *)
(* number of threads: a path finds what is at the places it says, and      *)
(* every log that is through is where it belongs and nowhere else; what is *)
(* left out of a log is not shown by the node or any of its children.      *)
(***************************************************************************)
EXTENDS ScrolableWindow, FilterNodes, LogsProofs

-----------------------------------------------------------------------------
(* What the data source returns.                                           *)

\* An id of the source is never mistaken for none.
LEMMA EndsOfSource ==
    ASSUME NEW S, IsFiniteSet(S), S \subseteq Nat
    PROVE  /\ S = {} => FirstId(S) = NoId /\ LastId(S) = NoId
           /\ S # {} => /\ FirstId(S) \in S /\ FirstId(S) = First(S)
                        /\ LastId(S) \in S /\ LastId(S) = Last(S)
           /\ FirstId(S) \in Int /\ LastId(S) \in Int
           /\ NoId \notin S
<1>1. S \subseteq Int /\ NoId \in Int /\ NoId \notin Nat
  BY DEF NoId
<1>2. S # {} => First(S) \in S /\ Last(S) \in S
  BY <1>1, FirstIsLeast, LastIsGreatest
<1> QED BY <1>1, <1>2 DEF FirstId, LastId

\* A part of a source without gaps.
Stretch(S, part) == \A x \in S : \A y, z \in part : y <= x /\ x <= z => x \in part

\* Logs::from() and Logs::to() return their log when it is there.
LEMMA HasItsLog ==
    ASSUME NEW S, IsFiniteSet(S), S \subseteq Int, NEW id \in S, NEW n \in Nat, n > 0
    PROVE  id \in From(S, id, n) /\ id \in To(S, id, n)
<1>1. id \in Int /\ id \in NotBelow(S, id) /\ id \in NotAbove(S, id)
  BY DEF NotBelow, NotAbove
<1>2. {j \in NotBelow(S, id) : j < id} = {}
  <2> SUFFICES ASSUME NEW j \in S, id <= j, j < id PROVE FALSE
    BY DEF NotBelow
  <2> QED BY <1>1
<1>3. {j \in NotAbove(S, id) : j > id} = {}
  <2> SUFFICES ASSUME NEW j \in S, j <= id, j > id PROVE FALSE
    BY DEF NotAbove
  <2> QED BY <1>1
<1> QED BY <1>1, <1>2, <1>3, FS_EmptySet DEF From, To

\* LogDataSource::get() of any id.
LEMMA LogsGetBounded ==
    ASSUME NEW S, IsFiniteSet(S), S \subseteq Int, NEW id \in Int, NEW b \in Nat, NEW a \in Nat
    PROVE  LogsGet(S, b, id, a) \subseteq S
<1>1. b + 1 \in Nat /\ a + 1 \in Nat
  OBVIOUS
<1>2. To(S, id, b + 1) \subseteq S /\ From(S, id, a + 1) \subseteq S
  BY <1>1, ToIsBounded, FromIsBounded
<1> QED BY <1>2 DEF LogsGet

\* LogDataSource::get() of a log that is there: the log and no more than it was
\* asked for, without gaps.
LEMMA LogsGetAround ==
    ASSUME NEW S, IsFiniteSet(S), S \subseteq Int, NEW id \in S, NEW b \in Nat, NEW a \in Nat
    PROVE  /\ LogsGet(S, b, id, a) \subseteq S /\ id \in LogsGet(S, b, id, a)
           /\ Cardinality(LogsGet(S, b, id, a)) <= b + a + 1
           /\ Stretch(S, LogsGet(S, b, id, a))
<1> DEFINE T == To(S, id, b + 1)
           F == From(S, id, a + 1)
<1>1. id \in Int /\ b + 1 \in Nat /\ a + 1 \in Nat /\ b + 1 > 0 /\ a + 1 > 0
  OBVIOUS
<1>2. /\ T \subseteq S /\ IsFiniteSet(T) /\ Cardinality(T) <= b + 1
      /\ F \subseteq S /\ IsFiniteSet(F) /\ Cardinality(F) <= a + 1
  BY <1>1, ToIsBounded, FromIsBounded
<1>3. id \in T /\ id \in F
  BY <1>1, HasItsLog
<1>4. LogsGet(S, b, id, a) = T \cup F
  BY DEF LogsGet
<1>5. Cardinality(T \cup F) <= b + a + 1
  <2> HIDE DEF T, F
  <2>1. /\ Cardinality(T \cup F) = Cardinality(T) + Cardinality(F) - Cardinality(T \cap F)
        /\ Cardinality(T) \in Nat /\ Cardinality(F) \in Nat
    BY <1>2, FS_Union, FS_CardinalityType
  <2>2. IsFiniteSet(T \cap F) /\ T \cap F # {}
    BY <1>2, <1>3, FS_Subset
  <2>3. Cardinality(T \cap F) \in Nat /\ Cardinality(T \cap F) # 0
    BY <2>2, FS_CardinalityType, FS_EmptySet
  <2> QED BY <1>2, <2>1, <2>3
<1>6. ASSUME NEW x \in S, NEW y \in T \cup F, NEW z \in T \cup F, y <= x, x <= z
      PROVE  x \in T \cup F
  <2>1. x \in Int /\ y \in Int /\ z \in Int
    BY <1>2
  <2>2. \A j \in T : j <= id
    BY DEF To, NotAbove
  <2>3. \A j \in F : id <= j
    BY DEF From, NotBelow
  <2>4. CASE x <= id
    <3>1. x \in NotAbove(S, id)
      BY <2>4 DEF NotAbove
    <3>2. CASE y \in T
      <4>1. x \notin T => x < y
        BY <1>1, <3>1, <3>2, ToTakesTheHighest
      <4> HIDE DEF T, F
      <4> QED BY <1>6, <2>1, <4>1
    <3>3. CASE y \in F
      <4> HIDE DEF T, F
      <4>1. id <= y
        BY <2>3, <3>3
      <4>2. x = id
        BY <1>1, <1>6, <2>1, <2>4, <4>1
      <4> QED BY <1>3, <4>2
    <3> QED BY <3>2, <3>3
  <2>5. CASE id <= x
    <3>1. x \in NotBelow(S, id)
      BY <2>5 DEF NotBelow
    <3>2. CASE z \in F
      <4>1. x \notin F => z < x
        BY <1>1, <3>1, <3>2, FromTakesTheLowest
      <4> HIDE DEF T, F
      <4> QED BY <1>6, <2>1, <4>1
    <3>3. CASE z \in T
      <4> HIDE DEF T, F
      <4>1. z <= id
        BY <2>2, <3>3
      <4>2. x = id
        BY <1>1, <1>6, <2>1, <2>5, <4>1
      <4> QED BY <1>3, <4>2
    <3> QED BY <3>2, <3>3
  <2> QED BY <1>1, <2>1, <2>4, <2>5
<1> HIDE DEF T, F
<1> QED BY <1>2, <1>3, <1>4, <1>5, <1>6 DEF Stretch

\* When there are as many logs in front of it as were asked for, that many are
\* returned.
LEMMA LogsGetKeepsRow ==
    ASSUME NEW S, IsFiniteSet(S), S \subseteq Int, NEW id \in S, NEW b \in Nat, NEW a \in Nat,
           Position(S, id) >= b
    PROVE  Position(LogsGet(S, b, id, a), id) = b
<1> DEFINE T == To(S, id, b + 1)
           A == {x \in T : x < id}
<1>1. id \in Int /\ b + 1 \in Nat /\ b + 1 > 0
  OBVIOUS
<1>2. IsFiniteSet(T) /\ Cardinality(T) <= b + 1 /\ T \subseteq S /\ Cardinality(T) \in Nat
  BY <1>1, ToIsBounded, FS_CardinalityType
<1>3. id \in T /\ \A x \in T : x <= id
  <2>1. id \in T
    BY <1>1, HasItsLog
  <2>2. \A x \in T : x <= id
    BY DEF To, NotAbove
  <2> QED BY <2>1, <2>2
<1>4. A = T \ {id}
  <2> SUFFICES ASSUME NEW x \in T PROVE x < id <=> x # id
    OBVIOUS
  <2> HIDE DEF T
  <2>1. x \in Int /\ x <= id
    BY <1>2, <1>3
  <2> QED BY <1>1, <2>1
<1>5. Cardinality(A) = Cardinality(T) - 1
  <2> HIDE DEF A, T
  <2> QED BY <1>2, <1>3, <1>4, FS_RemoveElement
<1>6. Cardinality(T) >= b + 1
  <2>1. CASE \E k \in NotAbove(S, id) : k \notin T
    BY <1>1, <2>1, ToReturnsAllItCan
  <2>2. CASE \A k \in NotAbove(S, id) : k \in T
    <3>1. {x \in S : x < id} = A
      <4>1. ASSUME NEW x \in S, x < id PROVE x \in T
        <5>1. x \in Int /\ x <= id
          BY <1>1, <4>1
        <5> QED BY <2>2, <5>1 DEF NotAbove
      <4> HIDE DEF T
      <4> QED BY <1>2, <4>1
    <3>2. Position(S, id) = Cardinality(A)
      BY <3>1 DEF Position
    <3> HIDE DEF T, A
    <3> QED BY <1>2, <1>5, <3>2
  <2> QED BY <2>1, <2>2
<1>7. {x \in LogsGet(S, b, id, a) : x < id} = A
  <2>1. ASSUME NEW x \in From(S, id, a + 1), x < id PROVE FALSE
    <3>1. id <= x /\ x \in Int
      BY DEF From, NotBelow
    <3> QED BY <1>1, <2>1, <3>1
  <2> QED BY <2>1 DEF LogsGet
<1>8. Position(LogsGet(S, b, id, a), id) = Cardinality(A)
  BY <1>7 DEF Position
<1> HIDE DEF T, A
<1> QED BY <1>2, <1>5, <1>6, <1>8

\* A list has the ids from 0 to the last.
IsList(S) == \E n \in Nat : S = 0 .. n

\* get() of a list: the line and no more than it was asked for, without gaps, and
\* as many in front of it as were asked for, if there are.
LEMMA ListGetAround ==
    ASSUME NEW S, IsList(S), NEW id \in S, NEW b \in Nat, NEW a \in Nat
    PROVE  /\ ListGet(S, b, id, a) \subseteq S /\ id \in ListGet(S, b, id, a)
           /\ Cardinality(ListGet(S, b, id, a)) <= b + a + 1
           /\ Stretch(S, ListGet(S, b, id, a))
           /\ Position(S, id) >= b => Position(ListGet(S, b, id, a), id) = b
<1>1. PICK n \in Nat : S = 0 .. n
  BY DEF IsList
<1>2. Cardinality(S) = n + 1
  BY <1>1, FS_Interval
<1>3. id \in Nat /\ id <= n
  BY <1>1
<1>4. PICK from \in Nat : from = (IF b > id THEN 0 ELSE id - b)
  BY <1>3
<1>5. PICK to \in Nat : to = (IF n + 1 < from + b + 1 + a THEN n + 1 ELSE from + b + 1 + a)
  OBVIOUS
<1>6. ListGet(S, b, id, a) = from .. (to - 1)
  BY <1>2, <1>4, <1>5 DEF ListGet
<1>7. from <= id /\ id <= to - 1 /\ to <= n + 1 /\ to - from <= b + a + 1
  BY <1>3, <1>4, <1>5
<1>8. from .. (to - 1) \subseteq S /\ id \in from .. (to - 1)
  BY <1>1, <1>3, <1>7
<1>9. Cardinality(from .. (to - 1)) <= b + a + 1
  <2>1. Cardinality(from .. (to - 1)) = to - 1 - from + 1
    BY <1>3, <1>7, FS_Interval
  <2> QED BY <1>7, <2>1
<1>10. Stretch(S, from .. (to - 1))
  BY <1>1 DEF Stretch
<1>11. ASSUME Position(S, id) >= b
       PROVE  Position(from .. (to - 1), id) = b
  <2>1. {x \in S : x < id} = 0 .. (id - 1)
    BY <1>1, <1>3
  <2>2. Cardinality(0 .. (id - 1)) = id
    BY <1>3, FS_Interval
  <2>3. b <= id
    BY <1>11, <2>1, <2>2 DEF Position
  <2>4. {x \in from .. (to - 1) : x < id} = (id - b) .. (id - 1)
    BY <1>3, <1>4, <1>7, <2>3
  <2>5. Cardinality((id - b) .. (id - 1)) = b
    BY <1>3, <2>3, FS_Interval
  <2> QED BY <2>4, <2>5 DEF Position
<1> QED BY <1>6, <1>8, <1>9, <1>10, <1>11

-----------------------------------------------------------------------------
(* What the window asks of its source.                                     *)

\* What holds of the source in every state.
SourceOK ==
    /\ kind \in {"logs", "list"}
    /\ source \subseteq Nat /\ IsFiniteSet(source)
    /\ kind = "list" => IsList(source)

\* get() of a line that is there.
LEMMA AskAround ==
    ASSUME SourceOK, NEW id \in source, NEW b \in Nat, NEW a \in Nat
    PROVE  /\ Ask(b, id, a) \subseteq source /\ id \in Ask(b, id, a)
           /\ Cardinality(Ask(b, id, a)) <= b + a + 1
           /\ Stretch(source, Ask(b, id, a))
           /\ Position(source, id) >= b => Position(Ask(b, id, a), id) = b
<1>1. IsFiniteSet(source) /\ source \subseteq Int /\ (kind = "logs" \/ IsList(source))
      /\ kind \in {"logs", "list"}
  BY DEF SourceOK
<1>2. CASE kind = "logs"
  BY <1>1, <1>2, LogsGetAround, LogsGetKeepsRow DEF Ask, Get
<1>3. CASE kind = "list"
  BY <1>1, <1>3, ListGetAround DEF Ask, Get
<1> QED BY <1>1, <1>2, <1>3

\* get() of a list and an id that need not be there.
LEMMA ListGetBounded ==
    ASSUME NEW S, IsList(S), NEW id \in Nat, NEW b \in Nat, NEW a \in Nat
    PROVE  ListGet(S, b, id, a) \subseteq S
<1>1. PICK n \in Nat : S = 0 .. n
  BY DEF IsList
<1>2. Cardinality(S) = n + 1
  BY <1>1, FS_Interval
<1>3. PICK from \in Nat : from = (IF b > id THEN 0 ELSE id - b)
  OBVIOUS
<1>4. PICK to \in Nat : to = (IF n + 1 < from + b + 1 + a THEN n + 1 ELSE from + b + 1 + a)
  OBVIOUS
<1>5. ListGet(S, b, id, a) = from .. (to - 1)
  BY <1>2, <1>3, <1>4 DEF ListGet
<1> QED BY <1>1, <1>4, <1>5

\* get() of an id that need not be there.
LEMMA AskInSource ==
    ASSUME SourceOK, NEW id \in Nat, NEW b \in Nat, NEW a \in Nat
    PROVE  Ask(b, id, a) \subseteq source
<1>1. IsFiniteSet(source) /\ source \subseteq Int /\ kind \in {"logs", "list"} /\ id \in Int
  BY DEF SourceOK
<1>2. CASE kind = "logs"
  BY <1>1, <1>2, LogsGetBounded DEF Ask, Get
<1>3. CASE kind = "list"
  BY <1>3, ListGetBounded DEF Ask, Get, SourceOK
<1> QED BY <1>1, <1>2, <1>3

-----------------------------------------------------------------------------
(* Lines that are cut off.                                                 *)

\* eraseToEqualSize() leaves no more lines than the window has rows, wherever the
\* log is.
LEMMA BalancedFits ==
    ASSUME NEW lines, IsFiniteSet(lines), lines \subseteq Nat, NEW id \in Nat, rows \in Nat \ {0}
    PROVE  /\ Balanced(lines, id) \subseteq lines
           /\ Cardinality(Balanced(lines, id)) <= rows
<1> DEFINE it == lines \cap {id}
           above == IF id \in lines THEN {x \in lines : x < id} ELSE lines
           below == (lines \ above) \ {id}
           keep == rows - Cardinality(it)
           down == keep - keep \div 2
           nBelow == IF Cardinality(below) < down THEN Cardinality(below)
                     ELSE IF Cardinality(above) < keep - down THEN keep - Cardinality(above)
                     ELSE down
<1>1. above \subseteq lines /\ below \subseteq lines /\ it \subseteq lines
  OBVIOUS
<1>2. IsFiniteSet(above) /\ IsFiniteSet(below) /\ above \subseteq Int /\ below \subseteq Int
      /\ above \subseteq Nat /\ below \subseteq Nat
  <2> HIDE DEF above, below
  <2>1. IsFiniteSet(above) /\ IsFiniteSet(below)
    BY <1>1, FS_Subset
  <2>2. above \subseteq Nat /\ below \subseteq Nat
    BY <1>1
  <2> QED BY <2>1, <2>2
<1>3. IsFiniteSet(it) /\ Cardinality(it) \in 0 .. 1
  <2>1. it = {} \/ it = {id}
    OBVIOUS
  <2> HIDE DEF it
  <2>2. CASE it = {}
    BY <2>2, FS_EmptySet
  <2>3. CASE it = {id}
    <3>1. IsFiniteSet({id}) /\ Cardinality({id}) = 1
      BY FS_Singleton
    <3> QED BY <2>3, <3>1
  <2> QED BY <2>1, <2>2, <2>3
<1>4. keep \in Nat
  <2> HIDE DEF it
  <2> QED BY <1>3
<1>5. down \in Nat /\ down <= keep
  <2> HIDE DEF keep
  <2> QED BY <1>4
<1>6. Cardinality(above) \in Nat /\ Cardinality(below) \in Nat
  <2> HIDE DEF above, below
  <2> QED BY <1>2, FS_CardinalityType
<1>7. nBelow \in Nat /\ keep - nBelow \in Nat
  <2> HIDE DEF keep, down, above, below
  <2> QED BY <1>4, <1>5, <1>6
<1> DEFINE upper == To(above, LastId(above), keep - nBelow)
           lower == From(below, FirstId(below), nBelow)
<1>8. Balanced(lines, id) = it \cup upper \cup lower
  BY DEF Balanced
<1>9. LastId(above) \in Int /\ FirstId(below) \in Int
  <2> HIDE DEF above, below
  <2> QED BY <1>2, EndsOfSource
<1>10. /\ upper \subseteq above /\ IsFiniteSet(upper) /\ Cardinality(upper) <= keep - nBelow
       /\ lower \subseteq below /\ IsFiniteSet(lower) /\ Cardinality(lower) <= nBelow
  <2> HIDE DEF above, below, keep, nBelow
  <2> QED BY <1>2, <1>7, <1>9, ToIsBounded, FromIsBounded
<1>11. keep + Cardinality(it) = rows
  <2> HIDE DEF it
  <2> QED BY <1>3
<1> HIDE DEF it, above, below, keep, down, nBelow, upper, lower
<1>12. IsFiniteSet(it \cup upper) /\ IsFiniteSet(it \cap upper)
       /\ IsFiniteSet((it \cup upper) \cap lower)
  BY <1>3, <1>10, FS_Union, FS_Intersection
<1>13. /\ Cardinality(it \cup upper) = Cardinality(it) + Cardinality(upper) - Cardinality(it \cap upper)
       /\ Cardinality((it \cup upper) \cup lower)
            = Cardinality(it \cup upper) + Cardinality(lower) - Cardinality((it \cup upper) \cap lower)
  BY <1>3, <1>10, <1>12, FS_Union
<1>14. /\ Cardinality(upper) \in Nat /\ Cardinality(lower) \in Nat /\ Cardinality(it) \in Nat
       /\ Cardinality(it \cap upper) \in Nat /\ Cardinality((it \cup upper) \cap lower) \in Nat
  BY <1>3, <1>10, <1>12, FS_CardinalityType
<1>15. Cardinality((it \cup upper) \cup lower) <= rows
  BY <1>4, <1>7, <1>10, <1>11, <1>13, <1>14
<1> QED BY <1>1, <1>8, <1>10, <1>15

\* trimFromEnd() and trimFromBegin() leave a window full, with the selection.
LEMMA TrimmedHasSelection ==
    ASSUME IsFiniteSet(buffer), buffer \subseteq Nat, selection \in buffer, NEW n \in Nat \ {0}
    PROVE  /\ Trimmed(buffer, n) \subseteq buffer /\ selection \in Trimmed(buffer, n)
           /\ Cardinality(Trimmed(buffer, n)) <= n
<1> DEFINE D == Distance
           m == IF n > D THEN n ELSE D + 1
           upper == From(buffer, FirstId(buffer), m)
<1>1. buffer \subseteq Int /\ selection \in Int /\ selection \in Nat
  OBVIOUS
<1>2. D = Position(buffer, selection) /\ D \in Nat
  BY <1>1, PositionIsNat DEF Distance
<1>3. m \in Nat /\ m >= D + 1 /\ m - 1 - D < n
  <2> HIDE DEF D
  <2> QED BY <1>2
<1>4. FirstId(buffer) \in Int /\ \A x \in buffer : FirstId(buffer) <= x
  <2>1. FirstId(buffer) = First(buffer) /\ FirstId(buffer) \in Int
    BY EndsOfSource
  <2> QED BY <1>1, <2>1, FirstIsLeast
<1>5. NotBelow(buffer, FirstId(buffer)) = buffer
  BY <1>4 DEF NotBelow
<1>6. /\ upper \subseteq buffer /\ IsFiniteSet(upper) /\ Cardinality(upper) <= m
      /\ upper \subseteq Int /\ upper \subseteq Nat
  <2> HIDE DEF m
  <2> QED BY <1>1, <1>3, <1>4, FromIsBounded
<1>7. upper = {x \in buffer : Position(buffer, x) < m}
  BY <1>5 DEF From, Position
<1>8. selection \in upper
  <2> HIDE DEF m, D
  <2> QED BY <1>2, <1>3, <1>7 DEF D
<1> DEFINE before == {x \in buffer : x < selection}
           behind == {x \in upper : x > selection}
<1>9. before \subseteq upper
  <2> SUFFICES ASSUME NEW x \in buffer, x < selection PROVE Position(buffer, x) < m
    BY <1>7
  <2>1. x \in Int
    BY <1>1
  <2>2. x <= selection
    BY <1>1, <2>1
  <2>3. Position(buffer, x) <= Position(buffer, selection)
    BY <1>1, <2>1, <2>2, PositionMonotone
  <2>4. Position(buffer, x) \in Nat
    BY <1>1, <2>1, PositionIsNat
  <2> HIDE DEF m, D
  <2> QED BY <1>2, <1>3, <2>3, <2>4
<1>10. behind = upper \ (before \cup {selection})
  <2>1. ASSUME NEW x \in upper
        PROVE  x > selection <=> ~(x < selection) /\ x # selection
    <3> HIDE DEF upper
    <3>1. x \in Int
      BY <1>6
    <3> QED BY <1>1, <3>1
  <2> HIDE DEF upper
  <2> QED BY <1>6, <2>1
<1>11. Cardinality(before) = D /\ selection \notin before /\ IsFiniteSet(before)
  <2>1. before \subseteq buffer
    OBVIOUS
  <2>2. IsFiniteSet(before)
    <3> HIDE DEF before
    <3> QED BY <2>1, FS_Subset
  <2>3. selection \notin before
    BY <1>1
  <2>4. Cardinality(before) = D
    BY <1>2 DEF Position
  <2> QED BY <2>2, <2>3, <2>4
<1>12. Cardinality(behind) < n
  <2> HIDE DEF D, m, upper, before, behind
  <2>1. IsFiniteSet(before \cup {selection}) /\ Cardinality(before \cup {selection}) = D + 1
    BY <1>11, FS_AddElement
  <2>2. upper \cap (before \cup {selection}) = before \cup {selection}
    BY <1>8, <1>9
  <2>3. Cardinality(behind) = Cardinality(upper) - (D + 1)
    <3>1. Cardinality(upper \ (before \cup {selection}))
            = Cardinality(upper) - Cardinality(upper \cap (before \cup {selection}))
      BY <1>6, FS_Difference
    <3> QED BY <1>10, <2>1, <2>2, <3>1
  <2>4. Cardinality(upper) \in Nat
    BY <1>6, FS_CardinalityType
  <2> QED BY <1>2, <1>3, <1>6, <2>3, <2>4
<1>13. LastId(upper) \in Int /\ \A x \in upper : x <= LastId(upper)
  <2> HIDE DEF upper
  <2>1. LastId(upper) = Last(upper) /\ LastId(upper) \in Int
    BY <1>6, <1>8, EndsOfSource
  <2> QED BY <1>6, <1>8, <2>1, LastIsGreatest
<1>14. NotAbove(upper, LastId(upper)) = upper
  <2> HIDE DEF upper
  <2> QED BY <1>13 DEF NotAbove
<1>15. selection \in To(upper, LastId(upper), n)
  <2> HIDE DEF upper
  <2> QED BY <1>8, <1>12, <1>14 DEF To
<1>16. To(upper, LastId(upper), n) \subseteq upper /\ Cardinality(To(upper, LastId(upper), n)) <= n
  <2> HIDE DEF upper
  <2> QED BY <1>6, <1>13, ToIsBounded
<1>17. Trimmed(buffer, n) = To(upper, LastId(upper), n)
  BY DEF Trimmed
<1> HIDE DEF upper
<1> QED BY <1>6, <1>15, <1>16, <1>17

-----------------------------------------------------------------------------
(* The inductive invariant.                                                *)

Types == TypeOK /\ SourceOK

\* The places of offsetBy().
Operation == {"update", "first", "fill", "compare", "around", "move", "jump"}

\* The selection is one of the lines, if there are any. It need not be one of
\* them after select(), which is why update() looks for it.
Settled == buffer # {} => selection \in buffer

\* The lines and the selection, at each place of the code.
Lines ==
    /\ Cardinality(buffer) <= rows
    /\ pc \in {"open", "first", "fill"} => buffer = {}
    /\ pc \notin {"fill", "fillHome", "fillEnd"} => (buffer = {} <=> selection = NoId)
    /\ pc \in {"fill", "fillHome", "fillEnd"} => selection \in source
    /\ pc \in {"compare", "around", "move", "jump"} => selection \in buffer
    /\ pc = "jump" => target \in source
    /\ pc \in {"select", "nearest"} => target \in Ids
    /\ pc = "key" => Settled

\* Where each operation goes on.
Returns ==
    /\ pc \in Operation => after \in {"opened", "loop", "key"}
    /\ pc \in {"home", "end", "fillHome", "fillEnd"} => after \in {"chosen", "loop", "refresh"}
    /\ pc \in {"select", "nearest"} => after = "loop"

\* Only on the way from the key that noticed it to refresh() does the window not
\* know the height of the terminal, and then its selection is settled.
Sizes ==
    \/ rows = screen
    \/ pc = "open"
    \/ pc \in {"loop", "refresh"} /\ Settled
    \/ pc = "end" /\ after = "refresh" /\ Settled
    \/ pc = "fillEnd" /\ after = "refresh"

\* The window is being drawn, or was.
Drawing == pc = "key" \/ (pc \in Operation /\ after = "key")

\* From the beginning of refresh() on: nothing is moved, the logs only become
\* more, and the cursor is where it was.
Drawn ==
    /\ Drawing /\ pc # "key" => offset = 0 /\ pc \notin {"move", "jump"} /\ start.source \subseteq source
    /\ Drawing /\ start.selection # NoId =>
          /\ selection = start.selection /\ selection \in buffer
          /\ start.rows = rows => Distance = start.distance
    /\ NothingLeftOut

IInv == Types /\ Lines /\ Returns /\ Sizes /\ Drawn

\* What follows from the types.
LEMMA Numbers ==
    ASSUME Types
    PROVE  /\ source \subseteq Nat /\ IsFiniteSet(source) /\ buffer \subseteq source
           /\ buffer \subseteq Nat /\ IsFiniteSet(buffer) /\ Cardinality(buffer) \in Nat
           /\ rows \in Nat \ {0} /\ screen \in Nat \ {0}
           /\ surround = rows - 1 /\ surround \in Nat
           /\ NoId \notin Nat /\ NoId \in Int /\ Ids \subseteq Nat
<1>1. /\ source \subseteq Nat /\ IsFiniteSet(source) /\ buffer \subseteq source /\ Ids \subseteq Nat
      /\ rows \in Nat \ {0} /\ screen \in Nat \ {0}
  BY IdsAssumption, HeightsAssumption DEF Types, TypeOK, SourceOK
<1>2. buffer \subseteq Nat /\ IsFiniteSet(buffer)
  BY <1>1, FS_Subset
<1>3. Cardinality(buffer) \in Nat
  BY <1>2, FS_CardinalityType
<1>4. surround = rows - 1 /\ surround \in Nat
  BY <1>1 DEF surround
<1> QED BY <1>1, <1>2, <1>3, <1>4 DEF NoId

\* A stretch of the source leaves out nothing of what was there before.
LEMMA StretchIsWhole ==
    ASSUME NEW S, NEW part, IsFiniteSet(part), part \subseteq Int, Stretch(S, part), NEW old \in SUBSET S
    PROVE  \A x \in old : part # {} /\ First(part) <= x /\ x <= Last(part) => x \in part
BY FirstIsLeast, LastIsGreatest DEF Stretch

\* The window is finite, and it is counted.
LEMMA WholeSource ==
    ASSUME Types, ~(Cardinality(buffer) < Cardinality(source))
    PROVE  buffer = source
<1>1. IsFiniteSet(source) /\ buffer \in SUBSET source /\ Cardinality(buffer) \in Nat
  BY Numbers
<1>2. Cardinality(source) \in Nat
  BY <1>1, FS_CardinalityType
<1> QED BY <1>1, <1>2, FS_Subset

LEMMA InitHolds == Init => IInv
<1> SUFFICES ASSUME Init PROVE IInv
  OBVIOUS
<1>1. source \subseteq Ids /\ IsFiniteSet(source) /\ (kind = "list" => IsList(source))
  <2>1. CASE kind = "logs"
    BY <2>1, IdsAssumption, FS_Subset DEF Init
  <2>2. CASE kind = "list"
    <3>1. PICK n \in Ids : source = 0 .. n
      BY <2>2 DEF Init
    <3>2. n \in Nat /\ 0 .. n \subseteq Ids
      BY IdsAssumption
    <3>3. IsFiniteSet(0 .. n)
      BY <3>2, FS_Interval
    <3> QED BY <3>1, <3>2, <3>3 DEF IsList
  <2> QED BY <2>1, <2>2 DEF Init
<1>2. Types
  BY <1>1, IdsAssumption, HeightsAssumption DEF Init, Types, TypeOK, SourceOK
<1>3. Lines
  BY FS_EmptySet DEF Init, Lines
<1>4. Returns /\ Sizes
  BY DEF Init, Returns, Sizes, Operation
<1>5. Drawn
  BY DEF Init, Drawn, Drawing, Operation, NothingLeftOut
<1> QED BY <1>2, <1>3, <1>4, <1>5 DEF IInv

-----------------------------------------------------------------------------
(* What each step keeps.                                                   *)

LEMMA ArriveKeeps == ASSUME IInv, Arrive PROVE IInv'
<1>1. PICK x \in Ids \ source : source' = source \cup {x}
  BY DEF Arrive
<1>2. /\ UNCHANGED <<kind, winVars, follow, pc, callVars, start>>
      /\ kind = "logs"
  BY DEF Arrive
<1>3. Types'
  <2>1. IsFiniteSet(source \cup {x})
    BY FS_AddElement DEF IInv, Types, SourceOK
  <2> QED BY <1>1, <1>2, <2>1, IdsAssumption
          DEF IInv, Types, TypeOK, SourceOK, winVars, callVars
<1>4. Lines'
  BY <1>1, <1>2 DEF IInv, Lines, Settled, winVars, callVars
<1>5. Returns' /\ Sizes'
  BY <1>2 DEF IInv, Returns, Sizes, Settled, winVars, callVars
<1>6. Drawn'
  BY <1>1, <1>2 DEF IInv, Drawn, Drawing, Distance, NothingLeftOut, winVars, callVars
<1> QED BY <1>3, <1>4, <1>5, <1>6 DEF IInv

\* The dead lines are none: the lines are in the source.
LEMMA DropDeadKeeps == ASSUME IInv, DropDead PROVE IInv'
<1>1. /\ pc = "update" /\ buffer' = buffer
      /\ selection' = IF selection \in buffer THEN selection ELSE FirstId(buffer)
      /\ pc' = IF selection' = NoId THEN "first" ELSE "compare"
      /\ UNCHANGED <<kind, source, screen, rows, follow, callVars, start>>
  BY DEF DropDead, IInv, Types, TypeOK
<1>2. buffer \subseteq source /\ buffer \subseteq Nat /\ IsFiniteSet(buffer) /\ NoId \notin Nat
  BY Numbers DEF IInv
<1>3. /\ buffer # {} => selection' \in buffer /\ selection' # NoId
      /\ buffer = {} => selection' = NoId
  BY <1>1, <1>2, EndsOfSource
<1>4. Types'
  BY <1>1, <1>2, <1>3 DEF IInv, Types, TypeOK, SourceOK, callVars
<1>5. Lines'
  BY <1>1, <1>2, <1>3 DEF IInv, Lines, Settled
<1>6. Returns' /\ Sizes'
  BY <1>1 DEF IInv, Returns, Sizes, Operation, callVars
<1>7. Drawn'
  BY <1>1 DEF IInv, Drawn, Drawing, Operation, Distance, NothingLeftOut, callVars
<1> QED BY <1>4, <1>5, <1>6, <1>7 DEF IInv

LEMMA BeginWithFirstKeeps == ASSUME IInv, BeginWithFirst PROVE IInv'
<1>1. /\ pc = "first" /\ buffer' = buffer /\ buffer = {}
      /\ selection' = FirstId(source)
      /\ pc' = IF source = {} THEN after ELSE "fill"
      /\ after \in {"opened", "loop", "key"}
      /\ UNCHANGED <<kind, source, screen, rows, follow, callVars, start>>
  BY DEF BeginWithFirst, IInv, Lines, Returns, Operation
<1>2. source \subseteq Nat /\ IsFiniteSet(source)
  BY Numbers DEF IInv
<1>3. /\ source # {} => selection' \in source
      /\ source = {} => selection' = NoId
  BY <1>1, <1>2, EndsOfSource
<1>4. Types'
  BY <1>1, <1>3 DEF IInv, Types, TypeOK, SourceOK, callVars
<1>5. Lines'
  BY <1>1, <1>3 DEF IInv, Lines, Settled
<1>6. Returns' /\ Sizes'
  BY <1>1 DEF IInv, Returns, Sizes, Operation, callVars
<1>7. Drawn'
  BY <1>1 DEF IInv, Drawn, Drawing, Operation, NothingLeftOut, callVars
<1> QED BY <1>4, <1>5, <1>6, <1>7 DEF IInv

\* What the lines around a selection are, where there are rows - 1 others.
LEMMA WindowOfLines ==
    ASSUME Types, NEW id \in source, NEW b \in Nat, NEW a \in Nat, b + a <= surround
    PROVE  /\ Ask(b, id, a) \subseteq source /\ id \in Ask(b, id, a) /\ id # NoId
           /\ Cardinality(Ask(b, id, a)) <= rows
           /\ IsFiniteSet(Ask(b, id, a)) /\ Ask(b, id, a) \subseteq Int
           /\ Stretch(source, Ask(b, id, a))
           /\ Position(source, id) >= b => Position(Ask(b, id, a), id) = b
<1>1. /\ SourceOK /\ source \subseteq Nat /\ IsFiniteSet(source) /\ NoId \notin Nat
      /\ rows \in Nat /\ surround = rows - 1
  BY Numbers DEF Types
<1> DEFINE A == Ask(b, id, a)
<1>2. /\ A \subseteq source /\ id \in A /\ Cardinality(A) <= b + a + 1
      /\ Stretch(source, A) /\ (Position(source, id) >= b => Position(A, id) = b)
  BY <1>1, AskAround
<1> HIDE DEF A
<1>3. IsFiniteSet(A) /\ A \subseteq Int
  <2>1. IsFiniteSet(A)
    BY <1>1, <1>2, FS_Subset
  <2>2. A \subseteq Int
    BY <1>1, <1>2
  <2> QED BY <2>1, <2>2
<1>4. Cardinality(A) \in Nat
  BY <1>3, FS_CardinalityType
<1>5. Cardinality(A) <= rows
  BY <1>1, <1>2, <1>4
<1> QED BY <1>1, <1>2, <1>3, <1>5 DEF A

LEMMA FillFromFirstKeeps == ASSUME IInv, FillFromFirst PROVE IInv'
<1>1. /\ pc = "fill" /\ buffer' = Ask(0, selection, surround) /\ pc' = "compare"
      /\ buffer = {} /\ selection \in source
      /\ after \in {"opened", "loop", "key"}
      /\ UNCHANGED <<kind, source, screen, rows, selection, follow, callVars, start>>
  BY DEF FillFromFirst, IInv, Lines, Returns, Operation
<1>2. surround \in Nat
  BY Numbers DEF IInv
<1>3. /\ buffer' \subseteq source /\ selection \in buffer' /\ selection # NoId
      /\ Cardinality(buffer') <= rows
  BY <1>1, <1>2, WindowOfLines DEF IInv
<1>4. Types'
  BY <1>1, <1>3 DEF IInv, Types, TypeOK, SourceOK, callVars
<1>5. Lines'
  BY <1>1, <1>3 DEF IInv, Lines
<1>6. Returns' /\ Sizes'
  BY <1>1 DEF IInv, Returns, Sizes, Operation, callVars
<1>7. Drawn'
  BY <1>1 DEF IInv, Drawn, Drawing, Operation, NothingLeftOut, callVars
<1> QED BY <1>4, <1>5, <1>6, <1>7 DEF IInv

LEMMA CompareKeeps == ASSUME IInv, Compare PROVE IInv'
<1>1. /\ pc = "compare" /\ selection \in buffer
      /\ pc' = (IF Cardinality(buffer) < Cardinality(source) THEN "around"
                ELSE IF offset = 0 THEN after ELSE "move")
      /\ after \in {"opened", "loop", "key"}
      /\ UNCHANGED <<kind, source, screen, rows, buffer, selection, follow, after, offset, target, start>>
  BY DEF Compare, IInv, Lines, Returns, Operation, winVars, callVars
<1>2. /\ buffer \subseteq source /\ buffer \subseteq Nat /\ buffer \subseteq Int /\ IsFiniteSet(buffer)
      /\ NoId \notin Nat
  BY Numbers DEF IInv
<1>3. Types'
  BY <1>1 DEF IInv, Types, TypeOK, SourceOK
<1>4. Lines'
  BY <1>1, <1>2 DEF IInv, Lines, Settled
<1>5. Returns' /\ Sizes'
  BY <1>1 DEF IInv, Returns, Sizes, Operation
<1>6. ASSUME pc' = "key"
      PROVE  /\ start.source \subseteq source /\ Stretch(source, buffer)
  <2>1. ~(Cardinality(buffer) < Cardinality(source)) /\ after = "key"
    BY <1>1, <1>6
  <2>2. buffer = source
    BY <2>1, WholeSource DEF IInv
  <2>3. start.source \subseteq source
    BY <1>1, <2>1 DEF IInv, Drawn, Drawing, Operation
  <2> QED BY <2>2, <2>3 DEF Stretch
<1>7. NothingLeftOut'
  <2>1. ASSUME pc' = "key"
        PROVE  \A x \in start.source : buffer # {} /\ First(buffer) <= x /\ x <= Last(buffer) => x \in buffer
    BY <1>2, <1>6, <2>1, StretchIsWhole
  <2> QED BY <1>1, <2>1 DEF NothingLeftOut
<1>8. Drawn'
  BY <1>1, <1>7 DEF IInv, Drawn, Drawing, Operation, Distance
<1> QED BY <1>3, <1>4, <1>5, <1>8 DEF IInv

LEMMA FillAroundKeeps == ASSUME IInv, FillAround PROVE IInv'
<1>1. /\ pc = "around" /\ selection \in buffer
      /\ buffer' = Ask(Distance, selection, surround - Distance)
      /\ pc' = (IF offset = 0 THEN after ELSE "move")
      /\ after \in {"opened", "loop", "key"}
      /\ UNCHANGED <<kind, source, screen, rows, selection, follow, after, offset, target, start>>
  BY DEF FillAround, IInv, Lines, Returns, Operation, callVars
<1>2. /\ buffer \subseteq source /\ buffer \subseteq Nat /\ buffer \subseteq Int /\ IsFiniteSet(buffer)
      /\ source \subseteq Int /\ IsFiniteSet(source) /\ selection \in Int
      /\ NoId \notin Nat /\ Cardinality(buffer) \in Nat /\ Cardinality(buffer) <= rows
      /\ rows \in Nat /\ surround = rows - 1
  BY <1>1, Numbers DEF IInv, Lines
<1>3. Distance = Position(buffer, selection)
  BY <1>1 DEF Distance
<1>4. Distance \in Nat /\ Distance < Cardinality(buffer)
  BY <1>1, <1>2, <1>3, PositionInSet
<1>5. surround - Distance \in Nat /\ Distance + (surround - Distance) <= surround
  BY <1>2, <1>4
<1>6. Position(source, selection) >= Distance
  <2> DEFINE Here == {j \in buffer : j < selection}
             There == {j \in source : j < selection}
  <2>1. Here \subseteq There /\ There \subseteq source
    BY <1>2
  <2>2. Distance = Cardinality(Here) /\ Position(source, selection) = Cardinality(There)
    BY <1>3 DEF Position
  <2> HIDE DEF Here, There
  <2>3. IsFiniteSet(There)
    BY <1>2, <2>1, FS_Subset
  <2>4. Cardinality(There) \in Nat /\ Cardinality(Here) <= Cardinality(There)
    BY <2>1, <2>3, FS_Subset, FS_CardinalityType
  <2> QED BY <1>4, <2>2, <2>4
<1>7. /\ buffer' \subseteq source /\ selection \in buffer' /\ selection # NoId
      /\ Cardinality(buffer') <= rows
      /\ IsFiniteSet(buffer') /\ buffer' \subseteq Int /\ Stretch(source, buffer')
      /\ Position(buffer', selection) = Distance
  BY <1>1, <1>2, <1>4, <1>5, <1>6, WindowOfLines DEF IInv
<1>8. Distance' = Distance
  BY <1>1, <1>7 DEF Distance
<1>9. Types'
  BY <1>1, <1>7 DEF IInv, Types, TypeOK, SourceOK
<1>10. Lines'
  BY <1>1, <1>7 DEF IInv, Lines, Settled
<1>11. Returns' /\ Sizes'
  BY <1>1 DEF IInv, Returns, Sizes, Operation
<1>12. NothingLeftOut'
  <2>1. ASSUME pc' = "key"
        PROVE  \A x \in start.source :
                 buffer' # {} /\ First(buffer') <= x /\ x <= Last(buffer') => x \in buffer'
    <3>1. start.source \subseteq source
      BY <1>1, <2>1 DEF IInv, Drawn, Drawing, Operation
    <3> QED BY <1>7, <3>1, StretchIsWhole
  <2> QED BY <1>1, <1>7, <2>1 DEF NothingLeftOut
<1>13. Drawn'
  BY <1>1, <1>7, <1>8, <1>12 DEF IInv, Drawn, Drawing, Operation
<1> QED BY <1>9, <1>10, <1>11, <1>13 DEF IInv

\* moveSelection() finds the selection at least.
LEMMA MoveKeeps == ASSUME IInv, Move PROVE IInv'
<1> DEFINE lines == IF offset > 0 THEN Ask(0, selection, offset) ELSE Ask(-offset, selection, 0)
           moved == IF offset > 0 THEN LastId(lines) ELSE FirstId(lines)
<1>1. /\ pc = "move" /\ selection \in buffer
      /\ \/ moved = NoId /\ pc' = after /\ UNCHANGED <<selection, target>>
         \/ moved \in buffer /\ pc' = after /\ selection' = moved /\ UNCHANGED target
         \/ moved # NoId /\ pc' = "jump" /\ target' = moved /\ UNCHANGED selection
      /\ after \in {"opened", "loop", "key"}
      /\ UNCHANGED <<kind, source, screen, rows, buffer, follow, after, offset, start>>
  BY DEF Move, IInv, Lines, Returns, Operation
<1>2. /\ buffer \subseteq source /\ source \subseteq Nat /\ source \subseteq Int /\ IsFiniteSet(source)
      /\ NoId \notin Nat /\ source \subseteq Ids
  BY Numbers DEF IInv, Types, TypeOK
<1>3. offset \in Int
  BY HeightsAssumption DEF IInv, Types, TypeOK
<1>4. lines \subseteq source
  <2>1. CASE offset > 0
    <3>1. 0 \in Nat /\ offset \in Nat /\ selection \in Nat
      BY <1>1, <1>2, <1>3, <2>1
    <3> QED BY <2>1, <3>1, AskInSource DEF IInv, Types
  <2>2. CASE ~(offset > 0)
    <3>1. 0 \in Nat /\ -offset \in Nat /\ selection \in Nat
      BY <1>1, <1>2, <1>3, <2>2
    <3> QED BY <2>2, <3>1, AskInSource DEF IInv, Types
  <2> QED BY <2>1, <2>2
<1>5. moved # NoId => moved \in source
  <2> HIDE DEF lines
  <2>1. IsFiniteSet(lines) /\ lines \subseteq Nat
    BY <1>2, <1>4, FS_Subset
  <2> QED BY <1>4, <2>1, EndsOfSource
<1>6. ~(after = "key")
  BY <1>1 DEF IInv, Drawn, Drawing, Operation
<1> HIDE DEF lines, moved
<1>7. Types'
  BY <1>1, <1>2, <1>5 DEF IInv, Types, TypeOK, SourceOK
<1>8. Lines'
  BY <1>1, <1>2, <1>5 DEF IInv, Lines, Settled
<1>9. Returns' /\ Sizes'
  BY <1>1 DEF IInv, Returns, Sizes, Operation
<1>10. Drawn'
  BY <1>1, <1>6 DEF IInv, Drawn, Drawing, Operation, NothingLeftOut
<1> QED BY <1>7, <1>8, <1>9, <1>10 DEF IInv

LEMMA JumpKeeps == ASSUME IInv, Jump PROVE IInv'
<1>1. /\ pc = "jump" /\ target \in source
      /\ buffer' = (IF offset < 0 THEN Ask(0, target, surround) ELSE Ask(surround, target, 0))
      /\ selection' = target /\ pc' = after
      /\ after \in {"opened", "loop", "key"} /\ after # "key"
      /\ UNCHANGED <<kind, source, screen, rows, follow, after, offset, target, start>>
  BY DEF Jump, IInv, Lines, Returns, Operation, Drawn, Drawing, callVars
<1>2. surround \in Nat /\ 0 \in Nat /\ surround + 0 <= surround /\ 0 + surround <= surround
  BY Numbers DEF IInv
<1>3. /\ buffer' \subseteq source /\ target \in buffer' /\ target # NoId
      /\ Cardinality(buffer') <= rows
  BY <1>1, <1>2, WindowOfLines DEF IInv
<1>4. Types'
  BY <1>1, <1>3 DEF IInv, Types, TypeOK, SourceOK
<1>5. Lines'
  BY <1>1, <1>3 DEF IInv, Lines, Settled
<1>6. Returns' /\ Sizes'
  BY <1>1 DEF IInv, Returns, Sizes, Operation
<1>7. Drawn'
  BY <1>1 DEF IInv, Drawn, Drawing, Operation, NothingLeftOut
<1> QED BY <1>4, <1>5, <1>6, <1>7 DEF IInv

\* The lines of select() may be without the log, and with none the selection is
\* dropped too.
LEMMA SelectKeeps == ASSUME IInv, Select PROVE IInv'
<1>1. /\ pc = "select" /\ target \in Ids /\ pc' = after /\ after = "loop" /\ rows = screen
      /\ UNCHANGED <<kind, source, screen, rows, follow, after, offset, target, start>>
  BY DEF Select, IInv, Lines, Returns, Sizes, Operation, callVars
<1>2. /\ source \subseteq Nat /\ IsFiniteSet(source) /\ NoId \notin Nat /\ Ids \subseteq Nat
      /\ rows \in Nat \ {0} /\ surround \in Nat /\ target \in Nat /\ target # NoId
  BY <1>1, Numbers DEF IInv
<1>3. /\ buffer' \subseteq source /\ Cardinality(buffer') <= rows
      /\ (buffer' = {} <=> selection' = NoId)
      /\ selection' \in Ids \cup {NoId}
  <2>1. CASE selection = target
    <3>1. UNCHANGED <<buffer, selection>>
      BY <2>1 DEF Select
    <3> QED BY <1>1, <3>1 DEF IInv, Types, TypeOK, Lines
  <2>2. CASE selection # target
    <3> DEFINE lines == Ask(surround, target, surround)
    <3>1. buffer' = Fitting(lines, target) /\ selection' = IF buffer' = {} THEN NoId ELSE target
      BY <2>2 DEF Select
    <3>2. lines \subseteq source
      BY <1>2, AskInSource DEF IInv, Types
    <3> HIDE DEF lines
    <3>3. IsFiniteSet(lines) /\ lines \subseteq Nat /\ Cardinality(lines) \in Nat
      <4>1. IsFiniteSet(lines)
        BY <1>2, <3>2, FS_Subset
      <4>2. Cardinality(lines) \in Nat
        BY <4>1, FS_CardinalityType
      <4> QED BY <1>2, <3>2, <4>1, <4>2
    <3>4. Fitting(lines, target) \subseteq lines /\ Cardinality(Fitting(lines, target)) <= rows
      <4>1. CASE Cardinality(lines) > rows
        BY <1>2, <3>3, <4>1, BalancedFits DEF Fitting
      <4>2. CASE ~(Cardinality(lines) > rows)
        BY <1>2, <3>3, <4>2 DEF Fitting
      <4> QED BY <4>1, <4>2
    <3> QED BY <1>1, <1>2, <3>1, <3>2, <3>4
  <2> QED BY <2>1, <2>2
<1>4. Types'
  BY <1>1, <1>3 DEF IInv, Types, TypeOK, SourceOK
<1>5. Lines'
  BY <1>1, <1>3 DEF IInv, Lines
<1>6. Returns' /\ Sizes'
  BY <1>1 DEF IInv, Returns, Sizes, Operation
<1>7. Drawn'
  BY <1>1 DEF Drawn, Drawing, Operation, NothingLeftOut
<1> QED BY <1>4, <1>5, <1>6, <1>7 DEF IInv

LEMMA FindNearestKeeps == ASSUME IInv, FindNearest PROVE IInv'
<1>1. /\ pc = "nearest" /\ target \in Ids /\ after = "loop" /\ rows = screen
      /\ \/ pc' = after /\ UNCHANGED target
         \/ pc' = "select" /\ target' \in Nearest(source, target)
      /\ UNCHANGED <<kind, source, screen, rows, buffer, selection, follow, after, offset, start>>
  BY DEF FindNearest, IInv, Lines, Returns, Sizes, Operation, winVars
<1>2. /\ source \subseteq Int /\ IsFiniteSet(source) /\ source \subseteq Ids /\ target \in Int
      /\ 1 \in Nat
  BY <1>1, Numbers DEF IInv, Types, TypeOK
<1>3. Nearest(source, target) \subseteq source
  BY <1>2, ToIsBounded, FromIsBounded DEF Nearest
<1>4. target' \in Ids
  BY <1>1, <1>2, <1>3
<1>5. Types'
  BY <1>1, <1>4 DEF IInv, Types, TypeOK, SourceOK
<1>6. Lines'
  BY <1>1, <1>4 DEF IInv, Lines
<1>7. Returns' /\ Sizes'
  BY <1>1 DEF IInv, Returns, Sizes, Operation
<1>8. Drawn'
  BY <1>1 DEF Drawn, Drawing, Operation, NothingLeftOut
<1> QED BY <1>5, <1>6, <1>7, <1>8 DEF IInv

\* The source of a window that has lines is not empty.
LEMMA SelectEndKeeps == ASSUME IInv, SelectEnd PROVE IInv'
<1>1. /\ pc \in {"home", "end"} /\ buffer' = buffer
      /\ selection' \in {FirstId(source), LastId(source)}
      /\ pc' = (IF source = {} THEN after ELSE IF pc = "home" THEN "fillHome" ELSE "fillEnd")
      /\ after \in {"chosen", "loop", "refresh"}
      /\ UNCHANGED <<kind, source, screen, rows, follow, after, offset, target, start>>
  BY DEF SelectEnd, IInv, Returns, callVars
<1>2. buffer \subseteq source /\ source \subseteq Nat /\ IsFiniteSet(source) /\ source \subseteq Ids
  BY Numbers DEF IInv, Types, TypeOK
<1>3. /\ source # {} => selection' \in source
      /\ source = {} => selection' = NoId /\ buffer' = {}
  BY <1>1, <1>2, EndsOfSource
<1>4. Types'
  BY <1>1, <1>2, <1>3 DEF IInv, Types, TypeOK, SourceOK
<1>5. Lines'
  BY <1>1, <1>3 DEF IInv, Lines, Settled
<1>6. Returns' /\ Sizes'
  BY <1>1, <1>3 DEF IInv, Returns, Sizes, Settled, Operation
<1>7. Drawn'
  BY <1>1 DEF Drawn, Drawing, Operation, NothingLeftOut
<1> QED BY <1>4, <1>5, <1>6, <1>7 DEF IInv

LEMMA FillEndKeeps == ASSUME IInv, FillEnd PROVE IInv'
<1>1. /\ pc \in {"fillHome", "fillEnd"} /\ selection \in source
      /\ buffer' = (IF pc = "fillHome" THEN Ask(0, selection, surround) ELSE Ask(surround, selection, 0))
      /\ pc' = after /\ after \in {"chosen", "loop", "refresh"}
      /\ UNCHANGED <<kind, source, screen, rows, selection, follow, after, offset, target, start>>
  BY DEF FillEnd, IInv, Lines, Returns, Operation, callVars
<1>2. surround \in Nat /\ 0 \in Nat /\ surround + 0 <= surround /\ 0 + surround <= surround
  BY Numbers DEF IInv
<1>3. /\ buffer' \subseteq source /\ selection \in buffer' /\ selection # NoId
      /\ Cardinality(buffer') <= rows
  BY <1>1, <1>2, WindowOfLines DEF IInv
<1>4. Types'
  BY <1>1, <1>3 DEF IInv, Types, TypeOK, SourceOK
<1>5. Lines'
  BY <1>1, <1>3 DEF IInv, Lines, Settled
<1>6. Returns' /\ Sizes'
  BY <1>1, <1>3 DEF IInv, Returns, Sizes, Settled, Operation
<1>7. Drawn'
  BY <1>1 DEF Drawn, Drawing, Operation, NothingLeftOut
<1> QED BY <1>4, <1>5, <1>6, <1>7 DEF IInv

-----------------------------------------------------------------------------
(* The keys, the loop and a new window.                                    *)

\* What leaves the lines and the source alone, and does not draw.
LEMMA QuietStep ==
    ASSUME IInv,
           UNCHANGED <<kind, source, rows, buffer, start>>,
           screen' \in Heights, follow' \in BOOLEAN,
           after' \in {"opened", "chosen", "loop", "refresh", "key"},
           offset' \in {-1, 1} \cup Heights \cup {-h : h \in Heights} \cup {0},
           selection' \in Ids \cup {NoId}, target' \in Ids \cup {NoId},
           buffer = {} <=> selection' = NoId,
           Returns', Sizes',
           \/ pc' \in {"opened", "chosen", "loop", "refresh", "home", "end"}
           \/ pc' = "update" /\ after' # "key"
           \/ pc' \in {"select", "nearest"} /\ target' \in Ids
    PROVE  IInv'
<1>1. Types'
  BY DEF IInv, Types, TypeOK, SourceOK
<1>2. Lines'
  BY DEF IInv, Lines
<1>3. Drawn'
  BY DEF Drawn, Drawing, Operation, NothingLeftOut
<1> QED BY <1>1, <1>2, <1>3 DEF IInv

\* What the lemma asks of the variables that a step leaves alone.
LEMMA QuietTypes ==
    ASSUME IInv
    PROVE  /\ screen \in Heights /\ follow \in BOOLEAN
           /\ after \in {"opened", "chosen", "loop", "refresh", "key"}
           /\ offset \in {-1, 1} \cup Heights \cup {-h : h \in Heights} \cup {0}
           /\ selection \in Ids \cup {NoId} /\ target \in Ids \cup {NoId}
BY DEF IInv, Types, TypeOK

LEMMA LoopKeeps == ASSUME IInv, Loop PROVE IInv'
<1>1. /\ pc = "loop" /\ pc' \in {"end", "refresh"} /\ after' = "refresh"
      /\ UNCHANGED <<kind, source, screen, rows, buffer, selection, follow, offset, target, start>>
  BY DEF Loop, winVars
<1>2. buffer = {} <=> selection' = NoId
  BY <1>1 DEF IInv, Lines
<1>3. Returns'
  BY <1>1 DEF Returns, Operation
<1>4. Sizes'
  BY <1>1 DEF IInv, Sizes, Settled
<1> QED BY <1>1, <1>2, <1>3, <1>4, QuietTypes, QuietStep

LEMMA PressMoveKeeps == ASSUME IInv, PressMove PROVE IInv'
<1>1. /\ pc = "key" /\ pc' = "update" /\ after' = "loop" /\ follow' = FALSE
      /\ offset' \in {-1, 1, -rows, rows}
      /\ UNCHANGED <<kind, source, screen, rows, buffer, selection, target, start>>
  BY DEF PressMove, Press
<1>2. offset' \in {-1, 1} \cup Heights \cup {-h : h \in Heights} \cup {0}
  <2>1. rows \in Heights \cup {1}
    BY DEF IInv, Types, TypeOK
  <2>2. CASE rows \in Heights
    BY <1>1, <2>2
  <2>3. CASE rows = 1
    BY <1>1, <2>3
  <2> QED BY <2>1, <2>2, <2>3
<1>3. buffer = {} <=> selection' = NoId
  BY <1>1 DEF IInv, Lines
<1>4. Returns' /\ Sizes'
  BY <1>1 DEF IInv, Returns, Sizes, Settled, Operation
<1> QED BY <1>1, <1>2, <1>3, <1>4, QuietTypes, QuietStep

LEMMA PressEndKeeps == ASSUME IInv, PressEnd PROVE IInv'
<1>1. /\ pc = "key" /\ pc' \in {"home", "end"} /\ after' = "loop" /\ follow' = FALSE
      /\ UNCHANGED <<kind, source, screen, rows, buffer, selection, offset, target, start>>
  BY DEF PressEnd, Press
<1>2. buffer = {} <=> selection' = NoId
  BY <1>1 DEF IInv, Lines
<1>3. Returns' /\ Sizes'
  BY <1>1 DEF IInv, Returns, Sizes, Settled, Operation
<1> QED BY <1>1, <1>2, <1>3, QuietTypes, QuietStep

\* There is a line at each of the three rows.
LEMMA PressVisibleKeeps == ASSUME IInv, PressVisible PROVE IInv'
<1>1. /\ pc = "key" /\ pc' = "loop" /\ after' = "loop" /\ follow' = FALSE
      /\ UNCHANGED <<kind, source, screen, rows, buffer, offset, target, start>>
  BY DEF PressVisible, Press
<1>2. /\ buffer \subseteq Nat /\ buffer \subseteq Int /\ IsFiniteSet(buffer) /\ Cardinality(buffer) \in Nat
      /\ buffer \subseteq Ids /\ NoId \notin Nat
  BY Numbers DEF IInv, Types, TypeOK
<1>3. /\ buffer = {} => selection' = NoId
      /\ buffer # {} => selection' \in buffer
  <2>1. CASE buffer = {}
    BY <1>1, <2>1 DEF PressVisible, IInv, Lines
  <2>2. CASE buffer # {}
    <3>1. PICK n \in {0, Cardinality(buffer) \div 2, Cardinality(buffer) - 1} :
            selection' = CHOOSE x \in buffer : Position(buffer, x) = n
      BY <2>2 DEF PressVisible
    <3>2. Cardinality(buffer) # 0
      BY <1>2, <2>2, FS_EmptySet
    <3>3. n \in Nat /\ n < Cardinality(buffer)
      BY <1>2, <3>2
    <3>4. \E x \in buffer : Position(buffer, x) = n
      BY <1>2, <3>3, EveryPositionIsTaken
    <3> QED BY <2>2, <3>1, <3>4
  <2> QED BY <2>1, <2>2
<1>4. /\ buffer = {} <=> selection' = NoId
      /\ selection' \in Ids \cup {NoId}
  BY <1>2, <1>3
<1>5. Returns'
  BY <1>1 DEF Returns, Operation
<1>6. Sizes'
  BY <1>1, <1>3 DEF IInv, Sizes, Settled
<1> QED BY <1>1, <1>4, <1>5, <1>6, QuietTypes, QuietStep

LEMMA PressGotoKeeps == ASSUME IInv, PressGoto PROVE IInv'
<1>1. /\ pc = "key" /\ pc' \in {"select", "nearest"} /\ after' = "loop" /\ follow' = FALSE
      /\ target' \in Ids
      /\ UNCHANGED <<kind, source, screen, rows, buffer, selection, offset, start>>
  BY DEF PressGoto, Press, IInv, Types, TypeOK
<1>2. buffer = {} <=> selection' = NoId
  BY <1>1 DEF IInv, Lines
<1>3. Returns' /\ Sizes'
  BY <1>1 DEF IInv, Returns, Sizes, Settled, Operation
<1> QED BY <1>1, <1>2, <1>3, QuietTypes, QuietStep

LEMMA BackToLoopKeeps == ASSUME IInv, PressFollow \/ NoKey \/ ResizeTerminal PROVE IInv'
<1>1. /\ pc = "key" /\ pc' = "loop" /\ follow' \in BOOLEAN /\ screen' \in Heights
      /\ UNCHANGED <<kind, source, rows, buffer, selection, after, offset, target, start>>
  BY QuietTypes DEF PressFollow, NoKey, ResizeTerminal, winVars, callVars
<1>2. buffer = {} <=> selection' = NoId
  BY <1>1 DEF IInv, Lines
<1>3. Returns' /\ Sizes'
  BY <1>1 DEF IInv, Lines, Returns, Sizes, Settled, Operation
<1> QED BY <1>1, <1>2, <1>3, QuietTypes, QuietStep

LEMMA OpenedKeeps == ASSUME IInv, Opened \/ Choose PROVE IInv'
<1>1. /\ pc \in {"opened", "chosen"} /\ pc' \in {"end", "chosen", "loop", "select"}
      /\ after' = (IF pc = "opened" THEN "chosen" ELSE "loop")
      /\ pc' = "select" => pc = "chosen" /\ target' \in Ids
      /\ target' = target \/ target' \in Ids
      /\ UNCHANGED <<kind, source, screen, rows, buffer, selection, follow, offset, start>>
  BY DEF Opened, Choose, winVars, IInv, Types, TypeOK
<1>2. buffer = {} <=> selection' = NoId
  BY <1>1 DEF IInv, Lines
<1>3. Returns'
  BY <1>1 DEF Returns, Operation
<1>4. Sizes'
  BY <1>1 DEF IInv, Sizes, Settled
<1>5. target' \in Ids \cup {NoId}
  BY <1>1, QuietTypes
<1> QED BY <1>1, <1>2, <1>3, <1>4, <1>5, QuietTypes, QuietStep

\* resize(): a window that is not too small keeps its lines, and one that is keeps
\* the selection, which is among them.
LEMMA ResizeTrims ==
    ASSUME IInv, pc \in {"open", "refresh"}, Resize(screen)
    PROVE  /\ rows' = screen /\ offset' = 0 /\ pc' = "update"
           /\ buffer' \subseteq buffer /\ Cardinality(buffer') <= screen
           /\ buffer' = {} <=> selection = NoId
           /\ selection \in buffer => selection \in buffer'
           /\ rows = screen => buffer' = buffer
<1>1. /\ rows' = screen /\ offset' = 0 /\ pc' = "update"
      /\ buffer' = IF Cardinality(buffer) > screen /\ selection # NoId THEN Trimmed(buffer, screen) ELSE buffer
  BY DEF Resize
<1>2. /\ buffer \subseteq Nat /\ IsFiniteSet(buffer) /\ Cardinality(buffer) \in Nat
      /\ screen \in Nat \ {0} /\ rows \in Nat
  BY Numbers DEF IInv
<1>3. Cardinality(buffer) <= rows /\ (buffer = {} <=> selection = NoId)
  BY DEF IInv, Lines
<1>4. CASE Cardinality(buffer) > screen
  <2>1. buffer # {}
    BY <1>2, <1>4, FS_EmptySet
  <2>2. pc = "refresh" /\ rows # screen
    <3>1. pc # "open"
      BY <2>1 DEF IInv, Lines
    <3> QED BY <1>2, <1>3, <1>4, <3>1
  <2>3. selection \in buffer
    BY <2>1, <2>2 DEF IInv, Sizes, Settled
  <2>4. /\ Trimmed(buffer, screen) \subseteq buffer /\ selection \in Trimmed(buffer, screen)
        /\ Cardinality(Trimmed(buffer, screen)) <= screen
    BY <1>2, <2>3, TrimmedHasSelection
  <2> QED BY <1>1, <1>3, <1>4, <2>1, <2>2, <2>4
<1>5. CASE ~(Cardinality(buffer) > screen)
  BY <1>1, <1>2, <1>3, <1>5
<1> QED BY <1>4, <1>5

LEMMA RefreshKeeps == ASSUME IInv, Refresh PROVE IInv'
<1>1. /\ pc = "refresh" /\ Resize(screen) /\ after' = "key"
      /\ start' = [source |-> source, rows |-> rows, distance |-> Distance,
                   selection |-> IF selection \in buffer THEN selection ELSE NoId]
      /\ UNCHANGED <<kind, source, screen, selection, follow, target>>
  BY DEF Refresh
<1>2. /\ rows' = screen /\ offset' = 0 /\ pc' = "update"
      /\ buffer' \subseteq buffer /\ Cardinality(buffer') <= screen
      /\ buffer' = {} <=> selection = NoId
      /\ selection \in buffer => selection \in buffer'
      /\ rows = screen => buffer' = buffer
  BY <1>1, ResizeTrims
<1>3. Types'
  BY <1>1, <1>2 DEF IInv, Types, TypeOK, SourceOK
<1>4. Lines'
  BY <1>1, <1>2 DEF Lines
<1>5. Returns' /\ Sizes'
  BY <1>1, <1>2 DEF Returns, Sizes, Operation
<1>6. /\ start'.source = source /\ start'.rows = rows /\ start'.distance = Distance
      /\ start'.selection = IF selection \in buffer THEN selection ELSE NoId
  BY <1>1
<1>7. rows = screen => Distance' = Distance
  BY <1>1, <1>2 DEF Distance
<1>8. Drawn'
  BY <1>1, <1>2, <1>6, <1>7 DEF Drawn, Drawing, Operation, NothingLeftOut
<1> QED BY <1>3, <1>4, <1>5, <1>8 DEF IInv

LEMMA OpenKeeps == ASSUME IInv, Open PROVE IInv'
<1>1. /\ pc = "open" /\ Resize(screen) /\ after' = "opened"
      /\ UNCHANGED <<kind, source, screen, selection, follow, target, start>>
  BY DEF Open
<1>2. /\ rows' = screen /\ offset' = 0 /\ pc' = "update"
      /\ buffer' \subseteq buffer /\ Cardinality(buffer') <= screen
      /\ buffer' = {} <=> selection = NoId
  BY <1>1, ResizeTrims
<1>3. Types'
  BY <1>1, <1>2 DEF IInv, Types, TypeOK, SourceOK
<1>4. Lines'
  BY <1>1, <1>2 DEF Lines
<1>5. Returns' /\ Sizes'
  BY <1>1, <1>2 DEF Returns, Sizes, Operation
<1>6. Drawn'
  BY <1>1, <1>2 DEF Drawn, Drawing, NothingLeftOut
<1> QED BY <1>3, <1>4, <1>5, <1>6 DEF IInv

LEMMA StepKeeps == IInv /\ [Next]_vars => IInv'
<1> SUFFICES ASSUME IInv, [Next]_vars PROVE IInv'
  OBVIOUS
<1>1. CASE UNCHANGED vars
  BY <1>1 DEF vars, winVars, callVars, IInv, Types, TypeOK, SourceOK, Lines, Settled, Returns, Sizes,
              Drawn, Drawing, Distance, NothingLeftOut
<1>2. CASE Work
  <2>1. CASE DropDead \/ BeginWithFirst \/ FillFromFirst \/ Compare \/ FillAround \/ Move \/ Jump
    BY <2>1, DropDeadKeeps, BeginWithFirstKeeps, FillFromFirstKeeps, CompareKeeps, FillAroundKeeps,
       MoveKeeps, JumpKeeps
  <2>2. CASE Select \/ FindNearest \/ SelectEnd \/ FillEnd
    BY <2>2, SelectKeeps, FindNearestKeeps, SelectEndKeeps, FillEndKeeps
  <2>3. CASE Loop \/ Refresh \/ Open \/ Opened \/ Choose
    BY <2>3, LoopKeeps, RefreshKeeps, OpenKeeps, OpenedKeeps
  <2> QED BY <1>2, <2>1, <2>2, <2>3 DEF Work
<1>3. CASE Keys \/ NoKey \/ ResizeTerminal
  BY <1>3, PressMoveKeeps, PressEndKeeps, PressVisibleKeeps, PressGotoKeeps, BackToLoopKeeps DEF Keys
<1>4. CASE Arrive
  BY <1>4, ArriveKeeps
<1> QED BY <1>1, <1>2, <1>3, <1>4 DEF Next

-----------------------------------------------------------------------------
(* The theorems.                                                           *)

\* The inductive invariant holds in every state, however high the terminal is and
\* whatever arrives between two calls of the data source.
THEOREM Invariance == Spec => []IInv
<1>1. Init => IInv
  BY InitHolds
<1>2. IInv /\ [Next]_vars => IInv'
  BY StepKeeps
<1> QED BY <1>1, <1>2, PTL DEF Spec

LEMMA AssertionsFollow == IInv => Inv
<1> SUFFICES ASSUME IInv PROVE AssertionsHold
  BY DEF Inv, IInv, Types
<1>1. /\ buffer \subseteq Nat /\ buffer \subseteq Int /\ IsFiniteSet(buffer) /\ Cardinality(buffer) \in Nat
      /\ screen \in Nat \ {0} /\ rows \in Nat /\ NoId \notin Nat
  BY Numbers DEF IInv
<1>2. Cardinality(buffer) <= rows
  BY DEF IInv, Lines
<1>3. ASSUME pc \in {"compare", "around", "move", "jump"}
      PROVE  buffer # {} /\ selection # NoId /\ Distance < rows
  <2>1. selection \in buffer
    BY <1>3 DEF IInv, Lines
  <2>2. Distance = Position(buffer, selection)
    BY <2>1 DEF Distance
  <2>3. Distance \in Nat /\ Distance < Cardinality(buffer)
    BY <1>1, <2>1, <2>2, PositionInSet
  <2> QED BY <1>1, <1>2, <2>1, <2>3
<1>4. ASSUME pc = "refresh", Cardinality(buffer) > screen
      PROVE  selection \in buffer
  <2>1. buffer # {}
    BY <1>1, <1>4, FS_EmptySet
  <2>2. rows # screen
    BY <1>1, <1>2, <1>4
  <2> QED BY <1>4, <2>1, <2>2 DEF IInv, Sizes, Settled
<1>5. pc = "key" /\ selection # NoId => buffer # {}
  BY DEF IInv, Lines
<1> QED BY <1>2, <1>3, <1>4, <1>5 DEF AssertionsHold

\* The assertions of the window hold: there are never more lines than rows, the
\* window is compared with its source only when it has lines and a selection, and
\* trimmed only when the selection is among its lines.
THEOREM AssertionsOfWindow == Spec => []Inv
BY Invariance, AssertionsFollow, PTL

\* What is drawn is a stretch of the source with nothing left out of it, and has
\* the selection in it.
THEOREM DrawnWithoutGaps == Spec => []NothingLeftOut
<1>1. IInv => NothingLeftOut
  BY DEF IInv, Drawn
<1> QED BY <1>1, Invariance, PTL

\* Drawing leaves the cursor on its log and the log on its row, whatever arrives
\* above it and below it meanwhile.
THEOREM DrawingKeepsCursor == Spec => []CursorStays
<1>1. IInv => CursorStays
  BY DEF IInv, Drawn, Drawing, CursorStays
<1> QED BY <1>1, Invariance, PTL

-----------------------------------------------------------------------------
(* The walks through a log: functions of the number of steps.              *)

LEMMA SetInduction ==
    ASSUME NEW S, 0 \in S, \A n \in Nat : n \in S => n + 1 \in S
    PROVE  Nat \subseteq S
<1> DEFINE Bad == {n \in Nat : n \notin S}
<1> SUFFICES ASSUME Bad # {} PROVE FALSE
  OBVIOUS
<1>1. IsWellFoundedOn(OpToRel(<, Nat), Nat)
  BY NatLessThanWellFounded
<1>2. PICK n \in Bad : \A m \in Bad : <<m, n>> \notin OpToRel(<, Nat)
  <2>1. Bad \subseteq Nat
    OBVIOUS
  <2> HIDE DEF Bad
  <2> QED BY <1>1, <2>1, WFMin
<1>3. n \in Nat /\ n # 0 /\ n - 1 \in Nat
  OBVIOUS
<1>4. n - 1 \notin S
  <2>1. n = (n - 1) + 1
    BY <1>3
  <2> QED BY <1>3, <2>1
<1>5. <<n - 1, n>> \in OpToRel(<, Nat)
  BY <1>3 DEF OpToRel
<1> QED BY <1>2, <1>3, <1>4, <1>5

LEMMA ReachedUnfolds ==
    ASSUME NEW node, NEW entries, Len(entries) \in Nat
    PROVE  /\ Reached(node, entries)[0] = {node}
           /\ \A n \in 1 .. Len(entries) :
                 Reached(node, entries)[n] =
                     UNION {Step(next, entries[n], n = Len(entries)) : next \in Reached(node, entries)[n - 1]}
<1> DEFINE On(n, S) == UNION {Step(next, entries[n], n = Len(entries)) : next \in S}
           Solves(f) == f = [n \in 0 .. Len(entries) |-> IF n = 0 THEN {node} ELSE On(n, f[n - 1])]
           Walk(f, m) == f[0] = {node} /\ \A n \in 1 .. m : f[n] = On(n, f[n - 1])
           N == {m \in Nat : \E f : DOMAIN f = 0 .. m /\ f = [n \in 0 .. m |-> f[n]] /\ Walk(f, m)}
           r == CHOOSE f : Solves(f)
<1>1. Reached(node, entries) = r
  BY DEF Reached
<1> HIDE DEF On
<1>2. 0 \in N
  <2> DEFINE f == [n \in 0 .. 0 |-> {node}]
  <2>1. DOMAIN f = 0 .. 0 /\ f = [n \in 0 .. 0 |-> f[n]] /\ Walk(f, 0)
    OBVIOUS
  <2> HIDE DEF f
  <2> QED BY <2>1
<1>3. ASSUME NEW m \in Nat, m \in N PROVE m + 1 \in N
  <2>1. PICK f : DOMAIN f = 0 .. m /\ Walk(f, m)
    BY <1>3
  <2> DEFINE g == [n \in 0 .. m + 1 |-> IF n = m + 1 THEN On(m + 1, f[m]) ELSE f[n]]
  <2>2. DOMAIN g = 0 .. m + 1 /\ g = [n \in 0 .. m + 1 |-> g[n]]
    OBVIOUS
  <2>3. g[0] = {node}
    BY <2>1
  <2>4. ASSUME NEW n \in 1 .. m + 1 PROVE g[n] = On(n, g[n - 1])
    <3>1. CASE n = m + 1
      <4>1. g[n] = On(m + 1, f[m]) /\ g[n - 1] = f[m]
        BY <3>1
      <4> QED BY <3>1, <4>1
    <3>2. CASE n # m + 1
      <4>1. g[n] = f[n] /\ g[n - 1] = f[n - 1] /\ n \in 1 .. m
        BY <3>2
      <4> QED BY <2>1, <4>1
    <3> QED BY <3>1, <3>2
  <2> HIDE DEF g
  <2>5. Walk(g, m + 1)
    BY <2>3, <2>4
  <2> HIDE DEF Walk
  <2> QED BY <2>2, <2>5
<1>4. Len(entries) \in N
  <2> HIDE DEF N
  <2>1. Nat \subseteq N
    BY <1>2, <1>3, SetInduction
  <2> QED BY <2>1
<1>5. PICK f : f = [n \in 0 .. Len(entries) |-> f[n]] /\ Walk(f, Len(entries))
  BY <1>4
<1>6. Solves(f)
  <2>1. ASSUME NEW n \in 0 .. Len(entries) PROVE f[n] = IF n = 0 THEN {node} ELSE On(n, f[n - 1])
    <3>1. CASE n = 0
      BY <1>5, <3>1
    <3>2. CASE n # 0
      <4>1. n \in 1 .. Len(entries)
        BY <3>2
      <4> QED BY <1>5, <3>2, <4>1
    <3> QED BY <3>1, <3>2
  <2> QED BY <1>5, <2>1
<1>7. Solves(r)
  <2> HIDE DEF Solves
  <2> QED BY <1>6
<1> HIDE DEF r
<1>8. DOMAIN r = 0 .. Len(entries) /\ r[0] = {node}
  BY <1>7
<1>9. ASSUME NEW n \in 1 .. Len(entries) PROVE r[n] = On(n, r[n - 1])
  <2>1. n \in 0 .. Len(entries) /\ n # 0
    BY <1>1
  <2> QED BY <1>7, <2>1
<1> QED BY <1>1, <1>8, <1>9 DEF On

LEMMA FieldsUnfold ==
    ASSUME NEW node
    PROVE  /\ DOMAIN FieldsBelow(node) = 0 .. MaxDepth
           /\ FieldsBelow(node)[0] = {node}
           /\ \A n \in 1 .. MaxDepth :
                 FieldsBelow(node)[n] = UNION {Fields(next) : next \in FieldsBelow(node)[n - 1]}
<1> DEFINE On(S) == UNION {Fields(next) : next \in S}
           Solves(f) == f = [n \in 0 .. MaxDepth |-> IF n = 0 THEN {node} ELSE On(f[n - 1])]
           Walk(f, m) == f[0] = {node} /\ \A n \in 1 .. m : f[n] = On(f[n - 1])
           N == {m \in Nat : \E f : DOMAIN f = 0 .. m /\ f = [n \in 0 .. m |-> f[n]] /\ Walk(f, m)}
           r == CHOOSE f : Solves(f)
<1>1. FieldsBelow(node) = r
  BY DEF FieldsBelow
<1> HIDE DEF On
<1>2. 0 \in N
  <2> DEFINE f == [n \in 0 .. 0 |-> {node}]
  <2>1. DOMAIN f = 0 .. 0 /\ f = [n \in 0 .. 0 |-> f[n]] /\ Walk(f, 0)
    OBVIOUS
  <2> HIDE DEF f
  <2> QED BY <2>1
<1>3. ASSUME NEW m \in Nat, m \in N PROVE m + 1 \in N
  <2>1. PICK f : DOMAIN f = 0 .. m /\ Walk(f, m)
    BY <1>3
  <2> DEFINE g == [n \in 0 .. m + 1 |-> IF n = m + 1 THEN On(f[m]) ELSE f[n]]
  <2>2. DOMAIN g = 0 .. m + 1 /\ g = [n \in 0 .. m + 1 |-> g[n]]
    OBVIOUS
  <2>3. g[0] = {node}
    BY <2>1
  <2>4. ASSUME NEW n \in 1 .. m + 1 PROVE g[n] = On(g[n - 1])
    <3>1. CASE n = m + 1
      <4>1. g[n] = On(f[m]) /\ g[n - 1] = f[m]
        BY <3>1
      <4> QED BY <3>1, <4>1
    <3>2. CASE n # m + 1
      <4>1. g[n] = f[n] /\ g[n - 1] = f[n - 1] /\ n \in 1 .. m
        BY <3>2
      <4> QED BY <2>1, <4>1
    <3> QED BY <3>1, <3>2
  <2> HIDE DEF g
  <2>5. Walk(g, m + 1)
    BY <2>3, <2>4
  <2> HIDE DEF Walk
  <2> QED BY <2>2, <2>5
<1>4. MaxDepth \in N
  <2> HIDE DEF N
  <2>1. Nat \subseteq N
    BY <1>2, <1>3, SetInduction
  <2> QED BY <2>1, MaxDepthAssumption
<1>5. PICK f : f = [n \in 0 .. MaxDepth |-> f[n]] /\ Walk(f, MaxDepth)
  BY <1>4
<1>6. Solves(f)
  <2>1. ASSUME NEW n \in 0 .. MaxDepth PROVE f[n] = IF n = 0 THEN {node} ELSE On(f[n - 1])
    <3>1. CASE n = 0
      BY <1>5, <3>1
    <3>2. CASE n # 0
      <4>1. n \in 1 .. MaxDepth
        BY <3>2, MaxDepthAssumption
      <4> QED BY <1>5, <3>2, <4>1
    <3> QED BY <3>1, <3>2
  <2> QED BY <1>5, <2>1
<1>7. Solves(r)
  <2> HIDE DEF Solves
  <2> QED BY <1>6
<1> HIDE DEF r
<1>8. DOMAIN r = 0 .. MaxDepth /\ r[0] = {node}
  BY <1>7, MaxDepthAssumption
<1>9. ASSUME NEW n \in 1 .. MaxDepth PROVE r[n] = On(r[n - 1])
  <2>1. n \in 0 .. MaxDepth /\ n # 0
    BY MaxDepthAssumption
  <2> QED BY <1>7, <2>1
<1> QED BY <1>1, <1>8, <1>9 DEF On

LEMMA PlacesUnfold ==
    ASSUME NEW json
    PROVE  /\ DOMAIN PlacesIn(json) = 0 .. MaxDepth
           /\ PlacesIn(json)[0] = {[way |-> <<>>, value |-> json]}
           /\ \A n \in 1 .. MaxDepth :
                 PlacesIn(json)[n] = UNION {Inside(place) : place \in PlacesIn(json)[n - 1]}
<1> DEFINE On(S) == UNION {Inside(place) : place \in S}
           Solves(f) == f = [n \in 0 .. MaxDepth |-> IF n = 0 THEN {[way |-> <<>>, value |-> json]} ELSE On(f[n - 1])]
           Walk(f, m) == f[0] = {[way |-> <<>>, value |-> json]} /\ \A n \in 1 .. m : f[n] = On(f[n - 1])
           N == {m \in Nat : \E f : DOMAIN f = 0 .. m /\ f = [n \in 0 .. m |-> f[n]] /\ Walk(f, m)}
           r == CHOOSE f : Solves(f)
<1>1. PlacesIn(json) = r
  BY DEF PlacesIn
<1> HIDE DEF On
<1>2. 0 \in N
  <2> DEFINE f == [n \in 0 .. 0 |-> {[way |-> <<>>, value |-> json]}]
  <2>1. DOMAIN f = 0 .. 0 /\ f = [n \in 0 .. 0 |-> f[n]] /\ Walk(f, 0)
    OBVIOUS
  <2> HIDE DEF f
  <2> QED BY <2>1
<1>3. ASSUME NEW m \in Nat, m \in N PROVE m + 1 \in N
  <2>1. PICK f : DOMAIN f = 0 .. m /\ Walk(f, m)
    BY <1>3
  <2> DEFINE g == [n \in 0 .. m + 1 |-> IF n = m + 1 THEN On(f[m]) ELSE f[n]]
  <2>2. DOMAIN g = 0 .. m + 1 /\ g = [n \in 0 .. m + 1 |-> g[n]]
    OBVIOUS
  <2>3. g[0] = {[way |-> <<>>, value |-> json]}
    BY <2>1
  <2>4. ASSUME NEW n \in 1 .. m + 1 PROVE g[n] = On(g[n - 1])
    <3>1. CASE n = m + 1
      <4>1. g[n] = On(f[m]) /\ g[n - 1] = f[m]
        BY <3>1
      <4> QED BY <3>1, <4>1
    <3>2. CASE n # m + 1
      <4>1. g[n] = f[n] /\ g[n - 1] = f[n - 1] /\ n \in 1 .. m
        BY <3>2
      <4> QED BY <2>1, <4>1
    <3> QED BY <3>1, <3>2
  <2> HIDE DEF g
  <2>5. Walk(g, m + 1)
    BY <2>3, <2>4
  <2> HIDE DEF Walk
  <2> QED BY <2>2, <2>5
<1>4. MaxDepth \in N
  <2> HIDE DEF N
  <2>1. Nat \subseteq N
    BY <1>2, <1>3, SetInduction
  <2> QED BY <2>1, MaxDepthAssumption
<1>5. PICK f : f = [n \in 0 .. MaxDepth |-> f[n]] /\ Walk(f, MaxDepth)
  BY <1>4
<1>6. Solves(f)
  <2>1. ASSUME NEW n \in 0 .. MaxDepth PROVE f[n] = IF n = 0 THEN {[way |-> <<>>, value |-> json]} ELSE On(f[n - 1])
    <3>1. CASE n = 0
      BY <1>5, <3>1
    <3>2. CASE n # 0
      <4>1. n \in 1 .. MaxDepth
        BY <3>2, MaxDepthAssumption
      <4> QED BY <1>5, <3>2, <4>1
    <3> QED BY <3>1, <3>2
  <2> QED BY <1>5, <2>1
<1>7. Solves(r)
  <2> HIDE DEF Solves
  <2> QED BY <1>6
<1> HIDE DEF r
<1>8. DOMAIN r = 0 .. MaxDepth /\ r[0] = {[way |-> <<>>, value |-> json]}
  BY <1>7, MaxDepthAssumption
<1>9. ASSUME NEW n \in 1 .. MaxDepth PROVE r[n] = On(r[n - 1])
  <2>1. n \in 0 .. MaxDepth /\ n # 0
    BY MaxDepthAssumption
  <2> QED BY <1>7, <2>1
<1> QED BY <1>1, <1>8, <1>9 DEF On

\* A way of n steps.
IsWay(w, n) == w \in [1 .. n -> {w[i] : i \in 1 .. n}]

LEMMA OneStepMore ==
    ASSUME NEW n \in Nat, NEW w, IsWay(w, n), NEW e
    PROVE  /\ Len(w) = n
           /\ IsWay(Append(w, e), n + 1)
           /\ Append(w, e)[n + 1] = e
           /\ \A i \in 1 .. n : Append(w, e)[i] = w[i]
<1> DEFINE S == {w[i] : i \in 1 .. n} \cup {e}
<1>1. w \in Seq(S) /\ Len(w) = n /\ e \in S
  <2>1. w \in [1 .. n -> S]
    BY DEF IsWay
  <2> HIDE DEF S
  <2>2. w \in Seq(S) /\ Len(w) = n
    BY <2>1
  <2> QED BY <2>2 DEF S
<1> HIDE DEF S
<1>2. /\ Append(w, e) \in Seq(S) /\ Len(Append(w, e)) = n + 1
      /\ Append(w, e)[n + 1] = e
      /\ \A i \in 1 .. n : Append(w, e)[i] = w[i]
  BY <1>1
<1>3. Append(w, e) \in [1 .. n + 1 -> S]
  <2> SUFFICES ASSUME NEW x \in Seq(S), Len(x) = n + 1 PROVE x \in [1 .. n + 1 -> S]
    BY <1>2
  <2> QED OBVIOUS
<1>4. IsWay(Append(w, e), n + 1)
  BY <1>3 DEF IsWay
<1> QED BY <1>1, <1>2, <1>4

\* The same, to be cited where much else is known.
WayOn(w, n, e) == Append(w, e)[n + 1] = e /\ \A i \in 1 .. n : Append(w, e)[i] = w[i]

LEMMA StepsStay == \A n \in Nat : \A w, e : IsWay(w, n) => WayOn(w, n, e)
  BY OneStepMore DEF WayOn

\* The value v is one step inside a place.
Leads(place, e, v) ==
    \/ /\ place.value.is = "object"
       /\ \E k \in DOMAIN place.value.fields :
             \/ e = Named(k) /\ v = place.value.fields[k]
             \/ /\ place.value.fields[k].is = "array"
                /\ \E i \in DOMAIN place.value.fields[k].items :
                      e = ItemIn(k, i) /\ v = place.value.fields[k].items[i]
    \/ /\ place.value.is = "array"
       /\ Len(place.way) > 0 /\ place.way[Len(place.way)].item # NoIndex
       /\ \E i \in DOMAIN place.value.items : e = Unnamed(i) /\ v = place.value.items[i]

LEMMA InsideIs ==
    ASSUME NEW place
    PROVE  /\ \A e, v : Leads(place, e, v) => At(place, e, v) \in Inside(place)
           /\ \A p \in Inside(place) : \E e, v : Leads(place, e, v) /\ p = At(place, e, v)
<1>1. ASSUME NEW e, NEW v, Leads(place, e, v) PROVE At(place, e, v) \in Inside(place)
  BY <1>1, "object" # "array" DEF Leads, Inside
<1>2. ASSUME NEW p \in Inside(place) PROVE \E e, v : Leads(place, e, v) /\ p = At(place, e, v)
  <2>1. CASE place.value.is = "object"
    <3> DEFINE F == place.value.fields
    <3>1. CASE \E k \in DOMAIN F : p = At(place, Named(k), F[k])
      BY <2>1, <3>1 DEF Leads
    <3>2. CASE \E k \in DOMAIN F : F[k].is = "array" /\ \E i \in DOMAIN F[k].items : p = At(place, ItemIn(k, i), F[k].items[i])
      BY <2>1, <3>2 DEF Leads
    <3>3. \/ \E k \in DOMAIN F : p = At(place, Named(k), F[k])
          \/ \E k \in DOMAIN F : F[k].is = "array" /\ \E i \in DOMAIN F[k].items : p = At(place, ItemIn(k, i), F[k].items[i])
      BY <2>1 DEF Inside
    <3> QED BY <3>1, <3>2, <3>3
  <2>2. CASE place.value.is # "object"
    <3>1. /\ place.value.is = "array" /\ Len(place.way) > 0 /\ place.way[Len(place.way)].item # NoIndex
          /\ \E i \in DOMAIN place.value.items : p = At(place, Unnamed(i), place.value.items[i])
      BY <2>2 DEF Inside
    <3> QED BY <3>1 DEF Leads
  <2> QED BY <2>1, <2>2
<1> QED BY <1>1, <1>2

LEMMA PlacesGoOn ==
    ASSUME NEW json, NEW n \in Nat, n < MaxDepth, NEW p \in PlacesIn(json)[n], NEW e, NEW v, Leads(p, e, v)
    PROVE  At(p, e, v) \in PlacesIn(json)[n + 1]
<1>1. n + 1 \in 1 .. MaxDepth /\ (n + 1) - 1 = n
  BY MaxDepthAssumption
<1>2. PlacesIn(json)[n + 1] = UNION {Inside(place) : place \in PlacesIn(json)[n]}
  BY <1>1, PlacesUnfold
<1>3. At(p, e, v) \in Inside(p)
  BY InsideIs
<1> QED BY <1>2, <1>3

LEMMA PlacesCome ==
    ASSUME NEW json, NEW n \in Nat, n < MaxDepth, NEW q \in PlacesIn(json)[n + 1]
    PROVE  \E p \in PlacesIn(json)[n] : \E e : Leads(p, e, q.value) /\ q.way = Append(p.way, e)
<1>1. n + 1 \in 1 .. MaxDepth /\ (n + 1) - 1 = n
  BY MaxDepthAssumption
<1>2. PlacesIn(json)[n + 1] = UNION {Inside(place) : place \in PlacesIn(json)[n]}
  BY <1>1, PlacesUnfold
<1>3. PICK p \in PlacesIn(json)[n] : q \in Inside(p)
  BY <1>2
<1>4. PICK e, v : Leads(p, e, v) /\ q = At(p, e, v)
  BY <1>3, InsideIs
<1>5. q.value = v /\ q.way = Append(p.way, e)
  BY <1>4 DEF At
<1> QED BY <1>4, <1>5

LEMMA WaysOfPlaces ==
    ASSUME NEW json, NEW n \in Nat, n <= MaxDepth, NEW p \in PlacesIn(json)[n]
    PROVE  IsWay(p.way, n)
<1> DEFINE N == {m \in Nat : m <= MaxDepth => \A q \in PlacesIn(json)[m] : IsWay(q.way, m)}
<1>1. 0 \in N
  <2>1. PlacesIn(json)[0] = {[way |-> <<>>, value |-> json]}
    BY PlacesUnfold
  <2>2. IsWay(<<>>, 0)
    BY DEF IsWay
  <2> QED BY <2>1, <2>2
<1>2. ASSUME NEW m \in Nat, m \in N PROVE m + 1 \in N
  <2> SUFFICES ASSUME m + 1 <= MaxDepth, NEW q \in PlacesIn(json)[m + 1] PROVE IsWay(q.way, m + 1)
    OBVIOUS
  <2>1. m < MaxDepth
    BY MaxDepthAssumption
  <2>2. PICK o \in PlacesIn(json)[m] : \E e : Leads(o, e, q.value) /\ q.way = Append(o.way, e)
    BY <2>1, PlacesCome
  <2>3. IsWay(o.way, m)
    BY <1>2, <2>1, MaxDepthAssumption
  <2> QED BY <2>2, <2>3, OneStepMore
<1>3. n \in N
  <2> HIDE DEF N
  <2> QED BY <1>1, <1>2, SetInduction
<1> QED BY <1>3

\* The steps there are: to a field, to an item of a field, and one without name.
LEMMA KindsOfSteps ==
    ASSUME NEW json, IsJson(json), NEW n \in Nat, n <= MaxDepth, NEW p \in PlacesIn(json)[n],
           NEW e, NEW v, Leads(p, e, v)
    PROVE  /\ n < MaxDepth
           /\ \/ /\ p.value.is = "object" /\ e.name \in DOMAIN p.value.fields
                 /\ e.item = NoIndex /\ v = p.value.fields[e.name]
              \/ /\ p.value.is = "object" /\ e.name \in DOMAIN p.value.fields
                 /\ p.value.fields[e.name].is = "array"
                 /\ e.item \in Nat /\ e.item + 1 \in DOMAIN p.value.fields[e.name].items
                 /\ v = p.value.fields[e.name].items[e.item + 1]
              \/ p.value.is = "array" /\ e.name = "" /\ e.item \in Nat
<1>1. n < MaxDepth
  <2> SUFFICES ASSUME n = MaxDepth PROVE FALSE
    BY MaxDepthAssumption
  <2>1. Inside(p) = {}
    BY DEF IsJson
  <2> QED BY <2>1, InsideIs
<1>2. \A m \in 0 .. MaxDepth : \A q \in PlacesIn(json)[m] :
         q.value.is = "array" => q.value.items \in Seq(Range(q.value.items))
  <2> SUFFICES ASSUME NEW m \in 0 .. MaxDepth, NEW q \in PlacesIn(json)[m]
               PROVE  q \in Places(json)
    BY DEF IsJson
  <2>1. m \in DOMAIN PlacesIn(json)
    BY PlacesUnfold
  <2> QED BY <2>1 DEF Places, Range
<1>3. \A m \in 0 .. MaxDepth : \A q \in PlacesIn(json)[m] :
         q.value.is = "array" => \A i \in DOMAIN q.value.items : i \in Nat \ {0}
  BY <1>2
<1>4. CASE p.value.is = "object"
  <2>1. PICK k \in DOMAIN p.value.fields :
             \/ e = Named(k) /\ v = p.value.fields[k]
             \/ /\ p.value.fields[k].is = "array"
                /\ \E i \in DOMAIN p.value.fields[k].items :
                      e = ItemIn(k, i) /\ v = p.value.fields[k].items[i]
    BY <1>4, "object" # "array" DEF Leads
  <2>2. CASE e = Named(k) /\ v = p.value.fields[k]
    BY <1>1, <1>4, <2>2 DEF Named
  <2>3. CASE p.value.fields[k].is = "array" /\ \E i \in DOMAIN p.value.fields[k].items :
                      e = ItemIn(k, i) /\ v = p.value.fields[k].items[i]
    <3>1. PICK i \in DOMAIN p.value.fields[k].items : e = ItemIn(k, i) /\ v = p.value.fields[k].items[i]
      BY <2>3
    <3>2. Leads(p, Named(k), p.value.fields[k])
      BY <1>4 DEF Leads
    <3>3. At(p, Named(k), p.value.fields[k]) \in PlacesIn(json)[n + 1]
      BY <1>1, <3>2, PlacesGoOn
    <3>4. At(p, Named(k), p.value.fields[k]).value = p.value.fields[k]
      BY DEF At
    <3>5. n + 1 \in 0 .. MaxDepth
      BY <1>1, MaxDepthAssumption
    <3>6. i \in Nat \ {0}
      BY <1>3, <2>3, <3>3, <3>4, <3>5
    <3>7. e.name = k /\ e.item = i - 1
      BY <3>1 DEF ItemIn
    <3>8. e.item \in Nat /\ e.item + 1 = i
      BY <3>6, <3>7
    <3> QED BY <1>1, <1>4, <2>3, <3>1, <3>7, <3>8
  <2> QED BY <2>1, <2>2, <2>3
<1>5. CASE p.value.is # "object"
  <2>1. p.value.is = "array"
    BY <1>5 DEF Leads
  <2>2. PICK i \in DOMAIN p.value.items : e = Unnamed(i)
    BY <1>5 DEF Leads
  <2>3. i \in Nat \ {0}
    BY <1>1, <1>3, <2>1, MaxDepthAssumption
  <2>4. e.name = "" /\ e.item = i - 1
    BY <2>2 DEF Unnamed, ItemIn
  <2>5. i - 1 \in Nat
    BY <2>3
  <2> QED BY <1>1, <2>1, <2>4, <2>5
<1> QED BY <1>4, <1>5

-----------------------------------------------------------------------------
(* What a path finds is what is at the places it says.                     *)

LEMMA NullHasNothing == Null.is # "object" /\ Null.is # "array"
  BY DEF Null

LEMMA ItemsAreSequences ==
    ASSUME NEW json, IsJson(json), NEW n \in Nat, n <= MaxDepth, NEW p \in PlacesIn(json)[n],
           p.value.is = "object", NEW k \in DOMAIN p.value.fields, p.value.fields[k].is = "array"
    PROVE  p.value.fields[k].items \in Seq(Range(p.value.fields[k].items))
<1> DEFINE q == At(p, Named(k), p.value.fields[k])
<1>1. Leads(p, Named(k), p.value.fields[k])
  BY DEF Leads
<1>2. n < MaxDepth
  BY <1>1, KindsOfSteps
<1>3. q \in PlacesIn(json)[n + 1] /\ q.value = p.value.fields[k]
  BY <1>1, <1>2, PlacesGoOn DEF At
<1>4. n + 1 \in DOMAIN PlacesIn(json)
  BY <1>2, PlacesUnfold, MaxDepthAssumption
<1>5. q \in Places(json)
  BY <1>3, <1>4 DEF Places, Range
<1> HIDE DEF q
<1> QED BY <1>3, <1>5 DEF IsJson

\* An entry of a path leads to places inside.
LEMMA StepsLead ==
    ASSUME NEW json, IsJson(json), NEW n \in Nat, n <= MaxDepth, NEW p \in PlacesIn(json)[n],
           NEW entry \in Entries, NEW isLast \in BOOLEAN, NEW v \in Step(p.value, entry, isLast)
    PROVE  \E e : Leads(p, e, v) /\ Fits(e, entry)
<1> DEFINE F == p.value.fields
           next == F[entry.name]
<1>1. Has(p.value, entry)
  BY DEF Step
<1>2. p.value.is = "object" /\ entry.name \in DOMAIN F
  BY <1>1 DEF Has
<1>3. entry.index \in Nat \cup {NoIndex} /\ entry.isArray \in BOOLEAN
  BY DEF Entries
<1>4. CASE ~entry.isArray
  <2>1. v = next
    BY <1>1, <1>4 DEF Step
  <2>2. Leads(p, Named(entry.name), v)
    BY <1>2, <2>1 DEF Leads
  <2>3. Fits(Named(entry.name), entry)
    BY <1>4 DEF Fits, Named
  <2> QED BY <2>2, <2>3
<1>5. CASE entry.isArray
  <2>1. next.is = "array"
    BY <1>1, <1>5 DEF Step
  <2>2. \E i \in DOMAIN next.items : v = next.items[i] /\ entry.index \in {NoIndex, i - 1}
    <3> HIDE DEF next
    <3>1. IF entry.index = NoIndex THEN v \in Range(next.items)
          ELSE v \in (IF entry.index < Len(next.items) THEN {next.items[entry.index + 1]} ELSE {})
      BY <1>1, <1>5, <2>1 DEF Step, next
    <3>2. CASE entry.index = NoIndex
      BY <3>1, <3>2 DEF Range
    <3>3. CASE entry.index # NoIndex
      <4>1. entry.index < Len(next.items) /\ v = next.items[entry.index + 1]
        BY <3>1, <3>3
      <4>2. entry.index \in Nat
        BY <1>3, <3>3
      <4>3. next.items \in Seq(Range(next.items))
        BY <1>2, <2>1, ItemsAreSequences DEF next
      <4>4. entry.index + 1 \in DOMAIN next.items /\ entry.index = (entry.index + 1) - 1
        BY <4>1, <4>2, <4>3
      <4> QED BY <4>1, <4>4
    <3> QED BY <3>2, <3>3
  <2>3. PICK i \in DOMAIN next.items : v = next.items[i] /\ entry.index \in {NoIndex, i - 1}
    BY <2>2
  <2>4. Leads(p, ItemIn(entry.name, i), v)
    BY <1>2, <2>1, <2>3 DEF Leads
  <2>5. next.items \in Seq(Range(next.items))
    BY <1>2, <2>1, ItemsAreSequences
  <2>6. i - 1 # NoIndex
    BY <2>5 DEF NoIndex
  <2>7. Fits(ItemIn(entry.name, i), entry)
    BY <1>5, <2>3, <2>6 DEF Fits, ItemIn
  <2> QED BY <2>4, <2>7
<1> QED BY <1>3, <1>4, <1>5

\* A place inside is what an entry of a path leads to.
LEMMA LeadsByStep ==
    ASSUME NEW json, IsJson(json), NEW n \in Nat, n <= MaxDepth, NEW p \in PlacesIn(json)[n],
           NEW entry \in Entries, NEW isLast \in BOOLEAN, NEW e, NEW v,
           Leads(p, e, v), Fits(e, entry), v # Null, isLast \/ v.is # "array"
    PROVE  p.value.is = "object" /\ v \in Step(p.value, entry, isLast)
<1> DEFINE F == p.value.fields
           next == F[entry.name]
<1>0. \/ e.name = ""
      \/ /\ p.value.is = "object" /\ e.name \in DOMAIN F
         /\ e.item = NoIndex /\ v = F[e.name]
      \/ /\ p.value.is = "object" /\ e.name \in DOMAIN F /\ F[e.name].is = "array"
         /\ e.item \in Nat /\ e.item + 1 \in DOMAIN F[e.name].items
         /\ v = F[e.name].items[e.item + 1]
  BY KindsOfSteps
<1>1. e.name = entry.name /\ entry.name # ""
  BY DEF Fits, Entries
<1>2. p.value.is = "object" /\ entry.name \in DOMAIN F
  BY <1>0, <1>1
<1>3. entry.isArray \in BOOLEAN
  BY DEF Entries
<1>4. CASE ~entry.isArray
  <2>1. e.item = NoIndex
    BY <1>4 DEF Fits
  <2>2. v = next
    <3>1. NoIndex \notin Nat
      BY DEF NoIndex
    <3> QED BY <1>0, <1>1, <2>1, <3>1
  <2>3. Has(p.value, entry)
    BY <1>2, <2>2 DEF Has
  <2> QED BY <1>2, <1>4, <2>2, <2>3 DEF Step
<1>5. CASE entry.isArray
  <2>1. e.item # NoIndex /\ entry.index \in {NoIndex, e.item}
    BY <1>5 DEF Fits
  <2>2. next.is = "array" /\ e.item \in Nat /\ e.item + 1 \in DOMAIN next.items /\ v = next.items[e.item + 1]
    BY <1>0, <1>1, <2>1
  <2>3. Has(p.value, entry)
    BY <1>2, <2>2, NullHasNothing DEF Has
  <2>4. next.items \in Seq(Range(next.items))
    BY <1>2, <2>2, ItemsAreSequences
  <2>5. e.item < Len(next.items)
    <3>1. Len(next.items) \in Nat /\ DOMAIN next.items = 1 .. Len(next.items)
      BY <2>4
    <3> HIDE DEF next
    <3> QED BY <2>2, <3>1
  <2>6. v \in Range(next.items)
    BY <2>2 DEF Range
  <2>7. CASE entry.index = NoIndex
    <3> HIDE DEF next
    <3> QED BY <1>2, <1>5, <2>2, <2>3, <2>6, <2>7 DEF Step, next
  <2>8. CASE entry.index # NoIndex
    <3>1. entry.index = e.item
      BY <2>1, <2>8
    <3> HIDE DEF next
    <3> QED BY <1>2, <1>5, <2>2, <2>3, <2>5, <2>8, <3>1 DEF Step, next
  <2> QED BY <1>2, <2>7, <2>8
<1> QED BY <1>3, <1>4, <1>5

\* A place with the value v, behind q and n entries more.
Behind(json, entries, q, m, n, v) ==
    /\ m + n <= MaxDepth
    /\ \E p \in PlacesIn(json)[m + n] :
          /\ p.value = v
          /\ \A i \in 1 .. m : p.way[i] = q.way[i]
          /\ \A i \in 1 .. n : Fits(p.way[m + i], entries[i])

LEMMA ReachedIsBehind ==
    ASSUME NEW json, IsJson(json), NEW entries \in Seq(Entries),
           NEW m \in Nat, m <= MaxDepth, NEW q \in PlacesIn(json)[m],
           NEW n \in Nat, n <= Len(entries), NEW v \in Reached(q.value, entries)[n]
    PROVE  Behind(json, entries, q, m, n, v)
<1> DEFINE R == Reached(q.value, entries)
           N == {k \in Nat : k <= Len(entries) => \A w \in R[k] : Behind(json, entries, q, m, k, w)}
<1>0. Len(entries) \in Nat
  OBVIOUS
<1>1. 0 \in N
  <2> SUFFICES ASSUME NEW w \in R[0] PROVE Behind(json, entries, q, m, 0, w)
    OBVIOUS
  <2>1. w = q.value
    BY <1>0, ReachedUnfolds
  <2>2. m + 0 = m
    OBVIOUS
  <2> QED BY <2>1, <2>2 DEF Behind
<1>2. ASSUME NEW k \in Nat, k \in N PROVE k + 1 \in N
  <2> SUFFICES ASSUME k + 1 <= Len(entries), NEW w \in R[k + 1]
               PROVE  Behind(json, entries, q, m, k + 1, w)
    OBVIOUS
  <2>1. k + 1 \in 1 .. Len(entries) /\ (k + 1) - 1 = k /\ k <= Len(entries)
    BY <1>0
  <2>2. R[k + 1] = UNION {Step(next, entries[k + 1], k + 1 = Len(entries)) : next \in R[k]}
    BY <1>0, <2>1, ReachedUnfolds
  <2>3. PICK u \in R[k] : w \in Step(u, entries[k + 1], k + 1 = Len(entries))
    BY <2>2
  <2>4. Behind(json, entries, q, m, k, u)
    BY <1>2, <2>1
  <2>5. m + k <= MaxDepth /\ m + k \in Nat
    BY <2>4 DEF Behind
  <2>6. PICK p \in PlacesIn(json)[m + k] :
              /\ p.value = u
              /\ \A i \in 1 .. m : p.way[i] = q.way[i]
              /\ \A i \in 1 .. k : Fits(p.way[m + i], entries[i])
    BY <2>4 DEF Behind
  <2>7. entries[k + 1] \in Entries /\ (k + 1 = Len(entries)) \in BOOLEAN
    BY <2>1
  <2>8. w \in Step(p.value, entries[k + 1], k + 1 = Len(entries))
    BY <2>3, <2>6
  <2>9. PICK e : Leads(p, e, w) /\ Fits(e, entries[k + 1])
    BY <2>5, <2>7, <2>8, StepsLead
  <2>10. m + k < MaxDepth
    BY <2>5, <2>9, KindsOfSteps
  <2> DEFINE o == At(p, e, w)
  <2>11. o \in PlacesIn(json)[(m + k) + 1] /\ o.value = w /\ o.way = Append(p.way, e)
    BY <2>5, <2>9, <2>10, PlacesGoOn DEF At
  <2>12. IsWay(p.way, m + k)
    BY <2>5, WaysOfPlaces
  <2> HIDE DEF o
  <2>13. o.way[(m + k) + 1] = e /\ \A i \in 1 .. m + k : o.way[i] = p.way[i]
    <3>1. WayOn(p.way, m + k, e)
      BY <2>5, <2>12, StepsStay
    <3> QED BY <2>11, <3>1 DEF WayOn
  <2>14. m + (k + 1) = (m + k) + 1 /\ m + (k + 1) <= MaxDepth
    BY <2>10, MaxDepthAssumption
  <2>15. \A i \in 1 .. m : o.way[i] = q.way[i]
    BY <2>6, <2>13
  <2>16. ASSUME NEW i \in 1 .. k + 1 PROVE Fits(o.way[m + i], entries[i])
    <3>1. CASE i = k + 1
      BY <2>9, <2>13, <2>14, <3>1
    <3>2. CASE i # k + 1
      <4>1. i \in 1 .. k /\ m + i \in 1 .. m + k
        BY <3>2
      <4> QED BY <2>6, <2>13, <4>1
    <3> QED BY <3>1, <3>2
  <2> QED BY <2>11, <2>14, <2>15, <2>16 DEF Behind
<1>3. n \in N
  <2> HIDE DEF N
  <2> QED BY <1>1, <1>2, SetInduction
<1> QED BY <1>3

\* What is wanted of the place behind the nth entry of a path.
Wanted(entries, n, v) == IF n = Len(entries) THEN v # Null ELSE v.is = "object"

LEMMA BehindIsReached ==
    ASSUME NEW json, IsJson(json), NEW entries \in Seq(Entries),
           NEW m \in Nat, NEW n \in Nat, m + n <= MaxDepth, n <= Len(entries),
           NEW p \in PlacesIn(json)[m + n], Wanted(entries, n, p.value),
           \A i \in 1 .. n : Fits(p.way[m + i], entries[i])
    PROVE  \E q \in PlacesIn(json)[m] :
              (\A i \in 1 .. m : q.way[i] = p.way[i]) /\ p.value \in Reached(q.value, entries)[n]
<1> DEFINE OK(k, r) == \E q \in PlacesIn(json)[m] :
                          (\A i \in 1 .. m : q.way[i] = r.way[i]) /\ r.value \in Reached(q.value, entries)[k]
           N == {k \in Nat : m + k <= MaxDepth /\ k <= Len(entries) =>
                    \A r \in PlacesIn(json)[m + k] :
                        Wanted(entries, k, r.value) /\ (\A i \in 1 .. k : Fits(r.way[m + i], entries[i])) => OK(k, r)}
<1>0. Len(entries) \in Nat
  OBVIOUS
<1>1. 0 \in N
  <2> SUFFICES ASSUME NEW r \in PlacesIn(json)[m + 0] PROVE OK(0, r)
    OBVIOUS
  <2>1. m + 0 = m
    OBVIOUS
  <2>2. r.value \in Reached(r.value, entries)[0]
    BY <1>0, ReachedUnfolds
  <2> QED BY <2>1, <2>2
<1>2. ASSUME NEW k \in Nat, k \in N PROVE k + 1 \in N
  <2> SUFFICES ASSUME m + (k + 1) <= MaxDepth, k + 1 <= Len(entries), NEW r \in PlacesIn(json)[m + (k + 1)],
                      Wanted(entries, k + 1, r.value), \A i \in 1 .. k + 1 : Fits(r.way[m + i], entries[i])
               PROVE  OK(k + 1, r)
    OBVIOUS
  <2>1. /\ k + 1 \in 1 .. Len(entries) /\ (k + 1) - 1 = k /\ k <= Len(entries)
        /\ m + k \in Nat /\ m + k < MaxDepth /\ m + k <= MaxDepth /\ m + (k + 1) = (m + k) + 1
    BY <1>0, MaxDepthAssumption
  <2>2. PICK o \in PlacesIn(json)[m + k] : \E e : Leads(o, e, r.value) /\ r.way = Append(o.way, e)
    <3>1. r \in PlacesIn(json)[(m + k) + 1]
      BY <2>1
    <3> HIDE DEF N, OK
    <3> QED BY <2>1, <3>1, PlacesCome
  <2>3. PICK e : Leads(o, e, r.value) /\ r.way = Append(o.way, e)
    BY <2>2
  <2>4. IsWay(o.way, m + k)
    BY <2>1, WaysOfPlaces
  <2>5. r.way[(m + k) + 1] = e /\ \A i \in 1 .. m + k : r.way[i] = o.way[i]
    <3>1. WayOn(o.way, m + k, e)
      BY <2>1, <2>4, StepsStay
    <3> QED BY <2>3, <3>1 DEF WayOn
  <2>6. Fits(e, entries[k + 1]) /\ entries[k + 1] \in Entries /\ (k + 1 = Len(entries)) \in BOOLEAN
    <3>1. k + 1 \in 1 .. k + 1
      OBVIOUS
    <3> QED BY <2>1, <2>5, <3>1
  <2>7. r.value # Null /\ (k + 1 = Len(entries) \/ r.value.is # "array")
    BY NullHasNothing, "object" # "array" DEF Wanted
  <2>8. o.value.is = "object" /\ r.value \in Step(o.value, entries[k + 1], k + 1 = Len(entries))
    BY <2>1, <2>3, <2>6, <2>7, LeadsByStep
  <2>9. Wanted(entries, k, o.value)
    BY <1>0, <2>1, <2>8 DEF Wanted
  <2>10. ASSUME NEW i \in 1 .. k PROVE Fits(o.way[m + i], entries[i])
    <3>1. i \in 1 .. k + 1 /\ m + i \in 1 .. m + k
      OBVIOUS
    <3> QED BY <2>5, <3>1
  <2>11. OK(k, o)
    BY <1>2, <2>1, <2>9, <2>10
  <2>12. PICK q \in PlacesIn(json)[m] :
               (\A i \in 1 .. m : q.way[i] = o.way[i]) /\ o.value \in Reached(q.value, entries)[k]
    BY <2>11
  <2>13. Reached(q.value, entries)[k + 1] =
             UNION {Step(next, entries[k + 1], k + 1 = Len(entries)) : next \in Reached(q.value, entries)[k]}
    <3> DEFINE R == Reached(q.value, entries)
    <3>1. \A i \in 1 .. Len(entries) : R[i] = UNION {Step(next, entries[i], i = Len(entries)) : next \in R[i - 1]}
      BY <1>0, ReachedUnfolds
    <3> HIDE DEF R
    <3>2. R[k + 1] = UNION {Step(next, entries[k + 1], k + 1 = Len(entries)) : next \in R[(k + 1) - 1]}
      BY <2>1, <3>1
    <3> QED BY <2>1, <3>2 DEF R
  <2>14. r.value \in Reached(q.value, entries)[k + 1]
    BY <2>8, <2>12, <2>13
  <2>15. \A i \in 1 .. m : q.way[i] = r.way[i]
    BY <2>5, <2>12
  <2> QED BY <2>14, <2>15
<1>3. n \in N
  <2> HIDE DEF N
  <2> QED BY <1>1, <1>2, SetInduction
<1> HIDE DEF OK
<1>4. OK(n, p)
  BY <1>3
<1> QED BY <1>4 DEF OK

\* A place with the value v, m fields away.
InFields(json, m, v) ==
    \E p \in PlacesIn(json)[m] : p.value = v /\ \A i \in 1 .. m : p.way[i].item = NoIndex

LEMMA FieldsArePlaces ==
    ASSUME NEW json, NEW m \in Nat, m <= MaxDepth, NEW v \in FieldsBelow(json)[m]
    PROVE  InFields(json, m, v)
<1> DEFINE N == {k \in Nat : k <= MaxDepth => \A w \in FieldsBelow(json)[k] : InFields(json, k, w)}
<1>1. 0 \in N
  <2> SUFFICES ASSUME NEW w \in FieldsBelow(json)[0] PROVE InFields(json, 0, w)
    OBVIOUS
  <2>1. w = json
    BY FieldsUnfold
  <2> DEFINE p == [way |-> <<>>, value |-> json]
  <2>2. p \in PlacesIn(json)[0] /\ p.value = json
    BY PlacesUnfold
  <2> HIDE DEF p
  <2> QED BY <2>1, <2>2 DEF InFields
<1>2. ASSUME NEW k \in Nat, k \in N PROVE k + 1 \in N
  <2> SUFFICES ASSUME k + 1 <= MaxDepth, NEW w \in FieldsBelow(json)[k + 1] PROVE InFields(json, k + 1, w)
    OBVIOUS
  <2>1. k + 1 \in 1 .. MaxDepth /\ (k + 1) - 1 = k /\ k < MaxDepth /\ k <= MaxDepth
    BY MaxDepthAssumption
  <2>2. FieldsBelow(json)[k + 1] = UNION {Fields(next) : next \in FieldsBelow(json)[k]}
    BY <2>1, FieldsUnfold
  <2>3. PICK u \in FieldsBelow(json)[k] : w \in Fields(u)
    BY <2>2
  <2>4. InFields(json, k, u)
    BY <1>2, <2>1
  <2>5. PICK p \in PlacesIn(json)[k] : p.value = u /\ \A i \in 1 .. k : p.way[i].item = NoIndex
    BY <2>4 DEF InFields
  <2>6. u.is = "object" /\ \E name \in DOMAIN u.fields : w = u.fields[name]
    BY <2>3 DEF Fields, Range
  <2>7. PICK name \in DOMAIN u.fields : w = u.fields[name]
    BY <2>6
  <2>8. Leads(p, Named(name), w)
    BY <2>5, <2>6, <2>7 DEF Leads
  <2> DEFINE o == At(p, Named(name), w)
  <2>9. o \in PlacesIn(json)[k + 1] /\ o.value = w /\ o.way = Append(p.way, Named(name))
    BY <2>1, <2>8, PlacesGoOn DEF At
  <2>10. IsWay(p.way, k)
    BY <2>1, WaysOfPlaces
  <2>11. WayOn(p.way, k, Named(name))
    BY <2>10, StepsStay
  <2> HIDE DEF o
  <2>12. ASSUME NEW i \in 1 .. k + 1 PROVE o.way[i].item = NoIndex
    <3>1. CASE i = k + 1
      <4>1. o.way[i] = Named(name)
        BY <2>9, <2>11, <3>1 DEF WayOn
      <4> QED BY <4>1 DEF Named
    <3>2. CASE i # k + 1
      <4>1. i \in 1 .. k
        BY <3>2
      <4>2. o.way[i] = p.way[i]
        BY <2>9, <2>11, <4>1 DEF WayOn
      <4> QED BY <2>5, <4>1, <4>2
    <3> QED BY <3>1, <3>2
  <2> QED BY <2>9, <2>12 DEF InFields
<1>3. m \in N
  <2> HIDE DEF N
  <2> QED BY <1>1, <1>2, SetInduction
<1> QED BY <1>3

LEMMA PlacesAreFields ==
    ASSUME NEW json, IsJson(json), NEW m \in Nat, m <= MaxDepth, NEW p \in PlacesIn(json)[m],
           \A i \in 1 .. m : p.way[i].item = NoIndex
    PROVE  p.value \in FieldsBelow(json)[m]
<1> DEFINE N == {k \in Nat : k <= MaxDepth =>
                    \A r \in PlacesIn(json)[k] :
                        (\A i \in 1 .. k : r.way[i].item = NoIndex) => r.value \in FieldsBelow(json)[k]}
<1>1. 0 \in N
  <2> SUFFICES ASSUME NEW r \in PlacesIn(json)[0] PROVE r.value \in FieldsBelow(json)[0]
    OBVIOUS
  <2> QED BY PlacesUnfold, FieldsUnfold
<1>2. ASSUME NEW k \in Nat, k \in N PROVE k + 1 \in N
  <2> SUFFICES ASSUME k + 1 <= MaxDepth, NEW r \in PlacesIn(json)[k + 1],
                      \A i \in 1 .. k + 1 : r.way[i].item = NoIndex
               PROVE  r.value \in FieldsBelow(json)[k + 1]
    OBVIOUS
  <2>1. k + 1 \in 1 .. MaxDepth /\ (k + 1) - 1 = k /\ k < MaxDepth /\ k <= MaxDepth
    BY MaxDepthAssumption
  <2>2. PICK o \in PlacesIn(json)[k] : \E e : Leads(o, e, r.value) /\ r.way = Append(o.way, e)
    BY <2>1, PlacesCome
  <2>3. PICK e : Leads(o, e, r.value) /\ r.way = Append(o.way, e)
    BY <2>2
  <2>4. IsWay(o.way, k)
    BY <2>1, WaysOfPlaces
  <2>5. WayOn(o.way, k, e)
    BY <2>4, StepsStay
  <2>6. e.item = NoIndex
    <3>1. r.way[k + 1] = e /\ k + 1 \in 1 .. k + 1
      BY <2>3, <2>5 DEF WayOn
    <3> QED BY <3>1
  <2>7. ASSUME NEW i \in 1 .. k PROVE o.way[i].item = NoIndex
    <3>1. i \in 1 .. k + 1
      OBVIOUS
    <3>2. r.way[i] = o.way[i]
      BY <2>3, <2>5 DEF WayOn
    <3> QED BY <3>1, <3>2
  <2>8. o.value \in FieldsBelow(json)[k]
    BY <1>2, <2>1, <2>7
  <2>9. NoIndex \notin Nat
    BY DEF NoIndex
  <2>10. /\ o.value.is = "object" /\ e.name \in DOMAIN o.value.fields
         /\ r.value = o.value.fields[e.name]
    <3>1. \/ /\ o.value.is = "object" /\ e.name \in DOMAIN o.value.fields
             /\ e.item = NoIndex /\ r.value = o.value.fields[e.name]
          \/ e.item \in Nat
      BY <2>1, <2>3, KindsOfSteps
    <3> QED BY <2>6, <2>9, <3>1
  <2>11. r.value \in Fields(o.value)
    BY <2>10 DEF Fields, Range
  <2>12. FieldsBelow(json)[k + 1] = UNION {Fields(next) : next \in FieldsBelow(json)[k]}
    BY <2>1, FieldsUnfold
  <2> QED BY <2>8, <2>11, <2>12
<1>3. m \in N
  <2> HIDE DEF N
  <2> QED BY <1>1, <1>2, SetInduction
<1> QED BY <1>3

LEMMA PlacesByWay ==
    ASSUME NEW json, NEW p
    PROVE  p \in Places(json) <=> \E n \in Nat : n <= MaxDepth /\ p \in PlacesIn(json)[n] /\ Len(p.way) = n
<1>1. p \in Places(json) <=> \E n \in 0 .. MaxDepth : p \in PlacesIn(json)[n]
  <2> DEFINE P == PlacesIn(json)
  <2>1. DOMAIN P = 0 .. MaxDepth
    BY PlacesUnfold
  <2>2. Places(json) = UNION {P[n] : n \in DOMAIN P}
    BY DEF Places, Range
  <2> HIDE DEF P
  <2>3. p \in Places(json) <=> \E n \in 0 .. MaxDepth : p \in P[n]
    BY <2>1, <2>2
  <2> QED BY <2>3 DEF P
<1>2. ASSUME NEW n \in 0 .. MaxDepth, p \in PlacesIn(json)[n]
      PROVE  n \in Nat /\ n <= MaxDepth /\ Len(p.way) = n
  <2>1. n \in Nat /\ n <= MaxDepth
    BY MaxDepthAssumption
  <2>2. IsWay(p.way, n)
    BY <1>2, <2>1, WaysOfPlaces
  <2> QED BY <2>1, <2>2, OneStepMore
<1> QED BY <1>1, <1>2, MaxDepthAssumption

\* What MatchOne() finds from a place that is m steps away.
Ends(json, entries, m, q, v) ==
    /\ v # Null
    /\ \E p \in Places(json) :
          /\ p.value = v /\ Len(p.way) = m + Len(entries)
          /\ \A i \in 1 .. m : p.way[i] = q.way[i]
          /\ \A i \in DOMAIN entries : Fits(p.way[m + i], entries[i])

LEMMA OneIsFound ==
    ASSUME NEW json, IsJson(json), NEW entries \in Seq(Entries), NEW m \in Nat, m <= MaxDepth,
           NEW q \in PlacesIn(json)[m], NEW v \in MatchOne(q.value, entries)
    PROVE  Ends(json, entries, m, q, v)
<1>1. v \in Reached(q.value, entries)[Len(entries)] /\ v # Null
  BY DEF MatchOne
<1>2. Len(entries) \in Nat /\ Len(entries) <= Len(entries) /\ DOMAIN entries = 1 .. Len(entries)
  OBVIOUS
<1>3. Behind(json, entries, q, m, Len(entries), v)
  BY <1>1, <1>2, ReachedIsBehind
<1>4. m + Len(entries) <= MaxDepth /\ m + Len(entries) \in Nat
  BY <1>2, <1>3 DEF Behind
<1>5. PICK p \in PlacesIn(json)[m + Len(entries)] :
          /\ p.value = v
          /\ \A i \in 1 .. m : p.way[i] = q.way[i]
          /\ \A i \in 1 .. Len(entries) : Fits(p.way[m + i], entries[i])
  BY <1>3 DEF Behind
<1>6. IsWay(p.way, m + Len(entries))
  BY <1>4, <1>5, WaysOfPlaces
<1>7. Len(p.way) = m + Len(entries)
  BY <1>4, <1>6, OneStepMore
<1>8. p \in Places(json)
  BY <1>4, <1>5, <1>7, PlacesByWay
<1> QED BY <1>1, <1>2, <1>5, <1>7, <1>8 DEF Ends

LEMMA FoundByOne ==
    ASSUME NEW json, IsJson(json), NEW entries \in Seq(Entries), NEW m \in Nat,
           NEW p \in Places(json), Len(p.way) = m + Len(entries), p.value # Null,
           \A i \in DOMAIN entries : Fits(p.way[m + i], entries[i])
    PROVE  /\ m <= MaxDepth
           /\ \E q \in PlacesIn(json)[m] :
                 (\A i \in 1 .. m : q.way[i] = p.way[i]) /\ p.value \in MatchOne(q.value, entries)
<1>1. Len(entries) \in Nat /\ Len(entries) <= Len(entries) /\ DOMAIN entries = 1 .. Len(entries)
  OBVIOUS
<1>2. m + Len(entries) <= MaxDepth /\ p \in PlacesIn(json)[m + Len(entries)]
  BY PlacesByWay
<1>3. Wanted(entries, Len(entries), p.value)
  BY DEF Wanted
<1>4. PICK q \in PlacesIn(json)[m] :
          (\A i \in 1 .. m : q.way[i] = p.way[i]) /\ p.value \in Reached(q.value, entries)[Len(entries)]
  BY <1>1, <1>2, <1>3, BehindIsReached
<1>5. p.value \in MatchOne(q.value, entries)
  BY <1>4 DEF MatchOne
<1>6. m <= MaxDepth
  BY <1>1, <1>2, MaxDepthAssumption
<1> QED BY <1>4, <1>5, <1>6

LEMMA RelativeIs ==
    ASSUME NEW json, NEW entries, NEW v
    PROVE  v \in MatchRelative(json, entries) <=>
               \E m \in 0 .. MaxDepth : \E next \in FieldsBelow(json)[m] : v \in MatchOne(next, entries)
<1> DEFINE F == FieldsBelow(json)
<1>1. DOMAIN F = 0 .. MaxDepth
  BY FieldsUnfold
<1>2. MatchRelative(json, entries) = UNION {MatchOne(next, entries) : next \in UNION {F[m] : m \in DOMAIN F}}
  BY DEF MatchRelative, Range
<1> HIDE DEF F
<1>3. v \in MatchRelative(json, entries) <=>
          \E m \in 0 .. MaxDepth : \E next \in F[m] : v \in MatchOne(next, entries)
  BY <1>1, <1>2
<1> QED BY <1>3 DEF F

\* A path finds what is at the places it says, in every log and however deep.
THEOREM PathsFindPlaces ==
    ASSUME NEW json, IsJson(json), NEW path, IsPath(path)
    PROVE  AllNodeValues(json, path) = Found(json, path)
<1> DEFINE entries == path.entries
           L == Len(path.entries)
<1>1. path.isAbsolute \in BOOLEAN /\ entries \in Seq(Entries) /\ L \in Nat /\ DOMAIN entries = 1 .. L
  BY DEF IsPath
<1>2. 0 \in Nat /\ 0 <= MaxDepth
  BY MaxDepthAssumption
<1> DEFINE root == [way |-> <<>>, value |-> json]
<1>3. PlacesIn(json)[0] = {root} /\ root.value = json
  BY PlacesUnfold
<1> HIDE DEF root
<1>4. CASE path.isAbsolute
  <2>1. AllNodeValues(json, path) = MatchOne(json, entries)
    <3>1. CASE entries = <<>>
      <4>1. Reached(json, entries)[0] = {json} /\ L = 0
        BY <1>1, <3>1, ReachedUnfolds
      <4>2. MatchOne(json, entries) = {json} \ {Null}
        BY <4>1 DEF MatchOne
      <4> QED BY <1>4, <3>1, <4>2 DEF AllNodeValues, Match
    <3>2. CASE entries # <<>>
      BY <1>4, <3>2 DEF AllNodeValues, Match, MatchOne
    <3> QED BY <3>1, <3>2
  <2>2. ASSUME NEW v \in MatchOne(json, entries) PROVE v \in Found(json, path)
    <3>1. v # Null /\ \E p \in Places(json) :
              /\ p.value = v /\ Len(p.way) = 0 + L
              /\ \A i \in DOMAIN entries : Fits(p.way[0 + i], entries[i])
      <4>1. v \in MatchOne(root.value, entries) /\ root \in PlacesIn(json)[0]
        BY <1>3, <2>2
      <4>2. Ends(json, entries, 0, root, v)
        BY <1>1, <1>2, <4>1, OneIsFound
      <4> QED BY <4>2 DEF Ends
    <3>2. PICK p \in Places(json) :
              /\ p.value = v /\ Len(p.way) = 0 + L
              /\ \A i \in DOMAIN entries : Fits(p.way[0 + i], entries[i])
      BY <3>1
    <3>3. Len(p.way) - L = 0
      BY <1>1, <3>2
    <3>4. LeadsAlong(path, p.way)
      BY <1>4, <3>2, <3>3 DEF LeadsAlong, EndsAlong
    <3> QED BY <3>1, <3>2, <3>4 DEF Found
  <2>3. ASSUME NEW v \in Found(json, path) PROVE v \in MatchOne(json, entries)
    <3>1. PICK p \in Places(json) : v = p.value /\ p.value # Null /\ LeadsAlong(path, p.way)
      BY <2>3 DEF Found
    <3>2. Len(p.way) - L = 0
      BY <1>4, <3>1 DEF LeadsAlong, EndsAlong
    <3>3. Len(p.way) \in Nat
      BY PlacesByWay
    <3>4. Len(p.way) = 0 + L
      BY <1>1, <3>2, <3>3
    <3>5. \A i \in DOMAIN entries : Fits(p.way[0 + i], entries[i])
      BY <3>1, <3>2 DEF LeadsAlong, EndsAlong
    <3>6. PICK q \in PlacesIn(json)[0] : p.value \in MatchOne(q.value, entries)
      BY <1>1, <1>2, <3>1, <3>4, <3>5, FoundByOne
    <3> QED BY <1>3, <3>1, <3>6
  <2> QED BY <2>1, <2>2, <2>3
<1>5. CASE ~path.isAbsolute /\ entries = <<>>
  BY <1>5 DEF AllNodeValues, Match, Found, LeadsAlong, EndsAlong
<1>6. CASE ~path.isAbsolute /\ entries # <<>>
  <2>1. AllNodeValues(json, path) = MatchRelative(json, entries) \ {Null}
    BY <1>6 DEF AllNodeValues, Match
  <2>2. ASSUME NEW v \in MatchRelative(json, entries) PROVE v \in Found(json, path)
    <3>1. PICK m \in 0 .. MaxDepth : \E next \in FieldsBelow(json)[m] : v \in MatchOne(next, entries)
      BY <2>2, RelativeIs
    <3>2. PICK next \in FieldsBelow(json)[m] : v \in MatchOne(next, entries)
      BY <3>1
    <3>3. m \in Nat /\ m <= MaxDepth
      BY MaxDepthAssumption
    <3>4. InFields(json, m, next)
      BY <3>2, <3>3, FieldsArePlaces
    <3>5. PICK q \in PlacesIn(json)[m] : q.value = next /\ \A i \in 1 .. m : q.way[i].item = NoIndex
      BY <3>4 DEF InFields
    <3>6. v # Null /\ \E p \in Places(json) :
              /\ p.value = v /\ Len(p.way) = m + L
              /\ \A i \in 1 .. m : p.way[i] = q.way[i]
              /\ \A i \in DOMAIN entries : Fits(p.way[m + i], entries[i])
      <4>1. v \in MatchOne(q.value, entries)
        BY <3>2, <3>5
      <4>2. Ends(json, entries, m, q, v)
        BY <1>1, <3>3, <4>1, OneIsFound
      <4> QED BY <4>2 DEF Ends
    <3>7. PICK p \in Places(json) :
              /\ p.value = v /\ Len(p.way) = m + L
              /\ \A i \in 1 .. m : p.way[i] = q.way[i]
              /\ \A i \in DOMAIN entries : Fits(p.way[m + i], entries[i])
      BY <3>6
    <3>8. Len(p.way) - L = m /\ m >= 0
      BY <1>1, <3>3, <3>7
    <3>9. LeadsAlong(path, p.way)
      BY <1>6, <3>5, <3>7, <3>8 DEF LeadsAlong, EndsAlong
    <3> QED BY <3>6, <3>7, <3>9 DEF Found
  <2>3. ASSUME NEW v \in Found(json, path) PROVE v \in MatchRelative(json, entries) \ {Null}
    <3>1. PICK p \in Places(json) : v = p.value /\ p.value # Null /\ LeadsAlong(path, p.way)
      BY <2>3 DEF Found
    <3>2. Len(p.way) \in Nat
      BY PlacesByWay
    <3>3. Len(p.way) - L >= 0
      BY <1>6, <3>1 DEF LeadsAlong, EndsAlong
    <3>4. PICK m \in Nat : m = Len(p.way) - L
      <4>1. Len(p.way) - L \in Nat
        BY <1>1, <3>2, <3>3
      <4> QED BY <4>1
    <3>5. Len(p.way) = m + L
      BY <1>1, <3>2, <3>4
    <3>6. /\ \A i \in 1 .. m : p.way[i].item = NoIndex
          /\ \A i \in DOMAIN entries : Fits(p.way[m + i], entries[i])
      BY <3>1, <3>4 DEF LeadsAlong, EndsAlong
    <3>7. /\ m <= MaxDepth
          /\ \E q \in PlacesIn(json)[m] :
                 (\A i \in 1 .. m : q.way[i] = p.way[i]) /\ p.value \in MatchOne(q.value, entries)
      BY <1>1, <3>1, <3>5, <3>6, FoundByOne
    <3>8. PICK q \in PlacesIn(json)[m] :
                 (\A i \in 1 .. m : q.way[i] = p.way[i]) /\ p.value \in MatchOne(q.value, entries)
      BY <3>7
    <3>9. q.value \in FieldsBelow(json)[m]
      BY <3>6, <3>7, <3>8, PlacesAreFields
    <3>10. m \in 0 .. MaxDepth
      BY <3>7, MaxDepthAssumption
    <3> QED BY <3>1, <3>8, <3>9, <3>10, RelativeIs
  <2> QED BY <2>1, <2>2, <2>3 DEF Found
<1> QED BY <1>1, <1>4, <1>5, <1>6

-----------------------------------------------------------------------------
(* The filter and its children.                                            *)

Values(log) == AllNodeValues(log.json, filter.options.Path)
Half(log)   == IF GrepMatches(filter.options, log.json) THEN 1 ELSE 0

\* A child a log belongs to.
GoesTo(i, log) ==
    \/ filter.type = "BinarySplit" /\ i = Half(log)
    \/ /\ filter.type = "Explode"
       /\ IF Values(log) = {} THEN i = 0
          ELSE \E v \in Values(log) \cap DOMAIN named : named[v] = i

\* What a thread is doing fits the filter there is.
AtWork(t) ==
    \/ work[t] = Idle
    \/ /\ filter # None /\ work[t].log \in taken[t]
       /\ \/ filter.type = "BinarySplit" /\ work[t].at = "split"
          \/ /\ filter.type = "Explode" /\ work[t].values \subseteq Values(work[t].log)
             /\ \/ work[t].at = "values" /\ work[t].values # {}
                \/ /\ work[t].at = "store" /\ work[t].child \in DOMAIN content
                   /\ GoesTo(work[t].child, work[t].log)

Shape ==
    /\ filter # None => CanBeMade(filter)
    /\ logs \subseteq Logs
    /\ DOMAIN content = DOMAIN trims
    /\ taken = [t \in Threads |-> taken[t]] /\ work = [t \in Threads |-> work[t]]
    /\ \A t \in Threads : taken[t] \subseteq Brings[t]

Working == \A t \in Threads : AtWork(t)

\* Children are numbered as they are made: n of them have names.
Named1To(n) == DOMAIN content = 0 .. n /\ \A v \in DOMAIN named : named[v] \in 1 .. n

Numbered ==
    /\ filter = None => logs = {} /\ \A t \in Threads : taken[t] = {} /\ work[t] = Idle
    /\ filter = None \/ filter.type \notin {"BinarySplit", "Explode"} =>
          DOMAIN content = {} /\ DOMAIN named = {}
    /\ filter # None /\ filter.type = "BinarySplit" => DOMAIN content = {0, 1} /\ DOMAIN named = {}
    /\ filter # None /\ filter.type = "Explode" => \E n \in Nat : Named1To(n)
    /\ \A v, w \in DOMAIN named : v # w => named[v] # named[w]

\* Nothing is where it does not belong.
Placed == \A i \in DOMAIN content : \A log \in content[i] : log \in logs /\ GoesTo(i, log)

\* The values a thread has still to look up, and the child it is about to fill.
Left(t, log) == IF work[t] # Idle /\ work[t].log = log THEN work[t].values ELSE {}
Fills(t, log, i) == work[t] # Idle /\ work[t].at = "store" /\ work[t].log = log /\ work[t].child = i

\* Nothing that was taken is forgotten.
InHalf(t, log) == log \in content[Half(log)] \/ (work[t] # Idle /\ work[t].log = log)
WithOthers(t, log) == log \in content[0] \/ Fills(t, log, 0)
ByName(t, log, v) == v \in DOMAIN named /\ (log \in content[named[v]] \/ Fills(t, log, named[v]))

Arrived(t, log) ==
    /\ log \in logs
    /\ filter.type = "BinarySplit" => InHalf(t, log)
    /\ filter.type = "Explode" =>
          /\ Values(log) = {} => WithOthers(t, log)
          /\ \A v \in Values(log) \ Left(t, log) : ByName(t, log, v)

HasOwn == filter # None /\ filter.type \in {"BinarySplit", "Explode"}

Under == HasOwn => \A t \in Threads : \A log \in taken[t] : Arrived(t, log)

NodesInv == Shape /\ Working /\ Numbered /\ Placed /\ Under

-----------------------------------------------------------------------------
(* What a step leaves as it was.                                           *)

\* The node stays, children and what is in them are not lost.
Grow ==
    /\ filter' = filter /\ logs \subseteq logs'
    /\ \A v \in DOMAIN named : v \in DOMAIN named' /\ named'[v] = named[v]
    /\ \A i \in DOMAIN content : i \in DOMAIN content' /\ content[i] \subseteq content'[i]

LEMMA GoesOn == ASSUME Grow, NEW i, NEW log, GoesTo(i, log) PROVE GoesTo(i, log)'
<1>1. Values(log)' = Values(log) /\ Half(log)' = Half(log)
  BY DEF Grow, Values, Half
<1>2. CASE filter.type = "BinarySplit" /\ i = Half(log)
  BY <1>1, <1>2 DEF Grow, GoesTo
<1>3. CASE filter.type = "Explode" /\ Values(log) = {} /\ i = 0
  BY <1>1, <1>3 DEF Grow, GoesTo
<1>4. CASE filter.type = "Explode" /\ Values(log) # {} /\ \E v \in Values(log) \cap DOMAIN named : named[v] = i
  <2>1. PICK v \in Values(log) \cap DOMAIN named : named[v] = i
    BY <1>4
  <2>2. v \in Values(log)' \cap DOMAIN named' /\ named'[v] = i
    BY <1>1, <2>1 DEF Grow
  <2>3. filter'.type = "Explode" /\ Values(log)' # {}
    BY <1>1, <1>4 DEF Grow
  <2> QED BY <2>2, <2>3 DEF GoesTo
<1> QED BY <1>2, <1>3, <1>4 DEF GoesTo

LEMMA WorkGoesOn ==
    ASSUME Grow, NEW t, AtWork(t), work'[t] = work[t], taken[t] \subseteq taken'[t]
    PROVE  AtWork(t)'
<1>1. CASE work[t] = Idle
  BY <1>1 DEF AtWork
<1>2. CASE work[t] # Idle
  <2>1. filter' # None /\ work'[t].log \in taken'[t] /\ filter'.type = filter.type
    BY <1>2 DEF AtWork, Grow
  <2>2. CASE filter.type = "BinarySplit" /\ work[t].at = "split"
    BY <2>1, <2>2 DEF AtWork
  <2>3. CASE filter.type = "Explode" /\ work[t].values \subseteq Values(work[t].log)
    <3>1. work'[t].values \subseteq AllNodeValues(work'[t].log.json, filter'.options.Path)
      BY <2>3 DEF Grow, Values
    <3>2. CASE work[t].at = "values" /\ work[t].values # {}
      BY <2>1, <2>3, <3>1, <3>2 DEF AtWork, Values
    <3>3. CASE work[t].at = "store" /\ work[t].child \in DOMAIN content /\ GoesTo(work[t].child, work[t].log)
      <4>1. work'[t].at = "store" /\ work'[t].child \in DOMAIN content'
        BY <3>3 DEF Grow
      <4>2. GoesTo(work[t].child, work[t].log)'
        BY <3>3, GoesOn
      <4> QED BY <2>1, <2>3, <3>1, <4>1, <4>2 DEF AtWork, Values
    <3> QED BY <1>2, <2>3, <3>2, <3>3 DEF AtWork
  <2> QED BY <1>2, <2>2, <2>3 DEF AtWork
<1> QED BY <1>1, <1>2

LEMMA ArrivedStays ==
    ASSUME Grow, Numbered, HasOwn, NEW t, NEW log, Arrived(t, log), work'[t] = work[t]
    PROVE  Arrived(t, log)'
<1>1. Values(log)' = Values(log) /\ Half(log)' = Half(log) /\ Left(t, log)' = Left(t, log)
  BY DEF Grow, Values, Half, Left
<1>2. \A i : Fills(t, log, i)' <=> Fills(t, log, i)
  BY DEF Fills
<1>3. log \in logs' /\ filter' = filter
  BY DEF Arrived, Grow
<1>4. ASSUME filter.type = "BinarySplit"
      PROVE  InHalf(t, log)'
  <2>1. Half(log) \in DOMAIN content
    BY <1>4 DEF HasOwn, Numbered, Half
  <2>2. content[Half(log)] \subseteq content'[Half(log)]
    BY <2>1 DEF Grow
  <2> QED BY <1>1, <1>4, <2>2 DEF Arrived, InHalf
<1>5. ASSUME filter.type = "Explode"
      PROVE  /\ Values(log)' = {} => WithOthers(t, log)'
             /\ \A v \in Values(log)' \ Left(t, log)' : ByName(t, log, v)'
  <2>1. PICK n \in Nat : Named1To(n)
    BY <1>5 DEF HasOwn, Numbered
  <2>2. 0 \in DOMAIN content
    BY <2>1 DEF Named1To
  <2>3. content[0] \subseteq content'[0]
    BY <2>2 DEF Grow
  <2>4. ASSUME Values(log)' = {}
        PROVE  WithOthers(t, log)'
    BY <1>1, <1>2, <1>5, <2>3, <2>4 DEF Arrived, WithOthers
  <2>5. ASSUME NEW v \in Values(log)' \ Left(t, log)'
        PROVE  ByName(t, log, v)'
    <3>1. ByName(t, log, v)
      BY <1>1, <1>5 DEF Arrived
    <3>2. v \in DOMAIN named /\ named[v] \in DOMAIN content
      BY <2>1, <3>1 DEF ByName, Named1To
    <3>3. v \in DOMAIN named' /\ named'[v] = named[v] /\ content[named[v]] \subseteq content'[named[v]]
      BY <3>2 DEF Grow
    <3> QED BY <1>2, <3>1, <3>3 DEF ByName
  <2> QED BY <2>4, <2>5
<1> QED BY <1>3, <1>4, <1>5 DEF Arrived

-----------------------------------------------------------------------------
(* The steps.                                                              *)

LEMMA InitNodes == NodesInit => NodesInv
BY DEF NodesInit, NodesInv, Shape, Working, AtWork, Numbered, Placed, Under, HasOwn, Idle

LEMMA StutterNodes == NodesInv /\ UNCHANGED nodeVars => NodesInv'
<1> SUFFICES ASSUME NodesInv, UNCHANGED nodeVars PROVE NodesInv'
  OBVIOUS
<1>1. Grow
  BY DEF Grow, nodeVars
<1>2. Shape' /\ Numbered'
  BY DEF NodesInv, nodeVars, Shape, Numbered, Named1To
<1>3. Working'
  BY <1>1, WorkGoesOn DEF NodesInv, nodeVars, Working
<1>4. Placed'
  BY <1>1, GoesOn DEF NodesInv, nodeVars, Placed
<1>5. Under'
  BY <1>1, ArrivedStays DEF NodesInv, nodeVars, Under, HasOwn
<1> QED BY <1>2, <1>3, <1>4, <1>5 DEF NodesInv

LEMMA FreshChildren ==
    ASSUME NEW node
    PROVE  /\ node.type = "BinarySplit" => DOMAIN FirstChildren(node) = {0, 1}
           /\ node.type = "Explode" => DOMAIN FirstChildren(node) = {0}
           /\ node.type \notin {"BinarySplit", "Explode"} => DOMAIN FirstChildren(node) = {}
<1>1. ASSUME node.type = "BinarySplit" PROVE DOMAIN FirstChildren(node) = {0, 1}
  BY <1>1 DEF FirstChildren
<1>2. ASSUME node.type = "Explode" PROVE DOMAIN FirstChildren(node) = {0}
  BY <1>2 DEF FirstChildren
<1>3. ASSUME node.type \notin {"BinarySplit", "Explode"} PROVE DOMAIN FirstChildren(node) = {}
  BY <1>3 DEF FirstChildren
<1> QED BY <1>1, <1>2, <1>3

LEMMA AddNodes == ASSUME NodesInv, NEW node, CanBeMade(node), Add(node) PROVE NodesInv'
<1>1. /\ filter = None /\ filter' = node /\ node # None
      /\ logs' = {} /\ named' = named /\ taken' = taken /\ work' = work
      /\ DOMAIN content' = DOMAIN trims' /\ DOMAIN trims' = DOMAIN FirstChildren(node)
      /\ \A i \in DOMAIN content' : content'[i] = {}
  BY DEF NodesInv, Numbered, Add, CanBeMade
<1>2. DOMAIN named = {} /\ \A t \in Threads : taken[t] = {} /\ work[t] = Idle
  BY <1>1 DEF NodesInv, Numbered
<1>3. Shape'
  BY <1>1, <1>2 DEF NodesInv, Shape
<1>4. Working'
  BY <1>1, <1>2 DEF Working, AtWork
<1>5. Numbered'
  <2>1. filter' # None
    BY <1>1
  <2>2. ASSUME filter'.type = "Explode" PROVE \E n \in Nat : Named1To(n)'
    <3>1. DOMAIN content' = 0 .. 0
      BY <1>1, <2>2, FreshChildren
    <3>2. Named1To(0)'
      BY <1>1, <1>2, <3>1 DEF Named1To
    <3> QED BY <3>2
  <2>3. filter'.type = "BinarySplit" => DOMAIN content' = {0, 1}
    BY <1>1, FreshChildren
  <2>4. filter'.type \notin {"BinarySplit", "Explode"} => DOMAIN content' = {}
    BY <1>1, FreshChildren
  <2> QED BY <1>1, <1>2, <2>1, <2>2, <2>3, <2>4 DEF Numbered
<1>6. Placed'
  BY <1>1 DEF Placed
<1>7. Under'
  BY <1>1, <1>2 DEF Under
<1> QED BY <1>3, <1>4, <1>5, <1>6, <1>7 DEF NodesInv

LEMMA DeleteNodes == NodesInv /\ Delete => NodesInv'
<1> SUFFICES ASSUME NodesInv, Delete PROVE NodesInv'
  OBVIOUS
<1>1. /\ filter' = None /\ logs' = {} /\ DOMAIN named' = {} /\ DOMAIN content' = {} /\ DOMAIN trims' = {}
      /\ taken' = [t \in Threads |-> {}] /\ work' = work
      /\ \A t \in Threads : taken'[t] = {} /\ work[t] = Idle
  BY DEF Delete
<1>2. Shape'
  BY <1>1 DEF NodesInv, Shape
<1>3. Working' /\ Numbered' /\ Placed' /\ Under'
  BY <1>1 DEF Working, AtWork, Numbered, Placed, Under, HasOwn
<1> QED BY <1>2, <1>3 DEF NodesInv

LEMMA InsertSimpleNodes ==
    ASSUME NodesInv, NEW t \in Threads, NEW log \in Logs, InsertSimple(t, log) PROVE NodesInv'
<1>1. /\ filter # None /\ filter.type \notin {"BinarySplit", "Explode"} /\ filter' = filter
      /\ content' = content /\ named' = named /\ trims' = trims /\ work' = work
      /\ logs' \subseteq logs \cup {log}
  BY DEF InsertSimple
<1>2. Shape'
  BY <1>1 DEF NodesInv, Shape, InsertSimple
<1>3. Working'
  BY <1>1 DEF NodesInv, Working, AtWork
<1>4. Numbered' /\ Placed' /\ Under'
  BY <1>1 DEF NodesInv, Numbered, Placed, Under, HasOwn
<1> QED BY <1>2, <1>3, <1>4 DEF NodesInv

LEMMA InsertSplitNodes ==
    ASSUME NodesInv, NEW t \in Threads, NEW log \in Logs, InsertSplit(t, log) PROVE NodesInv'
<1>1. /\ filter # None /\ filter.type = "BinarySplit" /\ filter' = filter
      /\ content' = content /\ named' = named /\ trims' = trims
      /\ logs' = logs \cup {log} /\ log \in Brings[t]
      /\ taken' = [taken EXCEPT ![t] = @ \cup {log}]
      /\ work' = [work EXCEPT ![t] = [at |-> "split", log |-> log]]
      /\ work[t] = Idle
  BY DEF InsertSplit
<1>2. Grow
  BY <1>1 DEF Grow
<1>3. /\ taken'[t] = taken[t] \cup {log} /\ work'[t] = [at |-> "split", log |-> log]
      /\ \A u \in Threads \ {t} : taken'[u] = taken[u] /\ work'[u] = work[u]
  BY <1>1 DEF NodesInv, Shape
<1>4. Shape'
  BY <1>1, <1>3 DEF NodesInv, Shape
<1>5. Working'
  <2>1. AtWork(t)'
    BY <1>1, <1>3 DEF AtWork
  <2>2. ASSUME NEW u \in Threads \ {t} PROVE AtWork(u)'
    BY <1>2, <1>3, WorkGoesOn DEF NodesInv, Working
  <2> QED BY <2>1, <2>2 DEF Working
<1>6. Numbered'
  BY <1>1 DEF NodesInv, Numbered
<1>7. Placed'
  BY <1>1, <1>2, GoesOn DEF NodesInv, Placed
<1>8. Under'
  <2>1. ASSUME NEW u \in Threads \ {t}, NEW l \in taken'[u] PROVE Arrived(u, l)'
    BY <1>1, <1>2, <1>3, ArrivedStays DEF NodesInv, Under, HasOwn
  <2>2. ASSUME NEW l \in taken[t] PROVE Arrived(t, l)'
    <3>1. l \in logs /\ l \in content[Half(l)]
      BY <1>1 DEF NodesInv, Under, HasOwn, Arrived, InHalf
    <3>2. Half(l)' = Half(l)
      BY <1>1 DEF Half
    <3> QED BY <1>1, <3>1, <3>2 DEF Arrived, InHalf
  <2>3. Arrived(t, log)'
    <3>1. work'[t] # Idle /\ work'[t].log = log
      BY <1>3 DEF Idle
    <3> QED BY <1>1, <3>1 DEF Arrived, InHalf
  <2> QED BY <1>3, <2>1, <2>2, <2>3 DEF Under
<1> QED BY <1>4, <1>5, <1>6, <1>7, <1>8 DEF NodesInv

LEMMA InsertHalfNodes == ASSUME NodesInv, NEW t \in Threads, InsertHalf(t) PROVE NodesInv'
<1> DEFINE log == work[t].log
           half == Half(log)
<1>1. /\ work[t].at = "split"
      /\ content' = [content EXCEPT ![half] = @ \cup {log}]
      /\ work' = [work EXCEPT ![t] = Idle]
      /\ filter' = filter /\ logs' = logs /\ named' = named /\ trims' = trims /\ taken' = taken
  BY DEF InsertHalf, Half
<1>2. work[t] # Idle /\ filter # None /\ filter.type = "BinarySplit" /\ log \in taken[t]
  BY <1>1 DEF NodesInv, Working, AtWork, Idle
<1>3. half \in {0, 1} /\ DOMAIN content = {0, 1}
  BY <1>2 DEF Half, NodesInv, Numbered
<1>4. log \in logs
  BY <1>2 DEF NodesInv, Under, HasOwn, Arrived
<1>5. /\ DOMAIN content' = DOMAIN content /\ content'[half] = content[half] \cup {log}
      /\ \A i \in DOMAIN content : i # half => content'[i] = content[i]
      /\ work'[t] = Idle /\ \A u \in Threads \ {t} : work'[u] = work[u]
  BY <1>1, <1>3 DEF NodesInv, Shape
<1> HIDE DEF log, half
<1>6. Grow
  BY <1>1, <1>5 DEF Grow
<1>7. Shape'
  BY <1>1, <1>5 DEF NodesInv, Shape
<1>8. Working'
  <2>1. AtWork(t)'
    BY <1>5 DEF AtWork
  <2>2. ASSUME NEW u \in Threads \ {t} PROVE AtWork(u)'
    BY <1>1, <1>5, <1>6, WorkGoesOn DEF NodesInv, Working
  <2> QED BY <2>1, <2>2 DEF Working
<1>9. Numbered'
  BY <1>1, <1>2, <1>5 DEF NodesInv, Numbered
<1>10. Placed'
  <2>1. ASSUME NEW i \in DOMAIN content', NEW l \in content'[i]
        PROVE  l \in logs' /\ GoesTo(i, l)'
    <3>1. CASE l \in content[i]
      BY <1>1, <1>5, <1>6, <3>1, GoesOn DEF NodesInv, Placed
    <3>2. CASE l \notin content[i]
      <4>1. i = half /\ l = log
        BY <1>5, <3>2
      <4>2. GoesTo(half, log)
        BY <1>2 DEF GoesTo, half
      <4>3. GoesTo(i, l)
        BY <4>1, <4>2
      <4>4. l \in logs'
        BY <1>1, <1>4, <4>1
      <4> QED BY <1>6, <4>3, <4>4, GoesOn
    <3> QED BY <3>1, <3>2
  <2> QED BY <2>1 DEF Placed
<1>11. Under'
  <2>1. ASSUME NEW u \in Threads \ {t}, NEW l \in taken'[u] PROVE Arrived(u, l)'
    BY <1>1, <1>2, <1>5, <1>6, ArrivedStays DEF NodesInv, Under, HasOwn
  <2>2. ASSUME NEW l \in taken'[t] PROVE Arrived(t, l)'
    <3>1. Arrived(t, l) /\ Half(l)' = Half(l)
      BY <1>1, <1>2 DEF NodesInv, Under, HasOwn, Half
    <3>2. l \in logs /\ (l \in content[Half(l)] \/ work[t].log = l)
      BY <1>2, <3>1 DEF Arrived, InHalf
    <3>3. Half(l) \in DOMAIN content
      BY <1>3 DEF Half
    <3>4. l \in content'[Half(l)]
      <4>1. CASE l \in content[Half(l)]
        BY <1>5, <3>3, <4>1
      <4>2. CASE work[t].log = l
        BY <1>5, <4>2 DEF log, half
      <4> QED BY <3>2, <4>1, <4>2
    <3> QED BY <1>1, <1>2, <3>1, <3>2, <3>4 DEF Arrived, InHalf
  <2> QED BY <2>1, <2>2 DEF Under
<1> QED BY <1>7, <1>8, <1>9, <1>10, <1>11 DEF NodesInv

LEMMA InsertExplodeNodes ==
    ASSUME NodesInv, NEW t \in Threads, NEW log \in Logs, InsertExplode(t, log) PROVE NodesInv'
<1> DEFINE new == IF Values(log) = {}
                  THEN [at |-> "store", log |-> log, values |-> Values(log), child |-> 0]
                  ELSE [at |-> "values", log |-> log, values |-> Values(log)]
<1>1. /\ filter # None /\ filter.type = "Explode" /\ filter' = filter
      /\ content' = content /\ named' = named /\ trims' = trims
      /\ logs' = logs \cup {log} /\ log \in Brings[t] /\ log \notin taken[t]
      /\ taken' = [taken EXCEPT ![t] = @ \cup {log}]
      /\ work[t] = Idle
  BY DEF InsertExplode
<1>2. work' = [work EXCEPT ![t] = new]
  BY DEF InsertExplode, Values
<1>3. /\ taken'[t] = taken[t] \cup {log} /\ work'[t] = new
      /\ \A u \in Threads \ {t} : taken'[u] = taken[u] /\ work'[u] = work[u]
  BY <1>1, <1>2 DEF NodesInv, Shape
<1>4. /\ new.log = log /\ new.values = Values(log) /\ new # Idle
      /\ IF Values(log) = {} THEN new.at = "store" /\ new.child = 0 ELSE new.at = "values"
  BY DEF Idle
<1>5. Grow
  BY <1>1 DEF Grow
<1>6. \A l : Values(l)' = Values(l)
  BY <1>1 DEF Values
<1>7. PICK n \in Nat : Named1To(n)
  BY <1>1 DEF NodesInv, Numbered
<1>8. 0 \in DOMAIN content
  BY <1>7 DEF Named1To
<1>9. Shape'
  BY <1>1, <1>2, <1>3 DEF NodesInv, Shape
<1> HIDE DEF new
<1>10. Working'
  <2>1. AtWork(t)'
    <3>1. work'[t].log \in taken'[t] /\ work'[t].values = AllNodeValues(work'[t].log.json, filter'.options.Path)
      BY <1>1, <1>3, <1>4 DEF Values
    <3>2. CASE Values(log) = {}
      <4>1. work'[t].at = "store" /\ work'[t].child \in DOMAIN content'
        BY <1>1, <1>3, <1>4, <1>8, <3>2
      <4>2. filter'.type = "Explode" /\ Values(log)' = {} /\ work'[t].child = 0 /\ work'[t].log = log
        BY <1>1, <1>3, <1>4, <1>6, <3>2
      <4>3. GoesTo(work[t].child, work[t].log)'
        BY <4>2 DEF GoesTo
      <4> QED BY <1>1, <3>1, <4>1, <4>3 DEF AtWork, Values
    <3>3. CASE Values(log) # {}
      <4>1. work'[t].at = "values" /\ work'[t].values # {}
        BY <1>3, <1>4, <3>3
      <4> QED BY <1>1, <3>1, <4>1 DEF AtWork, Values
    <3> QED BY <3>2, <3>3
  <2>2. ASSUME NEW u \in Threads \ {t} PROVE AtWork(u)'
    BY <1>3, <1>5, WorkGoesOn DEF NodesInv, Working
  <2> QED BY <2>1, <2>2 DEF Working
<1>11. Numbered'
  BY <1>1 DEF NodesInv, Numbered, Named1To
<1>12. Placed'
  BY <1>1, <1>5, GoesOn DEF NodesInv, Placed
<1>13. Under'
  <2>1. ASSUME NEW u \in Threads \ {t}, NEW l \in taken'[u] PROVE Arrived(u, l)'
    BY <1>1, <1>3, <1>5, ArrivedStays DEF NodesInv, Under, HasOwn
  <2>2. ASSUME NEW l \in taken[t] PROVE Arrived(t, l)'
    <3>1. Arrived(t, l) /\ Left(t, l) = {} /\ \A i : ~Fills(t, l, i)
      BY <1>1 DEF NodesInv, Under, HasOwn, Left, Fills
    <3>2. l \in logs'
      BY <1>1, <3>1 DEF Arrived
    <3>3. Values(l)' = {} => WithOthers(t, l)'
      BY <1>1, <1>6, <3>1 DEF Arrived, WithOthers
    <3>4. ASSUME NEW v \in Values(l)' \ Left(t, l)' PROVE ByName(t, l, v)'
      BY <1>1, <1>6, <3>1 DEF Arrived, ByName
    <3> QED BY <1>1, <3>2, <3>3, <3>4 DEF Arrived
  <2>3. Arrived(t, log)'
    <3>1. Left(t, log)' = Values(log)'
      BY <1>3, <1>4, <1>6 DEF Left
    <3>2. Values(log)' = {} => WithOthers(t, log)'
      BY <1>3, <1>4, <1>6 DEF WithOthers, Fills
    <3>3. log \in logs' /\ filter'.type = "Explode"
      BY <1>1
    <3> QED BY <3>1, <3>2, <3>3 DEF Arrived
  <2> QED BY <1>3, <2>1, <2>2, <2>3 DEF Under
<1> QED BY <1>9, <1>10, <1>11, <1>12, <1>13 DEF NodesInv

LEMMA StoreNodes == ASSUME NodesInv, NEW t \in Threads, Store(t) PROVE NodesInv'
<1> DEFINE log == work[t].log
           child == work[t].child
           new == IF work[t].values = {} THEN Idle
                  ELSE [at |-> "values", log |-> log, values |-> work[t].values]
<1>1. /\ work[t].at = "store"
      /\ content' = [content EXCEPT ![child] = @ \cup {log}]
      /\ work' = [work EXCEPT ![t] = new]
      /\ filter' = filter /\ logs' = logs /\ named' = named /\ trims' = trims /\ taken' = taken
  BY DEF Store, NodesInv, Shape
<1>2. /\ work[t] # Idle /\ filter # None /\ filter.type = "Explode" /\ log \in taken[t]
      /\ work[t].values \subseteq Values(log)
      /\ child \in DOMAIN content /\ GoesTo(child, log)
  BY <1>1 DEF NodesInv, Working, AtWork, Idle
<1>3. log \in logs
  BY <1>2 DEF NodesInv, Under, HasOwn, Arrived
<1>4. /\ DOMAIN content' = DOMAIN content /\ content'[child] = content[child] \cup {log}
      /\ \A i \in DOMAIN content : i # child => content'[i] = content[i]
      /\ work'[t] = new /\ \A u \in Threads \ {t} : work'[u] = work[u]
  BY <1>1, <1>2 DEF NodesInv, Shape
<1>5. IF work[t].values = {} THEN new = Idle
      ELSE new.at = "values" /\ new.log = log /\ new.values = work[t].values /\ new # Idle
  BY DEF Idle
<1>6. Shape'
  BY <1>1, <1>4 DEF NodesInv, Shape
<1>7. PICK n \in Nat : Named1To(n)
  BY <1>2 DEF NodesInv, Numbered
<1>8. \A l : Values(l)' = Values(l)
  BY <1>1 DEF Values
<1> HIDE DEF log, child, new
<1>9. Grow
  BY <1>1, <1>4 DEF Grow
<1>10. Working'
  <2>1. AtWork(t)'
    <3>1. CASE work[t].values = {}
      BY <1>4, <1>5, <3>1 DEF AtWork
    <3>2. CASE work[t].values # {}
      <4>1. work'[t].at = "values" /\ work'[t].values # {}
        BY <1>4, <1>5, <3>2
      <4>2. work'[t].log \in taken'[t]
        BY <1>1, <1>2, <1>4, <1>5, <3>2
      <4>3. work'[t].log = log /\ work'[t].values \subseteq AllNodeValues(log.json, filter'.options.Path)
        BY <1>1, <1>2, <1>4, <1>5, <3>2 DEF Values
      <4> QED BY <1>1, <1>2, <4>1, <4>2, <4>3 DEF AtWork, Values
    <3> QED BY <3>1, <3>2
  <2>2. ASSUME NEW u \in Threads \ {t} PROVE AtWork(u)'
    BY <1>1, <1>4, <1>9, WorkGoesOn DEF NodesInv, Working
  <2> QED BY <2>1, <2>2 DEF Working
<1>11. Numbered'
  BY <1>1, <1>2, <1>4 DEF NodesInv, Numbered, Named1To
<1>12. Placed'
  <2>1. ASSUME NEW i \in DOMAIN content', NEW l \in content'[i]
        PROVE  l \in logs' /\ GoesTo(i, l)'
    <3>1. CASE l \in content[i]
      BY <1>1, <1>4, <1>9, <3>1, GoesOn DEF NodesInv, Placed
    <3>2. CASE l \notin content[i]
      <4>1. i = child /\ l = log
        BY <1>4, <3>2
      <4>2. GoesTo(i, l)
        BY <1>2, <4>1
      <4>3. l \in logs'
        BY <1>1, <1>3, <4>1
      <4> QED BY <1>9, <4>2, <4>3, GoesOn
    <3> QED BY <3>1, <3>2
  <2> QED BY <2>1 DEF Placed
<1>13. Under'
  <2>1. ASSUME NEW u \in Threads \ {t}, NEW l \in taken'[u] PROVE Arrived(u, l)'
    BY <1>1, <1>2, <1>4, <1>9, ArrivedStays DEF NodesInv, Under, HasOwn
  <2>2. ASSUME NEW l \in taken'[t] PROVE Arrived(t, l)'
    <3>1. Arrived(t, l)
      BY <1>1, <1>2 DEF NodesInv, Under, HasOwn
    <3>2. Left(t, l)' = Left(t, l)
      BY <1>2, <1>4, <1>5 DEF Left, log
    <3>3. \A i \in DOMAIN content : (l \in content[i] \/ Fills(t, l, i)) => l \in content'[i]
      BY <1>4 DEF Fills, log, child
    <3>4. Values(l)' = {} => WithOthers(t, l)'
      <4>1. 0 \in DOMAIN content
        BY <1>7 DEF Named1To
      <4> QED BY <1>2, <1>8, <3>1, <3>3, <4>1 DEF Arrived, WithOthers
    <3>5. ASSUME NEW v \in Values(l)' \ Left(t, l)' PROVE ByName(t, l, v)'
      <4>1. ByName(t, l, v)
        BY <1>2, <1>8, <3>1, <3>2 DEF Arrived
      <4>2. named[v] \in DOMAIN content
        BY <1>7, <4>1 DEF Named1To, ByName
      <4> QED BY <1>1, <3>3, <4>1, <4>2 DEF ByName
    <3>6. l \in logs' /\ filter'.type = "Explode"
      BY <1>1, <1>2, <3>1 DEF Arrived
    <3> QED BY <3>4, <3>5, <3>6 DEF Arrived
  <2> QED BY <2>1, <2>2 DEF Under
<1> QED BY <1>6, <1>10, <1>11, <1>12, <1>13 DEF NodesInv

LEMMA NodeForNodes == ASSUME NodesInv, NEW t \in Threads, NodeFor(t) PROVE NodesInv'
<1> DEFINE log == work[t].log
           value == NextOf(work[t].values)
           child == Cardinality(DOMAIN content)
           isNew == value \notin DOMAIN named
           new == [at |-> "store", log |-> log, values |-> work[t].values \ {value}, child |-> named'[value]]
<1>1. /\ work[t].at = "values"
      /\ named' = IF isNew THEN With(named, value, child) ELSE named
      /\ content' = IF isNew THEN With(content, child, {}) ELSE content
      /\ trims' = IF isNew THEN With(trims, child, Append(trim, filter.options.Path)) ELSE trims
      /\ work' = [work EXCEPT ![t] = new]
      /\ filter' = filter /\ logs' = logs /\ taken' = taken
  BY DEF NodeFor
<1>2. /\ work[t] # Idle /\ filter # None /\ filter.type = "Explode" /\ log \in taken[t]
      /\ work[t].values \subseteq Values(log) /\ work[t].values # {}
  BY <1>1 DEF NodesInv, Working, AtWork, Idle
<1>3. value \in work[t].values
  BY <1>2 DEF NextOf
<1>4. /\ work'[t] = new /\ \A u \in Threads \ {t} : work'[u] = work[u]
  BY <1>1 DEF NodesInv, Shape
<1>5. new.at = "store" /\ new.log = log /\ new.values = work[t].values \ {value} /\ new.child = named'[value] /\ new # Idle
  BY DEF Idle
<1>6. PICK n \in Nat : Named1To(n)
  BY <1>2 DEF NodesInv, Numbered
<1>7. child = n + 1
  <2>1. Cardinality(0 .. n) = n + 1
    BY <1>6, FS_Interval
  <2> QED BY <1>6, <2>1 DEF Named1To
<1>8. \A l : Values(l)' = Values(l)
  BY <1>1 DEF Values
<1> HIDE DEF log, value, child, new
<1>9. /\ DOMAIN named' = DOMAIN named \cup {value}
      /\ \A v \in DOMAIN named : named'[v] = named[v]
      /\ isNew => named'[value] = n + 1
  BY <1>1, <1>7 DEF With
<1>10. /\ DOMAIN content' = IF isNew THEN DOMAIN content \cup {n + 1} ELSE DOMAIN content
       /\ \A i \in DOMAIN content : content'[i] = content[i]
       /\ isNew => content'[n + 1] = {}
  <2>1. CASE isNew
    <3>1. n + 1 \notin DOMAIN content
      BY <1>6 DEF Named1To
    <3>2. content' = [i \in DOMAIN content \cup {n + 1} |-> IF i = n + 1 THEN {} ELSE content[i]]
      BY <1>1, <1>7, <2>1 DEF With
    <3> QED BY <2>1, <3>1, <3>2
  <2>2. CASE ~isNew
    BY <1>1, <2>2
  <2> QED BY <2>1, <2>2
<1>11. DOMAIN trims' = IF isNew THEN DOMAIN trims \cup {n + 1} ELSE DOMAIN trims
  BY <1>1, <1>7 DEF With
<1> HIDE DEF isNew
<1>12. Grow
  BY <1>1, <1>9, <1>10 DEF Grow
<1>13. Shape'
  <2>1. DOMAIN content' = DOMAIN trims'
    BY <1>10, <1>11 DEF NodesInv, Shape
  <2> QED BY <1>1, <2>1 DEF NodesInv, Shape
<1>14. named'[value] \in DOMAIN content'
  <2>1. CASE isNew
    BY <1>9, <1>10, <2>1
  <2>2. CASE ~isNew
    BY <1>6, <1>9, <1>10, <2>2 DEF Named1To, isNew
  <2> QED BY <2>1, <2>2
<1>15. Working'
  <2>1. AtWork(t)'
    <3>1. work'[t].at = "store" /\ work'[t].child \in DOMAIN content' /\ work'[t].log \in taken'[t]
      BY <1>1, <1>2, <1>4, <1>5, <1>14
    <3>2. work'[t].values \subseteq AllNodeValues(work'[t].log.json, filter'.options.Path)
      BY <1>1, <1>2, <1>4, <1>5 DEF Values
    <3>3. value \in AllNodeValues(work'[t].log.json, filter'.options.Path) \cap DOMAIN named'
      BY <1>1, <1>2, <1>3, <1>4, <1>5, <1>9 DEF Values
    <3>4. named'[value] = work'[t].child
      BY <1>4, <1>5
    <3>5. \E v \in AllNodeValues(work'[t].log.json, filter'.options.Path) \cap DOMAIN named' : named'[v] = work'[t].child
      BY <3>3, <3>4
    <3>6. AllNodeValues(work'[t].log.json, filter'.options.Path) # {}
      BY <3>3
    <3>7. GoesTo(work[t].child, work[t].log)'
      BY <1>1, <1>2, <3>5, <3>6 DEF GoesTo, Values
    <3> QED BY <1>1, <1>2, <3>1, <3>2, <3>7 DEF AtWork, Values
  <2>2. ASSUME NEW u \in Threads \ {t} PROVE AtWork(u)'
    BY <1>1, <1>4, <1>12, WorkGoesOn DEF NodesInv, Working
  <2> QED BY <2>1, <2>2 DEF Working
<1>16. Numbered'
  <2>1. \E m \in Nat : Named1To(m)'
    <3>1. CASE isNew
      <4>1. DOMAIN content' = 0 .. (n + 1)
        BY <1>6, <1>10, <3>1 DEF Named1To
      <4>2. ASSUME NEW v \in DOMAIN named' PROVE named'[v] \in 1 .. (n + 1)
        <5>1. CASE v \in DOMAIN named
          <6>1. named'[v] \in 1 .. n
            BY <1>6, <1>9, <5>1 DEF Named1To
          <6> QED BY <6>1
        <5>2. CASE v = value
          BY <1>9, <3>1, <5>2
        <5> QED BY <1>9, <5>1, <5>2
      <4>3. Named1To(n + 1)'
        BY <4>1, <4>2 DEF Named1To
      <4> QED BY <4>3
    <3>2. CASE ~isNew
      <4>1. Named1To(n)'
        BY <1>6, <1>9, <1>10, <3>2 DEF Named1To, isNew
      <4> QED BY <4>1
    <3> QED BY <3>1, <3>2
  <2>2. ASSUME NEW v \in DOMAIN named', NEW w \in DOMAIN named', v # w PROVE named'[v] # named'[w]
    <3>1. CASE v \in DOMAIN named /\ w \in DOMAIN named
      BY <1>9, <2>2, <3>1 DEF NodesInv, Numbered
    <3>2. CASE isNew
      <4>1. \A x \in DOMAIN named : named'[x] \in 1 .. n
        BY <1>6, <1>9 DEF Named1To
      <4>2. \A x \in DOMAIN named : named'[x] # n + 1
        BY <4>1
      <4>3. v \in DOMAIN named \/ w \in DOMAIN named
        BY <1>9, <2>2
      <4> QED BY <1>9, <2>2, <3>1, <3>2, <4>2, <4>3
    <3> QED BY <1>9, <3>1, <3>2 DEF isNew
  <2> QED BY <1>1, <1>2, <2>1, <2>2 DEF Numbered
<1>17. Placed'
  <2>1. ASSUME NEW i \in DOMAIN content', NEW l \in content'[i]
        PROVE  l \in logs' /\ GoesTo(i, l)'
    <3>1. i \in DOMAIN content /\ l \in content[i]
      BY <1>10
    <3> QED BY <1>1, <1>12, <3>1, GoesOn DEF NodesInv, Placed
  <2> QED BY <2>1 DEF Placed
<1>18. Under'
  <2>1. ASSUME NEW u \in Threads \ {t}, NEW l \in taken'[u] PROVE Arrived(u, l)'
    BY <1>1, <1>2, <1>4, <1>12, ArrivedStays DEF NodesInv, Under, HasOwn
  <2>2. ASSUME NEW l \in taken'[t] PROVE Arrived(t, l)'
    <3>1. Arrived(t, l) /\ \A i : ~Fills(t, l, i)
      BY <1>1, <1>2 DEF NodesInv, Under, HasOwn, Fills
    <3>2. Values(l)' = {} => WithOthers(t, l)'
      <4>1. 0 \in DOMAIN content
        BY <1>6 DEF Named1To
      <4> QED BY <1>2, <1>8, <1>10, <3>1, <4>1 DEF Arrived, WithOthers
    <3>3. ASSUME NEW v \in Values(l)' \ Left(t, l)' PROVE ByName(t, l, v)'
      <4>1. CASE l = log /\ v = value
        <5>1. work'[t] # Idle /\ work'[t].at = "store" /\ work'[t].log = l /\ work'[t].child = named'[v]
          BY <1>4, <1>5, <4>1
        <5> QED BY <1>9, <4>1, <5>1 DEF ByName, Fills
      <4>2. CASE l # log \/ v # value
        <5>1. v \in Values(l) \ Left(t, l)
          <6>1. Left(t, l) = IF l = log THEN work[t].values ELSE {}
            BY <1>2 DEF Left, log
          <6>2. Left(t, l)' = IF l = log THEN work[t].values \ {value} ELSE {}
            BY <1>4, <1>5 DEF Left
          <6> QED BY <1>8, <3>3, <4>2, <6>1, <6>2
        <5>2. v \in DOMAIN named /\ l \in content[named[v]]
          BY <1>2, <3>1, <5>1 DEF Arrived, ByName
        <5>3. named[v] \in DOMAIN content
          BY <1>6, <5>2 DEF Named1To
        <5> QED BY <1>9, <1>10, <5>2, <5>3 DEF ByName
      <4> QED BY <4>1, <4>2
    <3>4. l \in logs' /\ filter'.type = "Explode"
      BY <1>1, <1>2, <3>1 DEF Arrived
    <3> QED BY <3>2, <3>3, <3>4 DEF Arrived
  <2> QED BY <2>1, <2>2 DEF Under
<1> QED BY <1>13, <1>15, <1>16, <1>17, <1>18 DEF NodesInv

\* Whatever the threads do, the invariant holds.
THEOREM NodesInvariance == NodesSpec => []NodesInv
<1>1. ASSUME NodesInv, [NodesNext \/ \E node : CanBeMade(node) /\ Add(node)]_nodeVars
      PROVE  NodesInv'
  <2>1. ASSUME NEW t \in Threads, NEW log \in Logs,
               InsertSimple(t, log) \/ InsertSplit(t, log) \/ InsertExplode(t, log)
        PROVE  NodesInv'
    BY <1>1, <2>1, InsertSimpleNodes, InsertSplitNodes, InsertExplodeNodes
  <2>2. ASSUME NEW t \in Threads, InsertHalf(t) \/ NodeFor(t) \/ Store(t)
        PROVE  NodesInv'
    BY <1>1, <2>2, InsertHalfNodes, NodeForNodes, StoreNodes
  <2>3. CASE Delete
    BY <1>1, <2>3, DeleteNodes
  <2>4. ASSUME NEW node, CanBeMade(node), Add(node)
        PROVE  NodesInv'
    BY <1>1, <2>4, AddNodes
  <2>5. CASE UNCHANGED nodeVars
    BY <1>1, <2>5, StutterNodes
  <2> QED BY <1>1, <2>1, <2>2, <2>3, <2>4, <2>5 DEF NodesNext
<1> QED BY InitNodes, <1>1, PTL DEF NodesSpec

-----------------------------------------------------------------------------
(* What holds of what is seen.                                             *)

LEMMA ValuesAreFound ==
    ASSUME NodesInv, filter # None, filter.type = "Explode", NEW log \in Logs
    PROVE  Found(log.json, filter.options.Path) = Values(log)
<1>1. IsPath(filter.options.Path)
  BY DEF NodesInv, Shape, CanBeMade
<1>2. IsJson(log.json)
  BY LogsAssumption
<1> QED BY <1>1, <1>2, PathsFindPlaces DEF Values

\* What is through was taken by a thread, and no thread is busy with it.
LEMMA ThroughIsArrived ==
    ASSUME NodesInv, HasOwn, NEW log \in Done
    PROVE  /\ filter.type = "BinarySplit" => log \in content[Half(log)]
           /\ filter.type = "Explode" =>
                 /\ Values(log) = {} => log \in content[0]
                 /\ \A v \in Values(log) : v \in DOMAIN named /\ log \in content[named[v]]
<1>1. PICK t \in Threads : log \in taken[t]
  BY DEF Done
<1>2. ~(work[t] # Idle /\ work[t].log = log)
  <2>1. log \notin {work[u].log : u \in {w \in Threads : work[w] # Idle}}
    BY DEF Done
  <2>2. \A u \in {w \in Threads : work[w] # Idle} : work[u].log # log
    BY <2>1
  <2> QED BY <2>2
<1>3. Arrived(t, log)
  BY <1>1 DEF NodesInv, Under
<1>4. Left(t, log) = {} /\ \A i : ~Fills(t, log, i)
  BY <1>2 DEF Left, Fills
<1>5. ASSUME filter.type = "BinarySplit" PROVE log \in content[Half(log)]
  BY <1>2, <1>3, <1>5 DEF Arrived, InHalf
<1>6. ASSUME filter.type = "Explode", Values(log) = {} PROVE log \in content[0]
  BY <1>3, <1>4, <1>6 DEF Arrived, WithOthers
<1>7. ASSUME filter.type = "Explode", NEW v \in Values(log) PROVE v \in DOMAIN named /\ log \in content[named[v]]
  BY <1>3, <1>4, <1>7 DEF Arrived, ByName
<1> QED BY <1>5, <1>6, <1>7

PlacesOf(log) == {i \in DOMAIN content : log \in content[i]}

LEMMA LogOfHalf ==
    ASSUME NodesInv, filter # None, filter.type = "BinarySplit", NEW log \in Logs
    PROVE  /\ PlacesOf(log) \subseteq {Half(log)}
           /\ log \in Done => PlacesOf(log) = {Half(log)}
<1>1. \A i \in PlacesOf(log) : i = Half(log)
  BY DEF PlacesOf, NodesInv, Placed, GoesTo
<1>2. ASSUME log \in Done PROVE Half(log) \in PlacesOf(log)
  <2>1. log \in content[Half(log)]
    BY <1>2, ThroughIsArrived DEF HasOwn
  <2>2. Half(log) \in DOMAIN content
    BY DEF Half, NodesInv, Numbered
  <2> QED BY <2>1, <2>2 DEF PlacesOf
<1> QED BY <1>1, <1>2

Meant(log) == IF Values(log) = {} THEN {0} ELSE {named[v] : v \in Values(log) \cap DOMAIN named}

LEMMA LogOfExplode ==
    ASSUME NodesInv, filter # None, filter.type = "Explode", NEW log \in Logs
    PROVE  /\ PlacesOf(log) \subseteq Meant(log)
           /\ log \in Done => PlacesOf(log) = Meant(log) /\ Values(log) \subseteq DOMAIN named
<1>1. PICK n \in Nat : Named1To(n)
  BY DEF NodesInv, Numbered
<1>2. ASSUME NEW i \in PlacesOf(log) PROVE i \in Meant(log)
  <2>1. GoesTo(i, log)
    BY DEF PlacesOf, NodesInv, Placed
  <2> QED BY <2>1 DEF GoesTo, Meant
<1>3. ASSUME log \in Done PROVE Values(log) \subseteq DOMAIN named /\ Meant(log) \subseteq PlacesOf(log)
  <2>1. /\ Values(log) = {} => log \in content[0]
        /\ \A v \in Values(log) : v \in DOMAIN named /\ log \in content[named[v]]
    BY <1>3, ThroughIsArrived DEF HasOwn
  <2>2. 0 \in DOMAIN content /\ \A v \in DOMAIN named : named[v] \in DOMAIN content
    BY <1>1 DEF Named1To
  <2>3. ASSUME NEW i \in Meant(log) PROVE i \in PlacesOf(log)
    BY <2>1, <2>2 DEF Meant, PlacesOf
  <2> QED BY <2>1, <2>3
<1> QED BY <1>2, <1>3

LEMMA InvImpliesOK == NodesInv => NodesOK
<1> SUFFICES ASSUME NodesInv PROVE NodesOK
  OBVIOUS
<1>1. NodesTypeOK
  <2>1. \A v \in DOMAIN named : named[v] \in DOMAIN content \ {0}
    <3>1. CASE filter # None /\ filter.type = "Explode"
      <4>1. PICK n \in Nat : Named1To(n)
        BY <3>1 DEF NodesInv, Numbered
      <4> QED BY <4>1 DEF Named1To
    <3>2. CASE ~(filter # None /\ filter.type = "Explode")
      BY <3>2 DEF NodesInv, Numbered
    <3> QED BY <3>1, <3>2
  <2>2. \A i \in DOMAIN content : content[i] \subseteq Logs
    BY DEF NodesInv, Placed, Shape
  <2> QED BY <2>1, <2>2 DEF NodesInv, Shape, NodesTypeOK
<1>2. \A v, w \in DOMAIN named : v # w => named[v] # named[w]
  BY DEF NodesInv, Numbered
<1>3. ASSUME NEW log \in Logs
      PROVE  LET meant  == IF filter = None THEN {}
                           ELSE CASE filter.type = "Explode" ->
                                         LET values == Found(log.json, filter.options.Path)
                                         IN  IF values = {} THEN {0}
                                             ELSE {named[v] : v \in values \cap DOMAIN named}
                                  [] filter.type = "BinarySplit" ->
                                         {IF GrepMatches(filter.options, log.json) THEN 1 ELSE 0}
                                  [] OTHER -> {}
             IN  /\ IF log \in Done THEN PlacesOf(log) = meant ELSE PlacesOf(log) \subseteq meant
                 /\ PlacesOf(log) # {} => log \in logs
                 /\ log \in Done /\ filter.type = "Explode" =>
                        Found(log.json, filter.options.Path) \subseteq DOMAIN named
  <2>1. PlacesOf(log) # {} => log \in logs
    BY DEF PlacesOf, NodesInv, Placed
  <2>2. CASE filter = None
    <3>1. log \notin Done /\ PlacesOf(log) = {}
      BY <2>2 DEF NodesInv, Numbered, Done, PlacesOf
    <3> QED BY <2>2, <3>1
  <2>3. CASE filter # None /\ filter.type = "Explode"
    <3>1. Found(log.json, filter.options.Path) = Values(log)
      BY <2>3, ValuesAreFound
    <3>2. /\ PlacesOf(log) \subseteq Meant(log)
          /\ log \in Done => PlacesOf(log) = Meant(log) /\ Values(log) \subseteq DOMAIN named
      BY <2>3, LogOfExplode
    <3> QED BY <2>1, <2>3, <3>1, <3>2 DEF Meant
  <2>4. CASE filter # None /\ filter.type = "BinarySplit"
    <3>1. /\ PlacesOf(log) \subseteq {Half(log)}
          /\ log \in Done => PlacesOf(log) = {Half(log)}
      BY <2>4, LogOfHalf
    <3> QED BY <2>1, <2>4, <3>1 DEF Half
  <2>5. CASE filter # None /\ filter.type \notin {"BinarySplit", "Explode"}
    <3>1. PlacesOf(log) = {}
      BY <2>5 DEF NodesInv, Numbered, PlacesOf
    <3> QED BY <2>1, <2>5, <3>1
  <2> QED BY <2>2, <2>3, <2>4, <2>5
<1>4. EveryLogInItsPlace
  BY <1>3 DEF EveryLogInItsPlace, PlacesOf
<1> QED BY <1>1, <1>2, <1>4 DEF NodesOK

\* NodesOK holds for every filter, all logs and any number of threads that bring
\* them: what BinarySplit and Explode have sorted is where it belongs, and two
\* threads never make a child for the same value.
THEOREM NodesAreRight == NodesSpec => []NodesOK
BY NodesInvariance, InvImpliesOK, PTL

-----------------------------------------------------------------------------
(* What is cut out of a log is gone.                                       *)

\* A walk of N steps within D, each step a function there.
IsWalk(f, N, D, first, step) ==
    /\ f \in [0 .. N -> D] /\ f[0] = first
    /\ \A n \in 1 .. N : f[n] = step[n][f[n - 1]]

LEMMA WalkExists ==
    ASSUME NEW N \in Nat, NEW D, NEW first \in D, NEW step,
           \A n \in 1 .. N : \A x \in D : step[n][x] \in D
    PROVE  \E f : IsWalk(f, N, D, first, step)
<1> DEFINE M == {m \in Nat : m <= N => \E f : IsWalk(f, m, D, first, step)}
<1>1. 0 \in M
  <2>1. IsWalk([n \in 0 .. 0 |-> first], 0, D, first, step)
    BY DEF IsWalk
  <2> QED BY <2>1
<1>2. ASSUME NEW m \in Nat, m \in M PROVE m + 1 \in M
  <2> SUFFICES ASSUME m + 1 <= N PROVE \E g : IsWalk(g, m + 1, D, first, step)
    OBVIOUS
  <2>1. PICK f : IsWalk(f, m, D, first, step)
    BY <1>2
  <2> DEFINE g == [n \in 0 .. m + 1 |-> IF n = m + 1 THEN step[m + 1][f[m]] ELSE f[n]]
  <2>2. f \in [0 .. m -> D] /\ f[0] = first /\ \A n \in 1 .. m : f[n] = step[n][f[n - 1]]
    BY <2>1 DEF IsWalk
  <2>3. step[m + 1][f[m]] \in D
    BY <2>2
  <2>4. g \in [0 .. m + 1 -> D] /\ g[0] = first
    BY <2>2, <2>3
  <2>5. ASSUME NEW n \in 1 .. m + 1 PROVE g[n] = step[n][g[n - 1]]
    <3>1. CASE n = m + 1
      <4>1. g[n] = step[m + 1][f[m]] /\ g[n - 1] = f[m]
        BY <3>1
      <4> QED BY <3>1, <4>1
    <3>2. CASE n # m + 1
      <4>1. g[n] = f[n] /\ g[n - 1] = f[n - 1] /\ n \in 1 .. m
        BY <3>2
      <4> QED BY <2>2, <4>1
    <3> QED BY <3>1, <3>2
  <2> HIDE DEF g
  <2> QED BY <2>4, <2>5 DEF IsWalk
<1>3. N \in M
  <2> HIDE DEF M
  <2> QED BY <1>1, <1>2, SetInduction
<1> QED BY <1>3

LEMMA FollowedUnfolds ==
    ASSUME NEW left, NEW place \in left, NEW entries, Len(entries) \in Nat
    PROVE  /\ Followed(left, place, entries) \in [0 .. Len(entries) -> SUBSET left]
           /\ Followed(left, place, entries)[0] = {place}
           /\ \A n \in 1 .. Len(entries) :
                 Followed(left, place, entries)[n] =
                     {q \in left : \E p \in Followed(left, place, entries)[n - 1] : IsField(q, p, entries[n].name)}
<1> DEFINE On(n, S) == {q \in left : \E p \in S : IsField(q, p, entries[n].name)}
           step == [n \in 1 .. Len(entries) |-> [S \in SUBSET left |-> On(n, S)]]
           Solves(f) == f = [n \in 0 .. Len(entries) |-> IF n = 0 THEN {place} ELSE On(n, f[n - 1])]
           r == CHOOSE f : Solves(f)
<1>1. Followed(left, place, entries) = r
  BY DEF Followed
<1>2. \A n \in 1 .. Len(entries) : \A S \in SUBSET left : step[n][S] = On(n, S) /\ On(n, S) \in SUBSET left
  OBVIOUS
<1> HIDE DEF On, step
<1>3. PICK f : IsWalk(f, Len(entries), SUBSET left, {place}, step)
  BY <1>2, WalkExists
<1>4. Solves(f)
  <2>1. f \in [0 .. Len(entries) -> SUBSET left] /\ f[0] = {place}
    BY <1>3 DEF IsWalk
  <2>2. \A n \in 0 .. Len(entries) : f[n] = IF n = 0 THEN {place} ELSE On(n, f[n - 1])
    <3>1. \A n \in 1 .. Len(entries) : f[n] = step[n][f[n - 1]] /\ n - 1 \in 0 .. Len(entries)
      BY <1>3 DEF IsWalk
    <3> QED BY <1>2, <2>1, <3>1
  <2> QED BY <2>1, <2>2
<1>5. Solves(r)
  <2> HIDE DEF Solves
  <2> QED BY <1>4
<1> HIDE DEF r
<1>6. r[0] = {place} /\ \A n \in 1 .. Len(entries) : r[n] = On(n, r[n - 1])
  <2>1. 0 \in 0 .. Len(entries) /\ \A n \in 1 .. Len(entries) : n \in 0 .. Len(entries) /\ n # 0
    OBVIOUS
  <2> QED BY <1>5, <2>1
<1>7. r \in [0 .. Len(entries) -> SUBSET left]
  <2> DEFINE M == {m \in Nat : m <= Len(entries) => r[m] \in SUBSET left}
  <2>1. 0 \in M
    BY <1>6
  <2>2. ASSUME NEW m \in Nat, m \in M PROVE m + 1 \in M
    <3> SUFFICES ASSUME m + 1 <= Len(entries) PROVE r[m + 1] \in SUBSET left
      OBVIOUS
    <3>1. m + 1 \in 1 .. Len(entries) /\ (m + 1) - 1 = m /\ m <= Len(entries)
      OBVIOUS
    <3> QED BY <1>2, <1>6, <2>2, <3>1
  <2>3. Nat \subseteq M
    <3> HIDE DEF M
    <3> QED BY <2>1, <2>2, SetInduction
  <2> QED BY <1>5, <2>3
<1> QED BY <1>1, <1>6, <1>7 DEF On

\* Cutting only takes away.
LEMMA TrimmingTakes ==
    ASSUME NEW left, NEW n, NEW entries
    PROVE  TrimFrom(left, n, entries) \subseteq left
  BY DEF TrimFrom, Erase

LEMMA RelativeUnfolds ==
    ASSUME NEW left, NEW entries
    PROVE  /\ TrimRelative(left, entries) \in [0 .. MaxDepth + 1 -> SUBSET left]
           /\ TrimRelative(left, entries)[0] = left
           /\ \A n \in 1 .. MaxDepth + 1 :
                 TrimRelative(left, entries)[n] =
                     TrimFrom(TrimRelative(left, entries)[n - 1], n - 1, entries)
<1> DEFINE On(n, S) == TrimFrom(S, n - 1, entries)
           step == [n \in 1 .. MaxDepth + 1 |-> [S \in SUBSET left |-> On(n, S)]]
           Solves(f) == f = [n \in 0 .. MaxDepth + 1 |-> IF n = 0 THEN left ELSE On(n, f[n - 1])]
           r == CHOOSE f : Solves(f)
<1>1. TrimRelative(left, entries) = r
  BY DEF TrimRelative
<1>2. \A n \in 1 .. MaxDepth + 1 : \A S \in SUBSET left : step[n][S] = On(n, S) /\ On(n, S) \in SUBSET left
  BY TrimmingTakes
<1> HIDE DEF On, step
<1>3. PICK f : IsWalk(f, MaxDepth + 1, SUBSET left, left, step)
  BY <1>2, WalkExists, MaxDepthAssumption
<1>4. Solves(f)
  <2>1. f \in [0 .. MaxDepth + 1 -> SUBSET left] /\ f[0] = left
    BY <1>3 DEF IsWalk
  <2>2. \A n \in 0 .. MaxDepth + 1 : f[n] = IF n = 0 THEN left ELSE On(n, f[n - 1])
    <3>1. \A n \in 1 .. MaxDepth + 1 : f[n] = step[n][f[n - 1]] /\ n - 1 \in 0 .. MaxDepth + 1
      BY <1>3, MaxDepthAssumption DEF IsWalk
    <3> QED BY <1>2, <2>1, <3>1, MaxDepthAssumption
  <2> QED BY <2>1, <2>2
<1>5. Solves(r)
  <2> HIDE DEF Solves
  <2> QED BY <1>4
<1> HIDE DEF r
<1>6. r[0] = left /\ \A n \in 1 .. MaxDepth + 1 : r[n] = On(n, r[n - 1])
  <2>1. 0 \in 0 .. MaxDepth + 1 /\ \A n \in 1 .. MaxDepth + 1 : n \in 0 .. MaxDepth + 1 /\ n # 0
    BY MaxDepthAssumption
  <2> QED BY <1>5, <2>1
<1>7. r \in [0 .. MaxDepth + 1 -> SUBSET left]
  <2> DEFINE M == {m \in Nat : m <= MaxDepth + 1 => r[m] \in SUBSET left}
  <2>1. 0 \in M
    BY <1>6
  <2>2. ASSUME NEW m \in Nat, m \in M PROVE m + 1 \in M
    <3> SUFFICES ASSUME m + 1 <= MaxDepth + 1 PROVE r[m + 1] \in SUBSET left
      OBVIOUS
    <3>1. m + 1 \in 1 .. MaxDepth + 1 /\ (m + 1) - 1 = m /\ m <= MaxDepth + 1
      BY MaxDepthAssumption
    <3> QED BY <1>2, <1>6, <2>2, <3>1
  <2>3. Nat \subseteq M
    <3> HIDE DEF M
    <3> QED BY <2>1, <2>2, SetInduction
  <2> QED BY <1>5, <2>3, MaxDepthAssumption
<1> QED BY <1>1, <1>6, <1>7 DEF On

LEMMA OneTakes ==
    ASSUME NEW left, NEW path
    PROVE  TrimOne(left, path) \subseteq left
<1>1. MaxDepth + 1 \in 0 .. MaxDepth + 1
  BY MaxDepthAssumption
<1> QED BY <1>1, TrimmingTakes, RelativeUnfolds DEF TrimOne

LEMMA PathsUnfold ==
    ASSUME NEW json, NEW paths, Len(paths) \in Nat
    PROVE  /\ LeftAfter(json, paths) \in [0 .. Len(paths) -> SUBSET Places(json)]
           /\ LeftAfter(json, paths)[0] = Places(json)
           /\ \A n \in 1 .. Len(paths) :
                 LeftAfter(json, paths)[n] =
                     TrimOne(LeftAfter(json, paths)[n - 1], paths[n])
<1> DEFINE On(n, S) == TrimOne(S, paths[n])
           step == [n \in 1 .. Len(paths) |-> [S \in SUBSET Places(json) |-> On(n, S)]]
           Solves(f) == f = [n \in 0 .. Len(paths) |-> IF n = 0 THEN Places(json) ELSE On(n, f[n - 1])]
           r == CHOOSE f : Solves(f)
<1>1. LeftAfter(json, paths) = r
  BY DEF LeftAfter
<1>2. \A n \in 1 .. Len(paths) : \A S \in SUBSET Places(json) : step[n][S] = On(n, S) /\ On(n, S) \in SUBSET Places(json)
  BY OneTakes
<1> HIDE DEF On, step
<1>3. PICK f : IsWalk(f, Len(paths), SUBSET Places(json), Places(json), step)
  BY <1>2, WalkExists
<1>4. Solves(f)
  <2>1. f \in [0 .. Len(paths) -> SUBSET Places(json)] /\ f[0] = Places(json)
    BY <1>3 DEF IsWalk
  <2>2. \A n \in 0 .. Len(paths) : f[n] = IF n = 0 THEN Places(json) ELSE On(n, f[n - 1])
    <3>1. \A n \in 1 .. Len(paths) : f[n] = step[n][f[n - 1]] /\ n - 1 \in 0 .. Len(paths)
      BY <1>3 DEF IsWalk
    <3> QED BY <1>2, <2>1, <3>1
  <2> QED BY <2>1, <2>2
<1>5. Solves(r)
  <2> HIDE DEF Solves
  <2> QED BY <1>4
<1> HIDE DEF r
<1>6. r[0] = Places(json) /\ \A n \in 1 .. Len(paths) : r[n] = On(n, r[n - 1])
  <2>1. 0 \in 0 .. Len(paths) /\ \A n \in 1 .. Len(paths) : n \in 0 .. Len(paths) /\ n # 0
    OBVIOUS
  <2> QED BY <1>5, <2>1
<1>7. r \in [0 .. Len(paths) -> SUBSET Places(json)]
  <2> DEFINE M == {m \in Nat : m <= Len(paths) => r[m] \in SUBSET Places(json)}
  <2>1. 0 \in M
    BY <1>6
  <2>2. ASSUME NEW m \in Nat, m \in M PROVE m + 1 \in M
    <3> SUFFICES ASSUME m + 1 <= Len(paths) PROVE r[m + 1] \in SUBSET Places(json)
      OBVIOUS
    <3>1. m + 1 \in 1 .. Len(paths) /\ (m + 1) - 1 = m /\ m <= Len(paths)
      OBVIOUS
    <3> QED BY <1>2, <1>6, <2>2, <3>1
  <2>3. Nat \subseteq M
    <3> HIDE DEF M
    <3> QED BY <2>1, <2>2, SetInduction
  <2> QED BY <1>5, <2>3
<1> QED BY <1>1, <1>6, <1>7 DEF On

-----------------------------------------------------------------------------
\* Two ways begin with the same n steps.
SameStart(v, w, n) == \A i \in 1 .. n : v[i] = w[i]

\* A place n steps along a way: an object, if the next step has a name.
HasFront(S, w, n) ==
    \E p \in S : /\ Len(p.way) = n /\ SameStart(p.way, w, n)
                 /\ w[n + 1].name # "" => p.value.is = "object"

\* The field the next step is to, or into.
HasField(S, w, n) ==
    w[n + 1].name # "" =>
        \E p \in S : /\ Len(p.way) = n + 1 /\ SameStart(p.way, w, n)
                     /\ p.way[n + 1] = Named(w[n + 1].name)

\* A set of places that has, with a place, all the way to it.
WayIsThere(S, w) ==
    \A n \in 0 .. Len(w) - 1 :
        /\ HasFront(S, w, n) /\ HasField(S, w, n)
        /\ w[n + 1].item = NoIndex => w[n + 1] = Named(w[n + 1].name)

Whole(S) == \A q \in S : Len(q.way) \in 0 .. MaxDepth /\ WayIsThere(S, q.way)

LEMMA WayOfStep ==
    ASSUME NEW json, IsJson(json), NEW n \in Nat, n < MaxDepth, NEW p \in PlacesIn(json)[n],
           NEW e, NEW v, Leads(p, e, v), NEW o, o.way = Append(p.way, e)
    PROVE  /\ HasFront(Places(json), o.way, n) /\ HasField(Places(json), o.way, n)
           /\ o.way[n + 1].item = NoIndex => o.way[n + 1] = Named(o.way[n + 1].name)
<1>0. n <= MaxDepth /\ n + 1 \in Nat /\ n + 1 <= MaxDepth
  BY MaxDepthAssumption
<1>1. IsWay(p.way, n) /\ Len(p.way) = n
  BY <1>0, WaysOfPlaces, OneStepMore
<1>2. WayOn(p.way, n, e)
  BY <1>1, StepsStay
<1>3. o.way[n + 1] = e /\ SameStart(p.way, o.way, n)
  BY <1>2 DEF WayOn, SameStart
<1>4. p \in Places(json)
  BY <1>0, <1>1, PlacesByWay
<1>5. e.name # "" => p.value.is = "object" /\ e.name \in DOMAIN p.value.fields
  BY <1>0, KindsOfSteps
<1>6. HasFront(Places(json), o.way, n)
  BY <1>1, <1>3, <1>4, <1>5 DEF HasFront
<1>7. HasField(Places(json), o.way, n)
  <2> SUFFICES ASSUME e.name # "" PROVE \E r \in Places(json) : /\ Len(r.way) = n + 1 /\ SameStart(r.way, o.way, n)
                                                                /\ r.way[n + 1] = Named(e.name)
    BY <1>3 DEF HasField
  <2> DEFINE step == Named(e.name)
             r == At(p, step, p.value.fields[e.name])
  <2>1. Leads(p, step, p.value.fields[e.name])
    BY <1>5 DEF Leads
  <2>2. r \in PlacesIn(json)[n + 1] /\ r.way = Append(p.way, step)
    BY <2>1, PlacesGoOn DEF At
  <2> HIDE DEF r, step
  <2>3. WayOn(p.way, n, step)
    BY <1>1, StepsStay
  <2>4. r.way[n + 1] = step /\ SameStart(r.way, o.way, n)
    BY <1>3, <2>2, <2>3 DEF WayOn, SameStart
  <2>5. n + 1 \in Nat /\ n + 1 <= MaxDepth
    BY <1>0
  <2>6. IsWay(r.way, n + 1)
    BY <2>2, <2>5, WaysOfPlaces
  <2>7. Len(r.way) = n + 1
    BY <2>5, <2>6, OneStepMore
  <2>8. r \in Places(json)
    BY <2>2, <2>5, <2>7, PlacesByWay
  <2> QED BY <2>4, <2>7, <2>8 DEF step
<1>8. ASSUME e.item = NoIndex PROVE e = Named(e.name)
  <2>1. \/ \E k : e = Named(k)
        \/ \E k, i : e = ItemIn(k, i)
    BY DEF Leads, Unnamed
  <2>2. CASE \E k : e = Named(k)
    BY <2>2 DEF Named
  <2>3. CASE \E k, i : e = ItemIn(k, i)
    <3>1. PICK k, i : e = [name |-> k, item |-> i - 1]
      BY <2>3 DEF ItemIn
    <3>2. i - 1 = NoIndex /\ e.name = k
      BY <1>8, <3>1
    <3> QED BY <3>1, <3>2 DEF Named
  <2> QED BY <2>1, <2>2, <2>3
<1> QED BY <1>3, <1>6, <1>7, <1>8

\* What is there along a way is there along one that goes on.
LEMMA WayGoesOn ==
    ASSUME NEW S, NEW n \in Nat, NEW v, NEW w, SameStart(v, w, n), Len(v) = n, WayIsThere(S, v)
    PROVE  \A j \in 0 .. n - 1 :
               /\ HasFront(S, w, j) /\ HasField(S, w, j)
               /\ w[j + 1].item = NoIndex => w[j + 1] = Named(w[j + 1].name)
<1> TAKE j \in 0 .. n - 1
<1>1. w[j + 1] = v[j + 1] /\ \A p : SameStart(p, v, j) => SameStart(p, w, j)
  BY DEF SameStart
<1>2. /\ HasFront(S, v, j) /\ HasField(S, v, j)
      /\ v[j + 1].item = NoIndex => v[j + 1] = Named(v[j + 1].name)
  BY DEF WayIsThere
<1>3. HasFront(S, w, j)
  BY <1>1, <1>2 DEF HasFront
<1>4. HasField(S, w, j)
  BY <1>1, <1>2 DEF HasField
<1> QED BY <1>1, <1>2, <1>3, <1>4

LEMMA LogIsWhole ==
    ASSUME NEW json, IsJson(json)
    PROVE  Whole(Places(json))
<1> DEFINE S == Places(json)
           M == {n \in Nat : n <= MaxDepth => \A q \in PlacesIn(json)[n] : WayIsThere(S, q.way)}
<1> HIDE DEF S
<1>1. 0 \in M
  <2>1. \A q \in PlacesIn(json)[0] : Len(q.way) = 0
    BY PlacesUnfold
  <2> QED BY <2>1 DEF WayIsThere
<1>2. ASSUME NEW n \in Nat, n \in M PROVE n + 1 \in M
  <2> SUFFICES ASSUME n + 1 <= MaxDepth, NEW q \in PlacesIn(json)[n + 1] PROVE WayIsThere(S, q.way)
    OBVIOUS
  <2>1. n < MaxDepth /\ n <= MaxDepth /\ n + 1 \in Nat
    BY MaxDepthAssumption
  <2>2. PICK p \in PlacesIn(json)[n] : \E e : Leads(p, e, q.value) /\ q.way = Append(p.way, e)
    BY <2>1, PlacesCome
  <2>3. PICK e : Leads(p, e, q.value) /\ q.way = Append(p.way, e)
    BY <2>2
  <2>4. /\ HasFront(S, q.way, n) /\ HasField(S, q.way, n)
        /\ q.way[n + 1].item = NoIndex => q.way[n + 1] = Named(q.way[n + 1].name)
    BY <2>1, <2>3, WayOfStep DEF S
  <2>5. WayIsThere(S, p.way)
    BY <1>2, <2>1
  <2>6. IsWay(p.way, n) /\ Len(p.way) = n
    BY <2>1, WaysOfPlaces, OneStepMore
  <2>7. WayOn(p.way, n, e)
    BY <2>6, StepsStay
  <2>8. SameStart(p.way, q.way, n)
    BY <2>3, <2>7 DEF SameStart, WayOn
  <2>9. \A j \in 0 .. n - 1 :
            /\ HasFront(S, q.way, j) /\ HasField(S, q.way, j)
            /\ q.way[j + 1].item = NoIndex => q.way[j + 1] = Named(q.way[j + 1].name)
    BY <2>5, <2>6, <2>8, WayGoesOn
  <2>10. IsWay(q.way, n + 1)
    BY <2>1, WaysOfPlaces
  <2>11. Len(q.way) = n + 1
    BY <2>1, <2>10, OneStepMore
  <2>12. \A j \in 0 .. Len(q.way) - 1 : j = n \/ j \in 0 .. n - 1
    BY <2>11
  <2> QED BY <2>4, <2>9, <2>12 DEF WayIsThere
<1>3. Nat \subseteq M
  <2> HIDE DEF M
  <2> QED BY <1>1, <1>2, SetInduction
<1>4. ASSUME NEW q \in S PROVE Len(q.way) \in 0 .. MaxDepth /\ WayIsThere(S, q.way)
  <2>1. PICK n \in Nat : n <= MaxDepth /\ q \in PlacesIn(json)[n] /\ Len(q.way) = n
    BY PlacesByWay DEF S
  <2>2. WayIsThere(S, q.way)
    BY <1>3, <2>1
  <2> QED BY <2>1, <2>2, MaxDepthAssumption
<1> QED BY <1>4 DEF Whole, S

\* Cutting out fields with all that is in them leaves a log.
LEMMA ErasingLeavesWhole ==
    ASSUME NEW S, Whole(S), NEW fields, \A field \in fields : Len(field.way) \in Nat \ {0}
    PROVE  Whole(Erase(S, fields))
<1> DEFINE T == Erase(S, fields)
<1>1. T \subseteq S /\ \A p \in S : (\A field \in fields : ~IsIn(p, field)) => p \in T
  BY DEF Erase
<1>2. \A q \in T : \A field \in fields : ~IsIn(q, field)
  BY DEF Erase
<1> HIDE DEF T
<1> SUFFICES ASSUME NEW q \in T
             PROVE  Len(q.way) \in 0 .. MaxDepth /\ WayIsThere(T, q.way)
  BY DEF Whole, T
<1>3. Len(q.way) \in 0 .. MaxDepth /\ WayIsThere(S, q.way)
  BY <1>1 DEF Whole
<1>4. Len(q.way) \in Nat
  BY <1>3, MaxDepthAssumption
<1>41. \A n \in 0 .. Len(q.way) - 1, l \in Nat \ {0} :
          n + 1 >= l => /\ Len(q.way) >= l /\ \A i \in 1 .. l - 1 : i \in 1 .. n
                        /\ l # n + 1 => l \in 1 .. n
  BY <1>4
<1>5. ASSUME NEW n \in 0 .. Len(q.way) - 1 PROVE HasFront(T, q.way, n)
  <2>1. HasFront(S, q.way, n)
    BY <1>3 DEF WayIsThere
  <2>2. PICK p \in S : /\ Len(p.way) = n /\ SameStart(p.way, q.way, n)
                       /\ q.way[n + 1].name # "" => p.value.is = "object"
    BY <2>1 DEF HasFront
  <2>3. ASSUME NEW field \in fields, IsIn(p, field) PROVE FALSE
    <3>1. PICK l \in Nat \ {0} : l = Len(field.way)
      OBVIOUS
    <3>2. /\ n >= l /\ \A i \in 1 .. l - 1 : p.way[i] = field.way[i]
          /\ p.way[l].name = field.way[l].name
      BY <2>2, <2>3, <3>1 DEF IsIn
    <3>3. Len(q.way) >= l /\ n \in Nat
      <4>1. n \in Nat /\ n + 1 <= Len(q.way) /\ n + 1 >= l
        BY <1>4, <3>2
      <4> QED BY <1>4, <4>1
    <3>4. \A i \in 1 .. l : p.way[i] = q.way[i]
      <4>1. \A i \in 1 .. l : i \in 1 .. n
        BY <3>2, <3>3
      <4> QED BY <2>2, <4>1 DEF SameStart
    <3>5. (\A i \in 1 .. l - 1 : q.way[i] = field.way[i]) /\ q.way[l].name = field.way[l].name
      BY <3>2, <3>4
    <3>6. IsIn(q, field)
      BY <3>1, <3>3, <3>5 DEF IsIn
    <3> QED BY <1>2, <3>6
  <2>4. p \in T
    BY <1>1, <2>3
  <2> QED BY <2>2, <2>4 DEF HasFront
<1>6. ASSUME NEW n \in 0 .. Len(q.way) - 1 PROVE HasField(T, q.way, n)
  <2> SUFFICES ASSUME q.way[n + 1].name # ""
               PROVE  \E p \in T : /\ Len(p.way) = n + 1 /\ SameStart(p.way, q.way, n)
                                   /\ p.way[n + 1] = Named(q.way[n + 1].name)
    BY DEF HasField
  <2>1. HasField(S, q.way, n)
    BY <1>3 DEF WayIsThere
  <2>2. PICK p \in S : /\ Len(p.way) = n + 1 /\ SameStart(p.way, q.way, n)
                       /\ p.way[n + 1] = Named(q.way[n + 1].name)
    BY <2>1 DEF HasField
  <2>3. p.way[n + 1].name = q.way[n + 1].name
    <3>1. \A x : Named(x).name = x
      BY DEF Named
    <3> QED BY <2>2, <3>1
  <2>4. ASSUME NEW field \in fields, IsIn(p, field) PROVE FALSE
    <3>1. PICK l \in Nat \ {0} : l = Len(field.way)
      OBVIOUS
    <3>2. /\ n + 1 >= l /\ \A i \in 1 .. l - 1 : p.way[i] = field.way[i]
          /\ p.way[l].name = field.way[l].name
      BY <2>2, <2>4, <3>1 DEF IsIn
    <3>3. /\ Len(q.way) >= l /\ \A i \in 1 .. l - 1 : i \in 1 .. n
          /\ l # n + 1 => l \in 1 .. n
      BY <1>41, <3>2
    <3>4. \A i \in 1 .. l - 1 : p.way[i] = q.way[i]
      BY <2>2, <3>2, <3>3 DEF SameStart
    <3>5. p.way[l].name = q.way[l].name
      <4>1. CASE l = n + 1
        BY <2>3, <4>1
      <4>2. CASE l # n + 1
        <5>1. l \in 1 .. n
          BY <3>3, <4>2
        <5> QED BY <2>2, <5>1 DEF SameStart
      <4> QED BY <4>1, <4>2
    <3>6. (\A i \in 1 .. l - 1 : q.way[i] = field.way[i]) /\ q.way[l].name = field.way[l].name
      BY <3>2, <3>4, <3>5
    <3>7. IsIn(q, field)
      BY <3>1, <3>3, <3>6 DEF IsIn
    <3> QED BY <1>2, <3>7
  <2>5. p \in T
    BY <1>1, <2>4
  <2> QED BY <2>2, <2>5
<1> QED BY <1>3, <1>5, <1>6 DEF WayIsThere

\* The loop of trimFrom() ends at fields of what it begins at.
LEMMA FollowedAreFields ==
    ASSUME NEW S, Whole(S), NEW entries \in Seq(Entries), entries # <<>>, NEW place \in S,
           NEW field \in Followed(S, place, entries)[Len(entries)]
    PROVE  Len(field.way) \in Nat \ {0}
<1> DEFINE F == Followed(S, place, entries)
           L == Len(entries)
<1>1. L \in Nat /\ L \in 1 .. L /\ L - 1 \in 0 .. L
  OBVIOUS
<1>2. /\ F \in [0 .. L -> SUBSET S]
      /\ \A n \in 1 .. L : F[n] = {q \in S : \E p \in F[n - 1] : IsField(q, p, entries[n].name)}
  BY <1>1, FollowedUnfolds
<1> HIDE DEF F
<1>3. field \in F[L]
  BY DEF F
<1>4. F[L - 1] \subseteq S
  BY <1>1, <1>2
<1>5. PICK p \in F[L - 1] : IsField(field, p, entries[L].name)
  BY <1>1, <1>2, <1>3
<1>6. Len(field.way) = Len(p.way) + 1
  BY <1>5 DEF IsField
<1>7. Len(p.way) \in 0 .. MaxDepth
  BY <1>4 DEF Whole
<1> QED BY <1>6, <1>7, MaxDepthAssumption

LEMMA TrimmingLeavesWhole ==
    ASSUME NEW S, Whole(S), NEW entries \in Seq(Entries), entries # <<>>, NEW n
    PROVE  Whole(TrimFrom(S, n, entries))
<1> DEFINE fields == UNION {Followed(S, place, entries)[Len(entries)] : place \in {p \in S : Len(p.way) = n}}
<1>1. \A field \in fields : \E place \in S : field \in Followed(S, place, entries)[Len(entries)]
  OBVIOUS
<1>2. \A field \in fields : Len(field.way) \in Nat \ {0}
  BY <1>1, FollowedAreFields
<1> HIDE DEF fields
<1>3. Whole(Erase(S, fields))
  BY <1>2, ErasingLeavesWhole
<1> QED BY <1>3 DEF TrimFrom, fields

\* The steps of a way, from the one after the first m, fit the entries of a path.
FitsFrom(m, way, entries) == \A i \in DOMAIN entries : Fits(way[m + i], entries[i])

\* A place that a path ends at is cut out: the loop finds a place behind each
\* entry, as all the way is there.
LEMMA EndIsCut ==
    ASSUME NEW S, Whole(S), NEW path, IsPath(path), Plain(path), path.entries # <<>>,
           NEW q \in S, NEW m \in Nat, Len(q.way) = m + Len(path.entries),
           FitsFrom(m, q.way, path.entries)
    PROVE  q \notin TrimFrom(S, m, path.entries)
<1> DEFINE entries == path.entries
           L == Len(path.entries)
           w == q.way
<1>1. entries \in Seq(Entries) /\ L \in Nat /\ L >= 1 /\ DOMAIN entries = 1 .. L
  <2>1. entries \in Seq(Entries)
    BY DEF IsPath
  <2> HIDE DEF entries
  <2> QED BY <2>1 DEF entries
<1>2. \A k \in 1 .. L : entries[k].name # ""
  <2>1. \A k \in 1 .. L : entries[k] \in Entries
    BY <1>1
  <2> QED BY <2>1 DEF Entries
<1>3. \A k \in 1 .. L : w[m + k].name = entries[k].name
  BY <1>1 DEF FitsFrom, Fits
<1>4. ASSUME NEW k \in 1 .. L, k < L PROVE w[m + k].item = NoIndex
  <2>1. k \in 1 .. L - 1
    BY <1>1, <1>4
  <2>2. ~entries[k].isArray
    BY <2>1 DEF Plain
  <2> QED BY <1>1, <2>2 DEF FitsFrom, Fits
<1>5. \A n \in 0 .. m + L - 1 :
         /\ HasFront(S, w, n) /\ HasField(S, w, n)
         /\ w[n + 1].item = NoIndex => w[n + 1] = Named(w[n + 1].name)
  BY DEF Whole, WayIsThere
<1> HIDE DEF w, entries, L
<1>6. ASSUME NEW k \in 0 .. L - 1
      PROVE  \E p \in S : Len(p.way) = m + k /\ SameStart(p.way, w, m + k) /\ p.value.is = "object"
  <2>1. m + k \in 0 .. m + L - 1 /\ k + 1 \in 1 .. L /\ (m + k) + 1 = m + (k + 1)
    BY <1>1
  <2>2. w[(m + k) + 1].name # ""
    BY <1>2, <1>3, <2>1
  <2>3. HasFront(S, w, m + k)
    BY <1>5, <2>1
  <2> QED BY <2>2, <2>3 DEF HasFront
<1>7. PICK origin \in S : Len(origin.way) = m /\ SameStart(origin.way, w, m) /\ origin.value.is = "object"
  <2>1. 0 \in 0 .. L - 1 /\ m + 0 = m
    BY <1>1
  <2> QED BY <1>6, <2>1
<1> DEFINE F == Followed(S, origin, entries)
<1>8. /\ F \in [0 .. L -> SUBSET S] /\ F[0] = {origin}
      /\ \A n \in 1 .. L : F[n] = {r \in S : \E p \in F[n - 1] : IsField(r, p, entries[n].name)}
  BY <1>1, FollowedUnfolds DEF L, entries
<1> HIDE DEF F
<1> DEFINE Along(k) == \E p \in F[k] : /\ Len(p.way) = m + k /\ SameStart(p.way, w, m + k)
                                        /\ p.value.is = "object"
           M == {k \in Nat : k <= L - 1 => Along(k)}
<1>9. 0 \in M
  BY <1>7, <1>8
<1>10. ASSUME NEW k \in Nat, k \in M PROVE k + 1 \in M
  <2> SUFFICES ASSUME k + 1 <= L - 1 PROVE Along(k + 1)
    BY DEF M
  <2>1. /\ k <= L - 1 /\ k + 1 \in 0 .. L - 1 /\ k + 1 \in 1 .. L /\ k + 1 < L
        /\ m + k \in 0 .. m + L - 1 /\ (m + k) + 1 = m + (k + 1) /\ (k + 1) - 1 = k /\ m + k \in Nat
    BY <1>1
  <2>2. PICK p \in F[k] : Len(p.way) = m + k /\ SameStart(p.way, w, m + k) /\ p.value.is = "object"
    BY <1>10, <2>1
  <2>3. PICK r \in S : /\ Len(r.way) = m + (k + 1) /\ SameStart(r.way, w, m + (k + 1))
                       /\ r.value.is = "object"
    BY <1>6, <2>1
  <2>4. w[m + (k + 1)] = Named(entries[k + 1].name)
    <3>1. w[m + (k + 1)].item = NoIndex
      BY <1>4, <2>1
    <3>2. w[m + (k + 1)] = Named(w[m + (k + 1)].name)
      BY <1>5, <2>1, <3>1
    <3> QED BY <1>3, <2>1, <3>2
  <2>5. /\ r.way[m + (k + 1)] = w[m + (k + 1)]
        /\ \A i \in 1 .. m + k : r.way[i] = p.way[i]
    <3>1. m + (k + 1) \in 1 .. m + (k + 1) /\ \A i \in 1 .. m + k : i \in 1 .. m + (k + 1)
      BY <2>1
    <3> QED BY <2>2, <2>3, <3>1 DEF SameStart
  <2>6. Len(r.way) = Len(p.way) + 1
    BY <2>1, <2>2, <2>3
  <2>7. IsField(r, p, entries[k + 1].name)
    BY <2>2, <2>3, <2>4, <2>5, <2>6 DEF IsField
  <2>8. F[k + 1] = {o \in S : \E u \in F[k] : IsField(o, u, entries[k + 1].name)}
    BY <1>8, <2>1
  <2>9. r \in F[k + 1]
    BY <2>7, <2>8
  <2> QED BY <2>3, <2>9
<1>11. Nat \subseteq M
  <2> HIDE DEF M
  <2> QED BY <1>9, <1>10, SetInduction
<1>12. PICK l \in Nat : l = L - 1
  BY <1>1
<1>13. /\ l + 1 = L /\ L \in 1 .. L /\ m + l \in 0 .. m + L - 1 /\ (m + l) + 1 = m + L /\ m + l \in Nat
       /\ m + L \in Nat /\ l <= L - 1
  BY <1>1, <1>12
<1>14. PICK p \in F[l] : Len(p.way) = m + l /\ SameStart(p.way, w, m + l) /\ p.value.is = "object"
  <2>1. Along(l)
    BY <1>11, <1>13
  <2> QED BY <2>1
<1>15. PICK r \in S : /\ Len(r.way) = m + L /\ SameStart(r.way, w, m + l)
                      /\ r.way[m + L] = Named(entries[L].name)
  <2>1. w[(m + l) + 1].name = entries[L].name /\ entries[L].name # ""
    BY <1>2, <1>3, <1>13
  <2>2. HasField(S, w, m + l)
    BY <1>5, <1>13
  <2> QED BY <1>13, <2>1, <2>2 DEF HasField
<1>16. IsField(r, p, entries[L].name)
  <2>1. Len(r.way) = Len(p.way) + 1
    BY <1>13, <1>14, <1>15
  <2>2. \A i \in 1 .. m + l : r.way[i] = p.way[i]
    BY <1>14, <1>15 DEF SameStart
  <2> QED BY <1>14, <1>15, <2>1, <2>2 DEF IsField
<1>17. r \in F[L]
  <2>1. F[L] = {o \in S : \E u \in F[l] : IsField(o, u, entries[L].name)}
    BY <1>8, <1>12, <1>13
  <2> QED BY <1>16, <2>1
<1>18. IsIn(q, r)
  <2>1. r.way[m + L].name = entries[L].name
    <3>1. \A x : Named(x).name = x
      BY DEF Named
    <3> QED BY <1>15, <3>1
  <2>2. w[m + L].name = entries[L].name
    BY <1>3, <1>13
  <2>3. \A i \in 1 .. (m + L) - 1 : w[i] = r.way[i]
    <3>1. \A i \in 1 .. (m + L) - 1 : i \in 1 .. m + l
      BY <1>13
    <3> QED BY <1>15, <3>1 DEF SameStart
  <2>4. Len(w) >= m + L
    BY <1>13 DEF w, L
  <2>5. Len(r.way) = m + L
    BY <1>15
  <2> QED BY <2>1, <2>2, <2>3, <2>4, <2>5 DEF IsIn, w
<1>19. r \in UNION {Followed(S, place, entries)[L] : place \in {o \in S : Len(o.way) = m}}
  BY <1>7, <1>17 DEF F
<1> QED BY <1>18, <1>19 DEF TrimFrom, Erase, entries, L

LEMMA RelativeLeavesWhole ==
    ASSUME NEW S, Whole(S), NEW entries \in Seq(Entries), entries # <<>>, NEW n \in 0 .. MaxDepth + 1
    PROVE  /\ Whole(TrimRelative(S, entries)[n])
           /\ TrimRelative(S, entries)[MaxDepth + 1] \subseteq TrimRelative(S, entries)[n]
<1> DEFINE T == TrimRelative(S, entries)
           M == {k \in Nat : k <= MaxDepth + 1 => Whole(T[k])}
           D == {k \in Nat : k <= MaxDepth + 1 => T[MaxDepth + 1] \subseteq T[MaxDepth + 1 - k]}
<1>1. T[0] = S /\ \A k \in 1 .. MaxDepth + 1 : T[k] = TrimFrom(T[k - 1], k - 1, entries)
  BY RelativeUnfolds
<1> HIDE DEF T
<1>2. ASSUME NEW k \in Nat, k + 1 <= MaxDepth + 1
      PROVE  k <= MaxDepth + 1 /\ T[k + 1] = TrimFrom(T[k], k, entries)
  <2>1. k + 1 \in 1 .. MaxDepth + 1 /\ (k + 1) - 1 = k /\ k <= MaxDepth + 1
    BY <1>2, MaxDepthAssumption
  <2> QED BY <1>1, <2>1
<1>3. Nat \subseteq M
  <2>1. 0 \in M
    BY <1>1
  <2>2. ASSUME NEW k \in Nat, k \in M PROVE k + 1 \in M
    <3> SUFFICES ASSUME k + 1 <= MaxDepth + 1 PROVE Whole(T[k + 1])
      OBVIOUS
    <3>1. Whole(T[k]) /\ T[k + 1] = TrimFrom(T[k], k, entries)
      BY <1>2, <2>2
    <3>2. Whole(TrimFrom(T[k], k, entries))
      BY <3>1, TrimmingLeavesWhole
    <3> QED BY <3>1, <3>2
  <2> HIDE DEF M
  <2> QED BY <2>1, <2>2, SetInduction
<1>4. Nat \subseteq D
  <2>1. 0 \in D
    BY MaxDepthAssumption
  <2>2. ASSUME NEW k \in Nat, k \in D PROVE k + 1 \in D
    <3> SUFFICES ASSUME k + 1 <= MaxDepth + 1 PROVE T[MaxDepth + 1] \subseteq T[MaxDepth + 1 - (k + 1)]
      OBVIOUS
    <3>1. PICK j \in Nat : j = MaxDepth + 1 - (k + 1)
      BY MaxDepthAssumption
    <3>2. j + 1 = MaxDepth + 1 - k /\ j + 1 <= MaxDepth + 1 /\ k <= MaxDepth + 1
      BY <3>1, MaxDepthAssumption
    <3>3. T[j + 1] \subseteq T[j]
      BY <1>2, <3>2, TrimmingTakes
    <3> QED BY <2>2, <3>1, <3>2, <3>3
  <2> HIDE DEF D
  <2> QED BY <2>1, <2>2, SetInduction
<1>5. n \in Nat /\ n <= MaxDepth + 1 /\ MaxDepth + 1 - n \in Nat /\ MaxDepth + 1 - (MaxDepth + 1 - n) = n
      /\ MaxDepth + 1 - n <= MaxDepth + 1
  BY MaxDepthAssumption
<1>6. Whole(T[n])
  BY <1>3, <1>5
<1>7. T[MaxDepth + 1] \subseteq T[n]
  <2>1. MaxDepth + 1 - n \in D
    BY <1>4, <1>5
  <2> QED BY <1>5, <2>1
<1> QED BY <1>6, <1>7 DEF T

LEMMA OneLeavesWhole ==
    ASSUME NEW S, Whole(S), NEW path, IsPath(path)
    PROVE  Whole(TrimOne(S, path))
<1>1. path.entries \in Seq(Entries)
  BY DEF IsPath
<1>2. CASE path.entries = <<>>
  BY <1>2 DEF TrimOne
<1>3. CASE path.entries # <<>> /\ path.isAbsolute
  <2>1. Whole(TrimFrom(S, 0, path.entries))
    BY <1>1, <1>3, TrimmingLeavesWhole
  <2> QED BY <1>3, <2>1 DEF TrimOne
<1>4. CASE path.entries # <<>> /\ ~path.isAbsolute
  <2>1. MaxDepth + 1 \in 0 .. MaxDepth + 1
    BY MaxDepthAssumption
  <2>2. Whole(TrimRelative(S, path.entries)[MaxDepth + 1])
    BY <1>1, <1>4, <2>1, RelativeLeavesWhole
  <2> QED BY <1>4, <2>2 DEF TrimOne
<1> QED BY <1>2, <1>3, <1>4

LEMMA OneIsGone ==
    ASSUME NEW S, Whole(S), NEW path, IsPath(path), Plain(path), path.entries # <<>>,
           NEW q \in TrimOne(S, path)
    PROVE  ~EndsAlong(path, q.way)
<1> SUFFICES ASSUME EndsAlong(path, q.way) PROVE FALSE
  OBVIOUS
<1>1. path.entries \in Seq(Entries) /\ Len(path.entries) \in Nat /\ path.isAbsolute \in BOOLEAN
  BY DEF IsPath
<1>2. q \in S
  BY OneTakes
<1>3. Len(q.way) \in Nat /\ Len(q.way) <= MaxDepth
  BY <1>2, MaxDepthAssumption DEF Whole
<1>4. CASE path.isAbsolute
  <2>1. Len(q.way) - Len(path.entries) = 0
    BY <1>4 DEF EndsAlong
  <2>2. Len(q.way) = 0 + Len(path.entries)
    BY <1>1, <1>3, <2>1
  <2>3. FitsFrom(0, q.way, path.entries)
    BY <2>1 DEF EndsAlong, FitsFrom
  <2>4. q \notin TrimFrom(S, 0, path.entries)
    BY <1>2, <2>2, <2>3, EndIsCut
  <2> QED BY <1>4, <2>4 DEF TrimOne
<1>5. CASE ~path.isAbsolute
  <2>1. Len(q.way) - Len(path.entries) >= 0
    BY <1>5 DEF EndsAlong
  <2>2. Len(q.way) - Len(path.entries) \in Nat
    BY <1>1, <1>3, <2>1
  <2>3. PICK m \in Nat : m = Len(q.way) - Len(path.entries)
    BY <2>2
  <2>4. Len(q.way) = m + Len(path.entries)
    BY <1>1, <1>3, <2>3
  <2>5. FitsFrom(m, q.way, path.entries)
    BY <2>3 DEF EndsAlong, FitsFrom
  <2>6. m \in 0 .. MaxDepth + 1 /\ m + 1 \in 0 .. MaxDepth + 1 /\ m + 1 \in 1 .. MaxDepth + 1 /\ (m + 1) - 1 = m
    BY <1>1, <1>3, <2>4, MaxDepthAssumption
  <2> DEFINE T == TrimRelative(S, path.entries)
  <2>7. q \in T[MaxDepth + 1]
    BY <1>5 DEF TrimOne
  <2>8. Whole(T[m]) /\ T[MaxDepth + 1] \subseteq T[m] /\ T[MaxDepth + 1] \subseteq T[m + 1]
    BY <1>1, <2>6, RelativeLeavesWhole
  <2>9. T[m + 1] = TrimFrom(T[m], m, path.entries)
    BY <2>6, RelativeUnfolds
  <2> HIDE DEF T
  <2>10. q \in T[m] /\ q \in TrimFrom(T[m], m, path.entries)
    BY <2>7, <2>8, <2>9
  <2>11. q \notin TrimFrom(T[m], m, path.entries)
    BY <2>4, <2>5, <2>8, <2>10, EndIsCut
  <2> QED BY <2>10, <2>11
<1> QED BY <1>1, <1>4, <1>5

\* No place is left at the end of a path that was cut out of a log, whatever the
\* log and the other paths.
THEOREM TrimmedIsGone ==
    ASSUME NEW json, IsJson(json), NEW paths, ListsPaths(paths), NEW path \in Range(paths),
           Plain(path), path.entries # <<>>, NEW q \in TrimFields(json, paths)
    PROVE  ~EndsAlong(path, q.way)
<1> DEFINE T == LeftAfter(json, paths)
           L == Len(paths)
           M == {n \in Nat : n <= L => Whole(T[n])}
           D == {n \in Nat : n <= L => T[L] \subseteq T[L - n]}
<1>1. /\ paths \in Seq(Range(paths)) /\ L \in Nat /\ DOMAIN paths = 1 .. L
      /\ \A n \in 1 .. L : IsPath(paths[n])
  <2>1. paths \in Seq(Range(paths))
    BY DEF ListsPaths
  <2>2. L \in Nat /\ DOMAIN paths = 1 .. L /\ \A n \in 1 .. L : paths[n] \in Range(paths)
    BY <2>1
  <2> QED BY <2>1, <2>2 DEF ListsPaths
<1>2. T[0] = Places(json) /\ \A n \in 1 .. L : T[n] = TrimOne(T[n - 1], paths[n])
  BY <1>1, PathsUnfold
<1>3. q \in T[L]
  BY DEF TrimFields
<1> HIDE DEF T, L
<1>4. ASSUME NEW n \in Nat, n + 1 <= L
      PROVE  n <= L /\ n + 1 \in 1 .. L /\ T[n + 1] = TrimOne(T[n], paths[n + 1])
  <2>1. n + 1 \in 1 .. L /\ (n + 1) - 1 = n /\ n <= L
    BY <1>1, <1>4
  <2> QED BY <1>2, <2>1
<1>5. Nat \subseteq M
  <2>1. 0 \in M
    BY <1>2, LogIsWhole
  <2>2. ASSUME NEW n \in Nat, n \in M PROVE n + 1 \in M
    <3> SUFFICES ASSUME n + 1 <= L PROVE Whole(T[n + 1])
      OBVIOUS
    <3>1. Whole(T[n]) /\ T[n + 1] = TrimOne(T[n], paths[n + 1]) /\ IsPath(paths[n + 1])
      BY <1>1, <1>4, <2>2
    <3>2. Whole(TrimOne(T[n], paths[n + 1]))
      BY <3>1, OneLeavesWhole
    <3> QED BY <3>1, <3>2
  <2> HIDE DEF M
  <2> QED BY <2>1, <2>2, SetInduction
<1>6. Nat \subseteq D
  <2>1. 0 \in D
    BY <1>1
  <2>2. ASSUME NEW n \in Nat, n \in D PROVE n + 1 \in D
    <3> SUFFICES ASSUME n + 1 <= L PROVE T[L] \subseteq T[L - (n + 1)]
      OBVIOUS
    <3>1. PICK j \in Nat : j = L - (n + 1)
      BY <1>1
    <3>2. j + 1 = L - n /\ j + 1 <= L /\ n <= L
      BY <1>1, <3>1
    <3>3. T[j + 1] \subseteq T[j]
      BY <1>4, <3>2, OneTakes
    <3> QED BY <2>2, <3>1, <3>2, <3>3
  <2> HIDE DEF D
  <2> QED BY <2>1, <2>2, SetInduction
<1>7. PICK k \in 1 .. L : path = paths[k]
  BY <1>1 DEF Range
<1>8. PICK n \in Nat : k = n + 1 /\ n + 1 <= L /\ n <= L
  <2>1. k - 1 \in Nat /\ k = (k - 1) + 1 /\ k <= L /\ k - 1 <= L
    BY <1>1
  <2> QED BY <2>1
<1>9. T[L] \subseteq T[k]
  <2>1. L - k \in Nat /\ L - k <= L /\ L - (L - k) = k
    BY <1>1
  <2>2. L - k \in D
    BY <1>6, <2>1
  <2> QED BY <2>1, <2>2
<1>10. Whole(T[n]) /\ T[k] = TrimOne(T[n], path) /\ IsPath(path)
  <2>1. T[n + 1] = TrimOne(T[n], paths[n + 1])
    BY <1>4, <1>8
  <2>2. Whole(T[n])
    BY <1>5, <1>8
  <2> QED BY <1>1, <1>7, <1>8, <2>1, <2>2
<1>11. q \in TrimOne(T[n], path)
  BY <1>3, <1>9, <1>10
<1> QED BY <1>10, <1>11, OneIsGone

-----------------------------------------------------------------------------
(* The node and its children know what is left out.                        *)

LEMMA ShortLists ==
    /\ ListsPaths(<<>>) /\ Range(<<>>) = {}
    /\ \A p : IsPath(p) => ListsPaths(<<p>>) /\ Range(<<p>>) = {p}
<1>1. Range(<<>>) = {} /\ <<>> \in Seq({})
  BY DEF Range
<1>2. ASSUME NEW p PROVE Range(<<p>>) = {p} /\ <<p>> \in Seq({p})
  BY DEF Range
<1> QED BY <1>1, <1>2 DEF ListsPaths

LEMMA JoinedLists ==
    ASSUME NEW s, NEW t, ListsPaths(s), ListsPaths(t)
    PROVE  ListsPaths(s \o t) /\ Range(s \o t) = Range(s) \cup Range(t)
<1> DEFINE S == Range(s) \cup Range(t)
           u == s \o t
<1>1. s \in Seq(S) /\ t \in Seq(S)
  <2>1. /\ s \in Seq(Range(s)) /\ Range(s) \subseteq S
        /\ t \in Seq(Range(t)) /\ Range(t) \subseteq S
    BY DEF ListsPaths
  <2> HIDE DEF S
  <2> QED BY <2>1
<1>2. DOMAIN s = 1 .. Len(s) /\ DOMAIN t = 1 .. Len(t) /\ Len(s) \in Nat /\ Len(t) \in Nat
  BY <1>1
<1>3. /\ u \in Seq(S) /\ DOMAIN u = 1 .. Len(s) + Len(t)
      /\ \A i \in 1 .. Len(s) : u[i] = s[i]
      /\ \A i \in 1 .. Len(t) : u[Len(s) + i] = t[i]
  <2> HIDE DEF S
  <2> QED BY <1>1
<1> HIDE DEF u
<1>4. ASSUME NEW x \in Range(s) PROVE x \in Range(u)
  <2>1. PICK i \in 1 .. Len(s) : x = s[i]
    BY <1>2 DEF Range
  <2>2. i \in DOMAIN u /\ u[i] = x
    BY <1>2, <1>3, <2>1
  <2> QED BY <2>2 DEF Range
<1>5. ASSUME NEW x \in Range(t) PROVE x \in Range(u)
  <2>1. PICK i \in 1 .. Len(t) : x = t[i]
    BY <1>2 DEF Range
  <2>2. Len(s) + i \in DOMAIN u /\ u[Len(s) + i] = x
    BY <1>2, <1>3, <2>1
  <2> QED BY <2>2 DEF Range
<1>6. Range(u) \subseteq S
  <2> HIDE DEF S
  <2> QED BY <1>3 DEF Range
<1>7. Range(u) = S
  BY <1>4, <1>5, <1>6
<1>8. ListsPaths(u)
  BY <1>3, <1>7 DEF ListsPaths
<1> QED BY <1>7, <1>8 DEF u

LEMMA LongerList ==
    ASSUME NEW s, ListsPaths(s), NEW p, IsPath(p)
    PROVE  ListsPaths(Append(s, p)) /\ Range(Append(s, p)) = Range(s) \cup {p}
<1>1. s \in Seq(Range(s))
  BY DEF ListsPaths
<1>2. Append(s, p) = s \o <<p>>
  BY <1>1
<1> QED BY <1>2, JoinedLists, ShortLists

\* What is left out in child i.
LeftOutIn(i) ==
    Range(RootTrim)
        \cup (IF filter.type = "Explode" THEN {filter.options.Path} ELSE {})
        \cup (IF filter.type = "BinarySplit" /\ i = 1 THEN Range(OptTrim(filter.options)) ELSE {})

Tells(fields, paths) == ListsPaths(fields) /\ paths \subseteq Range(fields)

TrimsTold ==
    filter # None =>
        /\ Tells(trim, Range(RootTrim) \cup Range(OwnTrim(filter)))
        /\ \A i \in DOMAIN trims : Tells(trims[i], LeftOutIn(i))

LEMMA OwnTrimLists ==
    ASSUME NEW node, CanBeMade(node)
    PROVE  /\ ListsPaths(OwnTrim(node))
           /\ node.type \in {"Grep", "BinarySplit"} => ListsPaths(OptTrim(node.options))
<1>1. node.type \in {"Grep", "BinarySplit"} => ListsPaths(OptTrim(node.options))
  BY ShortLists DEF CanBeMade, OptTrim
<1>2. CASE node.type = "Grep"
  BY <1>1, <1>2 DEF OwnTrim
<1>3. CASE node.type = "AcceptAll"
  BY <1>3 DEF CanBeMade
<1>4. CASE node.type \notin {"Grep", "AcceptAll"}
  <2>1. node.type # "Grep" /\ node.type # "AcceptAll"
    BY <1>4
  <2>2. OwnTrim(node) = <<>>
    BY <2>1 DEF OwnTrim
  <2> QED BY <1>1, <2>2, ShortLists
<1> QED BY <1>1, <1>2, <1>3, <1>4

LEMMA AddTells == ASSUME NEW node, CanBeMade(node), Add(node) PROVE TrimsTold'
<1>1. /\ filter' = node /\ trim' = OwnTrim(node) \o RootTrim
      /\ trims' = [i \in DOMAIN FirstChildren(node) |-> FirstChildren(node)[i] \o RootTrim]
  BY DEF Add
<1>2. Tells(trim', Range(RootTrim) \cup Range(OwnTrim(node)))
  BY <1>1, OwnTrimLists, JoinedLists, RootTrimAssumption DEF Tells
<1>3. ASSUME NEW i \in DOMAIN trims' PROVE Tells(trims'[i], LeftOutIn(i)')
  <2>1. i \in DOMAIN FirstChildren(node) /\ trims'[i] = FirstChildren(node)[i] \o RootTrim
    BY <1>1
  <2>2. CASE node.type = "BinarySplit"
    <3>1. i \in {0, 1} /\ FirstChildren(node)[i] = IF i = 0 THEN <<>> ELSE OptTrim(node.options)
      BY <2>1, <2>2 DEF FirstChildren
    <3>2. LeftOutIn(i)' = Range(RootTrim) \cup (IF i = 1 THEN Range(OptTrim(node.options)) ELSE {})
      BY <1>1, <2>2, "BinarySplit" # "Explode" DEF LeftOutIn
    <3>3. ListsPaths(FirstChildren(node)[i]) /\ (i = 1 => FirstChildren(node)[i] = OptTrim(node.options))
      BY <2>2, <3>1, OwnTrimLists, ShortLists
    <3>4. ListsPaths(trims'[i]) /\ Range(trims'[i]) = Range(FirstChildren(node)[i]) \cup Range(RootTrim)
      BY <2>1, <3>3, JoinedLists, RootTrimAssumption
    <3> QED BY <3>2, <3>3, <3>4 DEF Tells
  <2>3. CASE node.type = "Explode"
    <3>1. FirstChildren(node)[i] = <<node.options.Path>>
      BY <2>1, <2>3, FreshChildren DEF FirstChildren
    <3>2. LeftOutIn(i)' = Range(RootTrim) \cup {node.options.Path}
      BY <1>1, <2>3, "BinarySplit" # "Explode" DEF LeftOutIn
    <3>3. IsPath(node.options.Path)
      BY <2>3 DEF CanBeMade
    <3>4. ListsPaths(trims'[i]) /\ Range(trims'[i]) = {node.options.Path} \cup Range(RootTrim)
      BY <2>1, <3>1, <3>3, ShortLists, JoinedLists, RootTrimAssumption
    <3> QED BY <3>2, <3>4 DEF Tells
  <2>4. CASE node.type \notin {"BinarySplit", "Explode"}
    BY <2>1, <2>4, FreshChildren
  <2> QED BY <2>2, <2>3, <2>4
<1> QED BY <1>1, <1>2, <1>3 DEF TrimsTold

LEMMA NodeForTells == ASSUME NodesInv, TrimsTold, NEW t \in Threads, NodeFor(t) PROVE TrimsTold'
<1>1. /\ filter # None /\ filter.type = "Explode" /\ IsPath(filter.options.Path)
      /\ filter' = filter /\ trim' = trim
  <2>1. work[t].at = "values"
    BY DEF NodeFor
  <2>2. filter # None /\ filter.type = "Explode"
    BY <2>1 DEF NodesInv, Working, AtWork, Idle
  <2> QED BY <2>2 DEF NodeFor, NodesInv, Shape, CanBeMade
<1>2. LeftOutIn(0) = Range(RootTrim) \cup {filter.options.Path} /\ \A i : LeftOutIn(i) = LeftOutIn(0)
  BY <1>1, "Explode" # "BinarySplit" DEF LeftOutIn
<1>3. Tells(Append(trim, filter.options.Path), LeftOutIn(0))
  <2>1. ListsPaths(trim) /\ Range(RootTrim) \subseteq Range(trim)
    BY <1>1 DEF TrimsTold, Tells
  <2> QED BY <1>1, <1>2, <2>1, LongerList DEF Tells
<1>4. trims' = trims \/ \E c : trims' = With(trims, c, Append(trim, filter.options.Path))
  BY DEF NodeFor
<1>5. ASSUME NEW i \in DOMAIN trims' PROVE Tells(trims'[i], LeftOutIn(0))
  <2>1. trims'[i] = Append(trim, filter.options.Path) \/ (i \in DOMAIN trims /\ trims'[i] = trims[i])
    <3>1. CASE trims' = trims
      BY <3>1
    <3>2. ASSUME NEW c, trims' = With(trims, c, Append(trim, filter.options.Path))
          PROVE  trims'[i] = Append(trim, filter.options.Path) \/ (i \in DOMAIN trims /\ trims'[i] = trims[i])
      <4>1. i \in DOMAIN trims \cup {c}
        BY <3>2 DEF With
      <4> QED BY <3>2, <4>1 DEF With
    <3> QED BY <1>4, <3>1, <3>2
  <2>2. \A j \in DOMAIN trims : Tells(trims[j], LeftOutIn(0))
    BY <1>1, <1>2 DEF TrimsTold
  <2> QED BY <1>3, <2>1, <2>2
<1>6. \A i : LeftOutIn(i)' = LeftOutIn(i)
  BY <1>1 DEF LeftOutIn
<1>7. \A i : LeftOutIn(i)' = LeftOutIn(0)
  BY <1>2, <1>6
<1> QED BY <1>1, <1>5, <1>7 DEF TrimsTold

LEMMA OthersTell == ASSUME TrimsTold, UNCHANGED <<filter, trim, trims>> PROVE TrimsTold'
<1>1. \A i : LeftOutIn(i)' = LeftOutIn(i)
  BY DEF LeftOutIn
<1> QED BY <1>1 DEF TrimsTold

\* Whatever is added and made, it has been told.
THEOREM TrimsAreTold == NodesSpec => []TrimsTold
<1>1. NodesInit => TrimsTold
  BY DEF NodesInit, TrimsTold
<1>2. ASSUME NodesInv, TrimsTold, [NodesNext \/ \E node : CanBeMade(node) /\ Add(node)]_nodeVars
      PROVE  TrimsTold'
  <2>1. ASSUME NEW t \in Threads, NEW log \in Logs,
               InsertSimple(t, log) \/ InsertSplit(t, log) \/ InsertExplode(t, log)
        PROVE  TrimsTold'
    BY <1>2, <2>1, OthersTell DEF InsertSimple, InsertSplit, InsertExplode
  <2>2. ASSUME NEW t \in Threads, NodeFor(t) PROVE TrimsTold'
    BY <1>2, <2>2, NodeForTells
  <2>3. ASSUME NEW t \in Threads, InsertHalf(t) \/ Store(t) PROVE TrimsTold'
    BY <1>2, <2>3, OthersTell DEF InsertHalf, Store
  <2>4. CASE Delete
    BY <2>4 DEF Delete, TrimsTold
  <2>5. ASSUME NEW node, CanBeMade(node), Add(node) PROVE TrimsTold'
    BY <2>5, AddTells
  <2>6. CASE UNCHANGED nodeVars
    BY <1>2, <2>6, OthersTell DEF nodeVars
  <2> QED BY <1>2, <2>1, <2>2, <2>3, <2>4, <2>5, <2>6 DEF NodesNext
<1> QED BY <1>1, <1>2, NodesInvariance, PTL DEF NodesSpec

LEMMA ToldIsNotShown ==
    ASSUME NEW shown, shown \subseteq Logs, NEW fields, NEW paths, Tells(fields, paths)
    PROVE  NoneShown(shown, fields, paths)
<1>1. \A log \in shown : IsJson(log.json)
  BY LogsAssumption
<1> QED BY <1>1, TrimmedIsGone DEF NoneShown, Tells

\* No log in a window has a place left at the end of a path that the root, a
\* filter above or the node itself leaves out.
THEOREM NothingLeftOutIsShown == NodesSpec => []ShownWithoutTrimmed
<1>1. ASSUME NodesInv, TrimsTold PROVE ShownWithoutTrimmed
  <2> SUFFICES ASSUME filter # None PROVE ShownWithoutTrimmed
    BY DEF ShownWithoutTrimmed
  <2>1. NoneShown(logs, trim, Range(RootTrim) \cup Range(OwnTrim(filter)))
    <3>1. logs \subseteq Logs
      BY <1>1 DEF NodesInv, Shape
    <3> QED BY <1>1, <3>1, ToldIsNotShown DEF TrimsTold
  <2>2. ASSUME NEW i \in DOMAIN content PROVE NoneShown(content[i], trims[i], LeftOutIn(i))
    <3>1. content[i] \subseteq Logs /\ i \in DOMAIN trims
      BY <1>1 DEF NodesInv, Shape, Placed
    <3> QED BY <1>1, <3>1, ToldIsNotShown DEF TrimsTold
  <2> QED BY <2>1, <2>2 DEF ShownWithoutTrimmed, LeftOutIn
<1> QED BY <1>1, NodesInvariance, TrimsAreTold, PTL

=============================================================================
