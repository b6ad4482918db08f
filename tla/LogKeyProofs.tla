---------------------------- MODULE LogKeyProofs ----------------------------
(***************************************************************************)
(* Keys of logs, and the positions that are remembered for them.           *)
(*                                                                         *)
(* Keys are in a strict total order, as a std::set needs it and as the     *)
(* other modules have it when a key is an integer; and keys made of times  *)
(* from 1970 to 9999 are in the order of the times.                        *)
(*                                                                         *)
(* What LogKeyIndexCache remembers and answers is right, and stays sparse, *)
(* for any keys and settings, as long as no log is inserted twice.  (With  *)
(* Duplicates it is wrong: the run index_of_duplicates.)  A cache is exact *)
(* for a set of logs if it says the position of all it has.  Each operator *)
(* that makes a cache of another keeps that, for the set as it is then;    *)
(* the actions only put these operators together.                          *)
(***************************************************************************)
EXTENDS LogKeyIndexCache, KeyOrder, LogsProofs

-----------------------------------------------------------------------------
(* The order of keys.                                                      *)

Texts   == Seq(Int)
LogKeys == [text : Texts, sequenceNumber : Nat]

\* What is apart is a finite set of positions, and has a first one.
LEMMA FirstApartIsFirst ==
    ASSUME NEW l \in Texts, NEW r \in Texts, Apart(l, r) # {}
    PROVE  /\ FirstApart(l, r) \in Apart(l, r)
           /\ \A j \in Apart(l, r) : FirstApart(l, r) <= j
<1> DEFINE n == IF Len(l) < Len(r) THEN Len(l) ELSE Len(r)
<1>1. n \in Nat
  BY DEF Texts
<1>2. IsFiniteSet(1 .. n)
  BY <1>1, FS_Interval
<1>3. Apart(l, r) \subseteq 1 .. n
  BY DEF Apart
<1>4. IsFiniteSet(Apart(l, r)) /\ Apart(l, r) \subseteq Int
  BY <1>1, <1>2, <1>3, FS_Subset
<1>5. \E i \in Apart(l, r) : \A j \in Apart(l, r) : i <= j
  BY <1>4, LeastExists
<1> QED BY <1>5 DEF FirstApart

\* AgreesUntil(l, r, i): up to i the texts agree, and there l ends or is below r.
AgreesUntil(l, r, i) ==
    /\ i \in 1 .. Len(r) /\ i <= Len(l) + 1
    /\ \A j \in 1 .. i - 1 : l[j] = r[j]
    /\ i <= Len(l) => l[i] < r[i]

\* One text comes before another exactly where there is such a position.
LEMMA TextBelow ==
    ASSUME NEW l \in Texts, NEW r \in Texts
    PROVE  CompareTexts(l, r) = -1 <=> \E i \in Nat : AgreesUntil(l, r, i)
<1> USE DEF Texts
<1>1. CASE Apart(l, r) = {}
  <2>1. \A j \in Nat \ {0} : j <= Len(l) /\ j <= Len(r) => l[j] = r[j]
    BY <1>1 DEF Apart
  <2>2. CompareTexts(l, r) = -1 <=> Len(l) < Len(r)
    BY <1>1 DEF CompareTexts, CompareNumbers
  <2>3. ASSUME Len(l) < Len(r) PROVE AgreesUntil(l, r, Len(l) + 1)
    BY <2>1, <2>3 DEF AgreesUntil
  <2>4. ASSUME NEW i \in Nat, AgreesUntil(l, r, i) PROVE Len(l) < Len(r)
    <3>1. i \in Nat \ {0} /\ i <= Len(r) /\ i <= Len(l) + 1
      BY <2>4 DEF AgreesUntil
    <3>2. CASE i <= Len(l)
      <4>1. l[i] = r[i] /\ l[i] \in Int /\ l[i] < r[i]
        BY <2>1, <2>4, <3>1, <3>2 DEF AgreesUntil
      <4> QED BY <4>1
    <3> QED BY <3>1, <3>2
  <2> QED BY <2>2, <2>3, <2>4
<1>2. CASE Apart(l, r) # {}
  <2> DEFINE f == FirstApart(l, r)
  <2>1. /\ f \in Nat \ {0} /\ f <= Len(l) /\ f <= Len(r) /\ l[f] # r[f]
        /\ \A j \in 1 .. f - 1 : l[j] = r[j]
    <3>1. f \in Apart(l, r) /\ \A j \in Apart(l, r) : f <= j
      BY <1>2, FirstApartIsFirst
    <3> HIDE DEF f
    <3> QED BY <3>1 DEF Apart
  <2>2. l[f] \in Int /\ r[f] \in Int
    BY <2>1
  <2>3. CompareTexts(l, r) = -1 <=> l[f] < r[f]
    BY <1>2, <2>1, <2>2 DEF CompareTexts, CompareNumbers
  <2>4. ASSUME l[f] < r[f] PROVE AgreesUntil(l, r, f)
    BY <2>1, <2>4 DEF AgreesUntil
  <2>5. ASSUME NEW i \in Nat, AgreesUntil(l, r, i) PROVE l[f] < r[f]
    <3>1. i <= f
      BY <2>1, <2>5 DEF AgreesUntil
    <3>2. i \in 1 .. f /\ (i < f => l[i] = r[i] /\ l[i] \in Int) /\ l[i] < r[i]
      BY <2>1, <2>5, <3>1 DEF AgreesUntil
    <3>3. i = f
      BY <3>2, <2>1
    <3> QED BY <3>2, <3>3
  <2>6. f \in Nat
    BY <2>1
  <2> HIDE DEF f
  <2> QED BY <2>3, <2>4, <2>5, <2>6
<1> QED BY <1>1, <1>2

\* Exchanging the texts changes the sign, and only equal texts compare as such.
LEMMA TextSigns ==
    ASSUME NEW l \in Texts, NEW r \in Texts
    PROVE  /\ CompareTexts(l, r) \in {-1, 0, 1}
           /\ CompareTexts(r, l) = -CompareTexts(l, r)
           /\ CompareTexts(l, r) = 0 <=> l = r
<1> USE DEF Texts
<1>1. Apart(l, r) = Apart(r, l)
  BY DEF Apart
<1>2. FirstApart(l, r) = FirstApart(r, l)
  BY <1>1 DEF FirstApart
<1>3. CASE Apart(l, r) = {}
  <2>1. \A j \in Nat \ {0} : j <= Len(l) /\ j <= Len(r) => l[j] = r[j]
    BY <1>3 DEF Apart
  <2>2. Len(l) = Len(r) => l = r
    BY <2>1
  <2> QED BY <1>1, <1>3, <2>2 DEF CompareTexts, CompareNumbers
<1>4. CASE Apart(l, r) # {}
  <2> DEFINE f == FirstApart(l, r)
  <2>1. f \in Nat \ {0} /\ f <= Len(l) /\ f <= Len(r) /\ l[f] # r[f]
    BY <1>4, FirstApartIsFirst DEF Apart
  <2>2. l[f] \in Int /\ r[f] \in Int /\ l # r
    BY <2>1
  <2> QED BY <1>1, <1>2, <1>4, <2>1, <2>2 DEF CompareTexts, CompareNumbers
<1> QED BY <1>3, <1>4

\* One text before another before a third.
LEMMA TextTransitive ==
    ASSUME NEW a \in Texts, NEW b \in Texts, NEW c \in Texts,
           CompareTexts(a, b) = -1, CompareTexts(b, c) = -1
    PROVE  CompareTexts(a, c) = -1
<1> USE DEF Texts
<1>1. PICK i \in Nat : AgreesUntil(a, b, i)
  BY TextBelow
<1>2. PICK k \in Nat : AgreesUntil(b, c, k)
  BY TextBelow
<1>3. CASE i <= k
  <2>1. i \in 1 .. Len(c) /\ i <= Len(a) + 1 /\ i <= Len(b)
    BY <1>1, <1>2, <1>3 DEF AgreesUntil
  <2>2. \A j \in 1 .. i - 1 : a[j] = c[j]
    BY <1>1, <1>2, <1>3 DEF AgreesUntil
  <2>3. ASSUME i <= Len(a) PROVE a[i] < c[i]
    <3>1. a[i] \in Int /\ b[i] \in Int /\ c[i] \in Int /\ a[i] < b[i]
      BY <1>1, <2>1, <2>3 DEF AgreesUntil
    <3>2. i < k => b[i] = c[i]
      BY <1>2, <2>1 DEF AgreesUntil
    <3>3. i = k => b[i] < c[i]
      BY <1>2, <2>1 DEF AgreesUntil
    <3> QED BY <1>3, <3>1, <3>2, <3>3
  <2>4. AgreesUntil(a, c, i)
    BY <2>1, <2>2, <2>3 DEF AgreesUntil
  <2> QED BY <2>4, TextBelow
<1>4. CASE k < i
  <2>1. k \in 1 .. Len(c) /\ k <= Len(a) /\ k <= Len(b)
    BY <1>1, <1>2, <1>4 DEF AgreesUntil
  <2>2. \A j \in 1 .. k - 1 : a[j] = c[j]
    BY <1>1, <1>2, <1>4 DEF AgreesUntil
  <2>3. a[k] = b[k] /\ b[k] < c[k]
    BY <1>1, <1>2, <1>4, <2>1 DEF AgreesUntil
  <2>4. AgreesUntil(a, c, k)
    BY <2>1, <2>2, <2>3 DEF AgreesUntil
  <2> QED BY <2>4, TextBelow
<1> QED BY <1>3, <1>4

\* Log::Key is in a strict total order when a number belongs to one text, as the
\* assertion in starshipOperator() has it: exchanging two keys exchanges the
\* answer, keys compare as equal only when they are, and what is before another
\* is before all that is behind it. Every sorted container relies on this.
THEOREM KeysAreOrdered ==
    ASSUME NEW S \in SUBSET LogKeys,
           \A a, b \in S : a.sequenceNumber = b.sequenceNumber => a.text = b.text
    PROVE  /\ \A a, b \in S : /\ Compare(a, b) \in {-1, 0, 1}
                              /\ Compare(b, a) = -Compare(a, b)
                              /\ Compare(a, b) = 0 <=> a = b
           /\ \A a, b, c \in S : Compare(a, b) = -1 /\ Compare(b, c) = -1 => Compare(a, c) = -1
<1>1. ASSUME NEW a \in S, NEW b \in S
      PROVE  /\ Compare(a, b) \in {-1, 0, 1}
             /\ Compare(b, a) = -Compare(a, b)
             /\ Compare(a, b) = 0 <=> a = b
  <2>1. a \in LogKeys /\ b \in LogKeys
    OBVIOUS
  <2>2. /\ a.text \in Texts /\ b.text \in Texts
        /\ a.sequenceNumber \in Nat /\ b.sequenceNumber \in Nat
        /\ a = b <=> a.text = b.text /\ a.sequenceNumber = b.sequenceNumber
    BY <2>1 DEF LogKeys
  <2>3. a.sequenceNumber = b.sequenceNumber => a = b
    BY <2>2
  <2>4. /\ CompareTexts(a.text, b.text) \in {-1, 0, 1}
        /\ CompareTexts(b.text, a.text) = -CompareTexts(a.text, b.text)
    BY <2>2, TextSigns
  <2> QED BY <2>2, <2>3, <2>4 DEF Compare, CompareNumbers
<1>2. ASSUME NEW a \in S, NEW b \in S, NEW c \in S, Compare(a, b) = -1, Compare(b, c) = -1
      PROVE  Compare(a, c) = -1
  <2>1. a \in LogKeys /\ b \in LogKeys /\ c \in LogKeys
    OBVIOUS
  <2>2. /\ a.text \in Texts /\ b.text \in Texts /\ c.text \in Texts
        /\ a.sequenceNumber \in Nat /\ b.sequenceNumber \in Nat /\ c.sequenceNumber \in Nat
    BY <2>1 DEF LogKeys
  <2> DEFINE ab == CompareTexts(a.text, b.text)
             bc == CompareTexts(b.text, c.text)
             ac == CompareTexts(a.text, c.text)
  <2>3. /\ ab = -1 \/ (ab = 0 /\ a.sequenceNumber < b.sequenceNumber)
        /\ bc = -1 \/ (bc = 0 /\ b.sequenceNumber < c.sequenceNumber)
    BY <1>2, <2>2 DEF Compare, CompareNumbers
  <2>4. ab = 0 => a.text = b.text
    BY <2>2, TextSigns
  <2>5. bc = 0 => b.text = c.text
    BY <2>2, TextSigns
  <2>6. ab = -1 /\ bc = -1 => ac = -1
    BY <2>2, TextTransitive
  <2>7. CASE ac = -1
    <3>1. a.text # c.text
      <4>1. a.text = c.text => ac = 0
        BY <2>2, TextSigns
      <4> QED BY <2>7, <4>1
    <3>2. a.sequenceNumber # c.sequenceNumber
      BY <3>1
    <3> QED BY <2>7, <3>2 DEF Compare
  <2>8. CASE ac # -1
    <3>1. ab = 0 /\ bc = 0
      BY <2>3, <2>4, <2>5, <2>6, <2>8
    <3>2. ac = 0
      BY <2>2, <2>4, <2>5, <3>1, TextSigns
    <3>3. a.sequenceNumber < c.sequenceNumber
      BY <2>2, <2>3, <3>1
    <3> QED BY <2>2, <3>2, <3>3 DEF Compare, CompareNumbers
  <2> QED BY <2>7, <2>8
<1> QED BY <1>1, <1>2

\* The seconds from 1970 to the year 10000. From then on "%04d" prints a digit more,
\* and the texts of such dates are among those of earlier ones.
Year10000 == 253402300800

FourDigits(ts, div) == Quotient(ts, div) < Year10000

\* C++ division of what is not negative.
LEMMA DivisionOfNat ==
    ASSUME NEW n \in Nat, NEW div \in Nat \ {0}
    PROVE  /\ Quotient(n, div) \in Nat /\ Remainder(n, div) \in 0 .. div - 1
           /\ n = div * Quotient(n, div) + Remainder(n, div)
<1> DEFINE q == n \div div
<1>1. q \in Nat /\ div * q <= n /\ n < div * q + div
  BY Z3
<1>2. Quotient(n, div) = q /\ Remainder(n, div) = n - div * q
  BY DEF Quotient, Remainder
<1>3. div * q \in Nat
  <2> HIDE DEF q
  <2> QED BY <1>1
<1> HIDE DEF q
<1> QED BY <1>1, <1>2, <1>3

\* Of two times in one format, from 1970 to the end of the year 9999, the earlier one
\* has the smaller key: a log is shown where its time is, whatever the format the
\* client wrote it in.
THEOREM TimesInOrder ==
    ASSUME NEW format \in DOMAIN Units, NEW s \in Nat, NEW t \in Nat, s < t,
           FourDigits(t, Units[format])
    PROVE  CompareTexts(FromUnixTs(s, Units[format]), FromUnixTs(t, Units[format])) = -1
<1> DEFINE d == Units[format]
           p == Precise \div d
<1>1. d \in Nat /\ d > 0 /\ Precise \in Nat /\ Precise > 0 /\ Precise % d = 0
  BY UnitsAssumption DEF Precise
<1>2. p \in Nat /\ p > 0
  BY <1>1
<1>3. ASSUME NEW n \in Nat
      PROVE  Quotient(n, d) \in Nat /\ Remainder(n, d) \in 0 .. d - 1
             /\ n = d * Quotient(n, d) + Remainder(n, d)
  <2> HIDE DEF d, p
  <2>1. d \in Nat \ {0}
    BY <1>1
  <2> QED BY <2>1, DivisionOfNat
<1> DEFINE qs == Quotient(s, d)
           qt == Quotient(t, d)
           rs == Remainder(s, d)
           rt == Remainder(t, d)
           x == FromUnixTs(s, d)
           y == FromUnixTs(t, d)
<1>4. /\ qs \in Nat /\ rs \in 0 .. d - 1 /\ s = d * qs + rs
      /\ qt \in Nat /\ rt \in 0 .. d - 1 /\ t = d * qt + rt
  BY <1>3
<1>5. qs < qt \/ (qs = qt /\ rs < rt)
  <2> HIDE DEF d, qs, qt, rs, rt
  <2>1. ~(qt < qs)
    <3>1. SUFFICES ASSUME qt + 1 <= qs PROVE FALSE
      BY <1>4
    <3>2. d * (qt + 1) <= d * qs
      BY <1>1, <1>4, <3>1
    <3>3. d * (qt + 1) = d * qt + d
      BY <1>1, <1>4
    <3> QED BY <1>1, <1>4, <3>2, <3>3
  <2> QED BY <1>1, <1>4, <2>1
<1>6. /\ x = <<qs, rs * p>> /\ y = <<qt, rt * p>>
      /\ rs * p \in Int /\ rt * p \in Int
  BY <1>2, <1>4 DEF FromUnixTs
<1>7. rs < rt => rs * p < rt * p
  <2> HIDE DEF d, p, rs, rt
  <2> QED BY <1>1, <1>2, <1>4
<1>8. x \in Texts /\ y \in Texts /\ Len(x) = 2 /\ Len(y) = 2
      /\ x[1] = qs /\ y[1] = qt /\ x[2] = rs * p /\ y[2] = rt * p
  BY <1>4, <1>6 DEF Texts
<1>9. AgreesUntil(x, y, 1) \/ AgreesUntil(x, y, 2)
  <2> HIDE DEF x, y, qs, qt, rs, rt, p, d
  <2> QED BY <1>4, <1>5, <1>7, <1>8 DEF AgreesUntil
<1> QED
  <2> HIDE DEF x, y
  <2>1. CompareTexts(x, y) = -1
    BY <1>8, <1>9, TextBelow
  <2> QED BY <2>1 DEF x, y

-----------------------------------------------------------------------------
(* The cache.                                                              *)

ExactFor(s, c) == \A k \in DOMAIN c : k \in s /\ c[k] = Position(s, k)

Sparse(c) == \A j, k \in DOMAIN c : j # k => AbsDiff(c[j], c[k]) > cacheIfDistanceAbove

\* A set of logs and what may be remembered of it.
Fits(s, c) ==
    /\ s \subseteq Int /\ IsFiniteSet(s)
    /\ c \in [DOMAIN c -> Int]
    /\ ExactFor(s, c)

-----------------------------------------------------------------------------
(* index()                                                                 *)

\* What is remembered before and behind a key: there is a nearest one.
LEMMA NearestRemembered ==
    ASSUME NEW s, NEW c, Fits(s, c), NEW key \in Int
    PROVE  /\ Below(c, key) # {} =>
                /\ Last(Below(c, key)) \in DOMAIN c /\ Last(Below(c, key)) < key
                /\ \A k \in Below(c, key) : k <= Last(Below(c, key))
           /\ Above(c, key) # {} =>
                /\ First(Above(c, key)) \in DOMAIN c /\ First(Above(c, key)) >= key
                /\ \A k \in Above(c, key) : First(Above(c, key)) <= k
<1>1. DOMAIN c \subseteq s
  BY DEF Fits, ExactFor
<1>2. /\ IsFiniteSet(Below(c, key)) /\ Below(c, key) \subseteq Int
      /\ IsFiniteSet(Above(c, key)) /\ Above(c, key) \subseteq Int
  <2>1. Below(c, key) \subseteq s /\ Above(c, key) \subseteq s
    BY <1>1 DEF Below, Above
  <2> QED BY <2>1, FS_Subset DEF Fits
<1>3. Below(c, key) # {} => /\ Last(Below(c, key)) \in Below(c, key)
                            /\ \A k \in Below(c, key) : k <= Last(Below(c, key))
  BY <1>2, LastIsGreatest
<1>4. Above(c, key) # {} => /\ First(Above(c, key)) \in Above(c, key)
                            /\ \A k \in Above(c, key) : First(Above(c, key)) <= k
  BY <1>2, FirstIsLeast
<1> QED BY <1>3, <1>4 DEF Below, Above

\* The ways to count - from the end, from the beginning, from both sides - come
\* to the same: the position.
LEMMA ComputedIsPosition ==
    ASSUME NEW s, NEW c, Fits(s, c), NEW key \in s
    PROVE  ComputedIndex(s, c, key) = Position(s, key)
<1>1. /\ key \in Int
      /\ \A k \in s : Position(s, k) \in Int
      /\ \A k \in DOMAIN c : k \in s /\ c[k] = Position(s, k)
  BY PositionIsNat DEF Fits, ExactFor
<1>2. CASE DOMAIN c = {}
  BY <1>2 DEF ComputedIndex, Above, IndexAtTheEnd
<1>3. CASE DOMAIN c # {} /\ Above(c, key) = {}
  <2>1. DOMAIN c \subseteq Int /\ IsFiniteSet(DOMAIN c)
    <3>1. DOMAIN c \subseteq s
      BY <1>1
    <3> QED BY <3>1, FS_Subset DEF Fits
  <2>2. Last(DOMAIN c) \in DOMAIN c
    BY <1>3, <2>1, LastIsGreatest
  <2> QED BY <1>1, <1>3, <2>2 DEF ComputedIndex, IndexAtTheEnd, Distance
<1>4. CASE Above(c, key) # {} /\ Below(c, key) = {}
  <2>1. First(DOMAIN c) \in DOMAIN c
    <3>1. DOMAIN c \subseteq s
      BY <1>1
    <3>2. DOMAIN c \subseteq Int /\ IsFiniteSet(DOMAIN c) /\ DOMAIN c # {}
      BY <1>4, <3>1, FS_Subset DEF Fits, Above
    <3> QED BY <3>2, FirstIsLeast
  <2> DEFINE first == First(DOMAIN c)
  <2>2. ComputedIndex(s, c, key) = c[first] - (Position(s, first) - Position(s, key))
    BY <1>4 DEF ComputedIndex, IndexLeftOf, Distance
  <2> HIDE DEF first
  <2>3. c[first] = Position(s, first) /\ Position(s, first) \in Int /\ Position(s, key) \in Int
    BY <1>1, <2>1 DEF first
  <2> QED BY <2>2, <2>3
<1>5. CASE Above(c, key) # {} /\ Below(c, key) # {}
  <2>1. Last(Below(c, key)) \in DOMAIN c /\ First(Above(c, key)) \in DOMAIN c
    BY <1>1, <1>5, NearestRemembered
  <2> DEFINE low == Last(Below(c, key))
             high == First(Above(c, key))
  <2>2. \/ ComputedIndex(s, c, key) = c[low] + (Position(s, key) - Position(s, low))
        \/ ComputedIndex(s, c, key) = c[high] - (Position(s, high) - Position(s, key))
    BY <1>5 DEF ComputedIndex, IndexBetween, Distance
  <2> HIDE DEF low, high
  <2>3. /\ c[low] = Position(s, low) /\ c[high] = Position(s, high)
        /\ Position(s, low) \in Int /\ Position(s, high) \in Int /\ Position(s, key) \in Int
    BY <1>1, <2>1 DEF low, high
  <2> QED BY <2>2, <2>3
<1> QED BY <1>2, <1>3, <1>4, <1>5

\* A question leaves the cache exact.
LEMMA IndexKeepsExact ==
    ASSUME NEW s, NEW c, Fits(s, c), NEW key \in Int
    PROVE  Fits(s, CacheAfterIndex(s, c, key))
<1> DEFINE d == [k \in DOMAIN c \cup {key} |-> IF k = key THEN ComputedIndex(s, c, key) ELSE c[k]]
<1>1. CASE key \in s
  <2>1. ComputedIndex(s, c, key) = Position(s, key) /\ Position(s, key) \in Int
    BY <1>1, ComputedIsPosition, PositionIsNat DEF Fits
  <2>2. Fits(s, d)
    BY <1>1, <2>1 DEF Fits, ExactFor
  <2> QED BY <2>2 DEF CacheAfterIndex
<1>2. CASE key \notin s
  BY <1>2 DEF CacheAfterIndex
<1> QED BY <1>1, <1>2

\* ... and sparse: the entries nearest to the new one have been looked at, and
\* all the others are further away.
LEMMA IndexKeepsSparse ==
    ASSUME NEW s, NEW c, Fits(s, c), NEW key \in Int, Sparse(c)
    PROVE  Sparse(CacheAfterIndex(s, c, key))
<1> DEFINE pos == ComputedIndex(s, c, key)
           d == [k \in DOMAIN c \cup {key} |-> IF k = key THEN pos ELSE c[k]]
<1>1. CASE key \in DOMAIN c \/ key \notin s \/ HasEntryCloseEnough(c, key, pos)
  BY <1>1 DEF CacheAfterIndex
<1>2. CASE ~(key \in DOMAIN c \/ key \notin s \/ HasEntryCloseEnough(c, key, pos))
  <2>1. CacheAfterIndex(s, c, key) = d
    BY <1>2 DEF CacheAfterIndex
  <2>2. pos = Position(s, key) /\ pos \in Int
    BY <1>2, ComputedIsPosition, PositionIsNat DEF Fits
  <2>3. \A k \in DOMAIN c : k \in Int /\ k \in s /\ c[k] \in Int /\ c[k] = Position(s, k)
    BY DEF Fits, ExactFor
  <2>4. cacheIfDistanceAbove \in Int
    BY SettingsAssumption
  <2> HIDE DEF pos
  <2>5. ASSUME NEW k \in DOMAIN c
        PROVE  AbsDiff(c[k], pos) > cacheIfDistanceAbove /\ AbsDiff(pos, c[k]) > cacheIfDistanceAbove
    <3>1. CASE k < key
      <4> DEFINE n == Last(Below(c, key))
      <4>1. k \in Below(c, key) /\ Below(c, key) # {}
        BY <3>1 DEF Below
      <4>2. n \in DOMAIN c /\ n < key /\ k <= n
        BY <4>1, NearestRemembered
      <4>3. n \in Neighbours(c, key)
        BY <4>1 DEF Neighbours
      <4>4. ~(AbsDiff(c[n], pos) <= cacheIfDistanceAbove)
        BY <1>2, <4>3 DEF HasEntryCloseEnough
      <4> HIDE DEF n
      <4>5. Position(s, k) <= Position(s, n) /\ Position(s, n) <= Position(s, key)
        BY <2>3, <4>2, PositionMonotone DEF Fits
      <4>6. c[k] <= c[n] /\ c[n] <= pos
        BY <2>2, <2>3, <4>2, <4>5
      <4> QED BY <2>2, <2>3, <2>4, <4>2, <4>4, <4>6 DEF AbsDiff
    <3>2. CASE key <= k
      <4> DEFINE n == First(Above(c, key))
      <4>1. k \in Above(c, key) /\ Above(c, key) # {}
        BY <2>3, <3>2 DEF Above
      <4>2. n \in DOMAIN c /\ key <= n /\ n <= k
        <5>1. n \in DOMAIN c /\ n >= key /\ n <= k
          BY <4>1, NearestRemembered
        <5> QED BY <2>3, <5>1
      <4>3. n \in Neighbours(c, key)
        BY <4>1 DEF Neighbours
      <4>4. ~(AbsDiff(c[n], pos) <= cacheIfDistanceAbove)
        BY <1>2, <4>3 DEF HasEntryCloseEnough
      <4> HIDE DEF n
      <4>5. Position(s, key) <= Position(s, n) /\ Position(s, n) <= Position(s, k)
        BY <2>3, <4>2, PositionMonotone DEF Fits
      <4>6. pos <= c[n] /\ c[n] <= c[k]
        BY <2>2, <2>3, <4>2, <4>5
      <4> QED BY <2>2, <2>3, <2>4, <4>2, <4>4, <4>6 DEF AbsDiff
    <3> QED BY <2>3, <3>1, <3>2
  <2>6. \A j, k \in DOMAIN c : j # k => AbsDiff(c[j], c[k]) > cacheIfDistanceAbove
    BY DEF Sparse
  <2>7. Sparse(d)
    BY <2>5, <2>6 DEF Sparse
  <2> QED BY <2>1, <2>7
<1> QED BY <1>1, <1>2

-----------------------------------------------------------------------------
(* Insertions and prunings.                                                *)

\* The correction after an insertion makes the cache exact for the new set, and
\* takes no two entries nearer to each other.
LEMMA ShiftKeeps ==
    ASSUME NEW s, NEW c, Fits(s, c), NEW key \in Int, key \notin s
    PROVE  /\ Fits(Inserted(s, key), Shifted(c, key))
           /\ Sparse(c) => Sparse(Shifted(c, key))
<1>1. \A k \in DOMAIN c : k \in Int /\ k \in s /\ c[k] \in Int /\ c[k] = Position(s, k)
  BY DEF Fits, ExactFor
<1>2. DOMAIN Shifted(c, key) = DOMAIN c
      /\ \A k \in DOMAIN c : Shifted(c, key)[k] = IF k > key THEN c[k] + 1 ELSE c[k]
  BY DEF Shifted
<1>3. Fits(Inserted(s, key), Shifted(c, key))
  <2>1. IsFiniteSet(Inserted(s, key)) /\ Inserted(s, key) \subseteq Int
    BY FS_AddElement DEF Fits, Inserted
  <2>2. Shifted(c, key) \in [DOMAIN Shifted(c, key) -> Int]
    BY <1>1 DEF Shifted
  <2>3. ExactFor(Inserted(s, key), Shifted(c, key))
    <3> SUFFICES ASSUME NEW k \in DOMAIN c
                 PROVE  /\ k \in Inserted(s, key)
                        /\ Shifted(c, key)[k] = Position(Inserted(s, key), k)
      BY <1>2 DEF ExactFor
    <3>1. Position(Inserted(s, key), k) = Position(s, k) + (IF key < k THEN 1 ELSE 0)
      BY <1>1, PositionAfterInsert DEF Fits
    <3> QED BY <1>1, <1>2, <3>1 DEF Inserted
  <2> QED BY <2>1, <2>2, <2>3 DEF Fits
<1>4. ASSUME Sparse(c) PROVE Sparse(Shifted(c, key))
  <2>1. ASSUME NEW j \in DOMAIN c, NEW k \in DOMAIN c, j # k
        PROVE  AbsDiff(Shifted(c, key)[j], Shifted(c, key)[k]) > cacheIfDistanceAbove
    <3>1. AbsDiff(c[j], c[k]) > cacheIfDistanceAbove /\ cacheIfDistanceAbove \in Int
      BY <1>4, <2>1, SettingsAssumption DEF Sparse
    <3>2. /\ j <= k => c[j] <= c[k]
          /\ k <= j => c[k] <= c[j]
      BY <1>1, PositionMonotone DEF Fits
    <3> QED BY <1>1, <1>2, <3>1, <3>2 DEF AbsDiff
  <2> QED BY <1>2, <2>1 DEF Sparse
<1> QED BY <1>3, <1>4

\* The correction after a pruning: the first entry that is left says by how much
\* all of them have moved.
LEMMA PruneKeeps ==
    ASSUME NEW s, NEW c, Fits(s, c), NEW key \in Int
    PROVE  /\ Fits(PrunedUpTo(s, key), CacheAfterPrune(PrunedUpTo(s, key), c, key))
           /\ Sparse(c) => Sparse(CacheAfterPrune(PrunedUpTo(s, key), c, key))
<1> DEFINE t == PrunedUpTo(s, key)
           d == CacheAfterPrune(t, c, key)
           gone == Position(s, key)
<1>1. \A k \in DOMAIN c : k \in Int /\ k \in s /\ c[k] \in Int /\ c[k] = Position(s, k)
  BY DEF Fits, ExactFor
<1>2. t \subseteq s /\ t \subseteq Int /\ IsFiniteSet(t)
  <2>1. t \subseteq s
    BY DEF PrunedUpTo, NotBelow
  <2> HIDE DEF t
  <2> QED BY <2>1, FS_Subset DEF Fits
<1>3. \A k \in Kept(c, key) : /\ k \in DOMAIN c /\ key <= k /\ k \in t
                              /\ Position(t, k) \in Int /\ gone \in Int
                              /\ c[k] = Position(t, k) + gone
  <2> SUFFICES ASSUME NEW k \in Kept(c, key)
               PROVE  /\ k \in DOMAIN c /\ key <= k /\ k \in t
                      /\ Position(t, k) \in Int /\ gone \in Int
                      /\ c[k] = Position(t, k) + gone
    OBVIOUS
  <2>1. k \in DOMAIN c /\ k \in Int /\ key <= k /\ k \in s
    BY <1>1 DEF Kept
  <2>2. k \in t
    BY <2>1 DEF PrunedUpTo, NotBelow
  <2>3. Position(s, k) = Position(t, k) + gone
    BY <2>1, PositionAfterPrune DEF Fits
  <2>4. Position(t, k) \in Int /\ gone \in Int
    <3> HIDE DEF t
    <3> QED BY <1>2, <2>1, PositionIsNat DEF Fits
  <2> QED BY <1>1, <2>1, <2>2, <2>3, <2>4
<1>4. Kept(c, key) # {} => First(Kept(c, key)) \in Kept(c, key)
  <2>1. Kept(c, key) \subseteq s
    BY <1>1 DEF Kept
  <2>2. Kept(c, key) \subseteq Int /\ IsFiniteSet(Kept(c, key))
    BY <2>1, FS_Subset DEF Fits
  <2> QED BY <2>2, FirstIsLeast
<1>5. DOMAIN d = Kept(c, key) /\ d = [k \in DOMAIN d |-> d[k]]
  BY DEF CacheAfterPrune
<1>6. \A k \in DOMAIN d : d[k] = Position(t, k)
  <2> SUFFICES ASSUME NEW k \in Kept(c, key) PROVE d[k] = Position(t, k)
    BY <1>5
  <2> DEFINE first == First(Kept(c, key))
  <2>1. d[k] = c[k] - (c[first] - Position(t, first))
    BY DEF CacheAfterPrune
  <2>2. first \in Kept(c, key)
    BY <1>4
  <2> HIDE DEF first, t, d, gone
  <2>3. /\ c[first] = Position(t, first) + gone /\ c[k] = Position(t, k) + gone
        /\ Position(t, first) \in Int /\ Position(t, k) \in Int /\ gone \in Int
    BY <1>3, <2>2
  <2> QED BY <2>1, <2>3
<1> HIDE DEF t, d, gone
<1>7. Fits(t, d)
  <2>1. d \in [DOMAIN d -> Int]
    BY <1>3, <1>5, <1>6
  <2> QED BY <1>2, <1>3, <1>5, <1>6, <2>1 DEF Fits, ExactFor
<1>8. ASSUME Sparse(c) PROVE Sparse(d)
  <2>1. ASSUME NEW j \in DOMAIN d, NEW k \in DOMAIN d, j # k
        PROVE  AbsDiff(d[j], d[k]) > cacheIfDistanceAbove
    <3>1. AbsDiff(c[j], c[k]) > cacheIfDistanceAbove /\ cacheIfDistanceAbove \in Int
      BY <1>3, <1>5, <1>8, <2>1, SettingsAssumption DEF Sparse
    <3> QED BY <1>3, <1>5, <1>6, <3>1 DEF AbsDiff
  <2> QED BY <2>1 DEF Sparse
<1> QED BY <1>7, <1>8 DEF t, d

-----------------------------------------------------------------------------
(* The component.                                                          *)

IInv == Inv /\ Sparse(cache)

LEMMA InvFits ==
    ASSUME Inv
    PROVE  Fits(logs, cache)
BY KeysAssumption DEF Inv, TypeOK, CacheExact, Fits, ExactFor

\* What follows from a cache that fits is the invariant.
LEMMA FitsInv ==
    ASSUME logs \subseteq Keys, Fits(logs, cache),
           counter \in 0 .. insertEveryNth, lost \in BOOLEAN
    PROVE  Inv
BY DEF Inv, TypeOK, CacheExact, Fits, ExactFor

LEMMA InitIInv == Init => IInv
<1> SUFFICES ASSUME Init PROVE IInv
  OBVIOUS
<1>1. IsFiniteSet({})
  BY FS_EmptySet
<1>2. cache = [k \in {} |-> 0] /\ DOMAIN cache = {}
  BY DEF Init
<1>3. TypeOK
  <2>1. cache \in [DOMAIN cache -> Int]
    BY <1>2
  <2>2. lost \in BOOLEAN /\ logs = {} /\ counter = 0
    BY DEF Init
  <2>3. counter \in 0 .. insertEveryNth
    BY <2>2, SettingsAssumption
  <2> QED BY <1>1, <1>2, <2>1, <2>2, <2>3 DEF TypeOK
<1> QED BY <1>2, <1>3 DEF IInv, Inv, CacheExact, Sparse

LEMMA NextIInv ==
    ASSUME ~Duplicates, IInv, [Next]_vars
    PROVE  IInv'
<1>1. Fits(logs, cache) /\ Sparse(cache) /\ logs \subseteq Keys
      /\ counter \in 0 .. insertEveryNth /\ lost \in BOOLEAN
  BY InvFits DEF IInv, Inv, TypeOK
<1>2. SUFFICES /\ Fits(logs', cache') /\ Sparse(cache') /\ logs' \subseteq Keys
               /\ counter' \in 0 .. insertEveryNth /\ lost' \in BOOLEAN
  BY DEF IInv, Inv, TypeOK, CacheExact, Fits, ExactFor, Sparse
<1>3. CASE UNCHANGED vars
  BY <1>1, <1>3 DEF vars
<1>4. ASSUME NEW key \in Keys, Insert(key)
      PROVE  /\ Fits(logs', cache') /\ Sparse(cache') /\ logs' \subseteq Keys
             /\ counter' \in 0 .. insertEveryNth /\ lost' \in BOOLEAN
  <2>1. key \in Int /\ key \notin logs /\ logs' = Inserted(logs, key) /\ lost' = lost
    BY <1>4, KeysAssumption DEF Insert
  <2>2. Fits(logs', Shifted(cache, key)) /\ Sparse(Shifted(cache, key))
    BY <1>1, <2>1, ShiftKeeps
  <2>3. /\ Fits(logs', CacheAfterIndex(logs', Shifted(cache, key), key))
        /\ Sparse(CacheAfterIndex(logs', Shifted(cache, key), key))
    BY <2>1, <2>2, IndexKeepsExact, IndexKeepsSparse
  <2>4. \/ cache' = Shifted(cache, key)
        \/ cache' = CacheAfterIndex(logs', Shifted(cache, key), key)
    BY <1>4 DEF Insert
  <2>5. counter' \in 0 .. insertEveryNth
    BY <1>1, <1>4, SettingsAssumption DEF Insert, CounterFull
  <2>6. logs' \subseteq Keys
    BY <1>1, <2>1 DEF Inserted
  <2> QED BY <1>1, <2>1, <2>2, <2>3, <2>4, <2>5, <2>6
<1>5. ASSUME NEW key \in Keys, Index(key)
      PROVE  /\ Fits(logs', cache') /\ Sparse(cache') /\ logs' \subseteq Keys
             /\ counter' \in 0 .. insertEveryNth /\ lost' \in BOOLEAN
  <2>1. key \in Int /\ logs' = logs /\ counter' = counter
    BY <1>5, KeysAssumption DEF Index
  <2>2. Fits(logs, CacheAfterIndex(logs, cache, key)) /\ Sparse(CacheAfterIndex(logs, cache, key))
    BY <1>1, <2>1, IndexKeepsExact, IndexKeepsSparse
  <2>3. (cache' = cache /\ lost' = TRUE) \/ (cache' = CacheAfterIndex(logs, cache, key) /\ lost' = lost)
    BY <1>5 DEF Index
  <2> QED BY <1>1, <2>1, <2>2, <2>3
<1>6. ASSUME NEW key \in Keys, PruneUpTo(key)
      PROVE  /\ Fits(logs', cache') /\ Sparse(cache') /\ logs' \subseteq Keys
             /\ counter' \in 0 .. insertEveryNth /\ lost' \in BOOLEAN
  <2>1. key \in Int /\ logs' = PrunedUpTo(logs, key) /\ cache' = CacheAfterPrune(PrunedUpTo(logs, key), cache, key)
        /\ counter' = counter /\ lost' = lost
    BY <1>6, KeysAssumption DEF PruneUpTo
  <2>2. logs' \subseteq Keys
    BY <1>1, <2>1 DEF PrunedUpTo, NotBelow
  <2> QED BY <1>1, <2>1, <2>2, PruneKeeps
<1>7. CASE Stuck
  BY <1>1, <1>7 DEF Stuck, vars
<1> QED BY <1>3, <1>4, <1>5, <1>6, <1>7 DEF Next

\* Types, and what is remembered is the position of a log that is there, after
\* any sequence of insertions, questions and prunings (LogKeyIndexCache.cpp).
THEOREM CacheIsExact ==
    ASSUME ~Duplicates
    PROVE  Spec => []Inv
<1>1. IInv /\ [Next]_vars => IInv'
  BY NextIInv
<1>2. IInv => Inv
  BY DEF IInv
<1> QED BY InitIInv, <1>1, <1>2, PTL DEF Spec

\* The cache does not fill up, for any setting of insertEveryNth: no two entries
\* are as close as cacheIfDistanceAbove.
THEOREM CacheIsSparse ==
    ASSUME ~Duplicates
    PROVE  Spec => []CacheSparse
<1>1. IInv /\ [Next]_vars => IInv'
  BY NextIInv
<1>2. IInv => CacheSparse
  BY DEF IInv, Sparse, CacheSparse
<1> QED BY InitIInv, <1>1, <1>2, PTL DEF Spec

\* index() answers with the position of a log, and with 0 when there is none and
\* it comes back.
THEOREM AnswersAreExact ==
    ASSUME ~Duplicates
    PROVE  Spec => []AnswerExact
<1>1. Inv => AnswerExact
  <2> SUFFICES ASSUME Inv, NEW k \in Keys
               PROVE  IndexOf(logs, cache, k) = IF k \in logs THEN Position(logs, k) ELSE 0
    BY DEF AnswerExact
  <2>1. Fits(logs, cache)
    BY InvFits
  <2>2. k \in DOMAIN cache => k \in logs /\ cache[k] = Position(logs, k)
    BY DEF Inv, CacheExact
  <2>3. k \in logs => ComputedIndex(logs, cache, k) = Position(logs, k)
    BY <2>1, ComputedIsPosition
  <2> QED BY <2>2, <2>3 DEF IndexOf
<1> QED BY <1>1, CacheIsExact, PTL

=============================================================================
