---------------------------- MODULE ScreensProofs ----------------------------
(***************************************************************************)
(* The tree of filters and its screens, for every set of nodes, whatever   *)
(* is deleted and whatever children come meanwhile: the keys work on the   *)
(* node that is shown, which is in the tree, and only what is shown is     *)
(* deleted.                                                                *)
(***************************************************************************)
EXTENDS Screens, LogsProofs

-----------------------------------------------------------------------------
(* Trees.                                                                  *)

\* A parent, or none, for each node.
Parents == [Nodes -> Nodes \cup {None}]

\* Nobody is above itself: in every set of nodes there is one whose parent is
\* not in the set.
Grounded(up) == \A S \in SUBSET Nodes : S # {} => \E x \in S : up[x] \notin S

\* What has the parents of all that it has.
Closed(up, S) == \A x \in S : up[x] # None => up[x] \in S

LEMMA NoneIsNoNode == None \notin Nodes
BY NodesAssumption DEF None

\* The nodes above a node are the least closed set with it.
Least(up, n) == {m \in Nodes : \A S \in SUBSET Nodes : n \in S /\ Closed(up, S) => m \in S}

LEMMA LeastIsClosed ==
    ASSUME NEW up \in Parents, NEW n \in Nodes
    PROVE  Closed(up, Least(up, n)) /\ n \in Least(up, n) /\ Least(up, n) \subseteq Nodes
<1>1. n \in Least(up, n) /\ Least(up, n) \subseteq Nodes
  BY DEF Least
<1>2. ASSUME NEW x \in Least(up, n), up[x] # None
      PROVE  up[x] \in Least(up, n)
  <2>1. x \in Nodes /\ up[x] \in Nodes
    BY <1>2 DEF Least, Parents
  <2>2. ASSUME NEW S \in SUBSET Nodes, n \in S, Closed(up, S) PROVE up[x] \in S
    <3>1. x \in S
      BY <2>2 DEF Least
    <3> QED BY <1>2, <2>2, <3>1 DEF Closed
  <2> QED BY <2>1, <2>2 DEF Least
<1> QED BY <1>1, <1>2 DEF Closed

LEMMA LeastUnfolds ==
    ASSUME NEW up \in Parents, NEW n \in Nodes
    PROVE  Least(up, n) = {n} \cup (IF up[n] = None THEN {} ELSE Least(up, up[n]))
<1> DEFINE T == {n} \cup (IF up[n] = None THEN {} ELSE Least(up, up[n]))
<1>1. up[n] # None => up[n] \in Nodes
  BY DEF Parents
<1>2. T \subseteq Nodes
  BY <1>1, LeastIsClosed
<1>3. Closed(up, T)
  <2>1. CASE up[n] = None
    BY <2>1 DEF Closed
  <2>2. CASE up[n] # None
    <3>1. Closed(up, Least(up, up[n])) /\ up[n] \in Least(up, up[n])
      BY <1>1, <2>2, LeastIsClosed
    <3> QED BY <2>2, <3>1 DEF Closed
  <2> QED BY <2>1, <2>2
<1>4. Least(up, n) \subseteq T
  <2> HIDE DEF T
  <2>1. n \in T
    BY DEF T
  <2> QED BY <1>2, <1>3, <2>1 DEF Least
<1>5. T \subseteq Least(up, n)
  <2>1. n \in Least(up, n) /\ Closed(up, Least(up, n)) /\ Least(up, n) \subseteq Nodes
    BY LeastIsClosed
  <2>2. CASE up[n] # None
    <3>1. up[n] \in Least(up, n)
      BY <2>1, <2>2 DEF Closed
    <3>2. Least(up, up[n]) \subseteq Least(up, n)
      <4> SUFFICES ASSUME NEW m \in Least(up, up[n]) PROVE m \in Least(up, n)
        OBVIOUS
      <4> QED BY <2>1, <3>1 DEF Least
    <3> QED BY <2>1, <2>2, <3>2
  <2>3. CASE up[n] = None
    BY <2>1, <2>3
  <2> QED BY <2>2, <2>3
<1> QED BY <1>4, <1>5

\* The equation of Above has a solution, and so Above is one.
LEMMA AboveUnfolds ==
    ASSUME NEW up \in Parents, NEW n \in Nodes
    PROVE  Above(up, n) = {n} \cup (IF up[n] = None THEN {} ELSE Above(up, up[n]))
<1> DEFINE Solves(g) == g = [m \in Nodes |-> {m} \cup (IF up[m] = None THEN {} ELSE g[up[m]])]
           above == CHOOSE g : Solves(g)
           h == [m \in Nodes |-> Least(up, m)]
<1>1. \A m \in Nodes : up[m] # None => up[m] \in Nodes
  BY DEF Parents
<1>2. Solves(h)
  <2>1. ASSUME NEW m \in Nodes
        PROVE  h[m] = {m} \cup (IF up[m] = None THEN {} ELSE h[up[m]])
    <3>1. up[m] # None => h[up[m]] = Least(up, up[m])
      BY <1>1
    <3>2. h[m] = Least(up, m)
      OBVIOUS
    <3> QED BY <3>1, <3>2, LeastUnfolds
  <2> QED BY <2>1
<1>3. Solves(above)
  <2> HIDE DEF h, Solves
  <2> QED BY <1>2
<1>4. \A m \in Nodes : Above(up, m) = above[m]
  BY DEF Above
<1> HIDE DEF above
<1>5. above[n] = {n} \cup (IF up[n] = None THEN {} ELSE above[up[n]])
  BY <1>3
<1> QED BY <1>1, <1>4, <1>5

\* With no cycles nothing but the nodes above is in Above.
LEMMA AboveIsLeast ==
    ASSUME NEW up \in Parents, Grounded(up), NEW n \in Nodes,
           NEW S \in SUBSET Nodes, n \in S, Closed(up, S)
    PROVE  Above(up, n) \subseteq S
<1> DEFINE Bad == {x \in Nodes : x \in S /\ ~(Above(up, x) \subseteq S)}
<1>1. Bad = {}
  <2> SUFFICES ASSUME Bad # {} PROVE FALSE
    OBVIOUS
  <2>1. Bad \in SUBSET Nodes
    OBVIOUS
  <2>2. PICK x \in Bad : up[x] \notin Bad
    <3> HIDE DEF Bad
    <3> QED BY <2>1 DEF Grounded
  <2>3. x \in Nodes /\ x \in S /\ ~(Above(up, x) \subseteq S)
    OBVIOUS
  <2>4. CASE up[x] = None
    BY <2>3, <2>4, AboveUnfolds
  <2>5. CASE up[x] # None
    <3>1. up[x] \in Nodes /\ up[x] \in S
      BY <2>3, <2>5 DEF Closed, Parents
    <3>2. Above(up, up[x]) \subseteq S
      BY <2>2, <3>1
    <3> QED BY <2>3, <2>5, <3>2, AboveUnfolds
  <2> QED BY <2>4, <2>5
<1> QED BY <1>1

\* Trees and their nodes.
LEMMA AboveItself ==
    ASSUME NEW up \in Parents, Grounded(up), NEW n \in Nodes
    PROVE  /\ n \in Above(up, n) /\ Above(up, n) \subseteq Nodes
           /\ Closed(up, Above(up, n))
<1>1. n \in Above(up, n)
  BY AboveUnfolds
<1>2. Closed(up, Nodes)
  BY DEF Closed, Parents
<1>3. Above(up, n) \subseteq Nodes
  BY <1>2, AboveIsLeast
<1>4. Closed(up, Above(up, n))
  <2> DEFINE Bad == {x \in Nodes : ~Closed(up, Above(up, x))}
  <2> SUFFICES ASSUME Bad # {} PROVE FALSE
    OBVIOUS
  <2>1. Bad \in SUBSET Nodes
    OBVIOUS
  <2>2. PICK x \in Bad : up[x] \notin Bad
    <3> HIDE DEF Bad
    <3> QED BY <2>1 DEF Grounded
  <2>3. x \in Nodes
    OBVIOUS
  <2>4. CASE up[x] = None
    <3>1. Above(up, x) = {x}
      BY <2>3, <2>4, AboveUnfolds
    <3>2. Closed(up, Above(up, x))
      BY <2>4, <3>1 DEF Closed
    <3> QED BY <3>2
  <2>5. CASE up[x] # None
    <3>1. up[x] \in Nodes
      BY <2>3, <2>5 DEF Parents
    <3>2. Closed(up, Above(up, up[x])) /\ up[x] \in Above(up, up[x])
      BY <2>2, <3>1, AboveUnfolds
    <3>3. Above(up, x) = {x} \cup Above(up, up[x])
      BY <2>3, <2>5, AboveUnfolds
    <3>4. Closed(up, Above(up, x))
      BY <3>2, <3>3 DEF Closed
    <3> QED BY <3>4
  <2> QED BY <2>4, <2>5
<1> QED BY <1>1, <1>3, <1>4

LEMMA AboveTransitive ==
    ASSUME NEW up \in Parents, Grounded(up), NEW n \in Nodes, NEW m \in Above(up, n)
    PROVE  m \in Nodes /\ Above(up, m) \subseteq Above(up, n)
<1>1. m \in Nodes /\ Above(up, n) \in SUBSET Nodes /\ Closed(up, Above(up, n))
  BY AboveItself
<1> QED BY <1>1, AboveIsLeast

\* What is above a node and not the node is above its parent.
LEMMA AboveParent ==
    ASSUME NEW up \in Parents, Grounded(up), NEW n \in Nodes, NEW m \in Above(up, n), m # n
    PROVE  up[n] # None /\ up[n] \in Nodes /\ m \in Above(up, up[n])
<1>1. up[n] # None /\ m \in Above(up, up[n])
  BY AboveUnfolds
<1> QED BY <1>1 DEF Parents

\* No node is above its parent.
LEMMA NotAboveParent ==
    ASSUME NEW up \in Parents, Grounded(up), NEW n \in Nodes, up[n] # None
    PROVE  n \notin Above(up, up[n])
<1> SUFFICES ASSUME n \in Above(up, up[n]) PROVE FALSE
  OBVIOUS
<1>1. up[n] \in Nodes
  BY DEF Parents
\* The nodes that have n above them and that n has above it.
<1> DEFINE S == {x \in Above(up, n) : n \in Above(up, x)}
<1>2. S \in SUBSET Nodes /\ n \in S
  BY AboveItself
<1>3. PICK x \in S : up[x] \notin S
  <2> HIDE DEF S
  <2> QED BY <1>2 DEF Grounded
<1>4. x \in Nodes /\ x \in Above(up, n) /\ n \in Above(up, x)
  BY <1>2
<1>5. up[x] # None /\ up[x] \in Nodes /\ n \in Above(up, up[x])
  <2>1. CASE x = n
    BY <1>1, <2>1
  <2>2. CASE x # n
    BY <1>4, <2>2, AboveParent
  <2> QED BY <2>1, <2>2
<1>6. up[x] \in Above(up, n)
  BY <1>4, <1>5, AboveItself DEF Closed
<1> QED BY <1>3, <1>5, <1>6

LEMMA AboveAntisymmetric ==
    ASSUME NEW up \in Parents, Grounded(up), NEW n \in Nodes, NEW m \in Above(up, n), n \in Above(up, m)
    PROVE  m = n
<1> SUFFICES ASSUME m # n PROVE FALSE
  OBVIOUS
<1>1. m \in Nodes
  BY AboveTransitive
<1>2. up[n] # None /\ up[n] \in Nodes /\ m \in Above(up, up[n])
  BY AboveParent
<1>3. n \in Above(up, up[n])
  BY <1>2, AboveTransitive
<1> QED BY <1>2, <1>3, NotAboveParent

\* Of two nodes above a node one is above the other.
LEMMA AboveIsChain ==
    ASSUME NEW up \in Parents, Grounded(up), NEW n \in Nodes, NEW a \in Above(up, n), NEW b \in Above(up, n)
    PROVE  a \in Above(up, b) \/ b \in Above(up, a)
<1> DEFINE Bad == {x \in Nodes : \E c, d \in Above(up, x) : c \notin Above(up, d) /\ d \notin Above(up, c)}
<1>1. Bad = {}
  <2> SUFFICES ASSUME Bad # {} PROVE FALSE
    OBVIOUS
  <2>1. Bad \in SUBSET Nodes
    OBVIOUS
  <2>2. PICK x \in Bad : up[x] \notin Bad
    <3> HIDE DEF Bad
    <3> QED BY <2>1 DEF Grounded
  <2>3. x \in Nodes /\ \E c, d \in Above(up, x) : c \notin Above(up, d) /\ d \notin Above(up, c)
    OBVIOUS
  <2>4. PICK c, d \in Above(up, x) : c \notin Above(up, d) /\ d \notin Above(up, c)
    BY <2>3
  <2>5. c # x /\ d # x
    BY <2>4
  <2>6. up[x] \in Nodes /\ c \in Above(up, up[x]) /\ d \in Above(up, up[x])
    BY <2>3, <2>5, AboveParent
  <2>7. up[x] \in Bad
    BY <2>4, <2>6
  <2> QED BY <2>2, <2>7
<1> QED BY <1>1

\* No two nodes above a node have the same parent.
LEMMA OneChildAbove ==
    ASSUME NEW up \in Parents, Grounded(up), NEW n \in Nodes,
           NEW a \in Above(up, n), NEW b \in Above(up, n), up[a] = up[b]
    PROVE  a = b
<1> SUFFICES ASSUME a # b PROVE FALSE
  OBVIOUS
<1>1. a \in Nodes /\ b \in Nodes
  BY AboveTransitive
<1>2. ASSUME NEW c \in Nodes, NEW d \in Nodes, up[c] = up[d], c # d, c \in Above(up, d)
      PROVE  FALSE
  <2>1. up[d] # None /\ up[d] \in Nodes /\ c \in Above(up, up[d])
    BY <1>2, AboveParent
  <2> QED BY <1>2, <2>1, NotAboveParent
<1>3. a \in Above(up, b) \/ b \in Above(up, a)
  BY AboveIsChain
<1> QED BY <1>1, <1>2, <1>3

\* Below a node that is above another there is a child of it that is, too.
LEMMA ChildAbove ==
    ASSUME NEW up \in Parents, Grounded(up), NEW n \in Nodes, NEW m \in Above(up, n), m # n
    PROVE  \E b \in Above(up, n) : up[b] = m
<1> DEFINE S == {x \in Above(up, n) : m \in Above(up, x) /\ x # m}
<1>1. S \in SUBSET Nodes /\ n \in S
  BY AboveItself
<1>2. PICK x \in S : up[x] \notin S
  <2> HIDE DEF S
  <2> QED BY <1>1 DEF Grounded
<1>3. x \in Above(up, n) /\ m \in Above(up, x) /\ x # m /\ x \in Nodes
  BY <1>1
<1>4. up[x] # None /\ up[x] \in Nodes /\ m \in Above(up, up[x])
  BY <1>3, AboveParent
<1>5. up[x] \in Above(up, n)
  BY <1>3, <1>4, AboveItself DEF Closed
<1> QED BY <1>2, <1>3, <1>4, <1>5

-----------------------------------------------------------------------------
(* The order in which the tree is listed.                                  *)

\* One is under a child that comes before the one the other is under.
Beside(up, m, n) == \E a \in Above(up, m), b \in Above(up, n) : up[a] = up[b] /\ a < b

LEMMA BesideIsApart ==
    ASSUME NEW up \in Parents, Grounded(up), NEW m \in Nodes, NEW n \in Nodes, Beside(up, m, n)
    PROVE  m \notin Above(up, n) /\ n \notin Above(up, m) /\ m # n
<1>1. PICK a \in Above(up, m), b \in Above(up, n) : up[a] = up[b] /\ a < b
  BY DEF Beside
<1>2. a \in Nodes /\ b \in Nodes /\ a # b
  <2>1. a \in Nodes /\ b \in Nodes
    BY AboveTransitive
  <2> QED BY <1>1, <2>1, NodesAssumption
<1>3. ASSUME m \in Above(up, n) PROVE FALSE
  <2>1. a \in Above(up, n)
    BY <1>3, AboveTransitive
  <2> QED BY <1>1, <1>2, <2>1, OneChildAbove
<1>4. ASSUME n \in Above(up, m) PROVE FALSE
  <2>1. b \in Above(up, m)
    BY <1>4, AboveTransitive
  <2> QED BY <1>1, <1>2, <2>1, OneChildAbove
<1> QED BY <1>3, <1>4, AboveItself

LEMMA BeforeIs ==
    ASSUME NEW up \in Parents, Grounded(up), NEW m \in Nodes, NEW n \in Nodes
    PROVE  Before(up, m, n) <=> (m # n /\ m \in Above(up, n)) \/ Beside(up, m, n)
BY BesideIsApart DEF Before, Beside

LEMMA BeforeTransitive ==
    ASSUME NEW up \in Parents, Grounded(up), NEW k \in Nodes, NEW m \in Nodes, NEW n \in Nodes,
           Before(up, k, m), Before(up, m, n)
    PROVE  Before(up, k, n)
<1>1. CASE k \in Above(up, m) /\ m \in Above(up, n) /\ k # m /\ m # n
  <2>1. k \in Above(up, n)
    BY <1>1, AboveTransitive
  <2>2. k # n
    BY <1>1, AboveAntisymmetric
  <2> QED BY <2>1, <2>2, BeforeIs
<1>2. CASE k \in Above(up, m) /\ k # m /\ Beside(up, m, n)
  <2>1. PICK a \in Above(up, m), b \in Above(up, n) : up[a] = up[b] /\ a < b
    BY <1>2 DEF Beside
  <2>2. a \in Nodes /\ b \in Nodes
    BY AboveTransitive
  <2>3. k \in Above(up, a) \/ a \in Above(up, k)
    BY <1>2, AboveIsChain
  <2>4. CASE a \in Above(up, k)
    <3>1. Beside(up, k, n)
      BY <2>1, <2>4 DEF Beside
    <3> QED BY <3>1, BeforeIs
  <2>5. CASE k \in Above(up, a) /\ a \notin Above(up, k)
    <3>1. k # a
      BY <2>5
    <3>2. up[a] # None /\ up[a] \in Nodes /\ k \in Above(up, up[a])
      BY <2>2, <2>5, <3>1, AboveParent
    <3>3. up[b] \in Above(up, b)
      BY <2>1, <2>2, <3>2, AboveItself DEF Closed
    <3>4. Above(up, up[b]) \subseteq Above(up, b) /\ Above(up, b) \subseteq Above(up, n)
      BY <2>1, <2>2, <3>3, AboveTransitive
    <3>5. k \in Above(up, n)
      BY <2>1, <3>2, <3>4
    <3>6. k # n
      <4> SUFFICES ASSUME k = n PROVE FALSE
        OBVIOUS
      <4>1. b \in Above(up, up[b])
        BY <2>1, <3>2, AboveTransitive
      <4> QED BY <2>1, <2>2, <3>2, <4>1, NotAboveParent
    <3> QED BY <3>5, <3>6, BeforeIs
  <2> QED BY <2>3, <2>4, <2>5
<1>3. CASE Beside(up, k, m) /\ m \in Above(up, n)
  <2>1. Above(up, m) \subseteq Above(up, n)
    BY <1>3, AboveTransitive
  <2>2. Beside(up, k, n)
    BY <1>3, <2>1 DEF Beside
  <2> QED BY <2>2, BeforeIs
<1>4. CASE Beside(up, k, m) /\ Beside(up, m, n)
  <2>1. PICK a \in Above(up, k), b \in Above(up, m) : up[a] = up[b] /\ a < b
    BY <1>4 DEF Beside
  <2>2. PICK c \in Above(up, m), d \in Above(up, n) : up[c] = up[d] /\ c < d
    BY <1>4 DEF Beside
  <2>3. a \in Nodes /\ b \in Nodes /\ c \in Nodes /\ d \in Nodes
    BY AboveTransitive
  <2>4. a \in Int /\ b \in Int /\ c \in Int /\ d \in Int
    BY <2>3, NodesAssumption
  <2>5. Beside(up, k, n)
    <3>1. CASE b = c
      <4>1. a < d /\ up[a] = up[d]
        BY <2>1, <2>2, <2>4, <3>1
      <4> QED BY <4>1 DEF Beside
    <3>2. CASE b # c /\ b \in Above(up, c)
      <4>1. up[c] # None /\ b \in Above(up, up[c])
        BY <2>3, <3>2, AboveParent
      <4>2. up[d] \in Above(up, d)
        BY <2>2, <2>3, <4>1, AboveItself DEF Closed
      <4>3. Above(up, up[d]) \subseteq Above(up, d) /\ Above(up, d) \subseteq Above(up, n)
        BY <2>3, <4>2, AboveTransitive
      <4>4. b \in Above(up, n)
        BY <2>2, <4>1, <4>3
      <4> QED BY <2>1, <4>4 DEF Beside
    <3>3. CASE b # c /\ c \in Above(up, b)
      <4>1. up[b] # None /\ c \in Above(up, up[b])
        BY <2>3, <3>3, AboveParent
      <4>2. up[a] \in Above(up, a)
        BY <2>1, <2>3, <4>1, AboveItself DEF Closed
      <4>3. Above(up, up[a]) \subseteq Above(up, a) /\ Above(up, a) \subseteq Above(up, k)
        BY <2>3, <4>2, AboveTransitive
      <4>4. c \in Above(up, k)
        BY <2>1, <4>1, <4>3
      <4> QED BY <2>2, <4>4 DEF Beside
    <3> QED BY <3>1, <3>2, <3>3, AboveIsChain
  <2> QED BY <2>5, BeforeIs
<1>5. /\ (k # m /\ k \in Above(up, m)) \/ Beside(up, k, m)
      /\ (m # n /\ m \in Above(up, n)) \/ Beside(up, m, n)
  BY BeforeIs
<1> QED BY <1>1, <1>2, <1>3, <1>4, <1>5

\* Any two nodes under the root have their order.
LEMMA BeforeTotal ==
    ASSUME NEW up \in Parents, Grounded(up), NEW root \in Nodes,
           NEW m \in Under(up, root), NEW n \in Under(up, root), m # n, up[root] = None
    PROVE  Before(up, m, n) \/ Before(up, n, m)
<1>1. /\ m \in Nodes /\ n \in Nodes /\ root \in Above(up, m) /\ root \in Above(up, n)
  BY DEF Under
<1>2. CASE m \in Above(up, n) \/ n \in Above(up, m)
  BY <1>1, <1>2, BeforeIs
<1>3. CASE m \notin Above(up, n) /\ n \notin Above(up, m)
  <2> DEFINE S == Above(up, m) \ Above(up, n)
  <2>1. S \in SUBSET Nodes /\ m \in S
    BY <1>1, <1>3, AboveItself
  <2>2. PICK a \in S : up[a] \notin S
    <3> HIDE DEF S
    <3> QED BY <2>1 DEF Grounded
  <2>3. a \in Above(up, m) /\ a \notin Above(up, n) /\ a \in Nodes
    BY <2>1
  <2>4. up[a] # None
    <3> SUFFICES ASSUME up[a] = None PROVE FALSE
      OBVIOUS
    <3>1. a = root
      BY <1>1, <2>3, OneChildAbove
    <3> QED BY <1>1, <2>3, <3>1
  <2>5. up[a] \in Above(up, m)
    BY <1>1, <2>3, <2>4, AboveItself DEF Closed
  <2>6. up[a] \in Above(up, n) /\ up[a] # n
    BY <1>3, <2>2, <2>5
  <2>7. PICK b \in Above(up, n) : up[b] = up[a]
    BY <1>1, <2>6, ChildAbove
  <2>8. b \in Nodes /\ a # b
    BY <1>1, <2>3, AboveTransitive
  <2>9. a < b \/ b < a
    BY <2>3, <2>8, NodesAssumption
  <2>10. Beside(up, m, n) \/ Beside(up, n, m)
    BY <2>3, <2>7, <2>9 DEF Beside
  <2> QED BY <1>1, <2>10, BeforeIs
<1> QED BY <1>2, <1>3

LEMMA BeforeIrreflexive ==
    ASSUME NEW up \in Parents, Grounded(up), NEW m \in Nodes, NEW n \in Nodes, Before(up, m, n)
    PROVE  m # n /\ ~Before(up, n, m)
<1>1. \A k \in Nodes : ~Before(up, k, k)
  BY DEF Before
<1>2. Before(up, n, m) => Before(up, m, m)
  BY BeforeTransitive
<1> QED BY <1>1, <1>2

\* The nodes of a part of the tree that come before a node.
Earlier(up, part, n) == {m \in part : Before(up, m, n)}

\* A finite part of the tree that is not empty has a first node and a last one:
\* those with the fewest nodes before and behind them.
LEMMA EndsOfList ==
    ASSUME NEW up \in Parents, Grounded(up), NEW root \in Nodes, up[root] = None,
           NEW part \in SUBSET Under(up, root), part # {}
    PROVE  /\ \E x \in part : \A y \in part : x = y \/ Before(up, x, y)
           /\ \E x \in part : \A y \in part : x = y \/ Before(up, y, x)
<1> DEFINE Later(n) == {m \in part : Before(up, n, m)}
<1>1. part \subseteq Nodes /\ IsFiniteSet(part)
  BY NodesAssumption, FS_Subset DEF Under
<1>2. IsWellFoundedOn(StrictSubsetOrdering(part), FiniteSubsetsOf(part))
  BY FS_StrictSubsetOrderingWellFounded
<1>3. \E x \in part : \A y \in part : x = y \/ Before(up, x, y)
  <2> DEFINE T == {Earlier(up, part, x) : x \in part}
  <2>1. T \subseteq FiniteSubsetsOf(part) /\ T # {}
    <3> SUFFICES ASSUME NEW x \in part PROVE Earlier(up, part, x) \in FiniteSubsetsOf(part)
      OBVIOUS
    <3>1. Earlier(up, part, x) \subseteq part
      BY DEF Earlier
    <3> QED BY <1>1, <3>1, FS_Subset DEF FiniteSubsetsOf
  <2>2. PICK U \in T : \A V \in T : <<V, U>> \notin StrictSubsetOrdering(part)
    <3> HIDE DEF T
    <3> QED BY <1>2, <2>1, WFMin
  <2>3. PICK x \in part : U = Earlier(up, part, x)
    OBVIOUS
  <2>4. ASSUME NEW y \in part, y # x, ~Before(up, x, y) PROVE FALSE
    <3>1. Before(up, y, x)
      BY <2>4, BeforeTotal
    <3>2. Earlier(up, part, y) \subseteq Earlier(up, part, x)
      BY <1>1, <3>1, BeforeTransitive DEF Earlier
    <3>3. y \in Earlier(up, part, x) /\ y \notin Earlier(up, part, y)
      BY <1>1, <3>1, BeforeIrreflexive DEF Earlier
    <3>4. /\ Earlier(up, part, y) \in SUBSET part /\ Earlier(up, part, x) \in SUBSET part
          /\ Earlier(up, part, y) # Earlier(up, part, x)
      BY <3>3 DEF Earlier
    <3>5. <<Earlier(up, part, y), U>> \in StrictSubsetOrdering(part)
      BY <2>3, <3>2, <3>4 DEF StrictSubsetOrdering
    <3> QED BY <2>2, <3>5
  <2> QED BY <2>4
<1>4. \E x \in part : \A y \in part : x = y \/ Before(up, y, x)
  <2> DEFINE T == {Later(x) : x \in part}
  <2>1. T \subseteq FiniteSubsetsOf(part) /\ T # {}
    <3> SUFFICES ASSUME NEW x \in part PROVE Later(x) \in FiniteSubsetsOf(part)
      OBVIOUS
    <3>1. Later(x) \subseteq part
      OBVIOUS
    <3> QED BY <1>1, <3>1, FS_Subset DEF FiniteSubsetsOf
  <2>2. PICK U \in T : \A V \in T : <<V, U>> \notin StrictSubsetOrdering(part)
    <3> HIDE DEF T
    <3> QED BY <1>2, <2>1, WFMin
  <2>3. PICK x \in part : U = Later(x)
    OBVIOUS
  <2>4. ASSUME NEW y \in part, y # x, ~Before(up, y, x) PROVE FALSE
    <3>1. Before(up, x, y)
      BY <2>4, BeforeTotal
    <3>2. Later(y) \subseteq Later(x)
      BY <1>1, <3>1, BeforeTransitive
    <3>3. y \in Later(x) /\ y \notin Later(y)
      BY <1>1, <3>1, BeforeIrreflexive
    <3>4. Later(y) \in SUBSET part /\ Later(x) \in SUBSET part /\ Later(y) # Later(x)
      BY <3>3
    <3>5. <<Later(y), U>> \in StrictSubsetOrdering(part)
      <4> HIDE DEF Later
      <4> QED BY <2>3, <3>2, <3>4 DEF StrictSubsetOrdering
    <3> QED BY <2>2, <3>5
  <2> QED BY <2>4
<1> QED BY <1>3, <1>4

\* Before the last node of a part are all the others.
LEMMA EarlierThanLast ==
    ASSUME NEW up \in Parents, Grounded(up), NEW part \in SUBSET Nodes, NEW x \in part,
           \A y \in part : x = y \/ Before(up, y, x)
    PROVE  Earlier(up, part, x) = part \ {x}
BY BeforeIrreflexive DEF Earlier

\* There is a node at each place of the list.
LEMMA EveryLineIsTaken ==
    ASSUME NEW up \in Parents, Grounded(up), NEW root \in Nodes, up[root] = None,
           NEW i \in Nat, i < Cardinality(Under(up, root))
    PROVE  \E n \in Under(up, root) : Cardinality(Earlier(up, Under(up, root), n)) = i
<1> DEFINE shown == Under(up, root)
           Index(n) == Cardinality(Earlier(up, shown, n))
           T == {n \in shown : Index(n) >= i}
<1>1. shown \subseteq Nodes /\ IsFiniteSet(shown) /\ Cardinality(shown) \in Nat
  <2>1. shown \subseteq Nodes
    BY DEF Under
  <2>2. IsFiniteSet(shown)
    BY <2>1, NodesAssumption, FS_Subset
  <2> QED BY <2>1, <2>2, FS_CardinalityType
<1>2. \A n \in shown : /\ Earlier(up, shown, n) \subseteq shown
                       /\ IsFiniteSet(Earlier(up, shown, n)) /\ Index(n) \in Nat
  <2> SUFFICES ASSUME NEW n \in shown
               PROVE  /\ Earlier(up, shown, n) \subseteq shown
                      /\ IsFiniteSet(Earlier(up, shown, n)) /\ Index(n) \in Nat
    OBVIOUS
  <2>1. Earlier(up, shown, n) \subseteq shown
    BY DEF Earlier
  <2>2. IsFiniteSet(Earlier(up, shown, n))
    BY <1>1, <2>1, FS_Subset
  <2> QED BY <2>1, <2>2, FS_CardinalityType
<1>3. shown # {}
  <2> HIDE DEF shown
  <2> QED BY <1>1, FS_EmptySet DEF shown
<1>4. PICK l \in shown : \A y \in shown : l = y \/ Before(up, y, l)
  BY <1>3, EndsOfList
<1>5. l \in T
  <2>1. Earlier(up, shown, l) = shown \ {l}
    BY <1>1, <1>4, EarlierThanLast
  <2>2. Index(l) = Cardinality(shown) - 1
    <3> HIDE DEF shown
    <3> QED BY <1>1, <2>1, FS_RemoveElement
  <2> QED BY <1>1, <2>2
<1>6. T \in SUBSET shown /\ T # {}
  <2> HIDE DEF Index, shown
  <2> QED BY <1>5
<1>7. PICK x \in T : \A y \in T : x = y \/ Before(up, x, y)
  <2> HIDE DEF T
  <2> QED BY <1>6, EndsOfList
<1>8. x \in shown /\ x \in Nodes /\ Index(x) \in Nat /\ Index(x) >= i
  BY <1>1, <1>2
<1>9. ASSUME Index(x) # i PROVE FALSE
  <2> DEFINE B == Earlier(up, shown, x)
  <2>1. B \subseteq shown /\ IsFiniteSet(B) /\ Cardinality(B) \in Nat /\ Cardinality(B) > i
    BY <1>2, <1>8, <1>9
  <2>2. B # {}
    <3> HIDE DEF B
    <3> QED BY <2>1, FS_EmptySet
  <2>3. PICK p \in B : \A y \in B : p = y \/ Before(up, y, p)
    <3> HIDE DEF B
    <3> QED BY <2>1, <2>2, EndsOfList
  <2>4. p \in shown /\ p \in Nodes /\ Before(up, p, x)
    BY <1>1 DEF Earlier
  <2>5. Earlier(up, shown, p) = Earlier(up, B, p)
    BY <1>1, <1>8, <2>4, BeforeTransitive DEF Earlier
  <2>6. Earlier(up, B, p) = B \ {p}
    BY <1>1, <2>1, <2>3, EarlierThanLast
  <2>7. Index(p) = Cardinality(B) - 1
    <3> HIDE DEF B
    <3> QED BY <2>1, <2>3, <2>5, <2>6, FS_RemoveElement
  <2>8. p \in T
    BY <2>1, <2>4, <2>7
  <2>9. x = p \/ Before(up, x, p)
    <3> HIDE DEF T
    <3> QED BY <1>7, <2>8
  <2> QED BY <1>8, <2>4, <2>9, BeforeIrreflexive
<1> QED BY <1>8, <1>9

\* What is listed of a tree: a node in each line, each node of the tree in one,
\* and no node below one that is under it.
LEMMA TreeIsListed ==
    ASSUME NEW up \in Parents, Grounded(up), up[Root] = None
    PROVE  /\ \E k \in Nat : Entries(up) \in [0 .. k -> Under(up, Root)]
           /\ \A n \in Under(up, Root) : \E i \in DOMAIN Entries(up) :
                /\ Entries(up)[i] = n
                /\ \A j \in DOMAIN Entries(up) : Entries(up)[j] = n => j = i
           /\ \A i, j \in DOMAIN Entries(up) : Entries(up)[i] \in Above(up, Entries(up)[j]) => i <= j
<1> DEFINE shown == Under(up, Root)
           Index(n) == Cardinality(Earlier(up, shown, n))
           k == Cardinality(shown) - 1
<1>1. Root \in Nodes
  BY NodesAssumption DEF Root
<1>2. shown \subseteq Nodes /\ IsFiniteSet(shown) /\ Cardinality(shown) \in Nat /\ Root \in shown
  <2>1. shown \subseteq Nodes /\ Root \in shown
    BY <1>1, AboveItself DEF Under
  <2>2. IsFiniteSet(shown)
    BY <2>1, NodesAssumption, FS_Subset
  <2> QED BY <2>1, <2>2, FS_CardinalityType
<1>3. k \in Nat
  <2> HIDE DEF shown
  <2>1. Cardinality(shown) # 0
    BY <1>2, FS_EmptySet
  <2> QED BY <1>2, <2>1
<1>4. Entries(up) = [i \in 0 .. k |-> CHOOSE n \in shown : Index(n) = i]
  BY DEF Entries, Earlier
<1>5. ASSUME NEW i \in 0 .. k PROVE \E n \in shown : Index(n) = i
  <2>1. i \in Nat /\ i < Cardinality(shown)
    <3> HIDE DEF shown
    <3> QED BY <1>2
  <2> QED BY <1>1, <2>1, EveryLineIsTaken
<1>6. \A i \in 0 .. k : Entries(up)[i] \in shown /\ Index(Entries(up)[i]) = i
  <2> HIDE DEF k, shown, Index
  <2> QED BY <1>4, <1>5
<1>7. Entries(up) \in [0 .. k -> shown] /\ DOMAIN Entries(up) = 0 .. k
  <2> HIDE DEF k, shown, Index
  <2> QED BY <1>4, <1>5
<1>8. ASSUME NEW m \in shown, NEW n \in shown, Before(up, m, n)
      PROVE  Index(m) < Index(n)
  <2>1. Earlier(up, shown, m) \subseteq Earlier(up, shown, n)
    BY <1>2, <1>8, BeforeTransitive DEF Earlier
  <2>2. m \in Earlier(up, shown, n) /\ m \notin Earlier(up, shown, m)
    BY <1>2, <1>8, BeforeIrreflexive DEF Earlier
  <2>3. IsFiniteSet(Earlier(up, shown, n))
    <3>1. Earlier(up, shown, n) \subseteq shown
      BY DEF Earlier
    <3> QED BY <1>2, <3>1, FS_Subset
  <2>4. /\ Index(m) \in Nat /\ Index(n) \in Nat /\ Index(m) <= Index(n)
        /\ Index(n) # Index(m)
    <3>1. IsFiniteSet(Earlier(up, shown, m)) /\ Index(m) <= Index(n)
          /\ (Index(n) = Index(m) => Earlier(up, shown, n) = Earlier(up, shown, m))
      BY <2>1, <2>3, FS_Subset
    <3> QED BY <2>2, <2>3, <3>1, FS_CardinalityType
  <2> HIDE DEF Index
  <2> QED BY <2>4
<1>9. \A n \in shown : Index(n) \in 0 .. k
  <2> SUFFICES ASSUME NEW n \in shown PROVE Index(n) \in 0 .. k
    OBVIOUS
  <2>1. Earlier(up, shown, n) \subseteq shown \ {n}
    BY <1>2, BeforeIrreflexive DEF Earlier
  <2> HIDE DEF shown
  <2>2. IsFiniteSet(shown \ {n}) /\ Cardinality(shown \ {n}) = k
    BY <1>2, FS_RemoveElement
  <2>3. Index(n) <= k /\ IsFiniteSet(Earlier(up, shown, n))
    BY <2>1, <2>2, FS_Subset
  <2>4. Index(n) \in Nat
    BY <2>3, FS_CardinalityType
  <2> HIDE DEF Index
  <2> QED BY <1>3, <2>3, <2>4
<1>10. ASSUME NEW n \in shown
       PROVE  \E i \in 0 .. k : /\ Entries(up)[i] = n
                                /\ \A j \in 0 .. k : Entries(up)[j] = n => j = i
  <2>1. PICK i \in 0 .. k : i = Index(n)
    BY <1>9
  <2>2. Entries(up)[i] \in shown /\ Index(Entries(up)[i]) = Index(n)
    BY <1>6, <2>1
  <2>3. Entries(up)[i] = n
    <3> SUFFICES ASSUME Entries(up)[i] # n PROVE FALSE
      OBVIOUS
    <3>1. Before(up, Entries(up)[i], n) \/ Before(up, n, Entries(up)[i])
      BY <1>1, <2>2, BeforeTotal
    <3>2. Index(n) \in Int
      BY <1>9
    <3>3. Index(Entries(up)[i]) < Index(n) \/ Index(n) < Index(Entries(up)[i])
      BY <1>8, <2>2, <3>1
    <3> HIDE DEF Index
    <3> QED BY <2>2, <3>2, <3>3
  <2>4. \A j \in 0 .. k : Entries(up)[j] = n => j = i
    <3> HIDE DEF Index, k, shown
    <3> QED BY <1>6, <2>1
  <2> QED BY <2>3, <2>4
<1>11. ASSUME NEW i \in 0 .. k, NEW j \in 0 .. k, Entries(up)[i] \in Above(up, Entries(up)[j])
       PROVE  i <= j
  <2>1. PICK m \in shown : m = Entries(up)[i] /\ Index(m) = i
    BY <1>6
  <2>2. PICK n \in shown : n = Entries(up)[j] /\ Index(n) = j
    BY <1>6
  <2>3. CASE m = n
    <3> HIDE DEF Index
    <3> QED BY <2>1, <2>2, <2>3
  <2>4. CASE m # n
    <3>1. Before(up, m, n)
      BY <1>2, <1>11, <2>1, <2>2, <2>4, BeforeIs
    <3>2. Index(m) < Index(n)
      BY <1>8, <3>1
    <3> HIDE DEF Index
    <3> QED BY <2>1, <2>2, <3>2
  <2> QED BY <2>3, <2>4
<1> HIDE DEF k, shown
<1> QED BY <1>3, <1>7, <1>10, <1>11 DEF shown

-----------------------------------------------------------------------------
(* How the tree changes.                                                   *)

\* Where two trees agree above a node, it has the same nodes above it.
LEMMA AboveSame ==
    ASSUME NEW up \in Parents, Grounded(up), NEW up2 \in Parents, Grounded(up2), NEW n \in Nodes,
           \A x \in Above(up, n) : up2[x] = up[x]
    PROVE  Above(up2, n) = Above(up, n)
<1>1. Closed(up, Above(up, n)) /\ n \in Above(up, n) /\ Above(up, n) \in SUBSET Nodes
  BY AboveItself
<1>2. Closed(up2, Above(up, n))
  BY <1>1 DEF Closed
<1>3. Above(up2, n) \subseteq Above(up, n)
  BY <1>1, <1>2, AboveIsLeast
<1>4. Closed(up2, Above(up2, n)) /\ n \in Above(up2, n) /\ Above(up2, n) \in SUBSET Nodes
  BY AboveItself
<1>5. Closed(up, Above(up2, n))
  BY <1>3, <1>4 DEF Closed
<1>6. Above(up, n) \subseteq Above(up2, n)
  BY <1>4, <1>5, AboveIsLeast
<1> QED BY <1>3, <1>6

\* A node that is in no tree yet: without a parent, and nobody's parent.
Free(up, n) == up[n] = None /\ \A m \in Nodes : up[m] # n

WithParent(up, n, p) == [up EXCEPT ![n] = p]

\* Such a node becomes the child of another one.
LEMMA AddChild ==
    ASSUME NEW up \in Parents, Grounded(up), NEW n \in Nodes, Free(up, n), NEW p \in Nodes, p # n
    PROVE  /\ WithParent(up, n, p) \in Parents /\ Grounded(WithParent(up, n, p)) /\ WithParent(up, n, p)[n] = p
           /\ \A m \in Nodes : m # n => WithParent(up, n, p)[m] = up[m] /\ Above(WithParent(up, n, p), m) = Above(up, m)
           /\ Above(WithParent(up, n, p), n) = {n} \cup Above(up, p)
<1> DEFINE up2 == WithParent(up, n, p)
<1>1. /\ up2 \in Parents /\ up2[n] = p
      /\ \A m \in Nodes : m # n => up2[m] = up[m]
  BY DEF Parents, WithParent
<1> HIDE DEF up2
<1>2. Grounded(up2)
  <2> SUFFICES ASSUME NEW S \in SUBSET Nodes, S # {} PROVE \E x \in S : up2[x] \notin S
    BY DEF Grounded
  <2>1. CASE S = {n}
    BY <1>1, <2>1
  <2>2. CASE S # {n}
    <3>1. S \ {n} \in SUBSET Nodes /\ S \ {n} # {}
      BY <2>2
    <3>2. PICK x \in S \ {n} : up[x] \notin S \ {n}
      BY <3>1 DEF Grounded
    <3>3. x \in Nodes /\ up[x] # n
      BY DEF Free
    <3> QED BY <1>1, <3>2, <3>3
  <2> QED BY <2>1, <2>2
<1>3. ASSUME NEW m \in Nodes, m # n PROVE Above(up2, m) = Above(up, m)
  <2>1. Closed(up, Nodes \ {n})
    BY DEF Closed, Free, Parents
  <2>2. Above(up, m) \subseteq Nodes \ {n}
    BY <1>3, <2>1, AboveIsLeast
  <2>3. \A x \in Above(up, m) : up2[x] = up[x]
    BY <1>1, <2>2
  <2> QED BY <1>1, <1>2, <2>3, AboveSame
<1>4. Above(up2, n) = {n} \cup Above(up2, p)
  <2>1. up2[n] = p /\ p # None
    BY <1>1, NoneIsNoNode
  <2>2. Above(up2, n) = {n} \cup (IF up2[n] = None THEN {} ELSE Above(up2, up2[n]))
    BY <1>1, AboveUnfolds
  <2> QED BY <2>1, <2>2
<1> QED BY <1>1, <1>2, <1>3, <1>4 DEF up2

\* A node is taken from its parent.
LEMMA CutNode ==
    ASSUME NEW up \in Parents, Grounded(up), NEW n \in Nodes
    PROVE  /\ WithParent(up, n, None) \in Parents /\ Grounded(WithParent(up, n, None))
           /\ \A m \in Nodes : WithParent(up, n, None)[m] = IF m = n THEN None ELSE up[m]
           /\ \A m \in Nodes : n \notin Above(up, m) => Above(WithParent(up, n, None), m) = Above(up, m)
<1> DEFINE up2 == WithParent(up, n, None)
<1>1. up2 \in Parents /\ \A m \in Nodes : up2[m] = IF m = n THEN None ELSE up[m]
  BY DEF Parents, WithParent
<1> HIDE DEF up2
<1>2. Grounded(up2)
  <2> SUFFICES ASSUME NEW S \in SUBSET Nodes, S # {} PROVE \E x \in S : up2[x] \notin S
    BY DEF Grounded
  <2>1. PICK x \in S : up[x] \notin S
    BY DEF Grounded
  <2> QED BY <1>1, <2>1, NoneIsNoNode
<1>3. ASSUME NEW m \in Nodes, n \notin Above(up, m) PROVE Above(up2, m) = Above(up, m)
  <2>1. \A x \in Above(up, m) : x \in Nodes /\ up2[x] = up[x]
    BY <1>1, <1>3, AboveItself
  <2> QED BY <1>1, <1>2, <2>1, AboveSame
<1> QED BY <1>1, <1>2, <1>3 DEF up2

-----------------------------------------------------------------------------
(* The inductive invariant.                                                *)

\* The nodes have no cycles, and those that are not there yet are in no tree.
TreeOK ==
    /\ parent \in Parents /\ Grounded(parent)
    /\ parent[Root] = None /\ Root \notin Unused
    /\ \A n \in Unused : Free(parent, n)

\* The lines of the screen of the tree: nodes of the tree, none below one that is
\* under it.
ListOK ==
    screen = "tree" =>
        /\ \E k \in Nat : lines \in [0 .. k -> Nodes]
        /\ line \in DOMAIN lines /\ initial \in DOMAIN lines
        /\ \A i \in DOMAIN lines : lines[i] \in Tree
        /\ lines[0] = Root
        /\ \A i, j \in DOMAIN lines : lines[i] \in Above(parent, lines[j]) => i <= j

Stays == screen = "list" => strayed \/ currentNode \in Tree

IInv == Inv /\ TreeOK /\ ListOK /\ Stays

LEMMA RootIsNode == Root \in Nodes /\ Root # None
BY NodesAssumption DEF Root, None

LEMMA RootInTree == ASSUME TreeOK PROVE Root \in Tree
BY RootIsNode, AboveItself DEF TreeOK, Tree, Under

\* The least of the nodes that are not there yet, and then the next one.
LEMMA LeastUnused ==
    ASSUME NEW S \in SUBSET Nodes, S # {}
    PROVE  (CHOOSE n \in S : \A m \in S : n <= m) \in S
<1>1. IsFiniteSet(S)
  BY NodesAssumption, FS_Subset
<1>2. S \subseteq Int
  BY NodesAssumption
<1> QED BY <1>1, <1>2, LeastExists

\* A new list.
LEMMA ListIsOK ==
    ASSUME NEW up \in Parents, Grounded(up), up[Root] = None, NEW node, List(up, node), parent' = up
    PROVE  /\ ListOK' /\ screen' = "tree" /\ line' \in Nat /\ initial' \in Nat
           /\ node \in Under(up, Root) => lines'[line'] = node
<1>1. /\ screen' = "tree" /\ lines' = Entries(up) /\ line' = LineOf(lines', node) /\ initial' = line'
  BY DEF List
<1>2. PICK k \in Nat : Entries(up) \in [0 .. k -> Under(up, Root)]
  BY TreeIsListed
<1>3. DOMAIN lines' = 0 .. k /\ 0 \in 0 .. k
  BY <1>1, <1>2
<1>4. line' \in 0 .. k
  BY <1>1, <1>3 DEF LineOf
<1>5. Under(up, Root) \subseteq Nodes /\ lines' \in [0 .. k -> Nodes]
  BY <1>1, <1>2 DEF Under
<1>6. \A i \in DOMAIN lines' : lines'[i] \in Tree'
  <2>1. Tree' = Under(up, Root)
    BY DEF Tree, Under
  <2> QED BY <1>1, <1>2, <1>3, <2>1
<1>7. \A i, j \in DOMAIN lines' : lines'[i] \in Above(up, lines'[j]) => i <= j
  BY <1>1, TreeIsListed
<1>8. lines'[0] = Root
  <2>1. Root \in Under(up, Root)
    BY RootIsNode, AboveItself DEF Under
  <2>2. PICK i \in DOMAIN lines' : lines'[i] = Root
    BY <1>1, <2>1, TreeIsListed
  <2>3. Root \in Above(up, lines'[0])
    BY <1>1, <1>2, <1>3 DEF Under
  <2>4. i <= 0
    BY <1>3, <1>7, <2>2, <2>3
  <2>5. i = 0
    BY <1>3, <2>2, <2>4
  <2> QED BY <2>2, <2>5
<1>9. ListOK'
  BY <1>1, <1>3, <1>4, <1>5, <1>6, <1>7, <1>8 DEF ListOK
<1>10. node \in Under(up, Root) => lines'[line'] = node
  <2> SUFFICES ASSUME node \in Under(up, Root) PROVE lines'[line'] = node
    OBVIOUS
  <2>1. \E i \in DOMAIN lines' : lines'[i] = node
    BY <1>1, TreeIsListed
  <2> QED BY <1>1, <2>1 DEF LineOf
<1> QED BY <1>1, <1>4, <1>9, <1>10

LEMMA InitHolds == Init => IInv
<1> SUFFICES ASSUME Init PROVE IInv
  OBVIOUS
<1>1. Inv
  BY RootIsNode DEF Init, Inv, TypeOK, WindowShowsNode
<1>2. Grounded(parent)
  <2>1. \A x \in Nodes : parent[x] = None
    BY DEF Init
  <2> QED BY <2>1, NoneIsNoNode DEF Grounded
<1>3. TreeOK
  <2>1. parent \in Parents /\ \A n \in Nodes : parent[n] = None
    BY DEF Init, Parents
  <2>2. \A n \in Nodes : Free(parent, n)
    BY <2>1, NoneIsNoNode DEF Free
  <2>3. Root \notin Unused
    BY RootIsNode DEF Init, Unused
  <2> QED BY <1>2, <2>1, <2>2, <2>3, RootIsNode DEF TreeOK, Unused
<1>4. Stays
  BY <1>3, RootInTree DEF Init, Stays
<1> QED BY <1>1, <1>3, <1>4 DEF IInv, Init, ListOK

-----------------------------------------------------------------------------
(* What each step keeps.                                                   *)

\* The list, the tree and where the user is, when the trees of the nodes that are
\* there stay what they are.
LEMMA MoreNodes ==
    ASSUME TreeOK, ListOK, screen' = screen, lines' = lines, line' = line, initial' = initial,
           \A n \in Nodes \ Unused : Above(parent', n) = Above(parent, n)
    PROVE  ListOK' /\ \A n \in Tree : n \in Tree'
<1>1. ASSUME NEW n \in Tree PROVE n \in Nodes \ Unused
  <2>1. n \in Nodes /\ Root \in Above(parent, n)
    BY DEF Tree, Under
  <2>2. ASSUME n \in Unused PROVE FALSE
    <3>1. Above(parent, n) = {n}
      BY <2>1, <2>2, AboveUnfolds DEF TreeOK, Free
    <3> QED BY <2>1, <2>2, <3>1 DEF TreeOK
  <2> QED BY <2>1, <2>2
<1>2. \A n \in Tree : n \in Tree' /\ Above(parent', n) = Above(parent, n)
  BY <1>1 DEF Tree, Under
<1>3. ListOK'
  BY <1>2 DEF ListOK
<1> QED BY <1>2, <1>3

\* A step that leaves the tree and the screen of it alone.
LEMMA SameTree ==
    ASSUME TreeOK, ListOK, UNCHANGED <<tree, dialog>>
    PROVE  TreeOK' /\ ListOK' /\ Tree' = Tree
<1>1. UNCHANGED <<kind, parent, screen, lines, line, initial>>
  BY DEF tree, dialog
<1> QED BY <1>1 DEF TreeOK, ListOK, Tree, Under, Unused, Free

\* A free node becomes the child of a node that is there.
LEMMA TreeGrows ==
    ASSUME TreeOK, NEW n \in Unused, NEW p \in Nodes \ Unused, NEW as \in {"simple", "split"},
           kind' = [kind EXCEPT ![n] = as], parent' = [parent EXCEPT ![n] = p],
           kind \in [Nodes -> {"none", "simple", "split"}]
    PROVE  /\ TreeOK' /\ Unused' = Unused \ {n}
           /\ \A m \in Nodes : m # n => Above(parent', m) = Above(parent, m)
           /\ p \in Tree => n \in Tree'
<1>1. n \in Nodes /\ Free(parent, n) /\ p # n /\ parent \in Parents /\ Grounded(parent)
  BY DEF TreeOK, Unused
<1>2. /\ parent' \in Parents /\ Grounded(parent') /\ parent'[n] = p
      /\ \A m \in Nodes : m # n => parent'[m] = parent[m] /\ Above(parent', m) = Above(parent, m)
      /\ Above(parent', n) = {n} \cup Above(parent, p)
  <2>1. /\ WithParent(parent, n, p) \in Parents /\ Grounded(WithParent(parent, n, p))
        /\ WithParent(parent, n, p)[n] = p
        /\ \A m \in Nodes : m # n => /\ WithParent(parent, n, p)[m] = parent[m]
                                    /\ Above(WithParent(parent, n, p), m) = Above(parent, m)
        /\ Above(WithParent(parent, n, p), n) = {n} \cup Above(parent, p)
    BY <1>1, AddChild
  <2> QED BY <2>1 DEF WithParent
<1>3. Unused' = Unused \ {n}
  BY <1>1 DEF Unused
<1>4. \A m \in Unused' : Free(parent', m)
  <2> SUFFICES ASSUME NEW m \in Unused \ {n} PROVE Free(parent', m)
    BY <1>3
  <2>1. m \in Nodes /\ m # n /\ Free(parent, m) /\ m # p
    BY DEF TreeOK, Unused
  <2> QED BY <1>2, <2>1 DEF Free
<1>5. parent'[Root] = None /\ Root \notin Unused'
  BY <1>2, <1>3, RootIsNode DEF TreeOK
<1>6. p \in Tree => n \in Tree'
  BY <1>1, <1>2 DEF Tree, Under
<1> QED BY <1>2, <1>3, <1>4, <1>5, <1>6 DEF TreeOK

\* The steps of threads and keys that show nothing else leave the window alone.
LEMMA GrowKeeps ==
    ASSUME IInv, NEW node \in Nodes, Grow(node)
    PROVE  IInv' /\ Tree \subseteq Tree'
<1>1. PICK n \in Unused :
        /\ kind' = [kind EXCEPT ![n] = "simple"]
        /\ parent' = [parent EXCEPT ![n] = node]
  BY DEF Grow
<1>2. /\ kind[node] = "split" /\ node \in Nodes \ Unused
      /\ UNCHANGED <<currentNode, window, windows, marks, tasks, screen, lines, line, initial, strayed, unshown>>
  BY DEF Grow, Unused, list, dialog
<1>3. TreeOK /\ ListOK /\ TypeOK /\ n \in Nodes
  BY DEF IInv, Inv, Unused
<1>4. /\ TreeOK' /\ Unused' = Unused \ {n}
      /\ \A m \in Nodes : m # n => Above(parent', m) = Above(parent, m)
  BY <1>1, <1>2, <1>3, TreeGrows DEF TypeOK
<1>5. ListOK' /\ Tree \subseteq Tree'
  BY <1>2, <1>3, <1>4, MoreNodes
<1>6. Inv'
  BY <1>1, <1>2, <1>3 DEF IInv, Inv, TypeOK, WindowShowsNode
<1>7. Stays'
  BY <1>2, <1>5 DEF IInv, Stays
<1> QED BY <1>4, <1>5, <1>6, <1>7 DEF IInv

LEMMA ResetKeeps ==
    ASSUME IInv, NEW node \in Nodes, Reset(node)
    PROVE  IInv' /\ Tree' = Tree
<1>1. tasks' \subseteq tasks /\ UNCHANGED <<tree, list, marks, dialog, strayed, unshown>>
  BY DEF Reset
<1>2. TreeOK' /\ ListOK' /\ Tree' = Tree
  BY <1>1, SameTree DEF IInv
<1>3. Inv' /\ Stays'
  BY <1>1, <1>2 DEF IInv, Inv, TypeOK, WindowShowsNode, Stays, tree, list, dialog
<1> QED BY <1>2, <1>3 DEF IInv

\* The new nodes are there, and the new current node is one below it.
LEMMA NewNodesKeep ==
    ASSUME IInv, Unused # {}, kind[currentNode] = "simple", NEW as \in {"simple", "split"},
           NewNodes(as, currentNode), UNCHANGED dialog
    PROVE  /\ TreeOK' /\ ListOK' /\ Tree \subseteq Tree'
           /\ kind' \in [Nodes -> {"none", "simple", "split"}]
           /\ currentNode' \in Nodes /\ (currentNode \in Tree => currentNode' \in Tree')
<1> DEFINE next == CHOOSE n \in Unused : \A m \in Unused : n <= m
           own == CHOOSE n \in Unused \ {next} : \A m \in Unused \ {next} : n <= m
<1>1. TreeOK /\ ListOK /\ TypeOK /\ Unused \subseteq Nodes
  BY DEF IInv, Inv, Unused
<1>2. next \in Unused /\ next \in Nodes
  BY <1>1, LeastUnused
<1>3. currentNode \in Nodes \ Unused
  BY <1>1 DEF TypeOK, Unused
<1>4. UNCHANGED <<screen, lines, line, initial>>
  BY DEF dialog
<1>5. CASE as = "simple"
  <2>1. /\ kind' = [kind EXCEPT ![next] = as] /\ parent' = [parent EXCEPT ![next] = currentNode]
        /\ currentNode' = next
    BY <1>5 DEF NewNodes
  <2> HIDE DEF next
  <2>2. /\ TreeOK' /\ \A m \in Nodes : m # next => Above(parent', m) = Above(parent, m)
        /\ currentNode \in Tree => next \in Tree'
    BY <1>1, <1>2, <1>3, <2>1, TreeGrows DEF TypeOK
  <2>3. ListOK' /\ Tree \subseteq Tree'
    BY <1>1, <1>2, <1>4, <2>2, MoreNodes
  <2> QED BY <1>1, <1>2, <2>1, <2>2, <2>3 DEF TypeOK
<1>6. CASE as = "split"
  <2>1. /\ Unused # {next}
        /\ kind' = [kind EXCEPT ![next] = as, ![own] = "simple"]
        /\ parent' = [parent EXCEPT ![next] = currentNode, ![own] = next]
        /\ currentNode' = next
    BY <1>6 DEF NewNodes
  <2>2. own \in Unused \ {next} /\ own \in Nodes
    <3>1. Unused \ {next} \in SUBSET Nodes /\ Unused \ {next} # {}
      BY <1>1, <1>2, <2>1
    <3> HIDE DEF next
    <3> QED BY <3>1, LeastUnused
  <2> HIDE DEF next, own
  <2> DEFINE up1 == WithParent(parent, next, currentNode)
  <2>3. parent' = WithParent(up1, own, next) /\ parent \in Parents /\ Grounded(parent)
    BY <1>1, <2>1 DEF TreeOK, WithParent
  <2>4. Free(parent, next) /\ Free(parent, own) /\ next # own /\ currentNode # next /\ currentNode # own
        /\ currentNode \in Nodes
    BY <1>1, <1>2, <1>3, <2>2 DEF TreeOK
  <2>5. /\ up1 \in Parents /\ Grounded(up1) /\ up1[next] = currentNode
        /\ \A m \in Nodes : m # next => up1[m] = parent[m] /\ Above(up1, m) = Above(parent, m)
        /\ Above(up1, next) = {next} \cup Above(parent, currentNode)
    BY <1>2, <2>3, <2>4, AddChild
  <2>6. Free(up1, own)
    <3> HIDE DEF up1
    <3> QED BY <1>2, <2>2, <2>4, <2>5 DEF Free
  <2>7. /\ parent' \in Parents /\ Grounded(parent') /\ parent'[own] = next
        /\ \A m \in Nodes : m # own => parent'[m] = up1[m] /\ Above(parent', m) = Above(up1, m)
    <3> HIDE DEF up1
    <3> QED BY <1>2, <2>2, <2>3, <2>4, <2>5, <2>6, AddChild
  <2> HIDE DEF up1
  <2>8. Unused' = Unused \ {next, own} /\ kind' \in [Nodes -> {"none", "simple", "split"}]
    BY <1>1, <1>2, <1>6, <2>1, <2>2 DEF Unused, TypeOK
  <2>9. \A m \in Unused' : Free(parent', m)
    <3> SUFFICES ASSUME NEW m \in Unused, m # next, m # own PROVE Free(parent', m)
      BY <2>8
    <3>1. m \in Nodes /\ Free(parent, m) /\ m # currentNode
      BY <1>1, <1>3 DEF TreeOK
    <3>2. Free(up1, m)
      BY <2>5, <3>1 DEF Free
    <3> QED BY <2>7, <3>1, <3>2 DEF Free
  <2>10. TreeOK'
    BY <1>1, <2>4, <2>5, <2>7, <2>8, <2>9, RootIsNode, <1>2, <2>2 DEF TreeOK
  <2>11. \A m \in Nodes \ Unused : Above(parent', m) = Above(parent, m)
    BY <1>2, <2>2, <2>5, <2>7
  <2>12. ListOK' /\ Tree \subseteq Tree'
    BY <1>1, <1>4, <2>11, MoreNodes
  <2>13. currentNode \in Tree => next \in Tree'
    BY <1>2, <2>4, <2>5, <2>7 DEF Tree, Under
  <2> QED BY <1>2, <2>1, <2>8, <2>10, <2>12, <2>13
<1> QED BY <1>5, <1>6

LEMMA AddFilterKeeps ==
    ASSUME IInv, AddFilter
    PROVE  IInv' /\ Tree \subseteq Tree'
<1>1. PICK as \in {"simple", "split"} : NewNodes(as, currentNode)
  BY DEF AddFilter
<1>2. /\ screen = "list" /\ kind[currentNode] = "simple" /\ Unused # {}
      /\ UNCHANGED <<marks, tasks, dialog, strayed>>
      /\ \/ window' = currentNode' /\ windows' = windows \cup {currentNode'} /\ unshown' = FALSE
         \/ unshown' = TRUE /\ UNCHANGED <<window, windows>>
  BY DEF AddFilter, Show
<1>3. /\ TreeOK' /\ ListOK' /\ Tree \subseteq Tree'
      /\ kind' \in [Nodes -> {"none", "simple", "split"}]
      /\ currentNode' \in Nodes /\ (currentNode \in Tree => currentNode' \in Tree')
  BY <1>1, <1>2, NewNodesKeep
<1>4. parent' \in [Nodes -> Nodes \cup {None}]
  BY <1>3 DEF TreeOK, Parents
<1>5. Inv'
  BY <1>2, <1>3, <1>4 DEF IInv, Inv, TypeOK, WindowShowsNode, dialog
<1>6. Stays'
  BY <1>2, <1>3 DEF IInv, Stays, dialog
<1> QED BY <1>3, <1>5, <1>6 DEF IInv

LEMMA CenterKeeps ==
    ASSUME IInv, Center
    PROVE  IInv' /\ Tree' = Tree
<1>1. /\ UNCHANGED <<tree, currentNode, window, marks, tasks, dialog, strayed, unshown>>
      /\ windows \subseteq windows' /\ windows' \subseteq windows \cup Nodes
  BY DEF Center, Under
<1>2. TreeOK' /\ ListOK' /\ Tree' = Tree
  BY <1>1, SameTree DEF IInv
<1>3. Inv' /\ Stays'
  BY <1>1, <1>2 DEF IInv, Inv, TypeOK, WindowShowsNode, Stays, tree, dialog
<1> QED BY <1>2, <1>3 DEF IInv

LEMMA SetMarkKeeps ==
    ASSUME IInv, NEW m \in Marks, SetMark(m)
    PROVE  IInv' /\ Tree' = Tree
<1>1. UNCHANGED <<tree, list, tasks, dialog, strayed, unshown>>
  BY DEF SetMark
<1>2. TreeOK' /\ ListOK' /\ Tree' = Tree
  BY <1>1, SameTree DEF IInv
<1>3. marks' \in [Marks -> Nodes \cup {None}]
  BY DEF SetMark, IInv, Inv, TypeOK
<1>4. Inv' /\ Stays'
  BY <1>1, <1>2, <1>3 DEF IInv, Inv, TypeOK, WindowShowsNode, Stays, tree, list, dialog
<1> QED BY <1>2, <1>4 DEF IInv

LEMMA GotoMarkKeeps ==
    ASSUME IInv, NEW m \in Marks, GotoMark(m)
    PROVE  IInv' /\ Tree' = Tree
<1>1. /\ marks[m] \in Nodes /\ currentNode' = marks[m] /\ window' = marks[m]
      /\ windows' = windows \cup {marks[m]}
      /\ strayed' = (marks[m] \notin Tree) /\ unshown' = FALSE
      /\ UNCHANGED <<tree, marks, tasks, dialog>>
  BY DEF GotoMark, Show, Alive
<1>2. TreeOK' /\ ListOK' /\ Tree' = Tree
  BY <1>1, SameTree DEF IInv
<1>3. strayed' \in BOOLEAN /\ (strayed' <=> marks[m] \notin Tree)
  BY <1>1
<1>4. Inv'
  BY <1>1, <1>3 DEF IInv, Inv, TypeOK, WindowShowsNode, tree, dialog
<1>5. Stays'
  BY <1>1, <1>2, <1>3 DEF Stays
<1> QED BY <1>2, <1>4, <1>5 DEF IInv

LEMMA OpenTreeKeeps ==
    ASSUME IInv, OpenTree
    PROVE  IInv' /\ Tree' = Tree
<1>1. List(parent, currentNode) /\ UNCHANGED <<tree, list, marks, tasks, strayed, unshown>>
  BY DEF OpenTree
<1>2. UNCHANGED <<kind, parent, currentNode, window, windows>>
  BY <1>1 DEF tree, list
<1>3. /\ TreeOK /\ parent \in Parents /\ Grounded(parent) /\ parent[Root] = None
  BY DEF IInv, TreeOK
<1>4. ListOK' /\ screen' = "tree" /\ line' \in Nat /\ initial' \in Nat
  BY <1>1, <1>2, <1>3, ListIsOK
<1>5. TreeOK' /\ Tree' = Tree
  BY <1>2, <1>3 DEF TreeOK, Tree, Under, Unused, Free
<1>6. Inv' /\ Stays'
  BY <1>1, <1>2, <1>4 DEF IInv, Inv, TypeOK, WindowShowsNode, Stays
<1> QED BY <1>4, <1>5, <1>6 DEF IInv

LEMMA MoveLineKeeps ==
    ASSUME IInv, MoveLine
    PROVE  IInv' /\ Tree' = Tree
<1>1. /\ screen = "tree" /\ line' \in DOMAIN lines
      /\ UNCHANGED <<kind, parent, currentNode, window, windows, marks, tasks,
                     screen, lines, initial, strayed, unshown>>
  BY DEF MoveLine, tree, list
<1>2. TreeOK' /\ Tree' = Tree
  BY <1>1 DEF IInv, TreeOK, Tree, Under, Unused, Free
<1>3. ListOK'
  BY <1>1, <1>2 DEF IInv, ListOK
<1>4. line' \in Nat
  <2>1. PICK k \in Nat : lines \in [0 .. k -> Nodes]
    BY <1>1 DEF IInv, ListOK
  <2>2. line' \in 0 .. k
    BY <1>1, <2>1
  <2> QED BY <2>2
<1>5. Inv' /\ Stays'
  BY <1>1, <1>4 DEF IInv, Inv, TypeOK, WindowShowsNode, Stays
<1> QED BY <1>2, <1>3, <1>5 DEF IInv

\* The node of the line that is selected.
LEMMA SelectedIsShown ==
    ASSUME ListOK, screen = "tree"
    PROVE  Selected \in Tree /\ Selected \in Nodes
BY DEF ListOK, Selected, Tree, Under

\* A node that is taken from its parent takes nothing with it but what is under it.
LEMMA DeleteKeeps ==
    ASSUME IInv, Delete
    PROVE  /\ IInv'
           /\ \A n \in Tree : n \in Tree' \/ (Selected \in Above(parent, n) /\ Removable(Selected))
<1>1. /\ screen = "tree" /\ UNCHANGED <<kind, currentNode, window, windows, marks, strayed, unshown>>
      /\ \/ /\ Removable(Selected)
            /\ parent' = WithParent(parent, Selected, None)
            /\ tasks' = tasks \cup {Selected} /\ List(parent', lines[NextSelected])
         \/ List(parent, Selected) /\ UNCHANGED <<parent, tasks>>
  BY DEF Delete, WithParent, list
<1>2. TreeOK /\ ListOK /\ parent \in Parents /\ Grounded(parent) /\ parent[Root] = None /\ Inv
  BY DEF IInv, TreeOK
<1>3. Selected \in Tree /\ Selected \in Nodes
  BY <1>1, <1>2, SelectedIsShown
<1>4. CASE List(parent, Selected) /\ UNCHANGED <<parent, tasks>>
  <2>1. ListOK' /\ screen' = "tree" /\ line' \in Nat /\ initial' \in Nat
    BY <1>2, <1>4, ListIsOK
  <2>2. TreeOK' /\ Tree' = Tree
    BY <1>1, <1>2, <1>4 DEF TreeOK, Tree, Under, Unused, Free
  <2>3. Inv' /\ Stays'
    BY <1>1, <1>2, <1>4, <2>1 DEF Inv, TypeOK, WindowShowsNode, Stays
  <2> QED BY <2>1, <2>2, <2>3 DEF IInv
<1>5. CASE /\ Removable(Selected)
           /\ parent' = WithParent(parent, Selected, None)
           /\ tasks' = tasks \cup {Selected} /\ List(parent', lines[NextSelected])
  <2> DEFINE up == WithParent(parent, Selected, None)
  <2>1. /\ up \in Parents /\ Grounded(up)
        /\ \A m \in Nodes : up[m] = IF m = Selected THEN None ELSE parent[m]
        /\ \A m \in Nodes : Selected \notin Above(parent, m) => Above(up, m) = Above(parent, m)
    BY <1>2, <1>3, CutNode
  <2>2. parent' = up
    BY <1>5
  <2> HIDE DEF up
  <2>3. up[Root] = None
    BY <1>2, <2>1, RootIsNode
  <2>4. ListOK' /\ screen' = "tree" /\ line' \in Nat /\ initial' \in Nat
    <3>1. List(up, lines[NextSelected])
      BY <1>5, <2>2
    <3> QED BY <2>1, <2>2, <2>3, <3>1, ListIsOK
  <2>5. Unused' = Unused /\ Unused \subseteq Nodes
    BY <1>1 DEF Unused
  <2>6. \A m \in Unused : Free(up, m)
    BY <1>2, <2>1, <2>5, NoneIsNoNode DEF TreeOK, Free
  <2>7. TreeOK'
    <3>1. \A m \in Unused' : Free(parent', m)
      BY <2>2, <2>5, <2>6
    <3>2. Root \notin Unused'
      BY <1>2, <2>5 DEF TreeOK
    <3> QED BY <2>1, <2>2, <2>3, <3>1, <3>2 DEF TreeOK
  <2>8. ASSUME NEW n \in Tree, n \notin Tree' PROVE Selected \in Above(parent, n)
    <3>1. n \in Nodes /\ Root \in Above(parent, n) /\ Root \notin Above(up, n)
      BY <2>2, <2>8 DEF Tree, Under
    <3> QED BY <2>1, <3>1
  <2>9. parent' \in [Nodes -> Nodes \cup {None}] /\ tasks' \subseteq Nodes
    BY <1>2, <1>3, <1>5, <2>1, <2>2 DEF Parents, Inv, TypeOK
  <2>10. Inv' /\ Stays'
    BY <1>1, <1>2, <2>4, <2>9 DEF Inv, TypeOK, WindowShowsNode, Stays
  <2> QED BY <1>5, <2>4, <2>7, <2>8, <2>10 DEF IInv
<1> QED BY <1>1, <1>4, <1>5

\* The node that is chosen is in the tree, and lives: LogList owns it.
LEMMA ChooseKeeps ==
    ASSUME IInv, Choose
    PROVE  IInv' /\ Tree' = Tree
<1>1. PICK i \in {line, initial} : currentNode' = lines[i]
  BY DEF Choose
<1>2. /\ screen = "tree" /\ screen' = "list" /\ line' = 0 /\ initial' = 0
      /\ UNCHANGED <<kind, parent, marks, tasks>>
      /\ window' = currentNode' /\ windows' = (windows \cup {currentNode'}) \cap Alive'
      /\ strayed' = FALSE /\ unshown' = FALSE
  BY DEF Choose, tree
<1>3. TreeOK' /\ Tree' = Tree /\ ListOK'
  BY <1>2 DEF IInv, TreeOK, ListOK, Tree, Under, Unused, Free
<1>4. currentNode' \in Tree /\ currentNode' \in Nodes
  BY <1>1, <1>2 DEF IInv, ListOK, Tree, Under
<1>5. currentNode' \in Above(parent', currentNode')
  BY <1>2, <1>4, AboveItself DEF IInv, TreeOK
<1>6. currentNode' \in Alive'
  BY <1>4, <1>5 DEF Alive, Owners
<1>7. windows' \subseteq Nodes /\ currentNode' \in windows'
  BY <1>2, <1>4, <1>6 DEF Alive
<1>8. Inv'
  BY <1>2, <1>4, <1>7 DEF IInv, Inv, TypeOK, WindowShowsNode
<1>9. Stays'
  BY <1>3, <1>4 DEF Stays
<1> QED BY <1>3, <1>8, <1>9 DEF IInv

\* Where a node was taken away the line above is selected, which shows what it
\* showed before: no node of a line above is under the one of a line.
LEMMA LineAbove ==
    ASSUME IInv, Delete, Removable(Selected)
    PROVE  line - 1 \in DOMAIN lines /\ lines'[line'] = lines[line - 1]
<1>1. /\ screen = "tree" /\ parent' = WithParent(parent, Selected, None)
      /\ List(parent', lines[NextSelected])
  BY DEF Delete, WithParent
<1>2. TreeOK /\ ListOK /\ parent \in Parents /\ Grounded(parent) /\ parent[Root] = None
  BY DEF IInv, TreeOK
<1>3. Selected \in Tree /\ Selected \in Nodes /\ Selected # Root
  BY <1>1, <1>2, SelectedIsShown DEF Removable
<1>4. PICK k \in Nat : lines \in [0 .. k -> Nodes]
  BY <1>1, <1>2 DEF ListOK
<1>5. line \in 0 .. k /\ line # 0
  BY <1>1, <1>2, <1>3, <1>4 DEF ListOK, Selected
<1>6. PICK i \in 0 .. k : i = line - 1
  BY <1>5
<1>7. PICK above \in Tree : above = lines[i] /\ above = lines[NextSelected]
  BY <1>1, <1>2, <1>4, <1>6 DEF ListOK, NextSelected
<1>8. Selected \notin Above(parent, above)
  <2> SUFFICES ASSUME Selected \in Above(parent, above) PROVE FALSE
    OBVIOUS
  <2>1. lines[line] \in Above(parent, lines[i])
    BY <1>7 DEF Selected
  <2>2. line <= i
    BY <1>1, <1>2, <1>4, <1>5, <2>1 DEF ListOK
  <2> QED BY <1>5, <1>6, <2>2
<1> DEFINE up == WithParent(parent, Selected, None)
<1>9. /\ up \in Parents /\ Grounded(up) /\ up[Root] = None
      /\ Above(up, above) = Above(parent, above)
  <2>1. above \in Nodes
    BY DEF Tree, Under
  <2> QED BY <1>2, <1>3, <1>8, <2>1, CutNode, RootIsNode
<1>10. parent' = up
  BY <1>1
<1> HIDE DEF up
<1>11. above \in Under(up, Root)
  BY <1>9 DEF Tree, Under
<1>12. List(up, above)
  BY <1>1, <1>7, <1>10
<1>13. lines'[line'] = above
  BY <1>9, <1>10, <1>11, <1>12, ListIsOK
<1> QED BY <1>4, <1>6, <1>7, <1>13

\* Only a key deletes, and what it deletes is under the line that is selected.
OnlyShownIsDeleted ==
    \A n \in Tree \ Tree' :
        /\ screen = "tree"
        /\ lines[line] \in Above(parent, n)
        /\ kind[parent[lines[line]]] = "simple"

LEMMA StepKeeps == IInv /\ [Next]_vars => IInv' /\ OnlyShownIsDeleted
<1> SUFFICES ASSUME IInv, [Next]_vars PROVE IInv' /\ OnlyShownIsDeleted
  OBVIOUS
<1>1. ASSUME NEW n \in Nodes, Grow(n) PROVE IInv' /\ OnlyShownIsDeleted
  <2>1. IInv' /\ Tree \subseteq Tree'
    BY <1>1, GrowKeeps
  <2> QED BY <2>1 DEF OnlyShownIsDeleted
<1>2. ASSUME NEW n \in Nodes, Reset(n) PROVE IInv' /\ OnlyShownIsDeleted
  <2>1. IInv' /\ Tree' = Tree
    BY <1>2, ResetKeeps
  <2> QED BY <2>1 DEF OnlyShownIsDeleted
<1>3. CASE AddFilter
  <2>1. IInv' /\ Tree \subseteq Tree'
    BY <1>3, AddFilterKeeps
  <2> QED BY <2>1 DEF OnlyShownIsDeleted
<1>4. CASE Center
  <2>1. IInv' /\ Tree' = Tree
    BY <1>4, CenterKeeps
  <2> QED BY <2>1 DEF OnlyShownIsDeleted
<1>5. CASE OpenTree
  <2>1. IInv' /\ Tree' = Tree
    BY <1>5, OpenTreeKeeps
  <2> QED BY <2>1 DEF OnlyShownIsDeleted
<1>6. CASE MoveLine
  <2>1. IInv' /\ Tree' = Tree
    BY <1>6, MoveLineKeeps
  <2> QED BY <2>1 DEF OnlyShownIsDeleted
<1>7. CASE Delete
  <2>1. /\ IInv' /\ screen = "tree"
        /\ \A n \in Tree : n \in Tree' \/ (Selected \in Above(parent, n) /\ Removable(Selected))
    <3>1. screen = "tree"
      BY <1>7 DEF Delete
    <3> QED BY <1>7, <3>1, DeleteKeeps
  <2> QED BY <2>1 DEF OnlyShownIsDeleted, Selected, Removable
<1>8. CASE Choose
  <2>1. IInv' /\ Tree' = Tree
    BY <1>8, ChooseKeeps
  <2> QED BY <2>1 DEF OnlyShownIsDeleted
<1>9. ASSUME NEW m \in Marks, SetMark(m) PROVE IInv' /\ OnlyShownIsDeleted
  <2>1. IInv' /\ Tree' = Tree
    BY <1>9, SetMarkKeeps
  <2> QED BY <2>1 DEF OnlyShownIsDeleted
<1>10. ASSUME NEW m \in Marks, GotoMark(m) PROVE IInv' /\ OnlyShownIsDeleted
  <2>1. IInv' /\ Tree' = Tree
    BY <1>10, GotoMarkKeeps
  <2> QED BY <2>1 DEF OnlyShownIsDeleted
<1>11. CASE UNCHANGED vars
  <2>1. /\ UNCHANGED <<tree, dialog>>
        /\ UNCHANGED <<kind, parent, currentNode, window, windows, marks, tasks,
                       screen, line, initial, strayed, unshown>>
    BY <1>11 DEF vars, tree, list, dialog
  <2>2. TreeOK' /\ ListOK' /\ Tree' = Tree
    BY <2>1, SameTree DEF IInv
  <2>3. Inv' /\ Stays'
    BY <2>1, <2>2 DEF IInv, Inv, TypeOK, WindowShowsNode, Stays
  <2> QED BY <2>2, <2>3 DEF IInv, OnlyShownIsDeleted
<1> QED BY <1>1, <1>2, <1>3, <1>4, <1>5, <1>6, <1>7, <1>8, <1>9, <1>10, <1>11
        DEF Next, Pool, Keys

-----------------------------------------------------------------------------
(* The theorems.                                                           *)

\* The tree has no cycles and ends at its root, and every line of the screen of
\* the tree is of a node in it, the root first.
THEOREM Invariance == Spec => []IInv
<1>1. IInv /\ [Next]_vars => IInv'
  BY StepKeeps
<1> QED BY <1>1, InitHolds, PTL DEF Spec

\* The node that the keys work on is the one whose logs are on the screen
\* (LogList), and the types.
THEOREM KeysWorkOnWhatIsShown == Spec => []Inv
<1>1. IInv => Inv
  BY DEF IInv
<1> QED BY <1>1, Invariance, PTL

\* Whatever is deleted and whatever children come meanwhile, LogList and the line
\* that is selected are at a node of the tree.
THEOREM UserStaysInTree == Spec => []CurrentNodeInTree
<1>1. IInv => CurrentNodeInTree
  BY DEF IInv, ListOK, Stays, CurrentNodeInTree
<1> QED BY <1>1, Invariance, PTL

\* A node leaves the tree only because the user deletes the line that shows it or
\* a node above it (FilterTree::deleteNode()).
THEOREM OnlyWhatIsShownIsDeleted == Spec => DeletesWhatIsShown
<1>1. IInv /\ [Next]_vars => OnlyShownIsDeleted
  BY StepKeeps
<1>2. IInv /\ [Next]_vars => [OnlyShownIsDeleted]_vars
  BY <1>1
<1> QED BY <1>2, Invariance, PTL DEF Spec, DeletesWhatIsShown, OnlyShownIsDeleted

\* After a deletion the line above that of the node is selected, and it shows the
\* node that it showed before (FilterTree::selectUp()): there is such a line, for
\* the root is the first one and is not deleted.
THEOREM LineAboveIsSelected ==
    Spec => [][Delete /\ Removable(Selected) =>
                 line - 1 \in DOMAIN lines /\ lines'[line'] = lines[line - 1]]_vars
<1>1. IInv /\ [Next]_vars =>
        [Delete /\ Removable(Selected) =>
            line - 1 \in DOMAIN lines /\ lines'[line'] = lines[line - 1]]_vars
  BY LineAbove
<1> QED BY <1>1, Invariance, PTL DEF Spec

=============================================================================
