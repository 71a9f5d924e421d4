-------------------------- MODULE FlowPath_proofs ---------------------------
(***************************************************************************)
(* Proofs about PolicyPath and FlowPath for any routers, calls, changes    *)
(* and failures.                                                           *)
(***************************************************************************)
EXTENDS FlowPath, FiniteSetTheorems, SequenceTheorems, WellFoundedInduction, TLAPS

-----------------------------------------------------------------------------
(* Numbers and ranks. *)

\* A set of numbers has a least member.
LEMMA LeastOf ==
  ASSUME NEW S \in SUBSET Nat, S # {}
  PROVE  \E n \in S : \A m \in S : n <= m
<1>1. PICK n \in S : \A m \in S : <<m, n>> \notin OpToRel(<, Nat)
  BY NatLessThanWellFounded, WFMin
<1>2. \A m \in S : ~(m < n)
  BY <1>1 DEF OpToRel
<1>3. QED
  BY <1>2

\* Induction over the natural numbers, with a set for the predicate.
LEMMA SetInduction ==
  ASSUME NEW S, 0 \in S, \A n \in Nat : n \in S => n + 1 \in S
  PROVE  Nat \subseteq S
<1>1. SUFFICES ASSUME Nat \ S # {}
               PROVE  FALSE
  OBVIOUS
<1>2. PICK n \in Nat \ S : \A m \in Nat \ S : n <= m
  BY <1>1, LeastOf
<1>3. n # 0 /\ n - 1 \in Nat /\ ~(n <= n - 1)
  BY <1>2
<1>4. n - 1 \in S
  BY <1>2, <1>3
<1>5. QED
  BY <1>2, <1>3, <1>4

\* A finite set of numbers has a greatest member.
LEMMA GreatestOf ==
  ASSUME NEW S \in SUBSET Nat, S # {}, IsFiniteSet(S)
  PROVE  \E n \in S : \A m \in S : m <= n
<1> DEFINE size == Cardinality(S)
<1>1. size \in Nat /\ ExistsBijection(1..size, S)
  BY FS_CardinalityType
<1>2. PICK b \in Bijection(1..size, S) : TRUE
  BY <1>1 DEF ExistsBijection
<1>3. b \in [1..size -> S] /\ \A x \in S : \E i \in 1..size : b[i] = x
  BY <1>2 DEF Bijection, Surjection
<1> HIDE DEF size
<1> DEFINE Bounded == {k \in Nat : \E m \in Nat : \A i \in 1..size : i <= k => b[i] <= m}
<1>4. 0 \in Bounded
  BY <1>1
<1>5. ASSUME NEW k \in Nat, k \in Bounded
      PROVE  k + 1 \in Bounded
  <2>1. PICK m \in Nat : \A i \in 1..size : i <= k => b[i] <= m
    BY <1>5
  <2>2. CASE k + 1 \in 1..size
    <3>1. b[k + 1] \in Nat
      BY <1>3, <2>2
    <3>2. \E bound \in Nat : m <= bound /\ b[k + 1] <= bound
      BY <3>1
    <3>3. PICK bound \in Nat : m <= bound /\ b[k + 1] <= bound
      BY <3>2
    <3>4. ASSUME NEW i \in 1..size, i <= k + 1
          PROVE  b[i] <= bound
      <4>1. i \in Int
        BY <1>1
      <4>2. i <= k \/ i = k + 1
        BY <3>4, <4>1
      <4>3. b[i] \in Nat
        BY <1>3
      <4>4. QED
        BY <2>1, <3>3, <4>2, <4>3
    <3>5. QED
      BY <3>4
  <2>3. CASE k + 1 \notin 1..size
    <3>1. \A i \in 1..size : i <= k + 1 => i <= k
      BY <1>1, <2>3
    <3>2. QED
      BY <2>1, <3>1
  <2>4. QED
    BY <2>2, <2>3
<1>6. size \in Bounded
  <2> HIDE DEF Bounded
  <2>1. QED
    BY <1>1, <1>4, <1>5, SetInduction
<1> DEFINE Above == {m \in Nat : \A x \in S : x <= m}
<1>7. Above # {}
  <2>1. PICK m \in Nat : \A i \in 1..size : i <= size => b[i] <= m
    BY <1>6
  <2>2. \A x \in S : x <= m
    BY <1>1, <1>3, <2>1
  <2>3. QED
    BY <2>2
<1>8. PICK n \in Above : \A m \in Above : n <= m
  BY <1>7, LeastOf
<1>9. n \in S
  <2>1. SUFFICES ASSUME n \notin S
                 PROVE  FALSE
    OBVIOUS
  <2>2. \A x \in S : x <= n - 1
    BY <1>8, <2>1
  <2>3. n - 1 \in Nat
    <3>1. PICK x \in S : x <= n - 1
      BY <2>2
    <3>2. x \in Nat
      OBVIOUS
    <3>3. QED
      BY <3>1, <3>2
  <2>4. n - 1 \in Above
    BY <2>2, <2>3
  <2>5. n \in Nat /\ ~(n <= n - 1)
    OBVIOUS
  <2>6. QED
    BY <1>8, <2>4, <2>5
<1>10. QED
  BY <1>8, <1>9

\* A strict linear order, as a set of pairs, and who comes before x in it.
Linear(S, R) ==
  \A x, y, z \in S : /\ <<x, x>> \notin R
                     /\ x # y => <<x, y>> \in R \/ <<y, x>> \in R
                     /\ <<x, y>> \in R /\ <<y, z>> \in R => <<x, z>> \in R
Before(S, R, x) == {y \in S : <<y, x>> \in R}

\* Ranks in a finite linear order: they grow with the order and stay below the size.
LEMMA Ranks ==
  ASSUME NEW S, NEW R, IsFiniteSet(S), Linear(S, R)
  PROVE  \A x \in S :
           /\ Cardinality(Before(S, R, x)) \in 0..(Cardinality(S) - 1)
           /\ \A y \in S : <<x, y>> \in R =>
                Cardinality(Before(S, R, x)) < Cardinality(Before(S, R, y))
<1>1. Cardinality(S) \in Nat
  BY FS_CardinalityType
<1>2. ASSUME NEW x \in S
      PROVE  /\ IsFiniteSet(Before(S, R, x)) /\ Cardinality(Before(S, R, x)) \in Nat
             /\ Cardinality(Before(S, R, x)) < Cardinality(S)
  <2>1. Before(S, R, x) \in SUBSET S /\ Before(S, R, x) # S
    BY DEF Linear, Before
  <2>2. IsFiniteSet(Before(S, R, x)) /\ Cardinality(Before(S, R, x)) <= Cardinality(S)
        /\ Cardinality(Before(S, R, x)) # Cardinality(S)
    BY <2>1, FS_Subset
  <2>3. Cardinality(Before(S, R, x)) \in Nat
    BY <2>2, FS_CardinalityType
  <2>4. QED
    BY <1>1, <2>2, <2>3
<1>3. ASSUME NEW x \in S, NEW y \in S, <<x, y>> \in R
      PROVE  Cardinality(Before(S, R, x)) < Cardinality(Before(S, R, y))
  <2>1. Before(S, R, x) \in SUBSET Before(S, R, y) /\ Before(S, R, x) # Before(S, R, y)
    BY <1>3 DEF Linear, Before
  <2>2. Cardinality(Before(S, R, x)) <= Cardinality(Before(S, R, y))
        /\ Cardinality(Before(S, R, x)) # Cardinality(Before(S, R, y))
    BY <1>2, <2>1, FS_Subset
  <2>3. QED
    BY <1>2, <2>2
<1>4. QED
  BY <1>1, <1>2, <1>3

\* Every rank below the size is taken.
LEMMA RankTaken ==
  ASSUME NEW S, NEW R, IsFiniteSet(S), Linear(S, R), NEW k \in 0..(Cardinality(S) - 1)
  PROVE  \E x \in S : Cardinality(Before(S, R, x)) = k
<1> DEFINE rank == [x \in S |-> Cardinality(Before(S, R, x))]
           T == 0..(Cardinality(S) - 1)
<1>1. Cardinality(S) \in Nat
  BY FS_CardinalityType
<1>2. IsFiniteSet(T) /\ Cardinality(T) = Cardinality(S)
  BY <1>1, FS_Interval
<1>3. rank \in Injection(S, T)
  <2>1. rank \in [S -> T]
    BY Ranks
  <2>2. ASSUME NEW x \in S, NEW y \in S, rank[x] = rank[y]
        PROVE  x = y
    <3>1. SUFFICES ASSUME x # y
                   PROVE  FALSE
      OBVIOUS
    <3>2. <<x, y>> \in R \/ <<y, x>> \in R
      BY <3>1 DEF Linear
    <3>3. rank[x] < rank[y] \/ rank[y] < rank[x]
      BY <3>2, Ranks
    <3>4. rank[x] \in Int /\ rank[y] \in Int
      BY <2>1
    <3>5. QED
      BY <2>2, <3>3, <3>4
  <2>3. QED
    BY <2>1, <2>2 DEF Injection, IsInjective
<1> HIDE DEF rank, T
<1>4. rank \in Surjection(S, T)
  BY <1>2, <1>3, FS_Injection
<1>5. \E x \in S : rank[x] = k
  BY <1>4 DEF Surjection, T
<1>6. QED
  BY <1>5 DEF rank

-----------------------------------------------------------------------------
(* Tables and routes. *)

Tabling == Partial(TableId, Shape)
Policing == Partial(TableId, Policy)
Less == {p \in Nat \X Nat : p[1] < p[2]}

LEMMA TablingTypes ==
  ASSUME NEW f \in Tabling
  PROVE  /\ DOMAIN f \subseteq TableId /\ DOMAIN f \subseteq Nat
         /\ IsFiniteSet(DOMAIN f)
         /\ \A n \in DOMAIN f : /\ f[n] \in Shape
                                /\ f[n].egress \in Iface \cup {NoIface}
                                /\ f[n].onlink \in BOOLEAN
<1>1. PICK D \in SUBSET TableId : f \in [D -> Shape]
  BY DEF Tabling, Partial
<1>2. DOMAIN f \subseteq TableId /\ \A n \in DOMAIN f : f[n] \in Shape
  BY <1>1
<1>3. IsFiniteSet(DOMAIN f)
  BY <1>2, FS_Subset, FlowPathAssumption
<1>4. QED
  BY <1>2, <1>3, FlowPathAssumption DEF Shape, Egresses

LEMMA PolicingTypes ==
  ASSUME NEW f \in Policing
  PROVE  /\ DOMAIN f \subseteq TableId /\ DOMAIN f \subseteq Nat
         /\ IsFiniteSet(DOMAIN f)
         /\ \A n \in DOMAIN f : /\ f[n] \in Policy
                                /\ f[n].egress \in Iface \cup {NoIface}
                                /\ f[n].onlink \in BOOLEAN
                                /\ f[n].id \in Iface \cup {NoIface}
                                /\ f[n].desc \in Iface \cup {NoIface}
<1>1. PICK D \in SUBSET TableId : f \in [D -> Policy]
  BY DEF Policing, Partial
<1>2. DOMAIN f \subseteq TableId /\ \A n \in DOMAIN f : f[n] \in Policy
  BY <1>1
<1>3. IsFiniteSet(DOMAIN f)
  BY <1>2, FS_Subset, FlowPathAssumption
<1>4. QED
  BY <1>2, <1>3, FlowPathAssumption DEF Policy, Egresses

\* The routes of a configuration are finitely many.
LEMMA RangeFinite ==
  ASSUME NEW S, NEW s \in Seq(S)
  PROVE  /\ IsFiniteSet(Range(s)) /\ Range(s) \subseteq S
         /\ IsFiniteSet(DOMAIN s) /\ DOMAIN s \subseteq Nat
<1>1. Len(s) \in Nat /\ DOMAIN s = 1..Len(s) /\ \A i \in 1..Len(s) : s[i] \in S
  BY LenProperties, ElementOfSeq
<1>2. IsFiniteSet(1..Len(s))
  BY <1>1, FS_Interval
<1>3. s \in Surjection(1..Len(s), Range(s))
  BY <1>1 DEF Surjection, Range
<1>4. QED
  BY <1>1, <1>2, <1>3, FS_Surjection DEF Range

LEMMA RouteTypes ==
  ASSUME NEW routes \in Seq(Route), NEW r \in Range(routes)
  PROVE  /\ r \in Route /\ r.idx \in Nat /\ r.list \in ListId /\ r.list \in Nat
         /\ r.iface \in Iface /\ r.on \in BOOLEAN /\ r.gw \in BOOLEAN
<1>1. r \in Route
  BY RangeFinite
<1>2. QED
  BY <1>1, PolicyPathAssumption DEF Route

LEMMA LessIsLinear ==
  ASSUME NEW S \in SUBSET Nat
  PROVE  /\ Linear(S, Less)
         /\ \A n \in S : Before(S, Less, n) = {m \in S : m < n}
<1>1. \A x, y \in S : <<x, y>> \in Less <=> x < y
  BY DEF Less
<1>2. \A x, y, z \in S : ~(x < x) /\ (x # y => x < y \/ y < x) /\ (x < y /\ y < z => x < z)
  OBVIOUS
<1>3. Linear(S, Less)
  BY <1>1, <1>2 DEF Linear
<1>4. QED
  BY <1>1, <1>3 DEF Before

\* Ranks of table numbers.
LEMMA TableRanks ==
  ASSUME NEW S \in SUBSET Nat, IsFiniteSet(S)
  PROVE  /\ Cardinality(S) \in Nat
         /\ \A n \in S : RankIn(n, S) \in 0..(Cardinality(S) - 1)
         /\ \A n, m \in S : n < m => RankIn(n, S) < RankIn(m, S)
         /\ \A k \in 0..(Cardinality(S) - 1) : \E n \in S : RankIn(n, S) = k
<1>1. Linear(S, Less) /\ \A n \in S : Cardinality(Before(S, Less, n)) = RankIn(n, S)
  BY LessIsLinear DEF RankIn
<1>2. \A n, m \in S : n < m => <<n, m>> \in Less
  BY DEF Less
<1>3. Cardinality(S) \in Nat
  BY FS_CardinalityType
<1>4. \A n \in S : RankIn(n, S) \in 0..(Cardinality(S) - 1)
  BY <1>1, Ranks
<1>5. ASSUME NEW n \in S, NEW m \in S, n < m
      PROVE  RankIn(n, S) < RankIn(m, S)
  <2>1. Cardinality(Before(S, Less, n)) < Cardinality(Before(S, Less, m))
    BY <1>1, <1>2, <1>5, Ranks
  <2>2. QED
    BY <1>1, <2>1
<1>6. ASSUME NEW k \in 0..(Cardinality(S) - 1)
      PROVE  \E n \in S : RankIn(n, S) = k
  <2>1. PICK n \in S : Cardinality(Before(S, Less, n)) = k
    BY <1>1, RankTaken
  <2>2. QED
    BY <1>1, <2>1
<1>7. QED
  BY <1>3, <1>4, <1>5, <1>6

\* Ranks of routes by their indexes.
LEMMA RouteRanks ==
  ASSUME NEW S \in SUBSET Route, IsFiniteSet(S)
  PROVE  /\ Cardinality(S) \in Nat
         /\ \A r \in S : RankOf(r, S) \in Nat
         /\ \A r, q \in S : RankOf(r, S) < RankOf(q, S) => r.idx < q.idx
<1>1. Cardinality(S) \in Nat
  BY FS_CardinalityType
<1>2. ASSUME NEW r \in S
      PROVE  IsFiniteSet({q \in S : q.idx < r.idx}) /\ RankOf(r, S) \in Nat
  <2>1. {q \in S : q.idx < r.idx} \in SUBSET S
    OBVIOUS
  <2>2. IsFiniteSet({q \in S : q.idx < r.idx})
    BY <2>1, FS_Subset
  <2>3. QED
    BY <2>2, FS_CardinalityType DEF RankOf
<1>3. ASSUME NEW r \in S, NEW q \in S, ~(r.idx < q.idx)
      PROVE  RankOf(q, S) <= RankOf(r, S)
  <2>1. \A p \in S : p.idx \in Nat
    BY DEF Route
  <2>2. {p \in S : p.idx < q.idx} \in SUBSET {p \in S : p.idx < r.idx}
    BY <1>3, <2>1
  <2>3. QED
    BY <1>2, <2>2, FS_Subset DEF RankOf
<1>4. ASSUME NEW r \in S, NEW q \in S, RankOf(r, S) < RankOf(q, S)
      PROVE  r.idx < q.idx
  <2> DEFINE m == RankOf(r, S)
             n == RankOf(q, S)
  <2>0. m \in Nat /\ n \in Nat /\ m < n
    BY <1>2, <1>4
  <2> HIDE DEF m, n
  <2>1. ~(n <= m)
    BY <2>0
  <2>2. QED
    BY <1>3, <2>1 DEF m, n
<1>5. QED
  BY <1>1, <1>2, <1>4

\* Routes that leave by an interface.
LEMMA RoutesOutFinite ==
  ASSUME NEW routes \in Seq(Route), NEW i
  PROVE  /\ RoutesOut(routes, i) \in SUBSET Route
         /\ IsFiniteSet(RoutesOut(routes, i))
         /\ \A r \in RoutesOut(routes, i) : r \in Range(routes) /\ r.iface = i /\ r.on
<1>1. RoutesOut(routes, i) \in SUBSET Range(routes)
  BY DEF RoutesOut
<1>2. QED
  BY <1>1, RangeFinite, FS_Subset DEF RoutesOut

LEMMA RoutesByFinite ==
  ASSUME NEW routes \in Seq(Route), NEW i
  PROVE  /\ RoutesBy(routes, i) \in SUBSET Route
         /\ IsFiniteSet(RoutesBy(routes, i))
         /\ \A r \in RoutesBy(routes, i) : r \in Range(routes) /\ r.iface = i
<1>1. RoutesBy(routes, i) \in SUBSET Range(routes)
  BY DEF RoutesBy
<1>2. QED
  BY <1>1, RangeFinite, FS_Subset DEF RoutesBy

\* What an auto table links leaves by its interface.
LEMMA LinkedLeaves ==
  ASSUME NEW shown, NEW routes, NEW n
  PROVE  \A r \in Linked(n, shown, routes) :
           r \in Range(routes) /\ r.iface = shown[n].egress
BY DEF Linked, RoutesBy

\* What an entry links leaves by an interface it is found by.
LEMMA PolicyLinks ==
  ASSUME NEW p, NEW routes
  PROVE  \A r \in PolicyLinked(p, routes) :
           r \in Range(routes) /\ r.iface \in Names(p)
<1>1. ASSUME NEW r \in PolicyLinked(p, routes)
      PROVE  r \in Range(routes) /\ r.iface \in Names(p)
  <2>1. \E i \in Named(p, routes) : r = routes[i]
    BY DEF PolicyLinked
  <2>2. QED
    BY <2>1 DEF Named, Names, Range
<1>2. QED
  BY <1>1

\* The tables of one interface.
Like(n, shown) == {m \in DOMAIN shown : shown[m].egress = shown[n].egress}

LEMMA LikeFinite ==
  ASSUME NEW shown \in Tabling, NEW n
  PROVE  Like(n, shown) \in SUBSET Nat /\ IsFiniteSet(Like(n, shown))
<1>1. Like(n, shown) \in SUBSET (DOMAIN shown)
  BY DEF Like
<1>2. QED
  BY <1>1, TablingTypes, FS_Subset

LEMMA LinkedIs ==
  ASSUME NEW shown, NEW routes, NEW n
  PROVE  LET mine == RoutesBy(routes, shown[n].egress)
             place == RankIn(n, Like(n, shown))
         IN  Linked(n, shown, routes) =
               {r \in mine : \/ RankOf(r, mine) = place
                             \/ /\ place + 1 = Cardinality(Like(n, shown))
                                /\ RankOf(r, mine) > place}
BY DEF Linked, Like

\* The routes of a table come before those of a later table of the same interface.
LEMMA LinkedInOrder ==
  ASSUME NEW shown \in Tabling, NEW routes \in Seq(Route),
         NEW n \in DOMAIN shown, NEW m \in DOMAIN shown, n < m,
         shown[n].egress = shown[m].egress,
         NEW r \in Linked(n, shown, routes), NEW q \in Linked(m, shown, routes)
  PROVE  r.idx < q.idx
<1> DEFINE mine == RoutesBy(routes, shown[n].egress)
           like == Like(n, shown)
<1>1. like = Like(m, shown) /\ n \in like /\ m \in like
  BY DEF Like
<1>2. like \in SUBSET Nat /\ IsFiniteSet(like)
  BY LikeFinite
<1>3. mine \in SUBSET Route /\ IsFiniteSet(mine)
  BY RoutesByFinite
<1>4. /\ Cardinality(like) \in Nat
      /\ RankIn(n, like) \in 0..(Cardinality(like) - 1)
      /\ RankIn(m, like) \in 0..(Cardinality(like) - 1)
      /\ RankIn(n, like) < RankIn(m, like)
  BY <1>1, <1>2, TableRanks
<1>5. /\ r \in mine
      /\ \/ RankOf(r, mine) = RankIn(n, like)
         \/ RankIn(n, like) + 1 = Cardinality(like) /\ RankOf(r, mine) > RankIn(n, like)
  BY LinkedIs
<1>6. /\ q \in mine
      /\ \/ RankOf(q, mine) = RankIn(m, like)
         \/ RankIn(m, like) + 1 = Cardinality(like) /\ RankOf(q, mine) > RankIn(m, like)
  BY <1>1, LinkedIs
<1> HIDE DEF mine, like
<1>7. RankOf(r, mine) \in Nat /\ RankOf(q, mine) \in Nat
  BY <1>3, <1>5, <1>6, RouteRanks
<1>8. RankOf(r, mine) < RankOf(q, mine)
  BY <1>4, <1>5, <1>6, <1>7
<1>9. QED
  BY <1>3, <1>5, <1>6, <1>8, RouteRanks

\* Every route of an interface with a table belongs to a table of it.
LEMMA LinkedSomewhere ==
  ASSUME NEW shown \in Tabling, NEW routes \in Seq(Route),
         NEW r \in Range(routes), NEW t \in DOMAIN shown, shown[t].egress = r.iface
  PROVE  \E n \in DOMAIN shown : r \in Linked(n, shown, routes)
<1> DEFINE mine == RoutesBy(routes, r.iface)
           like == Like(t, shown)
           size == Cardinality(like)
           k == RankOf(r, mine)
<1>1. like \in SUBSET Nat /\ IsFiniteSet(like) /\ t \in like
  BY LikeFinite DEF Like
<1>2. mine \in SUBSET Route /\ IsFiniteSet(mine) /\ r \in mine
  BY RoutesByFinite DEF RoutesBy
<1>3. k \in Nat
  BY <1>2, RouteRanks
<1>4. \A n \in like : /\ n \in DOMAIN shown /\ Like(n, shown) = like
                      /\ RoutesBy(routes, shown[n].egress) = mine
  BY DEF Like
<1>5. /\ size \in Nat /\ RankIn(t, like) \in 0..(size - 1)
      /\ \A j \in 0..(size - 1) : \E n \in like : RankIn(n, like) = j
  BY <1>1, TableRanks
<1>6. \A n \in like :
        r \in Linked(n, shown, routes) <=>
          \/ k = RankIn(n, like)
          \/ RankIn(n, like) + 1 = size /\ k > RankIn(n, like)
  BY <1>2, <1>4, LinkedIs
<1> HIDE DEF mine, like, size, k
<1>7. CASE k \in 0..(size - 1)
  <2>1. PICK n \in like : RankIn(n, like) = k
    BY <1>5, <1>7
  <2>2. QED
    BY <1>4, <1>6, <2>1
<1>8. CASE k \notin 0..(size - 1)
  <2>1. size - 1 \in 0..(size - 1) /\ k > size - 1
    BY <1>3, <1>5, <1>8
  <2>2. PICK n \in like : RankIn(n, like) = size - 1
    BY <1>5, <2>1
  <2>3. QED
    BY <1>4, <1>5, <1>6, <2>1, <2>2
<1>9. QED
  BY <1>7, <1>8

\* What get_policy_tables returns.
AnyTable == [n : TableId, egress : Egresses, onlink : BOOLEAN, id : Egresses,
             desc : Egresses, linked : SUBSET Route]

\* Tables with numbers of their own, found by the interface of any route they link.
Wired(tables) ==
  /\ tables \subseteq AnyTable /\ IsFiniteSet(tables)
  /\ \A t, u \in tables : t.n = u.n => t = u
  /\ \A t \in tables : \A r \in t.linked : r.iface \in Names(t)

\* The tables are the auto tables shown and the entries under other numbers.
AutoTable(n, policies, shown, routes) ==
  [n |-> n, egress |-> shown[n].egress, onlink |-> shown[n].onlink,
   id |-> NamedBy(n, policies).id, desc |-> NamedBy(n, policies).desc,
   linked |-> Linked(n, shown, routes)]
PolicyTable(n, policies, routes) ==
  [n |-> n, egress |-> policies[n].egress, onlink |-> policies[n].onlink,
   id |-> policies[n].id, desc |-> policies[n].desc,
   linked |-> PolicyLinked(policies[n], routes)]

LEMMA TablesAre ==
  ASSUME NEW policies, NEW shown, NEW routes
  PROVE  /\ \A t \in Tables(policies, shown, routes) :
              \/ \E n \in DOMAIN shown : t = AutoTable(n, policies, shown, routes)
              \/ \E n \in DOMAIN policies \ DOMAIN shown : t = PolicyTable(n, policies, routes)
         /\ \A n \in DOMAIN shown :
              AutoTable(n, policies, shown, routes) \in Tables(policies, shown, routes)
         /\ \A n \in DOMAIN policies \ DOMAIN shown :
              PolicyTable(n, policies, routes) \in Tables(policies, shown, routes)
BY DEF Tables, AutoTables, PolicyEntries, AutoTable, PolicyTable

LEMMA NamedTypes ==
  ASSUME NEW policies \in Policing, NEW n
  PROVE  /\ NamedBy(n, policies).id \in Egresses /\ NamedBy(n, policies).desc \in Egresses
         /\ NamedBy(n, policies).id # NoIface =>
              n \in DOMAIN policies /\ NamedBy(n, policies).id = policies[n].id
         /\ NamedBy(n, policies).desc # NoIface =>
              n \in DOMAIN policies /\ NamedBy(n, policies).desc = policies[n].desc
         /\ n \in DOMAIN policies => NamedBy(n, policies).id = policies[n].id
<1>1. CASE n \in DOMAIN policies
  BY <1>1, PolicingTypes DEF NamedBy, Egresses
<1>2. CASE n \notin DOMAIN policies
  <2>1. NamedBy(n, policies) = [id |-> NoIface, desc |-> NoIface]
    BY <1>2 DEF NamedBy
  <2>2. QED
    BY <1>2, <2>1 DEF Egresses
<1>3. QED
  BY <1>1, <1>2

LEMMA AutoTableIs ==
  ASSUME NEW policies \in Policing, NEW shown \in Tabling, NEW routes \in Seq(Route),
         NEW n \in DOMAIN shown
  PROVE  LET t == AutoTable(n, policies, shown, routes)
         IN  /\ t.n = n /\ t.egress = shown[n].egress /\ t.onlink = shown[n].onlink
             /\ t.id = NamedBy(n, policies).id /\ t.desc = NamedBy(n, policies).desc
             /\ t.linked = Linked(n, shown, routes)
             /\ \A r \in t.linked : r \in Range(routes) /\ r.iface = t.egress
             /\ t \in AnyTable
<1> DEFINE t == AutoTable(n, policies, shown, routes)
<1>1. /\ t.n = n /\ t.egress = shown[n].egress /\ t.onlink = shown[n].onlink
      /\ t.id = NamedBy(n, policies).id /\ t.desc = NamedBy(n, policies).desc
      /\ t.linked = Linked(n, shown, routes)
  BY DEF AutoTable
<1>2. \A r \in Linked(n, shown, routes) :
        r \in Range(routes) /\ r.iface = shown[n].egress
  BY LinkedLeaves
<1>3. Linked(n, shown, routes) \in SUBSET Route
  BY <1>2, RangeFinite
<1>4. n \in TableId /\ shown[n].egress \in Egresses /\ shown[n].onlink \in BOOLEAN
  BY TablingTypes DEF Egresses
<1>5. t \in AnyTable
  BY <1>3, <1>4, NamedTypes DEF AnyTable, AutoTable
<1>6. QED
  BY <1>1, <1>2, <1>5

LEMMA PolicyTableIs ==
  ASSUME NEW policies \in Policing, NEW routes \in Seq(Route), NEW n \in DOMAIN policies
  PROVE  LET t == PolicyTable(n, policies, routes)
         IN  /\ t.n = n /\ t.egress = policies[n].egress /\ t.onlink = policies[n].onlink
             /\ t.id = policies[n].id /\ t.desc = policies[n].desc
             /\ Names(t) = Names(policies[n])
             /\ t.linked = PolicyLinked(policies[n], routes)
             /\ \A r \in t.linked : r \in Range(routes) /\ r.iface \in Names(t)
             /\ t \in AnyTable
<1> DEFINE t == PolicyTable(n, policies, routes)
           l == PolicyLinked(policies[n], routes)
<1>1. /\ t.n = n /\ t.egress = policies[n].egress /\ t.onlink = policies[n].onlink
      /\ t.id = policies[n].id /\ t.desc = policies[n].desc
      /\ t.linked = l
  BY DEF PolicyTable
<1>2. Names(t) = Names(policies[n])
  BY <1>1 DEF Names
<1>3. /\ l \in SUBSET Route
      /\ \A r \in l : r \in Range(routes) /\ r.iface \in Names(policies[n])
  BY RangeFinite, PolicyLinks
<1>4. /\ n \in TableId /\ policies[n].egress \in Egresses
      /\ policies[n].onlink \in BOOLEAN /\ policies[n].id \in Egresses
      /\ policies[n].desc \in Egresses
  BY PolicingTypes DEF Egresses
<1>5. t \in AnyTable
  BY <1>3, <1>4 DEF AnyTable, PolicyTable
<1>6. QED
  BY <1>1, <1>2, <1>3, <1>5

LEMMA TablesFinite ==
  ASSUME NEW policies \in Policing, NEW shown \in Tabling, NEW routes
  PROVE  IsFiniteSet(Tables(policies, shown, routes))
<1> DEFINE D == DOMAIN shown \cup (DOMAIN policies \ DOMAIN shown)
           f == [n \in D |-> IF n \in DOMAIN shown THEN AutoTable(n, policies, shown, routes)
                             ELSE PolicyTable(n, policies, routes)]
           tables == Tables(policies, shown, routes)
<1>1. D \in SUBSET TableId
  BY TablingTypes, PolicingTypes
<1>2. IsFiniteSet(D)
  BY <1>1, FS_Subset, FlowPathAssumption
<1>3. \A n \in D : f[n] \in tables
  BY TablesAre
<1>4. \A t \in tables : \E n \in D : f[n] = t
  <2>1. ASSUME NEW t \in tables
        PROVE  \E n \in D : f[n] = t
    <3>1. CASE \E n \in DOMAIN shown : t = AutoTable(n, policies, shown, routes)
      BY <3>1
    <3>2. CASE \E n \in DOMAIN policies \ DOMAIN shown : t = PolicyTable(n, policies, routes)
      BY <3>2
    <3>3. QED
      BY <2>1, <3>1, <3>2, TablesAre
  <2>2. QED
    BY <2>1
<1>5. f \in [D -> tables]
  BY <1>3
<1>6. f \in Surjection(D, tables)
  <2> HIDE DEF f, D, tables
  <2>1. QED
    BY <1>4, <1>5 DEF Surjection
<1>7. QED
  <2> HIDE DEF f, D, tables
  <2>1. IsFiniteSet(tables)
    BY <1>2, <1>6, FS_Surjection
  <2>2. QED
    BY <2>1 DEF tables

LEMMA TablesWired ==
  ASSUME NEW policies \in Policing, NEW shown \in Tabling, NEW routes \in Seq(Route)
  PROVE  Wired(Tables(policies, shown, routes))
<1> DEFINE tables == Tables(policies, shown, routes)
<1>1. ASSUME NEW t \in tables
      PROVE  /\ t \in AnyTable /\ \A r \in t.linked : r.iface \in Names(t)
             /\ \/ t.n \in DOMAIN shown /\ t = AutoTable(t.n, policies, shown, routes)
                \/ t.n \in DOMAIN policies \ DOMAIN shown /\ t = PolicyTable(t.n, policies, routes)
  <2>1. CASE \E n \in DOMAIN shown : t = AutoTable(n, policies, shown, routes)
    BY <2>1, AutoTableIs DEF Names
  <2>2. CASE \E n \in DOMAIN policies \ DOMAIN shown : t = PolicyTable(n, policies, routes)
    BY <2>2, PolicyTableIs
  <2>3. QED
    BY <1>1, <2>1, <2>2, TablesAre
<1>2. IsFiniteSet(tables)
  BY TablesFinite
<1> HIDE DEF tables
<1>3. \A t, u \in tables : t.n = u.n => t = u
  BY <1>1
<1>4. Wired(tables)
  BY <1>1, <1>2, <1>3 DEF Wired
<1>5. QED
  BY <1>4 DEF tables

ByNumber == {p \in AnyTable \X AnyTable : p[1].n < p[2].n}
OutBy(tables, i) == {t \in tables : t.egress = i}
Earlier(t, out) == {u \in out : u.n < t.n}

LEMMA OutByOrdered ==
  ASSUME NEW tables, Wired(tables), NEW i
  PROVE  LET out == OutBy(tables, i)
         IN  /\ IsFiniteSet(out) /\ Linear(out, ByNumber)
             /\ \A t \in out : Before(out, ByNumber, t) = Earlier(t, out)
<1> DEFINE out == OutBy(tables, i)
<1>1. out \in SUBSET tables /\ IsFiniteSet(out)
  <2>1. out \in SUBSET tables
    BY DEF OutBy
  <2>2. QED
    BY <2>1, FS_Subset DEF Wired
<1>2. \A t \in out : t \in AnyTable /\ t.n \in Nat
  BY <1>1, FlowPathAssumption DEF Wired, AnyTable
<1>3. \A t, u \in out : t.n = u.n => t = u
  BY <1>1 DEF Wired
<1> HIDE DEF out
<1>4. \A t, u \in out : <<t, u>> \in ByNumber <=> t.n < u.n
  BY <1>2 DEF ByNumber
<1>5. \A t, u, v \in out :
        /\ ~(t.n < t.n) /\ (t # u => t.n < u.n \/ u.n < t.n)
        /\ (t.n < u.n /\ u.n < v.n => t.n < v.n)
  BY <1>2, <1>3
<1>6. Linear(out, ByNumber)
  BY <1>4, <1>5 DEF Linear
<1>7. \A t \in out : Before(out, ByNumber, t) = Earlier(t, out)
  BY <1>4 DEF Before, Earlier
<1>8. QED
  BY <1>1, <1>6, <1>7 DEF out

\* Two tables at one place among those of an interface are one table, and every place
\* below their number is taken.
LEMMA PlacesOfTables ==
  ASSUME NEW tables, Wired(tables), NEW i
  PROVE  LET out == OutBy(tables, i)
         IN  /\ Cardinality(out) \in Nat
             /\ \A t \in out : Cardinality(Earlier(t, out)) \in 0..(Cardinality(out) - 1)
             /\ \A t, u \in out :
                  Cardinality(Earlier(t, out)) = Cardinality(Earlier(u, out)) => t = u
             /\ \A k \in 0..(Cardinality(out) - 1) :
                  \E t \in out : Cardinality(Earlier(t, out)) = k
<1> DEFINE out == OutBy(tables, i)
<1>1. /\ IsFiniteSet(out) /\ Linear(out, ByNumber)
      /\ \A t \in out : Before(out, ByNumber, t) = Earlier(t, out)
  BY OutByOrdered
<1> HIDE DEF out
<1>2. Cardinality(out) \in Nat
  BY <1>1, FS_CardinalityType
<1>3. ASSUME NEW t \in out
      PROVE  Cardinality(Earlier(t, out)) \in 0..(Cardinality(out) - 1)
  BY <1>1, Ranks
<1>4. ASSUME NEW t \in out, NEW u \in out,
             Cardinality(Earlier(t, out)) = Cardinality(Earlier(u, out))
      PROVE  t = u
  <2>1. SUFFICES ASSUME t # u
                 PROVE  FALSE
    OBVIOUS
  <2>2. <<t, u>> \in ByNumber \/ <<u, t>> \in ByNumber
    BY <1>1, <2>1 DEF Linear
  <2>3. \/ Cardinality(Before(out, ByNumber, t)) < Cardinality(Before(out, ByNumber, u))
        \/ Cardinality(Before(out, ByNumber, u)) < Cardinality(Before(out, ByNumber, t))
    BY <1>1, <2>2, Ranks
  <2>4. Cardinality(Earlier(t, out)) \in Int /\ Cardinality(Earlier(u, out)) \in Int
    BY <1>2, <1>3
  <2>5. QED
    BY <1>1, <1>4, <2>3, <2>4
<1>5. ASSUME NEW k \in 0..(Cardinality(out) - 1)
      PROVE  \E t \in out : Cardinality(Earlier(t, out)) = k
  <2>1. PICK t \in out : Cardinality(Before(out, ByNumber, t)) = k
    BY <1>1, RankTaken
  <2>2. QED
    BY <1>1, <2>1
<1>6. QED
  BY <1>2, <1>3, <1>4, <1>5 DEF out

\* The table of a link, in the words above.
Own(link, routes) ==
  LET mine == RoutesOut(routes, link.iface)
  IN  {RankOf(r, mine) : r \in {q \in mine : q.list = link.list}}
Placed(link, tables, routes) ==
  {t \in OutBy(tables, link.iface) :
     /\ Own(link, routes) # {}
     /\ Cardinality(Earlier(t, OutBy(tables, link.iface))) = Min(Own(link, routes))}

LEMMA TableOfIs ==
  ASSUME NEW link, NEW tables, NEW routes
  PROVE  LET exact == Exact(link, tables)
             placed == Placed(link, tables, routes)
             out == OutBy(tables, link.iface)
         IN  TableOf(link, tables, routes) =
               CASE Cardinality(exact) = 1 -> exact
                 [] Cardinality(exact) # 1 /\ placed # {} -> placed
                 [] Cardinality(exact) # 1 /\ placed = {} /\ Cardinality(out) = 1 -> out
                 [] OTHER -> Lowest(exact)
BY DEF TableOf, Own, Placed, OutBy, Earlier

LEMMA TableOfCases ==
  ASSUME NEW link, NEW tables, NEW routes
  PROVE  LET exact == Exact(link, tables)
             placed == Placed(link, tables, routes)
             out == OutBy(tables, link.iface)
             found == TableOf(link, tables, routes)
         IN  \/ Cardinality(exact) = 1 /\ found = exact
             \/ Cardinality(exact) # 1 /\ placed # {} /\ found = placed
             \/ placed = {} /\ Cardinality(out) = 1 /\ found = out
             \/ placed = {} /\ Cardinality(out) # 1 /\ found = Lowest(exact)
<1> DEFINE exact == Exact(link, tables)
           placed == Placed(link, tables, routes)
           out == OutBy(tables, link.iface)
           found == TableOf(link, tables, routes)
<1>1. found = CASE Cardinality(exact) = 1 -> exact
                [] Cardinality(exact) # 1 /\ placed # {} -> placed
                [] Cardinality(exact) # 1 /\ placed = {} /\ Cardinality(out) = 1 -> out
                [] OTHER -> Lowest(exact)
  BY TableOfIs
<1> HIDE DEF exact, placed, out, found
<1>2. QED
  BY <1>1 DEF exact, placed, out, found

LEMMA SingleSet ==
  ASSUME NEW S, IsFiniteSet(S), Cardinality(S) = 1
  PROVE  \E x : S = {x}
BY FS_Singleton

\* A link has at most one table, and that is found by its interface.
LEMMA TableOfLeaves ==
  ASSUME NEW link, NEW tables, Wired(tables), NEW routes
  PROVE  /\ \A t \in TableOf(link, tables, routes) : t \in tables /\ link.iface \in Names(t)
         /\ \A t, u \in TableOf(link, tables, routes) : t = u
<1> DEFINE exact == Exact(link, tables)
           placed == Placed(link, tables, routes)
           out == OutBy(tables, link.iface)
           found == TableOf(link, tables, routes)
<1>1. /\ exact \in SUBSET tables /\ IsFiniteSet(exact)
      /\ \A t \in exact : link.iface \in Names(t)
  <2>1. exact \in SUBSET tables
    BY DEF Exact
  <2>2. IsFiniteSet(exact)
    BY <2>1, FS_Subset DEF Wired
  <2>3. \A t \in exact : link.iface \in Names(t)
    BY <2>1 DEF Exact, Wired
  <2>4. QED
    BY <2>1, <2>2, <2>3
<1>2. out \in SUBSET tables /\ \A t \in out : link.iface \in Names(t)
  BY DEF OutBy, Names
<1>3. placed \in SUBSET out /\ \A t, u \in placed : t = u
  <2>1. placed \in SUBSET out
    BY DEF Placed
  <2>2. ASSUME NEW t \in placed, NEW u \in placed
        PROVE  t = u
    <3>1. /\ t \in out /\ u \in out
          /\ Cardinality(Earlier(t, out)) = Cardinality(Earlier(u, out))
      BY DEF Placed
    <3>2. QED
      BY <3>1, PlacesOfTables
  <2>3. QED
    BY <2>1, <2>2
<1>4. Lowest(exact) \in SUBSET exact /\ \A t, u \in Lowest(exact) : t = u
  <2>1. Lowest(exact) \in SUBSET exact
    BY DEF Lowest
  <2>2. ASSUME NEW t \in Lowest(exact), NEW u \in Lowest(exact)
        PROVE  t = u
    <3>1. t \in tables /\ u \in tables /\ t.n <= u.n /\ u.n <= t.n
      BY <1>1, <2>1 DEF Lowest
    <3>2. t.n \in Nat /\ u.n \in Nat
      BY <3>1, FlowPathAssumption DEF Wired, AnyTable
    <3>3. t.n = u.n
      BY <3>1, <3>2
    <3>4. QED
      BY <3>1, <3>3 DEF Wired
  <2>3. QED
    BY <2>1, <2>2
<1>5. IsFiniteSet(out)
  BY OutByOrdered
<1>6. \/ Cardinality(exact) = 1 /\ found = exact
      \/ Cardinality(exact) # 1 /\ placed # {} /\ found = placed
      \/ placed = {} /\ Cardinality(out) = 1 /\ found = out
      \/ placed = {} /\ Cardinality(out) # 1 /\ found = Lowest(exact)
  BY TableOfCases
<1> HIDE DEF exact, placed, out, found
<1>7. (\A t \in found : t \in tables /\ link.iface \in Names(t)) /\ \A t, u \in found : t = u
  <2>1. CASE Cardinality(exact) = 1 /\ found = exact
    BY <1>1, <2>1, SingleSet
  <2>2. CASE placed # {} /\ found = placed
    BY <1>2, <1>3, <2>2
  <2>3. CASE Cardinality(out) = 1 /\ found = out
    BY <1>2, <1>5, <2>3, SingleSet
  <2>4. CASE found = Lowest(exact)
    BY <1>1, <1>4, <2>4
  <2>5. QED
    BY <1>6, <2>1, <2>2, <2>3, <2>4
<1>8. QED
  BY <1>7 DEF found

\* The matches: the table of a link that no earlier link has.
LEMMA MatchesAre ==
  ASSUME NEW links, NEW tables, NEW routes
  PROVE  \A m : m \in Matches(links, tables, routes) <=>
           \E i \in DOMAIN links : \E t \in TableOf(links[i], tables, routes) :
             /\ \A j \in 1..(i - 1) : \A u \in TableOf(links[j], tables, routes) : u.n # t.n
             /\ m = [link |-> links[i], table |-> t]
BY DEF Matches

\* Matches of links with tables, found by the link, and no table has two of them.
Paired(matches, links, tables) ==
  /\ \A m \in matches : /\ \E i \in DOMAIN links : m.link = links[i]
                        /\ m.table \in tables /\ m.link.iface \in Names(m.table)
                        /\ m = [link |-> m.link, table |-> m.table]
  /\ \A m, o \in matches : m.table.n = o.table.n => m = o

LEMMA MatchesPaired ==
  ASSUME NEW links \in Seq(Route), NEW tables, Wired(tables), NEW routes
  PROVE  Paired(Matches(links, tables, routes), links, tables)
<1> DEFINE matches == Matches(links, tables, routes)
           Found(i) == TableOf(links[i], tables, routes)
           At2(m, i, t) == /\ \A j \in 1..(i - 1) : \A u \in Found(j) : u.n # t.n
                           /\ m = [link |-> links[i], table |-> t]
<1>1. \A m \in matches : \E i \in DOMAIN links : \E t \in Found(i) : At2(m, i, t)
  BY MatchesAre
<1>2. \A i : (\A t \in Found(i) : t \in tables /\ links[i].iface \in Names(t))
             /\ \A t, u \in Found(i) : t = u
  BY TableOfLeaves
<1>3. DOMAIN links \subseteq Nat /\ DOMAIN links = 1..Len(links) /\ Len(links) \in Nat
  BY LenProperties
<1> HIDE DEF matches, Found
<1>4. ASSUME NEW m \in matches
      PROVE  /\ \E i \in DOMAIN links : m.link = links[i]
             /\ m.table \in tables /\ m.link.iface \in Names(m.table)
             /\ m = [link |-> m.link, table |-> m.table]
  BY <1>1, <1>2
<1>5. ASSUME NEW m \in matches, NEW o \in matches, m.table.n = o.table.n
      PROVE  m = o
  <2>a. PICK i \in DOMAIN links : \E t \in Found(i) : At2(m, i, t)
    BY <1>1
  <2>1. PICK t \in Found(i) : At2(m, i, t)
    BY <2>a
  <2>b. PICK j \in DOMAIN links : \E u \in Found(j) : At2(o, j, u)
    BY <1>1
  <2>2. PICK u \in Found(j) : At2(o, j, u)
    BY <2>b
  <2>3. t.n = u.n /\ t \in tables /\ u \in tables
    BY <1>2, <1>5, <2>1, <2>2
  <2>4. ~(i < j) /\ ~(j < i)
    <3>1. i \in Nat /\ j \in Nat /\ i >= 1 /\ j >= 1
      BY <1>3
    <3>2. i < j => i \in 1..(j - 1)
      BY <3>1
    <3>3. j < i => j \in 1..(i - 1)
      BY <3>1
    <3>4. QED
      BY <2>1, <2>2, <2>3, <3>2, <3>3
  <2>5. i = j
    BY <1>3, <2>4
  <2>6. QED
    BY <1>2, <2>1, <2>2, <2>5
<1>6. Paired(matches, links, tables)
  BY <1>4, <1>5 DEF Paired
<1>7. QED
  BY <1>6 DEF matches

LEMMA HintPaired ==
  ASSUME NEW links \in Seq(Route), NEW tables, Wired(tables), NEW auto,
         NEW matches \in Hints(links, tables, auto)
  PROVE  Paired(matches, links, tables)
<1> DEFINE of == {t \in tables : \/ t.id = links[1].iface
                                 \/ \E r \in t.linked : r.iface = links[1].iface}
           first == {t \in of : t.n \in auto}
<1>1. \/ matches = {}
      \/ links # <<>> /\ \E t \in of : matches = {[link |-> links[1], table |-> t]}
  BY DEF Hints
<1>2. CASE matches = {}
  BY <1>2 DEF Paired
<1>3. CASE links # <<>> /\ \E t \in of : matches = {[link |-> links[1], table |-> t]}
  <2>1. 1 \in DOMAIN links
    BY <1>3, EmptySeq, LenProperties
  <2>2. PICK t \in of : matches = {[link |-> links[1], table |-> t]}
    BY <1>3
  <2>3. t \in tables /\ links[1].iface \in Names(t)
    BY DEF Wired, Names
  <2> HIDE DEF of
  <2>4. QED
    BY <2>1, <2>2, <2>3 DEF Paired
<1>4. QED
  BY <1>1, <1>2, <1>3

-----------------------------------------------------------------------------
(* The links of a destination. *)

\* links are the routes at the places used, in the order given.
Lined(links, used, routes, order) ==
  /\ links \in Seq(Route)
  /\ Len(links) = Cardinality(used)
  /\ \A k \in DOMAIN links : \E i \in used :
       links[k] = routes[i] /\ Cardinality(Before(used, order, i)) = k - 1
  /\ \A i \in used : \E k \in DOMAIN links : links[k] = routes[i]

LEMMA InOrderIs ==
  ASSUME NEW routes \in Seq(Route), NEW used \in SUBSET DOMAIN routes, NEW order,
         Linear(used, order)
  PROVE  Lined(InOrder(used, routes, order), used, routes, order)
<1> DEFINE size == Cardinality(used)
           rank(i) == Cardinality(Before(used, order, i))
           choice(k) == CHOOSE i \in used : rank(i) = k - 1
           links == [k \in 1..size |-> routes[choice(k)]]
<1>1. IsFiniteSet(used) /\ size \in Nat
  BY RangeFinite, FS_Subset, FS_CardinalityType
<1>2. InOrder(used, routes, order) = links
  BY DEF InOrder, Before
<1>3. ASSUME NEW k \in 1..size
      PROVE  choice(k) \in used /\ rank(choice(k)) = k - 1
  <2>1. k - 1 \in 0..(size - 1)
    BY <1>1
  <2>2. \E i \in used : rank(i) = k - 1
    BY <1>1, <2>1, RankTaken
  <2>3. QED
    BY <2>2
<1>4. ASSUME NEW i \in used, NEW j \in used, rank(i) = rank(j)
      PROVE  i = j
  <2>1. SUFFICES ASSUME i # j
                 PROVE  FALSE
    OBVIOUS
  <2>2. <<i, j>> \in order \/ <<j, i>> \in order
    BY <2>1 DEF Linear
  <2>3. rank(i) < rank(j) \/ rank(j) < rank(i)
    BY <1>1, <2>2, Ranks
  <2>4. rank(i) \in Int
    BY <1>1, Ranks
  <2>5. QED
    BY <1>4, <2>3, <2>4
<1>5. ASSUME NEW i \in used
      PROVE  rank(i) + 1 \in 1..size /\ choice(rank(i) + 1) = i
  <2>1. rank(i) \in 0..(size - 1)
    BY <1>1, Ranks
  <2>2. rank(i) + 1 \in 1..size /\ (rank(i) + 1) - 1 = rank(i)
    BY <1>1, <2>1
  <2>3. choice(rank(i) + 1) \in used /\ rank(choice(rank(i) + 1)) = rank(i)
    BY <1>3, <2>2
  <2>4. QED
    BY <1>4, <2>2, <2>3
<1> HIDE DEF choice, rank, size
<1>6. \A i \in used : routes[i] \in Route
  BY ElementOfSeq, LenProperties
<1>7. links \in Seq(Route) /\ Len(links) = size /\ DOMAIN links = 1..size
  <2>1. \A k \in 1..size : routes[choice(k)] \in Route
    BY <1>3, <1>6
  <2>2. links \in [1..size -> Route]
    BY <2>1
  <2>3. QED
    BY <1>1, <2>2, LenProperties
<1>8. \A k \in 1..size : links[k] = routes[choice(k)]
  OBVIOUS
<1> HIDE DEF links
<1>9. Lined(links, used, routes, order)
  BY <1>3, <1>5, <1>7, <1>8 DEF Lined, rank, size
<1>10. QED
  BY <1>2, <1>9

LEMMA PlacesAreLinear ==
  ASSUME NEW routes \in Seq(Route), NEW used \in SUBSET DOMAIN routes
  PROVE  Linear(used, ByPlace(routes)) /\ Linear(used, ByList(routes))
<1>1. ASSUME NEW i \in used
      PROVE  i \in Nat /\ i \in DOMAIN routes /\ routes[i].list \in Nat
  <2>1. i \in DOMAIN routes /\ i \in Nat
    BY RangeFinite
  <2>2. routes[i] \in Range(routes)
    BY <2>1 DEF Range
  <2>3. QED
    BY <2>1, <2>2, RouteTypes
<1> DEFINE l(i) == routes[i].list
           follows(i, j) == l(i) < l(j) \/ (l(i) = l(j) /\ i < j)
<1>2. \A i, j \in used : <<i, j>> \in ByPlace(routes) <=> i < j
  BY <1>1 DEF ByPlace
<1>3. \A i, j \in used : <<i, j>> \in ByList(routes) <=> follows(i, j)
  BY <1>1 DEF ByList
<1>4. \A i \in used : i \in Nat /\ l(i) \in Nat
  BY <1>1
<1>5. \A x, y, z \in used : ~(x < x) /\ (x # y => x < y \/ y < x) /\ (x < y /\ y < z => x < z)
  BY <1>4
<1>6. Linear(used, ByPlace(routes))
  BY <1>2, <1>5 DEF Linear
<1> HIDE DEF l
<1>7. ASSUME NEW x \in used, NEW y \in used, NEW z \in used
      PROVE  /\ ~follows(x, x)
             /\ x # y => follows(x, y) \/ follows(y, x)
             /\ follows(x, y) /\ follows(y, z) => follows(x, z)
  <2>1. /\ x \in Nat /\ y \in Nat /\ z \in Nat
        /\ l(x) \in Nat /\ l(y) \in Nat /\ l(z) \in Nat
    BY <1>4
  <2>2. QED
    BY <2>1
<1> HIDE DEF follows
<1>8. Linear(used, ByList(routes))
  BY <1>3, <1>7 DEF Linear
<1>9. QED
  BY <1>6, <1>8

\* Links and Primary show the enabled routes of the lists hit, each at its place.
LEMMA LinksAre ==
  ASSUME NEW hits, NEW routes \in Seq(Route)
  PROVE  /\ Lined(Links(hits, routes), Used(hits, routes), routes, ByList(routes))
         /\ Lined(Primary(hits, routes), Used(hits, routes), routes, ByPlace(routes))
<1>1. Used(hits, routes) \in SUBSET DOMAIN routes
  BY DEF Used
<1>2. QED
  BY <1>1, PlacesAreLinear, InOrderIs DEF Links, Primary

\* The first link is an enabled route of a list hit; there is none only if there is no
\* such route.
LEMMA FirstLink ==
  ASSUME NEW hits, NEW routes \in Seq(Route), NEW order, NEW links,
         Lined(links, Used(hits, routes), routes, order)
  PROVE  /\ links = <<>> <=> Used(hits, routes) = {}
         /\ links # <<>> => /\ 1 \in DOMAIN links
                            /\ \E i \in Used(hits, routes) :
                                 /\ links[1] = routes[i]
                                 /\ \A j \in Used(hits, routes) : <<j, i>> \notin order
         /\ \A k \in DOMAIN links : links[k] \in Range(routes) /\ links[k].on
                                    /\ links[k].list \in hits
<1> DEFINE used == Used(hits, routes)
<1>1. used \in SUBSET DOMAIN routes /\ IsFiniteSet(used)
  <2>1. used \in SUBSET DOMAIN routes
    BY DEF Used
  <2>2. QED
    BY <2>1, RangeFinite, FS_Subset
<1>2. links \in Seq(Route) /\ DOMAIN links = 1..Len(links) /\ Len(links) = Cardinality(used)
  BY LenProperties DEF Lined
<1>3. links = <<>> <=> used = {}
  <2>1. links = <<>> <=> Len(links) = 0
    BY <1>2, EmptySeq, LenProperties
  <2>2. QED
    BY <1>1, <1>2, <2>1, FS_EmptySet
<1>4. ASSUME links # <<>>
      PROVE  /\ 1 \in DOMAIN links
             /\ \E i \in used : links[1] = routes[i] /\ \A j \in used : <<j, i>> \notin order
  <2>1. 1 \in DOMAIN links
    BY <1>2, <1>4, EmptySeq, LenProperties
  <2>2. PICK i \in used : links[1] = routes[i] /\ Cardinality(Before(used, order, i)) = 1 - 1
    BY <2>1 DEF Lined
  <2>3. Before(used, order, i) \in SUBSET used
    BY DEF Before
  <2>4. IsFiniteSet(Before(used, order, i))
    BY <1>1, <2>3, FS_Subset
  <2>5. Before(used, order, i) = {}
    BY <2>2, <2>4, FS_EmptySet
  <2>6. QED
    BY <2>1, <2>2, <2>5 DEF Before
<1>5. ASSUME NEW k \in DOMAIN links
      PROVE  links[k] \in Range(routes) /\ links[k].on /\ links[k].list \in hits
  <2>1. PICK i \in used : links[k] = routes[i]
    BY DEF Lined
  <2>2. QED
    BY <2>1 DEF Range, Used
<1>6. QED
  BY <1>3, <1>4, <1>5

-----------------------------------------------------------------------------
(* The invariant. *)

Request ==
  {"resolve", "lists", "routes", "fib", "ifaces", "lookup", "policies", "rule", "shown",
   "linked", "live", "poll", "peers", "runtime"}

Job ==
  [op : Ops, host : BOOLEAN, list : ListId, left : Nat, only : BOOLEAN,
   limit : Nat \ {0}, todo : Seq(Request), hits : SUBSET ListId, routes : Seq(Route), links : Seq(Route),
   fib : Seq([len : Nat, iface : Iface]), policies : Policing, shown : Tabling,
   unread : SUBSET TableId, tables : SUBSET AnyTable,
   matches : SUBSET [link : Route, table : AnyTable],
   sessions : Partial(Key, Session), live : SUBSET PathClass,
   allow : Cover \cup {Unknown}, online : Online \cup {Unknown}, age : Age \cup {Unknown},
   asleep : BOOLEAN]

\* The requests of a call are made in the order of these stages.
Stages ==
  [resolve |-> 0, lists |-> 2, routes |-> 3, fib |-> 4, ifaces |-> 5, lookup |-> 5,
   policies |-> 6, rule |-> 7, shown |-> 8, linked |-> 9, live |-> 10, poll |-> 11,
   peers |-> 12, runtime |-> 13]
Stage(op, p) ==
  IF op = "diagnose" /\ p = "routes" THEN 1
  ELSE IF op = "route" /\ p = "fib" THEN 14 ELSE Stages[p]

Sorted(op, s) == \A i, j \in DOMAIN s : i < j => Stage(op, s[i]) < Stage(op, s[j])
Open(c, p) == p \in Range(c.todo)

\* The tools that read the whole path, and those that read the tables for certain.
Path == {"explain", "verify"}
Full == Path \cup {"diagnose"}

\* Which requests are still to come when another one is.
InTurn(c) ==
  /\ Sorted(c.op, c.todo)
  /\ Open(c, "policies") => Open(c, "rule")
  /\ Open(c, "rule") => Open(c, "shown")
  /\ Open(c, "shown") => Open(c, "linked")
  /\ Open(c, "routes") => Open(c, "linked")
  /\ c.op \in Path /\ Open(c, "lists") => Open(c, "routes")
  /\ c.op = "verify" /\ Open(c, "routes") => Open(c, "poll")
  /\ c.op = "verify" /\ Open(c, "poll") => Open(c, "peers")
  /\ Open(c, "peers") => Open(c, "runtime")
  /\ Open(c, "runtime") => c.op = "verify"
  /\ Open(c, "poll") => c.op \in {"verify", "conntrack"}

\* What a call may have been shown by the routers in P, F: a request failed.
SeenLists(r, F) == {ListsOf(r)} \cup IF F THEN {r.saved.lists} ELSE {}
SeenRoutes(r, F) == {RoutesOf(r)} \cup IF F THEN {r.saved.routes, <<>>} ELSE {}
HitsSeen(c, P, F) ==
  c.op \in Path /\ ~Open(c, "lists") =>
    \E r \in P : \E L \in SeenLists(r, F) : c.hits = Hits(L, Hitting(c.host))

RoutesSeen(c, P, F) ==
  /\ c.routes = <<>> \/ \E r \in P : c.routes \in SeenRoutes(r, F)
  /\ c.op \in Full /\ ~Open(c, "routes") => \E r \in P : c.routes \in SeenRoutes(r, F)
  /\ c.op \in Path /\ ~Open(c, "routes") => c.links = Links(c.hits, c.routes)

FibSeen(c, P) == c.op \in Path /\ ~Open(c, "fib") => \E r \in P : c.fib = r.fib

PoliciesSeen(c, P, F) ==
  /\ \A n \in DOMAIN c.policies :
       \E r \in P : n \in DOMAIN r.policies /\ c.policies[n] = r.policies[n]
  /\ c.op \in Full /\ ~F /\ ~Open(c, "policies") => \E r \in P : c.policies = r.policies

TableSeen(r, n) == IF n \in DOMAIN r.shown THEN r.shown[n] ELSE NoDefault

ShownSeen(c, P, F) ==
  /\ \A n \in DOMAIN c.shown :
       \/ c.shown[n] = NoDefault
       \/ \E r \in P : n \in DOMAIN r.shown /\ c.shown[n] = r.shown[n]
  /\ ~F => \A n \in DOMAIN c.shown : \E r \in P : c.shown[n] = TableSeen(r, n)
  /\ c.op \in Full /\ ~F /\ ~Open(c, "rule") =>
       \E r \in P : DOMAIN c.shown \cup c.unread = DOMAIN r.shown
  /\ Open(c, "rule") => c.shown = <<>> /\ c.unread = {}
  /\ ~Open(c, "rule") /\ Open(c, "shown") => c.unread # {}
  /\ ~Open(c, "shown") => c.unread = {}

LinkedSeen(c, P, F) ==
  \/ /\ c.tables = {} /\ c.matches = {}
     /\ c.op \in Full => Open(c, "linked")
  \/ /\ ~Open(c, "linked")
     /\ \E r \in P : \E R \in SeenRoutes(r, F) : c.tables = Tables(c.policies, c.shown, R)
     /\ c.matches \in MatchesOf(c, c.tables)

SessionOf(s) == [sent |-> s.sent, got |-> s.got, unreplied |-> Unreplied(s)]
SessionsOf(nat) ==
  {[k \in S |-> SessionOf(nat[k])] : S \in Some(DOMAIN nat, PollLimit)}

\* What the polls Q of get_conntrack showed of session k, and that f is their aggregate.
Taken(Q, only, k) ==
  {nat[k] : nat \in {n \in Q : k \in DOMAIN n /\ (only => Unreplied(n[k]))}}
Largest(m, S) == m \in S /\ \A n \in S : n <= m
Kept(f, only, Q) ==
  \A k \in Key :
    /\ k \in DOMAIN f <=> Taken(Q, only, k) # {}
    /\ k \in DOMAIN f =>
         /\ Largest(f[k].sent, {s.sent : s \in Taken(Q, only, k)})
         /\ Largest(f[k].got, {s.got : s \in Taken(Q, only, k)})
         /\ f[k].unreplied <=> \E s \in Taken(Q, only, k) : Unreplied(s)

SessionsSeen(c, P, F, Q) ==
  /\ c.op = "verify" =>
       /\ ~c.only
       /\ c.sessions = <<>> \/ \E r \in P : c.sessions \in SessionsOf(r.nat)
  /\ c.op = "verify" /\ ~F /\ ~Open(c, "poll") => \E r \in P : c.sessions \in SessionsOf(r.nat)
  /\ c.op = "conntrack" => Kept(c.sessions, c.only, Q)

PeerSeen(c, P, F) ==
  /\ c.allow = Unknown \/ \E r \in P : c.allow = r.allow
  /\ \/ c.online = Unknown /\ c.age = Unknown
     \/ \E r \in P : c.online = r.online /\ c.age = r.age
  /\ c.op = "verify" /\ ~F /\ Egress(c) \in Tunnel =>
       /\ ~Open(c, "peers") => c.allow # Unknown
       /\ ~Open(c, "runtime") => c.online # Unknown
  /\ c.op = "verify" /\ ~Open(c, "poll") /\ (Open(c, "runtime") \/ c.online # Unknown) =>
       Egress(c) \in Tunnel
  /\ Open(c, "runtime") => c.online = Unknown

Seen(c, P, F, Q) ==
  /\ HitsSeen(c, P, F) /\ RoutesSeen(c, P, F) /\ FibSeen(c, P)
  /\ PoliciesSeen(c, P, F) /\ ShownSeen(c, P, F) /\ LinkedSeen(c, P, F)
  /\ SessionsSeen(c, P, F, Q) /\ PeerSeen(c, P, F)

GoodRouter == {r \in Router : Identified(r.routes) /\ Identified(r.saved.routes)}

\* A call in good order: what it knows was shown to it by the routers P and polls Q.
Sound(c, P, F, Q) == c \in Job /\ InTurn(c) /\ Seen(c, P, F, Q)

Underway == Running => Sound(call, past, failed, polled) /\ rt \in past /\ answer = None

\* An answer is an error, or the report of a call that went through.
Told(a, P, F, Q) ==
  \/ a = [op |-> "raised"]
  \/ a.op = "unresolved" /\ a # None
  \/ \E c \in Job : \E S \in Some(DOMAIN c.sessions, c.limit) :
       Sound(c, P, F, Q) /\ c.todo = <<>> /\ a = Report(c, S)
Closed == ~Running /\ answer # None => Told(answer, past, failed, polled)

World ==
  /\ rt \in GoodRouter /\ past \subseteq GoodRouter /\ IsFiniteSet(past)
  /\ polled \subseteq Partial(Key, Counters)
  /\ changes \in Nat /\ failed \in BOOLEAN
  /\ ~Running /\ answer = None => past = {} /\ polled = {} /\ failed = FALSE

CallInv == World /\ Underway /\ Closed

-----------------------------------------------------------------------------
(* The requests of a call. *)

StagesOf(op, s) == {Stage(op, p) : p \in Range(s)}

LEMMA StageTypes ==
  ASSUME NEW op, NEW p \in Request
  PROVE  /\ Stage(op, p) \in Nat
         /\ p = "resolve" => Stage(op, p) = 0
         /\ p = "lists" => Stage(op, p) = 2
         /\ p = "routes" => Stage(op, p) = IF op = "diagnose" THEN 1 ELSE 3
         /\ p = "fib" => Stage(op, p) = IF op = "route" THEN 14 ELSE 4
         /\ p \in {"ifaces", "lookup"} => Stage(op, p) = 5
         /\ p = "policies" <=> Stage(op, p) = 6
         /\ p = "rule" <=> Stage(op, p) = 7
         /\ p = "shown" <=> Stage(op, p) = 8
         /\ p = "linked" <=> Stage(op, p) = 9
         /\ p = "live" <=> Stage(op, p) = 10
         /\ p = "poll" <=> Stage(op, p) = 11
         /\ p = "peers" <=> Stage(op, p) = 12
         /\ p = "runtime" <=> Stage(op, p) = 13
BY DEF Request, Stage, Stages

\* The requests after the first one.
LEMMA TailTurn ==
  ASSUME NEW op, NEW s \in Seq(Request), s # <<>>, Sorted(op, s)
  PROVE  /\ Tail(s) \in Seq(Request) /\ Sorted(op, Tail(s))
         /\ s[1] \in Range(s) /\ s[1] \in Request
         /\ Range(Tail(s)) = Range(s) \ {s[1]}
         /\ \A p \in Range(s) : p \in Request /\ (p = s[1] \/ Stage(op, s[1]) < Stage(op, p))
<1>1. /\ Len(s) \in Nat \ {0} /\ DOMAIN s = 1..Len(s)
      /\ \A i \in 1..Len(s) : s[i] \in Request
  BY EmptySeq, LenProperties, ElementOfSeq
<1>2. /\ Tail(s) \in Seq(Request) /\ Len(Tail(s)) = Len(s) - 1
      /\ \A i \in 1..(Len(s) - 1) : Tail(s)[i] = s[i + 1]
  BY HeadTailProperties
<1>3. DOMAIN Tail(s) = 1..(Len(s) - 1)
  BY <1>2, LenProperties
<1>4. 1 \in DOMAIN s /\ s[1] \in Range(s) /\ s[1] \in Request
  BY <1>1 DEF Range
<1>5. ASSUME NEW i \in DOMAIN s, i # 1
      PROVE  i - 1 \in DOMAIN Tail(s) /\ Tail(s)[i - 1] = s[i] /\ Stage(op, s[1]) < Stage(op, s[i])
  <2>1. i \in Nat /\ 1 < i /\ i - 1 \in 1..(Len(s) - 1) /\ (i - 1) + 1 = i
    BY <1>1, <1>5
  <2>2. QED
    BY <1>2, <1>3, <1>4, <2>1 DEF Sorted
<1>6. ASSUME NEW i \in DOMAIN Tail(s)
      PROVE  i + 1 \in DOMAIN s /\ i + 1 # 1 /\ Tail(s)[i] = s[i + 1]
  BY <1>1, <1>2, <1>3
<1>7. Sorted(op, Tail(s))
  <2>1. ASSUME NEW i \in DOMAIN Tail(s), NEW j \in DOMAIN Tail(s), i < j
        PROVE  Stage(op, Tail(s)[i]) < Stage(op, Tail(s)[j])
    <3>1. i + 1 < j + 1
      BY <1>1, <1>3, <2>1
    <3>2. QED
      BY <1>6, <3>1 DEF Sorted
  <2>2. QED
    BY <2>1 DEF Sorted
<1>8. \A p \in Range(s) : p \in Request /\ (p = s[1] \/ Stage(op, s[1]) < Stage(op, p))
  <2>1. ASSUME NEW p \in Range(s)
        PROVE  p \in Request /\ (p = s[1] \/ Stage(op, s[1]) < Stage(op, p))
    <3>1. PICK i \in DOMAIN s : s[i] = p
      BY DEF Range
    <3>2. CASE i = 1
      BY <1>4, <3>1, <3>2
    <3>3. CASE i # 1
      BY <1>1, <1>5, <3>1, <3>3
    <3>4. QED
      BY <3>2, <3>3
  <2>2. QED
    BY <2>1
<1>9. Range(Tail(s)) \subseteq Range(s) \ {s[1]}
  <2>1. ASSUME NEW i \in DOMAIN Tail(s)
        PROVE  Tail(s)[i] \in Range(s) \ {s[1]}
    <3>1. Tail(s)[i] = s[i + 1] /\ i + 1 \in DOMAIN s /\ i + 1 # 1
      BY <1>6
    <3>2. Stage(op, s[1]) < Stage(op, s[i + 1])
      BY <1>5, <3>1
    <3>3. Stage(op, s[1]) \in Nat
      BY <1>4, StageTypes
    <3>4. s[i + 1] # s[1]
      BY <3>2, <3>3
    <3>5. QED
      BY <3>1, <3>4 DEF Range
  <2>2. QED
    BY <2>1 DEF Range
<1>10. Range(s) \ {s[1]} \subseteq Range(Tail(s))
  <2>1. ASSUME NEW p \in Range(s) \ {s[1]}
        PROVE  p \in Range(Tail(s))
    <3>1. PICK i \in DOMAIN s : s[i] = p
      BY DEF Range
    <3>2. i - 1 \in DOMAIN Tail(s) /\ Tail(s)[i - 1] = p
      BY <1>5, <2>1, <3>1
    <3>3. QED
      BY <3>2 DEF Range
  <2>2. QED
    BY <2>1
<1>11. QED
  BY <1>2, <1>4, <1>7, <1>8, <1>9, <1>10

\* What a call has still to ask, after it has made or skipped the requests in S.
Advanced(c, d, S) ==
  /\ d.op = c.op /\ d.todo \in Seq(Request) /\ Sorted(d.op, d.todo)
  /\ \A p \in Request : Open(d, p) <=> Open(c, p) /\ p \notin S

\* The requests in S are the first ones, by stage.
Foremost(c, S) ==
  \A p, q \in Request : p \in S /\ Open(c, q) /\ q \notin S => Stage(c.op, p) < Stage(c.op, q)

LEMMA AdvancedInTurn ==
  ASSUME NEW c, NEW d, NEW S \in SUBSET Request, InTurn(c), Advanced(c, d, S), Foremost(c, S)
  PROVE  InTurn(d)
<1>1. ASSUME NEW p \in Request, NEW q \in Request, Stage(c.op, p) < Stage(c.op, q),
             Open(c, p) => Open(c, q), Open(d, p)
      PROVE  Open(d, q)
  <2>1. Open(c, p) /\ p \notin S /\ Open(c, q)
    BY <1>1 DEF Advanced
  <2>2. SUFFICES q \notin S
    BY <2>1 DEF Advanced
  <2>3. SUFFICES ASSUME q \in S
                 PROVE  FALSE
    OBVIOUS
  <2>4. Stage(c.op, q) < Stage(c.op, p)
    BY <2>1, <2>3 DEF Foremost
  <2>5. Stage(c.op, p) \in Nat /\ Stage(c.op, q) \in Nat
    BY StageTypes
  <2>6. QED
    BY <1>1, <2>4, <2>5
<1>2. /\ Stage(c.op, "policies") < Stage(c.op, "rule")
      /\ Stage(c.op, "rule") < Stage(c.op, "shown")
      /\ Stage(c.op, "shown") < Stage(c.op, "linked")
      /\ Stage(c.op, "routes") < Stage(c.op, "linked")
      /\ Stage(c.op, "routes") < Stage(c.op, "poll")
      /\ Stage(c.op, "poll") < Stage(c.op, "peers")
      /\ Stage(c.op, "peers") < Stage(c.op, "runtime")
  BY DEF Stage, Stages
<1>3. /\ "policies" \in Request /\ "rule" \in Request /\ "shown" \in Request
      /\ "linked" \in Request /\ "routes" \in Request /\ "poll" \in Request
      /\ "peers" \in Request /\ "runtime" \in Request
  BY DEF Request
<1>4. Open(d, "policies") => Open(d, "rule")
  BY <1>1, <1>2, <1>3 DEF InTurn
<1>5. Open(d, "rule") => Open(d, "shown")
  BY <1>1, <1>2, <1>3 DEF InTurn
<1>6. Open(d, "shown") => Open(d, "linked")
  BY <1>1, <1>2, <1>3 DEF InTurn
<1>7. Open(d, "peers") => Open(d, "runtime")
  BY <1>1, <1>2, <1>3 DEF InTurn
<1>8. d.op = "verify" /\ Open(d, "routes") => Open(d, "poll")
  BY <1>1, <1>2, <1>3 DEF InTurn, Advanced
<1>9. d.op = "verify" /\ Open(d, "poll") => Open(d, "peers")
  BY <1>1, <1>2, <1>3 DEF InTurn, Advanced
<1>10. /\ Open(d, "runtime") => d.op = "verify"
       /\ Open(d, "poll") => d.op \in {"verify", "conntrack"}
       /\ Sorted(d.op, d.todo)
  BY <1>3 DEF InTurn, Advanced
<1>11. Open(d, "routes") => Open(d, "linked")
  BY <1>1, <1>2, <1>3 DEF InTurn
<1>12. d.op \in Path /\ Open(d, "lists") => Open(d, "routes")
  <2>1. c.op \in Path => Stage(c.op, "lists") < Stage(c.op, "routes")
    BY DEF Stage, Stages, Path
  <2>2. "lists" \in Request
    BY DEF Request
  <2>3. QED
    BY <1>1, <1>3, <2>1, <2>2 DEF InTurn, Advanced
<1>13. QED
  BY <1>4, <1>5, <1>6, <1>7, <1>8, <1>9, <1>10, <1>11, <1>12 DEF InTurn

\* The next request done.
LEMMA Answered ==
  ASSUME NEW c, c.todo \in Seq(Request), c.todo # <<>>, InTurn(c),
         NEW d, d.op = c.op, d.todo = Tail(c.todo)
  PROVE  /\ Advanced(c, d, {c.todo[1]}) /\ InTurn(d)
         /\ Open(c, c.todo[1]) /\ c.todo[1] \in Request
         /\ \A q \in Request : Open(c, q) /\ q # c.todo[1] =>
              Stage(c.op, c.todo[1]) < Stage(c.op, q)
<1> DEFINE p == c.todo[1]
<1>1. Sorted(c.op, c.todo)
  BY DEF InTurn
<1>2. /\ Tail(c.todo) \in Seq(Request) /\ Sorted(c.op, Tail(c.todo))
      /\ p \in Range(c.todo) /\ p \in Request
      /\ Range(Tail(c.todo)) = Range(c.todo) \ {p}
      /\ \A q \in Range(c.todo) : q = p \/ Stage(c.op, p) < Stage(c.op, q)
  BY <1>1, TailTurn
<1> HIDE DEF p
<1>3. Advanced(c, d, {p})
  BY <1>2 DEF Advanced, Open
<1>4. Foremost(c, {p})
  BY <1>2 DEF Foremost, Open
<1>5. InTurn(d)
  BY <1>2, <1>3, <1>4, AdvancedInTurn
<1>6. QED
  BY <1>2, <1>3, <1>5 DEF Open, p

\* No table is named: the request for the tables is skipped.
LEMMA RuleSkips ==
  ASSUME NEW c, c.todo \in Seq(Request), c.todo # <<>>, InTurn(c), c.todo[1] = "rule",
         NEW d, d.op = c.op, d.todo = Tail(<<"rule">> \o Tail(Tail(c.todo)))
  PROVE  /\ Advanced(c, d, {"rule", "shown"}) /\ InTurn(d)
         /\ d.todo = Tail(Tail(c.todo)) /\ Tail(c.todo) # <<>>
<1> DEFINE s == c.todo
           u == Tail(s)
<1>1. Sorted(c.op, s) /\ Open(c, "rule") /\ Open(c, "shown")
  BY TailTurn DEF InTurn, Open
<1>2. /\ u \in Seq(Request) /\ Sorted(c.op, u) /\ Range(u) = Range(s) \ {"rule"}
      /\ \A q \in Range(s) : q = "rule" \/ Stage(c.op, "rule") < Stage(c.op, q)
  BY <1>1, TailTurn
<1> HIDE DEF u
<1>3. "shown" \in Range(u)
  BY <1>1, <1>2 DEF Open
<1>4. u # <<>>
  BY <1>3, EmptySeq DEF Range
<1>5. /\ Tail(u) \in Seq(Request) /\ Sorted(c.op, Tail(u)) /\ u[1] \in Range(u)
      /\ Range(Tail(u)) = Range(u) \ {u[1]}
      /\ \A q \in Range(u) : q \in Request /\ (q = u[1] \/ Stage(c.op, u[1]) < Stage(c.op, q))
  BY <1>2, <1>4, TailTurn
<1>6. u[1] = "shown"
  <2>1. SUFFICES ASSUME u[1] # "shown"
                 PROVE  FALSE
    OBVIOUS
  <2>2. Stage(c.op, u[1]) < Stage(c.op, "shown")
    BY <1>3, <1>5, <2>1
  <2>3. Stage(c.op, "rule") < Stage(c.op, u[1])
    BY <1>2, <1>5
  <2>4. Stage(c.op, "rule") = 7 /\ Stage(c.op, "shown") = 8
    BY DEF Stage, Stages
  <2>5. Stage(c.op, u[1]) \in Nat
    BY <1>5, StageTypes
  <2>6. QED
    BY <2>2, <2>3, <2>4, <2>5
<1>7. d.todo = Tail(u)
  <2> DEFINE v == Tail(u)
             w == <<"rule">> \o v
  <2>1. v \in Seq(Request) /\ <<"rule">> \in Seq(Request) /\ Len(v) \in Nat
    BY <1>5, LenProperties DEF Request
  <2> HIDE DEF v
  <2>2. /\ w \in Seq(Request) /\ Len(w) = Len(v) + 1 /\ w # <<>>
        /\ \A i \in 1..Len(v) : w[i + 1] = v[i]
    BY <2>1
  <2> HIDE DEF w
  <2>3. /\ Tail(w) \in Seq(Request) /\ Len(Tail(w)) = Len(v)
        /\ \A i \in 1..Len(v) : Tail(w)[i] = w[i + 1]
    BY <2>1, <2>2, HeadTailProperties
  <2>4. Tail(w) = v
    <3> DEFINE t == Tail(w)
    <3>1. t \in Seq(Request) /\ Len(t) = Len(v) /\ \A i \in 1..Len(t) : t[i] = v[i]
      BY <2>2, <2>3
    <3> HIDE DEF t
    <3>2. t = v
      BY <2>1, <3>1, SeqEqual
    <3>3. QED
      BY <3>2 DEF t
  <2>5. QED
    BY <2>4 DEF u, v, w
<1>8. Advanced(c, d, {"rule", "shown"})
  BY <1>2, <1>5, <1>6, <1>7 DEF Advanced, Open
<1>9. Foremost(c, {"rule", "shown"})
  <2>1. ASSUME NEW q \in Request, Open(c, q), q \notin {"rule", "shown"}
        PROVE  Stage(c.op, "rule") < Stage(c.op, q) /\ Stage(c.op, "shown") < Stage(c.op, q)
    BY <1>2, <1>5, <1>6, <2>1 DEF Open
  <2>2. QED
    BY <2>1 DEF Foremost
<1>10. {"rule", "shown"} \subseteq Request
  BY DEF Request
<1>11. QED
  BY <1>4, <1>7, <1>8, <1>9, <1>10, AdvancedInTurn DEF u

\* get_policy_tables fails as a whole: its four requests are skipped.
TableRequests == {"policies", "rule", "shown", "linked"}

LEMMA TablesSkipped ==
  ASSUME NEW c, c.todo \in Seq(Request), c.todo # <<>>, InTurn(c), c.todo[1] = "policies",
         NEW d, d.op = c.op, d.todo = SubSeq(c.todo, 5, Len(c.todo))
  PROVE  Advanced(c, d, TableRequests) /\ InTurn(d)
<1> DEFINE s == c.todo
           op == c.op
           Follows(p, q, u) == /\ u \in Seq(Request) /\ u # <<>> /\ Sorted(op, u)
                               /\ u[1] = p /\ q \in Range(u)
           Successor(p, q) == /\ Stage(op, q) = Stage(op, p) + 1
                          /\ \A x \in Request : Stage(op, x) = Stage(op, q) => x = q
           Result(p, q, u) == /\ Tail(u) \in Seq(Request) /\ Tail(u) # <<>>
                              /\ Sorted(op, Tail(u)) /\ Tail(u)[1] = q
                              /\ Range(Tail(u)) = Range(u) \ {p}
                              /\ \A x \in Range(u) : x = p \/ Stage(op, p) < Stage(op, x)
<1>1. Sorted(op, s) /\ Open(c, "policies") /\ Open(c, "rule")
  BY TailTurn DEF InTurn, Open
<1>2. Open(c, "shown") /\ Open(c, "linked")
  BY <1>1 DEF InTurn
<1>3. ASSUME NEW p \in Request, NEW q \in Request, NEW u, Follows(p, q, u), Successor(p, q)
      PROVE  Result(p, q, u)
  <2>1. /\ Tail(u) \in Seq(Request) /\ Sorted(op, Tail(u)) /\ Range(Tail(u)) = Range(u) \ {p}
        /\ \A x \in Range(u) : x \in Request /\ (x = p \/ Stage(op, p) < Stage(op, x))
    BY <1>3, TailTurn
  <2>2. Stage(op, p) \in Nat
    BY StageTypes
  <2>3. q # p /\ q \in Range(Tail(u))
    BY <1>3, <2>1, <2>2
  <2>4. Tail(u) # <<>>
    BY <2>3, EmptySeq DEF Range
  <2> DEFINE v == Tail(u)
  <2>5. /\ v[1] \in Range(v) /\ v[1] \in Request
        /\ \A x \in Range(v) : x = v[1] \/ Stage(op, v[1]) < Stage(op, x)
    BY <2>1, <2>4, TailTurn
  <2>6. v[1] = q
    <3>1. Stage(op, p) < Stage(op, v[1]) /\ Stage(op, v[1]) \in Nat
      BY <2>1, <2>5, StageTypes
    <3>2. ~(Stage(op, v[1]) < Stage(op, q))
      <4> DEFINE x == Stage(op, v[1])
                 y == Stage(op, p)
                 z == Stage(op, q)
      <4>1. x \in Nat /\ y \in Nat /\ z = y + 1 /\ y < x
        BY <1>3, <2>2, <3>1
      <4> HIDE DEF x, y, z
      <4>2. ~(x < z)
        BY <4>1
      <4>3. QED
        BY <4>2 DEF x, z
    <3>3. QED
      BY <2>3, <2>5, <3>2
  <2>7. QED
    BY <2>1, <2>4, <2>6
<1>4. /\ "policies" \in Request /\ "rule" \in Request /\ "shown" \in Request
      /\ "linked" \in Request
      /\ Stage(op, "policies") = 6 /\ Stage(op, "rule") = 7 /\ Stage(op, "shown") = 8
      /\ Stage(op, "linked") = 9
      /\ Stage(op, "rule") = Stage(op, "policies") + 1
      /\ Stage(op, "shown") = Stage(op, "rule") + 1
      /\ Stage(op, "linked") = Stage(op, "shown") + 1
  BY DEF Request, Stage, Stages
<1>5. /\ \A x \in Request : Stage(op, x) = Stage(op, "rule") => x = "rule"
      /\ \A x \in Request : Stage(op, x) = Stage(op, "shown") => x = "shown"
      /\ \A x \in Request : Stage(op, x) = Stage(op, "linked") => x = "linked"
  BY <1>4, StageTypes
<1> DEFINE u1 == Tail(s)
           u2 == Tail(u1)
           u3 == Tail(u2)
           u4 == Tail(u3)
<1>6. /\ u1 \in Seq(Request) /\ u1 # <<>> /\ Sorted(op, u1) /\ u1[1] = "rule"
      /\ Range(u1) = Range(s) \ {"policies"}
      /\ \A x \in Range(s) : x = "policies" \/ Stage(op, "policies") < Stage(op, x)
  <2>1. Follows("policies", "rule", s)
    BY <1>1 DEF Open
  <2> HIDE DEF Follows, Result
  <2>2. Successor("policies", "rule")
    BY <1>4, <1>5
  <2> HIDE DEF Successor
  <2>3. Result("policies", "rule", s)
    BY <1>3, <1>4, <2>1, <2>2
  <2>4. QED
    BY <2>3 DEF Result
<1> HIDE DEF u1
<1>7. /\ u2 \in Seq(Request) /\ u2 # <<>> /\ Sorted(op, u2) /\ u2[1] = "shown"
      /\ Range(u2) = Range(u1) \ {"rule"}
      /\ \A x \in Range(u1) : x = "rule" \/ Stage(op, "rule") < Stage(op, x)
  <2>1. "shown" \in Range(u1)
    BY <1>2, <1>6 DEF Open
  <2>2. Follows("rule", "shown", u1)
    BY <1>6, <2>1
  <2> HIDE DEF Follows, Result
  <2>3. Successor("rule", "shown")
    BY <1>4, <1>5
  <2> HIDE DEF Successor
  <2>4. Result("rule", "shown", u1)
    BY <1>3, <1>4, <2>2, <2>3
  <2>5. QED
    BY <2>4 DEF Result
<1> HIDE DEF u2
<1>8. /\ u3 \in Seq(Request) /\ u3 # <<>> /\ Sorted(op, u3) /\ u3[1] = "linked"
      /\ Range(u3) = Range(u2) \ {"shown"}
      /\ \A x \in Range(u2) : x = "shown" \/ Stage(op, "shown") < Stage(op, x)
  <2>1. "linked" \in Range(u2)
    BY <1>2, <1>6, <1>7 DEF Open
  <2>2. Follows("shown", "linked", u2)
    BY <1>7, <2>1
  <2> HIDE DEF Follows, Result
  <2>3. Successor("shown", "linked")
    BY <1>4, <1>5
  <2> HIDE DEF Successor
  <2>4. Result("shown", "linked", u2)
    BY <1>3, <1>4, <2>2, <2>3
  <2>5. QED
    BY <2>4 DEF Result
<1> HIDE DEF u3
<1>9. /\ u4 \in Seq(Request) /\ Sorted(op, u4) /\ Range(u4) = Range(u3) \ {"linked"}
      /\ \A x \in Range(u3) : x = "linked" \/ Stage(op, "linked") < Stage(op, x)
  BY <1>8, TailTurn
<1> HIDE DEF u4
<1>10. Range(u4) = Range(s) \ TableRequests
  BY <1>6, <1>7, <1>8, <1>9 DEF TableRequests
<1>11. d.todo = u4
  <2>1. /\ Len(s) \in Nat /\ Len(u1) = Len(s) - 1 /\ Len(u1) \in Nat
        /\ \A i \in 1..Len(u1) : u1[i] = s[i + 1]
    BY HeadTailProperties, LenProperties, <1>6 DEF u1
  <2>2. /\ Len(u2) = Len(u1) - 1 /\ Len(u2) \in Nat
        /\ \A i \in 1..Len(u2) : u2[i] = u1[i + 1]
    BY HeadTailProperties, LenProperties, <1>6, <1>7 DEF u2
  <2>3. /\ Len(u3) = Len(u2) - 1 /\ Len(u3) \in Nat
        /\ \A i \in 1..Len(u3) : u3[i] = u2[i + 1]
    BY HeadTailProperties, LenProperties, <1>7, <1>8 DEF u3
  <2>4. /\ Len(u4) = Len(u3) - 1 /\ Len(u4) \in Nat
        /\ \A i \in 1..Len(u4) : u4[i] = u3[i + 1]
    BY HeadTailProperties, LenProperties, <1>8, <1>9 DEF u4
  <2>5. Len(u4) = Len(s) - 4
    BY <2>1, <2>2, <2>3, <2>4
  <2>6. ASSUME NEW i \in 1..Len(u4)
        PROVE  u4[i] = s[i + 4]
    <3>1. /\ i \in Nat /\ i + 1 \in 1..Len(u3) /\ i + 2 \in 1..Len(u2) /\ i + 3 \in 1..Len(u1)
          /\ (i + 1) + 1 = i + 2 /\ (i + 2) + 1 = i + 3 /\ (i + 3) + 1 = i + 4
      BY <2>1, <2>2, <2>3, <2>4
    <3>2. u4[i] = u3[i + 1] /\ u3[i + 1] = u2[i + 2] /\ u2[i + 2] = u1[i + 3]
          /\ u1[i + 3] = s[i + 4]
      BY <2>1, <2>2, <2>3, <2>4, <3>1
    <3>3. QED
      BY <3>2
  <2> DEFINE w == SubSeq(s, 5, Len(s))
  <2>7. w \in Seq(Request) /\ Len(w) = Len(s) - 4 /\ \A i \in 1..Len(w) : w[i] = s[i + 4]
    <3>1. 5 \in Int /\ Len(s) \in Int /\ Len(s) >= 4 /\ s \in Seq(Request)
      BY <2>1, <2>4, <2>5
    <3>2. \A i \in 5..Len(s) : s[i] \in Request
      BY ElementOfSeq, <2>1
    <3>3. QED
      BY <3>1, <3>2, SubSeqProperties
  <2> HIDE DEF w
  <2>8. w = u4
    <3>1. Len(w) = Len(u4) /\ \A i \in 1..Len(w) : w[i] = u4[i]
      BY <2>5, <2>6, <2>7
    <3>2. QED
      BY <1>9, <2>7, <3>1, SeqEqual
  <2>9. QED
    BY <2>8 DEF w
<1>12. Advanced(c, d, TableRequests)
  BY <1>9, <1>10, <1>11 DEF Advanced, Open
<1>13. Foremost(c, TableRequests)
  <2>1. ASSUME NEW q \in Request, Open(c, q), q \notin TableRequests
        PROVE  Stage(op, q) > 9
    <3>1. q \in Range(u3) /\ q # "linked"
      BY <1>6, <1>7, <1>8, <2>1 DEF Open, TableRequests
    <3>2. QED
      BY <1>4, <1>9, <3>1, StageTypes
  <2>2. QED
    BY <1>4, <2>1, StageTypes DEF Foremost, TableRequests
<1>14. TableRequests \subseteq Request
  BY DEF TableRequests, Request
<1>15. QED
  BY <1>12, <1>13, <1>14, AdvancedInTurn

\* s asks for the requests in S, in order, all of stages a to b.
Block(op, s, S, a, b) ==
  /\ s \in Seq(Request) /\ Sorted(op, s) /\ Range(s) = S
  /\ \A p \in S : a <= Stage(op, p) /\ Stage(op, p) <= b

LEMMA BlocksJoin ==
  ASSUME NEW op, NEW s, NEW t, NEW S, NEW T,
         NEW a \in Nat, NEW b \in Nat, NEW m \in Nat, NEW n \in Nat,
         Block(op, s, S, a, m), Block(op, t, T, n, b), a <= m, m < n, n <= b
  PROVE  Block(op, s \o t, S \cup T, a, b)
<1> DEFINE w == s \o t
<1>1. /\ s \in Seq(Request) /\ t \in Seq(Request) /\ Sorted(op, s) /\ Sorted(op, t)
      /\ Range(s) = S /\ Range(t) = T
  BY DEF Block
<1>2. /\ w \in Seq(Request) /\ Len(w) = Len(s) + Len(t)
      /\ \A i \in 1..Len(w) : w[i] = IF i <= Len(s) THEN s[i] ELSE t[i - Len(s)]
  BY <1>1, ConcatProperties
<1>3. /\ Len(s) \in Nat /\ Len(t) \in Nat /\ DOMAIN s = 1..Len(s) /\ DOMAIN t = 1..Len(t)
      /\ DOMAIN w = 1..Len(w)
  BY <1>1, <1>2, LenProperties
<1> HIDE DEF w
<1>4. ASSUME NEW i \in DOMAIN w
      PROVE  \/ i \in DOMAIN s /\ w[i] = s[i]
             \/ i \notin DOMAIN s /\ i - Len(s) \in DOMAIN t /\ w[i] = t[i - Len(s)]
  BY <1>2, <1>3
<1>5. \A i \in DOMAIN s : i \in DOMAIN w /\ w[i] = s[i]
  BY <1>2, <1>3
<1>6. \A i \in DOMAIN t : i + Len(s) \in DOMAIN w /\ w[i + Len(s)] = t[i]
  <2>1. ASSUME NEW i \in DOMAIN t
        PROVE  i + Len(s) \in DOMAIN w /\ w[i + Len(s)] = t[i]
    <3>1. i + Len(s) \in 1..Len(w) /\ ~(i + Len(s) <= Len(s)) /\ (i + Len(s)) - Len(s) = i
      BY <1>2, <1>3
    <3>2. QED
      BY <1>2, <1>3, <3>1
  <2>2. QED
    BY <2>1
<1>7. Range(w) = S \cup T
  <2>1. Range(w) \subseteq S \cup T
    BY <1>1, <1>4 DEF Range
  <2>2. S \subseteq Range(w)
    BY <1>1, <1>5 DEF Range
  <2>3. T \subseteq Range(w)
    BY <1>1, <1>6 DEF Range
  <2>4. QED
    BY <2>1, <2>2, <2>3
<1>8. \A p \in S \cup T : a <= Stage(op, p) /\ Stage(op, p) <= b
  <2>1. \A p \in S \cup T : p \in Request /\ Stage(op, p) \in Nat
    <3>1. S \subseteq Request /\ T \subseteq Request
      BY <1>1, RangeFinite
    <3>2. QED
      BY <3>1, StageTypes
  <2>2. QED
    BY <2>1 DEF Block
<1>9. ASSUME NEW i \in DOMAIN w, NEW j \in DOMAIN w, i < j
      PROVE  Stage(op, w[i]) < Stage(op, w[j])
  <2>1. CASE i \in DOMAIN s /\ j \in DOMAIN s
    BY <1>1, <1>5, <1>9, <2>1 DEF Sorted
  <2>2. CASE i \in DOMAIN s /\ j \notin DOMAIN s
    <3>1. w[i] \in S /\ w[j] \in T
      BY <1>1, <1>4, <2>2 DEF Range
    <3>2. Stage(op, w[i]) <= m /\ n <= Stage(op, w[j])
      BY <3>1 DEF Block
    <3>3. Stage(op, w[i]) \in Nat /\ Stage(op, w[j]) \in Nat
      <4>1. w[i] \in Request /\ w[j] \in Request
        BY <1>2, ElementOfSeq, <1>3
      <4>2. QED
        BY <4>1, StageTypes
    <3>4. QED
      BY <3>2, <3>3
  <2>3. CASE i \notin DOMAIN s /\ j \notin DOMAIN s
    <3>1. i - Len(s) \in DOMAIN t /\ j - Len(s) \in DOMAIN t
          /\ w[i] = t[i - Len(s)] /\ w[j] = t[j - Len(s)]
      BY <1>4, <2>3
    <3>2. i - Len(s) < j - Len(s)
      BY <1>3, <1>9
    <3>3. QED
      BY <1>1, <3>1, <3>2 DEF Sorted
  <2>4. CASE i \notin DOMAIN s /\ j \in DOMAIN s
    BY <1>2, <1>3, <1>9, <2>4
  <2>5. QED
    BY <2>1, <2>2, <2>3, <2>4
<1>10. Block(op, w, S \cup T, a, b)
  BY <1>2, <1>7, <1>8, <1>9 DEF Block, Sorted
<1>11. QED
  BY <1>10 DEF w

LEMMA ShortBlocks ==
  ASSUME NEW op, NEW host \in BOOLEAN
  PROVE  /\ Block(op, Resolves(host), IF host THEN {"resolve"} ELSE {}, 0, 0)
         /\ op \in Path => Block(op, <<"lists", "routes", "fib", "ifaces">>,
                                 {"lists", "routes", "fib", "ifaces"}, 2, 5)
         /\ Block(op, TableReads, TableRequests, 6, 9)
         /\ Block(op, <<"live">>, {"live"}, 10, 10)
         /\ Block(op, <<"poll", "peers", "runtime">>, {"poll", "peers", "runtime"}, 11, 13)
         /\ Block(op, <<"poll">>, {"poll"}, 11, 11)
         /\ op \in {"dns", "route"} => Block(op, <<"lists", "routes", "lookup">>,
                                             {"lists", "routes", "lookup"}, 2, 5)
         /\ op = "diagnose" => Block(op, <<"routes", "lists">>, {"routes", "lists"}, 1, 2)
         /\ op = "route" => Block(op, <<"fib">>, {"fib"}, 14, 14)
         /\ Block(op, <<>>, {}, 0, 0)
<1>1. ASSUME NEW a \in Request, NEW k \in Nat, Stage(op, a) = k
      PROVE  Block(op, <<a>>, {a}, k, k)
  BY <1>1 DEF Block, Sorted, Range
<1>2. Block(op, <<>>, {}, 0, 0)
  BY DEF Block, Sorted, Range
<1>3. ASSUME NEW a \in Request, NEW b \in Request, Stage(op, a) < Stage(op, b)
      PROVE  Block(op, <<a, b>>, {a, b}, Stage(op, a), Stage(op, b))
  <2>1. Stage(op, a) \in Nat /\ Stage(op, b) \in Nat
    BY StageTypes
  <2>2. QED
    BY <1>3, <2>1 DEF Block, Sorted, Range
<1>4. ASSUME NEW a \in Request, NEW b \in Request, NEW e \in Request,
             Stage(op, a) < Stage(op, b), Stage(op, b) < Stage(op, e)
      PROVE  Block(op, <<a, b, e>>, {a, b, e}, Stage(op, a), Stage(op, e))
  <2>1. Stage(op, a) \in Nat /\ Stage(op, b) \in Nat /\ Stage(op, e) \in Nat
    BY StageTypes
  <2>2. QED
    BY <1>4, <2>1 DEF Block, Sorted, Range
<1>5. ASSUME NEW a \in Request, NEW b \in Request, NEW e \in Request, NEW f \in Request,
             Stage(op, a) < Stage(op, b), Stage(op, b) < Stage(op, e),
             Stage(op, e) < Stage(op, f)
      PROVE  Block(op, <<a, b, e, f>>, {a, b, e, f}, Stage(op, a), Stage(op, f))
  <2>1. /\ Stage(op, a) \in Nat /\ Stage(op, b) \in Nat /\ Stage(op, e) \in Nat
        /\ Stage(op, f) \in Nat
    BY StageTypes
  <2>2. QED
    BY <1>5, <2>1 DEF Block, Sorted, Range
<1>6. \A p \in {"resolve", "lists", "routes", "fib", "ifaces", "lookup", "policies", "rule",
                "shown", "linked", "live", "poll", "peers", "runtime"} : p \in Request
  BY DEF Request
<1>7. Block(op, Resolves(host), IF host THEN {"resolve"} ELSE {}, 0, 0)
  <2>1. Stage(op, "resolve") = 0
    BY DEF Stage, Stages
  <2>2. Block(op, <<"resolve">>, {"resolve"}, 0, 0)
    BY <1>1, <1>6, <2>1
  <2>3. QED
    BY <1>2, <2>2 DEF Resolves
<1>8. ASSUME op \in Path
      PROVE  Block(op, <<"lists", "routes", "fib", "ifaces">>,
                   {"lists", "routes", "fib", "ifaces"}, 2, 5)
  <2>1. /\ Stage(op, "lists") = 2 /\ Stage(op, "routes") = 3 /\ Stage(op, "fib") = 4
        /\ Stage(op, "ifaces") = 5
    BY <1>8 DEF Stage, Stages, Path
  <2>2. QED
    BY <1>5, <1>6, <2>1
<1>9. Block(op, TableReads, TableRequests, 6, 9)
  <2>1. /\ Stage(op, "policies") = 6 /\ Stage(op, "rule") = 7 /\ Stage(op, "shown") = 8
        /\ Stage(op, "linked") = 9
    BY DEF Stage, Stages
  <2>2. QED
    BY <1>5, <1>6, <2>1 DEF TableReads, TableRequests
<1>10. Block(op, <<"live">>, {"live"}, 10, 10) /\ Block(op, <<"poll">>, {"poll"}, 11, 11)
  <2>1. Stage(op, "live") = 10 /\ Stage(op, "poll") = 11
    BY DEF Stage, Stages
  <2>2. QED
    BY <1>1, <1>6, <2>1
<1>11. Block(op, <<"poll", "peers", "runtime">>, {"poll", "peers", "runtime"}, 11, 13)
  <2>1. Stage(op, "poll") = 11 /\ Stage(op, "peers") = 12 /\ Stage(op, "runtime") = 13
    BY DEF Stage, Stages
  <2>2. QED
    BY <1>4, <1>6, <2>1
<1>12. ASSUME op \in {"dns", "route"}
       PROVE  Block(op, <<"lists", "routes", "lookup">>, {"lists", "routes", "lookup"}, 2, 5)
  <2>1. Stage(op, "lists") = 2 /\ Stage(op, "routes") = 3 /\ Stage(op, "lookup") = 5
    BY <1>12 DEF Stage, Stages
  <2>2. QED
    BY <1>4, <1>6, <2>1
<1>13. ASSUME op = "diagnose"
       PROVE  Block(op, <<"routes", "lists">>, {"routes", "lists"}, 1, 2)
  <2>1. Stage(op, "routes") = 1 /\ Stage(op, "lists") = 2
    BY <1>13 DEF Stage, Stages
  <2>2. QED
    BY <1>3, <1>6, <2>1
<1>14. ASSUME op = "route"
       PROVE  Block(op, <<"fib">>, {"fib"}, 14, 14)
  <2>1. Stage(op, "fib") = 14
    BY <1>14 DEF Stage
  <2>2. QED
    BY <1>1, <1>6, <2>1
<1>15. QED
  BY <1>2, <1>7, <1>8, <1>9, <1>10, <1>11, <1>12, <1>13, <1>14

\* What each tool asks for.
Asked(op, host) ==
  CASE op \in Path -> (IF host THEN {"resolve"} ELSE {}) \cup {"lists", "routes", "fib", "ifaces"}
                        \cup TableRequests \cup {"live"}
                        \cup IF op = "verify" THEN {"poll", "peers", "runtime"} ELSE {}
    [] op = "conntrack" -> {"poll"}
    [] op = "dns" -> {"lists", "routes", "lookup"} \cup TableRequests
    [] op = "diagnose" -> {"routes", "lists"} \cup TableRequests
    [] op = "route" -> (IF host THEN {"resolve", "lists", "routes", "lookup"} \cup TableRequests
                        ELSE {}) \cup {"fib"}

LEMMA ReadsAre ==
  ASSUME NEW op \in Ops, NEW host \in BOOLEAN
  PROVE  /\ Reads(op, host) \in Seq(Request) /\ Sorted(op, Reads(op, host))
         /\ Range(Reads(op, host)) = Asked(op, host)
<1> DEFINE R == IF host THEN {"resolve"} ELSE {}
           A == {"lists", "routes", "fib", "ifaces"}
           N == {"lists", "routes", "lookup"}
           a == <<"lists", "routes", "fib", "ifaces">>
           n == <<"lists", "routes", "lookup">>
           w == <<"poll", "peers", "runtime">>
           W == {"poll", "peers", "runtime"}
<1>1. Block(op, Resolves(host), R, 0, 0)
  BY ShortBlocks
<1>2. Block(op, TableReads, TableRequests, 6, 9)
  BY ShortBlocks
<1>3. ASSUME op \in Path
      PROVE  Block(op, PathReads(host), ((R \cup A) \cup TableRequests) \cup {"live"}, 0, 10)
  <2>1. Block(op, a, A, 2, 5)
    BY <1>3, ShortBlocks
  <2>2. Block(op, <<"live">>, {"live"}, 10, 10)
    BY ShortBlocks
  <2> HIDE DEF R, A, a
  <2>3. Block(op, Resolves(host) \o a, R \cup A, 0, 5)
    BY <1>1, <2>1, BlocksJoin
  <2>4. Block(op, (Resolves(host) \o a) \o TableReads, (R \cup A) \cup TableRequests, 0, 9)
    BY <1>2, <2>3, BlocksJoin
  <2>5. Block(op, ((Resolves(host) \o a) \o TableReads) \o <<"live">>,
              ((R \cup A) \cup TableRequests) \cup {"live"}, 0, 10)
    BY <2>2, <2>4, BlocksJoin
  <2>6. QED
    BY <2>5 DEF PathReads, a
<1>4. CASE op = "explain"
  BY <1>3, <1>4 DEF Reads, Asked, Block, Path
<1>5. CASE op = "verify"
  <2> DEFINE P == ((R \cup A) \cup TableRequests) \cup {"live"}
  <2>1. Block(op, PathReads(host), P, 0, 10)
    BY <1>3, <1>5 DEF Path
  <2>2. Block(op, w, W, 11, 13)
    BY ShortBlocks
  <2> HIDE DEF P, w, W
  <2>3. Block(op, PathReads(host) \o w, P \cup W, 0, 13)
    BY <2>1, <2>2, BlocksJoin
  <2>4. P \cup W = Asked(op, host)
    BY <1>5 DEF Asked, Path, P, W
  <2>5. QED
    BY <1>5, <2>3, <2>4 DEF Reads, Block, w
<1>6. CASE op = "conntrack"
  <2>1. Block(op, <<"poll">>, {"poll"}, 11, 11)
    BY ShortBlocks
  <2>2. QED
    BY <1>6, <2>1 DEF Reads, Asked, Block, Path
<1>7. ASSUME op \in {"dns", "route"}
      PROVE  Block(op, NameReads, N \cup TableRequests, 2, 9)
  <2>1. Block(op, n, N, 2, 5)
    BY <1>7, ShortBlocks
  <2> HIDE DEF n, N
  <2>2. Block(op, n \o TableReads, N \cup TableRequests, 2, 9)
    BY <1>2, <2>1, BlocksJoin
  <2>3. QED
    BY <2>2 DEF NameReads, n
<1>8. CASE op = "dns"
  <2>1. Asked(op, host) = N \cup TableRequests
    BY <1>8 DEF Asked, Path
  <2>2. QED
    BY <1>7, <1>8, <2>1 DEF Reads, Block
<1>9. CASE op = "diagnose"
  <2> DEFINE d == <<"routes", "lists">>
             D == {"routes", "lists"}
  <2>1. Block(op, d, D, 1, 2)
    BY <1>9, ShortBlocks
  <2> HIDE DEF d, D
  <2>2. Block(op, d \o TableReads, D \cup TableRequests, 1, 9)
    BY <1>2, <2>1, BlocksJoin
  <2>3. QED
    BY <1>9, <2>2 DEF Reads, Asked, Block, Path, d, D
<1>10. CASE op = "route"
  <2>1. Block(op, <<"fib">>, {"fib"}, 14, 14)
    BY <1>10, ShortBlocks
  <2>2. CASE host = TRUE
    <3> DEFINE M == N \cup TableRequests
    <3>1. Block(op, NameReads, M, 2, 9)
      BY <1>7, <1>10
    <3> HIDE DEF R, M
    <3>2. Block(op, Resolves(host) \o NameReads, R \cup M, 0, 9)
      BY <1>1, <3>1, BlocksJoin
    <3>3. Block(op, (Resolves(host) \o NameReads) \o <<"fib">>, (R \cup M) \cup {"fib"}, 0, 14)
      BY <2>1, <3>2, BlocksJoin
    <3>4. Asked(op, host) = (R \cup M) \cup {"fib"}
      BY <1>10, <2>2 DEF Asked, Path, R, M
    <3>5. Reads(op, host) = (Resolves(host) \o NameReads) \o <<"fib">>
      BY <1>10, <2>2 DEF Reads
    <3>6. QED
      BY <3>3, <3>4, <3>5 DEF Block
  <2>3. CASE host = FALSE
    <3>1. Resolves(host) = <<>>
      BY <2>3 DEF Resolves
    <3>2. (<<>> \o <<>>) \o <<"fib">> = <<"fib">>
      OBVIOUS
    <3>3. Reads(op, host) = <<"fib">>
      BY <1>10, <2>3, <3>1, <3>2 DEF Reads
    <3>4. Asked(op, host) = {"fib"}
      BY <1>10, <2>3 DEF Asked, Path
    <3>5. QED
      BY <2>1, <3>3, <3>4 DEF Block
  <2>4. QED
    BY <2>2, <2>3
<1>11. QED
  BY <1>4, <1>5, <1>6, <1>8, <1>9, <1>10 DEF Ops

-----------------------------------------------------------------------------
(* What a call has seen, from one step to the next. *)

Fields ==
  {"op", "host", "list", "left", "only", "limit", "todo", "hits", "routes", "links", "fib",
   "policies", "shown", "unread", "tables", "matches", "sessions", "live", "allow", "online", "age",
   "asleep"}
\* What the call was asked stays.
Data == Fields \ {"op", "host", "list", "only", "limit"}

\* d is c but for the fields in X.
Agree(c, d, X) == \A f \in Fields \ X : d[f] = c[f]

\* The routers seen and whether a request failed, now and later.
FailedSince(F, F2) == F \in BOOLEAN /\ F2 \in BOOLEAN /\ (F => F2)
Later(P, F, P2, F2) == P \subseteq P2 /\ FailedSince(F, F2)

LEMMA SeenGrows ==
  ASSUME NEW c, NEW d, NEW X \in SUBSET Data, NEW S \in SUBSET Request,
         NEW P, NEW P2, NEW F, NEW F2, NEW Q, Later(P, F, P2, F2),
         Agree(c, d, X), Advanced(c, d, S), Seen(c, P, F, Q)
  PROVE  /\ X \cap {"hits"} = {} /\ "lists" \notin S => HitsSeen(d, P2, F2)
         /\ X \cap {"hits", "routes", "links"} = {} /\ "routes" \notin S =>
              RoutesSeen(d, P2, F2)
         /\ X \cap {"fib"} = {} /\ "fib" \notin S => FibSeen(d, P2)
         /\ X \cap {"policies"} = {} /\ (F2 = TRUE \/ "policies" \notin S) => PoliciesSeen(d, P2, F2)
         /\ X \cap {"shown", "unread"} = {} /\ S \cap {"rule", "shown"} = {} =>
              ShownSeen(d, P2, F2)
         /\ /\ X \cap {"links", "routes", "policies", "shown", "tables", "matches"} = {}
            /\ "linked" \notin S
            => LinkedSeen(d, P2, F2)
         /\ X \cap {"sessions"} = {} /\ (F2 = TRUE \/ "poll" \notin S) => SessionsSeen(d, P2, F2, Q)
         /\ /\ X \cap {"links", "allow", "online", "age"} = {}
            /\ S \cap {"poll", "peers", "runtime"} = {}
            => PeerSeen(d, P2, F2)
<1>1. d.op = c.op /\ d.host = c.host /\ d.list = c.list /\ d.only = c.only
  BY DEF Agree, Data, Fields
<1>2. \A p \in Request : Open(d, p) <=> Open(c, p) /\ p \notin S
  BY DEF Advanced
<1>3. P \subseteq P2
  BY DEF Later
<1>4. \A r : /\ SeenLists(r, F) \subseteq SeenLists(r, F2)
             /\ SeenRoutes(r, F) \subseteq SeenRoutes(r, F2)
  BY DEF SeenLists, SeenRoutes, Later, FailedSince
<1>5. F \in BOOLEAN /\ F2 \in BOOLEAN /\ (F => F2) /\ (~F2 => ~F)
  BY DEF Later, FailedSince
<1>6. /\ "lists" \in Request /\ "routes" \in Request /\ "fib" \in Request
      /\ "policies" \in Request /\ "rule" \in Request /\ "shown" \in Request
      /\ "linked" \in Request /\ "poll" \in Request /\ "peers" \in Request
      /\ "runtime" \in Request
  BY DEF Request
<1>7. ASSUME X \cap {"hits"} = {}, "lists" \notin S
      PROVE  HitsSeen(d, P2, F2)
  <2>1. d.hits = c.hits
    BY <1>7 DEF Agree, Fields
  <2>2. HitsSeen(c, P, F)
    BY DEF Seen
  <2>3. QED
    BY <1>3, <1>1, <1>2, <1>4, <1>6, <1>7, <2>1, <2>2 DEF HitsSeen
<1>8. ASSUME X \cap {"hits", "routes", "links"} = {}, "routes" \notin S
      PROVE  RoutesSeen(d, P2, F2)
  <2>1. d.hits = c.hits /\ d.routes = c.routes /\ d.links = c.links
    BY <1>8 DEF Agree, Fields
  <2>2. RoutesSeen(c, P, F)
    BY DEF Seen
  <2>3. QED
    BY <1>3, <1>1, <1>2, <1>4, <1>6, <1>8, <2>1, <2>2 DEF RoutesSeen
<1>9. ASSUME X \cap {"fib"} = {}, "fib" \notin S
      PROVE  FibSeen(d, P2)
  <2>1. d.fib = c.fib
    BY <1>9 DEF Agree, Fields
  <2>2. FibSeen(c, P)
    BY DEF Seen
  <2>3. QED
    BY <1>3, <1>1, <1>2, <1>6, <1>9, <2>1, <2>2 DEF FibSeen
<1>10. ASSUME X \cap {"policies"} = {}, F2 = TRUE \/ "policies" \notin S
      PROVE  PoliciesSeen(d, P2, F2)
  <2>1. d.policies = c.policies
    BY <1>10 DEF Agree, Fields
  <2>2. PoliciesSeen(c, P, F)
    BY DEF Seen
  <2>3. QED
    BY <1>3, <1>1, <1>2, <1>5, <1>6, <1>10, <2>1, <2>2 DEF PoliciesSeen
<1>11. ASSUME X \cap {"shown", "unread"} = {}, S \cap {"rule", "shown"} = {}
       PROVE  ShownSeen(d, P2, F2)
  <2>1. d.shown = c.shown /\ d.unread = c.unread
    BY <1>11 DEF Agree, Fields
  <2>2. ShownSeen(c, P, F)
    BY DEF Seen
  <2>3. QED
    BY <1>3, <1>1, <1>2, <1>5, <1>6, <1>11, <2>1, <2>2 DEF ShownSeen
<1>12. ASSUME X \cap {"links", "routes", "policies", "shown", "tables", "matches"} = {},
              "linked" \notin S
       PROVE  LinkedSeen(d, P2, F2)
  <2>1. /\ d.links = c.links /\ d.routes = c.routes /\ d.policies = c.policies
        /\ d.shown = c.shown /\ d.tables = c.tables /\ d.matches = c.matches
    BY <1>12 DEF Agree, Fields
  <2>2. MatchesOf(d, d.tables) = MatchesOf(c, c.tables)
    BY <1>1, <2>1 DEF MatchesOf, ByName
  <2>3. LinkedSeen(c, P, F)
    BY DEF Seen
  <2>4. QED
    BY <1>3, <1>1, <1>2, <1>4, <1>6, <1>12, <2>1, <2>2, <2>3 DEF LinkedSeen
<1>13. ASSUME X \cap {"sessions"} = {}, F2 = TRUE \/ "poll" \notin S
       PROVE  SessionsSeen(d, P2, F2, Q)
  <2>1. d.sessions = c.sessions
    BY <1>13 DEF Agree, Fields
  <2>2. SessionsSeen(c, P, F, Q)
    BY DEF Seen
  <2>3. QED
    BY <1>3, <1>1, <1>2, <1>5, <1>6, <1>13, <2>1, <2>2 DEF SessionsSeen
<1>14. ASSUME X \cap {"links", "allow", "online", "age"} = {},
              S \cap {"poll", "peers", "runtime"} = {}
       PROVE  PeerSeen(d, P2, F2)
  <2>1. d.links = c.links /\ d.allow = c.allow /\ d.online = c.online /\ d.age = c.age
    BY <1>14 DEF Agree, Fields
  <2>2. Egress(d) = Egress(c)
    BY <2>1 DEF Egress
  <2>3. PeerSeen(c, P, F)
    BY DEF Seen
  <2>4. QED
    BY <1>3, <1>1, <1>2, <1>5, <1>6, <1>14, <2>1, <2>2, <2>3 DEF PeerSeen
<1>15. QED
  BY <1>7, <1>8, <1>9, <1>10, <1>11, <1>12, <1>13, <1>14

\* d is c after request p was answered, with news for the fields in X.
After(c, d, p, X) ==
  /\ c.todo # <<>> /\ c.todo[1] = p
  /\ d \in Job /\ d.todo = Tail(c.todo) /\ Agree(c, d, X)

LEMMA AfterInTurn ==
  ASSUME NEW c, c \in Job, InTurn(c), NEW d, NEW p, NEW X \in SUBSET Data, After(c, d, p, X)
  PROVE  /\ Advanced(c, d, {p}) /\ InTurn(d) /\ {p} \in SUBSET Request
         /\ Open(c, p) /\ p \in Request /\ c.op \in Ops
         /\ d.op = c.op /\ d.host = c.host /\ d.list = c.list /\ d.only = c.only
         /\ \A q \in Request : Open(d, q) <=> Open(c, q) /\ q # p
<1>1. c.todo \in Seq(Request) /\ c.op \in Ops
  BY DEF Job
<1>2. d.op = c.op /\ d.host = c.host /\ d.list = c.list /\ d.only = c.only
  BY DEF After, Agree, Data, Fields
<1>3. /\ Advanced(c, d, {c.todo[1]}) /\ InTurn(d)
      /\ Open(c, c.todo[1]) /\ c.todo[1] \in Request
  BY <1>1, <1>2, Answered DEF After
<1>4. c.todo[1] = p
  BY DEF After
<1>5. QED
  BY <1>1, <1>2, <1>3, <1>4 DEF Advanced

\* What a step leaves as it was: what the call learned before, when it did not touch it.
LEMMA StepKeeps ==
  ASSUME NEW c, NEW d, NEW P, NEW F, NEW F2, FailedSince(F, F2), NEW Q,
         NEW X \in SUBSET Data, NEW S \in SUBSET Request, Sound(c, P, F, Q),
         Agree(c, d, X), Advanced(c, d, S)
  PROVE  /\ InTurn(c) /\ Seen(c, P, F, Q) /\ c \in Job
         /\ d.op = c.op /\ d.host = c.host /\ d.only = c.only
         /\ \A q \in Request : Open(d, q) <=> Open(c, q) /\ q \notin S
         /\ "lists" \notin S /\ "hits" \notin X => HitsSeen(d, P, F2)
         /\ "routes" \notin S /\ "hits" \notin X /\ "routes" \notin X /\ "links" \notin X =>
              RoutesSeen(d, P, F2)
         /\ "fib" \notin S /\ "fib" \notin X => FibSeen(d, P)
         /\ (F2 = TRUE \/ "policies" \notin S) /\ "policies" \notin X => PoliciesSeen(d, P, F2)
         /\ "rule" \notin S /\ "shown" \notin S /\ "shown" \notin X /\ "unread" \notin X =>
              ShownSeen(d, P, F2)
         /\ /\ "linked" \notin S /\ "links" \notin X /\ "routes" \notin X /\ "policies" \notin X
            /\ "shown" \notin X /\ "tables" \notin X /\ "matches" \notin X
            => LinkedSeen(d, P, F2)
         /\ (F2 = TRUE \/ "poll" \notin S) /\ "sessions" \notin X => SessionsSeen(d, P, F2, Q)
         /\ /\ "poll" \notin S /\ "peers" \notin S /\ "runtime" \notin S /\ "links" \notin X
            /\ "allow" \notin X /\ "online" \notin X /\ "age" \notin X
            => PeerSeen(d, P, F2)
<1>1. c \in Job /\ InTurn(c) /\ Seen(c, P, F, Q)
  BY DEF Sound
<1>2. /\ d.op = c.op /\ d.host = c.host /\ d.only = c.only
      /\ \A q \in Request : Open(d, q) <=> Open(c, q) /\ q \notin S
  BY DEF Agree, Advanced, Data, Fields
<1>3. Later(P, F, P, F2)
  BY DEF Later
<1>4. /\ X \cap {"hits"} = {} /\ "lists" \notin S => HitsSeen(d, P, F2)
      /\ X \cap {"hits", "routes", "links"} = {} /\ "routes" \notin S => RoutesSeen(d, P, F2)
      /\ X \cap {"fib"} = {} /\ "fib" \notin S => FibSeen(d, P)
      /\ X \cap {"policies"} = {} /\ (F2 = TRUE \/ "policies" \notin S) => PoliciesSeen(d, P, F2)
      /\ X \cap {"shown", "unread"} = {} /\ S \cap {"rule", "shown"} = {} =>
           ShownSeen(d, P, F2)
      /\ /\ X \cap {"links", "routes", "policies", "shown", "tables", "matches"} = {}
         /\ "linked" \notin S
         => LinkedSeen(d, P, F2)
      /\ X \cap {"sessions"} = {} /\ (F2 = TRUE \/ "poll" \notin S) => SessionsSeen(d, P, F2, Q)
      /\ /\ X \cap {"links", "allow", "online", "age"} = {}
         /\ S \cap {"poll", "peers", "runtime"} = {}
         => PeerSeen(d, P, F2)
  BY <1>1, <1>3, SeenGrows
<1>5. /\ "rule" \notin S /\ "shown" \notin S => S \cap {"rule", "shown"} = {}
      /\ "poll" \notin S /\ "peers" \notin S /\ "runtime" \notin S =>
           S \cap {"poll", "peers", "runtime"} = {}
  OBVIOUS
<1>6. QED
  BY <1>1, <1>2, <1>4, <1>5

\* What an answer leaves as it was.
LEMMA AnswerKeeps ==
  ASSUME NEW c, NEW d, NEW P, NEW F, NEW F2, FailedSince(F, F2), NEW Q,
         NEW p, NEW X \in SUBSET Data, Sound(c, P, F, Q), After(c, d, p, X)
  PROVE  /\ d \in Job /\ InTurn(d) /\ InTurn(c) /\ Seen(c, P, F, Q) /\ c \in Job
         /\ Open(c, p) /\ d.op = c.op /\ d.host = c.host /\ d.only = c.only
         /\ \A q \in Request : Open(d, q) <=> Open(c, q) /\ q # p
         /\ p # "lists" /\ "hits" \notin X => HitsSeen(d, P, F2)
         /\ p # "routes" /\ "hits" \notin X /\ "routes" \notin X /\ "links" \notin X =>
              RoutesSeen(d, P, F2)
         /\ p # "fib" /\ "fib" \notin X => FibSeen(d, P)
         /\ (F2 = TRUE \/ p # "policies") /\ "policies" \notin X => PoliciesSeen(d, P, F2)
         /\ p # "rule" /\ p # "shown" /\ "shown" \notin X /\ "unread" \notin X =>
              ShownSeen(d, P, F2)
         /\ /\ p # "linked" /\ "links" \notin X /\ "routes" \notin X /\ "policies" \notin X
            /\ "shown" \notin X /\ "tables" \notin X /\ "matches" \notin X
            => LinkedSeen(d, P, F2)
         /\ (F2 = TRUE \/ p # "poll") /\ "sessions" \notin X => SessionsSeen(d, P, F2, Q)
         /\ /\ p # "poll" /\ p # "peers" /\ p # "runtime" /\ "links" \notin X
            /\ "allow" \notin X /\ "online" \notin X /\ "age" \notin X
            => PeerSeen(d, P, F2)
<1>1. c \in Job /\ InTurn(c) /\ Seen(c, P, F, Q)
  BY DEF Sound
<1>2. /\ Advanced(c, d, {p}) /\ InTurn(d) /\ {p} \in SUBSET Request
      /\ Open(c, p) /\ d.op = c.op /\ d.host = c.host /\ d.only = c.only
      /\ \A q \in Request : Open(d, q) <=> Open(c, q) /\ q # p
  BY <1>1, AfterInTurn
<1>3. d \in Job /\ Agree(c, d, X)
  BY DEF After
<1> DEFINE S == {p}
<1>4. \A q : q # p <=> q \notin S
  OBVIOUS
<1>5. S \in SUBSET Request /\ Advanced(c, d, S)
  BY <1>2
<1> HIDE DEF S
<1>6. /\ "lists" \notin S /\ "hits" \notin X => HitsSeen(d, P, F2)
      /\ "routes" \notin S /\ "hits" \notin X /\ "routes" \notin X /\ "links" \notin X =>
           RoutesSeen(d, P, F2)
      /\ "fib" \notin S /\ "fib" \notin X => FibSeen(d, P)
      /\ (F2 = TRUE \/ "policies" \notin S) /\ "policies" \notin X => PoliciesSeen(d, P, F2)
      /\ "rule" \notin S /\ "shown" \notin S /\ "shown" \notin X /\ "unread" \notin X =>
           ShownSeen(d, P, F2)
      /\ /\ "linked" \notin S /\ "links" \notin X /\ "routes" \notin X /\ "policies" \notin X
         /\ "shown" \notin X /\ "tables" \notin X /\ "matches" \notin X
         => LinkedSeen(d, P, F2)
      /\ (F2 = TRUE \/ "poll" \notin S) /\ "sessions" \notin X => SessionsSeen(d, P, F2, Q)
      /\ /\ "poll" \notin S /\ "peers" \notin S /\ "runtime" \notin S /\ "links" \notin X
         /\ "allow" \notin X /\ "online" \notin X /\ "age" \notin X
         => PeerSeen(d, P, F2)
  BY <1>3, <1>5, StepKeeps
<1>7. QED
  BY <1>1, <1>2, <1>3, <1>4, <1>6

\* A request whose answer the verdicts do not use, or one that failed and is passed over.
LEMMA NothingNew ==
  ASSUME NEW c, NEW d, NEW P, NEW F, NEW F2, FailedSince(F, F2), NEW Q, NEW p,
         Sound(c, P, F, Q), After(c, d, p, {"todo", "live"}),
         p \in {"resolve", "ifaces", "lookup", "live"} \/ (p = "policies" /\ F2 = TRUE)
  PROVE  Sound(d, P, F2, Q)
<1> DEFINE X == {"todo", "live"}
<1>1. /\ X \in SUBSET Data /\ After(c, d, p, X)
      /\ "hits" \notin X /\ "routes" \notin X /\ "links" \notin X /\ "fib" \notin X
      /\ "policies" \notin X /\ "shown" \notin X /\ "unread" \notin X /\ "tables" \notin X
      /\ "matches" \notin X /\ "sessions" \notin X /\ "allow" \notin X /\ "online" \notin X
      /\ "age" \notin X
  BY DEF Data, Fields
<1> HIDE DEF X
<1>2. /\ d \in Job /\ InTurn(d) /\ InTurn(c) /\ Seen(c, P, F, Q)
      /\ Open(c, p) /\ d.op = c.op /\ d.host = c.host
      /\ \A q \in Request : Open(d, q) <=> Open(c, q) /\ q # p
  BY <1>1, AnswerKeeps
<1>3. Agree(c, d, X)
  BY <1>1 DEF After
<1>4. /\ HitsSeen(d, P, F2) /\ RoutesSeen(d, P, F2) /\ FibSeen(d, P)
      /\ PoliciesSeen(d, P, F2) /\ ShownSeen(d, P, F2) /\ LinkedSeen(d, P, F2)
      /\ SessionsSeen(d, P, F2, Q) /\ PeerSeen(d, P, F2)
  BY <1>1, AnswerKeeps
<1>5. QED
  BY <1>2, <1>4 DEF Sound, Seen

LEMMA ListsRead ==
  ASSUME NEW c, NEW d, NEW P, NEW F, NEW F2, FailedSince(F, F2), NEW Q,
         Sound(c, P, F, Q), After(c, d, "lists", {"todo", "hits"}),
         NEW r \in P, NEW L \in SeenLists(r, F2), d.hits = Hits(L, EntriesOf(c))
  PROVE  Sound(d, P, F2, Q)
<1> DEFINE p == "lists"
           X == {"todo", "hits"}
<1>1. /\ X \in SUBSET Data /\ After(c, d, p, X)
      /\ "routes" \notin X /\ "links" \notin X /\ "fib" \notin X /\ "policies" \notin X
      /\ "shown" \notin X /\ "unread" \notin X /\ "tables" \notin X /\ "matches" \notin X
      /\ "sessions" \notin X /\ "allow" \notin X /\ "online" \notin X /\ "age" \notin X
      /\ p # "routes" /\ p # "fib" /\ p # "policies" /\ p # "rule" /\ p # "shown"
      /\ p # "linked" /\ p # "poll" /\ p # "peers" /\ p # "runtime"
  BY DEF Data, Fields
<1> HIDE DEF p, X
<1>2. /\ d \in Job /\ InTurn(d) /\ InTurn(c) /\ Seen(c, P, F, Q)
      /\ Open(c, p) /\ d.op = c.op /\ d.host = c.host
      /\ \A q \in Request : Open(d, q) <=> Open(c, q) /\ q # p
  BY <1>1, AnswerKeeps
<1>3. Agree(c, d, X)
  BY <1>1 DEF After
<1>4. /\ FibSeen(d, P)
      /\ PoliciesSeen(d, P, F2) /\ ShownSeen(d, P, F2) /\ LinkedSeen(d, P, F2)
      /\ SessionsSeen(d, P, F2, Q) /\ PeerSeen(d, P, F2)
  BY <1>1, AnswerKeeps
<1>5. HitsSeen(d, P, F2)
  BY <1>2 DEF HitsSeen, EntriesOf, ByName, Path
<1>6. RoutesSeen(d, P, F2)
  <2>1. RoutesSeen(c, P, F)
    BY <1>2 DEF Seen
  <2>2. \A q \in P : SeenRoutes(q, F) \subseteq SeenRoutes(q, F2)
    BY DEF SeenRoutes, FailedSince
  <2>3. d.routes = c.routes
    BY <1>3 DEF Agree, Fields, X
  <2>4. "routes" \in Request
    BY DEF Request
  <2>5. c.op \in Path => Open(d, "routes")
    BY <1>2, <2>4 DEF InTurn, p
  <2>6. QED
    BY <1>2, <2>1, <2>2, <2>3, <2>4, <2>5 DEF RoutesSeen, p
<1>7. QED
  BY <1>2, <1>4, <1>5, <1>6 DEF Sound, Seen

LEMMA RoutesRead ==
  ASSUME NEW c, NEW d, NEW P, NEW F, NEW F2, FailedSince(F, F2), NEW Q,
         Sound(c, P, F, Q), After(c, d, "routes", {"todo", "routes", "links"}),
         NEW r \in P, d.routes \in SeenRoutes(r, F2), d.links = LinksOf(c, d.routes)
  PROVE  Sound(d, P, F2, Q)
<1> DEFINE p == "routes"
           X == {"todo", "routes", "links"}
<1>1. /\ X \in SUBSET Data /\ After(c, d, p, X)
      /\ "hits" \notin X /\ "fib" \notin X /\ "policies" \notin X /\ "shown" \notin X
      /\ "unread" \notin X /\ "tables" \notin X /\ "matches" \notin X /\ "sessions" \notin X
      /\ "allow" \notin X /\ "online" \notin X /\ "age" \notin X
      /\ p # "lists" /\ p # "fib" /\ p # "policies" /\ p # "rule" /\ p # "shown"
      /\ p # "linked" /\ p # "poll" /\ p # "peers" /\ p # "runtime"
  BY DEF Data, Fields
<1> HIDE DEF p, X
<1>2. /\ d \in Job /\ InTurn(d) /\ InTurn(c) /\ Seen(c, P, F, Q)
      /\ Open(c, p) /\ d.op = c.op /\ d.host = c.host
      /\ \A q \in Request : Open(d, q) <=> Open(c, q) /\ q # p
  BY <1>1, AnswerKeeps
<1>3. Agree(c, d, X)
  BY <1>1 DEF After
<1>4. /\ HitsSeen(d, P, F2) /\ FibSeen(d, P)
      /\ PoliciesSeen(d, P, F2) /\ ShownSeen(d, P, F2)
      /\ SessionsSeen(d, P, F2, Q)
  BY <1>1, AnswerKeeps
<1>5. /\ "linked" \in Request /\ "poll" \in Request /\ "peers" \in Request
      /\ "runtime" \in Request
  BY DEF Request
<1>6. RoutesSeen(d, P, F2)
  <2>1. d.hits = c.hits
    BY <1>3 DEF Agree, Fields, X
  <2>2. c.op \in Path => d.links = Links(d.hits, d.routes)
    BY <2>1 DEF LinksOf, ByName, Path
  <2>3. QED
    BY <1>2, <2>2 DEF RoutesSeen
<1>7. LinkedSeen(d, P, F2)
  <2>1. d.tables = c.tables /\ d.matches = c.matches
    BY <1>3 DEF Agree, Fields, X
  <2>2. Open(c, "linked") /\ Open(d, "linked")
    BY <1>2, <1>5 DEF InTurn, p
  <2>3. LinkedSeen(c, P, F)
    BY <1>2 DEF Seen
  <2>4. c.tables = {} /\ c.matches = {}
    BY <2>2, <2>3 DEF LinkedSeen
  <2>5. QED
    BY <2>1, <2>2, <2>4 DEF LinkedSeen
<1>8. PeerSeen(d, P, F2)
  <2>1. d.allow = c.allow /\ d.online = c.online /\ d.age = c.age
    BY <1>3 DEF Agree, Fields, X
  <2>2. d.op = "verify" => Open(d, "poll") /\ Open(d, "peers") /\ Open(d, "runtime")
    BY <1>2, <1>5 DEF InTurn, p
  <2>3. PeerSeen(c, P, F)
    BY <1>2 DEF Seen
  <2>4. QED
    BY <1>2, <1>5, <2>1, <2>2, <2>3 DEF PeerSeen
<1>9. QED
  BY <1>2, <1>4, <1>6, <1>7, <1>8 DEF Sound, Seen

LEMMA FibRead ==
  ASSUME NEW c, NEW d, NEW P, NEW F, NEW Q,
         F \in BOOLEAN, Sound(c, P, F, Q), After(c, d, "fib", {"todo", "fib"}), NEW r \in P, d.fib = r.fib
  PROVE  Sound(d, P, F, Q)
<1> DEFINE p == "fib"
           X == {"todo", "fib"}
<1>1. /\ X \in SUBSET Data /\ After(c, d, p, X)
      /\ "hits" \notin X /\ "routes" \notin X /\ "links" \notin X /\ "policies" \notin X
      /\ "shown" \notin X /\ "unread" \notin X /\ "tables" \notin X /\ "matches" \notin X
      /\ "sessions" \notin X /\ "allow" \notin X /\ "online" \notin X /\ "age" \notin X
      /\ p # "lists" /\ p # "routes" /\ p # "policies" /\ p # "rule" /\ p # "shown"
      /\ p # "linked" /\ p # "poll" /\ p # "peers" /\ p # "runtime"
  BY DEF Data, Fields
<1> HIDE DEF p, X
<1>2. FailedSince(F, F)
  BY DEF FailedSince
<1>3. /\ d \in Job /\ InTurn(d) /\ InTurn(c) /\ Seen(c, P, F, Q)
      /\ Open(c, p) /\ d.op = c.op /\ d.host = c.host
      /\ \A q \in Request : Open(d, q) <=> Open(c, q) /\ q # p
  BY <1>2, <1>1, AnswerKeeps
<1>4. Agree(c, d, X)
  BY <1>1 DEF After
<1>5. /\ HitsSeen(d, P, F) /\ RoutesSeen(d, P, F)
      /\ PoliciesSeen(d, P, F) /\ ShownSeen(d, P, F) /\ LinkedSeen(d, P, F)
      /\ SessionsSeen(d, P, F, Q) /\ PeerSeen(d, P, F)
  BY <1>2, <1>1, AnswerKeeps
<1>6. FibSeen(d, P)
  BY DEF FibSeen
<1>7. QED
  BY <1>3, <1>5, <1>6 DEF Sound, Seen

LEMMA PoliciesRead ==
  ASSUME NEW c, NEW d, NEW P, NEW F, NEW Q,
         F \in BOOLEAN, Sound(c, P, F, Q), After(c, d, "policies", {"todo", "policies"}),
         NEW r \in P, d.policies = r.policies
  PROVE  Sound(d, P, F, Q)
<1> DEFINE p == "policies"
           X == {"todo", "policies"}
<1>1. /\ X \in SUBSET Data /\ After(c, d, p, X)
      /\ "hits" \notin X /\ "routes" \notin X /\ "links" \notin X /\ "fib" \notin X
      /\ "shown" \notin X /\ "unread" \notin X /\ "tables" \notin X /\ "matches" \notin X
      /\ "sessions" \notin X /\ "allow" \notin X /\ "online" \notin X /\ "age" \notin X
      /\ p # "lists" /\ p # "routes" /\ p # "fib" /\ p # "rule" /\ p # "shown"
      /\ p # "linked" /\ p # "poll" /\ p # "peers" /\ p # "runtime"
  BY DEF Data, Fields
<1> HIDE DEF p, X
<1>2. FailedSince(F, F)
  BY DEF FailedSince
<1>3. /\ d \in Job /\ InTurn(d) /\ InTurn(c) /\ Seen(c, P, F, Q)
      /\ Open(c, p) /\ d.op = c.op /\ d.host = c.host
      /\ \A q \in Request : Open(d, q) <=> Open(c, q) /\ q # p
  BY <1>2, <1>1, AnswerKeeps
<1>4. Agree(c, d, X)
  BY <1>1 DEF After
<1>5. /\ HitsSeen(d, P, F) /\ RoutesSeen(d, P, F) /\ FibSeen(d, P)
      /\ ShownSeen(d, P, F) /\ SessionsSeen(d, P, F, Q) /\ PeerSeen(d, P, F)
  BY <1>2, <1>1, AnswerKeeps
<1>6. PoliciesSeen(d, P, F)
  BY DEF PoliciesSeen
<1>7. LinkedSeen(d, P, F)
  <2>1. d.tables = c.tables /\ d.matches = c.matches
    BY <1>4 DEF Agree, Fields, X
  <2>2. Open(c, "linked") /\ Open(d, "linked")
    BY <1>3 DEF InTurn, Request, p
  <2>3. LinkedSeen(c, P, F)
    BY <1>3 DEF Seen
  <2>4. c.tables = {} /\ c.matches = {}
    BY <2>2, <2>3 DEF LinkedSeen
  <2>5. QED
    BY <2>1, <2>2, <2>4 DEF LinkedSeen
<1>8. QED
  BY <1>3, <1>5, <1>6, <1>7 DEF Sound, Seen

\* The rules are read, or their request fails; with no table named, none is read.
LEMMA RuleRead ==
  ASSUME NEW c, NEW d, NEW P, NEW F, NEW F2, FailedSince(F, F2), NEW Q, Sound(c, P, F, Q),
         c.todo # <<>>, c.todo[1] = "rule", d \in Job, Agree(c, d, {"todo", "unread"}),
         \/ d.unread # {} /\ d.todo = Tail(c.todo)
         \/ d.unread = {} /\ d.todo = Tail(<<"rule">> \o Tail(Tail(c.todo))),
         F2 = TRUE \/ \E r \in P : d.unread = DOMAIN r.shown
  PROVE  Sound(d, P, F2, Q)
<1> DEFINE X == {"todo", "unread"}
           S == IF d.unread = {} THEN {"rule", "shown"} ELSE {"rule"}
<1>1. /\ c \in Job /\ InTurn(c) /\ c.todo \in Seq(Request) /\ ShownSeen(c, P, F)
      /\ d.op = c.op
  BY DEF Sound, Job, Agree, Fields, Seen
<1>2. Open(c, "rule")
  BY <1>1, TailTurn DEF InTurn, Open
<1>3. Advanced(c, d, S) /\ InTurn(d)
  <2>1. CASE d.unread # {}
    BY <1>1, <2>1, Answered
  <2>2. CASE d.unread = {}
    BY <1>1, <2>2, RuleSkips
  <2>3. QED
    BY <2>1, <2>2
<1>4. /\ X \in SUBSET Data /\ S \in SUBSET Request /\ Agree(c, d, X)
      /\ "hits" \notin X /\ "routes" \notin X /\ "links" \notin X /\ "fib" \notin X
      /\ "policies" \notin X /\ "shown" \notin X /\ "tables" \notin X
      /\ "matches" \notin X /\ "sessions" \notin X /\ "allow" \notin X /\ "online" \notin X
      /\ "age" \notin X
      /\ "lists" \notin S /\ "routes" \notin S /\ "fib" \notin S /\ "policies" \notin S
      /\ "linked" \notin S /\ "poll" \notin S /\ "peers" \notin S /\ "runtime" \notin S
      /\ "rule" \in S /\ ("shown" \in S <=> d.unread = {})
  BY DEF Data, Fields, Request
<1> HIDE DEF X, S
<1>5. /\ \A q \in Request : Open(d, q) <=> Open(c, q) /\ q \notin S
      /\ HitsSeen(d, P, F2) /\ RoutesSeen(d, P, F2) /\ FibSeen(d, P)
      /\ PoliciesSeen(d, P, F2) /\ LinkedSeen(d, P, F2)
      /\ SessionsSeen(d, P, F2, Q) /\ PeerSeen(d, P, F2)
  BY <1>3, <1>4, StepKeeps
<1>6. d.shown = <<>> /\ DOMAIN d.shown = {}
  <2>1. d.shown = c.shown
    BY <1>4 DEF Agree, Fields
  <2>2. QED
    BY <1>1, <1>2, <2>1 DEF ShownSeen
<1>7. ~Open(d, "rule") /\ (Open(d, "shown") => d.unread # {}) /\ (~Open(d, "shown") => d.unread = {})
  <2>1. Open(c, "shown") /\ "rule" \in Request /\ "shown" \in Request
    BY <1>1, <1>2 DEF InTurn, Request
  <2>2. QED
    BY <1>4, <1>5, <2>1
<1>8. ShownSeen(d, P, F2)
  <2>1. F2 \in BOOLEAN
    BY DEF FailedSince
  <2>2. d.op \in Full /\ ~F2 => \E r \in P : DOMAIN d.shown \cup d.unread = DOMAIN r.shown
    BY <1>6, <2>1
  <2>3. QED
    BY <1>6, <1>7, <2>2 DEF ShownSeen
<1>9. QED
  BY <1>3, <1>5, <1>8 DEF Sound, Seen

\* While tables are to be read, no table was matched with a link yet.
LEMMA NotLinked ==
  ASSUME NEW c, NEW d, NEW P, NEW F, NEW F2, NEW Q, Sound(c, P, F, Q), Open(c, "linked"),
         Open(d, "linked"), d.tables = c.tables, d.matches = c.matches
  PROVE  LinkedSeen(d, P, F2)
<1>1. LinkedSeen(c, P, F)
  BY DEF Sound, Seen
<1>2. c.tables = {} /\ c.matches = {}
  BY <1>1 DEF LinkedSeen
<1>3. QED
  BY <1>2 DEF LinkedSeen

\* One table is read, or its request fails and it counts as empty.
LEMMA TableRead ==
  ASSUME NEW c, NEW d, NEW P, NEW F, NEW F2, FailedSince(F, F2), NEW Q, Sound(c, P, F, Q),
         c.todo # <<>>, c.todo[1] = "shown", d \in Job, NEW n \in c.unread, NEW table,
         Agree(c, d, {"todo", "unread", "shown"}),
         d.unread = c.unread \ {n}, d.shown = With(c.shown, n, table),
         d.todo = IF d.unread = {} THEN Tail(c.todo) ELSE c.todo,
         (F2 = TRUE /\ table = NoDefault) \/ \E r \in P : table = TableSeen(r, n)
  PROVE  Sound(d, P, F2, Q)
<1> DEFINE X == {"todo", "unread", "shown"}
           S == IF d.unread = {} THEN {"shown"} ELSE {}
<1>1. /\ c \in Job /\ InTurn(c) /\ c.todo \in Seq(Request) /\ ShownSeen(c, P, F)
      /\ d.op = c.op /\ d.tables = c.tables /\ d.matches = c.matches
  BY DEF Sound, Job, Agree, Fields, Seen
<1>2. /\ Open(c, "shown")
      /\ \A p \in Range(c.todo) : p = "shown" \/ Stage(c.op, "shown") < Stage(c.op, p)
  BY <1>1, TailTurn DEF InTurn, Open
<1>3. ~Open(c, "rule") /\ Open(c, "linked")
  <2>1. Stage(c.op, "rule") = 7 /\ Stage(c.op, "shown") = 8
    BY DEF Stage, Stages
  <2>2. QED
    BY <1>1, <1>2, <2>1 DEF Open, InTurn
<1>4. Advanced(c, d, S) /\ InTurn(d)
  <2>1. CASE d.unread = {}
    BY <1>1, <2>1, Answered
  <2>2. CASE d.unread # {}
    <3>1. d.todo = c.todo
      BY <2>2
    <3>2. \A p : Open(d, p) <=> Open(c, p)
      BY <3>1 DEF Open
    <3>3. InTurn(d)
      BY <1>1, <3>1, <3>2 DEF InTurn
    <3>4. Advanced(c, d, {})
      BY <1>1, <3>1, <3>2, <3>3 DEF Advanced, InTurn
    <3>5. QED
      BY <2>2, <3>3, <3>4
  <2>3. QED
    BY <2>1, <2>2
<1>5. /\ X \in SUBSET Data /\ S \in SUBSET Request /\ Agree(c, d, X)
      /\ "hits" \notin X /\ "routes" \notin X /\ "links" \notin X /\ "fib" \notin X
      /\ "policies" \notin X /\ "sessions" \notin X /\ "allow" \notin X /\ "online" \notin X
      /\ "age" \notin X
      /\ "lists" \notin S /\ "routes" \notin S /\ "fib" \notin S /\ "policies" \notin S
      /\ "rule" \notin S /\ "linked" \notin S /\ "poll" \notin S /\ "peers" \notin S
      /\ "runtime" \notin S /\ ("shown" \in S <=> d.unread = {})
  BY DEF Data, Fields, Request
<1> HIDE DEF X, S
<1>6. /\ \A q \in Request : Open(d, q) <=> Open(c, q) /\ q \notin S
      /\ HitsSeen(d, P, F2) /\ RoutesSeen(d, P, F2) /\ FibSeen(d, P)
      /\ PoliciesSeen(d, P, F2)
      /\ SessionsSeen(d, P, F2, Q) /\ PeerSeen(d, P, F2)
  BY <1>4, <1>5, StepKeeps
<1>7. /\ ~Open(d, "rule") /\ Open(d, "linked")
      /\ Open(d, "shown") <=> d.unread # {}
  <2>1. "rule" \in Request /\ "shown" \in Request /\ "linked" \in Request
    BY DEF Request
  <2>2. QED
    BY <1>2, <1>3, <1>5, <1>6, <2>1
<1>8. LinkedSeen(d, P, F2)
  BY <1>1, <1>3, <1>7, NotLinked
<1>9. /\ DOMAIN d.shown = DOMAIN c.shown \cup {n}
      /\ d.shown[n] = table
      /\ \A m \in DOMAIN c.shown : m # n => d.shown[m] = c.shown[m]
  BY DEF With
<1>10. ShownSeen(d, P, F2)
  <2>1. F \in BOOLEAN /\ F2 \in BOOLEAN /\ (~F2 => ~F)
    BY DEF FailedSince
  <2>2. ASSUME NEW m \in DOMAIN d.shown
        PROVE  /\ \/ d.shown[m] = NoDefault
                  \/ \E r \in P : m \in DOMAIN r.shown /\ d.shown[m] = r.shown[m]
               /\ ~F2 => \E r \in P : d.shown[m] = TableSeen(r, m)
    <3>1. CASE m = n
      BY <1>9, <2>1, <3>1 DEF TableSeen
    <3>2. CASE m # n
      BY <1>1, <1>9, <2>1, <2>2, <3>2 DEF ShownSeen
    <3>3. QED
      BY <3>1, <3>2
  <2>3. d.op \in Full /\ ~F2 => \E r \in P : DOMAIN d.shown \cup d.unread = DOMAIN r.shown
    <3>1. DOMAIN d.shown \cup d.unread = DOMAIN c.shown \cup c.unread
      BY <1>9
    <3>2. QED
      BY <1>1, <1>3, <2>1, <3>1 DEF ShownSeen
  <2>4. QED
    BY <1>7, <2>2, <2>3 DEF ShownSeen
<1>11. QED
  BY <1>4, <1>6, <1>8, <1>10 DEF Sound, Seen

\* The routes are read once more, and tables and links are matched.
LEMMA LinkedRead ==
  ASSUME NEW c, NEW d, NEW P, NEW F, NEW F2, FailedSince(F, F2), NEW Q, Sound(c, P, F, Q),
         After(c, d, "linked", {"todo", "tables", "matches"}),
         NEW r \in P, NEW R \in SeenRoutes(r, F2),
         d.tables = Tables(c.policies, c.shown, R), d.matches \in MatchesOf(c, d.tables)
  PROVE  Sound(d, P, F2, Q)
<1> DEFINE p == "linked"
           X == {"todo", "tables", "matches"}
<1>1. /\ X \in SUBSET Data /\ After(c, d, p, X)
      /\ "hits" \notin X /\ "routes" \notin X /\ "links" \notin X /\ "fib" \notin X
      /\ "policies" \notin X /\ "shown" \notin X /\ "unread" \notin X
      /\ "sessions" \notin X /\ "allow" \notin X /\ "online" \notin X /\ "age" \notin X
      /\ p # "lists" /\ p # "routes" /\ p # "fib" /\ p # "policies" /\ p # "rule"
      /\ p # "shown" /\ p # "poll" /\ p # "peers" /\ p # "runtime"
  BY DEF Data, Fields
<1> HIDE DEF p, X
<1>2. /\ d \in Job /\ InTurn(d) /\ d.op = c.op
      /\ \A q \in Request : Open(d, q) <=> Open(c, q) /\ q # p
  BY <1>1, AnswerKeeps
<1>3. /\ HitsSeen(d, P, F2) /\ RoutesSeen(d, P, F2) /\ FibSeen(d, P)
      /\ PoliciesSeen(d, P, F2) /\ ShownSeen(d, P, F2)
      /\ SessionsSeen(d, P, F2, Q) /\ PeerSeen(d, P, F2)
  BY <1>1, AnswerKeeps
<1>4. /\ d.policies = c.policies /\ d.shown = c.shown /\ d.links = c.links
      /\ d.routes = c.routes
  BY <1>1 DEF After, Agree, Fields, X
<1>5. MatchesOf(d, d.tables) = MatchesOf(c, d.tables)
  BY <1>2, <1>4 DEF MatchesOf, ByName
<1>6. ~Open(d, "linked")
  BY <1>2 DEF Request, p
<1>7. LinkedSeen(d, P, F2)
  BY <1>4, <1>5, <1>6 DEF LinkedSeen
<1>8. QED
  BY <1>2, <1>3, <1>7 DEF Sound, Seen

\* No request was made: a call sleeps or wakes, or the router changes.
LEMMA NothingAsked ==
  ASSUME NEW c, c \in Job, InTurn(c), NEW d, d.op = c.op, d.todo = c.todo
  PROVE  Advanced(c, d, {}) /\ InTurn(d) /\ \A p : Open(d, p) <=> Open(c, p)
<1>1. \A p : Open(d, p) <=> Open(c, p)
  BY DEF Open
<1>2. InTurn(d)
  BY <1>1 DEF InTurn
<1>3. d.todo \in Seq(Request)
  BY DEF Job
<1>4. QED
  BY <1>1, <1>2, <1>3 DEF Advanced, InTurn

LEMMA Woken ==
  ASSUME NEW c, NEW d, NEW P, NEW F \in BOOLEAN, NEW Q, Sound(c, P, F, Q), d \in Job,
         Agree(c, d, {"left", "asleep"})
  PROVE  Sound(d, P, F, Q)
<1> DEFINE X == {"left", "asleep"}
           S == {}
<1>1. c \in Job /\ InTurn(c) /\ d.op = c.op /\ d.todo = c.todo
  BY DEF Sound, Agree, Fields
<1>2. Advanced(c, d, S) /\ InTurn(d)
  BY <1>1, NothingAsked
<1>3. /\ X \in SUBSET Data /\ S \in SUBSET Request /\ Agree(c, d, X)
      /\ "hits" \notin X /\ "routes" \notin X /\ "links" \notin X /\ "fib" \notin X
      /\ "policies" \notin X /\ "shown" \notin X /\ "unread" \notin X /\ "tables" \notin X
      /\ "matches" \notin X /\ "sessions" \notin X /\ "allow" \notin X /\ "online" \notin X
      /\ "age" \notin X
      /\ "lists" \notin S /\ "routes" \notin S /\ "fib" \notin S /\ "policies" \notin S
      /\ "rule" \notin S /\ "shown" \notin S /\ "linked" \notin S /\ "poll" \notin S
      /\ "peers" \notin S /\ "runtime" \notin S
  BY DEF Data, Fields
<1>4. FailedSince(F, F)
  BY DEF FailedSince
<1> HIDE DEF X, S
<1>5. /\ HitsSeen(d, P, F) /\ RoutesSeen(d, P, F) /\ FibSeen(d, P)
      /\ PoliciesSeen(d, P, F) /\ ShownSeen(d, P, F) /\ LinkedSeen(d, P, F)
      /\ SessionsSeen(d, P, F, Q) /\ PeerSeen(d, P, F)
  BY <1>2, <1>3, <1>4, StepKeeps
<1>6. QED
  BY <1>2, <1>5 DEF Sound, Seen

\* The router changes: the call has seen what it had.
LEMMA RouterMoves ==
  ASSUME NEW c, NEW P, NEW P2, P \subseteq P2, NEW F \in BOOLEAN, NEW Q, Sound(c, P, F, Q)
  PROVE  Sound(c, P2, F, Q)
<1> DEFINE X == {}
           S == {}
<1>1. c \in Job /\ InTurn(c) /\ Seen(c, P, F, Q)
  BY DEF Sound
<1>2. Advanced(c, c, S)
  BY <1>1, NothingAsked
<1>3. /\ X \in SUBSET Data /\ S \in SUBSET Request /\ Agree(c, c, X)
      /\ \A Y : X \cap Y = {} /\ S \cap Y = {}
      /\ \A p : p \notin S
  BY DEF Agree
<1>4. Later(P, F, P2, F)
  BY DEF FailedSince, Later
<1> HIDE DEF X, S
<1>5. /\ HitsSeen(c, P2, F) /\ RoutesSeen(c, P2, F) /\ FibSeen(c, P2)
      /\ PoliciesSeen(c, P2, F) /\ ShownSeen(c, P2, F) /\ LinkedSeen(c, P2, F)
      /\ SessionsSeen(c, P2, F, Q) /\ PeerSeen(c, P2, F)
  BY <1>1, <1>2, <1>3, <1>4, SeenGrows
<1>6. QED
  BY <1>1, <1>5 DEF Sound, Seen

\* From the first poll on, only these requests are left.
LateRequests == {"poll", "peers", "runtime"}

LEMMA OnlyLate ==
  ASSUME NEW c, c \in Job, InTurn(c), c.todo # <<>>, c.todo[1] \in LateRequests
  PROVE  /\ \A q \in Request : Open(c, q) => q \in LateRequests
         /\ c.todo[1] # "poll" => ~Open(c, "poll") /\ c.op = "verify"
         /\ c.todo[1] = "runtime" => ~Open(c, "peers")
         /\ c.todo[1] = "poll" => Open(c, "poll") /\ c.op \in {"verify", "conntrack"}
<1> DEFINE p == c.todo[1]
<1>1. c.todo \in Seq(Request) /\ Sorted(c.op, c.todo)
  BY DEF Job, InTurn
<1>2. /\ p \in Range(c.todo) /\ p \in Request
      /\ \A q \in Range(c.todo) : q \in Request /\ (q = p \/ Stage(c.op, p) < Stage(c.op, q))
  BY <1>1, TailTurn
<1>3. p \in LateRequests
  OBVIOUS
<1> HIDE DEF p
<1>4. c.op \in {"verify", "conntrack"} /\ (p # "poll" => c.op = "verify")
  BY <1>2, <1>3 DEF InTurn, Open, LateRequests
<1>5. Stage(c.op, p) = IF p = "poll" THEN 11 ELSE IF p = "peers" THEN 12 ELSE 13
  BY <1>3 DEF Stage, Stages, LateRequests
<1>6. \A q \in Request \ LateRequests : Stage(c.op, q) \in 0..10
  BY <1>4 DEF Request, Stage, Stages, LateRequests
<1>7. Stage(c.op, "poll") = 11 /\ Stage(c.op, "peers") = 12
  BY DEF Stage, Stages
<1>8. \A q \in Request : Open(c, q) => q \in LateRequests
  <2>1. SUFFICES ASSUME NEW q \in Request \ LateRequests, Open(c, q)
                 PROVE  FALSE
    OBVIOUS
  <2>2. q = p \/ Stage(c.op, p) < Stage(c.op, q)
    BY <1>2, <2>1 DEF Open
  <2>3. Stage(c.op, q) \in 0..10
    BY <1>6
  <2>4. QED
    BY <1>3, <1>5, <2>2, <2>3
<1>9. p # "poll" => ~Open(c, "poll")
  BY <1>2, <1>3, <1>5, <1>7 DEF Open, LateRequests
<1>10. p = "runtime" => ~Open(c, "peers")
  BY <1>2, <1>5, <1>7 DEF Open
<1>11. p = "poll" => Open(c, "poll")
  BY <1>2 DEF Open
<1>12. QED
  BY <1>4, <1>8, <1>9, <1>10, <1>11 DEF p

\* The sessions after a poll: those of a router, none when it failed, or the aggregate.
NewSessions(c, d, P, F, Q) ==
  /\ c.op = "verify" => \/ F = TRUE /\ d.sessions = <<>>
                        \/ \E r \in P : d.sessions \in SessionsOf(r.nat)
  /\ c.op = "conntrack" => Kept(d.sessions, c.only, Q)

LEMMA NewSessionsSeen ==
  ASSUME NEW c, NEW d, NEW P, NEW F, NEW F2 \in BOOLEAN, NEW Q, NEW Q2, Sound(c, P, F, Q),
         d.op = c.op, d.only = c.only, NewSessions(c, d, P, F2, Q2)
  PROVE  SessionsSeen(d, P, F2, Q2)
<1>1. SessionsSeen(c, P, F, Q)
  BY DEF Sound, Seen
<1>2. QED
  BY <1>1 DEF SessionsSeen, NewSessions

LEMMA PolledAgain ==
  ASSUME NEW c, NEW d, NEW P, NEW F, NEW F2, FailedSince(F, F2), NEW Q, NEW Q2,
         Sound(c, P, F, Q), d \in Job, Agree(c, d, {"left", "asleep", "sessions"}),
         NewSessions(c, d, P, F2, Q2)
  PROVE  Sound(d, P, F2, Q2)
<1> DEFINE X == {"left", "asleep", "sessions"}
           S == {}
<1>1. c \in Job /\ InTurn(c) /\ d.op = c.op /\ d.only = c.only /\ d.todo = c.todo
  BY DEF Sound, Agree, Fields
<1>2. Advanced(c, d, S) /\ InTurn(d)
  BY <1>1, NothingAsked
<1>3. /\ X \in SUBSET Data /\ S \in SUBSET Request /\ Agree(c, d, X)
      /\ "hits" \notin X /\ "routes" \notin X /\ "links" \notin X /\ "fib" \notin X
      /\ "policies" \notin X /\ "shown" \notin X /\ "unread" \notin X /\ "tables" \notin X
      /\ "matches" \notin X /\ "allow" \notin X /\ "online" \notin X
      /\ "age" \notin X
      /\ "lists" \notin S /\ "routes" \notin S /\ "fib" \notin S /\ "policies" \notin S
      /\ "rule" \notin S /\ "shown" \notin S /\ "linked" \notin S /\ "poll" \notin S
      /\ "peers" \notin S /\ "runtime" \notin S
  BY DEF Data, Fields
<1> HIDE DEF X, S
<1>4. /\ HitsSeen(d, P, F2) /\ RoutesSeen(d, P, F2) /\ FibSeen(d, P)
      /\ PoliciesSeen(d, P, F2) /\ ShownSeen(d, P, F2) /\ LinkedSeen(d, P, F2)
      /\ PeerSeen(d, P, F2)
  BY <1>2, <1>3, StepKeeps
<1>5. F2 \in BOOLEAN
  BY DEF FailedSince
<1>6. SessionsSeen(d, P, F2, Q2)
  BY <1>1, <1>5, NewSessionsSeen
<1>7. QED
  BY <1>2, <1>4, <1>6 DEF Sound, Seen

LEMMA PollsOver ==
  ASSUME NEW c, NEW d, NEW P, NEW F, NEW F2, FailedSince(F, F2), NEW Q, NEW Q2,
         Sound(c, P, F, Q), c.todo # <<>>, c.todo[1] = "poll", d \in Job,
         Agree(c, d, {"todo", "left", "sessions"}), d.todo = AfterPolls(c),
         NewSessions(c, d, P, F2, Q2)
  PROVE  Sound(d, P, F2, Q2)
<1> DEFINE X == {"todo", "left", "sessions"}
           on == c.op = "verify" /\ Egress(c) \in Tunnel
           S == IF on THEN {"poll"} ELSE LateRequests
<1>1. /\ c \in Job /\ InTurn(c) /\ d.op = c.op /\ d.only = c.only /\ c.todo \in Seq(Request)
      /\ d.links = c.links /\ d.allow = c.allow /\ d.online = c.online /\ d.age = c.age
      /\ PeerSeen(c, P, F)
  BY DEF Sound, Agree, Fields, Job, Seen
<1>2. c.todo[1] \in LateRequests
  BY DEF LateRequests
<1>3. /\ \A q \in Request : Open(c, q) => q \in LateRequests
      /\ Open(c, "poll") /\ c.op \in {"verify", "conntrack"}
  BY <1>1, <1>2, OnlyLate
<1>4. Advanced(c, d, S) /\ InTurn(d)
  <2>1. CASE on
    <3>1. d.todo = Tail(c.todo)
      BY <2>1 DEF AfterPolls
    <3>2. Advanced(c, d, {c.todo[1]}) /\ InTurn(d)
      BY <1>1, <3>1, Answered
    <3>3. QED
      BY <2>1, <3>2
  <2>2. CASE ~on
    <3>1. d.todo = <<>>
      BY <2>2 DEF AfterPolls
    <3>2. \A p : ~Open(d, p)
      BY <3>1 DEF Open, Range
    <3>3. d.todo \in Seq(Request) /\ Sorted(d.op, d.todo)
      BY <3>1 DEF Sorted
    <3>4. Advanced(c, d, LateRequests) /\ InTurn(d)
      BY <1>1, <1>3, <3>2, <3>3 DEF Advanced, InTurn
    <3>5. QED
      BY <2>2, <3>4
  <2>3. QED
    BY <2>1, <2>2
<1>5. /\ X \in SUBSET Data /\ S \in SUBSET Request /\ Agree(c, d, X)
      /\ "hits" \notin X /\ "routes" \notin X /\ "links" \notin X /\ "fib" \notin X
      /\ "policies" \notin X /\ "shown" \notin X /\ "unread" \notin X /\ "tables" \notin X
      /\ "matches" \notin X
      /\ "lists" \notin S /\ "routes" \notin S /\ "fib" \notin S /\ "policies" \notin S
      /\ "rule" \notin S /\ "shown" \notin S /\ "linked" \notin S
      /\ "poll" \in S /\ ("peers" \in S <=> ~on) /\ ("runtime" \in S <=> ~on)
  BY DEF Data, Fields, Request, LateRequests
<1> HIDE DEF X, S
<1>6. /\ \A q \in Request : Open(d, q) <=> Open(c, q) /\ q \notin S
      /\ HitsSeen(d, P, F2) /\ RoutesSeen(d, P, F2) /\ FibSeen(d, P)
      /\ PoliciesSeen(d, P, F2) /\ ShownSeen(d, P, F2) /\ LinkedSeen(d, P, F2)
  BY <1>4, <1>5, StepKeeps
<1>7. F \in BOOLEAN /\ F2 \in BOOLEAN /\ (~F2 => ~F)
  BY DEF FailedSince
<1>8. SessionsSeen(d, P, F2, Q2)
  BY <1>1, <1>7, NewSessionsSeen
<1>9. PeerSeen(d, P, F2)
  <2>1. "poll" \in Request /\ "peers" \in Request /\ "runtime" \in Request
    BY DEF Request
  <2>2. Egress(d) = Egress(c)
    BY <1>1 DEF Egress
  <2>3. /\ c.op = "verify" => /\ Open(c, "peers") /\ Open(c, "runtime")
                              /\ c.online = Unknown
        /\ c.allow = Unknown \/ \E r \in P : c.allow = r.allow
        /\ \/ c.online = Unknown /\ c.age = Unknown
           \/ \E r \in P : c.online = r.online /\ c.age = r.age
        /\ Open(c, "runtime") => c.online = Unknown
    BY <1>1, <1>3 DEF InTurn, PeerSeen
  <2>4. /\ ~on => ~Open(d, "runtime")
        /\ on => Open(d, "peers") /\ Open(d, "runtime")
        /\ Open(d, "runtime") => Open(c, "runtime")
    BY <1>5, <1>6, <2>1, <2>3
  <2>5. QED
    BY <1>1, <2>2, <2>3, <2>4 DEF PeerSeen
<1>10. QED
  BY <1>4, <1>6, <1>8, <1>9 DEF Sound, Seen

LEMMA PeersRead ==
  ASSUME NEW c, NEW d, NEW P, NEW F \in BOOLEAN, NEW Q, Sound(c, P, F, Q),
         After(c, d, "peers", {"todo", "allow"}), NEW r \in P, d.allow = r.allow,
         d.allow \in Cover
  PROVE  Sound(d, P, F, Q)
<1> DEFINE p == "peers"
           X == {"todo", "allow"}
<1>1. /\ X \in SUBSET Data /\ After(c, d, p, X)
      /\ "hits" \notin X /\ "routes" \notin X /\ "links" \notin X /\ "fib" \notin X
      /\ "policies" \notin X /\ "shown" \notin X /\ "unread" \notin X
      /\ "tables" \notin X /\ "matches" \notin X /\ "sessions" \notin X
      /\ p # "lists" /\ p # "routes" /\ p # "fib" /\ p # "policies" /\ p # "rule"
      /\ p # "shown" /\ p # "poll" /\ p # "linked" /\ p # "runtime"
  BY DEF Data, Fields
<1>2. FailedSince(F, F)
  BY DEF FailedSince
<1>3. c.todo # <<>> /\ c.todo[1] = p /\ p \in LateRequests
  BY <1>1 DEF After, LateRequests
<1> HIDE DEF p, X
<1>4. /\ d \in Job /\ InTurn(d) /\ d.op = c.op /\ InTurn(c) /\ c \in Job /\ Open(c, p)
      /\ Seen(c, P, F, Q)
      /\ \A q \in Request : Open(d, q) <=> Open(c, q) /\ q # p
  BY <1>1, <1>2, AnswerKeeps
<1>5. /\ HitsSeen(d, P, F) /\ RoutesSeen(d, P, F) /\ FibSeen(d, P)
      /\ PoliciesSeen(d, P, F) /\ ShownSeen(d, P, F) /\ LinkedSeen(d, P, F)
      /\ SessionsSeen(d, P, F, Q)
  BY <1>1, <1>2, AnswerKeeps
<1>6. d.links = c.links /\ d.online = c.online /\ d.age = c.age
  BY <1>1 DEF After, Agree, Fields, X
<1>7. PeerSeen(d, P, F)
  <2>1. PeerSeen(c, P, F)
    BY <1>4 DEF Seen
  <2>2. Egress(d) = Egress(c)
    BY <1>6 DEF Egress
  <2>3. ~Open(c, "poll") /\ Open(c, "runtime")
    BY <1>1, <1>3, <1>4, OnlyLate DEF InTurn, p
  <2>4. /\ "poll" \in Request /\ "peers" \in Request /\ "runtime" \in Request
        /\ "runtime" # p /\ "poll" # p
    BY DEF Request, p
  <2>5. Open(d, "runtime") /\ ~Open(d, "poll")
    BY <1>4, <2>3, <2>4
  <2>6. QED
    BY <1>4, <1>6, <2>1, <2>2, <2>3, <2>5 DEF PeerSeen, Cover, Unknown
<1>8. QED
  BY <1>4, <1>5, <1>7 DEF Sound, Seen

LEMMA RuntimeRead ==
  ASSUME NEW c, NEW d, NEW P, NEW F \in BOOLEAN, NEW Q, Sound(c, P, F, Q),
         After(c, d, "runtime", {"todo", "online", "age"}),
         NEW r \in P, d.online = r.online, d.age = r.age, d.online \in Online
  PROVE  Sound(d, P, F, Q)
<1> DEFINE p == "runtime"
           X == {"todo", "online", "age"}
<1>1. /\ X \in SUBSET Data /\ After(c, d, p, X)
      /\ "hits" \notin X /\ "routes" \notin X /\ "links" \notin X /\ "fib" \notin X
      /\ "policies" \notin X /\ "shown" \notin X /\ "unread" \notin X
      /\ "tables" \notin X /\ "matches" \notin X /\ "sessions" \notin X
      /\ p # "lists" /\ p # "routes" /\ p # "fib" /\ p # "policies" /\ p # "rule"
      /\ p # "shown" /\ p # "poll" /\ p # "linked" /\ p # "peers"
  BY DEF Data, Fields
<1>2. FailedSince(F, F)
  BY DEF FailedSince
<1>3. c.todo # <<>> /\ c.todo[1] = p /\ p \in LateRequests
  BY <1>1 DEF After, LateRequests
<1> HIDE DEF p, X
<1>4. /\ d \in Job /\ InTurn(d) /\ d.op = c.op /\ InTurn(c) /\ c \in Job /\ Open(c, p)
      /\ Seen(c, P, F, Q)
      /\ \A q \in Request : Open(d, q) <=> Open(c, q) /\ q # p
  BY <1>1, <1>2, AnswerKeeps
<1>5. /\ HitsSeen(d, P, F) /\ RoutesSeen(d, P, F) /\ FibSeen(d, P)
      /\ PoliciesSeen(d, P, F) /\ ShownSeen(d, P, F) /\ LinkedSeen(d, P, F)
      /\ SessionsSeen(d, P, F, Q)
  BY <1>1, <1>2, AnswerKeeps
<1>6. d.links = c.links /\ d.allow = c.allow
  BY <1>1 DEF After, Agree, Fields, X
<1>7. PeerSeen(d, P, F)
  <2>1. PeerSeen(c, P, F)
    BY <1>4 DEF Seen
  <2>2. Egress(d) = Egress(c)
    BY <1>6 DEF Egress
  <2>3. ~Open(c, "poll") /\ ~Open(c, "peers") /\ Open(c, "runtime") /\ c.op = "verify"
    BY <1>1, <1>3, <1>4, OnlyLate DEF InTurn, p
  <2>4. "poll" \in Request /\ "peers" \in Request /\ "runtime" \in Request /\ "runtime" = p
    BY DEF Request, p
  <2>5. ~Open(d, "runtime") /\ ~Open(d, "poll") /\ ~Open(d, "peers")
    BY <1>4, <2>3, <2>4
  <2>6. QED
    BY <1>4, <1>6, <2>1, <2>2, <2>3, <2>5 DEF PeerSeen, Online, Unknown
<1>8. QED
  BY <1>4, <1>5, <1>7 DEF Sound, Seen

\* A WireGuard read fails: the rest is not read.
LEMMA WireguardLost ==
  ASSUME NEW c, NEW d, NEW P, NEW F \in BOOLEAN, NEW Q, Sound(c, P, F, Q),
         c.todo # <<>>, c.todo[1] \in {"peers", "runtime"}, d \in Job, Agree(c, d, {"todo"}),
         d.todo = <<>>
  PROVE  Sound(d, P, TRUE, Q)
<1> DEFINE X == {"todo"}
           S == {"peers", "runtime"}
<1>1. /\ c \in Job /\ InTurn(c) /\ PeerSeen(c, P, F)
      /\ d.op = c.op /\ d.links = c.links /\ d.allow = c.allow /\ d.online = c.online
      /\ d.age = c.age
  BY DEF Sound, Agree, Fields, Seen
<1>2. /\ \A q \in Request : Open(c, q) => q \in LateRequests
      /\ ~Open(c, "poll") /\ c.op = "verify"
  BY <1>1, OnlyLate DEF LateRequests
<1>3. \A p : ~Open(d, p)
  BY DEF Open, Range
<1>4. Advanced(c, d, S) /\ InTurn(d)
  <2>1. d.todo \in Seq(Request) /\ Sorted(d.op, d.todo)
    BY DEF Sorted
  <2>2. QED
    BY <1>1, <1>2, <1>3, <2>1 DEF Advanced, InTurn, LateRequests
<1>5. /\ X \in SUBSET Data /\ S \in SUBSET Request /\ Agree(c, d, X)
      /\ "hits" \notin X /\ "routes" \notin X /\ "links" \notin X /\ "fib" \notin X
      /\ "policies" \notin X /\ "shown" \notin X /\ "unread" \notin X /\ "tables" \notin X
      /\ "matches" \notin X /\ "sessions" \notin X
      /\ "lists" \notin S /\ "routes" \notin S /\ "fib" \notin S /\ "policies" \notin S
      /\ "rule" \notin S /\ "shown" \notin S /\ "linked" \notin S /\ "poll" \notin S
  BY DEF Data, Fields, Request
<1>6. FailedSince(F, TRUE)
  BY DEF FailedSince
<1> HIDE DEF X, S
<1>7. /\ HitsSeen(d, P, TRUE) /\ RoutesSeen(d, P, TRUE) /\ FibSeen(d, P)
      /\ PoliciesSeen(d, P, TRUE) /\ ShownSeen(d, P, TRUE) /\ LinkedSeen(d, P, TRUE)
      /\ SessionsSeen(d, P, TRUE, Q)
  BY <1>4, <1>5, <1>6, StepKeeps
<1>8. PeerSeen(d, P, TRUE)
  <2>1. Egress(d) = Egress(c)
    BY <1>1 DEF Egress
  <2>2. QED
    BY <1>1, <1>2, <1>3, <2>1 DEF PeerSeen
<1>9. QED
  BY <1>4, <1>7, <1>8 DEF Sound, Seen

\* explain_dns_route goes on without the tables.
WithoutTables(todo) == SubSeq(todo, 5, Len(todo))

LEMMA TablesLost ==
  ASSUME NEW c, NEW d, NEW P, NEW F \in BOOLEAN, NEW Q, Sound(c, P, F, Q),
         c.todo # <<>>, c.todo[1] = "policies", c.op \notin Full, d \in Job,
         Agree(c, d, {"todo"}), d.todo = WithoutTables(c.todo)
  PROVE  Sound(d, P, TRUE, Q)
<1> DEFINE X == {"todo"}
           S == TableRequests
<1>1. /\ c \in Job /\ InTurn(c) /\ c.todo \in Seq(Request) /\ ShownSeen(c, P, F)
      /\ LinkedSeen(c, P, F)
      /\ d.op = c.op /\ d.shown = c.shown /\ d.unread = c.unread /\ d.tables = c.tables
      /\ d.matches = c.matches
  BY DEF Sound, Agree, Fields, Seen, Job
<1>2. Advanced(c, d, S) /\ InTurn(d)
  BY <1>1, TablesSkipped DEF WithoutTables
<1>3. /\ X \in SUBSET Data /\ S \in SUBSET Request /\ Agree(c, d, X)
      /\ "hits" \notin X /\ "routes" \notin X /\ "links" \notin X /\ "fib" \notin X
      /\ "policies" \notin X /\ "sessions" \notin X /\ "allow" \notin X
      /\ "online" \notin X /\ "age" \notin X
      /\ "lists" \notin S /\ "routes" \notin S /\ "fib" \notin S
      /\ "poll" \notin S /\ "peers" \notin S /\ "runtime" \notin S
      /\ "rule" \in S /\ "shown" \in S /\ "linked" \in S
  BY DEF Data, Fields, Request, TableRequests
<1>4. FailedSince(F, TRUE)
  BY DEF FailedSince
<1> HIDE DEF X, S
<1>5. /\ \A q \in Request : Open(d, q) <=> Open(c, q) /\ q \notin S
      /\ HitsSeen(d, P, TRUE) /\ RoutesSeen(d, P, TRUE) /\ FibSeen(d, P)
      /\ PoliciesSeen(d, P, TRUE) /\ SessionsSeen(d, P, TRUE, Q) /\ PeerSeen(d, P, TRUE)
  BY <1>2, <1>3, <1>4, StepKeeps
<1>6. Open(c, "policies")
  BY <1>1, TailTurn DEF InTurn, Open
<1>7. /\ Open(c, "rule") /\ Open(c, "linked")
      /\ ~Open(d, "rule") /\ ~Open(d, "shown") /\ ~Open(d, "linked")
  BY <1>1, <1>3, <1>5, <1>6 DEF InTurn, Request
<1>8. ShownSeen(d, P, TRUE)
  <2>1. d.shown = <<>> /\ DOMAIN d.shown = {} /\ d.unread = {}
    BY <1>1, <1>7 DEF ShownSeen
  <2>2. QED
    BY <1>7, <2>1 DEF ShownSeen
<1>9. LinkedSeen(d, P, TRUE)
  <2>1. c.tables = {} /\ c.matches = {}
    BY <1>1, <1>7 DEF LinkedSeen
  <2>2. QED
    BY <1>1, <2>1 DEF LinkedSeen
<1>10. QED
  BY <1>2, <1>5, <1>8, <1>9 DEF Sound, Seen

\* A call that begins.
LEMMA OpenedSound ==
  ASSUME NEW k \in Calls, NEW r \in GoodRouter
  PROVE  Sound(Opened(k), {r}, FALSE, {})
<1> DEFINE c == Opened(k)
<1>1. k \in Call /\ (k.only => k.op = "conntrack")
  BY FlowPathAssumption
<1>2. /\ k.op \in Ops /\ k.host \in BOOLEAN /\ k.list \in ListId /\ k.left \in Nat
      /\ k.only \in BOOLEAN /\ k.limit \in Nat \ {0}
  BY <1>1 DEF Call
<1>3. /\ Reads(k.op, k.host) \in Seq(Request) /\ Sorted(k.op, Reads(k.op, k.host))
      /\ Range(Reads(k.op, k.host)) = Asked(k.op, k.host)
  BY <1>2, ReadsAre
<1>4. /\ c.op = k.op /\ c.host = k.host /\ c.list = k.list /\ c.left = k.left /\ c.only = k.only
      /\ c.todo = Reads(k.op, k.host) /\ c.hits = {} /\ c.routes = <<>> /\ c.links = <<>>
      /\ c.fib = <<>> /\ c.policies = <<>> /\ c.shown = <<>> /\ c.unread = {} /\ c.tables = {}
      /\ c.matches = {} /\ c.sessions = <<>> /\ c.live = {} /\ c.allow = Unknown
      /\ c.online = Unknown /\ c.age = Unknown /\ c.asleep = FALSE
  BY DEF Opened
<1>5. c \in Job
  <2>1. <<>> \in Tabling /\ <<>> \in Policing /\ <<>> \in Partial(Key, Session)
    <3>1. \A S, T : <<>> \in Partial(S, T)
      BY DEF Partial
    <3>2. QED
      BY <3>1 DEF Tabling, Policing
  <2>2. \A S : <<>> \in Seq(S)
    OBVIOUS
  <2>3. QED
    BY <1>2, <1>3, <2>1, <2>2 DEF Opened, Job
<1> HIDE DEF c
<1>6. \A p : Open(c, p) <=> p \in Asked(k.op, k.host)
  BY <1>3, <1>4 DEF Open
<1>7. InTurn(c)
  <2>1. Sorted(c.op, c.todo)
    BY <1>3, <1>4
  <2>2. /\ Open(c, "policies") => Open(c, "rule")
        /\ Open(c, "rule") => Open(c, "shown")
        /\ Open(c, "shown") => Open(c, "linked")
        /\ Open(c, "routes") => Open(c, "linked")
    BY <1>2, <1>6 DEF Asked, TableRequests, Path, Ops
  <2>3. /\ c.op \in Path /\ Open(c, "lists") => Open(c, "routes")
        /\ c.op = "verify" /\ Open(c, "routes") => Open(c, "poll")
        /\ c.op = "verify" /\ Open(c, "poll") => Open(c, "peers")
    BY <1>4, <1>6 DEF Asked, Path
  <2>4. /\ Open(c, "peers") => Open(c, "runtime")
        /\ Open(c, "runtime") => c.op = "verify"
        /\ Open(c, "poll") => c.op \in {"verify", "conntrack"}
    <3>1. \A q \in {"poll", "peers", "runtime"} :
            q \in Asked(k.op, k.host) => k.op = "verify" \/ (k.op = "conntrack" /\ q = "poll")
      BY <1>2 DEF Asked, TableRequests, Path, Ops
    <3>2. k.op = "verify" => "runtime" \in Asked(k.op, k.host)
      BY DEF Asked, Path
    <3>3. QED
      BY <1>4, <1>6, <3>1, <3>2
  <2>5. QED
    BY <2>1, <2>2, <2>3, <2>4 DEF InTurn
<1>8. c.op \in Path => Open(c, "lists") /\ Open(c, "routes") /\ Open(c, "fib")
  BY <1>4, <1>6 DEF Asked, Path
<1>9. c.op \in Full => /\ Open(c, "routes") /\ Open(c, "policies") /\ Open(c, "rule")
                       /\ Open(c, "linked")
  BY <1>4, <1>6 DEF Asked, TableRequests, Full, Path
<1>10. c.op = "verify" => Open(c, "poll") /\ Open(c, "peers") /\ Open(c, "runtime")
  BY <1>4, <1>6 DEF Asked, Path
<1>11. HitsSeen(c, {r}, FALSE) /\ FibSeen(c, {r})
  BY <1>8 DEF HitsSeen, FibSeen
<1>12. RoutesSeen(c, {r}, FALSE)
  BY <1>4, <1>8, <1>9 DEF RoutesSeen
<1>13. DOMAIN c.shown = {} /\ DOMAIN c.policies = {}
  BY <1>4
<1>14. PoliciesSeen(c, {r}, FALSE)
  BY <1>9, <1>13 DEF PoliciesSeen
<1>15. ShownSeen(c, {r}, FALSE)
  <2>1. Open(c, "shown") => Open(c, "rule")
    BY <1>2, <1>6 DEF Asked, TableRequests, Ops, Path
  <2>2. QED
    BY <1>4, <1>9, <1>13, <2>1 DEF ShownSeen
<1>16. LinkedSeen(c, {r}, FALSE)
  BY <1>4, <1>9 DEF LinkedSeen
<1>17. SessionsSeen(c, {r}, FALSE, {})
  <2>1. c.op = "verify" => ~c.only
    BY <1>1, <1>4
  <2>2. c.op = "conntrack" => Kept(c.sessions, c.only, {})
    <3>1. \A n : Taken({}, c.only, n) = {}
      BY DEF Taken
    <3>2. DOMAIN c.sessions = {}
      BY <1>4
    <3>3. QED
      BY <3>1, <3>2 DEF Kept
  <2>3. QED
    BY <1>4, <1>10, <2>1, <2>2 DEF SessionsSeen
<1>18. PeerSeen(c, {r}, FALSE)
  BY <1>4, <1>10 DEF PeerSeen
<1>19. QED
  BY <1>5, <1>7, <1>11, <1>12, <1>14, <1>15, <1>16, <1>17, <1>18 DEF Sound, Seen, c

-----------------------------------------------------------------------------
(* The aggregate of get_conntrack. *)

LEMMA PartialIs ==
  ASSUME NEW S, NEW T, NEW f \in Partial(S, T)
  PROVE  DOMAIN f \subseteq S /\ \A k \in DOMAIN f : f[k] \in T
BY DEF Partial

LEMMA PartialMade ==
  ASSUME NEW S, NEW T, NEW D \in SUBSET S, NEW f \in [D -> T]
  PROVE  f \in Partial(S, T)
BY DEF Partial

RowsOf(nat, only) == {k \in DOMAIN nat : only => Unreplied(nat[k])}

LEMMA CountersAre ==
  ASSUME NEW s \in Counters
  PROVE  /\ s.sent \in Nat /\ s.got \in Nat /\ SessionOf(s) \in Session
         /\ SessionOf(s).sent = s.sent /\ SessionOf(s).got = s.got
         /\ SessionOf(s).unreplied \in BOOLEAN /\ (SessionOf(s).unreplied <=> Unreplied(s))
<1>1. /\ s.sent \in 0..MaxPackets /\ s.got \in 0..MaxPackets /\ MaxPackets \in Nat
  BY FlowPathAssumption DEF Counters
<1>2. Unreplied(s) \in BOOLEAN
  BY DEF Unreplied
<1>3. SessionOf(s) \in Session
  BY <1>1, <1>2 DEF SessionOf, Session
<1>4. /\ SessionOf(s).sent = s.sent /\ SessionOf(s).got = s.got
      /\ SessionOf(s).unreplied = Unreplied(s)
  BY DEF SessionOf
<1>5. QED
  BY <1>1, <1>2, <1>3, <1>4

LEMMA AggregateIs ==
  ASSUME NEW prev \in Session, NEW row \in Session
  PROVE  /\ Aggregate(prev, row) \in Session
         /\ Aggregate(prev, row).sent = Larger(prev.sent, row.sent)
         /\ Aggregate(prev, row).got = Larger(prev.got, row.got)
         /\ Aggregate(prev, row).unreplied <=> prev.unreplied \/ row.unreplied
<1>1. /\ prev.sent \in 0..MaxPackets /\ prev.got \in 0..MaxPackets /\ prev.unreplied \in BOOLEAN
      /\ row.sent \in 0..MaxPackets /\ row.got \in 0..MaxPackets /\ row.unreplied \in BOOLEAN
  BY DEF Session
<1>2. /\ Larger(prev.sent, row.sent) \in 0..MaxPackets
      /\ Larger(prev.got, row.got) \in 0..MaxPackets
  BY <1>1 DEF Larger
<1>3. (prev.unreplied \/ row.unreplied) \in BOOLEAN
  OBVIOUS
<1>4. Aggregate(prev, row) \in Session
  BY <1>2, <1>3 DEF Aggregate, Session
<1>5. QED
  BY <1>4 DEF Aggregate

\* The largest of the numbers in S, and of S and one more.
LEMMA LargerIs ==
  ASSUME NEW S \in SUBSET Nat, NEW m \in Nat, NEW n \in Nat, Largest(m, S)
  PROVE  Largest(Larger(m, n), S \cup {n})
<1>1. CASE m > n
  BY <1>1 DEF Largest, Larger
<1>2. CASE m <= n
  <2>1. Larger(m, n) = n
    BY <1>2 DEF Larger
  <2>2. \A k \in S : k \in Nat /\ k <= m
    BY DEF Largest
  <2>3. \A k \in S : k <= n
    BY <1>2, <2>2
  <2>4. QED
    BY <2>1, <2>3 DEF Largest
<1>3. QED
  BY <1>1, <1>2

LEMMA TakenMore ==
  ASSUME NEW Q, NEW nat, NEW only, NEW k
  PROVE  Taken(Q \cup {nat}, only, k) =
           Taken(Q, only, k) \cup IF k \in RowsOf(nat, only) THEN {nat[k]} ELSE {}
BY DEF Taken, RowsOf

LEMMA TakenTypes ==
  ASSUME NEW Q \in SUBSET Partial(Key, Counters), NEW only, NEW k
  PROVE  Taken(Q, only, k) \in SUBSET Counters
<1>1. \A nat \in Q : k \in DOMAIN nat => nat[k] \in Counters
  BY PartialIs
<1>2. QED
  BY <1>1 DEF Taken

\* One poll more: g is what Collect makes of f and the sessions of the router.
Gathered(f, nat, only, g) ==
  LET rows == RowsOf(nat, only)
  IN  /\ DOMAIN g = DOMAIN f \cup rows
      /\ g = [k \in DOMAIN g |-> g[k]]
      /\ \A k \in DOMAIN g :
           /\ k \notin rows => g[k] = f[k]
           /\ k \in rows /\ k \in DOMAIN f => g[k] = Aggregate(f[k], SessionOf(nat[k]))
           /\ k \in rows /\ k \notin DOMAIN f => g[k] = SessionOf(nat[k])

LEMMA GatheredKept ==
  ASSUME NEW f \in Partial(Key, Session), NEW only, NEW Q \in SUBSET Partial(Key, Counters),
         NEW nat \in Partial(Key, Counters), Kept(f, only, Q), NEW g, Gathered(f, nat, only, g)
  PROVE  g \in Partial(Key, Session) /\ Kept(g, only, Q \cup {nat})
<1> DEFINE rows == RowsOf(nat, only)
<1>1. /\ DOMAIN f \subseteq Key /\ \A k \in DOMAIN f : f[k] \in Session
      /\ DOMAIN nat \subseteq Key /\ \A k \in DOMAIN nat : nat[k] \in Counters
  BY PartialIs
<1>2. rows \subseteq DOMAIN nat
  BY DEF RowsOf
<1>3. /\ DOMAIN g = DOMAIN f \cup rows
      /\ g = [k \in DOMAIN g |-> g[k]]
      /\ \A k \in DOMAIN g :
           /\ k \notin rows => g[k] = f[k]
           /\ k \in rows /\ k \in DOMAIN f => g[k] = Aggregate(f[k], SessionOf(nat[k]))
           /\ k \in rows /\ k \notin DOMAIN f => g[k] = SessionOf(nat[k])
  BY DEF Gathered
<1> HIDE DEF rows
<1>4. \A k \in rows : SessionOf(nat[k]) \in Session
  BY <1>1, <1>2, CountersAre
<1>5. \A k \in DOMAIN g : g[k] \in Session
  <2>1. SUFFICES ASSUME NEW k \in DOMAIN g
                 PROVE  g[k] \in Session
    OBVIOUS
  <2>2. CASE k \notin rows
    BY <1>1, <1>3, <2>2
  <2>3. CASE k \in rows /\ k \in DOMAIN f
    BY <1>1, <1>3, <1>4, <2>3, AggregateIs
  <2>4. CASE k \in rows /\ k \notin DOMAIN f
    BY <1>3, <1>4, <2>4
  <2>5. QED
    BY <2>2, <2>3, <2>4
<1>6. g \in Partial(Key, Session)
  <2>1. DOMAIN g \subseteq Key
    BY <1>1, <1>2, <1>3
  <2>2. g \in [DOMAIN g -> Session]
    BY <1>3, <1>5
  <2>3. QED
    BY <2>1, <2>2, PartialMade
<1>7. ASSUME NEW k \in Key
      PROVE  /\ k \in DOMAIN g <=> Taken(Q \cup {nat}, only, k) # {}
             /\ k \in DOMAIN g =>
                  /\ Largest(g[k].sent, {s.sent : s \in Taken(Q \cup {nat}, only, k)})
                  /\ Largest(g[k].got, {s.got : s \in Taken(Q \cup {nat}, only, k)})
                  /\ g[k].unreplied <=> \E s \in Taken(Q \cup {nat}, only, k) : Unreplied(s)
  <2> DEFINE T == Taken(Q, only, k)
             T2 == Taken(Q \cup {nat}, only, k)
  <2>1. T2 = T \cup IF k \in rows THEN {nat[k]} ELSE {}
    BY TakenMore DEF rows
  <2>2. T \in SUBSET Counters
    BY TakenTypes
  <2>3. /\ k \in DOMAIN f <=> T # {}
        /\ k \in DOMAIN f =>
             /\ Largest(f[k].sent, {s.sent : s \in T})
             /\ Largest(f[k].got, {s.got : s \in T})
             /\ f[k].unreplied <=> \E s \in T : Unreplied(s)
    BY DEF Kept
  <2> HIDE DEF T, T2
  <2>4. k \in DOMAIN g <=> T2 # {}
    BY <1>3, <2>1, <2>3
  <2>5. CASE k \notin rows
    <3>1. T2 = T
      BY <2>1, <2>5
    <3>2. k \in DOMAIN g => g[k] = f[k] /\ k \in DOMAIN f
      BY <1>3, <2>5
    <3>3. QED
      BY <2>3, <2>4, <3>1, <3>2 DEF T2
  <2>6. CASE k \in rows /\ k \notin DOMAIN f
    <3>1. T2 = {nat[k]} /\ g[k] = SessionOf(nat[k]) /\ k \in DOMAIN g
      BY <1>3, <2>1, <2>3, <2>6
    <3>2. nat[k] \in Counters
      BY <1>1, <1>2, <2>6
    <3>3. /\ g[k].sent = nat[k].sent /\ g[k].got = nat[k].got
          /\ nat[k].sent \in Nat /\ nat[k].got \in Nat
          /\ g[k].unreplied <=> Unreplied(nat[k])
      BY <3>1, <3>2, CountersAre
    <3>4. Largest(g[k].sent, {s.sent : s \in T2}) /\ Largest(g[k].got, {s.got : s \in T2})
      BY <3>1, <3>3 DEF Largest
    <3>5. g[k].unreplied <=> \E s \in T2 : Unreplied(s)
      BY <3>1, <3>3
    <3>6. QED
      BY <2>4, <3>4, <3>5 DEF T2
  <2>7. CASE k \in rows /\ k \in DOMAIN f
    <3>1. /\ T2 = T \cup {nat[k]} /\ g[k] = Aggregate(f[k], SessionOf(nat[k]))
          /\ k \in DOMAIN g
      BY <1>3, <2>1, <2>7
    <3>2. nat[k] \in Counters /\ f[k] \in Session /\ SessionOf(nat[k]) \in Session
      BY <1>1, <1>2, <1>4, <2>7
    <3>3. /\ nat[k].sent \in Nat /\ nat[k].got \in Nat /\ f[k].sent \in Nat /\ f[k].got \in Nat
          /\ g[k].sent = Larger(f[k].sent, nat[k].sent)
          /\ g[k].got = Larger(f[k].got, nat[k].got)
          /\ g[k].unreplied <=> f[k].unreplied \/ Unreplied(nat[k])
      <4>1. f[k].sent \in Nat /\ f[k].got \in Nat
        BY <3>2, FlowPathAssumption DEF Session
      <4>2. QED
        BY <3>1, <3>2, <4>1, CountersAre, AggregateIs
    <3>4. \A s \in T : s.sent \in Nat /\ s.got \in Nat
      BY <2>2, CountersAre
    <3>5. Largest(g[k].sent, {s.sent : s \in T2})
      <4>1. {s.sent : s \in T2} = {s.sent : s \in T} \cup {nat[k].sent}
        BY <3>1
      <4>2. {s.sent : s \in T} \in SUBSET Nat
        BY <3>4
      <4>3. Largest(Larger(f[k].sent, nat[k].sent), {s.sent : s \in T} \cup {nat[k].sent})
        BY <2>3, <2>7, <3>3, <4>2, LargerIs
      <4>4. QED
        BY <3>3, <4>1, <4>3
    <3>6. Largest(g[k].got, {s.got : s \in T2})
      <4>1. {s.got : s \in T2} = {s.got : s \in T} \cup {nat[k].got}
        BY <3>1
      <4>2. {s.got : s \in T} \in SUBSET Nat
        BY <3>4
      <4>3. Largest(Larger(f[k].got, nat[k].got), {s.got : s \in T} \cup {nat[k].got})
        BY <2>3, <2>7, <3>3, <4>2, LargerIs
      <4>4. QED
        BY <3>3, <4>1, <4>3
    <3>7. g[k].unreplied <=> \E s \in T2 : Unreplied(s)
      BY <2>3, <2>7, <3>1, <3>3
    <3>8. QED
      BY <2>4, <3>5, <3>6, <3>7 DEF T2
  <2>8. QED
    BY <2>5, <2>6, <2>7
<1>8. QED
  BY <1>6, <1>7 DEF Kept

-----------------------------------------------------------------------------
(* The steps of a call. *)

LEMMA RouterTypes ==
  ASSUME NEW r \in GoodRouter
  PROVE  /\ r \in Router /\ ListsOf(r) \in Listing /\ r.saved.lists \in Listing
         /\ RoutesOf(r) \in Seq(Route) /\ r.saved.routes \in Seq(Route)
         /\ r.routes \in Seq(Route) /\ r.lists \in Listing
         /\ r.fib \in Seq([len : Nat, iface : Iface])
         /\ r.shown \in Tabling /\ r.policies \in Policing /\ r.nat \in Partial(Key, Counters)
         /\ r.allow \in Cover /\ r.online \in Online /\ r.age \in Age
         /\ Identified(RoutesOf(r))
<1>1. /\ r \in Router /\ Identified(r.routes) /\ Identified(r.saved.routes)
  BY DEF GoodRouter
<1>2. /\ r.saved \in [lists : Listing, routes : Seq(Route)]
      /\ r.routes \in Seq(Route) /\ r.lists \in Listing
      /\ r.fib \in Seq([len : Nat, iface : Iface])
      /\ r.shown \in Tabling /\ r.policies \in Policing /\ r.nat \in Partial(Key, Counters)
      /\ r.allow \in Cover /\ r.online \in Online /\ r.age \in Age
  BY <1>1 DEF Router, Tabling, Policing
<1>3. r.saved.lists \in Listing /\ r.saved.routes \in Seq(Route)
  BY <1>2
<1>4. ListsOf(r) \in Listing /\ RoutesOf(r) \in Seq(Route) /\ Identified(RoutesOf(r))
  BY <1>1, <1>2, <1>3 DEF ListsOf, RoutesOf
<1>5. QED
  BY <1>1, <1>2, <1>3, <1>4

LEMMA SeenRoutesTypes ==
  ASSUME NEW r \in GoodRouter, NEW F, NEW routes \in SeenRoutes(r, F)
  PROVE  routes \in Seq(Route)
<1>1. RoutesOf(r) \in Seq(Route) /\ r.saved.routes \in Seq(Route) /\ <<>> \in Seq(Route)
  BY RouterTypes
<1>2. QED
  BY <1>1 DEF SeenRoutes

\* A request is about to be answered.
LEMMA Asks ==
  ASSUME World, Underway, NEW p, At(p)
  PROVE  /\ Running /\ call \in Job /\ Sound(call, past, failed, polled) /\ rt \in past
         /\ rt \in GoodRouter /\ past \subseteq GoodRouter /\ failed \in BOOLEAN /\ answer = None
         /\ call.todo # <<>> /\ call.todo[1] = p /\ call.todo \in Seq(Request)
         /\ Tail(call.todo) \in Seq(Request) /\ InTurn(call)
         /\ FailedSince(failed, failed) /\ FailedSince(failed, TRUE)
<1>1. Running /\ call.todo # <<>> /\ call.todo[1] = p
  BY DEF At, Next1
<1>2. /\ Sound(call, past, failed, polled) /\ rt \in past /\ rt \in GoodRouter
      /\ past \subseteq GoodRouter /\ failed \in BOOLEAN /\ answer = None
  BY <1>1 DEF World, Underway
<1>3. call \in Job /\ InTurn(call)
  BY <1>2 DEF Sound
<1>4. call.todo \in Seq(Request)
  BY <1>3 DEF Job
<1>5. Tail(call.todo) \in Seq(Request)
  BY <1>1, <1>4
<1>6. FailedSince(failed, failed) /\ FailedSince(failed, TRUE)
  BY <1>2 DEF FailedSince
<1>7. QED
  BY <1>1, <1>2, <1>3, <1>4, <1>5, <1>6

\* The call goes on.
GoesOn ==
  /\ Running /\ Sound(call', past, failed', polled')
  /\ rt' = rt /\ answer' = answer /\ changes' = changes /\ past' = past
  /\ failed' \in BOOLEAN /\ polled' \subseteq Partial(Key, Counters)

LEMMA StillCalling ==
  ASSUME CallInv, GoesOn
  PROVE  CallInv'
<1>1. call' \in Job
  BY DEF GoesOn, Sound
<1>2. call' # None
  <2>1. call'.op \in Ops
    BY <1>1 DEF Job
  <2>2. None.op = "none"
    BY DEF None
  <2>3. QED
    BY <2>1, <2>2 DEF Ops
<1>3. /\ rt \in past /\ answer = None /\ rt \in GoodRouter /\ past \subseteq GoodRouter
      /\ IsFiniteSet(past) /\ changes \in Nat
  BY DEF CallInv, World, Underway, GoesOn
<1>4. Underway'
  BY <1>3 DEF Underway, GoesOn
<1>5. World'
  BY <1>2, <1>3 DEF World, GoesOn, Running
<1>6. Closed'
  BY <1>2 DEF Closed, Running
<1>7. QED
  BY <1>4, <1>5, <1>6 DEF CallInv

\* Only the requests left have changed, and what the verdicts do not use.
LEMMA NothingNewJob ==
  ASSUME NEW c \in Job, c.todo # <<>>, NEW live \in SUBSET PathClass, NEW d,
         \/ d = [c EXCEPT !.todo = Tail(@)]
         \/ d = [[c EXCEPT !.live = live] EXCEPT !.todo = Tail(@)]
  PROVE  After(c, d, c.todo[1], {"todo", "live"})
<1>1. Tail(c.todo) \in Seq(Request)
  BY DEF Job
<1>2. d \in Job
  <2>1. CASE d = [c EXCEPT !.todo = Tail(@)]
    BY <1>1, <2>1 DEF Job
  <2>2. CASE d = [[c EXCEPT !.live = live] EXCEPT !.todo = Tail(@)]
    BY <1>1, <2>2 DEF Job
  <2>3. QED
    BY <2>1, <2>2
<1>3. Agree(c, d, {"todo", "live"}) /\ d.todo = Tail(c.todo)
  BY DEF Agree, Fields, Job
<1>4. QED
  BY <1>2, <1>3 DEF After

LEMMA StepNothing ==
  ASSUME World, Underway, Resolve \/ ReadIfaces \/ Lookup \/ ReadLive
  PROVE  GoesOn
<1>1. PICK p \in {"resolve", "ifaces", "lookup", "live"} :
        /\ At(p)
        /\ \/ call' = [call EXCEPT !.todo = Tail(@)]
           \/ \E S \in Some(DOMAIN rt.nat, LiveLimit) :
                call' = [[call EXCEPT !.live = {k.out : k \in S}] EXCEPT !.todo = Tail(@)]
        /\ UNCHANGED <<rt, answer, changes, past, polled, failed>>
  <2>1. CASE Resolve \/ ReadIfaces \/ Lookup
    BY <2>1 DEF Resolve, ReadIfaces, Lookup, Learn
  <2>2. CASE ReadLive
    BY <2>2 DEF ReadLive, Learn
  <2>3. QED
    BY <2>1, <2>2
<1>2. /\ Running /\ call \in Job /\ Sound(call, past, failed, polled)
      /\ rt \in GoodRouter /\ failed \in BOOLEAN
      /\ call.todo # <<>> /\ call.todo[1] = p /\ FailedSince(failed, failed)
  BY <1>1, Asks
<1>3. \A S \in Some(DOMAIN rt.nat, LiveLimit) : {k.out : k \in S} \in SUBSET PathClass
  <2>1. rt.nat \in Partial(Key, Counters)
    BY <1>2, RouterTypes
  <2>2. DOMAIN rt.nat \subseteq Key
    BY <2>1, PartialIs
  <2>3. QED
    BY <2>2 DEF Key, Some
<1>4. After(call, call', p, {"todo", "live"})
  <2>1. PICK live \in SUBSET PathClass :
          \/ call' = [call EXCEPT !.todo = Tail(@)]
          \/ call' = [[call EXCEPT !.live = live] EXCEPT !.todo = Tail(@)]
    <3>1. CASE call' = [call EXCEPT !.todo = Tail(@)]
      BY <3>1
    <3>2. CASE \E S \in Some(DOMAIN rt.nat, LiveLimit) :
                 call' = [[call EXCEPT !.live = {k.out : k \in S}] EXCEPT !.todo = Tail(@)]
      BY <1>3, <3>2
    <3>3. QED
      BY <1>1, <3>1, <3>2
  <2>3. After(call, call', call.todo[1], {"todo", "live"})
    BY <1>2, <2>1, NothingNewJob
  <2>4. QED
    BY <1>2, <2>3
<1>5. Sound(call', past, failed, polled)
  BY <1>1, <1>2, <1>4, NothingNew
<1>6. QED
  BY <1>1, <1>2, <1>5 DEF GoesOn, World

LEMMA StepLoseNothing ==
  ASSUME World, Underway, NEW p \in {"policies", "lookup", "live"}, At(p),
         call' = [call EXCEPT !.todo = Tail(@)], failed' = TRUE,
         UNCHANGED <<rt, answer, changes, past, polled>>
  PROVE  GoesOn
<1>1. /\ Running /\ call \in Job /\ Sound(call, past, failed, polled)
      /\ call.todo # <<>> /\ call.todo[1] = p /\ FailedSince(failed, TRUE)
  BY Asks
<1>2. After(call, call', p, {"todo", "live"})
  <2>1. {} \in SUBSET PathClass
    OBVIOUS
  <2>2. QED
    BY <1>1, <2>1, NothingNewJob
<1>3. p \in {"resolve", "ifaces", "lookup", "live"} \/ (p = "policies" /\ TRUE = TRUE)
  OBVIOUS
<1>4. Sound(call', past, TRUE, polled)
  BY <1>1, <1>2, <1>3, NothingNew
<1>5. QED
  BY <1>1, <1>4 DEF GoesOn, World

LEMMA HitsTypes ==
  ASSUME NEW lists \in Listing, NEW entries
  PROVE  Hits(lists, entries) \in SUBSET ListId
BY PartialIs DEF Hits, Listing

LEMMA StepLists ==
  ASSUME World, Underway, At("lists"), NEW L \in SeenLists(rt, failed'), Listed(L),
         failed' \in BOOLEAN, FailedSince(failed, failed'),
         UNCHANGED <<rt, answer, changes, past, polled>>
  PROVE  GoesOn
<1> DEFINE hits == Hits(L, EntriesOf(call))
<1>1. /\ Running /\ call \in Job /\ Sound(call, past, failed, polled) /\ rt \in past
      /\ rt \in GoodRouter /\ call.todo # <<>> /\ call.todo[1] = "lists"
      /\ Tail(call.todo) \in Seq(Request)
  BY Asks
<1>2. L \in Listing
  BY <1>1, RouterTypes DEF SeenLists
<1>3. hits \in SUBSET ListId
  BY <1>2, HitsTypes
<1>4. call' = [call EXCEPT !.hits = hits, !.todo = Tail(@)]
  BY DEF Listed
<1> HIDE DEF hits
<1>5. call' \in Job
  BY <1>1, <1>3, <1>4 DEF Job
<1>6. Agree(call, call', {"todo", "hits"}) /\ call'.todo = Tail(call.todo) /\ call'.hits = hits
  BY <1>1, <1>4 DEF Agree, Fields, Job
<1>7. After(call, call', "lists", {"todo", "hits"})
  BY <1>1, <1>5, <1>6 DEF After
<1>8. Sound(call', past, failed', polled)
  BY <1>1, <1>6, <1>7, ListsRead DEF hits
<1>9. QED
  BY <1>1, <1>8 DEF GoesOn, World

LEMMA LinksTypes ==
  ASSUME NEW c, NEW routes \in Seq(Route)
  PROVE  LinksOf(c, routes) \in Seq(Route)
<1>1. /\ Lined(Links(c.hits, routes), Used(c.hits, routes), routes, ByList(routes))
      /\ Lined(Primary(c.hits, routes), Used(c.hits, routes), routes, ByPlace(routes))
  BY LinksAre
<1>2. QED
  BY <1>1 DEF LinksOf, Lined

LEMMA StepRoutes ==
  ASSUME World, Underway, At("routes"), NEW routes \in SeenRoutes(rt, failed'), Routed(routes),
         failed' \in BOOLEAN, FailedSince(failed, failed'),
         UNCHANGED <<rt, answer, changes, past, polled>>
  PROVE  GoesOn
<1> DEFINE links == LinksOf(call, routes)
<1>1. /\ Running /\ call \in Job /\ Sound(call, past, failed, polled) /\ rt \in past
      /\ rt \in GoodRouter /\ call.todo # <<>> /\ call.todo[1] = "routes"
      /\ Tail(call.todo) \in Seq(Request)
  BY Asks
<1>2. routes \in Seq(Route)
  BY <1>1, SeenRoutesTypes
<1>3. links \in Seq(Route)
  BY <1>2, LinksTypes
<1>4. call' = [call EXCEPT !.routes = routes, !.links = links, !.todo = Tail(@)]
  BY DEF Routed
<1> HIDE DEF links
<1>5. call' \in Job
  BY <1>1, <1>2, <1>3, <1>4 DEF Job
<1>6. /\ Agree(call, call', {"todo", "routes", "links"}) /\ call'.todo = Tail(call.todo)
      /\ call'.routes = routes /\ call'.links = links
  BY <1>1, <1>4 DEF Agree, Fields, Job
<1>7. After(call, call', "routes", {"todo", "routes", "links"})
  BY <1>1, <1>5, <1>6 DEF After
<1>8. call'.routes \in SeenRoutes(rt, failed') /\ call'.links = LinksOf(call, call'.routes)
  BY <1>6 DEF links
<1>9. Sound(call', past, failed', polled)
  BY <1>1, <1>7, <1>8, RoutesRead
<1>10. QED
  BY <1>1, <1>9 DEF GoesOn, World

LEMMA StepFib ==
  ASSUME World, Underway, ReadFib
  PROVE  GoesOn
<1> DEFINE fib == rt.fib
<1>1. /\ At("fib") /\ call' = [[call EXCEPT !.fib = fib] EXCEPT !.todo = Tail(@)]
      /\ UNCHANGED <<rt, answer, changes, past, polled, failed>>
  BY DEF ReadFib, Learn
<1>2. /\ Running /\ call \in Job /\ Sound(call, past, failed, polled) /\ rt \in past
      /\ rt \in GoodRouter /\ call.todo # <<>> /\ call.todo[1] = "fib"
      /\ Tail(call.todo) \in Seq(Request) /\ failed \in BOOLEAN
  BY <1>1, Asks
<1>3. fib \in Seq([len : Nat, iface : Iface])
  BY <1>2, RouterTypes
<1> HIDE DEF fib
<1>4. call' \in Job
  BY <1>1, <1>2, <1>3 DEF Job
<1>5. Agree(call, call', {"todo", "fib"}) /\ call'.todo = Tail(call.todo) /\ call'.fib = fib
  BY <1>1, <1>2 DEF Agree, Fields, Job
<1>6. After(call, call', "fib", {"todo", "fib"})
  BY <1>2, <1>4, <1>5 DEF After
<1>7. Sound(call', past, failed, polled)
  BY <1>2, <1>5, <1>6, FibRead DEF fib
<1>8. QED
  BY <1>1, <1>2, <1>7 DEF GoesOn, World

LEMMA StepPolicies ==
  ASSUME World, Underway, ReadPolicies
  PROVE  GoesOn
<1> DEFINE policies == rt.policies
<1>1. /\ At("policies")
      /\ call' = [[call EXCEPT !.policies = policies] EXCEPT !.todo = Tail(@)]
      /\ UNCHANGED <<rt, answer, changes, past, polled, failed>>
  BY DEF ReadPolicies, Learn
<1>2. /\ Running /\ call \in Job /\ Sound(call, past, failed, polled) /\ rt \in past
      /\ rt \in GoodRouter /\ call.todo # <<>> /\ call.todo[1] = "policies"
      /\ Tail(call.todo) \in Seq(Request) /\ failed \in BOOLEAN
  BY <1>1, Asks
<1>3. policies \in Policing
  BY <1>2, RouterTypes
<1> HIDE DEF policies
<1>4. call' \in Job
  BY <1>1, <1>2, <1>3 DEF Job
<1>5. /\ Agree(call, call', {"todo", "policies"}) /\ call'.todo = Tail(call.todo)
      /\ call'.policies = policies
  BY <1>1, <1>2 DEF Agree, Fields, Job
<1>6. After(call, call', "policies", {"todo", "policies"})
  BY <1>2, <1>4, <1>5 DEF After
<1>7. Sound(call', past, failed, polled)
  BY <1>2, <1>5, <1>6, PoliciesRead DEF policies
<1>8. QED
  BY <1>1, <1>2, <1>7 DEF GoesOn, World

\* What the call knows when the rules name no table.
LEMMA RuleTodo ==
  ASSUME NEW c, c \in Job, InTurn(c), c.todo # <<>>, c.todo[1] = "rule"
  PROVE  /\ Tail(<<"rule">> \o Tail(Tail(c.todo))) = Tail(Tail(c.todo))
         /\ Tail(Tail(c.todo)) \in Seq(Request)
         /\ <<"rule">> \o Tail(Tail(c.todo)) \in Seq(Request)
<1> DEFINE d == [op |-> c.op, todo |-> Tail(<<"rule">> \o Tail(Tail(c.todo)))]
<1>1. c.todo \in Seq(Request)
  BY DEF Job
<1>2. d.op = c.op /\ d.todo = Tail(<<"rule">> \o Tail(Tail(c.todo)))
  OBVIOUS
<1> HIDE DEF d
<1>3. d.todo = Tail(Tail(c.todo)) /\ Tail(c.todo) # <<>>
  BY <1>1, <1>2, RuleSkips
<1>4. Tail(Tail(c.todo)) \in Seq(Request)
  BY <1>1, <1>3
<1>5. <<"rule">> \in Seq(Request)
  BY DEF Request
<1>6. <<"rule">> \o Tail(Tail(c.todo)) \in Seq(Request)
  BY <1>4, <1>5
<1>7. QED
  BY <1>2, <1>3, <1>4, <1>6

LEMMA StepRule ==
  ASSUME World, Underway, ReadRule
  PROVE  GoesOn
<1> DEFINE tables == DOMAIN rt.shown
           rest == <<"rule">> \o Tail(Tail(call.todo))
           X == {"todo", "unread"}
<1>1. /\ At("rule") /\ Learn(AfterRule([call EXCEPT !.unread = tables]))
  BY DEF ReadRule
<1>2. /\ Running /\ call \in Job /\ Sound(call, past, failed, polled) /\ rt \in past
      /\ rt \in GoodRouter /\ call.todo # <<>> /\ call.todo[1] = "rule" /\ InTurn(call)
      /\ Tail(call.todo) \in Seq(Request) /\ FailedSince(failed, failed) /\ failed \in BOOLEAN
  BY <1>1, Asks
<1>3. tables \in SUBSET TableId
  <2>1. rt.shown \in Tabling
    BY <1>2, RouterTypes
  <2>2. QED
    BY <2>1, TablingTypes
<1>4. rest \in Seq(Request) /\ Tail(rest) \in Seq(Request)
  BY <1>2, RuleTodo
<1>5. UNCHANGED <<rt, answer, changes, past, polled, failed>>
  BY <1>1 DEF Learn
<1>6. /\ call' \in Job /\ Agree(call, call', X) /\ call'.unread = tables
      /\ \/ tables # {} /\ call'.todo = Tail(call.todo)
         \/ tables = {} /\ call'.todo = Tail(rest)
  <2>1. CASE tables # {}
    <3>1. call' = [[call EXCEPT !.unread = tables] EXCEPT !.todo = Tail(@)]
      BY <1>1, <1>2, <2>1 DEF Learn, AfterRule, Job
    <3> HIDE DEF tables
    <3>2. call' \in Job
      BY <1>2, <1>3, <3>1 DEF Job
    <3>3. Agree(call, call', X) /\ call'.unread = tables /\ call'.todo = Tail(call.todo)
      BY <1>2, <3>1 DEF Agree, Fields, Job
    <3>4. QED
      BY <2>1, <3>2, <3>3
  <2>2. CASE tables = {}
    <3>1. call' = [[[call EXCEPT !.unread = tables] EXCEPT !.todo = rest] EXCEPT !.todo = Tail(@)]
      BY <1>1, <1>2, <2>2 DEF Learn, AfterRule, Job
    <3> HIDE DEF tables, rest
    <3>2. call' \in Job
      BY <1>2, <1>3, <1>4, <3>1 DEF Job
    <3>3. Agree(call, call', X) /\ call'.unread = tables /\ call'.todo = Tail(rest)
      BY <1>2, <3>1 DEF Agree, Fields, Job
    <3>4. QED
      BY <2>2, <3>2, <3>3
  <2>3. QED
    BY <2>1, <2>2
<1>7. \E r \in past : call'.unread = DOMAIN r.shown
  BY <1>2, <1>6
<1>8. \/ call'.unread # {} /\ call'.todo = Tail(call.todo)
      \/ call'.unread = {} /\ call'.todo = Tail(<<"rule">> \o Tail(Tail(call.todo)))
  BY <1>6
<1>9. call' \in Job /\ Agree(call, call', {"todo", "unread"})
  BY <1>6
<1> HIDE DEF X, rest, tables
<1>10. Sound(call', past, failed, polled)
  BY <1>2, <1>7, <1>8, <1>9, RuleRead
<1>11. QED
  BY <1>2, <1>5, <1>10 DEF GoesOn, World

LEMMA StepLoseRule ==
  ASSUME World, Underway, LoseRule
  PROVE  GoesOn
<1> DEFINE rest == <<"rule">> \o Tail(Tail(call.todo))
<1>1. /\ At("rule") /\ call' = [AfterRule(call) EXCEPT !.todo = Tail(@)] /\ failed' = TRUE
      /\ UNCHANGED <<rt, answer, changes, past, polled>>
  BY DEF LoseRule
<1>2. /\ Running /\ call \in Job /\ Sound(call, past, failed, polled)
      /\ call.todo # <<>> /\ call.todo[1] = "rule" /\ InTurn(call) /\ call.todo \in Seq(Request)
      /\ FailedSince(failed, TRUE)
  BY <1>1, Asks
<1>3. rest \in Seq(Request) /\ Tail(rest) \in Seq(Request)
  BY <1>2, RuleTodo
<1>4. call.unread = {}
  <2>1. Open(call, "rule")
    BY <1>2, TailTurn DEF InTurn, Open
  <2>2. ShownSeen(call, past, failed)
    BY <1>2 DEF Sound, Seen
  <2>3. QED
    BY <2>1, <2>2 DEF ShownSeen
<1>5. call' = [[call EXCEPT !.todo = rest] EXCEPT !.todo = Tail(@)]
  BY <1>1, <1>4 DEF AfterRule
<1> HIDE DEF rest
<1>6. call' \in Job
  BY <1>2, <1>3, <1>5 DEF Job
<1>7. /\ Agree(call, call', {"todo", "unread"}) /\ call'.unread = {}
      /\ call'.todo = Tail(rest)
  BY <1>2, <1>4, <1>5 DEF Agree, Fields, Job
<1>8. call'.unread = {} /\ call'.todo = Tail(<<"rule">> \o Tail(Tail(call.todo)))
  BY <1>7 DEF rest
<1>9. Sound(call', past, TRUE, polled)
  BY <1>2, <1>6, <1>7, <1>8, RuleRead
<1>10. QED
  BY <1>1, <1>2, <1>9 DEF GoesOn, World

\* The table read next.
LEMMA MinOf ==
  ASSUME NEW S \in SUBSET Nat, S # {}
  PROVE  Min(S) \in S /\ \A n \in S : Min(S) <= n
BY LeastOf DEF Min

LEMMA WithTypes ==
  ASSUME NEW f \in Tabling, NEW n \in TableId, NEW v \in Shape
  PROVE  With(f, n, v) \in Tabling
<1> DEFINE D == DOMAIN f \cup {n}
           g == [m \in D |-> IF m = n THEN v ELSE f[m]]
<1>1. D \in SUBSET TableId /\ \A m \in DOMAIN f : f[m] \in Shape
  BY TablingTypes
<1>2. g \in [D -> Shape]
  BY <1>1
<1> HIDE DEF D
<1>3. g \in Partial(TableId, Shape)
  BY <1>1, <1>2, PartialMade
<1>4. QED
  BY <1>3 DEF With, Tabling, D

LEMMA NextTable ==
  ASSUME World, Underway, At("shown")
  PROVE  Min(call.unread) \in call.unread /\ Min(call.unread) \in TableId
<1>1. /\ call \in Job /\ Sound(call, past, failed, polled) /\ call.todo # <<>>
      /\ call.todo[1] = "shown" /\ InTurn(call) /\ call.todo \in Seq(Request)
  BY Asks
<1>2. /\ Open(call, "shown")
      /\ \A p \in Range(call.todo) : p = "shown" \/ Stage(call.op, "shown") < Stage(call.op, p)
  BY <1>1, TailTurn DEF InTurn, Open
<1>3. ~Open(call, "rule")
  <2>1. Stage(call.op, "rule") = 7 /\ Stage(call.op, "shown") = 8
    BY DEF Stage, Stages
  <2>2. QED
    BY <1>2, <2>1 DEF Open
<1>4. call.unread # {}
  BY <1>1, <1>2, <1>3 DEF Sound, Seen, ShownSeen
<1>5. call.unread \in SUBSET TableId /\ call.unread \in SUBSET Nat
  BY <1>1, FlowPathAssumption DEF Job
<1>6. Min(call.unread) \in call.unread
  BY <1>4, <1>5, MinOf
<1>7. QED
  BY <1>5, <1>6

LEMMA StepShown ==
  ASSUME World, Underway, At("shown"), NEW table \in Shape, NEW F2 \in BOOLEAN,
         FailedSince(failed, F2), failed' = F2,
         (F2 = TRUE /\ table = NoDefault) \/ \E r \in past : table = TableSeen(r, Min(call.unread)),
         LET n == Min(call.unread)
             c == [call EXCEPT !.unread = @ \ {n}, !.shown = With(@, n, table)]
         IN  call' = IF c.unread = {} THEN [c EXCEPT !.todo = Tail(@)] ELSE c,
         UNCHANGED <<rt, answer, changes, past, polled>>
  PROVE  GoesOn
<1> DEFINE n == Min(call.unread)
           shown == With(call.shown, n, table)
           unread == call.unread \ {n}
           c == [call EXCEPT !.unread = unread, !.shown = shown]
           X == {"todo", "unread", "shown"}
<1>1. /\ Running /\ call \in Job /\ Sound(call, past, failed, polled)
      /\ call.todo # <<>> /\ call.todo[1] = "shown" /\ Tail(call.todo) \in Seq(Request)
  BY Asks
<1>2. n \in call.unread /\ n \in TableId
  BY NextTable
<1>3. call' = IF c.unread = {} THEN [c EXCEPT !.todo = Tail(@)] ELSE c
  BY <1>1 DEF Job
<1>4. shown \in Tabling /\ unread \in SUBSET TableId
  <2>1. call.shown \in Tabling /\ call.unread \in SUBSET TableId
    BY <1>1 DEF Job
  <2>2. QED
    BY <1>2, <2>1, WithTypes
<1> HIDE DEF n, shown, unread
<1>5. c.unread = unread /\ c \in Job
  BY <1>1, <1>4 DEF Job
<1>6. /\ call' \in Job /\ Agree(call, call', X) /\ call'.unread = unread /\ call'.shown = shown
      /\ call'.todo = IF call'.unread = {} THEN Tail(call.todo) ELSE call.todo
  <2>1. CASE unread = {}
    <3>1. call' = [c EXCEPT !.todo = Tail(@)]
      BY <1>3, <1>5, <2>1
    <3>2. call' \in Job
      <4>1. c.todo = call.todo
        BY <1>1 DEF Job
      <4> HIDE DEF c
      <4>2. call' = [c EXCEPT !.todo = Tail(call.todo)]
        BY <3>1, <4>1
      <4>3. QED
        BY <1>1, <1>5, <4>2 DEF Job
    <3>3. /\ Agree(call, call', X) /\ call'.unread = unread /\ call'.shown = shown
          /\ call'.todo = Tail(call.todo)
      BY <1>1, <3>1 DEF Agree, Fields, Job
    <3>4. QED
      BY <2>1, <3>2, <3>3
  <2>2. CASE unread # {}
    <3>1. call' = c
      BY <1>3, <1>5, <2>2
    <3>2. /\ Agree(call, call', X) /\ call'.unread = unread /\ call'.shown = shown
          /\ call'.todo = call.todo
      BY <1>1, <3>1 DEF Agree, Fields, Job
    <3>3. QED
      BY <1>5, <2>2, <3>1, <3>2
  <2>3. QED
    BY <2>1, <2>2
<1>7. Agree(call, call', {"todo", "unread", "shown"})
  BY <1>6
<1>8. call'.unread = call.unread \ {n} /\ call'.shown = With(call.shown, n, table)
  BY <1>6 DEF unread, shown
<1>9. (F2 = TRUE /\ table = NoDefault) \/ \E r \in past : table = TableSeen(r, n)
  BY DEF n
<1> HIDE DEF X, c
<1>10. Sound(call', past, F2, polled)
  BY <1>1, <1>2, <1>6, <1>7, <1>8, <1>9, TableRead
<1>11. QED
  BY <1>1, <1>10 DEF GoesOn, World

LEMMA StepTable ==
  ASSUME World, Underway, ReadTable
  PROVE  GoesOn
<1> DEFINE n == Min(call.unread)
           table == TableSeen(rt, n)
<1>1. At("shown") /\ Shown(n, table)
  BY DEF ReadTable, TableSeen
<1>2. /\ call \in Job /\ rt \in past /\ rt \in GoodRouter
      /\ failed \in BOOLEAN /\ FailedSince(failed, failed)
  BY <1>1, Asks
<1>3. NoDefault \in Shape /\ rt.shown \in Tabling
  BY <1>2, RouterTypes DEF NoDefault, Shape, Egresses
<1>4. table \in Shape
  BY <1>3, TablingTypes DEF TableSeen
<1>5. /\ UNCHANGED <<rt, answer, changes, past, polled>> /\ failed' = failed
      /\ LET c == [call EXCEPT !.unread = @ \ {n}, !.shown = With(@, n, table)]
         IN  call' = IF c.unread = {} THEN [c EXCEPT !.todo = Tail(@)] ELSE c
  <2> HIDE DEF n, table
  <2>1. QED
    BY <1>1 DEF Shown, Learn
<1>6. \E r \in past : table = TableSeen(r, n)
  BY <1>2
<1> HIDE DEF table
<1>7. QED
  BY <1>1, <1>2, <1>4, <1>5, <1>6, StepShown

LEMMA StepLoseTable ==
  ASSUME World, Underway, LoseTable
  PROVE  GoesOn
<1>1. At("shown") /\ failed' = TRUE
  BY DEF LoseTable
<1>2. FailedSince(failed, TRUE)
  BY <1>1, Asks
<1>3. NoDefault \in Shape
  BY DEF NoDefault, Shape, Egresses
<1>4. QED
  BY <1>1, <1>2, <1>3, StepShown DEF LoseTable

\* explain_dns_route loses all tables at once.
LEMMA StepLoseTables ==
  ASSUME World, Underway, LoseTables, call.op \in {"dns", "route"}
  PROVE  GoesOn
<1> DEFINE rest == SubSeq(call.todo, 5, Len(call.todo))
<1>1. /\ At("policies") /\ call' = [call EXCEPT !.todo = rest] /\ failed' = TRUE
      /\ UNCHANGED <<rt, answer, changes, past, polled>>
  BY DEF LoseTables
<1>2. /\ Running /\ call \in Job /\ Sound(call, past, failed, polled) /\ failed \in BOOLEAN
      /\ call.todo # <<>> /\ call.todo[1] = "policies" /\ call.todo \in Seq(Request)
      /\ InTurn(call) /\ call.op \notin Full
  BY <1>1, Asks DEF Full, Path
<1>3. rest \in Seq(Request)
  <2> DEFINE d == [op |-> call.op, todo |-> rest]
  <2>1. d.op = call.op /\ d.todo = SubSeq(call.todo, 5, Len(call.todo))
    OBVIOUS
  <2> HIDE DEF d
  <2>2. Advanced(call, d, TableRequests)
    BY <1>2, <2>1, TablesSkipped
  <2>3. QED
    BY <2>1, <2>2 DEF Advanced
<1> HIDE DEF rest
<1>4. call' \in Job
  BY <1>1, <1>2, <1>3 DEF Job
<1>5. Agree(call, call', {"todo"}) /\ call'.todo = rest
  BY <1>1, <1>2 DEF Agree, Fields, Job
<1>6. call'.todo = WithoutTables(call.todo)
  BY <1>5 DEF rest, WithoutTables
<1>7. Sound(call', past, TRUE, polled)
  BY <1>2, <1>4, <1>5, <1>6, TablesLost
<1>8. QED
  BY <1>1, <1>2, <1>7 DEF GoesOn, World

\* Tables and links are matched.
LEMMA StepPair ==
  ASSUME World, Underway, At("linked"), NEW R \in SeenRoutes(rt, failed'), Pair(R),
         failed' \in BOOLEAN, FailedSince(failed, failed'),
         UNCHANGED <<rt, answer, changes, past, polled>>
  PROVE  GoesOn
<1> DEFINE tables == Tables(call.policies, call.shown, R)
<1>1. /\ Running /\ call \in Job /\ Sound(call, past, failed, polled) /\ rt \in past
      /\ rt \in GoodRouter /\ call.todo # <<>> /\ call.todo[1] = "linked"
      /\ Tail(call.todo) \in Seq(Request)
  BY Asks
<1>2. /\ call.policies \in Policing /\ call.shown \in Tabling /\ call.links \in Seq(Route)
      /\ R \in Seq(Route)
  BY <1>1, SeenRoutesTypes DEF Job
<1>3. Wired(tables) /\ tables \in SUBSET AnyTable
  BY <1>2, TablesWired DEF Wired
<1>4. PICK matches \in MatchesOf(call, tables) :
        call' = [call EXCEPT !.tables = tables, !.matches = matches, !.todo = Tail(@)]
  BY DEF Pair
<1> HIDE DEF tables
<1>5. Paired(matches, call.links, tables)
  <2>1. matches \in Hints(call.links, tables, DOMAIN call.shown) =>
          Paired(matches, call.links, tables)
    BY <1>2, <1>3, HintPaired
  <2>2. Paired(Matches(call.links, tables, call.routes), call.links, tables)
    BY <1>2, <1>3, MatchesPaired
  <2>3. QED
    BY <2>1, <2>2 DEF MatchesOf
<1>6. matches \in SUBSET [link : Route, table : AnyTable]
  <2>1. ASSUME NEW m \in matches
        PROVE  m \in [link : Route, table : AnyTable]
    <3>1. /\ m.table \in tables /\ m = [link |-> m.link, table |-> m.table]
          /\ \E i \in DOMAIN call.links : m.link = call.links[i]
      BY <1>5 DEF Paired
    <3>2. m.link \in Route
      BY <1>2, <3>1, ElementOfSeq, LenProperties
    <3>3. QED
      BY <1>3, <3>1, <3>2
  <2>2. QED
    BY <2>1
<1>7. call' \in Job
  BY <1>1, <1>3, <1>4, <1>6 DEF Job
<1>8. /\ Agree(call, call', {"todo", "tables", "matches"}) /\ call'.todo = Tail(call.todo)
      /\ call'.tables = tables /\ call'.matches = matches
  BY <1>1, <1>4 DEF Agree, Fields, Job
<1>9. After(call, call', "linked", {"todo", "tables", "matches"})
  BY <1>1, <1>7, <1>8 DEF After
<1>10. /\ call'.tables = Tables(call.policies, call.shown, R)
       /\ call'.matches \in MatchesOf(call, call'.tables)
  BY <1>4, <1>8 DEF tables
<1>11. Sound(call', past, failed', polled)
  BY <1>1, <1>9, <1>10, LinkedRead
<1>12. QED
  BY <1>1, <1>11 DEF GoesOn, World

\* The requests that read lists and routes.
LEMMA StepConfig ==
  ASSUME World, Underway,
         \/ ReadLists \/ LoseLists \/ ReadRoutes \/ LoseRoutes \/ ReadLinked \/ LoseCaught
  PROVE  GoesOn
<1>1. failed \in BOOLEAN /\ FailedSince(failed, failed) /\ FailedSince(failed, TRUE)
  BY DEF World, FailedSince
<1>2. /\ ListsOf(rt) \in SeenLists(rt, failed) /\ rt.saved.lists \in SeenLists(rt, TRUE)
      /\ RoutesOf(rt) \in SeenRoutes(rt, failed) /\ rt.saved.routes \in SeenRoutes(rt, TRUE)
      /\ <<>> \in SeenRoutes(rt, TRUE)
  BY DEF SeenLists, SeenRoutes
<1>3. CASE ReadLists
  <2>1. /\ At("lists") /\ Listed(ListsOf(rt)) /\ failed' = failed
        /\ UNCHANGED <<rt, answer, changes, past, polled>>
    BY <1>3 DEF ReadLists
  <2>2. ListsOf(rt) \in SeenLists(rt, failed')
    BY <1>2, <2>1
  <2>3. QED
    BY <1>1, <2>1, <2>2, StepLists
<1>4. CASE LoseLists
  <2>1. /\ At("lists") /\ Listed(rt.saved.lists) /\ failed' = TRUE
        /\ UNCHANGED <<rt, answer, changes, past, polled>>
    BY <1>4 DEF LoseLists
  <2>2. rt.saved.lists \in SeenLists(rt, failed')
    BY <1>2, <2>1
  <2>3. QED
    BY <1>1, <2>1, <2>2, StepLists
<1>5. CASE ReadRoutes
  <2>1. /\ At("routes") /\ Routed(RoutesOf(rt)) /\ failed' = failed
        /\ UNCHANGED <<rt, answer, changes, past, polled>>
    BY <1>5 DEF ReadRoutes
  <2>2. RoutesOf(rt) \in SeenRoutes(rt, failed')
    BY <1>2, <2>1
  <2>3. QED
    BY <1>1, <2>1, <2>2, StepRoutes
<1>6. CASE LoseRoutes
  <2>1. /\ At("routes") /\ failed' = TRUE /\ UNCHANGED <<rt, answer, changes, past, polled>>
        /\ \E routes \in {<<>>, rt.saved.routes} : Routed(routes)
    BY <1>6 DEF LoseRoutes
  <2>2. PICK routes \in {<<>>, rt.saved.routes} : Routed(routes)
    BY <2>1
  <2>3. routes \in SeenRoutes(rt, failed')
    BY <1>2, <2>1
  <2>4. QED
    BY <1>1, <2>1, <2>2, <2>3, StepRoutes
<1>7. CASE ReadLinked
  <2>1. /\ At("linked") /\ Pair(RoutesOf(rt)) /\ failed' = failed
        /\ UNCHANGED <<rt, answer, changes, past, polled>>
    BY <1>7 DEF ReadLinked
  <2>2. RoutesOf(rt) \in SeenRoutes(rt, failed')
    BY <1>2, <2>1
  <2>3. QED
    BY <1>1, <2>1, <2>2, StepPair
<1>8. CASE LoseCaught
  <2>1. failed' = TRUE /\ UNCHANGED <<rt, answer, changes, past, polled>>
    BY <1>8 DEF LoseCaught
  <2>2. CASE At("linked") /\ \E routes \in {<<>>, rt.saved.routes} : Pair(routes)
    <3>1. PICK routes \in {<<>>, rt.saved.routes} : Pair(routes)
      BY <2>2
    <3>2. routes \in SeenRoutes(rt, failed')
      BY <1>2, <2>1
    <3>3. QED
      BY <1>1, <2>1, <2>2, <3>1, <3>2, StepPair
  <2>3. CASE /\ At("policies") \/ At("lookup") \/ At("live")
             /\ call' = [call EXCEPT !.todo = Tail(@)]
    <3>1. PICK p \in {"policies", "lookup", "live"} : At(p)
      BY <2>3
    <3>2. QED
      BY <2>1, <2>3, <3>1, StepLoseNothing
  <2>4. QED
    BY <1>8, <2>2, <2>3 DEF LoseCaught
<1>9. QED
  BY <1>3, <1>4, <1>5, <1>6, <1>7, <1>8

\* What a poll of the router gives.
LEMMA CollectIs ==
  ASSUME NEW f, NEW only
  PROVE  LET rows == RowsOf(rt.nat, only)
             g == Collect(f, rows)
         IN  Gathered(f, rt.nat, only, g)
<1> DEFINE rows == RowsOf(rt.nat, only)
           g == Collect(f, rows)
<1>1. \A k : FromNat(k) = SessionOf(rt.nat[k])
  BY DEF FromNat, SessionOf
<1> HIDE DEF rows
<1>2. g = [k \in DOMAIN f \cup rows |->
             IF k \notin rows THEN f[k]
             ELSE IF k \in DOMAIN f THEN Aggregate(f[k], SessionOf(rt.nat[k]))
             ELSE SessionOf(rt.nat[k])]
  BY <1>1 DEF Collect
<1> HIDE DEF g
<1>3. DOMAIN g = DOMAIN f \cup rows /\ g = [k \in DOMAIN g |-> g[k]]
  BY <1>2
<1>4. \A k \in DOMAIN g :
        /\ k \notin rows => g[k] = f[k]
        /\ k \in rows /\ k \in DOMAIN f => g[k] = Aggregate(f[k], SessionOf(rt.nat[k]))
        /\ k \in rows /\ k \notin DOMAIN f => g[k] = SessionOf(rt.nat[k])
  BY <1>2
<1>5. QED
  BY <1>3, <1>4 DEF Gathered, rows, g

\* What verify_flow_path takes from a poll.
LEMMA SomeRows ==
  ASSUME rt.nat \in Partial(Key, Counters), NEW S \in Some(DOMAIN rt.nat, PollLimit), NEW g,
         g = Collect(<<>>, S)
  PROVE  g \in SessionsOf(rt.nat) /\ g \in Partial(Key, Session)
<1> DEFINE nat == rt.nat
<1>1. /\ DOMAIN nat \subseteq Key /\ \A k \in DOMAIN nat : nat[k] \in Counters
      /\ S \in SUBSET (DOMAIN nat)
  BY PartialIs DEF Some
<1>2. \A k : FromNat(k) = SessionOf(nat[k])
  BY DEF FromNat, SessionOf
<1>3. DOMAIN <<>> = {}
  OBVIOUS
<1>4. g = [k \in S |-> SessionOf(nat[k])]
  BY <1>2, <1>3 DEF Collect
<1>5. g \in SessionsOf(nat)
  BY <1>4 DEF SessionsOf
<1> HIDE DEF nat
<1>6. \A k \in DOMAIN g : g[k] \in Session
  BY <1>1, <1>4, CountersAre
<1>7. g \in [DOMAIN g -> Session] /\ DOMAIN g \in SUBSET Key
  BY <1>1, <1>4, <1>6
<1>8. QED
  BY <1>5, <1>7, PartialMade DEF nat

\* After a poll the call sleeps, or goes on.
LEMMA StepPolls ==
  ASSUME World, Underway, At("poll"), NEW s \in Partial(Key, Session), NEW k \in 0..call.left,
         Polls([call EXCEPT !.sessions = s], k),
         failed' \in BOOLEAN, FailedSince(failed, failed'),
         polled' \subseteq Partial(Key, Counters),
         \A d : d.sessions = s => NewSessions(call, d, past, failed', polled'),
         UNCHANGED <<rt, answer, changes, past>>
  PROVE  GoesOn
<1> DEFINE c == [call EXCEPT !.sessions = s]
           rest == AfterPolls(call)
<1>1. /\ Running /\ call \in Job /\ Sound(call, past, failed, polled)
      /\ call.todo # <<>> /\ call.todo[1] = "poll" /\ Tail(call.todo) \in Seq(Request)
  BY Asks
<1>2. k \in Nat
  BY <1>1 DEF Job
<1>3. c \in Job /\ AfterPolls(c) = rest
  <2>1. c.op = call.op /\ c.links = call.links /\ c.todo = call.todo
    BY <1>1 DEF Job
  <2>2. c \in Job
    BY <1>1 DEF Job
  <2> HIDE DEF c
  <2>3. QED
    BY <2>1, <2>2 DEF AfterPolls, Egress
<1>4. rest \in Seq(Request)
  BY <1>1 DEF AfterPolls
<1>5. \/ call' = [c EXCEPT !.left = k, !.todo = rest]
      \/ call' = [c EXCEPT !.left = k, !.asleep = TRUE]
  BY <1>3 DEF Polls
<1>6. CASE call' = [c EXCEPT !.left = k, !.todo = rest]
  <2> HIDE DEF rest
  <2>1. call' \in Job
    BY <1>1, <1>2, <1>4, <1>6 DEF Job
  <2>2. /\ Agree(call, call', {"todo", "left", "sessions"}) /\ call'.todo = rest
        /\ call'.sessions = s
    BY <1>1, <1>6 DEF Agree, Fields, Job
  <2>3. NewSessions(call, call', past, failed', polled') /\ call'.todo = AfterPolls(call)
    BY <2>2 DEF rest
  <2>4. Sound(call', past, failed', polled')
    BY <1>1, <2>1, <2>2, <2>3, PollsOver
  <2>5. QED
    BY <1>1, <2>4 DEF GoesOn
<1>7. CASE call' = [c EXCEPT !.left = k, !.asleep = TRUE]
  <2>1. call' \in Job
    BY <1>1, <1>2, <1>7 DEF Job
  <2>2. Agree(call, call', {"left", "asleep", "sessions"}) /\ call'.sessions = s
    BY <1>1, <1>7 DEF Agree, Fields, Job
  <2>3. NewSessions(call, call', past, failed', polled')
    BY <2>2
  <2>4. Sound(call', past, failed', polled')
    BY <1>1, <2>1, <2>2, <2>3, PolledAgain
  <2>5. QED
    BY <1>1, <2>4 DEF GoesOn
<1>8. QED
  BY <1>5, <1>6, <1>7

LEMMA StepPoll ==
  ASSUME World, Underway, Poll
  PROVE  GoesOn
<1> DEFINE nat == rt.nat
<1>1. /\ At("poll") /\ failed' = failed /\ UNCHANGED <<rt, answer, changes, past>>
      /\ polled' = IF call.op = "conntrack" THEN polled \cup {nat} ELSE polled
      /\ \E k \in 0..call.left, f \in Polled(call) : Polls([call EXCEPT !.sessions = f], k)
  BY DEF Poll
<1>0. PICK s \in Polled(call) : \E k \in 0..call.left : Polls([call EXCEPT !.sessions = s], k)
  BY <1>1
<1>2. /\ call \in Job /\ Sound(call, past, failed, polled) /\ rt \in past /\ rt \in GoodRouter
      /\ failed \in BOOLEAN /\ FailedSince(failed, failed) /\ InTurn(call)
      /\ call.todo # <<>> /\ call.todo[1] = "poll"
  BY <1>1, Asks
<1>3. nat \in Partial(Key, Counters) /\ polled \in SUBSET Partial(Key, Counters)
  BY <1>2, RouterTypes DEF World
<1>4. call.op \in {"verify", "conntrack"}
  BY <1>2, OnlyLate DEF LateRequests
<1>5. call.sessions \in Partial(Key, Session) /\ call.only \in BOOLEAN
  BY <1>2 DEF Job
<1>6. Rows(call) = RowsOf(nat, call.only)
  BY DEF Rows, RowsOf
<1>7. SessionsSeen(call, past, failed, polled)
  BY <1>2 DEF Sound, Seen
<1>8. /\ polled' \subseteq Partial(Key, Counters) /\ s \in Partial(Key, Session)
      /\ \A d : d.sessions = s => NewSessions(call, d, past, failed, polled')
  <2>1. CASE call.op = "conntrack"
    <3>1. s = Collect(call.sessions, RowsOf(nat, call.only))
      BY <1>0, <1>6, <2>1 DEF Polled
    <3>2. Gathered(call.sessions, nat, call.only, s)
      BY <3>1, CollectIs
    <3>3. Kept(call.sessions, call.only, polled)
      BY <1>7, <2>1 DEF SessionsSeen
    <3> HIDE DEF nat
    <3>4. s \in Partial(Key, Session) /\ Kept(s, call.only, polled \cup {nat})
      BY <1>3, <1>5, <3>2, <3>3, GatheredKept
    <3>5. polled' = polled \cup {nat}
      BY <1>1, <2>1
    <3>6. QED
      BY <1>3, <2>1, <3>4, <3>5 DEF NewSessions
  <2>2. CASE call.op = "verify"
    <3>1. ~call.only
      BY <1>7, <2>2 DEF SessionsSeen
    <3>2. RowsOf(nat, call.only) = DOMAIN nat
      BY <3>1 DEF RowsOf
    <3>3. PICK S \in Some(DOMAIN nat, PollLimit) : s = Collect(<<>>, S)
      BY <1>0, <1>6, <2>2, <3>2 DEF Polled
    <3>4. s \in SessionsOf(nat) /\ s \in Partial(Key, Session)
      BY <1>3, <3>3, SomeRows
    <3>5. polled' = polled
      BY <1>1, <2>2
    <3>6. QED
      BY <1>2, <1>3, <2>2, <3>4, <3>5 DEF NewSessions
  <2>3. QED
    BY <1>4, <2>1, <2>2
<1> HIDE DEF nat
<1>9. PICK k \in 0..call.left : Polls([call EXCEPT !.sessions = s], k)
  BY <1>0
<1>10. QED
  BY <1>1, <1>2, <1>8, <1>9, StepPolls

LEMMA StepLosePoll ==
  ASSUME World, Underway, LosePoll
  PROVE  GoesOn
<1> DEFINE s == <<>>
<1>1. /\ At("poll") /\ call.op = "verify" /\ failed' = TRUE
      /\ UNCHANGED <<rt, answer, changes, past, polled>>
      /\ \E k \in 0..call.left : Polls([call EXCEPT !.sessions = s], k)
  BY DEF LosePoll
<1>2. FailedSince(failed, TRUE) /\ polled \subseteq Partial(Key, Counters)
  BY <1>1, Asks DEF World
<1>3. s \in Partial(Key, Session)
  <2>1. {} \in SUBSET Key /\ s \in [{} -> Session]
    OBVIOUS
  <2>2. QED
    BY <2>1, PartialMade
<1>4. \A d : d.sessions = s => NewSessions(call, d, past, failed', polled')
  BY <1>1 DEF NewSessions
<1> HIDE DEF s
<1>5. PICK k \in 0..call.left : Polls([call EXCEPT !.sessions = s], k)
  BY <1>1
<1>6. QED
  BY <1>1, <1>2, <1>3, <1>4, <1>5, StepPolls

LEMMA StepWake ==
  ASSUME World, Underway, Wake
  PROVE  GoesOn
<1>1. PICK k \in Slept(call.left) : call' = [call EXCEPT !.left = k, !.asleep = FALSE]
  BY DEF Wake
<1>2. /\ Running /\ UNCHANGED <<rt, answer, changes, past, polled, failed>>
      /\ Sound(call, past, failed, polled) /\ call \in Job /\ failed \in BOOLEAN
  BY DEF Wake, World, Underway, Sound
<1>3. k \in Nat
  BY <1>1, <1>2 DEF Slept, Job
<1>4. call' \in Job
  BY <1>1, <1>2, <1>3 DEF Job
<1>5. Agree(call, call', {"left", "asleep"})
  BY <1>1, <1>2 DEF Agree, Fields, Job
<1>6. Sound(call', past, failed, polled)
  BY <1>2, <1>4, <1>5, Woken
<1>7. QED
  BY <1>2, <1>6 DEF GoesOn, World

LEMMA StepPeers ==
  ASSUME World, Underway, ReadPeers
  PROVE  GoesOn
<1> DEFINE allow == rt.allow
<1>1. /\ At("peers") /\ call' = [[call EXCEPT !.allow = allow] EXCEPT !.todo = Tail(@)]
      /\ UNCHANGED <<rt, answer, changes, past, polled, failed>>
  BY DEF ReadPeers, Learn
<1>2. /\ Running /\ call \in Job /\ Sound(call, past, failed, polled) /\ rt \in past
      /\ rt \in GoodRouter /\ call.todo # <<>> /\ call.todo[1] = "peers"
      /\ Tail(call.todo) \in Seq(Request) /\ failed \in BOOLEAN
  BY <1>1, Asks
<1>3. allow \in Cover
  BY <1>2, RouterTypes
<1> HIDE DEF allow
<1>4. call' \in Job
  BY <1>1, <1>2, <1>3 DEF Job
<1>5. Agree(call, call', {"todo", "allow"}) /\ call'.todo = Tail(call.todo) /\ call'.allow = allow
  BY <1>1, <1>2 DEF Agree, Fields, Job
<1>6. After(call, call', "peers", {"todo", "allow"})
  BY <1>2, <1>4, <1>5 DEF After
<1>7. call'.allow = rt.allow /\ call'.allow \in Cover
  BY <1>3, <1>5 DEF allow
<1>8. Sound(call', past, failed, polled)
  BY <1>2, <1>6, <1>7, PeersRead
<1>9. QED
  BY <1>1, <1>2, <1>8 DEF GoesOn, World

LEMMA StepRuntime ==
  ASSUME World, Underway, ReadRuntime
  PROVE  GoesOn
<1> DEFINE online == rt.online
           age == rt.age
<1>1. /\ At("runtime")
      /\ call' = [[call EXCEPT !.online = online, !.age = age] EXCEPT !.todo = Tail(@)]
      /\ UNCHANGED <<rt, answer, changes, past, polled, failed>>
  BY DEF ReadRuntime, Learn
<1>2. /\ Running /\ call \in Job /\ Sound(call, past, failed, polled) /\ rt \in past
      /\ rt \in GoodRouter /\ call.todo # <<>> /\ call.todo[1] = "runtime"
      /\ Tail(call.todo) \in Seq(Request) /\ failed \in BOOLEAN
  BY <1>1, Asks
<1>3. online \in Online /\ age \in Age
  BY <1>2, RouterTypes
<1> HIDE DEF online, age
<1>4. call' \in Job
  BY <1>1, <1>2, <1>3 DEF Job
<1>5. /\ Agree(call, call', {"todo", "online", "age"}) /\ call'.todo = Tail(call.todo)
      /\ call'.online = online /\ call'.age = age
  BY <1>1, <1>2 DEF Agree, Fields, Job
<1>6. After(call, call', "runtime", {"todo", "online", "age"})
  BY <1>2, <1>4, <1>5 DEF After
<1>7. call'.online = rt.online /\ call'.age = rt.age /\ call'.online \in Online
  BY <1>3, <1>5 DEF online, age
<1>8. Sound(call', past, failed, polled)
  BY <1>2, <1>6, <1>7, RuntimeRead
<1>9. QED
  BY <1>1, <1>2, <1>8 DEF GoesOn, World

LEMMA StepLoseWireguard ==
  ASSUME World, Underway, LoseWireguard
  PROVE  GoesOn
<1> DEFINE rest == <<>>
<1>1. PICK p \in {"peers", "runtime"} : At(p)
  BY DEF LoseWireguard
<1>2. /\ call' = [call EXCEPT !.todo = rest] /\ failed' = TRUE
      /\ UNCHANGED <<rt, answer, changes, past, polled>>
  BY DEF LoseWireguard
<1>3. /\ Running /\ call \in Job /\ Sound(call, past, failed, polled) /\ failed \in BOOLEAN
      /\ call.todo # <<>> /\ call.todo[1] = p
  BY <1>1, Asks
<1> HIDE DEF rest
<1>4. call' \in Job
  <2>1. rest \in Seq(Request)
    BY DEF rest
  <2>2. QED
    BY <1>2, <1>3, <2>1 DEF Job
<1>5. Agree(call, call', {"todo"}) /\ call'.todo = <<>>
  <2>1. Agree(call, call', {"todo"}) /\ call'.todo = rest
    BY <1>2, <1>3 DEF Agree, Fields, Job
  <2>2. QED
    BY <2>1 DEF rest
<1>6. Sound(call', past, TRUE, polled)
  BY <1>3, <1>4, <1>5, WireguardLost
<1>7. QED
  BY <1>2, <1>3, <1>6 DEF GoesOn, World

\* The call ends.
LEMMA Replied ==
  ASSUME CallInv, Running, NEW a, Reply(a), a # None, failed' \in BOOLEAN,
         Told(a, past, failed', polled)
  PROVE  CallInv'
<1>1. call' = None /\ answer' = a /\ UNCHANGED <<rt, changes, past, polled>>
  BY DEF Reply
<1>2. World'
  BY <1>1 DEF CallInv, World, Running
<1>3. Underway' /\ Closed'
  BY <1>1 DEF Underway, Closed, Running
<1>4. QED
  BY <1>2, <1>3 DEF CallInv

LEMMA ReportIs ==
  ASSUME NEW c \in Job, NEW S
  PROVE  Report(c, S).op = c.op /\ Report(c, S) # None
<1>1. c.op \in Ops
  BY DEF Job
<1>2. Report(c, S).op = c.op
  BY <1>1 DEF Report, Ops
<1>3. None.op = "none"
  BY DEF None
<1>4. QED
  BY <1>1, <1>2, <1>3 DEF Ops

LEMMA StepReply ==
  ASSUME CallInv,
         \/ Raise \/ Unresolved \/ UnknownList \/ Finish
         \/ LoseTables /\ call.op \notin {"dns", "route"}
  PROVE  CallInv'
<1> DEFINE raised == [op |-> "raised"]
<1>1. raised # None /\ Told(raised, past, failed', polled)
  BY DEF None, Told
<1>2. failed \in BOOLEAN
  BY DEF CallInv, World
<1>3. CASE Raise
  <2>1. Running /\ Reply(raised) /\ failed' = TRUE
    BY <1>3 DEF Raise
  <2>2. QED
    BY <1>1, <2>1, Replied
<1>4. CASE UnknownList
  <2>1. Running /\ Reply(raised) /\ failed' = failed
    BY <1>4 DEF UnknownList, At
  <2>2. QED
    BY <1>1, <1>2, <2>1, Replied
<1>5. CASE LoseTables /\ call.op \notin {"dns", "route"}
  <2>1. Running /\ Reply(raised) /\ failed' = TRUE
    BY <1>5 DEF LoseTables, At
  <2>2. QED
    BY <1>1, <2>1, Replied
<1>6. CASE Unresolved
  <2> DEFINE a == [op |-> "unresolved",
                   judged |-> [e \in Expected |-> IF e = "WAN" THEN "G" ELSE "A"]]
  <2>1. Running /\ Reply(a) /\ failed' = TRUE
    BY <1>6 DEF Unresolved, At
  <2>2. a.op = "unresolved" /\ a # None
    <3>1. a.op = "unresolved" /\ None.op = "none"
      BY DEF None
    <3>2. QED
      BY <3>1
  <2> HIDE DEF a
  <2>3. Told(a, past, failed', polled)
    BY <2>2 DEF Told
  <2>4. QED
    BY <2>1, <2>2, <2>3, Replied
<1>7. CASE Finish
  <2>0. PICK S \in Some(DOMAIN call.sessions, call.limit) : Reply(Report(call, S))
    BY <1>7 DEF Finish
  <2> DEFINE a == Report(call, S)
  <2>1. Running /\ call.todo = <<>> /\ Reply(a) /\ failed' = failed
    BY <1>7, <2>0 DEF Finish
  <2>2. Sound(call, past, failed, polled) /\ call \in Job
    BY <2>1 DEF CallInv, Underway, Sound
  <2>3. a # None
    BY <2>2, ReportIs
  <2>4. Told(a, past, failed', polled)
    BY <2>1, <2>2 DEF Told
  <2> HIDE DEF a
  <2>5. QED
    BY <1>2, <2>1, <2>3, <2>4, Replied
<1>8. QED
  BY <1>3, <1>4, <1>5, <1>6, <1>7

LEMMA StepStart ==
  ASSUME CallInv, Start
  PROVE  CallInv'
<1>1. PICK k \in Calls : call' = Opened(k)
  BY DEF Start
<1>2. ~Running /\ answer = None /\ past' = {rt} /\ UNCHANGED <<rt, answer, changes, polled, failed>>
  BY DEF Start
<1>3. rt \in GoodRouter /\ polled = {} /\ failed = FALSE /\ changes \in Nat
  BY <1>2 DEF CallInv, World
<1>4. Sound(Opened(k), {rt}, FALSE, {})
  BY <1>3, OpenedSound
<1>5. Sound(call', past', failed', polled')
  BY <1>1, <1>2, <1>3, <1>4
<1>6. call' # None
  <2>1. call'.op \in Ops /\ None.op = "none"
    BY <1>5 DEF Sound, Job, None
  <2>2. QED
    BY <2>1 DEF Ops
<1>7. IsFiniteSet({rt})
  BY FS_Singleton
<1>8. World'
  BY <1>2, <1>3, <1>6, <1>7 DEF World, Running
<1>9. Underway' /\ Closed'
  BY <1>2, <1>5, <1>6 DEF Underway, Closed, Running
<1>10. QED
  BY <1>8, <1>9 DEF CallInv

\* The router changes while the call runs.
LEMMA StepChanges ==
  ASSUME CallInv, NEW r \in GoodRouter, Changes(r)
  PROVE  CallInv'
<1>1. /\ Running /\ rt' = r /\ changes' = changes + 1 /\ past' = past \cup {r}
      /\ UNCHANGED <<call, answer, polled, failed>>
  BY DEF Changes
<1>2. /\ Sound(call, past, failed, polled) /\ answer = None /\ failed \in BOOLEAN
      /\ past \subseteq GoodRouter /\ IsFiniteSet(past) /\ changes \in Nat
      /\ polled \subseteq Partial(Key, Counters)
  BY <1>1 DEF CallInv, World, Underway
<1>3. past \subseteq past'
  BY <1>1
<1>4. Sound(call, past', failed, polled)
  BY <1>2, <1>3, RouterMoves
<1>5. IsFiniteSet(past')
  BY <1>1, <1>2, FS_AddElement
<1>6. World'
  BY <1>1, <1>2, <1>5 DEF World, Running
<1>7. Underway' /\ Closed'
  BY <1>1, <1>2, <1>4 DEF Underway, Closed, Running
<1>8. QED
  BY <1>6, <1>7 DEF CallInv

\* A router with another part.
LEMMA OtherParts ==
  ASSUME NEW r \in GoodRouter
  PROVE  /\ \A L \in Listing : [r EXCEPT !.lists = L] \in GoodRouter
         /\ \A s \in Seq(Route) : Identified(s) => [r EXCEPT !.routes = s] \in GoodRouter
         /\ \A f \in Tabling : [r EXCEPT !.shown = f] \in GoodRouter
         /\ \A f \in Partial(Key, Counters) : [r EXCEPT !.nat = f] \in GoodRouter
         /\ \A a \in Cover : [r EXCEPT !.allow = a] \in GoodRouter
         /\ \A o \in Online : [r EXCEPT !.online = o] \in GoodRouter
         /\ \A a \in Age : [r EXCEPT !.age = a] \in GoodRouter
<1>1. r \in Router /\ Identified(r.routes) /\ Identified(r.saved.routes)
  BY DEF GoodRouter
<1>2. ASSUME NEW L \in Listing
      PROVE  [r EXCEPT !.lists = L] \in GoodRouter
  <2>1. [r EXCEPT !.lists = L] \in Router
    BY <1>1 DEF Router
  <2>2. QED
    BY <1>1, <2>1 DEF GoodRouter, Router
<1>3. ASSUME NEW s \in Seq(Route), Identified(s)
      PROVE  [r EXCEPT !.routes = s] \in GoodRouter
  <2>1. [r EXCEPT !.routes = s] \in Router
    BY <1>1 DEF Router
  <2>2. [r EXCEPT !.routes = s].routes = s /\ [r EXCEPT !.routes = s].saved = r.saved
    BY <1>1 DEF Router
  <2>3. QED
    BY <1>1, <1>3, <2>1, <2>2 DEF GoodRouter
<1>4. ASSUME NEW f \in Tabling
      PROVE  [r EXCEPT !.shown = f] \in GoodRouter
  <2>1. [r EXCEPT !.shown = f] \in Router
    BY <1>1 DEF Router, Tabling
  <2>2. QED
    BY <1>1, <2>1 DEF GoodRouter, Router
<1>5. ASSUME NEW f \in Partial(Key, Counters)
      PROVE  [r EXCEPT !.nat = f] \in GoodRouter
  <2>1. [r EXCEPT !.nat = f] \in Router
    BY <1>1 DEF Router
  <2>2. QED
    BY <1>1, <2>1 DEF GoodRouter, Router
<1>6. ASSUME NEW a \in Cover
      PROVE  [r EXCEPT !.allow = a] \in GoodRouter
  <2>1. [r EXCEPT !.allow = a] \in Router
    BY <1>1 DEF Router
  <2>2. QED
    BY <1>1, <2>1 DEF GoodRouter, Router
<1>7. ASSUME NEW o \in Online
      PROVE  [r EXCEPT !.online = o] \in GoodRouter
  <2>1. [r EXCEPT !.online = o] \in Router
    BY <1>1 DEF Router
  <2>2. QED
    BY <1>1, <2>1 DEF GoodRouter, Router
<1>8. ASSUME NEW a \in Age
      PROVE  [r EXCEPT !.age = a] \in GoodRouter
  <2>1. [r EXCEPT !.age = a] \in Router
    BY <1>1 DEF Router
  <2>2. QED
    BY <1>1, <2>1 DEF GoodRouter, Router
<1>9. QED
  BY <1>2, <1>3, <1>4, <1>5, <1>6, <1>7, <1>8

\* A function with one value changed, left out or added.
LEMMA PartialChanged ==
  ASSUME NEW S, NEW T, NEW f \in Partial(S, T), NEW k \in S, NEW v \in T
  PROVE  /\ [f EXCEPT ![k] = v] \in Partial(S, T)
         /\ [m \in DOMAIN f \ {k} |-> f[m]] \in Partial(S, T)
         /\ With(f, k, v) \in Partial(S, T)
<1>1. DOMAIN f \in SUBSET S /\ f \in [DOMAIN f -> T] /\ \A m \in DOMAIN f : f[m] \in T
  BY DEF Partial
<1>2. [f EXCEPT ![k] = v] \in [DOMAIN f -> T]
  BY <1>1
<1>3. /\ DOMAIN f \ {k} \in SUBSET S
      /\ [m \in DOMAIN f \ {k} |-> f[m]] \in [DOMAIN f \ {k} -> T]
  BY <1>1
<1>4. DOMAIN f \cup {k} \in SUBSET S /\ With(f, k, v) \in [DOMAIN f \cup {k} -> T]
  BY <1>1 DEF With
<1>5. QED
  BY <1>1, <1>2, <1>3, <1>4, PartialMade

\* The routes after one was removed.
LEMMA RouteRemoved ==
  ASSUME NEW s \in Seq(Route), Identified(s), NEW i \in DOMAIN s
  PROVE  RemoveAt(s, i) \in Seq(Route) /\ Identified(RemoveAt(s, i))
<1> DEFINE a == SubSeq(s, 1, i - 1)
           b == SubSeq(s, i + 1, Len(s))
           w == a \o b
           From(j) == IF j < i THEN j ELSE j + 1
<1>1. /\ Len(s) \in Nat /\ DOMAIN s = 1..Len(s) /\ i \in 1..Len(s)
      /\ \A j \in 1..Len(s) : s[j] \in Route
  BY LenProperties, ElementOfSeq
<1>2. a \in Seq(Route) /\ Len(a) = i - 1 /\ \A j \in 1..(i - 1) : a[j] = s[j]
  BY <1>1, SubSeqProperties
<1>3. /\ b \in Seq(Route) /\ Len(b) = Len(s) - i
      /\ \A j \in 1..(Len(s) - i) : b[j] = s[i + j]
  <2>1. /\ b \in Seq(Route) /\ Len(b) = IF i + 1 <= Len(s) THEN Len(s) - (i + 1) + 1 ELSE 0
        /\ \A j \in 1..(Len(s) - (i + 1) + 1) : b[j] = s[(i + 1) + j - 1]
    BY <1>1, SubSeqProperties
  <2> HIDE DEF b
  <2> DEFINE n == Len(s)
  <2>2. n \in Nat /\ i \in Nat /\ 1 <= i /\ i <= n
    BY <1>1
  <2>3. Len(b) = n - i
    BY <2>1, <2>2
  <2>4. ASSUME NEW j \in 1..(n - i)
        PROVE  b[j] = s[i + j]
    <3>1. j \in 1..(n - (i + 1) + 1) /\ (i + 1) + j - 1 = i + j
      BY <2>2
    <3>2. QED
      BY <2>1, <3>1
  <2>5. QED
    BY <2>1, <2>3, <2>4
<1> HIDE DEF a, b
<1>4. /\ w \in Seq(Route) /\ Len(w) = Len(s) - 1
      /\ \A j \in 1..Len(w) : w[j] = IF j <= Len(a) THEN a[j] ELSE b[j - Len(a)]
  <2>1. /\ w \in Seq(Route) /\ Len(w) = Len(a) + Len(b)
        /\ \A j \in 1..(Len(a) + Len(b)) : w[j] = IF j <= Len(a) THEN a[j] ELSE b[j - Len(a)]
    BY <1>2, <1>3, ConcatProperties
  <2> HIDE DEF w
  <2> DEFINE n == Len(s)
  <2>2. n \in Nat /\ i \in Nat /\ 1 <= i /\ i <= n
    BY <1>1
  <2>3. Len(a) + Len(b) = n - 1
    BY <1>2, <1>3, <2>2
  <2>4. QED
    BY <2>1, <2>3
<1> HIDE DEF w
<1>5. DOMAIN w = 1..(Len(s) - 1)
  BY <1>4, LenProperties
<1>6. ASSUME NEW j \in DOMAIN w
      PROVE  From(j) \in DOMAIN s /\ w[j] = s[From(j)] /\ j \in Nat
  <2>1. j \in Nat /\ 1 <= j /\ j <= Len(s) - 1
    BY <1>1, <1>5
  <2>2. CASE j < i
    BY <1>1, <1>2, <1>4, <1>5, <2>1, <2>2
  <2>3. CASE ~(j < i)
    <3>1. j - Len(a) \in 1..(Len(s) - i) /\ i + (j - Len(a)) = j + 1 /\ ~(j <= Len(a))
      BY <1>1, <1>2, <2>1, <2>3
    <3>2. w[j] = s[j + 1] /\ j + 1 \in 1..Len(s)
      BY <1>1, <1>3, <1>4, <1>5, <2>1, <3>1
    <3>3. QED
      BY <1>1, <2>1, <2>3, <3>2
  <2>4. QED
    BY <2>2, <2>3
<1>7. ASSUME NEW j \in DOMAIN w, NEW k \in DOMAIN w, w[j].idx = w[k].idx
      PROVE  j = k
  <2>1. From(j) = From(k)
    <3>1. s[From(j)].idx = s[From(k)].idx /\ From(j) \in DOMAIN s /\ From(k) \in DOMAIN s
      BY <1>6, <1>7
    <3> DEFINE x == From(j)
               y == From(k)
    <3>2. x \in DOMAIN s /\ y \in DOMAIN s /\ s[x].idx = s[y].idx
      BY <3>1
    <3> HIDE DEF x, y
    <3>3. x = y
      BY <3>2 DEF Identified
    <3>4. QED
      BY <3>3 DEF x, y
  <2>2. j \in Nat /\ k \in Nat /\ i \in Nat
    BY <1>1, <1>6
  <2>3. CASE j < i /\ k < i
    BY <2>1, <2>2, <2>3
  <2>4. CASE j < i /\ ~(k < i)
    BY <2>1, <2>2, <2>4
  <2>5. CASE ~(j < i) /\ k < i
    BY <2>1, <2>2, <2>5
  <2>6. CASE ~(j < i) /\ ~(k < i)
    BY <2>1, <2>2, <2>6
  <2>7. QED
    BY <2>3, <2>4, <2>5, <2>6
<1>8. w \in Seq(Route) /\ Identified(w)
  BY <1>4, <1>7 DEF Identified
<1>9. QED
  BY <1>8 DEF RemoveAt, w, a, b

\* The routes after one was changed.
LEMMA RouteChanged ==
  ASSUME NEW s \in Seq(Route), Identified(s), NEW i \in DOMAIN s, NEW r \in Route,
         r.idx = s[i].idx
  PROVE  [s EXCEPT ![i] = r] \in Seq(Route) /\ Identified([s EXCEPT ![i] = r])
<1> DEFINE w == [s EXCEPT ![i] = r]
<1>1. w \in Seq(Route) /\ DOMAIN w = DOMAIN s
  BY ExceptSeq
<1>2. \A j \in DOMAIN s : w[j].idx = s[j].idx
  OBVIOUS
<1> HIDE DEF w
<1>3. Identified(w)
  BY <1>1, <1>2 DEF Identified
<1>4. QED
  BY <1>1, <1>3 DEF w

\* What changes about the router leaves it one that may be met.
LEMMA StepOthers ==
  ASSUME CallInv, Others
  PROVE  CallInv'
<1>1. rt \in GoodRouter /\ rt \in Router
  BY DEF CallInv, World, GoodRouter
<1>2. /\ rt.lists \in Partial(ListId, SUBSET Entry) /\ rt.routes \in Seq(Route)
      /\ rt.shown \in Partial(TableId, Shape) /\ rt.nat \in Partial(Key, Counters)
  BY <1>1 DEF Router, Listing
<1>3. Identified(rt.routes)
  BY <1>1 DEF GoodRouter
<1>4. CASE EditList
  <2>1. PICK l \in DOMAIN rt.lists :
          \/ \E es \in SUBSET Entry : Changes([rt EXCEPT !.lists[l] = es])
          \/ Changes([rt EXCEPT !.lists = [k \in DOMAIN @ \ {l} |-> @[k]]])
    BY <1>4 DEF EditList
  <2>2. l \in ListId
    BY <1>2, PartialIs
  <2>3. ASSUME NEW es \in SUBSET Entry, Changes([rt EXCEPT !.lists[l] = es])
        PROVE  CallInv'
    <3> DEFINE L == [rt.lists EXCEPT ![l] = es]
               r == [rt EXCEPT !.lists = L]
    <3>1. L \in Listing
      BY <1>2, <2>2, PartialChanged DEF Listing
    <3>2. r \in GoodRouter
      BY <1>1, <3>1, OtherParts
    <3>3. [rt EXCEPT !.lists[l] = es] = r
      OBVIOUS
    <3> HIDE DEF r
    <3>4. QED
      BY <2>3, <3>2, <3>3, StepChanges
  <2>4. CASE Changes([rt EXCEPT !.lists = [k \in DOMAIN @ \ {l} |-> @[k]]])
    <3> DEFINE L == [k \in DOMAIN rt.lists \ {l} |-> rt.lists[k]]
               r == [rt EXCEPT !.lists = L]
    <3>1. L \in Listing
      BY <1>2, <2>2, PartialChanged DEF Listing
    <3>2. r \in GoodRouter
      BY <1>1, <3>1, OtherParts
    <3> HIDE DEF r
    <3>4. QED
      BY <2>4, <3>2, StepChanges DEF r
  <2>5. QED
    BY <2>1, <2>3, <2>4
<1>5. CASE EditRoute
  <2>1. PICK i \in DOMAIN rt.routes :
          \/ Changes([rt EXCEPT !.routes[i].on = ~@])
          \/ \E out \in Iface : Changes([rt EXCEPT !.routes[i].iface = out])
          \/ Changes([rt EXCEPT !.routes = RemoveAt(@, i)])
    BY <1>5 DEF EditRoute
  <2>2. rt.routes[i] \in Route
    BY <1>2, ElementOfSeq, LenProperties
  <2>3. ASSUME NEW q \in Route, q.idx = rt.routes[i].idx,
               Changes([rt EXCEPT !.routes = [rt.routes EXCEPT ![i] = q]])
        PROVE  CallInv'
    <3> DEFINE s == [rt.routes EXCEPT ![i] = q]
               r == [rt EXCEPT !.routes = s]
    <3>1. s \in Seq(Route) /\ Identified(s)
      BY <1>2, <1>3, <2>3, RouteChanged
    <3>2. r \in GoodRouter
      BY <1>1, <3>1, OtherParts
    <3> HIDE DEF r
    <3>3. QED
      BY <2>3, <3>2, StepChanges DEF r
  <2>4. CASE Changes([rt EXCEPT !.routes[i].on = ~@])
    <3> DEFINE q == [rt.routes[i] EXCEPT !.on = ~@]
    <3>1. q \in Route /\ q.idx = rt.routes[i].idx
      BY <2>2 DEF Route
    <3>2. [rt EXCEPT !.routes[i].on = ~@] = [rt EXCEPT !.routes = [rt.routes EXCEPT ![i] = q]]
      OBVIOUS
    <3> HIDE DEF q
    <3> DEFINE x == [rt EXCEPT !.routes[i].on = ~@]
               y == [rt EXCEPT !.routes = [rt.routes EXCEPT ![i] = q]]
    <3>3. x = y /\ Changes(x)
      BY <2>4, <3>2
    <3>4. Changes(y)
      <4> HIDE DEF x, y
      <4>1. QED
        BY <3>3
    <3>5. QED
      BY <2>3, <3>1, <3>4
  <2>5. ASSUME NEW out \in Iface, Changes([rt EXCEPT !.routes[i].iface = out])
        PROVE  CallInv'
    <3> DEFINE q == [rt.routes[i] EXCEPT !.iface = out]
    <3>1. q \in Route /\ q.idx = rt.routes[i].idx
      BY <2>2 DEF Route
    <3>2. [rt EXCEPT !.routes[i].iface = out] = [rt EXCEPT !.routes = [rt.routes EXCEPT ![i] = q]]
      OBVIOUS
    <3> HIDE DEF q
    <3>3. QED
      BY <2>3, <2>5, <3>1, <3>2
  <2>6. CASE Changes([rt EXCEPT !.routes = RemoveAt(@, i)])
    <3> DEFINE s == RemoveAt(rt.routes, i)
               r == [rt EXCEPT !.routes = s]
    <3>1. s \in Seq(Route) /\ Identified(s)
      BY <1>2, <1>3, RouteRemoved
    <3>2. r \in GoodRouter
      BY <1>1, <3>1, OtherParts
    <3> HIDE DEF r
    <3>3. QED
      BY <2>6, <3>2, StepChanges DEF r
  <2>7. QED
    BY <2>1, <2>4, <2>5, <2>6
<1>6. CASE RebuildTable
  <2>1. PICK n \in DOMAIN rt.shown :
          \/ \E s \in Shapes : Changes([rt EXCEPT !.shown[n] = s])
          \/ Changes([rt EXCEPT !.shown = [m \in DOMAIN @ \ {n} |-> @[m]]])
    BY <1>6 DEF RebuildTable
  <2>2. n \in TableId
    BY <1>2, PartialIs
  <2>3. ASSUME NEW f \in Partial(TableId, Shape), Changes([rt EXCEPT !.shown = f])
        PROVE  CallInv'
    <3> DEFINE r == [rt EXCEPT !.shown = f]
    <3>1. r \in GoodRouter
      BY <1>1, OtherParts DEF Tabling
    <3> HIDE DEF r
    <3>2. QED
      BY <2>3, <3>1, StepChanges DEF r
  <2>4. ASSUME NEW s \in Shapes, Changes([rt EXCEPT !.shown[n] = s])
        PROVE  CallInv'
    <3> DEFINE f == [rt.shown EXCEPT ![n] = s]
    <3>1. s \in Shape
      BY FlowPathAssumption
    <3>2. f \in Partial(TableId, Shape)
      BY <1>2, <2>2, <3>1, PartialChanged
    <3>3. [rt EXCEPT !.shown[n] = s] = [rt EXCEPT !.shown = f]
      OBVIOUS
    <3> HIDE DEF f
    <3>4. QED
      BY <2>3, <2>4, <3>2, <3>3
  <2>5. CASE Changes([rt EXCEPT !.shown = [m \in DOMAIN @ \ {n} |-> @[m]]])
    <3> DEFINE f == [m \in DOMAIN rt.shown \ {n} |-> rt.shown[m]]
    <3>1. rt.shown[n] \in Shape
      BY <1>2, PartialIs
    <3>2. f \in Partial(TableId, Shape)
      BY <1>2, <2>2, <3>1, PartialChanged
    <3> HIDE DEF f
    <3>3. QED
      BY <2>3, <2>5, <3>2 DEF f
  <2>6. QED
    BY <2>1, <2>4, <2>5
<1>7. CASE Traffic
  <2>1. ASSUME NEW f \in Partial(Key, Counters), Changes([rt EXCEPT !.nat = f])
        PROVE  CallInv'
    <3> DEFINE r == [rt EXCEPT !.nat = f]
    <3>1. r \in GoodRouter
      BY <1>1, OtherParts
    <3> HIDE DEF r
    <3>2. QED
      BY <2>1, <3>1, StepChanges DEF r
  <2>2. MaxPackets \in Nat /\ MaxPackets >= 1
    BY FlowPathAssumption
  <2>3. ASSUME NEW k \in Key,
               Changes([rt EXCEPT !.nat = With(@, k, [sent |-> 1, got |-> 0])])
        PROVE  CallInv'
    <3> DEFINE v == [sent |-> 1, got |-> 0]
               f == With(rt.nat, k, v)
    <3>1. v \in Counters
      BY <2>2 DEF Counters
    <3>2. f \in Partial(Key, Counters)
      BY <1>2, <3>1, PartialChanged
    <3> HIDE DEF f
    <3>3. QED
      BY <2>1, <2>3, <3>2 DEF f
  <2>4. ASSUME NEW k \in DOMAIN rt.nat,
               \/ rt.nat[k].sent < MaxPackets /\ Changes([rt EXCEPT !.nat[k].sent = @ + 1])
               \/ rt.nat[k].got < MaxPackets /\ Changes([rt EXCEPT !.nat[k].got = @ + 1])
               \/ Changes([rt EXCEPT !.nat = [m \in DOMAIN @ \ {k} |-> @[m]]])
        PROVE  CallInv'
    <3>1. k \in Key /\ rt.nat[k] \in Counters
      BY <1>2, PartialIs
    <3>2. CASE rt.nat[k].sent < MaxPackets /\ Changes([rt EXCEPT !.nat[k].sent = @ + 1])
      <4> DEFINE v == [rt.nat[k] EXCEPT !.sent = @ + 1]
                 f == [rt.nat EXCEPT ![k] = v]
      <4>1. v \in Counters
        BY <2>2, <3>1, <3>2 DEF Counters
      <4>2. f \in Partial(Key, Counters)
        BY <1>2, <3>1, <4>1, PartialChanged
      <4>3. [rt EXCEPT !.nat[k].sent = @ + 1] = [rt EXCEPT !.nat = f]
        OBVIOUS
      <4> HIDE DEF f
      <4>4. QED
        BY <2>1, <3>2, <4>2, <4>3
    <3>3. CASE rt.nat[k].got < MaxPackets /\ Changes([rt EXCEPT !.nat[k].got = @ + 1])
      <4> DEFINE v == [rt.nat[k] EXCEPT !.got = @ + 1]
                 f == [rt.nat EXCEPT ![k] = v]
      <4>1. v \in Counters
        BY <2>2, <3>1, <3>3 DEF Counters
      <4>2. f \in Partial(Key, Counters)
        BY <1>2, <3>1, <4>1, PartialChanged
      <4>3. [rt EXCEPT !.nat[k].got = @ + 1] = [rt EXCEPT !.nat = f]
        OBVIOUS
      <4> HIDE DEF f
      <4>4. QED
        BY <2>1, <3>3, <4>2, <4>3
    <3>4. CASE Changes([rt EXCEPT !.nat = [m \in DOMAIN @ \ {k} |-> @[m]]])
      <4> DEFINE f == [m \in DOMAIN rt.nat \ {k} |-> rt.nat[m]]
      <4>1. f \in Partial(Key, Counters)
        BY <1>2, <3>1, PartialChanged
      <4> HIDE DEF f
      <4>2. QED
        BY <2>1, <3>4, <4>1 DEF f
    <3>5. QED
      BY <2>4, <3>2, <3>3, <3>4
  <2>5. QED
    BY <1>7, <2>3, <2>4 DEF Traffic
<1>8. CASE PeerChanges
  <2>1. \/ \E c \in Cover : Changes([rt EXCEPT !.allow = c])
        \/ \E o \in Online : Changes([rt EXCEPT !.online = o])
        \/ \E a \in Age : Changes([rt EXCEPT !.age = a])
    BY <1>8 DEF PeerChanges
  <2>2. ASSUME NEW c \in Cover, Changes([rt EXCEPT !.allow = c])
        PROVE  CallInv'
    <3>1. [rt EXCEPT !.allow = c] \in GoodRouter
      BY <1>1, OtherParts
    <3>2. QED
      BY <2>2, <3>1, StepChanges
  <2>3. ASSUME NEW o \in Online, Changes([rt EXCEPT !.online = o])
        PROVE  CallInv'
    <3>1. [rt EXCEPT !.online = o] \in GoodRouter
      BY <1>1, OtherParts
    <3>2. QED
      BY <2>3, <3>1, StepChanges
  <2>4. ASSUME NEW a \in Age, Changes([rt EXCEPT !.age = a])
        PROVE  CallInv'
    <3>1. [rt EXCEPT !.age = a] \in GoodRouter
      BY <1>1, OtherParts
    <3>2. QED
      BY <2>4, <3>1, StepChanges
  <2>5. QED
    BY <2>1, <2>2, <2>3, <2>4
<1>9. QED
  BY <1>4, <1>5, <1>6, <1>7, <1>8 DEF Others

-----------------------------------------------------------------------------
(* The invariant. *)

LEMMA StepKnows ==
  ASSUME CallInv, Step
  PROVE  CallInv'
<1>1. World /\ Underway
  BY DEF CallInv
<1>2. CASE Raise \/ Unresolved \/ UnknownList \/ Finish
  BY <1>2, StepReply
<1>3. CASE Resolve \/ ReadIfaces \/ Lookup \/ ReadLive
  BY <1>1, <1>3, StepNothing, StillCalling
<1>4. CASE ReadLists \/ LoseLists \/ ReadRoutes \/ LoseRoutes \/ ReadLinked \/ LoseCaught
  BY <1>1, <1>4, StepConfig, StillCalling
<1>5. CASE ReadFib
  BY <1>1, <1>5, StepFib, StillCalling
<1>6. CASE ReadPolicies
  BY <1>1, <1>6, StepPolicies, StillCalling
<1>7. CASE ReadRule
  BY <1>1, <1>7, StepRule, StillCalling
<1>8. CASE ReadTable
  BY <1>1, <1>8, StepTable, StillCalling
<1>9. CASE LoseRule
  BY <1>1, <1>9, StepLoseRule, StillCalling
<1>10. CASE LoseTable
  BY <1>1, <1>10, StepLoseTable, StillCalling
<1>11. CASE LoseTables
  <2>1. CASE call.op \in {"dns", "route"}
    BY <1>1, <1>11, <2>1, StepLoseTables, StillCalling
  <2>2. CASE call.op \notin {"dns", "route"}
    BY <1>11, <2>2, StepReply
  <2>3. QED
    BY <2>1, <2>2
<1>12. CASE Poll
  BY <1>1, <1>12, StepPoll, StillCalling
<1>13. CASE LosePoll
  BY <1>1, <1>13, StepLosePoll, StillCalling
<1>14. CASE Wake
  BY <1>1, <1>14, StepWake, StillCalling
<1>15. CASE ReadPeers
  BY <1>1, <1>15, StepPeers, StillCalling
<1>16. CASE ReadRuntime
  BY <1>1, <1>16, StepRuntime, StillCalling
<1>17. CASE LoseWireguard
  BY <1>1, <1>17, StepLoseWireguard, StillCalling
<1>18. QED
  BY <1>2, <1>3, <1>4, <1>5, <1>6, <1>7, <1>8, <1>9, <1>10, <1>11, <1>12, <1>13, <1>14,
     <1>15, <1>16, <1>17 DEF Step

LEMMA FirstKnows ==
  ASSUME Init
  PROVE  CallInv
<1>1. /\ rt \in Routers /\ ~Running /\ answer = None /\ changes = 0 /\ past = {}
      /\ polled = {} /\ failed = FALSE
  BY DEF Init, Running
<1>2. rt \in GoodRouter
  BY <1>1, FlowPathAssumption DEF GoodRouter
<1>3. IsFiniteSet({})
  BY FS_EmptySet
<1>4. World
  BY <1>1, <1>2, <1>3 DEF World
<1>5. QED
  BY <1>1, <1>4 DEF CallInv, Underway, Closed

LEMMA NextKnows ==
  ASSUME CallInv, [Next]_vars
  PROVE  CallInv'
<1>1. CASE Next
  BY <1>1, StepStart, StepKnows, StepOthers DEF Next
<1>2. CASE UNCHANGED vars
  <2>1. /\ rt' = rt /\ call' = call /\ answer' = answer /\ changes' = changes
        /\ past' = past /\ polled' = polled /\ failed' = failed
    BY <1>2 DEF vars
  <2>2. World' /\ Underway' /\ Closed'
    BY <2>1 DEF CallInv, World, Underway, Closed, Running
  <2>3. QED
    BY <2>2 DEF CallInv
<1>3. QED
  BY <1>1, <1>2

THEOREM CallsKnow == Spec => []CallInv
<1>1. Init => CallInv
  BY FirstKnows
<1>2. CallInv /\ [Next]_vars => CallInv'
  BY NextKnows
<1>3. QED
  BY <1>1, <1>2, PTL DEF Spec

-----------------------------------------------------------------------------
(* The answers. *)

\* The answer of a tool is the report of a call that made all its requests.
LEMMA AnswerIs ==
  ASSUME CallInv, answer.op \in Ops
  PROVE  \E c \in Job : \E S \in Some(DOMAIN c.sessions, c.limit) :
           /\ Sound(c, past, failed, polled) /\ c.todo = <<>>
           /\ answer = Report(c, S) /\ c.op = answer.op
<1>1. answer # None
  <2>1. None.op = "none"
    BY DEF None
  <2>2. QED
    BY <2>1 DEF Ops
<1>2. ~Running
  BY <1>1 DEF CallInv, Underway
<1>3. Told(answer, past, failed, polled)
  BY <1>1, <1>2 DEF CallInv, Closed
<1>4. answer # [op |-> "raised"] /\ answer.op # "unresolved"
  <2> DEFINE raised == [op |-> "raised"]
  <2>1. raised.op = "raised"
    OBVIOUS
  <2> HIDE DEF raised
  <2>2. answer # raised /\ answer.op # "unresolved"
    BY <2>1 DEF Ops
  <2>3. QED
    BY <2>2 DEF raised
<1>5. PICK c \in Job : \E S \in Some(DOMAIN c.sessions, c.limit) :
        Sound(c, past, failed, polled) /\ c.todo = <<>> /\ answer = Report(c, S)
  BY <1>3, <1>4 DEF Told
<1>6. PICK S \in Some(DOMAIN c.sessions, c.limit) :
        Sound(c, past, failed, polled) /\ c.todo = <<>> /\ answer = Report(c, S)
  BY <1>5
<1>7. c.op = answer.op
  BY <1>6, ReportIs
<1>8. QED
  BY <1>6, <1>7

\* Nothing is left to be asked.
LEMMA NothingOpen ==
  ASSUME NEW c, c.todo = <<>>
  PROVE  \A p : ~Open(c, p)
BY DEF Open, Range

LEMMA LargestIsMax ==
  ASSUME NEW S \in SUBSET Nat, NEW m, Largest(m, S)
  PROVE  m = Max(S)
<1>1. m \in S /\ \A n \in S : m >= n
  BY DEF Largest
<1>2. Max(S) \in S /\ \A n \in S : Max(S) >= n
  BY <1>1 DEF Max
<1>3. Max(S) >= m /\ m >= Max(S) /\ m \in Nat /\ Max(S) \in Nat
  BY <1>1, <1>2
<1>4. QED
  BY <1>3

LEMMA KeysFinite == IsFiniteSet(Key)
<1> DEFINE pairs == {1, 2} \X PathClass
           f == [p \in pairs |-> [id |-> p[1], out |-> p[2]]]
<1>1. IsFiniteSet({1, 2}) /\ IsFiniteSet(Classes)
  <2>1. IsFiniteSet({}) /\ IsFiniteSet({1}) /\ IsFiniteSet({"WG0"})
    BY FS_EmptySet, FS_Singleton
  <2>2. IsFiniteSet({1} \cup {2}) /\ IsFiniteSet({"WG0"} \cup {"WAN"})
    BY <2>1, FS_AddElement
  <2>3. IsFiniteSet(({"WG0"} \cup {"WAN"}) \cup {"OTHER"})
    BY <2>2, FS_AddElement
  <2>4. {1, 2} = {1} \cup {2} /\ Classes = ({"WG0"} \cup {"WAN"}) \cup {"OTHER"}
    BY DEF Classes
  <2>5. QED
    BY <2>2, <2>3, <2>4
<1>2. IsFiniteSet(pairs)
  BY <1>1, FS_Subset, FS_Product, FlowPathAssumption
<1>3. \A k \in Key : \E p \in pairs : f[p] = k
  <2>1. ASSUME NEW k \in Key
        PROVE  \E p \in pairs : f[p] = k
    <3>1. <<k.id, k.out>> \in pairs /\ k = [id |-> k.id, out |-> k.out]
      BY DEF Key
    <3>2. QED
      BY <3>1
  <2>2. QED
    BY <2>1
<1>4. f \in [pairs -> Key]
  BY DEF Key
<1>5. f \in Surjection(pairs, Key)
  <2> HIDE DEF f, pairs
  <2>1. QED
    BY <1>3, <1>4 DEF Surjection
<1>6. QED
  <2> HIDE DEF f, pairs
  <2>1. QED
    BY <1>2, <1>5, FS_Surjection

\* Sessions are left out when there is no room for them.
LEMMA LeftOut ==
  ASSUME NEW all, IsFiniteSet(all), NEW limit \in Nat, NEW S \in Some(all, limit)
  PROVE  S \in SUBSET all /\ (Cardinality(all) > limit <=> S # all)
<1>1. S \in SUBSET all /\ Cardinality(S) <= limit /\ (S = all \/ Cardinality(S) = limit)
  BY DEF Some
<1>2. Cardinality(all) \in Nat
  BY FS_CardinalityType
<1>3. S # all => Cardinality(S) < Cardinality(all)
  <2>1. /\ IsFiniteSet(S) /\ Cardinality(S) <= Cardinality(all)
        /\ Cardinality(all) = Cardinality(S) => all = S
    BY <1>1, FS_Subset
  <2>2. Cardinality(S) \in Nat
    BY <2>1, FS_CardinalityType
  <2>3. QED
    BY <1>2, <2>1, <2>2
<1>4. CASE S = all
  BY <1>1, <1>2, <1>4
<1>5. CASE S # all
  <2>1. Cardinality(S) = limit /\ Cardinality(S) < Cardinality(all)
    BY <1>1, <1>3, <1>5
  <2>2. QED
    BY <1>1, <1>2, <1>5, <2>1
<1>6. QED
  BY <1>4, <1>5

LEMMA ShowsSessions ==
  ASSUME CallInv
  PROVE  SessionsKept
<1>1. SUFFICES ASSUME answer.op = "conntrack"
               PROVE  SessionsKept
  BY DEF SessionsKept
<1>2. PICK c \in Job : \E S \in Some(DOMAIN c.sessions, c.limit) :
        /\ Sound(c, past, failed, polled) /\ c.todo = <<>>
        /\ answer = Report(c, S) /\ c.op = "conntrack"
  <2>1. answer.op \in Ops
    BY <1>1 DEF Ops
  <2>2. QED
    BY <1>1, <2>1, AnswerIs
<1>a. PICK S \in Some(DOMAIN c.sessions, c.limit) : answer = Report(c, S)
  BY <1>2
<1>3. /\ answer.sessions = [k \in S |-> c.sessions[k]] /\ answer.only = c.only
      /\ answer.count = Cardinality(DOMAIN c.sessions) /\ answer.limit = c.limit
      /\ answer.truncated = (Cardinality(DOMAIN c.sessions) > c.limit)
  BY <1>2, <1>a DEF Report
<1>4. Kept(c.sessions, c.only, polled)
  BY <1>2 DEF Sound, Seen, SessionsSeen
<1> DEFINE shown == answer.sessions
           taken(k) == Taken(polled, answer.only, k)
           all == {k \in Key : taken(k) # {}}
<1>b. DOMAIN c.sessions \in SUBSET Key /\ c.limit \in Nat
  BY PartialIs DEF Job
<1>c. all = DOMAIN c.sessions
  BY <1>3, <1>4, <1>b DEF Kept
<1>d. S \in SUBSET all /\ (Cardinality(all) > c.limit <=> S # all)
  BY <1>b, <1>c, KeysFinite, FS_Subset, LeftOut
<1>e. DOMAIN shown = S /\ \A k \in S : shown[k] = c.sessions[k]
  BY <1>3
<1>f. /\ answer.count = Cardinality(all) /\ DOMAIN shown \in Some(all, answer.limit)
      /\ answer.truncated <=> DOMAIN shown # all
  <2> HIDE DEF all, shown
  <2>1. QED
    BY <1>a, <1>3, <1>c, <1>d, <1>e
<1>5. ASSUME NEW k \in DOMAIN shown
      PROVE  /\ shown[k].sent = Max({s.sent : s \in taken(k)})
             /\ shown[k].got = Max({s.got : s \in taken(k)})
             /\ shown[k].unreplied <=> \E s \in taken(k) : Unreplied(s)
  <2>1. /\ Largest(shown[k].sent, {s.sent : s \in taken(k)})
        /\ Largest(shown[k].got, {s.got : s \in taken(k)})
        /\ shown[k].unreplied <=> \E s \in taken(k) : Unreplied(s)
    <3>1. k \in Key /\ k \in DOMAIN c.sessions /\ shown[k] = c.sessions[k]
      BY <1>b, <1>c, <1>d, <1>e
    <3>2. QED
      BY <1>3, <1>4, <3>1 DEF Kept
  <2>2. taken(k) \in SUBSET Counters
    BY TakenTypes DEF CallInv, World
  <2>3. {s.sent : s \in taken(k)} \in SUBSET Nat /\ {s.got : s \in taken(k)} \in SUBSET Nat
    BY <2>2, CountersAre
  <2>4. QED
    BY <2>1, <2>3, LargestIsMax
<1>6. QED
  BY <1>5, <1>f DEF SessionsKept, Taken

\* get_conntrack counts exactly the sessions its polls saw and shows `limit' of them or
\* all, and says which; each with the largest counters any poll saw, and as unreplied when
\* some poll saw it so, for any number of polls, any limit, any sessions and any traffic
\* between the polls (firewall.py:296-338, 371-375).
THEOREM ConntrackShows == Spec => []SessionsKept
<1>1. CallInv => SessionsKept
  BY ShowsSessions
<1>2. QED
  BY <1>1, CallsKnow, PTL

-----------------------------------------------------------------------------
(* Types and pairings. *)

\* The tables of a call come from routes some router showed.
LEMMA TablesFrom ==
  ASSUME NEW c \in Job, NEW P \in SUBSET GoodRouter, NEW F \in BOOLEAN, LinkedSeen(c, P, F),
         c.tables # {} \/ c.matches # {}
  PROVE  \E r \in P : \E R \in SeenRoutes(r, F) :
           /\ c.tables = Tables(c.policies, c.shown, R)
           /\ R \in Seq(Route) /\ Wired(c.tables)
<1>1. PICK r \in P : \E R \in SeenRoutes(r, F) : c.tables = Tables(c.policies, c.shown, R)
  BY DEF LinkedSeen
<1>2. PICK R \in SeenRoutes(r, F) : c.tables = Tables(c.policies, c.shown, R)
  BY <1>1
<1>3. R \in Seq(Route)
  BY SeenRoutesTypes
<1>4. c.policies \in Policing /\ c.shown \in Tabling
  BY DEF Job
<1>5. Wired(c.tables)
  BY <1>2, <1>3, <1>4, TablesWired
<1>6. QED
  BY <1>2, <1>3, <1>5

LEMMA MatchesFrom ==
  ASSUME NEW c \in Job, NEW P \in SUBSET GoodRouter, NEW F \in BOOLEAN, LinkedSeen(c, P, F)
  PROVE  Paired(c.matches, c.links, c.tables)
<1>1. CASE c.matches = {}
  BY <1>1 DEF Paired
<1>2. CASE c.matches # {}
  <2>1. Wired(c.tables)
    BY <1>2, TablesFrom
  <2>2. c.matches \in MatchesOf(c, c.tables)
    BY <1>2 DEF LinkedSeen
  <2>3. c.links \in Seq(Route)
    BY DEF Job
  <2>4. CASE ByName(c)
    BY <2>1, <2>2, <2>3, <2>4, HintPaired DEF MatchesOf
  <2>5. CASE ~ByName(c)
    BY <2>1, <2>2, <2>3, <2>5, MatchesPaired DEF MatchesOf
  <2>6. QED
    BY <2>4, <2>5
<1>3. QED
  BY <1>1, <1>2

LEMMA LeavesByLink ==
  ASSUME CallInv
  PROVE  MatchLeavesByLink
<1>1. SUFFICES ASSUME answer.op \in {"explain", "verify", "dns", "route"}
               PROVE  \A m \in answer.matches :
                        /\ m.link.iface \in Names(m.table)
                        /\ \A o \in answer.matches : o.table.n = m.table.n => o = m
  BY DEF MatchLeavesByLink
<1>2. PICK c \in Job : /\ Sound(c, past, failed, polled) /\ c.todo = <<>>
                       /\ c.op = answer.op /\ \E S : answer = Report(c, S)
  <2>1. answer.op \in Ops
    BY <1>1 DEF Ops
  <2>2. QED
    BY <2>1, AnswerIs
<1>3. answer.matches = c.matches
  <2>1. PICK S : answer = Report(c, S)
    BY <1>2
  <2>2. CASE c.op \in {"dns", "route"}
    BY <2>1, <2>2 DEF Report
  <2>3. CASE c.op \in {"explain", "verify"}
    BY <2>1, <2>3 DEF Report
  <2>4. QED
    BY <1>1, <1>2, <2>2, <2>3
<1>4. past \in SUBSET GoodRouter /\ failed \in BOOLEAN
  BY DEF CallInv, World
<1>5. Paired(c.matches, c.links, c.tables)
  BY <1>2, <1>4, MatchesFrom DEF Sound, Seen
<1>6. QED
  BY <1>3, <1>5 DEF Paired

LEMMA LettersOf ==
  ASSUME NEW c \in Job
  PROVE  Failure(c) \in Letter /\ Range(Judged(c)) \subseteq Letter
<1>1. Failure(c) \in Letter
  BY DEF Failure, Letter
<1>2. \A e \in Expected : Judged(c)[e] \in {"G", Failure(c)}
  BY DEF Judged
<1>3. DOMAIN Judged(c) = Expected
  BY DEF Judged
<1>4. Range(Judged(c)) \subseteq Letter
  BY <1>1, <1>2, <1>3 DEF Range, Letter
<1>5. QED
  BY <1>1, <1>4

LEMMA WellTyped ==
  ASSUME CallInv
  PROVE  TypeOK
<1>1. /\ rt \in GoodRouter /\ changes \in Nat
  BY DEF CallInv, World
<1>2. Range(rt.routes) \subseteq Route /\ DOMAIN rt.lists \subseteq ListId
  <2>1. rt.routes \in Seq(Route) /\ rt.lists \in Partial(ListId, SUBSET Entry)
    BY <1>1, RouterTypes DEF Listing
  <2>2. QED
    BY <2>1, RangeFinite, PartialIs
<1>3. ASSUME NEW c \in Job
      PROVE  SessionsTyped(c.sessions)
  <2>1. c.sessions \in Partial(Key, Session)
    BY DEF Job
  <2>2. QED
    BY <2>1, PartialIs DEF SessionsTyped
<1>4. ASSUME Running
      PROVE  /\ Range(call.routes) \subseteq Route
             /\ call.left \in Nat
             /\ SessionsTyped(call.sessions)
             /\ call.allow \in Cover \cup {Unknown} /\ call.online \in Online \cup {Unknown}
  <2>1. call \in Job
    BY <1>4 DEF CallInv, Underway, Sound
  <2>2. /\ call.routes \in Seq(Route) /\ call.left \in Nat
        /\ call.allow \in Cover \cup {Unknown} /\ call.online \in Online \cup {Unknown}
    BY <2>1 DEF Job
  <2>3. QED
    BY <1>3, <2>1, <2>2, RangeFinite
<1>5. ASSUME answer.op = "conntrack"
      PROVE  SessionsTyped(answer.sessions)
  <2>1. answer.op \in Ops
    BY <1>5 DEF Ops
  <2>2. PICK c \in Job : \E S \in Some(DOMAIN c.sessions, c.limit) :
          answer = Report(c, S) /\ c.op = "conntrack"
    BY <1>5, <2>1, AnswerIs
  <2>3. PICK S \in SUBSET (DOMAIN c.sessions) : answer.sessions = [k \in S |-> c.sessions[k]]
    BY <2>2 DEF Report, Some
  <2>4. SessionsTyped(c.sessions)
    BY <1>3
  <2>5. QED
    BY <2>3, <2>4 DEF SessionsTyped
<1>6. ASSUME answer.op = "verify"
      PROVE  {answer.verdict} \cup Range(answer.judged) \subseteq Letter
  <2>1. answer.op \in Ops
    BY <1>6 DEF Ops
  <2>2. PICK c \in Job : (\E S : answer = Report(c, S)) /\ c.op = "verify"
    BY <1>6, <2>1, AnswerIs
  <2>3. answer.verdict = Failure(c) /\ answer.judged = Judged(c)
    BY <2>2 DEF Report
  <2>4. QED
    BY <2>3, LettersOf
<1>7. QED
  BY <1>1, <1>2, <1>4, <1>5, <1>6 DEF TypeOK

\* The auto tables among the tables of a call.
LEMMA AutoAre ==
  ASSUME NEW policies \in Policing, NEW shown \in Tabling, NEW routes \in Seq(Route),
         NEW t \in Tables(policies, shown, routes), t.n \in DOMAIN shown
  PROVE  t = AutoTable(t.n, policies, shown, routes) /\ t.linked = Linked(t.n, shown, routes)
         /\ t.egress = shown[t.n].egress
<1>1. t = AutoTable(t.n, policies, shown, routes)
  <2>1. CASE \E n \in DOMAIN shown : t = AutoTable(n, policies, shown, routes)
    BY <2>1, AutoTableIs
  <2>2. CASE \E n \in DOMAIN policies \ DOMAIN shown : t = PolicyTable(n, policies, routes)
    BY <2>2, PolicyTableIs
  <2>3. QED
    BY <2>1, <2>2, TablesAre
<1>2. QED
  BY <1>1, AutoTableIs

LEMMA PairedAlways ==
  ASSUME CallInv
  PROVE  PairedOnce
<1> DEFINE Autos == {t \in call.tables : t.n \in DOMAIN call.shown}
<1>1. SUFFICES ASSUME Running, call.tables # {}
               PROVE
        /\ \A t \in Autos : \A r \in t.linked : r.iface = t.egress
        /\ \A t, u \in Autos : t.n < u.n /\ t.egress = u.egress =>
             \A r \in t.linked, q \in u.linked : r.idx < q.idx
        /\ (~failed /\ Cardinality(past) = 1 /\ call.tables # {}) =>
             \A r \in Range(call.routes) :
               (\E t \in Autos : t.egress = r.iface) => \E t \in Autos : r \in t.linked
  BY DEF PairedOnce
<1>2. /\ call \in Job /\ LinkedSeen(call, past, failed) /\ RoutesSeen(call, past, failed)
      /\ past \in SUBSET GoodRouter /\ failed \in BOOLEAN /\ IsFiniteSet(past)
  BY <1>1 DEF CallInv, Underway, World, Sound, Seen
<1>3. PICK r \in past : \E R \in SeenRoutes(r, failed) :
           call.tables = Tables(call.policies, call.shown, R) /\ R \in Seq(Route)
  BY <1>1, <1>2, TablesFrom
<1>4. PICK R \in SeenRoutes(r, failed) :
           call.tables = Tables(call.policies, call.shown, R) /\ R \in Seq(Route)
  BY <1>3
<1> DEFINE policies == call.policies
           shown == call.shown
<1>5. policies \in Policing /\ shown \in Tabling
  BY <1>2 DEF Job
<1>6. ASSUME NEW t \in Autos
      PROVE  /\ t.n \in DOMAIN shown /\ t = AutoTable(t.n, policies, shown, R)
             /\ t.linked = Linked(t.n, shown, R) /\ t.egress = shown[t.n].egress
  BY <1>4, <1>5, AutoAre
<1>7. \A n \in DOMAIN shown : AutoTable(n, policies, shown, R) \in Autos
  BY <1>4, <1>5, TablesAre, AutoTableIs
<1> HIDE DEF Autos, policies, shown
<1>8. \A t \in Autos : \A q \in t.linked : q.iface = t.egress
  BY <1>6, LinkedLeaves
<1>9. ASSUME NEW t \in Autos, NEW u \in Autos, t.n < u.n, t.egress = u.egress,
             NEW q \in t.linked, NEW s \in u.linked
      PROVE  q.idx < s.idx
  <2> DEFINE n == t.n
             m == u.n
  <2>1. /\ n \in DOMAIN shown /\ m \in DOMAIN shown /\ n < m
        /\ shown[n].egress = shown[m].egress
        /\ q \in Linked(n, shown, R) /\ s \in Linked(m, shown, R)
    BY <1>6, <1>9
  <2> HIDE DEF n, m
  <2>2. QED
    BY <1>4, <1>5, <2>1, LinkedInOrder
<1>10. ASSUME ~failed, Cardinality(past) = 1,
              NEW q \in Range(call.routes), NEW t \in Autos, t.egress = q.iface
       PROVE  \E u \in Autos : q \in u.linked
  <2>1. past = {r}
    BY <1>2, <1>10, SingleSet
  <2>2. R = RoutesOf(r)
    BY <1>10 DEF SeenRoutes
  <2>3. call.routes = R
    <3>1. call.routes # <<>>
      BY <1>10 DEF Range
    <3>2. call.routes \in SeenRoutes(r, failed)
      BY <1>2, <2>1, <3>1 DEF RoutesSeen
    <3>3. QED
      BY <1>10, <2>2, <3>2 DEF SeenRoutes
  <2>4. t.n \in DOMAIN shown /\ shown[t.n].egress = q.iface
    BY <1>6, <1>10
  <2>5. PICK n \in DOMAIN shown : q \in Linked(n, shown, R)
    BY <1>4, <1>5, <1>10, <2>3, <2>4, LinkedSomewhere
  <2>6. AutoTable(n, policies, shown, R) \in Autos
    BY <1>7
  <2>7. AutoTable(n, policies, shown, R).linked = Linked(n, shown, R)
    BY DEF AutoTable
  <2>8. QED
    BY <2>5, <2>6, <2>7
<1>11. QED
  BY <1>8, <1>9, <1>10

\* Autos tables and routes are paired one to one and in order, and so are the links of a
\* destination and the tables shown for them, whatever tables and routes change between
\* the requests and whichever requests fail (policy.py:292-317, flow.py:35-125).
THEOREM FlowTyped == Spec => []FlowInv
<1>1. CallInv => FlowInv
  BY WellTyped, PairedAlways, LeavesByLink DEF FlowInv
<1>2. QED
  BY <1>1, CallsKnow, PTL

-----------------------------------------------------------------------------
(* What a pass vouches for. *)

\* The hits, links and matches of a call that read the whole path.
LEMMA PathRead ==
  ASSUME NEW c \in Job, NEW P \in SUBSET GoodRouter, NEW F \in BOOLEAN, NEW Q,
         Sound(c, P, F, Q), c.todo = <<>>, c.op \in Path
  PROVE  /\ \E r \in P : \E L \in SeenLists(r, F) : c.hits = Hits(L, Hitting(c.host))
         /\ \E r \in P : c.routes \in SeenRoutes(r, F)
         /\ c.routes \in Seq(Route) /\ c.links = Links(c.hits, c.routes)
         /\ c.links # <<>> => /\ 1 \in DOMAIN c.links
                              /\ Egress(c) = c.links[1].iface
                              /\ c.links[1] \in Range(c.routes) /\ c.links[1].on
         /\ c.links # <<>> => c.hits # {}
         /\ c.matches # {} => c.links # <<>>
         /\ Egress(c) \in Tunnel => c.links # <<>>
         /\ Paired(c.matches, c.links, c.tables)
<1>1. \A p : ~Open(c, p)
  BY NothingOpen
<1>2. c.op \in Full
  BY DEF Full
<1>3. /\ \E r \in P : \E L \in SeenLists(r, F) : c.hits = Hits(L, Hitting(c.host))
      /\ \E r \in P : c.routes \in SeenRoutes(r, F)
      /\ c.links = Links(c.hits, c.routes)
  BY <1>1, <1>2 DEF Sound, Seen, HitsSeen, RoutesSeen
<1>4. c.routes \in Seq(Route)
  BY DEF Job
<1>5. Lined(c.links, Used(c.hits, c.routes), c.routes, ByList(c.routes))
  BY <1>3, <1>4, LinksAre
<1>6. /\ c.links # <<>> => 1 \in DOMAIN c.links
      /\ \A k \in DOMAIN c.links : /\ c.links[k] \in Range(c.routes) /\ c.links[k].on
                                   /\ c.links[k].list \in c.hits
  BY <1>4, <1>5, FirstLink
<1>7. c.links # <<>> => Egress(c) = c.links[1].iface
  BY DEF Egress, Leaves
<1>8. Paired(c.matches, c.links, c.tables)
  BY MatchesFrom DEF Sound, Seen
<1>9. c.matches # {} => c.links # <<>>
  BY <1>8 DEF Paired
<1>10. Egress(c) \in Tunnel => c.links # <<>>
  BY PolicyPathAssumption DEF Egress, Leaves
<1>11. QED
  BY <1>3, <1>4, <1>6, <1>7, <1>8, <1>9, <1>10

\* The verdict of verify_flow_path as an order of conditions.
LEMMA FailureIs ==
  ASSUME NEW c, c.links # <<>> => c.hits # {}, c.matches # {} => c.links # <<>>
  PROVE  LET nat == WanOnly(c) \/ Silent(c)
         IN  /\ Failure(c) = "A" <=> c.hits = {}
             /\ Failure(c) = "B" <=> c.hits # {} /\ c.links = <<>>
             /\ Failure(c) = "C" <=> c.links # <<>> /\ c.matches = {}
             /\ Failure(c) = "D" <=> c.matches # {} /\ nat
             /\ Failure(c) = "E" <=> c.matches # {} /\ ~nat /\ Missed(c)
             /\ Failure(c) = "F" <=> c.matches # {} /\ ~nat /\ ~Missed(c) /\ Offline(c)
             /\ Failure(c) = "G" <=> c.matches # {} /\ ~nat /\ ~Missed(c) /\ ~Offline(c)
<1> DEFINE nat == WanOnly(c) \/ Silent(c)
           missed == Missed(c)
           offline == Offline(c)
           matched == c.matches # {}
           found == Failure(c)
<1>1. found = CASE c.hits = {} -> "A"
                [] c.hits # {} /\ c.links = <<>> -> "B"
                [] c.links # <<>> /\ ~matched -> "C"
                [] matched /\ nat -> "D"
                [] matched /\ ~nat /\ missed -> "E"
                [] matched /\ ~nat /\ ~missed /\ offline -> "F"
                [] OTHER -> "G"
  BY DEF Failure
<1> HIDE DEF nat, missed, offline, found
<1>2. CASE c.hits = {}
  <2>1. found = "A"
    BY <1>1, <1>2
  <2>2. QED
    BY <1>2, <2>1 DEF nat, missed, offline, found
<1>3. CASE c.hits # {} /\ c.links = <<>>
  <2>1. found = "B"
    BY <1>1, <1>3
  <2>2. QED
    BY <1>3, <2>1 DEF nat, missed, offline, found
<1>4. CASE c.links # <<>> /\ ~matched
  <2>1. found = "C"
    BY <1>1, <1>4
  <2>2. QED
    BY <1>4, <2>1 DEF nat, missed, offline, found
<1>5. CASE matched /\ nat
  <2>1. found = "D"
    BY <1>1, <1>5
  <2>2. QED
    BY <1>5, <2>1 DEF nat, missed, offline, found
<1>6. CASE matched /\ ~nat /\ missed
  <2>1. found = "E"
    BY <1>1, <1>6
  <2>2. QED
    BY <1>6, <2>1 DEF nat, missed, offline, found
<1>7. CASE matched /\ ~nat /\ ~missed /\ offline
  <2>1. found = "F"
    BY <1>1, <1>7
  <2>2. QED
    BY <1>7, <2>1 DEF nat, missed, offline, found
<1>8. CASE matched /\ ~nat /\ ~missed /\ ~offline
  <2>1. found = "G"
    BY <1>1, <1>8
  <2>2. QED
    BY <1>8, <2>1 DEF nat, missed, offline, found
<1>9. QED
  BY <1>2, <1>3, <1>4, <1>5, <1>6, <1>7, <1>8

LEMMA PassTrue ==
  ASSUME CallInv
  PROVE  PassWasTrue
<1>1. past \in SUBSET GoodRouter /\ failed \in BOOLEAN
  BY DEF CallInv, World
<1>2. SUFFICES ASSUME answer.op = "verify"
               PROVE  PassWasTrue
  BY DEF PassWasTrue
<1>3. PICK c \in Job : /\ Sound(c, past, failed, polled) /\ c.todo = <<>>
                       /\ c.op = "verify" /\ \E S : answer = Report(c, S)
  <2>1. answer.op \in Ops
    BY <1>2 DEF Ops
  <2>2. QED
    BY <1>2, <2>1, AnswerIs
<1>4. /\ answer.host = c.host /\ answer.egress = Egress(c) /\ answer.matches = c.matches
      /\ answer.verdict = Failure(c) /\ answer.judged = Judged(c)
  BY <1>3 DEF Report
<1>5. c.op \in Path
  BY <1>3 DEF Path
<1>6. /\ c.links # <<>> => /\ Egress(c) = c.links[1].iface
                           /\ c.links[1] \in Range(c.routes) /\ c.links[1].on
      /\ c.links # <<>> => c.hits # {}
      /\ c.matches # {} => c.links # <<>>
      /\ Egress(c) \in Tunnel => c.links # <<>>
      /\ Paired(c.matches, c.links, c.tables)
  BY <1>1, <1>3, <1>5, PathRead
<1>7. /\ \E r \in past : \E L \in SeenLists(r, failed) : c.hits = Hits(L, Hitting(c.host))
      /\ \E r \in past : c.routes \in SeenRoutes(r, failed)
  BY <1>1, <1>3, <1>5, PathRead
<1>8. ASSUME c.links # <<>>
      PROVE
        /\ \E r \in past : \E lists \in {ListsOf(r)} \cup IF failed THEN {r.saved.lists} ELSE {} :
             Hits(lists, Hitting(answer.host)) # {}
        /\ \E r \in past : \E routes \in {RoutesOf(r)} \cup IF failed THEN {r.saved.routes} ELSE {} :
             \E q \in Range(routes) : q.on /\ q.iface = answer.egress
  <2>1. \E r \in past : \E L \in SeenLists(r, failed) : Hits(L, Hitting(answer.host)) # {}
    BY <1>4, <1>6, <1>7, <1>8
  <2>2. PICK r \in past : c.routes \in SeenRoutes(r, failed)
    BY <1>7
  <2>3. \E q \in Range(c.routes) : q.on /\ q.iface = answer.egress
    BY <1>4, <1>6, <1>8
  <2>4. c.routes # <<>>
    BY <2>3 DEF Range
  <2>5. c.routes \in {RoutesOf(r)} \cup IF failed THEN {r.saved.routes} ELSE {}
    BY <2>2, <2>4 DEF SeenRoutes
  <2>6. QED
    BY <2>1, <2>2, <2>3, <2>5 DEF SeenLists
<1>9. ASSUME "G" \in {answer.verdict, answer.judged["WG"]}
      PROVE  c.links # <<>>
  <2>1. CASE Failure(c) = "G"
    BY <1>6, <2>1, FailureIs
  <2>2. CASE Judged(c)["WG"] = "G" /\ Failure(c) # "G"
    <3>1. Egress(c) \in Tunnel
      BY <2>2 DEF Judged, Expected
    <3>2. QED
      BY <1>6, <3>1
  <2>3. QED
    BY <1>4, <1>9, <2>1, <2>2
<1>10. ASSUME Failure(c) = "G"
       PROVE  /\ \E m \in answer.matches : \E r \in past :
                   \/ \E n \in DOMAIN r.shown : r.shown[n].egress = m.link.iface
                   \/ \E n \in DOMAIN r.policies : m.link.iface \in Names(r.policies[n])
              /\ answer.egress \in Tunnel =>
                   /\ \E r \in past : r.allow = "covers"
                   /\ \E r \in past : r.online = "online" \/ r.age = "fresh"
  <2>1. c.matches # {} /\ ~Missed(c) /\ ~Offline(c)
    BY <1>6, <1>10, FailureIs
  <2>2. PICK m \in c.matches : TRUE
    BY <2>1
  <2>3. /\ m.table \in c.tables /\ m.link.iface \in Names(m.table)
        /\ m.link.iface \in Iface
    <3>1. m.table \in c.tables /\ m.link.iface \in Names(m.table)
      BY <1>6 DEF Paired
    <3>2. m.link \in Route
      BY DEF Job
    <3>3. QED
      BY <3>1, <3>2 DEF Route
  <2>4. LinkedSeen(c, past, failed) /\ ShownSeen(c, past, failed) /\ PoliciesSeen(c, past, failed)
        /\ PeerSeen(c, past, failed)
    BY <1>3 DEF Sound, Seen
  <2>5. PICK r0 \in past : \E R \in SeenRoutes(r0, failed) :
               c.tables = Tables(c.policies, c.shown, R) /\ R \in Seq(Route)
    BY <1>1, <2>1, <2>4, TablesFrom
  <2>6. PICK R \in SeenRoutes(r0, failed) :
               c.tables = Tables(c.policies, c.shown, R) /\ R \in Seq(Route)
    BY <2>5
  <2>7. c.policies \in Policing /\ c.shown \in Tabling
    BY DEF Job
  <2>8. \/ \E n \in DOMAIN c.shown : m.table = AutoTable(n, c.policies, c.shown, R)
        \/ \E n \in DOMAIN c.policies \ DOMAIN c.shown : m.table = PolicyTable(n, c.policies, R)
    BY <2>3, <2>6, TablesAre
  <2>9. \E r \in past :
           \/ \E n \in DOMAIN r.shown : r.shown[n].egress = m.link.iface
           \/ \E n \in DOMAIN r.policies : m.link.iface \in Names(r.policies[n])
    <3>1. ASSUME NEW n \in DOMAIN c.shown, m.table = AutoTable(n, c.policies, c.shown, R)
          PROVE  \E r \in past :
                   \/ \E k \in DOMAIN r.shown : r.shown[k].egress = m.link.iface
                   \/ \E k \in DOMAIN r.policies : m.link.iface \in Names(r.policies[k])
      <4>1. /\ m.table.egress = c.shown[n].egress
            /\ m.table.id = NamedBy(n, c.policies).id
            /\ m.table.desc = NamedBy(n, c.policies).desc
        BY <2>6, <2>7, <3>1, AutoTableIs
      <4>2. CASE c.shown[n].egress = m.link.iface
        <5>1. c.shown[n] # NoDefault
          BY <2>3, <4>2, PolicyPathAssumption DEF NoDefault
        <5>2. PICK r \in past : n \in DOMAIN r.shown /\ c.shown[n] = r.shown[n]
          BY <2>4, <3>1, <5>1 DEF ShownSeen
        <5>3. QED
          BY <4>2, <5>2
      <4>3. CASE c.shown[n].egress # m.link.iface
        <5>1. m.link.iface \in {NamedBy(n, c.policies).id, NamedBy(n, c.policies).desc}
          BY <2>3, <4>1, <4>3 DEF Names
        <5>2. n \in DOMAIN c.policies /\ m.link.iface \in Names(c.policies[n])
          BY <2>3, <2>7, <5>1, NamedTypes, PolicyPathAssumption DEF Names
        <5>3. PICK r \in past : n \in DOMAIN r.policies /\ c.policies[n] = r.policies[n]
          BY <2>4, <5>2 DEF PoliciesSeen
        <5>4. QED
          BY <5>2, <5>3
      <4>4. QED
        BY <4>2, <4>3
    <3>2. ASSUME NEW n \in DOMAIN c.policies, m.table = PolicyTable(n, c.policies, R)
          PROVE  \E r \in past : \E k \in DOMAIN r.policies : m.link.iface \in Names(r.policies[k])
      <4>1. m.link.iface \in Names(c.policies[n])
        BY <2>3, <2>6, <2>7, <3>2, PolicyTableIs
      <4>2. PICK r \in past : n \in DOMAIN r.policies /\ c.policies[n] = r.policies[n]
        BY <2>4, <3>2 DEF PoliciesSeen
      <4>3. QED
        BY <4>1, <4>2
    <3>3. QED
      BY <2>8, <3>1, <3>2
  <2>10. ASSUME Egress(c) \in Tunnel
         PROVE  /\ \E r \in past : r.allow = "covers"
                /\ \E r \in past : r.online = "online" \/ r.age = "fresh"
    <3>1. c.allow = "covers" /\ c.online # Unknown
      BY <2>1, <2>10 DEF Missed
    <3>2. \E r \in past : c.allow = r.allow
      BY <2>4, <3>1 DEF PeerSeen, Unknown
    <3>3. PICK r \in past : c.online = r.online /\ c.age = r.age
      BY <2>4, <3>1 DEF PeerSeen
    <3>4. r.online \in {"online", "offline"}
      BY <1>1, RouterTypes DEF Online
    <3>5. r.online = "online" \/ r.age = "fresh"
      BY <2>1, <3>3, <3>4 DEF Offline
    <3>6. QED
      BY <3>1, <3>2, <3>5
  <2>11. QED
    BY <1>4, <2>2, <2>9, <2>10
<1>11. QED
  BY <1>4, <1>8, <1>9, <1>10 DEF PassWasTrue

-----------------------------------------------------------------------------
(* A router that stands still. *)

\* The route of the main table is a longest match.
LEMMA BestRouteIs ==
  ASSUME NEW fib \in Seq([len : Nat, iface : Iface]), fib # <<>>
  PROVE  \E i \in DOMAIN fib : /\ fib[i].iface = BestRoute(fib)
                               /\ \A j \in DOMAIN fib : fib[j].len <= fib[i].len
<1> DEFINE lens == {fib[i].len : i \in DOMAIN fib}
           longest == {i \in DOMAIN fib : \A j \in DOMAIN fib : fib[j].len <= fib[i].len}
           f == [i \in DOMAIN fib |-> fib[i].len]
<1>1. /\ IsFiniteSet(DOMAIN fib) /\ DOMAIN fib \subseteq Nat /\ 1 \in DOMAIN fib
      /\ \A i \in DOMAIN fib : fib[i].len \in Nat
  <2>1. IsFiniteSet(DOMAIN fib) /\ DOMAIN fib \subseteq Nat
    BY RangeFinite
  <2>2. 1 \in DOMAIN fib
    BY EmptySeq, LenProperties
  <2>3. \A i \in DOMAIN fib : fib[i] \in [len : Nat, iface : Iface]
    BY ElementOfSeq, LenProperties
  <2>4. QED
    BY <2>1, <2>2, <2>3
<1>2. lens \in SUBSET Nat /\ lens # {} /\ IsFiniteSet(lens)
  <2>1. f \in Surjection(DOMAIN fib, lens)
    BY DEF Surjection
  <2> HIDE DEF f
  <2>2. IsFiniteSet(lens)
    BY <1>1, <2>1, FS_Surjection
  <2>3. QED
    BY <1>1, <2>2
<1>3. PICK i \in DOMAIN fib : \A j \in DOMAIN fib : fib[j].len <= fib[i].len
  <2>1. PICK n \in lens : \A m \in lens : m <= n
    BY <1>2, GreatestOf
  <2>2. PICK i \in DOMAIN fib : fib[i].len = n
    BY <2>1
  <2>3. QED
    BY <2>1, <2>2
<1>4. longest \in SUBSET (DOMAIN fib) /\ longest # {}
  BY <1>3
<1>5. longest \in SUBSET Nat /\ IsFiniteSet(longest)
  BY <1>1, <1>4, FS_Subset
<1>6. Max(longest) \in longest
  <2> HIDE DEF longest
  <2>1. PICK n \in longest : \A m \in longest : m <= n
    BY <1>4, <1>5, GreatestOf
  <2>2. \A m \in longest : n >= m
    BY <1>5, <2>1
  <2>3. QED
    BY <2>2 DEF Max
<1>7. BestRoute(fib) = fib[Max(longest)].iface
  BY DEF BestRoute
<1> HIDE DEF longest
<1>8. QED
  BY <1>4, <1>6, <1>7 DEF longest

\* What a call reads of a router that answers every request and does not change.
LEMMA StillRead ==
  ASSUME NEW r \in GoodRouter, NEW c \in Job, NEW Q, Sound(c, {r}, FALSE, Q), c.todo = <<>>,
         c.op \in Full
  PROVE  /\ c.routes = RoutesOf(r) /\ c.policies = r.policies /\ c.shown = r.shown
         /\ c.tables = Tables(r.policies, r.shown, RoutesOf(r))
         /\ c.matches \in MatchesOf(c, c.tables)
<1>1. \A p : ~Open(c, p)
  BY NothingOpen
<1>2. SeenRoutes(r, FALSE) = {RoutesOf(r)}
  BY DEF SeenRoutes
<1>3. c.routes = RoutesOf(r)
  BY <1>1, <1>2 DEF Sound, Seen, RoutesSeen
<1>4. c.policies = r.policies
  BY <1>1 DEF Sound, Seen, PoliciesSeen
<1>5. c.shown = r.shown
  <2>1. ShownSeen(c, {r}, FALSE)
    BY DEF Sound, Seen
  <2>2. c.unread = {}
    BY <1>1, <2>1 DEF ShownSeen
  <2>3. DOMAIN c.shown = DOMAIN r.shown
    BY <1>1, <2>1, <2>2 DEF ShownSeen
  <2>4. \A n \in DOMAIN c.shown : c.shown[n] = r.shown[n]
    BY <2>1, <2>3 DEF ShownSeen, TableSeen
  <2>5. c.shown \in Tabling /\ r.shown \in Tabling
    BY RouterTypes DEF Job
  <2>6. c.shown = [n \in DOMAIN c.shown |-> c.shown[n]]
    BY <2>5 DEF Tabling, Partial
  <2>7. r.shown = [n \in DOMAIN r.shown |-> r.shown[n]]
    BY <2>5 DEF Tabling, Partial
  <2>8. QED
    BY <2>3, <2>4, <2>6, <2>7
<1>6. /\ \E p \in {r} : \E R \in SeenRoutes(p, FALSE) : c.tables = Tables(c.policies, c.shown, R)
      /\ c.matches \in MatchesOf(c, c.tables)
  BY <1>1 DEF Sound, Seen, LinkedSeen
<1>7. c.tables = Tables(r.policies, r.shown, RoutesOf(r))
  BY <1>2, <1>4, <1>5, <1>6
<1>8. QED
  BY <1>3, <1>4, <1>5, <1>6, <1>7

\* The tables of a router, by the interfaces they leave by and their names.
IsAuto(t, n, policies, shown, routes) ==
  /\ t = AutoTable(n, policies, shown, routes) /\ t.n = n
  /\ t.egress = shown[n].egress /\ t.onlink = shown[n].onlink
  /\ t.id = NamedBy(n, policies).id
  /\ \A q \in t.linked : q \in Range(routes) /\ q.iface = t.egress
IsEntry(t, n, policies, routes) ==
  /\ t = PolicyTable(n, policies, routes) /\ t.n = n
  /\ t.egress = policies[n].egress /\ t.onlink = policies[n].onlink
  /\ t.id = policies[n].id
  /\ \A q \in t.linked : q \in Range(routes) /\ q.iface \in Names(policies[n])

LEMMA TableOut ==
  ASSUME NEW policies \in Policing, NEW shown \in Tabling, NEW routes \in Seq(Route)
  PROVE  /\ \A t \in Tables(policies, shown, routes) :
              \/ \E n \in DOMAIN shown : IsAuto(t, n, policies, shown, routes)
              \/ \E n \in DOMAIN policies \ DOMAIN shown : IsEntry(t, n, policies, routes)
         /\ \A n \in DOMAIN shown : \E t \in Tables(policies, shown, routes) :
              IsAuto(t, n, policies, shown, routes)
         /\ \A n \in DOMAIN policies \ DOMAIN shown : \E t \in Tables(policies, shown, routes) :
              IsEntry(t, n, policies, routes)
<1> DEFINE tables == Tables(policies, shown, routes)
<1>1. ASSUME NEW n \in DOMAIN shown
      PROVE  LET t == AutoTable(n, policies, shown, routes)
             IN  t \in tables /\ IsAuto(t, n, policies, shown, routes)
  BY TablesAre, AutoTableIs DEF IsAuto
<1>2. ASSUME NEW n \in DOMAIN policies \ DOMAIN shown
      PROVE  LET t == PolicyTable(n, policies, routes)
             IN  t \in tables /\ IsEntry(t, n, policies, routes)
  <2> DEFINE t == PolicyTable(n, policies, routes)
  <2>1. /\ t.n = n /\ t.egress = policies[n].egress /\ t.onlink = policies[n].onlink
        /\ t.id = policies[n].id /\ Names(t) = Names(policies[n])
        /\ \A q \in t.linked : q \in Range(routes) /\ q.iface \in Names(t)
    BY PolicyTableIs
  <2>2. t \in tables
    BY TablesAre
  <2> HIDE DEF tables
  <2>3. QED
    BY <2>1, <2>2 DEF IsEntry
<1>3. \A t \in tables :
        \/ \E n \in DOMAIN shown : t = AutoTable(n, policies, shown, routes)
        \/ \E n \in DOMAIN policies \ DOMAIN shown : t = PolicyTable(n, policies, routes)
  BY TablesAre
<1> HIDE DEF tables
<1>4. QED
  BY <1>1, <1>2, <1>3 DEF tables

\* diagnose_dns_proxy_route finds what the tables and the routes of the list say.
LEMMA DiagnosisIs ==
  ASSUME NEW r, r.policies \in Policing, r.shown \in Tabling, NEW routes \in Seq(Route), NEW list
  PROVE  LET own == {q \in Range(routes) : q.list = list}
             gated == \E q \in own : q.gw
             found == \E q \in own : OnLink(r, q.iface)
             verdict == Diagnosed(list, Tables(r.policies, r.shown, routes), routes)
         IN  /\ verdict = "noroute" <=> own = {}
             /\ found /\ gated => verdict = "onlink"
             /\ verdict = "onlink" =>
                  gated /\ (found \/ \E q \in own : OnLinkDescribed(r, q.iface))
<1> DEFINE own == {q \in Range(routes) : q.list = list}
           policies == r.policies
           shown == r.shown
           tables == Tables(policies, shown, routes)
           gated == \E q \in own : q.gw
           found == \E q \in own : OnLink(r, q.iface)
           described == \E q \in own : OnLinkDescribed(r, q.iface)
           some == \E t \in Related(list, tables, routes) : t.onlink
           verdict == Diagnosed(list, tables, routes)
<1>1. /\ \A t \in tables :
              \/ \E n \in DOMAIN shown : IsAuto(t, n, policies, shown, routes)
              \/ \E n \in DOMAIN policies \ DOMAIN shown : IsEntry(t, n, policies, routes)
      /\ \A n \in DOMAIN shown : \E t \in tables : IsAuto(t, n, policies, shown, routes)
      /\ \A n \in DOMAIN policies \ DOMAIN shown : \E t \in tables :
              IsEntry(t, n, policies, routes)
  BY TableOut
<1>2. /\ \A t \in tables : \A q \in own :
            q.iface \in {t.id, t.egress} => t \in Related(list, tables, routes)
      /\ \A t \in Related(list, tables, routes) :
            /\ t \in tables
            /\ \/ \E q \in t.linked : q.list = list
               \/ \E q \in own : q.iface \in {t.id, t.egress}
  BY DEF Related
<1>3. verdict = CASE some /\ gated -> "onlink" [] own = {} -> "noroute" [] OTHER -> "ok"
  BY DEF Diagnosed
<1>4. \A q \in own : q.iface # NoIface
  BY RouteTypes, PolicyPathAssumption
<1>5. \A q \in Range(routes) : q.list = list <=> q \in own
  OBVIOUS
<1>6. gated => own # {}
  OBVIOUS
<1>7. ASSUME NEW q \in own, OnLink(r, q.iface)
      PROVE  some
  <2>1. CASE \E n \in DOMAIN shown :
               /\ shown[n].onlink
               /\ shown[n].egress = q.iface \/ (n \in DOMAIN policies /\ policies[n].id = q.iface)
    <3>1. PICK n \in DOMAIN shown :
               /\ shown[n].onlink
               /\ shown[n].egress = q.iface \/ (n \in DOMAIN policies /\ policies[n].id = q.iface)
      BY <2>1
    <3>2. PICK t \in tables : IsAuto(t, n, policies, shown, routes)
      BY <1>1
    <3>3. n \in DOMAIN policies => NamedBy(n, policies).id = policies[n].id
      BY NamedTypes
    <3> HIDE DEF own, tables, policies, shown
    <3>4. q.iface \in {t.id, t.egress} /\ t.onlink
      BY <3>1, <3>2, <3>3 DEF IsAuto
    <3>5. QED
      BY <1>2, <3>4
  <2>2. CASE \E n \in DOMAIN policies \ DOMAIN shown :
               policies[n].onlink /\ q.iface \in {policies[n].egress, policies[n].id}
    <3>1. PICK n \in DOMAIN policies \ DOMAIN shown :
               policies[n].onlink /\ q.iface \in {policies[n].egress, policies[n].id}
      BY <2>2
    <3>2. PICK t \in tables : IsEntry(t, n, policies, routes)
      BY <1>1
    <3> HIDE DEF own, tables, policies, shown
    <3>3. q.iface \in {t.id, t.egress} /\ t.onlink
      BY <3>1, <3>2 DEF IsEntry
    <3>4. QED
      BY <1>2, <3>3
  <2>3. QED
    BY <1>7, <2>1, <2>2 DEF OnLink
<1>8. ASSUME NEW t \in Related(list, tables, routes), t.onlink
      PROVE  found \/ described
  <2>1. CASE \E n \in DOMAIN shown : IsAuto(t, n, policies, shown, routes)
    <3>1. PICK n \in DOMAIN shown : IsAuto(t, n, policies, shown, routes)
      BY <2>1
    <3>2. shown[n].onlink /\ t.egress = shown[n].egress /\ t.id = NamedBy(n, policies).id
      BY <1>8, <3>1 DEF IsAuto
    <3>3. \/ \E q \in own : q.iface = t.egress
          \/ \E q \in own : q.iface = t.id
      <4>1. ASSUME NEW q \in t.linked, q.list = list
            PROVE  q \in own /\ q.iface = t.egress
        BY <1>5, <3>1, <4>1 DEF IsAuto
      <4> HIDE DEF own
      <4>2. QED
        BY <1>2, <4>1
    <3>4. ASSUME NEW q \in own, q.iface = t.id
          PROVE  n \in DOMAIN policies /\ policies[n].id = q.iface
      <4>1. NamedBy(n, policies).id # NoIface
        BY <1>4, <3>2, <3>4
      <4>2. n \in DOMAIN policies /\ NamedBy(n, policies).id = policies[n].id
        BY <4>1, NamedTypes
      <4>3. QED
        BY <3>2, <3>4, <4>2
    <3>5. \E q \in own : \/ shown[n].egress = q.iface
                         \/ n \in DOMAIN policies /\ policies[n].id = q.iface
      <4> HIDE DEF own, policies, shown
      <4>1. QED
        BY <3>2, <3>3, <3>4
    <3>6. QED
      BY <3>2, <3>5 DEF OnLink
  <2>2. CASE \E n \in DOMAIN policies \ DOMAIN shown : IsEntry(t, n, policies, routes)
    <3>1. PICK n \in DOMAIN policies \ DOMAIN shown : IsEntry(t, n, policies, routes)
      BY <2>2
    <3>2. policies[n].onlink /\ t.egress = policies[n].egress /\ t.id = policies[n].id
      BY <1>8, <3>1 DEF IsEntry
    <3>3. \E q \in own : q.iface \in Names(policies[n])
      <4>1. ASSUME NEW q \in t.linked, q.list = list
            PROVE  q \in own /\ q.iface \in Names(policies[n])
        BY <1>5, <3>1, <4>1 DEF IsEntry
      <4>2. ASSUME NEW q \in own, q.iface \in {t.id, t.egress}
            PROVE  q.iface \in Names(policies[n])
        BY <3>2, <4>2 DEF Names
      <4> HIDE DEF own
      <4>3. QED
        BY <1>2, <4>1, <4>2
    <3>4. PICK q \in own : q.iface \in {policies[n].egress, policies[n].id, policies[n].desc}
      BY <3>3 DEF Names
    <3>5. QED
      BY <3>2, <3>4 DEF OnLink, OnLinkDescribed
  <2>3. QED
    BY <1>1, <1>2, <2>1, <2>2
<1> HIDE DEF own, tables, found, described
<1>9. some => found \/ described
  BY <1>8
<1>10. found => some
  BY <1>7 DEF found
<1> HIDE DEF some, gated, verdict
<1>11. /\ verdict = "noroute" <=> own = {}
       /\ found /\ gated => verdict = "onlink"
       /\ verdict = "onlink" => gated /\ (found \/ described)
  <2>1. CASE some /\ gated
    <3>1. verdict = "onlink"
      BY <1>3, <1>6, <2>1 DEF gated
    <3>2. QED
      BY <1>6, <1>9, <2>1, <3>1 DEF gated
  <2>2. CASE ~(some /\ gated) /\ own = {}
    <3>1. verdict = "noroute"
      BY <1>3, <2>2
    <3>2. QED
      BY <1>10, <2>2, <3>1
  <2>3. CASE ~(some /\ gated) /\ own # {}
    <3>1. verdict = "ok"
      BY <1>3, <2>3
    <3>2. QED
      BY <1>10, <2>3, <3>1
  <2>4. QED
    BY <2>1, <2>2, <2>3
<1>12. QED
  BY <1>11 DEF own, tables, found, described, gated, verdict, policies, shown

\* Routes with indexes of their own take every rank.
ByIndex == {p \in Route \X Route : p[1].idx < p[2].idx}

LEMMA RouteRankTaken ==
  ASSUME NEW routes \in Seq(Route), Identified(routes), NEW i
  PROVE  LET mine == RoutesOut(routes, i)
         IN  /\ IsFiniteSet(mine) /\ Cardinality(mine) \in Nat
             /\ \A p \in mine : RankOf(p, mine) \in 0..(Cardinality(mine) - 1)
             /\ \A k \in 0..(Cardinality(mine) - 1) : \E p \in mine : RankOf(p, mine) = k
<1> DEFINE mine == RoutesOut(routes, i)
<1>1. /\ mine \in SUBSET Route /\ IsFiniteSet(mine)
      /\ \A p \in mine : p \in Range(routes)
  BY RoutesOutFinite
<1>2. \A p, q \in mine : p.idx = q.idx => p = q
  BY <1>1 DEF Identified, Range
<1>3. \A p \in mine : p.idx \in Nat
  BY <1>1 DEF Route
<1> HIDE DEF mine
<1>4. \A p, q \in mine : <<p, q>> \in ByIndex <=> p.idx < q.idx
  BY <1>1 DEF ByIndex
<1>5. \A x, y, z \in mine :
        /\ ~(x.idx < x.idx) /\ (x # y => x.idx < y.idx \/ y.idx < x.idx)
        /\ (x.idx < y.idx /\ y.idx < z.idx => x.idx < z.idx)
  BY <1>2, <1>3
<1>6. Linear(mine, ByIndex)
  BY <1>4, <1>5 DEF Linear
<1>7. \A p \in mine : RankOf(p, mine) = Cardinality(Before(mine, ByIndex, p))
  <2>1. \A p \in mine : Before(mine, ByIndex, p) = {q \in mine : q.idx < p.idx}
    BY <1>4 DEF Before
  <2>2. QED
    BY <2>1 DEF RankOf
<1>8. Cardinality(mine) \in Nat
  BY <1>1, FS_CardinalityType
<1>9. \A p \in mine : RankOf(p, mine) \in 0..(Cardinality(mine) - 1)
  BY <1>1, <1>6, <1>7, Ranks
<1>10. ASSUME NEW k \in 0..(Cardinality(mine) - 1)
       PROVE  \E p \in mine : RankOf(p, mine) = k
  <2>1. PICK p \in mine : Cardinality(Before(mine, ByIndex, p)) = k
    BY <1>1, <1>6, RankTaken
  <2>2. QED
    BY <1>7, <2>1
<1>11. QED
  BY <1>1, <1>8, <1>9, <1>10 DEF mine

\* The numbers of the tables that leave by an interface.
NumbersOut(policies, shown, i) ==
  {n \in DOMAIN shown : shown[n].egress = i}
    \cup {n \in DOMAIN policies \ DOMAIN shown : policies[n].egress = i}

LEMMA OutSize ==
  ASSUME NEW policies \in Policing, NEW shown \in Tabling, NEW routes \in Seq(Route), NEW i
  PROVE  LET out == OutBy(Tables(policies, shown, routes), i)
             ns == NumbersOut(policies, shown, i)
         IN  /\ IsFiniteSet(ns) /\ Cardinality(out) = Cardinality(ns)
             /\ Cardinality(ns) \in Nat
<1> DEFINE tables == Tables(policies, shown, routes)
           out == OutBy(tables, i)
           ns == NumbersOut(policies, shown, i)
           f == [t \in out |-> t.n]
<1>1. Wired(tables)
  BY TablesWired
<1>2. IsFiniteSet(out)
  BY <1>1, OutByOrdered
<1>3. /\ \A t \in tables :
              \/ t.n \in DOMAIN shown /\ t.egress = shown[t.n].egress
              \/ t.n \in DOMAIN policies \ DOMAIN shown /\ t.egress = policies[t.n].egress
      /\ \A n \in DOMAIN shown : \E t \in tables : t.n = n /\ t.egress = shown[n].egress
      /\ \A n \in DOMAIN policies \ DOMAIN shown : \E t \in tables :
              t.n = n /\ t.egress = policies[n].egress
  BY TableOut DEF IsAuto, IsEntry
<1>4. \A t, u \in tables : t.n = u.n => t = u
  BY <1>1 DEF Wired
<1> HIDE DEF tables
<1>5. \A t \in out : t.n \in ns
  BY <1>3 DEF OutBy, NumbersOut
<1>6. \A n \in ns : \E t \in out : t.n = n
  BY <1>3 DEF OutBy, NumbersOut
<1>7. \A t, u \in out : t.n = u.n => t = u
  BY <1>4 DEF OutBy
<1> HIDE DEF out, ns
<1>8. f \in Bijection(out, ns)
  BY <1>5, <1>6, <1>7 DEF Bijection, Injection, Surjection, IsInjective
<1>9. ExistsBijection(out, ns)
  BY <1>8 DEF ExistsBijection
<1>10. IsFiniteSet(ns) /\ Cardinality(ns) = Cardinality(out)
  BY <1>2, <1>9, FS_Bijection
<1>11. Cardinality(ns) \in Nat
  BY <1>10, FS_CardinalityType
<1>12. QED
  BY <1>10, <1>11 DEF out, ns, tables

\* The places the list of a link has among the routes of its interface.
LEMMA OwnIs ==
  ASSUME NEW routes \in Seq(Route), Identified(routes), NEW q \in Range(routes), q.on
  PROVE  /\ Own(q, routes) \in SUBSET Nat /\ Own(q, routes) # {}
         /\ \A p \in RoutesOut(routes, q.iface) :
              p.list = q.list => RankOf(p, RoutesOut(routes, q.iface)) \in Own(q, routes)
         /\ q \in RoutesOut(routes, q.iface)
<1> DEFINE mine == RoutesOut(routes, q.iface)
<1>1. q \in mine
  BY DEF RoutesOut
<1>2. \A p \in mine : RankOf(p, mine) \in Nat
  BY RouteRankTaken
<1>3. Own(q, routes) = {RankOf(p, mine) : p \in {u \in mine : u.list = q.list}}
  BY DEF Own
<1> HIDE DEF mine
<1>4. /\ Own(q, routes) \in SUBSET Nat /\ Own(q, routes) # {}
      /\ \A p \in mine : p.list = q.list => RankOf(p, mine) \in Own(q, routes)
  BY <1>1, <1>2, <1>3
<1>5. QED
  BY <1>1, <1>4 DEF mine

\* A link has a table when its list has a place among the tables of its interface, or
\* there is only one of them, or a table links its list only.
OnlyList(q, tables) ==
  \E t \in tables : /\ \E u \in t.linked : u.list = q.list /\ u.iface = q.iface
                    /\ \A u \in t.linked : u.list = q.list

LEMMA ExactIs ==
  ASSUME NEW q, NEW tables, \A t \in tables : IsFiniteSet(t.linked)
  PROVE  Exact(q, tables) # {} <=> OnlyList(q, tables)
<1>1. ASSUME NEW t \in Exact(q, tables)
      PROVE  /\ \E u \in t.linked : u.list = q.list /\ u.iface = q.iface
             /\ \A u \in t.linked : u.list = q.list
  <2>1. t \in tables
    BY DEF Exact
  <2>2. PICK p \in t.linked : p.list = q.list /\ p.iface = q.iface
    BY DEF Exact
  <2>3. CASE Cardinality(t.linked) = 1
    <3>1. t.linked = {p}
      BY <2>1, <2>2, <2>3, SingleSet
    <3>2. QED
      BY <2>2, <3>1
  <2>4. CASE \A u \in t.linked : u.list = q.list
    BY <2>2, <2>4
  <2>5. QED
    BY <2>3, <2>4 DEF Exact
<1>2. ASSUME NEW t \in tables, \E u \in t.linked : u.list = q.list /\ u.iface = q.iface,
             \A u \in t.linked : u.list = q.list
      PROVE  t \in Exact(q, tables)
  BY <1>2 DEF Exact
<1>3. Exact(q, tables) \in SUBSET tables
  BY DEF Exact
<1>4. QED
  BY <1>1, <1>2, <1>3 DEF OnlyList

\* Of several tables one has the lowest number.
LEMMA LowestIs ==
  ASSUME NEW tables, \A t \in tables : t.n \in Nat, tables # {}
  PROVE  Lowest(tables) # {}
<1> DEFINE ns == {t.n : t \in tables}
<1>1. ns \in SUBSET Nat /\ ns # {}
  OBVIOUS
<1>2. PICK n \in ns : \A m \in ns : n <= m
  BY <1>1, LeastOf
<1>3. PICK t \in tables : t.n = n
  BY <1>2
<1>4. t \in Lowest(tables)
  BY <1>2, <1>3 DEF Lowest
<1>5. QED
  BY <1>4

LEMMA TableOfSome ==
  ASSUME NEW policies \in Policing, NEW shown \in Tabling, NEW routes \in Seq(Route),
         Identified(routes), NEW q \in Range(routes), q.on
  PROVE  LET tables == Tables(policies, shown, routes)
             count == Cardinality(NumbersOut(policies, shown, q.iface))
         IN  TableOf(q, tables, routes) # {} <=>
               count = 1 \/ Min(Own(q, routes)) < count \/ OnlyList(q, tables)
<1> DEFINE tables == Tables(policies, shown, routes)
           exact == Exact(q, tables)
           placed == Placed(q, tables, routes)
           out == OutBy(tables, q.iface)
           found == TableOf(q, tables, routes)
           size == Cardinality(out)
           least == Min(Own(q, routes))
           only == OnlyList(q, tables)
<1>1. Wired(tables)
  BY TablesWired
<1>2. size = Cardinality(NumbersOut(policies, shown, q.iface)) /\ size \in Nat
  BY OutSize
<1>3. exact # {} <=> only
  <2>1. \A t \in tables : t.linked \in SUBSET Range(routes)
    BY TableOut DEF IsAuto, IsEntry
  <2>2. \A t \in tables : IsFiniteSet(t.linked)
    BY <2>1, RangeFinite, FS_Subset
  <2> HIDE DEF tables
  <2>3. QED
    BY <2>2, ExactIs
<1>4. placed # {} <=> least < size
  <2>1. least \in Nat /\ Own(q, routes) # {}
    BY OwnIs, MinOf
  <2>2. /\ \A t \in out : Cardinality(Earlier(t, out)) \in 0..(size - 1)
        /\ \A k \in 0..(size - 1) : \E t \in out : Cardinality(Earlier(t, out)) = k
    BY <1>1, PlacesOfTables
  <2>3. placed = {t \in out : Cardinality(Earlier(t, out)) = least}
    BY <2>1 DEF Placed
  <2> HIDE DEF placed, out, size, least
  <2>4. ASSUME placed # {}
        PROVE  least < size
    <3>1. PICK t \in out : Cardinality(Earlier(t, out)) = least
      BY <2>3, <2>4
    <3>2. least \in 0..(size - 1)
      BY <2>2, <3>1
    <3>3. QED
      BY <1>2, <3>2
  <2>5. ASSUME least < size
        PROVE  placed # {}
    <3>1. least \in 0..(size - 1)
      BY <1>2, <2>1, <2>5
    <3>2. QED
      BY <2>2, <2>3, <3>1
  <2>6. QED
    BY <2>4, <2>5
<1>5. \/ Cardinality(exact) = 1 /\ found = exact
      \/ Cardinality(exact) # 1 /\ placed # {} /\ found = placed
      \/ placed = {} /\ size = 1 /\ found = out
      \/ placed = {} /\ size # 1 /\ found = Lowest(exact)
  BY TableOfCases
<1>6. ASSUME exact = {}
      PROVE  Lowest(exact) = {} /\ Cardinality(exact) # 1
  <2>1. Lowest(exact) = {}
    BY <1>6 DEF Lowest
  <2> HIDE DEF exact
  <2>2. Cardinality(exact) = 0
    <3>1. IsFiniteSet(exact)
      BY <1>6, FS_EmptySet
    <3>2. QED
      BY <1>6, <3>1, FS_EmptySet
  <2>3. QED
    BY <2>1, <2>2
<1>7. size = 1 => out # {}
  <2>1. IsFiniteSet(out)
    BY <1>1, OutByOrdered
  <2> HIDE DEF out
  <2>2. QED
    BY <2>1, FS_EmptySet
<1>8. exact # {} => Lowest(exact) # {}
  <2>1. \A t \in exact : t.n \in Nat
    BY <1>1, FlowPathAssumption DEF Exact, Wired, AnyTable
  <2> HIDE DEF exact
  <2>2. QED
    BY <2>1, LowestIs
<1> HIDE DEF exact, placed, out, found, size, least, only
<1>9. found # {} <=> exact # {} \/ placed # {} \/ size = 1
  <2>1. CASE Cardinality(exact) = 1 /\ found = exact
    BY <1>6, <2>1
  <2>2. CASE placed # {} /\ found = placed
    BY <2>2
  <2>3. CASE placed = {} /\ size = 1 /\ found = out
    BY <1>7, <2>3
  <2>4. CASE placed = {} /\ size # 1 /\ found = Lowest(exact)
    BY <1>6, <1>8, <2>4
  <2>5. QED
    BY <1>5, <2>1, <2>2, <2>3, <2>4
<1>10. found # {} <=> size = 1 \/ least < size \/ only
  BY <1>3, <1>4, <1>9
<1>11. QED
  BY <1>2, <1>10 DEF found, least, only, tables

\* Some table is shown exactly when some link has one.
LEMMA MatchesSome ==
  ASSUME NEW links \in Seq(Route), NEW tables, NEW routes
  PROVE  Matches(links, tables, routes) # {} <=>
           \E i \in DOMAIN links : TableOf(links[i], tables, routes) # {}
<1> DEFINE matches == Matches(links, tables, routes)
           some == {i \in DOMAIN links : TableOf(links[i], tables, routes) # {}}
<1>1. /\ \A m \in matches : \E i \in DOMAIN links : TableOf(links[i], tables, routes) # {}
      /\ \A i \in DOMAIN links : \A t \in TableOf(links[i], tables, routes) :
           (\A j \in 1..(i - 1) : \A u \in TableOf(links[j], tables, routes) : u.n # t.n)
             => [link |-> links[i], table |-> t] \in matches
  BY MatchesAre
<1>2. DOMAIN links = 1..Len(links) /\ Len(links) \in Nat
  BY LenProperties
<1> HIDE DEF matches
<1>3. ASSUME some # {}
      PROVE  matches # {}
  <2>1. some \in SUBSET Nat
    BY <1>2
  <2>2. PICK i \in some : \A j \in some : i <= j
    BY <1>3, <2>1, LeastOf
  <2>3. PICK t \in TableOf(links[i], tables, routes) : TRUE
    BY <2>2
  <2>4. ASSUME NEW j \in 1..(i - 1)
        PROVE  TableOf(links[j], tables, routes) = {}
    <3>1. i \in Nat /\ j \in Nat /\ j < i /\ i \in 1..Len(links)
      BY <1>2, <2>1
    <3>2. j \in DOMAIN links /\ ~(i <= j)
      BY <1>2, <3>1
    <3>3. QED
      BY <2>2, <3>2
  <2>5. QED
    BY <1>1, <2>3, <2>4
<1>4. QED
  BY <1>1, <1>3 DEF matches

\* The first of the letters.
LEMMA FirstOfIs ==
  ASSUME NEW letters
  PROVE  /\ "A" \in letters => FirstOf(letters) = "A"
         /\ "A" \notin letters /\ "B" \in letters => FirstOf(letters) = "B"
         /\ "A" \notin letters /\ "B" \notin letters /\ "C" \in letters => FirstOf(letters) = "C"
         /\ letters \cap {"A", "B", "C"} = {} /\ "D" \in letters => FirstOf(letters) = "D"
         /\ letters \cap {"A", "B", "C", "D"} = {} /\ "E" \in letters => FirstOf(letters) = "E"
         /\ letters \cap {"A", "B", "C", "D", "E"} = {} /\ "F" \in letters
              => FirstOf(letters) = "F"
         /\ letters \cap {"A", "B", "C", "D", "E", "F"} = {} /\ "G" \in letters
              => FirstOf(letters) = "G"
<1> DEFINE order == <<"A", "B", "C", "D", "E", "F", "G">>
           places == {i \in 1..7 : order[i] \in letters}
<1>1. FirstOf(letters) = order[Min(places)]
  <2>1. DOMAIN order = 1..7
    OBVIOUS
  <2>2. QED
    BY <2>1 DEF FirstOf
<1>2. /\ order[1] = "A" /\ order[2] = "B" /\ order[3] = "C" /\ order[4] = "D"
      /\ order[5] = "E" /\ order[6] = "F" /\ order[7] = "G"
  OBVIOUS
<1> HIDE DEF order
<1>3. ASSUME NEW k \in 1..7, order[k] \in letters,
             \A j \in 1..7 : j < k => order[j] \notin letters
      PROVE  FirstOf(letters) = order[k]
  <2>1. places \in SUBSET Nat /\ k \in places /\ \A j \in places : ~(j < k)
    BY <1>3
  <2> HIDE DEF places
  <2>2. Min(places) \in places /\ \A n \in places : Min(places) <= n
    BY <2>1, MinOf
  <2>3. Min(places) = k
    <3>1. Min(places) \in Nat /\ k \in Nat /\ Min(places) <= k /\ ~(Min(places) < k)
      BY <2>1, <2>2
    <3>2. QED
      BY <3>1
  <2>4. QED
    BY <1>1, <2>3
<1>4. CASE "A" \in letters
  <2>1. FirstOf(letters) = order[1]
    BY <1>2, <1>3, <1>4
  <2>2. QED
    BY <1>2, <1>4, <2>1
<1>5. CASE "A" \notin letters /\ "B" \in letters
  <2>1. \A j \in 1..7 : j < 2 => order[j] \notin letters
    BY <1>2, <1>5
  <2>2. FirstOf(letters) = order[2]
    BY <1>2, <1>3, <1>5, <2>1
  <2>3. QED
    BY <1>2, <1>5, <2>2
<1>6. CASE letters \cap {"A", "B"} = {} /\ "C" \in letters
  <2>1. \A j \in 1..7 : j < 3 => j = 1 \/ j = 2
    OBVIOUS
  <2>2. \A j \in 1..7 : j < 3 => order[j] \notin letters
    BY <1>2, <1>6, <2>1
  <2>3. FirstOf(letters) = order[3]
    BY <1>2, <1>3, <1>6, <2>2
  <2>4. QED
    BY <1>2, <1>6, <2>3
<1>7. CASE letters \cap {"A", "B", "C"} = {} /\ "D" \in letters
  <2>1. \A j \in 1..7 : j < 4 => j \in {1, 2, 3}
    OBVIOUS
  <2>2. \A j \in 1..7 : j < 4 => order[j] \notin letters
    BY <1>2, <1>7, <2>1
  <2>3. FirstOf(letters) = order[4]
    BY <1>2, <1>3, <1>7, <2>2
  <2>4. QED
    BY <1>2, <1>7, <2>3
<1>8. CASE letters \cap {"A", "B", "C", "D"} = {} /\ "E" \in letters
  <2>1. \A j \in 1..7 : j < 5 => j \in {1, 2, 3, 4}
    OBVIOUS
  <2>2. \A j \in 1..7 : j < 5 => order[j] \notin letters
    BY <1>2, <1>8, <2>1
  <2>3. FirstOf(letters) = order[5]
    BY <1>2, <1>3, <1>8, <2>2
  <2>4. QED
    BY <1>2, <1>8, <2>3
<1>9. CASE letters \cap {"A", "B", "C", "D", "E"} = {} /\ "F" \in letters
  <2>1. \A j \in 1..7 : j < 6 => j \in {1, 2, 3, 4, 5}
    OBVIOUS
  <2>2. \A j \in 1..7 : j < 6 => order[j] \notin letters
    BY <1>2, <1>9, <2>1
  <2>3. FirstOf(letters) = order[6]
    BY <1>2, <1>3, <1>9, <2>2
  <2>4. QED
    BY <1>2, <1>9, <2>3
<1>10. CASE letters \cap {"A", "B", "C", "D", "E", "F"} = {}
  <2>1. \A j \in 1..7 : j < 7 => j \in {1, 2, 3, 4, 5, 6}
    OBVIOUS
  <2>2. \A j \in 1..7 : j < 7 => order[j] \notin letters
    BY <1>2, <1>10, <2>1
  <2>3. ASSUME "G" \in letters
        PROVE  FirstOf(letters) = "G"
    <3>1. FirstOf(letters) = order[7]
      BY <1>2, <1>3, <2>2, <2>3
    <3>2. QED
      BY <1>2, <3>1
  <2>4. letters \cap {"A", "B", "C", "D", "E"} = {} /\ letters \cap {"A", "B", "C", "D"} = {}
        /\ letters \cap {"A", "B", "C"} = {}
    BY <1>10
  <2>5. "A" \notin letters /\ "B" \notin letters /\ "C" \notin letters /\ "D" \notin letters
        /\ "E" \notin letters /\ "F" \notin letters
    BY <1>10
  <2>6. QED
    BY <2>3, <2>4, <2>5
<1>11. QED
  BY <1>4, <1>5, <1>6, <1>7, <1>8, <1>9, <1>10

\* The parts of Wrong.
UsedBy(hits, routes) == {q \in Range(routes) : q.list \in hits /\ q.on}
UsedFirst(hits, routes) ==
  {i \in DOMAIN routes :
     /\ routes[i] \in UsedBy(hits, routes)
     /\ \A j \in DOMAIN routes : routes[j] \in UsedBy(hits, routes) =>
          \/ routes[j].list > routes[i].list
          \/ routes[j].list = routes[i].list /\ j >= i}
WaysOut(hits, routes) == {routes[i].iface : i \in UsedFirst(hits, routes)}

LEMMA WrongIs ==
  ASSUME NEW r, NEW host, NEW S
  PROVE  LET hits == Hits(ListsOf(r), Hitting(host))
             routes == RoutesOf(r)
             used == UsedBy(hits, routes)
             out == WaysOut(hits, routes)
             wrong == Wrong(r, host, S)
         IN  /\ "A" \in wrong <=> hits = {}
             /\ "B" \in wrong <=> used = {}
             /\ "C" \in wrong <=> ~(\E q \in used : HasTable(r, q))
             /\ "D" \in wrong <=> \/ \E k \in S : Unreplied(r.nat[k])
                                  \/ S # {} /\ \A k \in S : k.out = "WAN"
             /\ "E" \in wrong <=> out \cap Tunnel # {} /\ r.allow = "misses"
             /\ "F" \in wrong <=> out \cap Tunnel # {} /\ r.online = "offline" /\ r.age # "fresh"
             /\ "G" \in wrong
<1> DEFINE hits == Hits(ListsOf(r), Hitting(host))
           routes == RoutesOf(r)
           used == UsedBy(hits, routes)
           out == WaysOut(hits, routes)
           a == hits = {}
           b == used = {}
           c == \E q \in used : HasTable(r, q)
           d == \/ \E k \in S : Unreplied(r.nat[k])
                \/ S # {} /\ \A k \in S : k.out = "WAN"
           e == out \cap Tunnel # {} /\ r.allow = "misses"
           f == out \cap Tunnel # {} /\ r.online = "offline" /\ r.age # "fresh"
<1>1. Wrong(r, host, S) =
        {"G"} \cup (IF a THEN {"A"} ELSE {}) \cup (IF b THEN {"B"} ELSE {})
              \cup (IF c THEN {} ELSE {"C"}) \cup (IF d THEN {"D"} ELSE {})
              \cup (IF e THEN {"E"} ELSE {}) \cup (IF f THEN {"F"} ELSE {})
  BY DEF Wrong, UsedBy, UsedFirst, WaysOut
<1> DEFINE wrong == Wrong(r, host, S)
<1> HIDE DEF a, b, c, d, e, f, wrong
<1>2. /\ "A" \in wrong <=> a
      /\ "B" \in wrong <=> b
      /\ "C" \in wrong <=> ~c
      /\ "D" \in wrong <=> d
      /\ "E" \in wrong <=> e
      /\ "F" \in wrong <=> f
      /\ "G" \in wrong
  BY <1>1 DEF wrong
<1>3. QED
  BY <1>2 DEF a, b, c, d, e, f, wrong

\* The first link is the only foremost route.
LEMMA WayOutIs ==
  ASSUME NEW hits, NEW routes \in Seq(Route)
  PROVE  LET links == Links(hits, routes)
         IN  /\ UsedBy(hits, routes) = {} <=> links = <<>>
             /\ links = <<>> => WaysOut(hits, routes) = {}
             /\ links # <<>> => WaysOut(hits, routes) = {links[1].iface}
<1> DEFINE links == Links(hits, routes)
           used == Used(hits, routes)
           first == UsedFirst(hits, routes)
<1>1. Lined(links, used, routes, ByList(routes))
  BY LinksAre
<1>2. /\ links = <<>> <=> used = {}
      /\ links # <<>> => \E i \in used : /\ links[1] = routes[i]
                                         /\ \A j \in used : <<j, i>> \notin ByList(routes)
  BY <1>1, FirstLink
<1>3. \A i : i \in used <=> i \in DOMAIN routes /\ routes[i] \in UsedBy(hits, routes)
  BY DEF Used, UsedBy, Range
<1>4. UsedBy(hits, routes) = {} <=> used = {}
  <2>1. \A q \in UsedBy(hits, routes) : \E i \in DOMAIN routes : q = routes[i]
    BY DEF UsedBy, Range
  <2>2. QED
    BY <1>3, <2>1
<1>5. \A i \in used : i \in Nat /\ i \in DOMAIN routes /\ routes[i].list \in Nat
  <2>1. \A i \in used : i \in Nat /\ i \in DOMAIN routes /\ routes[i] \in Range(routes)
    BY <1>3, RangeFinite DEF UsedBy
  <2>2. QED
    BY <2>1, RouteTypes
<1>6. \A i : i \in first <=>
        /\ i \in used
        /\ \A j \in used : \/ routes[j].list > routes[i].list
                           \/ routes[j].list = routes[i].list /\ j >= i
  BY <1>3 DEF UsedFirst
<1>7. \A i, j \in used : <<j, i>> \in ByList(routes) <=>
        routes[j].list < routes[i].list \/ (routes[j].list = routes[i].list /\ j < i)
  BY <1>5 DEF ByList
<1> HIDE DEF links, used, first
<1>8. CASE links = <<>>
  <2>1. first = {}
    BY <1>2, <1>6, <1>8
  <2>2. WaysOut(hits, routes) = {}
    BY <2>1 DEF WaysOut, first
  <2>3. QED
    BY <1>2, <1>4, <1>8, <2>2 DEF links
<1>9. CASE links # <<>>
  <2>1. PICK i \in used : links[1] = routes[i] /\ \A j \in used : <<j, i>> \notin ByList(routes)
    BY <1>2, <1>9
  <2>2. ASSUME NEW j \in used
        PROVE  \/ routes[j].list > routes[i].list
               \/ routes[j].list = routes[i].list /\ j >= i
    <3> DEFINE m == routes[i].list
               n == routes[j].list
    <3>1. /\ m \in Nat /\ n \in Nat /\ i \in Nat /\ j \in Nat
          /\ ~(n < m \/ (n = m /\ j < i))
      BY <1>5, <1>7, <2>1
    <3> HIDE DEF m, n
    <3>2. n > m \/ (n = m /\ j >= i)
      BY <3>1
    <3>3. QED
      BY <3>2 DEF m, n
  <2>3. i \in first
    BY <1>6, <2>2
  <2>4. ASSUME NEW k \in first
        PROVE  k = i
    <3> DEFINE m == routes[i].list
               n == routes[k].list
    <3>1. /\ m \in Nat /\ n \in Nat /\ i \in Nat /\ k \in Nat
          /\ m > n \/ (m = n /\ i >= k)
          /\ n > m \/ (n = m /\ k >= i)
      BY <1>5, <1>6, <2>2
    <3> HIDE DEF m, n
    <3>2. QED
      BY <3>1
  <2>5. first = {i}
    BY <2>3, <2>4
  <2>6. WaysOut(hits, routes) = {routes[i].iface}
    BY <2>5 DEF WaysOut, first
  <2>7. QED
    BY <1>2, <1>4, <1>9, <2>1, <2>6 DEF links
<1>10. QED
  BY <1>8, <1>9

\* Of the sessions looked at of one router.
LEMMA SessionsAre ==
  ASSUME NEW nat, NEW S, NEW c, c.sessions = [k \in S |-> SessionOf(nat[k])]
  PROVE  WanOnly(c) \/ Silent(c) <=>
           \/ \E k \in S : Unreplied(nat[k])
           \/ S # {} /\ \A k \in S : k.out = "WAN"
<1> DEFINE s == [k \in S |-> SessionOf(nat[k])]
<1>1. DOMAIN s = S
  OBVIOUS
<1>2. \A k \in S : s[k].sent = nat[k].sent /\ s[k].got = nat[k].got
  BY DEF SessionOf
<1>3. s = <<>> <=> S = {}
  OBVIOUS
<1> HIDE DEF s
<1>4. c.sessions = s
  BY DEF s
<1>5. WanOnly(c) <=> S # {} /\ \A k \in S : k.out = "WAN"
  BY <1>1, <1>3, <1>4 DEF WanOnly
<1>6. Silent(c) <=> \E k \in S : Unreplied(nat[k])
  BY <1>1, <1>2, <1>4 DEF Silent, Unreplied
<1>7. QED
  BY <1>5, <1>6

\* Of the tunnel of one router.
LEMMA PeerIs ==
  ASSUME NEW r \in GoodRouter, NEW c \in Job, PeerSeen(c, {r}, FALSE), c.todo = <<>>,
         c.op = "verify"
  PROVE  /\ Missed(c) <=> Egress(c) \in Tunnel /\ r.allow = "misses"
         /\ Offline(c) <=> Egress(c) \in Tunnel /\ r.online = "offline" /\ r.age # "fresh"
<1>1. \A p : ~Open(c, p)
  BY NothingOpen
<1>2. /\ r.allow \in {"covers", "misses"} /\ r.online \in {"online", "offline"}
  BY RouterTypes DEF Cover, Online
<1>3. CASE Egress(c) \in Tunnel
  <2>1. c.allow # Unknown /\ c.online # Unknown
    BY <1>1, <1>3 DEF PeerSeen
  <2>2. c.allow = r.allow /\ c.online = r.online /\ c.age = r.age
    BY <2>1 DEF PeerSeen
  <2>3. Missed(c) <=> r.allow = "misses"
    BY <1>2, <1>3, <2>1, <2>2 DEF Missed
  <2>4. Offline(c) <=> r.online = "offline" /\ r.age # "fresh"
    BY <2>2 DEF Offline
  <2>5. QED
    BY <1>3, <2>3, <2>4
<1>4. CASE Egress(c) \notin Tunnel
  <2>1. c.online = Unknown
    BY <1>1, <1>4 DEF PeerSeen
  <2>2. QED
    BY <1>4, <2>1 DEF Missed, Offline, Unknown
<1>5. QED
  BY <1>3, <1>4

LEMMA VerifiedStill ==
  ASSUME NEW r \in GoodRouter, NEW c \in Job, NEW Q, Sound(c, {r}, FALSE, Q), c.todo = <<>>,
         c.op = "verify"
  PROVE  \E S \in Some(DOMAIN r.nat, PollLimit) : Failure(c) = FirstOf(Wrong(r, c.host, S))
<1>0. PICK S \in Some(DOMAIN r.nat, PollLimit) : c.sessions = [k \in S |-> SessionOf(r.nat[k])]
  <2>1. \E p \in {r} : c.sessions \in SessionsOf(p.nat)
    BY NothingOpen DEF Sound, Seen, SessionsSeen
  <2>2. QED
    BY <2>1 DEF SessionsOf
<1> DEFINE hits == Hits(ListsOf(r), Hitting(c.host))
           routes == RoutesOf(r)
           used == UsedBy(hits, routes)
           links == Links(hits, routes)
           wrong == Wrong(r, c.host, S)
           nat == WanOnly(c) \/ Silent(c)
<1>1. c.op \in Path /\ c.op \in Full /\ {r} \in SUBSET GoodRouter
  BY DEF Path, Full
<1>2. c.hits = hits /\ c.links = Links(c.hits, c.routes)
  <2>1. /\ \E p \in {r} : \E L \in SeenLists(p, FALSE) : c.hits = Hits(L, Hitting(c.host))
        /\ c.links = Links(c.hits, c.routes)
    BY <1>1, PathRead
  <2>2. SeenLists(r, FALSE) = {ListsOf(r)}
    BY DEF SeenLists
  <2>3. QED
    BY <2>1, <2>2
<1>3. /\ c.links # <<>> => c.hits # {}
      /\ c.matches # {} => c.links # <<>>
      /\ c.links # <<>> => Egress(c) = c.links[1].iface
      /\ Egress(c) \in Tunnel => c.links # <<>>
  BY <1>1, PathRead
<1>4. /\ c.routes = routes /\ c.tables = Tables(r.policies, r.shown, routes)
      /\ c.matches \in MatchesOf(c, c.tables)
  BY <1>1, StillRead
<1>5. c.links = links
  BY <1>2, <1>4
<1>6. /\ routes \in Seq(Route) /\ Identified(routes)
      /\ r.policies \in Policing /\ r.shown \in Tabling
  BY RouterTypes
<1>7. /\ used = {} <=> links = <<>>
      /\ links = <<>> => WaysOut(hits, routes) = {}
      /\ links # <<>> => WaysOut(hits, routes) = {links[1].iface}
  BY <1>6, WayOutIs
<1>8. c.matches # {} <=> \E q \in used : HasTable(r, q)
  <2> DEFINE tables == Tables(r.policies, r.shown, routes)
  <2>1. c.matches = Matches(links, tables, routes)
    <3>1. ~ByName(c)
      BY DEF ByName
    <3>2. QED
      BY <1>4, <1>5, <3>1 DEF MatchesOf
  <2>2. Lined(links, Used(hits, routes), routes, ByList(routes))
    BY <1>6, LinksAre
  <2>3. links \in Seq(Route) /\ \A i \in DOMAIN links : links[i] \in used
    <3>1. \A i \in DOMAIN links : links[i] \in Range(routes) /\ links[i].on /\ links[i].list \in hits
      BY <1>6, <2>2, FirstLink
    <3>2. QED
      BY <2>2, <3>1 DEF UsedBy, Lined
  <2>4. \A q \in used : \E i \in DOMAIN links : links[i] = q
    <3>1. \A q \in used : \E i \in Used(hits, routes) : routes[i] = q
      BY DEF UsedBy, Used, Range
    <3>2. QED
      BY <2>2, <3>1 DEF Lined
  <2>5. ASSUME NEW q \in used
        PROVE  TableOf(q, tables, routes) # {} <=> HasTable(r, q)
    <3> DEFINE count == Cardinality(NumbersOut(r.policies, r.shown, q.iface))
    <3>1. q \in Range(routes) /\ q.on
      BY DEF UsedBy
    <3>2. TableOf(q, tables, routes) # {} <=>
            count = 1 \/ Min(Own(q, routes)) < count \/ OnlyList(q, tables)
      BY <1>6, <3>1, TableOfSome
    <3>3. TablesOut(r, q.iface) = NumbersOut(r.policies, r.shown, q.iface)
      BY DEF TablesOut, NumbersOut
    <3>4. PlaceOf(r, q) = Min(Own(q, routes))
      BY DEF PlaceOf, Own
    <3>5. HasTable(r, q) <=> count = 1 \/ Min(Own(q, routes)) < count \/ OnlyList(q, tables)
      BY <3>3, <3>4 DEF HasTable, OnlyList
    <3>6. QED
      BY <3>2, <3>5
  <2> HIDE DEF tables, links, used
  <2>6. Matches(links, tables, routes) # {} <=>
          \E i \in DOMAIN links : TableOf(links[i], tables, routes) # {}
    BY <2>3, MatchesSome
  <2>7. QED
    BY <2>1, <2>3, <2>4, <2>5, <2>6
<1>9. nat <=> \/ \E k \in S : Unreplied(r.nat[k])
              \/ S # {} /\ \A k \in S : k.out = "WAN"
  BY <1>0, SessionsAre
<1>10. /\ Missed(c) <=> Egress(c) \in Tunnel /\ r.allow = "misses"
       /\ Offline(c) <=> Egress(c) \in Tunnel /\ r.online = "offline" /\ r.age # "fresh"
  BY PeerIs DEF Sound, Seen
<1>11. WaysOut(hits, routes) \cap Tunnel # {} <=> Egress(c) \in Tunnel
  <2>1. CASE links = <<>>
    BY <1>3, <1>5, <1>7, <2>1
  <2>2. CASE links # <<>>
    BY <1>3, <1>5, <1>7, <2>2
  <2>3. QED
    BY <2>1, <2>2
<1>12. /\ "A" \in wrong <=> c.hits = {}
       /\ "B" \in wrong <=> c.links = <<>>
       /\ "C" \in wrong <=> c.matches = {}
       /\ "D" \in wrong <=> nat
       /\ "E" \in wrong <=> Missed(c)
       /\ "F" \in wrong <=> Offline(c)
       /\ "G" \in wrong
  <2>1. /\ "A" \in wrong <=> hits = {}
        /\ "B" \in wrong <=> used = {}
        /\ "C" \in wrong <=> ~(\E q \in used : HasTable(r, q))
        /\ "D" \in wrong <=> \/ \E k \in S : Unreplied(r.nat[k])
                             \/ S # {} /\ \A k \in S : k.out = "WAN"
        /\ "E" \in wrong <=> WaysOut(hits, routes) \cap Tunnel # {} /\ r.allow = "misses"
        /\ "F" \in wrong <=> /\ WaysOut(hits, routes) \cap Tunnel # {}
                             /\ r.online = "offline" /\ r.age # "fresh"
        /\ "G" \in wrong
    BY WrongIs
  <2> HIDE DEF wrong, hits, used, links, routes, nat
  <2>2. "A" \in wrong <=> c.hits = {}
    BY <1>2, <2>1
  <2>3. "B" \in wrong <=> c.links = <<>>
    BY <1>5, <1>7, <2>1
  <2>4. "C" \in wrong <=> c.matches = {}
    BY <1>8, <2>1
  <2>5. "D" \in wrong <=> nat
    BY <1>9, <2>1
  <2>6. "E" \in wrong <=> Missed(c)
    BY <1>10, <1>11, <2>1
  <2>7. "F" \in wrong <=> Offline(c)
    BY <1>10, <1>11, <2>1
  <2>8. QED
    BY <2>1, <2>2, <2>3, <2>4, <2>5, <2>6, <2>7
<1> DEFINE missed == Missed(c)
           offline == Offline(c)
           matched == c.matches # {}
           found == Failure(c)
           first == FirstOf(wrong)
<1>13. /\ found = "A" <=> c.hits = {}
       /\ found = "B" <=> c.hits # {} /\ c.links = <<>>
       /\ found = "C" <=> c.links # <<>> /\ c.matches = {}
       /\ found = "D" <=> matched /\ nat
       /\ found = "E" <=> matched /\ ~nat /\ missed
       /\ found = "F" <=> matched /\ ~nat /\ ~missed /\ offline
       /\ found = "G" <=> matched /\ ~nat /\ ~missed /\ ~offline
  BY <1>3, FailureIs
<1>14. /\ "A" \in wrong => first = "A"
       /\ "A" \notin wrong /\ "B" \in wrong => first = "B"
       /\ "A" \notin wrong /\ "B" \notin wrong /\ "C" \in wrong => first = "C"
       /\ wrong \cap {"A", "B", "C"} = {} /\ "D" \in wrong => first = "D"
       /\ wrong \cap {"A", "B", "C", "D"} = {} /\ "E" \in wrong => first = "E"
       /\ wrong \cap {"A", "B", "C", "D", "E"} = {} /\ "F" \in wrong => first = "F"
       /\ wrong \cap {"A", "B", "C", "D", "E", "F"} = {} /\ "G" \in wrong => first = "G"
  BY FirstOfIs
<1> HIDE DEF wrong, nat, missed, offline, found, first
<1>15. /\ "E" \in wrong <=> missed
       /\ "F" \in wrong <=> offline
  BY <1>12 DEF missed, offline
<1>16. CASE c.hits = {}
  BY <1>12, <1>13, <1>14, <1>16 DEF found, first, wrong
<1>17. CASE c.hits # {} /\ c.links = <<>>
  BY <1>12, <1>13, <1>14, <1>17 DEF found, first, wrong
<1>18. CASE c.links # <<>> /\ ~matched
  <2>1. found = "C"
    BY <1>13, <1>18 DEF matched
  <2>2. first = "C"
    BY <1>3, <1>12, <1>14, <1>18
  <2>3. QED
    BY <2>1, <2>2 DEF found, first, wrong
<1>19. ASSUME matched
       PROVE  "A" \notin wrong /\ "B" \notin wrong /\ "C" \notin wrong
  BY <1>3, <1>12, <1>19
<1>20. CASE matched /\ nat
  <2>1. found = "D"
    BY <1>13, <1>20
  <2>2. wrong \cap {"A", "B", "C"} = {} /\ "D" \in wrong
    BY <1>12, <1>19, <1>20
  <2>3. first = "D"
    BY <1>14, <2>2
  <2>4. QED
    BY <2>1, <2>3 DEF found, first, wrong
<1>21. CASE matched /\ ~nat /\ missed
  <2>1. found = "E"
    BY <1>13, <1>21
  <2>2. wrong \cap {"A", "B", "C", "D"} = {} /\ "E" \in wrong
    BY <1>12, <1>15, <1>19, <1>21
  <2>3. first = "E"
    BY <1>14, <2>2
  <2>4. QED
    BY <2>1, <2>3 DEF found, first, wrong
<1>22. CASE matched /\ ~nat /\ ~missed /\ offline
  <2>1. found = "F"
    BY <1>13, <1>22
  <2>2. wrong \cap {"A", "B", "C", "D", "E"} = {} /\ "F" \in wrong
    BY <1>12, <1>15, <1>19, <1>22
  <2>3. first = "F"
    BY <1>14, <2>2
  <2>4. QED
    BY <2>1, <2>3 DEF found, first, wrong
<1>23. CASE matched /\ ~nat /\ ~missed /\ ~offline
  <2>1. found = "G"
    BY <1>13, <1>23
  <2>2. wrong \cap {"A", "B", "C", "D", "E", "F"} = {} /\ "G" \in wrong
    BY <1>12, <1>15, <1>19, <1>23
  <2>3. first = "G"
    BY <1>14, <2>2
  <2>4. QED
    BY <2>1, <2>3 DEF found, first, wrong
<1>24. QED
  BY <1>16, <1>17, <1>18, <1>20, <1>21, <1>22, <1>23

LEMMA StillTrue ==
  ASSUME CallInv
  PROVE  StillRouter
<1>1. SUFFICES ASSUME ~failed, NEW r \in past, past = {r}
               PROVE
        /\ answer.op = "verify" =>
             \E S \in Some(DOMAIN r.nat, PollLimit) :
               answer.verdict = FirstOf(Wrong(r, answer.host, S))
        /\ answer.op = "diagnose" =>
             LET own == {q \in Range(RoutesOf(r)) : q.list = answer.list}
                 gated == \E q \in own : q.gw
                 found == \E q \in own : OnLink(r, q.iface)
             IN  /\ answer.verdict = "noroute" <=> own = {}
                 /\ found /\ gated => answer.verdict = "onlink"
                 /\ answer.verdict = "onlink" =>
                      gated /\ (found \/ \E q \in own : OnLinkDescribed(r, q.iface))
        /\ answer.op = "explain" /\ r.fib # <<>> =>
             \E i \in DOMAIN r.fib :
               /\ r.fib[i].iface = answer.best
               /\ \A j \in DOMAIN r.fib : r.fib[j].len <= r.fib[i].len
  BY DEF StillRouter
<1>2. r \in GoodRouter /\ past = {r} /\ failed = FALSE
  BY <1>1 DEF CallInv, World
<1>3. ASSUME answer.op \in {"verify", "diagnose", "explain"}
      PROVE  \E c \in Job : /\ Sound(c, {r}, FALSE, polled) /\ c.todo = <<>>
                            /\ (\E S : answer = Report(c, S)) /\ c.op = answer.op
  <2>1. answer.op \in Ops
    BY <1>3 DEF Ops
  <2>2. PICK c \in Job : /\ Sound(c, past, failed, polled) /\ c.todo = <<>>
                         /\ (\E S : answer = Report(c, S)) /\ c.op = answer.op
    BY <2>1, AnswerIs
  <2>3. Sound(c, {r}, FALSE, polled)
    BY <1>2, <2>2
  <2>4. QED
    BY <2>2, <2>3
<1>4. ASSUME answer.op = "verify"
      PROVE  \E S \in Some(DOMAIN r.nat, PollLimit) :
               answer.verdict = FirstOf(Wrong(r, answer.host, S))
  <2>1. PICK c \in Job : /\ Sound(c, {r}, FALSE, polled) /\ c.todo = <<>>
                         /\ (\E S : answer = Report(c, S)) /\ c.op = "verify"
    BY <1>3, <1>4
  <2>2. answer.verdict = Failure(c) /\ answer.host = c.host
    BY <2>1 DEF Report
  <2>3. QED
    BY <1>2, <2>1, <2>2, VerifiedStill
<1>5. ASSUME answer.op = "diagnose"
      PROVE  LET own == {q \in Range(RoutesOf(r)) : q.list = answer.list}
                 gated == \E q \in own : q.gw
                 found == \E q \in own : OnLink(r, q.iface)
             IN  /\ answer.verdict = "noroute" <=> own = {}
                 /\ found /\ gated => answer.verdict = "onlink"
                 /\ answer.verdict = "onlink" =>
                      gated /\ (found \/ \E q \in own : OnLinkDescribed(r, q.iface))
  <2>1. PICK c \in Job : /\ Sound(c, {r}, FALSE, polled) /\ c.todo = <<>>
                         /\ (\E S : answer = Report(c, S)) /\ c.op = "diagnose"
    BY <1>3, <1>5
  <2>2. answer.verdict = Diagnosed(c.list, c.tables, c.routes) /\ answer.list = c.list
    BY <2>1 DEF Report
  <2>3. c.op \in Full
    BY <2>1 DEF Full
  <2>4. c.routes = RoutesOf(r) /\ c.tables = Tables(r.policies, r.shown, RoutesOf(r))
    BY <1>2, <2>1, <2>3, StillRead
  <2>5. r.policies \in Policing /\ r.shown \in Tabling /\ RoutesOf(r) \in Seq(Route)
    BY <1>2, RouterTypes
  <2>6. answer.verdict =
          Diagnosed(answer.list, Tables(r.policies, r.shown, RoutesOf(r)), RoutesOf(r))
    BY <2>2, <2>4
  <2> DEFINE routes == RoutesOf(r)
             verdict == Diagnosed(answer.list, Tables(r.policies, r.shown, routes), routes)
             own == {q \in Range(routes) : q.list = answer.list}
             gated == \E q \in own : q.gw
             found == \E q \in own : OnLink(r, q.iface)
             described == \E q \in own : OnLinkDescribed(r, q.iface)
  <2>7. /\ verdict = "noroute" <=> own = {}
        /\ found /\ gated => verdict = "onlink"
        /\ verdict = "onlink" => gated /\ (found \/ described)
    <3> HIDE DEF routes
    <3>1. \A list :
            LET o == {q \in Range(routes) : q.list = list}
                d == Diagnosed(list, Tables(r.policies, r.shown, routes), routes)
            IN  /\ d = "noroute" <=> o = {}
                /\ (\E q \in o : OnLink(r, q.iface)) /\ (\E q \in o : q.gw) => d = "onlink"
                /\ d = "onlink" =>
                     /\ \E q \in o : q.gw
                     /\ \/ \E q \in o : OnLink(r, q.iface)
                        \/ \E q \in o : OnLinkDescribed(r, q.iface)
      BY <2>5, DiagnosisIs DEF routes
    <3>2. QED
      BY <3>1
  <2>8. answer.verdict = verdict
    BY <2>6
  <2> HIDE DEF verdict, own, gated, found, described
  <2>9. /\ answer.verdict = "noroute" <=> own = {}
        /\ found /\ gated => answer.verdict = "onlink"
        /\ answer.verdict = "onlink" => gated /\ (found \/ described)
    BY <2>7, <2>8
  <2>10. QED
    BY <2>9 DEF own, gated, found, described, routes
<1>6. ASSUME answer.op = "explain", r.fib # <<>>
      PROVE  \E i \in DOMAIN r.fib :
               /\ r.fib[i].iface = answer.best
               /\ \A j \in DOMAIN r.fib : r.fib[j].len <= r.fib[i].len
  <2>1. PICK c \in Job : /\ Sound(c, {r}, FALSE, polled) /\ c.todo = <<>>
                         /\ (\E S : answer = Report(c, S)) /\ c.op = "explain"
    BY <1>3, <1>6
  <2>2. answer.best = BestRoute(c.fib)
    BY <2>1 DEF Report
  <2>3. c.fib = r.fib
    BY <2>1, NothingOpen DEF Sound, Seen, FibSeen, Path
  <2>4. r.fib \in Seq([len : Nat, iface : Iface])
    BY <1>2, RouterTypes
  <2>5. QED
    BY <1>6, <2>2, <2>3, <2>4, BestRouteIs
<1>7. QED
  BY <1>4, <1>5, <1>6

\* A pass vouches for what some router of the call had, and of a router that stands still
\* and answers every request the verdict is the first of all that is wrong, whatever its
\* lists, routes, tables, sessions and peers are (flow.py:313-386, datapath.py:556-576).
THEOREM VerdictsTrue == Spec => []VerdictsHold
<1>1. CallInv => VerdictsHold
  BY PassTrue, StillTrue DEF VerdictsHold
<1>2. QED
  BY <1>1, CallsKnow, PTL
=============================================================================
