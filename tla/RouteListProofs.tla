---------------------------- MODULE RouteListProofs ----------------------------
(***************************************************************************)
(* What an array of RouteList keeps, for any size, any routes and any      *)
(* order of offers; and the lemmas about the arrays and tries of RouteTrie *)
(* that the lookups of SimpleLcr rest on.                                  *)
(***************************************************************************)
EXTENDS RouteList, FiniteSetTheorems, TLAPS

AnyRoute == [cost : Nat, value : Nat \ {0}, type : Nat]

Slots(n) == 1 .. n
(* An array the size of which does not wrap when it is full.                *)
Array(n) ==
  {a \in [size : 0 .. n, slot : [Slots(n) -> AnyRoute \cup {NoRoute}]] : n < 255}

Free(a, i) == a.slot[i].value = 0

(* The slots in use come before the free ones, in ascending order of cost,  *)
(* those that a removal left behind the list included.                      *)
Sorted(a, n) ==
  \A i, j \in Slots(n) :
    i < j /\ ~Free(a, j) => ~Free(a, i) /\ a.slot[i].cost <= a.slot[j].cost

NoHole(a) == \A i \in 1 .. a.size : ~Free(a, i)

(* What an array has at most: the routes of S.                              *)
From(a, n, S) == \A i \in Slots(n) : ~Free(a, i) => a.slot[i] \in S

-----------------------------------------------------------------------------
(* A set of numbers has a least one: the initial segments they end are      *)
(* well-founded by inclusion.                                               *)
LEMMA LeastExists ==
  ASSUME NEW S \in SUBSET Nat, S # {}
  PROVE  \E x \in S : \A y \in S : x <= y
  <1> DEFINE Segments == {0 .. x : x \in S}
  <1>1. Segments # {} /\ Segments \subseteq FiniteSubsetsOf(Nat)
    <2>1. \A x \in S : 0 .. x \subseteq Nat /\ IsFiniteSet(0 .. x)
      BY FS_Interval
    <2>2. QED BY <2>1 DEF FiniteSubsetsOf
  <1>2. \E s \in Segments : \A t \in Segments : ~ (<<t, s>> \in StrictSubsetOrdering(Nat))
    <2> HIDE DEF Segments
    <2>1. IsWellFoundedOn(StrictSubsetOrdering(Nat), FiniteSubsetsOf(Nat))
      BY FS_StrictSubsetOrderingWellFounded
    <2>2. QED BY <1>1, <2>1, WFMin
  <1>3. PICK x \in S : \A t \in Segments : ~ (<<t, 0 .. x>> \in StrictSubsetOrdering(Nat))
    BY <1>2
  <1>4. ASSUME NEW y \in S PROVE x <= y
    <2>1. SUFFICES ASSUME y < x PROVE FALSE
      OBVIOUS
    <2>2. 0 .. y \subseteq 0 .. x /\ 0 .. y # 0 .. x
      <3>1. x \in 0 .. x /\ x \notin 0 .. y
        BY <2>1
      <3>2. QED BY <2>1, <3>1
    <2>3. <<0 .. y, 0 .. x>> \in StrictSubsetOrdering(Nat)
      BY <2>2 DEF StrictSubsetOrdering
    <2>4. QED BY <1>3, <2>3
  <1>5. QED BY <1>4

LEMMA FirstIsLeast ==
  ASSUME NEW S \in SUBSET Nat, S # {}
  PROVE  First(S) \in S /\ \A y \in S : First(S) <= y
  BY LeastExists DEF First

LEMMA RouteIsUsed ==
  ASSUME NEW r \in AnyRoute
  PROVE  r.value # 0 /\ r.value \in Nat /\ r.cost \in Nat /\ r.type \in Nat
  BY DEF AnyRoute

LEMMA SlotNumbers ==
  ASSUME NEW n \in Nat
  PROVE  Slots(n) \subseteq Nat \ {0}
  BY DEF Slots

LEMMA SlotCosts ==
  ASSUME NEW n \in Nat, NEW a \in Array(n), NEW i \in Slots(n)
  PROVE  /\ a.slot[i].cost \in Nat /\ a.slot[i].value \in Nat
         /\ ~Free(a, i) => a.slot[i] \in AnyRoute
  <1>1. a.slot[i] \in AnyRoute \cup {NoRoute}
    BY DEF Array
  <1>2. CASE a.slot[i] \in AnyRoute
    BY <1>2, RouteIsUsed
  <1>3. CASE a.slot[i] = NoRoute
    BY <1>3 DEF NoRoute, Free
  <1>4. QED BY <1>1, <1>2, <1>3

LEMMA SlotCount ==
  ASSUME NEW n \in Nat, NEW a \in Array(n)
  PROVE  Slots(n) = DOMAIN a.slot /\ Cardinality(DOMAIN a.slot) = n
  <1>1. DOMAIN a.slot = 1 .. n
    BY DEF Array, Slots
  <1>2. Cardinality(1 .. n) = n
    BY FS_Interval, SlotNumbers
  <1>3. QED BY <1>1, <1>2 DEF Slots

(* The two outcomes of Insert: no slot is free and none holds a dearer      *)
(* route, or the route takes the first that is.                             *)
NoPlace(a, n, r) == \A i \in Slots(n) : ~Free(a, i) /\ a.slot[i].cost <= r.cost
PlaceAt(a, n, r, p) ==
  /\ p \in Slots(n)
  /\ Free(a, p) \/ a.slot[p].cost > r.cost
  /\ \A i \in 1 .. p - 1 : ~Free(a, i) /\ a.slot[i].cost <= r.cost
Shifted(a, n, r, p) ==
  [i \in Slots(n) |-> IF i < p THEN a.slot[i] ELSE IF i = p THEN r
                   ELSE IF ~Free(a, i - 1) THEN a.slot[i - 1] ELSE a.slot[i]]

LEMMA InsertOutcome ==
  ASSUME NEW n \in Nat, NEW a \in Array(n), NEW r \in AnyRoute
  PROVE  /\ Insert(a, r).size = IF a.size < n THEN a.size + 1 ELSE a.size
         /\ \/ NoPlace(a, n, r) /\ Insert(a, r).slot = a.slot
            \/ \E p \in Slots(n) :
                 PlaceAt(a, n, r, p) /\ Insert(a, r).slot = Shifted(a, n, r, p)
  <1>1. PlacesFor(a, r.cost) = {i \in Slots(n) : Free(a, i) \/ a.slot[i].cost > r.cost}
    BY SlotCount DEF PlacesFor, Free
  <1>2. Insert(a, r).size = IF a.size < n THEN a.size + 1 ELSE a.size
    <2>1. n < 255 /\ a.size \in 0 .. n /\ Cardinality(DOMAIN a.slot) = n
      BY SlotCount DEF Array
    <2>2. (a.size + 1) % 256 = a.size + 1
      BY <2>1
    <2>3. QED BY <2>1, <2>2 DEF Insert
  <1>3. CASE PlacesFor(a, r.cost) = {}
    <2>1. NoPlace(a, n, r)
      BY <1>1, <1>3, SlotCosts, RouteIsUsed DEF NoPlace
    <2>2. QED BY <1>2, <1>3, <2>1 DEF Insert
  <1>4. CASE PlacesFor(a, r.cost) # {}
    <2> DEFINE p == First(PlacesFor(a, r.cost))
    <2>1. p \in PlacesFor(a, r.cost) /\ \A y \in PlacesFor(a, r.cost) : p <= y
      BY <1>1, <1>4, SlotNumbers, FirstIsLeast
    <2>2. Insert(a, r).slot = Shifted(a, n, r, p)
      BY <1>4, SlotCount DEF Insert, Shifted, Free
    <2> HIDE DEF p
    <2>3. PlaceAt(a, n, r, p)
      <3>1. p \in Slots(n) /\ (Free(a, p) \/ a.slot[p].cost > r.cost)
        BY <1>1, <2>1
      <3>2. ASSUME NEW i \in 1 .. p - 1
            PROVE  ~Free(a, i) /\ a.slot[i].cost <= r.cost
        <4>1. i \in Slots(n) /\ i < p
          BY <3>1, SlotNumbers DEF Slots
        <4>2. i \notin PlacesFor(a, r.cost)
          BY <2>1, <3>1, <4>1, SlotNumbers
        <4>3. QED BY <1>1, <4>1, <4>2, SlotCosts, RouteIsUsed
      <3>3. QED BY <3>1, <3>2 DEF PlaceAt
    <2>4. QED BY <1>2, <2>2, <2>3 DEF PlaceAt
  <1>5. QED BY <1>3, <1>4

LEMMA InsertIsArray ==
  ASSUME NEW n \in Nat, NEW a \in Array(n), NEW r \in AnyRoute
  PROVE  Insert(a, r) \in Array(n)
  <1> DEFINE b == Insert(a, r)
  <1>1. b = [size |-> b.size, slot |-> b.slot]
    BY DEF Insert
  <1>2. n < 255 /\ a.size \in 0 .. n /\ a.slot \in [Slots(n) -> AnyRoute \cup {NoRoute}]
    BY DEF Array
  <1> HIDE DEF b
  <1>3. b.size \in 0 .. n
    BY <1>2, InsertOutcome, SlotNumbers DEF b
  <1>4. b.slot \in [Slots(n) -> AnyRoute \cup {NoRoute}]
    <2>1. ASSUME NEW p \in Slots(n), PlaceAt(a, n, r, p)
          PROVE  Shifted(a, n, r, p) \in [Slots(n) -> AnyRoute \cup {NoRoute}]
      <3>1. ASSUME NEW i \in Slots(n)
            PROVE  Shifted(a, n, r, p)[i] \in AnyRoute \cup {NoRoute}
        <4>1. i > p => i - 1 \in Slots(n)
          BY SlotNumbers DEF Slots
        <4>2. QED BY <1>2, <4>1, SlotNumbers DEF Shifted
      <3>2. QED BY <3>1 DEF Shifted
    <2>2. QED BY <1>2, <2>1, InsertOutcome DEF b
  <1>5. QED BY <1>1, <1>3, <1>4 DEF Array, b

(* What Insert keeps of the order and adds to the list.                     *)
LEMMA InsertKeeps ==
  ASSUME NEW n \in Nat, NEW a \in Array(n), Sorted(a, n), NoHole(a), NEW S, From(a, n, S),
         NEW r \in AnyRoute
  PROVE  /\ Sorted(Insert(a, r), n) /\ NoHole(Insert(a, r))
         /\ From(Insert(a, r), n, S \cup {r})
         /\ n > 0 => /\ Insert(a, r).size > 0
                     /\ ~Free(Insert(a, r), 1) /\ Insert(a, r).slot[1].cost <= r.cost
                     /\ ~Free(a, 1) => Insert(a, r).slot[1].cost <= a.slot[1].cost
  <1> DEFINE b == Insert(a, r)
  <1>1. b \in Array(n) /\ b.size = (IF a.size < n THEN a.size + 1 ELSE a.size)
    BY InsertIsArray, InsertOutcome
  <1>2. \/ NoPlace(a, n, r) /\ b.slot = a.slot
        \/ \E p \in Slots(n) : PlaceAt(a, n, r, p) /\ b.slot = Shifted(a, n, r, p)
    BY InsertOutcome
  <1>3. a.size \in 0 .. n /\ b.size \in 0 .. n /\ b.size <= a.size + 1
    BY <1>1, SlotNumbers DEF Array
  <1> HIDE DEF b
  <1>4. CASE NoPlace(a, n, r) /\ b.slot = a.slot
    <2>1. Sorted(b, n) /\ From(b, n, S \cup {r})
      BY <1>4 DEF Sorted, From, Free
    <2>2. NoHole(b)
      BY <1>3, <1>4, SlotNumbers DEF NoHole, NoPlace, Slots, Free
    <2>3. n > 0 => b.size > 0 /\ 1 \in Slots(n)
      BY <1>1, <1>3, SlotNumbers DEF Slots
    <2>4. n > 0 => ~Free(b, 1) /\ b.slot[1].cost <= r.cost /\ b.slot[1].cost <= a.slot[1].cost
      BY <1>4, <2>3, SlotCosts DEF NoPlace, Free
    <2>5. QED BY <2>1, <2>2, <2>3, <2>4 DEF b
  <1>5. ASSUME NEW p \in Slots(n), PlaceAt(a, n, r, p), b.slot = Shifted(a, n, r, p)
        PROVE  /\ Sorted(b, n) /\ NoHole(b) /\ From(b, n, S \cup {r})
               /\ b.size > 0 /\ ~Free(b, 1) /\ b.slot[1].cost <= r.cost
               /\ ~Free(a, 1) => b.slot[1].cost <= a.slot[1].cost
    <2>1. ASSUME NEW i \in Slots(n)
          PROVE  /\ i < p => b.slot[i] = a.slot[i] /\ ~Free(a, i) /\ a.slot[i].cost <= r.cost
                 /\ i = p => b.slot[i] = r
                 /\ i > p => /\ i - 1 \in Slots(n)
                             /\ ~Free(a, i - 1) =>
                                  b.slot[i] = a.slot[i - 1] /\ a.slot[i - 1].cost > r.cost
                             /\ Free(a, i - 1) => b.slot[i] = a.slot[i] /\ Free(a, i)
      <3>1. i < p => b.slot[i] = a.slot[i] /\ ~Free(a, i) /\ a.slot[i].cost <= r.cost
        BY <1>5, SlotNumbers DEF Shifted, PlaceAt, Slots
      <3>2. i = p => b.slot[i] = r
        BY <1>5, SlotNumbers DEF Shifted
      <3>3. ASSUME i > p
            PROVE  /\ i - 1 \in Slots(n)
                   /\ ~Free(a, i - 1) =>
                        b.slot[i] = a.slot[i - 1] /\ a.slot[i - 1].cost > r.cost
                   /\ Free(a, i - 1) => b.slot[i] = a.slot[i] /\ Free(a, i)
        <4>1. i - 1 \in Slots(n) /\ i - 1 < i /\ i # p /\ ~(i < p)
          BY <3>3, SlotNumbers DEF Slots
        <4>2. ASSUME ~Free(a, i - 1)
              PROVE  b.slot[i] = a.slot[i - 1] /\ a.slot[i - 1].cost > r.cost
          <5>1. p = i - 1 \/ p < i - 1
            BY <3>3, SlotNumbers
          <5>2. ~Free(a, p) /\ a.slot[p].cost <= a.slot[i - 1].cost
            BY <4>1, <4>2, <5>1, SlotCosts DEF Sorted
          <5>3. a.slot[p].cost > r.cost
            BY <1>5, <5>2 DEF PlaceAt
          <5>4. QED BY <1>5, <4>1, <4>2, <5>2, <5>3, SlotCosts, RouteIsUsed DEF Shifted
        <4>3. ASSUME Free(a, i - 1) PROVE b.slot[i] = a.slot[i] /\ Free(a, i)
          BY <1>5, <4>1, <4>3 DEF Shifted, Sorted
        <4>4. QED BY <4>1, <4>2, <4>3
      <3>4. QED BY <3>1, <3>2, <3>3
    <2>2. Sorted(b, n)
      <3>1. SUFFICES ASSUME NEW i \in Slots(n), NEW j \in Slots(n), i < j, ~Free(b, j)
                     PROVE  ~Free(b, i) /\ b.slot[i].cost <= b.slot[j].cost
        BY DEF Sorted
      <3>2. CASE j < p
        BY <2>1, <3>1, <3>2, SlotNumbers DEF Sorted, Free
      <3>3. CASE j = p
        BY <2>1, <3>1, <3>3, SlotNumbers DEF Free
      <3>4. CASE j > p
        <4>1. ~Free(a, j - 1) /\ b.slot[j] = a.slot[j - 1] /\ a.slot[j - 1].cost > r.cost
              /\ j - 1 \in Slots(n)
          BY <2>1, <3>1, <3>4 DEF Free
        <4>2. CASE i < p
          <5>1. i < j - 1 /\ b.slot[i] = a.slot[i]
            BY <2>1, <3>4, <4>2, SlotNumbers
          <5>2. QED BY <4>1, <5>1 DEF Sorted, Free
        <4>3. CASE i = p
          BY <2>1, <4>1, <4>3, RouteIsUsed, SlotCosts DEF Free
        <4>4. CASE i > p
          <5>1. i - 1 < j - 1 /\ i - 1 \in Slots(n)
            BY <2>1, <3>1, <4>4, SlotNumbers
          <5>2. ~Free(a, i - 1) /\ a.slot[i - 1].cost <= a.slot[j - 1].cost
            BY <4>1, <5>1 DEF Sorted
          <5>3. QED BY <2>1, <4>1, <4>4, <5>2 DEF Free
        <4>5. QED BY <4>2, <4>3, <4>4, SlotNumbers
      <3>5. QED BY <3>2, <3>3, <3>4, SlotNumbers
    <2>3. NoHole(b)
      <3>1. SUFFICES ASSUME NEW i \in 1 .. b.size PROVE ~Free(b, i)
        BY DEF NoHole
      <3>2. i \in Slots(n) /\ i - 1 \in 0 .. a.size
        BY <1>3, SlotNumbers DEF Slots
      <3>3. CASE i <= p
        BY <2>1, <3>2, <3>3, RouteIsUsed, SlotNumbers DEF Free
      <3>4. CASE i > p
        <4>1. i - 1 \in 1 .. a.size
          BY <3>2, <3>4, SlotNumbers
        <4>2. QED BY <2>1, <3>2, <3>4, <4>1 DEF NoHole, Free
      <3>5. QED BY <3>2, <3>3, <3>4, SlotNumbers
    <2>4. From(b, n, S \cup {r})
      <3>1. SUFFICES ASSUME NEW i \in Slots(n), ~Free(b, i) PROVE b.slot[i] \in S \cup {r}
        BY DEF From
      <3>2. CASE i < p
        BY <2>1, <3>2 DEF From
      <3>3. CASE i = p
        BY <2>1, <3>3
      <3>4. CASE i > p
        BY <2>1, <3>1, <3>4 DEF From, Free
      <3>5. QED BY <3>2, <3>3, <3>4, SlotNumbers
    <2>5. 1 \in Slots(n) /\ b.size > 0
      BY <1>1, <1>3, SlotNumbers DEF Slots
    <2>6. ~Free(b, 1)
      BY <1>1, <2>3, <2>5, SlotNumbers DEF NoHole, Array
    <2>7. p = 1 \/ 1 < p
      BY SlotNumbers DEF Slots
    <2>8. b.slot[1].cost <= r.cost
      BY <2>1, <2>5, <2>7, RouteIsUsed
    <2>9. ~Free(a, 1) => b.slot[1].cost <= a.slot[1].cost
      <3>1. CASE 1 < p
        BY <2>1, <2>5, <3>1, SlotCosts
      <3>2. CASE p = 1
        BY <1>5, <2>1, <2>5, <3>2, SlotCosts, RouteIsUsed DEF PlaceAt
      <3>3. QED BY <2>7, <3>1, <3>2
    <2>10. QED BY <2>2, <2>3, <2>4, <2>5, <2>6, <2>8, <2>9
  <1>6. QED BY <1>2, <1>4, <1>5 DEF b

-----------------------------------------------------------------------------
(* What a removal leaves, and the two together.                             *)

LEMMA RemoveKeeps ==
  ASSUME NEW n \in Nat, NEW a \in Array(n), Sorted(a, n), NoHole(a), NEW S, From(a, n, S),
         NEW q \in 1 .. a.size
  PROVE  /\ RouteArrayRemove(a, q) \in Array(n)
         /\ Sorted(RouteArrayRemove(a, q), n) /\ NoHole(RouteArrayRemove(a, q))
         /\ From(RouteArrayRemove(a, q), n, S)
         /\ ~Free(RouteArrayRemove(a, q), 1)
         /\ q > 1 => RouteArrayRemove(a, q).slot[1] = a.slot[1]
  <1> DEFINE b == RouteArrayRemove(a, q)
  <1>1. a.size \in 0 .. n /\ a.slot \in [Slots(n) -> AnyRoute \cup {NoRoute}] /\ a.size > 0
    BY SlotNumbers DEF Array
  <1>2. /\ b = [size |-> b.size, slot |-> b.slot] /\ b.size = a.size - 1
        /\ b.slot = [i \in Slots(n) |-> IF q <= i /\ i < a.size THEN a.slot[i + 1] ELSE a.slot[i]]
    BY <1>1 DEF RouteArrayRemove
  <1> HIDE DEF b
  <1>3. ASSUME NEW i \in Slots(n)
        PROVE  \E k \in Slots(n) : /\ b.slot[i] = a.slot[k] /\ (k = i \/ k = i + 1)
                                /\ (k = i + 1 <=> q <= i /\ i < a.size)
    <2>1. CASE q <= i /\ i < a.size
      <3>1. i + 1 \in Slots(n)
        BY <1>1, <2>1, SlotNumbers DEF Slots
      <3>2. QED BY <1>2, <2>1, <3>1
    <2>2. CASE ~(q <= i /\ i < a.size)
      BY <1>2, <2>2, SlotNumbers
    <2>3. QED BY <2>1, <2>2
  <1>4. b \in Array(n)
    <2>1. b.size \in 0 .. n
      BY <1>1, <1>2, SlotNumbers
    <2>2. b.slot \in [Slots(n) -> AnyRoute \cup {NoRoute}]
      BY <1>1, <1>2, <1>3
    <2>3. QED BY <1>2, <2>1, <2>2 DEF Array
  <1>5. Sorted(b, n)
    <2>1. SUFFICES ASSUME NEW i \in Slots(n), NEW j \in Slots(n), i < j, ~Free(b, j)
                   PROVE  ~Free(b, i) /\ b.slot[i].cost <= b.slot[j].cost
      BY DEF Sorted
    <2>2. PICK k \in Slots(n) : /\ b.slot[i] = a.slot[k] /\ (k = i \/ k = i + 1)
                            /\ (k = i + 1 <=> q <= i /\ i < a.size)
      BY <1>3
    <2>3. PICK m \in Slots(n) : /\ b.slot[j] = a.slot[m] /\ (m = j \/ m = j + 1)
                            /\ (m = j + 1 <=> q <= j /\ j < a.size)
      BY <1>3
    <2>4. k < m \/ k = m
      BY <2>1, <2>2, <2>3, SlotNumbers
    <2>5. CASE k = m
      BY <2>1, <2>2, <2>3, <2>5, SlotCosts DEF Free
    <2>6. CASE k < m
      BY <2>1, <2>2, <2>3, <2>6 DEF Sorted, Free
    <2>7. QED BY <2>4, <2>5, <2>6
  <1>6. ASSUME NEW i \in 1 .. a.size PROVE ~Free(b, i)
    <2>1. i \in Slots(n)
      BY <1>1, SlotNumbers DEF Slots
    <2>2. PICK k \in Slots(n) : /\ b.slot[i] = a.slot[k] /\ (k = i \/ k = i + 1)
                            /\ (k = i + 1 <=> q <= i /\ i < a.size)
      BY <1>3, <2>1
    <2>3. k \in 1 .. a.size
      BY <1>1, <2>2, SlotNumbers
    <2>4. QED BY <2>2, <2>3 DEF NoHole, Free
  <1>7. NoHole(b) /\ ~Free(b, 1)
    BY <1>1, <1>2, <1>6, SlotNumbers DEF NoHole
  <1>8. From(b, n, S)
    BY <1>3 DEF From, Free
  <1>9. q > 1 => b.slot[1] = a.slot[1]
    <2>1. 1 \in Slots(n)
      BY <1>1, SlotNumbers DEF Slots
    <2>2. QED BY <1>2, <2>1, SlotNumbers
  <1>10. QED BY <1>4, <1>5, <1>7, <1>8, <1>9 DEF b

(* The first route of the list costs at most c.                             *)
FirstCosts(a, n, c) == n > 0 => a.size > 0 /\ a.slot[1].cost <= c

LEMMA AddKeeps ==
  ASSUME NEW n \in Nat, NEW a \in Array(n), Sorted(a, n), NoHole(a), NEW S, From(a, n, S),
         NEW r \in AnyRoute
  PROVE  /\ RouteArrayAdd(a, r) \in Array(n)
         /\ Sorted(RouteArrayAdd(a, r), n) /\ NoHole(RouteArrayAdd(a, r))
         /\ From(RouteArrayAdd(a, r), n, S \cup {r})
         /\ FirstCosts(RouteArrayAdd(a, r), n, r.cost)
         /\ \A c \in Nat : FirstCosts(a, n, c) => FirstCosts(RouteArrayAdd(a, r), n, c)
         /\ SameRoute(a, r) = {} => RouteArrayAdd(a, r) = Insert(a, r)
  <1> DEFINE q == First(SameRoute(a, r))
  <1>1. a.size \in 0 .. n /\ (n > 0 => 1 \in Slots(n))
    BY SlotNumbers DEF Array, Slots
  <1>2. r.cost \in Nat
    BY RouteIsUsed
  <1>3. CASE SameRoute(a, r) = {}
    <2> DEFINE b == Insert(a, r)
    <2>1. b = RouteArrayAdd(a, r)
      BY <1>3 DEF RouteArrayAdd
    <2>2. /\ b \in Array(n) /\ Sorted(b, n) /\ NoHole(b) /\ From(b, n, S \cup {r})
          /\ n > 0 => /\ b.size > 0 /\ b.slot[1].cost <= r.cost
                      /\ ~Free(a, 1) => b.slot[1].cost <= a.slot[1].cost
      BY InsertKeeps, InsertIsArray
    <2> HIDE DEF b
    <2>3. ASSUME NEW c \in Nat, FirstCosts(a, n, c) PROVE FirstCosts(b, n, c)
      <3>1. SUFFICES ASSUME n > 0 PROVE b.slot[1].cost <= c
        BY <2>2 DEF FirstCosts
      <3>2. a.size > 0 /\ a.slot[1].cost <= c /\ ~Free(a, 1)
        BY <1>1, <2>3, <3>1, SlotNumbers DEF FirstCosts, NoHole
      <3>3. QED BY <1>1, <2>2, <3>1, <3>2, SlotCosts
    <2>4. QED BY <2>1, <2>2, <2>3 DEF FirstCosts, b
  <1>4. CASE SameRoute(a, r) # {}
    <2>1. q \in 1 .. a.size /\ q \in Slots(n) /\ a.slot[q].value = r.value
      <3>1. SameRoute(a, r) \subseteq Nat
        BY <1>1 DEF SameRoute
      <3>2. q \in SameRoute(a, r)
        BY <1>4, <3>1, FirstIsLeast
      <3>3. QED BY <1>1, <3>2, SlotNumbers, SMTT(20) DEF SameRoute, Slots
    <2> HIDE DEF q
    <2>2. n > 0 /\ a.size > 0 /\ ~Free(a, 1) /\ 1 \in Slots(n)
      BY <1>1, <2>1, SlotNumbers DEF NoHole
    <2>3. a.slot[1].cost <= a.slot[q].cost
      <3>1. ~Free(a, q)
        BY <2>1 DEF NoHole
      <3>2. CASE q = 1
        BY <2>2, <3>2, SlotCosts
      <3>3. CASE q # 1
        BY <2>1, <2>2, <3>1, <3>3 DEF Sorted
      <3>4. QED BY <3>2, <3>3
    <2>4. CASE a.slot[q].cost < r.cost
      <3>1. RouteArrayAdd(a, r) = a
        BY <1>4, <2>4 DEF RouteArrayAdd, q
      <3>2. a.slot[1].cost <= r.cost
        BY <2>1, <2>2, <2>3, <2>4, <1>2, SlotCosts
      <3>3. From(a, n, S \cup {r})
        BY DEF From
      <3>4. QED BY <1>4, <2>2, <3>1, <3>2, <3>3 DEF FirstCosts
    <2>5. CASE ~(a.slot[q].cost < r.cost)
      <3> DEFINE m == RouteArrayRemove(a, q)
                 b == Insert(m, r)
      <3>1. RouteArrayAdd(a, r) = b
        BY <1>4, <2>5 DEF RouteArrayAdd, q
      <3>2. /\ m \in Array(n) /\ Sorted(m, n) /\ NoHole(m) /\ From(m, n, S) /\ ~Free(m, 1)
            /\ q > 1 => m.slot[1] = a.slot[1]
        BY <2>1, RemoveKeeps
      <3>3. /\ b \in Array(n) /\ Sorted(b, n) /\ NoHole(b) /\ From(b, n, S \cup {r})
            /\ b.size > 0 /\ b.slot[1].cost <= r.cost /\ b.slot[1].cost <= m.slot[1].cost
        <4> HIDE DEF m
        <4>1. QED BY <2>2, <3>2, InsertKeeps, InsertIsArray
      <3> HIDE DEF m, b
      <3>4. b.slot[1].cost <= a.slot[1].cost
        <4>1. CASE q = 1
          BY <1>2, <2>2, <2>5, <3>3, <4>1, SlotCosts
        <4>2. CASE q > 1
          BY <3>2, <3>3, <4>2
        <4>3. QED BY <2>1, <4>1, <4>2, SlotNumbers
      <3>5. ASSUME NEW c \in Nat, FirstCosts(a, n, c) PROVE FirstCosts(b, n, c)
        BY <2>2, <3>3, <3>4, <3>5, SlotCosts DEF FirstCosts
      <3>6. QED BY <1>4, <3>1, <3>3, <3>5 DEF FirstCosts
    <2>6. QED BY <2>4, <2>5
  <1>5. QED BY <1>3, <1>4

-----------------------------------------------------------------------------
(* Without removals nothing is behind the list and no route is in it twice. *)

Clean(a, n) == \A i \in Slots(n) : i > a.size => Free(a, i)
Distinct(a) == \A i, j \in 1 .. a.size : a.slot[i] = a.slot[j] => i = j

(* The routes of S that are not listed cost too much for a full array.      *)
LeftOut(a, n, S) ==
  \A r \in S \ Listed(a) : a.size = n /\ \A l \in Listed(a) : l.cost <= r.cost

LEMMA ListedCount ==
  ASSUME NEW n \in Nat, NEW a \in Array(n), Distinct(a)
  PROVE  Cardinality(Listed(a)) = a.size
  <1> DEFINE f == [i \in 1 .. a.size |-> a.slot[i]]
  <1>1. a.size \in Nat
    BY SlotNumbers DEF Array
  <1>2. f \in Bijection(1 .. a.size, Listed(a))
    <2>1. f \in [1 .. a.size -> Listed(a)]
      BY DEF Listed
    <2>2. IsInjective(f)
      BY DEF IsInjective, Distinct
    <2>3. \A t \in Listed(a) : \E s \in 1 .. a.size : f[s] = t
      BY DEF Listed
    <2>4. QED BY <2>1, <2>2, <2>3 DEF Bijection, Injection, Surjection
  <1>3. ExistsBijection(1 .. a.size, Listed(a))
    BY <1>2 DEF ExistsBijection
  <1>4. QED BY <1>1, <1>3, FS_CountingElements

LEMMA InsertExact ==
  ASSUME NEW n \in Nat, NEW a \in Array(n), Sorted(a, n), NoHole(a), Clean(a, n), Distinct(a),
         NEW S \in SUBSET AnyRoute, From(a, n, S), LeftOut(a, n, S),
         NEW r \in AnyRoute, r \notin Listed(a)
  PROVE  /\ Clean(Insert(a, r), n) /\ Distinct(Insert(a, r))
         /\ LeftOut(Insert(a, r), n, S \cup {r})
  <1> DEFINE b == Insert(a, r)
  <1>1. b \in Array(n) /\ b.size = (IF a.size < n THEN a.size + 1 ELSE a.size)
    BY InsertIsArray, InsertOutcome
  <1>2. \/ NoPlace(a, n, r) /\ b.slot = a.slot
        \/ \E p \in Slots(n) : PlaceAt(a, n, r, p) /\ b.slot = Shifted(a, n, r, p)
    BY InsertOutcome
  <1>3. a.size \in 0 .. n /\ b.size \in 0 .. n /\ 1 .. a.size \subseteq Slots(n)
        /\ 1 .. b.size \subseteq Slots(n)
    BY <1>1, SlotNumbers DEF Array, Slots
  <1> HIDE DEF b
  <1>4. CASE NoPlace(a, n, r) /\ b.slot = a.slot
    <2>1. a.size = n
      <3>1. SUFFICES ASSUME a.size < n PROVE FALSE
        BY <1>3, SlotNumbers
      <3>2. a.size + 1 \in Slots(n) /\ a.size + 1 > a.size
        BY <1>3, <3>1, SlotNumbers DEF Slots
      <3>3. QED BY <1>4, <3>2 DEF Clean, NoPlace
    <2>2. b.size = a.size
      BY <1>1, <2>1, SlotNumbers
    <2>3. Clean(b, n) /\ Distinct(b) /\ Listed(b) = Listed(a)
      BY <1>4, <2>2 DEF Clean, Distinct, Listed, Free
    <2>4. \A l \in Listed(a) : l.cost <= r.cost
      BY <1>3, <1>4 DEF Listed, NoPlace
    <2>5. LeftOut(b, n, S \cup {r})
      BY <2>1, <2>2, <2>3, <2>4 DEF LeftOut
    <2>6. QED BY <2>3, <2>5 DEF b
  <1>5. ASSUME NEW p \in Slots(n), PlaceAt(a, n, r, p), b.slot = Shifted(a, n, r, p)
        PROVE  Clean(b, n) /\ Distinct(b) /\ LeftOut(b, n, S \cup {r})
    <2>1. p <= a.size + 1
      <3>1. SUFFICES ASSUME a.size + 1 < p PROVE FALSE
        BY <1>3, SlotNumbers
      <3>2. a.size + 1 \in 1 .. p - 1 /\ a.size + 1 \in Slots(n) /\ a.size + 1 > a.size
        BY <1>3, <3>1, SlotNumbers DEF Slots
      <3>3. QED BY <1>5, <3>2 DEF Clean, PlaceAt
    <2>2. p \in 1 .. b.size /\ b.slot[p] = r
      BY <1>1, <1>3, <1>5, <2>1, SlotNumbers DEF Shifted, Slots
    <2>3. ASSUME NEW i \in Slots(n)
          PROVE  /\ i < p => i \in 1 .. a.size /\ b.slot[i] = a.slot[i]
                 /\ i > p => i - 1 \in Slots(n)
                 /\ i > p /\ i <= a.size + 1 => i - 1 \in 1 .. a.size /\ b.slot[i] = a.slot[i - 1]
                 /\ i > a.size + 1 => b.slot[i] = a.slot[i] /\ Free(a, i)
      <3>1. i < p => i \in 1 .. a.size /\ b.slot[i] = a.slot[i]
        BY <1>3, <1>5, <2>1, SlotNumbers DEF Shifted, Slots
      <3>2. i > p => i - 1 \in Slots(n)
        BY SlotNumbers DEF Slots
      <3>3. ASSUME i > p, i <= a.size + 1
            PROVE  i - 1 \in 1 .. a.size /\ b.slot[i] = a.slot[i - 1]
        <4>1. i - 1 \in 1 .. a.size /\ i # p /\ ~(i < p)
          BY <1>3, <3>3, SlotNumbers
        <4>2. ~Free(a, i - 1)
          BY <4>1 DEF NoHole
        <4>3. b.slot[i] = IF ~Free(a, i - 1) THEN a.slot[i - 1] ELSE a.slot[i]
          BY <1>5, <4>1 DEF Shifted
        <4>4. b.slot[i] = a.slot[i - 1]
          BY <4>2, <4>3 DEF Free
        <4>5. QED BY <4>1, <4>4
      <3>4. ASSUME i > a.size + 1 PROVE b.slot[i] = a.slot[i] /\ Free(a, i)
        <4>1. i - 1 \in Slots(n) /\ i - 1 > a.size /\ i > a.size /\ i # p /\ ~(i < p)
          BY <1>3, <2>1, <3>4, SlotNumbers DEF Slots
        <4>2. Free(a, i - 1) /\ Free(a, i)
          BY <4>1 DEF Clean
        <4>3. QED BY <1>5, <4>1, <4>2 DEF Shifted
      <3>5. QED BY <3>1, <3>2, <3>3, <3>4
    <2>4. Clean(b, n)
      <3>1. SUFFICES ASSUME NEW i \in Slots(n), i > b.size PROVE Free(b, i)
        BY DEF Clean
      <3>2. i > a.size + 1
        BY <1>1, <1>3, <3>1, SlotNumbers DEF Slots
      <3>3. QED BY <2>3, <3>2 DEF Free
    <2>5. Distinct(b)
      <3>1. SUFFICES ASSUME NEW i \in 1 .. b.size, NEW j \in 1 .. b.size,
                            b.slot[i] = b.slot[j], i < j
                     PROVE  FALSE
        BY <1>3, SlotNumbers DEF Distinct
      <3>2. i \in Slots(n) /\ j \in Slots(n) /\ j <= a.size + 1
        BY <1>1, <1>3, SlotNumbers
      <3>3. \A k \in 1 .. a.size : a.slot[k] # r
        BY DEF Listed
      <3>4. CASE j < p
        BY <2>3, <3>1, <3>2, <3>4, SlotNumbers DEF Distinct
      <3>5. CASE j = p
        BY <2>2, <2>3, <3>1, <3>2, <3>3, <3>5
      <3>6. CASE j > p
        <4>1. j - 1 \in 1 .. a.size /\ b.slot[j] = a.slot[j - 1]
          BY <2>3, <3>2, <3>6
        <4>2. CASE i < p
          <5>1. i \in 1 .. a.size /\ b.slot[i] = a.slot[i] /\ i # j - 1
            BY <2>3, <3>2, <3>6, <4>2, SlotNumbers
          <5>2. QED BY <3>1, <4>1, <5>1 DEF Distinct
        <4>3. CASE i = p
          BY <2>2, <3>1, <3>3, <4>1, <4>3
        <4>4. CASE i > p
          <5>1. i <= a.size + 1 /\ i - 1 # j - 1
            BY <1>3, <3>1, <3>2, SlotNumbers
          <5>2. i - 1 \in 1 .. a.size /\ b.slot[i] = a.slot[i - 1]
            BY <2>3, <3>2, <4>4, <5>1
          <5>3. QED BY <3>1, <4>1, <5>1, <5>2 DEF Distinct
        <4>5. QED BY <3>2, <4>2, <4>3, <4>4, SlotNumbers
      <3>7. QED BY <3>2, <3>4, <3>5, <3>6, SlotNumbers
    <2>6. LeftOut(b, n, S \cup {r})
      <3>1. SUFFICES ASSUME NEW o \in (S \cup {r}) \ Listed(b)
                     PROVE  b.size = n /\ \A l \in Listed(b) : l.cost <= o.cost
        BY DEF LeftOut
      <3>2. o # r /\ o \in S /\ o.cost \in Nat /\ r.cost \in Nat
        BY <2>2, <3>1, RouteIsUsed DEF Listed
      <3>3. Listed(b) \subseteq Listed(a) \cup {r}
        <4>1. ASSUME NEW i \in 1 .. b.size PROVE b.slot[i] \in Listed(a) \cup {r}
          <5>1. i \in Slots(n) /\ i <= a.size + 1 /\ (i < p \/ i = p \/ i > p)
            BY <1>1, <1>3, SlotNumbers
          <5>2. QED BY <2>2, <2>3, <5>1 DEF Listed
        <4>2. QED BY <4>1 DEF Listed
      <3>4. a.size = n /\ p \in 1 .. a.size /\ \A l \in Listed(a) : l.cost <= o.cost
        <4>1. CASE o \notin Listed(a)
          BY <2>2, <3>1, <3>2, <4>1, <1>1, <1>3, SlotNumbers DEF LeftOut
        <4>2. CASE o \in Listed(a)
          <5>1. PICK k \in 1 .. a.size : o = a.slot[k]
            BY <4>2 DEF Listed
          <5>2. ~(k < p)
            <6>1. SUFFICES ASSUME k < p PROVE FALSE
              OBVIOUS
            <6>2. k \in Slots(n) /\ k \in 1 .. b.size
              BY <1>1, <1>3, SlotNumbers
            <6>3. QED BY <2>3, <3>1, <5>1, <6>1, <6>2 DEF Listed
          <5>3. ~(k < n)
            <6>1. SUFFICES ASSUME k < n PROVE FALSE
              OBVIOUS
            <6>2. k + 1 \in Slots(n) /\ k + 1 \in 1 .. b.size /\ k + 1 > p /\ k + 1 <= a.size + 1
              BY <1>1, <1>3, <5>2, <6>1, SlotNumbers DEF Slots
            <6>3. k + 1 - 1 = k
              BY <1>3, SlotNumbers
            <6>4. b.slot[k + 1] = o
              BY <2>3, <5>1, <6>2, <6>3
            <6>5. QED BY <3>1, <6>2, <6>4 DEF Listed
          <5>4. k = n /\ a.size = n /\ p \in 1 .. a.size
            BY <1>3, <5>2, <5>3, SlotNumbers
          <5>5. \A i \in 1 .. a.size : a.slot[i].cost <= o.cost
            <6>1. SUFFICES ASSUME NEW i \in 1 .. a.size PROVE a.slot[i].cost <= o.cost
              OBVIOUS
            <6>2. i \in Slots(n) /\ k \in Slots(n) /\ (i = k \/ i < k) /\ ~Free(a, k)
              BY <1>3, <5>4, SlotNumbers DEF NoHole
            <6>3. QED BY <5>1, <6>2, SlotCosts DEF Sorted
          <5>6. QED BY <5>4, <5>5 DEF Listed
        <4>3. QED BY <4>1, <4>2
      <3>5. r.cost <= o.cost
        <4>1. ~Free(a, p) /\ a.slot[p].cost <= o.cost
          BY <3>4 DEF NoHole, Listed
        <4>2. QED BY <1>5, <3>2, <4>1, SlotCosts DEF PlaceAt
      <3>6. b.size = n
        BY <1>1, <3>4, SlotNumbers
      <3>7. QED BY <3>3, <3>4, <3>5, <3>6
    <2>7. QED BY <2>4, <2>5, <2>6
  <1>6. QED BY <1>2, <1>4, <1>5 DEF b

-----------------------------------------------------------------------------
(* The array of a list, in any order of offers                              *)

ListIInv ==
  /\ array \in Array(MaxSize) /\ offered \subseteq Route
  /\ Sorted(array, MaxSize) /\ NoHole(array) /\ From(array, MaxSize, offered)
  /\ CheapestFirst
  /\ ~repeated => Clean(array, MaxSize) /\ Distinct(array) /\ LeftOut(array, MaxSize, offered)

LEMMA OfferedRoutes == MaxSize \in Nat /\ MaxSize < 255 /\ Route \subseteq AnyRoute
  <1>1. MaxSize \in Nat /\ MaxSize < 255
    BY RouteAssumption DEF RouteAssumption
  <1>2. \A r \in Route : r \in AnyRoute
    BY RouteAssumption DEF RouteAssumption, Route, AnyRoute
  <1>3. QED BY <1>1, <1>2

LEMMA ListInitHolds == RouteInit => ListIInv
  <1> SUFFICES ASSUME RouteInit PROVE ListIInv
    OBVIOUS
  <1>1. array = [size |-> 0, slot |-> [i \in Slots(MaxSize) |-> NoRoute]] /\ offered = {}
    <2>1. MaxSize % 256 = MaxSize
      BY RouteAssumption DEF RouteAssumption
    <2>2. QED BY <2>1 DEF RouteInit, RouteArrayCreate, Slots
  <1>2. array \in Array(MaxSize)
    BY <1>1, OfferedRoutes, SlotNumbers DEF Array
  <1>3. \A i \in Slots(MaxSize) : Free(array, i)
    BY <1>1 DEF Free, NoRoute
  <1>4. /\ Sorted(array, MaxSize) /\ NoHole(array) /\ From(array, MaxSize, offered)
        /\ Clean(array, MaxSize)
    BY <1>1, <1>3 DEF Sorted, NoHole, From, Clean
  <1>5. Distinct(array) /\ LeftOut(array, MaxSize, offered) /\ CheapestFirst
    BY <1>1 DEF Distinct, LeftOut, CheapestFirst
  <1>6. QED BY <1>1, <1>2, <1>4, <1>5 DEF ListIInv

LEMMA OfferKeeps ==
  ASSUME ListIInv, NEW r \in Route, Offer(r)
  PROVE  ListIInv'
  <1>1. /\ array' = RouteArrayAdd(array, r) /\ offered' = offered \cup {r}
        /\ repeated' = (repeated \/ \E o \in offered : o.value = r.value /\ o.type = r.type)
    BY DEF Offer
  <1>2. /\ array' \in Array(MaxSize) /\ Sorted(array', MaxSize) /\ NoHole(array')
        /\ From(array', MaxSize, offered')
        /\ FirstCosts(array', MaxSize, r.cost)
        /\ \A c \in Nat : FirstCosts(array, MaxSize, c) => FirstCosts(array', MaxSize, c)
        /\ SameRoute(array, r) = {} => array' = Insert(array, r)
    BY <1>1, AddKeeps, OfferedRoutes DEF ListIInv
  <1>3. CheapestFirst'
    <2>1. \A o \in offered : o.cost \in Nat /\ FirstCosts(array, MaxSize, o.cost)
      BY OfferedRoutes, RouteIsUsed DEF ListIInv, CheapestFirst, FirstCosts
    <2>2. \A o \in offered' : FirstCosts(array', MaxSize, o.cost)
      BY <1>1, <1>2, <2>1
    <2>3. QED BY <2>2 DEF CheapestFirst, FirstCosts
  <1>4. ASSUME ~repeated'
        PROVE  Clean(array', MaxSize) /\ Distinct(array') /\ LeftOut(array', MaxSize, offered')
    <2>1. ~repeated /\ \A o \in offered : ~(o.value = r.value /\ o.type = r.type)
      BY <1>1, <1>4
    <2>2. \A i \in 1 .. array.size : array.slot[i] \in offered
      BY OfferedRoutes, SlotNumbers DEF ListIInv, Array, Slots, NoHole, From
    <2>3. SameRoute(array, r) = {} /\ r \notin Listed(array)
      BY <2>1, <2>2 DEF SameRoute, Listed
    <2>4. QED BY <1>1, <1>2, <2>1, <2>3, InsertExact, OfferedRoutes DEF ListIInv
  <1>5. offered' \subseteq Route
    BY <1>1 DEF ListIInv
  <1>6. QED
    <2>1. Sorted(array, MaxSize)' /\ NoHole(array)' /\ From(array, MaxSize, offered)'
      BY <1>2 DEF Sorted, NoHole, From, Free
    <2>2. (~repeated => /\ Clean(array, MaxSize) /\ Distinct(array)
                        /\ LeftOut(array, MaxSize, offered))'
      BY <1>4 DEF Clean, Distinct, LeftOut, Listed, Free
    <2>3. QED BY <1>2, <1>3, <1>5, <2>1, <2>2 DEF ListIInv

LEMMA ListStepKeeps == ListIInv /\ [RouteNext]_routeVars => ListIInv'
  <1> SUFFICES ASSUME ListIInv, [RouteNext]_routeVars PROVE ListIInv'
    OBVIOUS
  <1>1. CASE RouteNext
    BY <1>1, OfferKeeps DEF RouteNext
  <1>2. CASE UNCHANGED routeVars
    BY <1>2 DEF routeVars, ListIInv, Sorted, NoHole, From, Free, CheapestFirst, Clean, Distinct,
                LeftOut, Listed
  <1>3. QED BY <1>1, <1>2

THEOREM ListInductive == RouteSpec => []ListIInv
  BY ListInitHolds, ListStepKeeps, PTL DEF RouteSpec

-----------------------------------------------------------------------------
(* The list is in order of cost and without holes, and has only routes that *)
(* were offered, also when a removal left old routes behind it.             *)
THEOREM ListIsSorted == RouteSpec => [](RouteTypeOK /\ AscendingByCost /\ NothingInvented)
  <1>1. ListIInv => RouteTypeOK /\ AscendingByCost /\ NothingInvented
    <2> SUFFICES ASSUME ListIInv PROVE RouteTypeOK /\ AscendingByCost /\ NothingInvented
      OBVIOUS
    <2>1. RouteTypeOK
      <3>1. \A i \in Slots(MaxSize) : array.slot[i] \in Route \cup {NoRoute}
        BY OfferedRoutes, RouteIsUsed DEF ListIInv, Array, From, Free
      <3>2. QED BY <3>1 DEF ListIInv, Array, Slots, RouteTypeOK
    <2>2. \A i \in 1 .. array.size : i \in Slots(MaxSize) /\ ~Free(array, i)
      BY OfferedRoutes, SlotNumbers DEF ListIInv, Array, Slots, NoHole
    <2>3. AscendingByCost
      BY <2>2 DEF ListIInv, Sorted, AscendingByCost, Free
    <2>4. NothingInvented
      BY <2>2 DEF ListIInv, From, NothingInvented, Listed
    <2>5. QED BY <2>1, <2>3, <2>4
  <1>2. QED BY ListInductive, <1>1, PTL

(* Whatever routes come again, are replaced or fall out, the first of the   *)
(* list is as cheap as any that was offered.                                *)
THEOREM FirstIsCheapest == RouteSpec => []CheapestFirst
  <1>1. ListIInv => CheapestFirst
    BY DEF ListIInv
  <1>2. QED BY ListInductive, <1>1, PTL

(* A list that no route was offered to twice is the cheapest routes, all of *)
(* them if there is room.                                                   *)
THEOREM ListIsExact == RouteSpec => []ExactWithoutRepeats
  <1>1. ListIInv => ExactWithoutRepeats
    BY ListedCount, OfferedRoutes DEF ListIInv, LeftOut, ExactWithoutRepeats
  <1>2. QED BY ListInductive, <1>1, PTL

-----------------------------------------------------------------------------
(* Folds, step by step: the definition of a fold is a CHOOSE of a           *)
(* recursion, which is shown to have a solution.                            *)

(* What holds of 0 and goes from each number to the next holds up to n.     *)
LEMMA UpToN ==
  ASSUME NEW n \in Nat, NEW T, 0 \in T, \A k \in 1 .. n : k - 1 \in T => k \in T
  PROVE  \A k \in 0 .. n : k \in T
  <1> DEFINE Bad == {k \in 0 .. n : k \notin T}
  <1>1. SUFFICES ASSUME Bad # {} PROVE FALSE
    OBVIOUS
  <1>2. Bad \in SUBSET Nat
    OBVIOUS
  <1>3. PICK k \in Bad : \A j \in Bad : k <= j
    <2> HIDE DEF Bad
    <2> QED BY <1>1, <1>2, LeastExists
  <1>4. k \in 1 .. n /\ k - 1 \in 0 .. n /\ ~(k <= k - 1)
    OBVIOUS
  <1>5. k - 1 \notin Bad
    <2> HIDE DEF Bad
    <2> QED BY <1>3, <1>4
  <1> QED BY <1>4, <1>5

(* The last of an initial segment of the numbers.                           *)
LEMMA MaxIsIn ==
  ASSUME NEW n \in Nat, NEW s \in SUBSET (1 .. n), s # {}
  PROVE  Max(s) \in s
  <1>1. {n - x : x \in s} \in SUBSET Nat
    OBVIOUS
  <1>2. {n - x : x \in s} # {}
    OBVIOUS
  <1>3. PICK m \in {n - x : x \in s} : \A y \in {n - x : x \in s} : m <= y
    BY <1>1, <1>2, LeastExists
  <1>4. PICK x \in s : m = n - x
    OBVIOUS
  <1>5. \A y \in s : x >= y
    <2>1. \A y \in s : m <= n - y
      BY <1>3
    <2> QED BY <1>4, <2>1
  <1> QED BY <1>5 DEF Max

(* The last of 1 .. k, and what is left without it.                         *)
LEMMA MaxOfSegment ==
  ASSUME NEW k \in Nat \ {0}
  PROVE  1 .. k # {} /\ Max(1 .. k) = k /\ (1 .. k) \ {k} = 1 .. k - 1
  <1>1. k \in 1 .. k /\ \A y \in 1 .. k : k >= y /\ (y >= k => y = k)
    OBVIOUS
  <1>2. Max(1 .. k) = k
    BY <1>1 DEF Max
  <1>3. (1 .. k) \ {k} = 1 .. k - 1
    OBVIOUS
  <1> QED BY <1>1, <1>2, <1>3

(* A fold goes over the sets of places of its sequence; g is its step.      *)
Recursion(f, n, A, base, g) ==
  /\ f = [s \in SUBSET (1 .. n) |-> f[s]]
  /\ f[{}] = base
  /\ \A s \in SUBSET (1 .. n) : s # {} =>
       /\ Max(s) \in 1 .. n /\ f[s \ {Max(s)}] \in A
       /\ f[s] = g[<<f[s \ {Max(s)}], Max(s)>>]

(* The recursion by which a fold is defined has a solution: one for each    *)
(* initial segment of the places, each the next one's restriction.          *)
LEMMA RecursionHolds ==
  ASSUME NEW n \in Nat, NEW A, NEW base \in A, NEW g \in [A \X (1 .. n) -> A]
  PROVE  \E f : Recursion(f, n, A, base, g)
  <1> DEFINE Sol(f, k) == /\ f \in [SUBSET (1 .. k) -> A]
                          /\ \A s \in SUBSET (1 .. k) :
                               f[s] = IF s = {} THEN base ELSE g[<<f[s \ {Max(s)}], Max(s)>>]
             T == {k \in 0 .. n : \E f : Sol(f, k)}
  <1>1. 0 \in T
    <2>1. SUBSET (1 .. 0) = {{}}
      OBVIOUS
    <2>2. Sol([s \in SUBSET (1 .. 0) |-> base], 0)
      BY <2>1
    <2>3. 0 \in 0 .. n
      OBVIOUS
    <2> HIDE DEF Sol
    <2> QED BY <2>2, <2>3
  <1>2. ASSUME NEW k \in 1 .. n, k - 1 \in T PROVE k \in T
    <2>1. PICK f : Sol(f, k - 1)
      BY <1>2
    <2> DEFINE h == [s \in SUBSET (1 .. k) |->
                       IF k \in s THEN g[<<f[s \ {k}], k>>] ELSE f[s]]
    <2>2. ASSUME NEW s \in SUBSET (1 .. k)
          PROVE  /\ k \in s => s \ {k} \in SUBSET (1 .. k - 1) /\ Max(s) = k
                 /\ k \notin s => s \in SUBSET (1 .. k - 1)
      <3>1. k \in s => Max(s) = k
        <4>1. SUFFICES ASSUME k \in s PROVE Max(s) = k
          OBVIOUS
        <4>2. \A y \in s : k >= y /\ (y >= k => y = k)
          OBVIOUS
        <4> QED BY <4>1, <4>2 DEF Max
      <3>2. \A y \in s : y # k => y \in 1 .. k - 1
        OBVIOUS
      <3> QED BY <3>1, <3>2
    <2>4. h \in [SUBSET (1 .. k) -> A]
      <3>1. ASSUME NEW s \in SUBSET (1 .. k) PROVE h[s] \in A
        <4>1. CASE k \in s
          <5>1. f[s \ {k}] \in A
            BY <2>1, <2>2, <4>1
          <5>2. h[s] = g[<<f[s \ {k}], k>>]
            BY <4>1
          <5> QED BY <5>1, <5>2
        <4>2. CASE k \notin s
          BY <2>1, <2>2, <4>2
        <4> QED BY <4>1, <4>2
      <3> QED BY <3>1
    <2>5. ASSUME NEW s \in SUBSET (1 .. k)
          PROVE  h[s] = IF s = {} THEN base ELSE g[<<h[s \ {Max(s)}], Max(s)>>]
      <3>1. CASE k \in s
        <4>1. s \ {k} \in SUBSET (1 .. k) /\ k \notin s \ {k} /\ Max(s) = k
          BY <2>2, <3>1
        <4>2. h[s \ {k}] = f[s \ {k}]
          BY <4>1
        <4> QED BY <3>1, <4>1, <4>2
      <3>2. CASE k \notin s
        <4>1. s \in SUBSET (1 .. k - 1)
          BY <2>2, <3>2
        <4>2. f[s] = IF s = {} THEN base ELSE g[<<f[s \ {Max(s)}], Max(s)>>]
          BY <2>1, <4>1
        <4>3. h[s] = f[s] /\ h[s \ {Max(s)}] = f[s \ {Max(s)}]
          BY <3>2
        <4> QED BY <4>2, <4>3
      <3> QED BY <3>1, <3>2
    <2>6. Sol(h, k)
      BY <2>4, <2>5
    <2> HIDE DEF Sol, h
    <2> QED BY <2>6
  <1> HIDE DEF Sol
  <1>3. \A k \in 0 .. n : k \in T
    <2> HIDE DEF T
    <2> QED BY <1>1, <1>2, UpToN
  <1>4. PICK f : Sol(f, n)
    BY <1>3
  <1>5. ASSUME NEW s \in SUBSET (1 .. n), s # {}
        PROVE  /\ Max(s) \in 1 .. n /\ f[s \ {Max(s)}] \in A
               /\ f[s] = g[<<f[s \ {Max(s)}], Max(s)>>]
    <2>1. Max(s) \in s
      BY <1>5, MaxIsIn
    <2> QED BY <1>4, <1>5, <2>1 DEF Sol
  <1>6. f = [s \in SUBSET (1 .. n) |-> f[s]] /\ f[{}] = base
    BY <1>4 DEF Sol
  <1> QED BY <1>5, <1>6 DEF Recursion

(* The values of a fold step by step.                                       *)
Steps(h, n, A, base, g) ==
  /\ h \in [0 .. n -> A] /\ h[0] = base
  /\ \A k \in 1 .. n : h[k] = g[<<h[k - 1], k>>]

(* So do its values of the initial segments.                                *)
Segments(f, n, A, base, g) ==
  /\ f[{}] = base
  /\ \A k \in 1 .. n : f[1 .. k - 1] \in A => f[1 .. k] = g[<<f[1 .. k - 1], k>>]

(* What a fold returns is the last of its steps.                            *)
LEMMA StepsHold ==
  ASSUME NEW n \in Nat, NEW A, NEW base \in A, NEW g,
         NEW f, Segments(f, n, A, base, g), \A a \in A, k \in 1 .. n : g[<<a, k>>] \in A
  PROVE  \E h : Steps(h, n, A, base, g) /\ h[n] = f[1 .. n]
  <1> DEFINE h == [k \in 0 .. n |-> f[1 .. k]]
             T == {k \in 0 .. n : h[k] \in A}
  <1>1. 1 .. 0 = {}
    OBVIOUS
  <1>2. 0 \in T /\ h[0] = base
    BY <1>1 DEF Segments
  <1>3. \A k \in 1 .. n : k - 1 \in T => k \in T /\ h[k] = g[<<h[k - 1], k>>]
    BY DEF Segments
  <1>4. \A k \in 0 .. n : k \in T
    <2> HIDE DEF T, h
    <2> QED BY <1>2, <1>3, UpToN
  <1>5. Steps(h, n, A, base, g)
    <2>1. h \in [0 .. n -> A]
      BY <1>4
    <2>2. \A k \in 1 .. n : h[k] = g[<<h[k - 1], k>>]
      <3>1. \A k \in 1 .. n : k - 1 \in T
        <4> HIDE DEF T, h
        <4> QED BY <1>4
      <3> QED BY <3>1, <1>3
    <2> HIDE DEF h
    <2> QED BY <1>2, <2>1, <2>2 DEF Steps
  <1>6. h[n] = f[1 .. n]
    OBVIOUS
  <1> HIDE DEF h
  <1> QED BY <1>5, <1>6

(* An array is offered the routes of a sequence one after the other.        *)
OfferAll(base, seq) == FoldLeft(RouteArrayAdd, base, seq)

(* Its steps.                                                               *)
Offers(h, A, base, seq) ==
  /\ h \in [0 .. Len(seq) -> A] /\ h[0] = base
  /\ \A k \in 1 .. Len(seq) : h[k] = RouteArrayAdd(h[k - 1], seq[k])
  /\ OfferAll(base, seq) = h[Len(seq)]

(* OfferAll has steps.                                                      *)
LEMMA OfferSteps ==
  ASSUME NEW A, NEW R, NEW base \in A, NEW seq \in Seq(R),
         \A a \in A, r \in R : RouteArrayAdd(a, r) \in A
  PROVE  \E h : Offers(h, A, base, seq)
  <1> DEFINE n == Len(seq)
             g == [p \in A \X (1 .. n) |-> RouteArrayAdd(p[1], seq[p[2]])]
             Sol(e) == e = [s \in SUBSET (1 .. n) |->
                              IF s = {} THEN base
                              ELSE RouteArrayAdd(e[s \ {Max(s)}], seq[Max(s)])]
             f == CHOOSE e : Sol(e)
  <1>1. n \in Nat /\ DOMAIN seq = 1 .. n /\ g \in [A \X (1 .. n) -> A]
    OBVIOUS
  <1>2. OfferAll(base, seq) = f[1 .. n]
    BY <1>1 DEF OfferAll, FoldLeft, MapThenFoldSet
  <1> HIDE DEF n
  <1>3. PICK e : Recursion(e, n, A, base, g)
    <2> HIDE DEF g
    <2> QED BY <1>1, RecursionHolds
  <1>4. Sol(e)
    <2>1. \A s \in SUBSET (1 .. n) :
            e[s] = IF s = {} THEN base
                   ELSE RouteArrayAdd(e[s \ {Max(s)}], seq[Max(s)])
      BY <1>3 DEF Recursion
    <2> QED BY <1>3, <2>1 DEF Recursion
  <1>5. Sol(f)
    <2> HIDE DEF Sol
    <2> QED BY <1>4
  <1> HIDE DEF f
  <1>6. Segments(f, n, A, base, g)
    <2>1. f[{}] = base
      BY <1>5
    <2>2. ASSUME NEW k \in 1 .. n, f[1 .. k - 1] \in A
          PROVE  f[1 .. k] = g[<<f[1 .. k - 1], k>>]
      <3>1. k \in Nat \ {0} /\ 1 .. k \in SUBSET (1 .. n)
        BY <1>1
      <3>2. 1 .. k # {} /\ Max(1 .. k) = k /\ (1 .. k) \ {k} = 1 .. k - 1
        BY <3>1, MaxOfSegment
      <3>3. f[1 .. k] = RouteArrayAdd(f[1 .. k - 1], seq[k])
        BY <1>5, <3>1, <3>2
      <3> QED BY <2>2, <3>3
    <2> QED BY <2>1, <2>2 DEF Segments
  <1>7. PICK h : Steps(h, n, A, base, g) /\ h[n] = f[1 .. n]
    <2>1. \A a \in A, k \in 1 .. n : g[<<a, k>>] \in A
      BY <1>1
    <2> HIDE DEF g, Sol
    <2> QED BY <1>1, <1>6, <2>1, StepsHold
  <1>8. /\ h \in [0 .. n -> A] /\ h[0] = base
        /\ \A k \in 1 .. n : h[k] = RouteArrayAdd(h[k - 1], seq[k])
    <2>1. h \in [0 .. n -> A] /\ h[0] = base
      BY <1>7 DEF Steps
    <2>2. ASSUME NEW k \in 1 .. n PROVE h[k] = RouteArrayAdd(h[k - 1], seq[k])
      <3>1. h[k] = g[<<h[k - 1], k>>]
        BY <1>7 DEF Steps
      <3>2. h[k - 1] \in A
        BY <1>1, <2>1
      <3> QED BY <3>1, <3>2
    <2> QED BY <2>1, <2>2
  <1> QED BY <1>2, <1>7, <1>8 DEF n, Offers

(* An array is offered the lists of a sequence of nodes.                    *)
MergeAll(base, seq) == FoldLeft(AddListed, base, seq)

(* Its steps.                                                               *)
Merges(h, A, base, seq) ==
  /\ h \in [0 .. Len(seq) -> A] /\ h[0] = base
  /\ \A k \in 1 .. Len(seq) : h[k] = AddListed(h[k - 1], seq[k])
  /\ MergeAll(base, seq) = h[Len(seq)]

(* MergeAll has steps.                                                      *)
LEMMA MergeSteps ==
  ASSUME NEW A, NEW R, NEW base \in A, NEW seq \in Seq(R),
         \A a \in A, r \in R : AddListed(a, r) \in A
  PROVE  \E h : Merges(h, A, base, seq)
  <1> DEFINE n == Len(seq)
             g == [p \in A \X (1 .. n) |-> AddListed(p[1], seq[p[2]])]
             Sol(e) == e = [s \in SUBSET (1 .. n) |->
                              IF s = {} THEN base
                              ELSE AddListed(e[s \ {Max(s)}], seq[Max(s)])]
             f == CHOOSE e : Sol(e)
  <1>1. n \in Nat /\ DOMAIN seq = 1 .. n /\ g \in [A \X (1 .. n) -> A]
    OBVIOUS
  <1>2. MergeAll(base, seq) = f[1 .. n]
    BY <1>1 DEF MergeAll, FoldLeft, MapThenFoldSet
  <1> HIDE DEF n
  <1>3. PICK e : Recursion(e, n, A, base, g)
    <2> HIDE DEF g
    <2> QED BY <1>1, RecursionHolds
  <1>4. Sol(e)
    <2>1. \A s \in SUBSET (1 .. n) :
            e[s] = IF s = {} THEN base
                   ELSE AddListed(e[s \ {Max(s)}], seq[Max(s)])
      BY <1>3 DEF Recursion
    <2> QED BY <1>3, <2>1 DEF Recursion
  <1>5. Sol(f)
    <2> HIDE DEF Sol
    <2> QED BY <1>4
  <1> HIDE DEF f
  <1>6. Segments(f, n, A, base, g)
    <2>1. f[{}] = base
      BY <1>5
    <2>2. ASSUME NEW k \in 1 .. n, f[1 .. k - 1] \in A
          PROVE  f[1 .. k] = g[<<f[1 .. k - 1], k>>]
      <3>1. k \in Nat \ {0} /\ 1 .. k \in SUBSET (1 .. n)
        BY <1>1
      <3>2. 1 .. k # {} /\ Max(1 .. k) = k /\ (1 .. k) \ {k} = 1 .. k - 1
        BY <3>1, MaxOfSegment
      <3>3. f[1 .. k] = AddListed(f[1 .. k - 1], seq[k])
        BY <1>5, <3>1, <3>2
      <3> QED BY <2>2, <3>3
    <2> QED BY <2>1, <2>2 DEF Segments
  <1>7. PICK h : Steps(h, n, A, base, g) /\ h[n] = f[1 .. n]
    <2>1. \A a \in A, k \in 1 .. n : g[<<a, k>>] \in A
      BY <1>1
    <2> HIDE DEF g, Sol
    <2> QED BY <1>1, <1>6, <2>1, StepsHold
  <1>8. /\ h \in [0 .. n -> A] /\ h[0] = base
        /\ \A k \in 1 .. n : h[k] = AddListed(h[k - 1], seq[k])
    <2>1. h \in [0 .. n -> A] /\ h[0] = base
      BY <1>7 DEF Steps
    <2>2. ASSUME NEW k \in 1 .. n PROVE h[k] = AddListed(h[k - 1], seq[k])
      <3>1. h[k] = g[<<h[k - 1], k>>]
        BY <1>7 DEF Steps
      <3>2. h[k - 1] \in A
        BY <1>1, <2>1
      <3> QED BY <3>1, <3>2
    <2> QED BY <2>1, <2>2
  <1> QED BY <1>2, <1>7, <1>8 DEF n, Merges

(* The sizes of nodes are added up.                                         *)
CountAll(base, seq) == FoldLeft(AddSize, base, seq)

(* Its steps.                                                               *)
Counts(h, A, base, seq) ==
  /\ h \in [0 .. Len(seq) -> A] /\ h[0] = base
  /\ \A k \in 1 .. Len(seq) : h[k] = AddSize(h[k - 1], seq[k])
  /\ CountAll(base, seq) = h[Len(seq)]

(* CountAll has steps.                                                      *)
LEMMA CountSteps ==
  ASSUME NEW A, NEW R, NEW base \in A, NEW seq \in Seq(R),
         \A a \in A, r \in R : AddSize(a, r) \in A
  PROVE  \E h : Counts(h, A, base, seq)
  <1> DEFINE n == Len(seq)
             g == [p \in A \X (1 .. n) |-> AddSize(p[1], seq[p[2]])]
             Sol(e) == e = [s \in SUBSET (1 .. n) |->
                              IF s = {} THEN base
                              ELSE AddSize(e[s \ {Max(s)}], seq[Max(s)])]
             f == CHOOSE e : Sol(e)
  <1>1. n \in Nat /\ DOMAIN seq = 1 .. n /\ g \in [A \X (1 .. n) -> A]
    OBVIOUS
  <1>2. CountAll(base, seq) = f[1 .. n]
    BY <1>1 DEF CountAll, FoldLeft, MapThenFoldSet
  <1> HIDE DEF n
  <1>3. PICK e : Recursion(e, n, A, base, g)
    <2> HIDE DEF g
    <2> QED BY <1>1, RecursionHolds
  <1>4. Sol(e)
    <2>1. \A s \in SUBSET (1 .. n) :
            e[s] = IF s = {} THEN base
                   ELSE AddSize(e[s \ {Max(s)}], seq[Max(s)])
      BY <1>3 DEF Recursion
    <2> QED BY <1>3, <2>1 DEF Recursion
  <1>5. Sol(f)
    <2> HIDE DEF Sol
    <2> QED BY <1>4
  <1> HIDE DEF f
  <1>6. Segments(f, n, A, base, g)
    <2>1. f[{}] = base
      BY <1>5
    <2>2. ASSUME NEW k \in 1 .. n, f[1 .. k - 1] \in A
          PROVE  f[1 .. k] = g[<<f[1 .. k - 1], k>>]
      <3>1. k \in Nat \ {0} /\ 1 .. k \in SUBSET (1 .. n)
        BY <1>1
      <3>2. 1 .. k # {} /\ Max(1 .. k) = k /\ (1 .. k) \ {k} = 1 .. k - 1
        BY <3>1, MaxOfSegment
      <3>3. f[1 .. k] = AddSize(f[1 .. k - 1], seq[k])
        BY <1>5, <3>1, <3>2
      <3> QED BY <2>2, <3>3
    <2> QED BY <2>1, <2>2 DEF Segments
  <1>7. PICK h : Steps(h, n, A, base, g) /\ h[n] = f[1 .. n]
    <2>1. \A a \in A, k \in 1 .. n : g[<<a, k>>] \in A
      BY <1>1
    <2> HIDE DEF g, Sol
    <2> QED BY <1>1, <1>6, <2>1, StepsHold
  <1>8. /\ h \in [0 .. n -> A] /\ h[0] = base
        /\ \A k \in 1 .. n : h[k] = AddSize(h[k - 1], seq[k])
    <2>1. h \in [0 .. n -> A] /\ h[0] = base
      BY <1>7 DEF Steps
    <2>2. ASSUME NEW k \in 1 .. n PROVE h[k] = AddSize(h[k - 1], seq[k])
      <3>1. h[k] = g[<<h[k - 1], k>>]
        BY <1>7 DEF Steps
      <3>2. h[k - 1] \in A
        BY <1>1, <2>1
      <3> QED BY <3>1, <3>2
    <2> QED BY <2>1, <2>2
  <1> QED BY <1>2, <1>7, <1>8 DEF n, Counts

(* The numbers up to m.                                                     *)
LEMMA IntervalSize ==
  ASSUME NEW m \in Nat
  PROVE  IsFiniteSet(1 .. m) /\ Cardinality(1 .. m) = m
  BY FS_Interval

-----------------------------------------------------------------------------
(* Arrays: what holds of a list when routes are offered to it, one after    *)
(* the other or as the list of a node.                                      *)

(* A list of the routes of S, the cheapest of them first.                   *)
Holds(a, n, S) ==
  /\ a \in Array(n) /\ Sorted(a, n) /\ NoHole(a) /\ From(a, n, S)
  /\ \A r \in S : FirstCosts(a, n, r.cost)

(* The list has each value of S once, and it costs no more than in S.       *)
Exact(a, n, S) ==
  /\ Clean(a, n)
  /\ \A i, j \in 1 .. a.size : a.slot[i].value = a.slot[j].value => i = j
  /\ \A r \in S : \E l \in Listed(a) : l.value = r.value /\ l.cost <= r.cost

(* The list of an array has only routes from which the array is.            *)
LEMMA ListedFrom ==
  ASSUME NEW n \in Nat, NEW S, NEW a \in Array(n), NoHole(a), From(a, n, S)
  PROVE  Listed(a) \subseteq S /\ Listed(a) \subseteq AnyRoute
  <1>1. \A i \in 1 .. a.size : i \in Slots(n) /\ ~Free(a, i)
    BY DEF Array, Slots, NoHole
  <1> QED BY <1>1, SlotCosts DEF From, Listed

(* An array as it is created.                                               *)
LEMMA EmptyArray ==
  ASSUME NEW n \in 0 .. 254
  PROVE  /\ RouteArrayCreate(n) \in Array(n) /\ RouteArrayCreate(n).size = 0
         /\ Holds(RouteArrayCreate(n), n, {}) /\ Exact(RouteArrayCreate(n), n, {})
         /\ Cardinality(DOMAIN RouteArrayCreate(n).slot) = n
  <1> DEFINE a == RouteArrayCreate(n)
  <1>1. n % 256 = n /\ n \in Nat
    OBVIOUS
  <1>2. a = [size |-> 0, slot |-> [i \in Slots(n) |-> NoRoute]]
    BY <1>1 DEF RouteArrayCreate, Slots
  <1> HIDE DEF a
  <1>3. a \in Array(n) /\ a.size = 0
    BY <1>2 DEF Array
  <1>4. \A i \in Slots(n) : Free(a, i)
    BY <1>2 DEF Free, NoRoute
  <1>5. Holds(a, n, {})
    BY <1>3, <1>4 DEF Holds, Sorted, NoHole, From
  <1>6. Exact(a, n, {})
    BY <1>3, <1>4 DEF Exact, Clean
  <1>7. Cardinality(DOMAIN a.slot) = n
    BY <1>1, <1>3, SlotCount
  <1> QED BY <1>3, <1>5, <1>6, <1>7 DEF a

(* A route that is offered leaves a sorted list, its first as cheap as any. *)
LEMMA HoldsAdd ==
  ASSUME NEW n \in Nat, NEW S \in SUBSET AnyRoute, NEW a, Holds(a, n, S), NEW r \in AnyRoute
  PROVE  Holds(RouteArrayAdd(a, r), n, S \cup {r})
  <1> DEFINE b == RouteArrayAdd(a, r)
  <1>1. /\ b \in Array(n) /\ Sorted(b, n) /\ NoHole(b) /\ From(b, n, S \cup {r})
        /\ FirstCosts(b, n, r.cost) /\ \A c \in Nat : FirstCosts(a, n, c) => FirstCosts(b, n, c)
    BY AddKeeps DEF Holds
  <1> HIDE DEF b
  <1>2. \A s \in S : FirstCosts(b, n, s.cost)
    BY <1>1, RouteIsUsed DEF Holds
  <1> QED BY <1>1, <1>2 DEF Holds, b

(* The routes of S and r have different values, of V, or those that have    *)
(* r's are cheaper.                                                         *)
Fits(S, r, n, V) ==
  /\ IsFiniteSet(V) /\ Cardinality(V) <= n
  /\ r.value \in V
  /\ \A s \in S : /\ s.value \in V /\ s.type = r.type
                  /\ s.value = r.value => s.cost < r.cost

(* A route of a new value, or one dearer than that in the list, leaves the  *)
(* list exact.                                                              *)
LEMMA ExactAdd ==
  ASSUME NEW n \in Nat, NEW S \in SUBSET AnyRoute, NEW a, Holds(a, n, S), Exact(a, n, S),
         NEW r \in AnyRoute, NEW V, Fits(S, r, n, V)
  PROVE  Exact(RouteArrayAdd(a, r), n, S \cup {r})
  <1>1. a \in Array(n) /\ Listed(a) \subseteq S /\ Listed(a) \subseteq AnyRoute /\ a.size \in Nat
    <2>1. a \in Array(n) /\ NoHole(a) /\ From(a, n, S)
      BY DEF Holds
    <2>2. a.size \in Nat
      BY <2>1 DEF Array
    <2> QED BY <2>1, <2>2, ListedFrom
  <1>2. CASE \E q \in 1 .. a.size : a.slot[q].value = r.value
    <2>1. PICK q \in 1 .. a.size : a.slot[q].value = r.value
      BY <1>2
    <2>2. a.slot[q] \in Listed(a) /\ a.slot[q].type = r.type /\ a.slot[q].cost < r.cost
      BY <1>1, <2>1 DEF Listed, Fits
    <2>3. SameRoute(a, r) = {q}
      BY <2>1, <2>2 DEF SameRoute, Exact
    <2>4. First({q}) = q
      BY <1>1 DEF First
    <2>5. RouteArrayAdd(a, r) = a
      BY <2>2, <2>3, <2>4 DEF RouteArrayAdd
    <2>6. a.slot[q].cost <= r.cost
      <3>1. a.slot[q].cost \in Nat /\ r.cost \in Nat
        BY <1>1, <2>2, RouteIsUsed
      <3> QED BY <2>2, <3>1
    <2> QED BY <2>1, <2>2, <2>5, <2>6 DEF Exact
  <1>3. CASE \A q \in 1 .. a.size : a.slot[q].value # r.value
    <2> DEFINE b == Insert(a, r)
               all == Listed(a) \cup {r}
    <2>1. SameRoute(a, r) = {} /\ RouteArrayAdd(a, r) = b
      BY <1>3 DEF SameRoute, RouteArrayAdd
    <2>2. Sorted(a, n) /\ NoHole(a) /\ Clean(a, n) /\ r \notin Listed(a)
      BY <1>3 DEF Holds, Exact, Listed
    <2>3. Distinct(a)
      BY DEF Exact, Distinct
    <2>4. From(a, n, Listed(a))
      <3>1. \A i \in Slots(n) : ~Free(a, i) => i \in 1 .. a.size
        BY <1>1, <2>2 DEF Clean, Slots
      <3> QED BY <3>1 DEF From, Listed
    <2>5. LeftOut(a, n, Listed(a))
      BY DEF LeftOut
    <2>6. /\ Clean(b, n) /\ Distinct(b) /\ LeftOut(b, n, all)
      BY <1>1, <2>2, <2>3, <2>4, <2>5, InsertExact
    <2>7. b \in Array(n) /\ NoHole(b) /\ From(b, n, all)
      BY <1>1, <2>2, <2>4, InsertKeeps, InsertIsArray
    <2> HIDE DEF b
    <2>8. Listed(b) \subseteq all /\ Cardinality(Listed(b)) = b.size
      BY <2>6, <2>7, ListedFrom, ListedCount
    <2>9. \A x, y \in all : x.value = y.value => x = y
      BY <1>3 DEF Exact, Listed
    <2>10. \A x \in all : x.value \in V
      BY <1>1 DEF Fits
    <2>11. Listed(b) = all
      <3>1. SUFFICES ASSUME NEW x \in all \ Listed(b) PROVE FALSE
        BY <2>8
      <3>2. b.size = n
        BY <2>6, <3>1 DEF LeftOut
      <3> DEFINE f == [y \in all |-> y.value]
      <3>3. f \in Injection(all, V)
        BY <2>9, <2>10 DEF Injection, IsInjective
      <3>4. IsFiniteSet(all) /\ Cardinality(all) <= Cardinality(V)
        <4> HIDE DEF all, f
        <4>1. IsFiniteSet(V)
          BY DEF Fits
        <4> QED BY <3>3, <4>1, FS_Injection
      <3>5. Listed(b) \subseteq all /\ Listed(b) # all
        BY <2>8, <3>1
      <3>6. Cardinality(Listed(b)) < Cardinality(all)
        <4> HIDE DEF all
        <4> QED BY <3>4, <3>5, FS_Subset, FS_CardinalityType
      <3>7. Cardinality(all) \in Nat /\ Cardinality(V) \in Nat /\ Cardinality(V) <= n
        <4> HIDE DEF all
        <4> QED BY <3>4, FS_CardinalityType DEF Fits
      <3> HIDE DEF all
      <3> QED BY <2>8, <3>2, <3>4, <3>6, <3>7
    <2>12. \A i, j \in 1 .. b.size : b.slot[i].value = b.slot[j].value => i = j
      <3> HIDE DEF all
      <3>1. ASSUME NEW i \in 1 .. b.size, NEW j \in 1 .. b.size,
                   b.slot[i].value = b.slot[j].value
            PROVE  i = j
        <4>1. b.slot[i] \in all /\ b.slot[j] \in all
          BY <2>11 DEF Listed
        <4>2. b.slot[i] = b.slot[j]
          BY <2>9, <3>1, <4>1
        <4> QED BY <2>6, <4>2 DEF Distinct
      <3> QED BY <3>1
    <2>13. \A s \in S \cup {r} : \E l \in Listed(b) : l.value = s.value /\ l.cost <= s.cost
      <3>1. \A s \in S : \E l \in Listed(a) : l.value = s.value /\ l.cost <= s.cost
        BY DEF Exact
      <3>2. r \in Listed(b) /\ r.cost <= r.cost
        BY <2>11, RouteIsUsed
      <3> QED BY <2>11, <3>1, <3>2
    <2> QED BY <2>1, <2>6, <2>12, <2>13 DEF Exact
  <1> QED BY <1>2, <1>3

(* Sorted arrays without holes, of n slots.                                 *)
Tidy(n) == {a \in Array(n) : Sorted(a, n) /\ NoHole(a)}

(* An array stays sorted and without holes, whatever it is offered.         *)
LEMMA TidyAdd ==
  ASSUME NEW n \in Nat, NEW a \in Tidy(n), NEW r \in AnyRoute
  PROVE  RouteArrayAdd(a, r) \in Tidy(n)
  <1>1. From(a, n, AnyRoute)
    BY SlotCosts DEF From, Tidy
  <1> QED BY <1>1, AddKeeps DEF Tidy

(* A list of the routes of S is sorted and has no hole.                     *)
LEMMA HoldsIsTidy ==
  ASSUME NEW n \in Nat, NEW S, NEW a, Holds(a, n, S)
  PROVE  a \in Tidy(n)
  BY DEF Holds, Tidy

(* The routes of the list of a node, as a sequence.                         *)
LEMMA ListOfNode ==
  ASSUME NEW n \in Nat, NEW a \in Tidy(n)
  PROVE  /\ SubSeq(a.slot, 1, a.size) \in Seq(AnyRoute)
         /\ Len(SubSeq(a.slot, 1, a.size)) = a.size /\ a.size \in Nat
         /\ \A i \in 1 .. a.size :
              SubSeq(a.slot, 1, a.size)[i] = a.slot[i] /\ a.slot[i] \in AnyRoute
  <1>1. a.size \in 0 .. n /\ a.slot \in [1 .. n -> AnyRoute \cup {NoRoute}]
    BY DEF Tidy, Array, Slots
  <1>2. \A i \in 1 .. a.size : i \in Slots(n) /\ a.slot[i] \in AnyRoute
    <2>1. \A i \in 1 .. a.size : i \in Slots(n) /\ ~Free(a, i)
      BY <1>1 DEF Tidy, NoHole, Slots
    <2> QED BY <2>1, SlotCosts DEF Tidy
  <1> DEFINE s == [i \in 1 .. a.size |-> a.slot[i]]
  <1>3. SubSeq(a.slot, 1, a.size) = s
    BY <1>1
  <1>4. s \in Seq(AnyRoute) /\ Len(s) = a.size
    BY <1>1, <1>2
  <1> QED BY <1>1, <1>2, <1>3, <1>4

(* The first of a sorted list is as cheap as any route from which it is.    *)
LEMMA MergeHolds ==
  ASSUME NEW n \in Nat, NEW S \in SUBSET AnyRoute, NEW a, Holds(a, n, S),
         NEW m \in Nat, NEW N \in SUBSET AnyRoute, NEW b, Holds(b, m, N), m > 0 \/ N = {}
  PROVE  Holds(AddListed(a, b), n, S \cup N)
  <1> DEFINE seq == SubSeq(b.slot, 1, b.size)
             upTo(k) == S \cup {seq[i] : i \in 1 .. k}
  <1>1. /\ seq \in Seq(AnyRoute) /\ Len(seq) = b.size /\ b.size \in Nat
        /\ \A i \in 1 .. b.size : seq[i] = b.slot[i] /\ seq[i] \in AnyRoute
    BY HoldsIsTidy, ListOfNode
  <1> HIDE DEF seq
  <1>2. PICK h : Offers(h, Tidy(n), a, seq)
    <2>1. a \in Tidy(n) /\ \A x \in Tidy(n), r \in AnyRoute : RouteArrayAdd(x, r) \in Tidy(n)
      BY HoldsIsTidy, TidyAdd
    <2> QED BY <1>1, <2>1, OfferSteps
  <1> DEFINE T == {k \in 0 .. b.size : Holds(h[k], n, upTo(k))}
  <1>3. 0 \in T
    <2>1. upTo(0) = S
      OBVIOUS
    <2>2. Holds(h[0], n, S)
      BY <1>2 DEF Offers
    <2> HIDE DEF upTo
    <2> QED BY <1>1, <2>1, <2>2
  <1>4. ASSUME NEW k \in 1 .. b.size, k - 1 \in T PROVE k \in T
    <2>1. upTo(k) = upTo(k - 1) \cup {seq[k]}
      <3>1. 1 .. k = (1 .. k - 1) \cup {k}
        OBVIOUS
      <3> QED BY <3>1
    <2>2. upTo(k - 1) \in SUBSET AnyRoute
      BY <1>1
    <2>3. h[k] = RouteArrayAdd(h[k - 1], seq[k]) /\ seq[k] \in AnyRoute
      BY <1>1, <1>2 DEF Offers
    <2>4. Holds(h[k - 1], n, upTo(k - 1))
      BY <1>4
    <2> HIDE DEF upTo
    <2>5. Holds(h[k], n, upTo(k - 1) \cup {seq[k]})
      BY <2>2, <2>3, <2>4, HoldsAdd
    <2>6. k \in 0 .. b.size /\ Holds(h[k], n, upTo(k))
      BY <1>1, <2>1, <2>5
    <2> QED BY <2>6
  <1>5. \A k \in 0 .. b.size : k \in T
    <2> HIDE DEF T
    <2> QED BY <1>1, <1>3, <1>4, UpToN
  <1> DEFINE c == h[b.size]
  <1>6. Holds(c, n, upTo(b.size)) /\ c = AddListed(a, b)
    <2>1. b.size \in 0 .. b.size
      BY <1>1
    <2>2. c = AddListed(a, b)
      BY <1>1, <1>2 DEF AddListed, OfferAll, Offers, seq
    <2> QED BY <1>5, <2>1, <2>2
  <1>7. upTo(b.size) \subseteq S \cup N
    <2>1. b \in Array(m) /\ NoHole(b) /\ From(b, m, N)
      BY DEF Holds
    <2>2. Listed(b) \subseteq N
      BY <2>1, ListedFrom
    <2> QED BY <1>1, <2>2 DEF Listed
  <1>8. ASSUME NEW r \in N PROVE FirstCosts(c, n, r.cost)
    <2>1. b.size > 0 /\ b.slot[1].cost <= r.cost
      BY DEF Holds, FirstCosts
    <2>2. 1 \in 1 .. b.size /\ seq[1] = b.slot[1] /\ seq[1] \in AnyRoute
      BY <1>1, <2>1
    <2>3. FirstCosts(c, n, seq[1].cost)
      BY <1>6, <2>2 DEF Holds
    <2>4. n > 0 => c.slot[1].cost \in Nat
      <3>1. c \in Array(n) /\ (n > 0 => 1 \in Slots(n))
        BY <1>6 DEF Holds, Slots
      <3> QED BY <3>1, SlotCosts
    <2>5. r.cost \in Nat /\ seq[1].cost \in Nat
      BY <2>2, RouteIsUsed
    <2> QED BY <2>1, <2>2, <2>3, <2>4, <2>5 DEF FirstCosts
  <1>9. \A r \in S : FirstCosts(c, n, r.cost)
    BY <1>6 DEF Holds
  <1>10. From(c, n, S \cup N)
    BY <1>6, <1>7 DEF Holds, From
  <1> HIDE DEF upTo, c
  <1> QED BY <1>6, <1>8, <1>9, <1>10 DEF Holds

(* The routes of S and N are of one type and their values of V, and where a *)
(* value comes in both that of S is cheaper.                                *)
FitsAll(S, N, n, V, type) ==
  /\ IsFiniteSet(V) /\ Cardinality(V) <= n
  /\ \A r \in S \cup N : r.value \in V /\ r.type = type
  /\ \A s \in S, r \in N : s.value = r.value => s.cost < r.cost

(* If no route of the node is as cheap as one of its value that was there,  *)
(* the list stays exact.                                                    *)
LEMMA MergeExact ==
  ASSUME NEW n \in Nat, NEW S \in SUBSET AnyRoute, NEW a, Holds(a, n, S), Exact(a, n, S),
         NEW m \in Nat, NEW N \in SUBSET AnyRoute, NEW b, Holds(b, m, N), Exact(b, m, N),
         NEW V, NEW type, FitsAll(S, N, n, V, type)
  PROVE  Exact(AddListed(a, b), n, S \cup N)
  <1> DEFINE seq == SubSeq(b.slot, 1, b.size)
             upTo(k) == S \cup {seq[i] : i \in 1 .. k}
  <1>1. /\ seq \in Seq(AnyRoute) /\ Len(seq) = b.size /\ b.size \in Nat
        /\ \A i \in 1 .. b.size : seq[i] = b.slot[i] /\ seq[i] \in AnyRoute
    BY HoldsIsTidy, ListOfNode
  <1> HIDE DEF seq
  <1>2. PICK h : Offers(h, Tidy(n), a, seq)
    <2>1. a \in Tidy(n) /\ \A x \in Tidy(n), r \in AnyRoute : RouteArrayAdd(x, r) \in Tidy(n)
      BY HoldsIsTidy, TidyAdd
    <2> QED BY <1>1, <2>1, OfferSteps
  <1>3. \A i \in 1 .. b.size : seq[i] \in N
    <2>1. b \in Array(m) /\ NoHole(b) /\ From(b, m, N)
      BY DEF Holds
    <2>2. Listed(b) \subseteq N
      BY <2>1, ListedFrom
    <2> QED BY <1>1, <2>2 DEF Listed
  <1> DEFINE T == {k \in 0 .. b.size : Holds(h[k], n, upTo(k)) /\ Exact(h[k], n, upTo(k))}
  <1>4. 0 \in T
    <2>1. upTo(0) = S
      OBVIOUS
    <2>2. Holds(h[0], n, S) /\ Exact(h[0], n, S)
      BY <1>2 DEF Offers
    <2> HIDE DEF upTo
    <2> QED BY <1>1, <2>1, <2>2
  <1>5. ASSUME NEW k \in 1 .. b.size, k - 1 \in T PROVE k \in T
    <2>1. upTo(k) = upTo(k - 1) \cup {seq[k]}
      <3>1. 1 .. k = (1 .. k - 1) \cup {k}
        OBVIOUS
      <3> QED BY <3>1
    <2>2. upTo(k - 1) \in SUBSET AnyRoute
      BY <1>1
    <2>3. h[k] = RouteArrayAdd(h[k - 1], seq[k]) /\ seq[k] \in AnyRoute
      BY <1>1, <1>2 DEF Offers
    <2>4. Holds(h[k - 1], n, upTo(k - 1)) /\ Exact(h[k - 1], n, upTo(k - 1))
      BY <1>5
    <2>5. Fits(upTo(k - 1), seq[k], n, V)
      <3>1. IsFiniteSet(V) /\ Cardinality(V) <= n /\ seq[k].value \in V /\ seq[k].type = type
        BY <1>3 DEF FitsAll
      <3>2. ASSUME NEW s \in S
            PROVE  /\ s.value \in V /\ s.type = type
                   /\ s.value = seq[k].value => s.cost < seq[k].cost
        BY <1>3 DEF FitsAll
      <3>3. ASSUME NEW i \in 1 .. k - 1
            PROVE  seq[i].value \in V /\ seq[i].type = type /\ seq[i].value # seq[k].value
        <4>1. i \in 1 .. b.size /\ i # k
          BY <1>1
        <4>2. seq[i].value = b.slot[i].value /\ seq[k].value = b.slot[k].value
          BY <1>1, <4>1
        <4>3. seq[i].value # seq[k].value
          BY <4>1, <4>2 DEF Exact
        <4> QED BY <1>3, <4>1, <4>3 DEF FitsAll
      <3> QED BY <3>1, <3>2, <3>3 DEF Fits
    <2> HIDE DEF upTo
    <2>6. /\ Holds(h[k], n, upTo(k - 1) \cup {seq[k]})
          /\ Exact(h[k], n, upTo(k - 1) \cup {seq[k]})
      BY <2>2, <2>3, <2>4, <2>5, HoldsAdd, ExactAdd
    <2>7. k \in 0 .. b.size /\ Holds(h[k], n, upTo(k)) /\ Exact(h[k], n, upTo(k))
      BY <1>1, <2>1, <2>6
    <2> QED BY <2>7
  <1>6. \A k \in 0 .. b.size : k \in T
    <2> HIDE DEF T
    <2> QED BY <1>1, <1>4, <1>5, UpToN
  <1> DEFINE c == h[b.size]
  <1>7. /\ Holds(c, n, upTo(b.size)) /\ Exact(c, n, upTo(b.size))
        /\ c = AddListed(a, b)
    <2>1. b.size \in 0 .. b.size
      BY <1>1
    <2>2. c = AddListed(a, b)
      BY <1>1, <1>2 DEF AddListed, OfferAll, Offers, seq
    <2> QED BY <1>6, <2>1, <2>2
  <1>8. \A l \in Listed(c) : l \in AnyRoute
    <2>1. c \in Array(n) /\ NoHole(c) /\ From(c, n, upTo(b.size))
      BY <1>7 DEF Holds
    <2> HIDE DEF upTo, c
    <2> QED BY <2>1, ListedFrom
  <1>9. ASSUME NEW r \in N PROVE \E l \in Listed(c) : l.value = r.value /\ l.cost <= r.cost
    <2>1. PICK x \in Listed(b) : x.value = r.value /\ x.cost <= r.cost
      BY DEF Exact
    <2>2. x \in upTo(b.size) /\ x \in AnyRoute
      BY <1>1, <2>1 DEF Listed
    <2>3. PICK l \in Listed(c) : l.value = x.value /\ l.cost <= x.cost
      BY <1>7, <2>2 DEF Exact
    <2>4. l.cost \in Nat /\ x.cost \in Nat /\ r.cost \in Nat
      BY <1>8, <2>2, RouteIsUsed
    <2>5. l.cost <= r.cost
      BY <2>1, <2>3, <2>4
    <2> QED BY <2>1, <2>3, <2>5
  <1>10. \A r \in S : \E l \in Listed(c) : l.value = r.value /\ l.cost <= r.cost
    BY <1>7 DEF Exact
  <1>11. Clean(c, n) /\ \A i, j \in 1 .. c.size : c.slot[i].value = c.slot[j].value => i = j
    BY <1>7 DEF Exact
  <1> HIDE DEF c
  <1> QED BY <1>7, <1>9, <1>10, <1>11 DEF Exact

-----------------------------------------------------------------------------
(* Tries                                                                    *)

(* N gives each node the routes its array is made of.                       *)
TrieOf(t, C, m, N) ==
  /\ DOMAIN t \subseteq Seq(C) /\ << >> \in DOMAIN t
  /\ \A d \in DOMAIN t : \A k \in 0 .. Len(d) : SubSeq(d, 1, k) \in DOMAIN t
  /\ \A d \in DOMAIN t : /\ N[d] \subseteq AnyRoute /\ Holds(t[d], m, N[d])
                         /\ m > 0 \/ N[d] = {}

(* A prefix of a prefix is a prefix.                                        *)
LEMMA PrefixOfPrefix ==
  ASSUME NEW C, NEW s \in Seq(C), NEW j \in 0 .. Len(s), NEW k \in 0 .. j
  PROVE  /\ SubSeq(s, 1, j) \in Seq(C) /\ Len(SubSeq(s, 1, j)) = j
         /\ \A i \in 1 .. j : SubSeq(s, 1, j)[i] = s[i]
         /\ SubSeq(SubSeq(s, 1, j), 1, k) = SubSeq(s, 1, k)
         /\ SubSeq(s, 1, 0) = << >> /\ SubSeq(s, 1, Len(s)) = s
  <1>1. s = [i \in 1 .. Len(s) |-> s[i]] /\ Len(s) \in Nat /\ \A i \in 1 .. Len(s) : s[i] \in C
    OBVIOUS
  <1> DEFINE p == [i \in 1 .. j |-> s[i]]
             q == [i \in 1 .. k |-> s[i]]
  <1>2. SubSeq(s, 1, j) = p /\ p \in Seq(C) /\ Len(p) = j
    BY <1>1
  <1>3. SubSeq(p, 1, k) = q
    <2>1. SubSeq(p, 1, k) = [i \in 1 .. k |-> p[i]]
      BY <1>2
    <2>2. \A i \in 1 .. k : p[i] = s[i]
      OBVIOUS
    <2> QED BY <2>1, <2>2
  <1>4. SubSeq(s, 1, k) = q
    BY <1>1
  <1>5. SubSeq(s, 1, 0) = << >> /\ SubSeq(s, 1, Len(s)) = s
    BY <1>1
  <1> QED BY <1>1, <1>2, <1>3, <1>4, <1>5

(* A search goes as deep as the trie has prefixes of the number.            *)
LEMMA DepthOfWay ==
  ASSUME NEW C, NEW m, NEW N, NEW t, TrieOf(t, C, m, N), NEW number \in Seq(C)
  PROVE  /\ Depth(t, number) \in 0 .. Len(number)
         /\ \A k \in 0 .. Len(number) :
              SubSeq(number, 1, k) \in DOMAIN t <=> k <= Depth(t, number)
  <1> DEFINE n == Len(number)
             On(k) == SubSeq(number, 1, k) \in DOMAIN t
             Off == {k \in 0 .. n : ~On(k)}
  <1>1. n \in Nat /\ On(0)
    <2>1. n \in Nat /\ 0 \in 0 .. Len(number) /\ 0 \in 0 .. 0
      OBVIOUS
    <2>2. SubSeq(number, 1, 0) = << >>
      BY <2>1, PrefixOfPrefix
    <2> QED BY <2>1, <2>2 DEF TrieOf
  <1>2. \A j \in 0 .. n : \A k \in 0 .. j : On(j) => On(k)
    <2>1. SUFFICES ASSUME NEW j \in 0 .. n, NEW k \in 0 .. j, On(j) PROVE On(k)
      OBVIOUS
    <2>2. /\ k \in 0 .. Len(SubSeq(number, 1, j))
          /\ SubSeq(SubSeq(number, 1, j), 1, k) = SubSeq(number, 1, k)
      BY <1>1, PrefixOfPrefix
    <2> QED BY <2>1, <2>2 DEF TrieOf
  <1> HIDE DEF On
  <1>3. \E d \in 0 .. n : On(d) /\ (d = n \/ ~On(d + 1))
    <2>1. CASE Off = {}
      <3>1. n \in 0 .. n /\ On(n)
        BY <1>1, <2>1
      <3> QED BY <3>1
    <2>2. CASE Off # {}
      <3>1. Off \in SUBSET Nat
        OBVIOUS
      <3>2. PICK k \in Off : \A j \in Off : k <= j
        <4> HIDE DEF Off
        <4> QED BY <2>2, <3>1, LeastExists
      <3>3. k \in 0 .. n /\ ~On(k) /\ k # 0
        BY <1>1, <3>2
      <3>4. k - 1 \in 0 .. n /\ ~(k <= k - 1) /\ k - 1 + 1 = k
        BY <1>1, <3>3
      <3>5. On(k - 1)
        <4> HIDE DEF n
        <4> QED BY <3>2, <3>4
      <3>6. ~On(k - 1 + 1)
        BY <3>3, <3>4
      <3> HIDE DEF Off
      <3> QED BY <3>4, <3>5, <3>6
    <2> QED BY <2>1, <2>2
  <1> DEFINE D == Depth(t, number)
  <1>4. D \in 0 .. n /\ On(D) /\ (D = n \/ ~On(D + 1))
    <2>1. D = CHOOSE k \in 0 .. n : On(k) /\ (k = n \/ ~On(k + 1))
      BY DEF Depth, On
    <2> HIDE DEF D
    <2> QED BY <1>3, <2>1
  <1> HIDE DEF D
  <1>5. ASSUME NEW k \in 0 .. n PROVE On(k) <=> k <= D
    <2>1. k <= D => On(k)
      BY <1>1, <1>2, <1>4
    <2>2. ASSUME On(k), ~(k <= D) PROVE FALSE
      <3>1. D + 1 \in 0 .. k /\ D # n
        BY <1>1, <1>4, <2>2
      <3>2. On(D + 1)
        BY <1>2, <2>2, <3>1
      <3> QED BY <1>4, <3>1, <3>2
    <2> QED BY <2>1, <2>2
  <1> QED BY <1>4, <1>5 DEF D, On

(* The routes of the nodes that a search has passed.                        *)
Passed(t, N, number, n) ==
  {r \in AnyRoute : \E k \in 1 .. n : r \in N[SubSeq(number, 1, k - 1)]}

(* The routes of the nodes on the way to the number.                        *)
RoutesOnWay(t, N, number) == Passed(t, N, number, Depth(t, number) + 1)

(* The nodes a search passes are those of the prefixes of the number.       *)
LEMMA NodeOnWay ==
  ASSUME NEW C, NEW m, NEW N, NEW t, TrieOf(t, C, m, N), NEW number \in Seq(C)
  PROVE  /\ Depth(t, number) + 1 \in Nat
         /\ Len(NodesOnWay(t, number)) = Depth(t, number) + 1
         /\ NodesOnWay(t, number) \in Seq(Tidy(m))
         /\ \A k \in 1 .. Depth(t, number) + 1 :
              LET d == SubSeq(number, 1, k - 1) IN
              /\ d \in DOMAIN t /\ NodesOnWay(t, number)[k] = t[d]
              /\ N[d] \subseteq AnyRoute /\ Holds(t[d], m, N[d]) /\ (m > 0 \/ N[d] = {})
  <1> DEFINE n == Depth(t, number)
             s == NodesOnWay(t, number)
             way(k) == SubSeq(number, 1, k - 1)
  <1>1. n \in 0 .. Len(number) /\ n \in Nat /\ Len(number) \in Nat
    BY DepthOfWay
  <1>2. s = [k \in 1 .. n + 1 |-> t[way(k)]]
    BY DEF NodesOnWay
  <1> HIDE DEF s
  <1>3. \A k \in 1 .. n + 1 : way(k) \in DOMAIN t
    <2>1. \A k \in 0 .. Len(number) : SubSeq(number, 1, k) \in DOMAIN t <=> k <= n
      BY DepthOfWay
    <2>2. \A k \in 1 .. n + 1 : k - 1 \in 0 .. Len(number) /\ k - 1 <= n
      BY <1>1
    <2> HIDE DEF n
    <2> QED BY <2>1, <2>2
  <1> HIDE DEF n, way
  <1>4. ASSUME NEW k \in 1 .. n + 1
        PROVE  /\ N[way(k)] \subseteq AnyRoute /\ Holds(t[way(k)], m, N[way(k)])
               /\ (m > 0 \/ N[way(k)] = {})
    BY <1>3 DEF TrieOf
  <1>5. \A k \in 1 .. n + 1 : t[way(k)] \in Tidy(m)
    BY <1>4 DEF Holds, Tidy
  <1>6. s \in Seq(Tidy(m)) /\ Len(s) = n + 1
    BY <1>1, <1>2, <1>5
  <1>7. \A k \in 1 .. n + 1 : s[k] = t[way(k)]
    BY <1>2
  <1> QED BY <1>1, <1>3, <1>4, <1>6, <1>7 DEF n, s, way

(* An array stays sorted and without holes, whatever list it is offered.    *)
LEMMA AddListedIsTidy ==
  ASSUME NEW n \in Nat, NEW m \in Nat, NEW a \in Tidy(n), NEW b \in Tidy(m)
  PROVE  AddListed(a, b) \in Tidy(n)
  <1> DEFINE seq == SubSeq(b.slot, 1, b.size)
  <1>1. seq \in Seq(AnyRoute)
    BY ListOfNode
  <1> HIDE DEF seq
  <1>2. PICK h : Offers(h, Tidy(n), a, seq)
    <2>1. \A y \in Tidy(n), r \in AnyRoute : RouteArrayAdd(y, r) \in Tidy(n)
      BY TidyAdd
    <2> QED BY <1>1, <2>1, OfferSteps
  <1>3. Len(seq) \in 0 .. Len(seq)
    BY <1>1
  <1> QED BY <1>2, <1>3 DEF Offers, OfferAll, AddListed, seq

(* A search offers the nodes on the way one after the other.                *)
LEMMA WaySteps ==
  ASSUME NEW C, NEW m \in Nat, NEW N, NEW t, TrieOf(t, C, m, N), NEW number \in Seq(C),
         NEW x \in Nat, NEW a \in Tidy(x)
  PROVE  \E h : /\ h[0] = a
                /\ \A k \in 1 .. Depth(t, number) + 1 :
                     h[k] = AddListed(h[k - 1], t[SubSeq(number, 1, k - 1)])
                /\ RouteTrieFind(t, number, a) = h[Depth(t, number) + 1]
  <1> DEFINE s == NodesOnWay(t, number)
  <1>1. s \in Seq(Tidy(m)) /\ Len(s) = Depth(t, number) + 1
    BY NodeOnWay
  <1>2. \A y \in Tidy(x), b \in Tidy(m) : AddListed(y, b) \in Tidy(x)
    BY AddListedIsTidy
  <1>3. PICK h : Merges(h, Tidy(x), a, s)
    <2> HIDE DEF s
    <2> QED BY <1>1, <1>2, MergeSteps
  <1>4. RouteTrieFind(t, number, a) = MergeAll(a, s)
    BY DEF RouteTrieFind, MergeAll
  <1>5. \A k \in 1 .. Depth(t, number) + 1 : s[k] = t[SubSeq(number, 1, k - 1)]
    BY NodeOnWay
  <1> HIDE DEF s
  <1> QED BY <1>1, <1>3, <1>4, <1>5 DEF Merges

(* The routes of the first k nodes are those of k - 1 and of the k-th.      *)
LEMMA PassedNext ==
  ASSUME NEW t, NEW N, NEW number, NEW k \in Nat \ {0},
         N[SubSeq(number, 1, k - 1)] \subseteq AnyRoute
  PROVE  Passed(t, N, number, k) =
           Passed(t, N, number, k - 1) \cup N[SubSeq(number, 1, k - 1)]
  <1>1. 1 .. k = (1 .. k - 1) \cup {k}
    OBVIOUS
  <1> QED BY <1>1 DEF Passed

(* RouteTrieFind: what it returns is sorted, made of the routes on the way, *)
(* and its first as cheap as any of them.                                   *)
LEMMA FindHolds ==
  ASSUME NEW C, NEW m \in Nat, NEW N, NEW t, TrieOf(t, C, m, N), NEW number \in Seq(C),
         NEW x \in Nat, NEW a, Holds(a, x, {})
  PROVE  Holds(RouteTrieFind(t, number, a), x, RoutesOnWay(t, N, number))
  <1> DEFINE n == Depth(t, number) + 1
             way(k) == SubSeq(number, 1, k - 1)
             upTo(k) == Passed(t, N, number, k)
  <1>1. /\ n \in Nat
        /\ \A k \in 1 .. n : /\ N[way(k)] \subseteq AnyRoute /\ Holds(t[way(k)], m, N[way(k)])
                             /\ (m > 0 \/ N[way(k)] = {})
    BY NodeOnWay
  <1>2. PICK h : /\ h[0] = a /\ \A k \in 1 .. n : h[k] = AddListed(h[k - 1], t[way(k)])
                 /\ RouteTrieFind(t, number, a) = h[n]
    <2>1. a \in Tidy(x)
      BY HoldsIsTidy
    <2> QED BY <2>1, WaySteps
  <1> HIDE DEF n
  <1> DEFINE T == {k \in 0 .. n : Holds(h[k], x, upTo(k))}
  <1>3. 0 \in T
    <2>1. upTo(0) = {}
      BY DEF Passed
    <2>2. Holds(h[0], x, {}) /\ 0 \in 0 .. n
      BY <1>1, <1>2
    <2> HIDE DEF upTo
    <2> QED BY <2>1, <2>2
  <1>4. ASSUME NEW k \in 1 .. n, k - 1 \in T PROVE k \in T
    <2>1. upTo(k) = upTo(k - 1) \cup N[way(k)]
      <3>1. N[SubSeq(number, 1, k - 1)] \subseteq AnyRoute
        BY <1>1
      <3>2. Passed(t, N, number, k) =
              Passed(t, N, number, k - 1) \cup N[SubSeq(number, 1, k - 1)]
        <4>1. k \in Nat \ {0}
          BY <1>1
        <4> QED BY <3>1, <4>1, PassedNext
      <3> QED BY <3>2
    <2>2. upTo(k - 1) \in SUBSET AnyRoute
      BY DEF Passed
    <2>3. h[k] = AddListed(h[k - 1], t[way(k)]) /\ Holds(h[k - 1], x, upTo(k - 1))
      BY <1>2, <1>4
    <2> HIDE DEF upTo, way
    <2>4. Holds(h[k], x, upTo(k))
      BY <1>1, <2>1, <2>2, <2>3, MergeHolds
    <2> QED BY <2>4
  <1>5. n \in T
    <2> HIDE DEF T
    <2>1. n \in 0 .. n
      BY <1>1
    <2>2. \A k \in 0 .. n : k \in T
      BY <1>1, <1>3, <1>4, UpToN
    <2> QED BY <2>1, <2>2
  <1> QED BY <1>2, <1>5 DEF RoutesOnWay, n

(* On the way to the number every list is exact, its routes are of one type *)
(* and of values of V, and where a value comes again it costs more.         *)
CheaperFirst(t, m, N, number, V, type) ==
  LET way(k) == SubSeq(number, 1, k - 1) IN
  /\ \A k \in 1 .. Depth(t, number) + 1 :
       /\ Exact(t[way(k)], m, N[way(k)])
       /\ \A r \in N[way(k)] : r.value \in V /\ r.type = type
  /\ \A j, k \in 1 .. Depth(t, number) + 1 : j < k =>
       \A s \in N[way(j)], r \in N[way(k)] : s.value = r.value => s.cost < r.cost

(* Where a value that comes again costs more, RouteTrieFind returns each    *)
(* value once, at its least cost.                                           *)
LEMMA FindExact ==
  ASSUME NEW C, NEW m \in Nat, NEW N, NEW t, TrieOf(t, C, m, N), NEW number \in Seq(C),
         NEW x \in Nat, NEW a, Holds(a, x, {}), Exact(a, x, {}),
         NEW V, IsFiniteSet(V), Cardinality(V) <= x,
         NEW type, CheaperFirst(t, m, N, number, V, type)
  PROVE  Exact(RouteTrieFind(t, number, a), x, RoutesOnWay(t, N, number))
  <1> DEFINE n == Depth(t, number) + 1
             way(k) == SubSeq(number, 1, k - 1)
             upTo(k) == Passed(t, N, number, k)
  <1>1. /\ n \in Nat
        /\ \A k \in 1 .. n : /\ N[way(k)] \subseteq AnyRoute /\ Holds(t[way(k)], m, N[way(k)])
                             /\ (m > 0 \/ N[way(k)] = {})
    BY NodeOnWay
  <1>2. PICK h : /\ h[0] = a /\ \A k \in 1 .. n : h[k] = AddListed(h[k - 1], t[way(k)])
                 /\ RouteTrieFind(t, number, a) = h[n]
    <2>1. a \in Tidy(x)
      BY HoldsIsTidy
    <2> QED BY <2>1, WaySteps
  <1>3. /\ \A k \in 1 .. n : /\ Exact(t[way(k)], m, N[way(k)])
                             /\ \A r \in N[way(k)] : r.value \in V /\ r.type = type
        /\ \A j, k \in 1 .. n : j < k =>
             \A s \in N[way(j)], r \in N[way(k)] : s.value = r.value => s.cost < r.cost
    BY DEF CheaperFirst
  <1> HIDE DEF n
  <1> DEFINE T == {k \in 0 .. n : Holds(h[k], x, upTo(k)) /\ Exact(h[k], x, upTo(k))}
  <1>4. 0 \in T
    <2>1. upTo(0) = {}
      BY DEF Passed
    <2>2. Holds(h[0], x, {}) /\ Exact(h[0], x, {}) /\ 0 \in 0 .. n
      BY <1>1, <1>2
    <2> HIDE DEF upTo
    <2> QED BY <2>1, <2>2
  <1>5. ASSUME NEW k \in 1 .. n, k - 1 \in T PROVE k \in T
    <2>1. upTo(k) = upTo(k - 1) \cup N[way(k)]
      <3>1. N[SubSeq(number, 1, k - 1)] \subseteq AnyRoute
        BY <1>1
      <3>2. Passed(t, N, number, k) =
              Passed(t, N, number, k - 1) \cup N[SubSeq(number, 1, k - 1)]
        <4>1. k \in Nat \ {0}
          BY <1>1
        <4> QED BY <3>1, <4>1, PassedNext
      <3> QED BY <3>2
    <2>2. upTo(k - 1) \in SUBSET AnyRoute
      BY DEF Passed
    <2>3. /\ h[k] = AddListed(h[k - 1], t[way(k)])
          /\ Holds(h[k - 1], x, upTo(k - 1)) /\ Exact(h[k - 1], x, upTo(k - 1))
      BY <1>2, <1>5
    <2>4. FitsAll(upTo(k - 1), N[way(k)], x, V, type)
      <3>1. ASSUME NEW s \in upTo(k - 1)
            PROVE  /\ s.value \in V /\ s.type = type
                   /\ \A r \in N[way(k)] : s.value = r.value => s.cost < r.cost
        <4>1. PICK j \in 1 .. k - 1 : s \in N[way(j)]
          BY DEF Passed
        <4>2. j \in 1 .. n /\ j < k
          BY <1>1, <4>1
        <4> HIDE DEF way
        <4> QED BY <1>3, <4>1, <4>2
      <3> QED BY <1>3, <3>1 DEF FitsAll
    <2> HIDE DEF upTo, way
    <2>5. Holds(h[k], x, upTo(k)) /\ Exact(h[k], x, upTo(k))
      BY <1>1, <1>3, <2>1, <2>2, <2>3, <2>4, MergeHolds, MergeExact
    <2> QED BY <2>5
  <1>6. n \in T
    <2> HIDE DEF T
    <2>1. n \in 0 .. n
      BY <1>1
    <2>2. \A k \in 0 .. n : k \in T
      BY <1>1, <1>4, <1>5, UpToN
    <2> QED BY <2>1, <2>2
  <1> QED BY <1>2, <1>6 DEF RoutesOnWay, n

(* N is the routes of every digit string, those without a node included.    *)
Whole(t, C, m, N) ==
  /\ N \in [Seq(C) -> SUBSET AnyRoute] /\ TrieOf(t, C, m, N)
  /\ \A d \in Seq(C) \ DOMAIN t : N[d] = {}

(* If the trie has the node its list is exact.                              *)
ExactAt(t, m, N, d) == d \in DOMAIN t => Exact(t[d], m, N[d])

(* The tries of sorted arrays of m slots.                                   *)
Tries(C, m) ==
  {t \in UNION {[D -> Tidy(m)] : D \in SUBSET Seq(C)} : << >> \in DOMAIN t}

(* A trie node by node.                                                     *)
LEMMA TrieIsTidy ==
  ASSUME NEW C, NEW m, NEW t
  PROVE  t \in Tries(C, m) <=> /\ t = [d \in DOMAIN t |-> t[d]] /\ DOMAIN t \subseteq Seq(C)
                              /\ << >> \in DOMAIN t /\ \A d \in DOMAIN t : t[d] \in Tidy(m)
  <1>1. ASSUME t \in Tries(C, m)
        PROVE  /\ t = [d \in DOMAIN t |-> t[d]] /\ DOMAIN t \subseteq Seq(C)
               /\ << >> \in DOMAIN t /\ \A d \in DOMAIN t : t[d] \in Tidy(m)
    <2>1. PICK D \in SUBSET Seq(C) : t \in [D -> Tidy(m)]
      BY <1>1 DEF Tries
    <2>2. << >> \in DOMAIN t
      BY <1>1 DEF Tries
    <2> QED BY <2>1, <2>2
  <1>2. ASSUME t = [d \in DOMAIN t |-> t[d]], DOMAIN t \subseteq Seq(C),
               << >> \in DOMAIN t, \A d \in DOMAIN t : t[d] \in Tidy(m)
        PROVE  t \in Tries(C, m)
    <2>1. t \in [DOMAIN t -> Tidy(m)]
      BY <1>2
    <2> QED BY <1>2, <2>1 DEF Tries
  <1> QED BY <1>1, <1>2

(* The root tells how large the arrays of the other nodes are.              *)
LEMMA RootSize ==
  ASSUME NEW C, NEW m \in Nat, NEW t \in Tries(C, m)
  PROVE  MaxRoutes(t) = m
  <1>1. t[<< >>] \in Array(m)
    BY TrieIsTidy DEF Tidy
  <1> QED BY <1>1, SlotCount DEF MaxRoutes

(* Digits lead to a node for every prefix.                                  *)
LEMMA GoodPrefixesInSeq ==
  ASSUME NEW C, NEW s \in Seq(C)
  PROVE  /\ GoodPrefixes(s) \subseteq Seq(C)
         /\ (\A i \in 1 .. Len(s) : s[i] \in Digits) =>
              GoodPrefixes(s) = {SubSeq(s, 1, k) : k \in 0 .. Len(s)}
  <1>1. Len(s) \in Nat
    OBVIOUS
  <1>2. \A k \in 0 .. Len(s) : SubSeq(s, 1, k) \in Seq(C)
    <2>1. \A k \in 0 .. Len(s) : 0 \in 0 .. k
      OBVIOUS
    <2> QED BY <2>1, PrefixOfPrefix
  <1>3. GoodPrefixes(s) \subseteq Seq(C)
    BY <1>2 DEF GoodPrefixes
  <1>4. ASSUME \A i \in 1 .. Len(s) : s[i] \in Digits
        PROVE  GoodPrefixes(s) = {SubSeq(s, 1, k) : k \in 0 .. Len(s)}
    <2>1. {n \in 0 .. Len(s) : \A i \in 1 .. n : s[i] \in Digits} = 0 .. Len(s)
      BY <1>1, <1>4
    <2> QED BY <2>1 DEF GoodPrefixes
  <1> QED BY <1>3, <1>4

(* An array as it is created is sorted and has no hole.                     *)
LEMMA EmptyIsTidy ==
  ASSUME NEW n \in 0 .. 254
  PROVE  RouteArrayCreate(n) \in Tidy(n)
  <1>1. Holds(RouteArrayCreate(n), n, {})
    BY EmptyArray
  <1>2. n \in Nat
    OBVIOUS
  <1> QED BY <1>1, <1>2, HoldsIsTidy

(* RouteTrieAdd leaves a trie of sorted arrays, whatever is added.          *)
LEMMA TrieAddIsTidy ==
  ASSUME NEW C, NEW m \in 0 .. 254, NEW t \in Tries(C, m), NEW p \in Seq(C), NEW r \in AnyRoute
  PROVE  RouteTrieAdd(t, p, r) \in Tries(C, m)
  <1> DEFINE u == RouteTrieAdd(t, p, r)
             D == DOMAIN t \cup GoodPrefixes(p)
             was(d) == IF d \in DOMAIN t THEN t[d] ELSE RouteArrayCreate(m)
  <1>1. MaxRoutes(t) = m /\ m \in Nat
    BY RootSize
  <1>2. u = [d \in D |-> IF d = p THEN RouteArrayAdd(was(d), r) ELSE was(d)]
    BY <1>1 DEF RouteTrieAdd
  <1>3. \A d : was(d) \in Tidy(m)
    BY TrieIsTidy, EmptyIsTidy
  <1>4. D \subseteq Seq(C) /\ << >> \in D
    BY TrieIsTidy, GoodPrefixesInSeq
  <1> HIDE DEF was, D
  <1>5. \A d : RouteArrayAdd(was(d), r) \in Tidy(m)
    BY <1>1, <1>3, TidyAdd
  <1> HIDE DEF u
  <1>6. /\ DOMAIN u = D /\ u = [d \in DOMAIN u |-> u[d]]
        /\ \A d \in DOMAIN u : u[d] \in Tidy(m)
    BY <1>2, <1>3, <1>5
  <1> QED BY <1>4, <1>6, TrieIsTidy DEF u

(* A trie that has its routes is of sorted arrays.                          *)
LEMMA WholeIsTidy ==
  ASSUME NEW C, NEW m \in Nat, NEW N, NEW t, Whole(t, C, m, N), t = [d \in DOMAIN t |-> t[d]]
  PROVE  t \in Tries(C, m)
  <1>1. \A d \in DOMAIN t : t[d] \in Tidy(m)
    BY DEF Whole, TrieOf, Holds, Tidy
  <1> QED BY <1>1, TrieIsTidy DEF Whole, TrieOf

(* A new trie has a root without routes.                                    *)
LEMMA NewTrie ==
  ASSUME NEW C, NEW m \in 0 .. 254
  PROVE  LET t == RouteTrieCreate(m)
             N == [d \in Seq(C) |-> {}] IN
         t \in Tries(C, m) /\ Whole(t, C, m, N) /\ \A d \in Seq(C) : ExactAt(t, m, N, d)
  <1> DEFINE t == RouteTrieCreate(m)
             N == [d \in Seq(C) |-> {}]
  <1>1. << >> \in Seq(C) /\ m \in Nat
    OBVIOUS
  <1>2. DOMAIN t = {<< >>} /\ t[<< >>] = RouteArrayCreate(m) /\ t = [d \in DOMAIN t |-> t[d]]
    BY DEF RouteTrieCreate
  <1>3. Holds(RouteArrayCreate(m), m, {}) /\ Exact(RouteArrayCreate(m), m, {})
    BY EmptyArray
  <1> HIDE DEF t
  <1>4. \A d \in DOMAIN t : \A k \in 0 .. Len(d) : SubSeq(d, 1, k) \in DOMAIN t
    BY <1>2
  <1>5. TrieOf(t, C, m, N)
    BY <1>1, <1>2, <1>3, <1>4 DEF TrieOf
  <1>6. Whole(t, C, m, N)
    BY <1>5 DEF Whole
  <1>7. \A d \in Seq(C) : ExactAt(t, m, N, d)
    BY <1>1, <1>2, <1>3 DEF ExactAt
  <1>8. t \in Tries(C, m)
    <2> HIDE DEF N
    <2> QED BY <1>1, <1>2, <1>6, WholeIsTidy
  <1> QED BY <1>6, <1>7, <1>8 DEF t

(* RouteTrieAdd gives the node of the digits one route more, which is exact *)
(* if the route fits there, and changes no other.                           *)
LEMMA TrieAdd ==
  ASSUME NEW C, NEW m \in 1 .. 254, NEW N, NEW t \in Tries(C, m), Whole(t, C, m, N),
         NEW p \in Seq(C), \A i \in 1 .. Len(p) : p[i] \in Digits, NEW r \in AnyRoute
  PROVE  LET u == RouteTrieAdd(t, p, r)
             M == [N EXCEPT ![p] = @ \cup {r}] IN
         /\ Whole(u, C, m, M) /\ p \in DOMAIN u
         /\ \A V : \A d \in Seq(C) :
              ExactAt(t, m, N, d) /\ (d = p => Fits(N[p], r, m, V)) => ExactAt(u, m, M, d)
  <1> DEFINE u == RouteTrieAdd(t, p, r)
             M == [N EXCEPT ![p] = @ \cup {r}]
             new == {SubSeq(p, 1, k) : k \in 0 .. Len(p)}
             D == DOMAIN t \cup new
             was(d) == IF d \in DOMAIN t THEN t[d] ELSE RouteArrayCreate(m)
  <1>1. MaxRoutes(t) = m /\ m \in Nat /\ m > 0 /\ m \in 0 .. 254
    BY RootSize
  <1>2. u = [d \in D |-> IF d = p THEN RouteArrayAdd(was(d), r) ELSE was(d)]
    BY <1>1, GoodPrefixesInSeq DEF RouteTrieAdd
  <1>3. /\ N \in [Seq(C) -> SUBSET AnyRoute] /\ TrieOf(t, C, m, N)
        /\ \A d \in Seq(C) \ DOMAIN t : N[d] = {}
    BY DEF Whole
  <1>4. new \subseteq Seq(C) /\ p \in new
    <2>1. GoodPrefixes(p) = new /\ GoodPrefixes(p) \subseteq Seq(C)
      BY GoodPrefixesInSeq
    <2>2. Len(p) \in 0 .. Len(p) /\ SubSeq(p, 1, Len(p)) = p
      OBVIOUS
    <2> QED BY <2>1, <2>2
  <1>5. \A d \in new : \A k \in 0 .. Len(d) : SubSeq(d, 1, k) \in new
    <2>1. SUFFICES ASSUME NEW j \in 0 .. Len(p), NEW k \in 0 .. Len(SubSeq(p, 1, j))
                   PROVE  SubSeq(SubSeq(p, 1, j), 1, k) \in new
      OBVIOUS
    <2>2. Len(SubSeq(p, 1, j)) = j /\ k \in 0 .. j /\ k \in 0 .. Len(p)
      OBVIOUS
    <2>3. SubSeq(SubSeq(p, 1, j), 1, k) = SubSeq(p, 1, k)
      BY <2>2, PrefixOfPrefix
    <2> QED BY <2>2, <2>3
  <1> HIDE DEF new
  <1>6. /\ D \subseteq Seq(C) /\ << >> \in D /\ p \in D
        /\ \A d \in D : \A k \in 0 .. Len(d) : SubSeq(d, 1, k) \in D
    BY <1>3, <1>4, <1>5 DEF TrieOf
  <1>7. \A d \in D : N[d] \subseteq AnyRoute /\ Holds(was(d), m, N[d])
    <2>1. Holds(RouteArrayCreate(m), m, {})
      BY <1>1, EmptyArray
    <2> QED BY <1>3, <1>6, <2>1 DEF TrieOf
  <1>8. \A d \in D : ExactAt(t, m, N, d) => Exact(was(d), m, N[d])
    <2>1. Exact(RouteArrayCreate(m), m, {})
      BY <1>1, EmptyArray
    <2> QED BY <1>3, <1>6, <2>1 DEF ExactAt
  <1> HIDE DEF was, D, u, M
  <1>9. /\ M \in [Seq(C) -> SUBSET AnyRoute] /\ M[p] = N[p] \cup {r}
        /\ \A d \in Seq(C) : d # p => M[d] = N[d]
    BY <1>3 DEF M
  <1>10. DOMAIN u = D /\ \A d \in D : u[d] = IF d = p THEN RouteArrayAdd(was(d), r) ELSE was(d)
    BY <1>2
  <1>11. Holds(RouteArrayAdd(was(p), r), m, N[p] \cup {r})
    BY <1>1, <1>6, <1>7, HoldsAdd
  <1>12. \A d \in D : M[d] \subseteq AnyRoute /\ Holds(u[d], m, M[d])
    BY <1>6, <1>7, <1>9, <1>10, <1>11
  <1>13. TrieOf(u, C, m, M)
    BY <1>1, <1>6, <1>10, <1>12 DEF TrieOf
  <1>14. \A d \in Seq(C) \ D : M[d] = {}
    BY <1>3, <1>6, <1>9 DEF D
  <1>15. ASSUME NEW V, NEW d \in Seq(C), ExactAt(t, m, N, d), d = p => Fits(N[p], r, m, V), d \in D
         PROVE  Exact(u[d], m, M[d])
    <2>1. Exact(was(d), m, N[d])
      BY <1>8, <1>15
    <2>2. CASE d = p
      <3>1. Exact(RouteArrayAdd(was(p), r), m, N[p] \cup {r})
        BY <1>1, <1>6, <1>7, <1>15, <2>1, <2>2, ExactAdd
      <3> QED BY <1>6, <1>9, <1>10, <2>2, <3>1
    <2>3. CASE d # p
      BY <1>9, <1>10, <1>15, <2>1, <2>3
    <2> QED BY <2>2, <2>3
  <1>16. \A V : \A d \in Seq(C) :
           ExactAt(t, m, N, d) /\ (d = p => Fits(N[p], r, m, V)) => ExactAt(u, m, M, d)
    BY <1>10, <1>15 DEF ExactAt
  <1>17. Whole(u, C, m, M) /\ p \in DOMAIN u
    BY <1>6, <1>9, <1>10, <1>13, <1>14 DEF Whole
  <1> QED BY <1>16, <1>17 DEF u, M

(* The values of routes: carriers, or areas.                                *)
ValuesOf(S) == {r.value : r \in S}

(* An exact list is as long as there are values.                            *)
LEMMA SizeOfList ==
  ASSUME NEW n \in Nat, NEW S \in SUBSET AnyRoute, NEW a, Holds(a, n, S), Exact(a, n, S)
  PROVE  a.size \in Nat /\ IsFiniteSet(ValuesOf(S)) /\ a.size = Cardinality(ValuesOf(S))
  <1> DEFINE f == [i \in 1 .. a.size |-> a.slot[i].value]
  <1>1. a \in Array(n) /\ NoHole(a) /\ From(a, n, S)
    BY DEF Holds
  <1>2. Listed(a) \subseteq S /\ a.size \in Nat
    BY <1>1, ListedFrom DEF Array
  <1>3. \A i \in 1 .. a.size : f[i] \in ValuesOf(S)
    BY <1>2 DEF ValuesOf, Listed
  <1>4. \A i, j \in 1 .. a.size : f[i] = f[j] => i = j
    BY DEF Exact
  <1>5. ASSUME NEW v \in ValuesOf(S) PROVE \E i \in 1 .. a.size : f[i] = v
    <2>1. PICK r \in S : r.value = v
      BY DEF ValuesOf
    <2>2. PICK l \in Listed(a) : l.value = r.value
      BY DEF Exact
    <2> QED BY <2>1, <2>2 DEF Listed
  <1>6. f \in Bijection(1 .. a.size, ValuesOf(S))
    BY <1>3, <1>4, <1>5 DEF Bijection, Injection, Surjection, IsInjective
  <1>7. IsFiniteSet(1 .. a.size) /\ Cardinality(1 .. a.size) = a.size
    BY <1>2, IntervalSize
  <1> HIDE DEF f
  <1>8. ExistsBijection(1 .. a.size, ValuesOf(S))
    BY <1>6 DEF ExistsBijection
  <1> QED BY <1>2, <1>7, <1>8, FS_Bijection

(* If no value comes twice on the way the count is of the values.           *)
LEMMA FindCounts ==
  ASSUME NEW C, NEW m \in Nat, NEW N, NEW t, TrieOf(t, C, m, N), NEW number \in Seq(C),
         ~BadInput(t, number),
         \A k \in 1 .. Depth(t, number) + 1 :
           LET d == SubSeq(number, 1, k - 1) IN Exact(t[d], m, N[d]),
         \A j, k \in 1 .. Depth(t, number) + 1 : j < k =>
           \A s \in N[SubSeq(number, 1, j - 1)], r \in N[SubSeq(number, 1, k - 1)] :
             s.value # r.value
  PROVE  /\ IsFiniteSet(ValuesOf(RoutesOnWay(t, N, number)))
         /\ RouteTrieFindCount(t, number) = Cardinality(ValuesOf(RoutesOnWay(t, N, number)))
  <1> DEFINE n == Depth(t, number) + 1
             s == NodesOnWay(t, number)
             way(k) == SubSeq(number, 1, k - 1)
             upTo(k) == Passed(t, N, number, k)
  <1>1. /\ n \in Nat /\ s \in Seq(Tidy(m)) /\ Len(s) = n
        /\ \A k \in 1 .. n : /\ N[way(k)] \subseteq AnyRoute /\ Holds(t[way(k)], m, N[way(k)])
                             /\ s[k] = t[way(k)]
    BY NodeOnWay
  <1>2. /\ \A k \in 1 .. n : Exact(t[way(k)], m, N[way(k)])
        /\ \A j, k \in 1 .. n : j < k =>
             \A q \in N[way(j)], r \in N[way(k)] : q.value # r.value
    OBVIOUS
  <1>3. RouteTrieFindCount(t, number) = CountAll(0, s)
    BY DEF RouteTrieFindCount, CountAll
  <1> HIDE DEF n, s
  <1>4. PICK h : Counts(h, Nat, 0, s)
    <2>1. \A x \in Nat, b \in Tidy(m) : AddSize(x, b) \in Nat
      BY ListOfNode DEF AddSize
    <2>2. 0 \in Nat
      OBVIOUS
    <2> QED BY <1>1, <2>1, <2>2, CountSteps
  <1>5. h[0] = 0 /\ CountAll(0, s) = h[n] /\ \A k \in 1 .. n : h[k] = h[k - 1] + s[k].size
    BY <1>1, <1>4 DEF Counts, AddSize
  <1> DEFINE Counted(k) == IsFiniteSet(ValuesOf(upTo(k))) /\ h[k] = Cardinality(ValuesOf(upTo(k)))
             T == {k \in 0 .. n : Counted(k)}
  <1>6. 0 \in T
    <2>1. ValuesOf(upTo(0)) = {} /\ 0 \in 0 .. n
      BY <1>1 DEF Passed, ValuesOf
    <2> QED BY <1>5, <2>1, FS_EmptySet
  <1>7. ASSUME NEW k \in 1 .. n, k - 1 \in T PROVE k \in T
    <2> DEFINE A == ValuesOf(upTo(k - 1))
               B == ValuesOf(N[way(k)])
    <2>1. upTo(k) = upTo(k - 1) \cup N[way(k)]
      <3>1. N[SubSeq(number, 1, k - 1)] \subseteq AnyRoute
        BY <1>1
      <3>2. k \in Nat \ {0}
        BY <1>1
      <3>3. Passed(t, N, number, k) =
              Passed(t, N, number, k - 1) \cup N[SubSeq(number, 1, k - 1)]
        BY <3>1, <3>2, PassedNext
      <3> QED BY <3>3
    <2>2. ValuesOf(upTo(k)) = A \cup B
      <3> HIDE DEF upTo, way
      <3> QED BY <2>1 DEF ValuesOf
    <2>3. A \cap B = {}
      <3>1. ASSUME NEW q \in upTo(k - 1), NEW r \in N[way(k)] PROVE q.value # r.value
        <4>1. PICK j \in 1 .. k - 1 : q \in N[way(j)]
          BY DEF Passed
        <4>2. j \in 1 .. n /\ j < k
          BY <1>1, <4>1
        <4> HIDE DEF way
        <4> QED BY <1>2, <4>1, <4>2
      <3> HIDE DEF upTo, way
      <3> QED BY <3>1 DEF ValuesOf
    <2>4. IsFiniteSet(A) /\ h[k - 1] = Cardinality(A)
      BY <1>7
    <2>5. IsFiniteSet(B) /\ s[k].size = Cardinality(B)
      <3>1. /\ N[way(k)] \subseteq AnyRoute /\ Holds(t[way(k)], m, N[way(k)])
            /\ Exact(t[way(k)], m, N[way(k)]) /\ s[k] = t[way(k)]
        BY <1>1, <1>2
      <3> HIDE DEF way
      <3> QED BY <3>1, SizeOfList
    <2>6. k \in 0 .. n /\ h[k] = h[k - 1] + s[k].size
      BY <1>1, <1>5
    <2> HIDE DEF A, B, upTo
    <2>7. IsFiniteSet(A \cup B) /\ Cardinality(A \cup B) = Cardinality(A) + Cardinality(B)
      <3>1. /\ IsFiniteSet(A \cup B)
            /\ Cardinality(A \cup B) = Cardinality(A) + Cardinality(B) - Cardinality(A \cap B)
        BY <2>4, <2>5, FS_Union
      <3>2. Cardinality(A \cap B) = 0
        BY <2>3, FS_EmptySet
      <3>3. Cardinality(A) \in Nat /\ Cardinality(B) \in Nat
        BY <2>4, <2>5, FS_CardinalityType
      <3> QED BY <3>1, <3>2, <3>3
    <2> QED BY <2>2, <2>4, <2>5, <2>6, <2>7
  <1>8. n \in T
    <2> HIDE DEF T
    <2>1. n \in 0 .. n
      BY <1>1
    <2>2. \A k \in 0 .. n : k \in T
      BY <1>1, <1>6, <1>7, UpToN
    <2> QED BY <2>1, <2>2
  <1> QED BY <1>3, <1>5, <1>8 DEF RoutesOnWay, n

=============================================================================
