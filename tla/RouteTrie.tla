------------------------------- MODULE RouteTrie -------------------------------
(***************************************************************************)
(* The route arrays and the digit trie of mod_simple_lcr                   *)
(* (src/crienzo/mod_simple_lcr/route_trie.c), as operators.                *)
(*                                                                         *)
(* An array has max_size slots, zeroed when it is created, of which the    *)
(* first size are the list. The search for the place of a route looks at   *)
(* all slots and takes one with value 0 for free; a removal leaves what it *)
(* moved, or removed, in the slot behind the list.                         *)
(*                                                                         *)
(* A trie is a function from its nodes, the digit strings that lead to     *)
(* them, to their arrays. A node without an array and one with an empty    *)
(* array are the same to every operation.                                  *)
(***************************************************************************)
EXTENDS Integers, Sequences, FiniteSets, SequencesExt

CONSTANT Digits   \* the digits; other characters are bad input

-----------------------------------------------------------------------------
(* Arrays                                                                   *)

NoRoute == [cost |-> 0, value |-> 0, type |-> 0]

(* A size is a route_size_t, of 8 bits.                                     *)
RouteArrayCreate(max) ==
  [size |-> 0, slot |-> [i \in 1 .. max % 256 |-> NoRoute]]

(* The routes of the list.                                                  *)
Listed(a) == {a.slot[i] : i \in 1 .. a.size}

First(S) == CHOOSE i \in S : \A j \in S : i <= j

(* Where the list has the value and type of r.                              *)
SameRoute(a, r) ==
  {i \in 1 .. a.size : a.slot[i].value = r.value /\ a.slot[i].type = r.type}

(* Where a route of this cost may go: a free slot, or a dearer route.       *)
PlacesFor(a, cost) ==
  {i \in DOMAIN a.slot : a.slot[i].value = 0 \/ a.slot[i].cost > cost}

RouteArrayRemove(a, index) ==
  [size |-> a.size - 1,
   slot |-> [i \in DOMAIN a.slot |->
               IF index <= i /\ i < a.size THEN a.slot[i + 1] ELSE a.slot[i]]]

(* r goes to the first place for it; what is there, up to a free slot, goes *)
(* one further, the last slot out of the array. The size grows even if      *)
(* there was no place, and is then cut to the number of slots. It has 8     *)
(* bits: that of a full array of 255 slots becomes 0.                       *)
Insert(a, r) ==
  [size |-> IF (a.size + 1) % 256 > Cardinality(DOMAIN a.slot)
            THEN Cardinality(DOMAIN a.slot) ELSE (a.size + 1) % 256,
   slot |->
     IF PlacesFor(a, r.cost) = {} THEN a.slot
     ELSE LET at == First(PlacesFor(a, r.cost)) IN
          [i \in DOMAIN a.slot |->
             IF i < at THEN a.slot[i]
             ELSE IF i = at THEN r
             ELSE IF a.slot[i - 1].value # 0 THEN a.slot[i - 1]
             ELSE a.slot[i]]]

(* Variant: the route takes the place after the list while there is one.    *)
AddAtEnd(a, r) ==
  IF a.size < Cardinality(DOMAIN a.slot)
  THEN [size |-> a.size + 1, slot |-> [a.slot EXCEPT ![a.size + 1] = r]]
  ELSE Insert(a, r)

(* Variant: the routes of a type are not told from those of another.        *)
AddByValue(a, r) ==
  LET same == {i \in 1 .. a.size : a.slot[i].value = r.value} IN
  IF same = {} THEN Insert(a, r)
  ELSE IF a.slot[First(same)].cost < r.cost THEN a
  ELSE Insert(RouteArrayRemove(a, First(same)), r)

RouteArrayAdd(a, r) ==
  LET same == SameRoute(a, r) IN
  IF same = {} THEN Insert(a, r)
  ELSE IF a.slot[First(same)].cost < r.cost THEN a
  ELSE Insert(RouteArrayRemove(a, First(same)), r)

-----------------------------------------------------------------------------
(* Tries                                                                    *)

(* The leading digits of a string.                                          *)
GoodPrefixes(s) ==
  {SubSeq(s, 1, k) : k \in {n \in 0 .. Len(s) : \A i \in 1 .. n : s[i] \in Digits}}

RouteTrieCreate(max) == [n \in {<< >>} |-> RouteArrayCreate(max)]

MaxRoutes(trie) == Cardinality(DOMAIN trie[<< >>].slot)

(* The nodes on the way are created, also if the way ends in bad input.     *)
RouteTrieAdd(trie, prefix, route) ==
  [n \in DOMAIN trie \cup GoodPrefixes(prefix) |->
     LET a == IF n \in DOMAIN trie THEN trie[n]
              ELSE RouteArrayCreate(MaxRoutes(trie)) IN
     IF n = prefix THEN RouteArrayAdd(a, route) ELSE a]

(* How many digits of the number a search follows.                          *)
Depth(trie, number) ==
  CHOOSE k \in 0 .. Len(number) :
    /\ SubSeq(number, 1, k) \in DOMAIN trie
    /\ k = Len(number) \/ SubSeq(number, 1, k + 1) \notin DOMAIN trie

(* The search ended at bad input: it returns 0, and has filled its array.   *)
BadInput(trie, number) ==
  LET d == Depth(trie, number) IN d < Len(number) /\ number[d + 1] \notin Digits

(* The arrays of the nodes a search passes, from the root on.               *)
NodesOnWay(trie, number) ==
  [k \in 1 .. Depth(trie, number) + 1 |-> trie[SubSeq(number, 1, k - 1)]]

(* The routes of a node are offered to the array, the cheapest first.       *)
AddListed(array, node) == FoldLeft(RouteArrayAdd, array, SubSeq(node.slot, 1, node.size))

RouteTrieFind(trie, number, array) ==
  FoldLeft(AddListed, array, NodesOnWay(trie, number))

AddSize(count, node) == count + node.size

RouteTrieFindCount(trie, number) ==
  IF BadInput(trie, number) THEN 0 ELSE FoldLeft(AddSize, 0, NodesOnWay(trie, number))

=============================================================================
