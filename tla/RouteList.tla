------------------------------- MODULE RouteList -------------------------------
(***************************************************************************)
(* One array of routes of mod_simple_lcr                                   *)
(* (src/crienzo/mod_simple_lcr/route_trie.c) and the routes offered to it  *)
(* one after the other, by the lines of the ratedecks or by a lookup that  *)
(* goes down the trie.                                                     *)
(***************************************************************************)
EXTENDS RouteTrie

CONSTANTS
  MaxSize,    \* slots of the array
  Values,     \* route values: the ids of carriers or areas, never 0
  Types,      \* route types: 0 intra, 1 inter
  Costs,      \* costs
  MaxOffers   \* bound: different routes offered to the array

(* A full array of 255 slots counts as empty after the next route; the      *)
(* program has none that is offered one.                                    *)
ASSUME RouteAssumption ==
  /\ MaxSize \in 0 .. 254 /\ MaxOffers \in Nat
  /\ Values \subseteq Nat \ {0} /\ Types \subseteq Nat /\ Costs \subseteq Nat

Route == [cost : Costs, value : Values, type : Types]

VARIABLES
  array,     \* the array
  offered,   \* history: the routes offered
  repeated   \* history: a value and type was offered a second time

routeVars == <<array, offered, repeated>>

RouteInit ==
  /\ array = RouteArrayCreate(MaxSize)
  /\ offered = {}
  /\ repeated = FALSE

Offer(r) ==
  /\ array' = RouteArrayAdd(array, r)
  /\ offered' = offered \cup {r}
  /\ repeated' = (repeated \/ \E o \in offered : o.value = r.value /\ o.type = r.type)

RouteNext == \E r \in Route : Cardinality(offered \cup {r}) <= MaxOffers /\ Offer(r)

RouteSpec == RouteInit /\ [][RouteNext]_routeVars

-----------------------------------------------------------------------------
(* Properties                                                               *)

RouteTypeOK ==
  /\ array.size \in 0 .. MaxSize
  /\ array.slot \in [1 .. MaxSize -> Route \cup {NoRoute}]
  /\ offered \subseteq Route

(* The list is in ascending order of cost, whatever is left behind it, and  *)
(* has no hole.                                                             *)
AscendingByCost ==
  /\ \A i, j \in 1 .. array.size : i < j => array.slot[i].cost <= array.slot[j].cost
  /\ \A i \in 1 .. array.size : array.slot[i].value # 0

(* The list has only routes that were offered: a removal or a swap makes    *)
(* none up, and a free slot never counts as one.                            *)
NothingInvented == Listed(array) \subseteq offered

(* The least-cost route stays first, also when routes are lost behind it.   *)
CheapestFirst ==
  \A r \in offered :
    MaxSize > 0 => array.size > 0 /\ array.slot[1].cost <= r.cost

(* As long as no carrier's route is offered twice the list is exact: no     *)
(* route twice, all of them if they fit, and whatever is left out costs at  *)
(* least as much as everything listed.                                      *)
ExactWithoutRepeats ==
  ~repeated =>
    /\ Cardinality(Listed(array)) = array.size
    /\ \A r \in offered \ Listed(array) :
         array.size = MaxSize /\ \A l \in Listed(array) : l.cost <= r.cost

(* What the documentation says.                                             *)

(* "The highest cost route is removed from the array to make room for a     *)
(* lower cost route": a route is given up only when the array is full of    *)
(* others. So, while every value and type that was offered fits, each is    *)
(* listed.                                                                  *)
RemovedOnlyToMakeRoom ==
  LET names == {<<r.value, r.type>> : r \in offered} IN
  Cardinality(names) <= MaxSize =>
    names = {<<r.value, r.type>> : r \in Listed(array)}

=============================================================================
