----------------------------- MODULE MCCallRouting -----------------------------
(* The modules that a call consults: the routing table of mod_simple_lcr,   *)
(* one array of its routes by itself, and the lists of mod_blacklist. They  *)
(* have nothing in common; a behaviour is one of one part, and the          *)
(* variables of the others keep their initial values.                       *)
EXTENDS SimpleLcr, RouteList, Blacklist, TLC

VARIABLE part

RoutingInit ==
  /\ part \in {"lcr", "array", "blacklist"}
  /\ LcrInit /\ RouteInit /\ BlacklistInit

RoutingNext ==
  /\ UNCHANGED part
  /\ \/ part = "lcr" /\ LcrNext /\ UNCHANGED <<routeVars, blacklistVars>>
     \/ part = "array" /\ RouteNext /\ UNCHANGED <<lcrVars, blacklistVars>>
     \/ part = "blacklist" /\ BlacklistNext /\ UNCHANGED <<lcrVars, routeVars>>

RoutingSpec ==
  RoutingInit /\ [][RoutingNext]_<<part, lcrVars, routeVars, blacklistVars>>

-----------------------------------------------------------------------------
(* mod_simple_lcr                                                           *)

CONSTANTS c1, c2, l1, l2

TwoCallers == {c1, c2}
TwoLoaders == {l1, l2}
LcrSymmetry == Permutations(TwoCallers) \cup Permutations(TwoLoaders)

Base == [reads |-> TRUE, wellFormed |-> TRUE, maxRoutes |-> 2, cidStrip |-> 0,
         destStrip |-> 0, cidPrefix |-> << >>, destPrefix |-> << >>,
         areas |-> << >>, carriers |-> << >>]

Rate(d, inter, intra) == [digits |-> d, inter |-> inter, intra |-> intra]
Carrier(areas, n, rates) == [interAreas |-> areas, gateways |-> n, rates |-> rates]

(* Carriers 1 and 3 take callers from 1 and 22 for inter-area, carrier 2    *)
(* none, and has no gateway; carrier 3 has inter-area rates only.           *)
Mixed == [Base EXCEPT !.maxRoutes = 3,
  !.carriers = << Carrier(<< <<1>>, <<2, 2>> >>, 2,
                          << Rate(<<1>>, 3, 1), Rate(<<1, 2>>, 5, 5) >>),
                  Carrier(<< >>, 0, << Rate(<<1>>, 4, 2), Rate(<<2>>, 1, -1) >>),
                  Carrier(<< <<1>>, <<2, 2>> >>, 1, << Rate(<<1, 2>>, 6, -1) >>) >>]

(* Areas 1 and 2; carrier 1 names one inter-area only; one route is kept.   *)
Areas == [Base EXCEPT !.maxRoutes = 1,
  !.areas = << [digits |-> <<1>>, area |-> 1], [digits |-> <<2>>, area |-> 2] >>,
  !.carriers = << Carrier(<< <<1>> >>, 1, << Rate(<<1>>, 2, 1) >>),
                  Carrier(<< >>, 2, << Rate(<<1>>, 1, 3), Rate(<< >>, 3, 3) >>) >>]

Bad == [Base EXCEPT !.carriers = << Carrier(<< >>, 1, << Rate(<<1>>, -2, 1) >>) >>]
Unreadable == [Base EXCEPT !.reads = FALSE]

SomeConfigs == {Mixed, Areas, Bad, Unreadable}

SomeCalls == {[kind |-> "dialplan", cid |-> << 1 >>, dest |-> << 1, 2 >>],
              [kind |-> "dialplan", cid |-> << 2, 1 >>, dest |-> << 1, 2 >>],
              [kind |-> "api", cid |-> << >>, dest |-> << 2, 9 >>]}

-----------------------------------------------------------------------------
(* mod_blacklist                                                            *)

CONSTANTS u1, u2, u3, x1

NoListHere == {Nobody}

ListOf(name, opens, numbers) == [name |-> name, opens |-> opens, numbers |-> numbers]

(* None; two lists; a name twice, and a file that is missing.               *)
SomeListConfigs ==
  { << >>,
    << ListOf("a", TRUE, {}), ListOf("b", TRUE, {x1}) >>,
    << ListOf("a", TRUE, {}), ListOf("b", FALSE, {}), ListOf("a", TRUE, {x1}) >> }

=============================================================================
