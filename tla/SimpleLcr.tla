------------------------------- MODULE SimpleLcr -------------------------------
(***************************************************************************)
(* mod_simple_lcr (src/crienzo/mod_simple_lcr/mod_simple_lcr.c): a         *)
(* least-cost-routing table that is replaced while calls look routes up.   *)
(*                                                                         *)
(* A configuration is built into a database of its own, swapped in under   *)
(* update_lock, and the one it replaces destroyed when its readers are     *)
(* done. A lookup takes update_lock, reads the pointer, takes the          *)
(* database's own read lock and lets update_lock go. A dialplan lookup     *)
(* then takes a gateway of each carrier in turn; an API lookup prints.     *)
(*                                                                         *)
(* Databases are numbers; 0 is NULL. A configuration                       *)
(* is a record of what the file and its ratedecks say:                     *)
(*   reads        the file can be opened, and names at most MAX_CARRIERS   *)
(*   wellFormed   names, gateways and parameters are acceptable            *)
(*   maxRoutes, cidStrip, destStrip, cidPrefix, destPrefix                 *)
(*   areas        sequence of [digits, area]                               *)
(*   carriers     sequence of [interAreas, gateways, rates], where rates   *)
(*                is a sequence of [digits, inter, intra], the costs       *)
(* A call is [kind, cid, dest].                                            *)
(***************************************************************************)
EXTENDS RouteTrie

CONSTANTS
  Callers,     \* threads that look up: calls, or API commands
  Loaders,     \* threads that may load the configuration
  Characters,  \* of numbers and prefixes, digits or not
  Configs,     \* what the configuration may say
  Calls,       \* what may be looked up
  NoThread,    \* nobody holds a lock
  NoConfig,    \* a database that was not created has none
  MaxGateways, \* gateways of a carrier (8 in the code)
  MaxLoads,    \* bound: databases that are created
  MaxLookups   \* bound: lookups that begin

ASSUME LcrAssumption ==
  /\ NoThread \notin Callers /\ Loaders # {} /\ NoConfig \notin Configs
  /\ MaxGateways \in Nat \ {0}
  /\ MaxLoads \in Nat /\ MaxLookups \in Nat

COST_NO_INPUT == -1
COST_BAD_INPUT == -2

-----------------------------------------------------------------------------
(* What a configuration is built into                                       *)

AllDigits(s) == \A i \in 1 .. Len(s) : s[i] \in Digits

BadRate(rate) ==
  \/ rate.inter = COST_BAD_INPUT \/ rate.intra = COST_BAD_INPUT
  \/ (rate.inter >= 0 \/ rate.intra >= 0) /\ ~AllDigits(rate.digits)

(* One area alone is not looked at: the list must have more than one.       *)
InterAreas(carrier) ==
  IF Len(carrier.interAreas) > 1 THEN carrier.interAreas ELSE << >>

(* load_area_file, load_ratedeck_file or load_config gives up.              *)
Fails(c) ==
  \/ ~c.wellFormed
  \/ \E i \in DOMAIN c.areas : ~AllDigits(c.areas[i].digits)
  \/ \E k \in DOMAIN c.carriers :
       \/ \E i \in DOMAIN c.carriers[k].rates : BadRate(c.carriers[k].rates[i])
       \/ \E i \in DOMAIN InterAreas(c.carriers[k]) :
            ~AllDigits(InterAreas(c.carriers[k])[i])

(* What is built into a database: at most MAX_CARRIERS carriers, with or    *)
(* without gateways, and at least one route asked for. A cost is of 16      *)
(* bits, or one of the two marks.                                           *)
RateCosts == COST_BAD_INPUT .. 65535
Rates == [digits : Seq(Characters), inter : RateCosts, intra : RateCosts]
Carriers == [interAreas : Seq(Seq(Characters)), gateways : 0 .. MaxGateways, rates : Seq(Rates)]

ASSUME ConfigAssumption ==
  \A c \in Configs : c.reads /\ ~Fails(c) =>
    /\ c.carriers \in Seq(Carriers) /\ Len(c.carriers) <= 256
    /\ c.maxRoutes \in 1 .. 8

ASSUME CallAssumption ==
  Calls \subseteq [kind : {"api", "dialplan"}, cid : Seq(Characters), dest : Seq(Characters)]

(* One line of a ratedeck, or one area of a carrier. No cost, no route.     *)
AddRate(trie, rate, carrier, type) ==
  IF rate.cost >= 0
  THEN RouteTrieAdd(trie, rate.digits, [cost |-> rate.cost, value |-> carrier, type |-> type])
  ELSE trie

AddRates(trie, rates, carrier, type) ==
  FoldLeft(LAMBDA t, rate : AddRate(t, rate, carrier, type), trie, rates)

(* The lists of the carriers, one after the other.                          *)
Trie(lists, type) ==
  FoldLeftDomain(LAMBDA t, k : AddRates(t, lists[k], k, type),
                 RouteTrieCreate(Len(lists)), lists)

CostOf(rate, type) == IF type = 1 THEN rate.inter ELSE rate.intra

RateLists(c, type) ==
  [k \in DOMAIN c.carriers |-> [i \in DOMAIN c.carriers[k].rates |->
    [digits |-> c.carriers[k].rates[i].digits,
     cost |-> CostOf(c.carriers[k].rates[i], type)]]]

AreaLists(c) ==
  [k \in DOMAIN c.carriers |-> [i \in DOMAIN InterAreas(c.carriers[k]) |->
    [digits |-> InterAreas(c.carriers[k])[i], cost |-> 0]]]

AddArea(trie, area) ==
  RouteTrieAdd(trie, area.digits, [cost |-> 0, value |-> area.area, type |-> 0])

Build(c) ==
  [inter_trie  |-> Trie(RateLists(c, 1), 1),
   intra_trie  |-> Trie(RateLists(c, 0), 0),
   inter_areas |-> Trie(AreaLists(c), 0),
   areas |-> FoldLeft(AddArea, RouteTrieCreate(1), c.areas),
   num_carriers |-> Len(c.carriers)]

(* Each configuration's database, built once.                               *)
Table(Of(_), S) == [x \in S |-> Of(x)]
Database == Table(Build, {c \in Configs : c.reads /\ ~Fails(c)})

-----------------------------------------------------------------------------
(* lcr_find                                                                 *)

lcr_find_area(db, number) ==
  LET result == RouteTrieFind(db.areas, number, RouteArrayCreate(1)) IN
  IF number = << >> \/ BadInput(db.areas, number) \/ result.size = 0 THEN -1
  ELSE result.slot[1].value

lcr_is_inter_area(c, db, call) ==
  LET src == lcr_find_area(db, c.cidPrefix \o SubSeq(call.cid, c.cidStrip + 1, Len(call.cid)))
      dest == lcr_find_area(db, c.destPrefix \o SubSeq(call.dest, c.destStrip + 1, Len(call.dest))) IN
  /\ c.cidStrip < Len(call.cid)
  /\ c.destStrip < Len(call.dest)
  /\ src >= 0 /\ dest >= 0 /\ src # dest

HasValue(array, value) == \E r \in Listed(array) : r.value = value

(* A route is taken from the trie that is right for its carrier.            *)
TakeRoute(results, route, inter_carriers, is_inter) ==
  IF (route.type # 0) = is_inter /\ HasValue(inter_carriers, route.value) = is_inter
  THEN RouteArrayAdd(results, route) ELSE results

(* The routes that a trie has for the number, as many as are said to be     *)
(* found.                                                                   *)
TakeRoutes(results, db, trie, dest, inter_carriers, is_inter) ==
  LET a == RouteTrieFind(trie, dest, RouteArrayCreate(db.num_carriers)) IN
  IF BadInput(trie, dest) THEN results
  ELSE FoldLeft(LAMBDA array, r : TakeRoute(array, r, inter_carriers, is_inter), results,
                SubSeq(a.slot, 1, a.size))

(* Some carriers take the caller's number for inter-area, some do not: both *)
(* tries are searched.                                                      *)
MixedRoutes(db, call, count, results) ==
  LET inter == RouteTrieFind(db.inter_areas, call.cid, RouteArrayCreate(count)) IN
  TakeRoutes(TakeRoutes(results, db, db.intra_trie, call.dest, inter, FALSE),
             db, db.inter_trie, call.dest, inter, TRUE)

(* Variant: the carriers that take the caller for inter-area are looked up  *)
(* by the number that is called.                                            *)
FindByDest(c, call) ==
  LET db == Database[c]
      results == RouteArrayCreate(IF call.kind = "api" THEN db.num_carriers ELSE c.maxRoutes)
      count == RouteTrieFindCount(db.inter_areas, call.dest) IN
  IF call.dest = << >> THEN results
  ELSE IF lcr_is_inter_area(c, db, call) \/ count >= db.num_carriers
       THEN RouteTrieFind(db.inter_trie, call.dest, results)
  ELSE IF count = 0 THEN RouteTrieFind(db.intra_trie, call.dest, results)
  ELSE MixedRoutes(db, [call EXCEPT !.cid = call.dest], count, results)

lcr_find(c, call) ==
  LET db == Database[c]
      results == RouteArrayCreate(IF call.kind = "api" THEN db.num_carriers ELSE c.maxRoutes)
      count == RouteTrieFindCount(db.inter_areas, call.cid) IN
  IF call.dest = << >> THEN results
  ELSE IF lcr_is_inter_area(c, db, call) \/ count >= db.num_carriers
       THEN RouteTrieFind(db.inter_trie, call.dest, results)
  ELSE IF count = 0 THEN RouteTrieFind(db.intra_trie, call.dest, results)
  ELSE MixedRoutes(db, call, count, results)

-----------------------------------------------------------------------------
VARIABLES
  stage,       \* of the module: "load", "running", "destroy", "unloaded"
  lcr,         \* globals.lcr
  update_lock, \* who holds it
  dbState,     \* of each database: "none", "private", "shared", "destroyed"
  dbConf,      \* the configuration it was built from
  readers,     \* who holds the read lock of each database
  at, held,    \* per caller: where its lookup is, the database it got
  call,        \* per caller: what it looks up
  result,      \* per caller: the routes found
  place,       \* per caller: the route whose gateway is next
  load, old,   \* per loader: where it is, the database in its hands
  next_gateway,\* per database and carrier
  gatewayLock, \* who holds the mutex of a carrier
  picks,       \* history: how often each gateway was picked
  lookups,     \* lookups that began
  lcrCrash     \* "no", or why the process ended: "null", "destroyed"

dbVars == <<dbState, dbConf>>
gatewayVars == <<next_gateway, gatewayLock, picks>>
callVars == <<call, result, place>>
lcrVars == <<stage, lcr, update_lock, dbVars, readers, at, held, callVars,
             load, old, gatewayVars, lookups, lcrCrash>>

Dbs == 1 .. MaxLoads
CarrierIds == UNION {DOMAIN c.carriers : c \in Configs}
Gateways == 0 .. MaxGateways - 1
NoCall == [kind |-> "none", cid |-> << >>, dest |-> << >>]
NoRoutes == RouteArrayCreate(0)

LcrInit ==
  /\ stage = "load" /\ lcr = 0 /\ update_lock = NoThread
  /\ dbState = [d \in Dbs |-> "none"] /\ dbConf = [d \in Dbs |-> NoConfig]
  /\ readers = [d \in Dbs |-> {}]
  /\ at = [t \in Callers |-> "idle"] /\ held = [t \in Callers |-> 0]
  /\ call = [t \in Callers |-> NoCall]
  /\ result = [t \in Callers |-> NoRoutes] /\ place = [t \in Callers |-> 1]
  /\ load = [l \in Loaders |-> "idle"] /\ old = [l \in Loaders |-> 0]
  /\ next_gateway = [d \in Dbs |-> [k \in CarrierIds |-> 0]]
  /\ gatewayLock = [d \in Dbs |-> [k \in CarrierIds |-> NoThread]]
  /\ picks = [d \in Dbs |-> [k \in CarrierIds |-> [g \in Gateways |-> 0]]]
  /\ lookups = 0 /\ lcrCrash = "no"

Alive == lcrCrash = "no"

-----------------------------------------------------------------------------
(* load_config, in mod_simple_lcr_load and in the handler of RELOADXML      *)

(* The first load is over before the handler is bound.                      *)
MayLoad(l) ==
  /\ Alive /\ load[l] = "idle"
  /\ \/ stage = "running"
     \/ stage = "load" /\ \A m \in Loaders : load[m] = "idle"

(* The number of the next database, whichever is free.                      *)
NewDb == CHOOSE d \in Dbs : dbState[d] = "none"

(* Variant: a configuration that fails is left where it is.                 *)
LoadLeaks(l, c) ==
  /\ MayLoad(l)
  /\ \E d \in Dbs : dbState[d] = "none"
  /\ c.reads
  /\ load' = [load EXCEPT ![l] = IF Fails(c) THEN "done" ELSE "swap"]
  /\ old' = [old EXCEPT ![l] = IF Fails(c) THEN 0 ELSE NewDb]
  /\ dbState' = [dbState EXCEPT ![NewDb] = "private"]
  /\ dbConf' = [dbConf EXCEPT ![NewDb] = c]
  /\ UNCHANGED <<stage, lcr, update_lock, readers, at, held, callVars, gatewayVars,
                 lookups, lcrCrash>>

(* The database is built where nobody sees it. If that fails it is          *)
(* destroyed instead of swapped in.                                         *)
LoadConfig(l, c) ==
  /\ MayLoad(l)
  /\ \E d \in Dbs : dbState[d] = "none"
  /\ c.reads
  /\ load' = [load EXCEPT ![l] = IF Fails(c) THEN "destroy" ELSE "swap"]
  /\ old' = [old EXCEPT ![l] = NewDb]
  /\ dbState' = [dbState EXCEPT ![NewDb] = "private"]
  /\ dbConf' = [dbConf EXCEPT ![NewDb] = c]
  /\ UNCHANGED <<stage, lcr, update_lock, readers, at, held, callVars, gatewayVars,
                 lookups, lcrCrash>>

(* The file cannot be opened, or names too many carriers: nothing is built, *)
(* which matters to the first load only.                                    *)
LoadNothing(l, c) ==
  /\ MayLoad(l) /\ stage = "load"
  /\ ~c.reads
  /\ load' = [load EXCEPT ![l] = "done"]
  /\ UNCHANGED <<stage, lcr, update_lock, dbVars, readers, at, held, callVars, old,
                 gatewayVars, lookups, lcrCrash>>

(* Variant: the pointer is cleared first, and set when the old database is  *)
(* on its way out.                                                          *)
SwapClears(l) ==
  /\ Alive /\ load[l] = "swap"
  /\ update_lock = NoThread
  /\ lcr' = IF lcr = 0 THEN old[l] ELSE 0
  /\ dbState' = IF lcr = 0 THEN [dbState EXCEPT ![old[l]] = "shared"] ELSE dbState
  /\ load' = [load EXCEPT ![l] = IF lcr = 0 THEN "done" ELSE "swap"]
  /\ UNCHANGED <<stage, update_lock, dbConf, readers, at, held, call, result, place, old,
                 gatewayVars, lookups, lcrCrash>>

(* lcr_replace                                                              *)
Swap(l) ==
  /\ Alive /\ load[l] = "swap"
  /\ update_lock = NoThread
  /\ lcr' = old[l]
  /\ old' = [old EXCEPT ![l] = lcr]
  /\ dbState' = [dbState EXCEPT ![old[l]] = "shared"]
  /\ load' = [load EXCEPT ![l] = IF lcr = 0 THEN "done" ELSE "destroy"]
  /\ UNCHANGED <<stage, update_lock, dbConf, readers, at, held, call, result, place,
                 gatewayVars, lookups, lcrCrash>>

(* lcr_destroy: the write lock is taken when no reader is left, and goes    *)
(* with the database.                                                       *)
Destroy(l) ==
  /\ Alive /\ load[l] = "destroy"
  /\ readers[old[l]] = {}
  /\ dbState' = [dbState EXCEPT ![old[l]] = "destroyed"]
  /\ old' = [old EXCEPT ![l] = 0]
  /\ load' = [load EXCEPT ![l] = "done"]
  /\ UNCHANGED <<stage, lcr, update_lock, dbConf, readers, at, held, callVars,
                 gatewayVars, lookups, lcrCrash>>

(* mod_simple_lcr_load takes no notice of the outcome, and goes on to add   *)
(* the interfaces and to bind the handler; a handler just returns.          *)
LoadReturns(l) ==
  /\ Alive /\ load[l] = "done"
  /\ stage' = "running"
  /\ load' = [load EXCEPT ![l] = "idle"]
  /\ UNCHANGED <<lcr, update_lock, dbVars, readers, at, held, callVars, old,
                 gatewayVars, lookups, lcrCrash>>

-----------------------------------------------------------------------------
(* simple_lcr_dialplan_redirect and simple_lcr_function                     *)

BeginLookup(t, c) ==
  /\ Alive /\ stage = "running" /\ at[t] = "idle"
  /\ lookups < MaxLookups
  /\ lookups' = lookups + 1
  /\ at' = [at EXCEPT ![t] = "lock"]
  /\ call' = [call EXCEPT ![t] = c]
  /\ UNCHANGED <<stage, lcr, update_lock, dbVars, readers, held, result, place, load,
                 old, gatewayVars, lcrCrash>>

(* Variant: update_lock protects the reading of the pointer only.           *)
ReadPointerUnlocked(t) ==
  /\ Alive /\ at[t] = "lock"
  /\ update_lock = NoThread
  /\ held' = [held EXCEPT ![t] = lcr]
  /\ lcrCrash' = IF lcr = 0 THEN "null" ELSE lcrCrash
  /\ at' = [at EXCEPT ![t] = "pin"]
  /\ UNCHANGED <<stage, lcr, update_lock, dbVars, readers, callVars, load, old,
                 gatewayVars, lookups>>

(* update_lock, and lcr = globals.lcr, whose mutex the next line takes.     *)
ReadPointer(t) ==
  /\ Alive /\ at[t] = "lock"
  /\ update_lock = NoThread
  /\ update_lock' = t
  /\ held' = [held EXCEPT ![t] = lcr]
  /\ lcrCrash' = IF lcr = 0 THEN "null" ELSE lcrCrash
  /\ at' = [at EXCEPT ![t] = "pin"]
  /\ UNCHANGED <<stage, lcr, dbVars, readers, callVars, load, old, gatewayVars, lookups>>

(* The read lock, and the end of lcr_rdlock.                                *)
Pin(t) ==
  /\ Alive /\ at[t] = "pin"
  /\ lcrCrash' = IF dbState[held[t]] = "destroyed" THEN "destroyed" ELSE "no"
  /\ readers' = [readers EXCEPT ![held[t]] = @ \cup {t}]
  /\ update_lock' = IF update_lock = t THEN NoThread ELSE update_lock
  /\ at' = [at EXCEPT ![t] = "find"]
  /\ UNCHANGED <<stage, lcr, dbVars, held, callVars, load, old, gatewayVars, lookups>>

(* lcr_find. Only the dialplan makes a dial string of the routes.           *)
Find(t) ==
  /\ Alive /\ at[t] = "find"
  /\ IF dbState[held[t]] = "destroyed"
     THEN /\ lcrCrash' = "destroyed" /\ UNCHANGED <<result, at>>
     ELSE LET r == lcr_find(dbConf[held[t]], call[t]) IN
          /\ result' = [result EXCEPT ![t] = r]
          /\ at' = [at EXCEPT ![t] = IF call[t].kind = "dialplan" /\ r.size > 0
                                     THEN "dial" ELSE "unpin"]
          /\ UNCHANGED lcrCrash
  /\ UNCHANGED <<stage, lcr, update_lock, dbVars, readers, held, call, place, load,
                 old, gatewayVars, lookups>>

(* The carrier whose gateway comes next in the dial string.                 *)
NextCarrier(t) == result[t].slot[place[t]].value

GatewaysOf(t, k) == dbConf[held[t]].carriers[k].gateways

(* A carrier without gateways has none to select, and adds nothing to the   *)
(* dial string.                                                             *)
NoGateway(t) ==
  /\ Alive /\ at[t] = "dial"
  /\ GatewaysOf(t, NextCarrier(t)) = 0
  /\ place' = [place EXCEPT ![t] = @ + 1]
  /\ at' = [at EXCEPT ![t] = IF place[t] < result[t].size THEN "dial" ELSE "unpin"]
  /\ UNCHANGED <<stage, lcr, update_lock, dbVars, readers, held, call, result, load,
                 old, gatewayVars, lookups, lcrCrash>>

(* Variant: a carrier's mutex is not taken.                                 *)
LockCarrierAlways(t) ==
  /\ Alive /\ at[t] = "dial" /\ GatewaysOf(t, NextCarrier(t)) > 0
  /\ at' = [at EXCEPT ![t] = "pick"]
  /\ UNCHANGED <<stage, lcr, update_lock, dbVars, readers, held, callVars, load, old,
                 next_gateway, gatewayLock, picks, lookups, lcrCrash>>

LockCarrier(t) ==
  /\ Alive /\ at[t] = "dial" /\ GatewaysOf(t, NextCarrier(t)) > 0
  /\ gatewayLock[held[t]][NextCarrier(t)] = NoThread
  /\ gatewayLock' = [gatewayLock EXCEPT ![held[t]][NextCarrier(t)] = t]
  /\ at' = [at EXCEPT ![t] = "pick"]
  /\ UNCHANGED <<stage, lcr, update_lock, dbVars, readers, held, callVars, load, old,
                 next_gateway, picks, lookups, lcrCrash>>

(* carrier_select_gateway returns the gateway whose turn it is.             *)
PickGateway(t) ==
  /\ Alive /\ at[t] = "pick"
  /\ LET k == NextCarrier(t) IN
     picks' = [picks EXCEPT ![held[t]][k][next_gateway[held[t]][k]] = @ + 1]
  /\ at' = [at EXCEPT ![t] = "advance"]
  /\ UNCHANGED <<stage, lcr, update_lock, dbVars, readers, held, callVars, load, old,
                 next_gateway, gatewayLock, lookups, lcrCrash>>

AdvanceGateway(t) ==
  /\ Alive /\ at[t] = "advance"
  /\ LET d == held[t]
         k == NextCarrier(t) IN
     /\ next_gateway' = [next_gateway EXCEPT ![d][k] =
                           (@ + 1) % GatewaysOf(t, k)]
     /\ gatewayLock' = [gatewayLock EXCEPT ![d][k] = NoThread]
  /\ place' = [place EXCEPT ![t] = @ + 1]
  /\ at' = [at EXCEPT ![t] = IF place[t] < result[t].size THEN "dial" ELSE "unpin"]
  /\ UNCHANGED <<stage, lcr, update_lock, dbVars, readers, held, call, result,
                 load, old, picks, lookups, lcrCrash>>

(* build_dialstring_list has no room left. It finds out when it has already *)
(* picked a gateway for the separator it wrote, after the first; or, if the *)
(* first carrier wrote nothing, from whatever was in the buffer.            *)
DialStringFull(t) ==
  /\ Alive /\ at[t] = "dial"
  /\ \/ place[t] > 2
     \/ place[t] = 2 /\ GatewaysOf(t, result[t].slot[1].value) = 0
  /\ at' = [at EXCEPT ![t] = "unpin"]
  /\ UNCHANGED <<stage, lcr, update_lock, dbVars, readers, held, callVars, load, old,
                 gatewayVars, lookups, lcrCrash>>

(* lcr_unlock                                                               *)
Unpin(t) ==
  /\ Alive /\ at[t] = "unpin"
  /\ readers' = [readers EXCEPT ![held[t]] = @ \ {t}]
  /\ at' = [at EXCEPT ![t] = "idle"] /\ held' = [held EXCEPT ![t] = 0]
  /\ call' = [call EXCEPT ![t] = NoCall]
  /\ result' = [result EXCEPT ![t] = NoRoutes]
  /\ place' = [place EXCEPT ![t] = 1]
  /\ UNCHANGED <<stage, lcr, update_lock, dbVars, load, old, gatewayVars, lookups,
                 lcrCrash>>

-----------------------------------------------------------------------------
(* mod_simple_lcr_shutdown. The core does not unload a module in use, and   *)
(* the handler is unbound when it has returned everywhere.                  *)
Unbind ==
  /\ Alive /\ stage = "running"
  /\ \A t \in Callers : at[t] = "idle"
  /\ \A l \in Loaders : load[l] = "idle"
  /\ stage' = "destroy"
  /\ UNCHANGED <<lcr, update_lock, dbVars, readers, at, held, callVars, load, old,
                 gatewayVars, lookups, lcrCrash>>

DestroyLast ==
  /\ Alive /\ stage = "destroy"
  /\ lcr # 0 => readers[lcr] = {}
  /\ dbState' = [d \in Dbs |-> IF d = lcr THEN "destroyed" ELSE dbState[d]]
  /\ stage' = "unloaded"
  /\ UNCHANGED <<lcr, update_lock, dbConf, readers, at, held, callVars, load, old,
                 gatewayVars, lookups, lcrCrash>>

-----------------------------------------------------------------------------
LoaderStep(l) == Swap(l) \/ Destroy(l) \/ LoadReturns(l)

CallerStep(t) ==
  \/ ReadPointer(t) \/ Pin(t) \/ Find(t)
  \/ NoGateway(t) \/ LockCarrier(t) \/ PickGateway(t) \/ AdvanceGateway(t)
  \/ DialStringFull(t)
  \/ Unpin(t)

LcrNext ==
  \/ \E l \in Loaders, c \in Configs : LoadConfig(l, c) \/ LoadNothing(l, c)
  \/ \E l \in Loaders : LoaderStep(l)
  \/ \E t \in Callers, c \in Calls : BeginLookup(t, c)
  \/ \E t \in Callers : CallerStep(t)
  \/ Unbind \/ DestroyLast

LcrSpec == LcrInit /\ [][LcrNext]_lcrVars

-----------------------------------------------------------------------------
(* What a lookup should find, told from the configuration alone             *)

StartsWith(number, prefix) ==
  Len(prefix) <= Len(number) /\ SubSeq(number, 1, Len(prefix)) = prefix

(* The carriers that take the caller's number for inter-area.               *)
InterCallers(c, number) ==
  {k \in DOMAIN c.carriers :
     \E i \in DOMAIN InterAreas(c.carriers[k]) :
        StartsWith(number, InterAreas(c.carriers[k])[i])}

(* A carrier lists one prefix of the number twice over.                     *)
AreasOverlap(c, number) ==
  \E k \in DOMAIN c.carriers : \E i, j \in DOMAIN InterAreas(c.carriers[k]) :
    /\ i # j
    /\ StartsWith(number, InterAreas(c.carriers[k])[i])
    /\ StartsWith(number, InterAreas(c.carriers[k])[j])

(* A carrier's later rate for the number, of a longer prefix or further     *)
(* down in its deck, costs no more than an earlier one: it takes its place. *)
RateReplaced(c, number) ==
  \E k \in DOMAIN c.carriers, type \in {0, 1} :
    \E i, j \in DOMAIN c.carriers[k].rates :
      LET x == c.carriers[k].rates[i]
          y == c.carriers[k].rates[j] IN
      /\ StartsWith(number, x.digits) /\ StartsWith(number, y.digits)
      /\ \/ Len(x.digits) < Len(y.digits)
         \/ Len(x.digits) = Len(y.digits) /\ i < j
      /\ 0 <= CostOf(y, type) /\ CostOf(y, type) <= CostOf(x, type)

(* The carriers whose inter rate is right for a call: all of them if the    *)
(* areas of the two numbers differ.                                         *)
InterCarriers(c, cl) ==
  IF lcr_is_inter_area(c, Database[c], cl) THEN DOMAIN c.carriers
  ELSE InterCallers(c, cl.cid)

MixedCall(c, cl) == InterCarriers(c, cl) \notin {{}, DOMAIN c.carriers}

(* The routes that the ratedecks have for a call.                           *)
RatesFor(c, cl) ==
  LET inter == InterCarriers(c, cl)
      route(k, i) ==
        LET type == IF k \in inter THEN 1 ELSE 0 IN
        [cost |-> CostOf(c.carriers[k].rates[i], type), value |-> k, type |-> type] IN
  {r \in UNION {{route(k, i) : i \in {j \in DOMAIN c.carriers[k].rates :
                                StartsWith(cl.dest, c.carriers[k].rates[j].digits)}} :
                k \in DOMAIN c.carriers} :
     r.cost >= 0}

(* A lookup has its routes and has not begun on the gateways.               *)
JustFound(t) == at[t] \in {"dial", "unpin"} /\ place[t] = 1

-----------------------------------------------------------------------------
(* Properties                                                               *)

LcrTypeOK ==
  /\ stage \in {"load", "running", "destroy", "unloaded"}
  /\ lcr \in 0 .. MaxLoads /\ update_lock \in Callers \cup {NoThread}
  /\ dbState \in [Dbs -> {"none", "private", "shared", "destroyed"}]
  /\ dbConf \in [Dbs -> Configs \cup {NoConfig}]
  /\ readers \in [Dbs -> SUBSET Callers]
  /\ at \in [Callers -> {"idle", "lock", "pin", "find", "dial", "pick",
                         "advance", "unpin"}]
  /\ held \in [Callers -> 0 .. MaxLoads]
  /\ load \in [Loaders -> {"idle", "swap", "destroy", "done"}]
  /\ old \in [Loaders -> 0 .. MaxLoads]
  /\ lookups \in Nat /\ lcrCrash \in {"no", "null", "destroyed"}

(* A database is not destroyed between the reading of the pointer and the   *)
(* read lock, nor under a lookup that has the read lock: the reload waits.  *)
PinnedIsAlive ==
  /\ lcrCrash # "destroyed"
  /\ \A t \in Callers :
       at[t] \in {"find", "dial", "pick", "advance", "unpin"} =>
         dbState[held[t]] = "shared" /\ t \in readers[held[t]]

(* Once a load succeeded a lookup has a database: neither a reload that     *)
(* fails nor one that succeeds leaves a moment without.                     *)
FailedLoadKeepsOld ==
  (\E d \in Dbs : dbState[d] = "shared") => lcr # 0 /\ lcrCrash # "null"

(* No reload and no failed load leaves a database behind: but for those in  *)
(* a loader's hands only the current one is there, and none after unload.   *)
NoDatabaseLeaks ==
  \A d \in Dbs :
    dbState[d] \in {"private", "shared"} =>
      (d = lcr /\ stage # "unloaded") \/ \E l \in Loaders : old[l] = d

(* The routes of a lookup are those of the number's prefixes, at the inter  *)
(* or intra rate that is right for the call and the carrier, and the first  *)
(* is the cheapest there is. Left out are empty numbers, callers that are   *)
(* not numbers or have two prefixes in one carrier's list, and 255 carriers *)
(* or 256 (the number of slots is 0 then, and 255 is the last that a size   *)
(* can hold). Where only some carriers take the call for inter-area the     *)
(* cheapest may be lost if the number is no number, or if a carrier's rate  *)
(* was replaced: the arrays that are merged forget routes behind a stale    *)
(* one.                                                                     *)
RoutesAtTheRightRate ==
  \A t \in Callers :
    LET c == dbConf[held[t]]
        cl == call[t] IN
    /\ JustFound(t) /\ Len(c.carriers) < 255
    /\ cl.dest # << >> /\ AllDigits(cl.cid) /\ ~AreasOverlap(c, cl.cid)
    => /\ Listed(result[t]) \subseteq RatesFor(c, cl)
       /\ (MixedCall(c, cl) => AllDigits(cl.dest) /\ ~RateReplaced(c, cl.dest))
          => \A r \in RatesFor(c, cl) :
               result[t].size > 0 /\ result[t].slot[1].cost <= r.cost

(* The calls of a carrier go to its gateways in turn, many threads dialling *)
(* at once: no gateway is two ahead of another.                             *)
GatewaysInTurn ==
  \A d \in Dbs : dbState[d] = "shared" =>
    \A k \in DOMAIN dbConf[d].carriers :
      \A g, h \in 0 .. dbConf[d].carriers[k].gateways - 1 :
        picks[d][k][g] <= picks[d][k][h] + 1

=============================================================================
