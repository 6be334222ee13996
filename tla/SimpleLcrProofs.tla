---------------------------- MODULE SimpleLcrProofs ----------------------------
(***************************************************************************)
(* Lookups and reloads of SimpleLcr, for any number of threads, databases  *)
(* and configurations: what a lookup has read-locked is not destroyed, a   *)
(* failed load changes nothing, no database is left behind, a carrier's    *)
(* gateways take turns, and a lookup finds the routes that its             *)
(* configuration has for the call, the cheapest first.                     *)
(***************************************************************************)
EXTENDS SimpleLcr, RouteListProofs

Reading == {"find", "dial", "pick", "advance", "unpin"}

(* A thread between the two locks of lcr_rdlock holds the first, and what   *)
(* it read is still the pointer.                                            *)
BetweenLocks ==
  \A t \in Callers :
    at[t] = "pin" => update_lock = t /\ (Alive => lcr # 0 /\ held[t] = lcr)

(* A thread that looks up holds the read lock of a database in use.         *)
ReadersHold ==
  \A t \in Callers :
    at[t] \in Reading =>
      held[t] \in Dbs /\ dbState[held[t]] = "shared" /\ t \in readers[held[t]]

(* The pointer is NULL until a load succeeds, then that of a database in    *)
(* use.                                                                     *)
PointerIsShared ==
  /\ lcr = 0 => \A d \in Dbs : dbState[d] # "shared"
  /\ lcr # 0 /\ stage # "unloaded" => dbState[lcr] = "shared"

(* What a loader has in its hands is its own.                               *)
InHand ==
  /\ \A l \in Loaders :
       /\ load[l] = "swap" => old[l] \in Dbs /\ dbState[old[l]] = "private"
       /\ load[l] = "destroy" => old[l] \in Dbs /\ dbState[old[l]] \in {"private", "shared"}
       /\ load[l] \in {"idle", "done"} => old[l] = 0
       /\ old[l] # 0 => old[l] # lcr
  /\ \A l, m \in Loaders : old[l] = old[m] /\ old[l] # 0 => l = m

(* Only a running module looks up, and one that is being unloaded loads     *)
(* nothing.                                                                 *)
Quiet ==
  /\ stage # "running" => \A t \in Callers : at[t] = "idle"
  /\ stage \in {"destroy", "unloaded"} => \A l \in Loaders : load[l] = "idle"

(* The process ends on a NULL pointer only, before a load succeeded.        *)
OnlyNull ==
  \/ lcrCrash = "no"
  \/ lcrCrash = "null" /\ \A d \in Dbs : dbState[d] # "shared"

IInv ==
  /\ LcrTypeOK /\ BetweenLocks /\ ReadersHold /\ PointerIsShared
  /\ InHand /\ Quiet /\ OnlyNull /\ NoDatabaseLeaks

-----------------------------------------------------------------------------
LEMMA DbsAreNat == Dbs \subseteq Nat \ {0} /\ Dbs = 1 .. MaxLoads
  BY LcrAssumption DEF LcrAssumption, Dbs

(* The database that is created next is one that was not.                   *)
LEMMA NewDbIsNew ==
  ASSUME \E d \in Dbs : dbState[d] = "none"
  PROVE  NewDb \in Dbs /\ dbState[NewDb] = "none"
  BY DEF NewDb

LEMMA InitHolds == LcrInit => IInv
  <1> SUFFICES ASSUME LcrInit PROVE IInv
    OBVIOUS
  <1>1. 0 \in 0 .. MaxLoads
    BY LcrAssumption DEF LcrAssumption
  <1>2. LcrTypeOK
    BY <1>1 DEF LcrInit, LcrTypeOK
  <1>3. BetweenLocks /\ ReadersHold /\ PointerIsShared /\ InHand /\ Quiet /\ OnlyNull
    BY DEF LcrInit, BetweenLocks, ReadersHold, Reading, PointerIsShared, InHand,
           Quiet, OnlyNull
  <1>4. NoDatabaseLeaks
    BY DEF LcrInit, NoDatabaseLeaks
  <1>5. QED BY <1>2, <1>3, <1>4 DEF IInv

-----------------------------------------------------------------------------
(* The steps of a loader.                                                   *)

LEMMA LoadConfigKeeps ==
  ASSUME IInv, NEW l \in Loaders, NEW c \in Configs, LoadConfig(l, c)
  PROVE  IInv'
  <1> DEFINE new == NewDb
  <1>1. /\ new \in Dbs /\ dbState[new] = "none"
        /\ dbState' = [dbState EXCEPT ![new] = "private"]
        /\ dbConf' = [dbConf EXCEPT ![new] = c]
        /\ old' = [old EXCEPT ![l] = new]
        /\ load' \in {[load EXCEPT ![l] = "destroy"], [load EXCEPT ![l] = "swap"]}
        /\ stage \in {"running", "load"} /\ load[l] = "idle" /\ Alive
        /\ UNCHANGED <<stage, lcr, update_lock, readers, at, held, lookups, lcrCrash>>
    BY NewDbIsNew DEF LoadConfig, MayLoad
  <1>2. new \in 0 .. MaxLoads /\ new # 0 /\ new # lcr
    BY <1>1, DbsAreNat, LcrAssumption
    DEF LcrAssumption, IInv, PointerIsShared
  <1> HIDE DEF new
  <1>3. LcrTypeOK'
    BY <1>1, <1>2 DEF IInv, LcrTypeOK
  <1>4. BetweenLocks' /\ Quiet'
    BY <1>1 DEF IInv, LcrTypeOK, BetweenLocks, Alive, Quiet
  <1>5. ReadersHold' /\ OnlyNull'
    BY <1>1 DEF IInv, LcrTypeOK, ReadersHold, OnlyNull
  <1>6. PointerIsShared'
    BY <1>1, <1>2 DEF IInv, LcrTypeOK, PointerIsShared
  <1>7. \A m \in Loaders : old[m] # new
    BY <1>1, <1>2 DEF IInv, LcrTypeOK, InHand
  <1>8. InHand'
    BY <1>1, <1>2, <1>7 DEF IInv, LcrTypeOK, InHand
  <1>9. NoDatabaseLeaks'
    <2>1. SUFFICES ASSUME NEW d \in Dbs, dbState'[d] \in {"private", "shared"}
                   PROVE  d = lcr \/ \E m \in Loaders : old'[m] = d
      BY <1>1 DEF NoDatabaseLeaks
    <2>2. CASE d = new
      BY <1>1, <2>2 DEF IInv, LcrTypeOK
    <2>3. CASE d # new
      <3>1. d = lcr \/ \E m \in Loaders : old[m] = d
        BY <1>1, <2>1, <2>3 DEF IInv, LcrTypeOK, NoDatabaseLeaks
      <3>2. ASSUME NEW m \in Loaders, old[m] = d PROVE old'[m] = d
        <4>1. d # 0 /\ old[l] = 0
          BY <1>1, DbsAreNat DEF IInv, InHand
        <4>2. m # l
          BY <3>2, <4>1
        <4>3. QED BY <1>1, <3>2, <4>2 DEF IInv, LcrTypeOK
      <3>3. QED BY <3>1, <3>2
    <2>4. QED BY <2>2, <2>3
  <1>10. QED BY <1>3, <1>4, <1>5, <1>6, <1>8, <1>9 DEF IInv

LEMMA SwapKeeps ==
  ASSUME IInv, NEW l \in Loaders, Swap(l)
  PROVE  IInv'
  <1> DEFINE new == old[l]
  <1>1. /\ new \in Dbs /\ dbState[new] = "private" /\ update_lock = NoThread
        /\ dbState' = [dbState EXCEPT ![new] = "shared"]
        /\ lcr' = new /\ old' = [old EXCEPT ![l] = lcr]
        /\ load' = [load EXCEPT ![l] = IF lcr = 0 THEN "done" ELSE "destroy"]
        /\ load[l] = "swap" /\ Alive
        /\ UNCHANGED <<stage, update_lock, dbConf, readers, at, held, lookups, lcrCrash>>
    BY DEF Swap, IInv, InHand
  <1>2. new \in 0 .. MaxLoads /\ new # 0 /\ new # lcr
    BY <1>1, DbsAreNat DEF IInv, InHand
  <1>3. stage # "unloaded" /\ \A t \in Callers : at[t] # "pin"
    BY <1>1, LcrAssumption DEF LcrAssumption, IInv, Quiet, BetweenLocks
  <1>4. lcr # 0 => lcr \in Dbs /\ dbState[lcr] = "shared"
    BY <1>3, DbsAreNat DEF IInv, LcrTypeOK, PointerIsShared
  <1>5. \A m \in Loaders : m # l => old[m] # new
    BY <1>2 DEF IInv, InHand
  <1> HIDE DEF new
  <1>6. LcrTypeOK'
    BY <1>1, <1>2 DEF IInv, LcrTypeOK
  <1>7. BetweenLocks' /\ Quiet'
    BY <1>1, <1>3 DEF IInv, LcrTypeOK, BetweenLocks, Quiet
  <1>8. ReadersHold' /\ OnlyNull'
    <2>1. ReadersHold'
      BY <1>1 DEF IInv, LcrTypeOK, ReadersHold
    <2>2. lcrCrash' = "no"
      BY <1>1 DEF Alive
    <2>3. OnlyNull'
      BY <2>2 DEF OnlyNull
    <2>4. QED BY <2>1, <2>3
  <1>9. PointerIsShared'
    BY <1>1, <1>2 DEF IInv, LcrTypeOK, PointerIsShared
  <1>10. InHand'
    BY <1>1, <1>2, <1>4, <1>5 DEF IInv, LcrTypeOK, InHand
  <1>11. NoDatabaseLeaks'
    <2>1. SUFFICES ASSUME NEW d \in Dbs, dbState'[d] \in {"private", "shared"}
                   PROVE  d = lcr' \/ \E m \in Loaders : old'[m] = d
      BY <1>1, <1>3 DEF NoDatabaseLeaks
    <2>2. CASE d = new
      BY <1>1, <2>2
    <2>3. CASE d # new
      <3>1. d = lcr \/ \E m \in Loaders : old[m] = d
        BY <1>1, <2>1, <2>3 DEF IInv, LcrTypeOK, NoDatabaseLeaks
      <3>2. CASE d = lcr
        BY <3>2, <1>1 DEF IInv, LcrTypeOK
      <3>3. CASE \E m \in Loaders : old[m] = d
        <4>1. PICK m \in Loaders : old[m] = d
          BY <3>3
        <4>2. m # l /\ old'[m] = d
          BY <1>1, <2>3, <4>1 DEF new, IInv, LcrTypeOK
        <4>3. QED BY <4>2
      <3>4. QED BY <3>1, <3>2, <3>3
    <2>4. QED BY <2>2, <2>3
  <1>12. QED BY <1>6, <1>7, <1>8, <1>9, <1>10, <1>11 DEF IInv

LEMMA DestroyKeeps ==
  ASSUME IInv, NEW l \in Loaders, Destroy(l)
  PROVE  IInv'
  <1> DEFINE gone == old[l]
  <1>1. /\ gone \in Dbs /\ readers[gone] = {} /\ gone # 0 /\ gone # lcr
        /\ dbState' = [dbState EXCEPT ![gone] = "destroyed"]
        /\ old' = [old EXCEPT ![l] = 0]
        /\ load' = [load EXCEPT ![l] = "done"] /\ load[l] = "destroy" /\ Alive
        /\ UNCHANGED <<stage, lcr, update_lock, dbConf, readers, at, held, lookups, lcrCrash>>
    BY DbsAreNat DEF Destroy, IInv, InHand
  <1>2. \A m \in Loaders : m # l => old[m] # gone
    BY <1>1 DEF IInv, InHand
  <1>3. 0 \in 0 .. MaxLoads
    BY LcrAssumption DEF LcrAssumption
  <1>4. stage # "unloaded"
    BY <1>1 DEF IInv, Quiet
  <1> HIDE DEF gone
  <1>5. LcrTypeOK'
    BY <1>1, <1>3 DEF IInv, LcrTypeOK
  <1>6. BetweenLocks' /\ Quiet'
    BY <1>1 DEF IInv, LcrTypeOK, BetweenLocks, Quiet, Alive
  <1>7. ReadersHold' /\ OnlyNull'
    BY <1>1 DEF IInv, LcrTypeOK, ReadersHold, OnlyNull, Alive
  <1>8. PointerIsShared'
    BY <1>1 DEF IInv, LcrTypeOK, PointerIsShared
  <1>9. InHand'
    BY <1>1, <1>2 DEF IInv, LcrTypeOK, InHand
  <1>10. NoDatabaseLeaks'
    BY <1>1, <1>4 DEF gone, IInv, LcrTypeOK, NoDatabaseLeaks
  <1>11. QED BY <1>5, <1>6, <1>7, <1>8, <1>9, <1>10 DEF IInv

LEMMA LoadEndsKeeps ==
  ASSUME IInv, NEW l \in Loaders, LoadReturns(l) \/ \E c \in Configs : LoadNothing(l, c)
  PROVE  IInv'
  <1>1. /\ Alive /\ stage # "destroy" /\ stage # "unloaded" /\ old[l] = 0
        /\ stage' \in {stage, "running"}
        /\ load' \in {[load EXCEPT ![l] = "done"], [load EXCEPT ![l] = "idle"]}
        /\ UNCHANGED <<lcr, update_lock, dbVars, readers, at, held, old, lookups, lcrCrash>>
    BY DEF LoadReturns, LoadNothing, MayLoad, IInv, Quiet, InHand, LcrTypeOK
  <1>2. LcrTypeOK' /\ NoDatabaseLeaks'
    BY <1>1 DEF dbVars, IInv, LcrTypeOK, NoDatabaseLeaks
  <1>3. BetweenLocks' /\ ReadersHold' /\ PointerIsShared' /\ OnlyNull'
    BY <1>1 DEF dbVars, IInv, BetweenLocks, Alive, ReadersHold, PointerIsShared, OnlyNull
  <1>4. InHand'
    BY <1>1 DEF dbVars, IInv, LcrTypeOK, InHand
  <1>5. Quiet'
    BY <1>1 DEF IInv, LcrTypeOK, Quiet
  <1>6. QED BY <1>2, <1>3, <1>4, <1>5 DEF IInv

-----------------------------------------------------------------------------
(* The steps of a lookup.                                                   *)

LEMMA BeginKeeps ==
  ASSUME IInv, NEW t \in Callers, \E c \in Calls : BeginLookup(t, c)
  PROVE  IInv'
  <1>1. /\ Alive /\ stage = "running"
        /\ at' = [at EXCEPT ![t] = "lock"] /\ lookups' = lookups + 1
        /\ UNCHANGED <<stage, lcr, update_lock, dbVars, readers, held, load, old, lcrCrash>>
    BY DEF BeginLookup
  <1>2. LcrTypeOK' /\ NoDatabaseLeaks'
    BY <1>1 DEF dbVars, IInv, LcrTypeOK, NoDatabaseLeaks
  <1>3. BetweenLocks' /\ ReadersHold'
    BY <1>1 DEF dbVars, IInv, LcrTypeOK, BetweenLocks, Alive, ReadersHold, Reading
  <1>4. PointerIsShared' /\ InHand' /\ Quiet' /\ OnlyNull'
    BY <1>1 DEF dbVars, IInv, PointerIsShared, InHand, Quiet, OnlyNull
  <1>5. QED BY <1>2, <1>3, <1>4 DEF IInv

LEMMA ReadPointerKeeps ==
  ASSUME IInv, NEW t \in Callers, ReadPointer(t)
  PROVE  IInv'
  <1>1. /\ Alive /\ at[t] = "lock" /\ update_lock = NoThread /\ update_lock' = t
        /\ held' = [held EXCEPT ![t] = lcr]
        /\ lcrCrash' = IF lcr = 0 THEN "null" ELSE lcrCrash
        /\ at' = [at EXCEPT ![t] = "pin"]
        /\ UNCHANGED <<stage, lcr, dbVars, readers, load, old, lookups>>
    BY DEF ReadPointer
  <1>2. \A u \in Callers : at[u] # "pin"
    BY <1>1, LcrAssumption DEF LcrAssumption, IInv, BetweenLocks
  <1>3. LcrTypeOK' /\ NoDatabaseLeaks'
    BY <1>1 DEF dbVars, IInv, LcrTypeOK, NoDatabaseLeaks
  <1>4. BetweenLocks'
    BY <1>1, <1>2 DEF IInv, LcrTypeOK, BetweenLocks, Alive
  <1>5. ReadersHold'
    BY <1>1 DEF dbVars, IInv, LcrTypeOK, ReadersHold, Reading
  <1>6. PointerIsShared' /\ InHand'
    BY <1>1 DEF dbVars, IInv, PointerIsShared, InHand
  <1>7. Quiet'
    BY <1>1 DEF IInv, LcrTypeOK, Quiet
  <1>8. OnlyNull'
    BY <1>1 DEF dbVars, IInv, PointerIsShared, OnlyNull, Alive
  <1>9. QED BY <1>3, <1>4, <1>5, <1>6, <1>7, <1>8 DEF IInv

LEMMA PinKeeps ==
  ASSUME IInv, NEW t \in Callers, Pin(t)
  PROVE  IInv'
  <1>1. /\ Alive /\ at[t] = "pin" /\ update_lock = t /\ stage = "running"
        /\ lcr # 0 /\ held[t] = lcr
    BY DEF Pin, IInv, BetweenLocks, Quiet
  <1>2. held[t] \in Dbs /\ dbState[held[t]] = "shared"
    BY <1>1, DbsAreNat DEF IInv, LcrTypeOK, PointerIsShared
  <1>3. /\ lcrCrash' = "no" /\ update_lock' = NoThread
        /\ readers' = [readers EXCEPT ![held[t]] = @ \cup {t}]
        /\ at' = [at EXCEPT ![t] = "find"]
        /\ UNCHANGED <<stage, lcr, dbVars, held, load, old, lookups>>
    BY <1>1, <1>2 DEF Pin
  <1>4. LcrTypeOK' /\ NoDatabaseLeaks'
    BY <1>2, <1>3 DEF dbVars, IInv, LcrTypeOK, NoDatabaseLeaks
  <1>5. BetweenLocks'
    BY <1>1, <1>3 DEF IInv, LcrTypeOK, BetweenLocks
  <1>6. ReadersHold'
    BY <1>2, <1>3 DEF dbVars, IInv, LcrTypeOK, ReadersHold, Reading
  <1>7. PointerIsShared' /\ InHand' /\ OnlyNull'
    BY <1>3 DEF dbVars, IInv, PointerIsShared, InHand, OnlyNull
  <1>8. Quiet'
    BY <1>1, <1>3 DEF IInv, LcrTypeOK, Quiet
  <1>9. QED BY <1>4, <1>5, <1>6, <1>7, <1>8 DEF IInv

(* From the read lock on a lookup only goes from place to place.            *)
LEMMA FindAndDialKeep ==
  ASSUME IInv, NEW t \in Callers,
         Find(t) \/ NoGateway(t) \/ LockCarrier(t) \/ PickGateway(t)
         \/ AdvanceGateway(t) \/ DialStringFull(t)
  PROVE  IInv'
  <1>1. at[t] \in Reading /\ at[t] # "idle" /\ dbState[held[t]] = "shared"
    BY DEF Find, NoGateway, LockCarrier, PickGateway, AdvanceGateway, DialStringFull, Reading, IInv,
           ReadersHold
  <1>2. PICK p \in {"dial", "pick", "advance", "unpin"} : at' = [at EXCEPT ![t] = p]
    BY <1>1 DEF Find, NoGateway, LockCarrier, PickGateway, AdvanceGateway, DialStringFull
  <1>3. UNCHANGED <<stage, lcr, update_lock, dbVars, readers, held, load, old, lookups, lcrCrash>>
    BY <1>1 DEF Find, NoGateway, LockCarrier, PickGateway, AdvanceGateway, DialStringFull
  <1>4. LcrTypeOK' /\ NoDatabaseLeaks'
    BY <1>2, <1>3 DEF dbVars, IInv, LcrTypeOK, NoDatabaseLeaks
  <1>5. BetweenLocks'
    BY <1>2, <1>3 DEF IInv, LcrTypeOK, BetweenLocks, Alive
  <1>6. ReadersHold'
    BY <1>1, <1>2, <1>3 DEF dbVars, IInv, LcrTypeOK, ReadersHold
  <1>7. PointerIsShared' /\ InHand' /\ OnlyNull'
    BY <1>3 DEF dbVars, IInv, PointerIsShared, InHand, OnlyNull
  <1>8. Quiet'
    BY <1>1, <1>2, <1>3 DEF IInv, LcrTypeOK, Quiet
  <1>9. QED BY <1>4, <1>5, <1>6, <1>7, <1>8 DEF IInv

LEMMA UnpinKeeps ==
  ASSUME IInv, NEW t \in Callers, Unpin(t)
  PROVE  IInv'
  <1>1. /\ at[t] = "unpin" /\ held[t] \in Dbs
        /\ readers' = [readers EXCEPT ![held[t]] = @ \ {t}]
        /\ at' = [at EXCEPT ![t] = "idle"] /\ held' = [held EXCEPT ![t] = 0]
        /\ UNCHANGED <<stage, lcr, update_lock, dbVars, load, old, lookups, lcrCrash>>
    BY DEF Unpin, Reading, IInv, ReadersHold
  <1>2. 0 \in 0 .. MaxLoads
    BY LcrAssumption DEF LcrAssumption
  <1>3. LcrTypeOK' /\ NoDatabaseLeaks'
    BY <1>1, <1>2 DEF dbVars, IInv, LcrTypeOK, NoDatabaseLeaks
  <1>4. BetweenLocks'
    BY <1>1 DEF IInv, LcrTypeOK, BetweenLocks, Alive
  <1>5. ReadersHold'
    BY <1>1 DEF dbVars, IInv, LcrTypeOK, ReadersHold, Reading
  <1>6. PointerIsShared' /\ InHand' /\ OnlyNull'
    BY <1>1 DEF dbVars, IInv, PointerIsShared, InHand, OnlyNull
  <1>7. Quiet'
    BY <1>1 DEF IInv, LcrTypeOK, Quiet
  <1>8. QED BY <1>3, <1>4, <1>5, <1>6, <1>7 DEF IInv

-----------------------------------------------------------------------------
(* The steps of the unload.                                                 *)

LEMMA UnloadKeeps ==
  ASSUME IInv, Unbind \/ DestroyLast
  PROVE  IInv'
  <1> USE DEF IInv
  <1>1. CASE Unbind
    <2>1. LcrTypeOK' /\ NoDatabaseLeaks' /\ InHand'
      BY <1>1 DEF Unbind, dbVars, LcrTypeOK, NoDatabaseLeaks, InHand
    <2>2. BetweenLocks' /\ ReadersHold' /\ PointerIsShared' /\ Quiet' /\ OnlyNull'
      BY <1>1 DEF Unbind, dbVars, BetweenLocks, Alive, ReadersHold, PointerIsShared, Quiet,
                  OnlyNull
    <2>3. QED BY <2>1, <2>2
  <1>2. CASE DestroyLast
    <2>1. /\ \A t \in Callers : at[t] = "idle"
          /\ \A l \in Loaders : load[l] = "idle" /\ old[l] = 0
      BY <1>2 DEF DestroyLast, Quiet, InHand
    <2>2. LcrTypeOK' /\ InHand' /\ Quiet'
      BY <1>2, <2>1 DEF DestroyLast, LcrTypeOK, InHand, Quiet
    <2>3. BetweenLocks' /\ ReadersHold'
      BY <1>2, <2>1 DEF DestroyLast, BetweenLocks, ReadersHold, Reading
    <2>4. PointerIsShared' /\ OnlyNull'
      BY <1>2, <2>1 DEF DestroyLast, PointerIsShared, OnlyNull, Alive
    <2>5. NoDatabaseLeaks'
      BY <1>2, <2>1, DbsAreNat DEF DestroyLast, NoDatabaseLeaks
    <2>6. QED BY <2>2, <2>3, <2>4, <2>5
  <1>3. QED BY <1>1, <1>2

LEMMA StepKeeps == IInv /\ [LcrNext]_lcrVars => IInv'
  <1> SUFFICES ASSUME IInv, [LcrNext]_lcrVars PROVE IInv'
    OBVIOUS
  <1>1. CASE \E l \in Loaders, c \in Configs : LoadConfig(l, c) \/ LoadNothing(l, c)
    BY <1>1, LoadConfigKeeps, LoadEndsKeeps
  <1>2. CASE \E l \in Loaders : LoaderStep(l)
    BY <1>2, SwapKeeps, DestroyKeeps, LoadEndsKeeps DEF LoaderStep
  <1>3. CASE \E t \in Callers, c \in Calls : BeginLookup(t, c)
    BY <1>3, BeginKeeps
  <1>4. CASE \E t \in Callers : CallerStep(t)
    BY <1>4, ReadPointerKeeps, PinKeeps, FindAndDialKeep, UnpinKeeps DEF CallerStep
  <1>5. CASE Unbind \/ DestroyLast
    BY <1>5, UnloadKeeps
  <1>6. CASE UNCHANGED lcrVars
    BY <1>6 DEF lcrVars, dbVars, callVars, gatewayVars, IInv, LcrTypeOK, BetweenLocks, Alive,
                ReadersHold, PointerIsShared, InHand, Quiet, OnlyNull, NoDatabaseLeaks
  <1>7. QED BY <1>1, <1>2, <1>3, <1>4, <1>5, <1>6 DEF LcrNext

THEOREM Inductive == LcrSpec => []IInv
  BY InitHolds, StepKeeps, PTL DEF LcrSpec

-----------------------------------------------------------------------------
(* The database a lookup has between lcr_rdlock and lcr_unlock is the one   *)
(* in use or one whose destruction waits for it.                            *)
THEOREM LookupsAreSafe == LcrSpec => []PinnedIsAlive
  <1>1. IInv => PinnedIsAlive
    BY DEF IInv, OnlyNull, ReadersHold, Reading, PinnedIsAlive
  <1>2. QED BY Inductive, <1>1, PTL

(* From the first load that succeeds to the unload, globals.lcr points to a *)
(* database, whatever loads fail and in whatever order they end.            *)
THEOREM LoadsNeverClear == LcrSpec => []FailedLoadKeepsOld
  <1>1. IInv => FailedLoadKeepsOld
    BY DEF IInv, OnlyNull, PointerIsShared, FailedLoadKeepsOld
  <1>2. QED BY Inductive, <1>1, PTL

(* Every database that was created is the current one, in the hands of a    *)
(* loader, or destroyed.                                                    *)
THEOREM NothingLeaks == LcrSpec => []NoDatabaseLeaks
  <1>1. IInv => NoDatabaseLeaks
    BY DEF IInv
  <1>2. QED BY Inductive, <1>1, PTL

-----------------------------------------------------------------------------
(* The gateways of a carrier, on top of IInv.                               *)

(* A carrier's gateways in turn: those before the x-th have been picked     *)
(* once more than the others.                                               *)
InTurn(times, n, x) ==
  \A g, h \in 0 .. n - 1 :
    /\ (g < x <=> h < x) => times[g] = times[h]
    /\ g < x /\ ~(h < x) => times[g] = times[h] + 1

(* Somebody has picked a gateway of the carrier and not yet moved on.       *)
Picked(d, k) == \E t \in Callers : at[t] = "advance" /\ held[t] = d /\ NextCarrier(t) = k

GatewayTypes ==
  /\ DOMAIN next_gateway = Dbs /\ \A d \in Dbs : DOMAIN next_gateway[d] = CarrierIds
  /\ gatewayLock \in [Dbs -> [CarrierIds -> Callers \cup {NoThread}]]
  /\ picks \in [Dbs -> [CarrierIds -> [Gateways -> Nat]]]
  /\ DOMAIN result = Callers /\ DOMAIN place = Callers

(* Only a configuration that was read and did not fail is swapped in.       *)
Approved ==
  /\ \A l \in Loaders :
       load[l] = "swap" => LET c == dbConf[old[l]] IN c \in Configs /\ c.reads /\ ~Fails(c)
  /\ \A d \in Dbs :
       dbState[d] = "shared" => LET c == dbConf[d] IN c \in Configs /\ c.reads /\ ~Fails(c)

(* Nobody has called through a database before it is swapped in.            *)
Unused ==
  \A d \in Dbs : dbState[d] \in {"none", "private"} =>
    \A k \in CarrierIds :
      next_gateway[d][k] = 0 /\ \A g \in Gateways : picks[d][k][g] = 0

(* Whoever is between the lock and the unlock of carrier_select_gateway has *)
(* the carrier's mutex.                                                     *)
OneAtATime ==
  \A t \in Callers : at[t] \in {"pick", "advance"} /\ NextCarrier(t) \in CarrierIds =>
    gatewayLock[held[t]][NextCarrier(t)] = t

(* next_gateway tells whose turn it is, but for a pick that is under way.   *)
TurnKept ==
  \A d \in Dbs : dbState[d] = "shared" =>
    \A k \in DOMAIN dbConf[d].carriers :
      LET n == dbConf[d].carriers[k].gateways
          next == next_gateway[d][k] IN
      /\ n > 0 => next \in 0 .. n - 1
      /\ InTurn(picks[d][k], n, IF Picked(d, k) THEN next + 1 ELSE next)

GInv == GatewayTypes /\ Approved /\ Unused /\ OneAtATime /\ TurnKept

LEMMA GatewaysOfCarrier ==
  ASSUME NEW c \in Configs, c.reads, ~Fails(c), NEW k \in DOMAIN c.carriers
  PROVE  c.carriers[k].gateways \in 0 .. MaxGateways
  <1>1. c.carriers \in Seq(Carriers)
    BY ConfigAssumption DEF ConfigAssumption
  <1>2. c.carriers[k] \in Carriers
    BY <1>1
  <1>3. QED BY <1>2 DEF Carriers

LEMMA NextTurn ==
  ASSUME NEW n \in Nat \ {0}, NEW x \in 0 .. n - 1
  PROVE  (x + 1) % n = IF x + 1 = n THEN 0 ELSE x + 1
  OBVIOUS

(* The carriers of a database in use have ids, and as many gateways as the  *)
(* code has room for.                                                       *)
LEMMA CarriersInUse ==
  ASSUME GInv, NEW d \in Dbs, dbState[d] = "shared", NEW k \in DOMAIN dbConf[d].carriers
  PROVE  /\ k \in CarrierIds
         /\ dbConf[d].carriers[k].gateways \in Nat
         /\ \A g \in 0 .. dbConf[d].carriers[k].gateways - 1 : g \in Gateways
  <1>1. dbConf[d] \in Configs /\ dbConf[d].reads /\ ~Fails(dbConf[d])
    BY DEF GInv, Approved
  <1>2. k \in CarrierIds
    BY <1>1 DEF CarrierIds
  <1>3. dbConf[d].carriers[k].gateways \in 0 .. MaxGateways
    BY <1>1, GatewaysOfCarrier
  <1>4. QED BY <1>2, <1>3, LcrAssumption DEF Gateways, LcrAssumption

LEMMA GInitHolds == LcrInit => GInv
  <1> SUFFICES ASSUME LcrInit PROVE GInv
    OBVIOUS
  <1>1. GatewayTypes
    BY DEF LcrInit, GatewayTypes
  <1>2. Approved /\ Unused /\ OneAtATime /\ TurnKept
    BY DEF LcrInit, Approved, Unused, OneAtATime, TurnKept
  <1>3. QED BY <1>1, <1>2 DEF GInv

(* A step that has nothing to do with the gateways, nor with anybody that   *)
(* has.                                                                     *)
LEMMA ElsewhereKeeps ==
  ASSUME GInv, UNCHANGED <<dbVars, gatewayVars>>,
         \A t \in Callers :
           {at[t], at'[t]} \cap {"pick", "advance"} # {} =>
             at'[t] = at[t] /\ held'[t] = held[t] /\ NextCarrier(t)' = NextCarrier(t),
         \A l \in Loaders : load'[l] = "swap" => load[l] = "swap" /\ old'[l] = old[l],
         DOMAIN result' = DOMAIN result, DOMAIN place' = DOMAIN place
  PROVE  GInv'
  <1> USE DEF GInv
  <1>1. UNCHANGED <<dbState, dbConf, next_gateway, gatewayLock, picks>>
    BY DEF dbVars, gatewayVars
  <1>2. GatewayTypes' /\ Approved' /\ Unused'
    BY <1>1 DEF GatewayTypes, Approved, Unused
  <1>3. OneAtATime'
    BY <1>1 DEF OneAtATime
  <1>4. \A d, k : Picked(d, k)' <=> Picked(d, k)
    BY DEF Picked
  <1>5. TurnKept'
    BY <1>1, <1>4 DEF TurnKept
  <1>6. QED BY <1>2, <1>3, <1>5

(* A step of a loader: databases change their state, and nobody moves.      *)
LEMMA LoadersKeep ==
  ASSUME IInv, GInv,
         UNCHANGED <<gatewayVars, at, held, result, place>>,
         Approved', Unused',
         \A d \in Dbs : dbState'[d] = "shared" =>
            \/ dbState[d] = "shared" /\ dbConf'[d] = dbConf[d]
            \/ dbState[d] = "private"
  PROVE  GInv'
  <1> USE DEF GInv
  <1>1. UNCHANGED <<next_gateway, gatewayLock, picks>>
    BY DEF gatewayVars
  <1>2. GatewayTypes' /\ OneAtATime'
    BY <1>1 DEF GatewayTypes, OneAtATime, NextCarrier
  <1>3. \A d, k : Picked(d, k)' <=> Picked(d, k)
    BY DEF Picked, NextCarrier
  <1>4. ASSUME NEW d \in Dbs, dbState'[d] = "shared", NEW k \in DOMAIN dbConf'[d].carriers
        PROVE  LET n == dbConf'[d].carriers[k].gateways
                   next == next_gateway[d][k] IN
               /\ n > 0 => next \in 0 .. n - 1
               /\ InTurn(picks[d][k], n, IF Picked(d, k) THEN next + 1 ELSE next)
    <2>1. CASE dbState[d] = "shared" /\ dbConf'[d] = dbConf[d]
      BY <2>1, <1>4 DEF TurnKept
    <2>2. CASE dbState[d] = "private"
      <3>1. dbConf'[d] \in Configs /\ dbConf'[d].reads /\ ~Fails(dbConf'[d])
        BY <1>4 DEF Approved
      <3>2. k \in CarrierIds
        BY <3>1, <1>4 DEF CarrierIds
      <3>3. dbConf'[d].carriers[k].gateways \in 0 .. MaxGateways
        BY <3>1, <1>4, GatewaysOfCarrier
      <3>4. next_gateway[d][k] = 0 /\ \A g \in Gateways : picks[d][k][g] = 0
        BY <2>2, <3>2 DEF Unused
      <3>5. ~Picked(d, k)
        BY <2>2 DEF Picked, IInv, ReadersHold, Reading
      <3>6. \A g \in 0 .. dbConf'[d].carriers[k].gateways - 1 : picks[d][k][g] = 0
        BY <3>3, <3>4, LcrAssumption DEF Gateways, LcrAssumption
      <3>7. InTurn(picks[d][k], dbConf'[d].carriers[k].gateways, 0)
        BY <3>3, <3>6, LcrAssumption DEF InTurn, LcrAssumption
      <3>8. QED BY <3>3, <3>4, <3>5, <3>7, LcrAssumption DEF LcrAssumption
    <2>3. QED BY <1>4, <2>1, <2>2
  <1>5. TurnKept'
    BY <1>1, <1>3, <1>4 DEF TurnKept
  <1>6. QED BY <1>2, <1>5

LEMMA LoaderStepsKeepGateways ==
  ASSUME IInv, GInv, NEW l \in Loaders
  PROVE  /\ \A c \in Configs : LoadConfig(l, c) => GInv'
         /\ Swap(l) \/ Destroy(l) \/ DestroyLast => GInv'
  <1> USE DEF GInv, IInv, LcrTypeOK
  <1>1. ASSUME NEW c \in Configs, LoadConfig(l, c) PROVE GInv'
    <2> DEFINE new == NewDb
    <2>1. /\ new \in Dbs /\ dbState[new] = "none" /\ c.reads
          /\ dbState' = [dbState EXCEPT ![new] = "private"]
          /\ dbConf' = [dbConf EXCEPT ![new] = c]
          /\ old' = [old EXCEPT ![l] = new]
          /\ load' = [load EXCEPT ![l] = IF Fails(c) THEN "destroy" ELSE "swap"]
          /\ UNCHANGED <<gatewayVars, at, held, result, place>>
      BY <1>1, NewDbIsNew DEF LoadConfig, callVars
    <2> HIDE DEF new
    <2>2. Approved'
      <3>1. ASSUME NEW m \in Loaders, load'[m] = "swap"
            PROVE  LET k == dbConf'[old'[m]] IN k \in Configs /\ k.reads /\ ~Fails(k)
        <4>1. CASE m = l
          <5>1. ~Fails(c)
            BY <2>1, <3>1, <4>1
          <5>2. old'[m] = new /\ dbConf'[new] = c
            BY <2>1, <4>1
          <5>3. QED BY <5>1, <5>2, <2>1
        <4>2. CASE m # l
          <5>1. load[m] = "swap" /\ old'[m] = old[m] /\ old[m] \in Dbs
                /\ dbState[old[m]] = "private"
            BY <2>1, <3>1, <4>2 DEF InHand
          <5>2. dbConf'[old[m]] = dbConf[old[m]]
            BY <2>1, <5>1
          <5>3. QED BY <5>1, <5>2 DEF Approved
        <4>3. QED BY <4>1, <4>2
      <3>2. \A d \in Dbs : dbState'[d] = "shared" =>
              dbState[d] = "shared" /\ dbConf'[d] = dbConf[d]
        BY <2>1
      <3>3. QED BY <3>1, <3>2 DEF Approved
    <2>3. Unused'
      BY <2>1 DEF Unused, gatewayVars
    <2>4. \A d \in Dbs : dbState'[d] = "shared" =>
            dbState[d] = "shared" /\ dbConf'[d] = dbConf[d]
      BY <2>1
    <2>5. QED BY <2>1, <2>2, <2>3, <2>4, LoadersKeep
  <1>2. ASSUME Swap(l) PROVE GInv'
    <2>1. /\ old[l] \in Dbs /\ dbState[old[l]] = "private" /\ load[l] = "swap"
          /\ dbState' = [dbState EXCEPT ![old[l]] = "shared"]
          /\ old' = [old EXCEPT ![l] = lcr]
          /\ load' = [load EXCEPT ![l] = IF lcr = 0 THEN "done" ELSE "destroy"]
          /\ UNCHANGED <<dbConf, gatewayVars, at, held, result, place>>
      BY <1>2 DEF Swap, InHand
    <2>2. \A m \in Loaders : load'[m] = "swap" => load[m] = "swap" /\ old'[m] = old[m]
      BY <2>1
    <2>3. Approved' /\ Unused'
      BY <2>1, <2>2 DEF Approved, Unused, gatewayVars
    <2>4. QED BY <2>1, <2>3, LoadersKeep
  <1>3. ASSUME Destroy(l) PROVE GInv'
    <2>1. /\ old[l] \in Dbs
          /\ dbState' = [dbState EXCEPT ![old[l]] = "destroyed"]
          /\ old' = [old EXCEPT ![l] = 0]
          /\ load' = [load EXCEPT ![l] = "done"]
          /\ UNCHANGED <<dbConf, gatewayVars, at, held, result, place>>
      BY <1>3 DEF Destroy, InHand, callVars
    <2>2. \A m \in Loaders : load'[m] = "swap" => load[m] = "swap" /\ old'[m] = old[m]
      BY <2>1
    <2>3. Approved' /\ Unused'
      BY <2>1, <2>2 DEF Approved, Unused, gatewayVars
    <2>4. QED BY <2>1, <2>3, LoadersKeep
  <1>4. ASSUME DestroyLast PROVE GInv'
    <2>1. /\ dbState' = [d \in Dbs |-> IF d = lcr THEN "destroyed" ELSE dbState[d]]
          /\ UNCHANGED <<dbConf, gatewayVars, load, old, at, held, result, place>>
      BY <1>4 DEF DestroyLast, callVars
    <2>2. Approved' /\ Unused'
      BY <2>1 DEF Approved, Unused, gatewayVars
    <2>3. QED BY <2>1, <2>2, LoadersKeep
  <1>5. QED BY <1>1, <1>2, <1>3, <1>4

LEMMA LockCarrierKeepsGateways ==
  ASSUME IInv, GInv, NEW t \in Callers, LockCarrier(t)
  PROVE  GInv'
  <1> USE DEF GInv, IInv, LcrTypeOK
  <1> DEFINE d == held[t]
             k == NextCarrier(t)
  <1>1. /\ at[t] = "dial" /\ d \in Dbs /\ at' = [at EXCEPT ![t] = "pick"]
        /\ gatewayLock[d][k] = NoThread
        /\ gatewayLock' = [gatewayLock EXCEPT ![d] = [gatewayLock[d] EXCEPT ![k] = t]]
        /\ UNCHANGED <<dbVars, dbState, dbConf, held, result, place, load, old,
                       next_gateway, picks>>
    BY DEF LockCarrier, ReadersHold, Reading, callVars, dbVars
  <1>2. \A u \in Callers : NextCarrier(u)' = NextCarrier(u)
    BY <1>1 DEF NextCarrier
  <1> HIDE DEF d, k
  <1>3. GatewayTypes'
    BY <1>1 DEF GatewayTypes
  <1>4. Approved' /\ Unused'
    BY <1>1 DEF Approved, Unused
  <1>5. OneAtATime'
    <2>1. SUFFICES ASSUME NEW u \in Callers, at'[u] \in {"pick", "advance"},
                          NextCarrier(u) \in CarrierIds
                   PROVE  gatewayLock'[held[u]][NextCarrier(u)] = u
      BY <1>1, <1>2 DEF OneAtATime
    <2>2. CASE u = t
      BY <2>1, <2>2, <1>1 DEF GatewayTypes, d, k
    <2>3. CASE u # t
      <3>1. /\ gatewayLock[held[u]][NextCarrier(u)] = u /\ held[u] \in Dbs
        BY <2>1, <2>3, <1>1 DEF OneAtATime, ReadersHold, Reading
      <3>2. ~(held[u] = d /\ NextCarrier(u) = k)
        BY <3>1, <1>1, LcrAssumption DEF LcrAssumption
      <3>3. gatewayLock'[held[u]][NextCarrier(u)] = gatewayLock[held[u]][NextCarrier(u)]
        BY <3>1, <3>2, <2>1, <1>1 DEF GatewayTypes
      <3>4. QED BY <3>1, <3>3
    <2>4. QED BY <2>2, <2>3
  <1>6. \A e, m : Picked(e, m)' <=> Picked(e, m)
    BY <1>1, <1>2 DEF Picked
  <1>7. TurnKept'
    BY <1>1, <1>6 DEF TurnKept
  <1>8. QED BY <1>3, <1>4, <1>5, <1>7

(* Nobody else has picked from a carrier that t has the mutex of.           *)
LEMMA AloneWithCarrier ==
  ASSUME IInv, GInv, NEW t \in Callers, at[t] \in {"pick", "advance"},
         NEW u \in Callers, at[u] \in {"pick", "advance"},
         held[u] = held[t], NextCarrier(u) = NextCarrier(t),
         NextCarrier(t) \in CarrierIds
  PROVE  u = t
  BY DEF GInv, OneAtATime

LEMMA PickGatewayKeepsTurns ==
  ASSUME IInv, GInv, NEW t \in Callers, PickGateway(t)
  PROVE  GInv'
  <1> USE DEF GInv, IInv, LcrTypeOK
  <1> DEFINE d == held[t]
             k == NextCarrier(t)
             x == next_gateway[d][k]
  <1>1. /\ at[t] = "pick" /\ d \in Dbs /\ at' = [at EXCEPT ![t] = "advance"]
        /\ picks' = [picks EXCEPT ![d] = [picks[d] EXCEPT ![k] =
                       [picks[d][k] EXCEPT ![x] = picks[d][k][x] + 1]]]
        /\ UNCHANGED <<dbVars, dbState, dbConf, held, result, place, load, old,
                       next_gateway, gatewayLock>>
    BY DEF PickGateway, ReadersHold, Reading, callVars, dbVars
  <1>2. \A u \in Callers : NextCarrier(u)' = NextCarrier(u)
    BY <1>1 DEF NextCarrier
  <1>3. dbState[d] = "shared"
    BY <1>1 DEF ReadersHold, Reading
  <1> HIDE DEF d, k, x
  <1>4. GatewayTypes'
    <2>1. CASE k \in CarrierIds /\ x \in Gateways
      <3>1. picks[d][k][x] + 1 \in Nat
        BY <2>1, <1>1 DEF GatewayTypes
      <3>2. QED BY <1>1, <2>1, <3>1 DEF GatewayTypes
    <2>2. CASE k \in CarrierIds /\ x \notin Gateways
      <3> DEFINE f == picks[d][k]
      <3>1. f \in [Gateways -> Nat]
        BY <1>1, <2>2 DEF GatewayTypes
      <3> HIDE DEF f
      <3>2. ASSUME NEW v PROVE [f EXCEPT ![x] = v] \in [Gateways -> Nat]
        BY <2>2, <3>1
      <3>3. [picks[d][k] EXCEPT ![x] = picks[d][k][x] + 1] \in [Gateways -> Nat]
        BY <3>2 DEF f
      <3>4. QED BY <1>1, <2>2, <3>3 DEF GatewayTypes
    <2>3. CASE k \notin CarrierIds
      <3> DEFINE F == [CarrierIds -> [Gateways -> Nat]]
      <3>1. picks \in [Dbs -> F] /\ picks[d] \in F
        BY <1>1 DEF GatewayTypes
      <3>2. ASSUME NEW f \in F, NEW v PROVE [f EXCEPT ![k] = v] \in F
        BY <2>3, <3>2
      <3> HIDE DEF F
      <3>3. picks' \in [Dbs -> F]
        BY <1>1, <3>1, <3>2
      <3>4. QED BY <1>1, <3>3 DEF F, GatewayTypes
    <2>4. QED BY <2>1, <2>2, <2>3
  <1>5. Approved'
    BY <1>1 DEF Approved
  <1>6. OneAtATime'
    BY <1>1, <1>2 DEF OneAtATime
  <1>7. \A e \in Dbs, m \in CarrierIds : ~(e = d /\ m = k) => picks'[e][m] = picks[e][m]
    BY <1>1 DEF GatewayTypes
  <1>8. Unused'
    <2>1. \A e \in Dbs : dbState[e] \in {"none", "private"} => e # d
      BY <1>3
    <2>2. QED BY <2>1, <1>1, <1>7 DEF Unused
  <1>9. TurnKept'
    <2>1. SUFFICES ASSUME NEW e \in Dbs, dbState[e] = "shared",
                          NEW m \in DOMAIN dbConf[e].carriers
                   PROVE  LET n == dbConf[e].carriers[m].gateways
                              next == next_gateway[e][m] IN
                          /\ n > 0 => next \in 0 .. n - 1
                          /\ InTurn(picks'[e][m], n,
                                    IF Picked(e, m)' THEN next + 1 ELSE next)
      BY <1>1 DEF TurnKept
    <2> DEFINE n == dbConf[e].carriers[m].gateways
    <2>2. /\ n > 0 => next_gateway[e][m] \in 0 .. n - 1
          /\ InTurn(picks[e][m], n,
               IF Picked(e, m) THEN next_gateway[e][m] + 1 ELSE next_gateway[e][m])
      BY <2>1 DEF TurnKept
    <2>3. m \in CarrierIds /\ n \in Nat /\ \A g \in 0 .. n - 1 : g \in Gateways
      BY <2>1, CarriersInUse
    <2>4. CASE e = d /\ m = k
      <3>1. Picked(e, m)'
        BY <2>4, <1>1, <1>2 DEF Picked, d, k
      <3>2. ~Picked(e, m)
        <4>1. ASSUME NEW u \in Callers, at[u] = "advance", held[u] = d, NextCarrier(u) = k
              PROVE  FALSE
          <5>1. u = t
            BY <4>1, <1>1, <2>3, <2>4, AloneWithCarrier DEF d, k
          <5>2. QED BY <5>1, <4>1, <1>1
        <4>2. QED BY <4>1, <2>4 DEF Picked
      <3>3. InTurn(picks[e][m], n, x)
        BY <2>2, <2>4, <3>2 DEF x
      <3>4. CASE n = 0
        BY <3>4, <2>2 DEF InTurn
      <3>5. CASE n > 0
        <4>1. x \in 0 .. n - 1 /\ x \in Gateways
          BY <3>5, <2>2, <2>3, <2>4 DEF x
        <4>2. \A g \in 0 .. n - 1 :
                /\ picks[e][m][g] \in Nat
                /\ picks'[e][m][g] = IF g = x THEN picks[e][m][g] + 1 ELSE picks[e][m][g]
          BY <4>1, <2>3, <2>4, <1>1 DEF GatewayTypes
        <4>3. InTurn(picks'[e][m], n, x + 1)
          <5> HIDE DEF n
          <5>1. ASSUME NEW g \in 0 .. n - 1, NEW h \in 0 .. n - 1
                PROVE  /\ (g < x + 1 <=> h < x + 1) => picks'[e][m][g] = picks'[e][m][h]
                       /\ g < x + 1 /\ ~(h < x + 1) =>
                            picks'[e][m][g] = picks'[e][m][h] + 1
            <6>1. /\ (g < x <=> h < x) => picks[e][m][g] = picks[e][m][h]
                  /\ g < x /\ ~(h < x) => picks[e][m][g] = picks[e][m][h] + 1
                  /\ h < x /\ ~(g < x) => picks[e][m][h] = picks[e][m][g] + 1
              BY <3>3 DEF InTurn
            <6>2. QED BY <6>1, <4>1, <4>2, <2>3
          <5>2. QED BY <5>1 DEF InTurn
        <4>4. QED BY <4>3, <3>1, <2>2, <2>4 DEF x
      <3>6. QED BY <3>4, <3>5, <2>3
    <2>5. CASE ~(e = d /\ m = k)
      <3>1. Picked(e, m)' <=> Picked(e, m)
        BY <2>5, <1>1, <1>2 DEF Picked, d, k
      <3>2. QED BY <2>2, <2>3, <2>5, <3>1, <1>7
    <2>6. QED BY <2>4, <2>5
  <1>10. QED BY <1>4, <1>5, <1>6, <1>8, <1>9

LEMMA AdvanceGatewayKeepsTurns ==
  ASSUME IInv, GInv, NEW t \in Callers, AdvanceGateway(t)
  PROVE  GInv'
  <1> USE DEF GInv, IInv, LcrTypeOK
  <1> DEFINE d == held[t]
             k == NextCarrier(t)
             x == next_gateway[d][k]
             y == (x + 1) % dbConf[d].carriers[k].gateways
  <1>1. /\ at[t] = "advance" /\ d \in Dbs
        /\ next_gateway' = [next_gateway EXCEPT ![d] = [next_gateway[d] EXCEPT ![k] = y]]
        /\ gatewayLock' =
             [gatewayLock EXCEPT ![d] = [gatewayLock[d] EXCEPT ![k] = NoThread]]
        /\ DOMAIN place' = DOMAIN place
        /\ UNCHANGED <<dbVars, dbState, dbConf, held, result, load, old, picks>>
    BY DEF AdvanceGateway, GatewaysOf, ReadersHold, Reading, callVars, dbVars
  <1>2. /\ at'[t] \notin {"pick", "advance"}
        /\ \A u \in Callers : u # t => at'[u] = at[u] /\ NextCarrier(u)' = NextCarrier(u)
    <2>1. at' = [at EXCEPT ![t] = IF place[t] < result[t].size THEN "dial" ELSE "unpin"]
          /\ place' = [place EXCEPT ![t] = @ + 1] /\ result' = result
      BY DEF AdvanceGateway
    <2>2. \A u \in Callers : u # t => place'[u] = place[u]
      BY <2>1 DEF GatewayTypes
    <2>3. QED BY <2>1, <2>2 DEF NextCarrier
  <1>3. dbState[d] = "shared"
    BY <1>1 DEF ReadersHold, Reading
  <1> HIDE DEF d, k, x, y
  <1>4. GatewayTypes'
    BY <1>1 DEF GatewayTypes
  <1>5. Approved'
    BY <1>1 DEF Approved
  <1>6. \A e \in Dbs, m \in CarrierIds : ~(e = d /\ m = k) =>
          /\ next_gateway'[e][m] = next_gateway[e][m]
          /\ gatewayLock'[e][m] = gatewayLock[e][m]
    BY <1>1 DEF GatewayTypes
  <1>7. OneAtATime'
    <2>1. SUFFICES ASSUME NEW u \in Callers, at'[u] \in {"pick", "advance"},
                          NextCarrier(u)' \in CarrierIds
                   PROVE  gatewayLock'[held[u]][NextCarrier(u)'] = u
      BY <1>1 DEF OneAtATime
    <2>2. u # t /\ at[u] = at'[u] /\ NextCarrier(u)' = NextCarrier(u)
      BY <2>1, <1>2
    <2>3. ~(held[u] = d /\ NextCarrier(u) = k)
      BY <2>1, <2>2, <1>1, AloneWithCarrier DEF d, k
    <2>4. held[u] \in Dbs /\ gatewayLock[held[u]][NextCarrier(u)] = u
      BY <2>1, <2>2 DEF OneAtATime, ReadersHold, Reading
    <2>5. QED BY <2>1, <2>2, <2>3, <2>4, <1>6
  <1>8. Unused'
    <2>1. \A e \in Dbs : dbState[e] \in {"none", "private"} => e # d
      BY <1>3
    <2>2. QED BY <2>1, <1>1, <1>6 DEF Unused
  <1>9. TurnKept'
    <2>1. SUFFICES ASSUME NEW e \in Dbs, dbState[e] = "shared",
                          NEW m \in DOMAIN dbConf[e].carriers
                   PROVE  LET n == dbConf[e].carriers[m].gateways
                              next == next_gateway'[e][m] IN
                          /\ n > 0 => next \in 0 .. n - 1
                          /\ InTurn(picks[e][m], n,
                                    IF Picked(e, m)' THEN next + 1 ELSE next)
      BY <1>1 DEF TurnKept
    <2> DEFINE n == dbConf[e].carriers[m].gateways
    <2>2. /\ n > 0 => next_gateway[e][m] \in 0 .. n - 1
          /\ InTurn(picks[e][m], n,
               IF Picked(e, m) THEN next_gateway[e][m] + 1 ELSE next_gateway[e][m])
      BY <2>1 DEF TurnKept
    <2>3. m \in CarrierIds /\ n \in Nat
      BY <2>1, CarriersInUse
    <2>4. CASE e = d /\ m = k
      <3>1. Picked(e, m)
        BY <2>4, <1>1 DEF Picked, d, k
      <3>2. ~Picked(e, m)'
        <4>1. ASSUME NEW u \in Callers, at'[u] = "advance", held'[u] = d,
                     NextCarrier(u)' = k
              PROVE  FALSE
          <5>1. u # t /\ at[u] = "advance" /\ NextCarrier(u) = k /\ held[u] = d
            BY <4>1, <1>1, <1>2
          <5>2. u = t
            BY <5>1, <1>1, <2>3, <2>4, AloneWithCarrier DEF d, k
          <5>3. QED BY <5>1, <5>2
        <4>2. QED BY <4>1, <2>4 DEF Picked
      <3>3. InTurn(picks[e][m], n, x + 1)
        BY <2>2, <2>4, <3>1 DEF x
      <3>4. next_gateway'[e][m] = y
        BY <2>3, <2>4, <1>1 DEF GatewayTypes
      <3>5. CASE n = 0
        BY <3>5, <2>2 DEF InTurn
      <3>6. CASE n > 0
        <4>1. x \in 0 .. n - 1
          BY <3>6, <2>2, <2>4 DEF x
        <4>2. y = IF x + 1 = n THEN 0 ELSE x + 1
          BY <3>6, <4>1, <2>3, <2>4, NextTurn DEF y
        <4>3. y \in 0 .. n - 1 /\ InTurn(picks[e][m], n, y)
          <5> HIDE DEF n
          <5>1. CASE x + 1 = n
            <6>1. \A g \in 0 .. n - 1 : g < x + 1 /\ ~(g < 0)
              BY <5>1, <2>3, <4>1
            <6>2. InTurn(picks[e][m], n, 0)
              BY <6>1, <3>3 DEF InTurn
            <6>3. QED BY <6>2, <5>1, <4>1, <4>2, <2>3
          <5>2. CASE x + 1 # n
            BY <5>2, <4>1, <4>2, <3>3, <2>3
          <5>3. QED BY <5>1, <5>2
        <4>4. QED BY <4>3, <3>2, <3>4
      <3>7. QED BY <3>5, <3>6, <2>3
    <2>5. CASE ~(e = d /\ m = k)
      <3>1. Picked(e, m)' <=> Picked(e, m)
        <4>1. \A u \in Callers : held[u] = e /\ NextCarrier(u) = m => u # t
          BY <2>5 DEF d, k
        <4>2. Picked(e, m) => Picked(e, m)'
          BY <4>1, <1>1, <1>2 DEF Picked
        <4>3. Picked(e, m)' => Picked(e, m)
          BY <1>1, <1>2 DEF Picked
        <4>4. QED BY <4>2, <4>3
      <3>2. next_gateway'[e][m] = next_gateway[e][m]
        BY <2>3, <2>5, <1>6
      <3>3. QED BY <2>2, <3>1, <3>2
    <2>6. QED BY <2>4, <2>5
  <1>10. QED BY <1>4, <1>5, <1>7, <1>8, <1>9

LEMMA GStepKeeps == IInv /\ GInv /\ [LcrNext]_lcrVars => GInv'
  <1> SUFFICES ASSUME IInv, GInv, [LcrNext]_lcrVars PROVE GInv'
    OBVIOUS
  <1>1. ASSUME NEW l \in Loaders, NEW c \in Configs, LoadConfig(l, c) PROVE GInv'
    BY <1>1, LoaderStepsKeepGateways
  <1>2. ASSUME NEW l \in Loaders, Swap(l) \/ Destroy(l) PROVE GInv'
    BY <1>2, LoaderStepsKeepGateways
  <1>3. CASE DestroyLast
    BY <1>3, LoaderStepsKeepGateways, LcrAssumption DEF LcrAssumption
  <1>4. ASSUME NEW l \in Loaders, LoadReturns(l) \/ \E c \in Configs : LoadNothing(l, c)
        PROVE  GInv'
    <2>1. /\ UNCHANGED <<dbVars, gatewayVars, at, held, result, place, old>>
          /\ \A m \in Loaders : load'[m] = "swap" => load[m] = "swap"
      BY <1>4 DEF LoadNothing, LoadReturns, callVars, IInv, LcrTypeOK
    <2>2. QED BY <2>1, ElsewhereKeeps DEF NextCarrier
  <1>5. ASSUME NEW t \in Callers, NEW c \in Calls, BeginLookup(t, c) PROVE GInv'
    <2>1. /\ UNCHANGED <<dbVars, gatewayVars, held, result, place, load, old>>
          /\ at' = [at EXCEPT ![t] = "lock"] /\ at[t] = "idle"
      BY <1>5 DEF BeginLookup
    <2>2. \A u \in Callers : {at[u], at'[u]} \cap {"pick", "advance"} # {} => u # t
      BY <2>1 DEF IInv, LcrTypeOK
    <2>3. QED BY <2>1, <2>2, ElsewhereKeeps DEF NextCarrier, IInv, LcrTypeOK
  <1>6. ASSUME NEW t \in Callers,
               ReadPointer(t) \/ Pin(t) \/ Find(t) \/ NoGateway(t) \/ DialStringFull(t)
               \/ Unpin(t)
        PROVE  GInv'
    <2>1. /\ UNCHANGED <<dbVars, gatewayVars, load, old>>
          /\ at[t] \notin {"pick", "advance"} /\ at'[t] \notin {"pick", "advance"}
          /\ DOMAIN result' = DOMAIN result /\ DOMAIN place' = DOMAIN place
      <3>1. CASE ReadPointer(t) \/ Pin(t)
        BY <3>1 DEF ReadPointer, Pin, callVars, IInv, LcrTypeOK
      <3>2. CASE Find(t)
        BY <3>2 DEF Find, callVars, IInv, LcrTypeOK
      <3>3. CASE NoGateway(t)
        BY <3>3 DEF NoGateway, IInv, LcrTypeOK
      <3>4. CASE DialStringFull(t)
        BY <3>4 DEF DialStringFull, callVars, IInv, LcrTypeOK
      <3>5. CASE Unpin(t)
        BY <3>5 DEF Unpin, IInv, LcrTypeOK
      <3>6. QED BY <1>6, <3>1, <3>2, <3>3, <3>4, <3>5
    <2>2. ASSUME NEW u \in Callers, u # t
          PROVE  at'[u] = at[u] /\ held'[u] = held[u] /\ result'[u] = result[u]
                 /\ place'[u] = place[u]
      <3>1. CASE ReadPointer(t) \/ Pin(t)
        <4>1. at'[u] = at[u] /\ held'[u] = held[u]
          BY <2>2, <3>1 DEF ReadPointer, Pin, IInv, LcrTypeOK
        <4>2. UNCHANGED <<result, place>>
          BY <3>1 DEF ReadPointer, Pin, callVars
        <4>3. QED BY <4>1, <4>2
      <3>2. CASE Find(t)
        <4>1. at'[u] = at[u] /\ UNCHANGED <<held, place>>
          BY <2>2, <3>2 DEF Find, IInv, LcrTypeOK
        <4>2. result' = result \/ \E r : result' = [result EXCEPT ![t] = r]
          BY <3>2 DEF Find
        <4>3. result'[u] = result[u]
          BY <2>2, <4>2 DEF GInv, GatewayTypes
        <4>4. QED BY <4>1, <4>3
      <3>3. CASE NoGateway(t) \/ DialStringFull(t)
        <4>1. at'[u] = at[u] /\ UNCHANGED <<held, result>>
          BY <2>2, <3>3 DEF NoGateway, DialStringFull, callVars, IInv, LcrTypeOK
        <4>2. place' = place \/ place' = [place EXCEPT ![t] = @ + 1]
          BY <3>3 DEF NoGateway, DialStringFull, callVars
        <4>3. place'[u] = place[u]
          BY <2>2, <4>2 DEF GInv, GatewayTypes
        <4>4. QED BY <4>1, <4>3
      <3>4. CASE Unpin(t)
        BY <2>2, <3>4 DEF Unpin, IInv, LcrTypeOK, GInv, GatewayTypes
      <3>5. QED BY <1>6, <3>1, <3>2, <3>3, <3>4
    <2>3. \A u \in Callers : {at[u], at'[u]} \cap {"pick", "advance"} # {} => u # t
      BY <2>1
    <2>4. QED BY <2>1, <2>2, <2>3, ElsewhereKeeps DEF NextCarrier
  <1>7. ASSUME NEW t \in Callers, LockCarrier(t) \/ PickGateway(t) \/ AdvanceGateway(t)
        PROVE  GInv'
    BY <1>7, LockCarrierKeepsGateways, PickGatewayKeepsTurns, AdvanceGatewayKeepsTurns
  <1>8. CASE Unbind \/ UNCHANGED lcrVars
    <2>1. UNCHANGED <<dbVars, gatewayVars, at, held, result, place, load, old>>
      BY <1>8 DEF Unbind, lcrVars, callVars
    <2>2. QED BY <2>1, ElsewhereKeeps DEF NextCarrier
  <1>9. ASSUME NEW t \in Callers, CallerStep(t) PROVE GInv'
    BY <1>9, <1>6, <1>7 DEF CallerStep
  <1>10. ASSUME NEW l \in Loaders, LoaderStep(l) PROVE GInv'
    BY <1>10, <1>2, <1>4 DEF LoaderStep
  <1>11. QED BY <1>1, <1>3, <1>4, <1>5, <1>8, <1>9, <1>10 DEF LcrNext

THEOREM GatewaysInductive == LcrSpec => [](IInv /\ GInv)
  <1>1. LcrInit => IInv /\ GInv
    BY InitHolds, GInitHolds
  <1>2. IInv /\ GInv /\ [LcrNext]_lcrVars => (IInv /\ GInv)'
    BY StepKeeps, GStepKeeps
  <1>3. QED BY <1>1, <1>2, PTL DEF LcrSpec

(* However many threads dial through a carrier at once, and whatever is     *)
(* reloaded meanwhile, carrier_select_gateway gives its gateways in turn:   *)
(* none is picked twice more often than another.                            *)
THEOREM GatewaysTakeTurns == LcrSpec => []GatewaysInTurn
  <1>1. IInv /\ GInv => GatewaysInTurn
    <2> SUFFICES ASSUME GInv, NEW d \in Dbs, dbState[d] = "shared",
                        NEW k \in DOMAIN dbConf[d].carriers,
                        NEW g \in 0 .. dbConf[d].carriers[k].gateways - 1,
                        NEW h \in 0 .. dbConf[d].carriers[k].gateways - 1
                 PROVE  picks[d][k][g] <= picks[d][k][h] + 1
      BY DEF GatewaysInTurn
    <2> DEFINE x == IF Picked(d, k) THEN next_gateway[d][k] + 1 ELSE next_gateway[d][k]
    <2>1. InTurn(picks[d][k], dbConf[d].carriers[k].gateways, x)
      BY DEF GInv, TurnKept
    <2>2. k \in CarrierIds /\ g \in Gateways /\ h \in Gateways
      BY CarriersInUse
    <2>3. picks[d][k][g] \in Nat /\ picks[d][k][h] \in Nat
      BY <2>2 DEF GInv, GatewayTypes
    <2> HIDE DEF x
    <2>4. \/ picks[d][k][g] = picks[d][k][h]
          \/ picks[d][k][g] = picks[d][k][h] + 1
          \/ picks[d][k][h] = picks[d][k][g] + 1
      BY <2>1 DEF InTurn
    <2>5. QED BY <2>3, <2>4
  <1>2. QED BY <1>1, GatewaysInductive, PTL

-----------------------------------------------------------------------------
(* What a lookup finds. The ratedecks, line by line, are what the tries     *)
(* have: AddRates, Trie and TakeRoutes step by step.                        *)

(* A trie gets the lines of a list one after the other.                     *)
Adds(h, A, base, seq, carrier, type) ==
  /\ h \in [0 .. Len(seq) -> A] /\ h[0] = base
  /\ \A k \in 1 .. Len(seq) : h[k] = AddRate(h[k - 1], seq[k], carrier, type)
  /\ AddRates(base, seq, carrier, type) = h[Len(seq)]

(* AddRates has steps.                                                      *)
LEMMA RateSteps ==
  ASSUME NEW A, NEW R, NEW base \in A, NEW seq \in Seq(R), NEW carrier, NEW type,
         \A a \in A, r \in R : AddRate(a, r, carrier, type) \in A
  PROVE  \E h : Adds(h, A, base, seq, carrier, type)
  <1> DEFINE n == Len(seq)
             g == [p \in A \X (1 .. n) |-> AddRate(p[1], seq[p[2]], carrier, type)]
             Sol(e) == e = [s \in SUBSET (1 .. n) |->
                              IF s = {} THEN base
                              ELSE AddRate(e[s \ {Max(s)}], seq[Max(s)], carrier, type)]
             f == CHOOSE e : Sol(e)
  <1>1. n \in Nat /\ DOMAIN seq = 1 .. n /\ g \in [A \X (1 .. n) -> A]
    OBVIOUS
  <1>2. AddRates(base, seq, carrier, type) = f[1 .. n]
    BY <1>1 DEF AddRates, FoldLeft, MapThenFoldSet
  <1> HIDE DEF n
  <1>3. PICK e : Recursion(e, n, A, base, g)
    <2> HIDE DEF g
    <2> QED BY <1>1, RecursionHolds
  <1>4. Sol(e)
    <2>1. \A s \in SUBSET (1 .. n) :
            e[s] = IF s = {} THEN base
                   ELSE AddRate(e[s \ {Max(s)}], seq[Max(s)], carrier, type)
      BY <1>3 DEF Recursion
    <2> QED BY <1>3, <2>1 DEF Recursion
  <1>5. Sol(f)
    <2> HIDE DEF Sol
    <2> QED BY <1>4
  <1> HIDE DEF f
  <1>6. Segments(f, n, A, base, g)
    <2>1. f[{}] = base
      BY <1>5
    <2>2. ASSUME NEW k \in 1 .. n, f[1 .. k - 1] \in A
          PROVE  f[1 .. k] = g[<<f[1 .. k - 1], k>>]
      <3>1. k \in Nat \ {0} /\ 1 .. k \in SUBSET (1 .. n)
        BY <1>1
      <3>2. 1 .. k # {} /\ Max(1 .. k) = k /\ (1 .. k) \ {k} = 1 .. k - 1
        BY <3>1, MaxOfSegment
      <3>3. f[1 .. k] = AddRate(f[1 .. k - 1], seq[k], carrier, type)
        BY <1>5, <3>1, <3>2
      <3> QED BY <2>2, <3>3
    <2> QED BY <2>1, <2>2 DEF Segments
  <1>7. PICK h : Steps(h, n, A, base, g) /\ h[n] = f[1 .. n]
    <2>1. \A a \in A, k \in 1 .. n : g[<<a, k>>] \in A
      BY <1>1
    <2> HIDE DEF g, Sol
    <2> QED BY <1>1, <1>6, <2>1, StepsHold
  <1>8. /\ h \in [0 .. n -> A] /\ h[0] = base
        /\ \A k \in 1 .. n : h[k] = AddRate(h[k - 1], seq[k], carrier, type)
    <2>1. h \in [0 .. n -> A] /\ h[0] = base
      BY <1>7 DEF Steps
    <2>2. ASSUME NEW k \in 1 .. n PROVE h[k] = AddRate(h[k - 1], seq[k], carrier, type)
      <3>1. h[k] = g[<<h[k - 1], k>>]
        BY <1>7 DEF Steps
      <3>2. h[k - 1] \in A
        BY <1>1, <2>1
      <3> QED BY <3>1, <3>2
    <2> QED BY <2>1, <2>2
  <1> QED BY <1>2, <1>7, <1>8 DEF n, Adds

(* A trie gets the lists of the carriers.                                   *)
AddLists(base, seq, lists, type) ==
  FoldLeft(LAMBDA t, k : AddRates(t, lists[k], k, type), base, seq)

(* Its steps.                                                               *)
AddsAll(h, A, base, seq, lists, type) ==
  /\ h \in [0 .. Len(seq) -> A] /\ h[0] = base
  /\ \A k \in 1 .. Len(seq) : h[k] = AddRates(h[k - 1], lists[seq[k]], seq[k], type)
  /\ AddLists(base, seq, lists, type) = h[Len(seq)]

(* AddLists has steps.                                                      *)
LEMMA ListSteps ==
  ASSUME NEW A, NEW R, NEW base \in A, NEW seq \in Seq(R), NEW lists, NEW type,
         \A a \in A, r \in R : AddRates(a, lists[r], r, type) \in A
  PROVE  \E h : AddsAll(h, A, base, seq, lists, type)
  <1> DEFINE n == Len(seq)
             g == [p \in A \X (1 .. n) |-> AddRates(p[1], lists[seq[p[2]]], seq[p[2]], type)]
             Sol(e) == e = [s \in SUBSET (1 .. n) |->
                              IF s = {} THEN base
                              ELSE AddRates(e[s \ {Max(s)}], lists[seq[Max(s)]], seq[Max(s)], type)]
             f == CHOOSE e : Sol(e)
  <1>1. n \in Nat /\ DOMAIN seq = 1 .. n /\ g \in [A \X (1 .. n) -> A]
    OBVIOUS
  <1>2. AddLists(base, seq, lists, type) = f[1 .. n]
    BY <1>1 DEF AddLists, FoldLeft, MapThenFoldSet
  <1> HIDE DEF n
  <1>3. PICK e : Recursion(e, n, A, base, g)
    <2> HIDE DEF g
    <2> QED BY <1>1, RecursionHolds
  <1>4. Sol(e)
    <2>1. \A s \in SUBSET (1 .. n) :
            e[s] = IF s = {} THEN base
                   ELSE AddRates(e[s \ {Max(s)}], lists[seq[Max(s)]], seq[Max(s)], type)
      BY <1>3 DEF Recursion
    <2> QED BY <1>3, <2>1 DEF Recursion
  <1>5. Sol(f)
    <2> HIDE DEF Sol
    <2> QED BY <1>4
  <1> HIDE DEF f
  <1>6. Segments(f, n, A, base, g)
    <2>1. f[{}] = base
      BY <1>5
    <2>2. ASSUME NEW k \in 1 .. n, f[1 .. k - 1] \in A
          PROVE  f[1 .. k] = g[<<f[1 .. k - 1], k>>]
      <3>1. k \in Nat \ {0} /\ 1 .. k \in SUBSET (1 .. n)
        BY <1>1
      <3>2. 1 .. k # {} /\ Max(1 .. k) = k /\ (1 .. k) \ {k} = 1 .. k - 1
        BY <3>1, MaxOfSegment
      <3>3. f[1 .. k] = AddRates(f[1 .. k - 1], lists[seq[k]], seq[k], type)
        BY <1>5, <3>1, <3>2
      <3> QED BY <2>2, <3>3
    <2> QED BY <2>1, <2>2 DEF Segments
  <1>7. PICK h : Steps(h, n, A, base, g) /\ h[n] = f[1 .. n]
    <2>1. \A a \in A, k \in 1 .. n : g[<<a, k>>] \in A
      BY <1>1
    <2> HIDE DEF g, Sol
    <2> QED BY <1>1, <1>6, <2>1, StepsHold
  <1>8. /\ h \in [0 .. n -> A] /\ h[0] = base
        /\ \A k \in 1 .. n : h[k] = AddRates(h[k - 1], lists[seq[k]], seq[k], type)
    <2>1. h \in [0 .. n -> A] /\ h[0] = base
      BY <1>7 DEF Steps
    <2>2. ASSUME NEW k \in 1 .. n PROVE h[k] = AddRates(h[k - 1], lists[seq[k]], seq[k], type)
      <3>1. h[k] = g[<<h[k - 1], k>>]
        BY <1>7 DEF Steps
      <3>2. h[k - 1] \in A
        BY <1>1, <2>1
      <3> QED BY <3>1, <3>2
    <2> QED BY <2>1, <2>2
  <1> QED BY <1>2, <1>7, <1>8 DEF n, AddsAll

(* The results get the routes of a list that are right for their carriers.  *)
TakeAll(base, seq, inter, is_inter) ==
  FoldLeft(LAMBDA a, r : TakeRoute(a, r, inter, is_inter), base, seq)

(* Its steps.                                                               *)
Takes(h, A, base, seq, inter, is_inter) ==
  /\ h \in [0 .. Len(seq) -> A] /\ h[0] = base
  /\ \A k \in 1 .. Len(seq) : h[k] = TakeRoute(h[k - 1], seq[k], inter, is_inter)
  /\ TakeAll(base, seq, inter, is_inter) = h[Len(seq)]

(* TakeAll has steps.                                                       *)
LEMMA TakeSteps ==
  ASSUME NEW A, NEW R, NEW base \in A, NEW seq \in Seq(R), NEW inter, NEW is_inter,
         \A a \in A, r \in R : TakeRoute(a, r, inter, is_inter) \in A
  PROVE  \E h : Takes(h, A, base, seq, inter, is_inter)
  <1> DEFINE n == Len(seq)
             g == [p \in A \X (1 .. n) |-> TakeRoute(p[1], seq[p[2]], inter, is_inter)]
             Sol(e) == e = [s \in SUBSET (1 .. n) |->
                              IF s = {} THEN base
                              ELSE TakeRoute(e[s \ {Max(s)}], seq[Max(s)], inter, is_inter)]
             f == CHOOSE e : Sol(e)
  <1>1. n \in Nat /\ DOMAIN seq = 1 .. n /\ g \in [A \X (1 .. n) -> A]
    OBVIOUS
  <1>2. TakeAll(base, seq, inter, is_inter) = f[1 .. n]
    BY <1>1 DEF TakeAll, FoldLeft, MapThenFoldSet
  <1> HIDE DEF n
  <1>3. PICK e : Recursion(e, n, A, base, g)
    <2> HIDE DEF g
    <2> QED BY <1>1, RecursionHolds
  <1>4. Sol(e)
    <2>1. \A s \in SUBSET (1 .. n) :
            e[s] = IF s = {} THEN base
                   ELSE TakeRoute(e[s \ {Max(s)}], seq[Max(s)], inter, is_inter)
      BY <1>3 DEF Recursion
    <2> QED BY <1>3, <2>1 DEF Recursion
  <1>5. Sol(f)
    <2> HIDE DEF Sol
    <2> QED BY <1>4
  <1> HIDE DEF f
  <1>6. Segments(f, n, A, base, g)
    <2>1. f[{}] = base
      BY <1>5
    <2>2. ASSUME NEW k \in 1 .. n, f[1 .. k - 1] \in A
          PROVE  f[1 .. k] = g[<<f[1 .. k - 1], k>>]
      <3>1. k \in Nat \ {0} /\ 1 .. k \in SUBSET (1 .. n)
        BY <1>1
      <3>2. 1 .. k # {} /\ Max(1 .. k) = k /\ (1 .. k) \ {k} = 1 .. k - 1
        BY <3>1, MaxOfSegment
      <3>3. f[1 .. k] = TakeRoute(f[1 .. k - 1], seq[k], inter, is_inter)
        BY <1>5, <3>1, <3>2
      <3> QED BY <2>2, <3>3
    <2> QED BY <2>1, <2>2 DEF Segments
  <1>7. PICK h : Steps(h, n, A, base, g) /\ h[n] = f[1 .. n]
    <2>1. \A a \in A, k \in 1 .. n : g[<<a, k>>] \in A
      BY <1>1
    <2> HIDE DEF g, Sol
    <2> QED BY <1>1, <1>6, <2>1, StepsHold
  <1>8. /\ h \in [0 .. n -> A] /\ h[0] = base
        /\ \A k \in 1 .. n : h[k] = TakeRoute(h[k - 1], seq[k], inter, is_inter)
    <2>1. h \in [0 .. n -> A] /\ h[0] = base
      BY <1>7 DEF Steps
    <2>2. ASSUME NEW k \in 1 .. n PROVE h[k] = TakeRoute(h[k - 1], seq[k], inter, is_inter)
      <3>1. h[k] = g[<<h[k - 1], k>>]
        BY <1>7 DEF Steps
      <3>2. h[k - 1] \in A
        BY <1>1, <2>1
      <3> QED BY <3>1, <3>2
    <2> QED BY <2>1, <2>2
  <1> QED BY <1>2, <1>7, <1>8 DEF n, Takes

(* What the lists of a configuration are. A line with a cost has digits.    *)
Lines == [digits : Seq(Characters), cost : Int]
(* Lists of lines, one per carrier.                                         *)
CarrierLists ==
  {lists \in Seq(Seq(Lines)) :
     /\ Len(lists) < 255
     /\ \A k \in 1 .. Len(lists) : \A i \in 1 .. Len(lists[k]) :
          lists[k][i].cost >= 0 => AllDigits(lists[k][i].digits)}

(* Line i of list k, as a route.                                            *)
RouteOf(lists, type, k, i) == [cost |-> lists[k][i].cost, value |-> k, type |-> type]

(* The lines up to line I of list K.                                        *)
Before(k, i, K, I) == k < K \/ (k = K /\ i <= I)

(* The routes for a digit string of the lines up to line I of list K.       *)
UpToLine(lists, type, K, I) ==
  [d \in Seq(Characters) |->
    {r \in AnyRoute : \E k \in 1 .. Len(lists) : \E i \in 1 .. Len(lists[k]) :
       /\ Before(k, i, K, I)
       /\ lists[k][i].digits = d /\ lists[k][i].cost >= 0 /\ r = RouteOf(lists, type, k, i)}]

(* The routes for a digit string of all the lines.                          *)
LinesOf(lists, type) ==
  [d \in Seq(Characters) |->
    {r \in AnyRoute : \E k \in 1 .. Len(lists) : \E i \in 1 .. Len(lists[k]) :
       lists[k][i].digits = d /\ lists[k][i].cost >= 0 /\ r = RouteOf(lists, type, k, i)}]

(* No carrier's later line for d costs as little as an earlier one.         *)
DearerLater(lists, d) ==
  \A k \in 1 .. Len(lists) : \A i, j \in 1 .. Len(lists[k]) :
    i < j /\ lists[k][i].digits = d /\ lists[k][j].digits = d /\ lists[k][j].cost >= 0
    => lists[k][i].cost < lists[k][j].cost

(* A trie has the routes N says, and where no carrier's later line costs as *)
(* little the list of the node is exact.                                    *)
Filled(t, lists, type, N) ==
  /\ t \in Tries(Characters, Len(lists)) /\ Whole(t, Characters, Len(lists), N)
  /\ \A d \in Seq(Characters) : DearerLater(lists, d) => ExactAt(t, Len(lists), N, d)

(* A line of a list, as a route.                                            *)
LEMMA LineIsRoute ==
  ASSUME NEW lists \in CarrierLists, NEW type \in {0, 1},
         NEW k \in 1 .. Len(lists), NEW i \in 1 .. Len(lists[k])
  PROVE  /\ Len(lists) \in Nat /\ Len(lists) < 255 /\ k \in Nat
         /\ lists[k] \in Seq(Lines) /\ Len(lists[k]) \in Nat
         /\ lists[k][i] \in Lines
         /\ lists[k][i].digits \in Seq(Characters) /\ lists[k][i].cost \in Int
         /\ lists[k][i].cost >= 0 => /\ RouteOf(lists, type, k, i) \in AnyRoute
                                     /\ AllDigits(lists[k][i].digits)
  <1>1. lists \in Seq(Seq(Lines)) /\ Len(lists) \in Nat /\ Len(lists) < 255 /\ k \in Nat \ {0}
    BY DEF CarrierLists
  <1>2. lists[k] \in Seq(Lines)
    BY <1>1
  <1>3. lists[k][i] \in Lines /\ Len(lists[k]) \in Nat
    BY <1>2
  <1>4. lists[k][i].digits \in Seq(Characters) /\ lists[k][i].cost \in Int
    BY <1>3 DEF Lines
  <1>5. ASSUME lists[k][i].cost >= 0
        PROVE  RouteOf(lists, type, k, i) \in AnyRoute /\ AllDigits(lists[k][i].digits)
    <2>1. AllDigits(lists[k][i].digits)
      BY <1>5 DEF CarrierLists
    <2>2. lists[k][i].cost \in Nat /\ type \in Nat
      BY <1>4, <1>5
    <2> QED BY <1>1, <2>1, <2>2 DEF RouteOf, AnyRoute
  <1> QED BY <1>1, <1>2, <1>3, <1>4, <1>5

(* One line more in the trie.                                               *)
LEMMA LineAdded ==
  ASSUME NEW lists \in CarrierLists, NEW type \in {0, 1},
         NEW K \in 1 .. Len(lists), NEW I \in 1 .. Len(lists[K]),
         NEW t, Filled(t, lists, type, UpToLine(lists, type, K, I - 1))
  PROVE  Filled(AddRate(t, lists[K][I], K, type), lists, type, UpToLine(lists, type, K, I))
  <1> DEFINE m == Len(lists)
             was == UpToLine(lists, type, K, I - 1)
             is == UpToLine(lists, type, K, I)
             p == lists[K][I].digits
             r == RouteOf(lists, type, K, I)
             u == AddRate(t, lists[K][I], K, type)
  <1>1. /\ m \in Nat /\ m > 0 /\ m < 255 /\ m \in 1 .. 254 /\ K \in Nat /\ I \in Nat
        /\ p \in Seq(Characters) /\ lists[K][I].cost \in Int
        /\ lists[K][I].cost >= 0 => r \in AnyRoute /\ AllDigits(p)
    <2>1. m > 0 /\ I \in Nat
      OBVIOUS
    <2>2. /\ m \in Nat /\ m < 255 /\ K \in Nat
          /\ p \in Seq(Characters) /\ lists[K][I].cost \in Int
          /\ lists[K][I].cost >= 0 => r \in AnyRoute /\ AllDigits(p)
      BY LineIsRoute
    <2>3. m \in 1 .. 254
      <3>1. m \in Nat /\ m < 255 /\ m > 0
        BY <2>1, <2>2
      <3> HIDE DEF m
      <3> QED BY <3>1
    <2> QED BY <2>1, <2>2, <2>3
  <1>2. ASSUME NEW k \in 1 .. m, NEW i \in 1 .. Len(lists[k])
        PROVE  Before(k, i, K, I) <=> Before(k, i, K, I - 1) \/ (k = K /\ i = I)
    <2>1. k \in Nat /\ i \in Nat
      BY <1>1
    <2> QED BY <1>1, <2>1 DEF Before
  <1>3. CASE lists[K][I].cost < 0
    <2>1. is = was /\ u = t
      <3>1. ~(lists[K][I].cost >= 0)
        BY <1>1, <1>3
      <3> QED BY <1>2, <3>1 DEF UpToLine, AddRate
    <2> QED BY <2>1
  <1>4. CASE lists[K][I].cost >= 0
    <2> DEFINE M == [was EXCEPT ![p] = @ \cup {r}]
    <2>1. u = RouteTrieAdd(t, p, r)
      BY <1>4 DEF AddRate, RouteOf
    <2>2. t \in Tries(Characters, m) /\ Whole(t, Characters, m, was)
      BY DEF Filled
    <2>3. is = M
      <3>1. was \in [Seq(Characters) -> SUBSET AnyRoute]
        BY <2>2 DEF Whole
      <3>2. ASSUME NEW d \in Seq(Characters)
            PROVE  is[d] = IF d = p THEN was[d] \cup {r} ELSE was[d]
        BY <1>1, <1>2, <1>4 DEF UpToLine
      <3>3. is = [d \in Seq(Characters) |-> is[d]]
        BY DEF UpToLine
      <3> HIDE DEF is, was, p, r
      <3> QED BY <1>1, <3>1, <3>2, <3>3
    <2>4. \A i \in 1 .. Len(p) : p[i] \in Digits
      BY <1>1, <1>4 DEF AllDigits
    <2>5. r \in AnyRoute
      BY <1>1, <1>4
    <2>6. ASSUME NEW d \in Seq(Characters), DearerLater(lists, d), d = p
          PROVE  Fits(was[p], r, m, 1 .. m)
      <3>1. IsFiniteSet(1 .. m) /\ Cardinality(1 .. m) <= m
        BY <1>1, IntervalSize
      <3>2. r.value \in 1 .. m
        BY DEF RouteOf
      <3>3. ASSUME NEW s \in was[p]
            PROVE  s.value \in 1 .. m /\ s.type = r.type /\ (s.value = r.value => s.cost < r.cost)
        <4>1. PICK k \in 1 .. m : \E i \in 1 .. Len(lists[k]) :
                /\ Before(k, i, K, I - 1)
                /\ lists[k][i].digits = p /\ lists[k][i].cost >= 0 /\ s = RouteOf(lists, type, k, i)
          BY <1>1 DEF UpToLine
        <4>2. PICK i \in 1 .. Len(lists[k]) :
                /\ Before(k, i, K, I - 1)
                /\ lists[k][i].digits = p /\ lists[k][i].cost >= 0 /\ s = RouteOf(lists, type, k, i)
          BY <4>1
        <4>3. s.value = k /\ s.type = type /\ r.type = type /\ r.value = K
              /\ s.cost = lists[k][i].cost /\ r.cost = lists[K][I].cost
          BY <4>2 DEF RouteOf
        <4>4. k = K => i < I
          BY <1>1, <4>2 DEF Before
        <4>5. k = K => lists[k][i].cost < lists[K][I].cost
          BY <1>4, <2>6, <4>2, <4>4 DEF DearerLater
        <4> QED BY <4>3, <4>5
      <3> HIDE DEF was, r
      <3> QED BY <3>1, <3>2, <3>3 DEF Fits
    <2> HIDE DEF u, is, was, p, r, m
    <2>7. /\ Whole(u, Characters, m, is)
          /\ \A V : \A d \in Seq(Characters) :
               ExactAt(t, m, was, d) /\ (d = p => Fits(was[p], r, m, V)) => ExactAt(u, m, is, d)
      BY <1>1, <2>1, <2>2, <2>3, <2>4, <2>5, TrieAdd
    <2>8. u \in Tries(Characters, m)
      <3>1. m \in 0 .. 254
        BY <1>1
      <3> QED BY <1>1, <2>1, <2>2, <2>5, <3>1, TrieAddIsTidy
    <2>9. ASSUME NEW d \in Seq(Characters), DearerLater(lists, d) PROVE ExactAt(u, m, is, d)
      <3>1. ExactAt(t, m, was, d)
        BY <2>9 DEF Filled, was, m
      <3>2. d = p => Fits(was[p], r, m, 1 .. m)
        BY <2>6, <2>9
      <3> QED BY <2>7, <3>1, <3>2
    <2> QED BY <2>7, <2>8, <2>9 DEF Filled, m, u, is
  <1>5. lists[K][I].cost < 0 \/ lists[K][I].cost >= 0
    BY <1>1
  <1> QED BY <1>3, <1>4, <1>5

(* Whatever a ratedeck says, it leaves a trie of sorted arrays, and is      *)
(* added to it line by line.                                                *)
LEMMA RatesAreTidy ==
  ASSUME NEW m \in 0 .. 254, NEW rates \in Seq(Lines), NEW k \in Nat \ {0}, NEW type \in {0, 1},
         NEW t \in Tries(Characters, m)
  PROVE  /\ AddRates(t, rates, k, type) \in Tries(Characters, m)
         /\ \E h : Adds(h, Tries(Characters, m), t, rates, k, type)
  <1>1. ASSUME NEW u \in Tries(Characters, m), NEW rate \in Lines
        PROVE  AddRate(u, rate, k, type) \in Tries(Characters, m)
    <2>1. CASE rate.cost >= 0
      <3> DEFINE r == [cost |-> rate.cost, value |-> k, type |-> type]
      <3>1. rate.digits \in Seq(Characters) /\ rate.cost \in Nat /\ type \in Nat
        BY <2>1 DEF Lines
      <3>2. r \in AnyRoute
        BY <3>1 DEF AnyRoute
      <3>3. AddRate(u, rate, k, type) = RouteTrieAdd(u, rate.digits, r)
        BY <2>1 DEF AddRate
      <3> HIDE DEF r
      <3> QED BY <3>1, <3>2, <3>3, TrieAddIsTidy
    <2>2. CASE ~(rate.cost >= 0)
      BY <2>2 DEF AddRate
    <2> QED BY <2>1, <2>2
  <1>2. PICK h : Adds(h, Tries(Characters, m), t, rates, k, type)
    BY <1>1, RateSteps
  <1>3. Len(rates) \in 0 .. Len(rates)
    OBVIOUS
  <1>4. AddRates(t, rates, k, type) \in Tries(Characters, m)
    BY <1>2, <1>3 DEF Adds
  <1> QED BY <1>2, <1>4

(* One ratedeck more in the trie, line by line.                             *)
LEMMA ListAdded ==
  ASSUME NEW lists \in CarrierLists, NEW type \in {0, 1}, NEW K \in 1 .. Len(lists),
         NEW t, Filled(t, lists, type, UpToLine(lists, type, K, 0))
  PROVE  Filled(AddRates(t, lists[K], K, type), lists, type,
                UpToLine(lists, type, K, Len(lists[K])))
  <1> DEFINE m == Len(lists)
             n == Len(lists[K])
             upTo(I) == UpToLine(lists, type, K, I)
  <1>1. m \in Nat /\ m < 255 /\ K \in Nat \ {0} /\ lists[K] \in Seq(Lines) /\ n \in Nat
    BY DEF CarrierLists
  <1>2. PICK h : Adds(h, Tries(Characters, m), t, lists[K], K, type)
    <2>1. m \in 0 .. 254
      <3> HIDE DEF m
      <3> QED BY <1>1
    <2>2. t \in Tries(Characters, m)
      BY DEF Filled
    <2> HIDE DEF m
    <2> QED BY <1>1, <2>1, <2>2, RatesAreTidy
  <1>3. /\ h[0] = t /\ AddRates(t, lists[K], K, type) = h[n]
        /\ \A I \in 1 .. n : h[I] = AddRate(h[I - 1], lists[K][I], K, type)
    BY <1>2 DEF Adds
  <1> DEFINE T == {I \in 0 .. n : Filled(h[I], lists, type, upTo(I))}
  <1> HIDE DEF n, m, upTo
  <1>4. 0 \in T
    <2>1. 0 \in 0 .. n
      BY <1>1
    <2> QED BY <1>3, <2>1 DEF upTo
  <1>5. ASSUME NEW I \in 1 .. n, I - 1 \in T PROVE I \in T
    <2>1. Filled(h[I - 1], lists, type, upTo(I - 1))
      BY <1>5
    <2>2. I \in 0 .. n
      BY <1>1
    <2>3. Filled(AddRate(h[I - 1], lists[K][I], K, type), lists, type, upTo(I))
      BY <2>1, LineAdded DEF upTo, n
    <2> QED BY <1>3, <2>2, <2>3
  <1>6. n \in T
    <2> HIDE DEF T
    <2>1. n \in 0 .. n
      BY <1>1
    <2>2. \A I \in 0 .. n : I \in T
      BY <1>1, <1>4, <1>5, UpToN
    <2> QED BY <2>1, <2>2
  <1> QED BY <1>3, <1>6 DEF upTo, n

(* The last line of a list is the one before the next list.                 *)
LEMMA ListsFollow ==
  ASSUME NEW lists \in CarrierLists, NEW type \in {0, 1}
  PROVE  /\ UpToLine(lists, type, 1, 0) = [d \in Seq(Characters) |-> {}]
         /\ \A K \in 1 .. Len(lists) :
              UpToLine(lists, type, K, Len(lists[K])) = UpToLine(lists, type, K + 1, 0)
         /\ UpToLine(lists, type, Len(lists) + 1, 0) = LinesOf(lists, type)
  <1>1. Len(lists) \in Nat /\ \A k \in 1 .. Len(lists) : Len(lists[k]) \in Nat
    BY DEF CarrierLists
  <1>2. \A k \in 1 .. Len(lists) : \A i \in 1 .. Len(lists[k]) :
          /\ ~Before(k, i, 1, 0) /\ Before(k, i, Len(lists) + 1, 0)
          /\ \A K \in 1 .. Len(lists) :
               Before(k, i, K, Len(lists[K])) <=> Before(k, i, K + 1, 0)
    BY <1>1 DEF Before
  <1>3. UpToLine(lists, type, 1, 0) = [d \in Seq(Characters) |-> {}]
    BY <1>2 DEF UpToLine
  <1>4. UpToLine(lists, type, Len(lists) + 1, 0) = LinesOf(lists, type)
    BY <1>2 DEF UpToLine, LinesOf
  <1>5. \A K \in 1 .. Len(lists) :
          UpToLine(lists, type, K, Len(lists[K])) = UpToLine(lists, type, K + 1, 0)
    BY <1>2 DEF UpToLine
  <1> QED BY <1>3, <1>4, <1>5

(* A trie has the routes of all lines, each at the node of its digits. The  *)
(* list of a node is exact if no later line there costs as little.          *)
LEMMA TrieIsFilled ==
  ASSUME NEW lists \in CarrierLists, NEW type \in {0, 1}
  PROVE  Filled(Trie(lists, type), lists, type, LinesOf(lists, type))
  <1> DEFINE m == Len(lists)
             seq == [k \in DOMAIN lists |-> k]
             t0 == RouteTrieCreate(m)
             upTo(K) == UpToLine(lists, type, K + 1, 0)
  <1>1. m \in Nat /\ m \in 0 .. 254 /\ lists \in Seq(Seq(Lines))
    <2>1. m \in Nat /\ m < 255 /\ lists \in Seq(Seq(Lines))
      BY DEF CarrierLists
    <2> HIDE DEF m
    <2> QED BY <2>1
  <1>2. /\ seq \in Seq(1 .. m) /\ Len(seq) = m
        /\ \A k \in 1 .. m : seq[k] = k /\ lists[k] \in Seq(Lines)
    BY <1>1
  <1>3. Trie(lists, type) = AddLists(t0, seq, lists, type)
    BY DEF Trie, FoldLeftDomain, AddLists
  <1> HIDE DEF seq
  <1>4. /\ t0 \in Tries(Characters, m) /\ Whole(t0, Characters, m, [d \in Seq(Characters) |-> {}])
        /\ \A d \in Seq(Characters) : ExactAt(t0, m, [e \in Seq(Characters) |-> {}], d)
    BY <1>1, NewTrie
  <1> HIDE DEF m, t0
  <1>5. PICK h : AddsAll(h, Tries(Characters, m), t0, seq, lists, type)
    <2>1. \A t \in Tries(Characters, m), k \in 1 .. m :
            AddRates(t, lists[k], k, type) \in Tries(Characters, m)
      <3>1. \A k \in 1 .. m : k \in Nat \ {0}
        BY <1>1
      <3> QED BY <1>1, <1>2, <3>1, RatesAreTidy
    <2> QED BY <1>2, <1>4, <2>1, ListSteps
  <1>6. /\ h[0] = t0 /\ AddLists(t0, seq, lists, type) = h[m]
        /\ \A k \in 1 .. m : h[k] = AddRates(h[k - 1], lists[k], k, type)
    BY <1>2, <1>5 DEF AddsAll
  <1> DEFINE T == {K \in 0 .. m : Filled(h[K], lists, type, upTo(K))}
  <1> HIDE DEF upTo
  <1>7. 0 \in T
    <2>1. 0 \in 0 .. m
      BY <1>1
    <2>2. upTo(0) = [d \in Seq(Characters) |-> {}]
      BY ListsFollow DEF upTo
    <2>3. Filled(t0, lists, type, upTo(0))
      BY <1>4, <2>2 DEF Filled, m
    <2> QED BY <1>6, <2>1, <2>3
  <1>8. ASSUME NEW K \in 1 .. m, K - 1 \in T PROVE K \in T
    <2>1. Filled(h[K - 1], lists, type, upTo(K - 1))
      BY <1>8
    <2>2. K \in 0 .. m /\ K - 1 + 1 = K
      BY <1>1
    <2>3. upTo(K - 1) = UpToLine(lists, type, K, 0)
      BY <2>2 DEF upTo
    <2>4. upTo(K) = UpToLine(lists, type, K, Len(lists[K]))
      BY ListsFollow DEF upTo, m
    <2>5. Filled(AddRates(h[K - 1], lists[K], K, type), lists, type, upTo(K))
      BY <2>1, <2>3, <2>4, ListAdded DEF m
    <2> QED BY <1>6, <2>2, <2>5
  <1>9. m \in T
    <2> HIDE DEF T
    <2>1. m \in 0 .. m
      BY <1>1
    <2>2. \A K \in 0 .. m : K \in T
      BY <1>1, <1>7, <1>8, UpToN
    <2> QED BY <2>1, <2>2
  <1>10. upTo(m) = LinesOf(lists, type)
    BY ListsFollow DEF upTo, m
  <1> QED BY <1>3, <1>6, <1>9, <1>10

(* The routes of the lines whose digits the number starts with.             *)
LinesFor(lists, type, number) ==
  {r \in AnyRoute : \E k \in 1 .. Len(lists) : \E i \in 1 .. Len(lists[k]) :
     /\ StartsWith(number, lists[k][i].digits) /\ lists[k][i].cost >= 0
     /\ r = RouteOf(lists, type, k, i)}

(* The routes on the way to a number are those of the lines whose digits it *)
(* starts with.                                                             *)
LEMMA PassedLines ==
  ASSUME NEW lists \in CarrierLists, NEW type \in {0, 1}, NEW number \in Seq(Characters),
         NEW t, Filled(t, lists, type, LinesOf(lists, type))
  PROVE  RoutesOnWay(t, LinesOf(lists, type), number) = LinesFor(lists, type, number)
  <1> DEFINE N == LinesOf(lists, type)
             D == Depth(t, number)
             n == Len(number)
  <1>1. /\ D \in 0 .. n /\ D \in Nat /\ n \in Nat
        /\ \A k \in 0 .. n : SubSeq(number, 1, k) \in DOMAIN t <=> k <= D
    BY DepthOfWay DEF Filled, Whole
  <1>2. \A d \in Seq(Characters) \ DOMAIN t : N[d] = {}
    BY DEF Filled, Whole
  <1>3. \A k \in 0 .. n : SubSeq(number, 1, k) \in Seq(Characters) /\ Len(SubSeq(number, 1, k)) = k
    <2>1. \A k \in 0 .. n : 0 \in 0 .. k
      OBVIOUS
    <2> QED BY <2>1, PrefixOfPrefix
  <1>4. \A r, d : d \in Seq(Characters) =>
          (r \in N[d] <=> r \in AnyRoute /\ \E k \in 1 .. Len(lists) : \E i \in 1 .. Len(lists[k]) :
             lists[k][i].digits = d /\ lists[k][i].cost >= 0 /\ r = RouteOf(lists, type, k, i))
    BY DEF LinesOf
  <1> HIDE DEF N, D, n
  <1>5. ASSUME NEW r \in Passed(t, N, number, D + 1) PROVE r \in LinesFor(lists, type, number)
    <2>1. PICK j \in 1 .. D + 1 : r \in AnyRoute /\ r \in N[SubSeq(number, 1, j - 1)]
      BY DEF Passed
    <2> DEFINE d == SubSeq(number, 1, j - 1)
    <2>2. j - 1 \in 0 .. n /\ d \in Seq(Characters) /\ Len(d) = j - 1
      BY <1>1, <1>3
    <2>3. PICK k \in 1 .. Len(lists) : \E i \in 1 .. Len(lists[k]) :
            lists[k][i].digits = d /\ lists[k][i].cost >= 0 /\ r = RouteOf(lists, type, k, i)
      BY <1>4, <2>1, <2>2
    <2>4. StartsWith(number, d)
      BY <1>1, <2>2 DEF StartsWith, n
    <2> QED BY <2>1, <2>3, <2>4 DEF LinesFor
  <1>6. ASSUME NEW r \in LinesFor(lists, type, number) PROVE r \in Passed(t, N, number, D + 1)
    <2>0. PICK k \in 1 .. Len(lists) : \E i \in 1 .. Len(lists[k]) :
            /\ StartsWith(number, lists[k][i].digits) /\ lists[k][i].cost >= 0
            /\ r = RouteOf(lists, type, k, i)
      BY DEF LinesFor
    <2>1. PICK i \in 1 .. Len(lists[k]) :
            /\ StartsWith(number, lists[k][i].digits) /\ lists[k][i].cost >= 0
            /\ r = RouteOf(lists, type, k, i) /\ r \in AnyRoute
      BY <2>0 DEF LinesFor
    <2> DEFINE d == lists[k][i].digits
               j == Len(d)
    <2>2. d \in Seq(Characters) /\ j \in Nat /\ j \in 0 .. n /\ d = SubSeq(number, 1, j)
      <3>1. d \in Seq(Characters)
        BY LineIsRoute
      <3> QED BY <2>1, <3>1 DEF StartsWith, n
    <2>3. r \in N[d]
      BY <1>4, <2>1, <2>2
    <2>4. d \in DOMAIN t
      BY <1>2, <2>2, <2>3
    <2>5. j <= D
      BY <1>1, <2>2, <2>4
    <2>6. j + 1 \in 1 .. D + 1 /\ j + 1 - 1 = j
      BY <1>1, <2>2, <2>5
    <2> HIDE DEF d, j
    <2> QED BY <2>1, <2>2, <2>3, <2>6 DEF Passed
  <1> QED BY <1>5, <1>6 DEF RoutesOnWay, N, D

(* A search finds, of the lines whose digits the number starts with, the    *)
(* cheapest first.                                                          *)
LEMMA SearchHolds ==
  ASSUME NEW lists \in CarrierLists, NEW type \in {0, 1}, NEW number \in Seq(Characters),
         NEW x \in Nat, NEW a, Holds(a, x, {})
  PROVE  Holds(RouteTrieFind(Trie(lists, type), number, a), x, LinesFor(lists, type, number))
  <1> DEFINE t == Trie(lists, type)
             N == LinesOf(lists, type)
             m == Len(lists)
  <1>1. Filled(t, lists, type, N)
    BY TrieIsFilled
  <1>2. TrieOf(t, Characters, m, N) /\ m \in Nat
    BY <1>1 DEF Filled, Whole, CarrierLists
  <1>3. RoutesOnWay(t, N, number) = LinesFor(lists, type, number)
    BY <1>1, PassedLines
  <1> HIDE DEF t, N, m
  <1>4. Holds(RouteTrieFind(t, number, a), x, RoutesOnWay(t, N, number))
    BY <1>2, FindHolds
  <1> QED BY <1>3, <1>4 DEF t

(* For the number no carrier's line, of more digits or further down, costs  *)
(* as little as an earlier one.                                             *)
DearerOnWay(lists, number) ==
  \A k \in 1 .. Len(lists) : \A i, j \in 1 .. Len(lists[k]) :
    LET x == lists[k][i]
        y == lists[k][j] IN
    /\ StartsWith(number, x.digits) /\ StartsWith(number, y.digits)
    /\ x.cost >= 0 /\ y.cost >= 0
    /\ Len(x.digits) < Len(y.digits) \/ (Len(x.digits) = Len(y.digits) /\ i < j)
    => x.cost < y.cost

(* If no carrier's later line for the number costs as little, a value that  *)
(* comes again on the way costs more.                                       *)
LEMMA WayIsCheaperFirst ==
  ASSUME NEW lists \in CarrierLists, NEW type \in {0, 1}, NEW number \in Seq(Characters),
         DearerOnWay(lists, number), NEW V, \A r \in LinesFor(lists, type, number) : r.value \in V
  PROVE  /\ TrieOf(Trie(lists, type), Characters, Len(lists), LinesOf(lists, type))
         /\ CheaperFirst(Trie(lists, type), Len(lists), LinesOf(lists, type), number, V, type)
  <1> DEFINE t == Trie(lists, type)
             N == LinesOf(lists, type)
             m == Len(lists)
             n == Depth(t, number) + 1
             way(k) == SubSeq(number, 1, k - 1)
  <1>1. Filled(t, lists, type, N)
    BY TrieIsFilled
  <1>2. TrieOf(t, Characters, m, N) /\ m \in Nat
    BY <1>1 DEF Filled, Whole, CarrierLists
  <1>3. /\ n \in Nat /\ Len(number) \in Nat
        /\ \A k \in 1 .. n : /\ k - 1 \in 0 .. Len(number) /\ way(k) \in Seq(Characters)
                             /\ Len(way(k)) = k - 1 /\ way(k) \in DOMAIN t
                             /\ StartsWith(number, way(k))
    <2>1. Depth(t, number) \in 0 .. Len(number) /\ Len(number) \in Nat
      BY <1>2, DepthOfWay
    <2>2. n \in Nat /\ \A k \in 1 .. n : /\ k - 1 \in 0 .. Len(number) /\ k - 1 \in Nat
                                        /\ 0 \in 0 .. k - 1
      BY <2>1
    <2>3. ASSUME NEW k \in 1 .. n
          PROVE  /\ way(k) \in Seq(Characters) /\ Len(way(k)) = k - 1 /\ way(k) \in DOMAIN t
      <3>1. way(k) \in DOMAIN t
        <4> HIDE DEF t
        <4> QED BY <1>2, NodeOnWay
      <3>2. way(k) \in Seq(Characters) /\ Len(way(k)) = k - 1
        BY <2>2, PrefixOfPrefix
      <3> QED BY <3>1, <3>2
    <2>4. ASSUME NEW k \in 1 .. n PROVE StartsWith(number, way(k))
      <3>1. Len(way(k)) = k - 1 /\ k - 1 \in 0 .. Len(number)
        BY <2>2, <2>3
      <3>2. SubSeq(number, 1, Len(way(k))) = way(k)
        BY <3>1
      <3> HIDE DEF way
      <3> QED BY <2>1, <3>1, <3>2 DEF StartsWith
    <2> HIDE DEF n, way, t
    <2> QED BY <2>1, <2>2, <2>3, <2>4
  <1> HIDE DEF t, N, n, way
  <1>4. ASSUME NEW k \in 1 .. n PROVE DearerLater(lists, way(k))
    <2>1. SUFFICES ASSUME NEW K \in 1 .. Len(lists),
                          NEW i \in 1 .. Len(lists[K]), NEW j \in 1 .. Len(lists[K]),
                          i < j, lists[K][i].digits = way(k), lists[K][j].digits = way(k),
                          lists[K][j].cost >= 0
                   PROVE  lists[K][i].cost < lists[K][j].cost
      BY DEF DearerLater
    <2>2. lists[K][i].cost \in Int /\ lists[K][j].cost \in Int
      BY LineIsRoute
    <2>3. CASE lists[K][i].cost >= 0
      BY <1>3, <2>1, <2>3 DEF DearerOnWay
    <2>4. CASE ~(lists[K][i].cost >= 0)
      BY <2>1, <2>2, <2>4
    <2> QED BY <2>3, <2>4
  <1>5. ASSUME NEW k \in 1 .. n PROVE Exact(t[way(k)], m, N[way(k)])
    BY <1>1, <1>3, <1>4 DEF Filled, ExactAt
  <1>6. ASSUME NEW k \in 1 .. n, NEW r \in N[way(k)]
        PROVE  \E K \in 1 .. Len(lists) : \E i \in 1 .. Len(lists[K]) :
                 /\ lists[K][i].digits = way(k) /\ lists[K][i].cost >= 0 /\ r \in AnyRoute
                 /\ r = RouteOf(lists, type, K, i)
    BY <1>3, <1>6 DEF LinesOf, N
  <1>7. ASSUME NEW k \in 1 .. n, NEW r \in N[way(k)] PROVE r.value \in V /\ r.type = type
    <2>1. PICK K \in 1 .. Len(lists) : \E i \in 1 .. Len(lists[K]) :
            /\ lists[K][i].digits = way(k) /\ lists[K][i].cost >= 0 /\ r \in AnyRoute
            /\ r = RouteOf(lists, type, K, i)
      BY <1>6
    <2>2. r \in LinesFor(lists, type, number)
      BY <1>3, <2>1 DEF LinesFor
    <2>3. r.type = type
      BY <2>1 DEF RouteOf
    <2> QED BY <2>2, <2>3
  <1>8. ASSUME NEW j \in 1 .. n, NEW k \in 1 .. n, j < k, NEW s \in N[way(j)], NEW r \in N[way(k)],
               s.value = r.value
        PROVE  s.cost < r.cost
    <2>1. PICK K \in 1 .. Len(lists) : \E i \in 1 .. Len(lists[K]) :
            /\ lists[K][i].digits = way(j) /\ lists[K][i].cost >= 0
            /\ s = RouteOf(lists, type, K, i)
      BY <1>6
    <2>2. PICK i \in 1 .. Len(lists[K]) :
            /\ lists[K][i].digits = way(j) /\ lists[K][i].cost >= 0
            /\ s = RouteOf(lists, type, K, i)
      BY <2>1
    <2>3. PICK L \in 1 .. Len(lists) : \E l \in 1 .. Len(lists[L]) :
            /\ lists[L][l].digits = way(k) /\ lists[L][l].cost >= 0
            /\ r = RouteOf(lists, type, L, l)
      BY <1>6
    <2>4. PICK l \in 1 .. Len(lists[L]) :
            /\ lists[L][l].digits = way(k) /\ lists[L][l].cost >= 0
            /\ r = RouteOf(lists, type, L, l)
      BY <2>3
    <2>5. K = L /\ s.cost = lists[K][i].cost /\ r.cost = lists[L][l].cost
      BY <1>8, <2>2, <2>4 DEF RouteOf
    <2>6. /\ StartsWith(number, lists[K][i].digits) /\ StartsWith(number, lists[K][l].digits)
          /\ Len(lists[K][i].digits) < Len(lists[K][l].digits)
      <3>1. Len(way(j)) = j - 1 /\ Len(way(k)) = k - 1 /\ j \in Nat /\ k \in Nat
        <4>1. Len(way(j)) = j - 1 /\ Len(way(k)) = k - 1
          BY <1>3
        <4>2. j \in Nat /\ k \in Nat
          BY <1>3
        <4> QED BY <4>1, <4>2
      <3>2. Len(way(j)) < Len(way(k))
        BY <1>8, <3>1
      <3>3. StartsWith(number, way(j)) /\ StartsWith(number, way(k))
        BY <1>3
      <3> QED BY <2>2, <2>4, <2>5, <3>2, <3>3
    <2>7. lists[K][i].cost < lists[K][l].cost
      BY <2>2, <2>4, <2>5, <2>6 DEF DearerOnWay
    <2> QED BY <2>5, <2>7
  <1>9. CheaperFirst(t, m, N, number, V, type)
    BY <1>5, <1>7, <1>8 DEF CheaperFirst, n, way
  <1> QED BY <1>2, <1>9 DEF t, N, m

(* A search for such a number finds each carrier once.                      *)
LEMMA SearchExact ==
  ASSUME NEW lists \in CarrierLists, NEW type \in {0, 1}, NEW number \in Seq(Characters),
         DearerOnWay(lists, number),
         NEW V, IsFiniteSet(V), \A r \in LinesFor(lists, type, number) : r.value \in V,
         NEW x \in Nat, Cardinality(V) <= x, NEW a, Holds(a, x, {}), Exact(a, x, {})
  PROVE  Exact(RouteTrieFind(Trie(lists, type), number, a), x, LinesFor(lists, type, number))
  <1> DEFINE t == Trie(lists, type)
             N == LinesOf(lists, type)
             m == Len(lists)
  <1>1. m \in Nat
    BY DEF CarrierLists
  <1>2. TrieOf(t, Characters, m, N) /\ CheaperFirst(t, m, N, number, V, type)
    BY WayIsCheaperFirst
  <1>3. RoutesOnWay(t, N, number) = LinesFor(lists, type, number)
    BY TrieIsFilled, PassedLines
  <1> HIDE DEF t, N, m
  <1>4. Exact(RouteTrieFind(t, number, a), x, RoutesOnWay(t, N, number))
    BY <1>1, <1>2, FindExact
  <1> QED BY <1>3, <1>4 DEF t

-----------------------------------------------------------------------------
(* The lists of a configuration.                                            *)

(* A configuration that is built, of fewer than 255 carriers.               *)
Built(c) == c \in Configs /\ c.reads /\ ~Fails(c) /\ Len(c.carriers) < 255

(* The carriers of a configuration that is built.                           *)
LEMMA CarriersOf ==
  ASSUME NEW c, Built(c)
  PROVE  /\ c.carriers \in Seq(Carriers) /\ c.maxRoutes \in 1 .. 8
         /\ Len(c.carriers) \in Nat /\ DOMAIN c.carriers = 1 .. Len(c.carriers)
         /\ \A k \in DOMAIN c.carriers :
              /\ c.carriers[k].rates \in Seq(Rates)
              /\ DOMAIN c.carriers[k].rates = 1 .. Len(c.carriers[k].rates)
              /\ InterAreas(c.carriers[k]) \in Seq(Seq(Characters))
              /\ DOMAIN InterAreas(c.carriers[k]) = 1 .. Len(InterAreas(c.carriers[k]))
  <1>1. c.carriers \in Seq(Carriers) /\ c.maxRoutes \in 1 .. 8
    BY ConfigAssumption DEF Built
  <1>2. Len(c.carriers) \in Nat /\ DOMAIN c.carriers = 1 .. Len(c.carriers)
    BY <1>1
  <1>3. ASSUME NEW k \in DOMAIN c.carriers
        PROVE  /\ c.carriers[k].rates \in Seq(Rates)
               /\ DOMAIN c.carriers[k].rates = 1 .. Len(c.carriers[k].rates)
               /\ InterAreas(c.carriers[k]) \in Seq(Seq(Characters))
               /\ DOMAIN InterAreas(c.carriers[k]) = 1 .. Len(InterAreas(c.carriers[k]))
    <2>1. c.carriers[k] \in Carriers
      BY <1>1
    <2>2. c.carriers[k].rates \in Seq(Rates) /\ c.carriers[k].interAreas \in Seq(Seq(Characters))
      BY <2>1 DEF Carriers
    <2>3. InterAreas(c.carriers[k]) \in Seq(Seq(Characters))
      BY <2>2 DEF InterAreas
    <2> QED BY <2>2, <2>3
  <1> QED BY <1>1, <1>2, <1>3

LEMMA CostsAreInts == \A n \in RateCosts : n \in Int
  <1>1. COST_BAD_INPUT \in Int
    BY DEF COST_BAD_INPUT
  <1>2. QED BY <1>1 DEF RateCosts

(* A rate has digits and a cost of either type.                             *)
LEMMA RateIsLine ==
  ASSUME NEW rate \in Rates, NEW type \in {0, 1}
  PROVE  rate.digits \in Seq(Characters) /\ CostOf(rate, type) \in Int
  <1>1. /\ rate.digits \in Seq(Characters)
        /\ rate.inter \in RateCosts /\ rate.intra \in RateCosts
    BY DEF Rates
  <1>2. rate.inter \in Int /\ rate.intra \in Int
    BY <1>1, CostsAreInts
  <1> QED BY <1>1, <1>2 DEF CostOf

(* The ratedecks as lists of lines.                                         *)
LEMMA RateListsOf ==
  ASSUME NEW c, Built(c), NEW type \in {0, 1}
  PROVE  /\ RateLists(c, type) \in CarrierLists /\ Len(RateLists(c, type)) = Len(c.carriers)
         /\ \A k \in DOMAIN c.carriers :
              /\ Len(RateLists(c, type)[k]) = Len(c.carriers[k].rates)
              /\ \A i \in DOMAIN c.carriers[k].rates :
                   /\ RateLists(c, type)[k][i].digits = c.carriers[k].rates[i].digits
                   /\ RateLists(c, type)[k][i].cost = CostOf(c.carriers[k].rates[i], type)
  <1> DEFINE lists == RateLists(c, type)
             m == Len(c.carriers)
             rates(k) == c.carriers[k].rates
             line(k, i) == [digits |-> rates(k)[i].digits, cost |-> CostOf(rates(k)[i], type)]
  <1>1. /\ m \in Nat /\ DOMAIN c.carriers = 1 .. m
        /\ \A k \in DOMAIN c.carriers :
             rates(k) \in Seq(Rates) /\ DOMAIN rates(k) = 1 .. Len(rates(k))
    BY CarriersOf
  <1>2. lists = [k \in 1 .. m |-> [i \in 1 .. Len(rates(k)) |-> line(k, i)]]
    BY <1>1 DEF RateLists
  <1>3. ASSUME NEW k \in 1 .. m, NEW i \in 1 .. Len(rates(k))
        PROVE  /\ line(k, i) \in Lines
               /\ line(k, i).cost >= 0 => AllDigits(line(k, i).digits)
    <2>1. rates(k) \in Seq(Rates)
      BY <1>1
    <2>2. rates(k)[i] \in Rates
      <3> HIDE DEF rates
      <3> QED BY <2>1
    <2>3. rates(k)[i].digits \in Seq(Characters) /\ CostOf(rates(k)[i], type) \in Int
      <3> HIDE DEF rates
      <3> QED BY <2>2, RateIsLine
    <2>4. ~BadRate(rates(k)[i])
      <3>1. k \in DOMAIN c.carriers /\ i \in DOMAIN c.carriers[k].rates
        BY <1>1
      <3> QED BY <3>1 DEF Built, Fails
    <2> HIDE DEF rates
    <2>5. line(k, i) \in Lines
      BY <2>3 DEF Lines
    <2>6. line(k, i).cost >= 0 => AllDigits(line(k, i).digits)
      BY <2>3, <2>4 DEF BadRate, CostOf
    <2> QED BY <2>5, <2>6
  <1> HIDE DEF lists, line
  <1>4. ASSUME NEW k \in 1 .. m
        PROVE  lists[k] \in Seq(Lines) /\ Len(lists[k]) = Len(rates(k))
    <2>1. rates(k) \in Seq(Rates)
      BY <1>1
    <2>2. Len(rates(k)) \in Nat
      <3> HIDE DEF rates
      <3> QED BY <2>1
    <2> HIDE DEF rates
    <2>3. lists[k] = [i \in 1 .. Len(rates(k)) |-> line(k, i)]
      BY <1>2
    <2> QED BY <1>3, <2>2, <2>3
  <1>5. lists \in Seq(Seq(Lines)) /\ Len(lists) = m
    <2> HIDE DEF m, rates
    <2>1. DOMAIN lists = 1 .. m /\ lists = [k \in 1 .. m |-> lists[k]]
      BY <1>2
    <2> QED BY <1>1, <1>4, <2>1
  <1>6. ASSUME NEW k \in 1 .. m, NEW i \in 1 .. Len(rates(k))
        PROVE  lists[k][i] = line(k, i)
    BY <1>2
  <1>7. lists \in CarrierLists
    <2>1. Len(lists) < 255
      BY <1>5 DEF Built
    <2>2. ASSUME NEW k \in 1 .. Len(lists), NEW i \in 1 .. Len(lists[k])
          PROVE  lists[k][i].cost >= 0 => AllDigits(lists[k][i].digits)
      <3>1. k \in 1 .. m
        BY <1>5
      <3>2. i \in 1 .. Len(rates(k))
        BY <1>4, <3>1
      <3> QED BY <1>3, <1>6, <3>1, <3>2
    <2> QED BY <1>5, <2>1, <2>2 DEF CarrierLists
  <1>8. ASSUME NEW k \in DOMAIN c.carriers
        PROVE  /\ Len(lists[k]) = Len(rates(k))
               /\ \A i \in DOMAIN rates(k) :
                    /\ lists[k][i].digits = rates(k)[i].digits
                    /\ lists[k][i].cost = CostOf(rates(k)[i], type)
    <2>1. DOMAIN rates(k) = 1 .. Len(rates(k)) /\ k \in 1 .. m
      BY <1>1
    <2>2. \A i \in 1 .. Len(rates(k)) : lists[k][i] = line(k, i)
      BY <1>6, <2>1
    <2>3. Len(lists[k]) = Len(rates(k))
      BY <1>4, <2>1
    <2>4. ASSUME NEW i \in DOMAIN rates(k)
          PROVE  /\ lists[k][i].digits = rates(k)[i].digits
                 /\ lists[k][i].cost = CostOf(rates(k)[i], type)
      <3>1. lists[k][i] = line(k, i)
        BY <2>1, <2>2
      <3> HIDE DEF rates
      <3> QED BY <3>1 DEF line
    <2> HIDE DEF rates
    <2> QED BY <2>3, <2>4
  <1> QED BY <1>5, <1>7, <1>8 DEF lists

(* The areas of the carriers as lists of lines.                             *)
LEMMA AreaListsOf ==
  ASSUME NEW c, Built(c)
  PROVE  /\ AreaLists(c) \in CarrierLists /\ Len(AreaLists(c)) = Len(c.carriers)
         /\ \A k \in DOMAIN c.carriers :
              /\ Len(AreaLists(c)[k]) = Len(InterAreas(c.carriers[k]))
              /\ \A i \in DOMAIN InterAreas(c.carriers[k]) :
                   /\ AreaLists(c)[k][i].digits = InterAreas(c.carriers[k])[i]
                   /\ AreaLists(c)[k][i].cost = 0
  <1> DEFINE lists == AreaLists(c)
             m == Len(c.carriers)
             areas(k) == InterAreas(c.carriers[k])
             line(k, i) == [digits |-> areas(k)[i], cost |-> 0]
  <1>1. /\ m \in Nat /\ DOMAIN c.carriers = 1 .. m
        /\ \A k \in DOMAIN c.carriers :
             areas(k) \in Seq(Seq(Characters)) /\ DOMAIN areas(k) = 1 .. Len(areas(k))
    BY CarriersOf
  <1>2. lists = [k \in 1 .. m |-> [i \in 1 .. Len(areas(k)) |-> line(k, i)]]
    BY <1>1 DEF AreaLists
  <1>3. ASSUME NEW k \in 1 .. m, NEW i \in 1 .. Len(areas(k))
        PROVE  line(k, i) \in Lines /\ AllDigits(line(k, i).digits)
    <2>1. areas(k) \in Seq(Seq(Characters))
      BY <1>1
    <2>2. areas(k)[i] \in Seq(Characters)
      <3> HIDE DEF areas
      <3> QED BY <2>1
    <2>3. AllDigits(areas(k)[i])
      <3>1. k \in DOMAIN c.carriers /\ i \in DOMAIN InterAreas(c.carriers[k])
        BY <1>1
      <3> QED BY <3>1 DEF Built, Fails
    <2> HIDE DEF areas
    <2> QED BY <2>2, <2>3 DEF Lines
  <1> HIDE DEF lists, line
  <1>4. ASSUME NEW k \in 1 .. m
        PROVE  lists[k] \in Seq(Lines) /\ Len(lists[k]) = Len(areas(k))
    <2>1. areas(k) \in Seq(Seq(Characters))
      BY <1>1
    <2>2. Len(areas(k)) \in Nat
      <3> HIDE DEF areas
      <3> QED BY <2>1
    <2> HIDE DEF areas
    <2>3. lists[k] = [i \in 1 .. Len(areas(k)) |-> line(k, i)]
      BY <1>2
    <2> QED BY <1>3, <2>2, <2>3
  <1>5. lists \in Seq(Seq(Lines)) /\ Len(lists) = m
    <2> HIDE DEF m, areas
    <2>1. DOMAIN lists = 1 .. m /\ lists = [k \in 1 .. m |-> lists[k]]
      BY <1>2
    <2> QED BY <1>1, <1>4, <2>1
  <1>6. ASSUME NEW k \in 1 .. m, NEW i \in 1 .. Len(areas(k))
        PROVE  lists[k][i] = line(k, i)
    BY <1>2
  <1>7. lists \in CarrierLists
    <2>1. Len(lists) < 255
      BY <1>5 DEF Built
    <2>2. ASSUME NEW k \in 1 .. Len(lists), NEW i \in 1 .. Len(lists[k])
          PROVE  lists[k][i].cost >= 0 => AllDigits(lists[k][i].digits)
      BY <1>3, <1>4, <1>5, <1>6
    <2> QED BY <1>5, <2>1, <2>2 DEF CarrierLists
  <1>8. ASSUME NEW k \in DOMAIN c.carriers
        PROVE  /\ Len(lists[k]) = Len(areas(k))
               /\ \A i \in DOMAIN areas(k) :
                    lists[k][i].digits = areas(k)[i] /\ lists[k][i].cost = 0
    <2>1. DOMAIN areas(k) = 1 .. Len(areas(k)) /\ k \in 1 .. m
      BY <1>1
    <2>2. \A i \in 1 .. Len(areas(k)) : lists[k][i] = line(k, i)
      BY <1>6, <2>1
    <2>3. Len(lists[k]) = Len(areas(k))
      BY <1>4, <2>1
    <2>4. ASSUME NEW i \in DOMAIN areas(k)
          PROVE  lists[k][i].digits = areas(k)[i] /\ lists[k][i].cost = 0
      <3>1. lists[k][i] = line(k, i)
        BY <2>1, <2>2
      <3> HIDE DEF areas
      <3> QED BY <3>1 DEF line
    <2> HIDE DEF areas
    <2> QED BY <2>3, <2>4
  <1> QED BY <1>5, <1>7, <1>8 DEF lists

(* The rates for a number, as routes of one type.                           *)
RatesOf(c, type, number) ==
  {r \in AnyRoute : \E k \in DOMAIN c.carriers : \E i \in DOMAIN c.carriers[k].rates :
     LET rate == c.carriers[k].rates[i] IN
     /\ StartsWith(number, rate.digits) /\ CostOf(rate, type) >= 0
     /\ r = [cost |-> CostOf(rate, type), value |-> k, type |-> type]}

(* The lines for a number, read off the configuration.                      *)
LEMMA RateLines ==
  ASSUME NEW c, Built(c), NEW type \in {0, 1}, NEW number
  PROVE  LinesFor(RateLists(c, type), type, number) = RatesOf(c, type, number)
  <1> DEFINE lists == RateLists(c, type)
             line(k, i) == /\ StartsWith(number, lists[k][i].digits) /\ lists[k][i].cost >= 0
             rate(k, i) == LET x == c.carriers[k].rates[i] IN
                           StartsWith(number, x.digits) /\ CostOf(x, type) >= 0
             route(k, i) == [cost |-> CostOf(c.carriers[k].rates[i], type),
                             value |-> k, type |-> type]
  <1>1. /\ 1 .. Len(lists) = DOMAIN c.carriers
        /\ \A k \in DOMAIN c.carriers :
             /\ 1 .. Len(lists[k]) = DOMAIN c.carriers[k].rates
             /\ \A i \in DOMAIN c.carriers[k].rates :
                  (line(k, i) <=> rate(k, i)) /\ RouteOf(lists, type, k, i) = route(k, i)
    <2>1. /\ Len(lists) = Len(c.carriers)
          /\ \A k \in DOMAIN c.carriers :
               /\ Len(lists[k]) = Len(c.carriers[k].rates)
               /\ \A i \in DOMAIN c.carriers[k].rates :
                    /\ lists[k][i].digits = c.carriers[k].rates[i].digits
                    /\ lists[k][i].cost = CostOf(c.carriers[k].rates[i], type)
      BY RateListsOf
    <2>2. DOMAIN c.carriers = 1 .. Len(c.carriers)
          /\ \A k \in DOMAIN c.carriers :
               DOMAIN c.carriers[k].rates = 1 .. Len(c.carriers[k].rates)
      BY CarriersOf
    <2> HIDE DEF lists
    <2> QED BY <2>1, <2>2 DEF RouteOf
  <1>2. LinesFor(lists, type, number) =
          {r \in AnyRoute : \E k \in DOMAIN c.carriers : \E i \in DOMAIN c.carriers[k].rates :
             line(k, i) /\ r = RouteOf(lists, type, k, i)}
    <2> HIDE DEF lists
    <2> QED BY <1>1 DEF LinesFor
  <1>3. RatesOf(c, type, number) =
          {r \in AnyRoute : \E k \in DOMAIN c.carriers : \E i \in DOMAIN c.carriers[k].rates :
             rate(k, i) /\ r = route(k, i)}
    BY DEF RatesOf
  <1> HIDE DEF lists, line, rate, route
  <1>4. \A k \in DOMAIN c.carriers : \A i \in DOMAIN c.carriers[k].rates :
          (line(k, i) <=> rate(k, i)) /\ RouteOf(lists, type, k, i) = route(k, i)
    BY <1>1
  <1> QED BY <1>2, <1>3, <1>4 DEF lists

(* A rate that is not replaced is followed by dearer ones only.             *)
LEMMA RatesAreDearer ==
  ASSUME NEW c, Built(c), NEW type \in {0, 1}, NEW number, ~RateReplaced(c, number)
  PROVE  DearerOnWay(RateLists(c, type), number)
  <1> DEFINE lists == RateLists(c, type)
  <1>1. /\ lists \in CarrierLists /\ Len(lists) = Len(c.carriers)
        /\ \A k \in DOMAIN c.carriers :
             /\ Len(lists[k]) = Len(c.carriers[k].rates)
             /\ \A i \in DOMAIN c.carriers[k].rates :
                  /\ lists[k][i].digits = c.carriers[k].rates[i].digits
                  /\ lists[k][i].cost = CostOf(c.carriers[k].rates[i], type)
    BY RateListsOf
  <1>2. DOMAIN c.carriers = 1 .. Len(c.carriers)
        /\ \A k \in DOMAIN c.carriers :
             DOMAIN c.carriers[k].rates = 1 .. Len(c.carriers[k].rates)
    BY CarriersOf
  <1>3. \A k \in 1 .. Len(lists) : \A i \in 1 .. Len(lists[k]) : lists[k][i].cost \in Int
    BY <1>1, LineIsRoute
  <1> HIDE DEF lists
  <1>4. SUFFICES ASSUME NEW k \in 1 .. Len(lists),
                        NEW i \in 1 .. Len(lists[k]), NEW j \in 1 .. Len(lists[k]),
                        StartsWith(number, lists[k][i].digits),
                        StartsWith(number, lists[k][j].digits),
                        lists[k][i].cost >= 0, lists[k][j].cost >= 0,
                        \/ Len(lists[k][i].digits) < Len(lists[k][j].digits)
                        \/ Len(lists[k][i].digits) = Len(lists[k][j].digits) /\ i < j
                 PROVE  lists[k][i].cost < lists[k][j].cost
    BY DEF DearerOnWay, lists
  <1> DEFINE x == c.carriers[k].rates[i]
             y == c.carriers[k].rates[j]
  <1>5. /\ k \in DOMAIN c.carriers
        /\ i \in DOMAIN c.carriers[k].rates /\ j \in DOMAIN c.carriers[k].rates
    BY <1>1, <1>2
  <1>6. /\ lists[k][i].digits = x.digits /\ lists[k][i].cost = CostOf(x, type)
        /\ lists[k][j].digits = y.digits /\ lists[k][j].cost = CostOf(y, type)
    BY <1>1, <1>5
  <1>7. ~(0 <= CostOf(y, type) /\ CostOf(y, type) <= CostOf(x, type))
    <2>1. /\ StartsWith(number, x.digits) /\ StartsWith(number, y.digits)
          /\ \/ Len(x.digits) < Len(y.digits)
             \/ Len(x.digits) = Len(y.digits) /\ i < j
      BY <1>4, <1>6
    <2> QED BY <1>5, <2>1 DEF RateReplaced
  <1>8. lists[k][i].cost \in Int /\ lists[k][j].cost \in Int
    BY <1>3
  <1> HIDE DEF x, y
  <1> QED BY <1>4, <1>6, <1>7, <1>8

(* The carriers whose areas a caller's number starts with.                  *)
LEMMA AreaLines ==
  ASSUME NEW c, Built(c), NEW number
  PROVE  ValuesOf(LinesFor(AreaLists(c), 0, number)) = InterCallers(c, number)
  <1> DEFINE lists == AreaLists(c)
  <1>1. /\ lists \in CarrierLists /\ Len(lists) = Len(c.carriers)
        /\ \A k \in DOMAIN c.carriers :
             /\ Len(lists[k]) = Len(InterAreas(c.carriers[k]))
             /\ \A i \in DOMAIN InterAreas(c.carriers[k]) :
                  lists[k][i].digits = InterAreas(c.carriers[k])[i] /\ lists[k][i].cost = 0
    BY AreaListsOf
  <1>2. DOMAIN c.carriers = 1 .. Len(c.carriers)
        /\ \A k \in DOMAIN c.carriers :
             DOMAIN InterAreas(c.carriers[k]) = 1 .. Len(InterAreas(c.carriers[k]))
    BY CarriersOf
  <1>3. \A k \in 1 .. Len(lists) : \A i \in 1 .. Len(lists[k]) :
          lists[k][i].cost >= 0 => RouteOf(lists, 0, k, i) \in AnyRoute
    BY <1>1, LineIsRoute
  <1> HIDE DEF lists
  <1>4. ASSUME NEW v \in ValuesOf(LinesFor(lists, 0, number)) PROVE v \in InterCallers(c, number)
    <2>1. PICK r \in LinesFor(lists, 0, number) : r.value = v
      BY DEF ValuesOf
    <2>2. PICK k \in 1 .. Len(lists) : \E i \in 1 .. Len(lists[k]) :
            StartsWith(number, lists[k][i].digits) /\ r = RouteOf(lists, 0, k, i)
      BY DEF LinesFor
    <2>3. PICK i \in 1 .. Len(lists[k]) :
            StartsWith(number, lists[k][i].digits) /\ r = RouteOf(lists, 0, k, i)
      BY <2>2
    <2>4. v = k
      BY <2>1, <2>3 DEF RouteOf
    <2>5. k \in DOMAIN c.carriers /\ i \in DOMAIN InterAreas(c.carriers[k])
      BY <1>1, <1>2
    <2>6. StartsWith(number, InterAreas(c.carriers[k])[i])
      BY <1>1, <2>3, <2>5
    <2> QED BY <2>4, <2>5, <2>6 DEF InterCallers
  <1>5. ASSUME NEW k \in InterCallers(c, number) PROVE k \in ValuesOf(LinesFor(lists, 0, number))
    <2>1. k \in DOMAIN c.carriers
      BY DEF InterCallers
    <2>2. PICK i \in DOMAIN InterAreas(c.carriers[k]) :
            StartsWith(number, InterAreas(c.carriers[k])[i])
      BY DEF InterCallers
    <2>3. k \in 1 .. Len(lists) /\ i \in 1 .. Len(lists[k])
      BY <1>1, <1>2, <2>1
    <2>4. StartsWith(number, lists[k][i].digits) /\ lists[k][i].cost >= 0
      BY <1>1, <2>1, <2>2
    <2>5. RouteOf(lists, 0, k, i) \in LinesFor(lists, 0, number)
      BY <1>3, <2>3, <2>4 DEF LinesFor
    <2>6. RouteOf(lists, 0, k, i).value = k
      BY DEF RouteOf
    <2> QED BY <2>5, <2>6 DEF ValuesOf
  <1> QED BY <1>4, <1>5 DEF lists

(* Areas that do not overlap: no carrier comes twice on the way.            *)
LEMMA AreasAreDearer ==
  ASSUME NEW c, Built(c), NEW number, ~AreasOverlap(c, number)
  PROVE  DearerOnWay(AreaLists(c), number)
  <1> DEFINE lists == AreaLists(c)
  <1>1. /\ lists \in CarrierLists /\ Len(lists) = Len(c.carriers)
        /\ \A k \in DOMAIN c.carriers :
             /\ Len(lists[k]) = Len(InterAreas(c.carriers[k]))
             /\ \A i \in DOMAIN InterAreas(c.carriers[k]) :
                  lists[k][i].digits = InterAreas(c.carriers[k])[i] /\ lists[k][i].cost = 0
    BY AreaListsOf
  <1>2. DOMAIN c.carriers = 1 .. Len(c.carriers)
        /\ \A k \in DOMAIN c.carriers :
             DOMAIN InterAreas(c.carriers[k]) = 1 .. Len(InterAreas(c.carriers[k]))
    BY CarriersOf
  <1> HIDE DEF lists
  <1>3. ASSUME NEW k \in 1 .. Len(lists),
               NEW i \in 1 .. Len(lists[k]), NEW j \in 1 .. Len(lists[k]),
               StartsWith(number, lists[k][i].digits), StartsWith(number, lists[k][j].digits)
        PROVE  i = j
    <2>1. k \in DOMAIN c.carriers
      BY <1>1, <1>2
    <2>2. i \in DOMAIN InterAreas(c.carriers[k]) /\ j \in DOMAIN InterAreas(c.carriers[k])
      BY <1>1, <1>2, <2>1
    <2>3. /\ StartsWith(number, InterAreas(c.carriers[k])[i])
          /\ StartsWith(number, InterAreas(c.carriers[k])[j])
      BY <1>1, <1>3, <2>1, <2>2
    <2> QED BY <2>1, <2>2, <2>3 DEF AreasOverlap
  <1>4. \A k \in 1 .. Len(lists) : \A i \in 1 .. Len(lists[k]) :
          ~(i < i) /\ ~(Len(lists[k][i].digits) < Len(lists[k][i].digits))
    <2>1. SUFFICES ASSUME NEW k \in 1 .. Len(lists), NEW i \in 1 .. Len(lists[k])
                   PROVE  ~(i < i) /\ ~(Len(lists[k][i].digits) < Len(lists[k][i].digits))
      OBVIOUS
    <2>2. lists[k][i].digits \in Seq(Characters)
      BY <1>1, LineIsRoute
    <2>3. Len(lists[k][i].digits) \in Nat /\ i \in Nat
      BY <2>2
    <2> QED BY <2>3
  <1> QED BY <1>3, <1>4 DEF DearerOnWay, lists

(* The first pass counts the carriers that take the caller for inter-area,  *)
(* and the second finds exactly them, in an array of that size (of 8 bits,  *)
(* hence fewer than 255).                                                   *)
LEMMA SearchOfAreas ==
  ASSUME NEW c, Built(c), NEW cid \in Seq(Characters), AllDigits(cid), ~AreasOverlap(c, cid)
  PROVE  LET t == Trie(AreaLists(c), 0)
             V == InterCallers(c, cid) IN
         /\ IsFiniteSet(V) /\ RouteTrieFindCount(t, cid) = Cardinality(V)
         /\ Cardinality(V) \in Nat
         /\ Cardinality(V) < 255 =>
              \A k : HasValue(RouteTrieFind(t, cid, RouteArrayCreate(Cardinality(V))), k)
                     <=> k \in V
  <1> DEFINE lists == AreaLists(c)
             t == Trie(lists, 0)
             N == LinesOf(lists, 0)
             m == Len(lists)
             V == InterCallers(c, cid)
             x == Cardinality(V)
             a == RouteArrayCreate(x)
             found == RouteTrieFind(t, cid, a)
             S == LinesFor(lists, 0, cid)
  <1>1. lists \in CarrierLists /\ m \in Nat /\ 0 \in {0, 1}
    <2>1. lists \in CarrierLists
      BY AreaListsOf
    <2> HIDE DEF lists
    <2> QED BY <2>1 DEF CarrierLists
  <1>2. DearerOnWay(lists, cid)
    BY AreasAreDearer
  <1>3. ValuesOf(S) = V
    BY AreaLines
  <1>4. \A r \in S : r.value \in V
    <2> HIDE DEF S, V
    <2> QED BY <1>3 DEF ValuesOf
  <1>5. TrieOf(t, Characters, m, N) /\ CheaperFirst(t, m, N, cid, V, 0)
    <2> HIDE DEF lists, V
    <2> QED BY <1>1, <1>2, <1>4, WayIsCheaperFirst
  <1>6. RoutesOnWay(t, N, cid) = S
    <2> HIDE DEF lists
    <2>1. Filled(t, lists, 0, N)
      BY <1>1, TrieIsFilled
    <2> HIDE DEF t
    <2> QED BY <1>1, <2>1, PassedLines
  <1>7. ~BadInput(t, cid)
    <2> DEFINE d == Depth(t, cid)
    <2>1. d \in 0 .. Len(cid) /\ Len(cid) \in Nat
      <3> HIDE DEF t, N, m
      <3> QED BY <1>5, DepthOfWay
    <2> HIDE DEF d, t
    <2>2. d < Len(cid) => d + 1 \in 1 .. Len(cid)
      BY <2>1
    <2> QED BY <2>2 DEF BadInput, AllDigits, d
  <1>8. \A d \in Seq(Characters) : \A r \in N[d] : r.cost = 0
    <2>1. SUFFICES ASSUME NEW d \in Seq(Characters), NEW r \in N[d] PROVE r.cost = 0
      OBVIOUS
    <2>2. PICK k \in 1 .. m : \E i \in 1 .. Len(lists[k]) : r = RouteOf(lists, 0, k, i)
      BY DEF LinesOf
    <2>3. PICK i \in 1 .. Len(lists[k]) : r = RouteOf(lists, 0, k, i)
      BY <2>2
    <2>4. lists[k][i].cost = 0
      <3>1. /\ Len(lists) = Len(c.carriers)
            /\ \A K \in DOMAIN c.carriers :
                 /\ Len(lists[K]) = Len(InterAreas(c.carriers[K]))
                 /\ \A I \in DOMAIN InterAreas(c.carriers[K]) : lists[K][I].cost = 0
        BY AreaListsOf
      <3>2. DOMAIN c.carriers = 1 .. Len(c.carriers)
            /\ \A K \in DOMAIN c.carriers :
                 DOMAIN InterAreas(c.carriers[K]) = 1 .. Len(InterAreas(c.carriers[K]))
        BY CarriersOf
      <3> HIDE DEF lists
      <3>3. k \in DOMAIN c.carriers
        BY <3>1, <3>2
      <3>4. i \in DOMAIN InterAreas(c.carriers[k])
        BY <3>1, <3>2, <3>3
      <3> QED BY <3>1, <3>3, <3>4
    <2> QED BY <2>3, <2>4 DEF RouteOf
  <1>9. IsFiniteSet(V) /\ RouteTrieFindCount(t, cid) = x
    <2> DEFINE n == Depth(t, cid) + 1
               way(k) == SubSeq(cid, 1, k - 1)
    <2> HIDE DEF t, N, m, V
    <2>1. \A k \in 1 .. n : Exact(t[way(k)], m, N[way(k)])
      BY <1>5 DEF CheaperFirst
    <2>2. \A k \in 1 .. n : way(k) \in Seq(Characters)
      <3>1. \A k \in 1 .. n : way(k) \in DOMAIN t
        BY <1>5, NodeOnWay
      <3> QED BY <1>5, <3>1 DEF TrieOf
    <2>3. ASSUME NEW j \in 1 .. n, NEW k \in 1 .. n, j < k,
                 NEW q \in N[way(j)], NEW r \in N[way(k)]
          PROVE  q.value # r.value
      <3>1. q.cost = 0 /\ r.cost = 0
        BY <1>8, <2>2
      <3>2. q.value = r.value => q.cost < r.cost
        BY <1>5, <2>3 DEF CheaperFirst
      <3> QED BY <3>1, <3>2
    <2>4. /\ IsFiniteSet(ValuesOf(RoutesOnWay(t, N, cid)))
          /\ RouteTrieFindCount(t, cid) = Cardinality(ValuesOf(RoutesOnWay(t, N, cid)))
      BY <1>1, <1>5, <1>7, <2>1, <2>3, FindCounts
    <2> HIDE DEF S
    <2> QED BY <1>3, <1>6, <2>4
  <1>10. x \in Nat
    <2> HIDE DEF V
    <2> QED BY <1>9, FS_CardinalityType
  <1>11. ASSUME x < 255, NEW k PROVE HasValue(found, k) <=> k \in V
    <2>1. x \in 0 .. 254
      <3> HIDE DEF x
      <3> QED BY <1>10, <1>11
    <2>2. Holds(a, x, {}) /\ Exact(a, x, {})
      <3> HIDE DEF x
      <3> QED BY <2>1, EmptyArray
    <2> HIDE DEF a, lists, V
    <2>3. Holds(found, x, S)
      BY <1>1, <1>10, <2>2, SearchHolds
    <2>4. Exact(found, x, S)
      <3>1. Cardinality(V) <= x
        BY <1>10
      <3> HIDE DEF x
      <3> QED BY <1>1, <1>2, <1>4, <1>9, <1>10, <2>2, <3>1, SearchExact
    <2>5. found \in Array(x) /\ NoHole(found) /\ From(found, x, S)
      BY <2>3 DEF Holds
    <2> HIDE DEF found, S, x
    <2>6. Listed(found) \subseteq S
      BY <1>10, <2>5, ListedFrom
    <2>7. \A r \in S : \E l \in Listed(found) : l.value = r.value
      BY <2>4 DEF Exact
    <2> QED BY <1>3, <2>6, <2>7 DEF HasValue, ValuesOf
  <1> QED BY <1>9, <1>10, <1>11

-----------------------------------------------------------------------------
(* lcr_find.                                                                *)

(* The routes that TakeRoute takes.                                         *)
Right(r, inter, is_inter) ==
  (r.type # 0) = is_inter /\ HasValue(inter, r.value) = is_inter

RightIn(b, inter, is_inter) == {r \in Listed(b) : Right(r, inter, is_inter)}

(* The right routes of a list are taken over, the first as cheap as any.    *)
LEMMA TakeHolds ==
  ASSUME NEW n \in Nat, NEW S \in SUBSET AnyRoute, NEW a, Holds(a, n, S),
         NEW m \in Nat, NEW b \in Tidy(m), NEW inter, NEW is_inter
  PROVE  Holds(TakeAll(a, SubSeq(b.slot, 1, b.size), inter, is_inter), n,
               S \cup RightIn(b, inter, is_inter))
  <1> DEFINE seq == SubSeq(b.slot, 1, b.size)
             upTo(k) == S \cup {r \in {seq[i] : i \in 1 .. k} : Right(r, inter, is_inter)}
  <1>1. /\ seq \in Seq(AnyRoute) /\ Len(seq) = b.size /\ b.size \in Nat
        /\ \A i \in 1 .. b.size : seq[i] = b.slot[i] /\ seq[i] \in AnyRoute
    BY ListOfNode
  <1> HIDE DEF seq
  <1>2. PICK h : Takes(h, Tidy(n), a, seq, inter, is_inter)
    <2>1. a \in Tidy(n) /\ \A x \in Tidy(n), r \in AnyRoute : RouteArrayAdd(x, r) \in Tidy(n)
      BY HoldsIsTidy, TidyAdd
    <2>2. \A x \in Tidy(n), r \in AnyRoute : TakeRoute(x, r, inter, is_inter) \in Tidy(n)
      BY <2>1 DEF TakeRoute
    <2> QED BY <1>1, <2>1, <2>2, TakeSteps
  <1> DEFINE T == {k \in 0 .. b.size : Holds(h[k], n, upTo(k))}
  <1>3. 0 \in T
    <2>1. upTo(0) = S
      OBVIOUS
    <2>2. Holds(h[0], n, S)
      BY <1>2 DEF Takes
    <2> HIDE DEF upTo
    <2> QED BY <1>1, <2>1, <2>2
  <1>4. ASSUME NEW k \in 1 .. b.size, k - 1 \in T PROVE k \in T
    <2>1. 1 .. k = (1 .. k - 1) \cup {k} /\ k \in 0 .. b.size
      BY <1>1
    <2>2. h[k] = TakeRoute(h[k - 1], seq[k], inter, is_inter) /\ seq[k] \in AnyRoute
      BY <1>1, <1>2 DEF Takes
    <2>3. Holds(h[k - 1], n, upTo(k - 1)) /\ upTo(k - 1) \in SUBSET AnyRoute
      BY <1>1, <1>4
    <2>4. CASE Right(seq[k], inter, is_inter)
      <3>1. upTo(k) = upTo(k - 1) \cup {seq[k]}
        BY <2>1, <2>4
      <3>2. h[k] = RouteArrayAdd(h[k - 1], seq[k])
        BY <2>2, <2>4 DEF TakeRoute, Right
      <3> HIDE DEF upTo
      <3>3. Holds(h[k], n, upTo(k))
        BY <2>2, <2>3, <3>1, <3>2, HoldsAdd
      <3> QED BY <2>1, <3>3
    <2>5. CASE ~Right(seq[k], inter, is_inter)
      <3>1. upTo(k) = upTo(k - 1)
        BY <2>1, <2>5
      <3>2. h[k] = h[k - 1]
        BY <2>2, <2>5 DEF TakeRoute, Right
      <3> HIDE DEF upTo
      <3> QED BY <2>1, <2>3, <3>1, <3>2
    <2> QED BY <2>4, <2>5
  <1>5. b.size \in T
    <2> HIDE DEF T
    <2>1. b.size \in 0 .. b.size
      BY <1>1
    <2>2. \A k \in 0 .. b.size : k \in T
      BY <1>1, <1>3, <1>4, UpToN
    <2> QED BY <2>1, <2>2
  <1>6. {seq[i] : i \in 1 .. b.size} = Listed(b)
    BY <1>1 DEF Listed
  <1>7. TakeAll(a, seq, inter, is_inter) = h[b.size]
    BY <1>1, <1>2 DEF Takes
  <1>8. upTo(b.size) = S \cup RightIn(b, inter, is_inter)
    BY <1>6 DEF RightIn
  <1> HIDE DEF upTo
  <1> QED BY <1>5, <1>7, <1>8 DEF seq

(* The rates of one type for a number whose carriers take, or do not take,  *)
(* the call for inter-area.                                                 *)
RightRates(c, type, number, V) ==
  {r \in RatesOf(c, type, number) : r.value \in V <=> type = 1}

(* What is taken from a trie: routes that are right and, for a number whose *)
(* rates are not replaced, for each of them one that costs no more.         *)
Taken(a, n, S, Q, c, type, number, V) ==
  /\ Q \subseteq RightRates(c, type, number, V) /\ Holds(a, n, S \cup Q)
  /\ AllDigits(number) /\ ~RateReplaced(c, number) =>
       \A r \in RightRates(c, type, number, V) : \E q \in Q : q.cost <= r.cost

(* Of a trie the routes for the number are taken whose carriers are right   *)
(* for it.                                                                  *)
LEMMA TakeFromTrie ==
  ASSUME NEW c, Built(c), NEW type \in {0, 1}, NEW number \in Seq(Characters),
         NEW V, NEW inter, \A k : HasValue(inter, k) <=> k \in V,
         NEW n \in Nat, NEW S \in SUBSET AnyRoute, NEW results, Holds(results, n, S),
         NEW db, db.num_carriers = Len(c.carriers),
         NEW is_inter, (is_inter = TRUE /\ type = 1) \/ (is_inter = FALSE /\ type = 0)
  PROVE  \E Q : Taken(TakeRoutes(results, db, Trie(RateLists(c, type), type), number,
                                inter, is_inter),
                     n, S, Q, c, type, number, V)
  <1> DEFINE lists == RateLists(c, type)
             trie == Trie(lists, type)
             m == Len(c.carriers)
             a == RouteArrayCreate(m)
             found == RouteTrieFind(trie, number, a)
             right == RightRates(c, type, number, V)
             taken == TakeRoutes(results, db, trie, number, inter, is_inter)
             all == RatesOf(c, type, number)
             took == RightIn(found, inter, is_inter)
  <1>1. /\ lists \in CarrierLists /\ Len(lists) = m /\ m \in Nat /\ m \in 0 .. 254
        /\ LinesFor(lists, type, number) = all
    <2>1. lists \in CarrierLists /\ Len(lists) = m /\ LinesFor(lists, type, number) = all
      BY RateListsOf, RateLines
    <2>2. m \in Nat /\ m < 255
      BY CarriersOf DEF Built
    <2> HIDE DEF m
    <2> QED BY <2>1, <2>2
  <1> HIDE DEF m
  <1>2. Holds(a, m, {}) /\ Exact(a, m, {})
    BY <1>1, EmptyArray
  <1> HIDE DEF lists, a
  <1>3. Holds(found, m, all)
    BY <1>1, <1>2, SearchHolds
  <1>4. found \in Tidy(m) /\ Listed(found) \subseteq all /\ Listed(found) \subseteq AnyRoute
    <2> HIDE DEF found, all
    <2>1. found \in Array(m) /\ NoHole(found) /\ From(found, m, all)
      BY <1>3 DEF Holds
    <2> QED BY <1>1, <1>3, <2>1, HoldsIsTidy, ListedFrom
  <1>5. \A r \in all : r.type = type /\ r \in AnyRoute
    BY DEF RatesOf
  <1> HIDE DEF all
  <1>6. ASSUME NEW r \in all
        PROVE  Right(r, inter, is_inter) <=> (r.value \in V <=> type = 1)
    <2>1. r.type = type
      BY <1>5
    <2>2. CASE is_inter = TRUE /\ type = 1
      <3>1. is_inter = TRUE /\ (r.type # 0) = TRUE
        BY <2>1, <2>2
      <3>2. HasValue(inter, r.value) = TRUE <=> r.value \in V
        BY DEF HasValue
      <3> QED BY <3>1, <3>2, <2>2 DEF Right
    <2>3. CASE is_inter = FALSE /\ type = 0
      <3>1. is_inter = FALSE /\ (r.type # 0) = FALSE
        BY <2>1, <2>3
      <3>2. HasValue(inter, r.value) = FALSE <=> r.value \notin V
        BY DEF HasValue
      <3>3. type # 1
        BY <2>3
      <3> QED BY <3>1, <3>2, <3>3 DEF Right
    <2> QED BY <2>2, <2>3
  <1>7. right = {r \in all : Right(r, inter, is_inter)}
    BY <1>6 DEF RightRates, all
  <1>8. took \in SUBSET right
    BY <1>4, <1>7 DEF RightIn
  <1>9. CASE BadInput(trie, number)
    <2>1. taken = results
      BY <1>9 DEF TakeRoutes
    <2>2. ~AllDigits(number)
      <3>1. Filled(trie, lists, type, LinesOf(lists, type))
        BY <1>1, TrieIsFilled
      <3>2. TrieOf(trie, Characters, m, LinesOf(lists, type))
        BY <1>1, <3>1 DEF Filled, Whole
      <3> DEFINE d == Depth(trie, number)
      <3>3. d \in 0 .. Len(number) /\ Len(number) \in Nat
        <4> HIDE DEF trie
        <4> QED BY <3>2, DepthOfWay
      <3> HIDE DEF d, trie
      <3>4. d < Len(number) => d + 1 \in 1 .. Len(number)
        BY <3>3
      <3> QED BY <1>9, <3>4 DEF BadInput, AllDigits, d
    <2>3. Taken(taken, n, S, {}, c, type, number, V)
      <3>1. S \cup {} = S
        OBVIOUS
      <3> HIDE DEF taken
      <3> QED BY <2>1, <2>2, <3>1 DEF Taken
    <2> HIDE DEF took
    <2> QED BY <2>3 DEF taken, trie, lists
  <1>10. CASE ~BadInput(trie, number)
    <2>1. taken = TakeAll(results, SubSeq(found.slot, 1, found.size), inter, is_inter)
      BY <1>10 DEF TakeRoutes, TakeAll, m, a
    <2> HIDE DEF found
    <2>2. Holds(taken, n, S \cup took)
      <3>1. Holds(TakeAll(results, SubSeq(found.slot, 1, found.size), inter, is_inter), n,
                  S \cup took)
        BY <1>1, <1>4, TakeHolds
      <3> HIDE DEF taken
      <3> QED BY <2>1, <3>1
    <2>3. ASSUME ~RateReplaced(c, number), NEW r \in right
          PROVE  \E q \in took : q.cost <= r.cost
      <3>1. DearerOnWay(lists, number)
        BY <2>3, RatesAreDearer DEF lists
      <3>2. IsFiniteSet(1 .. m) /\ Cardinality(1 .. m) <= m
        BY <1>1, IntervalSize
      <3>3. \A s \in LinesFor(lists, type, number) : s.value \in 1 .. m
        BY <1>1 DEF LinesFor, RouteOf
      <3>4. Exact(found, m, all)
        BY <1>1, <1>2, <3>1, <3>2, <3>3, SearchExact DEF found
      <3>5. r \in all /\ Right(r, inter, is_inter)
        BY <1>7
      <3>6. PICK q \in Listed(found) : q.value = r.value /\ q.cost <= r.cost
        BY <3>4, <3>5 DEF Exact
      <3>7. q.type = r.type
        BY <1>4, <1>5, <3>5
      <3>8. Right(q, inter, is_inter)
        BY <3>5, <3>6, <3>7 DEF Right
      <3> QED BY <3>6, <3>8 DEF RightIn
    <2>4. Taken(taken, n, S, took, c, type, number, V)
      <3> HIDE DEF took, taken
      <3> QED BY <1>8, <2>2, <2>3 DEF Taken
    <2> HIDE DEF took
    <2> QED BY <2>4 DEF taken, trie, lists
  <1> QED BY <1>9, <1>10

(* What may be looked up.                                                   *)
CallKinds == [kind : {"api", "dialplan"}, cid : Seq(Characters), dest : Seq(Characters)]

(* The rates for a call are those of either type that are right.            *)
LEMMA RatesSplit ==
  ASSUME NEW c, Built(c), NEW cl \in CallKinds
  PROVE  LET I == InterCarriers(c, cl) IN
         RatesFor(c, cl) = RightRates(c, 1, cl.dest, I) \cup RightRates(c, 0, cl.dest, I)
  <1> DEFINE I == InterCarriers(c, cl)
             rate(k, i) == c.carriers[k].rates[i]
             route(k, i, type) == [cost |-> CostOf(rate(k, i), type), value |-> k, type |-> type]
             typeOf(k) == IF k \in I THEN 1 ELSE 0
             Is(k, i) == /\ StartsWith(cl.dest, rate(k, i).digits)
                         /\ CostOf(rate(k, i), typeOf(k)) >= 0
  <1>1. ASSUME NEW k \in DOMAIN c.carriers, NEW i \in DOMAIN c.carriers[k].rates,
               NEW type \in {0, 1},
               CostOf(rate(k, i), type) >= 0
        PROVE  route(k, i, type) \in AnyRoute
    <2>1. k \in Nat \ {0} /\ type \in Nat
      BY CarriersOf
    <2>2. rate(k, i) \in Rates
      BY CarriersOf
    <2>3. CostOf(rate(k, i), type) \in Int
      <3> HIDE DEF rate
      <3> QED BY <2>2, RateIsLine
    <2>4. CostOf(rate(k, i), type) \in Nat
      <3> HIDE DEF rate
      <3> QED BY <1>1, <2>3
    <2> HIDE DEF rate
    <2> QED BY <2>1, <2>4 DEF AnyRoute
  <1>2. ASSUME NEW r
        PROVE  r \in RatesFor(c, cl) <=>
                 \E k \in DOMAIN c.carriers : \E i \in DOMAIN c.carriers[k].rates :
                   Is(k, i) /\ r = route(k, i, typeOf(k))
    BY DEF RatesFor
  <1>3. ASSUME NEW r, NEW type \in {0, 1}
        PROVE  r \in RightRates(c, type, cl.dest, I) <=>
                 \E k \in DOMAIN c.carriers : \E i \in DOMAIN c.carriers[k].rates :
                   Is(k, i) /\ r = route(k, i, type) /\ type = typeOf(k)
    <2>1. r \in RatesOf(c, type, cl.dest) <=>
            r \in AnyRoute /\ \E k \in DOMAIN c.carriers : \E i \in DOMAIN c.carriers[k].rates :
              /\ StartsWith(cl.dest, rate(k, i).digits) /\ CostOf(rate(k, i), type) >= 0
              /\ r = route(k, i, type)
      BY DEF RatesOf
    <2>2. \A k, i : r = route(k, i, type) => r.value = k
      OBVIOUS
    <2>3. \A k : type = typeOf(k) <=> (k \in I <=> type = 1)
      OBVIOUS
    <2> HIDE DEF rate, route, typeOf, I
    <2>4. r \in RightRates(c, type, cl.dest, I) <=>
            r \in RatesOf(c, type, cl.dest) /\ type = typeOf(r.value)
      BY <2>3 DEF RightRates
    <2>5. ASSUME r \in RightRates(c, type, cl.dest, I)
          PROVE  \E k \in DOMAIN c.carriers : \E i \in DOMAIN c.carriers[k].rates :
                   Is(k, i) /\ r = route(k, i, type) /\ type = typeOf(k)
      <3>1. PICK k \in DOMAIN c.carriers : \E i \in DOMAIN c.carriers[k].rates :
              /\ StartsWith(cl.dest, rate(k, i).digits) /\ CostOf(rate(k, i), type) >= 0
              /\ r = route(k, i, type)
        BY <2>1, <2>4, <2>5
      <3>2. type = typeOf(k)
        BY <2>2, <2>4, <2>5, <3>1
      <3> QED BY <3>1, <3>2
    <2>6. ASSUME NEW k \in DOMAIN c.carriers, NEW i \in DOMAIN c.carriers[k].rates,
                 Is(k, i), r = route(k, i, type), type = typeOf(k)
          PROVE  r \in RightRates(c, type, cl.dest, I)
      <3>1. CostOf(rate(k, i), type) >= 0 /\ StartsWith(cl.dest, rate(k, i).digits)
        BY <2>6
      <3>2. r \in AnyRoute /\ r.value = k
        BY <1>1, <2>2, <2>6, <3>1
      <3> QED BY <2>1, <2>4, <2>6, <3>1, <3>2
    <2> QED BY <2>5, <2>6
  <1>4. \A k : typeOf(k) \in {0, 1}
    OBVIOUS
  <1> HIDE DEF rate, route, typeOf, I, Is
  <1>5. ASSUME NEW r
        PROVE  r \in RatesFor(c, cl) <=>
                 r \in RightRates(c, 1, cl.dest, I) \cup RightRates(c, 0, cl.dest, I)
    <2>1. r \in RightRates(c, 1, cl.dest, I) <=>
            \E k \in DOMAIN c.carriers : \E i \in DOMAIN c.carriers[k].rates :
              Is(k, i) /\ r = route(k, i, 1) /\ 1 = typeOf(k)
      BY <1>3
    <2>2. r \in RightRates(c, 0, cl.dest, I) <=>
            \E k \in DOMAIN c.carriers : \E i \in DOMAIN c.carriers[k].rates :
              Is(k, i) /\ r = route(k, i, 0) /\ 0 = typeOf(k)
      BY <1>3
    <2> QED BY <1>2, <1>4, <2>1, <2>2
  <1> QED BY <1>5 DEF I

(* What a lookup returns, S the routes it was given.                        *)
Answered(a, c, cl, S, found) ==
  /\ \E n \in 0 .. 254 : Holds(a, n, S) /\ (n = 0 => DOMAIN c.carriers = {})
  /\ S \subseteq RatesFor(c, cl)
  /\ found => \A r \in RatesFor(c, cl) : \E q \in S : q.cost <= r.cost

(* The conclusion on a lookup.                                              *)
LEMMA AnswerIsRight ==
  ASSUME NEW c, Built(c), NEW cl \in CallKinds, NEW a, NEW S, NEW found,
         Answered(a, c, cl, S, found)
  PROVE  /\ Listed(a) \subseteq RatesFor(c, cl)
         /\ found => \A r \in RatesFor(c, cl) : a.size > 0 /\ a.slot[1].cost <= r.cost
  <1>1. PICK n \in 0 .. 254 : Holds(a, n, S) /\ (n = 0 => DOMAIN c.carriers = {})
    BY DEF Answered
  <1>2. S \subseteq RatesFor(c, cl)
    BY DEF Answered
  <1>3. \A r \in RatesFor(c, cl) : r \in AnyRoute
    BY RatesSplit DEF RightRates, RatesOf
  <1>4. n \in Nat /\ a \in Array(n) /\ NoHole(a) /\ From(a, n, S)
    BY <1>1 DEF Holds
  <1>5. Listed(a) \subseteq S
    BY <1>4, ListedFrom
  <1>6. ASSUME found, NEW r \in RatesFor(c, cl) PROVE a.size > 0 /\ a.slot[1].cost <= r.cost
    <2>1. n > 0
      <3>1. DOMAIN c.carriers # {}
        BY DEF RatesFor
      <3> QED BY <1>1, <3>1
    <2>2. PICK q \in S : q.cost <= r.cost
      BY <1>6 DEF Answered
    <2>3. a.size > 0 /\ a.slot[1].cost <= q.cost
      BY <1>1, <2>1 DEF Holds, FirstCosts
    <2>4. q.cost \in Nat /\ r.cost \in Nat
      BY <1>2, <1>3, RouteIsUsed
    <2>5. a.slot[1].cost \in Nat
      <3>1. 1 \in Slots(n)
        BY <2>1 DEF Slots
      <3> QED BY <1>4, <3>1, SlotCosts
    <2> QED BY <2>2, <2>3, <2>4, <2>5
  <1> QED BY <1>2, <1>5, <1>6

(* A size that is not cut off.                                              *)
LEMMA FewerThan255 ==
  ASSUME NEW m \in Nat, m < 255
  PROVE  m \in 0 .. 254
  OBVIOUS

(* The database of a configuration.                                         *)
LEMMA DatabaseOf ==
  ASSUME NEW c, Built(c)
  PROVE  /\ c \in DOMAIN Database
         /\ Database[c].num_carriers = Len(c.carriers)
         /\ Database[c].inter_trie = Trie(RateLists(c, 1), 1)
         /\ Database[c].intra_trie = Trie(RateLists(c, 0), 0)
         /\ Database[c].inter_areas = Trie(AreaLists(c), 0)
  <1>1. c \in {x \in Configs : x.reads /\ ~Fails(x)}
    BY DEF Built
  <1>2. Database = [x \in {y \in Configs : y.reads /\ ~Fails(y)} |-> Build(x)]
    BY DEF Database, Table
  <1>3. c \in DOMAIN Database /\ Database[c] = Build(c)
    BY <1>1, <1>2
  <1> QED BY <1>3 DEF Build

(* The conditions under which a lookup finds the cheapest route.            *)
FindsCheapest(c, cl) ==
  MixedCall(c, cl) => AllDigits(cl.dest) /\ ~RateReplaced(c, cl.dest)

(* A lookup whose carriers are all, or are none of them, inter-area goes    *)
(* through one trie.                                                        *)
LEMMA OneTrie ==
  ASSUME NEW c, Built(c), NEW cl \in CallKinds, NEW type \in {0, 1},
         InterCarriers(c, cl) = IF type = 1 THEN DOMAIN c.carriers ELSE {},
         NEW n \in 0 .. 254, n = 0 => DOMAIN c.carriers = {}
  PROVE  Answered(RouteTrieFind(Trie(RateLists(c, type), type), cl.dest, RouteArrayCreate(n)),
                  c, cl, RatesFor(c, cl), FindsCheapest(c, cl))
  <1> DEFINE lists == RateLists(c, type)
             a == RouteTrieFind(Trie(lists, type), cl.dest, RouteArrayCreate(n))
             I == InterCarriers(c, cl)
             S == RatesOf(c, type, cl.dest)
  <1>1. cl.dest \in Seq(Characters) /\ n \in Nat
    BY DEF CallKinds
  <1>2. Holds(RouteArrayCreate(n), n, {})
    BY EmptyArray
  <1>3. lists \in CarrierLists /\ LinesFor(lists, type, cl.dest) = S
    <2> HIDE DEF S
    <2>1. lists \in CarrierLists
      BY RateListsOf
    <2>2. LinesFor(lists, type, cl.dest) = S
      BY RateLines DEF S
    <2> QED BY <2>1, <2>2
  <1>4. Holds(a, n, S)
    <2> HIDE DEF lists, S
    <2> QED BY <1>1, <1>2, <1>3, SearchHolds
  <1>5. \A t \in {0, 1} : \A r \in RatesOf(c, t, cl.dest) : r.value \in DOMAIN c.carriers
    BY DEF RatesOf
  <1>6. RatesFor(c, cl) = S
    <2>1. RatesFor(c, cl) = RightRates(c, 1, cl.dest, I) \cup RightRates(c, 0, cl.dest, I)
      BY RatesSplit
    <2>2. CASE type = 1
      <3>1. I = DOMAIN c.carriers
        BY <2>2
      <3>2. RightRates(c, 1, cl.dest, I) = RatesOf(c, 1, cl.dest)
        BY <1>5, <3>1 DEF RightRates
      <3>3. RightRates(c, 0, cl.dest, I) = {}
        BY <1>5, <3>1 DEF RightRates
      <3> HIDE DEF I
      <3> QED BY <2>1, <2>2, <3>2, <3>3
    <2>3. CASE type = 0
      <3>1. I = {}
        BY <2>3
      <3>2. RightRates(c, 0, cl.dest, I) = RatesOf(c, 0, cl.dest)
        BY <3>1 DEF RightRates
      <3>3. RightRates(c, 1, cl.dest, I) = {}
        BY <3>1 DEF RightRates
      <3> HIDE DEF I
      <3> QED BY <2>1, <2>3, <3>2, <3>3
    <2> QED BY <2>2, <2>3
  <1>7. \A r \in S : r.cost <= r.cost
    <2>1. \A r \in S : r \in AnyRoute
      BY DEF RatesOf
    <2> HIDE DEF S
    <2> QED BY <2>1, RouteIsUsed
  <1> HIDE DEF S, a
  <1>8. Answered(a, c, cl, S, FindsCheapest(c, cl))
    BY <1>4, <1>6, <1>7 DEF Answered
  <1> QED BY <1>6, <1>8 DEF a, lists

(* Where only some carriers take the call for inter-area, both tries are    *)
(* gone through, and each carrier's routes come from the trie that is right *)
(* for it.                                                                  *)
LEMMA TwoTries ==
  ASSUME NEW c, Built(c), NEW cl \in CallKinds,
         MixedCall(c, cl), NEW V, InterCarriers(c, cl) = V,
         NEW inter, \A k : HasValue(inter, k) <=> k \in V,
         NEW n \in 0 .. 254, n = 0 => DOMAIN c.carriers = {}
  PROVE  LET db == Database[c]
             taken == TakeRoutes(RouteArrayCreate(n), db, db.intra_trie, cl.dest, inter, FALSE) IN
         \E S : Answered(TakeRoutes(taken, db, db.inter_trie, cl.dest, inter, TRUE),
                         c, cl, S, FindsCheapest(c, cl))
  <1> DEFINE db == Database[c]
             a == RouteArrayCreate(n)
             intra == TakeRoutes(a, db, db.intra_trie, cl.dest, inter, FALSE)
             both == TakeRoutes(intra, db, db.inter_trie, cl.dest, inter, TRUE)
  <1>1. cl.dest \in Seq(Characters) /\ n \in Nat /\ Holds(a, n, {})
    <2>1. Holds(a, n, {})
      BY EmptyArray
    <2>2. n \in Nat /\ cl.dest \in Seq(Characters)
      BY DEF CallKinds
    <2> QED BY <2>1, <2>2
  <1>2. /\ db.num_carriers = Len(c.carriers)
        /\ db.inter_trie = Trie(RateLists(c, 1), 1) /\ db.intra_trie = Trie(RateLists(c, 0), 0)
    BY DatabaseOf
  <1> HIDE DEF db, a
  <1>3. PICK Q : Taken(intra, n, {}, Q, c, 0, cl.dest, V)
    <2>1. {} \in SUBSET AnyRoute /\ 0 \in {0, 1}
      OBVIOUS
    <2>2. (FALSE = TRUE /\ 0 = 1) \/ (FALSE = FALSE /\ 0 = 0)
      OBVIOUS
    <2>3. \E P : Taken(TakeRoutes(a, db, Trie(RateLists(c, 0), 0), cl.dest, inter, FALSE),
                      n, {}, P, c, 0, cl.dest, V)
      BY <1>1, <1>2, <2>1, <2>2, TakeFromTrie
    <2> QED BY <1>2, <2>3
  <1> HIDE DEF intra
  <1>4. Holds(intra, n, Q) /\ Q \in SUBSET AnyRoute /\ Q \subseteq RightRates(c, 0, cl.dest, V)
    <2>1. {} \cup Q = Q
      OBVIOUS
    <2> QED BY <1>3, <2>1 DEF Taken, RightRates, RatesOf
  <1>5. PICK P : Taken(both, n, Q, P, c, 1, cl.dest, V)
    <2>1. 1 \in {0, 1} /\ ((TRUE = TRUE /\ 1 = 1) \/ (TRUE = FALSE /\ 1 = 0))
      OBVIOUS
    <2>2. \E R : Taken(TakeRoutes(intra, db, Trie(RateLists(c, 1), 1), cl.dest, inter, TRUE),
                      n, Q, R, c, 1, cl.dest, V)
      BY <1>1, <1>2, <1>4, <2>1, TakeFromTrie
    <2> QED BY <1>2, <2>2
  <1> HIDE DEF both
  <1>6. RatesFor(c, cl) = RightRates(c, 1, cl.dest, V) \cup RightRates(c, 0, cl.dest, V)
    BY RatesSplit
  <1>7. Answered(both, c, cl, Q \cup P, FindsCheapest(c, cl))
    <2>1. Holds(both, n, Q \cup P) /\ Q \cup P \subseteq RatesFor(c, cl)
      BY <1>4, <1>5, <1>6 DEF Taken
    <2>2. ASSUME FindsCheapest(c, cl), NEW r \in RatesFor(c, cl)
          PROVE  \E q \in Q \cup P : q.cost <= r.cost
      <3>1. AllDigits(cl.dest) /\ ~RateReplaced(c, cl.dest)
        BY <2>2 DEF FindsCheapest
      <3>2. \A x \in RightRates(c, 0, cl.dest, V) : \E q \in Q : q.cost <= x.cost
        BY <1>3, <3>1 DEF Taken
      <3>3. \A x \in RightRates(c, 1, cl.dest, V) : \E q \in P : q.cost <= x.cost
        BY <1>5, <3>1 DEF Taken
      <3> QED BY <1>6, <3>2, <3>3
    <2> QED BY <2>1, <2>2 DEF Answered
  <1> QED BY <1>7 DEF both, intra, db, a

(* lcr_find returns routes that the ratedecks have for the call, at the     *)
(* rate that is right, and if the cheapest is to be expected it is first.   *)
LEMMA LookupIsRight ==
  ASSUME NEW c, Built(c), NEW cl \in CallKinds,
         cl.dest # << >>, AllDigits(cl.cid), ~AreasOverlap(c, cl.cid)
  PROVE  LET found == lcr_find(c, cl) IN
         /\ Listed(found) \subseteq RatesFor(c, cl)
         /\ FindsCheapest(c, cl) =>
              \A r \in RatesFor(c, cl) : found.size > 0 /\ found.slot[1].cost <= r.cost
  <1> DEFINE db == Database[c]
             m == Len(c.carriers)
             n == IF cl.kind = "api" THEN m ELSE c.maxRoutes
             a == RouteArrayCreate(n)
             V == InterCallers(c, cl.cid)
             count == RouteTrieFindCount(db.inter_areas, cl.cid)
             found == lcr_find(c, cl)
  <1>1. /\ db.num_carriers = m
        /\ db.inter_trie = Trie(RateLists(c, 1), 1) /\ db.intra_trie = Trie(RateLists(c, 0), 0)
        /\ db.inter_areas = Trie(AreaLists(c), 0)
    BY DatabaseOf
  <1>2. m \in Nat /\ m < 255 /\ DOMAIN c.carriers = 1 .. m /\ c.maxRoutes \in 1 .. 8
    BY CarriersOf DEF Built
  <1>3. cl.cid \in Seq(Characters)
    BY DEF CallKinds
  <1>4. found = IF lcr_is_inter_area(c, db, cl) \/ count >= db.num_carriers
                THEN RouteTrieFind(db.inter_trie, cl.dest, a)
                ELSE IF count = 0 THEN RouteTrieFind(db.intra_trie, cl.dest, a)
                ELSE MixedRoutes(db, cl, count, a)
    BY <1>1 DEF lcr_find
  <1>5. n \in 0 .. 254 /\ (n = 0 => DOMAIN c.carriers = {})
    <2> HIDE DEF m
    <2>1. CASE cl.kind = "api"
      <3>1. n = m
        BY <2>1
      <3>2. m \in Nat /\ m < 255
        BY <1>2
      <3>3. m \in 0 .. 254
        BY <3>2, FewerThan255
      <3>4. m = 0 => DOMAIN c.carriers = {}
        BY <1>2
      <3> HIDE DEF n
      <3> QED BY <3>1, <3>3, <3>4
    <2>2. CASE cl.kind # "api"
      <3>1. n = c.maxRoutes
        BY <2>2
      <3>2. \A i \in 1 .. 8 : i \in 0 .. 254 /\ i # 0
        OBVIOUS
      <3> HIDE DEF n
      <3> QED BY <1>2, <3>1, <3>2
    <2> QED BY <2>1, <2>2
  <1> HIDE DEF db, m, n, found
  <1>6. /\ IsFiniteSet(V) /\ count = Cardinality(V) /\ Cardinality(V) \in Nat
        /\ Cardinality(V) < 255 =>
             \A k : HasValue(RouteTrieFind(db.inter_areas, cl.cid,
                                           RouteArrayCreate(Cardinality(V))), k)
                    <=> k \in V
    BY <1>1, <1>3, SearchOfAreas
  <1>7. InterCarriers(c, cl) = IF lcr_is_inter_area(c, db, cl) THEN DOMAIN c.carriers ELSE V
    BY DEF InterCarriers, db
  <1>8. /\ V \subseteq DOMAIN c.carriers /\ Cardinality(DOMAIN c.carriers) = m
        /\ IsFiniteSet(DOMAIN c.carriers)
    BY <1>2, IntervalSize DEF InterCallers
  <1> HIDE DEF V, count
  <1>9. \E S : Answered(found, c, cl, S, FindsCheapest(c, cl))
    <2>1. CASE lcr_is_inter_area(c, db, cl) \/ count >= m
      <3>1. InterCarriers(c, cl) = DOMAIN c.carriers
        <4>1. CASE lcr_is_inter_area(c, db, cl)
          BY <1>7, <4>1
        <4>2. CASE count >= m
          <5>1. V = DOMAIN c.carriers
            <6>1. ~(Cardinality(V) < Cardinality(DOMAIN c.carriers))
              BY <1>2, <1>6, <1>8, <4>2
            <6>2. V \in SUBSET DOMAIN c.carriers
              BY <1>8
            <6>3. Cardinality(V) \in Nat /\ Cardinality(DOMAIN c.carriers) \in Nat
              BY <1>2, <1>6, <1>8
            <6>4. Cardinality(V) <= Cardinality(DOMAIN c.carriers)
              BY <1>8, <6>2, FS_Subset
            <6>5. Cardinality(DOMAIN c.carriers) = Cardinality(V)
              BY <6>1, <6>3, <6>4
            <6> QED BY <1>8, <6>2, <6>5, FS_Subset
          <5> QED BY <1>7, <5>1
        <4> QED BY <2>1, <4>1, <4>2
      <3>2. found = RouteTrieFind(Trie(RateLists(c, 1), 1), cl.dest, RouteArrayCreate(n))
        BY <1>1, <1>4, <2>1
      <3>3. 1 \in {0, 1} /\ InterCarriers(c, cl) = IF 1 = 1 THEN DOMAIN c.carriers ELSE {}
        BY <3>1
      <3>4. Answered(RouteTrieFind(Trie(RateLists(c, 1), 1), cl.dest, RouteArrayCreate(n)),
                     c, cl, RatesFor(c, cl), FindsCheapest(c, cl))
        BY <1>5, <3>3, OneTrie
      <3> QED BY <3>2, <3>4
    <2>2. CASE ~(lcr_is_inter_area(c, db, cl) \/ count >= m) /\ count = 0
      <3>1. V = {}
        BY <1>6, <2>2, FS_EmptySet
      <3>2. found = RouteTrieFind(Trie(RateLists(c, 0), 0), cl.dest, RouteArrayCreate(n))
        BY <1>1, <1>4, <2>2
      <3>3. 0 \in {0, 1} /\ InterCarriers(c, cl) = IF 0 = 1 THEN DOMAIN c.carriers ELSE {}
        BY <1>7, <2>2, <3>1
      <3>4. Answered(RouteTrieFind(Trie(RateLists(c, 0), 0), cl.dest, RouteArrayCreate(n)),
                     c, cl, RatesFor(c, cl), FindsCheapest(c, cl))
        BY <1>5, <3>3, OneTrie
      <3> QED BY <3>2, <3>4
    <2>3. CASE ~(lcr_is_inter_area(c, db, cl) \/ count >= m) /\ count # 0
      <3> DEFINE inter == RouteTrieFind(db.inter_areas, cl.cid, RouteArrayCreate(count))
                 intra == TakeRoutes(a, db, db.intra_trie, cl.dest, inter, FALSE)
      <3>1. InterCarriers(c, cl) = V /\ V # {} /\ V # DOMAIN c.carriers
        <4>1. V # {}
          BY <1>6, <2>3, FS_EmptySet
        <4>2. V # DOMAIN c.carriers
          BY <1>2, <1>6, <1>8, <2>3
        <4> QED BY <1>7, <2>3, <4>1, <4>2
      <3>2. MixedCall(c, cl)
        BY <3>1 DEF MixedCall
      <3>3. found = TakeRoutes(intra, db, db.inter_trie, cl.dest, inter, TRUE)
        BY <1>1, <1>4, <2>3 DEF MixedRoutes
      <3>4. count < 255
        BY <1>2, <1>6, <2>3
      <3>5. \A k : HasValue(inter, k) <=> k \in V
        BY <1>6, <3>4
      <3> HIDE DEF inter
      <3>6. \E S : Answered(TakeRoutes(intra, db, db.inter_trie, cl.dest, inter, TRUE),
                           c, cl, S, FindsCheapest(c, cl))
        BY <1>5, <3>1, <3>2, <3>5, TwoTries DEF db
      <3> HIDE DEF intra
      <3> QED BY <3>3, <3>6
    <2> QED BY <2>1, <2>2, <2>3
  <1>10. PICK S : Answered(found, c, cl, S, FindsCheapest(c, cl))
    BY <1>9
  <1> QED BY <1>10, AnswerIsRight DEF found

-----------------------------------------------------------------------------
(* What a lookup has found stays its own until it is done.                  *)

(* A lookup that is under way has a call and a place among its routes.      *)
LookupTypes ==
  /\ DOMAIN call = Callers
  /\ \A t \in Callers : at[t] # "idle" => call[t] \in Calls
  /\ \A t \in Callers : place[t] \in Nat \ {0}

(* Until it dials a lookup has what lcr_find returned, of a configuration   *)
(* that is not replaced under it.                                           *)
AsFound == \A t \in Callers : JustFound(t) => result[t] = lcr_find(dbConf[held[t]], call[t])

LInv == LookupTypes /\ AsFound

(* Nobody looks up yet.                                                     *)
LEMMA LInitHolds == LcrInit => LInv
  BY DEF LcrInit, LInv, LookupTypes, AsFound, JustFound

(* A step of a loader, or of the unload, leaves the lookups and the         *)
(* databases in use alone.                                                  *)
LEMMA OthersKeepLookups ==
  ASSUME IInv, LInv, UNCHANGED <<at, held, callVars>>,
         \A d \in Dbs : dbState[d] = "shared" => dbConf'[d] = dbConf[d]
  PROVE  LInv'
  <1>1. UNCHANGED <<at, held, call, result, place>>
    BY DEF callVars
  <1>2. LookupTypes'
    BY <1>1 DEF LInv, LookupTypes
  <1>3. ASSUME NEW t \in Callers, JustFound(t)'
        PROVE  result'[t] = lcr_find(dbConf'[held'[t]], call'[t])
    <2>1. JustFound(t) /\ at[t] \in Reading
      BY <1>1, <1>3 DEF JustFound, Reading
    <2>2. dbConf'[held[t]] = dbConf[held[t]]
      BY <2>1 DEF IInv, ReadersHold
    <2>3. result[t] = lcr_find(dbConf[held[t]], call[t])
      BY <2>1 DEF LInv, AsFound
    <2>4. result'[t] = result[t] /\ held'[t] = held[t] /\ call'[t] = call[t]
      BY <1>1
    <2>5. QED BY <2>2, <2>3, <2>4
  <1>4. QED BY <1>2, <1>3 DEF LInv, AsFound

(* A step of one lookup leaves the others alone.                            *)
LEMMA OneLookupKeeps ==
  ASSUME LInv, NEW t \in Callers, UNCHANGED dbConf,
         \A u \in Callers : u # t =>
           /\ at'[u] = at[u] /\ held'[u] = held[u] /\ call'[u] = call[u]
           /\ result'[u] = result[u] /\ place'[u] = place[u],
         DOMAIN call' = Callers, at'[t] # "idle" => call'[t] \in Calls,
         place'[t] \in Nat \ {0},
         JustFound(t)' => result'[t] = lcr_find(dbConf[held'[t]], call'[t])
  PROVE  LInv'
  <1>1. LookupTypes'
    BY DEF LInv, LookupTypes
  <1>2. ASSUME NEW u \in Callers, JustFound(u)'
        PROVE  result'[u] = lcr_find(dbConf'[held'[u]], call'[u])
    <2>1. CASE u = t
      BY <1>2, <2>1
    <2>2. CASE u # t
      <3>1. JustFound(u)
        BY <1>2, <2>2 DEF JustFound
      <3>2. result[u] = lcr_find(dbConf[held[u]], call[u])
        BY <3>1 DEF LInv, AsFound
      <3>3. /\ result'[u] = result[u] /\ held'[u] = held[u] /\ call'[u] = call[u]
            /\ dbConf' = dbConf
        BY <2>2
      <3>4. QED BY <3>2, <3>3
    <2>3. QED BY <2>1, <2>2
  <1>3. QED BY <1>1, <1>2 DEF LInv, AsFound

(* Only lcr_find gives a lookup its routes, and a gateway that was passed   *)
(* is not come back to.                                                     *)
LEMMA LookupStepKeeps ==
  ASSUME IInv, GInv, LInv, NEW t \in Callers, CallerStep(t)
  PROVE  LInv'
  <1>1. DOMAIN call = Callers /\ DOMAIN result = Callers /\ DOMAIN place = Callers
        /\ DOMAIN at = Callers /\ DOMAIN held = Callers
        /\ place[t] \in Nat \ {0} /\ (at[t] # "idle" => call[t] \in Calls)
    BY DEF GInv, GatewayTypes, LInv, LookupTypes, IInv, LcrTypeOK
  <1>2. CASE ReadPointer(t) \/ Pin(t)
    <2>1. /\ at[t] # "idle" /\ at' \in {[at EXCEPT ![t] = "pin"], [at EXCEPT ![t] = "find"]}
          /\ held' = held \/ held' = [held EXCEPT ![t] = lcr]
          /\ UNCHANGED <<dbConf, call, result, place>>
      BY <1>2 DEF ReadPointer, Pin, dbVars, callVars
    <2>2. ~JustFound(t)'
      BY <1>1, <2>1 DEF JustFound
    <2>3. QED BY <1>1, <2>1, <2>2, OneLookupKeeps
  <1>3. CASE Find(t)
    <2> DEFINE r == lcr_find(dbConf[held[t]], call[t])
    <2>1. at[t] = "find" /\ dbState[held[t]] = "shared"
      BY <1>3 DEF Find, IInv, ReadersHold, Reading
    <2>2. /\ result' = [result EXCEPT ![t] = r]
          /\ at' \in {[at EXCEPT ![t] = "dial"], [at EXCEPT ![t] = "unpin"]}
          /\ UNCHANGED <<dbConf, held, call, place>>
      BY <1>3, <2>1 DEF Find, dbVars
    <2> HIDE DEF r
    <2>3. result'[t] = r
      BY <1>1, <2>2
    <2>4. result'[t] = lcr_find(dbConf[held'[t]], call'[t])
      BY <2>2, <2>3 DEF r
    <2>5. QED BY <1>1, <2>1, <2>2, <2>4, OneLookupKeeps
  <1>4. CASE NoGateway(t) \/ AdvanceGateway(t)
    <2>1. /\ at[t] # "idle" /\ place' = [place EXCEPT ![t] = @ + 1]
          /\ at' \in {[at EXCEPT ![t] = "dial"], [at EXCEPT ![t] = "unpin"]}
          /\ UNCHANGED <<dbConf, held, call, result>>
      BY <1>4 DEF NoGateway, AdvanceGateway, dbVars
    <2>2. place'[t] \in Nat \ {0} /\ place'[t] # 1
      BY <1>1, <2>1
    <2>3. ~JustFound(t)'
      BY <2>2 DEF JustFound
    <2>4. QED BY <1>1, <2>1, <2>2, <2>3, OneLookupKeeps
  <1>5. CASE LockCarrier(t) \/ PickGateway(t)
    <2>1. /\ at[t] # "idle"
          /\ at' \in {[at EXCEPT ![t] = "pick"], [at EXCEPT ![t] = "advance"]}
          /\ UNCHANGED <<dbConf, held, call, result, place>>
      BY <1>5 DEF LockCarrier, PickGateway, dbVars, callVars
    <2>2. ~JustFound(t)'
      BY <1>1, <2>1 DEF JustFound
    <2>3. QED BY <1>1, <2>1, <2>2, OneLookupKeeps
  <1>6. CASE DialStringFull(t)
    <2>1. /\ at[t] # "idle" /\ place[t] # 1
          /\ at' = [at EXCEPT ![t] = "unpin"]
          /\ UNCHANGED <<dbConf, held, call, result, place>>
      BY <1>6, <1>1 DEF DialStringFull, dbVars, callVars
    <2>2. ~JustFound(t)'
      BY <1>1, <2>1 DEF JustFound
    <2>3. QED BY <1>1, <2>1, <2>2, OneLookupKeeps
  <1>7. CASE Unpin(t)
    <2>1. /\ at' = [at EXCEPT ![t] = "idle"] /\ held' = [held EXCEPT ![t] = 0]
          /\ call' = [call EXCEPT ![t] = NoCall]
          /\ result' = [result EXCEPT ![t] = NoRoutes]
          /\ place' = [place EXCEPT ![t] = 1] /\ UNCHANGED dbConf
      BY <1>7 DEF Unpin, dbVars
    <2>2. at'[t] = "idle" /\ place'[t] = 1 /\ DOMAIN call' = Callers
      BY <1>1, <2>1
    <2>3. ~JustFound(t)'
      BY <2>2 DEF JustFound
    <2>4. QED BY <1>1, <2>1, <2>2, <2>3, OneLookupKeeps
  <1>8. QED BY <1>2, <1>3, <1>4, <1>5, <1>6, <1>7 DEF CallerStep

(* Every step keeps the lookups as they are found.                          *)
LEMMA LStepKeeps == IInv /\ GInv /\ LInv /\ [LcrNext]_lcrVars => LInv'
  <1> SUFFICES ASSUME IInv, GInv, LInv, [LcrNext]_lcrVars PROVE LInv'
    OBVIOUS
  <1>1. ASSUME NEW l \in Loaders, NEW c \in Configs, LoadConfig(l, c) PROVE LInv'
    <2>1. NewDb \in Dbs /\ dbState[NewDb] = "none"
      BY <1>1, NewDbIsNew DEF LoadConfig
    <2>2. dbConf' = [dbConf EXCEPT ![NewDb] = c] /\ UNCHANGED <<at, held, callVars>>
      BY <1>1 DEF LoadConfig
    <2>3. \A d \in Dbs : dbState[d] = "shared" => dbConf'[d] = dbConf[d]
      BY <2>1, <2>2 DEF IInv, LcrTypeOK
    <2>4. QED BY <2>2, <2>3, OthersKeepLookups
  <1>2. CASE \/ \E l \in Loaders, c \in Configs : LoadNothing(l, c)
             \/ \E l \in Loaders : LoaderStep(l)
             \/ Unbind \/ DestroyLast \/ UNCHANGED lcrVars
    <2>1. UNCHANGED <<at, held, callVars, dbConf>>
      BY <1>2 DEF LoadNothing, LoaderStep, Swap, Destroy, LoadReturns, Unbind, DestroyLast,
                  lcrVars, dbVars, callVars
    <2>2. QED BY <2>1, OthersKeepLookups
  <1>3. ASSUME NEW t \in Callers, NEW c \in Calls, BeginLookup(t, c) PROVE LInv'
    <2>1. /\ at' = [at EXCEPT ![t] = "lock"] /\ call' = [call EXCEPT ![t] = c]
          /\ UNCHANGED <<dbConf, held, result, place>>
      BY <1>3 DEF BeginLookup, dbVars
    <2>2. DOMAIN at = Callers /\ DOMAIN call = Callers /\ place[t] \in Nat \ {0}
      BY DEF LInv, LookupTypes, IInv, LcrTypeOK
    <2>3. at'[t] = "lock" /\ call'[t] = c /\ DOMAIN call' = Callers
      BY <2>1, <2>2
    <2>4. ~JustFound(t)'
      BY <2>3 DEF JustFound
    <2>5. QED BY <2>1, <2>2, <2>3, <2>4, OneLookupKeeps
  <1>4. ASSUME NEW t \in Callers, CallerStep(t) PROVE LInv'
    BY <1>4, LookupStepKeeps
  <1>5. QED BY <1>1, <1>2, <1>3, <1>4 DEF LcrNext

(* Whatever is loaded, reloaded and looked up at once, the routes of a      *)
(* lookup are what the ratedecks of its configuration list for the number,  *)
(* each at the rate that is right for its carrier, the cheapest first:      *)
(* RoutesAtTheRightRate, for every configuration and every number.          *)
THEOREM LookupsAtTheRightRate == LcrSpec => []RoutesAtTheRightRate
  <1>1. LcrInit => IInv /\ GInv /\ LInv
    BY InitHolds, GInitHolds, LInitHolds
  <1>2. IInv /\ GInv /\ LInv /\ [LcrNext]_lcrVars => (IInv /\ GInv /\ LInv)'
    BY StepKeeps, GStepKeeps, LStepKeeps
  <1>3. IInv /\ GInv /\ LInv => RoutesAtTheRightRate
    <2> DEFINE c(t) == dbConf[held[t]]
               cl(t) == call[t]
    <2>1. SUFFICES ASSUME IInv, GInv, LInv, NEW t \in Callers, JustFound(t),
                          Len(c(t).carriers) < 255, cl(t).dest # << >>, AllDigits(cl(t).cid),
                          ~AreasOverlap(c(t), cl(t).cid)
                   PROVE  /\ Listed(result[t]) \subseteq RatesFor(c(t), cl(t))
                          /\ FindsCheapest(c(t), cl(t)) =>
                               \A r \in RatesFor(c(t), cl(t)) :
                                 result[t].size > 0 /\ result[t].slot[1].cost <= r.cost
      BY DEF RoutesAtTheRightRate, FindsCheapest
    <2>2. at[t] # "idle" /\ held[t] \in Dbs /\ dbState[held[t]] = "shared"
      BY <2>1 DEF JustFound, IInv, ReadersHold, Reading
    <2>3. Built(c(t))
      BY <2>1, <2>2 DEF GInv, Approved, Built
    <2>4. cl(t) \in CallKinds
      BY <2>1, <2>2, CallAssumption DEF LInv, LookupTypes, CallKinds
    <2>5. result[t] = lcr_find(c(t), cl(t))
      BY <2>1 DEF LInv, AsFound
    <2> HIDE DEF c, cl
    <2>6. QED BY <2>1, <2>3, <2>4, <2>5, LookupIsRight
  <1>4. QED BY <1>1, <1>2, <1>3, PTL DEF LcrSpec

=============================================================================
