---------------------------- MODULE BlacklistProofs ----------------------------
(***************************************************************************)
(* The blacklist command implements lists that change at one moment, for   *)
(* any number of threads, lists and reloads.                               *)
(***************************************************************************)
EXTENDS Blacklist, TLAPS

Holding == {"lock", "use"}     \* a command that took its list from the table
Loading == {"free", "load"}    \* a reload
ListConf == [name : Names, opens : BOOLEAN, numbers : SUBSET Numbers]
Request == [op : {"check", "add", "del"}, name : Names, number : Numbers]

TypeOK ==
  /\ lists \in [Names -> 0 .. created] /\ lists_mutex \in Users \cup {Nobody}
  /\ list \in [ListIds -> SUBSET Numbers] /\ list_mutex \in [ListIds -> Users \cup {Nobody}]
  /\ freed \subseteq 1 .. created /\ created \in Nat
  /\ step \in [Users -> {"idle", "find", "lock", "use", "free", "load"}]
  /\ request \in [Users -> Request \cup {<< >>}]
  /\ bl \in [Users -> 0 .. created]
  /\ reply \in [Users -> {"none", "true", "false", "ok", "unknown"}]
  /\ toLoad \in Seq(ListConf) /\ created + Len(toLoad) <= MaxLists
  /\ before \in [Names -> (SUBSET Numbers) \cup {NoList}]
  /\ caught \subseteq Users /\ listCrash \in BOOLEAN

(* The reload that runs holds lists_mutex, and has freed every list when it *)
(* loads the new ones.                                                      *)
OneReload ==
  \A t \in Users :
    /\ (step[t] \in Loading <=> lists_mutex = t)
    /\ step[t] = "load" => \A u \in Users : step[u] \in Holding => bl[u] \in freed

(* The table has no freed list, and none twice.                             *)
TableInUse ==
  /\ \A n \in Names : lists[n] \notin freed
  /\ \A m, n \in Names : lists[m] = lists[n] /\ lists[n] # 0 => m = n

(* A command's list is the one of its name, or freed by a reload that came  *)
(* after the command had found it.                                          *)
ListOfCommand ==
  \A t \in Users :
    /\ (step[t] \in {"find", "lock", "use"} <=> request[t] \in Request)
    /\ step[t] \in Holding =>
         /\ bl[t] # 0
         /\ bl[t] \in freed \/ lists[request[t].name] = bl[t]
         /\ (bl[t] \in freed \/ lists_mutex # Nobody) => t \in caught

IInv == TypeOK /\ OneReload /\ TableInUse /\ ListOfCommand

-----------------------------------------------------------------------------
(* Every list in the table, and in a command's hands, has been created.     *)
LEMMA KnownLists ==
  ASSUME TypeOK
  PROVE  /\ created \in Nat /\ created <= MaxLists
         /\ \A n \in Names : lists[n] # 0 => lists[n] \in 1 .. created /\ lists[n] \in ListIds
         /\ \A t \in Users : bl[t] # 0 => bl[t] \in ListIds
  <1>1. created \in Nat /\ MaxLists \in Nat /\ created <= MaxLists
    <2>1. Len(toLoad) \in Nat
      BY DEF TypeOK
    <2>2. created \in Nat /\ created + Len(toLoad) <= MaxLists
      BY DEF TypeOK
    <2>3. MaxLists \in Nat
      BY BlacklistAssumption DEF BlacklistAssumption
    <2>4. QED BY <2>1, <2>2, <2>3
  <1>2. \A i \in 0 .. created : i # 0 => i \in 1 .. created /\ i \in ListIds
    BY <1>1 DEF ListIds
  <1>3. (\A n \in Names : lists[n] \in 0 .. created) /\ (\A t \in Users : bl[t] \in 0 .. created)
    BY DEF TypeOK
  <1>4. QED BY <1>1, <1>2, <1>3

LEMMA NoRequest == << >> \notin Request
  BY DEF Request

LEMMA InitHolds == BlacklistInit => IInv
  <1> SUFFICES ASSUME BlacklistInit PROVE IInv
    OBVIOUS
  <1>1. TypeOK
    <2>1. created = 0 /\ toLoad \in Seq(ListConf) /\ Len(toLoad) = 0 /\ 0 <= MaxLists
      BY BlacklistAssumption DEF BlacklistAssumption, BlacklistInit
    <2>2. \A n \in Names : lists[n] \in 0 .. created
      BY <2>1 DEF BlacklistInit
    <2>3. created \in Nat /\ created + Len(toLoad) <= MaxLists
      BY <2>1
    <2>4. /\ lists_mutex \in Users \cup {Nobody} /\ list \in [ListIds -> SUBSET Numbers]
          /\ list_mutex \in [ListIds -> Users \cup {Nobody}] /\ freed \subseteq 1 .. created
          /\ before \in [Names -> (SUBSET Numbers) \cup {NoList}] /\ caught \subseteq Users
          /\ listCrash \in BOOLEAN /\ lists \in [Names -> 0 .. created]
      BY <2>2 DEF BlacklistInit
    <2>5. /\ step \in [Users -> {"idle", "find", "lock", "use", "free", "load"}]
          /\ request \in [Users -> Request \cup {<< >>}]
          /\ bl \in [Users -> 0 .. created]
          /\ reply \in [Users -> {"none", "true", "false", "ok", "unknown"}]
      BY <2>1 DEF BlacklistInit
    <2>6. QED BY <2>1, <2>3, <2>4, <2>5 DEF TypeOK
  <1>2. OneReload /\ TableInUse /\ ListOfCommand
    BY NoRequest, BlacklistAssumption
    DEF BlacklistAssumption, BlacklistInit, OneReload, TableInUse, ListOfCommand, Holding,
        Loading
  <1>3. QED BY <1>1, <1>2 DEF IInv

-----------------------------------------------------------------------------
(* The steps of a command.                                                  *)

LEMMA BeginKeeps ==
  ASSUME IInv, NEW t \in Users, NEW op \in {"check", "add", "del"}, NEW n \in Names,
         NEW x \in Numbers, BeginListCommand(t, op, n, x)
  PROVE  IInv'
  <1> DEFINE r == [op |-> op, name |-> n, number |-> x]
  <1>1. r \in Request
    BY DEF Request
  <1>2. /\ step[t] = "idle" /\ step' = [step EXCEPT ![t] = "find"]
        /\ request' = [request EXCEPT ![t] = r] /\ reply' = [reply EXCEPT ![t] = "none"]
        /\ UNCHANGED <<lists, lists_mutex, listVars, bl, toLoad, before, caught, listCrash>>
    BY DEF BeginListCommand
  <1> HIDE DEF r
  <1>3. TypeOK'
    BY <1>1, <1>2 DEF IInv, TypeOK, listVars
  <1>4. OneReload' /\ TableInUse'
    BY <1>2 DEF IInv, TypeOK, OneReload, TableInUse, listVars, Holding, Loading
  <1>5. ListOfCommand'
    BY <1>1, <1>2 DEF IInv, TypeOK, ListOfCommand, listVars, Holding
  <1>6. QED BY <1>3, <1>4, <1>5 DEF IInv

(* A command that is over leaves the lists and the reload as they are.      *)
LEMMA WritesKeeps ==
  ASSUME IInv, NEW t \in Users, step[t] \in {"find", "lock", "use"},
         NEW text \in {"true", "false", "ok", "unknown"}, Writes(t, text),
         list' \in [ListIds -> SUBSET Numbers],
         list_mutex' \in [ListIds -> Users \cup {Nobody}],
         UNCHANGED <<lists, lists_mutex, freed, created, toLoad, before, listCrash>>
  PROVE  IInv'
  <1>1. /\ step' = [step EXCEPT ![t] = "idle"] /\ request' = [request EXCEPT ![t] = << >>]
        /\ bl' = [bl EXCEPT ![t] = 0] /\ caught' = caught \ {t}
        /\ reply' = [reply EXCEPT ![t] = text]
    BY DEF Writes
  <1>2. TypeOK'
    BY <1>1 DEF IInv, TypeOK
  <1>3. OneReload' /\ TableInUse'
    BY <1>1 DEF IInv, TypeOK, OneReload, TableInUse, Holding, Loading
  <1>4. ListOfCommand'
    BY <1>1, NoRequest DEF IInv, TypeOK, ListOfCommand, Holding
  <1>5. QED BY <1>2, <1>3, <1>4 DEF IInv

LEMMA FindKeeps ==
  ASSUME IInv, NEW t \in Users, FindList(t)
  PROVE  IInv'
  <1>1. /\ step[t] = "find" /\ lists_mutex = Nobody /\ request[t] \in Request
        /\ request[t].name \in Names
        /\ UNCHANGED <<lists, lists_mutex, list, list_mutex, freed, created, toLoad, before,
                       listCrash>>
    BY DEF FindList, listVars, IInv, ListOfCommand, Request
  <1>2. CASE lists[request[t].name] = 0
    <2>1. PICK text \in {"true", "false", "ok", "unknown"} : Writes(t, text)
      BY <1>2 DEF FindList
    <2>2. list' \in [ListIds -> SUBSET Numbers] /\ list_mutex' \in [ListIds -> Users \cup {Nobody}]
      BY <1>1 DEF IInv, TypeOK
    <2>3. QED BY <1>1, <2>1, <2>2, WritesKeeps
  <1>3. CASE lists[request[t].name] # 0
    <2>1. /\ bl' = [bl EXCEPT ![t] = lists[request[t].name]]
          /\ step' = [step EXCEPT ![t] = "lock"] /\ UNCHANGED <<request, reply, caught>>
      BY <1>3 DEF FindList
    <2>2. TypeOK'
      BY <1>1, <2>1 DEF IInv, TypeOK
    <2>3. OneReload' /\ TableInUse'
      <3>1. \A u \in Users : step[u] # "load"
        BY <1>1, BlacklistAssumption DEF BlacklistAssumption, IInv, OneReload, Loading
      <3>2. QED BY <1>1, <2>1, <3>1 DEF IInv, TypeOK, OneReload, TableInUse, Holding, Loading
    <2>4. ListOfCommand'
      BY <1>1, <1>3, <2>1 DEF IInv, TypeOK, ListOfCommand, TableInUse, Holding
    <2>5. QED BY <2>2, <2>3, <2>4 DEF IInv
  <1>4. QED BY <1>2, <1>3

LEMMA CrashKeeps ==
  ASSUME IInv, NEW t \in Users, Crash(t)
  PROVE  IInv'
  BY DEF Crash, listVars, IInv, TypeOK, OneReload, TableInUse, ListOfCommand

LEMMA LockKeeps ==
  ASSUME IInv, NEW t \in Users, LockList(t)
  PROVE  IInv'
  <1>1. CASE Crash(t)
    BY <1>1, CrashKeeps
  <1>2. CASE ~Crash(t)
    <2>1. /\ step[t] = "lock" /\ step' = [step EXCEPT ![t] = "use"]
          /\ list_mutex' = [list_mutex EXCEPT ![bl[t]] = t]
          /\ UNCHANGED <<lists, lists_mutex, list, freed, created, request, bl, reply,
                         toLoad, before, caught, listCrash>>
      BY <1>2 DEF LockList
    <2>2. TypeOK'
      BY <2>1 DEF IInv, TypeOK
    <2>3. OneReload' /\ TableInUse' /\ ListOfCommand'
      BY <2>1 DEF IInv, TypeOK, OneReload, TableInUse, ListOfCommand, Holding, Loading
    <2>4. QED BY <2>2, <2>3 DEF IInv
  <1>3. QED BY <1>1, <1>2

LEMMA UseKeeps ==
  ASSUME IInv, NEW t \in Users, UseList(t)
  PROVE  IInv'
  <1>1. CASE Crash(t)
    BY <1>1, CrashKeeps
  <1>2. CASE ~Crash(t)
    <2>1. /\ step[t] = "use" /\ request[t] \in Request
          /\ list_mutex' = [list_mutex EXCEPT ![bl[t]] = Nobody]
          /\ UNCHANGED <<lists, lists_mutex, freed, created, toLoad, before, listCrash>>
      BY <1>2 DEF UseList, IInv, ListOfCommand
    <2>2. request[t].op \in {"check", "add", "del"} /\ request[t].number \in Numbers
      BY <2>1 DEF Request
    <2>3. list_mutex' \in [ListIds -> Users \cup {Nobody}]
      BY <2>1 DEF IInv, TypeOK
    <2>4. PICK text \in {"true", "false", "ok", "unknown"} :
            Writes(t, text) /\ list' \in [ListIds -> SUBSET Numbers]
      <3>1. CASE request[t].op = "check"
        BY <1>2, <3>1 DEF UseList, IInv, TypeOK
      <3>2. CASE request[t].op = "add"
        <4>1. Writes(t, "ok") /\ list' = [list EXCEPT ![bl[t]] = @ \cup {request[t].number}]
          BY <1>2, <3>2 DEF UseList
        <4>2. list' \in [ListIds -> SUBSET Numbers]
          BY <2>2, <4>1 DEF IInv, TypeOK
        <4>3. QED BY <4>1, <4>2
      <3>3. CASE request[t].op = "del"
        <4>1. Writes(t, "ok") /\ list' = [list EXCEPT ![bl[t]] = @ \ {request[t].number}]
          BY <1>2, <3>3 DEF UseList
        <4>2. list' \in [ListIds -> SUBSET Numbers]
          BY <2>2, <4>1 DEF IInv, TypeOK
        <4>3. QED BY <4>1, <4>2
      <3>4. QED BY <2>2, <3>1, <3>2, <3>3
    <2>5. QED BY <2>1, <2>3, <2>4, WritesKeeps
  <1>3. QED BY <1>1, <1>2

-----------------------------------------------------------------------------
(* The steps of a reload.                                                   *)

LEMMA BeginReloadKeeps ==
  ASSUME IInv, NEW t \in Users, NEW conf \in ListConfigs, BeginReload(t, conf)
  PROVE  IInv'
  <1>1. /\ step[t] = "idle" /\ lists_mutex = Nobody /\ lists_mutex' = t
        /\ step' = [step EXCEPT ![t] = "free"]
        /\ toLoad' = conf /\ created + Len(conf) <= MaxLists
        /\ before' = [n \in Names |-> NoList]
        /\ caught' = {u \in Users : step[u] \in Holding}
        /\ UNCHANGED <<lists, listVars, request, bl, reply, listCrash>>
    BY DEF BeginReload, Holding
  <1>2. conf \in Seq(ListConf) /\ t # Nobody
    BY BlacklistAssumption DEF BlacklistAssumption, ListConf
  <1>3. TypeOK'
    BY <1>1, <1>2 DEF IInv, TypeOK, listVars
  <1>4. OneReload' /\ TableInUse'
    <2>1. \A u \in Users : step[u] \notin Loading
      BY <1>1, BlacklistAssumption DEF BlacklistAssumption, IInv, OneReload
    <2>2. \A u \in Users : step'[u] = IF u = t THEN "free" ELSE step[u]
      BY <1>1 DEF IInv, TypeOK
    <2>3. OneReload'
      BY <1>1, <2>1, <2>2 DEF OneReload, Loading
    <2>4. TableInUse'
      BY <1>1 DEF IInv, TableInUse, listVars
    <2>5. QED BY <2>3, <2>4
  <1>5. ListOfCommand'
    BY <1>1 DEF IInv, TypeOK, ListOfCommand, Holding, listVars
  <1>6. QED BY <1>3, <1>4, <1>5 DEF IInv

LEMMA FreeKeeps ==
  ASSUME IInv, NEW t \in Users, NEW n \in Names, FreeList(t, n)
  PROVE  IInv'
  <1>1. /\ step[t] = "free" /\ lists[n] # 0 /\ lists_mutex = t /\ t # Nobody
        /\ freed' = freed \cup {lists[n]} /\ before' = [before EXCEPT ![n] = list[lists[n]]]
        /\ lists' = [lists EXCEPT ![n] = 0]
        /\ UNCHANGED <<lists_mutex, list, list_mutex, created, step, request, bl, reply,
                       toLoad, caught, listCrash>>
    BY BlacklistAssumption DEF BlacklistAssumption, FreeList, IInv, OneReload, Loading
  <1>2. lists[n] \in 1 .. created /\ list[lists[n]] \in SUBSET Numbers
    <2>1. lists[n] \in 1 .. created /\ lists[n] \in ListIds
      BY <1>1, KnownLists DEF IInv
    <2>2. QED BY <2>1 DEF IInv, TypeOK
  <1>3. TypeOK'
    <2>1. lists' \in [Names -> 0 .. created']
      BY <1>1 DEF IInv, TypeOK
    <2>2. freed' \subseteq 1 .. created' /\ before' \in [Names -> (SUBSET Numbers) \cup {NoList}]
      BY <1>1, <1>2 DEF IInv, TypeOK
    <2>3. QED BY <1>1, <2>1, <2>2 DEF IInv, TypeOK
  <1>4. OneReload'
    BY <1>1 DEF IInv, OneReload
  <1>5. TableInUse'
    BY <1>1 DEF IInv, TypeOK, TableInUse
  <1>6. ListOfCommand'
    BY <1>1 DEF IInv, TypeOK, ListOfCommand, Request, Holding
  <1>7. QED BY <1>3, <1>4, <1>5, <1>6 DEF IInv

LEMMA AllFreedKeeps ==
  ASSUME IInv, NEW t \in Users, AllFreed(t)
  PROVE  IInv'
  <1>1. /\ step[t] = "free" /\ \A n \in Names : lists[n] = 0
        /\ step' = [step EXCEPT ![t] = "load"]
        /\ UNCHANGED <<lists, lists_mutex, listVars, request, bl, reply, toLoad, before,
                       caught, listCrash>>
    BY DEF AllFreed
  <1>2. TypeOK' /\ TableInUse' /\ ListOfCommand'
    BY <1>1 DEF IInv, TypeOK, TableInUse, ListOfCommand, listVars, Holding
  <1>3. \A u \in Users : step[u] \in Holding => bl[u] \in freed
    BY <1>1 DEF IInv, ListOfCommand, Holding, Request
  <1>4. OneReload'
    BY <1>1, <1>3 DEF IInv, TypeOK, OneReload, listVars, Holding, Loading
  <1>5. QED BY <1>2, <1>4 DEF IInv

LEMMA LoadKeeps ==
  ASSUME IInv, NEW t \in Users, LoadList(t)
  PROVE  IInv'
  <1> DEFINE c == Head(toLoad)
  <1>1. /\ step[t] = "load" /\ toLoad # << >> /\ created' = created + 1
        /\ toLoad' = Tail(toLoad)
        /\ \/ /\ list' = [list EXCEPT ![created'] = c.numbers]
              /\ lists' = [lists EXCEPT ![c.name] = created']
           \/ UNCHANGED <<list, lists>>
        /\ UNCHANGED <<lists_mutex, list_mutex, freed, step, request, bl, reply, before,
                       caught, listCrash>>
    BY DEF LoadList
  <1>2. c \in ListConf /\ Tail(toLoad) \in Seq(ListConf) /\ Len(Tail(toLoad)) = Len(toLoad) - 1
        /\ Len(toLoad) \in Nat
    BY <1>1 DEF IInv, TypeOK
  <1>3. c.name \in Names /\ c.numbers \in SUBSET Numbers
    BY <1>2 DEF ListConf
  <1> HIDE DEF c
  <1>4. created \in Nat /\ created + 1 \in ListIds /\ created + 1 + Len(Tail(toLoad)) <= MaxLists
    BY <1>1, <1>2, BlacklistAssumption DEF BlacklistAssumption, IInv, TypeOK, ListIds
  <1>5. created + 1 \notin freed /\ \A n \in Names : lists[n] # created + 1
    BY <1>4 DEF IInv, TypeOK
  <1>6. \A u \in Users : step[u] \in Holding => bl[u] \in freed
    BY <1>1 DEF IInv, OneReload
  <1>7. TypeOK'
    <2>1. lists' \in [Names -> 0 .. created']
      <3>1. 0 .. created \subseteq 0 .. created' /\ created' \in 0 .. created'
        BY <1>1, <1>4
      <3>2. lists \in [Names -> 0 .. created']
        BY <3>1 DEF IInv, TypeOK
      <3>3. QED BY <1>1, <1>3, <3>1, <3>2
    <2>2. list' \in [ListIds -> SUBSET Numbers]
      BY <1>1, <1>3, <1>4 DEF IInv, TypeOK
    <2>3. freed' \subseteq 1 .. created' /\ bl' \in [Users -> 0 .. created'] /\ created' \in Nat
      BY <1>1, <1>4 DEF IInv, TypeOK
    <2>4. QED BY <1>1, <1>2, <1>4, <2>1, <2>2, <2>3 DEF IInv, TypeOK
  <1>8. OneReload' /\ ListOfCommand'
    BY <1>1, <1>6 DEF IInv, OneReload, ListOfCommand
  <1>9. TableInUse'
    <2>1. CASE UNCHANGED lists
      BY <1>1, <2>1 DEF IInv, TableInUse
    <2>2. CASE lists' = [lists EXCEPT ![c.name] = created']
      <3>1. \A n \in Names : lists'[n] = IF n = c.name THEN created' ELSE lists[n]
        BY <2>2 DEF IInv, TypeOK
      <3>2. QED BY <1>1, <1>5, <3>1 DEF IInv, TableInUse
    <2>3. QED BY <1>1, <2>1, <2>2
  <1>10. QED BY <1>7, <1>8, <1>9 DEF IInv

LEMMA EndReloadKeeps ==
  ASSUME IInv, NEW t \in Users, EndReload(t)
  PROVE  IInv'
  <1>1. /\ step[t] = "load" /\ lists_mutex = t /\ lists_mutex' = Nobody /\ t # Nobody
        /\ step' = [step EXCEPT ![t] = "idle"]
        /\ UNCHANGED <<lists, listVars, request, bl, reply, toLoad, before, caught, listCrash>>
    BY BlacklistAssumption DEF BlacklistAssumption, EndReload, IInv, OneReload, Loading
  <1>2. TypeOK' /\ TableInUse' /\ ListOfCommand'
    BY <1>1 DEF IInv, TypeOK, TableInUse, ListOfCommand, listVars, Holding
  <1>3. OneReload'
    BY <1>1, BlacklistAssumption
    DEF BlacklistAssumption, IInv, TypeOK, OneReload, listVars, Holding, Loading
  <1>4. QED BY <1>2, <1>3 DEF IInv

LEMMA StepKeeps == IInv /\ [BlacklistNext]_blacklistVars => IInv'
  <1> SUFFICES ASSUME IInv, [BlacklistNext]_blacklistVars PROVE IInv'
    OBVIOUS
  <1>1. CASE BlacklistNext
    <2>1. PICK t \in Users :
            \/ \E op \in {"check", "add", "del"}, n \in Names, x \in Numbers :
                 BeginListCommand(t, op, n, x)
            \/ FindList(t) \/ LockList(t) \/ UseList(t)
            \/ \E conf \in ListConfigs : BeginReload(t, conf)
            \/ \E n \in Names : FreeList(t, n)
            \/ AllFreed(t) \/ LoadList(t) \/ EndReload(t)
      BY <1>1 DEF BlacklistNext
    <2>2. QED
      BY <2>1, BeginKeeps, FindKeeps, LockKeeps, UseKeeps, BeginReloadKeeps, FreeKeeps,
         AllFreedKeeps, LoadKeeps, EndReloadKeeps
  <1>2. CASE UNCHANGED blacklistVars
    BY <1>2 DEF blacklistVars, listVars, IInv, TypeOK, OneReload, TableInUse, ListOfCommand
  <1>3. QED BY <1>1, <1>2

THEOREM Inductive == BlacklistSpec => []IInv
  BY InitHolds, StepKeeps, PTL DEF BlacklistSpec

-----------------------------------------------------------------------------
(* What the lists stand for, told from the mutex.                           *)
Contents == [n \in Names |-> Current(n)]
Found == {t \in Users : step[t] \in {"lock", "use"}}

Meaning ==
  /\ (Reloader # {} <=> lists_mutex # Nobody)
  /\ \A n \in Names :
       Current(n) =
         IF lists_mutex = Nobody
         THEN IF lists[n] = 0 THEN NoList ELSE list[lists[n]]
         ELSE IF step[lists_mutex] = "load" \/ lists[n] = 0 THEN before[n] ELSE list[lists[n]]

LEMMA InvMeaning == IInv => Meaning
  <1> SUFFICES ASSUME IInv PROVE Meaning
    OBVIOUS
  <1>1. CASE lists_mutex = Nobody
    <2>1. \A t \in Users : step[t] \notin Loading
      BY <1>1, BlacklistAssumption DEF BlacklistAssumption, IInv, OneReload
    <2>2. Reloader = {} /\ ~ \E t \in Reloader : step[t] = "load"
      BY <2>1 DEF Reloader, Loading
    <2>3. QED BY <1>1, <2>2 DEF Meaning, Current
  <1>2. CASE lists_mutex # Nobody
    <2>1. lists_mutex \in Users /\ step[lists_mutex] \in Loading
          /\ \A t \in Users : step[t] \in Loading => t = lists_mutex
      BY <1>2 DEF IInv, TypeOK, OneReload
    <2>2. Reloader = {lists_mutex}
      BY <2>1 DEF Reloader, Loading
    <2>3. QED BY <1>2, <2>2 DEF Meaning, Current
  <1>3. QED BY <1>1, <1>2

LEMMA InvMeaningNext == IInv' => Meaning'
  BY InvMeaning, PTL

(* A step that leaves the mutex, the requests and what the lists stand for  *)
(* alone does not change the abstract state.                                *)
LEMMA SameMeaning ==
  ASSUME IInv, IInv', UNCHANGED <<lists_mutex, request, reply, caught, listCrash>>,
         Found' = Found, \A n \in Names : Current(n)' = Current(n)
  PROVE  UNCHANGED Atomic!absVars
  <1>1. (Reloader # {})' = (Reloader # {})
    BY InvMeaning, InvMeaningNext, Zenon DEF Meaning
  <1>2. Contents' = Contents
    BY DEF Contents
  <1>3. QED BY <1>1, <1>2 DEF Atomic!absVars, Contents, Found

LEMMA InitRefines == BlacklistInit => Atomic!AbsInit
  <1> SUFFICES ASSUME BlacklistInit PROVE Atomic!AbsInit
    OBVIOUS
  <1>1. Meaning /\ lists_mutex = Nobody /\ \A n \in Names : lists[n] = 0
    BY InitHolds, InvMeaning DEF BlacklistInit
  <1>2. Reloader = {} /\ \A n \in Names : Current(n) = NoList
    BY <1>1 DEF Meaning
  <1>3. QED BY <1>2 DEF BlacklistInit, Atomic!AbsInit

LEMMA BeginRefines ==
  ASSUME IInv, IInv', NEW t \in Users, NEW op \in {"check", "add", "del"}, NEW n \in Names,
         NEW x \in Numbers, BeginListCommand(t, op, n, x)
  PROVE  Atomic!AbsBegin(t, op, n, x)
  <1>1. /\ step[t] = "idle" /\ step' = [step EXCEPT ![t] = "find"] /\ step[t] \notin Holding
        /\ request' = [request EXCEPT ![t] = [op |-> op, name |-> n, number |-> x]]
        /\ reply' = [reply EXCEPT ![t] = "none"]
        /\ UNCHANGED <<lists, lists_mutex, list, before, caught, listCrash>>
    BY DEF BeginListCommand, listVars, Holding
  <1>2. request[t] = << >>
    <2>1. request[t] \notin Request
      BY <1>1 DEF IInv, ListOfCommand
    <2>2. QED BY <2>1 DEF IInv, TypeOK
  <1>3. Found' = Found
    BY <1>1 DEF Found, IInv, TypeOK
  <1>4. (Reloader # {})' = (Reloader # {})
    BY <1>1, InvMeaning, InvMeaningNext, Zenon DEF Meaning
  <1>5. \A m \in Names : Current(m)' = Current(m)
    <2>1. lists_mutex # Nobody => step'[lists_mutex] = step[lists_mutex]
      BY <1>1 DEF IInv, TypeOK, OneReload, Loading
    <2>2. QED BY <1>1, <2>1, InvMeaning, InvMeaningNext DEF Meaning
  <1>6. Contents' = Contents
    BY <1>5 DEF Contents
  <1>7. QED BY <1>1, <1>2, <1>3, <1>4, <1>6 DEF Atomic!AbsBegin, Contents, Found

LEMMA NoListIsNone == ASSUME NEW S \in SUBSET Numbers PROVE S # NoList
  BY BlacklistAssumption DEF BlacklistAssumption

LEMMA FindRefines ==
  ASSUME IInv, IInv', NEW t \in Users, FindList(t)
  PROVE  Atomic!AbsFind(t)
  <1> DEFINE n == request[t].name
  <1>1. /\ step[t] = "find" /\ lists_mutex = Nobody /\ request[t] \in Request
        /\ UNCHANGED <<lists, lists_mutex, list, before, listCrash>>
    BY DEF FindList, listVars, IInv, ListOfCommand
  <1>2. n \in Names /\ request[t] # << >> /\ t \notin Found /\ Reloader = {}
    BY <1>1, NoRequest, InvMeaning DEF Request, Found, Meaning
  <1>3. Reloader' = {} /\ \A m \in Names : Current(m)' = Current(m)
    BY <1>1, InvMeaning, InvMeaningNext DEF Meaning
  <1>4. Contents' = Contents
    BY <1>3 DEF Contents
  <1>5. Contents[n] = NoList <=> lists[n] = 0
    <2>1. Contents[n] = IF lists[n] = 0 THEN NoList ELSE list[lists[n]]
      BY <1>1, <1>2, InvMeaning DEF Contents, Meaning
    <2>2. lists[n] # 0 => list[lists[n]] \in SUBSET Numbers
      <3>1. lists[n] # 0 => lists[n] \in ListIds
        BY <1>2, KnownLists DEF IInv
      <3>2. QED BY <3>1 DEF IInv, TypeOK
    <2>3. QED BY <2>1, <2>2, NoListIsNone
  <1> HIDE DEF n
  <1>6. CASE lists[n] = 0
    <2> DEFINE a == IF request[t].op = "check" THEN "false" ELSE "unknown"
    <2>1. Writes(t, a)
      BY <1>6 DEF FindList, n
    <2>2. Found' = Found \ {t}
      BY <2>1 DEF Writes, Found, IInv, TypeOK
    <2>3. QED
      BY <1>1, <1>2, <1>3, <1>4, <1>5, <1>6, <2>1, <2>2
      DEF Atomic!AbsFind, Atomic!Answers, Writes, Contents, Found, n
  <1>7. CASE lists[n] # 0
    <2>1. step' = [step EXCEPT ![t] = "lock"] /\ UNCHANGED <<request, reply, caught>>
      BY <1>7 DEF FindList, n
    <2>2. Found' = Found \cup {t}
      BY <2>1 DEF Found, IInv, TypeOK
    <2>3. QED
      BY <1>1, <1>2, <1>3, <1>4, <1>5, <1>7, <2>1, <2>2
      DEF Atomic!AbsFind, Contents, Found, n
  <1>8. QED BY <1>6, <1>7

LEMMA CrashRefines ==
  ASSUME IInv, IInv', NEW t \in Users, step[t] \in Holding, Crash(t)
  PROVE  Atomic!AbsBreak
  <1>1. /\ bl[t] \in freed /\ listCrash' = TRUE
        /\ UNCHANGED <<lists, lists_mutex, list, step, request, reply, before, caught>>
    BY DEF Crash, listVars
  <1>2. caught # {}
    BY <1>1 DEF IInv, ListOfCommand
  <1>3. Reloader' = Reloader /\ Found' = Found
    BY <1>1 DEF Reloader, Found
  <1>4. Contents' = Contents
    BY <1>1, InvMeaning, InvMeaningNext DEF Contents, Meaning
  <1>5. QED BY <1>1, <1>2, <1>3, <1>4 DEF Atomic!AbsBreak, Contents, Found

LEMMA LockRefines ==
  ASSUME IInv, IInv', NEW t \in Users, LockList(t)
  PROVE  Atomic!AbsBreak \/ UNCHANGED Atomic!absVars
  <1>1. CASE Crash(t)
    BY <1>1, CrashRefines DEF LockList, Holding
  <1>2. CASE ~Crash(t)
    <2>1. /\ step[t] = "lock" /\ step' = [step EXCEPT ![t] = "use"]
          /\ UNCHANGED <<lists, lists_mutex, list, request, reply, before, caught, listCrash>>
      BY <1>2 DEF LockList
    <2>2. Found' = Found
      BY <2>1 DEF Found, IInv, TypeOK
    <2>3. lists_mutex # Nobody => step'[lists_mutex] = step[lists_mutex]
      BY <2>1 DEF IInv, TypeOK, OneReload, Loading
    <2>4. \A n \in Names : Current(n)' = Current(n)
      BY <2>1, <2>3, InvMeaning, InvMeaningNext DEF Meaning
    <2>5. QED BY <2>1, <2>2, <2>4, SameMeaning
  <1>3. QED BY <1>1, <1>2

(* The use of a list that is not freed is that of what its name stands for. *)
LEMMA UseRefines ==
  ASSUME IInv, IInv', NEW t \in Users, UseList(t)
  PROVE  Atomic!AbsUse(t) \/ Atomic!AbsBreak
  <1> DEFINE n == request[t].name
             x == request[t].number
             o == request[t].op
             i == bl[t]
  <1>1. CASE Crash(t)
    BY <1>1, CrashRefines DEF UseList, Holding
  <1>2. CASE ~Crash(t)
    <2>1. /\ step[t] = "use" /\ i \notin freed /\ request[t] \in Request
          /\ UNCHANGED <<lists, lists_mutex, before, listCrash>>
      BY <1>2 DEF UseList, IInv, ListOfCommand
    <2>2. n \in Names /\ x \in Numbers /\ o \in {"check", "add", "del"}
      BY <2>1 DEF Request
    <2>3. lists[n] = i /\ i # 0 /\ \A m \in Names : m # n => lists[m] # i
      BY <2>1, <2>2 DEF IInv, ListOfCommand, TableInUse, Holding
    <2>4. i \in ListIds
      BY <2>3, KnownLists DEF IInv
    <2>5. lists_mutex # Nobody => step[lists_mutex] = "free" /\ lists_mutex # t /\ lists_mutex \in Users
      BY <2>1 DEF IInv, TypeOK, OneReload, Holding, Loading
    <2>6. \E a : Writes(t, a)
      BY <1>2, <2>2 DEF UseList
    <2>7. step' = [step EXCEPT ![t] = "idle"]
      BY <2>6 DEF Writes
    <2>8. Found' = Found \ {t} /\ t \in Found
      BY <2>1, <2>7 DEF Found, IInv, TypeOK
    <2>9. lists_mutex # Nobody => step'[lists_mutex] = "free"
      BY <2>5, <2>7 DEF IInv, TypeOK
    <2>10. (Reloader # {})' = (Reloader # {})
      BY <2>1, InvMeaning, InvMeaningNext, Zenon DEF Meaning
    <2>11. Contents[n] = list[i] /\ \A m \in Names : Current(m)' =
             IF lists[m] = 0 THEN IF lists_mutex = Nobody THEN NoList ELSE before[m]
             ELSE list'[lists[m]]
      BY <2>1, <2>2, <2>3, <2>5, <2>9, InvMeaning, InvMeaningNext DEF Meaning, Contents
    <2>12. \A m \in Names : Contents[m] =
             IF lists[m] = 0 THEN IF lists_mutex = Nobody THEN NoList ELSE before[m]
             ELSE list[lists[m]]
      BY <2>5, InvMeaning DEF Meaning, Contents
    <2>13. Contents' = [m \in Names |-> Current(m)']
      BY DEF Contents
    <2>14. list \in [ListIds -> SUBSET Numbers] /\ \A m \in Names : lists[m] # 0 => lists[m] \in ListIds
      BY KnownLists DEF IInv, TypeOK
    <2>15. ASSUME NEW v, list' = [list EXCEPT ![i] = v]
           PROVE  Contents' = [Contents EXCEPT ![n] = v]
      <3>1. \A m \in Names : Current(m)' = IF m = n THEN v ELSE Contents[m]
        BY <2>2, <2>3, <2>4, <2>11, <2>12, <2>14, <2>15
      <3>2. QED BY <2>2, <2>13, <3>1 DEF Contents
    <2> HIDE DEF n, x, o, i
    <2>16. CASE o = "check"
      <3>1. Writes(t, IF x \in list[i] THEN "true" ELSE "false") /\ UNCHANGED list
        BY <1>2, <2>16 DEF UseList, n, x, o, i
      <3>2. Contents' = Contents
        BY <2>11, <2>12, <2>13, <3>1 DEF Contents
      <3>3. Atomic!Answers(t, IF x \in Contents[n] THEN "true" ELSE "false")
        BY <2>8, <2>11, <3>1 DEF Atomic!Answers, Writes, Found
      <3>4. QED
        BY <2>1, <2>8, <2>10, <2>16, <3>2, <3>3 DEF Atomic!AbsUse, Contents, Found, n, x, o, i
    <2>17. CASE o = "add"
      <3>1. Writes(t, "ok") /\ list' = [list EXCEPT ![i] = @ \cup {x}]
        BY <1>2, <2>17 DEF UseList, n, x, o, i
      <3>2. list' = [list EXCEPT ![i] = list[i] \cup {x}]
        BY <3>1
      <3>3. Contents' = [Contents EXCEPT ![n] = Contents[n] \cup {x}]
        BY <2>11, <2>15, <3>2
      <3>4. Atomic!Answers(t, "ok")
        BY <2>8, <3>1 DEF Atomic!Answers, Writes, Found
      <3>5. QED
        BY <2>1, <2>8, <2>10, <2>17, <3>3, <3>4 DEF Atomic!AbsUse, Contents, Found, n, x, o, i
    <2>18. CASE o = "del"
      <3>1. Writes(t, "ok") /\ list' = [list EXCEPT ![i] = @ \ {x}]
        BY <1>2, <2>18 DEF UseList, n, x, o, i
      <3>2. list' = [list EXCEPT ![i] = list[i] \ {x}]
        BY <3>1
      <3>3. Contents' = [Contents EXCEPT ![n] = Contents[n] \ {x}]
        BY <2>11, <2>15, <3>2
      <3>4. Atomic!Answers(t, "ok")
        BY <2>8, <3>1 DEF Atomic!Answers, Writes, Found
      <3>5. QED
        BY <2>1, <2>8, <2>10, <2>18, <3>3, <3>4 DEF Atomic!AbsUse, Contents, Found, n, x, o, i
    <2>19. QED BY <2>2, <2>16, <2>17, <2>18
  <1>3. QED BY <1>1, <1>2

LEMMA ReloadRefines ==
  ASSUME IInv, IInv', NEW t \in Users
  PROVE  /\ \A conf \in ListConfigs : BeginReload(t, conf) => Atomic!AbsReloadBegins
         /\ \A n \in Names : FreeList(t, n) => UNCHANGED Atomic!absVars
         /\ AllFreed(t) \/ LoadList(t) => UNCHANGED Atomic!absVars
         /\ EndReload(t) => Atomic!AbsReloadEnds
  <1>1. ASSUME NEW conf \in ListConfigs, BeginReload(t, conf) PROVE Atomic!AbsReloadBegins
    <2>1. /\ step[t] = "idle" /\ lists_mutex = Nobody /\ lists_mutex' = t /\ t # Nobody
          /\ step' = [step EXCEPT ![t] = "free"] /\ before' = [n \in Names |-> NoList]
          /\ caught' = Found
          /\ UNCHANGED <<lists, list, request, reply, listCrash>>
      BY <1>1, BlacklistAssumption DEF BlacklistAssumption, BeginReload, listVars, Found
    <2>2. Reloader = {} /\ Reloader' # {}
      BY <2>1, InvMeaning, InvMeaningNext DEF Meaning
    <2>3. Found' = Found /\ step'[t] = "free"
      BY <2>1 DEF Found, IInv, TypeOK
    <2>4. Contents' = Contents
      BY <2>1, <2>3, InvMeaning, InvMeaningNext DEF Contents, Meaning
    <2>5. QED BY <2>1, <2>2, <2>3, <2>4 DEF Atomic!AbsReloadBegins, Contents, Found
  <1>2. ASSUME NEW n \in Names, FreeList(t, n) PROVE UNCHANGED Atomic!absVars
    <2>1. /\ step[t] = "free" /\ lists_mutex = t /\ t # Nobody /\ lists[n] # 0
          /\ before' = [before EXCEPT ![n] = list[lists[n]]] /\ lists' = [lists EXCEPT ![n] = 0]
          /\ UNCHANGED <<lists_mutex, list, step, request, reply, caught, listCrash>>
      BY <1>2, BlacklistAssumption DEF BlacklistAssumption, FreeList, IInv, OneReload, Loading
    <2>2. Found' = Found
      BY <2>1 DEF Found
    <2>3. \A m \in Names :
            /\ lists'[m] = IF m = n THEN 0 ELSE lists[m]
            /\ before'[m] = IF m = n THEN list[lists[n]] ELSE before[m]
      BY <2>1 DEF IInv, TypeOK
    <2>4. \A m \in Names : Current(m)' = Current(m)
      BY <2>1, <2>3, InvMeaning, InvMeaningNext DEF Meaning
    <2>5. QED BY <2>1, <2>2, <2>4, SameMeaning
  <1>3. ASSUME AllFreed(t) \/ LoadList(t) PROVE UNCHANGED Atomic!absVars
    <2>1. /\ lists_mutex = t /\ t # Nobody /\ step[t] \in Loading
          /\ AllFreed(t) => \A n \in Names : lists[n] = 0
          /\ LoadList(t) => step[t] = "load"
          /\ step' = [step EXCEPT ![t] = "load"]
          /\ UNCHANGED <<lists_mutex, before, request, reply, caught, listCrash>>
      BY <1>3, BlacklistAssumption
      DEF BlacklistAssumption, AllFreed, LoadList, IInv, TypeOK, OneReload, Loading
    <2>2. Found' = Found /\ step'[t] = "load"
      BY <2>1 DEF Found, IInv, TypeOK, Loading
    <2>3. \A m \in Names : Current(m)' = Current(m)
      BY <1>3, <2>1, <2>2, InvMeaning, InvMeaningNext DEF Meaning
    <2>4. QED BY <2>1, <2>2, <2>3, SameMeaning
  <1>4. ASSUME EndReload(t) PROVE Atomic!AbsReloadEnds
    <2>1. /\ step[t] = "load" /\ lists_mutex = t /\ t # Nobody /\ lists_mutex' = Nobody
          /\ step' = [step EXCEPT ![t] = "idle"]
          /\ UNCHANGED <<lists, list, request, reply, caught, listCrash>>
      BY <1>4, BlacklistAssumption
      DEF BlacklistAssumption, EndReload, IInv, OneReload, Loading, listVars
    <2>2. Reloader # {} /\ Reloader' = {} /\ Found' = Found
      BY <2>1, InvMeaning, InvMeaningNext DEF Meaning, Found, IInv, TypeOK
    <2>3. \A m \in Names : Current(m)' \in (SUBSET Numbers) \cup {NoList}
      <3>1. \A m \in Names : lists[m] # 0 => lists[m] \in ListIds
        BY KnownLists DEF IInv
      <3>2. \A m \in Names : Current(m)' = IF lists[m] = 0 THEN NoList ELSE list[lists[m]]
        BY <2>1, InvMeaningNext DEF Meaning
      <3>3. QED BY <3>1, <3>2 DEF IInv, TypeOK
    <2>4. QED BY <2>1, <2>2, <2>3 DEF Atomic!AbsReloadEnds, Found
  <1>5. QED BY <1>1, <1>2, <1>3, <1>4

LEMMA StepRefines ==
  IInv /\ IInv' /\ [BlacklistNext]_blacklistVars => [Atomic!AbsNext]_Atomic!absVars
  <1> SUFFICES ASSUME IInv, IInv', [BlacklistNext]_blacklistVars
               PROVE  Atomic!AbsNext \/ UNCHANGED Atomic!absVars
    OBVIOUS
  <1>1. CASE BlacklistNext
    <2>1. PICK t \in Users :
            \/ \E op \in {"check", "add", "del"}, n \in Names, x \in Numbers :
                 BeginListCommand(t, op, n, x)
            \/ FindList(t) \/ LockList(t) \/ UseList(t)
            \/ \E conf \in ListConfigs : BeginReload(t, conf)
            \/ \E n \in Names : FreeList(t, n)
            \/ AllFreed(t) \/ LoadList(t) \/ EndReload(t)
      BY <1>1 DEF BlacklistNext
    <2>2. CASE \E op \in {"check", "add", "del"}, n \in Names, x \in Numbers :
                 BeginListCommand(t, op, n, x)
      BY <2>2, BeginRefines DEF Atomic!AbsNext
    <2>3. CASE FindList(t)
      BY <2>3, FindRefines DEF Atomic!AbsNext
    <2>4. CASE LockList(t)
      BY <2>4, LockRefines DEF Atomic!AbsNext
    <2>5. CASE UseList(t)
      BY <2>5, UseRefines DEF Atomic!AbsNext
    <2>6. CASE \/ \E conf \in ListConfigs : BeginReload(t, conf)
               \/ \E n \in Names : FreeList(t, n)
               \/ AllFreed(t) \/ LoadList(t) \/ EndReload(t)
      BY <2>6, ReloadRefines DEF Atomic!AbsNext
    <2>7. QED BY <2>1, <2>2, <2>3, <2>4, <2>5, <2>6
  <1>2. CASE UNCHANGED blacklistVars
    <2>1. UNCHANGED <<lists, lists_mutex, list, step, request, reply, before, caught, listCrash>>
      BY <1>2 DEF blacklistVars, listVars
    <2>2. Found' = Found /\ \A m \in Names : Current(m)' = Current(m)
      BY <2>1, InvMeaning, InvMeaningNext DEF Found, Meaning
    <2>3. QED BY <2>1, <2>2, SameMeaning
  <1>3. QED BY <1>1, <1>2

-----------------------------------------------------------------------------
(* Each check, add or del takes effect at one moment, on the lists of one   *)
(* reload, and the process only ends with a command that a reload overtook  *)
(* between its two mutexes.                                                 *)
THEOREM CommandsAreAtomic == BlacklistSpec => ImplementsAtomicLists
  <1>1. BlacklistSpec => Atomic!AbsSpec
    BY Inductive, InitRefines, StepRefines, PTL DEF BlacklistSpec, Atomic!AbsSpec
  <1>2. QED BY <1>1 DEF ImplementsAtomicLists

=============================================================================
