------------------------------- MODULE Blacklist -------------------------------
(***************************************************************************)
(* mod_blacklist (src/mrene/mod_blacklist/mod_blacklist.c): the blacklist  *)
(* command, run by many threads, and its reload.                           *)
(*                                                                         *)
(* lists_mutex protects the table of the lists, each list has a mutex of   *)
(* its own. A command takes the list from the table under the first and    *)
(* uses it under the second, with nothing held in between; a reload holds  *)
(* only the first, frees every list and loads the new ones. The first load *)
(* of the module is a reload that finds the table empty.                   *)
(***************************************************************************)
EXTENDS Naturals, Sequences

CONSTANTS
  Users,        \* threads that run the command
  Names,        \* of lists
  Numbers,      \* what is on a list
  ListConfigs,  \* sequences of [name, opens, numbers]: what a reload reads, the
                \* file of a list among it, which may fail to open
  NoList,       \* what a name that is not in the table stands for: another set
  Nobody,       \* holds no mutex
  MaxLists,     \* bound: lists ever created
  MaxCommands,  \* bound: commands that begin
  MaxReloads    \* bound: reloads that begin

ListIds == 1 .. MaxLists

ASSUME BlacklistAssumption ==
  /\ Nobody \notin Users /\ ~(NoList \subseteq Numbers)
  /\ \A conf \in ListConfigs :
       conf \in Seq([name : Names, opens : BOOLEAN, numbers : SUBSET Numbers])
  /\ MaxLists \in Nat /\ MaxCommands \in Nat /\ MaxReloads \in Nat

VARIABLES
  lists,        \* globals.lists: of each name 0 or the list
  lists_mutex,  \* who holds it
  list,         \* of each list its numbers
  list_mutex,   \* of each list: who holds it
  freed,        \* the lists whose pool was destroyed
  created,      \* lists created
  step,         \* per user: where it is
  request,      \* per user: [op, name, number], or << >>
  bl,           \* per user: the list it took from the table
  reply,        \* per user: what the command wrote
  toLoad,       \* what the reload has still to load
  before,       \* history: what the lists held when the reload freed them
  caught,       \* history: users that held a list when a reload began
  begun,        \* commands and reloads that began
  listCrash     \* a freed list was used

listVars == <<list, list_mutex, freed, created>>
blacklistVars == <<lists, lists_mutex, listVars, step, request, bl, reply, toLoad,
                   before, caught, begun, listCrash>>

BlacklistInit ==
  /\ lists = [n \in Names |-> 0] /\ lists_mutex = Nobody
  /\ list = [i \in ListIds |-> {}] /\ list_mutex = [i \in ListIds |-> Nobody]
  /\ freed = {} /\ created = 0
  /\ step = [t \in Users |-> "idle"] /\ request = [t \in Users |-> << >>]
  /\ bl = [t \in Users |-> 0] /\ reply = [t \in Users |-> "none"]
  /\ toLoad = << >> /\ before = [n \in Names |-> NoList] /\ caught = {}
  /\ begun = [commands |-> 0, reloads |-> 0] /\ listCrash = FALSE

(* The command is over.                                                     *)
Writes(t, text) ==
  /\ reply' = [reply EXCEPT ![t] = text]
  /\ step' = [step EXCEPT ![t] = "idle"]
  /\ request' = [request EXCEPT ![t] = << >>]
  /\ bl' = [bl EXCEPT ![t] = 0]
  /\ caught' = caught \ {t}

-----------------------------------------------------------------------------
(* check, add and del                                                       *)

BeginListCommand(t, op, n, x) ==
  /\ ~listCrash /\ step[t] = "idle"
  /\ begun.commands < MaxCommands
  /\ begun' = [begun EXCEPT !.commands = @ + 1]
  /\ request' = [request EXCEPT ![t] = [op |-> op, name |-> n, number |-> x]]
  /\ reply' = [reply EXCEPT ![t] = "none"]
  /\ step' = [step EXCEPT ![t] = "find"]
  /\ UNCHANGED <<lists, lists_mutex, listVars, bl, toLoad, before, caught, listCrash>>

(* The table is read under lists_mutex, which is let go again.              *)
FindList(t) ==
  /\ ~listCrash /\ step[t] = "find"
  /\ lists_mutex = Nobody
  /\ IF lists[request[t].name] = 0
     THEN Writes(t, IF request[t].op = "check" THEN "false" ELSE "unknown")
     ELSE /\ bl' = [bl EXCEPT ![t] = lists[request[t].name]]
          /\ step' = [step EXCEPT ![t] = "lock"]
          /\ UNCHANGED <<request, reply, caught>>
  /\ UNCHANGED <<lists, lists_mutex, listVars, toLoad, before, begun, listCrash>>

Crash(t) ==
  /\ bl[t] \in freed
  /\ listCrash' = TRUE
  /\ UNCHANGED <<lists, lists_mutex, listVars, step, request, bl, reply, toLoad, before,
                 caught, begun>>

LockList(t) ==
  /\ ~listCrash /\ step[t] = "lock"
  /\ \/ Crash(t)
     \/ /\ bl[t] \notin freed /\ list_mutex[bl[t]] = Nobody
        /\ list_mutex' = [list_mutex EXCEPT ![bl[t]] = t]
        /\ step' = [step EXCEPT ![t] = "use"]
        /\ UNCHANGED <<lists, lists_mutex, list, freed, created, request, bl, reply,
                       toLoad, before, caught, begun, listCrash>>

(* The numbers are looked at or changed, and the mutex let go.              *)
UseList(t) ==
  /\ ~listCrash /\ step[t] = "use"
  /\ \/ Crash(t)
     \/ /\ bl[t] \notin freed
        /\ LET x == request[t].number
               held == list[bl[t]] IN
           CASE request[t].op = "check" ->
                  /\ Writes(t, IF x \in held THEN "true" ELSE "false")
                  /\ UNCHANGED list
             [] request[t].op = "add" ->
                  Writes(t, "ok") /\ list' = [list EXCEPT ![bl[t]] = @ \cup {x}]
             [] request[t].op = "del" ->
                  Writes(t, "ok") /\ list' = [list EXCEPT ![bl[t]] = @ \ {x}]
        /\ list_mutex' = [list_mutex EXCEPT ![bl[t]] = Nobody]
        /\ UNCHANGED <<lists, lists_mutex, freed, created, toLoad, before, begun,
                       listCrash>>

-----------------------------------------------------------------------------
(* reload: do_config                                                        *)

(* The configuration was read before lists_mutex is taken, and may be older *)
(* than the one in place.                                                   *)
BeginReload(t, conf) ==
  /\ ~listCrash /\ step[t] = "idle"
  /\ begun.reloads < MaxReloads /\ created + Len(conf) <= MaxLists
  /\ lists_mutex = Nobody
  /\ lists_mutex' = t
  /\ begun' = [begun EXCEPT !.reloads = @ + 1]
  /\ toLoad' = conf
  /\ before' = [n \in Names |-> NoList]
  /\ caught' = {u \in Users : step[u] \in {"lock", "use"}}
  /\ step' = [step EXCEPT ![t] = "free"]
  /\ UNCHANGED <<lists, listVars, request, bl, reply, listCrash>>

(* Any list of the table: its pool goes, whoever holds its mutex.           *)
FreeList(t, n) ==
  /\ ~listCrash /\ step[t] = "free"
  /\ lists[n] # 0
  /\ freed' = freed \cup {lists[n]}
  /\ before' = [before EXCEPT ![n] = list[lists[n]]]
  /\ lists' = [lists EXCEPT ![n] = 0]
  /\ UNCHANGED <<lists_mutex, list, list_mutex, created, step, request, bl, reply,
                 toLoad, caught, begun, listCrash>>

(* Variant: the mutex is let go once the old lists are gone.                *)
AllFreedUnlocks(t) ==
  /\ ~listCrash /\ step[t] = "free"
  /\ \A n \in Names : lists[n] = 0
  /\ step' = [step EXCEPT ![t] = "load"]
  /\ lists_mutex' = Nobody
  /\ UNCHANGED <<lists, listVars, request, bl, reply, toLoad, before, caught, begun,
                 listCrash>>

AllFreed(t) ==
  /\ ~listCrash /\ step[t] = "free"
  /\ \A n \in Names : lists[n] = 0
  /\ step' = [step EXCEPT ![t] = "load"]
  /\ UNCHANGED <<lists, lists_mutex, listVars, request, bl, reply, toLoad, before,
                 caught, begun, listCrash>>

(* load_list: without its file a list is created and forgotten, and a       *)
(* second list of a name takes the place of the first.                      *)
LoadList(t) ==
  /\ ~listCrash /\ step[t] = "load" /\ toLoad # << >>
  /\ created' = created + 1
  /\ IF Head(toLoad).opens
     THEN /\ list' = [list EXCEPT ![created'] = Head(toLoad).numbers]
          /\ lists' = [lists EXCEPT ![Head(toLoad).name] = created']
     ELSE UNCHANGED <<list, lists>>
  /\ toLoad' = Tail(toLoad)
  /\ UNCHANGED <<lists_mutex, list_mutex, freed, step, request, bl, reply, before,
                 caught, begun, listCrash>>

EndReload(t) ==
  /\ ~listCrash /\ step[t] = "load" /\ toLoad = << >>
  /\ lists_mutex' = Nobody
  /\ step' = [step EXCEPT ![t] = "idle"]
  /\ UNCHANGED <<lists, listVars, request, bl, reply, toLoad, before, caught, begun,
                 listCrash>>

BlacklistNext ==
  \E t \in Users :
    \/ \E op \in {"check", "add", "del"}, n \in Names, x \in Numbers :
         BeginListCommand(t, op, n, x)
    \/ FindList(t) \/ LockList(t) \/ UseList(t)
    \/ \E conf \in ListConfigs : BeginReload(t, conf)
    \/ \E n \in Names : FreeList(t, n)
    \/ AllFreed(t) \/ LoadList(t) \/ EndReload(t)

BlacklistSpec == BlacklistInit /\ [][BlacklistNext]_blacklistVars

-----------------------------------------------------------------------------
(* Properties                                                               *)

Reloader == {t \in Users : step[t] \in {"free", "load"}}

(* What a name stands for: during a reload what it stood for before, also   *)
(* while its list is gone and when the new one is there already.            *)
Current(n) ==
  IF \/ \E t \in Reloader : step[t] = "load"
     \/ Reloader # {} /\ lists[n] = 0 THEN before[n]
  ELSE IF lists[n] = 0 THEN NoList ELSE list[lists[n]]

Atomic == INSTANCE AtomicLists WITH
  contents  <- [n \in Names |-> Current(n)],
  command   <- request,
  answer    <- reply,
  found     <- {t \in Users : step[t] \in {"lock", "use"}},
  stale     <- caught,
  reloading <- Reloader # {},
  broken    <- listCrash

(* Every command takes effect at one moment and a reload at one moment: no  *)
(* command sees a list half loaded, or none where there was one before and  *)
(* after, and no add is lost but by the reload that comes after it. Only a  *)
(* command that a reload overtakes can meet a freed list.                   *)
ImplementsAtomicLists == Atomic!AbsSpec

=============================================================================
