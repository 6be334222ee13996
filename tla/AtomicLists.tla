------------------------------ MODULE AtomicLists ------------------------------
(***************************************************************************)
(* What the blacklist command promises: named sets of numbers, where a     *)
(* check, an add or a del takes effect at one moment and a reload replaces *)
(* everything at one moment. A command first finds its list and then uses  *)
(* it; what it may not survive is a reload in between.                     *)
(***************************************************************************)
CONSTANTS Users, Names, Numbers, NoList

VARIABLES
  contents,   \* of each name: NoList, or the numbers on the list
  command,    \* per user: [op, name, number], or << >>
  answer,     \* per user: what it was told
  found,      \* the users that found their list
  stale,      \* those of them that a reload came over
  reloading,  \* a reload is under way
  broken      \* the process ended

absVars == <<contents, command, answer, found, stale, reloading, broken>>

AbsInit ==
  /\ contents = [n \in Names |-> NoList]
  /\ command = [t \in Users |-> << >>] /\ answer = [t \in Users |-> "none"]
  /\ found = {} /\ stale = {} /\ reloading = FALSE /\ broken = FALSE

Answers(t, a) ==
  /\ answer' = [answer EXCEPT ![t] = a]
  /\ command' = [command EXCEPT ![t] = << >>]
  /\ found' = found \ {t} /\ stale' = stale \ {t}

AbsBegin(t, op, n, x) ==
  /\ command[t] = << >>
  /\ command' = [command EXCEPT ![t] = [op |-> op, name |-> n, number |-> x]]
  /\ answer' = [answer EXCEPT ![t] = "none"]
  /\ UNCHANGED <<contents, found, stale, reloading, broken>>

AbsFind(t) ==
  /\ command[t] # << >> /\ t \notin found /\ ~reloading
  /\ IF contents[command[t].name] = NoList
     THEN Answers(t, IF command[t].op = "check" THEN "false" ELSE "unknown")
     ELSE found' = found \cup {t} /\ UNCHANGED <<command, answer, stale>>
  /\ UNCHANGED <<contents, reloading, broken>>

AbsUse(t) ==
  /\ t \in found
  /\ LET n == command[t].name
         x == command[t].number IN
     CASE command[t].op = "check" ->
            /\ Answers(t, IF x \in contents[n] THEN "true" ELSE "false")
            /\ UNCHANGED contents
       [] command[t].op = "add" ->
            Answers(t, "ok") /\ contents' = [contents EXCEPT ![n] = @ \cup {x}]
       [] command[t].op = "del" ->
            Answers(t, "ok") /\ contents' = [contents EXCEPT ![n] = @ \ {x}]
  /\ UNCHANGED <<reloading, broken>>

AbsReloadBegins ==
  /\ ~reloading /\ reloading' = TRUE /\ stale' = found
  /\ UNCHANGED <<contents, command, answer, found, broken>>

AbsReloadEnds ==
  /\ reloading /\ reloading' = FALSE
  /\ contents' \in [Names -> (SUBSET Numbers) \cup {NoList}]
  /\ UNCHANGED <<command, answer, found, stale, broken>>

(* The process ends with a command that the reload overtook.                *)
AbsBreak ==
  /\ stale # {} /\ broken' = TRUE
  /\ UNCHANGED <<contents, command, answer, found, stale, reloading>>

AbsNext ==
  \/ \E t \in Users :
       \/ \E op \in {"check", "add", "del"}, n \in Names, x \in Numbers : AbsBegin(t, op, n, x)
       \/ AbsFind(t) \/ AbsUse(t)
  \/ AbsReloadBegins \/ AbsReloadEnds \/ AbsBreak

AbsSpec == AbsInit /\ [][AbsNext]_absVars

=============================================================================
