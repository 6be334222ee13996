------------------------------ MODULE EventRelay ------------------------------
(***************************************************************************)
(* What mod_amqp promises about the events it accepts: a relay of bounded  *)
(* size that, while it is open, hands the accepted events on one by one in *)
(* the order it took them, keeping an event whose hand-over failed; once   *)
(* closed it takes none and discards, oldest first, what it still holds.   *)
(***************************************************************************)
EXTENDS Naturals, Sequences

VARIABLES
  phase,        \* "new", then "open", then "closed"
  room,         \* how many events it may hold, fixed when it opens
  held,         \* the events accepted and not yet handed on, oldest first
  accepted, handedOn, dropped   \* how many of each

relayVars == <<phase, room, held, accepted, handedOn, dropped>>

RelayInit ==
  /\ phase = "new" /\ room = 0 /\ held = << >>
  /\ accepted = 0 /\ handedOn = 0 /\ dropped = 0

Open ==
  /\ phase = "new"
  /\ phase' = "open"
  /\ room' \in Nat \ {0}
  /\ UNCHANGED <<held, accepted, handedOn, dropped>>

Close ==
  /\ phase = "open"
  /\ phase' = "closed"
  /\ UNCHANGED <<room, held, accepted, handedOn, dropped>>

Accept ==
  /\ phase = "open"
  /\ Len(held) < room
  /\ held' = Append(held, accepted + 1)
  /\ accepted' = accepted + 1
  /\ UNCHANGED <<phase, room, handedOn, dropped>>

(* A hand-over may be under way when the relay is closed: it then completes. *)
HandOn ==
  /\ phase \in {"open", "closed"}
  /\ held # << >>
  /\ held' = Tail(held)
  /\ handedOn' = handedOn + 1
  /\ UNCHANGED <<phase, room, accepted, dropped>>

Discard ==
  /\ phase = "closed"
  /\ held # << >>
  /\ held' = Tail(held)
  /\ dropped' = dropped + 1
  /\ UNCHANGED <<phase, room, accepted, handedOn>>

RelayNext == Open \/ Close \/ Accept \/ HandOn \/ Discard

RelaySpec == RelayInit /\ [][RelayNext]_relayVars

=============================================================================
