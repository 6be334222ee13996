-------------------------- MODULE AmqpCommandListener --------------------------
(***************************************************************************)
(* The command half of mod_amqp (src/aeriandi/mod_amqp/mod_amqp.c):        *)
(* mod_amqp_command_listener_thread declares a queue on the broker, waits  *)
(* for the commands sent to it and runs them.                              *)
(*                                                                         *)
(* It shares globals.amqpCommandConn with the thread that reloads the      *)
(* configuration, which closes and destroys the connection under a mutex   *)
(* the listener never takes.                                               *)
(*                                                                         *)
(* A connection is the number of its amqp_new_connection; using one that   *)
(* is NULL or destroyed is undefined behaviour and ends the model.         *)
(***************************************************************************)
EXTENDS Naturals, FiniteSets

CONSTANTS
  NULL,          \* globals.amqpCommandConn == NULL
  MaxConns,      \* bound: connections opened
  MaxCommands,   \* bound: commands the broker receives
  MaxChanges,    \* bound: changes of the broker's state
  MaxCloses      \* bound: calls of the "amqp" API

ASSUME ListenerAssumption ==
  /\ MaxConns \in Nat /\ MaxCommands \in Nat
  /\ MaxChanges \in Nat /\ MaxCloses \in Nat
  /\ NULL \notin Nat

VARIABLES
  keepRunning, \* globals.running
  commandConn, \* globals.amqpCommandConn
  opened,      \* connections opened so far
  live,        \* connections that are not destroyed
  healthy,     \* live connections whose session with the broker works
  subscribed,  \* the connection whose consumer the broker delivers to
  lpc, using,  \* the listener: where it is, the connection of its receive
  closer, closing,  \* a reload: where it is, the connection it closes
  up,          \* the broker takes connections
  inbox,       \* how many commands wait for the listener
  sent, executed, lost,  \* history: commands sent, run, and dropped
  changes, closes,  \* what the bounds count
  undefined    \* a NULL or destroyed connection was used

commandConnVars == <<commandConn, opened, live>>
inboxVars == <<subscribed, inbox, sent, executed, lost>>
listenerBounds == <<changes, closes>>
listenerVars == <<keepRunning, commandConnVars, healthy, inboxVars, lpc, using,
                  closer, closing, up, listenerBounds, undefined>>

ListenerInit ==
  /\ keepRunning = TRUE /\ commandConn = NULL /\ opened = 0
  /\ live = {} /\ healthy = {} /\ subscribed = NULL
  /\ lpc = "top" /\ using = NULL /\ closer = "idle" /\ closing = NULL
  /\ up \in BOOLEAN /\ inbox = 0
  /\ sent = 0 /\ executed = 0 /\ lost = 0
  /\ changes = 0 /\ closes = 0
  /\ undefined = FALSE

(* The exclusive, auto-deleted queue of a connection that ends goes with    *)
(* it, and the commands in it.                                              *)
EndSession(c) ==
  /\ healthy' = healthy \ {c}
  /\ IF subscribed = c
       THEN subscribed' = NULL /\ lost' = lost + inbox /\ inbox' = 0
       ELSE UNCHANGED <<subscribed, lost, inbox>>

Usable == commandConn \in live

(* A call of the client library on globals.amqpCommandConn: undefined when  *)
(* the connection is NULL or destroyed.                                     *)
BadCall(at) ==
  /\ lpc = at
  /\ ~Usable
  /\ undefined' = TRUE
  /\ UNCHANGED <<keepRunning, commandConnVars, healthy, inboxVars, lpc, using,
                 closer, closing, up, listenerBounds>>

(* Variant: the thread stops only on an error.                              *)
TopForever ==
  /\ lpc = "top"
  /\ lpc' = "open"
  /\ UNCHANGED <<keepRunning, commandConnVars, healthy, inboxVars, using,
                 closer, closing, up, listenerBounds, undefined>>

Top ==
  /\ lpc = "top"
  /\ lpc' = IF keepRunning THEN "open" ELSE "done"
  /\ UNCHANGED <<keepRunning, commandConnVars, healthy, inboxVars, using,
                 closer, closing, up, listenerBounds, undefined>>

(* Variant: it is called whether or not there is a connection.              *)
OpenConnectionAgain ==
  /\ lpc = "open" /\ up
  /\ lpc' = "declare"
  /\ opened < MaxConns
  /\ opened' = opened + 1
  /\ commandConn' = opened + 1
  /\ live' = live \cup {opened + 1}
  /\ healthy' = healthy \cup {opened + 1}
  /\ UNCHANGED <<keepRunning, inboxVars, using, closer, closing, up,
                 listenerBounds, undefined>>

(* openAmqpConnection, if there is no connection; its result is ignored.    *)
OpenConnection ==
  /\ lpc = "open"
  /\ lpc' = "declare"
  /\ \/ /\ commandConn = NULL /\ up
        /\ opened < MaxConns
        /\ opened' = opened + 1
        /\ commandConn' = opened + 1
        /\ live' = live \cup {opened + 1}
        /\ healthy' = healthy \cup {opened + 1}
     \/ /\ commandConn # NULL \/ ~up
        /\ UNCHANGED <<commandConnVars, healthy>>
  /\ UNCHANGED <<keepRunning, inboxVars, using, closer, closing, up,
                 listenerBounds, undefined>>

(* amqp_queue_declare and amqp_queue_bind: an error leaves the outer loop.  *)
DeclareAndBind ==
  /\ lpc \in {"declare", "bind"}
  /\ Usable
  /\ lpc' = CASE commandConn \notin healthy -> "done"
              [] lpc = "declare"     -> "bind"
              [] OTHER               -> "subscribe"
  /\ UNCHANGED <<keepRunning, commandConnVars, healthy, inboxVars, using,
                 closer, closing, up, listenerBounds, undefined>>

(* Variant: the reply is not looked at.                                     *)
SubscribeUnchecked ==
  /\ lpc = "subscribe"
  /\ Usable
  /\ subscribed' = commandConn
  /\ lpc' = "inner"
  /\ UNCHANGED <<keepRunning, commandConnVars, healthy, inbox, sent, executed,
                 lost, using, closer, closing, up, listenerBounds, undefined>>

(* amqp_basic_consume                                                       *)
Subscribe ==
  /\ lpc = "subscribe"
  /\ Usable
  /\ \/ /\ commandConn \in healthy
        /\ subscribed' = commandConn
        /\ lpc' = "inner"
     \/ /\ commandConn \notin healthy
        /\ lpc' = "done"
        /\ UNCHANGED subscribed
  /\ UNCHANGED <<keepRunning, commandConnVars, healthy, inbox, sent, executed,
                 lost, using, closer, closing, up, listenerBounds, undefined>>

(* Variant: the inner loop does not look at running.                        *)
InnerForever ==
  /\ lpc = "inner"
  /\ Usable
  /\ lpc' = "receive"
  /\ using' = commandConn
  /\ UNCHANGED <<keepRunning, commandConnVars, healthy, inboxVars, closer,
                 closing, up, listenerBounds, undefined>>

(* The inner loop: release the buffers and wait for a message.              *)
Inner ==
  /\ lpc = "inner"
  /\ \/ /\ ~keepRunning
        /\ lpc' = "closeChannel"
        /\ UNCHANGED using
     \/ /\ keepRunning
        /\ Usable
        /\ lpc' = "receive"
        /\ using' = commandConn
  /\ UNCHANGED <<keepRunning, commandConnVars, healthy, inboxVars, closer,
                 closing, up, listenerBounds, undefined>>

InnerBad == keepRunning /\ BadCall("inner")

(* Variant: a command that was delivered stays in the queue.                *)
ReceiveCommandAgain ==
  /\ lpc = "receive" /\ using \in live
  /\ using \in healthy /\ subscribed = using /\ inbox > 0
  /\ executed' = executed + 1
  /\ lpc' = "inner"
  /\ using' = NULL
  /\ UNCHANGED <<keepRunning, commandConnVars, healthy, subscribed, inbox,
                 sent, lost, closer, closing, up, listenerBounds, undefined>>

(* amqp_consume_message returned a delivery, which was acknowledged as it   *)
(* was sent (no_ack): the command runs in this thread, or is ignored when   *)
(* it is not plain text.                                                    *)
ReceiveCommand ==
  /\ lpc = "receive" /\ using \in live
  /\ using \in healthy /\ subscribed = using /\ inbox > 0
  /\ inbox' = inbox - 1
  /\ executed' = executed + 1
  /\ lpc' = "inner"
  /\ using' = NULL
  /\ UNCHANGED <<keepRunning, commandConnVars, healthy, subscribed, sent, lost,
                 closer, closing, up, listenerBounds, undefined>>

(* ... or a library exception: half a second without a message, or an error *)
(* of the connection, and it is called again.                               *)
ReceiveException ==
  /\ lpc = "receive" /\ using \in live
  /\ using \notin healthy \/ inbox = 0
  /\ lpc' = "inner"
  /\ using' = NULL
  /\ UNCHANGED <<keepRunning, commandConnVars, healthy, inboxVars, closer,
                 closing, up, listenerBounds, undefined>>

(* ... or another reply, which leaves the inner loop.                       *)
ReceiveOther ==
  /\ lpc = "receive" /\ using \in live
  /\ using \notin healthy
  /\ lpc' = "closeChannel"
  /\ using' = NULL
  /\ UNCHANGED <<keepRunning, commandConnVars, healthy, inboxVars, closer,
                 closing, up, listenerBounds, undefined>>

(* The connection was destroyed while the thread waited on it.              *)
ReceiveOnFreed ==
  /\ lpc = "receive" /\ using \notin live
  /\ undefined' = TRUE
  /\ UNCHANGED <<keepRunning, commandConnVars, healthy, inboxVars, lpc, using,
                 closer, closing, up, listenerBounds>>

(* amqp_channel_close and amqp_connection_close: an error goes back to the  *)
(* top with the connection as it is.                                        *)
CloseChannelOrConnection ==
  /\ lpc \in {"closeChannel", "closeConnection"}
  /\ Usable
  /\ \/ /\ commandConn \in healthy
        /\ lpc' = IF lpc = "closeChannel" THEN "closeConnection" ELSE "destroy"
     \/ /\ commandConn \notin healthy
        /\ lpc' = "top"
  /\ UNCHANGED <<keepRunning, commandConnVars, healthy, inboxVars, using,
                 closer, closing, up, listenerBounds, undefined>>

(* amqp_destroy_connection; amqpCommandConn keeps its value.                *)
Destroy ==
  /\ lpc = "destroy"
  /\ Usable
  /\ live' = live \ {commandConn}
  /\ EndSession(commandConn)
  /\ lpc' = "top"
  /\ UNCHANGED <<keepRunning, commandConn, opened, sent, executed, using,
                 closer, closing, up, listenerBounds, undefined>>

ListenerStep ==
  \/ Top \/ OpenConnection \/ DeclareAndBind \/ Subscribe \/ Inner
  \/ ReceiveCommand \/ ReceiveException \/ ReceiveOther \/ ReceiveOnFreed
  \/ CloseChannelOrConnection \/ Destroy
  \/ InnerBad
  \/ \E at \in {"declare", "bind", "subscribe", "closeChannel",
                "closeConnection", "destroy"} : BadCall(at)

-----------------------------------------------------------------------------
(* closeAmqpConnection(&globals.amqpCommandConn), called by a reload: the   *)
(* pointer is cleared first, the connection destroyed after a dialogue with *)
(* the broker.                                                              *)

ReloadTake ==
  /\ closer = "idle" /\ keepRunning
  /\ closes < MaxCloses
  /\ closes' = closes + 1
  /\ commandConn' = NULL
  /\ closing' = commandConn
  /\ closer' = IF commandConn = NULL THEN "idle" ELSE "close"
  /\ UNCHANGED <<keepRunning, opened, live, healthy, inboxVars, lpc, using, up,
                 changes, undefined>>

ReloadDestroy ==
  /\ closer = "close"
  /\ \/ /\ closing \in live
        /\ live' = live \ {closing}
        /\ EndSession(closing)
        /\ closing' = NULL
        /\ closer' = "idle"
        /\ UNCHANGED undefined
     \/ /\ closing \notin live
        /\ undefined' = TRUE
        /\ UNCHANGED <<live, healthy, subscribed, inbox, lost, closing, closer>>
  /\ UNCHANGED <<keepRunning, commandConn, opened, sent, executed, lpc, using,
                 up, listenerBounds>>

(* mod_amqp_shutdown clears `running`; the core lets no reload run by then. *)
Stop ==
  /\ keepRunning /\ closer = "idle"
  /\ keepRunning' = FALSE
  /\ UNCHANGED <<commandConnVars, healthy, inboxVars, lpc, using, closer,
                 closing, up, listenerBounds, undefined>>

(* The broker disconnects everybody, or comes back.                         *)
BrokerTurns ==
  /\ changes < MaxChanges
  /\ changes' = changes + 1
  /\ up' = ~up
  /\ healthy' = {}
  /\ subscribed' = NULL /\ inbox' = 0 /\ lost' = lost + inbox
  /\ UNCHANGED <<keepRunning, commandConnVars, sent, executed, lpc, using,
                 closer, closing, closes, undefined>>

(* Somebody publishes a command; without a queue the exchange drops it.     *)
SendCommand ==
  /\ up /\ sent < MaxCommands
  /\ sent' = sent + 1
  /\ IF subscribed # NULL THEN inbox' = inbox + 1 /\ UNCHANGED lost
                          ELSE lost' = lost + 1 /\ UNCHANGED inbox
  /\ UNCHANGED <<keepRunning, commandConnVars, healthy, subscribed, executed,
                 lpc, using, closer, closing, up, listenerBounds, undefined>>

ListenerNext ==
  /\ ~undefined
  /\ \/ ListenerStep \/ ReloadTake \/ ReloadDestroy \/ Stop
     \/ BrokerTurns \/ SendCommand

ListenerSpec == ListenerInit /\ [][ListenerNext]_listenerVars

(* The listener thread and a reload under way keep running.                 *)
ListenerFairSpec ==
  /\ ListenerSpec
  /\ WF_listenerVars(~undefined /\ ListenerStep)
  /\ WF_listenerVars(~undefined /\ ReloadDestroy)

-----------------------------------------------------------------------------
(* Properties                                                               *)

ConnIds == 1 .. MaxConns

ListenerTypeOK ==
  /\ keepRunning \in BOOLEAN /\ up \in BOOLEAN /\ undefined \in BOOLEAN
  /\ commandConn \in ConnIds \cup {NULL} /\ opened \in 0 .. MaxConns
  /\ live \subseteq ConnIds /\ healthy \subseteq live
  /\ subscribed \in healthy \cup {NULL}
  /\ lpc \in {"top", "open", "declare", "bind", "subscribe", "inner", "receive",
              "closeChannel", "closeConnection", "destroy", "done"}
  /\ using \in ConnIds \cup {NULL} /\ closing \in ConnIds \cup {NULL}
  /\ closer \in {"idle", "close"}
  /\ inbox \in Nat /\ sent \in Nat /\ executed \in Nat /\ lost \in Nat
  /\ changes \in Nat /\ closes \in Nat

(* A command runs at most once and none appears from nowhere, across        *)
(* disconnects, reloads and the loss of the listener's queue.               *)
EachCommandOnce == executed + inbox + lost = sent

(* Stopping the module ends the thread, whatever state its connection is    *)
(* in: it looks at `running` at least every half second.                    *)
ListenerStops == ~keepRunning ~> (lpc = "done" \/ undefined)

(* While the module runs at most one connection besides the one a reload    *)
(* is closing is open: reconnecting does not pile connections up.           *)
NoPileUp == Cardinality(live \ {closing}) <= 1

(* What the documentation says.                                             *)

(* "If the broker disconnects, the connection is retried": with the broker  *)
(* back for good the listener is subscribed again.                          *)
Resubscribes == <>[](up /\ keepRunning) => <>(subscribed # NULL \/ undefined)

=============================================================================
