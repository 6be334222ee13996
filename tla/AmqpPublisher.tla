---------------------------- MODULE AmqpPublisher ----------------------------
(***************************************************************************)
(* The publishing half of mod_amqp (src/aeriandi/mod_amqp/mod_amqp.c).     *)
(*                                                                         *)
(* FreeSWITCH's dispatch threads call mod_AMQP_event_handler, which pushes *)
(* a message on a bounded queue or trips a circuit breaker; one consumer   *)
(* thread pops the messages and publishes them on an AMQP connection that  *)
(* it opens and reopens; the "amqp" API reloads the configuration, closing *)
(* the connection under the consumer's feet; unloading the module stops    *)
(* the consumer and joins it. The command listener is here only as far as  *)
(* the others notice it: AmqpCommandListener models the rest.              *)
(*                                                                         *)
(* A message is the number of its push: 1 for the first accepted message,  *)
(* 2 for the next, and so on.                                              *)
(***************************************************************************)
EXTENDS Naturals, Sequences

CONSTANTS
  Dispatchers,      \* the core's event dispatch threads
  Reloaders,        \* threads that may run the "amqp" API
  HostList,         \* the configured amqpHostnames, a sequence of hosts
  DefaultHost,      \* the host a failed parse of the configuration installs
  ConfiguredSize,   \* the configured amqpSendQueueSize
  DefaultSize,      \* the size a failed parse installs (500 in the code)
  BreakerTicks,     \* circuit_breaker_ms, in clock ticks
  NoConn,           \* the NULL connection
  NoMsg,            \* the consumer's msg == NULL
  None,             \* nobody holds the mutex
  Consumer,         \* mod_amqp_event_consumer_thread
  MaxEvents,        \* bound: handler invocations
  MaxTime,          \* bound: clock ticks
  MaxFlaps,         \* bound: changes of a broker's state
  MaxReloads        \* bound: calls of the "amqp" API

Hosts == {HostList[i] : i \in DOMAIN HostList} \cup {DefaultHost}

ASSUME SizesAssumption ==
  /\ ConfiguredSize \in Nat \ {0}
  /\ DefaultSize \in Nat \ {0}
  /\ BreakerTicks \in Nat

ASSUME BoundsAssumption ==
  /\ MaxEvents \in Nat
  /\ MaxTime \in Nat
  /\ MaxFlaps \in Nat
  /\ MaxReloads \in Nat

ASSUME NamesAssumption ==
  /\ HostList \in Seq(Hosts)
  /\ HostList # << >>
  /\ NoConn \notin Hosts
  /\ NoMsg \notin Nat
  /\ Consumer \notin Reloaders
  /\ None \notin Reloaders \cup {Consumer}

VARIABLES
  main,        \* where the module's load and shutdown functions are
  running,     \* globals.running
  bindings,    \* how often mod_AMQP_event_handler is bound to each event
  capacity,    \* the size the queue was created with, 0 before that
  queueSize,   \* globals.amqpSendQueueSize
  queue,       \* globals.amqp_send_queue
  hpc, hnow,   \* per dispatcher: where it is in the handler, its `now`
  resetTime,   \* globals.circuit_breaker_reset_time
  overlap,     \* history: the dispatchers that were past the test of the
               \* breaker when it was last tripped by another
  clock,       \* switch_time_now()
  cpc, msg,    \* the consumer: where it is, its msg
  toPop,       \* the consumer's to_pop while it empties the queue
  mutex,       \* who holds globals.amqp_connection_mutex
  conn, alive, \* globals.amqpEventConn, and whether its session still works
  hostnames,   \* the list left in globals.amqpHostnames
  trying,      \* the hosts the consumer's openAmqpConnection goes through
  broker,      \* the state of the broker on each host
  command,     \* the command listener's thread
  rpc,         \* per reloader: where it is in do_config
  raised, flaps, reloads,  \* what the bounds count
  pushed,      \* history: messages accepted by the queue
  published,   \* history: messages amqp_basic_publish took
  discarded,   \* history: messages freed unsent while stopping
  leaked,      \* history: messages allocated and never freed
  crashed      \* the process dereferenced a NULL connection or queue

handlerVars == <<hpc, hnow, resetTime, overlap, leaked>>
asideVars   == <<clock, command>>
queueVars   == <<queue, pushed>>
consumeVars == <<msg, toPop, published, discarded>>
connVars    == <<mutex, conn, alive>>
hostVars    == <<hostnames, trying, broker>>
configVars  == <<bindings, queueSize>>
mainVars    == <<main, running, capacity>>
boundVars   == <<raised, flaps, reloads>>
vars == <<handlerVars, asideVars, queueVars, cpc, consumeVars, connVars,
          hostVars, configVars, mainVars, rpc, boundVars, crashed>>

-----------------------------------------------------------------------------
(* The module starts unloaded, with its globals zeroed.                     *)

Init ==
  /\ main = "config" /\ running = FALSE /\ capacity = 0
  /\ bindings = 0 /\ queueSize = ConfiguredSize
  /\ queue = << >> /\ pushed = 0
  /\ hpc = [d \in Dispatchers |-> "idle"] /\ hnow = [d \in Dispatchers |-> 0]
  /\ resetTime = 0 /\ overlap = {} /\ clock = 0 /\ leaked = 0
  /\ cpc = "unborn" /\ msg = NoMsg /\ toPop = 0
  /\ published = 0 /\ discarded = 0
  /\ mutex = None /\ conn = NoConn /\ alive = FALSE
  /\ hostnames = HostList /\ trying = << >>
  /\ broker \in [Hosts -> {"up", "down"}]
  /\ command = "unborn" /\ rpc = [r \in Reloaders |-> "idle"]
  /\ raised = 0 /\ flaps = 0 /\ reloads = 0
  /\ crashed = FALSE

(* Variant: the wake-up is forgotten.                                       *)
WakeNobody == UNCHANGED cpc

(* A pop that waits is told to look again: by a push, by                    *)
(* switch_queue_interrupt_all, or by nobody (a spurious wake-up).           *)
WakeConsumer == cpc' = IF cpc = "waiting" THEN "woken" ELSE cpc

HandlersOut == \A d \in Dispatchers : hpc[d] = "idle"

-----------------------------------------------------------------------------
(* mod_amqp_load                                                            *)

(* do_config(SWITCH_FALSE): its result is ignored; a configuration that is  *)
(* refused binds nothing, and one that cannot be parsed installs defaults.  *)
LoadConfig ==
  /\ main = "config"
  /\ main' = "create"
  /\ \/ /\ bindings' = 1
        /\ UNCHANGED <<queueSize, hostnames>>
     \/ UNCHANGED <<bindings, queueSize, hostnames>>
     \/ /\ queueSize' = DefaultSize
        /\ hostnames' = <<DefaultHost>>
        /\ UNCHANGED bindings
  /\ UNCHANGED <<handlerVars, asideVars, queueVars, cpc, consumeVars, connVars,
                 trying, broker, running, capacity, rpc, boundVars, crashed>>

LoadCreateQueue ==
  /\ main = "create"
  /\ main' = "start"
  /\ capacity' = queueSize
  /\ UNCHANGED <<handlerVars, asideVars, queueVars, cpc, consumeVars, connVars,
                 hostVars, configVars, running, rpc, boundVars, crashed>>

LoadStart ==
  /\ main = "start"
  /\ main' = "loaded"
  /\ running' = TRUE
  /\ cpc' = "top"
  /\ command' = "open"
  /\ UNCHANGED <<handlerVars, clock, queueVars, consumeVars, connVars, hostVars,
                 configVars, capacity, rpc, boundVars, crashed>>

-----------------------------------------------------------------------------
(* mod_AMQP_event_handler, called by the core with its event lock held for  *)
(* reading: an unbind waits until no handler is running.                    *)

HandlerEnter(d) ==
  /\ hpc[d] = "idle"
  /\ bindings > 0
  /\ raised < MaxEvents
  /\ raised' = raised + 1
  /\ hnow' = [hnow EXCEPT ![d] = clock]
  /\ hpc' = [hpc EXCEPT ![d] = "check"]
  /\ overlap' = overlap \ {d}
  /\ UNCHANGED <<resetTime, leaked, asideVars, queueVars, cpc, consumeVars,
                 connVars, hostVars, configVars, mainVars, rpc, flaps, reloads,
                 crashed>>

(* Variants: the handler does not look at running, or at the breaker.       *)
HandlerCheckNotRunning(d) ==
  /\ hpc[d] = "check"
  /\ hpc' = [hpc EXCEPT ![d] =
               IF hnow[d] < resetTime THEN "idle" ELSE "push"]
  /\ UNCHANGED <<hnow, resetTime, overlap, leaked, asideVars, queueVars,
                 cpc, consumeVars, connVars, hostVars, configVars, mainVars,
                 rpc, boundVars, crashed>>

HandlerCheckNoBreaker(d) ==
  /\ hpc[d] = "check"
  /\ hpc' = [hpc EXCEPT ![d] = IF ~running THEN "idle" ELSE "push"]
  /\ UNCHANGED <<hnow, resetTime, overlap, leaked, asideVars, queueVars,
                 cpc, consumeVars, connVars, hostVars, configVars, mainVars,
                 rpc, boundVars, crashed>>

HandlerCheck(d) ==
  /\ hpc[d] = "check"
  /\ hpc' = [hpc EXCEPT ![d] =
               IF ~running \/ hnow[d] < resetTime THEN "idle" ELSE "push"]
  /\ UNCHANGED <<hnow, resetTime, overlap, leaked, asideVars, queueVars,
                 cpc, consumeVars, connVars, hostVars, configVars, mainVars,
                 rpc, boundVars, crashed>>

(* switch_queue_trypush: the message was allocated before it, and a message *)
(* the queue refuses is never freed.                                        *)
HandlerPush(d) ==
  /\ hpc[d] = "push"
  /\ \/ /\ capacity = 0
        /\ crashed' = TRUE
        /\ UNCHANGED <<hpc, leaked, queueVars, cpc>>
     \/ /\ capacity > 0
        /\ Len(queue) < capacity
        /\ queue' = Append(queue, pushed + 1)
        /\ pushed' = pushed + 1
        /\ WakeConsumer
        /\ hpc' = [hpc EXCEPT ![d] = "idle"]
        /\ UNCHANGED <<leaked, crashed>>
     \/ /\ capacity > 0
        /\ Len(queue) >= capacity
        /\ leaked' = leaked + 1
        /\ hpc' = [hpc EXCEPT ![d] = "trip"]
        /\ UNCHANGED <<queueVars, cpc, crashed>>
  /\ UNCHANGED <<hnow, resetTime, overlap, asideVars, consumeVars, connVars,
                 hostVars, configVars, mainVars, rpc, boundVars>>

HandlerTrip(d) ==
  /\ hpc[d] = "trip"
  /\ resetTime' = hnow[d] + BreakerTicks
  /\ overlap' = {e \in Dispatchers \ {d} : hpc[e] \in {"push", "trip"}}
  /\ hpc' = [hpc EXCEPT ![d] = "idle"]
  /\ UNCHANGED <<hnow, leaked, asideVars, queueVars, cpc, consumeVars, connVars,
                 hostVars, configVars, mainVars, rpc, boundVars, crashed>>

Handler(d) ==
  HandlerEnter(d) \/ HandlerCheck(d) \/ HandlerPush(d) \/ HandlerTrip(d)

-----------------------------------------------------------------------------
(* mod_amqp_event_consumer_thread                                           *)

ConsumerTop ==
  /\ cpc = "top"
  /\ cpc' = IF running THEN "connected?" ELSE "abort"
  /\ UNCHANGED <<handlerVars, asideVars, queueVars, consumeVars, connVars,
                 hostVars, configVars, mainVars, rpc, boundVars, crashed>>

ConsumerConnected ==
  /\ cpc = "connected?"
  /\ cpc' = CASE conn = NoConn               -> "bounce"
              [] conn # NoConn /\ msg = NoMsg -> "pop"
              [] OTHER                        -> "send"
  /\ UNCHANGED <<handlerVars, asideVars, queueVars, consumeVars, connVars,
                 hostVars, configVars, mainVars, rpc, boundVars, crashed>>

(* Variant: the list of hosts is used up.                                   *)
TokenizeConsumesHosts == hostnames' = Tail(hostnames)

(* strtok_r ends the list in amqpHostnames behind its first name; the       *)
(* caller goes on through the names that followed it.                       *)
Tokenize == hostnames' = <<Head(hostnames)>>

(* bounce_connection, up to the first amqp_socket_open.                     *)
BounceLock ==
  /\ cpc = "bounce"
  /\ mutex = None
  /\ mutex' = Consumer
  /\ conn' = NoConn /\ alive' = FALSE
  /\ trying' = hostnames
  /\ Tokenize
  /\ cpc' = "open"
  /\ UNCHANGED <<handlerVars, asideVars, queueVars, consumeVars, broker,
                 configVars, mainVars, rpc, boundVars, crashed>>

(* The hosts are tried in turn until one takes a TCP connection.            *)
FirstReachable(i) ==
  /\ broker[trying[i]] # "down"
  /\ \A j \in 1 .. i - 1 : broker[trying[j]] = "down"

(* Variant: a failed attempt returns with the mutex held.                   *)
BounceOpenKeepsMutex ==
  /\ cpc = "open"
  /\ IF broker[Head(trying)] = "up"
       THEN conn' = Head(trying) /\ alive' = TRUE /\ mutex' = None
       ELSE UNCHANGED <<conn, alive, mutex>>
  /\ trying' = << >>
  /\ cpc' = "top"
  /\ UNCHANGED <<handlerVars, asideVars, queueVars, consumeVars, hostnames,
                 broker, configVars, mainVars, rpc, boundVars, crashed>>

(* openAmqpConnection, from the first connect on: a host that takes the     *)
(* connection but not the login ends the attempt. (The connection object of *)
(* an attempt that fails is never destroyed; nothing here counts it.)       *)
BounceOpen ==
  /\ cpc = "open"
  /\ \/ \E i \in DOMAIN trying :
          /\ FirstReachable(i)
          /\ broker[trying[i]] = "up"
          /\ conn' = trying[i]
          /\ alive' = TRUE
     \/ /\ \A i \in DOMAIN trying :
             FirstReachable(i) => broker[trying[i]] # "up"
        /\ UNCHANGED <<conn, alive>>
  /\ trying' = << >>
  /\ mutex' = None
  /\ cpc' = "top"
  /\ UNCHANGED <<handlerVars, asideVars, queueVars, consumeVars, hostnames,
                 broker, configVars, mainVars, rpc, boundVars, crashed>>

(* switch_queue_pop                                                         *)
ConsumerPop ==
  /\ cpc = "pop"
  /\ \/ /\ queue # << >>
        /\ msg' = Head(queue)
        /\ queue' = Tail(queue)
        /\ cpc' = "send"
     \/ /\ queue = << >>
        /\ cpc' = "waiting"
        /\ UNCHANGED <<msg, queue>>
  /\ UNCHANGED <<handlerVars, asideVars, pushed, toPop, published, discarded,
                 connVars, hostVars, configVars, mainVars, rpc, boundVars,
                 crashed>>

ConsumerWoken ==
  /\ cpc = "woken"
  /\ \/ /\ queue # << >>
        /\ msg' = Head(queue)
        /\ queue' = Tail(queue)
        /\ cpc' = "send"
     \/ /\ queue = << >>
        /\ cpc' = "top"
        /\ UNCHANGED <<msg, queue>>
  /\ UNCHANGED <<handlerVars, asideVars, pushed, toPop, published, discarded,
                 connVars, hostVars, configVars, mainVars, rpc, boundVars,
                 crashed>>

SpuriousWake ==
  /\ cpc = "waiting"
  /\ WakeConsumer
  /\ UNCHANGED <<handlerVars, asideVars, queueVars, consumeVars, connVars,
                 hostVars, configVars, mainVars, rpc, boundVars, crashed>>

(* mod_amqp_send: amqpEventConn is tested before the mutex is taken and     *)
(* used, untested, after.                                                   *)
SendTest ==
  /\ cpc = "send"
  /\ cpc' = IF conn = NoConn THEN "top" ELSE "lock"
  /\ UNCHANGED <<handlerVars, asideVars, queueVars, consumeVars, connVars,
                 hostVars, configVars, mainVars, rpc, boundVars, crashed>>

SendLock ==
  /\ cpc = "lock"
  /\ mutex = None
  /\ mutex' = Consumer
  /\ cpc' = "publish"
  /\ UNCHANGED <<handlerVars, asideVars, queueVars, consumeVars, conn, alive,
                 hostVars, configVars, mainVars, rpc, boundVars, crashed>>

(* Variant: msg is not reset after it was sent.                             *)
PublishTakesKeepsMsg ==
  /\ cpc = "publish"
  /\ conn # NoConn
  /\ published' = published + 1
  /\ mutex' = None
  /\ cpc' = "top"
  /\ UNCHANGED <<handlerVars, asideVars, queueVars, msg, toPop, discarded,
                 conn, alive, hostVars, configVars, mainVars, rpc, boundVars,
                 crashed>>

(* amqp_basic_publish took the message, and the consumer frees it: on a     *)
(* dead session it may still, the bytes going no further than the socket.   *)
PublishTakes ==
  /\ cpc = "publish"
  /\ conn # NoConn
  /\ published' = published + 1
  /\ msg' = NoMsg
  /\ mutex' = None
  /\ cpc' = "top"
  /\ UNCHANGED <<handlerVars, asideVars, queueVars, toPop, discarded, conn,
                 alive, hostVars, configVars, mainVars, rpc, boundVars,
                 crashed>>

(* The connection is closed on any error of amqp_basic_publish: one of a    *)
(* session that had ended, or a new one, which counts as a flap.            *)
SessionFails ==
  /\ alive => flaps < MaxFlaps
  /\ flaps' = IF alive THEN flaps + 1 ELSE flaps
  /\ conn' = NoConn /\ alive' = FALSE

(* Variant: a message that could not be sent is dropped.                    *)
PublishFailsDropsMsg ==
  /\ cpc = "publish"
  /\ conn # NoConn
  /\ SessionFails
  /\ msg' = NoMsg
  /\ mutex' = None
  /\ cpc' = "top"
  /\ UNCHANGED <<handlerVars, asideVars, queueVars, toPop, published, discarded,
                 hostVars, configVars, mainVars, rpc, raised, reloads, crashed>>

(* amqp_basic_publish returned an error: the message is kept for the next   *)
(* connection.                                                              *)
PublishFails ==
  /\ cpc = "publish"
  /\ conn # NoConn
  /\ SessionFails
  /\ mutex' = None
  /\ cpc' = "top"
  /\ UNCHANGED <<handlerVars, asideVars, queueVars, consumeVars, hostVars,
                 configVars, mainVars, rpc, raised, reloads, crashed>>

(* The connection was closed between the test and the lock.                 *)
PublishOnNull ==
  /\ cpc = "publish"
  /\ conn = NoConn
  /\ crashed' = TRUE
  /\ UNCHANGED <<handlerVars, asideVars, queueVars, cpc, consumeVars, connVars,
                 hostVars, configVars, mainVars, rpc, boundVars>>

(* After the loop: the current message is freed, ...                        *)
AbortMessage ==
  /\ cpc = "abort"
  /\ discarded' = IF msg = NoMsg THEN discarded ELSE discarded + 1
  /\ msg' = NoMsg
  /\ cpc' = "close"
  /\ UNCHANGED <<handlerVars, asideVars, queueVars, toPop, published, connVars,
                 hostVars, configVars, mainVars, rpc, boundVars, crashed>>

(* Variant: one message too few is taken out of a full queue.               *)
CloseConnectionOneLess ==
  /\ cpc = "close"
  /\ mutex = None
  /\ conn' = NoConn /\ alive' = FALSE
  /\ toPop' = queueSize - 1
  /\ cpc' = "drain"
  /\ UNCHANGED <<handlerVars, asideVars, queueVars, msg, published, discarded,
                 mutex, hostVars, configVars, mainVars, rpc, boundVars,
                 crashed>>

(* ... the connection closed under the mutex, ...                           *)
CloseConnection ==
  /\ cpc = "close"
  /\ mutex = None
  /\ conn' = NoConn /\ alive' = FALSE
  /\ toPop' = queueSize
  /\ cpc' = "drain"
  /\ UNCHANGED <<handlerVars, asideVars, queueVars, msg, published, discarded,
                 mutex, hostVars, configVars, mainVars, rpc, boundVars,
                 crashed>>

(* ... and at most amqpSendQueueSize messages popped and freed.             *)
DrainOne ==
  /\ cpc = "drain"
  /\ toPop > 0
  /\ queue # << >>
  /\ queue' = Tail(queue)
  /\ toPop' = toPop - 1
  /\ discarded' = discarded + 1
  /\ UNCHANGED <<handlerVars, asideVars, pushed, cpc, msg, published, connVars,
                 hostVars, configVars, mainVars, rpc, boundVars, crashed>>

DrainEnd ==
  /\ cpc = "drain"
  /\ toPop = 0 \/ queue = << >>
  /\ cpc' = "done"
  /\ UNCHANGED <<handlerVars, asideVars, queueVars, consumeVars, connVars,
                 hostVars, configVars, mainVars, rpc, boundVars, crashed>>

ConsumerStep ==
  \/ ConsumerTop \/ ConsumerConnected \/ BounceLock \/ BounceOpen
  \/ ConsumerPop \/ ConsumerWoken
  \/ SendTest \/ SendLock \/ PublishTakes \/ PublishFails \/ PublishOnNull
  \/ AbortMessage \/ CloseConnection \/ DrainOne \/ DrainEnd

-----------------------------------------------------------------------------
(* mod_amqp_command_listener_thread, as the publisher notices it            *)

(* Its openAmqpConnection tokenizes the same list, without the mutex.       *)
ListenerOpen ==
  /\ command = "open"
  /\ Tokenize
  /\ command' = "serving"
  /\ UNCHANGED <<handlerVars, clock, queueVars, cpc, consumeVars, connVars,
                 trying, broker, configVars, mainVars, rpc, boundVars, crashed>>

(* It ends on an error, or when it finds the module stopped.                *)
ListenerEnd ==
  /\ command = "serving" \/ (command = "open" /\ ~running)
  /\ command' = "done"
  /\ UNCHANGED <<handlerVars, clock, queueVars, cpc, consumeVars, connVars,
                 hostVars, configVars, mainVars, rpc, boundVars, crashed>>

ListenerTurn == ListenerOpen \/ ListenerEnd

-----------------------------------------------------------------------------
(* do_config(SWITCH_TRUE), the "amqp" API                                   *)

(* The configuration is read into the globals before anything is checked:   *)
(* it is accepted, refused (too many routing fields, an unknown event), or  *)
(* cannot be parsed and leaves the defaults.                                *)
ReloadParse(r) ==
  /\ rpc[r] = "idle"
  /\ main = "loaded"
  /\ reloads < MaxReloads
  /\ reloads' = reloads + 1
  /\ \/ /\ hostnames' = HostList
        /\ rpc' = [rpc EXCEPT ![r] = "unbind"]
        /\ UNCHANGED queueSize
     \/ /\ hostnames' = HostList
        /\ UNCHANGED <<rpc, queueSize>>
     \/ /\ hostnames' = <<DefaultHost>>
        /\ queueSize' = DefaultSize
        /\ UNCHANGED rpc
  /\ UNCHANGED <<handlerVars, asideVars, queueVars, cpc, consumeVars, connVars,
                 trying, broker, bindings, mainVars, raised, flaps, crashed>>

(* Variant: the previous subscriptions are kept.                            *)
ReloadKeepsBindings(r) ==
  /\ rpc[r] = "unbind"
  /\ HandlersOut
  /\ rpc' = [rpc EXCEPT ![r] = "lock"]
  /\ UNCHANGED <<handlerVars, asideVars, queueVars, cpc, consumeVars, connVars,
                 hostVars, configVars, mainVars, boundVars, crashed>>

ReloadUnbind(r) ==
  /\ rpc[r] = "unbind"
  /\ HandlersOut
  /\ bindings' = 0
  /\ rpc' = [rpc EXCEPT ![r] = "lock"]
  /\ UNCHANGED <<handlerVars, asideVars, queueVars, cpc, consumeVars, connVars,
                 hostVars, queueSize, mainVars, boundVars, crashed>>

(* Variant: the reload closes the connection without waiting for the mutex. *)
ReloadLockless(r) ==
  /\ rpc[r] = "lock"
  /\ rpc' = [rpc EXCEPT ![r] = "close"]
  /\ UNCHANGED <<handlerVars, asideVars, queueVars, cpc, consumeVars, connVars,
                 hostVars, configVars, mainVars, boundVars, crashed>>

ReloadLock(r) ==
  /\ rpc[r] = "lock"
  /\ mutex = None
  /\ mutex' = r
  /\ rpc' = [rpc EXCEPT ![r] = "close"]
  /\ UNCHANGED <<handlerVars, asideVars, queueVars, cpc, consumeVars, conn,
                 alive, hostVars, configVars, mainVars, boundVars, crashed>>

(* Both connections are closed: the listener, if it comes back to the top   *)
(* of its loop, opens another.                                              *)
ReloadClose(r) ==
  /\ rpc[r] = "close"
  /\ conn' = NoConn /\ alive' = FALSE
  /\ command' = IF command = "serving" THEN "open" ELSE command
  /\ rpc' = [rpc EXCEPT ![r] = "interrupt"]
  /\ UNCHANGED <<handlerVars, clock, queueVars, cpc, consumeVars, mutex,
                 hostVars, configVars, mainVars, boundVars, crashed>>

ReloadInterrupt(r) ==
  /\ rpc[r] = "interrupt"
  /\ WakeConsumer
  /\ mutex' = None
  /\ rpc' = [rpc EXCEPT ![r] = "bind"]
  /\ UNCHANGED <<handlerVars, asideVars, queueVars, consumeVars, conn, alive,
                 hostVars, configVars, mainVars, boundVars, crashed>>

(* The events are bound again; a bind that fails ends do_config.            *)
ReloadBind(r) ==
  /\ rpc[r] = "bind"
  /\ bindings' \in {bindings, bindings + 1}
  /\ rpc' = [rpc EXCEPT ![r] = "idle"]
  /\ UNCHANGED <<handlerVars, asideVars, queueVars, cpc, consumeVars, connVars,
                 hostVars, queueSize, mainVars, boundVars, crashed>>

ReloadStep(r) ==
  ReloadUnbind(r) \/ ReloadLock(r) \/ ReloadClose(r) \/ ReloadInterrupt(r)
    \/ ReloadBind(r)

-----------------------------------------------------------------------------
(* mod_amqp_shutdown. The core removes the "amqp" API and waits for its     *)
(* callers before it calls it.                                              *)

ShutdownUnbind ==
  /\ main = "loaded"
  /\ \A r \in Reloaders : rpc[r] = "idle"
  /\ HandlersOut
  /\ bindings' = 0
  /\ main' = "stop"
  /\ UNCHANGED <<handlerVars, asideVars, queueVars, cpc, consumeVars, connVars,
                 hostVars, queueSize, running, capacity, rpc, boundVars,
                 crashed>>

ShutdownStop ==
  /\ main = "stop"
  /\ running' = FALSE
  /\ main' = "interrupt"
  /\ UNCHANGED <<handlerVars, asideVars, queueVars, cpc, consumeVars, connVars,
                 hostVars, configVars, capacity, rpc, boundVars, crashed>>

(* Variant: the consumer is not interrupted.                                *)
ShutdownNoInterrupt ==
  /\ main = "interrupt"
  /\ main' = "join"
  /\ UNCHANGED <<handlerVars, asideVars, queueVars, cpc, consumeVars, connVars,
                 hostVars, configVars, running, capacity, rpc, boundVars,
                 crashed>>

ShutdownInterrupt ==
  /\ main = "interrupt"
  /\ WakeConsumer
  /\ main' = "join"
  /\ UNCHANGED <<handlerVars, asideVars, queueVars, consumeVars, connVars,
                 hostVars, configVars, running, capacity, rpc, boundVars,
                 crashed>>

(* Variant: only the consumer thread is joined.                             *)
ShutdownJoinsConsumer ==
  /\ main = "join"
  /\ cpc = "done"
  /\ main' = "unloaded"
  /\ UNCHANGED <<handlerVars, asideVars, queueVars, cpc, consumeVars, connVars,
                 hostVars, configVars, running, capacity, rpc, boundVars,
                 crashed>>

ShutdownJoin ==
  /\ main = "join"
  /\ cpc = "done" /\ command = "done"
  /\ main' = "unloaded"
  /\ UNCHANGED <<handlerVars, asideVars, queueVars, cpc, consumeVars, connVars,
                 hostVars, configVars, running, capacity, rpc, boundVars,
                 crashed>>

MainStep ==
  \/ LoadConfig \/ LoadCreateQueue \/ LoadStart
  \/ ShutdownStop \/ ShutdownInterrupt \/ ShutdownJoin

-----------------------------------------------------------------------------
(* The environment                                                          *)

(* A broker goes down, comes back, or takes connections it does not serve;  *)
(* any of these ends the sessions it had.                                   *)
BrokerChanges(h) ==
  /\ flaps < MaxFlaps
  /\ flaps' = flaps + 1
  /\ \E s \in {"up", "down", "refusing"} \ {broker[h]} :
       broker' = [broker EXCEPT ![h] = s]
  /\ alive' = (alive /\ conn # h)
  /\ UNCHANGED <<handlerVars, asideVars, queueVars, cpc, consumeVars, mutex,
                 conn, hostnames, trying, configVars, mainVars, rpc, raised,
                 reloads, crashed>>

Tick ==
  /\ clock < MaxTime
  /\ clock' = clock + 1
  /\ UNCHANGED <<handlerVars, command, queueVars, cpc, consumeVars, connVars,
                 hostVars, configVars, mainVars, rpc, boundVars, crashed>>

-----------------------------------------------------------------------------

Next ==
  /\ ~crashed
  /\ \/ MainStep
     \/ ShutdownUnbind
     \/ \E d \in Dispatchers : Handler(d)
     \/ ConsumerStep
     \/ SpuriousWake
     \/ ListenerTurn
     \/ \E r \in Reloaders : ReloadParse(r) \/ ReloadStep(r)
     \/ \E h \in Hosts : BrokerChanges(h)
     \/ Tick

Spec == Init /\ [][Next]_vars

(* Every thread that can take a step does: the core's dispatchers inside    *)
(* the handler, the consumer, a reload and a load or shutdown under way.    *)
(* Nothing obliges an event to be raised, a reload or a shutdown to start,  *)
(* a broker to change, or a waiting thread to be woken for no reason. The   *)
(* mutex is granted to a reload that keeps asking: between two attempts to  *)
(* connect the consumer sleeps for reconnect_interval_ms without it. The    *)
(* listener ends once the module is stopped: AmqpCommandListener shows that.*)
Fairness ==
  /\ WF_vars(~crashed /\ MainStep)
  /\ WF_vars(~crashed /\ ~running /\ ListenerEnd)
  /\ WF_vars(~crashed /\ ConsumerStep)
  /\ \A d \in Dispatchers :
       WF_vars(~crashed /\ (HandlerCheck(d) \/ HandlerPush(d)
                                            \/ HandlerTrip(d)))
  /\ \A r \in Reloaders : /\ WF_vars(~crashed /\ ReloadStep(r))
                          /\ SF_vars(~crashed /\ ReloadLock(r))

FairSpec == Spec /\ Fairness

-----------------------------------------------------------------------------
(* Properties                                                               *)

Pending == IF msg = NoMsg THEN queue ELSE <<msg>> \o queue

MainTypes ==
  /\ main \in {"config", "create", "start", "loaded", "stop", "interrupt",
               "join", "unloaded"}
  /\ running \in BOOLEAN
  /\ capacity \in Nat

ConfigTypes == bindings \in Nat /\ queueSize \in Nat

HandlerTypes ==
  /\ hpc \in [Dispatchers -> {"idle", "check", "push", "trip"}]
  /\ hnow \in [Dispatchers -> Nat]
  /\ resetTime \in Nat
  /\ overlap \subseteq Dispatchers
  /\ leaked \in Nat

QueueTypes == queue \in Seq(Nat) /\ pushed \in Nat

ConsumerPlaces ==
  {"unborn", "top", "connected?", "bounce", "open", "pop", "waiting", "woken",
   "send", "lock", "publish", "abort", "close", "drain", "done"}

ConsumeTypes ==
  /\ msg \in Nat \cup {NoMsg}
  /\ toPop \in Nat
  /\ published \in Nat
  /\ discarded \in Nat

ConnTypes ==
  /\ mutex \in Reloaders \cup {Consumer, None}
  /\ conn \in Hosts \cup {NoConn}
  /\ alive \in BOOLEAN

HostTypes ==
  /\ hostnames \in Seq(Hosts)
  /\ hostnames # << >>
  /\ trying \in Seq(Hosts)
  /\ broker \in [Hosts -> {"up", "down", "refusing"}]

BoundTypes == raised \in Nat /\ flaps \in Nat /\ reloads \in Nat

TypeOK ==
  /\ MainTypes /\ ConfigTypes /\ HandlerTypes /\ QueueTypes
  /\ cpc \in ConsumerPlaces
  /\ ConsumeTypes /\ ConnTypes /\ HostTypes /\ BoundTypes
  /\ rpc \in [Reloaders -> {"idle", "unbind", "lock", "close", "interrupt",
                            "bind"}]
  /\ clock \in Nat
  /\ command \in {"unborn", "open", "serving", "done"}
  /\ crashed \in BOOLEAN

(* Every accepted message is in exactly one place, and in order: those      *)
(* published or discarded come first, the consumer's message and the queue  *)
(* hold the rest, oldest first, whatever reconnects, reloads and retries    *)
(* happened on the way.                                                     *)
AcceptedInOrder ==
  /\ published + discarded + Len(Pending) = pushed
  /\ \A i \in 1 .. Len(Pending) : Pending[i] = published + discarded + i

(* An event that arrives while the module loads or after it began to stop   *)
(* never reaches the queue: it is bound before the queue exists.            *)
QueueOnlyWhileRunning ==
  \A d \in Dispatchers :
    hpc[d] \in {"push", "trip"} => capacity > 0 /\ running

(* When shutdown returns nothing of the module is still executing: no       *)
(* handler can be called, both threads are gone, the connection is closed   *)
(* and the mutex free, so the code may be unmapped.                         *)
UnloadedIsQuiet ==
  main = "unloaded" =>
    /\ bindings = 0 /\ HandlersOut
    /\ cpc = "done" /\ msg = NoMsg /\ command = "done"
    /\ conn = NoConn /\ mutex = None
    /\ \A r \in Reloaders : rpc[r] = "idle"

(* One reload at a time leaves each event bound at most once: a second      *)
(* binding would publish every event twice.                                 *)
AtMostOneBinding == bindings <= 1

(* The full queue is reported, and the breaker tripped, once per interval   *)
(* but for the threads that were already past the test of the breaker when  *)
(* it was last tripped: each of those may report once more, and set the     *)
(* reset time back to an older `now`.                                       *)
Reports(d) == hpc[d] = "trip" /\ hpc'[d] = "idle"

ReportsOverlap ==
  [][\A d \in Dispatchers :
       Reports(d) /\ clock < resetTime => d \in overlap]_vars

(* The connection the consumer publishes on is not closed while it does.    *)
NoCloseDuringPublish ==
  [][cpc = "publish" /\ cpc' = "publish" => conn' = conn]_vars

(* The consumer refines a relay that keeps what it accepted, in order,      *)
(* across reconnects and failed sends, and gives it up only once it stops.  *)
Phase == IF cpc = "unborn" THEN "new" ELSE IF running THEN "open" ELSE "closed"

Room == IF cpc = "unborn" THEN 0 ELSE capacity + 1

Relay == INSTANCE EventRelay WITH
  phase <- Phase, room <- Room, held <- Pending,
  accepted <- pushed, handedOn <- published, dropped <- discarded

ImplementsRelay == Relay!RelaySpec

BrokersSettle == <>[](\A h \in Hosts : broker[h] = "up")

(* Once the brokers stay up every accepted message leaves the module: none  *)
(* is stuck behind a closed connection, a lost wake-up or a held mutex. The *)
(* exception is a shutdown that drains by a size which a configuration that *)
(* could not be parsed made smaller than the queue.                         *)
AcceptedLeaves ==
  BrokersSettle =>
    \A n \in 1 .. MaxEvents :
      pushed >= n ~> \/ published + discarded >= n
                     \/ cpc = "done" /\ queueSize < capacity
                     \/ crashed

(* A reload that began returns, however the handlers, the consumer and the  *)
(* broker behave: its unbind and its lock are granted.                      *)
ReloadReturns ==
  \A r \in Reloaders : rpc[r] # "idle" ~> (rpc[r] = "idle" \/ crashed)

(* A consumer that is already blocked on the empty queue when the module is *)
(* stopped is woken, and the module unloads.                                *)
BlockedConsumerIsStopped ==
  main = "interrupt" /\ cpc = "waiting" ~> main = "unloaded" \/ crashed

(* What the comments of the source say.                                     *)

(* "Ensure we have an AMQP connection" before a message is sent.            *)
ConnectedWhenPublishing == cpc = "publish" => conn # NoConn

(* "Flag the 'send' worker thread to exit, and wake it up", "Join worker    *)
(* threads": stopping ends.                                                 *)
ShutdownReturns == main = "stop" ~> main = "unloaded"

(* "errors are reported only once per circuit breaker interval": no handler *)
(* reports while the interval the last report began is running.             *)
OneReportPerInterval ==
  [][\A d \in Dispatchers : Reports(d) => clock >= resetTime]_vars

(* "Empty the queue so as not to leak any remaining messages": true unless  *)
(* a configuration that could not be parsed put the default size, smaller   *)
(* than the queue, into amqpSendQueueSize.                                  *)
DrainEmptiesQueue ==
  cpc = "done" /\ queueSize >= capacity => queue = << >>

=============================================================================
