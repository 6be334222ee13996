-------------------------- MODULE AmqpPublisherProofs --------------------------
(* Machine-checked proofs about AmqpPublisher, for every value of its       *)
(* constants.                                                               *)
EXTENDS AmqpPublisher, TLAPS

-----------------------------------------------------------------------------
(* Types                                                                    *)

(* What the sequence operators of the module return.                        *)
LEMMA SequenceTypes ==
  ASSUME NEW S, NEW s \in Seq(S), NEW e \in S
  PROVE  /\ << >> \in Seq(S)
         /\ Append(s, e) \in Seq(S)
         /\ <<e>> \in Seq(S) /\ <<e>> # << >>
         /\ s # << >> => Head(s) \in S /\ Tail(s) \in Seq(S)
         /\ \A i \in DOMAIN s : s[i] \in S
  OBVIOUS

(* What a group of variables holds it holds after a step that leaves the    *)
(* group alone.                                                             *)
LEMMA Frames ==
  /\ MainTypes /\ UNCHANGED mainVars => MainTypes'
  /\ ConfigTypes /\ UNCHANGED configVars => ConfigTypes'
  /\ HandlerTypes /\ UNCHANGED handlerVars => HandlerTypes'
  /\ QueueTypes /\ UNCHANGED queueVars => QueueTypes'
  /\ ConsumeTypes /\ UNCHANGED consumeVars => ConsumeTypes'
  /\ ConnTypes /\ UNCHANGED connVars => ConnTypes'
  /\ HostTypes /\ UNCHANGED hostVars => HostTypes'
  /\ BoundTypes /\ UNCHANGED boundVars => BoundTypes'
<1>1. MainTypes /\ UNCHANGED mainVars => MainTypes'
  BY DEF MainTypes, mainVars
<1>2. ConfigTypes /\ UNCHANGED configVars => ConfigTypes'
  BY DEF ConfigTypes, configVars
<1>3. HandlerTypes /\ UNCHANGED handlerVars => HandlerTypes'
  BY DEF HandlerTypes, handlerVars
<1>4. QueueTypes /\ UNCHANGED queueVars => QueueTypes'
  BY DEF QueueTypes, queueVars
<1>5. ConsumeTypes /\ UNCHANGED consumeVars => ConsumeTypes'
  BY DEF ConsumeTypes, consumeVars
<1>6. ConnTypes /\ UNCHANGED connVars => ConnTypes'
  BY DEF ConnTypes, connVars
<1>7. HostTypes /\ UNCHANGED hostVars => HostTypes'
  BY DEF HostTypes, hostVars
<1>8. BoundTypes /\ UNCHANGED boundVars => BoundTypes'
  BY DEF BoundTypes, boundVars
<1> QED
  BY <1>1, <1>2, <1>3, <1>4, <1>5, <1>6, <1>7, <1>8

(* The globals are zeroed and configured before any thread runs.            *)
LEMMA InitTypes == Init => TypeOK
<1> SUFFICES ASSUME Init PROVE TypeOK
  OBVIOUS
<1>1. broker \in [Hosts -> {"up", "down", "refusing"}] /\ trying \in Seq(Hosts)
  <2>1. broker \in [Hosts -> {"up", "down", "refusing"}]
    BY DEF Init
  <2>2. trying = << >> /\ << >> \in Seq(Hosts)
    BY DEF Init
  <2> QED
    BY <2>1, <2>2
<1>2. MainTypes /\ ConfigTypes /\ BoundTypes
  BY SizesAssumption DEF Init, MainTypes, ConfigTypes, BoundTypes
<1>5. QueueTypes
  BY DEF Init, QueueTypes
<1>4. HandlerTypes
  BY DEF Init, HandlerTypes
<1>3. ConsumeTypes /\ ConnTypes /\ cpc \in ConsumerPlaces
  BY DEF Init, ConsumeTypes, ConnTypes, ConsumerPlaces
<1> QED
  BY <1>1, <1>2, <1>3, <1>4, <1>5, NamesAssumption DEF Init, HostTypes, TypeOK

(* Every variable of mod_amqp keeps its type under every step, whatever the *)
(* number of dispatch threads, hosts, events and reloads.                   *)
THEOREM TypeCorrect == Spec => []TypeOK
<1>1. Init => TypeOK
  BY InitTypes
<1>2. TypeOK /\ [Next]_vars => TypeOK'
  <2> SUFFICES ASSUME TypeOK, [Next]_vars PROVE TypeOK'
    OBVIOUS
  <2>1. CASE MainStep
    <3>1. CASE LoadConfig
      <4>1. DefaultHost \in Hosts
        BY DEF Hosts
      <4>2. hostnames' \in Seq(Hosts) /\ hostnames' # << >>
        <5>1. <<DefaultHost>> \in Seq(Hosts) /\ <<DefaultHost>> # << >>
          BY <4>1, SequenceTypes
        <5>2. hostnames' \in {hostnames, <<DefaultHost>>}
          BY <3>1 DEF LoadConfig
        <5> QED
          BY <5>1, <5>2 DEF TypeOK, HostTypes
      <4> QED
        BY <3>1, <4>2, Frames, SizesAssumption
           DEF TypeOK, LoadConfig, MainTypes, ConfigTypes, HostTypes, asideVars
    <3>2. CASE LoadCreateQueue
      BY <3>2, Frames DEF TypeOK, LoadCreateQueue, MainTypes, ConfigTypes, asideVars
    <3>3. CASE LoadStart
      BY <3>3, Frames DEF TypeOK, LoadStart, MainTypes, ConsumerPlaces, asideVars
    <3>4. CASE ShutdownStop
      BY <3>4, Frames DEF TypeOK, ShutdownStop, MainTypes, asideVars
    <3>5. CASE ShutdownInterrupt
      BY <3>5, Frames DEF TypeOK, ShutdownInterrupt, MainTypes, WakeConsumer, ConsumerPlaces, asideVars
    <3>6. CASE ShutdownJoin
      BY <3>6, Frames DEF TypeOK, ShutdownJoin, MainTypes, asideVars
    <3> QED
      BY <2>1, <3>1, <3>2, <3>3, <3>4, <3>5, <3>6 DEF MainStep
  <2>2. CASE ShutdownUnbind
    BY <2>2, Frames DEF TypeOK, ShutdownUnbind, MainTypes, ConfigTypes, asideVars
  <2>3. ASSUME NEW d \in Dispatchers, Handler(d) PROVE TypeOK'
    <3>1. CASE HandlerEnter(d)
      BY <3>1, Frames DEF TypeOK, HandlerEnter, HandlerTypes, BoundTypes, asideVars
    <3>2. CASE HandlerCheck(d)
      BY <3>2, Frames DEF TypeOK, HandlerCheck, HandlerTypes, asideVars
    <3>3. CASE HandlerPush(d)
      <4>1. QueueTypes'
        <5>1. Append(queue, pushed + 1) \in Seq(Nat) /\ pushed + 1 \in Nat
          BY DEF TypeOK, QueueTypes
        <5> QED
          BY <3>3, <5>1 DEF TypeOK, HandlerPush, QueueTypes, queueVars
      <4>2. HandlerTypes'
        <5>1. hpc' \in [Dispatchers -> {"idle", "check", "push", "trip"}]
          BY <3>3 DEF TypeOK, HandlerPush, HandlerTypes
        <5>2. leaked' \in Nat
          BY <3>3 DEF TypeOK, HandlerPush, HandlerTypes
        <5> QED
          BY <3>3, <5>1, <5>2 DEF TypeOK, HandlerPush, HandlerTypes
      <4>3. cpc' \in ConsumerPlaces /\ crashed' \in BOOLEAN
        BY <3>3 DEF TypeOK, HandlerPush, WakeConsumer, ConsumerPlaces
      <4> QED
        BY <3>3, <4>1, <4>2, <4>3, Frames DEF TypeOK, HandlerPush, asideVars
    <3>4. CASE HandlerTrip(d)
      BY <3>4, Frames, SizesAssumption DEF TypeOK, HandlerTrip, HandlerTypes, asideVars
    <3> QED
      BY <2>3, <3>1, <3>2, <3>3, <3>4 DEF Handler
  <2>4. CASE ConsumerStep
    <3>1. CASE ConsumerTop
      BY <3>1, Frames DEF TypeOK, ConsumerTop, ConsumerPlaces, asideVars
    <3>2. CASE ConsumerConnected
      BY <3>2, Frames DEF TypeOK, ConsumerConnected, ConsumerPlaces, asideVars
    <3>3. CASE BounceLock
      <4>1. HostTypes'
        BY <3>3, SequenceTypes DEF TypeOK, BounceLock, Tokenize, HostTypes
      <4> QED
        BY <3>3, <4>1, Frames
           DEF TypeOK, BounceLock, ConnTypes, ConsumerPlaces, asideVars
    <3>4. CASE BounceOpen
      <4>1. HostTypes'
        BY <3>4, SequenceTypes DEF TypeOK, BounceOpen, HostTypes
      <4>2. ConnTypes'
        <5>1. \A i \in DOMAIN trying : trying[i] \in Hosts
          BY DEF TypeOK, HostTypes
        <5> QED
          BY <3>4, <5>1 DEF TypeOK, BounceOpen, ConnTypes
      <4> QED
        BY <3>4, <4>1, <4>2, Frames
           DEF TypeOK, BounceOpen, ConsumerPlaces, asideVars
    <3>5. CASE ConsumerPop
      <4>1. QueueTypes' /\ ConsumeTypes'
        <5>1. queue # << >> => Head(queue) \in Nat /\ Tail(queue) \in Seq(Nat)
          BY DEF TypeOK, QueueTypes
        <5> QED
          BY <3>5, <5>1 DEF TypeOK, ConsumerPop, QueueTypes, ConsumeTypes
      <4> QED
        BY <3>5, <4>1, Frames DEF TypeOK, ConsumerPop, ConsumerPlaces, asideVars
    <3>6. CASE ConsumerWoken
      <4>1. QueueTypes' /\ ConsumeTypes'
        <5>1. queue # << >> => Head(queue) \in Nat /\ Tail(queue) \in Seq(Nat)
          BY DEF TypeOK, QueueTypes
        <5> QED
          BY <3>6, <5>1 DEF TypeOK, ConsumerWoken, QueueTypes, ConsumeTypes
      <4> QED
        BY <3>6, <4>1, Frames DEF TypeOK, ConsumerWoken, ConsumerPlaces, asideVars
    <3>7. CASE SendTest
      BY <3>7, Frames DEF TypeOK, SendTest, ConsumerPlaces, asideVars
    <3>8. CASE SendLock
      BY <3>8, Frames DEF TypeOK, SendLock, ConnTypes, ConsumerPlaces, asideVars
    <3>9. CASE PublishTakes
      BY <3>9, Frames DEF TypeOK, PublishTakes, ConnTypes, ConsumeTypes, ConsumerPlaces, asideVars
    <3>10. CASE PublishFails
      <4>1. BoundTypes' /\ ConnTypes'
        <5>1. /\ flaps' \in {flaps, flaps + 1} /\ conn' = NoConn
              /\ alive' = FALSE /\ mutex' = None
              /\ raised' = raised /\ reloads' = reloads
          BY <3>10 DEF PublishFails, SessionFails
        <5>2. BoundTypes'
          BY <5>1 DEF TypeOK, BoundTypes
        <5>3. ConnTypes'
          BY <5>1 DEF TypeOK, ConnTypes
        <5> QED
          BY <5>2, <5>3
      <4> QED
        BY <3>10, <4>1, Frames DEF TypeOK, PublishFails, ConsumerPlaces, asideVars
    <3>11. CASE PublishOnNull
      BY <3>11, Frames DEF TypeOK, PublishOnNull, asideVars
    <3>12. CASE AbortMessage
      BY <3>12, Frames DEF TypeOK, AbortMessage, ConsumeTypes, ConsumerPlaces, asideVars
    <3>13. CASE CloseConnection
      BY <3>13, Frames DEF TypeOK, CloseConnection, ConnTypes, ConsumeTypes, ConfigTypes, ConsumerPlaces, asideVars
    <3>14. CASE DrainOne
      BY <3>14, Frames DEF TypeOK, DrainOne, QueueTypes, ConsumeTypes, asideVars
    <3>15. CASE DrainEnd
      BY <3>15, Frames DEF TypeOK, DrainEnd, ConsumerPlaces, asideVars
    <3> QED
      BY <2>4, <3>1, <3>2, <3>3, <3>4, <3>5, <3>6, <3>7, <3>8,
         <3>9, <3>10, <3>11, <3>12, <3>13, <3>14, <3>15 DEF ConsumerStep
  <2>5. CASE SpuriousWake
    BY <2>5, Frames DEF TypeOK, SpuriousWake, WakeConsumer, ConsumerPlaces, asideVars
  <2>6. ASSUME NEW r \in Reloaders, ReloadParse(r) \/ ReloadStep(r)
        PROVE  TypeOK'
    <3>1. CASE ReloadParse(r)
      <4>1. DefaultHost \in Hosts
        BY DEF Hosts
      <4>2. hostnames' \in Seq(Hosts) /\ hostnames' # << >>
        <5>1. <<DefaultHost>> \in Seq(Hosts) /\ <<DefaultHost>> # << >>
          BY <4>1, SequenceTypes
        <5>2. hostnames' \in {HostList, <<DefaultHost>>}
          BY <3>1 DEF ReloadParse
        <5> QED
          BY <5>1, <5>2, NamesAssumption
      <4>3. rpc' \in [Reloaders -> {"idle", "unbind", "lock", "close",
                                    "interrupt", "bind"}]
        BY <3>1 DEF TypeOK, ReloadParse
      <4>4. ConfigTypes' /\ BoundTypes'
        BY <3>1, SizesAssumption DEF TypeOK, ReloadParse, ConfigTypes, BoundTypes
      <4> QED
        BY <3>1, <4>2, <4>3, <4>4, Frames
           DEF TypeOK, ReloadParse, HostTypes, asideVars
    <3>2. CASE ReloadUnbind(r)
      BY <3>2, Frames DEF TypeOK, ReloadUnbind, ConfigTypes, asideVars
    <3>3. CASE ReloadLock(r)
      BY <3>3, Frames DEF TypeOK, ReloadLock, ConnTypes, asideVars
    <3>4. CASE ReloadClose(r)
      BY <3>4, Frames DEF TypeOK, ReloadClose, ConnTypes, asideVars
    <3>5. CASE ReloadInterrupt(r)
      BY <3>5, Frames DEF TypeOK, ReloadInterrupt, ConnTypes, WakeConsumer, ConsumerPlaces, asideVars
    <3>6. CASE ReloadBind(r)
      BY <3>6, Frames DEF TypeOK, ReloadBind, ConfigTypes, asideVars
    <3> QED
      BY <2>6, <3>1, <3>2, <3>3, <3>4, <3>5, <3>6 DEF ReloadStep
  <2>7. ASSUME NEW h \in Hosts, BrokerChanges(h) PROVE TypeOK'
    BY <2>7, Frames DEF TypeOK, BrokerChanges, ConnTypes, HostTypes, BoundTypes, asideVars
  <2>8. CASE Tick
    BY <2>8, Frames DEF TypeOK, Tick
  <2>9. CASE ListenerTurn
    <3>1. CASE ListenerOpen
      <4>1. HostTypes'
        BY <3>1, SequenceTypes DEF TypeOK, ListenerOpen, Tokenize, HostTypes
      <4> QED
        BY <3>1, <4>1, Frames DEF TypeOK, ListenerOpen, asideVars
    <3>2. CASE ListenerEnd
      BY <3>2, Frames DEF TypeOK, ListenerEnd, asideVars
    <3> QED
      BY <2>9, <3>1, <3>2 DEF ListenerTurn
  <2>10. CASE UNCHANGED vars
    BY <2>10, Frames DEF TypeOK, vars, asideVars
  <2> QED
    BY <2>1, <2>2, <2>3, <2>4, <2>5, <2>6, <2>7, <2>8, <2>9,
       <2>10 DEF Next
<1> QED
  BY <1>1, <1>2, PTL DEF Spec

-----------------------------------------------------------------------------
(* The inductive invariant                                                  *)

(* Who holds the mutex is told by where the threads are.                    *)
MutexPlaces ==
  /\ mutex = Consumer <=> cpc \in {"open", "publish"}
  /\ \A r \in Reloaders : mutex = r <=> rpc[r] \in {"close", "interrupt"}

(* Where the consumer holds a message, and where it does not.               *)
MsgPlaces ==
  /\ cpc \in {"unborn", "pop", "waiting", "woken", "close", "drain", "done"}
       => msg = NoMsg
  /\ cpc \in {"send", "lock", "publish"} => msg # NoMsg

(* The flag `running` follows the load and shutdown functions, and once     *)
(* shutdown has unbound the events nobody but the consumer is in the module.*)
MainPlaces ==
  /\ running <=> main \in {"loaded", "stop"}
  /\ main \in {"config", "create"} <=> capacity = 0
  /\ queueSize > 0
  /\ cpc = "unborn" <=> main \in {"config", "create", "start"}
  /\ main \notin {"loaded"} => \A r \in Reloaders : rpc[r] = "idle"
  /\ main \in {"stop", "interrupt", "join", "unloaded"} =>
       bindings = 0 /\ HandlersOut
  /\ cpc \in {"abort", "close", "drain", "done"} => ~running
  /\ main = "unloaded" => cpc = "done" /\ command = "done"
  /\ cpc \in {"drain", "done"} => conn = NoConn

(* The mutex follows its holder through every step.                         *)
LEMMA MutexKept ==
  ASSUME TypeOK, MutexPlaces, MainPlaces, [Next]_vars
  PROVE  MutexPlaces'
<1> USE NamesAssumption DEF MutexPlaces, MainPlaces, connVars
<1>0. rpc \in [Reloaders -> {"idle", "unbind", "lock", "close", "interrupt",
                             "bind"}]
  BY DEF TypeOK
<1>1. CASE MainStep
  <2>1. CASE LoadConfig
    BY <2>1, <1>0 DEF LoadConfig
  <2>2. CASE LoadCreateQueue
    BY <2>2, <1>0 DEF LoadCreateQueue
  <2>3. CASE LoadStart
    BY <2>3, <1>0 DEF LoadStart
  <2>4. CASE ShutdownStop
    BY <2>4, <1>0 DEF ShutdownStop
  <2>5. CASE ShutdownInterrupt
    BY <2>5, <1>0 DEF ShutdownInterrupt, WakeConsumer
  <2>6. CASE ShutdownJoin
    BY <2>6, <1>0 DEF ShutdownJoin
  <2> QED
    BY <1>1, <2>1, <2>2, <2>3, <2>4, <2>5, <2>6 DEF MainStep
<1>2. CASE ShutdownUnbind
  BY <1>2, <1>0 DEF ShutdownUnbind
<1>3. ASSUME NEW d \in Dispatchers, Handler(d) PROVE MutexPlaces'
  <2>1. CASE HandlerEnter(d)
    BY <2>1, <1>0 DEF HandlerEnter
  <2>2. CASE HandlerCheck(d)
    BY <2>2, <1>0 DEF HandlerCheck
  <2>3. CASE HandlerPush(d)
    BY <2>3, <1>0 DEF HandlerPush, WakeConsumer
  <2>4. CASE HandlerTrip(d)
    BY <2>4, <1>0 DEF HandlerTrip
  <2> QED
    BY <1>3, <2>1, <2>2, <2>3, <2>4 DEF Handler
<1>4. CASE ConsumerStep
  <2>1. CASE ConsumerTop
    BY <2>1, <1>0 DEF ConsumerTop
  <2>2. CASE ConsumerConnected
    BY <2>2, <1>0 DEF ConsumerConnected
  <2>3. CASE BounceLock
    BY <2>3, <1>0 DEF BounceLock, Tokenize
  <2>4. CASE BounceOpen
    BY <2>4, <1>0 DEF BounceOpen
  <2>5. CASE ConsumerPop
    BY <2>5, <1>0 DEF ConsumerPop
  <2>6. CASE ConsumerWoken
    BY <2>6, <1>0 DEF ConsumerWoken
  <2>7. CASE SendTest
    BY <2>7, <1>0 DEF SendTest
  <2>8. CASE SendLock
    BY <2>8, <1>0 DEF SendLock
  <2>9. CASE PublishTakes
    BY <2>9, <1>0 DEF PublishTakes
  <2>10. CASE PublishFails
    BY <2>10, <1>0 DEF PublishFails, SessionFails
  <2>11. CASE PublishOnNull
    BY <2>11, <1>0 DEF PublishOnNull
  <2>12. CASE AbortMessage
    BY <2>12, <1>0 DEF AbortMessage
  <2>13. CASE CloseConnection
    BY <2>13, <1>0 DEF CloseConnection
  <2>14. CASE DrainOne
    BY <2>14, <1>0 DEF DrainOne
  <2>15. CASE DrainEnd
    BY <2>15, <1>0 DEF DrainEnd
  <2> QED
    BY <1>4, <2>1, <2>2, <2>3, <2>4, <2>5, <2>6, <2>7, <2>8,
       <2>9, <2>10, <2>11, <2>12, <2>13, <2>14, <2>15 DEF ConsumerStep
<1>5. CASE SpuriousWake
  BY <1>5, <1>0 DEF SpuriousWake, WakeConsumer
<1>6. ASSUME NEW r \in Reloaders, ReloadParse(r) \/ ReloadStep(r)
      PROVE  MutexPlaces'
  <2>1. CASE ReloadParse(r)
    BY <2>1, <1>0 DEF ReloadParse
  <2>2. CASE ReloadUnbind(r)
    BY <2>2, <1>0 DEF ReloadUnbind
  <2>3. CASE ReloadLock(r)
    BY <2>3, <1>0 DEF ReloadLock
  <2>4. CASE ReloadClose(r)
    BY <2>4, <1>0 DEF ReloadClose
  <2>5. CASE ReloadInterrupt(r)
    BY <2>5, <1>0 DEF ReloadInterrupt, WakeConsumer
  <2>6. CASE ReloadBind(r)
    BY <2>6, <1>0 DEF ReloadBind
  <2> QED
    BY <1>6, <2>1, <2>2, <2>3, <2>4, <2>5, <2>6 DEF ReloadStep
<1>7. ASSUME NEW h \in Hosts, BrokerChanges(h) PROVE MutexPlaces'
  BY <1>7, <1>0 DEF BrokerChanges
<1>8. CASE Tick
  BY <1>8, <1>0 DEF Tick
<1>9. CASE ListenerTurn
  BY <1>9, <1>0 DEF ListenerTurn, ListenerOpen, ListenerEnd, Tokenize
<1>10. CASE UNCHANGED vars
  BY <1>10, <1>0 DEF vars
<1> QED
  BY <1>1, <1>2, <1>3, <1>4, <1>5, <1>6, <1>7, <1>8, <1>9,
     <1>10 DEF Next

(* The consumer's message follows the consumer.                             *)
LEMMA MsgKept ==
  ASSUME TypeOK, MsgPlaces, [Next]_vars
  PROVE  MsgPlaces'
<1> USE DEF MsgPlaces, consumeVars
<1>0. queue # << >> => Head(queue) # NoMsg
  BY NamesAssumption DEF TypeOK, QueueTypes
<1>1. CASE MainStep
  <2>1. CASE LoadConfig
    BY <2>1, <1>0 DEF LoadConfig
  <2>2. CASE LoadCreateQueue
    BY <2>2, <1>0 DEF LoadCreateQueue
  <2>3. CASE LoadStart
    BY <2>3, <1>0 DEF LoadStart
  <2>4. CASE ShutdownStop
    BY <2>4, <1>0 DEF ShutdownStop
  <2>5. CASE ShutdownInterrupt
    BY <2>5, <1>0 DEF ShutdownInterrupt, WakeConsumer
  <2>6. CASE ShutdownJoin
    BY <2>6, <1>0 DEF ShutdownJoin
  <2> QED
    BY <1>1, <2>1, <2>2, <2>3, <2>4, <2>5, <2>6 DEF MainStep
<1>2. CASE ShutdownUnbind
  BY <1>2, <1>0 DEF ShutdownUnbind
<1>3. ASSUME NEW d \in Dispatchers, Handler(d) PROVE MsgPlaces'
  <2>1. CASE HandlerEnter(d)
    BY <2>1, <1>0 DEF HandlerEnter
  <2>2. CASE HandlerCheck(d)
    BY <2>2, <1>0 DEF HandlerCheck
  <2>3. CASE HandlerPush(d)
    BY <2>3, <1>0 DEF HandlerPush, WakeConsumer
  <2>4. CASE HandlerTrip(d)
    BY <2>4, <1>0 DEF HandlerTrip
  <2> QED
    BY <1>3, <2>1, <2>2, <2>3, <2>4 DEF Handler
<1>4. CASE ConsumerStep
  <2>1. CASE ConsumerTop
    BY <2>1, <1>0 DEF ConsumerTop
  <2>2. CASE ConsumerConnected
    BY <2>2, <1>0 DEF ConsumerConnected
  <2>3. CASE BounceLock
    BY <2>3, <1>0 DEF BounceLock, Tokenize
  <2>4. CASE BounceOpen
    BY <2>4, <1>0 DEF BounceOpen
  <2>5. CASE ConsumerPop
    BY <2>5, <1>0 DEF ConsumerPop
  <2>6. CASE ConsumerWoken
    BY <2>6, <1>0 DEF ConsumerWoken
  <2>7. CASE SendTest
    BY <2>7, <1>0 DEF SendTest
  <2>8. CASE SendLock
    BY <2>8, <1>0 DEF SendLock
  <2>9. CASE PublishTakes
    BY <2>9, <1>0 DEF PublishTakes
  <2>10. CASE PublishFails
    BY <2>10, <1>0 DEF PublishFails, SessionFails
  <2>11. CASE PublishOnNull
    BY <2>11, <1>0 DEF PublishOnNull
  <2>12. CASE AbortMessage
    BY <2>12, <1>0 DEF AbortMessage
  <2>13. CASE CloseConnection
    BY <2>13, <1>0 DEF CloseConnection
  <2>14. CASE DrainOne
    BY <2>14, <1>0 DEF DrainOne
  <2>15. CASE DrainEnd
    BY <2>15, <1>0 DEF DrainEnd
  <2> QED
    BY <1>4, <2>1, <2>2, <2>3, <2>4, <2>5, <2>6, <2>7, <2>8,
       <2>9, <2>10, <2>11, <2>12, <2>13, <2>14, <2>15 DEF ConsumerStep
<1>5. CASE SpuriousWake
  BY <1>5, <1>0 DEF SpuriousWake, WakeConsumer
<1>6. ASSUME NEW r \in Reloaders, ReloadParse(r) \/ ReloadStep(r)
      PROVE  MsgPlaces'
  <2>1. CASE ReloadParse(r)
    BY <2>1, <1>0 DEF ReloadParse
  <2>2. CASE ReloadUnbind(r)
    BY <2>2, <1>0 DEF ReloadUnbind
  <2>3. CASE ReloadLock(r)
    BY <2>3, <1>0 DEF ReloadLock
  <2>4. CASE ReloadClose(r)
    BY <2>4, <1>0 DEF ReloadClose
  <2>5. CASE ReloadInterrupt(r)
    BY <2>5, <1>0 DEF ReloadInterrupt, WakeConsumer
  <2>6. CASE ReloadBind(r)
    BY <2>6, <1>0 DEF ReloadBind
  <2> QED
    BY <1>6, <2>1, <2>2, <2>3, <2>4, <2>5, <2>6 DEF ReloadStep
<1>7. ASSUME NEW h \in Hosts, BrokerChanges(h) PROVE MsgPlaces'
  BY <1>7, <1>0 DEF BrokerChanges
<1>8. CASE Tick
  BY <1>8, <1>0 DEF Tick
<1>9. CASE ListenerTurn
  BY <1>9, <1>0 DEF ListenerTurn, ListenerOpen, ListenerEnd, Tokenize
<1>10. CASE UNCHANGED vars
  BY <1>10, <1>0 DEF vars
<1> QED
  BY <1>1, <1>2, <1>3, <1>4, <1>5, <1>6, <1>7, <1>8, <1>9,
     <1>10 DEF Next

(* Loading and stopping keep their promises to the other threads.           *)
LEMMA MainKept ==
  ASSUME TypeOK, MutexPlaces, MainPlaces, [Next]_vars
  PROVE  MainPlaces'
<1> USE DEF MainPlaces, HandlersOut, mainVars, configVars, handlerVars, connVars, asideVars
<1>0. /\ rpc \in [Reloaders -> {"idle", "unbind", "lock", "close", "interrupt",
                                "bind"}]
      /\ hpc \in [Dispatchers -> {"idle", "check", "push", "trip"}]
      /\ capacity \in Nat /\ queueSize \in Nat /\ bindings \in Nat
  BY DEF TypeOK, MainTypes, ConfigTypes, HandlerTypes
<1>1. CASE MainStep
  <2>1. CASE LoadConfig
    BY <2>1, <1>0, SizesAssumption DEF LoadConfig
  <2>2. CASE LoadCreateQueue
    BY <2>2, <1>0 DEF LoadCreateQueue
  <2>3. CASE LoadStart
    BY <2>3, <1>0 DEF LoadStart
  <2>4. CASE ShutdownStop
    BY <2>4, <1>0 DEF ShutdownStop
  <2>5. CASE ShutdownInterrupt
    BY <2>5, <1>0 DEF ShutdownInterrupt, WakeConsumer
  <2>6. CASE ShutdownJoin
    BY <2>6, <1>0 DEF ShutdownJoin
  <2> QED
    BY <1>1, <2>1, <2>2, <2>3, <2>4, <2>5, <2>6 DEF MainStep
<1>2. CASE ShutdownUnbind
  BY <1>2, <1>0 DEF ShutdownUnbind
<1>3. ASSUME NEW d \in Dispatchers, Handler(d) PROVE MainPlaces'
  <2>1. CASE HandlerEnter(d)
    BY <2>1, <1>0 DEF HandlerEnter
  <2>2. CASE HandlerCheck(d)
    BY <2>2, <1>0 DEF HandlerCheck
  <2>3. CASE HandlerPush(d)
    BY <2>3, <1>0 DEF HandlerPush, WakeConsumer
  <2>4. CASE HandlerTrip(d)
    BY <2>4, <1>0 DEF HandlerTrip
  <2> QED
    BY <1>3, <2>1, <2>2, <2>3, <2>4 DEF Handler
<1>4. CASE ConsumerStep
  <2>1. CASE ConsumerTop
    BY <2>1, <1>0 DEF ConsumerTop
  <2>2. CASE ConsumerConnected
    BY <2>2, <1>0 DEF ConsumerConnected
  <2>3. CASE BounceLock
    BY <2>3, <1>0 DEF BounceLock, Tokenize
  <2>4. CASE BounceOpen
    BY <2>4, <1>0 DEF BounceOpen
  <2>5. CASE ConsumerPop
    BY <2>5, <1>0 DEF ConsumerPop
  <2>6. CASE ConsumerWoken
    BY <2>6, <1>0 DEF ConsumerWoken
  <2>7. CASE SendTest
    BY <2>7, <1>0 DEF SendTest
  <2>8. CASE SendLock
    BY <2>8, <1>0 DEF SendLock
  <2>9. CASE PublishTakes
    BY <2>9, <1>0 DEF PublishTakes
  <2>10. CASE PublishFails
    BY <2>10, <1>0 DEF PublishFails, SessionFails
  <2>11. CASE PublishOnNull
    BY <2>11, <1>0 DEF PublishOnNull
  <2>12. CASE AbortMessage
    BY <2>12, <1>0 DEF AbortMessage
  <2>13. CASE CloseConnection
    BY <2>13, <1>0 DEF CloseConnection
  <2>14. CASE DrainOne
    BY <2>14, <1>0 DEF DrainOne
  <2>15. CASE DrainEnd
    BY <2>15, <1>0 DEF DrainEnd
  <2> QED
    BY <1>4, <2>1, <2>2, <2>3, <2>4, <2>5, <2>6, <2>7, <2>8,
       <2>9, <2>10, <2>11, <2>12, <2>13, <2>14, <2>15 DEF ConsumerStep
<1>5. CASE SpuriousWake
  BY <1>5, <1>0 DEF SpuriousWake, WakeConsumer
<1>6. ASSUME NEW r \in Reloaders, ReloadParse(r) \/ ReloadStep(r)
      PROVE  MainPlaces'
  <2>1. CASE ReloadParse(r)
    BY <2>1, <1>0, SizesAssumption DEF ReloadParse
  <2>2. CASE ReloadUnbind(r)
    BY <2>2, <1>0 DEF ReloadUnbind
  <2>3. CASE ReloadLock(r)
    BY <2>3, <1>0 DEF ReloadLock
  <2>4. CASE ReloadClose(r)
    BY <2>4, <1>0 DEF ReloadClose
  <2>5. CASE ReloadInterrupt(r)
    BY <2>5, <1>0 DEF ReloadInterrupt, WakeConsumer
  <2>6. CASE ReloadBind(r)
    BY <2>6, <1>0 DEF ReloadBind
  <2> QED
    BY <1>6, <2>1, <2>2, <2>3, <2>4, <2>5, <2>6 DEF ReloadStep
<1>7. ASSUME NEW h \in Hosts, BrokerChanges(h) PROVE MainPlaces'
  BY <1>7, <1>0 DEF BrokerChanges
<1>8. CASE Tick
  BY <1>8, <1>0 DEF Tick
<1>9. CASE ListenerTurn
  BY <1>9, <1>0 DEF ListenerTurn, ListenerOpen, ListenerEnd, Tokenize
<1>10. CASE UNCHANGED vars
  BY <1>10, <1>0 DEF vars
<1> QED
  BY <1>1, <1>2, <1>3, <1>4, <1>5, <1>6, <1>7, <1>8, <1>9,
     <1>10 DEF Next

-----------------------------------------------------------------------------
(* Accepted messages                                                        *)

(* The messages held are numbered one after the other, after the n gone.    *)
InLine(held, n, total) ==
  /\ n + Len(held) = total
  /\ \A i \in 1 .. Len(held) : held[i] = n + i

(* Taking the oldest message, or adding the next one, keeps them in line.   *)
LEMMA InLineTail ==
  ASSUME NEW held \in Seq(Nat), NEW n \in Nat, NEW total \in Nat,
         held # << >>, InLine(held, n, total)
  PROVE  InLine(Tail(held), n + 1, total)
<1>1. Len(held) \in Nat \ {0} /\ Len(Tail(held)) = Len(held) - 1
  OBVIOUS
<1>2. \A i \in 1 .. Len(Tail(held)) : Tail(held)[i] = held[i + 1]
  OBVIOUS
<1> QED
  BY <1>1, <1>2 DEF InLine

LEMMA InLineAppend ==
  ASSUME NEW held \in Seq(Nat), NEW n \in Nat, NEW total \in Nat,
         InLine(held, n, total)
  PROVE  InLine(Append(held, total + 1), n, total + 1)
<1>1. Len(Append(held, total + 1)) = Len(held) + 1 /\ Len(held) \in Nat
  OBVIOUS
<1>2. \A i \in 1 .. Len(held) : Append(held, total + 1)[i] = held[i]
  OBVIOUS
<1>3. Append(held, total + 1)[Len(held) + 1] = total + 1
  OBVIOUS
<1> QED
  BY <1>1, <1>2, <1>3 DEF InLine

(* What is pending when the consumer holds a message.                       *)
LEMMA PendingSplit ==
  ASSUME NEW m \in Nat, NEW q \in Seq(Nat)
  PROVE  /\ <<m>> \o q \in Seq(Nat) /\ <<m>> \o q # << >>
         /\ Head(<<m>> \o q) = m /\ Tail(<<m>> \o q) = q
         /\ \A e \in Nat : Append(<<m>> \o q, e) = <<m>> \o Append(q, e)
         /\ q # << >> => <<Head(q)>> \o Tail(q) = q
<1>1. <<m>> \o q \in Seq(Nat) /\ <<m>> \o q # << >>
  OBVIOUS
<1>2. Head(<<m>> \o q) = m /\ Tail(<<m>> \o q) = q
  OBVIOUS
<1>3. \A e \in Nat : Append(<<m>> \o q, e) = <<m>> \o Append(q, e)
  OBVIOUS
<1>4. q # << >> => <<Head(q)>> \o Tail(q) = q
  OBVIOUS
<1> QED
  BY <1>1, <1>2, <1>3, <1>4

LEMMA PendingType ==
  ASSUME TypeOK
  PROVE  Pending \in Seq(Nat)
  BY PendingSplit DEF TypeOK, QueueTypes, ConsumeTypes, Pending

LEMMA AcceptedIsInLine ==
  AcceptedInOrder <=> InLine(Pending, published + discarded, pushed)
  BY DEF AcceptedInOrder, InLine

(* Every step leaves the pending messages alone, adds the next one, or      *)
(* takes the oldest.                                                        *)
Gone == published + discarded

LEMMA PendingSteps ==
  ASSUME TypeOK, MsgPlaces, [Next]_vars
  PROVE  \/ Pending' = Pending /\ Gone' = Gone /\ pushed' = pushed
         \/ /\ Pending' = Append(Pending, pushed + 1)
            /\ Gone' = Gone /\ pushed' = pushed + 1
         \/ /\ Pending # << >> /\ Pending' = Tail(Pending)
            /\ Gone' = Gone + 1 /\ pushed' = pushed
<1> DEFINE Goal ==
      \/ Pending' = Pending /\ Gone' = Gone /\ pushed' = pushed
      \/ /\ Pending' = Append(Pending, pushed + 1)
         /\ Gone' = Gone /\ pushed' = pushed + 1
      \/ /\ Pending # << >> /\ Pending' = Tail(Pending)
         /\ Gone' = Gone + 1 /\ pushed' = pushed
<1> SUFFICES Goal
  OBVIOUS
<1>a. /\ queue \in Seq(Nat) /\ pushed \in Nat
      /\ msg \in Nat \cup {NoMsg} /\ NoMsg \notin Nat
      /\ published \in Nat /\ discarded \in Nat
  BY NamesAssumption DEF TypeOK, QueueTypes, ConsumeTypes
<1>b. ASSUME UNCHANGED <<queue, pushed, msg, published, discarded>> PROVE Goal
  BY <1>b DEF Pending, Gone
<1> HIDE DEF Goal
<1>1. CASE MainStep
  <2>1. CASE LoadConfig
    BY <2>1, <1>b DEF LoadConfig, queueVars, consumeVars
  <2>2. CASE LoadCreateQueue
    BY <2>2, <1>b DEF LoadCreateQueue, queueVars, consumeVars
  <2>3. CASE LoadStart
    BY <2>3, <1>b DEF LoadStart, queueVars, consumeVars
  <2>4. CASE ShutdownStop
    BY <2>4, <1>b DEF ShutdownStop, queueVars, consumeVars
  <2>5. CASE ShutdownInterrupt
    BY <2>5, <1>b DEF ShutdownInterrupt, WakeConsumer, queueVars, consumeVars
  <2>6. CASE ShutdownJoin
    BY <2>6, <1>b DEF ShutdownJoin, queueVars, consumeVars
  <2> QED
    BY <1>1, <2>1, <2>2, <2>3, <2>4, <2>5, <2>6 DEF MainStep
<1>2. CASE ShutdownUnbind
  BY <1>2, <1>b DEF ShutdownUnbind, queueVars, consumeVars
<1>3. ASSUME NEW d \in Dispatchers, Handler(d) PROVE Goal
  <2>1. CASE HandlerEnter(d)
    BY <2>1, <1>b DEF HandlerEnter, queueVars, consumeVars
  <2>2. CASE HandlerCheck(d)
    BY <2>2, <1>b DEF HandlerCheck, queueVars, consumeVars
  <2>3. CASE HandlerPush(d)
    <3>1. CASE UNCHANGED queueVars
      BY <2>3, <3>1, <1>b DEF HandlerPush, consumeVars, queueVars
    <3>2. CASE ~UNCHANGED queueVars
      <4>1. queue' = Append(queue, pushed + 1) /\ pushed' = pushed + 1
        BY <2>3, <3>2 DEF HandlerPush
      <4>2. UNCHANGED <<msg, published, discarded>>
        BY <2>3 DEF HandlerPush, consumeVars
      <4>3. Pending' = Append(Pending, pushed + 1)
        <5>1. CASE msg = NoMsg
          BY <4>1, <4>2, <5>1 DEF Pending
        <5>2. CASE msg # NoMsg
          <6>1. msg \in Nat /\ pushed + 1 \in Nat
            BY <1>a, <5>2
          <6>2. Append(<<msg>> \o queue, pushed + 1)
                  = <<msg>> \o Append(queue, pushed + 1)
            BY <1>a, <6>1, PendingSplit
          <6> QED
            BY <4>1, <4>2, <5>2, <6>2 DEF Pending
        <5> QED
          BY <5>1, <5>2
      <4> QED
        BY <4>1, <4>2, <4>3 DEF Goal, Gone
    <3> QED
      BY <3>1, <3>2
  <2>4. CASE HandlerTrip(d)
    BY <2>4, <1>b DEF HandlerTrip, queueVars, consumeVars
  <2> QED
    BY <1>3, <2>1, <2>2, <2>3, <2>4 DEF Handler
<1>4. CASE ConsumerStep
  <2>1. CASE ConsumerTop
    BY <2>1, <1>b DEF ConsumerTop, queueVars, consumeVars
  <2>2. CASE ConsumerConnected
    BY <2>2, <1>b DEF ConsumerConnected, queueVars, consumeVars
  <2>3. CASE BounceLock
    BY <2>3, <1>b DEF BounceLock, Tokenize, queueVars, consumeVars
  <2>4. CASE BounceOpen
    BY <2>4, <1>b DEF BounceOpen, queueVars, consumeVars
  <2>5. CASE ConsumerPop
    <3>1. UNCHANGED <<pushed, published, discarded>> /\ msg = NoMsg
      BY <2>5 DEF ConsumerPop, MsgPlaces
    <3>2. CASE queue = << >>
      BY <2>5, <1>b, <3>1, <3>2 DEF ConsumerPop
    <3>3. CASE queue # << >>
      <4>1. msg' = Head(queue) /\ queue' = Tail(queue)
        BY <2>5, <3>3 DEF ConsumerPop
      <4>2. Head(queue) \in Nat
        BY <1>a, <3>3
      <4>3. Pending' = Pending
        BY <1>a, <3>1, <3>3, <4>1, <4>2, PendingSplit DEF Pending
      <4> QED
        BY <3>1, <4>3 DEF Goal, Gone
    <3> QED
      BY <3>2, <3>3
  <2>6. CASE ConsumerWoken
    <3>1. UNCHANGED <<pushed, published, discarded>> /\ msg = NoMsg
      BY <2>6 DEF ConsumerWoken, MsgPlaces
    <3>2. CASE queue = << >>
      BY <2>6, <1>b, <3>1, <3>2 DEF ConsumerWoken
    <3>3. CASE queue # << >>
      <4>1. msg' = Head(queue) /\ queue' = Tail(queue)
        BY <2>6, <3>3 DEF ConsumerWoken
      <4>2. Head(queue) \in Nat
        BY <1>a, <3>3
      <4>3. Pending' = Pending
        BY <1>a, <3>1, <3>3, <4>1, <4>2, PendingSplit DEF Pending
      <4> QED
        BY <3>1, <4>3 DEF Goal, Gone
    <3> QED
      BY <3>2, <3>3
  <2>7. CASE SendTest
    BY <2>7, <1>b DEF SendTest, queueVars, consumeVars
  <2>8. CASE SendLock
    BY <2>8, <1>b DEF SendLock, queueVars, consumeVars
  <2>9. CASE PublishTakes
    <3>1. msg \in Nat
      BY <2>9, <1>a DEF PublishTakes, MsgPlaces
    <3>2. UNCHANGED <<queue, pushed, discarded>>
      BY <2>9 DEF PublishTakes, queueVars
    <3>3. msg' = NoMsg /\ published' = published + 1
      BY <2>9 DEF PublishTakes
    <3>4. Pending # << >> /\ Pending' = Tail(Pending)
      BY <1>a, <3>1, <3>2, <3>3, PendingSplit DEF Pending
    <3> QED
      BY <1>a, <3>2, <3>3, <3>4 DEF Goal, Gone
  <2>10. CASE PublishFails
    BY <2>10, <1>b DEF PublishFails, SessionFails, queueVars, consumeVars
  <2>11. CASE PublishOnNull
    BY <2>11, <1>b DEF PublishOnNull, queueVars, consumeVars
  <2>12. CASE AbortMessage
    <3>1. UNCHANGED <<queue, pushed, published>> /\ msg' = NoMsg
      BY <2>12 DEF AbortMessage, queueVars
    <3>2. CASE msg = NoMsg
      BY <2>12, <1>b, <3>1, <3>2 DEF AbortMessage
    <3>3. CASE msg # NoMsg
      <4>1. discarded' = discarded + 1
        BY <2>12, <3>3 DEF AbortMessage
      <4>2. Pending # << >> /\ Pending' = Tail(Pending)
        BY <1>a, <3>1, <3>3, PendingSplit DEF Pending
      <4> QED
        BY <1>a, <3>1, <4>1, <4>2 DEF Goal, Gone
    <3> QED
      BY <3>2, <3>3
  <2>13. CASE CloseConnection
    BY <2>13, <1>b DEF CloseConnection, queueVars, consumeVars
  <2>14. CASE DrainOne
    <3>1. msg = NoMsg
      BY <2>14 DEF DrainOne, MsgPlaces
    <3>2. /\ queue # << >> /\ queue' = Tail(queue) /\ discarded' = discarded + 1
          /\ UNCHANGED <<pushed, msg, published>>
      BY <2>14 DEF DrainOne
    <3> QED
      BY <1>a, <3>1, <3>2 DEF Goal, Gone, Pending
  <2>15. CASE DrainEnd
    BY <2>15, <1>b DEF DrainEnd, queueVars, consumeVars
  <2> QED
    BY <1>4, <2>1, <2>2, <2>3, <2>4, <2>5, <2>6, <2>7, <2>8,
       <2>9, <2>10, <2>11, <2>12, <2>13, <2>14, <2>15 DEF ConsumerStep
<1>5. CASE SpuriousWake
  BY <1>5, <1>b DEF SpuriousWake, WakeConsumer, queueVars, consumeVars
<1>6. ASSUME NEW r \in Reloaders, ReloadParse(r) \/ ReloadStep(r)
      PROVE  Goal
  <2>1. CASE ReloadParse(r)
    BY <2>1, <1>b DEF ReloadParse, queueVars, consumeVars
  <2>2. CASE ReloadUnbind(r)
    BY <2>2, <1>b DEF ReloadUnbind, queueVars, consumeVars
  <2>3. CASE ReloadLock(r)
    BY <2>3, <1>b DEF ReloadLock, queueVars, consumeVars
  <2>4. CASE ReloadClose(r)
    BY <2>4, <1>b DEF ReloadClose, queueVars, consumeVars
  <2>5. CASE ReloadInterrupt(r)
    BY <2>5, <1>b DEF ReloadInterrupt, WakeConsumer, queueVars, consumeVars
  <2>6. CASE ReloadBind(r)
    BY <2>6, <1>b DEF ReloadBind, queueVars, consumeVars
  <2> QED
    BY <1>6, <2>1, <2>2, <2>3, <2>4, <2>5, <2>6 DEF ReloadStep
<1>7. ASSUME NEW h \in Hosts, BrokerChanges(h) PROVE Goal
  BY <1>7, <1>b DEF BrokerChanges, queueVars, consumeVars
<1>8. CASE Tick
  BY <1>8, <1>b DEF Tick, queueVars, consumeVars
<1>9. CASE ListenerTurn
  BY <1>9, <1>b DEF ListenerTurn, ListenerOpen, ListenerEnd, Tokenize, queueVars, consumeVars
<1>10. CASE UNCHANGED vars
  BY <1>10, <1>b DEF vars, queueVars, consumeVars
<1> QED
  BY <1>1, <1>2, <1>3, <1>4, <1>5, <1>6, <1>7, <1>8, <1>9,
     <1>10 DEF Next

(* The account of accepted messages is kept by every step.                  *)
LEMMA AcceptedKept ==
  ASSUME TypeOK, MsgPlaces, AcceptedInOrder, [Next]_vars
  PROVE  AcceptedInOrder'
<1>1. Pending \in Seq(Nat) /\ Gone \in Nat /\ pushed \in Nat
  BY PendingType DEF TypeOK, QueueTypes, ConsumeTypes, Gone
<1>2. InLine(Pending, Gone, pushed)
  BY AcceptedIsInLine DEF Gone
<1>3. InLine(Pending', Gone', pushed')
  BY <1>1, <1>2, PendingSteps, InLineAppend, InLineTail
<1> QED
  BY <1>3 DEF InLine, AcceptedInOrder, Gone

-----------------------------------------------------------------------------
(* Handlers and the queue                                                   *)

(* A handler past its check runs between load and shutdown.                 *)
LEMMA QueueUseKept ==
  ASSUME TypeOK, MainPlaces, QueueOnlyWhileRunning, [Next]_vars
  PROVE  QueueOnlyWhileRunning'
<1> USE DEF QueueOnlyWhileRunning, MainPlaces, HandlersOut, mainVars, handlerVars
<1>0. /\ hpc \in [Dispatchers -> {"idle", "check", "push", "trip"}]
      /\ capacity \in Nat /\ queueSize \in Nat
  BY DEF TypeOK, MainTypes, ConfigTypes, HandlerTypes
<1>1. CASE MainStep
  <2>1. CASE LoadConfig
    BY <2>1, <1>0 DEF LoadConfig
  <2>2. CASE LoadCreateQueue
    BY <2>2, <1>0 DEF LoadCreateQueue
  <2>3. CASE LoadStart
    BY <2>3, <1>0 DEF LoadStart
  <2>4. CASE ShutdownStop
    BY <2>4, <1>0 DEF ShutdownStop
  <2>5. CASE ShutdownInterrupt
    BY <2>5, <1>0 DEF ShutdownInterrupt, WakeConsumer
  <2>6. CASE ShutdownJoin
    BY <2>6, <1>0 DEF ShutdownJoin
  <2> QED
    BY <1>1, <2>1, <2>2, <2>3, <2>4, <2>5, <2>6 DEF MainStep
<1>2. CASE ShutdownUnbind
  BY <1>2, <1>0 DEF ShutdownUnbind
<1>3. ASSUME NEW d \in Dispatchers, Handler(d) PROVE QueueOnlyWhileRunning'
  <2>1. CASE HandlerEnter(d)
    BY <2>1, <1>0 DEF HandlerEnter
  <2>2. CASE HandlerCheck(d)
    BY <2>2, <1>0 DEF HandlerCheck
  <2>3. CASE HandlerPush(d)
    BY <2>3, <1>0 DEF HandlerPush, WakeConsumer
  <2>4. CASE HandlerTrip(d)
    BY <2>4, <1>0 DEF HandlerTrip
  <2> QED
    BY <1>3, <2>1, <2>2, <2>3, <2>4 DEF Handler
<1>4. CASE ConsumerStep
  <2>1. CASE ConsumerTop
    BY <2>1, <1>0 DEF ConsumerTop
  <2>2. CASE ConsumerConnected
    BY <2>2, <1>0 DEF ConsumerConnected
  <2>3. CASE BounceLock
    BY <2>3, <1>0 DEF BounceLock, Tokenize
  <2>4. CASE BounceOpen
    BY <2>4, <1>0 DEF BounceOpen
  <2>5. CASE ConsumerPop
    BY <2>5, <1>0 DEF ConsumerPop
  <2>6. CASE ConsumerWoken
    BY <2>6, <1>0 DEF ConsumerWoken
  <2>7. CASE SendTest
    BY <2>7, <1>0 DEF SendTest
  <2>8. CASE SendLock
    BY <2>8, <1>0 DEF SendLock
  <2>9. CASE PublishTakes
    BY <2>9, <1>0 DEF PublishTakes
  <2>10. CASE PublishFails
    BY <2>10, <1>0 DEF PublishFails, SessionFails
  <2>11. CASE PublishOnNull
    BY <2>11, <1>0 DEF PublishOnNull
  <2>12. CASE AbortMessage
    BY <2>12, <1>0 DEF AbortMessage
  <2>13. CASE CloseConnection
    BY <2>13, <1>0 DEF CloseConnection
  <2>14. CASE DrainOne
    BY <2>14, <1>0 DEF DrainOne
  <2>15. CASE DrainEnd
    BY <2>15, <1>0 DEF DrainEnd
  <2> QED
    BY <1>4, <2>1, <2>2, <2>3, <2>4, <2>5, <2>6, <2>7, <2>8,
       <2>9, <2>10, <2>11, <2>12, <2>13, <2>14, <2>15 DEF ConsumerStep
<1>5. CASE SpuriousWake
  BY <1>5, <1>0 DEF SpuriousWake, WakeConsumer
<1>6. ASSUME NEW r \in Reloaders, ReloadParse(r) \/ ReloadStep(r)
      PROVE  QueueOnlyWhileRunning'
  <2>1. CASE ReloadParse(r)
    BY <2>1, <1>0 DEF ReloadParse
  <2>2. CASE ReloadUnbind(r)
    BY <2>2, <1>0 DEF ReloadUnbind
  <2>3. CASE ReloadLock(r)
    BY <2>3, <1>0 DEF ReloadLock
  <2>4. CASE ReloadClose(r)
    BY <2>4, <1>0 DEF ReloadClose
  <2>5. CASE ReloadInterrupt(r)
    BY <2>5, <1>0 DEF ReloadInterrupt, WakeConsumer
  <2>6. CASE ReloadBind(r)
    BY <2>6, <1>0 DEF ReloadBind
  <2> QED
    BY <1>6, <2>1, <2>2, <2>3, <2>4, <2>5, <2>6 DEF ReloadStep
<1>7. ASSUME NEW h \in Hosts, BrokerChanges(h) PROVE QueueOnlyWhileRunning'
  BY <1>7, <1>0 DEF BrokerChanges
<1>8. CASE Tick
  BY <1>8, <1>0 DEF Tick
<1>9. CASE ListenerTurn
  BY <1>9, <1>0 DEF ListenerTurn, ListenerOpen, ListenerEnd, Tokenize
<1>10. CASE UNCHANGED vars
  BY <1>10, <1>0 DEF vars
<1> QED
  BY <1>1, <1>2, <1>3, <1>4, <1>5, <1>6, <1>7, <1>8, <1>9,
     <1>10 DEF Next

-----------------------------------------------------------------------------
(* Refinement                                                               *)

(* Every step of mod_amqp is a step of the relay, or none of its business.  *)
LEMMA RelayStep ==
  ASSUME TypeOK, MsgPlaces, MainPlaces, QueueOnlyWhileRunning, [Next]_vars
  PROVE  [Relay!RelayNext]_(Relay!relayVars)
<1> DEFINE Goal == [Relay!RelayNext]_(Relay!relayVars)
<1> SUFFICES Goal
  OBVIOUS
<1>a. /\ queue \in Seq(Nat) /\ pushed \in Nat /\ capacity \in Nat
      /\ msg \in Nat \cup {NoMsg} /\ NoMsg \notin Nat
      /\ published \in Nat /\ discarded \in Nat
  BY NamesAssumption DEF TypeOK, MainTypes, QueueTypes, ConsumeTypes
<1>b. ASSUME UNCHANGED <<queue, pushed, msg, published, discarded>>,
             UNCHANGED <<running, capacity>>,
             cpc = "unborn" <=> cpc' = "unborn"
      PROVE  Goal
  BY <1>b DEF Pending, Phase, Room, Relay!relayVars
<1>c. ASSUME Relay!RelayNext PROVE Goal
  BY <1>c
<1>d. /\ cpc = "unborn" <=> main \in {"config", "create", "start"}
      /\ cpc \in {"abort", "close", "drain", "done"} => ~running
      /\ running <=> main \in {"loaded", "stop"}
  BY DEF MainPlaces
<1>e. cpc # "unborn" => Phase \in {"open", "closed"}
  BY DEF Phase
<1> HIDE DEF Goal
<1>1. CASE MainStep
  <2>1. CASE LoadConfig
    BY <2>1, <1>b DEF LoadConfig,
        queueVars, consumeVars, mainVars
  <2>2. CASE LoadCreateQueue
    <3>1. UNCHANGED <<Pending, Phase, pushed, published, discarded>>
      BY <2>2, <1>d DEF LoadCreateQueue, Pending, Phase, queueVars, consumeVars
    <3>2. UNCHANGED Room
      BY <2>2, <1>d DEF LoadCreateQueue, Room
    <3> QED
      BY <3>1, <3>2 DEF Goal, Relay!relayVars
  <2>3. CASE LoadStart
    <3>1. UNCHANGED <<Pending, pushed, published, discarded>>
      BY <2>3 DEF LoadStart, Pending, queueVars, consumeVars
    <3>2. Phase = "new" /\ Phase' = "open" /\ Room' \in Nat \ {0}
      BY <2>3, <1>a, <1>d DEF LoadStart, Phase, Room
    <3> QED
      BY <1>c, <3>1, <3>2 DEF Relay!RelayNext, Relay!Open
  <2>4. CASE ShutdownStop
    <3>1. UNCHANGED <<Pending, Room, pushed, published, discarded>>
      BY <2>4 DEF ShutdownStop, Pending, Room, queueVars, consumeVars
    <3>2. Phase = "open" /\ Phase' = "closed"
      BY <2>4, <1>d DEF ShutdownStop, Phase
    <3> QED
      BY <1>c, <3>1, <3>2 DEF Relay!RelayNext, Relay!Close
  <2>5. CASE ShutdownInterrupt
    BY <2>5, <1>b DEF ShutdownInterrupt, WakeConsumer,
        queueVars, consumeVars, mainVars
  <2>6. CASE ShutdownJoin
    BY <2>6, <1>b DEF ShutdownJoin,
        queueVars, consumeVars, mainVars
  <2> QED
    BY <1>1, <2>1, <2>2, <2>3, <2>4, <2>5, <2>6 DEF MainStep
<1>2. CASE ShutdownUnbind
  BY <1>2, <1>b DEF ShutdownUnbind,
        queueVars, consumeVars, mainVars
<1>3. ASSUME NEW d \in Dispatchers, Handler(d) PROVE Goal
  <2>1. CASE HandlerEnter(d)
    BY <2>1, <1>b DEF HandlerEnter,
        queueVars, consumeVars, mainVars
  <2>2. CASE HandlerCheck(d)
    BY <2>2, <1>b DEF HandlerCheck,
        queueVars, consumeVars, mainVars
  <2>3. CASE HandlerPush(d)
    <3>1. CASE UNCHANGED <<queue, pushed>>
      <4>1. cpc = "unborn" <=> cpc' = "unborn"
        BY <2>3 DEF HandlerPush, WakeConsumer
      <4>2. UNCHANGED <<msg, published, discarded, running, capacity>>
        BY <2>3 DEF HandlerPush, mainVars, consumeVars
      <4> QED
        BY <1>b, <3>1, <4>1, <4>2
    <3>2. CASE ~UNCHANGED <<queue, pushed>>
      <4>1. /\ queue' = Append(queue, pushed + 1) /\ pushed' = pushed + 1
            /\ Len(queue) < capacity
        BY <2>3, <3>2 DEF HandlerPush, queueVars
      <4>2. UNCHANGED <<msg, published, discarded, running, capacity>>
        BY <2>3 DEF HandlerPush, consumeVars, mainVars
      <4>3. Pending' = Append(Pending, pushed + 1)
        <5>1. CASE msg = NoMsg
          BY <4>1, <4>2, <5>1 DEF Pending
        <5>2. CASE msg # NoMsg
          <6>1. msg \in Nat /\ pushed + 1 \in Nat
            BY <1>a, <5>2
          <6>2. Append(<<msg>> \o queue, pushed + 1)
                  = <<msg>> \o Append(queue, pushed + 1)
            BY <1>a, <6>1, PendingSplit
          <6> QED
            BY <4>1, <4>2, <5>2, <6>2 DEF Pending
        <5> QED
          BY <5>1, <5>2
      <4>4. running /\ cpc # "unborn"
        BY <2>3, <1>d DEF HandlerPush, QueueOnlyWhileRunning
      <4>5. cpc' # "unborn"
        BY <2>3, <4>4 DEF HandlerPush, WakeConsumer
      <4>6. Phase = "open" /\ UNCHANGED <<Phase, Room>> /\ Room = capacity + 1
        BY <4>2, <4>4, <4>5 DEF Phase, Room
      <4>7. Len(Pending) <= Len(queue) + 1
        BY <1>a DEF Pending
      <4>8. Len(Pending) < Room
        BY <1>a, <4>1, <4>6, <4>7, PendingType
      <4> QED
        BY <1>c, <4>1, <4>2, <4>3, <4>6, <4>8 DEF Relay!RelayNext, Relay!Accept
    <3> QED
      BY <3>1, <3>2
  <2>4. CASE HandlerTrip(d)
    BY <2>4, <1>b DEF HandlerTrip,
        queueVars, consumeVars, mainVars
  <2> QED
    BY <1>3, <2>1, <2>2, <2>3, <2>4 DEF Handler
<1>4. CASE ConsumerStep
  <2>1. CASE ConsumerTop
    BY <2>1, <1>b DEF ConsumerTop,
        queueVars, consumeVars, mainVars
  <2>2. CASE ConsumerConnected
    BY <2>2, <1>b DEF ConsumerConnected,
        queueVars, consumeVars, mainVars
  <2>3. CASE BounceLock
    BY <2>3, <1>b DEF BounceLock, Tokenize,
        queueVars, consumeVars, mainVars
  <2>4. CASE BounceOpen
    BY <2>4, <1>b DEF BounceOpen,
        queueVars, consumeVars, mainVars
  <2>5. CASE ConsumerPop
    <3>1. /\ UNCHANGED <<pushed, published, discarded, running, capacity>>
          /\ msg = NoMsg /\ cpc # "unborn" /\ cpc' # "unborn"
      BY <2>5 DEF ConsumerPop, MsgPlaces, mainVars
    <3>2. CASE queue = << >>
      <4>1. UNCHANGED <<queue, msg>>
        BY <2>5, <3>2 DEF ConsumerPop
      <4> QED
        BY <1>b, <3>1, <4>1
    <3>3. CASE queue # << >>
      <4>1. msg' = Head(queue) /\ queue' = Tail(queue)
        BY <2>5, <3>3 DEF ConsumerPop
      <4>2. Head(queue) \in Nat
        BY <1>a, <3>3
      <4>3. Pending' = Pending
        BY <1>a, <3>1, <3>3, <4>1, <4>2, PendingSplit DEF Pending
      <4>4. UNCHANGED <<Phase, Room>>
        BY <3>1 DEF Phase, Room
      <4> QED
        BY <3>1, <4>3, <4>4 DEF Goal, Relay!relayVars
    <3> QED
      BY <3>2, <3>3
  <2>6. CASE ConsumerWoken
    <3>1. /\ UNCHANGED <<pushed, published, discarded, running, capacity>>
          /\ msg = NoMsg /\ cpc # "unborn" /\ cpc' # "unborn"
      BY <2>6 DEF ConsumerWoken, MsgPlaces, mainVars
    <3>2. CASE queue = << >>
      <4>1. UNCHANGED <<queue, msg>>
        BY <2>6, <3>2 DEF ConsumerWoken
      <4> QED
        BY <1>b, <3>1, <4>1
    <3>3. CASE queue # << >>
      <4>1. msg' = Head(queue) /\ queue' = Tail(queue)
        BY <2>6, <3>3 DEF ConsumerWoken
      <4>2. Head(queue) \in Nat
        BY <1>a, <3>3
      <4>3. Pending' = Pending
        BY <1>a, <3>1, <3>3, <4>1, <4>2, PendingSplit DEF Pending
      <4>4. UNCHANGED <<Phase, Room>>
        BY <3>1 DEF Phase, Room
      <4> QED
        BY <3>1, <4>3, <4>4 DEF Goal, Relay!relayVars
    <3> QED
      BY <3>2, <3>3
  <2>7. CASE SendTest
    BY <2>7, <1>b DEF SendTest,
        queueVars, consumeVars, mainVars
  <2>8. CASE SendLock
    BY <2>8, <1>b DEF SendLock,
        queueVars, consumeVars, mainVars
  <2>9. CASE PublishTakes
    <3>1. msg \in Nat
      BY <2>9, <1>a DEF PublishTakes, MsgPlaces
    <3>2. UNCHANGED <<queue, pushed, discarded, running, capacity>>
      BY <2>9 DEF PublishTakes, queueVars, mainVars
    <3>3. msg' = NoMsg /\ published' = published + 1
      BY <2>9 DEF PublishTakes
    <3>4. Pending # << >> /\ Pending' = Tail(Pending)
      BY <1>a, <3>1, <3>2, <3>3, PendingSplit DEF Pending
    <3>5. UNCHANGED <<Phase, Room>> /\ Phase \in {"open", "closed"}
      BY <2>9, <3>2 DEF PublishTakes, Phase, Room
    <3> QED
      BY <1>c, <3>2, <3>3, <3>4, <3>5 DEF Relay!RelayNext, Relay!HandOn
  <2>10. CASE PublishFails
    BY <2>10, <1>b DEF PublishFails, SessionFails,
        queueVars, consumeVars, mainVars
  <2>11. CASE PublishOnNull
    BY <2>11, <1>b DEF PublishOnNull,
        queueVars, consumeVars, mainVars
  <2>12. CASE AbortMessage
    <3>1. UNCHANGED <<queue, pushed, published, running, capacity>> /\ msg' = NoMsg
      BY <2>12 DEF AbortMessage, queueVars, mainVars
    <3>2. CASE msg = NoMsg
      <4>1. UNCHANGED <<msg, discarded>> /\ cpc # "unborn" /\ cpc' # "unborn"
        BY <2>12, <3>2 DEF AbortMessage
      <4> QED
        BY <1>b, <3>1, <4>1
    <3>3. CASE msg # NoMsg
      <4>1. discarded' = discarded + 1
        BY <2>12, <3>3 DEF AbortMessage
      <4>2. Pending # << >> /\ Pending' = Tail(Pending)
        BY <1>a, <3>1, <3>3, PendingSplit DEF Pending
      <4>3. UNCHANGED <<Phase, Room>> /\ Phase = "closed"
        BY <2>12, <1>d, <3>1 DEF AbortMessage, Phase, Room
      <4> QED
        BY <1>c, <3>1, <4>1, <4>2, <4>3 DEF Relay!RelayNext, Relay!Discard
    <3> QED
      BY <3>2, <3>3
  <2>13. CASE CloseConnection
    BY <2>13, <1>b DEF CloseConnection,
        queueVars, consumeVars, mainVars
  <2>14. CASE DrainOne
    <3>1. msg = NoMsg
      BY <2>14 DEF DrainOne, MsgPlaces
    <3>2. /\ queue # << >> /\ queue' = Tail(queue) /\ discarded' = discarded + 1
          /\ UNCHANGED <<pushed, msg, published, running, capacity, cpc>>
      BY <2>14 DEF DrainOne, mainVars
    <3>3. Pending # << >> /\ Pending' = Tail(Pending)
      BY <3>1, <3>2 DEF Pending
    <3>4. UNCHANGED <<Phase, Room>> /\ Phase = "closed"
      BY <2>14, <1>d, <3>2 DEF DrainOne, Phase, Room
    <3> QED
      BY <1>c, <3>2, <3>3, <3>4 DEF Relay!RelayNext, Relay!Discard
  <2>15. CASE DrainEnd
    BY <2>15, <1>b DEF DrainEnd,
        queueVars, consumeVars, mainVars
  <2> QED
    BY <1>4, <2>1, <2>2, <2>3, <2>4, <2>5, <2>6, <2>7, <2>8,
       <2>9, <2>10, <2>11, <2>12, <2>13, <2>14, <2>15 DEF ConsumerStep
<1>5. CASE SpuriousWake
  BY <1>5, <1>b DEF SpuriousWake, WakeConsumer,
        queueVars, consumeVars, mainVars
<1>6. ASSUME NEW r \in Reloaders, ReloadParse(r) \/ ReloadStep(r)
      PROVE  Goal
  <2>1. CASE ReloadParse(r)
    BY <2>1, <1>b DEF ReloadParse,
        queueVars, consumeVars, mainVars
  <2>2. CASE ReloadUnbind(r)
    BY <2>2, <1>b DEF ReloadUnbind,
        queueVars, consumeVars, mainVars
  <2>3. CASE ReloadLock(r)
    BY <2>3, <1>b DEF ReloadLock,
        queueVars, consumeVars, mainVars
  <2>4. CASE ReloadClose(r)
    BY <2>4, <1>b DEF ReloadClose,
        queueVars, consumeVars, mainVars
  <2>5. CASE ReloadInterrupt(r)
    BY <2>5, <1>b DEF ReloadInterrupt, WakeConsumer,
        queueVars, consumeVars, mainVars
  <2>6. CASE ReloadBind(r)
    BY <2>6, <1>b DEF ReloadBind,
        queueVars, consumeVars, mainVars
  <2> QED
    BY <1>6, <2>1, <2>2, <2>3, <2>4, <2>5, <2>6 DEF ReloadStep
<1>7. ASSUME NEW h \in Hosts, BrokerChanges(h) PROVE Goal
  BY <1>7, <1>b DEF BrokerChanges,
        queueVars, consumeVars, mainVars
<1>8. CASE Tick
  BY <1>8, <1>b DEF Tick,
        queueVars, consumeVars, mainVars
<1>9. CASE ListenerTurn
  BY <1>9, <1>b DEF ListenerTurn, ListenerOpen, ListenerEnd, Tokenize,
        queueVars, consumeVars, mainVars
<1>10. CASE UNCHANGED vars
  BY <1>10, <1>b DEF vars,
        queueVars, consumeVars, mainVars
<1> QED
  BY <1>1, <1>2, <1>3, <1>4, <1>5, <1>6, <1>7, <1>8, <1>9,
     <1>10 DEF Next

-----------------------------------------------------------------------------
(* Bindings and the drain                                                   *)

(* With one reloader nothing is bound between its unbind and its bind.      *)
BindingPlaces ==
  /\ bindings <= 1
  /\ main = "config" => bindings = 0
  /\ \A r \in Reloaders :
       rpc[r] \in {"lock", "close", "interrupt", "bind"} => bindings = 0

(* The queue keeps to its size, and what the consumer has left to pop when  *)
(* it drains covers what is queued.                                         *)
DrainPlaces ==
  /\ Len(queue) <= capacity
  /\ (cpc = "drain" /\ queueSize >= capacity) => Len(queue) <= toPop
  /\ (cpc = "done" /\ queueSize >= capacity) => queue = << >>

LEMMA BindingKept ==
  ASSUME \A r, s \in Reloaders : r = s,
         TypeOK, MainPlaces, BindingPlaces, [Next]_vars
  PROVE  BindingPlaces'
<1> USE DEF BindingPlaces, MainPlaces, configVars, mainVars
<1>0. /\ rpc \in [Reloaders -> {"idle", "unbind", "lock", "close", "interrupt",
                                "bind"}]
      /\ bindings \in Nat
      /\ \A r, s \in Reloaders : r = s
  BY DEF TypeOK, ConfigTypes
<1>1. CASE MainStep
  <2>1. CASE LoadConfig
    BY <2>1, <1>0, SizesAssumption DEF LoadConfig
  <2>2. CASE LoadCreateQueue
    BY <2>2, <1>0 DEF LoadCreateQueue
  <2>3. CASE LoadStart
    BY <2>3, <1>0 DEF LoadStart
  <2>4. CASE ShutdownStop
    BY <2>4, <1>0 DEF ShutdownStop
  <2>5. CASE ShutdownInterrupt
    BY <2>5, <1>0 DEF ShutdownInterrupt, WakeConsumer
  <2>6. CASE ShutdownJoin
    BY <2>6, <1>0 DEF ShutdownJoin
  <2> QED
    BY <1>1, <2>1, <2>2, <2>3, <2>4, <2>5, <2>6 DEF MainStep
<1>2. CASE ShutdownUnbind
  BY <1>2, <1>0 DEF ShutdownUnbind
<1>3. ASSUME NEW d \in Dispatchers, Handler(d) PROVE BindingPlaces'
  <2>1. CASE HandlerEnter(d)
    BY <2>1, <1>0 DEF HandlerEnter
  <2>2. CASE HandlerCheck(d)
    BY <2>2, <1>0 DEF HandlerCheck
  <2>3. CASE HandlerPush(d)
    BY <2>3, <1>0 DEF HandlerPush, WakeConsumer
  <2>4. CASE HandlerTrip(d)
    BY <2>4, <1>0 DEF HandlerTrip
  <2> QED
    BY <1>3, <2>1, <2>2, <2>3, <2>4 DEF Handler
<1>4. CASE ConsumerStep
  <2>1. CASE ConsumerTop
    BY <2>1, <1>0 DEF ConsumerTop
  <2>2. CASE ConsumerConnected
    BY <2>2, <1>0 DEF ConsumerConnected
  <2>3. CASE BounceLock
    BY <2>3, <1>0 DEF BounceLock, Tokenize
  <2>4. CASE BounceOpen
    BY <2>4, <1>0 DEF BounceOpen
  <2>5. CASE ConsumerPop
    BY <2>5, <1>0 DEF ConsumerPop
  <2>6. CASE ConsumerWoken
    BY <2>6, <1>0 DEF ConsumerWoken
  <2>7. CASE SendTest
    BY <2>7, <1>0 DEF SendTest
  <2>8. CASE SendLock
    BY <2>8, <1>0 DEF SendLock
  <2>9. CASE PublishTakes
    BY <2>9, <1>0 DEF PublishTakes
  <2>10. CASE PublishFails
    BY <2>10, <1>0 DEF PublishFails, SessionFails
  <2>11. CASE PublishOnNull
    BY <2>11, <1>0 DEF PublishOnNull
  <2>12. CASE AbortMessage
    BY <2>12, <1>0 DEF AbortMessage
  <2>13. CASE CloseConnection
    BY <2>13, <1>0 DEF CloseConnection
  <2>14. CASE DrainOne
    BY <2>14, <1>0 DEF DrainOne
  <2>15. CASE DrainEnd
    BY <2>15, <1>0 DEF DrainEnd
  <2> QED
    BY <1>4, <2>1, <2>2, <2>3, <2>4, <2>5, <2>6, <2>7, <2>8, <2>9, <2>10,
    <2>11, <2>12, <2>13, <2>14, <2>15 DEF ConsumerStep
<1>5. CASE SpuriousWake
  BY <1>5, <1>0 DEF SpuriousWake, WakeConsumer
<1>6. ASSUME NEW r \in Reloaders, ReloadParse(r) \/ ReloadStep(r)
      PROVE  BindingPlaces'
  <2>1. CASE ReloadParse(r)
    BY <2>1, <1>0, SizesAssumption DEF ReloadParse
  <2>2. CASE ReloadUnbind(r)
    BY <2>2, <1>0 DEF ReloadUnbind
  <2>3. CASE ReloadLock(r)
    BY <2>3, <1>0 DEF ReloadLock
  <2>4. CASE ReloadClose(r)
    BY <2>4, <1>0 DEF ReloadClose
  <2>5. CASE ReloadInterrupt(r)
    BY <2>5, <1>0 DEF ReloadInterrupt, WakeConsumer
  <2>6. CASE ReloadBind(r)
    BY <2>6, <1>0 DEF ReloadBind
  <2> QED
    BY <1>6, <2>1, <2>2, <2>3, <2>4, <2>5, <2>6 DEF ReloadStep
<1>7. ASSUME NEW h \in Hosts, BrokerChanges(h) PROVE BindingPlaces'
  BY <1>7, <1>0 DEF BrokerChanges
<1>8. CASE Tick
  BY <1>8, <1>0 DEF Tick
<1>9. CASE ListenerTurn
  BY <1>9, <1>0 DEF ListenerTurn, ListenerOpen, ListenerEnd, Tokenize
<1>10. CASE UNCHANGED vars
  BY <1>10, <1>0 DEF vars
<1> QED
  BY <1>1, <1>2, <1>3, <1>4, <1>5, <1>6, <1>7, <1>8, <1>9,
     <1>10 DEF Next

(* Once it drains, no handler is left that could push and no reload that    *)
(* could change the size.                                                   *)
LEMMA DrainingIsQuiet ==
  ASSUME TypeOK, MainPlaces, cpc \in {"close", "drain", "done"}
  PROVE  HandlersOut /\ main # "config" /\ main # "create" /\ main # "loaded"
  BY DEF TypeOK, MainTypes, MainPlaces

LEMMA DrainKept ==
  ASSUME TypeOK, MainPlaces, DrainPlaces, [Next]_vars
  PROVE  DrainPlaces'
<1> USE DEF DrainPlaces, configVars, mainVars, queueVars, consumeVars
<1>0. /\ queue \in Seq(Nat) /\ toPop \in Nat /\ capacity \in Nat
      /\ queueSize \in Nat /\ Len(queue) \in Nat
      /\ rpc \in [Reloaders -> {"idle", "unbind", "lock", "close", "interrupt",
                                "bind"}]
      /\ cpc \in {"close", "drain", "done"} =>
           HandlersOut /\ main # "config" /\ main # "create" /\ main # "loaded"
      /\ cpc = "unborn" <=> main \in {"config", "create", "start"}
      /\ main \in {"config", "create"} <=> capacity = 0
      /\ main # "loaded" => \A r \in Reloaders : rpc[r] = "idle"
  BY DrainingIsQuiet
     DEF TypeOK, QueueTypes, ConsumeTypes, MainTypes, ConfigTypes, MainPlaces
<1>1. CASE MainStep
  <2>1. CASE LoadConfig
    BY <2>1, <1>0, SizesAssumption DEF LoadConfig
  <2>2. CASE LoadCreateQueue
    BY <2>2, <1>0 DEF LoadCreateQueue
  <2>3. CASE LoadStart
    BY <2>3, <1>0 DEF LoadStart
  <2>4. CASE ShutdownStop
    BY <2>4, <1>0 DEF ShutdownStop
  <2>5. CASE ShutdownInterrupt
    BY <2>5, <1>0 DEF ShutdownInterrupt, WakeConsumer
  <2>6. CASE ShutdownJoin
    BY <2>6, <1>0 DEF ShutdownJoin
  <2> QED
    BY <1>1, <2>1, <2>2, <2>3, <2>4, <2>5, <2>6 DEF MainStep
<1>2. CASE ShutdownUnbind
  BY <1>2, <1>0 DEF ShutdownUnbind
<1>3. ASSUME NEW d \in Dispatchers, Handler(d) PROVE DrainPlaces'
  <2>1. CASE HandlerEnter(d)
    BY <2>1, <1>0 DEF HandlerEnter
  <2>2. CASE HandlerCheck(d)
    BY <2>2, <1>0 DEF HandlerCheck
  <2>3. CASE HandlerPush(d)
    <3>1. cpc \notin {"close", "drain", "done"}
      BY <2>3, <1>0 DEF HandlerPush, HandlersOut
    <3>2. cpc' \notin {"drain", "done"}
      BY <2>3, <3>1 DEF HandlerPush, WakeConsumer
    <3>3. Len(queue') <= capacity
      BY <2>3, <1>0 DEF HandlerPush
    <3> QED
      BY <2>3, <3>2, <3>3 DEF HandlerPush
  <2>4. CASE HandlerTrip(d)
    BY <2>4, <1>0 DEF HandlerTrip
  <2> QED
    BY <1>3, <2>1, <2>2, <2>3, <2>4 DEF Handler
<1>4. CASE ConsumerStep
  <2>1. CASE ConsumerTop
    BY <2>1, <1>0 DEF ConsumerTop
  <2>2. CASE ConsumerConnected
    BY <2>2, <1>0 DEF ConsumerConnected
  <2>3. CASE BounceLock
    BY <2>3, <1>0 DEF BounceLock, Tokenize
  <2>4. CASE BounceOpen
    BY <2>4, <1>0 DEF BounceOpen
  <2>5. CASE ConsumerPop
    BY <2>5, <1>0 DEF ConsumerPop
  <2>6. CASE ConsumerWoken
    BY <2>6, <1>0 DEF ConsumerWoken
  <2>7. CASE SendTest
    BY <2>7, <1>0 DEF SendTest
  <2>8. CASE SendLock
    BY <2>8, <1>0 DEF SendLock
  <2>9. CASE PublishTakes
    BY <2>9, <1>0 DEF PublishTakes
  <2>10. CASE PublishFails
    BY <2>10, <1>0 DEF PublishFails, SessionFails
  <2>11. CASE PublishOnNull
    BY <2>11, <1>0 DEF PublishOnNull
  <2>12. CASE AbortMessage
    BY <2>12, <1>0 DEF AbortMessage
  <2>13. CASE CloseConnection
    BY <2>13, <1>0 DEF CloseConnection
  <2>14. CASE DrainOne
    BY <2>14, <1>0 DEF DrainOne
  <2>15. CASE DrainEnd
    BY <2>15, <1>0 DEF DrainEnd
  <2> QED
    BY <1>4, <2>1, <2>2, <2>3, <2>4, <2>5, <2>6, <2>7, <2>8, <2>9, <2>10,
    <2>11, <2>12, <2>13, <2>14, <2>15 DEF ConsumerStep
<1>5. CASE SpuriousWake
  BY <1>5, <1>0 DEF SpuriousWake, WakeConsumer
<1>6. ASSUME NEW r \in Reloaders, ReloadParse(r) \/ ReloadStep(r)
      PROVE  DrainPlaces'
  <2>1. CASE ReloadParse(r)
    BY <2>1, <1>0, SizesAssumption DEF ReloadParse
  <2>2. CASE ReloadUnbind(r)
    BY <2>2, <1>0 DEF ReloadUnbind
  <2>3. CASE ReloadLock(r)
    BY <2>3, <1>0 DEF ReloadLock
  <2>4. CASE ReloadClose(r)
    BY <2>4, <1>0 DEF ReloadClose
  <2>5. CASE ReloadInterrupt(r)
    BY <2>5, <1>0 DEF ReloadInterrupt, WakeConsumer
  <2>6. CASE ReloadBind(r)
    BY <2>6, <1>0 DEF ReloadBind
  <2> QED
    BY <1>6, <2>1, <2>2, <2>3, <2>4, <2>5, <2>6 DEF ReloadStep
<1>7. ASSUME NEW h \in Hosts, BrokerChanges(h) PROVE DrainPlaces'
  BY <1>7, <1>0 DEF BrokerChanges
<1>8. CASE Tick
  BY <1>8, <1>0 DEF Tick
<1>9. CASE ListenerTurn
  BY <1>9, <1>0 DEF ListenerTurn, ListenerOpen, ListenerEnd, Tokenize
<1>10. CASE UNCHANGED vars
  BY <1>10, <1>0 DEF vars
<1> QED
  BY <1>1, <1>2, <1>3, <1>4, <1>5, <1>6, <1>7, <1>8, <1>9,
     <1>10 DEF Next

-----------------------------------------------------------------------------
(* The theorems                                                             *)

IInv ==
  /\ TypeOK /\ MutexPlaces /\ MsgPlaces /\ MainPlaces
  /\ AcceptedInOrder /\ QueueOnlyWhileRunning

LEMMA Initially == Init => IInv
<1> SUFFICES ASSUME Init PROVE IInv
  OBVIOUS
<1>1. TypeOK
  BY InitTypes
<1>2. MutexPlaces
  BY NamesAssumption DEF Init, MutexPlaces
<1>3. MsgPlaces
  BY DEF Init, MsgPlaces
<1>4. MainPlaces
  BY SizesAssumption DEF Init, MainPlaces
<1>5. AcceptedInOrder
  BY DEF Init, AcceptedInOrder, Pending
<1>6. QueueOnlyWhileRunning
  BY DEF Init, QueueOnlyWhileRunning
<1> QED
  BY <1>1, <1>2, <1>3, <1>4, <1>5, <1>6 DEF IInv

LEMMA Inductive == Spec => []IInv
<1>1. TypeOK /\ TypeOK' /\ IInv /\ [Next]_vars => IInv'
  BY MutexKept, MsgKept, MainKept, AcceptedKept, QueueUseKept DEF IInv
<1> QED
  BY <1>1, Initially, TypeCorrect, PTL DEF Spec

(* No accepted message is lost, duplicated or overtaken while the module    *)
(* runs: mod_AMQP_event_handler numbers them, the consumer thread publishes *)
(* or discards them in that order.                                          *)
THEOREM AcceptedStaysInOrder == Spec => []AcceptedInOrder
  BY Inductive, PTL DEF IInv

(* No handler touches the send queue before mod_amqp_load created it or     *)
(* after mod_amqp_shutdown cleared `running`.                               *)
THEOREM QueueIsThere == Spec => []QueueOnlyWhileRunning
  BY Inductive, PTL DEF IInv

(* When mod_amqp_shutdown has returned, nothing of the module still runs.   *)
THEOREM UnloadIsClean == Spec => []UnloadedIsQuiet
<1>1. IInv => UnloadedIsQuiet
  BY DEF IInv, UnloadedIsQuiet, MainPlaces, MsgPlaces, MutexPlaces, TypeOK,
         ConnTypes
<1> QED
  BY <1>1, Inductive, PTL

(* The connection mod_amqp_send publishes on is not closed by a reload, the *)
(* only other thread that closes it, before the call returns.               *)
THEOREM PublishKeepsConnection == Spec => NoCloseDuringPublish
<1>1. IInv /\ [Next]_vars =>
        [cpc = "publish" /\ cpc' = "publish" => conn' = conn]_vars
  <2> SUFFICES ASSUME IInv, [Next]_vars, cpc = "publish", cpc' = "publish"
               PROVE  conn' = conn
    OBVIOUS
  <2>1. mutex = Consumer /\ \A r \in Reloaders : rpc[r] # "close"
    BY NamesAssumption DEF IInv, MutexPlaces
  <2>2. CASE MainStep \/ ShutdownUnbind \/ SpuriousWake \/ Tick
                  \/ ListenerTurn
    BY <2>2 DEF ListenerTurn, ListenerOpen, ListenerEnd, MainStep, LoadConfig, LoadCreateQueue, LoadStart, ShutdownStop,
                ShutdownInterrupt, ShutdownJoin, ShutdownUnbind, SpuriousWake,
                Tick, connVars
  <2>3. ASSUME NEW d \in Dispatchers, Handler(d) PROVE conn' = conn
    BY <2>3 DEF Handler, HandlerEnter, HandlerCheck, HandlerPush, HandlerTrip,
                connVars
  <2>4. CASE ConsumerStep
    BY <2>4 DEF ConsumerStep, ConsumerTop, ConsumerConnected, BounceLock,
                BounceOpen, ConsumerPop, ConsumerWoken, SendTest, SendLock,
                PublishTakes, PublishFails, PublishOnNull, AbortMessage,
                CloseConnection, DrainOne, DrainEnd, connVars
  <2>5. ASSUME NEW r \in Reloaders, ReloadParse(r) \/ ReloadStep(r)
        PROVE  conn' = conn
    BY <2>1, <2>5 DEF ReloadParse, ReloadStep, ReloadUnbind, ReloadLock,
                      ReloadClose, ReloadInterrupt, ReloadBind, connVars
  <2>6. ASSUME NEW h \in Hosts, BrokerChanges(h) PROVE conn' = conn
    BY <2>6 DEF BrokerChanges
  <2>7. CASE UNCHANGED vars
    BY <2>7 DEF vars, connVars
  <2> QED
    BY <2>2, <2>3, <2>4, <2>5, <2>6, <2>7 DEF Next
<1> QED
  BY <1>1, Inductive, PTL DEF Spec, NoCloseDuringPublish

(* A handler that is past the test of the breaker has found it closed, and  *)
(* only a report made since, which it then overlaps, can have opened it.    *)
PastBreaker ==
  \A d \in Dispatchers :
    /\ hnow[d] <= clock
    /\ hpc[d] \in {"push", "trip"} => hnow[d] >= resetTime \/ d \in overlap

OverlapStep ==
  \A d \in Dispatchers : Reports(d) /\ clock < resetTime => d \in overlap

LEMMA PastBreakerKept ==
  ASSUME TypeOK, PastBreaker, [Next]_vars
  PROVE  PastBreaker' /\ OverlapStep
<1> USE DEF TypeOK, HandlerTypes
<1>a. ASSUME PastBreaker PROVE OverlapStep
  BY <1>a DEF PastBreaker, OverlapStep, Reports
<1>b. OverlapStep
  BY <1>a
<1>1. CASE UNCHANGED <<handlerVars, clock>>
  BY <1>1, <1>b DEF PastBreaker, handlerVars
<1>2. CASE MainStep \/ ShutdownUnbind \/ ListenerTurn
  BY <1>1, <1>2
     DEF MainStep, LoadConfig, LoadCreateQueue, LoadStart, ShutdownStop,
         ShutdownInterrupt, ShutdownJoin, ShutdownUnbind, ListenerTurn,
         ListenerOpen, ListenerEnd, asideVars
<1>3. ASSUME NEW d \in Dispatchers, Handler(d)
      PROVE  PastBreaker'
  <2>1. SUFFICES ASSUME NEW e \in Dispatchers
                 PROVE  /\ hnow'[e] <= clock'
                        /\ hpc'[e] \in {"push", "trip"} =>
                             hnow'[e] >= resetTime' \/ e \in overlap'
    BY DEF PastBreaker
  <2>2. /\ hnow[e] \in Nat /\ hnow[d] \in Nat
        /\ resetTime \in Nat /\ clock \in Nat /\ hnow[e] <= clock
        /\ hpc[e] \in {"push", "trip"} => hnow[e] >= resetTime \/ e \in overlap
    BY DEF PastBreaker
  <2>3. CASE HandlerEnter(d)
    BY <2>2, <2>3 DEF HandlerEnter, asideVars
  <2>4. CASE HandlerCheck(d)
    BY <2>2, <2>4 DEF HandlerCheck, asideVars
  <2>5. CASE HandlerPush(d)
    <3>1. UNCHANGED <<hnow, resetTime, overlap, clock>> /\ hpc[d] = "push"
      BY <2>5 DEF HandlerPush, asideVars
    <3>2. e # d => hpc'[e] = hpc[e]
      BY <2>5 DEF HandlerPush
    <3> QED BY <2>2, <3>1, <3>2
  <2>6. CASE HandlerTrip(d)
    <3>1. /\ UNCHANGED <<hnow, clock>>
          /\ hpc' = [hpc EXCEPT ![d] = "idle"]
          /\ overlap' = {c \in Dispatchers \ {d} : hpc[c] \in {"push", "trip"}}
      BY <2>6 DEF HandlerTrip, asideVars
    <3> QED BY <2>2, <3>1
  <2> QED
    BY <1>3, <2>3, <2>4, <2>5, <2>6 DEF Handler
<1>4. CASE ConsumerStep \/ SpuriousWake
  BY <1>1, <1>4
     DEF ConsumerStep, ConsumerTop, ConsumerConnected, BounceLock, BounceOpen,
         ConsumerPop, ConsumerWoken, SendTest, SendLock, PublishTakes, PublishFails,
         PublishOnNull, AbortMessage, CloseConnection, DrainOne, DrainEnd,
         SpuriousWake, asideVars
<1>5. ASSUME NEW r \in Reloaders, ReloadParse(r) \/ ReloadStep(r)
      PROVE  UNCHANGED <<handlerVars, clock>>
  BY <1>5 DEF ReloadParse, ReloadStep, ReloadUnbind, ReloadLock, ReloadClose,
              ReloadInterrupt, ReloadBind, asideVars
<1>6. ASSUME NEW h \in Hosts, BrokerChanges(h) PROVE UNCHANGED <<handlerVars, clock>>
  BY <1>6 DEF BrokerChanges, asideVars
<1>7. CASE Tick
  <2>1. clock' = clock + 1 /\ UNCHANGED <<hpc, hnow, resetTime, overlap>>
    BY <1>7 DEF Tick, handlerVars
  <2> QED
    BY <2>1, <1>b DEF PastBreaker
<1>8. CASE UNCHANGED vars
  BY <1>1, <1>8 DEF vars, asideVars
<1> QED
  BY <1>1, <1>2, <1>3, <1>4, <1>5, <1>6, <1>7, <1>8, <1>b DEF Next

(* The circuit breaker is tripped, and the full queue reported, once per    *)
(* interval, whatever the number of dispatch threads, but for those that    *)
(* had read circuit_breaker_reset_time before another thread set it.        *)
THEOREM ReportsAreOverlaps == Spec => ReportsOverlap
<1>1. ASSUME Init PROVE PastBreaker
  <2>1. /\ hpc = [d \in Dispatchers |-> "idle"]
        /\ hnow = [d \in Dispatchers |-> 0]
        /\ resetTime = 0 /\ clock = 0
    BY <1>1 DEF Init
  <2>2. ASSUME NEW d \in Dispatchers PROVE hpc[d] = "idle" /\ hnow[d] = 0
    BY <2>1
  <2>3. 0 <= 0
    OBVIOUS
  <2> QED
    BY <2>1, <2>2, <2>3 DEF PastBreaker
<1>2. TypeOK /\ PastBreaker /\ [Next]_vars => PastBreaker'
  BY PastBreakerKept
<1>3. TypeOK /\ PastBreaker /\ [Next]_vars =>
        [\A d \in Dispatchers :
           Reports(d) /\ clock < resetTime => d \in overlap]_vars
  BY PastBreakerKept DEF OverlapStep
<1> QED
  BY <1>1, <1>2, <1>3, TypeCorrect, PTL DEF Spec, ReportsOverlap

(* mod_amqp implements the relay: across reconnects, failed sends, reloads  *)
(* and shutdown it holds at most the queue and one message more, hands them *)
(* on in order, takes none once stopped and gives none up before that.      *)
THEOREM Refinement == Spec => ImplementsRelay
<1>1. Init => Relay!RelayInit
  BY DEF Init, Relay!RelayInit, Phase, Room, Pending
<1>2. IInv /\ [Next]_vars => [Relay!RelayNext]_(Relay!relayVars)
  BY RelayStep DEF IInv
<1> QED
  BY <1>1, <1>2, Inductive, PTL DEF Spec, ImplementsRelay, Relay!RelaySpec

(* A reload that may not overlap another leaves every event bound once: the *)
(* previous bindings are gone before do_config binds again.                 *)
THEOREM OneReloaderBindsOnce ==
  ASSUME \A r, s \in Reloaders : r = s
  PROVE  Spec => []AtMostOneBinding
<1>1. Init => BindingPlaces
  BY DEF Init, BindingPlaces
<1>2. IInv /\ BindingPlaces /\ [Next]_vars => BindingPlaces'
  BY BindingKept DEF IInv
<1>3. BindingPlaces => AtMostOneBinding
  BY DEF BindingPlaces, AtMostOneBinding
<1> QED
  BY <1>1, <1>2, <1>3, Inductive, PTL DEF Spec

(* The consumer thread leaves no message behind, unless a configuration     *)
(* that could not be parsed shrank amqpSendQueueSize below the queue.       *)
THEOREM DrainIsComplete == Spec => []DrainEmptiesQueue
<1>1. Init => DrainPlaces
  BY DEF Init, DrainPlaces
<1>2. IInv /\ DrainPlaces /\ [Next]_vars => DrainPlaces'
  BY DrainKept DEF IInv
<1>3. DrainPlaces => DrainEmptiesQueue
  BY DEF DrainPlaces, DrainEmptiesQueue
<1> QED
  BY <1>1, <1>2, <1>3, Inductive, PTL DEF Spec

=============================================================================
