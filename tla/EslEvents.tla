------------------------------- MODULE EslEvents -------------------------------
(***************************************************************************)
(* Events of the Java ESL client, from the threads of the pool to the      *)
(* listeners: eventReceived of inbound/Client.java.                        *)
(*                                                                         *)
(* The task of an event goes over the listeners registered when it starts  *)
(* (a CopyOnWriteArrayList) and gives an executor of one thread a          *)
(* notification for each: one executor for results of background jobs,     *)
(* another for all other events. A listener may take any time, or never    *)
(* return; what it throws is caught.                                       *)
(*                                                                         *)
(* A listener below stands for one registration: an object that is added   *)
(* twice is in the list twice, and each of the two is called by itself.    *)
(***************************************************************************)
EXTENDS Naturals, Sequences, FiniteSets

CONSTANTS
  Registrations,  \* calls of addEventListener, each with its listener
  PoolSize,       \* threads of the pool in front of the handler (16)
  MaxEvents       \* bound: events the server sends

ASSUME EventsAssumption == PoolSize \in Nat \ {0} /\ MaxEvents \in Nat

Events == 1 .. MaxEvents
Executors == {"event", "job"}

VARIABLES
  eventListeners,  \* in the order of registration
  received,        \* events sent by the server, in order: "event" or "job"
  task,            \* of each event: "none", "waiting", "running" or "done"
  toNotify,        \* of each running task: the listeners still to come
  notifications,   \* per executor: its queue of <<listener, event>>
  notifying,       \* per executor: << >>, or what it is about
  stuck,           \* per executor: its listener never returns
  heard,           \* how often it was called for each <<listener, event>>
  entitled         \* history: who was registered when an event came

eventVars == <<eventListeners, received, task, toNotify, notifications, notifying,
               stuck, heard, entitled>>

RangeOf(s) == {s[i] : i \in DOMAIN s}

EventsInit ==
  /\ eventListeners = << >> /\ received = << >>
  /\ task = [e \in Events |-> "none"] /\ toNotify = [e \in Events |-> << >>]
  /\ notifications = [x \in Executors |-> << >>]
  /\ notifying = [x \in Executors |-> << >>]
  /\ stuck = [x \in Executors |-> FALSE]
  /\ heard = [p \in Registrations \X Events |-> 0] /\ entitled = [e \in Events |-> {}]

(* addEventListener: every call of it adds one entry to the list.           *)
AddEventListener(l) ==
  /\ l \notin RangeOf(eventListeners)
  /\ eventListeners' = Append(eventListeners, l)
  /\ UNCHANGED <<received, task, toNotify, notifications, notifying, stuck, heard,
                 entitled>>

ReceiveEvent(kind) ==
  /\ Len(received) < MaxEvents
  /\ received' = Append(received, kind)
  /\ task' = [task EXCEPT ![Len(received')] = "waiting"]
  /\ entitled' = [entitled EXCEPT ![Len(received')] = RangeOf(eventListeners)]
  /\ UNCHANGED <<eventListeners, toNotify, notifications, notifying, stuck, heard>>

(* The oldest task gets a free thread, and takes the listeners of now.      *)
StartTask(e) ==
  /\ task[e] = "waiting"
  /\ \A d \in 1 .. e - 1 : task[d] # "waiting"
  /\ Cardinality({d \in Events : task[d] = "running"}) < PoolSize
  /\ task' = [task EXCEPT ![e] = "running"]
  /\ toNotify' = [toNotify EXCEPT ![e] = eventListeners]
  /\ UNCHANGED <<eventListeners, received, notifications, notifying, stuck, heard,
                 entitled>>

(* An event named BACKGROUND_JOB goes to an executor of its own.            *)
ExecutorOf(e) == IF received[e] = "job" THEN "job" ELSE "event"

(* Variant: one executor for everything.                                    *)
NotifyOnOne(e) ==
  /\ task[e] = "running" /\ toNotify[e] # << >>
  /\ notifications' =
       [notifications EXCEPT !["event"] = Append(@, <<Head(toNotify[e]), e>>)]
  /\ toNotify' = [toNotify EXCEPT ![e] = Tail(@)]
  /\ UNCHANGED <<eventListeners, received, task, notifying, stuck, heard, entitled>>

(* executor.execute, for the next listener of the loop.                     *)
Notify(e) ==
  /\ task[e] = "running" /\ toNotify[e] # << >>
  /\ notifications' =
       [notifications EXCEPT ![ExecutorOf(e)] = Append(@, <<Head(toNotify[e]), e>>)]
  /\ toNotify' = [toNotify EXCEPT ![e] = Tail(@)]
  /\ UNCHANGED <<eventListeners, received, task, notifying, stuck, heard, entitled>>

EndTask(e) ==
  /\ task[e] = "running" /\ toNotify[e] = << >>
  /\ task' = [task EXCEPT ![e] = "done"]
  /\ UNCHANGED <<eventListeners, received, toNotify, notifications, notifying, stuck,
                 heard, entitled>>

(* Variant: the notification stays in the queue.                            *)
CallListenerAgain(x) ==
  /\ notifying[x] = << >> /\ notifications[x] # << >>
  /\ notifying' = [notifying EXCEPT ![x] = Head(notifications[x])]
  /\ heard' = [heard EXCEPT ![Head(notifications[x])] = @ + 1]
  /\ UNCHANGED <<eventListeners, received, task, toNotify, notifications, stuck,
                 entitled>>

(* The executor's thread calls listener.eventReceived, or                   *)
(* listener.backgroundJobResultReceived.                                    *)
CallListener(x) ==
  /\ notifying[x] = << >> /\ notifications[x] # << >>
  /\ notifying' = [notifying EXCEPT ![x] = Head(notifications[x])]
  /\ notifications' = [notifications EXCEPT ![x] = Tail(@)]
  /\ heard' = [heard EXCEPT ![Head(notifications[x])] = @ + 1]
  /\ UNCHANGED <<eventListeners, received, task, toNotify, stuck, entitled>>

(* The listener returns, or throws, which makes no difference.              *)
ListenerEnds(x) ==
  /\ notifying[x] # << >> /\ ~stuck[x]
  /\ notifying' = [notifying EXCEPT ![x] = << >>]
  /\ UNCHANGED <<eventListeners, received, task, toNotify, notifications, stuck,
                 heard, entitled>>

(* The listener never returns.                                              *)
ListenerHangs(x) ==
  /\ notifying[x] # << >> /\ ~stuck[x]
  /\ stuck' = [stuck EXCEPT ![x] = TRUE]
  /\ UNCHANGED <<eventListeners, received, task, toNotify, notifications, notifying,
                 heard, entitled>>

TaskStep(e) == StartTask(e) \/ Notify(e) \/ EndTask(e)
ExecutorStep(x) == CallListener(x) \/ ListenerEnds(x)

EventsNext ==
  \/ \E l \in Registrations : AddEventListener(l)
  \/ \E kind \in Executors : ReceiveEvent(kind)
  \/ \E e \in Events : TaskStep(e)
  \/ \E x \in Executors : ExecutorStep(x) \/ ListenerHangs(x)

EventsSpec == EventsInit /\ [][EventsNext]_eventVars

(* The threads of the pool and of the executors run, and a listener that    *)
(* does not hang returns.                                                   *)
EventsFairness ==
  /\ \A e \in Events : WF_eventVars(TaskStep(e))
  /\ \A x \in Executors : WF_eventVars(ExecutorStep(x))

EventsFairSpec == EventsSpec /\ EventsFairness

-----------------------------------------------------------------------------
(* Properties                                                               *)

(* A registration is called for an event at most once, however the tasks of *)
(* the pool and registrations interleave; and when an event's task is done, *)
(* every one that was in the list when it came has been called for it or is *)
(* in a queue to be.                                                        *)
HeardOnce ==
  \A l \in Registrations, e \in Events :
    LET Queued(x) == Cardinality({i \in DOMAIN notifications[x] :
                                    notifications[x][i] = <<l, e>>})
        times == heard[<<l, e>>] + Queued("event") + Queued("job")
    IN times <= 1 /\ (task[e] = "done" /\ l \in entitled[e] => times = 1)

(* Every listener that was registered when an event came hears of it,       *)
(* unless a listener of the same kind of event hangs: one that hangs over   *)
(* an event does not hold up the results of background jobs, nor the other  *)
(* way round.                                                               *)
EveryListenerHears ==
  \A l \in Registrations, e \in Events :
    l \in entitled[e] ~>
      (heard[<<l, e>>] > 0 \/ (e \in DOMAIN received /\ stuck[ExecutorOf(e)]))

=============================================================================
