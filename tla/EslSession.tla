------------------------------ MODULE EslSession ------------------------------
(***************************************************************************)
(* One inbound connection of the Java ESL client                           *)
(* (src/dvarnes/java/esl-client): the synchronous command/response api of  *)
(* internal/AbstractEslClientHandler.java, under the thread pool that the  *)
(* pipeline puts in front of it.                                           *)
(*                                                                         *)
(* Threads of the application send commands: each adds a SyncCallback to a *)
(* queue and writes its command, both under syncLock, and waits. Every     *)
(* message of the server becomes a task of the pool; a reply's task polls  *)
(* the oldest callback and hands it the reply. The tasks are taken in the  *)
(* order of receipt and run side by side: the pool orders only Netty's own *)
(* ChannelEventRunnable, and internal/debug/ExecutionHandler.java submits  *)
(* a class of its own. The handshake depends on it: the task of the auth   *)
(* request waits in the pool for the reply to its own command.             *)
(*                                                                         *)
(* A command, its callback and its reply have one number, in the order in  *)
(* which the callbacks are added.                                          *)
(***************************************************************************)
EXTENDS Naturals, Sequences, FiniteSets

CONSTANTS
  Threads,      \* threads of the application
  Shaker,       \* the task that answers the auth request
  None,         \* nobody holds syncLock
  Workers,      \* the threads of the pool (16 in the code)
  MaxCommands   \* bound: no call begins once this many commands were sent

Users == Threads \cup {Shaker}

ASSUME SessionAssumption ==
  /\ Workers \in Nat /\ MaxCommands \in Nat
  /\ Shaker \notin Threads /\ None \notin Users

VARIABLES
  accepts,        \* whether the server takes the password
  connected,      \* the channel is connected
  authenticated,  \* Client.authenticated
  authRequest,    \* the server's auth/request waits for a worker
  pc, mine,       \* per user: where it is in a command, its callback
  syncLock,       \* who holds syncLock
  added,          \* callbacks created
  syncCallbacks,  \* the queue of callbacks
  toServer,       \* commands written and not yet processed
  toClient,       \* replies sent, and not yet taken by a worker
  taken,          \* replies a worker took, before it polls a callback
  holding,        \* <<reply, callback>>: polled, the latch not yet released
  handled,        \* <<reply, callback>>: the latch released
  bursts          \* history: values of `added` when no reply was outstanding

replyVars   == <<taken, holding, handled>>
networkVars == <<toServer, toClient>>
queueVars   == <<added, syncCallbacks, bursts>>
stateVars   == <<accepts, connected, authenticated>>
vars == <<stateVars, authRequest, pc, mine, syncLock, queueVars, networkVars,
          replyVars>>

Init ==
  /\ accepts \in BOOLEAN /\ connected = TRUE /\ authenticated = FALSE
  /\ authRequest = TRUE
  /\ pc = [u \in Users |-> "idle"] /\ mine = [u \in Users |-> 0]
  /\ syncLock = None
  /\ added = 0 /\ syncCallbacks = << >> /\ bursts = {}
  /\ toServer = << >> /\ toClient = << >>
  /\ taken = {} /\ holding = {} /\ handled = {}

(* The pool has a free thread: the handshake keeps one until it is over.    *)
Busy ==
  Cardinality(taken) + Cardinality(holding)
    + (IF pc[Shaker] = "idle" THEN 0 ELSE 1)

-----------------------------------------------------------------------------
(* sendSyncSingleLineCommand and sendSyncMultiLineCommand                   *)

(* An operation of Client, which checks that it may send.                   *)
Call(t) ==
  /\ pc[t] = "idle"
  /\ connected /\ authenticated
  /\ added < MaxCommands
  /\ pc' = [pc EXCEPT ![t] = "lock"]
  /\ UNCHANGED <<stateVars, authRequest, mine, syncLock, queueVars, networkVars,
                 replyVars>>

Lock(u) ==
  /\ pc[u] = "lock"
  /\ syncLock = None
  /\ syncLock' = u
  /\ pc' = [pc EXCEPT ![u] = "add"]
  /\ UNCHANGED <<stateVars, authRequest, mine, queueVars, networkVars, replyVars>>

AddCallback(u) ==
  /\ pc[u] = "add"
  /\ added' = added + 1
  /\ mine' = [mine EXCEPT ![u] = added + 1]
  /\ syncCallbacks' = Append(syncCallbacks, added + 1)
  /\ bursts' = IF syncCallbacks = << >> THEN bursts \cup {added} ELSE bursts
  /\ pc' = [pc EXCEPT ![u] = "write"]
  /\ UNCHANGED <<stateVars, authRequest, syncLock, networkVars, replyVars>>

(* Variant: the lock is kept.                                               *)
WriteKeepsLock(u) ==
  /\ pc[u] = "write"
  /\ toServer' = IF connected THEN Append(toServer, mine[u]) ELSE toServer
  /\ pc' = [pc EXCEPT ![u] = "wait"]
  /\ UNCHANGED <<stateVars, authRequest, mine, syncLock, queueVars, toClient,
                 replyVars>>

(* channel.write; on a closed channel it fails, and nobody looks.           *)
WriteCommand(u) ==
  /\ pc[u] = "write"
  /\ toServer' = IF connected THEN Append(toServer, mine[u]) ELSE toServer
  /\ syncLock' = None
  /\ pc' = [pc EXCEPT ![u] = "wait"]
  /\ UNCHANGED <<stateVars, authRequest, mine, queueVars, toClient, replyVars>>

Answered(u) == \E r \in 1 .. added : <<r, mine[u]>> \in handled

(* callback.get returns; the handshake also tells the Client the outcome.   *)
Return(u) ==
  /\ pc[u] = "wait"
  /\ Answered(u)
  /\ pc' = [pc EXCEPT ![u] = "idle"]
  /\ authenticated' = IF u = Shaker THEN accepts ELSE authenticated
  /\ UNCHANGED <<accepts, connected, authRequest, mine, syncLock, queueVars,
                 networkVars, replyVars>>

-----------------------------------------------------------------------------
(* The pool: messageReceived, on one of its threads                         *)

(* handleAuthRequest sends its command from this task, and waits here.      *)
TakeAuthRequest ==
  /\ authRequest
  /\ Busy < Workers
  /\ authRequest' = FALSE
  /\ pc' = [pc EXCEPT ![Shaker] = "lock"]
  /\ UNCHANGED <<stateVars, mine, syncLock, queueVars, networkVars, replyVars>>

(* Variant: the tasks of a channel run one after the other.                 *)
TakeInOrder ==
  /\ ~authRequest /\ toClient # << >>
  /\ Busy = 0
  /\ taken' = taken \cup {Head(toClient)}
  /\ toClient' = Tail(toClient)
  /\ UNCHANGED <<stateVars, authRequest, pc, mine, syncLock, queueVars, toServer,
                 holding, handled>>

(* Variant: a message of the server is given to the pool more than once.    *)
TakeReplyAgain ==
  /\ ~authRequest /\ toClient # << >>
  /\ Busy < Workers
  /\ taken' = taken \cup {Head(toClient)}
  /\ UNCHANGED <<stateVars, authRequest, pc, mine, syncLock, queueVars,
                 networkVars, holding, handled>>

TakeReply ==
  /\ ~authRequest /\ toClient # << >>
  /\ Busy < Workers
  /\ taken' = taken \cup {Head(toClient)}
  /\ toClient' = Tail(toClient)
  /\ UNCHANGED <<stateVars, authRequest, pc, mine, syncLock, queueVars, toServer,
                 holding, handled>>

(* Variant: the callback is looked at and stays in the queue.               *)
PeekCallback(r) ==
  /\ r \in taken
  /\ syncCallbacks # << >>
  /\ taken' = taken \ {r}
  /\ holding' = holding \cup {<<r, Head(syncCallbacks)>>}
  /\ UNCHANGED <<stateVars, authRequest, pc, mine, syncLock, queueVars,
                 networkVars, handled>>

(* syncCallbacks.poll(): on an empty queue it would return null, and the    *)
(* task end in a NullPointerException.                                      *)
PollCallback(r) ==
  /\ r \in taken
  /\ syncCallbacks # << >>
  /\ taken' = taken \ {r}
  /\ holding' = holding \cup {<<r, Head(syncCallbacks)>>}
  /\ syncCallbacks' = Tail(syncCallbacks)
  /\ UNCHANGED <<stateVars, authRequest, pc, mine, syncLock, added, bursts,
                 networkVars, handled>>

(* SyncCallback.handle: the response is stored and the latch released.      *)
Handle(p) ==
  /\ p \in holding
  /\ holding' = holding \ {p}
  /\ handled' = handled \cup {p}
  /\ UNCHANGED <<stateVars, authRequest, pc, mine, syncLock, queueVars,
                 networkVars, taken>>

-----------------------------------------------------------------------------
(* The server answers commands in the order it receives them.               *)
ServerAnswers ==
  /\ connected
  /\ toServer # << >>
  /\ toServer' = Tail(toServer)
  /\ toClient' = Append(toClient, Head(toServer))
  /\ UNCHANGED <<stateVars, authRequest, pc, mine, syncLock, queueVars, replyVars>>

(* Variant: a disconnect empties the queue of callbacks.                    *)
DisconnectClears ==
  /\ connected
  /\ connected' = FALSE
  /\ toServer' = << >>
  /\ syncCallbacks' = << >>
  /\ UNCHANGED <<accepts, authenticated, authRequest, pc, mine, syncLock, added,
                 bursts, toClient, replyVars>>

(* The connection ends. Replies that were received still have their tasks;  *)
(* nothing is done for the callbacks whose replies were lost.               *)
Disconnect ==
  /\ connected
  /\ connected' = FALSE
  /\ toServer' = << >>
  /\ \E k \in 0 .. Len(toClient) : toClient' = SubSeq(toClient, 1, k)
  /\ UNCHANGED <<accepts, authenticated, authRequest, pc, mine, syncLock,
                 queueVars, replyVars>>

UserStep(u) == Lock(u) \/ AddCallback(u) \/ WriteCommand(u) \/ Return(u)

PoolStep ==
  \/ TakeAuthRequest \/ TakeReply
  \/ \E r \in taken : PollCallback(r)
  \/ \E p \in holding : Handle(p)

Next ==
  \/ \E t \in Threads : Call(t)
  \/ \E u \in Users : UserStep(u)
  \/ PoolStep \/ ServerAnswers \/ Disconnect

Spec == Init /\ [][Next]_vars

(* Threads and workers run, and the server answers what it was asked;       *)
(* nobody has to call, and the connection need not end.                     *)
SessionFairness ==
  /\ \A u \in Users : WF_vars(UserStep(u))
  /\ WF_vars(PoolStep)
  /\ WF_vars(ServerAnswers)

FairSpec == Spec /\ SessionFairness

-----------------------------------------------------------------------------
(* Properties                                                               *)

FlagTypes ==
  /\ accepts \in BOOLEAN /\ connected \in BOOLEAN /\ authenticated \in BOOLEAN
  /\ authRequest \in BOOLEAN

(* The holder of syncLock is the one thread that adds or writes; the        *)
(* handshake starts with the auth request.                                  *)
LockTypes ==
  /\ pc \in [Users -> {"idle", "lock", "add", "write", "wait"}]
  /\ syncLock \in Users \cup {None}
  /\ \A u \in Users : pc[u] \in {"add", "write"} <=> syncLock = u
  /\ authRequest => pc[Shaker] = "idle"

QueueTypes ==
  /\ added \in Nat /\ mine \in [Users -> Nat]
  /\ syncCallbacks \in Seq(Nat) /\ toServer \in Seq(Nat) /\ toClient \in Seq(Nat)
  /\ bursts \subseteq Nat

ReplyTypes ==
  /\ taken \subseteq Nat /\ IsFiniteSet(taken)
  /\ holding \subseteq Nat \X Nat
  /\ handled \subseteq Nat \X Nat

SessionTypeOK == FlagTypes /\ LockTypes /\ QueueTypes /\ ReplyTypes

(* A reply always finds a callback: syncCallbacks.poll() returns no null,   *)
(* although the queue is polled without syncLock, and after a disconnect.   *)
NoOrphanReply == taken # {} => syncCallbacks # << >>

(* A callback gets one reply and a reply goes to one callback.              *)
OneReplyEach ==
  \A p, q \in holding \cup handled : p[1] = q[1] <=> p[2] = q[2]

(* Replies are mixed up only among commands that were outstanding together: *)
(* a command sent when every earlier one has its reply cannot get an        *)
(* earlier reply, nor can a later command get its own. With one thread      *)
(* sending at a time every caller so gets the reply to its own command.     *)
MixUpsStayInBurst ==
  \A b \in bursts : \A p \in holding \cup handled : p[1] <= b <=> p[2] <= b

(* While the connection lasts a command returns, the handshake's included,  *)
(* which waits for its reply on a thread of the pool that delivers it.      *)
CommandReturns ==
  \A u \in Users : pc[u] # "idle" ~> (pc[u] = "idle" \/ ~connected)

(* What the documentation says.                                             *)

(* "each incoming message is processed in its own thread (although still    *)
(* guaranteed to be processed in the order of receipt)": with a server that *)
(* answers in order, every command gets its own reply.                      *)
OwnReply == \A p \in handled : p[1] = p[2]

=============================================================================
