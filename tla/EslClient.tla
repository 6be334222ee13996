------------------------------- MODULE EslClient -------------------------------
(***************************************************************************)
(* connect, and the commands, of inbound/Client.java of the Java ESL       *)
(* client (src/dvarnes/java/esl-client), over several connections of one   *)
(* Client object.                                                          *)
(*                                                                         *)
(* Each connect makes a connection with a handler of its own, waits for it *)
(* to be established or gives up, and then sleeps until the handshake,     *)
(* which runs in the connection's pool, has set the Client's flags. The    *)
(* flags belong to the Client, not to the connection, and are never reset. *)
(* A command tests `channel`, takes the handler from it, and writes to it: *)
(* three readings of a field that a connect of another thread may set.     *)
(*                                                                         *)
(* Connections are numbered by attempt; 0 is null. Within a connection     *)
(* replies come in order and reach the callbacks in order (EslSession      *)
(* shows what happens where they do not).                                  *)
(***************************************************************************)
EXTENDS Naturals, Sequences

CONSTANTS
  Apps,         \* threads of the application
  Connector,    \* the one that connects
  MaxConnects,  \* bound: connection attempts
  MaxSends      \* bound: commands that begin

Links == 1 .. MaxConnects

ASSUME ClientAssumption ==
  /\ Connector \in Apps
  /\ MaxConnects \in Nat /\ MaxSends \in Nat

VARIABLES
  attempts,   \* connections tried
  link,       \* of each: "none", "connecting", "up", "down" or "refused"
  handshake,  \* where the task of its auth request stands
  verdict,    \* what the server answered to the password: "ok", "bad", "odd"
  channel,    \* Client.channel
  authenticatorResponded,
  isAuthenticated,         \* Client.authenticated
  authenticationResponse,  \* of which connection, 0 for null
  where,      \* per thread: its place in connect or in a command
  mineLink,   \* per thread: the connection that its connect made
  closing,    \* per thread: its command is the close of a connect
  handler,    \* per thread: the connection whose handler it took
  callbacks,  \* per connection: the threads with a callback in its handler
  wire,       \* per connection: the commands written, as the threads' names
  answer,     \* per thread: whose command the reply it got belongs to
  outcome,    \* per thread: how its last connect or command ended
  sends,      \* commands that began
  shared      \* history: a thread other than Connector sent a command

netVars == <<attempts, link>>
flagVars == <<authenticatorResponded, isAuthenticated, authenticationResponse>>
handVars == <<handshake, verdict, flagVars>>
pipeVars == <<callbacks, wire, answer>>
clientVars == <<netVars, handVars, channel, where, mineLink, closing, handler,
                pipeVars, outcome, sends, shared>>

ClientInit ==
  /\ attempts = 0 /\ link = [c \in Links |-> "none"]
  /\ handshake = [c \in Links |-> "none"] /\ verdict = [c \in Links |-> "none"]
  /\ channel = 0
  /\ authenticatorResponded = FALSE /\ isAuthenticated = FALSE
  /\ authenticationResponse = 0
  /\ where = [t \in Apps |-> "idle"] /\ mineLink = [t \in Apps |-> 0]
  /\ closing = [t \in Apps |-> FALSE] /\ handler = [t \in Apps |-> 0]
  /\ callbacks = [c \in Links |-> << >>] /\ wire = [c \in Links |-> << >>]
  /\ answer = [t \in Apps |-> "none"]
  /\ outcome = [t \in Apps |-> "none"]
  /\ sends = 0 /\ shared = FALSE

canSend == channel # 0 /\ link[channel] = "up" /\ isAuthenticated

(* Thread t stops, with this outcome.                                       *)
Ends(t, how) ==
  /\ where' = [where EXCEPT ![t] = "idle"]
  /\ closing' = [closing EXCEPT ![t] = FALSE]
  /\ outcome' = [outcome EXCEPT ![t] = how]

Goes(t, to) ==
  /\ where' = [where EXCEPT ![t] = to]
  /\ UNCHANGED <<closing, outcome>>

-----------------------------------------------------------------------------
(* connect                                                                  *)

(* If it can send it closes first, with the exit command.                   *)
Connect(t) ==
  /\ t = Connector /\ where[t] = "idle"
  /\ attempts < MaxConnects
  /\ where' = [where EXCEPT ![t] = IF canSend THEN "check" ELSE "start"]
  /\ closing' = [closing EXCEPT ![t] = canSend]
  /\ outcome' = [outcome EXCEPT ![t] = "none"]
  /\ UNCHANGED <<netVars, handVars, channel, mineLink, handler, pipeVars, sends, shared>>

(* A new bootstrap, handler and pool, and bootstrap.connect.                *)
StartAttempt(t) ==
  /\ where[t] = "start"
  /\ attempts' = attempts + 1
  /\ link' = [link EXCEPT ![attempts + 1] = "connecting"]
  /\ mineLink' = [mineLink EXCEPT ![t] = attempts + 1]
  /\ Goes(t, "await")
  /\ UNCHANGED <<handVars, channel, handler, pipeVars, sends, shared>>

(* The attempt is given up, and goes on by itself.                          *)
ConnectTimesOut(t) ==
  /\ where[t] = "await"
  /\ link[mineLink[t]] = "connecting"
  /\ Ends(t, "timeout")
  /\ UNCHANGED <<netVars, handVars, channel, mineLink, handler, pipeVars, sends, shared>>

(* channel is the one of the attempt, whatever became of it.                *)
AttemptEnds(t) ==
  /\ where[t] = "await"
  /\ link[mineLink[t]] \in {"up", "down", "refused"}
  /\ channel' = mineLink[t]
  /\ Goes(t, IF link[mineLink[t]] = "refused" THEN "refused" ELSE "poll")
  /\ UNCHANGED <<netVars, handVars, mineLink, handler, pipeVars, sends, shared>>

ConnectRefused(t) ==
  /\ where[t] = "refused"
  /\ channel' = 0
  /\ Ends(t, "refused")
  /\ UNCHANGED <<netVars, handVars, mineLink, handler, pipeVars, sends, shared>>

(* The loop that sleeps 250 ms at a time, without a limit.                  *)
PollResponded(t) ==
  /\ where[t] = "poll"
  /\ authenticatorResponded
  /\ Goes(t, "test")
  /\ UNCHANGED <<netVars, handVars, channel, mineLink, handler, pipeVars, sends, shared>>

(* authenticated, or the text of authenticationResponse, which may be null. *)
TestAuthenticated(t) ==
  /\ where[t] = "test"
  /\ Ends(t, IF isAuthenticated THEN "connected"
             ELSE IF authenticationResponse = 0 THEN "null reply" ELSE "rejected")
  /\ UNCHANGED <<netVars, handVars, channel, mineLink, handler, pipeVars, sends, shared>>

-----------------------------------------------------------------------------
(* The handshake, in a thread of the connection's pool                      *)

(* The server's auth request is answered with the password.                 *)
SendAuth(c) ==
  /\ link[c] = "up" /\ handshake[c] = "none"
  /\ handshake' = [handshake EXCEPT ![c] = "asked"]
  /\ UNCHANGED <<netVars, verdict, flagVars, channel, where, mineLink, closing, handler,
                 pipeVars, outcome, sends, shared>>

(* Variant: the listener hears of success only.                             *)
VerdictIfOk(c) ==
  /\ link[c] = "up" /\ handshake[c] = "asked"
  /\ \E v \in {"ok", "bad", "odd"} :
       /\ verdict' = [verdict EXCEPT ![c] = v]
       /\ handshake' = [handshake EXCEPT ![c] = IF v = "ok" THEN "replied" ELSE "broken"]
  /\ UNCHANGED <<netVars, flagVars, channel, where, mineLink, closing, handler, pipeVars,
                 outcome, sends, shared>>

(* The reply; one that is no command/reply ends the task, and nobody hears  *)
(* of it.                                                                   *)
AuthReply(c) ==
  /\ link[c] = "up" /\ handshake[c] = "asked"
  /\ \E v \in {"ok", "bad", "odd"} :
       /\ verdict' = [verdict EXCEPT ![c] = v]
       /\ handshake' = [handshake EXCEPT ![c] = IF v = "odd" THEN "broken" ELSE "replied"]
  /\ UNCHANGED <<netVars, flagVars, channel, where, mineLink, closing, handler, pipeVars,
                 outcome, sends, shared>>

(* authResponseReceived, the first of three assignments.                    *)
SetResponded(c) ==
  /\ handshake[c] = "replied"
  /\ handshake' = [handshake EXCEPT ![c] = "responded"]
  /\ authenticatorResponded' = TRUE
  /\ UNCHANGED <<netVars, verdict, isAuthenticated, authenticationResponse, channel,
                 where, mineLink, closing, handler, pipeVars, outcome, sends, shared>>

(* Variant: whatever the reply says.                                        *)
SetAuthenticatedAlways(c) ==
  /\ handshake[c] = "responded"
  /\ handshake' = [handshake EXCEPT ![c] = "authenticated"]
  /\ isAuthenticated' = TRUE
  /\ UNCHANGED <<netVars, verdict, authenticatorResponded, authenticationResponse,
                 channel, where, mineLink, closing, handler, pipeVars, outcome, sends,
                 shared>>

SetAuthenticated(c) ==
  /\ handshake[c] = "responded"
  /\ handshake' = [handshake EXCEPT ![c] = "authenticated"]
  /\ isAuthenticated' = (verdict[c] = "ok")
  /\ UNCHANGED <<netVars, verdict, authenticatorResponded, authenticationResponse,
                 channel, where, mineLink, closing, handler, pipeVars, outcome, sends,
                 shared>>

SetResponse(c) ==
  /\ handshake[c] = "authenticated"
  /\ handshake' = [handshake EXCEPT ![c] = "done"]
  /\ authenticationResponse' = c
  /\ UNCHANGED <<netVars, verdict, authenticatorResponded, isAuthenticated, channel,
                 where, mineLink, closing, handler, pipeVars, outcome, sends, shared>>

-----------------------------------------------------------------------------
(* Commands: every public operation of Client, close among them             *)

BeginCommand(t) ==
  /\ where[t] = "idle"
  /\ sends < MaxSends
  /\ sends' = sends + 1
  /\ shared' = (shared \/ t # Connector)
  /\ Goes(t, "check")
  /\ UNCHANGED <<netVars, handVars, channel, mineLink, handler, pipeVars>>

(* Variant: the check is left out.                                          *)
NoCheck(t) ==
  /\ where[t] = "check"
  /\ Goes(t, "take")
  /\ UNCHANGED <<netVars, handVars, channel, mineLink, handler, pipeVars, sends, shared>>

(* checkConnected                                                           *)
CheckConnected(t) ==
  /\ where[t] = "check"
  /\ IF canSend THEN Goes(t, "take") ELSE Ends(t, "not connected")
  /\ UNCHANGED <<netVars, handVars, channel, mineLink, handler, pipeVars, sends, shared>>

(* channel.getPipeline().getLast()                                          *)
TakeHandler(t) ==
  /\ where[t] = "take"
  /\ handler' = [handler EXCEPT ![t] = channel]
  /\ IF channel = 0 THEN Ends(t, "null channel") ELSE Goes(t, "write")
  /\ UNCHANGED <<netVars, handVars, channel, mineLink, pipeVars, sends, shared>>

(* handler.sendSyncSingleLineCommand( channel, .. ): the callback is queued *)
(* in the handler taken before, and the command written to what channel is  *)
(* now. On a null channel the callback stays behind; a write to a           *)
(* connection that is down is lost.                                         *)
WriteToChannel(t) ==
  /\ where[t] = "write"
  /\ callbacks' = [callbacks EXCEPT ![handler[t]] = Append(@, t)]
  /\ answer' = [answer EXCEPT ![t] = "none"]
  /\ wire' = IF channel # 0 /\ link[channel] = "up"
             THEN [wire EXCEPT ![channel] = Append(@, t)] ELSE wire
  /\ IF channel = 0 THEN Ends(t, "null channel") ELSE Goes(t, "wait")
  /\ UNCHANGED <<netVars, handVars, channel, mineLink, handler, sends, shared>>

(* A close of a connect is followed by the connect proper.                  *)
CommandEnds(t) ==
  /\ where[t] = "wait"
  /\ answer[t] # "none"
  /\ IF closing[t] THEN /\ where' = [where EXCEPT ![t] = "start"]
                        /\ closing' = [closing EXCEPT ![t] = FALSE]
                        /\ UNCHANGED outcome
     ELSE Ends(t, "replied")
  /\ UNCHANGED <<netVars, handVars, channel, mineLink, handler, pipeVars, sends, shared>>

(* The server answers in order, and the oldest callback of the connection's *)
(* handler gets the reply; without one the task ends in an exception. After *)
(* an exit the server closes.                                               *)
ServerReplies(c) ==
  /\ link[c] = "up" /\ wire[c] # << >>
  /\ wire' = [wire EXCEPT ![c] = Tail(@)]
  /\ IF callbacks[c] = << >> THEN UNCHANGED <<callbacks, answer>>
     ELSE /\ callbacks' = [callbacks EXCEPT ![c] = Tail(@)]
          /\ answer' = [answer EXCEPT ![Head(callbacks[c])] = Head(wire[c])]
  /\ link' = IF closing[Head(wire[c])] THEN [link EXCEPT ![c] = "down"] ELSE link
  /\ UNCHANGED <<attempts, handVars, channel, where, mineLink, closing, handler, outcome,
                 sends, shared>>

-----------------------------------------------------------------------------
(* The network: attempts succeed or are refused, also late, and connections *)
(* end.                                                                     *)
LinkChanges(c) ==
  /\ link' = [link EXCEPT ![c] =
       CASE link[c] = "connecting" -> "up" [] link[c] = "up" -> "down" [] OTHER -> @]
  /\ link[c] \in {"connecting", "up"}
  /\ UNCHANGED <<attempts, handVars, channel, where, mineLink, closing, handler,
                 pipeVars, outcome, sends, shared>>

LinkRefused(c) ==
  /\ link[c] = "connecting"
  /\ link' = [link EXCEPT ![c] = "refused"]
  /\ UNCHANGED <<attempts, handVars, channel, where, mineLink, closing, handler,
                 pipeVars, outcome, sends, shared>>

ConnectStep(t) ==
  \/ StartAttempt(t) \/ ConnectTimesOut(t) \/ AttemptEnds(t) \/ ConnectRefused(t)
  \/ PollResponded(t) \/ TestAuthenticated(t)

CommandStep(t) ==
  CheckConnected(t) \/ TakeHandler(t) \/ WriteToChannel(t) \/ CommandEnds(t)

HandshakeStep(c) ==
  \/ SendAuth(c) \/ AuthReply(c)
  \/ SetResponded(c) \/ SetAuthenticated(c) \/ SetResponse(c)

ClientNext ==
  \/ \E t \in Apps : Connect(t) \/ BeginCommand(t) \/ ConnectStep(t) \/ CommandStep(t)
  \/ \E c \in Links :
       HandshakeStep(c) \/ ServerReplies(c) \/ LinkChanges(c) \/ LinkRefused(c)

ClientSpec == ClientInit /\ [][ClientNext]_clientVars

(* Threads run, a wait for a connection times out, and the server goes on   *)
(* with the handshake while the connection lasts. Nobody has to call, and   *)
(* no connection has to be established or to end.                           *)
ClientFairness ==
  /\ \A t \in Apps : WF_clientVars(ConnectStep(t)) /\ WF_clientVars(CommandStep(t))
  /\ \A c \in Links : WF_clientVars(HandshakeStep(c))

ClientFairSpec == ClientSpec /\ ClientFairness

-----------------------------------------------------------------------------
(* Properties                                                               *)

NetTypes ==
  /\ attempts \in 0 .. MaxConnects /\ channel \in 0 .. MaxConnects
  /\ link \in [Links -> {"none", "connecting", "up", "down", "refused"}]
  /\ mineLink \in [Apps -> 0 .. MaxConnects] /\ handler \in [Apps -> 0 .. MaxConnects]
  /\ sends \in Nat /\ shared \in BOOLEAN

HandTypes ==
  /\ handshake \in [Links -> {"none", "asked", "replied", "responded",
                              "authenticated", "done", "broken"}]
  /\ verdict \in [Links -> {"none", "ok", "bad", "odd"}]
  /\ authenticatorResponded \in BOOLEAN /\ isAuthenticated \in BOOLEAN
  /\ authenticationResponse \in 0 .. MaxConnects

ThreadTypes ==
  /\ where \in [Apps -> {"idle", "check", "start", "await", "refused", "poll",
                         "test", "take", "write", "wait"}]
  /\ closing \in [Apps -> BOOLEAN]
  /\ outcome \in [Apps -> {"none", "timeout", "refused", "connected", "null reply",
                           "rejected", "not connected", "null channel", "replied"}]

PipeTypes ==
  /\ callbacks \in [Links -> Seq(Apps)] /\ wire \in [Links -> Seq(Apps)]
  /\ answer \in [Apps -> Apps \cup {"none"}]

ClientTypeOK == NetTypes /\ HandTypes /\ ThreadTypes /\ PipeTypes

(* While a Client has made one connection, connect returns only if the      *)
(* server took the password, however the three assignments of the handshake *)
(* and the two tests of connect fall together.                              *)
FirstConnectIsAuthenticated ==
  attempts = 1 =>
    /\ outcome[Connector] = "connected" => verdict[1] = "ok"
    /\ (wire[1] # << >> \/ callbacks[1] # << >>) => verdict[1] = "ok"

(* A program that uses the Client from one thread never has the command on  *)
(* one connection and its callback on another, gets the replies to its own  *)
(* commands, and meets no null channel, over reconnects, attempts that time *)
(* out and come up late, and connections that end.                          *)
OneThreadNeverCrosses ==
  ~shared =>
    /\ outcome[Connector] # "null channel"
    /\ where[Connector] \in {"write", "wait"} => handler[Connector] = channel
    /\ \A c \in Links : wire[c] # << >> => callbacks[c] # << >>

(* A connect returns if its connection lasts and the server answers the     *)
(* password with a command/reply: with a result or with an exception, but   *)
(* it does not sleep for ever.                                              *)
ConnectReturns ==
  where[Connector] \in {"await", "refused", "poll", "test"} ~>
    \/ where[Connector] = "idle"
    \/ \E c \in Links \cap {mineLink[Connector]} :
         link[c] = "down" \/ verdict[c] = "odd"

=============================================================================
