---------------------------- MODULE EslClientProofs ----------------------------
(***************************************************************************)
(* What Client.java promises its threads and its listeners. EslClient: what*)
(* the flags still say of the first connect, for any number of threads,    *)
(* connections and commands. EslEvents: that a listener hears of an event  *)
(* once, for any number of listeners, events and pool threads.             *)
(***************************************************************************)
EXTENDS EslClient, EslEvents, SequenceTheorems, FiniteSetTheorems, TLAPS

(* Nothing is said on a connection that was not tried.                      *)
OnlyTried ==
  \A c \in Links :
    /\ link[c] # "none" => c <= attempts
    /\ handshake[c] # "none" => c <= attempts

(* Until there is a second connection `authenticated` is what the server    *)
(* said to the password of the first, and whoever is past a test of it has  *)
(* found it set. (It never goes back then: the handshake runs once.)        *)
FlagIsVerdict ==
  /\ isAuthenticated => \E c \in Links : verdict[c] = "ok"
  /\ \A c \in Links :
       /\ handshake[c] \in {"none", "asked"} => verdict[c] = "none"
       /\ isAuthenticated => handshake[c] \in {"none", "authenticated", "done"}
       /\ (wire[c] # << >> \/ callbacks[c] # << >>) => isAuthenticated
  /\ \A t \in Apps :
       (where[t] \in {"take", "write", "wait"} \/ outcome[t] = "connected")
         => isAuthenticated

(* One thread at most is about to make a connection, and there is one left. *)
Attempting ==
  \A t \in Apps :
    /\ (where[t] = "start" \/ closing[t]) =>
         (t = Connector /\ attempts < MaxConnects)
    /\ where[t] = "start" => ~closing[t]

(* A program of one thread: the others are idle, channel is set and is the   *)
(* connection whose handler was taken while a command is under way, and no  *)
(* more commands are written on a connection than it has callbacks.         *)
OneThread ==
  /\ \A t \in Apps : t # Connector => where[t] = "idle"
  /\ outcome[Connector] # "null channel"
  /\ where[Connector] \in {"take", "write", "wait"} => channel # 0
  /\ where[Connector] \in {"write", "wait"} => handler[Connector] = channel
  /\ \A c \in Links : Len(wire[c]) <= Len(callbacks[c])

IInv == ClientTypeOK /\ Attempting /\ OnlyTried /\ (attempts <= 1 => FlagIsVerdict)

-----------------------------------------------------------------------------
(* What a group of variables holds it holds after a step that leaves the    *)
(* group alone.                                                             *)
LEMMA Frames ==
  /\ (NetTypes /\ UNCHANGED <<netVars, channel, mineLink, handler, sends, shared>>)
       => NetTypes'
  /\ (HandTypes /\ UNCHANGED handVars) => HandTypes'
  /\ (ThreadTypes /\ UNCHANGED <<where, closing, outcome>>) => ThreadTypes'
  /\ (PipeTypes /\ UNCHANGED pipeVars) => PipeTypes'
  <1>1. (NetTypes /\ UNCHANGED <<netVars, channel, mineLink, handler, sends, shared>>)
          => NetTypes'
    BY DEF NetTypes, netVars
  <1>2. (HandTypes /\ UNCHANGED handVars) => HandTypes'
    BY DEF HandTypes, handVars, flagVars
  <1>3. (ThreadTypes /\ UNCHANGED <<where, closing, outcome>>) => ThreadTypes'
    BY DEF ThreadTypes
  <1>4. (PipeTypes /\ UNCHANGED pipeVars) => PipeTypes'
    BY DEF PipeTypes, pipeVars
  <1>5. QED BY <1>1, <1>2, <1>3, <1>4

LEMMA InitHolds == ClientInit => IInv
  <1> SUFFICES ASSUME ClientInit PROVE IInv
    OBVIOUS
  <1>0. 0 \in 0 .. MaxConnects
    BY ClientAssumption DEF ClientAssumption
  <1>1. NetTypes
    BY <1>0 DEF ClientInit, NetTypes
  <1>2. HandTypes
    BY <1>0 DEF ClientInit, HandTypes
  <1>3. ThreadTypes
    BY DEF ClientInit, ThreadTypes
  <1>4. PipeTypes
    BY DEF ClientInit, PipeTypes
  <1>5. Attempting /\ OnlyTried /\ FlagIsVerdict
    BY DEF ClientInit, Attempting, OnlyTried, FlagIsVerdict
  <1>6. QED BY <1>1, <1>2, <1>3, <1>4, <1>5 DEF IInv, ClientTypeOK

(* The types, one case per action.                                          *)
LEMMA TypesKept ==
  ASSUME ClientTypeOK, Attempting, [ClientNext]_clientVars
  PROVE  ClientTypeOK'
  <1> USE ClientAssumption
          DEF ClientTypeOK, ClientAssumption, Links, netVars, flagVars, handVars,
              pipeVars
  <1>1. ASSUME NEW t \in Apps,
             Connect(t) \/ BeginCommand(t) \/ ConnectStep(t) \/ CommandStep(t)
       PROVE  ClientTypeOK'
    <2>1. CASE Connect(t)
      BY <2>1, Frames DEF Connect, ThreadTypes, canSend
    <2>2. CASE StartAttempt(t)
      <3>1. attempts + 1 \in Links /\ attempts < MaxConnects
        BY <2>2 DEF StartAttempt, Attempting, NetTypes
      <3>2. NetTypes'
        BY <2>2, <3>1 DEF StartAttempt, NetTypes
      <3>3. ThreadTypes'
        BY <2>2 DEF StartAttempt, Goes, ThreadTypes
      <3>4. QED BY <2>2, <3>2, <3>3, Frames DEF StartAttempt
    <2>3. CASE ConnectTimesOut(t)
      BY <2>3, Frames DEF ConnectTimesOut, Ends, ThreadTypes
    <2>4. CASE AttemptEnds(t)
      <3>1. NetTypes'
        BY <2>4 DEF AttemptEnds, Goes, NetTypes
      <3>2. ThreadTypes'
        BY <2>4 DEF AttemptEnds, Goes, ThreadTypes
      <3>3. QED BY <2>4, <3>1, <3>2, Frames DEF AttemptEnds, netVars
    <2>5. CASE ConnectRefused(t)
      <3>1. NetTypes'
        BY <2>5 DEF ConnectRefused, Ends, NetTypes
      <3>2. ThreadTypes'
        BY <2>5 DEF ConnectRefused, Ends, ThreadTypes
      <3>3. QED BY <2>5, <3>1, <3>2, Frames DEF ConnectRefused
    <2>6. CASE PollResponded(t)
      BY <2>6, Frames DEF PollResponded, Goes, ThreadTypes
    <2>7. CASE TestAuthenticated(t)
      BY <2>7, Frames DEF TestAuthenticated, Ends, ThreadTypes
    <2>8. CASE BeginCommand(t)
      <3>1. NetTypes'
        BY <2>8 DEF BeginCommand, Goes, NetTypes
      <3>2. ThreadTypes'
        BY <2>8 DEF BeginCommand, Goes, ThreadTypes
      <3>3. QED BY <2>8, <3>1, <3>2, Frames DEF BeginCommand
    <2>9. CASE CheckConnected(t)
      BY <2>9, Frames DEF CheckConnected, Goes, Ends, ThreadTypes, canSend
    <2>10. CASE TakeHandler(t)
      <3>1. NetTypes'
        BY <2>10 DEF TakeHandler, Goes, Ends, NetTypes
      <3>2. ThreadTypes'
        BY <2>10 DEF TakeHandler, Goes, Ends, ThreadTypes
      <3>3. QED BY <2>10, <3>1, <3>2, Frames DEF TakeHandler
    <2>11. CASE WriteToChannel(t)
      <3>1. \A c \in Links : Append(callbacks[c], t) \in Seq(Apps)
                             /\ Append(wire[c], t) \in Seq(Apps)
        BY DEF PipeTypes
      <3>2. callbacks' \in [Links -> Seq(Apps)]
        BY <2>11, <3>1 DEF WriteToChannel, PipeTypes
      <3>3. wire' \in [Links -> Seq(Apps)]
        BY <2>11, <3>1 DEF WriteToChannel, PipeTypes
      <3>4. answer' \in [Apps -> Apps \cup {"none"}]
        BY <2>11 DEF WriteToChannel, PipeTypes
      <3>5. ThreadTypes'
        BY <2>11 DEF WriteToChannel, Goes, Ends, ThreadTypes
      <3>6. PipeTypes'
        BY <3>2, <3>3, <3>4 DEF PipeTypes
      <3>7. QED BY <2>11, <3>5, <3>6, Frames DEF WriteToChannel
    <2>12. CASE CommandEnds(t)
      BY <2>12, Frames DEF CommandEnds, Ends, ThreadTypes
    <2>13. QED
      BY <1>1, <2>1, <2>2, <2>3, <2>4, <2>5, <2>6, <2>7, <2>8, <2>9, <2>10,
      <2>11, <2>12 DEF ConnectStep, CommandStep
  <1>2. ASSUME NEW c \in Links,
             HandshakeStep(c) \/ ServerReplies(c) \/ LinkChanges(c) \/ LinkRefused(c)
       PROVE  ClientTypeOK'
    <2>1. CASE SendAuth(c)
      BY <2>1, Frames DEF SendAuth, HandTypes
    <2>2. CASE AuthReply(c)
      BY <2>2, Frames DEF AuthReply, HandTypes
    <2>3. CASE SetResponded(c)
      BY <2>3, Frames DEF SetResponded, HandTypes
    <2>4. CASE SetAuthenticated(c)
      BY <2>4, Frames DEF SetAuthenticated, HandTypes
    <2>5. CASE SetResponse(c)
      BY <2>5, Frames DEF SetResponse, HandTypes
    <2>6. CASE ServerReplies(c)
      <3>1. NetTypes'
        BY <2>6 DEF ServerReplies, NetTypes
      <3>2. Head(wire[c]) \in Apps /\ Tail(wire[c]) \in Seq(Apps)
        BY <2>6 DEF ServerReplies, PipeTypes
      <3>3. CASE callbacks[c] = << >>
        <4>1. PipeTypes'
          BY <2>6, <3>2, <3>3 DEF ServerReplies, PipeTypes
        <4>2. QED BY <2>6, <3>1, <4>1, Frames DEF ServerReplies
      <3>4. CASE callbacks[c] # << >>
        <4>1. Head(callbacks[c]) \in Apps /\ Tail(callbacks[c]) \in Seq(Apps)
          BY <3>4 DEF PipeTypes
        <4>2. PipeTypes'
          BY <2>6, <3>2, <3>4, <4>1 DEF ServerReplies, PipeTypes
        <4>3. QED BY <2>6, <3>1, <4>2, Frames DEF ServerReplies
      <3>5. QED BY <3>3, <3>4
    <2>7. CASE LinkChanges(c)
      BY <2>7, Frames DEF LinkChanges, NetTypes
    <2>8. CASE LinkRefused(c)
      BY <2>8, Frames DEF LinkRefused, NetTypes
    <2>9. QED
      BY <1>2, <2>1, <2>2, <2>3, <2>4, <2>5, <2>6, <2>7, <2>8 DEF
      HandshakeStep
  <1>3. CASE UNCHANGED clientVars
    BY <1>3, Frames DEF clientVars
  <1>4. QED BY <1>1, <1>2, <1>3 DEF ClientNext

LEMMA AttemptingKept ==
  ASSUME ClientTypeOK, Attempting, [ClientNext]_clientVars
  PROVE  Attempting'
  <1> USE DEF Attempting, netVars
  <1>0. /\ where \in [Apps -> {"idle", "check", "start", "await", "refused", "poll",
                               "test", "take", "write", "wait"}]
        /\ closing \in [Apps -> BOOLEAN]
    BY DEF ClientTypeOK, ThreadTypes
  <1>1. ASSUME NEW t \in Apps,
             Connect(t) \/ BeginCommand(t) \/ ConnectStep(t) \/ CommandStep(t)
       PROVE  Attempting'
    <2>1. CASE Connect(t)
      BY <1>0, <2>1 DEF Connect, canSend
    <2>2. CASE StartAttempt(t)
      BY <1>0, <2>2 DEF StartAttempt, Goes
    <2>3. CASE ConnectTimesOut(t)
      BY <1>0, <2>3 DEF ConnectTimesOut, Ends
    <2>4. CASE AttemptEnds(t)
      BY <1>0, <2>4 DEF AttemptEnds, Goes
    <2>5. CASE ConnectRefused(t)
      BY <1>0, <2>5 DEF ConnectRefused, Ends
    <2>6. CASE PollResponded(t)
      BY <1>0, <2>6 DEF PollResponded, Goes
    <2>7. CASE TestAuthenticated(t)
      BY <1>0, <2>7 DEF TestAuthenticated, Ends
    <2>8. CASE BeginCommand(t)
      BY <1>0, <2>8 DEF BeginCommand, Goes
    <2>9. CASE CheckConnected(t)
      BY <1>0, <2>9 DEF CheckConnected, Goes, Ends
    <2>10. CASE TakeHandler(t)
      BY <1>0, <2>10 DEF TakeHandler, Goes, Ends
    <2>11. CASE WriteToChannel(t)
      BY <1>0, <2>11 DEF WriteToChannel, Goes, Ends
    <2>12. CASE CommandEnds(t)
      BY <1>0, <2>12 DEF CommandEnds, Ends
    <2>13. QED
      BY <1>1, <2>1, <2>2, <2>3, <2>4, <2>5, <2>6, <2>7, <2>8, <2>9, <2>10,
      <2>11, <2>12 DEF ConnectStep, CommandStep
  <1>2. ASSUME NEW c \in Links,
             HandshakeStep(c) \/ ServerReplies(c) \/ LinkChanges(c) \/ LinkRefused(c)
       PROVE  Attempting'
    <2>1. CASE SendAuth(c)
      BY <1>0, <2>1 DEF SendAuth
    <2>2. CASE AuthReply(c)
      BY <1>0, <2>2 DEF AuthReply
    <2>3. CASE SetResponded(c)
      BY <1>0, <2>3 DEF SetResponded
    <2>4. CASE SetAuthenticated(c)
      BY <1>0, <2>4 DEF SetAuthenticated
    <2>5. CASE SetResponse(c)
      BY <1>0, <2>5 DEF SetResponse
    <2>6. CASE ServerReplies(c)
      BY <1>0, <2>6 DEF ServerReplies
    <2>7. CASE LinkChanges(c)
      BY <1>0, <2>7 DEF LinkChanges
    <2>8. CASE LinkRefused(c)
      BY <1>0, <2>8 DEF LinkRefused
    <2>9. QED
      BY <1>2, <2>1, <2>2, <2>3, <2>4, <2>5, <2>6, <2>7, <2>8 DEF
      HandshakeStep
  <1>3. CASE UNCHANGED clientVars
    BY <1>0, <1>3 DEF clientVars
  <1>4. QED BY <1>1, <1>2, <1>3 DEF ClientNext

LEMMA TriedKept ==
  ASSUME ClientTypeOK, OnlyTried, [ClientNext]_clientVars
  PROVE  OnlyTried'
  <1> USE DEF OnlyTried, netVars, handVars
  <1>0. /\ attempts \in Nat
        /\ link \in [Links -> {"none", "connecting", "up", "down", "refused"}]
        /\ handshake \in [Links -> {"none", "asked", "replied", "responded",
                                    "authenticated", "done", "broken"}]
        /\ \A c \in Links : c \in Nat
    BY ClientAssumption
       DEF ClientTypeOK, NetTypes, HandTypes, ClientAssumption, Links
  <1>1. ASSUME NEW t \in Apps,
             Connect(t) \/ BeginCommand(t) \/ ConnectStep(t) \/ CommandStep(t)
       PROVE  OnlyTried'
    <2>1. CASE Connect(t)
      BY <1>0, <2>1 DEF Connect
    <2>2. CASE StartAttempt(t)
      BY <1>0, <2>2 DEF StartAttempt
    <2>3. CASE ConnectTimesOut(t)
      BY <1>0, <2>3 DEF ConnectTimesOut
    <2>4. CASE AttemptEnds(t)
      BY <1>0, <2>4 DEF AttemptEnds
    <2>5. CASE ConnectRefused(t)
      BY <1>0, <2>5 DEF ConnectRefused
    <2>6. CASE PollResponded(t)
      BY <1>0, <2>6 DEF PollResponded
    <2>7. CASE TestAuthenticated(t)
      BY <1>0, <2>7 DEF TestAuthenticated
    <2>8. CASE BeginCommand(t)
      BY <1>0, <2>8 DEF BeginCommand
    <2>9. CASE CheckConnected(t)
      BY <1>0, <2>9 DEF CheckConnected
    <2>10. CASE TakeHandler(t)
      BY <1>0, <2>10 DEF TakeHandler
    <2>11. CASE WriteToChannel(t)
      BY <1>0, <2>11 DEF WriteToChannel
    <2>12. CASE CommandEnds(t)
      BY <1>0, <2>12 DEF CommandEnds
    <2>13. QED
      BY <1>1, <2>1, <2>2, <2>3, <2>4, <2>5, <2>6, <2>7, <2>8, <2>9, <2>10,
      <2>11, <2>12 DEF ConnectStep, CommandStep
  <1>2. ASSUME NEW c \in Links,
             HandshakeStep(c) \/ ServerReplies(c) \/ LinkChanges(c) \/ LinkRefused(c)
       PROVE  OnlyTried'
    <2>1. CASE SendAuth(c)
      BY <1>0, <2>1 DEF SendAuth
    <2>2. CASE AuthReply(c)
      BY <1>0, <2>2 DEF AuthReply
    <2>3. CASE SetResponded(c)
      BY <1>0, <2>3 DEF SetResponded
    <2>4. CASE SetAuthenticated(c)
      BY <1>0, <2>4 DEF SetAuthenticated
    <2>5. CASE SetResponse(c)
      BY <1>0, <2>5 DEF SetResponse
    <2>6. CASE ServerReplies(c)
      BY <1>0, <2>6 DEF ServerReplies
    <2>7. CASE LinkChanges(c)
      BY <1>0, <2>7 DEF LinkChanges
    <2>8. CASE LinkRefused(c)
      BY <1>0, <2>8 DEF LinkRefused
    <2>9. QED
      BY <1>2, <2>1, <2>2, <2>3, <2>4, <2>5, <2>6, <2>7, <2>8 DEF
      HandshakeStep
  <1>3. CASE UNCHANGED clientVars
    BY <1>0, <1>3 DEF clientVars
  <1>4. QED BY <1>1, <1>2, <1>3 DEF ClientNext

LEMMA VerdictKept ==
  ASSUME IInv, [ClientNext]_clientVars, attempts' <= 1
  PROVE  FlagIsVerdict'
  <1>1. attempts \in Nat
    BY ClientAssumption DEF IInv, ClientTypeOK, NetTypes, ClientAssumption
  <1>2. attempts' = attempts \/ attempts' = attempts + 1
    BY DEF ClientNext, ConnectStep, CommandStep, HandshakeStep, clientVars, netVars,
       Connect, StartAttempt, ConnectTimesOut, AttemptEnds, ConnectRefused,
       PollResponded, TestAuthenticated, BeginCommand, CheckConnected, TakeHandler,
       WriteToChannel, CommandEnds, SendAuth, AuthReply, SetResponded,
       SetAuthenticated, SetResponse, ServerReplies, LinkChanges, LinkRefused
  <1>3. attempts <= 1
    BY <1>1, <1>2
  <1>4. \A c \in Links : c \in Nat /\ c >= 1
    BY ClientAssumption DEF Links, ClientAssumption
  <1>5. \A c \in Links : (link[c] # "none" \/ handshake[c] # "none") => c = 1
    BY <1>1, <1>3, <1>4 DEF IInv, OnlyTried
  <1>0. /\ handshake \in [Links -> {"none", "asked", "replied", "responded",
                                    "authenticated", "done", "broken"}]
        /\ verdict \in [Links -> {"none", "ok", "bad", "odd"}]
        /\ wire \in [Links -> Seq(Apps)] /\ callbacks \in [Links -> Seq(Apps)]
        /\ where \in [Apps -> {"idle", "check", "start", "await", "refused", "poll",
                               "test", "take", "write", "wait"}]
        /\ outcome \in [Apps -> {"none", "timeout", "refused", "connected",
                                 "null reply", "rejected", "not connected",
                                 "null channel", "replied"}]
        /\ FlagIsVerdict
    BY <1>3 DEF IInv, ClientTypeOK, HandTypes, ThreadTypes, PipeTypes
  <1> USE DEF FlagIsVerdict, flagVars, handVars, pipeVars
  <1>6. ASSUME NEW t \in Apps,
             Connect(t) \/ BeginCommand(t) \/ ConnectStep(t) \/ CommandStep(t)
       PROVE  FlagIsVerdict'
    <2>1. CASE Connect(t)
      BY <1>0, <1>5, <2>1, ZenonT(40) DEF Connect
    <2>2. CASE StartAttempt(t)
      BY <1>0, <1>5, <2>2 DEF StartAttempt, Goes
    <2>3. CASE ConnectTimesOut(t)
      BY <1>0, <1>5, <2>3, ZenonT(40) DEF ConnectTimesOut, Ends
    <2>4. CASE AttemptEnds(t)
      BY <1>0, <1>5, <2>4, ZenonT(40) DEF AttemptEnds, Goes
    <2>5. CASE ConnectRefused(t)
      BY <1>0, <1>5, <2>5, ZenonT(40) DEF ConnectRefused, Ends
    <2>6. CASE PollResponded(t)
      BY <1>0, <1>5, <2>6 DEF PollResponded, Goes
    <2>7. CASE TestAuthenticated(t)
      BY <1>0, <1>5, <2>7, ZenonT(40) DEF TestAuthenticated, Ends
    <2>8. CASE BeginCommand(t)
      BY <1>0, <1>5, <2>8 DEF BeginCommand, Goes
    <2>9. CASE CheckConnected(t)
      <3>1. CASE canSend
        <4>1. isAuthenticated /\ where' = [where EXCEPT ![t] = "take"]
              /\ outcome' = outcome
          BY <2>9, <3>1 DEF CheckConnected, Goes, canSend
        <4>2. UNCHANGED <<handVars, pipeVars>>
          BY <2>9 DEF CheckConnected
        <4>3. QED BY <1>0, <4>1, <4>2
      <3>2. CASE ~canSend
        <4>1. /\ where' = [where EXCEPT ![t] = "idle"]
              /\ outcome' = [outcome EXCEPT ![t] = "not connected"]
          BY <2>9, <3>2 DEF CheckConnected, Ends
        <4>2. UNCHANGED <<handVars, pipeVars>>
          BY <2>9 DEF CheckConnected
        <4>3. QED BY <1>0, <4>1, <4>2
      <3>3. QED BY <3>1, <3>2
    <2>10. CASE TakeHandler(t)
      BY <1>0, <1>5, <2>10 DEF TakeHandler, Goes, Ends
    <2>11. CASE WriteToChannel(t)
      BY <1>0, <1>5, <2>11 DEF WriteToChannel, Goes, Ends
    <2>12. CASE CommandEnds(t)
      BY <1>0, <1>5, <2>12 DEF CommandEnds, Ends
    <2>13. QED
      BY <1>6, <2>1, <2>2, <2>3, <2>4, <2>5, <2>6, <2>7, <2>8, <2>9, <2>10,
      <2>11, <2>12 DEF ConnectStep, CommandStep
  <1>7. ASSUME NEW c \in Links,
             HandshakeStep(c) \/ ServerReplies(c) \/ LinkChanges(c) \/ LinkRefused(c)
       PROVE  FlagIsVerdict'
    <2>1. CASE SendAuth(c)
      BY <1>0, <1>5, <2>1, ZenonT(40) DEF SendAuth
    <2>2. CASE AuthReply(c)
      <3>1. ~isAuthenticated /\ UNCHANGED <<flagVars, pipeVars, where, outcome>>
        BY <1>0, <2>2 DEF AuthReply
      <3>2. \A d \in Links : handshake'[d] \in {"none", "asked"} => verdict'[d] = "none"
        <4>1. PICK v \in {"ok", "bad", "odd"} :
                /\ verdict' = [verdict EXCEPT ![c] = v]
                /\ handshake' = [handshake EXCEPT
                                  ![c] = IF v = "odd" THEN "broken" ELSE "replied"]
          BY <2>2 DEF AuthReply
        <4>2. handshake'[c] \in {"broken", "replied"}
          BY <1>0, <4>1
        <4>3. QED BY <1>0, <4>1, <4>2
      <3>3. QED BY <1>0, <3>1, <3>2
    <2>3. CASE SetResponded(c)
      BY <1>0, <1>5, <2>3 DEF SetResponded
    <2>4. CASE SetAuthenticated(c)
      BY <1>0, <1>5, <2>4, ZenonT(40) DEF SetAuthenticated
    <2>5. CASE SetResponse(c)
      BY <1>0, <1>5, <2>5 DEF SetResponse
    <2>6. CASE ServerReplies(c)
      BY <1>0, <1>5, <2>6 DEF ServerReplies
    <2>7. CASE LinkChanges(c)
      BY <1>0, <1>5, <2>7 DEF LinkChanges
    <2>8. CASE LinkRefused(c)
      BY <1>0, <1>5, <2>8 DEF LinkRefused
    <2>9. QED
      BY <1>7, <2>1, <2>2, <2>3, <2>4, <2>5, <2>6, <2>7, <2>8 DEF
      HandshakeStep
  <1>8. CASE UNCHANGED clientVars
    BY <1>0, <1>8 DEF clientVars
  <1>9. QED BY <1>6, <1>7, <1>8 DEF ClientNext

(* Lengths of sequences.                                                    *)
LEMMA Lengths ==
  ASSUME NEW S, NEW s \in Seq(S)
  PROVE  /\ Len(s) \in Nat /\ (s # << >> <=> Len(s) >= 1)
         /\ s # << >> => Len(Tail(s)) = Len(s) - 1
         /\ \A e \in S : Append(s, e) \in Seq(S) /\ Len(Append(s, e)) = Len(s) + 1
  OBVIOUS

(* Of one thread's steps only those of the thread itself have to be looked  *)
(* at.                                                                      *)
LEMMA OneThreadKept ==
  ASSUME ClientTypeOK, ~shared => OneThread, [ClientNext]_clientVars, ~shared'
  PROVE  OneThread'
  <1> USE DEF pipeVars
  <1>b. /\ wire \in [Links -> Seq(Apps)] /\ callbacks \in [Links -> Seq(Apps)]
        /\ handler \in [Apps -> 0 .. MaxConnects] /\ channel \in 0 .. MaxConnects
    BY DEF ClientTypeOK, NetTypes, PipeTypes
  <1>c. Connector \in Apps /\ (channel # 0 => channel \in Links)
    BY <1>b, ClientAssumption DEF Links, ClientAssumption
  <1>0. /\ where \in [Apps -> {"idle", "check", "start", "await", "refused", "poll",
                               "test", "take", "write", "wait"}]
        /\ outcome \in [Apps -> {"none", "timeout", "refused", "connected",
                                 "null reply", "rejected", "not connected",
                                 "null channel", "replied"}]
        /\ handler \in [Apps -> 0 .. MaxConnects] /\ channel \in 0 .. MaxConnects
        /\ wire \in [Links -> Seq(Apps)] /\ callbacks \in [Links -> Seq(Apps)]
        /\ ~shared => OneThread
        /\ Connector \in Apps /\ (channel # 0 => channel \in Links)
    BY <1>b, <1>c DEF ClientTypeOK, ThreadTypes
  <1>1. ASSUME NEW t \in Apps,
             Connect(t) \/ BeginCommand(t) \/ ConnectStep(t) \/ CommandStep(t)
       PROVE  OneThread'
    <2>1. CASE Connect(t)
      BY <1>0, <2>1 DEF Connect, canSend, OneThread
    <2>2. CASE StartAttempt(t)
      BY <1>0, <2>2 DEF StartAttempt, Goes, OneThread
    <2>3. CASE ConnectTimesOut(t)
      BY <1>0, <2>3 DEF ConnectTimesOut, Ends, OneThread
    <2>4. CASE AttemptEnds(t)
      BY <1>0, <2>4 DEF AttemptEnds, Goes, OneThread
    <2>5. CASE ConnectRefused(t)
      BY <1>0, <2>5 DEF ConnectRefused, Ends, OneThread
    <2>6. CASE PollResponded(t)
      BY <1>0, <2>6 DEF PollResponded, Goes, OneThread
    <2>7. CASE TestAuthenticated(t)
      BY <1>0, <2>7 DEF TestAuthenticated, Ends, OneThread
    <2>8. CASE BeginCommand(t)
      BY <1>0, <2>8 DEF BeginCommand, Goes, OneThread
    <2>9. CASE CheckConnected(t)
      BY <1>0, <2>9 DEF CheckConnected, Goes, Ends, canSend, OneThread
    <2>10. CASE TakeHandler(t)
      BY <1>0, <2>10 DEF TakeHandler, Goes, Ends, OneThread
    <2>11. CASE WriteToChannel(t)
      <3>1. /\ t = Connector /\ OneThread /\ channel # 0 /\ handler[t] = channel
            /\ channel \in Links
        <4>1. ~shared /\ where[t] = "write"
          BY <2>11 DEF WriteToChannel
        <4>2. OneThread
          BY <1>0, <4>1
        <4>3. t = Connector /\ channel # 0 /\ handler[t] = channel
          BY <4>1, <4>2 DEF OneThread
        <4>4. channel \in Links
          BY <1>0, <4>3
        <4>5. QED BY <4>2, <4>3, <4>4
      <3>2. \A c \in Links : Len(wire'[c]) <= Len(callbacks'[c])
        <4>1. /\ callbacks' = [callbacks EXCEPT ![channel] = Append(@, t)]
              /\ wire' \in {wire, [wire EXCEPT ![channel] = Append(@, t)]}
          BY <2>11, <3>1 DEF WriteToChannel
        <4>2. \A c \in Links :
                /\ Len(wire[c]) \in Nat /\ Len(callbacks[c]) \in Nat
                /\ Len(Append(wire[c], t)) = Len(wire[c]) + 1
                /\ Len(Append(callbacks[c], t)) = Len(callbacks[c]) + 1
          BY <1>0, Lengths
        <4>3. /\ callbacks' \in [Links -> Seq(Apps)] /\ wire' \in [Links -> Seq(Apps)]
              /\ \A c \in Links \ {channel} :
                   callbacks'[c] = callbacks[c] /\ wire'[c] = wire[c]
              /\ callbacks'[channel] = Append(callbacks[channel], t)
              /\ wire'[channel] \in {wire[channel], Append(wire[channel], t)}
          <5>1. CASE wire' = wire
            BY <1>0, <3>1, <4>1, <5>1, Lengths
          <5>2. CASE wire' = [wire EXCEPT ![channel] = Append(@, t)]
            BY <1>0, <3>1, <4>1, <5>2, Lengths
          <5>3. QED BY <4>1, <5>1, <5>2
        <4>4. \A c \in Links : Len(wire[c]) <= Len(callbacks[c])
          BY <3>1 DEF OneThread
        <4>5. Len(wire'[channel]) <= Len(callbacks'[channel])
          <5>1. /\ Len(wire[channel]) <= Len(callbacks[channel])
                /\ Len(wire[channel]) \in Nat /\ Len(callbacks[channel]) \in Nat
                /\ Len(Append(callbacks[channel], t)) = Len(callbacks[channel]) + 1
                /\ Len(Append(wire[channel], t)) = Len(wire[channel]) + 1
            BY <3>1, <4>2, <4>4
          <5>2. QED BY <4>3, <5>1
        <4>6. QED BY <3>1, <4>3, <4>4, <4>5
      <3>3. /\ where' = [where EXCEPT ![t] = "wait"] /\ outcome' = outcome
            /\ UNCHANGED <<channel, handler>>
        BY <2>11, <3>1 DEF WriteToChannel, Goes
      <3>4. QED BY <1>0, <3>1, <3>2, <3>3 DEF OneThread
    <2>12. CASE CommandEnds(t)
      BY <1>0, <2>12 DEF CommandEnds, Ends, OneThread
    <2>13. QED
      BY <1>1, <2>1, <2>2, <2>3, <2>4, <2>5, <2>6, <2>7, <2>8, <2>9, <2>10,
      <2>11, <2>12 DEF ConnectStep, CommandStep
  <1>2. ASSUME NEW c \in Links,
             HandshakeStep(c) \/ ServerReplies(c) \/ LinkChanges(c) \/ LinkRefused(c)
       PROVE  OneThread'
    <2>1. CASE SendAuth(c)
      BY <1>0, <2>1 DEF SendAuth, OneThread
    <2>2. CASE AuthReply(c)
      BY <1>0, <2>2 DEF AuthReply, OneThread
    <2>3. CASE SetResponded(c)
      BY <1>0, <2>3 DEF SetResponded, OneThread
    <2>4. CASE SetAuthenticated(c)
      BY <1>0, <2>4 DEF SetAuthenticated, OneThread
    <2>5. CASE SetResponse(c)
      BY <1>0, <2>5 DEF SetResponse, OneThread
    <2>6. CASE ServerReplies(c)
      <3>1. /\ UNCHANGED <<shared, where, outcome, channel, handler>>
            /\ wire[c] # << >>
            /\ wire' = [wire EXCEPT ![c] = Tail(@)]
        BY <2>6 DEF ServerReplies
      <3>2. OneThread
        BY <1>0, <3>1
      <3>3. Len(wire[c]) >= 1 /\ Len(Tail(wire[c])) = Len(wire[c]) - 1
        BY <1>0, <3>1, Lengths
      <3>4. callbacks[c] # << >> /\ Len(Tail(callbacks[c])) = Len(callbacks[c]) - 1
        <4>1. Len(callbacks[c]) >= Len(wire[c]) /\ Len(callbacks[c]) \in Nat
              /\ Len(wire[c]) \in Nat
          BY <1>0, <3>2, Lengths DEF OneThread
        <4>2. Len(callbacks[c]) >= 1
          BY <3>3, <4>1
        <4>3. callbacks[c] \in Seq(Apps)
          BY <1>0
        <4>4. QED BY <4>2, <4>3, Lengths
      <3>5. callbacks' = [callbacks EXCEPT ![c] = Tail(@)]
        BY <2>6, <3>4 DEF ServerReplies
      <3>6. \A d \in Links : Len(wire'[d]) <= Len(callbacks'[d])
        <4>1. /\ \A d \in Links \ {c} :
                   callbacks'[d] = callbacks[d] /\ wire'[d] = wire[d]
              /\ callbacks'[c] = Tail(callbacks[c]) /\ wire'[c] = Tail(wire[c])
          BY <1>0, <3>1, <3>5
        <4>2. Len(wire'[c]) <= Len(callbacks'[c])
          <5>1. /\ Len(wire[c]) \in Nat /\ Len(callbacks[c]) \in Nat
                /\ Len(wire[c]) <= Len(callbacks[c])
            BY <1>0, <3>2, Lengths DEF OneThread
          <5>2. QED BY <3>3, <3>4, <4>1, <5>1
        <4>3. QED BY <3>2, <4>1, <4>2 DEF OneThread
      <3>7. QED BY <3>1, <3>2, <3>6 DEF OneThread
    <2>7. CASE LinkChanges(c)
      BY <1>0, <2>7 DEF LinkChanges, OneThread
    <2>8. CASE LinkRefused(c)
      BY <1>0, <2>8 DEF LinkRefused, OneThread
    <2>9. QED
      BY <1>2, <2>1, <2>2, <2>3, <2>4, <2>5, <2>6, <2>7, <2>8 DEF
      HandshakeStep
  <1>3. CASE UNCHANGED clientVars
    BY <1>0, <1>3 DEF clientVars, OneThread
  <1>4. QED BY <1>1, <1>2, <1>3 DEF ClientNext

LEMMA Inductive == ClientSpec => []IInv
  <1>1. IInv /\ [ClientNext]_clientVars => IInv'
    BY TypesKept, AttemptingKept, TriedKept, VerdictKept DEF IInv
  <1>2. QED BY <1>1, InitHolds, PTL DEF ClientSpec

(* connect is believed the first time: whatever it has read of the flags    *)
(* while the handshake set them one by one, a normal return and any command *)
(* that was written mean that the server took the password.                 *)
THEOREM FirstConnectIsSafe == ClientSpec => []FirstConnectIsAuthenticated
  <1>1. IInv => FirstConnectIsAuthenticated
    <2> SUFFICES ASSUME IInv, attempts = 1,
                        \/ outcome[Connector] = "connected"
                        \/ wire[1] # << >> \/ callbacks[1] # << >>
                 PROVE  verdict[1] = "ok"
      BY DEF FirstConnectIsAuthenticated
    <2>1. 1 \in Links /\ Connector \in Apps /\ FlagIsVerdict
      BY ClientAssumption
         DEF IInv, ClientTypeOK, NetTypes, ClientAssumption, Links
    <2>2. isAuthenticated
      BY <2>1 DEF FlagIsVerdict
    <2>3. PICK c \in Links : verdict[c] = "ok"
      BY <2>1, <2>2 DEF FlagIsVerdict
    <2>4. handshake[c] # "none"
      BY <2>1, <2>3 DEF FlagIsVerdict
    <2>5. c <= 1 /\ c \in Nat /\ c >= 1
      BY <2>4, ClientAssumption DEF IInv, OnlyTried, ClientAssumption, Links
    <2>6. c = 1
      BY <2>5
    <2>7. QED BY <2>3, <2>6
  <1>2. QED BY <1>1, Inductive, PTL

(* A program that calls a Client from one thread is safe from the three     *)
(* readings of `channel` in every command: callback and command meet on one *)
(* connection, whatever became of the connections before.                   *)
THEOREM OneThreadIsSafe == ClientSpec => []OneThreadNeverCrosses
  <1>1. ClientInit => (~shared => OneThread)
    BY ClientAssumption DEF ClientInit, OneThread, ClientAssumption
  <1>2. IInv /\ (~shared => OneThread) /\ [ClientNext]_clientVars
          => (~shared' => OneThread')
    BY OneThreadKept DEF IInv
  <1>3. IInv /\ (~shared => OneThread) => OneThreadNeverCrosses
    <2> SUFFICES ASSUME IInv, OneThread, ~shared PROVE OneThreadNeverCrosses
      BY DEF OneThreadNeverCrosses
    <2>1. wire \in [Links -> Seq(Apps)] /\ callbacks \in [Links -> Seq(Apps)]
      BY DEF IInv, ClientTypeOK, PipeTypes
    <2>2. ASSUME NEW c \in Links, wire[c] # << >> PROVE callbacks[c] # << >>
      <3>1. Len(wire[c]) >= 1
        BY <2>1, <2>2, Lengths
      <3>2. /\ Len(wire[c]) <= Len(callbacks[c])
            /\ Len(wire[c]) \in Nat /\ Len(callbacks[c]) \in Nat
        BY <2>1, Lengths DEF OneThread
      <3>3. QED BY <2>1, <3>1, <3>2, Lengths
    <2>3. QED BY <2>2 DEF OneThread, OneThreadNeverCrosses
  <1>4. QED BY <1>1, <1>2, <1>3, Inductive, PTL DEF ClientSpec

-----------------------------------------------------------------------------
(* EslEvents: one notification of every listener                            *)

Distinct(s) == \A i, j \in DOMAIN s : s[i] = s[j] => i = j

(* A notification of listener p[1] of event p[2] is in a queue.             *)
Queued(p) == \E x \in Executors : p \in RangeOf(notifications[x])

EventTypes ==
  /\ eventListeners \in Seq(Registrations)
  /\ received \in Seq(Executors) /\ Len(received) <= MaxEvents
  /\ task \in [Events -> {"none", "waiting", "running", "done"}]
  /\ toNotify \in [Events -> Seq(Registrations)]
  /\ notifications \in [Executors -> Seq(Registrations \X Events)]
  /\ heard \in [Registrations \X Events -> 0 .. 1]
  /\ entitled \in [Events -> SUBSET Registrations]

(* No list and no queue holds anything twice, and no notification is in two *)
(* queues.                                                                  *)
NoRepeats ==
  /\ Distinct(eventListeners)
  /\ \A e \in Events : Distinct(toNotify[e])
  /\ \A x \in Executors : Distinct(notifications[x])
  /\ \A x, y \in Executors :
       x # y => RangeOf(notifications[x]) \cap RangeOf(notifications[y]) = {}

(* A listener is still to be notified of an event, or the notification is   *)
(* in a queue, or it has heard: one of the three at most.                   *)
OnePlace ==
  \A l \in Registrations, e \in Events :
    /\ l \in RangeOf(toNotify[e]) => heard[<<l, e>>] = 0 /\ ~Queued(<<l, e>>)
    /\ heard[<<l, e>>] = 1 => ~Queued(<<l, e>>)

(* A task goes over its listeners while it runs: before, it has notified    *)
(* nobody.                                                                  *)
TaskStages ==
  \A e \in Events :
    /\ e > Len(received) => task[e] = "none"
    /\ task[e] # "running" => toNotify[e] = << >>
    /\ task[e] \in {"none", "waiting"} =>
         \A l \in Registrations : heard[<<l, e>>] = 0 /\ ~Queued(<<l, e>>)

(* Who was registered when the event came still is, and is to be notified,  *)
(* in a queue, or has heard, once the task has started.                     *)
NobodyMissed ==
  \A e \in Events :
    /\ entitled[e] \subseteq RangeOf(eventListeners)
    /\ task[e] \in {"running", "done"} =>
         \A l \in entitled[e] :
           l \in RangeOf(toNotify[e]) \/ Queued(<<l, e>>) \/ heard[<<l, e>>] = 1

EventsIInv == EventTypes /\ NoRepeats /\ OnePlace /\ TaskStages /\ NobodyMissed

-----------------------------------------------------------------------------
LEMMA RangeOfAppend ==
  ASSUME NEW S, NEW s \in Seq(S), NEW x \in S
  PROVE  /\ Append(s, x) \in Seq(S)
         /\ RangeOf(Append(s, x)) = RangeOf(s) \cup {x}
         /\ Distinct(s) /\ x \notin RangeOf(s) => Distinct(Append(s, x))
  <1>1. /\ Append(s, x) \in Seq(S) /\ Len(Append(s, x)) = Len(s) + 1
        /\ Len(s) \in Nat
        /\ DOMAIN s = 1 .. Len(s) /\ DOMAIN Append(s, x) = 1 .. Len(s) + 1
        /\ \A i \in 1 .. Len(s) : Append(s, x)[i] = s[i]
        /\ Append(s, x)[Len(s) + 1] = x
    BY AppendProperties, LenProperties
  <1>2. RangeOf(Append(s, x)) = RangeOf(s) \cup {x}
    <2>1. ASSUME NEW y \in RangeOf(Append(s, x)) PROVE y \in RangeOf(s) \cup {x}
      <3>1. PICK i \in 1 .. Len(s) + 1 : y = Append(s, x)[i]
        BY <1>1, <2>1 DEF RangeOf
      <3>2. CASE i = Len(s) + 1
        BY <3>1, <3>2, <1>1
      <3>3. CASE i \in 1 .. Len(s)
        BY <3>1, <3>3, <1>1 DEF RangeOf
      <3>4. QED BY <3>1, <3>2, <3>3, <1>1
    <2>2. RangeOf(s) \subseteq RangeOf(Append(s, x))
      <3>1. ASSUME NEW i \in 1 .. Len(s) PROVE s[i] \in RangeOf(Append(s, x))
        <4>1. i \in 1 .. Len(s) + 1 BY <1>1
        <4>2. QED BY <4>1, <1>1 DEF RangeOf
      <3>2. QED BY <3>1, <1>1 DEF RangeOf
    <2>3. x \in RangeOf(Append(s, x))
      <3>1. Len(s) + 1 \in 1 .. Len(s) + 1 BY <1>1
      <3>2. QED BY <3>1, <1>1 DEF RangeOf
    <2>4. QED BY <2>1, <2>2, <2>3
  <1>3. ASSUME Distinct(s), x \notin RangeOf(s) PROVE Distinct(Append(s, x))
    <2>1. ASSUME NEW i \in 1 .. Len(s) + 1, NEW j \in 1 .. Len(s) + 1,
                 Append(s, x)[i] = Append(s, x)[j]
          PROVE  i = j
      <3>1. \A k \in 1 .. Len(s) : s[k] # x
        BY <1>1, <1>3 DEF RangeOf
      <3>2. \A k, m \in 1 .. Len(s) : s[k] = s[m] => k = m
        BY <1>1, <1>3 DEF Distinct
      <3>3. CASE i \in 1 .. Len(s) /\ j \in 1 .. Len(s)
        BY <3>2, <3>3, <2>1, <1>1
      <3>4. CASE i = Len(s) + 1 /\ j \in 1 .. Len(s)
        BY <3>1, <3>4, <2>1, <1>1
      <3>5. CASE i \in 1 .. Len(s) /\ j = Len(s) + 1
        BY <3>1, <3>5, <2>1, <1>1
      <3>6. QED BY <3>3, <3>4, <3>5, <1>1
    <2>2. QED BY <2>1, <1>1 DEF Distinct
  <1>4. QED BY <1>1, <1>2, <1>3

LEMMA RangeOfTail ==
  ASSUME NEW S, NEW s \in Seq(S), s # << >>
  PROVE  /\ Head(s) \in S /\ Tail(s) \in Seq(S)
         /\ Head(s) \in RangeOf(s)
         /\ Distinct(s) => /\ RangeOf(Tail(s)) = RangeOf(s) \ {Head(s)}
                           /\ Distinct(Tail(s))
  <1>1. /\ Head(s) \in S /\ Tail(s) \in Seq(S) /\ Len(Tail(s)) = Len(s) - 1
        /\ \A i \in 1 .. Len(Tail(s)) : Tail(s)[i] = s[i + 1]
        /\ Len(s) \in Nat \ {0} /\ DOMAIN s = 1 .. Len(s)
        /\ DOMAIN Tail(s) = 1 .. Len(Tail(s)) /\ Head(s) = s[1]
    BY HeadTailProperties, LenProperties, EmptySeq
  <1>2. Head(s) \in RangeOf(s)
    <2>1. 1 \in 1 .. Len(s) BY <1>1
    <2>2. QED BY <2>1, <1>1 DEF RangeOf
  <1>3. ASSUME Distinct(s)
        PROVE  RangeOf(Tail(s)) = RangeOf(s) \ {Head(s)} /\ Distinct(Tail(s))
    <2>1. \A i, j \in 1 .. Len(s) : s[i] = s[j] => i = j
      BY <1>3, <1>1 DEF Distinct
    <2>2. ASSUME NEW y \in RangeOf(Tail(s)) PROVE y \in RangeOf(s) \ {Head(s)}
      <3>1. PICK i \in 1 .. Len(s) - 1 : y = s[i + 1]
        BY <1>1, <2>2 DEF RangeOf
      <3>2. i + 1 \in 1 .. Len(s) /\ 1 \in 1 .. Len(s) /\ i + 1 # 1
        BY <1>1
      <3>3. QED BY <3>1, <3>2, <2>1, <1>1 DEF RangeOf
    <2>3. ASSUME NEW y \in RangeOf(s), y # Head(s) PROVE y \in RangeOf(Tail(s))
      <3>1. PICK i \in 1 .. Len(s) : y = s[i]
        BY <1>1, <2>3 DEF RangeOf
      <3>2. i - 1 \in 1 .. Len(s) - 1 /\ (i - 1) + 1 = i
        BY <3>1, <2>3, <1>1
      <3>3. Tail(s)[i - 1] = y
        BY <3>1, <3>2, <1>1
      <3>4. QED BY <3>2, <3>3, <1>1 DEF RangeOf
    <2>4. Distinct(Tail(s))
      <3>1. ASSUME NEW i \in 1 .. Len(s) - 1, NEW j \in 1 .. Len(s) - 1,
                   Tail(s)[i] = Tail(s)[j]
            PROVE  i = j
        <4>1. s[i + 1] = s[j + 1] /\ i + 1 \in 1 .. Len(s) /\ j + 1 \in 1 .. Len(s)
          BY <3>1, <1>1
        <4>2. i + 1 = j + 1
          BY <4>1, <2>1
        <4>3. QED BY <4>2
      <3>2. QED BY <3>1, <1>1 DEF Distinct
    <2>5. QED BY <2>2, <2>3, <2>4
  <1>4. QED BY <1>1, <1>2, <1>3

(* What occurs in a list without repetitions occurs once.                   *)
LEMMA OccursOnce ==
  ASSUME NEW S, NEW s \in Seq(S), Distinct(s), NEW p
  PROVE  Cardinality({i \in DOMAIN s : s[i] = p}) = IF p \in RangeOf(s) THEN 1 ELSE 0
  <1>1. CASE p \in RangeOf(s)
    <2>1. PICK i \in DOMAIN s : s[i] = p
      BY <1>1 DEF RangeOf
    <2>2. {j \in DOMAIN s : s[j] = p} = {i}
      BY <2>1 DEF Distinct
    <2>3. QED BY <2>2, <1>1, FS_Singleton
  <1>2. CASE p \notin RangeOf(s)
    <2>1. {j \in DOMAIN s : s[j] = p} = {}
      BY <1>2 DEF RangeOf
    <2>2. QED BY <2>1, <1>2, FS_EmptySet
  <1>3. QED BY <1>1, <1>2

LEMMA EventsInitHolds == EventsInit => EventsIInv
  <1> SUFFICES ASSUME EventsInit PROVE EventsIInv
    OBVIOUS
  <1>1. EventTypes
    BY EventsAssumption, EmptySeq DEF EventsAssumption, EventsInit, EventTypes
  <1>2. RangeOf(<< >>) = {} /\ Distinct(<< >>)
    BY DEF RangeOf, Distinct
  <1>3. NoRepeats
    BY <1>2 DEF EventsInit, NoRepeats
  <1>4. \A p : ~Queued(p)
    BY <1>2 DEF EventsInit, Queued
  <1>5. OnePlace /\ TaskStages /\ NobodyMissed
    BY <1>2, <1>4 DEF EventsInit, OnePlace, TaskStages, NobodyMissed
  <1>6. QED BY <1>1, <1>3, <1>5 DEF EventsIInv

(* What is queued changes with the queues alone.                            *)
LEMMA SameQueues ==
  ASSUME UNCHANGED notifications
  PROVE  /\ \A p : Queued(p)' <=> Queued(p)
         /\ \A x \in Executors :
              RangeOf(notifications[x])' = RangeOf(notifications[x])
  BY DEF Queued, RangeOf

LEMMA AddEventListenerKeeps ==
  ASSUME EventsIInv, NEW l \in Registrations, AddEventListener(l)
  PROVE  EventsIInv'
  <1> USE DEF EventsIInv
  <1>1. /\ eventListeners' = Append(eventListeners, l)
        /\ l \notin RangeOf(eventListeners)
        /\ UNCHANGED <<received, task, toNotify, notifications, heard, entitled>>
    BY DEF AddEventListener
  <1>2. /\ eventListeners' \in Seq(Registrations) /\ Distinct(eventListeners')
        /\ RangeOf(eventListeners') = RangeOf(eventListeners) \cup {l}
    BY <1>1, RangeOfAppend DEF EventTypes, NoRepeats
  <1>3. EventTypes'
    BY <1>1, <1>2 DEF EventTypes
  <1>4. NoRepeats'
    BY <1>1, <1>2 DEF NoRepeats
  <1>5. OnePlace' /\ TaskStages'
    BY <1>1, SameQueues DEF OnePlace, TaskStages
  <1>6. NobodyMissed'
    BY <1>1, <1>2, SameQueues DEF NobodyMissed
  <1>7. QED BY <1>3, <1>4, <1>5, <1>6

LEMMA ReceiveEventKeeps ==
  ASSUME EventsIInv, NEW kind \in Executors, ReceiveEvent(kind)
  PROVE  EventsIInv'
  <1> USE DEF EventsIInv
  <1> DEFINE n == Len(received) + 1
  <1>1. /\ Len(received) < MaxEvents
        /\ received' = Append(received, kind)
        /\ UNCHANGED <<eventListeners, toNotify, notifications, heard>>
    BY DEF ReceiveEvent
  <1>2. /\ received' \in Seq(Executors) /\ Len(received') = n /\ n \in Events
        /\ Len(received) \in Nat /\ n > Len(received)
    BY <1>1, EventsAssumption, AppendProperties, LenProperties
    DEF EventTypes, Events, EventsAssumption
  <1>3. /\ task' = [task EXCEPT ![n] = "waiting"]
        /\ entitled' = [entitled EXCEPT ![n] = RangeOf(eventListeners)]
    BY <1>2 DEF ReceiveEvent
  <1>4. RangeOf(eventListeners) \subseteq Registrations
    <2>1. \A i \in DOMAIN eventListeners : eventListeners[i] \in Registrations
      BY LenProperties DEF EventTypes
    <2>2. QED BY <2>1 DEF RangeOf
  <1>5. EventTypes'
    BY <1>1, <1>2, <1>3, <1>4, EventsAssumption
    DEF EventTypes, EventsAssumption, Events
  <1>6. NoRepeats'
    BY <1>1 DEF NoRepeats
  <1>7. OnePlace'
    BY <1>1, SameQueues DEF OnePlace
  <1> HIDE DEF n
  <1>8. task[n] = "none"
    BY <1>2 DEF TaskStages
  <1>9. TaskStages'
    <2>1. ASSUME NEW e \in Events
          PROVE  /\ e > n => task'[e] = "none"
                 /\ task'[e] # "running" => toNotify[e] = << >>
                 /\ task'[e] \in {"none", "waiting"} =>
                     \A l \in Registrations : heard[<<l, e>>] = 0 /\ ~Queued(<<l, e>>)
      <3>1. CASE e = n
        <4>1. task'[e] = "waiting"
          BY <3>1, <1>2, <1>3 DEF EventTypes
        <4>2. ~(e > n)
          BY <3>1, <1>2
        <4>3. QED BY <3>1, <4>1, <4>2, <1>2, <1>8 DEF TaskStages
      <3>2. CASE e # n
        <4>1. task'[e] = task[e]
          BY <3>2, <1>3 DEF EventTypes
        <4>2. e > n => e > Len(received)
          BY <1>2, EventsAssumption DEF Events, EventsAssumption
        <4>3. QED BY <4>1, <4>2 DEF TaskStages
      <3>3. QED BY <3>1, <3>2
    <2>2. QED BY <2>1, <1>1, <1>2, SameQueues DEF TaskStages
  <1>10. NobodyMissed'
    BY <1>1, <1>2, <1>3, <1>8, SameQueues DEF NobodyMissed, EventTypes
  <1>11. QED BY <1>5, <1>6, <1>7, <1>9, <1>10

LEMMA TaskKeeps ==
  ASSUME EventsIInv, NEW e \in Events, StartTask(e) \/ EndTask(e)
  PROVE  EventsIInv'
  <1> USE DEF EventsIInv
  <1>1. CASE StartTask(e)
    <2>1. /\ task[e] = "waiting" /\ task' = [task EXCEPT ![e] = "running"]
          /\ toNotify' = [toNotify EXCEPT ![e] = eventListeners]
          /\ UNCHANGED <<eventListeners, received, notifications, heard, entitled>>
      BY <1>1 DEF StartTask
    <2>2. EventTypes'
      BY <2>1 DEF EventTypes
    <2>3. NoRepeats'
      BY <2>1 DEF NoRepeats, EventTypes
    <2>4. \A l \in Registrations : heard[<<l, e>>] = 0 /\ ~Queued(<<l, e>>)
      BY <2>1 DEF TaskStages
    <2>5. OnePlace'
      BY <2>1, <2>4, SameQueues DEF OnePlace, EventTypes
    <2>6. TaskStages'
      BY <2>1, SameQueues DEF TaskStages, EventTypes
    <2>7. NobodyMissed'
      BY <2>1, SameQueues DEF NobodyMissed, EventTypes
    <2>8. QED BY <2>2, <2>3, <2>5, <2>6, <2>7
  <1>2. CASE EndTask(e)
    <2>1. /\ task[e] = "running" /\ task' = [task EXCEPT ![e] = "done"]
          /\ toNotify[e] = << >>
          /\ UNCHANGED <<eventListeners, received, toNotify, notifications, heard,
                         entitled>>
      BY <1>2 DEF EndTask
    <2>2. EventTypes'
      BY <2>1 DEF EventTypes
    <2>3. NoRepeats' /\ OnePlace'
      BY <2>1, SameQueues DEF NoRepeats, OnePlace
    <2>4. TaskStages'
      BY <2>1, SameQueues DEF TaskStages, EventTypes
    <2>5. NobodyMissed'
      BY <2>1, SameQueues DEF NobodyMissed, EventTypes
    <2>6. QED BY <2>2, <2>3, <2>4, <2>5
  <1>3. QED BY <1>1, <1>2

(* The listener whose turn it is moves from the loop to a queue.            *)
LEMMA NotifyKeeps ==
  ASSUME EventsIInv, NEW e \in Events, Notify(e)
  PROVE  EventsIInv'
  <1> USE DEF EventsIInv
  <1> DEFINE l == Head(toNotify[e])
             x == ExecutorOf(e)
  <1>1. /\ task[e] = "running" /\ toNotify[e] # << >>
        /\ notifications' = [notifications EXCEPT ![x] = Append(@, <<l, e>>)]
        /\ toNotify' = [toNotify EXCEPT ![e] = Tail(@)]
        /\ UNCHANGED <<eventListeners, received, task, heard, entitled>>
    BY DEF Notify
  <1>2. /\ l \in Registrations /\ l \in RangeOf(toNotify[e])
        /\ Tail(toNotify[e]) \in Seq(Registrations) /\ Distinct(Tail(toNotify[e]))
        /\ RangeOf(Tail(toNotify[e])) = RangeOf(toNotify[e]) \ {l}
    BY <1>1, RangeOfTail DEF EventTypes, NoRepeats
  <1>3. x \in Executors
    BY DEF ExecutorOf, Executors
  <1>4. heard[<<l, e>>] = 0 /\ ~Queued(<<l, e>>)
    BY <1>2 DEF OnePlace
  <1>5. /\ Append(notifications[x], <<l, e>>) \in Seq(Registrations \X Events)
        /\ RangeOf(Append(notifications[x], <<l, e>>))
             = RangeOf(notifications[x]) \cup {<<l, e>>}
        /\ Distinct(Append(notifications[x], <<l, e>>))
    <2>1. <<l, e>> \notin RangeOf(notifications[x])
      BY <1>3, <1>4 DEF Queued
    <2>2. notifications[x] \in Seq(Registrations \X Events) /\ <<l, e>> \in Registrations \X Events
      BY <1>2, <1>3 DEF EventTypes
    <2>3. Distinct(notifications[x])
      BY <1>3 DEF NoRepeats
    <2>4. QED BY <2>1, <2>2, <2>3, RangeOfAppend
  <1> HIDE DEF x, l
  <1>6. EventTypes'
    BY <1>1, <1>2, <1>3, <1>5 DEF EventTypes
  <1>7. \A y \in Executors : RangeOf(notifications'[y]) =
             IF y = x THEN RangeOf(notifications[y]) \cup {<<l, e>>}
                      ELSE RangeOf(notifications[y])
    BY <1>1, <1>3, <1>5 DEF EventTypes
  <1>8. \A p : Queued(p)' <=> Queued(p) \/ p = <<l, e>>
    BY <1>7, <1>3 DEF Queued
  <1>9. \A d \in Events : RangeOf(toNotify'[d]) =
             IF d = e THEN RangeOf(toNotify[d]) \ {l} ELSE RangeOf(toNotify[d])
    BY <1>1, <1>2 DEF EventTypes
  <1>10. NoRepeats'
    <2>1. \A d \in Events : Distinct(toNotify'[d])
      BY <1>1, <1>2 DEF NoRepeats, EventTypes
    <2>2. \A y \in Executors : Distinct(notifications'[y])
      BY <1>1, <1>3, <1>5 DEF NoRepeats, EventTypes
    <2>3. \A y, z \in Executors :
            y # z => RangeOf(notifications'[y]) \cap RangeOf(notifications'[z]) = {}
      <3>1. \A y \in Executors : <<l, e>> \notin RangeOf(notifications[y])
        BY <1>4 DEF Queued
      <3>2. QED BY <3>1, <1>7 DEF NoRepeats
    <2>4. QED BY <1>1, <2>1, <2>2, <2>3 DEF NoRepeats
  <1>11. OnePlace'
    <2>1. ASSUME NEW m \in Registrations, NEW d \in Events
          PROVE  /\ m \in RangeOf(toNotify'[d]) =>
                      heard[<<m, d>>] = 0 /\ ~Queued(<<m, d>>)'
                 /\ heard[<<m, d>>] = 1 => ~Queued(<<m, d>>)'
      <3>1. CASE m = l /\ d = e
        <4>1. m \notin RangeOf(toNotify'[d]) /\ heard[<<m, d>>] = 0
          BY <3>1, <1>4, <1>9
        <4>2. QED BY <4>1
      <3>2. CASE ~(m = l /\ d = e)
        <4>1. Queued(<<m, d>>)' <=> Queued(<<m, d>>)
          BY <3>2, <1>8
        <4>2. m \in RangeOf(toNotify'[d]) => m \in RangeOf(toNotify[d])
          BY <1>9
        <4>3. QED BY <4>1, <4>2 DEF OnePlace
      <3>3. QED BY <3>1, <3>2
    <2>2. QED BY <2>1, <1>1 DEF OnePlace
  <1>12. TaskStages'
    BY <1>1, <1>8 DEF TaskStages, EventTypes
  <1>13. NobodyMissed'
    <2>1. ASSUME NEW d \in Events, task[d] \in {"running", "done"}, NEW m \in entitled[d]
          PROVE  m \in RangeOf(toNotify'[d]) \/ Queued(<<m, d>>)' \/ heard[<<m, d>>] = 1
      <3>1. m \in RangeOf(toNotify[d]) \/ Queued(<<m, d>>) \/ heard[<<m, d>>] = 1
        BY <2>1 DEF NobodyMissed
      <3>2. QED BY <3>1, <1>8, <1>9
    <2>2. QED BY <2>1, <1>1 DEF NobodyMissed
  <1>14. QED BY <1>6, <1>10, <1>11, <1>12, <1>13

(* A notification leaves its queue when the listener is called.             *)
LEMMA CallListenerKeeps ==
  ASSUME EventsIInv, NEW x \in Executors, CallListener(x)
  PROVE  EventsIInv'
  <1> USE DEF EventsIInv
  <1> DEFINE p == Head(notifications[x])
  <1>1. /\ notifications[x] # << >>
        /\ notifications' = [notifications EXCEPT ![x] = Tail(@)]
        /\ heard' = [heard EXCEPT ![p] = @ + 1]
        /\ UNCHANGED <<eventListeners, received, task, toNotify, entitled>>
    BY DEF CallListener
  <1>2. /\ p \in Registrations \X Events /\ p \in RangeOf(notifications[x])
        /\ Tail(notifications[x]) \in Seq(Registrations \X Events)
        /\ Distinct(Tail(notifications[x]))
        /\ RangeOf(Tail(notifications[x])) = RangeOf(notifications[x]) \ {p}
    BY <1>1, RangeOfTail DEF EventTypes, NoRepeats
  <1> HIDE DEF p
  <1>3. PICK l \in Registrations, e \in Events : p = <<l, e>>
    BY <1>2
  <1>4. Queued(p) /\ heard[p] = 0
    <2>1. Queued(p)
      BY <1>2 DEF Queued
    <2>2. heard[p] # 1
      BY <2>1, <1>3 DEF OnePlace
    <2>3. heard[p] \in 0 .. 1
      BY <1>2 DEF EventTypes
    <2>4. QED BY <2>1, <2>2, <2>3
  <1>5. heard' = [heard EXCEPT ![p] = 1]
    BY <1>1, <1>4
  <1>6. EventTypes'
    BY <1>1, <1>2, <1>5 DEF EventTypes
  <1>7. \A y \in Executors : RangeOf(notifications'[y]) =
             IF y = x THEN RangeOf(notifications[y]) \ {p}
                      ELSE RangeOf(notifications[y])
    BY <1>1, <1>2 DEF EventTypes
  <1>8. \A q : Queued(q)' <=> Queued(q) /\ q # p
    <2>1. \A y \in Executors : y # x => p \notin RangeOf(notifications[y])
      BY <1>2 DEF NoRepeats
    <2>2. QED BY <1>7, <2>1 DEF Queued
  <1>9. NoRepeats'
    <2>1. \A y \in Executors : Distinct(notifications'[y])
      BY <1>1, <1>2 DEF NoRepeats, EventTypes
    <2>2. \A y, z \in Executors :
            y # z => RangeOf(notifications'[y]) \cap RangeOf(notifications'[z]) = {}
      BY <1>7 DEF NoRepeats
    <2>3. QED BY <1>1, <2>1, <2>2 DEF NoRepeats
  <1>10. \A m \in Registrations, d \in Events :
           heard'[<<m, d>>] = IF <<m, d>> = p THEN 1 ELSE heard[<<m, d>>]
    BY <1>5 DEF EventTypes
  <1>11. OnePlace'
    <2>1. ASSUME NEW m \in Registrations, NEW d \in Events
          PROVE  /\ m \in RangeOf(toNotify[d]) =>
                      heard'[<<m, d>>] = 0 /\ ~Queued(<<m, d>>)'
                 /\ heard'[<<m, d>>] = 1 => ~Queued(<<m, d>>)'
      <3>1. CASE <<m, d>> = p
        BY <3>1, <1>4, <1>8 DEF OnePlace
      <3>2. CASE <<m, d>> # p
        BY <3>2, <1>8, <1>10 DEF OnePlace
      <3>3. QED BY <3>1, <3>2
    <2>2. QED BY <2>1, <1>1 DEF OnePlace
  <1>12. TaskStages'
    <2>1. ~(task[e] \in {"none", "waiting"})
      BY <1>3, <1>4 DEF TaskStages
    <2>2. \A m \in Registrations, d \in Events : d # e => <<m, d>> # p
      BY <1>3
    <2>3. QED BY <2>1, <2>2, <1>1, <1>8, <1>10 DEF TaskStages
  <1>13. NobodyMissed'
    <2>1. ASSUME NEW d \in Events, task[d] \in {"running", "done"}, NEW m \in entitled[d]
          PROVE  m \in RangeOf(toNotify[d]) \/ Queued(<<m, d>>)' \/ heard'[<<m, d>>] = 1
      <3>1. m \in Registrations
        BY DEF EventTypes
      <3>2. QED BY <2>1, <3>1, <1>8, <1>10 DEF NobodyMissed
    <2>2. QED BY <2>1, <1>1 DEF NobodyMissed
  <1>14. QED BY <1>6, <1>9, <1>11, <1>12, <1>13

LEMMA EventsStepKeeps == EventsIInv /\ [EventsNext]_eventVars => EventsIInv'
  <1> SUFFICES ASSUME EventsIInv, [EventsNext]_eventVars PROVE EventsIInv'
    OBVIOUS
  <1>1. ASSUME NEW l \in Registrations, AddEventListener(l) PROVE EventsIInv'
    BY <1>1, AddEventListenerKeeps
  <1>2. ASSUME NEW kind \in Executors, ReceiveEvent(kind) PROVE EventsIInv'
    BY <1>2, ReceiveEventKeeps
  <1>3. ASSUME NEW e \in Events, TaskStep(e) PROVE EventsIInv'
    BY <1>3, TaskKeeps, NotifyKeeps DEF TaskStep
  <1>4. ASSUME NEW x \in Executors, CallListener(x) PROVE EventsIInv'
    BY <1>4, CallListenerKeeps
  <1>5. ASSUME UNCHANGED <<eventListeners, received, task, toNotify, notifications,
                           heard, entitled>>
        PROVE  EventsIInv'
    BY <1>5, SameQueues
    DEF EventsIInv, EventTypes, NoRepeats, OnePlace, TaskStages, NobodyMissed
  <1>6. ASSUME NEW x \in Executors, ListenerEnds(x) \/ ListenerHangs(x)
        PROVE  EventsIInv'
    BY <1>5, <1>6 DEF ListenerEnds, ListenerHangs
  <1>7. CASE UNCHANGED eventVars
    BY <1>5, <1>7 DEF eventVars
  <1>8. QED BY <1>1, <1>2, <1>3, <1>4, <1>6, <1>7 DEF EventsNext, ExecutorStep

THEOREM EventsInductive == EventsSpec => []EventsIInv
  <1>1. QED BY EventsInitHolds, EventsStepKeeps, PTL DEF EventsSpec

(* A listener hears an event at most once, whatever the number of threads,  *)
(* listeners and events; and when the task of eventReceived is done, every  *)
(* listener that was registered when the event came has heard it or is in   *)
(* a queue for it, once.                                                    *)
THEOREM EventsHeardOnce == EventsSpec => []HeardOnce
  <1>1. EventsIInv => HeardOnce
    <2> SUFFICES ASSUME EventsIInv, NEW l \in Registrations, NEW e \in Events
                 PROVE  LET Count(x) == Cardinality({i \in DOMAIN notifications[x] :
                                            notifications[x][i] = <<l, e>>})
                            times == heard[<<l, e>>] + Count("event") + Count("job")
                        IN times <= 1 /\ (task[e] = "done" /\ l \in entitled[e] => times = 1)
      BY DEF HeardOnce
    <2> USE DEF EventsIInv
    <2> DEFINE p == <<l, e>>
               Count(x) == Cardinality({i \in DOMAIN notifications[x] :
                                          notifications[x][i] = p})
    <2>1. \A x \in Executors :
            Count(x) = IF p \in RangeOf(notifications[x]) THEN 1 ELSE 0
      <3> SUFFICES ASSUME NEW x \in Executors
                   PROVE  Count(x) = IF p \in RangeOf(notifications[x]) THEN 1 ELSE 0
        OBVIOUS
      <3>1. /\ notifications[x] \in Seq(Registrations \X Events)
            /\ Distinct(notifications[x])
        BY DEF EventTypes, NoRepeats
      <3>2. QED BY <3>1, OccursOnce
    <2>2. "event" \in Executors /\ "job" \in Executors
          /\ \A x \in Executors : x \in {"event", "job"}
      BY DEF Executors
    <2>3. ~(p \in RangeOf(notifications["event"]) /\ p \in RangeOf(notifications["job"]))
      BY <2>2 DEF NoRepeats
    <2>4. heard[<<l, e>>] = 0 \/ heard[<<l, e>>] = 1
      <3>1. p \in Registrations \X Events
        OBVIOUS
      <3>2. heard[p] \in 0 .. 1
        BY <3>1 DEF EventTypes
      <3>3. heard[p] = 0 \/ heard[p] = 1
        BY <3>2
      <3>4. QED BY <3>3
    <2>5. heard[<<l, e>>] = 1 => ~Queued(p)
      BY DEF OnePlace
    <2>6. Queued(p) <=> p \in RangeOf(notifications["event"])
                        \/ p \in RangeOf(notifications["job"])
      BY <2>2 DEF Queued
    <2>7. task[e] = "done" /\ l \in entitled[e] => Queued(p) \/ heard[<<l, e>>] = 1
      <3>1. ASSUME task[e] = "done", l \in entitled[e] PROVE l \notin RangeOf(toNotify[e])
        <4>1. toNotify[e] = << >>
          BY <3>1 DEF TaskStages
        <4>2. QED BY <4>1 DEF RangeOf
      <3>2. QED BY <3>1 DEF NobodyMissed
    <2>8. Count("event") = (IF p \in RangeOf(notifications["event"]) THEN 1 ELSE 0)
          /\ Count("job") = (IF p \in RangeOf(notifications["job"]) THEN 1 ELSE 0)
      BY <2>1, <2>2
    <2> HIDE DEF Count, p
    <2>9. heard[<<l, e>>] + Count("event") + Count("job") <= 1
          /\ (task[e] = "done" /\ l \in entitled[e] =>
                heard[<<l, e>>] + Count("event") + Count("job") = 1)
      <3> DEFINE A == p \in RangeOf(notifications["event"])
                 B == p \in RangeOf(notifications["job"])
      <3>1. /\ A => Count("event") = 1 /\ heard[<<l, e>>] = 0 /\ ~B
            /\ ~A => Count("event") = 0
            /\ B => Count("job") = 1 /\ heard[<<l, e>>] = 0
            /\ ~B => Count("job") = 0
        BY <2>3, <2>4, <2>5, <2>6, <2>8
      <3>2. task[e] = "done" /\ l \in entitled[e] => A \/ B \/ heard[<<l, e>>] = 1
        BY <2>6, <2>7
      <3> HIDE DEF A, B
      <3>3. CASE A
        BY <3>1, <3>3
      <3>4. CASE B
        BY <3>1, <3>4
      <3>5. CASE ~A /\ ~B
        BY <3>1, <3>2, <3>5, <2>4
      <3>6. QED BY <3>3, <3>4, <3>5
    <2>10. QED BY <2>9 DEF Count, p
  <1>2. QED BY <1>1, EventsInductive, PTL

=============================================================================
