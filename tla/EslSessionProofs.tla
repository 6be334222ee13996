--------------------------- MODULE EslSessionProofs ---------------------------
(***************************************************************************)
(* What EslSession promises for any number of threads, workers and         *)
(* commands: types, no reply without a callback, one reply per callback,   *)
(* and mix-ups that stay inside a burst of outstanding commands.           *)
(*                                                                         *)
(* The argument counts: the callbacks in the queue are at least as many as *)
(* the replies that were not matched yet (Counted). So when the queue is   *)
(* empty, and a burst ends, no old reply is on its way (NothingOld).       *)
(*                                                                         *)
(* And what EslFrameDecoder, in front of it in the pipeline of the         *)
(* connection, makes of any stream of messages.                            *)
(***************************************************************************)
EXTENDS EslSession, EslFrameDecoder, SequenceTheorems, FiniteSetTheorems, TLAPS

(* Commands and replies that still have to poll a callback.                 *)
Writing == \E u \in Users : pc[u] = "write"

Counted ==
  Len(toServer) + Len(toClient) + Cardinality(taken) + (IF Writing THEN 1 ELSE 0)
    <= Len(syncCallbacks)

(* The callbacks are polled in the order of their numbers.                  *)
CallbackLine ==
  /\ Len(syncCallbacks) <= added
  /\ \A i \in 1 .. Len(syncCallbacks) :
       syncCallbacks[i] = added - Len(syncCallbacks) + i
  /\ \A p \in holding \cup handled : p[2] <= added - Len(syncCallbacks)

(* Numbers are those of callbacks that exist.                               *)
Known ==
  /\ \A i \in 1 .. Len(toServer) : toServer[i] <= added
  /\ \A i \in 1 .. Len(toClient) : toClient[i] <= added
  /\ \A r \in taken : r <= added
  /\ \A p \in holding \cup handled : p[1] <= added /\ p[2] <= added
  /\ \A b \in bursts : b <= added
  /\ \A u \in Users : mine[u] <= added

(* The commands are written, and answered, in the order of their callbacks. *)
ReplyLine ==
  /\ \A i, j \in 1 .. Len(toServer) : i < j => toServer[i] < toServer[j]
  /\ \A i, j \in 1 .. Len(toClient) : i < j => toClient[i] < toClient[j]
  /\ \A i \in 1 .. Len(toClient), j \in 1 .. Len(toServer) :
       toClient[i] < toServer[j]

(* The thread that writes has the newest number of all.                     *)
WriterLast ==
  \A u \in Users : pc[u] = "write" =>
    /\ mine[u] = added
    /\ \A i \in 1 .. Len(toServer) : toServer[i] < added
    /\ \A i \in 1 .. Len(toClient) : toClient[i] < added
    /\ \A r \in taken : r < added
    /\ \A p \in holding \cup handled : p[1] < added
    /\ \A b \in bursts : b < added

(* A reply that was taken is older than those that were not, and is         *)
(* matched once.                                                            *)
TakenOnce ==
  /\ \A r \in taken :
       /\ \A i \in 1 .. Len(toServer) : r < toServer[i]
       /\ \A i \in 1 .. Len(toClient) : r < toClient[i]
       /\ \A p \in holding \cup handled : p[1] # r
  /\ \A p \in holding \cup handled :
       /\ \A i \in 1 .. Len(toServer) : p[1] < toServer[i]
       /\ \A i \in 1 .. Len(toClient) : p[1] < toClient[i]

(* Nothing that is outstanding is as old as the end of a burst.             *)
NothingOld ==
  \A b \in bursts :
    /\ \A i \in 1 .. Len(toServer) : b < toServer[i]
    /\ \A i \in 1 .. Len(toClient) : b < toClient[i]
    /\ \A i \in 1 .. Len(syncCallbacks) : b < syncCallbacks[i]
    /\ \A r \in taken : b < r

IInv ==
  /\ SessionTypeOK /\ Counted /\ CallbackLine /\ Known /\ ReplyLine
  /\ WriterLast /\ TakenOnce /\ OneReplyEach /\ NothingOld /\ MixUpsStayInBurst

-----------------------------------------------------------------------------
(* What Append, Tail and SubSeq do to a sequence of numbers.                *)
LEMMA AppendFacts ==
  ASSUME NEW s \in Seq(Nat), NEW n \in Nat
  PROVE  /\ Append(s, n) \in Seq(Nat)
         /\ Len(Append(s, n)) = Len(s) + 1
         /\ \A i \in 1 .. Len(s) : Append(s, n)[i] = s[i]
         /\ Append(s, n)[Len(s) + 1] = n
         /\ Len(s) \in Nat
         /\ \A i \in 1 .. Len(Append(s, n)) :
              \/ i \in 1 .. Len(s) /\ Append(s, n)[i] = s[i]
              \/ i = Len(s) + 1 /\ Append(s, n)[i] = n
  OBVIOUS

LEMMA TailFacts ==
  ASSUME NEW s \in Seq(Nat), s # << >>
  PROVE  /\ Head(s) \in Nat /\ Head(s) = s[1] /\ 1 \in 1 .. Len(s)
         /\ Tail(s) \in Seq(Nat)
         /\ Len(Tail(s)) = Len(s) - 1
         /\ \A i \in 1 .. Len(Tail(s)) :
              /\ Tail(s)[i] = s[i + 1]
              /\ i + 1 \in 1 .. Len(s)
  OBVIOUS

LEMMA PrefixFacts ==
  ASSUME NEW s \in Seq(Nat), NEW k \in 0 .. Len(s)
  PROVE  /\ SubSeq(s, 1, k) \in Seq(Nat)
         /\ Len(SubSeq(s, 1, k)) = k
         /\ \A i \in 1 .. k : SubSeq(s, 1, k)[i] = s[i] /\ i \in 1 .. Len(s)
  OBVIOUS

(* What each action of the session leaves alone.                            *)
LEMMA Frames ==
  ASSUME [Next]_vars
  PROVE  /\ \/ \E u \in Users : AddCallback(u)
            \/ \E r \in taken : PollCallback(r)
            \/ UNCHANGED queueVars
         /\ \/ \E u \in Users : WriteCommand(u)
            \/ TakeReply
            \/ ServerAnswers
            \/ Disconnect
            \/ UNCHANGED networkVars
         /\ \/ TakeReply
            \/ \E r \in taken : PollCallback(r)
            \/ \E p \in holding : Handle(p)
            \/ UNCHANGED replyVars
         /\ \/ \E u \in Users : AddCallback(u)
            \/ UNCHANGED mine
<1>1. ASSUME \E t \in Threads : Call(t)
      PROVE  UNCHANGED <<queueVars, networkVars, replyVars, mine>>
  BY <1>1 DEF Call, stateVars, queueVars, networkVars, replyVars
<1>2. ASSUME \E u \in Users : Lock(u)
      PROVE  UNCHANGED <<queueVars, networkVars, replyVars, mine>>
  BY <1>2 DEF Lock, stateVars, queueVars, networkVars, replyVars
<1>3. ASSUME \E u \in Users : AddCallback(u)
      PROVE  UNCHANGED <<networkVars, replyVars>>
  BY <1>3 DEF AddCallback, stateVars, queueVars, networkVars, replyVars
<1>4. ASSUME \E u \in Users : WriteCommand(u)
      PROVE  UNCHANGED <<queueVars, replyVars, mine>>
  BY <1>4 DEF WriteCommand, stateVars, queueVars, networkVars, replyVars
<1>5. ASSUME \E u \in Users : Return(u)
      PROVE  UNCHANGED <<queueVars, networkVars, replyVars, mine>>
  BY <1>5 DEF Return, stateVars, queueVars, networkVars, replyVars
<1>6. ASSUME TakeAuthRequest
      PROVE  UNCHANGED <<queueVars, networkVars, replyVars, mine>>
  BY <1>6 DEF TakeAuthRequest, stateVars, queueVars, networkVars, replyVars
<1>7. ASSUME TakeReply
      PROVE  UNCHANGED <<queueVars, mine>>
  BY <1>7 DEF TakeReply, stateVars, queueVars, networkVars, replyVars
<1>8. ASSUME \E r \in taken : PollCallback(r)
      PROVE  UNCHANGED <<networkVars, mine>>
  BY <1>8 DEF PollCallback, stateVars, queueVars, networkVars, replyVars
<1>9. ASSUME \E p \in holding : Handle(p)
      PROVE  UNCHANGED <<queueVars, networkVars, mine>>
  BY <1>9 DEF Handle, stateVars, queueVars, networkVars, replyVars
<1>10. ASSUME ServerAnswers
      PROVE  UNCHANGED <<queueVars, replyVars, mine>>
  BY <1>10 DEF ServerAnswers, stateVars, queueVars, networkVars, replyVars
<1>11. ASSUME Disconnect
      PROVE  UNCHANGED <<queueVars, replyVars, mine>>
  BY <1>11 DEF Disconnect, stateVars, queueVars, networkVars, replyVars
<1>12. ASSUME UNCHANGED vars
       PROVE  UNCHANGED <<queueVars, networkVars, replyVars, mine>>
  BY <1>12 DEF vars
<1> QED
  BY <1>1, <1>2, <1>3, <1>4, <1>5, <1>6, <1>7, <1>8, <1>9, <1>10, <1>11, <1>12 DEF Next, UserStep, PoolStep

(* syncLock belongs to the thread that adds and writes.                     *)
LEMMA LockKept ==
  ASSUME FlagTypes, LockTypes, [Next]_vars
  PROVE  FlagTypes' /\ LockTypes'
<1> USE SessionAssumption DEF FlagTypes, LockTypes, Users
<1>1. CASE \E t \in Threads : Call(t)
  BY <1>1, SMTT(40) DEF Call, stateVars, queueVars, networkVars, replyVars
<1>2. CASE \E u \in Users : Lock(u)
  BY <1>2, SMTT(40) DEF Lock, stateVars, queueVars, networkVars, replyVars
<1>3. CASE \E u \in Users : AddCallback(u)
  BY <1>3, SMTT(40) DEF AddCallback, stateVars, queueVars, networkVars, replyVars
<1>4. CASE \E u \in Users : WriteCommand(u)
  BY <1>4, SMTT(40) DEF WriteCommand, stateVars, queueVars, networkVars, replyVars
<1>5. CASE \E u \in Users : Return(u)
  BY <1>5, SMTT(40) DEF Return, stateVars, queueVars, networkVars, replyVars
<1>6. CASE TakeAuthRequest
  <2>1. FlagTypes'
    BY <1>6 DEF TakeAuthRequest, stateVars
  <2>2. LockTypes'
    BY <1>6, SMTT(40) DEF TakeAuthRequest
  <2> QED
    BY <2>1, <2>2
<1>7. CASE TakeReply
  BY <1>7, SMTT(40) DEF TakeReply, stateVars, queueVars, networkVars, replyVars
<1>8. CASE \E r \in taken : PollCallback(r)
  BY <1>8, SMTT(40) DEF PollCallback, stateVars, queueVars, networkVars, replyVars
<1>9. CASE \E p \in holding : Handle(p)
  BY <1>9, SMTT(40) DEF Handle, stateVars, queueVars, networkVars, replyVars
<1>10. CASE ServerAnswers
  BY <1>10, SMTT(40) DEF ServerAnswers, stateVars, queueVars, networkVars, replyVars
<1>11. CASE Disconnect
  <2>1. FlagTypes'
    BY <1>11 DEF Disconnect, stateVars
  <2>2. LockTypes'
    BY <1>11, SMTT(40) DEF Disconnect
  <2> QED
    BY <2>1, <2>2
<1>12. CASE UNCHANGED vars
  BY <1>12 DEF vars, stateVars, queueVars, networkVars, replyVars
<1> QED
  BY <1>1, <1>2, <1>3, <1>4, <1>5, <1>6, <1>7, <1>8, <1>9, <1>10, <1>11, <1>12 DEF Next, UserStep, PoolStep

(* The queues hold numbers.                                                 *)
LEMMA QueuesKept ==
  ASSUME QueueTypes, [Next]_vars
  PROVE  QueueTypes'
<1> USE DEF QueueTypes
<1>1. CASE \E u \in Users : AddCallback(u)
  BY <1>1, AppendFacts, SMTT(40) DEF AddCallback, stateVars, queueVars, networkVars, replyVars
<1>2. CASE \E u \in Users : WriteCommand(u)
  BY <1>2, AppendFacts, SMTT(40) DEF WriteCommand, stateVars, queueVars, networkVars, replyVars
<1>3. CASE TakeReply
  BY <1>3, TailFacts, SMTT(40) DEF TakeReply, stateVars, queueVars, networkVars, replyVars
<1>4. CASE \E r \in taken : PollCallback(r)
  BY <1>4, TailFacts, SMTT(40) DEF PollCallback, stateVars, queueVars, networkVars, replyVars
<1>5. CASE ServerAnswers
  BY <1>5, TailFacts, AppendFacts, SMTT(40) DEF ServerAnswers, stateVars, queueVars, networkVars, replyVars
<1>6. CASE Disconnect
  BY <1>6, PrefixFacts, SMTT(40) DEF Disconnect, stateVars, queueVars, networkVars, replyVars
<1>7. CASE UNCHANGED <<queueVars, networkVars, mine>>
  BY <1>7 DEF stateVars, queueVars, networkVars, replyVars
<1> QED
  BY Frames, <1>1, <1>2, <1>3, <1>4, <1>5, <1>6, <1>7 DEF queueVars, networkVars, replyVars

(* The replies are pairs of numbers, finitely many without a callback.      *)
LEMMA RepliesKept ==
  ASSUME QueueTypes, ReplyTypes, [Next]_vars
  PROVE  ReplyTypes'
<1> USE DEF QueueTypes, ReplyTypes
<1>1. CASE TakeReply
  <2>1. toClient # << >> /\ taken' = taken \cup {Head(toClient)}
    BY <1>1 DEF TakeReply
  <2>2. taken' \subseteq Nat /\ IsFiniteSet(taken')
    <3>1. Head(toClient) \in Nat
      BY <2>1, TailFacts
    <3>2. IsFiniteSet(taken \cup {Head(toClient)})
      BY FS_AddElement
    <3> QED
      BY <2>1, <3>1, <3>2
  <2> QED
    BY <1>1, <2>2 DEF TakeReply
<1>2. CASE \E r \in taken : PollCallback(r)
  <2> PICK r \in taken : PollCallback(r)
    BY <1>2
  <2>1. IsFiniteSet(taken \ {r})
    BY FS_RemoveElement
  <2> QED
    BY <2>1, TailFacts DEF PollCallback
<1>3. CASE \E p \in holding : Handle(p)
  BY <1>3, SMTT(40) DEF Handle, stateVars, queueVars, networkVars, replyVars
<1>4. CASE UNCHANGED replyVars
  BY <1>4 DEF stateVars, queueVars, networkVars, replyVars
<1> QED
  BY Frames, <1>1, <1>2, <1>3, <1>4 DEF queueVars, networkVars, replyVars

(* Every reply on its way has a callback left to poll.                     *)
LEMMA CountedKept ==
  ASSUME SessionTypeOK, Counted, [Next]_vars
  PROVE  Counted'
<1> USE DEF SessionTypeOK
<1>1. CASE \E t \in Threads : Call(t)
  <2>1. UNCHANGED <<syncCallbacks, toServer, toClient, taken>>
    BY <1>1 DEF Call, stateVars, queueVars, networkVars, replyVars
  <2>2. Writing' <=> Writing
    BY <1>1, SessionAssumption DEF Call, Writing, LockTypes, Users
  <2> QED
    BY <2>1, <2>2 DEF Counted
<1>2. CASE \E u \in Users : Lock(u)
  <2>1. UNCHANGED <<syncCallbacks, toServer, toClient, taken>>
    BY <1>2 DEF Lock, stateVars, queueVars, networkVars, replyVars
  <2>2. Writing' <=> Writing
    BY <1>2, SessionAssumption DEF Lock, Writing, LockTypes, Users
  <2> QED
    BY <2>1, <2>2 DEF Counted
<1>3. CASE \E u \in Users : AddCallback(u)
  <2> PICK u \in Users : AddCallback(u)
    BY <1>3
  <2>1. Len(syncCallbacks') = Len(syncCallbacks) + 1
    BY AppendFacts DEF AddCallback, QueueTypes
  <2>2. ~Writing
    BY DEF AddCallback, Writing, LockTypes
  <2>3. UNCHANGED <<toServer, toClient, taken>>
    BY DEF AddCallback, networkVars, replyVars
  <2> QED
    BY <2>1, <2>2, <2>3, FS_CardinalityType DEF Counted, QueueTypes, ReplyTypes
<1>4. CASE \E u \in Users : WriteCommand(u)
  <2> PICK u \in Users : WriteCommand(u)
    BY <1>4
  <2>1. Len(toServer') <= Len(toServer) + 1 /\ Len(toServer') \in Nat
    BY AppendFacts DEF WriteCommand, QueueTypes
  <2>2. Writing
    BY DEF WriteCommand, Writing
  <2>3. ~Writing'
    BY DEF WriteCommand, Writing, LockTypes
  <2>4. UNCHANGED <<syncCallbacks, toClient, taken>>
    BY DEF WriteCommand, queueVars, replyVars
  <2> QED
    BY <2>1, <2>2, <2>3, <2>4, FS_CardinalityType DEF Counted, QueueTypes, ReplyTypes
<1>5. CASE \E u \in Users : Return(u)
  <2>1. UNCHANGED <<syncCallbacks, toServer, toClient, taken>>
    BY <1>5 DEF Return, stateVars, queueVars, networkVars, replyVars
  <2>2. Writing' <=> Writing
    BY <1>5, SessionAssumption DEF Return, Writing, LockTypes, Users
  <2> QED
    BY <2>1, <2>2 DEF Counted
<1>6. CASE TakeAuthRequest
  <2>1. UNCHANGED <<syncCallbacks, toServer, toClient, taken>>
    BY <1>6 DEF TakeAuthRequest, stateVars, queueVars, networkVars, replyVars
  <2>2. Writing' <=> Writing
    BY <1>6, SessionAssumption DEF TakeAuthRequest, Writing, LockTypes, Users
  <2> QED
    BY <2>1, <2>2 DEF Counted
<1>7. CASE TakeReply
  <2> USE DEF QueueTypes, ReplyTypes
  <2>1. Len(toClient') = Len(toClient) - 1 /\ Head(toClient) \in Nat
    BY <1>7, TailFacts DEF TakeReply
  <2>2. taken' = taken \cup {Head(toClient)}
    BY <1>7 DEF TakeReply
  <2>3. Cardinality(taken') <= Cardinality(taken) + 1 /\ Cardinality(taken') \in Nat
    <3>1. /\ IsFiniteSet(taken \cup {Head(toClient)})
          /\ Cardinality(taken \cup {Head(toClient)})
               = IF Head(toClient) \in taken THEN Cardinality(taken)
                                            ELSE Cardinality(taken) + 1
      BY FS_AddElement
    <3>2. Cardinality(taken) \in Nat
      BY FS_CardinalityType
    <3> QED
      BY <2>2, <3>1, <3>2
  <2>4. UNCHANGED <<syncCallbacks, toServer, pc>>
    BY <1>7 DEF TakeReply, queueVars
  <2> QED
    BY <2>1, <2>3, <2>4, FS_CardinalityType DEF Counted, Writing
<1>8. CASE \E r \in taken : PollCallback(r)
  <2> USE DEF QueueTypes, ReplyTypes
  <2> PICK r \in taken : PollCallback(r)
    BY <1>8
  <2>1. Len(syncCallbacks') = Len(syncCallbacks) - 1
    BY TailFacts DEF PollCallback
  <2>2. taken' = taken \ {r}
    BY DEF PollCallback
  <2>3. Cardinality(taken') = Cardinality(taken) - 1
    BY <2>2, FS_RemoveElement
  <2>4. UNCHANGED <<toServer, toClient, pc>>
    BY DEF PollCallback, networkVars
  <2>5. Writing' <=> Writing
    BY <2>4 DEF Writing
  <2>6. Cardinality(taken) \in Nat /\ Len(syncCallbacks) \in Nat
    BY FS_CardinalityType
  <2> QED
    BY <2>1, <2>3, <2>4, <2>5, <2>6 DEF Counted
<1>9. CASE \E p \in holding : Handle(p)
  <2> UNCHANGED <<syncCallbacks, toServer, toClient, taken, pc>>
    BY <1>9 DEF Handle, stateVars, queueVars, networkVars, replyVars
  <2> QED
    BY DEF Counted, Writing
<1>10. CASE ServerAnswers
  <2> USE DEF QueueTypes, ReplyTypes
  <2>1. Len(toServer') = Len(toServer) - 1 /\ Len(toClient') = Len(toClient) + 1
    BY <1>10, TailFacts, AppendFacts DEF ServerAnswers
  <2>2. UNCHANGED <<syncCallbacks, taken, pc>>
    BY <1>10 DEF ServerAnswers, queueVars, replyVars
  <2> QED
    BY <2>1, <2>2, FS_CardinalityType DEF Counted, Writing
<1>11. CASE Disconnect
  <2> USE DEF QueueTypes, ReplyTypes
  <2>1. Len(toServer') = 0 /\ Len(toClient') <= Len(toClient) /\ Len(toClient') \in Nat
    BY <1>11, PrefixFacts DEF Disconnect
  <2>2. UNCHANGED <<syncCallbacks, taken, pc>>
    BY <1>11 DEF Disconnect, queueVars, replyVars
  <2> QED
    BY <2>1, <2>2, FS_CardinalityType DEF Counted, Writing
<1>12. CASE UNCHANGED vars
  BY <1>12 DEF vars, stateVars, queueVars, networkVars, replyVars, Counted, Writing
<1> QED
  BY <1>1, <1>2, <1>3, <1>4, <1>5, <1>6, <1>7, <1>8, <1>9, <1>10, <1>11, <1>12 DEF Next, UserStep, PoolStep

(* Callbacks are polled in turn.                                            *)
LEMMA CallbackLineKept ==
  ASSUME SessionTypeOK, CallbackLine, [Next]_vars
  PROVE  CallbackLine'
<1> USE DEF SessionTypeOK, QueueTypes, ReplyTypes, CallbackLine
<1>1. CASE \E u \in Users : AddCallback(u)
  <2> PICK u \in Users : AddCallback(u)
    BY <1>1
  <2>1. /\ added' = added + 1
        /\ Len(syncCallbacks') = Len(syncCallbacks) + 1
        /\ \A i \in 1 .. Len(syncCallbacks) : syncCallbacks'[i] = syncCallbacks[i]
        /\ syncCallbacks'[Len(syncCallbacks) + 1] = added + 1
    BY AppendFacts DEF AddCallback
  <2>2. UNCHANGED <<holding, handled>>
    BY DEF AddCallback, replyVars
  <2>3. \A i \in 1 .. Len(syncCallbacks') :
          syncCallbacks'[i] = added' - Len(syncCallbacks') + i
    <3> TAKE i \in 1 .. Len(syncCallbacks')
    <3>1. CASE i \in 1 .. Len(syncCallbacks)
      BY <2>1, <3>1
    <3>2. CASE i = Len(syncCallbacks) + 1
      BY <2>1, <3>2
    <3>3. i \in 1 .. Len(syncCallbacks) \/ i = Len(syncCallbacks) + 1
      BY AppendFacts DEF AddCallback
    <3> QED
      BY <3>1, <3>2, <3>3
  <2>4. added' - Len(syncCallbacks') = added - Len(syncCallbacks)
    BY <2>1
  <2> QED
    BY <2>1, <2>2, <2>3, <2>4
<1>2. CASE TakeReply
  BY <1>2, SMTT(40) DEF TakeReply, stateVars, queueVars, networkVars, replyVars
<1>3. CASE \E r \in taken : PollCallback(r)
  BY <1>3, TailFacts, SMTT(40) DEF PollCallback, stateVars, queueVars, networkVars, replyVars
<1>4. CASE \E p \in holding : Handle(p)
  BY <1>4, SMTT(40) DEF Handle, stateVars, queueVars, networkVars, replyVars
<1>5. CASE UNCHANGED <<queueVars, replyVars>>
  BY <1>5 DEF stateVars, queueVars, networkVars, replyVars
<1> QED
  BY Frames, <1>1, <1>2, <1>3, <1>4, <1>5 DEF queueVars, networkVars, replyVars

(* A number that turns up was given to a callback.                          *)
LEMMA KnownKept ==
  ASSUME SessionTypeOK, CallbackLine, Known, [Next]_vars
  PROVE  Known'
<1> USE DEF SessionTypeOK, QueueTypes, ReplyTypes, CallbackLine, Known
<1>1. CASE \E u \in Users : AddCallback(u)
  BY <1>1, AppendFacts, SMTT(40) DEF AddCallback, stateVars, queueVars, networkVars, replyVars
<1>2. CASE \E u \in Users : WriteCommand(u)
  <2> PICK u \in Users : WriteCommand(u)
    BY <1>2
  <2>1. mine[u] \in Nat /\ mine[u] <= added
    OBVIOUS
  <2>2. /\ toServer' \in {Append(toServer, mine[u]), toServer}
        /\ UNCHANGED <<queueVars, mine, toClient, replyVars>>
    BY DEF WriteCommand
  <2>3. \A i \in 1 .. Len(toServer') : toServer'[i] <= added
    BY <2>1, <2>2, AppendFacts
  <2> QED
    BY <2>2, <2>3 DEF queueVars, replyVars
<1>3. CASE TakeReply
  BY <1>3, TailFacts, SMTT(40) DEF TakeReply, stateVars, queueVars, networkVars, replyVars
<1>4. CASE \E r \in taken : PollCallback(r)
  BY <1>4, TailFacts, SMTT(40) DEF PollCallback, stateVars, queueVars, networkVars, replyVars
<1>5. CASE \E p \in holding : Handle(p)
  BY <1>5, SMTT(40) DEF Handle, stateVars, queueVars, networkVars, replyVars
<1>6. CASE ServerAnswers
  BY <1>6, TailFacts, AppendFacts, SMTT(40) DEF ServerAnswers, stateVars, queueVars, networkVars, replyVars
<1>7. CASE Disconnect
  BY <1>7, PrefixFacts, SMTT(40) DEF Disconnect, stateVars, queueVars, networkVars, replyVars
<1>8. CASE UNCHANGED <<queueVars, networkVars, mine, replyVars>>
  BY <1>8 DEF stateVars, queueVars, networkVars, replyVars
<1> QED
  BY Frames, <1>1, <1>2, <1>3, <1>4, <1>5, <1>6, <1>7, <1>8 DEF queueVars, networkVars, replyVars

(* Commands and replies keep the order of their numbers.                    *)
LEMMA ReplyLineKept ==
  ASSUME SessionTypeOK, WriterLast, ReplyLine, [Next]_vars
  PROVE  ReplyLine'
<1> USE DEF SessionTypeOK, LockTypes, QueueTypes, ReplyLine
<1>1. CASE \E u \in Users : WriteCommand(u)
  <2> PICK u \in Users : WriteCommand(u)
    BY <1>1
  <2>1. mine[u] \in Nat /\ pc[u] = "write"
    BY DEF WriteCommand
  <2>2. /\ toServer' \in {Append(toServer, mine[u]), toServer}
        /\ UNCHANGED <<added, syncCallbacks, bursts, mine, toClient, taken,
                       holding, handled>>
    BY DEF WriteCommand, queueVars, replyVars
  <2>3. CASE toServer' = toServer
    BY <2>2, <2>3
  <2>4. CASE toServer' = Append(toServer, mine[u])
    <3>1. /\ Len(toServer) \in Nat /\ Len(toServer') = Len(toServer) + 1
          /\ \A i \in 1 .. Len(toServer') :
               \/ i \in 1 .. Len(toServer) /\ toServer'[i] = toServer[i]
               \/ i = Len(toServer) + 1 /\ toServer'[i] = mine[u]
      BY <2>1, <2>4, AppendFacts
    <3>2. /\ \A i \in 1 .. Len(toServer) : toServer[i] \in Nat /\ toServer[i] < mine[u]
          /\ \A i \in 1 .. Len(toClient) : toClient[i] \in Nat /\ toClient[i] < mine[u]
          /\ \A r \in taken : r \in Nat /\ r < mine[u]
          /\ \A p \in holding \cup handled : p[1] \in Nat /\ p[1] < mine[u]
          /\ \A b \in bursts : b \in Nat /\ b < mine[u]
          /\ mine[u] \in Nat
      <4>1. /\ mine[u] = added /\ mine[u] \in Nat
            /\ \A i \in 1 .. Len(toServer) : toServer[i] < mine[u]
            /\ \A i \in 1 .. Len(toClient) : toClient[i] < mine[u]
            /\ \A r \in taken : r < mine[u]
            /\ \A p \in holding \cup handled : p[1] < mine[u]
            /\ \A b \in bursts : b < mine[u]
        BY <2>1 DEF WriterLast
      <4>2. \A p \in holding \cup handled : p[1] \in Nat
        BY DEF ReplyTypes
      <4>3. taken \subseteq Nat
        BY DEF ReplyTypes
      <4> QED
        BY <4>1, <4>2, <4>3, SMTT(20)
    <3> HIDE DEF SessionTypeOK
    <3>3. \A i, j \in 1 .. Len(toServer') : i < j => toServer'[i] < toServer'[j]
      <4> TAKE i, j \in 1 .. Len(toServer')
      <4> HAVE i < j
      <4>1. i \in 1 .. Len(toServer) /\ toServer'[i] = toServer[i]
        BY <3>1
      <4>2. CASE j \in 1 .. Len(toServer) /\ toServer'[j] = toServer[j]
        BY <4>1, <4>2
      <4>3. CASE toServer'[j] = mine[u]
        BY <3>2, <4>1, <4>3
      <4> QED
        BY <3>1, <4>2, <4>3
    <3>4. \A i \in 1 .. Len(toClient), j \in 1 .. Len(toServer') :
            toClient[i] < toServer'[j]
      BY <3>1, <3>2
    <3> QED
      BY <2>2, <3>1, <3>2, <3>3, <3>4, SMTT(40)
  <2> QED
    BY <2>2, <2>3, <2>4
<1>2. CASE TakeReply
  BY <1>2, TailFacts, SMTT(40) DEF TakeReply, stateVars, queueVars, networkVars, replyVars
<1>3. CASE ServerAnswers
  <2>1. /\ toServer # << >> /\ toServer' = Tail(toServer)
        /\ toClient' = Append(toClient, Head(toServer))
    BY <1>3 DEF ServerAnswers
  <2>2. /\ Head(toServer) = toServer[1] /\ 1 \in 1 .. Len(toServer)
        /\ Head(toServer) \in Nat
        /\ Len(toServer') = Len(toServer) - 1
        /\ \A i \in 1 .. Len(toServer') :
             toServer'[i] = toServer[i + 1] /\ i + 1 \in 1 .. Len(toServer)
    BY <2>1, TailFacts
  <2>3. /\ Len(toClient) \in Nat /\ Len(toClient') = Len(toClient) + 1
        /\ \A i \in 1 .. Len(toClient') :
             \/ i \in 1 .. Len(toClient) /\ toClient'[i] = toClient[i]
             \/ i = Len(toClient) + 1 /\ toClient'[i] = toServer[1]
    BY <2>1, <2>2, AppendFacts
  <2>4. /\ \A i \in 1 .. Len(toServer) : toServer[i] \in Nat
        /\ \A i \in 1 .. Len(toClient) : toClient[i] \in Nat
        /\ Len(toServer) \in Nat
    OBVIOUS
  <2> HIDE DEF SessionTypeOK
  <2>5. \A i, j \in 1 .. Len(toServer') : i < j => toServer'[i] < toServer'[j]
    BY <2>2, <2>4, SMTT(20)
  <2>6. \A i, j \in 1 .. Len(toClient') : i < j => toClient'[i] < toClient'[j]
    <3> TAKE i, j \in 1 .. Len(toClient')
    <3> HAVE i < j
    <3>1. i \in 1 .. Len(toClient) /\ toClient'[i] = toClient[i]
      BY <2>3
    <3>2. CASE j \in 1 .. Len(toClient) /\ toClient'[j] = toClient[j]
      BY <3>1, <3>2
    <3>3. CASE toClient'[j] = toServer[1]
      BY <2>2, <3>1, <3>3
    <3> QED
      BY <2>3, <3>2, <3>3
  <2>7. \A i \in 1 .. Len(toClient'), j \in 1 .. Len(toServer') :
          toClient'[i] < toServer'[j]
    <3> TAKE i \in 1 .. Len(toClient'), j \in 1 .. Len(toServer')
    <3>1. toServer'[j] = toServer[j + 1] /\ j + 1 \in 1 .. Len(toServer) /\ 1 < j + 1
      BY <2>2
    <3>2. toServer[1] < toServer[j + 1]
      BY <2>2, <3>1
    <3> QED
      BY <2>3, <3>1, <3>2
  <2> QED
    BY <2>5, <2>6, <2>7
<1>4. CASE Disconnect
  BY <1>4, PrefixFacts, SMTT(40) DEF Disconnect, stateVars, queueVars, networkVars, replyVars
<1>5. CASE UNCHANGED networkVars
  BY <1>5 DEF stateVars, queueVars, networkVars, replyVars
<1> QED
  BY Frames, <1>1, <1>2, <1>3, <1>4, <1>5 DEF queueVars, networkVars, replyVars

(* While a thread writes nothing has a newer number.                        *)
LEMMA WriterLastKept ==
  ASSUME SessionTypeOK, CallbackLine, Known, WriterLast, [Next]_vars
  PROVE  WriterLast'
<1> USE DEF SessionTypeOK, QueueTypes, ReplyTypes, WriterLast
<1>1. CASE \E t \in Threads : Call(t)
  <2>1. UNCHANGED <<queueVars, mine, networkVars, replyVars>>
    BY <1>1 DEF Call, stateVars, queueVars, networkVars, replyVars
  <2>2. \A u \in Users : pc'[u] = "write" => pc[u] = "write"
    BY <1>1, SessionAssumption DEF Call, LockTypes, Users
  <2> QED
    BY <2>1, <2>2 DEF stateVars, queueVars, networkVars, replyVars
<1>2. CASE \E u \in Users : Lock(u)
  <2>1. UNCHANGED <<queueVars, mine, networkVars, replyVars>>
    BY <1>2 DEF Lock, stateVars, queueVars, networkVars, replyVars
  <2>2. \A u \in Users : pc'[u] = "write" => pc[u] = "write"
    BY <1>2, SessionAssumption DEF Lock, LockTypes, Users
  <2> QED
    BY <2>1, <2>2 DEF stateVars, queueVars, networkVars, replyVars
<1>3. CASE \E u \in Users : AddCallback(u)
  <2> PICK u \in Users : AddCallback(u)
    BY <1>3
  <2>1. \A v \in Users : pc'[v] = "write" => v = u
    BY DEF AddCallback, LockTypes
  <2>2. added' = added + 1 /\ mine'[u] = added + 1 /\ bursts' \subseteq bursts \cup {added}
    BY DEF AddCallback
  <2>3. UNCHANGED <<toServer, toClient, taken, holding, handled>>
    BY DEF AddCallback, networkVars, replyVars
  <2>4. /\ added \in Nat
        /\ \A i \in 1 .. Len(toServer) : toServer[i] \in Nat /\ toServer[i] <= added
        /\ \A i \in 1 .. Len(toClient) : toClient[i] \in Nat /\ toClient[i] <= added
        /\ \A r \in taken : r \in Nat /\ r <= added
        /\ \A b \in bursts : b \in Nat /\ b <= added
    BY SMTT(20) DEF Known
  <2>5. \A p \in holding \cup handled : p[1] \in Nat /\ p[1] <= added
    BY DEF Known
  <2> HIDE DEF SessionTypeOK
  <2> QED
    BY <2>1, <2>2, <2>3, <2>4, <2>5, SMTT(40)
<1>4. CASE \E u \in Users : WriteCommand(u)
  <2> PICK u \in Users : WriteCommand(u)
    BY <1>4
  <2> \A v \in Users : pc'[v] # "write"
    BY DEF WriteCommand, LockTypes
  <2> QED
    OBVIOUS
<1>5. CASE \E u \in Users : Return(u)
  <2>1. UNCHANGED <<queueVars, mine, networkVars, replyVars>>
    BY <1>5 DEF Return, stateVars, queueVars, networkVars, replyVars
  <2>2. \A u \in Users : pc'[u] = "write" => pc[u] = "write"
    BY <1>5, SessionAssumption DEF Return, LockTypes, Users
  <2> QED
    BY <2>1, <2>2 DEF stateVars, queueVars, networkVars, replyVars
<1>6. CASE TakeAuthRequest
  <2>1. UNCHANGED <<queueVars, mine, networkVars, replyVars>>
    BY <1>6 DEF TakeAuthRequest, stateVars, queueVars, networkVars, replyVars
  <2>2. \A u \in Users : pc'[u] = "write" => pc[u] = "write"
    BY <1>6, SessionAssumption DEF TakeAuthRequest, LockTypes, Users
  <2> QED
    BY <2>1, <2>2 DEF stateVars, queueVars, networkVars, replyVars
<1>7. CASE TakeReply
  BY <1>7, TailFacts, SMTT(40) DEF TakeReply, stateVars, queueVars, networkVars, replyVars
<1>8. CASE \E r \in taken : PollCallback(r)
  BY <1>8, TailFacts, SMTT(40) DEF PollCallback, stateVars, queueVars, networkVars, replyVars
<1>9. CASE \E p \in holding : Handle(p)
  BY <1>9, SMTT(40) DEF Handle, stateVars, queueVars, networkVars, replyVars
<1>10. CASE ServerAnswers
  BY <1>10, TailFacts, AppendFacts, SMTT(40) DEF ServerAnswers, stateVars, queueVars, networkVars, replyVars
<1>11. CASE Disconnect
  BY <1>11, PrefixFacts, SMTT(40) DEF Disconnect, stateVars, queueVars, networkVars, replyVars
<1>12. CASE UNCHANGED vars
  BY <1>12 DEF vars, stateVars, queueVars, networkVars, replyVars
<1> QED
  BY <1>1, <1>2, <1>3, <1>4, <1>5, <1>6, <1>7, <1>8, <1>9, <1>10, <1>11, <1>12 DEF Next, UserStep, PoolStep

(* A reply is taken once, before every later one.                           *)
LEMMA TakenOnceKept ==
  ASSUME SessionTypeOK, ReplyLine, WriterLast, TakenOnce, [Next]_vars
  PROVE  TakenOnce'
<1> USE DEF SessionTypeOK, LockTypes, QueueTypes, ReplyTypes, TakenOnce
<1>1. CASE \E u \in Users : WriteCommand(u)
  <2> PICK u \in Users : WriteCommand(u)
    BY <1>1
  <2>1. mine[u] \in Nat /\ pc[u] = "write"
    BY DEF WriteCommand
  <2>2. /\ toServer' \in {Append(toServer, mine[u]), toServer}
        /\ UNCHANGED <<added, syncCallbacks, bursts, mine, toClient, taken,
                       holding, handled>>
    BY DEF WriteCommand, queueVars, replyVars
  <2>3. CASE toServer' = toServer
    BY <2>2, <2>3
  <2>4. CASE toServer' = Append(toServer, mine[u])
    <3>1. /\ Len(toServer) \in Nat /\ Len(toServer') = Len(toServer) + 1
          /\ \A i \in 1 .. Len(toServer') :
               \/ i \in 1 .. Len(toServer) /\ toServer'[i] = toServer[i]
               \/ i = Len(toServer) + 1 /\ toServer'[i] = mine[u]
      BY <2>1, <2>4, AppendFacts
    <3>2. /\ \A i \in 1 .. Len(toServer) : toServer[i] \in Nat /\ toServer[i] < mine[u]
          /\ \A i \in 1 .. Len(toClient) : toClient[i] \in Nat /\ toClient[i] < mine[u]
          /\ \A r \in taken : r \in Nat /\ r < mine[u]
          /\ \A p \in holding \cup handled : p[1] \in Nat /\ p[1] < mine[u]
          /\ \A b \in bursts : b \in Nat /\ b < mine[u]
          /\ mine[u] \in Nat
      <4>1. /\ mine[u] = added /\ mine[u] \in Nat
            /\ \A i \in 1 .. Len(toServer) : toServer[i] < mine[u]
            /\ \A i \in 1 .. Len(toClient) : toClient[i] < mine[u]
            /\ \A r \in taken : r < mine[u]
            /\ \A p \in holding \cup handled : p[1] < mine[u]
            /\ \A b \in bursts : b < mine[u]
        BY <2>1 DEF WriterLast
      <4>2. \A p \in holding \cup handled : p[1] \in Nat
        BY DEF ReplyTypes
      <4>3. taken \subseteq Nat
        BY DEF ReplyTypes
      <4> QED
        BY <4>1, <4>2, <4>3, SMTT(20)
    <3> HIDE DEF SessionTypeOK
    <3> QED
      BY <2>2, <3>1, <3>2, SMTT(40)
  <2> QED
    BY <2>2, <2>3, <2>4
<1>2. CASE TakeReply
  <2>1. /\ toClient # << >> /\ toClient' = Tail(toClient)
        /\ taken' = taken \cup {Head(toClient)}
        /\ UNCHANGED <<toServer, holding, handled>>
    BY <1>2 DEF TakeReply
  <2> QED
    BY <2>1, TailFacts, SMTT(40) DEF ReplyLine
<1>3. CASE \E r \in taken : PollCallback(r)
  BY <1>3, TailFacts, SMTT(40) DEF PollCallback, stateVars, queueVars, networkVars, replyVars
<1>4. CASE \E p \in holding : Handle(p)
  BY <1>4, SMTT(40) DEF Handle, stateVars, queueVars, networkVars, replyVars
<1>5. CASE ServerAnswers
  BY <1>5, TailFacts, AppendFacts, SMTT(40) DEF ServerAnswers, stateVars, queueVars, networkVars, replyVars
<1>6. CASE Disconnect
  BY <1>6, PrefixFacts, SMTT(40) DEF Disconnect, stateVars, queueVars, networkVars, replyVars
<1>7. CASE UNCHANGED <<networkVars, replyVars>>
  BY <1>7 DEF stateVars, queueVars, networkVars, replyVars
<1> QED
  BY Frames, <1>1, <1>2, <1>3, <1>4, <1>5, <1>6, <1>7 DEF queueVars, networkVars, replyVars

(* The oldest callback is new to the replies, and so is the reply.          *)
LEMMA OneReplyKept ==
  ASSUME SessionTypeOK, CallbackLine, TakenOnce, OneReplyEach, [Next]_vars
  PROVE  OneReplyEach'
<1> USE DEF SessionTypeOK, QueueTypes, ReplyTypes, OneReplyEach
<1>1. CASE TakeReply
  BY <1>1, SMTT(40) DEF TakeReply, stateVars, queueVars, networkVars, replyVars
<1>2. CASE \E r \in taken : PollCallback(r)
  <2> PICK r \in taken : PollCallback(r)
    BY <1>2
  <2>1. /\ holding' \cup handled' = (holding \cup handled) \cup {<<r, Head(syncCallbacks)>>}
        /\ syncCallbacks # << >>
    BY DEF PollCallback
  <2>2. Head(syncCallbacks) \in Nat
        /\ Head(syncCallbacks) = added - Len(syncCallbacks) + 1
    BY <2>1, TailFacts DEF CallbackLine
  <2>3. \A p \in holding \cup handled : p[1] # r /\ p[2] # Head(syncCallbacks)
    BY <2>2 DEF CallbackLine, TakenOnce
  <2> QED
    BY <2>1, <2>2, <2>3
<1>3. CASE \E p \in holding : Handle(p)
  BY <1>3, SMTT(40) DEF Handle, stateVars, queueVars, networkVars, replyVars
<1>4. CASE UNCHANGED replyVars
  BY <1>4 DEF stateVars, queueVars, networkVars, replyVars
<1> QED
  BY Frames, <1>1, <1>2, <1>3, <1>4 DEF queueVars, networkVars, replyVars

(* When no callback is left a burst is over, and nothing of it remains.     *)
LEMMA NothingOldKept ==
  ASSUME SessionTypeOK, Counted, CallbackLine, Known, WriterLast, NothingOld, [Next]_vars
  PROVE  NothingOld'
<1> USE DEF SessionTypeOK, LockTypes, QueueTypes, ReplyTypes, NothingOld
<1>1. CASE \E u \in Users : AddCallback(u)
  <2> PICK u \in Users : AddCallback(u)
    BY <1>1
  <2>1. /\ added' = added + 1
        /\ Len(syncCallbacks') = Len(syncCallbacks) + 1
        /\ \A i \in 1 .. Len(syncCallbacks) : syncCallbacks'[i] = syncCallbacks[i]
        /\ syncCallbacks'[Len(syncCallbacks) + 1] = added + 1
        /\ UNCHANGED <<toServer, toClient, taken>>
    BY AppendFacts DEF AddCallback, networkVars, replyVars
  <2>2. CASE syncCallbacks # << >>
    <3>1. bursts' = bursts
      BY <2>2 DEF AddCallback
    <3>2. \A i \in 1 .. Len(syncCallbacks') :
            \/ i \in 1 .. Len(syncCallbacks) /\ syncCallbacks'[i] = syncCallbacks[i]
            \/ syncCallbacks'[i] = added + 1
      BY AppendFacts DEF AddCallback
    <3>3. /\ \A i \in 1 .. Len(syncCallbacks) : syncCallbacks[i] \in Nat
          /\ \A b \in bursts : b \in Nat /\ b <= added
          /\ added \in Nat
      BY DEF Known
    <3> HIDE DEF SessionTypeOK
    <3> QED
      BY <2>1, <3>1, <3>2, <3>3, SMTT(40)
  <2>3. CASE syncCallbacks = << >>
    <3>1. Len(toServer) = 0 /\ Len(toClient) = 0 /\ Cardinality(taken) = 0
      BY <2>3, FS_CardinalityType DEF Counted
    <3>2. taken = {}
      BY <3>1, FS_EmptySet
    <3>3. bursts' = bursts \cup {added}
      BY <2>3 DEF AddCallback
    <3> QED
      BY <2>1, <2>3, <3>1, <3>2, <3>3 DEF Known
  <2> QED
    BY <2>2, <2>3
<1>2. CASE \E u \in Users : WriteCommand(u)
  <2> PICK u \in Users : WriteCommand(u)
    BY <1>2
  <2>1. mine[u] \in Nat /\ pc[u] = "write"
    BY DEF WriteCommand
  <2>2. /\ toServer' \in {Append(toServer, mine[u]), toServer}
        /\ UNCHANGED <<added, syncCallbacks, bursts, mine, toClient, taken,
                       holding, handled>>
    BY DEF WriteCommand, queueVars, replyVars
  <2>3. CASE toServer' = toServer
    BY <2>2, <2>3
  <2>4. CASE toServer' = Append(toServer, mine[u])
    <3>1. /\ Len(toServer) \in Nat /\ Len(toServer') = Len(toServer) + 1
          /\ \A i \in 1 .. Len(toServer') :
               \/ i \in 1 .. Len(toServer) /\ toServer'[i] = toServer[i]
               \/ i = Len(toServer) + 1 /\ toServer'[i] = mine[u]
      BY <2>1, <2>4, AppendFacts
    <3>2. /\ \A i \in 1 .. Len(toServer) : toServer[i] \in Nat /\ toServer[i] < mine[u]
          /\ \A i \in 1 .. Len(toClient) : toClient[i] \in Nat /\ toClient[i] < mine[u]
          /\ \A r \in taken : r \in Nat /\ r < mine[u]
          /\ \A p \in holding \cup handled : p[1] \in Nat /\ p[1] < mine[u]
          /\ \A b \in bursts : b \in Nat /\ b < mine[u]
          /\ mine[u] \in Nat
      <4>1. /\ mine[u] = added /\ mine[u] \in Nat
            /\ \A i \in 1 .. Len(toServer) : toServer[i] < mine[u]
            /\ \A i \in 1 .. Len(toClient) : toClient[i] < mine[u]
            /\ \A r \in taken : r < mine[u]
            /\ \A p \in holding \cup handled : p[1] < mine[u]
            /\ \A b \in bursts : b < mine[u]
        BY <2>1 DEF WriterLast
      <4>2. \A p \in holding \cup handled : p[1] \in Nat
        BY DEF ReplyTypes
      <4>3. taken \subseteq Nat
        BY DEF ReplyTypes
      <4> QED
        BY <4>1, <4>2, <4>3, SMTT(20)
    <3> HIDE DEF SessionTypeOK
    <3> QED
      BY <2>2, <3>1, <3>2, SMTT(40)
  <2> QED
    BY <2>2, <2>3, <2>4
<1>3. CASE TakeReply
  BY <1>3, TailFacts, SMTT(40) DEF TakeReply, stateVars, queueVars, networkVars, replyVars
<1>4. CASE \E r \in taken : PollCallback(r)
  BY <1>4, TailFacts, SMTT(40) DEF PollCallback, stateVars, queueVars, networkVars, replyVars
<1>5. CASE \E p \in holding : Handle(p)
  BY <1>5, SMTT(40) DEF Handle, stateVars, queueVars, networkVars, replyVars
<1>6. CASE ServerAnswers
  BY <1>6, TailFacts, AppendFacts, SMTT(40) DEF ServerAnswers, stateVars, queueVars, networkVars, replyVars
<1>7. CASE Disconnect
  <2>1. /\ Len(toServer') = 0
        /\ \A i \in 1 .. Len(toClient') :
             i \in 1 .. Len(toClient) /\ toClient'[i] = toClient[i]
        /\ UNCHANGED <<bursts, syncCallbacks, taken>>
    BY <1>7, PrefixFacts DEF Disconnect, queueVars, replyVars
  <2> HIDE DEF SessionTypeOK
  <2> QED
    BY <2>1, SMTT(40)
<1>8. CASE UNCHANGED <<queueVars, networkVars, taken>>
  BY <1>8 DEF stateVars, queueVars, networkVars, replyVars
<1> QED
  BY Frames, <1>1, <1>2, <1>3, <1>4, <1>5, <1>6, <1>7, <1>8 DEF queueVars, networkVars, replyVars

(* A callback and its reply are on the same side of every burst's end.       *)
LEMMA BurstKept ==
  ASSUME SessionTypeOK, Known, NothingOld, MixUpsStayInBurst, [Next]_vars
  PROVE  MixUpsStayInBurst'
<1> USE DEF SessionTypeOK, QueueTypes, ReplyTypes, MixUpsStayInBurst
<1>1. CASE \E u \in Users : AddCallback(u)
  <2> PICK u \in Users : AddCallback(u)
    BY <1>1
  <2>1. bursts' \subseteq bursts \cup {added} /\ UNCHANGED <<holding, handled>>
    BY DEF AddCallback, replyVars
  <2> QED
    BY <2>1 DEF Known
<1>2. CASE TakeReply
  BY <1>2, SMTT(40) DEF TakeReply, stateVars, queueVars, networkVars, replyVars
<1>3. CASE \E r \in taken : PollCallback(r)
  <2> PICK r \in taken : PollCallback(r)
    BY <1>3
  <2>1. /\ holding' \cup handled' = (holding \cup handled) \cup {<<r, Head(syncCallbacks)>>}
        /\ syncCallbacks # << >> /\ bursts' = bursts
    BY DEF PollCallback
  <2>2. \A b \in bursts : b < r /\ b < Head(syncCallbacks)
    BY <2>1, TailFacts DEF NothingOld
  <2>3. Head(syncCallbacks) \in Nat
    BY <2>1, TailFacts
  <2> QED
    BY <2>1, <2>2, <2>3
<1>4. CASE \E p \in holding : Handle(p)
  BY <1>4, SMTT(40) DEF Handle, stateVars, queueVars, networkVars, replyVars
<1>5. CASE UNCHANGED <<queueVars, replyVars>>
  BY <1>5 DEF stateVars, queueVars, networkVars, replyVars
<1> QED
  BY Frames, <1>1, <1>2, <1>3, <1>4, <1>5 DEF queueVars, networkVars, replyVars

-----------------------------------------------------------------------------
LEMMA Initially ==
  ASSUME Init
  PROVE  IInv
<1> USE SessionAssumption DEF Init, Users
<1>1. SessionTypeOK
  <2>1. FlagTypes
    BY DEF FlagTypes
  <2>2. LockTypes
    BY DEF LockTypes
  <2>3. QueueTypes /\ ReplyTypes
    BY FS_EmptySet DEF QueueTypes, ReplyTypes
  <2> QED
    BY <2>1, <2>2, <2>3 DEF SessionTypeOK
<1>2. Counted
  BY FS_EmptySet DEF Counted, Writing
<1>3. CallbackLine /\ Known /\ ReplyLine /\ WriterLast
  BY DEF CallbackLine, Known, ReplyLine, WriterLast
<1>4. TakenOnce /\ OneReplyEach /\ NothingOld /\ MixUpsStayInBurst
  BY DEF TakenOnce, OneReplyEach, NothingOld, MixUpsStayInBurst
<1> QED
  BY <1>1, <1>2, <1>3, <1>4 DEF IInv

LEMMA Inductive ==
  ASSUME IInv, [Next]_vars
  PROVE  IInv'
<1> USE DEF IInv
<1>1. SessionTypeOK'
  BY LockKept, QueuesKept, RepliesKept DEF SessionTypeOK
<1>2. Counted' /\ CallbackLine' /\ Known'
  BY CountedKept, CallbackLineKept, KnownKept
<1>3. ReplyLine' /\ WriterLast' /\ TakenOnce' /\ OneReplyEach'
  BY ReplyLineKept, WriterLastKept, TakenOnceKept, OneReplyKept
<1>4. NothingOld' /\ MixUpsStayInBurst'
  BY NothingOldKept, BurstKept
<1> QED
  BY <1>1, <1>2, <1>3, <1>4

LEMMA Invariant == Spec => []IInv
<1> QED
  BY Initially, Inductive, PTL DEF Spec

(* The session keeps its types, and syncLock its holder.                    *)
THEOREM SessionTypeCorrect == Spec => []SessionTypeOK
<1>1. IInv => SessionTypeOK
  BY DEF IInv
<1> QED
  BY <1>1, Invariant, PTL

(* syncCallbacks.poll() always returns a callback, however replies,         *)
(* commands and a disconnect interleave.                                    *)
THEOREM EveryReplyFindsACallback == Spec => []NoOrphanReply
<1>1. IInv => NoOrphanReply
  <2> SUFFICES ASSUME IInv, taken # {}, syncCallbacks = << >>
               PROVE  FALSE
    BY DEF NoOrphanReply
  <2> USE DEF IInv, SessionTypeOK, QueueTypes, ReplyTypes
  <2>1. Cardinality(taken) = 0
    BY FS_CardinalityType DEF Counted
  <2> QED
    BY <2>1, FS_EmptySet
<1> QED
  BY <1>1, Invariant, PTL

(* A callback gets one reply and a reply releases one callback.             *)
THEOREM RepliesAreNotShared == Spec => []OneReplyEach
<1>1. IInv => OneReplyEach
  BY DEF IInv
<1> QED
  BY <1>1, Invariant, PTL

(* Replies are mixed up only among commands outstanding together.           *)
THEOREM MixUpsAreLocal == Spec => []MixUpsStayInBurst
<1>1. IInv => MixUpsStayInBurst
  BY DEF IInv
<1> QED
  BY <1>1, Invariant, PTL

-----------------------------------------------------------------------------
(***************************************************************************)
(* The frame decoder of the same connection. FlattenSeq is a recursive     *)
(* function; what it does piece by piece follows from a least counterexample.*)
(* From it: where each message, each of its lines and its body are in the  *)
(* stream. The invariant puts the decoder in one of these places.          *)
(***************************************************************************)

(* A least counterexample takes the place of an induction.                  *)
LEMMA LeastExists ==
  ASSUME NEW S \in SUBSET Nat, S # {}
  PROVE  \E x \in S : \A y \in S : x <= y
  <1> DEFINE Segments == {0 .. x : x \in S}
  <1>1. Segments # {} /\ Segments \subseteq FiniteSubsetsOf(Nat)
    <2>1. \A x \in S : 0 .. x \subseteq Nat /\ IsFiniteSet(0 .. x)
      BY FS_Interval
    <2>2. QED BY <2>1 DEF FiniteSubsetsOf
  <1>2. \E s \in Segments : \A t \in Segments : ~ (<<t, s>> \in StrictSubsetOrdering(Nat))
    <2> HIDE DEF Segments
    <2>1. IsWellFoundedOn(StrictSubsetOrdering(Nat), FiniteSubsetsOf(Nat))
      BY FS_StrictSubsetOrderingWellFounded
    <2>2. QED BY <1>1, <2>1, WFMin
  <1>3. PICK x \in S : \A t \in Segments : ~ (<<t, 0 .. x>> \in StrictSubsetOrdering(Nat))
    BY <1>2
  <1>4. ASSUME NEW y \in S PROVE x <= y
    <2>1. SUFFICES ASSUME y < x PROVE FALSE
      OBVIOUS
    <2>2. 0 .. y \subseteq 0 .. x /\ 0 .. y # 0 .. x
      <3>1. x \in 0 .. x /\ x \notin 0 .. y
        BY <2>1
      <3>2. QED BY <2>1, <3>1
    <2>3. <<0 .. y, 0 .. x>> \in StrictSubsetOrdering(Nat)
      BY <2>2 DEF StrictSubsetOrdering
    <2>4. QED BY <1>3, <2>3
  <1>5. QED BY <1>4

(* The pieces of s joined, from the first to the i-th, for every i.         *)
Joins(s, f, n, T) ==
  /\ f \in [0 .. n -> Seq(T)]
  /\ f[0] = << >>
  /\ \A i \in 1 .. n : f[i] = f[i - 1] \o s[i]

(* There is one join for every prefix of s.                                 *)
LEMMA JoinExists ==
  ASSUME NEW T, NEW s \in Seq(Seq(T)), NEW m \in 0 .. Len(s)
  PROVE  \E f : Joins(s, f, m, T)
<1> DEFINE Bad == {n \in 0 .. Len(s) : ~ \E f : Joins(s, f, n, T)}
<1>1. SUFFICES ASSUME Bad # {} PROVE FALSE
  OBVIOUS
<1>2. Bad \in SUBSET Nat
  OBVIOUS
<1>3. PICK n \in Bad : \A k \in Bad : n <= k
  <2> HIDE DEF Bad
  <2> QED BY <1>1, <1>2, LeastExists
<1>4. CASE n = 0
  <2>1. Joins(s, [i \in 0 .. 0 |-> << >>], 0, T)
    BY DEF Joins
  <2> QED BY <1>4, <2>1
<1>5. CASE n # 0
  <2>1. n \in 1 .. Len(s) /\ n - 1 \in 0 .. Len(s) /\ n - 1 \notin Bad
    <3>1. n \in 0 .. Len(s) /\ Len(s) \in Nat
      BY <1>3
    <3>2. n - 1 \in 0 .. Len(s) /\ n - 1 < n
      BY <1>5, <3>1
    <3> HIDE DEF Bad
    <3>3. n - 1 \notin Bad
      BY <1>3, <3>1, <3>2
    <3> QED BY <1>5, <3>1, <3>2, <3>3
  <2>2. PICK f : Joins(s, f, n - 1, T)
    BY <2>1
  <2> DEFINE g == [i \in 0 .. n |-> IF i = n THEN f[n - 1] \o s[n] ELSE f[i]]
  <2>3. f[n - 1] \in Seq(T) /\ s[n] \in Seq(T)
    BY <2>1, <2>2 DEF Joins
  <2>4. f[n - 1] \o s[n] \in Seq(T)
    BY <2>3
  <2>5. g \in [0 .. n -> Seq(T)]
    BY <2>1, <2>2, <2>4 DEF Joins
  <2>6. g[0] = << >>
    BY <2>1, <2>2 DEF Joins
  <2>7. ASSUME NEW i \in 1 .. n PROVE g[i] = g[i - 1] \o s[i]
    <3>1. i \in 0 .. n /\ i - 1 \in 0 .. n /\ i - 1 # n
      BY <2>1
    <3>2. g[i - 1] = f[i - 1]
      BY <3>1
    <3>3. CASE i = n
      BY <3>1, <3>2, <3>3
    <3>4. CASE i # n
      <4>1. i \in 1 .. n - 1
        BY <2>1, <3>4
      <4>2. f[i] = f[i - 1] \o s[i]
        BY <2>2, <4>1 DEF Joins
      <4> QED BY <3>1, <3>2, <3>4, <4>2
    <3> QED BY <3>3, <3>4
  <2>8. Joins(s, g, n, T)
    BY <2>5, <2>6, <2>7 DEF Joins
  <2> QED BY <2>8
<1> QED
  BY <1>4, <1>5

(* FlattenSeq is the last of the joins.                                     *)
LEMMA JoinIsFlat ==
  ASSUME NEW T, NEW s \in Seq(Seq(T)), NEW f, Joins(s, f, Len(s), T)
  PROVE  Seqs!FlattenSeq(s) = f[Len(s)]
<1>1. CASE Len(s) = 0
  BY <1>1 DEF Joins, Seqs!FlattenSeq
<1>2. CASE Len(s) # 0
  <2> DEFINE Step(g) == [i \in 1 .. Len(s) |-> IF i = 1 THEN s[i] ELSE g[i - 1] \o s[i]]
             h == [i \in 1 .. Len(s) |-> f[i]]
             g == CHOOSE g : g = Step(g)
  <2>1. ASSUME NEW i \in 1 .. Len(s) PROVE h[i] = IF i = 1 THEN s[i] ELSE h[i - 1] \o s[i]
    <3>1. f[i] = f[i - 1] \o s[i] /\ f[0] = << >> /\ s[i] \in Seq(T)
      BY DEF Joins
    <3>2. CASE i = 1
      <4>1. << >> \o s[i] = s[i]
        BY <3>1, ConcatEmptySeq
      <4>2. i - 1 = 0 /\ f[i - 1] = << >>
        BY <3>1, <3>2
      <4>3. f[i] = s[i]
        BY <3>1, <4>1, <4>2
      <4> QED BY <3>2, <4>3
    <3>3. CASE i # 1
      <4>1. i - 1 \in 1 .. Len(s)
        BY <3>3
      <4> QED BY <3>1, <3>3, <4>1
    <3> QED BY <3>2, <3>3
  <2>2. h = Step(h)
    BY <2>1
  <2>3. g = Step(g)
    BY <2>2
  <2> DEFINE Bad == {n \in 1 .. Len(s) : g[n] # f[n]}
  <2>4. Bad = {}
    <3> HIDE DEF g
    <3>1. SUFFICES ASSUME Bad # {} PROVE FALSE
      OBVIOUS
    <3>2. Bad \in SUBSET Nat
      OBVIOUS
    <3>3. PICK n \in Bad : \A k \in Bad : n <= k
      <4> HIDE DEF Bad
      <4> QED BY <3>1, <3>2, LeastExists
    <3>4. g[n] = IF n = 1 THEN s[n] ELSE g[n - 1] \o s[n]
      <4> HIDE DEF g
      <4> QED BY <2>3
    <3>5. h[n] = IF n = 1 THEN s[n] ELSE h[n - 1] \o s[n]
      BY <2>1
    <3>6. n # 1 => g[n - 1] = h[n - 1]
      <4> HIDE DEF g
      <4> QED BY <3>3
    <3> QED BY <3>4, <3>5, <3>6
  <2>5. g[Len(s)] = f[Len(s)]
    <3> HIDE DEF g
    <3>1. Len(s) \in 1 .. Len(s)
      BY <1>2
    <3> QED BY <2>4, <3>1
  <2> QED BY <1>2, <2>5 DEF Seqs!FlattenSeq
<1> QED
  BY <1>1, <1>2

(* The first n pieces of s joined.                                          *)
UpTo(s, n) == Seqs!FlattenSeq([j \in 1 .. n |-> s[j]])

(* And of the first n pieces, the n-th.                                     *)
LEMMA JoinIsUpTo ==
  ASSUME NEW T, NEW s \in Seq(Seq(T)), NEW f, Joins(s, f, Len(s), T),
         NEW n \in 0 .. Len(s)
  PROVE  UpTo(s, n) = f[n]
<1> DEFINE r == [j \in 1 .. n |-> s[j]]
           g == [i \in 0 .. n |-> f[i]]
<1>1. r \in Seq(Seq(T)) /\ Len(r) = n
  OBVIOUS
<1>5. 0 .. n \subseteq 0 .. Len(s) /\ 1 .. n \subseteq 1 .. Len(s) /\ n \in Nat
  OBVIOUS
<1>6. /\ f \in [0 .. Len(s) -> Seq(T)] /\ f[0] = << >>
      /\ \A i \in 1 .. Len(s) : f[i] = f[i - 1] \o s[i]
  BY DEF Joins
<1>2. Joins(r, g, n, T)
  <2>1. g \in [0 .. n -> Seq(T)] /\ g[0] = << >>
    <3>1. \A i \in 0 .. n : f[i] \in Seq(T)
      BY <1>5, <1>6
    <3>2. 0 \in 0 .. n
      BY <1>5
    <3> QED BY <1>6, <3>1, <3>2
  <2>2. ASSUME NEW i \in 1 .. n PROVE g[i] = g[i - 1] \o r[i]
    <3>1. f[i] = f[i - 1] \o s[i]
      BY <1>5, <1>6
    <3>2. g[i] = f[i] /\ g[i - 1] = f[i - 1] /\ r[i] = s[i]
      OBVIOUS
    <3> QED BY <3>1, <3>2
  <2> QED BY <2>1, <2>2 DEF Joins
<1>3. g[n] = f[n]
  OBVIOUS
<1>4. Seqs!FlattenSeq(r) = g[n]
  <2> HIDE DEF r, g
  <2> QED BY <1>1, <1>2, JoinIsFlat
<1> QED
  BY <1>3, <1>4 DEF UpTo

(* FlattenSeq piece by piece.                                               *)
LEMMA FlattenSteps ==
  ASSUME NEW T, NEW s \in Seq(Seq(T))
  PROVE  /\ UpTo(s, 0) = << >>
         /\ \A n \in 0 .. Len(s) : UpTo(s, n) \in Seq(T)
         /\ \A n \in 1 .. Len(s) : UpTo(s, n) = UpTo(s, n - 1) \o s[n]
         /\ UpTo(s, Len(s)) = Seqs!FlattenSeq(s)
<1>1. Len(s) \in 0 .. Len(s) /\ 0 \in 0 .. Len(s)
  OBVIOUS
<1>2. PICK f : Joins(s, f, Len(s), T)
  BY <1>1, JoinExists
<1>3. ASSUME NEW n \in 0 .. Len(s) PROVE UpTo(s, n) = f[n]
  BY <1>2, JoinIsUpTo
<1>4. Seqs!FlattenSeq(s) = f[Len(s)]
  BY <1>2, JoinIsFlat
<1>5. ASSUME NEW n \in 1 .. Len(s) PROVE UpTo(s, n) = UpTo(s, n - 1) \o s[n]
  <2>1. n \in 0 .. Len(s) /\ n - 1 \in 0 .. Len(s)
    OBVIOUS
  <2> QED BY <1>2, <1>3, <2>1 DEF Joins
<1> QED
  BY <1>1, <1>2, <1>3, <1>4, <1>5 DEF Joins

(* What is joined first stays where it is.                                  *)
LEMMA FlattenKeeps ==
  ASSUME NEW T, NEW s \in Seq(Seq(T)), NEW i \in 0 .. Len(s), NEW n \in i .. Len(s)
  PROVE  /\ Len(UpTo(s, i)) <= Len(UpTo(s, n))
         /\ \A p \in 1 .. Len(UpTo(s, i)) : UpTo(s, n)[p] = UpTo(s, i)[p]
<1> DEFINE Keeps(m) == /\ Len(UpTo(s, i)) <= Len(UpTo(s, m))
                       /\ \A p \in 1 .. Len(UpTo(s, i)) : UpTo(s, m)[p] = UpTo(s, i)[p]
           Bad == {m \in i .. Len(s) : ~Keeps(m)}
<1>1. SUFFICES ASSUME Bad # {} PROVE FALSE
  <2> HIDE DEF Keeps
  <2>1. Bad = {} => Keeps(n)
    OBVIOUS
  <2> QED BY <2>1 DEF Keeps
<1>2. Bad \in SUBSET Nat
  OBVIOUS
<1>3. PICK m \in Bad : \A k \in Bad : m <= k
  <2> HIDE DEF Bad
  <2> QED BY <1>1, <1>2, LeastExists
<1>4. UpTo(s, i) \in Seq(T)
  BY FlattenSteps
<1>5. m # i
  BY <1>3, <1>4
<1>6. m - 1 \in i .. Len(s) /\ m \in 1 .. Len(s) /\ m - 1 \in 0 .. Len(s)
  <2>1. m \in i .. Len(s) /\ Len(s) \in Nat
    BY <1>3
  <2> QED BY <1>5, <2>1
<1>7. Keeps(m - 1)
  <2> HIDE DEF Keeps
  <2>1. m - 1 < m /\ m \in Nat
    BY <1>6
  <2>2. m - 1 \notin Bad
    <3> HIDE DEF Bad
    <3> QED BY <1>3, <1>6, <2>1
  <2> QED BY <1>6, <2>2
<1>8. /\ UpTo(s, m) = UpTo(s, m - 1) \o s[m]
      /\ UpTo(s, m - 1) \in Seq(T)
  BY <1>6, FlattenSteps
<1>11. s[m] \in Seq(T)
  BY <1>6
<1>9. /\ Len(UpTo(s, m)) = Len(UpTo(s, m - 1)) + Len(s[m])
      /\ \A p \in 1 .. Len(UpTo(s, m - 1)) : UpTo(s, m)[p] = UpTo(s, m - 1)[p]
  BY <1>8, <1>11
<1>10. Keeps(m)
  <2>1. Len(UpTo(s, i)) <= Len(UpTo(s, m))
    <3>1. /\ Len(UpTo(s, i)) \in Nat /\ Len(UpTo(s, m - 1)) \in Nat
          /\ Len(s[m]) \in Nat
      BY <1>4, <1>8, <1>11
    <3>2. Len(UpTo(s, i)) <= Len(UpTo(s, m - 1))
      BY <1>7
    <3>3. Len(UpTo(s, m)) = Len(UpTo(s, m - 1)) + Len(s[m])
      BY <1>9
    <3> HIDE DEF Keeps, Bad
    <3>4. \A x, y, z \in Nat : x <= y => x <= y + z
      OBVIOUS
    <3> QED BY <3>1, <3>2, <3>3, <3>4, Zenon
  <2>2. \A p \in 1 .. Len(UpTo(s, i)) : p \in 1 .. Len(UpTo(s, m - 1))
    BY <1>4, <1>7, <1>8
  <2> QED BY <1>7, <1>9, <2>1, <2>2
<1> QED
  BY <1>3, <1>10

(* Where a piece is found among all of them.                                *)
LEMMA FlattenPiece ==
  ASSUME NEW T, NEW s \in Seq(Seq(T)), NEW n \in 1 .. Len(s)
  PROVE  /\ Len(UpTo(s, n)) = Len(UpTo(s, n - 1)) + Len(s[n])
         /\ Len(UpTo(s, n)) <= Len(Seqs!FlattenSeq(s))
         /\ \A p \in 1 .. Len(s[n]) :
              Seqs!FlattenSeq(s)[Len(UpTo(s, n - 1)) + p] = s[n][p]
<1>1. n \in 0 .. Len(s) /\ n - 1 \in 0 .. Len(s) /\ Len(s) \in n .. Len(s)
  OBVIOUS
<1>2. /\ UpTo(s, n) = UpTo(s, n - 1) \o s[n]
      /\ UpTo(s, n - 1) \in Seq(T)
      /\ UpTo(s, Len(s)) = Seqs!FlattenSeq(s)
  BY <1>1, FlattenSteps
<1>6. s[n] \in Seq(T)
  OBVIOUS
<1>3. /\ Len(UpTo(s, n)) <= Len(Seqs!FlattenSeq(s))
      /\ \A p \in 1 .. Len(UpTo(s, n)) : Seqs!FlattenSeq(s)[p] = UpTo(s, n)[p]
  BY <1>1, <1>2, FlattenKeeps
<1>4. /\ Len(UpTo(s, n)) = Len(UpTo(s, n - 1)) + Len(s[n])
      /\ \A p \in 1 .. Len(s[n]) : UpTo(s, n)[Len(UpTo(s, n - 1)) + p] = s[n][p]
  <2> DEFINE x == UpTo(s, n - 1)
             y == s[n]
  <2>1. x \in Seq(T) /\ y \in Seq(T) /\ UpTo(s, n) = x \o y
    BY <1>2, <1>6
  <2> HIDE DEF x, y
  <2>2. Len(x \o y) = Len(x) + Len(y)
    BY <2>1
  <2>3. \A p \in 1 .. Len(y) : (x \o y)[Len(x) + p] = y[p]
    BY <2>1
  <2> QED BY <2>1, <2>2, <2>3 DEF x, y
<1>5. ASSUME NEW p \in 1 .. Len(s[n])
      PROVE  Len(UpTo(s, n - 1)) + p \in 1 .. Len(UpTo(s, n))
  <2> DEFINE x == Len(UpTo(s, n - 1))
             y == Len(s[n])
  <2>1. x \in Nat /\ y \in Nat /\ p \in 1 .. y
    BY <1>2, <1>6
  <2>2. Len(UpTo(s, n)) = x + y
    BY <1>4
  <2> HIDE DEF x, y
  <2>3. x + p \in 1 .. x + y
    BY <2>1
  <2> QED BY <2>2, <2>3 DEF x
<1> QED
  BY <1>3, <1>4, <1>5

(* A line of a header: the header first, one line feed, last.               *)
LEMMA LineShape ==
  ASSUME NEW l \in HeaderLines
  PROVE  /\ LineBytes(l) \in Seq(Bytes)
         /\ Len(LineBytes(l)) = l.size + 1 /\ l.size \in Nat \ {0}
         /\ LineBytes(l)[1] = l /\ LineBytes(l)[l.size + 1] = LF
         /\ \A p \in 1 .. l.size : LineBytes(l)[p] # LF
<1> DEFINE text == [i \in 1 .. l.size - 1 |-> Text]
<1>1. l.size \in Nat \ {0} /\ l \in Bytes /\ LF \in Bytes /\ Text \in Bytes
  BY DEF HeaderLines, Bytes
<1>2. l # LF /\ Text # LF
  BY DEF HeaderLines, LF, Text
<1>3. /\ text \in Seq(Bytes) /\ Len(text) = l.size - 1
      /\ \A i \in 1 .. l.size - 1 : text[i] = Text
  <2>1. l.size - 1 \in Nat
    BY <1>1
  <2> QED BY <1>1, <2>1
<1> HIDE DEF text
<1>4. <<l>> \in Seq(Bytes) /\ <<LF>> \in Seq(Bytes)
  BY <1>1
<1>5. /\ <<l>> \o text \in Seq(Bytes) /\ Len(<<l>> \o text) = l.size
      /\ (<<l>> \o text)[1] = l
      /\ \A i \in 2 .. l.size : (<<l>> \o text)[i] = Text
  BY <1>1, <1>3, <1>4
<1>6. LineBytes(l) = (<<l>> \o text) \o <<LF>>
  BY DEF LineBytes, text
<1>7. /\ LineBytes(l) \in Seq(Bytes) /\ Len(LineBytes(l)) = l.size + 1
      /\ \A i \in 1 .. l.size : LineBytes(l)[i] = (<<l>> \o text)[i]
      /\ LineBytes(l)[l.size + 1] = LF
  <2> DEFINE a == <<l>> \o text
  <2>1. a \in Seq(Bytes) /\ Len(a) = l.size
    BY <1>5
  <2>2. LineBytes(l) = a \o <<LF>>
    BY <1>6
  <2> HIDE DEF a
  <2>3. /\ a \o <<LF>> \in Seq(Bytes) /\ Len(a \o <<LF>>) = l.size + 1
        /\ \A i \in 1 .. l.size : (a \o <<LF>>)[i] = a[i]
        /\ (a \o <<LF>>)[l.size + 1] = LF
    BY <1>1, <1>4, <2>1
  <2> QED BY <2>2, <2>3 DEF a
<1>8. ASSUME NEW p \in 1 .. l.size PROVE LineBytes(l)[p] = l \/ LineBytes(l)[p] = Text
  <2>1. p = 1 \/ p \in 2 .. l.size
    BY <1>1
  <2> QED BY <1>5, <1>7, <2>1
<1> QED
  BY <1>1, <1>2, <1>5, <1>7, <1>8

(* The lines of a header, and where the j-th ends.                          *)
LineSeq(m) == [i \in DOMAIN m.head |-> LineBytes(m.head[i])]
HeadEnd(m, j) == Len(UpTo(LineSeq(m), j))

(* The lines of a header, as sequences of bytes.                            *)
LEMMA LinesAreSeq ==
  ASSUME NEW m \in SentMessages
  PROVE  /\ m.head \in Seq(HeaderLines) /\ m.body \in Seq(Bytes)
         /\ LineSeq(m) \in Seq(Seq(Bytes)) /\ Len(LineSeq(m)) = Len(m.head)
         /\ \A j \in 1 .. Len(m.head) : LineSeq(m)[j] = LineBytes(m.head[j])
<1>1. m.head \in Seq(HeaderLines) /\ m.body \in Seq(Bytes)
  BY MessagesAssumption
<1>2. \A j \in 1 .. Len(m.head) : m.head[j] \in HeaderLines
  BY <1>1
<1>3. \A j \in 1 .. Len(m.head) : LineBytes(m.head[j]) \in Seq(Bytes)
  BY <1>2, LineShape
<1>4. DOMAIN m.head = 1 .. Len(m.head) /\ Len(m.head) \in Nat
  BY <1>1
<1>5. LineSeq(m) = [i \in 1 .. Len(m.head) |-> LineBytes(m.head[i])]
  BY <1>4 DEF LineSeq
<1>6. [i \in 1 .. Len(m.head) |-> LineBytes(m.head[i])] \in Seq(Seq(Bytes))
  BY <1>3, <1>4
<1>7. Len(LineSeq(m)) = Len(m.head)
  BY <1>4, <1>5
<1> QED
  BY <1>1, <1>5, <1>6, <1>7

(* Where its lines, the empty line and the body are in a message.           *)
LEMMA MessageShape ==
  ASSUME NEW m \in SentMessages
  PROVE  /\ MessageBytes(m) \in Seq(Bytes)
         /\ HeadEnd(m, 0) = 0
         /\ \A j \in 0 .. Len(m.head) : HeadEnd(m, j) \in Nat
         /\ \A j \in 1 .. Len(m.head) :
              /\ HeadEnd(m, j) = HeadEnd(m, j - 1) + m.head[j].size + 1
              /\ HeadEnd(m, j) <= HeadEnd(m, Len(m.head))
              /\ \A p \in 1 .. m.head[j].size + 1 :
                   MessageBytes(m)[HeadEnd(m, j - 1) + p] = LineBytes(m.head[j])[p]
         /\ MessageBytes(m)[HeadEnd(m, Len(m.head)) + 1] = LF
         /\ \A p \in 1 .. Len(m.body) :
              MessageBytes(m)[HeadEnd(m, Len(m.head)) + 1 + p] = m.body[p]
         /\ Len(MessageBytes(m)) = HeadEnd(m, Len(m.head)) + 1 + Len(m.body)
<1> DEFINE lines == LineSeq(m)
           flat == Seqs!FlattenSeq(lines)
           n == Len(m.head)
<1>1. /\ m.head \in Seq(HeaderLines) /\ m.body \in Seq(Bytes)
      /\ lines \in Seq(Seq(Bytes)) /\ Len(lines) = n
      /\ \A j \in 1 .. n : lines[j] = LineBytes(m.head[j])
  BY LinesAreSeq
<1>2. MessageBytes(m) = flat \o <<LF>> \o m.body
  BY DEF MessageBytes, LineSeq
<1>3. /\ UpTo(lines, 0) = << >>
      /\ \A j \in 0 .. n : UpTo(lines, j) \in Seq(Bytes)
      /\ UpTo(lines, n) = flat
  <2> HIDE DEF lines
  <2> QED BY <1>1, FlattenSteps
<1>4. ASSUME NEW j \in 1 .. n
      PROVE  /\ HeadEnd(m, j) = HeadEnd(m, j - 1) + Len(lines[j])
             /\ HeadEnd(m, j) <= Len(flat)
             /\ \A p \in 1 .. Len(lines[j]) : flat[HeadEnd(m, j - 1) + p] = lines[j][p]
  <2> HIDE DEF lines, n
  <2>1. j \in 1 .. Len(lines)
    BY <1>1
  <2> QED BY <1>1, <2>1, FlattenPiece DEF HeadEnd, lines
<1>5. flat \in Seq(Bytes) /\ Len(flat) = HeadEnd(m, n) /\ n \in Nat
  BY <1>1, <1>3 DEF HeadEnd
<1> HIDE DEF flat
<1>6. LF \in Bytes
  BY DEF Bytes
<1> DEFINE top == flat \o <<LF>>
<1>7. /\ top \in Seq(Bytes) /\ Len(top) = Len(flat) + 1
      /\ \A p \in 1 .. Len(flat) : top[p] = flat[p]
      /\ top[Len(flat) + 1] = LF
  BY <1>5, <1>6
<1>8. MessageBytes(m) = top \o m.body
  BY <1>2
<1> HIDE DEF top
<1>9. /\ top \o m.body \in Seq(Bytes)
      /\ Len(top \o m.body) = Len(top) + Len(m.body)
      /\ \A p \in 1 .. Len(top) : (top \o m.body)[p] = top[p]
      /\ \A p \in 1 .. Len(m.body) : (top \o m.body)[Len(top) + p] = m.body[p]
  <2> DEFINE b == m.body
  <2>1. top \in Seq(Bytes) /\ b \in Seq(Bytes)
    BY <1>1, <1>7
  <2> HIDE DEF b
  <2>2. top \o b \in Seq(Bytes) /\ Len(top \o b) = Len(top) + Len(b)
    BY <2>1
  <2>3. \A p \in 1 .. Len(top) : (top \o b)[p] = top[p]
    BY <2>1
  <2>4. \A p \in 1 .. Len(b) : (top \o b)[Len(top) + p] = b[p]
    BY <2>1
  <2> QED BY <2>2, <2>3, <2>4 DEF b
<1>10. ASSUME NEW j \in 1 .. n
       PROVE  /\ HeadEnd(m, j) = HeadEnd(m, j - 1) + m.head[j].size + 1
              /\ HeadEnd(m, j) <= HeadEnd(m, n)
              /\ \A p \in 1 .. m.head[j].size + 1 :
                   MessageBytes(m)[HeadEnd(m, j - 1) + p] = LineBytes(m.head[j])[p]
  <2>1. m.head[j] \in HeaderLines /\ lines[j] = LineBytes(m.head[j])
    BY <1>1
  <2>2. Len(lines[j]) = m.head[j].size + 1 /\ m.head[j].size \in Nat
    BY <2>1, LineShape
  <2>3. HeadEnd(m, j - 1) \in Nat /\ HeadEnd(m, j) \in Nat
    <3>1. j - 1 \in 0 .. n /\ j \in 0 .. n
      BY <1>5
    <3> QED BY <1>3, <3>1 DEF HeadEnd
  <2> HIDE DEF lines, n
  <2>4. HeadEnd(m, j) = HeadEnd(m, j - 1) + m.head[j].size + 1
    BY <1>4, <2>2, <2>3
  <2>5. ASSUME NEW p \in 1 .. m.head[j].size + 1
        PROVE  MessageBytes(m)[HeadEnd(m, j - 1) + p] = LineBytes(m.head[j])[p]
    <3>1. HeadEnd(m, j - 1) + p \in 1 .. Len(flat)
      <4>1. p \in Nat /\ 1 <= p /\ p <= m.head[j].size + 1
        BY <2>2
      <4>2. HeadEnd(m, j) <= Len(flat) /\ Len(flat) \in Nat
        BY <1>4, <1>5
      <4>3. HeadEnd(m, j - 1) + p <= HeadEnd(m, j)
        <5> DEFINE h0 == HeadEnd(m, j - 1)
                   h1 == HeadEnd(m, j)
                   size == m.head[j].size
        <5>1. h0 \in Nat /\ h1 = h0 + size + 1 /\ size \in Nat /\ p <= size + 1
          BY <2>2, <2>3, <2>4, <4>1
        <5> HIDE DEF h0, h1, size
        <5>2. h0 + p <= h1
          BY <4>1, <5>1
        <5> QED BY <5>2 DEF h0, h1
      <4> QED BY <2>3, <4>1, <4>2, <4>3
    <3>2. HeadEnd(m, j - 1) + p \in 1 .. Len(top)
      BY <1>5, <1>7, <3>1
    <3> DEFINE q == HeadEnd(m, j - 1) + p
    <3>3. MessageBytes(m)[q] = top[q] /\ top[q] = flat[q]
      <4> HIDE DEF q
      <4> QED BY <1>7, <1>8, <1>9, <3>1, <3>2 DEF q
    <3>4. p \in 1 .. Len(lines[j])
      BY <2>2
    <3> QED BY <1>4, <2>1, <3>3, <3>4
  <2> QED BY <1>4, <1>5, <2>4, <2>5
<1>11. \A j \in 0 .. n : HeadEnd(m, j) \in Nat
  BY <1>3 DEF HeadEnd
<1>12. HeadEnd(m, 0) = 0
  BY <1>3 DEF HeadEnd
<1>13. Len(flat) + 1 \in 1 .. Len(top)
  BY <1>5, <1>7
<1> HIDE DEF lines
<1>14. MessageBytes(m)[HeadEnd(m, n) + 1] = LF
  BY <1>5, <1>7, <1>8, <1>9, <1>13
<1>15. \A p \in 1 .. Len(m.body) : MessageBytes(m)[HeadEnd(m, n) + 1 + p] = m.body[p]
  BY <1>5, <1>7, <1>8, <1>9
<1>16. Len(MessageBytes(m)) = HeadEnd(m, n) + 1 + Len(m.body)
  BY <1>5, <1>7, <1>8, <1>9
<1>17. MessageBytes(m) \in Seq(Bytes)
  BY <1>8, <1>9
<1> QED
  BY <1>10, <1>11, <1>12, <1>14, <1>15, <1>16, <1>17

(* Where a message is in the stream.                                        *)
Streamed ==
  /\ sent \in Seq(SentMessages)
  /\ stream = Seqs!FlattenSeq([i \in DOMAIN sent |-> MessageBytes(sent[i])])

LEMMA StreamShape ==
  ASSUME Streamed
  PROVE  /\ stream \in Seq(Bytes)
         /\ EndOf(0) = 0 /\ EndOf(Len(sent)) = Len(stream)
         /\ \A k \in 0 .. Len(sent) : EndOf(k) \in Nat
         /\ \A k \in 1 .. Len(sent) :
              /\ sent[k] \in SentMessages
              /\ EndOf(k) = EndOf(k - 1) + Len(MessageBytes(sent[k]))
              /\ EndOf(k) <= Len(stream)
              /\ \A p \in 1 .. Len(MessageBytes(sent[k])) :
                   stream[EndOf(k - 1) + p] = MessageBytes(sent[k])[p]
<1> DEFINE all == [i \in DOMAIN sent |-> MessageBytes(sent[i])]
           n == Len(sent)
<1>1. sent \in Seq(SentMessages) /\ stream = Seqs!FlattenSeq(all) /\ n \in Nat
  BY DEF Streamed
<1>2. \A k \in 1 .. n : sent[k] \in SentMessages
  BY <1>1
<1>3. \A k \in 1 .. n : MessageBytes(sent[k]) \in Seq(Bytes)
  BY <1>2, MessageShape
<1>4. /\ all \in Seq(Seq(Bytes)) /\ Len(all) = n
      /\ \A k \in 1 .. n : all[k] = MessageBytes(sent[k])
  BY <1>1, <1>3
<1>5. ASSUME NEW k \in 0 .. n PROVE EndOf(k) = Len(UpTo(all, k))
  <2>1. [j \in 1 .. k |-> MessageBytes(sent[j])] = [j \in 1 .. k |-> all[j]]
    <3>1. \A j \in 1 .. k : j \in 1 .. n
      BY <1>1
    <3> HIDE DEF all
    <3> QED BY <1>4, <3>1
  <2> QED BY <2>1 DEF EndOf, UpTo
<1> HIDE DEF all
<1>6. /\ UpTo(all, 0) = << >> /\ UpTo(all, n) = stream
      /\ \A k \in 0 .. n : UpTo(all, k) \in Seq(Bytes)
  BY <1>1, <1>4, FlattenSteps
<1>7. ASSUME NEW k \in 1 .. n
      PROVE  /\ EndOf(k) = EndOf(k - 1) + Len(MessageBytes(sent[k]))
             /\ EndOf(k) <= Len(stream)
             /\ \A p \in 1 .. Len(MessageBytes(sent[k])) :
                  stream[EndOf(k - 1) + p] = MessageBytes(sent[k])[p]
  <2>1. k \in 1 .. Len(all) /\ all[k] = MessageBytes(sent[k])
    BY <1>4
  <2>2. k \in 0 .. n /\ k - 1 \in 0 .. n
    BY <1>1
  <2>3. EndOf(k) = Len(UpTo(all, k)) /\ EndOf(k - 1) = Len(UpTo(all, k - 1))
    BY <1>5, <2>2
  <2> HIDE DEF n
  <2>4. /\ Len(UpTo(all, k)) = Len(UpTo(all, k - 1)) + Len(all[k])
        /\ Len(UpTo(all, k)) <= Len(Seqs!FlattenSeq(all))
        /\ \A p \in 1 .. Len(all[k]) :
             Seqs!FlattenSeq(all)[Len(UpTo(all, k - 1)) + p] = all[k][p]
    BY <1>4, <2>1, FlattenPiece
  <2> QED BY <1>1, <2>1, <2>3, <2>4
<1>8. stream \in Seq(Bytes) /\ 0 \in 0 .. n /\ n \in 0 .. n
  BY <1>1, <1>6
<1> QED
  BY <1>2, <1>5, <1>6, <1>7, <1>8

(* The lines that the unknown headers leave in the body.                    *)
OddLine(l) == IF l.what = "unknown" THEN << Seqs!Front(LineBytes(l)) >> ELSE << >>
OddLines(m) == [i \in DOMAIN m.head |-> OddLine(m.head[i])]

(* These lines as sequences of sequences.                                   *)
LEMMA OddLinesAreSeq ==
  ASSUME NEW m \in SentMessages
  PROVE  /\ OddLines(m) \in Seq(Seq(Seq(Bytes))) /\ Len(OddLines(m)) = Len(m.head)
         /\ \A j \in 1 .. Len(m.head) : OddLines(m)[j] = OddLine(m.head[j])
<1>1. DOMAIN m.head = 1 .. Len(m.head) /\ Len(m.head) \in Nat
  BY LinesAreSeq
<1>2. ASSUME NEW j \in 1 .. Len(m.head) PROVE OddLine(m.head[j]) \in Seq(Seq(Bytes))
  <2>1. m.head[j] \in HeaderLines
    BY LinesAreSeq
  <2>2. /\ LineBytes(m.head[j]) \in Seq(Bytes)
        /\ Len(LineBytes(m.head[j])) = m.head[j].size + 1 /\ m.head[j].size \in Nat
    BY <2>1, LineShape
  <2>3. Seqs!Front(LineBytes(m.head[j])) \in Seq(Bytes)
    BY <2>2 DEF Seqs!Front
  <2>4. /\ << Seqs!Front(LineBytes(m.head[j])) >> \in Seq(Seq(Bytes))
        /\ << >> \in Seq(Seq(Bytes))
    BY <2>3
  <2> QED BY <2>4 DEF OddLine
<1>3. OddLines(m) = [i \in 1 .. Len(m.head) |-> OddLine(m.head[i])]
  BY <1>1 DEF OddLines
<1>4. [i \in 1 .. Len(m.head) |-> OddLine(m.head[i])] \in Seq(Seq(Seq(Bytes)))
  BY <1>1, <1>2
<1>5. Len(OddLines(m)) = Len(m.head)
  BY <1>1, <1>3
<1> QED
  BY <1>3, <1>4, <1>5

(* A message of which j header lines were read.                             *)
Partial(m, j) ==
  [headers |-> {m.head[i] : i \in {h \in 1 .. j : m.head[h].what # "unknown"}},
   length |-> IF \E i \in 1 .. j : m.head[i].what = "length" THEN Len(m.body) ELSE NoLength,
   body |-> IF lenient THEN UpTo(OddLines(m), j) ELSE << >>]

(* Before the first line the message is a new one,                          *)
LEMMA PartialStarts ==
  ASSUME NEW m \in SentMessages
  PROVE  Partial(m, 0) = NewMessage
<1>1. UpTo(OddLines(m), 0) = << >>
  BY OddLinesAreSeq, FlattenSteps
<1>2. 1 .. 0 = {}
  OBVIOUS
<1> QED
  BY <1>1, <1>2 DEF Partial, NewMessage

(* each line adds what AddHeader does,                                      *)
LEMMA PartialGrows ==
  ASSUME NEW m \in SentMessages, NEW j \in 1 .. Len(m.head), NEW line,
         line = Seqs!Front(LineBytes(m.head[j])), Head(line) = m.head[j]
  PROVE  AddHeader(Partial(m, j - 1), line) = Partial(m, j)
<1> DEFINE l == m.head[j]
           p == Partial(m, j - 1)
           odd == UpTo(OddLines(m), j)
           before == UpTo(OddLines(m), j - 1)
<1>1. /\ l \in HeaderLines /\ j \in Nat
      /\ l.what = "length" => l.n = Len(m.body)
  <2>1. m.head \in Seq(HeaderLines) /\ j \in DOMAIN m.head /\ j \in Nat
    BY LinesAreSeq
  <2>2. l \in HeaderLines
    BY <2>1
  <2>3. ASSUME l.what = "length" PROVE l.n = Len(m.body)
    <3>1. \E i \in DOMAIN m.head : m.head[i].what = "length"
      BY <2>1, <2>3
    <3> QED BY <2>1, <2>3, <3>1, MessagesAssumption
  <2> QED BY <2>1, <2>2, <2>3
<1>2. 1 .. j = 1 .. j - 1 \cup {j}
  BY <1>1
<1>3. odd = before \o OddLine(l) /\ before \in Seq(Seq(Bytes))
  <2>1. j - 1 \in 0 .. Len(OddLines(m)) /\ j \in 1 .. Len(OddLines(m))
    BY OddLinesAreSeq
  <2>2. OddLines(m)[j] = OddLine(l)
    BY OddLinesAreSeq
  <2> QED BY <2>1, <2>2, OddLinesAreSeq, FlattenSteps
<1>4. l.what \in {"known", "unknown", "length"}
  BY <1>1 DEF HeaderLines
<1>5. Partial(m, j).headers = IF l.what = "unknown" THEN p.headers ELSE p.headers \cup {l}
  BY <1>2 DEF Partial
<1>6. Partial(m, j).length = IF l.what = "length" THEN l.n ELSE p.length
  BY <1>1, <1>2 DEF Partial
<1>7. Partial(m, j).body =
        IF lenient /\ l.what = "unknown" THEN Append(p.body, line) ELSE p.body
  <2>1. CASE l.what = "unknown"
    <3>1. OddLine(l) = << line >>
      BY <2>1 DEF OddLine
    <3>2. lenient => Partial(m, j).body = before \o << line >> /\ p.body = before
      BY <1>3, <3>1 DEF Partial
    <3>3. before \o << line >> = Append(before, line)
      BY <1>3
    <3>4. ~lenient => Partial(m, j).body = << >> /\ p.body = << >>
      BY DEF Partial
    <3> QED BY <2>1, <3>2, <3>3, <3>4
  <2>2. CASE l.what # "unknown"
    <3>1. OddLine(l) = << >>
      BY <2>2 DEF OddLine
    <3>2. before \o << >> = before
      BY <1>3, ConcatEmptySeq
    <3> QED BY <1>3, <2>2, <3>1, <3>2 DEF Partial
  <2> QED BY <2>1, <2>2
<1>8. /\ p = [headers |-> p.headers, length |-> p.length, body |-> p.body]
      /\ Partial(m, j) = [headers |-> Partial(m, j).headers,
                          length |-> Partial(m, j).length, body |-> Partial(m, j).body]
  BY DEF Partial
<1> HIDE DEF p
<1> DEFINE q == Partial(m, j)
<1> HIDE DEF q, l
<1>9. Head(line) = l
  BY DEF l
<1>10. AddHeader(p, line) =
         [headers |-> IF l.what = "unknown" THEN p.headers ELSE p.headers \cup {l},
          length |-> IF l.what = "length" THEN l.n ELSE p.length,
          body |-> IF lenient /\ l.what = "unknown" THEN Append(p.body, line) ELSE p.body]
  <2>1. CASE l.what = "known"
    BY <1>8, <1>9, <2>1 DEF AddHeader
  <2>2. CASE l.what = "length"
    BY <1>8, <1>9, <2>2 DEF AddHeader
  <2>3. CASE l.what = "unknown"
    BY <1>8, <1>9, <2>3 DEF AddHeader
  <2> QED BY <1>4, <2>1, <2>2, <2>3 DEF l
<1> QED
  BY <1>5, <1>6, <1>7, <1>8, <1>10 DEF p, l

(* and after the last only the body is missing.                             *)
LEMMA PartialEnds ==
  ASSUME NEW m \in SentMessages
  PROVE  /\ Intended(m) = [Partial(m, Len(m.head)) EXCEPT
                             !.body = Partial(m, Len(m.head)).body \o BodyLines(m.body)]
         /\ Intended(m).length = Partial(m, Len(m.head)).length
         /\ Partial(m, Len(m.head)).length = NoLength => m.body = << >>
         /\ Partial(m, Len(m.head)).length # NoLength =>
              Partial(m, Len(m.head)).length = Len(m.body)
<1> DEFINE n == Len(m.head)
           p == Partial(m, n)
           lengths == {l \in Seqs!Range(m.head) : l.what = "length"}
<1>1. DOMAIN m.head = 1 .. n /\ m.body \in Seq(Bytes) /\ Len(m.body) \in Nat
  BY LinesAreSeq
<1>2. Seqs!Range(m.head) = {m.head[i] : i \in 1 .. n}
  BY <1>1 DEF Seqs!Range
<1>3. /\ \A l \in lengths : l.n = Len(m.body)
      /\ lengths = {} <=> ~ \E i \in 1 .. n : m.head[i].what = "length"
      /\ lengths = {} => m.body = << >>
  BY <1>1, <1>2, MessagesAssumption
<1>4. UpTo(OddLines(m), n) = Seqs!FlattenSeq(OddLines(m))
  BY OddLinesAreSeq, FlattenSteps
<1>5. {l \in Seqs!Range(m.head) : l.what # "unknown"} = p.headers
  BY <1>2 DEF Partial
<1>6. (IF lengths = {} THEN NoLength ELSE (CHOOSE l \in lengths : TRUE).n) = p.length
  <2>1. p.length = IF lengths = {} THEN NoLength ELSE Len(m.body)
    BY <1>3 DEF Partial
  <2> HIDE DEF lengths
  <2> QED BY <1>3, <2>1
<1>7. (IF lenient THEN Seqs!FlattenSeq(OddLines(m)) ELSE << >>) = p.body
  BY <1>4 DEF Partial
<1>8. Intended(m) = [headers |-> p.headers, length |-> p.length,
                     body |-> p.body \o BodyLines(m.body)]
  <2>1. Intended(m) =
          [headers |-> {l \in Seqs!Range(m.head) : l.what # "unknown"},
           length |-> IF lengths = {} THEN NoLength ELSE (CHOOSE l \in lengths : TRUE).n,
           body |-> (IF lenient THEN Seqs!FlattenSeq(OddLines(m)) ELSE << >>)
                      \o BodyLines(m.body)]
    BY DEF Intended, OddLines, OddLine
  <2> HIDE DEF p, lengths
  <2> QED BY <1>5, <1>6, <1>7, <2>1
<1>9. p = [headers |-> p.headers, length |-> p.length, body |-> p.body]
  BY DEF Partial
<1>10. /\ p.length = NoLength => m.body = << >>
       /\ p.length # NoLength => p.length = Len(m.body)
  BY <1>1, <1>3 DEF Partial, NoLength
<1>11. Intended(m) = [p EXCEPT !.body = p.body \o BodyLines(m.body)]
  <2>1. [p EXCEPT !.body = p.body \o BodyLines(m.body)] =
          [headers |-> p.headers, length |-> p.length,
           body |-> p.body \o BodyLines(m.body)]
    <3> DEFINE h == p.headers
               n1 == p.length
               b == p.body
               c == b \o BodyLines(m.body)
    <3>1. p = [headers |-> h, length |-> n1, body |-> b]
      BY <1>9
    <3> HIDE DEF h, n1, b, c, p
    <3>2. [p EXCEPT !.body = c] = [headers |-> h, length |-> n1, body |-> c]
      BY <3>1
    <3> QED BY <3>2 DEF h, n1, b, c
  <2> HIDE DEF p
  <2> QED BY <1>8, <2>1
<1>12. Intended(m).length = p.length
  <2> HIDE DEF p
  <2> QED BY <1>8
<1> QED
  BY <1>10, <1>11, <1>12

(* An empty body has no lines.                                              *)
LEMMA NoBodyNoLines == BodyLines(<< >>) = << >>
<1> DEFINE feeds == {i \in DOMAIN << >> : << >>[i] = LF}
<1>1. feeds = {}
  OBVIOUS
<1>2. Cardinality({}) = 0
  BY FS_EmptySet
<1> QED
  BY <1>1, <1>2 DEF BodyLines

(* Between two messages, or after j header lines of the k-th, or before its *)
(* body.                                                                    *)
AllOut ==
  /\ Len(decoded) = Len(sent) /\ at = Len(stream)
  /\ state = "READ_HEADER" /\ currentMessage = NewMessage

InHead(k, j) ==
  /\ Len(decoded) = k - 1
  /\ at = EndOf(k - 1) + HeadEnd(sent[k], j)
  /\ state = "READ_HEADER" /\ currentMessage = Partial(sent[k], j)

AtBody(k) ==
  LET p == Partial(sent[k], Len(sent[k].head)) IN
  /\ Len(decoded) = k - 1
  /\ at = EndOf(k - 1) + HeadEnd(sent[k], Len(sent[k].head)) + 1
  /\ state = "READ_BODY" /\ currentMessage = p /\ p.length # NoLength

InPlace ==
  \/ AllOut
  \/ \E k \in 1 .. Len(sent) :
       \/ \E j \in 0 .. Len(sent[k].head) : InHead(k, j)
       \/ AtBody(k)

(* The loop ended because bytes were missing.                               *)
Starving ==
  IF state = "READ_HEADER"
  THEN LineEnds = {} /\ at + MaxHeaderSize + 1 > arrived
  ELSE at = arrived \/ at + currentMessage.length > arrived

(* What was passed upstream is what was sent.                               *)
OutSoFar ==
  /\ decoded \in Seq({Intended(m) : m \in SentMessages}) /\ Len(decoded) <= Len(sent)
  /\ \A i \in DOMAIN decoded : decoded[i] = Intended(sent[i])

(* Until a header line is too long, all that was passed on is as it was     *)
(* sent, and the decoder is where its state says; when it waits after a     *)
(* call that did not throw, bytes are missing.                              *)
DecoderIInv ==
  /\ Streamed
  /\ ~cut =>
       /\ arrived \in 0 .. Len(stream)
       /\ OutSoFar /\ InPlace
       /\ ~decoding /\ ~threw => Starving

(* LineEnd is the first line feed of the window.                            *)
LEMMA LeastLineEnd ==
  ASSUME at \in Nat, NEW e \in LineEnds, \A i \in LineEnds : e <= i
  PROVE  LineEnd = e
<1>1. LineEnds \subseteq Int
  BY MessagesAssumption DEF LineEnds, Window
<1>2. LineEnd \in LineEnds /\ \A i \in LineEnds : LineEnd <= i
  BY DEF LineEnd
<1>3. LineEnd <= e /\ e <= LineEnd /\ LineEnd \in Int /\ e \in Int
  BY <1>1, <1>2
<1> QED
  BY <1>3

(* A piece sits in a sequence behind its first a elements.                  *)
Sits(s, a, piece) ==
  /\ a \in Nat /\ a + Len(piece) <= Len(s)
  /\ \A p \in 1 .. Len(piece) : s[a + p] = piece[p]

(* What sits in a piece sits where the piece does.                          *)
LEMMA SitsWithin ==
  ASSUME NEW T, NEW s \in Seq(T), NEW t \in Seq(T), NEW u \in Seq(T),
         NEW a, NEW c, Sits(s, a, t), Sits(t, c, u)
  PROVE  Sits(s, a + c, u)
<1>1. /\ a \in Nat /\ c \in Nat /\ Len(s) \in Nat /\ Len(t) \in Nat /\ Len(u) \in Nat
      /\ a + Len(t) <= Len(s) /\ c + Len(u) <= Len(t)
  BY DEF Sits
<1>2. a + c \in Nat /\ a + c + Len(u) <= Len(s)
  BY <1>1
<1>3. ASSUME NEW p \in 1 .. Len(u) PROVE s[a + c + p] = u[p]
  <2>1. c + p \in 1 .. Len(t) /\ a + (c + p) = a + c + p
    BY <1>1
  <2>2. s[a + (c + p)] = t[c + p] /\ t[c + p] = u[p]
    BY <2>1 DEF Sits
  <2> QED BY <2>1, <2>2
<1> QED
  BY <1>2, <1>3 DEF Sits

(* The first n elements of a piece that sits there can be cut out.          *)
CutsOut(s, a, piece, n) == SubSeq(s, a + 1, a + n) = SubSeq(piece, 1, n)

LEMMA SitsSub ==
  ASSUME NEW s \in Seq(Bytes), NEW t \in Seq(Bytes), NEW a, Sits(s, a, t),
         NEW n \in 0 .. Len(t)
  PROVE  CutsOut(s, a, t, n)
<1> DEFINE x == SubSeq(s, a + 1, a + n)
           y == SubSeq(t, 1, n)
<1>1. /\ a \in Nat /\ Len(s) \in Nat /\ Len(t) \in Nat /\ n \in Nat /\ n <= Len(t)
      /\ a + n <= Len(s)
  BY DEF Sits
<1>2. x \in Seq(Bytes) /\ Len(x) = n /\ \A p \in 1 .. n : x[p] = s[a + p]
  BY <1>1, SMTT(20)
<1>3. y \in Seq(Bytes) /\ Len(y) = n /\ \A p \in 1 .. n : y[p] = t[p]
  BY <1>1, SMTT(20)
<1>4. \A p \in 1 .. n : s[a + p] = t[p]
  <2>1. \A p \in 1 .. n : p \in 1 .. Len(t)
    BY <1>1
  <2> QED BY <2>1 DEF Sits
<1> HIDE DEF x, y
<1>5. \A p \in 1 .. n : x[p] = y[p]
  BY <1>2, <1>3, <1>4
<1> QED
  BY <1>2, <1>3, <1>5, SeqEqual DEF x, y, CutsOut

(* A header line is what comes behind the first a elements.                 *)
LineAt(s, l, a) ==
  /\ a \in Nat /\ l.size \in Nat \ {0}
  /\ s[a + l.size + 1] = LF /\ \A i \in a + 1 .. a + l.size : s[i] # LF
  /\ SubSeq(s, a + 1, a + l.size) = Seqs!Front(LineBytes(l))

(* A line that sits there is read as it was sent.                           *)
LEMMA LineSits ==
  ASSUME NEW s \in Seq(Bytes), NEW l \in HeaderLines, NEW a, Sits(s, a, LineBytes(l))
  PROVE  /\ LineAt(s, l, a)
         /\ Head(Seqs!Front(LineBytes(l))) = l
         /\ Seqs!Front(LineBytes(l)) # << >>
<1> DEFINE b == LineBytes(l)
           size == l.size
<1>1. /\ b \in Seq(Bytes) /\ Len(b) = size + 1 /\ size \in Nat \ {0}
      /\ b[1] = l /\ b[size + 1] = LF /\ \A p \in 1 .. size : b[p] # LF
  BY LineShape
<1> HIDE DEF b, size
<1>2. /\ a \in Nat /\ a + (size + 1) <= Len(s)
      /\ \A p \in 1 .. size + 1 : s[a + p] = b[p]
  BY <1>1 DEF Sits, b
<1>3. s[a + size + 1] = LF
  <2>1. size + 1 \in 1 .. size + 1 /\ a + (size + 1) = a + size + 1
    BY <1>1, <1>2
  <2>2. s[a + (size + 1)] = b[size + 1]
    BY <1>2, <2>1
  <2> QED BY <1>1, <2>1, <2>2
<1>4. ASSUME NEW i \in a + 1 .. a + size PROVE s[i] # LF
  <2> DEFINE p == i - a
  <2>1. p \in 1 .. size /\ p \in 1 .. size + 1 /\ a + p = i
    BY <1>1, <1>2
  <2> HIDE DEF p
  <2>2. s[a + p] = b[p]
    BY <1>2, <2>1
  <2> QED BY <1>1, <2>1, <2>2
<1>5. Seqs!Front(b) = SubSeq(b, 1, size)
  <2>1. Len(b) - 1 = size
    <3>1. Len(b) = size + 1 /\ size \in Nat
      BY <1>1
    <3> QED BY <3>1
  <2> QED BY <2>1 DEF Seqs!Front
<1>6. SubSeq(s, a + 1, a + size) = SubSeq(b, 1, size)
  <2>1. size \in 0 .. Len(b)
    BY <1>1
  <2>2. Sits(s, a, b)
    BY DEF b
  <2>3. b \in Seq(Bytes)
    BY <1>1
  <2>4. CutsOut(s, a, b, size)
    BY <2>1, <2>2, <2>3, SitsSub
  <2> QED BY <2>4 DEF CutsOut
<1>7. Head(SubSeq(b, 1, size)) = l /\ SubSeq(b, 1, size) # << >>
  <2> DEFINE y == SubSeq(b, 1, size)
  <2>1. y \in Seq(Bytes) /\ Len(y) = size /\ y[1] = b[1]
    BY <1>1
  <2> HIDE DEF y
  <2>2. Len(y) # 0 /\ Head(y) = y[1]
    BY <1>1, <2>1
  <2>3. y # << >>
    BY <2>2
  <2> QED BY <1>1, <2>1, <2>2, <2>3 DEF y
<1> QED
  BY <1>1, <1>2, <1>3, <1>4, <1>5, <1>6, <1>7 DEF b, size, LineAt

(* Each message sits in the stream behind the one before,                   *)
LEMMA MessageSits ==
  ASSUME Streamed, NEW k \in 1 .. Len(sent)
  PROVE  /\ sent[k] \in SentMessages /\ stream \in Seq(Bytes)
         /\ MessageBytes(sent[k]) \in Seq(Bytes)
         /\ Sits(stream, EndOf(k - 1), MessageBytes(sent[k]))
         /\ EndOf(k) = EndOf(k - 1) + Len(MessageBytes(sent[k]))
         /\ EndOf(k - 1) \in Nat /\ EndOf(k) \in Nat /\ EndOf(k) <= Len(stream)
<1>1. k - 1 \in 0 .. Len(sent) /\ k \in 0 .. Len(sent)
  BY DEF Streamed
<1>2. /\ sent[k] \in SentMessages /\ stream \in Seq(Bytes)
      /\ EndOf(k) = EndOf(k - 1) + Len(MessageBytes(sent[k]))
      /\ EndOf(k) <= Len(stream) /\ EndOf(k - 1) \in Nat /\ EndOf(k) \in Nat
      /\ \A p \in 1 .. Len(MessageBytes(sent[k])) :
           stream[EndOf(k - 1) + p] = MessageBytes(sent[k])[p]
  BY <1>1, StreamShape
<1>3. MessageBytes(sent[k]) \in Seq(Bytes)
  BY <1>2, MessageShape
<1> QED
  BY <1>2, <1>3 DEF Sits

(* and each line in its message.                                            *)
LEMMA LineSitsInMessage ==
  ASSUME NEW m \in SentMessages, NEW j \in 1 .. Len(m.head)
  PROVE  /\ Sits(MessageBytes(m), HeadEnd(m, j - 1), LineBytes(m.head[j]))
         /\ HeadEnd(m, j) = HeadEnd(m, j - 1) + m.head[j].size + 1
         /\ HeadEnd(m, j - 1) \in Nat /\ m.head[j] \in HeaderLines
         /\ LineBytes(m.head[j]) \in Seq(Bytes)
<1> DEFINE l == m.head[j]
           n == Len(m.head)
           h0 == HeadEnd(m, j - 1)
           h1 == HeadEnd(m, j)
           top == HeadEnd(m, n)
           bytes == MessageBytes(m)
           nb == Len(m.body)
           size == l.size
<1>1. m.head \in Seq(HeaderLines) /\ m.body \in Seq(Bytes)
  BY LinesAreSeq
<1>2. /\ l \in HeaderLines /\ nb \in Nat
      /\ j \in 0 .. n /\ j - 1 \in 0 .. n /\ n \in 0 .. n
  BY <1>1
<1>3. size \in Nat /\ Len(LineBytes(l)) = size + 1 /\ LineBytes(l) \in Seq(Bytes)
  BY <1>2, LineShape
<1>4. /\ \A i \in 0 .. n : HeadEnd(m, i) \in Nat
      /\ \A i \in 1 .. n :
           /\ HeadEnd(m, i) = HeadEnd(m, i - 1) + m.head[i].size + 1
           /\ HeadEnd(m, i) <= HeadEnd(m, n)
           /\ \A p \in 1 .. m.head[i].size + 1 :
                MessageBytes(m)[HeadEnd(m, i - 1) + p] = LineBytes(m.head[i])[p]
      /\ Len(bytes) = top + 1 + nb
  BY MessageShape
<1>5. h0 \in Nat /\ h1 \in Nat /\ top \in Nat
  BY <1>2, <1>4
<1>6. /\ h1 = h0 + size + 1 /\ h1 <= top
      /\ \A p \in 1 .. size + 1 : bytes[h0 + p] = LineBytes(l)[p]
  BY <1>4
<1> HIDE DEF l, n, h0, h1, top, bytes, nb, size
<1>7. h0 + (size + 1) <= Len(bytes)
  BY <1>2, <1>3, <1>4, <1>5, <1>6
<1>8. Sits(bytes, h0, LineBytes(l))
  BY <1>3, <1>5, <1>6, <1>7 DEF Sits
<1> QED
  BY <1>2, <1>3, <1>5, <1>6, <1>8 DEF l, h0, h1, bytes, size

(* What the stream has where the decoder expects the next header line.      *)
LEMMA NextLine ==
  ASSUME Streamed, NEW k \in 1 .. Len(sent), NEW j \in 1 .. Len(sent[k].head), NEW a,
         a = EndOf(k - 1) + HeadEnd(sent[k], j - 1)
  PROVE  /\ LineAt(stream, sent[k].head[j], a)
         /\ a + sent[k].head[j].size + 1 = EndOf(k - 1) + HeadEnd(sent[k], j)
         /\ a + sent[k].head[j].size + 1 <= EndOf(k)
         /\ Head(Seqs!Front(LineBytes(sent[k].head[j]))) = sent[k].head[j]
         /\ Seqs!Front(LineBytes(sent[k].head[j])) # << >>
<1> DEFINE m == sent[k]
           l == m.head[j]
           size == l.size
           bytes == MessageBytes(m)
           start == EndOf(k - 1)
           end == EndOf(k)
           h0 == HeadEnd(m, j - 1)
           h1 == HeadEnd(m, j)
           n == Len(bytes)
           nl == Len(LineBytes(l))
<1>1. /\ m \in SentMessages /\ stream \in Seq(Bytes) /\ bytes \in Seq(Bytes)
      /\ Sits(stream, start, bytes) /\ end = start + n /\ start \in Nat
  BY MessageSits
<1>2. /\ Sits(bytes, h0, LineBytes(l)) /\ h1 = h0 + size + 1 /\ h0 \in Nat
      /\ l \in HeaderLines /\ LineBytes(l) \in Seq(Bytes)
  BY <1>1, LineSitsInMessage
<1>3. a = start + h0
  OBVIOUS
<1> HIDE DEF m, l, bytes, start, end, h0, h1
<1>4. Sits(stream, start + h0, LineBytes(l))
  BY <1>1, <1>2, SitsWithin
<1>5. /\ LineAt(stream, l, a)
      /\ Head(Seqs!Front(LineBytes(l))) = l /\ Seqs!Front(LineBytes(l)) # << >>
  <2>1. Sits(stream, a, LineBytes(l))
    BY <1>3, <1>4
  <2> QED BY <1>1, <1>2, <2>1, LineSits
<1>6. nl = size + 1 /\ h0 + nl <= n /\ n \in Nat
  <2>1. Len(LineBytes(l)) = l.size + 1
    BY <1>2, LineShape
  <2> QED BY <1>1, <1>2, <2>1 DEF Sits
<1>7. a \in Nat /\ size \in Nat
  BY <1>5 DEF LineAt
<1> HIDE DEF size, nl, n
<1>8. end = start + n /\ start \in Nat
  BY <1>1
<1>9. h1 = h0 + size + 1 /\ h0 \in Nat
  BY <1>2
<1>10. h1 <= n
  BY <1>6, <1>7, <1>9
<1>11. a + size + 1 = start + h1 /\ a + size + 1 <= end
  BY <1>3, <1>6, <1>7, <1>8, <1>9, <1>10
<1> QED
  BY <1>5, <1>11 DEF m, l, start, end, h1, size

(* What the stream has behind the lines of a header: the empty line, and the *)
(* body up to the end of the message.                                       *)
LEMMA AfterHead ==
  ASSUME Streamed, NEW k \in 1 .. Len(sent),
         NEW a, a = EndOf(k - 1) + HeadEnd(sent[k], Len(sent[k].head))
  PROVE  /\ sent[k] \in SentMessages /\ a \in Nat /\ Len(sent[k].body) \in Nat
         /\ EndOf(k) = a + 1 + Len(sent[k].body)
         /\ EndOf(k) \in Nat /\ EndOf(k) <= Len(stream)
         /\ stream[a + 1] = LF
         /\ SubSeq(stream, a + 2, EndOf(k)) = sent[k].body
<1> DEFINE m == sent[k]
           body == m.body
           nb == Len(body)
           bytes == MessageBytes(m)
           n == Len(bytes)
           start == EndOf(k - 1)
           end == EndOf(k)
           top == HeadEnd(m, Len(m.head))
<1>1. /\ m \in SentMessages /\ stream \in Seq(Bytes) /\ bytes \in Seq(Bytes)
      /\ Sits(stream, start, bytes) /\ end = start + n /\ start \in Nat /\ end \in Nat
      /\ end <= Len(stream)
  BY MessageSits
<1>2. body \in Seq(Bytes) /\ Len(m.head) \in 0 .. Len(m.head)
  BY <1>1, LinesAreSeq
<1>3. /\ top \in Nat /\ n = top + 1 + nb /\ bytes[top + 1] = LF
      /\ \A p \in 1 .. nb : bytes[top + 1 + p] = body[p]
  BY <1>1, <1>2, MessageShape
<1>4. a = start + top
  OBVIOUS
<1> HIDE DEF m, body, bytes, start, end, top
<1>5. nb \in Nat /\ Len(body) = nb /\ n = Len(bytes)
  BY <1>2
<1> HIDE DEF nb, n
<1>10. start \in Nat /\ end = start + n
  BY <1>1
<1>11. top \in Nat /\ n = top + 1 + nb
  BY <1>3
<1>12. nb \in Nat
  BY <1>5
<1>6. a \in Nat /\ end = a + 1 + nb /\ n \in Nat
  BY <1>4, <1>10, <1>11, <1>12
<1>7. stream[a + 1] = LF
  <2>1. top + 1 \in 1 .. n /\ start + (top + 1) = a + 1
    BY <1>1, <1>3, <1>4, <1>5
  <2>2. stream[start + (top + 1)] = bytes[top + 1]
    BY <1>1, <1>5, <2>1 DEF Sits
  <2> QED BY <1>3, <2>1, <2>2
<1>8. Sits(stream, start + (top + 1), body)
  <2>1. Sits(bytes, top + 1, body)
    <3>1. top + 1 \in Nat /\ top + 1 + nb <= n
      BY <1>3, <1>5
    <3> QED BY <1>3, <1>5, <3>1 DEF Sits
  <2> QED BY <1>1, <1>2, <2>1, SitsWithin
<1>9. SubSeq(stream, a + 2, end) = body
  <2>1. nb \in 0 .. Len(body)
    BY <1>5
  <2> DEFINE c == start + (top + 1)
  <2>5. /\ stream \in Seq(Bytes) /\ body \in Seq(Bytes) /\ Sits(stream, c, body)
    BY <1>1, <1>2, <1>8
  <2> HIDE DEF c
  <2>6. CutsOut(stream, c, body, nb)
    BY <2>1, <2>5, SitsSub
  <2>2. SubSeq(stream, start + (top + 1) + 1, start + (top + 1) + nb) = SubSeq(body, 1, nb)
    BY <2>6 DEF c, CutsOut
  <2>3. start + (top + 1) + 1 = a + 2 /\ start + (top + 1) + nb = end
    BY <1>4, <1>10, <1>11, <1>12
  <2>4. SubSeq(body, 1, nb) = body
    BY <1>2, <1>5
  <2> QED BY <2>2, <2>3, <2>4
<1> QED
  BY <1>1, <1>5, <1>6, <1>7, <1>9 DEF m, body, nb, end

(* The decoder finds the line that is there, if all of it has arrived, and  *)
(* starves if not.                                                          *)
LEMMA FindsLine ==
  ASSUME NEW l, LineAt(stream, l, at), arrived \in Nat
  PROVE  /\ LineEnds # {} => /\ LineEnd = at + l.size + 1 /\ at + l.size + 1 <= arrived
                             /\ HeaderLine = Seqs!Front(LineBytes(l))
         /\ LineEnds = {} /\ at + MaxHeaderSize + 1 > arrived =>
              at + l.size + 1 > arrived
<1> DEFINE size == l.size
           e == at + size + 1
<1>1. /\ at \in Nat /\ size \in Nat \ {0} /\ MaxHeaderSize \in Nat
      /\ stream[e] = LF /\ \A i \in at + 1 .. at + size : stream[i] # LF
      /\ SubSeq(stream, at + 1, at + size) = Seqs!Front(LineBytes(l))
  BY MessagesAssumption DEF LineAt
<1> HIDE DEF size
<1>2. e \in Nat /\ e - 1 = at + size /\ at + 1 <= e
  BY <1>1
<1> HIDE DEF e
<1>3. ASSUME NEW i \in LineEnds PROVE e <= i
  <2>1. i \in Int /\ at + 1 <= i /\ stream[i] = LF
    BY <1>1 DEF LineEnds, Window
  <2>2. i \notin at + 1 .. at + size
    BY <1>1, <2>1
  <2>3. at \in Nat /\ size \in Nat
    BY <1>1
  <2> QED BY <2>1, <2>2, <2>3 DEF e
<1>4. ASSUME NEW i \in LineEnds PROVE e \in LineEnds
  <2>1. i \in Int /\ i <= at + MaxHeaderSize + 1 /\ i <= arrived
    BY <1>1 DEF LineEnds, Window
  <2>2. e <= i
    BY <1>3
  <2>3. at \in Nat /\ MaxHeaderSize \in Nat
    BY <1>1
  <2>4. e \in Window /\ e <= arrived
    BY <1>2, <2>1, <2>2, <2>3 DEF Window
  <2> QED BY <1>1, <2>4 DEF LineEnds
<1>5. ASSUME LineEnds # {}
      PROVE  LineEnd = e /\ e <= arrived /\ HeaderLine = Seqs!Front(LineBytes(l))
  <2>1. e \in LineEnds
    BY <1>4, <1>5
  <2>2. LineEnd = e
    BY <1>1, <1>3, <2>1, LeastLineEnd
  <2>3. HeaderLine = SubSeq(stream, at + 1, at + size)
    BY <1>2, <2>2 DEF HeaderLine
  <2> QED BY <1>1, <2>1, <2>2, <2>3 DEF LineEnds
<1>6. ASSUME LineEnds = {}, at + MaxHeaderSize + 1 > arrived PROVE e > arrived
  <2>1. SUFFICES ASSUME e <= arrived PROVE FALSE
    BY <1>2
  <2>2. at \in Nat /\ MaxHeaderSize \in Nat
    BY <1>1
  <2>3. e \in Window
    BY <1>2, <1>6, <2>1, <2>2 DEF Window
  <2> QED BY <1>1, <1>6, <2>1, <2>3 DEF LineEnds
<1> QED
  BY <1>5, <1>6 DEF e, size

(* The same for the empty line.                                             *)
LEMMA FindsEmptyLine ==
  ASSUME at \in Nat, stream[at + 1] = LF, arrived \in Nat
  PROVE  /\ LineEnds # {} => LineEnd = at + 1 /\ at + 1 <= arrived /\ HeaderLine = << >>
         /\ LineEnds = {} /\ at + MaxHeaderSize + 1 > arrived => at + 1 > arrived
<1>1. MaxHeaderSize \in Nat
  BY MessagesAssumption
<1>2. ASSUME NEW i \in LineEnds PROVE at + 1 <= i /\ at + 1 \in LineEnds
  <2>1. i \in at + 1 .. at + MaxHeaderSize + 1 /\ i <= arrived
    BY DEF LineEnds, Window
  <2> QED BY <1>1, <2>1 DEF LineEnds, Window
<1>3. ASSUME LineEnds # {}
      PROVE  LineEnd = at + 1 /\ at + 1 <= arrived /\ HeaderLine = << >>
  <2>1. at + 1 \in LineEnds
    BY <1>2, <1>3
  <2>2. LineEnd = at + 1
    BY <1>1, <1>2, <2>1, LeastLineEnd
  <2>3. SubSeq(stream, at + 1, at + 1 - 1) = << >>
    BY <1>1
  <2> QED BY <1>1, <2>1, <2>2, <2>3 DEF HeaderLine, LineEnds
<1>4. ASSUME LineEnds = {}, at + MaxHeaderSize + 1 > arrived PROVE at + 1 > arrived
  <2>1. at + 1 \notin LineEnds
    BY <1>4
  <2>2. at + 1 \in at + 1 .. at + MaxHeaderSize + 1
    BY <1>1
  <2>3. ~(at + 1 <= arrived)
    BY <1>1, <2>1, <2>2 DEF LineEnds, Window
  <2> QED BY <1>1, <2>3
<1> QED
  BY <1>3, <1>4

(* Where the decoder is after a step that leaves the stream as it is.       *)
LEMMA SameStream ==
  ASSUME UNCHANGED <<sent, stream, lenient>>
  PROVE  /\ Streamed' <=> Streamed
         /\ \A k : EndOf(k)' = EndOf(k)
         /\ \A m : Intended(m)' = Intended(m)
         /\ AllOut' <=> /\ Len(decoded') = Len(sent) /\ at' = Len(stream)
                        /\ state' = "READ_HEADER" /\ currentMessage' = NewMessage
         /\ \A k, j : InHead(k, j)' <=>
              /\ Len(decoded') = k - 1 /\ at' = EndOf(k - 1) + HeadEnd(sent[k], j)
              /\ state' = "READ_HEADER" /\ currentMessage' = Partial(sent[k], j)
         /\ \A k : AtBody(k)' <=>
              /\ Len(decoded') = k - 1
              /\ at' = EndOf(k - 1) + HeadEnd(sent[k], Len(sent[k].head)) + 1
              /\ state' = "READ_BODY"
              /\ currentMessage' = Partial(sent[k], Len(sent[k].head))
              /\ Partial(sent[k], Len(sent[k].head)).length # NoLength
<1>1. Streamed' <=> Streamed
  BY DEF Streamed
<1>2. \A k : EndOf(k)' = EndOf(k)
  BY DEF EndOf
<1>3. \A m : Intended(m)' = Intended(m)
  BY DEF Intended
<1>4. \A m, j : Partial(m, j)' = Partial(m, j)
  BY DEF Partial
<1>5. AllOut' <=> /\ Len(decoded') = Len(sent) /\ at' = Len(stream)
                  /\ state' = "READ_HEADER" /\ currentMessage' = NewMessage
  BY DEF AllOut, NewMessage
<1>6. ASSUME NEW k, NEW j
      PROVE  InHead(k, j)' <=>
              /\ Len(decoded') = k - 1 /\ at' = EndOf(k - 1) + HeadEnd(sent[k], j)
              /\ state' = "READ_HEADER" /\ currentMessage' = Partial(sent[k], j)
  BY DEF InHead, EndOf, HeadEnd, Partial
<1>7. ASSUME NEW k
      PROVE  AtBody(k)' <=>
              /\ Len(decoded') = k - 1
              /\ at' = EndOf(k - 1) + HeadEnd(sent[k], Len(sent[k].head)) + 1
              /\ state' = "READ_BODY"
              /\ currentMessage' = Partial(sent[k], Len(sent[k].head))
              /\ Partial(sent[k], Len(sent[k].head)).length # NoLength
  BY DEF AtBody, EndOf, HeadEnd, Partial
<1> QED
  BY <1>1, <1>2, <1>3, <1>5, <1>6, <1>7

(* Behind a message comes the next, or the end of the stream.               *)
LEMMA NextMessage ==
  ASSUME Streamed, UNCHANGED <<sent, stream, lenient>>, NEW k \in 0 .. Len(sent),
         Len(decoded') = k, at' = EndOf(k), state' = "READ_HEADER",
         currentMessage' = NewMessage
  PROVE  InPlace'
<1>1. Len(sent) \in Nat /\ sent \in Seq(SentMessages)
  BY DEF Streamed
<1>2. CASE k = Len(sent)
  <2>1. at' = Len(stream)
    BY <1>2, StreamShape
  <2> QED BY <1>2, <2>1, SameStream DEF InPlace
<1>3. CASE k # Len(sent)
  <2>1. k + 1 \in 1 .. Len(sent) /\ k + 1 - 1 = k /\ EndOf(k) \in Nat
    BY <1>1, <1>3, StreamShape
  <2>2. sent[k + 1] \in SentMessages
    BY <1>1, <2>1
  <2>3. /\ HeadEnd(sent[k + 1], 0) = 0 /\ Partial(sent[k + 1], 0) = NewMessage
        /\ 0 \in 0 .. Len(sent[k + 1].head)
    BY <2>2, MessageShape, PartialStarts, LinesAreSeq
  <2>4. at' = EndOf(k) + 0
    BY <2>1
  <2>5. InHead(k + 1, 0)'
    BY <2>1, <2>3, <2>4, SameStream
  <2>6. k + 1 \in 1 .. Len(sent') /\ 0 \in 0 .. Len(sent'[k + 1].head)
    BY <2>1, <2>3
  <2> QED BY <2>5, <2>6 DEF InPlace
<1> QED
  BY <1>2, <1>3

(* A step that passes nothing on.                                           *)
LEMMA OutStays ==
  ASSUME OutSoFar, UNCHANGED <<sent, stream, lenient, decoded>>
  PROVE  OutSoFar'
<1> DEFINE S == {Intended(m) : m \in SentMessages}
<1>1. S' = S
  BY SameStream
<1>2. decoded \in Seq(S) /\ Len(decoded) <= Len(sent)
      /\ \A i \in DOMAIN decoded : decoded[i] = Intended(sent[i])
  BY DEF OutSoFar
<1>3. ASSUME NEW i \in DOMAIN decoded PROVE decoded'[i] = Intended(sent[i])'
  <2>1. Intended(sent[i])' = Intended(sent[i])
    BY DEF Intended
  <2> QED BY <1>2, <2>1
<1> HIDE DEF S
<1>4. decoded' \in Seq(S') /\ Len(decoded') <= Len(sent')
  BY <1>1, <1>2
<1> QED
  BY <1>3, <1>4 DEF OutSoFar, S

(* A message more is out.                                                   *)
LEMMA OneMoreOut ==
  ASSUME Streamed, OutSoFar, UNCHANGED <<sent, stream, lenient>>,
         NEW k \in 1 .. Len(sent), Len(decoded) = k - 1,
         decoded' = Append(decoded, Intended(sent[k]))
  PROVE  OutSoFar' /\ Len(decoded') = k
<1> DEFINE S == {Intended(m) : m \in SentMessages}
<1>1. Len(sent) \in Nat /\ sent[k] \in SentMessages /\ k \in Nat
  BY DEF Streamed
<1>2. decoded \in Seq(S) /\ \A i \in DOMAIN decoded : decoded[i] = Intended(sent[i])
  BY DEF OutSoFar
<1>3. Intended(sent[k]) \in S
  BY <1>1
<1> DEFINE x == Intended(sent[k])
<1>4. {Intended(m) : m \in SentMessages}' = S
  BY SameStream
<1> HIDE DEF S, x
<1>5. /\ decoded' \in Seq(S) /\ Len(decoded') = k
      /\ \A i \in 1 .. k - 1 : decoded'[i] = decoded[i]
      /\ decoded'[k] = x
  <2>1. decoded' = Append(decoded, x) /\ x \in S
    BY <1>3 DEF x
  <2> QED BY <1>1, <1>2, <2>1
<1>6. ASSUME NEW i \in 1 .. k PROVE decoded'[i] = Intended(sent[i])'
  <2>1. Intended(sent[i])' = Intended(sent[i])
    BY DEF Intended
  <2>2. CASE i = k
    BY <1>5, <2>1, <2>2 DEF x
  <2>3. CASE i # k
    <3>1. i \in 1 .. k - 1 /\ i \in DOMAIN decoded
      BY <1>1, <1>2, <2>3
    <3> QED BY <1>2, <1>5, <2>1, <3>1
  <2> QED BY <2>2, <2>3
<1>7. DOMAIN decoded' = 1 .. k /\ k <= Len(sent')
  BY <1>1, <1>5
<1>8. \A i \in DOMAIN decoded' : decoded'[i] = Intended(sent[i])'
  BY <1>6, <1>7
<1> QED
  BY <1>4, <1>5, <1>7, <1>8 DEF OutSoFar

(* What the decoder finds behind the checkpoint.                            *)
LEMMA FindsHeader ==
  ASSUME Streamed, arrived \in 0 .. Len(stream), NEW k \in 1 .. Len(sent),
         NEW j \in 0 .. Len(sent[k].head), InHead(k, j), LineEnds # {}
  PROVE  IF j = Len(sent[k].head)
         THEN LineEnd = at + 1 /\ HeaderLine = << >>
         ELSE /\ LineEnd = EndOf(k - 1) + HeadEnd(sent[k], j + 1)
              /\ HeaderLine # << >>
              /\ AddHeader(currentMessage, HeaderLine) = Partial(sent[k], j + 1)
<1>1. sent[k] \in SentMessages /\ sent[k].head \in Seq(HeaderLines)
  BY MessageSits, LinesAreSeq
<1>2. stream \in Seq(Bytes) /\ arrived \in Nat
  BY StreamShape
<1>3. CASE j = Len(sent[k].head)
  <2>1. at = EndOf(k - 1) + HeadEnd(sent[k], Len(sent[k].head))
    BY <1>3 DEF InHead
  <2>2. at \in Nat /\ stream[at + 1] = LF
    BY <2>1, AfterHead
  <2> QED BY <1>2, <1>3, <2>2, FindsEmptyLine
<1>4. CASE j # Len(sent[k].head)
  <2> DEFINE i == j + 1
             l == sent[k].head[i]
  <2>1. i \in 1 .. Len(sent[k].head) /\ i - 1 = j
    BY <1>1, <1>4
  <2>2. at = EndOf(k - 1) + HeadEnd(sent[k], i - 1)
    BY <2>1 DEF InHead
  <2> HIDE DEF i
  <2>3. /\ LineAt(stream, l, at)
        /\ at + l.size + 1 = EndOf(k - 1) + HeadEnd(sent[k], i)
        /\ Head(Seqs!Front(LineBytes(l))) = l /\ Seqs!Front(LineBytes(l)) # << >>
    BY <2>1, <2>2, NextLine
  <2>4. LineEnd = at + l.size + 1 /\ HeaderLine = Seqs!Front(LineBytes(l))
    <3> HIDE DEF l
    <3> QED BY <1>2, <2>3, FindsLine
  <2>5. currentMessage = Partial(sent[k], i - 1)
    BY <2>1 DEF InHead
  <2>6. AddHeader(Partial(sent[k], i - 1), HeaderLine) = Partial(sent[k], i)
    BY <1>1, <2>1, <2>3, <2>4, PartialGrows
  <2>7. LineEnd = EndOf(k - 1) + HeadEnd(sent[k], i)
    BY <2>3, <2>4
  <2>8. HeaderLine # << >>
    BY <2>3, <2>4
  <2> QED BY <1>4, <2>5, <2>6, <2>7, <2>8 DEF i
<1> QED
  BY <1>3, <1>4

(* Behind the last message there is nothing to find.                        *)
LEMMA NothingBehind ==
  ASSUME Streamed, arrived \in 0 .. Len(stream), AllOut
  PROVE  LineEnds = {}
<1>1. at = Len(stream) /\ Len(stream) \in Nat /\ MaxHeaderSize \in Nat
      /\ arrived <= Len(stream)
  <2>1. stream \in Seq(Bytes)
    BY StreamShape
  <2> QED BY <2>1, MessagesAssumption DEF AllOut
<1>2. ASSUME NEW i \in LineEnds PROVE FALSE
  <2>1. i \in at + 1 .. at + MaxHeaderSize + 1 /\ i <= arrived
    BY DEF LineEnds, Window
  <2>2. i \in Int /\ at + 1 <= i
    BY <1>1, <2>1
  <2>3. arrived \in Int
    OBVIOUS
  <2> QED BY <1>1, <2>1, <2>2, <2>3
<1> QED
  BY <1>2

(* DecoderIInv holds first.                                                 *)
LEMMA DecoderStarts == DecoderInit => DecoderIInv
<1> SUFFICES ASSUME DecoderInit PROVE DecoderIInv
  OBVIOUS
<1>2. sent \in Seq(SentMessages) /\ Len(sent) \in Nat
  BY DEF DecoderInit, Seqs!BoundedSeq, Seqs!SeqOf
<1>3. Streamed
  BY <1>2 DEF Streamed, DecoderInit
<1>4. stream \in Seq(Bytes) /\ EndOf(0) = 0 /\ EndOf(Len(sent)) = Len(stream)
  BY <1>3, StreamShape
<1>5. arrived = 0 /\ at = 0 /\ state = "READ_HEADER" /\ currentMessage = NewMessage
      /\ decoded = << >>
  BY DEF DecoderInit
<1>6. MaxHeaderSize \in Nat
  BY MessagesAssumption
<1>7. Starving
  <2>1. LineEnds = {}
    BY <1>5, <1>6 DEF LineEnds, Window
  <2>2. at + MaxHeaderSize + 1 > arrived
    BY <1>5, <1>6
  <2> QED BY <1>5, <2>1, <2>2 DEF Starving
<1>8. OutSoFar
  BY <1>2, <1>5 DEF OutSoFar
<1>9. InPlace
  <2>1. CASE Len(sent) = 0
    <3>1. AllOut
      BY <1>4, <1>5, <2>1 DEF AllOut
    <3> QED BY <3>1 DEF InPlace
  <2>2. CASE Len(sent) # 0
    <3>1. 1 \in 1 .. Len(sent) /\ sent[1] \in SentMessages
      BY <1>2, <2>2
    <3>2. /\ HeadEnd(sent[1], 0) = 0 /\ Partial(sent[1], 0) = NewMessage
          /\ 0 \in 0 .. Len(sent[1].head)
      BY <3>1, MessageShape, PartialStarts, LinesAreSeq
    <3>3. EndOf(1 - 1) + HeadEnd(sent[1], 0) = 0
      BY <1>4, <3>2
    <3>4. InHead(1, 0)
      BY <1>5, <3>2, <3>3 DEF InHead
    <3> QED BY <3>1, <3>2, <3>4 DEF InPlace
  <2> QED BY <2>1, <2>2
<1>10. arrived \in 0 .. Len(stream)
  BY <1>4, <1>5
<1> QED
  BY <1>3, <1>7, <1>8, <1>9, <1>10 DEF DecoderIInv

(* And after each action.                                                   *)
LEMMA ArriveKeeps == DecoderIInv /\ Arrive => DecoderIInv'
<1> SUFFICES ASSUME DecoderIInv, Arrive PROVE DecoderIInv'
  OBVIOUS
<1>2. UNCHANGED <<sent, stream, lenient, at, state, currentMessage, decoded, cut>>
      /\ decoding' = TRUE
  BY DEF Arrive
<1>3. Streamed'
  BY <1>2, SameStream DEF DecoderIInv
<1>4. ~cut => OutSoFar' /\ InPlace'
  <2>1. OutSoFar => OutSoFar'
    BY <1>2, OutStays
  <2>2. ASSUME InPlace PROVE InPlace'
    <3>1. AllOut => AllOut'
      BY <1>2, SameStream DEF AllOut
    <3>2. ASSUME NEW k, NEW j, InHead(k, j) PROVE InHead(k, j)'
      BY <1>2, <3>2, SameStream DEF InHead
    <3>3. ASSUME NEW k, AtBody(k) PROVE AtBody(k)'
      BY <1>2, <3>3, SameStream DEF AtBody
    <3> QED BY <1>2, <2>2, <3>1, <3>2, <3>3 DEF InPlace
  <2> QED BY <2>1, <2>2 DEF DecoderIInv
<1>5. ~cut => arrived' \in 0 .. Len(stream')
  <2>1. Len(stream) \in Nat
    BY StreamShape DEF DecoderIInv
  <2>2. PICK n \in arrived + 1 .. Len(stream) : arrived' = n
    BY DEF Arrive
  <2>3. ~cut => arrived \in Nat
    BY <2>1 DEF DecoderIInv
  <2> QED BY <1>2, <2>1, <2>2, <2>3
<1> QED
  BY <1>2, <1>3, <1>4, <1>5 DEF DecoderIInv

LEMMA ReadHeaderLineKeeps == DecoderIInv /\ ReadHeaderLine => DecoderIInv'
<1> SUFFICES ASSUME DecoderIInv, ReadHeaderLine PROVE DecoderIInv'
  OBVIOUS
<1>2. /\ UNCHANGED <<sent, stream, lenient, arrived, state, decoded, cut>>
      /\ state = "READ_HEADER" /\ LineEnds # {} /\ HeaderLine # << >>
      /\ currentMessage' = AddHeader(currentMessage, HeaderLine) /\ at' = LineEnd
      /\ ~decoding' => threw'
  BY DEF ReadHeaderLine, sentVars
<1>3. Streamed /\ Streamed'
  BY <1>2, SameStream DEF DecoderIInv
<1>4. ASSUME ~cut PROVE InPlace'
  <2>1. arrived \in 0 .. Len(stream) /\ InPlace
    BY <1>4 DEF DecoderIInv
  <2>2. ~AllOut
    BY <1>2, <1>3, <2>1, NothingBehind
  <2>3. PICK k \in 1 .. Len(sent) : \E j \in 0 .. Len(sent[k].head) : InHead(k, j)
    BY <1>2, <2>1, <2>2 DEF InPlace, AtBody
  <2>4. PICK j \in 0 .. Len(sent[k].head) : InHead(k, j)
    BY <2>3
  <2>5. /\ j # Len(sent[k].head)
        /\ at' = EndOf(k - 1) + HeadEnd(sent[k], j + 1)
        /\ currentMessage' = Partial(sent[k], j + 1)
    BY <1>2, <1>3, <2>1, <2>4, FindsHeader
  <2>6. Len(decoded') = k - 1 /\ state' = "READ_HEADER"
    BY <1>2, <2>4 DEF InHead
  <2>7. InHead(k, j + 1)'
    BY <1>2, <2>5, <2>6, SameStream
  <2>8. j + 1 \in 0 .. Len(sent'[k].head) /\ k \in 1 .. Len(sent')
    <3>1. Len(sent[k].head) \in Nat
      BY <1>3, MessageSits, LinesAreSeq
    <3> QED BY <1>2, <2>5, <3>1
  <2> QED BY <2>7, <2>8 DEF InPlace
<1>5. OutSoFar => OutSoFar'
  BY <1>2, OutStays
<1> QED
  BY <1>2, <1>3, <1>4, <1>5 DEF DecoderIInv

LEMMA EndHeadersKeeps == DecoderIInv /\ EndHeaders => DecoderIInv'
<1> SUFFICES ASSUME DecoderIInv, EndHeaders PROVE DecoderIInv'
  OBVIOUS
<1>2. /\ UNCHANGED <<sent, stream, lenient, arrived, cut, decoding>> /\ decoding
      /\ state = "READ_HEADER" /\ LineEnds # {} /\ HeaderLine = << >> /\ at' = LineEnd
  BY DEF EndHeaders, sentVars
<1>3. Streamed /\ Streamed'
  BY <1>2, SameStream DEF DecoderIInv
<1>4. ASSUME ~cut PROVE InPlace' /\ OutSoFar'
  <2>1. arrived \in 0 .. Len(stream) /\ InPlace /\ OutSoFar
    BY <1>4 DEF DecoderIInv
  <2>2. ~AllOut
    BY <1>2, <1>3, <2>1, NothingBehind
  <2>3. PICK k \in 1 .. Len(sent) : \E j \in 0 .. Len(sent[k].head) : InHead(k, j)
    BY <1>2, <2>1, <2>2 DEF InPlace, AtBody
  <2>4. PICK j \in 0 .. Len(sent[k].head) : InHead(k, j)
    BY <2>3
  <2> DEFINE m == sent[k]
             p == Partial(m, Len(m.head))
  <2>5. j = Len(m.head) /\ at' = at + 1
    BY <1>2, <1>3, <2>1, <2>4, FindsHeader
  <2>6. Len(decoded) = k - 1 /\ currentMessage = p
        /\ at = EndOf(k - 1) + HeadEnd(m, Len(m.head))
    BY <2>4, <2>5 DEF InHead
  <2>7. /\ m \in SentMessages /\ at \in Nat /\ Len(m.body) \in Nat
        /\ EndOf(k) = at + 1 + Len(m.body)
    BY <1>3, <2>6, AfterHead
  <2>8. /\ Intended(m) = [p EXCEPT !.body = p.body \o BodyLines(m.body)]
        /\ p.length = NoLength => m.body = << >>
    BY <2>7, PartialEnds
  <2>9. p.body \in Seq(Seq(Bytes))
    <3>1. UpTo(OddLines(m), Len(m.head)) \in Seq(Seq(Bytes))
      <4>1. Len(m.head) \in 0 .. Len(OddLines(m)) /\ OddLines(m) \in Seq(Seq(Seq(Bytes)))
        BY <2>5, <2>7, OddLinesAreSeq
      <4> QED BY <4>1, FlattenSteps
    <3> QED BY <3>1 DEF Partial
  <2>10. CASE currentMessage.length = NoLength
    <3>1. decoded' = Append(decoded, currentMessage) /\ currentMessage' = NewMessage
          /\ state' = "READ_HEADER"
      BY <1>2, <2>10 DEF EndHeaders
    <3>2. m.body = << >>
      BY <2>6, <2>8, <2>10
    <3>3. p.body \o BodyLines(m.body) = p.body
      BY <2>9, <3>2, NoBodyNoLines, ConcatEmptySeq
    <3>4. Intended(m) = p
      <4>1. p = [headers |-> p.headers, length |-> p.length, body |-> p.body]
        BY DEF Partial
      <4> HIDE DEF p
      <4> QED BY <2>8, <3>3, <4>1
    <3>5. OutSoFar' /\ Len(decoded') = k
      <4>1. decoded' = Append(decoded, Intended(sent[k]))
        BY <2>6, <3>1, <3>4
      <4> QED BY <1>2, <1>3, <2>1, <2>6, <4>1, OneMoreOut
    <3>6. at' = EndOf(k)
      <4>1. Len(m.body) = 0
        BY <3>2
      <4> QED BY <2>5, <2>7, <4>1
    <3>7. k \in 0 .. Len(sent)
      BY <1>3 DEF Streamed
    <3> QED BY <1>2, <1>3, <3>1, <3>5, <3>6, <3>7, NextMessage
  <2>11. CASE currentMessage.length # NoLength
    <3>1. decoded' = decoded /\ currentMessage' = currentMessage /\ state' = "READ_BODY"
      BY <1>2, <2>11 DEF EndHeaders
    <3>2. OutSoFar'
      BY <1>2, <2>1, <3>1, OutStays
    <3>3. at' = EndOf(k - 1) + HeadEnd(m, Len(m.head)) + 1
      BY <2>5, <2>6
    <3>4. AtBody(k)'
      BY <1>2, <2>6, <2>11, <3>1, <3>3, SameStream
    <3>5. k \in 1 .. Len(sent')
      BY <1>2
    <3> QED BY <3>2, <3>4, <3>5 DEF InPlace
  <2> QED BY <2>10, <2>11
<1> QED
  BY <1>2, <1>3, <1>4 DEF DecoderIInv

LEMMA ReadBodyKeeps == DecoderIInv /\ ReadBody => DecoderIInv'
<1> SUFFICES ASSUME DecoderIInv, ReadBody PROVE DecoderIInv'
  OBVIOUS
<1>1. /\ UNCHANGED <<sent, stream, lenient, arrived, cut, decoding>> /\ decoding
      /\ state = "READ_BODY" /\ state' = "READ_HEADER" /\ currentMessage' = NewMessage
      /\ at' = at + currentMessage.length
      /\ decoded' = Append(decoded, [currentMessage EXCEPT
                      !.body = @ \o BodyLines(SubSeq(stream, at + 1, at'))])
  BY DEF ReadBody, sentVars
<1>2. Streamed /\ Streamed'
  BY <1>1, SameStream DEF DecoderIInv
<1>3. ASSUME ~cut PROVE InPlace' /\ OutSoFar'
  <2>1. InPlace /\ OutSoFar
    BY <1>3 DEF DecoderIInv
  <2>2. PICK k \in 1 .. Len(sent) : AtBody(k)
    BY <1>1, <2>1 DEF InPlace, AllOut, InHead
  <2> DEFINE m == sent[k]
             p == Partial(m, Len(m.head))
             a == EndOf(k - 1) + HeadEnd(m, Len(m.head))
  <2>3. /\ Len(decoded) = k - 1 /\ at = a + 1
        /\ currentMessage = p /\ p.length # NoLength
    BY <2>2 DEF AtBody
  <2>4. /\ m \in SentMessages /\ a \in Nat /\ Len(m.body) \in Nat
        /\ EndOf(k) = a + 1 + Len(m.body)
        /\ SubSeq(stream, a + 2, EndOf(k)) = m.body
    BY <1>2, AfterHead
  <2>5. /\ Intended(m) = [p EXCEPT !.body = p.body \o BodyLines(m.body)]
        /\ p.length = Len(m.body)
    BY <2>3, <2>4, PartialEnds
  <2> HIDE DEF a, p
  <2>6. at' = EndOf(k) /\ at + 1 = a + 2
    <3>1. at' = at + Len(m.body)
      BY <1>1, <2>3, <2>5
    <3> HIDE DEF m
    <3> QED BY <2>3, <2>4, <3>1
  <2>7. SubSeq(stream, at + 1, at') = m.body
    BY <2>4, <2>6
  <2>8. decoded' = Append(decoded, Intended(sent[k]))
    BY <1>1, <2>3, <2>5, <2>7
  <2>9. OutSoFar' /\ Len(decoded') = k
    BY <1>1, <1>2, <2>1, <2>3, <2>8, OneMoreOut
  <2>10. k \in 0 .. Len(sent)
    BY <1>2 DEF Streamed
  <2> QED BY <1>1, <1>2, <2>6, <2>9, <2>10, NextMessage
<1> QED
  BY <1>1, <1>2, <1>3 DEF DecoderIInv

LEMMA StarveKeeps == DecoderIInv /\ (Starve \/ UNCHANGED decoderVars) => DecoderIInv'
<1> SUFFICES ASSUME DecoderIInv, Starve \/ UNCHANGED decoderVars PROVE DecoderIInv'
  OBVIOUS
<1>1. UNCHANGED <<sent, stream, lenient, arrived, at, state, currentMessage, decoded,
                  threw, cut>>
  BY DEF Starve, sentVars, decoderVars
<1>2. Streamed'
  BY <1>1, SameStream DEF DecoderIInv
<1>3. OutSoFar => OutSoFar'
  BY <1>1, OutStays
<1>4. ASSUME InPlace PROVE InPlace'
  <2>1. AllOut => AllOut'
    BY <1>1, SameStream DEF AllOut
  <2>2. ASSUME NEW k, NEW j, InHead(k, j) PROVE InHead(k, j)'
    BY <1>1, <2>2, SameStream DEF InHead
  <2>3. ASSUME NEW k, AtBody(k) PROVE AtBody(k)'
    BY <1>1, <2>3, SameStream DEF AtBody
  <2> QED BY <1>1, <1>4, <2>1, <2>2, <2>3 DEF InPlace
<1>5. ASSUME ~cut PROVE ~decoding' /\ ~threw' => Starving'
  <2>1. Starving' <=> Starving
    BY <1>1 DEF Starving, LineEnds, Window
  <2>2. CASE Starve
    <3>1. Starving
      BY <2>2 DEF Starve, Starving
    <3> QED BY <2>1, <3>1
  <2>3. CASE UNCHANGED decoderVars
    <3>1. decoding' = decoding
      BY <2>3 DEF decoderVars
    <3> QED BY <1>1, <1>5, <2>1, <3>1 DEF DecoderIInv
  <2> QED BY <2>2, <2>3
<1> QED
  BY <1>1, <1>2, <1>3, <1>4, <1>5 DEF DecoderIInv

LEMMA DecoderKeeps == DecoderIInv /\ [DecoderNext]_decoderVars => DecoderIInv'
<1> SUFFICES ASSUME DecoderIInv, [DecoderNext]_decoderVars PROVE DecoderIInv'
  OBVIOUS
<1>1. CASE HeaderLineTooLong
  <2>1. cut' = TRUE /\ UNCHANGED <<sent, stream, lenient>>
    BY <1>1 DEF HeaderLineTooLong, sentVars
  <2> QED BY <2>1, SameStream DEF DecoderIInv
<1> QED
  BY <1>1, ArriveKeeps, ReadHeaderLineKeeps, EndHeadersKeeps, ReadBodyKeeps, StarveKeeps
     DEF DecoderNext

(* Each message behind another ends later.                                  *)
LEMMA EndsInOrder ==
  ASSUME Streamed, NEW k \in 0 .. Len(sent), NEW i \in k + 1 .. Len(sent)
  PROVE  EndOf(k) < EndOf(i)
<1> DEFINE Bad == {n \in k + 1 .. Len(sent) : ~ EndOf(k) < EndOf(n)}
<1>1. SUFFICES ASSUME Bad # {} PROVE FALSE
  OBVIOUS
<1>2. Len(sent) \in Nat /\ k \in Nat
  BY DEF Streamed
<1>3. Bad \in SUBSET Nat
  BY <1>2
<1>4. PICK n \in Bad : \A b \in Bad : n <= b
  <2> HIDE DEF Bad
  <2> QED BY <1>1, <1>3, LeastExists
<1>5. n \in 1 .. Len(sent) /\ k + 1 <= n
  BY <1>2, <1>4
<1>6. /\ EndOf(n) = EndOf(n - 1) + Len(MessageBytes(sent[n]))
      /\ EndOf(n - 1) \in Nat /\ EndOf(n) \in Nat /\ sent[n] \in SentMessages
  BY <1>5, MessageSits
<1>7. Len(MessageBytes(sent[n])) \in Nat /\ Len(MessageBytes(sent[n])) > 0
  <2> DEFINE top == HeadEnd(sent[n], Len(sent[n].head))
             nb == Len(sent[n].body)
             bytes == Len(MessageBytes(sent[n]))
  <2>1. Len(sent[n].head) \in 0 .. Len(sent[n].head) /\ nb \in Nat
    BY <1>6, LinesAreSeq
  <2>2. top \in Nat /\ bytes = top + 1 + nb
    BY <1>6, <2>1, MessageShape
  <2>3. nb \in Nat
    BY <2>1
  <2> HIDE DEF top, nb, bytes
  <2>4. bytes \in Nat /\ bytes > 0
    BY <2>2, <2>3
  <2> QED BY <2>4 DEF bytes
<1>8. EndOf(n - 1) < EndOf(n)
  BY <1>6, <1>7
<1>9. EndOf(k) <= EndOf(n - 1)
  <2>1. CASE n = k + 1
    <3>1. n - 1 = k
      BY <1>2, <2>1
    <3> QED BY <1>6, <3>1
  <2>2. CASE n # k + 1
    <3>1. n - 1 \in k + 1 .. Len(sent) /\ n - 1 < n /\ n \in Nat
      BY <1>2, <1>5, <2>2
    <3>2. n - 1 \notin Bad
      <4> HIDE DEF Bad
      <4> QED BY <1>4, <3>1
    <3>3. EndOf(k) < EndOf(n - 1) /\ EndOf(k) \in Nat
      BY <3>1, <3>2, StreamShape
    <3> QED BY <1>6, <3>3
  <2> QED BY <2>1, <2>2
<1>10. EndOf(k) \in Nat
  BY StreamShape
<1>11. EndOf(k) < EndOf(n)
  BY <1>6, <1>8, <1>9, <1>10
<1> QED
  BY <1>4, <1>11

(* When the decoder waits, the message it is in has not arrived, but for an *)
(* empty body.                                                              *)
LEMMA StarvesWithin ==
  ASSUME Streamed, arrived \in 0 .. Len(stream), Starving, NEW k \in 1 .. Len(sent),
         AtBody(k) \/ \E j \in 0 .. Len(sent[k].head) : InHead(k, j)
  PROVE  EndOf(k) > arrived \/ (EndOf(k) = arrived /\ Intended(sent[k]).length = 0)
<1> DEFINE m == sent[k]
           p == Partial(m, Len(m.head))
           a == EndOf(k - 1) + HeadEnd(m, Len(m.head))
<1>1. /\ m \in SentMessages /\ a \in Nat /\ Len(m.body) \in Nat
      /\ EndOf(k) = a + 1 + Len(m.body) /\ EndOf(k) \in Nat /\ stream[a + 1] = LF
  BY AfterHead
<1>2. arrived \in Nat /\ Len(m.head) \in Nat
  <2>1. stream \in Seq(Bytes) /\ m.head \in Seq(HeaderLines)
    BY <1>1, StreamShape, LinesAreSeq
  <2> QED BY <2>1
<1>3. /\ Intended(m).length = p.length
      /\ p.length # NoLength => p.length = Len(m.body)
  BY <1>1, PartialEnds
<1>4. CASE AtBody(k)
  <2>1. /\ at = a + 1 /\ state = "READ_BODY" /\ currentMessage.length = Len(m.body)
        /\ Intended(m).length = Len(m.body)
    BY <1>3, <1>4 DEF AtBody
  <2>2. at = arrived \/ at + Len(m.body) > arrived
    BY <2>1 DEF Starving
  <2> DEFINE end == EndOf(k)
             nb == Len(m.body)
  <2>3. a \in Nat /\ nb \in Nat /\ end = a + 1 + nb /\ end \in Nat
    BY <1>1
  <2>4. arrived \in Nat /\ at = a + 1 /\ (at = arrived \/ at + nb > arrived)
    BY <1>2, <2>1, <2>2
  <2> HIDE DEF m, a, end, nb
  <2>5. end > arrived \/ (end = arrived /\ nb = 0)
    BY <2>3, <2>4
  <2> QED BY <2>1, <2>5 DEF m, end, nb
<1>5. ASSUME NEW j \in 0 .. Len(m.head), InHead(k, j) PROVE EndOf(k) > arrived
  <2>1. /\ at = EndOf(k - 1) + HeadEnd(m, j)
        /\ LineEnds = {} /\ at + MaxHeaderSize + 1 > arrived
    BY <1>5 DEF InHead, Starving
  <2>2. CASE j = Len(m.head)
    <3>1. at = a
      BY <2>1, <2>2
    <3> DEFINE end == EndOf(k)
               nb == Len(m.body)
    <3>2. a \in Nat /\ nb \in Nat /\ end = a + 1 + nb /\ end \in Nat
      BY <1>1
    <3>3. arrived \in Nat
      BY <1>2
    <3> HIDE DEF m, a, end, nb
    <3>4. at + 1 > arrived
      BY <1>1, <1>2, <2>1, <3>1, FindsEmptyLine
    <3>5. end > arrived
      BY <3>1, <3>2, <3>3, <3>4
    <3> QED BY <3>5 DEF end
  <2>3. CASE j # Len(m.head)
    <3> DEFINE i == j + 1
               l == m.head[i]
    <3>1. i \in 1 .. Len(m.head) /\ i - 1 = j
      BY <1>2, <2>3
    <3> HIDE DEF i
    <3>2. LineAt(stream, l, at) /\ at + l.size + 1 <= EndOf(k)
      BY <2>1, <3>1, NextLine
    <3> HIDE DEF l, m
    <3>3. at + l.size + 1 > arrived
      BY <1>2, <2>1, <3>2, FindsLine
    <3>4. at \in Nat /\ l.size \in Nat
      BY <3>2 DEF LineAt
    <3>5. EndOf(k) \in Nat /\ arrived \in Nat /\ at + l.size + 1 <= EndOf(k)
      BY <1>1, <1>2, <3>2
    <3> QED BY <3>3, <3>4, <3>5
  <2> QED BY <2>2, <2>3
<1> QED
  BY <1>4, <1>5

LEMMA DecoderIInvImplies == DecoderIInv => DecodedAsSent
<1> SUFFICES ASSUME DecoderIInv, ~cut PROVE DecodedAsSent
  BY DEF DecodedAsSent
<1>1. Streamed /\ arrived \in 0 .. Len(stream) /\ OutSoFar /\ InPlace
  BY DEF DecoderIInv
<1>2. sent \in Seq(SentMessages) /\ Len(sent) \in Nat /\ DOMAIN sent = 1 .. Len(sent)
  BY <1>1 DEF Streamed
<1>3. Len(decoded) \in Nat /\ DOMAIN decoded = 1 .. Len(decoded)
  BY <1>1 DEF OutSoFar
<1>4. ASSUME ~decoding, ~threw, NEW i \in DOMAIN sent \ DOMAIN decoded
      PROVE  EndOf(i) > arrived \/ (EndOf(i) = arrived /\ Intended(sent[i]).length = 0)
  <2>1. Starving
    BY <1>4 DEF DecoderIInv
  <2>2. i \in 1 .. Len(sent) /\ Len(decoded) + 1 <= i
    BY <1>2, <1>3
  <2>3. ~AllOut
    BY <1>2, <2>2 DEF AllOut
  <2>4. PICK k \in 1 .. Len(sent) :
          AtBody(k) \/ \E j \in 0 .. Len(sent[k].head) : InHead(k, j)
    BY <1>1, <2>3 DEF InPlace
  <2>5. Len(decoded) = k - 1
    BY <2>4 DEF AtBody, InHead
  <2>6. EndOf(k) > arrived \/ (EndOf(k) = arrived /\ Intended(sent[k]).length = 0)
    BY <1>1, <2>1, <2>4, StarvesWithin
  <2>7. CASE i = k
    BY <2>6, <2>7
  <2>8. CASE i # k
    <3>1. i \in k + 1 .. Len(sent) /\ k \in 0 .. Len(sent)
      BY <1>2, <2>2, <2>5, <2>8
    <3>2. EndOf(k) < EndOf(i)
      BY <1>1, <3>1, EndsInOrder
    <3>3. EndOf(k) \in Nat /\ EndOf(i) \in Nat /\ arrived \in Int
      <4>1. i \in 0 .. Len(sent)
        BY <2>2
      <4> QED BY <1>1, <3>1, <4>1, StreamShape
    <3> DEFINE x == EndOf(k)
               y == EndOf(i)
    <3>4. x >= arrived
      BY <2>6, <3>3
    <3>5. x < y /\ x \in Nat /\ y \in Nat
      BY <3>2, <3>3
    <3> HIDE DEF x, y
    <3>6. y > arrived
      BY <3>3, <3>4, <3>5
    <3> QED BY <3>6 DEF y
  <2> QED BY <2>7, <2>8
<1> QED
  BY <1>1, <1>4 DEF OutSoFar, DecodedAsSent

(* The inductive invariant, for any messages, any limit on a line and every *)
(* way of cutting the stream.                                               *)
THEOREM DecoderInductive == DecoderSpec => []DecoderIInv
<1>1. DecoderInit => DecoderIInv
  BY DecoderStarts
<1>2. DecoderIInv /\ [DecoderNext]_decoderVars => DecoderIInv'
  BY DecoderKeeps
<1> QED
  BY <1>1, <1>2, PTL DEF DecoderSpec

(* EslFrameDecoder cuts the messages out of the stream one by one as they   *)
(* were sent, whatever their bodies contain and however the bytes arrive,   *)
(* and never waits for more than it needs.                                  *)
THEOREM FramesDecodedAsSent == DecoderSpec => []DecodedAsSent
<1>1. DecoderIInv => DecodedAsSent
  BY DecoderIInvImplies
<1> QED
  BY <1>1, DecoderInductive, PTL

=============================================================================
