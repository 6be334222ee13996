----------------------- MODULE AmqpCommandListenerProofs -----------------------
(***************************************************************************)
(* What AmqpCommandListener keeps, for any number of connections,          *)
(* commands, changes of the broker and reloads.                            *)
(***************************************************************************)
EXTENDS AmqpCommandListener, FiniteSetTheorems, TLAPS

(* A connection that is not destroyed is the listener's or is being closed  *)
(* by a reload; between reloads there is nothing to close.                  *)
Held ==
  /\ live \subseteq {commandConn, closing}
  /\ closer = "idle" => closing = NULL

IInv == ListenerTypeOK /\ Held /\ EachCommandOnce

-----------------------------------------------------------------------------
LEMMA NullIsNoConnection == NULL \notin ConnIds
  <1>1. ConnIds \subseteq Nat
    BY ListenerAssumption DEF ListenerAssumption, ConnIds
  <1>2. QED BY <1>1, ListenerAssumption DEF ListenerAssumption

LEMMA InitHolds == ListenerInit => IInv
  <1> SUFFICES ASSUME ListenerInit PROVE IInv
    OBVIOUS
  <1>1. 0 \in 0 .. MaxConns
    BY ListenerAssumption DEF ListenerAssumption
  <1>2. ListenerTypeOK
    BY <1>1 DEF ListenerInit, ListenerTypeOK
  <1>3. Held /\ EachCommandOnce
    BY DEF ListenerInit, Held, EachCommandOnce
  <1>4. QED BY <1>2, <1>3 DEF IInv

(* A session that ends leaves the commands counted and the broker with no   *)
(* consumer on it.                                                          *)
LEMMA SessionEnds ==
  ASSUME NEW c, ListenerTypeOK, EachCommandOnce, EndSession(c),
         UNCHANGED <<sent, executed>>
  PROVE  /\ healthy' = healthy \ {c}
         /\ subscribed' \in healthy' \cup {NULL}
         /\ inbox' \in Nat /\ lost' \in Nat
         /\ EachCommandOnce'
  <1>1. CASE subscribed = c
    BY <1>1 DEF ListenerTypeOK, EachCommandOnce, EndSession
  <1>2. CASE subscribed # c
    BY <1>2 DEF ListenerTypeOK, EachCommandOnce, EndSession
  <1>3. QED BY <1>1, <1>2

(* A step of the listener, one case per action.                             *)
LEMMA ListenerKeeps ==
  ASSUME IInv, ListenerStep
  PROVE  IInv'
  <1> USE ListenerAssumption DEF IInv, commandConnVars, inboxVars, listenerBounds
  <1>1. CASE Top
    BY <1>1 DEF Top, ListenerTypeOK, Held, EachCommandOnce
  <1>2. CASE OpenConnection
    <2>1. CASE commandConn = NULL /\ up /\ opened < MaxConns /\ opened' = opened + 1
                 /\ commandConn' = opened + 1 /\ live' = live \cup {opened + 1}
                 /\ healthy' = healthy \cup {opened + 1}
      <3>1. opened + 1 \in ConnIds /\ opened' \in 0 .. MaxConns
        BY <2>1 DEF ListenerTypeOK, ConnIds
      <3>2. ListenerTypeOK'
        BY <1>2, <2>1, <3>1 DEF OpenConnection, ListenerTypeOK
      <3>3. Held' /\ EachCommandOnce'
        <4>1. NULL \notin live
          BY NullIsNoConnection DEF ListenerTypeOK
        <4>2. QED BY <1>2, <2>1, <4>1 DEF OpenConnection, Held, EachCommandOnce
      <3>4. QED BY <3>2, <3>3
    <2>2. CASE UNCHANGED <<commandConnVars, healthy>>
      BY <1>2, <2>2 DEF OpenConnection, ListenerTypeOK, Held, EachCommandOnce
    <2>3. QED BY <1>2, <2>1, <2>2 DEF OpenConnection
  <1>3. CASE DeclareAndBind
    BY <1>3 DEF DeclareAndBind, ListenerTypeOK, Held, EachCommandOnce
  <1>4. CASE Subscribe
    BY <1>4 DEF Subscribe, Usable, ListenerTypeOK, Held, EachCommandOnce
  <1>5. CASE Inner
    BY <1>5 DEF Inner, Usable, ListenerTypeOK, Held, EachCommandOnce
  <1>6. CASE ReceiveCommand
    BY <1>6 DEF ReceiveCommand, ListenerTypeOK, Held, EachCommandOnce
  <1>7. CASE ReceiveException
    BY <1>7 DEF ReceiveException, ListenerTypeOK, Held, EachCommandOnce
  <1>8. CASE ReceiveOther
    BY <1>8 DEF ReceiveOther, ListenerTypeOK, Held, EachCommandOnce
  <1>9. CASE ReceiveOnFreed
    BY <1>9 DEF ReceiveOnFreed, ListenerTypeOK, Held, EachCommandOnce
  <1>10. CASE CloseChannelOrConnection
    BY <1>10 DEF CloseChannelOrConnection, ListenerTypeOK, Held, EachCommandOnce
  <1>11. CASE Destroy
    <2>1. /\ healthy' = healthy \ {commandConn} /\ subscribed' \in healthy' \cup {NULL}
          /\ inbox' \in Nat /\ lost' \in Nat /\ EachCommandOnce'
      BY <1>11, SessionEnds DEF Destroy
    <2>2. ListenerTypeOK'
      BY <1>11, <2>1 DEF Destroy, ListenerTypeOK
    <2>3. Held'
      BY <1>11 DEF Destroy, Held
    <2>4. QED BY <2>1, <2>2, <2>3
  <1>12. CASE InnerBad
    BY <1>12 DEF InnerBad, BadCall, ListenerTypeOK, Held, EachCommandOnce
  <1>13. ASSUME NEW at, BadCall(at) PROVE IInv'
    BY <1>13 DEF BadCall, ListenerTypeOK, Held, EachCommandOnce
  <1>14. QED
    BY <1>1, <1>2, <1>3, <1>4, <1>5, <1>6, <1>7, <1>8, <1>9, <1>10, <1>11, <1>12,
       <1>13 DEF ListenerStep

(* A step of a reload, of the shutdown, of the broker or of a publisher.    *)
LEMMA OthersKeep ==
  ASSUME IInv, ReloadTake \/ ReloadDestroy \/ Stop \/ BrokerTurns \/ SendCommand
  PROVE  IInv'
  <1> USE ListenerAssumption DEF IInv, commandConnVars, inboxVars, listenerBounds
  <1>1. CASE ReloadTake
    <2>1. NULL \notin live
      BY NullIsNoConnection DEF ListenerTypeOK
    <2>2. Held'
      BY <1>1, <2>1 DEF ReloadTake, Held
    <2>3. QED BY <1>1, <2>2 DEF ReloadTake, ListenerTypeOK, EachCommandOnce
  <1>2. CASE ReloadDestroy
    <2>1. CASE closing \in live
      <3>1. EndSession(closing) /\ live' = live \ {closing} /\ closing' = NULL
        BY <1>2, <2>1 DEF ReloadDestroy
      <3>2. /\ healthy' = healthy \ {closing} /\ subscribed' \in healthy' \cup {NULL}
            /\ inbox' \in Nat /\ lost' \in Nat /\ EachCommandOnce'
        BY <1>2, <3>1, SessionEnds DEF ReloadDestroy
      <3>3. ListenerTypeOK'
        BY <1>2, <2>1, <3>1, <3>2 DEF ReloadDestroy, ListenerTypeOK
      <3>4. Held'
        BY <1>2, <2>1, <3>1 DEF ReloadDestroy, Held
      <3>5. QED BY <3>2, <3>3, <3>4
    <2>2. CASE closing \notin live
      BY <1>2, <2>2 DEF ReloadDestroy, ListenerTypeOK, Held, EachCommandOnce
    <2>3. QED BY <2>1, <2>2
  <1>3. CASE Stop
    BY <1>3 DEF Stop, ListenerTypeOK, Held, EachCommandOnce
  <1>4. CASE BrokerTurns
    BY <1>4 DEF BrokerTurns, ListenerTypeOK, Held, EachCommandOnce
  <1>5. CASE SendCommand
    BY <1>5 DEF SendCommand, ListenerTypeOK, Held, EachCommandOnce
  <1>6. QED BY <1>1, <1>2, <1>3, <1>4, <1>5

LEMMA StepKeeps == IInv /\ [ListenerNext]_listenerVars => IInv'
  <1> SUFFICES ASSUME IInv, [ListenerNext]_listenerVars PROVE IInv'
    OBVIOUS
  <1>1. CASE ListenerNext
    BY <1>1, ListenerKeeps, OthersKeep DEF ListenerNext
  <1>2. CASE UNCHANGED listenerVars
    BY <1>2 DEF listenerVars, commandConnVars, inboxVars, listenerBounds, IInv, ListenerTypeOK, Held,
                EachCommandOnce
  <1>3. QED BY <1>1, <1>2

THEOREM Inductive == ListenerSpec => []IInv
  BY InitHolds, StepKeeps, PTL DEF ListenerSpec

-----------------------------------------------------------------------------
(* The listener's state keeps its types: whatever it is subscribed with is  *)
(* a connection that works, and one that works is not destroyed.            *)
THEOREM ListenerTypeCorrect == ListenerSpec => []ListenerTypeOK
  <1>1. IInv => ListenerTypeOK
    BY DEF IInv
  <1>2. QED BY Inductive, <1>1, PTL

(* Every command is run once, waits once or was lost with the queue, across *)
(* any disconnects and reloads.                                             *)
THEOREM CommandsRunOnce == ListenerSpec => []EachCommandOnce
  <1>1. IInv => EachCommandOnce
    BY DEF IInv
  <1>2. QED BY Inductive, <1>1, PTL

(* Reconnecting never leaves a connection behind.                           *)
THEOREM ConnectionsDoNotPileUp == ListenerSpec => []NoPileUp
  <1>1. IInv => NoPileUp
    <2> SUFFICES ASSUME IInv PROVE NoPileUp
      OBVIOUS
    <2>1. live \ {closing} \subseteq {commandConn}
      BY DEF IInv, Held
    <2>2. IsFiniteSet({commandConn}) /\ Cardinality({commandConn}) = 1
      BY FS_Singleton
    <2>3. Cardinality(live \ {closing}) <= Cardinality({commandConn})
      BY <2>1, <2>2, FS_Subset
    <2>4. QED BY <2>2, <2>3 DEF NoPileUp
  <1>2. QED BY Inductive, <1>1, PTL

=============================================================================
