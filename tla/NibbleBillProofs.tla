--------------------------- MODULE NibbleBillProofs ---------------------------
(***************************************************************************)
(* What TLAPS proves of NibbleBill, for every set of threads, every credit *)
(* and every number of requests.                                           *)
(*                                                                         *)
(* The argument has two halves. The lock: who charges holds it, so a pause *)
(* is not recorded between a bill's test of pausets and its charge. The    *)
(* ledger: with every stamp at least as new as what is recorded, a pause   *)
(* that ends covers ticks nobody waived before, and a bill covers ticks    *)
(* nobody charged before; and what a bill adds to the total of the record  *)
(* it takes from the account, or counts as missed.                         *)
(***************************************************************************)
EXTENDS NibbleBill, FiniteSetTheorems, TLAPS

(* What an action does to the record.                                       *)
DataTypes ==
  /\ data \in RecordType \cup {NoData}
  /\ waived \subseteq Nat /\ settled \in Nat /\ plain \in BOOLEAN

(* A bill that passed the test of pausets works on a call that is not       *)
(* paused, until it releases the lock.                                      *)
BillerSeesRunning ==
  \A t \in Threads :
    pc[t] \in {"charge", "balance"} /\ data # NoData => data.pausets = 0

(* Nothing recorded lies in the future; a bill is under way only of a call  *)
(* that was answered, and a call without a record has nothing waived.       *)
StampsPast ==
  \A t \in Threads : ts[t] <= time /\ (pc[t] = "charge" => answered # 0)

RecordPast ==
  /\ answered <= time
  /\ \A k \in waived : k < time
  /\ data = NoData => waived = {}
  /\ data # NoData =>
       /\ answered # 0 /\ data.lastts <= time /\ data.pausets <= time

(* The ledger of a call whose requests fitted so far: bills and the running *)
(* pause are newer than what they follow.                                   *)
InOrder ==
  /\ answered <= data.lastts
  /\ data.pausets # 0 =>
       /\ data.lastts <= data.pausets
       /\ \A k \in waived : k < data.pausets

Exact ==
  /\ data.total = Cardinality((answered .. data.lastts - 1) \ waived)
  /\ data.bill_adjustments = Cardinality({k \in waived : k >= data.lastts})

Ledger == plain /\ data # NoData => InOrder /\ Exact

(* What bills took from the account, or failed to take.                     *)
Billing == Credit + given - cash + missed

(* The account follows the record. A call that has none was billed at most  *)
(* once, at its hangup, and from the answer on.                             *)
Account ==
  plain =>
    IF data = NoData
      THEN \/ settled = 0 /\ Billing = 0
           \/ answered # 0 /\ answered <= settled /\ Billing = settled - answered
      ELSE settled = data.lastts /\ Billing = data.total

IInv ==
  /\ NibbleTypeOK /\ BillerSeesRunning /\ StampsPast /\ RecordPast
  /\ IsFiniteSet(waived) /\ Ledger /\ Account

-----------------------------------------------------------------------------
(* Types                                                                    *)

(* A record differs from its absence.                                       *)
LEMMA RecordIsNotNoData ==
  \A r \in RecordType : r # NoData
BY NibbleAssumption DEF RecordType

(* The record a bill starts from, new or kept.                              *)
LEMMA RecordHasType ==
  ASSUME NibbleTypeOK
  PROVE  /\ Record \in RecordType
         /\ data # NoData => Record = data
         /\ data = NoData =>
              /\ Record.lastts = answered /\ Record.total = 0
              /\ Record.pausets = 0 /\ Record.bill_adjustments = 0
BY DEF NibbleTypeOK, CallTypes, Record, RecordType

(* What a bill does to a record.                                            *)
LEMMA BilledFields ==
  ASSUME NEW r \in RecordType, NEW n \in Nat
  PROVE  /\ Billed(r, n) \in RecordType
         /\ Billed(r, n).lastts = n
         /\ Billed(r, n).pausets = r.pausets
         /\ n >= r.lastts =>
              /\ Billed(r, n).total = r.total + (n - r.lastts) - r.bill_adjustments
              /\ Billed(r, n).bill_adjustments = 0
<1>1. /\ r.lastts \in Nat /\ r.total \in Int /\ r.pausets \in Nat
      /\ r.bill_adjustments \in Int
  BY DEF RecordType
<1>2. CASE n >= r.lastts
  <2> DEFINE amount == r.total + (n - r.lastts) - r.bill_adjustments
  <2>1. amount \in Int
    BY <1>1
  <2>2. Billed(r, n) = [r EXCEPT !.total = amount, !.bill_adjustments = 0,
                                 !.lastts = n]
    BY <1>2 DEF Billed
  <2> HIDE DEF amount
  <2>3. Billed(r, n) = [lastts |-> n, total |-> amount, pausets |-> r.pausets,
                        bill_adjustments |-> 0]
    BY <2>2 DEF RecordType
  <2>4. /\ Billed(r, n) \in RecordType /\ Billed(r, n).lastts = n
        /\ Billed(r, n).pausets = r.pausets /\ Billed(r, n).total = amount
        /\ Billed(r, n).bill_adjustments = 0
    BY <1>1, <2>1, <2>3 DEF RecordType
  <2>5. QED
    BY <2>4 DEF amount
<1>3. CASE ~(n >= r.lastts)
  <2>1. Billed(r, n) = [r EXCEPT !.lastts = n]
    BY <1>3 DEF Billed
  <2>2. QED
    BY <1>3, <2>1 DEF RecordType
<1>4. QED
  BY <1>2, <1>3

(* The first bill of a call.                                                *)
LEMMA FirstBill ==
  ASSUME NEW r \in RecordType, NEW n \in Nat, NEW a \in Nat, a <= n,
         r.lastts = a, r.total = 0, r.pausets = 0, r.bill_adjustments = 0
  PROVE  /\ Billed(r, n).total = n - a /\ Billed(r, n).lastts = n
         /\ Billed(r, n).pausets = 0 /\ Billed(r, n).bill_adjustments = 0
<1>1. /\ Billed(r, n).lastts = n /\ Billed(r, n).pausets = r.pausets
      /\ Billed(r, n).total = r.total + (n - r.lastts) - r.bill_adjustments
      /\ Billed(r, n).bill_adjustments = 0
  BY BilledFields
<1>2. QED
  BY <1>1

(* Where a request goes whose test succeeded.                               *)
LEMMA LockPlaces ==
  \A op \in {"resume", "reset", "check"} :
    LockPlace(op) \in {"resume lock", "reset lock", "check lock"}
BY DEF LockPlace

-----------------------------------------------------------------------------
(* The lock                                                                 *)

Charging == {"charge", "balance"}
OnRecord == {"balance", "resume lock", "reset lock", "check lock"}

(* A step of one thread moves no other.                                     *)
LEMMA GotoMoves ==
  ASSUME LockTypes, NEW t \in Threads, NEW x \in Places, Goto(t, x)
  PROVE  /\ pc' \in [Threads -> Places] /\ ts' \in [Threads -> Nat]
         /\ pc'[t] = x /\ \A u \in Threads \ {t} : pc'[u] = pc[u]
BY DEF LockTypes, Goto

(* Who holds the lock without charging has it from a pause.                 *)
LEMMA WhoCharges ==
  ASSUME LockTypes, kept \in Nat, NEW t \in Threads
  PROVE  /\ pc[t] \in Charging =>
              /\ holder = t /\ depth = kept + 1
              /\ \A u \in Threads \ {t} : pc[u] \notin Charging
         /\ pc[t] \notin Charging /\ CanLock(t) =>
              depth = kept /\ \A u \in Threads : pc[u] \notin Charging
<1>1. \A u \in Threads : pc[u] \in Charging => holder = u
  BY DEF LockTypes, Charging
<1>2. depth = kept + (IF \E u \in Threads : pc[u] \in Charging THEN 1 ELSE 0)
  BY DEF LockTypes, Charging
<1>3. CASE pc[t] \in Charging
  BY <1>1, <1>2, <1>3
<1>4. CASE pc[t] \notin Charging /\ CanLock(t)
  <2>1. \A u \in Threads : pc[u] \notin Charging
    BY <1>1, <1>4, NibbleAssumption DEF CanLock
  <2>2. QED
    BY <1>2, <1>4, <2>1
<1>5. QED
  BY <1>3, <1>4

(* Steps that leave the lock alone, take it for a charge, leave with it, or *)
(* give it back.                                                            *)
LEMMA KeepsLock ==
  ASSUME LockTypes, NEW t \in Threads, NEW x \in Places, Goto(t, x),
         UNCHANGED <<holder, depth, kept>>,
         pc[t] \in Charging <=> x \in Charging,
         x \in OnRecord => data' # NoData,
         data # NoData => data' # NoData
  PROVE  LockTypes'
<1>1. /\ pc' \in [Threads -> Places] /\ ts' \in [Threads -> Nat]
      /\ pc'[t] = x /\ \A u \in Threads \ {t} : pc'[u] = pc[u]
  BY GotoMoves
<1>2. \A u \in Threads : pc'[u] \in Charging <=> pc[u] \in Charging
  BY <1>1
<1>3. \A u \in Threads : pc'[u] \in OnRecord => data' # NoData
  BY <1>1 DEF LockTypes, OnRecord
<1>4. QED
  BY <1>1, <1>2, <1>3 DEF LockTypes, Charging, OnRecord

LEMMA TakesLock ==
  ASSUME LockTypes, kept \in Nat, NEW t \in Threads, Lock(t), kept' = kept,
         pc[t] \notin Charging, Goto(t, "charge"),
         data # NoData => data' # NoData
  PROVE  LockTypes'
<1>1. /\ pc' \in [Threads -> Places] /\ ts' \in [Threads -> Nat]
      /\ pc'[t] = "charge" /\ \A u \in Threads \ {t} : pc'[u] = pc[u]
  BY GotoMoves DEF Places
<1>2. depth = kept /\ \A u \in Threads : pc[u] \notin Charging
  BY WhoCharges DEF Lock
<1>3. holder' = t /\ depth' = kept' + 1 /\ depth' \in Nat \ {0} /\ t # Free
  BY <1>2, NibbleAssumption DEF Lock
<1>4. \A u \in Threads :
        /\ pc'[u] \in Charging => holder' = u
        /\ pc'[u] \in OnRecord => data' # NoData
  BY <1>1, <1>2, <1>3 DEF LockTypes, OnRecord
<1>5. \E u \in Threads : pc'[u] \in Charging
  BY <1>1 DEF Charging
<1>6. depth' = kept' + (IF \E u \in Threads : pc'[u] \in Charging THEN 1 ELSE 0)
  BY <1>3, <1>5
<1>7. QED
  BY <1>1, <1>3, <1>4, <1>6 DEF LockTypes, Charging

LEMMA LeavesLocked ==
  ASSUME LockTypes, kept \in Nat, NEW t \in Threads, Lock(t), kept' = kept + 1,
         pc[t] \notin Charging, Goto(t, "idle"),
         data # NoData => data' # NoData
  PROVE  LockTypes'
<1>1. /\ pc' \in [Threads -> Places] /\ ts' \in [Threads -> Nat]
      /\ pc'[t] = "idle" /\ \A u \in Threads \ {t} : pc'[u] = pc[u]
  BY GotoMoves DEF Places
<1>2. depth = kept /\ \A u \in Threads : pc[u] \notin Charging
  BY WhoCharges DEF Lock
<1>3. holder' = t /\ depth' = kept' /\ depth' \in Nat \ {0} /\ t # Free
  BY <1>2, NibbleAssumption DEF Lock
<1>4. \A u \in Threads :
        pc'[u] \notin Charging /\ (pc'[u] \in OnRecord => data' # NoData)
  BY <1>1, <1>2 DEF LockTypes, OnRecord, Charging
<1>5. depth' = kept' + (IF \E u \in Threads : pc'[u] \in Charging THEN 1 ELSE 0)
  BY <1>3, <1>4
<1>6. QED
  BY <1>1, <1>3, <1>4, <1>5 DEF LockTypes, Charging

LEMMA GivesLockBack ==
  ASSUME LockTypes, kept \in Nat, NEW t \in Threads, Unlock, kept' = kept,
         pc[t] \in Charging, Goto(t, "idle"),
         data # NoData => data' # NoData
  PROVE  LockTypes'
<1>1. /\ pc' \in [Threads -> Places] /\ ts' \in [Threads -> Nat]
      /\ pc'[t] = "idle" /\ \A u \in Threads \ {t} : pc'[u] = pc[u]
  BY GotoMoves DEF Places
<1>2. /\ holder = t /\ depth = kept + 1
      /\ \A u \in Threads \ {t} : pc[u] \notin Charging
  BY WhoCharges
<1>3. /\ holder' \in Threads \cup {Free} /\ depth' = kept'
      /\ depth' = 0 <=> holder' = Free
  BY <1>2, NibbleAssumption DEF Unlock
<1>4. \A u \in Threads :
        pc'[u] \notin Charging /\ (pc'[u] \in OnRecord => data' # NoData)
  BY <1>1, <1>2 DEF LockTypes, OnRecord, Charging
<1>5. depth' = kept' + (IF \E u \in Threads : pc'[u] \in Charging THEN 1 ELSE 0)
  BY <1>3, <1>4
<1>6. QED
  BY <1>1, <1>3, <1>4, <1>5 DEF LockTypes, Charging

(* The record keeps its type, and is never taken away.                      *)
LEMMA DataTypesStep ==
  NibbleTypeOK /\ [NibbleNext]_nibbleVars => (DataTypes' /\ (data # NoData => data' \in RecordType))
<1> SUFFICES ASSUME NibbleTypeOK, [NibbleNext]_nibbleVars
             PROVE  (DataTypes' /\ (data # NoData => data' \in RecordType))
  OBVIOUS
<1>1. ASSUME NEW t \in Threads, NEW op \in Operations, Begin(t, op)
      PROVE  (DataTypes' /\ (data # NoData => data' \in RecordType))
  BY <1>1 DEF NibbleTypeOK, DataTypes, Begin, noteVars
<1>2. CASE ProcessHangup
  BY <1>2 DEF NibbleTypeOK, DataTypes, ProcessHangup, noteVars
<1>3. ASSUME NEW t \in Threads, BillUnanswered(t)
      PROVE  (DataTypes' /\ (data # NoData => data' \in RecordType))
  BY <1>3 DEF NibbleTypeOK, DataTypes, BillUnanswered, noteVars
<1>4. ASSUME NEW t \in Threads, BillLock(t)
      PROVE  (DataTypes' /\ (data # NoData => data' \in RecordType))
  BY <1>4 DEF NibbleTypeOK, DataTypes, BillLock, noteVars
<1>5. ASSUME NEW t \in Threads, Charge(t)
      PROVE  (DataTypes' /\ (data # NoData => data' \in RecordType))
  <2>1. /\ ts[t] \in Nat /\ Billed(Record, ts[t]) \in RecordType
    BY RecordHasType, BilledFields DEF NibbleTypeOK, LockTypes
  <2>2. QED
    BY <1>5, <2>1 DEF NibbleTypeOK, Charge, DataTypes
<1>6. ASSUME NEW t \in Threads, CheckBalance(t)
      PROVE  (DataTypes' /\ (data # NoData => data' \in RecordType))
  BY <1>6
  DEF NibbleTypeOK, LockTypes, CallTypes, RecordType, DataTypes, CheckBalance,
      noteVars
<1>7. ASSUME NEW t \in Threads, Pause(t)
      PROVE  (DataTypes' /\ (data # NoData => data' \in RecordType))
  BY <1>7 DEF NibbleTypeOK, LockTypes, RecordType, DataTypes, Pause
<1>8. ASSUME NEW t \in Threads, TestRecord(t)
      PROVE  (DataTypes' /\ (data # NoData => data' \in RecordType))
  BY <1>8 DEF NibbleTypeOK, DataTypes, TestRecord, noteVars
<1>9. ASSUME NEW t \in Threads, Resume(t)
      PROVE  (DataTypes' /\ (data # NoData => data' \in RecordType))
  <2>1. data \in RecordType /\ ts[t] \in Nat
    BY <1>9 DEF NibbleTypeOK, LockTypes, Resume
  <2> DEFINE a == data.bill_adjustments + (ts[t] - data.pausets)
  <2>2. data' \in RecordType
    <3>1. a \in Int
      BY <2>1 DEF RecordType
    <3>2. data' = [data EXCEPT !.bill_adjustments = a, !.pausets = 0]
      BY <1>9 DEF Resume
    <3> HIDE DEF a
    <3>3. QED
      BY <2>1, <3>1, <3>2 DEF RecordType
  <2>3. data.pausets .. ts[t] - 1 \subseteq Nat
    BY <2>1 DEF RecordType
  <2>4. QED
    BY <1>9, <2>2, <2>3 DEF NibbleTypeOK, Resume, DataTypes
<1>10. ASSUME NEW t \in Threads, Reset(t)
      PROVE  (DataTypes' /\ (data # NoData => data' \in RecordType))
  <2>1. data \in RecordType /\ ts[t] \in Nat
    BY <1>10 DEF NibbleTypeOK, LockTypes, Reset
  <2>2. data' \in RecordType
    BY <1>10, <2>1 DEF Reset, RecordType
  <2>3. data.lastts .. ts[t] - 1 \subseteq Nat
    BY <2>1 DEF RecordType
  <2>4. waived' \subseteq Nat /\ settled' \in Nat /\ plain' \in BOOLEAN
    BY <1>10, <2>1, <2>3 DEF NibbleTypeOK, Reset
  <2>5. QED
    BY <2>2, <2>4 DEF DataTypes
<1>11. ASSUME NEW t \in Threads, Check(t)
      PROVE  (DataTypes' /\ (data # NoData => data' \in RecordType))
  BY <1>11 DEF NibbleTypeOK, DataTypes, Check, noteVars
<1>12. ASSUME NEW t \in Threads, Adjust(t)
      PROVE  (DataTypes' /\ (data # NoData => data' \in RecordType))
  BY <1>12 DEF NibbleTypeOK, DataTypes, Adjust, noteVars
<1>13. CASE Answer
  BY <1>13 DEF NibbleTypeOK, DataTypes, Answer, noteVars
<1>14. CASE Hangup
  BY <1>14 DEF NibbleTypeOK, DataTypes, Hangup, noteVars
<1>15. CASE TimePasses
  BY <1>15 DEF NibbleTypeOK, DataTypes, TimePasses, noteVars
<1>16. CASE UNCHANGED nibbleVars
  BY <1>16 DEF NibbleTypeOK, DataTypes, nibbleVars, noteVars
<1>17. QED
  BY <1>1, <1>2, <1>3, <1>4, <1>5, <1>6, <1>7, <1>8, <1>9, <1>10, <1>11, <1>12,
     <1>13, <1>14, <1>15, <1>16
  DEF NibbleNext, Request

(* The call, the account and the counters.                                  *)
LEMMA CallTypesStep ==
  NibbleTypeOK /\ [NibbleNext]_nibbleVars => CallTypes'
<1> SUFFICES ASSUME NibbleTypeOK, [NibbleNext]_nibbleVars
             PROVE  CallTypes'
  OBVIOUS
<1>1. ASSUME NEW t \in Threads, NEW op \in Operations, Begin(t, op)
      PROVE  CallTypes'
  BY <1>1 DEF NibbleTypeOK, CallTypes, Begin, callVars, moneyVars, noteVars
<1>2. CASE ProcessHangup
  BY <1>2 DEF NibbleTypeOK, CallTypes, ProcessHangup, callVars, moneyVars, noteVars
<1>3. ASSUME NEW t \in Threads, BillUnanswered(t)
      PROVE  CallTypes'
  BY <1>3
  DEF NibbleTypeOK, CallTypes, BillUnanswered, callVars, moneyVars, requestVars, noteVars
<1>4. ASSUME NEW t \in Threads, BillLock(t)
      PROVE  CallTypes'
  BY <1>4 DEF NibbleTypeOK, CallTypes, BillLock, callVars, moneyVars, requestVars, noteVars
<1>5. ASSUME NEW t \in Threads, Charge(t)
      PROVE  CallTypes'
  <2>1. /\ ts[t] \in Nat /\ Record.total \in Int
        /\ Billed(Record, ts[t]).total \in Int
    BY RecordHasType, BilledFields DEF NibbleTypeOK, LockTypes, RecordType
  <2>2. Bill(Billed(Record, ts[t]).total - Record.total)
    BY <1>5 DEF Charge
  <2>3. cash' \in Int /\ missed' \in Int /\ given' \in Int
    BY <2>1, <2>2 DEF NibbleTypeOK, CallTypes, Bill, BillEvent
  <2>4. QED
    BY <1>5, <2>3 DEF NibbleTypeOK, CallTypes, Charge, callVars, requestVars
<1>6. ASSUME NEW t \in Threads, CheckBalance(t)
      PROVE  CallTypes'
  BY <1>6
  DEF NibbleTypeOK, CallTypes, CheckBalance, callVars, moneyVars, requestVars, noteVars
<1>7. ASSUME NEW t \in Threads, Pause(t)
      PROVE  CallTypes'
  BY <1>7 DEF NibbleTypeOK, CallTypes, Pause, callVars, moneyVars, requestVars
<1>8. ASSUME NEW t \in Threads, TestRecord(t)
      PROVE  CallTypes'
  BY <1>8 DEF NibbleTypeOK, CallTypes, TestRecord, callVars, moneyVars, requestVars, noteVars
<1>9. ASSUME NEW t \in Threads, Resume(t)
      PROVE  CallTypes'
  BY <1>9 DEF NibbleTypeOK, CallTypes, Resume, callVars, moneyVars, requestVars
<1>10. ASSUME NEW t \in Threads, Reset(t)
      PROVE  CallTypes'
  BY <1>10 DEF NibbleTypeOK, CallTypes, Reset, callVars, moneyVars, requestVars
<1>11. ASSUME NEW t \in Threads, Check(t)
      PROVE  CallTypes'
  BY <1>11 DEF NibbleTypeOK, CallTypes, Check, callVars, moneyVars, requestVars, noteVars
<1>12. ASSUME NEW t \in Threads, Adjust(t)
      PROVE  CallTypes'
  <2>1. PICK amount \in Adjustments : BillEvent(-amount)
    BY <1>12 DEF Adjust
  <2>2. cash' \in Int
    BY <2>1, NibbleAssumption DEF NibbleTypeOK, CallTypes, BillEvent
  <2>3. QED
    BY <1>12, <2>2
    DEF NibbleTypeOK, CallTypes, Adjust, callVars, requestVars, noteVars
<1>13. CASE Answer
  BY <1>13 DEF NibbleTypeOK, CallTypes, Answer, moneyVars, requestVars, noteVars
<1>14. CASE Hangup
  BY <1>14 DEF NibbleTypeOK, CallTypes, Hangup, moneyVars, requestVars, noteVars
<1>15. CASE TimePasses
  BY <1>15 DEF NibbleTypeOK, CallTypes, TimePasses, moneyVars, requestVars, noteVars
<1>16. CASE UNCHANGED nibbleVars
  BY <1>16 DEF NibbleTypeOK, CallTypes, nibbleVars, callVars, moneyVars, requestVars, noteVars
<1>17. QED
  BY <1>1, <1>2, <1>3, <1>4, <1>5, <1>6, <1>7, <1>8, <1>9, <1>10, <1>11, <1>12,
     <1>13, <1>14, <1>15, <1>16
  DEF NibbleNext, Request

(* A pause is not recorded while somebody else charges: pauses need the     *)
(* lock.                                                                    *)
LEMMA RunningStep ==
  NibbleTypeOK /\ BillerSeesRunning /\ [NibbleNext]_nibbleVars => BillerSeesRunning'
<1> SUFFICES ASSUME NibbleTypeOK, BillerSeesRunning, [NibbleNext]_nibbleVars
             PROVE  BillerSeesRunning'
  OBVIOUS
<1>1. ASSUME NEW t \in Threads, NEW op \in Operations, Begin(t, op)
      PROVE  BillerSeesRunning'
  <2>1. \A u \in Threads : pc'[u] \in {"charge", "balance"} => pc[u] = pc'[u]
    BY <1>1 DEF Begin, Operations
  <2>2. QED
    BY <1>1, <2>1 DEF BillerSeesRunning, Begin
<1>2. CASE ProcessHangup
  BY <1>2 DEF BillerSeesRunning, ProcessHangup
<1>3. ASSUME NEW t \in Threads, BillUnanswered(t)
      PROVE  BillerSeesRunning'
  BY <1>3 DEF BillerSeesRunning, BillUnanswered, Goto
<1>4. ASSUME NEW t \in Threads, BillLock(t)
      PROVE  BillerSeesRunning'
  <2> SUFFICES ASSUME NEW u \in Threads, pc'[u] \in {"charge", "balance"},
                      data' # NoData
               PROVE  data'.pausets = 0
    BY DEF BillerSeesRunning
  <2>1. data' = data /\ data \in RecordType
    BY <1>4 DEF NibbleTypeOK, BillLock
  <2>2. CASE u # t
    <3>1. pc[u] = pc'[u]
      BY <1>4, <2>2 DEF NibbleTypeOK, LockTypes, BillLock, Goto
    <3>2. QED
      BY <2>1, <3>1 DEF BillerSeesRunning
  <2>3. CASE u = t
    <3>1. ~(data.pausets > 0)
      BY <1>4, <2>1, <2>3 DEF NibbleTypeOK, LockTypes, BillLock, Goto
    <3>2. QED
      BY <2>1, <3>1 DEF RecordType
  <2>4. QED
    BY <2>2, <2>3
<1>5. ASSUME NEW t \in Threads, Charge(t)
      PROVE  BillerSeesRunning'
  <2> SUFFICES ASSUME data' # NoData
               PROVE  data'.pausets = 0
    BY DEF BillerSeesRunning
  <2>1. data' = Billed(Record, ts[t]) /\ pc[t] = "charge" /\ ts[t] \in Nat
    BY <1>5 DEF NibbleTypeOK, LockTypes, Charge
  <2>2. data'.pausets = Record.pausets
    BY <2>1, RecordHasType, BilledFields
  <2>3. QED
    BY <2>1, <2>2, RecordHasType DEF BillerSeesRunning
<1>6. ASSUME NEW t \in Threads, CheckBalance(t)
      PROVE  BillerSeesRunning'
  BY <1>6 DEF NibbleTypeOK, LockTypes, BillerSeesRunning, CheckBalance, Goto
<1>7. ASSUME NEW t \in Threads, Pause(t)
      PROVE  BillerSeesRunning'
  BY <1>7, NibbleAssumption
  DEF NibbleTypeOK, LockTypes, BillerSeesRunning, Pause, Goto, CanLock
<1>8. ASSUME NEW t \in Threads, TestRecord(t)
      PROVE  BillerSeesRunning'
  <2>1. \A u \in Threads : pc'[u] \in {"charge", "balance"} => pc[u] = pc'[u]
    <3>1. pc'[t] \in {"resume lock", "reset lock", "check lock", "idle"}
      BY <1>8, LockPlaces DEF NibbleTypeOK, LockTypes, TestRecord, Goto
    <3>2. \A u \in Threads \ {t} : pc'[u] = pc[u]
      BY <1>8 DEF NibbleTypeOK, LockTypes, TestRecord, Goto
    <3>3. QED
      BY <3>1, <3>2
  <2>2. QED
    BY <1>8, <2>1 DEF BillerSeesRunning, TestRecord
<1>9. ASSUME NEW t \in Threads, Resume(t)
      PROVE  BillerSeesRunning'
  BY <1>9, NibbleAssumption
  DEF NibbleTypeOK, LockTypes, BillerSeesRunning, Resume, Goto, CanLock
<1>10. ASSUME NEW t \in Threads, Reset(t)
      PROVE  BillerSeesRunning'
  BY <1>10, NibbleAssumption
  DEF NibbleTypeOK, LockTypes, BillerSeesRunning, Reset, Goto, CanLock
<1>11. ASSUME NEW t \in Threads, Check(t)
      PROVE  BillerSeesRunning'
  BY <1>11 DEF NibbleTypeOK, LockTypes, BillerSeesRunning, Check, Goto
<1>12. ASSUME NEW t \in Threads, Adjust(t)
      PROVE  BillerSeesRunning'
  BY <1>12 DEF BillerSeesRunning, Adjust, Goto
<1>13. CASE Answer
  BY <1>13 DEF BillerSeesRunning, Answer
<1>14. CASE Hangup
  BY <1>14 DEF BillerSeesRunning, Hangup
<1>15. CASE TimePasses
  BY <1>15 DEF BillerSeesRunning, TimePasses
<1>16. CASE UNCHANGED nibbleVars
  BY <1>16 DEF BillerSeesRunning, nibbleVars
<1>17. QED
  BY <1>1, <1>2, <1>3, <1>4, <1>5, <1>6, <1>7, <1>8, <1>9, <1>10, <1>11, <1>12,
     <1>13, <1>14, <1>15, <1>16
  DEF NibbleNext, Request

(* A record is never taken away.                                            *)
LEMMA RecordStays ==
  ASSUME NibbleTypeOK, [NibbleNext]_nibbleVars
  PROVE  data # NoData => data' # NoData
BY DataTypesStep, RecordIsNotNoData

(* The lock is held by who charges and by the pauses that kept it.          *)
LEMMA LockTypesStep ==
  NibbleTypeOK /\ [NibbleNext]_nibbleVars => LockTypes'
<1> SUFFICES ASSUME NibbleTypeOK, [NibbleNext]_nibbleVars
             PROVE  LockTypes'
  OBVIOUS
<1>1. ASSUME NEW t \in Threads, NEW op \in Operations, Begin(t, op)
      PROVE  LockTypes'
  BY <1>1
  DEF NibbleTypeOK, LockTypes, Places, Operations, CallTypes, Begin, lockVars,
      noteVars
<1>2. CASE ProcessHangup
  BY <1>2
  DEF NibbleTypeOK, LockTypes, Places, Operations, CallTypes, ProcessHangup,
      lockVars, noteVars
<1>3. ASSUME NEW t \in Threads, BillUnanswered(t)
      PROVE  LockTypes'
  <2>1. /\ Goto(t, "idle") /\ UNCHANGED <<holder, depth, kept>>
        /\ pc[t] \notin Charging
    BY <1>3 DEF BillUnanswered, Charging, lockVars, noteVars
  <2>2. QED
    BY <2>1, RecordStays, KeepsLock DEF NibbleTypeOK, Places, Charging, OnRecord
<1>4. ASSUME NEW t \in Threads, BillLock(t)
      PROVE  LockTypes'
  <2>1. pc[t] \notin Charging /\ kept' = kept /\ data' = data
    BY <1>4 DEF BillLock, Charging, noteVars
  <2>2. CASE data # NoData /\ data.pausets > 0
    <3>1. Goto(t, "idle") /\ UNCHANGED <<holder, depth>>
      BY <1>4, <2>2 DEF BillLock, lockVars
    <3>2. QED
      BY <2>1, <3>1, KeepsLock DEF NibbleTypeOK, Places, Charging, OnRecord
  <2>3. CASE ~(data # NoData /\ data.pausets > 0)
    <3>1. Goto(t, "charge") /\ Lock(t)
      BY <1>4, <2>3 DEF BillLock
    <3>2. QED
      BY <2>1, <3>1, TakesLock DEF NibbleTypeOK, CallTypes
  <2>4. QED
    BY <2>2, <2>3
<1>5. ASSUME NEW t \in Threads, Charge(t)
      PROVE  LockTypes'
  <2>1. pc[t] \in Charging /\ kept' = kept
    BY <1>5 DEF Charge, Charging
  <2>2. CASE chan = "hangup"
    <3>1. Goto(t, "idle") /\ Unlock
      BY <1>5, <2>2 DEF Charge
    <3>2. QED
      BY <2>1, <3>1, RecordStays, GivesLockBack DEF NibbleTypeOK, CallTypes
  <2>3. CASE chan # "hangup"
    <3>1. Goto(t, "balance") /\ UNCHANGED <<holder, depth>>
      BY <1>5, <2>3 DEF Charge, lockVars
    <3>2. data' # NoData
      <4>1. data' = Billed(Record, ts[t]) /\ ts[t] \in Nat
        BY <1>5, <2>3 DEF Charge, NibbleTypeOK, LockTypes
      <4>2. QED
        BY <4>1, RecordHasType, BilledFields, RecordIsNotNoData
    <3>3. QED
      BY <2>1, <3>1, <3>2, KeepsLock DEF NibbleTypeOK, Places, Charging
  <2>4. QED
    BY <2>2, <2>3
<1>6. ASSUME NEW t \in Threads, CheckBalance(t)
      PROVE  LockTypes'
  <2>1. pc[t] \in Charging /\ kept' = kept /\ Goto(t, "idle") /\ Unlock
    BY <1>6 DEF CheckBalance, Charging, noteVars
  <2>2. QED
    BY <2>1, RecordStays, GivesLockBack DEF NibbleTypeOK, CallTypes
<1>7. ASSUME NEW t \in Threads, Pause(t)
      PROVE  LockTypes'
  <2>1. pc[t] \notin Charging /\ Goto(t, "idle")
    BY <1>7 DEF Pause, Charging
  <2>2. CASE data = NoData
    <3>1. Lock(t) /\ kept' = kept + 1
      BY <1>7, <2>2 DEF Pause
    <3>2. QED
      BY <2>1, <2>2, <3>1, LeavesLocked DEF NibbleTypeOK, CallTypes
  <2>3. CASE data # NoData
    <3>1. UNCHANGED <<holder, depth, kept>>
      BY <1>7, <2>3 DEF Pause, lockVars
    <3>2. QED
      BY <2>1, <3>1, RecordStays, KeepsLock
      DEF NibbleTypeOK, Places, Charging, OnRecord
  <2>4. QED
    BY <2>2, <2>3
<1>8. ASSUME NEW t \in Threads, TestRecord(t)
      PROVE  LockTypes'
  <2>1. /\ pc[t] \notin Charging /\ UNCHANGED <<holder, depth, kept>>
        /\ data' = data
    BY <1>8 DEF TestRecord, Charging, lockVars, noteVars
  <2>2. CASE Goto(t, "idle")
    BY <2>1, <2>2, KeepsLock DEF NibbleTypeOK, Places, Charging, OnRecord
  <2>3. CASE data # NoData /\ Goto(t, LockPlace(pc[t]))
    <3>1. LockPlace(pc[t]) \in {"resume lock", "reset lock", "check lock"}
      BY <1>8, LockPlaces DEF TestRecord
    <3>2. QED
      BY <2>1, <2>3, <3>1, KeepsLock DEF NibbleTypeOK, Places, Charging
  <2>4. QED
    BY <1>8, <2>2, <2>3 DEF TestRecord
<1>9. ASSUME NEW t \in Threads, Resume(t)
      PROVE  LockTypes'
  <2>1. /\ Goto(t, "idle") /\ UNCHANGED <<holder, depth, kept>>
        /\ pc[t] \notin Charging
    BY <1>9 DEF Resume, Charging, lockVars
  <2>2. QED
    BY <2>1, RecordStays, KeepsLock DEF NibbleTypeOK, Places, Charging, OnRecord
<1>10. ASSUME NEW t \in Threads, Reset(t)
      PROVE  LockTypes'
  <2>1. /\ Goto(t, "idle") /\ UNCHANGED <<holder, depth, kept>>
        /\ pc[t] \notin Charging
    BY <1>10 DEF Reset, Charging, lockVars
  <2>2. QED
    BY <2>1, RecordStays, KeepsLock DEF NibbleTypeOK, Places, Charging, OnRecord
<1>11. ASSUME NEW t \in Threads, Check(t)
      PROVE  LockTypes'
  <2>1. /\ Goto(t, "idle") /\ UNCHANGED <<holder, depth, kept>>
        /\ pc[t] \notin Charging
    BY <1>11 DEF Check, Charging, lockVars, noteVars
  <2>2. QED
    BY <2>1, RecordStays, KeepsLock DEF NibbleTypeOK, Places, Charging, OnRecord
<1>12. ASSUME NEW t \in Threads, Adjust(t)
      PROVE  LockTypes'
  <2>1. /\ Goto(t, "idle") /\ UNCHANGED <<holder, depth, kept>>
        /\ pc[t] \notin Charging
    BY <1>12 DEF Adjust, Charging, lockVars, noteVars
  <2>2. QED
    BY <2>1, RecordStays, KeepsLock DEF NibbleTypeOK, Places, Charging, OnRecord
<1>13. CASE Answer
  BY <1>13 DEF NibbleTypeOK, LockTypes, Answer, lockVars, noteVars
<1>14. CASE Hangup
  BY <1>14 DEF NibbleTypeOK, LockTypes, Hangup, lockVars, noteVars
<1>15. CASE TimePasses
  BY <1>15 DEF NibbleTypeOK, LockTypes, TimePasses, lockVars, noteVars
<1>16. CASE UNCHANGED nibbleVars
  BY <1>16 DEF NibbleTypeOK, LockTypes, nibbleVars, lockVars, noteVars
<1>17. QED
  BY <1>1, <1>2, <1>3, <1>4, <1>5, <1>6, <1>7, <1>8, <1>9, <1>10, <1>11, <1>12,
     <1>13, <1>14, <1>15, <1>16
  DEF NibbleNext, Request

-----------------------------------------------------------------------------
(* The ledger                                                               *)

(* Cardinalities of disjoint unions and of intervals.                       *)
LEMMA Disjoint ==
  ASSUME NEW S, NEW T, IsFiniteSet(S), IsFiniteSet(T), S \cap T = {}
  PROVE  /\ IsFiniteSet(S \cup T)
         /\ Cardinality(S \cup T) = Cardinality(S) + Cardinality(T)
         /\ Cardinality(S) \in Nat /\ Cardinality(T) \in Nat
<1>1. Cardinality(S) \in Nat /\ Cardinality(T) \in Nat
  BY FS_CardinalityType
<1>2. Cardinality(S \cap T) = 0
  BY FS_EmptySet
<1>3. /\ IsFiniteSet(S \cup T)
      /\ Cardinality(S \cup T) = Cardinality(S) + Cardinality(T) - Cardinality(S \cap T)
  BY FS_Union
<1>4. QED
  BY <1>1, <1>2, <1>3

LEMMA IntervalSize ==
  ASSUME NEW l \in Nat, NEW n \in Nat, l <= n
  PROVE  IsFiniteSet(l .. n - 1) /\ Cardinality(l .. n - 1) = n - l
<1>1. l \in Int /\ n - 1 \in Int
  OBVIOUS
<1>2. /\ IsFiniteSet(l .. n - 1)
      /\ Cardinality(l .. n - 1) = IF l > n - 1 THEN 0 ELSE (n - 1) - l + 1
  BY <1>1, FS_Interval
<1>3. QED
  BY <1>2

(* Nothing is at or after a time that everything precedes.                  *)
LEMMA NothingLater ==
  ASSUME NEW n \in Nat, NEW W \in SUBSET Nat, \A k \in W : k < n
  PROVE  {k \in W : k >= n} = {} /\ Cardinality({k \in W : k >= n}) = 0
<1>1. \A k \in W : ~(k >= n)
  <2>1. \A k \in W : k \in Nat
    OBVIOUS
  <2>2. QED
    BY <2>1
<1>2. QED
  BY <1>1, FS_EmptySet

(* A bill up to n covers the ticks from l on that are not waived.           *)
LEMMA BillCount ==
  \A a, l, n \in Nat : \A W \in SUBSET Nat :
    a <= l /\ l <= n /\ IsFiniteSet(W) /\ (\A k \in W : k < n) =>
      Cardinality((a .. n - 1) \ W)
        = Cardinality((a .. l - 1) \ W) + (n - l)
            - Cardinality({k \in W : k >= l})
<1> SUFFICES ASSUME NEW a \in Nat, NEW l \in Nat, NEW n \in Nat, a <= l, l <= n,
                    NEW W \in SUBSET Nat, IsFiniteSet(W), \A k \in W : k < n
             PROVE  Cardinality((a .. n - 1) \ W)
                      = Cardinality((a .. l - 1) \ W) + (n - l)
                          - Cardinality({k \in W : k >= l})
  BY ZenonT(40)
<1> DEFINE Before == (a .. l - 1) \ W
           After  == (l .. n - 1) \ W
           Waived == {k \in W : k >= l}
<1>1. /\ IsFiniteSet(l .. n - 1) /\ Cardinality(l .. n - 1) = n - l
      /\ IsFiniteSet(a .. l - 1)
  BY IntervalSize
<1>2. IsFiniteSet(Before) /\ IsFiniteSet(After) /\ IsFiniteSet(Waived)
  <2>1. Before \subseteq a .. l - 1 /\ After \subseteq l .. n - 1 /\ Waived \subseteq W
    OBVIOUS
  <2>2. QED
    BY <1>1, <2>1, FS_Subset
<1>3. Cardinality(After) = (n - l) - Cardinality(Waived)
  <2>1. l .. n - 1 = After \cup Waived /\ After \cap Waived = {}
    <3>1. \A k \in Waived : k \in l .. n - 1
      OBVIOUS
    <3>2. \A k \in l .. n - 1 : k \in W => k \in Waived
      OBVIOUS
    <3>3. QED
      BY <3>1, <3>2
  <2>2. Cardinality(l .. n - 1) = Cardinality(After) + Cardinality(Waived)
    BY <1>2, <2>1, Disjoint
  <2>3. QED
    BY <1>1, <1>2, <2>2, FS_CardinalityType
<1>4. Cardinality((a .. n - 1) \ W) = Cardinality(Before) + Cardinality(After)
  <2>1. (a .. n - 1) \ W = Before \cup After /\ Before \cap After = {}
    OBVIOUS
  <2>2. QED
    BY <1>2, <2>1, Disjoint
<1>5. QED
  BY <1>2, <1>3, <1>4

(* A pause from p to n, newer than everything waived before, adds its       *)
(* length to the time waived since the last bill.                           *)
LEMMA PauseCount ==
  ASSUME NEW l \in Nat, NEW p \in Nat, NEW n \in Nat, l <= p, p <= n,
         NEW W \in SUBSET Nat, IsFiniteSet(W), \A k \in W : k < p
  PROVE  Cardinality({k \in W \cup p .. n - 1 : k >= l})
           = Cardinality({k \in W : k >= l}) + (n - p)
<1> DEFINE Old == {k \in W : k >= l}
<1>1. IsFiniteSet(Old)
  BY FS_Subset
<1>2. IsFiniteSet(p .. n - 1) /\ Cardinality(p .. n - 1) = n - p
  BY IntervalSize
<1>3. /\ {k \in W \cup p .. n - 1 : k >= l} = Old \cup p .. n - 1
      /\ Old \cap p .. n - 1 = {}
  OBVIOUS
<1>4. QED
  BY <1>1, <1>2, <1>3, Disjoint

(* A reset from l to n, with nothing waived since l, charges nothing and    *)
(* leaves nothing to be taken off.                                          *)
LEMMA ResetCount ==
  ASSUME NEW a \in Nat, NEW l \in Nat, NEW n \in Nat, a <= l, l <= n,
         NEW W \in SUBSET Nat, IsFiniteSet(W),
         Cardinality({k \in W : k >= l}) = 0
  PROVE  /\ (a .. n - 1) \ (W \cup l .. n - 1) = (a .. l - 1) \ W
         /\ Cardinality({k \in W \cup l .. n - 1 : k >= n}) = 0
<1>1. {k \in W : k >= l} = {}
  BY FS_Subset, FS_EmptySet
<1>2. \A k \in W : k < l
  BY <1>1
<1>3. (a .. n - 1) \ (W \cup l .. n - 1) = (a .. l - 1) \ W
  BY <1>2
<1>4. \A k \in W \cup l .. n - 1 : k \in Nat /\ k < n
  BY <1>2
<1>5. QED
  BY <1>3, <1>4, NothingLater

-----------------------------------------------------------------------------
(* Time                                                                     *)

(* A stamp taken now is not in the future; a stamp kept is still not.       *)
LEMMA StampsMove ==
  ASSUME NibbleTypeOK, StampsPast, NEW t \in Threads, NEW x, NEW n,
         pc' = [pc EXCEPT ![t] = x], ts' = [ts EXCEPT ![t] = n],
         n \in {0, ts[t], time}, x = "charge" => answered # 0,
         UNCHANGED <<time, answered>>
  PROVE  StampsPast'
<1>1. /\ pc'[t] = x /\ ts'[t] = n
      /\ \A u \in Threads \ {t} : pc'[u] = pc[u] /\ ts'[u] = ts[u]
  BY DEF NibbleTypeOK, LockTypes
<1>2. time \in Nat /\ \A u \in Threads : ts[u] \in Nat
  BY DEF NibbleTypeOK, CallTypes, LockTypes
<1>3. QED
  BY <1>1, <1>2 DEF StampsPast

LEMMA StampsKept ==
  ASSUME NibbleTypeOK, StampsPast, NEW t \in Threads, NEW x, Goto(t, x),
         UNCHANGED <<time, answered>>, x = "charge" => answered # 0
  PROVE  StampsPast'
<1>1. pc' = [pc EXCEPT ![t] = x]
      /\ ts' = [ts EXCEPT ![t] = IF x = "idle" THEN 0 ELSE ts[t]]
  BY DEF Goto
<1>2. QED
  BY <1>1, StampsMove

(* Only finitely many ticks were ever waived.                               *)
LEMMA FiniteStep ==
  NibbleTypeOK /\ IsFiniteSet(waived) /\ [NibbleNext]_nibbleVars => IsFiniteSet(waived')
<1> SUFFICES ASSUME NibbleTypeOK, IsFiniteSet(waived), [NibbleNext]_nibbleVars
             PROVE  IsFiniteSet(waived')
  OBVIOUS
<1>1. ASSUME NEW t \in Threads, NEW op \in Operations, Begin(t, op)
      PROVE  IsFiniteSet(waived')
  BY <1>1 DEF Begin, noteVars
<1>2. CASE ProcessHangup
  BY <1>2 DEF ProcessHangup, noteVars
<1>3. ASSUME NEW t \in Threads, BillUnanswered(t)
      PROVE  IsFiniteSet(waived')
  BY <1>3 DEF BillUnanswered, noteVars
<1>4. ASSUME NEW t \in Threads, BillLock(t)
      PROVE  IsFiniteSet(waived')
  BY <1>4 DEF BillLock, noteVars
<1>5. ASSUME NEW t \in Threads, Charge(t)
      PROVE  IsFiniteSet(waived')
  BY <1>5 DEF Charge
<1>6. ASSUME NEW t \in Threads, CheckBalance(t)
      PROVE  IsFiniteSet(waived')
  BY <1>6 DEF CheckBalance, noteVars
<1>7. ASSUME NEW t \in Threads, Pause(t)
      PROVE  IsFiniteSet(waived')
  BY <1>7 DEF Pause
<1>8. ASSUME NEW t \in Threads, TestRecord(t)
      PROVE  IsFiniteSet(waived')
  BY <1>8 DEF TestRecord, noteVars
<1>9. ASSUME NEW t \in Threads, Resume(t)
      PROVE  IsFiniteSet(waived')
  <2>1. data.pausets \in Nat /\ ts[t] \in Nat
    BY <1>9 DEF NibbleTypeOK, LockTypes, RecordType, Resume
  <2>2. IsFiniteSet(data.pausets .. ts[t] - 1)
    BY <2>1, FS_Interval, SMTT(20)
  <2>3. QED
    BY <1>9, <2>2, FS_Union DEF Resume
<1>10. ASSUME NEW t \in Threads, Reset(t)
      PROVE  IsFiniteSet(waived')
  <2>1. data.lastts \in Nat /\ ts[t] \in Nat
    BY <1>10 DEF NibbleTypeOK, LockTypes, RecordType, Reset
  <2>2. IsFiniteSet(data.lastts .. ts[t] - 1)
    BY <2>1, FS_Interval, SMTT(20)
  <2>3. QED
    BY <1>10, <2>2, FS_Union DEF Reset
<1>11. ASSUME NEW t \in Threads, Check(t)
      PROVE  IsFiniteSet(waived')
  BY <1>11 DEF Check, noteVars
<1>12. ASSUME NEW t \in Threads, Adjust(t)
      PROVE  IsFiniteSet(waived')
  BY <1>12 DEF Adjust, noteVars
<1>13. CASE Answer
  BY <1>13 DEF Answer, noteVars
<1>14. CASE Hangup
  BY <1>14 DEF Hangup, noteVars
<1>15. CASE TimePasses
  BY <1>15 DEF TimePasses, noteVars
<1>16. CASE UNCHANGED nibbleVars
  BY <1>16 DEF nibbleVars, noteVars
<1>17. QED
  BY <1>1, <1>2, <1>3, <1>4, <1>5, <1>6, <1>7, <1>8, <1>9, <1>10, <1>11, <1>12,
     <1>13, <1>14, <1>15, <1>16
  DEF NibbleNext, Request

(* No stamp lies in the future, and bills are of answered calls.            *)
LEMMA StampsStep ==
  NibbleTypeOK /\ StampsPast /\ [NibbleNext]_nibbleVars => StampsPast'
<1> SUFFICES ASSUME NibbleTypeOK, StampsPast, [NibbleNext]_nibbleVars
             PROVE  StampsPast'
  OBVIOUS
<1>1. ASSUME NEW t \in Threads, NEW op \in Operations, Begin(t, op)
      PROVE  StampsPast'
  <2>1. /\ pc' = [pc EXCEPT ![t] = op] /\ ts' = [ts EXCEPT ![t] = time]
        /\ UNCHANGED <<time, answered>> /\ op # "charge"
    BY <1>1 DEF Begin, callVars, Operations
  <2>2. QED
    BY <2>1, StampsMove
<1>2. CASE ProcessHangup
  <2>1. /\ pc' = [pc EXCEPT ![Session] = "bill"]
        /\ ts' = [ts EXCEPT ![Session] = time] /\ UNCHANGED <<time, answered>>
    BY <1>2 DEF ProcessHangup, callVars
  <2>2. QED
    BY <2>1, StampsMove, NibbleAssumption
<1>3. ASSUME NEW t \in Threads, BillUnanswered(t)
      PROVE  StampsPast'
  BY <1>3, StampsKept DEF BillUnanswered, callVars
<1>4. ASSUME NEW t \in Threads, BillLock(t)
      PROVE  StampsPast'
  BY <1>4, StampsKept DEF BillLock, callVars
<1>5. ASSUME NEW t \in Threads, Charge(t)
      PROVE  StampsPast'
  <2>1. UNCHANGED <<time, answered>> /\ (Goto(t, "idle") \/ Goto(t, "balance"))
    BY <1>5 DEF Charge, callVars
  <2>2. QED
    BY <2>1, StampsKept
<1>6. ASSUME NEW t \in Threads, CheckBalance(t)
      PROVE  StampsPast'
  BY <1>6, StampsKept DEF CheckBalance, callVars
<1>7. ASSUME NEW t \in Threads, Pause(t)
      PROVE  StampsPast'
  BY <1>7, StampsKept DEF Pause, callVars
<1>8. ASSUME NEW t \in Threads, TestRecord(t)
      PROVE  StampsPast'
  <2>1. UNCHANGED <<time, answered>>
    BY <1>8 DEF TestRecord, callVars
  <2>2. CASE Goto(t, "idle")
    BY <2>1, <2>2, StampsKept
  <2>3. CASE Goto(t, LockPlace(pc[t]))
    <3>1. LockPlace(pc[t]) \in {"resume lock", "reset lock", "check lock"}
      BY <1>8, LockPlaces DEF TestRecord
    <3>2. LockPlace(pc[t]) # "charge"
      BY <3>1
    <3>3. QED
      BY <2>1, <2>3, <3>2, StampsKept
  <2>4. QED
    BY <1>8, <2>2, <2>3 DEF TestRecord
<1>9. ASSUME NEW t \in Threads, Resume(t)
      PROVE  StampsPast'
  BY <1>9, StampsKept DEF Resume, callVars
<1>10. ASSUME NEW t \in Threads, Reset(t)
      PROVE  StampsPast'
  BY <1>10, StampsKept DEF Reset, callVars
<1>11. ASSUME NEW t \in Threads, Check(t)
      PROVE  StampsPast'
  BY <1>11, StampsKept DEF Check, callVars
<1>12. ASSUME NEW t \in Threads, Adjust(t)
      PROVE  StampsPast'
  BY <1>12, StampsKept DEF Adjust, callVars
<1>13. CASE Answer
  BY <1>13 DEF StampsPast, Answer
<1>14. CASE Hangup
  BY <1>14 DEF StampsPast, Hangup
<1>15. CASE TimePasses
  <2>1. time \in Nat /\ \A u \in Threads : ts[u] \in Nat
    BY DEF NibbleTypeOK, CallTypes, LockTypes
  <2>2. QED
    BY <1>15, <2>1 DEF StampsPast, TimePasses
<1>16. CASE UNCHANGED nibbleVars
  BY <1>16 DEF StampsPast, nibbleVars, callVars
<1>17. QED
  BY <1>1, <1>2, <1>3, <1>4, <1>5, <1>6, <1>7, <1>8, <1>9, <1>10, <1>11, <1>12,
     <1>13, <1>14, <1>15, <1>16
  DEF NibbleNext, Request

(* Nothing recorded lies in the future.                                     *)
LEMMA PastStep ==
  NibbleTypeOK /\ StampsPast /\ RecordPast /\ [NibbleNext]_nibbleVars => RecordPast'
<1> SUFFICES ASSUME NibbleTypeOK, StampsPast, RecordPast, [NibbleNext]_nibbleVars
             PROVE  RecordPast'
  OBVIOUS
<1>1. ASSUME NEW t \in Threads, NEW op \in Operations, Begin(t, op)
      PROVE  RecordPast'
  BY <1>1 DEF RecordPast, Begin, callVars, noteVars
<1>2. CASE ProcessHangup
  BY <1>2 DEF RecordPast, ProcessHangup, callVars, noteVars
<1>3. ASSUME NEW t \in Threads, BillUnanswered(t)
      PROVE  RecordPast'
  BY <1>3 DEF RecordPast, BillUnanswered, callVars, noteVars
<1>4. ASSUME NEW t \in Threads, BillLock(t)
      PROVE  RecordPast'
  BY <1>4 DEF RecordPast, BillLock, callVars, noteVars
<1>5. ASSUME NEW t \in Threads, Charge(t)
      PROVE  RecordPast'
  <2>1. /\ ts[t] \in Nat /\ ts[t] <= time /\ answered # 0
        /\ waived' = waived /\ UNCHANGED <<time, answered>>
        /\ time \in Nat
    BY <1>5 DEF NibbleTypeOK, CallTypes, LockTypes, StampsPast, Charge, callVars
  <2>2. CASE data = NoData /\ data' = NoData
    BY <2>1, <2>2 DEF RecordPast
  <2>3. CASE data' = Billed(Record, ts[t])
    <3>1. data' # NoData /\ data'.lastts = ts[t] /\ data'.pausets = Record.pausets
      BY <2>1, <2>3, RecordHasType, BilledFields, RecordIsNotNoData
    <3>2. Record.pausets <= time
      BY <2>1, RecordHasType DEF RecordPast
    <3>3. QED
      BY <2>1, <3>1, <3>2 DEF RecordPast
  <2>4. QED
    BY <1>5, <2>2, <2>3 DEF Charge
<1>6. ASSUME NEW t \in Threads, CheckBalance(t)
      PROVE  RecordPast'
  <2>1. /\ data \in RecordType /\ time \in Nat
        /\ UNCHANGED <<time, answered, waived>>
    BY <1>6
    DEF NibbleTypeOK, CallTypes, LockTypes, CheckBalance, callVars, noteVars
  <2>2. data' = data \/ data' = [data EXCEPT !.pausets = IF @ = 0 THEN time ELSE @]
    BY <1>6 DEF CheckBalance
  <2>3. /\ data # NoData
        /\ data'.lastts = data.lastts /\ data'.pausets \in {data.pausets, time}
    BY <2>1, <2>2, RecordIsNotNoData DEF RecordType
  <2>4. data' # NoData
    BY <2>3, RecordStays
  <2>5. QED
    BY <2>1, <2>3, <2>4 DEF RecordPast
<1>7. ASSUME NEW t \in Threads, Pause(t)
      PROVE  RecordPast'
  <2>1. UNCHANGED <<time, answered, waived>>
    BY <1>7 DEF Pause, callVars
  <2>2. CASE data' = data
    BY <2>1, <2>2 DEF RecordPast
  <2>3. CASE data # NoData /\ data' = [data EXCEPT !.pausets = IF @ = 0 THEN ts[t] ELSE @]
    <3>1. data \in RecordType /\ ts[t] <= time
      BY <2>3 DEF NibbleTypeOK, StampsPast
    <3>2. data'.lastts = data.lastts /\ data'.pausets \in {data.pausets, ts[t]}
      BY <2>3, <3>1
    <3>3. data' # NoData
      BY <2>3, RecordStays
    <3>4. QED
      BY <2>1, <2>3, <3>1, <3>2, <3>3 DEF RecordPast
  <2>4. QED
    BY <1>7, <2>2, <2>3 DEF Pause
<1>8. ASSUME NEW t \in Threads, TestRecord(t)
      PROVE  RecordPast'
  BY <1>8 DEF RecordPast, TestRecord, callVars, noteVars
<1>9. ASSUME NEW t \in Threads, Resume(t)
      PROVE  RecordPast'
  <2>0. data # NoData
    BY <1>9 DEF NibbleTypeOK, LockTypes, Resume
  <2>1. /\ data \in RecordType /\ ts[t] \in Nat /\ ts[t] <= time
        /\ time \in Nat /\ answered \in Nat
    BY <1>9 DEF NibbleTypeOK, CallTypes, LockTypes, StampsPast, Resume
  <2>2. \A k \in data.pausets .. ts[t] - 1 : k < time
    BY <2>1 DEF RecordType
  <2>3. /\ data' # NoData
        /\ data'.lastts = data.lastts /\ data'.pausets = 0
    <3> DEFINE a == data.bill_adjustments + (ts[t] - data.pausets)
    <3>1. data' = [data EXCEPT !.bill_adjustments = a, !.pausets = 0] /\ data # NoData
      BY <1>9 DEF NibbleTypeOK, LockTypes, Resume
    <3> HIDE DEF a
    <3>2. QED
      BY <2>1, <3>1, RecordStays
  <2>4. /\ UNCHANGED <<time, answered>>
        /\ waived' = waived \cup data.pausets .. ts[t] - 1
    BY <1>9 DEF Resume, callVars
  <2>5. \A k \in waived' : k < time
    BY <2>2, <2>4 DEF RecordPast
  <2>6. QED
    BY <2>0, <2>1, <2>3, <2>4, <2>5 DEF RecordPast
<1>10. ASSUME NEW t \in Threads, Reset(t)
      PROVE  RecordPast'
  <2>0. data # NoData
    BY <1>10 DEF NibbleTypeOK, LockTypes, Reset
  <2>1. /\ data \in RecordType /\ ts[t] \in Nat /\ ts[t] <= time
        /\ time \in Nat /\ answered \in Nat
    BY <1>10 DEF NibbleTypeOK, CallTypes, LockTypes, StampsPast, Reset
  <2>2. \A k \in data.lastts .. ts[t] - 1 : k < time
    BY <2>1 DEF RecordType
  <2>3. /\ data' # NoData
        /\ data'.lastts = ts[t] /\ data'.pausets = data.pausets
    <3>1. data' = [data EXCEPT !.lastts = ts[t]] /\ data # NoData
      BY <1>10 DEF NibbleTypeOK, LockTypes, Reset
    <3>2. QED
      BY <2>1, <3>1, RecordStays
  <2>4. QED
    BY <1>10, <2>1, <2>2, <2>3, <2>0 DEF RecordPast, Reset, callVars
<1>11. ASSUME NEW t \in Threads, Check(t)
      PROVE  RecordPast'
  BY <1>11 DEF RecordPast, Check, callVars, noteVars
<1>12. ASSUME NEW t \in Threads, Adjust(t)
      PROVE  RecordPast'
  BY <1>12 DEF RecordPast, Adjust, callVars, noteVars
<1>13. CASE Answer
  BY <1>13 DEF NibbleTypeOK, CallTypes, RecordPast, Answer, noteVars
<1>14. CASE Hangup
  BY <1>14 DEF RecordPast, Hangup, noteVars
<1>15. CASE TimePasses
  <2>1. /\ time \in Nat /\ answered \in Nat /\ \A k \in waived : k \in Nat
        /\ data # NoData => data.lastts \in Nat /\ data.pausets \in Nat
    BY DEF NibbleTypeOK, CallTypes, RecordType
  <2>2. time' = time + 1 /\ UNCHANGED <<answered, waived, data>>
    BY <1>15 DEF TimePasses, noteVars
  <2>3. QED
    BY <2>1, <2>2 DEF RecordPast
<1>16. CASE UNCHANGED nibbleVars
  BY <1>16 DEF RecordPast, nibbleVars, callVars, noteVars
<1>17. QED
  BY <1>1, <1>2, <1>3, <1>4, <1>5, <1>6, <1>7, <1>8, <1>9, <1>10, <1>11, <1>12,
     <1>13, <1>14, <1>15, <1>16
  DEF NibbleNext, Request

-----------------------------------------------------------------------------
(* The ledger: what each action does to it                                  *)

(* Actions that leave record and history alone.                             *)
LEMMA LedgerKept ==
  ASSUME Ledger, UNCHANGED <<answered, data, waived, plain>>
  PROVE  Ledger'
BY DEF Ledger, InOrder, Exact

(* A pause at n, of a call that runs, is newer than all that was recorded.  *)
LEMMA PausedAt ==
  ASSUME data \in RecordType, InOrder, Exact, NEW n \in Nat,
         data' = [data EXCEPT !.pausets = IF @ = 0 THEN n ELSE @],
         data.pausets = 0 => data.lastts <= n /\ \A k \in waived : k < n,
         UNCHANGED <<answered, waived>>
  PROVE  InOrder' /\ Exact'
<1>1. /\ data'.lastts = data.lastts /\ data'.total = data.total
      /\ data'.bill_adjustments = data.bill_adjustments
      /\ data'.pausets = IF data.pausets = 0 THEN n ELSE data.pausets
  BY DEF RecordType
<1>2. InOrder'
  BY <1>1 DEF InOrder
<1>3. Exact'
  BY <1>1 DEF Exact
<1>4. QED
  BY <1>2, <1>3

(* Every action keeps the ledger exact.                                     *)
LEMMA LedgerStep ==
  IInv /\ [NibbleNext]_nibbleVars => Ledger'
<1> SUFFICES ASSUME IInv, [NibbleNext]_nibbleVars
             PROVE  Ledger'
  OBVIOUS
<1>1. ASSUME NEW t \in Threads, NEW op \in Operations, Begin(t, op)
      PROVE  Ledger'
  BY <1>1, LedgerKept DEF IInv, Begin, callVars, noteVars
<1>2. CASE ProcessHangup
  BY <1>2, LedgerKept DEF IInv, ProcessHangup, callVars, noteVars
<1>3. ASSUME NEW t \in Threads, BillUnanswered(t)
      PROVE  Ledger'
  BY <1>3, LedgerKept DEF IInv, BillUnanswered, callVars, noteVars
<1>4. ASSUME NEW t \in Threads, BillLock(t)
      PROVE  Ledger'
  BY <1>4, LedgerKept DEF IInv, BillLock, callVars, noteVars
<1>5. ASSUME NEW t \in Threads, Charge(t)
      PROVE  Ledger'
  <2> SUFFICES ASSUME plain', data' # NoData
               PROVE  InOrder' /\ Exact'
    BY DEF Ledger
  <2> DEFINE n == ts[t]
  <2>1. /\ n \in Nat /\ answered \in Nat /\ answered <= n
        /\ data' = Billed(Record, n) /\ plain /\ (data = NoData \/ ~Stale(t))
        /\ waived' = waived /\ answered' = answered /\ pc[t] = "charge"
    BY <1>5 DEF IInv, NibbleTypeOK, CallTypes, LockTypes, Charge, callVars
  <2>2. Record \in RecordType
    BY RecordHasType DEF IInv
  <2>3. CASE data = NoData
    <3>1. /\ Record.lastts = answered /\ Record.total = 0
          /\ Record.pausets = 0 /\ Record.bill_adjustments = 0 /\ waived = {}
      BY <2>3, RecordHasType DEF IInv, RecordPast
    <3>2. /\ data'.lastts = n /\ data'.pausets = 0
          /\ data'.total = n - answered /\ data'.bill_adjustments = 0
      BY <2>1, <2>2, <3>1, FirstBill
    <3>3. Cardinality(answered .. n - 1) = n - answered
      BY <2>1, IntervalSize
    <3>4. /\ (answered .. n - 1) \ {} = answered .. n - 1
          /\ Cardinality({k \in {} : k >= n}) = 0
      BY FS_EmptySet
    <3>5. QED
      BY <2>1, <3>1, <3>2, <3>3, <3>4 DEF InOrder, Exact
  <2>4. CASE data # NoData
    <3>1. /\ Record = data /\ data \in RecordType /\ waived \in SUBSET Nat
          /\ IsFiniteSet(waived)
          /\ data.lastts \in Nat /\ data.total \in Int /\ data.bill_adjustments \in Int
      BY <2>4, RecordHasType DEF IInv, NibbleTypeOK, RecordType
    <3>2. data.pausets = 0 /\ InOrder /\ Exact
      BY <2>1, <2>4 DEF IInv, BillerSeesRunning, Ledger
    <3>3. data.lastts <= n /\ answered <= data.lastts
      BY <2>1, <2>4, <3>1, <3>2 DEF Stale, InOrder
    <3>4. \A k \in waived : k < n
      BY <2>1, <2>4, <3>1 DEF Stale
    <3>5. /\ data'.lastts = n /\ data'.pausets = 0
          /\ data'.total = data.total + (n - data.lastts) - data.bill_adjustments
          /\ data'.bill_adjustments = 0
      BY <2>1, <3>1, <3>2, <3>3, BilledFields
    <3>6. /\ Cardinality((answered .. n - 1) \ waived)
                = data.total + (n - data.lastts) - data.bill_adjustments
          /\ Cardinality({k \in waived : k >= n}) = 0
      <4>1. /\ Cardinality((answered .. n - 1) \ waived)
                  = Cardinality((answered .. data.lastts - 1) \ waived)
                      + (n - data.lastts)
                      - Cardinality({k \in waived : k >= data.lastts})
            /\ Cardinality({k \in waived : k >= n}) = 0
        <5>1. /\ n \in Nat /\ answered \in Nat /\ data.lastts \in Nat
              /\ answered <= data.lastts /\ data.lastts <= n
          BY <2>1, <3>1, <3>3
        <5>2. waived \in SUBSET Nat /\ IsFiniteSet(waived) /\ \A k \in waived : k < n
          BY <3>1, <3>4
        <5>3. ASSUME NEW l \in Nat, NEW m \in Nat, answered <= l, l <= m,
                     \A k \in waived : k < m
              PROVE  /\ Cardinality((answered .. m - 1) \ waived)
                           = Cardinality((answered .. l - 1) \ waived) + (m - l)
                               - Cardinality({k \in waived : k >= l})
                     /\ Cardinality({k \in waived : k >= m}) = 0
          <6>1. answered \in Nat /\ waived \in SUBSET Nat /\ IsFiniteSet(waived)
            BY <5>1, <5>2
          <6>2. Cardinality((answered .. m - 1) \ waived)
                  = Cardinality((answered .. l - 1) \ waived) + (m - l)
                      - Cardinality({k \in waived : k >= l})
            BY <5>3, <6>1, BillCount
          <6>3. Cardinality({k \in waived : k >= m}) = 0
            BY <5>3, <6>1, NothingLater
          <6>4. QED
            BY <6>2, <6>3
        <5>4. QED
          BY <5>1, <5>2, <5>3
      <4>2. QED
        BY <3>2, <4>1 DEF Exact
    <3>7. QED
      BY <2>1, <3>3, <3>5, <3>6 DEF InOrder, Exact
  <2>5. QED
    BY <2>3, <2>4
<1>6. ASSUME NEW t \in Threads, CheckBalance(t)
      PROVE  Ledger'
  <2> SUFFICES ASSUME plain', data' # NoData
               PROVE  InOrder' /\ Exact'
    BY DEF Ledger
  <2>1. /\ data \in RecordType /\ ts[t] \in Nat /\ ts[t] <= time /\ time \in Nat \ {0}
        /\ answered \in Nat /\ waived \in SUBSET Nat /\ IsFiniteSet(waived)
        /\ \A k \in waived : k \in Nat /\ k < time
        /\ data.lastts \in Nat /\ data.pausets \in Nat /\ data.total \in Int
        /\ data.bill_adjustments \in Int
        /\ data.lastts <= time
    BY <1>6
    DEF IInv, NibbleTypeOK, CallTypes, LockTypes, StampsPast, RecordPast,
        RecordType, CheckBalance
  <2>2. UNCHANGED <<answered, waived, plain>>
    BY <1>6 DEF CheckBalance, callVars, noteVars
  <2>3. data # NoData
    BY <2>1, RecordIsNotNoData
  <2>4. CASE data' = data
    BY <2>2, <2>3, <2>4 DEF IInv, Ledger, InOrder, Exact
  <2>5. CASE data' = [data EXCEPT !.pausets = IF @ = 0 THEN time ELSE @]
    BY <2>1, <2>2, <2>3, <2>5, PausedAt DEF IInv, Ledger
  <2>6. QED
    BY <1>6, <2>4, <2>5 DEF CheckBalance
<1>7. ASSUME NEW t \in Threads, Pause(t)
      PROVE  Ledger'
  <2>1. CASE data = NoData
    BY <1>7, <2>1 DEF Pause, Ledger
  <2>2. CASE data # NoData
    <3> SUFFICES ASSUME plain', data' # NoData
                 PROVE  InOrder' /\ Exact'
      BY DEF Ledger
    <3>1. /\ data \in RecordType /\ ts[t] \in Nat /\ waived \in SUBSET Nat
          /\ data.lastts \in Nat
      BY <2>2 DEF IInv, NibbleTypeOK, LockTypes, RecordType
    <3>2. /\ data' = [data EXCEPT !.pausets = IF @ = 0 THEN ts[t] ELSE @]
          /\ UNCHANGED <<answered, waived>>
          /\ plain /\ (data.pausets = 0 => ~Stale(t))
      BY <1>7, <2>2 DEF Pause, callVars
    <3>3. data.pausets = 0 => data.lastts <= ts[t] /\ \A k \in waived : k < ts[t]
      BY <3>1, <3>2 DEF Stale
    <3>4. QED
      BY <2>2, <3>1, <3>2, <3>3, PausedAt DEF IInv, Ledger
  <2>3. QED
    BY <2>1, <2>2
<1>8. ASSUME NEW t \in Threads, TestRecord(t)
      PROVE  Ledger'
  BY <1>8, LedgerKept DEF IInv, TestRecord, callVars, noteVars
<1>9. ASSUME NEW t \in Threads, Resume(t)
      PROVE  Ledger'
  <2> SUFFICES ASSUME plain', data' # NoData
               PROVE  InOrder' /\ Exact'
    BY DEF Ledger
  <2>1. /\ data \in RecordType /\ ts[t] \in Nat /\ ts[t] <= time /\ time \in Nat \ {0}
        /\ answered \in Nat /\ waived \in SUBSET Nat /\ IsFiniteSet(waived)
        /\ \A k \in waived : k \in Nat /\ k < time
        /\ data.lastts \in Nat /\ data.pausets \in Nat /\ data.total \in Int
        /\ data.bill_adjustments \in Int
        /\ data.lastts <= time
    BY <1>9
    DEF IInv, NibbleTypeOK, CallTypes, LockTypes, StampsPast, RecordPast,
        RecordType, Resume
  <2> DEFINE a == data.bill_adjustments + (ts[t] - data.pausets)
             n == ts[t]
             p == data.pausets
             l == data.lastts
  <2>2. /\ data' = [data EXCEPT !.bill_adjustments = a, !.pausets = 0]
        /\ waived' = waived \cup p .. n - 1 /\ answered' = answered
        /\ plain /\ p # 0 /\ ~Stale(t)
    BY <1>9 DEF Resume, callVars
  <2>3. a \in Int
    BY <2>1
  <2>4. /\ data'.lastts = l /\ data'.total = data.total
        /\ data'.pausets = 0 /\ data'.bill_adjustments = a
    <3> HIDE DEF a
    <3>1. QED
      BY <2>1, <2>2, <2>3
  <2>5. InOrder /\ Exact
    BY <2>1, <2>2, RecordIsNotNoData DEF IInv, Ledger
  <2>6. p <= n
    BY <2>1, <2>2 DEF Stale
  <2>7. l <= p /\ answered <= l /\ \A k \in waived : k < p
    BY <2>2, <2>5 DEF InOrder
  <2>8. Cardinality({k \in waived \cup p .. n - 1 : k >= l})
          = Cardinality({k \in waived : k >= l}) + (n - p)
    <3> HIDE DEF l, p, n
    <3>1. l \in Nat /\ p \in Nat /\ n \in Nat
      BY <2>1 DEF l, p, n
    <3>2. waived \in SUBSET Nat /\ IsFiniteSet(waived)
      BY <2>1
    <3>3. QED
      BY <2>6, <2>7, <3>1, <3>2, PauseCount
  <2>9. (answered .. l - 1) \ (waived \cup p .. n - 1) = (answered .. l - 1) \ waived
    <3>1. \A k \in answered .. l - 1 : k \notin p .. n - 1
      BY <2>1, <2>7
    <3>2. QED
      BY <3>1
  <2>10. InOrder'
    BY <2>2, <2>4, <2>7 DEF InOrder
  <2>11. Exact'
    <3>1. data'.total = Cardinality((answered .. l - 1) \ waived')
      BY <2>2, <2>4, <2>5, <2>9 DEF Exact
    <3>2. data'.bill_adjustments = Cardinality({k \in waived' : k >= l})
      BY <2>2, <2>4, <2>5, <2>8 DEF Exact
    <3>3. QED
      BY <2>2, <2>4, <3>1, <3>2 DEF Exact
  <2>12. QED
    BY <2>10, <2>11
<1>10. ASSUME NEW t \in Threads, Reset(t)
      PROVE  Ledger'
  <2> SUFFICES ASSUME plain', data' # NoData
               PROVE  InOrder' /\ Exact'
    BY DEF Ledger
  <2>1. /\ data \in RecordType /\ ts[t] \in Nat /\ ts[t] <= time /\ time \in Nat \ {0}
        /\ answered \in Nat /\ waived \in SUBSET Nat /\ IsFiniteSet(waived)
        /\ \A k \in waived : k \in Nat /\ k < time
        /\ data.lastts \in Nat /\ data.pausets \in Nat /\ data.total \in Int
        /\ data.bill_adjustments \in Int
        /\ data.lastts <= time
    BY <1>10
    DEF IInv, NibbleTypeOK, CallTypes, LockTypes, StampsPast, RecordPast,
        RecordType, Reset
  <2> DEFINE n == ts[t]
             l == data.lastts
  <2>2. /\ data' = [data EXCEPT !.lastts = n]
        /\ waived' = waived \cup l .. n - 1 /\ answered' = answered
        /\ plain /\ ~Stale(t) /\ data.pausets = 0 /\ data.bill_adjustments = 0
    BY <1>10 DEF Reset, callVars
  <2>3. /\ data'.lastts = n /\ data'.total = data.total
        /\ data'.pausets = 0 /\ data'.bill_adjustments = 0
    BY <2>1, <2>2
  <2>4. InOrder /\ Exact
    BY <2>1, <2>2, RecordIsNotNoData DEF IInv, Ledger
  <2>5. l <= n /\ answered <= l
    BY <2>1, <2>2, <2>4 DEF Stale, InOrder
  <2>6. Cardinality({k \in waived : k >= l}) = 0
    BY <2>2, <2>4 DEF Exact
  <2>7. /\ (answered .. n - 1) \ (waived \cup l .. n - 1) = (answered .. l - 1) \ waived
        /\ Cardinality({k \in waived \cup l .. n - 1 : k >= n}) = 0
    <3> HIDE DEF l, n
    <3>1. l \in Nat /\ n \in Nat
      BY <2>1 DEF l, n
    <3>2. QED
      BY <2>1, <2>5, <2>6, <3>1, ResetCount
  <2>8. InOrder'
    BY <2>1, <2>2, <2>3, <2>5 DEF InOrder
  <2>9. Exact'
    BY <2>2, <2>3, <2>4, <2>7 DEF Exact
  <2>10. QED
    BY <2>8, <2>9
<1>11. ASSUME NEW t \in Threads, Check(t)
      PROVE  Ledger'
  BY <1>11, LedgerKept DEF IInv, Check, callVars, noteVars
<1>12. ASSUME NEW t \in Threads, Adjust(t)
      PROVE  Ledger'
  BY <1>12, LedgerKept DEF IInv, Adjust, callVars, noteVars
<1>13. CASE Answer
  <2>1. data' = NoData
    BY <1>13 DEF IInv, RecordPast, Answer
  <2>2. QED
    BY <2>1 DEF Ledger
<1>14. CASE Hangup
  BY <1>14, LedgerKept DEF IInv, Hangup, noteVars
<1>15. CASE TimePasses
  BY <1>15, LedgerKept DEF IInv, TimePasses, noteVars
<1>16. CASE UNCHANGED nibbleVars
  BY <1>16 DEF IInv, Ledger, InOrder, Exact, nibbleVars, callVars, noteVars
<1>17. QED
  BY <1>1, <1>2, <1>3, <1>4, <1>5, <1>6, <1>7, <1>8, <1>9, <1>10, <1>11, <1>12,
     <1>13, <1>14, <1>15, <1>16
  DEF NibbleNext, Request

(* Actions that leave record, account and history alone.                    *)
LEMMA AccountKept ==
  ASSUME Account, UNCHANGED <<answered, data, moneyVars, settled, plain>>
  PROVE  Account'
BY DEF Account, Billing, moneyVars

(* A bill of x adds x to what was taken or missed.                          *)
LEMMA BillingAdds ==
  ASSUME NibbleTypeOK, NEW x \in Int, Bill(x)
  PROVE  Billing' = Billing + x
<1>1. cash \in Int /\ given \in Int /\ missed \in Int /\ Credit \in Int
  BY NibbleAssumption DEF NibbleTypeOK, CallTypes
<1>2. PICK k \in Int : cash' = k
  BY <1>1 DEF Bill, BillEvent
<1>3. given' = given /\ missed' = missed + x - (cash - k)
  BY <1>2 DEF Bill
<1>4. Credit + given - k + (missed + x - (cash - k)) = Credit + given - cash + missed + x
  BY <1>1
<1>5. QED
  BY <1>2, <1>3, <1>4 DEF Billing

(* A step of the record that leaves its bill alone.                         *)
LEMMA AccountOfRecord ==
  ASSUME Account, data # NoData, data' # NoData, plain' => plain,
         data'.total = data.total, data'.lastts = data.lastts,
         UNCHANGED <<moneyVars, settled>>
  PROVE  Account'
BY DEF Account, Billing, moneyVars

(* Every action keeps the account in step with the record.                  *)
LEMMA AccountStep ==
  IInv /\ [NibbleNext]_nibbleVars => Account'
<1> SUFFICES ASSUME IInv, [NibbleNext]_nibbleVars
             PROVE  Account'
  OBVIOUS
<1>0. ASSUME data # NoData
      PROVE  data \in RecordType /\ data' \in RecordType /\ data' # NoData
  BY <1>0, DataTypesStep, RecordIsNotNoData DEF IInv, NibbleTypeOK
<1>1. ASSUME NEW t \in Threads, NEW op \in Operations, Begin(t, op)
      PROVE  Account'
  BY <1>1, AccountKept DEF IInv, Begin, callVars, noteVars
<1>2. CASE ProcessHangup
  BY <1>2, AccountKept DEF IInv, ProcessHangup, callVars, noteVars
<1>3. ASSUME NEW t \in Threads, BillUnanswered(t)
      PROVE  Account'
  BY <1>3, AccountKept DEF IInv, BillUnanswered, callVars, noteVars
<1>4. ASSUME NEW t \in Threads, BillLock(t)
      PROVE  Account'
  BY <1>4, AccountKept DEF IInv, BillLock, callVars, noteVars
<1>5. ASSUME NEW t \in Threads, Charge(t)
      PROVE  Account'
  <2> SUFFICES ASSUME plain'
               PROVE  Account'
    BY DEF Account
  <2> DEFINE n == ts[t]
             b == Billed(Record, n)
  <2>1. /\ n \in Nat /\ answered \in Nat /\ answered # 0 /\ answered <= n
        /\ plain /\ (data = NoData => settled = 0)
        /\ settled' = n /\ answered' = answered
        /\ data' = IF chan = "hangup" /\ data = NoData THEN NoData ELSE b
        /\ Bill(b.total - Record.total)
    BY <1>5
    DEF IInv, NibbleTypeOK, CallTypes, LockTypes, StampsPast, Charge, callVars
  <2>2. /\ Record \in RecordType /\ b \in RecordType /\ b # NoData
        /\ b.total \in Int /\ Record.total \in Int /\ b.lastts = n
    <3>1. NibbleTypeOK
      BY DEF IInv
    <3>2. Record \in RecordType
      BY <3>1, RecordHasType
    <3>3. b \in RecordType /\ b.lastts = n
      BY <2>1, <3>2, BilledFields
    <3>4. QED
      BY <3>2, <3>3, RecordIsNotNoData DEF RecordType
  <2>3. Billing' = Billing + (b.total - Record.total)
    <3> HIDE DEF b
    <3>1. b.total - Record.total \in Int
      BY <2>2
    <3>2. QED
      BY <2>1, <3>1, BillingAdds DEF IInv
  <2>4. CASE data = NoData
    <3>1. /\ Record.total = 0 /\ Record.lastts = answered
          /\ Record.pausets = 0 /\ Record.bill_adjustments = 0
      BY <2>4, RecordHasType DEF IInv
    <3>2. b.total = n - answered
      BY <2>1, <2>2, <3>1, FirstBill
    <3>3. Billing = 0
      BY <2>1, <2>4 DEF IInv, Account
    <3>4. Billing' = n - answered
      BY <2>1, <2>3, <3>1, <3>2, <3>3
    <3>5. CASE data' = NoData
      BY <2>1, <3>4, <3>5 DEF Account
    <3>6. CASE data' = b
      <4>1. data' # NoData /\ settled' = data'.lastts /\ Billing' = data'.total
        BY <2>1, <2>2, <3>2, <3>4, <3>6
      <4>2. QED
        BY <4>1 DEF Account
    <3>7. QED
      BY <2>1, <3>5, <3>6
  <2>5. CASE data # NoData
    <3>1. Record = data /\ data' = b
      BY <2>1, <2>5, RecordHasType DEF IInv
    <3>2. Billing = data.total
      BY <2>1, <2>5 DEF IInv, Account
    <3>3. Billing' = data'.total
      <4> HIDE DEF b
      <4>1. QED
        BY <2>2, <2>3, <3>1, <3>2
    <3>4. data' # NoData /\ settled' = data'.lastts
      BY <2>1, <2>2, <3>1
    <3>5. QED
      BY <3>3, <3>4 DEF Account
  <2>6. QED
    BY <2>4, <2>5
<1>6. ASSUME NEW t \in Threads, CheckBalance(t)
      PROVE  Account'
  <2>1. data # NoData
    BY <1>6 DEF IInv, NibbleTypeOK, LockTypes, CheckBalance
  <2>2. \/ data' = data
        \/ data' = [data EXCEPT !.pausets = IF @ = 0 THEN time ELSE @]
    BY <1>6 DEF CheckBalance
  <2>3. data'.total = data.total /\ data'.lastts = data.lastts
    BY <1>0, <2>1, <2>2 DEF RecordType
  <2>4. UNCHANGED <<moneyVars, settled, plain>>
    BY <1>6 DEF CheckBalance, noteVars
  <2>5. QED
    BY <1>0, <2>1, <2>3, <2>4, AccountOfRecord DEF IInv
<1>7. ASSUME NEW t \in Threads, Pause(t)
      PROVE  Account'
  <2>1. UNCHANGED <<answered, moneyVars, settled>>
    BY <1>7 DEF Pause, callVars
  <2>2. CASE data = NoData
    <3>1. UNCHANGED <<data, plain>>
      BY <1>7, <2>2 DEF Pause
    <3>2. QED
      BY <2>1, <3>1, AccountKept DEF IInv
  <2>3. CASE data # NoData
    <3>1. data' = [data EXCEPT !.pausets = IF @ = 0 THEN ts[t] ELSE @]
      BY <1>7, <2>3 DEF Pause
    <3>2. plain' => plain
      BY <1>7, <2>3 DEF Pause
    <3>3. data'.total = data.total /\ data'.lastts = data.lastts
      BY <1>0, <2>3, <3>1 DEF RecordType
    <3>4. QED
      BY <1>0, <2>1, <2>3, <3>2, <3>3, AccountOfRecord DEF IInv
  <2>4. QED
    BY <2>2, <2>3
<1>8. ASSUME NEW t \in Threads, TestRecord(t)
      PROVE  Account'
  BY <1>8, AccountKept DEF IInv, TestRecord, callVars, noteVars
<1>9. ASSUME NEW t \in Threads, Resume(t)
      PROVE  Account'
  <2>1. data # NoData
    BY <1>9 DEF IInv, NibbleTypeOK, LockTypes, Resume
  <2> DEFINE a == data.bill_adjustments + (ts[t] - data.pausets)
  <2>2. /\ data' = [data EXCEPT !.bill_adjustments = a, !.pausets = 0]
        /\ UNCHANGED <<moneyVars, settled>> /\ (plain' => plain)
    BY <1>9 DEF Resume
  <2> HIDE DEF a
  <2>3. data'.total = data.total /\ data'.lastts = data.lastts
    BY <1>0, <2>1, <2>2 DEF RecordType
  <2>4. QED
    BY <1>0, <2>1, <2>2, <2>3, AccountOfRecord DEF IInv
<1>10. ASSUME NEW t \in Threads, Reset(t)
      PROVE  Account'
  <2>1. data # NoData
    BY <1>10 DEF IInv, NibbleTypeOK, LockTypes, Reset
  <2>2. /\ data' = [data EXCEPT !.lastts = ts[t]] /\ settled' = ts[t]
        /\ UNCHANGED moneyVars /\ (plain' => plain)
    BY <1>10 DEF Reset
  <2>3. data'.total = data.total /\ data'.lastts = ts[t]
    BY <1>0, <2>1, <2>2 DEF RecordType
  <2>4. QED
    BY <1>0, <2>1, <2>2, <2>3 DEF IInv, Account, Billing, moneyVars
<1>11. ASSUME NEW t \in Threads, Check(t)
      PROVE  Account'
  BY <1>11, AccountKept DEF IInv, Check, callVars, noteVars
<1>12. ASSUME NEW t \in Threads, Adjust(t)
      PROVE  Account'
  <2>1. /\ given' = given + (cash' - cash)
        /\ UNCHANGED <<answered, data, missed, settled, plain>>
    BY <1>12 DEF Adjust, callVars, noteVars
  <2>2. /\ cash \in Int /\ given \in Int /\ missed \in Int /\ Credit \in Int
        /\ cash' \in Int
    BY CallTypesStep, NibbleAssumption DEF IInv, NibbleTypeOK, CallTypes
  <2>3. Billing' = Billing
    <3>1. PICK k \in Int : cash' = k
      BY <2>2
    <3>2. Credit + (given + (k - cash)) - k + missed = Credit + given - cash + missed
      BY <2>2
    <3>3. QED
      BY <2>1, <3>1, <3>2 DEF Billing
  <2>4. QED
    BY <2>1, <2>3 DEF IInv, Account
<1>13. CASE Answer
  <2>1. /\ data = NoData /\ data' = NoData /\ answered = 0 /\ plain' = plain
        /\ UNCHANGED <<moneyVars, settled>>
    BY <1>13 DEF IInv, RecordPast, Answer, noteVars
  <2>2. QED
    BY <2>1 DEF IInv, Account, Billing, moneyVars
<1>14. CASE Hangup
  BY <1>14, AccountKept DEF IInv, Hangup, noteVars
<1>15. CASE TimePasses
  BY <1>15, AccountKept DEF IInv, TimePasses, noteVars
<1>16. CASE UNCHANGED nibbleVars
  BY <1>16, AccountKept DEF IInv, nibbleVars, callVars, noteVars
<1>17. QED
  BY <1>1, <1>2, <1>3, <1>4, <1>5, <1>6, <1>7, <1>8, <1>9, <1>10, <1>11, <1>12,
     <1>13, <1>14, <1>15, <1>16
  DEF NibbleNext, Request

(* The total of a paused call does not move.                                *)
LEMMA PausedStep ==
  IInv /\ data # NoData /\ data.pausets # 0 /\ [NibbleNext]_nibbleVars => data'.total = data.total
<1> SUFFICES ASSUME IInv, data # NoData, data.pausets # 0, [NibbleNext]_nibbleVars
             PROVE  data'.total = data.total
  OBVIOUS
<1>1. ASSUME NEW t \in Threads, NEW op \in Operations, Begin(t, op)
      PROVE  data'.total = data.total
  BY <1>1 DEF Begin
<1>2. CASE ProcessHangup
  BY <1>2 DEF ProcessHangup
<1>3. ASSUME NEW t \in Threads, BillUnanswered(t)
      PROVE  data'.total = data.total
  BY <1>3 DEF BillUnanswered
<1>4. ASSUME NEW t \in Threads, BillLock(t)
      PROVE  data'.total = data.total
  BY <1>4 DEF BillLock
<1>5. ASSUME NEW t \in Threads, Charge(t)
      PROVE  data'.total = data.total
  BY <1>5 DEF IInv, BillerSeesRunning, Charge
<1>6. ASSUME NEW t \in Threads, CheckBalance(t)
      PROVE  data'.total = data.total
  BY <1>6 DEF IInv, NibbleTypeOK, RecordType, CheckBalance
<1>7. ASSUME NEW t \in Threads, Pause(t)
      PROVE  data'.total = data.total
  BY <1>7 DEF IInv, NibbleTypeOK, RecordType, Pause
<1>8. ASSUME NEW t \in Threads, TestRecord(t)
      PROVE  data'.total = data.total
  BY <1>8 DEF TestRecord
<1>9. ASSUME NEW t \in Threads, Resume(t)
      PROVE  data'.total = data.total
  <2>1. data' = [data EXCEPT !.bill_adjustments = @ + (ts[t] - data.pausets),
                            !.pausets = 0]
    BY <1>9 DEF Resume
  <2> DEFINE a == data.bill_adjustments + (ts[t] - data.pausets)
  <2>2. data' = [data EXCEPT !.bill_adjustments = a, !.pausets = 0]
    BY <2>1
  <2> HIDE DEF a
  <2>3. QED
    BY <2>2
<1>10. ASSUME NEW t \in Threads, Reset(t)
      PROVE  data'.total = data.total
  BY <1>10 DEF IInv, NibbleTypeOK, RecordType, Reset
<1>11. ASSUME NEW t \in Threads, Check(t)
      PROVE  data'.total = data.total
  BY <1>11 DEF Check
<1>12. ASSUME NEW t \in Threads, Adjust(t)
      PROVE  data'.total = data.total
  BY <1>12 DEF Adjust
<1>13. CASE Answer
  BY <1>13 DEF Answer
<1>14. CASE Hangup
  BY <1>14 DEF Hangup
<1>15. CASE TimePasses
  BY <1>15 DEF TimePasses
<1>16. CASE UNCHANGED nibbleVars
  BY <1>16 DEF nibbleVars
<1>17. QED
  BY <1>1, <1>2, <1>3, <1>4, <1>5, <1>6, <1>7, <1>8, <1>9, <1>10, <1>11, <1>12,
     <1>13, <1>14, <1>15, <1>16
  DEF NibbleNext, Request

(* A transfer is made of a running call, and pauses it.                     *)
LEMMA TransferStep ==
  IInv /\ transfers' # transfers /\ [NibbleNext]_nibbleVars => (data.pausets = 0 /\ data'.pausets # 0)
<1> SUFFICES ASSUME IInv, transfers' # transfers, [NibbleNext]_nibbleVars
             PROVE  (data.pausets = 0 /\ data'.pausets # 0)
  OBVIOUS
<1>1. ASSUME NEW t \in Threads, NEW op \in Operations, Begin(t, op)
      PROVE  (data.pausets = 0 /\ data'.pausets # 0)
  BY <1>1 DEF Begin
<1>2. CASE ProcessHangup
  BY <1>2 DEF ProcessHangup
<1>3. ASSUME NEW t \in Threads, BillUnanswered(t)
      PROVE  (data.pausets = 0 /\ data'.pausets # 0)
  BY <1>3 DEF BillUnanswered
<1>4. ASSUME NEW t \in Threads, BillLock(t)
      PROVE  (data.pausets = 0 /\ data'.pausets # 0)
  BY <1>4 DEF BillLock
<1>5. ASSUME NEW t \in Threads, Charge(t)
      PROVE  (data.pausets = 0 /\ data'.pausets # 0)
  BY <1>5 DEF Charge
<1>6. ASSUME NEW t \in Threads, CheckBalance(t)
      PROVE  (data.pausets = 0 /\ data'.pausets # 0)
  <2>1. /\ data \in RecordType /\ time # 0
        /\ data' = [data EXCEPT !.pausets = IF @ = 0 THEN time ELSE @]
    BY <1>6 DEF IInv, NibbleTypeOK, CallTypes, LockTypes, CheckBalance
  <2>2. data.pausets = 0
    BY <1>6, <2>1, RecordIsNotNoData DEF IInv, BillerSeesRunning, CheckBalance
  <2>3. data'.pausets = time
    BY <2>1, <2>2
  <2>4. QED
    BY <2>1, <2>2, <2>3
<1>7. ASSUME NEW t \in Threads, Pause(t)
      PROVE  (data.pausets = 0 /\ data'.pausets # 0)
  BY <1>7 DEF Pause
<1>8. ASSUME NEW t \in Threads, TestRecord(t)
      PROVE  (data.pausets = 0 /\ data'.pausets # 0)
  BY <1>8 DEF TestRecord
<1>9. ASSUME NEW t \in Threads, Resume(t)
      PROVE  (data.pausets = 0 /\ data'.pausets # 0)
  BY <1>9 DEF Resume
<1>10. ASSUME NEW t \in Threads, Reset(t)
      PROVE  (data.pausets = 0 /\ data'.pausets # 0)
  BY <1>10 DEF Reset
<1>11. ASSUME NEW t \in Threads, Check(t)
      PROVE  (data.pausets = 0 /\ data'.pausets # 0)
  BY <1>11 DEF Check
<1>12. ASSUME NEW t \in Threads, Adjust(t)
      PROVE  (data.pausets = 0 /\ data'.pausets # 0)
  BY <1>12 DEF Adjust
<1>13. CASE Answer
  BY <1>13 DEF Answer
<1>14. CASE Hangup
  BY <1>14 DEF Hangup
<1>15. CASE TimePasses
  BY <1>15 DEF TimePasses
<1>16. CASE UNCHANGED nibbleVars
  BY <1>16 DEF nibbleVars
<1>17. QED
  BY <1>1, <1>2, <1>3, <1>4, <1>5, <1>6, <1>7, <1>8, <1>9, <1>10, <1>11, <1>12,
     <1>13, <1>14, <1>15, <1>16
  DEF NibbleNext, Request

-----------------------------------------------------------------------------
(* The theorems                                                             *)

(* The invariant of all the theorems.                                       *)
LEMMA IInvHolds == NibbleSpec => []IInv
<1>1. NibbleInit => IInv
  <2> SUFFICES ASSUME NibbleInit PROVE IInv
    OBVIOUS
  <2>1. NibbleTypeOK
    BY NibbleAssumption
    DEF NibbleInit, NibbleTypeOK, CallTypes, LockTypes, Places, Operations
  <2>2. BillerSeesRunning /\ Ledger /\ Account
    BY NibbleAssumption DEF NibbleInit, BillerSeesRunning, Ledger, Account, Billing
  <2>3. StampsPast /\ RecordPast
    BY DEF NibbleInit, StampsPast, RecordPast
  <2>4. IsFiniteSet(waived)
    BY FS_EmptySet DEF NibbleInit
  <2>5. QED
    BY <2>1, <2>2, <2>3, <2>4 DEF IInv
<1>2. IInv /\ [NibbleNext]_nibbleVars => IInv'
  <2> SUFFICES ASSUME IInv, [NibbleNext]_nibbleVars PROVE IInv'
    OBVIOUS
  <2>1. NibbleTypeOK'
    BY CallTypesStep, LockTypesStep, DataTypesStep
    DEF IInv, NibbleTypeOK, DataTypes
  <2>2. BillerSeesRunning'
    BY RunningStep DEF IInv
  <2>3. StampsPast' /\ RecordPast'
    BY StampsStep, PastStep DEF IInv
  <2>4. IsFiniteSet(waived')
    BY FiniteStep DEF IInv
  <2>5. Ledger' /\ Account'
    BY LedgerStep, AccountStep
  <2>6. QED
    BY <2>1, <2>2, <2>3, <2>4, <2>5 DEF IInv
<1>3. QED
  BY <1>1, <1>2, PTL DEF NibbleSpec

(* The record, the lock and the requests stay what they are for; in         *)
(* particular who charges holds globals.mutex, and the record a request     *)
(* found before it took the lock is still there when it has it.             *)
THEOREM NibbleTypeCorrect == NibbleSpec => []NibbleTypeOK
<1>1. IInv => NibbleTypeOK
  BY DEF IInv
<1>2. QED
  BY <1>1, IInvHolds, PTL

(* While the record says paused nothing is charged, whatever the threads do *)
(* between do_billing's test of pausets and its charge.                     *)
THEOREM PausedIsNotCharged == NibbleSpec => PauseStopsBilling
<1>1. IInv /\ [NibbleNext]_nibbleVars =>
        [data # NoData /\ data.pausets # 0 =>
           data' # NoData /\ data'.total = data.total]_nibbleVars
  BY PausedStep, RecordStays DEF IInv
<1>2. QED
  BY <1>1, IInvHolds, PTL DEF NibbleSpec, PauseStopsBilling

(* transfer_call is made of a call that runs and pauses it, so that it is   *)
(* made again only after a resume.                                          *)
THEOREM TransferPauses == NibbleSpec => OneTransferPerPause
<1>1. IInv /\ [NibbleNext]_nibbleVars =>
        [transfers' # transfers => data.pausets = 0 /\ data'.pausets # 0]_nibbleVars
  BY TransferStep
<1>2. QED
  BY <1>1, IInvHolds, PTL DEF NibbleSpec, OneTransferPerPause

(* What the account lost to the call, with the updates that failed, is the  *)
(* time talked up to the last bill, through heartbeats, flushes, pauses,    *)
(* resumes, resets and the hangup, for requests that fit in the order of    *)
(* their stamps and do not come upon each other's leavings (`plain`).       *)
THEOREM AccountIsExact == NibbleSpec => []ChargedForTimeTalked
<1>1. IInv => ChargedForTimeTalked
  <2> SUFFICES ASSUME IInv, plain
               PROVE  LET talked == Cardinality((answered .. settled - 1) \ waived) IN
                      /\ Billing = talked
                      /\ data # NoData =>
                           /\ data.lastts = settled
                           /\ data.total = talked
                           /\ data.bill_adjustments
                                = Cardinality({k \in waived : k >= settled})
    BY DEF ChargedForTimeTalked, Billing
  <2>1. CASE data # NoData
    BY <2>1 DEF IInv, Ledger, Exact, Account
  <2>2. CASE data = NoData
    <3>1. /\ answered \in Nat /\ settled \in Nat /\ waived = {}
      BY <2>2 DEF IInv, NibbleTypeOK, CallTypes, RecordPast
    <3>2. (answered .. settled - 1) \ waived = answered .. settled - 1
      BY <3>1
    <3>3. CASE settled = 0 /\ Billing = 0
      <4>1. answered .. settled - 1 = {}
        BY <3>1, <3>3
      <4>2. QED
        BY <2>2, <3>2, <3>3, <4>1, FS_EmptySet
    <3>4. CASE answered <= settled /\ Billing = settled - answered
      BY <2>2, <3>1, <3>2, <3>4, IntervalSize
    <3>5. QED
      BY <2>2, <3>3, <3>4 DEF IInv, Account
  <2>3. QED
    BY <2>1, <2>2
<1>2. QED
  BY <1>1, IInvHolds, PTL

=============================================================================
