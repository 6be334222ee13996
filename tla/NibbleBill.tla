------------------------------ MODULE NibbleBill ------------------------------
(***************************************************************************)
(* mod_nibblebill (src/dschreiber/mod_nibblebill/mod_nibblebill.c): the    *)
(* billing of one call while it goes on.                                   *)
(*                                                                         *)
(* Heartbeats, the "nibblebill" application and API and the hangup handler *)
(* run on threads of their own and meet in the record _nibble_data_, which *)
(* globals.mutex protects. Each of them reads the clock when it begins and *)
(* the record only later.                                                  *)
(*                                                                         *)
(* Time is counted in ticks and money in the price of one tick, so that    *)
(* the rate, constant here, is 1. The columns of the account are external. *)
(***************************************************************************)
EXTENDS Integers, FiniteSets

CONSTANTS
  Threads,      \* threads that heartbeats, applications and API calls run on
  Session,      \* the one of them that is the call's own thread
  NoData,       \* the channel has no _nibble_data_
  Free,         \* nobody holds globals.mutex
  Credit,       \* what the account holds at first
  NobalAmt,     \* globals.nobal_amt
  Adjustments,  \* amounts given to "adjust"
  MaxTicks,     \* bound: ticks of the clock
  MaxRequests   \* bound: requests made

ASSUME NibbleAssumption ==
  /\ Session \in Threads /\ Free \notin Threads
  /\ Credit \in Int /\ NobalAmt \in Int /\ Adjustments \subseteq Int
  /\ MaxTicks \in Nat /\ MaxRequests \in Nat
  /\ NoData \notin [lastts : Nat, total : Int, pausets : Nat,
                    bill_adjustments : Int]

VARIABLES
  time,        \* switch_micro_time_now(), never 0
  chan,        \* the channel's state: before, in or after CS_HANGUP
  answered,    \* profile->times->answered, 0 before that
  data,        \* the channel's _nibble_data_
  holder, depth,  \* who holds globals.mutex, and how often
  pc, ts,      \* per thread: where it is in a request, its ts
  cash,        \* the account's db_column_cash
  given,       \* history: what adjustments put into the account
  missed,      \* history: what bills whose update failed did not take
  requests,    \* requests made
  hangups,     \* how often process_hangup was called
  transfers,   \* history: calls of transfer_call
  kept,        \* history: pauses that returned with the lock held
  waived,      \* history: ticks excepted from billing by a pause or a reset
  settled,     \* history: up to when the call was billed or reset, at first 0
  plain        \* history: none of the disorders below has happened

callVars == <<time, chan, answered>>
lockVars == <<holder, depth>>
requestVars == <<requests, hangups>>
moneyVars == <<cash, given, missed>>
noteVars == <<kept, waived, settled, plain>>
nibbleVars == <<callVars, data, lockVars, pc, ts, moneyVars, requestVars,
                transfers, noteVars>>

Operations == {"bill", "pause", "resume", "reset", "check", "adjust"}

NibbleInit ==
  /\ time = 1 /\ chan = "active" /\ answered = 0
  /\ data = NoData
  /\ holder = Free /\ depth = 0
  /\ pc = [t \in Threads |-> "idle"] /\ ts = [t \in Threads |-> 0]
  /\ cash = Credit /\ given = 0 /\ missed = 0
  /\ requests = 0 /\ hangups = 0 /\ transfers = 0
  /\ kept = 0 /\ waived = {} /\ settled = 0 /\ plain = TRUE

(* The next place of a request; its stamp goes when it returns.             *)
Goto(t, place) ==
  /\ pc' = [pc EXCEPT ![t] = place]
  /\ ts' = [ts EXCEPT ![t] = IF place = "idle" THEN 0 ELSE @]

(* globals.mutex is nested: its holder may take it again.                   *)
CanLock(t) == holder \in {Free, t}

Lock(t) == CanLock(t) /\ holder' = t /\ depth' = depth + 1

(* Variant: one release undoes every nested lock.                           *)
UnlockAll == depth' = depth - 1 /\ holder' = Free

Unlock == depth' = depth - 1 /\ holder' = IF depth = 1 THEN Free ELSE holder

(* The thread's stamp is older than something already recorded.             *)
Stale(t) ==
  \/ ts[t] < data.lastts \/ ts[t] < data.pausets
  \/ \E k \in waived : k >= ts[t]

-----------------------------------------------------------------------------
(* A heartbeat, an application or an API call: the session is found only    *)
(* while the call is up, and kept until the request is done with it.        *)
Begin(t, op) ==
  /\ pc[t] = "idle"
  /\ chan = "active"
  /\ requests < MaxRequests
  /\ requests' = requests + 1
  /\ pc' = [pc EXCEPT ![t] = op] /\ ts' = [ts EXCEPT ![t] = time]
  /\ UNCHANGED <<callVars, data, lockVars, moneyVars, hangups, transfers,
                 noteVars>>

(* process_hangup, on the call's own thread                                 *)
ProcessHangup ==
  /\ pc[Session] = "idle"
  /\ chan = "hangup"
  /\ hangups = 0
  /\ hangups' = 1
  /\ pc' = [pc EXCEPT ![Session] = "bill"]
  /\ ts' = [ts EXCEPT ![Session] = time]
  /\ UNCHANGED <<callVars, data, lockVars, moneyVars, requests, transfers,
                 noteVars>>

-----------------------------------------------------------------------------
(* do_billing                                                               *)

BillUnanswered(t) ==
  /\ pc[t] = "bill"
  /\ answered = 0
  /\ Goto(t, "idle")
  /\ UNCHANGED <<callVars, data, lockVars, moneyVars, requestVars, transfers,
                 noteVars>>

(* Variant: a paused call is billed.                                        *)
BillLockPaused(t) ==
  /\ pc[t] = "bill"
  /\ answered # 0
  /\ Lock(t)
  /\ Goto(t, "charge")
  /\ UNCHANGED <<callVars, data, moneyVars, requestVars, transfers, noteVars>>

(* The lock is taken, and given back at once when the call is paused.       *)
BillLock(t) ==
  /\ pc[t] = "bill"
  /\ answered # 0
  /\ IF data # NoData /\ data.pausets > 0
       THEN CanLock(t) /\ Goto(t, "idle") /\ UNCHANGED lockVars
       ELSE Lock(t) /\ Goto(t, "charge")
  /\ UNCHANGED <<callVars, data, moneyVars, requestVars, transfers, noteVars>>

Record ==
  IF data # NoData THEN data
  ELSE [lastts |-> answered, total |-> 0, pausets |-> 0, bill_adjustments |-> 0]

(* bill_event: the update of the account may fail; it says so to nobody.    *)
BillEvent(amount) == cash' \in {cash, cash - amount}

(* The bill of a call, and what of it the account did not give.             *)
Bill(amount) ==
  /\ BillEvent(amount)
  /\ missed' = missed + amount - (cash - cash')
  /\ UNCHANGED given

(* Variant: the adjustments are subtracted from every later bill as well.   *)
BilledKeepsAdjustments(r, now) ==
  IF now >= r.lastts
    THEN [r EXCEPT !.total = @ + (now - r.lastts) - r.bill_adjustments,
                   !.lastts = now]
    ELSE [r EXCEPT !.lastts = now]

(* The record after a bill at `now`; lastts is set even when it goes back.  *)
Billed(r, now) ==
  IF now >= r.lastts
    THEN [r EXCEPT !.total = @ + (now - r.lastts) - r.bill_adjustments,
                   !.bill_adjustments = 0, !.lastts = now]
    ELSE [r EXCEPT !.lastts = now]

(* Variant: the billing of the hangup keeps the lock.                       *)
ChargeKeepsLock(t) ==
  LET now == Billed(Record, ts[t]) IN
  /\ pc[t] = "charge"
  /\ Bill(now.total - Record.total)
  /\ settled' = ts[t]
  /\ data' = IF chan = "hangup" /\ data = NoData THEN NoData ELSE now
  /\ plain' = (plain /\ ts[t] >= answered
                     /\ IF data = NoData THEN settled = 0 ELSE ~Stale(t))
  /\ Goto(t, IF chan = "hangup" THEN "idle" ELSE "balance")
  /\ UNCHANGED <<callVars, lockVars, requestVars, transfers, kept, waived>>

(* A call in CS_HANGUP keeps a record it has, but is not given one, and its *)
(* balance does not matter any more.                                        *)
Charge(t) ==
  LET now == Billed(Record, ts[t]) IN
  /\ pc[t] = "charge"
  /\ Bill(now.total - Record.total)
  /\ settled' = ts[t]
  /\ data' = IF chan = "hangup" /\ data = NoData THEN NoData ELSE now
  /\ plain' = (plain /\ ts[t] >= answered
                     /\ IF data = NoData THEN settled = 0 ELSE ~Stale(t))
  /\ IF chan = "hangup"
       THEN Unlock /\ Goto(t, "idle")
       ELSE Goto(t, "balance") /\ UNCHANGED lockVars
  /\ UNCHANGED <<callVars, requestVars, transfers, kept, waived>>

(* get_balance, which answers -1 when the query fails; without enough money *)
(* the call is paused, by a nested nibblebill_pause, and transferred.       *)
CheckBalance(t) ==
  /\ pc[t] = "balance"
  /\ \E balance \in {cash, -1} :
       IF balance < NobalAmt
         THEN /\ data' = [data EXCEPT !.pausets = IF @ = 0 THEN time ELSE @]
              /\ transfers' = transfers + 1
         ELSE UNCHANGED <<data, transfers>>
  /\ Unlock
  /\ Goto(t, "idle")
  /\ UNCHANGED <<callVars, moneyVars, requestVars, noteVars>>

-----------------------------------------------------------------------------
(* nibblebill_pause                                                         *)

(* Variant: the record is written without the lock.                         *)
PauseLockless(t) ==
  /\ pc[t] = "pause"
  /\ data # NoData
  /\ data' = [data EXCEPT !.pausets = IF @ = 0 THEN ts[t] ELSE @]
  /\ plain' = (plain /\ (data.pausets = 0 => ~Stale(t)))
  /\ Goto(t, "idle")
  /\ UNCHANGED <<callVars, lockVars, moneyVars, requestVars, transfers, kept,
                 waived, settled>>

(* A channel without a record is left with the lock held.                   *)
Pause(t) ==
  /\ pc[t] = "pause"
  /\ \/ /\ data = NoData
        /\ Lock(t)
        /\ kept' = kept + 1
        /\ UNCHANGED <<data, plain>>
     \/ /\ data # NoData
        /\ CanLock(t)
        /\ data' = [data EXCEPT !.pausets = IF @ = 0 THEN ts[t] ELSE @]
        /\ plain' = (plain /\ (data.pausets = 0 => ~Stale(t)))
        /\ UNCHANGED <<lockVars, kept>>
  /\ Goto(t, "idle")
  /\ UNCHANGED <<callVars, moneyVars, requestVars, transfers, waived, settled>>

-----------------------------------------------------------------------------
(* nibblebill_resume, nibblebill_reset, nibblebill_check: what they need is *)
(* tested before the lock is taken, and used after.                         *)

LockPlace(op) == CASE op = "resume" -> "resume lock"
                   [] op = "reset"  -> "reset lock"
                   [] op = "check"  -> "check lock"

TestRecord(t) ==
  /\ pc[t] \in {"resume", "reset", "check"}
  /\ IF data # NoData /\ (pc[t] = "resume" => data.pausets # 0)
       THEN Goto(t, LockPlace(pc[t]))
       ELSE Goto(t, "idle")
  /\ UNCHANGED <<callVars, data, lockVars, moneyVars, requestVars, transfers,
                 noteVars>>

(* bill_adjustments grows by the time since pausets, which is 0 when        *)
(* somebody else resumed the call after the test.                           *)
Resume(t) ==
  /\ pc[t] = "resume lock"
  /\ CanLock(t)
  /\ data' = [data EXCEPT !.bill_adjustments = @ + (ts[t] - data.pausets),
                          !.pausets = 0]
  /\ waived' = waived \cup data.pausets .. ts[t] - 1
  /\ plain' = (plain /\ data.pausets # 0 /\ ~Stale(t))
  /\ Goto(t, "idle")
  /\ UNCHANGED <<callVars, lockVars, moneyVars, requestVars, transfers, kept,
                 settled>>

(* A reset leaves the adjustments and the pause as they are: the time they  *)
(* stand for is then taken off twice.                                       *)
Reset(t) ==
  /\ pc[t] = "reset lock"
  /\ CanLock(t)
  /\ data' = [data EXCEPT !.lastts = ts[t]]
  /\ settled' = ts[t]
  /\ waived' = waived \cup data.lastts .. ts[t] - 1
  /\ plain' = (plain /\ ~Stale(t) /\ data.pausets = 0
                     /\ data.bill_adjustments = 0)
  /\ Goto(t, "idle")
  /\ UNCHANGED <<callVars, lockVars, moneyVars, requestVars, transfers, kept>>

Check(t) ==
  /\ pc[t] = "check lock"
  /\ CanLock(t)
  /\ Goto(t, "idle")
  /\ UNCHANGED <<callVars, data, lockVars, moneyVars, requestVars, transfers,
                 noteVars>>

(* nibblebill_adjust                                                        *)
Adjust(t) ==
  /\ pc[t] = "adjust"
  /\ \E amount \in Adjustments : BillEvent(-amount)
  /\ given' = given + (cash' - cash)
  /\ Goto(t, "idle")
  /\ UNCHANGED <<callVars, data, lockVars, missed, requestVars, transfers,
                 noteVars>>

Request(t) ==
  \/ BillUnanswered(t) \/ BillLock(t) \/ Charge(t) \/ CheckBalance(t)
  \/ Pause(t) \/ TestRecord(t) \/ Resume(t) \/ Reset(t) \/ Check(t) \/ Adjust(t)

-----------------------------------------------------------------------------
(* The core                                                                 *)

Answer ==
  /\ chan = "active" /\ answered = 0
  /\ answered' = time
  /\ UNCHANGED <<time, chan, data, lockVars, pc, ts, moneyVars, requestVars,
                 transfers, noteVars>>

(* A call is hung up, and leaves CS_HANGUP once its handlers have run.      *)
Hangup ==
  /\ \/ /\ chan = "active"
        /\ chan' = "hangup"
     \/ /\ chan = "hangup" /\ hangups = 1 /\ pc[Session] = "idle"
        /\ chan' = "reporting"
  /\ UNCHANGED <<time, answered, data, lockVars, pc, ts, moneyVars, requestVars,
                 transfers, noteVars>>

TimePasses ==
  /\ time < MaxTicks
  /\ time' = time + 1
  /\ UNCHANGED <<chan, answered, data, lockVars, pc, ts, moneyVars, requestVars,
                 transfers, noteVars>>

NibbleNext ==
  \/ \E t \in Threads : (\E op \in Operations : Begin(t, op)) \/ Request(t)
  \/ ProcessHangup \/ Answer \/ Hangup \/ TimePasses

NibbleSpec == NibbleInit /\ [][NibbleNext]_nibbleVars

(* Threads run and the database answers; requests, of which there are       *)
(* finitely many, and the end of the call are up to others.                 *)
NibbleFairSpec == NibbleSpec /\ \A t \in Threads : WF_nibbleVars(Request(t))

-----------------------------------------------------------------------------
(* Properties                                                               *)

Places == {"idle", "charge", "balance", "resume lock", "reset lock",
           "check lock"} \cup Operations

RecordType == [lastts : Nat, total : Int, pausets : Nat, bill_adjustments : Int]

CallTypes ==
  /\ time \in Nat \ {0} /\ chan \in {"active", "hangup", "reporting"}
  /\ answered \in Nat /\ cash \in Int
  /\ requests \in Nat /\ hangups \in {0, 1}
  /\ given \in Int /\ missed \in Int
  /\ transfers \in Nat /\ kept \in Nat

(* Who charges holds globals.mutex; what was tested is still there.         *)
LockTypes ==
  /\ holder \in Threads \cup {Free} /\ depth \in Nat
  /\ depth = 0 <=> holder = Free
  /\ depth = kept + (IF \E t \in Threads : pc[t] \in {"charge", "balance"}
                       THEN 1 ELSE 0)
  /\ pc \in [Threads -> Places] /\ ts \in [Threads -> Nat]
  /\ \A t \in Threads :
       /\ pc[t] \in {"charge", "balance"} => holder = t
       /\ pc[t] \in {"balance", "resume lock", "reset lock", "check lock"}
            => data # NoData

NibbleTypeOK ==
  /\ CallTypes /\ LockTypes
  /\ data \in RecordType \cup {NoData}
  /\ waived \subseteq Nat /\ settled \in Nat /\ plain \in BOOLEAN

(* While the record says paused nothing is charged: a bill that is under    *)
(* way ends before the pause is recorded, and none begins after.            *)
PauseStopsBilling ==
  [][data # NoData /\ data.pausets # 0 =>
       data' # NoData /\ data'.total = data.total]_nibbleVars

(* "Billing must be paused before the transfer occurs": a call that is out  *)
(* of money is transferred once, and again only after somebody resumed it.  *)
OneTransferPerPause ==
  [][transfers' # transfers => data.pausets = 0 /\ data'.pausets # 0]_nibbleVars

(* What the account lost to the call, with the bills whose update failed,   *)
(* is the time from the answer to the last bill without the time waived by  *)
(* pauses and resets; the record, while there is one, says the same, and    *)
(* its adjustments are the waived time still to be taken off. So no tick is *)
(* charged twice, and none is forgotten but by an update that failed,       *)
(* through heartbeats, flushes, pauses, resumes and the hangup.             *)
(*                                                                          *)
(* `plain` leaves out the calls in which a request was overtaken by one     *)
(* with a later stamp, a pause was taken off by two resumes, a reset met a  *)
(* pause or its adjustments, or a bill found no record of the one before    *)
(* it, at the hangup: all of these do charge time twice, or take it off.    *)
ChargedForTimeTalked ==
  plain =>
    LET talked == Cardinality((answered .. settled - 1) \ waived) IN
    /\ Credit + given - cash + missed = talked
    /\ data # NoData =>
         /\ data.lastts = settled
         /\ data.total = talked
         /\ data.bill_adjustments = Cardinality({k \in waived : k >= settled})

(* Every request returns, unless a pause of a call that has no record left  *)
(* the lock held.                                                           *)
RequestReturns ==
  \A t \in Threads : pc[t] # "idle" ~> (pc[t] = "idle" \/ kept > 0)

(* What the code says of itself.                                            *)

(* "since last *successful* bill", "reset counters if it's successful": the *)
(* total of the record grows by what the account was charged.               *)
CountersFollowAccount ==
  [][data # NoData /\ data'.total # data.total =>
       cash' = cash - (data'.total - data.total)]_nibbleVars

(* "negative minutes! wtf? That should be impossible": the stamp of a bill  *)
(* is not older than the bill before it.                                    *)
NoNegativeMinutes ==
  \A t \in Threads :
    pc[t] = "charge" /\ data # NoData => ts[t] >= data.lastts

=============================================================================
