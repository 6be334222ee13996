------------------------------- MODULE MCModules -------------------------------
(* The models whose threads must get somewhere, each by itself: the two     *)
(* threads of mod_amqp and the bill of a call. A behaviour is one of one    *)
(* part, and the variables of the others keep their initial values.         *)
EXTENDS MCAmqpPublisher, AmqpCommandListener, MCNibbleBill

VARIABLE part

moduleVars == <<part, vars, listenerVars, nibbleVars>>

others(p) ==
  /\ p # "publisher" => UNCHANGED vars
  /\ p # "listener"  => UNCHANGED listenerVars
  /\ p # "bill"      => UNCHANGED nibbleVars

ModulesInit ==
  /\ part \in {"publisher", "listener", "bill"}
  /\ Init /\ (part # "publisher" => \A h \in Hosts : broker[h] = "up")
  /\ ListenerInit /\ (part # "listener" => up)
  /\ NibbleInit

ModulesNext ==
  /\ UNCHANGED part /\ others(part)
  /\ \/ part = "publisher" /\ Next
     \/ part = "listener"  /\ ListenerNext
     \/ part = "bill"      /\ NibbleNext

(* The fairness of each part's own specification.                           *)
ModulesFairness ==
  LET Publisher(A) == part = "publisher" /\ ~crashed /\ A IN
  /\ WF_vars(Publisher(MainStep))
  /\ WF_vars(Publisher(~running /\ ListenerEnd))
  /\ WF_vars(Publisher(ConsumerStep))
  /\ \A d \in Dispatchers :
       WF_vars(Publisher(HandlerCheck(d) \/ HandlerPush(d) \/ HandlerTrip(d)))
  /\ \A r \in Reloaders : /\ WF_vars(Publisher(ReloadStep(r)))
                          /\ SF_vars(Publisher(ReloadLock(r)))
  /\ WF_listenerVars(part = "listener" /\ ~undefined /\ ListenerStep)
  /\ WF_listenerVars(part = "listener" /\ ~undefined /\ ReloadDestroy)
  /\ \A t \in Threads : WF_nibbleVars(part = "bill" /\ Request(t))

ModulesSpec ==
  ModulesInit /\ [][ModulesNext]_moduleVars /\ ModulesFairness

=============================================================================
