------------------------------- MODULE MCEslJava -------------------------------
(* The parts of the Java ESL client: the frame decoder, the commands of one *)
(* connection, connect and commands over several connections, and events.   *)
(* Each is modelled by itself; a behaviour is one of one part, and the      *)
(* variables of the others keep their initial values.                       *)
EXTENDS EslSession, EslClient, EslEvents, EslFrameDecoder

VARIABLE part

others(p) ==
  /\ p # "session" => UNCHANGED vars
  /\ p # "client"  => UNCHANGED clientVars
  /\ p # "events"  => UNCHANGED eventVars
  /\ p # "decoder" => UNCHANGED decoderVars

EslInit ==
  /\ part \in {"session", "client", "events", "decoder"}
  /\ IF part = "session" THEN Init ELSE Init /\ accepts
  /\ ClientInit /\ EventsInit
  /\ DecoderInit /\ (part # "decoder" => sent = << >> /\ ~lenient)

EslNext ==
  /\ UNCHANGED part /\ others(part)
  /\ \/ part = "session" /\ Next
     \/ part = "client"  /\ ClientNext
     \/ part = "events"  /\ EventsNext
     \/ part = "decoder" /\ DecoderNext

(* The fairness of each part's own specification.                           *)
EslFairness ==
  /\ \A u \in Users : WF_vars(part = "session" /\ UserStep(u))
  /\ WF_vars(part = "session" /\ PoolStep)
  /\ WF_vars(part = "session" /\ ServerAnswers)
  /\ \A t \in Apps : /\ WF_clientVars(part = "client" /\ ConnectStep(t))
                     /\ WF_clientVars(part = "client" /\ CommandStep(t))
  /\ \A c \in Links : WF_clientVars(part = "client" /\ HandshakeStep(c))
  /\ \A e \in Events : WF_eventVars(part = "events" /\ TaskStep(e))
  /\ \A x \in Executors : WF_eventVars(part = "events" /\ ExecutorStep(x))

EslSpec ==
  /\ EslInit /\ [][EslNext]_<<part, vars, clientVars, eventVars, decoderVars>>
  /\ EslFairness

-----------------------------------------------------------------------------
CONSTANTS t1, t2, a, b

TwoThreads == {t1, t2}

(* Header lines of two to five bytes, and one byte for a length.            *)
Line(what, n, size) == [what |-> what, n |-> n, size |-> size]
Known == Line("known", 0, 2)
Odd == Line("unknown", 0, 1)
Length(n) == Line("length", n, 2)

SomeMessages == {
  [head |-> << Known >>, body |-> << >>],
  [head |-> << Known, Odd >>, body |-> << >>],
  [head |-> << Known, Length(0) >>, body |-> << >>],
  [head |-> << Odd, Length(1) >>, body |-> << Text >>],
  [head |-> << Length(3), Known >>, body |-> << LF, LF, Length(1) >>],
  [head |-> << Line("known", 0, 5) >>, body |-> << >>]}

=============================================================================
