--------------------------- MODULE MCAmqpPublisher ---------------------------
(* TLC instances of AmqpPublisher. *)
EXTENDS AmqpPublisher, TLC

CONSTANTS h1, h2, d1, d2

OneHost == <<h1>>
TwoHosts == <<h1, h2>>
DispatcherSymmetry == Permutations(Dispatchers)
=============================================================================
