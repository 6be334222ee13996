----------------------------- MODULE MCEslSession -----------------------------
(* EslSession with two threads of the application.                          *)
EXTENDS EslSession, TLC

CONSTANTS t1, t2

TwoThreads == {t1, t2}
ThreadSymmetry == Permutations(TwoThreads)

=============================================================================
