----------------------------- MODULE MCNibbleBill -----------------------------
(* NibbleBill with the call's own thread and one more, and an account that  *)
(* runs out of money during the call.                                       *)
EXTENDS NibbleBill

CONSTANTS session, api

TwoThreads == {session, api}
OneUnit == {1}

=============================================================================
