--------------------------- MODULE MCAutoRecovery ---------------------------
(* Two incidents and two operations, of which the controller and the host  *)
(* each allow one within the window: a second restart has to wait for it.  *)
EXTENDS AutoRecovery
==============================================================================
