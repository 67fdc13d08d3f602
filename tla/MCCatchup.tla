------------------------------ MODULE MCCatchup ------------------------------
(* Two jobs and two correlated handoffs of two inferences: enough for a    *)
(* job to be handed over again after a crash, for an input to be measured  *)
(* and rescued, and for a second job to wait for the slot of the first.    *)
EXTENDS Catchup, TLC

Symmetry == Permutations(Events)
==============================================================================
