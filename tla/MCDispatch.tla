------------------------------ MODULE MCDispatch ------------------------------
(* Small instances of Dispatch: requests for two models, one of them       *)
(* background work, and a model-management request.                        *)
EXTENDS Dispatch, TLC

MCModel == ("r1" :> "m1") @@ ("r2" :> "m2")
==============================================================================
