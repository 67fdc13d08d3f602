--------------------------- MODULE MCOperationGate ---------------------------
(* Two inference requests, two model operations and a maintenance pause    *)
(* compete for the gate.                                                   *)
EXTENDS OperationGate

MCKindOf ==
  [o \in {"i1", "i2"} |-> "inference"] @@ [o \in {"g1", "g2"} |-> "management"]
    @@ [o \in {"m"} |-> "maintenance"]
==============================================================================
