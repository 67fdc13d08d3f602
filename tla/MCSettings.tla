------------------------------ MODULE MCSettings ------------------------------
(* Two fields that exclude each other, a host configuration that is edited *)
(* twice, may make what is saved invalid and valid again, and two pages.   *)
EXTENDS Settings

MCFields == {"f", "g"}
MCSettings0 == [f |-> 0, g |-> 0]
MCHosts == {MCSettings0, [f |-> 0, g |-> 1]}
MCValid == [MCFields -> {0, 1}] \ {[f |-> 1, g |-> 1]}
MCDrafts == {[x \in {"f"} |-> 0], [x \in {"f"} |-> 1], [x \in {"g"} |-> 0]}
==============================================================================
