------------------------------ MODULE Admission ------------------------------
(***************************************************************************)
(* What the scheduler promises to its callers, with every policy left out: *)
(* requests are numbered in arrival order, each is refused or made to      *)
(* wait, a waiting request may be withdrawn (dropped, expired, cancelled), *)
(* at most one is served at a time, and a request that left is gone: it is *)
(* neither served a second time nor put back in the queue.                 *)
(***************************************************************************)
EXTENDS Naturals

VARIABLES
  arrived,  \* number of requests that have arrived
  waiting,  \* numbers of the requests in the queue
  serving   \* the request in service: {} or a singleton

vars == <<arrived, waiting, serving>>

Init ==
  /\ arrived = 0
  /\ waiting = {}
  /\ serving = {}

(* The next request arrives. It may displace waiting requests, and it may  *)
(* be refused.                                                             *)
Arrive ==
  /\ arrived' = arrived + 1
  /\ waiting' \in SUBSET (waiting \cup {arrived'})
  /\ UNCHANGED serving

Withdraw ==
  /\ waiting' \in SUBSET waiting
  /\ UNCHANGED <<arrived, serving>>

Serve ==
  /\ serving = {}
  /\ \E r \in waiting :
       /\ serving' = {r}
       /\ waiting' \in SUBSET (waiting \ {r})
  /\ UNCHANGED arrived

Finish ==
  /\ serving # {}
  /\ serving' = {}
  /\ UNCHANGED <<arrived, waiting>>

Next == Arrive \/ Withdraw \/ Serve \/ Finish

Spec == Init /\ [][Next]_vars
==============================================================================
