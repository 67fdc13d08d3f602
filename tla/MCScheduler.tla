----------------------------- MODULE MCScheduler -----------------------------
(* Small instances of Scheduler: the interactive client, the camera client *)
(* with its background class, and the default client, on two models.       *)
EXTENDS Scheduler

MCClients == {"odysseus", "frigate", "default"}
MCPriority == [odysseus |-> 100, frigate |-> 30, default |-> 50]
MCQueueLimit == [odysseus |-> 1, frigate |-> 2, default |-> 1]
MCDropOldest == [odysseus |-> FALSE, frigate |-> TRUE, default |-> FALSE]
MCTtl == [odysseus |-> 2, frigate |-> 2, default |-> 2]
MCMaxWait == [odysseus |-> 0, frigate |-> 1, default |-> 0]

Pol(idle, n, t) == [idleHold |-> idle, maxBatch |-> n, maxBatchTime |-> t]
MCClientPolicy ==
  [odysseus |-> Pol(2, 2, 3), frigate |-> Pol(1, 1, 3), default |-> Pol(1, 1, 1)]
MCModelPolicy == [m \in {"m2"} |-> Pol(1, 2, 2)]

Ask(c, m, k, b) ==
  [client |-> c, model |-> m, catchup |-> FALSE, key |-> k, bytes |-> b]
Background(m, b) ==
  [client |-> "frigate", model |-> m, catchup |-> TRUE, key |-> None, bytes |-> b]

StrictRequests ==
  {Ask("odysseus", "m1", None, 2), Ask("frigate", "m1", "k", 1),
   Ask("frigate", "m2", None, 2), Ask("default", "m2", None, 1),
   Background("m1", 1)}

BalancedRequests ==
  {Ask("odysseus", "m1", None, 1), Ask("frigate", "m1", None, 1),
   Ask("frigate", "m2", None, 1), Background("m1", 1)}
==============================================================================
