SPECIFICATION FairSpec
CONSTANTS
  Clients <- MCClients
  Odysseus = "odysseus"
  DefaultClient = "default"
  Models = {"m1", "m2"}
  Keys = {"k"}
  None = None
  Requests <- BalancedRequests
  Strict = FALSE
  Priority <- MCPriority
  QueueLimit <- MCQueueLimit
  DropOldest <- MCDropOldest
  Ttl <- MCTtl
  MaxWait <- MCMaxWait
  ClientPolicy <- MCClientPolicy
  ModelPolicy <- MCModelPolicy
  PriorityAging = TRUE
  AgingInterval = 1
  AgingBonus = 40
  MaxBytes = 3
  Reported = {"m2", None}
  MaxRequests = 4
  MaxTime = 5
PROPERTIES
  MaxWaitHonoured
