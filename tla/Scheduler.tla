------------------------------ MODULE Scheduler ------------------------------
(***************************************************************************)
(* The request scheduler of src/src/scheduler.js: a queue of inference     *)
(* requests of several clients in front of one Ollama server.              *)
(*                                                                         *)
(* A job is a record; a job that left the queue and is not in service is   *)
(* forgotten. The array `jobs` of the code is a set here: enqueue() runs   *)
(* synchronously after the sequence number is drawn, so the array is       *)
(* always sorted by sequence number and "first" means "smallest seq".      *)
(* Time is a natural number in units of the configuration's durations.     *)
(***************************************************************************)
EXTENDS Integers, FiniteSets, FiniteSetsExt

CONSTANTS
  Clients,          \* configured clients
  Odysseus,         \* the interactive client
  DefaultClient,    \* clients.default: the policy of a model without a client
  Models,           \* model names
  Keys,             \* deduplication keys
  None,             \* null
  Requests,         \* the requests callers may submit
  Strict,           \* scheduler.mode is not 'balanced'
  Priority,         \* clients[c].priority
  QueueLimit,       \* clients[c].queue_limit
  DropOldest,       \* clients[c].overflow_policy = 'drop_oldest'
  Ttl,              \* clients[c].requestTtlMs
  MaxWait,          \* clients[c].maxWaitMs; 0 disables promotion
  ClientPolicy,     \* clients[c].model_policy
  ModelPolicy,      \* models[m], for the models with an exact override
  PriorityAging,    \* scheduler.priority_aging
  AgingInterval,    \* scheduler.agingIntervalMs
  AgingBonus,       \* scheduler.aging_bonus
  MaxBytes,         \* scheduler.max_queue_bytes
  Reported,         \* what a health probe may report as loaded (None: nothing)
  MaxRequests,      \* bound: requests submitted in a behaviour
  MaxTime           \* bound: the last instant

Request ==
  [client : Clients, model : Models, catchup : BOOLEAN,
   key : Keys \cup {None}, bytes : Nat]

Job ==
  [seq : Nat, client : Clients, model : Models, catchup : BOOLEAN,
   key : Keys \cup {None}, bytes : Nat, at : Nat]

Policy == [idleHold : Nat, maxBatch : Nat \ {0}, maxBatchTime : Nat]

ASSUME ClientsAssumption ==
  /\ Odysseus \in Clients
  /\ DefaultClient \in Clients
  /\ Requests \subseteq Request
  \* correlated catch-up is background work of the client frigate, and carries
  \* no deduplication key (proxy.js, identification and createJob)
  /\ \A r \in Requests : r.catchup => r.key = None /\ r.client # Odysseus

ASSUME NoneAssumption ==
  None \notin Clients \cup Models \cup Keys \cup Job \cup Policy

ASSUME ConfigAssumption ==
  /\ Strict \in BOOLEAN /\ PriorityAging \in BOOLEAN
  /\ Priority \in [Clients -> Int]
  /\ QueueLimit \in [Clients -> Nat \ {0}]
  /\ DropOldest \in [Clients -> BOOLEAN]
  /\ Ttl \in [Clients -> Nat] /\ MaxWait \in [Clients -> Nat]
  /\ ClientPolicy \in [Clients -> Policy]
  /\ \E S \in SUBSET Models : ModelPolicy \in [S -> Policy]
  /\ AgingInterval \in Nat \ {0} /\ AgingBonus \in Nat
  /\ MaxBytes \in Nat
  /\ Reported \subseteq Models \cup {None}
  /\ MaxRequests \in Nat /\ MaxTime \in Nat

VARIABLES
  now,            \* the clock
  sequence,       \* ProxyService.sequence: requests numbered so far
  jobs,           \* queued jobs
  active,         \* the job in service, or None
  currentModel,   \* the model believed to be loaded, or None
  leaseClient,    \* whose idle hold runs, or None
  leaseUntil,     \* end of the idle hold
  batchModel, batchPolicy, batchStartedAt, batchCount,
  accepting,      \* FALSE once stop() ran
  paused,         \* GPU maintenance
  loop,           \* where the dispatch loop stands between two steps
  hold            \* history, for HoldRespected: the last completion's client and hold,
                  \* unless a health probe reported another model since

batch == <<batchModel, batchPolicy, batchStartedAt, batchCount>>
lease == <<leaseClient, leaseUntil>>
vars == <<now, sequence, jobs, active, currentModel, lease, batch,
          accepting, paused, loop, hold>>

------------------------------------------------------------------------------
(* Reading a job *)

Deadline(j) == j.at + Ttl[j.client]

MaxWaitAt(j) == j.at + MaxWait[j.client]

Overdue(j) == MaxWait[j.client] > 0 /\ MaxWaitAt(j) <= now

(* modelPolicy(model, client): exact override, else the client's policy,   *)
(* else the default client's.                                              *)
PolicyFor(m, c) ==
  IF m \in DOMAIN ModelPolicy THEN ModelPolicy[m]
  ELSE IF c \in Clients THEN ClientPolicy[c]
  ELSE ClientPolicy[DefaultClient]

EffectivePriority(j) ==
  IF Strict \/ ~PriorityAging THEN Priority[j.client]
  ELSE Priority[j.client] + ((now - j.at) \div AgingInterval) * AgingBonus

(* expire(): what is left of the queue once overdue requests are dropped.  *)
Fresh == {j \in jobs : Deadline(j) > now}

First(S) == {j \in S : \A k \in S : j.seq <= k.seq}

Bytes(S) == MapThenSumSet(LAMBDA j : j.bytes, S)

InService == IF active = None THEN {} ELSE {active}

------------------------------------------------------------------------------
(* Admission *)

Same(r) == {j \in Fresh : j.client = r.client}

(* The queued request a newer equivalent one supersedes.                   *)
Superseded(r) ==
  IF r.key = None THEN {}
  ELSE First({j \in Same(r) : j.key = r.key /\ j.catchup = r.catchup})

(* Faulty: off by one.                                                     *)
FullBeyondLimit(r) ==
  Cardinality(Same(r) \ Superseded(r)) > QueueLimit[r.client]

Full(r) == Cardinality(Same(r) \ Superseded(r)) >= QueueLimit[r.client]

(* Faulty: overflow drops the oldest request whatever its class.           *)
VictimAnyClass(r) == First(Same(r) \ Superseded(r))

(* Overflow drops background work first; background work drops only its    *)
(* own kind.                                                               *)
Victim(r) ==
  LET kept == Same(r) \ Superseded(r)
      background == {j \in kept : j.catchup}
  IN  IF background # {} THEN First(background)
      ELSE IF r.catchup THEN {}
      ELSE First(kept)

(* Faulty: coalescing only when the queue overflows.                       *)
ReplacedOnOverflow(r) ==
  IF Full(r) /\ DropOldest[r.client] THEN Superseded(r) \cup Victim(r) ELSE {}

Replaced(r) ==
  Superseded(r) \cup
    (IF Full(r) /\ DropOldest[r.client] THEN Victim(r) ELSE {})

QueueFull(r) == Full(r) /\ (DropOldest[r.client] => Victim(r) = {})

(* Faulty: the body of the job in service is not counted.                  *)
MemoryFullQueuedOnly(r) ==
  Bytes(Fresh \ Replaced(r)) + r.bytes > MaxBytes

MemoryFull(r) ==
  Bytes((Fresh \ Replaced(r)) \cup InService) + r.bytes > MaxBytes

NewJob(r) ==
  [seq |-> sequence + 1, client |-> r.client, model |-> r.model,
   catchup |-> r.catchup, key |-> r.key, bytes |-> r.bytes, at |-> now]

(* wake(): a dispatch loop waiting for a change runs again.                *)
Wake == loop' = IF loop \in {"parked", "timed"} THEN "ready" ELSE loop

(* Faulty: no wake() after the push.                                       *)
AdmitSilently(r) ==
  /\ accepting /\ ~paused /\ ~QueueFull(r) /\ ~MemoryFull(r)
  /\ jobs' = (Fresh \ Replaced(r)) \cup {NewJob(r)}
  /\ UNCHANGED loop

Admit(r) ==
  /\ accepting /\ ~paused /\ ~QueueFull(r) /\ ~MemoryFull(r)
  /\ jobs' = (Fresh \ Replaced(r)) \cup {NewJob(r)}
  /\ Wake

(* Faulty: the replaced jobs are dropped before the memory check.          *)
RefuseAfterDrop(r) ==
  /\ accepting /\ ~paused /\ (QueueFull(r) \/ MemoryFull(r))
  /\ jobs' = Fresh \ Replaced(r)
  /\ UNCHANGED loop

(* A refused request has expired the queue, and replaces nobody.           *)
Refuse(r) ==
  /\ accepting /\ ~paused /\ (QueueFull(r) \/ MemoryFull(r))
  /\ jobs' = Fresh
  /\ UNCHANGED loop

Closed == (~accepting \/ paused) /\ UNCHANGED <<jobs, loop>>

(* createJob() and enqueue(). The first conjunct bounds the model.         *)
Enqueue(r) ==
  /\ sequence < MaxRequests /\ now + Ttl[r.client] <= MaxTime
  /\ sequence' = sequence + 1
  /\ Admit(r) \/ Refuse(r) \/ Closed
  /\ UNCHANGED <<now, active, currentModel, lease, batch, accepting, paused, hold>>

------------------------------------------------------------------------------
(* Leaving the queue without being served *)

(* cancel(): the caller of a queued request disconnects.                   *)
Cancel(j) ==
  /\ jobs' = jobs \ {j}
  /\ Wake
  /\ UNCHANGED <<now, sequence, active, currentModel, lease, batch, accepting,
                 paused, hold>>

(* Faulty: the timer leaves the queue alone while a job is in service.     *)
ExpireWhenIdle ==
  /\ Fresh # jobs /\ active = None
  /\ jobs' = Fresh
  /\ UNCHANGED <<now, sequence, active, currentModel, lease, batch, accepting,
                 paused, loop, hold>>

(* expire() from the one-second timer of the proxy. It wakes nobody.       *)
Expire ==
  /\ Fresh # jobs
  /\ jobs' = Fresh
  /\ UNCHANGED <<now, sequence, active, currentModel, lease, batch, accepting,
                 paused, loop, hold>>

(* failQueued(): GPU recovery became required.                             *)
FailQueued ==
  /\ jobs # {}
  /\ jobs' = {}
  /\ UNCHANGED <<now, sequence, active, currentModel, lease, batch, accepting,
                 paused, loop, hold>>

Pause ==
  /\ paused' = TRUE
  /\ jobs' = {}
  /\ Wake
  /\ UNCHANGED <<now, sequence, active, currentModel, lease, batch, accepting, hold>>

Resume ==
  /\ paused' = FALSE
  /\ Wake
  /\ UNCHANGED <<now, sequence, jobs, active, currentModel, lease, batch,
                 accepting, hold>>

Stop ==
  /\ accepting' = FALSE
  /\ jobs' = {}
  /\ Wake
  /\ UNCHANGED <<now, sequence, active, currentModel, lease, batch, paused, hold>>

------------------------------------------------------------------------------
(* Choosing the next job *)

(* Faulty: the class is not part of the lane's key.                        *)
HeadsWithoutClass ==
  {j \in Fresh : \A k \in Fresh :
     k.client = j.client /\ k.model = j.model => j.seq <= k.seq}

(* candidates(): the oldest of every client, model and class; live work    *)
(* hides background work.                                                  *)
Heads ==
  {j \in Fresh : \A k \in Fresh :
     k.client = j.client /\ k.model = j.model /\ k.catchup = j.catchup
       => j.seq <= k.seq}

(* Faulty: background work competes with live work.                        *)
CandidatesOfAnyClass == Heads

Candidates ==
  LET live == {j \in Heads : ~j.catchup}
  IN  IF live # {} THEN live ELSE Heads

(* The order of best(): in strict mode Odysseus precedes every other       *)
(* client; then priority, then arrival.                                    *)
Before(j, k) ==
  IF Strict /\ j.client # k.client /\ Odysseus \in {j.client, k.client}
  THEN j.client = Odysseus
  ELSE \/ EffectivePriority(j) > EffectivePriority(k)
       \/ /\ EffectivePriority(j) = EffectivePriority(k)
          /\ j.at < k.at \/ (j.at = k.at /\ j.seq <= k.seq)

Best(S) == {j \in S : \A k \in S : Before(j, k)}

(* Faulty: only Odysseus' own hold binds the others.                       *)
LowerThanOdysseus(j) == leaseClient = Odysseus /\ j.client # Odysseus

LowerPriorityThanLease(j) ==
  /\ leaseClient # None /\ j.client # leaseClient /\ j.client # Odysseus
  /\ leaseClient = Odysseus \/ Priority[j.client] < Priority[leaseClient]

Leased == now < leaseUntil

OnlyBackground == \A j \in Candidates : j.catchup

StrictChoice ==
  {j \in Best(Candidates) : ~(Leased /\ LowerPriorityThanLease(j))}

Current == {j \in Candidates : j.model = currentModel}
Other == Candidates \ Current

OverdueOther == {j \in Other : Overdue(j)}

(* Faulty: the limit counts from zero.                                     *)
BatchOneMore ==
  /\ batchModel = currentModel
  /\ batchPolicy # None => batchCount <= batchPolicy.maxBatch

(* A batch may go on while it is within the limits of the policy of the    *)
(* request that opened it.                                                 *)
BatchAvailable ==
  /\ batchModel = currentModel
  /\ LET first == First(Current)
         policy == IF batchPolicy # None THEN batchPolicy
                   ELSE PolicyFor(currentModel,
                          IF first = {} THEN None ELSE (CHOOSE j \in first : TRUE).client)
     IN  /\ batchCount < policy.maxBatch
         /\ now - batchStartedAt < policy.maxBatchTime

OldestOverdue ==
  {j \in OverdueOther : \A k \in OverdueOther :
     MaxWaitAt(j) < MaxWaitAt(k) \/ (MaxWaitAt(j) = MaxWaitAt(k) /\ j.seq <= k.seq)}

AffinityChoice ==
  IF Current # {} /\ (BatchAvailable \/ Other = {}) THEN Best(Current)
  ELSE IF Current = {} /\ currentModel # None /\ Leased THEN {}
  ELSE IF Current # {} THEN Best(Other)
  ELSE Best(Candidates)

BalancedChoice ==
  IF OverdueOther # {} THEN OldestOverdue ELSE AffinityChoice

(* The job take() would dispatch now: none or one.                         *)
Choice ==
  IF OnlyBackground /\ Leased THEN {}
  ELSE IF Strict THEN StrictChoice
  ELSE BalancedChoice

Open == active = None /\ accepting /\ ~paused

(* Faulty: the dispatched job stays in the queue.                          *)
DispatchWithoutRemoval(j) ==
  /\ jobs' = Fresh
  /\ active' = j
  /\ loop' = "serving"
  /\ currentModel' = j.model
  /\ leaseUntil' = 0 /\ leaseClient' = None
  /\ UNCHANGED <<now, sequence, accepting, paused, hold, batch>>

(* take() dispatches j: the model is taken over and the hold ends, before  *)
(* anything was sent to Ollama.                                            *)
Dispatch(j) ==
  /\ jobs' = Fresh \ {j}
  /\ active' = j
  /\ loop' = "serving"
  /\ currentModel' = j.model
  /\ leaseUntil' = 0 /\ leaseClient' = None
  /\ IF j.model # batchModel
     THEN /\ batchModel' = j.model /\ batchStartedAt' = now /\ batchCount' = 1
          /\ batchPolicy' = PolicyFor(j.model, j.client)
     ELSE /\ batchCount' = batchCount + 1
          /\ batchPolicy' = IF batchPolicy = None THEN PolicyFor(j.model, j.client)
                            ELSE batchPolicy
          /\ UNCHANGED <<batchModel, batchStartedAt>>
  /\ UNCHANGED <<now, sequence, accepting, paused, hold>>

(* take() finds nothing to run: the loop waits for the hold to end, or,    *)
(* with nothing to wait for, without a timeout.                            *)
FindNothing ==
  /\ Choice = {} \/ ~Open
  /\ jobs' = IF Open THEN Fresh ELSE jobs
  /\ loop' = IF Open /\ Candidates # {} THEN "timed" ELSE "parked"
  /\ UNCHANGED <<now, sequence, active, currentModel, lease, batch, accepting,
                 paused, hold>>

Take ==
  /\ loop = "ready"
  /\ FindNothing \/ (Open /\ \E j \in Choice : Dispatch(j))

(* The timer of waitForChange(leaseUntil - now).                           *)
HoldTimer ==
  /\ loop = "timed" /\ ~Leased
  /\ loop' = "ready"
  /\ UNCHANGED <<now, sequence, jobs, active, currentModel, lease, batch,
                 accepting, paused, hold>>

IdleHold(j) == IF j.catchup THEN 0 ELSE PolicyFor(j.model, j.client).idleHold

(* Faulty: the lease is given to the model, not to the client.             *)
RetireToModel(j) ==
  /\ active' = None
  /\ leaseUntil' = now + IdleHold(j)
  /\ leaseClient' = j.model

(* complete(): the job in service is over; its client's idle hold starts.  *)
Retire(j) ==
  /\ active' = None
  /\ leaseUntil' = now + IdleHold(j)
  /\ leaseClient' = j.client

Complete ==
  /\ active # None
  /\ Retire(active)
  /\ loop' = "ready"
  /\ hold' = [client |-> active.client, until |-> now + IdleHold(active)]
  /\ UNCHANGED <<now, sequence, jobs, currentModel, batch, accepting, paused>>

NoHold == [client |-> None, until |-> 0]

(* reconcile(): between two jobs, a health probe reports another model,    *)
(* which ends the idle hold.                                               *)
Reconcile(m) ==
  /\ active = None /\ m # currentModel
  /\ currentModel' = m /\ batchModel' = m
  /\ batchPolicy' = None /\ batchStartedAt' = now /\ batchCount' = 0
  /\ leaseUntil' = 0 /\ leaseClient' = None
  /\ hold' = NoHold
  /\ Wake
  /\ UNCHANGED <<now, sequence, jobs, active, accepting, paused>>

Tick ==
  /\ now < MaxTime
  /\ now' = now + 1
  /\ UNCHANGED <<sequence, jobs, active, currentModel, lease, batch, accepting,
                 paused, loop, hold>>

------------------------------------------------------------------------------
Init ==
  /\ now = 0 /\ sequence = 0 /\ jobs = {} /\ active = None
  /\ currentModel = None /\ leaseClient = None /\ leaseUntil = 0
  /\ batchModel = None /\ batchPolicy = None
  /\ batchStartedAt = 0 /\ batchCount = 0
  /\ accepting = TRUE /\ paused = FALSE
  /\ loop = "ready"
  /\ hold = NoHold

Next ==
  \/ \E r \in Requests : Enqueue(r)
  \/ \E j \in jobs : Cancel(j)
  \/ Expire \/ FailQueued
  \/ Pause \/ Resume \/ Stop
  \/ Take \/ HoldTimer \/ Complete
  \/ \E m \in Reported : Reconcile(m)
  \/ Tick

Spec == Init /\ [][Next]_vars

(* Time passes and the one-second timer of the proxy fires.                *)
FairSpec == Spec /\ WF_vars(Tick) /\ WF_vars(Expire)

------------------------------------------------------------------------------
(* Properties *)

TypeOK ==
  /\ now \in Nat /\ sequence \in Nat
  /\ jobs \in SUBSET Job
  /\ active \in Job \cup {None}
  /\ currentModel \in Models \cup {None}
  /\ leaseClient \in Clients \cup {None} /\ leaseUntil \in Nat
  /\ batchModel \in Models \cup {None} /\ batchPolicy \in Policy \cup {None}
  /\ batchStartedAt \in Nat /\ batchCount \in Nat
  /\ accepting \in BOOLEAN /\ paused \in BOOLEAN
  /\ loop \in {"ready", "serving", "parked", "timed"}
  /\ hold \in [client : Clients \cup {None}, until : Nat]

(* Jobs are numbered apart, none carries a number not drawn yet, and the   *)
(* one in service is no longer queued: what keeps splice(indexOf(job)) and *)
(* complete(job) of the code on the job they mean.                         *)
Numbered ==
  /\ \A j \in jobs \cup InService : j.seq \in 1..sequence
  /\ \A j, k \in jobs \cup InService : j.seq = k.seq => j = k
  /\ active \notin jobs

(* No client ever has more queued requests than its queue_limit, whatever  *)
(* mix of coalescing, overflow policy and catch-up traffic filled it.      *)
QueueWithinLimit ==
  \A c \in Clients : Cardinality({j \in jobs : j.client = c}) <= QueueLimit[c]

(* Queued and active request bodies together stay within max_queue_bytes.  *)
MemoryWithinLimit == Bytes(jobs \cup InService) <= MaxBytes

(* Coalescing leaves one queued request per client and key.                *)
OnePerKey ==
  \A j, k \in jobs :
    j.client = k.client /\ j.key = k.key /\ j.key # None => j = k

(* The dispatch loop never sleeps over work it could run: parked without a *)
(* timeout, there is no candidate; sleeping out a hold in strict mode,     *)
(* nothing may be dispatched before the hold ends.                         *)
NoLostWakeup ==
  /\ loop = "parked" /\ Open => Candidates = {}
  /\ loop = "timed" /\ Open /\ Leased /\ Strict => Choice = {}

Admitted == \E j \in jobs' : j.seq > sequence

(* A request that is turned away costs no queued request its place: the    *)
(* only ones to leave had outlived their TTL.                              *)
RefusalDropsNobody ==
  [][sequence' # sequence /\ ~Admitted => Fresh \subseteq jobs']_vars

(* Admitting background catch-up never costs a live request its place.     *)
CatchupDisplacesNoLive ==
  [][\A j \in jobs' : j.seq > sequence /\ j.catchup
       => {k \in Fresh : ~k.catchup} \subseteq jobs']_vars

Dispatched(j) == active # j /\ active' = j

(* Odysseus, then live traffic by priority, then background; in arrival    *)
(* order within a rank (README, "Scheduling algorithm").                   *)
Rank(j) == IF j.client = Odysseus THEN <<0, 0>>
           ELSE <<IF j.catchup THEN 2 ELSE 1, -Priority[j.client]>>
Ahead(j, k) ==
  \/ Rank(j)[1] < Rank(k)[1]
  \/ /\ Rank(j)[1] = Rank(k)[1]
     /\ Rank(j)[2] < Rank(k)[2] \/ (Rank(j)[2] = Rank(k)[2] /\ j.seq < k.seq)

(* In strict mode a dispatched job overtakes no live queued request of a   *)
(* better or equal rank, and no request of any rank that arrived before it *)
(* from its own client and class; it is not past its own deadline.         *)
StrictOrder ==
  [][\A j \in jobs : Dispatched(j) =>
       /\ Deadline(j) > now
       /\ \A k \in Fresh \ {j} : ~Ahead(k, j)]_vars

(* In balanced mode too: live before background, and arrival order within  *)
(* a client, a model and a class.                                          *)
LaneOrder ==
  [][\A j \in jobs : Dispatched(j) =>
       /\ Deadline(j) > now
       /\ \A k \in Fresh :
            /\ j.catchup => k.catchup
            /\ k.client = j.client /\ k.model = j.model /\ k.catchup = j.catchup
                 => j.seq <= k.seq]_vars

(* Strict mode: until the idle hold of the last completed job is over, or  *)
(* a health probe reports another model, no job of a lower-priority client *)
(* and no background job is dispatched.                                    *)
HoldRespected ==
  [][\A j \in jobs : Dispatched(j) /\ hold.client # None /\ now < hold.until =>
       /\ ~j.catchup
       /\ \/ j.client \in {hold.client, Odysseus}
          \/ /\ hold.client # Odysseus
             /\ Priority[j.client] >= Priority[hold.client]]_vars

(* Balanced mode: while live requests for another model wait, a model is   *)
(* not served beyond the batch its policy allows.                          *)
BatchBounded ==
  [][\A j \in jobs :
       Dispatched(j) /\ j.model = currentModel /\ Other # {}
         => batchPolicy' # None /\ batchCount' <= batchPolicy'.maxBatch]_vars

(* Balanced mode: a request that waited longer than max_wait is not passed *)
(* over for one that did not.                                              *)
MaxWaitHonoured ==
  [][\A j \in jobs : Dispatched(j) /\ (\E k \in Candidates : Overdue(k))
       => Overdue(j)]_vars

(* Nothing waits forever: every queued request is dispatched, refused its  *)
(* place or expired.                                                       *)
QueueDrains ==
  \A n \in 1..MaxRequests :
    (\E j \in jobs : j.seq = n) ~> ~(\E j \in jobs : j.seq = n)

(* The scheduler keeps the promise of Admission: nobody is served twice,   *)
(* nobody who left comes back.                                             *)
A == INSTANCE Admission WITH
       arrived <- sequence,
       waiting <- {j.seq : j \in jobs},
       serving <- {j.seq : j \in InService}

KeepsAdmission == A!Spec
==============================================================================
