--------------------------- MODULE SchedulerProofs ---------------------------
(***************************************************************************)
(* Proofs about Scheduler, for every configuration that satisfies its      *)
(* assumptions: any set of clients, models and requests, any policy, both  *)
(* scheduling modes.                                                       *)
(***************************************************************************)
EXTENDS Scheduler, FiniteSetTheorems, TLAPS

(* What makes the queue limit inductive: the queue is a finite set, and    *)
(* the types say whose limit a job counts against.                         *)
LimitInv == TypeOK /\ IsFiniteSet(jobs) /\ QueueWithinLimit

------------------------------------------------------------------------------
(* What the helpers return *)

LEMMA FreshIsQueued == Fresh \subseteq jobs
  BY DEF Fresh

LEMMA FirstIsSubset == ASSUME NEW S PROVE First(S) \subseteq S
  BY DEF First

LEMMA SupersededIsSame == ASSUME NEW r PROVE Superseded(r) \subseteq Same(r)
  BY FirstIsSubset DEF Superseded, First

(* Overflow drops requests of the client whose queue is full, and no one   *)
(* else's.                                                                 *)
LEMMA VictimIsSame ==
  ASSUME NEW r PROVE Victim(r) \subseteq Same(r) \ Superseded(r)
  BY DEF Victim, First

LEMMA ReplacedIsSame == ASSUME NEW r PROVE Replaced(r) \subseteq Same(r)
  BY SupersededIsSame, VictimIsSame DEF Replaced

LEMMA PolicyType ==
  ASSUME NEW m \in Models, NEW c PROVE PolicyFor(m, c) \in Policy
  BY ClientsAssumption, ConfigAssumption DEF PolicyFor

LEMMA NewJobType ==
  ASSUME TypeOK, NEW r \in Requests PROVE NewJob(r) \in Job
  BY ClientsAssumption DEF NewJob, TypeOK, Request, Job

LEMMA IdleHoldType == ASSUME NEW j \in Job PROVE IdleHold(j) \in Nat
  BY PolicyType DEF IdleHold, Job, Policy

(* What take() dispatches is a queued job that has not expired.            *)
LEMMA ChoiceIsFresh == Choice \subseteq Fresh
  <1>1. Candidates \subseteq Fresh
    BY DEF Candidates, Heads
  <1>2. StrictChoice \subseteq Candidates
    BY DEF StrictChoice, Best
  <1>3. BalancedChoice \subseteq Candidates
    BY DEF BalancedChoice, AffinityChoice, OldestOverdue, OverdueOther, Best,
           Current, Other
  <1>4. QED
    BY <1>1, <1>2, <1>3 DEF Choice

LEMMA WakeType ==
  ASSUME TypeOK, Wake PROVE loop' \in {"ready", "serving", "parked", "timed"}
  BY DEF TypeOK, Wake

------------------------------------------------------------------------------
(* Type correctness *)

LEMMA InitType == Init => TypeOK
  <1>1. SUFFICES ASSUME Init PROVE TypeOK
    OBVIOUS
  <1>2. hold \in [client : Clients \cup {None}, until : Nat]
    BY <1>1 DEF Init, NoHold
  <1>3. QED
    BY <1>1, <1>2 DEF Init, TypeOK

LEMMA DispatchType ==
  ASSUME TypeOK, NEW j \in Choice, Dispatch(j)
  PROVE  TypeOK'
  <1>1. j \in Job /\ j.model \in Models
    BY ChoiceIsFresh, FreshIsQueued DEF TypeOK, Job
  <1>2. PolicyFor(j.model, j.client) \in Policy
    BY <1>1, PolicyType
  <1>3. jobs' \in SUBSET Job
    BY FreshIsQueued DEF TypeOK, Dispatch
  <1>4. QED
    BY <1>1, <1>2, <1>3 DEF TypeOK, Dispatch

LEMMA NextType ==
  ASSUME TypeOK, [Next]_vars
  PROVE  TypeOK'
  <1>1. ASSUME NEW r \in Requests, Enqueue(r) PROVE TypeOK'
    <2>1. jobs' \in SUBSET Job
      BY <1>1, FreshIsQueued, NewJobType DEF TypeOK, Enqueue, Admit, Refuse, Closed
    <2>2. loop' \in {"ready", "serving", "parked", "timed"}
      BY <1>1, WakeType DEF TypeOK, Enqueue, Admit, Refuse, Closed
    <2>3. QED
      BY <1>1, <2>1, <2>2 DEF TypeOK, Enqueue, lease, batch
  <1>2. ASSUME NEW j \in jobs, Cancel(j) PROVE TypeOK'
    BY <1>2, WakeType DEF TypeOK, Cancel, lease, batch
  <1>3. CASE Expire
    BY <1>3, FreshIsQueued DEF TypeOK, Expire, lease, batch
  <1>4. CASE FailQueued
    BY <1>4 DEF TypeOK, FailQueued, lease, batch
  <1>5. CASE Pause
    BY <1>5, WakeType DEF TypeOK, Pause, lease, batch
  <1>6. CASE Resume
    BY <1>6, WakeType DEF TypeOK, Resume, lease, batch
  <1>7. CASE Stop
    BY <1>7, WakeType DEF TypeOK, Stop, lease, batch
  <1>8. CASE Take
    <2>1. CASE FindNothing
      BY <2>1, FreshIsQueued DEF TypeOK, FindNothing, lease, batch
    <2>2. ASSUME NEW j \in Choice, Dispatch(j) PROVE TypeOK'
      BY <2>2, DispatchType
    <2>3. QED
      BY <1>8, <2>1, <2>2 DEF Take
  <1>9. CASE HoldTimer
    BY <1>9 DEF TypeOK, HoldTimer, lease, batch
  <1>10. CASE Complete
    <2>1. active \in Job /\ active.client \in Clients /\ IdleHold(active) \in Nat
      BY <1>10, IdleHoldType DEF TypeOK, Complete, Job
    <2>2. QED
      BY <1>10, <2>1 DEF TypeOK, Complete, Retire, batch
  <1>11. ASSUME NEW m \in Reported, Reconcile(m) PROVE TypeOK'
    BY <1>11, WakeType, ConfigAssumption DEF TypeOK, Reconcile, NoHold
  <1>12. CASE Tick
    BY <1>12 DEF TypeOK, Tick, lease, batch
  <1>13. CASE UNCHANGED vars
    BY <1>13 DEF TypeOK, vars, lease, batch
  <1>14. QED
    BY <1>1, <1>2, <1>3, <1>4, <1>5, <1>6, <1>7, <1>8, <1>9, <1>10, <1>11,
       <1>12, <1>13 DEF Next

(* Every variable keeps its type: in particular a lease always names a     *)
(* client and an active job is a job, after every path out of take(),      *)
(* complete() and reconcile().                                             *)
THEOREM TypeCorrect == Spec => []TypeOK
  <1>1. QED
    BY InitType, NextType, PTL DEF Spec

------------------------------------------------------------------------------
(* Identity of jobs *)

(* What a step does to the queue: a request arrives, jobs leave the queue  *)
(* or the service, or one passes from the queue to the service.            *)
Arrives ==
  /\ sequence' = sequence + 1 /\ active' = active
  /\ \E r \in Requests : Admit(r) \/ jobs' \subseteq jobs

Shrinks ==
  /\ sequence' = sequence
  /\ \/ active' = active /\ jobs' \subseteq jobs
     \/ active # None /\ active' = None /\ jobs' = jobs

HandsOver ==
  /\ sequence' = sequence /\ active = None
  /\ \E j \in jobs : active' = j /\ jobs' \subseteq jobs \ {j}

LEMMA Steps ==
  ASSUME [Next]_vars
  PROVE  Arrives \/ Shrinks \/ HandsOver
  <1>1. ASSUME NEW r \in Requests, Enqueue(r) PROVE Arrives
    <2>1. Admit(r) \/ jobs' \subseteq jobs
      BY <1>1, FreshIsQueued DEF Enqueue, Refuse, Closed
    <2>2. QED
      BY <1>1, <2>1 DEF Enqueue, Arrives
  <1>2. ASSUME NEW j \in jobs, Cancel(j) PROVE Shrinks
    BY <1>2 DEF Cancel, Shrinks
  <1>3. ASSUME Expire \/ FailQueued \/ Pause \/ Resume \/ Stop PROVE Shrinks
    BY <1>3, FreshIsQueued DEF Expire, FailQueued, Pause, Resume, Stop, Shrinks
  <1>4. ASSUME Take PROVE Shrinks \/ HandsOver
    <2>1. CASE FindNothing
      BY <2>1, FreshIsQueued DEF FindNothing, Shrinks
    <2>2. ASSUME Open, NEW j \in Choice, Dispatch(j) PROVE HandsOver
      BY <2>2, ChoiceIsFresh, FreshIsQueued DEF Open, Dispatch, HandsOver
    <2>3. QED
      BY <1>4, <2>1, <2>2 DEF Take
  <1>5. ASSUME HoldTimer \/ Tick \/ UNCHANGED vars PROVE Shrinks
    BY <1>5 DEF HoldTimer, Tick, vars, Shrinks
  <1>6. ASSUME Complete PROVE Shrinks
    BY <1>6 DEF Complete, Retire, Shrinks
  <1>7. ASSUME NEW m \in Reported, Reconcile(m) PROVE Shrinks
    BY <1>7 DEF Reconcile, Shrinks
  <1>8. QED
    BY <1>1, <1>2, <1>3, <1>4, <1>5, <1>6, <1>7 DEF Next

LEMMA NumberedStep ==
  ASSUME TypeOK, Numbered, [Next]_vars
  PROVE  Numbered'
  <1>0. None \notin Job /\ active \in Job \cup {None} /\ sequence \in Nat
        /\ jobs \subseteq Job
    BY NoneAssumption DEF TypeOK
  <1>1. CASE Arrives
    <2>1. PICK r \in Requests : jobs' \subseteq jobs \cup {NewJob(r)}
      BY <1>1, FreshIsQueued DEF Arrives, Admit
    <2>2. NewJob(r).seq = sequence + 1 /\ NewJob(r) \in Job
      BY NewJobType DEF NewJob
    <2>3. InService' = InService
      BY <1>1 DEF Arrives, InService
    <2>4. NewJob(r) \notin InService /\ NewJob(r) # active
      BY <2>2, <1>0 DEF Numbered, InService
    <2>5. \A j \in (jobs \cup InService)' : j.seq \in 1..sequence'
      BY <1>0, <1>1, <2>1, <2>2, <2>3 DEF Numbered, Arrives
    <2>6. \A j, k \in (jobs \cup InService)' : j.seq = k.seq => j = k
      <3>1. \A j \in jobs \cup InService : j.seq # sequence + 1
        BY <1>0 DEF Numbered
      <3>2. QED
        BY <2>1, <2>2, <2>3, <3>1 DEF Numbered
    <2>7. active' \notin jobs'
      BY <1>1, <2>1, <2>4 DEF Numbered, Arrives
    <2>8. QED
      BY <2>5, <2>6, <2>7 DEF Numbered
  <1>2. CASE Shrinks
    <2>1. InService' \subseteq InService
      BY <1>2 DEF Shrinks, InService
    <2>2. active' \notin jobs'
      BY <1>0, <1>2 DEF Shrinks, Numbered
    <2>3. QED
      BY <1>2, <2>1, <2>2 DEF Shrinks, Numbered
  <1>3. CASE HandsOver
    <2>1. PICK j \in jobs : active' = j /\ jobs' \subseteq jobs \ {j}
      BY <1>3 DEF HandsOver
    <2>2. InService' = {j}
      BY <1>0, <2>1 DEF InService
    <2>3. QED
      BY <1>3, <2>1, <2>2 DEF HandsOver, Numbered
  <1>4. QED
    BY <1>1, <1>2, <1>3, Steps

(* No two jobs share a number, in the queue or in service, and the job in  *)
(* service is not in the queue: take() removes the very job it returns and *)
(* complete() ends no other one.                                           *)
THEOREM JobsNumbered == Spec => []Numbered
  <1>1. Init => TypeOK /\ Numbered
    <2>1. ASSUME Init PROVE Numbered
      BY <2>1 DEF Init, Numbered, InService
    <2>2. QED
      BY <2>1, InitType
  <1>2. TypeOK /\ Numbered /\ [Next]_vars => (TypeOK /\ Numbered)'
    BY NextType, NumberedStep
  <1>3. QED
    BY <1>1, <1>2, PTL DEF Spec

------------------------------------------------------------------------------
(* The queue limit *)

OfClient(S, c) == {j \in S : j.client = c}

LEMMA OneMore ==
  ASSUME NEW S, NEW x, IsFiniteSet(S)
  PROVE  /\ IsFiniteSet(S \cup {x}) /\ Cardinality(S \cup {x}) \in Nat
         /\ Cardinality(S \cup {x}) <= Cardinality(S) + 1
  <1>1. /\ IsFiniteSet(S \cup {x})
        /\ Cardinality(S \cup {x}) \in {Cardinality(S), Cardinality(S) + 1}
    BY FS_AddElement
  <1>2. Cardinality(S) \in Nat
    BY FS_CardinalityType
  <1>3. QED
    BY <1>1, <1>2

LEMMA AdmitLimit ==
  ASSUME LimitInv, NEW r \in Requests, Admit(r)
  PROVE  IsFiniteSet(jobs') /\ QueueWithinLimit'
  <1> DEFINE c == r.client
             K == Same(r) \ Superseded(r)
             n == NewJob(r)
  <1>1. /\ jobs' = (Fresh \ Replaced(r)) \cup {n} /\ ~QueueFull(r)
        /\ IsFiniteSet(jobs) /\ jobs \subseteq Job /\ n.client = c
        /\ c \in Clients /\ QueueLimit \in [Clients -> Nat \ {0}]
    BY ClientsAssumption, ConfigAssumption
       DEF Admit, LimitInv, TypeOK, NewJob, Request
  <1>2. IsFiniteSet(jobs')
    BY <1>1, FreshIsQueued, FS_Subset, FS_AddElement
  <1>3. K \subseteq OfClient(jobs, c) /\ OfClient(jobs, c) \subseteq jobs
    BY FreshIsQueued DEF Same, OfClient
  <1>4. /\ IsFiniteSet(K) /\ IsFiniteSet(OfClient(jobs, c))
        /\ Cardinality(K) \in Nat
        /\ Cardinality(K) <= Cardinality(OfClient(jobs, c))
    BY <1>1, <1>3, FS_Subset, FS_CardinalityType
  <1>5. Cardinality(OfClient(jobs, c)) <= QueueLimit[c]
    BY <1>1 DEF LimitInv, QueueWithinLimit, OfClient
  <1>6. OfClient(jobs', c) = (Same(r) \ Replaced(r)) \cup {n}
    BY <1>1 DEF OfClient, Same
  <1>7. Cardinality(OfClient(jobs', c)) <= QueueLimit[c]
    <2>1. CASE ~Full(r)
      <3>1. OfClient(jobs', c) = K \cup {n}
        BY <1>6, <2>1 DEF Replaced
      <3>2. Cardinality(K) < QueueLimit[c]
        BY <1>1, <1>4, <2>1 DEF Full
      <3>3. /\ Cardinality(K \cup {n}) \in Nat
            /\ Cardinality(K \cup {n}) <= Cardinality(K) + 1
        BY <1>4, OneMore
      <3>4. Cardinality(K) + 1 <= QueueLimit[c]
        BY <1>1, <1>4, <3>2
      <3>5. QueueLimit[c] \in Nat /\ Cardinality(K) \in Nat
        BY <1>1, <1>4
      <3>6. Cardinality(K \cup {n}) <= QueueLimit[c]
        <4> HIDE DEF n, K, c
        <4>1. QED
          BY <3>3, <3>4, <3>5
      <3>7. QED
        BY <3>1, <3>6
    <2>2. CASE Full(r)
      <3>1. DropOldest[c] /\ Victim(r) # {}
        BY <1>1, <2>2 DEF QueueFull
      <3>2. PICK v \in Victim(r) : v \in K
        BY <3>1, VictimIsSame
      <3>3. OfClient(jobs', c) \subseteq (K \ {v}) \cup {n}
        BY <1>6, <2>2, <3>1, <3>2 DEF Replaced
      <3>4. /\ IsFiniteSet(K \ {v})
            /\ Cardinality(K \ {v}) = Cardinality(K) - 1
        BY <1>4, <3>2, FS_RemoveElement
      <3>5. /\ IsFiniteSet((K \ {v}) \cup {n})
            /\ Cardinality((K \ {v}) \cup {n}) <= Cardinality(K)
            /\ Cardinality((K \ {v}) \cup {n}) \in Nat
        <4>1. Cardinality(K) \in Nat /\ Cardinality(K \ {v}) + 1 = Cardinality(K)
          BY <1>4, <3>4
        <4>2. /\ IsFiniteSet((K \ {v}) \cup {n})
              /\ Cardinality((K \ {v}) \cup {n}) <= Cardinality(K \ {v}) + 1
              /\ Cardinality((K \ {v}) \cup {n}) \in Nat
          BY <3>4, OneMore
        <4> HIDE DEF n, K, c
        <4>3. QED
          BY <4>1, <4>2
      <3>6. /\ Cardinality(OfClient(jobs', c)) <= Cardinality((K \ {v}) \cup {n})
            /\ Cardinality(OfClient(jobs', c)) \in Nat
        <4> HIDE DEF n, K
        <4>1. QED
          BY <3>3, <3>5, FS_Subset, FS_CardinalityType
      <3>7. Cardinality(OfClient(jobs, c)) \in Nat
        BY <1>4, FS_CardinalityType
      <3>8. Cardinality(K) <= QueueLimit[c] /\ QueueLimit[c] \in Nat
        BY <1>1, <1>4, <1>5, <3>7
      <3>9. QED
        BY <1>4, <3>5, <3>6, <3>8
    <2>3. QED
      BY <2>1, <2>2
  <1>8. ASSUME NEW d \in Clients, d # c
        PROVE  Cardinality(OfClient(jobs', d)) <= QueueLimit[d]
    <2>1. OfClient(jobs', d) \subseteq OfClient(jobs, d)
      BY <1>1, <1>8, FreshIsQueued DEF OfClient
    <2>2. IsFiniteSet(OfClient(jobs, d))
      BY <1>1, FS_Subset DEF OfClient
    <2>3. /\ Cardinality(OfClient(jobs', d)) <= Cardinality(OfClient(jobs, d))
          /\ Cardinality(OfClient(jobs', d)) \in Nat
          /\ Cardinality(OfClient(jobs, d)) \in Nat
      BY <2>1, <2>2, FS_Subset, FS_CardinalityType
    <2>4. Cardinality(OfClient(jobs, d)) <= QueueLimit[d]
      BY DEF LimitInv, QueueWithinLimit, OfClient
    <2>5. QED
      BY <1>1, <2>3, <2>4
  <1>9. QED
    BY <1>2, <1>7, <1>8 DEF QueueWithinLimit, OfClient

LEMMA ShrinkLimit ==
  ASSUME LimitInv, jobs' \subseteq jobs
  PROVE  IsFiniteSet(jobs') /\ QueueWithinLimit'
  <1>1. IsFiniteSet(jobs) /\ IsFiniteSet(jobs')
    BY FS_Subset DEF LimitInv
  <1>2. ASSUME NEW c \in Clients
        PROVE  Cardinality(OfClient(jobs', c)) <= QueueLimit[c]
    <2>1. OfClient(jobs', c) \subseteq OfClient(jobs, c)
      BY DEF OfClient
    <2>2. IsFiniteSet(OfClient(jobs, c))
      BY <1>1, FS_Subset DEF OfClient
    <2>3. /\ Cardinality(OfClient(jobs', c)) <= Cardinality(OfClient(jobs, c))
          /\ Cardinality(OfClient(jobs', c)) \in Nat
          /\ Cardinality(OfClient(jobs, c)) \in Nat
      BY <2>1, <2>2, FS_Subset, FS_CardinalityType
    <2>4. Cardinality(OfClient(jobs, c)) <= QueueLimit[c]
      BY DEF LimitInv, QueueWithinLimit, OfClient
    <2>5. QED
      BY <2>3, <2>4, ConfigAssumption
  <1>3. QED
    BY <1>1, <1>2 DEF QueueWithinLimit, OfClient

(* However arrivals, coalescing, overflow, cancellation and expiry         *)
(* interleave, no client holds more than its queue_limit of the queue.     *)
THEOREM QueueLimits == Spec => []QueueWithinLimit
  <1>1. Init => LimitInv
    <2>1. SUFFICES ASSUME Init PROVE LimitInv
      OBVIOUS
    <2>2. jobs = {}
      BY <2>1 DEF Init
    <2>3. \A c \in Clients : Cardinality({j \in jobs : j.client = c}) = 0
      <3>1. \A c \in Clients : {j \in jobs : j.client = c} = {}
        BY <2>2
      <3>2. QED
        BY <3>1, FS_EmptySet
    <2>4. QED
      BY <2>1, <2>2, <2>3, InitType, FS_EmptySet, ConfigAssumption
         DEF LimitInv, QueueWithinLimit
  <1>2. LimitInv /\ [Next]_vars => LimitInv'
    <2>1. SUFFICES ASSUME LimitInv, [Next]_vars PROVE LimitInv'
      OBVIOUS
    <2>2. TypeOK'
      BY <2>1, NextType DEF LimitInv
    <2>3. CASE jobs' \subseteq jobs
      BY <2>1, <2>2, <2>3, ShrinkLimit DEF LimitInv
    <2>4. CASE \E r \in Requests : Admit(r)
      BY <2>1, <2>2, <2>4, AdmitLimit DEF LimitInv
    <2>5. QED
      BY <2>1, <2>3, <2>4, Steps DEF Arrives, Shrinks, HandsOver
  <1>3. LimitInv => QueueWithinLimit
    BY DEF LimitInv
  <1>4. QED
    BY <1>1, <1>2, <1>3, PTL DEF Spec

------------------------------------------------------------------------------
(* The scheduler implements Admission *)

LEMMA AdmissionStep ==
  ASSUME TypeOK, Numbered, [Next]_vars
  PROVE  [A!Next]_(A!vars)
  <1> DEFINE waiting == {j.seq : j \in jobs}
             serving == {j.seq : j \in InService}
  <1>0. None \notin Job /\ jobs \subseteq Job /\ active \in Job \cup {None}
    BY NoneAssumption DEF TypeOK
  <1>1. CASE Arrives
    <2>1. PICK r \in Requests : jobs' \subseteq jobs \cup {NewJob(r)}
      BY <1>1, FreshIsQueued DEF Arrives, Admit
    <2>2. NewJob(r).seq = sequence + 1 /\ sequence' = sequence + 1
      BY <1>1 DEF NewJob, Arrives
    <2>3. waiting' \subseteq waiting \cup {sequence'}
      BY <2>1, <2>2
    <2>4. serving' = serving
      BY <1>1 DEF Arrives, InService
    <2>5. QED
      BY <2>2, <2>3, <2>4 DEF A!Next, A!Arrive
  <1>2. CASE Shrinks
    <2>1. CASE active' = active /\ jobs' \subseteq jobs
      <3>1. waiting' \subseteq waiting /\ serving' = serving
        BY <2>1 DEF InService
      <3>2. QED
        BY <1>2, <3>1 DEF Shrinks, A!Next, A!Withdraw
    <2>2. CASE active # None /\ active' = None /\ jobs' = jobs
      <3>1. waiting' = waiting /\ serving # {} /\ serving' = {}
        BY <2>2 DEF InService
      <3>2. QED
        BY <1>2, <3>1 DEF Shrinks, A!Next, A!Finish
    <2>3. QED
      BY <1>2, <2>1, <2>2 DEF Shrinks
  <1>3. CASE HandsOver
    <2>1. PICK j \in jobs : active' = j /\ jobs' \subseteq jobs \ {j}
      BY <1>3 DEF HandsOver
    <2>2. serving = {} /\ serving' = {j.seq} /\ j.seq \in waiting
      BY <1>0, <1>3, <2>1 DEF HandsOver, InService
    <2>3. waiting' \subseteq waiting \ {j.seq}
      BY <2>1 DEF Numbered
    <2>4. QED
      BY <1>3, <2>2, <2>3 DEF HandsOver, A!Next, A!Serve
  <1>4. QED
    BY <1>1, <1>2, <1>3, Steps

(* Every behaviour of the scheduler is one of Admission: a request is      *)
(* served at most once, one at a time, and never after it was withdrawn.   *)
THEOREM Refinement == Spec => KeepsAdmission
  <1>1. Init => A!Init
    BY DEF Init, A!Init, InService
  <1>2. TypeOK /\ Numbered /\ [Next]_vars => [A!Next]_(A!vars)
    BY AdmissionStep
  <1>3. QED
    BY <1>1, <1>2, TypeCorrect, JobsNumbered, PTL
       DEF Spec, KeepsAdmission, A!Spec

------------------------------------------------------------------------------
(* Who may lose a place *)

LEMMA RefusalStep ==
  ASSUME TypeOK, [Next]_vars, sequence' # sequence, ~Admitted
  PROVE  Fresh \subseteq jobs'
  <1>1. PICK r \in Requests : Enqueue(r)
    BY DEF Next, vars, Cancel, Expire, FailQueued, Pause, Resume, Stop, Take,
           FindNothing, Dispatch, HoldTimer, Complete, Reconcile, Tick
  <1>2. ~Admit(r)
    <2>1. NewJob(r).seq > sequence
      BY DEF NewJob, TypeOK
    <2>2. QED
      BY <2>1 DEF Admit, Admitted
  <1>3. QED
    BY <1>1, <1>2, FreshIsQueued DEF Enqueue, Refuse, Closed

(* An arrival that is turned away, for a full queue, for memory or because *)
(* the scheduler is closed, displaces no request that could still be       *)
(* served.                                                                 *)
THEOREM RefusalIsHarmless == Spec => RefusalDropsNobody
  <1>1. TypeOK /\ [Next]_vars
          => [sequence' # sequence /\ ~Admitted => Fresh \subseteq jobs']_vars
    BY RefusalStep
  <1>2. QED
    BY <1>1, TypeCorrect, PTL DEF Spec, RefusalDropsNobody

LEMMA CatchupStep ==
  ASSUME TypeOK, Numbered, [Next]_vars,
         NEW j \in jobs', j.seq > sequence, j.catchup
  PROVE  {k \in Fresh : ~k.catchup} \subseteq jobs'
  <1>1. j \notin jobs
    BY DEF Numbered, TypeOK
  <1>2. PICK r \in Requests : Enqueue(r) /\ Admit(r)
    <2>1. ~(jobs' \subseteq jobs)
      BY <1>1
    <2>2. PICK r \in Requests : Enqueue(r)
      BY <2>1, FreshIsQueued, ChoiceIsFresh
         DEF Next, vars, Cancel, Expire, FailQueued, Pause, Resume, Stop, Take,
             FindNothing, Dispatch, HoldTimer, Complete, Reconcile, Tick
    <2>3. Admit(r)
      BY <2>1, <2>2, FreshIsQueued DEF Enqueue, Refuse, Closed
    <2>4. QED
      BY <2>2, <2>3
  <1>3. j = NewJob(r) /\ r.catchup
    BY <1>1, <1>2, FreshIsQueued DEF Admit, NewJob
  <1>4. r.key = None
    BY <1>3, ClientsAssumption
  <1>5. \A k \in Replaced(r) : k.catchup
    BY <1>3, <1>4 DEF Replaced, Superseded, Victim, First
  <1>6. QED
    BY <1>2, <1>5 DEF Admit

(* Catch-up work, which is background work, takes a place in a full queue  *)
(* from background work only.                                              *)
THEOREM CatchupIsHarmless == Spec => CatchupDisplacesNoLive
  <1>1. TypeOK /\ Numbered /\ [Next]_vars
          => [\A j \in jobs' : j.seq > sequence /\ j.catchup
                => {k \in Fresh : ~k.catchup} \subseteq jobs']_vars
    BY CatchupStep
  <1>2. QED
    BY <1>1, TypeCorrect, JobsNumbered, PTL DEF Spec, CatchupDisplacesNoLive

==============================================================================
