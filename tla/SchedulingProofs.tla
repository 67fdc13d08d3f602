--------------------------- MODULE SchedulingProofs ---------------------------
(***************************************************************************)
(* Proofs about Scheduler, second part: what take() chooses, when it finds *)
(* nothing to run, and what coalescing leaves in the queue.                *)
(***************************************************************************)
EXTENDS SchedulerProofs, WellFoundedInduction

(* What the requests of both classes look like in the queue: catch-up is   *)
(* never the interactive client's and never coalesced.                     *)
ClassesApart ==
  \A j \in jobs : j.catchup => j.key = None /\ j.client # Odysseus

(* Arrival order and the clock agree.                                      *)
InOrder ==
  /\ \A j \in jobs : j.at <= now
  /\ \A j, k \in jobs : j.seq < k.seq => j.at <= k.at

(* What a loop that sleeps knows of the queue. It stays true while the     *)
(* queue shrinks and the hold runs out, which wakes nobody.                *)
ParkedOverNothing == loop = "parked" /\ Open => Fresh = {}

TimedByHold ==
  loop = "timed" /\ Open /\ Leased /\ Strict =>
    \A k \in Fresh : ~k.catchup => LowerPriorityThanLease(k)

(* Between a completion and the next dispatch the lease is the hold that   *)
(* the completion began, unless a health probe reported another model.     *)
HoldIsLease ==
  active = None /\ hold.client # None =>
    leaseClient = hold.client /\ leaseUntil = hold.until

(* A batch without a policy has not served anything yet.                   *)
BatchHasPolicy == batchPolicy = None => batchCount = 0

QueueInv == LimitInv /\ Numbered /\ ClassesApart /\ InOrder /\ OnePerKey

------------------------------------------------------------------------------
(* First and best elements of finite sets *)

(* The induction of this module, over the subsets of a finite set: among   *)
(* those that lack a property, one has only subsets that do not lack it.   *)
LEMMA MinimalSubset ==
  ASSUME NEW S, IsFiniteSet(S), NEW Lacking \in SUBSET (SUBSET S), Lacking # {}
  PROVE  \E T \in Lacking : \A U \in SUBSET T : U # T => U \notin Lacking
  <1>1. IsWellFoundedOn(StrictSubsetOrdering(S), SUBSET S)
    BY FS_StrictSubsetOrderingWellFounded, FS_FiniteSubsetsOfFinite
  <1>2. PICK T \in Lacking : \A U \in Lacking : ~(<<U, T>> \in StrictSubsetOrdering(S))
    BY <1>1, WFMin
  <1>3. ASSUME NEW U \in SUBSET T, U # T, U \in Lacking PROVE FALSE
    <2>1. <<U, T>> \in StrictSubsetOrdering(S)
      BY <1>3 DEF StrictSubsetOrdering
    <2>2. QED
      BY <1>2, <1>3, <2>1
  <1>4. QED
    BY <1>3

LEMMA FiniteHasFirst ==
  ASSUME NEW S, IsFiniteSet(S), S # {}, NEW R,
         \A x, y \in S : <<x, y>> \in R \/ <<y, x>> \in R,
         \A x, y, z \in S : <<x, y>> \in R /\ <<y, z>> \in R => <<x, z>> \in R
  PROVE  \E x \in S : \A y \in S : <<x, y>> \in R
  <1> DEFINE Has(T) == \E x \in T : \A y \in T : <<x, y>> \in R
             Lacking == {T \in SUBSET S : T # {} /\ ~Has(T)}
  <1>1. SUFFICES ASSUME ~Has(S) PROVE FALSE
    OBVIOUS
  <1>2. S \in Lacking /\ Lacking \in SUBSET (SUBSET S)
    BY <1>1
  <1>3. \E T \in Lacking : \A U \in SUBSET T : U # T => U \notin Lacking
    <2> HIDE DEF Lacking
    <2>1. QED
      BY <1>2, MinimalSubset
  <1>4. PICK T \in Lacking : \A U \in SUBSET T : U # T => U \notin Lacking
    BY <1>3
  <1>5. PICK x \in T : TRUE
    BY <1>4
  <1>6. CASE T = {x}
    <2>1. x \in S
      BY <1>4, <1>5
    <2>2. QED
      BY <1>4, <1>6, <2>1
  <1>7. CASE T # {x}
    <2> DEFINE U == T \ {x}
    <2>1. U # {} /\ U \in SUBSET S /\ U \in SUBSET T /\ U # T
      BY <1>4, <1>5, <1>7
    <2>2. Has(U)
      BY <1>4, <2>1
    <2>3. PICK y \in U : \A z \in U : <<y, z>> \in R
      BY <2>2
    <2>4. x \in S /\ y \in S /\ T \subseteq S /\ T = U \cup {x}
      BY <1>4, <1>5, <2>3
    <2>5. CASE <<y, x>> \in R
      BY <1>4, <2>3, <2>4, <2>5
    <2>6. CASE <<x, y>> \in R
      <3>1. \A z \in T : <<x, z>> \in R
        BY <2>3, <2>4, <2>6
      <3>2. QED
        BY <1>4, <1>5, <3>1
    <2>7. QED
      BY <2>4, <2>5, <2>6
  <1>8. QED
    BY <1>6, <1>7

LEMMA HasOldest ==
  ASSUME NEW S, IsFiniteSet(S), S # {}, S \subseteq Job
  PROVE  \E j \in S : \A k \in S : j.seq <= k.seq
  <1> DEFINE R == {p \in S \X S : p[1].seq <= p[2].seq}
  <1>1. \A j \in S : j.seq \in Nat
    BY DEF Job
  <1>2. \A x, y \in S : (<<x, y>> \in R) <=> x.seq <= y.seq
    OBVIOUS
  <1>3. \A x, y \in S : <<x, y>> \in R \/ <<y, x>> \in R
    <2>1. \A x, y \in S : x.seq <= y.seq \/ y.seq <= x.seq
      BY <1>1
    <2>2. QED
      BY <1>2, <2>1
  <1>4. \A x, y, z \in S : <<x, y>> \in R /\ <<y, z>> \in R => <<x, z>> \in R
    <2>1. \A x, y, z \in S : x.seq <= y.seq /\ y.seq <= z.seq => x.seq <= z.seq
      BY <1>1
    <2>2. QED
      BY <1>2, <2>1
  <1>5. \E x \in S : \A y \in S : <<x, y>> \in R
    <2> HIDE DEF R
    <2>1. QED
      BY <1>3, <1>4, FiniteHasFirst
  <1>6. QED
    BY <1>2, <1>5

(* Every request that could be served stands behind the head of its lane.  *)
LEMMA LaneHasHead ==
  ASSUME TypeOK, IsFiniteSet(jobs), NEW k \in Fresh
  PROVE  \E h \in Heads : /\ h.client = k.client /\ h.model = k.model
                          /\ h.catchup = k.catchup /\ h.seq <= k.seq
  <1> DEFINE L == {j \in Fresh : j.client = k.client /\ j.model = k.model
                                   /\ j.catchup = k.catchup}
  <1>1. L \subseteq Job /\ k \in L /\ L \subseteq jobs /\ L \subseteq Fresh
    BY FreshIsQueued DEF TypeOK
  <1>2. IsFiniteSet(L)
    BY <1>1, FS_Subset
  <1>3. PICK h \in L : \A j \in L : h.seq <= j.seq
    <2> HIDE DEF L
    <2>1. QED
      BY <1>1, <1>2, HasOldest
  <1>4. h \in Heads
    BY <1>3 DEF Heads
  <1>5. QED
    BY <1>1, <1>3, <1>4

(* In strict mode the order of best() is total, and one candidate is best. *)
LEMMA StrictHasBest ==
  ASSUME TypeOK, IsFiniteSet(jobs), Strict, NEW S \in SUBSET jobs, S # {}
  PROVE  Best(S) # {}
  <1> DEFINE R == {p \in S \X S : Before(p[1], p[2])}
  <1>1. /\ IsFiniteSet(S) /\ S \subseteq Job
        /\ \A j \in S : /\ j.seq \in Nat /\ j.at \in Nat /\ j.client \in Clients
                        /\ EffectivePriority(j) = Priority[j.client]
                        /\ Priority[j.client] \in Int
    BY FS_Subset, ConfigAssumption DEF TypeOK, Job, EffectivePriority
  <1>2. \A x, y \in S : (<<x, y>> \in R) <=> Before(x, y)
    OBVIOUS
  <1>3. \A x, y \in S : Before(x, y) \/ Before(y, x)
    BY <1>1 DEF Before
  <1>4. \A x, y, z \in S : Before(x, y) /\ Before(y, z) => Before(x, z)
    BY <1>1 DEF Before
  <1>5. \E x \in S : \A y \in S : <<x, y>> \in R
    <2>1. \A x, y \in S : <<x, y>> \in R \/ <<y, x>> \in R
      BY <1>2, <1>3
    <2>2. \A x, y, z \in S : <<x, y>> \in R /\ <<y, z>> \in R => <<x, z>> \in R
      BY <1>2, <1>4
    <2> HIDE DEF R
    <2>3. QED
      BY <1>1, <2>1, <2>2, FiniteHasFirst
  <1>6. QED
    BY <1>2, <1>5 DEF Best

------------------------------------------------------------------------------
(* Coalescing, classes and arrival order *)

LEMMA TimePasses == ASSUME TypeOK, [Next]_vars PROVE now' >= now /\ now' \in Nat
  BY DEF TypeOK, Next, vars, Enqueue, Cancel, Expire, FailQueued, Pause, Resume, Stop,
         Take, FindNothing, Dispatch, HoldTimer, Complete, Reconcile, Tick

LEMMA AdmitTakesNoTime ==
  ASSUME [Next]_vars, NEW j \in jobs', j \notin jobs
  PROVE  \E r \in Requests : Enqueue(r) /\ Admit(r) /\ now' = now /\ j = NewJob(r)
  <1>1. ~(jobs' \subseteq jobs)
    OBVIOUS
  <1>2. PICK r \in Requests : Enqueue(r)
    BY <1>1, FreshIsQueued, ChoiceIsFresh
       DEF Next, vars, Cancel, Expire, FailQueued, Pause, Resume, Stop, Take,
           FindNothing, Dispatch, HoldTimer, Complete, Reconcile, Tick
  <1>3. Admit(r)
    BY <1>1, <1>2, FreshIsQueued DEF Enqueue, Refuse, Closed
  <1>4. QED
    BY <1>2, <1>3, FreshIsQueued DEF Enqueue, Admit

LEMMA ClassesStep ==
  ASSUME ClassesApart, [Next]_vars
  PROVE  ClassesApart'
  <1>1. SUFFICES ASSUME NEW j \in jobs', j.catchup
                 PROVE  j.key = None /\ j.client # Odysseus
    BY DEF ClassesApart
  <1>2. CASE j \in jobs
    BY <1>1, <1>2 DEF ClassesApart
  <1>3. CASE j \notin jobs
    <2>1. PICK r \in Requests : j = NewJob(r)
      BY <1>3, AdmitTakesNoTime
    <2>2. QED
      BY <1>1, <2>1, ClientsAssumption DEF NewJob
  <1>4. QED
    BY <1>2, <1>3

LEMMA InOrderStep ==
  ASSUME TypeOK, Numbered, InOrder, [Next]_vars
  PROVE  InOrder'
  <1>1. /\ now \in Nat /\ now' \in Nat /\ now <= now' /\ sequence \in Nat
        /\ jobs \subseteq Job /\ jobs' \subseteq Job
    BY TimePasses, NextType DEF TypeOK
  <1>2. \A j \in jobs \cup jobs' : j.at \in Nat /\ j.seq \in Nat
    BY <1>1 DEF Job
  <1>3. ASSUME NEW j \in jobs', j \notin jobs
        PROVE  j.at = now /\ now' = now /\ j.seq = sequence + 1
    BY <1>3, AdmitTakesNoTime DEF NewJob
  <1>4. \A j \in jobs : j.seq <= sequence
    BY <1>1 DEF Numbered
  <1>5. ASSUME NEW j \in jobs' PROVE j.at <= now'
    <2>1. CASE j \in jobs
      BY <1>1, <1>2, <2>1 DEF InOrder
    <2>2. CASE j \notin jobs
      BY <1>1, <1>3, <2>2
    <2>3. QED
      BY <2>1, <2>2
  <1>6. ASSUME NEW j \in jobs', NEW k \in jobs', j.seq < k.seq PROVE j.at <= k.at
    <2>1. CASE j \in jobs /\ k \in jobs
      BY <1>6, <2>1 DEF InOrder
    <2>2. CASE j \in jobs /\ k \notin jobs
      BY <1>3, <2>2 DEF InOrder
    <2>3. CASE j \notin jobs
      <3>1. k.seq <= sequence + 1
        BY <1>1, <1>2, <1>3, <1>4
      <3>2. QED
        BY <1>1, <1>2, <1>3, <1>6, <2>3, <3>1
    <2>4. QED
      BY <2>1, <2>2, <2>3
  <1>7. QED
    BY <1>5, <1>6 DEF InOrder

(* The job a new one with its client and key supersedes is the only one.   *)
LEMMA DuplicateReplaced ==
  ASSUME TypeOK, ClassesApart, OnePerKey, NEW r \in Requests, NEW k \in Fresh,
         k.client = r.client, k.key = r.key, k.key # None
  PROVE  k \in Replaced(r)
  <1> DEFINE D == {j \in Same(r) : j.key = r.key /\ j.catchup = r.catchup}
  <1>1. k \in jobs /\ jobs \subseteq Job /\ r \in Request
    BY FreshIsQueued, ClientsAssumption DEF TypeOK
  <1>2. k.catchup \in BOOLEAN /\ r.catchup \in BOOLEAN /\ k.seq \in Nat
    BY <1>1 DEF Job, Request
  <1>3. ~k.catchup /\ ~r.catchup
    BY <1>1, ClientsAssumption DEF ClassesApart
  <1>4. k.catchup = r.catchup
    BY <1>2, <1>3
  <1>5. k \in D
    BY <1>4 DEF Same
  <1>6. \A j \in D : j = k
    BY <1>1, FreshIsQueued DEF Same, OnePerKey
  <1>7. k \in First(D)
    BY <1>2, <1>5, <1>6 DEF First
  <1>8. QED
    BY <1>7 DEF Replaced, Superseded

LEMMA OnePerKeyStep ==
  ASSUME TypeOK, ClassesApart, OnePerKey, [Next]_vars
  PROVE  OnePerKey'
  <1>1. CASE jobs' \subseteq jobs
    BY <1>1 DEF OnePerKey
  <1>2. CASE ~(jobs' \subseteq jobs)
    <2>1. PICK n \in jobs' : n \notin jobs
      BY <1>2
    <2>2. PICK r \in Requests : Admit(r)
      BY <2>1, AdmitTakesNoTime
    <2>3. jobs' = (Fresh \ Replaced(r)) \cup {NewJob(r)} /\ Fresh \subseteq jobs
      BY <2>2, FreshIsQueued DEF Admit
    <2>4. NewJob(r).client = r.client /\ NewJob(r).key = r.key
      BY DEF NewJob
    <2>5. \A k \in Fresh \ Replaced(r) :
            ~(k.client = r.client /\ k.key = r.key /\ k.key # None)
      BY DuplicateReplaced
    <2>6. QED
      BY <2>3, <2>4, <2>5 DEF OnePerKey
  <1>3. QED
    BY <1>1, <1>2

LEMMA QueueInitially == Init => QueueInv
  <1>1. SUFFICES ASSUME Init PROVE QueueInv
    OBVIOUS
  <1>2. jobs = {} /\ active = None
    BY <1>1 DEF Init
  <1>3. TypeOK
    BY <1>1, InitType
  <1>4. IsFiniteSet(jobs)
    BY <1>2, FS_EmptySet
  <1>5. QueueWithinLimit
    <2>1. \A c \in Clients : {j \in jobs : j.client = c} = {}
      BY <1>2
    <2>2. \A c \in Clients : Cardinality({j \in jobs : j.client = c}) = 0
      BY <2>1, FS_EmptySet
    <2>3. QED
      BY <2>2, ConfigAssumption DEF QueueWithinLimit
  <1>6. Numbered
    BY <1>2 DEF Numbered, InService
  <1>7. ClassesApart /\ InOrder /\ OnePerKey
    BY <1>2 DEF ClassesApart, InOrder, OnePerKey
  <1>8. QED
    BY <1>3, <1>4, <1>5, <1>6, <1>7 DEF QueueInv, LimitInv

LEMMA LimitStep == ASSUME LimitInv, [Next]_vars PROVE LimitInv'
  <1>1. TypeOK'
    BY NextType DEF LimitInv
  <1>2. CASE jobs' \subseteq jobs
    BY <1>1, <1>2, ShrinkLimit DEF LimitInv
  <1>3. CASE \E r \in Requests : Admit(r)
    BY <1>1, <1>3, AdmitLimit DEF LimitInv
  <1>4. QED
    BY <1>2, <1>3, Steps DEF Arrives, Shrinks, HandsOver

LEMMA QueueStep == QueueInv /\ [Next]_vars => QueueInv'
  <1>1. SUFFICES ASSUME QueueInv, [Next]_vars PROVE QueueInv'
    OBVIOUS
  <1>2. LimitInv' /\ Numbered'
    BY <1>1, LimitStep, NumberedStep DEF QueueInv, LimitInv
  <1>3. ClassesApart'
    BY <1>1, ClassesStep DEF QueueInv
  <1>4. InOrder'
    BY <1>1, InOrderStep DEF QueueInv, LimitInv
  <1>5. OnePerKey'
    BY <1>1, OnePerKeyStep DEF QueueInv, LimitInv
  <1>6. QED
    BY <1>2, <1>3, <1>4, <1>5 DEF QueueInv

LEMMA QueueAlways == Spec => []QueueInv
  <1>1. QED
    BY QueueInitially, QueueStep, PTL DEF Spec

(* A client never has two queued requests with one deduplication key,      *)
(* although enqueue() looks for one duplicate only: there is only one to   *)
(* find, because the class it also compares says nothing of a request that *)
(* has a key.                                                              *)
THEOREM NoDuplicates == Spec => []OnePerKey
  <1>1. QueueInv => OnePerKey
    BY DEF QueueInv
  <1>2. QED
    BY <1>1, QueueAlways, PTL

------------------------------------------------------------------------------
(* When the loop may sleep *)

LEMMA CandidatesAreHeads == Candidates \subseteq Heads /\ Heads \subseteq Fresh
  BY DEF Candidates, Heads

(* Only when nothing live waits does background work come up.              *)
LEMMA LiveComesFirst ==
  ASSUME TypeOK, IsFiniteSet(jobs), NEW j \in Candidates, j.catchup, NEW k \in Fresh
  PROVE  k.catchup
  <1>1. SUFFICES ASSUME ~k.catchup PROVE FALSE
    OBVIOUS
  <1>2. PICK h \in Heads : h.catchup = k.catchup
    BY LaneHasHead
  <1>3. h \in {i \in Heads : ~i.catchup}
    BY <1>1, <1>2
  <1>4. QED
    BY <1>3 DEF Candidates

LEMMA NoCandidateNoWork ==
  ASSUME TypeOK, IsFiniteSet(jobs), Candidates = {}
  PROVE  Fresh = {}
  <1>1. Heads = {}
    BY DEF Candidates
  <1>2. QED
    BY <1>1, LaneHasHead

(* In strict mode the best candidate stands for the queue: if the hold is  *)
(* against it, it is against every live request.                           *)
LEMMA HoldBindsAll ==
  ASSUME TypeOK, IsFiniteSet(jobs), Strict, Leased, StrictChoice = {},
         NEW k \in Fresh, ~k.catchup
  PROVE  LowerPriorityThanLease(k)
  <1>1. jobs \subseteq Job /\ Fresh \subseteq jobs /\ Heads \subseteq Fresh
    BY FreshIsQueued, CandidatesAreHeads DEF TypeOK
  <1>2. PICK h \in Heads : h.client = k.client /\ h.catchup = k.catchup
    BY LaneHasHead
  <1>3. h \in {i \in Heads : ~i.catchup}
    BY <1>2
  <1>4. h \in Candidates
    BY <1>3 DEF Candidates
  <1>5. Candidates \in SUBSET jobs /\ Candidates # {}
    BY <1>1, <1>4, CandidatesAreHeads
  <1>6. PICK b \in Best(Candidates) : TRUE
    BY <1>5, StrictHasBest
  <1>7. LowerPriorityThanLease(b)
    BY <1>6 DEF StrictChoice
  <1>8. Before(b, h) /\ b \in Candidates
    BY <1>4, <1>6 DEF Best
  <1>9. /\ b \in Job /\ h \in Job
        /\ EffectivePriority(b) = Priority[b.client]
        /\ EffectivePriority(h) = Priority[h.client]
        /\ Priority[b.client] \in Int /\ Priority[h.client] \in Int
    BY <1>1, <1>5, <1>8, ConfigAssumption DEF EffectivePriority, Job
  <1>10. leaseClient # None => Priority[leaseClient] \in Int
    BY ConfigAssumption DEF TypeOK
  <1>11. LowerPriorityThanLease(h)
    <2>1. /\ leaseClient # None /\ b.client # Odysseus
          /\ leaseClient = Odysseus \/ Priority[b.client] < Priority[leaseClient]
      BY <1>7 DEF LowerPriorityThanLease
    <2>2. h.client # Odysseus /\ Priority[b.client] >= Priority[h.client]
      BY <1>8, <1>9, <2>1 DEF Before
    <2>3. h.client # leaseClient
      BY <1>9, <1>10, <2>1, <2>2
    <2>4. leaseClient = Odysseus \/ Priority[h.client] < Priority[leaseClient]
      BY <1>9, <1>10, <2>1, <2>2
    <2>5. QED
      BY <2>1, <2>2, <2>3, <2>4 DEF LowerPriorityThanLease
  <1>12. QED
    BY <1>2, <1>11 DEF LowerPriorityThanLease

(* While a loop sleeps, requests may only disappear.                       *)
LEMMA Asleep ==
  ASSUME TypeOK, [Next]_vars, ~Take, loop' \in {"parked", "timed"}, Open'
  PROVE  /\ loop = loop' /\ Open
         /\ Fresh' \subseteq Fresh /\ lease' = lease
         /\ Leased' => Leased
  <1>1. now' >= now /\ now \in Nat /\ now' \in Nat
    BY TimePasses DEF TypeOK
  <1>2. loop \in {"ready", "serving", "parked", "timed"} /\ leaseUntil \in Nat
    BY DEF TypeOK
  <1>3. ASSUME Wake PROVE FALSE
    BY <1>2, <1>3 DEF Wake
  <1>4. ASSUME NEW r \in Requests, Enqueue(r)
        PROVE  /\ loop = loop' /\ Open /\ jobs' \subseteq jobs /\ lease' = lease
    BY <1>3, <1>4, FreshIsQueued DEF Enqueue, Admit, Refuse, Closed, Open
  <1>5. ASSUME Expire \/ FailQueued \/ Tick \/ UNCHANGED vars
        PROVE  /\ loop = loop' /\ Open /\ jobs' \subseteq jobs /\ lease' = lease
    <2>1. CASE Expire
      BY <2>1, FreshIsQueued DEF Expire, Open
    <2>2. CASE FailQueued
      BY <2>2 DEF FailQueued, Open
    <2>3. CASE Tick
      BY <2>3 DEF Tick, Open
    <2>4. CASE UNCHANGED vars
      BY <2>4 DEF vars, Open
    <2>5. QED
      BY <1>5, <2>1, <2>2, <2>3, <2>4
  <1>6. ~(\E j \in jobs : Cancel(j)) /\ ~Pause /\ ~Resume /\ ~Stop
    BY <1>3 DEF Cancel, Pause, Resume, Stop
  <1>7. ~HoldTimer /\ ~Complete /\ ~(\E m \in Reported : Reconcile(m))
    BY <1>3 DEF HoldTimer, Complete, Reconcile
  <1>8. loop = loop' /\ Open /\ jobs' \subseteq jobs /\ lease' = lease
    BY <1>4, <1>5, <1>6, <1>7 DEF Next
  <1>9. jobs \subseteq Job /\ \A j \in Job : Deadline(j) \in Nat
    BY ConfigAssumption DEF TypeOK, Deadline, Job
  <1>10. Fresh' \subseteq Fresh
    BY <1>1, <1>8, <1>9 DEF Fresh, Deadline
  <1>11. Leased' => Leased
    BY <1>1, <1>2, <1>8 DEF Leased, lease
  <1>12. QED
    BY <1>8, <1>10, <1>11

SleepInv == ParkedOverNothing /\ TimedByHold

LEMMA TakeSleeps ==
  ASSUME TypeOK, IsFiniteSet(jobs), Take
  PROVE  SleepInv'
  <1>1. CASE \E j \in Choice : Dispatch(j)
    BY <1>1 DEF Dispatch, SleepInv, ParkedOverNothing, TimedByHold
  <1>2. CASE FindNothing
    <2>1. /\ Open' = Open /\ Leased' = Leased /\ now' = now /\ lease' = lease
          /\ loop' = IF Open /\ Candidates # {} THEN "timed" ELSE "parked"
      BY <1>2 DEF FindNothing, Open, Leased, lease
    <2>2. Open => Fresh' = Fresh
      BY <1>2 DEF FindNothing, Fresh, Deadline
    <2>3. ParkedOverNothing'
      <3>1. SUFFICES ASSUME loop' = "parked", Open' PROVE Fresh' = {}
        BY DEF ParkedOverNothing
      <3>2. Candidates = {}
        BY <2>1, <3>1
      <3>3. QED
        BY <2>1, <2>2, <3>1, <3>2, NoCandidateNoWork
    <2>4. TimedByHold'
      <3>1. SUFFICES ASSUME Open', Leased', Strict, NEW k \in Fresh', ~k.catchup
                     PROVE  LowerPriorityThanLease(k)'
        BY DEF TimedByHold
      <3>2. Open /\ Leased /\ k \in Fresh /\ Choice = {}
        BY <1>2, <2>1, <2>2, <3>1 DEF FindNothing
      <3>3. ~OnlyBackground
        <4>1. PICK h \in Heads : h.catchup = k.catchup
          BY <3>2, LaneHasHead
        <4>2. h \in {i \in Heads : ~i.catchup}
          BY <3>1, <4>1
        <4>3. h \in Candidates /\ ~h.catchup
          BY <4>2 DEF Candidates
        <4>4. QED
          BY <4>3 DEF OnlyBackground
      <3>4. StrictChoice = {}
        BY <3>1, <3>2, <3>3 DEF Choice
      <3>5. LowerPriorityThanLease(k)
        BY <3>1, <3>2, <3>4, HoldBindsAll
      <3>6. QED
        BY <2>1, <3>5 DEF LowerPriorityThanLease, lease
    <2>5. QED
      BY <2>3, <2>4 DEF SleepInv
  <1>3. QED
    BY <1>1, <1>2 DEF Take

LEMMA SleepStep ==
  ASSUME TypeOK, IsFiniteSet(jobs), SleepInv, [Next]_vars
  PROVE  SleepInv'
  <1>1. CASE Take
    BY <1>1, TakeSleeps
  <1>2. CASE ~Take
    <2>1. ParkedOverNothing'
      BY <1>2, Asleep DEF SleepInv, ParkedOverNothing
    <2>2. TimedByHold'
      <3>1. SUFFICES ASSUME loop' = "timed", Open', Leased', Strict, NEW k \in Fresh',
                            ~k.catchup
                     PROVE  LowerPriorityThanLease(k)'
        BY DEF TimedByHold
      <3>2. loop = "timed" /\ Open /\ Leased /\ k \in Fresh /\ lease' = lease
        BY <1>2, <3>1, Asleep
      <3>3. LowerPriorityThanLease(k)
        BY <3>1, <3>2 DEF SleepInv, TimedByHold
      <3>4. QED
        BY <3>2, <3>3 DEF LowerPriorityThanLease, lease
    <2>3. QED
      BY <2>1, <2>2 DEF SleepInv
  <1>3. QED
    BY <1>1, <1>2

(* The dispatch loop never sleeps through work: it is woken by whatever    *)
(* can add a candidate or lift the hold, and what changes the queue        *)
(* without waking it (a deadline that passes, the expiry timer, a refused  *)
(* arrival, a failed queue) never makes a request eligible.                *)
THEOREM WakeupsSuffice == Spec => []NoLostWakeup
  <1>1. Init => SleepInv
    BY DEF Init, SleepInv, ParkedOverNothing, TimedByHold
  <1>2. QueueInv /\ SleepInv /\ [Next]_vars => SleepInv'
    BY SleepStep DEF QueueInv, LimitInv
  <1>3. QueueInv /\ SleepInv => NoLostWakeup
    <2>1. SUFFICES ASSUME QueueInv, SleepInv PROVE NoLostWakeup
      OBVIOUS
    <2>2. loop = "parked" /\ Open => Candidates = {}
      BY <2>1, CandidatesAreHeads DEF SleepInv, ParkedOverNothing
    <2>3. ASSUME loop = "timed", Open, Leased, Strict PROVE Choice = {}
      <3>1. CASE OnlyBackground
        BY <2>3, <3>1 DEF Choice
      <3>2. CASE ~OnlyBackground
        <4>1. PICK l \in Candidates : ~l.catchup
          BY <3>2 DEF OnlyBackground
        <4>2. \A j \in Candidates : ~j.catchup
          BY <2>1, <4>1, CandidatesAreHeads, LiveComesFirst DEF QueueInv, LimitInv
        <4>3. \A j \in Candidates : LowerPriorityThanLease(j)
          BY <2>1, <2>3, <4>2, CandidatesAreHeads DEF SleepInv, TimedByHold
        <4>4. StrictChoice = {}
          BY <2>3, <4>3 DEF StrictChoice, Best
        <4>5. QED
          BY <2>3, <3>2, <4>4 DEF Choice
      <3>3. QED
        BY <3>1, <3>2
    <2>4. QED
      BY <2>2, <2>3 DEF NoLostWakeup
  <1>4. QED
    BY <1>1, <1>2, <1>3, QueueAlways, PTL DEF Spec

------------------------------------------------------------------------------
(* What is dispatched *)

LEMMA DispatchedIsChosen ==
  ASSUME TypeOK, [Next]_vars, NEW j \in jobs, Dispatched(j)
  PROVE  Open /\ j \in Choice /\ Dispatch(j) /\ j \in Job
  <1>1. j \in Job /\ j # None
    BY NoneAssumption DEF TypeOK
  <1>2. Take
    BY <1>1 DEF Dispatched, Next, vars, Enqueue, Cancel, Expire, FailQueued, Pause, Resume,
           Stop, HoldTimer, Complete, Retire, Reconcile, Tick
  <1>3. ~FindNothing
    BY DEF FindNothing, Dispatched
  <1>4. PICK i \in Choice : Open /\ Dispatch(i)
    BY <1>2, <1>3 DEF Take
  <1>5. i = j
    BY <1>4 DEF Dispatch, Dispatched
  <1>6. QED
    BY <1>1, <1>4, <1>5

LEMMA ChoiceIsCandidate == Choice \subseteq Candidates
  <1>1. StrictChoice \subseteq Candidates
    BY DEF StrictChoice, Best
  <1>2. BalancedChoice \subseteq Candidates
    BY DEF BalancedChoice, AffinityChoice, OldestOverdue, OverdueOther, Best,
           Current, Other
  <1>3. QED
    BY <1>1, <1>2 DEF Choice

LEMMA FreshIsInTime == ASSUME NEW j \in Fresh PROVE Deadline(j) > now
  BY DEF Fresh

(* In both modes a dispatched request is the oldest of its client, model   *)
(* and class, has not outlived its TTL, and is background work only when   *)
(* no live request waits.                                                  *)
THEOREM LanesInOrder == Spec => LaneOrder
  <1>1. ASSUME QueueInv, [Next]_vars, NEW j \in jobs, Dispatched(j)
        PROVE  /\ Deadline(j) > now
               /\ \A k \in Fresh :
                    /\ j.catchup => k.catchup
                    /\ k.client = j.client /\ k.model = j.model /\ k.catchup = j.catchup
                         => j.seq <= k.seq
    <2>1. j \in Candidates /\ j \in Heads /\ j \in Fresh
      BY <1>1, DispatchedIsChosen, ChoiceIsCandidate, CandidatesAreHeads
         DEF QueueInv, LimitInv
    <2>2. Deadline(j) > now
      BY <2>1, FreshIsInTime
    <2>3. \A k \in Fresh : j.catchup => k.catchup
      BY <1>1, <2>1, LiveComesFirst DEF QueueInv, LimitInv
    <2>4. \A k \in Fresh :
            k.client = j.client /\ k.model = j.model /\ k.catchup = j.catchup
              => j.seq <= k.seq
      BY <2>1 DEF Heads
    <2>5. QED
      BY <2>2, <2>3, <2>4
  <1>2. QueueInv /\ [Next]_vars
          => [\A j \in jobs : Dispatched(j) =>
                /\ Deadline(j) > now
                /\ \A k \in Fresh :
                     /\ j.catchup => k.catchup
                     /\ k.client = j.client /\ k.model = j.model
                          /\ k.catchup = j.catchup => j.seq <= k.seq]_vars
    BY <1>1
  <1>3. QED
    BY <1>2, QueueAlways, PTL DEF Spec, LaneOrder

(* The dispatched job of strict mode against the head of another lane.     *)
LEMMA BestIsNotBehind ==
  ASSUME QueueInv, Strict, NEW j \in Best(Candidates), NEW k \in Fresh, k # j
  PROVE  ~Ahead(k, j)
  <1>1. TypeOK /\ IsFiniteSet(jobs) /\ jobs \subseteq Job
    BY DEF QueueInv, LimitInv, TypeOK
  <1>2. j \in Candidates /\ j \in Fresh /\ j \in jobs /\ k \in jobs
    BY FreshIsQueued, CandidatesAreHeads DEF Best
  <1>3. PICK h \in Heads : /\ h.client = k.client /\ h.model = k.model
                           /\ h.catchup = k.catchup /\ h.seq <= k.seq
    BY <1>1, LaneHasHead
  <1>4. h \in jobs
    BY <1>3, FreshIsQueued, CandidatesAreHeads
  <1>5. \A i \in {j, k, h} :
          /\ i.seq \in Nat /\ i.at \in Nat /\ i.client \in Clients /\ i.catchup \in BOOLEAN
          /\ Priority[i.client] \in Int /\ EffectivePriority(i) = Priority[i.client]
          /\ i.catchup => i.client # Odysseus
    BY <1>1, <1>2, <1>4, ConfigAssumption
       DEF Job, EffectivePriority, QueueInv, ClassesApart
  <1>6. j.catchup => k.catchup
    BY <1>1, <1>2, LiveComesFirst
  <1>7. SUFFICES ASSUME Ahead(k, j) PROVE FALSE
    OBVIOUS
  <1>8. j.catchup = k.catchup
    <2>1. SUFFICES ASSUME k.catchup, ~j.catchup PROVE FALSE
      BY <1>5, <1>6
    <2>2. Rank(k)[1] = 2 /\ Rank(j)[1] \in {0, 1}
      BY <1>5, <2>1 DEF Rank
    <2>3. QED
      BY <1>7, <2>2 DEF Ahead
  <1>9. h \in Candidates
    <2>1. CASE j.catchup
      <3>1. {i \in Heads : ~i.catchup} = {}
        BY <1>2, <2>1 DEF Candidates
      <3>2. QED
        BY <3>1, <1>3 DEF Candidates
    <2>2. CASE ~j.catchup
      <3>1. h \in {i \in Heads : ~i.catchup}
        BY <1>3, <1>5, <1>8, <2>2
      <3>2. QED
        BY <3>1 DEF Candidates
    <2>3. QED
      BY <2>1, <2>2
  <1>10. Before(j, h)
    BY <1>9 DEF Best
  <1>11. k.seq < j.seq => h.at <= j.at /\ h.seq < j.seq
    BY <1>2, <1>3, <1>4, <1>5 DEF QueueInv, InOrder
  <1>12. ~(k.seq < j.seq /\ EffectivePriority(j) = EffectivePriority(h)
             /\ (j.client = h.client \/ Odysseus \notin {j.client, h.client}))
    BY <1>5, <1>10, <1>11 DEF Before
  <1>13. CASE k.client = j.client
    <2>1. Rank(k) = Rank(j)
      BY <1>8, <1>13 DEF Rank
    <2>2. Rank(j)[1] \in Int /\ Rank(j)[2] \in Int
      BY <1>5 DEF Rank
    <2>3. k.seq < j.seq
      BY <1>5, <1>7, <2>1, <2>2 DEF Ahead
    <2>4. QED
      BY <1>3, <1>5, <1>12, <1>13, <2>3
  <1>14. CASE k.client # j.client /\ k.client = Odysseus
    BY <1>3, <1>10, <1>14 DEF Before
  <1>15. CASE k.client # j.client /\ j.client = Odysseus
    <2>1. Rank(j) = <<0, 0>> /\ Rank(k)[1] \in {1, 2}
      BY <1>15 DEF Rank
    <2>2. QED
      BY <1>7, <2>1 DEF Ahead
  <1>16. CASE k.client # j.client /\ k.client # Odysseus /\ j.client # Odysseus
    <2>1. Rank(k)[1] = Rank(j)[1] /\ Rank(k)[1] \in {1, 2}
      BY <1>8, <1>16 DEF Rank
    <2>2. Rank(k)[2] = -Priority[k.client] /\ Rank(j)[2] = -Priority[j.client]
      BY <1>16 DEF Rank
    <2>3. \/ Priority[k.client] > Priority[j.client]
          \/ Priority[k.client] = Priority[j.client] /\ k.seq < j.seq
      BY <1>5, <1>7, <2>1, <2>2 DEF Ahead
    <2>4. Priority[j.client] >= Priority[h.client] /\ h.client = k.client
      BY <1>3, <1>5, <1>10, <1>16 DEF Before
    <2>5. QED
      BY <1>3, <1>5, <1>12, <1>16, <2>3, <2>4
  <1>17. QED
    BY <1>13, <1>14, <1>15, <1>16

(* In strict mode no request is dispatched before one that the README's    *)
(* order puts first: take() compares the heads of the lanes only, and      *)
(* enqueue times rather than numbers, and misses nobody by it.             *)
THEOREM StrictlyInOrder == ASSUME Strict PROVE Spec => StrictOrder
  <1>1. ASSUME QueueInv, [Next]_vars, NEW j \in jobs, Dispatched(j)
        PROVE  /\ Deadline(j) > now
               /\ \A k \in Fresh \ {j} : ~Ahead(k, j)
    <2>1. j \in Choice
      BY <1>1, DispatchedIsChosen DEF QueueInv, LimitInv
    <2>2. j \in Fresh
      BY <2>1, ChoiceIsFresh
    <2>3. j \in Best(Candidates)
      BY <2>1, Strict DEF Choice, StrictChoice
    <2>4. QED
      BY <1>1, <2>2, <2>3, FreshIsInTime, BestIsNotBehind
  <1>2. QueueInv /\ [Next]_vars
          => [\A j \in jobs : Dispatched(j) =>
                /\ Deadline(j) > now
                /\ \A k \in Fresh \ {j} : ~Ahead(k, j)]_vars
    BY <1>1
  <1>3. QED
    BY <1>2, QueueAlways, PTL DEF Spec, StrictOrder

------------------------------------------------------------------------------
(* Idle holds and batches *)

LEMMA HoldStep ==
  ASSUME TypeOK, HoldIsLease, [Next]_vars
  PROVE  HoldIsLease'
  <1>1. CASE Complete
    BY <1>1 DEF Complete, Retire, HoldIsLease
  <1>2. ASSUME NEW j \in Choice, Dispatch(j) PROVE HoldIsLease'
    <2>1. j # None
      BY ChoiceIsFresh, FreshIsQueued, NoneAssumption DEF TypeOK
    <2>2. QED
      BY <1>2, <2>1 DEF Dispatch, HoldIsLease
  <1>3. CASE UNCHANGED <<active, lease, hold>>
    BY <1>3 DEF lease, HoldIsLease
  <1>4. ASSUME NEW m \in Reported, Reconcile(m) PROVE HoldIsLease'
    BY <1>4 DEF Reconcile, NoHold, HoldIsLease
  <1>5. QED
    BY <1>1, <1>2, <1>3, <1>4
       DEF Next, vars, Enqueue, Cancel, Expire, FailQueued, Pause, Resume, Stop, Take,
           FindNothing, HoldTimer, Tick

(* Strict mode: through whatever arrivals, pauses and expiries, the idle   *)
(* hold of the client served last is kept against lower-priority and       *)
(* background work, until it ends or a health probe reports another model. *)
THEOREM HoldsAreKept == ASSUME Strict PROVE Spec => HoldRespected
  <1>1. Init => HoldIsLease
    BY DEF Init, NoHold, HoldIsLease
  <1>2. QueueInv /\ HoldIsLease /\ [Next]_vars => HoldIsLease'
    BY HoldStep DEF QueueInv, LimitInv
  <1>3. ASSUME QueueInv, HoldIsLease, [Next]_vars, NEW j \in jobs, Dispatched(j),
               hold.client # None, now < hold.until
        PROVE  /\ ~j.catchup
               /\ \/ j.client \in {hold.client, Odysseus}
                  \/ /\ hold.client # Odysseus
                     /\ Priority[j.client] >= Priority[hold.client]
    <2>1. Open /\ j \in Choice /\ j \in Job /\ TypeOK /\ IsFiniteSet(jobs)
      BY <1>3, DispatchedIsChosen DEF QueueInv, LimitInv
    <2>2. leaseClient = hold.client /\ leaseUntil = hold.until /\ Leased
      BY <1>3, <2>1 DEF Open, HoldIsLease, Leased
    <2>3. ~OnlyBackground /\ j \in StrictChoice
      BY <2>1, <2>2 DEF Choice
    <2>4. j \in Candidates /\ ~LowerPriorityThanLease(j)
      BY <2>2, <2>3 DEF StrictChoice, Best
    <2>5. ~j.catchup
      <3>1. PICK l \in Candidates : ~l.catchup
        BY <2>3 DEF OnlyBackground
      <3>2. QED
        BY <2>1, <2>4, <3>1, LiveComesFirst, CandidatesAreHeads
    <2>6. /\ Priority[j.client] \in Int /\ hold.client \in Clients
          /\ Priority[hold.client] \in Int
      BY <1>3, <2>1, ConfigAssumption DEF Job, TypeOK
    <2>7. \/ j.client \in {hold.client, Odysseus}
          \/ /\ hold.client # Odysseus
             /\ Priority[j.client] >= Priority[hold.client]
      BY <1>3, <2>2, <2>4, <2>6 DEF LowerPriorityThanLease
    <2>8. QED
      BY <2>5, <2>7
  <1>4. QueueInv /\ HoldIsLease /\ [Next]_vars
          => [\A j \in jobs : Dispatched(j) /\ hold.client # None /\ now < hold.until =>
                /\ ~j.catchup
                /\ \/ j.client \in {hold.client, Odysseus}
                   \/ /\ hold.client # Odysseus
                      /\ Priority[j.client] >= Priority[hold.client]]_vars
    BY <1>3
  <1>5. QED
    BY <1>1, <1>2, <1>4, QueueAlways, PTL DEF Spec, HoldRespected

LEMMA BatchStep ==
  ASSUME TypeOK, BatchHasPolicy, [Next]_vars
  PROVE  BatchHasPolicy'
  <1>1. ASSUME NEW j \in Choice, Dispatch(j) PROVE BatchHasPolicy'
    <2>1. j.model \in Models
      BY ChoiceIsFresh, FreshIsQueued DEF TypeOK, Job
    <2>2. PolicyFor(j.model, j.client) # None
      BY <2>1, PolicyType, NoneAssumption
    <2>3. QED
      BY <1>1, <2>2 DEF Dispatch, BatchHasPolicy
  <1>2. ASSUME NEW m \in Reported, Reconcile(m) PROVE BatchHasPolicy'
    BY <1>2 DEF Reconcile, BatchHasPolicy
  <1>3. CASE UNCHANGED batch
    BY <1>3 DEF batch, BatchHasPolicy
  <1>4. QED
    BY <1>1, <1>2, <1>3
       DEF Next, vars, Enqueue, Cancel, Expire, FailQueued, Pause, Resume, Stop, Take,
           FindNothing, HoldTimer, Complete, Tick

(* Of balanced mode: the model that is loaded is chosen over another one   *)
(* only while its batch lasts.                                             *)
LEMMA CurrentWhileBatch ==
  ASSUME ~Strict, NEW j \in Choice, j.model = currentModel, Other # {}
  PROVE  BatchAvailable
  <1>1. j \in BalancedChoice
    BY DEF Choice
  <1>2. j \notin OldestOverdue
    BY DEF OldestOverdue, OverdueOther, Other, Current
  <1>3. j \in AffinityChoice
    BY <1>1, <1>2 DEF BalancedChoice
  <1>4. j \in Current
    BY ChoiceIsCandidate DEF Current
  <1>5. j \notin Best(Other)
    BY <1>4 DEF Best, Other
  <1>6. QED
    BY <1>3, <1>4, <1>5 DEF AffinityChoice

(* In balanced mode a model is not kept loaded past max_batch while live   *)
(* requests for another one wait, whichever client opened the batch and    *)
(* also when a health probe restarted it.                                  *)
THEOREM BatchesEnd == ASSUME ~Strict PROVE Spec => BatchBounded
  <1>1. Init => BatchHasPolicy
    BY DEF Init, BatchHasPolicy
  <1>2. QueueInv /\ BatchHasPolicy /\ [Next]_vars => BatchHasPolicy'
    BY BatchStep DEF QueueInv, LimitInv
  <1>3. ASSUME QueueInv, BatchHasPolicy, [Next]_vars, NEW j \in jobs, Dispatched(j),
               j.model = currentModel, Other # {}
        PROVE  batchPolicy' # None /\ batchCount' <= batchPolicy'.maxBatch
    <2>1. j \in Choice /\ Dispatch(j) /\ j \in Job /\ TypeOK
      BY <1>3, DispatchedIsChosen DEF QueueInv, LimitInv
    <2>2. BatchAvailable
      BY <1>3, <2>1, CurrentWhileBatch
    <2>3. batchModel = currentModel /\ batchCount' = batchCount + 1
      BY <1>3, <2>1, <2>2 DEF BatchAvailable, Dispatch
    <2>4. PolicyFor(j.model, j.client) \in Policy /\ batchCount \in Nat
      BY <2>1, PolicyType DEF Job, TypeOK
    <2>5. CASE batchPolicy = None
      <3>1. batchPolicy' = PolicyFor(j.model, j.client) /\ batchCount = 0
        BY <1>3, <2>1, <2>3, <2>5 DEF Dispatch, BatchHasPolicy
      <3>2. QED
        BY <2>3, <2>4, <3>1, NoneAssumption DEF Policy
    <2>6. CASE batchPolicy # None
      <3>1. batchPolicy' = batchPolicy
        BY <1>3, <2>1, <2>3, <2>6 DEF Dispatch
      <3>2. batchCount < batchPolicy.maxBatch
        BY <2>2, <2>6 DEF BatchAvailable
      <3>3. batchPolicy.maxBatch \in Nat
        BY <2>1, <2>6 DEF TypeOK, Policy
      <3>4. QED
        BY <2>3, <2>4, <2>6, <3>1, <3>2, <3>3
    <2>7. QED
      BY <2>5, <2>6
  <1>4. QueueInv /\ BatchHasPolicy /\ [Next]_vars
          => [\A j \in jobs :
                Dispatched(j) /\ j.model = currentModel /\ Other # {}
                  => batchPolicy' # None /\ batchCount' <= batchPolicy'.maxBatch]_vars
    BY <1>3
  <1>5. QED
    BY <1>1, <1>2, <1>4, QueueAlways, PTL DEF Spec, BatchBounded

------------------------------------------------------------------------------
(* Sums of bytes: the fold that Bytes is takes any element first, and the  *)
(* sum does not depend on which.                                           *)

Pick(s) == CHOOSE x \in s : TRUE

IsSum(f, S) ==
  f = [s \in SUBSET S |-> IF s = {} THEN 0 ELSE Pick(s).bytes + f[s \ {Pick(s)}]]

LEMMA PickIsIn == ASSUME NEW S, S # {} PROVE Pick(S) \in S
  BY DEF Pick

LEMMA BytesIsSum == ASSUME NEW S PROVE Bytes(S) = (CHOOSE f : IsSum(f, S))[S]
  BY DEF Bytes, MapThenSumSet, MapThenFoldSet, Pick, IsSum

LEMMA SumAt ==
  ASSUME NEW S, NEW f, IsSum(f, S), NEW s \in SUBSET S
  PROVE  /\ s = {} => f[s] = 0
         /\ s # {} => f[s] = Pick(s).bytes + f[s \ {Pick(s)}]
  BY DEF IsSum

LEMMA SumsAgree ==
  ASSUME NEW S, IsFiniteSet(S), NEW D, NEW f, NEW g, IsSum(f, S), IsSum(g, D),
         D \subseteq S
  PROVE  f[D] = g[D]
  <1> DEFINE Lacking == {T \in SUBSET D : f[T] # g[T]}
  <1>1. SUFFICES ASSUME Lacking # {} PROVE FALSE
    OBVIOUS
  <1>2. IsFiniteSet(D) /\ Lacking \in SUBSET (SUBSET D)
    BY FS_Subset
  <1>3. \E T \in Lacking : \A U \in SUBSET T : U # T => U \notin Lacking
    <2> HIDE DEF Lacking
    <2>1. QED
      BY <1>1, <1>2, MinimalSubset
  <1>4. PICK T \in Lacking : \A U \in SUBSET T : U # T => U \notin Lacking
    BY <1>3
  <1>5. T \in SUBSET D /\ T \in SUBSET S /\ f[T] # g[T]
    BY <1>4
  <1>6. T # {}
    BY <1>5, SumAt
  <1> DEFINE U == T \ {Pick(T)}
  <1>7. U \in SUBSET T /\ U # T /\ U \in SUBSET D
    BY <1>5, <1>6, PickIsIn
  <1>8. f[U] = g[U]
    BY <1>4, <1>7
  <1>9. f[T] = Pick(T).bytes + f[U] /\ g[T] = Pick(T).bytes + g[U]
    BY <1>5, <1>6, SumAt
  <1>10. QED
    BY <1>5, <1>8, <1>9

(* The equation of the sum is solvable, on the subsets of any finite set.  *)
LEMMA SumExists ==
  ASSUME NEW S, IsFiniteSet(S)
  PROVE  \E f : IsSum(f, S)
  <1> DEFINE Lacking == {T \in SUBSET S : ~\E f : IsSum(f, T)}
  <1>1. SUFFICES ASSUME Lacking # {} PROVE FALSE
    OBVIOUS
  <1>2. \E T \in Lacking : \A U \in SUBSET T : U # T => U \notin Lacking
    <2>1. Lacking \in SUBSET (SUBSET S)
      OBVIOUS
    <2> HIDE DEF Lacking
    <2>2. QED
      BY <1>1, <2>1, MinimalSubset
  <1>3. PICK T \in Lacking : \A U \in SUBSET T : U # T => U \notin Lacking
    BY <1>2
  <1>4. T \in SUBSET S /\ IsFiniteSet(T) /\ ~\E f : IsSum(f, T)
    BY <1>3, FS_Subset
  <1> DEFINE F(U) == CHOOSE f : IsSum(f, U)
             g == [U \in SUBSET T |->
                     IF U # T THEN Bytes(U)
                     ELSE IF T = {} THEN 0
                     ELSE Pick(T).bytes + Bytes(T \ {Pick(T)})]
  <1>5. ASSUME NEW U \in SUBSET T, U # T
        PROVE  IsSum(F(U), U) /\ Bytes(U) = F(U)[U]
    <2>1. U \in SUBSET S /\ U \notin Lacking
      BY <1>3, <1>4, <1>5
    <2>2. \E f : IsSum(f, U)
      BY <2>1
    <2>3. QED
      BY <2>2, BytesIsSum
  <1>6. ASSUME NEW U \in SUBSET T
        PROVE  g[U] = IF U = {} THEN 0 ELSE Pick(U).bytes + g[U \ {Pick(U)}]
    <2>1. CASE U = {} /\ U # T
      <3>1. F(U)[U] = 0
        <4>1. IsSum(F(U), U) /\ U \in SUBSET U
          BY <1>5, <2>1
        <4> HIDE DEF F
        <4>2. QED
          BY <2>1, <4>1, SumAt
      <3>2. QED
        BY <1>5, <2>1, <3>1
    <2>2. CASE U = {} /\ U = T
      BY <2>2
    <2>3. CASE U # {}
      <3> DEFINE V == U \ {Pick(U)}
      <3>1. V \in SUBSET U /\ V \in SUBSET T /\ V # T /\ g[V] = Bytes(V)
        BY <2>3, PickIsIn
      <3>2. CASE U = T
        BY <2>3, <3>1, <3>2
      <3>3. CASE U # T
        <4>1. /\ IsSum(F(U), U) /\ Bytes(U) = F(U)[U]
              /\ IsSum(F(V), V) /\ Bytes(V) = F(V)[V]
          BY <1>5, <3>1, <3>3
        <4>2. IsFiniteSet(U) /\ U \in SUBSET U
          BY <1>4, FS_Subset
        <4>3. F(U)[V] = F(V)[V]
          <5> HIDE DEF F, V
          <5>1. QED
            BY <3>1, <4>1, <4>2, SumsAgree
        <4>4. F(U)[U] = Pick(U).bytes + F(U)[V]
          <5> HIDE DEF F
          <5>1. QED
            BY <2>3, <4>1, <4>2, SumAt
        <4>5. g[U] = Bytes(U)
          BY <3>3
        <4>6. QED
          BY <2>3, <3>1, <4>1, <4>3, <4>4, <4>5
      <3>4. QED
        BY <3>2, <3>3
    <2>4. QED
      BY <2>1, <2>2, <2>3
  <1>7. IsSum(g, T)
    <2> DEFINE h == [U \in SUBSET T |->
                       IF U = {} THEN 0 ELSE Pick(U).bytes + g[U \ {Pick(U)}]]
    <2>1. \A U \in SUBSET T : g[U] = h[U]
      BY <1>6
    <2>2. g = h
      BY <2>1
    <2>3. QED
      BY <2>2 DEF IsSum
  <1>8. QED
    BY <1>4, <1>7

LEMMA BytesEquation ==
  ASSUME NEW S, IsFiniteSet(S)
  PROVE  /\ S = {} => Bytes(S) = 0
         /\ S # {} => Bytes(S) = Pick(S).bytes + Bytes(S \ {Pick(S)})
  <1> DEFINE F(U) == CHOOSE f : IsSum(f, U)
             V == S \ {Pick(S)}
  <1>1. IsSum(F(S), S) /\ Bytes(S) = F(S)[S] /\ S \in SUBSET S
    BY SumExists, BytesIsSum
  <1>2. V \subseteq S /\ IsFiniteSet(V)
    BY FS_Subset
  <1>3. IsSum(F(V), V) /\ Bytes(V) = F(V)[V]
    <2> HIDE DEF V
    <2>1. QED
      BY <1>2, SumExists, BytesIsSum
  <1>4. F(S)[V] = F(V)[V]
    <2> HIDE DEF F, V
    <2>1. QED
      BY <1>1, <1>2, <1>3, SumsAgree
  <1>5. /\ S = {} => F(S)[S] = 0
        /\ S # {} => F(S)[S] = Pick(S).bytes + F(S)[V]
    <2> HIDE DEF F
    <2>1. QED
      BY <1>1, SumAt
  <1>6. QED
    BY <1>1, <1>3, <1>4, <1>5

LEMMA BytesType ==
  ASSUME NEW S, IsFiniteSet(S), \A x \in S : x.bytes \in Nat
  PROVE  Bytes(S) \in Nat
  <1> DEFINE Lacking == {T \in SUBSET S : Bytes(T) \notin Nat}
  <1>1. SUFFICES ASSUME Lacking # {} PROVE FALSE
    OBVIOUS
  <1>2. \E T \in Lacking : \A U \in SUBSET T : U # T => U \notin Lacking
    <2>1. Lacking \in SUBSET (SUBSET S)
      OBVIOUS
    <2> HIDE DEF Lacking
    <2>2. QED
      BY <1>1, <2>1, MinimalSubset
  <1>3. PICK T \in Lacking : \A U \in SUBSET T : U # T => U \notin Lacking
    BY <1>2
  <1>4. T \in SUBSET S /\ IsFiniteSet(T) /\ Bytes(T) \notin Nat
    BY <1>3, FS_Subset
  <1>5. T # {}
    <2>1. T = {} => Bytes(T) = 0
      BY <1>4, BytesEquation
    <2>2. QED
      BY <1>4, <2>1
  <1> DEFINE U == T \ {Pick(T)}
  <1>6. U \in SUBSET T /\ U # T /\ U \in SUBSET S /\ Pick(T).bytes \in Nat
    BY <1>4, <1>5, PickIsIn
  <1>7. Bytes(U) \in Nat
    BY <1>3, <1>6
  <1>8. Bytes(T) = Pick(T).bytes + Bytes(U)
    BY <1>4, <1>5, BytesEquation
  <1>9. QED
    BY <1>4, <1>6, <1>7, <1>8

(* Any element may be taken out first.                                     *)
LEMMA BytesWithout ==
  ASSUME NEW S, IsFiniteSet(S), \A x \in S : x.bytes \in Nat, NEW x \in S
  PROVE  Bytes(S) = x.bytes + Bytes(S \ {x})
  <1> DEFINE Lacking == {T \in SUBSET S : \E y \in T : Bytes(T) # y.bytes + Bytes(T \ {y})}
  <1>1. SUFFICES ASSUME Lacking # {} PROVE FALSE
    OBVIOUS
  <1>2. \E T \in Lacking : \A U \in SUBSET T : U # T => U \notin Lacking
    <2>1. Lacking \in SUBSET (SUBSET S)
      OBVIOUS
    <2> HIDE DEF Lacking
    <2>2. QED
      BY <1>1, <2>1, MinimalSubset
  <1>3. PICK T \in Lacking : \A U \in SUBSET T : U # T => U \notin Lacking
    BY <1>2
  <1>4. PICK y \in T : Bytes(T) # y.bytes + Bytes(T \ {y})
    BY <1>3
  <1> DEFINE p == Pick(T)
             P == T \ {p}
             Y == T \ {y}
             Z == P \ {y}
  <1>5. T \in SUBSET S /\ IsFiniteSet(T) /\ p \in T
    BY <1>3, <1>4, FS_Subset, PickIsIn
  <1>6. Bytes(T) = p.bytes + Bytes(P)
    BY <1>4, <1>5, BytesEquation
  <1>7. y # p
    BY <1>4, <1>6
  <1>8. /\ P \in SUBSET T /\ P # T /\ P \in SUBSET S /\ y \in P
        /\ Y \in SUBSET T /\ Y # T /\ Y \in SUBSET S /\ p \in Y
        /\ Z = Y \ {p} /\ Z \subseteq S
    BY <1>4, <1>5, <1>7
  <1>9. Bytes(P) = y.bytes + Bytes(Z)
    BY <1>3, <1>8
  <1>10. Bytes(Y) = p.bytes + Bytes(Z)
    BY <1>3, <1>8
  <1>11. Bytes(Z) \in Nat
    <2>1. IsFiniteSet(Z) /\ \A z \in Z : z.bytes \in Nat
      BY <1>8, FS_Subset
    <2> HIDE DEF Z
    <2>2. QED
      BY <2>1, BytesType
  <1>12. p.bytes \in Nat /\ y.bytes \in Nat
    BY <1>4, <1>5
  <1>13. QED
    BY <1>4, <1>6, <1>9, <1>10, <1>11, <1>12

LEMMA BytesMonotone ==
  ASSUME NEW S, IsFiniteSet(S), \A x \in S : x.bytes \in Nat, NEW T \in SUBSET S
  PROVE  Bytes(T) <= Bytes(S)
  <1> DEFINE Lacking == {U \in SUBSET S : T \subseteq U /\ ~(Bytes(T) <= Bytes(U))}
  <1>1. SUFFICES ASSUME Lacking # {} PROVE FALSE
    OBVIOUS
  <1>2. \E U \in Lacking : \A V \in SUBSET U : V # U => V \notin Lacking
    <2>1. Lacking \in SUBSET (SUBSET S)
      OBVIOUS
    <2> HIDE DEF Lacking
    <2>2. QED
      BY <1>1, <2>1, MinimalSubset
  <1>3. PICK U \in Lacking : \A V \in SUBSET U : V # U => V \notin Lacking
    BY <1>2
  <1>4. /\ U \in SUBSET S /\ IsFiniteSet(U) /\ T \subseteq U /\ ~(Bytes(T) <= Bytes(U))
        /\ IsFiniteSet(T)
    BY <1>3, FS_Subset
  <1>5. Bytes(U) \in Nat /\ Bytes(T) \in Nat
    BY <1>4, BytesType
  <1>6. U # T
    BY <1>4, <1>5
  <1>7. PICK x \in U : x \notin T
    BY <1>4, <1>6
  <1> DEFINE V == U \ {x}
  <1>8. V \in SUBSET U /\ V # U /\ V \in SUBSET S /\ T \subseteq V
    BY <1>4, <1>7
  <1>9. Bytes(T) <= Bytes(V)
    BY <1>3, <1>8
  <1>10. Bytes(U) = x.bytes + Bytes(V) /\ x.bytes \in Nat
    BY <1>4, <1>7, BytesWithout
  <1>11. Bytes(V) \in Nat
    <2>1. IsFiniteSet(V) /\ \A z \in V : z.bytes \in Nat
      BY <1>4, <1>8, FS_Subset
    <2> HIDE DEF V
    <2>2. QED
      BY <2>1, BytesType
  <1>12. QED
    BY <1>4, <1>5, <1>9, <1>10, <1>11

LEMMA BytesOneMore ==
  ASSUME NEW S, IsFiniteSet(S), NEW x, \A y \in S \cup {x} : y.bytes \in Nat
  PROVE  Bytes(S \cup {x}) <= Bytes(S) + x.bytes
  <1>1. Bytes(S) \in Nat /\ x.bytes \in Nat
    BY BytesType
  <1>2. CASE x \in S
    <2>1. S \cup {x} = S
      BY <1>2
    <2>2. QED
      BY <1>1, <2>1
  <1>3. CASE x \notin S
    <2> DEFINE T == S \cup {x}
    <2>1. IsFiniteSet(T) /\ x \in T /\ T \ {x} = S /\ \A y \in T : y.bytes \in Nat
      BY <1>3, FS_AddElement
    <2>2. Bytes(T) = x.bytes + Bytes(S)
      <3> HIDE DEF T
      <3>1. QED
        BY <2>1, BytesWithout
    <2>3. QED
      BY <1>1, <2>2
  <1>4. QED
    BY <1>2, <1>3

Held == jobs \cup InService

LEMMA HeldFacts ==
  ASSUME LimitInv
  PROVE  IsFiniteSet(Held) /\ Held \subseteq Job /\ \A j \in Held : j.bytes \in Nat
  <1>1. IsFiniteSet(jobs) /\ jobs \subseteq Job /\ active \in Job \cup {None}
    BY DEF LimitInv, TypeOK
  <1>2. IsFiniteSet(InService) /\ InService \subseteq Job
    BY <1>1, FS_EmptySet, FS_Singleton DEF InService
  <1>3. IsFiniteSet(Held) /\ Held \subseteq Job
    BY <1>1, <1>2, FS_Union DEF Held
  <1>4. QED
    BY <1>3 DEF Job

LEMMA MemoryStep ==
  ASSUME LimitInv, MemoryWithinLimit, [Next]_vars
  PROVE  MemoryWithinLimit'
  <1>1. IsFiniteSet(Held) /\ Held \subseteq Job /\ \A j \in Held : j.bytes \in Nat
    BY HeldFacts
  <1>2. MaxBytes \in Nat /\ Bytes(Held) <= MaxBytes /\ Bytes(Held) \in Nat
    BY <1>1, BytesType, ConfigAssumption DEF MemoryWithinLimit, Held
  <1>3. LimitInv'
    BY LimitStep
  <1>4. CASE Held' \subseteq Held
    <2>1. Bytes(Held') <= Bytes(Held)
      BY <1>1, <1>4, BytesMonotone
    <2>2. Bytes(Held') \in Nat
      <3>1. IsFiniteSet(Held') /\ \A j \in Held' : j.bytes \in Nat
        BY <1>1, <1>4, FS_Subset
      <3>2. QED
        BY <3>1, BytesType
    <2>3. Bytes(Held') <= MaxBytes
      BY <1>2, <2>1, <2>2
    <2>4. QED
      BY <2>3 DEF MemoryWithinLimit, Held
  <1>5. CASE Arrives
    <2>1. active' = active /\ InService' = InService
      BY <1>5 DEF Arrives, InService
    <2>2. PICK r \in Requests : Admit(r) \/ jobs' \subseteq jobs
      BY <1>5 DEF Arrives
    <2>3. CASE jobs' \subseteq jobs
      <3>1. Held' \subseteq Held
        BY <2>1, <2>3 DEF Held
      <3>2. QED
        BY <1>4, <3>1
    <2>4. CASE Admit(r)
      <3> DEFINE kept == (Fresh \ Replaced(r)) \cup InService
                 n == NewJob(r)
      <3>1. Held' = kept \cup {n} /\ kept \subseteq Held
        BY <2>1, <2>4, FreshIsQueued DEF Admit, Held
      <3>2. n.bytes = r.bytes /\ r.bytes \in Nat
        BY ClientsAssumption DEF NewJob, Request
      <3>3. IsFiniteSet(kept) /\ \A j \in kept : j.bytes \in Nat
        BY <1>1, <3>1, FS_Subset
      <3>4. Bytes(kept) + r.bytes <= MaxBytes
        <4>1. Bytes(kept) \in Nat
          <5> HIDE DEF kept
          <5>1. QED
            BY <3>3, BytesType
        <4>2. ~(Bytes(kept) + r.bytes > MaxBytes)
          BY <2>4 DEF Admit, MemoryFull
        <4>3. QED
          BY <1>2, <3>2, <4>1, <4>2
      <3>5. Bytes(kept \cup {n}) <= Bytes(kept) + n.bytes
        <4>1. \A j \in kept \cup {n} : j.bytes \in Nat
          BY <3>2, <3>3
        <4> HIDE DEF kept, n
        <4>2. QED
          BY <3>3, <4>1, BytesOneMore
      <3>6. Bytes(kept) \in Nat /\ Bytes(kept \cup {n}) \in Nat
        <4>1. IsFiniteSet(kept \cup {n}) /\ \A j \in kept \cup {n} : j.bytes \in Nat
          BY <3>2, <3>3, FS_AddElement
        <4> HIDE DEF kept, n
        <4>2. QED
          BY <3>3, <4>1, BytesType
      <3>7. Bytes(Held') <= MaxBytes
        <4> HIDE DEF kept, n
        <4>1. QED
          BY <1>2, <3>1, <3>2, <3>4, <3>5, <3>6
      <3>8. QED
        BY <3>7 DEF MemoryWithinLimit, Held
    <2>5. QED
      BY <2>2, <2>3, <2>4
  <1>6. CASE Shrinks
    <2>1. Held' \subseteq Held
      BY <1>6 DEF Shrinks, Held, InService
    <2>2. QED
      BY <1>4, <2>1
  <1>7. CASE HandsOver
    <2>1. Held' \subseteq Held
      BY <1>7 DEF HandsOver, Held, InService
    <2>2. QED
      BY <1>4, <2>1
  <1>8. QED
    BY <1>5, <1>6, <1>7, Steps

(* The bodies that are queued and in service never exceed max_queue_bytes: *)
(* enqueue() counts the job in service, and counts a replaced job out      *)
(* once, also when the duplicate and the victim are both replaced.         *)
THEOREM MemoryBounded == Spec => []MemoryWithinLimit
  <1>1. Init => MemoryWithinLimit
    <2>1. SUFFICES ASSUME Init PROVE MemoryWithinLimit
      OBVIOUS
    <2>2. jobs \cup InService = {}
      BY <2>1 DEF Init, InService
    <2>3. Bytes(jobs \cup InService) = 0
      BY <2>2, FS_EmptySet, BytesEquation
    <2>4. QED
      BY <2>3, ConfigAssumption DEF MemoryWithinLimit
  <1>2. QueueInv /\ MemoryWithinLimit /\ [Next]_vars => MemoryWithinLimit'
    BY MemoryStep DEF QueueInv
  <1>3. QED
    BY <1>1, <1>2, QueueAlways, PTL DEF Spec
==============================================================================
