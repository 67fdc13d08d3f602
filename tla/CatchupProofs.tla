---------------------------- MODULE CatchupProofs ----------------------------
(***************************************************************************)
(* What module Catchup promises for any number of events, requests,        *)
(* handoffs, faults and crashes. One argument carries all of it: whatever  *)
(* the memory says that matters after a crash, the file says as well, so   *)
(* each part of the invariant is stated of jobs and of file alike. A step  *)
(* makes a new memory, which is written down or not; in the second case    *)
(* no inference is added, and the old file still tells enough.             *)
(***************************************************************************)
EXTENDS Catchup, TLAPS, FiniteSetTheorems, SequenceTheorems

------------------------------------------------------------------------------
(* The inductive invariant *)

Requests == UNION {[1..n -> [state : {"queued", "running", "finished", "uncertain"},
                             enlarged : BOOLEAN]] : n \in 0..MaxRequests}

Places == {"queued", "preflight", "reserved", "sent"}

Inferences == [event : Events, ticket : 1..MaxTickets, n : 1..MaxRequests, at : Places]

Lanes == [at : {"idle", "verify", "read", "saved", "put"},
          event : Events \cup {None}, todo : SUBSET Events]

(* An attempt waits for one inference at a time.                           *)
OneOutstanding(a) ==
  \A m, n \in DOMAIN a.requests :
    /\ a.requests[m].state # "finished"
    /\ a.requests[n].state # "finished"
    => m = n

Sound(job) ==
  job.attempt # None =>
    job.state \in Active /\ ValidAttempt(job) /\ OneOutstanding(job.attempt)

Waiting(js) == {e \in Events : js[e].state = "waiting_result"}

(* What the jobs say, in memory or in the file, when `drawn` tickets were  *)
(* drawn.                                                                  *)
Consistent(js, drawn) ==
  /\ js \in [Events -> Job]
  /\ \A e \in Events : Sound(js[e])
  /\ \A e \in Events : js[e].attempt # None => js[e].attempt.ticket <= drawn
  /\ \A e, f \in Events :
       /\ js[e].attempt # None /\ js[f].attempt # None
       /\ js[e].attempt.ticket = js[f].attempt.ticket
       => e = f
  /\ \A e, f \in Events : HoldsSlot(js[e]) /\ HoldsSlot(js[f]) => e = f
  /\ Cardinality(Waiting(js)) <= MaxVerifying

(* The job has the request of the inference, and it is where the inference *)
(* is.                                                                     *)
Backs(job, i) ==
  /\ job.attempt # None /\ job.attempt.ticket = i.ticket
  /\ i.n \in DOMAIN job.attempt.requests
  /\ job.attempt.requests[i.n].state = IF i.at = "queued" THEN "queued" ELSE "running"

(* The job knows that this inference may be on the GPU.                    *)
Admits(job, id) ==
  /\ job.attempt # None /\ job.attempt.ticket = id[1]
  /\ id[2] \in DOMAIN job.attempt.requests
  /\ job.attempt.requests[id[2]].state \in {"running", "uncertain"}

(* Before its rescue is used, a job was never sent enlarged and is not     *)
(* about to be.                                                            *)
Rescues(js, inf, enl) ==
  \A e \in Events : js[e].rescue.state # "used" =>
    enl[e] = 0 /\ \A i \in inf : i.event = e => i.at # "reserved"

(* The jobs tell of every inference, of all that is on the GPU, of every   *)
(* open handoff and of every rescue.                                       *)
Covers(js, inf, gpu, opn, enl) ==
  /\ \A i \in inf : Backs(js[i.event], i)
  /\ \A id \in gpu : \E e \in Events : Admits(js[e], id)
  /\ \A e \in opn : js[e].state = "waiting_result"
  /\ Rescues(js, inf, enl)

(* The lane reads a job when the slot is free and there is room.           *)
Reading(js, e) ==
  /\ js[e].state \in Unfinished
  /\ \A f \in Events : ~HoldsSlot(js[f])
  /\ Cardinality(Waiting(js)) < MaxVerifying

(* A handoff that is written down and not yet made.                        *)
Fresh(job, told) ==
  /\ job.state = "waiting_result"
  /\ job.attempt # None =>
       job.attempt.ticket \notin told /\ job.attempt.requests = <<>>

LaneTrue(js, ln, told, opn) ==
  \A e \in Events : ln.event = e =>
    /\ ln.at = "read" => Reading(js, e)
    /\ ln.at = "saved" => Fresh(js[e], told) /\ e \notin opn

(* Every request that is queued or running has its inference.              *)
Attended(job, inf) ==
  job.attempt # None =>
    \A n \in DOMAIN job.attempt.requests :
      job.attempt.requests[n].state \in {"queued", "running"} =>
        \E i \in inf :
          /\ i.ticket = job.attempt.ticket /\ i.n = n
          /\ i.at = "queued" <=> job.attempt.requests[n].state = "queued"

Types ==
  /\ up \in BOOLEAN /\ storeError \in BOOLEAN
  /\ due \subseteq Events /\ open \subseteq Events
  /\ lane \in Lanes
  /\ cleaning \in Events \cup {None} /\ (cleaning # None => cleaning # lane.event)
  /\ inferences \subseteq Inferences
  /\ onGpu \subseteq (1..MaxTickets) \X (1..MaxRequests)
  /\ enlarged \in [Events -> {0, 1}]
  /\ tickets \in 0..MaxTickets /\ handed \subseteq 1..tickets
  /\ faults \in 0..MaxFaults /\ crashes \in 0..MaxCrashes

(* There is one inference at a time. It is on the GPU only once it was     *)
(* sent, and a job's only enlarged dispatch is not reserved again.         *)
SentOnce ==
  /\ \A i, j \in inferences : i = j
  /\ \A i \in inferences : Id(i) \in onGpu => i.at = "sent"
  /\ \A i \in inferences : i.at = "reserved" => enlarged[i.event] = 0

(* While the file can be written, it waits for every result that is waited *)
(* for.                                                                    *)
Filed ==
  up /\ ~storeError => \A e \in Events :
    jobs[e].state = "waiting_result" => file[e].state = "waiting_result"

IInv ==
  /\ Types
  /\ Consistent(jobs, tickets) /\ Consistent(file, tickets)
  /\ Covers(jobs, inferences, onGpu, open, enlarged)
  /\ Covers(file, inferences, onGpu, open, enlarged)
  /\ SentOnce /\ Filed
  /\ ~up => inferences = {} /\ lane = Rest /\ jobs = file
  /\ up /\ ~storeError => LaneTrue(jobs, lane, handed, open)
  /\ up /\ ~storeError => \A e \in Events : Attended(jobs[e], inferences)
------------------------------------------------------------------------------
LEMMA ConstantFacts ==
  /\ None \notin Events /\ None \notin Attempt
  /\ None # "success" /\ None # "failed"
  /\ MaxRequests \in Nat \ {0} /\ MaxVerifying \in 1..16 /\ MaxTickets \in Nat
  /\ IsFiniteSet(Events)
  /\ \A c \in 0..MaxTickets : c < MaxTickets => c + 1 \in 0..MaxTickets /\ c + 1 \in 1..MaxTickets
  /\ \A c \in 0..MaxFaults : c < MaxFaults => c + 1 \in 0..MaxFaults
  /\ \A c \in 0..MaxCrashes : c < MaxCrashes => c + 1 \in 0..MaxCrashes
  /\ 0 \in 0..MaxTickets /\ 0 \in 0..MaxFaults /\ 0 \in 0..MaxCrashes
BY CatchupAssumption

(* The fields of a job and of its attempt. *)

RequestRecord == [state : {"queued", "running", "finished", "uncertain"}, enlarged : BOOLEAN]

Phases == {"handed_off", "queued", "running", "verifying_saved", "uncertain", "retired"}

LEMMA JobFields ==
  ASSUME NEW job \in Job
  PROVE  /\ job.state \in Active \cup {"completed", "skipped"}
         /\ job.rescue \in [state : {"none", "measured", "used"}, failed : 0..MaxTickets]
         /\ job.attempt # None => job.attempt \in Attempt
BY DEF Job

LEMMA AttemptFields ==
  ASSUME NEW a \in Attempt
  PROVE  /\ a # None
         /\ a.ticket \in 1..MaxTickets /\ a.phase \in Phases
         /\ a.requests \in Requests
         /\ a.outcome \in {None, "success", "failed"} /\ a.revoked \in BOOLEAN
BY ConstantFacts DEF Attempt, Requests, Phases

LEMMA AttemptOf ==
  ASSUME NEW t \in 1..MaxTickets, NEW p \in Phases, NEW r \in Requests,
         NEW o \in {None, "success", "failed"}, NEW v \in BOOLEAN
  PROVE  [ticket |-> t, phase |-> p, requests |-> r, outcome |-> o, revoked |-> v]
           \in Attempt
BY DEF Attempt, Requests, Phases

LEMMA JobOf ==
  ASSUME NEW s \in Active \cup {"completed", "skipped"},
         NEW a \in Attempt \cup {None},
         NEW r \in [state : {"none", "measured", "used"}, failed : 0..MaxTickets]
  PROVE  [state |-> s, attempt |-> a, rescue |-> r] \in Job
BY DEF Job

LEMMA RequestsFields ==
  ASSUME NEW r \in Requests
  PROVE  \E k \in 0..MaxRequests : DOMAIN r = 1..k /\ r \in [1..k -> RequestRecord]
BY DEF Requests, RequestRecord

LEMMA RequestsOf ==
  ASSUME NEW k \in 0..MaxRequests, NEW r \in [1..k -> RequestRecord]
  PROVE  r \in Requests
BY DEF Requests, RequestRecord

LEMMA RequestFields ==
  ASSUME NEW r \in Requests, NEW n \in DOMAIN r
  PROVE  /\ n \in 1..MaxRequests
         /\ r[n] \in RequestRecord
         /\ r[n].state \in {"queued", "running", "finished", "uncertain"}
         /\ r[n].enlarged \in BOOLEAN
<1>1. PICK k \in 0..MaxRequests : DOMAIN r = 1..k /\ r \in [1..k -> RequestRecord]
  BY RequestsFields
<1>2. r[n] \in RequestRecord /\ n \in 1..MaxRequests
  BY <1>1, ConstantFacts
<1>. QED BY <1>2 DEF RequestRecord

(* A request is replaced, added, or all are mapped. *)

LEMMA RequestReplaced ==
  ASSUME NEW r \in Requests, NEW n \in DOMAIN r, NEW q \in RequestRecord
  PROVE  [r EXCEPT ![n] = q] \in Requests
<1>1. PICK k \in 0..MaxRequests : DOMAIN r = 1..k /\ r \in [1..k -> RequestRecord]
  BY RequestsFields
<1>2. [r EXCEPT ![n] = q] \in [1..k -> RequestRecord]
  BY <1>1
<1>. QED BY <1>2, RequestsOf

LEMMA RequestsMapped ==
  ASSUME NEW r \in Requests, NEW s, DOMAIN s = DOMAIN r, s = [n \in DOMAIN r |-> s[n]],
         \A n \in DOMAIN r : s[n] \in RequestRecord
  PROVE  s \in Requests
<1>1. PICK k \in 0..MaxRequests : DOMAIN r = 1..k /\ r \in [1..k -> RequestRecord]
  BY RequestsFields
<1>2. s \in [1..k -> RequestRecord]
  BY <1>1
<1>. QED BY <1>2, RequestsOf

LEMMA RequestAppended ==
  ASSUME NEW r \in Requests, NEW q \in RequestRecord, Len(r) < MaxRequests
  PROVE  /\ Append(r, q) \in Requests
         /\ Len(r) + 1 \in 1..MaxRequests /\ Len(r) + 1 \notin DOMAIN r
         /\ DOMAIN Append(r, q) = DOMAIN r \cup {Len(r) + 1}
         /\ Append(r, q)[Len(r) + 1] = q
         /\ \A n \in DOMAIN r : Append(r, q)[n] = r[n]
<1>1. PICK k \in 0..MaxRequests : DOMAIN r = 1..k /\ r \in [1..k -> RequestRecord]
  BY RequestsFields
<1>2. r \in Seq(RequestRecord) /\ Len(r) = k /\ k < MaxRequests
  BY <1>1
<1>3. /\ Append(r, q) \in Seq(RequestRecord) /\ Len(Append(r, q)) = k + 1
      /\ Append(r, q)[k + 1] = q /\ \A n \in 1..k : Append(r, q)[n] = r[n]
  BY <1>2
<1>4. k + 1 \in 0..MaxRequests /\ k + 1 \in 1..MaxRequests /\ 1..(k + 1) = 1..k \cup {k + 1}
  BY <1>2, ConstantFacts
<1>5. Append(r, q) \in [1..(k + 1) -> RequestRecord]
  BY <1>3, LenProperties
<1>6. Append(r, q) \in Requests
  BY <1>4, <1>5, RequestsOf
<1>7. DOMAIN Append(r, q) = 1..(k + 1)
  BY <1>5
<1>. QED BY <1>1, <1>2, <1>3, <1>4, <1>6, <1>7

LEMMA OutstandingMeans ==
  ASSUME NEW a \in Attempt
  PROVE  Outstanding(a) <=> \E n \in DOMAIN a.requests : a.requests[n].state # "finished"
<1>1. \A n \in DOMAIN a.requests :
        a.requests[n].state \in {"queued", "running", "finished", "uncertain"}
  BY AttemptFields, RequestFields
<1>2. a # None
  BY AttemptFields
<1>. QED BY <1>1, <1>2 DEF Outstanding, Some
------------------------------------------------------------------------------
(* What becomes of a job *)

(* A job that changed is no more than it was: it keeps its ticket or gives *)
(* it up, and takes no slot and waits for no result it did not wait for.   *)
Follows(new, old) ==
  /\ new \in Job /\ Sound(new)
  /\ new.attempt # None => old.attempt # None /\ new.attempt.ticket = old.attempt.ticket
  /\ HoldsSlot(new) => HoldsSlot(old)
  /\ new.state = "waiting_result" => old.state = "waiting_result"

(* It did not lose or change a request, unless the attempt that is given   *)
(* up has none that goes on.                                               *)
Quiet(new, old) ==
  /\ Outstanding(old.attempt) => new.attempt # None
  /\ new.attempt # None =>
       /\ old.attempt # None
       /\ new.attempt.ticket = old.attempt.ticket
       /\ new.attempt.requests = old.attempt.requests
  /\ new.rescue.state # "used" => old.rescue.state # "used"

LEMMA NoneIsIdle == ~Outstanding(None)
BY DEF Outstanding, Some

LEMMA SameFollows ==
  ASSUME NEW job \in Job, Sound(job)
  PROVE  Follows(job, job) /\ Quiet(job, job)
<1>1. Outstanding(job.attempt) => job.attempt # None
  BY DEF Outstanding, Some
<1>. QED BY <1>1 DEF Follows, Quiet

LEMMA EndedIsRetired ==
  ASSUME NEW job \in Job, Sound(job), job.attempt # None, ~Outstanding(job.attempt),
         NEW s \in Unfinished,
         NEW new, new.state = s, new.rescue = job.rescue, new \in Job,
         new.attempt # None, new.attempt.ticket = job.attempt.ticket,
         new.attempt.requests = job.attempt.requests, new.attempt.phase = "retired",
         new.attempt.revoked = TRUE
  PROVE  Follows(new, job) /\ Quiet(new, job)
<1>1. ~Outstanding(new.attempt)
  BY DEF Outstanding, Some
<1>2. OneOutstanding(new.attempt)
  BY DEF Sound, OneOutstanding
<1>3. ValidAttempt(new)
  BY <1>1 DEF ValidAttempt, Unfinished, Sound
<1>4. Sound(new) /\ ~HoldsSlot(new) /\ new.state # "waiting_result"
  BY <1>2, <1>3 DEF Sound, Active, Unfinished, HoldsSlot
<1>. QED BY <1>4 DEF Follows, Quiet

LEMMA RetryFollows ==
  ASSUME NEW job \in Job, Sound(job)
  PROVE  Follows(Retry(job), job) /\ Quiet(Retry(job), job)
<1>1. CASE Outstanding(job.attempt)
  BY <1>1, SameFollows DEF Retry
<1>. SUFFICES ASSUME ~Outstanding(job.attempt)
     PROVE  Follows(Retry(job), job) /\ Quiet(Retry(job), job)
  BY <1>1
<1>2. CASE job.attempt = None
  <2>. DEFINE new == [job EXCEPT !.state = "retrying", !.attempt = None]
  <2>1. Retry(job) = new
    BY <1>2 DEF Retry, Retired
  <2>2. new.state = "retrying" /\ new.attempt = None /\ new.rescue = job.rescue
    BY DEF Job
  <2>3. new \in Job
    BY DEF Job, Active, Unfinished
  <2>4. Sound(new) /\ ~HoldsSlot(new)
    BY <2>2 DEF Sound, HoldsSlot
  <2>. QED BY <2>1, <2>2, <2>3, <2>4 DEF Follows, Quiet
<1>3. CASE job.attempt # None
  <2>. DEFINE a == job.attempt
              b == [a EXCEPT !.revoked = TRUE, !.phase = "retired", !.outcome = None]
              new == [job EXCEPT !.state = "retrying", !.attempt = b]
  <2>1. Retry(job) = new
    BY <1>3 DEF Retry, Retired
  <2>2. a \in Attempt
    BY <1>3, JobFields
  <2>3. b \in Attempt
    BY <2>2 DEF Attempt
  <2>4. /\ b.ticket = a.ticket /\ b.requests = a.requests
        /\ b.phase = "retired" /\ b.revoked = TRUE
    BY <2>2 DEF Attempt
  <2>5. new.state = "retrying" /\ new.attempt = b /\ new.rescue = job.rescue
    BY DEF Job
  <2>6. new \in Job
    BY <2>3 DEF Job, Active, Unfinished
  <2>7. b # None /\ "retrying" \in Unfinished
    BY <2>3, ConstantFacts DEF Unfinished
  <2>8. Follows(new, job) /\ Quiet(new, job)
    BY <1>3, <2>4, <2>5, <2>6, <2>7, EndedIsRetired
  <2>. QED BY <2>1, <2>8
<1>. QED BY <1>2, <1>3

LEMMA FinishFollows ==
  ASSUME NEW e, NEW how \in {"completed", "skipped"}, jobs[e] \in Job, Sound(jobs[e])
  PROVE  Follows(Finish(e, how), jobs[e]) /\ Quiet(Finish(e, how), jobs[e])
<1>1. CASE Undecided(e, jobs[e])
  BY <1>1, SameFollows DEF Finish
<1>2. CASE ~Undecided(e, jobs[e])
  <2>. DEFINE job == jobs[e]
              new == [job EXCEPT !.state = how, !.attempt = None]
  <2>1. Finish(e, how) = new
    BY <1>2 DEF Finish
  <2>2. new.state = how /\ new.attempt = None /\ new.rescue = job.rescue
    BY DEF Job
  <2>3. new \in Job
    BY DEF Job
  <2>4. ~Outstanding(job.attempt)
    BY <1>2 DEF Undecided
  <2>5. Sound(new) /\ ~HoldsSlot(new) /\ new.state # "waiting_result"
    BY <2>2 DEF Sound, HoldsSlot
  <2>. QED BY <2>1, <2>2, <2>3, <2>4, <2>5 DEF Follows, Quiet
<1>. QED BY <1>1, <1>2

LEMMA UnfinishedIdle ==
  ASSUME NEW job \in Job, Sound(job), job.state # "waiting_result"
  PROVE  ~Outstanding(job.attempt)
BY DEF Sound, ValidAttempt, Outstanding, Some

(* A job the lane reads is put back to wait.                               *)
LEMMA PendingFollows ==
  ASSUME NEW job \in Job, Sound(job), job.state \in Unfinished
  PROVE  LET new == [job EXCEPT !.state = "pending"]
         IN  Follows(new, job) /\ Quiet(new, job)
<1>. DEFINE new == [job EXCEPT !.state = "pending"]
<1>1. new.state = "pending" /\ new.attempt = job.attempt /\ new.rescue = job.rescue
  BY DEF Job
<1>2. new \in Job
  BY DEF Job, Active, Unfinished
<1>3. job.state # "waiting_result" /\ ~Outstanding(job.attempt)
  BY UnfinishedIdle DEF Unfinished
<1>4. job.attempt # None => ValidAttempt(new)
  BY <1>1, <1>3 DEF Sound, ValidAttempt
<1>5. Sound(new) /\ ~HoldsSlot(new) /\ new.state # "waiting_result"
  BY <1>1, <1>4 DEF Sound, HoldsSlot, Active, Unfinished
<1>. QED BY <1>1, <1>2, <1>3, <1>5 DEF Follows, Quiet

(* A handoff that was not made is withdrawn.                               *)
LEMMA WithdrawnFollows ==
  ASSUME NEW job \in Job, ~Outstanding(job.attempt)
  PROVE  LET new == [job EXCEPT !.state = "pending", !.attempt = None]
         IN  Follows(new, job) /\ Quiet(new, job)
<1>. DEFINE new == [job EXCEPT !.state = "pending", !.attempt = None]
<1>1. new.state = "pending" /\ new.attempt = None /\ new.rescue = job.rescue
  BY DEF Job
<1>2. new \in Job
  BY DEF Job, Active, Unfinished
<1>3. Sound(new) /\ ~HoldsSlot(new) /\ new.state # "waiting_result"
  BY <1>1 DEF Sound, HoldsSlot
<1>. QED BY <1>1, <1>2, <1>3 DEF Follows, Quiet

LEMMA NewJobFollows ==
  ASSUME NEW job \in Job, NEW rescue,
         rescue \in [state : {"none", "measured", "used"}, failed : 0..MaxTickets]
  PROVE  Follows(NewJob(rescue), job)
<1>. DEFINE new == NewJob(rescue)
<1>1. new.state = "pending" /\ new.attempt = None
  BY DEF NewJob
<1>2. new \in Job
  BY DEF Job, NewJob, Active, Unfinished
<1>3. Sound(new) /\ ~HoldsSlot(new)
  BY <1>1 DEF Sound, HoldsSlot
<1>. QED BY <1>1, <1>2, <1>3 DEF Follows

(* Frigate reports how its attempt ended.                                  *)
LEMMA ReportFollows ==
  ASSUME NEW job \in Job, Sound(job), job.attempt # None, job.state = "waiting_result",
         ~job.attempt.revoked, job.attempt.outcome = None,
         NEW outcome \in {"success", "failed"}
  PROVE  LET new == Reconcile([job EXCEPT !.attempt.outcome = outcome])
         IN  Follows(new, job) /\ Quiet(new, job)
<1>. DEFINE a == job.attempt
            b == [a EXCEPT !.outcome = outcome]
            told == [job EXCEPT !.attempt = b]
            told2 == [job EXCEPT !.attempt.outcome = outcome]
            new == Reconcile(told)
<1>1. a \in Attempt
  BY JobFields
<1>2. b \in Attempt
  BY <1>1 DEF Attempt
<1>3. /\ b.ticket = a.ticket /\ b.requests = a.requests /\ b.phase = a.phase
      /\ b.revoked = a.revoked /\ b.outcome = outcome
  BY <1>1 DEF Attempt
<1>4. told.state = job.state /\ told.attempt = b /\ told.rescue = job.rescue
  BY DEF Job
<1>5. told \in Job /\ told2 = told
  BY <1>2 DEF Job
<1>6. b # None /\ outcome # None /\ (Outstanding(b) <=> Outstanding(a))
  BY <1>2, <1>3, ConstantFacts DEF Outstanding, Some
<1>7. a.phase # "retired" /\ a.phase # "verifying_saved"
  BY <1>1 DEF Sound, ValidAttempt
<1>8. OneOutstanding(b)
  BY <1>3 DEF Sound, OneOutstanding
<1>12. /\ told.attempt # None /\ told.state = "waiting_result" /\ told.attempt = b
       /\ told.attempt.outcome = outcome /\ told \in Job
       /\ told.rescue = job.rescue
  BY <1>3, <1>4, <1>5, <1>6
<1>. HIDE DEF told, b
<1>9. CASE Outstanding(b)
  <2>1. new = told
    BY <1>12, <1>9 DEF Reconcile
  <2>2. a.phase # "handed_off"
    BY <1>6, <1>9 DEF Sound, ValidAttempt
  <2>3. ValidAttempt(told)
    BY <1>3, <1>4, <1>6, <1>7, <1>9, <2>2 DEF Sound, ValidAttempt, Some
  <2>4. Sound(told)
    BY <1>4, <1>8, <2>3 DEF Sound, Active
  <2>5. HoldsSlot(told) => HoldsSlot(job)
    BY <1>7 DEF HoldsSlot
  <2>. QED BY <1>3, <1>4, <1>12, <1>5, <1>6, <2>1, <2>4, <2>5 DEF Follows, Quiet
<1>10. CASE ~Outstanding(b) /\ outcome = "failed"
  <2>. DEFINE c == [b EXCEPT !.revoked = TRUE, !.phase = "retired", !.outcome = None]
              last == [told EXCEPT !.state = "retrying", !.attempt = c]
  <2>1. new = Retry(told)
    BY <1>12, <1>6, <1>10 DEF Reconcile
  <2>2. Retry(told) = last
    BY <1>12, <1>6, <1>10 DEF Retry, Retired
  <2>3. c \in Attempt
    BY <1>2 DEF Attempt
  <2>4. /\ c.ticket = b.ticket /\ c.requests = b.requests
        /\ c.phase = "retired" /\ c.revoked = TRUE
    BY <1>2 DEF Attempt
  <2>5. last.state = "retrying" /\ last.attempt = c /\ last.rescue = job.rescue
    BY <1>5, <1>4 DEF Job
  <2>6. last \in Job
    BY <1>5, <2>3 DEF Job, Active, Unfinished
  <2>7. c # None /\ "retrying" \in Unfinished
    BY <2>3, ConstantFacts DEF Unfinished
  <2>8. Follows(last, job) /\ Quiet(last, job)
    BY <1>3, <1>6, <1>10, <2>4, <2>5, <2>6, <2>7, EndedIsRetired
  <2>. QED BY <1>5, <2>1, <2>2, <2>8
<1>11. CASE ~Outstanding(b) /\ outcome = "success"
  <2>. DEFINE c == [b EXCEPT !.phase = "verifying_saved", !.revoked = TRUE]
              last == [told EXCEPT !.attempt = c]
  <2>1. new = last
    <3>1. new = [told EXCEPT !.attempt.phase = "verifying_saved", !.attempt.revoked = TRUE]
      BY <1>12, <1>6, <1>11 DEF Reconcile
    <3>. QED BY <3>1, <1>12 DEF Job
  <2>2. c \in Attempt
    BY <1>2 DEF Attempt
  <2>3. /\ c.ticket = b.ticket /\ c.requests = b.requests
        /\ c.phase = "verifying_saved" /\ c.revoked = TRUE /\ c.outcome = "success"
    BY <1>2, <1>3, <1>11 DEF Attempt
  <2>4. last.state = "waiting_result" /\ last.attempt = c /\ last.rescue = job.rescue
    BY <1>5, <1>4 DEF Job
  <2>5. last \in Job
    BY <1>5, <2>2 DEF Job
  <2>9. c # None
    BY <2>2, ConstantFacts
  <2>. HIDE DEF c, last
  <2>6. c # None /\ ~Outstanding(c) /\ OneOutstanding(c)
    BY <1>8, <1>11, <2>9, <2>3, <1>6 DEF Outstanding, Some, OneOutstanding
  <2>7. ValidAttempt(last)
    BY <1>3, <2>3, <2>4, <2>6 DEF ValidAttempt, Sound
  <2>8. Sound(last) /\ ~HoldsSlot(last)
    BY <2>3, <2>4, <2>6, <2>7 DEF Sound, HoldsSlot, Active
  <2>. QED BY <1>3, <1>5, <1>6, <1>11, <2>1, <2>3, <2>4, <2>5, <2>6, <2>8, <1>12 DEF Follows, Quiet
<1>. QED BY <1>5, <1>9, <1>10, <1>11
------------------------------------------------------------------------------
(* What becomes of all jobs *)

LEMMA WaitingFewer ==
  ASSUME NEW js, NEW new, \A e \in Events : new[e].state = "waiting_result" =>
                                              js[e].state = "waiting_result"
  PROVE  /\ Cardinality(Waiting(new)) \in Nat /\ Cardinality(Waiting(js)) \in Nat
         /\ Cardinality(Waiting(new)) <= Cardinality(Waiting(js))
<1>1. IsFiniteSet(Waiting(js)) /\ Waiting(new) \subseteq Waiting(js)
  BY ConstantFacts, FS_Subset DEF Waiting
<1>. QED BY <1>1, FS_Subset, FS_CardinalityType

LEMMA FollowsConsistent ==
  ASSUME NEW drawn \in Nat, NEW js, Consistent(js, drawn),
         NEW new, new = [e \in Events |-> new[e]],
         \A e \in Events : Follows(new[e], js[e])
  PROVE  Consistent(new, drawn)
<1>1. new \in [Events -> Job] /\ \A e \in Events : Sound(new[e])
  BY DEF Follows
<1>2. \A e \in Events : new[e].attempt # None =>
        js[e].attempt # None /\ new[e].attempt.ticket = js[e].attempt.ticket
  BY DEF Follows
<1>3. \A e \in Events : new[e].attempt # None => new[e].attempt.ticket <= drawn
  BY <1>2 DEF Consistent
<1>4. \A e, f \in Events :
        /\ new[e].attempt # None /\ new[f].attempt # None
        /\ new[e].attempt.ticket = new[f].attempt.ticket
        => e = f
  BY <1>2 DEF Consistent
<1>5. \A e, f \in Events : HoldsSlot(new[e]) /\ HoldsSlot(new[f]) => e = f
  BY DEF Consistent, Follows
<1>6. Cardinality(Waiting(new)) <= MaxVerifying
  <2>1. \A e \in Events : new[e].state = "waiting_result" => js[e].state = "waiting_result"
    BY DEF Follows
  <2>2. /\ Cardinality(Waiting(new)) \in Nat /\ Cardinality(Waiting(js)) \in Nat
        /\ Cardinality(Waiting(new)) <= Cardinality(Waiting(js))
    BY <2>1, WaitingFewer
  <2>. QED BY <2>2, ConstantFacts DEF Consistent
<1>. QED BY <1>1, <1>3, <1>4, <1>5, <1>6 DEF Consistent

LEMMA DrawnMore ==
  ASSUME NEW js, NEW c \in Nat, NEW d \in Nat, c <= d, Consistent(js, c)
  PROVE  Consistent(js, d)
<1>1. \A e \in Events : js[e].attempt # None => js[e].attempt.ticket \in Nat
  BY JobFields, AttemptFields, ConstantFacts DEF Consistent
<1>. QED BY <1>1 DEF Consistent

LEMMA BackedIsOutstanding ==
  ASSUME NEW job \in Job, NEW i, Backs(job, i)
  PROVE  Outstanding(job.attempt)
BY DEF Backs, Outstanding, Some

LEMMA AdmittedIsOutstanding ==
  ASSUME NEW job \in Job, NEW id, Admits(job, id)
  PROVE  Outstanding(job.attempt)
BY DEF Admits, Outstanding, Some

LEMMA QuietKeeps ==
  ASSUME NEW old \in Job, NEW new, Quiet(new, old)
  PROVE  /\ \A i : Backs(old, i) => Backs(new, i)
         /\ \A id : Admits(old, id) => Admits(new, id)
         /\ \A inf : Attended(old, inf) => Attended(new, inf)
<1>1. ASSUME NEW i, Backs(old, i) PROVE Backs(new, i)
  BY <1>1, BackedIsOutstanding DEF Backs, Quiet
<1>2. ASSUME NEW id, Admits(old, id) PROVE Admits(new, id)
  BY <1>2, AdmittedIsOutstanding DEF Admits, Quiet
<1>3. ASSUME NEW inf, Attended(old, inf) PROVE Attended(new, inf)
  BY <1>3 DEF Attended, Quiet
<1>. QED BY <1>1, <1>2, <1>3

LEMMA QuietCovers ==
  ASSUME NEW js \in [Events -> Job], NEW new, NEW inf \in SUBSET Inferences,
         NEW gpu, NEW opn, NEW enl, NEW fewer \in SUBSET opn,
         Covers(js, inf, gpu, opn, enl),
         \A e \in Events : Quiet(new[e], js[e]),
         \A e \in fewer : new[e].state = "waiting_result"
  PROVE  Covers(new, inf, gpu, fewer, enl)
<1>1. \A i \in inf : Backs(new[i.event], i)
  <2>. SUFFICES ASSUME NEW i \in inf PROVE Backs(new[i.event], i)
    OBVIOUS
  <2>1. i.event \in Events
    BY DEF Inferences
  <2>2. Backs(js[i.event], i) /\ Quiet(new[i.event], js[i.event]) /\ js[i.event] \in Job
    BY <2>1 DEF Covers
  <2>. QED BY <2>2, QuietKeeps
<1>2. \A id \in gpu : \E e \in Events : Admits(new[e], id)
  BY QuietKeeps DEF Covers
<1>3. Rescues(new, inf, enl)
  BY DEF Rescues, Quiet, Covers
<1>. QED BY <1>1, <1>2, <1>3 DEF Covers

LEMMA FewerCovers ==
  ASSUME NEW js, NEW inf, NEW gpu, NEW opn, NEW enl, Covers(js, inf, gpu, opn, enl),
         NEW inf2 \in SUBSET inf, NEW gpu2 \in SUBSET gpu, NEW opn2 \in SUBSET opn
  PROVE  Covers(js, inf2, gpu2, opn2, enl)
BY DEF Covers, Rescues

(* A new memory is written down, or the old file stays.                    *)
LEMMA PersistKeeps ==
  ASSUME NEW js, Persist(js), storeError \in BOOLEAN, faults \in 0..MaxFaults,
         Consistent(js, tickets'), Consistent(file, tickets'),
         Covers(js, inferences', onGpu', open', enlarged'),
         storeError' => Covers(file, inferences', onGpu', open', enlarged')
  PROVE  /\ jobs' = js /\ Filed'
         /\ Consistent(jobs, tickets)' /\ Consistent(file, tickets)'
         /\ Covers(jobs, inferences, onGpu, open, enlarged)'
         /\ Covers(file, inferences, onGpu, open, enlarged)'
         /\ storeError' \in BOOLEAN /\ (storeError => storeError')
         /\ faults' \in 0..MaxFaults
<1>1. jobs' = js /\ file' \in {file, js}
  BY DEF Persist, Stored
<1>2. ~storeError' => file' = js
  BY DEF Persist
<1>3. storeError' \in BOOLEAN /\ (storeError => storeError') /\ faults' \in 0..MaxFaults
  <2>0. storeError' = storeError \/ storeError' = TRUE
    BY DEF Persist
  <2>1. storeError' \in BOOLEAN /\ (storeError => storeError')
    BY <2>0
  <2>2. faults' \in 0..MaxFaults
    BY ConstantFacts DEF Persist
  <2>. QED BY <2>1, <2>2
<1>4. Consistent(jobs, tickets)' /\ Consistent(file, tickets)'
  BY <1>1 DEF Consistent, Waiting
<1>5. Covers(jobs, inferences, onGpu, open, enlarged)'
  BY <1>1 DEF Covers, Rescues
<1>6. Covers(file, inferences, onGpu, open, enlarged)'
  <2>1. CASE file' = js
    BY <2>1 DEF Covers, Rescues
  <2>2. CASE file' = file /\ storeError'
    BY <2>2 DEF Covers, Rescues
  <2>. QED BY <1>1, <1>2, <1>3, <2>1, <2>2
<1>7. Filed'
  BY <1>1, <1>2 DEF Filed
<1>. QED BY <1>1, <1>3, <1>4, <1>5, <1>6, <1>7

(* What a quiet change keeps of the invariant: all but what the variables  *)
(* of the lane, of the cleanup and of time say.                            *)
Core ==
  /\ storeError \in BOOLEAN /\ faults \in 0..MaxFaults
  /\ Consistent(jobs, tickets) /\ Consistent(file, tickets)
  /\ Covers(jobs, inferences, onGpu, open, enlarged)
  /\ Covers(file, inferences, onGpu, open, enlarged)
  /\ SentOnce /\ Filed
  /\ up /\ ~storeError => \A e \in Events : Attended(jobs[e], inferences)

LEMMA QuietStep ==
  ASSUME IInv, NEW js, Persist(js), js = [e \in Events |-> js[e]],
         \A e \in Events : Follows(js[e], jobs[e]) /\ Quiet(js[e], jobs[e]),
         open' \subseteq open, \A e \in open' : js[e].state = "waiting_result",
         UNCHANGED <<up, inferences, onGpu, enlarged, tickets>>
  PROVE  Core' /\ jobs' = js /\ (storeError => storeError')
<1>1. /\ tickets \in Nat /\ inferences \in SUBSET Inferences /\ jobs \in [Events -> Job]
      /\ storeError \in BOOLEAN /\ faults \in 0..MaxFaults
      /\ Consistent(jobs, tickets) /\ Consistent(file, tickets)
      /\ Covers(jobs, inferences, onGpu, open, enlarged)
      /\ Covers(file, inferences, onGpu, open, enlarged)
  BY ConstantFacts DEF IInv, Types, Consistent
<1>2. Consistent(js, tickets)
  BY <1>1, FollowsConsistent
<1>3. Covers(js, inferences, onGpu, open', enlarged)
  BY <1>1, QuietCovers
<1>4. Covers(file, inferences, onGpu, open', enlarged)
  BY <1>1, FewerCovers
<1>5. /\ jobs' = js /\ Filed'
      /\ Consistent(jobs, tickets)' /\ Consistent(file, tickets)'
      /\ Covers(jobs, inferences, onGpu, open, enlarged)'
      /\ Covers(file, inferences, onGpu, open, enlarged)'
      /\ storeError' \in BOOLEAN /\ (storeError => storeError')
      /\ faults' \in 0..MaxFaults
  BY <1>1, <1>2, <1>3, <1>4, PersistKeeps
<1>6. SentOnce'
  BY DEF IInv, SentOnce, Id
<1>7. up' /\ ~storeError' => \A e \in Events : Attended(jobs[e], inferences)'
  <2>. SUFFICES ASSUME up', ~storeError', NEW e \in Events
       PROVE  Attended(js[e], inferences)
    BY <1>5 DEF Attended
  <2>1. Attended(jobs[e], inferences)
    BY <1>1, <1>5 DEF IInv
  <2>. QED BY <1>1, <2>1, QuietKeeps
<1>. QED BY <1>5, <1>6, <1>7 DEF Core

(* A step that leaves jobs, requests and tickets as they are. *)
LEMMA IdleStep ==
  ASSUME IInv,
         UNCHANGED <<up, storeError, jobs, file, open, inferences, onGpu, enlarged,
                     tickets, faults>>
  PROVE  Core'
BY DEF IInv, Core, Filed, Types, Consistent, Waiting, Covers, Rescues, SentOnce, Id, Attended

(* A job of the lane is as it was.                                         *)
LEMMA LaneKept ==
  ASSUME NEW js, NEW new, NEW ln, NEW ln2, NEW told, NEW opn, NEW fewer \in SUBSET opn,
         LaneTrue(js, ln, told, opn), ln2.event = ln.event, ln2.at = ln.at,
         Cardinality(Waiting(js)) \in Nat,
         \A e \in Events : Follows(new[e], js[e]),
         \A e \in Events : ln.event = e /\ ln.at \in {"read", "saved"} =>
           new[e].state = js[e].state /\ new[e].attempt = js[e].attempt
  PROVE  LaneTrue(new, ln2, told, fewer)
<1>. SUFFICES ASSUME NEW e \in Events, ln.event = e
     PROVE  /\ ln.at = "read" => Reading(new, e)
            /\ ln.at = "saved" => Fresh(new[e], told) /\ e \notin fewer
  BY DEF LaneTrue
<1>1. ASSUME ln.at = "read" PROVE Reading(new, e)
  <2>1. /\ js[e].state \in Unfinished /\ \A f \in Events : ~HoldsSlot(js[f])
        /\ Cardinality(Waiting(js)) < MaxVerifying
    BY <1>1 DEF LaneTrue, Reading
  <2>2. /\ Cardinality(Waiting(new)) \in Nat
        /\ Cardinality(Waiting(new)) <= Cardinality(Waiting(js))
    BY WaitingFewer DEF Follows
  <2>3. Cardinality(Waiting(new)) < MaxVerifying
    BY <2>1, <2>2, ConstantFacts
  <2>. QED BY <1>1, <2>1, <2>3 DEF Reading, Follows
<1>2. ASSUME ln.at = "saved" PROVE Fresh(new[e], told) /\ e \notin fewer
  BY <1>2 DEF LaneTrue, Fresh
<1>. QED BY <1>1, <1>2

LEMMA LaneElsewhere ==
  ASSUME NEW js, NEW ln, NEW told, NEW opn, ln.at \notin {"read", "saved"}
  PROVE  LaneTrue(js, ln, told, opn)
BY DEF LaneTrue
------------------------------------------------------------------------------
(* Steps of one job that touch no inference *)

LEMMA IInvFacts ==
  ASSUME IInv
  PROVE  /\ jobs \in [Events -> Job] /\ file \in [Events -> Job]
         /\ \A e \in Events : jobs[e] \in Job /\ Sound(jobs[e])
         /\ tickets \in Nat /\ inferences \in SUBSET Inferences
         /\ lane \in Lanes
         /\ \A e \in open : jobs[e].state = "waiting_result"
         /\ \A e \in Events : Follows(jobs[e], jobs[e]) /\ Quiet(jobs[e], jobs[e])
         /\ \A js : Cardinality(Waiting(js)) \in Nat
<1>1. \A js : Cardinality(Waiting(js)) \in Nat
  <2>. TAKE js
  <2>1. Waiting(js) \subseteq Events
    BY DEF Waiting
  <2>. QED BY <2>1, ConstantFacts, FS_Subset, FS_CardinalityType
<1>2. jobs \in [Events -> Job] /\ \A e \in Events : jobs[e] \in Job /\ Sound(jobs[e])
  BY DEF IInv, Consistent
<1>3. \A e \in Events : Follows(jobs[e], jobs[e]) /\ Quiet(jobs[e], jobs[e])
  BY <1>2, SameFollows
<1>. QED BY <1>1, <1>2, <1>3 DEF IInv, Consistent, Types, Covers

LEMMA PutIs ==
  ASSUME jobs \in [Events -> Job], NEW e \in Events, NEW job
  PROVE  /\ Put(e, job) = [f \in Events |-> Put(e, job)[f]]
         /\ Put(e, job)[e] = job
         /\ \A f \in Events \ {e} : Put(e, job)[f] = jobs[f]
BY DEF Put

LEMMA Assembled ==
  ASSUME Types', Core', ~up' => inferences' = {} /\ lane' = Rest /\ jobs' = file',
         up' /\ ~storeError' => LaneTrue(jobs', lane', handed', open')
  PROVE  IInv'
BY DEF IInv, Core

LEMMA PutStep ==
  ASSUME IInv, NEW e \in Events, NEW job, Persist(Put(e, job)),
         Follows(job, jobs[e]), Quiet(job, jobs[e]),
         open' \subseteq open, e \in open' => job.state = "waiting_result",
         UNCHANGED <<up, inferences, onGpu, enlarged, tickets, handed>>,
         \/ lane'.at \notin {"read", "saved"}
         \/ lane'.at = lane.at /\ lane'.event = lane.event /\ lane.event # e
  PROVE  /\ Core' /\ jobs' = Put(e, job)
         /\ up' /\ ~storeError' => LaneTrue(jobs', lane', handed', open')
<1>. DEFINE js == Put(e, job)
<1>1. jobs \in [Events -> Job] /\ js = [f \in Events |-> js[f]] /\ js[e] = job
      /\ \A f \in Events \ {e} : js[f] = jobs[f]
  BY IInvFacts, PutIs
<1>. HIDE DEF js
<1>2. \A f \in Events : Follows(js[f], jobs[f]) /\ Quiet(js[f], jobs[f])
  BY <1>1, IInvFacts
<1>3. open \subseteq Events
  BY DEF IInv, Types
<1>4. \A f \in open' : js[f].state = "waiting_result"
  BY <1>1, <1>3, IInvFacts
<1>5. Core' /\ jobs' = js /\ (storeError => storeError')
  BY <1>1, <1>2, <1>4, QuietStep DEF js
<1>6. ASSUME up', ~storeError' PROVE LaneTrue(js, lane', handed', open')
  <2>1. CASE lane'.at \notin {"read", "saved"}
    BY <2>1, LaneElsewhere
  <2>2. CASE lane'.at = lane.at /\ lane'.event = lane.event /\ lane.event # e
    <3>1. LaneTrue(jobs, lane, handed, open)
      BY <1>5, <1>6 DEF IInv
    <3>2. LaneTrue(js, lane', handed, open')
      BY <1>1, <1>2, <2>2, <3>1, IInvFacts, LaneKept
    <3>. QED BY <3>2
  <2>. QED BY <2>1, <2>2
<1>. QED BY <1>5, <1>6 DEF js

LEMMA ResolveFacts ==
  ASSUME IInv, NEW e \in Events, NEW job, Resolve(Put(e, job))
  PROVE  open' \subseteq open /\ (e \in open' => job.state = "waiting_result")
         /\ open' \subseteq Events
BY IInvFacts, PutIs DEF Resolve, IInv, Types

(* A step of the lane that changes no job.                                 *)
LEMMA LaneOnlyStep ==
  ASSUME IInv, up, ~storeError, OnlyLane, lane' \in Lanes,
         cleaning # None => cleaning # lane'.event,
         LaneTrue(jobs, lane', handed, open)
  PROVE  IInv'
<1>1. UNCHANGED <<up, storeError, jobs, file, due, faults, tickets, handed, open, cleaning,
                  inferences, onGpu, enlarged, crashes>>
  BY DEF OnlyLane, LaneKeeps, store, frigate
<1>2. Core'
  BY <1>1, IdleStep
<1>3. Types'
  BY <1>1 DEF IInv, Types
<1>4. LaneTrue(jobs', lane', handed', open')
  BY <1>1
<1>. QED BY <1>1, <1>2, <1>3, <1>4, Assembled

(* The lane or the cleanup is done with a job and retries, finishes or     *)
(* leaves it.                                                              *)
LEMMA CloseStep ==
  ASSUME IInv, NEW e \in Events, NEW job, Close(e, job),
         Follows(job, jobs[e]), Quiet(job, jobs[e]),
         UNCHANGED <<up, inferences, onGpu, enlarged, crashes>>,
         lane' \in Lanes, cleaning' \in Events \cup {None},
         cleaning' # None => cleaning' # lane'.event,
         up,
         \/ lane'.at \notin {"read", "saved"}
         \/ lane'.at = lane.at /\ lane'.event = lane.event /\ lane.event # e
  PROVE  IInv'
<1>1. /\ Persist(Put(e, job)) /\ Resolve(Put(e, job))
      /\ due' \subseteq due /\ UNCHANGED <<tickets, handed>>
  BY DEF Close
<1>2. open' \subseteq open /\ (e \in open' => job.state = "waiting_result")
  BY <1>1, ResolveFacts
<1>3. Core' /\ (up' /\ ~storeError' => LaneTrue(jobs', lane', handed', open'))
  BY <1>1, <1>2, PutStep
<1>4. storeError' \in BOOLEAN /\ faults' \in 0..MaxFaults
  BY <1>3 DEF Core
<1>5. Types'
  BY <1>1, <1>2, <1>4 DEF IInv, Types
<1>. QED BY <1>3, <1>5, Assembled
------------------------------------------------------------------------------
(* Jobs appear, time passes, the operator asks *)

LEMMA SkippedFacts ==
  ASSUME IInv, NEW e \in Events, jobs[e].state = "skipped", up, ~storeError
  PROVE  /\ jobs[e].attempt = None
         /\ lane.at \in {"read", "saved"} => lane.event # e
         /\ \A i \in inferences : i.event # e
<1>1. jobs[e].attempt = None
  BY IInvFacts DEF Sound, Active, Unfinished
<1>2. lane.at \in {"read", "saved"} => lane.event # e
  BY DEF IInv, LaneTrue, Reading, Fresh, Unfinished
<1>3. \A i \in inferences : i.event # e
  BY <1>1 DEF IInv, Covers, Backs
<1>. QED BY <1>1, <1>2, <1>3

LEMMA UnlistedFacts ==
  ASSUME IInv, NEW e \in Events, Unlisted(e)
  PROVE  lane' \in Lanes /\ lane'.at = lane.at /\ lane'.event = lane.event
<1>1. lane \in Lanes
  BY IInvFacts
<1>. QED BY <1>1 DEF Unlisted, Lanes

LEMMA DiscoverKeeps ==
  ASSUME IInv, NEW e \in Events, Discover(e)
  PROVE  IInv'
<1>. DEFINE job == NewJob(NoRescue)
            js == Put(e, job)
<1>1. /\ up /\ ~storeError /\ jobs[e].state = "skipped"
      /\ Persist(js) /\ due' = due \ {e}
      /\ enlarged' = [enlarged EXCEPT ![e] = 0] /\ Unlisted(e)
      /\ UNCHANGED <<up, cleaning, inferences, onGpu, tickets, handed, open, crashes>>
  BY DEF Discover, frigate
<1>2. lane' \in Lanes /\ lane'.at = lane.at /\ lane'.event = lane.event
  BY <1>1, UnlistedFacts
<1>3. /\ jobs[e].attempt = None /\ (lane.at \in {"read", "saved"} => lane.event # e)
      /\ \A i \in inferences : i.event # e
  BY <1>1, SkippedFacts
<1>4. js = [f \in Events |-> js[f]] /\ js[e] = job /\ \A f \in Events \ {e} : js[f] = jobs[f]
  BY IInvFacts, PutIs
<1>5. job.state = "pending" /\ job.attempt = None
  BY DEF NewJob
<1>. HIDE DEF js
<1>6. \A f \in Events : Follows(js[f], jobs[f])
  <2>1. NoRescue \in [state : {"none", "measured", "used"}, failed : 0..MaxTickets]
    BY ConstantFacts DEF NoRescue
  <2>2. Follows(job, jobs[e])
    BY <2>1, IInvFacts, NewJobFollows
  <2>. QED BY <1>4, <2>2, IInvFacts
<1>7. Consistent(js, tickets')
  BY <1>1, <1>4, <1>6, IInvFacts, FollowsConsistent DEF IInv
<1>8. Consistent(file, tickets')
  BY <1>1 DEF IInv
<1>9. enlarged' \in [Events -> {0, 1}] /\ enlarged'[e] = 0
      /\ \A f \in Events \ {e} : enlarged'[f] = enlarged[f]
  BY <1>1 DEF IInv, Types
<1>10. Covers(js, inferences', onGpu', open', enlarged')
  <2>1. \A i \in inferences : Backs(js[i.event], i)
    <3>. SUFFICES ASSUME NEW i \in inferences PROVE Backs(js[i.event], i)
      OBVIOUS
    <3>1. i.event \in Events \ {e}
      BY <1>3, IInvFacts DEF Inferences
    <3>. QED BY <1>4, <3>1 DEF IInv, Covers
  <2>2. \A id \in onGpu : \E f \in Events : Admits(js[f], id)
    BY <1>3, <1>4 DEF IInv, Covers, Admits
  <2>3. \A f \in open : js[f].state = "waiting_result"
    BY <1>1, <1>4 DEF IInv, Covers, Types
  <2>4. Rescues(js, inferences, enlarged')
    BY <1>3, <1>4, <1>9 DEF IInv, Covers, Rescues
  <2>. QED BY <1>1, <2>1, <2>2, <2>3, <2>4 DEF Covers
<1>11. Covers(file, inferences', onGpu', open', enlarged')
  <2>1. Rescues(file, inferences, enlarged')
    BY <1>3, <1>9 DEF IInv, Covers, Rescues
  <2>. QED BY <1>1, <2>1 DEF IInv, Covers
<1>12. /\ jobs' = js /\ Filed'
       /\ Consistent(jobs, tickets)' /\ Consistent(file, tickets)'
       /\ Covers(jobs, inferences, onGpu, open, enlarged)'
       /\ Covers(file, inferences, onGpu, open, enlarged)'
       /\ storeError' \in BOOLEAN /\ faults' \in 0..MaxFaults
  BY <1>1, <1>7, <1>8, <1>10, <1>11, PersistKeeps DEF IInv, Types
<1>13. SentOnce'
  BY <1>1, <1>3, <1>9, IInvFacts DEF IInv, SentOnce, Id, Inferences
<1>14. \A f \in Events : Attended(jobs'[f], inferences')
  BY <1>1, <1>4, <1>5, <1>12 DEF IInv, Attended
<1>15. Types'
  BY <1>1, <1>2, <1>9, <1>12 DEF IInv, Types
<1>16. LaneTrue(jobs', lane', handed', open')
  <2>1. LaneTrue(jobs, lane, handed, open)
    BY <1>1 DEF IInv
  <2>2. LaneTrue(js, lane', handed, open)
    BY <1>2, <1>3, <1>4, <1>6, <2>1, IInvFacts, LaneKept
  <2>. QED BY <1>1, <1>12, <2>2
<1>17. Core'
  BY <1>12, <1>13, <1>14 DEF Core
<1>. QED BY <1>1, <1>15, <1>16, <1>17, Assembled

LEMMA TimePassesKeeps ==
  ASSUME IInv, NEW e \in Events, TimePasses(e)
  PROVE  IInv'
<1>1. /\ due' = due \cup {e}
      /\ UNCHANGED <<up, storeError, jobs, file, faults, tickets, handed, open, cleaning,
                     lane, inferences, onGpu, enlarged, crashes>>
  BY DEF TimePasses, Elsewhere, ElsewhereBut, proxy
<1>2. Core'
  BY <1>1, IdleStep
<1>3. Types'
  BY <1>1 DEF IInv, Types
<1>4. (~up' => inferences' = {} /\ lane' = Rest /\ jobs' = file')
      /\ (up' /\ ~storeError' => LaneTrue(jobs', lane', handed', open'))
  BY <1>1 DEF IInv
<1>. QED BY <1>2, <1>3, <1>4, Assembled

LEMMA RetryJobKeeps ==
  ASSUME IInv, NEW e \in Events, RetryJob(e)
  PROVE  IInv'
<1>1. /\ up /\ ~storeError /\ Persist(jobs) /\ due' = due \cup {e}
      /\ UNCHANGED <<up, tickets, handed, open, cleaning, lane, inferences, onGpu,
                     enlarged, crashes>>
  BY DEF RetryJob, Elsewhere, ElsewhereBut, proxy
<1>2. Core' /\ jobs' = jobs
  BY <1>1, IInvFacts, QuietStep
<1>3. Types'
  BY <1>1, <1>2 DEF IInv, Types, Core
<1>4. LaneTrue(jobs', lane', handed', open')
  BY <1>1, <1>2 DEF IInv
<1>. QED BY <1>1, <1>2, <1>3, <1>4, Assembled

LEMMA RecheckJobKeeps ==
  ASSUME IInv, NEW e \in Events, RecheckJob(e)
  PROVE  IInv'
<1>. DEFINE job == NewJob(jobs[e].rescue)
<1>1. /\ up /\ ~storeError /\ jobs[e].state = "skipped"
      /\ Persist(Put(e, job)) /\ due' = due \cup {e} /\ Unlisted(e)
      /\ UNCHANGED <<up, cleaning, inferences, onGpu, enlarged, tickets, handed, open,
                     crashes>>
  BY DEF RecheckJob, ElsewhereBut, proxy
<1>2. lane' \in Lanes /\ lane'.at = lane.at /\ lane'.event = lane.event
  BY <1>1, UnlistedFacts
<1>3. jobs[e].attempt = None /\ (lane.at \in {"read", "saved"} => lane.event # e)
  BY <1>1, SkippedFacts
<1>4. Follows(job, jobs[e])
  BY IInvFacts, JobFields, NewJobFollows
<1>5. Quiet(job, jobs[e])
  BY <1>3, NoneIsIdle DEF NewJob, Quiet
<1>6. e \notin open
  BY <1>1, IInvFacts
<1>7. Core' /\ (up' /\ ~storeError' => LaneTrue(jobs', lane', handed', open'))
  BY <1>1, <1>2, <1>3, <1>4, <1>5, <1>6, PutStep
<1>8. Types'
  BY <1>1, <1>2, <1>7 DEF IInv, Types, Core
<1>. QED BY <1>1, <1>7, <1>8, Assembled
------------------------------------------------------------------------------
(* The lane *)

LEMMA RestFacts == Rest \in Lanes /\ Rest.at = "idle" /\ Rest.event = None
BY DEF Rest, Lanes

LEMMA LaneParts ==
  ASSUME NEW ln \in Lanes
  PROVE  /\ ln.at \in {"idle", "verify", "read", "saved", "put"}
         /\ ln.event \in Events \cup {None} /\ ln.todo \subseteq Events
         /\ ln = [at |-> ln.at, event |-> ln.event, todo |-> ln.todo]
BY DEF Lanes

LEMMA LaneOf ==
  ASSUME NEW a \in {"idle", "verify", "read", "saved", "put"},
         NEW e \in Events \cup {None}, NEW s, s \subseteq Events
  PROVE  [at |-> a, event |-> e, todo |-> s] \in Lanes
BY DEF Lanes

LEMMA WakeKeeps ==
  ASSUME IInv, Wake
  PROVE  IInv'
<1>. DEFINE s == InState({"waiting_result"})
<1>1. up /\ ~storeError /\ OnlyLane
  BY DEF Wake, At
<1>2. lane' = [at |-> "verify", event |-> None, todo |-> s] /\ s \subseteq Events
  BY DEF Wake, Rest, InState
<1>3. lane' \in Lanes /\ lane'.at = "verify" /\ lane'.event = None
  BY <1>2, LaneOf
<1>4. cleaning # None => cleaning # lane'.event
  BY <1>3
<1>5. LaneTrue(jobs, lane', handed, open)
  BY <1>3, LaneElsewhere
<1>. QED BY <1>1, <1>3, <1>4, <1>5, LaneOnlyStep

LEMMA VerifyKeeps ==
  ASSUME IInv, NEW e \in Events, Verify(e)
  PROVE  IInv'
<1>1. up /\ ~storeError /\ OnlyLane /\ lane.at = "verify" /\ lane.event = None
  BY DEF Verify, At
<1>2. lane \in Lanes
  BY IInvFacts
<1>3. CASE e # cleaning /\ lane' = [lane EXCEPT !.event = e]
  <2>1. lane' \in Lanes /\ lane'.at = "verify" /\ lane'.event = e
    BY <1>1, <1>2, <1>3 DEF Lanes
  <2>2. LaneTrue(jobs, lane', handed, open)
    BY <2>1, LaneElsewhere
  <2>. QED BY <1>1, <1>3, <2>1, <2>2, LaneOnlyStep
<1>4. CASE lane' = [lane EXCEPT !.todo = @ \ {e}]
  <2>1. lane' \in Lanes /\ lane'.at = "verify" /\ lane'.event = None
    BY <1>1, <1>2, <1>4 DEF Lanes
  <2>2. LaneTrue(jobs, lane', handed, open)
    BY <2>1, LaneElsewhere
  <2>3. cleaning # None => cleaning # lane'.event
    BY <2>1
  <2>. QED BY <1>1, <2>1, <2>2, <2>3, LaneOnlyStep
<1>. QED BY <1>3, <1>4 DEF Verify

LEMMA VerifiedKeeps ==
  ASSUME IInv, NEW e \in Events, Verified(e)
  PROVE  IInv'
<1>1. /\ up /\ ~storeError /\ lane.at = "verify" /\ lane.event = e
      /\ lane' = [lane EXCEPT !.event = None, !.todo = @ \ {e}]
      /\ UNCHANGED <<up, cleaning, inferences, onGpu, enlarged, crashes>>
  BY DEF Verified, At, LaneKeeps
<1>2. lane' \in Lanes /\ lane'.at = "verify" /\ lane'.event = None
  <2>1. lane \in Lanes
    BY IInvFacts
  <2>. QED BY <1>1, <2>1 DEF Lanes
<1>3. cleaning' \in Events \cup {None} /\ (cleaning' # None => cleaning' # lane'.event)
  BY <1>1, <1>2 DEF IInv, Types
<1>4. jobs[e] \in Job /\ Sound(jobs[e])
  BY IInvFacts
<1>5. ASSUME NEW how \in {"completed", "skipped"}, Close(e, Finish(e, how)) PROVE IInv'
  <2>1. Follows(Finish(e, how), jobs[e]) /\ Quiet(Finish(e, how), jobs[e])
    BY <1>4, FinishFollows
  <2>. QED BY <1>1, <1>2, <1>3, <1>5, <2>1, CloseStep
<1>6. ASSUME Close(e, Retry(jobs[e])) PROVE IInv'
  <2>1. Follows(Retry(jobs[e]), jobs[e]) /\ Quiet(Retry(jobs[e]), jobs[e])
    BY <1>4, RetryFollows
  <2>. QED BY <1>1, <1>2, <1>3, <1>6, <2>1, CloseStep
<1>7. ASSUME UNCHANGED <<store, frigate, faults>> PROVE IInv'
  <2>1. OnlyLane
    BY <1>1, <1>7 DEF OnlyLane, LaneKeeps
  <2>2. LaneTrue(jobs, lane', handed, open)
    BY <1>2, LaneElsewhere
  <2>3. cleaning # None => cleaning # lane'.event
    BY <1>1, <1>3
  <2>. QED BY <1>1, <1>2, <2>1, <2>2, <2>3, LaneOnlyStep
<1>. QED BY <1>5, <1>6, <1>7 DEF Verified

LEMMA CheckKeeps ==
  ASSUME IInv, NEW e \in Events, Check(e)
  PROVE  IInv'
<1>1. /\ up /\ ~storeError /\ OnlyLane /\ Free /\ jobs[e].state \in Unfinished
      /\ e # cleaning
  BY DEF Check, At
<1>2. lane' = [at |-> "read", event |-> e, todo |-> {}]
  BY DEF Check, Rest
<1>3. lane' \in Lanes /\ lane'.at = "read" /\ lane'.event = e
  BY <1>2, LaneOf
<1>4. InState({"waiting_result"}) = Waiting(jobs)
  BY DEF InState, Waiting
<1>5. Reading(jobs, e)
  BY <1>1, <1>4 DEF Free, Reading
<1>6. LaneTrue(jobs, lane', handed, open)
  BY <1>3, <1>5 DEF LaneTrue
<1>. QED BY <1>1, <1>3, <1>6, LaneOnlyStep

LEMMA StopKeeps ==
  ASSUME IInv, Stop
  PROVE  IInv'
<1>1. up /\ ~storeError /\ OnlyLane /\ lane' = Rest
  BY DEF Stop, At
<1>2. lane' \in Lanes /\ lane'.at = "idle" /\ lane'.event = None
  BY <1>1, RestFacts
<1>3. LaneTrue(jobs, lane', handed, open)
  BY <1>2, LaneElsewhere
<1>4. cleaning # None => cleaning # lane'.event
  BY <1>2
<1>. QED BY <1>1, <1>2, <1>3, <1>4, LaneOnlyStep

LEMMA SettleKeeps ==
  ASSUME IInv, NEW e \in Events, Settle(e)
  PROVE  IInv'
<1>1. /\ up /\ ~storeError /\ lane.at = "read" /\ lane.event = e /\ lane' = Rest
      /\ UNCHANGED <<up, cleaning, inferences, onGpu, enlarged, crashes>>
  BY DEF Settle, At, LaneKeeps
<1>2. lane' \in Lanes /\ lane'.at = "idle" /\ lane'.event = None
  BY <1>1, RestFacts
<1>3. cleaning' \in Events \cup {None} /\ (cleaning' # None => cleaning' # lane'.event)
  BY <1>1, <1>2 DEF IInv, Types
<1>4. jobs[e] \in Job /\ Sound(jobs[e])
  BY IInvFacts
<1>5. ASSUME NEW how \in {"completed", "skipped"}, Close(e, Finish(e, how)) PROVE IInv'
  <2>1. Follows(Finish(e, how), jobs[e]) /\ Quiet(Finish(e, how), jobs[e])
    BY <1>4, FinishFollows
  <2>. QED BY <1>1, <1>2, <1>3, <1>5, <2>1, CloseStep
<1>6. ASSUME Close(e, Retry(jobs[e])) PROVE IInv'
  <2>1. Follows(Retry(jobs[e]), jobs[e]) /\ Quiet(Retry(jobs[e]), jobs[e])
    BY <1>4, RetryFollows
  <2>. QED BY <1>1, <1>2, <1>3, <1>6, <2>1, CloseStep
<1>. DEFINE job == [jobs[e] EXCEPT !.state = "pending"]
            js == Put(e, job)
<1>7. ASSUME Stored(js), due' = due \ {e}, UNCHANGED <<storeError, file, frigate, faults>>
      PROVE  IInv'
  <2>1. jobs[e].state \in Unfinished
    BY <1>1 DEF IInv, LaneTrue, Reading
  <2>2. Follows(job, jobs[e]) /\ Quiet(job, jobs[e])
    BY <1>4, <2>1, PendingFollows
  <2>3. e \notin open
    BY <2>1, IInvFacts DEF Unfinished
  <2>17. job.state = "pending"
    BY <1>4 DEF Job
  <2>4. js = [f \in Events |-> js[f]] /\ js[e] = job
        /\ \A f \in Events \ {e} : js[f] = jobs[f]
    BY IInvFacts, PutIs
  <2>. HIDE DEF js, job
  <2>5. \A f \in Events : Follows(js[f], jobs[f]) /\ Quiet(js[f], jobs[f])
    BY <2>2, <2>4, IInvFacts
  <2>6. Consistent(js, tickets)
    BY <2>4, <2>5, IInvFacts, FollowsConsistent DEF IInv
  <2>7. \A f \in open : js[f].state = "waiting_result"
    BY <2>3, <2>4, IInvFacts DEF IInv, Types
  <2>8. Covers(js, inferences, onGpu, open, enlarged)
    BY <2>5, <2>7, IInvFacts, QuietCovers DEF IInv
  <2>9. /\ jobs' = js
        /\ UNCHANGED <<storeError, file, faults, tickets, handed, open>>
    BY <1>7 DEF Stored, frigate
  <2>10. \A f \in Events : Attended(jobs'[f], inferences')
    <3>. SUFFICES ASSUME NEW f \in Events PROVE Attended(js[f], inferences)
      BY <1>1, <2>9
    <3>1. Attended(jobs[f], inferences) /\ jobs[f] \in Job
      BY <1>1, IInvFacts DEF IInv
    <3>. QED BY <2>5, <3>1, QuietKeeps
  <2>11. Consistent(jobs', tickets') /\ Consistent(file', tickets')
    BY <2>6, <2>9 DEF IInv
  <2>12. /\ Covers(jobs', inferences', onGpu', open', enlarged')
         /\ Covers(file', inferences', onGpu', open', enlarged')
    BY <1>1, <2>8, <2>9 DEF IInv
  <2>13. SentOnce'
    BY <1>1 DEF IInv, SentOnce, Id
  <2>18. Filed'
    BY <1>1, <2>4, <2>9, <2>17 DEF IInv, Filed
  <2>14. Core'
    BY <1>1, <2>9, <2>10, <2>11, <2>12, <2>13, <2>18 DEF Core, IInv, Types
  <2>15. Types'
    BY <1>1, <1>2, <1>3, <1>7, <2>9 DEF IInv, Types
  <2>16. LaneTrue(jobs', lane', handed', open')
    BY <1>2, LaneElsewhere
  <2>. QED BY <1>1, <2>14, <2>15, <2>16, Assembled
<1>. QED BY <1>5, <1>6, <1>7 DEF Settle

LEMMA WithdrawKeeps ==
  ASSUME IInv, NEW e \in Events, Withdraw(e)
  PROVE  IInv'
<1>. DEFINE job == [jobs[e] EXCEPT !.state = "pending", !.attempt = None]
<1>1. /\ up /\ ~storeError /\ lane.at = "saved" /\ lane.event = e /\ lane' = Rest
      /\ Persist(Put(e, job))
      /\ UNCHANGED <<up, due, tickets, handed, open, cleaning, inferences, onGpu,
                     enlarged, crashes>>
  BY DEF Withdraw, At, LaneKeeps, frigate
<1>2. lane' \in Lanes /\ lane'.at = "idle" /\ lane'.event = None
  BY <1>1, RestFacts
<1>3. Fresh(jobs[e], handed) /\ e \notin open
  BY <1>1 DEF IInv, LaneTrue
<1>4. ~Outstanding(jobs[e].attempt)
  BY <1>3 DEF Fresh, Outstanding, Some
<1>5. Follows(job, jobs[e]) /\ Quiet(job, jobs[e])
  BY <1>4, IInvFacts, WithdrawnFollows
<1>6. Core' /\ (up' /\ ~storeError' => LaneTrue(jobs', lane', handed', open'))
  BY <1>1, <1>2, <1>3, <1>5, PutStep
<1>7. Types'
  BY <1>1, <1>2, <1>6 DEF IInv, Types, Core
<1>. QED BY <1>1, <1>6, <1>7, Assembled

LEMMA RegenerateKeeps ==
  ASSUME IInv, NEW e \in Events, Regenerate(e)
  PROVE  IInv' /\ e \notin open
<1>1. /\ up /\ ~storeError /\ lane.at = "saved" /\ lane.event = e
      /\ lane' = [lane EXCEPT !.at = "put"] /\ open' = open \cup {e}
      /\ handed' = handed \cup (IF jobs[e].attempt = None THEN {}
                                ELSE {jobs[e].attempt.ticket})
      /\ UNCHANGED <<up, storeError, jobs, file, due, faults, tickets, cleaning,
                     inferences, onGpu, enlarged, crashes>>
  BY DEF Regenerate, At, LaneKeeps, store
<1>2. lane' \in Lanes /\ lane'.at = "put" /\ lane'.event = e
  <2>1. lane \in Lanes
    BY IInvFacts
  <2>. QED BY <1>1, <2>1 DEF Lanes
<1>3. Fresh(jobs[e], handed) /\ e \notin open
  BY <1>1 DEF IInv, LaneTrue
<1>4. jobs[e].attempt # None => jobs[e].attempt.ticket \in 1..tickets
  BY IInvFacts, JobFields, AttemptFields, ConstantFacts DEF IInv, Consistent
<1>5. handed' \subseteq 1..tickets
  BY <1>1, <1>4 DEF IInv, Types
<1>6. Types'
  BY <1>1, <1>2, <1>5 DEF IInv, Types
<1>7. jobs[e].state = "waiting_result" /\ file[e].state = "waiting_result"
  BY <1>1, <1>3 DEF Fresh, IInv, Filed
<1>8. /\ Covers(jobs', inferences', onGpu', open', enlarged')
      /\ Covers(file', inferences', onGpu', open', enlarged')
  BY <1>1, <1>7 DEF IInv, Covers
<1>9. Consistent(jobs', tickets') /\ Consistent(file', tickets')
  BY <1>1 DEF IInv
<1>10. SentOnce'
  BY <1>1 DEF IInv, SentOnce, Id
<1>11. Filed'
  BY <1>1 DEF IInv, Filed
<1>12. \A f \in Events : Attended(jobs'[f], inferences')
  BY <1>1 DEF IInv
<1>13. Core'
  BY <1>1, <1>8, <1>9, <1>10, <1>11, <1>12 DEF Core, IInv, Types
<1>14. LaneTrue(jobs', lane', handed', open')
  BY <1>2, LaneElsewhere
<1>. QED BY <1>1, <1>3, <1>6, <1>13, <1>14, Assembled

LEMMA RegeneratedKeeps ==
  ASSUME IInv, NEW e \in Events, Regenerated(e)
  PROVE  IInv'
<1>1. /\ up /\ ~storeError /\ lane.at = "put" /\ lane.event = e /\ lane' = Rest
      /\ UNCHANGED <<up, cleaning, inferences, onGpu, enlarged, crashes>>
  BY DEF Regenerated, At, LaneKeeps
<1>2. lane' \in Lanes /\ lane'.at = "idle" /\ lane'.event = None
  BY <1>1, RestFacts
<1>3. cleaning' \in Events \cup {None} /\ (cleaning' # None => cleaning' # lane'.event)
  BY <1>1, <1>2 DEF IInv, Types
<1>4. ASSUME Close(e, Retry(jobs[e])) PROVE IInv'
  <2>1. Follows(Retry(jobs[e]), jobs[e]) /\ Quiet(Retry(jobs[e]), jobs[e])
    BY IInvFacts, RetryFollows
  <2>. QED BY <1>1, <1>2, <1>3, <1>4, <2>1, CloseStep
<1>5. ASSUME UNCHANGED <<store, frigate, faults>> PROVE IInv'
  <2>1. OnlyLane
    BY <1>1, <1>5 DEF OnlyLane, LaneKeeps
  <2>2. LaneTrue(jobs, lane', handed, open)
    BY <1>2, LaneElsewhere
  <2>3. cleaning # None => cleaning # lane'.event
    BY <1>1, <1>3
  <2>. QED BY <1>1, <1>2, <2>1, <2>2, <2>3, LaneOnlyStep
<1>. QED BY <1>4, <1>5 DEF Regenerated

------------------------------------------------------------------------------
(* Cleanup *)

LEMMA CleanKeeps ==
  ASSUME IInv, NEW e \in Events, Clean(e)
  PROVE  IInv'
<1>1. /\ up /\ ~storeError /\ e # lane.event /\ cleaning' = e
      /\ UNCHANGED <<up, storeError, jobs, file, due, faults, tickets, handed, open, lane,
                     inferences, onGpu, enlarged, crashes>>
  BY DEF Clean, CleanupKeeps, store, frigate
<1>2. Core'
  BY <1>1, IdleStep
<1>3. Types'
  BY <1>1 DEF IInv, Types
<1>4. LaneTrue(jobs', lane', handed', open')
  BY <1>1 DEF IInv
<1>. QED BY <1>1, <1>2, <1>3, <1>4, Assembled

LEMMA CleanedKeeps ==
  ASSUME IInv, Cleaned
  PROVE  IInv'
<1>1. /\ up /\ ~storeError /\ cleaning # None /\ cleaning' = None
      /\ UNCHANGED <<up, lane, inferences, onGpu, enlarged, crashes>>
  BY DEF Cleaned, CleanupKeeps
<1>2. cleaning \in Events /\ cleaning # lane.event
  BY <1>1 DEF IInv, Types
<1>3. ASSUME NEW how \in {"completed", "skipped"}, Close(cleaning, Finish(cleaning, how))
      PROVE  IInv'
  <2>1. /\ Follows(Finish(cleaning, how), jobs[cleaning])
        /\ Quiet(Finish(cleaning, how), jobs[cleaning])
    BY <1>2, IInvFacts, FinishFollows
  <2>2. lane' \in Lanes
    BY <1>1, IInvFacts
  <2>. QED BY <1>1, <1>2, <1>3, <2>1, <2>2, CloseStep
<1>4. ASSUME UNCHANGED <<store, frigate, faults>> PROVE IInv'
  <2>1. UNCHANGED <<storeError, jobs, file, due, faults, tickets, handed, open>>
    BY <1>4 DEF store, frigate
  <2>2. Core'
    BY <1>1, <2>1, IdleStep
  <2>3. Types'
    BY <1>1, <2>1 DEF IInv, Types
  <2>4. LaneTrue(jobs', lane', handed', open')
    BY <1>1, <2>1 DEF IInv
  <2>. QED BY <1>1, <2>2, <2>3, <2>4, Assembled
<1>. QED BY <1>3, <1>4 DEF Cleaned
------------------------------------------------------------------------------
(* A request moves on *)

(* The job with request n in state s, enlarged or not, its attempt in      *)
(* phase p and its rescue r.                                               *)
Marked(job, n, p, s, g, r) ==
  [state |-> job.state,
   attempt |->
     [ticket |-> job.attempt.ticket, phase |-> p,
      requests |-> [job.attempt.requests EXCEPT ![n] = [state |-> s, enlarged |-> g]],
      outcome |-> job.attempt.outcome, revoked |-> job.attempt.revoked],
   rescue |-> r]

RequestStates == {"queued", "running", "finished", "uncertain"}

Rescue == [state : {"none", "measured", "used"}, failed : 0..MaxTickets]

LEMMA MarkedFacts ==
  ASSUME NEW job \in Job, job.attempt # None, NEW n \in DOMAIN job.attempt.requests,
         NEW p \in Phases, NEW s \in RequestStates, NEW g \in BOOLEAN, NEW r \in Rescue
  PROVE  LET a == job.attempt
             b == Marked(job, n, p, s, g, r).attempt
         IN  /\ Marked(job, n, p, s, g, r) \in Job
             /\ Marked(job, n, p, s, g, r).state = job.state
             /\ Marked(job, n, p, s, g, r).rescue = r
             /\ b # None /\ b \in Attempt
             /\ b.ticket = a.ticket /\ b.phase = p
             /\ b.outcome = a.outcome /\ b.revoked = a.revoked
             /\ DOMAIN b.requests = DOMAIN a.requests
             /\ b.requests[n].state = s /\ b.requests[n].enlarged = g
             /\ \A m \in DOMAIN a.requests : m # n => b.requests[m] = a.requests[m]
<1>. DEFINE a == job.attempt
            q == [state |-> s, enlarged |-> g]
            rr == [a.requests EXCEPT ![n] = q]
            b == [ticket |-> a.ticket, phase |-> p, requests |-> rr,
                  outcome |-> a.outcome, revoked |-> a.revoked]
<1>1. Marked(job, n, p, s, g, r) = [state |-> job.state, attempt |-> b, rescue |-> r]
  BY DEF Marked
<1>2. a \in Attempt
  BY JobFields
<1>3. /\ a.ticket \in 1..MaxTickets /\ a.requests \in Requests
      /\ a.outcome \in {None, "success", "failed"} /\ a.revoked \in BOOLEAN
  BY <1>2, AttemptFields
<1>4. q \in RequestRecord
  BY DEF RequestRecord, RequestStates
<1>5. rr \in Requests
  BY <1>3, <1>4, RequestReplaced
<1>6. b \in Attempt
  BY <1>3, <1>5, AttemptOf
<1>7. /\ DOMAIN rr = DOMAIN a.requests /\ rr[n] = q
      /\ \A m \in DOMAIN a.requests : m # n => rr[m] = a.requests[m]
  BY <1>3, RequestsFields
<1>8. job.state \in Active \cup {"completed", "skipped"}
  BY JobFields
<1>9. [state |-> job.state, attempt |-> b, rescue |-> r] \in Job
  BY <1>6, <1>8, JobOf DEF Rescue
<1>10. b # None
  BY <1>6, ConstantFacts
<1>. QED BY <1>1, <1>6, <1>7, <1>9, <1>10

LEMMA JobIs ==
  ASSUME NEW job \in Job, job.attempt # None
  PROVE  LET a == job.attempt IN
         /\ job = [state |-> job.state, attempt |-> a, rescue |-> job.rescue]
         /\ a = [ticket |-> a.ticket, phase |-> a.phase, requests |-> a.requests,
                 outcome |-> a.outcome, revoked |-> a.revoked]
<1>1. job = [state |-> job.state, attempt |-> job.attempt, rescue |-> job.rescue]
  BY DEF Job
<1>2. job.attempt \in Attempt
  BY JobFields
<1>. QED BY <1>1, <1>2 DEF Attempt

LEMMA RequestsOnlyReplaced ==
  ASSUME NEW a \in Attempt, NEW rr
  PROVE  [a EXCEPT !.requests = rr]
           = [ticket |-> a.ticket, phase |-> a.phase, requests |-> rr,
              outcome |-> a.outcome, revoked |-> a.revoked]
BY DEF Attempt

LEMMA PhaseThenRequests ==
  ASSUME NEW a \in Attempt, NEW p, NEW rr
  PROVE  [a EXCEPT !.phase = p, !.requests = rr]
           = [ticket |-> a.ticket, phase |-> p, requests |-> rr,
              outcome |-> a.outcome, revoked |-> a.revoked]
<1>. DEFINE new == [ticket |-> a.ticket, phase |-> p, requests |-> rr,
                    outcome |-> a.outcome, revoked |-> a.revoked]
            only == [ticket : {a.ticket}, phase : {p}, requests : {rr},
                     outcome : {a.outcome}, revoked : {a.revoked}]
<1>1. \A x \in only : x = new
  OBVIOUS
<1>2. [a EXCEPT !.phase = p, !.requests = rr] \in only
  BY DEF Attempt
<1>. QED BY <1>1, <1>2

LEMMA RequestsThenPhase ==
  ASSUME NEW a \in Attempt, NEW p, NEW rr
  PROVE  [a EXCEPT !.requests = rr, !.phase = p]
           = [ticket |-> a.ticket, phase |-> p, requests |-> rr,
              outcome |-> a.outcome, revoked |-> a.revoked]
<1>. DEFINE new == [ticket |-> a.ticket, phase |-> p, requests |-> rr,
                    outcome |-> a.outcome, revoked |-> a.revoked]
            only == [ticket : {a.ticket}, phase : {p}, requests : {rr},
                     outcome : {a.outcome}, revoked : {a.revoked}]
<1>1. \A x \in only : x = new
  OBVIOUS
<1>2. [a EXCEPT !.requests = rr, !.phase = p] \in only
  BY DEF Attempt
<1>. QED BY <1>1, <1>2

LEMMA RequestStateIs ==
  ASSUME NEW a \in Attempt, NEW n \in DOMAIN a.requests, NEW s
  PROVE  [a.requests EXCEPT ![n].state = s]
           = [a.requests EXCEPT ![n] = [state |-> s, enlarged |-> a.requests[n].enlarged]]
<1>. DEFINE q == a.requests[n]
<1>1. q \in RequestRecord
  BY AttemptFields, RequestFields
<1>2. [q EXCEPT !.state = s] = [state |-> s, enlarged |-> q.enlarged]
  BY <1>1 DEF RequestRecord
<1>. QED BY <1>2

LEMMA MarkedIs ==
  ASSUME NEW job \in Job, job.attempt # None, NEW n \in DOMAIN job.attempt.requests,
         NEW p, NEW s
  PROVE  [job EXCEPT !.attempt.phase = p, !.attempt.requests[n].state = s]
           = Marked(job, n, p, s, job.attempt.requests[n].enlarged, job.rescue)
<1>. DEFINE a == job.attempt
            q == a.requests[n]
            rr == [a.requests EXCEPT ![n] = [state |-> s, enlarged |-> q.enlarged]]
            b == [ticket |-> a.ticket, phase |-> p, requests |-> rr,
                  outcome |-> a.outcome, revoked |-> a.revoked]
<1>1. a \in Attempt
  BY JobFields
<1>2. [a.requests EXCEPT ![n].state = s] = rr
  BY <1>1, RequestStateIs
<1>3. [a EXCEPT !.phase = p, !.requests[n].state = s] = b
  <2>1. [a EXCEPT !.phase = p, !.requests[n].state = s]
          = [a EXCEPT !.phase = p, !.requests = [a.requests EXCEPT ![n].state = s]]
    BY <1>1 DEF Attempt
  <2>. HIDE DEF a, rr
  <2>2. [a EXCEPT !.phase = p, !.requests = rr]
          = [ticket |-> a.ticket, phase |-> p, requests |-> rr,
             outcome |-> a.outcome, revoked |-> a.revoked]
    BY <1>1, PhaseThenRequests
  <2>. QED BY <1>2, <2>1, <2>2
<1>4. [job EXCEPT !.attempt.phase = p, !.attempt.requests[n].state = s]
        = [job EXCEPT !.attempt = [a EXCEPT !.phase = p, !.requests[n].state = s]]
  BY DEF Job
<1>5. \A c : [job EXCEPT !.attempt = c]
               = [state |-> job.state, attempt |-> c, rescue |-> job.rescue]
  BY DEF Job
<1>. QED BY <1>3, <1>4, <1>5 DEF Marked

LEMMA MarkedAtEnd ==
  ASSUME NEW job \in Job, job.attempt # None, NEW n \in DOMAIN job.attempt.requests,
         NEW p, NEW s
  PROVE  [job EXCEPT !.attempt.requests[n].state = s, !.attempt.phase = p]
           = Marked(job, n, p, s, job.attempt.requests[n].enlarged, job.rescue)
<1>. DEFINE a == job.attempt
            q == a.requests[n]
            rr == [a.requests EXCEPT ![n] = [state |-> s, enlarged |-> q.enlarged]]
            b == [ticket |-> a.ticket, phase |-> p, requests |-> rr,
                  outcome |-> a.outcome, revoked |-> a.revoked]
<1>1. a \in Attempt
  BY JobFields
<1>2. [a.requests EXCEPT ![n].state = s] = rr
  BY <1>1, RequestStateIs
<1>3. [a EXCEPT !.requests[n].state = s, !.phase = p] = b
  <2>1. [a EXCEPT !.requests[n].state = s, !.phase = p]
          = [a EXCEPT !.requests = [a.requests EXCEPT ![n].state = s], !.phase = p]
    BY <1>1 DEF Attempt
  <2>. HIDE DEF a, rr
  <2>2. [a EXCEPT !.requests = rr, !.phase = p]
          = [ticket |-> a.ticket, phase |-> p, requests |-> rr,
             outcome |-> a.outcome, revoked |-> a.revoked]
    BY <1>1, RequestsThenPhase
  <2>. QED BY <1>2, <2>1, <2>2
<1>4. [job EXCEPT !.attempt.requests[n].state = s, !.attempt.phase = p]
        = [job EXCEPT !.attempt = [a EXCEPT !.requests[n].state = s, !.phase = p]]
  BY DEF Job
<1>5. \A c : [job EXCEPT !.attempt = c]
               = [state |-> job.state, attempt |-> c, rescue |-> job.rescue]
  BY DEF Job
<1>. QED BY <1>3, <1>4, <1>5 DEF Marked

LEMMA ReservedIs ==
  ASSUME NEW job \in Job, job.attempt # None, NEW n \in DOMAIN job.attempt.requests
  PROVE  [job EXCEPT !.rescue.state = "used", !.attempt.requests[n].enlarged = TRUE]
           = Marked(job, n, job.attempt.phase, job.attempt.requests[n].state, TRUE,
                    [state |-> "used", failed |-> job.rescue.failed])
<1>. DEFINE a == job.attempt
            q == a.requests[n]
            rr == [a.requests EXCEPT ![n] = [state |-> q.state, enlarged |-> TRUE]]
            r == [state |-> "used", failed |-> job.rescue.failed]
<1>1. a \in Attempt /\ job.rescue \in Rescue
  BY JobFields DEF Rescue
<1>2. q \in RequestRecord
  BY <1>1, AttemptFields, RequestFields
<1>3. [q EXCEPT !.enlarged = TRUE] = [state |-> q.state, enlarged |-> TRUE]
  <2>1. \A v : [q EXCEPT !.enlarged = v] = [state |-> q.state, enlarged |-> v]
    BY <1>2 DEF RequestRecord
  <2>. QED BY <2>1
<1>4. [a.requests EXCEPT ![n].enlarged = TRUE] = rr
  BY <1>3
<1>5. [a EXCEPT !.requests[n].enlarged = TRUE]
        = [ticket |-> a.ticket, phase |-> a.phase, requests |-> rr,
           outcome |-> a.outcome, revoked |-> a.revoked]
  <2>1. [a EXCEPT !.requests[n].enlarged = TRUE]
          = [a EXCEPT !.requests = [a.requests EXCEPT ![n].enlarged = TRUE]]
    BY <1>1 DEF Attempt
  <2>. HIDE DEF a, rr
  <2>2. [a EXCEPT !.requests = rr]
          = [ticket |-> a.ticket, phase |-> a.phase, requests |-> rr,
             outcome |-> a.outcome, revoked |-> a.revoked]
    BY <1>1, RequestsOnlyReplaced
  <2>. QED BY <1>4, <2>1, <2>2
<1>6. [job.rescue EXCEPT !.state = "used"] = r
  BY <1>1 DEF Rescue
<1>7. [job EXCEPT !.rescue.state = "used", !.attempt.requests[n].enlarged = TRUE]
        = [job EXCEPT !.rescue = [job.rescue EXCEPT !.state = "used"],
                      !.attempt = [a EXCEPT !.requests[n].enlarged = TRUE]]
  BY DEF Job
<1>8. ASSUME NEW b, NEW c
      PROVE  [job EXCEPT !.rescue = c, !.attempt = b]
               = [state |-> job.state, attempt |-> b, rescue |-> c]
  <2>1. [job EXCEPT !.rescue = c, !.attempt = b]
          \in [state : {job.state}, attempt : {b}, rescue : {c}]
    BY DEF Job
  <2>2. \A x \in [state : {job.state}, attempt : {b}, rescue : {c}] :
          x = [state |-> job.state, attempt |-> b, rescue |-> c]
    OBVIOUS
  <2>. QED BY <2>1, <2>2
<1>. QED BY <1>5, <1>6, <1>7, <1>8 DEF Marked
LEMMA LiveJob ==
  ASSUME NEW job \in Job, Sound(job), Outstanding(job.attempt)
  PROVE  /\ job.attempt # None /\ job.attempt \in Attempt
         /\ job.state = "waiting_result" /\ HoldsSlot(job)
         /\ job.attempt.phase \in {"queued", "running", "uncertain"}
         /\ ~job.attempt.revoked
<1>1. job.attempt # None
  BY DEF Outstanding, Some
<1>2. job.attempt \in Attempt
  BY <1>1, JobFields
<1>3. job.attempt.phase \in Phases
  BY <1>2, AttemptFields
<1>. QED BY <1>1, <1>2, <1>3 DEF Sound, ValidAttempt, Phases, HoldsSlot

(* An inference that goes on keeps its job.                                *)
LEMMA MarkedFollows ==
  ASSUME NEW job \in Job, Sound(job), job.attempt # None,
         NEW n \in DOMAIN job.attempt.requests,
         job.attempt.requests[n].state # "finished",
         NEW p \in {"queued", "running", "uncertain"}, NEW s \in {"running", "uncertain"},
         p = "uncertain" => s = "uncertain",
         NEW g \in BOOLEAN, NEW r \in Rescue,
         g => r.state = "used", job.rescue.state = "used" => r.state = "used"
  PROVE  LET new == Marked(job, n, p, s, g, r)
         IN  /\ Follows(new, job) /\ Outstanding(new.attempt)
             /\ new.state = "waiting_result"
             /\ \A m \in DOMAIN new.attempt.requests :
                  m # n => new.attempt.requests[m].state = "finished"
<1>. DEFINE a == job.attempt
            new == Marked(job, n, p, s, g, r)
            b == new.attempt
<1>1. job.attempt \in Attempt
  BY JobFields
<1>2. Outstanding(a)
  BY <1>1, OutstandingMeans
<1>3. /\ job.state = "waiting_result" /\ HoldsSlot(job)
      /\ a.phase \in {"queued", "running", "uncertain"} /\ ~a.revoked
  BY <1>2, LiveJob
<1>4. p \in Phases /\ s \in RequestStates
  BY DEF Phases, RequestStates
<1>5. /\ new \in Job /\ new.state = job.state /\ new.rescue = r
      /\ b # None /\ b \in Attempt
      /\ b.ticket = a.ticket /\ b.phase = p
      /\ b.outcome = a.outcome /\ b.revoked = a.revoked
      /\ DOMAIN b.requests = DOMAIN a.requests
      /\ b.requests[n].state = s /\ b.requests[n].enlarged = g
      /\ \A m \in DOMAIN a.requests : m # n => b.requests[m] = a.requests[m]
  BY <1>4, MarkedFacts
<1>. HIDE DEF new
<1>6. \A m \in DOMAIN a.requests : m # n => a.requests[m].state = "finished"
  BY DEF Sound, OneOutstanding
<1>7. \A m \in DOMAIN b.requests : m # n => b.requests[m].state = "finished"
  BY <1>5, <1>6
<1>8. Outstanding(b)
  BY <1>5, OutstandingMeans
<1>9. OneOutstanding(b)
  BY <1>5, <1>7 DEF OneOutstanding
<1>10. Some(b, {"uncertain"}) <=> s = "uncertain"
  <2>1. b # None /\ n \in DOMAIN b.requests /\ b.requests[n].state = s
    BY <1>5
  <2>2. \A m \in DOMAIN b.requests : b.requests[m].state = "uncertain" => m = n
    BY <1>7
  <2>. QED BY <2>1, <2>2 DEF Some
<1>11. \A m \in DOMAIN b.requests : b.requests[m].enlarged => r.state = "used"
  BY <1>5 DEF Sound, ValidAttempt
<1>12. ValidAttempt(new)
  BY <1>3, <1>5, <1>8, <1>10, <1>11 DEF ValidAttempt
<1>13. Sound(new)
  BY <1>3, <1>5, <1>9, <1>12 DEF Sound, Active
<1>. QED BY <1>3, <1>5, <1>7, <1>8, <1>13 DEF Follows, new

(* An inference that has ended leaves its attempt with none that goes on;  *)
(* the attempt counts then as Frigate has reported it.                     *)
LEMMA EndedFollows ==
  ASSUME NEW job \in Job, Sound(job), job.attempt # None,
         NEW n \in DOMAIN job.attempt.requests,
         job.attempt.requests[n].state # "finished"
  PROVE  LET g == job.attempt.requests[n].enlarged
             new == Reconcile(Marked(job, n, "handed_off", "finished", g, job.rescue))
         IN  /\ Follows(new, job) /\ ~Outstanding(new.attempt)
             /\ new.rescue = job.rescue
<1>. DEFINE a == job.attempt
            g == a.requests[n].enlarged
            told == Marked(job, n, "handed_off", "finished", g, job.rescue)
            b == told.attempt
            new == Reconcile(told)
<1>. SUFFICES Follows(new, job) /\ ~Outstanding(new.attempt) /\ new.rescue = job.rescue
  OBVIOUS
<1>1. a \in Attempt
  BY JobFields
<1>2. Outstanding(a)
  BY <1>1, OutstandingMeans
<1>3. /\ job.state = "waiting_result" /\ HoldsSlot(job)
      /\ a.phase \in {"queued", "running", "uncertain"} /\ ~a.revoked
  BY <1>2, LiveJob
<1>4. "handed_off" \in Phases /\ "finished" \in RequestStates /\ job.rescue \in Rescue
  BY JobFields DEF Phases, RequestStates, Rescue
<1>5. g \in BOOLEAN
  BY <1>1, AttemptFields, RequestFields
<1>6. /\ told \in Job /\ told.state = job.state /\ told.rescue = job.rescue
      /\ b # None /\ b \in Attempt
      /\ b.ticket = a.ticket /\ b.phase = "handed_off"
      /\ b.outcome = a.outcome /\ b.revoked = a.revoked
      /\ DOMAIN b.requests = DOMAIN a.requests
      /\ b.requests[n].state = "finished" /\ b.requests[n].enlarged = g
      /\ \A m \in DOMAIN a.requests : m # n => b.requests[m] = a.requests[m]
  BY <1>4, <1>5, MarkedFacts
<1>. HIDE DEF told, g
<1>7. \A m \in DOMAIN a.requests : m # n => a.requests[m].state = "finished"
  BY DEF Sound, OneOutstanding
<1>8. \A m \in DOMAIN b.requests : b.requests[m].state = "finished"
  BY <1>6, <1>7
<1>9. ~Outstanding(b) /\ OneOutstanding(b)
  <2>1. ~Outstanding(b)
    BY <1>6, <1>8, OutstandingMeans
  <2>2. OneOutstanding(b)
    BY <1>8 DEF OneOutstanding
  <2>. QED BY <2>1, <2>2
<1>10. \A m \in DOMAIN b.requests : b.requests[m].enlarged => job.rescue.state = "used"
  BY <1>6 DEF Sound, ValidAttempt, g
<1>11. b.outcome \in {None, "success", "failed"}
  BY <1>6, AttemptFields
<1>12. CASE b.outcome = None
  <2>1. new = told
    BY <1>6, <1>12 DEF Reconcile
  <2>2. ValidAttempt(told)
    BY <1>3, <1>6, <1>9, <1>10, <1>12 DEF ValidAttempt
  <2>3. Sound(told)
    BY <1>3, <1>6, <1>9, <2>2 DEF Sound, Active
  <2>. QED BY <1>3, <1>6, <1>9, <2>1, <2>3 DEF Follows
<1>13. CASE b.outcome = "failed"
  <2>. DEFINE c == [b EXCEPT !.revoked = TRUE, !.phase = "retired", !.outcome = None]
              last == [told EXCEPT !.state = "retrying", !.attempt = c]
  <2>1. new = Retry(told)
    BY <1>3, <1>6, <1>9, <1>13, ConstantFacts DEF Reconcile
  <2>2. Retry(told) = last
    BY <1>6, <1>9 DEF Retry, Retired
  <2>3. c \in Attempt
    BY <1>6 DEF Attempt
  <2>4. /\ c.ticket = b.ticket /\ c.requests = b.requests
        /\ c.phase = "retired" /\ c.revoked = TRUE
    BY <1>6 DEF Attempt
  <2>5. last.state = "retrying" /\ last.attempt = c /\ last.rescue = job.rescue
    BY <1>6 DEF Job
  <2>6. last \in Job
    BY <1>6, <2>3 DEF Job, Active, Unfinished
  <2>7. c # None
    BY <2>3, ConstantFacts
  <2>. HIDE DEF c, last
  <2>8. ~Outstanding(last.attempt) /\ OneOutstanding(last.attempt)
    BY <1>6, <1>9, <2>4, <2>5, <2>7 DEF Outstanding, Some, OneOutstanding
  <2>9. ValidAttempt(last)
    BY <1>10, <2>4, <2>5, <2>8 DEF ValidAttempt
  <2>10. Sound(last) /\ ~HoldsSlot(last) /\ last.state # "waiting_result"
    BY <2>5, <2>8, <2>9 DEF Sound, HoldsSlot, Active, Unfinished
  <2>. QED BY <1>6, <2>1, <2>2, <2>4, <2>5, <2>6, <2>8, <2>10 DEF Follows
<1>14. CASE b.outcome = "success"
  <2>. DEFINE c == [b EXCEPT !.phase = "verifying_saved", !.revoked = TRUE]
              last == [told EXCEPT !.attempt = c]
  <2>1. new = last
    <3>1. new = [told EXCEPT !.attempt.phase = "verifying_saved", !.attempt.revoked = TRUE]
      BY <1>3, <1>6, <1>9, <1>14, ConstantFacts DEF Reconcile
    <3>. QED BY <3>1, <1>6 DEF Job
  <2>2. c \in Attempt
    BY <1>6 DEF Attempt
  <2>3. /\ c.ticket = b.ticket /\ c.requests = b.requests
        /\ c.phase = "verifying_saved" /\ c.revoked = TRUE /\ c.outcome = "success"
    BY <1>6, <1>14 DEF Attempt
  <2>4. last.state = "waiting_result" /\ last.attempt = c /\ last.rescue = job.rescue
    BY <1>3, <1>6 DEF Job
  <2>5. last \in Job
    BY <1>6, <2>2 DEF Job
  <2>6. c # None
    BY <2>2, ConstantFacts
  <2>. HIDE DEF c, last
  <2>7. ~Outstanding(last.attempt) /\ OneOutstanding(last.attempt)
    BY <1>6, <1>9, <2>3, <2>4, <2>6 DEF Outstanding, Some, OneOutstanding
  <2>8. ValidAttempt(last)
    BY <1>10, <2>3, <2>4, <2>7 DEF ValidAttempt
  <2>9. Sound(last) /\ ~HoldsSlot(last)
    BY <2>3, <2>4, <2>6, <2>7, <2>8 DEF Sound, HoldsSlot, Active
  <2>. QED BY <1>3, <1>6, <2>1, <2>3, <2>4, <2>5, <2>7, <2>9 DEF Follows
<1>. QED BY <1>11, <1>12, <1>13, <1>14

(* An overflow is measured.                                                *)
LEMMA MeasureFacts ==
  ASSUME NEW job \in Job, Sound(job), NEW i \in Inferences, NEW overflow \in BOOLEAN
  PROVE  LET new == Measure(job, i, overflow)
         IN  /\ new \in Job /\ Sound(new)
             /\ new.state = job.state /\ new.attempt = job.attempt
             /\ job.rescue.state = "used" => new.rescue.state = "used"
             /\ new.rescue.state # "used" => job.rescue.state # "used"
<1>. DEFINE r == Measured(i.ticket)
            new == [job EXCEPT !.rescue = r]
<1>1. CASE overflow /\ job.rescue.state # "used"
  <2>1. Measure(job, i, overflow) = new
    BY <1>1 DEF Measure
  <2>2. r \in Rescue /\ r.state # "used"
    BY ConstantFacts DEF Inferences, Measured, Rescue
  <2>. HIDE DEF r
  <2>3. new \in Job
    BY <2>2 DEF Job, Rescue
  <2>4. new.state = job.state /\ new.attempt = job.attempt /\ new.rescue = r
    BY DEF Job
  <2>5. job.attempt # None => \A m \in DOMAIN job.attempt.requests :
          ~job.attempt.requests[m].enlarged
    BY <1>1 DEF Sound, ValidAttempt
  <2>. HIDE DEF new
  <2>6. Sound(new)
    BY <2>4, <2>5 DEF Sound, ValidAttempt
  <2>. QED BY <1>1, <2>1, <2>2, <2>3, <2>4, <2>6
<1>2. CASE ~(overflow /\ job.rescue.state # "used")
  BY <1>2 DEF Measure
<1>. QED BY <1>1, <1>2

LEMMA FollowsTransfers ==
  ASSUME NEW new, NEW mid, NEW old, Follows(new, mid),
         mid.state = old.state, mid.attempt = old.attempt
  PROVE  Follows(new, old)
BY DEF Follows, HoldsSlot
------------------------------------------------------------------------------
(* Correlated inferences *)

(* While the proxy has an inference, its job holds the slot and nothing    *)
(* else is on the GPU, neither in memory nor in the file.                  *)
LEMMA SoleIn ==
  ASSUME NEW js, NEW drawn, Consistent(js, drawn), NEW i \in Inferences,
         Backs(js[i.event], i)
  PROVE  LET job == js[i.event] IN
         /\ i.event \in Events /\ job \in Job /\ Sound(job)
         /\ Outstanding(job.attempt) /\ job.attempt # None /\ job.attempt \in Attempt
         /\ job.state = "waiting_result" /\ HoldsSlot(job)
         /\ job.attempt.requests # <<>>
         /\ \A f \in Events : f # i.event => ~Outstanding(js[f].attempt)
         /\ \A id : (\E f \in Events : Admits(js[f], id)) =>
              /\ id[1] = i.ticket /\ id[2] = i.n /\ i.at # "queued"
<1>. DEFINE e == i.event
            job == js[e]
<1>1. e \in Events /\ job \in Job /\ Sound(job)
  BY DEF Inferences, Consistent
<1>2. Outstanding(job.attempt)
  BY <1>1, BackedIsOutstanding
<1>3. /\ job.attempt # None /\ job.attempt \in Attempt
      /\ job.state = "waiting_result" /\ HoldsSlot(job)
  BY <1>1, <1>2, LiveJob
<1>4. \A f \in Events : f # e => ~Outstanding(js[f].attempt)
  <2>. SUFFICES ASSUME NEW f \in Events, f # e, Outstanding(js[f].attempt) PROVE FALSE
    OBVIOUS
  <2>1. js[f] \in Job /\ Sound(js[f])
    BY DEF Consistent
  <2>2. HoldsSlot(js[f])
    BY <2>1, LiveJob
  <2>. QED BY <1>1, <1>3, <2>2 DEF Consistent
<1>5. job.attempt.requests # <<>>
  <2>1. i.n \in DOMAIN job.attempt.requests
    BY DEF Backs
  <2>. QED BY <2>1
<1>6. ASSUME NEW id, NEW f \in Events, Admits(js[f], id)
      PROVE  id[1] = i.ticket /\ id[2] = i.n /\ i.at # "queued"
  <2>1. js[f] \in Job
    BY DEF Consistent
  <2>2. f = e
    BY <1>4, <1>6, <2>1, AdmittedIsOutstanding
  <2>3. /\ id[1] = i.ticket
        /\ id[2] \in DOMAIN job.attempt.requests
        /\ job.attempt.requests[id[2]].state \in {"running", "uncertain"}
    BY <1>6, <2>2 DEF Admits, Backs
  <2>4. /\ i.n \in DOMAIN job.attempt.requests
        /\ job.attempt.requests[i.n].state = IF i.at = "queued" THEN "queued" ELSE "running"
    BY DEF Backs
  <2>5. OneOutstanding(job.attempt)
    BY <1>1, <1>3 DEF Sound
  <2>6. id[2] = i.n
    BY <2>3, <2>4, <2>5 DEF OneOutstanding
  <2>. QED BY <2>3, <2>4, <2>6
<1>. QED BY <1>1, <1>2, <1>3, <1>4, <1>5, <1>6

LEMMA Sole ==
  ASSUME IInv, NEW i \in inferences
  PROVE  LET job == jobs[i.event] IN
         /\ inferences = {i} /\ i \in Inferences /\ i.event \in Events
         /\ onGpu \subseteq {Id(i)} /\ (i.at # "sent" => onGpu = {})
         /\ Backs(job, i) /\ Backs(file[i.event], i)
         /\ job \in Job /\ Sound(job) /\ Outstanding(job.attempt)
         /\ job.attempt # None /\ job.attempt \in Attempt
         /\ job.state = "waiting_result" /\ HoldsSlot(job)
         /\ i.n \in DOMAIN job.attempt.requests
         /\ up
         /\ ~storeError /\ lane.at \in {"read", "saved"} => lane.event # i.event
<1>1. inferences = {i} /\ i \in Inferences
  BY DEF IInv, SentOnce, Types
<1>2. Backs(jobs[i.event], i) /\ Backs(file[i.event], i)
  BY DEF IInv, Covers
<1>3. Consistent(jobs, tickets)
  BY DEF IInv
<1>4. LET job == jobs[i.event] IN
      /\ i.event \in Events /\ job \in Job /\ Sound(job)
      /\ Outstanding(job.attempt) /\ job.attempt # None /\ job.attempt \in Attempt
      /\ job.state = "waiting_result" /\ HoldsSlot(job)
      /\ job.attempt.requests # <<>>
      /\ \A id : (\E f \in Events : Admits(jobs[f], id)) =>
           /\ id[1] = i.ticket /\ id[2] = i.n /\ i.at # "queued"
  BY <1>1, <1>2, <1>3, SoleIn
<1>5. onGpu \subseteq {Id(i)}
  <2>. SUFFICES ASSUME NEW id \in onGpu PROVE id = Id(i)
    OBVIOUS
  <2>1. id \in (1..MaxTickets) \X (1..MaxRequests)
    BY DEF IInv, Types
  <2>2. id[1] = i.ticket /\ id[2] = i.n
    BY <1>4 DEF IInv, Covers
  <2>. QED BY <2>1, <2>2 DEF Id
<1>6. i.at # "sent" => onGpu = {}
  BY <1>5 DEF IInv, SentOnce
<1>7. up
  BY DEF IInv
<1>8. ~storeError /\ lane.at \in {"read", "saved"} => lane.event # i.event
  BY <1>4, <1>7 DEF IInv, LaneTrue, Reading, Fresh, Unfinished
<1>9. i.n \in DOMAIN jobs[i.event].attempt.requests
  BY <1>2 DEF Backs
<1>. QED BY <1>1, <1>2, <1>4, <1>5, <1>6, <1>7, <1>8, <1>9

(* A step of the only inference i: it becomes j, or it is gone.            *)
LEMMA InferenceMoves ==
  ASSUME IInv, NEW i \in inferences, NEW job, NEW j \in Inferences,
         Persist(Put(i.event, job)), Follows(job, jobs[i.event]),
         j.event = i.event, j.ticket = i.ticket, j.n = i.n,
         inferences' \subseteq {j}, onGpu' \subseteq onGpu,
         open' \subseteq open, i.event \in open' => job.state = "waiting_result",
         inferences' # {} => Backs(job, j),
         onGpu' # {} => Admits(job, Id(i)),
         inferences' # {} /\ onGpu' # {} => j.at = "sent",
         inferences' # {} /\ j.at = "reserved" =>
           job.rescue.state = "used" /\ enlarged[i.event] = 0,
         job.rescue.state # "used" => jobs[i.event].rescue.state # "used",
         storeError' => inferences' = {},
         ~storeError' => Attended(job, inferences'),
         due' \subseteq Events,
         UNCHANGED <<up, lane, cleaning, tickets, handed, crashes, enlarged>>
  PROVE  IInv'
<1>. DEFINE e == i.event
            js == Put(e, job)
<1>1. /\ inferences = {i} /\ i \in Inferences /\ e \in Events
      /\ onGpu \subseteq {Id(i)} /\ jobs[e].state = "waiting_result" /\ up
      /\ (~storeError /\ lane.at \in {"read", "saved"} => lane.event # e)
  BY Sole
<1>2. js = [f \in Events |-> js[f]] /\ js[e] = job /\ \A f \in Events \ {e} : js[f] = jobs[f]
  BY <1>1, IInvFacts, PutIs
<1>3. Persist(js)
  OBVIOUS
<1>. HIDE DEF js
<1>4. \A f \in Events : Follows(js[f], jobs[f])
  BY <1>2, IInvFacts
<1>5. Consistent(js, tickets')
  BY <1>2, <1>4, IInvFacts, FollowsConsistent DEF IInv
<1>6. Consistent(file, tickets')
  BY DEF IInv
<1>7. Covers(js, inferences', onGpu', open', enlarged')
  <2>1. \A k \in inferences' : Backs(js[k.event], k)
    BY <1>2
  <2>2. \A id \in onGpu' : \E f \in Events : Admits(js[f], id)
    <3>. SUFFICES ASSUME NEW id \in onGpu' PROVE Admits(js[e], id)
      BY <1>1
    <3>. QED BY <1>1, <1>2
  <2>3. \A f \in open' : js[f].state = "waiting_result"
    BY <1>2, IInvFacts DEF IInv, Types
  <2>4. Rescues(js, inferences', enlarged')
    <3>. SUFFICES ASSUME NEW f \in Events, js[f].rescue.state # "used"
         PROVE  enlarged[f] = 0 /\ \A k \in inferences' : k.event = f => k.at # "reserved"
      BY DEF Rescues
    <3>1. jobs[f].rescue.state # "used"
      BY <1>2
    <3>2. enlarged[f] = 0
      BY <3>1 DEF IInv, Covers, Rescues
    <3>. QED BY <1>2, <3>2
  <2>. QED BY <2>1, <2>2, <2>3, <2>4 DEF Covers
<1>8. storeError' => Covers(file, inferences', onGpu', open', enlarged')
  <2>. SUFFICES ASSUME storeError' PROVE Covers(file, {}, onGpu', open', enlarged)
    OBVIOUS
  <2>1. {} \in SUBSET inferences
    OBVIOUS
  <2>2. Covers(file, inferences, onGpu, open, enlarged)
    BY DEF IInv
  <2>. QED BY <2>1, <2>2, FewerCovers
<1>9. /\ jobs' = js /\ Filed'
      /\ Consistent(jobs, tickets)' /\ Consistent(file, tickets)'
      /\ Covers(jobs, inferences, onGpu, open, enlarged)'
      /\ Covers(file, inferences, onGpu, open, enlarged)'
      /\ storeError' \in BOOLEAN /\ (storeError => storeError')
      /\ faults' \in 0..MaxFaults
  BY <1>3, <1>5, <1>6, <1>7, <1>8, PersistKeeps DEF IInv, Types
<1>10. SentOnce'
  <2>1. \A k, l \in inferences' : k = l
    OBVIOUS
  <2>2. \A k \in inferences' : Id(k) \in onGpu' => k.at = "sent"
    OBVIOUS
  <2>3. \A k \in inferences' : k.at = "reserved" => enlarged'[k.event] = 0
    OBVIOUS
  <2>. QED BY <2>1, <2>2, <2>3 DEF SentOnce, Id
<1>11. up' /\ ~storeError' => \A f \in Events : Attended(jobs'[f], inferences')
  <2>. SUFFICES ASSUME ~storeError', NEW f \in Events PROVE Attended(js[f], inferences')
    BY <1>9
  <2>1. CASE f = e
    BY <1>2, <2>1
  <2>2. CASE f # e
    <3>1. js[f] = jobs[f]
      BY <1>2, <2>2
    <3>2. ~Outstanding(jobs[f].attempt)
      <4>1. Backs(jobs[e], i) /\ Consistent(jobs, tickets)
        BY Sole DEF IInv
      <4>. QED BY <1>1, <2>2, <4>1, SoleIn
    <3>3. jobs[f].attempt # None => \A n \in DOMAIN jobs[f].attempt.requests :
            jobs[f].attempt.requests[n].state \notin {"queued", "running"}
      BY <3>2 DEF Outstanding, Some
    <3>. QED BY <3>1, <3>3 DEF Attended
  <2>. QED BY <2>1, <2>2
<1>12. Types'
  BY <1>1, <1>9 DEF IInv, Types
<1>13. up' /\ ~storeError' => LaneTrue(jobs', lane', handed', open')
  <2>. SUFFICES ASSUME ~storeError' PROVE LaneTrue(js, lane, handed, open')
    BY <1>9
  <2>1. LaneTrue(jobs, lane, handed, open) /\ ~storeError
    BY <1>1, <1>9 DEF IInv
  <2>. QED BY <1>1, <1>2, <1>4, <2>1, IInvFacts, LaneKept
<1>14. Core'
  BY <1>9, <1>10, <1>11 DEF Core
<1>15. up'
  BY <1>1
<1>16. IInv'
  BY <1>12, <1>13, <1>14, <1>15, Assembled
<1>. QED BY <1>16

LEMMA InferenceOf ==
  ASSUME NEW i \in Inferences, NEW place \in Places
  PROVE  LET j == [i EXCEPT !.at = place]
         IN  /\ j \in Inferences /\ j.at = place
             /\ j.event = i.event /\ j.ticket = i.ticket /\ j.n = i.n
BY DEF Inferences

LEMMA StartKeeps ==
  ASSUME IInv, NEW i \in inferences, Start(i)
  PROVE  IInv'
<1>. DEFINE job == jobs[i.event]
            g == job.attempt.requests[i.n].enlarged
            new == Marked(job, i.n, "running", "running", g, job.rescue)
            j == [i EXCEPT !.at = "preflight"]
<1>1. /\ Persist(Put(i.event, [job EXCEPT
           !.attempt.phase = "running", !.attempt.requests[i.n].state = "running"]))
      /\ i.at = "queued"
      /\ IF storeError' THEN inferences' = inferences \ {i} ELSE Becomes(i, "preflight")
      /\ UNCHANGED <<due, open, onGpu, enlarged, up, lane, cleaning, tickets, handed,
                     crashes>>
  BY DEF Start, InferenceKeeps
<1>2. /\ inferences = {i} /\ i \in Inferences /\ i.event \in Events
      /\ onGpu = {} /\ Backs(job, i)
      /\ job \in Job /\ Sound(job) /\ job.attempt # None /\ job.attempt \in Attempt
      /\ i.n \in DOMAIN job.attempt.requests
  BY <1>1, Sole
<1>3. Persist(Put(i.event, new))
  BY <1>1, <1>2, MarkedIs
<1>4. job.attempt.requests[i.n].state = "queued" /\ job.attempt.ticket = i.ticket
  BY <1>1, <1>2 DEF Backs
<1>5. g \in BOOLEAN /\ job.rescue \in Rescue /\ (g => job.rescue.state = "used")
  <2>1. g \in BOOLEAN
    BY <1>2, AttemptFields, RequestFields
  <2>2. job.rescue \in Rescue
    BY <1>2, JobFields DEF Rescue
  <2>3. g => job.rescue.state = "used"
    BY <1>2 DEF Sound, ValidAttempt
  <2>. QED BY <2>1, <2>2, <2>3
<1>6. /\ Follows(new, job) /\ Outstanding(new.attempt) /\ new.state = "waiting_result"
      /\ \A m \in DOMAIN new.attempt.requests :
           m # i.n => new.attempt.requests[m].state = "finished"
  <2>1. "running" \in {"queued", "running", "uncertain"} /\ "running" \in {"running", "uncertain"}
        /\ job.attempt.requests[i.n].state # "finished" /\ "running" # "uncertain"
    BY <1>4
  <2>. HIDE DEF job, g
  <2>. QED BY <1>2, <1>5, <2>1, MarkedFollows
<1>7. /\ new.rescue = job.rescue /\ new.attempt # None
      /\ new.attempt.ticket = i.ticket
      /\ DOMAIN new.attempt.requests = DOMAIN job.attempt.requests
      /\ new.attempt.requests[i.n].state = "running"
  <2>1. "running" \in Phases /\ "running" \in RequestStates
    BY DEF Phases, RequestStates
  <2>. HIDE DEF job, g
  <2>. QED BY <1>2, <1>4, <1>5, <2>1, MarkedFacts
<1>8. /\ j \in Inferences /\ j.at = "preflight"
      /\ j.event = i.event /\ j.ticket = i.ticket /\ j.n = i.n
  BY <1>2, InferenceOf DEF Places
<1>9. /\ inferences' \subseteq {j} /\ (storeError' => inferences' = {})
      /\ (~storeError' => inferences' = {j})
  BY <1>1, <1>2 DEF Becomes
<1>. HIDE DEF new, j, g
<1>10. Backs(new, j)
  BY <1>2, <1>7, <1>8 DEF Backs
<1>11. ~storeError' => Attended(new, inferences')
  BY <1>6, <1>7, <1>8, <1>9 DEF Attended
<1>12. open' \subseteq open /\ onGpu' \subseteq onGpu /\ onGpu' = {} /\ due' \subseteq Events
  BY <1>1, <1>2 DEF IInv, Types
<1>. QED
  BY <1>1, <1>3, <1>6, <1>7, <1>8, <1>9, <1>10, <1>11, <1>12, InferenceMoves

LEMMA ReserveKeeps ==
  ASSUME IInv, NEW i \in inferences, Reserve(i)
  PROVE  IInv'
<1>. DEFINE job == jobs[i.event]
            q == job.attempt.requests[i.n]
            r == [state |-> "used", failed |-> job.rescue.failed]
            g == TRUE
            new == Marked(job, i.n, job.attempt.phase, q.state, g, r)
            j == [i EXCEPT !.at = "reserved"]
<1>1. /\ Persist(Put(i.event, [job EXCEPT
           !.rescue.state = "used", !.attempt.requests[i.n].enlarged = TRUE]))
      /\ i.at = "preflight" /\ job.rescue.state = "measured"
      /\ IF storeError' THEN inferences' = inferences \ {i} ELSE Becomes(i, "reserved")
      /\ UNCHANGED <<due, open, onGpu, enlarged, up, lane, cleaning, tickets, handed,
                     crashes>>
  BY DEF Reserve, SaveRescue, InferenceKeeps
<1>2. /\ inferences = {i} /\ i \in Inferences /\ i.event \in Events
      /\ onGpu = {} /\ Backs(job, i)
      /\ job \in Job /\ Sound(job) /\ Outstanding(job.attempt)
      /\ job.attempt # None /\ job.attempt \in Attempt
      /\ i.n \in DOMAIN job.attempt.requests
  BY <1>1, Sole
<1>3. Persist(Put(i.event, new))
  BY <1>1, <1>2, ReservedIs
<1>4. q.state = "running" /\ job.attempt.ticket = i.ticket
  BY <1>1, <1>2 DEF Backs
<1>5. r \in Rescue /\ r.state = "used"
  <2>1. job.rescue \in Rescue
    BY <1>2, JobFields DEF Rescue
  <2>. QED BY <2>1 DEF Rescue
<1>6. job.attempt.phase \in {"queued", "running", "uncertain"}
  BY <1>2, LiveJob
<1>7. job.attempt.phase # "uncertain"
  BY <1>2, <1>4 DEF Sound, ValidAttempt, Some, OneOutstanding
<1>8. g \in BOOLEAN
  OBVIOUS
<1>. HIDE DEF r, g
<1>9. /\ Follows(new, job) /\ Outstanding(new.attempt) /\ new.state = "waiting_result"
      /\ \A m \in DOMAIN new.attempt.requests :
           m # i.n => new.attempt.requests[m].state = "finished"
  <2>1. q.state # "finished" /\ q.state \in {"running", "uncertain"}
    BY <1>4
  <2>2. q.state # "uncertain"
    BY <1>4
  <2>3. job.attempt.requests[i.n].state # "finished"
    BY <1>4
  <2>. HIDE DEF job, q
  <2>. QED BY <1>2, <1>5, <1>6, <1>7, <1>8, <2>1, <2>2, <2>3, MarkedFollows
<1>10. /\ new.rescue = r /\ new.attempt # None
       /\ new.attempt.ticket = i.ticket
       /\ DOMAIN new.attempt.requests = DOMAIN job.attempt.requests
       /\ new.attempt.requests[i.n].state = "running"
  <2>1. job.attempt.phase \in Phases /\ q.state \in RequestStates
    BY <1>4, <1>6 DEF Phases, RequestStates
  <2>. HIDE DEF job, q
  <2>. QED BY <1>2, <1>4, <1>5, <1>8, <2>1, MarkedFacts
<1>11. /\ j \in Inferences /\ j.at = "reserved"
       /\ j.event = i.event /\ j.ticket = i.ticket /\ j.n = i.n
  BY <1>2, InferenceOf DEF Places
<1>12. /\ inferences' \subseteq {j} /\ (storeError' => inferences' = {})
       /\ (~storeError' => inferences' = {j})
  BY <1>1, <1>2 DEF Becomes
<1>13. enlarged[i.event] = 0
  BY <1>1, <1>2 DEF IInv, Covers, Rescues
<1>. HIDE DEF new, j, q
<1>14. Backs(new, j)
  BY <1>2, <1>10, <1>11 DEF Backs
<1>15. ~storeError' => Attended(new, inferences')
  BY <1>9, <1>10, <1>11, <1>12 DEF Attended
<1>16. open' \subseteq open /\ onGpu' \subseteq onGpu /\ onGpu' = {} /\ due' \subseteq Events
  BY <1>1, <1>2 DEF IInv, Types
<1>. QED
  BY <1>1, <1>3, <1>5, <1>9, <1>10, <1>11, <1>12, <1>13, <1>14, <1>15, <1>16,
     InferenceMoves

(* An inference that is sent was running for its job.                      *)
LEMMA SendKeeps ==
  ASSUME IInv, NEW i \in inferences, Send(i), i.at \in {"preflight", "reserved"},
         \/ UNCHANGED enlarged
         \/ i.at = "reserved" /\ enlarged' = [enlarged EXCEPT ![i.event] = @ + 1]
  PROVE  IInv'
<1>. DEFINE j == [i EXCEPT !.at = "sent"]
            e == i.event
<1>1. /\ Becomes(i, "sent") /\ onGpu' = onGpu \cup {Id(i)}
      /\ UNCHANGED <<storeError, jobs, file, due, open, faults, up, lane, cleaning, tickets,
                     handed, crashes>>
  BY DEF Send, InferenceKeeps, store
<1>2. /\ inferences = {i} /\ i \in Inferences /\ e \in Events
      /\ onGpu = {} /\ Backs(jobs[e], i) /\ Backs(file[e], i) /\ up
  BY Sole
<1>3. /\ j \in Inferences /\ j.at = "sent"
      /\ j.event = e /\ j.ticket = i.ticket /\ j.n = i.n
  BY <1>2, InferenceOf DEF Places
<1>4. inferences' = {j} /\ onGpu' = {Id(i)}
  BY <1>1, <1>2 DEF Becomes
<1>. HIDE DEF j
<1>5. enlarged' \in [Events -> {0, 1}]
      /\ \A f \in Events : f # e => enlarged'[f] = enlarged[f]
  <2>1. enlarged \in [Events -> {0, 1}]
    BY DEF IInv, Types
  <2>2. i.at = "reserved" => enlarged[e] = 0
    BY DEF IInv, SentOnce
  <2>. QED BY <1>2, <2>1, <2>2
<1>6. ASSUME NEW js, Covers(js, inferences, onGpu, open, enlarged)
      PROVE  Covers(js, inferences', onGpu', open', enlarged')
  <2>1. Backs(js[e], i)
    BY <1>6 DEF Covers
  <2>2. Backs(js[e], j) /\ Admits(js[e], Id(i))
    BY <1>3, <2>1 DEF Backs, Admits, Id
  <2>3. Rescues(js, {j}, enlarged')
    <3>. SUFFICES ASSUME NEW f \in Events, js[f].rescue.state # "used"
         PROVE  enlarged'[f] = 0
      BY <1>3 DEF Rescues
    <3>1. enlarged[f] = 0 /\ (i.event = f => i.at # "reserved")
      BY <1>6 DEF Covers, Rescues
    <3>. QED BY <1>5, <3>1
  <2>4. \A f \in open : js[f].state = "waiting_result"
    BY <1>6 DEF Covers
  <2>. QED BY <1>1, <1>2, <1>3, <1>4, <2>2, <2>3, <2>4 DEF Covers
<1>7. /\ Covers(jobs', inferences', onGpu', open', enlarged')
      /\ Covers(file', inferences', onGpu', open', enlarged')
  BY <1>1, <1>6 DEF IInv
<1>8. Consistent(jobs', tickets') /\ Consistent(file', tickets')
  BY <1>1 DEF IInv
<1>9. SentOnce'
  BY <1>3, <1>4 DEF SentOnce
<1>10. Filed'
  BY <1>1 DEF IInv, Filed
<1>11. ASSUME NEW f \in Events, up, ~storeError PROVE Attended(jobs[f], inferences')
  <2>1. Attended(jobs[f], {i})
    BY <1>2, <1>11 DEF IInv
  <2>. QED BY <1>3, <1>4, <2>1 DEF Attended
<1>12. Core'
  BY <1>1, <1>7, <1>8, <1>9, <1>10, <1>11 DEF Core, IInv, Types
<1>13. onGpu' \subseteq (1..MaxTickets) \X (1..MaxRequests)
  BY <1>2, <1>4 DEF Id, Inferences
<1>14. Types'
  BY <1>1, <1>3, <1>4, <1>5, <1>13 DEF IInv, Types
<1>15. up' /\ (~storeError' => LaneTrue(jobs', lane', handed', open'))
  BY <1>1, <1>2 DEF IInv
<1>. QED BY <1>12, <1>14, <1>15, Assembled

LEMMA ForwardKeeps ==
  ASSUME IInv, NEW i \in inferences, Forward(i)
  PROVE  IInv'
BY SendKeeps DEF Forward

LEMMA SendEnlargedKeeps ==
  ASSUME IInv, NEW i \in inferences, SendEnlarged(i)
  PROVE  IInv'
BY SendKeeps DEF SendEnlarged

LEMMA EndKeeps ==
  ASSUME IInv, NEW i \in inferences, NEW certain \in BOOLEAN, NEW overflow \in BOOLEAN,
         End(i, certain, overflow), onGpu' \subseteq onGpu,
         certain => onGpu' = {}
  PROVE  IInv'
<1>. DEFINE e == i.event
            job == jobs[e]
            mid == Measure(job, i, overflow)
            g == mid.attempt.requests[i.n].enlarged
            s == IF certain THEN "finished" ELSE "uncertain"
            p == IF certain THEN "handed_off" ELSE "uncertain"
            ended == Marked(mid, i.n, p, s, g, mid.rescue)
            new == Reconcile(ended)
            js == Put(e, new)
<1>2. /\ inferences = {i} /\ i \in Inferences /\ e \in Events
      /\ onGpu \subseteq {Id(i)} /\ Backs(job, i)
      /\ job \in Job /\ Sound(job) /\ job.attempt # None /\ job.attempt \in Attempt
      /\ i.n \in DOMAIN job.attempt.requests
  BY Sole
<1>3. /\ mid \in Job /\ Sound(mid)
      /\ mid.state = job.state /\ mid.attempt = job.attempt
      /\ mid.rescue.state # "used" => job.rescue.state # "used"
  BY <1>2, MeasureFacts
<1>1. /\ Persist(js) /\ Resolve(js)
      /\ due' = (IF certain THEN due \ {e} ELSE due)
      /\ inferences' = inferences \ {i}
      /\ UNCHANGED <<enlarged, up, lane, cleaning, tickets, handed, crashes>>
  <2>1. [mid EXCEPT !.attempt.requests[i.n].state = s, !.attempt.phase = p] = ended
    <3>1. mid.attempt # None /\ i.n \in DOMAIN mid.attempt.requests
      BY <1>2, <1>3
    <3>. HIDE DEF mid, s, p
    <3>. QED BY <1>3, <3>1, MarkedAtEnd
  <2>. QED BY <2>1 DEF End, InferenceKeeps
<1>4. inferences' = {}
  BY <1>1, <1>2
<1>5. open' \subseteq open /\ (e \in open' => new.state = "waiting_result")
  BY <1>1, <1>2, ResolveFacts
<1>6. i.n \in DOMAIN mid.attempt.requests /\ mid.attempt # None
      /\ mid.attempt.requests[i.n].state # "finished" /\ mid.attempt.ticket = i.ticket
  BY <1>2, <1>3 DEF Backs
<1>7. /\ Follows(new, mid) /\ new.rescue.state = mid.rescue.state
      /\ \A n : new.attempt # None /\ n \in DOMAIN new.attempt.requests =>
           new.attempt.requests[n].state \notin {"queued", "running"}
      /\ ~certain => Admits(new, Id(i))
  <2>. HIDE DEF mid
  <2>1. CASE certain
    <3>1. s = "finished" /\ p = "handed_off"
      BY <2>1
    <3>2. Follows(new, mid) /\ ~Outstanding(new.attempt) /\ new.rescue = mid.rescue
      BY <1>3, <1>6, <3>1, EndedFollows
    <3>. HIDE DEF new
    <3>. QED BY <2>1, <3>2 DEF Outstanding, Some
  <2>2. CASE ~certain
    <3>1. s = "uncertain" /\ p = "uncertain"
      BY <2>2
    <3>2. g \in BOOLEAN /\ mid.rescue \in Rescue /\ (g => mid.rescue.state = "used")
      <4>1. mid.attempt \in Attempt
        BY <1>2, <1>3
      <4>2. g \in BOOLEAN
        BY <1>6, <4>1, AttemptFields, RequestFields
      <4>3. mid.rescue \in Rescue
        BY <1>3, JobFields DEF Rescue
      <4>4. g => mid.rescue.state = "used"
        BY <1>3, <1>6 DEF Sound, ValidAttempt
      <4>. QED BY <4>2, <4>3, <4>4
    <3>. DEFINE told == Marked(mid, i.n, "uncertain", "uncertain", g, mid.rescue)
    <3>3. /\ Follows(told, mid) /\ Outstanding(told.attempt)
          /\ \A m \in DOMAIN told.attempt.requests :
               m # i.n => told.attempt.requests[m].state = "finished"
      <4>1. "uncertain" \in {"queued", "running", "uncertain"}
            /\ "uncertain" \in {"running", "uncertain"}
        OBVIOUS
      <4>. HIDE DEF g
      <4>. QED BY <1>3, <1>6, <3>2, <4>1, MarkedFollows
    <3>4. /\ told.rescue = mid.rescue /\ told.attempt # None
          /\ told.attempt.ticket = i.ticket
          /\ DOMAIN told.attempt.requests = DOMAIN mid.attempt.requests
          /\ told.attempt.requests[i.n].state = "uncertain"
      <4>1. "uncertain" \in Phases /\ "uncertain" \in RequestStates
        BY DEF Phases, RequestStates
      <4>. HIDE DEF g
      <4>. QED BY <1>3, <1>6, <3>2, <4>1, MarkedFacts
    <3>5. ended = told
      BY <3>1
    <3>. HIDE DEF told, ended
    <3>6. new = told
      BY <3>3, <3>5 DEF Reconcile
    <3>. HIDE DEF new
    <3>7. Admits(new, Id(i))
      BY <1>6, <3>4, <3>6 DEF Admits, Id
    <3>8. \A n : new.attempt # None /\ n \in DOMAIN new.attempt.requests =>
            new.attempt.requests[n].state \notin {"queued", "running"}
      BY <3>3, <3>4, <3>6
    <3>. QED BY <2>2, <3>3, <3>4, <3>6, <3>7, <3>8
  <2>. QED BY <2>1, <2>2
<1>. HIDE DEF mid, new
<1>8. Follows(new, job)
  BY <1>3, <1>7, FollowsTransfers
<1>9. Attended(new, {})
  BY <1>7 DEF Attended
<1>10. due' \subseteq Events
  BY <1>1 DEF IInv, Types
<1>11. onGpu' # {} => Admits(new, Id(i))
  BY <1>7
<1>12. new.rescue.state # "used" => job.rescue.state # "used"
  BY <1>3, <1>7
<1>. QED
  BY <1>1, <1>2, <1>4, <1>5, <1>8, <1>9, <1>10, <1>11, <1>12, InferenceMoves

LEMMA DropKeeps ==
  ASSUME IInv, NEW i \in inferences, Drop(i)
  PROVE  IInv'
<1>1. i.at # "sent" /\ End(i, TRUE, FALSE) /\ UNCHANGED onGpu
  BY DEF Drop
<1>2. onGpu = {}
  BY <1>1, Sole
<1>3. TRUE \in BOOLEAN /\ FALSE \in BOOLEAN
  OBVIOUS
<1>. QED BY <1>1, <1>2, <1>3, EndKeeps

LEMMA AnswerKeeps ==
  ASSUME IInv, NEW i \in inferences, Answer(i)
  PROVE  IInv'
<1>1. PICK overflow \in BOOLEAN : End(i, TRUE, overflow)
  BY DEF Answer
<1>2. onGpu' = onGpu \ {Id(i)}
  BY DEF Answer
<1>3. onGpu \subseteq {Id(i)}
  BY Sole
<1>4. TRUE \in BOOLEAN
  OBVIOUS
<1>. QED BY <1>1, <1>2, <1>3, <1>4, EndKeeps

LEMMA BreakKeeps ==
  ASSUME IInv, NEW i \in inferences, Break(i)
  PROVE  IInv'
<1>1. End(i, FALSE, FALSE) /\ UNCHANGED onGpu
  BY DEF Break
<1>2. FALSE \in BOOLEAN
  OBVIOUS
<1>. QED BY <1>1, <1>2, EndKeeps
------------------------------------------------------------------------------
(* Frigate claims an inference and reports how its attempt ended *)

(* The job with one more request, which is queued.                         *)
Claimed(job) ==
  [state |-> job.state,
   attempt |->
     [ticket |-> job.attempt.ticket, phase |-> "queued",
      requests |-> Append(job.attempt.requests, [state |-> "queued", enlarged |-> FALSE]),
      outcome |-> job.attempt.outcome, revoked |-> job.attempt.revoked],
   rescue |-> job.rescue]

LEMMA ClaimedIs ==
  ASSUME NEW job \in Job, job.attempt # None
  PROVE  [job EXCEPT
            !.attempt.phase = "queued",
            !.attempt.requests = Append(@, [state |-> "queued", enlarged |-> FALSE])]
           = Claimed(job)
<1>. DEFINE a == job.attempt
            rr == Append(a.requests, [state |-> "queued", enlarged |-> FALSE])
            b == [ticket |-> a.ticket, phase |-> "queued", requests |-> rr,
                  outcome |-> a.outcome, revoked |-> a.revoked]
<1>1. a \in Attempt
  BY JobFields
<1>2. [a EXCEPT !.phase = "queued", !.requests = Append(@, [state |-> "queued", enlarged |-> FALSE])] = b
  <2>1. [a EXCEPT !.phase = "queued", !.requests = Append(@, [state |-> "queued", enlarged |-> FALSE])]
          = [a EXCEPT !.phase = "queued", !.requests = rr]
    BY <1>1 DEF Attempt
  <2>. HIDE DEF a, rr
  <2>2. [a EXCEPT !.phase = "queued", !.requests = rr]
          = [ticket |-> a.ticket, phase |-> "queued", requests |-> rr,
             outcome |-> a.outcome, revoked |-> a.revoked]
    BY <1>1, PhaseThenRequests
  <2>. QED BY <2>1, <2>2
<1>3. [job EXCEPT
         !.attempt.phase = "queued",
         !.attempt.requests = Append(@, [state |-> "queued", enlarged |-> FALSE])]
        = [job EXCEPT !.attempt =
             [a EXCEPT !.phase = "queued", !.requests = Append(@, [state |-> "queued", enlarged |-> FALSE])]]
  BY DEF Job
<1>4. \A c : [job EXCEPT !.attempt = c]
               = [state |-> job.state, attempt |-> c, rescue |-> job.rescue]
  BY DEF Job
<1>. QED BY <1>2, <1>3, <1>4 DEF Claimed

(* It has none that goes on before, so it waits for this one alone.        *)
LEMMA ClaimedFollows ==
  ASSUME NEW job \in Job, Sound(job), job.attempt # None, job.state = "waiting_result",
         ~job.attempt.revoked, ~Outstanding(job.attempt),
         Len(job.attempt.requests) < MaxRequests
  PROVE  LET new == Claimed(job)
             k == Len(job.attempt.requests) + 1
         IN  /\ Follows(new, job) /\ new.state = "waiting_result"
             /\ new.rescue = job.rescue /\ new.attempt # None
             /\ new.attempt.ticket = job.attempt.ticket
             /\ k \in 1..MaxRequests /\ k \in DOMAIN new.attempt.requests
             /\ new.attempt.requests[k].state = "queued"
             /\ \A m \in DOMAIN new.attempt.requests :
                  m # k => new.attempt.requests[m].state = "finished"
<1>. DEFINE a == job.attempt
            k == Len(a.requests) + 1
            q == [state |-> "queued", enlarged |-> FALSE]
            rr == Append(a.requests, q)
            b == [ticket |-> a.ticket, phase |-> "queued", requests |-> rr,
                  outcome |-> a.outcome, revoked |-> a.revoked]
            new == [state |-> job.state, attempt |-> b, rescue |-> job.rescue]
<1>. SUFFICES /\ Follows(new, job) /\ new.state = "waiting_result"
              /\ new.rescue = job.rescue /\ new.attempt # None
              /\ new.attempt.ticket = a.ticket
              /\ k \in 1..MaxRequests /\ k \in DOMAIN new.attempt.requests
              /\ new.attempt.requests[k].state = "queued"
              /\ \A m \in DOMAIN new.attempt.requests :
                   m # k => new.attempt.requests[m].state = "finished"
  BY DEF Claimed
<1>1. a \in Attempt
  BY JobFields
<1>2. /\ a.ticket \in 1..MaxTickets /\ a.requests \in Requests
      /\ a.outcome \in {None, "success", "failed"} /\ a.revoked \in BOOLEAN
  BY <1>1, AttemptFields
<1>3. q \in RequestRecord /\ q.state = "queued" /\ q.enlarged = FALSE
  BY DEF RequestRecord
<1>. HIDE DEF q
<1>4. /\ rr \in Requests /\ k \in 1..MaxRequests /\ k \notin DOMAIN a.requests
      /\ DOMAIN rr = DOMAIN a.requests \cup {k} /\ rr[k] = q
      /\ \A n \in DOMAIN a.requests : rr[n] = a.requests[n]
  BY <1>2, <1>3, RequestAppended
<1>. HIDE DEF rr, k
<1>5. "queued" \in Phases
  BY DEF Phases
<1>6. b \in Attempt /\ b # None
  BY <1>2, <1>4, <1>5, AttemptOf, ConstantFacts
<1>7. /\ b.ticket = a.ticket /\ b.phase = "queued" /\ b.requests = rr
      /\ b.outcome = a.outcome /\ b.revoked = a.revoked
  OBVIOUS
<1>8. job.state \in Active \cup {"completed", "skipped"}
      /\ job.rescue \in [state : {"none", "measured", "used"}, failed : 0..MaxTickets]
  BY JobFields
<1>. HIDE DEF b
<1>9. new \in Job
  BY <1>6, <1>8, JobOf
<1>10. new.state = "waiting_result" /\ new.attempt = b /\ new.rescue = job.rescue
  OBVIOUS
<1>. HIDE DEF new
<1>11. \A m \in DOMAIN a.requests : a.requests[m].state = "finished"
  BY <1>1, OutstandingMeans
<1>12. \A m \in DOMAIN rr : m # k => rr[m].state = "finished"
  BY <1>4, <1>11
<1>13. OneOutstanding(b)
  BY <1>7, <1>12 DEF OneOutstanding
<1>14. Outstanding(b)
  BY <1>3, <1>4, <1>6, <1>7, OutstandingMeans
<1>15. \A m \in DOMAIN b.requests : b.requests[m].enlarged => job.rescue.state = "used"
  BY <1>3, <1>4, <1>7 DEF Sound, ValidAttempt
<1>16. ValidAttempt(new)
  BY <1>7, <1>10, <1>14, <1>15 DEF ValidAttempt
<1>17. Sound(new)
  BY <1>10, <1>13, <1>16 DEF Sound, Active
<1>18. HoldsSlot(job)
  BY <1>1 DEF HoldsSlot, Sound, ValidAttempt
<1>. QED BY <1>3, <1>4, <1>6, <1>7, <1>9, <1>10, <1>12, <1>17, <1>18 DEF Follows

LEMMA AcceptsFacts ==
  ASSUME IInv, NEW e \in Events, Accepts(e)
  PROVE  /\ up /\ ~storeError /\ jobs[e].state = "waiting_result" /\ jobs[e].attempt # None
         /\ jobs[e].attempt \in Attempt /\ jobs[e] \in Job /\ Sound(jobs[e])
         /\ ~jobs[e].attempt.revoked /\ jobs[e].attempt.outcome = None
         /\ HoldsSlot(jobs[e])
         /\ lane.at \in {"read", "saved"} => lane.event # e
<1>1. /\ up /\ ~storeError /\ jobs[e].state = "waiting_result" /\ jobs[e].attempt # None
      /\ jobs[e].attempt.ticket \in handed
      /\ ~jobs[e].attempt.revoked /\ jobs[e].attempt.outcome = None
  BY DEF Accepts
<1>2. jobs[e] \in Job /\ Sound(jobs[e])
  BY IInvFacts
<1>3. jobs[e].attempt \in Attempt
  BY <1>1, <1>2, JobFields
<1>4. HoldsSlot(jobs[e])
  BY <1>1, <1>2, <1>3 DEF HoldsSlot, Sound, ValidAttempt
<1>5. lane.at \in {"read", "saved"} => lane.event # e
  BY <1>1 DEF IInv, LaneTrue, Reading, Fresh, Unfinished
<1>. QED BY <1>1, <1>2, <1>3, <1>4, <1>5

LEMMA ClaimKeeps ==
  ASSUME IInv, NEW e \in Events, Claim(e)
  PROVE  IInv'
<1>. DEFINE job == jobs[e]
            a == job.attempt
            new == Claimed(job)
            k == Len(a.requests) + 1
            j == [event |-> e, ticket |-> a.ticket, n |-> k, at |-> "queued"]
            js == Put(e, new)
<1>1. /\ up /\ ~storeError /\ job.state = "waiting_result" /\ a # None /\ a \in Attempt
      /\ job \in Job /\ Sound(job) /\ ~a.revoked /\ HoldsSlot(job)
      /\ (lane.at \in {"read", "saved"} => lane.event # e)
  BY AcceptsFacts DEF Claim
<1>2. /\ ~Outstanding(a) /\ Len(a.requests) < MaxRequests
      /\ Persist(Put(e, [job EXCEPT
           !.attempt.phase = "queued",
           !.attempt.requests = Append(@, [state |-> "queued", enlarged |-> FALSE])]))
      /\ inferences' = (IF storeError' THEN inferences ELSE inferences \cup {j})
      /\ UNCHANGED <<due, open, onGpu, enlarged, up, lane, cleaning, tickets, handed,
                     crashes>>
  BY DEF Claim, InferenceKeeps
<1>3. Persist(js)
  BY <1>1, <1>2, ClaimedIs
<1>4. /\ Follows(new, job) /\ new.state = "waiting_result"
      /\ new.rescue = job.rescue /\ new.attempt # None
      /\ new.attempt.ticket = a.ticket
      /\ k \in 1..MaxRequests /\ k \in DOMAIN new.attempt.requests
      /\ new.attempt.requests[k].state = "queued"
      /\ \A m \in DOMAIN new.attempt.requests :
           m # k => new.attempt.requests[m].state = "finished"
  BY <1>1, <1>2, ClaimedFollows
<1>5. js = [f \in Events |-> js[f]] /\ js[e] = new /\ \A f \in Events \ {e} : js[f] = jobs[f]
  BY IInvFacts, PutIs
<1>6. j \in Inferences /\ j.event = e /\ j.ticket = a.ticket /\ j.n = k /\ j.at = "queued"
  BY <1>1, <1>4, AttemptFields DEF Inferences, Places
<1>7. inferences = {}
  <2>. SUFFICES ASSUME NEW i \in inferences PROVE FALSE
    OBVIOUS
  <2>1. /\ i.event \in Events /\ HoldsSlot(jobs[i.event])
        /\ Outstanding(jobs[i.event].attempt)
    BY Sole
  <2>2. i.event = e
    BY <1>1, <2>1 DEF IInv, Consistent
  <2>. QED BY <1>2, <2>1, <2>2
<1>8. inferences' \subseteq {j} /\ (storeError' => inferences' = {})
      /\ (~storeError' => inferences' = {j})
  BY <1>2, <1>7
<1>9. k \notin DOMAIN a.requests
  <2>1. a.requests \in Requests /\ [state |-> "queued", enlarged |-> FALSE] \in RequestRecord
    BY <1>1, AttemptFields DEF RequestRecord
  <2>. QED BY <1>2, <2>1, RequestAppended
<1>. HIDE DEF js, new, j, k
<1>10. \A f \in Events : Follows(js[f], jobs[f])
  BY <1>4, <1>5, IInvFacts
<1>11. Consistent(js, tickets')
  BY <1>2, <1>5, <1>10, IInvFacts, FollowsConsistent DEF IInv
<1>12. Consistent(file, tickets')
  BY <1>2 DEF IInv
<1>13. Covers(js, inferences', onGpu', open', enlarged')
  <2>1. \A i \in inferences' : Backs(js[i.event], i)
    <3>1. Backs(new, j)
      BY <1>4, <1>6 DEF Backs
    <3>. QED BY <1>5, <1>6, <1>8, <3>1
  <2>2. \A id \in onGpu : \E f \in Events : Admits(js[f], id)
    <3>. SUFFICES ASSUME NEW id \in onGpu PROVE \E f \in Events : Admits(js[f], id)
      OBVIOUS
    <3>1. PICK f \in Events : Admits(jobs[f], id)
      BY DEF IInv, Covers
    <3>2. f # e
      BY <1>1, <1>2, <3>1, AdmittedIsOutstanding
    <3>. QED BY <1>5, <3>1, <3>2
  <2>3. \A f \in open : js[f].state = "waiting_result"
    BY <1>4, <1>5, IInvFacts DEF IInv, Types
  <2>4. Rescues(js, inferences', enlarged)
    BY <1>4, <1>5, <1>6, <1>8 DEF IInv, Covers, Rescues
  <2>. QED BY <1>2, <2>1, <2>2, <2>3, <2>4 DEF Covers
<1>14. storeError' => Covers(file, inferences', onGpu', open', enlarged')
  BY <1>2, <1>7, <1>8 DEF IInv
<1>15. /\ jobs' = js /\ Filed'
       /\ Consistent(jobs, tickets)' /\ Consistent(file, tickets)'
       /\ Covers(jobs, inferences, onGpu, open, enlarged)'
       /\ Covers(file, inferences, onGpu, open, enlarged)'
       /\ storeError' \in BOOLEAN /\ faults' \in 0..MaxFaults
  BY <1>3, <1>11, <1>12, <1>13, <1>14, PersistKeeps DEF IInv, Types, js
<1>16. SentOnce'
  <2>1. Id(j) \notin onGpu
    <3>. SUFFICES ASSUME Id(j) \in onGpu PROVE FALSE
      OBVIOUS
    <3>1. PICK f \in Events : Admits(jobs[f], Id(j))
      BY DEF IInv, Covers
    <3>2. /\ jobs[f].attempt # None /\ jobs[f].attempt.ticket = a.ticket
          /\ k \in DOMAIN jobs[f].attempt.requests
      BY <1>6, <3>1 DEF Admits, Id
    <3>3. f = e
      BY <1>1, <3>2 DEF IInv, Consistent
    <3>. QED BY <1>9, <3>2, <3>3
  <2>. QED BY <1>2, <1>6, <1>8, <2>1 DEF SentOnce, Id
<1>17. ~storeError' => \A f \in Events : Attended(jobs'[f], inferences')
  <2>. SUFFICES ASSUME ~storeError', NEW f \in Events PROVE Attended(js[f], {j})
    BY <1>8, <1>15
  <2>1. CASE f = e
    BY <1>4, <1>5, <1>6, <2>1 DEF Attended
  <2>2. CASE f # e
    <3>1. Attended(jobs[f], {})
      BY <1>1, <1>7 DEF IInv
    <3>. QED BY <1>5, <2>2, <3>1 DEF Attended
  <2>. QED BY <2>1, <2>2
<1>18. Types'
  BY <1>2, <1>6, <1>8, <1>15 DEF IInv, Types
<1>19. LaneTrue(jobs', lane', handed', open')
  <2>1. LaneTrue(jobs, lane, handed, open)
    BY <1>1 DEF IInv
  <2>2. LaneTrue(js, lane', handed, open)
    BY <1>1, <1>2, <1>5, <1>10, <2>1, IInvFacts, LaneKept
  <2>. QED BY <1>2, <1>15, <2>2
<1>20. Core'
  BY <1>15, <1>16, <1>17 DEF Core
<1>. QED BY <1>1, <1>2, <1>18, <1>19, <1>20, Assembled

LEMMA ReportKeeps ==
  ASSUME IInv, NEW e \in Events, Report(e)
  PROVE  IInv'
<1>1. PICK outcome \in {"success", "failed"} :
        LET js == Put(e, Reconcile([jobs[e] EXCEPT !.attempt.outcome = outcome])) IN
        Persist(js) /\ Resolve(js)
  BY DEF Report
<1>. DEFINE job == Reconcile([jobs[e] EXCEPT !.attempt.outcome = outcome])
<1>2. /\ Accepts(e) /\ due' = due \ {e}
      /\ UNCHANGED <<inferences, onGpu, enlarged, up, lane, cleaning, tickets, handed,
                     crashes>>
  BY DEF Report, InferenceKeeps, proxy
<1>3. Persist(Put(e, job)) /\ Resolve(Put(e, job))
  BY <1>1
<1>4. /\ up /\ jobs[e].state = "waiting_result" /\ jobs[e].attempt # None
      /\ jobs[e] \in Job /\ Sound(jobs[e])
      /\ ~jobs[e].attempt.revoked /\ jobs[e].attempt.outcome = None
      /\ (lane.at \in {"read", "saved"} => lane.event # e)
  BY <1>2, AcceptsFacts
<1>5. Follows(job, jobs[e]) /\ Quiet(job, jobs[e])
  BY <1>4, ReportFollows
<1>. HIDE DEF job
<1>6. open' \subseteq open /\ (e \in open' => job.state = "waiting_result")
  BY <1>3, ResolveFacts
<1>7. Core' /\ (up' /\ ~storeError' => LaneTrue(jobs', lane', handed', open'))
  BY <1>2, <1>3, <1>4, <1>5, <1>6, PutStep
<1>8. storeError' \in BOOLEAN /\ faults' \in 0..MaxFaults
  BY <1>7 DEF Core
<1>9. Types'
  BY <1>2, <1>6, <1>8 DEF IInv, Types
<1>. QED BY <1>2, <1>4, <1>7, <1>9, Assembled
------------------------------------------------------------------------------
(* A handoff is written down *)

LEMMA NewAttemptFacts ==
  ASSUME NEW t \in 1..MaxTickets
  PROVE  LET a == NewAttempt(t) IN
         /\ a \in Attempt /\ a # None /\ a.ticket = t /\ a.requests = <<>>
         /\ a.phase = "handed_off" /\ a.outcome = None /\ a.revoked = FALSE
<1>. DEFINE a == NewAttempt(t)
<1>1. <<>> \in Requests
  <2>1. 0 \in 0..MaxRequests /\ <<>> \in [1..0 -> RequestRecord]
    BY ConstantFacts
  <2>. QED BY <2>1, RequestsOf
<1>2. "handed_off" \in Phases /\ FALSE \in BOOLEAN /\ None \in {None, "success", "failed"}
  BY DEF Phases
<1>3. a \in Attempt
  BY <1>1, <1>2, AttemptOf DEF NewAttempt
<1>. QED BY <1>3, ConstantFacts DEF NewAttempt

(* The job that is handed over, with a new attempt or without.             *)
LEMMA HandedFacts ==
  ASSUME NEW job \in Job, NEW a, a = None \/ \E t \in 1..MaxTickets : a = NewAttempt(t)
  PROVE  LET new == [job EXCEPT !.state = "waiting_result", !.attempt = a]
         IN  /\ new \in Job /\ Sound(new)
             /\ new.state = "waiting_result" /\ new.attempt = a
             /\ new.rescue = job.rescue
<1>. DEFINE new == [job EXCEPT !.state = "waiting_result", !.attempt = a]
<1>1. a # None => /\ a \in Attempt /\ a.requests = <<>> /\ a.phase = "handed_off"
                  /\ a.outcome = None /\ a.revoked = FALSE
  BY NewAttemptFacts
<1>2. new.state = "waiting_result" /\ new.attempt = a /\ new.rescue = job.rescue
  BY DEF Job
<1>3. new \in Job
  BY <1>1 DEF Job, Active
<1>. HIDE DEF new
<1>4. a # None => ~Outstanding(a) /\ OneOutstanding(a)
  BY <1>1 DEF Outstanding, Some, OneOutstanding
<1>5. a # None => ValidAttempt(new)
  BY <1>1, <1>2, <1>4 DEF ValidAttempt
<1>6. Sound(new)
  BY <1>2, <1>4, <1>5 DEF Sound, Active
<1>. QED BY <1>2, <1>3, <1>6 DEF new

(* One more job takes the free slot and waits.                             *)
LEMMA HandedConsistent ==
  ASSUME NEW drawn \in Nat, NEW js, Consistent(js, drawn), NEW e \in Events,
         Reading(js, e), NEW later \in Nat, drawn <= later,
         NEW new, new = [f \in Events |-> new[f]],
         \A f \in Events \ {e} : new[f] = js[f],
         new[e] \in Job, Sound(new[e]),
         new[e].attempt # None => new[e].attempt.ticket = later /\ later = drawn + 1
  PROVE  Consistent(new, later)
<1>1. Consistent(js, later)
  BY DrawnMore
<1>2. new \in [Events -> Job] /\ \A f \in Events : Sound(new[f])
  BY DEF Consistent
<1>3. \A f \in Events : js[f].attempt # None =>
        js[f].attempt.ticket \in Nat /\ js[f].attempt.ticket <= drawn
  BY JobFields, AttemptFields, ConstantFacts DEF Consistent
<1>4. \A f \in Events : new[f].attempt # None => new[f].attempt.ticket <= later
  BY <1>1 DEF Consistent
<1>5. \A f, g \in Events :
        /\ new[f].attempt # None /\ new[g].attempt # None
        /\ new[f].attempt.ticket = new[g].attempt.ticket
        => f = g
  <2>1. \A f \in Events \ {e} : new[f].attempt # None /\ new[e].attempt # None =>
          new[f].attempt.ticket # new[e].attempt.ticket
    BY <1>3
  <2>2. \A f, g \in Events \ {e} :
          /\ new[f].attempt # None /\ new[g].attempt # None
          /\ new[f].attempt.ticket = new[g].attempt.ticket
          => f = g
    BY DEF Consistent
  <2>. QED BY <2>1, <2>2
<1>6. \A f, g \in Events : HoldsSlot(new[f]) /\ HoldsSlot(new[g]) => f = g
  <2>1. \A f \in Events \ {e} : ~HoldsSlot(new[f])
    BY DEF Reading
  <2>. QED BY <2>1
<1>7. Cardinality(Waiting(new)) <= MaxVerifying
  <2>1. IsFiniteSet(Waiting(js)) /\ IsFiniteSet(Waiting(new))
    <3>1. Waiting(js) \subseteq Events /\ Waiting(new) \subseteq Events
      BY DEF Waiting
    <3>. QED BY <3>1, ConstantFacts, FS_Subset
  <2>2. Waiting(new) \subseteq Waiting(js) \cup {e} /\ e \notin Waiting(js)
    BY DEF Waiting, Reading, Unfinished
  <2>3. /\ IsFiniteSet(Waiting(js) \cup {e})
        /\ Cardinality(Waiting(js) \cup {e}) = Cardinality(Waiting(js)) + 1
    BY <2>1, <2>2, FS_AddElement
  <2>4. Cardinality(Waiting(new)) <= Cardinality(Waiting(js)) + 1
    BY <2>2, <2>3, FS_Subset
  <2>5. Cardinality(Waiting(js)) \in Nat /\ Cardinality(Waiting(new)) \in Nat
        /\ Cardinality(Waiting(js)) < MaxVerifying
    BY <2>1, FS_CardinalityType DEF Reading
  <2>. QED BY <2>4, <2>5, ConstantFacts
<1>. QED BY <1>2, <1>4, <1>5, <1>6, <1>7 DEF Consistent

LEMMA HandoffKeeps ==
  ASSUME IInv, NEW e \in Events, Handoff(e)
  PROVE  IInv'
<1>. DEFINE job == jobs[e]
            a == IF tickets' # tickets THEN NewAttempt(tickets') ELSE None
            new == [job EXCEPT !.state = "waiting_result", !.attempt = a]
            js == Put(e, new)
<1>1. /\ up /\ ~storeError /\ lane.at = "read" /\ lane.event = e
      /\ Persist(js) /\ due' = due \ {e}
      /\ lane' = (IF storeError' THEN Rest ELSE [lane EXCEPT !.at = "saved"])
      /\ UNCHANGED <<handed, open, up, cleaning, inferences, onGpu, enlarged, crashes>>
  BY DEF Handoff, At, SaveHandoff, LaneKeeps
<1>2. /\ tickets' \in 0..MaxTickets /\ tickets \in 0..MaxTickets
      /\ tickets <= tickets'
      /\ (tickets' # tickets => tickets' = tickets + 1 /\ tickets' \in 1..MaxTickets)
  <2>1. tickets \in 0..MaxTickets
    BY DEF IInv, Types
  <2>2. CASE tickets < MaxTickets /\ tickets' = tickets + 1
    BY <2>1, <2>2, ConstantFacts
  <2>3. CASE tickets' = tickets
    BY <2>1, <2>3
  <2>. QED BY <2>2, <2>3 DEF Handoff
<1>3. Reading(jobs, e) /\ job.state \in Unfinished
  BY <1>1 DEF IInv, LaneTrue, Reading
<1>4. job \in Job /\ Sound(job) /\ ~Outstanding(job.attempt) /\ e \notin open
  BY <1>3, IInvFacts, UnfinishedIdle DEF Unfinished
<1>5. /\ new \in Job /\ Sound(new)
      /\ new.state = "waiting_result" /\ new.attempt = a
      /\ new.rescue = job.rescue
  <2>1. a = None \/ \E t \in 1..MaxTickets : a = NewAttempt(t)
    BY <1>2
  <2>. HIDE DEF a, job
  <2>. QED BY <1>4, <2>1, HandedFacts
<1>6. a # None => a.ticket = tickets' /\ tickets' = tickets + 1 /\ a.requests = <<>>
  BY <1>2, NewAttemptFacts
<1>7. js = [f \in Events |-> js[f]] /\ js[e] = new /\ \A f \in Events \ {e} : js[f] = jobs[f]
  BY IInvFacts, PutIs
<1>. HIDE DEF js, new, a
<1>8. Consistent(js, tickets') /\ Consistent(file, tickets')
  <2>1. tickets \in Nat /\ tickets' \in Nat
    BY <1>2
  <2>2. Consistent(js, tickets')
    BY <1>2, <1>3, <1>5, <1>6, <1>7, <2>1, HandedConsistent DEF IInv
  <2>3. Consistent(file, tickets')
    BY <1>2, <2>1, DrawnMore DEF IInv
  <2>. QED BY <2>2, <2>3
<1>9. Covers(js, inferences', onGpu', open', enlarged')
  <2>1. \A i \in inferences : Backs(js[i.event], i)
    <3>. SUFFICES ASSUME NEW i \in inferences PROVE Backs(js[i.event], i)
      OBVIOUS
    <3>1. i.event \in Events /\ Backs(jobs[i.event], i) /\ Outstanding(jobs[i.event].attempt)
      BY Sole
    <3>. QED BY <1>4, <1>7, <3>1
  <2>2. \A id \in onGpu : \E f \in Events : Admits(js[f], id)
    <3>. SUFFICES ASSUME NEW id \in onGpu PROVE \E f \in Events : Admits(js[f], id)
      OBVIOUS
    <3>1. PICK f \in Events : Admits(jobs[f], id)
      BY DEF IInv, Covers
    <3>2. f # e
      BY <1>4, <3>1, AdmittedIsOutstanding
    <3>. QED BY <1>7, <3>1, <3>2
  <2>3. \A f \in open : js[f].state = "waiting_result"
    BY <1>5, <1>7, IInvFacts DEF IInv, Types
  <2>4. Rescues(js, inferences, enlarged)
    BY <1>5, <1>7 DEF IInv, Covers, Rescues
  <2>. QED BY <1>1, <2>1, <2>2, <2>3, <2>4 DEF Covers
<1>10. Covers(file, inferences', onGpu', open', enlarged')
  BY <1>1 DEF IInv
<1>11. /\ jobs' = js /\ Filed'
       /\ Consistent(jobs, tickets)' /\ Consistent(file, tickets)'
       /\ Covers(jobs, inferences, onGpu, open, enlarged)'
       /\ Covers(file, inferences, onGpu, open, enlarged)'
       /\ storeError' \in BOOLEAN /\ faults' \in 0..MaxFaults
  BY <1>1, <1>8, <1>9, <1>10, PersistKeeps DEF IInv, Types
<1>12. SentOnce'
  BY <1>1 DEF IInv, SentOnce, Id
<1>13. \A f \in Events : Attended(jobs'[f], inferences')
  <2>. SUFFICES ASSUME NEW f \in Events PROVE Attended(js[f], inferences)
    BY <1>1, <1>11
  <2>1. CASE f = e
    BY <1>5, <1>6, <1>7, <2>1 DEF Attended
  <2>2. CASE f # e
    BY <1>1, <1>7, <2>2 DEF IInv
  <2>. QED BY <2>1, <2>2
<1>14. CASE storeError'
  <2>1. lane' \in Lanes /\ lane'.event = None
    BY <1>1, <1>14, RestFacts
  <2>2. Types'
    BY <1>1, <1>2, <1>11, <2>1 DEF IInv, Types
  <2>3. Core'
    BY <1>11, <1>12, <1>13 DEF Core
  <2>. QED BY <1>1, <1>14, <2>2, <2>3, Assembled
<1>15. CASE ~storeError'
  <2>1. lane' \in Lanes /\ lane'.at = "saved" /\ lane'.event = e
    <3>1. lane \in Lanes
      BY IInvFacts
    <3>. QED BY <1>1, <1>15, <3>1 DEF Lanes
  <2>2. Types'
    BY <1>1, <1>2, <1>11, <2>1 DEF IInv, Types
  <2>3. Core'
    BY <1>11, <1>12, <1>13 DEF Core
  <2>4. Fresh(js[e], handed)
    <3>1. handed \subseteq 1..tickets
      BY DEF IInv, Types
    <3>2. a # None => a.ticket \notin handed
      BY <1>2, <1>6, <3>1
    <3>. QED BY <1>5, <1>6, <1>7, <3>2 DEF Fresh
  <2>5. LaneTrue(js, lane', handed, open)
    BY <1>4, <2>1, <2>4 DEF LaneTrue
  <2>6. LaneTrue(jobs', lane', handed', open')
    BY <1>1, <1>11, <2>5
  <2>. QED BY <1>1, <2>2, <2>3, <2>6, Assembled
<1>. QED BY <1>14, <1>15
------------------------------------------------------------------------------
(* What has an unknown outcome: the GPU, the operator, a crash *)

LEMMA GpuEndsKeeps ==
  ASSUME IInv, NEW id, GpuEnds(id)
  PROVE  IInv'
<1>1. /\ onGpu' = onGpu \ {id}
      /\ UNCHANGED <<up, storeError, jobs, file, due, faults, tickets, handed, open, lane,
                     cleaning, inferences, enlarged, crashes>>
  BY DEF GpuEnds, store, frigate, counts
<1>2. /\ Covers(jobs, inferences, onGpu', open, enlarged)
      /\ Covers(file, inferences, onGpu', open, enlarged)
  <2>1. onGpu' \in SUBSET onGpu
    BY <1>1
  <2>. QED BY <2>1, FewerCovers DEF IInv
<1>3. /\ Covers(jobs', inferences', onGpu', open', enlarged')
      /\ Covers(file', inferences', onGpu', open', enlarged')
  BY <1>1, <1>2
<1>4. SentOnce'
  BY <1>1 DEF IInv, SentOnce, Id
<1>5. Filed'
  BY <1>1 DEF IInv, Filed
<1>6. up' /\ ~storeError' => \A f \in Events : Attended(jobs'[f], inferences')
  BY <1>1 DEF IInv
<1>7. Consistent(jobs', tickets') /\ Consistent(file', tickets')
  BY <1>1 DEF IInv
<1>8. Core'
  BY <1>1, <1>3, <1>4, <1>5, <1>6, <1>7 DEF Core, IInv, Types
<1>9. Types'
  BY <1>1 DEF IInv, Types
<1>10. (~up' => inferences' = {} /\ lane' = Rest /\ jobs' = file')
       /\ (up' /\ ~storeError' => LaneTrue(jobs', lane', handed', open'))
  BY <1>1 DEF IInv
<1>. QED BY <1>8, <1>9, <1>10, Assembled

LEMMA CrashKeeps ==
  ASSUME IInv, Crash
  PROVE  IInv'
<1>1. /\ up' = FALSE /\ crashes' = crashes + 1 /\ crashes < MaxCrashes
      /\ jobs' = file /\ storeError' = FALSE
      /\ lane' = Rest /\ cleaning' = None /\ inferences' = {}
      /\ UNCHANGED <<file, due, onGpu, enlarged, tickets, handed, open, faults>>
  BY DEF Crash, frigate
<1>2. lane' \in Lanes /\ lane'.event = None
  BY <1>1, RestFacts
<1>3. crashes' \in 0..MaxCrashes
  BY <1>1, ConstantFacts DEF IInv, Types
<1>4. Types'
  BY <1>1, <1>2, <1>3 DEF IInv, Types
<1>5. Covers(file, {}, onGpu, open, enlarged)
  <2>1. {} \in SUBSET inferences
    OBVIOUS
  <2>. QED BY <2>1, FewerCovers DEF IInv
<1>6. /\ Covers(jobs', inferences', onGpu', open', enlarged')
      /\ Covers(file', inferences', onGpu', open', enlarged')
  BY <1>1, <1>5
<1>7. Consistent(jobs', tickets') /\ Consistent(file', tickets')
  BY <1>1 DEF IInv
<1>8. SentOnce' /\ Filed'
  BY <1>1 DEF SentOnce, Filed
<1>9. Core'
  BY <1>1, <1>6, <1>7, <1>8 DEF Core, IInv, Types
<1>. QED BY <1>1, <1>4, <1>9, Assembled

(* The job with other requests and another phase.                          *)
Rewritten(job, p, rr) ==
  [state |-> job.state,
   attempt |-> [ticket |-> job.attempt.ticket, phase |-> p, requests |-> rr,
                outcome |-> job.attempt.outcome, revoked |-> job.attempt.revoked],
   rescue |-> job.rescue]

LEMMA RewrittenFacts ==
  ASSUME NEW job \in Job, job.attempt # None, NEW p \in Phases, NEW rr \in Requests
  PROVE  LET new == Rewritten(job, p, rr) IN
         /\ new \in Job /\ new.state = job.state /\ new.rescue = job.rescue
         /\ new.attempt # None /\ new.attempt \in Attempt
         /\ new.attempt.ticket = job.attempt.ticket /\ new.attempt.phase = p
         /\ new.attempt.requests = rr
         /\ new.attempt.outcome = job.attempt.outcome
         /\ new.attempt.revoked = job.attempt.revoked
<1>. DEFINE a == job.attempt
            b == [ticket |-> a.ticket, phase |-> p, requests |-> rr,
                  outcome |-> a.outcome, revoked |-> a.revoked]
<1>1. a \in Attempt
  BY JobFields
<1>2. a.ticket \in 1..MaxTickets /\ a.outcome \in {None, "success", "failed"}
      /\ a.revoked \in BOOLEAN
  BY <1>1, AttemptFields
<1>3. b \in Attempt /\ b # None
  BY <1>2, AttemptOf, ConstantFacts
<1>4. job.state \in Active \cup {"completed", "skipped"}
      /\ job.rescue \in [state : {"none", "measured", "used"}, failed : 0..MaxTickets]
  BY JobFields
<1>5. [state |-> job.state, attempt |-> b, rescue |-> job.rescue] \in Job
  BY <1>3, <1>4, JobOf
<1>. QED BY <1>3, <1>5 DEF Rewritten

LEMMA UncertainIs ==
  ASSUME NEW r \in Requests
  PROVE  LET u == Uncertain(r) IN
         /\ u \in Requests /\ DOMAIN u = DOMAIN r
         /\ \A n \in DOMAIN r :
              /\ u[n].state = IF r[n].state = "finished" THEN "finished" ELSE "uncertain"
              /\ u[n].enlarged = r[n].enlarged
<1>. DEFINE u == Uncertain(r)
<1>1. u = [n \in DOMAIN r |->
             IF r[n].state = "finished" THEN r[n]
             ELSE [r[n] EXCEPT !.state = "uncertain"]]
  BY DEF Uncertain
<1>2. DOMAIN u = DOMAIN r /\ u = [n \in DOMAIN r |-> u[n]]
  BY <1>1
<1>3. ASSUME NEW n \in DOMAIN r
      PROVE  /\ u[n] \in RequestRecord
             /\ u[n].state = IF r[n].state = "finished" THEN "finished" ELSE "uncertain"
             /\ u[n].enlarged = r[n].enlarged
  <2>1. r[n] \in RequestRecord
    BY RequestFields
  <2>2. u[n] = IF r[n].state = "finished" THEN r[n]
               ELSE [r[n] EXCEPT !.state = "uncertain"]
    BY <1>1
  <2>. HIDE DEF u
  <2>. QED BY <2>1, <2>2 DEF RequestRecord
<1>. HIDE DEF u
<1>4. u \in Requests
  BY <1>2, <1>3, RequestsMapped
<1>. QED BY <1>2, <1>3, <1>4 DEF u

LEMMA EndedIs ==
  ASSUME NEW r \in Requests
  PROVE  LET u == Ended(r) IN
         /\ u \in Requests /\ DOMAIN u = DOMAIN r
         /\ \A n \in DOMAIN r : u[n].state = "finished" /\ u[n].enlarged = r[n].enlarged
<1>. DEFINE u == Ended(r)
<1>1. u = [n \in DOMAIN r |-> [r[n] EXCEPT !.state = "finished"]]
  BY DEF Ended
<1>2. DOMAIN u = DOMAIN r /\ u = [n \in DOMAIN r |-> u[n]]
  BY <1>1
<1>3. ASSUME NEW n \in DOMAIN r
      PROVE  /\ u[n] \in RequestRecord
             /\ u[n].state = "finished" /\ u[n].enlarged = r[n].enlarged
  <2>1. r[n] \in RequestRecord
    BY RequestFields
  <2>2. u[n] = [r[n] EXCEPT !.state = "finished"]
    BY <1>1
  <2>. HIDE DEF u
  <2>. QED BY <2>1, <2>2 DEF RequestRecord
<1>. HIDE DEF u
<1>4. u \in Requests
  BY <1>2, <1>3, RequestsMapped
<1>. QED BY <1>2, <1>3, <1>4 DEF u

LEMMA RestoredIs ==
  ASSUME NEW job \in Job, Some(job.attempt, {"queued", "running"})
  PROVE  Restored(job) = Rewritten(job, "uncertain", Uncertain(job.attempt.requests))
<1>. DEFINE a == job.attempt
            rr == Uncertain(a.requests)
<1>1. a # None /\ a \in Attempt
  BY JobFields DEF Some
<1>2. Restored(job) = [job EXCEPT !.attempt.requests = rr, !.attempt.phase = "uncertain"]
  BY DEF Restored
<1>. HIDE DEF rr
<1>3. [job EXCEPT !.attempt.requests = rr, !.attempt.phase = "uncertain"]
        = [job EXCEPT !.attempt = [a EXCEPT !.requests = rr, !.phase = "uncertain"]]
  BY DEF Job
<1>4. \A c : [job EXCEPT !.attempt = c]
               = [state |-> job.state, attempt |-> c, rescue |-> job.rescue]
  BY DEF Job
<1>5. [a EXCEPT !.requests = rr, !.phase = "uncertain"]
        = [ticket |-> a.ticket, phase |-> "uncertain", requests |-> rr,
           outcome |-> a.outcome, revoked |-> a.revoked]
  <2>. HIDE DEF a
  <2>. QED BY <1>1, RequestsThenPhase
<1>. QED BY <1>2, <1>3, <1>4, <1>5 DEF Rewritten, rr

(* A start makes what was queued or running uncertain, and no more.        *)
LEMMA RestoredFollows ==
  ASSUME NEW job \in Job, Sound(job)
  PROVE  LET new == Restored(job) IN
         /\ Follows(new, job) /\ new.state = job.state /\ new.rescue = job.rescue
         /\ \A id : Admits(job, id) => Admits(new, id)
         /\ ~Some(new.attempt, {"queued", "running"})
<1>1. CASE ~Some(job.attempt, {"queued", "running"})
  BY <1>1, SameFollows DEF Restored
<1>2. CASE Some(job.attempt, {"queued", "running"})
  <2>. DEFINE a == job.attempt
              rr == Uncertain(a.requests)
              new == Rewritten(job, "uncertain", rr)
              b == new.attempt
  <2>1. Restored(job) = new
    BY <1>2, RestoredIs
  <2>2. Outstanding(a)
    BY <1>2 DEF Outstanding, Some
  <2>3. /\ a # None /\ a \in Attempt /\ job.state = "waiting_result" /\ HoldsSlot(job)
        /\ ~a.revoked
    BY <2>2, LiveJob
  <2>4. /\ rr \in Requests /\ DOMAIN rr = DOMAIN a.requests
        /\ \A n \in DOMAIN a.requests :
             /\ rr[n].state = IF a.requests[n].state = "finished" THEN "finished"
                              ELSE "uncertain"
             /\ rr[n].enlarged = a.requests[n].enlarged
    BY <2>3, AttemptFields, UncertainIs
  <2>5. "uncertain" \in Phases
    BY DEF Phases
  <2>. HIDE DEF rr
  <2>6. /\ new \in Job /\ new.state = job.state /\ new.rescue = job.rescue
        /\ b # None /\ b \in Attempt
        /\ b.ticket = a.ticket /\ b.phase = "uncertain" /\ b.requests = rr
        /\ b.outcome = a.outcome /\ b.revoked = a.revoked
    BY <2>3, <2>4, <2>5, RewrittenFacts
  <2>. HIDE DEF new
  <2>7. PICK k \in DOMAIN a.requests : a.requests[k].state \in {"queued", "running"}
    BY <1>2 DEF Some
  <2>8. rr[k].state = "uncertain" /\ k \in DOMAIN rr
    BY <2>4, <2>7
  <2>9. Some(b, {"uncertain"}) /\ Outstanding(b) /\ ~Some(b, {"queued", "running"})
    <3>1. \A n \in DOMAIN rr : rr[n].state \in {"finished", "uncertain"}
      BY <2>4
    <3>. QED BY <2>6, <2>8, <3>1 DEF Some, Outstanding
  <2>10. OneOutstanding(b)
    BY <2>3, <2>4, <2>6 DEF OneOutstanding, Sound
  <2>11. \A n \in DOMAIN b.requests : b.requests[n].enlarged => job.rescue.state = "used"
    BY <2>3, <2>4, <2>6 DEF Sound, ValidAttempt
  <2>12. ValidAttempt(new)
    BY <2>3, <2>6, <2>9, <2>11 DEF ValidAttempt
  <2>13. Sound(new)
    BY <2>3, <2>6, <2>10, <2>12 DEF Sound, Active
  <2>14. \A id : Admits(job, id) => Admits(new, id)
    BY <2>4, <2>6 DEF Admits
  <2>. QED BY <2>1, <2>3, <2>6, <2>9, <2>13, <2>14 DEF Follows
<1>. QED BY <1>1, <1>2

LEMMA RestartKeeps ==
  ASSUME IInv, Restart
  PROVE  IInv'
<1>. DEFINE js == [e \in Events |-> Restored(file[e])]
<1>1. /\ ~up /\ up' = TRUE
      /\ UNCHANGED <<due, lane, cleaning, inferences, onGpu, enlarged, tickets, handed, open,
                     crashes>>
  BY DEF Restart, proxy, frigate
<1>2. inferences = {} /\ lane = Rest /\ jobs = file
  BY <1>1 DEF IInv
<1>3. \A e \in Events : file[e] \in Job /\ Sound(file[e])
  BY DEF IInv, Consistent
<1>4. \A e \in Events :
        /\ Follows(js[e], file[e]) /\ js[e].state = file[e].state
        /\ js[e].rescue = file[e].rescue
        /\ \A id : Admits(file[e], id) => Admits(js[e], id)
        /\ ~Some(js[e].attempt, {"queued", "running"})
  BY <1>3, RestoredFollows
<1>5. js = [e \in Events |-> js[e]]
  OBVIOUS
<1>6. \/ storeError' = TRUE /\ UNCHANGED <<jobs, file, faults>>
      \/ js = file /\ UNCHANGED <<storeError, jobs, file, faults>>
      \/ Persist(js)
  BY DEF Restart
<1>. HIDE DEF js
<1>7. \A e \in Events : Attended(js[e], {})
  BY <1>4 DEF Attended, Some
<1>8. LaneTrue(jobs', lane', handed', open')
  BY <1>1, <1>2, RestFacts, LaneElsewhere
<1>9. SentOnce'
  BY <1>1 DEF IInv, SentOnce, Id
<1>10. CASE Persist(js)
  <2>1. Consistent(js, tickets') /\ Consistent(file, tickets')
    BY <1>1, <1>4, <1>5, IInvFacts, FollowsConsistent DEF IInv
  <2>2. Covers(js, {}, onGpu, open, enlarged)
    <3>1. \A id \in onGpu : \E e \in Events : Admits(js[e], id)
      BY <1>4 DEF IInv, Covers
    <3>2. \A e \in open : js[e].state = "waiting_result"
      BY <1>4 DEF IInv, Covers, Types
    <3>3. Rescues(js, {}, enlarged)
      BY <1>4 DEF IInv, Covers, Rescues
    <3>. QED BY <3>1, <3>2, <3>3 DEF Covers
  <2>3. Covers(js, inferences', onGpu', open', enlarged')
    BY <1>1, <1>2, <2>2
  <2>4. Covers(file, inferences', onGpu', open', enlarged')
    BY <1>1 DEF IInv
  <2>5. /\ jobs' = js /\ Filed'
        /\ Consistent(jobs, tickets)' /\ Consistent(file, tickets)'
        /\ Covers(jobs, inferences, onGpu, open, enlarged)'
        /\ Covers(file, inferences, onGpu, open, enlarged)'
        /\ storeError' \in BOOLEAN /\ faults' \in 0..MaxFaults
    BY <1>10, <2>1, <2>3, <2>4, PersistKeeps DEF IInv, Types
  <2>6. Types'
    BY <1>1, <2>5 DEF IInv, Types
  <2>7. Core'
    BY <1>1, <1>2, <1>7, <1>9, <2>5 DEF Core
  <2>. QED BY <1>1, <1>8, <2>6, <2>7, Assembled
<1>11. CASE /\ UNCHANGED <<jobs, file, faults>>
            /\ \/ storeError' = TRUE
               \/ js = file /\ UNCHANGED storeError
  <2>1. storeError' \in BOOLEAN
    <3>1. storeError' = TRUE \/ storeError' = storeError
      BY <1>11
    <3>. QED BY <3>1 DEF IInv, Types
  <2>2. Types'
    BY <1>1, <1>11, <2>1 DEF IInv, Types
  <2>3. Consistent(jobs', tickets') /\ Consistent(file', tickets')
    BY <1>1, <1>11 DEF IInv
  <2>4. /\ Covers(jobs', inferences', onGpu', open', enlarged')
        /\ Covers(file', inferences', onGpu', open', enlarged')
    BY <1>1, <1>11 DEF IInv
  <2>5. Filed'
    BY <1>2, <1>11 DEF Filed
  <2>6. up' /\ ~storeError' => \A e \in Events : Attended(jobs'[e], inferences')
    BY <1>1, <1>2, <1>7, <1>11
  <2>7. Core'
    BY <1>9, <1>11, <2>1, <2>3, <2>4, <2>5, <2>6 DEF Core, IInv, Types
  <2>. QED BY <1>1, <1>8, <2>2, <2>7, Assembled
<1>. QED BY <1>6, <1>10, <1>11

(* The operator's word that nothing runs any more ends what is uncertain.  *)
Settled(job) ==
  IF Some(job.attempt, {"uncertain"})
  THEN Retry([job EXCEPT !.attempt.requests = Ended(@)])
  ELSE job

LEMMA SettledFollows ==
  ASSUME NEW job \in Job, Sound(job)
  PROVE  LET new == Settled(job) IN
         /\ Follows(new, job) /\ new.rescue = job.rescue
         /\ ~Some(job.attempt, {"uncertain"}) => new = job
         /\ Some(job.attempt, {"uncertain"}) => ~Outstanding(new.attempt)
<1>1. CASE ~Some(job.attempt, {"uncertain"})
  BY <1>1, SameFollows DEF Settled
<1>2. CASE Some(job.attempt, {"uncertain"})
  <2>. DEFINE a == job.attempt
              rr == Ended(a.requests)
              b == [a EXCEPT !.requests = rr]
              mid == [job EXCEPT !.attempt = b]
              c == [b EXCEPT !.revoked = TRUE, !.phase = "retired", !.outcome = None]
              new == [mid EXCEPT !.state = "retrying", !.attempt = c]
  <2>1. a # None /\ a \in Attempt
    BY <1>2, JobFields DEF Some
  <2>2. /\ rr \in Requests /\ DOMAIN rr = DOMAIN a.requests
        /\ \A n \in DOMAIN a.requests :
             rr[n].state = "finished" /\ rr[n].enlarged = a.requests[n].enlarged
    BY <2>1, AttemptFields, EndedIs
  <2>3. [job EXCEPT !.attempt.requests = Ended(@)] = mid
    BY DEF Job
  <2>. HIDE DEF rr
  <2>4. b \in Attempt /\ b.ticket = a.ticket /\ b.requests = rr
    BY <2>1, <2>2 DEF Attempt, Requests
  <2>5. b # None
    BY <2>4, ConstantFacts
  <2>6. mid \in Job /\ mid.attempt = b /\ mid.rescue = job.rescue
    BY <2>4 DEF Job
  <2>. HIDE DEF b, mid
  <2>7. ~Outstanding(b)
    BY <2>2, <2>4, OutstandingMeans
  <2>8. Settled(job) = new
    BY <1>2, <2>3, <2>5, <2>6, <2>7 DEF Settled, Retry, Retired
  <2>9. c \in Attempt
    BY <2>4 DEF Attempt
  <2>10. c.ticket = a.ticket /\ c.requests = rr /\ c.phase = "retired" /\ c.revoked = TRUE
    BY <2>4 DEF Attempt
  <2>11. c # None
    BY <2>9, ConstantFacts
  <2>. HIDE DEF c
  <2>12. new.state = "retrying" /\ new.attempt = c /\ new.rescue = job.rescue
    BY <2>6 DEF Job
  <2>13. new \in Job
    BY <2>6, <2>9 DEF Job, Active, Unfinished
  <2>. HIDE DEF new
  <2>14. ~Outstanding(c) /\ OneOutstanding(c)
    <3>1. \A n \in DOMAIN c.requests : c.requests[n].state = "finished"
      BY <2>2, <2>10
    <3>. QED BY <2>9, <3>1, OutstandingMeans DEF OneOutstanding
  <2>15. \A n \in DOMAIN c.requests : c.requests[n].enlarged => job.rescue.state = "used"
    BY <2>1, <2>2, <2>10 DEF Sound, ValidAttempt
  <2>16. ValidAttempt(new)
    BY <2>10, <2>12, <2>14, <2>15 DEF ValidAttempt
  <2>17. Sound(new) /\ ~HoldsSlot(new) /\ new.state # "waiting_result"
    BY <2>12, <2>14, <2>16 DEF Sound, HoldsSlot, Active, Unfinished
  <2>. QED BY <1>2, <2>1, <2>8, <2>10, <2>12, <2>13, <2>14, <2>17 DEF Follows
<1>. QED BY <1>1, <1>2

LEMMA AcknowledgeKeeps ==
  ASSUME IInv, Acknowledge
  PROVE  IInv'
<1>. DEFINE js == [e \in Events |-> Settled(jobs[e])]
<1>1. /\ up /\ ~storeError /\ RequiresRecovery
      /\ onGpu = {} /\ \A i \in inferences : i.at = "queued"
      /\ Persist(js) /\ Resolve(js) /\ due' \subseteq due
      /\ UNCHANGED <<up, cleaning, inferences, onGpu, enlarged, tickets, handed, lane,
                     crashes>>
  BY DEF Acknowledge, Settled, Elsewhere, ElsewhereBut, proxy
<1>2. \A e \in Events :
        /\ Follows(js[e], jobs[e]) /\ js[e].rescue = jobs[e].rescue
        /\ ~Some(jobs[e].attempt, {"uncertain"}) => js[e] = jobs[e]
        /\ Some(jobs[e].attempt, {"uncertain"}) => ~Outstanding(js[e].attempt)
  BY IInvFacts, SettledFollows
<1>3. js = [e \in Events |-> js[e]]
  OBVIOUS
<1>. HIDE DEF js
<1>4. PICK u \in Events : Some(jobs[u].attempt, {"uncertain"})
  BY <1>1 DEF RequiresRecovery
<1>5. inferences = {}
  <2>. SUFFICES ASSUME NEW i \in inferences PROVE FALSE
    OBVIOUS
  <2>1. Outstanding(jobs[u].attempt)
    BY <1>4 DEF Outstanding, Some
  <2>2. HoldsSlot(jobs[u])
    BY <2>1, IInvFacts, LiveJob
  <2>3. /\ i.event \in Events /\ HoldsSlot(jobs[i.event]) /\ Backs(jobs[i.event], i)
        /\ Sound(jobs[i.event]) /\ jobs[i.event].attempt # None
    BY Sole
  <2>4. u = i.event
    BY <2>2, <2>3 DEF IInv, Consistent
  <2>5. /\ i.n \in DOMAIN jobs[u].attempt.requests
        /\ jobs[u].attempt.requests[i.n].state = "queued"
    BY <1>1, <2>3, <2>4 DEF Backs
  <2>. QED BY <1>4, <2>3, <2>4, <2>5 DEF Some, Sound, OneOutstanding
<1>6. open' \subseteq open /\ \A e \in open' : js[e].state = "waiting_result"
  BY <1>1 DEF Resolve
<1>7. Consistent(js, tickets') /\ Consistent(file, tickets')
  BY <1>1, <1>2, <1>3, IInvFacts, FollowsConsistent DEF IInv
<1>8. Covers(js, inferences', onGpu', open', enlarged')
  <2>1. Rescues(js, {}, enlarged)
    BY <1>2 DEF IInv, Covers, Rescues
  <2>. QED BY <1>1, <1>5, <1>6, <2>1 DEF Covers
<1>9. Covers(file, inferences', onGpu', open', enlarged')
  BY <1>1, <1>6, FewerCovers DEF IInv
<1>10. /\ jobs' = js /\ Filed'
       /\ Consistent(jobs, tickets)' /\ Consistent(file, tickets)'
       /\ Covers(jobs, inferences, onGpu, open, enlarged)'
       /\ Covers(file, inferences, onGpu, open, enlarged)'
       /\ storeError' \in BOOLEAN /\ faults' \in 0..MaxFaults
  BY <1>1, <1>7, <1>8, <1>9, PersistKeeps DEF IInv, Types
<1>11. SentOnce'
  BY <1>1 DEF IInv, SentOnce, Id
<1>12. \A e \in Events : Attended(jobs'[e], inferences')
  <2>. SUFFICES ASSUME NEW e \in Events PROVE Attended(js[e], {})
    BY <1>1, <1>5, <1>10
  <2>1. CASE Some(jobs[e].attempt, {"uncertain"})
    BY <1>2, <2>1 DEF Attended, Outstanding, Some
  <2>2. CASE ~Some(jobs[e].attempt, {"uncertain"})
    BY <1>1, <1>2, <1>5, <2>2 DEF IInv
  <2>. QED BY <2>1, <2>2
<1>13. Types'
  BY <1>1, <1>6, <1>10 DEF IInv, Types
<1>14. LaneTrue(jobs', lane', handed', open')
  <2>1. LaneTrue(jobs, lane, handed, open)
    BY <1>1 DEF IInv
  <2>2. ASSUME NEW e \in Events, lane.event = e, lane.at \in {"read", "saved"}
        PROVE  js[e] = jobs[e]
    <3>1. ~Some(jobs[e].attempt, {"uncertain"})
      <4>1. CASE lane.at = "read"
        <5>1. ~Outstanding(jobs[e].attempt)
          BY <2>1, <2>2, <4>1, IInvFacts, UnfinishedIdle DEF LaneTrue, Reading, Unfinished
        <5>. QED BY <5>1 DEF Outstanding, Some
      <4>2. CASE lane.at = "saved"
        <5>1. Fresh(jobs[e], handed)
          BY <2>1, <2>2, <4>2 DEF LaneTrue
        <5>. QED BY <5>1 DEF Fresh, Some
      <4>. QED BY <2>2, <4>1, <4>2
    <3>. QED BY <1>2, <3>1
  <2>3. LaneTrue(js, lane', handed, open')
    BY <1>1, <1>2, <1>6, <2>1, <2>2, IInvFacts, LaneKept
  <2>. QED BY <1>1, <1>10, <2>3
<1>15. Core'
  BY <1>10, <1>11, <1>12 DEF Core
<1>. QED BY <1>1, <1>13, <1>14, <1>15, Assembled
------------------------------------------------------------------------------
(* The invariant holds in every state *)

LEMMA Initially == Init => IInv
<1>. SUFFICES ASSUME Init PROVE IInv
  OBVIOUS
<1>1. /\ up = TRUE /\ storeError = FALSE /\ file = jobs
      /\ jobs \in [Events -> {NewJob(NoRescue), NewJob(Measured(0))}]
      /\ due = {} /\ lane = Rest /\ cleaning = None
      /\ inferences = {} /\ onGpu = {} /\ enlarged = [e \in Events |-> 0]
      /\ tickets = 0 /\ handed = {} /\ open = {}
      /\ faults = 0 /\ crashes = 0
  BY DEF Init
<1>2. ASSUME NEW e \in Events
      PROVE  /\ jobs[e] \in Job /\ jobs[e].state = "pending" /\ jobs[e].attempt = None
             /\ Sound(jobs[e]) /\ ~HoldsSlot(jobs[e])
  <2>1. PICK r \in Rescue : jobs[e] = NewJob(r)
    <3>1. NoRescue \in Rescue /\ Measured(0) \in Rescue
      BY ConstantFacts DEF NoRescue, Measured, Rescue
    <3>. QED BY <1>1, <3>1
  <2>2. jobs[e] \in Job
    BY <2>1 DEF Job, NewJob, Rescue, Active, Unfinished
  <2>3. jobs[e].state = "pending" /\ jobs[e].attempt = None
    BY <2>1 DEF NewJob
  <2>. QED BY <2>2, <2>3 DEF Sound, HoldsSlot
<1>3. Consistent(jobs, tickets)
  <2>1. jobs \in [Events -> Job]
    BY <1>1, <1>2
  <2>2. Waiting(jobs) = {}
    BY <1>2 DEF Waiting
  <2>3. Cardinality(Waiting(jobs)) <= MaxVerifying
    BY <2>2, ConstantFacts, FS_EmptySet
  <2>. QED BY <1>2, <2>1, <2>3 DEF Consistent
<1>4. Covers(jobs, inferences, onGpu, open, enlarged)
  BY <1>1 DEF Covers, Rescues
<1>5. Types
  BY <1>1, ConstantFacts, RestFacts DEF Types
<1>6. SentOnce /\ Filed
  BY <1>1 DEF SentOnce, Filed
<1>7. LaneTrue(jobs, lane, handed, open)
  BY <1>1, RestFacts, LaneElsewhere
<1>8. \A e \in Events : Attended(jobs[e], inferences)
  BY <1>2 DEF Attended
<1>. QED BY <1>1, <1>3, <1>4, <1>5, <1>6, <1>7, <1>8 DEF IInv

LEMMA StutterKeeps ==
  ASSUME IInv, UNCHANGED vars
  PROVE  IInv'
<1>1. UNCHANGED <<up, storeError, jobs, file, due, lane, cleaning, inferences, onGpu,
                  enlarged, tickets, handed, open, faults, crashes>>
  BY DEF vars, store, proxy, frigate, counts
<1>2. Core'
  BY <1>1, IdleStep
<1>3. Types'
  BY <1>1 DEF IInv, Types
<1>4. (~up' => inferences' = {} /\ lane' = Rest /\ jobs' = file')
      /\ (up' /\ ~storeError' => LaneTrue(jobs', lane', handed', open'))
  BY <1>1 DEF IInv
<1>. QED BY <1>2, <1>3, <1>4, Assembled

LEMMA Inductive == IInv /\ [Next]_vars => IInv'
<1>. SUFFICES ASSUME IInv, [Next]_vars PROVE IInv'
  OBVIOUS
<1>1. CASE LaneStep
  <2>1. ASSUME NEW e \in Events,
               Verify(e) \/ Verified(e) \/ Check(e) \/ Settle(e)
                 \/ Handoff(e) \/ Withdraw(e) \/ Regenerate(e) \/ Regenerated(e)
        PROVE  IInv'
    BY <2>1, VerifyKeeps, VerifiedKeeps, CheckKeeps, SettleKeeps, HandoffKeeps,
       WithdrawKeeps, RegenerateKeeps, RegeneratedKeeps
  <2>. QED BY <1>1, <2>1, WakeKeeps, StopKeeps DEF LaneStep
<1>2. CASE CleanupStep
  BY <1>2, CleanKeeps, CleanedKeeps DEF CleanupStep
<1>3. CASE InferenceStep
  BY <1>3, StartKeeps, ForwardKeeps, ReserveKeeps, SendEnlargedKeeps, DropKeeps,
     AnswerKeeps, BreakKeeps DEF InferenceStep
<1>4. CASE FrigateStep
  BY <1>4, ClaimKeeps, ReportKeeps DEF FrigateStep
<1>5. CASE Request
  BY <1>5, AcknowledgeKeeps, DiscoverKeeps, RetryJobKeeps, RecheckJobKeeps DEF Request
<1>6. CASE \E e \in Events : TimePasses(e)
  BY <1>6, TimePassesKeeps
<1>7. CASE \E id \in onGpu : GpuEnds(id)
  BY <1>7, GpuEndsKeeps
<1>8. CASE Crash
  BY <1>8, CrashKeeps
<1>9. CASE Restart
  BY <1>9, RestartKeeps
<1>10. CASE UNCHANGED vars
  BY <1>10, StutterKeeps
<1>. QED BY <1>1, <1>2, <1>3, <1>4, <1>5, <1>6, <1>7, <1>8, <1>9, <1>10 DEF Next

LEMMA Always == Spec => []IInv
BY Initially, Inductive, PTL DEF Spec
------------------------------------------------------------------------------
(* Every variable has its type, for any number of items and handoffs.      *)
THEOREM CatchupTypes == Spec => []TypeOK
<1>1. IInv => TypeOK
  <2>. SUFFICES ASSUME IInv PROVE TypeOK
    OBVIOUS
  <2>1. {jobs, file} \subseteq [Events -> Job]
    BY DEF IInv, Consistent
  <2>2. enlarged \in [Events -> Nat]
    BY DEF IInv, Types
  <2>3. inferences \subseteq [event : Events, ticket : 1..MaxTickets, n : 1..MaxRequests,
                              at : {"queued", "preflight", "reserved", "sent"}]
    BY DEF IInv, Types, Inferences, Places
  <2>4. /\ lane.at \in {"idle", "verify", "read", "saved", "put"}
        /\ lane.event \in Events \cup {None} /\ lane.todo \subseteq Events
    BY DEF IInv, Types, Lanes
  <2>5. {up, storeError} \subseteq BOOLEAN
    BY DEF IInv, Types
  <2>. QED BY <2>1, <2>2, <2>3, <2>4, <2>5 DEF TypeOK, IInv, Types
<1>. QED BY <1>1, Always, PTL

LEMMA AtMostOne ==
  ASSUME NEW S, \A x, y \in S : x = y
  PROVE  Cardinality(S) \in Nat /\ Cardinality(S) <= 1
<1>1. CASE S = {}
  BY <1>1, FS_EmptySet
<1>2. CASE S # {}
  <2>1. PICK x \in S : TRUE
    BY <1>2
  <2>2. S = {x}
    BY <2>1
  <2>. QED BY <2>2, FS_Singleton
<1>. QED BY <1>1, <1>2

LEMMA ConsistentIsValid ==
  ASSUME NEW js, NEW drawn, Consistent(js, drawn)
  PROVE  Valid(js)
<1>. DEFINE tried == {e \in Events : js[e].state \in Active /\ js[e].attempt # None}
            saved == {e \in tried : js[e].attempt.phase = "verifying_saved"}
<1>1. \A e \in tried : ValidAttempt(js[e])
  BY DEF Consistent, Sound
<1>2. \A e, f \in tried : js[e].attempt.ticket = js[f].attempt.ticket => e = f
  BY DEF Consistent
<1>3. Cardinality({e \in Events : HoldsSlot(js[e])}) <= 1
  BY AtMostOne DEF Consistent
<1>4. Cardinality(saved) <= 16
  <2>1. saved \subseteq Waiting(js)
    BY <1>1 DEF ValidAttempt, Waiting
  <2>. HIDE DEF saved
  <2>2. IsFiniteSet(Waiting(js))
    <3>1. Waiting(js) \subseteq Events
      BY DEF Waiting
    <3>. QED BY <3>1, ConstantFacts, FS_Subset
  <2>3. /\ IsFiniteSet(saved) /\ Cardinality(saved) <= Cardinality(Waiting(js))
    BY <2>1, <2>2, FS_Subset
  <2>4. Cardinality(saved) \in Nat /\ Cardinality(Waiting(js)) \in Nat
    BY <2>2, <2>3, FS_CardinalityType
  <2>5. Cardinality(Waiting(js)) <= MaxVerifying
    BY DEF Consistent
  <2>. QED BY <2>3, <2>4, <2>5, ConstantFacts
<1>. HIDE DEF saved, tried
<1>. QED BY <1>1, <1>2, <1>3, <1>4 DEF Valid, saved, tried

(* Whatever write failed and whenever the process died, the next start     *)
(* accepts the file: restore() refuses nothing that this code has written. *)
THEOREM RestartIsPossible == Spec => []SavedRestorable
<1>1. IInv => SavedRestorable
  BY ConsistentIsValid DEF IInv, SavedRestorable
<1>. QED BY <1>1, Always, PTL

(* No correlated inference is sent while another may be on the GPU, across *)
(* crashes and lost connections, by what the jobs remember alone.          *)
THEOREM OneInferenceOnGpu == Spec => []OneOnGpu
<1>1. IInv => OneOnGpu
  <2>. SUFFICES ASSUME IInv PROVE Cardinality(onGpu) <= 1
    BY DEF OneOnGpu
  <2>1. ASSUME NEW x \in onGpu, NEW y \in onGpu PROVE x = y
    <3>1. PICK e \in Events : Admits(jobs[e], x)
      BY DEF IInv, Covers
    <3>2. PICK f \in Events : Admits(jobs[f], y)
      BY DEF IInv, Covers
    <3>3. HoldsSlot(jobs[e]) /\ HoldsSlot(jobs[f])
      BY <3>1, <3>2, IInvFacts, AdmittedIsOutstanding, LiveJob
    <3>4. e = f
      BY <3>3 DEF IInv, Consistent
    <3>5. OneOutstanding(jobs[e].attempt)
      BY <3>1, IInvFacts DEF Sound, Admits
    <3>6. x[1] = y[1] /\ x[2] = y[2]
      BY <3>1, <3>2, <3>4, <3>5 DEF Admits, OneOutstanding
    <3>7. /\ x \in (1..MaxTickets) \X (1..MaxRequests)
          /\ y \in (1..MaxTickets) \X (1..MaxRequests)
      BY DEF IInv, Types
    <3>. QED BY <3>6, <3>7
  <2>. QED BY <2>1, AtMostOne
<1>. QED BY <1>1, Always, PTL

(* A job has at most one enlarged dispatch, whatever is retried, rechecked *)
(* or restarted.                                                           *)
THEOREM OneRescue == Spec => []RescueOnce
<1>1. IInv => RescueOnce
  BY DEF IInv, Types, RescueOnce
<1>. QED BY <1>1, Always, PTL

(* Every request that is recorded as queued or running is one the proxy    *)
(* has, at the place that is recorded.                                     *)
THEOREM NoneWaitsInVain == Spec => []NoOrphan
<1>1. IInv => NoOrphan
  <2>. SUFFICES ASSUME IInv, up, ~storeError, NEW e \in Events, jobs[e].attempt # None,
                       NEW n \in DOMAIN jobs[e].attempt.requests,
                       jobs[e].attempt.requests[n].state \in {"queued", "running"}
       PROVE  \E i \in inferences :
                /\ Id(i) = <<jobs[e].attempt.ticket, n>>
                /\ i.at = "queued" <=> jobs[e].attempt.requests[n].state = "queued"
    BY DEF NoOrphan
  <2>1. Attended(jobs[e], inferences)
    BY DEF IInv
  <2>. QED BY <2>1 DEF Attended, Id
<1>. QED BY <1>1, Always, PTL

(* A handoff is never repeated while its last one is open: the lane only   *)
(* regenerates what it has just written down.                              *)
THEOREM HandoffsAreNotRepeated == Spec => NeverRepeated
<1>1. IInv /\ [Next]_vars => [\A e \in Events : Regenerate(e) => e \notin open]_vars
  BY RegenerateKeeps
<1>. QED BY <1>1, Always, PTL DEF Spec, NeverRepeated
==============================================================================
