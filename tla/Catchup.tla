-------------------------------- MODULE Catchup --------------------------------
(***************************************************************************)
(* Frigate catch-up, src/src/frigate-catchup.js, with the part of a        *)
(* correlated inference in src/src/proxy.js: a job is handed to Frigate    *)
(* with a ticket, Frigate claims inferences with it and reports how the    *)
(* attempt ended, and a lane checks what was saved. What a step may not    *)
(* repeat is written to the state file before it is done.                  *)
(*                                                                         *)
(* Frigate may claim and report at any time, twice, late or never; a       *)
(* request to it may be lost after it was delivered; the process dies      *)
(* anywhere. Left out: how events are found and ordered (a job appears),   *)
(* the reasons and dates that are shown, the length of a retry's delay     *)
(* (the time of a job is due or not), bounded history, and the stop of     *)
(* the process, which saves what is saved already. The scheduler, the gate *)
(* and the latch of the backend may hold an inference back; they are not   *)
(* here, so that what is shown is what this component ensures by itself.   *)
(***************************************************************************)
EXTENDS Naturals, Sequences, FiniteSets

CONSTANTS
  Events,        \* the Frigate items that may need a description
  None,
  MaxVerifying,  \* frigate.max_verifying
  MaxRequests,   \* inferences of an attempt; sixteen in the code
  MaxTickets,    \* bound: correlated handoffs
  MaxFaults,     \* bound: failing writes
  MaxCrashes     \* bound: crashes

(* What the code keeps of a correlated handoff.                             *)
Attempt ==
  [ticket : 1..MaxTickets,
   phase : {"handed_off", "queued", "running", "verifying_saved", "uncertain", "retired"},
   requests : UNION {[1..n -> [state : {"queued", "running", "finished", "uncertain"},
                               enlarged : BOOLEAN]] : n \in 0..MaxRequests},
   outcome : {None, "success", "failed"},
   revoked : BOOLEAN]

(* The configuration accepts a max_verifying of at most sixteen.           *)
ASSUME CatchupAssumption ==
  /\ MaxVerifying \in 1..16 /\ MaxRequests \in Nat \ {0}
  /\ {MaxTickets, MaxFaults, MaxCrashes} \subseteq Nat
  /\ IsFiniteSet(Events)
  /\ None \notin Events \cup Attempt \cup {"success", "failed"}

VARIABLES
  up,
  storeError,
  jobs,        \* state.jobs and state.recent, in memory
  file,        \* the same in the state file
  due,         \* the jobs whose next_attempt_at or deadline has passed
  lane,        \* runProcessJobs: what it awaits, for which job, what is left
  cleaning,    \* the job runCleanupJobs awaits, or None
  inferences,  \* correlated inferences the proxy has queued or runs
  onGpu,       \* inferences sent to Ollama and not known to have ended
  tickets,     \* tickets drawn so far
  handed,      \* tickets that reached Frigate
  open,        \* jobs handed to Frigate whose handoff nothing has resolved
  enlarged,    \* how often each job was sent with an enlarged context
  faults, crashes

store == <<storeError, jobs, file, due>>
proxy == <<inferences, onGpu, enlarged>>
frigate == <<tickets, handed, open>>
counts == <<faults, crashes>>
vars == <<up, store, lane, cleaning, proxy, frigate, counts>>

------------------------------------------------------------------------------
(* Jobs and attempts *)

(* "pending" is also the code's waiting_live: they are shown differently.  *)
Unfinished == {"pending", "retrying"}
Active == Unfinished \cup {"waiting_result"}

(* context_rescue, with the ticket of the attempt that overflowed.         *)
NoRescue == [state |-> "none", failed |-> 0]

Measured(t) == [state |-> "measured", failed |-> t]

NewJob(rescue) == [state |-> "pending", attempt |-> None, rescue |-> rescue]

NewAttempt(t) ==
  [ticket |-> t, phase |-> "handed_off", requests |-> <<>>, outcome |-> None,
   revoked |-> FALSE]

Some(a, states) ==
  a # None /\ \E n \in DOMAIN a.requests : a.requests[n].state \in states

Outstanding(a) == Some(a, {"queued", "running", "uncertain"})

HoldsSlot(job) ==
  /\ job.state = "waiting_result"
  /\ job.attempt = None \/ job.attempt.phase # "verifying_saved"

InState(states) == {e \in Events : jobs[e].state \in states}

RequiresRecovery == \E e \in Events : Some(jobs[e].attempt, {"uncertain"})

(* readiness(): what canRun() allows is left open where it is asked.       *)
MayRun == up /\ ~storeError /\ ~RequiresRecovery

(* Nothing reads the outcome of a retired attempt; it is left out.         *)
Retired(a) ==
  IF a = None THEN None
  ELSE [a EXCEPT !.revoked = TRUE, !.phase = "retired", !.outcome = None]

Retry(job) ==
  IF Outstanding(job.attempt) THEN job
  ELSE [job EXCEPT !.state = "retrying", !.attempt = Retired(@)]

(* A handoff is not given up while its attempt may go on.                  *)
Undecided(e, job) ==
  \/ Outstanding(job.attempt)
  \/ /\ job.state = "waiting_result" /\ job.attempt # None
     /\ job.attempt.outcome = None /\ e \notin due

(* The attempt stays in the history, where only a report that comes twice  *)
(* finds it; it is left out.                                               *)
Finish(e, how) ==
  IF Undecided(e, jobs[e]) THEN jobs[e]
  ELSE [jobs[e] EXCEPT !.state = how, !.attempt = None]

(* Faulty: the ticket of a finished attempt stays good.                    *)
ReconcileUnrevoked(job) ==
  LET a == job.attempt IN
  IF a = None \/ job.state # "waiting_result" THEN job
  ELSE IF a.outcome = None \/ Outstanding(a) THEN job
  ELSE IF a.outcome = "failed" THEN Retry(job)
  ELSE [job EXCEPT !.attempt.phase = "verifying_saved"]

(* reconcileAttempt(): the outcome counts once no inference is left.       *)
Reconcile(job) ==
  LET a == job.attempt IN
  IF a = None \/ job.state # "waiting_result" THEN job
  ELSE IF a.outcome = None \/ Outstanding(a) THEN job
  ELSE IF a.outcome = "failed" THEN Retry(job)
  ELSE [job EXCEPT !.attempt.phase = "verifying_saved", !.attempt.revoked = TRUE]

------------------------------------------------------------------------------
(* The state file *)

Stored(js) == jobs' = js

(* Faulty: the write is left to a later change.                            *)
PersistLater(js) == Stored(js) /\ UNCHANGED <<file, storeError, faults>>

(* persist(): it fails before or after the rename, and from then on        *)
(* nothing is written until the process is restarted.                      *)
Persist(js) ==
  /\ Stored(js)
  /\ \/ /\ file' = IF storeError THEN file ELSE js
        /\ UNCHANGED <<storeError, faults>>
     \/ /\ ~storeError /\ faults < MaxFaults
        /\ file' \in {file, js}
        /\ storeError' = TRUE /\ faults' = faults + 1

SaveHandoff(js) == Persist(js)

SaveRescue(js) == Persist(js)

Put(e, job) == [jobs EXCEPT ![e] = job]

(* What a changed job leaves of the handoffs that are open.                *)
Resolve(js) == open' = {e \in open : js[e].state = "waiting_result"}

(* The checks of restore() on the jobs of a file.                          *)
ValidAttempt(job) ==
  LET a == job.attempt IN
  /\ a.phase = "verifying_saved" => a.outcome = "success" /\ ~Outstanding(a)
  /\ job.state # "waiting_result" => a.phase = "retired"
  /\ a.phase = "retired" => ~Outstanding(a)
  /\ a.revoked <=> a.phase \in {"retired", "verifying_saved"}
  /\ a.phase = "handed_off" => a.outcome = None /\ ~Outstanding(a)
  /\ a.phase \in {"queued", "running"} => Outstanding(a)
  /\ a.phase = "uncertain" => Some(a, {"uncertain"})
  /\ \A n \in DOMAIN a.requests :
       a.requests[n].enlarged => job.rescue.state = "used"

Valid(js) ==
  LET tried == {e \in Events : js[e].state \in Active /\ js[e].attempt # None} IN
  /\ \A e \in tried : ValidAttempt(js[e])
  /\ \A e, f \in tried : js[e].attempt.ticket = js[f].attempt.ticket => e = f
  /\ Cardinality({e \in Events : HoldsSlot(js[e])}) <= 1
  /\ Cardinality({e \in tried : js[e].attempt.phase = "verifying_saved"}) <= 16

Uncertain(requests) ==
  [n \in DOMAIN requests |->
     IF requests[n].state = "finished" THEN requests[n]
     ELSE [requests[n] EXCEPT !.state = "uncertain"]]

Ended(requests) ==
  [n \in DOMAIN requests |-> [requests[n] EXCEPT !.state = "finished"]]

(* Faulty: a restart ends what ran.                                        *)
RestoredIdle(job) ==
  IF Some(job.attempt, {"queued", "running"})
  THEN [job EXCEPT !.attempt.requests = Ended(@), !.attempt.phase = "handed_off"]
  ELSE job

(* Faulty: a restart leaves an inference as it was.                        *)
RestoredAsIs(job) == job

(* What ran when the process died has an unknown outcome.                  *)
Restored(job) ==
  IF Some(job.attempt, {"queued", "running"})
  THEN [job EXCEPT !.attempt.requests = Uncertain(@), !.attempt.phase = "uncertain"]
  ELSE job

------------------------------------------------------------------------------
(* Jobs appear, time passes, the operator asks *)

ElsewhereBut == UNCHANGED <<up, cleaning, proxy, tickets, handed, crashes>>

Elsewhere == UNCHANGED lane /\ ElsewhereBut

(* A job that is made again is not the one the lane has in its list.       *)
Unlisted(e) == lane' = [lane EXCEPT !.todo = @ \ {e}]

(* scanPage() finds an item without a description. Here the scans before   *)
(* the first state have found every item; a later one finds it again once  *)
(* it was skipped for want of media and its suppression has expired, and   *)
(* makes a new job of it.                                                  *)
Discover(e) ==
  /\ up /\ ~storeError /\ jobs[e].state = "skipped"
  /\ Persist(Put(e, NewJob(NoRescue)))
  /\ due' = due \ {e}
  /\ enlarged' = [enlarged EXCEPT ![e] = 0]
  /\ Unlisted(e)
  /\ UNCHANGED <<up, cleaning, inferences, onGpu, frigate, crashes>>

TimePasses(e) ==
  /\ ~storeError /\ e \notin due /\ jobs[e].state \in Active
  /\ due' = due \cup {e}
  /\ UNCHANGED <<storeError, jobs, file, open, faults>> /\ Elsewhere

Locked == {lane.event, cleaning} \ {None}

(* retryJob(): a retry that is waiting becomes due, except where the code  *)
(* keeps its time.                                                         *)
RetryJob(e) ==
  /\ up /\ ~storeError /\ jobs[e].state = "retrying" /\ e \notin Locked
  /\ e \notin due
  /\ Persist(jobs)
  /\ due' = due \cup {e}
  /\ UNCHANGED open /\ Elsewhere

RecheckJob(e) ==
  /\ up /\ ~storeError /\ jobs[e].state = "skipped"
  /\ Persist(Put(e, NewJob(jobs[e].rescue)))
  /\ due' = due \cup {e}
  /\ Unlisted(e)
  /\ UNCHANGED open /\ ElsewhereBut

(* acknowledgeRecovery(), called with the gate held and no model loaded.   *)
Acknowledge ==
  LET settled(job) ==
        IF Some(job.attempt, {"uncertain"})
        THEN Retry([job EXCEPT !.attempt.requests = Ended(@)])
        ELSE job
      js == [e \in Events |-> settled(jobs[e])]
  IN
  /\ up /\ ~storeError /\ RequiresRecovery
  /\ onGpu = {} /\ \A i \in inferences : i.at = "queued"
  /\ Persist(js) /\ Resolve(js)
  /\ due' = {e \in due : js[e] = jobs[e]}
  /\ Elsewhere

------------------------------------------------------------------------------
(* The lane: runProcessJobs() and checkJob() *)

Rest == [at |-> "idle", event |-> None, todo |-> {}]

(* Once the file could not be written, what the lane and the cleanup still *)
(* do only changes a memory that nothing uses before a restart.            *)
At(place) == up /\ ~storeError /\ lane.at = place

LaneKeeps ==
  UNCHANGED <<up, cleaning, inferences, onGpu, enlarged, crashes>>

OnlyLane == UNCHANGED <<store, frigate, faults>> /\ LaneKeeps

Wake ==
  /\ At("idle")
  /\ lane' = [Rest EXCEPT !.at = "verify", !.todo = InState({"waiting_result"})]
  /\ OnlyLane

(* checkJob(job, true) asks Frigate for the item, unless the cleanup has   *)
(* the job or has ended it.                                                *)
Verify(e) ==
  /\ At("verify") /\ lane.event = None /\ e \in lane.todo
  /\ lane' = IF e # cleaning /\ jobs[e].state \in Active
             THEN [lane EXCEPT !.event = e]
             ELSE [lane EXCEPT !.todo = @ \ {e}]
  /\ OnlyLane

(* The job is retried or finished, or is left alone.                       *)
Close(e, job) ==
  /\ Persist(Put(e, job)) /\ Resolve(Put(e, job))
  /\ due' = IF job = jobs[e] THEN due ELSE due \ {e}
  /\ UNCHANGED <<tickets, handed>>

(* Its handoff has run out of time; one without a ticket also needs an     *)
(* idle foreground before it is given up.                                  *)
Overdue(e) ==
  /\ jobs[e].state = "waiting_result" /\ e \in due
  /\ IF jobs[e].attempt = None THEN MayRun ELSE ~Outstanding(jobs[e].attempt)

(* The item is described or deleted; or it is not described; or it is not  *)
(* yet time to decide, or the request has failed.                          *)
Verified(e) ==
  /\ At("verify") /\ lane.event = e
  /\ lane' = [lane EXCEPT !.event = None, !.todo = @ \ {e}]
  /\ \/ \E how \in {"completed", "skipped"} : Close(e, Finish(e, how))
     \/ Overdue(e) /\ Close(e, Retry(jobs[e]))
     \/ UNCHANGED <<store, frigate, faults>>
  /\ LaneKeeps

Free ==
  /\ MayRun
  /\ \A e \in Events : ~HoldsSlot(jobs[e])
  /\ Cardinality(InState({"waiting_result"})) < MaxVerifying

(* All are verified: unless a handoff holds the slot or too many wait for  *)
(* what Frigate saves, checkJob(job, false) reads an item whose time has   *)
(* come, its camera and its media, twice. One job a round; the code takes  *)
(* up to ten, the newest first.                                            *)
Check(e) ==
  /\ At("verify") /\ lane.todo = {} /\ Free
  /\ jobs[e].state \in Unfinished /\ e \in due /\ e # cleaning
  /\ lane' = [Rest EXCEPT !.at = "read", !.event = e]
  /\ OnlyLane

(* Nothing may or need be handed over, or readiness() refuses after all.   *)
Stop ==
  /\ At("read") \/ (At("verify") /\ lane.todo = {})
  /\ lane' = Rest
  /\ OnlyLane

(* The item is described, deleted, filtered or without media; or it is     *)
(* live, which is looked at later; or it cannot be read.                   *)
Settle(e) ==
  /\ At("read") /\ lane.event = e
  /\ lane' = Rest
  /\ \/ \E how \in {"completed", "skipped"} : Close(e, Finish(e, how))
     \/ /\ Stored(Put(e, [jobs[e] EXCEPT !.state = "pending"]))
        /\ due' = due \ {e}
        /\ UNCHANGED <<storeError, file, frigate, faults>>
     \/ Close(e, Retry(jobs[e]))
  /\ LaneKeeps

(* The handoff is written down before it is made, with a ticket when the   *)
(* last probe of Frigate has found the bridge.                             *)
Handoff(e) ==
  /\ At("read") /\ lane.event = e /\ MayRun
  /\ \/ tickets < MaxTickets /\ tickets' = tickets + 1
     \/ UNCHANGED tickets
  /\ SaveHandoff(Put(e, [jobs[e] EXCEPT
       !.state = "waiting_result",
       !.attempt = IF tickets' # tickets THEN NewAttempt(tickets') ELSE None]))
  /\ due' = due \ {e}
  /\ lane' = IF storeError' THEN Rest ELSE [lane EXCEPT !.at = "saved"]
  /\ UNCHANGED <<handed, open>> /\ LaneKeeps

(* readiness() has changed its mind.                                       *)
Withdraw(e) ==
  /\ At("saved") /\ lane.event = e
  /\ Persist(Put(e, [jobs[e] EXCEPT !.state = "pending", !.attempt = None]))
  /\ lane' = Rest
  /\ UNCHANGED <<due, frigate>> /\ LaneKeeps

(* regenerate() is sent; lost, it is a handoff Frigate does nothing about. *)
Regenerate(e) ==
  /\ At("saved") /\ lane.event = e
  /\ open' = open \cup {e}
  /\ handed' = handed \cup (IF jobs[e].attempt = None THEN {}
                            ELSE {jobs[e].attempt.ticket})
  /\ lane' = [lane EXCEPT !.at = "put"]
  /\ UNCHANGED <<store, tickets, faults>> /\ LaneKeeps

(* It is accepted, or what became of it is unknown; or it is refused,      *)
(* which does not count against what the attempt has done by then.         *)
Regenerated(e) ==
  LET a == jobs[e].attempt IN
  /\ At("put") /\ lane.event = e
  /\ lane' = Rest
  /\ \/ UNCHANGED <<store, frigate, faults>>
     \/ /\ a # None => a.outcome = None /\ a.requests = <<>>
        /\ Close(e, Retry(jobs[e]))
  /\ LaneKeeps

------------------------------------------------------------------------------
(* Cleanup: runCleanupJobs() *)

CleanupKeeps ==
  UNCHANGED <<up, lane, inferences, onGpu, enlarged, crashes>>

(* Faulty: it does not look at what the lane has locked.                   *)
CleanLocked(e) ==
  /\ up /\ ~storeError /\ cleaning = None
  /\ jobs[e].state \in Unfinished
  /\ cleaning' = e
  /\ UNCHANGED <<store, frigate, faults>> /\ CleanupKeeps

Clean(e) ==
  /\ up /\ ~storeError /\ cleaning = None
  /\ jobs[e].state \in Unfinished /\ e # lane.event
  /\ cleaning' = e
  /\ UNCHANGED <<store, frigate, faults>> /\ CleanupKeeps

(* The item is described, deleted or without media, or stays.              *)
Cleaned ==
  /\ up /\ ~storeError /\ cleaning # None
  /\ cleaning' = None
  /\ \/ UNCHANGED <<store, frigate, faults>>
     \/ \E how \in {"completed", "skipped"} : Close(cleaning, Finish(cleaning, how))
  /\ CleanupKeeps

------------------------------------------------------------------------------
(* Correlated inferences: the proxy and Frigate's bridge *)

Id(i) == <<i.ticket, i.n>>

Becomes(i, place) == inferences' = (inferences \ {i}) \cup {[i EXCEPT !.at = place]}

InferenceKeeps ==
  UNCHANGED <<up, lane, cleaning, tickets, handed, crashes>>

Accepts(e) ==
  LET a == jobs[e].attempt IN
  /\ up /\ ~storeError /\ jobs[e].state = "waiting_result" /\ a # None
  /\ a.ticket \in handed /\ ~a.revoked /\ a.outcome = None

(* claimInference() *)
Claim(e) ==
  LET a == jobs[e].attempt IN
  /\ Accepts(e) /\ ~RequiresRecovery /\ ~Outstanding(a) /\ e \notin due
  /\ Len(a.requests) < MaxRequests
  /\ Persist(Put(e, [jobs[e] EXCEPT
       !.attempt.phase = "queued",
       !.attempt.requests = Append(@, [state |-> "queued", enlarged |-> FALSE])]))
  /\ inferences' =
       IF storeError' THEN inferences
       ELSE inferences \cup {[event |-> e, ticket |-> a.ticket,
                              n |-> Len(a.requests) + 1, at |-> "queued"]}
  /\ UNCHANGED <<due, open, onGpu, enlarged>> /\ InferenceKeeps

(* inferenceStarted(), once the gate is acquired; when it cannot be written *)
(* down the inference is not sent.                                         *)
Start(i) ==
  /\ up /\ ~storeError /\ i.at = "queued"
  /\ Persist(Put(i.event, [jobs[i.event] EXCEPT
       !.attempt.phase = "running", !.attempt.requests[i.n].state = "running"]))
  /\ IF storeError' THEN inferences' = inferences \ {i} ELSE Becomes(i, "preflight")
  /\ UNCHANGED <<due, open, onGpu, enlarged>> /\ InferenceKeeps

Send(i) ==
  /\ up
  /\ Becomes(i, "sent")
  /\ onGpu' = onGpu \cup {Id(i)}
  /\ UNCHANGED <<store, open, faults>> /\ InferenceKeeps

(* contextRescuePlan() has no plan: nothing was measured for this input,   *)
(* or it was in this same attempt.                                         *)
Forward(i) == i.at = "preflight" /\ UNCHANGED enlarged /\ Send(i)

(* recordContextRescue(): the enlarged dispatch is written down before it  *)
(* is sent.                                                                *)
Reserve(i) ==
  LET job == jobs[i.event] IN
  /\ up /\ ~storeError /\ i.at = "preflight"
  /\ job.rescue.state = "measured" /\ job.rescue.failed # i.ticket
  /\ SaveRescue(Put(i.event, [job EXCEPT
       !.rescue.state = "used", !.attempt.requests[i.n].enlarged = TRUE]))
  /\ IF storeError' THEN inferences' = inferences \ {i} ELSE Becomes(i, "reserved")
  /\ UNCHANGED <<due, open, onGpu, enlarged>> /\ InferenceKeeps

SendEnlarged(i) ==
  /\ i.at = "reserved"
  /\ enlarged' = [enlarged EXCEPT ![i.event] = @ + 1]
  /\ Send(i)

(* An overflow that is certain measures the input, unless the job has had  *)
(* its rescue.                                                             *)
Measure(job, i, overflow) ==
  IF overflow /\ job.rescue.state # "used"
  THEN [job EXCEPT !.rescue = Measured(i.ticket)]
  ELSE job

(* inferenceFinished() *)
End(i, certain, overflow) ==
  LET e == i.event
      ended == [Measure(jobs[e], i, overflow) EXCEPT
        !.attempt.requests[i.n].state = IF certain THEN "finished" ELSE "uncertain",
        !.attempt.phase = IF certain THEN "handed_off" ELSE "uncertain"]
      js == Put(e, Reconcile(ended))
  IN
  /\ up
  /\ Persist(js) /\ Resolve(js)
  /\ due' = IF certain THEN due \ {e} ELSE due
  /\ inferences' = inferences \ {i}
  /\ UNCHANGED enlarged /\ InferenceKeeps

(* It is cancelled while it waits, or refused by the checks before it.     *)
Drop(i) ==
  /\ i.at \in {"queued", "preflight"}
  /\ End(i, TRUE, FALSE)
  /\ UNCHANGED onGpu

Answer(i) ==
  /\ i.at = "sent"
  /\ \E overflow \in BOOLEAN : End(i, TRUE, overflow)
  /\ onGpu' = onGpu \ {Id(i)}

(* The connection breaks: Ollama may go on.                                *)
Break(i) ==
  /\ i.at = "sent"
  /\ End(i, FALSE, FALSE)
  /\ UNCHANGED onGpu

(* Ollama ends what nobody waits for.                                      *)
GpuEnds(id) ==
  /\ \A i \in inferences : Id(i) # id
  /\ onGpu' = onGpu \ {id}
  /\ UNCHANGED <<up, store, lane, cleaning, inferences, enlarged, frigate, counts>>

(* reportAttempt(): how the native attempt ended.                          *)
Report(e) ==
  /\ Accepts(e)
  /\ \E outcome \in {"success", "failed"} :
       LET js == Put(e, Reconcile([jobs[e] EXCEPT !.attempt.outcome = outcome])) IN
       Persist(js) /\ Resolve(js)
  /\ due' = due \ {e}
  /\ UNCHANGED proxy /\ InferenceKeeps

------------------------------------------------------------------------------
(* The process dies and starts *)

Crash ==
  /\ up /\ crashes < MaxCrashes
  /\ up' = FALSE /\ crashes' = crashes + 1
  /\ jobs' = file /\ storeError' = FALSE
  /\ lane' = Rest /\ cleaning' = None /\ inferences' = {}
  /\ UNCHANGED <<file, due, onGpu, enlarged, frigate, faults>>

(* restore(): a file it does not accept stops the component.               *)
Restart ==
  LET restored == [e \in Events |-> Restored(file[e])] IN
  /\ ~up /\ up' = TRUE
  /\ IF ~Valid(file)
     THEN storeError' = TRUE /\ UNCHANGED <<jobs, file, faults>>
     ELSE IF restored = file
          THEN UNCHANGED <<storeError, jobs, file, faults>>
          ELSE Persist(restored)
  /\ UNCHANGED <<due, lane, cleaning, proxy, frigate, crashes>>

------------------------------------------------------------------------------
Init ==
  /\ up = TRUE /\ storeError = FALSE
  /\ jobs \in [Events -> {NewJob(NoRescue), NewJob(Measured(0))}]
  /\ file = jobs
  /\ due = {} /\ lane = Rest /\ cleaning = None
  /\ inferences = {} /\ onGpu = {} /\ enlarged = [e \in Events |-> 0]
  /\ tickets = 0 /\ handed = {} /\ open = {}
  /\ faults = 0 /\ crashes = 0

LaneStep ==
  \/ Wake \/ Stop
  \/ \E e \in Events :
       \/ Verify(e) \/ Verified(e) \/ Check(e) \/ Settle(e)
       \/ Handoff(e) \/ Withdraw(e) \/ Regenerate(e) \/ Regenerated(e)

CleanupStep == Cleaned \/ \E e \in Events : Clean(e)

InferenceStep ==
  \E i \in inferences :
    \/ Start(i) \/ Forward(i) \/ Reserve(i) \/ SendEnlarged(i)
    \/ Drop(i) \/ Answer(i) \/ Break(i)

FrigateStep == \E e \in Events : Claim(e) \/ Report(e)

Request ==
  \/ Acknowledge
  \/ \E e \in Events : Discover(e) \/ RetryJob(e) \/ RecheckJob(e)

Next ==
  \/ LaneStep \/ CleanupStep \/ InferenceStep \/ FrigateStep \/ Request
  \/ \E e \in Events : TimePasses(e)
  \/ \E id \in onGpu : GpuEnds(id)
  \/ Crash \/ Restart

Spec == Init /\ [][Next]_vars

------------------------------------------------------------------------------
Job ==
  [state : Active \cup {"completed", "skipped"},
   attempt : Attempt \cup {None},
   rescue : [state : {"none", "measured", "used"}, failed : 0..MaxTickets]]

(* Every variable has its type; what the lane and the cleanup hold are     *)
(* two different jobs.                                                     *)
TypeOK ==
  /\ {up, storeError} \subseteq BOOLEAN
  /\ {jobs, file} \subseteq [Events -> Job]
  /\ due \subseteq Events /\ open \subseteq Events
  /\ lane.at \in {"idle", "verify", "read", "saved", "put"}
  /\ lane.event \in Events \cup {None} /\ lane.todo \subseteq Events
  /\ cleaning \in Events \cup {None} /\ (cleaning # None => cleaning # lane.event)
  /\ inferences \subseteq [event : Events, ticket : 1..MaxTickets, n : 1..MaxRequests,
                           at : {"queued", "preflight", "reserved", "sent"}]
  /\ onGpu \subseteq (1..MaxTickets) \X (1..MaxRequests)
  /\ enlarged \in [Events -> Nat]
  /\ tickets \in 0..MaxTickets /\ handed \subseteq 1..tickets
  /\ faults \in 0..MaxFaults /\ crashes \in 0..MaxCrashes

(* restore() accepts what any crash leaves behind: the process never       *)
(* writes a state that its next start refuses as invalid.                  *)
SavedRestorable == Valid(file)

(* One inference at a time, across crashes and lost connections: no        *)
(* correlated inference is sent while another one may be on the GPU.       *)
OneOnGpu == Cardinality(onGpu) <= 1

(* "Exactly one enlarged dispatch is reserved durably per retained job.    *)
(* Restart, retry controls and rechecking a retained skipped record do not *)
(* reset it." Only an item that a scan finds again is a new job.           *)
RescueOnce == \A e \in Events : enlarged[e] <= 1

(* A crash or a lost answer after a handoff never repeats it: no job is    *)
(* handed to Frigate while nothing has resolved its last handoff.          *)
NeverRepeated ==
  [][\A e \in Events : Regenerate(e) => e \notin open]_vars

(* Nothing is waited for in vain: an inference that is recorded as queued  *)
(* or running is one the proxy still has; after a crash it is uncertain.   *)
NoOrphan ==
  up /\ ~storeError =>
    \A e \in Events : jobs[e].attempt # None =>
      LET a == jobs[e].attempt IN
      \A n \in DOMAIN a.requests :
        a.requests[n].state \in {"queued", "running"} =>
          \E i \in inferences :
            /\ Id(i) = <<a.ticket, n>>
            /\ i.at = "queued" <=> a.requests[n].state = "queued"
==============================================================================
