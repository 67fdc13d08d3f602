------------------------------- MODULE Dispatch -------------------------------
(***************************************************************************)
(* Who talks to Ollama, and when: the dispatch loop of src/src/proxy.js    *)
(* with the operation gate, the recovery latch and the health probe of     *)
(* src/src/backend.js, model management, maintenance quiescence and the    *)
(* operator's recovery acknowledgment, composed around one Ollama server.  *)
(*                                                                         *)
(* Every await of the code is a point where the others run: a request      *)
(* being read, a probe between its snapshot and its conclusion, a job in   *)
(* each of its phases. The order in which the scheduler serves the queue   *)
(* is left open (Scheduler fixes it, and implements Admission, which is    *)
(* what this module assumes of it).                                        *)
(***************************************************************************)
EXTENDS Naturals, Sequences, FiniteSets, SequencesExt

CONSTANTS
  Requests,           \* generation requests, each of which arrives once
  Model,              \* the model each one asks for
  Background,         \* the requests that are correlated catch-up
  Managers,           \* model-management requests, each of which arrives once
  None,               \* null
  DrainDisconnects,   \* gpu_safety.drain_active_disconnects
  UnloadOnSwitch,     \* gpu_safety.unload_on_model_switch
  Guarded,            \* catch-up is checked before it is sent: memory_guard or
                      \* context_rescue is enabled
  MaxRevision         \* bound: pauses and resumes in a behaviour

Quiesce == "quiesce"        \* the maintenance task at the gate
Acknowledge == "acknowledge" \* the recovery acknowledgment at the gate

Operations == Requests \cup Managers \cup {Quiesce, Acknowledge}

KindOf ==
  [op \in Operations |->
     IF op \in Requests THEN "inference"
     ELSE IF op \in Managers THEN "management" ELSE "maintenance"]

Models == {Model[r] : r \in Requests}

ASSUME RequestsAssumption ==
  /\ Requests \cap Managers = {}
  /\ {Quiesce, Acknowledge} \cap (Requests \cup Managers) = {}
  /\ None \notin Operations \cup Models \cup {"inference", "management", "maintenance"}
  /\ Background \subseteq Requests
  /\ DOMAIN Model = Requests

ASSUME SwitchesAssumption ==
  /\ {DrainDisconnects, UnloadOnSwitch, Guarded} \subseteq BOOLEAN
  /\ MaxRevision \in Nat

VARIABLES
  gateActive, gateKind, waiters, holders,   \* the OperationGate
  arrived,        \* requests whose handler has started
  reading,        \* requests past the first checks, their body being read
  queued, active, currentModel,             \* the scheduler
  previous,       \* active.previousModel: the model to unload first, or None
  phase,          \* active.phase, "idle" without an active job
  aborted,        \* active.signal.aborted
  recovery,       \* BackendState.recoveryRequired
  reachable,      \* BackendState.reachable
  breakerOpen,    \* openUntil > now
  probe,          \* the model a probe has seen first, or "none" between probes
  maint,          \* MaintenanceState.value.state
  revision,       \* MaintenanceState.revision
  task,           \* runMaintenanceQuiescence: where it is, for which revision
  ack,            \* handleRecoveryAcknowledgment, likewise
  manager,        \* where each management request is
  loaded,         \* Ollama: models in memory
  executing       \* Ollama: inferences it works on

gate == <<gateActive, gateKind, waiters, holders>>
job == <<active, previous, phase, aborted>>
health == <<reachable, breakerOpen>>
pausing == <<maint, revision>>
ollama == <<loaded, executing>>
vars == <<gate, arrived, reading, queued, job, currentModel, recovery, health,
          probe, pausing, task, ack, manager, ollama>>

Gate == INSTANCE OperationGate

------------------------------------------------------------------------------
Paused == maint # "running"

CanDispatch == reachable /\ ~recovery /\ ~breakerOpen

ExclusivePending ==
  \/ gateKind \in {"management", "maintenance"}
  \/ \E op \in Range(waiters) : KindOf[op] # "inference"

(* requireRecovery() and failQueued(), which follow each other everywhere. *)
Latch == recovery' = TRUE /\ queued' = {}

(* recordFailure(): enough failures in the window open the breaker.        *)
RecordFailure == breakerOpen' \in {breakerOpen, TRUE} /\ UNCHANGED reachable

(* reconcile(): between two jobs the scheduler believes what it is told.   *)
Reconcile(m) == currentModel' = IF active = None THEN m ELSE currentModel

------------------------------------------------------------------------------
(* Requests: handleGeneration() *)

(* The checks made before the body is read.                                *)
Arrive(r) ==
  /\ r \notin arrived /\ ~Paused /\ ~recovery
  /\ arrived' = arrived \cup {r}
  /\ reading' = reading \cup {r}
  /\ UNCHANGED <<gate, queued, job, currentModel, recovery, health, probe, pausing,
                 task, ack, manager, ollama>>

(* The outcome of a catch-up request that never reached Ollama could not   *)
(* be saved: finishCatchupInference() fails closed.                        *)
CatchupUnsaved(r) == r \in Background /\ Latch

(* The body has been read. enqueue() asks the scheduler, not the latch.    *)
Enqueue(r) ==
  /\ r \in reading
  /\ reading' = reading \ {r}
  /\ \/ ~Paused /\ queued' = queued \cup {r} /\ UNCHANGED recovery
     \/ UNCHANGED <<queued, recovery>>        \* an invalid body, or refused
     \/ CatchupUnsaved(r)
  /\ UNCHANGED <<gate, arrived, job, currentModel, health, probe, pausing, task,
                 ack, manager, ollama>>

(* A queued request is dropped, expires or loses its caller.               *)
Withdraw(r) ==
  /\ r \in queued
  /\ \/ queued' = queued \ {r} /\ UNCHANGED recovery
     \/ CatchupUnsaved(r)
  /\ UNCHANGED <<gate, arrived, reading, job, currentModel, health, probe, pausing,
                 task, ack, manager, ollama>>

(* The caller of the active request disconnects. When active work is to be *)
(* drained, nothing happens upstream.                                      *)
Disconnect ==
  /\ active # None /\ ~DrainDisconnects
  /\ aborted' = TRUE
  /\ UNCHANGED <<gate, arrived, reading, queued, active, previous, phase,
                 currentModel, recovery, health, probe, pausing, task, ack, manager,
                 ollama>>

------------------------------------------------------------------------------
(* The dispatch loop *)

(* take() and gate.acquire(), with no await between them.                  *)
Take(r) ==
  /\ active = None /\ CanDispatch /\ ~ExclusivePending /\ ~Paused
  /\ r \in queued /\ queued' = queued \ {r}
  /\ active' = r /\ phase' = "waiting_for_gate"
  /\ previous' = IF currentModel \notin {None, Model[r]} THEN currentModel ELSE None
  /\ currentModel' = Model[r]
  /\ Gate!Acquire(r)
  /\ UNCHANGED <<arrived, reading, aborted, recovery, health, probe, pausing, task,
                 ack, manager, ollama>>

Serving(p) == active # None /\ phase = p

(* Faulty: the phase is kept. *)
EndServiceInPhase(latch) ==
  /\ Gate!Release(active)
  /\ active' = None /\ previous' = None /\ aborted' = FALSE
  /\ UNCHANGED phase
  /\ \/ (IF latch THEN Latch ELSE UNCHANGED <<recovery, queued>>)
     \/ CatchupUnsaved(active)
  /\ UNCHANGED <<arrived, reading, currentModel, probe, pausing, task, ack, manager>>

(* The finally block: the gate opens, the job completes, and a catch-up    *)
(* job's outcome is saved, or latches recovery. `latch`: the loop itself   *)
(* required recovery or found it required.                                 *)
EndService(latch) ==
  /\ Gate!Release(active)
  /\ active' = None /\ previous' = None /\ phase' = "idle" /\ aborted' = FALSE
  /\ \/ (IF latch THEN Latch ELSE UNCHANGED <<recovery, queued>>)
     \/ CatchupUnsaved(active)
  /\ UNCHANGED <<arrived, reading, currentModel, probe, pausing, task, ack, manager>>

(* The loop goes on, and nothing but the job's phase changes.              *)
GoTo(p) ==
  /\ phase' = p
  /\ UNCHANGED <<gate, arrived, reading, queued, active, previous, aborted,
                 currentModel, recovery, health, probe, pausing, task, ack, manager,
                 ollama>>

(* acquire() has resolved and the backend admits inference. A model to     *)
(* give up is unloaded first.                                              *)
Granted ==
  /\ Serving("waiting_for_gate") /\ active \in holders
  /\ ~aborted /\ CanDispatch
  /\ GoTo(IF previous # None /\ UnloadOnSwitch THEN "unloading" ELSE "preflight")

(* inferenceStarted() refuses: the attempt is gone or cannot be saved.     *)
CatchupRefused ==
  /\ Serving("waiting_for_gate") /\ active \in holders
  /\ ~aborted /\ CanDispatch /\ active \in Background
  /\ RecordFailure
  /\ EndService(FALSE)
  /\ UNCHANGED ollama

(* The signal aborts before anything was sent.                             *)
AbortedEarly ==
  /\ phase \in {"waiting_for_gate", "unloading"} /\ active \in holders /\ aborted
  /\ EndService(FALSE)
  /\ UNCHANGED <<health, ollama>>

(* /api/ps no longer lists the model that was to go.                       *)
UnloadConfirmed ==
  /\ Serving("unloading") /\ ~aborted /\ previous \notin loaded
  /\ GoTo("preflight")

(* Faulty: no deadline for the unload.                                     *)
UnloadNeverFails == UnloadConfirmed

(* Ollama refuses, or lists the model beyond the deadline.                 *)
UnloadFails ==
  /\ Serving("unloading") /\ ~aborted
  /\ EndService(TRUE)
  /\ UNCHANGED <<health, ollama>>

(* prepareCatchupMemory() and prepareContextRescue(): the host lacks the   *)
(* memory, or admission has changed while it was asked.                    *)
GuardBlocks ==
  /\ Serving("preflight") /\ active \in Background /\ Guarded
  /\ EndService(FALSE)
  /\ UNCHANGED <<health, ollama>>

GuardPasses ==
  active \in Background /\ Guarded => ~aborted /\ ~Paused /\ CanDispatch

(* The request goes out. Ollama may not get it.                            *)
Send ==
  /\ Serving("preflight") /\ GuardPasses
  /\ phase' = "connecting"
  /\ \/ /\ ~aborted
        /\ executing' = executing \cup {active}
     \/ UNCHANGED executing
  /\ UNCHANGED <<gate, arrived, reading, queued, active, previous, aborted,
                 currentModel, recovery, health, probe, pausing, task, ack, manager,
                 loaded>>

(* Faulty: the gate opens as soon as response headers arrive.              *)
RespondsAndReleases ==
  /\ Serving("connecting") /\ active \in executing /\ ~aborted
  /\ phase' = "running"
  /\ Gate!Release(active)
  /\ UNCHANGED <<arrived, reading, queued, active, previous, aborted, currentModel,
                 recovery, health, probe, pausing, task, ack, manager, ollama>>

(* Response headers; the caller's handler streams the body.                *)
Responds ==
  /\ Serving("connecting") /\ active \in executing /\ ~aborted
  /\ GoTo("running")

(* Faulty: a failed connection does not latch recovery.                    *)
ConnectionFailsQuietly ==
  /\ Serving("connecting")
  /\ RecordFailure
  /\ EndService(FALSE)
  /\ UNCHANGED ollama

(* No response: refused, reset, timed out or aborted. Ollama may go on.    *)
ConnectionFails ==
  /\ Serving("connecting")
  /\ RecordFailure
  /\ EndService(TRUE)
  /\ UNCHANGED ollama

(* Faulty: an incomplete response does not latch recovery.                 *)
StreamBreaksQuietly ==
  /\ Serving("running")
  /\ RecordFailure
  /\ EndService(recovery)
  /\ UNCHANGED ollama

(* The response ends early. Ollama may go on.                              *)
StreamBreaks ==
  /\ Serving("running")
  /\ RecordFailure
  /\ EndService(TRUE)
  /\ UNCHANGED ollama

(* A complete response: of the inference, of an error (recorded as a       *)
(* failure), or of a GPU memory fault.                                     *)
ResponseEnds ==
  /\ Serving("running") /\ ~aborted
  /\ executing' = executing \ {active}
  /\ UNCHANGED loaded
  /\ \/ EndService(recovery) /\ UNCHANGED health
     \/ EndService(recovery) /\ RecordFailure
     \/ EndService(TRUE) /\ UNCHANGED health

------------------------------------------------------------------------------
(* Ollama (external) *)

InUse(m) == \E r \in executing : Model[r] = m

(* A model is listed once it is loaded, which takes a while: an empty list *)
(* does not prove that Ollama is idle.                                     *)
Load(m) ==
  /\ m \notin loaded /\ InUse(m)
  /\ loaded' = loaded \cup {m}
  /\ UNCHANGED <<gate, arrived, reading, queued, job, currentModel, recovery, health,
                 probe, pausing, task, ack, manager, executing>>

(* A model leaves memory: keep_alive ran out, or it was told to go.        *)
Evict(m) ==
  /\ m \in loaded /\ ~InUse(m)
  /\ loaded' = loaded \ {m}
  /\ UNCHANGED <<gate, arrived, reading, queued, job, currentModel, recovery, health,
                 probe, pausing, task, ack, manager, executing>>

(* An inference nobody is connected to any more ends.                      *)
AbandonedEnds(r) ==
  /\ r \in executing /\ r # active
  /\ executing' = executing \ {r}
  /\ UNCHANGED <<gate, arrived, reading, queued, job, currentModel, recovery, health,
                 probe, pausing, task, ack, manager, loaded>>

BreakerLapses ==
  /\ breakerOpen /\ breakerOpen' = FALSE
  /\ UNCHANGED <<gate, arrived, reading, queued, job, currentModel, recovery,
                 reachable, probe, pausing, task, ack, manager, ollama>>
------------------------------------------------------------------------------
(* Maintenance: kickMaintenanceQuiescence(), runMaintenanceQuiescence()    *)

Idle == [at |-> "none", revision |-> 0, models |-> {}]

Kicked == [at |-> "marking", revision |-> revision', models |-> {}]

(* A pause starts the task unless one is at work, perhaps for an older one.*)
Kick == task' = IF task.at = "none" THEN Kicked ELSE task

(* begin() has persisted the pause: admission closes, the queue is failed. *)
Pause ==
  /\ revision < MaxRevision
  /\ maint' = "pausing" /\ revision' = revision + 1
  /\ queued' = {}
  /\ Kick
  /\ UNCHANGED <<gate, arrived, reading, job, currentModel, recovery, health, probe,
                 ack, manager, ollama>>

Resume ==
  /\ Paused /\ revision < MaxRevision
  /\ maint' = "running" /\ revision' = revision + 1
  /\ UNCHANGED <<gate, arrived, reading, queued, job, currentModel, recovery, health,
                 probe, task, ack, manager, ollama>>

(* Faulty: only a failed release is tried again.                           *)
RetryErrors ==
  /\ maint = "error" /\ task.at = "none"
  /\ task' = [at |-> "marking", revision |-> revision, models |-> {}]
  /\ UNCHANGED <<gate, arrived, reading, queued, job, currentModel, recovery, health,
                 probe, pausing, ack, manager, ollama>>

(* The retry timer, and every change of the backend's state.               *)
Retry ==
  /\ Paused /\ maint # "paused" /\ task.at = "none"
  /\ task' = [at |-> "marking", revision |-> revision, models |-> {}]
  /\ UNCHANGED <<gate, arrived, reading, queued, job, currentModel, recovery, health,
                 probe, pausing, ack, manager, ollama>>

(* The pause was replaced or ended: its signal is aborted.                 *)
Stale == ~Paused \/ task.revision # revision

TaskKeeps ==
  UNCHANGED <<arrived, reading, queued, job, recovery, health, probe, revision, ack,
              manager, ollama>>

(* markReleasing() makes a retried or re-checked pause "pausing" again.    *)
Mark ==
  /\ task.at = "marking"
  /\ IF Stale THEN task' = Idle /\ UNCHANGED maint
     ELSE task' = [task EXCEPT !.at = "draining"] /\ maint' = "pausing"
  /\ UNCHANGED <<gate, currentModel>> /\ TaskKeeps

(* The active request is drained first; then the gate is asked for.        *)
Drained ==
  /\ task.at = "draining"
  /\ \/ Stale /\ task' = Idle /\ UNCHANGED gate
     \/ /\ ~Stale /\ active = None
        /\ task' = [task EXCEPT !.at = "acquiring"]
        /\ Gate!Acquire(Quiesce)
  /\ UNCHANGED <<maint, currentModel>> /\ TaskKeeps

LeaveGate ==
  IF Quiesce \in holders THEN Gate!Release(Quiesce) ELSE Gate!Abandon(Quiesce)

(* The task gives up because its pause is over, wherever it awaits.        *)
GiveUp ==
  /\ task.at \in {"acquiring", "listing", "unloading", "confirming", "saving"}
  /\ Stale
  /\ task' = Idle
  /\ LeaveGate
  /\ UNCHANGED <<maint, currentModel>> /\ TaskKeeps

Working(place) == task.at = place /\ ~Stale /\ Quiesce \in holders

GateGranted ==
  /\ Working("acquiring")
  /\ task' = [task EXCEPT !.at = "listing"]
  /\ UNCHANGED <<gate, maint, currentModel>> /\ TaskKeeps

ListModels ==
  /\ Working("listing")
  /\ task' = [task EXCEPT !.at = "unloading", !.models = loaded]
  /\ UNCHANGED <<gate, maint, currentModel>> /\ TaskKeeps

UnloadNext ==
  /\ Working("unloading")
  /\ \/ \E m \in task.models \ loaded :
          task' = [task EXCEPT !.models = @ \ {m}]
     \/ task.models = {} /\ task' = [task EXCEPT !.at = "confirming"]
  /\ UNCHANGED <<gate, maint, currentModel>> /\ TaskKeeps

ConfirmEmpty ==
  /\ Working("confirming") /\ loaded = {}
  /\ Reconcile(None)
  /\ task' = [task EXCEPT !.at = "saving"]
  /\ UNCHANGED <<gate, maint>> /\ TaskKeeps

(* markReleased(): the pause is complete, the GPU is free.                 *)
MarkReleased ==
  /\ Working("saving")
  /\ maint' = "paused" /\ task' = Idle
  /\ LeaveGate
  /\ UNCHANGED currentModel /\ TaskKeeps

(* Faulty: an error counts as a release.                                   *)
QuiesceFailsUnnoticed ==
  /\ \E place \in {"listing", "unloading", "confirming", "saving"} : Working(place)
  /\ maint' = "paused" /\ task' = Idle
  /\ LeaveGate
  /\ UNCHANGED currentModel /\ TaskKeeps

(* Ollama fails, still lists a model or the state cannot be saved.         *)
QuiesceFails ==
  /\ \E place \in {"listing", "unloading", "confirming", "saving"} : Working(place)
  /\ maint' = "error" /\ task' = Idle
  /\ LeaveGate
  /\ UNCHANGED currentModel /\ TaskKeeps

------------------------------------------------------------------------------
(* The health probe *)

(* /api/ps answers: its first model, if any, is what will be concluded.    *)
ProbeSees ==
  /\ probe = "none"
  /\ probe' \in (IF loaded = {} THEN {None} ELSE loaded)
  /\ UNCHANGED <<gate, arrived, reading, queued, job, currentModel, recovery, health,
                 pausing, task, ack, manager, ollama>>

(* The answer arrives: the backend is reachable and the scheduler is told  *)
(* which model is loaded. A finished pause is checked again when a model   *)
(* is listed.                                                              *)
ProbeConcludes ==
  /\ probe # "none"
  /\ probe' = "none" /\ reachable' = TRUE
  /\ Reconcile(probe)
  /\ IF Paused /\ task.at = "none" /\ (maint # "paused" \/ probe # None)
     THEN task' = [at |-> "marking", revision |-> revision, models |-> {}]
     ELSE UNCHANGED task
  /\ UNCHANGED <<gate, arrived, reading, queued, job, recovery, breakerOpen, pausing,
                 ack, manager, ollama>>

ProbeFails ==
  /\ reachable' = FALSE /\ probe' = "none"
  /\ breakerOpen' \in {breakerOpen, TRUE}
  /\ UNCHANGED <<gate, arrived, reading, queued, job, currentModel, recovery, pausing,
                 task, ack, manager, ollama>>

------------------------------------------------------------------------------
(* Model management: handleManagement() and handlePassthrough() *)

ManagerKeeps ==
  UNCHANGED <<arrived, reading, queued, job, currentModel, recovery, health, probe,
              pausing, task, ack, ollama>>

ManagerMoves(g, place) == manager' = [manager EXCEPT ![g] = place]

ManagerArrives(g) ==
  /\ manager[g] = "new" /\ ~Paused /\ ~recovery
  /\ ManagerMoves(g, "waiting") /\ Gate!Acquire(g)
  /\ ManagerKeeps

ManagerLeaves(g) ==
  /\ manager[g] = "waiting"
  /\ ManagerMoves(g, "done") /\ Gate!Abandon(g)
  /\ ManagerKeeps

(* Faulty: pause and recovery are not looked at again.                     *)
ManagerStartsAnyway(g) ==
  /\ manager[g] = "waiting" /\ g \in holders
  /\ ManagerMoves(g, "reading") /\ UNCHANGED gate
  /\ ManagerKeeps

(* With the gate in hand the handler looks again, and reads the body.      *)
ManagerStarts(g) ==
  /\ manager[g] = "waiting" /\ g \in holders
  /\ IF Paused \/ recovery
     THEN ManagerMoves(g, "done") /\ Gate!Release(g)
     ELSE ManagerMoves(g, "reading") /\ UNCHANGED gate
  /\ ManagerKeeps

ManagerSends(g) ==
  /\ manager[g] = "reading"
  /\ ManagerMoves(g, "sent") /\ UNCHANGED gate
  /\ ManagerKeeps

(* The operation at Ollama is over, or reading the body failed.            *)
ManagerEnds(g) ==
  /\ manager[g] \in {"reading", "sent"}
  /\ ManagerMoves(g, "done") /\ Gate!Release(g)
  /\ ManagerKeeps

------------------------------------------------------------------------------
(* The operator acknowledges recovery: handleRecoveryAcknowledgment() *)

AckKeeps ==
  UNCHANGED <<arrived, reading, queued, job, reachable, probe, pausing, task, manager,
              ollama>>

(* The operator states that the GPU is idle (confirm_gpu_recovered): that  *)
(* this is so is assumed, when the request is accepted and not later.      *)
AckStarts ==
  /\ executing = {}
  /\ ack.at = "none" /\ Paused /\ active = None /\ ~gateActive
  /\ ack' = [ack EXCEPT !.at = "asking", !.revision = revision]
  /\ Gate!Acquire(Acknowledge)
  /\ UNCHANGED <<currentModel, recovery, breakerOpen>> /\ AckKeeps

AckAnswered ==
  /\ ack.at = "asking" /\ Acknowledge \in holders
  /\ ack' = [ack EXCEPT !.at = "deciding", !.models = loaded]
  /\ UNCHANGED <<gate, currentModel, recovery, breakerOpen>> /\ AckKeeps

(* Faulty: the pause is not looked at again.                               *)
AckClearsAnyway ==
  /\ ack.at = "deciding" /\ ack.models = {}
  /\ recovery' = FALSE /\ breakerOpen' = FALSE
  /\ Reconcile(None)
  /\ ack' = Idle /\ Gate!Release(Acknowledge)
  /\ AckKeeps

(* Nothing is loaded and the pause is still the same: the latch opens.     *)
AckClears ==
  /\ ack.at = "deciding" /\ ack.models = {}
  /\ Paused /\ ack.revision = revision
  /\ recovery' = FALSE /\ breakerOpen' = FALSE
  /\ Reconcile(None)
  /\ ack' = Idle /\ Gate!Release(Acknowledge)
  /\ AckKeeps

(* Refused, or the request to Ollama or saving the cleared latch failed.   *)
AckFails ==
  /\ ack.at \in {"asking", "deciding"} /\ Acknowledge \in holders
  /\ ack' = Idle /\ Gate!Release(Acknowledge)
  /\ UNCHANGED <<currentModel, recovery, breakerOpen>> /\ AckKeeps

------------------------------------------------------------------------------
Init ==
  /\ Gate!Init
  /\ arrived = {} /\ reading = {} /\ queued = {}
  /\ active = None /\ currentModel = None /\ previous = None
  /\ phase = "idle" /\ aborted = FALSE
  /\ recovery = FALSE /\ reachable = FALSE /\ breakerOpen = FALSE
  /\ probe = "none"
  /\ maint = "running" /\ revision = 0
  /\ task = Idle /\ ack = Idle
  /\ manager = [g \in Managers |-> "new"]
  /\ loaded = {} /\ executing = {}

Handler ==
  \/ \E r \in Requests : Arrive(r) \/ Enqueue(r) \/ Withdraw(r)
  \/ Disconnect

(* What the loop does with an active job, once it can go on.               *)
Serve ==
  \/ Granted \/ CatchupRefused \/ AbortedEarly
  \/ UnloadConfirmed \/ UnloadFails
  \/ GuardBlocks \/ Send \/ Responds
  \/ ConnectionFails \/ StreamBreaks \/ ResponseEnds

Loop == Serve \/ \E r \in Requests : Take(r)

(* What the maintenance task does, once it can go on.                      *)
Quiescence ==
  \/ Mark \/ Drained \/ GiveUp \/ GateGranted \/ ListModels \/ UnloadNext
  \/ ConfirmEmpty \/ MarkReleased \/ QuiesceFails

Maintain == Pause \/ Resume \/ Retry \/ Quiescence

Probe == ProbeSees \/ ProbeConcludes \/ ProbeFails \/ BreakerLapses

Manage(g) ==
  \/ ManagerArrives(g) \/ ManagerLeaves(g) \/ ManagerStarts(g)
  \/ ManagerSends(g) \/ ManagerEnds(g)

Recover == AckStarts \/ AckAnswered \/ AckClears \/ AckFails

Ollama ==
  \/ \E m \in Models : Load(m) \/ Evict(m)
  \/ \E r \in Requests : AbandonedEnds(r)

Next ==
  \/ Handler \/ Loop \/ Maintain \/ Probe \/ Recover \/ Ollama
  \/ \E g \in Managers : Manage(g)

Spec == Init /\ [][Next]_vars

(* Promises settle: every request the program itself sends to Ollama has a *)
(* deadline, and the retry timer fires. Nothing is assumed of callers, who *)
(* may take forever to send a body, of probes, or of Ollama's memory.      *)
FairSpec ==
  /\ Spec
  /\ WF_vars(Serve) /\ WF_vars(Quiescence) /\ WF_vars(Retry)
  /\ WF_vars(AckAnswered \/ AckClears \/ AckFails)
  /\ \A g \in Managers :
       WF_vars(ManagerStarts(g)) /\ WF_vars(manager[g] = "sent" /\ ManagerEnds(g))

------------------------------------------------------------------------------
(* Properties *)

Places == {"none", "marking", "draining", "acquiring", "listing", "unloading",
           "confirming", "saving", "asking", "deciding"}

TypeOK ==
  /\ Gate!TypeOK
  /\ reading \subseteq arrived /\ arrived \subseteq Requests
  /\ queued \subseteq arrived \ reading
  /\ active \in Requests \cup {None}
  /\ currentModel \in Models \cup {None} /\ previous \in Models \cup {None}
  /\ phase \in {"idle", "waiting_for_gate", "unloading", "preflight", "connecting",
                "running"}
  /\ phase = "idle" <=> active = None
  /\ {aborted, recovery, reachable, breakerOpen} \subseteq BOOLEAN
  /\ probe \in Models \cup {None, "none"}
  /\ maint \in {"running", "pausing", "paused", "error"} /\ revision \in 0..MaxRevision
  /\ {task, ack} \subseteq [at : Places, revision : 0..MaxRevision, models : SUBSET Models]
  /\ manager \in [Managers -> {"new", "waiting", "reading", "sent", "done"}]
  /\ loaded \subseteq Models /\ executing \subseteq Requests

(* Ollama never works on two inferences of the proxy at once, counting     *)
(* those whose connection was lost and that may still run (README: "at     *)
(* most one inference at a time").                                         *)
OneInference == \A a, b \in executing : a = b

(* Who is using Ollama, or is about to.                                    *)
Users ==
  {r \in {active} : phase \in {"unloading", "preflight", "connecting", "running"}}
  \cup {g \in Managers : manager[g] \in {"reading", "sent"}}
  \cup {q \in {Quiesce} : task.at \in {"listing", "unloading", "confirming", "saving"}}
  \cup {a \in {Acknowledge} : ack.at \in {"asking", "deciding"}}

(* Inference, model management, the release of the GPU and the check of a  *)
(* recovery exclude one another.                                           *)
OneAtATime == \A a, b \in Users : a = b

(* Model management never runs beside an inference, not even beside one    *)
(* that Ollama may still work on after its connection broke.               *)
ManagementAlone ==
  (\E g \in Managers : manager[g] = "sent") => executing = {}

(* A pause that says the GPU is free tells the truth, and it stays true,   *)
(* unless recovery is required: then Ollama may still be at work.          *)
ReleasedMeansEmpty ==
  maint = "paused" /\ ~recovery => loaded = {} /\ executing = {}

(* The latch is only opened in a pause, with nothing loaded and nothing    *)
(* running: not on what was seen before the pause was replaced or ended.   *)
LatchOpensSafely ==
  [][recovery /\ ~recovery' => Paused /\ loaded = {} /\ executing = {}]_vars

(* While the backend admits inference, a job in service comes to an end,   *)
(* whatever its caller, Ollama and the maintenance task do.                *)
ServiceEnds ==
  <>[]CanDispatch => \A r \in Requests : active = r ~> active # r

(* A pause is settled, one way or the other, unless a job that waits for   *)
(* the backend or a caller that does not send its body keeps the gate.     *)
PauseSettles ==
  \/ <>[](phase = "waiting_for_gate")
  \/ <>[](\E g \in Managers : manager[g] = "reading")
  \/ maint = "pausing" ~> maint # "pausing"

(* A model is unloaded before a request for another one is sent (README,   *)
(* "Lease versus Ollama keep-alive").                                      *)
UnloadsBeforeSwitch ==
  [][executing' # executing /\ executing \subseteq executing'
       => loaded \subseteq {Model[active]}]_vars

(* With recovery required, no request waits: the queue was failed and new  *)
(* requests are rejected (README, "Queue and failure behavior").           *)
LatchEmptiesQueue == recovery => queued = {}
==============================================================================
