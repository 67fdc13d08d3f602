---------------------------- MODULE DispatchProofs ----------------------------
(***************************************************************************)
(* Proofs about Dispatch, for any number of requests, models and           *)
(* management requests and every setting of the switches: its five safety  *)
(* invariants and what the recovery latch opens on.                        *)
(*                                                                         *)
(* No invariant of the dispatch loop is inductive alone: that Ollama works *)
(* on one inference rests on the gate, on which phases hold it, and on the *)
(* latch that is set whenever a connection is given up with work behind    *)
(* it. DispatchInv, at the end, is the conjunction; each conjunct has a    *)
(* lemma that says what keeps it, one step for each kind of actor.         *)
(***************************************************************************)
EXTENDS Dispatch, SequenceTheorems, TLAPS

(* The gate of Dispatch, with what is proved about the gate by itself.     *)
GP == INSTANCE OperationGateProofs

------------------------------------------------------------------------------
(* The gate inside Dispatch *)

(* The callers of the gate meet the assumptions its proofs rest on.        *)
LEMMA GateConstants ==
  /\ KindOf \in [Operations -> Gate!Kinds]
  /\ None \notin Gate!Kinds /\ None \notin Operations
  BY RequestsAssumption DEF KindOf, Operations, Gate!Kinds

(* What the gate keeps, whoever calls it.                                  *)
GateOK == Gate!TypeOK /\ Gate!OneHolder /\ Gate!NoneForgotten

(* A step of the gate keeps it, as proved of the gate by itself.           *)
LEMMA GateKept ==
  ASSUME GateOK, [Gate!Next]_gate
  PROVE  GateOK'
  <1>1. [GP!Next]_(GP!vars)
    BY DEF Gate!Next, GP!Next, gate, GP!vars, Gate!vars, Gate!Acquire,
           GP!Acquire, Gate!Abandon, GP!Abandon, Gate!Release, GP!Release,
           Gate!Serve, GP!Serve, Gate!Waiting, GP!Waiting, Gate!IsNext,
           GP!IsNext, Gate!Exclusive, GP!Exclusive, Gate!Range, GP!Range,
           Gate!RemoveAt, GP!RemoveAt
  <1>2. GP!GateInv /\ GP!NoneForgotten
    BY DEF GP!GateInv, GP!TypeOK, GP!OneHolder, GP!NoneForgotten, GateOK,
           Gate!TypeOK, Gate!OneHolder, Gate!NoneForgotten, GP!Kinds,
           Gate!Kinds
  <1>3. GP!GateInv'
    BY <1>1, <1>2, GP!GateStep, GateConstants DEF Gate!Kinds, GP!Kinds
  <1>4. GP!NoneForgotten'
    BY <1>1, <1>2, GP!NoneForgottenStep, GateConstants DEF Gate!Kinds, GP!Kinds
  <1>5. QED
    BY <1>3, <1>4
      DEF GP!GateInv, GP!TypeOK, GP!OneHolder, GP!NoneForgotten, GateOK,
          Gate!TypeOK, Gate!OneHolder, Gate!NoneForgotten, GP!Kinds,
          Gate!Kinds

(* No step disturbs a type, given that the gate's step does not.           *)
LEMMA TypeStep ==
  ASSUME TypeOK, [Next]_vars, Gate!TypeOK'
  PROVE  TypeOK'
  <1> USE RequestsAssumption, SwitchesAssumption
      DEF TypeOK, Places, Models, gate, job, health, pausing, ollama
  <1>1. ASSUME Handler PROVE TypeOK'
    <2>1. ASSUME NEW r \in Requests, Arrive(r) PROVE TypeOK'
      BY <2>1 DEF Arrive
    <2>2. ASSUME NEW r \in Requests, Enqueue(r) PROVE TypeOK'
      BY <2>2 DEF Enqueue, CatchupUnsaved, Latch
    <2>3. ASSUME NEW r \in Requests, Withdraw(r) PROVE TypeOK'
      BY <2>3 DEF Withdraw, CatchupUnsaved, Latch
    <2>4. CASE Disconnect
      BY <2>4 DEF Disconnect
    <2>5. QED
      BY <1>1, <2>1, <2>2, <2>3, <2>4
        DEF Handler
  <1>2. ASSUME Loop PROVE TypeOK'
    <2>1. CASE Granted \/ CatchupRefused \/ AbortedEarly \/ UnloadConfirmed
             \/ UnloadFails \/ GuardBlocks \/ Send \/ Responds
             \/ ConnectionFails \/ StreamBreaks \/ ResponseEnds
      BY <2>1
        DEF Granted, GoTo, Serving, CatchupRefused, EndService, RecordFailure,
            CatchupUnsaved, Latch, AbortedEarly, UnloadConfirmed, UnloadFails,
            GuardBlocks, Send, Responds, ConnectionFails, StreamBreaks,
            ResponseEnds
    <2>2. ASSUME NEW r \in Requests, Take(r) PROVE TypeOK'
      <3>1. r # None /\ Model[r] \in Models
        BY DEF Operations
      <3>2. active' \in Requests /\ phase' = "waiting_for_gate" /\ queued' = queued \ {r}
        BY <2>2 DEF Take
      <3>3. currentModel' \in Models /\ previous' \in Models \cup {None}
        BY <2>2, <3>1 DEF Take
      <3>4. QED
        BY <2>2, <3>1, <3>2, <3>3 DEF Take
    <2>3. QED
      BY <1>2, <2>1, <2>2
        DEF Loop, Serve
  <1>3. ASSUME Maintain PROVE TypeOK'
    <2>1. CASE Pause
      BY <2>1 DEF Pause, Kick, Kicked
    <2>2. CASE Resume
      BY <2>2 DEF Resume
    <2>3. CASE Retry
      BY <2>3 DEF Retry
    <2>4. CASE Mark
      BY <2>4 DEF Mark, TaskKeeps, Idle
    <2>5. CASE Drained
      BY <2>5 DEF Drained, TaskKeeps, Idle
    <2>6. CASE GiveUp
      BY <2>6 DEF GiveUp, TaskKeeps, Idle
    <2>7. CASE GateGranted
      BY <2>7 DEF GateGranted, TaskKeeps, Working
    <2>8. CASE ListModels
      BY <2>8 DEF ListModels, TaskKeeps, Working
    <2>9. CASE UnloadNext
      BY <2>9 DEF UnloadNext, TaskKeeps, Working
    <2>10. CASE ConfirmEmpty
      BY <2>10 DEF ConfirmEmpty, TaskKeeps, Working, Reconcile
    <2>11. CASE MarkReleased
      BY <2>11 DEF MarkReleased, TaskKeeps, Working, Idle
    <2>12. CASE QuiesceFails
      BY <2>12 DEF QuiesceFails, TaskKeeps, Working, Idle
    <2>13. QED
      BY <1>3, <2>1, <2>2, <2>3, <2>4, <2>5, <2>6, <2>7, <2>8, <2>9, <2>10, <2>11,
         <2>12
        DEF Maintain, Quiescence
  <1>4. ASSUME Probe PROVE TypeOK'
    <2>1. CASE ProbeSees
      BY <2>1 DEF ProbeSees
    <2>2. CASE ProbeConcludes
      BY <2>2 DEF ProbeConcludes, Reconcile
    <2>3. CASE ProbeFails
      BY <2>3 DEF ProbeFails
    <2>4. CASE BreakerLapses
      BY <2>4 DEF BreakerLapses
    <2>5. QED
      BY <1>4, <2>1, <2>2, <2>3, <2>4
        DEF Probe
  <1>5. ASSUME Recover PROVE TypeOK'
    <2>1. CASE AckStarts
      BY <2>1 DEF AckStarts, AckKeeps
    <2>2. CASE AckAnswered
      BY <2>2 DEF AckAnswered, AckKeeps
    <2>3. CASE AckClears
      <3>1. Idle \in [at : Places, revision : 0..MaxRevision, models : SUBSET Models]
        BY DEF Idle
      <3>2. currentModel' \in Models \cup {None}
        BY <2>3 DEF AckClears, Reconcile
      <3>3. {aborted', recovery', reachable', breakerOpen'} \subseteq BOOLEAN
        BY <2>3 DEF AckClears, AckKeeps
      <3>4. QED
        BY <2>3, <3>1, <3>2, <3>3 DEF AckClears, AckKeeps
    <2>4. CASE AckFails
      BY <2>4 DEF AckFails, AckKeeps, Idle
    <2>5. QED
      BY <1>5, <2>1, <2>2, <2>3, <2>4
        DEF Recover
  <1>6. ASSUME Ollama PROVE TypeOK'
    BY <1>6
      DEF Ollama, Load, Evict, AbandonedEnds
  <1>7. ASSUME NEW g \in Managers, Manage(g) PROVE TypeOK'
    BY <1>7
      DEF Manage, ManagerArrives, ManagerKeeps, ManagerMoves, ManagerLeaves,
          ManagerStarts, ManagerSends, ManagerEnds
  <1>8. CASE UNCHANGED vars
    BY <1>8 DEF vars
  <1>9. QED
    BY <1>1, <1>2, <1>3, <1>4, <1>5, <1>6, <1>7, <1>8 DEF Next

(* What a step of the system does at the gate is a step of the gate.       *)
LEMMA GateMoves ==
  ASSUME TypeOK, [Next]_vars
  PROVE  [Gate!Next]_gate
  <1>0. Requests \subseteq Operations /\ Managers \subseteq Operations
        /\ Quiesce \in Operations /\ Acknowledge \in Operations
        /\ active \in Requests \cup {None} /\ (phase = "idle" <=> active = None)
    BY DEF Operations, TypeOK
  <1> USE <1>0 DEF Gate!Next, LeaveGate
  <1>1. ASSUME Handler PROVE [Gate!Next]_gate
    BY <1>1
      DEF Handler, Arrive, Enqueue, CatchupUnsaved, Latch, Withdraw, Disconnect
  <1>2. ASSUME Loop PROVE [Gate!Next]_gate
    BY <1>2
      DEF Loop, Serve, Take, Granted, GoTo, Serving, CatchupRefused, EndService,
          RecordFailure, AbortedEarly, UnloadConfirmed, UnloadFails, GuardBlocks,
          Send, Responds, ConnectionFails, StreamBreaks, ResponseEnds
  <1>3. ASSUME Maintain PROVE [Gate!Next]_gate
    BY <1>3
      DEF Maintain, Quiescence, Pause, Kick, Kicked, Resume, Retry, Mark,
          TaskKeeps, Idle, Drained, GiveUp, GateGranted, Working, ListModels,
          UnloadNext, ConfirmEmpty, Reconcile, MarkReleased, QuiesceFails
  <1>4. ASSUME Probe PROVE [Gate!Next]_gate
    <2>1. CASE ProbeSees
      BY <2>1 DEF ProbeSees
    <2>2. CASE ProbeConcludes
      BY <2>2 DEF ProbeConcludes, Reconcile
    <2>3. CASE ProbeFails
      BY <2>3 DEF ProbeFails
    <2>4. CASE BreakerLapses
      BY <2>4 DEF BreakerLapses
    <2>5. QED
      BY <1>4, <2>1, <2>2, <2>3, <2>4
        DEF Probe
  <1>5. ASSUME Recover PROVE [Gate!Next]_gate
    BY <1>5
      DEF Recover, AckStarts, AckKeeps, AckAnswered, AckClears, Idle, Reconcile,
          AckFails
  <1>6. ASSUME Ollama PROVE [Gate!Next]_gate
    BY <1>6
      DEF Ollama, Load, Evict, AbandonedEnds
  <1>7. ASSUME NEW g \in Managers, Manage(g) PROVE [Gate!Next]_gate
    BY <1>7
      DEF Manage, ManagerArrives, ManagerKeeps, ManagerMoves, ManagerLeaves,
          ManagerStarts, ManagerSends, ManagerEnds
  <1>8. CASE UNCHANGED vars
    BY <1>8 DEF vars
  <1>9. QED
    BY <1>1, <1>2, <1>3, <1>4, <1>5, <1>6, <1>7, <1>8 DEF Next

(* Only a release ends a hold, and only its own.                           *)
LEMMA HoldersKept ==
  ASSUME NEW op
  PROVE  /\ Gate!Acquire(op) => holders \subseteq holders'
         /\ Gate!Abandon(op) => holders' = holders
         /\ Gate!Release(op) => holders \ {op} \subseteq holders'
  BY DEF Gate!Acquire, Gate!Abandon, Gate!Release, Gate!Serve, Gate!vars

(* Nobody waits at a free gate, so whoever comes is served.                *)
LEMMA ServedAtOnce ==
  ASSUME Gate!NoneForgotten, ~gateActive, NEW op, Gate!Acquire(op)
  PROVE  op \in holders'
  <1>1. waiters = <<>>
    BY DEF Gate!NoneForgotten
  <1>2. Append(waiters, op) = <<op>>
    BY <1>1
  <1>3. Gate!Serve(<<op>>, holders)
    BY <1>2 DEF Gate!Acquire
  <1>4. QED
    BY <1>3 DEF Gate!Serve

(* Those who use Ollama, or are about to, hold the gate.                   *)
UsersHold ==
  /\ phase \in {"unloading", "preflight", "connecting", "running"} => active \in holders
  /\ \A g \in Managers : manager[g] \in {"reading", "sent"} => g \in holders
  /\ task.at \in {"listing", "unloading", "confirming", "saving"} => Quiesce \in holders
  /\ ack.at \in {"asking", "deciding"} => Acknowledge \in holders

(* Ollama is used from between a grant and the release: every phase that   *)
(* does is entered by a grant, and left by the action that releases.       *)
LEMMA UsersStep ==
  ASSUME TypeOK, Gate!NoneForgotten, UsersHold, [Next]_vars
  PROVE  UsersHold'
  <1>0. /\ Requests \cap Managers = {} /\ None \notin Requests
        /\ {Quiesce, Acknowledge} \cap (Requests \cup Managers) = {}
        /\ Quiesce # Acknowledge
        /\ active \in Requests \cup {None} /\ (phase = "idle" <=> active = None)
        /\ manager \in [Managers -> {"new", "waiting", "reading", "sent", "done"}]
        /\ {task, ack} \subseteq [at : Places, revision : 0..MaxRevision, models : SUBSET Models]
    BY RequestsAssumption DEF TypeOK, Operations, Quiesce, Acknowledge
  <1> USE <1>0, HoldersKept DEF UsersHold, gate, job, Idle, Kicked, LeaveGate
  <1>1. ASSUME Handler PROVE UsersHold'
    BY <1>1
      DEF Handler, Arrive, Enqueue, CatchupUnsaved, Latch, Withdraw, Disconnect
  <1>2. ASSUME Loop PROVE UsersHold'
    BY <1>2
      DEF Loop, Serve, Take, Granted, GoTo, Serving, CatchupRefused, EndService,
          RecordFailure, AbortedEarly, UnloadConfirmed, UnloadFails, GuardBlocks,
          Send, Responds, ConnectionFails, StreamBreaks, ResponseEnds
  <1>3. ASSUME Maintain PROVE UsersHold'
    BY <1>3
      DEF Maintain, Quiescence, Pause, Kick, Kicked, Resume, Retry, Mark,
          TaskKeeps, Idle, Drained, GiveUp, GateGranted, Working, ListModels,
          UnloadNext, ConfirmEmpty, Reconcile, MarkReleased, QuiesceFails
  <1>4. ASSUME Probe PROVE UsersHold'
    <2>1. CASE ProbeSees
      BY <2>1 DEF ProbeSees
    <2>2. CASE ProbeConcludes
      BY <2>2 DEF ProbeConcludes, Reconcile
    <2>3. CASE ProbeFails
      BY <2>3 DEF ProbeFails
    <2>4. CASE BreakerLapses
      BY <2>4 DEF BreakerLapses
    <2>5. QED
      BY <1>4, <2>1, <2>2, <2>3, <2>4
        DEF Probe
  <1>5. ASSUME Recover PROVE UsersHold'
    BY <1>5, ServedAtOnce
      DEF Recover, AckStarts, AckKeeps, AckAnswered, AckClears, Idle, Reconcile,
          AckFails
  <1>6. ASSUME Ollama PROVE UsersHold'
    BY <1>6
      DEF Ollama, Load, Evict, AbandonedEnds
  <1>7. ASSUME NEW g \in Managers, Manage(g) PROVE UsersHold'
    BY <1>7
      DEF Manage, ManagerArrives, ManagerKeeps, ManagerMoves, ManagerLeaves,
          ManagerStarts, ManagerSends, ManagerEnds
  <1>8. CASE UNCHANGED vars
    BY <1>8 DEF vars
  <1>9. QED
    BY <1>1, <1>2, <1>3, <1>4, <1>5, <1>6, <1>7, <1>8 DEF Next

(* One holder at the gate is one user of Ollama.                           *)
LEMMA UsersExclude ==
  ASSUME TypeOK, Gate!OneHolder, UsersHold
  PROVE  OneAtATime
  BY DEF TypeOK, Gate!OneHolder, UsersHold, OneAtATime, Users

(* An inference at Ollama is the one in service, or recovery is required.  *)
LostWorkLatches ==
  /\ OneInference
  /\ phase \in {"unloading", "preflight"} => executing = {}
  /\ phase \in {"connecting", "running"} => executing \subseteq {active}
  /\ phase \in {"idle", "waiting_for_gate"} /\ executing # {} => recovery

(* Whoever else holds the gate finds no inference at Ollama.               *)
OthersFindIdle ==
  /\ \A g \in Managers : manager[g] \in {"reading", "sent"} => executing = {}
  /\ ack.at \in {"asking", "deciding"} => executing = {}
  /\ ack.at = "deciding" /\ ack.models = {} => loaded = {}

(* A pause whose release is under way has no job in service, and what the  *)
(* release found stays true.                                               *)
PauseDrains ==
  /\ task.revision <= revision
  /\ maint = "paused" => active = None
  /\ task.at \in {"acquiring", "listing", "unloading", "confirming", "saving"} /\ ~Stale
       => active = None
  /\ task.at = "saving" /\ ~recovery => loaded = {} /\ executing = {}
  /\ ReleasedMeansEmpty

(* With one holder, whoever holds the gate knows that the others do not.   *)
LEMMA HoldersDiffer ==
  ASSUME TypeOK, Gate!OneHolder, UsersHold
  PROVE  /\ phase \in {"unloading", "preflight", "connecting", "running"} =>
              /\ \A g \in Managers : manager[g] \notin {"reading", "sent"}
              /\ task.at \notin {"listing", "unloading", "confirming", "saving"}
              /\ ack.at \notin {"asking", "deciding"}
         /\ \A g \in Managers : g \in holders => phase \in {"idle", "waiting_for_gate"}
         /\ Quiesce \in holders =>
              phase \in {"idle", "waiting_for_gate"} /\ ack.at \notin {"asking", "deciding"}
  <1>1. /\ Requests \cap Managers = {} /\ None \notin Operations
        /\ {Quiesce, Acknowledge} \cap (Requests \cup Managers) = {}
        /\ Quiesce # Acknowledge
        /\ active \in Requests \cup {None}
        /\ phase \in {"idle", "waiting_for_gate", "unloading", "preflight", "connecting", "running"}
    BY RequestsAssumption DEF TypeOK, Quiesce, Acknowledge
  <1>2. \A a, b \in holders : a = b
    BY DEF Gate!OneHolder
  <1>3. holders \subseteq Operations
    BY DEF TypeOK, Gate!TypeOK
  <1>4. active \in holders => active \in Requests
    BY <1>1, <1>3
  <1>5. QED
    BY <1>1, <1>2, <1>4 DEF UsersHold

(* A connection given up with an inference behind it latches recovery, and *)
(* a job is sent on only while recovery is not required.                   *)
LEMMA LostWorkStep ==
  ASSUME TypeOK, Gate!OneHolder, UsersHold, LostWorkLatches, OthersFindIdle, [Next]_vars
  PROVE  LostWorkLatches'
  <1>0. /\ active \in Requests \cup {None} /\ (phase = "idle" <=> active = None)
        /\ phase \in {"idle", "waiting_for_gate", "unloading", "preflight", "connecting", "running"}
        /\ None \notin Requests /\ executing \subseteq Requests
    BY RequestsAssumption DEF TypeOK, Operations
  <1> USE <1>0 DEF LostWorkLatches, OneInference, job, ollama, Latch, CatchupUnsaved
  <1>1. ASSUME Handler PROVE LostWorkLatches'
    BY <1>1
      DEF Handler, Arrive, Enqueue, CatchupUnsaved, Latch, Withdraw, Disconnect
  <1>2. ASSUME Loop PROVE LostWorkLatches'
    BY <1>2
      DEF Loop, Serve, Take, Granted, GoTo, Serving, CanDispatch, CatchupRefused,
          EndService, RecordFailure, AbortedEarly, UnloadConfirmed, UnloadFails,
          GuardBlocks, Send, Responds, ConnectionFails, StreamBreaks,
          ResponseEnds
  <1>3. ASSUME Maintain PROVE LostWorkLatches'
    BY <1>3
      DEF Maintain, Quiescence, Pause, Kick, Kicked, Resume, Retry, Mark,
          TaskKeeps, Idle, Drained, GiveUp, GateGranted, Working, ListModels,
          UnloadNext, ConfirmEmpty, Reconcile, MarkReleased, QuiesceFails
  <1>4. ASSUME Probe PROVE LostWorkLatches'
    BY <1>4
      DEF Probe, ProbeSees, ProbeConcludes, Reconcile, ProbeFails, BreakerLapses
  <1>5. ASSUME Recover PROVE LostWorkLatches'
    BY <1>5
      DEF Recover, AckStarts, AckKeeps, AckAnswered, AckClears, Idle, Reconcile,
          OthersFindIdle, AckFails
  <1>6. ASSUME Ollama PROVE LostWorkLatches'
    BY <1>6
      DEF Ollama, Load, Evict, AbandonedEnds
  <1>7. ASSUME NEW g \in Managers, Manage(g) PROVE LostWorkLatches'
    BY <1>7
      DEF Manage, ManagerArrives, ManagerKeeps, ManagerMoves, ManagerLeaves,
          ManagerStarts, ManagerSends, ManagerEnds
  <1>8. CASE UNCHANGED vars
    BY <1>8 DEF vars
  <1>9. QED
    BY <1>1, <1>2, <1>3, <1>4, <1>5, <1>6, <1>7, <1>8 DEF Next

(* Management and the acknowledgment begin with no inference at Ollama;    *)
(* none starts while they hold the gate, for Send needs it.                *)
LEMMA OthersStep ==
  ASSUME TypeOK, Gate!OneHolder, UsersHold, LostWorkLatches, OthersFindIdle, [Next]_vars
  PROVE  OthersFindIdle'
  <1>0. /\ executing \subseteq Requests /\ loaded \subseteq Models
        /\ manager \in [Managers -> {"new", "waiting", "reading", "sent", "done"}]
        /\ {task, ack} \subseteq [at : Places, revision : 0..MaxRevision, models : SUBSET Models]
        /\ phase \in {"idle", "waiting_for_gate", "unloading", "preflight", "connecting", "running"}
    BY DEF TypeOK
  <1> USE <1>0 DEF OthersFindIdle, ollama, Idle
  <1>1. ASSUME Handler PROVE OthersFindIdle'
    BY <1>1
      DEF Handler, Arrive, Enqueue, CatchupUnsaved, Latch, Withdraw, Disconnect
  <1>2. ASSUME Loop PROVE OthersFindIdle'
    BY <1>2, HoldersDiffer
      DEF Loop, Serve, Take, Granted, GoTo, Serving, CatchupRefused, EndService,
          RecordFailure, AbortedEarly, UnloadConfirmed, UnloadFails, GuardBlocks,
          Send, Responds, ConnectionFails, StreamBreaks, ResponseEnds
  <1>3. ASSUME Maintain PROVE OthersFindIdle'
    BY <1>3
      DEF Maintain, Quiescence, Pause, Kick, Kicked, Resume, Retry, Mark,
          TaskKeeps, Idle, Drained, GiveUp, GateGranted, Working, ListModels,
          UnloadNext, ConfirmEmpty, Reconcile, MarkReleased, QuiesceFails
  <1>4. ASSUME Probe PROVE OthersFindIdle'
    BY <1>4
      DEF Probe, ProbeSees, ProbeConcludes, Reconcile, ProbeFails, BreakerLapses
  <1>5. ASSUME Recover PROVE OthersFindIdle'
    <2>1. CASE AckStarts
      BY <2>1 DEF AckStarts, AckKeeps
    <2>2. CASE AckAnswered
      BY <2>2 DEF AckAnswered, AckKeeps
    <2>3. CASE AckClears
      BY <2>3 DEF AckClears, AckKeeps, Idle, Reconcile
    <2>4. CASE AckFails
      BY <2>4 DEF AckFails, AckKeeps, Idle
    <2>5. QED
      BY <1>5, <2>1, <2>2, <2>3, <2>4
        DEF Recover
  <1>6. ASSUME Ollama PROVE OthersFindIdle'
    BY <1>6
      DEF Ollama, Load, InUse, Evict, AbandonedEnds
  <1>7. ASSUME NEW g \in Managers, Manage(g) PROVE OthersFindIdle'
    BY <1>7, HoldersDiffer
      DEF Manage, ManagerArrives, ManagerKeeps, ManagerMoves, ManagerLeaves,
          ManagerStarts, LostWorkLatches, ManagerSends, ManagerEnds
  <1>8. CASE UNCHANGED vars
    BY <1>8 DEF vars
  <1>9. QED
    BY <1>1, <1>2, <1>3, <1>4, <1>5, <1>6, <1>7, <1>8 DEF Next

(* No job is taken while paused, so what the task confirmed under the gate *)
(* is still so when it is saved and after.                                 *)
LEMMA PauseStep ==
  ASSUME TypeOK, Gate!OneHolder, UsersHold, LostWorkLatches, OthersFindIdle, PauseDrains,
         [Next]_vars
  PROVE  PauseDrains'
  <1>0. /\ executing \subseteq Requests /\ loaded \subseteq Models
        /\ phase \in {"idle", "waiting_for_gate", "unloading", "preflight", "connecting", "running"}
        /\ phase = "idle" <=> active = None
        /\ {task, ack} \subseteq [at : Places, revision : 0..MaxRevision, models : SUBSET Models]
        /\ revision \in Nat
    BY SwitchesAssumption DEF TypeOK
  <1> USE <1>0 DEF PauseDrains, ReleasedMeansEmpty, Stale, Paused, job, ollama, pausing,
                   Idle, Latch, CatchupUnsaved
  <1>1. ASSUME Handler PROVE PauseDrains'
    BY <1>1
      DEF Handler, Arrive, Enqueue, CatchupUnsaved, Latch, Withdraw, Disconnect
  <1>2. ASSUME Loop PROVE PauseDrains'
    BY <1>2, HoldersDiffer
      DEF Loop, Serve, Take, Granted, GoTo, Serving, CatchupRefused, EndService,
          RecordFailure, AbortedEarly, UnloadConfirmed, UnloadFails, GuardBlocks,
          Send, Responds, ConnectionFails, StreamBreaks, ResponseEnds
  <1>3. ASSUME Maintain PROVE PauseDrains'
    <2>1. CASE Pause
      BY <2>1 DEF Pause, Kick, Kicked
    <2>2. CASE Resume
      BY <2>2 DEF Resume
    <2>3. CASE Retry
      BY <2>3 DEF Retry
    <2>4. CASE Mark
      BY <2>4 DEF Mark, TaskKeeps, Idle
    <2>5. CASE Drained
      BY <2>5 DEF Drained, TaskKeeps, Idle
    <2>6. CASE GiveUp
      BY <2>6 DEF GiveUp, TaskKeeps, Idle
    <2>7. CASE GateGranted
      BY <2>7 DEF GateGranted, TaskKeeps, Working
    <2>8. CASE ListModels
      BY <2>8 DEF ListModels, TaskKeeps, Working
    <2>9. CASE UnloadNext
      BY <2>9 DEF UnloadNext, TaskKeeps, Working
    <2>10. CASE ConfirmEmpty
      BY <2>10, HoldersDiffer
        DEF ConfirmEmpty, TaskKeeps, Working, Reconcile, LostWorkLatches
    <2>11. CASE MarkReleased
      BY <2>11 DEF MarkReleased, TaskKeeps, Working, Idle
    <2>12. CASE QuiesceFails
      BY <2>12 DEF QuiesceFails, TaskKeeps, Working, Idle
    <2>13. QED
      BY <1>3, <2>1, <2>2, <2>3, <2>4, <2>5, <2>6, <2>7, <2>8, <2>9, <2>10, <2>11,
         <2>12
        DEF Maintain, Quiescence
  <1>4. ASSUME Probe PROVE PauseDrains'
    <2>1. CASE ProbeSees
      BY <2>1 DEF ProbeSees
    <2>2. CASE ProbeConcludes
      BY <2>2 DEF ProbeConcludes, Reconcile
    <2>3. CASE ProbeFails
      BY <2>3 DEF ProbeFails
    <2>4. CASE BreakerLapses
      BY <2>4 DEF BreakerLapses
    <2>5. QED
      BY <1>4, <2>1, <2>2, <2>3, <2>4
        DEF Probe
  <1>5. ASSUME Recover PROVE PauseDrains'
    BY <1>5, HoldersDiffer
      DEF Recover, AckStarts, AckKeeps, AckAnswered, AckClears, Idle, Reconcile,
          OthersFindIdle, UsersHold, AckFails
  <1>6. ASSUME Ollama PROVE PauseDrains'
    BY <1>6
      DEF Ollama, Load, InUse, Evict, AbandonedEnds
  <1>7. ASSUME NEW g \in Managers, Manage(g) PROVE PauseDrains'
    BY <1>7
      DEF Manage, ManagerArrives, ManagerKeeps, ManagerMoves, ManagerLeaves,
          ManagerStarts, ManagerSends, ManagerEnds
  <1>8. CASE UNCHANGED vars
    BY <1>8 DEF vars
  <1>9. QED
    BY <1>1, <1>2, <1>3, <1>4, <1>5, <1>6, <1>7, <1>8 DEF Next

(* Only an acknowledgment clears the latch.                                *)
LEMMA LatchStep ==
  ASSUME TypeOK, OthersFindIdle, [Next]_vars, recovery
  PROVE  recovery' \/ (Paused /\ loaded = {} /\ executing = {})
  <1>1. ASSUME Handler PROVE recovery' \/ (Paused /\ loaded = {} /\ executing = {})
    BY <1>1
      DEF Handler, Arrive, Enqueue, CatchupUnsaved, Latch, Withdraw, Disconnect
  <1>2. ASSUME Loop PROVE recovery' \/ (Paused /\ loaded = {} /\ executing = {})
    BY <1>2
      DEF Loop, Serve, Take, Granted, GoTo, Serving, CatchupRefused, EndService,
          RecordFailure, CatchupUnsaved, Latch, AbortedEarly, UnloadConfirmed,
          UnloadFails, GuardBlocks, Send, Responds, ConnectionFails,
          StreamBreaks, ResponseEnds
  <1>3. ASSUME Maintain PROVE recovery' \/ (Paused /\ loaded = {} /\ executing = {})
    BY <1>3
      DEF Maintain, Quiescence, Pause, Kick, Kicked, Resume, Retry, Mark,
          TaskKeeps, Idle, Drained, GiveUp, GateGranted, Working, ListModels,
          UnloadNext, ConfirmEmpty, Reconcile, MarkReleased, QuiesceFails
  <1>4. ASSUME Probe PROVE recovery' \/ (Paused /\ loaded = {} /\ executing = {})
    BY <1>4
      DEF Probe, ProbeSees, ProbeConcludes, Reconcile, ProbeFails, BreakerLapses
  <1>5. ASSUME Recover PROVE recovery' \/ (Paused /\ loaded = {} /\ executing = {})
    BY <1>5
      DEF Recover, AckStarts, AckKeeps, AckAnswered, AckClears, Idle, Reconcile,
          OthersFindIdle, AckFails
  <1>6. ASSUME Ollama PROVE recovery' \/ (Paused /\ loaded = {} /\ executing = {})
    BY <1>6
      DEF Ollama, Load, Evict, AbandonedEnds
  <1>7. ASSUME NEW g \in Managers, Manage(g) PROVE recovery' \/ (Paused /\ loaded = {} /\ executing = {})
    BY <1>7
      DEF Manage, ManagerArrives, ManagerKeeps, ManagerMoves, ManagerLeaves,
          ManagerStarts, ManagerSends, ManagerEnds
  <1>8. CASE UNCHANGED vars
    BY <1>8 DEF vars
  <1>9. QED
    BY <1>1, <1>2, <1>3, <1>4, <1>5, <1>6, <1>7, <1>8 DEF Next

(* The inductive invariant.                                                *)
DispatchInv ==
  TypeOK /\ GateOK /\ UsersHold /\ LostWorkLatches /\ OthersFindIdle /\ PauseDrains

(* The program starts with nothing in flight.                              *)
LEMMA InitInv == Init => DispatchInv
  <1> SUFFICES ASSUME Init PROVE DispatchInv
    OBVIOUS
  <1>1. GateOK
    <2>1. gateActive = FALSE /\ gateKind = None /\ waiters = <<>> /\ holders = {}
      BY DEF Init, Gate!Init
    <2>2. Gate!TypeOK
      BY <2>1, EmptySeq DEF Gate!TypeOK
    <2>3. Gate!OneHolder /\ Gate!NoneForgotten
      BY <2>1 DEF Gate!OneHolder, Gate!NoneForgotten
    <2>4. QED
      BY <2>2, <2>3 DEF GateOK
  <1>2. TypeOK
    <2>1. Gate!TypeOK
      BY <1>1 DEF GateOK
    <2>2. Idle \in [at : Places, revision : 0..MaxRevision, models : SUBSET Models]
      BY SwitchesAssumption DEF Idle, Places
    <2>3. manager \in [Managers -> {"new", "waiting", "reading", "sent", "done"}]
      BY DEF Init
    <2>4. {aborted, recovery, reachable, breakerOpen} \subseteq BOOLEAN
      BY DEF Init
    <2>5. QED
      BY <2>1, <2>2, <2>3, <2>4, SwitchesAssumption DEF Init, TypeOK
  <1>3. UsersHold
    BY DEF Init, UsersHold, Idle
  <1>4. LostWorkLatches /\ OthersFindIdle
    BY DEF Init, LostWorkLatches, OneInference, OthersFindIdle, Idle
  <1>5. PauseDrains
    BY DEF Init, PauseDrains, ReleasedMeansEmpty, Stale, Paused, Idle
  <1>6. QED
    BY <1>1, <1>2, <1>3, <1>4, <1>5 DEF DispatchInv

(* Every step keeps the invariant.                                         *)
LEMMA InvStep == DispatchInv /\ [Next]_vars => DispatchInv'
  <1> SUFFICES ASSUME DispatchInv, [Next]_vars PROVE DispatchInv'
    OBVIOUS
  <1>1. GateOK'
    BY GateMoves, GateKept DEF DispatchInv
  <1>2. TypeOK'
    BY <1>1, TypeStep DEF DispatchInv, GateOK
  <1>3. UsersHold'
    BY UsersStep DEF DispatchInv, GateOK
  <1>4. LostWorkLatches' /\ OthersFindIdle'
    BY LostWorkStep, OthersStep DEF DispatchInv, GateOK
  <1>5. PauseDrains'
    BY PauseStep DEF DispatchInv, GateOK
  <1>6. QED
    BY <1>1, <1>2, <1>3, <1>4, <1>5 DEF DispatchInv

------------------------------------------------------------------------------
(* Every variable keeps its type, for any number of requests and managers. *)
THEOREM DispatchTypes == Spec => []TypeOK
  <1>1. DispatchInv => TypeOK
    BY DEF DispatchInv
  <1>2. QED
    BY <1>1, InitInv, InvStep, PTL DEF Spec

(* The job in service, a management request, the release of the GPU and    *)
(* the acknowledgment of a recovery never use Ollama beside one another.   *)
THEOREM OneUser == Spec => []OneAtATime
  <1>1. DispatchInv => OneAtATime
    BY UsersExclude DEF DispatchInv, GateOK
  <1>2. QED
    BY <1>1, InitInv, InvStep, PTL DEF Spec

(* Ollama never works on two inferences, lost connections included.        *)
THEOREM NeverTwoInferences == Spec => []OneInference
  <1>1. DispatchInv => OneInference
    BY DEF DispatchInv, LostWorkLatches
  <1>2. QED
    BY <1>1, InitInv, InvStep, PTL DEF Spec

(* Model management finds no inference at Ollama, not even a lost one.     *)
THEOREM ManagementIsAlone == Spec => []ManagementAlone
  <1>1. DispatchInv => ManagementAlone
    BY DEF DispatchInv, OthersFindIdle, ManagementAlone
  <1>2. QED
    BY <1>1, InitInv, InvStep, PTL DEF Spec

(* A pause that reads as released has the GPU free and keeps it free,      *)
(* unless recovery is required.                                            *)
THEOREM ReleaseIsTrue == Spec => []ReleasedMeansEmpty
  <1>1. DispatchInv => ReleasedMeansEmpty
    BY DEF DispatchInv, PauseDrains
  <1>2. QED
    BY <1>1, InitInv, InvStep, PTL DEF Spec

(* The recovery latch is cleared only while the backend is paused, with no *)
(* model in memory and no inference at Ollama.                             *)
THEOREM LatchOpensOnEmpty == Spec => LatchOpensSafely
  <1>1. DispatchInv /\ [Next]_vars
          => [recovery /\ ~recovery' => Paused /\ loaded = {} /\ executing = {}]_vars
    BY LatchStep DEF DispatchInv
  <1>2. QED
    BY <1>1, InitInv, InvStep, PTL DEF Spec, LatchOpensSafely

(* The program as a whole uses the gate as the gate expects: every step of *)
(* a handler, the loop, the maintenance task, a manager or a probe is, at  *)
(* the gate, an operation that acquires, gives up or releases what it has, *)
(* or none.                                                                *)
THEOREM GateIsImplemented == Spec => Gate!Spec
  <1>1. Init => Gate!Init
    BY DEF Init, Gate!Init
  <1>2. DispatchInv /\ [Next]_vars => [Gate!Next]_(Gate!vars)
    BY GateMoves DEF DispatchInv, gate, Gate!vars
  <1>3. QED
    BY <1>1, <1>2, InitInv, InvStep, PTL DEF Spec, Gate!Spec

(* In the whole program no release, abandoned wait or failure leaves the   *)
(* gate free while the loop, a manager, the maintenance task or an         *)
(* acknowledgment waits for it.                                            *)
THEOREM GateForgetsNobody == Spec => []Gate!NoneForgotten
  <1>1. DispatchInv => Gate!NoneForgotten
    BY DEF DispatchInv, GateOK
  <1>2. QED
    BY <1>1, InitInv, InvStep, PTL DEF Spec
==============================================================================
