----------------------------- MODULE AutoRecovery -----------------------------
(***************************************************************************)
(* Automatic recovery, src/src/auto-recovery.js, and the recovery latch of *)
(* src/src/backend.js with its file, composed with the host helper. An     *)
(* inference of unknown outcome latches; only a service incarnation newer  *)
(* than the one it ran in, seen idle several times, lets the controller    *)
(* open the latch again. What it does is saved before it asks the host.    *)
(*                                                                         *)
(* A tick awaits the gate, the helper and Ollama; at each of these places  *)
(* the operator pauses, resumes or asks for a check, messages are lost or  *)
(* late, and either process dies. Deadlines and cooldowns may pass at any  *)
(* time. Other holders of the gate only delay a tick (Dispatch), and a     *)
(* latch of a kind that needs the operator is left alone, so that neither  *)
(* is modelled. The acknowledgment is one step: its checks are Dispatch's. *)
(***************************************************************************)
EXTENDS HostHelper

CONSTANTS
  MaxRestarts,    \* auto_recovery.max_restarts
  StableSamples,  \* auto_recovery.stable_samples
  MaxIncidents,   \* bound: incidents that latch recovery
  MaxCommands,    \* bound: pauses, resumes and requested checks
  MaxCrashes      \* bound: crashes of the intermediary

Phases == {"pending", "verifying", "failed", "uncertain", "completed"}

Latches == [incident : Nat \ {0}, since : Incarnations]

(* An operation of the controller; id zero is a replacement it adopted. *)
Currents ==
  [id : 0..MaxOperations, before : Incarnations, after : Incarnations \cup {None},
   phase : Phases, recheckable : BOOLEAN, samples : 0..StableSamples]

Memories ==
  [episode : Nat, attempts : 0..MaxRestarts, failedAfter : Nat,
   current : Currents \cup {None}, history : SUBSET Operations]

ASSUME RecoveryAssumption ==
  /\ {MaxRestarts, StableSamples} \subseteq Nat \ {0}
  /\ {MaxIncidents, MaxCommands, MaxCrashes} \subseteq Nat
  /\ None \notin Latches \cup Currents

VARIABLES
  up,
  latch,         \* the incident recovery is required for, with the incarnation
                 \* that ran at recoverySince; or None
  latchFile,
  latchError,    \* recoveryStorageError: the latch and its file may differ
  saved,         \* AutomaticRecovery.saved
  savedFile,
  storageError,  \* AutomaticRecovery.storageError
  paused, revision,   \* the maintenance pause
  manual,        \* manualRevision of a requested check, or None
  step,          \* the tick: what it awaits
  issued,        \* operation ids drawn so far
  episodeOf,     \* the incident each was drawn for
  incidents, commands, crashes,
  dirty,         \* the incarnation with an inference of unknown outcome, or 0
  asked          \* the pause during which the operator last asked for a check

latching == <<latch, latchFile, latchError>>
saving == <<saved, savedFile, storageError>>
operator == <<paused, revision, manual, commands, asked>>
history == <<issued, episodeOf, incidents, crashes, dirty>>
vars == <<helper, faults, up, latching, saving, operator, step, history>>

------------------------------------------------------------------------------
Idle == [at |-> "idle", key |-> 0, before |-> 0]

Going(place) == IF place = "idle" THEN Idle ELSE [step EXCEPT !.at = place]

GoOn(place) == step' = Going(place)

At(place) == up /\ step.at = place

(* Faulty: a check that was asked for counts in every later pause.         *)
AuthorizedEver == manual # None

Authorized == manual = revision

Mine == latch # None /\ latch.incident = step.key

NoEpisode(s) ==
  [episode |-> 0, attempts |-> 0, failedAfter |-> 0, current |-> None,
   history |-> s.history]

OfEpisode(n) ==
  IF saved.episode = n THEN saved ELSE [NoEpisode(saved) EXCEPT !.episode = n]

InPhase(c, phases) == c # None /\ c.phase \in phases

Verifying(c) == c # None /\ (c.phase \in {"verifying", "completed"} \/ c.recheckable)

(* Faulty: the file is left for a later write. *)
PersistLater(s, place) ==
  /\ saved' = s
  /\ step' = Going(place)
  /\ UNCHANGED <<savedFile, storageError, faults>>

(* persist() and then on; it throws, before or after the rename, and the   *)
(* controller does nothing more until the process is restarted.            *)
Persist(s, place) ==
  /\ saved' = s
  /\ \/ /\ savedFile' = s
        /\ step' = Going(place)
        /\ UNCHANGED <<storageError, faults>>
     \/ /\ Fault
        /\ savedFile' \in {savedFile, s}
        /\ storageError' = TRUE /\ step' = Idle

GiveUp == step' = Idle

------------------------------------------------------------------------------
(* The backend and the operator *)

(* requireRecovery(): an inference ends with an unknown outcome. A latch   *)
(* that cannot be written holds in memory.                                 *)
Incident ==
  /\ up /\ latch = None /\ step.at = "idle" /\ ~paused /\ incidents < MaxIncidents
  /\ incidents' = incidents + 1
  /\ latch' = [incident |-> incidents', since |-> incarnation]
  /\ dirty' = incarnation
  /\ \/ latchFile' = latch' /\ latchError' = FALSE /\ UNCHANGED faults
     \/ Fault /\ latchError' = TRUE /\ UNCHANGED latchFile
  /\ UNCHANGED <<helper, up, saving, operator, step, issued, episodeOf, crashes>>

(* handleRecoveryAcknowledgment(), which finds the gate free.              *)
Acknowledge ==
  /\ up /\ latch # None /\ paused /\ step.at \in {"idle", "gate"}
  /\ latch' = None /\ latchFile' = None /\ latchError' = FALSE
  /\ dirty' = 0
  /\ UNCHANGED <<helper, faults, up, saving, operator, step, issued, episodeOf,
                 incidents, crashes>>

Command ==
  /\ up /\ commands < MaxCommands
  /\ commands' = commands + 1
  /\ UNCHANGED <<helper, faults, up, latching, saving, step, history>>

(* A pause, the replacement of one, or a resume.                           *)
PauseOrResume ==
  /\ Command
  /\ paused' \in IF paused THEN BOOLEAN ELSE {TRUE}
  /\ revision' = revision + 1
  /\ UNCHANGED <<manual, asked>>

(* checkNow(); the tick it starts is Tick.                                 *)
CheckNow ==
  /\ Command /\ ~storageError
  /\ manual' = revision /\ asked' = revision
  /\ UNCHANGED <<paused, revision>>

------------------------------------------------------------------------------
(* The tick: runStep() *)

RecoveryKeeps == UNCHANGED <<up, latching, paused, revision, commands, asked, history>>

(* Nothing is latched: a finished episode is forgotten.                    *)
Forget ==
  /\ At("idle") /\ ~storageError /\ ~latchError
  /\ latch = None /\ saved # NoEpisode(saved)
  /\ manual' = None
  /\ Persist(NoEpisode(saved), "idle")
  /\ RecoveryKeeps /\ UNCHANGED helper

(* Up to the gate. A pause stops everything but the verification of what   *)
(* was done, unless the operator asked for a check in this very pause.     *)
Tick ==
  /\ At("idle") /\ ~storageError /\ ~latchError /\ latch # None
  /\ manual' = IF Authorized THEN manual ELSE None
  /\ LET s == OfEpisode(latch.incident)
         stays == paused /\ ~Authorized /\ ~Verifying(s.current)
     IN IF s # saved
        THEN /\ saved' = s
             /\ \/ /\ savedFile' = s
                   /\ step' = IF stays THEN Idle
                              ELSE [Idle EXCEPT !.at = "gate", !.key = latch.incident]
                   /\ UNCHANGED <<storageError, faults>>
                \/ /\ Fault /\ savedFile' \in {savedFile, s}
                   /\ storageError' = TRUE /\ step' = Idle
        ELSE /\ ~stays
             /\ step' = [Idle EXCEPT !.at = "gate", !.key = latch.incident]
             /\ UNCHANGED <<saving, faults>>
  /\ RecoveryKeeps /\ UNCHANGED helper

(* The gate is granted: how to go on depends on what is under way.         *)
Enter ==
  /\ At("gate")
  /\ LET c == saved.current
         asking == InPhase(c, {"pending", "uncertain"})
     IN \/ ~Mine /\ GiveUp /\ UNCHANGED <<manual, saving, faults>>
        \/ /\ Mine /\ InPhase(c, {"verifying", "completed"})
           /\ GoOn("sample") /\ UNCHANGED <<manual, saving, faults>>
        \/ /\ Mine /\ asking /\ c.recheckable
           /\ \/ Authorized /\ manual' = None /\ Persist(saved, "get")
              \/ /\ ~Authorized /\ (GoOn("get") \/ GiveUp)  \* the deadline has passed
                 /\ UNCHANGED <<manual, saving, faults>>
        \/ /\ Mine /\ asking /\ ~c.recheckable
           /\ IF c.phase = "uncertain" /\ ~Authorized THEN GiveUp ELSE GoOn("check")
           /\ UNCHANGED <<manual, saving, faults>>
        \/ /\ Mine /\ ~InPhase(c, Phases \ {"failed"})
           /\ GoOn("telemetry") /\ UNCHANGED <<manual, saving, faults>>
  /\ RecoveryKeeps /\ UNCHANGED helper

(* The helper says which incarnation runs.                                 *)
Telemetry ==
  /\ At("telemetry") /\ serving = None
  /\ step' = [step EXCEPT !.at = "adopt", !.before = incarnation]
  /\ UNCHANGED <<saving, faults, manual, helper>> /\ RecoveryKeeps

(* The helper is unavailable or does not answer; or a limit, the cooldown, *)
(* the pause or the state of the GPU forbids a restart.                    *)
Decline ==
  /\ At("telemetry") \/ At("adopt") \/ At("get")
  /\ GiveUp
  /\ UNCHANGED <<saving, faults, manual, helper>> /\ RecoveryKeeps

(* Faulty: any idle service that runs will do.                             *)
StartedAnytime == TRUE

(* replacement(): the service was started after the incident.              *)
StartedAfter == incarnation > latch.since

Current(id, before, after, phase) ==
  [id |-> id, before |-> before, after |-> after, phase |-> phase,
   recheckable |-> FALSE, samples |-> 0]

(* adoptReplacement(): it has been replaced already, and not in vain.      *)
Adopt ==
  /\ At("adopt") /\ serving = None /\ ~broken
  /\ StartedAfter /\ saved.failedAfter # incarnation
  /\ Persist([saved EXCEPT !.current = Current(0, latch.since, incarnation, "verifying")],
             "idle")
  /\ RecoveryKeeps /\ UNCHANGED <<manual, helper>>

Recent == saved.history \ aged

(* The operation is drawn, counted and saved, before the host is asked.    *)
Decide ==
  /\ At("adopt") /\ issued < MaxOperations
  /\ saved.attempts < MaxRestarts /\ Cardinality(Recent) < MaxRestarts
  /\ paused => Authorized
  /\ issued' = issued + 1
  /\ episodeOf' = [episodeOf EXCEPT ![issued'] = step.key]
  /\ Persist([saved EXCEPT !.current = Current(issued', step.before, None, "pending"),
                           !.attempts = @ + 1, !.history = Recent \cup {issued'}],
             "check")
  /\ UNCHANGED <<helper, up, latching, operator, incidents, crashes, dirty>>
------------------------------------------------------------------------------
(* performRestart(), acceptRestartResult(), reconcileRestart() *)

(* The helper is asked once more before every request that may restart.    *)
Check ==
  /\ At("check")
  /\ \/ GiveUp /\ UNCHANGED <<wire, answer>>
     \/ /\ paused => Authorized
        /\ wire' = wire \cup {[id |-> saved.current.id, before |-> saved.current.before,
                               live |-> TRUE]}
        /\ answer' = None
        /\ GoOn("post")
  /\ UNCHANGED <<saving, faults, manual, incarnation, journals, serving, invoked, aged>>
  /\ RecoveryKeeps

(* What a result makes of the operation.                                   *)
Accepted(c, r) ==
  IF r.state = "completed" /\ r.before = c.before /\ r.after # c.before
  THEN [c EXCEPT !.phase = "verifying", !.after = r.after, !.samples = 0,
                 !.recheckable = FALSE]
  ELSE [c EXCEPT !.phase = IF r.state = "failed" THEN "failed" ELSE "uncertain",
                 !.recheckable = (r.state = "uncertain" /\ r.recheckable)]

Accept(r) ==
  /\ Persist([saved EXCEPT !.current = Accepted(@, r)], "idle")
  /\ manual' = IF Accepted(saved.current, r).phase = "verifying" THEN manual ELSE None

Answered ==
  /\ At("post") /\ answer \notin {None, Error}
  /\ answer' = None
  /\ Accept(answer)
  /\ RecoveryKeeps
  /\ UNCHANGED <<incarnation, journals, serving, wire, invoked, aged>>

(* The connection is given up; the helper may still read what was sent.    *)
HangUp ==
  /\ wire' = {[w EXCEPT !.live = FALSE] : w \in wire}
  /\ serving' = IF serving = None THEN None ELSE [serving EXCEPT !.live = FALSE]
  /\ answer' = None

(* No answer, or an error: the id is kept and asked about again, or, after *)
(* the deadlines, its outcome is unknown.                                  *)
NoAnswer ==
  /\ At("post")
  /\ HangUp
  /\ \/ GiveUp /\ UNCHANGED <<saving, faults, manual>>
     \/ Persist([saved EXCEPT !.current.phase = "uncertain"], "idle") /\ manual' = None
  /\ RecoveryKeeps /\ UNCHANGED <<incarnation, journals, invoked, aged>>

(* GET of the operation: the helper reconciles it, and the answer arrives, *)
(* is lost, or comes too late.                                             *)
Get ==
  /\ At("get") /\ serving = None /\ ~broken /\ journal[saved.current.id] # None
  /\ \E e \in Reconciled(journal[saved.current.id]) :
       LET j == [journal EXCEPT ![saved.current.id] = e] IN
       \/ /\ journal' = j /\ journalFile' = j /\ UNCHANGED broken
          /\ Accept(Result(saved.current.id, e))
       \/ (Saves(j) \/ SaveFails(j)) /\ GiveUp /\ UNCHANGED <<saving, manual>>
  /\ RecoveryKeeps /\ UNCHANGED <<incarnation, serving, wire, answer, invoked, aged>>

------------------------------------------------------------------------------
(* verify(), verificationFailed() *)

(* More than StableSamples say no more than StableSamples.                 *)
Counted(samples) == IF samples < StableSamples THEN samples + 1 ELSE samples

(* The new incarnation runs, the GPU is idle, Ollama lists no model; or    *)
(* not, and the count starts again.                                        *)
Sample ==
  /\ At("sample")
  /\ \/ /\ serving = None /\ incarnation = saved.current.after
        /\ saved' = [saved EXCEPT !.current.samples = Counted(@)]
        /\ IF saved'.current.samples = StableSamples THEN GoOn("probe") ELSE GiveUp
     \/ saved' = [saved EXCEPT !.current.samples = 0] /\ GiveUp
  /\ UNCHANGED <<savedFile, storageError, faults, manual, helper>> /\ RecoveryKeeps

(* The deadline of the verification has passed.                            *)
Expire ==
  /\ At("sample")
  /\ Persist([saved EXCEPT !.current.phase = "failed", !.failedAfter = saved.current.after],
             "idle")
  /\ manual' = None
  /\ RecoveryKeeps /\ UNCHANGED helper

(* A probe that fails, or a latch that cannot be cleared, or a catch-up    *)
(* that does not let it: the operation may be completed and stay latched.  *)
Unproven ==
  /\ At("probe")
  /\ \/ GiveUp /\ UNCHANGED <<saving, latchError, faults>>
     \/ /\ Mine /\ saved' = [saved EXCEPT !.current.phase = "completed"]
        /\ Fault /\ step' = Idle
        /\ \/ savedFile' \in {savedFile, saved'} /\ storageError' = TRUE
              /\ UNCHANGED latchError
           \/ savedFile' = saved' /\ latchError' \in {latchError, TRUE}
              /\ UNCHANGED storageError
  /\ UNCHANGED <<helper, up, latch, latchFile, operator, history>>

(* The probe succeeds: completed, then unlatched, each with its file.      *)
Recover ==
  /\ At("probe") /\ Mine
  /\ saved' = [saved EXCEPT !.current.phase = "completed"]
  /\ savedFile' = saved'
  /\ latch' = None /\ latchFile' = None /\ latchError' = FALSE
  /\ manual' = None
  /\ GiveUp
  /\ UNCHANGED <<helper, faults, up, storageError, paused, revision, commands, asked,
                 history>>
------------------------------------------------------------------------------
(* Crash and restart of the intermediary. An incident whose latch was not  *)
(* written is forgotten with the process.                                  *)
Crash ==
  /\ up /\ crashes < MaxCrashes
  /\ crashes' = crashes + 1
  /\ up' = FALSE
  /\ step' = Idle
  /\ HangUp
  /\ dirty' = IF latchFile = None THEN 0 ELSE dirty
  /\ UNCHANGED <<incarnation, journals, invoked, aged, faults, latching, saving, operator,
                 issued, episodeOf, incidents>>

(* Faulty: the latch is for the process that set it.                       *)
StartsUnlatched == None

(* restoreRecovery() *)
RestoredLatch == latchFile

(* restore(): samples of another process do not count.                     *)
Restart ==
  /\ ~up /\ up' = TRUE
  /\ latch' = RestoredLatch /\ latchError' = FALSE
  /\ saved' = IF savedFile.current = None THEN savedFile
              ELSE [savedFile EXCEPT !.current.samples = 0]
  /\ storageError' = FALSE
  /\ manual' = None
  /\ UNCHANGED <<helper, faults, latchFile, savedFile, paused, revision, commands, asked,
                 step, history>>

------------------------------------------------------------------------------
Init ==
  /\ HelperInit
  /\ up = TRUE
  /\ latch = None /\ latchFile = None /\ latchError = FALSE
  /\ saved = [episode |-> 0, attempts |-> 0, failedAfter |-> 0, current |-> None,
              history |-> {}]
  /\ savedFile = saved /\ storageError = FALSE
  /\ paused = FALSE /\ revision = 0 /\ manual = None
  /\ step = Idle
  /\ issued = 0 /\ episodeOf = [id \in Operations |-> 0]
  /\ incidents = 0 /\ commands = 0 /\ crashes = 0
  /\ dirty = 0 /\ asked = None

HelperStep ==
  HelperNext /\ UNCHANGED <<up, latching, saving, operator, step, history>>

Next ==
  \/ HelperStep
  \/ Incident \/ Acknowledge \/ PauseOrResume \/ CheckNow
  \/ Forget \/ Tick \/ Enter
  \/ Telemetry \/ Adopt \/ Decline \/ Decide
  \/ Check \/ Answered \/ NoAnswer \/ Get
  \/ Sample \/ Expire \/ Unproven \/ Recover
  \/ Crash \/ Restart

Spec == Init /\ [][Next]_vars

------------------------------------------------------------------------------
(* Properties *)

(* What restore() demands of a file: an operation that is being verified   *)
(* names two different incarnations; one that is asked about has an id.    *)
Restorable(s) ==
  s.current # None =>
    /\ s.current.phase \in {"verifying", "completed"} =>
         s.current.after \notin {None, s.current.before}
    /\ s.current.phase \in {"pending", "uncertain"} => s.current.id # 0

(* Types, and that what is saved can be restored.                          *)
TypeOK ==
  /\ HelperTypeOK
  /\ serving # None => journal[serving.id] # None
  /\ up \in BOOLEAN
  /\ {latch, latchFile} \subseteq Latches \cup {None} /\ latchError \in BOOLEAN
  /\ latch # None => latch.incident <= incidents /\ latch.since <= incarnation
  /\ {saved, savedFile} \subseteq Memories /\ storageError \in BOOLEAN
  /\ \A s \in {saved, savedFile} : Restorable(s) /\ s.episode <= incidents
  /\ paused \in BOOLEAN /\ revision \in Nat
  /\ {manual, asked} \subseteq Nat \cup {None}
  /\ step \in [at : {"idle", "gate", "telemetry", "adopt", "check", "post", "get", "sample",
                     "probe"}, key : Nat, before : Nat]
  /\ issued \in 0..MaxOperations /\ episodeOf \in [Operations -> Nat]
  /\ incidents \in 0..MaxIncidents /\ commands \in 0..MaxCommands
  /\ crashes \in 0..MaxCrashes
  /\ dirty \in 0..incarnation

(* While the service incarnation runs in which an inference of unknown     *)
(* outcome was left, admission stays latched, also across crashes, lost    *)
(* answers and failed restarts, unless the operator acknowledged it or the *)
(* latch could not be written before a crash (Crash).                      *)
UncertainBlocked == up /\ dirty = incarnation => latch # None

(* systemctl is called once at most for an operation, however often it is  *)
(* asked for and whichever side forgets.                                   *)
RestartOnce == \A id \in Operations : invoked[id] <= 1

Invoked == {id \in Operations : invoked[id] > 0}

(* The service is restarted at most max_restarts times for an incident,    *)
(* and no more often within the window, than the controller and the helper *)
(* each allow: a crash of either loses no count.                           *)
RestartsLimited ==
  /\ \A n \in 1..incidents :
       Cardinality({id \in Invoked : episodeOf[id] = n}) <= MaxRestarts
  /\ Cardinality(Invoked \ aged) <= MaxRestarts
  /\ Cardinality(Invoked \ aged) <= HostLimit

(* A restart is asked for during a pause only when the operator asked for  *)
(* a check in that same pause, not in one before it and not before it.     *)
PauseRespected ==
  [][\A w \in wire' : w.live /\ w \notin wire => (paused => asked = revision)]_vars

==============================================================================
