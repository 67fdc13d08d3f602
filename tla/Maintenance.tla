------------------------------ MODULE Maintenance ------------------------------
(***************************************************************************)
(* The maintenance pause of src/src/maintenance.js across crashes: a       *)
(* command is written to a file before it takes effect in memory, the      *)
(* mutations of the state run one after the other, a timed pause ends by   *)
(* its own timer, and a restart restores what the file says.               *)
(*                                                                         *)
(* Every await is a point where the timer fires, the operator commands or  *)
(* the process dies. Left out: the reason and the dates that are only      *)
(* shown, validation of a command, and stop(), which is the crash of a     *)
(* process that has nothing to save. What Ollama and the gate do during    *)
(* the release is module Dispatch; here it succeeds or fails.              *)
(***************************************************************************)
EXTENDS Naturals, Sequences

CONSTANTS
  Durations,    \* durationMs of the timed pauses
  None,         \* null; a manual pause has no duration
  Unreadable,   \* a state file that cannot be read or parsed
  MaxClock,     \* bound: past it, time goes on only to a deadline
  MaxCommands,  \* bound: commands of the operator
  MaxFaults,    \* bound: failing file operations, failing releases, models that
                \* are loaded again after a release
  MaxCrashes    \* bound: crashes

State ==
  [state : {"running", "pausing", "paused", "error"}, id : 0..MaxCommands,
   duration : Durations \cup {None}, resumeAt : Nat \cup {None}, released : BOOLEAN]

Mutation ==
  [kind : {"begin"}, id : 1..MaxCommands, duration : Durations \cup {None}]
    \cup [kind : {"resume"}, source : {"manual", "timer"}]
    \cup [kind : {"markReleasing", "markReleased", "markError"}, revision : Nat]

(* A mutation at its file operation. *)
Operation == [op : Mutation, next : State, written : BOOLEAN]

ASSUME BoundsAssumption ==
  /\ Durations \subseteq Nat \ {0}
  /\ {MaxClock, MaxCommands, MaxFaults, MaxCrashes} \subseteq Nat
  /\ None \notin Nat \cup State \cup Operation
  /\ Unreadable \notin State \cup {None}

VARIABLES
  up,         \* the process runs
  clock,
  file,       \* the state file: None, Unreadable, or the pause written to it
  value,      \* MaintenanceState.value
  revision,   \* MaintenanceState.revision
  timer,      \* when the armed timer fires, or None
  queue,      \* mutations waiting for their turn
  busy,       \* the mutation whose file operation is under way, or None
  failing,    \* an automatic resume has failed: failClosed() runs "now", or as
              \* soon as the "next" mutation has begun; "no" otherwise
  task,       \* runMaintenanceQuiescence: where it is, for which revision
  admitting,  \* the scheduler accepts requests
  commands, faults, crashes,  \* how many there were
  standing,   \* the acknowledged pause that nobody has asked to end, or None
  confirmed   \* the last pause for which Ollama reported no model to this process

memory == <<value, revision, timer, admitting>>
turns == <<queue, busy, failing>>
counts == <<commands, faults, crashes>>
seen == <<standing, confirmed>>
vars == <<up, clock, file, memory, turns, task, counts, seen>>

------------------------------------------------------------------------------
(* `id` names the pause command a state belongs to; the code has no such   *)
(* field. Zero: none, or the pause of a file that could not be read.       *)
Running ==
  [state |-> "running", id |-> 0, duration |-> None, resumeAt |-> None,
   released |-> FALSE]

Pausing(id, duration) ==
  [Running EXCEPT !.state = "pausing", !.id = id, !.duration = duration]

Failed == [Running EXCEPT !.state = "error"]

Paused == value.state # "running"

NoTask == [at |-> "none", revision |-> 0]

Resuming(source) == [kind |-> "resume", source |-> source]

Quiet == up /\ failing = "no"

(* runMutation(): the next mutation waits for all those before it.         *)
Enqueue(m) == queue' = Append(queue, m)

------------------------------------------------------------------------------
(* Commands *)

(* A pause command arrives: begin() joins the queue.                       *)
Pause(duration) ==
  /\ Quiet /\ commands < MaxCommands
  /\ commands' = commands + 1
  /\ Enqueue([kind |-> "begin", id |-> commands', duration |-> duration])
  /\ UNCHANGED <<up, clock, file, memory, busy, failing, task, faults, crashes, seen>>

(* A resume command arrives.                                               *)
Resume ==
  /\ Quiet /\ commands < MaxCommands
  /\ commands' = commands + 1
  /\ Enqueue(Resuming("manual"))
  /\ standing' = None
  /\ UNCHANGED <<up, clock, file, memory, busy, failing, task, faults, crashes,
                 confirmed>>

(* The timer: a deadline that has moved arms it again.                     *)
TimerFires ==
  /\ Quiet /\ timer # None /\ clock >= timer
  /\ IF value.resumeAt # None /\ value.resumeAt > clock
     THEN timer' = value.resumeAt /\ UNCHANGED <<queue, standing>>
     ELSE /\ timer' = None
          /\ Enqueue(Resuming("timer"))
          /\ standing' = IF value.resumeAt = timer THEN None ELSE standing
  /\ UNCHANGED <<up, clock, file, value, revision, admitting, busy, failing, task,
                 counts, confirmed>>

------------------------------------------------------------------------------
(* A mutation: its checks, its file operation, its effect in memory *)

Stale(r) == ~Paused \/ r # revision

(* Faulty: a mark does not look at the revision of its pause.              *)
DroppedByState(m) ==
  CASE m.kind = "begin" -> FALSE
    [] m.kind = "markReleasing" -> ~Paused \/ value.state = "pausing"
    [] OTHER -> ~Paused

(* What a mark would leave alone, it does not write either.                *)
Dropped(m) ==
  CASE m.kind = "begin" -> FALSE
    [] m.kind = "resume" -> ~Paused
    [] m.kind = "markReleasing" -> Stale(m.revision) \/ value.state = "pausing"
    [] OTHER -> Stale(m.revision)

Deadline(v) ==
  IF v.resumeAt # None THEN v.resumeAt
  ELSE IF v.duration = None THEN None ELSE clock + v.duration

(* What the mutation will have made of the state.                          *)
Effect(m) ==
  CASE m.kind = "begin" -> Pausing(m.id, m.duration)
    [] m.kind = "resume" -> Running
    [] m.kind = "markReleasing" ->
         [value EXCEPT !.state = "pausing", !.resumeAt = None, !.released = FALSE]
    [] m.kind = "markReleased" ->
         [value EXCEPT !.state = "paused", !.resumeAt = Deadline(value),
                       !.released = TRUE]
    [] m.kind = "markError" ->
         [value EXCEPT !.state = "error", !.resumeAt = None, !.released = FALSE]

(* The mutation at the head runs up to its file operation.                 *)
Begin ==
  /\ up /\ busy = None /\ queue # <<>> /\ failing # "now"
  /\ queue' = Tail(queue)
  /\ busy' = IF Dropped(Head(queue)) THEN None
             ELSE [op |-> Head(queue), next |-> Effect(Head(queue)), written |-> FALSE]
  /\ task' = IF busy' = None /\ Head(queue).kind \in {"markReleased", "markError"}
             THEN NoTask ELSE task
  /\ failing' = IF failing = "next" THEN "now" ELSE "no"
  /\ UNCHANGED <<up, clock, file, memory, counts, seen>>

(* Faulty: memory may change before the file does.                         *)
WorkingUnwritten(written) == Quiet /\ busy # None

Working(written) == Quiet /\ busy # None /\ busy.written = written

(* persist(): temporary file, sync, rename; clearPersisted(): unlink.      *)
Write ==
  /\ Working(FALSE)
  /\ file' = IF busy.op.kind = "resume" THEN None ELSE busy.next
  /\ busy' = [busy EXCEPT !.written = TRUE]
  /\ UNCHANGED <<up, clock, memory, queue, failing, task, counts, seen>>

(* failClosed() *)
FailClosed ==
  /\ value' = Failed /\ revision' = revision + 1 /\ timer' = None
  /\ UNCHANGED admitting

(* The write fails: the command is refused and memory is as before. A mark *)
(* of the task that cannot be written ends it, and fails closed when it    *)
(* was the mark of an error; so does an automatic resume, after the next   *)
(* mutation has begun.                                                     *)
WriteFails ==
  /\ Working(FALSE) /\ faults < MaxFaults
  /\ faults' = faults + 1
  /\ busy' = None
  /\ failing' = IF busy.op # Resuming("timer") THEN "no"
                ELSE IF queue = <<>> THEN "now" ELSE "next"
  /\ IF busy.op.kind = "markError" THEN FailClosed ELSE UNCHANGED memory
  /\ task' = CASE busy.op.kind = "markError" -> NoTask
               [] busy.op.kind \in {"markReleasing", "markReleased"} /\ Stale(task.revision)
                    -> NoTask
               [] busy.op.kind \in {"markReleasing", "markReleased"} ->
                    [task EXCEPT !.at = "failed"]
               [] OTHER -> task
  /\ UNCHANGED <<up, clock, file, queue, commands, crashes, seen>>

(* The catch of the timer's promise.                                       *)
AutoResumeFails ==
  /\ up /\ failing = "now"
  /\ FailClosed
  /\ failing' = "no"
  /\ UNCHANGED <<up, clock, file, queue, busy, task, counts, seen>>

(* Faulty: begin() leaves the timer of the pause it replaces.              *)
TimerKept(op) ==
  CASE op.kind = "begin" -> timer
    [] op.kind = "markReleased" -> busy.next.resumeAt
    [] OTHER -> None

(* Faulty: the timer is armed when the deadline is set, not once more      *)
(* after a restart.                                                        *)
TimerOfNew(op) ==
  IF op.kind = "markReleased" /\ value.resumeAt = None
  THEN busy.next.resumeAt ELSE None

(* cancelTimer(), or armTimer() for a pause that is released.              *)
TimerAfter(op) ==
  IF op.kind = "markReleased" THEN busy.next.resumeAt ELSE None

ResumeQueued == \E i \in DOMAIN queue : queue[i].kind = "resume"

(* The file holds the new state: it takes effect, with the scheduler's     *)
(* admission, and the operator gets an answer.                             *)
Finish ==
  /\ Working(TRUE)
  /\ busy' = None
  /\ value' = busy.next
  /\ timer' = TimerAfter(busy.op)
  /\ revision' = IF busy.op.kind \in {"begin", "resume"} THEN revision + 1 ELSE revision
  /\ admitting' = CASE busy.op.kind = "begin" -> FALSE
                    [] busy.op.kind = "resume" -> TRUE
                    [] OTHER -> admitting
  /\ standing' = IF busy.op.kind = "begin"
                 THEN IF ResumeQueued THEN None ELSE busy.op.id ELSE standing
  /\ task' = CASE busy.op.kind \in {"markReleased", "markError"} -> NoTask
               [] busy.op.kind = "begin" /\ task = NoTask ->
                    [at |-> "marking", revision |-> revision']
               [] OTHER -> task
  /\ queue' = IF task' # task /\ task'.at = "marking"
              THEN Append(queue, [kind |-> "markReleasing", revision |-> revision'])
              ELSE queue
  /\ UNCHANGED <<up, clock, file, failing, counts, confirmed>>
------------------------------------------------------------------------------
(* The release of the GPU: runMaintenanceQuiescence() *)

Kick ==
  /\ Quiet /\ Paused /\ task = NoTask
  /\ task' = [at |-> "marking", revision |-> revision]
  /\ Enqueue([kind |-> "markReleasing", revision |-> revision])
  /\ UNCHANGED <<up, clock, file, memory, busy, failing, commands, crashes, seen>>

(* The retry timer, and every change of the backend.                       *)
Retry == ~value.released /\ Kick /\ UNCHANGED faults

(* A probe finds a model loaded after the release.                         *)
LoadedAgain ==
  /\ value.released /\ faults < MaxFaults
  /\ Kick
  /\ faults' = faults + 1

MarkPending(kind) ==
  \/ \E i \in DOMAIN queue : queue[i].kind = kind
  \/ busy # None /\ busy.op.kind = kind

Marked == Quiet /\ task.at = "marking" /\ ~MarkPending("markReleasing")

(* The pause was replaced or ended.                                        *)
GiveUp ==
  /\ Marked \/ (Quiet /\ task.at = "failed")
  /\ Stale(task.revision)
  /\ task' = NoTask
  /\ UNCHANGED <<up, clock, file, memory, turns, counts, seen>>

(* The request in service has drained and Ollama lists no model.           *)
Released ==
  /\ Marked /\ ~Stale(task.revision)
  /\ confirmed' = value.id
  /\ task' = [task EXCEPT !.at = "saving"]
  /\ Enqueue([kind |-> "markReleased", revision |-> task.revision])
  /\ UNCHANGED <<up, clock, file, memory, busy, failing, counts, standing>>

(* Ollama does not answer, or keeps a model.                               *)
ReleaseFails ==
  /\ \/ Marked /\ faults < MaxFaults /\ faults' = faults + 1
     \/ Quiet /\ task.at = "failed" /\ UNCHANGED faults
  /\ ~Stale(task.revision)
  /\ task' = [task EXCEPT !.at = "saving"]
  /\ Enqueue([kind |-> "markError", revision |-> task.revision])
  /\ UNCHANGED <<up, clock, file, memory, busy, failing, commands, crashes, seen>>

------------------------------------------------------------------------------
(* Time, crash and restart *)

Written == file \notin {None, Unreadable}

Deadlines ==
  {d \in {timer, value.resumeAt, IF Written THEN file.resumeAt ELSE None} : d # None}

Tick ==
  /\ clock < MaxClock \/ \E d \in Deadlines : d > clock
  /\ failing = "no"
  /\ clock' = clock + 1
  /\ UNCHANGED <<up, file, memory, turns, task, counts, seen>>

Crash ==
  /\ up /\ crashes < MaxCrashes
  /\ crashes' = crashes + 1
  /\ up' = FALSE
  /\ value' = Running /\ revision' = 0 /\ timer' = None /\ admitting' = FALSE
  /\ queue' = <<>> /\ busy' = None /\ failing' = "no"
  /\ task' = NoTask
  /\ confirmed' = None
  /\ UNCHANGED <<clock, file, commands, faults, standing>>

Expired == file.resumeAt # None /\ file.resumeAt <= clock

(* A restart invalidates what was observed of the GPU.                     *)
Restored == [file EXCEPT !.state = "pausing", !.released = FALSE]

(* Faulty: the scheduler starts as it is constructed.                      *)
AdmitsAnyway(v) == TRUE

(* The constructor of the service pauses the scheduler it has just built.  *)
Admits(v) == v.state = "running"

Wake(v, r) ==
  /\ up' = TRUE
  /\ value' = v /\ revision' = r
  /\ admitting' = Admits(v)
  /\ IF v.state = "running" THEN UNCHANGED <<task, queue>>
     ELSE /\ task' = [at |-> "marking", revision |-> r]
          /\ queue' = <<[kind |-> "markReleasing", revision |-> r]>>
  /\ UNCHANGED <<clock, timer, busy, failing, commands, crashes, confirmed>>

(* restore(), the constructor and start() of the service.                  *)
Restart ==
  /\ ~up
  /\ \/ file = None /\ Wake(Running, 0) /\ UNCHANGED <<file, faults, standing>>
     \/ file = Unreadable /\ Wake(Failed, 1) /\ UNCHANGED <<file, faults, standing>>
     \/ /\ Written /\ ~Expired
        /\ Wake(Restored, 1)
        /\ UNCHANGED <<file, faults, standing>>
     \/ /\ Written /\ Expired
        /\ Wake(Running, 0)
        /\ file' = None
        /\ standing' = None
        /\ UNCHANGED faults
     \/ /\ Written /\ Expired /\ faults < MaxFaults
        /\ faults' = faults + 1
        /\ Wake(Failed, 1)
        /\ UNCHANGED <<file, standing>>

------------------------------------------------------------------------------
Init ==
  /\ up = FALSE /\ clock = 0
  /\ file \in {None, Unreadable}
  /\ value = Running /\ revision = 0 /\ timer = None /\ admitting = FALSE
  /\ queue = <<>> /\ busy = None /\ failing = "no"
  /\ task = NoTask
  /\ commands = 0 /\ faults = 0 /\ crashes = 0
  /\ standing = None /\ confirmed = None

Next ==
  \/ \E d \in Durations \cup {None} : Pause(d)
  \/ Resume \/ TimerFires
  \/ Begin \/ Write \/ WriteFails \/ AutoResumeFails \/ Finish
  \/ Retry \/ LoadedAgain \/ GiveUp \/ Released \/ ReleaseFails
  \/ Tick \/ Crash \/ Restart

Spec == Init /\ [][Next]_vars

(* Timers and the clock go on, queued mutations and their file operations  *)
(* run, the release has deadlines, and the container is restarted.         *)
Fairness ==
  /\ WF_vars(Tick) /\ WF_vars(TimerFires) /\ WF_vars(Restart)
  /\ WF_vars(Begin) /\ WF_vars(Write \/ WriteFails) /\ WF_vars(Finish)
  /\ WF_vars(AutoResumeFails)
  /\ WF_vars(Retry) /\ WF_vars(GiveUp) /\ WF_vars(Released \/ ReleaseFails)

FairSpec == Spec /\ Fairness

------------------------------------------------------------------------------
(* Properties *)

(* Types; only a pause is written; a timer runs only for a pause that is   *)
(* confirmed and has a deadline; a running service has no task to release. *)
TypeOK ==
  /\ up \in BOOLEAN /\ clock \in Nat
  /\ file \in State \cup {None, Unreadable}
  /\ Written => file.state # "running"
  /\ value \in State /\ revision \in Nat
  /\ timer # None => up /\ timer = value.resumeAt /\ value.state = "paused"
  /\ queue \in Seq(Mutation)
  /\ busy \in Operation \cup {None}
  /\ failing \in {"no", "next", "now"}
  /\ task \in [at : {"none", "marking", "saving", "failed"}, revision : Nat]
  /\ admitting \in BOOLEAN
  /\ commands \in 0..MaxCommands /\ faults \in 0..MaxFaults /\ crashes \in 0..MaxCrashes
  /\ standing \in 1..MaxCommands \cup {None}
  /\ confirmed \in 0..MaxCommands \cup {None}

(* A pause that was acknowledged outlives crashes, failing writes and the  *)
(* timers of the pauses it replaced: until a resume is asked for or its    *)
(* deadline passes it is on disk and, in a running process, admission is   *)
(* closed. (What the timer of a replaced pause can do before the new one   *)
(* is acknowledged is ManualPauseRemains.)                                 *)
PauseSurvives ==
  standing # None =>
    /\ file # None
    /\ up => Paused /\ ~admitting

(* The scheduler admits requests exactly when the state is running, also   *)
(* after a write that failed, a failed automatic resume and a restart.     *)
AdmissionFollows == up => (admitting <=> ~Paused)

(* gpu_released is reported only for the pause, and by the process, for    *)
(* which Ollama was seen to hold no model: never from the release of a     *)
(* replaced pause, nor from the file.                                      *)
ReleaseNeverStale == value.released => up /\ confirmed = value.id

TimedPause(c) == Written /\ file.id = c /\ file.resumeAt # None

(* A timed pause whose deadline is set ends by itself, is replaced, or     *)
(* loses its deadline to a release that failed or is done again: crashes   *)
(* and restarts do not leave it waiting.                                   *)
TimedPauseEnds ==
  \A c \in 0..MaxCommands : TimedPause(c) ~> ~TimedPause(c)

(* What README.md:409 says: "a manual pause remains until resumed". The    *)
(* timer of a pause it replaces can fire while it is being written.        *)
ManualPauseRemains ==
  [][up /\ up' /\ Paused /\ value.state # "error" /\ value.duration = None /\ ~Paused'
       => busy.op = Resuming("manual")]_vars

==============================================================================
