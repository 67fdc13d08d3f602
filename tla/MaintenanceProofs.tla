--------------------------- MODULE MaintenanceProofs ---------------------------
(***************************************************************************)
(* What module Maintenance promises whatever the durations and however     *)
(* many commands, failures and crashes there are. The argument rests on    *)
(* the serialized mutations: a mutation that is under way was judged by a  *)
(* state that only failClosed() can have changed since, and at most one    *)
(* mark of the release task is waiting or under way.                       *)
(***************************************************************************)
EXTENDS Maintenance, TLAPS

MarkKinds == {"markReleasing", "markReleased", "markError"}

MarkAt(i) == i \in DOMAIN queue /\ queue[i].kind \in MarkKinds

BusyWith(kinds) == busy # None /\ busy.op.kind \in kinds

(* A process that is down has nothing in memory. *)
DownIsEmpty ==
  ~up => /\ queue = <<>> /\ busy = None /\ failing = "no"
         /\ value = Running /\ task = NoTask

(* A mutation was begun on a pause, unless it begins one, and so was the   *)
(* automatic resume that has failed. *)
BegunOnPause ==
  /\ BusyWith({"resume"} \cup MarkKinds) => Paused
  /\ failing # "no" => Paused

(* What a mutation will make of the state, and when its file has it. *)
OperationMeans ==
  busy # None =>
    /\ busy.next.state = "running" <=> busy.op.kind = "resume"
    /\ busy.next.released => busy.op.kind = "markReleased"
    /\ busy.op.kind = "markReleased" => busy.next.state = "paused"
    /\ busy.op.kind # "markReleased" => busy.next.resumeAt = None
    /\ busy.written /\ busy.op.kind # "resume" => file # None

(* A resume that is waiting or under way was asked for. *)
ResumeAsked == ResumeQueued \/ BusyWith({"resume"}) => standing = None

(* The task has one mark at most, and is where it waits for it. *)
OneMark ==
  /\ \A i, j \in DOMAIN queue : MarkAt(i) /\ MarkAt(j) => i = j
  /\ BusyWith(MarkKinds) => \A i \in DOMAIN queue : ~MarkAt(i)
  /\ \A i \in DOMAIN queue :
       MarkAt(i) => task.at = IF queue[i].kind = "markReleasing" THEN "marking" ELSE "saving"
  /\ BusyWith({"markReleasing"}) => task.at = "marking"
  /\ BusyWith({"markReleased", "markError"}) => task.at = "saving"

(* A mark of a release that is not stale is one this process has seen. *)
MarksAreTrue ==
  /\ \A i \in DOMAIN queue : queue[i].kind = "markReleased" =>
       /\ queue[i].revision <= revision
       /\ queue[i].revision = revision /\ Paused => confirmed = value.id
  /\ BusyWith({"markReleased"}) => confirmed = busy.next.id

IInv ==
  /\ TypeOK
  /\ DownIsEmpty
  /\ BegunOnPause
  /\ OperationMeans
  /\ ResumeAsked
  /\ AdmissionFollows
  /\ PauseSurvives
  /\ OneMark
  /\ MarksAreTrue
  /\ ReleaseNeverStale

------------------------------------------------------------------------------
(* The queue of mutations *)

LEMMA Appended ==
  ASSUME NEW S, NEW s \in Seq(S), NEW e \in S
  PROVE  /\ Append(s, e) \in Seq(S)
         /\ DOMAIN Append(s, e) = DOMAIN s \cup {Len(s) + 1}
         /\ Len(s) + 1 \notin DOMAIN s
         /\ \A i \in DOMAIN s : Append(s, e)[i] = s[i]
         /\ Append(s, e)[Len(s) + 1] = e
OBVIOUS

LEMMA Served ==
  ASSUME NEW S, NEW s \in Seq(S), s # <<>>
  PROVE  /\ Tail(s) \in Seq(S)
         /\ Head(s) \in S /\ Head(s) = s[1] /\ 1 \in DOMAIN s
         /\ \A i \in DOMAIN Tail(s) :
              /\ i \in Nat /\ i # 0 /\ i + 1 \in DOMAIN s
              /\ Tail(s)[i] = s[i + 1]
OBVIOUS

LEMMA ShortQueues ==
  /\ <<>> \in Seq(Mutation) /\ DOMAIN <<>> = {}
  /\ \A m \in Mutation :
       <<m>> \in Seq(Mutation) /\ DOMAIN <<m>> = {1} /\ <<m>>[1] = m
OBVIOUS

------------------------------------------------------------------------------
(* Types *)

LEMMA ConstantFacts ==
  /\ None \notin Nat /\ None \notin State /\ None \notin Operation
  /\ Unreadable \notin State /\ Unreadable # None
  /\ Durations \subseteq Nat
  /\ 0 \in 0..MaxCommands /\ 0 \in 0..MaxFaults /\ 0 \in 0..MaxCrashes
  /\ \A c \in 0..MaxCommands : c < MaxCommands => c + 1 \in 1..MaxCommands
  /\ \A c \in 0..MaxFaults : c < MaxFaults => c + 1 \in 0..MaxFaults
  /\ \A c \in 0..MaxCrashes : c < MaxCrashes => c + 1 \in 0..MaxCrashes
BY BoundsAssumption

LEMMA StateTypes ==
  /\ Running \in State /\ Failed \in State
  /\ Running.state = "running" /\ Failed.state = "error"
  /\ Failed.id = 0 /\ ~Running.released /\ ~Failed.released
BY ConstantFacts DEF State, Running, Failed

LEMMA MutationTypes ==
  /\ \A id \in 1..MaxCommands, d \in Durations \cup {None} :
       [kind |-> "begin", id |-> id, duration |-> d] \in Mutation
  /\ Resuming("manual") \in Mutation /\ Resuming("timer") \in Mutation
  /\ \A kind \in MarkKinds, r \in Nat : [kind |-> kind, revision |-> r] \in Mutation
BY DEF Mutation, MarkKinds, Resuming

LEMMA TaskTypes ==
  /\ NoTask \in [at : {"none", "marking", "saving", "failed"}, revision : Nat]
  /\ NoTask.at = "none"
BY DEF NoTask

(* The kinds are exclusive, and say which fields a mutation has. *)
LEMMA Kinds ==
  ASSUME NEW m \in Mutation
  PROVE  /\ m.kind \in {"begin", "resume"} \cup MarkKinds
         /\ m.kind = "begin" => m.id \in 1..MaxCommands /\ m.duration \in Durations \cup {None}
         /\ m.kind \in MarkKinds => m.revision \in Nat
BY DEF Mutation, MarkKinds

LEMMA EffectType ==
  ASSUME value \in State, clock \in Nat, NEW m \in Mutation, Paused \/ m.kind = "begin"
  PROVE  /\ Effect(m) \in State
         /\ Effect(m).state = "running" <=> m.kind = "resume"
         /\ Effect(m).released => m.kind = "markReleased"
         /\ m.kind = "markReleased" => Effect(m).state = "paused" /\ Effect(m).id = value.id
         /\ m.kind # "markReleased" => Effect(m).resumeAt = None
<1>1. CASE m.kind = "begin"
  <2>1. Effect(m) = Pausing(m.id, m.duration)
    BY <1>1 DEF Effect
  <2>2. m.id \in 0..MaxCommands /\ m.duration \in Durations \cup {None}
    BY <1>1, Kinds, BoundsAssumption
  <2>3. /\ Pausing(m.id, m.duration) \in State
        /\ Pausing(m.id, m.duration).state = "pausing"
        /\ Pausing(m.id, m.duration).released = FALSE
        /\ Pausing(m.id, m.duration).resumeAt = None
    BY <2>2 DEF Pausing, Running, State
  <2>. QED BY <1>1, <2>1, <2>3
<1>2. CASE m.kind = "resume"
  <2>1. Effect(m) = Running
    BY <1>2 DEF Effect
  <2>. QED BY <1>2, <2>1, StateTypes DEF Running
<1>3. CASE m.kind = "markReleasing"
  BY <1>3 DEF Effect, State
<1>4. CASE m.kind = "markReleased"
  <2>1. Deadline(value) \in Nat \cup {None}
    <3>1. value.resumeAt \in Nat \cup {None} /\ value.duration \in Durations \cup {None}
      BY DEF State
    <3>2. value.duration # None => value.duration \in Nat
      BY <3>1, ConstantFacts
    <3>3. value.duration # None => clock + value.duration \in Nat
      BY <3>2
    <3>. QED BY <3>1, <3>3 DEF Deadline
  <2>. QED BY <1>4, <2>1 DEF Effect, State
<1>5. CASE m.kind = "markError"
  BY <1>5 DEF Effect, State
<1>. QED BY <1>1, <1>2, <1>3, <1>4, <1>5, Kinds DEF MarkKinds

(* A mutation that changes the state was not dropped: it found a pause. *)
LEMMA NotDropped ==
  ASSUME NEW m \in Mutation, ~Dropped(m), m.kind # "begin"
  PROVE  /\ Paused
         /\ m.kind \in MarkKinds => m.revision = revision
BY Kinds DEF Dropped, Stale, MarkKinds

LEMMA TypeInitial == Init => TypeOK
<1>. SUFFICES ASSUME Init PROVE TypeOK
  OBVIOUS
<1>1. file \in {None, Unreadable}
  BY DEF Init
<1>. QED BY <1>1, ConstantFacts, StateTypes, TaskTypes, ShortQueues
     DEF Init, TypeOK, Written

LEMMA TypeInductive == TypeOK /\ OperationMeans /\ DownIsEmpty /\ BegunOnPause /\ [Next]_vars => TypeOK'
<1>. SUFFICES ASSUME TypeOK, OperationMeans, DownIsEmpty, BegunOnPause, [Next]_vars
              PROVE  TypeOK'
  OBVIOUS
<1>. USE ConstantFacts
<1>. USE DEF memory, turns, counts, seen
<1>1. ASSUME NEW d \in Durations \cup {None}, Pause(d) PROVE TypeOK'
  <2>1. commands' \in 1..MaxCommands /\ commands' \in 0..MaxCommands
    BY <1>1 DEF Pause, TypeOK
  <2>2. queue' \in Seq(Mutation)
    BY <1>1, <2>1, MutationTypes, Appended DEF Pause, Enqueue, TypeOK
  <2>. QED BY <1>1, <2>1, <2>2 DEF Pause, TypeOK, Written
<1>2. CASE Resume
  <2>1. commands' \in 0..MaxCommands
    BY <1>2 DEF Resume, TypeOK
  <2>2. queue' \in Seq(Mutation)
    BY <1>2, MutationTypes, Appended DEF Resume, Enqueue, TypeOK
  <2>. QED BY <1>2, <2>1, <2>2 DEF Resume, TypeOK, Written
<1>3. CASE TimerFires
  <2>1. queue' \in Seq(Mutation)
    BY <1>3, MutationTypes, Appended DEF TimerFires, Enqueue, TypeOK
  <2>2. timer' # None => timer' = value.resumeAt /\ timer # None
    BY <1>3 DEF TimerFires
  <2>. QED BY <1>3, <2>1, <2>2 DEF TimerFires, TypeOK, Written
<1>4. CASE Begin
  <2>1. queue' \in Seq(Mutation) /\ Head(queue) \in Mutation
    BY <1>4, Served DEF Begin, TypeOK
  <2>2. busy' \in Operation \cup {None}
    BY <1>4, <2>1, EffectType, NotDropped DEF Begin, TypeOK, Operation
  <2>3. task' \in [at : {"none", "marking", "saving", "failed"}, revision : Nat]
    BY <1>4, TaskTypes DEF Begin, TypeOK
  <2>. QED BY <1>4, <2>1, <2>2, <2>3 DEF Begin, TypeOK, Written
<1>5. CASE Write
  <2>1. busy' \in Operation
    BY <1>5 DEF Write, Working, TypeOK, Operation
  <2>2. file' \in State \cup {None} /\ (file' # None => file'.state # "running")
    BY <1>5 DEF Write, Working, TypeOK, Operation, OperationMeans
  <2>. QED BY <1>5, <2>1, <2>2 DEF Write, TypeOK, Written
<1>6. ASSUME FailClosed, UNCHANGED <<up, clock, file>> PROVE
        /\ value' \in State /\ revision' \in Nat /\ timer' = None /\ admitting' \in BOOLEAN
  BY <1>6, StateTypes DEF FailClosed, TypeOK
<1>7. CASE WriteFails
  <2>1. /\ value' \in State /\ revision' \in Nat /\ admitting' \in BOOLEAN
        /\ timer' # None => timer' = timer /\ value' = value
    BY <1>6, <1>7 DEF WriteFails, TypeOK, FailClosed
  <2>2. task' \in [at : {"none", "marking", "saving", "failed"}, revision : Nat]
    BY <1>7, TaskTypes DEF WriteFails, TypeOK
  <2>3. failing' \in {"no", "next", "now"} /\ faults' \in 0..MaxFaults
    BY <1>7 DEF WriteFails, TypeOK
  <2>. QED BY <1>7, <2>1, <2>2, <2>3 DEF WriteFails, TypeOK, Written
<1>8. CASE AutoResumeFails
  BY <1>6, <1>8 DEF AutoResumeFails, TypeOK, Written
<1>9. CASE Finish
  <2>1. /\ busy \in Operation /\ up
        /\ busy.op \in Mutation /\ busy.next \in State
    BY <1>9 DEF Finish, Working, Quiet, TypeOK, Operation
  <2>2. timer' # None => timer' = busy.next.resumeAt /\ busy.next.state = "paused"
    BY <1>9, <2>1 DEF Finish, TimerAfter, OperationMeans
  <2>3. revision' \in Nat
    BY <1>9 DEF Finish, TypeOK
  <2>4. task' \in [at : {"none", "marking", "saving", "failed"}, revision : Nat]
    BY <1>9, <2>3, TaskTypes DEF Finish, TypeOK
  <2>5. queue' \in Seq(Mutation)
    BY <1>9, <2>3, MutationTypes, Appended DEF Finish, TypeOK, MarkKinds
  <2>6. standing' \in 1..MaxCommands \cup {None}
    BY <1>9, <2>1, Kinds DEF Finish, TypeOK
  <2>7. admitting' \in BOOLEAN /\ value' \in State
    BY <1>9, <2>1 DEF Finish, TypeOK
  <2>. QED BY <1>9, <2>1, <2>2, <2>3, <2>4, <2>5, <2>6, <2>7 DEF Finish, TypeOK, Written
<1>10. CASE Retry \/ LoadedAgain
  <2>1. Kick
    BY <1>10 DEF Retry, LoadedAgain
  <2>2. queue' \in Seq(Mutation)
    BY <2>1, MutationTypes, Appended DEF Kick, Enqueue, TypeOK, MarkKinds
  <2>3. task' \in [at : {"none", "marking", "saving", "failed"}, revision : Nat]
    BY <2>1 DEF Kick, TypeOK
  <2>4. faults' \in 0..MaxFaults
    BY <1>10 DEF Retry, LoadedAgain, TypeOK
  <2>. QED BY <2>1, <2>2, <2>3, <2>4 DEF Kick, TypeOK, Written
<1>11. CASE GiveUp
  BY <1>11, TaskTypes DEF GiveUp, TypeOK, Written
<1>12. CASE Released
  <2>1. queue' \in Seq(Mutation)
    BY <1>12, MutationTypes, Appended DEF Released, Enqueue, TypeOK, MarkKinds
  <2>2. confirmed' \in 0..MaxCommands
    BY <1>12 DEF Released, TypeOK, State
  <2>. QED BY <1>12, <2>1, <2>2 DEF Released, TypeOK, Written
<1>13. CASE ReleaseFails
  <2>1. queue' \in Seq(Mutation)
    BY <1>13, MutationTypes, Appended DEF ReleaseFails, Enqueue, TypeOK, MarkKinds
  <2>2. faults' \in 0..MaxFaults
    BY <1>13 DEF ReleaseFails, TypeOK
  <2>. QED BY <1>13, <2>1, <2>2 DEF ReleaseFails, TypeOK, Written
<1>14. CASE Tick
  BY <1>14 DEF Tick, TypeOK, Written
<1>15. CASE Crash
  BY <1>15, StateTypes, TaskTypes, ShortQueues DEF Crash, TypeOK, Written
<1>16. CASE Restart
  <2>1. Written => Restored \in State /\ Restored.state = "pausing"
    BY DEF Written, Restored, TypeOK, State
  <2>2. ASSUME NEW v \in State, NEW r \in Nat, Wake(v, r)
        PROVE  /\ queue' \in Seq(Mutation)
               /\ task' \in [at : {"none", "marking", "saving", "failed"}, revision : Nat]
               /\ admitting' \in BOOLEAN /\ up' /\ value' \in State /\ revision' \in Nat
               /\ UNCHANGED <<clock, timer, busy, failing, commands, crashes, confirmed>>
    <3>1. queue' = queue \/ queue' = <<[kind |-> "markReleasing", revision |-> r]>>
      BY <2>2 DEF Wake
    <3>2. [kind |-> "markReleasing", revision |-> r] \in Mutation
      BY <2>2, MutationTypes DEF MarkKinds
    <3>3. queue' \in Seq(Mutation)
      BY <3>1, <3>2, ShortQueues DEF TypeOK
    <3>. QED BY <2>2, <3>3 DEF Wake, Admits, TypeOK
  <2>3. /\ \E v \in State, r \in Nat : Wake(v, r)
        /\ file' = file \/ file' = None
        /\ standing' = standing \/ standing' = None
        /\ faults' \in 0..MaxFaults
    BY <1>16, <2>1, StateTypes DEF Restart, TypeOK
  <2>4. timer = None
    BY <1>16 DEF Restart, TypeOK
  <2>. QED BY <2>2, <2>3, <2>4 DEF TypeOK, Written
<1>17. CASE UNCHANGED vars
  BY <1>17 DEF vars, TypeOK, Written
<1>. QED BY <1>1, <1>2, <1>3, <1>4, <1>5, <1>7, <1>8, <1>9, <1>10, <1>11, <1>12, <1>13,
            <1>14, <1>15, <1>16, <1>17 DEF Next

------------------------------------------------------------------------------
(* The marks of the task *)

NoMark == (\A i \in DOMAIN queue : ~MarkAt(i)) /\ ~BusyWith(MarkKinds)

(* A task that waits for no mark has none; nor has one that was answered. *)
LEMMA AnsweredHasNoMark ==
  ASSUME OneMark,
         \/ task.at \notin {"marking", "saving"}
         \/ task.at = "marking" /\ ~MarkPending("markReleasing")
  PROVE  NoMark
BY DEF OneMark, NoMark, MarkAt, BusyWith, MarkKinds, MarkPending

(* A command or a timer joins the queue. *)
LEMMA CommandQueued ==
  ASSUME IInv, NEW m \in Mutation, m.kind \notin MarkKinds, queue' = Append(queue, m),
         UNCHANGED <<busy, task, value, revision, confirmed>>
  PROVE  /\ OneMark' /\ MarksAreTrue'
         /\ ResumeQueued' <=> ResumeQueued \/ m.kind = "resume"
<1>1. /\ DOMAIN queue' = DOMAIN queue \cup {Len(queue) + 1}
      /\ Len(queue) + 1 \notin DOMAIN queue
      /\ \A i \in DOMAIN queue : queue'[i] = queue[i]
      /\ queue'[Len(queue) + 1] = m
  BY Appended DEF IInv, TypeOK
<1>2. \A i \in DOMAIN queue' :
        MarkAt(i)' <=> i \in DOMAIN queue /\ MarkAt(i)
  BY <1>1 DEF MarkAt
<1>3. OneMark'
  BY <1>1, <1>2 DEF IInv, OneMark, BusyWith
<1>4. MarksAreTrue'
  BY <1>1 DEF IInv, MarksAreTrue, BusyWith, Paused, MarkKinds
<1>5. ResumeQueued' <=> ResumeQueued \/ m.kind = "resume"
  BY <1>1 DEF ResumeQueued
<1>. QED BY <1>3, <1>4, <1>5

(* The task writes a mark, when it has none. *)
LEMMA MarkQueued ==
  ASSUME TypeOK, NoMark, NEW kind \in MarkKinds, NEW r \in Nat,
         queue' = Append(queue, [kind |-> kind, revision |-> r]),
         busy' = busy \/ busy' = None,
         task'.at = IF kind = "markReleasing" THEN "marking" ELSE "saving",
         kind = "markReleased" => r <= revision' /\ confirmed' = value'.id
  PROVE  /\ OneMark' /\ MarksAreTrue'
         /\ ResumeQueued' <=> ResumeQueued
<1>. DEFINE m == [kind |-> kind, revision |-> r]
<1>1. /\ DOMAIN queue' = DOMAIN queue \cup {Len(queue) + 1}
      /\ Len(queue) + 1 \notin DOMAIN queue
      /\ \A i \in DOMAIN queue : queue'[i] = queue[i]
      /\ queue'[Len(queue) + 1] = m
  BY Appended, MutationTypes DEF TypeOK
<1>2. m.kind = kind /\ m.revision = r
  OBVIOUS
<1>3. \A i \in DOMAIN queue' : MarkAt(i)' => i = Len(queue) + 1
  BY <1>1 DEF NoMark, MarkAt
<1>4. ~BusyWith(MarkKinds)' /\ ~BusyWith({"markReleasing"})'
      /\ ~BusyWith({"markReleased", "markError"})' /\ ~BusyWith({"markReleased"})'
  BY DEF NoMark, BusyWith, MarkKinds
<1>5. OneMark'
  BY <1>1, <1>2, <1>3, <1>4 DEF OneMark
<1>6. \A i \in DOMAIN queue' : queue'[i].kind = "markReleased" => i = Len(queue) + 1
  BY <1>3 DEF MarkAt, MarkKinds
<1>7. MarksAreTrue'
  BY <1>1, <1>2, <1>4, <1>6 DEF MarksAreTrue
<1>8. ResumeQueued' <=> ResumeQueued
  BY <1>1, <1>2 DEF ResumeQueued, MarkKinds
<1>. QED BY <1>5, <1>7, <1>8

------------------------------------------------------------------------------
(* The invariant is inductive: one lemma for each kind of step *)

LEMMA Initially == Init => IInv
<1>. SUFFICES ASSUME Init PROVE IInv
  OBVIOUS
<1>1. TypeOK
  BY TypeInitial
<1>2. queue = <<>> /\ DOMAIN queue = {}
  BY ShortQueues DEF Init
<1>. QED BY <1>1, <1>2, StateTypes
     DEF Init, IInv, DownIsEmpty, BegunOnPause, OperationMeans, ResumeAsked, ResumeQueued,
         AdmissionFollows, PauseSurvives, OneMark, MarksAreTrue, ReleaseNeverStale, BusyWith

(* A command arrives, or the timer fires. *)
LEMMA CommandsKeep ==
  ASSUME IInv, TypeOK',
         (\E d \in Durations \cup {None} : Pause(d)) \/ Resume \/ TimerFires
  PROVE  IInv'
<1>1. /\ up /\ failing = "no"
      /\ UNCHANGED <<up, file, value, revision, admitting, busy, failing, task, confirmed>>
      /\ standing' = standing \/ standing' = None
  BY DEF Pause, Resume, TimerFires, Quiet, memory, seen
<1>2. \/ queue' = queue
      \/ \E m \in Mutation :
           /\ m.kind \notin MarkKinds /\ queue' = Append(queue, m)
           /\ m.kind = "resume" => standing' = None
  <2>1. ASSUME NEW d \in Durations \cup {None}, Pause(d) PROVE <1>2!2
    <3>1. commands' \in 1..MaxCommands
      BY <2>1, ConstantFacts DEF Pause, IInv, TypeOK
    <3>. DEFINE m == [kind |-> "begin", id |-> commands', duration |-> d]
    <3>2. m \in Mutation /\ m.kind = "begin"
      BY <3>1, MutationTypes
    <3>. QED BY <2>1, <3>2 DEF Pause, Enqueue, MarkKinds
  <2>2. CASE Resume
    BY <2>2, MutationTypes DEF Resume, Enqueue, Resuming, MarkKinds
  <2>3. CASE TimerFires
    <3>1. timer = value.resumeAt
      BY <2>3 DEF TimerFires, IInv, TypeOK
    <3>. QED BY <2>3, <3>1, MutationTypes DEF TimerFires, Enqueue, Resuming, MarkKinds
  <2>. QED BY <2>1, <2>2, <2>3
<1>3. OneMark' /\ MarksAreTrue' /\ ResumeAsked'
  <2>1. CASE queue' = queue
    BY <1>1, <2>1 DEF IInv, OneMark, MarksAreTrue, ResumeAsked, ResumeQueued, MarkAt,
       BusyWith, Paused
  <2>2. ASSUME NEW m \in Mutation, m.kind \notin MarkKinds, queue' = Append(queue, m),
               m.kind = "resume" => standing' = None
        PROVE  OneMark' /\ MarksAreTrue' /\ ResumeAsked'
    <3>1. /\ OneMark' /\ MarksAreTrue'
          /\ ResumeQueued' <=> ResumeQueued \/ m.kind = "resume"
      BY <1>1, <2>2, CommandQueued
    <3>. QED BY <1>1, <2>2, <3>1 DEF IInv, ResumeAsked, BusyWith
  <2>. QED BY <1>2, <2>1, <2>2
<1>. QED BY <1>1, <1>3 DEF IInv, DownIsEmpty, BegunOnPause, OperationMeans,
       AdmissionFollows, PauseSurvives, ReleaseNeverStale, BusyWith, Paused

(* A mutation is begun, or dropped. *)
LEMMA BeginKeeps ==
  ASSUME IInv, TypeOK', Begin
  PROVE  IInv'
<1>. DEFINE m == Head(queue)
<1>1. /\ m \in Mutation /\ m = queue[1] /\ 1 \in DOMAIN queue
      /\ \A i \in DOMAIN queue' :
           i \in Nat /\ i # 0 /\ i + 1 \in DOMAIN queue /\ queue'[i] = queue[i + 1]
  BY Served DEF IInv, TypeOK, Begin
<1>2. /\ up /\ busy = None
      /\ UNCHANGED <<up, file, value, revision, admitting, standing, confirmed>>
      /\ failing' # "no" => failing # "no"
  BY DEF Begin, memory, seen
<1>3. \/ Dropped(m) /\ busy' = None
      \/ ~Dropped(m) /\ busy' = [op |-> m, next |-> Effect(m), written |-> FALSE]
  BY DEF Begin
<1>4. BusyWith({"begin", "resume"} \cup MarkKinds)' =>
        /\ ~Dropped(m) /\ busy'.op = m /\ busy'.next = Effect(m) /\ ~busy'.written
        /\ m.kind # "begin" => Paused /\ (m.kind \in MarkKinds => m.revision = revision)
        /\ Effect(m).state = "running" <=> m.kind = "resume"
        /\ Effect(m).released => m.kind = "markReleased"
        /\ m.kind = "markReleased" => Effect(m).state = "paused" /\ Effect(m).id = value.id
        /\ m.kind # "markReleased" => Effect(m).resumeAt = None
  BY <1>1, <1>3, NotDropped, EffectType DEF BusyWith, IInv, TypeOK
<1>5. busy' # None => BusyWith({"begin", "resume"} \cup MarkKinds)'
  BY <1>1, <1>3, Kinds DEF BusyWith
<1>6. BegunOnPause' /\ OperationMeans'
  BY <1>2, <1>4, <1>5 DEF IInv, BegunOnPause, OperationMeans, BusyWith, Paused, MarkKinds
<1>7. ResumeAsked'
  BY <1>1, <1>2, <1>4, <1>5 DEF IInv, ResumeAsked, ResumeQueued, BusyWith
<1>8. OneMark'
  <2>1. \A i \in DOMAIN queue' : MarkAt(i)' => MarkAt(i + 1) /\ i + 1 # 1
    BY <1>1 DEF MarkAt
  <2>2. m.kind \in MarkKinds => \A i \in DOMAIN queue' : ~MarkAt(i)'
    BY <1>1, <2>1 DEF IInv, OneMark, MarkAt
  <2>3. task' = task \/ (busy' = None /\ m.kind \in MarkKinds)
    BY DEF Begin, MarkKinds
  <2>4. m.kind \in MarkKinds =>
          task.at = IF m.kind = "markReleasing" THEN "marking" ELSE "saving"
    BY <1>1 DEF IInv, OneMark, MarkAt
  <2>5. \A i, j \in DOMAIN queue' : MarkAt(i)' /\ MarkAt(j)' => i = j
    BY <1>1, <2>1 DEF IInv, OneMark
  <2>6. BusyWith(MarkKinds)' => m.kind \in MarkKinds /\ task' = task
    BY <1>4, <2>3 DEF BusyWith
  <2>7. \A i \in DOMAIN queue' : MarkAt(i)' =>
          task'.at = IF queue'[i].kind = "markReleasing" THEN "marking" ELSE "saving"
    BY <1>1, <2>1, <2>2, <2>3 DEF IInv, OneMark
  <2>8. /\ BusyWith({"markReleasing"})' => task'.at = "marking"
        /\ BusyWith({"markReleased", "markError"})' => task'.at = "saving"
    BY <1>4, <2>3, <2>4 DEF BusyWith, MarkKinds
  <2>. QED BY <2>2, <2>5, <2>6, <2>7, <2>8 DEF OneMark
<1>9. MarksAreTrue'
  <2>1. \A i \in DOMAIN queue' : queue'[i].kind = "markReleased" =>
          /\ queue'[i].revision <= revision
          /\ queue'[i].revision = revision /\ Paused => confirmed = value.id
    BY <1>1 DEF IInv, MarksAreTrue
  <2>2. BusyWith({"markReleased"})' => confirmed = busy'.next.id
    BY <1>1, <1>4 DEF BusyWith, MarkKinds, IInv, MarksAreTrue
  <2>. QED BY <1>2, <2>1, <2>2 DEF MarksAreTrue, Paused
<1>. QED BY <1>2, <1>6, <1>7, <1>8, <1>9 DEF IInv, DownIsEmpty, AdmissionFollows,
       PauseSurvives, ReleaseNeverStale, Paused

(* The file operation succeeds. *)
LEMMA WriteKeeps ==
  ASSUME IInv, TypeOK', Write
  PROVE  IInv'
<1>1. /\ up /\ busy \in Operation /\ busy.next \in State /\ failing = "no" /\ busy # None
      /\ busy' \in Operation /\ busy'.op = busy.op /\ busy'.next = busy.next
      /\ busy'.written /\ busy' # None
      /\ file' = IF busy.op.kind = "resume" THEN None ELSE busy.next
      /\ UNCHANGED <<up, value, revision, admitting, queue, failing, task, standing, confirmed>>
  BY ConstantFacts DEF Write, Working, Quiet, IInv, TypeOK, Operation, memory, seen
<1>2. busy.op.kind = "resume" => standing = None
  BY <1>1 DEF IInv, ResumeAsked, BusyWith
<1>3. busy.op.kind # "resume" => file' # None
  BY <1>1, ConstantFacts
<1>4. PauseSurvives' /\ OperationMeans'
  BY <1>1, <1>2, <1>3 DEF IInv, PauseSurvives, OperationMeans, Paused
<1>. QED BY <1>1, <1>4 DEF IInv, DownIsEmpty, BegunOnPause, ResumeAsked, ResumeQueued,
       AdmissionFollows, OneMark, MarkAt, MarksAreTrue, ReleaseNeverStale, BusyWith, Paused

(* failClosed() closes a pause, and makes no release of it. *)
LEMMA FailClosedKeeps ==
  ASSUME IInv, TypeOK', FailClosed, up, up', Paused, queue' = queue, failing' = "no",
         UNCHANGED <<file, standing, confirmed>>,
         \/ UNCHANGED <<busy, task>>
         \/ busy' = None /\ ~\E i \in DOMAIN queue : MarkAt(i)
  PROVE  IInv'
<1>1. value' = Failed /\ revision' = revision + 1 /\ admitting' = admitting /\ Paused'
      /\ ~value'.released
  BY StateTypes DEF FailClosed, Paused
<1>2. OneMark'
  BY <1>1 DEF IInv, OneMark, MarkAt, BusyWith
<1>3. MarksAreTrue'
  <2>1. \A i \in DOMAIN queue : queue[i].kind = "markReleased" =>
          queue[i].revision \in Nat /\ revision \in Nat
    BY Kinds DEF IInv, TypeOK, MarkKinds
  <2>. QED BY <1>1, <2>1 DEF IInv, MarksAreTrue, BusyWith
<1>. QED BY <1>1, <1>2, <1>3 DEF IInv, DownIsEmpty, BegunOnPause, OperationMeans,
       ResumeAsked, ResumeQueued, AdmissionFollows, PauseSurvives, ReleaseNeverStale,
       BusyWith, Paused

(* The file operation fails. *)
LEMMA WriteFailsKeeps ==
  ASSUME IInv, TypeOK', WriteFails
  PROVE  IInv'
<1>1. /\ up /\ failing = "no" /\ busy # None /\ busy' = None
      /\ busy \in Operation /\ busy.op \in Mutation
      /\ UNCHANGED <<up, file, queue, standing, confirmed>>
  BY DEF WriteFails, Working, Quiet, IInv, TypeOK, Operation, seen
<1>2. busy.op.kind \in MarkKinds => \A i \in DOMAIN queue : ~MarkAt(i)
  BY <1>1 DEF IInv, OneMark, BusyWith
<1>3. busy.op.kind # "begin" => Paused
  BY <1>1, Kinds DEF IInv, BegunOnPause, BusyWith
<1>4. CASE busy.op.kind = "markError"
  <2>1. FailClosed /\ failing' = "no"
    BY <1>4 DEF WriteFails, Resuming
  <2>. QED BY <1>1, <1>2, <1>3, <1>4, <2>1, FailClosedKeeps DEF MarkKinds
<1>5. CASE busy.op.kind # "markError"
  <2>1. UNCHANGED <<value, revision, admitting>>
    BY <1>5 DEF WriteFails, memory
  <2>2. failing' # "no" => Paused
    BY <1>3 DEF WriteFails, Resuming
  <2>3. task' = task \/ \A i \in DOMAIN queue : ~MarkAt(i)
    BY <1>2, <1>5 DEF WriteFails, MarkKinds
  <2>4. OneMark'
    BY <1>1, <2>3 DEF IInv, OneMark, MarkAt, BusyWith
  <2>. QED BY <1>1, <2>1, <2>2, <2>4 DEF IInv, DownIsEmpty, BegunOnPause, OperationMeans,
         ResumeAsked, ResumeQueued, AdmissionFollows, PauseSurvives, MarksAreTrue,
         ReleaseNeverStale, BusyWith, Paused
<1>. QED BY <1>4, <1>5

LEMMA AutoResumeFailsKeeps ==
  ASSUME IInv, TypeOK', AutoResumeFails
  PROVE  IInv'
<1>1. /\ FailClosed /\ up /\ up' /\ Paused
      /\ failing' = "no" /\ UNCHANGED <<file, queue, busy, task, standing, confirmed>>
  BY DEF AutoResumeFails, IInv, BegunOnPause, seen
<1>. QED BY <1>1, FailClosedKeeps

(* The mutation takes effect. *)
LEMMA FinishKeeps ==
  ASSUME IInv, TypeOK', Finish
  PROVE  IInv'
<1>. DEFINE kind == busy.op.kind
<1>1. /\ up /\ failing = "no" /\ busy # None /\ busy.written /\ busy' = None
      /\ busy \in Operation /\ busy.op \in Mutation /\ busy.next \in State
      /\ value' = busy.next
      /\ UNCHANGED <<up, file, failing, confirmed>>
      /\ kind \in {"begin", "resume"} \cup MarkKinds
  BY Kinds DEF Finish, Working, Quiet, IInv, TypeOK, Operation
<1>2. /\ kind # "begin" => Paused
      /\ Paused' <=> kind # "resume"
      /\ busy.next.released => kind = "markReleased" /\ confirmed = busy.next.id
      /\ kind # "resume" => file # None
  BY <1>1 DEF IInv, BegunOnPause, OperationMeans, MarksAreTrue, BusyWith, Paused
<1>3. AdmissionFollows'
  BY <1>1, <1>2 DEF Finish, IInv, AdmissionFollows, MarkKinds
<1>4. ReleaseNeverStale'
  BY <1>1, <1>2 DEF ReleaseNeverStale
<1>5. /\ standing' = standing \/ (kind = "begin" /\ ~ResumeQueued) \/ standing' = None
      /\ ResumeQueued \/ kind = "resume" => standing' = None
  BY <1>1 DEF Finish, IInv, ResumeAsked, BusyWith
<1>6. PauseSurvives'
  BY <1>1, <1>2, <1>3, <1>5 DEF IInv, PauseSurvives, AdmissionFollows
<1>7. OneMark' /\ MarksAreTrue' /\ (ResumeQueued' <=> ResumeQueued)
  <2>1. /\ revision \in Nat
        /\ \A i \in DOMAIN queue : queue[i].kind = "markReleased" => queue[i].revision \in Nat
    BY Kinds DEF IInv, TypeOK, MarkKinds
  <2>2. CASE kind = "begin" /\ task = NoTask
    <3>1. NoMark
      BY <2>2, AnsweredHasNoMark, TaskTypes DEF IInv
    <3>2. /\ revision' = revision + 1
          /\ task' = [at |-> "marking", revision |-> revision']
          /\ task' # task
          /\ queue' = Append(queue, [kind |-> "markReleasing", revision |-> revision'])
      BY <2>2, TaskTypes DEF Finish
    <3>. QED BY <1>1, <2>1, <3>1, <3>2, MarkQueued DEF IInv, MarkKinds
  <2>3. CASE kind \in {"begin", "resume"} /\ ~(kind = "begin" /\ task = NoTask)
    <3>1. revision' = revision + 1 /\ task' = task /\ queue' = queue
      BY <2>3 DEF Finish
    <3>. QED BY <1>1, <2>1, <2>3, <3>1 DEF IInv, OneMark, MarksAreTrue, MarkAt, BusyWith,
                ResumeQueued
  <2>4. CASE kind \in MarkKinds
    <3>1. \A i \in DOMAIN queue : ~MarkAt(i)
      BY <1>1, <2>4 DEF IInv, OneMark, BusyWith
    <3>2. task' = task \/ task' = NoTask
      BY <2>4 DEF Finish, MarkKinds
    <3>3. task'.at = "marking" => task' = task
      BY <3>2, TaskTypes
    <3>4. queue' = queue
      BY <3>3 DEF Finish
    <3>. QED BY <1>1, <3>1, <3>4 DEF OneMark, MarksAreTrue, MarkAt, MarkKinds, BusyWith,
                ResumeQueued
  <2>. QED BY <1>1, <2>2, <2>3, <2>4
<1>. QED BY <1>1, <1>3, <1>4, <1>5, <1>6, <1>7 DEF IInv, DownIsEmpty, BegunOnPause,
       OperationMeans, ResumeAsked, BusyWith

(* The task starts, ends, or goes on to the next mark. *)
LEMMA TaskKeeps ==
  ASSUME IInv, TypeOK', Retry \/ LoadedAgain \/ GiveUp \/ Released \/ ReleaseFails
  PROVE  IInv'
<1>1. /\ up /\ failing = "no"
      /\ UNCHANGED <<up, file, value, revision, admitting, busy, failing, standing>>
  BY DEF Retry, LoadedAgain, Kick, GiveUp, Released, ReleaseFails, Marked, Quiet, memory,
       turns, seen
<1>2. NoMark
  BY AnsweredHasNoMark, TaskTypes
     DEF IInv, Retry, LoadedAgain, Kick, GiveUp, Released, ReleaseFails, Marked
<1>3. revision \in Nat /\ task.revision \in Nat
  BY DEF IInv, TypeOK
<1>4. /\ OneMark' /\ MarksAreTrue' /\ (ResumeQueued' <=> ResumeQueued)
      /\ ReleaseNeverStale'
  <2>1. CASE Retry \/ LoadedAgain
    <3>1. /\ task' = [at |-> "marking", revision |-> revision] /\ confirmed' = confirmed
          /\ queue' = Append(queue, [kind |-> "markReleasing", revision |-> revision])
      BY <2>1 DEF Retry, LoadedAgain, Kick, Enqueue, seen
    <3>. QED BY <1>1, <1>2, <1>3, <3>1, MarkQueued DEF IInv, MarkKinds, ReleaseNeverStale
  <2>2. CASE GiveUp
    <3>1. queue' = queue /\ confirmed' = confirmed
      BY <2>2 DEF GiveUp, turns, seen
    <3>. QED BY <1>1, <1>2, <3>1 DEF NoMark, OneMark, MarksAreTrue, MarkAt, MarkKinds,
                BusyWith, ResumeQueued, IInv, ReleaseNeverStale
  <2>3. CASE Released
    <3>1. /\ task' = [task EXCEPT !.at = "saving"] /\ confirmed' = value.id
          /\ queue' = Append(queue, [kind |-> "markReleased", revision |-> task.revision])
          /\ task.revision = revision
      BY <2>3 DEF Released, Enqueue, Stale
    <3>2. task'.at = "saving" /\ task.revision <= revision
      BY <1>3, <3>1 DEF IInv, TypeOK
    <3>3. ReleaseNeverStale'
      BY <1>1, <3>1 DEF ReleaseNeverStale
    <3>. QED BY <1>1, <1>2, <1>3, <3>1, <3>2, <3>3, MarkQueued DEF IInv, MarkKinds
  <2>4. CASE ReleaseFails
    <3>1. /\ task' = [task EXCEPT !.at = "saving"] /\ confirmed' = confirmed
          /\ queue' = Append(queue, [kind |-> "markError", revision |-> task.revision])
      BY <2>4 DEF ReleaseFails, Enqueue, seen
    <3>2. task'.at = "saving"
      BY <3>1 DEF IInv, TypeOK
    <3>. QED BY <1>1, <1>2, <1>3, <3>1, <3>2, MarkQueued DEF IInv, MarkKinds,
                ReleaseNeverStale
  <2>. QED BY <2>1, <2>2, <2>3, <2>4
<1>. QED BY <1>1, <1>4 DEF IInv, DownIsEmpty, BegunOnPause, OperationMeans, ResumeAsked,
       AdmissionFollows, PauseSurvives, BusyWith, Paused

LEMMA TimeKeeps ==
  ASSUME IInv, TypeOK', Tick \/ UNCHANGED vars
  PROVE  IInv'
<1>1. UNCHANGED <<up, file, value, revision, admitting, queue, busy, failing, task, standing,
                  confirmed>>
  BY DEF Tick, vars, memory, turns, seen
<1>. QED BY <1>1 DEF IInv, DownIsEmpty, BegunOnPause, OperationMeans, ResumeAsked,
       ResumeQueued, AdmissionFollows, PauseSurvives, OneMark, MarkAt, MarksAreTrue,
       ReleaseNeverStale, BusyWith, Paused

LEMMA CrashKeeps ==
  ASSUME IInv, TypeOK', Crash
  PROVE  IInv'
<1>1. /\ ~up' /\ value' = Running /\ queue' = <<>> /\ busy' = None /\ failing' = "no"
      /\ task' = NoTask /\ UNCHANGED <<file, standing>>
  BY DEF Crash
<1>2. DOMAIN queue' = {}
  BY <1>1, ShortQueues
<1>. QED BY <1>1, <1>2, StateTypes DEF IInv, DownIsEmpty, BegunOnPause, OperationMeans,
       ResumeAsked, ResumeQueued, AdmissionFollows, PauseSurvives, OneMark, MarksAreTrue,
       ReleaseNeverStale, BusyWith

(* The process starts: paused if the file says so or cannot say. *)
LEMMA RestartKeeps ==
  ASSUME IInv, TypeOK', Restart
  PROVE  IInv'
<1>1. ~up /\ queue = <<>> /\ busy = None /\ failing = "no" /\ DOMAIN queue = {}
  BY ShortQueues DEF Restart, IInv, DownIsEmpty
<1>2. PICK v \in State, r \in Nat :
        /\ Wake(v, r)
        /\ ~v.released
        /\ standing' = standing \/ standing' = None
        /\ \/ v.state # "running" /\ file' = file
           \/ v.state = "running" /\ standing' = None
  <2>1. Written => /\ Restored \in State /\ Restored.state = "pausing"
                   /\ ~Restored.released
    BY DEF Written, Restored, IInv, TypeOK, State
  <2>2. file = None => standing = None
    BY DEF IInv, PauseSurvives
  <2>. QED BY <2>1, <2>2, StateTypes DEF Restart
<1>3. ~v.released
  BY <1>2
<1>4. /\ up' /\ value' = v /\ busy' = None /\ failing' = "no" /\ confirmed' = confirmed
      /\ admitting' = (v.state = "running")
  BY <1>1, <1>2 DEF Wake, Admits
<1>5. OneMark' /\ MarksAreTrue' /\ ~ResumeQueued'
  <2>1. CASE v.state = "running"
    <3>1. DOMAIN queue' = {}
      BY <1>1, <1>2, <2>1 DEF Wake
    <3>. QED BY <1>4, <3>1 DEF OneMark, MarksAreTrue, ResumeQueued, BusyWith
  <2>2. CASE v.state # "running"
    <3>. DEFINE m == [kind |-> "markReleasing", revision |-> r]
    <3>1. m \in Mutation
      BY MutationTypes DEF MarkKinds
    <3>2. /\ task'.at = "marking" /\ queue' = <<m>>
      BY <1>2, <2>2 DEF Wake
    <3>3. DOMAIN queue' = {1} /\ queue'[1].kind = "markReleasing"
      BY <3>1, <3>2, ShortQueues
    <3>. QED BY <1>4, <3>2, <3>3 DEF OneMark, MarksAreTrue, MarkAt, MarkKinds, ResumeQueued,
                BusyWith
  <2>. QED BY <2>1, <2>2
<1>. QED BY <1>2, <1>3, <1>4, <1>5 DEF IInv, DownIsEmpty, BegunOnPause, OperationMeans,
       ResumeAsked, AdmissionFollows, PauseSurvives, ReleaseNeverStale, BusyWith, Paused

LEMMA Inductive == IInv /\ [Next]_vars => IInv'
<1>. SUFFICES ASSUME IInv, [Next]_vars PROVE IInv'
  OBVIOUS
<1>1. TypeOK'
  BY TypeInductive DEF IInv
<1>. QED BY <1>1, CommandsKeep, BeginKeeps, WriteKeeps, WriteFailsKeeps,
       AutoResumeFailsKeeps, FinishKeeps, TaskKeeps, TimeKeeps, CrashKeeps, RestartKeeps
     DEF Next

LEMMA Always == Spec => []IInv
BY Initially, Inductive, PTL DEF Spec

------------------------------------------------------------------------------
(* Every variable keeps its type, and a timer runs only for a confirmed    *)
(* pause that has a deadline.                                              *)
THEOREM MaintenanceTypes == Spec => []TypeOK
<1>1. IInv => TypeOK
  BY DEF IInv
<1>. QED BY <1>1, Always, PTL

(* A pause that was acknowledged is on disk and closes admission until a   *)
(* resume is asked for or its deadline passes, whatever fails.             *)
THEOREM PausesLast == Spec => []PauseSurvives
<1>1. IInv => PauseSurvives
  BY DEF IInv
<1>. QED BY <1>1, Always, PTL

(* The scheduler admits exactly when the state says that it runs.          *)
THEOREM AdmissionIsState == Spec => []AdmissionFollows
<1>1. IInv => AdmissionFollows
  BY DEF IInv
<1>. QED BY <1>1, Always, PTL

(* A release is reported only by the process, and for the pause, for which *)
(* Ollama was seen to hold no model.                                       *)
THEOREM ReleaseIsCurrent == Spec => []ReleaseNeverStale
<1>1. IInv => ReleaseNeverStale
  BY DEF IInv
<1>. QED BY <1>1, Always, PTL
==============================================================================
