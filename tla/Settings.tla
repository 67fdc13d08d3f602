------------------------------- MODULE Settings -------------------------------
(***************************************************************************)
(* Saved settings: the store of src/src/settings.js, the controller of     *)
(* src/src/settings-controller.js that lets one change at a time through,  *)
(* and the start-up and restart of src/src/index.js around them.           *)
(*                                                                         *)
(* A change is validated, written to a temporary file that is renamed over *)
(* the old one, and takes effect through a restart of the process. Every   *)
(* file operation may fail, and process and machine may stop between two   *)
(* of them. Browser pages outlive the process: a page carries the revision *)
(* that it was loaded with.                                                *)
(*                                                                         *)
(* Settings are functions from fields to values and overrides are partial  *)
(* ones; which settings normalizeConfig accepts is the constant Valid.     *)
(* Left out: tokens, request parsing, the masking of secrets, texts, and   *)
(* the refusals of commit() that do not depend on the state modelled.      *)
(***************************************************************************)
EXTENDS Naturals

CONSTANTS
  Pages,           \* browser pages
  Fields, Values,
  Hosts,           \* settings that config.yml and the environment may give
  Valid,           \* settings accepted by normalizeConfig
  Drafts,          \* what a page may send: partial settings
  None,
  Unreadable,      \* a settings file that cannot be read or parsed
  MaxRevision,     \* bound on revisions
  MaxFaults,       \* bound: failing file operations and damage to the file
  MaxStops,        \* bound: crashes, shutdowns and power failures
  MaxHostChanges   \* bound: edits of config.yml

Overrides == UNION {[S -> Values] : S \in SUBSET Fields}

Documents ==
  [revision : 0..MaxRevision, overrides : Overrides, previous : Overrides \cup {None}]

Changes ==
  [page : Pages, next : Documents, synced : BOOLEAN,
   at : {"open", "written", "synced", "renamed"}]

ASSUME SettingsAssumption ==
  /\ Hosts \subseteq [Fields -> Values] /\ Hosts # {}
  /\ Valid \subseteq [Fields -> Values]
  /\ Drafts \subseteq Overrides
  /\ None \notin Overrides \cup Documents \cup Changes
  /\ Unreadable \notin Documents \cup {None}
  /\ {MaxRevision, MaxFaults, MaxStops, MaxHostChanges} \subseteq Nat

VARIABLES
  base,      \* SettingsStore.baseRaw, read when the process starts
  file,      \* the settings file, as a process reads it
  flushed,   \* its contents were synced before it got its name
  durable,   \* what is left of it when the power fails
  mode,      \* "down", or SettingsController.mode
  memory,    \* SettingsStore.state
  change,    \* the change being committed (`applying`): whose page, what is
             \* written, how far persist() is, whether the data was synced
  restart,   \* "none"; `restartPending`: "armed", "draining", "stopping"
  working,   \* the service has dispatched work
  page,      \* what each page shows
  faults, stops, edits,   \* how many there were
  acked,     \* the document of the last change answered with 202, or None
  aside,     \* the last start could not use what the file holds as it is
  bypassed   \* pages loaded before the newest document was lost or set aside,
             \* or while it was

disk == <<file, flushed, durable>>
process == <<mode, memory, change, restart, working>>
counts == <<faults, stops, edits>>
ghosts == <<acked, aside, bypassed>>
vars == <<base, disk, process, page, counts, ghosts>>

------------------------------------------------------------------------------
(* deepMerge, settingsDifference and validateSettingsDraft *)

Over(patch, value) ==
  [f \in DOMAIN patch \cup DOMAIN value |->
     IF f \in DOMAIN patch THEN patch[f] ELSE value[f]]

Difference(settings, host) ==
  [f \in {g \in Fields : settings[g] # host[g]} |-> settings[f]]

Accepted(host, overrides) == Over(overrides, host) \in Valid

(* What is stored for a draft: until the base itself is valid, the patch   *)
(* as it is, and from then on what differs from the base.                  *)
Stored(host, current, draft) ==
  LET merged == Over(draft, current) IN
  IF host \in Valid THEN Difference(Over(merged, host), host) ELSE merged

Document(rev, overrides, previous) ==
  [revision |-> rev, overrides |-> overrides, previous |-> previous]

NoOverrides == [f \in {} |-> None]
Empty == Document(0, NoOverrides, None)

Up == mode # "down"

------------------------------------------------------------------------------
(* load() and the start of the process *)

(* What the store holds after load(), and whether what is saved was used.  *)
(* A document without a usable version leaves an error among the           *)
(* diagnostics, and so does an unreadable file.                            *)
Loaded(host) ==
  IF file = None THEN [state |-> Empty, error |-> FALSE]
  ELSE IF file = Unreadable THEN [state |-> Empty, error |-> TRUE]
  ELSE IF Accepted(host, file.overrides) THEN [state |-> file, error |-> FALSE]
  ELSE IF file.previous # None /\ Accepted(host, file.previous)
    THEN [state |-> Document(file.revision, file.previous, None), error |-> FALSE]
  ELSE [state |-> Document(file.revision, NoOverrides, None), error |-> TRUE]

ConfigurationReady(host) ==
  ~Loaded(host).error /\ Accepted(host, Loaded(host).state.overrides)

Shown == {p \in Pages : page[p] # None}

(* The supervisor starts the process. config.yml may have been edited.     *)
Start(host) ==
  /\ ~Up
  /\ host # base => edits < MaxHostChanges
  /\ edits' = IF host # base THEN edits + 1 ELSE edits
  /\ base' = host
  /\ memory' = Loaded(host).state
  /\ mode' = IF ConfigurationReady(host) THEN "running" ELSE "configuration_error"
  /\ change' = None /\ restart' = "none" /\ working' = FALSE
  /\ aside' = ~(file # Unreadable /\ memory' = (IF file = None THEN Empty ELSE file))
  /\ bypassed' = IF aside \/ aside' THEN bypassed \cup Shown ELSE bypassed
  /\ UNCHANGED <<disk, page, faults, stops, acked>>

------------------------------------------------------------------------------
(* GET settings, and the changes a page may ask for *)

Open(p) ==
  /\ Up
  /\ page' = [page EXCEPT ![p] = memory]
  /\ bypassed' = bypassed \ {p}
  /\ UNCHANGED <<base, disk, process, counts, acked, aside>>

(* commit(): one change at a time, none while a restart is pending, and    *)
(* only with the revision of the store.                                    *)
Current(p) ==
  /\ Up /\ change = None /\ restart = "none"
  /\ page[p] # None /\ page[p].revision = memory.revision

(* Faulty: a change that keeps the revision. *)
SameRevision(overrides) ==
  Document(IF memory.revision = 0 THEN 1 ELSE memory.revision, overrides,
           memory.overrides)

NextDocument(overrides) ==
  Document(memory.revision + 1, overrides, memory.overrides)

Begin(p, overrides) ==
  /\ memory.revision < MaxRevision
  /\ change' = [page |-> p, next |-> NextDocument(overrides), at |-> "open",
                synced |-> FALSE]
  /\ UNCHANGED <<base, disk, mode, memory, restart, working, page, counts, ghosts>>

Apply(p, draft) ==
  /\ Current(p)
  /\ Accepted(base, Over(draft, memory.overrides))
  /\ Begin(p, Stored(base, memory.overrides, draft))

Reset(p) ==
  /\ Current(p)
  /\ Accepted(base, NoOverrides)
  /\ Begin(p, NoOverrides)

Rollback(p) ==
  /\ Current(p)
  /\ memory.previous # None /\ Accepted(base, memory.previous)
  /\ Begin(p, Stored(base, NoOverrides, memory.previous))

(* Nothing to roll back to: nothing is written, but the process restarts.  *)
RollbackNothing(p) ==
  /\ Current(p)
  /\ memory.previous = None
  /\ restart' = "armed"
  /\ UNCHANGED <<base, disk, mode, memory, change, working, page, counts, ghosts>>

------------------------------------------------------------------------------
(* persist() *)

Proceed(from, to) ==
  /\ Up /\ change # None /\ change.at = from
  /\ change' = [change EXCEPT !.at = to]
  /\ UNCHANGED <<base, mode, memory, restart, working, page, counts, acked, bypassed>>

Write == Proceed("open", "written") /\ UNCHANGED <<disk, aside>>

(* Faulty: the data is not synced before it gets its name. *)
Unsynced ==
  /\ Proceed("written", "synced")
  /\ UNCHANGED <<disk, aside>>

Sync ==
  /\ Up /\ change # None /\ change.at = "written"
  /\ change' = [change EXCEPT !.at = "synced", !.synced = TRUE]
  /\ UNCHANGED <<base, disk, mode, memory, restart, working, page, counts, ghosts>>

Rename ==
  /\ Proceed("synced", "renamed")
  /\ file' = change.next /\ flushed' = change.synced
  /\ aside' = FALSE
  /\ UNCHANGED durable

Kept == IF flushed THEN file ELSE Unreadable

(* The directory is synced: the change is durable, the store takes it over *)
(* and the page gets its 202. Admission ends with onRestartPending().      *)
Acknowledge ==
  /\ Up /\ change # None /\ change.at = "renamed"
  /\ durable' = Kept
  /\ memory' = change.next /\ acked' = change.next
  /\ change' = None /\ restart' = "armed"
  /\ UNCHANGED <<base, file, flushed, mode, working, page, counts, aside, bypassed>>

(* A file operation fails and the page gets a 500. The store keeps what it *)
(* had, also when the file already carries the new document.               *)
Fail ==
  /\ Up /\ change # None /\ faults < MaxFaults
  /\ faults' = faults + 1
  /\ change' = None
  /\ UNCHANGED <<base, disk, mode, memory, restart, working, page, stops, edits,
                 ghosts>>

------------------------------------------------------------------------------
(* The restart *)

(* armRestart(): the response is finished or closed, or a second is over.  *)
Trigger ==
  /\ restart = "armed"
  /\ restart' = "draining"
  /\ UNCHANGED <<base, disk, mode, memory, change, working, page, counts, ghosts>>

(* Faulty: waits for a service that only the running mode has. *)
DrainedWhenRunning ==
  /\ restart = "draining" /\ mode = "running"
  /\ ~working
  /\ restart' = "stopping"
  /\ UNCHANGED <<base, disk, mode, memory, change, working, page, counts, ghosts>>

(* restartForSettings(): waitForIdle, which the service of the             *)
(* configuration recovery does not have, ...                               *)
Drained ==
  /\ restart = "draining"
  /\ ~working
  /\ restart' = "stopping"
  /\ UNCHANGED <<base, disk, mode, memory, change, working, page, counts, ghosts>>

(* What a process loses when it ends. *)
Ended ==
  /\ mode' = "down" /\ memory' = Empty /\ change' = None /\ restart' = "none"
  /\ working' = FALSE

(* ... and then stop() and exit(75). *)
Exit ==
  /\ restart = "stopping"
  /\ Ended
  /\ UNCHANGED <<base, disk, page, counts, ghosts>>

(* Faulty: admission goes on until the process ends. *)
WorkStartsAnyway ==
  /\ mode = "running" /\ ~working
  /\ working' = TRUE
  /\ UNCHANGED <<base, disk, mode, memory, change, restart, page, counts, ghosts>>

(* Work is dispatched until beginSettingsRestart(). *)
WorkStarts ==
  /\ mode = "running" /\ restart = "none" /\ ~working
  /\ working' = TRUE
  /\ UNCHANGED <<base, disk, mode, memory, change, restart, page, counts, ghosts>>

WorkEnds ==
  /\ working
  /\ working' = FALSE
  /\ UNCHANGED <<base, disk, mode, memory, change, restart, page, counts, ghosts>>

------------------------------------------------------------------------------
(* Faults *)

(* The process dies, or a signal stops it. *)
Crash ==
  /\ Up /\ stops < MaxStops
  /\ stops' = stops + 1
  /\ Ended
  /\ UNCHANGED <<base, disk, page, faults, edits, ghosts>>

(* The machine stops. A rename that was not synced is lost or kept.        *)
PowerFails ==
  /\ stops < MaxStops
  /\ stops' = stops + 1
  /\ Ended
  /\ file' \in {durable, Kept}
  /\ durable' = file' /\ flushed' = TRUE
  /\ bypassed' = IF file' = file THEN bypassed ELSE bypassed \cup Shown
  /\ UNCHANGED <<base, page, faults, edits, acked, aside>>

(* Somebody damages the volume while the process is down. *)
Damage ==
  /\ ~Up /\ file # None /\ faults < MaxFaults
  /\ faults' = faults + 1
  /\ file' = Unreadable /\ durable' = Unreadable /\ flushed' = TRUE
  /\ acked' = None
  /\ UNCHANGED <<base, process, page, stops, edits, aside, bypassed>>

------------------------------------------------------------------------------
Init ==
  /\ base \in Hosts
  /\ file = None /\ flushed = TRUE /\ durable = None
  /\ mode = "down" /\ memory = Empty /\ change = None /\ restart = "none"
  /\ working = FALSE
  /\ page = [p \in Pages |-> None]
  /\ faults = 0 /\ stops = 0 /\ edits = 0
  /\ acked = None /\ aside = FALSE /\ bypassed = {}

Browse(p) ==
  \/ Open(p) \/ Reset(p) \/ Rollback(p) \/ RollbackNothing(p)
  \/ \E draft \in Drafts : Apply(p, draft)

Persist == Write \/ Sync \/ Rename \/ Acknowledge

Restart == Trigger \/ Drained \/ Exit \/ \E host \in Hosts : Start(host)

Next ==
  \/ \E p \in Pages : Browse(p)
  \/ Persist \/ Fail \/ Restart
  \/ WorkStarts \/ WorkEnds
  \/ Crash \/ PowerFails \/ Damage

Spec == Init /\ [][Next]_vars

(* The timer of armRestart() fires, the exit follows the drain, dispatched *)
(* work ends (module Dispatch) and the supervisor starts the process.      *)
FairSpec == Spec /\ WF_vars(Restart) /\ WF_vars(WorkEnds)

------------------------------------------------------------------------------
(* Properties *)

TypeOK ==
  /\ base \in Hosts
  /\ {file, durable} \subseteq Documents \cup {None, Unreadable}
  /\ flushed \in BOOLEAN
  /\ mode \in {"down", "running", "configuration_error"}
  /\ memory \in Documents
  /\ change \in Changes \cup {None}
  /\ restart \in {"none", "armed", "draining", "stopping"}
  /\ working \in BOOLEAN
  /\ page \in [Pages -> Documents \cup {None}]
  /\ faults \in 0..MaxFaults /\ stops \in 0..MaxStops /\ edits \in 0..MaxHostChanges
  /\ acked \in Documents \cup {None}
  /\ aside \in BOOLEAN /\ bypassed \subseteq Pages

(* A change that was answered with 202 is what every later start reads, or *)
(* a later one is, wherever the process or the power failed since.         *)
AcknowledgedSurvives ==
  acked # None =>
    \A d \in {file, durable} :
      /\ d \in Documents
      /\ d = acked \/ d.revision > acked.revision

(* No page overwrites what it does not show: a change that the store takes *)
(* over was asked for on the settings it replaces ("Settings changed since *)
(* this page was loaded. Reload and try again."), unless what was saved     *)
(* was lost or set aside in between: its revision is then used twice.      *)
ChangeFromCurrent ==
  change # None /\ change.page \notin bypassed => page[change.page] = memory

(* The restart cuts no dispatched work short (README, "waits for already-  *)
(* dispatched work to finish before beginning shutdown").                  *)
RestartKillsNothing == restart = "stopping" => ~working

(* A change that was accepted is followed by the start that applies it.    *)
AppliedEventually == restart # "none" ~> Up /\ restart = "none"
==============================================================================
