---------------------------- MODULE SettingsProofs ----------------------------
(***************************************************************************)
(* What module Settings promises, for all pages, fields, values, drafts    *)
(* and host configurations. The invariant IInv relates five copies of the  *)
(* settings: what the file holds, what a power failure leaves of it, what  *)
(* the process uses, what is being written, and what each page shows.      *)
(***************************************************************************)
EXTENDS Settings, TLAPS

(* Settings with a patch applied, and what differs from the host, are      *)
(* again overrides.                                                        *)
LEMMA OverType ==
  ASSUME NEW patch \in Overrides, NEW value \in Overrides
  PROVE  Over(patch, value) \in Overrides
<1>1. PICK S \in SUBSET Fields : patch \in [S -> Values]
  BY DEF Overrides
<1>2. PICK T \in SUBSET Fields : value \in [T -> Values]
  BY DEF Overrides
<1>3. Over(patch, value) \in [S \cup T -> Values]
  BY <1>1, <1>2 DEF Over
<1>. QED BY <1>3 DEF Overrides

LEMMA OverTotal ==
  ASSUME NEW patch \in Overrides, NEW host \in [Fields -> Values]
  PROVE  Over(patch, host) \in [Fields -> Values]
<1>1. PICK S \in SUBSET Fields : patch \in [S -> Values]
  BY DEF Overrides
<1>. QED BY <1>1 DEF Over

LEMMA DifferenceType ==
  ASSUME NEW settings \in [Fields -> Values], NEW host \in [Fields -> Values]
  PROVE  Difference(settings, host) \in Overrides
<1>. DEFINE D == {g \in Fields : settings[g] # host[g]}
<1>1. Difference(settings, host) \in [D -> Values]
  BY DEF Difference
<1>. QED BY <1>1 DEF Overrides

LEMMA NoOverridesType == NoOverrides \in Overrides
<1>1. NoOverrides \in [{} -> Values]
  BY DEF NoOverrides
<1>. QED BY <1>1 DEF Overrides

LEMMA StoredType ==
  ASSUME NEW host \in [Fields -> Values], NEW current \in Overrides, NEW draft \in Overrides
  PROVE  Stored(host, current, draft) \in Overrides
<1>. DEFINE merged == Over(draft, current)
<1>1. merged \in Overrides
  BY OverType
<1>2. Over(merged, host) \in [Fields -> Values]
  BY <1>1, OverTotal
<1>3. Difference(Over(merged, host), host) \in Overrides
  BY <1>2, DifferenceType
<1>. QED BY <1>1, <1>3 DEF Stored

LEMMA DocumentType ==
  ASSUME NEW rev \in 0..MaxRevision, NEW o \in Overrides, NEW q \in Overrides \cup {None}
  PROVE  /\ Document(rev, o, q) \in Documents
         /\ Document(rev, o, q).revision = rev
BY DEF Document, Documents

LEMMA EmptyType == Empty \in Documents /\ Empty.revision = 0
BY NoOverridesType, DocumentType, SettingsAssumption DEF Empty

(* What a start makes of a file that can be read has the file's revision.  *)
LEMMA LoadedType ==
  ASSUME NEW host \in Hosts, file \in Documents \cup {None, Unreadable}
  PROVE  /\ Loaded(host).state \in Documents
         /\ file \in Documents => Loaded(host).state.revision = file.revision
         /\ file \notin Documents => Loaded(host).state = Empty
<1>1. file \in Documents =>
        /\ file.revision \in 0..MaxRevision
        /\ file.overrides \in Overrides
        /\ file.previous \in Overrides \cup {None}
  BY DEF Documents
<1>2. CASE file \in Documents
  <2>1. file # None /\ file # Unreadable
    BY <1>2, SettingsAssumption
  <2>2. /\ Document(file.revision, NoOverrides, None) \in Documents
        /\ Document(file.revision, NoOverrides, None).revision = file.revision
    BY <1>1, <1>2, NoOverridesType, DocumentType
  <2>3. file.previous # None =>
          /\ Document(file.revision, file.previous, None) \in Documents
          /\ Document(file.revision, file.previous, None).revision = file.revision
    BY <1>1, <1>2, DocumentType
  <2>. QED BY <1>2, <2>1, <2>2, <2>3 DEF Loaded
<1>3. CASE file \notin Documents
  BY <1>3, EmptyType DEF Loaded
<1>. QED BY <1>2, <1>3

------------------------------------------------------------------------------
(* The argument. What was synced before it got its name is what is read;   *)
(* a change is written over the revision in memory and is numbered next to *)
(* it; memory is never older than the last acknowledgment, and neither     *)
(* disk nor memory is older than what a page shows, unless the page was    *)
(* bypassed.                                                               *)

ChangeNumbered ==
  change # None =>
    /\ Up
    /\ change.next.revision = memory.revision + 1
    /\ change.at \in {"synced", "renamed"} => change.synced
    /\ change.at = "renamed" => file = change.next /\ ~aside

Numbered == \A d \in {file, durable} : d \in Documents => d.revision > 0

MemoryKnows == Up /\ acked # None => memory.revision >= acked.revision

NotNewer(d, e) == d = e \/ d.revision < e.revision

MemoryFollows ==
  Up /\ ~aside =>
    /\ file = None => memory = Empty
    /\ file \in Documents => NotNewer(memory, file)

PagesFollow ==
  \A p \in Pages \ bypassed : page[p] # None =>
    /\ Up => NotNewer(page[p], memory)
    /\ ~aside /\ file = None => page[p] = Empty
    /\ ~aside /\ file \in Documents => NotNewer(page[p], file)

IInv ==
  /\ TypeOK
  /\ flushed = TRUE
  /\ ChangeNumbered
  /\ Numbered
  /\ MemoryKnows
  /\ AcknowledgedSurvives
  /\ MemoryFollows
  /\ PagesFollow
  /\ ChangeFromCurrent
  /\ RestartKillsNothing

------------------------------------------------------------------------------
(* Types *)

LEMMA BeginType ==
  ASSUME TypeOK, NEW p \in Pages, NEW o \in Overrides, Begin(p, o)
  PROVE  /\ TypeOK'
         /\ change'.page = p /\ change'.at = "open"
         /\ change'.next.revision = memory.revision + 1
         /\ change' # None
<1>1. /\ memory.revision + 1 \in 0..MaxRevision
      /\ memory.overrides \in Overrides
  BY SettingsAssumption DEF TypeOK, Begin, Documents
<1>2. /\ NextDocument(o) \in Documents
      /\ NextDocument(o).revision = memory.revision + 1
  BY <1>1, DocumentType DEF NextDocument
<1>3. change' = [page |-> p, next |-> NextDocument(o), at |-> "open", synced |-> FALSE]
  BY DEF Begin
<1>4. change' \in Changes
  BY <1>2, <1>3 DEF Changes
<1>5. change' # None
  BY <1>4, SettingsAssumption
<1>6. TypeOK'
  BY <1>4 DEF TypeOK, Begin, disk, counts, ghosts
<1>. QED BY <1>2, <1>3, <1>5, <1>6

LEMMA ApplyIsBegin ==
  ASSUME TypeOK, NEW p \in Pages, NEW draft \in Drafts, Apply(p, draft)
  PROVE  \E o \in Overrides : Begin(p, o)
<1>1. /\ base \in [Fields -> Values]
      /\ memory.overrides \in Overrides
      /\ draft \in Overrides
  BY SettingsAssumption DEF TypeOK, Documents
<1>2. Stored(base, memory.overrides, draft) \in Overrides
  BY <1>1, StoredType
<1>. QED BY <1>2 DEF Apply

LEMMA RollbackIsBegin ==
  ASSUME TypeOK, NEW p \in Pages, Rollback(p)
  PROVE  \E o \in Overrides : Begin(p, o)
<1>1. /\ base \in [Fields -> Values]
      /\ memory.previous \in Overrides
  BY SettingsAssumption DEF TypeOK, Documents, Rollback
<1>2. Stored(base, NoOverrides, memory.previous) \in Overrides
  BY <1>1, StoredType, NoOverridesType
<1>. QED BY <1>2 DEF Rollback

LEMMA ResetIsBegin ==
  ASSUME NEW p \in Pages, Reset(p)
  PROVE  \E o \in Overrides : Begin(p, o)
BY NoOverridesType DEF Reset

(* Every change is asked for by a page that shows the current revision.    *)
LEMMA ChangesBegin ==
  ASSUME TypeOK, NEW p \in Pages, Browse(p)
  PROVE  \/ Open(p) \/ RollbackNothing(p)
         \/ Current(p) /\ \E o \in Overrides : Begin(p, o)
BY ApplyIsBegin, RollbackIsBegin, ResetIsBegin DEF Browse, Apply, Rollback, Reset

(* The value of what a process loses has its type. *)
LEMMA EndedType ==
  ASSUME TypeOK, Ended
  PROVE  /\ mode' \in {"down", "running", "configuration_error"}
         /\ memory' \in Documents
         /\ change' \in Changes \cup {None}
         /\ restart' \in {"none", "armed", "draining", "stopping"}
         /\ working' \in BOOLEAN
BY EmptyType DEF Ended

LEMMA TypeInitial == Init => TypeOK
<1>. SUFFICES ASSUME Init PROVE TypeOK
  OBVIOUS
<1>1. 0 \in 0..MaxFaults /\ 0 \in 0..MaxStops /\ 0 \in 0..MaxHostChanges
  BY SettingsAssumption
<1>2. page \in [Pages -> Documents \cup {None}]
  BY DEF Init
<1>3. base \in Hosts /\ memory \in Documents
  BY EmptyType DEF Init
<1>. QED BY <1>1, <1>2, <1>3 DEF Init, TypeOK

LEMMA TypeInductive == TypeOK /\ [Next]_vars => TypeOK'
<1>. SUFFICES ASSUME TypeOK, [Next]_vars PROVE TypeOK'
  OBVIOUS
<1>. USE DEF disk, process, counts, ghosts
<1>1. ASSUME NEW p \in Pages, Browse(p) PROVE TypeOK'
  <2>1. CASE Open(p)
    BY <2>1 DEF Open, TypeOK
  <2>2. CASE RollbackNothing(p)
    BY <2>2 DEF RollbackNothing, TypeOK
  <2>3. ASSUME NEW o \in Overrides, Begin(p, o) PROVE TypeOK'
    BY <2>3, BeginType
  <2>. QED BY <1>1, <2>1, <2>2, <2>3, ChangesBegin
<1>2. CASE Write
  BY <1>2 DEF Write, Proceed, TypeOK, Changes
<1>3. CASE Sync
  BY <1>3 DEF Sync, TypeOK, Changes
<1>4. CASE Rename
  BY <1>4 DEF Rename, Proceed, TypeOK, Changes
<1>5. CASE Acknowledge
  BY <1>5 DEF Acknowledge, Kept, TypeOK, Changes
<1>6. CASE Fail
  BY <1>6, SettingsAssumption DEF Fail, TypeOK
<1>7. CASE Trigger
  BY <1>7 DEF Trigger, TypeOK
<1>8. CASE Drained
  BY <1>8 DEF Drained, TypeOK
<1>9. CASE Exit
  BY <1>9, EndedType DEF Exit, TypeOK
<1>10. ASSUME NEW host \in Hosts, Start(host) PROVE TypeOK'
  <2>1. /\ memory' \in Documents
        /\ edits' \in 0..MaxHostChanges
    BY <1>10, LoadedType, SettingsAssumption DEF Start, TypeOK
  <2>. QED BY <1>10, <2>1 DEF Start, TypeOK, Shown
<1>11. CASE WorkStarts \/ WorkEnds
  BY <1>11 DEF WorkStarts, WorkEnds, TypeOK
<1>12. CASE Crash
  BY <1>12, EndedType, SettingsAssumption DEF Crash, TypeOK
<1>13. CASE PowerFails
  BY <1>13, EndedType, SettingsAssumption DEF PowerFails, Kept, Shown, TypeOK
<1>14. CASE Damage
  BY <1>14, SettingsAssumption DEF Damage, TypeOK
<1>15. CASE UNCHANGED vars
  BY <1>15 DEF vars, TypeOK
<1>. QED BY <1>1, <1>2, <1>3, <1>4, <1>5, <1>6, <1>7, <1>8, <1>9, <1>10, <1>11, <1>12,
            <1>13, <1>14, <1>15 DEF Next, Persist, Restart

(* Every variable keeps its type, for all settings and pages.              *)
THEOREM SettingsTypes == Spec => []TypeOK
BY TypeInitial, TypeInductive, PTL DEF Spec

------------------------------------------------------------------------------
(* The invariant is inductive: one lemma for each kind of step *)

LEMMA Initially == Init => IInv
<1>. SUFFICES ASSUME Init PROVE IInv
  OBVIOUS
<1>1. TypeOK
  BY TypeInitial
<1>. QED BY <1>1, SettingsAssumption
     DEF Init, IInv, ChangeNumbered, Numbered, MemoryKnows, AcknowledgedSurvives,
         MemoryFollows, PagesFollow, ChangeFromCurrent, RestartKillsNothing, Up

(* A page is loaded: it shows what is in memory. *)
LEMMA OpenKeeps ==
  ASSUME IInv, TypeOK', NEW p \in Pages, Open(p)
  PROVE  IInv'
<1>. USE DEF IInv, Open, disk, process, counts, Up
<1>1. PagesFollow'
  <2>. SUFFICES ASSUME NEW q \in Pages \ bypassed', page'[q] # None
                PROVE  /\ NotNewer(page'[q], memory)
                       /\ ~aside /\ file = None => page'[q] = Empty
                       /\ ~aside /\ file \in Documents => NotNewer(page'[q], file)
    BY DEF PagesFollow
  <2>1. CASE q = p
    <3>1. page'[q] = memory
      BY <2>1 DEF TypeOK
    <3>. QED BY <3>1 DEF MemoryFollows, NotNewer
  <2>2. CASE q # p
    BY <2>2 DEF PagesFollow, TypeOK
  <2>. QED BY <2>1, <2>2
<1>2. ChangeFromCurrent'
  BY SettingsAssumption DEF ChangeFromCurrent, TypeOK, Changes
<1>. QED BY <1>1, <1>2 DEF ChangeNumbered, Numbered, MemoryKnows, AcknowledgedSurvives,
           MemoryFollows, RestartKillsNothing

(* A change begins: its page shows the current revision, hence, unless it  *)
(* was bypassed, the current settings. *)
LEMMA BeginKeeps ==
  ASSUME IInv, TypeOK', NEW p \in Pages, Current(p), NEW o \in Overrides, Begin(p, o)
  PROVE  IInv'
<1>. USE DEF IInv, disk, counts, ghosts
<1>1. /\ change'.page = p /\ change'.at = "open"
      /\ change'.next.revision = memory.revision + 1
      /\ UNCHANGED <<base, file, flushed, durable, mode, memory, restart, working, page,
                     acked, aside, bypassed>>
  BY BeginType DEF Begin
<1>2. ChangeFromCurrent'
  <2>. SUFFICES ASSUME p \notin bypassed PROVE page[p] = memory
    BY <1>1 DEF ChangeFromCurrent
  <2>1. /\ NotNewer(page[p], memory)
        /\ page[p].revision = memory.revision
    BY DEF PagesFollow, Current
  <2>2. ~(page[p].revision < memory.revision)
    BY <2>1 DEF TypeOK, Documents
  <2>. QED BY <2>1, <2>2 DEF NotNewer
<1>3. ChangeNumbered'
  BY <1>1 DEF ChangeNumbered, Current, Up
<1>. QED BY <1>1, <1>2, <1>3 DEF Numbered, MemoryKnows, AcknowledgedSurvives,
           MemoryFollows, PagesFollow, RestartKillsNothing, Up

(* The next step of persist(), up to the rename. *)
LEMMA PersistKeeps ==
  ASSUME IInv, TypeOK', Write \/ Sync
  PROVE  IInv'
<1>1. /\ change # None /\ change'.page = change.page /\ change'.next = change.next
      /\ change'.at = "written" \/ (change'.at = "synced" /\ change'.synced)
      /\ UNCHANGED <<base, file, flushed, durable, mode, memory, restart, working, page,
                     acked, aside, bypassed>>
  <2>1. CASE Write
    BY <2>1 DEF IInv, TypeOK, Changes, Write, Proceed, disk, counts, ghosts
  <2>2. CASE Sync
    BY <2>2 DEF IInv, TypeOK, Changes, Sync, disk, counts, ghosts
  <2>. QED BY <2>1, <2>2
<1>. QED BY <1>1 DEF IInv, ChangeNumbered, Numbered, MemoryKnows, AcknowledgedSurvives,
       MemoryFollows, PagesFollow, ChangeFromCurrent, RestartKillsNothing, Up

(* The rename puts a document in place that is newer than what is in       *)
(* memory, and thereby than what any page shows. *)
LEMMA RenameKeeps ==
  ASSUME IInv, TypeOK', Rename
  PROVE  IInv'
<1>1. /\ Up /\ change # None /\ change \in Changes /\ change.synced
      /\ change.next.revision = memory.revision + 1
      /\ memory \in Documents /\ change.next \in Documents
  BY DEF IInv, TypeOK, Changes, ChangeNumbered, Rename, Proceed
<1>2. /\ file' = change.next /\ flushed' = TRUE /\ aside' = FALSE
      /\ change'.page = change.page /\ change'.next = change.next
      /\ change'.at = "renamed" /\ change'.synced
      /\ UNCHANGED <<durable, base, mode, memory, restart, working, page, acked, bypassed>>
  BY <1>1 DEF Rename, Proceed, Changes
<1>3. memory.revision \in Nat /\ change.next.revision \in Nat
  BY <1>1, SettingsAssumption DEF Documents
<1>4. change.next # None
  BY <1>1, SettingsAssumption
<1>5. PagesFollow'
  <2>. SUFFICES ASSUME NEW p \in Pages \ bypassed, page[p] # None
                PROVE  /\ NotNewer(page[p], memory)
                       /\ NotNewer(page[p], change.next)
    BY <1>1, <1>2, <1>4 DEF PagesFollow, Up
  <2>1. NotNewer(page[p], memory)
    BY <1>1 DEF IInv, PagesFollow
  <2>2. page[p].revision \in Nat
    BY SettingsAssumption DEF IInv, TypeOK, Documents
  <2>. QED BY <1>1, <1>3, <2>1, <2>2 DEF NotNewer
<1>6. AcknowledgedSurvives'
  <2>. SUFFICES ASSUME acked # None PROVE change.next.revision > acked.revision
    BY <1>1, <1>2 DEF AcknowledgedSurvives, IInv
  <2>1. memory.revision >= acked.revision /\ acked.revision \in Nat
    BY <1>1, SettingsAssumption DEF IInv, MemoryKnows, TypeOK, Documents
  <2>. QED BY <1>1, <1>3, <2>1
<1>7. MemoryFollows' /\ Numbered'
  BY <1>1, <1>2, <1>3, <1>4 DEF IInv, MemoryFollows, Numbered, NotNewer
<1>. QED BY <1>1, <1>2, <1>5, <1>6, <1>7 DEF IInv, ChangeNumbered, MemoryKnows,
           ChangeFromCurrent, RestartKillsNothing, Up

(* The acknowledgment: memory takes over what the file already holds. *)
LEMMA AcknowledgeKeeps ==
  ASSUME IInv, TypeOK', Acknowledge
  PROVE  IInv'
<1>1. /\ Up /\ change # None /\ change \in Changes
      /\ change.next.revision = memory.revision + 1 /\ file = change.next /\ ~aside
      /\ memory \in Documents /\ change.next \in Documents
  BY DEF IInv, TypeOK, ChangeNumbered, Acknowledge, Changes
<1>2. /\ durable' = file /\ memory' = file /\ acked' = file /\ change' = None
      /\ restart' = "armed"
      /\ UNCHANGED <<base, file, flushed, mode, working, page, aside, bypassed>>
  BY <1>1 DEF IInv, Acknowledge, Kept
<1>3. memory.revision \in Nat /\ file.revision \in Nat /\ file # None
  BY <1>1, SettingsAssumption DEF Documents
<1>4. PagesFollow'
  <2>. SUFFICES ASSUME NEW p \in Pages \ bypassed, page[p] # None
                PROVE  NotNewer(page[p], file)
    BY <1>1, <1>2, <1>3 DEF PagesFollow
  <2>. QED BY <1>1 DEF IInv, PagesFollow
<1>. QED BY <1>1, <1>2, <1>3, <1>4 DEF IInv, ChangeNumbered, Numbered, MemoryKnows,
           AcknowledgedSurvives, MemoryFollows, NotNewer, ChangeFromCurrent,
           RestartKillsNothing, Up

(* Failures of a write, work, and the way to the restart. *)
LEMMA ProcessKeeps ==
  ASSUME IInv, TypeOK',
         Fail \/ Trigger \/ Drained \/ WorkStarts \/ WorkEnds
           \/ (\E p \in Pages : RollbackNothing(p)) \/ UNCHANGED vars
  PROVE  IInv'
<1>1. /\ UNCHANGED <<file, flushed, durable, mode, memory, page, acked, aside, bypassed>>
      /\ change' = change \/ change' = None
      /\ RestartKillsNothing'
  <2>. USE DEF IInv, RestartKillsNothing, disk, process, counts, ghosts
  <2>1. CASE Fail
    BY <2>1 DEF Fail
  <2>2. CASE Trigger
    BY <2>2 DEF Trigger
  <2>3. CASE Drained
    BY <2>3 DEF Drained
  <2>4. CASE WorkStarts \/ WorkEnds
    BY <2>4 DEF WorkStarts, WorkEnds
  <2>5. CASE \E p \in Pages : RollbackNothing(p)
    BY <2>5 DEF RollbackNothing
  <2>6. CASE UNCHANGED vars
    BY <2>6 DEF vars
  <2>. QED BY <2>1, <2>2, <2>3, <2>4, <2>5, <2>6
<1>. QED BY <1>1 DEF IInv, ChangeNumbered, Numbered, MemoryKnows, AcknowledgedSurvives,
       MemoryFollows, PagesFollow, ChangeFromCurrent, Up

(* A process that is down neither uses nor changes settings. *)
LEMMA EndKeeps ==
  ASSUME IInv, TypeOK', Exit \/ Crash
  PROVE  IInv'
<1>1. /\ mode' = "down" /\ change' = None /\ restart' = "none"
      /\ UNCHANGED <<file, flushed, durable, page, acked, aside, bypassed>>
  BY DEF Exit, Crash, Ended, disk, ghosts
<1>. QED BY <1>1 DEF IInv, ChangeNumbered, Numbered, MemoryKnows, AcknowledgedSurvives,
       MemoryFollows, PagesFollow, ChangeFromCurrent, RestartKillsNothing, Up

LEMMA PowerKeeps ==
  ASSUME IInv, TypeOK', PowerFails
  PROVE  IInv'
<1>1. /\ file' \in {file, durable} /\ durable' = file' /\ flushed' = TRUE
      /\ mode' = "down" /\ change' = None /\ restart' = "none"
      /\ UNCHANGED <<page, acked, aside>>
      /\ bypassed' = IF file' = file THEN bypassed ELSE bypassed \cup Shown
  BY DEF PowerFails, Ended, Kept, IInv
<1>2. PagesFollow'
  BY <1>1 DEF IInv, PagesFollow, Shown, Up
<1>. QED BY <1>1, <1>2 DEF IInv, ChangeNumbered, Numbered, MemoryKnows,
       AcknowledgedSurvives, MemoryFollows, ChangeFromCurrent, RestartKillsNothing, Up

LEMMA DamageKeeps ==
  ASSUME IInv, TypeOK', Damage
  PROVE  IInv'
BY SettingsAssumption
   DEF Damage, process, IInv, ChangeNumbered, Numbered, MemoryKnows,
     AcknowledgedSurvives, MemoryFollows, PagesFollow, ChangeFromCurrent,
     RestartKillsNothing, Up

(* A start reads the file. What it does not use as it is, it sets aside,   *)
(* and the pages with it. *)
LEMMA StartKeeps ==
  ASSUME IInv, TypeOK', NEW host \in Hosts, Start(host)
  PROVE  IInv'
<1>1. /\ memory' = Loaded(host).state /\ change' = None /\ restart' = "none"
      /\ ~Up /\ Up'
      /\ aside' = ~(file # Unreadable /\ memory' = (IF file = None THEN Empty ELSE file))
      /\ bypassed' = IF aside \/ aside' THEN bypassed \cup Shown ELSE bypassed
      /\ UNCHANGED <<file, flushed, durable, page, acked>>
  BY DEF Start, disk, Up
<1>2. /\ file \in Documents => memory'.revision = file.revision
      /\ file \in Documents \cup {None, Unreadable}
  BY <1>1, LoadedType DEF IInv, TypeOK
<1>3. None \notin Documents /\ Unreadable \notin Documents
  BY SettingsAssumption
<1>4. MemoryKnows'
  <2>. SUFFICES ASSUME acked # None PROVE memory'.revision >= acked.revision
    BY <1>1 DEF MemoryKnows
  <2>1. /\ file \in Documents /\ acked \in Documents
        /\ file = acked \/ file.revision > acked.revision
    BY DEF IInv, AcknowledgedSurvives, TypeOK
  <2>2. file.revision \in Nat /\ acked.revision \in Nat
    BY <2>1, SettingsAssumption DEF Documents
  <2>. QED BY <1>2, <2>1, <2>2
<1>5. MemoryFollows'
  BY <1>1, <1>3 DEF MemoryFollows, NotNewer
<1>6. PagesFollow'
  <2>. SUFFICES ASSUME NEW p \in Pages \ bypassed', page[p] # None
                PROVE  /\ NotNewer(page[p], memory')
                       /\ ~aside' /\ file = None => page[p] = Empty
                       /\ ~aside' /\ file \in Documents => NotNewer(page[p], file)
    BY <1>1 DEF PagesFollow
  <2>1. ~aside /\ ~aside' /\ p \notin bypassed
    BY <1>1 DEF Shown, IInv, TypeOK
  <2>2. /\ file = None => page[p] = Empty
        /\ file \in Documents => NotNewer(page[p], file)
    BY <2>1 DEF IInv, PagesFollow
  <2>. QED BY <1>1, <1>2, <1>3, <2>1, <2>2 DEF NotNewer
<1>. QED BY <1>1, <1>4, <1>5, <1>6 DEF IInv, ChangeNumbered, Numbered,
       AcknowledgedSurvives, ChangeFromCurrent, RestartKillsNothing, Up

LEMMA Inductive == IInv /\ [Next]_vars => IInv'
<1>. SUFFICES ASSUME IInv, [Next]_vars PROVE IInv'
  OBVIOUS
<1>1. TypeOK /\ TypeOK'
  BY TypeInductive DEF IInv
<1>2. ASSUME NEW p \in Pages, Browse(p) PROVE IInv'
  BY <1>1, <1>2, ChangesBegin, OpenKeeps, BeginKeeps, ProcessKeeps
<1>3. CASE Persist
  BY <1>1, <1>3, PersistKeeps, RenameKeeps, AcknowledgeKeeps DEF Persist
<1>4. CASE Restart
  BY <1>1, <1>4, ProcessKeeps, EndKeeps, StartKeeps DEF Restart
<1>5. CASE Fail \/ WorkStarts \/ WorkEnds \/ Crash \/ PowerFails \/ Damage \/ UNCHANGED vars
  BY <1>1, <1>5, ProcessKeeps, EndKeeps, PowerKeeps, DamageKeeps
<1>. QED BY <1>2, <1>3, <1>4, <1>5 DEF Next

LEMMA Always == Spec => []IInv
BY Initially, Inductive, PTL DEF Spec

------------------------------------------------------------------------------
(* A change that the page was told of with 202 is what is read after any   *)
(* failure of process and power, or a later change is.                     *)
THEOREM AcknowledgmentLasts == Spec => []AcknowledgedSurvives
<1>1. IInv => AcknowledgedSurvives
  BY DEF IInv
<1>. QED BY <1>1, Always, PTL

(* No page overwrites settings that it does not show, except one that was  *)
(* loaded before what was saved was lost or set aside, or while it was.    *)
THEOREM NothingOverwritten == Spec => []ChangeFromCurrent
<1>1. IInv => ChangeFromCurrent
  BY DEF IInv
<1>. QED BY <1>1, Always, PTL

(* The restart for settings waits for the work that was dispatched.        *)
THEOREM RestartWaits == Spec => []RestartKillsNothing
<1>1. IInv => RestartKillsNothing
  BY DEF IInv
<1>. QED BY <1>1, Always, PTL
==============================================================================
