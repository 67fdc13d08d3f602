-------------------------- MODULE AutoRecoveryProofs --------------------------
(***************************************************************************)
(* What module AutoRecovery promises for any number of operations, faults, *)
(* incidents, commands and crashes: the latch holds while the inference of *)
(* unknown outcome may run, an operation restarts the service once, a      *)
(* pause is respected, and restarts are limited. Four arguments, one for   *)
(* each: incarnations only grow and each copy of the controller's memory   *)
(* speaks of the incident it was made for; an operation that was invoked   *)
(* is in the journal and in its file; a check that counts was asked for in *)
(* this revision; and what was asked for is counted in the memory and in   *)
(* its file, what is dispatched in the helper's journal and in its file.   *)
(***************************************************************************)
EXTENDS AutoRecovery, FiniteSetTheorems, TLAPS

------------------------------------------------------------------------------
(* The helper's part of the inductive invariant *)

(* A completed operation ends in an incarnation that is newer than the one *)
(* it began with, and one that was dispatched began with one there was.    *)
EntryTrue(e) ==
  /\ e.dispatched => e.before <= incarnation
  /\ e.state = "completed" => e.after # None /\ e.after > e.before

EntriesTrue(j) == \A id \in Operations : j[id] # None => EntryTrue(j[id])

AnswerTrue ==
  answer # None /\ answer.state = "completed" =>
    answer.after # None /\ answer.before # None /\ answer.after > answer.before

AnswersTrue == EntriesTrue(journal) /\ EntriesTrue(journalFile) /\ AnswerTrue

(* An operation that was invoked is in the journal and in its file. *)
InvokedIsKnown ==
  /\ \A id \in Operations : invoked[id] > 0 => journal[id] # None /\ journalFile[id] # None
  /\ serving # None => journal[serving.id] # None /\ journalFile[serving.id] # None
  /\ serving # None /\ serving.at = "intent" => invoked[serving.id] = 0

HelperInv == HelperTypeOK /\ AnswersTrue /\ InvokedIsKnown /\ RestartOnce

------------------------------------------------------------------------------
(* The controller's part *)

ControlTypeOK ==
  /\ up \in BOOLEAN
  /\ {latch, latchFile} \subseteq Latches \cup {None} /\ latchError \in BOOLEAN
  /\ latch # None => latch.incident <= incidents /\ latch.since <= incarnation
  /\ storageError \in BOOLEAN
  /\ paused \in BOOLEAN /\ revision \in Nat
  /\ {manual, asked} \subseteq Nat \cup {None}
  /\ step \in [at : {"idle", "gate", "telemetry", "adopt", "check", "post", "get", "sample",
                     "probe"}, key : Nat, before : Nat]
  /\ issued \in 0..MaxOperations /\ episodeOf \in [Operations -> Nat]
  /\ incidents \in 0..MaxIncidents /\ commands \in 0..MaxCommands
  /\ crashes \in 0..MaxCrashes
  /\ dirty \in 0..incarnation

(* What is on disk of the latch is what is in memory. *)
LatchFiled == latchFile # None => latch = latchFile

(* A latch names an incarnation that is not older than the one with the    *)
(* inference of unknown outcome. *)
LatchCovers == latch # None => dirty <= latch.since

(* Without a latch, that incarnation is over; when the process is down,    *)
(* what counts is the file. *)
UnlatchedIsSafe ==
  /\ up /\ latch = None => dirty < incarnation
  /\ ~up /\ latchFile = None => dirty = 0

(* What the memory says of the incident it was made for: the operation     *)
(* began with the incarnation of the incident or a later one, and what is  *)
(* being verified came after it. *)
Speaks(s) ==
  latch # None /\ s.episode = latch.incident /\ s.current # None =>
    /\ s.current.before >= latch.since
    /\ s.current.phase \in {"verifying", "completed"} => s.current.after > s.current.before

MemoryTrue(s) == s \in Memories /\ Restorable(s) /\ s.episode <= incidents /\ Speaks(s)

(* A tick that has the gate works for the incident that is latched. *)
TickIsCurrent ==
  /\ step.at # "idle" => up /\ saved.episode = step.key
  /\ step.at \notin {"idle", "gate"} => latch # None /\ latch.incident = step.key
  /\ step.at = "adopt" => step.before >= latch.since
  /\ step.at \in {"check", "post", "get"} => saved.current # None /\ saved.current.id # 0
  /\ step.at \in {"sample", "probe"} => InPhase(saved.current, {"verifying", "completed"})
  /\ step.at = "probe" => dirty < incarnation

(* A requested check that counts was asked for at its revision. *)
CheckWasAsked == manual # None => asked = manual

ControlInv ==
  /\ ControlTypeOK
  /\ LatchFiled /\ LatchCovers /\ UnlatchedIsSafe
  /\ MemoryTrue(saved) /\ MemoryTrue(savedFile)
  /\ TickIsCurrent
  /\ CheckWasAsked

IInv == HelperInv /\ ControlInv

------------------------------------------------------------------------------
LEMMA ConstantFacts ==
  /\ None \notin Nat /\ None \notin Entries /\ None \notin Servings /\ None \notin Results
  /\ None \notin Latches /\ None \notin Currents
  /\ MaxRestarts \in Nat \ {0} /\ StableSamples \in Nat \ {0}
  /\ MaxOperations \in Nat
  /\ Operations \subseteq Nat \ {0} /\ Operations \subseteq 0..MaxOperations
  /\ \A c \in 0..MaxOperations : c < MaxOperations => c + 1 \in Operations
  /\ \A c \in 0..MaxFaults : c < MaxFaults => c + 1 \in 0..MaxFaults
  /\ \A c \in 0..MaxIncidents : c < MaxIncidents => c + 1 \in 0..MaxIncidents
  /\ \A c \in 0..MaxCommands : c < MaxCommands => c + 1 \in 0..MaxCommands
  /\ \A c \in 0..MaxCrashes : c < MaxCrashes => c + 1 \in 0..MaxCrashes
  /\ 0 \in 0..MaxFaults /\ 0 \in 0..MaxIncidents /\ 0 \in 0..MaxCommands
  /\ 0 \in 0..MaxCrashes /\ 0 \in 0..MaxOperations
BY HelperAssumption, RecoveryAssumption DEF Operations

(* The entries of the helper's journal. *)

LEMMA EntryTypes ==
  ASSUME NEW before \in Incarnations
  PROVE  /\ Entry("failed", before, None, FALSE) \in Entries
         /\ Entry("uncertain", before, None, TRUE) \in Entries
         /\ EntryTrue(Entry("failed", before, None, FALSE))
         /\ before <= incarnation => EntryTrue(Entry("uncertain", before, None, TRUE))
BY DEF Entry, Entries, EntryTrue

LEMMA ReconciledTrue ==
  ASSUME incarnation \in Incarnations, NEW d \in Entries, EntryTrue(d),
         NEW e \in Reconciled(d)
  PROVE  e \in Entries /\ EntryTrue(e)
<1>1. CASE e = d
  BY <1>1
<1>2. CASE /\ incarnation # d.before /\ d.dispatched
           /\ e = [state |-> "completed", before |-> d.before, after |-> incarnation,
                   dispatched |-> TRUE]
  <2>1. d.before \in Nat \ {0} /\ incarnation \in Nat \ {0} /\ d.before <= incarnation
    BY <1>2 DEF Entries, Incarnations, EntryTrue
  <2>2. incarnation > d.before /\ incarnation # None
    BY <1>2, <2>1, ConstantFacts
  <2>3. e \in Entries
    BY <1>2, <2>1 DEF Entries, Incarnations
  <2>. QED BY <1>2, <2>1, <2>2, <2>3 DEF EntryTrue
<1>. QED BY <1>1, <1>2 DEF Reconciled, Replaced, Entry

(* An entry is noted: it is in the journal, and perhaps in its file. *)
LEMMA JournalKept ==
  ASSUME HelperInv, NEW id \in Operations, NEW e \in Entries, EntryTrue(e),
         incarnation' = incarnation,
         journal' = [journal EXCEPT ![id] = e], journalFile' \in {journalFile, journal'}
  PROVE  /\ {journal', journalFile'} \subseteq [Operations -> Entries \cup {None}]
         /\ EntriesTrue(journal)' /\ EntriesTrue(journalFile)'
         /\ \A o \in Operations : journal[o] # None => journal'[o] # None
         /\ \A o \in Operations :
              journal[o] # None /\ journalFile[o] # None => journalFile'[o] # None
         /\ journal'[id] # None
         /\ journalFile' = journal' => journalFile'[id] # None
<1>1. {journal, journalFile} \subseteq [Operations -> Entries \cup {None}]
  BY DEF HelperInv, HelperTypeOK
<1>2. EntriesTrue(journal) /\ EntriesTrue(journalFile)
  BY DEF HelperInv, AnswersTrue
<1>3. e # None
  BY ConstantFacts
<1>4. /\ journal' \in [Operations -> Entries \cup {None}]
      /\ \A o \in Operations : journal'[o] = IF o = id THEN e ELSE journal[o]
  BY <1>1
<1>5. EntriesTrue(journal)'
  BY <1>2, <1>4 DEF EntriesTrue, EntryTrue
<1>6. EntriesTrue(journalFile)'
  <2>1. CASE journalFile' = journal'
    BY <1>5, <2>1 DEF EntriesTrue, EntryTrue
  <2>2. CASE journalFile' = journalFile
    BY <1>2, <2>2 DEF EntriesTrue, EntryTrue
  <2>. QED BY <2>1, <2>2
<1>. QED BY <1>1, <1>3, <1>4, <1>5, <1>6

LEMMA Journalled ==
  ASSUME HelperInv, NEW j, Saves(j) \/ SaveFails(j)
  PROVE  /\ journal' = j /\ journalFile' \in {journalFile, j}
         /\ Saves(j) => journalFile' = j
         /\ broken' \in BOOLEAN /\ faults' \in 0..MaxFaults
BY ConstantFacts DEF HelperInv, HelperTypeOK, Saves, SaveFails, Fault

(* What the helper answers. *)
LEMMA Replied ==
  ASSUME HelperInv, NEW live, NEW id \in Operations, NEW e \in Entries, EntryTrue(e),
         Reply(live, Result(id, e)) \/ Reply(live, Error)
  PROVE  answer' \in Results \cup {None} /\ AnswerTrue'
<1>1. answer \in Results \cup {None} /\ AnswerTrue
  BY DEF HelperInv, HelperTypeOK, AnswersTrue
<1>2. Result(id, e) \in Results /\ Error \in Results /\ Error.state = "error"
  BY ConstantFacts DEF Result, Error, Entry, Entries, Results
<1>3. Result(id, e).state = e.state /\ Result(id, e).before = e.before
      /\ Result(id, e).after = e.after
  BY DEF Result
<1>4. e.before # None
  BY ConstantFacts DEF Entries, Incarnations
<1>. QED BY <1>1, <1>2, <1>3, <1>4 DEF Reply, AnswerTrue, EntryTrue

------------------------------------------------------------------------------
(* The steps of the helper *)

LEMMA HelperInitially == Init => HelperInv
<1>. SUFFICES ASSUME Init PROVE HelperInv
  OBVIOUS
<1>1. /\ incarnation = 1 /\ broken = FALSE /\ serving = None /\ wire = {} /\ answer = None
      /\ aged = {} /\ faults = 0 /\ journalFile = journal
      /\ journal = [id \in Operations |-> None] /\ invoked = [id \in Operations |-> 0]
  BY DEF Init, HelperInit
<1>2. journal \in [Operations -> Entries \cup {None}] /\ invoked \in [Operations -> Nat]
  BY <1>1
<1>3. HelperTypeOK
  <2>1. {journal, journalFile} \subseteq [Operations -> Entries \cup {None}]
    BY <1>1, <1>2
  <2>2. incarnation \in Incarnations /\ faults \in 0..MaxFaults
    BY <1>1, ConstantFacts DEF Incarnations
  <2>. QED BY <1>1, <1>2, <2>1, <2>2 DEF HelperTypeOK
<1>4. AnswersTrue /\ InvokedIsKnown /\ RestartOnce
  BY <1>1 DEF AnswersTrue, EntriesTrue, AnswerTrue, InvokedIsKnown, RestartOnce
<1>. QED BY <1>3, <1>4 DEF HelperInv

(* A request is refused, answered from the journal, or becomes an intent;  *)
(* an intent is in the file before the service is restarted.               *)
LEMMA DeliverKeeps ==
  ASSUME HelperInv, NEW w \in wire, Deliver(w)
  PROVE  HelperInv' /\ incarnation' = incarnation
<1>1. /\ serving = None /\ wire' = wire \ {w}
      /\ UNCHANGED <<incarnation, invoked, aged>>
      /\ w.id \in Operations /\ w.before \in Incarnations /\ w.live \in BOOLEAN
      /\ incarnation \in Incarnations
      /\ {journal, journalFile} \subseteq [Operations -> Entries \cup {None}]
  BY DEF Deliver, HelperInv, HelperTypeOK, Requests
<1>2. wire' \subseteq Requests /\ aged' \subseteq Operations
      /\ invoked' \in [Operations -> Nat] /\ incarnation' \in Incarnations
  BY <1>1 DEF HelperInv, HelperTypeOK
<1>3. CASE broken
  <2>1. Reply(w.live, Error) /\ UNCHANGED <<journal, journalFile, broken, serving, faults>>
    BY <1>3 DEF Deliver, journals
  <2>2. answer' \in Results \cup {None} /\ AnswerTrue'
    BY <1>1, <2>1, Replied, EntryTypes
  <2>. QED BY <1>1, <1>2, <2>1, <2>2 DEF HelperInv, HelperTypeOK, AnswersTrue, EntriesTrue,
         EntryTrue, InvokedIsKnown, RestartOnce
<1>4. ASSUME NEW e \in Entries, EntryTrue(e),
             Saves([journal EXCEPT ![w.id] = e]) \/ SaveFails([journal EXCEPT ![w.id] = e]),
             \/ Reply(w.live, Result(w.id, e)) \/ Reply(w.live, Error) \/ UNCHANGED answer,
             \/ UNCHANGED serving
             \/ /\ Saves([journal EXCEPT ![w.id] = e]) /\ journal[w.id] = None
                /\ serving' = [id |-> w.id, live |-> w.live, at |-> "intent"]
      PROVE  HelperInv'
  <2>1. /\ journal' = [journal EXCEPT ![w.id] = e]
        /\ journalFile' \in {journalFile, journal'}
        /\ Saves([journal EXCEPT ![w.id] = e]) => journalFile' = journal'
        /\ broken' \in BOOLEAN /\ faults' \in 0..MaxFaults
    BY <1>4, Journalled
  <2>2. /\ {journal', journalFile'} \subseteq [Operations -> Entries \cup {None}]
        /\ EntriesTrue(journal)' /\ EntriesTrue(journalFile)'
        /\ \A o \in Operations : journal[o] # None => journal'[o] # None
        /\ \A o \in Operations :
              journal[o] # None /\ journalFile[o] # None => journalFile'[o] # None
        /\ journal'[w.id] # None
        /\ journalFile' = journal' => journalFile'[w.id] # None
    BY <1>1, <1>4, <2>1, JournalKept
  <2>3. answer' \in Results \cup {None} /\ AnswerTrue'
    <3>1. CASE UNCHANGED answer
      BY <3>1 DEF HelperInv, HelperTypeOK, AnswersTrue, AnswerTrue
    <3>2. CASE ~UNCHANGED answer
      BY <1>1, <1>4, <3>2, Replied
    <3>. QED BY <3>1, <3>2
  <2>4. InvokedIsKnown' /\ RestartOnce'
    <3>1. \A id \in Operations : invoked[id] > 0 => journal[id] # None /\ journalFile[id] # None
      BY DEF HelperInv, InvokedIsKnown
    <3>2. \A id \in Operations : invoked'[id] > 0 => journal'[id] # None /\ journalFile'[id] # None
      BY <1>1, <2>2, <3>1
    <3>3. journal[w.id] = None => invoked[w.id] = 0
      BY <1>1, <1>2, <3>1
    <3>4. CASE UNCHANGED serving
      BY <1>1, <3>2, <3>4 DEF InvokedIsKnown, HelperInv, RestartOnce
    <3>5. CASE /\ Saves([journal EXCEPT ![w.id] = e]) /\ journal[w.id] = None
               /\ serving' = [id |-> w.id, live |-> w.live, at |-> "intent"]
      BY <1>1, <2>1, <2>2, <3>2, <3>3, <3>5 DEF InvokedIsKnown, HelperInv, RestartOnce
    <3>. QED BY <1>4, <3>4, <3>5
  <2>5. serving' \in Servings \cup {None}
    BY <1>1, <1>4 DEF Servings
  <2>. QED BY <1>2, <2>1, <2>2, <2>3, <2>4, <2>5 DEF HelperInv, HelperTypeOK, AnswersTrue
<1>5. CASE ~broken /\ Replay(w)
  <2>1. PICK e \in Reconciled(journal[w.id]) :
          LET j == [journal EXCEPT ![w.id] = e] IN
          \/ Saves(j) /\ Reply(w.live, Result(w.id, e))
          \/ SaveFails(j) /\ Reply(w.live, Error)
    BY <1>5 DEF Replay
  <2>2. journal[w.id] \in Entries /\ EntryTrue(journal[w.id]) /\ UNCHANGED serving
    BY <1>1, <1>5 DEF Replay, HelperInv, AnswersTrue, EntriesTrue
  <2>3. e \in Entries /\ EntryTrue(e)
    BY <1>1, <2>2, ReconciledTrue
  <2>. QED BY <1>1, <1>4, <2>1, <2>2, <2>3
<1>6. CASE ~broken /\ Refuse(w)
  <2>. DEFINE e == Entry("failed", w.before, None, FALSE)
  <2>1. e \in Entries /\ EntryTrue(e)
    BY <1>1, EntryTypes
  <2>2. /\ \/ Saves([journal EXCEPT ![w.id] = e]) /\ Reply(w.live, Result(w.id, e))
           \/ SaveFails([journal EXCEPT ![w.id] = e]) /\ Reply(w.live, Error)
        /\ UNCHANGED serving
    BY <1>6 DEF Refuse
  <2>. QED BY <1>1, <1>4, <2>1, <2>2
<1>7. CASE ~broken /\ Intend(w)
  <2>. DEFINE e == Entry("uncertain", w.before, None, TRUE)
  <2>1. w.before = incarnation /\ journal[w.id] = None
    BY <1>7 DEF Intend
  <2>2. w.before <= incarnation
    BY <1>1, <2>1 DEF Incarnations
  <2>3. e \in Entries /\ EntryTrue(e)
    BY <1>1, <2>2, EntryTypes
  <2>4. \/ /\ Saves([journal EXCEPT ![w.id] = e])
           /\ serving' = [id |-> w.id, live |-> w.live, at |-> "intent"]
           /\ UNCHANGED answer
        \/ /\ SaveFails([journal EXCEPT ![w.id] = e])
           /\ Reply(w.live, Error) /\ UNCHANGED serving
    BY <1>7 DEF Intend
  <2>. QED BY <1>1, <1>4, <2>1, <2>3, <2>4
<1>. QED BY <1>1, <1>3, <1>5, <1>6, <1>7 DEF Deliver

(* systemctl is called for an intent, which is in the file. *)
LEMMA InvokeKeeps ==
  ASSUME HelperInv, Invoke
  PROVE  HelperInv' /\ incarnation' >= incarnation
<1>1. /\ serving \in Servings /\ serving # None /\ serving.at = "intent"
      /\ serving' = [serving EXCEPT !.at = "outcome"]
      /\ invoked' = [invoked EXCEPT ![serving.id] = @ + 1]
      /\ incarnation' \in {incarnation, incarnation + 1}
      /\ UNCHANGED <<journal, journalFile, broken, wire, answer, aged, faults>>
  BY DEF Invoke, journals, HelperInv, HelperTypeOK
<1>2. serving.id \in Operations /\ invoked[serving.id] = 0
      /\ journal[serving.id] # None /\ journalFile[serving.id] # None
  BY <1>1 DEF Servings, HelperInv, InvokedIsKnown
<1>3. serving' \in Servings /\ serving'.at = "outcome" /\ serving'.id = serving.id
      /\ serving' # None
  BY <1>1, ConstantFacts DEF Servings
<1>4. /\ invoked' \in [Operations -> Nat]
      /\ \A id \in Operations : invoked'[id] = IF id = serving.id THEN 1 ELSE invoked[id]
  BY <1>1, <1>2 DEF HelperInv, HelperTypeOK
<1>5. incarnation \in Nat \ {0} /\ incarnation' \in Nat \ {0} /\ incarnation' >= incarnation
  BY <1>1 DEF HelperInv, HelperTypeOK, Incarnations
<1>6. EntriesTrue(journal)' /\ EntriesTrue(journalFile)' /\ AnswerTrue'
  BY <1>1, <1>5 DEF HelperInv, HelperTypeOK, AnswersTrue, AnswerTrue, EntriesTrue, EntryTrue,
     Entries, Incarnations
<1>7. InvokedIsKnown' /\ RestartOnce'
  BY <1>1, <1>2, <1>3, <1>4 DEF HelperInv, InvokedIsKnown, RestartOnce
<1>. QED BY <1>1, <1>3, <1>4, <1>5, <1>6, <1>7
     DEF HelperInv, HelperTypeOK, AnswersTrue, Incarnations

LEMMA ReportKeeps ==
  ASSUME HelperInv, Report
  PROVE  HelperInv' /\ incarnation' = incarnation
<1>1. /\ serving \in Servings /\ serving # None /\ serving' = None
      /\ serving.id \in Operations /\ journal[serving.id] # None
      /\ journal \in [Operations -> Entries \cup {None}]
      /\ UNCHANGED <<incarnation, wire, invoked, aged>>
  BY DEF Report, HelperInv, HelperTypeOK, InvokedIsKnown, Servings
<1>2. PICK e \in Reconciled(journal[serving.id]) :
        LET j == [journal EXCEPT ![serving.id] = e] IN
        \/ Saves(j) /\ Reply(serving.live, Result(serving.id, e))
        \/ SaveFails(j) /\ Reply(serving.live, Error)
  BY DEF Report
<1>3. e \in Entries /\ EntryTrue(e)
  <2>1. journal[serving.id] \in Entries /\ EntryTrue(journal[serving.id])
        /\ incarnation \in Incarnations
    BY <1>1 DEF HelperInv, HelperTypeOK, AnswersTrue, EntriesTrue
  <2>. QED BY <2>1, ReconciledTrue
<1>4. /\ journal' = [journal EXCEPT ![serving.id] = e]
      /\ journalFile' \in {journalFile, journal'}
      /\ broken' \in BOOLEAN /\ faults' \in 0..MaxFaults
  BY <1>2, Journalled
<1>5. /\ {journal', journalFile'} \subseteq [Operations -> Entries \cup {None}]
      /\ EntriesTrue(journal)' /\ EntriesTrue(journalFile)'
      /\ \A o \in Operations : journal[o] # None => journal'[o] # None
      /\ \A o \in Operations :
            journal[o] # None /\ journalFile[o] # None => journalFile'[o] # None
  BY <1>1, <1>3, <1>4, JournalKept
<1>6. answer' \in Results \cup {None} /\ AnswerTrue'
  BY <1>1, <1>2, <1>3, Replied
<1>7. InvokedIsKnown' /\ RestartOnce'
  BY <1>1, <1>5 DEF HelperInv, InvokedIsKnown, RestartOnce
<1>. QED BY <1>1, <1>4, <1>5, <1>6, <1>7 DEF HelperInv, HelperTypeOK, AnswersTrue

(* What is done to the helper and its connections from outside. *)
LEMMA ConnectionsKeep ==
  ASSUME HelperInv, UNCHANGED <<incarnation, journal, journalFile, broken, invoked, aged>>,
         faults' \in 0..MaxFaults, wire' \subseteq Requests,
         \/ UNCHANGED serving
         \/ serving # None /\ serving' = [serving EXCEPT !.live = FALSE],
         answer' \in {answer, None}
  PROVE  HelperInv'
<1>1. /\ serving' # None => serving # None /\ serving'.id = serving.id /\ serving'.at = serving.at
      /\ serving' \in Servings \cup {None}
  <2>1. CASE UNCHANGED serving
    BY <2>1 DEF HelperInv, HelperTypeOK
  <2>2. CASE serving # None /\ serving' = [serving EXCEPT !.live = FALSE]
    BY <2>2 DEF HelperInv, HelperTypeOK, Servings
  <2>. QED BY <2>1, <2>2
<1>2. HelperTypeOK'
  BY <1>1 DEF HelperInv, HelperTypeOK
<1>3. AnswersTrue'
  BY DEF HelperInv, AnswersTrue, AnswerTrue, EntriesTrue, EntryTrue
<1>4. InvokedIsKnown' /\ RestartOnce'
  BY <1>1 DEF HelperInv, InvokedIsKnown, RestartOnce
<1>. QED BY <1>2, <1>3, <1>4 DEF HelperInv

LEMMA HungUp ==
  ASSUME HelperInv, HangUp
  PROVE  /\ wire' \subseteq Requests /\ answer' = None
         /\ \A w \in wire' : ~w.live
         /\ \/ UNCHANGED serving
            \/ serving # None /\ serving' = [serving EXCEPT !.live = FALSE]
<1>1. \A w \in Requests : /\ [w EXCEPT !.live = FALSE] \in Requests
                          /\ [w EXCEPT !.live = FALSE].live = FALSE
  BY DEF Requests
<1>2. wire \subseteq Requests
  BY DEF HelperInv, HelperTypeOK
<1>. QED BY <1>1, <1>2 DEF HangUp

LEMMA HelperRestartsKeeps ==
  ASSUME HelperInv, HelperRestarts
  PROVE  HelperInv' /\ incarnation' = incarnation
<1>1. /\ journal' = journalFile /\ broken' = FALSE /\ serving' = None /\ wire' = {}
      /\ faults' \in 0..MaxFaults
      /\ UNCHANGED <<incarnation, journalFile, answer, invoked, aged>>
  BY ConstantFacts DEF HelperRestarts, Fault, HelperInv, HelperTypeOK
<1>2. HelperTypeOK'
  BY <1>1 DEF HelperInv, HelperTypeOK
<1>3. AnswersTrue'
  BY <1>1 DEF HelperInv, AnswersTrue, AnswerTrue, EntriesTrue, EntryTrue
<1>4. InvokedIsKnown' /\ RestartOnce'
  BY <1>1 DEF HelperInv, InvokedIsKnown, RestartOnce
<1>. QED BY <1>1, <1>2, <1>3, <1>4 DEF HelperInv

LEMMA ServiceReplacedKeeps ==
  ASSUME HelperInv, ServiceReplaced
  PROVE  HelperInv' /\ incarnation' >= incarnation
<1>1. /\ incarnation' = incarnation + 1 /\ faults' \in 0..MaxFaults
      /\ UNCHANGED <<journal, journalFile, broken, serving, wire, answer, invoked, aged>>
  BY ConstantFacts DEF ServiceReplaced, Fault, HelperInv, HelperTypeOK, journals
<1>2. incarnation \in Nat \ {0} /\ incarnation' \in Nat \ {0} /\ incarnation' >= incarnation
  BY <1>1 DEF HelperInv, HelperTypeOK, Incarnations
<1>3. HelperTypeOK'
  BY <1>1, <1>2 DEF HelperInv, HelperTypeOK, Incarnations
<1>4. AnswersTrue'
  BY <1>1, <1>2 DEF HelperInv, HelperTypeOK, AnswersTrue, AnswerTrue, EntriesTrue, EntryTrue,
     Entries, Incarnations
<1>5. InvokedIsKnown' /\ RestartOnce'
  BY <1>1 DEF HelperInv, InvokedIsKnown, RestartOnce
<1>. QED BY <1>2, <1>3, <1>4, <1>5 DEF HelperInv

LEMMA HelperNextKeeps ==
  ASSUME HelperInv, HelperNext
  PROVE  HelperInv' /\ incarnation' >= incarnation
<1>1. incarnation \in Nat
  BY DEF HelperInv, HelperTypeOK, Incarnations
<1>2. ASSUME NEW id \in Operations, Age(id) PROVE HelperInv' /\ incarnation' = incarnation
  <2>1. /\ UNCHANGED <<incarnation, journal, journalFile, broken, serving, wire, answer,
                       invoked, faults>>
        /\ aged' \subseteq Operations
    BY <1>2 DEF Age, journals, HelperInv, HelperTypeOK
  <2>. QED BY <2>1 DEF HelperInv, HelperTypeOK, AnswersTrue, AnswerTrue, EntriesTrue,
         EntryTrue, InvokedIsKnown, RestartOnce
<1>3. \/ HelperInv' /\ incarnation' = incarnation
      \/ HelperInv' /\ incarnation' >= incarnation
  BY <1>2, DeliverKeeps, InvokeKeeps, ReportKeeps, HelperRestartsKeeps, ServiceReplacedKeeps
     DEF HelperNext
<1>. QED BY <1>1, <1>3

------------------------------------------------------------------------------
(* The memory of the controller and its file *)

LEMMA CurrentTrue ==
  ASSUME ControlInv, NEW m \in {saved, savedFile}, NEW c \in Currents,
         c.phase \in {"verifying", "completed"} => c.after \notin {None, c.before},
         c.phase \in {"pending", "uncertain"} => c.id # 0,
         latch # None /\ m.episode = latch.incident =>
           /\ c.before >= latch.since
           /\ c.phase \in {"verifying", "completed"} => c.after > c.before
  PROVE  MemoryTrue([m EXCEPT !.current = c])
<1>1. MemoryTrue(m)
  BY DEF ControlInv
<1>2. [m EXCEPT !.current = c] \in Memories
  BY <1>1 DEF MemoryTrue, Memories
<1>3. /\ [m EXCEPT !.current = c].current = c
      /\ [m EXCEPT !.current = c].episode = m.episode
  BY <1>1 DEF MemoryTrue, Memories
<1>. QED BY <1>1, <1>2, <1>3 DEF MemoryTrue, Restorable, Speaks

(* persist(): what is edited is in memory, and perhaps in the file. *)
LEMMA Persisted ==
  ASSUME HelperInv, ControlInv, NEW s, NEW place, Persist(s, place)
  PROVE  /\ saved' = s /\ savedFile' \in {savedFile, s}
         /\ storageError' \in BOOLEAN /\ faults' \in 0..MaxFaults
         /\ step' = Going(place) \/ step' = Idle
BY ConstantFacts DEF Persist, Fault, HelperInv, HelperTypeOK, ControlInv, ControlTypeOK

LEMMA Edited ==
  ASSUME ControlInv, NEW s, MemoryTrue(s), UNCHANGED <<latch, incidents>>,
         saved' = s, savedFile' \in {savedFile, s}
  PROVE  MemoryTrue(saved)' /\ MemoryTrue(savedFile)'
<1>1. MemoryTrue(s)' /\ MemoryTrue(savedFile)
  BY DEF MemoryTrue, Speaks, ControlInv
<1>2. savedFile' = savedFile => MemoryTrue(savedFile)'
  BY <1>1 DEF MemoryTrue, Speaks
<1>3. savedFile' = s => MemoryTrue(savedFile)'
  BY <1>1 DEF MemoryTrue, Speaks
<1>4. MemoryTrue(saved)'
  BY <1>1 DEF MemoryTrue, Speaks
<1>. QED BY <1>2, <1>3, <1>4

LEMMA StepTypes ==
  ASSUME ControlInv, NEW place \in {"idle", "gate", "telemetry", "adopt", "check", "post",
                                    "get", "sample", "probe"}
  PROVE  /\ Going(place) \in [at : {"idle", "gate", "telemetry", "adopt", "check", "post",
                                    "get", "sample", "probe"}, key : Nat, before : Nat]
         /\ Idle \in [at : {"idle", "gate", "telemetry", "adopt", "check", "post",
                                    "get", "sample", "probe"}, key : Nat, before : Nat]
         /\ Going(place).at = place /\ Idle.at = "idle" /\ Going("idle") = Idle
         /\ place # "idle" => Going(place).key = step.key /\ Going(place).before = step.before
BY DEF ControlInv, ControlTypeOK, Going, Idle

(* A step of the tick that leaves latch and operator alone keeps the       *)
(* invariant when what it saves is true and what it awaits fits.           *)
LEMMA TickKeeps ==
  ASSUME IInv, RecoveryKeeps, incarnation' = incarnation,
         up, NEW s, MemoryTrue(s), s.episode = step.key,
         saved' = s, savedFile' \in {savedFile, s}, storageError' \in BOOLEAN,
         manual' \in {manual, None},
         NEW place \in {"idle", "gate", "telemetry", "adopt", "check", "post", "get",
                        "sample", "probe"},
         step' = Idle \/ step' = Going(place),
         place # "idle" => latch # None /\ latch.incident = step.key,
         place # "adopt",
         place \in {"check", "post", "get"} => s.current # None /\ s.current.id # 0,
         place \in {"sample", "probe"} => InPhase(s.current, {"verifying", "completed"}),
         place = "probe" => dirty < incarnation
  PROVE  ControlInv'
<1>1. /\ UNCHANGED <<up, latch, latchFile, latchError, paused, revision, commands, asked,
                     issued, episodeOf, incidents, crashes, dirty>>
  BY DEF RecoveryKeeps, latching, history
<1>2. MemoryTrue(saved)' /\ MemoryTrue(savedFile)'
  BY <1>1, Edited DEF IInv
<1>3. /\ step' \in [at : {"idle", "gate", "telemetry", "adopt", "check", "post",
                          "get", "sample", "probe"}, key : Nat, before : Nat]
      /\ step'.at \in {"idle", place}
      /\ step'.at # "idle" => step'.key = step.key /\ step'.before = step.before
  BY StepTypes DEF IInv
<1>4. ControlTypeOK'
  BY <1>1, <1>3 DEF IInv, ControlInv, ControlTypeOK
<1>5. TickIsCurrent'
  BY <1>1, <1>3 DEF TickIsCurrent, InPhase
<1>6. LatchFiled' /\ LatchCovers' /\ UnlatchedIsSafe' /\ CheckWasAsked'
  BY <1>1 DEF IInv, ControlInv, LatchFiled, LatchCovers, UnlatchedIsSafe, CheckWasAsked
<1>. QED BY <1>2, <1>4, <1>5, <1>6 DEF ControlInv

(* So does one that only goes on. *)
LEMMA GoingKeeps ==
  ASSUME IInv, RecoveryKeeps, incarnation' = incarnation, up,
         UNCHANGED <<saved, savedFile, storageError>>, manual' \in {manual, None},
         step.at # "idle",
         NEW place \in {"idle", "telemetry", "check", "post", "get", "sample"},
         step' = Idle \/ step' = Going(place),
         place # "idle" => latch # None /\ latch.incident = step.key,
         place \in {"check", "post", "get"} => saved.current # None /\ saved.current.id # 0,
         place = "sample" => InPhase(saved.current, {"verifying", "completed"})
  PROVE  ControlInv'
<1>1. MemoryTrue(saved) /\ saved.episode = step.key /\ storageError' \in BOOLEAN
  BY DEF IInv, ControlInv, TickIsCurrent, ControlTypeOK
<1>. QED BY <1>1, TickKeeps

(* Nothing of the helper is touched. *)
LEMMA HelperUntouched ==
  ASSUME HelperInv, UNCHANGED helper, faults' \in 0..MaxFaults
  PROVE  HelperInv' /\ incarnation' = incarnation
<1>1. /\ UNCHANGED <<incarnation, journal, journalFile, broken, serving, wire, answer,
                     invoked, aged>>
  BY DEF helper, journals
<1>2. wire' \subseteq Requests
  BY <1>1 DEF HelperInv, HelperTypeOK
<1>. QED BY <1>1, <1>2, ConnectionsKeep

------------------------------------------------------------------------------
(* The backend, the operator and the processes *)

LEMMA Initially == Init => IInv
<1>. SUFFICES ASSUME Init PROVE IInv
  OBVIOUS
<1>1. HelperInv
  BY HelperInitially
<1>2. saved = savedFile /\ MemoryTrue(saved)
  BY ConstantFacts DEF Init, MemoryTrue, Memories, Restorable, Speaks
<1>3. incarnation = 1
  BY DEF Init, HelperInit
<1>4. ControlTypeOK
  <2>1. /\ episodeOf \in [Operations -> Nat] /\ dirty \in 0..incarnation
        /\ step \in [at : {"idle", "gate", "telemetry", "adopt", "check", "post", "get",
                           "sample", "probe"}, key : Nat, before : Nat]
    BY <1>3 DEF Init, Idle
  <2>2. /\ latch = None /\ latchFile = None /\ manual = None /\ asked = None
        /\ up /\ up \in BOOLEAN /\ latchError \in BOOLEAN /\ storageError \in BOOLEAN
        /\ paused \in BOOLEAN /\ revision = 0 /\ issued = 0 /\ incidents = 0
        /\ commands = 0 /\ crashes = 0
    BY DEF Init
  <2>. QED BY <2>1, <2>2, ConstantFacts DEF ControlTypeOK
<1>5. TickIsCurrent /\ LatchFiled /\ LatchCovers /\ UnlatchedIsSafe /\ CheckWasAsked
  BY <1>3 DEF Init, TickIsCurrent, LatchFiled, LatchCovers, UnlatchedIsSafe, CheckWasAsked,
     Idle
<1>. QED BY <1>1, <1>2, <1>4, <1>5 DEF IInv, ControlInv

(* A step of the helper: incarnations grow. *)
LEMMA HelperStepKeeps ==
  ASSUME IInv, HelperStep
  PROVE  IInv'
<1>1. /\ UNCHANGED <<up, latch, latchFile, latchError, saved, savedFile, storageError,
                     paused, revision, manual, commands, asked, step, issued, episodeOf,
                     incidents, crashes, dirty>>
  BY DEF HelperStep, latching, saving, operator, history
<1>2. HelperInv' /\ incarnation' >= incarnation
  BY HelperNextKeeps DEF IInv, HelperStep
<1>3. incarnation \in Nat /\ incarnation' \in Nat /\ dirty \in 0..incarnation
  BY <1>2 DEF IInv, HelperInv, HelperTypeOK, Incarnations, ControlInv, ControlTypeOK
<1>4. latch # None => latch.since \in Nat
  BY DEF IInv, ControlInv, ControlTypeOK, Latches, Incarnations
<1>5. ControlTypeOK'
  BY <1>1, <1>2, <1>3, <1>4 DEF IInv, ControlInv, ControlTypeOK
<1>6. MemoryTrue(saved)' /\ MemoryTrue(savedFile)'
  BY <1>1, Edited DEF IInv, ControlInv
<1>7. LatchFiled' /\ LatchCovers' /\ UnlatchedIsSafe' /\ TickIsCurrent' /\ CheckWasAsked'
  BY <1>1, <1>2, <1>3 DEF IInv, ControlInv, LatchFiled, LatchCovers, UnlatchedIsSafe,
     TickIsCurrent, CheckWasAsked, InPhase
<1>. QED BY <1>2, <1>5, <1>6, <1>7 DEF IInv, ControlInv

LEMMA IncidentKeeps ==
  ASSUME IInv, Incident
  PROVE  IInv'
<1>1. /\ up /\ latch = None /\ step.at = "idle"
      /\ latch' = [incident |-> incidents + 1, since |-> incarnation]
      /\ incidents' = incidents + 1 /\ incidents < MaxIncidents
      /\ dirty' = incarnation
      /\ latchFile' \in {latchFile, latch'} /\ latchError' \in BOOLEAN
      /\ faults' \in 0..MaxFaults
      /\ UNCHANGED <<up, saved, savedFile, storageError, paused, revision, manual, commands,
                     asked, step, issued, episodeOf, crashes>>
  BY ConstantFacts
     DEF Incident, Fault, saving, operator, IInv, HelperInv, HelperTypeOK
<1>2. HelperInv' /\ incarnation' = incarnation
  BY <1>1, HelperUntouched DEF IInv, Incident
<1>3. incarnation \in Nat \ {0} /\ incidents \in Nat /\ incidents' \in 0..MaxIncidents
  BY <1>1, ConstantFacts DEF IInv, HelperInv, HelperTypeOK, Incarnations, ControlInv,
     ControlTypeOK
<1>4. latch' \in Latches /\ latch'.incident = incidents' /\ latch'.since = incarnation
      /\ latch' # None
  BY <1>1, <1>3, ConstantFacts DEF Latches, Incarnations
<1>5. latchFile = None
  BY <1>1 DEF IInv, ControlInv, LatchFiled
<1>6. ControlTypeOK'
  BY <1>1, <1>2, <1>3, <1>4, <1>5 DEF IInv, ControlInv, ControlTypeOK
<1>7. \A s : MemoryTrue(s) => s \in Memories /\ Restorable(s) /\ s.episode \in Nat
                              /\ s.episode <= incidents
  BY DEF MemoryTrue, Memories
<1>8. MemoryTrue(saved)' /\ MemoryTrue(savedFile)'
  BY <1>1, <1>3, <1>4, <1>7 DEF IInv, ControlInv, MemoryTrue, Speaks, Restorable
<1>9. LatchFiled' /\ LatchCovers' /\ UnlatchedIsSafe' /\ TickIsCurrent' /\ CheckWasAsked'
  BY <1>1, <1>2, <1>3, <1>4, <1>5 DEF IInv, ControlInv, LatchFiled, LatchCovers,
     UnlatchedIsSafe, TickIsCurrent, CheckWasAsked
<1>. QED BY <1>2, <1>6, <1>8, <1>9 DEF IInv, ControlInv

(* Without a latch, the memory speaks of nothing. *)
LEMMA AcknowledgeKeeps ==
  ASSUME IInv, Acknowledge
  PROVE  IInv'
<1>1. /\ up /\ step.at \in {"idle", "gate"}
      /\ latch' = None /\ latchFile' = None /\ latchError' = FALSE /\ dirty' = 0
      /\ UNCHANGED <<up, saved, savedFile, storageError, paused, revision, manual, commands,
                     asked, step, issued, episodeOf, incidents, crashes>>
  BY DEF Acknowledge, saving, operator
<1>2. HelperInv' /\ incarnation' = incarnation
  BY HelperUntouched DEF IInv, Acknowledge, HelperInv, HelperTypeOK
<1>3. incarnation \in Nat \ {0}
  BY DEF IInv, HelperInv, HelperTypeOK, Incarnations
<1>4. ControlTypeOK'
  <2>1. dirty' \in 0..incarnation'
    BY <1>1, <1>2, <1>3
  <2>2. {latch', latchFile'} \subseteq Latches \cup {None}
    BY <1>1
  <2>3. latchError' \in BOOLEAN
    BY <1>1
  <2>. QED BY <1>1, <2>1, <2>2, <2>3 DEF IInv, ControlInv, ControlTypeOK
<1>5. MemoryTrue(saved)' /\ MemoryTrue(savedFile)'
  BY <1>1 DEF IInv, ControlInv, MemoryTrue, Speaks, Restorable
<1>6. LatchFiled' /\ LatchCovers' /\ UnlatchedIsSafe' /\ TickIsCurrent' /\ CheckWasAsked'
  BY <1>1, <1>2, <1>3 DEF IInv, ControlInv, LatchFiled, LatchCovers, UnlatchedIsSafe,
     TickIsCurrent, CheckWasAsked
<1>. QED BY <1>2, <1>4, <1>5, <1>6 DEF IInv, ControlInv

LEMMA CommandKeeps ==
  ASSUME IInv, PauseOrResume \/ CheckNow
  PROVE  IInv'
<1>1. /\ UNCHANGED <<up, latch, latchFile, latchError, saved, savedFile, storageError, step,
                     issued, episodeOf, incidents, crashes, dirty>>
      /\ UNCHANGED helper /\ faults' = faults
      /\ commands < MaxCommands /\ commands' = commands + 1
  BY DEF PauseOrResume, CheckNow, Command, latching, saving, history
<1>2. HelperInv' /\ incarnation' = incarnation
  BY <1>1, HelperUntouched DEF IInv, HelperInv, HelperTypeOK
<1>3. /\ revision \in Nat /\ revision' \in Nat
      /\ {manual', asked'} \subseteq Nat \cup {None} /\ CheckWasAsked'
      /\ paused' \in BOOLEAN
  <2>1. /\ revision \in Nat /\ {manual, asked} \subseteq Nat \cup {None} /\ CheckWasAsked
        /\ paused \in BOOLEAN
    BY DEF IInv, ControlInv, ControlTypeOK
  <2>2. CASE PauseOrResume
    <3>1. /\ revision' = revision + 1 /\ UNCHANGED <<manual, asked>>
          /\ paused' \in BOOLEAN
      BY <2>2 DEF PauseOrResume
    <3>. QED BY <2>1, <3>1 DEF CheckWasAsked
  <2>3. CASE CheckNow
    <3>1. manual' = revision /\ asked' = revision /\ UNCHANGED <<paused, revision>>
      BY <2>3 DEF CheckNow
    <3>. QED BY <2>1, <3>1 DEF CheckWasAsked
  <2>. QED BY <2>2, <2>3
<1>4. commands' \in 0..MaxCommands
  BY <1>1, ConstantFacts DEF IInv, ControlInv, ControlTypeOK
<1>5. ControlTypeOK'
  BY <1>1, <1>2, <1>3, <1>4 DEF IInv, ControlInv, ControlTypeOK
<1>6. MemoryTrue(saved)' /\ MemoryTrue(savedFile)'
  BY <1>1, Edited DEF IInv, ControlInv
<1>7. LatchFiled' /\ LatchCovers' /\ UnlatchedIsSafe' /\ TickIsCurrent'
  BY <1>1, <1>2 DEF IInv, ControlInv, LatchFiled, LatchCovers, UnlatchedIsSafe, TickIsCurrent,
     InPhase
<1>. QED BY <1>2, <1>3, <1>5, <1>6, <1>7 DEF IInv, ControlInv

------------------------------------------------------------------------------
(* The tick up to the decision *)

LEMMA Tidy ==
  ASSUME ControlInv
  PROVE  /\ MemoryTrue(NoEpisode(saved)) /\ NoEpisode(saved).current = None
         /\ latch # None =>
              /\ MemoryTrue(OfEpisode(latch.incident))
              /\ OfEpisode(latch.incident).episode = latch.incident
<1>1. saved \in Memories /\ MemoryTrue(saved)
  BY DEF ControlInv, MemoryTrue
<1>2. /\ NoEpisode(saved) \in Memories /\ NoEpisode(saved).current = None
      /\ NoEpisode(saved).episode = 0
  <2>1. 0 \in 0..MaxRestarts /\ 0 \in Nat
    BY ConstantFacts
  <2>2. saved.history \in SUBSET Operations
    BY <1>1 DEF Memories
  <2>. QED BY <2>1, <2>2 DEF NoEpisode, Memories
<1>3. incidents \in Nat
  BY DEF ControlInv, ControlTypeOK
<1>4. MemoryTrue(NoEpisode(saved))
  BY <1>2, <1>3 DEF MemoryTrue, Restorable, Speaks
<1>5. ASSUME latch # None
      PROVE  /\ MemoryTrue(OfEpisode(latch.incident))
             /\ OfEpisode(latch.incident).episode = latch.incident
  <2>1. latch.incident \in Nat /\ latch.incident <= incidents
    BY <1>5 DEF ControlInv, ControlTypeOK, Latches
  <2>2. CASE saved.episode = latch.incident
    BY <1>1, <2>2 DEF OfEpisode
  <2>3. CASE saved.episode # latch.incident
    <3>. DEFINE s == [NoEpisode(saved) EXCEPT !.episode = latch.incident]
    <3>1. s \in Memories /\ s.current = None /\ s.episode = latch.incident
      BY <1>2, <2>1 DEF Memories
    <3>. QED BY <2>1, <2>3, <3>1 DEF OfEpisode, MemoryTrue, Restorable, Speaks
  <2>. QED BY <2>2, <2>3
<1>. QED BY <1>2, <1>4, <1>5

(* The tick begins: nothing is awaited, or the gate. *)
LEMMA BeginsKeeps ==
  ASSUME IInv, Forget \/ Tick
  PROVE  IInv'
<1>. DEFINE waiting == [Idle EXCEPT !.at = "gate", !.key = latch.incident]
<1>1. /\ UNCHANGED <<up, latch, latchFile, latchError, paused, revision, commands, asked,
                     issued, episodeOf, incidents, crashes, dirty>>
      /\ UNCHANGED helper
      /\ up /\ manual' \in {manual, None}
  BY DEF Forget, Tick, At, RecoveryKeeps, latching, history
<1>2. \E s : /\ MemoryTrue(s) /\ saved' = s /\ savedFile' \in {savedFile, s}
             /\ storageError' \in BOOLEAN /\ faults' \in 0..MaxFaults
             /\ \/ step' = Idle
                \/ latch # None /\ step' = waiting /\ s.episode = latch.incident
  <2>1. CASE Forget
    <3>1. Persist(NoEpisode(saved), "idle")
      BY <2>1 DEF Forget
    <3>. QED BY <3>1, Persisted, Tidy DEF IInv, Going
  <2>2. CASE Tick
    <3>. DEFINE s == OfEpisode(latch.incident)
    <3>1. latch # None /\ MemoryTrue(s) /\ s.episode = latch.incident
      BY <2>2, Tidy DEF Tick, IInv
    <3>2. storageError \in BOOLEAN /\ faults \in 0..MaxFaults
      BY DEF IInv, HelperInv, HelperTypeOK, ControlInv, ControlTypeOK
    <3>3. CASE s # saved
      <4>1. /\ saved' = s
            /\ \/ /\ savedFile' = s
                  /\ step' \in {Idle, waiting}
                  /\ UNCHANGED <<storageError, faults>>
               \/ /\ Fault /\ savedFile' \in {savedFile, s}
                  /\ storageError' = TRUE /\ step' = Idle
        BY <2>2, <3>3 DEF Tick
      <4>. QED BY <3>1, <3>2, <4>1, ConstantFacts DEF Fault
    <3>4. CASE s = saved
      <4>1. step' = waiting /\ UNCHANGED <<saved, savedFile, storageError, faults>>
        BY <2>2, <3>4 DEF Tick, saving
      <4>. QED BY <3>1, <3>2, <3>4, <4>1
    <3>. QED BY <3>3, <3>4
  <2>. QED BY <2>1, <2>2
<1>3. HelperInv' /\ incarnation' = incarnation
  BY <1>1, <1>2, HelperUntouched DEF IInv
<1>4. MemoryTrue(saved)' /\ MemoryTrue(savedFile)'
  BY <1>1, <1>2, Edited DEF IInv
<1>5. latch # None => latch.incident \in Nat
  BY DEF IInv, ControlInv, ControlTypeOK, Latches
<1>6. /\ step' \in [at : {"idle", "gate", "telemetry", "adopt", "check", "post",
                          "get", "sample", "probe"}, key : Nat, before : Nat]
      /\ step'.at \in {"idle", "gate"}
      /\ step'.at # "idle" => saved'.episode = step'.key
      /\ storageError' \in BOOLEAN
  <2>1. /\ waiting \in [at : {"idle", "gate", "telemetry", "adopt", "check", "post",
                             "get", "sample", "probe"}, key : Nat \cup {latch.incident},
                       before : Nat]
        /\ Idle \in [at : {"idle", "gate", "telemetry", "adopt", "check", "post",
                          "get", "sample", "probe"}, key : Nat, before : Nat]
        /\ waiting.at = "gate" /\ waiting.key = latch.incident /\ Idle.at = "idle"
    BY DEF Idle
  <2>2. /\ step' = Idle \/ (latch # None /\ step' = waiting /\ saved'.episode = latch.incident)
        /\ storageError' \in BOOLEAN
    BY <1>2
  <2>. QED BY <1>5, <2>1, <2>2
<1>7. ControlTypeOK'
  BY <1>1, <1>3, <1>6 DEF IInv, ControlInv, ControlTypeOK
<1>8. LatchFiled' /\ LatchCovers' /\ UnlatchedIsSafe' /\ TickIsCurrent' /\ CheckWasAsked'
  BY <1>1, <1>3, <1>6 DEF IInv, ControlInv, LatchFiled, LatchCovers, UnlatchedIsSafe,
     TickIsCurrent, CheckWasAsked
<1>. QED BY <1>3, <1>4, <1>7, <1>8 DEF IInv, ControlInv

(* The gate is granted. *)
LEMMA EnterKeeps ==
  ASSUME IInv, Enter
  PROVE  IInv'
<1>1. RecoveryKeeps /\ UNCHANGED helper /\ up /\ step.at = "gate"
  BY DEF Enter, At
<1>2. /\ MemoryTrue(saved) /\ saved.episode = step.key /\ Restorable(saved)
      /\ storageError \in BOOLEAN /\ faults \in 0..MaxFaults
  BY <1>1 DEF IInv, HelperInv, HelperTypeOK, ControlInv, TickIsCurrent, ControlTypeOK,
     MemoryTrue
<1>3. ASSUME Mine, InPhase(saved.current, {"pending", "uncertain"})
      PROVE  saved.current # None /\ saved.current.id # 0
  BY <1>2, <1>3 DEF InPhase, Restorable
<1>4. \E place \in {"idle", "telemetry", "check", "get", "sample"} :
        /\ step' = Idle \/ step' = Going(place)
        /\ place # "idle" => Mine
        /\ place \in {"check", "get"} => InPhase(saved.current, {"pending", "uncertain"})
        /\ place = "sample" => InPhase(saved.current, {"verifying", "completed"})
        /\ saved' = saved /\ savedFile' \in {savedFile, saved}
        /\ storageError' \in BOOLEAN /\ faults' \in 0..MaxFaults
        /\ manual' \in {manual, None}
  <2>1. CASE ~Mine /\ GiveUp /\ UNCHANGED <<manual, saving, faults>>
    BY <1>2, <2>1 DEF GiveUp, saving
  <2>2. CASE /\ Mine /\ InPhase(saved.current, {"verifying", "completed"})
             /\ GoOn("sample") /\ UNCHANGED <<manual, saving, faults>>
    BY <1>2, <2>2 DEF GoOn, saving
  <2>3. CASE /\ Mine /\ InPhase(saved.current, {"pending", "uncertain"})
             /\ manual' = None /\ Persist(saved, "get")
    BY <2>3, Persisted DEF IInv
  <2>4. CASE /\ Mine /\ InPhase(saved.current, {"pending", "uncertain"})
             /\ GoOn("get") \/ GoOn("check") \/ GiveUp
             /\ UNCHANGED <<manual, saving, faults>>
    BY <1>2, <2>4 DEF GoOn, GiveUp, saving
  <2>5. CASE Mine /\ GoOn("telemetry") /\ UNCHANGED <<manual, saving, faults>>
    BY <1>2, <2>5 DEF GoOn, saving
  <2>. QED BY <2>1, <2>2, <2>3, <2>4, <2>5 DEF Enter
<1>5. HelperInv' /\ incarnation' = incarnation
  BY <1>1, <1>4, HelperUntouched DEF IInv
<1>6. PICK place \in {"idle", "telemetry", "check", "get", "sample"} :
        /\ step' = Idle \/ step' = Going(place)
        /\ place # "idle" => Mine
        /\ place \in {"check", "get"} => InPhase(saved.current, {"pending", "uncertain"})
        /\ place = "sample" => InPhase(saved.current, {"verifying", "completed"})
        /\ saved' = saved /\ savedFile' \in {savedFile, saved}
        /\ storageError' \in BOOLEAN /\ manual' \in {manual, None}
  BY <1>4
<1>7. /\ place # "idle" => latch # None /\ latch.incident = step.key
      /\ place \in {"check", "get"} => saved.current # None /\ saved.current.id # 0
  BY <1>3, <1>6 DEF Mine
<1>8. ControlInv'
  BY <1>1, <1>2, <1>5, <1>6, <1>7, TickKeeps
<1>. QED BY <1>5, <1>8 DEF IInv

(* The incarnation that the helper names is not older than the incident's. *)
LEMMA TelemetryKeeps ==
  ASSUME IInv, Telemetry
  PROVE  IInv'
<1>1. /\ up /\ step.at = "telemetry"
      /\ step' = [step EXCEPT !.at = "adopt", !.before = incarnation]
      /\ UNCHANGED <<up, latch, latchFile, latchError, paused, revision, commands, asked,
                     issued, episodeOf, incidents, crashes, dirty, saved, savedFile,
                     storageError, manual>>
  BY DEF Telemetry, At, RecoveryKeeps, latching, history, saving
<1>2. HelperInv' /\ incarnation' = incarnation
  BY HelperUntouched DEF Telemetry, IInv, HelperInv, HelperTypeOK
<1>3. incarnation \in Nat /\ latch # None /\ latch.since <= incarnation
      /\ latch.since \in Nat /\ latch.incident = step.key
  BY <1>1 DEF IInv, HelperInv, HelperTypeOK, ControlInv, ControlTypeOK, TickIsCurrent,
     Incarnations, Latches
<1>4. /\ step' \in [at : {"idle", "gate", "telemetry", "adopt", "check", "post",
                          "get", "sample", "probe"}, key : Nat, before : Nat]
      /\ step'.at = "adopt" /\ step'.key = step.key /\ step'.before >= latch.since
  BY <1>1, <1>3 DEF IInv, ControlInv, ControlTypeOK
<1>5. ControlTypeOK'
  BY <1>1, <1>2, <1>4 DEF IInv, ControlInv, ControlTypeOK
<1>6. MemoryTrue(saved)' /\ MemoryTrue(savedFile)'
  BY <1>1, Edited DEF IInv, ControlInv
<1>7. LatchFiled' /\ LatchCovers' /\ UnlatchedIsSafe' /\ TickIsCurrent' /\ CheckWasAsked'
  BY <1>1, <1>2, <1>3, <1>4 DEF IInv, ControlInv, LatchFiled, LatchCovers, UnlatchedIsSafe,
     TickIsCurrent, CheckWasAsked
<1>. QED BY <1>2, <1>5, <1>6, <1>7 DEF IInv, ControlInv

LEMMA DeclineKeeps ==
  ASSUME IInv, Decline
  PROVE  IInv'
<1>1. /\ up /\ step.at # "idle" /\ step' = Idle /\ RecoveryKeeps
      /\ UNCHANGED <<saved, savedFile, storageError, manual, faults>> /\ UNCHANGED helper
  BY DEF Decline, At, GiveUp, saving
<1>2. HelperInv' /\ incarnation' = incarnation
  BY <1>1, HelperUntouched DEF IInv, HelperInv, HelperTypeOK
<1>3. ControlInv'
  BY <1>1, <1>2, GoingKeeps
<1>. QED BY <1>2, <1>3 DEF IInv

(* The replacement that is adopted came after the incident. *)
LEMMA AdoptKeeps ==
  ASSUME IInv, Adopt
  PROVE  IInv'
<1>. DEFINE c == Current(0, latch.since, incarnation, "verifying")
            s == [saved EXCEPT !.current = c]
<1>1. /\ up /\ step.at = "adopt" /\ incarnation > latch.since /\ RecoveryKeeps
      /\ Persist(s, "idle") /\ UNCHANGED helper /\ manual' = manual
  BY DEF Adopt, At, StartedAfter
<1>2. /\ latch # None /\ latch.incident = step.key /\ saved.episode = step.key
      /\ latch.since \in Nat \ {0} /\ incarnation \in Nat \ {0}
  BY <1>1 DEF IInv, HelperInv, HelperTypeOK, ControlInv, ControlTypeOK, TickIsCurrent,
     Incarnations, Latches
<1>3. c \in Currents /\ c.phase = "verifying" /\ c.before = latch.since
      /\ c.after = incarnation
  BY <1>2, ConstantFacts DEF Current, Currents, Phases, Incarnations
<1>4. c.after \notin {None, c.before} /\ c.after > c.before /\ c.before >= latch.since
  BY <1>1, <1>2, <1>3, ConstantFacts
<1>5. MemoryTrue(s)
  BY <1>3, <1>4, CurrentTrue DEF IInv
<1>6. /\ saved' = s /\ savedFile' \in {savedFile, s} /\ storageError' \in BOOLEAN
      /\ faults' \in 0..MaxFaults /\ step' = Idle
  BY <1>1, Persisted DEF IInv, Going
<1>7. HelperInv' /\ incarnation' = incarnation
  BY <1>1, <1>6, HelperUntouched DEF IInv
<1>8. s.episode = step.key
  BY <1>2 DEF IInv, ControlInv, MemoryTrue, Memories
<1>9. ControlInv'
  BY <1>1, <1>5, <1>6, <1>7, <1>8, TickKeeps
<1>. QED BY <1>7, <1>9 DEF IInv

(* The operation that is drawn begins with that incarnation. *)
LEMMA DecideKeeps ==
  ASSUME IInv, Decide
  PROVE  IInv'
<1>. DEFINE c == Current(issued + 1, step.before, None, "pending")
            s == [saved EXCEPT !.current = c, !.attempts = @ + 1,
                               !.history = Recent \cup {issued + 1}]
<1>1. /\ up /\ step.at = "adopt" /\ saved.attempts < MaxRestarts
      /\ issued < MaxOperations /\ issued' = issued + 1
      /\ episodeOf' = [episodeOf EXCEPT ![issued'] = step.key]
      /\ Persist(s, "check") /\ UNCHANGED helper
      /\ UNCHANGED <<up, latch, latchFile, latchError, paused, revision, manual, commands,
                     asked, incidents, crashes, dirty>>
  BY DEF Decide, At, latching, operator
<1>2. /\ latch # None /\ latch.incident = step.key /\ saved.episode = step.key
      /\ latch.since \in Nat \ {0} /\ step.before \in Nat /\ step.before >= latch.since
      /\ step.key \in Nat
  BY <1>1 DEF IInv, ControlInv, ControlTypeOK, TickIsCurrent, Incarnations, Latches
<1>3. issued + 1 \in Operations
  BY <1>1, ConstantFacts DEF IInv, ControlInv, ControlTypeOK
<1>4. c \in Currents /\ c.phase = "pending" /\ c.before = step.before /\ c.id = issued + 1
  <2>1. step.before \in Incarnations /\ issued + 1 \in 0..MaxOperations
        /\ 0 \in 0..StableSamples
    <3>1. step.before \in Nat \ {0}
      BY <1>2
    <3>2. issued + 1 \in 0..MaxOperations
      BY <1>3, ConstantFacts
    <3>3. 0 \in 0..StableSamples
      BY ConstantFacts
    <3>. QED BY <3>1, <3>2, <3>3 DEF Incarnations
  <2>. QED BY <2>1 DEF Current, Currents, Phases
<1>5. saved \in Memories /\ saved.episode <= incidents
  BY DEF IInv, ControlInv, MemoryTrue
<1>6. /\ s \in Memories /\ s.current = c /\ s.episode = saved.episode
  <2>1. saved.attempts + 1 \in 0..MaxRestarts
    BY <1>1, <1>5, ConstantFacts DEF Memories
  <2>2. Recent \cup {issued + 1} \subseteq Operations
    BY <1>3, <1>5 DEF Recent, Memories
  <2>. QED BY <1>4, <1>5, <2>1, <2>2 DEF Memories
<1>7. MemoryTrue(s)
  <2>1. c.id # 0
    BY <1>3, <1>4, ConstantFacts
  <2>. QED BY <1>2, <1>4, <1>5, <1>6, <2>1 DEF MemoryTrue, Restorable, Speaks
<1>8. /\ saved' = s /\ savedFile' \in {savedFile, s} /\ storageError' \in BOOLEAN
      /\ faults' \in 0..MaxFaults
      /\ step' = Going("check") \/ step' = Idle
  BY <1>1, Persisted DEF IInv
<1>9. HelperInv' /\ incarnation' = incarnation
  BY <1>1, <1>8, HelperUntouched DEF IInv
<1>10. MemoryTrue(saved)' /\ MemoryTrue(savedFile)'
  BY <1>1, <1>7, <1>8, Edited DEF IInv
<1>11. /\ step' \in [at : {"idle", "gate", "telemetry", "adopt", "check", "post",
                          "get", "sample", "probe"}, key : Nat, before : Nat]
       /\ step'.at \in {"idle", "check"}
       /\ step'.at # "idle" => step'.key = step.key
  BY <1>8, StepTypes DEF IInv
<1>12. /\ issued' \in 0..MaxOperations /\ episodeOf' \in [Operations -> Nat]
  BY <1>1, <1>2, <1>3, ConstantFacts DEF IInv, ControlInv, ControlTypeOK
<1>13. ControlTypeOK'
  BY <1>1, <1>8, <1>9, <1>11, <1>12 DEF IInv, ControlInv, ControlTypeOK
<1>14. TickIsCurrent'
  <2>1. saved'.current # None /\ saved'.current.id # 0 /\ saved'.episode = step.key
    BY <1>2, <1>3, <1>4, <1>6, <1>8, ConstantFacts
  <2>. QED BY <1>1, <1>2, <1>11, <2>1 DEF TickIsCurrent
<1>15. LatchFiled' /\ LatchCovers' /\ UnlatchedIsSafe' /\ CheckWasAsked'
  BY <1>1, <1>9 DEF IInv, ControlInv, LatchFiled, LatchCovers, UnlatchedIsSafe, CheckWasAsked
<1>. QED BY <1>9, <1>10, <1>13, <1>14, <1>15 DEF IInv, ControlInv

------------------------------------------------------------------------------
(* The restart and its outcome *)

(* A request is live only when the pause allows it. *)
LEMMA CheckKeeps ==
  ASSUME IInv, Check
  PROVE  IInv'
<1>1. /\ up /\ step.at = "check" /\ RecoveryKeeps
      /\ UNCHANGED <<saved, savedFile, storageError, faults, manual, incarnation, journal,
                     journalFile, broken, serving, invoked, aged>>
      /\ step' = Idle \/ step' = Going("post")
      /\ answer' \in {answer, None}
      /\ wire' = wire \/ wire' = wire \cup {[id |-> saved.current.id,
                             before |-> saved.current.before, live |-> TRUE]}
  BY DEF Check, At, saving, journals, GiveUp, GoOn
<1>2. /\ latch # None /\ latch.incident = step.key
      /\ saved.current # None /\ saved.current.id # 0
      /\ saved.current \in Currents
      /\ faults \in 0..MaxFaults /\ wire \subseteq Requests
  BY <1>1 DEF IInv, HelperInv, HelperTypeOK, ControlInv, TickIsCurrent, MemoryTrue, Memories
<1>3. saved.current.id \in Operations /\ saved.current.before \in Incarnations
  BY <1>2, ConstantFacts DEF Currents, Operations
<1>4. wire' \subseteq Requests
  <2>1. [id |-> saved.current.id, before |-> saved.current.before, live |-> TRUE] \in Requests
    BY <1>3 DEF Requests
  <2>. QED BY <1>1, <1>2, <2>1
<1>5. HelperInv'
  BY <1>1, <1>2, <1>4, ConnectionsKeep DEF IInv
<1>6. ControlInv'
  BY <1>1, <1>2, GoingKeeps
<1>. QED BY <1>5, <1>6 DEF IInv

(* A result that is accepted is true of the operation. *)
LEMMA AcceptedTrue ==
  ASSUME ControlInv, latch # None, saved.episode = latch.incident,
         saved.current # None, saved.current.id # 0,
         NEW r \in Results,
         r.state = "completed" => r.after # None /\ r.after > r.before
  PROVE  /\ MemoryTrue([saved EXCEPT !.current = Accepted(@, r)])
         /\ [saved EXCEPT !.current = Accepted(@, r)].episode = saved.episode
<1>. DEFINE c == saved.current
            d == Accepted(c, r)
<1>1. /\ saved \in Memories /\ c \in Currents
      /\ c.before \in Nat \ {0} /\ c.before >= latch.since
  BY DEF ControlInv, MemoryTrue, Speaks, Memories, Currents, Incarnations
<1>2. /\ d \in Currents /\ d.id = c.id /\ d.before = c.before
      /\ d.phase \in {"verifying", "failed", "uncertain"}
      /\ d.phase = "verifying" => d.after \notin {None, d.before} /\ d.after > d.before
  <2>1. CASE r.state = "completed" /\ r.before = c.before /\ r.after # c.before
    <3>1. d = [c EXCEPT !.phase = "verifying", !.after = r.after, !.samples = 0,
                        !.recheckable = FALSE]
      BY <2>1 DEF Accepted
    <3>2. r.after \in Incarnations /\ 0 \in 0..StableSamples
      BY <2>1, ConstantFacts DEF Results
    <3>3. d \in Currents /\ d.id = c.id /\ d.before = c.before
          /\ d.phase = "verifying" /\ d.after = r.after
      BY <1>1, <3>1, <3>2 DEF Currents, Phases
    <3>. QED BY <2>1, <3>3
  <2>2. CASE ~(r.state = "completed" /\ r.before = c.before /\ r.after # c.before)
    <3>1. d = [c EXCEPT !.phase = IF r.state = "failed" THEN "failed" ELSE "uncertain",
                        !.recheckable = (r.state = "uncertain" /\ r.recheckable)]
      BY <2>2 DEF Accepted
    <3>2. (r.state = "uncertain" /\ r.recheckable) \in BOOLEAN
      OBVIOUS
    <3>3. d \in Currents /\ d.id = c.id /\ d.before = c.before
          /\ d.phase \in {"failed", "uncertain"}
      BY <1>1, <3>1, <3>2 DEF Currents, Phases
    <3>. QED BY <3>3
  <2>. QED BY <2>1, <2>2
<1>3. MemoryTrue([saved EXCEPT !.current = d])
  BY <1>1, <1>2, CurrentTrue
<1>4. [saved EXCEPT !.current = Accepted(@, r)] = [saved EXCEPT !.current = d]
      /\ [saved EXCEPT !.current = d].episode = saved.episode
  BY <1>1 DEF Memories
<1>. QED BY <1>3, <1>4

LEMMA AnsweredKeeps ==
  ASSUME IInv, Answered
  PROVE  IInv'
<1>. DEFINE s == [saved EXCEPT !.current = Accepted(@, answer)]
<1>1. /\ up /\ step.at = "post" /\ answer # None /\ answer' = None /\ RecoveryKeeps
      /\ Persist(s, "idle") /\ manual' \in {manual, None}
      /\ UNCHANGED <<incarnation, journal, journalFile, broken, serving, wire, invoked, aged>>
  BY DEF Answered, Accept, At, journals
<1>2. /\ latch # None /\ saved.episode = latch.incident /\ saved.episode = step.key
      /\ saved.current # None /\ saved.current.id # 0
      /\ wire \subseteq Requests
      /\ answer \in Results
      /\ answer.state = "completed" => answer.after # None /\ answer.after > answer.before
  BY <1>1 DEF IInv, HelperInv, HelperTypeOK, AnswersTrue, AnswerTrue, ControlInv, TickIsCurrent
<1>3. MemoryTrue(s) /\ s.episode = step.key
  BY <1>2, AcceptedTrue DEF IInv
<1>4. /\ saved' = s /\ savedFile' \in {savedFile, s} /\ storageError' \in BOOLEAN
      /\ faults' \in 0..MaxFaults /\ step' = Idle
  BY <1>1, Persisted DEF IInv, Going
<1>5. HelperInv'
  BY <1>1, <1>2, <1>4, ConnectionsKeep DEF IInv
<1>6. ControlInv'
  BY <1>1, <1>3, <1>4, TickKeeps
<1>. QED BY <1>5, <1>6 DEF IInv

LEMMA NoAnswerKeeps ==
  ASSUME IInv, NoAnswer
  PROVE  IInv'
<1>. DEFINE c == [saved.current EXCEPT !.phase = "uncertain"]
            s == [saved EXCEPT !.current.phase = "uncertain"]
<1>1. /\ up /\ step.at = "post" /\ HangUp /\ RecoveryKeeps
      /\ \/ step' = Idle /\ UNCHANGED <<saved, savedFile, storageError, faults, manual>>
         \/ Persist(s, "idle") /\ manual' = None
      /\ UNCHANGED <<incarnation, journal, journalFile, broken, invoked, aged>>
  BY DEF NoAnswer, At, journals, saving, GiveUp
<1>2. /\ latch # None /\ saved.episode = latch.incident /\ saved.episode = step.key
      /\ saved.current # None /\ saved.current.id # 0
      /\ saved \in Memories /\ saved.current \in Currents /\ saved.current.before >= latch.since
      /\ faults \in 0..MaxFaults
  BY <1>1 DEF IInv, HelperInv, HelperTypeOK, ControlInv, TickIsCurrent, MemoryTrue, Speaks,
     Memories
<1>3. c \in Currents /\ c.phase = "uncertain" /\ c.id = saved.current.id
      /\ c.before = saved.current.before
  BY <1>2 DEF Currents, Phases
<1>4. s = [saved EXCEPT !.current = c] /\ s.episode = step.key
  BY <1>2 DEF Memories
<1>5. MemoryTrue(s)
  BY <1>2, <1>3, <1>4, CurrentTrue DEF IInv
<1>6. faults' \in 0..MaxFaults /\ HelperInv'
  <2>1. faults' \in 0..MaxFaults
    BY <1>1, <1>2, Persisted DEF IInv
  <2>. QED BY <1>1, <2>1, HungUp, ConnectionsKeep DEF IInv
<1>7. ControlInv'
  <2>1. CASE step' = Idle /\ UNCHANGED <<saved, savedFile, storageError, faults, manual>>
    BY <1>1, <2>1, GoingKeeps
  <2>2. CASE Persist(s, "idle") /\ manual' = None
    <3>1. /\ saved' = s /\ savedFile' \in {savedFile, s} /\ storageError' \in BOOLEAN
          /\ step' = Idle
      BY <2>2, Persisted DEF IInv, Going
    <3>. QED BY <1>1, <1>4, <1>5, <2>2, <3>1, TickKeeps
  <2>. QED BY <1>1, <2>1, <2>2
<1>. QED BY <1>6, <1>7 DEF IInv

LEMMA GetKeeps ==
  ASSUME IInv, Get
  PROVE  IInv'
<1>. DEFINE id == saved.current.id
<1>1. /\ up /\ step.at = "get" /\ RecoveryKeeps /\ journal[id] # None
      /\ UNCHANGED <<incarnation, serving, wire, answer, invoked, aged>>
  BY DEF Get, At
<1>2. /\ latch # None /\ saved.episode = latch.incident /\ saved.episode = step.key
      /\ saved.current # None /\ id # 0 /\ saved.current \in Currents
      /\ incarnation \in Incarnations
      /\ journal \in [Operations -> Entries \cup {None}]
  BY <1>1 DEF IInv, HelperInv, HelperTypeOK, ControlInv, TickIsCurrent, MemoryTrue, Memories
<1>3. id \in Operations
  BY <1>2, ConstantFacts DEF Currents, Operations
<1>4. journal[id] \in Entries /\ EntryTrue(journal[id])
  BY <1>1, <1>2, <1>3 DEF IInv, HelperInv, AnswersTrue, EntriesTrue
<1>5. PICK e \in Reconciled(journal[id]) :
        LET j == [journal EXCEPT ![id] = e] IN
        \/ /\ journal' = j /\ journalFile' = j /\ UNCHANGED broken
           /\ Accept(Result(id, e))
        \/ (Saves(j) \/ SaveFails(j)) /\ GiveUp /\ UNCHANGED <<saving, manual>>
  BY DEF Get
<1>. DEFINE j == [journal EXCEPT ![id] = e]
            s == [saved EXCEPT !.current = Accepted(@, Result(id, e))]
<1>6. e \in Entries /\ EntryTrue(e)
  BY <1>2, <1>4, ReconciledTrue
<1>7. /\ Result(id, e) \in Results
      /\ Result(id, e).state = "completed" =>
           Result(id, e).after # None /\ Result(id, e).after > Result(id, e).before
  BY <1>3, <1>6, ConstantFacts DEF Result, Results, Entries, EntryTrue
<1>8. MemoryTrue(s) /\ s.episode = step.key
  BY <1>2, <1>7, AcceptedTrue DEF IInv
<1>9. /\ journal' = j /\ journalFile' \in {journalFile, j} /\ broken' \in BOOLEAN
      /\ faults' \in 0..MaxFaults
      /\ manual' \in {manual, None}
      /\ step' = Idle
      /\ \/ saved' = s /\ savedFile' \in {savedFile, s} /\ storageError' \in BOOLEAN
         \/ UNCHANGED <<saved, savedFile, storageError>>
  <2>1. CASE /\ journal' = j /\ journalFile' = j /\ UNCHANGED broken
             /\ Accept(Result(id, e))
    <3>1. Persist(s, "idle") /\ manual' \in {manual, None}
      BY <2>1 DEF Accept
    <3>. QED BY <2>1, <3>1, Persisted DEF IInv, Going, HelperInv, HelperTypeOK
  <2>2. CASE (Saves(j) \/ SaveFails(j)) /\ GiveUp /\ UNCHANGED <<saving, manual>>
    BY <2>2, Journalled DEF IInv, GiveUp, saving
  <2>. QED BY <1>5, <2>1, <2>2
<1>10. HelperInv'
  <2>1. /\ {journal', journalFile'} \subseteq [Operations -> Entries \cup {None}]
        /\ EntriesTrue(journal)' /\ EntriesTrue(journalFile)'
        /\ \A o \in Operations : journal[o] # None => journal'[o] # None
        /\ \A o \in Operations :
              journal[o] # None /\ journalFile[o] # None => journalFile'[o] # None
    BY <1>1, <1>3, <1>6, <1>9, JournalKept DEF IInv
  <2>2. AnswerTrue' /\ InvokedIsKnown' /\ RestartOnce'
    BY <1>1, <2>1 DEF IInv, HelperInv, HelperTypeOK, AnswersTrue, AnswerTrue, InvokedIsKnown,
       RestartOnce, Servings
  <2>. QED BY <1>1, <1>9, <2>1, <2>2 DEF IInv, HelperInv, HelperTypeOK, AnswersTrue
<1>11. ControlInv'
  <2>1. CASE saved' = s /\ savedFile' \in {savedFile, s} /\ storageError' \in BOOLEAN
    BY <1>1, <1>8, <1>9, <2>1, TickKeeps
  <2>2. CASE UNCHANGED <<saved, savedFile, storageError>>
    BY <1>1, <1>9, <2>2, GoingKeeps
  <2>. QED BY <1>9, <2>1, <2>2
<1>. QED BY <1>10, <1>11 DEF IInv

------------------------------------------------------------------------------
(* The verification *)

(* What is being verified replaced the incarnation of the incident. *)
LEMMA VerifiedIsNewer ==
  ASSUME IInv, step.at \in {"sample", "probe"}
  PROVE  /\ latch # None /\ saved.episode = latch.incident /\ saved.episode = step.key
         /\ saved \in Memories /\ saved.current \in Currents /\ saved.current # None
         /\ saved.current.phase \in {"verifying", "completed"}
         /\ saved.current.before \in Nat /\ saved.current.after \in Nat
         /\ saved.current.after \notin {None, saved.current.before}
         /\ saved.current.before >= latch.since
         /\ saved.current.after > saved.current.before
         /\ dirty < saved.current.after
<1>1. /\ latch # None /\ saved.episode = latch.incident /\ saved.episode = step.key
      /\ saved.current # None /\ saved.current.phase \in {"verifying", "completed"}
      /\ saved \in Memories /\ saved.current \in Currents
  BY DEF IInv, ControlInv, TickIsCurrent, InPhase, MemoryTrue, Memories
<1>2. /\ saved.current.after \notin {None, saved.current.before}
      /\ saved.current.before >= latch.since
      /\ saved.current.after > saved.current.before
  BY <1>1 DEF IInv, ControlInv, MemoryTrue, Restorable, Speaks
<1>3. saved.current.before \in Nat /\ saved.current.after \in Nat
  BY <1>1, <1>2 DEF Currents, Incarnations
<1>4. dirty \in Nat /\ latch.since \in Nat /\ dirty <= latch.since
  BY <1>1 DEF IInv, ControlInv, ControlTypeOK, LatchCovers, Latches, Incarnations, HelperInv,
     HelperTypeOK
<1>. QED BY <1>1, <1>2, <1>3, <1>4

LEMMA SampleKeeps ==
  ASSUME IInv, Sample
  PROVE  IInv'
<1>1. /\ up /\ step.at = "sample" /\ RecoveryKeeps /\ UNCHANGED helper
      /\ UNCHANGED <<savedFile, storageError, faults, manual>>
  BY DEF Sample, At
<1>2. PICK n \in {Counted(saved.current.samples), 0} :
        /\ saved' = [saved EXCEPT !.current.samples = n]
        /\ \/ step' = Idle
           \/ step' = Going("probe") /\ incarnation = saved.current.after
  BY DEF Sample, GiveUp, GoOn
<1>. DEFINE c == [saved.current EXCEPT !.samples = n]
            s == [saved EXCEPT !.current.samples = n]
<1>3. n \in 0..StableSamples
  BY <1>1, VerifiedIsNewer, ConstantFacts DEF Counted, Currents
<1>4. /\ c \in Currents /\ c.phase = saved.current.phase /\ c.before = saved.current.before
      /\ c.after = saved.current.after
  BY <1>1, <1>3, VerifiedIsNewer DEF Currents
<1>5. /\ s = [saved EXCEPT !.current = c] /\ s.episode = step.key /\ s.current = c
  BY <1>1, VerifiedIsNewer DEF Memories
<1>6. MemoryTrue(s)
  BY <1>1, <1>4, <1>5, VerifiedIsNewer, CurrentTrue DEF IInv
<1>7. HelperInv' /\ incarnation' = incarnation
  BY <1>1, HelperUntouched DEF IInv, HelperInv, HelperTypeOK
<1>8. InPhase(s.current, {"verifying", "completed"})
  BY <1>1, <1>4, <1>5, VerifiedIsNewer, ConstantFacts DEF InPhase
<1>9. storageError' \in BOOLEAN
  BY <1>1 DEF IInv, ControlInv, ControlTypeOK
<1>10. ControlInv'
  <2>1. CASE step' = Idle
    <3>1. step' = Going("idle")
      BY <2>1 DEF Going
    <3>. QED BY <1>1, <1>2, <1>5, <1>6, <1>7, <1>9, <3>1, TickKeeps
  <2>2. CASE step' = Going("probe") /\ incarnation = saved.current.after
    <3>1. latch # None /\ latch.incident = step.key /\ dirty < incarnation
      BY <1>1, <2>2, VerifiedIsNewer
    <3>. QED BY <1>1, <1>2, <1>5, <1>6, <1>7, <1>8, <1>9, <2>2, <3>1, TickKeeps
  <2>. QED BY <1>2, <2>1, <2>2
<1>. QED BY <1>7, <1>10 DEF IInv

LEMMA ExpireKeeps ==
  ASSUME IInv, Expire
  PROVE  IInv'
<1>. DEFINE c == [saved.current EXCEPT !.phase = "failed"]
            s == [saved EXCEPT !.current.phase = "failed", !.failedAfter = saved.current.after]
<1>1. /\ up /\ step.at = "sample" /\ RecoveryKeeps /\ UNCHANGED helper /\ manual' = None
      /\ Persist(s, "idle")
  BY DEF Expire, At
<1>2. c \in Currents /\ c.phase = "failed" /\ c.before = saved.current.before
  BY <1>1, VerifiedIsNewer DEF Currents, Phases
<1>3. /\ s \in Memories /\ s.current = c /\ s.episode = saved.episode
  BY <1>1, <1>2, VerifiedIsNewer DEF Memories
<1>4. MemoryTrue(s) /\ s.episode = step.key
  BY <1>1, <1>2, <1>3, VerifiedIsNewer
     DEF MemoryTrue, Restorable, Speaks, IInv, ControlInv
<1>5. /\ saved' = s /\ savedFile' \in {savedFile, s} /\ storageError' \in BOOLEAN
      /\ faults' \in 0..MaxFaults /\ step' = Idle
  BY <1>1, Persisted DEF IInv, Going
<1>6. HelperInv' /\ incarnation' = incarnation
  BY <1>1, <1>5, HelperUntouched DEF IInv
<1>7. ControlInv'
  BY <1>1, <1>4, <1>5, <1>6, TickKeeps
<1>. QED BY <1>6, <1>7 DEF IInv

LEMMA CompletedTrue ==
  ASSUME IInv, step.at = "probe"
  PROVE  /\ MemoryTrue([saved EXCEPT !.current.phase = "completed"])
         /\ [saved EXCEPT !.current.phase = "completed"].episode = saved.episode
<1>. DEFINE c == [saved.current EXCEPT !.phase = "completed"]
            s == [saved EXCEPT !.current.phase = "completed"]
<1>1. /\ c \in Currents /\ c.phase = "completed" /\ c.before = saved.current.before
      /\ c.after = saved.current.after
  BY VerifiedIsNewer DEF Currents, Phases
<1>2. s = [saved EXCEPT !.current = c] /\ s.episode = saved.episode
  BY VerifiedIsNewer DEF Memories
<1>. QED BY <1>1, <1>2, VerifiedIsNewer, CurrentTrue DEF IInv

LEMMA UnprovenKeeps ==
  ASSUME IInv, Unproven
  PROVE  IInv'
<1>. DEFINE s == [saved EXCEPT !.current.phase = "completed"]
<1>1. /\ up /\ step.at = "probe" /\ step' = Idle /\ UNCHANGED helper
      /\ UNCHANGED <<up, latch, latchFile, paused, revision, manual, commands, asked,
                     issued, episodeOf, incidents, crashes, dirty>>
      /\ saved' \in {saved, s} /\ savedFile' \in {savedFile, saved'}
      /\ storageError' \in {storageError, TRUE} /\ latchError' \in {latchError, TRUE}
      /\ faults' = faults \/ Fault
  BY DEF Unproven, At, GiveUp, operator, history, saving
<1>2. /\ storageError' \in BOOLEAN /\ latchError' \in BOOLEAN /\ faults' \in 0..MaxFaults
  BY <1>1, ConstantFacts DEF Fault, IInv, HelperInv, HelperTypeOK, ControlInv, ControlTypeOK
<1>3. HelperInv' /\ incarnation' = incarnation
  BY <1>1, <1>2, HelperUntouched DEF IInv
<1>4. MemoryTrue(saved)' /\ MemoryTrue(savedFile)'
  BY <1>1, CompletedTrue, Edited DEF IInv, ControlInv
<1>5. ControlTypeOK' /\ TickIsCurrent'
  BY <1>1, <1>2, <1>3, StepTypes DEF IInv, ControlInv, ControlTypeOK, TickIsCurrent
<1>6. LatchFiled' /\ LatchCovers' /\ UnlatchedIsSafe' /\ CheckWasAsked'
  BY <1>1, <1>3 DEF IInv, ControlInv, LatchFiled, LatchCovers, UnlatchedIsSafe, CheckWasAsked
<1>. QED BY <1>3, <1>4, <1>5, <1>6 DEF IInv, ControlInv

(* The latch opens: the incarnation it was closed for is over. *)
LEMMA RecoverKeeps ==
  ASSUME IInv, Recover
  PROVE  IInv'
<1>. DEFINE s == [saved EXCEPT !.current.phase = "completed"]
<1>1. /\ up /\ step.at = "probe" /\ step' = Idle /\ UNCHANGED helper /\ faults' = faults
      /\ saved' = s /\ savedFile' = s
      /\ latch' = None /\ latchFile' = None /\ latchError' = FALSE /\ manual' = None
      /\ UNCHANGED <<up, storageError, paused, revision, commands, asked, issued, episodeOf,
                     incidents, crashes, dirty>>
  BY DEF Recover, At, GiveUp, history
<1>2. HelperInv' /\ incarnation' = incarnation
  BY <1>1, HelperUntouched DEF IInv, HelperInv, HelperTypeOK
<1>3. MemoryTrue(saved)' /\ MemoryTrue(savedFile)'
  BY <1>1, CompletedTrue DEF MemoryTrue, Restorable, Speaks
<1>4. dirty < incarnation
  BY <1>1 DEF IInv, ControlInv, TickIsCurrent
<1>5. ControlTypeOK' /\ TickIsCurrent'
  <2>1. {latch', latchFile'} \subseteq Latches \cup {None} /\ latchError' \in BOOLEAN
        /\ {manual', asked'} \subseteq Nat \cup {None}
    BY <1>1 DEF IInv, ControlInv, ControlTypeOK
  <2>. QED BY <1>1, <1>2, <2>1, StepTypes DEF IInv, ControlInv, ControlTypeOK, TickIsCurrent
<1>6. LatchFiled' /\ LatchCovers' /\ UnlatchedIsSafe' /\ CheckWasAsked'
  BY <1>1, <1>2, <1>4 DEF LatchFiled, LatchCovers, UnlatchedIsSafe, CheckWasAsked
<1>. QED BY <1>2, <1>3, <1>5, <1>6 DEF IInv, ControlInv

------------------------------------------------------------------------------
(* Crash and restart *)

LEMMA CrashKeeps ==
  ASSUME IInv, Crash
  PROVE  IInv'
<1>1. /\ crashes < MaxCrashes /\ crashes' = crashes + 1 /\ up' = FALSE /\ step' = Idle
      /\ HangUp /\ dirty' = IF latchFile = None THEN 0 ELSE dirty
      /\ UNCHANGED <<incarnation, journal, journalFile, broken, invoked, aged, faults, latch,
                     latchFile, latchError, saved, savedFile, storageError, paused, revision,
                     manual, commands, asked, issued, episodeOf, incidents>>
  BY DEF Crash, journals, latching, saving, operator
<1>2. faults' \in 0..MaxFaults
  BY <1>1 DEF IInv, HelperInv, HelperTypeOK
<1>3. HelperInv'
  BY <1>1, <1>2, HungUp, ConnectionsKeep DEF IInv
<1>4. /\ incarnation \in Nat \ {0} /\ dirty \in Nat /\ dirty \in 0..incarnation
      /\ latch # None => latch.since \in Nat
  BY DEF IInv, HelperInv, HelperTypeOK, Incarnations, ControlInv, ControlTypeOK, Latches
<1>5. dirty' \in 0..incarnation' /\ dirty' <= dirty /\ crashes' \in 0..MaxCrashes
  BY <1>1, <1>4, ConstantFacts DEF IInv, ControlInv, ControlTypeOK
<1>6. ControlTypeOK' /\ TickIsCurrent'
  BY <1>1, <1>5, StepTypes DEF IInv, ControlInv, ControlTypeOK, TickIsCurrent
<1>7. MemoryTrue(saved)' /\ MemoryTrue(savedFile)'
  BY <1>1, Edited DEF IInv, ControlInv
<1>8. LatchFiled' /\ LatchCovers' /\ UnlatchedIsSafe' /\ CheckWasAsked'
  BY <1>1, <1>4, <1>5 DEF IInv, ControlInv, LatchFiled, LatchCovers, UnlatchedIsSafe,
     CheckWasAsked
<1>. QED BY <1>3, <1>6, <1>7, <1>8 DEF IInv, ControlInv

LEMMA RestartKeeps ==
  ASSUME IInv, Restart
  PROVE  IInv'
<1>. DEFINE c == [savedFile.current EXCEPT !.samples = 0]
            s == IF savedFile.current = None THEN savedFile
                 ELSE [savedFile EXCEPT !.current.samples = 0]
<1>1. /\ ~up /\ up' = TRUE /\ latch' = latchFile /\ latchError' = FALSE /\ saved' = s
      /\ storageError' = FALSE /\ manual' = None /\ UNCHANGED helper /\ faults' = faults
      /\ UNCHANGED <<latchFile, savedFile, paused, revision, commands, asked, step, issued,
                     episodeOf, incidents, crashes, dirty>>
  BY DEF Restart, RestoredLatch, history
<1>2. HelperInv' /\ incarnation' = incarnation
  BY <1>1, HelperUntouched DEF IInv, HelperInv, HelperTypeOK
<1>3. savedFile \in Memories /\ MemoryTrue(savedFile)
  BY DEF IInv, ControlInv, MemoryTrue
<1>4. MemoryTrue(s)
  <2>1. CASE savedFile.current = None
    BY <1>3, <2>1
  <2>2. CASE savedFile.current # None
    <3>1. savedFile.current \in Currents /\ 0 \in 0..StableSamples
      BY <1>3, <2>2, ConstantFacts DEF Memories
    <3>2. /\ c \in Currents /\ c.phase = savedFile.current.phase /\ c.id = savedFile.current.id
          /\ c.before = savedFile.current.before /\ c.after = savedFile.current.after
      BY <3>1 DEF Currents
    <3>3. s = [savedFile EXCEPT !.current = c]
      BY <1>3, <2>2 DEF Memories
    <3>. QED BY <1>3, <2>2, <3>2, <3>3, CurrentTrue DEF IInv, MemoryTrue, Restorable, Speaks
  <2>. QED BY <2>1, <2>2
<1>5. latchFile # None => latch = latchFile
  BY DEF IInv, ControlInv, LatchFiled
<1>6. MemoryTrue(saved)' /\ MemoryTrue(savedFile)'
  BY <1>1, <1>3, <1>4, <1>5 DEF MemoryTrue, Restorable, Speaks
<1>7. step.at = "idle"
  BY <1>1 DEF IInv, ControlInv, TickIsCurrent
<1>8. incarnation \in Nat \ {0}
  BY DEF IInv, HelperInv, HelperTypeOK, Incarnations
<1>9. ControlTypeOK' /\ TickIsCurrent'
  <2>1. /\ {latch', latchFile'} \subseteq Latches \cup {None}
        /\ {manual', asked'} \subseteq Nat \cup {None}
        /\ up' \in BOOLEAN /\ latchError' \in BOOLEAN /\ storageError' \in BOOLEAN
        /\ latch' # None => latch'.incident <= incidents' /\ latch'.since <= incarnation'
    BY <1>1, <1>2, <1>5 DEF IInv, ControlInv, ControlTypeOK
  <2>. QED BY <1>1, <1>2, <1>7, <2>1 DEF IInv, ControlInv, ControlTypeOK, TickIsCurrent
<1>10. LatchFiled' /\ LatchCovers' /\ UnlatchedIsSafe' /\ CheckWasAsked'
  BY <1>1, <1>2, <1>5, <1>8 DEF IInv, ControlInv, LatchFiled, LatchCovers, UnlatchedIsSafe,
     CheckWasAsked
<1>. QED BY <1>2, <1>6, <1>9, <1>10 DEF IInv, ControlInv

------------------------------------------------------------------------------
LEMMA Inductive == IInv /\ [Next]_vars => IInv'
<1>. SUFFICES ASSUME IInv, [Next]_vars PROVE IInv'
  OBVIOUS
<1>1. CASE UNCHANGED vars
  <2>1. /\ UNCHANGED <<up, latch, latchFile, latchError, saved, savedFile, storageError,
                       paused, revision, manual, commands, asked, step, issued, episodeOf,
                       incidents, crashes, dirty>>
        /\ UNCHANGED helper /\ faults' = faults
    BY <1>1 DEF vars, latching, saving, operator, history
  <2>2. HelperInv' /\ incarnation' = incarnation
    BY <2>1, HelperUntouched DEF IInv, HelperInv, HelperTypeOK
  <2>. QED BY <2>1, <2>2 DEF IInv, ControlInv, ControlTypeOK, LatchFiled, LatchCovers,
         UnlatchedIsSafe, MemoryTrue, Speaks, TickIsCurrent, InPhase, CheckWasAsked
<1>. QED BY <1>1, HelperStepKeeps, IncidentKeeps, AcknowledgeKeeps, CommandKeeps,
       BeginsKeeps, EnterKeeps, TelemetryKeeps, DeclineKeeps, AdoptKeeps, DecideKeeps,
       CheckKeeps, AnsweredKeeps, NoAnswerKeeps, GetKeeps, SampleKeeps, ExpireKeeps,
       UnprovenKeeps, RecoverKeeps, CrashKeeps, RestartKeeps
     DEF Next

LEMMA Always == Spec => []IInv
BY Initially, Inductive, PTL DEF Spec

------------------------------------------------------------------------------
(* Every variable keeps its type, and what is saved can be restored.       *)
THEOREM RecoveryTypes == Spec => []TypeOK
<1>1. IInv => TypeOK
  BY DEF IInv, HelperInv, InvokedIsKnown, ControlInv, ControlTypeOK, MemoryTrue, TypeOK
<1>. QED BY <1>1, Always, PTL

(* Admission stays latched while the incarnation runs in which an          *)
(* inference of unknown outcome was left.                                  *)
THEOREM LatchHolds == Spec => []UncertainBlocked
<1>1. IInv => UncertainBlocked
  BY DEF IInv, HelperInv, HelperTypeOK, Incarnations, ControlInv, ControlTypeOK,
     UnlatchedIsSafe, UncertainBlocked
<1>. QED BY <1>1, Always, PTL

(* systemctl is called at most once for an operation.                      *)
THEOREM OneRestartPerOperation == Spec => []RestartOnce
<1>1. IInv => RestartOnce
  BY DEF IInv, HelperInv
<1>. QED BY <1>1, Always, PTL

(* During a pause a restart is asked for only when the operator asked for  *)
(* a check in that pause.                                                  *)
THEOREM PausesAreRespected == Spec => PauseRespected
<1>. DEFINE Respects ==
       \A w \in wire' : w.live /\ w \notin wire => (paused => asked = revision)
<1>1. IInv /\ [Next]_vars => [Respects]_vars
  <2>. SUFFICES ASSUME IInv, Next PROVE Respects
    OBVIOUS
  <2>1. CASE Check
    <3>1. (paused => Authorized) \/ wire' = wire
      BY <2>1 DEF Check
    <3>2. revision \in Nat /\ CheckWasAsked
      BY DEF IInv, ControlInv, ControlTypeOK
    <3>3. Authorized => asked = revision
      BY <3>2, ConstantFacts DEF Authorized, CheckWasAsked
    <3>. QED BY <3>1, <3>3
  <2>2. CASE HelperStep
    BY <2>2 DEF HelperStep, HelperNext, Deliver, Invoke, Report, HelperRestarts,
       ServiceReplaced, Age
  <2>3. CASE HangUp
    BY <2>3, HungUp DEF IInv
  <2>4. CASE UNCHANGED wire
    BY <2>4
  <2>5. ASSUME UNCHANGED helper PROVE UNCHANGED wire
    BY <2>5 DEF helper
  <2>. QED BY <2>1, <2>2, <2>3, <2>4, <2>5
         DEF Next, Incident, Acknowledge, PauseOrResume, CheckNow, Command, Forget, Tick, Enter,
             Telemetry, Adopt, Decline, Decide, Answered, NoAnswer, Get, Sample, Expire,
             Unproven, Recover, Crash, Restart
<1>. QED BY <1>1, Always, PTL DEF Spec, PauseRespected

------------------------------------------------------------------------------
(* How often the service is restarted *)

(* The operations the helper was asked for and may still dispatch, and     *)
(* those for which systemctl was called.                                   *)
ServingId == IF serving = None THEN {} ELSE {serving.id}

Asked == {w.id : w \in wire} \cup ServingId \cup Invoked

AskedFor(n) == {id \in Asked : episodeOf[id] = n}

(* The operation a memory may ask for: not that of an adopted replacement. *)
OperationOf(s) == IF s.current = None THEN {} ELSE {s.current.id} \ {0}

Marked(j) == {id \in Operations : j[id] # None /\ j[id].dispatched}

(* The host's count. An operation is dispatched, or about to be, only when *)
(* the journal and its file say so, and the journal is never behind its    *)
(* file.                                                                   *)
HostCounts ==
  /\ Marked(journalFile) \subseteq Marked(journal)
  /\ Invoked \cup ServingId \subseteq Marked(journalFile)
  /\ Cardinality(Marked(journal) \ aged) <= HostLimit

(* The controller's: what a memory, or the file, would count after a       *)
(* restart covers all that was asked for.                                  *)
MemoryCounts(s) ==
  /\ s.history \subseteq Operations
  /\ Cardinality(s.history \ aged) <= MaxRestarts
  /\ Asked \cup OperationOf(s) \subseteq s.history \cup aged
  /\ \A id \in OperationOf(s) : id <= issued /\ episodeOf[id] = s.episode
  /\ latch # None =>
       IF s.episode = latch.incident
       THEN Cardinality(AskedFor(s.episode) \cup OperationOf(s)) <= s.attempts
       ELSE AskedFor(latch.incident) = {}

(* Unless a write failed, the file counts what the memory does.            *)
CountsFiled ==
  /\ step.at # "idle" => ~storageError
  /\ up /\ ~storageError =>
       /\ savedFile.history = saved.history /\ savedFile.attempts = saved.attempts
       /\ savedFile.episode = saved.episode
       /\ OperationOf(savedFile) = OperationOf(saved)

CountInv ==
  /\ Asked \subseteq 1..issued
  /\ \A id \in Operations : episodeOf[id] <= incidents
  /\ \A n \in Nat : Cardinality(AskedFor(n)) <= MaxRestarts
  /\ MemoryCounts(saved) /\ MemoryCounts(savedFile)
  /\ CountsFiled

(* What a count makes of an operation: the same totals, and at most the    *)
(* same operation under way.                                               *)
Continues(t, s) ==
  /\ t.history = s.history /\ t.attempts = s.attempts /\ t.episode = s.episode
  /\ OperationOf(t) \subseteq OperationOf(s)

LEMMA OperationsFinite ==
  ASSUME NEW S, S \subseteq Operations
  PROVE  IsFiniteSet(S) /\ Cardinality(S) \in Nat
<1>1. IsFiniteSet(Operations)
  BY HelperAssumption, FS_Interval DEF Operations
<1>. QED BY <1>1, FS_Subset, FS_CardinalityType

LEMMA Fewer ==
  ASSUME NEW S, S \subseteq Operations, NEW T, T \subseteq S
  PROVE  /\ Cardinality(T) <= Cardinality(S)
         /\ Cardinality(S) \in Nat /\ Cardinality(T) \in Nat
<1>1. IsFiniteSet(S) /\ T \subseteq Operations
  BY OperationsFinite
<1>2. Cardinality(T) <= Cardinality(S)
  BY <1>1, FS_Subset
<1>. QED BY <1>1, <1>2, OperationsFinite

LEMMA AtMostOneMore ==
  ASSUME NEW S, S \subseteq Operations, NEW x \in Operations
  PROVE  /\ Cardinality(S \cup {x}) <= Cardinality(S) + 1
         /\ Cardinality(S) \in Nat /\ Cardinality(S \cup {x}) \in Nat
<1>1. IsFiniteSet(S) /\ Cardinality(S) \in Nat
  BY OperationsFinite
<1>2. Cardinality(S \cup {x}) \in {Cardinality(S), Cardinality(S) + 1}
  BY <1>1, FS_AddElement
<1>. QED BY <1>1, <1>2

LEMMA AskedTypes ==
  ASSUME HelperInv
  PROVE  Asked \subseteq Operations /\ Invoked \subseteq Asked
BY DEF HelperInv, HelperTypeOK, Asked, Invoked, ServingId, Servings, Requests

(* The host's count *)

LEMMA HostKept ==
  ASSUME HostCounts, Marked(journal)' \subseteq Marked(journal),
         Marked(journalFile)' \subseteq Marked(journal)', aged \subseteq aged',
         (Invoked \cup ServingId)' \subseteq Marked(journalFile)'
  PROVE  HostCounts'
<1>1. Marked(journal)' \ aged' \subseteq Marked(journal) \ aged
  OBVIOUS
<1>2. Marked(journal) \ aged \subseteq Operations
  BY DEF Marked
<1>3. Cardinality(Marked(journal)' \ aged') <= Cardinality(Marked(journal) \ aged)
      /\ Cardinality(Marked(journal) \ aged) \in Nat
      /\ Cardinality(Marked(journal)' \ aged') \in Nat
  BY <1>1, <1>2, Fewer
<1>4. Cardinality(Marked(journal) \ aged) <= HostLimit /\ HostLimit \in Nat
  BY HelperAssumption DEF HostCounts
<1>5. Cardinality(Marked(journal)' \ aged') <= HostLimit
  BY <1>3, <1>4
<1>. QED BY <1>5 DEF HostCounts

(* An entry that is written again keeps its mark. *)
LEMMA Rewritten ==
  ASSUME HelperInv, HostCounts, NEW id \in Operations, NEW e,
         \/ journal[id] = None /\ ~e.dispatched
         \/ journal[id] # None /\ e.dispatched = journal[id].dispatched,
         e # None,
         journal' = [journal EXCEPT ![id] = e], journalFile' \in {journalFile, journal'}
  PROVE  /\ Marked(journal)' = Marked(journal)
         /\ Marked(journalFile)' \subseteq Marked(journal)'
         /\ Marked(journalFile) \subseteq Marked(journalFile)'
<1>1. journal \in [Operations -> Entries \cup {None}]
  BY DEF HelperInv, HelperTypeOK
<1>2. \A o \in Operations : journal'[o] = IF o = id THEN e ELSE journal[o]
  BY <1>1
<1>3. Marked(journal)' = Marked(journal)
  BY <1>2 DEF Marked
<1>4. Marked(journalFile)' = Marked(journalFile) \/ Marked(journalFile)' = Marked(journal)'
  BY DEF Marked
<1>. QED BY <1>3, <1>4 DEF HostCounts

LEMMA ReconciledMark ==
  ASSUME HelperInv, NEW id \in Operations, journal[id] # None,
         NEW r \in Reconciled(journal[id])
  PROVE  r.dispatched = journal[id].dispatched /\ r # None
<1>1. journal[id] \in Entries /\ EntryTrue(journal[id]) /\ incarnation \in Incarnations
  BY DEF HelperInv, HelperTypeOK, AnswersTrue, EntriesTrue
<1>2. r \in Entries /\ r # None
  BY <1>1, ReconciledTrue, ConstantFacts
<1>3. CASE r = journal[id]
  BY <1>2, <1>3
<1>4. CASE r # journal[id]
  <2>1. r = Entry("completed", journal[id].before, incarnation, TRUE)
        /\ journal[id].dispatched
    BY <1>4 DEF Reconciled
  <2>2. r.dispatched = TRUE
    BY <2>1 DEF Entry
  <2>3. journal[id].dispatched = TRUE
    BY <1>1, <2>1 DEF Entries
  <2>. QED BY <1>2, <2>2, <2>3
<1>. QED BY <1>3, <1>4

(* Reading a request or writing its outcome marks an operation only when   *)
(* the window has room for it.                                             *)
LEMMA DeliverHost ==
  ASSUME HelperInv, HostCounts, NEW w \in wire, Deliver(w)
  PROVE  HostCounts'
<1>1. /\ w.id \in Operations /\ UNCHANGED <<invoked, aged>> /\ serving = None
      /\ Invoked' = Invoked /\ w.before \in Incarnations
  BY DEF Deliver, HelperInv, HelperTypeOK, Requests, Invoked
<1>2. ServingId = {} /\ Invoked \subseteq Marked(journalFile)
  BY <1>1 DEF HostCounts, ServingId
<1>3. CASE UNCHANGED <<journal, journalFile, serving>>
  <2>1. ServingId' = ServingId
    BY <1>3 DEF ServingId
  <2>2. Marked(journal)' = Marked(journal) /\ Marked(journalFile)' = Marked(journalFile)
    BY <1>3 DEF Marked
  <2>. QED BY <1>1, <2>1, <2>2, HostKept DEF HostCounts
<1>4. ASSUME NEW e,
             Saves([journal EXCEPT ![w.id] = e]) \/ SaveFails([journal EXCEPT ![w.id] = e]),
             e # None, UNCHANGED serving,
             \/ journal[w.id] = None /\ ~e.dispatched
             \/ journal[w.id] # None /\ e.dispatched = journal[w.id].dispatched
      PROVE  HostCounts'
  <2>1. /\ journal' = [journal EXCEPT ![w.id] = e]
        /\ journalFile' \in {journalFile, journal'}
    BY <1>4, Journalled
  <2>2. /\ Marked(journal)' = Marked(journal)
        /\ Marked(journalFile)' \subseteq Marked(journal)'
        /\ Marked(journalFile) \subseteq Marked(journalFile)'
    BY <1>1, <1>4, <2>1, Rewritten
  <2>3. ServingId' = {}
    BY <1>2, <1>4 DEF ServingId
  <2>. QED BY <1>1, <1>2, <2>2, <2>3, HostKept
<1>5. CASE ~broken /\ Replay(w)
  <2>1. PICK e \in Reconciled(journal[w.id]) :
          Saves([journal EXCEPT ![w.id] = e]) \/ SaveFails([journal EXCEPT ![w.id] = e])
    BY <1>5 DEF Replay
  <2>2. journal[w.id] # None /\ UNCHANGED serving
    BY <1>5 DEF Replay
  <2>3. e.dispatched = journal[w.id].dispatched /\ e # None
    BY <1>1, <2>2, ReconciledMark
  <2>. QED BY <1>4, <2>1, <2>2, <2>3
<1>6. CASE ~broken /\ Refuse(w)
  <2>. DEFINE e == Entry("failed", w.before, None, FALSE)
  <2>1. e.dispatched = FALSE /\ e # None
    BY <1>1, EntryTypes, ConstantFacts DEF Entry
  <2>2. /\ Saves([journal EXCEPT ![w.id] = e]) \/ SaveFails([journal EXCEPT ![w.id] = e])
        /\ UNCHANGED serving /\ journal[w.id] = None
    BY <1>6 DEF Refuse
  <2>. HIDE DEF e
  <2>. QED BY <1>4, <2>1, <2>2
<1>7. CASE ~broken /\ Intend(w)
  <2>. DEFINE e == Entry("uncertain", w.before, None, TRUE)
              j == [journal EXCEPT ![w.id] = e]
  <2>1. e.dispatched = TRUE /\ e # None
    BY <1>1, EntryTypes, ConstantFacts DEF Entry
  <2>2. /\ \/ Saves(j) /\ serving' = [id |-> w.id, live |-> w.live, at |-> "intent"]
           \/ SaveFails(j) /\ UNCHANGED serving
        /\ journal[w.id] = None /\ Available
    BY <1>7 DEF Intend
  <2>3. /\ journal' = j /\ journalFile' \in {journalFile, j}
        /\ Saves(j) => journalFile' = j
    BY <2>2, Journalled
  <2>4. journal \in [Operations -> Entries \cup {None}]
    BY DEF HelperInv, HelperTypeOK
  <2>5. \A o \in Operations : journal'[o] = IF o = w.id THEN e ELSE journal[o]
    BY <2>3, <2>4
  <2>6. Marked(journal)' = Marked(journal) \cup {w.id}
    <3>. HIDE DEF e, j
    <3>. QED BY <1>1, <2>1, <2>5 DEF Marked
  <2>7. Dispatched(journal) = Marked(journal) \ aged
    BY DEF Dispatched, Marked
  <2>8. Cardinality(Marked(journal)' \ aged') <= HostLimit
    <3>. DEFINE S == Marked(journal) \ aged
    <3>1. S \subseteq Operations /\ (Marked(journal)' \ aged') \subseteq S \cup {w.id}
          /\ S \cup {w.id} \subseteq Operations
      BY <1>1, <2>6 DEF Marked
    <3>2. Cardinality(S) < HostLimit /\ HostLimit \in Nat
      BY <2>2, <2>7, HelperAssumption DEF Available
    <3>3. /\ Cardinality(S \cup {w.id}) <= Cardinality(S) + 1
          /\ Cardinality(S) \in Nat /\ Cardinality(S \cup {w.id}) \in Nat
      BY <1>1, <3>1, AtMostOneMore
    <3>4. /\ Cardinality(Marked(journal)' \ aged') <= Cardinality(S \cup {w.id})
          /\ Cardinality(Marked(journal)' \ aged') \in Nat
      BY <3>1, Fewer
    <3>. HIDE DEF S
    <3>. QED BY <3>2, <3>3, <3>4
  <2>9. Marked(journalFile)' = Marked(journalFile) \/ Marked(journalFile)' = Marked(journal)'
    BY <2>3 DEF Marked
  <2>10. Saves(j) => Marked(journalFile)' = Marked(journal)' /\ ServingId' \subseteq {w.id}
    <3>. SUFFICES ASSUME Saves(j)
                  PROVE  Marked(journalFile)' = Marked(journal)' /\ ServingId' \subseteq {w.id}
      OBVIOUS
    <3>1. journalFile' = journal'
      BY <2>3
    <3>2. serving' = [id |-> w.id, live |-> w.live, at |-> "intent"] \/ serving' = None
      BY <1>1, <2>2
    <3>. QED BY <3>1, <3>2 DEF Marked, ServingId
  <2>11. ~Saves(j) => ServingId' = {}
    BY <1>2, <2>2 DEF ServingId
  <2>12. Marked(journalFile) \subseteq Marked(journal)
    BY DEF HostCounts
  <2>13. (Invoked \cup ServingId)' \subseteq Marked(journalFile)'
    <3>1. CASE Saves(j)
      <4>1. Marked(journalFile)' = Marked(journal) \cup {w.id}
        BY <2>6, <2>10, <3>1
      <4>. QED BY <1>1, <1>2, <2>10, <2>12, <3>1, <4>1
    <3>2. CASE ~Saves(j)
      BY <1>1, <1>2, <2>6, <2>9, <2>11, <2>12, <3>2
    <3>. QED BY <3>1, <3>2
  <2>. QED BY <2>6, <2>8, <2>9, <2>12, <2>13 DEF HostCounts
<1>8. CASE broken
  BY <1>1, <1>3, <1>8 DEF Deliver, journals
<1>. QED BY <1>5, <1>6, <1>7, <1>8 DEF Deliver

LEMMA HelperHost ==
  ASSUME HelperInv, HostCounts, HelperNext
  PROVE  HostCounts'
<1>1. ASSUME NEW w \in wire, Deliver(w) PROVE HostCounts'
  BY <1>1, DeliverHost
<1>2. CASE Invoke
  <2>1. /\ serving \in Servings /\ serving # None
        /\ serving' = [serving EXCEPT !.at = "outcome"]
        /\ invoked' = [invoked EXCEPT ![serving.id] = @ + 1]
        /\ UNCHANGED <<journal, journalFile, aged>> /\ invoked \in [Operations -> Nat]
    BY <1>2 DEF Invoke, journals, HelperInv, HelperTypeOK
  <2>2. ServingId = {serving.id} /\ ServingId' = {serving.id}
    <3>1. serving'.id = serving.id /\ serving' # None
      BY <2>1, ConstantFacts DEF Servings
    <3>. QED BY <2>1, <3>1 DEF ServingId
  <2>3. Invoked' \subseteq Invoked \cup {serving.id}
    <3>1. \A id \in Operations : id # serving.id => invoked'[id] = invoked[id]
      BY <2>1
    <3>. QED BY <3>1 DEF Invoked
  <2>4. Marked(journal)' = Marked(journal) /\ Marked(journalFile)' = Marked(journalFile)
    BY <2>1 DEF Marked
  <2>. QED BY <2>1, <2>2, <2>3, <2>4, HostKept DEF HostCounts
<1>3. CASE Report
  <2>1. /\ serving \in Servings /\ serving # None /\ serving' = None
        /\ serving.id \in Operations /\ journal[serving.id] # None
        /\ UNCHANGED <<invoked, aged>>
    BY <1>3 DEF Report, HelperInv, HelperTypeOK, InvokedIsKnown, Servings
  <2>2. PICK e \in Reconciled(journal[serving.id]) :
          \/ Saves([journal EXCEPT ![serving.id] = e])
          \/ SaveFails([journal EXCEPT ![serving.id] = e])
    BY <1>3 DEF Report
  <2>3. e.dispatched = journal[serving.id].dispatched /\ e # None
    BY <2>1, ReconciledMark
  <2>4. /\ journal' = [journal EXCEPT ![serving.id] = e]
        /\ journalFile' \in {journalFile, journal'}
    BY <2>2, Journalled
  <2>5. /\ Marked(journal)' = Marked(journal)
        /\ Marked(journalFile)' \subseteq Marked(journal)'
        /\ Marked(journalFile) \subseteq Marked(journalFile)'
    BY <2>1, <2>3, <2>4, Rewritten
  <2>6. Invoked' = Invoked /\ ServingId' = {} /\ Invoked \subseteq Marked(journalFile)
    BY <2>1 DEF Invoked, ServingId, HostCounts
  <2>. QED BY <2>1, <2>5, <2>6, HostKept
<1>4. CASE HelperRestarts
  <2>1. /\ journal' = journalFile /\ journalFile' = journalFile /\ serving' = None
        /\ UNCHANGED <<invoked, aged>>
    BY <1>4 DEF HelperRestarts
  <2>2. /\ Marked(journal)' = Marked(journalFile)
        /\ Marked(journalFile)' = Marked(journalFile)
    BY <2>1 DEF Marked
  <2>3. Invoked' = Invoked /\ ServingId' = {} /\ Invoked \subseteq Marked(journalFile)
        /\ Marked(journalFile) \subseteq Marked(journal)
    BY <2>1 DEF Invoked, ServingId, HostCounts
  <2>. QED BY <2>1, <2>2, <2>3, HostKept
<1>5. CASE ServiceReplaced \/ \E id \in Operations : Age(id)
  <2>1. /\ UNCHANGED <<journal, journalFile, serving, invoked>>
        /\ aged \subseteq aged'
    BY <1>5 DEF ServiceReplaced, Age, journals
  <2>2. /\ Marked(journal)' = Marked(journal) /\ Marked(journalFile)' = Marked(journalFile)
        /\ Invoked' = Invoked /\ ServingId' = ServingId
    BY <2>1 DEF Marked, Invoked, ServingId
  <2>. QED BY <2>1, <2>2, HostKept DEF HostCounts
<1>. QED BY <1>1, <1>2, <1>3, <1>4, <1>5 DEF HelperNext

(* The controller touches the helper's journal only to have an operation   *)
(* reconciled.                                                             *)
LEMMA HostStep ==
  ASSUME HelperInv, HostCounts, TickIsCurrent, MemoryTrue(saved), [Next]_vars
  PROVE  HostCounts'
<1>1. ASSUME UNCHANGED <<journal, journalFile, invoked, aged>>, ServingId' = ServingId
      PROVE  HostCounts'
  <2>1. /\ Marked(journal)' = Marked(journal) /\ Marked(journalFile)' = Marked(journalFile)
        /\ Invoked' = Invoked
    BY <1>1 DEF Marked, Invoked
  <2>. QED BY <1>1, <2>1, HostKept DEF HostCounts
<1>2. ASSUME UNCHANGED helper PROVE HostCounts'
  BY <1>1, <1>2 DEF helper, journals, ServingId
<1>3. CASE HelperStep
  BY <1>3, HelperHost DEF HelperStep
<1>4. ASSUME HangUp, UNCHANGED <<journal, journalFile, invoked, aged>> PROVE HostCounts'
  <2>1. \/ UNCHANGED serving
        \/ serving # None /\ serving' = [serving EXCEPT !.live = FALSE]
    BY <1>4, HungUp
  <2>2. serving # None => serving \in Servings
    BY DEF HelperInv, HelperTypeOK
  <2>3. serving # None /\ serving' = [serving EXCEPT !.live = FALSE]
          => serving'.id = serving.id /\ serving' # None
    BY <2>2, ConstantFacts DEF Servings
  <2>4. ServingId' = ServingId
    BY <2>1, <2>3 DEF ServingId
  <2>. QED BY <1>1, <1>4, <2>4
<1>5. CASE Check \/ Answered
  BY <1>1, <1>5 DEF Check, Answered, journals, ServingId
<1>6. CASE NoAnswer \/ Crash
  BY <1>4, <1>6 DEF NoAnswer, Crash, journals
<1>7. CASE Get
  <2>. DEFINE id == saved.current.id
  <2>1. saved.current # None /\ id # 0 /\ saved.current \in Currents
    BY <1>7 DEF Get, At, TickIsCurrent, MemoryTrue, Memories
  <2>2. id \in Operations
    BY <2>1 DEF Currents, Operations
  <2>3. /\ journal[id] # None /\ UNCHANGED <<serving, invoked, aged>>
    BY <1>7 DEF Get
  <2>4. PICK e \in Reconciled(journal[id]) :
          LET j == [journal EXCEPT ![id] = e] IN
          (journal' = j /\ journalFile' = j) \/ Saves(j) \/ SaveFails(j)
    BY <1>7 DEF Get
  <2>5. e.dispatched = journal[id].dispatched /\ e # None
    <3>. HIDE DEF id
    <3>. QED BY <2>2, <2>3, <2>4, ReconciledMark
  <2>6. /\ journal' = [journal EXCEPT ![id] = e]
        /\ journalFile' \in {journalFile, journal'}
    BY <2>4, Journalled
  <2>7. /\ Marked(journal)' = Marked(journal)
        /\ Marked(journalFile)' \subseteq Marked(journal)'
        /\ Marked(journalFile) \subseteq Marked(journalFile)'
    <3>. HIDE DEF id
    <3>. QED BY <2>2, <2>3, <2>5, <2>6, Rewritten
  <2>8. Invoked' = Invoked /\ ServingId' = ServingId
        /\ Invoked \cup ServingId \subseteq Marked(journalFile)
    BY <2>3 DEF Invoked, ServingId, HostCounts
  <2>. QED BY <2>3, <2>7, <2>8, HostKept
<1>. QED BY <1>2, <1>3, <1>5, <1>6, <1>7
     DEF Next, vars, Incident, Acknowledge, PauseOrResume, CheckNow, Command, Forget, Tick,
         Enter, Telemetry, Adopt, Decline, Decide, Sample, Expire, Unproven, Recover, Restart

(* The controller's count *)

LEMMA ContinuesFacts ==
  ASSUME NEW s
  PROVE  Continues(s, s)
BY DEF Continues

LEMMA MemoryKept ==
  ASSUME HelperInv, NEW s, NEW t, MemoryTrue(s), MemoryCounts(s), Continues(t, s),
         Asked' \subseteq Asked, aged \subseteq aged',
         UNCHANGED <<issued, episodeOf>>, latch' \in {latch, None}
  PROVE  \A m \in {t} : MemoryCounts(m)'
<1>1. Asked \subseteq Operations /\ s.attempts \in Nat
  BY AskedTypes, RecoveryAssumption DEF MemoryTrue, Memories
<1>2. t.history \subseteq Operations /\ t.history = s.history
  BY DEF MemoryCounts, Continues
<1>3. Cardinality(t.history \ aged') <= MaxRestarts
  <2>1. /\ Cardinality(t.history \ aged') <= Cardinality(s.history \ aged)
        /\ Cardinality(t.history \ aged') \in Nat /\ Cardinality(s.history \ aged) \in Nat
    <3>1. s.history \ aged \subseteq Operations /\ t.history \ aged' \subseteq s.history \ aged
      BY <1>2
    <3>. QED BY <3>1, Fewer
  <2>2. Cardinality(s.history \ aged) <= MaxRestarts /\ MaxRestarts \in Nat
    BY ConstantFacts DEF MemoryCounts
  <2>. QED BY <2>1, <2>2
<1>4. Asked' \cup OperationOf(t) \subseteq t.history \cup aged'
  BY <1>2 DEF MemoryCounts, Continues
<1>5. \A id \in OperationOf(t) : id <= issued' /\ episodeOf'[id] = t.episode
  BY DEF MemoryCounts, Continues
<1>7. ASSUME latch' # None, t.episode = latch'.incident
      PROVE  Cardinality({id \in Asked' : episodeOf'[id] = t.episode} \cup OperationOf(t))
               <= t.attempts
  <2>. DEFINE S == AskedFor(s.episode) \cup OperationOf(s)
              T == {id \in Asked' : episodeOf'[id] = t.episode} \cup OperationOf(t)
  <2>1. latch # None /\ s.episode = latch.incident /\ t.attempts = s.attempts
        /\ t.episode = s.episode /\ OperationOf(t) \subseteq OperationOf(s)
    BY <1>7 DEF Continues
  <2>2. T \subseteq S /\ S \subseteq Operations
    <3>1. OperationOf(s) \subseteq Operations
      BY DEF OperationOf, MemoryTrue, Memories, Currents, Operations
    <3>. QED BY <1>1, <2>1, <3>1 DEF AskedFor
  <2>3. Cardinality(S) <= s.attempts
    BY <2>1 DEF MemoryCounts
  <2>4. /\ Cardinality(T) <= Cardinality(S)
        /\ Cardinality(T) \in Nat /\ Cardinality(S) \in Nat
    <3>. HIDE DEF S, T
    <3>. QED BY <2>2, Fewer
  <2>. QED BY <1>1, <2>1, <2>3, <2>4
<1>8. ASSUME latch' # None, t.episode # latch'.incident
      PROVE  {id \in Asked' : episodeOf'[id] = latch'.incident} = {}
  <2>1. latch # None /\ latch' = latch /\ s.episode # latch.incident
    BY <1>8 DEF Continues
  <2>2. AskedFor(latch.incident) = {}
    BY <2>1 DEF MemoryCounts
  <2>. QED BY <2>1, <2>2 DEF AskedFor
<1>. QED BY <1>2, <1>3, <1>4, <1>5, <1>7, <1>8 DEF MemoryCounts, AskedFor

(* Steps that ask for nothing new, count nothing and start no incident.    *)
LEMMA CountsKept ==
  ASSUME IInv, CountInv,
         Continues(saved', saved) \/ Continues(saved', savedFile),
         Continues(savedFile', saved) \/ Continues(savedFile', savedFile),
         step'.at # "idle" => ~storageError',
         up' /\ ~storageError' =>
           /\ Continues(savedFile', saved') /\ Continues(saved', savedFile'),
         Asked' \subseteq Asked, aged \subseteq aged',
         UNCHANGED <<issued, episodeOf, incidents>>, latch' \in {latch, None}
  PROVE  CountInv'
<1>1. HelperInv /\ MemoryTrue(saved) /\ MemoryTrue(savedFile)
      /\ MemoryCounts(saved) /\ MemoryCounts(savedFile)
  BY DEF IInv, ControlInv, CountInv
<1>2. MemoryCounts(saved)'
  <2>. DEFINE t == saved'
  <2>1. \A m \in {t} : MemoryCounts(m)'
    <3>1. Continues(t, saved) \/ Continues(t, savedFile)
      OBVIOUS
    <3>. HIDE DEF t
    <3>. QED BY <1>1, <3>1, MemoryKept
  <2>. QED BY <2>1 DEF MemoryCounts, OperationOf
<1>3. MemoryCounts(savedFile)'
  <2>. DEFINE t == savedFile'
  <2>1. \A m \in {t} : MemoryCounts(m)'
    <3>1. Continues(t, saved) \/ Continues(t, savedFile)
      OBVIOUS
    <3>. HIDE DEF t
    <3>. QED BY <1>1, <3>1, MemoryKept
  <2>. QED BY <2>1 DEF MemoryCounts, OperationOf
<1>4. CountsFiled'
  BY DEF CountsFiled, Continues, OperationOf
<1>5. ASSUME NEW n \in Nat PROVE Cardinality(AskedFor(n)') <= MaxRestarts
  <2>1. AskedFor(n)' \subseteq AskedFor(n) /\ AskedFor(n) \subseteq Operations
    BY <1>1, AskedTypes DEF AskedFor
  <2>2. /\ Cardinality(AskedFor(n)') <= Cardinality(AskedFor(n))
        /\ Cardinality(AskedFor(n)') \in Nat /\ Cardinality(AskedFor(n)) \in Nat
    BY <2>1, Fewer
  <2>3. Cardinality(AskedFor(n)) <= MaxRestarts /\ MaxRestarts \in Nat
    BY ConstantFacts DEF CountInv
  <2>. QED BY <2>2, <2>3
<1>. QED BY <1>2, <1>3, <1>4, <1>5 DEF CountInv

(* What is asked for, in the steps that ask for nothing.                   *)
LEMMA AskedLess ==
  ASSUME HelperInv,
         \/ UNCHANGED helper
         \/ HelperNext
         \/ HangUp /\ UNCHANGED <<invoked, aged>>
         \/ UNCHANGED <<serving, wire, invoked, aged>>
  PROVE  Asked' \subseteq Asked /\ aged \subseteq aged'
<1>1. CASE UNCHANGED <<serving, wire, invoked, aged>>
  BY <1>1 DEF Asked, ServingId, Invoked
<1>2. CASE UNCHANGED helper
  BY <1>1, <1>2 DEF helper
<1>3. CASE HangUp /\ UNCHANGED <<invoked, aged>>
  <2>1. {w.id : w \in wire'} = {w.id : w \in wire}
    <3>1. \A w \in wire : [w EXCEPT !.live = FALSE].id = w.id
      BY DEF HelperInv, HelperTypeOK, Requests
    <3>2. wire' = {[w EXCEPT !.live = FALSE] : w \in wire}
      BY <1>3 DEF HangUp
    <3>. QED BY <3>1, <3>2
  <2>2. serving \in Servings \cup {None}
        /\ serving' = IF serving = None THEN None ELSE [serving EXCEPT !.live = FALSE]
    BY <1>3 DEF HelperInv, HelperTypeOK, HangUp
  <2>3. serving \in Servings => [serving EXCEPT !.live = FALSE].id = serving.id
                                /\ [serving EXCEPT !.live = FALSE] # None
    BY ConstantFacts DEF Servings
  <2>4. ServingId' = ServingId
    BY <2>2, <2>3 DEF ServingId
  <2>. QED BY <1>3, <2>1, <2>4 DEF Asked, Invoked
<1>4. ASSUME NEW w \in wire, Deliver(w) PROVE Asked' \subseteq Asked /\ aged \subseteq aged'
  <2>1. wire' \subseteq wire /\ UNCHANGED <<invoked, aged>> /\ serving = None
    BY <1>4 DEF Deliver
  <2>2. \/ UNCHANGED serving
        \/ serving' = [id |-> w.id, live |-> w.live, at |-> "intent"]
    BY <1>4 DEF Deliver, Replay, Refuse, Intend
  <2>3. ServingId' \subseteq {w.id}
    BY <2>1, <2>2 DEF ServingId
  <2>4. Invoked' = Invoked
    BY <2>1 DEF Invoked
  <2>. QED BY <2>1, <2>3, <2>4 DEF Asked
<1>5. CASE Invoke
  <2>1. /\ serving \in Servings /\ serving # None
        /\ serving' = [serving EXCEPT !.at = "outcome"]
        /\ invoked' = [invoked EXCEPT ![serving.id] = @ + 1]
        /\ UNCHANGED <<wire, aged>> /\ invoked \in [Operations -> Nat]
    BY <1>5 DEF Invoke, HelperInv, HelperTypeOK
  <2>2. ServingId = {serving.id} /\ ServingId' = {serving.id}
    <3>1. serving'.id = serving.id /\ serving' # None
      BY <2>1, ConstantFacts DEF Servings
    <3>. QED BY <2>1, <3>1 DEF ServingId
  <2>3. Invoked' \subseteq Invoked \cup {serving.id}
    <3>1. \A id \in Operations : id # serving.id => invoked'[id] = invoked[id]
      BY <2>1
    <3>. QED BY <3>1 DEF Invoked
  <2>. QED BY <2>1, <2>2, <2>3 DEF Asked
<1>6. CASE Report \/ HelperRestarts
  <2>1. serving' = None /\ wire' \subseteq wire /\ UNCHANGED <<invoked, aged>>
    BY <1>6 DEF Report, HelperRestarts
  <2>. QED BY <2>1 DEF Asked, ServingId, Invoked
<1>7. CASE ServiceReplaced \/ \E id \in Operations : Age(id)
  <2>1. UNCHANGED <<serving, wire, invoked>> /\ aged \subseteq aged'
    BY <1>7 DEF ServiceReplaced, Age
  <2>. QED BY <2>1 DEF Asked, ServingId, Invoked
<1>. QED BY <1>1, <1>2, <1>3, <1>4, <1>5, <1>6, <1>7 DEF HelperNext

(* The parts of a memory that a result does not touch.                     *)
LEMMA EditContinues ==
  ASSUME MemoryTrue(saved), NEW c, c # None, c.id \in {0} \cup OperationOf(saved)
  PROVE  /\ Continues([saved EXCEPT !.current = c], saved)
         /\ c.id = saved.current.id /\ saved.current # None
              => Continues(saved, [saved EXCEPT !.current = c])
<1>. DEFINE t == [saved EXCEPT !.current = c]
<1>1. /\ t.history = saved.history /\ t.attempts = saved.attempts
      /\ t.episode = saved.episode /\ t.current = c
  BY DEF MemoryTrue, Memories
<1>2. OperationOf(t) = {c.id} \ {0}
  BY <1>1 DEF OperationOf
<1>. HIDE DEF t
<1>3. Continues(t, saved)
  BY <1>1, <1>2 DEF Continues
<1>4. c.id = saved.current.id /\ saved.current # None => OperationOf(saved) = OperationOf(t)
  BY <1>2 DEF OperationOf
<1>5. c.id = saved.current.id /\ saved.current # None => Continues(saved, t)
  BY <1>1, <1>4 DEF Continues
<1>. QED BY <1>3, <1>5 DEF t

LEMMA InAgreement ==
  ASSUME CountInv, up, ~storageError
  PROVE  Continues(savedFile, saved) /\ Continues(saved, savedFile)
BY DEF CountInv, CountsFiled, Continues

LEMMA QuietCounts ==
  ASSUME IInv, CountInv, UNCHANGED <<saved, savedFile, storageError>>, up' => up,
         step'.at \in {"idle", step.at} \/ step.at # "idle" \/ ~storageError,
         \/ UNCHANGED helper
         \/ HelperNext
         \/ HangUp /\ UNCHANGED <<invoked, aged>>
         \/ UNCHANGED <<serving, wire, invoked, aged>>,
         UNCHANGED <<issued, episodeOf, incidents>>, latch' \in {latch, None}
  PROVE  CountInv'
<1>1. Asked' \subseteq Asked /\ aged \subseteq aged'
  BY AskedLess DEF IInv
<1>2. step'.at # "idle" => ~storageError'
  BY DEF CountInv, CountsFiled
<1>3. Continues(saved', saved) /\ Continues(savedFile', savedFile)
  BY ContinuesFacts
<1>4. up' /\ ~storageError' => Continues(savedFile', saved') /\ Continues(saved', savedFile')
  BY InAgreement
<1>. QED BY <1>1, <1>2, <1>3, <1>4, CountsKept

LEMMA PersistCounts ==
  ASSUME IInv, CountInv, NEW s, NEW place, Persist(s, place), Continues(s, saved),
         up, ~storageError, up' = up,
         \/ UNCHANGED helper
         \/ HangUp /\ UNCHANGED <<invoked, aged>>
         \/ UNCHANGED <<serving, wire, invoked, aged>>,
         UNCHANGED <<issued, episodeOf, incidents>>, latch' = latch
  PROVE  CountInv'
<1>1. Asked' \subseteq Asked /\ aged \subseteq aged'
  BY AskedLess DEF IInv
<1>2. /\ saved' = s /\ savedFile' \in {savedFile, s}
      /\ storageError' \/ savedFile' = s
      /\ step' = Idle \/ UNCHANGED storageError
  BY DEF Persist
<1>3. step'.at # "idle" => ~storageError'
  BY <1>2 DEF Idle
<1>4. Continues(saved', saved)
  BY <1>2
<1>5. Continues(savedFile', saved) \/ Continues(savedFile', savedFile)
  BY <1>2, ContinuesFacts
<1>6. up' /\ ~storageError' => Continues(savedFile', saved') /\ Continues(saved', savedFile')
  BY <1>2, ContinuesFacts
<1>. QED BY <1>1, <1>3, <1>4, <1>5, <1>6, CountsKept

LEMMA AtFacts ==
  ASSUME IInv, CountInv, NEW place, place # "idle", At(place)
  PROVE  up /\ step.at # "idle" /\ ~storageError /\ MemoryTrue(saved)
BY DEF At, CountInv, CountsFiled, IInv, ControlInv

LEMMA HelperStepCounts == ASSUME IInv, CountInv, HelperStep PROVE CountInv'
<1>1. HelperNext /\ UNCHANGED <<up, latch, saved, savedFile, storageError, step, issued,
                                episodeOf, incidents>>
  BY DEF HelperStep, latching, saving, history
<1>. QED BY <1>1, QuietCounts

LEMMA OperatorCounts ==
  ASSUME IInv, CountInv, Acknowledge \/ PauseOrResume \/ CheckNow
  PROVE  CountInv'
<1>1. UNCHANGED <<up, saved, savedFile, storageError, step, issued, episodeOf, incidents>>
      /\ UNCHANGED helper /\ latch' \in {latch, None}
  BY DEF Acknowledge, PauseOrResume, CheckNow, Command, latching, saving, history
<1>. QED BY <1>1, QuietCounts

LEMMA WaitingCounts ==
  ASSUME IInv, CountInv, Telemetry \/ Decline
  PROVE  CountInv'
<1>1. up /\ step.at # "idle" /\ ~storageError
  BY AtFacts DEF Telemetry, Decline
<1>2. UNCHANGED <<up, saved, savedFile, storageError, latch, issued, episodeOf, incidents>>
      /\ UNCHANGED helper
  BY DEF Telemetry, Decline, RecoveryKeeps, latching, saving, history
<1>. QED BY <1>1, <1>2, QuietCounts

LEMMA EnterCounts == ASSUME IInv, CountInv, Enter PROVE CountInv'
<1>1. up /\ step.at # "idle" /\ ~storageError
  BY AtFacts DEF Enter
<1>2. UNCHANGED <<up, latch, issued, episodeOf, incidents>> /\ UNCHANGED helper
  BY DEF Enter, RecoveryKeeps, latching, history
<1>3. UNCHANGED <<saved, savedFile, storageError>> \/ Persist(saved, "get")
  BY DEF Enter, saving
<1>4. CASE UNCHANGED <<saved, savedFile, storageError>>
  BY <1>1, <1>2, <1>4, QuietCounts
<1>5. CASE Persist(saved, "get")
  <2>1. Continues(saved, saved)
    BY ContinuesFacts
  <2>. QED BY <1>1, <1>2, <1>5, <2>1, PersistCounts
<1>. QED BY <1>3, <1>4, <1>5

LEMMA AdoptCounts == ASSUME IInv, CountInv, Adopt PROVE CountInv'
<1>1. up /\ step.at # "idle" /\ ~storageError /\ MemoryTrue(saved)
  BY AtFacts DEF Adopt
<1>2. UNCHANGED <<up, latch, issued, episodeOf, incidents>> /\ UNCHANGED helper
  BY DEF Adopt, RecoveryKeeps, latching, history
<1>. DEFINE c == Current(0, latch.since, incarnation, "verifying")
            s == [saved EXCEPT !.current = c]
<1>3. Persist(s, "idle")
  BY DEF Adopt
<1>4. Continues(s, saved)
  <2>1. s.current = c /\ c.id = 0 /\ s.history = saved.history
        /\ s.attempts = saved.attempts /\ s.episode = saved.episode
    BY <1>1 DEF MemoryTrue, Memories, Current
  <2>2. OperationOf(s) = {}
    <3>. HIDE DEF s, c
    <3>. QED BY <2>1 DEF OperationOf
  <2>. HIDE DEF s, c
  <2>. QED BY <2>1, <2>2 DEF Continues
<1>. HIDE DEF s
<1>. QED BY <1>1, <1>2, <1>3, <1>4, PersistCounts

(* A result is accepted, or a phase noted: the id stays.                   *)
LEMMA SameOperation ==
  ASSUME MemoryTrue(saved), saved.current # None, NEW s,
         s.history = saved.history, s.attempts = saved.attempts, s.episode = saved.episode,
         s.current # None, s.current.id = saved.current.id
  PROVE  Continues(s, saved) /\ Continues(saved, s)
BY DEF Continues, OperationOf

LEMMA AcceptedId ==
  ASSUME NEW c \in Currents, NEW r \in Results
  PROVE  Accepted(c, r) # None /\ Accepted(c, r).id = c.id
<1>. DEFINE d == Accepted(c, r)
<1>1. CASE r.state = "completed" /\ r.before = c.before /\ r.after # c.before
  <2>1. d = [c EXCEPT !.phase = "verifying", !.after = r.after, !.samples = 0,
                      !.recheckable = FALSE]
    BY <1>1 DEF Accepted
  <2>2. 0 \in 0..StableSamples /\ r.after \in Incarnations \cup {None}
    BY ConstantFacts DEF Results
  <2>3. d \in Currents /\ d.id = c.id
    BY <2>1, <2>2 DEF Currents, Phases
  <2>. QED BY <2>3, ConstantFacts
<1>2. CASE ~(r.state = "completed" /\ r.before = c.before /\ r.after # c.before)
  <2>1. d = [c EXCEPT !.phase = IF r.state = "failed" THEN "failed" ELSE "uncertain",
                      !.recheckable = (r.state = "uncertain" /\ r.recheckable)]
    BY <1>2 DEF Accepted
  <2>2. (r.state = "uncertain" /\ r.recheckable) \in BOOLEAN
    OBVIOUS
  <2>3. d \in Currents /\ d.id = c.id
    BY <2>1, <2>2 DEF Currents, Phases
  <2>. QED BY <2>3, ConstantFacts
<1>. QED BY <1>1, <1>2

LEMMA AcceptCounts ==
  ASSUME IInv, CountInv, NEW r \in Results, Accept(r), step.at \in {"post", "get"}, up,
         RecoveryKeeps, UNCHANGED <<serving, wire, invoked, aged>>
  PROVE  CountInv'
<1>1. MemoryTrue(saved) /\ saved.current # None /\ saved \in Memories
  BY DEF IInv, ControlInv, TickIsCurrent, MemoryTrue
<1>2. saved.current \in Currents /\ ~storageError
  BY <1>1 DEF Memories, CountInv, CountsFiled
<1>3. UNCHANGED <<up, latch, issued, episodeOf, incidents>>
  BY DEF RecoveryKeeps, latching, history
<1>. DEFINE c == Accepted(saved.current, r)
            s == [saved EXCEPT !.current = c]
<1>4. Persist(s, "idle")
  BY DEF Accept
<1>5. c # None /\ c.id = saved.current.id
  BY <1>2, AcceptedId
<1>6. /\ s.history = saved.history /\ s.attempts = saved.attempts
      /\ s.episode = saved.episode /\ s.current = c
  BY <1>1 DEF Memories
<1>. HIDE DEF s, c
<1>7. Continues(s, saved)
  BY <1>1, <1>5, <1>6, SameOperation
<1>. QED BY <1>2, <1>3, <1>4, <1>7, PersistCounts

LEMMA AnsweredCounts == ASSUME IInv, CountInv, Answered PROVE CountInv'
<1>1. answer \in Results /\ Accept(answer) /\ step.at = "post" /\ up /\ RecoveryKeeps
      /\ UNCHANGED <<serving, wire, invoked, aged>>
  BY DEF Answered, At, IInv, HelperInv, HelperTypeOK
<1>. QED BY <1>1, AcceptCounts

LEMMA NoAnswerCounts == ASSUME IInv, CountInv, NoAnswer PROVE CountInv'
<1>1. /\ up /\ step.at = "post" /\ ~storageError /\ MemoryTrue(saved)
      /\ HangUp /\ UNCHANGED <<invoked, aged>>
      /\ UNCHANGED <<up, latch, issued, episodeOf, incidents>>
  BY AtFacts DEF NoAnswer, At, RecoveryKeeps, latching, history
<1>2. CASE UNCHANGED <<saved, savedFile, storageError>>
  BY <1>1, <1>2, QuietCounts
<1>3. CASE Persist([saved EXCEPT !.current.phase = "uncertain"], "idle")
  <2>. DEFINE s == [saved EXCEPT !.current.phase = "uncertain"]
  <2>1. saved.current # None /\ saved \in Memories /\ saved.current \in Currents
    BY <1>1 DEF IInv, ControlInv, TickIsCurrent, MemoryTrue, Memories
  <2>2. /\ s.history = saved.history /\ s.attempts = saved.attempts
        /\ s.episode = saved.episode
        /\ s.current = [saved.current EXCEPT !.phase = "uncertain"]
    BY <2>1 DEF Memories
  <2>3. s.current \in Currents /\ s.current.id = saved.current.id
    <3>. HIDE DEF s
    <3>. QED BY <2>1, <2>2 DEF Currents, Phases
  <2>4. Persist(s, "idle")
    BY <1>3
  <2>. HIDE DEF s
  <2>5. Continues(s, saved)
    BY <1>1, <2>1, <2>2, <2>3, SameOperation, ConstantFacts
  <2>. QED BY <1>1, <2>4, <2>5, PersistCounts
<1>. QED BY <1>2, <1>3 DEF NoAnswer, saving

LEMMA GetCounts == ASSUME IInv, CountInv, Get PROVE CountInv'
<1>. DEFINE id == saved.current.id
<1>1. /\ up /\ step.at = "get" /\ ~storageError /\ RecoveryKeeps
      /\ UNCHANGED <<serving, wire, invoked, aged>> /\ journal[id] # None
      /\ UNCHANGED <<up, latch, issued, episodeOf, incidents>>
  BY AtFacts DEF Get, At, RecoveryKeeps, latching, history
<1>2. PICK e \in Reconciled(journal[id]) :
        Accept(Result(id, e)) \/ UNCHANGED <<saved, savedFile, storageError>>
  BY DEF Get, saving
<1>3. CASE UNCHANGED <<saved, savedFile, storageError>>
  BY <1>1, <1>3, QuietCounts
<1>4. CASE Accept(Result(id, e))
  <2>1. id \in Operations
    <3>1. saved.current # None /\ id # 0 /\ saved.current \in Currents
      BY <1>1 DEF IInv, ControlInv, TickIsCurrent, MemoryTrue, Memories
    <3>. QED BY <3>1 DEF Currents, Operations
  <2>2. journal[id] \in Entries /\ EntryTrue(journal[id]) /\ incarnation \in Incarnations
    <3>. HIDE DEF id
    <3>. QED BY <1>1, <2>1 DEF IInv, HelperInv, HelperTypeOK, AnswersTrue, EntriesTrue
  <2>. HIDE DEF id
  <2>3. e \in Entries
    BY <1>2, <2>2, ReconciledTrue
  <2>4. Result(id, e) \in Results
    BY <2>1, <2>3, ConstantFacts DEF Result, Entries, Results
  <2>. QED BY <1>1, <1>4, <2>4, AcceptCounts
<1>. QED BY <1>2, <1>3, <1>4

LEMMA SampleCounts == ASSUME IInv, CountInv, Sample PROVE CountInv'
<1>1. /\ up /\ step.at = "sample" /\ ~storageError /\ MemoryTrue(saved)
      /\ UNCHANGED helper /\ UNCHANGED <<savedFile, storageError>>
      /\ UNCHANGED <<up, latch, issued, episodeOf, incidents>>
  BY AtFacts DEF Sample, At, RecoveryKeeps, latching, history
<1>2. PICK n \in 0..StableSamples : saved' = [saved EXCEPT !.current.samples = n]
  <2>1. 0 \in 0..StableSamples /\ StableSamples \in Nat
    BY ConstantFacts
  <2>2. saved.current.samples \in 0..StableSamples
    BY <1>1 DEF IInv, ControlInv, TickIsCurrent, InPhase, MemoryTrue, Memories, Currents
  <2>3. Counted(saved.current.samples) \in 0..StableSamples
    BY <2>1, <2>2 DEF Counted
  <2>. QED BY <2>1, <2>3 DEF Sample
<1>3. saved.current # None /\ saved \in Memories /\ saved.current \in Currents
  BY <1>1 DEF IInv, ControlInv, TickIsCurrent, InPhase, MemoryTrue, Memories
<1>4. /\ saved'.history = saved.history /\ saved'.attempts = saved.attempts
      /\ saved'.episode = saved.episode
      /\ saved'.current = [saved.current EXCEPT !.samples = n]
  BY <1>2, <1>3 DEF Memories
<1>5. saved'.current \in Currents /\ saved'.current.id = saved.current.id
  BY <1>3, <1>4 DEF Currents
<1>6. Continues(saved', saved) /\ Continues(saved, saved')
  <2>. DEFINE s == saved'
  <2>1. s.current # None
    BY <1>5, ConstantFacts
  <2>. HIDE DEF s
  <2>2. Continues(s, saved) /\ Continues(saved, s)
    BY <1>1, <1>3, <1>4, <1>5, <2>1, SameOperation DEF s
  <2>. QED BY <2>2 DEF s
<1>7. Continues(savedFile, saved) /\ Continues(saved, savedFile)
  BY <1>1, InAgreement
<1>8. Continues(savedFile', saved') /\ Continues(saved', savedFile')
  BY <1>1, <1>6, <1>7 DEF Continues
<1>9. Asked' \subseteq Asked /\ aged \subseteq aged'
  BY <1>1, AskedLess DEF IInv
<1>. QED BY <1>1, <1>6, <1>7, <1>8, <1>9, CountsKept

(* A phase is noted in the memory. *)
LEMMA Phased ==
  ASSUME IInv, saved.current # None, NEW phase \in Phases
  PROVE  /\ Continues([saved EXCEPT !.current.phase = phase], saved)
         /\ Continues(saved, [saved EXCEPT !.current.phase = phase])
<1>. DEFINE s == [saved EXCEPT !.current.phase = phase]
<1>1. MemoryTrue(saved) /\ saved \in Memories /\ saved.current \in Currents
  BY DEF IInv, ControlInv, MemoryTrue, Memories
<1>2. /\ s.history = saved.history /\ s.attempts = saved.attempts
      /\ s.episode = saved.episode
      /\ s.current = [saved.current EXCEPT !.phase = phase]
  BY <1>1 DEF Memories
<1>. HIDE DEF s
<1>3. s.current \in Currents /\ s.current.id = saved.current.id
  BY <1>1, <1>2 DEF Currents
<1>4. Continues(s, saved) /\ Continues(saved, s)
  BY <1>1, <1>2, <1>3, SameOperation, ConstantFacts
<1>. QED BY <1>4 DEF s

LEMMA ExpireCounts == ASSUME IInv, CountInv, Expire PROVE CountInv'
<1>. DEFINE s == [saved EXCEPT !.current.phase = "failed", !.failedAfter = saved.current.after]
<1>1. /\ up /\ step.at = "sample" /\ ~storageError /\ MemoryTrue(saved)
      /\ UNCHANGED helper /\ UNCHANGED <<up, latch, issued, episodeOf, incidents>>
      /\ Persist(s, "idle")
  BY AtFacts DEF Expire, At, RecoveryKeeps, latching, history
<1>2. saved.current # None /\ saved \in Memories /\ saved.current \in Currents
  BY <1>1 DEF IInv, ControlInv, TickIsCurrent, InPhase, MemoryTrue, Memories
<1>3. /\ s.history = saved.history /\ s.attempts = saved.attempts
      /\ s.episode = saved.episode
      /\ s.current = [saved.current EXCEPT !.phase = "failed"]
  BY <1>2 DEF Memories
<1>. HIDE DEF s
<1>4. s.current \in Currents /\ s.current.id = saved.current.id
  BY <1>2, <1>3 DEF Currents, Phases
<1>5. Continues(s, saved)
  BY <1>1, <1>2, <1>3, <1>4, SameOperation, ConstantFacts
<1>. QED BY <1>1, <1>5, PersistCounts

LEMMA UnprovenCounts == ASSUME IInv, CountInv, Unproven PROVE CountInv'
<1>. DEFINE s == [saved EXCEPT !.current.phase = "completed"]
<1>1. /\ up /\ step.at = "probe" /\ ~storageError /\ step' = Idle
      /\ UNCHANGED helper /\ UNCHANGED <<up, latch, issued, episodeOf, incidents>>
      /\ \/ UNCHANGED <<saved, savedFile, storageError>>
         \/ /\ saved' = s
            /\ \/ savedFile' \in {savedFile, s} /\ storageError' = TRUE
               \/ savedFile' = s /\ UNCHANGED storageError
  BY AtFacts DEF Unproven, At, GiveUp, history, saving
<1>2. CASE UNCHANGED <<saved, savedFile, storageError>>
  BY <1>1, <1>2, QuietCounts
<1>3. CASE /\ saved' = s
           /\ \/ savedFile' \in {savedFile, s} /\ storageError' = TRUE
              \/ savedFile' = s /\ UNCHANGED storageError
  <2>1. Continues(s, saved)
    <3>1. saved.current # None /\ "completed" \in Phases
      BY <1>1 DEF IInv, ControlInv, TickIsCurrent, InPhase, Phases
    <3>. QED BY <3>1, Phased
  <2>2. Continues(savedFile, savedFile) /\ Continues(s, s)
    BY ContinuesFacts
  <2>3. Asked' \subseteq Asked /\ aged \subseteq aged'
    BY <1>1, AskedLess DEF IInv
  <2>4. step'.at = "idle"
    BY <1>1 DEF Idle
  <2>. HIDE DEF s
  <2>5. Continues(saved', saved)
    BY <1>3, <2>1
  <2>6. Continues(savedFile', saved) \/ Continues(savedFile', savedFile)
    BY <1>3, <2>1, <2>2
  <2>7. ~storageError' => Continues(savedFile', saved') /\ Continues(saved', savedFile')
    BY <1>3, <2>2
  <2>. QED BY <1>1, <2>3, <2>4, <2>5, <2>6, <2>7, CountsKept
<1>. QED BY <1>1, <1>2, <1>3

LEMMA RecoverCounts == ASSUME IInv, CountInv, Recover PROVE CountInv'
<1>. DEFINE s == [saved EXCEPT !.current.phase = "completed"]
<1>1. /\ up /\ step.at = "probe" /\ ~storageError /\ step' = Idle
      /\ UNCHANGED helper /\ UNCHANGED <<up, storageError, issued, episodeOf, incidents>>
      /\ saved' = s /\ savedFile' = s /\ latch' = None
  BY AtFacts DEF Recover, At, GiveUp, history
<1>2. Continues(s, saved)
  <2>1. saved.current # None /\ "completed" \in Phases
    BY <1>1 DEF IInv, ControlInv, TickIsCurrent, InPhase, Phases
  <2>. QED BY <2>1, Phased
<1>3. Continues(s, s)
  BY ContinuesFacts
<1>4. Asked' \subseteq Asked /\ aged \subseteq aged'
  BY <1>1, AskedLess DEF IInv
<1>. HIDE DEF s
<1>5. step'.at = "idle"
  BY <1>1 DEF Idle
<1>6. Continues(saved', saved) /\ Continues(savedFile', saved)
      /\ Continues(savedFile', saved') /\ Continues(saved', savedFile')
  BY <1>1, <1>2, <1>3
<1>. QED BY <1>1, <1>4, <1>5, <1>6, CountsKept

LEMMA CrashCounts == ASSUME IInv, CountInv, Crash PROVE CountInv'
<1>1. /\ up' = FALSE /\ step' = Idle /\ HangUp /\ UNCHANGED <<invoked, aged>>
      /\ UNCHANGED <<saved, savedFile, storageError, latch, issued, episodeOf, incidents>>
  BY DEF Crash, latching, saving
<1>2. step'.at = "idle"
  BY <1>1 DEF Idle
<1>. QED BY <1>1, <1>2, QuietCounts

(* The process starts from the file, whose count is as good as the         *)
(* memory's.                                                               *)
LEMMA RestartCounts == ASSUME IInv, CountInv, Restart PROVE CountInv'
<1>1. /\ ~up /\ latch' = latchFile /\ storageError' = FALSE
      /\ saved' = IF savedFile.current = None THEN savedFile
                  ELSE [savedFile EXCEPT !.current.samples = 0]
      /\ UNCHANGED helper /\ UNCHANGED <<savedFile, step, issued, episodeOf, incidents>>
  BY DEF Restart, RestoredLatch, history
<1>2. latch' \in {latch, None}
  BY <1>1 DEF IInv, ControlInv, LatchFiled
<1>3. step'.at = "idle"
  BY <1>1 DEF IInv, ControlInv, TickIsCurrent
<1>4. Continues(saved', savedFile) /\ Continues(savedFile, saved')
  <2>1. CASE savedFile.current = None
    <3>1. saved' = savedFile
      BY <1>1, <2>1
    <3>. QED BY <3>1, ContinuesFacts
  <2>2. CASE savedFile.current # None
    <3>. DEFINE s == [savedFile EXCEPT !.current.samples = 0]
    <3>1. savedFile \in Memories /\ savedFile.current \in Currents /\ 0 \in 0..StableSamples
      BY <2>2, ConstantFacts DEF IInv, ControlInv, MemoryTrue, Memories
    <3>2. /\ s.history = savedFile.history /\ s.attempts = savedFile.attempts
          /\ s.episode = savedFile.episode
          /\ s.current = [savedFile.current EXCEPT !.samples = 0]
      BY <3>1 DEF Memories
    <3>3. saved' = s
      BY <1>1, <2>2
    <3>. HIDE DEF s
    <3>4. s.current \in Currents /\ s.current.id = savedFile.current.id
      BY <3>1, <3>2 DEF Currents
    <3>5. s.current # None
      BY <3>4, ConstantFacts
    <3>6. OperationOf(s) = OperationOf(savedFile)
      BY <2>2, <3>4, <3>5 DEF OperationOf
    <3>7. Continues(s, savedFile) /\ Continues(savedFile, s)
      BY <3>2, <3>6 DEF Continues
    <3>. QED BY <3>3, <3>7
  <2>. QED BY <2>1, <2>2
<1>5. Continues(savedFile', savedFile)
  BY <1>1, ContinuesFacts
<1>6. Continues(savedFile', saved') /\ Continues(saved', savedFile')
  BY <1>1, <1>4
<1>7. Asked' \subseteq Asked /\ aged \subseteq aged'
  BY <1>1, AskedLess DEF IInv
<1>. QED BY <1>1, <1>2, <1>3, <1>4, <1>5, <1>6, <1>7, CountsKept

(* The steps that count: a memory for a new incident, a new incident, a    *)
(* decision and a request.                                                 *)

(* A memory that is begun anew keeps the history; the incident it is for   *)
(* has asked for nothing.                                                  *)
LEMMA RenewCounts ==
  ASSUME IInv, CountInv, up, ~storageError, NEW t,
         t.history = saved.history, t.attempts = 0, t.current = None,
         latch # None => t.episode = latch.incident /\ saved.episode # latch.incident,
         UNCHANGED helper, UNCHANGED <<up, latch, issued, episodeOf, incidents>>,
         saved' = t, savedFile' \in {savedFile, t}, savedFile' # t => storageError',
         step'.at # "idle" => ~storageError'
  PROVE  CountInv'
<1>1. Asked' = Asked /\ aged' = aged
  BY DEF helper, Asked, ServingId, Invoked
<1>2. OperationOf(t) = {}
  BY DEF OperationOf
<1>3. MemoryCounts(saved) /\ MemoryCounts(savedFile)
  BY DEF CountInv
<1>4. latch # None => AskedFor(latch.incident) = {}
  BY <1>3 DEF MemoryCounts
<1>5. \A m \in {t} : MemoryCounts(m)'
  <2>1. /\ t.history \subseteq Operations
        /\ Cardinality(t.history \ aged') <= MaxRestarts
        /\ Asked' \cup OperationOf(t) \subseteq t.history \cup aged'
    BY <1>1, <1>2, <1>3 DEF MemoryCounts
  <2>2. ASSUME latch' # None
        PROVE  /\ t.episode = latch'.incident
               /\ Cardinality({id \in Asked' : episodeOf'[id] = t.episode} \cup OperationOf(t))
                    <= t.attempts
    <3>1. t.episode = latch'.incident
          /\ {id \in Asked' : episodeOf'[id] = t.episode} \cup OperationOf(t) = {}
      BY <1>1, <1>2, <1>4, <2>2 DEF AskedFor
    <3>. QED BY <3>1, FS_EmptySet
  <2>. QED BY <1>2, <2>1, <2>2 DEF MemoryCounts, AskedFor
<1>6. MemoryCounts(saved)'
  BY <1>5 DEF MemoryCounts, OperationOf
<1>7. MemoryCounts(savedFile)'
  <2>1. CASE savedFile' = t
    BY <1>5, <2>1 DEF MemoryCounts, OperationOf
  <2>2. CASE savedFile' = savedFile
    BY <1>1, <1>3, <2>2 DEF MemoryCounts, OperationOf, AskedFor
  <2>. QED BY <2>1, <2>2
<1>8. CountsFiled'
  BY DEF CountsFiled, OperationOf
<1>9. \A n \in Nat : AskedFor(n)' = AskedFor(n)
  BY <1>1 DEF AskedFor
<1>. QED BY <1>1, <1>6, <1>7, <1>8, <1>9 DEF CountInv

LEMMA ForgetCounts == ASSUME IInv, CountInv, Forget PROVE CountInv'
<1>. DEFINE t == NoEpisode(saved)
<1>1. /\ up /\ ~storageError /\ latch = None /\ Persist(t, "idle")
      /\ UNCHANGED helper /\ UNCHANGED <<up, latch, issued, episodeOf, incidents>>
  BY DEF Forget, At, RecoveryKeeps, latching, history
<1>2. t.history = saved.history /\ t.attempts = 0 /\ t.current = None
  BY DEF NoEpisode
<1>. HIDE DEF t
<1>3. /\ saved' = t /\ savedFile' \in {savedFile, t} /\ (savedFile' # t => storageError')
      /\ step' = Idle
  BY <1>1 DEF Persist, Going
<1>4. step'.at = "idle"
  BY <1>3 DEF Idle
<1>. QED BY <1>1, <1>2, <1>3, <1>4, RenewCounts

LEMMA TickCounts == ASSUME IInv, CountInv, Tick PROVE CountInv'
<1>. DEFINE t == OfEpisode(latch.incident)
            waiting == [Idle EXCEPT !.at = "gate", !.key = latch.incident]
<1>1. /\ up /\ ~storageError /\ latch # None
      /\ UNCHANGED helper /\ UNCHANGED <<up, latch, issued, episodeOf, incidents>>
  BY DEF Tick, At, RecoveryKeeps, latching, history
<1>2. CASE t = saved
  <2>1. UNCHANGED <<saved, savedFile, storageError>>
    BY <1>2 DEF Tick, saving
  <2>. QED BY <1>1, <2>1, QuietCounts
<1>3. CASE t # saved
  <2>1. /\ saved' = t
        /\ \/ savedFile' = t /\ UNCHANGED storageError
           \/ savedFile' \in {savedFile, t} /\ storageError' = TRUE /\ step' = Idle
    BY <1>3 DEF Tick
  <2>2. /\ saved.episode # latch.incident
        /\ t = [NoEpisode(saved) EXCEPT !.episode = latch.incident]
    BY <1>3 DEF OfEpisode
  <2>3. /\ t.history = saved.history /\ t.attempts = 0 /\ t.current = None
        /\ t.episode = latch.incident
    BY <2>2 DEF NoEpisode
  <2>. HIDE DEF t
  <2>4. savedFile' \in {savedFile, t} /\ (savedFile' # t => storageError')
        /\ (step'.at # "idle" => ~storageError')
    BY <1>1, <2>1 DEF Idle
  <2>. QED BY <1>1, <2>1, <2>2, <2>3, <2>4, RenewCounts
<1>. QED BY <1>2, <1>3

(* No operation was drawn for an incident that did not happen before. *)
LEMMA IncidentCounts == ASSUME IInv, CountInv, Incident PROVE CountInv'
<1>1. /\ up /\ step.at = "idle" /\ latch = None /\ incidents' = incidents + 1
      /\ latch' = [incident |-> incidents', since |-> incarnation]
      /\ UNCHANGED helper /\ UNCHANGED <<up, saved, savedFile, storageError, step, issued,
                                         episodeOf>>
  BY DEF Incident, saving
<1>2. Asked' = Asked /\ aged' = aged /\ Asked \subseteq Operations
  BY <1>1, AskedTypes DEF helper, Asked, ServingId, Invoked, IInv
<1>3. incidents \in Nat /\ episodeOf \in [Operations -> Nat]
      /\ \A id \in Operations : episodeOf[id] <= incidents
  BY DEF IInv, ControlInv, ControlTypeOK, CountInv
<1>4. latch'.incident = incidents + 1
  BY <1>1
<1>5. {id \in Asked' : episodeOf'[id] = latch'.incident} = {}
  BY <1>1, <1>2, <1>3, <1>4
<1>6. /\ saved.episode \in Nat /\ saved.episode <= incidents
      /\ savedFile.episode \in Nat /\ savedFile.episode <= incidents
      /\ MemoryCounts(saved) /\ MemoryCounts(savedFile)
  BY DEF IInv, ControlInv, MemoryTrue, Memories, CountInv
<1>7. MemoryCounts(saved)' /\ MemoryCounts(savedFile)'
  <2>1. saved'.episode # latch'.incident /\ savedFile'.episode # latch'.incident
    BY <1>1, <1>3, <1>4, <1>6
  <2>. QED BY <1>1, <1>2, <1>5, <1>6, <2>1 DEF MemoryCounts, OperationOf, AskedFor
<1>8. CountsFiled'
  BY <1>1 DEF CountInv, CountsFiled, OperationOf
<1>9. \A n \in Nat : AskedFor(n)' = AskedFor(n)
  BY <1>1, <1>2 DEF AskedFor
<1>10. \A id \in Operations : episodeOf'[id] <= incidents'
  BY <1>1, <1>3
<1>. QED BY <1>1, <1>2, <1>7, <1>8, <1>9, <1>10 DEF CountInv

(* A new operation is counted, in the window and for the incident, before  *)
(* it is asked for.                                                        *)
LEMMA DecideCounts == ASSUME IInv, CountInv, Decide PROVE CountInv'
<1>. DEFINE i == issued + 1
            c == Current(issued', step.before, None, "pending")
            s == [saved EXCEPT !.current = c, !.attempts = @ + 1,
                               !.history = Recent \cup {issued'}]
<1>1. /\ up /\ ~storageError /\ step.at = "adopt" /\ issued' = i
      /\ issued < MaxOperations
      /\ saved.attempts < MaxRestarts /\ Cardinality(Recent) < MaxRestarts
      /\ episodeOf' = [episodeOf EXCEPT ![issued'] = step.key]
      /\ UNCHANGED helper /\ UNCHANGED <<up, latch, incidents>>
      /\ Persist(s, "check")
  BY AtFacts DEF Decide, At, latching
<1>2. /\ saved \in Memories /\ issued \in Nat /\ issued \in 0..MaxOperations
      /\ episodeOf \in [Operations -> Nat] /\ incidents \in Nat
      /\ latch # None /\ latch.incident = step.key /\ saved.episode = step.key
      /\ step.key \in Nat /\ latch.incident <= incidents
  BY <1>1 DEF IInv, ControlInv, ControlTypeOK, TickIsCurrent, MemoryTrue
<1>3. i \in Operations /\ i \in Nat \ {0}
  BY <1>1, <1>2, ConstantFacts
<1>4. /\ s.current.id = i /\ s.current # None /\ s.episode = saved.episode
      /\ s.attempts = saved.attempts + 1 /\ s.history = Recent \cup {i}
  <2>1. s.current = c /\ c.id = i
    BY <1>1, <1>2 DEF Memories, Current
  <2>2. c # None
    <3>1. /\ latch.since \in Nat \ {0} /\ step.before \in Nat /\ step.before >= latch.since
          /\ i \in 0..MaxOperations /\ 0 \in 0..StableSamples
      BY <1>1, <1>2, <1>3, ConstantFacts
         DEF IInv, ControlInv, ControlTypeOK, TickIsCurrent, Latches, Incarnations
    <3>2. step.before \in Incarnations
      BY <3>1 DEF Incarnations
    <3>3. c \in Currents
      BY <1>1, <3>1, <3>2 DEF Current, Currents, Phases
    <3>. QED BY <3>3, ConstantFacts
  <2>. QED BY <1>1, <1>2, <2>1, <2>2 DEF Memories
<1>. HIDE DEF s, c
<1>5. /\ saved' = s /\ savedFile' \in {savedFile, s} /\ (savedFile' # s => storageError')
      /\ (step'.at # "idle" => ~storageError')
  BY <1>1 DEF Persist, Idle
<1>6. Asked' = Asked /\ aged' = aged /\ Asked \subseteq Operations /\ Asked \subseteq 1..issued
  BY <1>1, AskedTypes DEF helper, Asked, ServingId, Invoked, IInv, CountInv
<1>7. /\ i \notin Asked
      /\ \A id \in Operations : episodeOf'[id] = IF id = i THEN step.key ELSE episodeOf[id]
  BY <1>1, <1>2, <1>3, <1>6
<1>8. \A n \in Nat : AskedFor(n)' = AskedFor(n)
  BY <1>6, <1>7 DEF AskedFor
<1>9. MemoryCounts(saved) /\ MemoryCounts(savedFile) /\ OperationOf(s) = {i}
  BY <1>3, <1>4 DEF CountInv, OperationOf
<1>10. {id \in Asked' : episodeOf'[id] = latch'.incident} = AskedFor(latch.incident)
  BY <1>1, <1>6, <1>7 DEF AskedFor
<1>11. \A m \in {s} : MemoryCounts(m)'
  <2>1. Recent \subseteq Operations /\ Recent \cup {i} \subseteq Operations
    BY <1>2, <1>3 DEF Recent, Memories
  <2>2. Cardinality(s.history \ aged') <= MaxRestarts
    <3>1. /\ Cardinality(Recent \cup {i}) <= Cardinality(Recent) + 1
          /\ Cardinality(Recent) \in Nat /\ Cardinality(Recent \cup {i}) \in Nat
      BY <1>3, <2>1, AtMostOneMore
    <3>2. s.history \ aged' \subseteq Recent \cup {i}
      BY <1>4
    <3>3. /\ Cardinality(s.history \ aged') <= Cardinality(Recent \cup {i})
          /\ Cardinality(s.history \ aged') \in Nat
      BY <2>1, <3>2, Fewer
    <3>4. Cardinality(Recent) < MaxRestarts /\ MaxRestarts \in Nat
      BY <1>1, ConstantFacts
    <3>. QED BY <3>1, <3>3, <3>4
  <2>3. Asked' \cup OperationOf(s) \subseteq s.history \cup aged'
    BY <1>4, <1>6, <1>9 DEF MemoryCounts, Recent
  <2>4. \A id \in OperationOf(s) : id <= issued' /\ episodeOf'[id] = s.episode
    BY <1>1, <1>2, <1>3, <1>4, <1>7, <1>9
  <2>5. Cardinality(AskedFor(latch.incident) \cup {i}) <= s.attempts
    <3>. DEFINE A == AskedFor(latch.incident)
                B == A \cup OperationOf(saved)
    <3>1. B \subseteq Operations /\ A \subseteq B
      <4>1. OperationOf(saved) \subseteq Operations
        BY <1>2 DEF OperationOf, Memories, Currents, Operations
      <4>. QED BY <1>6, <4>1 DEF AskedFor
    <3>2. Cardinality(B) <= saved.attempts
      BY <1>2, <1>9 DEF MemoryCounts
    <3>. HIDE DEF A, B
    <3>3. Cardinality(A) <= Cardinality(B) /\ Cardinality(A) \in Nat /\ Cardinality(B) \in Nat
      BY <3>1, Fewer
    <3>4. Cardinality(A \cup {i}) <= Cardinality(A) + 1 /\ Cardinality(A \cup {i}) \in Nat
      BY <1>3, <3>1, AtMostOneMore
    <3>5. saved.attempts \in Nat
      BY <1>2, ConstantFacts DEF Memories
    <3>6. Cardinality(A \cup {i}) <= s.attempts
      BY <1>4, <3>2, <3>3, <3>4, <3>5
    <3>. QED BY <3>6 DEF A
  <2>6. /\ s.episode = latch'.incident /\ s.history \subseteq Operations
        /\ {id \in Asked' : episodeOf'[id] = s.episode} = AskedFor(latch.incident)
    BY <1>1, <1>2, <1>4, <1>10, <2>1
  <2>. QED BY <1>9, <2>2, <2>3, <2>4, <2>5, <2>6 DEF MemoryCounts, AskedFor
<1>12. MemoryCounts(saved)'
  BY <1>5, <1>11 DEF MemoryCounts, OperationOf
<1>13. MemoryCounts(savedFile)'
  <2>1. CASE savedFile' = s
    BY <1>11, <2>1 DEF MemoryCounts, OperationOf
  <2>2. CASE savedFile' = savedFile
    <3>1. OperationOf(savedFile) \subseteq Operations
      BY DEF OperationOf, IInv, ControlInv, MemoryTrue, Memories, Currents, Operations
    <3>2. \A id \in OperationOf(savedFile) : id <= issued' /\ episodeOf'[id] = savedFile.episode
      <4>1. \A id \in OperationOf(savedFile) : id <= issued /\ id \in Nat
                                               /\ episodeOf[id] = savedFile.episode
        BY <1>9, <3>1, ConstantFacts DEF MemoryCounts
      <4>. QED BY <1>1, <1>2, <1>7, <3>1, <4>1
    <3>3. OperationOf(savedFile)' = OperationOf(savedFile)
      BY <2>2 DEF OperationOf
    <3>4. AskedFor(savedFile.episode)' = AskedFor(savedFile.episode)
      BY <2>2, <1>6, <1>7 DEF AskedFor
    <3>. QED BY <1>1, <1>6, <1>9, <1>10, <2>2, <3>2, <3>3, <3>4 DEF MemoryCounts, AskedFor
  <2>. QED BY <1>5, <2>1, <2>2
<1>14. CountsFiled'
  BY <1>5 DEF CountsFiled, OperationOf
<1>15. \A id \in Operations : episodeOf'[id] <= incidents'
  BY <1>1, <1>2, <1>7 DEF CountInv
<1>16. Asked' \subseteq 1..issued'
  BY <1>1, <1>2, <1>6
<1>. QED BY <1>8, <1>12, <1>13, <1>14, <1>15, <1>16 DEF CountInv

(* What is asked for was counted before, in the memory and in the file. *)
LEMMA CheckCounts == ASSUME IInv, CountInv, Check PROVE CountInv'
<1>1. /\ up /\ ~storageError /\ step.at = "check"
      /\ UNCHANGED <<saved, savedFile, storageError, serving, invoked, aged, up, latch, issued,
                     episodeOf, incidents>>
  BY AtFacts DEF Check, At, saving, RecoveryKeeps, latching, history
<1>2. CASE UNCHANGED wire
  BY <1>1, <1>2, QuietCounts
<1>3. CASE wire' = wire \cup {[id |-> saved.current.id, before |-> saved.current.before,
                               live |-> TRUE]}
  <2>a. /\ latch # None /\ latch.incident = saved.episode /\ saved.current # None
        /\ saved.current.id # 0 /\ saved.episode \in Nat
        /\ saved \in Memories /\ saved.current \in Currents
    BY <1>1 DEF IInv, ControlInv, TickIsCurrent, MemoryTrue, Memories
  <2>p. PICK n0 \in Nat : n0 = saved.episode
    BY <2>a
  <2>q. PICK i \in Operations : i = saved.current.id
    BY <2>a DEF Currents, Operations
  <2>1. latch # None /\ latch.incident = n0 /\ saved \in Memories
    BY <2>a, <2>p
  <2>2. i \in Operations /\ OperationOf(saved) = {i}
    BY <2>a, <2>q, ConstantFacts DEF OperationOf
  <2>3. /\ savedFile.episode = n0 /\ OperationOf(savedFile) = {i}
        /\ MemoryCounts(saved) /\ MemoryCounts(savedFile)
    BY <1>1, <2>2, <2>p DEF CountInv, CountsFiled
  <2>4. Asked' = Asked \cup {i} /\ Asked \subseteq Operations
    <3>. DEFINE r == [id |-> saved.current.id, before |-> saved.current.before, live |-> TRUE]
    <3>a. r.id = i /\ wire' = wire \cup {r}
      BY <1>3, <2>q
    <3>. HIDE DEF r
    <3>1. {w.id : w \in wire'} = {w.id : w \in wire} \cup {i}
      BY <3>a
    <3>2. ServingId' = ServingId /\ Invoked' = Invoked
      BY <1>1 DEF ServingId, Invoked
    <3>. QED BY <3>1, <3>2, AskedTypes DEF Asked, IInv
  <2>5. i <= issued /\ episodeOf[i] = n0 /\ issued \in Nat
    BY <2>2, <2>3, <2>p DEF MemoryCounts, IInv, ControlInv, ControlTypeOK
  <2>6. AskedFor(n0)' = AskedFor(n0) \cup {i}
    BY <1>1, <2>4, <2>5 DEF AskedFor
  <2>7. \A n \in Nat : n # n0 => AskedFor(n)' = AskedFor(n)
    BY <1>1, <2>4, <2>5 DEF AskedFor
  <2>8. Cardinality(AskedFor(n0) \cup {i}) <= saved.attempts
    BY <2>1, <2>2, <2>3, <2>p DEF MemoryCounts
  <2>9. saved.attempts <= MaxRestarts /\ saved.attempts \in Nat
    BY <2>1, ConstantFacts DEF Memories
  <2>10. Cardinality(AskedFor(n0)') <= MaxRestarts
    <3>1. AskedFor(n0) \cup {i} \subseteq Operations
      BY <2>2, <2>4 DEF AskedFor
    <3>2. Cardinality(AskedFor(n0) \cup {i}) \in Nat
      BY <3>1, OperationsFinite
    <3>. QED BY <2>6, <2>8, <2>9, <3>2, ConstantFacts
  <2>11. \A n \in Nat : Cardinality(AskedFor(n)') <= MaxRestarts
    <3>. SUFFICES ASSUME NEW n \in Nat PROVE Cardinality(AskedFor(n)') <= MaxRestarts
      OBVIOUS
    <3>1. CASE n = n0
      BY <2>10, <3>1
    <3>2. CASE n # n0
      <4>1. AskedFor(n)' = AskedFor(n)
        BY <2>7, <3>2
      <4>. QED BY <4>1 DEF CountInv
    <3>. QED BY <3>1, <3>2
  <2>12. \A m \in {saved, savedFile} :
           /\ m.episode = n0 /\ OperationOf(m) = {i} /\ MemoryCounts(m)
    BY <2>2, <2>3, <2>p
  <2>13. ASSUME NEW m \in {saved, savedFile} PROVE MemoryCounts(m)'
    <3>1. m' = m
      BY <1>1
    <3>2. /\ m.episode = n0 /\ OperationOf(m) = {i} /\ OperationOf(m)' = {i}
          /\ MemoryCounts(m)
      BY <2>12, <3>1 DEF OperationOf
    <3>3. Asked' \cup OperationOf(m)' \subseteq m.history \cup aged
      BY <2>4, <3>2 DEF MemoryCounts
    <3>4. Cardinality(AskedFor(n0)' \cup {i}) <= m.attempts
      <4>1. AskedFor(n0)' \cup {i} = AskedFor(n0) \cup {i}
        BY <2>6
      <4>2. Cardinality(AskedFor(n0) \cup {i}) <= m.attempts
        BY <2>1, <3>2 DEF MemoryCounts
      <4>. QED BY <4>1, <4>2
    <3>5. /\ m.history \subseteq Operations /\ Cardinality(m.history \ aged) <= MaxRestarts
      BY <3>2 DEF MemoryCounts
    <3>6. latch' # None /\ m.episode = latch'.incident /\ latch'.incident = n0
      BY <1>1, <2>1, <3>2
    <3>7. \A id \in {i} : id <= issued' /\ episodeOf'[id] = n0
      BY <1>1, <2>5
    <3>8. Cardinality(AskedFor(m.episode)' \cup OperationOf(m)') <= m.attempts
      <4>1. AskedFor(m.episode)' = AskedFor(n0)'
        BY <3>2 DEF AskedFor
      <4>. QED BY <3>2, <3>4, <4>1
    <3>9. \A id \in OperationOf(m)' : id <= issued' /\ episodeOf'[id] = m.episode
      BY <3>2, <3>7
    <3>. QED BY <1>1, <3>3, <3>5, <3>6, <3>8, <3>9 DEF MemoryCounts
  <2>14. MemoryCounts(saved)' /\ MemoryCounts(savedFile)'
    BY <1>1, <2>13 DEF MemoryCounts, OperationOf
  <2>15. CountsFiled'
    BY <1>1 DEF CountInv, CountsFiled, OperationOf
  <2>16. Asked' \subseteq 1..issued'
    BY <1>1, <2>2, <2>4, <2>5, ConstantFacts DEF CountInv, Operations
  <2>. QED BY <1>1, <2>11, <2>14, <2>15, <2>16 DEF CountInv
<1>. QED BY <1>2, <1>3 DEF Check

LEMMA CountsInitially == Init => HostCounts /\ CountInv
<1>. SUFFICES ASSUME Init PROVE HostCounts /\ CountInv
  OBVIOUS
<1>1. /\ serving = None /\ wire = {} /\ aged = {} /\ journalFile = journal
      /\ journal = [id \in Operations |-> None] /\ invoked = [id \in Operations |-> 0]
      /\ latch = None /\ savedFile = saved /\ storageError = FALSE /\ step = Idle
      /\ saved = [episode |-> 0, attempts |-> 0, failedAfter |-> 0, current |-> None,
                  history |-> {}]
      /\ episodeOf = [id \in Operations |-> 0] /\ incidents = 0
  BY DEF Init, HelperInit
<1>2. Asked = {} /\ Invoked = {} /\ ServingId = {}
  BY <1>1 DEF Asked, Invoked, ServingId
<1>3. Marked(journal) = {} /\ Marked(journalFile) = {}
  BY <1>1 DEF Marked
<1>4. Cardinality({}) = 0 /\ HostLimit \in Nat /\ MaxRestarts \in Nat
  BY FS_EmptySet, HelperAssumption, ConstantFacts
<1>5. HostCounts
  <2>1. Marked(journal) \ aged = {}
    BY <1>3
  <2>. QED BY <1>2, <1>3, <1>4, <2>1 DEF HostCounts
<1>6. saved.history = {} /\ saved.current = None /\ OperationOf(saved) = {}
  BY <1>1 DEF OperationOf
<1>7. MemoryCounts(saved)
  <2>1. saved.history \ aged = {}
    BY <1>6
  <2>. QED BY <1>1, <1>2, <1>4, <1>6, <2>1 DEF MemoryCounts
<1>8. \A n \in Nat : AskedFor(n) = {}
  BY <1>2 DEF AskedFor
<1>9. CountsFiled
  BY <1>1 DEF CountsFiled, Idle
<1>10. \A id \in Operations : episodeOf[id] <= incidents
  BY <1>1
<1>. QED BY <1>1, <1>2, <1>4, <1>5, <1>7, <1>8, <1>9, <1>10 DEF CountInv

LEMMA CountStep ==
  ASSUME IInv, CountInv, [Next]_vars
  PROVE  CountInv'
<1>1. CASE UNCHANGED vars
  <2>1. /\ UNCHANGED <<up, latch, saved, savedFile, storageError, step, issued, episodeOf,
                       incidents>>
        /\ UNCHANGED helper
    BY <1>1 DEF vars, latching, saving, history
  <2>. QED BY <2>1, QuietCounts
<1>. QED BY <1>1, HelperStepCounts, IncidentCounts, OperatorCounts, ForgetCounts, TickCounts,
       EnterCounts, WaitingCounts, AdoptCounts, DecideCounts, CheckCounts, AnsweredCounts,
       NoAnswerCounts, GetCounts, SampleCounts, ExpireCounts, UnprovenCounts, RecoverCounts,
       CrashCounts, RestartCounts
     DEF Next

LEMMA CountsAlways == Spec => [](IInv /\ HostCounts /\ CountInv)
<1>1. Init => IInv /\ HostCounts /\ CountInv
  BY Initially, CountsInitially
<1>2. IInv /\ HostCounts /\ CountInv /\ [Next]_vars => (IInv /\ HostCounts /\ CountInv)'
  BY Inductive, HostStep, CountStep DEF IInv, ControlInv
<1>. QED BY <1>1, <1>2, PTL DEF Spec

(* The service is restarted at most max_restarts times for an incident and *)
(* within the window, and no more often within it than the helper allows,  *)
(* whatever was lost, answered late or forgotten in a crash.               *)
THEOREM RestartsAreLimited == Spec => []RestartsLimited
<1>1. IInv /\ HostCounts /\ CountInv => RestartsLimited
  <2>. SUFFICES ASSUME IInv, HostCounts, CountInv PROVE RestartsLimited
    OBVIOUS
  <2>1. /\ Asked \subseteq Operations /\ Invoked \subseteq Asked
        /\ MaxRestarts \in Nat /\ HostLimit \in Nat
    BY AskedTypes, ConstantFacts, HelperAssumption DEF IInv
  <2>2. ASSUME NEW n \in 1..incidents
        PROVE  Cardinality({id \in Invoked : episodeOf[id] = n}) <= MaxRestarts
    <3>1. {id \in Invoked : episodeOf[id] = n} \subseteq AskedFor(n)
          /\ AskedFor(n) \subseteq Operations
      BY <2>1 DEF AskedFor
    <3>2. n \in Nat
      BY DEF IInv, ControlInv, ControlTypeOK
    <3>3. Cardinality(AskedFor(n)) <= MaxRestarts
      BY <3>2 DEF CountInv
    <3>4. /\ Cardinality({id \in Invoked : episodeOf[id] = n}) <= Cardinality(AskedFor(n))
          /\ Cardinality({id \in Invoked : episodeOf[id] = n}) \in Nat
          /\ Cardinality(AskedFor(n)) \in Nat
      BY <3>1, Fewer
    <3>. QED BY <2>1, <3>3, <3>4
  <2>3. Cardinality(Invoked \ aged) <= MaxRestarts
    <3>1. Invoked \ aged \subseteq saved.history \ aged
          /\ saved.history \ aged \subseteq Operations
          /\ Cardinality(saved.history \ aged) <= MaxRestarts
      BY <2>1 DEF CountInv, MemoryCounts
    <3>2. /\ Cardinality(Invoked \ aged) <= Cardinality(saved.history \ aged)
          /\ Cardinality(Invoked \ aged) \in Nat /\ Cardinality(saved.history \ aged) \in Nat
      BY <3>1, Fewer
    <3>. QED BY <2>1, <3>1, <3>2
  <2>4. Cardinality(Invoked \ aged) <= HostLimit
    <3>1. Invoked \ aged \subseteq Marked(journal) \ aged
          /\ Marked(journal) \ aged \subseteq Operations
          /\ Cardinality(Marked(journal) \ aged) <= HostLimit
      BY DEF HostCounts, Marked
    <3>2. /\ Cardinality(Invoked \ aged) <= Cardinality(Marked(journal) \ aged)
          /\ Cardinality(Invoked \ aged) \in Nat
          /\ Cardinality(Marked(journal) \ aged) \in Nat
      BY <3>1, Fewer
    <3>. QED BY <2>1, <3>1, <3>2
  <2>. QED BY <2>2, <2>3, <2>4 DEF RestartsLimited
<1>. QED BY <1>1, CountsAlways, PTL
==============================================================================
