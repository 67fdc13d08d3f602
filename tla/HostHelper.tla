------------------------------ MODULE HostHelper ------------------------------
(***************************************************************************)
(* The host helper of src/integrations/host/host_helper.py, which restarts *)
(* the Ollama service for the intermediary, and the service it restarts.   *)
(*                                                                         *)
(* The helper serves one connection at a time. A restart is written to its *)
(* journal before systemctl is called, and once more with its outcome; an  *)
(* operation that is in the journal is never dispatched again, whatever    *)
(* became of its answer. The samples of the GPU and of the processes are   *)
(* possible outcomes, and time is the set of operations whose dispatch has *)
(* left the restart window.                                                *)
(***************************************************************************)
EXTENDS Naturals, FiniteSets

CONSTANTS
  None,           \* null
  MaxOperations,  \* bound: operation ids the intermediary draws
  HostLimit,      \* MAX_RESTARTS: dispatches in a WINDOW
  MaxFaults       \* bound: failing file operations, replacements of the service
                  \* by others

Operations == 1..MaxOperations

Incarnations == Nat \ {0}

Entries ==
  [state : {"uncertain", "failed", "completed"}, before : Incarnations,
   after : Incarnations \cup {None}, dispatched : BOOLEAN]

Requests == [id : Operations, before : Incarnations, live : BOOLEAN]

Servings == [id : Operations, live : BOOLEAN, at : {"intent", "outcome"}]

Results ==
  [id : 0..MaxOperations, state : {"uncertain", "failed", "completed", "error"},
   before : Incarnations \cup {None}, after : Incarnations \cup {None},
   recheckable : BOOLEAN]

ASSUME HelperAssumption ==
  /\ {MaxOperations, HostLimit, MaxFaults} \subseteq Nat
  /\ None \notin Nat \cup Entries \cup Servings \cup Results

VARIABLES
  incarnation,  \* the service's InvocationID: how often it was started
  journal,      \* Journal.data.operations, None where an id is unknown
  journalFile,  \* what of it is on disk
  broken,       \* Journal.error
  serving,      \* the restart under way: which one, and up to where
  wire,         \* restart requests sent and not yet read
  answer,       \* on the connection the intermediary still reads, or None
  invoked,      \* how often systemctl was called for each operation
  aged,         \* operations dispatched longer than WINDOW ago
  faults

journals == <<journal, journalFile, broken>>
helper == <<incarnation, journals, serving, wire, answer, invoked, aged>>

------------------------------------------------------------------------------
Fault == faults < MaxFaults /\ faults' = faults + 1

Entry(state, before, after, dispatched) ==
  [state |-> state, before |-> before, after |-> after, dispatched |-> dispatched]

(* Journal.save() has written and renamed; or it fails, before the rename  *)
(* or after it, and the helper refuses everything until it is started anew.*)
Saves(j) ==
  /\ journal' = j /\ journalFile' = j
  /\ UNCHANGED <<broken, faults>>

SaveFails(j) ==
  /\ Fault
  /\ journal' = j /\ journalFile' \in {journalFile, j}
  /\ broken' = TRUE

(* public_result(), on the connection the request came from.               *)
Result(id, e) ==
  [id |-> id, state |-> e.state, before |-> e.before, after |-> e.after,
   recheckable |-> e.dispatched]

Error == Result(0, Entry("error", None, None, FALSE))

Reply(live, r) == answer' = IF live THEN r ELSE answer

(* verify_replacement(): another incarnation runs, the old processes are   *)
(* gone and the GPU is idle.                                               *)
Replaced(before) == incarnation # before

(* reconcile(): what may become of an entry that is looked at again.       *)
Reconciled(e) ==
  {e} \cup (IF e.state = "uncertain" /\ e.dispatched /\ Replaced(e.before)
            THEN {Entry("completed", e.before, incarnation, TRUE)} ELSE {})

(* policy(): dispatches that are not older than the window.                *)
Dispatched(j) == {id \in Operations \ aged : j[id] # None /\ j[id].dispatched}

Available == Cardinality(Dispatched(journal)) < HostLimit

------------------------------------------------------------------------------
(* restart() *)

(* An id the journal knows: its entry is reconciled, nothing is dispatched.*)
Replay(w) ==
  /\ journal[w.id] # None
  /\ \E e \in Reconciled(journal[w.id]) :
       LET j == [journal EXCEPT ![w.id] = e] IN
       \/ Saves(j) /\ Reply(w.live, Result(w.id, e))
       \/ SaveFails(j) /\ Reply(w.live, Error)
  /\ UNCHANGED serving

(* Policy, identity, kill mode or GPU forbid it; that is written, too.     *)
Refuse(w) ==
  /\ journal[w.id] = None
  /\ LET e == Entry("failed", w.before, None, FALSE)
         j == [journal EXCEPT ![w.id] = e]
     IN \/ Saves(j) /\ Reply(w.live, Result(w.id, e))
        \/ SaveFails(j) /\ Reply(w.live, Error)
  /\ UNCHANGED serving

(* Faulty: the intent is noted and written with the outcome.               *)
NoteIntent(w) ==
  /\ journal[w.id] = None /\ Available /\ incarnation = w.before
  /\ journal' = [journal EXCEPT ![w.id] = Entry("uncertain", w.before, None, TRUE)]
  /\ serving' = [id |-> w.id, live |-> w.live, at |-> "intent"]
  /\ UNCHANGED <<journalFile, broken, faults, answer>>

(* Everything allows it: the intent becomes durable.                       *)
Intend(w) ==
  /\ journal[w.id] = None /\ Available /\ incarnation = w.before
  /\ LET j == [journal EXCEPT ![w.id] = Entry("uncertain", w.before, None, TRUE)]
     IN \/ /\ Saves(j)
           /\ serving' = [id |-> w.id, live |-> w.live, at |-> "intent"]
           /\ UNCHANGED answer
        \/ SaveFails(j) /\ Reply(w.live, Error) /\ UNCHANGED serving

(* The helper reads a request, which may be one its sender has given up.   *)
Deliver(w) ==
  /\ serving = None
  /\ wire' = wire \ {w}
  /\ \/ broken /\ Reply(w.live, Error) /\ UNCHANGED <<journals, serving, faults>>
     \/ ~broken /\ (Replay(w) \/ Refuse(w) \/ Intend(w))
  /\ UNCHANGED <<incarnation, invoked, aged>>

(* systemctl restart: it may fail, with or without a restart.              *)
Invoke ==
  /\ serving # None /\ serving.at = "intent"
  /\ invoked' = [invoked EXCEPT ![serving.id] = @ + 1]
  /\ incarnation' \in {incarnation, incarnation + 1}
  /\ serving' = [serving EXCEPT !.at = "outcome"]
  /\ UNCHANGED <<journals, wire, answer, aged, faults>>

(* The outcome is reconciled, written and reported.                        *)
Report ==
  /\ serving # None /\ serving.at = "outcome"
  /\ \E e \in Reconciled(journal[serving.id]) :
       LET j == [journal EXCEPT ![serving.id] = e] IN
       \/ Saves(j) /\ Reply(serving.live, Result(serving.id, e))
       \/ SaveFails(j) /\ Reply(serving.live, Error)
  /\ serving' = None
  /\ UNCHANGED <<incarnation, wire, invoked, aged>>

------------------------------------------------------------------------------
(* The helper dies and systemd starts it again. Connections are closed.    *)
HelperRestarts ==
  /\ Fault
  /\ journal' = journalFile /\ broken' = FALSE
  /\ serving' = None /\ wire' = {}
  /\ UNCHANGED <<incarnation, journalFile, answer, invoked, aged>>

(* Somebody else, or a crash, replaces the service (external).             *)
ServiceReplaced ==
  /\ Fault
  /\ incarnation' = incarnation + 1
  /\ UNCHANGED <<journals, serving, wire, answer, invoked, aged>>

(* A dispatch, the oldest first, leaves the window.                        *)
Age(id) ==
  /\ id \notin aged /\ invoked[id] > 0
  /\ \A o \in 1..(id - 1) : invoked[o] > 0 => o \in aged
  /\ aged' = aged \cup {id}
  /\ UNCHANGED <<incarnation, journals, serving, wire, answer, invoked, faults>>

HelperInit ==
  /\ incarnation = 1
  /\ journal = [id \in Operations |-> None] /\ journalFile = journal
  /\ broken = FALSE /\ serving = None
  /\ wire = {} /\ answer = None
  /\ invoked = [id \in Operations |-> 0]
  /\ aged = {} /\ faults = 0

HelperNext ==
  \/ \E w \in wire : Deliver(w)
  \/ Invoke \/ Report
  \/ HelperRestarts \/ ServiceReplaced
  \/ \E id \in Operations : Age(id)

HelperTypeOK ==
  /\ incarnation \in Incarnations
  /\ {journal, journalFile} \subseteq [Operations -> Entries \cup {None}]
  /\ broken \in BOOLEAN
  /\ serving \in Servings \cup {None}
  /\ wire \subseteq Requests
  /\ answer \in Results \cup {None}
  /\ invoked \in [Operations -> Nat] /\ aged \subseteq Operations
  /\ faults \in 0..MaxFaults
==============================================================================
