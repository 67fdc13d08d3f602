---------------------------- MODULE OperationGate ----------------------------
(***************************************************************************)
(* The operation gate of src/src/backend.js: inference, model management   *)
(* and GPU maintenance take turns at Ollama. acquire() returns a promise   *)
(* of a release function; dispatch() runs inside acquire() and release().  *)
(***************************************************************************)
EXTENDS Naturals, Sequences, SequencesExt

CONSTANTS
  Operations,   \* those who call acquire(), again and again
  KindOf,       \* the kind each one names
  None          \* null

Kinds == {"inference", "management", "maintenance"}

ASSUME OperationsAssumption ==
  /\ KindOf \in [Operations -> Kinds]
  /\ None \notin Kinds /\ None \notin Operations

VARIABLES
  gateActive,   \* OperationGate.active
  gateKind,     \* OperationGate.activeKind, or None
  waiters,      \* operations waiting, in order of arrival
  holders       \* operations with a release function they have not called

vars == <<gateActive, gateKind, waiters, holders>>

------------------------------------------------------------------------------
Waiting == Range(waiters)

Exclusive(op) == KindOf[op] \in {"maintenance", "management"}

(* Faulty: management and maintenance wait their turn.                     *)
IsFirst(queue, i) == i = 1

(* Whether the waiter at place i is the next to serve: the first exclusive *)
(* one or, without any, the first.                                         *)
IsNext(queue, i) ==
  IF \E j \in DOMAIN queue : Exclusive(queue[j])
  THEN Exclusive(queue[i]) /\ \A j \in 1..(i - 1) : ~Exclusive(queue[j])
  ELSE i = 1

(* Faulty: the waiter takes the place of its kind.                         *)
ServeUnnamed(queue, others) ==
  \E i \in DOMAIN queue :
    /\ IsNext(queue, i)
    /\ gateActive' = TRUE
    /\ gateKind' = queue[i]
    /\ waiters' = RemoveAt(queue, i)
    /\ holders' = others \cup {queue[i]}

(* dispatch() at a free gate with someone waiting.                         *)
Serve(queue, others) ==
  \E i \in DOMAIN queue :
    /\ IsNext(queue, i)
    /\ gateActive' = TRUE
    /\ gateKind' = KindOf[queue[i]]
    /\ waiters' = RemoveAt(queue, i)
    /\ holders' = others \cup {queue[i]}

(* acquire(): wait, and be served at once when the gate is free.           *)
Acquire(op) ==
  /\ op \notin Waiting \cup holders
  /\ \/ gateActive /\ waiters' = Append(waiters, op)
        /\ UNCHANGED <<gateActive, gateKind, holders>>
     \/ ~gateActive /\ Serve(Append(waiters, op), holders)

(* The waiter's signal aborts. Once served, its listener is gone.          *)
Abandon(op) ==
  /\ \E i \in DOMAIN waiters :
       waiters[i] = op /\ waiters' = RemoveAt(waiters, i)
  /\ UNCHANGED <<gateActive, gateKind, holders>>

(* Faulty: the next waiter is left waiting.                                *)
ReleaseSilently(op) ==
  /\ op \in holders
  /\ gateActive' = FALSE /\ gateKind' = None
  /\ holders' = holders \ {op}
  /\ UNCHANGED waiters

(* Faulty: a second call of a release function opens the gate again.       *)
ReleaseAgain(op) ==
  LET others == holders \ {op}
  IN  \/ Serve(waiters, others)
      \/ /\ waiters = <<>>
         /\ gateActive' = FALSE /\ gateKind' = None
         /\ holders' = others
         /\ UNCHANGED waiters

(* The release function: its first call serves the next waiter, every      *)
(* later one does nothing.                                                 *)
Release(op) ==
  LET others == holders \ {op}
  IN  \/ op \in holders /\ Serve(waiters, others)
      \/ /\ op \in holders /\ waiters = <<>>
         /\ gateActive' = FALSE /\ gateKind' = None
         /\ holders' = others
         /\ UNCHANGED waiters
      \/ op \notin holders /\ UNCHANGED vars

------------------------------------------------------------------------------
Init ==
  /\ gateActive = FALSE /\ gateKind = None
  /\ waiters = <<>> /\ holders = {}

Next == \E op \in Operations : Acquire(op) \/ Abandon(op) \/ Release(op)

Spec == Init /\ [][Next]_vars

(* Whoever got the gate releases it (every caller does so in a finally).   *)
FairSpec ==
  Spec /\ \A op \in Operations : WF_vars(op \in holders /\ Release(op))

------------------------------------------------------------------------------
(* Properties *)

TypeOK ==
  /\ gateActive \in BOOLEAN /\ gateKind \in Kinds \cup {None}
  /\ waiters \in Seq(Operations)
  /\ holders \in SUBSET Operations

(* Nobody works at Ollama beside the holder, however often and however     *)
(* late release functions are called, and the fields that the dispatch     *)
(* loop reads say who holds the gate.                                      *)
OneHolder ==
  /\ \A a, b \in holders : a = b
  /\ gateActive <=> holders # {}
  /\ gateKind = None <=> holders = {}
  /\ \A a \in holders : gateKind = KindOf[a]

(* The gate is never left free while somebody waits for it.                *)
NoneForgotten == waiters # <<>> => gateActive

(* Management and maintenance go before inference at every handover, and   *)
(* in order of arrival among themselves.                                   *)
ExclusiveFirst ==
  [][\A i \in DOMAIN waiters :
       waiters[i] \in holders' \ holders =>
         \A j \in DOMAIN waiters :
           Exclusive(waiters[j]) /\ (j < i \/ ~Exclusive(waiters[i]))
             => j = i]_vars

(* An operation that asks for exclusive use gets it, or gives up: a stream *)
(* of inference cannot keep it out (README, "API behavior").               *)
ExclusiveServed ==
  \A op \in Operations :
    op \in Waiting /\ Exclusive(op) ~> op \notin Waiting
==============================================================================
