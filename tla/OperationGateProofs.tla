------------------------- MODULE OperationGateProofs -------------------------
(***************************************************************************)
(* Proofs about OperationGate, for any set of operations.                  *)
(***************************************************************************)
EXTENDS OperationGate, SequenceTheorems, TLAPS

GateInv == TypeOK /\ OneHolder

LEMMA RemoveAtType ==
  ASSUME NEW S, NEW queue \in Seq(S), NEW p \in 1..Len(queue)
  PROVE  RemoveAt(queue, p) \in Seq(S)
  <1>1. p - 1 \in Int /\ p + 1 \in Int /\ Len(queue) \in Nat
    BY LenProperties
  <1>2. \A i \in 1..Len(queue) : queue[i] \in S
    BY ElementOfSeq
  <1>3. SubSeq(queue, 1, p - 1) \in Seq(S)
    <2>1. \A i \in 1..(p - 1) : queue[i] \in S
      BY <1>1, <1>2
    <2>2. QED
      BY <1>1, <2>1, SubSeqProperties
  <1>4. SubSeq(queue, p + 1, Len(queue)) \in Seq(S)
    <2>1. \A i \in (p + 1)..Len(queue) : queue[i] \in S
      BY <1>1, <1>2
    <2>2. QED
      BY <1>1, <2>1, SubSeqProperties
  <1>5. QED
    BY <1>3, <1>4, ConcatProperties DEF RemoveAt

(* Serving a waiter when nobody holds the gate makes him the only holder.  *)
LEMMA ServeOne ==
  ASSUME NEW queue \in Seq(Operations), Serve(queue, {})
  PROVE  TypeOK' /\ OneHolder'
  <1>1. PICK i \in DOMAIN queue :
          /\ gateActive' = TRUE /\ gateKind' = KindOf[queue[i]]
          /\ holders' = {queue[i]} /\ waiters' = RemoveAt(queue, i)
    BY DEF Serve
  <1>2. i \in 1..Len(queue) /\ queue[i] \in Operations
    BY LenProperties, ElementOfSeq
  <1>3. KindOf[queue[i]] \in Kinds /\ KindOf[queue[i]] # None
    BY <1>2, OperationsAssumption
  <1>4. RemoveAt(queue, i) \in Seq(Operations)
    BY <1>2, RemoveAtType
  <1>5. QED
    BY <1>1, <1>2, <1>3, <1>4 DEF TypeOK, OneHolder

LEMMA GateStep ==
  ASSUME GateInv, [Next]_vars
  PROVE  GateInv'
  <1>1. ASSUME NEW op \in Operations, Acquire(op) PROVE GateInv'
    <2>1. Append(waiters, op) \in Seq(Operations)
      BY <1>1, AppendProperties DEF GateInv, TypeOK
    <2>2. CASE gateActive
      BY <1>1, <2>1, <2>2 DEF Acquire, GateInv, TypeOK, OneHolder
    <2>3. CASE ~gateActive
      BY <1>1, <2>1, <2>3, ServeOne DEF Acquire, GateInv, OneHolder
    <2>4. QED
      BY <2>2, <2>3
  <1>2. ASSUME NEW op \in Operations, Abandon(op) PROVE GateInv'
    <2>1. waiters' \in Seq(Operations)
      BY <1>2, RemoveAtType, LenProperties DEF Abandon, GateInv, TypeOK
    <2>2. QED
      BY <1>2, <2>1 DEF Abandon, GateInv, TypeOK, OneHolder
  <1>3. ASSUME NEW op \in Operations, Release(op) PROVE GateInv'
    <2>1. CASE op \notin holders
      BY <1>3, <2>1 DEF Release, GateInv, TypeOK, OneHolder, vars
    <2>2. CASE op \in holders
      <3>1. holders \ {op} = {}
        BY <2>2 DEF GateInv, OneHolder
      <3>2. CASE Serve(waiters, holders \ {op})
        BY <3>1, <3>2, ServeOne DEF GateInv, TypeOK
      <3>3. CASE ~Serve(waiters, holders \ {op})
        BY <1>3, <2>2, <3>1, <3>3 DEF Release, GateInv, TypeOK, OneHolder
      <3>4. QED
        BY <3>2, <3>3
    <2>3. QED
      BY <2>1, <2>2
  <1>4. CASE UNCHANGED vars
    BY <1>4 DEF GateInv, TypeOK, OneHolder, vars
  <1>5. QED
    BY <1>1, <1>2, <1>3, <1>4 DEF Next

(* However many operations compete and whenever they give up or release,   *)
(* the gate has at most one holder, and its fields say which kind.         *)
THEOREM Exclusion == Spec => []OneHolder
  <1>1. Init => GateInv
    BY OperationsAssumption, EmptySeq DEF Init, GateInv, TypeOK, OneHolder
  <1>2. GateInv /\ [Next]_vars => GateInv'
    BY GateStep
  <1>3. GateInv => OneHolder
    BY DEF GateInv
  <1>4. QED
    BY <1>1, <1>2, <1>3, PTL DEF Spec

LEMMA NoneForgottenStep ==
  ASSUME NoneForgotten, [Next]_vars
  PROVE  NoneForgotten'
  <1>1. ASSUME NEW op \in Operations, Acquire(op) PROVE NoneForgotten'
    BY <1>1 DEF Acquire, Serve, NoneForgotten
  <1>2. ASSUME NEW op \in Operations, Abandon(op) PROVE NoneForgotten'
    <2>1. gateActive' = gateActive /\ waiters # <<>>
      BY <1>2 DEF Abandon
    <2>2. QED
      BY <2>1 DEF NoneForgotten
  <1>3. ASSUME NEW op \in Operations, Release(op) PROVE NoneForgotten'
    BY <1>3 DEF Release, Serve, NoneForgotten, vars
  <1>4. QED
    BY <1>1, <1>2, <1>3 DEF Next, NoneForgotten, vars

(* A free gate has nobody waiting at it: no release or cancellation loses  *)
(* a wake-up.                                                              *)
THEOREM NoWaiterForgotten == Spec => []NoneForgotten
  <1>1. Init => NoneForgotten
    BY DEF Init, NoneForgotten
  <1>2. NoneForgotten /\ [Next]_vars => NoneForgotten'
    BY NoneForgottenStep
  <1>3. QED
    BY <1>1, <1>2, PTL DEF Spec
==============================================================================
