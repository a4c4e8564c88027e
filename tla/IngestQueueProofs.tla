------------------------- MODULE IngestQueueProofs -------------------------
(***************************************************************************)
(* Proofs about IngestQueue, for any set of messages and of invocations,   *)
(* any batch size and receive limit, and any visibility timeout above what *)
(* an invocation may take to begin and then to run.                        *)
(***************************************************************************)
EXTENDS IngestQueue, TLAPS

-----------------------------------------------------------------------------
(* The inductive invariant *)

\* Nothing is leased, running or settled in the empty queue.
LEMMA InitIInv == Init => IInv
BY MaxReceiveCountIsPositive, TimeoutsAreOrdered
   DEF Init, IInv, TypeOK, LeaseInv, TimeLeft, BatchesDisjoint, LoopInv,
       NothingDroppedUnprocessed, SqsState

\* Receive is where leases start: the batch is visible, hence held by nobody,
\* and its lease is longer than the invocation takes to begin and to end.
LEMMA ReceiveIInv ==
  ASSUME IInv, NEW i \in Invocations, NEW B \in SUBSET Messages, Receive(i, B)
  PROVE  IInv'
<1> USE MaxReceiveCountIsPositive, TimeoutsAreOrdered DEF Receive
<1>1. \A j \in Invocations : batch[j] \cap B = {}
  BY DEF IInv, LeaseInv
<1>2. TypeOK'
  BY DEF IInv, TypeOK, SqsState
<1>3. LeaseInv'
  BY <1>1 DEF IInv, TypeOK, LeaseInv, TimeLeft, LoopInv, Busy
<1>4. BatchesDisjoint'
  BY <1>1 DEF IInv, TypeOK, BatchesDisjoint
<1>5. LoopInv'
  BY DEF IInv, TypeOK, LoopInv, Busy
<1>6. NothingDroppedUnprocessed'
  BY DEF IInv, TypeOK, NothingDroppedUnprocessed
<1> QED
  BY <1>2, <1>3, <1>4, <1>5, <1>6 DEF IInv

\* Start trades the rest of the wait for the time an invocation has.
LEMMA StartIInv ==
  ASSUME IInv, NEW i \in Invocations, Start(i)
  PROVE  IInv'
<1> USE TimeoutsAreOrdered DEF Start, queueVars
<1>1. TypeOK'
  BY DEF IInv, TypeOK
<1>2. LeaseInv'
  BY DEF IInv, TypeOK, LeaseInv, TimeLeft
<1>3. BatchesDisjoint' /\ LoopInv' /\ NothingDroppedUnprocessed'
  BY DEF IInv, BatchesDisjoint, LoopInv, NothingDroppedUnprocessed, Busy
<1> QED
  BY <1>1, <1>2, <1>3 DEF IInv

\* Respond is where messages are lost if at all: what it deletes has left the
\* loop (todo is empty) without being listed, hence was processed.
LEMMA RespondIInv ==
  ASSUME IInv, NEW i \in Invocations, Respond(i)
  PROVE  IInv'
<1> USE TimeoutsAreOrdered DEF Respond, Idle, Busy
<1>1. batch[i] \ failures[i] \subseteq applied
  BY DEF IInv, LoopInv
<1>2. TypeOK'
  BY DEF IInv, TypeOK, SqsState
<1>3. LeaseInv'
  BY DEF IInv, TypeOK, LeaseInv, TimeLeft, BatchesDisjoint
<1>4. BatchesDisjoint' /\ LoopInv'
  BY DEF IInv, TypeOK, BatchesDisjoint, LoopInv
<1>5. NothingDroppedUnprocessed'
  BY <1>1 DEF IInv, TypeOK, NothingDroppedUnprocessed
<1> QED
  BY <1>2, <1>3, <1>4, <1>5 DEF IInv

\* Tick shortens both clocks together, and only while the invocation's is not
\* yet zero: the lease stays the longer one.
LEMMA TickIInv ==
  ASSUME IInv, Tick
  PROVE  IInv'
<1> USE TimeoutsAreOrdered DEF Tick, Decrement, Busy
<1>1. TypeOK'
  BY DEF IInv, TypeOK, SqsState
<1>2. LeaseInv'
  BY DEF IInv, TypeOK, LeaseInv, TimeLeft, Busy
<1>3. BatchesDisjoint' /\ LoopInv' /\ NothingDroppedUnprocessed'
  BY DEF IInv, BatchesDisjoint, LoopInv, NothingDroppedUnprocessed
<1> QED
  BY <1>1, <1>2, <1>3 DEF IInv

\* The inductive step, action by action.
LEMMA NextIInv == IInv /\ [Next]_vars => IInv'
<1> SUFFICES ASSUME IInv, [Next]_vars PROVE IInv'
  OBVIOUS
<1> USE MaxReceiveCountIsPositive, TimeoutsAreOrdered
        DEF queueVars, invocationVars, Busy
<1>1. ASSUME NEW m \in Messages, Send(m) \/ Reappear(m) \/ DeadLetter(m) PROVE IInv'
  \* Reappear: LeaseInv keeps hidden[m] # 0 while any invocation holds m
  BY <1>1 DEF Send, Reappear, DeadLetter, IInv, TypeOK, SqsState, LeaseInv, TimeLeft,
              BatchesDisjoint, LoopInv, NothingDroppedUnprocessed
<1>2. ASSUME NEW i \in Invocations, NEW m \in Messages,
             RecordDone(i, m) \/ RecordFailed(i, m)
      PROVE  IInv'
  BY <1>2 DEF RecordDone, RecordFailed, IInv, TypeOK, SqsState, LeaseInv, TimeLeft,
              BatchesDisjoint, LoopInv, NothingDroppedUnprocessed
<1>3. ASSUME NEW i \in Invocations, Die(i) PROVE IInv'
  BY <1>3 DEF Die, Idle, IInv, TypeOK, SqsState, LeaseInv, TimeLeft, BatchesDisjoint,
              LoopInv, NothingDroppedUnprocessed
<1>4. CASE UNCHANGED vars
  BY <1>4 DEF vars, IInv, TypeOK, LeaseInv, TimeLeft, BatchesDisjoint, LoopInv,
              NothingDroppedUnprocessed
<1> QED
  BY <1>1, <1>2, <1>3, <1>4, ReceiveIInv, StartIInv, RespondIInv, TickIInv DEF Next

\* The invariant holds in every reachable state.
LEMMA SpecIInv == Spec => []IInv
BY InitIInv, NextIInv, PTL DEF Spec

-----------------------------------------------------------------------------
(* What follows from it *)

\* Every reachable state is of the declared type: receive counts and clocks
\* stay within their limits.
THEOREM TypeCorrect == Spec => []TypeOK
<1>1. IInv => TypeOK
  BY DEF IInv
<1> QED
  BY <1>1, SpecIInv, PTL

\* No message is ever worked on by two invocations, or received again while
\* one works on it: because the visibility timeout is above what an
\* invocation may take to begin and to run (core-stack.ts).
THEOREM LeasesAreExclusive == Spec => []LeaseExclusive
<1>1. IInv => LeaseExclusive
  BY DEF IInv, LeaseInv, BatchesDisjoint, LeaseExclusive
<1> QED
  BY <1>1, SpecIInv, PTL

\* The partial batch response never acknowledges a record the handler did not
\* process to the end, and the redrive policy takes none early.
THEOREM NothingIsDropped == Spec => []NothingDroppedUnprocessed
<1>1. IInv => NothingDroppedUnprocessed
  BY DEF IInv
<1> QED
  BY <1>1, SpecIInv, PTL

\* Only a lease lets anyone change a message, and settled messages have none.
THEOREM SettlingIsFinal == Spec => SettledForGood
<1>1. IInv /\ [Next]_vars =>
        [\A m \in Messages : sqs[m] \in {"deleted", "dead"} => sqs'[m] = sqs[m]]_vars
  <2> SUFFICES ASSUME IInv, Next, NEW m \in Messages, sqs[m] \in {"deleted", "dead"}
               PROVE  sqs'[m] = sqs[m]
    OBVIOUS
  <2>0. sqs \in [Messages -> SqsState]
    BY DEF IInv, TypeOK
  <2>1. ASSUME NEW k \in Messages, Send(k) \/ Reappear(k) \/ DeadLetter(k) PROVE sqs'[m] = sqs[m]
    BY <2>0, <2>1 DEF Send, Reappear, DeadLetter
  <2>2. ASSUME NEW i \in Invocations, NEW B \in SUBSET Messages, Receive(i, B) PROVE sqs'[m] = sqs[m]
    BY <2>2 DEF Receive
  <2>3. ASSUME NEW i \in Invocations, NEW k \in Messages, RecordDone(i, k) \/ RecordFailed(i, k)
        PROVE  sqs'[m] = sqs[m]
    BY <2>3 DEF RecordDone, RecordFailed, queueVars
  <2>4. ASSUME NEW i \in Invocations, Respond(i) PROVE sqs'[m] = sqs[m]
    BY <2>4 DEF Respond, IInv, LeaseInv
  <2>5. ASSUME NEW i \in Invocations, Start(i) \/ Die(i) PROVE sqs'[m] = sqs[m]
    BY <2>5 DEF Start, Die, queueVars
  <2>6. CASE Tick
    BY <2>6 DEF Tick
  <2> QED
    BY <2>1, <2>2, <2>3, <2>4, <2>5, <2>6 DEF Next
<1> QED
  BY <1>1, SpecIInv, PTL DEF Spec, SettledForGood

-----------------------------------------------------------------------------
(* Refinement *)

\* Batches, invocations, timeouts and crashes together are an at-least-once
\* queue: every step is a step of Delivery or changes nothing in it.
THEOREM QueueImplementsDelivery == Spec => ImplementsDelivery
<1>1. Init => Promise!Init
  BY DEF Init, Promise!Init, DeliveryState
<1>2. IInv /\ [Next]_vars => [Promise!Next]_(Promise!vars)
  <2> SUFFICES ASSUME IInv, [Next]_vars
               PROVE  Promise!Next \/ UNCHANGED Promise!vars
    OBVIOUS
  <2>1. ASSUME NEW m \in Messages, Send(m) PROVE Promise!Send(m)
    BY <2>1 DEF Send, Promise!Send, DeliveryState, IInv, TypeOK
  <2>2. ASSUME NEW m \in Messages, Reappear(m) PROVE Promise!Return(m)
    BY <2>2 DEF Reappear, Promise!Return, DeliveryState, IInv, TypeOK
  <2>3. ASSUME NEW m \in Messages, DeadLetter(m) PROVE Promise!Bury(m)
    BY <2>3 DEF DeadLetter, Promise!Bury, DeliveryState, IInv, TypeOK
  <2>4. ASSUME NEW i \in Invocations, NEW B \in SUBSET Messages, Receive(i, B)
        PROVE  Promise!Take(B)
    BY <2>4 DEF Receive, Promise!Take, DeliveryState, IInv, TypeOK
  <2>5. ASSUME NEW i \in Invocations, Respond(i)
        PROVE  \E S \in SUBSET Messages : Promise!Delete(S)
    <3>1. batch[i] \ failures[i] \in SUBSET Messages
      BY DEF IInv, TypeOK
    <3>2. Promise!Delete(batch[i] \ failures[i])
      BY <2>5 DEF Respond, Promise!Delete, DeliveryState, IInv, TypeOK, LeaseInv
    <3> QED
      BY <3>1, <3>2
  <2>6. ASSUME NEW i \in Invocations,
               Start(i) \/ Die(i) \/ \E m \in Messages : RecordDone(i, m) \/ RecordFailed(i, m)
        PROVE  UNCHANGED Promise!vars
    BY <2>6 DEF Start, Die, RecordDone, RecordFailed, queueVars, Promise!vars, DeliveryState
  <2>7. CASE Tick \/ UNCHANGED vars
    BY <2>7 DEF Tick, vars, Promise!vars, DeliveryState
  <2> QED
    BY <2>1, <2>2, <2>3, <2>4, <2>5, <2>6, <2>7 DEF Next, Promise!Next
<1> QED
  BY <1>1, <1>2, SpecIInv, PTL DEF Spec, ImplementsDelivery, Promise!Spec
=============================================================================
