----------------------------- MODULE IngestQueue -----------------------------
(***************************************************************************)
(* The shared ingest queue, its dead-letter queue and the invocations of   *)
(* the vector indexer Lambda that drain it: batches, the visibility        *)
(* timeout, the function timeout and the partial batch response.           *)
(*                                                                         *)
(*   sqs       where each message is                                       *)
(*   receives  how often it has been received                              *)
(*   hidden    time until a received message may be received again         *)
(*   batch     the records each slot has received ({} when idle)           *)
(*   started   the slots whose invocation has begun                        *)
(*   todo      those the handler's loop has not reached yet                *)
(*   failures  those it has put into batchItemFailures                     *)
(*   left      time until the invocation begins at the latest, and from    *)
(*             then on until it is killed                                  *)
(*   applied   messages some invocation has processed to the end           *)
(*             (history: the state PERSISTED or REGISTERED was reached)    *)
(*                                                                         *)
(* What processing one record does is VectorIndexer's business; here it    *)
(* succeeds or raises.  A standard queue may hand a message out once more  *)
(* while it is in flight or after it was deleted, from a copy with a lease *)
(* and receives of its own: such a copy is a message of its own here.      *)
(***************************************************************************)
EXTENDS Naturals, FiniteSets

CONSTANTS
  Messages,           \* the messages that may ever be sent
  Invocations,        \* execution slots: maxConcurrency of the event source
  BatchSize,          \* batchSize of the event source
  MaxReceiveCount,    \* maxReceiveCount of the queue's redrive policy
  VisibilityTimeout,  \* of the queue
  MaxWait,            \* of a received batch for its invocation to begin
  FunctionTimeout     \* of the Lambda function

ASSUME MaxReceiveCountIsPositive == MaxReceiveCount \in Nat \ {0}
ASSUME BatchSizeIsPositive == BatchSize \in Nat \ {0}
\* core-stack.ts: 720 seconds against 120, and no batching window.  The rest is
\* what Lambda may take to begin, throttled or not.
ASSUME TimeoutsAreOrdered ==
  /\ VisibilityTimeout \in Nat
  /\ MaxWait \in Nat
  /\ FunctionTimeout \in Nat
  /\ MaxWait + FunctionTimeout < VisibilityTimeout

VARIABLES sqs, receives, hidden, batch, started, todo, failures, left, applied

queueVars == <<sqs, receives, hidden>>
invocationVars == <<batch, started, todo, failures, left>>
vars == <<sqs, receives, hidden, batch, started, todo, failures, left, applied>>

SqsState == {"unsent", "visible", "inflight", "deleted", "dead"}

TypeOK ==
  /\ sqs \in [Messages -> SqsState]
  /\ receives \in [Messages -> 0..MaxReceiveCount]
  /\ hidden \in [Messages -> 0..VisibilityTimeout]
  /\ batch \in [Invocations -> SUBSET Messages]
  /\ started \in SUBSET Invocations
  /\ todo \in [Invocations -> SUBSET Messages]
  /\ failures \in [Invocations -> SUBSET Messages]
  /\ left \in [Invocations -> 0..(MaxWait + FunctionTimeout)]
  /\ applied \in SUBSET Messages

Busy(i) == batch[i] # {}

Init ==
  /\ sqs = [m \in Messages |-> "unsent"]
  /\ receives = [m \in Messages |-> 0]
  /\ hidden = [m \in Messages |-> 0]
  /\ batch = [i \in Invocations |-> {}]
  /\ started = {}
  /\ todo = [i \in Invocations |-> {}]
  /\ failures = [i \in Invocations |-> {}]
  /\ left = [i \in Invocations |-> 0]
  /\ applied = {}

-----------------------------------------------------------------------------
\* A bucket notification or a direct producer enqueues m, or SQS hands out a copy.
Send(m) ==
  /\ sqs[m] = "unsent"
  /\ sqs' = [sqs EXCEPT ![m] = "visible"]
  /\ UNCHANGED <<receives, hidden, applied>>
  /\ UNCHANGED invocationVars

\* Faulty variant: the receive count is not compared with maxReceiveCount.
ReceiveUncounted(i, B) ==
  /\ ~Busy(i)
  /\ B # {} /\ Cardinality(B) <= BatchSize
  /\ \A m \in B : sqs[m] = "visible"
  /\ sqs' = [m \in Messages |-> IF m \in B THEN "inflight" ELSE sqs[m]]
  /\ receives' = [m \in Messages |-> receives[m] + (IF m \in B THEN 1 ELSE 0)]
  /\ hidden' = [m \in Messages |-> IF m \in B THEN VisibilityTimeout ELSE hidden[m]]
  /\ batch' = [batch EXCEPT ![i] = B]
  /\ todo' = [todo EXCEPT ![i] = B]
  /\ failures' = [failures EXCEPT ![i] = {}]
  /\ left' = [left EXCEPT ![i] = MaxWait]
  /\ UNCHANGED <<started, applied>>

\* The event source receives a batch B for a slot that is free ...
Receive(i, B) ==
  /\ ~Busy(i)
  /\ B # {} /\ Cardinality(B) <= BatchSize
  /\ \A m \in B : sqs[m] = "visible" /\ receives[m] < MaxReceiveCount
  /\ sqs' = [m \in Messages |-> IF m \in B THEN "inflight" ELSE sqs[m]]
  /\ receives' = [m \in Messages |-> receives[m] + (IF m \in B THEN 1 ELSE 0)]
  /\ hidden' = [m \in Messages |-> IF m \in B THEN VisibilityTimeout ELSE hidden[m]]
  /\ batch' = [batch EXCEPT ![i] = B]
  /\ todo' = [todo EXCEPT ![i] = B]
  /\ failures' = [failures EXCEPT ![i] = {}]
  /\ left' = [left EXCEPT ![i] = MaxWait]
  /\ UNCHANGED <<started, applied>>

\* ... and invokes the function with it.
Start(i) ==
  /\ Busy(i) /\ i \notin started
  /\ started' = started \cup {i}
  /\ left' = [left EXCEPT ![i] = FunctionTimeout]
  /\ UNCHANGED <<batch, todo, failures, applied>>
  /\ UNCHANGED queueVars

\* The handler's loop processes one record to the end ...
RecordDone(i, m) ==
  /\ i \in started /\ m \in todo[i]
  /\ todo' = [todo EXCEPT ![i] = @ \ {m}]
  /\ applied' = applied \cup {m}
  /\ UNCHANGED <<batch, started, failures, left>>
  /\ UNCHANGED queueVars

\* ... or catches its exception and lists it in batchItemFailures.
RecordFailed(i, m) ==
  /\ i \in started /\ m \in todo[i]
  /\ todo' = [todo EXCEPT ![i] = @ \ {m}]
  /\ failures' = [failures EXCEPT ![i] = @ \cup {m}]
  /\ UNCHANGED <<batch, started, left, applied>>
  /\ UNCHANGED queueVars

Idle(i) ==
  /\ batch' = [batch EXCEPT ![i] = {}]
  /\ started' = started \ {i}
  /\ todo' = [todo EXCEPT ![i] = {}]
  /\ failures' = [failures EXCEPT ![i] = {}]
  /\ left' = [left EXCEPT ![i] = 0]

\* Faulty variant: without reportBatchItemFailures the whole batch is deleted.
RespondForWholeBatch(i) ==
  /\ i \in started /\ todo[i] = {}
  /\ sqs' = [m \in Messages |-> IF m \in batch[i] THEN "deleted" ELSE sqs[m]]
  /\ Idle(i)
  /\ UNCHANGED <<receives, hidden, applied>>

\* The handler returns: everything not in batchItemFailures is deleted, the
\* failures stay in flight until their visibility timeout runs out.
Respond(i) ==
  /\ i \in started /\ todo[i] = {}
  /\ sqs' = [m \in Messages |-> IF m \in batch[i] \ failures[i] THEN "deleted" ELSE sqs[m]]
  /\ Idle(i)
  /\ UNCHANGED <<receives, hidden, applied>>

\* The invocation dies without a response: it ran into the function timeout
\* (Tick forces this when left[i] = 0) or its container crashed; or it never
\* begins, because Lambda is throttled.
Die(i) ==
  /\ Busy(i)
  /\ Idle(i)
  /\ UNCHANGED <<sqs, receives, hidden, applied>>

\* A message whose visibility timeout ran out may be received again.
Reappear(m) ==
  /\ sqs[m] = "inflight"
  /\ hidden[m] = 0
  /\ sqs' = [sqs EXCEPT ![m] = "visible"]
  /\ UNCHANGED <<receives, hidden, applied>>
  /\ UNCHANGED invocationVars

\* Faulty variants: the redrive policy off by one in either direction.
DeadLetterEarly(m) ==
  /\ sqs[m] = "visible"
  /\ receives[m] >= MaxReceiveCount - 1
  /\ sqs' = [sqs EXCEPT ![m] = "dead"]
  /\ UNCHANGED <<receives, hidden, applied>>
  /\ UNCHANGED invocationVars

DeadLetterLate(m) ==
  /\ sqs[m] = "visible"
  /\ receives[m] > MaxReceiveCount
  /\ sqs' = [sqs EXCEPT ![m] = "dead"]
  /\ UNCHANGED <<receives, hidden, applied>>
  /\ UNCHANGED invocationVars

\* The redrive policy moves a message that used up its receives to the DLQ.
DeadLetter(m) ==
  /\ sqs[m] = "visible"
  /\ receives[m] = MaxReceiveCount
  /\ sqs' = [sqs EXCEPT ![m] = "dead"]
  /\ UNCHANGED <<receives, hidden, applied>>
  /\ UNCHANGED invocationVars

Decrement(n) == IF n > 0 THEN n - 1 ELSE 0

\* Faulty variant: an invocation may outlive the function timeout.
TickPastTimeout ==
  /\ \/ \E i \in Invocations : Busy(i)
     \/ \E m \in Messages : hidden[m] > 0
  /\ hidden' = [m \in Messages |-> Decrement(hidden[m])]
  /\ left' = [i \in Invocations |-> Decrement(left[i])]
  /\ UNCHANGED <<sqs, receives, batch, started, todo, failures, applied>>

\* One unit of time.  No invocation outlives its timeout.
Tick ==
  /\ \A i \in Invocations : Busy(i) => left[i] > 0
  /\ \/ \E i \in Invocations : Busy(i)
     \/ \E m \in Messages : hidden[m] > 0
  /\ hidden' = [m \in Messages |-> Decrement(hidden[m])]
  /\ left' = [i \in Invocations |-> Decrement(left[i])]
  /\ UNCHANGED <<sqs, receives, batch, started, todo, failures, applied>>

-----------------------------------------------------------------------------
Next ==
  \/ \E m \in Messages : Send(m) \/ Reappear(m) \/ DeadLetter(m)
  \/ \E i \in Invocations :
       \/ \E B \in SUBSET Messages : Receive(i, B)
       \/ \E m \in Messages : RecordDone(i, m) \/ RecordFailed(i, m)
       \/ Start(i) \/ Respond(i) \/ Die(i)
  \/ Tick

\* The service keeps polling, running, counting time and redriving; nothing
\* obliges a producer to send.
Fairness ==
  /\ WF_vars(Tick)
  /\ \A m \in Messages :
       /\ WF_vars(Reappear(m))
       /\ WF_vars(DeadLetter(m))
       /\ WF_vars(\E i \in Invocations, B \in SUBSET Messages : m \in B /\ Receive(i, B))
  /\ \A i \in Invocations :
       WF_vars(Start(i) \/ Respond(i) \/ \E m \in Messages : RecordDone(i, m) \/ RecordFailed(i, m))

Spec == Init /\ [][Next]_vars
FairSpec == Spec /\ Fairness

-----------------------------------------------------------------------------
(* Properties *)

\* A message being processed is invisible, and no second invocation works on
\* it: core-stack.ts gives the queue a visibility timeout above the function
\* timeout so that a redelivery never overlaps the attempt it replaces, unless
\* SQS hands out a copy.
LeaseExclusive ==
  \A i \in Invocations : \A m \in batch[i] :
    /\ sqs[m] = "inflight"
    /\ \A j \in Invocations \ {i} : m \notin batch[j]

\* A message leaves the queue for good only after the handler processed it to
\* the end at least once, or after every receive the redrive policy allows:
\* the partial batch response neither acknowledges a failed record nor one the
\* loop never reached.
NothingDroppedUnprocessed ==
  \A m \in Messages :
    /\ sqs[m] = "deleted" => m \in applied
    /\ sqs[m] = "dead" => receives[m] = MaxReceiveCount

\* Settled is settled: no late response deletes a message that was dead-lettered
\* meanwhile, and nothing that was deleted is ever delivered again.
SettledForGood ==
  [][\A m \in Messages : sqs[m] \in {"deleted", "dead"} => sqs'[m] = sqs[m]]_vars

\* Every message sent is eventually deleted or dead-lettered, whatever the
\* handler, the timeouts and the crashes do.
EverySentMessageSettles ==
  \A m \in Messages : sqs[m] = "visible" ~> sqs[m] \in {"deleted", "dead"}

-----------------------------------------------------------------------------
\* The queue as its consumer sees it.
DeliveryState(m) ==
  IF sqs[m] = "visible" THEN "queued"
  ELSE IF sqs[m] = "inflight" THEN "taken"
  ELSE sqs[m]

Promise == INSTANCE Delivery WITH mstate <- [m \in Messages |-> DeliveryState(m)]

\* Batches, invocations and clocks implement the at-least-once queue that
\* VectorIndexer is written against.
ImplementsDelivery == Promise!Spec

-----------------------------------------------------------------------------
(* The inductive invariant *)

\* An invocation has begun and is killed before the lease on its records runs
\* out, so nobody else can have received them ...
TimeLeft(i) == IF i \in started THEN left[i] ELSE left[i] + FunctionTimeout

LeaseInv ==
  \A i \in Invocations : \A m \in batch[i] :
    sqs[m] = "inflight" /\ hidden[m] > TimeLeft(i)

BatchesDisjoint ==
  \A i, j \in Invocations : i # j => batch[i] \cap batch[j] = {}

\* ... and a record the loop has passed was either processed or listed.
LoopInv ==
  \A i \in Invocations :
    /\ todo[i] \subseteq batch[i]
    /\ failures[i] \subseteq batch[i]
    /\ i \in started => Busy(i)
    /\ batch[i] \subseteq todo[i] \cup failures[i] \cup applied

IInv ==
  /\ TypeOK
  /\ LeaseInv
  /\ BatchesDisjoint
  /\ LoopInv
  /\ NothingDroppedUnprocessed
=============================================================================
