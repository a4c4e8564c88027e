------------------------------ MODULE Delivery ------------------------------
(***************************************************************************)
(* What the shared ingest queue promises to its consumer, without batches, *)
(* Lambda invocations or clocks.  A sent message is handed to the consumer *)
(* at least once and at most MaxReceiveCount times; it leaves the queue    *)
(* only when the consumer reports it as processed, or for the dead-letter  *)
(* queue once its receives are used up.                                    *)
(*                                                                         *)
(*   mstate    where each message is                                       *)
(*   receives  how often it has been handed out (ApproximateReceiveCount)  *)
(*                                                                         *)
(* IngestQueue implements this module; VectorIndexer is written against it.*)
(***************************************************************************)
EXTENDS Naturals

CONSTANTS Messages, MaxReceiveCount

VARIABLES mstate, receives

vars == <<mstate, receives>>

MessageState == {"unsent", "queued", "taken", "deleted", "dead"}

TypeOK ==
  /\ mstate \in [Messages -> MessageState]
  /\ receives \in [Messages -> 0..MaxReceiveCount]

Init ==
  /\ mstate = [m \in Messages |-> "unsent"]
  /\ receives = [m \in Messages |-> 0]

\* A producer (an S3 event notification or a direct sender) enqueues m.
Send(m) ==
  /\ mstate[m] = "unsent"
  /\ mstate' = [mstate EXCEPT ![m] = "queued"]
  /\ UNCHANGED receives

\* Faulty variant: without a redrive policy nobody counts.
TakeUncounted(S) ==
  /\ S # {}
  /\ \A m \in S : mstate[m] = "queued"
  /\ mstate' = [m \in Messages |-> IF m \in S THEN "taken" ELSE mstate[m]]
  /\ receives' = [m \in Messages |-> receives[m] + (IF m \in S THEN 1 ELSE 0)]

\* The consumer is handed a batch of queued messages, each for one more time.
Take(S) ==
  /\ S # {}
  /\ \A m \in S : mstate[m] = "queued" /\ receives[m] < MaxReceiveCount
  /\ mstate' = [m \in Messages |-> IF m \in S THEN "taken" ELSE mstate[m]]
  /\ receives' = [m \in Messages |-> receives[m] + (IF m \in S THEN 1 ELSE 0)]

\* The consumer reports a set of messages as processed.
Delete(S) ==
  /\ \A m \in S : mstate[m] = "taken"
  /\ mstate' = [m \in Messages |-> IF m \in S THEN "deleted" ELSE mstate[m]]
  /\ UNCHANGED receives

\* A message that was handed out and not reported becomes receivable again.
Return(m) ==
  /\ mstate[m] = "taken"
  /\ mstate' = [mstate EXCEPT ![m] = "queued"]
  /\ UNCHANGED receives

\* A message whose receives are used up goes to the dead-letter queue.
Bury(m) ==
  /\ mstate[m] = "queued"
  /\ receives[m] = MaxReceiveCount
  /\ mstate' = [mstate EXCEPT ![m] = "dead"]
  /\ UNCHANGED receives

Next ==
  \/ \E m \in Messages : Send(m) \/ Return(m) \/ Bury(m)
  \/ \E S \in SUBSET Messages : Take(S) \/ Delete(S)

Spec == Init /\ [][Next]_vars
=============================================================================
