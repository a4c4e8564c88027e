---------------------------- MODULE VectorIndexer ----------------------------
(***************************************************************************)
(* The vector indexer Lambda, record by record: what arrives on the shared *)
(* ingest queue, and the steps of one attempt to process a message.  Each  *)
(* step ends where another process can observe or disturb it: the S3 read, *)
(* the write to Postgres or DynamoDB, the partial batch response.          *)
(*                                                                         *)
(*   mstate, receives  the queue, as Delivery describes it                 *)
(*   body      the document and version a message was sent for             *)
(*   written   how many versions of a document its author has produced;    *)
(*             for a bucket document, the version the object holds now     *)
(*   state     IngestState of the attempt at each message; idle: none      *)
(*   text      the version that attempt has read                           *)
(*                                                                         *)
(* One attempt per message at a time: IngestQueue's LeaseExclusive.  A       *)
(* copy that SQS hands out is a message of its own with the same body.     *)
(***************************************************************************)
EXTENDS DocumentStores

CONSTANTS Messages, MaxReceiveCount

ASSUME MaxReceiveCountIsPositive == MaxReceiveCount \in Nat \ {0}

VARIABLES mstate, receives, body, written, state, text

queueVars == <<mstate, receives, body, written>>
attemptVars == <<state, text>>
indexerVars == <<mstate, receives, body, written, state, text>>

Queue == INSTANCE Delivery

\* ROUTED, FETCHED and REDACTED only lie between two steps of one attempt.
IngestState == {"idle", "received", "embedded", "persisted", "registered", "failed"}

Body == [doc : Docs \cup {NoDoc}, version : Versions \cup {0}]
NoBody == [doc |-> NoDoc, version |-> 0]

IndexerTypeOK ==
  /\ Queue!TypeOK
  /\ body \in [Messages -> Body]
  /\ written \in [Docs -> Versions \cup {0}]
  /\ state \in [Messages -> IngestState]
  /\ text \in [Messages -> Versions \cup {0}]

IndexerInit ==
  /\ Queue!Init
  /\ body = [m \in Messages |-> NoBody]
  /\ written = [d \in Docs |-> 0]
  /\ state = [m \in Messages |-> "idle"]
  /\ text = [m \in Messages |-> 0]

-----------------------------------------------------------------------------
(* What reaches the queue. *)

SendFor(m, d, v) ==
  /\ Queue!Send(m)
  /\ body' = [body EXCEPT ![m] = [doc |-> d, version |-> v]]
  /\ UNCHANGED attemptVars
  /\ UNCHANGED storeVars

\* A new version of d: an upload to the silo's bucket, whose notification only
\* names the object, or a direct message that carries the text itself.
Produce(m, d) ==
  /\ written[d] + 1 \in Versions
  /\ written' = [written EXCEPT ![d] = @ + 1]
  /\ SendFor(m, d, written[d] + 1)

\* S3 notifies at least once.
NotifyAgain(m, d) ==
  /\ d \in FromBucket
  /\ written[d] # 0
  /\ SendFor(m, d, written[d])
  /\ UNCHANGED written

\* SQS hands out a copy of a message that is in flight or was deleted.
HandOutAgain(m, other) ==
  /\ mstate[other] \in {"taken", "deleted"}
  /\ body[other].doc \in Docs
  /\ SendFor(m, body[other].doc, body[other].version)
  /\ UNCHANGED written

\* Neither an S3 event of a registered bucket nor an {agent, id, text} payload:
\* the s3:TestEvent S3 sends when the notification is configured, for one.
SendOther(m) ==
  /\ Queue!Send(m)
  /\ UNCHANGED <<body, written>>
  /\ UNCHANGED attemptVars
  /\ UNCHANGED storeVars

-----------------------------------------------------------------------------
(* One attempt.  d is the document _extract_source resolves m to. *)

Doc(m) == body[m].doc

Advance(m, s, v) ==
  /\ state' = [state EXCEPT ![m] = s]
  /\ text' = [text EXCEPT ![m] = v]

Receive(m) ==
  /\ Queue!Take({m})
  /\ Advance(m, "received", 0)
  /\ UNCHANGED <<body, written>>
  /\ UNCHANGED storeVars

\* _extract_source, _redact and _embed: a bucket document is read now, whatever
\* version it was announced with.
Embed(m) ==
  /\ state[m] = "received"
  /\ Doc(m) \in Docs
  /\ Advance(m, "embedded", IF Doc(m) \in FromBucket THEN written[Doc(m)] ELSE body[m].version)
  /\ UNCHANGED queueVars
  /\ UNCHANGED storeVars

\* Faulty variant: everything is persisted, also what a human must decide.
PersistUnreviewed(m) ==
  /\ state[m] = "embedded"
  /\ Upsert(Doc(m), text[m], SiloRoles[SiloOf[Doc(m)]])
  /\ recorded' = [recorded EXCEPT ![Doc(m)] = @ \cup {text[m]}]
  /\ Advance(m, "persisted", 0)
  /\ UNCHANGED pending
  /\ UNCHANGED queueVars

\* _persist, for an AllUser silo or a pre-classified document.  A silo without
\* roles raises instead (Fail).
Persist(m) ==
  /\ state[m] = "embedded"
  /\ ~NeedsReview(Doc(m))
  /\ Tags(Doc(m)) # {}
  /\ Upsert(Doc(m), text[m], Tags(Doc(m)))
  /\ recorded' = [recorded EXCEPT ![Doc(m)] = @ \cup {text[m]}]
  /\ Advance(m, "persisted", 0)
  /\ UNCHANGED pending
  /\ UNCHANGED queueVars

RegisterPending(m) ==
  /\ state[m] = "embedded"
  /\ NeedsReview(Doc(m))
  /\ PutItem(Doc(m), text[m])
  /\ recorded' = [recorded EXCEPT ![Doc(m)] = @ \cup {text[m]}]
  /\ Advance(m, "registered", 0)
  /\ UNCHANGED rows
  /\ UNCHANGED queueVars

\* Any call of the attempt raises, the write included: its effect may have
\* taken place although its answer was lost.
Fail(m) ==
  /\ state[m] \in {"received", "embedded", "persisted", "registered"}
  /\ Advance(m, "failed", 0)
  /\ UNCHANGED queueVars
  /\ UNCHANGED storeVars

\* Faulty variant: the failed record is left out of batchItemFailures.
ReportFailedToo(m) ==
  /\ state[m] \in {"persisted", "registered", "failed"}
  /\ Queue!Delete({m})
  /\ Advance(m, "idle", 0)
  /\ UNCHANGED <<body, written>>
  /\ UNCHANGED storeVars

\* The response of the invocation does not list m in batchItemFailures.
Report(m) ==
  /\ state[m] \in {"persisted", "registered"}
  /\ Queue!Delete({m})
  /\ Advance(m, "idle", 0)
  /\ UNCHANGED <<body, written>>
  /\ UNCHANGED storeVars

\* m becomes visible again: the response listed it, or the invocation died at
\* any point, with it or with a later record of its batch.
GiveBack(m) ==
  /\ state[m] # "idle"
  /\ Queue!Return(m)
  /\ Advance(m, "idle", 0)
  /\ UNCHANGED <<body, written>>
  /\ UNCHANGED storeVars

Bury(m) ==
  /\ Queue!Bury(m)
  /\ UNCHANGED <<body, written>>
  /\ UNCHANGED attemptVars
  /\ UNCHANGED storeVars

-----------------------------------------------------------------------------
Attempt(m) == Embed(m) \/ Persist(m) \/ RegisterPending(m) \/ Fail(m)

IndexerStep(m) ==
  \/ \E d \in Docs : Produce(m, d) \/ NotifyAgain(m, d)
  \/ \E other \in Messages : HandOutAgain(m, other)
  \/ SendOther(m) \/ Receive(m) \/ Attempt(m)
  \/ Report(m) \/ GiveBack(m) \/ Bury(m)

IndexerNext == \E m \in Messages : IndexerStep(m)
=============================================================================
