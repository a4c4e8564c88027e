---------------------------- MODULE DocumentFlow ----------------------------
(***************************************************************************)
(* Ingest and review together: the vector indexer and the admin API work   *)
(* on the same two stores, with nothing between them but the stores.       *)
(***************************************************************************)
EXTENDS VectorIndexer, AdminReview

vars == <<storeVars, indexerVars, reviewVars>>

TypeOK == StoresTypeOK /\ IndexerTypeOK /\ ReviewTypeOK

Init == StoresInit /\ IndexerInit /\ ReviewInit

Next ==
  \/ IndexerNext /\ UNCHANGED reviewVars
  \/ ReviewNext /\ UNCHANGED indexerVars

Spec == Init /\ [][Next]_vars

-----------------------------------------------------------------------------
(* Properties *)

\* Some version of m's document, the one m was sent for or a later one, was
\* written to the vector database or staged.
Recorded(m) ==
  /\ Doc(m) \in Docs
  /\ \E v \in recorded[Doc(m)] : v >= body[m].version

\* A message leaves the queue as processed only when its document has been
\* recorded: handler() reports success after the write and never before it,
\* although it may be killed anywhere and the message handed out again.
ConsumedIsRecorded ==
  \A m \in Messages : mstate[m] = "deleted" => Recorded(m)

Discarding(a, d) ==
  /\ request[a].kind = "discard" /\ request[a].doc = d
  /\ At(a, "submitted") /\ At(a, "idle")'

\* An item never vanishes from the review queue: when it goes, the document is
\* already in the vector database, or an admin is discarding it.  A publish
\* that fails halfway leaves a document twice, never nowhere.
LeavesQueueStoredOrDiscarded ==
  [][\A d \in Docs :
       pending[d] # 0 /\ pending'[d] = 0 =>
         rows[d].version # 0 \/ \E a \in Admins : Discarding(a, d)]_vars

\* README, "UIMediated": a staged document stays staged until an admin checks
\* roles for it and publishes it, or discards it.  The item a publish removes
\* is the one it has just stored.
RemovesOnlyWhatItStored ==
  [][\A a \in Admins :
       At(a, "stored") /\ request'[a].status = 200 =>
         pending[request[a].doc] \in {0, request[a].item}]_vars

\* README: documents are "reviewed on the app's Admin tab", where publishing
\* inserts them: what goes into the vector database is what the admin was shown.
PublishesWhatWasReviewed ==
  \A a \in Admins : At(a, "stored") => request[a].item = request[a].reviewed

\* Rows are upserted and never deleted: what can be found stays, and neither a
\* redelivery nor a publish changes who may see a document of a silo that
\* classifies its documents by itself.
StoredStaysVisible ==
  [][\A d \in Docs :
       rows[d].version # 0 =>
         /\ rows'[d].version # 0
         /\ ~NeedsReview(d) => rows'[d].roles = rows[d].roles]_vars

-----------------------------------------------------------------------------
\* The versions that went through the review queue.
Staged == [d \in Docs |-> IF NeedsReview(d) THEN recorded[d] ELSE {}]

Gate == INSTANCE ReviewGate WITH staged <- Staged

\* Nothing the two components do together gets past the review gate.
ImplementsReviewGate == Gate!Spec

\* In particular a row always carries lawful tags: a document that needs review
\* is in the vector database only in a version that was staged and with roles
\* of its silo, at least one; any other exactly with its classification.
RowsAreLawful == Gate!RowsAreLawful

-----------------------------------------------------------------------------
(* The inductive invariant *)

\* Where the attempt at m stands, and what it has done by then.
AttemptInv(m) ==
  /\ (state[m] = "idle") <=> (mstate[m] # "taken")
  /\ mstate[m] = "unsent" => Doc(m) = NoDoc
  /\ Doc(m) \in Docs => body[m].version \in Versions /\ body[m].version <= written[Doc(m)]
  /\ state[m] = "embedded" =>
       Doc(m) \in Docs /\ text[m] \in Versions /\ text[m] >= body[m].version
  /\ state[m] \in {"persisted", "registered"} => Recorded(m)
  /\ mstate[m] = "deleted" => Recorded(m)

\* Rows are lawful, in terms of this module's variables.
RowInv(d) ==
  rows[d].version # 0 =>
    /\ rows[d].roles # {} /\ rows[d].roles \subseteq SiloRoles[SiloOf[d]]
    /\ NeedsReview(d) => rows[d].version \in recorded[d]
    /\ ~NeedsReview(d) => rows[d].roles = Tags(d)

\* Only reviewable documents are ever staged.
PendingInv(d) == pending[d] # 0 => NeedsReview(d) /\ pending[d] \in recorded[d]

\* What a publish has checked and read stays true while it is under way.
RequestInv(a) ==
  LET r == request[a] IN
  /\ r.pc # "idle" => r.doc \in Docs
  /\ r.pc \in {"loaded", "stored"} =>
       /\ NeedsReview(r.doc) /\ ~Rejected(r) /\ r.kind = "publish"
       /\ r.item \in recorded[r.doc]
  /\ r.pc = "stored" => rows[r.doc].version # 0

IInv ==
  /\ TypeOK
  /\ \A m \in Messages : AttemptInv(m)
  /\ \A d \in Docs : RowInv(d) /\ PendingInv(d)
  /\ \A a \in Admins : RequestInv(a)
=============================================================================
