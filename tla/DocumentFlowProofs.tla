------------------------- MODULE DocumentFlowProofs -------------------------
(***************************************************************************)
(* Proofs about DocumentFlow, for any configuration of silos, any sets of  *)
(* documents, versions, messages and admins, and any receive limit.        *)
(***************************************************************************)
EXTENDS DocumentFlow, AccessRules, TLAPS

-----------------------------------------------------------------------------
(* Operators *)

\* The indexer only ever tags with roles of the document's own silo.
LEMMA TagsAreSiloRoles ==
  ASSUME NEW d \in Docs, ~NeedsReview(d)
  PROVE  Tags(d) \subseteq SiloRoles[SiloOf[d]]
BY SilosAreConfigured DEF NeedsReview, Tags, Classified

\* Versions can be compared, 0 (none) with them.
LEMMA VersionsAreNumbers == Versions \cup {0} \subseteq Nat /\ 0 \notin Versions
BY VersionsArePositive

\* A silo declares roles of the user pool.
LEMMA SiloRolesAreRoles ==
  ASSUME NEW d \in Docs
  PROVE  SiloRoles[SiloOf[d]] \subseteq Roles
BY SilosAreConfigured

\* What has been recorded stays recorded.
LEMMA RecordedGrows ==
  ASSUME \A d \in Docs : recorded[d] \subseteq recorded'[d], UNCHANGED body,
         NEW m \in Messages, Recorded(m)
  PROVE  Recorded(m)'
BY DEF Recorded, Doc

-----------------------------------------------------------------------------
(* The inductive invariant *)

LEMMA InitIInv == Init => IInv
<1> SUFFICES ASSUME Init PROVE IInv
  OBVIOUS
<1> USE SilosAreConfigured, VersionsArePositive, MaxReceiveCountIsPositive
    DEF Init, StoresInit, IndexerInit, ReviewInit, Queue!Init
<1>1. TypeOK
  BY DEF TypeOK, StoresTypeOK, IndexerTypeOK, ReviewTypeOK, Row, NoRow, Body,
         NoBody, IngestState, Queue!TypeOK, Queue!MessageState, Request,
         NoRequest, Statuses
<1>2. \A m \in Messages : AttemptInv(m)
  BY DEF AttemptInv, Recorded, NoBody, Doc
<1>3. \A d \in Docs : RowInv(d) /\ PendingInv(d)
  BY DEF PendingInv, RowInv, NoRow
<1>4. \A a \in Admins : RequestInv(a)
  BY DEF RequestInv, NoRequest
<1> QED
  BY <1>1, <1>2, <1>3, <1>4 DEF IInv

\* Steps of the indexer that write to neither store disturb only its own part.
LEMMA IndexerFrame ==
  ASSUME IInv, UNCHANGED storeVars, UNCHANGED reviewVars,
         IndexerTypeOK', \A m \in Messages : AttemptInv(m)'
  PROVE  IInv'
BY DEF IInv, TypeOK, storeVars, reviewVars, StoresTypeOK, ReviewTypeOK,
       RowInv, PendingInv, RequestInv, NeedsReview

\* The attempt at a message depends on nothing that other messages change.
LEMMA AttemptFrame ==
  ASSUME IInv, IndexerTypeOK', NEW k \in Messages,
         mstate'[k] = mstate[k], body'[k] = body[k], state'[k] = state[k],
         text'[k] = text[k],
         \A d \in Docs : written'[d] >= written[d],
         \A d \in Docs : recorded[d] \subseteq recorded'[d]
  PROVE  AttemptInv(k)'
<1> USE VersionsAreNumbers
<1>1. AttemptInv(k)
  BY DEF IInv
<1>2. Recorded(k) => Recorded(k)'
  BY DEF Recorded, Doc
<1>3. Doc(k)' = Doc(k)
  BY DEF Doc
<1>4. Doc(k) \in Docs => body'[k].version \in Versions /\ body'[k].version <= written'[Doc(k)]
  <2> HAVE Doc(k) \in Docs
  <2>1. written'[Doc(k)] \in Nat /\ written[Doc(k)] \in Nat /\ body[k].version \in Nat
    BY DEF IInv, TypeOK, IndexerTypeOK, Body
  <2> QED
    BY <1>1, <2>1 DEF AttemptInv
<1> QED
  BY <1>1, <1>2, <1>3, <1>4 DEF AttemptInv

\* A message is sent: it knows its document and version from now on.
LEMMA SendKeepsIInv ==
  ASSUME IInv, UNCHANGED reviewVars, NEW m \in Messages, NEW d \in Docs, NEW v \in Versions,
         SendFor(m, d, v),
         written' \in [Docs -> Versions \cup {0}],
         \A e \in Docs : written'[e] >= written[e],
         v <= written'[d]
  PROVE  IInv'
<1> USE VersionsAreNumbers DEF SendFor, Queue!Send, attemptVars
<1>1. UNCHANGED storeVars /\ UNCHANGED <<receives, state, text>>
  OBVIOUS
<1>2. IndexerTypeOK'
  <2>1. Queue!TypeOK' /\ state' \in [Messages -> IngestState]
        /\ text' \in [Messages -> Versions \cup {0}]
    BY <1>1 DEF IInv, TypeOK, IndexerTypeOK, Queue!TypeOK, Queue!MessageState
  <2>2. body' \in [Messages -> Body]
    BY DEF IInv, TypeOK, IndexerTypeOK, Body
  <2> QED
    BY <2>1, <2>2 DEF IndexerTypeOK
<1>3. ASSUME NEW k \in Messages, k # m PROVE AttemptInv(k)'
  <2>1. mstate'[k] = mstate[k] /\ body'[k] = body[k]
    BY <1>3 DEF IInv, TypeOK, IndexerTypeOK, Queue!TypeOK
  <2> QED
    BY <1>1, <1>2, <2>1, AttemptFrame DEF storeVars
<1>4. AttemptInv(m)'
  <2>1. mstate[m] = "unsent" /\ mstate'[m] = "queued" /\ state[m] = "idle"
    BY DEF IInv, TypeOK, IndexerTypeOK, Queue!TypeOK, AttemptInv
  <2>2. Doc(m)' \in Docs => body'[m].version \in Versions /\ body'[m].version <= written'[Doc(m)']
    <3>1. body'[m].doc = d /\ body'[m].version = v
      BY DEF IInv, TypeOK, IndexerTypeOK
    <3> QED
      BY <3>1 DEF Doc
  <2> QED
    BY <1>1, <2>1, <2>2 DEF AttemptInv
<1> QED
  BY <1>1, <1>2, <1>3, <1>4, IndexerFrame

\* What is sent: a new version, the present one once more, or a copy of a message.
LEMMA ProducersKeepIInv ==
  ASSUME IInv, UNCHANGED reviewVars, NEW m \in Messages,
         \/ \E d \in Docs : Produce(m, d) \/ NotifyAgain(m, d)
         \/ \E n \in Messages : HandOutAgain(m, n)
  PROVE  IInv'
<1> USE VersionsAreNumbers
<1>0. written \in [Docs -> Versions \cup {0}] /\ body \in [Messages -> Body]
  BY DEF IInv, TypeOK, IndexerTypeOK
<1>1. ASSUME NEW d \in Docs, Produce(m, d) PROVE IInv'
  <2>1. written' \in [Docs -> Versions \cup {0}] /\ written'[d] = written[d] + 1
        /\ \A e \in Docs : written'[e] >= written[e]
    BY <1>0, <1>1 DEF Produce
  <2>2. written[d] + 1 \in Versions /\ SendFor(m, d, written[d] + 1)
    BY <1>1 DEF Produce
  <2> QED
    BY <2>1, <2>2, SendKeepsIInv
<1>2. ASSUME NEW d \in Docs, NotifyAgain(m, d) PROVE IInv'
  <2>1. written[d] \in Versions /\ SendFor(m, d, written[d]) /\ written' = written
    BY <1>0, <1>2 DEF NotifyAgain
  <2> QED
    BY <1>0, <2>1, SendKeepsIInv
<1>3. ASSUME NEW n \in Messages, HandOutAgain(m, n) PROVE IInv'
  <2>1. /\ Doc(n) \in Docs /\ SendFor(m, Doc(n), body[n].version) /\ written' = written
    BY <1>3 DEF HandOutAgain, Doc
  <2>2. body[n].version \in Versions /\ body[n].version <= written[Doc(n)]
    BY <2>1 DEF IInv, AttemptInv
  <2> QED
    BY <1>0, <2>1, <2>2, SendKeepsIInv
<1> QED
  BY <1>1, <1>2, <1>3

\* The steps of the queue itself, and the attempt that raises.
LEMMA QueueKeepsIInv ==
  ASSUME IInv, UNCHANGED reviewVars, NEW m \in Messages,
         SendOther(m) \/ Receive(m) \/ Bury(m) \/ GiveBack(m) \/ Fail(m)
  PROVE  IInv'
<1> USE VersionsAreNumbers, MaxReceiveCountIsPositive
    DEF SendOther, Receive, Bury, GiveBack, Fail, Queue!Send, Queue!Take, Queue!Bury, Queue!Return,
        Advance, attemptVars, queueVars
<1>1. UNCHANGED storeVars /\ UNCHANGED <<body, written>>
  OBVIOUS
<1>2. IndexerTypeOK'
  BY <1>1 DEF IInv, TypeOK, IndexerTypeOK, Queue!TypeOK, Queue!MessageState, IngestState
<1>3. ASSUME NEW k \in Messages, k # m PROVE AttemptInv(k)'
  <2>1. mstate'[k] = mstate[k] /\ state'[k] = state[k] /\ text'[k] = text[k]
    BY <1>3 DEF IInv, TypeOK, IndexerTypeOK, Queue!TypeOK
  <2>2. \A e \in Docs : written'[e] >= written[e]
    BY <1>1 DEF IInv, TypeOK, IndexerTypeOK
  <2> QED
    BY <1>1, <1>2, <2>1, <2>2, AttemptFrame DEF storeVars
<1>4. AttemptInv(m)'
  <2>1. /\ (state'[m] = "idle") <=> (mstate'[m] # "taken")
        /\ state'[m] \in {"idle", "received", "failed"}
        /\ mstate'[m] \notin {"unsent", "deleted"}
    BY DEF IInv, TypeOK, IndexerTypeOK, Queue!TypeOK, AttemptInv
  <2>2. Doc(m)' = Doc(m) /\ body' = body /\ written' = written
    BY <1>1 DEF Doc
  <2> QED
    BY <2>1, <2>2 DEF IInv, AttemptInv
<1> QED
  BY <1>1, <1>2, <1>3, <1>4, IndexerFrame

\* The source is read: a bucket document in the version its object holds now,
\* which is never older than the one announced.
LEMMA EmbedKeepsIInv ==
  ASSUME IInv, UNCHANGED reviewVars, NEW m \in Messages, Embed(m)
  PROVE  IInv'
<1> USE VersionsAreNumbers DEF Embed, Advance, queueVars
<1>1. UNCHANGED storeVars /\ UNCHANGED <<body, written, mstate, receives>>
  OBVIOUS
<1>2. /\ text'[m] \in Versions \cup {0} /\ text'[m] >= body[m].version
      /\ state'[m] = "embedded" /\ Doc(m) \in Docs
  <2>1. body[m] \in Body /\ written[Doc(m)] \in Versions \cup {0}
    BY DEF IInv, TypeOK, IndexerTypeOK
  <2>2. body[m].version \in Versions \cup {0} /\ body[m].version <= written[Doc(m)]
    BY <2>1 DEF Body, IInv, AttemptInv
  <2> QED
    BY <2>1, <2>2 DEF IInv, TypeOK, IndexerTypeOK
<1>3. IndexerTypeOK'
  BY <1>1, <1>2 DEF IInv, TypeOK, IndexerTypeOK, Queue!TypeOK, IngestState
<1>4. ASSUME NEW k \in Messages, k # m PROVE AttemptInv(k)'
  <2>1. state'[k] = state[k] /\ text'[k] = text[k]
    BY <1>4 DEF IInv, TypeOK, IndexerTypeOK
  <2>2. \A e \in Docs : written'[e] >= written[e]
    BY <1>1 DEF IInv, TypeOK, IndexerTypeOK
  <2> QED
    BY <1>1, <1>3, <2>1, <2>2, AttemptFrame DEF storeVars
<1>5. AttemptInv(m)'
  <2>1. mstate[m] = "taken" /\ Doc(m)' = Doc(m)
    BY <1>1 DEF IInv, AttemptInv, Doc
  <2>2. body'[m].version \in Versions /\ body'[m].version <= written'[Doc(m)]
    BY <1>1, <1>2 DEF IInv, AttemptInv
  <2>3. text'[m] \in Versions
    BY <1>1, <1>2, <2>2
  <2> QED
    BY <1>1, <1>2, <2>1, <2>2, <2>3 DEF AttemptInv
<1> QED
  BY <1>1, <1>3, <1>4, <1>5, IndexerFrame

\* Only an attempt that has written is reported.
LEMMA ReportKeepsIInv ==
  ASSUME IInv, UNCHANGED reviewVars, NEW m \in Messages, Report(m)
  PROVE  IInv'
<1> USE VersionsAreNumbers DEF Report, Advance, Queue!Delete
<1>1. UNCHANGED storeVars /\ UNCHANGED <<body, written>>
  OBVIOUS
<1>2. IndexerTypeOK'
  BY <1>1 DEF IInv, TypeOK, IndexerTypeOK, Queue!TypeOK, Queue!MessageState, IngestState
<1>3. ASSUME NEW k \in Messages, k # m PROVE AttemptInv(k)'
  <2>1. mstate'[k] = mstate[k] /\ state'[k] = state[k] /\ text'[k] = text[k]
    BY <1>3 DEF IInv, TypeOK, IndexerTypeOK, Queue!TypeOK
  <2>2. \A e \in Docs : written'[e] >= written[e]
    BY <1>1 DEF IInv, TypeOK, IndexerTypeOK
  <2> QED
    BY <1>1, <1>2, <2>1, <2>2, AttemptFrame DEF storeVars
<1>4. AttemptInv(m)'
  <2>1. Recorded(m)'
    BY <1>1 DEF IInv, AttemptInv, Recorded, Doc, storeVars
  <2>2. mstate'[m] = "deleted" /\ state'[m] = "idle"
    BY DEF IInv, TypeOK, IndexerTypeOK, Queue!TypeOK
  <2> QED
    BY <1>1, <2>1, <2>2 DEF IInv, AttemptInv, Doc
<1> QED
  BY <1>1, <1>2, <1>3, <1>4, IndexerFrame

\* The two writes: the version read is recorded, in the store the silo's
\* workflow and the document's prefix call for.
LEMMA WriteKeepsIInv ==
  ASSUME IInv, UNCHANGED reviewVars, NEW m \in Messages,
         Persist(m) \/ RegisterPending(m)
  PROVE  IInv'
<1> DEFINE d == Doc(m)
<1> USE VersionsAreNumbers
    DEF Persist, RegisterPending, Upsert, PutItem, Advance, queueVars
<1>1. /\ d \in Docs /\ text[m] \in Versions /\ text[m] >= body[m].version
      /\ mstate[m] = "taken"
  BY DEF IInv, AttemptInv
<1>2. /\ UNCHANGED <<mstate, receives, body, written, screen, request>>
      /\ recorded' = [recorded EXCEPT ![d] = @ \cup {text[m]}]
  BY DEF reviewVars
<1>3. \A e \in Docs : recorded[e] \subseteq recorded'[e]
  BY <1>1, <1>2 DEF IInv, TypeOK, StoresTypeOK
<1>4. StoresTypeOK'
  <2>1. recorded' \in [Docs -> SUBSET Versions]
    BY <1>1, <1>2 DEF IInv, TypeOK, StoresTypeOK
  <2>2. rows' \in [Docs -> Row]
    <3>1. CASE Persist(m)
      <4>1. [version |-> text[m], roles |-> Tags(d)] \in Row
        BY <1>1, <3>1, TagsAreSiloRoles, SiloRolesAreRoles DEF Row
      <4> QED
        BY <3>1, <4>1 DEF IInv, TypeOK, StoresTypeOK
    <3>2. CASE RegisterPending(m)
      BY <3>2 DEF IInv, TypeOK, StoresTypeOK
    <3> QED
      BY <3>1, <3>2
  <2>3. pending' \in [Docs -> Versions \cup {0}]
    BY <1>1 DEF IInv, TypeOK, StoresTypeOK
  <2> QED
    BY <2>1, <2>2, <2>3 DEF StoresTypeOK
<1>5. IndexerTypeOK' /\ ReviewTypeOK'
  BY <1>2 DEF IInv, TypeOK, IndexerTypeOK, ReviewTypeOK, Queue!TypeOK, IngestState
<1>6. ASSUME NEW k \in Messages PROVE AttemptInv(k)'
  <2>1. CASE k # m
    <3>1. state'[k] = state[k] /\ text'[k] = text[k]
      BY <2>1 DEF IInv, TypeOK, IndexerTypeOK
    <3>2. \A e \in Docs : written'[e] >= written[e]
      BY <1>2 DEF IInv, TypeOK, IndexerTypeOK
    <3> QED
      BY <1>2, <1>3, <1>5, <3>1, <3>2, AttemptFrame
  <2>2. CASE k = m
    <3>1. Recorded(m)'
      BY <1>1, <1>2 DEF Recorded, Doc, IInv, TypeOK, StoresTypeOK
    <3>2. state'[m] \in {"persisted", "registered"}
      BY DEF IInv, TypeOK, IndexerTypeOK
    <3> QED
      BY <1>1, <1>2, <2>2, <3>1, <3>2 DEF IInv, AttemptInv, Doc
  <2> QED
    BY <2>1, <2>2
<1>7. ASSUME NEW e \in Docs PROVE RowInv(e)' /\ PendingInv(e)'
  <2>1. RowInv(e) /\ PendingInv(e) /\ recorded[e] \subseteq recorded'[e]
    BY <1>3 DEF IInv
  <2>2. CASE e # d
    <3>1. rows'[e] = rows[e] /\ pending'[e] = pending[e]
      BY <2>2 DEF IInv, TypeOK, StoresTypeOK
    <3> QED
      BY <2>1, <3>1 DEF RowInv, PendingInv
  <2>3. CASE e = d /\ Persist(m)
    <3>1. rows'[e] = [version |-> text[m], roles |-> Tags(e)] /\ pending'[e] = pending[e]
      BY <1>1, <2>3 DEF IInv, TypeOK, StoresTypeOK
    <3>2. ~NeedsReview(e) /\ Tags(e) # {}
      BY <2>3
    <3> QED
      BY <2>1, <3>1, <3>2, TagsAreSiloRoles DEF RowInv, PendingInv
  <2>4. CASE e = d /\ RegisterPending(m)
    <3>1. rows'[e] = rows[e] /\ pending'[e] = text[m] /\ text[m] \in recorded'[e]
      BY <1>1, <1>2, <2>4 DEF IInv, TypeOK, StoresTypeOK
    <3> QED
      BY <2>1, <2>4, <3>1 DEF RowInv, PendingInv
  <2> QED
    BY <2>2, <2>3, <2>4
<1>8. ASSUME NEW a \in Admins PROVE RequestInv(a)'
  <2>1. \A e \in Docs : rows[e].version # 0 => rows'[e].version # 0
    BY <1>1 DEF IInv, TypeOK, StoresTypeOK
  <2> QED
    BY <1>2, <1>3, <2>1 DEF IInv, RequestInv
<1> QED
  BY <1>4, <1>5, <1>6, <1>7, <1>8 DEF IInv, TypeOK

\* Steps of a review disturb neither the queue nor the attempts.
LEMMA ReviewFrame ==
  ASSUME IInv, UNCHANGED indexerVars, UNCHANGED recorded
  PROVE  IndexerTypeOK' /\ \A m \in Messages : AttemptInv(m)'
<1>1. IndexerTypeOK'
  BY DEF IInv, TypeOK, IndexerTypeOK, Queue!TypeOK, indexerVars
<1>2. ASSUME NEW m \in Messages PROVE AttemptInv(m)'
  BY DEF IInv, AttemptInv, Recorded, Doc, indexerVars
<1> QED
  BY <1>1, <1>2

\* Steps of a review that write to neither store.
LEMMA RequestFrame ==
  ASSUME IInv, UNCHANGED indexerVars, UNCHANGED storeVars,
         ReviewTypeOK', \A a \in Admins : RequestInv(a)'
  PROVE  IInv'
BY ReviewFrame
   DEF IInv, TypeOK, StoresTypeOK, storeVars, RowInv, PendingInv

\* What a request record may become.
LEMMA RequestTypes ==
  /\ NoRequest \in Request
  /\ \A code \in Statuses : [NoRequest EXCEPT !.status = code] \in Request
  /\ \A r \in Request, pc \in {"loaded", "stored"}, v \in Versions \cup {0} :
       [r EXCEPT !.pc = pc, !.item = v] \in Request
<1>1. NoRequest \in Request
  BY DEF NoRequest, Request, Statuses
<1>2. ASSUME NEW code \in Statuses PROVE [NoRequest EXCEPT !.status = code] \in Request
  BY <1>2 DEF NoRequest, Request, Statuses
<1>3. ASSUME NEW r \in Request, NEW pc \in {"loaded", "stored"}, NEW v \in Versions \cup {0}
      PROVE  [r EXCEPT !.pc = pc, !.item = v] \in Request
  BY <1>3 DEF Request
<1> QED
  BY <1>1, <1>2, <1>3

\* What the page sends is a request.
LEMMA SubmittedIsRequest ==
  ASSUME NEW d \in Docs, NEW k \in {"publish", "discard"}, NEW R \in SUBSET Roles,
         NEW v \in Versions \cup {0}
  PROVE  [pc |-> "submitted", kind |-> k, doc |-> d, roles |-> R, reviewed |-> v,
          item |-> 0, status |-> 0] \in Request
BY DEF Request, Statuses

\* A page loads its list, or sends a request.
LEMMA PageKeepsIInv ==
  ASSUME IInv, UNCHANGED indexerVars, NEW a \in Admins,
         \/ \E g \in Agents : ListPending(a, g)
         \/ \E d \in Docs, R \in SUBSET Roles : Publish(a, d, R) \/ Discard(a, d)
  PROVE  IInv'
<1>1. CASE \E g \in Agents : ListPending(a, g)
  <2>1. UNCHANGED storeVars /\ UNCHANGED request
    BY <1>1 DEF ListPending
  <2>2. ReviewTypeOK'
    BY <1>1 DEF ListPending, IInv, TypeOK, ReviewTypeOK, StoresTypeOK
  <2>3. \A b \in Admins : RequestInv(b)'
    BY <2>1 DEF IInv, RequestInv, storeVars
  <2> QED
    BY <2>1, <2>2, <2>3, RequestFrame
<1>2. CASE \E d \in Docs, R \in SUBSET Roles : Publish(a, d, R) \/ Discard(a, d)
  <2>1. PICK d \in Docs, k \in {"publish", "discard"}, R \in SUBSET Roles : Submit(a, d, k, R)
    BY <1>2 DEF Publish, Discard
  <2>2. UNCHANGED storeVars /\ UNCHANGED screen
    BY <2>1 DEF Submit
  <2>3. PICK r \in Request : r.pc = "submitted" /\ r.doc = d /\ request' = [request EXCEPT ![a] = r]
    <3>1. screen[a][d] \in Versions \cup {0}
      BY DEF IInv, TypeOK, ReviewTypeOK
    <3> QED
      BY <2>1, <3>1, SubmittedIsRequest DEF Submit
  <2>4. ReviewTypeOK'
    BY <2>2, <2>3 DEF IInv, TypeOK, ReviewTypeOK
  <2>5. \A b \in Admins : RequestInv(b)'
    BY <2>2, <2>3 DEF IInv, TypeOK, ReviewTypeOK, RequestInv, storeVars
  <2> QED
    BY <2>2, <2>4, <2>5, RequestFrame
<1> QED
  BY <1>1, <1>2

\* A request is answered without having changed anything.
LEMMA AnswerKeepsIInv ==
  ASSUME IInv, UNCHANGED indexerVars, NEW a \in Admins, NEW code \in Statuses,
         Answer(a, code), UNCHANGED screen, UNCHANGED storeVars
  PROVE  IInv'
<1>1. ReviewTypeOK'
  BY RequestTypes DEF Answer, IInv, TypeOK, ReviewTypeOK
<1>2. ASSUME NEW b \in Admins PROVE RequestInv(b)'
  BY DEF Answer, NoRequest, IInv, TypeOK, ReviewTypeOK, RequestInv, storeVars
<1> QED
  BY <1>1, <1>2, RequestFrame

\* get_item finds the staged version: it was recorded, and needs review.
LEMMA LoadKeepsIInv ==
  ASSUME IInv, UNCHANGED indexerVars, NEW a \in Admins, LoadItem(a)
  PROVE  IInv'
<1> DEFINE d == request[a].doc
<1>1. UNCHANGED storeVars /\ UNCHANGED screen
  BY DEF LoadItem
<1>2. CASE pending[d] = 0
  BY <1>1, <1>2, AnswerKeepsIInv DEF LoadItem, Statuses
<1>3. CASE pending[d] # 0
  <2>1. /\ d \in Docs /\ NeedsReview(d) /\ pending[d] \in recorded[d]
        /\ ~Rejected(request[a]) /\ request[a].kind = "publish"
    BY <1>3 DEF LoadItem, Accepted, At, IInv, RequestInv, PendingInv
  <2>2. request' = [request EXCEPT ![a] = [@ EXCEPT !.pc = "loaded", !.item = pending[d]]]
    BY <1>3 DEF LoadItem, Goto
  <2>3. pending[d] \in Versions \cup {0}
    BY <2>1 DEF IInv, TypeOK, StoresTypeOK
  <2>4. ReviewTypeOK'
    BY <1>1, <2>2, <2>3, RequestTypes DEF IInv, TypeOK, ReviewTypeOK
  <2>5. ASSUME NEW b \in Admins PROVE RequestInv(b)'
    BY <1>1, <2>1, <2>2 DEF IInv, TypeOK, ReviewTypeOK, Request, RequestInv, Rejected, storeVars
  <2> QED
    BY <1>1, <2>4, <2>5, RequestFrame
<1> QED
  BY <1>2, <1>3

\* The upsert: staged content, roles of the silo.
LEMMA StoreKeepsIInv ==
  ASSUME IInv, UNCHANGED indexerVars, NEW a \in Admins, StoreRow(a)
  PROVE  IInv'
<1> DEFINE d == request[a].doc
<1> DEFINE v == request[a].item
<1> DEFINE R == request[a].roles
<1>1. /\ d \in Docs /\ NeedsReview(d) /\ v \in recorded[d]
      /\ R # {} /\ R \subseteq SiloRoles[SiloOf[d]]
      /\ ~Rejected(request[a]) /\ request[a].kind = "publish"
  BY DEF StoreRow, At, IInv, RequestInv, Rejected
<1>2. v \in Versions /\ v # 0
  BY <1>1, VersionsAreNumbers DEF IInv, TypeOK, StoresTypeOK
<1>3. /\ rows' = [rows EXCEPT ![d] = [version |-> v, roles |-> R]]
      /\ request' = [request EXCEPT ![a] = [@ EXCEPT !.pc = "stored", !.item = v]]
      /\ UNCHANGED <<screen, pending, recorded>>
  BY DEF StoreRow, Upsert, Goto
<1>4. StoresTypeOK'
  <2>1. [version |-> v, roles |-> R] \in Row
    BY <1>1, <1>2, SiloRolesAreRoles DEF Row
  <2> QED
    BY <1>3, <2>1 DEF IInv, TypeOK, StoresTypeOK
<1>5. ReviewTypeOK'
  BY <1>2, <1>3, RequestTypes DEF IInv, TypeOK, ReviewTypeOK
<1>6. ASSUME NEW e \in Docs PROVE RowInv(e)' /\ PendingInv(e)'
  BY <1>1, <1>3 DEF IInv, TypeOK, StoresTypeOK, RowInv, PendingInv
<1>7. ASSUME NEW b \in Admins PROVE RequestInv(b)'
  <2>1. \A e \in Docs : rows[e].version # 0 => rows'[e].version # 0
    BY <1>2, <1>3 DEF IInv, TypeOK, StoresTypeOK
  <2>2. rows'[d].version # 0
    BY <1>1, <1>2, <1>3 DEF IInv, TypeOK, StoresTypeOK
  <2>3. CASE b = a
    BY <1>1, <1>3, <2>2, <2>3 DEF IInv, TypeOK, ReviewTypeOK, Request, RequestInv, Rejected
  <2>4. CASE b # a
    BY <1>3, <2>1, <2>4 DEF IInv, TypeOK, ReviewTypeOK, RequestInv
  <2> QED
    BY <2>3, <2>4
<1> QED
  BY <1>3, <1>4, <1>5, <1>6, <1>7, ReviewFrame DEF IInv, TypeOK

\* The item goes, by publish or by discard.
LEMMA DeleteKeepsIInv ==
  ASSUME IInv, UNCHANGED indexerVars, NEW a \in Admins, RemoveItem(a) \/ DropItem(a)
  PROVE  IInv'
<1> DEFINE d == request[a].doc
<1>1. PICK code \in Statuses :
        /\ pending' = [pending EXCEPT ![d] = 0]
        /\ request' = [request EXCEPT ![a] = [NoRequest EXCEPT !.status = code]]
        /\ UNCHANGED <<screen, rows, recorded>>
  BY DEF RemoveItem, DropItem, DeleteItem, Answer, Statuses
<1>2. StoresTypeOK' /\ ReviewTypeOK'
  BY <1>1, RequestTypes DEF IInv, TypeOK, StoresTypeOK, ReviewTypeOK
<1>3. ASSUME NEW e \in Docs PROVE RowInv(e)' /\ PendingInv(e)'
  BY <1>1 DEF IInv, TypeOK, StoresTypeOK, RowInv, PendingInv
<1>4. ASSUME NEW b \in Admins PROVE RequestInv(b)'
  BY <1>1 DEF NoRequest, IInv, TypeOK, ReviewTypeOK, RequestInv
<1> QED
  BY <1>1, <1>2, <1>3, <1>4, ReviewFrame DEF IInv, TypeOK

\* The inductive step, action by action.
LEMMA NextIInv == IInv /\ [Next]_vars => IInv'
<1> SUFFICES ASSUME IInv, [Next]_vars PROVE IInv'
  OBVIOUS
<1>1. ASSUME NEW m \in Messages, IndexerStep(m), UNCHANGED reviewVars PROVE IInv'
  <2>1. CASE \/ \E d \in Docs : Produce(m, d) \/ NotifyAgain(m, d)
             \/ \E n \in Messages : HandOutAgain(m, n)
    BY <1>1, <2>1, ProducersKeepIInv
  <2>3. CASE SendOther(m) \/ Receive(m) \/ Bury(m) \/ GiveBack(m) \/ Fail(m)
    BY <1>1, <2>3, QueueKeepsIInv
  <2>4. CASE Embed(m)
    BY <1>1, <2>4, EmbedKeepsIInv
  <2>5. CASE Persist(m) \/ RegisterPending(m)
    BY <1>1, <2>5, WriteKeepsIInv
  <2>6. CASE Report(m)
    BY <1>1, <2>6, ReportKeepsIInv
  <2> QED
    BY <1>1, <2>1, <2>3, <2>4, <2>5, <2>6 DEF IndexerStep, Attempt
<1>2. ASSUME NEW a \in Admins, ReviewStep(a), UNCHANGED indexerVars PROVE IInv'
  <2>1. CASE \/ \E g \in Agents : ListPending(a, g)
             \/ \E d \in Docs : Discard(a, d) \/ \E R \in SUBSET Roles : Publish(a, d, R)
    BY <1>2, <2>1, PageKeepsIInv
  <2>2. CASE Unroutable(a) \/ Reject(a) \/ Abort(a)
    BY <1>2, <2>2, AnswerKeepsIInv DEF Unroutable, Reject, Abort, Statuses
  <2>3. CASE LoadItem(a)
    BY <1>2, <2>3, LoadKeepsIInv
  <2>4. CASE StoreRow(a)
    BY <1>2, <2>4, StoreKeepsIInv
  <2>5. CASE RemoveItem(a) \/ DropItem(a)
    BY <1>2, <2>5, DeleteKeepsIInv
  <2> QED
    BY <1>2, <2>1, <2>2, <2>3, <2>4, <2>5 DEF ReviewStep
<1>3. CASE UNCHANGED vars
  <2>1. UNCHANGED storeVars /\ UNCHANGED indexerVars /\ UNCHANGED reviewVars
    BY <1>3 DEF vars
  <2>2. ReviewTypeOK' /\ \A a \in Admins : RequestInv(a)'
    BY <2>1 DEF IInv, TypeOK, ReviewTypeOK, RequestInv, reviewVars, storeVars
  <2> QED
    BY <2>1, <2>2, RequestFrame
<1> QED
  BY <1>1, <1>2, <1>3 DEF Next, IndexerNext, ReviewNext

\* The invariant holds in every reachable state.
LEMMA SpecIInv == Spec => []IInv
BY InitIInv, NextIInv, PTL DEF Spec

-----------------------------------------------------------------------------
(* What follows from it *)

\* Every reachable state is of the declared type.
THEOREM TypeCorrect == Spec => []TypeOK
<1>1. IInv => TypeOK
  BY DEF IInv
<1> QED
  BY <1>1, SpecIInv, PTL

\* No message is acknowledged before its document is persisted or staged in the
\* announced version or a later one: redeliveries, crashes, lost answers and
\* any number of admins notwithstanding.
THEOREM ConsumptionIsSafe == Spec => []ConsumedIsRecorded
<1>1. IInv => ConsumedIsRecorded
  BY DEF IInv, AttemptInv, ConsumedIsRecorded
<1> QED
  BY <1>1, SpecIInv, PTL

\* ReviewGate reads the configuration through its own copy of Silos.
LEMMA GateAgrees ==
  \A d : (Gate!NeedsReview(d) <=> NeedsReview(d)) /\ Gate!Tags(d) = Tags(d)
BY DEF Gate!NeedsReview, Gate!Classified, Gate!Tags, NeedsReview, Classified, Tags

\* No row ever carries tags nobody gave it, tags of another silo, or none.
THEOREM RowsStayLawful == Spec => []RowsAreLawful
<1>1. IInv => RowsAreLawful
  BY GateAgrees DEF IInv, RowInv, RowsAreLawful, Gate!RowsAreLawful, Gate!RowIsLawful, Staged
<1> QED
  BY <1>1, SpecIInv, PTL

\* A document does not get lost between the review queue and the vector
\* database: publish stores the row before it deletes the item.
THEOREM QueueLosesNothing == Spec => LeavesQueueStoredOrDiscarded
<1> DEFINE Kept ==
      \A d \in Docs :
        pending[d] # 0 /\ pending'[d] = 0 =>
          rows[d].version # 0 \/ \E a \in Admins : Discarding(a, d)
<1>1. IInv /\ [Next]_vars => [Kept]_vars
  <2> SUFFICES ASSUME IInv, Next, NEW d \in Docs, pending[d] # 0, pending'[d] = 0
               PROVE  rows[d].version # 0 \/ \E a \in Admins : Discarding(a, d)
    OBVIOUS
  <2>1. pending' # pending
    OBVIOUS
  <2>2. ASSUME NEW m \in Messages, IndexerStep(m) PROVE FALSE
    <3>1. RegisterPending(m)
      BY <2>1, <2>2
         DEF IndexerStep, Attempt, Produce, NotifyAgain, HandOutAgain, SendFor, SendOther, Receive,
             Embed, Persist, Fail, Report, GiveBack, Bury, storeVars
    <3>2. text[m] # 0
      BY <3>1, VersionsAreNumbers DEF RegisterPending, IInv, AttemptInv
    <3> QED
      BY <3>1, <3>2 DEF RegisterPending, PutItem, IInv, TypeOK, StoresTypeOK
  <2>3. ASSUME NEW a \in Admins, ReviewStep(a)
        PROVE  rows[d].version # 0 \/ Discarding(a, d)
    <3>1. RemoveItem(a) \/ DropItem(a)
      BY <2>1, <2>3
         DEF ReviewStep, ListPending, Publish, Discard, Submit, Unroutable, Reject,
             LoadItem, StoreRow, Abort, storeVars
    <3>2. d = request[a].doc
      BY <3>1 DEF RemoveItem, DropItem, DeleteItem, IInv, TypeOK, StoresTypeOK
    <3>3. CASE RemoveItem(a)
      BY <3>2, <3>3 DEF RemoveItem, At, IInv, RequestInv
    <3>4. CASE DropItem(a)
      BY <3>2, <3>4 DEF DropItem, Accepted, At, Answer, NoRequest, Discarding,
                        IInv, TypeOK, ReviewTypeOK
    <3> QED
      BY <3>1, <3>3, <3>4
  <2> QED
    BY <2>2, <2>3 DEF Next, IndexerNext, ReviewNext
<1> QED
  BY <1>1, SpecIInv, PTL DEF Spec, LeavesQueueStoredOrDiscarded

-----------------------------------------------------------------------------
(* Refinement *)

\* A step that writes no row and records nothing is invisible to the gate.
LEMMA GateStutters ==
  ASSUME UNCHANGED <<rows, recorded>>
  PROVE  UNCHANGED Gate!vars
BY DEF Gate!vars, Staged, NeedsReview, Classified

\* The indexer's writes are the gate's StoreClassified and Stage.
LEMMA WriteRefinesGate ==
  ASSUME IInv, NEW m \in Messages, Persist(m) \/ RegisterPending(m)
  PROVE  Gate!Next
<1> DEFINE d == Doc(m)
<1>1. d \in Docs /\ text[m] \in Versions
  BY DEF Persist, RegisterPending, IInv, AttemptInv
<1>2. CASE Persist(m)
  <2>1. Staged' = Staged
    <3>1. ASSUME NEW e \in Docs, NeedsReview(e) PROVE recorded'[e] = recorded[e]
      BY <1>1, <1>2, <3>1 DEF Persist, IInv, TypeOK, StoresTypeOK
    <3> QED
      BY <3>1 DEF Staged, NeedsReview, Classified
  <2>2. Gate!StoreClassified(d, text[m])
    BY <1>2, <2>1, GateAgrees DEF Persist, Upsert, Gate!StoreClassified, Gate!Write
  <2> QED
    BY <1>1, <2>2 DEF Gate!Next
<1>3. CASE RegisterPending(m)
  <2>1. Staged' = [Staged EXCEPT ![d] = @ \cup {text[m]}]
    BY <1>1, <1>3 DEF RegisterPending, Staged, IInv, TypeOK, StoresTypeOK
  <2>2. Gate!Stage(d, text[m])
    BY <1>3, <2>1, GateAgrees DEF RegisterPending, Gate!Stage
  <2> QED
    BY <1>1, <2>2 DEF Gate!Next
<1> QED
  BY <1>2, <1>3

\* The admin's upsert is the gate's Release.
LEMMA StoreRefinesGate ==
  ASSUME IInv, NEW a \in Admins, StoreRow(a)
  PROVE  Gate!Next
<1> DEFINE r == request[a]
<1>1. /\ r.doc \in Docs /\ NeedsReview(r.doc) /\ r.item \in recorded[r.doc]
      /\ r.roles # {} /\ r.roles \subseteq SiloRoles[SiloOf[r.doc]]
  BY DEF StoreRow, At, IInv, RequestInv, Rejected
<1>2. r.item \in Versions /\ r.roles \in SUBSET Roles
  BY <1>1, SiloRolesAreRoles DEF IInv, TypeOK, StoresTypeOK
<1>3. Staged' = Staged
  BY DEF StoreRow, Staged, NeedsReview, Classified
<1>4. Gate!Release(r.doc, r.item, r.roles)
  BY <1>1, <1>3, GateAgrees DEF StoreRow, Upsert, Gate!Release, Gate!Write, Staged
<1> QED
  BY <1>1, <1>2, <1>4 DEF Gate!Next

\* Whatever the two components do, the gate sees one of its own actions or nothing.
LEMMA NextRefinesGate == IInv /\ [Next]_vars => [Gate!Next]_(Gate!vars)
<1> SUFFICES ASSUME IInv, [Next]_vars
             PROVE  Gate!Next \/ UNCHANGED Gate!vars
  OBVIOUS
<1>1. ASSUME NEW m \in Messages, IndexerStep(m)
      PROVE  Gate!Next \/ UNCHANGED <<rows, recorded>>
  BY <1>1, WriteRefinesGate
     DEF IndexerStep, Attempt, Produce, NotifyAgain, HandOutAgain, SendFor, SendOther, Receive,
         Embed, Fail, Report, GiveBack, Bury, storeVars
<1>2. ASSUME NEW a \in Admins, ReviewStep(a)
      PROVE  Gate!Next \/ UNCHANGED <<rows, recorded>>
  BY <1>2, StoreRefinesGate
     DEF ReviewStep, ListPending, Publish, Discard, Submit, Unroutable, Reject,
         LoadItem, RemoveItem, DropItem, Abort, storeVars
<1>3. ASSUME UNCHANGED vars PROVE UNCHANGED <<rows, recorded>>
  BY <1>3 DEF vars, storeVars
<1> QED
  BY <1>1, <1>2, <1>3, GateStutters DEF Next, IndexerNext, ReviewNext

\* Indexer and admin API together implement the review gate.
THEOREM FlowImplementsReviewGate == Spec => ImplementsReviewGate
<1>1. Init => Gate!Init
  BY DEF Init, StoresInit, NoRow, Gate!Init, Staged
<1> QED
  BY <1>1, NextRefinesGate, SpecIInv, PTL DEF Spec, ImplementsReviewGate, Gate!Spec

\* The gate writes versions that are none of "no row", and only the tags of the
\* classification where there is one; rows carry those already.
THEOREM VisibilityLasts == Spec => StoredStaysVisible
<1> DEFINE Stays ==
      \A d \in Docs :
        rows[d].version # 0 =>
          /\ rows'[d].version # 0
          /\ ~NeedsReview(d) => rows'[d].roles = rows[d].roles
<1>1. IInv /\ [Next]_vars => [Stays]_vars
  <2> SUFFICES ASSUME IInv, [Next]_vars, NEW d \in Docs, rows[d].version # 0
               PROVE  /\ rows'[d].version # 0
                      /\ ~NeedsReview(d) => rows'[d].roles = rows[d].roles
    OBVIOUS
  <2>0. rows \in [Docs -> Row] /\ (~NeedsReview(d) => rows[d].roles = Tags(d))
    BY DEF IInv, TypeOK, StoresTypeOK, RowInv
  <2>1. CASE UNCHANGED Gate!vars
    BY <2>0, <2>1 DEF Gate!vars
  <2>2. ASSUME NEW e \in Docs, NEW v \in Versions, NEW R,
               Gate!Write(e, v, R), ~NeedsReview(e) => R = Tags(e)
        PROVE  /\ rows'[d].version # 0
               /\ ~NeedsReview(d) => rows'[d].roles = rows[d].roles
    <3>1. rows' = [rows EXCEPT ![e] = [version |-> v, roles |-> R]] /\ v # 0
      BY <2>2, VersionsAreNumbers DEF Gate!Write
    <3> QED
      BY <2>0, <2>2, <3>1
  <2>3. CASE Gate!Next
    <3>1. PICK e \in Docs, v \in Versions :
            \/ Gate!StoreClassified(e, v) \/ Gate!Stage(e, v)
            \/ \E R \in SUBSET Roles : Gate!Release(e, v, R)
      BY <2>3 DEF Gate!Next
    <3>2. CASE Gate!Stage(e, v)
      BY <2>0, <3>2 DEF Gate!Stage
    <3>3. CASE Gate!StoreClassified(e, v)
      BY <2>2, <3>3, GateAgrees DEF Gate!StoreClassified
    <3>4. ASSUME NEW R \in SUBSET Roles, Gate!Release(e, v, R)
          PROVE  Gate!Write(e, v, R) /\ NeedsReview(e)
      BY <3>4, GateAgrees DEF Gate!Release
    <3> QED
      BY <2>2, <3>1, <3>2, <3>3, <3>4
  <2> QED
    BY <2>1, <2>3, NextRefinesGate
<1> QED
  BY <1>1, SpecIInv, PTL DEF Spec, StoredStaysVisible

\* The indexer and its producers use the queue through Delivery's actions only:
\* what IngestQueue is proved to implement is all that the indexer relies on.
THEOREM FlowUsesDelivery == Spec => Queue!Spec
<1>1. Init => Queue!Init
  BY DEF Init, IndexerInit
<1>2. [Next]_vars => [Queue!Next]_(Queue!vars)
  <2> SUFFICES ASSUME [Next]_vars
               PROVE  Queue!Next \/ UNCHANGED <<mstate, receives>>
    BY DEF Queue!vars
  <2>1. ASSUME NEW m \in Messages, IndexerStep(m)
        PROVE  Queue!Next \/ UNCHANGED <<mstate, receives>>
    <3>1. CASE \/ \E d \in Docs : Produce(m, d) \/ NotifyAgain(m, d)
               \/ \E n \in Messages : HandOutAgain(m, n)
               \/ SendOther(m) \/ GiveBack(m) \/ Bury(m)
      BY <3>1 DEF Produce, NotifyAgain, HandOutAgain, SendFor, SendOther, GiveBack, Bury, Queue!Next
    <3>2. CASE Receive(m) \/ Report(m)
      <4>1. {m} \in SUBSET Messages
        OBVIOUS
      <4> QED
        BY <3>2, <4>1 DEF Receive, Report, Queue!Next
    <3>3. CASE Attempt(m)
      BY <3>3 DEF Attempt, Embed, Persist, RegisterPending, Fail, queueVars
    <3> QED
      BY <2>1, <3>1, <3>2, <3>3 DEF IndexerStep
  <2>2. CASE UNCHANGED indexerVars
    BY <2>2 DEF indexerVars
  <2> QED
    BY <2>1, <2>2 DEF Next, IndexerNext, vars
<1> QED
  BY <1>1, <1>2, PTL DEF Spec, Queue!Spec

-----------------------------------------------------------------------------
(* Storage and access together *)

\* A ladder of roles R adds nothing but roles of R, and those only to a caller who
\* holds one of them.
LEMMA ExpandNeedsARole ==
  ASSUME NEW R, NEW L \in Seq(R), NEW G, NEW r \in Expand(L, G) \ G
  PROVE  r \in R /\ G \cap R # {}
<1>1. PICK i \in DOMAIN L, k \in Ranks(L, G) : L[i] = r
  BY DEF Expand, Outranked
<1>2. L[i] \in R /\ L[k] \in R /\ L[k] \in G
  BY DEF Ranks
<1> QED
  BY <1>1, <1>2

\* Who sees the row of d by the document filter, with the groups G and the ladder
\* L, may use its silo; and a row of an AllUser silo is seen by all who may.
FilterFitsGate(d, G, L) ==
  rows[d].version # 0 =>
    LET R == SiloRoles[SiloOf[d]]
        sees == Matches(rows[d].roles, Expand(L, G))
    IN  /\ sees => Permitted(R, G)
        /\ Workflow[SiloOf[d]] = "AllUser" /\ Permitted(R, G) => sees

\* The layers of access control agree on everything that ingest and review ever
\* put into a database, whatever they do at a time: no role of another silo, and
\* no ladder, opens a row to a caller the silo's gate turns away.
THEOREM StoredDocumentsAreGated ==
  ASSUME Superuser \notin Roles
  PROVE  Spec => [](\A d \in Docs : \A G \in SUBSET (Roles \cup {Superuser}) :
                      \A L \in Seq(SiloRoles[SiloOf[d]]) : FilterFitsGate(d, G, L))
<1>1. ASSUME IInv, NEW d \in Docs, NEW G \in SUBSET (Roles \cup {Superuser}),
             NEW L \in Seq(SiloRoles[SiloOf[d]]), rows[d].version # 0
      PROVE  FilterFitsGate(d, G, L)
  <2> DEFINE R == SiloRoles[SiloOf[d]]
  <2>1. /\ rows[d].roles # {} /\ rows[d].roles \subseteq R
        /\ ~NeedsReview(d) => rows[d].roles = Tags(d)
    BY <1>1 DEF IInv, RowInv
  <2>2. Superuser \notin R
    BY SiloRolesAreRoles
  <2>3. ASSUME Matches(rows[d].roles, Expand(L, G)) PROVE Permitted(R, G)
    <3>1. CASE Superuser \in Expand(L, G)
      BY <2>2, <3>1, ExpandNeedsARole DEF Permitted
    <3>2. CASE \E r \in rows[d].roles : r \in Expand(L, G)
      BY <2>1, <3>2, ExpandNeedsARole DEF Permitted
    <3> QED
      BY <2>3, <3>1, <3>2 DEF Matches
  <2>4. ASSUME Workflow[SiloOf[d]] = "AllUser", Permitted(R, G)
        PROVE  Matches(rows[d].roles, Expand(L, G))
    <3>1. rows[d].roles = R
      BY <2>1, <2>4 DEF NeedsReview, Tags
    <3> QED
      BY <2>4, <3>1 DEF Permitted, Matches, Expand
  <2> QED
    BY <2>3, <2>4 DEF FilterFitsGate
<1>2. IInv => \A d \in Docs : \A G \in SUBSET (Roles \cup {Superuser}) :
                \A L \in Seq(SiloRoles[SiloOf[d]]) : FilterFitsGate(d, G, L)
  BY <1>1 DEF FilterFitsGate
<1> QED
  BY <1>2, SpecIInv, PTL
=============================================================================
