----------------------------- MODULE AdminReview -----------------------------
(***************************************************************************)
(* The admin API of the orchestrator (app/admin.py) and the review page    *)
(* that calls it.  The orchestrator serves the requests of several admins  *)
(* at once, and the indexer writes the pending table meanwhile, so publish *)
(* is three steps: get_item, the upsert into Postgres, delete_item.        *)
(*                                                                         *)
(*   screen    what each admin's page shows: the pending version of each   *)
(*             document when the list was last loaded; 0: not shown        *)
(*   request   the request each admin's page has outstanding               *)
(*                                                                         *)
(* Admins hold the Superuser role (require_superuser).                     *)
(***************************************************************************)
EXTENDS DocumentStores

CONSTANT Admins

VARIABLES screen, request

reviewVars == <<screen, request>>

Statuses == {0, 200, 400, 404, 405, 422, 500}

Request ==
  [pc : {"idle", "submitted", "loaded", "stored"},
   kind : {"publish", "discard"},
   doc : Docs \cup {NoDoc},
   roles : SUBSET Roles,             \* PublishBody.roles
   reviewed : Versions \cup {0},     \* the version the admin was looking at
   item : Versions \cup {0},         \* the version get_item returned
   status : Statuses]                \* of the last answer, when idle

ReviewTypeOK ==
  /\ screen \in [Admins -> [Docs -> Versions \cup {0}]]
  /\ request \in [Admins -> Request]

NoRequest ==
  [pc |-> "idle", kind |-> "discard", doc |-> NoDoc, roles |-> {}, reviewed |-> 0,
   item |-> 0, status |-> 0]

ReviewInit ==
  /\ screen = [a \in Admins |-> [d \in Docs |-> 0]]
  /\ request = [a \in Admins |-> NoRequest]

-----------------------------------------------------------------------------
(* The page *)

\* GET /pending/{agent_id} and setPending: the page shows one silo's documents.
\* It loads them when a silo is chosen and after every 200; the load may fail,
\* and then the page goes on showing what it had.
ListPending(a, g) ==
  /\ request[a].pc = "idle"
  /\ screen' = [screen EXCEPT ![a] = [d \in Docs |-> IF SiloOf[d] = g THEN pending[d] ELSE 0]]
  /\ UNCHANGED request
  /\ UNCHANGED storeVars

Submit(a, d, k, R) ==
  /\ request[a].pc = "idle"
  /\ screen[a][d] # 0
  /\ request' = [request EXCEPT ![a] =
       [pc |-> "submitted", kind |-> k, doc |-> d, roles |-> R,
        reviewed |-> screen[a][d], item |-> 0, status |-> 0]]
  /\ UNCHANGED screen
  /\ UNCHANGED storeVars

\* Publish with the roles checked, if any, or Discard.
Publish(a, d, R) == Submit(a, d, "publish", R)
Discard(a, d) == Submit(a, d, "discard", {})

-----------------------------------------------------------------------------
(* The server *)

At(a, pc) == request[a].pc = pc

Goto(a, pc, v) ==
  request' = [request EXCEPT ![a] = [@ EXCEPT !.pc = pc, !.item = v]]

\* The request is over; the page may send the next one.
Answer(a, code) ==
  request' = [request EXCEPT ![a] = [NoRequest EXCEPT !.status = code]]

\* A path parameter matches no "/", and the id of a bucket document, decoded
\* from the path, is s3://bucket/key: such a request falls through to the
\* mounted SPA, which takes neither POST nor DELETE.
Unroutable(a) ==
  /\ At(a, "submitted")
  /\ request[a].doc \in FromBucket
  /\ Answer(a, 405)
  /\ UNCHANGED screen
  /\ UNCHANGED storeVars

\* Faulty variant: the roles only have to be some.
RejectedIfEmpty(r) == r.kind = "publish" /\ r.roles = {}

\* Field(min_length=1), then the roles must be the silo's.
Rejected(r) ==
  /\ r.kind = "publish"
  /\ r.roles = {} \/ ~ r.roles \subseteq SiloRoles[SiloOf[r.doc]]

\* In between publish looks the agent up, and the registry may not know it: its
\* stack has been deleted, or is not in the copy yet.
Reject(a) ==
  /\ At(a, "submitted") /\ request[a].kind = "publish"
  /\ request[a].doc \notin FromBucket
  /\ LET R == request[a].roles IN
     \/ Rejected(request[a]) /\ Answer(a, IF R = {} THEN 422 ELSE 400)
     \/ R # {} /\ Answer(a, 404)
  /\ UNCHANGED screen
  /\ UNCHANGED storeVars

Accepted(a, kind) ==
  /\ At(a, "submitted") /\ request[a].kind = kind
  /\ request[a].doc \notin FromBucket
  /\ ~Rejected(request[a])

\* publish: table.get_item
LoadItem(a) ==
  /\ Accepted(a, "publish")
  /\ IF pending[request[a].doc] = 0
     THEN Answer(a, 404)
     ELSE Goto(a, "loaded", pending[request[a].doc])
  /\ UNCHANGED screen
  /\ UNCHANGED storeVars

\* Faulty variant: the item is deleted first, and the row stored after that.
DeleteFirst(a) ==
  /\ At(a, "loaded")
  /\ DeleteItem(request[a].doc)
  /\ Goto(a, "stored", request[a].item)
  /\ UNCHANGED <<screen, rows, recorded>>

\* publish: await retriever.publish
StoreRow(a) ==
  /\ At(a, "loaded")
  /\ Upsert(request[a].doc, request[a].item, request[a].roles)
  /\ Goto(a, "stored", request[a].item)
  /\ UNCHANGED <<screen, pending, recorded>>

\* publish: table.delete_item.  The call may take effect and still raise.
RemoveItem(a) ==
  /\ At(a, "stored")
  /\ DeleteItem(request[a].doc)
  /\ Answer(a, 200) \/ Answer(a, 500)
  /\ UNCHANGED <<screen, rows, recorded>>

\* discard: table.delete_item, whether there is an item or not
DropItem(a) ==
  /\ Accepted(a, "discard")
  /\ DeleteItem(request[a].doc)
  /\ Answer(a, 200) \/ Answer(a, 500)
  /\ UNCHANGED <<screen, rows, recorded>>

\* A call to DynamoDB or Postgres raises, or the task stops.
Abort(a) ==
  /\ ~At(a, "idle")
  /\ Answer(a, 500)
  /\ UNCHANGED screen
  /\ UNCHANGED storeVars

-----------------------------------------------------------------------------
ReviewStep(a) ==
  \/ \E g \in Agents : ListPending(a, g)
  \/ \E d \in Docs : Discard(a, d) \/ \E R \in SUBSET Roles : Publish(a, d, R)
  \/ Unroutable(a) \/ Reject(a)
  \/ LoadItem(a) \/ StoreRow(a) \/ RemoveItem(a) \/ DropItem(a)
  \/ Abort(a)

ReviewNext == \E a \in Admins : ReviewStep(a)
=============================================================================
