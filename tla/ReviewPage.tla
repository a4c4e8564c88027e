----------------------------- MODULE ReviewPage -----------------------------
(***************************************************************************)
(* The review page, Admin.tsx, as one mounted component: several requests  *)
(* of it can be under way, the silo picked can change meanwhile, and each  *)
(* response acts on the page as it then is.  What publish and discard do   *)
(* to the stores is AdminReview's subject; here the indexer and other      *)
(* admins may have changed the pending table before every response.        *)
(*                                                                         *)
(*   agents    listAgents has answered                                     *)
(*   picked    the silo whose documents the page asks for, or NoSilo       *)
(*   pending   the documents on the page                                   *)
(*   selected  the roles ticked, by source id only                         *)
(*   acting    the document whose buttons are disabled (busy), or NoDoc    *)
(*   lists     how many listPending requests are under way for each silo   *)
(*   acts      the publish and discard requests under way                  *)
(*   ticks     history: which roles were ticked while which silo was       *)
(*             picked                                                      *)
(***************************************************************************)
EXTENDS Naturals, Sessions

CONSTANTS
  Docs, NoDoc,    \* source ids; the same one may occur in several silos
  Roles, SiloRoles,
  NoSilo,
  Slots,          \* bound: publish and discard requests under way
  MaxLists        \* bound: listPending requests under way for one silo

ASSUME ReviewAssumption ==
  /\ NoDoc \notin Docs /\ NoSilo \notin Silos
  /\ SiloRoles \in [Silos -> SUBSET Roles]
  /\ \A g, h \in Silos : g # h => SiloRoles[g] \cap SiloRoles[h] = {}
  /\ MaxLists \in Nat

VARIABLES agents, picked, pending, selected, acting, lists, acts, ticks

reviewVars == <<agents, picked, pending, selected, acting, lists, acts, ticks>>

\* A publish or discard under way, its response and the refresh that follows.
Act ==
  [status : {"sent", "done", "refused", "refreshing"},
   kind : {"publish", "discard"},
   user : Users,
   silo : Silos,
   doc : Docs,
   roles : SUBSET Roles,
   ticked : SUBSET Roles,  \* history: those ticked for doc with silo picked
   here : BOOLEAN]         \* the page that sent it is still mounted

NoAct == [status |-> "none"]

ReviewTypeOK ==
  /\ agents \in BOOLEAN
  /\ picked \in Silos \cup {NoSilo}
  /\ pending \in SUBSET Docs
  /\ selected \in [Docs -> SUBSET Roles]
  /\ acting \in Docs \cup {NoDoc}
  /\ lists \in [Silos -> 0..MaxLists]
  /\ acts \in [Slots -> Act \cup {NoAct}]
  /\ ticks \in SUBSET (Silos \X Docs \X Roles)

\* Initial state of the component.
FreshPage ==
  /\ agents = FALSE /\ picked = NoSilo /\ pending = {} /\ acting = NoDoc
  /\ selected = [d \in Docs |-> {}]
  /\ lists = [g \in Silos |-> 0]
  /\ ticks = {}

\* Its requests go on without it.
UnmountPage ==
  /\ agents' = FALSE /\ picked' = NoSilo /\ pending' = {} /\ acting' = NoDoc
  /\ selected' = [d \in Docs |-> {}]
  /\ lists' = [g \in Silos |-> 0]
  /\ ticks' = {}
  /\ acts' = [x \in Slots |-> IF acts[x] = NoAct THEN NoAct ELSE [acts[x] EXCEPT !.here = FALSE]]

-----------------------------------------------------------------------------
\* Faulty variant: every render loads the list again.
RefreshUncounted(g) == lists' = [lists EXCEPT ![g] = @ + 1]

\* refresh(id), when the silo picked changes.
Refresh(g) == lists' = [lists EXCEPT ![g] = IF @ < MaxLists THEN @ + 1 ELSE @]

\* listAgents answers with every silo, and the page picks the first.
AgentsArrive(g) ==
  /\ ~agents /\ Verified /\ Reviews(token)
  /\ agents' = TRUE /\ picked' = g
  /\ Refresh(g)
  /\ UNCHANGED <<pending, selected, acting, acts, ticks>>

Pick(g) ==
  /\ agents /\ g # picked
  /\ picked' = g
  /\ Refresh(g)
  /\ UNCHANGED <<agents, pending, selected, acting, acts, ticks>>

\* setPending with what listPending(g) found, whichever silo is picked by then;
\* an error leaves the documents as they are.
ListArrives(g, D) ==
  /\ lists[g] > 0
  /\ lists' = [lists EXCEPT ![g] = @ - 1]
  /\ pending' = IF Verified /\ Reviews(token) THEN D ELSE pending
  /\ UNCHANGED <<agents, picked, selected, acting, acts, ticks>>

\* The page offers the roles of the silo picked.
ToggleRole(d, r) ==
  /\ d \in pending /\ agents /\ r \in SiloRoles[picked]
  /\ IF r \in selected[d]
     THEN /\ selected' = [selected EXCEPT ![d] = @ \ {r}]
          /\ ticks' = ticks \ {<<picked, d, r>>}
     ELSE /\ selected' = [selected EXCEPT ![d] = @ \cup {r}]
          /\ ticks' = ticks \cup {<<picked, d, r>>}
  /\ UNCHANGED <<agents, picked, pending, acting, lists, acts>>

Click(x, k, d, R) ==
  /\ acts[x] = NoAct
  /\ d \in pending /\ acting # d
  /\ acting' = d
  /\ acts' = [acts EXCEPT ![x] =
       [status |-> "sent", kind |-> k, user |-> token, silo |-> picked, doc |-> d, roles |-> R,
        ticked |-> {r \in R : <<picked, d, r>> \in ticks}, here |-> TRUE]]
  /\ UNCHANGED <<agents, picked, pending, selected, lists, ticks>>

Publish(x, d) == selected[d] # {} /\ Click(x, "publish", d, selected[d])
Discard(x, d) == Click(x, "discard", d, {})

-----------------------------------------------------------------------------
To(x, status) == acts' = [acts EXCEPT ![x] = [@ EXCEPT !.status = status]]

\* Faulty variant: some role, whosever, is enough.
AcceptableIfAny(a) == Reviews(a.user) /\ (a.kind = "publish" => a.roles # {})

\* What admin.py accepts: a Superuser's request, with roles of the silo it names.
Acceptable(a) ==
  /\ Reviews(a.user)
  /\ a.kind = "publish" => a.roles # {} /\ a.roles \subseteq SiloRoles[a.silo]

\* The orchestrator carries the request out ...
Serve(x) ==
  /\ acts[x] # NoAct /\ acts[x].status = "sent"
  /\ Acceptable(acts[x])
  /\ To(x, "done")
  /\ UNCHANGED <<agents, picked, pending, selected, acting, lists, ticks>>

\* ... or refuses it, or fails: the item is gone, the token has expired.
Refuse(x) ==
  /\ acts[x] # NoAct /\ acts[x].status = "sent"
  /\ To(x, "refused")
  /\ UNCHANGED <<agents, picked, pending, selected, acting, lists, ticks>>

Forget(x) == acts' = [acts EXCEPT ![x] = NoAct]

\* A page that is gone takes no notice of the answer.
Unheard(x) ==
  /\ acts[x] # NoAct /\ ~acts[x].here /\ acts[x].status # "sent"
  /\ Forget(x)
  /\ UNCHANGED <<agents, picked, pending, selected, acting, lists, ticks>>

\* await refresh(agentId), for the silo that was picked at the click.
RefreshAfter(x) ==
  /\ acts[x] # NoAct /\ acts[x].here /\ acts[x].status = "done"
  /\ To(x, "refreshing")
  /\ UNCHANGED <<agents, picked, pending, selected, acting, lists, ticks>>

\* The refresh has answered, or there was none; finally setBusy(null), whoever
\* set it.
Finish(x, D) ==
  /\ acts[x] # NoAct /\ acts[x].here /\ acts[x].status \in {"refused", "refreshing"}
  /\ pending' = IF acts[x].status = "refreshing" /\ Verified /\ Reviews(token) THEN D ELSE pending
  /\ acting' = NoDoc
  /\ Forget(x)
  /\ UNCHANGED <<agents, picked, selected, lists, ticks>>

-----------------------------------------------------------------------------
PageStep ==
  \/ \E g \in Silos : AgentsArrive(g) \/ Pick(g) \/ \E D \in SUBSET Docs : ListArrives(g, D)
  \/ \E d \in Docs, r \in Roles : ToggleRole(d, r)
  \/ \E x \in Slots, d \in Docs : Publish(x, d) \/ Discard(x, d)

\* What becomes of a request, with or without the page.
ActStep(x) ==
  \/ Serve(x) \/ Refuse(x) \/ Unheard(x) \/ RefreshAfter(x)
  \/ \E D \in SUBSET Docs : Finish(x, D)
=============================================================================
