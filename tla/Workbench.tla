------------------------------ MODULE Workbench ------------------------------
(***************************************************************************)
(* The single-page app: App.tsx with the login, one chat or the review     *)
(* page mounted in it.  The shell is never unmounted: what it holds        *)
(* survives signing out and in again as somebody else, and the answer to   *)
(* a list request of an earlier user may come last.                        *)
(*                                                                         *)
(*   models     the silos in the sidebar                                   *)
(*   agentId    the silo chosen there, or NoSilo                           *)
(*   view       "chat" or "admin"                                          *)
(*   listing    how many listModels requests are under way for each user   *)
(***************************************************************************)
EXTENDS ChatPage, ReviewPage

CONSTANT MaxListings  \* bound: listModels requests under way for one user

ASSUME WorkbenchAssumption == MaxListings \in Nat \ {0}

VARIABLES models, agentId, view, listing

shellVars == <<models, agentId, view, listing>>
vars == <<sessionVars, chatVars, reviewVars, shellVars>>

TypeOK ==
  /\ SessionsTypeOK /\ ChatTypeOK /\ ReviewTypeOK
  /\ models \in SUBSET Silos
  /\ agentId \in Silos \cup {NoSilo}
  /\ view \in {"chat", "admin"}
  /\ listing \in [Users -> 0..MaxListings]

Init ==
  /\ SessionsInit /\ FreshChat /\ FreshPage
  /\ acts = [x \in Slots |-> NoAct]
  /\ models = {} /\ agentId = NoSilo /\ view = "chat"
  /\ listing = [u \in Users |-> 0]

\* What App renders: <Chat key={activeAgent.id}>, <Admin>, or neither.
Chatting == token # Nobody /\ view = "chat" /\ agentId \in models
Reviewing == token # Nobody /\ view = "admin"

\* Faulty variant: the chat is not keyed by the silo.
RenderUnkeyed ==
  /\ IF Chatting /\ Chatting' THEN UNCHANGED chatVars ELSE UnmountChat
  /\ IF Reviewing /\ Reviewing' THEN UNCHANGED reviewVars ELSE UnmountPage

\* React keeps a component's state while it is rendered in the same place with
\* the same key.
Render ==
  /\ IF Chatting /\ Chatting' /\ agentId' = agentId THEN UNCHANGED chatVars ELSE UnmountChat
  /\ IF Reviewing /\ Reviewing' THEN UNCHANGED reviewVars ELSE UnmountPage

-----------------------------------------------------------------------------
\* The effect on [token]: listModels.
ListModels(u) == listing' = [listing EXCEPT ![u] = IF @ < MaxListings THEN @ + 1 ELSE @]

\* Login's onLogin.
LogIn(u) ==
  /\ SignIn(u)
  /\ ListModels(u)
  /\ UNCHANGED <<models, agentId, view>>
  /\ Render

\* logout: the token goes, everything else of App stays.
LogOut ==
  /\ SignOut
  /\ UNCHANGED shellVars
  /\ Render

\* listModels answers with the silos u is permitted in, and App shows them and
\* chooses the first, whoever is signed in by now; an error is only noted.
ModelsArrive(u) ==
  /\ listing[u] > 0
  /\ listing' = [listing EXCEPT ![u] = @ - 1]
  /\ \/ /\ models' = MayUse[u]
        /\ IF models' = {} THEN UNCHANGED agentId ELSE agentId' \in models'
     \/ UNCHANGED <<models, agentId>>
  /\ UNCHANGED <<sessionVars, view>>
  /\ Render

\* A specialist in the sidebar.
Consult(g) ==
  /\ token # Nobody /\ g \in models
  /\ agentId' = g /\ view' = "chat"
  /\ UNCHANGED <<sessionVars, models, listing>>
  /\ Render

\* "Review documents", shown to Superusers.
Review ==
  /\ token \in Superusers
  /\ view' = "admin"
  /\ UNCHANGED <<sessionVars, models, agentId, listing>>
  /\ Render

\* The browser reloads the page: only the token is in sessionStorage.
Reload ==
  /\ models' = {} /\ agentId' = NoSilo /\ view' = "chat"
  /\ listing' = [u \in Users |-> IF u = token THEN 1 ELSE 0]
  /\ UNCHANGED sessionVars
  /\ UnmountChat /\ UnmountPage

ExpireToken == Expire /\ UNCHANGED <<shellVars, chatVars, reviewVars>>

Shell ==
  \/ \E u \in Users : LogIn(u) \/ ModelsArrive(u)
  \/ \E g \in Silos : Consult(g)
  \/ LogOut \/ Review \/ Reload \/ ExpireToken

Chat ==
  /\ Chatting
  /\ Submit(agentId) \/ Receive
  /\ UNCHANGED <<sessionVars, reviewVars, shellVars>>

ReviewDocuments ==
  /\ Reviewing /\ PageStep
  /\ UNCHANGED <<sessionVars, chatVars, shellVars>>

Request(x) == ActStep(x) /\ UNCHANGED <<sessionVars, chatVars, shellVars>>

Next == Shell \/ Chat \/ ReviewDocuments \/ \E x \in Slots : Request(x)

\* Every request is answered or fails: CloudFront gives up on an origin that is
\* silent for 60 seconds (readTimeout), and a stream ends with the model's answer.
Fairness ==
  /\ WF_vars(Chatting /\ EndStream /\ UNCHANGED <<sessionVars, reviewVars, shellVars>>)
  /\ \A x \in Slots : WF_vars(Request(x))

Spec == Init /\ [][Next]_vars /\ Fairness

-----------------------------------------------------------------------------
(* Properties *)

\* A conversation is between the user signed in and the silo on display: every
\* turn on the page, and with it the history of the next request, was exchanged
\* by them, whatever was switched while an answer streamed in.
ConversationIsOwn ==
  \A i \in DOMAIN messages : messages[i].user = token /\ messages[i].silo = agentId

\* An answer appears under its own question: Chat appends text to the last
\* message, and that is the one each stream under way was started for.
AnswersGoWhereAsked == \A s \in streams : s.at = Len(messages)

\* App.tsx, "UI convenience only": the sidebar may offer silos of an earlier user
\* of the tab, but no user reads an answer of a silo that user is not permitted
\* in, and nobody but a Superuser sees, publishes or discards documents.
PageRevealsNothing ==
  /\ \A i \in DOMAIN messages :
       messages[i].kind = "answer" => messages[i].silo \in MayUse[messages[i].user]
  /\ agents \/ pending # {} => token \in Superusers
  /\ \A x \in Slots : acts[x].status = "done" => acts[x].user \in Superusers

\* A document is published with roles the admin ticked for it in that silo, even
\* if the same source id occurs in several silos, whose ticks the page keeps in
\* one place, and the silo is switched between the ticks and the request.
PublishedRolesWereTicked ==
  \A x \in Slots : acts[x].status = "done" => acts[x].roles = acts[x].ticked

\* The composer and the buttons come back after every request, also one that was
\* refused or whose connection broke.
ControlsComeBack ==
  /\ busy ~> ~busy
  /\ \A d \in Docs : acting = d ~> acting # d

-----------------------------------------------------------------------------
(* The inductive invariant *)

\* A chat that is not rendered has no state; one that is has at most one
\* stream, for its last message, of the user signed in and the silo on display,
\* which answers only if that user is permitted in it.
ChatInv ==
  /\ ~Chatting => messages = <<>> /\ streams = {} /\ busy = FALSE
  /\ streams # {} => busy /\ Len(messages) > 0
  /\ \A s, t \in streams : s = t
  /\ \A s \in streams : s.user = token /\ s.silo = agentId
  /\ \A s \in streams : s.open => agentId \in MayUse[token]

\* What is selected for a document and is a role of some silo was ticked there.
TicksInv ==
  \A g \in Silos, d \in Docs : \A r \in selected[d] \cap SiloRoles[g] : <<g, d, r>> \in ticks

\* A page that shows nothing yet has asked for nothing; the one that shows the
\* silos is on display.
PageInv ==
  /\ agents => Reviewing /\ picked \in Silos /\ token \in Superusers
  /\ ~agents => pending = {} /\ \A g \in Silos : lists[g] = 0

\* A request keeps what it was sent with; once carried out it was acceptable.
ActInv(x) ==
  acts[x] # NoAct =>
    /\ acts[x].here => agents
    /\ acts[x].ticked \subseteq acts[x].roles
    /\ acts[x].roles \cap SiloRoles[acts[x].silo] \subseteq acts[x].ticked
    /\ acts[x].kind = "discard" => acts[x].roles = {}
    /\ acts[x].status \in {"done", "refreshing"} => Acceptable(acts[x])

IInv ==
  /\ TypeOK
  /\ ChatInv /\ ConversationIsOwn /\ AnswersGoWhereAsked
  /\ PageInv /\ TicksInv
  /\ \A x \in Slots : ActInv(x)
  /\ PageRevealsNothing
=============================================================================
