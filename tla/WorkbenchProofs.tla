--------------------------- MODULE WorkbenchProofs ---------------------------
(***************************************************************************)
(* The single-page app, for any users, silos, documents and number of      *)
(* requests under way.  The inductive invariant is proved in three parts   *)
(* that no step mixes: the chat, the review page and its requests.         *)
(***************************************************************************)
EXTENDS Workbench, TLAPS

\* Of the answers in a conversation, only the part PageRevealsNothing says.
AnswersPermitted ==
  \A i \in DOMAIN messages :
    messages[i].kind = "answer" => messages[i].silo \in MayUse[messages[i].user]

ShellTypeOK ==
  /\ SessionsTypeOK
  /\ models \in SUBSET Silos /\ agentId \in Silos \cup {NoSilo} /\ view \in {"chat", "admin"}
  /\ listing \in [Users -> 0..MaxListings]

ChatPart ==
  /\ ChatTypeOK /\ ChatInv /\ ConversationIsOwn /\ AnswersGoWhereAsked /\ AnswersPermitted

PagePart == ReviewTypeOK /\ PageInv /\ TicksInv /\ \A x \in Slots : ActInv(x)

Parted == ShellTypeOK /\ ChatPart /\ PagePart

\* The three parts make up the inductive invariant.
LEMMA Parts == Parted => IInv
<1> SUFFICES ASSUME Parted PROVE IInv
  OBVIOUS
<1> USE DEF Parted
<1>1. TypeOK
  BY DEF TypeOK, ShellTypeOK, ChatPart, PagePart
<1>2. agents \/ pending # {} => token \in Superusers
  BY DEF PagePart, PageInv
<1>3. \A x \in Slots : acts[x].status = "done" => acts[x].user \in Superusers
  BY DEF PagePart, ActInv, NoAct, Acceptable, Reviews
<1>4. PageRevealsNothing
  BY <1>2, <1>3 DEF PageRevealsNothing, ChatPart, AnswersPermitted
<1> QED
  BY <1>1, <1>4 DEF IInv, ChatPart, PagePart

-----------------------------------------------------------------------------
(* Mounting and unmounting *)

\* A chat that is not rendered has no state, which is all the invariant asks.
LEMMA ChatUnmounted ==
  ASSUME UnmountChat
  PROVE  ChatPart'
<1>1. messages' = <<>> /\ streams' = {} /\ busy' = FALSE
  BY DEF UnmountChat
<1>2. <<>> \in Seq(Message) /\ DOMAIN <<>> = {}
  OBVIOUS
<1>3. ChatTypeOK'
  BY <1>1, <1>2 DEF ChatTypeOK
<1>4. ChatInv' /\ AnswersGoWhereAsked'
  BY <1>1 DEF ChatInv, AnswersGoWhereAsked
<1>5. ConversationIsOwn' /\ AnswersPermitted'
  BY <1>1, <1>2 DEF ConversationIsOwn, AnswersPermitted
<1> QED
  BY <1>3, <1>4, <1>5 DEF ChatPart

\* A chat that stays on display, for the same user and silo.
LEMMA ChatKept ==
  ASSUME ChatPart, UNCHANGED <<chatVars, token, agentId>>, Chatting <=> Chatting'
  PROVE  ChatPart'
<1>1. UNCHANGED <<messages, streams, busy, token, agentId>>
  BY DEF chatVars
<1>2. ChatTypeOK' /\ ChatInv'
  BY <1>1 DEF ChatPart, ChatTypeOK, ChatInv
<1>3. ConversationIsOwn' /\ AnswersGoWhereAsked' /\ AnswersPermitted'
  BY <1>1 DEF ChatPart, ConversationIsOwn, AnswersGoWhereAsked, AnswersPermitted
<1> QED
  BY <1>2, <1>3 DEF ChatPart

\* The requests of a page that is gone are as they were.
LEMMA PageUnmounted ==
  ASSUME PagePart, UnmountPage
  PROVE  PagePart'
<1>1. ReviewTypeOK'
  <2>1. \A x \in Slots : acts[x] \in Act => [acts[x] EXCEPT !.here = FALSE] \in Act
    BY DEF Act
  <2>2. acts' \in [Slots -> Act \cup {NoAct}]
    BY <2>1 DEF PagePart, ReviewTypeOK, UnmountPage
  <2>3. lists' \in [Silos -> 0..MaxLists] /\ selected' \in [Docs -> SUBSET Roles]
    BY ReviewAssumption DEF UnmountPage
  <2>4. /\ agents' \in BOOLEAN /\ picked' \in Silos \cup {NoSilo} /\ pending' \in SUBSET Docs
        /\ acting' \in Docs \cup {NoDoc} /\ ticks' \in SUBSET (Silos \X Docs \X Roles)
    BY DEF UnmountPage
  <2> QED
    BY <2>2, <2>3, <2>4 DEF ReviewTypeOK
<1>2. PageInv'
  BY DEF UnmountPage, PageInv
<1>3. TicksInv'
  BY DEF UnmountPage, TicksInv
<1>4. ASSUME NEW x \in Slots PROVE ActInv(x)'
  <2>1. CASE acts[x] = NoAct
    BY <2>1 DEF UnmountPage, ActInv
  <2>2. CASE acts[x] # NoAct
    <3>1. acts[x] \in Act
      BY <2>2 DEF PagePart, ReviewTypeOK
    <3>2. acts'[x] = [acts[x] EXCEPT !.here = FALSE]
      BY <2>2 DEF UnmountPage
    <3>3. /\ ~acts'[x].here /\ acts'[x].ticked = acts[x].ticked /\ acts'[x].roles = acts[x].roles
          /\ acts'[x].silo = acts[x].silo /\ acts'[x].kind = acts[x].kind
          /\ acts'[x].status = acts[x].status /\ acts'[x].user = acts[x].user
      BY <3>1, <3>2 DEF Act
    <3> QED
      BY <2>2, <3>3 DEF PagePart, ActInv, Acceptable, Reviews
  <2> QED
    BY <2>1, <2>2
<1> QED
  BY <1>1, <1>2, <1>3, <1>4 DEF PagePart

LEMMA PageKept ==
  ASSUME PagePart, UNCHANGED <<reviewVars, token>>, Reviewing => Reviewing'
  PROVE  PagePart'
<1>1. UNCHANGED <<agents, picked, pending, selected, acting, lists, acts, ticks, token>>
  BY DEF reviewVars
<1>2. ReviewTypeOK' /\ PageInv' /\ TicksInv'
  BY <1>1 DEF PagePart, ReviewTypeOK, PageInv, TicksInv
<1>3. ASSUME NEW x \in Slots PROVE ActInv(x)'
  BY <1>1, <1>3 DEF PagePart, ActInv, Acceptable, Reviews
<1> QED
  BY <1>2, <1>3 DEF PagePart

\* Whoever signs in or out, in between nobody is signed in and nothing rendered.
LEMMA Rendered ==
  ASSUME ChatPart, PagePart, Render, token' = token \/ token = Nobody \/ token' = Nobody
  PROVE  ChatPart' /\ PagePart'
<1>1. ChatPart'
  <2>1. CASE Chatting /\ Chatting' /\ agentId' = agentId
    <3>1. token' = token
      BY <2>1 DEF Chatting
    <3> QED
      BY <2>1, <3>1, ChatKept DEF Render
  <2>2. CASE ~(Chatting /\ Chatting' /\ agentId' = agentId)
    BY <2>2, ChatUnmounted DEF Render
  <2> QED
    BY <2>1, <2>2
<1>2. PagePart'
  <2>1. CASE Reviewing /\ Reviewing'
    <3>1. token' = token
      BY <2>1 DEF Reviewing
    <3> QED
      BY <2>1, <3>1, PageKept DEF Render
  <2>2. CASE ~(Reviewing /\ Reviewing')
    BY <2>2, PageUnmounted DEF Render
  <2> QED
    BY <2>1, <2>2
<1> QED
  BY <1>1, <1>2

\* The steps of the shell.
LEMMA ShellPreserves ==
  ASSUME Parted, Shell
  PROVE  Parted'
<1>0. ShellTypeOK /\ ChatPart /\ PagePart
  BY DEF Parted
<1>n. SessionsTypeOK /\ MaxListings \in Nat \ {0} /\ listing \in [Users -> 0..MaxListings]
  BY <1>0, WorkbenchAssumption DEF ShellTypeOK
<1>l. ASSUME NEW u \in Users, ListModels(u) PROVE listing' \in [Users -> 0..MaxListings]
  BY <1>n, <1>l DEF ListModels
<1>1. ASSUME NEW u \in Users, LogIn(u) PROVE Parted'
  <2>1. ShellTypeOK'
    BY <1>0, <1>1, <1>l DEF LogIn, SignIn, ShellTypeOK, SessionsTypeOK
  <2> QED
    BY <1>0, <1>1, <2>1, Rendered DEF Parted, LogIn, SignIn
<1>2. ASSUME NEW u \in Users, ModelsArrive(u) PROVE Parted'
  <2>1. listing' \in [Users -> 0..MaxListings]
    BY <1>2, <1>n DEF ModelsArrive
  <2>2. models' \in SUBSET Silos /\ agentId' \in Silos \cup {NoSilo}
    BY <1>0, <1>2, SessionsAssumption DEF ModelsArrive, ShellTypeOK
  <2>3. ShellTypeOK'
    BY <1>0, <1>2, <2>1, <2>2 DEF ModelsArrive, sessionVars, ShellTypeOK, SessionsTypeOK
  <2>4. token' = token /\ Render
    BY <1>2 DEF ModelsArrive, sessionVars
  <2> QED
    BY <1>0, <2>3, <2>4, Rendered DEF Parted
<1>3. ASSUME NEW g \in Silos, Consult(g) PROVE Parted'
  <2>1. ShellTypeOK'
    BY <1>0, <1>3 DEF Consult, sessionVars, ShellTypeOK, SessionsTypeOK
  <2> QED
    BY <1>0, <1>3, <2>1, Rendered DEF Parted, Consult, sessionVars
<1>4. CASE LogOut
  <2>1. ShellTypeOK'
    BY <1>0, <1>4 DEF LogOut, SignOut, shellVars, ShellTypeOK, SessionsTypeOK
  <2> QED
    BY <1>0, <1>4, <2>1, Rendered DEF Parted, LogOut, SignOut
<1>5. CASE Review
  <2>1. ShellTypeOK'
    BY <1>0, <1>5 DEF Review, sessionVars, ShellTypeOK, SessionsTypeOK
  <2> QED
    BY <1>0, <1>5, <2>1, Rendered DEF Parted, Review, sessionVars
<1>6. CASE Reload
  <2>1. listing' \in [Users -> 0..MaxListings]
    BY <1>6, <1>n DEF Reload
  <2>2. ShellTypeOK'
    BY <1>0, <1>6, <2>1 DEF Reload, sessionVars, ShellTypeOK, SessionsTypeOK
  <2> QED
    BY <1>0, <1>6, <2>2, ChatUnmounted, PageUnmounted DEF Parted, Reload
<1>7. CASE ExpireToken
  <2>1. ShellTypeOK'
    BY <1>0, <1>7 DEF ExpireToken, Expire, shellVars, ShellTypeOK, SessionsTypeOK
  <2>2. UNCHANGED <<chatVars, token, agentId, view, models>> /\ UNCHANGED <<reviewVars, token>>
    BY <1>7 DEF ExpireToken, Expire, shellVars
  <2>3. (Chatting <=> Chatting') /\ (Reviewing => Reviewing')
    BY <2>2 DEF Chatting, Reviewing
  <2> QED
    BY <1>0, <2>1, <2>2, <2>3, ChatKept, PageKept DEF Parted
<1> QED
  BY <1>1, <1>2, <1>3, <1>4, <1>5, <1>6, <1>7 DEF Shell

-----------------------------------------------------------------------------
(* The chat *)

\* What is on the page, one message further or with its last message rewritten.
LEMMA Turns ==
  ASSUME ChatPart, Chatting, SessionsTypeOK, agentId \in Silos,
         NEW k \in {"question", "empty", "answer", "error"}
  PROVE  /\ Said(k, token, agentId) \in Message /\ token \in Users
         /\ messages \in Seq(Message) /\ Len(messages) \in Nat
<1>1. token \in Users
  BY DEF Chatting, SessionsTypeOK
<1>2. messages \in Seq(Message)
  BY DEF ChatPart, ChatTypeOK
<1> QED
  BY <1>1, <1>2 DEF Said, Message

\* A question is sent: the only stream is the new one.
LEMMA SubmitPreserves ==
  ASSUME ChatPart, Chatting, SessionsTypeOK, agentId \in Silos,
         Submit(agentId), UNCHANGED <<token, agentId>>
  PROVE  messages' \in Seq(Message) /\ streams' \in SUBSET Stream /\ busy'
         /\ streams' # {} /\ Len(messages') > 0
         /\ (\A s, t \in streams' : s = t)
         /\ (\A s \in streams' : ~s.open /\ s.user = token /\ s.silo = agentId)
         /\ ConversationIsOwn' /\ AnswersGoWhereAsked' /\ AnswersPermitted'
<1> DEFINE q == Said("question", token, agentId)
           a == Said("empty", token, agentId)
           new == Asked(Len(messages) + 2, agentId)
<1>1. /\ q \in Message /\ a \in Message /\ messages \in Seq(Message) /\ Len(messages) \in Nat
      /\ token \in Users
  BY Turns
<1>2. messages' = messages \o <<q, a>> /\ streams' = streams \cup {new} /\ busy' = TRUE /\ ~busy
  BY DEF Submit, Send
<1>3. streams' = {new}
  BY <1>2 DEF ChatPart, ChatInv
<1>4. new \in Stream /\ ~new.open /\ new.user = token /\ new.silo = agentId
      /\ new.at = Len(messages) + 2
  BY <1>1 DEF Stream, Asked
<1> HIDE DEF q, a
<1>5. <<q, a>> \in Seq(Message) /\ Len(<<q, a>>) = 2 /\ <<q, a>>[1] = q /\ <<q, a>>[2] = a
  BY <1>1
<1>6. messages' \in Seq(Message) /\ Len(messages') = Len(messages) + 2
      /\ DOMAIN messages' = 1..(Len(messages) + 2) /\ DOMAIN messages = 1..Len(messages)
  BY <1>1, <1>2, <1>5
<1>7. ASSUME NEW i \in DOMAIN messages'
      PROVE  \/ i \in DOMAIN messages /\ messages'[i] = messages[i]
             \/ messages'[i] = q
             \/ messages'[i] = a
  <2>1. i \in 1..(Len(messages) + 2) /\ DOMAIN messages = 1..Len(messages)
    BY <1>6
  <2>2. CASE i \in 1..Len(messages)
    BY <1>1, <1>2, <1>5, <2>2
  <2>3. CASE i = Len(messages) + 1
    BY <1>1, <1>2, <1>5, <2>3
  <2>4. CASE i = Len(messages) + 2
    BY <1>1, <1>2, <1>5, <2>4
  <2> QED
    BY <1>1, <2>1, <2>2, <2>3, <2>4
<1>8. /\ q.user = token /\ q.silo = agentId /\ q.kind # "answer"
      /\ a.user = token /\ a.silo = agentId /\ a.kind # "answer"
  BY DEF q, a, Said
<1>9. ConversationIsOwn' /\ AnswersPermitted'
  BY <1>7, <1>8 DEF ChatPart, ConversationIsOwn, AnswersPermitted
<1> HIDE DEF new
<1>10. AnswersGoWhereAsked' /\ Len(messages') > 0
  BY <1>1, <1>3, <1>4, <1>6 DEF AnswersGoWhereAsked
<1>11. /\ streams' \in SUBSET Stream /\ streams' # {}
       /\ (\A s, t \in streams' : s = t)
       /\ (\A s \in streams' : ~s.open /\ s.user = token /\ s.silo = agentId)
  BY <1>3, <1>4
<1> QED
  BY <1>2, <1>6, <1>9, <1>10, <1>11

\* The last message is rewritten; streams end, and none begins.
LEMMA RewritePreserves ==
  ASSUME ChatPart, Chatting, SessionsTypeOK, agentId \in Silos, NEW s \in streams,
         NEW k \in {"answer", "error"}, k = "answer" => agentId \in MayUse[token],
         SetLast(k, s), UNCHANGED <<token, agentId>>, streams' \subseteq streams
  PROVE  messages' \in Seq(Message) /\ Len(messages') = Len(messages)
         /\ ConversationIsOwn' /\ AnswersGoWhereAsked' /\ AnswersPermitted'
<1> DEFINE new == Said(k, token, agentId)
<1>0. s.user = token /\ s.silo = agentId
  BY DEF ChatPart, ChatInv
<1>1. new \in Message /\ messages \in Seq(Message) /\ Len(messages) \in Nat
  BY Turns
<1>2. messages' = [messages EXCEPT ![Len(messages)] = new] /\ Len(messages) > 0
  BY <1>0 DEF SetLast, ChatPart, ChatInv
<1>3. new.kind = k /\ new.user = token /\ new.silo = agentId
  BY DEF Said
<1> HIDE DEF new
<1>4. messages' \in Seq(Message) /\ Len(messages') = Len(messages) /\ DOMAIN messages' = DOMAIN messages
  BY <1>1, <1>2
<1>5. \A i \in DOMAIN messages' : messages'[i] = messages[i] \/ messages'[i] = new
  BY <1>1, <1>2, <1>4
<1>6. ConversationIsOwn' /\ AnswersPermitted'
  BY <1>3, <1>4, <1>5 DEF ChatPart, ConversationIsOwn, AnswersPermitted
<1>7. AnswersGoWhereAsked'
  BY <1>4 DEF ChatPart, AnswersGoWhereAsked
<1> QED
  BY <1>4, <1>6, <1>7

\* The steps of the chat.
LEMMA ChatPreserves ==
  ASSUME Parted, Chat
  PROVE  Parted'
<1>0. ShellTypeOK /\ ChatPart /\ PagePart /\ SessionsTypeOK /\ Chatting
  BY DEF Parted, ShellTypeOK, Chat
<1>1. UNCHANGED <<token, expired, models, agentId, view, listing>> /\ UNCHANGED reviewVars
  BY DEF Chat, sessionVars, shellVars
<1>2. ShellTypeOK' /\ Chatting' /\ (Reviewing => Reviewing')
  BY <1>0, <1>1 DEF ShellTypeOK, SessionsTypeOK, Chatting, Reviewing
<1>3. PagePart'
  BY <1>0, <1>1, <1>2, PageKept
<1>4. agentId \in Silos
  BY <1>0 DEF Chatting, ShellTypeOK
<1>5. /\ messages \in Seq(Message) /\ streams \in SUBSET Stream /\ busy \in BOOLEAN
      /\ \A s, t \in streams : s = t
  BY <1>0 DEF ChatPart, ChatTypeOK, ChatInv
<1>6. CASE Submit(agentId)
  <2>1. ChatTypeOK' /\ ChatInv'
    BY <1>0, <1>1, <1>2, <1>4, <1>6, SubmitPreserves DEF ChatTypeOK, ChatInv
  <2> QED
    BY <1>0, <1>1, <1>2, <1>3, <1>4, <1>6, <2>1, SubmitPreserves DEF Parted, ChatPart
<1>7. ASSUME NEW s \in streams, Open(s) PROVE Parted'
  <2>1. streams' = {[s EXCEPT !.open = TRUE]} /\ UNCHANGED <<messages, busy>>
    BY <1>5, <1>7 DEF Open
  <2>2. /\ streams' \in SUBSET Stream
        /\ \A t \in streams' : t.at = s.at /\ t.user = s.user /\ t.silo = s.silo
    BY <1>5, <2>1 DEF Stream
  <2>3. agentId \in MayUse[token]
    BY <1>0, <1>7 DEF Open, Answerable, ChatPart, ChatInv
  <2>4. ChatTypeOK' /\ ChatInv'
    BY <1>0, <1>1, <1>2, <1>5, <2>1, <2>2, <2>3 DEF ChatPart, ChatTypeOK, ChatInv
  <2>5. ConversationIsOwn' /\ AnswersPermitted'
    BY <1>0, <1>1, <2>1 DEF ChatPart, ConversationIsOwn, AnswersPermitted
  <2>6. AnswersGoWhereAsked'
    BY <1>0, <2>1, <2>2 DEF ChatPart, AnswersGoWhereAsked
  <2> QED
    BY <1>2, <1>3, <2>4, <2>5, <2>6 DEF Parted, ChatPart
<1>8. ASSUME NEW s \in streams, Delta(s) PROVE Parted'
  <2>1. agentId \in MayUse[token] /\ streams' = streams /\ busy' = busy /\ SetLast("answer", s)
    BY <1>0, <1>8 DEF Delta, ChatPart, ChatInv
  <2>2. messages' \in Seq(Message) /\ Len(messages') = Len(messages)
        /\ ConversationIsOwn' /\ AnswersGoWhereAsked' /\ AnswersPermitted'
    BY <1>0, <1>1, <1>4, <1>8, <2>1, RewritePreserves
  <2>3. ChatTypeOK' /\ ChatInv'
    BY <1>0, <1>1, <1>2, <1>8, <2>1, <2>2 DEF ChatPart, ChatTypeOK, ChatInv
  <2> QED
    BY <1>2, <1>3, <2>2, <2>3 DEF Parted, ChatPart
<1>9. ASSUME NEW s \in streams, Done(s) PROVE Parted'
  <2>1. streams' = {} /\ messages' = messages /\ busy' = FALSE
    BY <1>5, <1>9 DEF Done
  <2>2. ChatTypeOK' /\ ChatInv' /\ AnswersGoWhereAsked'
    BY <1>2, <1>5, <2>1 DEF ChatTypeOK, ChatInv, AnswersGoWhereAsked
  <2>3. ConversationIsOwn' /\ AnswersPermitted'
    BY <1>0, <1>1, <2>1 DEF ChatPart, ConversationIsOwn, AnswersPermitted
  <2> QED
    BY <1>2, <1>3, <2>2, <2>3 DEF Parted, ChatPart
<1>10. ASSUME NEW s \in streams, Break(s) PROVE Parted'
  <2>1. streams' = {} /\ busy' = FALSE /\ SetLast("error", s)
    BY <1>5, <1>10 DEF Break
  <2>2. messages' \in Seq(Message)
        /\ ConversationIsOwn' /\ AnswersGoWhereAsked' /\ AnswersPermitted'
    BY <1>0, <1>1, <1>4, <1>10, <2>1, RewritePreserves
  <2>3. ChatTypeOK' /\ ChatInv'
    BY <1>2, <2>1, <2>2 DEF ChatTypeOK, ChatInv
  <2> QED
    BY <1>2, <1>3, <2>2, <2>3 DEF Parted, ChatPart
<1> QED
  BY <1>6, <1>7, <1>8, <1>9, <1>10 DEF Chat, Receive

-----------------------------------------------------------------------------
(* The review page *)

PageTyped ==
  /\ agents \in BOOLEAN /\ picked \in Silos \cup {NoSilo} /\ pending \in SUBSET Docs
  /\ selected \in [Docs -> SUBSET Roles] /\ acting \in Docs \cup {NoDoc}
  /\ lists \in [Silos -> 0..MaxLists] /\ ticks \in SUBSET (Silos \X Docs \X Roles)

ActsTyped == acts \in [Slots -> Act \cup {NoAct}]

\* The requests keep what they were sent with while the page changes.
LEMMA ActsKept ==
  ASSUME PagePart, acts' = acts, agents => agents'
  PROVE  ActsTyped' /\ \A x \in Slots : ActInv(x)'
<1>1. ActsTyped'
  BY DEF PagePart, ReviewTypeOK, ActsTyped
<1>2. ASSUME NEW x \in Slots PROVE ActInv(x)'
  BY <1>2 DEF PagePart, ActInv, Acceptable, Reviews
<1> QED
  BY <1>1, <1>2

LEMMA RefreshTyped ==
  ASSUME lists \in [Silos -> 0..MaxLists], NEW g \in Silos, Refresh(g)
  PROVE  lists' \in [Silos -> 0..MaxLists]
<1>1. MaxLists \in Nat
  BY ReviewAssumption
<1> QED
  BY <1>1 DEF Refresh

\* Ticking a role: it belongs to the silo picked, and to no other.
LEMMA TogglePreserves ==
  ASSUME PagePart, NEW d \in Docs, NEW r \in Roles, ToggleRole(d, r)
  PROVE  /\ selected' \in [Docs -> SUBSET Roles]
         /\ ticks' \in SUBSET (Silos \X Docs \X Roles)
         /\ TicksInv'
<1>1. /\ picked \in Silos /\ r \in SiloRoles[picked]
      /\ selected \in [Docs -> SUBSET Roles] /\ ticks \in SUBSET (Silos \X Docs \X Roles)
      /\ TicksInv
  BY DEF PagePart, PageInv, ReviewTypeOK, ToggleRole
<1>2. \A g \in Silos : r \in SiloRoles[g] => g = picked
  BY <1>1, ReviewAssumption
<1>3. CASE r \in selected[d]
  <2>1. selected' = [selected EXCEPT ![d] = @ \ {r}] /\ ticks' = ticks \ {<<picked, d, r>>}
    BY <1>3 DEF ToggleRole
  <2>2. ASSUME NEW g \in Silos, NEW e \in Docs, NEW s \in selected'[e] \cap SiloRoles[g]
        PROVE  <<g, e, s>> \in ticks'
    <3>1. s \in selected[e] /\ (e = d => s # r)
      BY <1>1, <2>1, <2>2
    <3>2. <<g, e, s>> \in ticks /\ <<g, e, s>> # <<picked, d, r>>
      BY <1>1, <2>2, <3>1 DEF TicksInv
    <3> QED
      BY <2>1, <3>2
  <2> QED
    BY <1>1, <2>1, <2>2 DEF TicksInv
<1>4. CASE r \notin selected[d]
  <2>1. selected' = [selected EXCEPT ![d] = @ \cup {r}] /\ ticks' = ticks \cup {<<picked, d, r>>}
    BY <1>4 DEF ToggleRole
  <2>2. ASSUME NEW g \in Silos, NEW e \in Docs, NEW s \in selected'[e] \cap SiloRoles[g]
        PROVE  <<g, e, s>> \in ticks'
    <3>1. CASE s \in selected[e]
      BY <1>1, <2>1, <2>2, <3>1 DEF TicksInv
    <3>2. CASE s \notin selected[e]
      <4>1. e = d /\ s = r
        BY <1>1, <2>1, <2>2, <3>2
      <4> QED
        BY <1>2, <2>1, <2>2, <4>1
    <3> QED
      BY <3>1, <3>2
  <2> QED
    BY <1>1, <2>1, <2>2 DEF TicksInv
<1> QED
  BY <1>3, <1>4

\* A click sends what is selected, which was ticked as far as the silo offers it.
LEMMA ClickPreserves ==
  ASSUME PagePart, Reviewing, SessionsTypeOK,
         NEW x \in Slots, NEW k \in {"publish", "discard"}, NEW d \in Docs,
         NEW R \in SUBSET Roles, R = selected[d] \/ R = {}, k = "discard" => R = {},
         Click(x, k, d, R)
  PROVE  PageTyped' /\ ActsTyped' /\ \A y \in Slots : ActInv(y)'
<1> DEFINE T == {r \in R : <<picked, d, r>> \in ticks}
           new == [status |-> "sent", kind |-> k, user |-> token, silo |-> picked, doc |-> d,
                   roles |-> R, ticked |-> T, here |-> TRUE]
<1>1. agents /\ picked \in Silos /\ token \in Users /\ TicksInv
  BY DEF Click, PagePart, PageInv, Reviewing, SessionsTypeOK
<1>2. T \subseteq R /\ R \cap SiloRoles[picked] \subseteq T
  BY <1>1 DEF TicksInv
<1> HIDE DEF T
<1>3. new \in Act
  BY <1>1, <1>2 DEF Act
<1>4. /\ new.status = "sent" /\ new.ticked = T /\ new.roles = R /\ new.silo = picked
      /\ new.kind = k
  OBVIOUS
<1>5. acts' = [acts EXCEPT ![x] = new] /\ acting' = d
      /\ UNCHANGED <<agents, picked, pending, selected, lists, ticks>>
  BY DEF Click, T
<1> HIDE DEF new
<1>6. ActsTyped' /\ PageTyped'
  BY <1>3, <1>5 DEF PagePart, ReviewTypeOK, ActsTyped, PageTyped
<1>7. ASSUME NEW y \in Slots PROVE ActInv(y)'
  <2>1. CASE y = x
    <3>1. acts'[y] = new
      BY <1>5, <2>1 DEF PagePart, ReviewTypeOK
    <3> QED
      BY <1>1, <1>2, <1>4, <1>5, <3>1 DEF ActInv
  <2>2. CASE y # x
    <3>1. acts'[y] = acts[y] /\ agents' = agents
      BY <1>5, <2>2 DEF PagePart, ReviewTypeOK
    <3> QED
      BY <3>1 DEF PagePart, ActInv, Acceptable, Reviews
  <2> QED
    BY <2>1, <2>2
<1> QED
  BY <1>6, <1>7

\* The steps of the page.
LEMMA ReviewPreserves ==
  ASSUME Parted, ReviewDocuments
  PROVE  Parted'
<1>0. ShellTypeOK /\ ChatPart /\ PagePart /\ SessionsTypeOK /\ Reviewing
  BY DEF Parted, ShellTypeOK, ReviewDocuments
<1>1. UNCHANGED <<token, expired, models, agentId, view, listing>> /\ UNCHANGED chatVars
  BY DEF ReviewDocuments, sessionVars, shellVars
<1>2. ShellTypeOK' /\ Reviewing' /\ (Chatting <=> Chatting')
  BY <1>0, <1>1 DEF ShellTypeOK, SessionsTypeOK, Chatting, Reviewing
<1>3. ChatPart'
  BY <1>0, <1>1, <1>2, ChatKept
<1>4. PageTyped /\ PageInv /\ TicksInv
  BY <1>0 DEF PagePart, ReviewTypeOK, PageTyped
<1>5. ASSUME PageTyped', ActsTyped', PageInv', TicksInv', \A x \in Slots : ActInv(x)'
      PROVE  Parted'
  BY <1>2, <1>3, <1>5 DEF Parted, PagePart, ReviewTypeOK, PageTyped, ActsTyped
<1>6. ASSUME NEW g \in Silos, AgentsArrive(g) PROVE Parted'
  <2>1. lists' \in [Silos -> 0..MaxLists]
    BY <1>4, <1>6, RefreshTyped DEF AgentsArrive, PageTyped
  <2>2. PageTyped' /\ PageInv' /\ TicksInv'
    BY <1>1, <1>2, <1>4, <1>6, <2>1 DEF AgentsArrive, Reviews, PageTyped, PageInv, TicksInv
  <2>3. ActsTyped' /\ \A x \in Slots : ActInv(x)'
    BY <1>0, <1>6, ActsKept DEF AgentsArrive
  <2> QED
    BY <1>5, <2>2, <2>3
<1>7. ASSUME NEW g \in Silos, Pick(g) PROVE Parted'
  <2>1. lists' \in [Silos -> 0..MaxLists]
    BY <1>4, <1>7, RefreshTyped DEF Pick, PageTyped
  <2>2. PageTyped' /\ PageInv' /\ TicksInv'
    BY <1>1, <1>2, <1>4, <1>7, <2>1 DEF Pick, PageTyped, PageInv, TicksInv
  <2>3. ActsTyped' /\ \A x \in Slots : ActInv(x)'
    BY <1>0, <1>7, ActsKept DEF Pick
  <2> QED
    BY <1>5, <2>2, <2>3
<1>8. ASSUME NEW g \in Silos, NEW D \in SUBSET Docs, ListArrives(g, D) PROVE Parted'
  <2>1. lists' \in [Silos -> 0..MaxLists] /\ agents
    BY <1>4, <1>8, ReviewAssumption DEF ListArrives, PageTyped, PageInv
  <2>2. PageTyped' /\ PageInv' /\ TicksInv'
    BY <1>1, <1>2, <1>4, <1>8, <2>1 DEF ListArrives, PageTyped, PageInv, TicksInv
  <2>3. ActsTyped' /\ \A x \in Slots : ActInv(x)'
    BY <1>0, <1>8, ActsKept DEF ListArrives
  <2> QED
    BY <1>5, <2>2, <2>3
<1>9. ASSUME NEW d \in Docs, NEW r \in Roles, ToggleRole(d, r) PROVE Parted'
  <2>1. /\ selected' \in [Docs -> SUBSET Roles]
        /\ ticks' \in SUBSET (Silos \X Docs \X Roles) /\ TicksInv'
    BY <1>0, <1>9, TogglePreserves
  <2>2. PageTyped' /\ PageInv'
    BY <1>1, <1>2, <1>4, <1>9, <2>1 DEF ToggleRole, PageTyped, PageInv
  <2>3. ActsTyped' /\ \A x \in Slots : ActInv(x)'
    BY <1>0, <1>9, ActsKept DEF ToggleRole
  <2> QED
    BY <1>5, <2>1, <2>2, <2>3
<1>10. ASSUME NEW x \in Slots, NEW d \in Docs, Publish(x, d) \/ Discard(x, d) PROVE Parted'
  <2>1. selected[d] \in SUBSET Roles
    BY <1>4 DEF PageTyped
  <2>2. PageTyped' /\ ActsTyped' /\ \A y \in Slots : ActInv(y)'
    BY <1>0, <1>10, <2>1, ClickPreserves DEF Publish, Discard
  <2>3. PageInv' /\ TicksInv'
    BY <1>1, <1>2, <1>4, <1>10 DEF Publish, Discard, Click, PageInv, TicksInv
  <2> QED
    BY <1>5, <2>2, <2>3
<1> QED
  BY <1>6, <1>7, <1>8, <1>9, <1>10 DEF ReviewDocuments, PageStep

-----------------------------------------------------------------------------
(* Its requests *)

\* What the orchestrator accepts of a request does not depend on its status.
LEMMA StatusOnly ==
  ASSUME NEW a \in Act, NEW s \in {"sent", "done", "refused", "refreshing"}
  PROVE  LET b == [a EXCEPT !.status = s] IN
         /\ b \in Act /\ b # NoAct /\ b.status = s
         /\ b.here = a.here /\ b.ticked = a.ticked /\ b.roles = a.roles
         /\ b.silo = a.silo /\ b.kind = a.kind
         /\ Acceptable(b) = Acceptable(a)
<1> DEFINE b == [a EXCEPT !.status = s]
<1>1. /\ b \in Act /\ b.status = s
      /\ b.here = a.here /\ b.ticked = a.ticked /\ b.roles = a.roles
      /\ b.silo = a.silo /\ b.kind = a.kind /\ b.user = a.user
  BY DEF Act
<1>2. b # NoAct
  BY <1>1 DEF Act, NoAct
<1> HIDE DEF b
<1>3. Acceptable(b) = Acceptable(a)
  BY <1>1 DEF Acceptable
<1> QED
  BY <1>1, <1>2, <1>3 DEF b

\* A request gets a new status, for which it must be acceptable unless refused.
LEMMA ToPreserves ==
  ASSUME PagePart, NEW x \in Slots, acts[x] # NoAct,
         NEW s \in {"sent", "done", "refused", "refreshing"}, To(x, s),
         s \in {"done", "refreshing"} => Acceptable(acts[x]), agents' = agents
  PROVE  ActsTyped' /\ \A y \in Slots : ActInv(y)'
<1> DEFINE b == [acts[x] EXCEPT !.status = s]
<1>1. acts \in [Slots -> Act \cup {NoAct}] /\ acts[x] \in Act /\ acts' = [acts EXCEPT ![x] = b]
  BY DEF PagePart, ReviewTypeOK, To
<1>2. /\ b \in Act /\ b # NoAct /\ b.status = s
      /\ b.here = acts[x].here /\ b.ticked = acts[x].ticked /\ b.roles = acts[x].roles
      /\ b.silo = acts[x].silo /\ b.kind = acts[x].kind
      /\ Acceptable(b) = Acceptable(acts[x])
  BY <1>1, StatusOnly
<1> HIDE DEF b
<1>3. ActsTyped'
  BY <1>1, <1>2 DEF ActsTyped
<1>4. ASSUME NEW y \in Slots PROVE ActInv(y)'
  <2>1. CASE y = x
    <3>1. acts'[y] = b
      BY <1>1, <2>1
    <3>2. Acceptable(acts[y])' <=> Acceptable(b)
      BY <3>1 DEF Acceptable, Reviews
    <3> QED
      BY <1>2, <2>1, <3>1, <3>2 DEF PagePart, ActInv
  <2>2. CASE y # x
    <3>1. acts'[y] = acts[y]
      BY <1>1, <2>2
    <3> QED
      BY <3>1 DEF PagePart, ActInv, Acceptable, Reviews
  <2> QED
    BY <2>1, <2>2
<1> QED
  BY <1>3, <1>4

LEMMA ForgetPreserves ==
  ASSUME PagePart, NEW x \in Slots, Forget(x), agents' = agents
  PROVE  ActsTyped' /\ \A y \in Slots : ActInv(y)'
<1>1. acts \in [Slots -> Act \cup {NoAct}] /\ acts' = [acts EXCEPT ![x] = NoAct]
  BY DEF PagePart, ReviewTypeOK, Forget
<1>2. ActsTyped'
  BY <1>1 DEF ActsTyped
<1>3. ASSUME NEW y \in Slots PROVE ActInv(y)'
  <2>1. acts'[y] = NoAct \/ acts'[y] = acts[y]
    BY <1>1
  <2> QED
    BY <2>1 DEF PagePart, ActInv, Acceptable, Reviews
<1> QED
  BY <1>2, <1>3

\* The steps of a request.
LEMMA RequestPreserves ==
  ASSUME Parted, NEW x \in Slots, Request(x)
  PROVE  Parted'
<1>0. ShellTypeOK /\ ChatPart /\ PagePart
  BY DEF Parted
<1>1. UNCHANGED <<token, expired, models, agentId, view, listing>> /\ UNCHANGED chatVars
  BY DEF Request, sessionVars, shellVars
<1>2. ShellTypeOK' /\ (Reviewing => Reviewing') /\ (Chatting <=> Chatting')
  BY <1>0, <1>1 DEF ShellTypeOK, SessionsTypeOK, Chatting, Reviewing
<1>3. ChatPart'
  BY <1>0, <1>1, <1>2, ChatKept
<1>4. PageTyped /\ PageInv /\ TicksInv
  BY <1>0 DEF PagePart, ReviewTypeOK, PageTyped
<1>5. ASSUME PageTyped', ActsTyped', PageInv', TicksInv', \A y \in Slots : ActInv(y)'
      PROVE  Parted'
  BY <1>2, <1>3, <1>5 DEF Parted, PagePart, ReviewTypeOK, PageTyped, ActsTyped
<1>6. ASSUME UNCHANGED <<agents, picked, pending, selected, acting, lists, ticks>>
      PROVE  PageTyped' /\ PageInv' /\ TicksInv'
  BY <1>1, <1>2, <1>4, <1>6 DEF PageTyped, PageInv, TicksInv
<1>7. CASE Serve(x)
  BY <1>0, <1>5, <1>6, <1>7, ToPreserves DEF Serve
<1>8. CASE Refuse(x)
  BY <1>0, <1>5, <1>6, <1>8, ToPreserves DEF Refuse
<1>9. CASE Unheard(x)
  BY <1>0, <1>5, <1>6, <1>9, ForgetPreserves DEF Unheard
<1>10. CASE RefreshAfter(x)
  <2>1. Acceptable(acts[x])
    BY <1>0, <1>10 DEF PagePart, ActInv, RefreshAfter
  <2> QED
    BY <1>0, <1>5, <1>6, <1>10, <2>1, ToPreserves DEF RefreshAfter
<1>11. ASSUME NEW D \in SUBSET Docs, Finish(x, D) PROVE Parted'
  <2>1. agents /\ agents' = agents
    BY <1>0, <1>11 DEF PagePart, ActInv, Finish
  <2>2. PageTyped' /\ PageInv' /\ TicksInv'
    BY <1>1, <1>2, <1>4, <1>11, <2>1 DEF Finish, PageTyped, PageInv, TicksInv
  <2> QED
    BY <1>0, <1>5, <1>11, <2>1, <2>2, ForgetPreserves DEF Finish
<1> QED
  BY <1>7, <1>8, <1>9, <1>10, <1>11 DEF Request, ActStep

-----------------------------------------------------------------------------
(* The inductive invariant and what follows from it *)

LEMMA InitParted == Init => Parted
<1> SUFFICES ASSUME Init PROVE Parted
  OBVIOUS
<1>1. ShellTypeOK
  <2>1. 0 \in 0..MaxListings
    BY WorkbenchAssumption
  <2>2. listing \in [Users -> 0..MaxListings]
    BY <2>1 DEF Init
  <2> QED
    BY <2>2 DEF Init, SessionsInit, SessionsTypeOK, ShellTypeOK
<1>2. ~Chatting
  BY DEF Init, SessionsInit, Chatting
<1>3. <<>> \in Seq(Message) /\ DOMAIN <<>> = {}
  OBVIOUS
<1>4. messages = <<>> /\ streams = {} /\ busy = FALSE
  BY DEF Init, FreshChat
<1>5. ChatTypeOK
  BY <1>3, <1>4 DEF ChatTypeOK
<1>6. ChatInv /\ AnswersGoWhereAsked
  BY <1>2, <1>4 DEF ChatInv, AnswersGoWhereAsked
<1>7. ConversationIsOwn /\ AnswersPermitted
  BY <1>3, <1>4 DEF ConversationIsOwn, AnswersPermitted
<1>8. ReviewTypeOK /\ PageInv /\ TicksInv
  <2>1. 0 \in 0..MaxLists
    BY ReviewAssumption
  <2>2. lists \in [Silos -> 0..MaxLists] /\ selected \in [Docs -> SUBSET Roles]
    BY <2>1 DEF Init, FreshPage
  <2>3. acts \in [Slots -> Act \cup {NoAct}]
    BY DEF Init
  <2>4. ReviewTypeOK
    BY <2>2, <2>3 DEF Init, FreshPage, ReviewTypeOK
  <2> QED
    BY <2>4 DEF Init, FreshPage, PageInv, TicksInv
<1>9. \A x \in Slots : ActInv(x)
  BY DEF Init, ActInv
<1> QED
  BY <1>1, <1>5, <1>6, <1>7, <1>8, <1>9 DEF Parted, ChatPart, PagePart

LEMMA NextParted == Parted /\ [Next]_vars => Parted'
<1> SUFFICES ASSUME Parted, [Next]_vars PROVE Parted'
  OBVIOUS
<1>1. CASE Next
  BY <1>1, ShellPreserves, ChatPreserves, ReviewPreserves, RequestPreserves DEF Next
<1>2. CASE UNCHANGED vars
  <2>1. UNCHANGED <<sessionVars, chatVars, reviewVars, shellVars>>
    BY <1>2 DEF vars
  <2>2. /\ UNCHANGED <<token, expired, models, agentId, view, listing>>
        /\ UNCHANGED chatVars /\ UNCHANGED reviewVars
    BY <2>1 DEF sessionVars, shellVars
  <2>3. ShellTypeOK' /\ (Chatting <=> Chatting') /\ (Reviewing => Reviewing')
    BY <2>2 DEF Parted, ShellTypeOK, SessionsTypeOK, Chatting, Reviewing
  <2> QED
    BY <2>2, <2>3, ChatKept, PageKept DEF Parted
<1> QED
  BY <1>1, <1>2

\* The inductive invariant of the app.
THEOREM Invariance == Spec => []IInv
<1>1. Spec => []Parted
  BY InitParted, NextParted, PTL DEF Spec
<1> QED
  BY <1>1, Parts, PTL

\* Type correctness.
THEOREM TypeCorrect == Spec => []TypeOK
BY Invariance, PTL DEF IInv

\* A conversation is between the user signed in and the silo on display, whatever
\* is switched while an answer streams in.
THEOREM ConversationStaysOwn == Spec => []ConversationIsOwn
BY Invariance, PTL DEF IInv

\* Text is only ever appended under the question it answers.
THEOREM AnswersArriveInPlace == Spec => []AnswersGoWhereAsked
BY Invariance, PTL DEF IInv

\* Whatever an earlier user of the tab left on the page, no user reads an answer
\* of a silo that user may not use, and only Superusers see or decide documents.
THEOREM NothingRevealed == Spec => []PageRevealsNothing
BY Invariance, PTL DEF IInv

\* What the orchestrator publishes a document with was ticked for it in its silo.
THEOREM RolesWereTicked == Spec => []PublishedRolesWereTicked
<1>1. IInv => PublishedRolesWereTicked
  <2> SUFFICES ASSUME IInv, NEW x \in Slots, acts[x].status = "done"
               PROVE  acts[x].roles = acts[x].ticked
    BY DEF PublishedRolesWereTicked
  <2>1. acts[x] # NoAct
    BY DEF NoAct
  <2>2. acts[x] \in Act /\ ActInv(x) /\ Acceptable(acts[x])
    BY <2>1 DEF IInv, TypeOK, ReviewTypeOK, ActInv
  <2>3. CASE acts[x].kind = "publish"
    BY <2>1, <2>2, <2>3 DEF ActInv, Acceptable
  <2>4. CASE acts[x].kind = "discard"
    BY <2>1, <2>2, <2>4 DEF ActInv
  <2> QED
    BY <2>2, <2>3, <2>4 DEF Act
<1> QED
  BY <1>1, Invariance, PTL
=============================================================================
