------------------------------ MODULE ChatPage ------------------------------
(***************************************************************************)
(* The conversation with one specialist: Chat.tsx, the streaming response  *)
(* it reads (streamChat of api.ts) and the endpoint that sends it          *)
(* (chat_completions of main.py).  All of it is React state of one mounted *)
(* component: unmounting loses it, and what a stream still delivers goes   *)
(* nowhere.                                                                *)
(*                                                                         *)
(*   messages  the turns on the page; an answer is appended empty          *)
(*   streams   the responses being read: the position of the message that  *)
(*             was appended for each, the user and the silo of its         *)
(*             request, and whether its status has arrived                 *)
(*   busy      the composer is disabled                                    *)
(***************************************************************************)
EXTENDS Naturals, Sequences, Sessions

CONSTANT MaxMessages  \* bound on the length of a conversation

ASSUME ChatAssumption == MaxMessages \in Nat

VARIABLES messages, streams, busy

chatVars == <<messages, streams, busy>>

\* A question was asked by user about silo; an answer is empty, or has some
\* text, or the page's own note that there was an error.
Message ==
  [kind : {"question", "empty", "answer", "error"}, user : Users, silo : Silos]

Stream == [at : Nat, user : Users, silo : Silos, open : BOOLEAN]

ChatTypeOK ==
  /\ messages \in Seq(Message)
  /\ streams \in SUBSET Stream
  /\ busy \in BOOLEAN

FreshChat == messages = <<>> /\ streams = {} /\ busy = FALSE
UnmountChat == messages' = <<>> /\ streams' = {} /\ busy' = FALSE

Said(k, u, g) == [kind |-> k, user |-> u, silo |-> g]

\* A request by the user signed in about silo g, for the message at that position.
Asked(i, g) == [at |-> i, user |-> token, silo |-> g, open |-> FALSE]

-----------------------------------------------------------------------------
Send(g) ==
  /\ Len(messages) + 2 <= MaxMessages
  /\ messages' = messages \o <<Said("question", token, g), Said("empty", token, g)>>
  /\ streams' = streams \cup {Asked(Len(messages) + 2, g)}
  /\ busy' = TRUE

\* Faulty variant: nothing holds back a second question.
SubmitAnyTime(g) == Send(g)

\* submit, from the composer or a sample.  The request carries the whole
\* conversation.
Submit(g) == ~busy /\ Send(g)

\* The last message becomes text of the given kind, out of stream s.
SetLast(k, s) ==
  messages' = [messages EXCEPT ![Len(messages)] = Said(k, s.user, s.silo)]

\* The status is 200: the endpoint has found the silo, retrieved, and begun to
\* stream.
Open(s) ==
  /\ ~s.open /\ Answerable(s.user, s.silo)
  /\ streams' = (streams \ {s}) \cup {[s EXCEPT !.open = TRUE]}
  /\ UNCHANGED <<messages, busy>>

\* A frame with content: its text is added to whatever message is the last.
Delta(s) ==
  /\ s.open
  /\ SetLast("answer", s)
  /\ UNCHANGED <<streams, busy>>

\* [DONE], or the body ends without it.
Done(s) ==
  /\ s.open
  /\ streams' = streams \ {s}
  /\ busy' = FALSE
  /\ UNCHANGED messages

\* Faulty variant: setBusy(false) after the loop instead of in finally.
BreakBusy(s) ==
  /\ SetLast("error", s)
  /\ streams' = streams \ {s}
  /\ UNCHANGED busy

\* 401, 404 or 500, or the connection breaks: the last message is replaced by
\* the error note.
Break(s) ==
  /\ SetLast("error", s)
  /\ streams' = streams \ {s}
  /\ busy' = FALSE

Receive == \E s \in streams : Open(s) \/ Delta(s) \/ Done(s) \/ Break(s)

\* A response comes to an end.
EndStream == \E s \in streams : Done(s) \/ Break(s)
=============================================================================
