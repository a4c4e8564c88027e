------------------------------ MODULE Sessions ------------------------------
(***************************************************************************)
(* Who is signed in to the single-page app, in one browser tab, and what   *)
(* the orchestrator lets that user do.  The token is an ID token of        *)
(* Cognito: it carries the user's groups until it expires.                 *)
(*                                                                         *)
(*   token    the user whose token sessionStorage holds, or Nobody         *)
(*   expired  the orchestrator does not accept that token any more         *)
(***************************************************************************)
CONSTANTS
  Users, Nobody,
  Superusers,  \* the users whose groups include Superuser
  Silos,
  MayUse       \* the silos a user is permitted in (AccessRules' Permitted)

ASSUME SessionsAssumption ==
  /\ Nobody \notin Users
  /\ Superusers \subseteq Users
  /\ MayUse \in [Users -> SUBSET Silos]

VARIABLES token, expired

sessionVars == <<token, expired>>

SessionsTypeOK == token \in Users \cup {Nobody} /\ expired \in BOOLEAN

SessionsInit == token = Nobody /\ expired = FALSE

\* require_user: 401 without a valid token.
Verified == token # Nobody /\ ~expired

\* chat_completions, asked with the token of u about silo g: 401 without a valid
\* token, 404 for a silo the user has no role in.
Answerable(u, g) == (u = token => ~expired) /\ g \in MayUse[u]

\* Faulty variant: it is enough that the page showed the tab.
AnyUserReviews(u) == u \in Users

\* require_superuser: 403, whatever the page showed.
Reviews(u) == u \in Superusers

-----------------------------------------------------------------------------
\* Login's submit: the configuration, then Cognito's InitiateAuth.  A refused
\* login changes nothing but the page's error message.
SignIn(u) ==
  /\ token = Nobody
  /\ token' = u /\ expired' = FALSE

SignOut ==
  /\ token # Nobody
  /\ token' = Nobody /\ expired' = FALSE

\* An hour later.
Expire ==
  /\ Verified
  /\ expired' = TRUE
  /\ UNCHANGED token
=============================================================================
