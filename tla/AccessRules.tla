---------------------------- MODULE AccessRules ----------------------------
(***************************************************************************)
(* The rules that decide what a caller of the orchestrator may use and     *)
(* see, as functions of the caller's Cognito groups G and of what a silo   *)
(* registers: its roles R and its ladder L, most junior role first.        *)
(***************************************************************************)
EXTENDS Naturals, Sequences

CONSTANT Superuser

\* list.index: the first place of each ladder role the caller holds.
Ranks(L, G) == {i \in DOMAIN L : L[i] \in G /\ \A j \in 1..i - 1 : L[j] # L[i]}

\* The roles on the ladder up to the most senior one the caller holds.
Outranked(L, G) == {L[i] : i \in {j \in DOMAIN L : \E r \in Ranks(L, G) : j <= r}}

\* Faulty variants: everybody starts on the lowest rung; the most junior role
\* held decides; roles that are not on the ladder are forgotten.
ExpandFromBottom(L, G) == G \cup Outranked(L, G) \cup {L[i] : i \in DOMAIN L \cap {1}}
ExpandByLeast(L, G) ==
  G \cup {L[i] : i \in {j \in DOMAIN L :
                          Ranks(L, G) # {} /\ \A r \in Ranks(L, G) : j <= r}}
ExpandOnlyLadder(L, G) == IF Ranks(L, G) = {} THEN G ELSE Outranked(L, G)

\* AgentInfo.expand
Expand(L, G) == G \cup Outranked(L, G)

\* Faulty variant: a silo that lists no roles is open to all.
PermittedUnlessListed(R, G) == Superuser \in G \/ R = {} \/ G \cap R # {}

\* The silo gate
Permitted(R, G) == Superuser \in G \/ G \cap R # {}

\* The document filter: a row tagged T matches for the expanded roles H.
Matches(T, H) == T \cap H # {} \/ Superuser \in H

\* Faulty variant: the sample filter forgets the ladder.
OfferedByGroup(L, G, r) == Superuser \in G \/ r \in G

\* A sample query with minRole r is offered.
Offered(L, G, r) == Superuser \in G \/ r \in Expand(L, G)
=============================================================================
