--------------------------- MODULE AccessControl ---------------------------
(***************************************************************************)
(* One silo, its users and its documents over time: roles are granted and  *)
(* taken back in Cognito, documents are tagged by the indexer or an admin, *)
(* the ladder is rewritten by a deployment.  The two access layers are     *)
(* evaluated on whatever these are at the moment; how old the orchestrator *)
(* may take them to be is not this module's subject.                       *)
(*                                                                         *)
(*   groups  the Cognito groups of each user                               *)
(*   tags    allowed_roles of each document's row; {}: no row              *)
(*   ladder  the silo's roleLadder                                         *)
(***************************************************************************)
EXTENDS AccessRules

CONSTANTS
  Users, Docs,
  SiloRoles,   \* the roles the silo declares
  OtherGroups, \* those of other silos
  Ladders      \* the ladders deployments may declare

Groups == SiloRoles \cup OtherGroups \cup {Superuser}

\* Role names are namespaced per silo; a ladder orders some of its silo's.
ASSUME RolesAreNamespaced ==
  /\ SiloRoles \cap OtherGroups = {}
  /\ Superuser \notin SiloRoles \cup OtherGroups
  /\ Ladders \subseteq Seq(SiloRoles)

VARIABLES groups, tags, ladder

vars == <<groups, tags, ladder>>

TypeOK ==
  /\ groups \in [Users -> SUBSET Groups]
  /\ tags \in [Docs -> SUBSET SiloRoles]
  /\ ladder \in Ladders

Init ==
  /\ groups = [u \in Users |-> {}]
  /\ tags = [d \in Docs |-> {}]
  /\ ladder \in Ladders

AddToGroup(u, g) ==
  /\ g \notin groups[u]
  /\ groups' = [groups EXCEPT ![u] = @ \cup {g}]
  /\ UNCHANGED <<tags, ladder>>

RemoveFromGroup(u, g) ==
  /\ g \in groups[u]
  /\ groups' = [groups EXCEPT ![u] = @ \ {g}]
  /\ UNCHANGED <<tags, ladder>>

\* Faulty variant: publish takes roles the silo does not have.
TagUnchecked(d, T) ==
  /\ T # {}
  /\ tags' = [tags EXCEPT ![d] = T \cup OtherGroups]
  /\ UNCHANGED <<groups, ladder>>

\* Only lawful tags are written (DocumentFlow's RowsAreLawful).
Tag(d, T) ==
  /\ T # {}
  /\ tags' = [tags EXCEPT ![d] = T]
  /\ UNCHANGED <<groups, ladder>>

RewriteLadder(L) ==
  /\ ladder' = L
  /\ UNCHANGED <<groups, tags>>

Next ==
  \/ \E u \in Users, g \in Groups : AddToGroup(u, g) \/ RemoveFromGroup(u, g)
  \/ \E d \in Docs, T \in SUBSET SiloRoles : Tag(d, T)
  \/ \E L \in Ladders : RewriteLadder(L)

Spec == Init /\ [][Next]_vars

-----------------------------------------------------------------------------
(* Properties *)

MayUse(u) == Permitted(SiloRoles, groups[u])

Sees(u, d) == tags[d] # {} /\ Matches(tags[d], Expand(ladder, groups[u]))

\* The two layers agree, whatever the ladder: the document filter alone shows
\* nothing to a user the silo gate turns away (auth.py: a role of another silo
\* never matches any row), and what an AllUser silo tags with its full role set
\* is visible to everyone the gate lets in.
LayersAgree ==
  \A u \in Users, d \in Docs :
    /\ Sees(u, d) => MayUse(u)
    /\ MayUse(u) /\ tags[d] = SiloRoles /\ SiloRoles # {} => Sees(u, d)

\* roleLadder: holding a role grants everything declared before it.  Whoever
\* holds a role of the ladder sees all that somebody sees who holds nothing of
\* the silo but more junior roles, however many roles either holds besides.
SeniorsSeeWhatJuniorsSee ==
  \A u, v \in Users, d \in Docs :
    /\ Superuser \notin groups[v]
    /\ \A g \in groups[v] \cap SiloRoles :
         \E i \in Ranks(ladder, {g}), j \in Ranks(ladder, groups[u]) : i <= j
    /\ Sees(v, d)
    => Sees(u, d)

\* "roles union within a silo rather than overriding one another": one more
\* group never hides a document.
GrantingHidesNothing ==
  [][\A u \in Users, d \in Docs :
       groups[u] \subseteq groups'[u] /\ UNCHANGED <<tags, ladder>> /\ Sees(u, d)
       => Sees(u, d)']_vars

\* A document tagged with one role is visible to exactly those its tag is the
\* minimum for, and exactly to them is a sample query with that minRole offered:
\* "every question offered is one the caller can answer".  A sample without one
\* is about documents of the lowest rung, and everyone in a fully laddered silo
\* can answer it.
SamplesAreAnswerable ==
  \A u \in Users, d \in Docs, r \in SiloRoles :
    MayUse(u) /\ tags[d] = {r} =>
      /\ Offered(ladder, groups[u], r) <=> Sees(u, d)
      /\ (\A s \in SiloRoles : \E i \in DOMAIN ladder : ladder[i] = s) /\ r = ladder[1]
           => Sees(u, d)
=============================================================================
