------------------------------- MODULE Silos -------------------------------
(***************************************************************************)
(* The deployed Agent Silos and the documents meant for them, as far as    *)
(* ingest and review depend on them: config/agent-silos.ts, published to   *)
(* SSM by each AgentSiloStack.  The configuration does not change here;    *)
(* what happens while it does is AgentRegistry's subject.                  *)
(***************************************************************************)
CONSTANTS
  Agents,        \* silo ids
  Roles,         \* Cognito group names, of all silos
  SiloRoles,     \* the role set each silo declares
  Workflow,      \* its ingestWorkflow
  Prefixes,      \* filename prefixes
  AutoClassify,  \* autoClassifyPrefixes: prefix -> role, for some prefixes
  Docs,          \* documents: a source id within a silo
  NoDoc,         \* none of them
  SiloOf,        \* the silo a document belongs to
  PrefixOf,      \* what stands before "__" in its file name
  FromBucket     \* documents uploaded to the silo's bucket, id s3://bucket/key

Workflows == {"AllUser", "UIMediated"}

ASSUME SilosAreConfigured ==
  /\ SiloRoles \in [Agents -> SUBSET Roles]
  /\ Workflow \in [Agents -> Workflows]
  /\ \A a \in Agents :
       /\ DOMAIN AutoClassify[a] \subseteq Prefixes
       /\ \A p \in DOMAIN AutoClassify[a] : AutoClassify[a][p] \in SiloRoles[a]
  /\ SiloOf \in [Docs -> Agents]
  /\ FromBucket \subseteq Docs
  /\ NoDoc \notin Docs

\* _classify returns a role.
Classified(d) == PrefixOf[d] \in DOMAIN AutoClassify[SiloOf[d]]

\* Only a UIMediated silo leaves the decision to a human.
NeedsReview(d) == Workflow[SiloOf[d]] = "UIMediated" /\ ~Classified(d)

\* The allowed_roles the indexer writes by itself: the one role a prefix
\* implies, or all the roles of an AllUser silo.
Tags(d) ==
  IF Workflow[SiloOf[d]] = "UIMediated"
  THEN {AutoClassify[SiloOf[d]][PrefixOf[d]]}
  ELSE SiloRoles[SiloOf[d]]
=============================================================================
