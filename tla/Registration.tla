---------------------------- MODULE Registration ----------------------------
(***************************************************************************)
(* An Agent Silo while CloudFormation registers it in SSM, parameter by    *)
(* parameter in no promised order, or removes it again, and what indexer   *)
(* and orchestrator make of a copy that holds only some of them: every     *)
(* parameter but the database has a default.                               *)
(*                                                                         *)
(* cache is the copy of either process; allowed is the allowed_roles of    *)
(* each document's row as the indexer wrote it, {} before that.  No admin  *)
(* is at work here.                                                        *)
(***************************************************************************)
EXTENDS AgentRegistry, AccessRules

CONSTANTS
  SiloRoles, Ladder, Workflow, AutoClassify,   \* the silo's AgentSiloConfig
  OtherRoles,                                  \* groups of other silos
  Docs, PrefixOf, NoPrefix

ASSUME SiloIsConfigured ==
  /\ Fields = {Database, "roles", "role-ladder", "ingest-workflow", "auto-classify"}
  /\ SiloRoles # {} /\ Superuser \notin SiloRoles
  /\ Ladder \in Seq(SiloRoles)
  /\ Workflow \in {"AllUser", "UIMediated"}
  /\ \A p \in DOMAIN AutoClassify : AutoClassify[p] \in SiloRoles
  /\ NoPrefix \notin DOMAIN AutoClassify

VARIABLES removing, allowed

vars == <<registryVars, removing, allowed>>

TypeOK ==
  /\ RegistryTypeOK
  /\ removing \in BOOLEAN
  /\ allowed \in [Docs -> SUBSET SiloRoles]

Init ==
  /\ RegistryInit
  /\ removing = FALSE
  /\ allowed = [d \in Docs |-> {}]

-----------------------------------------------------------------------------
(* The stack *)

CreateParam(f, v) ==
  /\ ~removing
  /\ params[f] = Absent
  /\ Put(f, v)
  /\ UNCHANGED <<removing, allowed>>

\* A failed creation is rolled back the same way.
Destroy ==
  /\ removing' = TRUE
  /\ params # Nothing /\ ~removing
  /\ UNCHANGED registryVars
  /\ UNCHANGED allowed

DeleteParam(f) ==
  /\ removing
  /\ params[f] # Absent
  /\ Put(f, Absent)
  /\ UNCHANGED <<removing, allowed>>

-----------------------------------------------------------------------------
(* The defaults of a copy v *)

RolesIn(v) == IF v["roles"] = Absent THEN {} ELSE SiloRoles
LadderIn(v) == IF v["role-ladder"] = Absent THEN <<>> ELSE Ladder
WorkflowIn(v) == IF v["ingest-workflow"] = Absent THEN "AllUser" ELSE Workflow
AutoClassifyIn(v) == IF v["auto-classify"] = Absent THEN <<>> ELSE AutoClassify

\* The tags the indexer gives d's row; {}: none, it is staged or fails.
TagsIn(v, d) ==
  IF WorkflowIn(v) = "AllUser" THEN RolesIn(v)
  ELSE {AutoClassifyIn(v)[p] : p \in {PrefixOf[d]} \cap DOMAIN AutoClassifyIn(v)}

\* Faulty variant: what no prefix classifies goes to all roles.
IngestForAll(d) ==
  /\ ~Expired
  /\ cache[Database] # Absent
  /\ allowed' = [allowed EXCEPT ![d] = IF TagsIn(cache, d) = {} THEN RolesIn(cache) ELSE TagsIn(cache, d)]
  /\ UNCHANGED registryVars
  /\ UNCHANGED removing

\* A message about d is processed with the routes in the cache.
Ingest(d) ==
  /\ ~Expired
  /\ cache[Database] # Absent
  /\ allowed' = [allowed EXCEPT ![d] = IF TagsIn(cache, d) = {} THEN @ ELSE TagsIn(cache, d)]
  /\ UNCHANGED registryVars
  /\ UNCHANGED removing

-----------------------------------------------------------------------------
Next ==
  \/ \E f \in Fields, v \in Versions : CreateParam(f, v)
  \/ Destroy
  \/ \E f \in Fields : DeleteParam(f)
  \/ CacheNext /\ UNCHANGED <<stable, removing, allowed>>
  \/ Tick /\ UNCHANGED <<removing, allowed>>
  \/ \E d \in Docs : Ingest(d)

Spec == Init /\ [][Next]_vars

-----------------------------------------------------------------------------
(* Properties *)

\* By the copy v, a caller with the groups G may ask the silo's agent, and gets
\* the rows with one of these tags from it.
MayAsk(v, G) == v[Database] # Absent /\ Permitted(RolesIn(v), G)

Gets(v, G) ==
  LET held == Expand(LadderIn(v), G)
  IN  {r \in SiloRoles : MayAsk(v, G) /\ Matches({r}, held)}

Complete == [f \in Fields |-> CHOOSE v \in Versions : TRUE]

Callers == SUBSET (SiloRoles \cup OtherRoles \cup {Superuser})

\* "fail closed rather than open": whichever parameters the registry has got
\* and whichever it has not, nobody may ask the silo's agent, or reaches a
\* document through it, that the finished registration would keep from them.
PartialRegistrationRevealsNothing ==
  \A G \in Callers :
    MayAsk(cache, G) =>
      MayAsk(Complete, G) /\ Gets(cache, G) \subseteq Gets(Complete, G)

\* A registration that was finished longer than Horizon ago is served to the
\* letter, and one whose database was removed that long ago is served to nobody.
SettlesAsRegistered ==
  stable > Horizon /\ ~Expired =>
    \A G \in Callers :
      /\ (\A f \in Fields : params[f] # Absent) =>
           MayAsk(cache, G) = MayAsk(Complete, G) /\ Gets(cache, G) = Gets(Complete, G)
      /\ params[Database] = Absent => ~MayAsk(cache, G)

\* Once the workflow is in the copy, the indexer tags no document otherwise than
\* the finished registration would; it stages or refuses it when in doubt.
TagsAsRegistered ==
  [][\A d \in Docs :
       allowed'[d] # allowed[d] /\ cache["ingest-workflow"] # Absent =>
         allowed'[d] = TagsIn(Complete, d)]_vars

\* IngestWorkflow.UIMediated: "Documents are staged in DynamoDB (not written to
\* the vector database) until an admin UI picks which roles can see them."
UIMediatedAwaitsAdmin ==
  \A d \in Docs :
    Workflow = "UIMediated" /\ PrefixOf[d] \notin DOMAIN AutoClassify => allowed[d] = {}
=============================================================================
