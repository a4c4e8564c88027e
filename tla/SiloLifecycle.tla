---------------------------- MODULE SiloLifecycle ----------------------------
(***************************************************************************)
(* Silos come and go while the orchestrator and the indexer work on them:  *)
(* nothing tells either that a database is not there yet, not complete, or *)
(* no longer the one they connected to.                                    *)
(***************************************************************************)
EXTENDS DatabaseClients

vars == <<stage, provisionerVars, poolVars, containerVars>>

TypeOK == ProvisionerTypeOK /\ ClientsTypeOK

Init == ProvisionerInit /\ ClientsInit

Elsewhere == UNCHANGED <<stage, poolVars, containerVars>>
Outside == UNCHANGED <<stage, stack, at, exists, schema>>

Provisioning(d) == ProvisionerStep(d) /\ Elsewhere

Retrieving ==
  /\ \/ \E r \in Tasks, d \in Databases : Ask(r, d)
     \/ \E r \in Tasks : TaskStep(r)
     \/ Restart
  /\ Outside /\ UNCHANGED containerVars

Indexing ==
  /\ \E c \in Containers :
       \/ \E d \in Databases : Route(c, d)
       \/ ContainerStep(c) \/ ContainerFails(c) \/ Recycle(c)
  /\ Outside /\ UNCHANGED poolVars

Next == (\E d \in Databases : Provisioning(d)) \/ Retrieving \/ Indexing

\* CloudFormation calls the Lambda, and an operator repeats a destroy that
\* failed; asyncio runs the tasks
\* that can run and hands the lock on in order; documents of every silo keep
\* coming in.
Fairness ==
  /\ \A d \in Databases : WF_vars((Handle(d) \/ DestroyAgain(d)) /\ Elsewhere)
  /\ \A r \in Tasks :
       /\ WF_vars(TaskStep(r) /\ Outside /\ UNCHANGED containerVars)
       /\ SF_vars(AcquireLock(r) /\ Outside /\ UNCHANGED containerVars)
  /\ \A c \in Containers :
       /\ WF_vars(ContainerStep(c) /\ Outside /\ UNCHANGED poolVars)
       /\ \A d \in Databases : SF_vars(Route(c, d) /\ Outside /\ UNCHANGED poolVars)

Spec == Init /\ [][Next]_vars /\ Fairness

-----------------------------------------------------------------------------
(* Properties *)

\* rag.py: "one pool per agent database, created on first use".  However many
\* first requests meet, and whatever becomes of the database, the process has
\* no pool besides those close() will close.
OnePoolPerDatabase ==
  \A d \in Databases : opened[d] = IF d \in pools THEN 1 ELSE 0

\* A creation or an update that CloudFormation holds to be complete left the
\* whole schema behind, also where an earlier attempt had died between two
\* statements, was rolled back, and its database stayed.
CompleteStacksAreReady ==
  \A d \in Databases : stack[d] = "complete" => Ready(d)

\* "production data is retained": what a production database holds is never
\* lost, through any sequence of creations, updates, failures and deletions.
ProductionKeepsDocuments ==
  [][stage = "prod" => \A d \in Databases : rows[d] \subseteq rows'[d]]_vars

\* cdk destroy of a dev silo ends, although requests keep connecting to its
\* database, if it is repeated where CloudFormation left DELETE_FAILED: "on
\* delete it drops the database only when allowed (dev)".
DestroyEnds ==
  \A d \in Databases :
    stack[d] = "deleting" ~> stack[d] = "absent" /\ (stage = "dev" => ~exists[d])

\* Every request is answered: a pool that cannot be opened keeps no one waiting.
RequestsEnd == \A r \in Tasks : Pc(r) # "idle" ~> Pc(r) = "idle"

\* The indexer gets over a database that was dropped and created again: once
\* it stays ready, documents of it get through, in a container that kept its
\* connection from before.
IndexingRecovers ==
  \A d \in Databases : <>[]Ready(d) => <>[](rows[d] # {})

\* Documents are only ever in a database that is there and whose table has the
\* allowed_roles column every query filters by: whoever stores one finds both,
\* or its statement raises, and a database that is dropped takes them along.
DocumentsHaveATable ==
  \A d \in Databases : rows[d] # {} => exists[d] /\ "allowed_roles" \in schema[d]

\* Every open connection is to a database that is there, and its owner can get
\* at it: it is of the pool that close() closes, in the cache of its container,
\* or of the call that bootstraps.
ConnectionsAreReachable(d) ==
  /\ sessions[d] # {} \/ forgotten[d] # {} => exists[d]
  /\ Orchestrator \in sessions[d] => d \in pools
  /\ \A c \in Containers : c \in sessions[d] => d \in conns[c]
  /\ Provisioner \in sessions[d] => Providing(d) /\ at[d] > 2

\* The others were lost by failed calls of the two Lambdas, one by each at most.
LostByFailures(d) ==
  \A lost \in forgotten[d] :
    /\ lost.client # Orchestrator
    /\ lost.fault <= faults
    /\ \A e \in Databases : \A other \in forgotten[e] :
         other.fault = lost.fault => e = d /\ other = lost

\* rag.py, _get_db and _bootstrap_schema open connections and drop the ones they
\* hold in many orders; an open one that nobody can get at takes a failed call.
OnlyFailuresForget ==
  \A d \in Databases : ConnectionsAreReachable(d) /\ LostByFailures(d)

-----------------------------------------------------------------------------
(* The inductive invariant *)

\* How far an invocation has got is what the database has by then.
ProgressInv(d) ==
  /\ at[d] # 0 => Providing(d) \/ stack[d] = "deleting"
  /\ at[d] > 1 => Providing(d) /\ exists[d]
  /\ \A i \in 1..4 : i + 1 < at[d] => Statements[i] \in schema[d]

\* Whoever is past the lock holds it, and then only creates a pool that the
\* second look did not find.
LockInv(r) ==
  /\ Pc(r) # "idle" => Db(r) \in Databases
  /\ Pc(r) \in {"locked", "opening"} <=> lock = r
  /\ Pc(r) = "opening" => Db(r) \notin pools

\* A schema is one of a database that is there, and whoever is about to fetch
\* has a pool to fetch through.
SchemaInv(d) == schema[d] # {} => exists[d]
FetchInv(r) == Pc(r) = "fetch" => Db(r) \in pools

IInv ==
  /\ TypeOK
  /\ \A d \in Databases : ProgressInv(d)
  /\ \A r \in Tasks : LockInv(r)
  /\ \A c \in Containers : attempt[c].pc # "idle" => attempt[c].db \in Databases
  /\ CompleteStacksAreReady
  /\ OnePoolPerDatabase
  /\ \A d \in Databases : SchemaInv(d)
  /\ \A r \in Tasks : FetchInv(r)
  /\ DocumentsHaveATable
  /\ OnlyFailuresForget
=============================================================================
