--------------------------- MODULE SiloProvisioner ---------------------------
(***************************************************************************)
(* The databases of the Agent Silos on the shared Postgres instance and    *)
(* the Lambda that makes and drops them (siloProvisioner/handler.py), as a *)
(* custom resource of each silo's stack.  Every statement autocommits, so  *)
(* each is a step, and the Lambda may die before any of them.              *)
(*                                                                         *)
(*   stage     dev or prod, for the whole deployment                       *)
(*   stack     what CloudFormation is doing with each silo's Database      *)
(*   at        how far the invocation under way has got; 0: there is none  *)
(*   exists, schema, rows   each database, what is created in it, and the  *)
(*             documents it holds                                          *)
(*   sessions  who has a connection to it, and knows of it                 *)
(*   forgotten connections to it that a failed call lost without closing,  *)
(*             each with its client and the number of the failure          *)
(*   faults    calls that have failed, here and in DatabaseClients         *)
(***************************************************************************)
EXTENDS Naturals, Sequences

CONSTANTS
  Databases,   \* their names are safe: _validate raises for any other
  Clients,     \* whoever opens connections
  Provisioner, \* the client this Lambda is
  Docs,
  MaxFaults    \* bound: calls that fail for reasons of their own

ASSUME ProvisionerAssumption == MaxFaults \in Nat /\ Provisioner \in Clients

VARIABLES stage, stack, at, exists, schema, rows, sessions, forgotten, faults

connectionVars == <<sessions, forgotten>>
databaseVars == <<exists, schema, rows, connectionVars>>
provisionerVars == <<stack, at, databaseVars, faults>>

StackState ==
  {"absent", "creating", "updating", "deleting", "complete", "updateFailed", "deleteFailed"}

Lost == [client : Clients, fault : 1..MaxFaults]

\* _bootstrap_schema, in its order.
Statements == <<"extension", "table", "index", "allowed_roles">>
Schema == {"extension", "table", "index", "allowed_roles"}

\* CREATE DATABASE is the first step, DROP DATABASE the only one.
LastStep == 1 + Len(Statements)

ProvisionerTypeOK ==
  /\ stage \in {"dev", "prod"}
  /\ stack \in [Databases -> StackState]
  /\ at \in [Databases -> 0..5]
  /\ exists \in [Databases -> BOOLEAN]
  /\ schema \in [Databases -> SUBSET Schema]
  /\ rows \in [Databases -> SUBSET Docs]
  /\ sessions \in [Databases -> SUBSET Clients]
  /\ forgotten \in [Databases -> SUBSET Lost]
  /\ faults \in 0..MaxFaults

ProvisionerInit ==
  /\ stage \in {"dev", "prod"}
  /\ stack = [d \in Databases |-> "absent"]
  /\ at = [d \in Databases |-> 0]
  /\ exists = [d \in Databases |-> FALSE]
  /\ schema = [d \in Databases |-> {}]
  /\ rows = [d \in Databases |-> {}]
  /\ sessions = [d \in Databases |-> {}]
  /\ forgotten = [d \in Databases |-> {}]
  /\ faults = 0

Ready(d) == exists[d] /\ schema[d] = Schema

\* A call raises although nothing is wrong with what it asks for.
Fault == faults < MaxFaults /\ faults' = faults + 1

Connect(c, d) == sessions' = [sessions EXCEPT ![d] = @ \cup {c}] /\ UNCHANGED forgotten
Disconnect(c, d) == sessions' = [sessions EXCEPT ![d] = @ \ {c}]

\* The call that fails leaves its connection open, and nobody knows of it.
Forget(c, d) ==
  forgotten' = [forgotten EXCEPT ![d] = @ \cup {[client |-> c, fault |-> faults + 1]}]

\* Python's collector gets to it, or the Lambda container that opened it ends.
Collect(d) ==
  /\ \E lost \in forgotten[d] : forgotten' = [forgotten EXCEPT ![d] = @ \ {lost}]
  /\ UNCHANGED <<stack, at, exists, schema, rows, sessions, faults>>

-----------------------------------------------------------------------------
(* CloudFormation *)

\* cdk deploy and cdk destroy of one silo.
Change(d, from, to) ==
  /\ stack[d] = from
  /\ stack' = [stack EXCEPT ![d] = to]
  /\ UNCHANGED <<at, databaseVars, faults>>

\* A failed update is rolled back by an Update with the old properties, which
\* are the same, or deployed again, or the stack is destroyed.
Deploy(d) ==
  \/ Change(d, "absent", "creating")
  \/ Change(d, "complete", "updating")
  \/ Change(d, "updateFailed", "updating")

\* A stack whose deletion failed stays until it is destroyed again.
DestroyAgain(d) == Change(d, "deleteFailed", "deleting")
Destroy(d) ==
  \/ Change(d, "complete", "deleting")
  \/ Change(d, "updateFailed", "deleting")
  \/ DestroyAgain(d)

\* The provider framework calls handler(), once for each of these.
Invoke(d) ==
  /\ stack[d] \in {"creating", "updating", "deleting"} /\ at[d] = 0
  /\ at' = [at EXCEPT ![d] = 1]
  /\ UNCHANGED <<stack, databaseVars, faults>>

\* After a failed Create the stack is rolled back, and the framework keeps the
\* Delete of a resource that was never created from the handler.
AfterFailure(state) ==
  CASE state = "creating" -> "absent"
    [] state = "updating" -> "updateFailed"
    [] OTHER -> "deleteFailed"

GiveUp(d) ==
  /\ at' = [at EXCEPT ![d] = 0]
  /\ stack' = [stack EXCEPT ![d] = AfterFailure(@)]

\* The Lambda raises, or dies with its connection.  _bootstrap_schema closes
\* its connection only where every statement has succeeded.
FailProvisioning(d) ==
  /\ at[d] # 0
  /\ Fault
  /\ GiveUp(d)
  /\ Disconnect(Provisioner, d)
  /\ UNCHANGED forgotten \/ (at[d] > 1 /\ Forget(Provisioner, d))
  /\ UNCHANGED <<exists, schema, rows>>

Succeed(d) ==
  /\ at' = [at EXCEPT ![d] = 0]
  /\ stack' = [stack EXCEPT ![d] = IF @ = "deleting" THEN "absent" ELSE "complete"]

-----------------------------------------------------------------------------
(* handler() *)

Providing(d) == stack[d] \in {"creating", "updating"}

Advance(d) == at' = [at EXCEPT ![d] = @ + 1]

\* Faulty variant: a database that exists is taken to be complete.
CreateOrTrust(d) ==
  /\ Providing(d) /\ at[d] = 1
  /\ IF exists[d]
     THEN Succeed(d) /\ UNCHANGED databaseVars
     ELSE /\ exists' = [exists EXCEPT ![d] = TRUE]
          /\ Advance(d) /\ UNCHANGED <<stack, schema, rows, connectionVars>>
  /\ UNCHANGED faults

\* _on_create_update: CREATE DATABASE unless pg_database lists it.
CreateDatabase(d) ==
  /\ Providing(d) /\ at[d] = 1
  /\ exists' = [exists EXCEPT ![d] = TRUE]
  /\ Advance(d)
  /\ UNCHANGED <<stack, schema, rows, connectionVars, faults>>

\* Faulty variant: one statement too far.
BootstrapFurther(d) ==
  /\ Providing(d) /\ at[d] > 1
  /\ schema' = [schema EXCEPT ![d] = @ \cup {Statements[at[d] - 1]}]
  /\ IF at[d] > LastStep
     THEN Succeed(d) /\ Disconnect(Provisioner, d) /\ UNCHANGED forgotten
     ELSE Advance(d) /\ Connect(Provisioner, d) /\ UNCHANGED stack
  /\ UNCHANGED <<exists, rows, faults>>

\* _bootstrap_schema: CREATE ... IF NOT EXISTS, ADD COLUMN IF NOT EXISTS, on a
\* connection opened for the first and closed after the last of them.
Bootstrap(d) ==
  /\ Providing(d) /\ at[d] > 1
  /\ schema' = [schema EXCEPT ![d] = @ \cup {Statements[at[d] - 1]}]
  /\ IF at[d] = LastStep
     THEN Succeed(d) /\ Disconnect(Provisioner, d) /\ UNCHANGED forgotten
     ELSE Advance(d) /\ Connect(Provisioner, d) /\ UNCHANGED stack
  /\ UNCHANGED <<exists, rows, faults>>

\* str(props.get("AllowDrop", "false")).lower() == "true", and AllowDrop is
\* String(!isProd).
AllowDrop == stage # "prod"

\* Faulty variant: the property is a string, and "false" is a true one.
DropTruthy(d) ==
  /\ stack[d] = "deleting" /\ at[d] = 1
  /\ Succeed(d)
  /\ exists' = [exists EXCEPT ![d] = FALSE]
  /\ schema' = [schema EXCEPT ![d] = {}]
  /\ rows' = [rows EXCEPT ![d] = {}]
  /\ sessions' = [sessions EXCEPT ![d] = {}]
  /\ forgotten' = [forgotten EXCEPT ![d] = {}]
  /\ UNCHANGED faults

\* Faulty variant: without FORCE, Postgres refuses while anyone is connected.
DropUnforced(d) ==
  /\ stack[d] = "deleting" /\ at[d] = 1
  /\ IF AllowDrop /\ (sessions[d] # {} \/ forgotten[d] # {})
     THEN GiveUp(d) /\ UNCHANGED databaseVars
     ELSE /\ Succeed(d)
          /\ exists' = [exists EXCEPT ![d] = @ /\ ~AllowDrop]
          /\ schema' = [schema EXCEPT ![d] = IF AllowDrop THEN {} ELSE @]
          /\ rows' = [rows EXCEPT ![d] = IF AllowDrop THEN {} ELSE @]
          /\ UNCHANGED connectionVars
  /\ UNCHANGED faults

\* _on_delete: production returns early; otherwise DROP DATABASE IF EXISTS ...
\* WITH (FORCE), which ends every session.
DropDatabase(d) ==
  /\ stack[d] = "deleting" /\ at[d] = 1
  /\ Succeed(d)
  /\ IF AllowDrop
     THEN /\ exists' = [exists EXCEPT ![d] = FALSE]
          /\ schema' = [schema EXCEPT ![d] = {}]
          /\ rows' = [rows EXCEPT ![d] = {}]
          /\ sessions' = [sessions EXCEPT ![d] = {}]
          /\ forgotten' = [forgotten EXCEPT ![d] = {}]
     ELSE UNCHANGED databaseVars
  /\ UNCHANGED faults

-----------------------------------------------------------------------------
Handle(d) == Invoke(d) \/ CreateDatabase(d) \/ Bootstrap(d) \/ DropDatabase(d)

ProvisionerStep(d) ==
  Deploy(d) \/ Destroy(d) \/ Handle(d) \/ FailProvisioning(d) \/ Collect(d)
=============================================================================
