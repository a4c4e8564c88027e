--------------------------- MODULE DatabaseClients ---------------------------
(***************************************************************************)
(* The two programs that keep connections to the silos' databases, which   *)
(* are made and dropped underneath them: the orchestrator's Retriever      *)
(* (app/rag.py), with one pool per database, and the vector indexer, with  *)
(* one connection per database in each Lambda container (_get_db).         *)
(*                                                                         *)
(*   pools     the databases Retriever._pools has a pool for               *)
(*   opened    how many pools to each database exist in the process        *)
(*   lock      the task that holds Retriever._lock                         *)
(*   task      each request the orchestrator works on, an asyncio task     *)
(*   conns     the databases _conns has a connection for, per container    *)
(*   attempt   what each container works on                                *)
(*                                                                         *)
(* A pooled or cached connection is open while its client is in sessions.  *)
(***************************************************************************)
EXTENDS SiloProvisioner

CONSTANTS
  Tasks, NoTask,
  Containers,
  Orchestrator,  \* the client the pools are
  NoDatabase

ASSUME ClientsAssumption ==
  /\ Clients = Containers \cup {Orchestrator, Provisioner}
  /\ Orchestrator \notin Containers
  /\ Provisioner \notin Containers \cup {Orchestrator}
  /\ NoTask \notin Tasks
  /\ NoDatabase \notin Databases

VARIABLES pools, opened, lock, task, conns, attempt

poolVars == <<pools, opened, lock, task>>
containerVars == <<conns, attempt>>

TaskState == {"idle", "lookup", "waiting", "locked", "opening", "fetch"}

ClientsTypeOK ==
  /\ pools \in SUBSET Databases
  /\ opened \in [Databases -> Nat]
  /\ lock \in Tasks \cup {NoTask}
  /\ task \in [Tasks -> [pc : TaskState, db : Databases \cup {NoDatabase}]]
  /\ conns \in [Containers -> SUBSET Databases]
  /\ attempt \in [Containers -> [pc : {"idle", "routed", "connected"}, db : Databases \cup {NoDatabase}]]

ClientsInit ==
  /\ pools = {}
  /\ opened = [d \in Databases |-> 0]
  /\ lock = NoTask
  /\ task = [r \in Tasks |-> [pc |-> "idle", db |-> NoDatabase]]
  /\ conns = [c \in Containers |-> {}]
  /\ attempt = [c \in Containers |-> [pc |-> "idle", db |-> NoDatabase]]

-----------------------------------------------------------------------------
(* Retriever *)

Pc(r) == task[r].pc
Db(r) == task[r].db
To(r, pc) == task' = [task EXCEPT ![r] = [pc |-> pc, db |-> Db(r)]]
EndTask(r) == task' = [task EXCEPT ![r] = [pc |-> "idle", db |-> NoDatabase]]

\* A chat or a publish reaches the retriever.
Ask(r, d) ==
  /\ Pc(r) = "idle"
  /\ task' = [task EXCEPT ![r] = [pc |-> "lookup", db |-> d]]
  /\ UNCHANGED <<pools, opened, lock, connectionVars, rows, faults>>

\* _get_pool: self._pools.get(database)
LookUpPool(r) ==
  /\ Pc(r) = "lookup"
  /\ To(r, IF Db(r) \in pools THEN "fetch" ELSE "waiting")
  /\ UNCHANGED <<pools, opened, lock, connectionVars, rows, faults>>

\* async with self._lock
AcquireLock(r) ==
  /\ Pc(r) = "waiting" /\ lock = NoTask
  /\ lock' = r
  /\ To(r, "locked")
  /\ UNCHANGED <<pools, opened, connectionVars, rows, faults>>

\* Faulty variant: nobody looks again once the lock is held.
OpenRegardless(r) ==
  /\ Pc(r) = "locked"
  /\ To(r, "opening")
  /\ UNCHANGED <<pools, opened, lock, connectionVars, rows, faults>>

\* The second self._pools.get(database).
LookAgain(r) ==
  /\ Pc(r) = "locked"
  /\ IF Db(r) \in pools
     THEN lock' = NoTask /\ To(r, "fetch")
     ELSE UNCHANGED lock /\ To(r, "opening")
  /\ UNCHANGED <<pools, opened, connectionVars, rows, faults>>

\* await asyncpg.create_pool, which connects once (min_size=1).
OpenPool(r) ==
  /\ Pc(r) = "opening" /\ exists[Db(r)]
  /\ pools' = pools \cup {Db(r)}
  /\ opened' = [opened EXCEPT ![Db(r)] = @ + 1]
  /\ Connect(Orchestrator, Db(r))
  /\ lock' = NoTask
  /\ To(r, "fetch")
  /\ UNCHANGED <<rows, faults>>

\* Faulty variant: acquire and release without try ... finally.
FailToOpenHoldingLock(r) ==
  /\ Pc(r) = "opening"
  /\ IF exists[Db(r)] THEN Fault ELSE UNCHANGED faults
  /\ EndTask(r)
  /\ UNCHANGED <<pools, opened, lock, connectionVars, rows>>

\* It raises: the database does not exist, or cannot be reached.
FailToOpen(r) ==
  /\ Pc(r) = "opening"
  /\ IF exists[Db(r)] THEN Fault ELSE UNCHANGED faults
  /\ lock' = NoTask
  /\ EndTask(r)
  /\ UNCHANGED <<pools, opened, connectionVars, rows>>

\* pool.fetch or pool.execute.  A pool replaces a connection that was closed;
\* where there is no database any more, or a part of its schema is missing, the
\* statement raises, and only a missing table is taken for an empty one.
Fetch(r) ==
  /\ Pc(r) = "fetch"
  /\ IF exists[Db(r)] THEN Connect(Orchestrator, Db(r)) ELSE UNCHANGED connectionVars
  /\ EndTask(r)
  /\ UNCHANGED <<pools, opened, lock, rows, faults>>

\* publish, which stores a document where the schema is complete.
PublishTo(r) ==
  /\ Pc(r) = "fetch" /\ exists[Db(r)] /\ "allowed_roles" \in schema[Db(r)]
  /\ \E x \in Docs : rows' = [rows EXCEPT ![Db(r)] = @ \cup {x}]
  /\ Connect(Orchestrator, Db(r))
  /\ EndTask(r)
  /\ UNCHANGED <<pools, opened, lock, faults>>

\* The service is replaced: close() closes the pools, and a new process has none.
Restart ==
  /\ pools' = {}
  /\ opened' = [d \in Databases |-> 0]
  /\ lock' = NoTask
  /\ task' = [r \in Tasks |-> [pc |-> "idle", db |-> NoDatabase]]
  /\ sessions' = [d \in Databases |-> sessions[d] \ {Orchestrator}]
  /\ UNCHANGED <<forgotten, rows, faults>>

TaskStep(r) ==
  LookUpPool(r) \/ AcquireLock(r) \/ LookAgain(r) \/ OpenPool(r) \/ FailToOpen(r) \/ Fetch(r) \/ PublishTo(r)

-----------------------------------------------------------------------------
(* The vector indexer *)

\* A document's routes are known, and _get_db is called for its database.
Route(c, d) ==
  /\ attempt[c].pc = "idle"
  /\ attempt' = [attempt EXCEPT ![c] = [pc |-> "routed", db |-> d]]
  /\ UNCHANGED <<conns, connectionVars, rows, faults>>

GiveUpAttempt(c) == attempt' = [attempt EXCEPT ![c] = [pc |-> "idle", db |-> NoDatabase]]
Proceed(c) == attempt' = [attempt EXCEPT ![c] = [pc |-> "connected", db |-> attempt[c].db]]

\* Faulty variant: the cached connection is returned unprobed.
GetDbUnprobed(c) ==
  /\ attempt[c].pc = "routed"
  /\ LET d == attempt[c].db IN
     \/ d \in conns[c] /\ Proceed(c) /\ UNCHANGED <<conns, connectionVars>>
     \/ /\ d \notin conns[c] /\ exists[d]
        /\ conns' = [conns EXCEPT ![c] = @ \cup {d}]
        /\ Connect(c, d)
        /\ Proceed(c)
     \/ d \notin conns[c] /\ ~exists[d] /\ GiveUpAttempt(c) /\ UNCHANGED <<conns, connectionVars>>
  /\ UNCHANGED <<rows, faults>>

\* _get_db: a cached connection that answers SELECT 1 is used; any other is
\* forgotten, and a new one is made where there is a database.
GetDb(c) ==
  /\ attempt[c].pc = "routed"
  /\ LET d == attempt[c].db IN
     IF exists[d]
     THEN conns' = [conns EXCEPT ![c] = @ \cup {d}] /\ Connect(c, d) /\ Proceed(c)
     ELSE conns' = [conns EXCEPT ![c] = @ \ {d}] /\ UNCHANGED connectionVars /\ GiveUpAttempt(c)
  /\ UNCHANGED <<rows, faults>>

\* SELECT 1 fails although the database is there: the connection broke, or it
\* is popped while it is open.  Then another is made, or that fails as well.
FailProbe(c) ==
  /\ attempt[c].pc = "routed"
  /\ LET d == attempt[c].db IN
     /\ c \in sessions[d]
     /\ Fault
     /\ UNCHANGED forgotten \/ Forget(c, d)
     /\ \/ Proceed(c) /\ UNCHANGED <<conns, sessions>>
        \/ /\ GiveUpAttempt(c)
           /\ conns' = [conns EXCEPT ![c] = @ \ {d}]
           /\ Disconnect(c, d)
  /\ UNCHANGED rows

\* The secret is not to be had, or the database not to be reached.
FailToConnect(c) ==
  /\ attempt[c].pc = "routed"
  /\ LET d == attempt[c].db IN
     /\ c \notin sessions[d]
     /\ Fault
     /\ conns' = [conns EXCEPT ![c] = @ \ {d}]
  /\ GiveUpAttempt(c)
  /\ UNCHANGED <<connectionVars, rows>>

\* _persist on that connection: it raises if the connection has been cut since
\* or the table is not complete, and the record is reported as failed.
PersistIn(c) ==
  /\ attempt[c].pc = "connected"
  /\ LET d == attempt[c].db IN
     IF c \in sessions[d] /\ "allowed_roles" \in schema[d]
     THEN \E x \in Docs : rows' = [rows EXCEPT ![d] = @ \cup {x}]
     ELSE UNCHANGED rows
  /\ GiveUpAttempt(c)
  /\ UNCHANGED <<conns, connectionVars, faults>>

\* The statement fails for another reason; the connection stays cached.
FailPersist(c) ==
  /\ attempt[c].pc = "connected"
  /\ Fault
  /\ GiveUpAttempt(c)
  /\ UNCHANGED <<conns, connectionVars, rows>>

\* Lambda replaces a container that has nothing to do.
Recycle(c) ==
  /\ attempt[c].pc = "idle"
  /\ conns' = [conns EXCEPT ![c] = {}]
  /\ sessions' = [d \in Databases |-> sessions[d] \ {c}]
  /\ forgotten' = [d \in Databases |-> {lost \in forgotten[d] : lost.client # c}]
  /\ UNCHANGED <<attempt, rows, faults>>

ContainerStep(c) == GetDb(c) \/ PersistIn(c)
ContainerFails(c) == FailProbe(c) \/ FailToConnect(c) \/ FailPersist(c)
=============================================================================
