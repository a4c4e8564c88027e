------------------------ MODULE SiloLifecycleProofs ------------------------
(***************************************************************************)
(* Silo databases and the connections to them, for any number of silos,    *)
(* requests, containers and failures.                                      *)
(***************************************************************************)
EXTENDS SiloLifecycle, TLAPS

USE DEF connectionVars

\* The statements, one by one, are the schema.
LEMMA StatementsAreTheSchema ==
  /\ LastStep = 5
  /\ \A i \in 1..4 : Statements[i] \in Schema
  /\ \A S : (\A i \in 1..4 : Statements[i] \in S) => Schema \subseteq S
<1>1. LastStep = 5
  BY DEF LastStep, Statements
<1>2. /\ Statements[1] = "extension" /\ Statements[2] = "table"
      /\ Statements[3] = "index" /\ Statements[4] = "allowed_roles"
  BY DEF Statements
<1>3. \A i \in 1..4 : i = 1 \/ i = 2 \/ i = 3 \/ i = 4
  OBVIOUS
<1>4. 1 \in 1..4 /\ 2 \in 1..4 /\ 3 \in 1..4 /\ 4 \in 1..4
  OBVIOUS
<1>5. \A i \in 1..4 : Statements[i] \in Schema
  BY <1>2, <1>3 DEF Schema
<1>6. ASSUME NEW S, \A i \in 1..4 : Statements[i] \in S PROVE Schema \subseteq S
  BY <1>2, <1>4, <1>6 DEF Schema
<1> QED
  BY <1>1, <1>5, <1>6

-----------------------------------------------------------------------------
(* Type correctness *)

\* Tasks and attempts that have begun are about a database, and only those.
Assigned ==
  /\ \A r \in Tasks : Pc(r) # "idle" => Db(r) \in Databases
  /\ \A c \in Containers : attempt[c].pc # "idle" => attempt[c].db \in Databases

Typed == TypeOK /\ Assigned

LEMMA InitTyped == Init => Typed
<1> SUFFICES ASSUME Init PROVE Typed
  OBVIOUS
<1>1. ProvisionerTypeOK
  BY ProvisionerAssumption DEF Init, ProvisionerInit, ProvisionerTypeOK, StackState
<1>2. ClientsTypeOK
  BY DEF Init, ClientsInit, ClientsTypeOK, TaskState
<1>3. Assigned
  BY DEF Init, ClientsInit, Assigned, Pc
<1> QED
  BY <1>1, <1>2, <1>3 DEF Typed, TypeOK

\* What a failing call does to the connections nobody knows of.
LEMMA ForgetTyped ==
  ASSUME Typed, NEW c \in Clients, NEW d \in Databases, Fault,
         UNCHANGED forgotten \/ Forget(c, d)
  PROVE  forgotten' \in [Databases -> SUBSET Lost] /\ faults' \in 0..MaxFaults
<1> USE ProvisionerAssumption DEF Typed, TypeOK, ProvisionerTypeOK
<1>1. faults + 1 \in 1..MaxFaults /\ faults' \in 0..MaxFaults
  BY DEF Fault
<1>2. [client |-> c, fault |-> faults + 1] \in Lost
  BY <1>1 DEF Lost
<1> QED
  BY <1>1, <1>2 DEF Forget

\* The provisioner's steps keep the provisioner's variables typed.
LEMMA ProvisioningTyped ==
  ASSUME Typed, NEW d \in Databases, Provisioning(d)
  PROVE  Typed'
<1> USE DEF Typed, TypeOK
<1>1. ClientsTypeOK' /\ Assigned'
  BY DEF Provisioning, Elsewhere, poolVars, containerVars, ClientsTypeOK, Assigned, Pc, Db
<1>2. stage' \in {"dev", "prod"}
  BY DEF Provisioning, Elsewhere, ProvisionerTypeOK
<1>a. at[d] \in 0..5 /\ stack[d] \in StackState
  BY DEF ProvisionerTypeOK
<1>b. ASSUME NEW T \in StackState PROVE [stack EXCEPT ![d] = T] \in [Databases -> StackState]
  BY DEF ProvisionerTypeOK
<1>c. Succeed(d) => at' \in [Databases -> 0..5] /\ stack' \in [Databases -> StackState]
  BY <1>a, <1>b DEF Succeed, ProvisionerTypeOK, StackState
<1>d. GiveUp(d) => at' \in [Databases -> 0..5] /\ stack' \in [Databases -> StackState]
  BY <1>a, <1>b DEF GiveUp, AfterFailure, ProvisionerTypeOK, StackState
<1>e. at[d] # 5 /\ Advance(d) => at' \in [Databases -> 0..5]
  BY <1>a DEF Advance, ProvisionerTypeOK
<1>f. Provisioner \in Clients
  BY ProvisionerAssumption
<1>g. Connect(Provisioner, d) \/ Disconnect(Provisioner, d) => sessions' \in [Databases -> SUBSET Clients]
  BY <1>f DEF Connect, Disconnect, ProvisionerTypeOK
<1>3. CASE Deploy(d) \/ Destroy(d)
  BY <1>1, <1>2, <1>3 DEF Deploy, Destroy, DestroyAgain, Change, databaseVars, ProvisionerTypeOK, StackState
<1>4. CASE Invoke(d)
  BY <1>1, <1>2, <1>4 DEF Invoke, databaseVars, ProvisionerTypeOK
<1>5. CASE CreateDatabase(d)
  <2>1. at' \in [Databases -> 0..5]
    BY <1>5, <1>e DEF CreateDatabase
  <2>2. exists' \in [Databases -> BOOLEAN]
    BY <1>5 DEF CreateDatabase, ProvisionerTypeOK
  <2> QED
    BY <1>1, <1>2, <1>5, <2>1, <2>2 DEF CreateDatabase, ProvisionerTypeOK
<1>6. CASE Bootstrap(d)
  <2>1. at' \in [Databases -> 0..5] /\ stack' \in [Databases -> StackState]
    BY <1>6, <1>a, <1>c, <1>e, StatementsAreTheSchema DEF Bootstrap, ProvisionerTypeOK
  <2>2. at[d] - 1 \in 1..4
    BY <1>6, <1>a DEF Bootstrap
  <2>3. Statements[at[d] - 1] \in Schema
    BY <2>2, StatementsAreTheSchema
  <2>4. schema' \in [Databases -> SUBSET Schema]
    BY <1>6, <2>3 DEF Bootstrap, ProvisionerTypeOK
  <2>5. sessions' \in [Databases -> SUBSET Clients] /\ UNCHANGED forgotten
    BY <1>6, <1>g DEF Bootstrap, Connect
  <2> QED
    BY <1>1, <1>2, <1>6, <2>1, <2>4, <2>5 DEF Bootstrap, ProvisionerTypeOK
<1>7. CASE DropDatabase(d)
  <2>1. at' \in [Databases -> 0..5] /\ stack' \in [Databases -> StackState]
    BY <1>7, <1>c DEF DropDatabase
  <2>2. /\ exists' \in [Databases -> BOOLEAN] /\ schema' \in [Databases -> SUBSET Schema]
        /\ rows' \in [Databases -> SUBSET Docs] /\ sessions' \in [Databases -> SUBSET Clients]
        /\ forgotten' \in [Databases -> SUBSET Lost]
    <3>1. CASE AllowDrop
      BY <1>7, <3>1 DEF DropDatabase, ProvisionerTypeOK
    <3>2. CASE ~AllowDrop
      BY <1>7, <3>2 DEF DropDatabase, databaseVars, ProvisionerTypeOK
    <3> QED
      BY <3>1, <3>2
  <2> QED
    BY <1>1, <1>2, <1>7, <2>1, <2>2 DEF DropDatabase, ProvisionerTypeOK
<1>8. CASE FailProvisioning(d)
  <2>1. faults' \in 0..MaxFaults /\ forgotten' \in [Databases -> SUBSET Lost]
    BY <1>8, <1>f, ForgetTyped DEF FailProvisioning, Fault, ProvisionerTypeOK
  <2> QED
    BY <1>1, <1>2, <1>8, <1>d, <1>g, <2>1 DEF FailProvisioning, ProvisionerTypeOK
<1>9. CASE Collect(d)
  BY <1>1, <1>2, <1>9 DEF Collect, ProvisionerTypeOK
<1> QED
  BY <1>3, <1>4, <1>5, <1>6, <1>7, <1>8, <1>9 DEF Provisioning, ProvisionerStep, Handle

\* What any client's step may do to the database server.
LEMMA ServerTyped ==
  ASSUME Typed, Outside,
         faults' = faults \/ Fault,
         rows' = rows \/ \E d \in Databases : \E x \in Docs : rows' = [rows EXCEPT ![d] = @ \cup {x}],
         \/ sessions' = sessions
         \/ \E d \in Databases, c \in Clients : sessions' = [sessions EXCEPT ![d] = @ \cup {c}]
         \/ \E d \in Databases, c \in Clients : Disconnect(c, d)
         \/ \E c \in Clients : sessions' = [d \in Databases |-> sessions[d] \ {c}],
         forgotten' \in [Databases -> SUBSET Lost]
  PROVE  ProvisionerTypeOK'
<1> USE DEF Typed, TypeOK
<1>1. faults' \in 0..MaxFaults
  BY ProvisionerAssumption DEF Fault, ProvisionerTypeOK
<1>2. rows' \in [Databases -> SUBSET Docs]
  BY DEF ProvisionerTypeOK
<1>3. sessions' \in [Databases -> SUBSET Clients]
  BY DEF Disconnect, ProvisionerTypeOK
<1> QED
  BY <1>1, <1>2, <1>3 DEF Outside, ProvisionerTypeOK

\* The retriever's steps keep everything typed.
LEMMA RetrievingTyped ==
  ASSUME Typed, Retrieving
  PROVE  Typed'
<1> USE DEF Typed, TypeOK
<1>0. Orchestrator \in Clients /\ NoDatabase \notin Databases
  BY ClientsAssumption
<1>1. ClientsTypeOK /\ Outside /\ UNCHANGED containerVars
  BY DEF Retrieving
<1>a. ASSUME UNCHANGED connectionVars \/ \E d \in Databases : Connect(Orchestrator, d),
             faults' = faults \/ Fault,
             rows' = rows \/ \E d \in Databases : \E x \in Docs : rows' = [rows EXCEPT ![d] = @ \cup {x}]
      PROVE  ProvisionerTypeOK'
  <2>1. forgotten' \in [Databases -> SUBSET Lost]
    BY <1>a DEF Connect, ProvisionerTypeOK
  <2> QED
    BY <1>0, <1>1, <1>a, <2>1, ServerTyped DEF Connect
<1>b. ASSUME pools' \in SUBSET Databases, opened' \in [Databases -> Nat], lock' \in Tasks \cup {NoTask},
             NEW r \in Tasks, NEW pc \in TaskState, NEW d \in Databases \cup {NoDatabase},
             pc # "idle" => d \in Databases,
             task' = [task EXCEPT ![r] = [pc |-> pc, db |-> d]]
      PROVE  ClientsTypeOK' /\ Assigned'
  <2>1. task' \in [Tasks -> [pc : TaskState, db : Databases \cup {NoDatabase}]]
    BY <1>b DEF ClientsTypeOK
  <2>2. ClientsTypeOK'
    BY <1>b, <1>1, <2>1 DEF containerVars, ClientsTypeOK
  <2>3. \A q \in Tasks : task'[q].pc # "idle" => task'[q].db \in Databases
    BY <1>b DEF ClientsTypeOK, Assigned, Pc, Db
  <2>4. Assigned'
    BY <1>1, <2>3 DEF Assigned, Pc, Db, containerVars
  <2> QED
    BY <2>2, <2>4
<1>c. ASSUME NEW r \in Tasks, NEW pc \in TaskState, Pc(r) # "idle", To(r, pc)
      PROVE  task' = [task EXCEPT ![r] = [pc |-> pc, db |-> Db(r)]] /\ Db(r) \in Databases
  BY <1>c DEF To, Assigned
<1>2. ASSUME NEW r \in Tasks, NEW d \in Databases, Ask(r, d) PROVE Typed'
  BY <1>2, <1>a, <1>b DEF Ask, ClientsTypeOK, TaskState
<1>3. ASSUME NEW r \in Tasks, LookUpPool(r) PROVE Typed'
  <2>1. PICK pc \in TaskState : To(r, pc)
    BY <1>3 DEF LookUpPool, TaskState
  <2> QED
    BY <1>3, <1>a, <1>b, <1>c, <2>1 DEF LookUpPool, ClientsTypeOK, TaskState
<1>4. ASSUME NEW r \in Tasks, AcquireLock(r) PROVE Typed'
  BY <1>4, <1>a, <1>b, <1>c DEF AcquireLock, ClientsTypeOK, TaskState
<1>5. ASSUME NEW r \in Tasks, LookAgain(r) PROVE Typed'
  <2>1. PICK pc \in TaskState : To(r, pc)
    BY <1>5 DEF LookAgain, TaskState
  <2>2. lock' \in Tasks \cup {NoTask}
    BY <1>5 DEF LookAgain, ClientsTypeOK
  <2> QED
    BY <1>5, <1>a, <1>b, <1>c, <2>1, <2>2 DEF LookAgain, ClientsTypeOK
<1>6. ASSUME NEW r \in Tasks, OpenPool(r) PROVE Typed'
  <2>1. Db(r) \in Databases
    BY <1>6 DEF OpenPool, Assigned
  <2>2. pools' \in SUBSET Databases /\ opened' \in [Databases -> Nat] /\ lock' \in Tasks \cup {NoTask}
    BY <1>6, <2>1 DEF OpenPool, ClientsTypeOK
  <2>3. "fetch" \in TaskState /\ To(r, "fetch") /\ Pc(r) # "idle"
    BY <1>6 DEF OpenPool, TaskState
  <2>4. ClientsTypeOK' /\ Assigned'
    BY <1>b, <1>c, <2>1, <2>2, <2>3
  <2> QED
    BY <1>6, <1>a, <2>1, <2>4 DEF OpenPool
<1>d. ASSUME NEW r \in Tasks, EndTask(r),
             pools' \in SUBSET Databases, opened' \in [Databases -> Nat], lock' \in Tasks \cup {NoTask}
      PROVE  ClientsTypeOK' /\ Assigned'
  BY <1>b, <1>d DEF EndTask, TaskState
<1>7. ASSUME NEW r \in Tasks, FailToOpen(r) PROVE Typed'
  <2>1. ClientsTypeOK' /\ Assigned'
    BY <1>7, <1>d DEF FailToOpen, ClientsTypeOK
  <2>2. faults' = faults \/ Fault
    BY <1>7 DEF FailToOpen
  <2> QED
    BY <1>7, <1>a, <2>1, <2>2 DEF FailToOpen
<1>8. ASSUME NEW r \in Tasks, Fetch(r) \/ PublishTo(r) PROVE Typed'
  <2>1. Db(r) \in Databases
    BY <1>8 DEF Fetch, PublishTo, Assigned
  <2>2. ClientsTypeOK' /\ Assigned'
    BY <1>8, <1>d DEF Fetch, PublishTo, ClientsTypeOK
  <2>3. CASE Fetch(r)
    <3>1. UNCHANGED connectionVars \/ Connect(Orchestrator, Db(r))
      BY <2>3 DEF Fetch
    <3> QED
      BY <1>a, <2>1, <2>2, <2>3, <3>1 DEF Fetch
  <2>4. CASE PublishTo(r)
    <3>1. \E x \in Docs : rows' = [rows EXCEPT ![Db(r)] = @ \cup {x}]
      BY <2>4 DEF PublishTo
    <3> QED
      BY <1>a, <2>1, <2>2, <2>4, <3>1 DEF PublishTo
  <2> QED
    BY <1>8, <2>3, <2>4
<1>9. CASE Restart
  <2>1. ProvisionerTypeOK'
    BY <1>0, <1>1, <1>9, ServerTyped DEF Restart, ProvisionerTypeOK
  <2>2. ClientsTypeOK'
    BY <1>1, <1>9 DEF Restart, ClientsTypeOK, containerVars, TaskState
  <2>3. Assigned'
    BY <1>1, <1>9 DEF Restart, Assigned, Pc, Db, containerVars
  <2> QED
    BY <2>1, <2>2, <2>3
<1> QED
  BY <1>2, <1>3, <1>4, <1>5, <1>6, <1>7, <1>8, <1>9 DEF Retrieving, TaskStep

\* The indexer's steps keep everything typed.
LEMMA IndexingTyped ==
  ASSUME Typed, Indexing
  PROVE  Typed'
<1> USE DEF Typed, TypeOK
<1>1. Outside /\ UNCHANGED poolVars
  BY DEF Indexing
<1>2. PICK c \in Containers :
        (\E d \in Databases : Route(c, d)) \/ ContainerStep(c) \/ ContainerFails(c) \/ Recycle(c)
  BY DEF Indexing
<1>3. c \in Clients /\ NoDatabase \notin Databases
  BY ClientsAssumption
<1>4. /\ attempt[c].pc # "idle" => attempt[c].db \in Databases
      /\ attempt \in [Containers -> [pc : {"idle", "routed", "connected"}, db : Databases \cup {NoDatabase}]]
      /\ conns \in [Containers -> SUBSET Databases]
      /\ forgotten \in [Databases -> SUBSET Lost]
  BY DEF Assigned, ClientsTypeOK, ProvisionerTypeOK
<1>a. ASSUME NEW pc \in {"idle", "routed", "connected"}, NEW d \in Databases \cup {NoDatabase},
             pc # "idle" => d \in Databases,
             attempt' = [attempt EXCEPT ![c] = [pc |-> pc, db |-> d]],
             conns' \in [Containers -> SUBSET Databases]
      PROVE  ClientsTypeOK' /\ Assigned'
  <2>1. attempt' \in [Containers -> [pc : {"idle", "routed", "connected"}, db : Databases \cup {NoDatabase}]]
    BY <1>4, <1>a
  <2>2. \A k \in Containers : attempt'[k].pc # "idle" => attempt'[k].db \in Databases
    BY <1>4, <1>a DEF Assigned
  <2> QED
    BY <1>1, <1>a, <2>1, <2>2 DEF ClientsTypeOK, Assigned, poolVars, Pc, Db
<1>b. GiveUpAttempt(c) /\ conns' \in [Containers -> SUBSET Databases] => ClientsTypeOK' /\ Assigned'
  BY <1>a DEF GiveUpAttempt
<1>5. ASSUME NEW d \in Databases, Route(c, d) PROVE Typed'
  <2>1. ClientsTypeOK' /\ Assigned'
    BY <1>4, <1>5, <1>a DEF Route
  <2> QED
    BY <1>1, <1>4, <1>5, <2>1, ServerTyped DEF Route
<1>6. CASE GetDb(c)
  <2>1. attempt[c].db \in Databases /\ conns' \in [Containers -> SUBSET Databases]
    BY <1>4, <1>6 DEF GetDb
  <2>2. Proceed(c) \/ GiveUpAttempt(c)
    BY <1>6 DEF GetDb
  <2>3. ClientsTypeOK' /\ Assigned'
    BY <1>a, <1>b, <2>1, <2>2 DEF Proceed
  <2>4. UNCHANGED connectionVars \/ Connect(c, attempt[c].db)
    BY <1>6 DEF GetDb
  <2> QED
    BY <1>1, <1>3, <1>4, <1>6, <2>1, <2>3, <2>4, ServerTyped DEF GetDb, Connect
<1>7. CASE PersistIn(c)
  <2>1. attempt[c].db \in Databases
    BY <1>4, <1>7 DEF PersistIn
  <2>2. ClientsTypeOK' /\ Assigned'
    BY <1>4, <1>7, <1>b DEF PersistIn
  <2>3. rows' = rows \/ \E x \in Docs : rows' = [rows EXCEPT ![attempt[c].db] = @ \cup {x}]
    BY <1>7 DEF PersistIn
  <2> QED
    BY <1>1, <1>4, <1>7, <2>1, <2>2, <2>3, ServerTyped DEF PersistIn
<1>8. CASE ContainerFails(c)
  <2>0. attempt[c].db \in Databases /\ Fault /\ UNCHANGED rows
    BY <1>4, <1>8 DEF ContainerFails, FailProbe, FailToConnect, FailPersist
  <2>1. conns' \in [Containers -> SUBSET Databases]
    BY <1>4, <1>8 DEF ContainerFails, FailProbe, FailToConnect, FailPersist
  <2>2. Proceed(c) \/ GiveUpAttempt(c)
    BY <1>8 DEF ContainerFails, FailProbe, FailToConnect, FailPersist
  <2>3. ClientsTypeOK' /\ Assigned'
    BY <1>a, <1>b, <2>0, <2>1, <2>2 DEF Proceed
  <2>4. UNCHANGED sessions \/ Disconnect(c, attempt[c].db)
    BY <1>8 DEF ContainerFails, FailProbe, FailToConnect, FailPersist
  <2>5. UNCHANGED forgotten \/ Forget(c, attempt[c].db)
    BY <1>8 DEF ContainerFails, FailProbe, FailToConnect, FailPersist
  <2>6. forgotten' \in [Databases -> SUBSET Lost]
    BY <1>3, <2>0, <2>5, ForgetTyped
  <2> QED
    BY <1>1, <1>3, <2>0, <2>3, <2>4, <2>6, ServerTyped
<1>9. CASE Recycle(c)
  <2>1. ClientsTypeOK' /\ Assigned'
    BY <1>1, <1>4, <1>9 DEF Recycle, ClientsTypeOK, Assigned, poolVars, Pc, Db
  <2> QED
    BY <1>1, <1>3, <1>4, <1>9, <2>1, ServerTyped DEF Recycle
<1> QED
  BY <1>2, <1>5, <1>6, <1>7, <1>8, <1>9 DEF ContainerStep

LEMMA NextTyped == Typed /\ [Next]_vars => Typed'
<1>1. ASSUME Typed, UNCHANGED vars PROVE Typed'
  BY <1>1 DEF Typed, TypeOK, ProvisionerTypeOK, ClientsTypeOK, Assigned, Pc, Db,
              vars, provisionerVars, databaseVars, poolVars, containerVars
<1> QED
  BY <1>1, ProvisioningTyped, RetrievingTyped, IndexingTyped DEF Next

\* Databases, pools and connections are always of the declared types.
THEOREM TypeCorrect == Spec => []TypeOK
<1>1. Init => Typed
  BY InitTyped
<1>2. Typed => TypeOK
  BY DEF Typed
<1> QED
  BY <1>1, <1>2, NextTyped, PTL DEF Spec

-----------------------------------------------------------------------------
(* Complete stacks *)

Progress == \A d \in Databases : ProgressInv(d)

\* Only the provisioner touches what Progress is about.
LEMMA ProgressStep ==
  ASSUME Typed, Progress, CompleteStacksAreReady, [Next]_vars
  PROVE  Progress' /\ CompleteStacksAreReady'
<1> USE DEF Progress, CompleteStacksAreReady
<1>t. /\ stack \in [Databases -> StackState] /\ at \in [Databases -> 0..5]
      /\ exists \in [Databases -> BOOLEAN] /\ schema \in [Databases -> SUBSET Schema]
  BY DEF Typed, TypeOK, ProvisionerTypeOK
<1>1. CASE UNCHANGED <<stack, at, exists, schema>>
  BY <1>1 DEF ProgressInv, Ready, Providing
<1>2. ASSUME NEW d \in Databases, Provisioning(d) PROVE Progress' /\ CompleteStacksAreReady'
  <2> SUFFICES ASSUME NEW e \in Databases
               PROVE  ProgressInv(e)' /\ (stack'[e] = "complete" => Ready(e)')
    OBVIOUS
  <2>0. /\ ProgressInv(e) /\ (stack[e] = "complete" => Ready(e))
        /\ stack[e] \in StackState /\ at[e] \in 0..5
    BY <1>t
  <2>1. CASE e # d
    <3>1. /\ stack'[e] = stack[e] /\ at'[e] = at[e]
          /\ exists'[e] = exists[e] /\ schema'[e] = schema[e]
      BY <1>2, <1>t, <2>1 DEF Provisioning, ProvisionerStep, Handle, Deploy, Destroy, DestroyAgain,
           Change, Invoke, CreateDatabase, Bootstrap, DropDatabase, FailProvisioning, Collect, Succeed,
           GiveUp, Advance, databaseVars
    <3> QED
      BY <2>0, <3>1 DEF ProgressInv, Ready, Providing
  <2>2. CASE e = d
    <3>1. CASE Deploy(d) \/ Destroy(d)
      BY <1>t, <2>0, <2>2, <3>1 DEF Deploy, Destroy, DestroyAgain, Change, databaseVars, ProgressInv, Ready, Providing
    <3>2. CASE Invoke(d)
      BY <1>t, <2>0, <2>2, <3>2 DEF Invoke, databaseVars, ProgressInv, Ready, Providing
    <3>3. CASE CreateDatabase(d)
      BY <1>t, <2>0, <2>2, <3>3 DEF CreateDatabase, Advance, ProgressInv, Ready, Providing
    <3>4. CASE Bootstrap(d)
      <4>1. exists[d] /\ exists' = exists /\ Providing(d) /\ at[d] > 1
        BY <2>0, <2>2, <3>4 DEF Bootstrap, ProgressInv
      <4>2. schema'[d] = schema[d] \cup {Statements[at[d] - 1]}
        BY <1>t, <3>4 DEF Bootstrap
      <4>3. \A i \in 1..4 : i + 1 <= at[d] => Statements[i] \in schema'[d]
        <5> SUFFICES ASSUME NEW i \in 1..4, i + 1 <= at[d] PROVE Statements[i] \in schema'[d]
          OBVIOUS
        <5>1. i + 1 < at[d] \/ i = at[d] - 1
          BY <2>0, <2>2
        <5> QED
          BY <2>0, <2>2, <4>2, <5>1 DEF ProgressInv
      <4>4. CASE at[d] = 5
        <5>1. at'[d] = 0 /\ stack'[d] = "complete"
          BY <1>t, <3>4, <4>1, <4>4, StatementsAreTheSchema DEF Bootstrap, Succeed, Providing
        <5>2. \A i \in 1..4 : Statements[i] \in schema'[d]
          BY <4>3, <4>4
        <5>3. Schema \subseteq schema'[d]
          BY <5>2, StatementsAreTheSchema
        <5>4. schema'[d] \subseteq Schema
          BY <1>2, ProvisioningTyped DEF Typed, TypeOK, ProvisionerTypeOK
        <5> QED
          BY <2>2, <4>1, <5>1, <5>3, <5>4 DEF ProgressInv, Ready
      <4>5. CASE at[d] # 5
        <5>1. at'[d] = at[d] + 1 /\ stack' = stack
          BY <1>t, <3>4, <4>5, StatementsAreTheSchema DEF Bootstrap, Advance
        <5>2. \A i \in 1..4 : i + 1 < at'[d] => Statements[i] \in schema'[d]
          BY <2>0, <2>2, <4>3, <5>1
        <5> QED
          BY <2>0, <2>2, <4>1, <5>1, <5>2 DEF ProgressInv, Ready, Providing
      <4> QED
        BY <4>4, <4>5
    <3>5. CASE DropDatabase(d)
      BY <1>t, <2>0, <2>2, <3>5 DEF DropDatabase, Succeed, databaseVars, ProgressInv, Ready, Providing
    <3>6. CASE FailProvisioning(d)
      BY <1>t, <2>0, <2>2, <3>6 DEF FailProvisioning, GiveUp, AfterFailure, ProgressInv, Ready, Providing
    <3>7. CASE Collect(d)
      BY <2>0, <2>2, <3>7 DEF Collect, ProgressInv, Ready, Providing
    <3> QED
      BY <1>2, <3>1, <3>2, <3>3, <3>4, <3>5, <3>6, <3>7 DEF Provisioning, ProvisionerStep, Handle
  <2> QED
    BY <2>1, <2>2
<1> QED
  BY <1>1, <1>2 DEF Next, Retrieving, Indexing, Outside, vars, provisionerVars, databaseVars

\* However often a creation failed halfway and was rolled back, a stack that is
\* complete has a database with the whole schema.
THEOREM CompleteStacksReady == Spec => []CompleteStacksAreReady
<1> DEFINE I == Typed /\ Progress /\ CompleteStacksAreReady
<1>1. Init => I
  BY InitTyped DEF Init, ProvisionerInit, Progress, ProgressInv, CompleteStacksAreReady
<1>2. I /\ [Next]_vars => I'
  BY NextTyped, ProgressStep
<1>3. I => CompleteStacksAreReady
  OBVIOUS
<1> QED
  BY <1>1, <1>2, <1>3, PTL DEF Spec

-----------------------------------------------------------------------------
(* Pools *)

Locked == \A r \in Tasks : LockInv(r)

LEMMA PoolStep ==
  ASSUME Typed, Locked, OnePoolPerDatabase, [Next]_vars
  PROVE  Locked' /\ OnePoolPerDatabase'
<1> USE DEF Locked, OnePoolPerDatabase
<1>t. /\ pools \in SUBSET Databases /\ opened \in [Databases -> Nat]
      /\ task \in [Tasks -> [pc : TaskState, db : Databases \cup {NoDatabase}]]
      /\ NoTask \notin Tasks
  BY ClientsAssumption DEF Typed, TypeOK, ClientsTypeOK
<1>a. ASSUME NEW r \in Tasks, NEW pc, NEW d, task' = [task EXCEPT ![r] = [pc |-> pc, db |-> d]]
      PROVE  /\ Pc(r)' = pc /\ Db(r)' = d
             /\ \A q \in Tasks \ {r} : Pc(q)' = Pc(q) /\ Db(q)' = Db(q)
  BY <1>t, <1>a DEF Pc, Db
<1>1. CASE UNCHANGED poolVars
  BY <1>1 DEF poolVars, LockInv, Pc, Db
<1>2. ASSUME NEW r \in Tasks, NEW d \in Databases, Ask(r, d) PROVE Locked' /\ OnePoolPerDatabase'
  <2>1. Pc(r)' = "lookup" /\ Db(r)' = d /\ Pc(r) = "idle"
    BY <1>2, <1>a DEF Ask
  <2>2. UNCHANGED <<pools, opened, lock>> /\ (\A q \in Tasks \ {r} : Pc(q)' = Pc(q) /\ Db(q)' = Db(q))
    BY <1>2, <1>a DEF Ask
  <2>3. ASSUME NEW q \in Tasks PROVE LockInv(q)'
    BY <2>1, <2>2 DEF LockInv
  <2> QED
    BY <2>2, <2>3
<1>3. ASSUME NEW r \in Tasks, TaskStep(r) PROVE Locked' /\ OnePoolPerDatabase'
  <2>0. Pc(r) # "idle" => Db(r) \in Databases
    BY DEF LockInv
  <2>1. CASE LookUpPool(r)
    <3>1. /\ Db(r)' = Db(r) /\ Pc(r)' \in {"fetch", "waiting"} /\ Pc(r) = "lookup"
          /\ \A q \in Tasks \ {r} : Pc(q)' = Pc(q) /\ Db(q)' = Db(q)
      BY <1>a, <2>1 DEF LookUpPool, To
    <3>2. UNCHANGED <<pools, opened, lock>>
      BY <2>1 DEF LookUpPool
    <3>3. ASSUME NEW q \in Tasks PROVE LockInv(q)'
      BY <2>0, <3>1, <3>2 DEF LockInv
    <3> QED
      BY <3>2, <3>3
  <2>2. CASE AcquireLock(r)
    BY <1>a, <1>t, <2>0, <2>2 DEF AcquireLock, To, LockInv
  <2>3. CASE LookAgain(r)
    BY <1>a, <1>t, <2>0, <2>3 DEF LookAgain, To, LockInv
  <2>4. CASE OpenPool(r)
    <3>1. /\ lock = r /\ Db(r) \in Databases /\ Db(r) \notin pools
      BY <2>4, <2>0 DEF OpenPool, LockInv
    <3>2. \A q \in Tasks \ {r} : Pc(q) \notin {"locked", "opening"}
      BY <3>1 DEF LockInv
    <3>3. Locked'
      <4>1. /\ Db(r)' = Db(r) /\ Pc(r)' = "fetch" /\ lock' = NoTask
            /\ \A q \in Tasks \ {r} : Pc(q)' = Pc(q) /\ Db(q)' = Db(q)
        BY <1>a, <2>4 DEF OpenPool, To
      <4>2. ASSUME NEW q \in Tasks PROVE LockInv(q)'
        BY <1>t, <3>1, <3>2, <4>1 DEF LockInv
      <4> QED
        BY <4>2
    <3>4. OnePoolPerDatabase'
      <4>1. pools' = pools \cup {Db(r)} /\ opened' = [opened EXCEPT ![Db(r)] = @ + 1]
        BY <2>4 DEF OpenPool
      <4>2. opened[Db(r)] = 0
        BY <3>1
      <4>3. ASSUME NEW d \in Databases PROVE opened'[d] = IF d \in pools' THEN 1 ELSE 0
        <5>1. CASE d = Db(r)
          BY <1>t, <3>1, <4>1, <4>2, <5>1
        <5>2. CASE d # Db(r)
          BY <1>t, <4>1, <5>2
        <5> QED
          BY <5>1, <5>2
      <4> QED
        BY <4>3
    <3> QED
      BY <3>3, <3>4
  <2>5. CASE FailToOpen(r) \/ Fetch(r) \/ PublishTo(r)
    BY <1>a, <1>t, <2>0, <2>5 DEF FailToOpen, Fetch, PublishTo, EndTask, LockInv
  <2> QED
    BY <1>3, <2>1, <2>2, <2>3, <2>4, <2>5 DEF TaskStep
<1>4. CASE Restart
  BY <1>4, <1>t DEF Restart, LockInv, Pc, Db
<1> QED
  BY <1>1, <1>2, <1>3, <1>4 DEF Next, Provisioning, Elsewhere, Retrieving, Indexing, vars

\* However many first requests for one database meet, it gets one pool, and the
\* pool is the one close() closes.
THEOREM PoolsAreShared == Spec => []OnePoolPerDatabase
<1> DEFINE I == Typed /\ Locked /\ OnePoolPerDatabase
<1>1. Init => I
  BY InitTyped, ClientsAssumption DEF Init, ClientsInit, Locked, LockInv, OnePoolPerDatabase, Pc, Db
<1>2. I /\ [Next]_vars => I'
  BY NextTyped, PoolStep
<1>3. I => OnePoolPerDatabase
  OBVIOUS
<1> QED
  BY <1>1, <1>2, <1>3, PTL DEF Spec

-----------------------------------------------------------------------------
(* Production *)

\* No step of anyone takes a document out of a production database.
THEOREM ProductionIsRetained == Spec => ProductionKeepsDocuments
<1>1. Typed /\ [Next]_vars =>
        [stage = "prod" => \A d \in Databases : rows[d] \subseteq rows'[d]]_vars
  <2> SUFFICES ASSUME Typed, Next, stage = "prod", NEW e \in Databases
               PROVE  rows[e] \subseteq rows'[e]
    OBVIOUS
  <2>0. rows \in [Databases -> SUBSET Docs] /\ ~AllowDrop
    BY DEF Typed, TypeOK, ProvisionerTypeOK, AllowDrop
  <2>1. ASSUME NEW d \in Databases, Provisioning(d) PROVE rows[e] \subseteq rows'[e]
    BY <2>0, <2>1 DEF Provisioning, ProvisionerStep, Handle, Deploy, Destroy, DestroyAgain, Change,
         Invoke, CreateDatabase, Bootstrap, DropDatabase, FailProvisioning, Collect, databaseVars
  <2>2. CASE Retrieving
    BY <2>0, <2>2 DEF Retrieving, Ask, TaskStep, LookUpPool, AcquireLock, LookAgain, OpenPool,
         FailToOpen, Fetch, PublishTo, Restart
  <2>3. CASE Indexing
    BY <2>0, <2>3 DEF Indexing, Route, ContainerStep, GetDb, PersistIn, ContainerFails,
         FailProbe, FailToConnect, FailPersist, Recycle
  <2> QED
    BY <2>1, <2>2, <2>3 DEF Next
<1>2. Init => Typed
  BY InitTyped
<1> QED
  BY <1>1, <1>2, NextTyped, PTL DEF Spec, ProductionKeepsDocuments

-----------------------------------------------------------------------------
(* Documents *)

Schemas == \A d \in Databases : SchemaInv(d)

\* Clients store documents, and only the provisioner touches the tables.
LEMMA DocumentsStep ==
  ASSUME Typed, Progress, Schemas, DocumentsHaveATable, [Next]_vars
  PROVE  Schemas' /\ DocumentsHaveATable'
<1> USE DEF Schemas, SchemaInv, DocumentsHaveATable
<1>t. /\ exists \in [Databases -> BOOLEAN] /\ schema \in [Databases -> SUBSET Schema]
      /\ rows \in [Databases -> SUBSET Docs]
  BY DEF Typed, TypeOK, ProvisionerTypeOK
<1>1. ASSUME UNCHANGED <<exists, schema>>,
             \/ UNCHANGED rows
             \/ \E d \in Databases, x \in Docs :
                  /\ "allowed_roles" \in schema[d]
                  /\ rows' = [rows EXCEPT ![d] = @ \cup {x}]
      PROVE  Schemas' /\ DocumentsHaveATable'
  BY <1>1, <1>t
<1>2. ASSUME NEW d \in Databases, Provisioning(d) PROVE Schemas' /\ DocumentsHaveATable'
  <2>1. CASE Deploy(d) \/ Destroy(d) \/ Invoke(d) \/ FailProvisioning(d) \/ Collect(d)
    BY <1>1, <2>1 DEF Deploy, Destroy, DestroyAgain, Change, Invoke, FailProvisioning, Collect, databaseVars
  <2>2. CASE CreateDatabase(d)
    BY <1>t, <2>2 DEF CreateDatabase
  <2>3. CASE Bootstrap(d)
    <3>1. exists[d] /\ UNCHANGED <<exists, rows>>
      BY <2>3 DEF Bootstrap, Progress, ProgressInv
    <3>2. \A e \in Databases : schema[e] \subseteq schema'[e] /\ (e # d => schema'[e] = schema[e])
      BY <1>t, <2>3 DEF Bootstrap
    <3> QED
      BY <3>1, <3>2
  <2>4. CASE DropDatabase(d)
    BY <1>t, <2>4 DEF DropDatabase, databaseVars
  <2> QED
    BY <1>2, <2>1, <2>2, <2>3, <2>4 DEF Provisioning, ProvisionerStep, Handle
<1>3. CASE Retrieving
  <2>1. UNCHANGED <<exists, schema>>
    BY <1>3 DEF Retrieving, Outside
  <2>2. ASSUME NEW r \in Tasks, PublishTo(r)
        PROVE  \E d \in Databases, x \in Docs :
                 /\ "allowed_roles" \in schema[d]
                 /\ rows' = [rows EXCEPT ![d] = @ \cup {x}]
    BY <2>2 DEF PublishTo, Typed, Assigned
  <2>3. UNCHANGED rows \/ \E r \in Tasks : PublishTo(r)
    BY <1>3 DEF Retrieving, Ask, TaskStep, LookUpPool, AcquireLock, LookAgain, OpenPool,
         FailToOpen, Fetch, Restart
  <2> QED
    BY <1>1, <2>1, <2>2, <2>3
<1>4. CASE Indexing
  <2>1. UNCHANGED <<exists, schema>>
    BY <1>4 DEF Indexing, Outside
  <2>2. ASSUME NEW c \in Containers, PersistIn(c)
        PROVE  UNCHANGED rows \/ \E d \in Databases, x \in Docs :
                                   /\ "allowed_roles" \in schema[d]
                                   /\ rows' = [rows EXCEPT ![d] = @ \cup {x}]
    BY <2>2 DEF PersistIn, Typed, Assigned
  <2>3. UNCHANGED rows \/ \E c \in Containers : PersistIn(c)
    BY <1>4 DEF Indexing, Route, ContainerStep, GetDb, ContainerFails, FailProbe, FailToConnect,
         FailPersist, Recycle
  <2> QED
    BY <1>1, <2>1, <2>2, <2>3
<1> QED
  BY <1>1, <1>2, <1>3, <1>4 DEF Next, vars, provisionerVars, databaseVars

\* Whatever dies, is dropped or is made anew underneath a writer, documents are
\* only where the column that retrieval filters by is.
THEOREM DocumentsAreFiltered == Spec => []DocumentsHaveATable
<1> DEFINE I == Typed /\ Progress /\ CompleteStacksAreReady /\ Schemas /\ DocumentsHaveATable
<1>1. Init => I
  BY InitTyped DEF Init, ProvisionerInit, Progress, ProgressInv, CompleteStacksAreReady,
     Schemas, SchemaInv, DocumentsHaveATable
<1>2. I /\ [Next]_vars => I'
  BY NextTyped, ProgressStep, DocumentsStep
<1>3. I => DocumentsHaveATable
  OBVIOUS
<1> QED
  BY <1>1, <1>2, <1>3, PTL DEF Spec

-----------------------------------------------------------------------------
(* Connections *)

Fetching == \A r \in Tasks : FetchInv(r)

\* A task gets to fetch only past a pool, and a pool goes only with the tasks.
LEMMA FetchStep ==
  ASSUME Typed, Fetching, [Next]_vars
  PROVE  Fetching'
<1> USE DEF Fetching, FetchInv
<1>t. task \in [Tasks -> [pc : TaskState, db : Databases \cup {NoDatabase}]]
  BY DEF Typed, TypeOK, ClientsTypeOK
<1>a. ASSUME NEW r \in Tasks, NEW pc, NEW d, task' = [task EXCEPT ![r] = [pc |-> pc, db |-> d]]
      PROVE  /\ Pc(r)' = pc /\ Db(r)' = d
             /\ \A q \in Tasks \ {r} : Pc(q)' = Pc(q) /\ Db(q)' = Db(q)
  BY <1>t, <1>a DEF Pc, Db
<1>1. CASE UNCHANGED poolVars
  BY <1>1 DEF poolVars, Pc, Db
<1>2. ASSUME NEW r \in Tasks, NEW d \in Databases, Ask(r, d) PROVE Fetching'
  BY <1>2, <1>a DEF Ask
<1>3. ASSUME NEW r \in Tasks, TaskStep(r) PROVE Fetching'
  <2>1. CASE LookUpPool(r) \/ AcquireLock(r) \/ LookAgain(r)
    BY <1>a, <2>1 DEF LookUpPool, AcquireLock, LookAgain, To
  <2>2. CASE OpenPool(r)
    BY <1>a, <2>2 DEF OpenPool, To
  <2>3. CASE FailToOpen(r) \/ Fetch(r) \/ PublishTo(r)
    BY <1>a, <2>3 DEF FailToOpen, Fetch, PublishTo, EndTask
  <2> QED
    BY <1>3, <2>1, <2>2, <2>3 DEF TaskStep
<1>4. CASE Restart
  BY <1>4 DEF Restart, Pc
<1> QED
  BY <1>1, <1>2, <1>3, <1>4 DEF Next, Provisioning, Elsewhere, Retrieving, Indexing, vars

Reachable == \A d \in Databases : ConnectionsAreReachable(d)
AllLostByFailures == \A d \in Databases : LostByFailures(d)

\* Connections begin together with their cache entry or the call that uses them,
\* and end before it does.
LEMMA ReachableStep ==
  ASSUME Typed, Progress, Fetching, Reachable, [Next]_vars
  PROVE  Reachable'
<1> USE DEF Reachable, ConnectionsAreReachable
<1>t. /\ exists \in [Databases -> BOOLEAN] /\ sessions \in [Databases -> SUBSET Clients]
      /\ forgotten \in [Databases -> SUBSET Lost] /\ at \in [Databases -> 0..5]
      /\ stack \in [Databases -> StackState]
      /\ pools \in SUBSET Databases /\ conns \in [Containers -> SUBSET Databases]
  BY DEF Typed, TypeOK, ProvisionerTypeOK, ClientsTypeOK
<1>0. Orchestrator \notin Containers /\ Provisioner \notin Containers /\ Provisioner # Orchestrator
  BY ClientsAssumption
<1>1. CASE UNCHANGED <<stack, at, exists, connectionVars, pools, conns>>
  BY <1>1 DEF Providing
<1>2. ASSUME NEW d \in Databases, Provisioning(d) PROVE Reachable'
  <2>0. UNCHANGED <<pools, conns>>
    BY <1>2 DEF Provisioning, Elsewhere, poolVars, containerVars
  <2>a. at[d] \in 0..5 /\ ProgressInv(d)
    BY <1>t DEF Progress
  <2>1. CASE Deploy(d) \/ Destroy(d)
    <3>1. at[d] = 0
      BY <2>1, <2>a DEF Deploy, Destroy, DestroyAgain, Change, ProgressInv, Providing
    <3>2. UNCHANGED <<at, exists, connectionVars>> /\ \A e \in Databases \ {d} : stack'[e] = stack[e]
      BY <1>t, <2>1 DEF Deploy, Destroy, DestroyAgain, Change, databaseVars
    <3> QED
      BY <2>0, <3>1, <3>2 DEF Providing
  <2>2. CASE Invoke(d)
    BY <1>t, <2>0, <2>2 DEF Invoke, databaseVars, Providing
  <2>3. CASE CreateDatabase(d)
    BY <1>t, <2>0, <2>3 DEF CreateDatabase, Advance, Providing
  <2>4. CASE Bootstrap(d)
    <3>1. exists[d] /\ UNCHANGED <<exists, forgotten>> /\ Providing(d) /\ at[d] > 1
      BY <2>4, <2>a DEF Bootstrap, Connect, ProgressInv
    <3>2. CASE at[d] = LastStep
      BY <1>0, <1>t, <2>0, <2>4, <3>1, <3>2 DEF Bootstrap, Succeed, Disconnect, Providing
    <3>3. CASE at[d] # LastStep
      BY <1>0, <1>t, <2>0, <2>4, <2>a, <3>1, <3>3 DEF Bootstrap, Advance, Connect, Providing
    <3> QED
      BY <3>2, <3>3
  <2>5. CASE DropDatabase(d)
    <3>1. CASE AllowDrop
      BY <1>t, <2>0, <2>5, <3>1 DEF DropDatabase, Succeed, Providing
    <3>2. CASE ~AllowDrop
      BY <1>t, <2>0, <2>5, <3>2 DEF DropDatabase, Succeed, databaseVars, Providing
    <3> QED
      BY <3>1, <3>2
  <2>6. CASE FailProvisioning(d)
    <3>1. forgotten' = forgotten \/ (exists[d] /\ Forget(Provisioner, d))
      BY <2>6, <2>a DEF FailProvisioning, ProgressInv
    <3>2. \A e \in Databases : forgotten'[e] # {} => exists[e]
      BY <1>t, <3>1 DEF Forget
    <3> QED
      BY <1>0, <1>t, <2>0, <2>6, <3>2 DEF FailProvisioning, GiveUp, Disconnect, Providing
  <2>7. CASE Collect(d)
    BY <1>t, <2>0, <2>7 DEF Collect, Providing
  <2> QED
    BY <1>2, <2>1, <2>2, <2>3, <2>4, <2>5, <2>6, <2>7 DEF Provisioning, ProvisionerStep, Handle
<1>3. CASE Retrieving
  <2>0. UNCHANGED <<stack, at, exists, conns>>
    BY <1>3 DEF Retrieving, Outside, containerVars
  <2>1. ASSUME NEW d \in Databases, exists[d], Connect(Orchestrator, d),
               pools \cup {d} \subseteq pools'
        PROVE  Reachable'
    BY <1>0, <1>t, <2>0, <2>1 DEF Connect, Providing
  <2>2. ASSUME NEW r \in Tasks, OpenPool(r) \/ Fetch(r) \/ PublishTo(r)
        PROVE  Reachable'
    <3>1. Db(r) \in Databases
      BY <2>2 DEF OpenPool, Fetch, PublishTo, Typed, Assigned
    <3>2. CASE OpenPool(r)
      BY <2>1, <3>1, <3>2 DEF OpenPool
    <3>3. CASE Fetch(r) \/ PublishTo(r)
      <4>1. Db(r) \in pools /\ UNCHANGED pools
        BY <3>3 DEF Fetch, PublishTo, Fetching, FetchInv
      <4>2. (exists[Db(r)] /\ Connect(Orchestrator, Db(r))) \/ UNCHANGED connectionVars
        BY <3>3 DEF Fetch, PublishTo
      <4> QED
        BY <1>1, <2>0, <2>1, <3>1, <4>1, <4>2
    <3> QED
      BY <2>2, <3>2, <3>3
  <2>3. CASE Restart
    BY <1>0, <1>t, <2>0, <2>3 DEF Restart, Providing
  <2>4. \/ UNCHANGED <<connectionVars, pools>>
        \/ \E r \in Tasks : OpenPool(r) \/ Fetch(r) \/ PublishTo(r)
        \/ Restart
    BY <1>3 DEF Retrieving, Ask, TaskStep, LookUpPool, AcquireLock, LookAgain, FailToOpen
  <2> QED
    BY <1>1, <2>0, <2>2, <2>3, <2>4
<1>4. CASE Indexing
  <2>0. UNCHANGED <<stack, at, exists, pools>>
    BY <1>4 DEF Indexing, Outside, poolVars
  <2>1. ASSUME NEW c \in Containers, GetDb(c) PROVE Reachable'
    <3> DEFINE d == attempt[c].db
    <3>0. d \in Databases
      BY <2>1 DEF GetDb, Typed, Assigned
    <3> HIDE DEF d
    <3>1. CASE exists[d]
      BY <1>0, <1>t, <2>0, <2>1, <3>0, <3>1 DEF GetDb, Connect, Providing, d
    <3>2. CASE ~exists[d]
      <4>1. conns' = [conns EXCEPT ![c] = @ \ {d}] /\ UNCHANGED connectionVars /\ sessions[d] = {}
        BY <2>1, <3>0, <3>2 DEF GetDb, d
      <4> QED
        BY <1>t, <2>0, <3>0, <4>1 DEF Providing
    <3> QED
      BY <3>1, <3>2
  <2>2. ASSUME NEW c \in Containers, ContainerFails(c) PROVE Reachable'
    <3> DEFINE d == attempt[c].db
    <3>0. d \in Databases
      BY <2>2 DEF ContainerFails, FailProbe, FailToConnect, FailPersist, Typed, Assigned
    <3>1. CASE FailProbe(c)
      <4>1. exists[d] /\ (UNCHANGED forgotten \/ Forget(c, d))
        BY <3>0, <3>1 DEF FailProbe
      <4>2. \A e \in Databases : forgotten'[e] # {} => exists[e]
        BY <1>t, <3>0, <4>1 DEF Forget
      <4>3. \/ UNCHANGED <<conns, sessions>>
            \/ conns' = [conns EXCEPT ![c] = @ \ {d}] /\ Disconnect(c, d)
        BY <3>1 DEF FailProbe
      <4> HIDE DEF d
      <4> QED
        BY <1>0, <1>t, <2>0, <3>0, <4>2, <4>3 DEF Disconnect, Providing
    <3>2. CASE FailToConnect(c)
      <4>1. conns' = [conns EXCEPT ![c] = @ \ {d}] /\ UNCHANGED connectionVars /\ c \notin sessions[d]
        BY <3>2 DEF FailToConnect
      <4> HIDE DEF d
      <4> QED
        BY <1>t, <2>0, <3>0, <4>1 DEF Providing
    <3>3. CASE FailPersist(c)
      BY <1>1, <2>0, <3>3 DEF FailPersist
    <3> QED
      BY <2>2, <3>1, <3>2, <3>3 DEF ContainerFails
  <2>3. ASSUME NEW c \in Containers, Recycle(c) PROVE Reachable'
    BY <1>0, <1>t, <2>0, <2>3 DEF Recycle, Providing
  <2>4. \/ UNCHANGED <<connectionVars, conns>>
        \/ \E c \in Containers : GetDb(c) \/ ContainerFails(c) \/ Recycle(c)
    BY <1>4 DEF Indexing, Route, ContainerStep, PersistIn
  <2> QED
    BY <1>1, <2>0, <2>1, <2>2, <2>3, <2>4
<1> QED
  BY <1>1, <1>2, <1>3, <1>4 DEF Next, vars, provisionerVars, databaseVars, poolVars, containerVars

\* A call that loses a connection is the first of its number.
LEMMA LostStep ==
  ASSUME Typed, AllLostByFailures, [Next]_vars
  PROVE  AllLostByFailures'
<1> USE DEF AllLostByFailures, LostByFailures
<1>t. forgotten \in [Databases -> SUBSET Lost] /\ faults \in 0..MaxFaults
  BY DEF Typed, TypeOK, ProvisionerTypeOK
<1>n. \A d \in Databases : \A lost \in forgotten[d] : lost.fault \in Nat
  BY <1>t, ProvisionerAssumption DEF Lost
<1>1. ASSUME \A d \in Databases : forgotten'[d] \subseteq forgotten[d], faults' = faults \/ Fault
      PROVE  AllLostByFailures'
  BY <1>t, <1>n, <1>1, ProvisionerAssumption DEF Fault
<1>2. ASSUME NEW c \in Clients \ {Orchestrator}, NEW d \in Databases, Fault, Forget(c, d)
      PROVE  AllLostByFailures'
  <2> DEFINE new == [client |-> c, fault |-> faults + 1]
  <2>1. /\ \A e \in Databases : \A lost \in forgotten'[e] :
             (e = d /\ lost = new) \/ (lost \in forgotten[e] /\ lost.fault # faults + 1)
        /\ faults' = faults + 1 /\ new.fault = faults + 1 /\ new.client # Orchestrator
    BY <1>t, <1>n, <1>2, ProvisionerAssumption DEF Forget, Fault
  <2> HIDE DEF new
  <2> QED
    BY <1>t, <1>n, <2>1, ProvisionerAssumption
<1>a. Containers \cup {Provisioner} \subseteq Clients \ {Orchestrator}
  BY ClientsAssumption
<1>3. ASSUME NEW d \in Databases, Provisioning(d) PROVE AllLostByFailures'
  <2>1. CASE FailProvisioning(d)
    <3>1. Fault /\ (forgotten' = forgotten \/ Forget(Provisioner, d))
      BY <2>1 DEF FailProvisioning
    <3> QED
      BY <1>1, <1>2, <1>a, <3>1
  <2>2. CASE ~FailProvisioning(d)
    <3>1. faults' = faults
      BY <1>3, <2>2 DEF Provisioning, ProvisionerStep, Handle, Deploy, Destroy, DestroyAgain, Change,
           Invoke, CreateDatabase, Bootstrap, DropDatabase, Collect
    <3>2. \A e \in Databases : forgotten'[e] \subseteq forgotten[e]
      BY <1>3, <1>t, <2>2 DEF Provisioning, ProvisionerStep, Handle, Deploy, Destroy, DestroyAgain, Change,
           Invoke, CreateDatabase, Bootstrap, Connect, DropDatabase, Collect, databaseVars
    <3> QED
      BY <1>1, <3>1, <3>2
  <2> QED
    BY <2>1, <2>2
<1>4. CASE Retrieving
  <2>1. UNCHANGED forgotten /\ (faults' = faults \/ Fault)
    BY <1>4 DEF Retrieving, Ask, TaskStep, LookUpPool, AcquireLock, LookAgain, OpenPool,
         FailToOpen, Fetch, PublishTo, Restart, Connect
  <2> QED
    BY <1>1, <2>1
<1>5. CASE Indexing
  <2>1. PICK c \in Containers :
          (\E d \in Databases : Route(c, d)) \/ ContainerStep(c) \/ ContainerFails(c) \/ Recycle(c)
    BY <1>5 DEF Indexing
  <2>2. CASE FailProbe(c)
    <3>1. attempt[c].db \in Databases /\ Fault /\ (forgotten' = forgotten \/ Forget(c, attempt[c].db))
      BY <2>2 DEF FailProbe, Typed, Assigned
    <3> QED
      BY <1>1, <1>2, <1>a, <3>1
  <2>3. CASE Recycle(c)
    BY <1>1, <1>t, <2>3 DEF Recycle
  <2>4. CASE (\E d \in Databases : Route(c, d)) \/ ContainerStep(c) \/ FailToConnect(c) \/ FailPersist(c)
    <3>1. UNCHANGED forgotten /\ (faults' = faults \/ Fault)
      BY <2>4 DEF Route, ContainerStep, GetDb, Connect, PersistIn, FailToConnect, FailPersist
    <3> QED
      BY <1>1, <3>1
  <2> QED
    BY <2>1, <2>2, <2>3, <2>4 DEF ContainerFails
<1>6. CASE UNCHANGED vars
  BY <1>1, <1>6 DEF vars, provisionerVars, databaseVars
<1> QED
  BY <1>3, <1>4, <1>5, <1>6 DEF Next

\* Through drops, replaced containers, restarts and repeated calls, a connection
\* that is open and out of everyone's reach was lost by a failed probe or a
\* failed bootstrap, which lost no other, and is not one to a database that is
\* gone; all others are in a pool, in a cache or of a call under way.
THEOREM OnlyFailuresForgetConnections == Spec => []OnlyFailuresForget
<1> DEFINE I == Typed /\ Progress /\ CompleteStacksAreReady /\ Fetching /\ Reachable /\ AllLostByFailures
<1>1. Init => I
  <2> SUFFICES ASSUME Init PROVE I
    OBVIOUS
  <2>1. Typed /\ Progress /\ CompleteStacksAreReady
    BY InitTyped DEF Init, ProvisionerInit, Progress, ProgressInv, CompleteStacksAreReady
  <2>2. Fetching
    BY DEF Init, ClientsInit, Fetching, FetchInv, Pc
  <2>3. Reachable /\ AllLostByFailures
    BY DEF Init, ProvisionerInit, Reachable, ConnectionsAreReachable, AllLostByFailures, LostByFailures
  <2> QED
    BY <2>1, <2>2, <2>3
<1>2. I /\ [Next]_vars => I'
  BY NextTyped, ProgressStep, FetchStep, ReachableStep, LostStep
<1>3. I => OnlyFailuresForget
  BY DEF Reachable, AllLostByFailures, OnlyFailuresForget
<1> QED
  BY <1>1, <1>2, <1>3, PTL DEF Spec
=============================================================================
