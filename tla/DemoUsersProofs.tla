--------------------------- MODULE DemoUsersProofs ---------------------------
(***************************************************************************)
(* The demo logins after any history of deployments, rollbacks and faults, *)
(* proved for every set of configurations and any number of faults.        *)
(***************************************************************************)
EXTENDS DemoUsers, TLAPS

\* What a configuration asks for lies within its groups, and only a role's own
\* login carries the name made of it.
LEMMA UsersAreDeclared ==
  ASSUME NEW c \in Configs
  PROVE  /\ UsersOf(c) \subseteq DemoUser
         /\ Groups(c) \subseteq Roles \cup {Superuser}
         /\ \A x \in UsersOf(c) :
              /\ x.username \in Usernames
              /\ x.groups \subseteq Groups(c)
              /\ \A r \in Roles : x.username = Slug[r] =>
                   x.groups \subseteq {q \in Roles : Slug[q] = Slug[r]}
<1> USE DemoUsersAssumption
<1>1. Declared[c] \subseteq Roles /\ Identities[c] \subseteq DemoUser
  OBVIOUS
<1>2. \A r \in Roles : Slug[r] \in Usernames \ {Root}
  OBVIOUS
<1>3. UsersOf(c) \subseteq DemoUser
  BY <1>1, <1>2 DEF UsersOf, DemoUser
<1>4. Groups(c) \subseteq Roles \cup {Superuser}
  BY <1>1 DEF Groups
<1>5. \A x \in UsersOf(c) :
        /\ x.username \in Usernames
        /\ x.groups \subseteq Groups(c)
        /\ \A r \in Roles : x.username = Slug[r] =>
             x.groups \subseteq {q \in Roles : Slug[q] = Slug[r]}
  <2> TAKE x \in UsersOf(c)
  <2>1. CASE x = [username |-> Root, groups |-> {Superuser}]
    BY <2>1, <1>2 DEF Groups
  <2>2. CASE \E q \in Declared[c] : x = [username |-> Slug[q], groups |-> {q}]
    BY <2>2, <1>1, <1>2 DEF Groups
  <2>3. CASE x \in Identities[c]
    BY <2>3, <1>1, <1>2 DEF Groups, DemoUser
  <2> QED
    BY <2>1, <2>2, <2>3 DEF UsersOf
<1> QED
  BY <1>3, <1>4, <1>5

\* The empty user pool is where everything starts.
LEMMA InitIInv == Init => IInv
<1> SUFFICES ASSUME Init PROVE IInv
  OBVIOUS
<1>1. TypeOK
  <2>1. 0 \in 0..MaxFaults
    BY DemoUsersAssumption
  <2> QED
    BY <2>1 DEF Init, TypeOK, Phases
<1>2. SlugInv
  BY DemoUsersAssumption DEF Init, SlugInv
<1> QED
  BY <1>1, <1>2
     DEF Init, IInv, PhaseInv, GroupsInv, ProgressInv, ConfiguredUsersSignIn

-----------------------------------------------------------------------------
\* A deployment creates the groups that are new; the users of the configuration
\* are all still to do, or were done when the same ones were deployed before.
LEMMA DeployIInv ==
  ASSUME IInv, NEW c \in Configs, Deploy(c)
  PROVE  IInv'
<1> USE DEF IInv
<1>1. TypeOK'
  BY UsersAreDeclared DEF Deploy, TypeOK, Call, Skip, Phases
<1>2. phase' = "updating" /\ target' = c /\ Goal' = c
  BY DEF Deploy, Goal
<1>3. PhaseInv'
  BY <1>2 DEF PhaseInv, Deploy, Call, Skip
<1>4. GroupsInv'
  BY <1>2 DEF GroupsInv, PhaseInv, Deploy
<1>5. ProgressInv'
  <2>1. CASE current # NoConfig /\ UsersOf(c) = UsersOf(current) /\ Skip
    <3>1. phase = "deployed"
      BY <2>1 DEF Deploy, PhaseInv
    <3>2. \A x \in UsersOf(c) : Provisioned(x)
      BY <2>1, <3>1 DEF ConfiguredUsersSignIn
    <3>3. todo' = {} /\ UNCHANGED <<account, member>>
      BY <2>1 DEF Skip, Deploy
    <3>4. \A x \in UsersOf(c) : Provisioned(x)'
      BY <3>2, <3>3 DEF Provisioned
    <3> QED
      BY <1>2, <3>3, <3>4 DEF ProgressInv
  <2>2. CASE Call(UsersOf(c))
    BY <1>2, <2>2 DEF Call, ProgressInv
  <2> QED
    BY <2>1, <2>2 DEF Deploy
<1>6. SlugInv'
  BY DEF SlugInv, Deploy
<1>7. ConfiguredUsersSignIn'
  BY <1>2 DEF ConfiguredUsersSignIn
<1> QED
  BY <1>1, <1>3, <1>4, <1>5, <1>6, <1>7

\* The Lambda is called with the old configuration, or to delete its users.
LEMMA RecallIInv ==
  ASSUME IInv, ContinueRollback \/ Destroy
  PROVE  IInv'
<1> USE DEF IInv
<1>1. current \in Configs /\ current # NoConfig /\ UNCHANGED <<pool, current>>
  BY DemoUsersAssumption DEF ContinueRollback, Destroy, PhaseInv
<1>2. phase' \in {"rollingBack", "deleting"} /\ todo' = UsersOf(current) /\ run' = "called"
  BY DEF ContinueRollback, Destroy, Call
<1>3. TypeOK'
  BY <1>1, UsersAreDeclared
     DEF ContinueRollback, Destroy, Call, TypeOK, Phases, pool
<1>4. PhaseInv' /\ ConfiguredUsersSignIn'
  BY <1>1, <1>2 DEF PhaseInv, ConfiguredUsersSignIn
<1>5. GroupsInv'
  BY <1>1, <1>2 DEF ContinueRollback, Destroy, GroupsInv, pool
<1>6. ProgressInv'
  BY <1>1, <1>2 DEF ProgressInv, Goal
<1>7. SlugInv'
  BY <1>1 DEF SlugInv, pool
<1> QED
  BY <1>3, <1>4, <1>5, <1>6, <1>7

\* The Lambda begins, or the secret is lost: nobody's account is touched.
LEMMA BeginIInv ==
  ASSUME IInv, Begin \/ LoseSecret
  PROVE  IInv'
<1> USE DEF IInv
<1>1. UNCHANGED <<pool, phase, current, target, todo, faults>>
  BY DEF Begin, LoseSecret
<1>2. TypeOK'
  BY <1>1 DEF TypeOK, Begin, LoseSecret, pool
<1>3. PhaseInv'
  BY <1>1 DEF PhaseInv, Begin, LoseSecret
<1>4. GroupsInv' /\ SlugInv'
  BY <1>1 DEF GroupsInv, SlugInv, pool
<1>5. ProgressInv' /\ ConfiguredUsersSignIn'
  BY <1>1 DEF ProgressInv, ConfiguredUsersSignIn, Goal, Provisioned, pool
<1> QED
  BY <1>2, <1>3, <1>4, <1>5

-----------------------------------------------------------------------------
\* Groups that the configuration does not declare go, and nobody it provisioned
\* loses a role with them.
LEMMA DeployedIInv ==
  ASSUME IInv, NEW c \in Configs, Deployed(c),
         phase \in {"updating", "rollingBack"}, c = Goal, todo = {}
  PROVE  IInv'
<1> USE DEF IInv
<1>1. /\ phase' = "deployed" /\ current' = c /\ run' = "none" /\ todo' = {}
      /\ groups' = Groups(c) /\ UNCHANGED account
      /\ member' = [u \in Usernames |-> member[u] \cap Groups(c)]
  BY DEF Deployed, DeleteGroups
<1>2. TypeOK'
  BY <1>1, UsersAreDeclared, DemoUsersAssumption DEF Deployed, TypeOK, Phases
<1>3. PhaseInv' /\ GroupsInv' /\ ProgressInv'
  BY <1>1 DEF PhaseInv, GroupsInv, ProgressInv
<1>4. SlugInv'
  BY <1>1, DemoUsersAssumption DEF SlugInv
<1>5. ConfiguredUsersSignIn'
  <2>1. \A x \in UsersOf(c) : Provisioned(x)
    BY DEF ProgressInv
  <2> QED
    BY <1>1, <2>1, UsersAreDeclared DEF ConfiguredUsersSignIn, Provisioned
<1> QED
  BY <1>2, <1>3, <1>4, <1>5

\* The Lambda returned for everybody.
LEMMA SucceededIInv ==
  ASSUME IInv, Succeeded
  PROVE  IInv'
<1>1. CASE phase = "updating" /\ Deployed(target)
  BY <1>1, DeployedIInv DEF Succeeded, IInv, PhaseInv, Goal
<1>2. CASE phase = "rollingBack" /\ Deployed(current)
  BY <1>2, DeployedIInv DEF Succeeded, IInv, PhaseInv, Goal
<1>3. CASE Gone
  <2>1. /\ groups' = {} /\ account' = [u \in Usernames |-> "none"]
        /\ member' = [u \in Usernames |-> {}] /\ UNCHANGED faults
        /\ secret' = FALSE /\ phase' = "none" /\ current' = NoConfig
        /\ target' = NoConfig /\ run' = "none" /\ todo' = {}
    BY <1>3 DEF Gone, EmptyPool
  <2>2. TypeOK'
    BY <2>1, DemoUsersAssumption DEF IInv, TypeOK, Phases
  <2>3. SlugInv'
    BY <2>1, DemoUsersAssumption DEF SlugInv
  <2> QED
    BY <2>1, <2>2, <2>3
       DEF IInv, PhaseInv, GroupsInv, ProgressInv, ConfiguredUsersSignIn
<1> QED
  BY <1>1, <1>2, <1>3 DEF Succeeded

\* However far a call got with a user of the configuration, the pool stays typed
\* and a role's login gains none but its role.
LEMMA UpsertKeepsPool ==
  ASSUME IInv, NEW x \in UsersOf(Goal), Upsert(x) \/ UpsertPartly(x),
         phase \in {"updating", "rollingBack"}
  PROVE  /\ account' \in [Usernames -> {"none", "created", "ready"}]
         /\ member' \in [Usernames -> SUBSET groups]
         /\ \A u \in Usernames : member'[u] # {} => account'[u] # "none"
         /\ SlugInv'
<1>1. Goal \in Configs /\ Groups(Goal) \subseteq groups
  BY DemoUsersAssumption DEF IInv, PhaseInv, GroupsInv, Goal
<1>2. x.username \in Usernames /\ x.groups \subseteq groups
  BY <1>1, UsersAreDeclared
<1>3. /\ account \in [Usernames -> {"none", "created", "ready"}]
      /\ member \in [Usernames -> SUBSET groups]
      /\ \A u \in Usernames : member[u] # {} => account[u] # "none"
  BY DEF IInv, TypeOK
<1>4. PICK G \in SUBSET x.groups :
        member' = [member EXCEPT ![x.username] = @ \cup G]
  <2>1. CASE UNCHANGED member
    <3>1. member = [member EXCEPT ![x.username] = @ \cup {}]
      BY <1>3
    <3> QED
      BY <2>1, <3>1
  <2> QED
    BY <2>1 DEF Upsert, UpsertPartly
<1>5. /\ \A u \in Usernames \ {x.username} : account'[u] = account[u]
      /\ account'[x.username] # "none"
      /\ account' \in [Usernames -> {"none", "created", "ready"}]
  BY <1>2, <1>3 DEF Upsert, UpsertPartly
<1>6. /\ member' \in [Usernames -> SUBSET groups]
      /\ \A u \in Usernames : member'[u] # {} => account'[u] # "none"
  BY <1>2, <1>3, <1>4, <1>5
<1>7. SlugInv'
  <2> SUFFICES ASSUME NEW r \in Roles
               PROVE  member'[Slug[r]] \subseteq {q \in Roles : Slug[q] = Slug[r]}
    BY DEF SlugInv
  <2>1. member[Slug[r]] \subseteq {q \in Roles : Slug[q] = Slug[r]}
    BY DEF IInv, SlugInv
  <2>2. Slug[r] \in Usernames
    BY DemoUsersAssumption
  <2>3. x.username = Slug[r] => x.groups \subseteq {q \in Roles : Slug[q] = Slug[r]}
    BY <1>1, UsersAreDeclared
  <2> QED
    BY <1>3, <1>4, <2>1, <2>2, <2>3
<1> QED
  BY <1>5, <1>6, <1>7

\* One user dealt with: it is as configured, or gone, and no other is worse off.
LEMMA HandleIInv ==
  ASSUME IInv, NEW x \in todo, Handle(x)
  PROVE  IInv'
<1>1. /\ x \in DemoUser /\ todo' = todo \ {x} /\ run = "working"
      /\ UNCHANGED <<groups, secret, phase, current, target, run, faults>>
  BY DEF Handle, IInv, TypeOK
<1>2. PhaseInv' /\ GroupsInv'
  BY <1>1 DEF IInv, PhaseInv, GroupsInv
<1>3. CASE phase = "deleting"
  <2>1. /\ account' = [account EXCEPT ![x.username] = "none"]
        /\ member' = [member EXCEPT ![x.username] = {}]
    BY <1>3 DEF Handle, Delete
  <2>2. TypeOK'
    BY <1>1, <2>1 DEF IInv, TypeOK
  <2>3. SlugInv'
    BY <2>1, DemoUsersAssumption DEF IInv, TypeOK, SlugInv
  <2> QED
    BY <1>1, <1>2, <1>3, <2>2, <2>3 DEF IInv, ProgressInv, ConfiguredUsersSignIn
<1>4. CASE phase # "deleting"
  <2>1. phase \in {"updating", "rollingBack"}
    BY <1>1, <1>4 DEF IInv, PhaseInv, TypeOK, Phases
  <2>2. x \in UsersOf(Goal) /\ Upsert(x) /\ UNCHANGED Goal
    BY <1>1, <1>4, <2>1 DEF Handle, IInv, ProgressInv, Goal
  <2>3. TypeOK' /\ SlugInv'
    BY <1>1, <2>1, <2>2, UpsertKeepsPool DEF IInv, TypeOK
  <2>4. ProgressInv'
    <3>1. \A y \in UsersOf(Goal) \ todo : Provisioned(y)
      BY <2>1 DEF IInv, ProgressInv
    <3>2. Goal \in Configs
      BY <2>1 DEF IInv, PhaseInv, Goal
    <3>3. \A y \in UsersOf(Goal) : y.username \in Usernames
      BY <3>2, UsersAreDeclared
    <3>4. Provisioned(x)'
      BY <2>2, <3>3 DEF Upsert, Provisioned, IInv, TypeOK
    <3>5. \A y \in UsersOf(Goal) \ todo : Provisioned(y)'
      BY <2>2, <3>1, <3>3 DEF Upsert, Provisioned, IInv, TypeOK
    <3> QED
      BY <1>1, <2>1, <2>2, <3>4, <3>5 DEF IInv, ProgressInv
  <2> QED
    BY <1>1, <1>2, <2>1, <2>3, <2>4 DEF IInv, ConfiguredUsersSignIn
<1> QED
  BY <1>3, <1>4

\* The Lambda raised: whatever it left behind, the old configuration is provisioned
\* anew, or what there is waits to be destroyed.
LEMMA FailedIInv ==
  ASSUME IInv, Failed, run # "none", faults' \in 0..MaxFaults,
         account' \in [Usernames -> {"none", "created", "ready"}],
         member' \in [Usernames -> SUBSET groups],
         \A u \in Usernames : member'[u] # {} => account'[u] # "none",
         SlugInv',
         phase = "deleting" => run # "skipped"
  PROVE  IInv'
<1> USE DEF IInv
<1>1. UNCHANGED <<groups, secret, current, target>>
  BY DEF Failed
<1>2. CASE phase = "updating" /\ current # NoConfig
  <2>1. /\ phase' = "rollingBack" /\ run' = "called" /\ todo' = UsersOf(current)
        /\ current \in Configs
    BY <1>2 DEF Failed, Call, TypeOK
  <2> QED
    BY <1>1, <1>2, <2>1, UsersAreDeclared
       DEF TypeOK, Phases, PhaseInv, GroupsInv, ProgressInv, Goal, ConfiguredUsersSignIn
<1>3. CASE phase = "updating" /\ current = NoConfig
  <2>1. phase' = "deleting" /\ run' = "skipped" /\ todo' = {}
    BY <1>3 DEF Failed, Skip
  <2> QED
    BY <1>1, <1>3, <2>1
       DEF TypeOK, Phases, PhaseInv, GroupsInv, ProgressInv, ConfiguredUsersSignIn
<1>4. CASE phase \in {"rollingBack", "deleting"}
  <2>1. /\ phase' \in {"rollbackFailed", "deleteFailed"} /\ run' = "none" /\ todo' = {}
        /\ phase' = "rollbackFailed" => phase = "rollingBack"
    BY <1>4 DEF Failed
  <2>2. current \in Configs
    BY <1>4 DEF PhaseInv
  <2> QED
    BY <1>1, <1>4, <2>1, <2>2
       DEF TypeOK, Phases, PhaseInv, GroupsInv, ProgressInv, ConfiguredUsersSignIn
<1> QED
  BY <1>2, <1>3, <1>4 DEF Failed

\* No password, no users.
LEMMA FailToBeginIInv ==
  ASSUME IInv, FailToBegin
  PROVE  IInv'
<1>1. Failed /\ run # "none" /\ phase # "deleting" /\ UNCHANGED <<account, member, faults>>
  BY DEF FailToBegin, NeedsPassword
<1> QED
  BY <1>1, FailedIInv DEF IInv, TypeOK, SlugInv

\* Half a user is no harm, and neither is a failure when all are done.
LEMMA FailIInv ==
  ASSUME IInv, Fail
  PROVE  IInv'
<1>1. /\ Failed /\ run \in {"called", "working"} /\ faults' = faults + 1 /\ faults < MaxFaults
      /\ faults \in 0..MaxFaults
  BY DEF Fail, Fault, IInv, TypeOK
<1>2. faults' \in 0..MaxFaults
  BY <1>1, DemoUsersAssumption
<1>3. CASE UNCHANGED <<account, member>>
  BY <1>1, <1>2, <1>3, FailedIInv DEF IInv, TypeOK, SlugInv
<1>4. ASSUME NEW x \in todo, UpsertPartly(x), run = "working", phase # "deleting"
      PROVE  IInv'
  <2>1. phase \in {"updating", "rollingBack"}
    BY <1>4 DEF IInv, PhaseInv, TypeOK, Phases
  <2>2. x \in UsersOf(Goal)
    BY <1>4, <2>1 DEF IInv, ProgressInv
  <2> QED
    BY <1>1, <1>2, <1>4, <2>1, <2>2, UpsertKeepsPool, FailedIInv
<1> QED
  BY <1>3, <1>4 DEF Fail

\* Every step preserves the invariant.
LEMMA NextIInv == IInv /\ [Next]_vars => IInv'
<1> SUFFICES ASSUME IInv, [Next]_vars PROVE IInv'
  OBVIOUS
<1>1. ASSUME NEW c \in Configs, Deploy(c) PROVE IInv'
  BY <1>1, DeployIInv
<1>2. CASE ContinueRollback \/ Destroy
  BY <1>2, RecallIInv
<1>3. CASE LoseSecret \/ Begin
  BY <1>3, BeginIInv
<1>4. CASE FailToBegin
  BY <1>4, FailToBeginIInv
<1>5. CASE Succeeded
  BY <1>5, SucceededIInv
<1>6. ASSUME NEW x \in todo, Handle(x) PROVE IInv'
  BY <1>6, HandleIInv
<1>7. CASE Fail
  BY <1>7, FailIInv
<1>8. CASE UNCHANGED vars
  <2>1. UNCHANGED <<groups, account, member, secret, phase, current, target, run, todo, faults>>
    BY <1>8 DEF vars, pool
  <2> QED
    BY <2>1 DEF IInv, TypeOK, PhaseInv, GroupsInv, ProgressInv, SlugInv,
                ConfiguredUsersSignIn, Goal, Provisioned
<1> QED
  BY <1>1, <1>2, <1>3, <1>4, <1>5, <1>6, <1>7, <1>8 DEF Next, Lambda

\* The invariant holds in every reachable state.
LEMMA SpecIInv == Spec => []IInv
BY InitIInv, NextIInv, PTL DEF Spec

-----------------------------------------------------------------------------
\* Every reachable state is of the declared type: nobody is in a group that is
\* not there, or in one without having an account.
THEOREM TypeCorrect == Spec => []TypeOK
<1>1. IInv => TypeOK
  BY DEF IInv
<1> QED
  BY <1>1, SpecIInv, PTL

\* A stack that says it is deployed has all its logins, with all their roles,
\* whatever failed on the way there.
THEOREM DeployedUsersSignIn == Spec => []ConfiguredUsersSignIn
<1>1. IInv => ConfiguredUsersSignIn
  BY DEF IInv
<1> QED
  BY <1>1, SpecIInv, PTL

\* A login made for a role shows that role and no other, though the handler never
\* takes a group away from anybody: what a login has had besides was a role of the
\* same login, two of those are never declared at a time, and a group that is not
\* declared is deleted.
THEOREM LoginsShowOneRole == Spec => []RoleAccountsShowOneRole
<1>1. IInv => RoleAccountsShowOneRole
  <2> SUFFICES ASSUME IInv, phase = "deployed", NEW r \in Declared[current]
               PROVE  member[Slug[r]] = {r}
    BY DEF RoleAccountsShowOneRole
  <2>1. current \in Configs /\ groups = Groups(current)
    BY DEF IInv, PhaseInv, GroupsInv
  <2>2. r \in Roles /\ Slug[r] \in Usernames
    BY <2>1, DemoUsersAssumption
  <2>3. r \in member[Slug[r]]
    <3>1. [username |-> Slug[r], groups |-> {r}] \in UsersOf(current)
      BY DEF UsersOf
    <3> QED
      BY <3>1 DEF IInv, ConfiguredUsersSignIn, Provisioned
  <2>4. ASSUME NEW q \in member[Slug[r]] PROVE q = r
    <3>1. q \in Roles /\ Slug[q] = Slug[r]
      BY <2>2 DEF IInv, SlugInv
    <3>2. q \in Declared[current]
      BY <2>1, <2>2, <3>1, DemoUsersAssumption DEF IInv, TypeOK, Groups
    <3> QED
      BY <2>1, <3>1, <3>2, DemoUsersAssumption
  <2> QED
    BY <2>3, <2>4
<1> QED
  BY <1>1, SpecIInv, PTL
=============================================================================
