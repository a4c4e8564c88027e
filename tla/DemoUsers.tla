------------------------------ MODULE DemoUsers ------------------------------
(***************************************************************************)
(* The dev stage's demo logins through deployments of the Auth stack: the  *)
(* Cognito groups and the custom resource whose Lambda makes the users     *)
(* (demoUsersProvisioner/handler.py).  Roles and identities may differ     *)
(* from one deployment to the next.                                        *)
(*                                                                         *)
(*   groups    the groups of the user pool                                 *)
(*   account   each user: none, created, or ready (its password is set)    *)
(*   member    the groups each user is in                                  *)
(*   secret    the shared password is in Secrets Manager                   *)
(*   phase     what CloudFormation is doing with the stack                 *)
(*   current   the configuration that is deployed, or NoConfig             *)
(*   target    the one a deployment is for                                 *)
(*   run       the Lambda: none, called, working on todo, or skipped:      *)
(*             CloudFormation sees no reason to call it                    *)
(*   todo      the users it has not dealt with yet                         *)
(*   faults    calls that have failed for reasons of their own             *)
(***************************************************************************)
EXTENDS Naturals

CONSTANTS
  Configs, NoConfig,
  Roles, Superuser,
  Usernames, Root,      \* Root is the login `superuser`
  Slug,                 \* the login named after each role
  Declared,             \* the roles of the silos of a configuration
  Identities,           \* its demoIdentities
  MaxFaults             \* bound

DemoUser == [username : Usernames, groups : SUBSET (Roles \cup {Superuser})]

ASSUME DemoUsersAssumption ==
  /\ NoConfig \notin Configs /\ Superuser \notin Roles /\ Root \in Usernames
  /\ Slug \in [Roles -> Usernames \ {Root}]
  /\ Declared \in [Configs -> SUBSET Roles]
  /\ Identities \in [Configs -> SUBSET DemoUser]
  /\ \A c \in Configs : \* role names stay distinct as logins, also from identities
       /\ \A q, r \in Declared[c] : Slug[q] = Slug[r] => q = r
       /\ \A x \in Identities[c] :
            x.groups \subseteq Declared[c] /\ x.username \notin {Root} \cup {Slug[r] : r \in Roles}
  /\ MaxFaults \in Nat

VARIABLES groups, account, member, secret, phase, current, target, run, todo, faults

pool == <<groups, account, member>>
vars == <<pool, secret, phase, current, target, run, todo, faults>>

Phases ==
  {"none", "deployed", "updating", "rollingBack", "rollbackFailed", "deleting", "deleteFailed"}

TypeOK ==
  /\ groups \in SUBSET (Roles \cup {Superuser})
  /\ account \in [Usernames -> {"none", "created", "ready"}]
  /\ member \in [Usernames -> SUBSET groups]
  /\ \A u \in Usernames : member[u] # {} => account[u] # "none"
  /\ secret \in BOOLEAN
  /\ phase \in Phases
  /\ current \in Configs \cup {NoConfig} /\ target \in Configs \cup {NoConfig}
  /\ run \in {"none", "called", "working", "skipped"}
  /\ todo \in SUBSET DemoUser
  /\ faults \in 0..MaxFaults

EmptyPool ==
  /\ groups' = {}
  /\ account' = [u \in Usernames |-> "none"]
  /\ member' = [u \in Usernames |-> {}]

Init ==
  /\ groups = {}
  /\ account = [u \in Usernames |-> "none"]
  /\ member = [u \in Usernames |-> {}]
  /\ secret = FALSE
  /\ phase = "none" /\ current = NoConfig /\ target = NoConfig
  /\ run = "none" /\ todo = {}
  /\ faults = 0

-----------------------------------------------------------------------------
(* What the stack declares *)

\* Faulty variant: Superuser is nobody's role.
RoleGroups(c) == Declared[c]

Groups(c) == Declared[c] \cup {Superuser}

\* superuser, one login per role, the identities.
UsersOf(c) ==
  {[username |-> Root, groups |-> {Superuser}]}
    \cup {[username |-> Slug[r], groups |-> {r}] : r \in Declared[c]}
    \cup Identities[c]

-----------------------------------------------------------------------------
(* CloudFormation *)

Call(users) == run' = "called" /\ todo' = users

Skip == run' = "skipped" /\ todo' = {}

\* The groups come before the users, so does the secret when the stack is new;
\* the Lambda is called if the users' JSON has changed, which the same users in
\* another order do too.
Deploy(c) ==
  /\ phase \in {"none", "deployed"}
  /\ phase' = "updating" /\ target' = c
  /\ groups' = groups \cup Groups(c)
  /\ secret' = (secret \/ phase = "none")
  /\ \/ Call(UsersOf(c))
     \/ current # NoConfig /\ UsersOf(c) = UsersOf(current) /\ Skip
  /\ UNCHANGED <<account, member, current, faults>>

\* Faulty variant: groups are retained.
KeepGroups(c) == UNCHANGED <<groups, member>> /\ c \in Configs

\* Groups that c does not declare go, and memberships with them.
DeleteGroups(c) ==
  /\ groups' = Groups(c)
  /\ member' = [u \in Usernames |-> member[u] \cap Groups(c)]

Deployed(c) ==
  /\ DeleteGroups(c)
  /\ phase' = "deployed" /\ current' = c /\ target' = NoConfig
  /\ run' = "none"
  /\ UNCHANGED <<account, secret, todo, faults>>

\* The pool goes with its stack, the dev stage's removal policy.
Gone ==
  /\ EmptyPool
  /\ secret' = FALSE /\ phase' = "none" /\ current' = NoConfig /\ target' = NoConfig
  /\ run' = "none" /\ todo' = {}
  /\ UNCHANGED faults

\* The Lambda returned, or was not called.
Succeeded ==
  /\ run \in {"working", "skipped"} /\ todo = {}
  /\ \/ phase = "updating" /\ Deployed(target)
     \/ phase = "rollingBack" /\ Deployed(current)
     \/ phase = "deleting" /\ Gone

\* It raised: an update is rolled back by a call with the old properties, a
\* stack that was to be created is removed without one.
Failed ==
  /\ \/ /\ phase = "updating" /\ current # NoConfig
        /\ phase' = "rollingBack" /\ Call(UsersOf(current))
     \/ /\ phase = "updating" /\ current = NoConfig
        /\ phase' = "deleting" /\ Skip
     \/ phase = "rollingBack" /\ phase' = "rollbackFailed" /\ run' = "none" /\ todo' = {}
     \/ phase = "deleting" /\ phase' = "deleteFailed" /\ run' = "none" /\ todo' = {}
  /\ UNCHANGED <<groups, secret, current, target>>

\* Continue-update-rollback.
ContinueRollback ==
  /\ phase = "rollbackFailed"
  /\ phase' = "rollingBack" /\ Call(UsersOf(current))
  /\ UNCHANGED <<pool, secret, current, target, faults>>

Destroy ==
  /\ phase \in {"deployed", "rollbackFailed", "deleteFailed"}
  /\ phase' = "deleting" /\ Call(UsersOf(current))
  /\ UNCHANGED <<pool, secret, current, target, faults>>

\* Somebody deletes the secret by hand.
LoseSecret ==
  /\ secret /\ phase # "none"
  /\ secret' = FALSE
  /\ UNCHANGED <<pool, phase, current, target, run, todo, faults>>

-----------------------------------------------------------------------------
(* The Lambda *)

Fault == faults < MaxFaults /\ faults' = faults + 1

\* Faulty variant: the password is fetched before the request's type is looked at.
NeedsPasswordAlways == run = "called"

\* Only Create and Update fetch the password.
NeedsPassword == phase # "deleting"

Begin ==
  /\ run = "called"
  /\ NeedsPassword => secret
  /\ run' = "working"
  /\ UNCHANGED <<pool, secret, phase, current, target, todo, faults>>

FailToBegin ==
  /\ run = "called"
  /\ NeedsPassword /\ ~secret /\ UNCHANGED faults
  /\ Failed
  /\ UNCHANGED <<account, member>>

\* Faulty variant: a user that exists is left alone.
UpsertNewOnly(x) ==
  /\ account' = [account EXCEPT ![x.username] = "ready"]
  /\ member' = [member EXCEPT ![x.username] = IF account[x.username] = "none" THEN x.groups ELSE @]

\* _create_or_update_user: it may exist already; password and groups are applied
\* again, and no group is taken away.
Upsert(x) ==
  /\ account' = [account EXCEPT ![x.username] = "ready"]
  /\ member' = [member EXCEPT ![x.username] = @ \cup x.groups]

\* The same up to a call that fails: the password's, or one of the groups'.
UpsertPartly(x) ==
  \/ /\ account' = [account EXCEPT ![x.username] = IF @ = "none" THEN "created" ELSE @]
     /\ UNCHANGED member
  \/ /\ account' = [account EXCEPT ![x.username] = "ready"]
     /\ \E G \in SUBSET x.groups :
          G # x.groups /\ member' = [member EXCEPT ![x.username] = @ \cup G]

\* _delete_user: one that is gone already is no error.
Delete(x) ==
  /\ account' = [account EXCEPT ![x.username] = "none"]
  /\ member' = [member EXCEPT ![x.username] = {}]

Handle(x) ==
  /\ run = "working" /\ x \in todo
  /\ todo' = todo \ {x}
  /\ IF phase = "deleting" THEN Delete(x) ELSE Upsert(x)
  /\ UNCHANGED <<groups, secret, phase, current, target, run, faults>>

\* A call fails, the Lambda's 60 seconds are over, or its answer is lost, maybe
\* after the last user: those not dealt with stay as they are.
Fail ==
  /\ run \in {"called", "working"} /\ Fault
  /\ \/ UNCHANGED <<account, member>>
     \/ run = "working" /\ phase # "deleting" /\ \E x \in todo : UpsertPartly(x)
  /\ Failed

Lambda == Begin \/ FailToBegin \/ Succeeded \/ \E x \in todo : Handle(x)

Next ==
  \/ \E c \in Configs : Deploy(c)
  \/ ContinueRollback \/ Destroy \/ LoseSecret
  \/ Lambda \/ Fail

\* CloudFormation carries on, and whoever wants the stack gone repeats a destroy
\* that failed.
Fairness ==
  /\ WF_vars(Lambda)
  /\ WF_vars(phase = "deleteFailed" /\ Destroy)

Spec == Init /\ [][Next]_vars /\ Fairness

-----------------------------------------------------------------------------
(* Properties *)

Provisioned(x) == account[x.username] = "ready" /\ x.groups \subseteq member[x.username]

\* Once a deployment is over, also one that was rolled back half way through the
\* users or came after such ones, every configured login works and has its roles.
ConfiguredUsersSignIn == phase = "deployed" => \A x \in UsersOf(current) : Provisioned(x)

\* agent-silos.ts, "the per-(silo, role) accounts [...] show a single role's
\* view": also when an earlier configuration, or one that was rolled back, had
\* another role of the same login.
RoleAccountsShowOneRole ==
  phase = "deployed" => \A r \in Declared[current] : member[Slug[r]] = {r}

\* The handler's "a failed lookup there would block stack teardown": a stack
\* being destroyed goes, though the secret is lost and users are deleted
\* already.
TeardownEnds == phase = "deleting" ~> phase = "none"

-----------------------------------------------------------------------------
(* The inductive invariant *)

\* A stack that was deployed once has a configuration to go back to, and only one
\* that is on its way keeps the Lambda busy.
PhaseInv ==
  /\ phase = "none" => current = NoConfig
  /\ phase \in {"deployed", "rollingBack", "rollbackFailed", "deleteFailed"} => current \in Configs
  /\ phase = "updating" => target \in Configs
  /\ phase = "deleting" /\ run # "skipped" => current \in Configs
  /\ run = "skipped" => todo = {}
  /\ phase \in {"none", "deployed", "rollbackFailed", "deleteFailed"} => run = "none"

\* The groups of both configurations exist until one of them has won ...
GroupsInv ==
  /\ phase = "deployed" => groups = Groups(current)
  /\ phase \in {"updating", "rollingBack", "rollbackFailed"} /\ current # NoConfig =>
       Groups(current) \subseteq groups
  /\ phase = "updating" => Groups(target) \subseteq groups

\* ... the Lambda has provisioned whom it need not look at any more ...
Goal == IF phase = "updating" THEN target ELSE current

ProgressInv ==
  phase \in {"updating", "rollingBack"} =>
    /\ todo \subseteq UsersOf(Goal)
    /\ \A x \in UsersOf(Goal) \ todo : Provisioned(x)

\* ... and a role's login never had a role but those that share the login.
SlugInv == \A r \in Roles : member[Slug[r]] \subseteq {q \in Roles : Slug[q] = Slug[r]}

IInv ==
  /\ TypeOK
  /\ PhaseInv /\ GroupsInv /\ ProgressInv /\ SlugInv
  /\ ConfiguredUsersSignIn
=============================================================================
