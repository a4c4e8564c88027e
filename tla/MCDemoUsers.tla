----------------------------- MODULE MCDemoUsers -----------------------------
(***************************************************************************)
(* DemoUsers for TLC: the role exec is renamed from one configuration to   *)
(* another, with the same login after it, an identity loses a role, and    *)
(* another identity leaves.                                                *)
(***************************************************************************)
EXTENDS DemoUsers, TLC

CONSTANTS old, new, small, user, exec, Exec, root, userLogin, execLogin, plus, extra

MCSlug == user :> userLogin @@ exec :> execLogin @@ Exec :> execLogin
MCDeclared == old :> {user, exec} @@ new :> {user, Exec} @@ small :> {user}
Holds(u, G) == [username |-> u, groups |-> G]
MCIdentities ==
  old :> {Holds(plus, {user, exec})}
    @@ new :> {Holds(plus, {Exec}), Holds(extra, {user})}
    @@ small :> {Holds(plus, {user})}
=============================================================================
