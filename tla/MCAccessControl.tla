-------------------------- MODULE MCAccessControl --------------------------
(* AccessControl for TLC: the HR silo, and ladders a team may try. *)
EXTENDS AccessControl, TLC

CONSTANTS HrUser, HrManager, HrExec, VeridiaUser

MCSiloRoles == {HrUser, HrManager, HrExec}
MCLadders == {
  <<HrUser, HrManager, HrExec>>,
  <<HrManager, HrUser, HrExec>>,
  <<HrUser, HrExec>>,
  <<HrUser, HrManager, HrUser>>,
  <<>>}

Symmetric == Permutations(Users)
=============================================================================
