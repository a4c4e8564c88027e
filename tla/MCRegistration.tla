--------------------------- MODULE MCRegistration ---------------------------
(* Registration for TLC: the HR silo, one classified file and one that is not. *)
EXTENDS Registration, TLC

CONSTANTS HrUser, HrExec, FinanceUser, User, policy, memo

MCLadder == <<HrUser, HrExec>>
MCAutoClassify == User :> HrUser
MCPrefixOf == policy :> User @@ memo :> NoPrefix
=============================================================================
