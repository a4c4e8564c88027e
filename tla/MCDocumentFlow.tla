--------------------------- MODULE MCDocumentFlow ---------------------------
(***************************************************************************)
(* DocumentFlow for TLC: a UIMediated silo with one classified prefix and  *)
(* an AllUser silo.                                                        *)
(***************************************************************************)
EXTENDS DocumentFlow, TLC

CONSTANTS hr, veridia, HrUser, HrExec, VeridiaUser, User, NoPrefix,
          memo, policy, upload, faq

MCAgents == {hr, veridia}
MCSiloRoles == hr :> Roles \ {VeridiaUser} @@ veridia :> {VeridiaUser}
MCWorkflow == hr :> "UIMediated" @@ veridia :> "AllUser"
MCPrefixes == {User, NoPrefix}
MCAutoClassify == hr :> (User :> HrUser) @@ veridia :> <<>>

MCSiloOf == [d \in Docs |-> IF d = faq THEN veridia ELSE hr]
MCPrefixOf == [d \in Docs |-> IF d = policy THEN User ELSE NoPrefix]
MCFromBucket == Docs \cap {upload, faq}

Symmetric == Permutations(Messages) \cup Permutations(Admins)
=============================================================================
