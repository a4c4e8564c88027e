---------------------------- MODULE MCWorkbench ----------------------------
(***************************************************************************)
(* Workbench for TLC: a Superuser and a user of one of two silos share a   *)
(* browser tab; the same source id occurs in both silos.                   *)
(***************************************************************************)
EXTENDS Workbench, TLC

CONSTANTS root, ann, hr, veridia, HrUser, VeridiaUser

MCMayUse == root :> {hr, veridia} @@ ann :> {veridia}
MCSiloRoles == hr :> {HrUser} @@ veridia :> {VeridiaUser}
=============================================================================
