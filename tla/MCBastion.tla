------------------------------ MODULE MCBastion ------------------------------
(***************************************************************************)
(* Bastion for TLC: two sessions on one machine and one on another.        *)
(***************************************************************************)
EXTENDS Bastion, TLC

CONSTANTS s1, s2, s3, laptop, desktop

MCHostOf == s1 :> laptop @@ s2 :> laptop @@ s3 :> desktop
=============================================================================
