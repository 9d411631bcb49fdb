---------------------------- MODULE MCKeyGrants ----------------------------
(***************************************************************************)
(* Instances of KeyGrants: an owner with two devices, and a member.        *)
(***************************************************************************)
EXTENDS KeyGrants, TLC

CONSTANTS o, e, d1, d2, d3

MCUserOf == (d1 :> o) @@ (d2 :> o) @@ (d3 :> e)

OwnersDevices == Permutations({d1, d2})
=============================================================================
