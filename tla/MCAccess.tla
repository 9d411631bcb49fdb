------------------------------ MODULE MCAccess ------------------------------
(***************************************************************************)
(* Instances of Access: the founder of a project and people to invite.     *)
(***************************************************************************)
EXTENDS Access, TLC

(* All but the founder are alike, and so are the handlers. *)
Alike == Permutations(User \ {Founder}) \cup Permutations(Handler)
=============================================================================
