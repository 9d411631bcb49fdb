----------------------------- MODULE MCServices -----------------------------
(***************************************************************************)
(* Services on a small instance: one person with two requests on the       *)
(* command line and one in a browser, and small sets for the others.       *)
(***************************************************************************)
EXTENDS Services

CONSTANTS u, c1, c2, w, cli, web,   \* a person, requests and their clients
          f1, f2, p1, p2,           \* files and paths
          pro, free, q1             \* people with plans, a project

MCHome == [p \in Process |-> IF p = w THEN web ELSE cli]

(* One file, for the others to be created, moved and deleted. *)
MCFirstFile == file = [f \in CiFile |-> IF f = f1 THEN p1 ELSE Outside]

(* Where the files start is left open only in the behaviours that use it,  *)
(* and two people own a project each, one on a larger plan.                *)
MCInit ==
    /\ ServicesInit
    /\ service = "ci" \/ MCFirstFile
    /\ owner = [p \in Project |-> IF p = q1 THEN pro ELSE free]
    /\ limit = [v \in Payer |-> IF v = pro THEN 2 ELSE 1]

MCSpec == MCInit /\ [][ServicesNext]_servicesVars
=============================================================================
