---------------------------- MODULE MCRepoFiles ----------------------------
(***************************************************************************)
(* Instances of RepoFiles: a project with two files, and the bodies that   *)
(* the clients of each run may send.                                       *)
(***************************************************************************)
EXTENDS RepoFilesLive, SequencesExt, TLC

CONSTANTS p1, p2, p3, p4, p5, p6, p7, x, y

MCPath == {p1, p2, p3, p4, p5, p6, p7}
MCHash == {x, y}
MCFileId == 1..8

MCSeed ==
    [f \in MCFileId |->
        CASE f = 1 -> [path |-> p1, version |-> 1, hash |-> x]
          [] f = 2 -> [path |-> p2, version |-> 1, hash |-> x]
          [] OTHER -> Absent]

Handlers == Permutations(Handler)

create(p)     == [id |-> Unset, base |-> Unset, path |-> p, content |-> x,
                  delete |-> FALSE]
write(f, v)   == [id |-> f, base |-> v, path |-> Unset, content |-> y,
                  delete |-> FALSE]
move(f, v, p) == [id |-> f, base |-> v, path |-> p, content |-> Unset,
                  delete |-> FALSE]
delete(f, v)  == [id |-> f, base |-> v, path |-> Unset, content |-> Unset,
                  delete |-> TRUE]

(* A change that changes nothing, where the file is as the seed has it.    *)
same(f)       == [id |-> f, base |-> 1, path |-> Unset, content |-> x,
                  delete |-> FALSE]

(* Single changes and pairs in both orders, pairs that edit one file twice *)
(* or aim twice at one path to be refused; and creations that two clients  *)
(* can send to outgrow the plan.                                           *)
MCBatch ==
    BoundedSeq({create(p1), write(1, 1), write(1, 2), same(1), move(1, 1, p3),
                move(2, 1, p1), delete(1, 1)}, 2)
        \cup {<<create(p4)>>, <<create(p3), create(p5)>>, <<create(p6), create(p7)>>}

(* A change of a file, and a request that repeats what the file has while  *)
(* it creates another.                                                     *)
IdleBatch == {<<write(1, 1)>>, <<same(1), create(p3)>>}

(* Requests whose transactions can wait for each other in a circle. *)
CircleBatch ==
    BoundedSeq({create(p3), write(1, 1), write(2, 1), move(1, 1, p3),
                move(2, 1, p1), delete(1, 1)}, 2)
=============================================================================
