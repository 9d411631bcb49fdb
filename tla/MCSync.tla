------------------------------- MODULE MCSync -------------------------------
(***************************************************************************)
(* Instances of Sync: a checkout without a base of a project with one or   *)
(* two files, and what teammates may do to the project.                    *)
(***************************************************************************)
EXTENDS Sync

CONSTANTS x, y

MCHash == {x, y}

row(p, h) == [path |-> p, version |-> 1, hash |-> h]

NoFiles  == [f \in FileId |-> Absent]
OneFile  == [f \in FileId |-> IF f = 1 THEN row(1, x) ELSE Absent]
TwoFiles == [f \in FileId |-> CASE f = 1 -> row(1, x) [] f = 2 -> row(2, y)
                                [] OTHER -> Absent]

create(p, h)  == << [id |-> Unset, base |-> Unset, path |-> p, content |-> h,
                     delete |-> FALSE] >>
write(f, v)   == << [id |-> f, base |-> v, path |-> Unset, content |-> y,
                     delete |-> FALSE] >>
move(f, v, p) == << [id |-> f, base |-> v, path |-> p, content |-> Unset,
                     delete |-> FALSE] >>
delete(f, v)  == << [id |-> f, base |-> v, path |-> Unset, content |-> Unset,
                     delete |-> TRUE] >>

MCBatch == {create(2, x), create(1, y), write(1, 1), move(1, 1, 2),
            move(1, 1, 3), delete(1, 1), delete(1, 2)}

(* Two files change places by way of a third path.                         *)
MoveBatch == {move(1, 1, 3), move(2, 1, 1), write(1, 1)}

command(name, force, yes) ==
    [name |-> name, force |-> force, yes |-> yes, named |-> {}]

PushPull == {command("push", FALSE, FALSE), command("pull", FALSE, FALSE)}

(* Everything without --force, and an untrack of one path.                 *)
MCCommands ==
    PushPull \cup {command("purge", FALSE, FALSE),
                   [name |-> "untrack", force |-> FALSE, yes |-> TRUE,
                    named |-> {1}]}

ForcedPull == {command("pull", FALSE, FALSE), command("pull", TRUE, FALSE)}
ForcedPush == {command("pull", FALSE, FALSE), command("push", TRUE, TRUE)}
=============================================================================
