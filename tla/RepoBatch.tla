------------------------------ MODULE RepoBatch ------------------------------
(***************************************************************************)
(* The vocabulary of a change request against the files of one project:    *)
(* the rows that the database holds, the changes a client may send, the    *)
(* checks that precede the database and what one change does to one row.   *)
(* FileStore (what a change request promises) and RepoFiles (how the       *)
(* backend carries it out) both extend this module.                        *)
(***************************************************************************)
EXTENDS Integers, Sequences, FiniteSets

CONSTANTS
    Handler,     \* request handlers: the change requests served at one time
    FileId,      \* identifiers the database can give to files
    Path,        \* canonical repo-relative paths
    Hash,        \* keyed content hashes, one per distinct plaintext
    Unset,       \* an optional field of a change that the client left out
    Absent,      \* "no such row"
    Clean,       \* "this transaction has not written the row"
    Batch,       \* the bodies clients may send, each a sequence of changes
    Seed         \* the files of the project in the initial state

Version == Nat \ {0}

(* A row of repo_files: the blob, its size and its flags are its hash here. *)
Row == [path : Path, version : Version, hash : Hash]

(* A row of repo_file_versions. *)
Snapshot == [id : FileId, path : Path, version : Version, hash : Hash]

Change == [id      : FileId \cup {Unset},
           base    : Version \cup {Unset},
           path    : Path \cup {Unset},
           content : Hash \cup {Unset},
           delete  : BOOLEAN]

PathsUnique(rows) ==
    \A f, g \in FileId :
        /\ rows[f] # Absent
        /\ rows[g] # Absent
        /\ rows[f].path = rows[g].path
        => f = g

ASSUME BatchAssumption == Batch \subseteq Seq(Change)

ASSUME SeedAssumption ==
    /\ Seed \in [FileId -> Row \cup {Absent}]
    /\ PathsUnique(Seed)
    /\ \A f \in FileId : Seed[f] # Absent => Seed[f].version = 1

ASSUME NullAssumption ==
    /\ Unset \notin FileId \cup Version \cup Path \cup Hash
    /\ Absent \notin Row
    /\ Clean \notin Row \cup {Absent}

-----------------------------------------------------------------------------
(* The checks made before the database is touched. *)

ValidChange(c) ==
    IF c.id = Unset
    THEN ~c.delete /\ c.path # Unset /\ c.content # Unset
    ELSE /\ c.base # Unset
         /\ c.delete \/ c.path # Unset \/ c.content # Unset

NoDuplicates(b) ==
    \A i, j \in DOMAIN b :
        i # j =>
            /\ b[i].id # Unset => b[i].id # b[j].id
            /\ b[i].path # Unset /\ ~b[i].delete /\ ~b[j].delete
                 => b[i].path # b[j].path

Valid(b) ==
    /\ b # << >>
    /\ \A i \in DOMAIN b : ValidChange(b[i])
    /\ NoDuplicates(b)

-----------------------------------------------------------------------------
(* What a batch asks for. *)

Creates(b) == {i \in DOMAIN b : b[i].id = Unset}
Edits(b)   == {i \in DOMAIN b : b[i].id # Unset}
Deletes(b) == {i \in DOMAIN b : b[i].delete}
Touched(b) == {b[i].id : i \in Edits(b)}

(* Growth of the project by a batch: what the plan limit is asked for. *)
Adding(b) == Cardinality(Creates(b)) - Cardinality(Deletes(b))

(* Every row the batch edits exists and is at the version it was based on. *)
Current(rows, b) ==
    \A i \in Edits(b) :
        /\ rows[b[i].id] # Absent
        /\ rows[b[i].id].version = b[i].base

-----------------------------------------------------------------------------
(* What one change does to one row. *)

Retitled(row, c)  == c.path # Unset /\ c.path # row.path
Rewritten(row, c) == c.content # Unset /\ c.content # row.hash
Changed(row, c)   == Retitled(row, c) \/ Rewritten(row, c)

Updated(row, c) ==
    [path    |-> IF Retitled(row, c) THEN c.path ELSE row.path,
     version |-> row.version + 1,
     hash    |-> IF Rewritten(row, c) THEN c.content ELSE row.hash]

After(row, c) ==
    IF c.delete THEN Absent
    ELSE IF Changed(row, c) THEN Updated(row, c) ELSE row

(* Mutation: versions counted from zero. *)
CreatedAtZero(c) == [path |-> c.path, version |-> 0, hash |-> c.content]

Created(c) == [path |-> c.path, version |-> 1, hash |-> c.content]

(* The rows after batch b, whose creations got the identifiers new. *)
Result(rows, b, new) ==
    [f \in FileId |->
        IF \E i \in Creates(b) : new[i] = f
        THEN Created(b[CHOOSE i \in Creates(b) : new[i] = f])
        ELSE IF f \in Touched(b)
        THEN After(rows[f], b[CHOOSE i \in Edits(b) : b[i].id = f])
        ELSE rows[f]]

SnapshotOf(f, row) ==
    [id |-> f, path |-> row.path, version |-> row.version, hash |-> row.hash]

(* The history the database keeps beside a set of rows at version 1. *)
FirstSnapshots(rows) ==
    {SnapshotOf(f, rows[f]) : f \in {g \in FileId : rows[g] # Absent}}
=============================================================================
