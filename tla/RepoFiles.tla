------------------------------ MODULE RepoFiles ------------------------------
(***************************************************************************)
(* How the backend carries out change requests: several request handlers   *)
(* over one PostgreSQL database at its default isolation, read committed.  *)
(*                                                                         *)
(* A handler validates the body, asks whether the plan has room, and opens *)
(* a transaction that reads the rows it is about to touch, writes them one *)
(* statement at a time and commits; the audit entries are written after    *)
(* that.  Every one of these is a step of its own, so the handlers         *)
(* interleave wherever the code awaits the database.  A statement sees the *)
(* committed rows and its own transaction's; it waits for a row, or for a  *)
(* path, that another open transaction has written.                        *)
(***************************************************************************)
EXTENDS RepoBatch

CONSTANTS
    MaxRepoFiles,  \* the limit on files of the plan that pays
    Unlimited,     \* the limit of a plan that has none
    Elsewhere,     \* how many files its other projects may have when asked
    MaxRequests    \* bound: how many change requests a behaviour sees

ASSUME LimitAssumption ==
    /\ MaxRepoFiles \in Nat \cup {Unlimited}
    /\ Elsewhere \subseteq Nat /\ Elsewhere # {}
    /\ MaxRequests \in Nat
    /\ IsFiniteSet(FileId)

(* Requests are served by one process, at least one at a time.             *)
ASSUME HandlerAssumption == IsFiniteSet(Handler) /\ Handler # {}

VARIABLES
    files,      \* committed rows of repo_files
    versions,   \* committed rows of repo_file_versions
    audit,      \* rows of audit_logs about files
    issued,     \* identifiers the database has given out
    pc,         \* where a handler is: idle, enforce, load, write, audit
    batch,      \* the changes a handler serves, in the order they came
    done,       \* which of them its transaction has carried out
    loaded,     \* the rows it read when the transaction began
    writes,     \* its uncommitted rows of repo_files
    snaps,      \* its uncommitted rows of repo_file_versions
    entries,    \* the audit entries it owes
    reply,      \* the answer it last gave
    submitted   \* how many requests were made, against MaxRequests

database == <<files, versions, audit, issued>>
vars == <<files, versions, audit, issued, pc, batch, done, loaded, writes,
          snaps, entries, reply, submitted>>

AuditEntry ==
    [action : {"CREATE", "UPDATE", "DELETE"}, id : FileId, path : Path]

Entry(a, f, p) == [action |-> a, id |-> f, path |-> p]

Nothing == [f \in FileId |-> Absent]
NoWrites == [f \in FileId |-> Clean]

Init ==
    /\ files = Seed
    /\ versions = FirstSnapshots(Seed)
    /\ audit = {}
    /\ issued = {f \in FileId : Seed[f] # Absent}
    /\ pc = [h \in Handler |-> "idle"]
    /\ batch = [h \in Handler |-> << >>]
    /\ done = [h \in Handler |-> {}]
    /\ loaded = [h \in Handler |-> Nothing]
    /\ writes = [h \in Handler |-> NoWrites]
    /\ snaps = [h \in Handler |-> {}]
    /\ entries = [h \in Handler |-> {}]
    /\ reply = [h \in Handler |-> "none"]
    /\ submitted = 0

-----------------------------------------------------------------------------
(* Mutation: an answer that leaves the transaction open. *)
AnswerKeepingLocks(h, r) ==
    /\ pc' = [pc EXCEPT ![h] = "idle"]
    /\ reply' = [reply EXCEPT ![h] = r]
    /\ batch' = [batch EXCEPT ![h] = << >>]
    /\ done' = [done EXCEPT ![h] = {}]
    /\ UNCHANGED <<loaded, writes, snaps, entries>>

(* The handler answers: what its transaction held, if any, is gone. *)
Answer(h, r) ==
    /\ pc' = [pc EXCEPT ![h] = "idle"]
    /\ reply' = [reply EXCEPT ![h] = r]
    /\ batch' = [batch EXCEPT ![h] = << >>]
    /\ done' = [done EXCEPT ![h] = {}]
    /\ loaded' = [loaded EXCEPT ![h] = Nothing]
    /\ writes' = [writes EXCEPT ![h] = NoWrites]
    /\ snaps' = [snaps EXCEPT ![h] = {}]
    /\ entries' = [entries EXCEPT ![h] = {}]

(* RepoFileService.applyChanges: a body that fails a check is refused; one *)
(* that adds files goes by the plan first.                                 *)
ApplyChanges(h) ==
    /\ pc[h] = "idle"
    /\ submitted < MaxRequests
    /\ submitted' = submitted + 1
    /\ \E b \in Batch :
         \/ /\ ~Valid(b)
            /\ reply' = [reply EXCEPT ![h] = "badRequest"]
            /\ UNCHANGED <<pc, batch>>
         \/ /\ Valid(b)
            /\ pc' = [pc EXCEPT ![h] =
                        IF Adding(b) > 0 THEN "enforce" ELSE "load"]
            /\ batch' = [batch EXCEPT ![h] = b]
            /\ reply' = [reply EXCEPT ![h] = "none"]
    /\ UNCHANGED <<database, done, loaded, writes, snaps, entries>>

LiveFiles == {f \in FileId : files[f] # Absent}

(* The count is of all the projects that the owner of this one owns: n of   *)
(* the files are in the others.                                            *)
OverLimit(b, n) ==
    /\ MaxRepoFiles # Unlimited
    /\ Cardinality(LiveFiles) + n + Adding(b) > MaxRepoFiles

(* PlanEnforcementService.enforce: counts now, outside the transaction.    *)
(* What the limit is worth then, with several projects, owners and plans,  *)
(* is the subject of PlanLimits.                                           *)
Enforce(h) ==
    /\ pc[h] = "enforce"
    /\ \E n \in Elsewhere :
         \/ /\ OverLimit(batch[h], n)
            /\ Answer(h, "planLimit")
         \/ /\ ~OverLimit(batch[h], n)
            /\ pc' = [pc EXCEPT ![h] = "load"]
            /\ UNCHANGED <<batch, done, loaded, writes, snaps, entries, reply>>
    /\ UNCHANGED <<database, submitted>>

(* Mutation: loads without checking the baseVersion of each change. *)
LoadUnchecked(h) ==
    /\ pc[h] = "load"
    /\ \A i \in Edits(batch[h]) : files[batch[h][i].id] # Absent
    /\ pc' = [pc EXCEPT ![h] = "write"]
    /\ loaded' = [loaded EXCEPT ![h] =
          [f \in FileId |->
              IF f \in Touched(batch[h]) THEN files[f] ELSE Absent]]
    /\ UNCHANGED <<database, batch, done, writes, snaps, entries, reply,
                   submitted>>

(* loadCurrent: one query for all rows, every baseVersion checked. *)
LoadCurrent(h) ==
    /\ pc[h] = "load"
    /\ \/ /\ ~Current(files, batch[h])
          /\ Answer(h, "conflict")
       \/ /\ Current(files, batch[h])
          /\ pc' = [pc EXCEPT ![h] = "write"]
          /\ loaded' = [loaded EXCEPT ![h] =
                [f \in FileId |->
                    IF f \in Touched(batch[h]) THEN files[f] ELSE Absent]]
          /\ UNCHANGED <<batch, done, writes, snaps, entries, reply>>
    /\ UNCHANGED <<database, submitted>>

-----------------------------------------------------------------------------
(* The order of the statements: deletes, then updates and moves, then      *)
(* creations, each in the order they came.                                 *)
Rank(c) == IF c.id = Unset THEN 3 ELSE IF c.delete THEN 1 ELSE 2

Before(b, i, j) ==
    \/ Rank(b[i]) < Rank(b[j])
    \/ Rank(b[i]) = Rank(b[j]) /\ i < j

Turn(h, i) ==
    /\ pc[h] = "write"
    /\ i \in DOMAIN batch[h] \ done[h]
    /\ \A j \in DOMAIN batch[h] \ (done[h] \cup {i}) : Before(batch[h], i, j)

(* PostgreSQL: what a statement sees and what it waits for. *)
View(h) ==
    [f \in FileId |-> IF writes[h][f] = Clean THEN files[f] ELSE writes[h][f]]

Holds(g, f) == writes[g][f] # Clean

(* Handler g's open transaction has taken path p, or may be giving it up. *)
Claims(g, p) ==
    \E f \in FileId :
        /\ Holds(g, f)
        /\ \/ writes[g][f] # Absent /\ writes[g][f].path = p
           \/ files[f] # Absent /\ files[f].path = p

RowLocked(h, f)   == \E g \in Handler \ {h} : Holds(g, f)
PathClaimed(h, p) == \E g \in Handler \ {h} : Claims(g, p)

PathTaken(h, f, p) ==
    \E g \in FileId \ {f} : View(h)[g] # Absent /\ View(h)[g].path = p

PathFree(h, f, p) == ~PathClaimed(h, p) /\ ~PathTaken(h, f, p)

(* Mutation: a write guarded by the identifier alone. *)
RowExists(h, f) == files[f] # Absent

(* The version guard of every write: the row is still as it was loaded. *)
VersionGuard(h, f) ==
    /\ files[f] # Absent
    /\ files[f].version = loaded[h][f].version

(* Mutation: no snapshot of a version that only moves the file. *)
WriteUnlessMoved(h, i, f, row, entry) ==
    /\ done' = [done EXCEPT ![h] = @ \cup {i}]
    /\ writes' = [writes EXCEPT ![h][f] = row]
    /\ snaps' = [snaps EXCEPT ![h] =
          IF row = Absent \/ (files[f] # Absent /\ row.hash = files[f].hash)
          THEN @ ELSE @ \cup {SnapshotOf(f, row)}]
    /\ entries' = [entries EXCEPT ![h] = @ \cup {entry}]
    /\ UNCHANGED <<files, versions, audit, pc, batch, loaded, reply, submitted>>

(* One statement of the transaction is carried out. *)
Write(h, i, f, row, entry) ==
    /\ done' = [done EXCEPT ![h] = @ \cup {i}]
    /\ writes' = [writes EXCEPT ![h][f] = row]
    /\ snaps' = [snaps EXCEPT ![h] =
                    IF row = Absent THEN @ ELSE @ \cup {SnapshotOf(f, row)}]
    /\ entries' = [entries EXCEPT ![h] = @ \cup {entry}]
    /\ UNCHANGED <<files, versions, audit, pc, batch, loaded, reply, submitted>>

DeleteFile(h) ==
    \E i \in DOMAIN batch[h] :
        LET f == batch[h][i].id IN
        /\ Turn(h, i)
        /\ batch[h][i].delete
        /\ ~RowLocked(h, f)
        /\ VersionGuard(h, f)
        /\ Write(h, i, f, Absent, Entry("DELETE", f, loaded[h][f].path))
        /\ UNCHANGED issued

(* An update that changes neither content nor path writes nothing; it is   *)
(* audited all the same.                                                   *)
SkipUpdate(h) ==
    \E i \in Edits(batch[h]) :
        LET c == batch[h][i] IN
        /\ Turn(h, i)
        /\ ~c.delete
        /\ ~Changed(loaded[h][c.id], c)
        /\ done' = [done EXCEPT ![h] = @ \cup {i}]
        /\ entries' = [entries EXCEPT ![h] =
                @ \cup {Entry("UPDATE", c.id, loaded[h][c.id].path)}]
        /\ UNCHANGED <<database, pc, batch, loaded, writes, snaps, reply,
                       submitted>>

(* Mutation: a move keeps the version. *)
MergedKeepingVersion(row, seen, c) ==
    [path    |-> IF Retitled(seen, c) THEN c.path ELSE row.path,
     version |-> IF Rewritten(seen, c) THEN seen.version + 1 ELSE seen.version,
     hash    |-> IF Rewritten(seen, c) THEN c.content ELSE row.hash]

(* The columns the change sets, on the row as the database has it now: what *)
(* counts as a change was decided on the row that was loaded.              *)
Merged(row, seen, c) ==
    [path    |-> IF Retitled(seen, c) THEN c.path ELSE row.path,
     version |-> seen.version + 1,
     hash    |-> IF Rewritten(seen, c) THEN c.content ELSE row.hash]

UpdateFile(h) ==
    \E i \in Edits(batch[h]) :
        LET c == batch[h][i]
            row == Merged(files[c.id], loaded[h][c.id], c)
        IN
        /\ Turn(h, i)
        /\ ~c.delete
        /\ Changed(loaded[h][c.id], c)
        /\ ~RowLocked(h, c.id)
        /\ VersionGuard(h, c.id)
        /\ Retitled(loaded[h][c.id], c) => PathFree(h, c.id, c.path)
        /\ Write(h, i, c.id, row, Entry("UPDATE", c.id, row.path))
        /\ UNCHANGED issued

CreateFile(h) ==
    \E i \in Creates(batch[h]) :
        LET c == batch[h][i]
            f == CHOOSE g \in FileId : g \notin issued
        IN
        /\ Turn(h, i)
        /\ FileId # issued            \* bound: FileId is large enough
        /\ PathFree(h, f, c.path)
        /\ Write(h, i, f, Created(c), Entry("CREATE", f, c.path))
        /\ issued' = issued \cup {f}

(* The row was changed or deleted by another request after it was loaded. *)
LostRace(h) ==
    /\ \E i \in Edits(batch[h]) :
         LET c == batch[h][i] IN
         /\ Turn(h, i)
         /\ c.delete \/ Changed(loaded[h][c.id], c)
         /\ ~RowLocked(h, c.id)
         /\ ~VersionGuard(h, c.id)
    /\ Answer(h, "conflict")
    /\ UNCHANGED <<database, submitted>>

(* A statement would break the unique index on (project, path). *)
UniqueViolation(h) ==
    /\ \E i \in DOMAIN batch[h] :
         LET c == batch[h][i] IN
         /\ Turn(h, i)
         /\ ~c.delete
         /\ c.id # Unset =>
              /\ Retitled(loaded[h][c.id], c)
              /\ ~RowLocked(h, c.id)
              /\ VersionGuard(h, c.id)
         /\ c.path # Unset
         /\ ~PathClaimed(h, c.path)
         /\ PathTaken(h, c.id, c.path)
    /\ Answer(h, "conflict")
    /\ UNCHANGED <<database, submitted>>

Commit(h) ==
    /\ pc[h] = "write"
    /\ done[h] = DOMAIN batch[h]
    /\ files' = View(h)
    /\ versions' = {s \in versions : View(h)[s.id] # Absent} \cup snaps[h]
    /\ pc' = [pc EXCEPT ![h] = "audit"]
    /\ loaded' = [loaded EXCEPT ![h] = Nothing]
    /\ writes' = [writes EXCEPT ![h] = NoWrites]
    /\ snaps' = [snaps EXCEPT ![h] = {}]
    /\ UNCHANGED <<audit, issued, batch, done, entries, reply, submitted>>

(* AuditLogService.logMany after the commit; a failure to write the        *)
(* entries is logged and swallowed.                                        *)
LogMany(h) ==
    /\ pc[h] = "audit"
    /\ audit' \in {audit, audit \cup entries[h]}
    /\ Answer(h, "ok")
    /\ UNCHANGED <<files, versions, issued, submitted>>

(* The server crashes, the transaction times out, the database picks it as *)
(* the victim of a deadlock: uncommitted writes are rolled back, and the   *)
(* client cannot tell whether the request took effect.                     *)
Fail(h) ==
    /\ pc[h] # "idle"
    /\ Answer(h, "error")
    /\ UNCHANGED <<database, submitted>>

Handle(h) ==
    \/ Enforce(h) \/ LoadCurrent(h)
    \/ DeleteFile(h) \/ SkipUpdate(h) \/ UpdateFile(h) \/ CreateFile(h)
    \/ LostRace(h) \/ UniqueViolation(h)
    \/ Commit(h) \/ LogMany(h)

Next == \E h \in Handler : ApplyChanges(h) \/ Handle(h) \/ Fail(h)

Spec == Init /\ [][Next]_vars

-----------------------------------------------------------------------------
(* Properties. *)

TypeOK ==
    /\ files \in [FileId -> Row \cup {Absent}]
    /\ versions \subseteq Snapshot
    /\ audit \subseteq AuditEntry
    /\ issued \subseteq FileId
    /\ pc \in [Handler -> {"idle", "enforce", "load", "write", "audit"}]
    /\ batch \in [Handler -> Batch \cup {<< >>}]
    /\ done \in [Handler -> SUBSET Nat]
    /\ loaded \in [Handler -> [FileId -> Row \cup {Absent}]]
    /\ writes \in [Handler -> [FileId -> Row \cup {Absent, Clean}]]
    /\ snaps \in [Handler -> SUBSET Snapshot]
    /\ entries \in [Handler -> SUBSET AuditEntry]
    /\ reply \in [Handler -> {"none", "ok", "badRequest", "conflict",
                              "planLimit", "error"}]
    /\ submitted \in 0..MaxRequests

(* The history of a file is complete: one snapshot for each version from 1 *)
(* to the current one, the last of them equal to the row itself, and none  *)
(* for a file that is gone.  (snapshot() beside each write, @@unique on    *)
(* the pair, versions deleted with their file.)                            *)
HistoryComplete ==
    /\ \A s \in versions :
         /\ files[s.id] # Absent
         /\ s.version <= files[s.id].version
    /\ \A f \in FileId : files[f] # Absent =>
         /\ SnapshotOf(f, files[f]) \in versions
         /\ \A v \in 1..files[f].version : \E s \in versions :
              s.id = f /\ s.version = v
    /\ \A s, t \in versions : s.id = t.id /\ s.version = t.version => s = t

(* A version names one state of a file: a row loaded at the version that is *)
(* committed now is the committed row.  That is why a guard on the version *)
(* alone is enough, for the base a client sends and for every write.       *)
VersionNamesRow ==
    \A h \in Handler, f \in FileId :
        /\ loaded[h][f] # Absent
        /\ files[f] # Absent
        /\ loaded[h][f].version = files[f].version
        => loaded[h][f] = files[f]

(* The rows a transaction has written are still, in the database, the rows *)
(* it loaded: nobody commits a change between its guarded write and its    *)
(* commit, so no update is lost.                                           *)
WritesBasedOnCommitted ==
    \A h \in Handler, f \in FileId :
        writes[h][f] # Clean /\ loaded[h][f] # Absent
            => files[f] = loaded[h][f]

(* What the API says of a request: "if any file changed in between, nothing *)
(* is applied".  A request commits only while each file that it names is   *)
(* at the version that the client based its change on.                     *)
AppliedAtBase ==
    [][\A h \in Handler : Commit(h) => Current(files, batch[h])]_vars

-----------------------------------------------------------------------------
(* The inductive invariant behind the properties above. *)

(* What a handler holds at each point of a request. *)
Stage(h) ==
    /\ pc[h] = "idle" => batch[h] = << >>
    /\ pc[h] # "idle" => Valid(batch[h])
    /\ pc[h] # "write" =>
         /\ loaded[h] = Nothing
         /\ writes[h] = NoWrites
         /\ snaps[h] = {}
    /\ pc[h] = "write" =>
         \A f \in FileId : loaded[h][f] # Absent <=> f \in Touched(batch[h])
    /\ pc[h] \notin {"write", "audit"} => done[h] = {}
    /\ done[h] \subseteq DOMAIN batch[h]

(* A row written over a committed one is the next version of the row that  *)
(* was loaded; any other is the first version of a file only its own       *)
(* transaction knows.                                                      *)
PendingWrites(h) ==
    \A f \in FileId : writes[h][f] # Clean =>
        \/ /\ loaded[h][f] # Absent
           /\ files[f] = loaded[h][f]
           /\ writes[h][f] # Absent
                => writes[h][f].version = loaded[h][f].version + 1
        \/ /\ files[f] = Absent
           /\ writes[h][f] # Absent
           /\ writes[h][f].version = 1
           /\ f \in issued
           /\ \A g \in Handler : loaded[g][f] = Absent

PendingSnapshots(h) ==
    snaps[h] = {SnapshotOf(f, writes[h][f]) :
                    f \in {g \in FileId : writes[h][g] \notin {Clean, Absent}}}

(* A statement still to come finds its row as its transaction found it.    *)
NotYetWritten(h) ==
    \A i \in Edits(batch[h]) \ done[h] : writes[h][batch[h][i].id] = Clean

(* No two open transactions have written the same row. *)
RowsExclusive ==
    \A h, g \in Handler, f \in FileId :
        writes[h][f] # Clean /\ writes[g][f] # Clean => h = g

(* Files that exist, or that a transaction has seen, have used identifiers. *)
SeenIssued ==
    \A f \in FileId :
        /\ files[f] # Absent => f \in issued
        /\ \A h \in Handler : loaded[h][f] # Absent => f \in issued

(* What was loaded is not ahead of what is committed. *)
LoadedNotAhead ==
    \A h \in Handler, f \in FileId :
        loaded[h][f] # Absent /\ files[f] # Absent
            => loaded[h][f].version <= files[f].version

IInv ==
    /\ \A h \in Handler :
         Stage(h) /\ PendingWrites(h) /\ PendingSnapshots(h) /\ NotYetWritten(h)
    /\ RowsExclusive
    /\ SeenIssued
    /\ LoadedNotAhead
    /\ VersionNamesRow
    /\ HistoryComplete

(* Paths are distinct among the committed rows, in what each transaction    *)
(* sees, and between the rows that different transactions have written.    *)
PathsApart ==
    /\ PathsUnique(files)
    /\ \A h \in Handler : PathsUnique(View(h))
    /\ \A h, g \in Handler, e, f \in FileId :
         h # g /\ writes[h][e] \notin {Clean, Absent}
               /\ writes[g][f] \notin {Clean, Absent}
            => writes[h][e].path # writes[g][f].path

(* What a transaction has written is what the changes it has carried out    *)
(* make of the rows it loaded, each at the version it was based on.        *)
CarriedOut(h) ==
    /\ \A i \in Edits(batch[h]) :
         LET c == batch[h][i]
             row == loaded[h][c.id]
         IN  /\ row.version = c.base
             /\ i \in done[h] =>
                  writes[h][c.id] = IF c.delete \/ Changed(row, c)
                                    THEN After(row, c) ELSE Clean
    /\ \A i \in Creates(batch[h]) \cap done[h] : \E f \in FileId :
         loaded[h][f] = Absent /\ writes[h][f] = Created(batch[h][i])
    /\ \A f \in FileId : loaded[h][f] = Absent /\ writes[h][f] # Clean =>
         \E i \in Creates(batch[h]) \cap done[h] : writes[h][f] = Created(batch[h][i])

(* The invariant behind the refinement below. *)
StoreInv ==
    /\ IInv
    /\ PathsApart
    /\ \A h \in Handler : pc[h] = "write" => CarriedOut(h)

-----------------------------------------------------------------------------
(* The handlers, the rows they wrote one by one and the transactions that  *)
(* may still fail implement requests that take effect in one step.         *)
PhaseAt(point) ==
    CASE point = "idle" -> "idle"
      [] point \in {"enforce", "load"} -> "asked"
      [] point = "write" -> "checked"
      [] point = "audit" -> "applied"

Phase == [h \in Handler |-> PhaseAt(pc[h])]

(* The updates that the rows, as they were loaded, make idle.              *)
Settled ==
    [h \in Handler |->
        {i \in Edits(batch[h]) :
            /\ pc[h] = "write"
            /\ ~batch[h][i].delete
            /\ ~Changed(loaded[h][batch[h][i].id], batch[h][i])}]

Store == INSTANCE FileStore WITH asked <- batch, settled <- Settled, phase <- Phase

ImplementsFileStore == Store!Spec
=============================================================================
