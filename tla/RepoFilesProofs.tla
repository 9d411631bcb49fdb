--------------------------- MODULE RepoFilesProofs ---------------------------
(***************************************************************************)
(* Proofs about RepoFiles for any number of handlers, files, paths and     *)
(* contents, any requests and any plan limit: its types, its invariant     *)
(* IInv, and with that what the backend promises about histories, versions *)
(* and lost updates.                                                       *)
(***************************************************************************)
EXTENDS RepoFiles, TLAPS

-----------------------------------------------------------------------------
(* Lemmas about the operators of RepoBatch. *)

(* Every change of a batch a client may send is a Change. *)
LEMMA BatchElement ==
    ASSUME NEW b \in Batch \cup {<< >>}, NEW i \in DOMAIN b
    PROVE  b[i] \in Change /\ i \in Nat
  BY BatchAssumption

(* A row and its snapshot have the same type. *)
LEMMA SnapshotType ==
    ASSUME NEW f \in FileId, NEW row \in Row
    PROVE  SnapshotOf(f, row) \in Snapshot
  BY DEF SnapshotOf, Snapshot, Row

(* Null values are no rows. *)
LEMMA Nulls ==
    /\ \A row \in Row : row # Absent /\ row # Clean
    /\ Absent # Clean
  BY NullAssumption

-----------------------------------------------------------------------------
LEMMA InitType == Init => TypeOK
  <1> SUFFICES ASSUME Init PROVE TypeOK
    OBVIOUS
  <1>1. versions \subseteq Snapshot
    BY SeedAssumption, SnapshotType DEF Init, FirstSnapshots
  <1> QED
    BY <1>1, SeedAssumption, LimitAssumption, NullAssumption
       DEF Init, TypeOK, Nothing, NoWrites

(* Whatever ends a request leaves its handler's variables well typed. *)
LEMMA AnswerType ==
    ASSUME TypeOK, NEW h \in Handler,
           NEW r \in {"ok", "conflict", "planLimit", "error"},
           Answer(h, r)
    PROVE  /\ pc' \in [Handler -> {"idle", "enforce", "load", "write", "audit"}]
           /\ batch' \in [Handler -> Batch \cup {<< >>}]
           /\ done' \in [Handler -> SUBSET Nat]
           /\ loaded' \in [Handler -> [FileId -> Row \cup {Absent}]]
           /\ writes' \in [Handler -> [FileId -> Row \cup {Absent, Clean}]]
           /\ snaps' \in [Handler -> SUBSET Snapshot]
           /\ entries' \in [Handler -> SUBSET AuditEntry]
           /\ reply' \in [Handler -> {"none", "ok", "badRequest", "conflict",
                                      "planLimit", "error"}]
  BY DEF TypeOK, Answer, Nothing, NoWrites

(* A statement keeps the variables it writes well typed. *)
LEMMA WriteType ==
    ASSUME TypeOK, NEW h \in Handler, NEW i \in Nat, NEW f \in FileId,
           NEW row \in Row \cup {Absent}, NEW e \in AuditEntry,
           Write(h, i, f, row, e), issued' \in SUBSET FileId
    PROVE  TypeOK'
  <1>1. row # Absent => SnapshotOf(f, row) \in Snapshot
    BY SnapshotType
  <1>2. snaps' \in [Handler -> SUBSET Snapshot]
    BY <1>1 DEF TypeOK, Write
  <1>3. writes' \in [Handler -> [FileId -> Row \cup {Absent, Clean}]]
    BY DEF TypeOK, Write
  <1>4. entries' \in [Handler -> SUBSET AuditEntry]
    BY DEF TypeOK, Write
  <1>5. done' \in [Handler -> SUBSET Nat]
    BY DEF TypeOK, Write
  <1> QED
    BY <1>2, <1>3, <1>4, <1>5 DEF TypeOK, Write

-----------------------------------------------------------------------------
(* Types and stages together: what a row is typed by depends on the rows a *)
(* handler holds at each stage.                                            *)
TypeInv == TypeOK /\ \A h \in Handler : Stage(h)

(* A change of a valid batch that edits a file names a file that was loaded. *)
LEMMA EditFacts ==
    ASSUME TypeInv, NEW h \in Handler, pc[h] = "write",
           NEW i \in Edits(batch[h])
    PROVE  /\ i \in Nat /\ i \in DOMAIN batch[h]
           /\ batch[h][i] \in Change
           /\ ValidChange(batch[h][i])
           /\ batch[h][i].id \in FileId
           /\ batch[h][i].id \in Touched(batch[h])
           /\ loaded[h][batch[h][i].id] \in Row
  <1>1. i \in DOMAIN batch[h] /\ batch[h][i].id # Unset
    BY DEF Edits
  <1>2. batch[h] \in Batch \cup {<< >>}
    BY DEF TypeInv, TypeOK
  <1>3. batch[h][i] \in Change /\ i \in Nat
    BY <1>1, <1>2, BatchElement
  <1>4. batch[h][i].id \in FileId
    BY <1>1, <1>3 DEF Change
  <1>5. batch[h][i].id \in Touched(batch[h])
    BY DEF Touched
  <1>6. Stage(h) /\ loaded[h][batch[h][i].id] \in Row \cup {Absent}
    BY <1>4 DEF TypeInv, TypeOK
  <1>7. ValidChange(batch[h][i])
    BY <1>1, <1>6 DEF Stage, Valid
  <1> QED
    BY <1>1, <1>3, <1>4, <1>5, <1>6, <1>7 DEF Stage

(* A change that creates a file has a path and content. *)
LEMMA CreateFacts ==
    ASSUME TypeInv, NEW h \in Handler, pc[h] = "write",
           NEW i \in Creates(batch[h])
    PROVE  /\ i \in Nat /\ i \in DOMAIN batch[h]
           /\ batch[h][i] \in Change
           /\ ~batch[h][i].delete
           /\ batch[h][i].path \in Path
           /\ Created(batch[h][i]) \in Row
  <1>1. i \in DOMAIN batch[h] /\ batch[h][i].id = Unset
    BY DEF Creates
  <1>2. batch[h] \in Batch \cup {<< >>}
    BY DEF TypeInv, TypeOK
  <1>3. batch[h][i] \in Change /\ i \in Nat
    BY <1>1, <1>2, BatchElement
  <1>4. ValidChange(batch[h][i])
    BY <1>1 DEF TypeInv, Stage, Valid
  <1>5. batch[h][i].path \in Path /\ batch[h][i].content \in Hash
    BY <1>1, <1>3, <1>4 DEF ValidChange, Change
  <1> QED
    BY <1>1, <1>3, <1>4, <1>5 DEF ValidChange, Created, Row, Version

(* A guarded update of a row makes a row. *)
LEMMA MergedType ==
    ASSUME NEW row \in Row, NEW seen \in Row, NEW c \in Change
    PROVE  /\ Merged(row, seen, c) \in Row
           /\ Merged(row, seen, c).version = seen.version + 1
  BY DEF Merged, Row, Change, Retitled, Rewritten, Version

LEMMA FreshId ==
    ASSUME issued \in SUBSET FileId, FileId # issued
    PROVE  LET f == CHOOSE g \in FileId : g \notin issued
           IN  f \in FileId /\ f \notin issued
  OBVIOUS

(* A statement's own bookkeeping keeps the stage. *)
LEMMA WriteStage ==
    ASSUME TypeInv, NEW h \in Handler, pc[h] = "write",
           NEW i \in DOMAIN batch[h],
           done' = [done EXCEPT ![h] = @ \cup {i}],
           UNCHANGED <<pc, batch, loaded>>,
           \A g \in Handler \ {h} : writes'[g] = writes[g] /\ snaps'[g] = snaps[g]
    PROVE  \A g \in Handler : Stage(g)'
  <1> SUFFICES ASSUME NEW g \in Handler PROVE Stage(g)'
    OBVIOUS
  <1>1. Stage(g)
    BY DEF TypeInv
  <1>2. CASE g = h
    BY <1>1, <1>2 DEF Stage, TypeInv, TypeOK
  <1>3. CASE g # h
    BY <1>1, <1>3 DEF Stage, TypeInv, TypeOK
  <1> QED
    BY <1>2, <1>3

LEMMA AnswerStage ==
    ASSUME TypeInv, NEW h \in Handler, NEW r, Answer(h, r)
    PROVE  \A g \in Handler : Stage(g)'
  <1> SUFFICES ASSUME NEW g \in Handler PROVE Stage(g)'
    OBVIOUS
  <1>1. Stage(g)
    BY DEF TypeInv
  <1>2. CASE g = h
    BY <1>2 DEF Stage, Answer, TypeInv, TypeOK
  <1>3. CASE g # h
    BY <1>1, <1>3 DEF Stage, Answer, TypeInv, TypeOK
  <1> QED
    BY <1>2, <1>3

LEMMA TypeInvStep == TypeInv /\ [Next]_vars => TypeInv'
  <1> SUFFICES ASSUME TypeInv, [Next]_vars PROVE TypeInv'
    OBVIOUS
  <1> USE DEF TypeInv
  <1>1. ASSUME NEW h \in Handler, ApplyChanges(h) PROVE TypeInv'
    <2>1. TypeOK'
      <3>1. PICK b \in Batch :
              /\ pc' \in {pc, [pc EXCEPT ![h] = "enforce"],
                         [pc EXCEPT ![h] = "load"]}
              /\ batch' \in {batch, [batch EXCEPT ![h] = b]}
              /\ reply' \in {[reply EXCEPT ![h] = "badRequest"],
                            [reply EXCEPT ![h] = "none"]}
        BY <1>1 DEF ApplyChanges
      <3>2. pc' \in [Handler -> {"idle", "enforce", "load", "write", "audit"}]
        BY <3>1 DEF TypeOK
      <3>3. batch' \in [Handler -> Batch \cup {<< >>}]
        BY <3>1 DEF TypeOK
      <3>4. reply' \in [Handler -> {"none", "ok", "badRequest", "conflict",
                                   "planLimit", "error"}]
        BY <3>1 DEF TypeOK
      <3>5. submitted' \in 0..MaxRequests
        BY <1>1, LimitAssumption DEF TypeOK, ApplyChanges
      <3> QED
        BY <1>1, <3>2, <3>3, <3>4, <3>5 DEF TypeOK, ApplyChanges, database
    <2>2. ASSUME NEW g \in Handler PROVE Stage(g)'
      <3>1. CASE g = h
        BY <1>1, <3>1 DEF ApplyChanges, Stage, TypeOK, database
      <3>2. CASE g # h
        BY <1>1, <3>2 DEF ApplyChanges, Stage, TypeOK, database
      <3> QED
        BY <3>1, <3>2
    <2> QED
      BY <2>1, <2>2
  <1>2. ASSUME NEW h \in Handler, Enforce(h) PROVE TypeInv'
    <2>1. CASE Answer(h, "planLimit")
      BY <1>2, <2>1, AnswerType, AnswerStage DEF TypeOK, Enforce, database
    <2>2. CASE /\ pc' = [pc EXCEPT ![h] = "load"]
               /\ UNCHANGED <<batch, done, loaded, writes, snaps, entries, reply>>
      BY <1>2, <2>2 DEF TypeOK, Stage, Enforce, database
    <2> QED
      BY <1>2, <2>1, <2>2 DEF Enforce
  <1>3. ASSUME NEW h \in Handler, LoadCurrent(h) PROVE TypeInv'
    <2>1. CASE Answer(h, "conflict")
      BY <1>3, <2>1, AnswerType, AnswerStage DEF TypeOK, LoadCurrent, database
    <2>2. CASE ~Answer(h, "conflict")
      <3> DEFINE rows == [f \in FileId |->
                            IF f \in Touched(batch[h]) THEN files[f] ELSE Absent]
      <3>1. rows \in [FileId -> Row \cup {Absent}]
        BY DEF TypeOK
      <3>2. TypeOK'
        BY <1>3, <2>2, <3>1 DEF TypeOK, LoadCurrent, database
      <3>3. \A f \in FileId : rows[f] # Absent <=> f \in Touched(batch[h])
        BY <1>3, <2>2 DEF LoadCurrent, Current, Touched
      <3>4. ASSUME NEW g \in Handler PROVE Stage(g)'
        <4>1. CASE g = h
          BY <1>3, <2>2, <3>3, <4>1 DEF LoadCurrent, Stage, TypeOK
        <4>2. CASE g # h
          BY <1>3, <2>2, <4>2 DEF LoadCurrent, Stage, TypeOK
        <4> QED
          BY <4>1, <4>2
      <3> QED
        BY <3>2, <3>4
    <2> QED
      BY <2>1, <2>2
  <1>4. ASSUME NEW h \in Handler, DeleteFile(h) PROVE TypeInv'
    <2>1. PICK i \in DOMAIN batch[h] :
            /\ Turn(h, i)
            /\ batch[h][i].delete
            /\ VersionGuard(h, batch[h][i].id)
            /\ Write(h, i, batch[h][i].id, Absent,
                     Entry("DELETE", batch[h][i].id, loaded[h][batch[h][i].id].path))
            /\ UNCHANGED issued
      BY <1>4 DEF DeleteFile
    <2>2. pc[h] = "write"
      BY <2>1 DEF Turn
    <2>3. i \in Edits(batch[h])
      BY <2>1, <2>2 DEF Edits, Stage, Valid, ValidChange
    <2>4. /\ i \in Nat
          /\ batch[h][i].id \in FileId
          /\ loaded[h][batch[h][i].id] \in Row
      BY <2>2, <2>3, EditFacts
    <2>5. Entry("DELETE", batch[h][i].id, loaded[h][batch[h][i].id].path)
            \in AuditEntry
      BY <2>4 DEF Entry, AuditEntry, Row
    <2>6. TypeOK'
      BY <2>1, <2>4, <2>5, WriteType DEF TypeOK
    <2>7. \A g \in Handler : Stage(g)'
      BY <2>1, <2>2, WriteStage DEF Write, TypeOK
    <2> QED
      BY <2>6, <2>7
  <1>5. ASSUME NEW h \in Handler, SkipUpdate(h) PROVE TypeInv'
    <2>1. PICK i \in Edits(batch[h]) :
            /\ Turn(h, i)
            /\ done' = [done EXCEPT ![h] = @ \cup {i}]
            /\ entries' = [entries EXCEPT ![h] =
                  @ \cup {Entry("UPDATE", batch[h][i].id,
                                loaded[h][batch[h][i].id].path)}]
            /\ UNCHANGED <<database, pc, batch, loaded, writes, snaps, reply,
                           submitted>>
      BY <1>5 DEF SkipUpdate
    <2>2. pc[h] = "write"
      BY <2>1 DEF Turn
    <2>3. /\ i \in Nat /\ i \in DOMAIN batch[h]
          /\ batch[h][i].id \in FileId
          /\ loaded[h][batch[h][i].id] \in Row
      BY <2>1, <2>2, EditFacts
    <2>4. Entry("UPDATE", batch[h][i].id, loaded[h][batch[h][i].id].path)
            \in AuditEntry
      BY <2>3 DEF Entry, AuditEntry, Row
    <2>5. TypeOK'
      BY <2>1, <2>3, <2>4 DEF TypeOK, database
    <2>6. \A g \in Handler : Stage(g)'
      BY <2>1, <2>2, <2>3, WriteStage
    <2> QED
      BY <2>5, <2>6
  <1>6. ASSUME NEW h \in Handler, UpdateFile(h) PROVE TypeInv'
    <2> DEFINE upd(i) == Merged(files[batch[h][i].id], loaded[h][batch[h][i].id],
                                batch[h][i])
    <2>1. PICK i \in Edits(batch[h]) :
            /\ Turn(h, i)
            /\ VersionGuard(h, batch[h][i].id)
            /\ Write(h, i, batch[h][i].id, upd(i),
                     Entry("UPDATE", batch[h][i].id, upd(i).path))
            /\ UNCHANGED issued
      BY <1>6 DEF UpdateFile
    <2>2. pc[h] = "write"
      BY <2>1 DEF Turn
    <2>3. /\ i \in Nat /\ i \in DOMAIN batch[h]
          /\ batch[h][i] \in Change
          /\ batch[h][i].id \in FileId
          /\ loaded[h][batch[h][i].id] \in Row
      BY <2>1, <2>2, EditFacts
    <2>4. files[batch[h][i].id] \in Row
      BY <2>1, <2>3 DEF VersionGuard, TypeOK
    <2>5. upd(i) \in Row
      BY <2>3, <2>4, MergedType
    <2>6. Entry("UPDATE", batch[h][i].id, upd(i).path) \in AuditEntry
      BY <2>3, <2>5 DEF Entry, AuditEntry, Row
    <2> HIDE DEF upd
    <2>7. TypeOK'
      BY <2>1, <2>3, <2>5, <2>6, WriteType DEF TypeOK
    <2>8. \A g \in Handler : Stage(g)'
      BY <2>1, <2>2, <2>3, WriteStage DEF Write, TypeOK
    <2> QED
      BY <2>7, <2>8
  <1>7. ASSUME NEW h \in Handler, CreateFile(h) PROVE TypeInv'
    <2> DEFINE new == CHOOSE g \in FileId : g \notin issued
    <2>1. PICK i \in Creates(batch[h]) :
            /\ Turn(h, i)
            /\ FileId # issued
            /\ Write(h, i, new, Created(batch[h][i]),
                     Entry("CREATE", new, batch[h][i].path))
            /\ issued' = issued \cup {new}
      BY <1>7 DEF CreateFile
    <2>2. pc[h] = "write"
      BY <2>1 DEF Turn
    <2>3. new \in FileId
      BY <2>1, FreshId DEF TypeOK
    <2>4. /\ i \in Nat /\ i \in DOMAIN batch[h]
          /\ batch[h][i].path \in Path
          /\ Created(batch[h][i]) \in Row
      BY <2>1, <2>2, CreateFacts
    <2> HIDE DEF new
    <2>5. Entry("CREATE", new, batch[h][i].path) \in AuditEntry
      BY <2>3, <2>4 DEF Entry, AuditEntry
    <2>6. issued' \in SUBSET FileId
      BY <2>1, <2>3 DEF TypeOK
    <2>7. TypeOK'
      BY <2>1, <2>3, <2>4, <2>5, <2>6, WriteType DEF TypeOK
    <2>8. \A g \in Handler : Stage(g)'
      BY <2>1, <2>2, <2>4, WriteStage DEF Write, TypeOK
    <2> QED
      BY <2>7, <2>8
  <1>8. ASSUME NEW h \in Handler, LostRace(h) \/ UniqueViolation(h)
        PROVE  TypeInv'
    BY <1>8, AnswerType, AnswerStage
       DEF TypeOK, LostRace, UniqueViolation, database
  <1>9. ASSUME NEW h \in Handler, Commit(h) PROVE TypeInv'
    <2>1. View(h) \in [FileId -> Row \cup {Absent}]
      BY DEF View, TypeOK
    <2>2. TypeOK'
      BY <1>9, <2>1 DEF Commit, TypeOK, Nothing, NoWrites
    <2>3. ASSUME NEW g \in Handler PROVE Stage(g)'
      <3>1. CASE g = h
        BY <1>9, <3>1 DEF Commit, Stage, TypeOK
      <3>2. CASE g # h
        BY <1>9, <3>2 DEF Commit, Stage, TypeOK
      <3> QED
        BY <3>1, <3>2
    <2> QED
      BY <2>2, <2>3
  <1>10. ASSUME NEW h \in Handler, LogMany(h) PROVE TypeInv'
    <2>1. audit' \subseteq AuditEntry
      BY <1>10 DEF LogMany, TypeOK
    <2> QED
      BY <1>10, <2>1, AnswerType, AnswerStage DEF TypeOK, LogMany
  <1>11. ASSUME NEW h \in Handler, Fail(h) PROVE TypeInv'
    BY <1>11, AnswerType, AnswerStage DEF TypeOK, Fail, database
  <1>12. CASE UNCHANGED vars
    BY <1>12 DEF vars, TypeOK, Stage
  <1> QED
    BY <1>1, <1>2, <1>3, <1>4, <1>5, <1>6, <1>7, <1>8, <1>9, <1>10, <1>11,
       <1>12 DEF Next, Handle

LEMMA InitStage == Init => TypeInv
  BY InitType DEF TypeInv, Init, Stage

(* Every variable of every handler and of the database has its type in      *)
(* every reachable state, and every handler holds what its stage says.     *)
THEOREM TypeCorrect == Spec => [](TypeOK /\ \A h \in Handler : Stage(h))
  <1>1. Init => TypeInv
    BY InitStage
  <1>2. TypeInv /\ [Next]_vars => TypeInv'
    BY TypeInvStep
  <1> QED
    BY <1>1, <1>2, PTL DEF Spec, TypeInv

-----------------------------------------------------------------------------
(* IInv, with the types that its proof needs.                              *)
Inv == TypeInv /\ IInv

(* A step that touches neither the database nor what a transaction has read *)
(* or written.                                                             *)
Quiet == UNCHANGED <<files, versions, issued, loaded, writes, snaps>>

-----------------------------------------------------------------------------
LEMMA InitSafe == Init => Inv
  <1> SUFFICES ASSUME Init PROVE Inv
    OBVIOUS
  <1>1. TypeInv
    BY InitStage
  <1>2. \A f \in FileId : Seed[f] # Absent => Seed[f] \in Row /\ Seed[f].version = 1
    BY SeedAssumption
  <1>3. HistoryComplete
    <2>1. ASSUME NEW s \in versions
          PROVE  /\ s.id \in FileId /\ files[s.id] # Absent
                 /\ s = SnapshotOf(s.id, files[s.id]) /\ s.version = 1
      BY <1>2 DEF Init, FirstSnapshots, SnapshotOf
    <2>2. ASSUME NEW f \in FileId, files[f] # Absent
          PROVE  SnapshotOf(f, files[f]) \in versions /\ files[f].version = 1
      BY <1>2, <2>2 DEF Init, FirstSnapshots
    <2>3. \A f \in FileId : SnapshotOf(f, files[f]).id = f
                            /\ SnapshotOf(f, files[f]).version = files[f].version
      BY DEF SnapshotOf
    <2>4. ASSUME NEW s \in versions
          PROVE  files[s.id] # Absent /\ s.version <= files[s.id].version
      BY <2>1, <2>2
    <2>5. ASSUME NEW f \in FileId, files[f] # Absent,
                 NEW v \in 1..files[f].version
          PROVE  \E s \in versions : s.id = f /\ s.version = v
      BY <2>2, <2>3, <2>5
    <2>6. ASSUME NEW s \in versions, NEW t \in versions, s.id = t.id
          PROVE  s = t
      BY <2>1, <2>6
    <2> QED
      BY <2>2, <2>4, <2>5, <2>6 DEF HistoryComplete
  <1>4. \A h \in Handler :
          /\ PendingWrites(h) /\ PendingSnapshots(h) /\ NotYetWritten(h)
    BY DEF Init, PendingWrites, PendingSnapshots, NotYetWritten, NoWrites, Edits
  <1>5. RowsExclusive /\ SeenIssued /\ LoadedNotAhead /\ VersionNamesRow
    BY DEF Init, RowsExclusive, SeenIssued, LoadedNotAhead, VersionNamesRow,
           NoWrites, Nothing
  <1> QED
    BY <1>1, <1>3, <1>4, <1>5 DEF Inv, TypeInv, IInv

-----------------------------------------------------------------------------
(* What a quiet step leaves true.  NotYetWritten speaks of the batch too.  *)
LEMMA QuietSafe ==
    ASSUME Inv, Quiet
    PROVE  /\ \A h \in Handler : PendingWrites(h)' /\ PendingSnapshots(h)'
           /\ RowsExclusive' /\ SeenIssued' /\ LoadedNotAhead'
           /\ VersionNamesRow' /\ HistoryComplete'
  BY DEF Inv, IInv, Quiet, PendingWrites, PendingSnapshots, RowsExclusive,
         SeenIssued, LoadedNotAhead, VersionNamesRow, HistoryComplete

(* Giving up a transaction disturbs nobody else's.                         *)
LEMMA AnswerSafe ==
    ASSUME Inv, NEW h \in Handler, NEW r, Answer(h, r),
           UNCHANGED <<files, versions, issued>>
    PROVE  IInv'
  <1>1. \A g \in Handler : Stage(g)'
    BY AnswerStage DEF Inv
  <1>2. /\ \A g \in Handler \ {h} :
             /\ loaded'[g] = loaded[g] /\ writes'[g] = writes[g]
             /\ snaps'[g] = snaps[g] /\ batch'[g] = batch[g]
             /\ done'[g] = done[g]
        /\ loaded'[h] = Nothing /\ writes'[h] = NoWrites /\ snaps'[h] = {}
        /\ batch'[h] = << >>
    BY DEF Answer, Inv, TypeInv, TypeOK
  <1>3. \A f \in FileId : Nothing[f] = Absent /\ NoWrites[f] = Clean
    BY DEF Nothing, NoWrites
  <1>4. ASSUME NEW g \in Handler PROVE PendingWrites(g)'
    <2>1. CASE g = h
      BY <1>2, <1>3, <2>1 DEF PendingWrites
    <2>2. CASE g # h
      <3>1. PendingWrites(g)
        BY DEF Inv, IInv
      <3> QED
        BY <1>2, <1>3, <2>2, <3>1 DEF PendingWrites
    <2> QED
      BY <2>1, <2>2
  <1>5. ASSUME NEW g \in Handler PROVE PendingSnapshots(g)'
    <2>1. CASE g = h
      BY <1>2, <1>3, <2>1 DEF PendingSnapshots
    <2>2. CASE g # h
      BY <1>2, <2>2 DEF PendingSnapshots, Inv, IInv
    <2> QED
      BY <2>1, <2>2
  <1>6. ASSUME NEW g \in Handler PROVE NotYetWritten(g)'
    <2>1. CASE g = h
      BY <1>2, <2>1 DEF NotYetWritten, Edits
    <2>2. CASE g # h
      BY <1>2, <2>2 DEF NotYetWritten, Inv, IInv
    <2> QED
      BY <2>1, <2>2
  <1>7. RowsExclusive'
    BY <1>2, <1>3 DEF RowsExclusive, Inv, IInv
  <1>8. SeenIssued' /\ LoadedNotAhead' /\ VersionNamesRow'
    BY <1>2, <1>3
       DEF SeenIssued, LoadedNotAhead, VersionNamesRow, Inv, IInv
  <1>9. HistoryComplete'
    BY DEF HistoryComplete, Inv, IInv
  <1> QED
    BY <1>1, <1>4, <1>5, <1>6, <1>7, <1>8, <1>9 DEF IInv

(* Reading the committed rows is reading nothing that is ahead of them.     *)
LEMMA LoadSafe ==
    ASSUME Inv, NEW h \in Handler, LoadCurrent(h), ~Answer(h, "conflict"),
           \A g \in Handler : Stage(g)'
    PROVE  IInv'
  <1> DEFINE rows == [f \in FileId |->
                        IF f \in Touched(batch[h]) THEN files[f] ELSE Absent]
  <1>1. /\ pc[h] = "load"
        /\ loaded' = [loaded EXCEPT ![h] = rows]
        /\ UNCHANGED <<files, versions, issued, batch, done, writes, snaps>>
    BY DEF LoadCurrent, database
  <1>2. /\ loaded'[h] = rows
        /\ \A g \in Handler \ {h} : loaded'[g] = loaded[g]
    BY <1>1 DEF Inv, TypeInv, TypeOK
  <1>3. \A f \in FileId : rows[f] # Absent => rows[f] = files[f]
    OBVIOUS
  <1>4. writes[h] = NoWrites /\ snaps[h] = {}
    BY <1>1 DEF Inv, TypeInv, Stage
  <1>5. \A f \in FileId : NoWrites[f] = Clean
    BY DEF NoWrites
  <1> HIDE DEF rows
  <1>6. ASSUME NEW g \in Handler PROVE PendingWrites(g)'
    <2>1. PendingWrites(g)
      BY DEF Inv, IInv
    <2>2. CASE g = h
      BY <1>1, <1>4, <1>5, <2>2 DEF PendingWrites
    <2>3. CASE g # h
      <3> SUFFICES ASSUME NEW f \in FileId, writes[g][f] # Clean
                   PROVE  PendingWrites(g)!(f)'
        BY <1>1 DEF PendingWrites
      <3>1. loaded'[g][f] = loaded[g][f] /\ files'[f] = files[f]
        BY <1>1, <1>2, <2>3
      <3>2. CASE loaded[g][f] # Absent
        BY <1>1, <2>1, <3>1, <3>2 DEF PendingWrites
      <3>3. CASE loaded[g][f] = Absent
        <4>1. /\ files[f] = Absent
              /\ \A k \in Handler : loaded[k][f] = Absent
          BY <2>1, <3>3 DEF PendingWrites
        <4>2. \A k \in Handler : loaded'[k][f] = Absent
          BY <1>2, <1>3, <4>1
        <4> QED
          BY <1>1, <2>1, <3>1, <4>1, <4>2 DEF PendingWrites
      <3> QED
        BY <3>2, <3>3
    <2> QED
      BY <2>2, <2>3
  <1>7. \A g \in Handler : PendingSnapshots(g)' /\ NotYetWritten(g)'
    BY <1>1 DEF PendingSnapshots, NotYetWritten, Inv, IInv
  <1>8. RowsExclusive' /\ HistoryComplete'
    BY <1>1 DEF RowsExclusive, HistoryComplete, Inv, IInv
  <1>9. SeenIssued'
    BY <1>1, <1>2, <1>3 DEF SeenIssued, Inv, IInv
  <1>10. LoadedNotAhead' /\ VersionNamesRow'
    <2> SUFFICES ASSUME NEW g \in Handler, NEW f \in FileId,
                        loaded'[g][f] # Absent, files'[f] # Absent
                 PROVE  /\ loaded'[g][f].version <= files'[f].version
                        /\ loaded'[g][f].version = files'[f].version
                             => loaded'[g][f] = files'[f]
      BY DEF LoadedNotAhead, VersionNamesRow
    <2>1. CASE g = h
      <3>1. files[f] \in Row /\ loaded'[g][f] = files[f] /\ files'[f] = files[f]
        BY <1>1, <1>2, <1>3, <2>1 DEF Inv, TypeInv, TypeOK
      <3> QED
        BY <3>1 DEF Row, Version
    <2>2. CASE g # h
      BY <1>1, <1>2, <2>2 DEF LoadedNotAhead, VersionNamesRow, Inv, IInv
    <2> QED
      BY <2>1, <2>2
  <1> QED
    BY <1>6, <1>7, <1>8, <1>9, <1>10 DEF IInv

-----------------------------------------------------------------------------
(* A statement that writes a row nobody else has written.                  *)
LEMMA WriteSafe ==
    ASSUME Inv, NEW h \in Handler, NEW i \in DOMAIN batch[h],
           NEW f \in FileId, NEW row \in Row \cup {Absent}, NEW e,
           pc[h] = "write",
           Write(h, i, f, row, e),
           issued \subseteq issued',
           \A g \in Handler : Stage(g)',
           \A g \in Handler : writes[g][f] = Clean,
           \A j \in Edits(batch[h]) \ {i} :
               j \notin done[h] => batch[h][j].id # f,
           \/ /\ loaded[h][f] # Absent
              /\ files[f] = loaded[h][f]
              /\ row # Absent => row.version = loaded[h][f].version + 1
           \/ /\ files[f] = Absent
              /\ row # Absent
              /\ row.version = 1
              /\ f \in issued'
              /\ \A g \in Handler : loaded[g][f] = Absent
    PROVE  IInv'
  <1>1. /\ \A g \in Handler, k \in FileId :
             writes'[g][k] = IF g = h /\ k = f THEN row ELSE writes[g][k]
        /\ \A g \in Handler \ {h} :
             /\ snaps'[g] = snaps[g] /\ done'[g] = done[g]
             /\ writes'[g] = writes[g]
        /\ snaps'[h] = IF row = Absent THEN snaps[h]
                       ELSE snaps[h] \cup {SnapshotOf(f, row)}
        /\ done'[h] = done[h] \cup {i}
        /\ UNCHANGED <<files, versions, loaded, batch>>
    BY DEF Write, Inv, TypeInv, TypeOK
  <1>2. row # Clean
    BY Nulls
  <1>3. ASSUME NEW g \in Handler PROVE PendingWrites(g)'
    <2> SUFFICES ASSUME NEW k \in FileId, writes'[g][k] # Clean
                 PROVE  PendingWrites(g)!(k)'
      BY DEF PendingWrites
    <2>1. PendingWrites(g)
      BY DEF Inv, IInv
    <2>2. CASE g = h /\ k = f
      BY <1>1, <2>2
    <2>3. CASE ~(g = h /\ k = f)
      BY <1>1, <2>1, <2>3 DEF PendingWrites
    <2> QED
      BY <2>2, <2>3
  <1>4. ASSUME NEW g \in Handler PROVE PendingSnapshots(g)'
    <2>1. PendingSnapshots(g)
      BY DEF Inv, IInv
    <2>2. CASE g = h
      <3> DEFINE written  == {k \in FileId : writes[h][k] \notin {Clean, Absent}}
                 written1 == {k \in FileId : writes'[h][k] \notin {Clean, Absent}}
      <3>1. f \notin written
        OBVIOUS
      <3>2. CASE row = Absent
        <4>1. written1 = written /\ \A k \in written : writes'[h][k] = writes[h][k]
          BY <1>1, <3>1, <3>2
        <4> QED
          BY <1>1, <2>1, <2>2, <3>2, <4>1 DEF PendingSnapshots
      <3>3. CASE row # Absent
        <4>1. /\ written1 = written \cup {f}
              /\ writes'[h][f] = row
              /\ \A k \in written : writes'[h][k] = writes[h][k]
          BY <1>1, <1>2, <3>1, <3>3
        <4>2. snaps'[h] = {SnapshotOf(k, writes[h][k]) : k \in written}
                             \cup {SnapshotOf(f, row)}
          BY <1>1, <2>1, <2>2, <3>3 DEF PendingSnapshots
        <4>3. snaps'[h] = {SnapshotOf(k, writes'[h][k]) : k \in written1}
          BY <4>1, <4>2
        <4> QED
          BY <2>2, <4>3 DEF PendingSnapshots
      <3> QED
        BY <3>2, <3>3
    <2>3. CASE g # h
      BY <1>1, <2>1, <2>3 DEF PendingSnapshots
    <2> QED
      BY <2>2, <2>3
  <1>5. ASSUME NEW g \in Handler PROVE NotYetWritten(g)'
    <2>1. NotYetWritten(g)
      BY DEF Inv, IInv
    <2>2. CASE g = h
      <3> SUFFICES ASSUME NEW j \in Edits(batch[h]) \ (done[h] \cup {i})
                   PROVE  writes'[h][batch[h][j].id] = Clean
        BY <1>1, <2>2 DEF NotYetWritten
      <3>1. batch[h][j].id \in FileId
        BY EditFacts DEF Inv
      <3> QED
        BY <1>1, <2>1, <2>2, <3>1 DEF NotYetWritten
    <2>3. CASE g # h
      BY <1>1, <2>1, <2>3 DEF NotYetWritten
    <2> QED
      BY <2>2, <2>3
  <1>6. RowsExclusive'
    BY <1>1 DEF RowsExclusive, Inv, IInv
  <1>7. SeenIssued' /\ LoadedNotAhead' /\ VersionNamesRow'
    BY <1>1 DEF SeenIssued, LoadedNotAhead, VersionNamesRow, Inv, IInv
  <1>8. HistoryComplete'
    BY <1>1 DEF HistoryComplete, Inv, IInv
  <1> QED
    BY <1>3, <1>4, <1>5, <1>6, <1>7, <1>8 DEF IInv

(* An edit whose turn it is and whose guard holds finds the committed row   *)
(* to be the one that was loaded, and nobody holding it.                   *)
LEMMA TurnFacts ==
    ASSUME Inv, NEW h \in Handler, NEW i \in Edits(batch[h]), Turn(h, i),
           ~RowLocked(h, batch[h][i].id), VersionGuard(h, batch[h][i].id)
    PROVE  /\ pc[h] = "write" /\ i \in DOMAIN batch[h]
           /\ batch[h][i].id \in FileId
           /\ loaded[h][batch[h][i].id] \in Row
           /\ files[batch[h][i].id] = loaded[h][batch[h][i].id]
           /\ \A g \in Handler : writes[g][batch[h][i].id] = Clean
           /\ \A j \in Edits(batch[h]) \ {i} :
                j \notin done[h] => batch[h][j].id # batch[h][i].id
  <1> DEFINE f == batch[h][i].id
  <1>1. pc[h] = "write" /\ i \in DOMAIN batch[h] \ done[h]
    BY DEF Turn
  <1>2. f \in FileId /\ loaded[h][f] \in Row /\ i \in DOMAIN batch[h]
    BY <1>1, EditFacts DEF Inv
  <1>3. loaded[h][f] # Absent
    BY <1>2, Nulls
  <1>4. files[f] = loaded[h][f]
    BY <1>2, <1>3 DEF VersionGuard, VersionNamesRow, Inv, IInv
  <1>5. ASSUME NEW g \in Handler PROVE writes[g][f] = Clean
    <2>1. CASE g = h
      BY <1>1, <2>1 DEF NotYetWritten, Inv, IInv
    <2>2. CASE g # h
      BY <2>2 DEF RowLocked, Holds
    <2> QED
      BY <2>1, <2>2
  <1>6. NoDuplicates(batch[h])
    BY <1>1 DEF Inv, TypeInv, Stage, Valid
  <1>7. ASSUME NEW j \in Edits(batch[h]) \ {i} PROVE batch[h][j].id # f
    BY <1>2, <1>6 DEF NoDuplicates, Edits
  <1> QED
    BY <1>1, <1>2, <1>4, <1>5, <1>7

LEMMA DeleteSafe ==
    ASSUME Inv, NEW h \in Handler, DeleteFile(h), \A g \in Handler : Stage(g)'
    PROVE  IInv'
  <1>1. PICK i \in DOMAIN batch[h] :
          /\ Turn(h, i)
          /\ batch[h][i].delete
          /\ ~RowLocked(h, batch[h][i].id)
          /\ VersionGuard(h, batch[h][i].id)
          /\ Write(h, i, batch[h][i].id, Absent,
                   Entry("DELETE", batch[h][i].id, loaded[h][batch[h][i].id].path))
          /\ UNCHANGED issued
    BY DEF DeleteFile
  <1>2. i \in Edits(batch[h])
    BY <1>1 DEF Turn, Inv, TypeInv, Stage, Valid, ValidChange, Edits
  <1>3. loaded[h][batch[h][i].id] # Absent
    BY <1>1, <1>2, TurnFacts, Nulls
  <1> QED
    BY <1>1, <1>2, <1>3, TurnFacts, WriteSafe

LEMMA UpdateSafe ==
    ASSUME Inv, NEW h \in Handler, UpdateFile(h), \A g \in Handler : Stage(g)'
    PROVE  IInv'
  <1> DEFINE new(i) == Merged(files[batch[h][i].id], loaded[h][batch[h][i].id],
                              batch[h][i])
  <1>1. PICK i \in Edits(batch[h]) :
          /\ Turn(h, i)
          /\ ~RowLocked(h, batch[h][i].id)
          /\ VersionGuard(h, batch[h][i].id)
          /\ Write(h, i, batch[h][i].id, new(i),
                   Entry("UPDATE", batch[h][i].id, new(i).path))
          /\ UNCHANGED issued
    BY DEF UpdateFile
  <1>2. /\ pc[h] = "write" /\ i \in DOMAIN batch[h]
        /\ batch[h][i].id \in FileId
        /\ loaded[h][batch[h][i].id] \in Row
        /\ files[batch[h][i].id] = loaded[h][batch[h][i].id]
        /\ \A g \in Handler : writes[g][batch[h][i].id] = Clean
        /\ \A j \in Edits(batch[h]) \ {i} :
             j \notin done[h] => batch[h][j].id # batch[h][i].id
    BY <1>1, TurnFacts
  <1>3. batch[h][i] \in Change
    BY <1>2, EditFacts DEF Inv
  <1>4. /\ new(i) \in Row
        /\ new(i).version = loaded[h][batch[h][i].id].version + 1
    BY <1>2, <1>3, MergedType
  <1>5. loaded[h][batch[h][i].id] # Absent
    BY <1>2, Nulls
  <1> HIDE DEF new
  <1> QED
    BY <1>1, <1>2, <1>4, <1>5, WriteSafe

LEMMA CreateSafe ==
    ASSUME Inv, NEW h \in Handler, CreateFile(h), \A g \in Handler : Stage(g)'
    PROVE  IInv'
  <1> DEFINE new == CHOOSE g \in FileId : g \notin issued
  <1>1. PICK i \in Creates(batch[h]) :
          /\ Turn(h, i)
          /\ FileId # issued
          /\ Write(h, i, new, Created(batch[h][i]),
                   Entry("CREATE", new, batch[h][i].path))
          /\ issued' = issued \cup {new}
    BY DEF CreateFile
  <1>2. new \in FileId /\ new \notin issued
    BY <1>1, FreshId DEF Inv, TypeInv, TypeOK
  <1>3. /\ pc[h] = "write" /\ i \in DOMAIN batch[h]
        /\ Created(batch[h][i]) \in Row /\ Created(batch[h][i]).version = 1
    BY <1>1, CreateFacts DEF Turn, Inv, Created
  <1> HIDE DEF new
  <1>4. files[new] = Absent /\ \A g \in Handler : loaded[g][new] = Absent
    BY <1>2 DEF SeenIssued, Inv, IInv
  <1>5. \A g \in Handler : writes[g][new] = Clean
    BY <1>2, <1>4 DEF PendingWrites, Inv, IInv
  <1>6. ASSUME NEW j \in Edits(batch[h]) PROVE batch[h][j].id # new
    <2>1. loaded[h][batch[h][j].id] # Absent
      BY <1>3, EditFacts, Nulls DEF Inv
    <2> QED
      BY <1>4, <2>1
  <1>7. Created(batch[h][i]) # Absent
    BY <1>3, Nulls
  <1> QED
    BY <1>1, <1>2, <1>3, <1>4, <1>5, <1>6, <1>7, WriteSafe

-----------------------------------------------------------------------------
(* What a commit makes of the history of one file.                         *)
LEMMA CommitHistory ==
    ASSUME Inv, NEW h \in Handler, Commit(h) PROVE HistoryComplete'
  <1> DEFINE written == {f \in FileId : writes[h][f] \notin {Clean, Absent}}
  <1>1. /\ files' = View(h)
        /\ versions' = {s \in versions : files'[s.id] # Absent} \cup snaps[h]
    BY DEF Commit
  <1>2. /\ HistoryComplete /\ PendingWrites(h)
        /\ snaps[h] = {SnapshotOf(f, writes[h][f]) : f \in written}
    BY DEF Inv, IInv, PendingSnapshots
  <1>3. \A f \in FileId :
          files'[f] = IF writes[h][f] = Clean THEN files[f] ELSE writes[h][f]
    BY <1>1 DEF View
  <1>4. /\ \A s \in versions : s.id \in FileId /\ s.version \in Nat
        /\ \A f \in FileId : files[f] # Absent => files[f].version \in Nat
        /\ \A f \in FileId : files'[f] # Absent => files'[f].version \in Nat
    BY <1>3 DEF Inv, TypeInv, TypeOK, Snapshot, Row, Version
  <1>5. \A f, r : /\ SnapshotOf(f, r).id = f
                  /\ SnapshotOf(f, r).version = r.version
    BY DEF SnapshotOf
  <1>6. ASSUME NEW f \in written
        PROVE  /\ files'[f] = writes[h][f] /\ files'[f] # Absent
               /\ SnapshotOf(f, files'[f]) \in snaps[h]
               /\ \/ /\ files[f] # Absent
                     /\ files'[f].version = files[f].version + 1
                  \/ /\ files[f] = Absent
                     /\ files'[f].version = 1
    BY <1>2, <1>3 DEF PendingWrites
  <1>7. ASSUME NEW s \in snaps[h]
        PROVE  s.id \in written /\ s = SnapshotOf(s.id, files'[s.id])
    BY <1>2, <1>3, <1>5
  <1>8. ASSUME NEW f \in FileId \ written, files'[f] # Absent
        PROVE  files'[f] = files[f]
    BY <1>3, <1>8
  <1> HIDE DEF written
  <1>9. ASSUME NEW s \in versions'
        PROVE  /\ s.id \in FileId /\ files'[s.id] # Absent
               /\ s.version <= files'[s.id].version
    <2>1. CASE s \in versions /\ files'[s.id] # Absent
      <3>1. s.id \in FileId /\ files[s.id] # Absent
            /\ s.version <= files[s.id].version
        BY <1>2, <1>4, <2>1 DEF HistoryComplete
      <3>2. files'[s.id].version \in {files[s.id].version, files[s.id].version + 1}
        BY <1>6, <1>8, <2>1, <3>1
      <3> QED
        BY <1>4, <2>1, <3>1, <3>2
    <2>2. CASE s \in snaps[h]
      <3>1. s.id \in FileId /\ files'[s.id] # Absent
        BY <1>6, <1>7, <2>2 DEF written
      <3> QED
        BY <1>4, <1>5, <1>7, <2>2, <3>1
    <2> QED
      BY <1>1, <2>1, <2>2
  <1>10. ASSUME NEW f \in FileId, files'[f] # Absent
         PROVE  /\ SnapshotOf(f, files'[f]) \in versions'
                /\ \A v \in 1..files'[f].version : \E s \in versions' :
                     s.id = f /\ s.version = v
    <2>1. \A s \in versions : s.id = f => s \in versions'
      BY <1>1, <1>10
    <2>2. CASE f \in written
      <3>1. SnapshotOf(f, files'[f]) \in versions'
        BY <1>1, <1>6, <2>2
      <3>2. ASSUME NEW v \in 1..files'[f].version
            PROVE  \E s \in versions' : s.id = f /\ s.version = v
        <4>1. CASE v = files'[f].version
          BY <1>5, <3>1, <4>1
        <4>2. CASE v # files'[f].version
          <5>1. files[f] # Absent /\ v \in 1..files[f].version
            BY <1>4, <1>6, <1>10, <2>2, <4>2
          <5>2. \E s \in versions : s.id = f /\ s.version = v
            BY <1>2, <5>1 DEF HistoryComplete
          <5> QED
            BY <2>1, <5>2
        <4> QED
          BY <4>1, <4>2
      <3> QED
        BY <3>1, <3>2
    <2>3. CASE f \notin written
      <3>1. files'[f] = files[f]
        BY <1>8, <1>10, <2>3
      <3>2. /\ SnapshotOf(f, files[f]) \in versions
            /\ \A v \in 1..files[f].version : \E s \in versions :
                 s.id = f /\ s.version = v
        BY <1>2, <1>10, <3>1 DEF HistoryComplete
      <3> QED
        BY <1>5, <2>1, <3>1, <3>2
    <2> QED
      BY <2>2, <2>3
  <1>11. ASSUME NEW s \in versions', NEW t \in versions',
                s.id = t.id, s.version = t.version
         PROVE  s = t
    <2>1. ASSUME NEW u \in snaps[h], NEW w \in versions, u.id = w.id
          PROVE  u.version # w.version
      <3>1. u.id \in written /\ u.version = files'[u.id].version
        BY <1>5, <1>7, <2>1 DEF written
      <3>2. w.id \in FileId /\ files[w.id] # Absent
            /\ w.version <= files[w.id].version
        BY <1>2, <1>4 DEF HistoryComplete
      <3> QED
        BY <1>4, <1>6, <2>1, <3>1, <3>2
    <2>2. CASE s \in versions /\ t \in versions
      BY <1>2, <1>11, <2>2 DEF HistoryComplete
    <2>3. CASE s \in snaps[h] /\ t \in snaps[h]
      BY <1>7, <1>11, <2>3
    <2> QED
      BY <1>1, <1>11, <2>1, <2>2, <2>3
  <1> QED
    BY <1>9, <1>10, <1>11 DEF HistoryComplete

LEMMA CommitSafe ==
    ASSUME Inv, NEW h \in Handler, Commit(h), \A g \in Handler : Stage(g)'
    PROVE  IInv'
  <1>1. /\ loaded' = [loaded EXCEPT ![h] = Nothing]
        /\ writes' = [writes EXCEPT ![h] = NoWrites]
        /\ snaps' = [snaps EXCEPT ![h] = {}]
        /\ UNCHANGED <<issued, batch, done>>
    BY DEF Commit
  <1>2. \A f \in FileId :
          files'[f] = IF writes[h][f] = Clean THEN files[f] ELSE writes[h][f]
    BY DEF Commit, View
  <1>3. /\ loaded'[h] = Nothing /\ writes'[h] = NoWrites /\ snaps'[h] = {}
        /\ \A g \in Handler \ {h} :
             /\ loaded'[g] = loaded[g] /\ writes'[g] = writes[g]
             /\ snaps'[g] = snaps[g]
    BY <1>1 DEF Inv, TypeInv, TypeOK
  <1>4. \A f \in FileId : Nothing[f] = Absent /\ NoWrites[f] = Clean
    BY DEF Nothing, NoWrites
  <1>5. PendingWrites(h) /\ RowsExclusive /\ SeenIssued /\ LoadedNotAhead
        /\ VersionNamesRow
    BY DEF Inv, IInv
  <1>6. ASSUME NEW g \in Handler PROVE PendingWrites(g)'
    <2>1. PendingWrites(g)
      BY DEF Inv, IInv
    <2>2. CASE g = h
      BY <1>3, <1>4, <2>2 DEF PendingWrites
    <2>3. CASE g # h
      <3> SUFFICES ASSUME NEW f \in FileId, writes[g][f] # Clean
                   PROVE  PendingWrites(g)!(f)'
        BY <1>3, <2>3 DEF PendingWrites
      <3>1. files'[f] = files[f]
        BY <1>2, <1>5, <2>3 DEF RowsExclusive
      <3> QED
        BY <1>1, <1>3, <1>4, <2>1, <2>3, <3>1 DEF PendingWrites
    <2> QED
      BY <2>2, <2>3
  <1>7. ASSUME NEW g \in Handler PROVE PendingSnapshots(g)' /\ NotYetWritten(g)'
    <2>1. CASE g = h
      <3>1. \A i \in Edits(batch[h]) : i \in done[h]
        BY DEF Commit, Edits
      <3> QED
        BY <1>1, <1>3, <1>4, <2>1, <3>1 DEF PendingSnapshots, NotYetWritten
    <2>2. CASE g # h
      BY <1>1, <1>3, <2>2 DEF PendingSnapshots, NotYetWritten, Inv, IInv
    <2> QED
      BY <2>1, <2>2
  <1>8. RowsExclusive'
    BY <1>3, <1>4, <1>5 DEF RowsExclusive
  <1>9. SeenIssued'
    BY <1>1, <1>2, <1>3, <1>4, <1>5 DEF SeenIssued, PendingWrites
  <1>10. LoadedNotAhead' /\ VersionNamesRow'
    <2> SUFFICES ASSUME NEW g \in Handler, NEW f \in FileId,
                        loaded'[g][f] # Absent, files'[f] # Absent
                 PROVE  /\ loaded'[g][f].version <= files'[f].version
                        /\ loaded'[g][f].version = files'[f].version
                             => loaded'[g][f] = files'[f]
      BY DEF LoadedNotAhead, VersionNamesRow
    <2>1. g # h /\ loaded'[g][f] = loaded[g][f] /\ loaded[g][f] # Absent
      BY <1>3, <1>4
    <2>2. CASE writes[h][f] = Clean
      BY <1>2, <1>5, <2>1, <2>2 DEF LoadedNotAhead, VersionNamesRow
    <2>3. CASE writes[h][f] # Clean
      <3>1. /\ files[f] # Absent
            /\ files'[f].version = files[f].version + 1
        BY <1>2, <1>5, <2>1, <2>3 DEF PendingWrites
      <3>2. loaded[g][f].version <= files[f].version
        BY <1>5, <2>1, <3>1 DEF LoadedNotAhead
      <3>3. loaded[g][f].version \in Nat /\ files[f].version \in Nat
        BY <2>1, <3>1 DEF Inv, TypeInv, TypeOK, Row, Version
      <3> QED
        BY <2>1, <3>1, <3>2, <3>3
    <2> QED
      BY <2>2, <2>3
  <1>11. HistoryComplete'
    BY CommitHistory
  <1> QED
    BY <1>6, <1>7, <1>8, <1>9, <1>10, <1>11 DEF IInv

-----------------------------------------------------------------------------
LEMMA InvStep == Inv /\ [Next]_vars => Inv'
  <1> SUFFICES ASSUME Inv, [Next]_vars PROVE IInv'
    BY TypeInvStep DEF Inv
  <1>0. TypeInv' /\ \A g \in Handler : Stage(g)'
    BY TypeInvStep DEF Inv, TypeInv
  <1>1. ASSUME NEW h \in Handler, ApplyChanges(h) PROVE IInv'
    <2>1. Quiet
      BY <1>1 DEF ApplyChanges, Quiet, database
    <2>2. ASSUME NEW g \in Handler PROVE NotYetWritten(g)'
      <3>1. CASE g = h
        <4>1. pc[h] = "idle"
          BY <1>1 DEF ApplyChanges
        <4>2. writes[h] = NoWrites
          BY <4>1 DEF Inv, TypeInv, Stage
        <4>3. \A i \in Edits(batch'[h]) \ done'[h] : batch'[h][i].id \in FileId
          <5>1. batch'[h] \in Batch \cup {<< >>}
            BY <1>0 DEF TypeInv, TypeOK
          <5> QED
            BY <5>1, BatchElement DEF Edits, Change
        <4> QED
          BY <2>1, <3>1, <4>2, <4>3 DEF NotYetWritten, Quiet, NoWrites
      <3>2. CASE g # h
        BY <1>1, <3>2
           DEF ApplyChanges, NotYetWritten, database, Inv, TypeInv, TypeOK, IInv
      <3> QED
        BY <3>1, <3>2
    <2> QED
      BY <1>0, <2>1, <2>2, QuietSafe DEF IInv
  <1>2. ASSUME NEW h \in Handler, Enforce(h) PROVE IInv'
    <2>1. CASE Answer(h, "planLimit")
      BY <1>2, <2>1, AnswerSafe DEF Enforce, database
    <2>2. CASE UNCHANGED <<batch, done, loaded, writes, snaps, entries, reply>>
      <3>1. Quiet /\ UNCHANGED <<batch, done>>
        BY <1>2, <2>2 DEF Enforce, Quiet, database
      <3>2. \A g \in Handler : NotYetWritten(g)'
        BY <3>1 DEF Quiet, NotYetWritten, Inv, IInv
      <3> QED
        BY <1>0, <3>1, <3>2, QuietSafe DEF IInv
    <2> QED
      BY <1>2, <2>1, <2>2 DEF Enforce
  <1>3. ASSUME NEW h \in Handler, LoadCurrent(h) PROVE IInv'
    <2>1. CASE Answer(h, "conflict")
      BY <1>3, <2>1, AnswerSafe DEF LoadCurrent, database
    <2>2. CASE ~Answer(h, "conflict")
      BY <1>0, <1>3, <2>2, LoadSafe
    <2> QED
      BY <2>1, <2>2
  <1>4. ASSUME NEW h \in Handler, SkipUpdate(h) PROVE IInv'
    <2>1. PICK i : /\ done' = [done EXCEPT ![h] = @ \cup {i}]
                   /\ UNCHANGED <<database, batch, loaded, writes, snaps>>
      BY <1>4 DEF SkipUpdate
    <2>2. Quiet
      BY <2>1 DEF Quiet, database
    <2>3. \A g \in Handler : done[g] \subseteq done'[g]
      BY <2>1 DEF Inv, TypeInv, TypeOK
    <2>4. \A g \in Handler : NotYetWritten(g)'
      BY <2>1, <2>3 DEF NotYetWritten, Inv, IInv
    <2> QED
      BY <1>0, <2>2, <2>4, QuietSafe DEF IInv
  <1>5. ASSUME NEW h \in Handler, DeleteFile(h) \/ UpdateFile(h) \/ CreateFile(h)
        PROVE  IInv'
    BY <1>0, <1>5, DeleteSafe, UpdateSafe, CreateSafe
  <1>6. ASSUME NEW h \in Handler, Commit(h) PROVE IInv'
    BY <1>0, <1>6, CommitSafe
  <1>7. ASSUME NEW h \in Handler,
               LostRace(h) \/ UniqueViolation(h) \/ LogMany(h) \/ Fail(h)
        PROVE  IInv'
    BY <1>7, AnswerSafe DEF LostRace, UniqueViolation, LogMany, Fail, database
  <1>8. CASE UNCHANGED vars
    <2>1. Quiet /\ UNCHANGED <<batch, done>>
      BY <1>8 DEF Quiet, vars
    <2>2. \A g \in Handler : NotYetWritten(g)'
      BY <2>1 DEF Quiet, NotYetWritten, Inv, IInv
    <2> QED
      BY <1>0, <2>1, <2>2, QuietSafe DEF IInv
  <1> QED
    BY <1>1, <1>2, <1>3, <1>4, <1>5, <1>6, <1>7, <1>8 DEF Next, Handle

(* IInv holds in every reachable state.                                    *)
THEOREM Safety == Spec => []IInv
  <1>1. Init => Inv
    BY InitSafe
  <1>2. Inv /\ [Next]_vars => Inv'
    BY InvStep
  <1>3. Inv => IInv
    BY DEF Inv
  <1> QED
    BY <1>1, <1>2, <1>3, PTL DEF Spec

(* Every file has one snapshot for each of its versions, and a file that is *)
(* gone has none, however requests interleave and fail.                    *)
THEOREM HistoryIsComplete == Spec => []HistoryComplete
  <1>1. IInv => HistoryComplete
    BY DEF IInv
  <1> QED
    BY <1>1, Safety, PTL

(* A version names one state of a file, so guarding writes by the version  *)
(* alone is enough.                                                        *)
THEOREM VersionsNameRows == Spec => []VersionNamesRow
  <1>1. IInv => VersionNamesRow
    BY DEF IInv
  <1> QED
    BY <1>1, Safety, PTL

(* No update is lost: what a transaction has written is based on the rows  *)
(* that are committed until it commits itself.                             *)
THEOREM NoLostUpdate == Spec => []WritesBasedOnCommitted
  <1>1. IInv => WritesBasedOnCommitted
    BY DEF IInv, PendingWrites, WritesBasedOnCommitted
  <1> QED
    BY <1>1, Safety, PTL
=============================================================================
