------------------------- MODULE RepoFilesRefinement -------------------------
(***************************************************************************)
(* The transactions of RepoFiles, statement by statement and interleaved,  *)
(* implement the requests of FileStore, which take effect in one step;     *)
(* they replace a version only at a client's base; and they exceed the     *)
(* plan's limit by what requests at once may add: for any number of        *)
(* handlers, files and requests.                                           *)
(***************************************************************************)
EXTENDS RepoFilesProofs, FiniteSetTheorems

Full == Inv /\ StoreInv

-----------------------------------------------------------------------------
(* Paths stay apart. *)

(* What a handler sees of one file. *)
LEMMA Sees ==
    /\ \A h \in Handler, f \in FileId :
         View(h)[f] = IF writes[h][f] = Clean THEN files[f] ELSE writes[h][f]
    /\ \A h \in Handler, f \in FileId :
         View(h)'[f] = IF writes'[h][f] = Clean THEN files'[f] ELSE writes'[h][f]
  BY DEF View

LEMMA QuietPaths ==
    ASSUME PathsApart, UNCHANGED <<files, writes>> PROVE PathsApart'
  BY DEF PathsApart, PathsUnique, View

(* A transaction that ends takes its rows with it, committed or not.       *)
LEMMA ReleasedPaths ==
    ASSUME Inv, PathsApart, NEW h \in Handler,
           writes' = [writes EXCEPT ![h] = NoWrites],
           files' = files \/ files' = View(h)
    PROVE  PathsApart'
  <1>1. /\ \A f \in FileId : writes'[h][f] = Clean
        /\ \A g \in Handler \ {h} : writes'[g] = writes[g]
    BY DEF NoWrites, Inv, TypeInv, TypeOK
  <1>2. PathsUnique(files')
    <2>1. CASE files' = files
      BY <2>1 DEF PathsApart, PathsUnique
    <2>2. CASE files' = View(h)
      BY <2>2 DEF PathsApart
    <2> QED  BY <2>1, <2>2
  <1>3. ASSUME NEW g \in Handler, NEW e \in FileId, NEW f \in FileId,
               View(g)'[e] # Absent, View(g)'[f] # Absent,
               View(g)'[e].path = View(g)'[f].path
        PROVE  e = f
    <2>1. CASE \A k \in {e, f} : writes'[g][k] = Clean
      <3>1. View(g)'[e] = files'[e] /\ View(g)'[f] = files'[f]
        BY <2>1, Sees
      <3> QED  BY <1>2, <1>3, <3>1 DEF PathsUnique
    <2>2. CASE g # h /\ \A k \in {e, f} : View(g)'[k] = View(g)[k]
      BY <1>3, <2>2 DEF PathsApart, PathsUnique
    (* One row is g's own, the other one was committed by h just now. *)
    <2>3. ASSUME NEW k \in {e, f}, NEW l \in {e, f},
                 g # h, writes'[g][k] # Clean,
                 writes'[g][l] = Clean, writes[h][l] # Clean, files' = View(h)
          PROVE  FALSE
      <3>1. View(g)'[k] = writes[g][k] /\ View(g)'[l] = writes[h][l]
        BY <1>1, <2>3, Sees
      <3>2. writes[g][k] \notin {Clean, Absent} /\ writes[h][l] \notin {Clean, Absent}
            /\ writes[g][k].path = writes[h][l].path
        BY <1>1, <1>3, <2>3, <3>1
      <3> QED  BY <2>3, <3>2 DEF PathsApart
    <2>4. CASE g # h /\ \E k \in {e, f} : writes'[g][k] # Clean
      <3>1. ASSUME NEW k \in {e, f}  PROVE View(g)'[k] = View(g)[k]
        <4>1. CASE writes'[g][k] # Clean
          BY <1>1, <2>4, <4>1, Sees
        <4>2. CASE writes'[g][k] = Clean /\ files'[k] = files[k]
          BY <1>1, <2>4, <4>2, Sees
        <4>3. CASE writes'[g][k] = Clean /\ files'[k] # files[k]
          <5>1. files' = View(h) /\ writes[h][k] # Clean
            BY <4>3, Sees
          <5> QED  BY <2>3, <2>4, <4>3, <5>1
        <4> QED  BY <4>1, <4>2, <4>3
      <3> QED  BY <2>2, <2>4, <3>1
    <2> QED  BY <1>1, <2>1, <2>4
  <1>4. \A g \in Handler : PathsUnique(View(g))'
    BY <1>3 DEF PathsUnique
  <1>5. \A g, k \in Handler, e, f \in FileId :
          g # k /\ writes'[g][e] \notin {Clean, Absent}
                /\ writes'[k][f] \notin {Clean, Absent}
             => writes'[g][e].path # writes'[k][f].path
    BY <1>1 DEF PathsApart
  <1> QED
    BY <1>2, <1>4, <1>5 DEF PathsApart, PathsUnique

(* A row may be written to a path that neither its transaction sees taken  *)
(* nor another one has taken.                                              *)
LEMMA WrittenPaths ==
    ASSUME Inv, PathsApart, NEW h \in Handler, NEW f \in FileId, NEW row,
           files' = files, writes' = [writes EXCEPT ![h][f] = row],
           row # Absent =>
             /\ \A e \in FileId \ {f} :
                  View(h)[e] # Absent => View(h)[e].path # row.path
             /\ \A g \in Handler \ {h}, e \in FileId :
                  writes[g][e] \notin {Clean, Absent} => writes[g][e].path # row.path,
           row # Clean
    PROVE  PathsApart'
  <1>1. \A g \in Handler, e \in FileId :
          writes'[g][e] = IF g = h /\ e = f THEN row ELSE writes[g][e]
    BY DEF Inv, TypeInv, TypeOK
  <1>2. \A g \in Handler, e \in FileId :
          View(g)'[e] = IF g = h /\ e = f THEN row ELSE View(g)[e]
    BY <1>1, Sees
  <1>3. PathsUnique(files)'
    BY DEF PathsApart, PathsUnique
  <1>4. ASSUME NEW g \in Handler  PROVE PathsUnique(View(g))'
    <2>1. PathsUnique(View(g))
      BY DEF PathsApart
    <2> QED  BY <1>2, <2>1 DEF PathsUnique
  <1>5. \A g, k \in Handler, e, d \in FileId :
          g # k /\ writes'[g][e] \notin {Clean, Absent}
                /\ writes'[k][d] \notin {Clean, Absent}
             => writes'[g][e].path # writes'[k][d].path
    BY <1>1 DEF PathsApart
  <1> QED
    BY <1>3, <1>4, <1>5 DEF PathsApart

LEMMA UpdatePaths ==
    ASSUME Inv, PathsApart, NEW h \in Handler, UpdateFile(h)
    PROVE  PathsApart'
  <1>1. PICK i \in Edits(batch[h]) : \E e :
          /\ Turn(h, i)
          /\ ~RowLocked(h, batch[h][i].id)
          /\ VersionGuard(h, batch[h][i].id)
          /\ Retitled(loaded[h][batch[h][i].id], batch[h][i])
               => PathFree(h, batch[h][i].id, batch[h][i].path)
          /\ Write(h, i, batch[h][i].id,
                   Merged(files[batch[h][i].id], loaded[h][batch[h][i].id], batch[h][i]), e)
    BY DEF UpdateFile
  <1> DEFINE f == batch[h][i].id
             row == Merged(files[f], loaded[h][f], batch[h][i])
  <1>2. /\ f \in FileId /\ pc[h] = "write"
        /\ loaded[h][f] \in Row
        /\ files[f] = loaded[h][f]
        /\ \A g \in Handler : writes[g][f] = Clean
    BY <1>1, TurnFacts
  <1>3. batch[h][i] \in Change
    BY <1>1, <1>2, EditFacts DEF Inv
  <1>4. row \in Row /\ row.path = IF Retitled(files[f], batch[h][i])
                                  THEN batch[h][i].path ELSE files[f].path
    BY <1>2, <1>3, MergedType DEF Merged
  <1>5. row # Absent /\ row # Clean
    BY <1>4, Nulls
  <1>6. files' = files /\ writes' = [writes EXCEPT ![h][f] = row]
    BY <1>1 DEF Write
  <1>7. CASE Retitled(loaded[h][f], batch[h][i])
    <2>1. PathFree(h, f, row.path)
      BY <1>1, <1>2, <1>4, <1>7
    <2> HIDE DEF row
    <2>2. /\ \A e \in FileId \ {f} :
               View(h)[e] # Absent => View(h)[e].path # row.path
          /\ \A g \in Handler \ {h}, e \in FileId :
               writes[g][e] \notin {Clean, Absent} => writes[g][e].path # row.path
      BY <2>1 DEF PathFree, PathTaken, PathClaimed, Claims, Holds
    <2> HIDE DEF f
    <2> QED  BY <1>2, <1>5, <1>6, <2>2, WrittenPaths
  <1>8. CASE ~Retitled(loaded[h][f], batch[h][i])
    <2>1. row.path = files[f].path
      BY <1>2, <1>4, <1>8
    <2> HIDE DEF row, f
    <2>2. files[f] # Absent /\ \A g \in Handler : View(g)[f] = files[f]
      BY <1>2, Nulls, Sees
    <2>3. ASSUME NEW e \in FileId \ {f}, NEW g \in Handler, View(g)[e] # Absent
          PROVE  View(g)[e].path # files[f].path
      BY <1>2, <2>2, <2>3 DEF PathsApart, PathsUnique
    <2>4. ASSUME NEW e \in FileId, NEW g \in Handler, writes[g][e] \notin {Clean, Absent}
          PROVE  e # f /\ View(g)[e] = writes[g][e]
      BY <1>2, <2>4, Sees
    <2>5. /\ \A e \in FileId \ {f} :
               View(h)[e] # Absent => View(h)[e].path # row.path
          /\ \A g \in Handler \ {h}, e \in FileId :
               writes[g][e] \notin {Clean, Absent} => writes[g][e].path # row.path
      BY <2>1, <2>3, <2>4
    <2> QED  BY <1>2, <1>5, <1>6, <2>5, WrittenPaths
  <1> QED  BY <1>7, <1>8

LEMMA CreatePaths ==
    ASSUME Inv, PathsApart, NEW h \in Handler, CreateFile(h)
    PROVE  PathsApart'
  <1> DEFINE new == CHOOSE g \in FileId : g \notin issued
  <1>1. PICK i \in Creates(batch[h]) :
          /\ Turn(h, i)
          /\ FileId # issued
          /\ PathFree(h, new, batch[h][i].path)
          /\ Write(h, i, new, Created(batch[h][i]),
                   Entry("CREATE", new, batch[h][i].path))
    BY DEF CreateFile
  <1>2. new \in FileId
    BY <1>1, FreshId DEF Inv, TypeInv, TypeOK
  <1>3. Created(batch[h][i]) \in Row /\ Created(batch[h][i]).path = batch[h][i].path
    BY <1>1, CreateFacts DEF Turn, Inv, Created
  <1> HIDE DEF new
  <1>4. /\ \A e \in FileId \ {new} :
             View(h)[e] # Absent => View(h)[e].path # Created(batch[h][i]).path
        /\ \A g \in Handler \ {h}, e \in FileId :
             writes[g][e] \notin {Clean, Absent}
               => writes[g][e].path # Created(batch[h][i]).path
    BY <1>1, <1>3 DEF PathFree, PathTaken, PathClaimed, Claims, Holds
  <1> QED
    BY <1>1, <1>2, <1>3, <1>4, Nulls, WrittenPaths DEF Write

LEMMA PathsStep == Inv /\ PathsApart /\ [Next]_vars => PathsApart'
  <1> SUFFICES ASSUME Inv, PathsApart, [Next]_vars PROVE PathsApart'
    OBVIOUS
  <1>1. ASSUME NEW h \in Handler, NEW r, Answer(h, r), UNCHANGED files
        PROVE  PathsApart'
    BY <1>1, ReleasedPaths DEF Answer
  <1>2. ASSUME NEW h \in Handler, DeleteFile(h)  PROVE PathsApart'
    <2>1. PICK i \in DOMAIN batch[h] :
            /\ Turn(h, i)
            /\ batch[h][i].delete
            /\ Write(h, i, batch[h][i].id, Absent,
                     Entry("DELETE", batch[h][i].id, loaded[h][batch[h][i].id].path))
      BY <1>2 DEF DeleteFile
    <2>2. i \in Edits(batch[h]) /\ pc[h] = "write"
      BY <2>1 DEF Turn, Inv, TypeInv, Stage, Valid, ValidChange, Edits
    <2>3. batch[h][i].id \in FileId
      BY <2>2, EditFacts DEF Inv
    <2> QED
      BY <2>1, <2>3, Nulls, WrittenPaths DEF Write
  <1>3. ASSUME NEW h \in Handler, Commit(h)  PROVE PathsApart'
    BY <1>3, ReleasedPaths DEF Commit
  <1>4. ASSUME NEW h \in Handler, ApplyChanges(h) \/ SkipUpdate(h)  PROVE PathsApart'
    BY <1>4, QuietPaths DEF ApplyChanges, SkipUpdate, database
  <1>5. ASSUME NEW h \in Handler, Enforce(h) \/ LoadCurrent(h)  PROVE PathsApart'
    BY <1>1, <1>5, QuietPaths DEF Enforce, LoadCurrent, database
  <1>6. ASSUME NEW h \in Handler,
               LostRace(h) \/ UniqueViolation(h) \/ LogMany(h) \/ Fail(h)
        PROVE  PathsApart'
    BY <1>1, <1>6 DEF LostRace, UniqueViolation, LogMany, Fail, database
  <1>7. CASE UNCHANGED vars
    BY <1>7, QuietPaths DEF vars
  <1> QED
    BY <1>2, <1>3, <1>4, <1>5, <1>6, <1>7, UpdatePaths, CreatePaths DEF Next, Handle

-----------------------------------------------------------------------------
(* A transaction carries out its changes. *)

Carried == \A h \in Handler : pc[h] = "write" => CarriedOut(h)

(* Nothing but a handler's own variables matters to what it carried out.   *)
LEMMA CarriedAlike ==
    ASSUME NEW h \in Handler, pc[h] = "write" => CarriedOut(h),
           pc'[h] = pc[h], batch'[h] = batch[h], done'[h] = done[h],
           loaded'[h] = loaded[h], writes'[h] = writes[h]
    PROVE  (pc[h] = "write" => CarriedOut(h))'
  BY DEF CarriedOut

(* The other handlers, when one answers. *)
LEMMA AnswerCarried ==
    ASSUME Inv, Carried, NEW h \in Handler, NEW r, Answer(h, r)
    PROVE  Carried'
  <1> SUFFICES ASSUME NEW g \in Handler
               PROVE  (pc[g] = "write" => CarriedOut(g))'
    BY DEF Carried
  <1>1. CASE g = h
    BY <1>1 DEF Answer, Inv, TypeInv, TypeOK
  <1>2. CASE g # h
    <2>1. /\ pc'[g] = pc[g] /\ batch'[g] = batch[g] /\ done'[g] = done[g]
          /\ loaded'[g] = loaded[g] /\ writes'[g] = writes[g]
      BY <1>2 DEF Answer, Inv, TypeInv, TypeOK
    <2> QED  BY <2>1, CarriedAlike DEF Carried
  <1> QED  BY <1>1, <1>2

(* An edit leaves its row as the change says, or as it was if it says so.  *)
LEMMA EditCarried ==
    ASSUME Inv, NEW h \in Handler, pc[h] = "write", CarriedOut(h),
           NEW i \in Edits(batch[h]), Turn(h, i), NEW row,
           row = IF batch[h][i].delete \/ Changed(loaded[h][batch[h][i].id], batch[h][i])
                 THEN After(loaded[h][batch[h][i].id], batch[h][i]) ELSE Clean,
           batch'[h] = batch[h], loaded'[h] = loaded[h],
           done'[h] = done[h] \cup {i},
           \A f \in FileId : writes'[h][f] =
               IF f = batch[h][i].id THEN row ELSE writes[h][f]
    PROVE  CarriedOut(h)'
  <1> DEFINE id(j) == batch[h][j].id
  <1>1. \A j \in Edits(batch[h]) :
          id(j) \in FileId /\ loaded[h][id(j)] # Absent /\ j \in DOMAIN batch[h]
    BY EditFacts, Nulls DEF Inv
  <1>2. \A j \in Edits(batch[h]) \ {i} : id(j) # id(i)
    BY <1>1 DEF Inv, TypeInv, Stage, Valid, NoDuplicates, Edits
  <1>3. i \notin Creates(batch[h])
    BY DEF Edits, Creates
  <1>4. \A f \in FileId : loaded[h][f] = Absent => writes'[h][f] = writes[h][f]
    BY <1>1
  <1>5. ASSUME NEW j \in Edits(batch[h])
        PROVE  LET c == batch[h][j]
                   seen == loaded[h][c.id]
               IN  /\ seen.version = c.base
                   /\ j \in done'[h] =>
                        writes'[h][c.id] = IF c.delete \/ Changed(seen, c)
                                           THEN After(seen, c) ELSE Clean
    <2>1. CASE j = i
      BY <1>1, <2>1 DEF CarriedOut
    <2>2. CASE j # i
      <3>1. writes'[h][id(j)] = writes[h][id(j)]
        BY <1>1, <1>2, <2>2
      <3> QED  BY <2>2, <3>1 DEF CarriedOut
    <2> QED  BY <2>1, <2>2
  <1>6. Creates(batch[h]) \cap done'[h] = Creates(batch[h]) \cap done[h]
    BY <1>3
  <1>7. \A j \in Creates(batch[h]) \cap done'[h] : \E f \in FileId :
          loaded[h][f] = Absent /\ writes'[h][f] = Created(batch[h][j])
    BY <1>4, <1>6 DEF CarriedOut
  <1>8. \A f \in FileId : loaded[h][f] = Absent /\ writes'[h][f] # Clean =>
          \E j \in Creates(batch[h]) \cap done'[h] : writes'[h][f] = Created(batch[h][j])
    BY <1>4, <1>6 DEF CarriedOut
  <1> QED  BY <1>5, <1>7, <1>8 DEF CarriedOut

(* A creation writes a row nobody had. *)
LEMMA CreateCarried ==
    ASSUME Inv, NEW h \in Handler, pc[h] = "write", CarriedOut(h),
           NEW i \in Creates(batch[h]), NEW new \in FileId,
           loaded[h][new] = Absent, writes[h][new] = Clean,
           batch'[h] = batch[h], loaded'[h] = loaded[h],
           done'[h] = done[h] \cup {i},
           \A f \in FileId : writes'[h][f] =
               IF f = new THEN Created(batch[h][i]) ELSE writes[h][f]
    PROVE  CarriedOut(h)'
  <1>1. \A j \in Edits(batch[h]) :
          batch[h][j].id \in FileId /\ loaded[h][batch[h][j].id] # Absent
    BY EditFacts, Nulls DEF Inv
  <1>2. i \notin Edits(batch[h])
    BY DEF Edits, Creates
  <1>3. \A j \in Creates(batch[h]) : Created(batch[h][j]) # Clean
    BY CreateFacts, Nulls DEF Inv
  <1>4. ASSUME NEW j \in Edits(batch[h])
        PROVE  LET c == batch[h][j]
                   seen == loaded[h][c.id]
               IN  /\ seen.version = c.base
                   /\ j \in done'[h] =>
                        writes'[h][c.id] = IF c.delete \/ Changed(seen, c)
                                           THEN After(seen, c) ELSE Clean
    BY <1>1, <1>2 DEF CarriedOut
  <1>5. ASSUME NEW j \in Creates(batch[h]) \cap done'[h]
        PROVE  \E f \in FileId :
                 loaded[h][f] = Absent /\ writes'[h][f] = Created(batch[h][j])
    <2>1. CASE j = i
      BY <2>1
    <2>2. CASE j # i
      <3>1. PICK f \in FileId :
              loaded[h][f] = Absent /\ writes[h][f] = Created(batch[h][j])
        BY <2>2 DEF CarriedOut
      <3>2. f # new
        BY <1>3, <3>1
      <3> QED  BY <3>1, <3>2
    <2> QED  BY <2>1, <2>2
  <1>6. ASSUME NEW f \in FileId, loaded[h][f] = Absent, writes'[h][f] # Clean
        PROVE  \E j \in Creates(batch[h]) \cap done'[h] :
                 writes'[h][f] = Created(batch[h][j])
    BY <1>6 DEF CarriedOut
  <1> QED  BY <1>4, <1>5, <1>6 DEF CarriedOut

(* A step of h's transaction carries out change i, and nobody else moves.  *)
LEMMA StatementCarried ==
    ASSUME Inv, Carried, NEW h \in Handler, NEW i, pc[h] = "write",
           done' = [done EXCEPT ![h] = @ \cup {i}],
           UNCHANGED <<pc, batch, loaded>>,
           \A g \in Handler \ {h} : writes'[g] = writes[g],
           /\ batch'[h] = batch[h] /\ loaded'[h] = loaded[h]
           /\ done'[h] = done[h] \cup {i}
           => CarriedOut(h)'
    PROVE  Carried'
  <1>1. /\ batch'[h] = batch[h] /\ loaded'[h] = loaded[h]
        /\ done'[h] = done[h] \cup {i}
    BY DEF Inv, TypeInv, TypeOK
  <1>2. ASSUME NEW g \in Handler \ {h}  PROVE (pc[g] = "write" => CarriedOut(g))'
    <2>1. /\ pc'[g] = pc[g] /\ batch'[g] = batch[g] /\ done'[g] = done[g]
          /\ loaded'[g] = loaded[g] /\ writes'[g] = writes[g]
      BY DEF Inv, TypeInv, TypeOK
    <2> QED  BY <2>1, CarriedAlike DEF Carried
  <1> QED  BY <1>1, <1>2 DEF Carried

LEMMA LoadCarried ==
    ASSUME Inv, Carried, NEW h \in Handler, LoadCurrent(h)
    PROVE  Carried'
  <1>1. CASE Answer(h, "conflict")
    BY <1>1, AnswerCarried
  <1>2. CASE ~Answer(h, "conflict")
    <2> DEFINE rows == [f \in FileId |->
                          IF f \in Touched(batch[h]) THEN files[f] ELSE Absent]
    <2>1. /\ pc[h] = "load" /\ Current(files, batch[h])
          /\ loaded' = [loaded EXCEPT ![h] = rows]
          /\ pc' = [pc EXCEPT ![h] = "write"]
          /\ UNCHANGED <<batch, done, writes>>
      BY <1>2 DEF LoadCurrent
    <2>2. /\ loaded'[h] = rows
          /\ \A g \in Handler \ {h} : loaded'[g] = loaded[g] /\ pc'[g] = pc[g]
      BY <2>1 DEF Inv, TypeInv, TypeOK
    <2>3. done[h] = {} /\ writes[h] = NoWrites /\ \A f \in FileId : NoWrites[f] = Clean
      BY <2>1 DEF Inv, TypeInv, Stage, NoWrites
    <2>4. \A i \in Edits(batch[h]) : batch[h][i].id \in FileId
      BY BatchElement DEF Edits, Change, Inv, TypeInv, TypeOK
    <2>5. \A i \in Edits(batch[h]) : rows[batch[h][i].id].version = batch[h][i].base
      BY <2>1, <2>4 DEF Current, Touched
    <2> HIDE DEF rows
    <2>6. CarriedOut(h)'
      BY <2>1, <2>2, <2>3, <2>5 DEF CarriedOut
    <2>7. ASSUME NEW g \in Handler \ {h}
          PROVE  (pc[g] = "write" => CarriedOut(g))'
      BY <2>1, <2>2, CarriedAlike DEF Carried
    <2> QED  BY <2>6, <2>7 DEF Carried
  <1> QED  BY <1>1, <1>2

LEMMA DeleteCarried ==
    ASSUME Inv, Carried, NEW h \in Handler, DeleteFile(h)
    PROVE  Carried'
  <1>1. PICK i \in DOMAIN batch[h] : \E e :
          /\ Turn(h, i)
          /\ batch[h][i].delete
          /\ Write(h, i, batch[h][i].id, Absent, e)
    BY DEF DeleteFile
  <1>2. pc[h] = "write" /\ i \in Edits(batch[h])
    BY <1>1 DEF Turn, Inv, TypeInv, Stage, Valid, ValidChange, Edits
  <1>3. After(loaded[h][batch[h][i].id], batch[h][i]) = Absent
    BY <1>1 DEF After
  <1>4. /\ \A f \in FileId : writes'[h][f] =
             IF f = batch[h][i].id THEN Absent ELSE writes[h][f]
        /\ \A g \in Handler \ {h} : writes'[g] = writes[g]
        /\ done' = [done EXCEPT ![h] = @ \cup {i}]
        /\ UNCHANGED <<pc, batch, loaded>>
    BY <1>1 DEF Write, Inv, TypeInv, TypeOK
  <1>5. CarriedOut(h)
    BY <1>2 DEF Carried
  <1>6. batch'[h] = batch[h] /\ loaded'[h] = loaded[h] /\ done'[h] = done[h] \cup {i}
          => CarriedOut(h)'
    BY <1>1, <1>2, <1>3, <1>4, <1>5, EditCarried
  <1> QED
    BY <1>2, <1>4, <1>6, StatementCarried

LEMMA SkipCarried ==
    ASSUME Inv, Carried, NEW h \in Handler, SkipUpdate(h)
    PROVE  Carried'
  <1>1. PICK i \in Edits(batch[h]) :
          /\ Turn(h, i)
          /\ ~batch[h][i].delete
          /\ ~Changed(loaded[h][batch[h][i].id], batch[h][i])
          /\ done' = [done EXCEPT ![h] = @ \cup {i}]
          /\ UNCHANGED <<pc, batch, loaded, writes>>
    BY DEF SkipUpdate
  <1>2. pc[h] = "write" /\ writes[h][batch[h][i].id] = Clean
    BY <1>1 DEF Turn, NotYetWritten, Inv, IInv
  <1>3. CarriedOut(h)
    BY <1>2 DEF Carried
  <1>4. \A f \in FileId : writes'[h][f] =
             IF f = batch[h][i].id THEN Clean ELSE writes[h][f]
    BY <1>1, <1>2
  <1>5. Clean = IF batch[h][i].delete \/ Changed(loaded[h][batch[h][i].id], batch[h][i])
                THEN After(loaded[h][batch[h][i].id], batch[h][i]) ELSE Clean
    BY <1>1
  <1> QED
    BY <1>1, <1>2, <1>3, <1>4, <1>5, EditCarried, StatementCarried

LEMMA UpdateCarried ==
    ASSUME Inv, Carried, NEW h \in Handler, UpdateFile(h)
    PROVE  Carried'
  <1>1. PICK i \in Edits(batch[h]) : \E e :
          /\ Turn(h, i)
          /\ ~batch[h][i].delete
          /\ Changed(loaded[h][batch[h][i].id], batch[h][i])
          /\ ~RowLocked(h, batch[h][i].id)
          /\ VersionGuard(h, batch[h][i].id)
          /\ Write(h, i, batch[h][i].id,
                   Merged(files[batch[h][i].id], loaded[h][batch[h][i].id], batch[h][i]), e)
    BY DEF UpdateFile
  <1> DEFINE f == batch[h][i].id
             row == Merged(files[f], loaded[h][f], batch[h][i])
  <1>2. pc[h] = "write" /\ files[f] = loaded[h][f] /\ CarriedOut(h)
    BY <1>1, TurnFacts DEF Carried
  <1>3. row = IF batch[h][i].delete \/ Changed(loaded[h][f], batch[h][i])
              THEN After(loaded[h][f], batch[h][i]) ELSE Clean
    BY <1>1, <1>2 DEF Merged, After, Updated
  <1>4. /\ \A g \in FileId : writes'[h][g] = IF g = f THEN row ELSE writes[h][g]
        /\ \A g \in Handler \ {h} : writes'[g] = writes[g]
        /\ done' = [done EXCEPT ![h] = @ \cup {i}]
        /\ UNCHANGED <<pc, batch, loaded>>
    BY <1>1 DEF Write, Inv, TypeInv, TypeOK
  <1> HIDE DEF row
  <1>5. batch'[h] = batch[h] /\ loaded'[h] = loaded[h] /\ done'[h] = done[h] \cup {i}
          => CarriedOut(h)'
    BY <1>1, <1>2, <1>3, <1>4, EditCarried
  <1> QED
    BY <1>2, <1>4, <1>5, StatementCarried

LEMMA CreationCarried ==
    ASSUME Inv, Carried, NEW h \in Handler, CreateFile(h)
    PROVE  Carried'
  <1> DEFINE new == CHOOSE g \in FileId : g \notin issued
  <1>1. PICK i \in Creates(batch[h]) :
          /\ Turn(h, i)
          /\ FileId # issued
          /\ Write(h, i, new, Created(batch[h][i]),
                   Entry("CREATE", new, batch[h][i].path))
    BY DEF CreateFile
  <1>2. new \in FileId /\ new \notin issued
    BY <1>1, FreshId DEF Inv, TypeInv, TypeOK
  <1> HIDE DEF new
  <1>3. pc[h] = "write" /\ CarriedOut(h)
    BY <1>1 DEF Turn, Carried
  <1>4. files[new] = Absent /\ loaded[h][new] = Absent
    BY <1>2 DEF SeenIssued, Inv, IInv
  <1>5. writes[h][new] = Clean
    BY <1>2, <1>4 DEF PendingWrites, Inv, IInv
  <1>6. /\ \A f \in FileId : writes'[h][f] =
             IF f = new THEN Created(batch[h][i]) ELSE writes[h][f]
        /\ \A g \in Handler \ {h} : writes'[g] = writes[g]
        /\ done' = [done EXCEPT ![h] = @ \cup {i}]
        /\ UNCHANGED <<pc, batch, loaded>>
    BY <1>1, <1>2 DEF Write, Inv, TypeInv, TypeOK
  <1>7. batch'[h] = batch[h] /\ loaded'[h] = loaded[h] /\ done'[h] = done[h] \cup {i}
          => CarriedOut(h)'
    BY <1>1, <1>2, <1>3, <1>4, <1>5, <1>6, CreateCarried
  <1> QED
    BY <1>3, <1>6, <1>7, StatementCarried

LEMMA CarriedStep == Inv /\ Carried /\ [Next]_vars => Carried'
  <1> SUFFICES ASSUME Inv, Carried, [Next]_vars PROVE Carried'
    OBVIOUS
  <1>1. ASSUME NEW h \in Handler, ApplyChanges(h)  PROVE Carried'
    <2> SUFFICES ASSUME NEW g \in Handler
                 PROVE  (pc[g] = "write" => CarriedOut(g))'
      BY DEF Carried
    <2>1. CASE g = h
      <3>1. pc'[h] # "write"
        BY <1>1 DEF ApplyChanges, Inv, TypeInv, TypeOK
      <3> QED  BY <2>1, <3>1
    <2>2. CASE g # h
      <3>1. /\ pc'[g] = pc[g] /\ batch'[g] = batch[g] /\ done'[g] = done[g]
            /\ loaded'[g] = loaded[g] /\ writes'[g] = writes[g]
        BY <1>1, <2>2 DEF ApplyChanges, Inv, TypeInv, TypeOK
      <3> QED  BY <3>1, CarriedAlike DEF Carried
    <2> QED  BY <2>1, <2>2
  <1>2. ASSUME NEW h \in Handler, Enforce(h)  PROVE Carried'
    <2>1. CASE Answer(h, "planLimit")
      BY <2>1, AnswerCarried
    <2>2. CASE ~Answer(h, "planLimit")
      <3> SUFFICES ASSUME NEW g \in Handler
                   PROVE  (pc[g] = "write" => CarriedOut(g))'
        BY DEF Carried
      <3>1. /\ pc' = [pc EXCEPT ![h] = "load"]
            /\ UNCHANGED <<batch, done, loaded, writes>>
        BY <1>2, <2>2 DEF Enforce
      <3>2. CASE g = h
        BY <3>1, <3>2 DEF Inv, TypeInv, TypeOK
      <3>3. CASE g # h
        <4>1. pc'[g] = pc[g]
          BY <3>1, <3>3 DEF Inv, TypeInv, TypeOK
        <4> QED  BY <3>1, <4>1, CarriedAlike DEF Carried
      <3> QED  BY <3>2, <3>3
    <2> QED  BY <2>1, <2>2
  <1>3. ASSUME NEW h \in Handler, Commit(h)  PROVE Carried'
    <2> SUFFICES ASSUME NEW g \in Handler
                 PROVE  (pc[g] = "write" => CarriedOut(g))'
      BY DEF Carried
    <2>1. CASE g = h
      BY <1>3, <2>1 DEF Commit, Inv, TypeInv, TypeOK
    <2>2. CASE g # h
      <3>1. /\ pc'[g] = pc[g] /\ batch'[g] = batch[g] /\ done'[g] = done[g]
            /\ loaded'[g] = loaded[g] /\ writes'[g] = writes[g]
        BY <1>3, <2>2 DEF Commit, Inv, TypeInv, TypeOK
      <3> QED  BY <3>1, CarriedAlike DEF Carried
    <2> QED  BY <2>1, <2>2
  <1>4. ASSUME NEW h \in Handler,
               LostRace(h) \/ UniqueViolation(h) \/ LogMany(h) \/ Fail(h)
        PROVE  Carried'
    BY <1>4, AnswerCarried DEF LostRace, UniqueViolation, LogMany, Fail
  <1>5. CASE UNCHANGED vars
    <2>1. ASSUME NEW g \in Handler  PROVE (pc[g] = "write" => CarriedOut(g))'
      BY <1>5, CarriedAlike DEF vars, Carried
    <2> QED  BY <2>1 DEF Carried
  <1> QED
    BY <1>1, <1>2, <1>3, <1>4, <1>5, LoadCarried, DeleteCarried, SkipCarried,
       UpdateCarried, CreationCarried DEF Next, Handle

-----------------------------------------------------------------------------
LEMMA InitFull == Init => Full
  <1> SUFFICES ASSUME Init PROVE PathsApart /\ Carried
    BY InitSafe DEF Full, Inv, StoreInv, Carried
  <1>1. \A h \in Handler, f \in FileId : writes[h][f] = Clean /\ View(h)[f] = files[f]
    BY DEF Init, NoWrites, View
  <1>2. PathsUnique(files)
    BY SeedAssumption DEF Init
  <1>3. PathsApart
    BY <1>1, <1>2 DEF PathsApart, PathsUnique
  <1>4. Carried
    BY DEF Init, Carried
  <1> QED  BY <1>3, <1>4

LEMMA FullStep == Full /\ [Next]_vars => Full'
  <1> SUFFICES ASSUME Full, [Next]_vars PROVE Full'
    OBVIOUS
  <1>1. Inv /\ PathsApart /\ Carried
    BY DEF Full, StoreInv, Carried
  <1>2. Inv' /\ PathsApart' /\ Carried'
    BY <1>1, InvStep, PathsStep, CarriedStep
  <1> QED  BY <1>2 DEF Full, Inv, StoreInv, Carried

(* Whatever the handlers do in between, paths stay distinct in the project, *)
(* in what every transaction sees and between open transactions; and what  *)
(* a transaction has written is what the changes it has carried out make   *)
(* of the rows it loaded, each at the version its client named.            *)
THEOREM StoreIsSound == Spec => []StoreInv
  <1>1. Full => StoreInv
    BY DEF Full
  <1> QED  BY <1>1, InitFull, FullStep, PTL DEF Spec

-----------------------------------------------------------------------------
(* What a commit does, told in the terms of FileStore.                     *)

(* The changes that are not idle: what a transaction really carries out.   *)
Working(h) == [i \in DOMAIN batch[h] \ Settled[h] |-> batch[h][i]]

LEMMA WorkingFacts ==
    ASSUME NEW h \in Handler
    PROVE  /\ Creates(Working(h)) = Creates(batch[h])
           /\ Edits(Working(h)) = Edits(batch[h]) \ Settled[h]
           /\ \A i \in DOMAIN batch[h] \ Settled[h] : Working(h)[i] = batch[h][i]
  <1>1. Settled[h] \subseteq Edits(batch[h])
    BY DEF Settled
  <1> QED  BY <1>1 DEF Working, Creates, Edits

LEMMA AfterType ==
    ASSUME NEW row \in Row, NEW c \in Change
    PROVE  After(row, c) \in Row \cup {Absent} /\ After(row, c) # Clean
  <1>1. Changed(row, c) => Updated(row, c) \in Row
    BY DEF Updated, Row, Change, Retitled, Rewritten, Version
  <1>2. After(row, c) \in Row \cup {Absent}
    BY <1>1 DEF After
  <1> QED  BY <1>2, NullAssumption

(* Each edit of a transaction that is ready to commit has left its row as  *)
(* the change makes it, and the committed row is still the client's base.  *)
LEMMA EditDone ==
    ASSUME Full, NEW h \in Handler, Commit(h), NEW i \in Edits(Working(h))
    PROVE  LET c == batch[h][i] IN
           /\ c.id \in FileId
           /\ files[c.id] # Absent
           /\ files[c.id].version = c.base
           /\ writes[h][c.id] = After(files[c.id], c)
           /\ writes[h][c.id] # Clean
  <1>1. pc[h] = "write" /\ done[h] = DOMAIN batch[h]
    BY DEF Commit
  <1>2. i \in Edits(batch[h]) /\ i \notin Settled[h] /\ i \in done[h]
    BY <1>1, WorkingFacts DEF Edits
  <1> DEFINE c == batch[h][i]
             row == loaded[h][c.id]
  <1>3. c.id \in FileId /\ row \in Row /\ c \in Change
    BY <1>1, <1>2, EditFacts DEF Full, Inv
  <1>4. c.delete \/ Changed(row, c)
    BY <1>1, <1>2 DEF Settled
  <1>5. row.version = c.base /\ writes[h][c.id] = After(row, c)
    BY <1>1, <1>2, <1>4 DEF Full, StoreInv, CarriedOut
  <1>6. writes[h][c.id] # Clean /\ row # Absent
    BY <1>3, <1>5, AfterType, Nulls
  <1>7. files[c.id] = row
    BY <1>3, <1>6 DEF PendingWrites, Full, Inv, IInv
  <1> QED  BY <1>3, <1>5, <1>6, <1>7

(* Each creation has one row of its own. *)
LEMMA CreationDone ==
    ASSUME Full, NEW h \in Handler, Commit(h)
    PROVE  \E new \in [Creates(batch[h]) -> {f \in FileId : files[f] = Absent}] :
             /\ \A i, j \in Creates(batch[h]) : new[i] = new[j] => i = j
             /\ \A i \in Creates(batch[h]) :
                  writes[h][new[i]] = Created(batch[h][i])
             /\ \A f \in FileId : loaded[h][f] = Absent /\ writes[h][f] # Clean =>
                  \E i \in Creates(batch[h]) : new[i] = f
  <1>1. pc[h] = "write" /\ \A i \in Creates(batch[h]) : i \in done[h]
    BY DEF Commit, Creates
  <1>2. CarriedOut(h) /\ PathsUnique(View(h)) /\ PendingWrites(h)
    BY <1>1 DEF Full, StoreInv, PathsApart, Inv, IInv
  <1>3. \A i \in Creates(batch[h]) :
          /\ Created(batch[h][i]) \notin {Clean, Absent}
          /\ Created(batch[h][i]).path = batch[h][i].path
          /\ i \in DOMAIN batch[h] /\ batch[h][i].path # Unset /\ ~batch[h][i].delete
    BY <1>1, CreateFacts, Nulls, NullAssumption DEF Created, Full, Inv
  <1>4. \A i, j \in Creates(batch[h]) :
          Created(batch[h][i]) = Created(batch[h][j]) => i = j
    <2>1. NoDuplicates(batch[h])
      BY <1>1 DEF Full, Inv, TypeInv, Stage, Valid
    <2> QED  BY <1>3, <2>1 DEF NoDuplicates
  <1> DEFINE Row1(i, f) == loaded[h][f] = Absent /\ writes[h][f] = Created(batch[h][i])
             new == [i \in Creates(batch[h]) |-> CHOOSE f \in FileId : Row1(i, f)]
  <1>5. ASSUME NEW i \in Creates(batch[h])
        PROVE  new[i] \in FileId /\ Row1(i, new[i])
    <2>1. \E f \in FileId : Row1(i, f)
      BY <1>1, <1>2 DEF CarriedOut
    <2> QED  BY <2>1
  <1>6. ASSUME NEW i \in Creates(batch[h])  PROVE files[new[i]] = Absent
    BY <1>2, <1>3, <1>5 DEF PendingWrites
  <1>7. DOMAIN new = Creates(batch[h]) /\ new = [i \in DOMAIN new |-> new[i]]
    OBVIOUS
  <1> HIDE DEF new
  <1>8. new \in [Creates(batch[h]) -> {f \in FileId : files[f] = Absent}]
    BY <1>5, <1>6, <1>7
  <1>9. \A i, j \in Creates(batch[h]) : new[i] = new[j] => i = j
    BY <1>4, <1>5
  <1>10. ASSUME NEW f \in FileId, loaded[h][f] = Absent, writes[h][f] # Clean
         PROVE  \E i \in Creates(batch[h]) : new[i] = f
    <2>1. PICK i \in Creates(batch[h]) : writes[h][f] = Created(batch[h][i])
      BY <1>2, <1>10 DEF CarriedOut
    <2>2. View(h)[f] = Created(batch[h][i]) /\ View(h)[new[i]] = Created(batch[h][i])
      BY <1>3, <1>5, <1>10, <2>1, Sees
    <2>3. new[i] = f
      BY <1>2, <1>3, <1>5, <2>2 DEF PathsUnique
    <2> QED  BY <2>3
  <1> QED  BY <1>5, <1>8, <1>9, <1>10

(* A commit makes of the files what the changes ask for. *)
LEMMA CommitResult ==
    ASSUME Full, NEW h \in Handler, Commit(h)
    PROVE  \E new \in [Creates(Working(h)) -> {f \in FileId : files[f] = Absent}] :
             /\ \A i, j \in Creates(Working(h)) : new[i] = new[j] => i = j
             /\ files' = Result(files, Working(h), new)
  <1> DEFINE b == Working(h)
  <1>1. PICK new \in [Creates(batch[h]) -> {f \in FileId : files[f] = Absent}] :
          /\ \A i, j \in Creates(batch[h]) : new[i] = new[j] => i = j
          /\ \A i \in Creates(batch[h]) :
               writes[h][new[i]] = Created(batch[h][i])
          /\ \A f \in FileId : loaded[h][f] = Absent /\ writes[h][f] # Clean =>
               \E i \in Creates(batch[h]) : new[i] = f
    BY CreationDone
  <1>2. /\ Creates(b) = Creates(batch[h])
        /\ Edits(b) = Edits(batch[h]) \ Settled[h]
        /\ \A i \in Creates(b) \cup Edits(b) : b[i] = batch[h][i]
    <2>1. Creates(batch[h]) \cap Settled[h] = {}
      BY DEF Settled, Creates, Edits
    <2> QED  BY <2>1, WorkingFacts DEF Creates, Edits
  <1>3. files' = View(h) /\ pc[h] = "write" /\ done[h] = DOMAIN batch[h]
    BY DEF Commit
  <1> HIDE DEF b
  <1>4. ASSUME NEW f \in FileId, NEW i \in Creates(b), new[i] = f
        PROVE  View(h)[f] = Created(b[CHOOSE k \in Creates(b) : new[k] = f])
    <2> DEFINE k == CHOOSE j \in Creates(b) : new[j] = f
    <2>1. k \in Creates(b) /\ new[k] = f
      BY <1>4
    <2>2. Created(batch[h][k]) # Clean
      BY <1>2, <1>3, <2>1, CreateFacts, Nulls DEF Full, Inv
    <2> HIDE DEF k
    <2>3. View(h)[f] = Created(b[k])
      BY <1>1, <1>2, <2>1, <2>2, Sees
    <2> QED  BY <2>3 DEF k
  <1>5. ASSUME NEW f \in Touched(b), ~ \E i \in Creates(b) : new[i] = f
        PROVE  View(h)[f] = After(files[f], b[CHOOSE i \in Edits(b) : b[i].id = f])
    <2> DEFINE k == CHOOSE j \in Edits(b) : b[j].id = f
    <2>1. k \in Edits(b) /\ b[k].id = f
      BY <1>5 DEF Touched
    <2> HIDE DEF k
    <2>2. View(h)[f] = After(files[f], b[k])
      BY <1>2, <2>1, EditDone, Sees DEF b
    <2> QED  BY <2>2 DEF k
  <1>6. ASSUME NEW f \in FileId, f \notin Touched(b), ~ \E i \in Creates(b) : new[i] = f
        PROVE  View(h)[f] = files[f]
    <2>1. CASE loaded[h][f] = Absent
      BY <1>1, <1>2, <1>6, <2>1, Sees
    <2>2. CASE loaded[h][f] # Absent
      <3>1. PICK i \in Edits(batch[h]) : batch[h][i].id = f
        BY <1>3, <2>2 DEF Full, Inv, TypeInv, Stage, Touched
      <3>2. i \in Settled[h]
        BY <1>2, <1>6, <3>1 DEF Touched
      <3>3. ~batch[h][i].delete /\ ~Changed(loaded[h][f], batch[h][i]) /\ i \in done[h]
        BY <1>3, <3>1, <3>2 DEF Settled, Edits
      <3>4. writes[h][f] = Clean
        BY <1>3, <3>1, <3>3 DEF Full, StoreInv, CarriedOut
      <3> QED  BY <3>4, Sees
    <2> QED  BY <2>1, <2>2
  <1>7. \A f \in FileId : View(h)[f] = Result(files, b, new)[f]
    BY <1>4, <1>5, <1>6 DEF Result
  <1>8. View(h) = Result(files, b, new)
    BY <1>7 DEF View, Result
  <1>9. files' = Result(files, b, new)
    BY <1>3, <1>8
  <1> QED  BY <1>1, <1>2, <1>9 DEF b

LEMMA CommitCurrent ==
    ASSUME Full, NEW h \in Handler, Commit(h)
    PROVE  Current(files, Working(h))
  <1>1. \A i \in Edits(Working(h)) : Working(h)[i] = batch[h][i]
    BY WorkingFacts DEF Edits
  <1> QED  BY <1>1, EditDone DEF Current

(* It adds to the history what it changes, and takes what it deletes.      *)
LEMMA CommitVersions ==
    ASSUME Full, NEW h \in Handler, Commit(h)
    PROVE  /\ PathsUnique(files')
           /\ versions' =
                {s \in versions : files'[s.id] # Absent}
                  \cup {SnapshotOf(f, files'[f]) :
                          f \in {g \in FileId : files'[g] # Absent /\ files'[g] # files[g]}}
  <1>1. /\ files' = View(h)
        /\ versions' = {s \in versions : files'[s.id] # Absent} \cup snaps[h]
    BY DEF Commit
  <1>2. /\ PathsUnique(View(h)) /\ PendingWrites(h)
        /\ snaps[h] = {SnapshotOf(f, writes[h][f]) :
                         f \in {g \in FileId : writes[h][g] \notin {Clean, Absent}}}
    BY DEF Full, StoreInv, PathsApart, Inv, IInv, PendingSnapshots
  <1>3. \A f \in FileId :
          files'[f] = IF writes[h][f] = Clean THEN files[f] ELSE writes[h][f]
    BY <1>1, Sees
  <1>4. ASSUME NEW f \in FileId
        PROVE  files'[f] # Absent /\ files'[f] # files[f]
                 <=> writes[h][f] \notin {Clean, Absent}
    <2>1. CASE writes[h][f] \in {Clean, Absent}
      BY <1>3, <2>1
    <2>2. CASE writes[h][f] \notin {Clean, Absent} /\ files[f] = Absent
      BY <1>3, <2>2
    <2>3. CASE writes[h][f] \notin {Clean, Absent} /\ files[f] # Absent
      <3>1. writes[h][f].version = files[f].version + 1 /\ files[f].version \in Nat
        BY <1>2, <2>3 DEF PendingWrites, Full, Inv, TypeInv, TypeOK, Row, Version
      <3> QED  BY <1>3, <2>3, <3>1
    <2> QED  BY <2>1, <2>2, <2>3
  <1>5. {g \in FileId : files'[g] # Absent /\ files'[g] # files[g]}
          = {g \in FileId : writes[h][g] \notin {Clean, Absent}}
    BY <1>4
  <1>6. \A f \in {g \in FileId : writes[h][g] \notin {Clean, Absent}} :
          files'[f] = writes[h][f]
    BY <1>3
  <1> QED  BY <1>1, <1>2, <1>5, <1>6

-----------------------------------------------------------------------------
(* Every step of a handler is a step of FileStore, or none.                *)

(* The phase and the idle changes of a handler, at every point.            *)
LEMMA Seen ==
    ASSUME TypeInv, NEW h \in Handler
    PROVE  /\ pc[h] = "idle" => Phase[h] = "idle"
           /\ pc[h] \in {"enforce", "load"} => Phase[h] = "asked"
           /\ pc[h] = "write" => Phase[h] = "checked"
           /\ pc[h] = "audit" => Phase[h] = "applied"
           /\ pc[h] # "write" => Settled[h] = {}
  BY DEF Phase, PhaseAt, Settled, TypeInv, TypeOK

LEMMA SeenNext ==
    ASSUME TypeInv', NEW h \in Handler
    PROVE  /\ pc'[h] = "idle" => Phase'[h] = "idle"
           /\ pc'[h] \in {"enforce", "load"} => Phase'[h] = "asked"
           /\ pc'[h] = "write" => Phase'[h] = "checked"
           /\ pc'[h] = "audit" => Phase'[h] = "applied"
           /\ pc'[h] # "write" => Settled'[h] = {}
  BY DEF Phase, PhaseAt, Settled, TypeInv, TypeOK

(* Other handlers look the same after a step of h's own. *)
LEMMA OthersUnseen ==
    ASSUME NEW h \in Handler,
           \A g \in Handler \ {h} :
             pc'[g] = pc[g] /\ batch'[g] = batch[g] /\ loaded'[g] = loaded[g]
    PROVE  /\ Phase' = [Phase EXCEPT ![h] = Phase'[h]]
           /\ Settled' = [Settled EXCEPT ![h] = Settled'[h]]
           /\ Phase'[h] = Phase[h] => Phase' = Phase
           /\ Settled'[h] = Settled[h] => Settled' = Settled
  <1>1. ASSUME NEW g \in Handler \ {h}  PROVE Phase'[g] = Phase[g]
    BY DEF Phase
  <1>2. ASSUME NEW g \in Handler \ {h}  PROVE Settled'[g] = Settled[g]
    BY DEF Settled
  <1>3. Phase = [g \in Handler |-> Phase[g]]
    BY DEF Phase
  <1>4. Phase' = [g \in Handler |-> Phase'[g]]
    BY DEF Phase
  <1>5. Settled = [g \in Handler |-> Settled[g]]
    BY DEF Settled
  <1>6. Settled' = [g \in Handler |-> Settled'[g]]
    BY DEF Settled
  <1> QED  BY <1>1, <1>2, <1>3, <1>4, <1>5, <1>6

(* The statements of a transaction are invisible. *)
LEMMA Unseen ==
    ASSUME UNCHANGED <<files, versions, pc, batch, loaded, reply>>
    PROVE  UNCHANGED Store!vars
  BY DEF Store!vars, Phase, Settled

LEMMA AnswerSeen ==
    ASSUME TypeInv, TypeInv', NEW h \in Handler, NEW r, Answer(h, r)
    PROVE  Store!Finish(h, r)
  <1>1. /\ pc'[h] = "idle"
        /\ \A g \in Handler \ {h} :
             pc'[g] = pc[g] /\ batch'[g] = batch[g] /\ loaded'[g] = loaded[g]
    BY DEF Answer, TypeInv, TypeOK
  <1>2. Phase'[h] = "idle" /\ Settled'[h] = {}
    BY <1>1, SeenNext
  <1> QED
    BY <1>1, <1>2, OthersUnseen DEF Store!Finish, Answer

(* Whatever stops a request before its commit is a rejection. *)
LEMMA RejectSeen ==
    ASSUME TypeInv, TypeInv', NEW h \in Handler, pc[h] \in {"enforce", "load", "write"},
           NEW r \in {"conflict", "planLimit", "error"}, Answer(h, r),
           UNCHANGED <<files, versions>>
    PROVE  Store!Reject(h)
  <1>1. Phase[h] \in {"asked", "checked"}
    BY Seen
  <1>2. Store!Finish(h, r)
    BY AnswerSeen
  <1> QED
    BY <1>1, <1>2 DEF Store!Reject, Store!Rejection

LEMMA AskSeen ==
    ASSUME TypeInv, TypeInv', NEW h \in Handler, ApplyChanges(h)
    PROVE  Store!Ask(h) \/ Store!Refuse(h)
  <1>1. Phase[h] = "idle" /\ Settled[h] = {}
    BY Seen DEF ApplyChanges
  <1>2. PICK b \in Batch :
          \/ reply' = [reply EXCEPT ![h] = "badRequest"] /\ UNCHANGED <<pc, batch>>
          \/ /\ Valid(b)
             /\ pc' = [pc EXCEPT ![h] = IF Adding(b) > 0 THEN "enforce" ELSE "load"]
             /\ batch' = [batch EXCEPT ![h] = b]
             /\ reply' = [reply EXCEPT ![h] = "none"]
    BY DEF ApplyChanges
  <1>3. UNCHANGED <<files, versions, loaded>>
    BY DEF ApplyChanges, database
  <1>4. CASE reply' = [reply EXCEPT ![h] = "badRequest"] /\ UNCHANGED <<pc, batch>>
    <2>1. UNCHANGED <<Phase, Settled>>
      BY <1>3, <1>4 DEF Phase, Settled
    <2> QED  BY <1>1, <1>3, <1>4, <2>1 DEF Store!Refuse
  <1>5. CASE /\ Valid(b)
             /\ pc' = [pc EXCEPT ![h] = IF Adding(b) > 0 THEN "enforce" ELSE "load"]
             /\ batch' = [batch EXCEPT ![h] = b]
             /\ reply' = [reply EXCEPT ![h] = "none"]
    <2>1. /\ pc'[h] \in {"enforce", "load"}
          /\ \A g \in Handler \ {h} :
               pc'[g] = pc[g] /\ batch'[g] = batch[g] /\ loaded'[g] = loaded[g]
      BY <1>3, <1>5 DEF TypeInv, TypeOK
    <2>2. Phase'[h] = "asked" /\ Settled'[h] = {}
      BY <2>1, SeenNext
    <2>3. Settled' = Settled
      BY <1>1, <2>1, <2>2, OthersUnseen DEF Settled
    <2>4. Store!Valid(b)
      BY <1>5 DEF Store!Valid, Valid, Store!ValidChange, ValidChange,
                  Store!NoDuplicates, NoDuplicates
    <2> QED
      BY <1>1, <1>3, <1>5, <2>1, <2>2, <2>3, <2>4, OthersUnseen DEF Store!Ask
  <1> QED  BY <1>2, <1>4, <1>5

LEMMA CheckSeen ==
    ASSUME TypeInv, TypeInv', NEW h \in Handler, LoadCurrent(h), ~Answer(h, "conflict")
    PROVE  Store!Check(h)
  <1>1. /\ pc[h] = "load" /\ Current(files, batch[h])
        /\ pc' = [pc EXCEPT ![h] = "write"]
        /\ loaded' = [loaded EXCEPT ![h] =
             [f \in FileId |-> IF f \in Touched(batch[h]) THEN files[f] ELSE Absent]]
        /\ UNCHANGED <<files, versions, batch, reply>>
    BY DEF LoadCurrent, database
  <1>2. /\ pc'[h] = "write"
        /\ \A f \in Touched(batch[h]) : f \in FileId => loaded'[h][f] = files[f]
        /\ \A g \in Handler \ {h} :
             pc'[g] = pc[g] /\ batch'[g] = batch[g] /\ loaded'[g] = loaded[g]
    BY <1>1 DEF TypeInv, TypeOK
  <1>3. \A i \in Edits(batch[h]) : batch[h][i].id \in FileId \cap Touched(batch[h])
    BY BatchElement DEF Edits, Touched, Change, TypeInv, TypeOK
  <1>4. Phase[h] = "asked" /\ Phase'[h] = "checked"
    BY <1>1, <1>2, Seen, SeenNext
  <1>5. Settled'[h] = {i \in Edits(batch[h]) :
          ~batch[h][i].delete /\ ~Changed(files[batch[h][i].id], batch[h][i])}
    BY <1>1, <1>2, <1>3 DEF Settled
  <1>6. Settled'[h] = Store!Idle(files, batch[h])
    BY <1>5 DEF Store!Idle, Store!Edits, Edits, Store!Changed, Changed,
                Store!Retitled, Retitled, Store!Rewritten, Rewritten
  <1>7. Store!Current(files, batch[h])
    BY <1>1 DEF Store!Current, Current, Store!Edits, Edits
  <1> QED
    BY <1>1, <1>2, <1>4, <1>6, <1>7, OthersUnseen DEF Store!Check

LEMMA CommitSeen ==
    ASSUME Full, TypeInv', NEW h \in Handler, Commit(h)
    PROVE  Store!Apply(h)
  <1>1. /\ pc[h] = "write" /\ pc'[h] = "audit"
        /\ \A g \in Handler \ {h} :
             pc'[g] = pc[g] /\ batch'[g] = batch[g] /\ loaded'[g] = loaded[g]
        /\ UNCHANGED <<batch, reply>>
    BY DEF Commit, Full, Inv, TypeInv, TypeOK
  <1>2. Phase[h] = "checked" /\ Phase'[h] = "applied" /\ Settled'[h] = {}
    BY <1>1, Seen, SeenNext DEF Full, Inv
  <1>3. Store!Without(batch[h], Settled[h]) = Working(h)
    BY DEF Store!Without, Working
  <1>4. Store!Current(files, Working(h))
    BY CommitCurrent DEF Store!Current, Current, Store!Edits, Edits
  <1>5. Store!Creates(Working(h)) = Creates(Working(h))
    BY DEF Store!Creates, Creates
  <1>6. \A new : Store!Result(files, Working(h), new) = Result(files, Working(h), new)
    BY DEF Store!Result, Result, Store!Creates, Creates, Store!Edits, Edits,
           Store!Touched, Touched, Store!Created, Created, Store!After, After,
           Store!Changed, Changed, Store!Updated, Updated, Store!Retitled, Retitled,
           Store!Rewritten, Rewritten
  <1>7. \E new \in [Creates(Working(h)) -> {f \in FileId : files[f] = Absent}] :
          /\ \A i, j \in Creates(Working(h)) : new[i] = new[j] => i = j
          /\ files' = Store!Result(files, Working(h), new)
    BY <1>6, CommitResult
  <1>8. Store!PathsUnique(files')
    BY CommitVersions DEF Store!PathsUnique, PathsUnique
  <1>9. versions' = Store!ResultVersions(versions, files, files')
    BY CommitVersions DEF Store!ResultVersions, Store!SnapshotOf, SnapshotOf
  <1> QED
    BY <1>1, <1>2, <1>3, <1>4, <1>5, <1>7, <1>8, <1>9, OthersUnseen DEF Store!Apply

LEMMA StepSeen ==
    ASSUME Full, [Next]_vars PROVE [Store!Next]_Store!vars
  <1>0. TypeInv /\ TypeInv'
    BY TypeInvStep DEF Full, Inv
  <1>1. ASSUME NEW h \in Handler, ApplyChanges(h)  PROVE Store!Next
    BY <1>0, <1>1, AskSeen DEF Store!Next
  <1>2. ASSUME NEW h \in Handler, Enforce(h)  PROVE Store!Next \/ UNCHANGED Store!vars
    <2>1. CASE Answer(h, "planLimit")
      BY <1>0, <1>2, <2>1, RejectSeen DEF Enforce, database, Store!Next
    <2>2. CASE ~Answer(h, "planLimit")
      <3>1. /\ pc[h] = "enforce" /\ pc' = [pc EXCEPT ![h] = "load"]
            /\ UNCHANGED <<files, versions, batch, loaded, reply>>
        BY <1>2, <2>2 DEF Enforce, database
      <3>2. /\ pc'[h] = "load"
            /\ \A g \in Handler \ {h} : pc'[g] = pc[g]
        BY <1>0, <3>1 DEF TypeInv, TypeOK
      <3>3. Phase'[h] = Phase[h] /\ Settled'[h] = Settled[h]
        BY <1>0, <3>1, <3>2, Seen, SeenNext
      <3>4. UNCHANGED <<Phase, Settled>>
        BY <3>1, <3>2, <3>3, OthersUnseen
      <3> QED  BY <3>1, <3>4 DEF Store!vars
    <2> QED  BY <2>1, <2>2
  <1>3. ASSUME NEW h \in Handler, LoadCurrent(h)  PROVE Store!Next
    <2>1. CASE Answer(h, "conflict")
      BY <1>0, <1>3, <2>1, RejectSeen DEF LoadCurrent, database, Store!Next
    <2>2. CASE ~Answer(h, "conflict")
      BY <1>0, <1>3, <2>2, CheckSeen DEF Store!Next
    <2> QED  BY <2>1, <2>2
  <1>4. ASSUME NEW h \in Handler,
               DeleteFile(h) \/ SkipUpdate(h) \/ UpdateFile(h) \/ CreateFile(h)
        PROVE  UNCHANGED Store!vars
    <2>1. UNCHANGED <<files, versions, pc, batch, loaded, reply>>
      <3>1. CASE DeleteFile(h)  BY <3>1 DEF DeleteFile, Write
      <3>2. CASE SkipUpdate(h)  BY <3>2 DEF SkipUpdate, database
      <3>3. CASE UpdateFile(h)  BY <3>3 DEF UpdateFile, Write
      <3>4. CASE CreateFile(h)  BY <3>4 DEF CreateFile, Write
      <3> QED  BY <1>4, <3>1, <3>2, <3>3, <3>4
    <2> QED  BY <2>1, Unseen
  <1>5. ASSUME NEW h \in Handler, LostRace(h) \/ UniqueViolation(h)  PROVE Store!Next
    <2>1. pc[h] = "write" /\ Answer(h, "conflict") /\ UNCHANGED <<files, versions>>
      BY <1>5 DEF LostRace, UniqueViolation, Turn, database
    <2> QED  BY <1>0, <2>1, RejectSeen DEF Store!Next
  <1>6. ASSUME NEW h \in Handler, Commit(h)  PROVE Store!Next
    BY <1>0, <1>6, CommitSeen DEF Store!Next
  <1>7. ASSUME NEW h \in Handler, NEW r \in {"ok", "error"}, pc[h] = "audit",
               Answer(h, r), UNCHANGED <<files, versions>>
        PROVE  Store!Next
    <2>1. Phase[h] = "applied"
      BY <1>0, <1>7, Seen
    <2>2. Store!Finish(h, r)
      BY <1>0, <1>7, AnswerSeen
    <2> QED  BY <1>7, <2>1, <2>2 DEF Store!Answer, Store!Next
  <1>8. ASSUME NEW h \in Handler, LogMany(h) \/ Fail(h)  PROVE Store!Next
    <2>1. CASE LogMany(h)
      BY <1>7, <2>1 DEF LogMany
    <2>2. CASE Fail(h)
      <3>1. /\ pc[h] \in {"enforce", "load", "write", "audit"}
            /\ Answer(h, "error") /\ UNCHANGED <<files, versions>>
        BY <1>0, <2>2 DEF Fail, database, TypeInv, TypeOK
      <3> QED  BY <1>0, <1>7, <3>1, RejectSeen DEF Store!Next
    <2> QED  BY <1>8, <2>1, <2>2
  <1>9. CASE UNCHANGED vars
    BY <1>9, Unseen DEF vars
  <1> QED
    BY <1>1, <1>2, <1>3, <1>4, <1>5, <1>6, <1>8, <1>9 DEF Next, Handle

LEMMA InitSeen == Init => Store!Init
  <1> SUFFICES ASSUME Init PROVE Store!Init
    OBVIOUS
  <1>1. \A h \in Handler : Phase[h] = "idle" /\ Settled[h] = {}
    BY InitStage, Seen DEF Init
  <1>2. Phase = [h \in Handler |-> "idle"] /\ Settled = [h \in Handler |-> {}]
    BY <1>1 DEF Phase, Settled
  <1>3. versions = Store!FirstSnapshots(Seed)
    BY DEF Init, FirstSnapshots, Store!FirstSnapshots, SnapshotOf, Store!SnapshotOf
  <1> QED  BY <1>2, <1>3 DEF Init, Store!Init

(* The handlers implement requests that take effect in one step or not at  *)
(* all: however they interleave, wait for each other's rows, lose races,   *)
(* break the path index, crash and are rolled back.                        *)
THEOREM RequestsAreAtomic == Spec => ImplementsFileStore
  <1>1. Full /\ [Next]_vars => [Store!Next]_Store!vars
    BY StepSeen
  <1> QED
    BY <1>1, InitSeen, InitFull, FullStep, PTL DEF Spec, ImplementsFileStore, Store!Spec

-----------------------------------------------------------------------------
(* What a step may do to a file and to its history.                        *)

(* A change of f by handler h names the version that is being replaced.    *)
Requested(h, f) ==
    /\ pc[h] = "write"
    /\ \E i \in Edits(batch[h]) : batch[h][i].id = f /\ batch[h][i].base = files[f].version

(* A file appears at version 1; one that is there is replaced by its next  *)
(* version, or deleted, on a request that names the version it has.        *)
FileMoves(f) ==
    files'[f] # files[f] =>
        \/ /\ files[f] = Absent
           /\ files'[f].version = 1
        \/ /\ files[f] # Absent
           /\ files'[f] # Absent => files'[f].version = files[f].version + 1
           /\ \E h \in Handler : Requested(h, f)

(* A snapshot is never altered, and goes only together with its file.      *)
HistoryMoves == \A s \in versions : s \in versions' \/ files'[s.id] = Absent

LEMMA CommitMoves ==
    ASSUME Full, NEW h \in Handler, Commit(h), NEW f \in FileId
    PROVE  FileMoves(f)
  <1> SUFFICES ASSUME files'[f] # files[f]  PROVE FileMoves(f)
    BY DEF FileMoves
  <1>1. /\ pc[h] = "write" /\ files' = View(h) /\ PendingWrites(h)
    BY DEF Commit, Full, Inv, IInv
  <1>2. writes[h][f] # Clean /\ files'[f] = writes[h][f]
    BY <1>1, Sees
  <1>3. CASE files[f] = Absent
    BY <1>1, <1>2, <1>3 DEF PendingWrites, FileMoves
  <1>4. CASE files[f] # Absent
    <2>1. loaded[h][f] # Absent /\ files[f] = loaded[h][f]
          /\ (files'[f] # Absent => files'[f].version = files[f].version + 1)
      BY <1>1, <1>2, <1>4 DEF PendingWrites
    <2>2. PICK i \in Edits(batch[h]) : batch[h][i].id = f
      BY <1>1, <2>1 DEF Full, Inv, TypeInv, Stage, Touched
    <2>3. loaded[h][f].version = batch[h][i].base
      BY <1>1, <2>2 DEF Full, StoreInv, CarriedOut
    <2>4. Requested(h, f)
      BY <1>1, <2>1, <2>2, <2>3 DEF Requested
    <2> QED  BY <1>4, <2>1, <2>4 DEF FileMoves
  <1> QED  BY <1>3, <1>4

LEMMA StepMoves == Full /\ [Next]_vars => (\A f \in FileId : FileMoves(f)) /\ HistoryMoves
  <1> SUFFICES ASSUME Full, [Next]_vars
               PROVE  (\A f \in FileId : FileMoves(f)) /\ HistoryMoves
    OBVIOUS
  <1>1. ASSUME NEW h \in Handler, Commit(h)  PROVE HistoryMoves
    BY <1>1, CommitVersions DEF HistoryMoves
  <1>2. CASE UNCHANGED <<files, versions>>
    BY <1>2 DEF FileMoves, HistoryMoves
  <1>3. ASSUME NEW h \in Handler,
               DeleteFile(h) \/ SkipUpdate(h) \/ UpdateFile(h) \/ CreateFile(h)
        PROVE  UNCHANGED <<files, versions>>
    BY <1>3 DEF DeleteFile, SkipUpdate, UpdateFile, CreateFile, Write, database
  <1>4. ASSUME NEW h \in Handler,
               \/ ApplyChanges(h) \/ Enforce(h) \/ LoadCurrent(h) \/ LostRace(h)
               \/ UniqueViolation(h) \/ LogMany(h) \/ Fail(h)
        PROVE  UNCHANGED <<files, versions>>
    BY <1>4 DEF ApplyChanges, Enforce, LoadCurrent, LostRace, UniqueViolation, LogMany,
                Fail, database
  <1> QED
    BY <1>1, <1>2, <1>3, <1>4, CommitMoves DEF Next, Handle, vars

(* Optimistic concurrency, as a client of applyChanges sees it: a version  *)
(* is replaced or deleted only by a request that names it as its base,     *)
(* however the transactions interleave, and the history, from which a      *)
(* client restores a version, keeps what it has.                           *)
THEOREM ReplacedAtBase ==
    Spec => [][(\A f \in FileId : FileMoves(f)) /\ HistoryMoves]_vars
  <1> QED  BY StepMoves, InitFull, FullStep, PTL DEF Spec

-----------------------------------------------------------------------------
(* What the plan is asked for.                                             *)

LEMMA CountsAreNat ==
    /\ Cardinality(LiveFiles) \in Nat /\ Cardinality(LiveFiles)' \in Nat
    /\ IsFiniteSet(LiveFiles) /\ IsFiniteSet(LiveFiles)'
  <1>1. \A T \in SUBSET FileId : IsFiniteSet(T) /\ Cardinality(T) \in Nat
    BY LimitAssumption, FS_Subset, FS_CardinalityType
  <1> QED  BY <1>1 DEF LiveFiles

LEMMA AddingIsInt ==
    ASSUME NEW b \in Batch \cup {<< >>}
    PROVE  /\ IsFiniteSet(Creates(b)) /\ IsFiniteSet(Deletes(b))
           /\ Cardinality(Creates(b)) \in Nat /\ Cardinality(Deletes(b)) \in Nat
           /\ Adding(b) \in Int
  <1>1. IsFiniteSet(DOMAIN b)
    <2>1. CASE b \in Batch
      <3>1. b \in Seq(Change)
        BY <2>1, BatchAssumption
      <3>2. DOMAIN b = 1..Len(b) /\ Len(b) \in Nat
        BY <3>1
      <3> QED  BY <3>2, FS_Interval
    <2>2. CASE b = << >>
      <3>1. DOMAIN b = {}
        BY <2>2
      <3> QED  BY <3>1, FS_EmptySet
    <2> QED  BY <2>1, <2>2
  <1>2. Creates(b) \subseteq DOMAIN b /\ Deletes(b) \subseteq DOMAIN b
    BY DEF Creates, Deletes
  <1>3. /\ IsFiniteSet(Creates(b)) /\ IsFiniteSet(Deletes(b))
        /\ Cardinality(Creates(b)) \in Nat /\ Cardinality(Deletes(b)) \in Nat
    BY <1>1, <1>2, FS_Subset, FS_CardinalityType
  <1> QED  BY <1>3 DEF Adding

(* A commit deletes one file for each deletion and makes one for each      *)
(* creation.                                                               *)
LEMMA CommitGrowth ==
    ASSUME Full, NEW h \in Handler, Commit(h)
    PROVE  Cardinality(LiveFiles)' <= Cardinality(LiveFiles) + Adding(batch[h])
  <1> DEFINE b == batch[h]
             Gone == {b[i].id : i \in Deletes(b)}
             goes == [i \in Deletes(b) |-> b[i].id]
  <1>1. /\ pc[h] = "write" /\ done[h] = DOMAIN b /\ files' = View(h)
        /\ b \in Batch \cup {<< >>} /\ Valid(b) /\ b \in Seq(Change)
        /\ CarriedOut(h) /\ PendingWrites(h)
    <2>1. pc[h] = "write" /\ done[h] = DOMAIN b /\ files' = View(h)
      BY DEF Commit
    <2>2. b \in Batch \cup {<< >>}
      BY DEF Full, Inv, TypeInv, TypeOK
    <2>3. Valid(b) /\ PendingWrites(h) /\ CarriedOut(h)
      BY <2>1 DEF Full, StoreInv, Inv, TypeInv, Stage, IInv
    <2>4. b \in Batch
      BY <2>2, <2>3 DEF Valid
    <2> QED  BY <2>1, <2>2, <2>3, <2>4, BatchAssumption
  <1>2. PICK new \in [Creates(b) -> {f \in FileId : files[f] = Absent}] :
          \A f \in FileId : loaded[h][f] = Absent /\ writes[h][f] # Clean =>
            \E i \in Creates(b) : new[i] = f
    BY CreationDone
  <1> DEFINE New == {new[i] : i \in Creates(b)}
  <1>3. ASSUME NEW i \in Deletes(b)
        PROVE  /\ b[i].id \in LiveFiles /\ writes[h][b[i].id] = Absent
               /\ i \in Edits(b)
    <2>1. i \in Edits(b) /\ i \in done[h] /\ b[i].delete
      BY <1>1 DEF Deletes, Edits, Valid, ValidChange
    <2>2. b[i].id \in FileId /\ loaded[h][b[i].id] \in Row
      BY <1>1, <2>1, EditFacts DEF Full, Inv
    <2>3. writes[h][b[i].id] = Absent
      BY <1>1, <2>1 DEF CarriedOut, After
    <2>4. files[b[i].id] = loaded[h][b[i].id] /\ loaded[h][b[i].id] # Absent
      BY <1>1, <2>2, <2>3, Nulls DEF PendingWrites
    <2> QED  BY <2>1, <2>2, <2>3, <2>4 DEF LiveFiles
  <1>4. \A i, j \in Deletes(b) : b[i].id = b[j].id => i = j
    BY <1>1, <1>3 DEF Valid, NoDuplicates, Edits, Deletes
  <1>5. LiveFiles' \subseteq (LiveFiles \ Gone) \cup New
    <2> SUFFICES ASSUME NEW f \in FileId, View(h)[f] # Absent
                 PROVE  f \in (LiveFiles \ Gone) \cup New
      BY <1>1 DEF LiveFiles
    <2>1. f \notin Gone
      BY <1>3, Sees, NullAssumption
    <2>2. CASE writes[h][f] = Clean
      BY <2>1, <2>2, Sees DEF LiveFiles
    <2>3. CASE writes[h][f] # Clean /\ loaded[h][f] = Absent
      BY <1>2, <2>3
    <2>4. CASE writes[h][f] # Clean /\ loaded[h][f] # Absent
      BY <1>1, <2>1, <2>4 DEF PendingWrites, LiveFiles
    <2> QED  BY <2>2, <2>3, <2>4
  <1>6. Gone \subseteq LiveFiles /\ New \cap LiveFiles = {}
    BY <1>2, <1>3 DEF LiveFiles
  <1>7. /\ IsFiniteSet(Creates(b)) /\ IsFiniteSet(Deletes(b))
        /\ Cardinality(Creates(b)) \in Nat /\ Cardinality(Deletes(b)) \in Nat
    BY <1>1, AddingIsInt
  <1>8. IsFiniteSet(Gone) /\ Cardinality(Gone) \in Nat /\ Cardinality(Deletes(b)) <= Cardinality(Gone)
    <2>1. IsFiniteSet(Gone)
      BY <1>6, CountsAreNat, FS_Subset
    <2>2. goes \in Injection(Deletes(b), Gone)
      BY <1>4 DEF Injection, IsInjective
    <2> QED  BY <2>1, <2>2, FS_Injection, FS_CardinalityType
  <1>9. IsFiniteSet(New) /\ Cardinality(New) \in Nat /\ Cardinality(New) <= Cardinality(Creates(b))
    <2>1. new \in Surjection(Creates(b), New)
      BY <1>2 DEF Surjection
    <2> QED  BY <1>7, <2>1, FS_Surjection, FS_CardinalityType
  <1> HIDE DEF Gone, New
  <1> DEFINE Left == LiveFiles \ Gone
  <1>10. IsFiniteSet(Left) /\ Cardinality(Left) = Cardinality(LiveFiles) - Cardinality(Gone)
    <2>1. LiveFiles \cap Gone = Gone
      BY <1>6
    <2> QED  BY <2>1, CountsAreNat, FS_Difference
  <1>11. Left \cap New = {}
    BY <1>6
  <1> HIDE DEF Left
  <1>12. IsFiniteSet(Left \cup New)
         /\ Cardinality(Left \cup New) = Cardinality(Left) + Cardinality(New)
    <2>1. Cardinality(Left \cap New) = 0
      BY <1>11, FS_EmptySet
    <2>2. Cardinality(Left) \in Nat
      BY <1>10, FS_CardinalityType
    <2>3. /\ IsFiniteSet(Left \cup New)
          /\ Cardinality(Left \cup New)
               = Cardinality(Left) + Cardinality(New) - Cardinality(Left \cap New)
      BY <1>9, <1>10, FS_Union
    <2> QED  BY <1>9, <2>1, <2>2, <2>3
  <1>13. LiveFiles' \in SUBSET (Left \cup New)
    BY <1>5 DEF Left
  <1>14. Cardinality(LiveFiles') <= Cardinality(Left \cup New)
    BY <1>12, <1>13, FS_Subset
  <1> QED  BY <1>7, <1>8, <1>9, <1>10, <1>12, <1>14, CountsAreNat DEF Adding

(* What applyChanges asks the plan for, creations less deletions, is what a *)
(* commit adds to the files at most: a deletion that finds its file gone   *)
(* ends the request, so none of them counts for nothing.                   *)
THEOREM AddsNoMoreThanAsked ==
    Spec => [][\A h \in Handler : Commit(h) =>
                  Cardinality(LiveFiles)' <= Cardinality(LiveFiles) + Adding(batch[h])]_vars
  <1>1. Full => \A h \in Handler : Commit(h) =>
                  Cardinality(LiveFiles)' <= Cardinality(LiveFiles) + Adding(batch[h])
    BY CommitGrowth
  <1> QED  BY <1>1, InitFull, FullStep, PTL DEF Spec
=============================================================================
