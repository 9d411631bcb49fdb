------------------------------ MODULE SyncProofs ------------------------------
(***************************************************************************)
(* Proofs about Sync, for any files, paths and contents, any commands and  *)
(* any changes that teammates may make.                                    *)
(***************************************************************************)
EXTENDS Sync, FiniteSetTheorems, FunctionTheorems, TLAPS

Rows == [FileId -> Row \cup {Absent}]
Contents == [Path -> Hash \cup {Absent}]

-----------------------------------------------------------------------------
(* What an entry of a plan says, with the listing l, the base s and the    *)
(* content d of the local files that the plan was made from.               *)
Sound(e, l, s, d) ==
    /\ e \in EntryType
    /\ e.remote # Absent => e.id \in FileId /\ e.remote = l[e.id]
    /\ e.remote = Absent => e.id = Unset
    /\ e.local = Absent => e.remote # Absent
    /\ e.kind \in {"Untracked", "DeletedOnServer"} => e.remote = Absent
    /\ e.kind \in {"InSync", "Modified", "Deleted", "Renamed", "Behind",
                   "NewOnServer"} => e.remote # Absent
    /\ e.kind \in {"Modified", "Deleted", "Renamed"} =>
         s[e.id] # Absent /\ s[e.id].version = e.remote.version
    /\ e.kind = "InSync" =>
         \/ /\ s[e.id] # Absent
            /\ s[e.id].version = e.remote.version
            /\ e.path = s[e.id].path
            /\ d[e.path] = s[e.id].hash
         \/ e.path = e.remote.path /\ d[e.path] = e.remote.hash
    /\ e.kind = "Behind" =>
         /\ s[e.id] # Absent
         /\ d[s[e.id].path] = s[e.id].hash
         /\ e.path = e.remote.path
         /\ e.from = Unset => s[e.id].path = e.path
         /\ e.from # Unset =>
              e.from = s[e.id].path /\ d[e.path] \in {Absent, e.remote.hash}
    /\ e.kind = "NewOnServer" => e.path = e.remote.path /\ d[e.path] = Absent
    /\ e.kind = "DeletedOnServer" =>
         \E f \in FileId :
            s[f] # Absent /\ s[f].path = e.path /\ s[f].hash = d[e.path]

(* An entry for a file that the server lists and this machine has synced.  *)
LEMMA SyncedSound ==
    ASSUME NEW l \in Rows, NEW s \in Rows, NEW d \in Contents, NEW f \in FileId,
           l[f] # Absent, s[f] # Absent
    PROVE  Sound(PlanSynced(f, l[f], s[f], d), l, s, d)
  <1> DEFINE r == l[f]
             b == s[f]
             hash == d[b.path]
             changed == hash # b.hash
             moved == r.path # b.path
             occupied == moved /\ d[r.path] \notin {Absent, r.hash}
             e == PlanSynced(f, r, b, d)
  <1>1. /\ r \in Row /\ b \in Row
        /\ r.path \in Path /\ b.path \in Path
        /\ hash \in Hash \cup {Absent} /\ d[r.path] \in Hash \cup {Absent}
        /\ b.hash \in Hash /\ r.hash \in Hash
    BY DEF Rows, Contents, Row
  <1>2. CASE r.version = b.version /\ hash = Absent
    <2>1. e = Entry("Deleted", b.path, f, r, Absent, Unset)
      BY <1>2, <1>1 DEF PlanSynced
    <2> QED  BY <1>1, <1>2, <2>1, NullAssumption, DiskAssumption
              DEF Sound, Entry, EntryType
  <1>3. CASE r.version = b.version /\ hash # Absent
    <2>1. e = Entry(IF changed THEN "Modified" ELSE "InSync", b.path, f, r, hash, Unset)
      BY <1>3, <1>1 DEF PlanSynced
    <2> QED  BY <1>1, <1>3, <2>1, NullAssumption, DiskAssumption
              DEF Sound, Entry, EntryType
  <1>4. CASE r.version # b.version /\ ~changed /\ occupied
    <2>1. e = Entry("Conflict", r.path, f, r, d[r.path], b.path)
      BY <1>4, <1>1 DEF PlanSynced
    <2> QED  BY <1>1, <1>4, <2>1, NullAssumption, DiskAssumption
              DEF Sound, Entry, EntryType
  <1>5. CASE r.version # b.version /\ ~changed /\ ~occupied
    <2>1. e = Entry("Behind", r.path, f, r, hash, IF moved THEN b.path ELSE Unset)
      BY <1>5, <1>1 DEF PlanSynced
    <2> QED  BY <1>1, <1>5, <2>1, NullAssumption, DiskAssumption
              DEF Sound, Entry, EntryType
  <1>6. CASE r.version # b.version /\ changed /\ hash = r.hash /\ ~moved
    <2>1. e = Entry("InSync", r.path, f, r, hash, Unset)
      BY <1>6, <1>1 DEF PlanSynced
    <2> QED  BY <1>1, <1>6, <2>1, NullAssumption, DiskAssumption
              DEF Sound, Entry, EntryType
  <1>7. CASE r.version # b.version /\ changed /\ ~(hash = r.hash /\ ~moved)
    <2>1. e = Entry("Conflict", b.path, f, r, hash, Unset)
      BY <1>7, <1>1 DEF PlanSynced
    <2> QED  BY <1>1, <1>7, <2>1, NullAssumption, DiskAssumption
              DEF Sound, Entry, EntryType
  <1> QED  BY <1>2, <1>3, <1>4, <1>5, <1>6, <1>7

(* An entry for a file that the server lists and this machine never synced. *)
LEMMA UnsyncedSound ==
    ASSUME NEW l \in Rows, NEW s \in Rows, NEW d \in Contents, NEW f \in FileId,
           l[f] # Absent
    PROVE  Sound(PlanUnsynced(f, l[f], d), l, s, d)
  <1>1. l[f] \in Row /\ l[f].path \in Path /\ d[l[f].path] \in Hash \cup {Absent}
    BY DEF Rows, Contents, Row
  <1> QED
    BY <1>1, NullAssumption, DiskAssumption
       DEF PlanUnsynced, Sound, Entry, EntryType

LEMMA GoneSound ==
    ASSUME NEW l \in Rows, NEW s \in Rows, NEW d \in Contents,
           NEW G \in SUBSET Gone(l, s), NEW e \in GoneEntries(G, s, d)
    PROVE  Sound(e, l, s, d)
  <1>1. PICK f \in G :
          /\ d[s[f].path] # Absent
          /\ e = Entry(IF d[s[f].path] = s[f].hash THEN "DeletedOnServer" ELSE "Conflict",
                       s[f].path, Unset, Absent, d[s[f].path], Unset)
    BY DEF GoneEntries
  <1>2. f \in FileId /\ s[f] # Absent
    BY DEF Gone
  <1>3. s[f] \in Row /\ s[f].path \in Path /\ d[s[f].path] \in Hash
    BY <1>1, <1>2 DEF Rows, Contents, Row
  <1> QED
    BY <1>1, <1>2, <1>3, NullAssumption DEF Sound, Entry, EntryType

LEMMA UntrackedSound ==
    ASSUME NEW l \in Rows, NEW s \in Rows, NEW d \in Contents,
           NEW C \in SUBSET Path, NEW e \in UntrackedEntries(l, s, d, C)
    PROVE  Sound(e, l, s, d)
  <1>1. PICK p \in C : /\ d[p] # Absent
                       /\ e = Entry("Untracked", p, Unset, Absent, d[p], Unset)
    BY DEF UntrackedEntries
  <1>2. d[p] \in Hash
    BY <1>1 DEF Contents
  <1> QED
    BY <1>1, <1>2, NullAssumption DEF Sound, Entry, EntryType

(* A rename takes the place of the deleted and the untracked entry that it *)
(* pairs, and says no more than they do.                                   *)
LEMMA RenamesSound ==
    ASSUME NEW l, NEW s, NEW d, NEW E,
           \A e \in E : Sound(e, l, s, d),
           NEW e \in PairRenames(E)
    PROVE  Sound(e, l, s, d)
  <1>1. CASE e \in E
    BY <1>1
  <1>2. CASE e \notin E
    <2>1. PICK r \in Renames(E) :
            e = Entry("Renamed", r[2].path, r[1].id, r[1].remote, r[2].local,
                      r[1].path)
      BY <1>2 DEF PairRenames
    <2>2. /\ r[1] \in E /\ r[1].kind = "Deleted"
          /\ r[2] \in E /\ r[2].kind = "Untracked"
      BY DEF Renames
    <2>3. Sound(r[1], l, s, d) /\ Sound(r[2], l, s, d)
      BY <2>2
    <2> QED
      BY <2>1, <2>2, <2>3, NullAssumption DEF Sound, Entry, EntryType
  <1> QED  BY <1>1, <1>2

LEMMA PlansSound ==
    ASSUME NEW l \in Rows, NEW s \in Rows, NEW d \in Contents,
           NEW C \in SUBSET Path, NEW P \in Plans(l, s, d, C), NEW e \in P
    PROVE  Sound(e, l, s, d)
  <1>1. PICK G \in Judges(l, s) :
          P = PairRenames(RemoteEntries(l, s, d) \cup GoneEntries(G, s, d)
                            \cup UntrackedEntries(l, s, d, C))
    BY DEF Plans
  <1>2. G \in SUBSET Gone(l, s)
    BY DEF Judges
  <1>3. ASSUME NEW x \in RemoteEntries(l, s, d)  PROVE Sound(x, l, s, d)
    <2>1. PICK f \in FileId :
            /\ l[f] # Absent
            /\ x = IF s[f] # Absent THEN PlanSynced(f, l[f], s[f], d)
                                    ELSE PlanUnsynced(f, l[f], d)
      BY <1>3 DEF RemoteEntries
    <2> QED  BY <2>1, SyncedSound, UnsyncedSound
  <1>4. \A x \in RemoteEntries(l, s, d) \cup GoneEntries(G, s, d)
                   \cup UntrackedEntries(l, s, d, C) : Sound(x, l, s, d)
    BY <1>2, <1>3, GoneSound, UntrackedSound
  <1> QED  BY <1>1, <1>4, RenamesSound

-----------------------------------------------------------------------------
(* What a change request does to the rows. *)

(* A set that is no larger than another maps into it one to one. *)
LEMMA Injects ==
    ASSUME NEW S, NEW T, IsFiniteSet(S), IsFiniteSet(T),
           Cardinality(S) <= Cardinality(T)
    PROVE  \E new \in [S -> T] : \A x, y \in S : new[x] = new[y] => x = y
  <1> DEFINE n == Cardinality(S)
             m == Cardinality(T)
             id == [k \in 1..n |-> k]
  <1>1. n \in Nat /\ m \in Nat /\ ExistsBijection(1..n, S) /\ ExistsBijection(1..m, T)
    BY FS_CardinalityType
  <1>2. id \in [1..n -> 1..m] /\ \A j, k \in 1..n : id[j] = id[k] => j = k
    BY <1>1
  <1>3. id \in Injection(1..n, 1..m)
    BY <1>2, Fun_IsInj, Zenon
  <1>4. ExistsInjection(1..n, 1..m)
    BY <1>3 DEF ExistsInjection
  <1>5. ExistsBijection(S, 1..n)
    BY <1>1, Fun_ExistsBijSymmetric
  <1>6. ExistsInjection(S, 1..n) /\ ExistsInjection(1..m, T)
    BY <1>1, <1>5 DEF ExistsInjection, ExistsBijection, Bijection
  <1>7. ExistsInjection(S, T)
    BY <1>4, <1>6, Fun_ExistsInjTransitive
  <1>8. PICK new : new \in Injection(S, T)
    BY <1>7 DEF ExistsInjection
  <1> QED  BY <1>8, Fun_InjectionProperties

(* A request has finitely many changes. *)
Request(b) == IsFiniteSet(DOMAIN b) /\ \A i \in DOMAIN b : b[i] \in Change

LEMMA FreshIds ==
    ASSUME NEW b, Request(b), issued \in SUBSET FileId, Accepts(b)
    PROVE  /\ NewIds(b) \in [Creates(b) -> FileId \ issued]
           /\ \A i, j \in Creates(b) : NewIds(b)[i] = NewIds(b)[j] => i = j
  <1>1. IsFiniteSet(Creates(b))
    BY FS_Subset DEF Request, Creates
  <1>2. IsFiniteSet(FileId \ issued)
    BY FS_Subset, SyncAssumption
  <1>3. Cardinality(Creates(b)) <= Cardinality(FileId \ issued)
    BY <1>1, <1>2, FS_CardinalityType DEF Accepts
  <1>4. \E new \in [Creates(b) -> FileId \ issued] :
           \A i, j \in Creates(b) : new[i] = new[j] => i = j
    BY <1>1, <1>2, <1>3, Injects
  <1> QED  BY <1>4, Zenon DEF NewIds

(* The row after one change is gone, the same or the next version. *)
LEMMA AfterRow ==
    ASSUME NEW row \in Row, NEW c \in Change
    PROVE  \/ After(row, c) = Absent
           \/ After(row, c) = row
           \/ After(row, c) \in Row /\ After(row, c).version = row.version + 1
  BY DEF After, Updated, Retitled, Rewritten, Row, Version, Change

(* How a file fares in a request. *)
Fares(f) ==
    \/ files'[f] = files[f]
    \/ files[f] # Absent /\ files'[f] = Absent
    \/ /\ files[f] # Absent
       /\ files'[f] \in Row
       /\ files'[f].version = files[f].version + 1
    \/ /\ f \notin issued /\ files[f] = Absent
       /\ files'[f] \in Row
       /\ f \in issued'

Housed == \A f \in FileId : files[f] # Absent => f \in issued

(* Every file keeps its row, is deleted, gains a version or is new; only   *)
(* files that the request names lose the row that they had.                *)
LEMMA TakeFacts ==
    ASSUME NEW b, Request(b), issued \in SUBSET FileId, files \in Rows, Housed,
           Take(b)
    PROVE  /\ files' \in Rows
           /\ issued \subseteq issued' /\ issued' \subseteq FileId
           /\ Housed'
           /\ \A f \in FileId : Fares(f)
           /\ \A f \in FileId :
                files[f] # Absent /\ files'[f] # files[f] => f \in Touched(b)
  <1> DEFINE new == NewIds(b)
  <1>1. /\ Accepts(b)
        /\ files' = Result(files, b, new)
        /\ issued' = issued \cup {new[i] : i \in Creates(b)}
    BY DEF Take
  <1>2. new \in [Creates(b) -> FileId \ issued]
    BY <1>1, FreshIds
  <1> HIDE DEF new
  <1>3. ASSUME NEW f \in FileId, NEW j \in Creates(b), new[j] = f
        PROVE  /\ f \notin issued /\ files[f] = Absent
               /\ files'[f] \in Row
               /\ f \in issued'
    <2> DEFINE k == CHOOSE i \in Creates(b) : new[i] = f
    <2>1. files'[f] = Created(b[k]) /\ k \in Creates(b)
      BY <1>1, <1>3 DEF Result
    <2>2. b[k] \in Change /\ ValidChange(b[k]) /\ b[k].id = Unset
      BY <1>1, <2>1 DEF Creates, Request, Accepts, Valid
    <2>3. Created(b[k]) \in Row
      BY <2>2 DEF ValidChange, Created, Change, Row, Version
    <2>4. f \notin issued /\ f \in issued'
      BY <1>1, <1>2, <1>3
    <2> QED  BY <2>1, <2>3, <2>4 DEF Housed
  <1>4. ASSUME NEW f \in FileId, ~\E j \in Creates(b) : new[j] = f, f \in Touched(b)
        PROVE  /\ Fares(f)
               /\ files'[f] \in Row \cup {Absent}
    <2> DEFINE k == CHOOSE i \in Edits(b) : b[i].id = f
    <2>1. files'[f] = After(files[f], b[k]) /\ k \in Edits(b) /\ b[k].id = f
      BY <1>1, <1>4 DEF Result, Touched
    <2>2. b[k] \in Change /\ files[b[k].id] # Absent
      BY <1>1, <2>1 DEF Edits, Request, Accepts, Current
    <2>3. files[f] \in Row
      BY <2>1, <2>2 DEF Rows
    <2> QED  BY <2>1, <2>2, <2>3, AfterRow DEF Fares
  <1>5. ASSUME NEW f \in FileId, ~\E j \in Creates(b) : new[j] = f, f \notin Touched(b)
        PROVE  files'[f] = files[f]
    BY <1>1, <1>5 DEF Result
  <1>6. \A f \in FileId : Fares(f)
    BY <1>3, <1>4, <1>5, Zenon DEF Fares
  <1>7. \A f \in FileId : files'[f] \in Row \cup {Absent}
    BY <1>3, <1>4, <1>5 DEF Rows
  <1>8. files' \in Rows
    <2>1. files' = [f \in FileId |-> files'[f]]
      BY <1>1 DEF Result
    <2> QED  BY <1>7, <2>1 DEF Rows
  <1>9. issued \subseteq issued' /\ issued' \subseteq FileId
    BY <1>1, <1>2
  <1>10. Housed'
    BY <1>6, <1>9 DEF Housed, Fares
  <1>11. ASSUME NEW f \in FileId, files[f] # Absent, files'[f] # files[f]
         PROVE  f \in Touched(b)
    BY <1>3, <1>5, <1>11
  <1> QED  BY <1>6, <1>8, <1>9, <1>10, <1>11

-----------------------------------------------------------------------------
(* What a command holds: a plan that fits the listing, the base and the    *)
(* content that it was made from, the entries of a pull, or changes that   *)
(* are based on the rows that were listed.                                 *)
Based(j) ==
    j.change.id # Unset =>
        /\ j.entry.id = j.change.id
        /\ j.entry.remote # Absent
        /\ j.change.base = j.entry.remote.version

Working ==
    /\ op \in {"idle", "scan"} => plan = {}
    /\ \A e \in plan : Sound(e, listing, base, seen)
    /\ op = "write" => todo \subseteq plan /\ cmd.name = "pull"
    /\ op = "write" /\ ~cmd.force =>
         \A e \in todo : e.kind \in {"Behind", "NewOnServer", "DeletedOnServer"}
    /\ op = "send" => \A j \in todo : Based(j)
    /\ op = "send" /\ cmd.name = "push" =>
         \A j \in todo : j.entry \in plan /\ (cmd.force \/ IsLocalChange(j.entry))

SyncInv == TypeOK /\ Housed /\ Working

LEMMA InitSync == Init => SyncInv
  <1> SUFFICES ASSUME Init PROVE SyncInv
    OBVIOUS
  <1>1. NoCommand \in Command
    BY DEF NoCommand, Command
  <1>2. history \subseteq Snapshot
    BY SeedAssumption DEF Init, FirstSnapshots, SnapshotOf, Snapshot, Row
  <1>3. TypeOK
    <2>1. Seed \in Rows
      BY SeedAssumption DEF Rows
    <2>2. MaxCommands \in Nat /\ MaxEdits \in Nat /\ MaxTeamwork \in Nat
      BY SyncAssumption
    <2>3. /\ NoRows \in Rows /\ NoRows \in [FileId -> Hash \cup {Absent}]
          /\ NoContent \in Contents
      BY DEF NoRows, NoContent, Rows, Contents
    <2>4. issued \subseteq FileId
      BY DEF Init
    <2>5. used \in [commands : 0..MaxCommands, edits : 0..MaxEdits,
                   teamwork : 0..MaxTeamwork]
      BY <2>2 DEF Init
    <2>6. files \in Rows /\ base \in Rows /\ listing \in Rows /\ state \in Rows
      BY <2>1, <2>3 DEF Init
    <2>7. /\ disk \in Contents /\ seen \in Contents
          /\ blobs \in [FileId -> Hash \cup {Absent}]
      BY <2>3 DEF Init
    <2>8. cmd \in Command /\ failed \in BOOLEAN /\ op = "idle"
      BY <1>1 DEF Init
    <2>9. ignored = {} /\ plan = {} /\ todo = {}
      BY DEF Init
    <2> QED
      BY <1>2, <2>2, <2>4, <2>5, <2>6, <2>7, <2>8, <2>9 DEF TypeOK, Rows, Contents
  <1> QED
    BY <1>3 DEF Init, SyncInv, Housed, Working

(* The end of a command. *)
LEMMA EndSync ==
    ASSUME SyncInv, End, server' = server, disk' \in Contents, base' \in Rows,
           ignored' \in SUBSET Path, UNCHANGED used
    PROVE  SyncInv'
  <1>1. NoCommand \in Command
    BY DEF NoCommand, Command
  <1>2. TypeOK'
    BY <1>1 DEF SyncInv, TypeOK, End, NoRows, NoContent, Rows, Contents, server
  <1> QED
    BY <1>2 DEF SyncInv, Working, Housed, End, server

LEMMA TakeSync ==
    ASSUME SyncInv, NEW b, Request(b), Take(b)
    PROVE  /\ files' \in Rows /\ issued' \subseteq FileId /\ history' \subseteq Snapshot
           /\ Housed'
  <1>1. files' \in Rows /\ issued' \subseteq FileId /\ Housed'
    BY TakeFacts DEF SyncInv, TypeOK, Rows
  <1>2. ASSUME NEW f \in FileId, files'[f] # Absent
        PROVE  SnapshotOf(f, files'[f]) \in Snapshot
    BY <1>1, <1>2 DEF Rows, Row, SnapshotOf, Snapshot
  <1>3. history' \subseteq Snapshot
    BY <1>2 DEF Take, SyncInv, TypeOK
  <1> QED  BY <1>1, <1>3

LEMMA BatchRequest == ASSUME NEW b \in Batch PROVE Request(b)
  <1>1. b \in Seq(Change)
    BY BatchAssumption
  <1>2. DOMAIN b = 1..Len(b) /\ Len(b) \in Nat
    BY <1>1
  <1>3. IsFiniteSet(DOMAIN b)
    BY <1>2, FS_Interval
  <1> QED  BY <1>1, <1>3 DEF Request

LEMMA JobsRequest ==
    ASSUME SyncInv, op = "send", NEW jobs \in Requests
    PROVE  Request(Body(jobs)) /\ jobs \subseteq todo /\ DOMAIN Body(jobs) = jobs
  BY DEF Requests, Request, Body, SyncInv, TypeOK

(* Save keeps a base of rows. *)
LEMMA SaveRows ==
    ASSUME SyncInv, Save(state)
    PROVE  base' \in Rows
  BY DEF Save, SyncInv, TypeOK, Rows

LEMMA ScanSync == SyncInv /\ Scan => SyncInv'
  <1> SUFFICES ASSUME SyncInv, Scan PROVE SyncInv'
    OBVIOUS
  <1>1. (Trackable \ ignored) \cup cmd.named \in SUBSET Path
    BY SyncAssumption DEF SyncInv, TypeOK, Command
  <1>2. listing \in Rows /\ base \in Rows /\ disk \in Contents
    BY DEF SyncInv, TypeOK, Rows, Contents
  <1>3. \A e \in plan' : Sound(e, listing, base, disk)
    BY <1>1, <1>2, PlansSound DEF Scan
  <1>4. plan' \subseteq EntryType
    BY <1>3 DEF Sound
  <1>5. TypeOK'
    BY <1>4 DEF Scan, SyncInv, TypeOK, server
  <1> QED
    BY <1>3, <1>5 DEF Scan, SyncInv, Working, Housed, server

(* The change that is made for an entry of the plan. *)
LEMMA ChangeType ==
    ASSUME SyncInv, NEW e \in plan, ~Unreadable(e)
    PROVE  BuildChange(e) \in Change /\ Based(Job(e, BuildChange(e)))
  <1>1. Sound(e, listing, base, seen) /\ e \in EntryType
    BY DEF SyncInv, Working, TypeOK
  <1>2. /\ e.path \in Path /\ e.local \in Hash \cup {Absent}
        /\ e.remote \in Row \cup {Absent} /\ e.id \in FileId \cup {Unset}
    BY <1>1 DEF EntryType
  <1>3. disk[e.path] \in Hash \cup {Absent}
    BY <1>2 DEF SyncInv, TypeOK
  <1>4. CASE e.local = Absent
    <2>1. BuildChange(e) = DeleteChange(e.id, e.remote)
      BY <1>4 DEF BuildChange
    <2> QED  BY <1>1, <1>2, <1>4, <2>1 DEF Sound, DeleteChange, Change, Row, Based, Job
  <1>5. CASE e.local # Absent /\ e.kind = "Renamed"
    <2>1. BuildChange(e) =
            [id |-> e.id, base |-> e.remote.version, path |-> e.path,
             content |-> Unset, delete |-> FALSE]
      BY <1>1, <1>5 DEF BuildChange, Sound
    <2> QED  BY <1>1, <1>2, <1>5, <2>1 DEF Sound, Change, Row, Based, Job
  <1>6. CASE e.local # Absent /\ e.kind # "Renamed" /\ e.remote = Absent
    <2>1. BuildChange(e) =
            [id |-> Unset, base |-> Unset, path |-> e.path,
             content |-> disk[e.path], delete |-> FALSE]
      BY <1>6 DEF BuildChange
    <2> QED  BY <1>2, <1>3, <1>6, <2>1 DEF Change, Based, Job, Unreadable
  <1>7. CASE e.local # Absent /\ e.kind # "Renamed" /\ e.remote # Absent
    <2>1. BuildChange(e) =
            [id |-> e.id, base |-> e.remote.version,
             path |-> IF e.remote.path = e.path THEN Unset ELSE e.path,
             content |-> disk[e.path], delete |-> FALSE]
      BY <1>7 DEF BuildChange
    <2> QED  BY <1>1, <1>2, <1>3, <1>7, <2>1
              DEF Sound, Change, Row, Based, Job, Unreadable
  <1> QED  BY <1>4, <1>5, <1>6, <1>7

LEMMA SelectionFacts ==
    ASSUME NEW selected \in Selections
    PROVE  /\ selected \subseteq plan
           /\ Conflicts = {} => \A e \in selected : IsLocalChange(e)
  BY DEF Selections, Confirmed, Conflicts

LEMMA PushSync == SyncInv /\ Push => SyncInv'
  <1> SUFFICES ASSUME SyncInv, Push PROVE SyncInv'
    OBVIOUS
  <1>1. PICK selected \in Selections \ {{}} :
          /\ \A e \in selected : ~Unreadable(e)
          /\ todo' = {Job(e, BuildChange(e)) : e \in selected}
    BY DEF Push
  <1>2. selected \subseteq plan /\ (cmd.force \/ \A e \in selected : IsLocalChange(e))
    BY SelectionFacts DEF Push
  <1>3. \A e \in selected : BuildChange(e) \in Change /\ Based(Job(e, BuildChange(e)))
    BY <1>1, <1>2, ChangeType
  <1>4. \A j \in todo' :
          /\ j.entry \in plan /\ j.change \in Change /\ Based(j)
          /\ cmd.force \/ IsLocalChange(j.entry)
    BY <1>1, <1>2, <1>3 DEF Job
  <1>5. TypeOK'
    BY <1>4 DEF Push, SyncInv, TypeOK, server
  <1> QED
    BY <1>4, <1>5 DEF Push, SyncInv, Working, Housed, server, Based

LEMMA UntrackSync == SyncInv /\ Untrack => SyncInv'
  <1> SUFFICES ASSUME SyncInv, Untrack PROVE SyncInv'
    OBVIOUS
  <1> DEFINE e(f) == Entry("InSync", listing[f].path, f, listing[f], Absent, Unset)
             c(f) == DeleteChange(f, listing[f])
  <1>1. ASSUME NEW j \in todo'
        PROVE  j.entry \in EntryType /\ j.change \in Change /\ Based(j)
    <2>1. PICK f \in FileId : listing[f] # Absent /\ j = Job(e(f), c(f))
      BY <1>1 DEF Untrack
    <2>2. listing[f] \in Row
      BY <2>1 DEF SyncInv, TypeOK
    <2> QED
      BY <2>1, <2>2, NullAssumption
         DEF Job, Entry, EntryType, DeleteChange, Change, Row, Based
  <1>2. TypeOK'
    BY <1>1 DEF Untrack, SyncInv, TypeOK, server
  <1> QED
    BY <1>1, <1>2 DEF Untrack, SyncInv, Working, Housed, server, Based

(* What happens around the process. *)
LEMMA AroundSync ==
    ASSUME SyncInv, UNCHANGED <<base, ignored, process>>,
           files' \in Rows, issued' \subseteq FileId, history' \subseteq Snapshot,
           Housed', disk' \in Contents,
           used' \in [commands : 0..MaxCommands, edits : 0..MaxEdits,
                      teamwork : 0..MaxTeamwork]
    PROVE  SyncInv'
  <1>1. TypeOK'
    BY DEF SyncInv, TypeOK, Rows, Contents, process
  <1> QED
    BY <1>1 DEF SyncInv, Working, process, Based

LEMMA EditSync ==
    ASSUME SyncInv, NEW p \in Path, NEW c \in Hash \cup {Absent}, Edit(p, c)
    PROVE  SyncInv'
  <1>1. disk' \in Contents
    BY DEF Edit, SyncInv, TypeOK, Contents
  <1>2. used' \in [commands : 0..MaxCommands, edits : 0..MaxEdits,
                   teamwork : 0..MaxTeamwork]
    BY SyncAssumption DEF Edit, SyncInv, TypeOK
  <1> QED
    BY <1>1, <1>2, AroundSync DEF Edit, SyncInv, TypeOK, Rows, Housed, server

LEMMA TeammateSync ==
    ASSUME SyncInv, NEW b \in Batch, Teammate(b)
    PROVE  SyncInv'
  <1>1. /\ files' \in Rows /\ issued' \subseteq FileId /\ history' \subseteq Snapshot
        /\ Housed'
    BY TakeSync, BatchRequest DEF Teammate
  <1>2. used' \in [commands : 0..MaxCommands, edits : 0..MaxEdits,
                   teamwork : 0..MaxTeamwork]
    BY SyncAssumption DEF Teammate, SyncInv, TypeOK
  <1> QED
    BY <1>1, <1>2, AroundSync DEF Teammate, SyncInv, TypeOK, Contents

LEMMA ListSync ==
    ASSUME SyncInv, NEW c \in Commands, List(c)
    PROVE  SyncInv'
  <1>1. used' \in [commands : 0..MaxCommands, edits : 0..MaxEdits,
                   teamwork : 0..MaxTeamwork]
    BY SyncAssumption DEF List, SyncInv, TypeOK
  <1>2. c \in Command
    BY SyncAssumption
  <1>3. TypeOK'
    BY <1>1, <1>2 DEF List, SyncInv, TypeOK, server
  <1> QED
    BY <1>3 DEF List, SyncInv, Working, Housed, server

LEMMA SendSync == SyncInv /\ SendRequest => SyncInv'
  <1> SUFFICES ASSUME SyncInv, SendRequest PROVE SyncInv'
    OBVIOUS
  <1>1. PICK jobs \in Requests :
          Take(Body(jobs)) /\ state' = Recorded(jobs) /\ todo' = todo \ jobs
    BY DEF SendRequest
  <1>2. Request(Body(jobs))
    BY <1>1, JobsRequest DEF SendRequest
  <1>3. /\ files' \in Rows /\ issued' \subseteq FileId /\ history' \subseteq Snapshot
        /\ Housed'
    BY <1>1, <1>2, TakeSync
  <1>4. state' \in Rows
    BY <1>1, <1>3 DEF Recorded, Rows, SyncInv, TypeOK
  <1>5. TypeOK'
    BY <1>1, <1>3, <1>4 DEF SendRequest, SyncInv, TypeOK, Rows
  <1> QED
    BY <1>1, <1>3, <1>5 DEF SendRequest, SyncInv, Working, Based

(* A command that ends after the server has taken a last request. *)
LEMMA TakeEnds ==
    ASSUME SyncInv, End, files' \in Rows, issued' \subseteq FileId,
           history' \subseteq Snapshot, Housed', base' \in Rows,
           UNCHANGED <<disk, ignored, used>>
    PROVE  SyncInv'
  <1>1. NoCommand \in Command
    BY DEF NoCommand, Command
  <1>2. TypeOK'
    BY <1>1 DEF SyncInv, TypeOK, End, NoRows, NoContent, Rows, Contents
  <1> QED
    BY <1>2 DEF SyncInv, Working, End

LEMMA FailSync == SyncInv /\ RequestFails => SyncInv'
  <1> SUFFICES ASSUME SyncInv, RequestFails PROVE SyncInv'
    OBVIOUS
  <1>1. base' \in Rows
    BY SaveRows DEF RequestFails, SyncInv, TypeOK, Rows
  <1>2. CASE UNCHANGED server
    BY <1>1, <1>2, TakeEnds DEF RequestFails, SyncInv, TypeOK, Rows, Housed, server
  <1>3. ASSUME NEW jobs \in Requests, Take(Body(jobs))  PROVE SyncInv'
    <2>1. Request(Body(jobs))
      BY <1>3, JobsRequest DEF RequestFails
    <2> QED
      BY <1>1, <1>3, <2>1, TakeSync, TakeEnds DEF RequestFails
  <1> QED
    BY <1>2, <1>3 DEF RequestFails

LEMMA PushEndsSync == SyncInv /\ (ReadFails \/ Pushed) => SyncInv'
  <1> SUFFICES ASSUME SyncInv, ReadFails \/ Pushed PROVE SyncInv'
    OBVIOUS
  <1>1. CASE ReadFails
    BY <1>1, SaveRows, EndSync DEF ReadFails, SyncInv, TypeOK, Contents
  <1>2. CASE Pushed
    <2>1. base' \in Rows
      BY <1>2, SaveRows DEF Pushed, SyncInv, TypeOK, Rows
    <2>2. ignored' \in SUBSET Path
      BY <1>2 DEF Pushed, SyncInv, TypeOK, Command
    <2> QED
      BY <1>2, <2>1, <2>2, EndSync DEF Pushed, SyncInv, TypeOK, Contents
  <1> QED  BY <1>1, <1>2

LEMMA PullSync == SyncInv /\ Pull => SyncInv'
  <1> SUFFICES ASSUME SyncInv, Pull PROVE SyncInv'
    OBVIOUS
  <1> DEFINE incoming == {e \in plan : Matched(e) /\ e.kind \in {"Behind", "NewOnServer"}}
             removed == {e \in plan : Matched(e) /\ e.kind = "DeletedOnServer"}
  <1>1. PICK dropped \in Confirmed(removed) :
          todo' = incoming \cup dropped \cup (IF cmd.force THEN Conflicts ELSE {})
    BY DEF Pull
  <1>2. dropped \subseteq removed
    BY <1>1 DEF Confirmed
  <1>3. /\ todo' \subseteq plan
        /\ ~cmd.force =>
             \A e \in todo' : e.kind \in {"Behind", "NewOnServer", "DeletedOnServer"}
    BY <1>1, <1>2 DEF Conflicts
  <1>4. blobs' \in [FileId -> Hash \cup {Absent}]
    BY DEF Pull, SyncInv, TypeOK, Row
  <1>5. TypeOK'
    BY <1>3, <1>4 DEF Pull, SyncInv, TypeOK, server
  <1> QED
    BY <1>3, <1>5 DEF Pull, SyncInv, Working, Housed, server

(* What the steps of a pull know of an entry that they carry out. *)
LEMMA PullEntry ==
    ASSUME SyncInv, op = "write", NEW e \in todo
    PROVE  /\ e \in EntryType
           /\ Sound(e, listing, base, seen)
           /\ e.path \in Path
           /\ e.remote # Absent =>
                /\ e.id \in FileId /\ e.remote = listing[e.id]
                /\ e.remote \in Row /\ e.remote.path \in Path
                /\ blobs[e.id] \in Hash \cup {Absent}
           /\ e.from # Unset => e.from \in Path
  <1>1. Sound(e, listing, base, seen) /\ e \in EntryType
    BY DEF SyncInv, Working, TypeOK
  <1> QED
    BY <1>1 DEF Sound, EntryType, SyncInv, TypeOK, Row

(* A step of a pull. *)
LEMMA PullStepSync ==
    ASSUME SyncInv, op = "write", todo' \subseteq todo, disk' \in Contents,
           state' \in Rows, failed' \in BOOLEAN,
           UNCHANGED <<server, base, ignored, op, cmd, listing, seen, plan, blobs, used>>
    PROVE  SyncInv'
  <1>1. TypeOK'
    BY DEF SyncInv, TypeOK, Rows, Contents, server
  <1> QED
    BY <1>1 DEF SyncInv, Working, Housed, server

LEMMA PullStepsSync == SyncInv /\ (PullDeletion \/ PullContent \/ PullSkips) => SyncInv'
  <1> SUFFICES ASSUME SyncInv, PullDeletion \/ PullContent \/ PullSkips PROVE SyncInv'
    OBVIOUS
  <1>0. disk \in Contents /\ state \in Rows /\ failed \in BOOLEAN
    BY DEF SyncInv, TypeOK, Contents, Rows
  <1>1. CASE PullDeletion
    <2>1. PICK e \in todo :
            /\ disk' = [disk EXCEPT ![e.path] = Absent]
            /\ todo' = todo \ {e}
      BY <1>1 DEF PullDeletion
    <2>2. disk' \in Contents
      BY <1>0, <2>1 DEF Contents
    <2>3. state' \in Rows
      BY <1>0, <1>1 DEF PullDeletion, Rows
    <2> QED
      BY <1>0, <1>1, <2>1, <2>2, <2>3, PullStepSync DEF PullDeletion
  <1>2. CASE PullContent
    <2>1. PICK e \in todo :
            /\ e.remote # Absent
            /\ blobs[e.id] # Absent
            /\ disk' = IF e.from # Unset /\ e.kind = "Behind"
                       THEN [Written(e) EXCEPT ![e.from] = Absent]
                       ELSE Written(e)
            /\ state' = [state EXCEPT ![e.id] = ToSynced(e)]
            /\ todo' = todo \ {e}
      BY <1>2 DEF PullContent
    <2>2. /\ e.id \in FileId /\ e.remote \in Row /\ e.remote.path \in Path
          /\ blobs[e.id] \in Hash
      BY <1>2, <2>1, PullEntry DEF PullContent
    <2>3. Written(e) \in Contents
      BY <1>0, <2>2 DEF Written, Contents
    <2>4. disk' \in Contents
      BY <2>1, <2>3 DEF Contents
    <2>5. state' \in Rows
      BY <1>0, <2>1, <2>2 DEF ToSynced, Rows
    <2> QED
      BY <1>0, <1>2, <2>1, <2>4, <2>5, PullStepSync DEF PullContent
  <1>3. CASE PullSkips
    <2>1. PICK e \in todo :
            /\ todo' = todo \ {e}
            /\ IF e.remote # Absent /\ blobs[e.id] = Absent THEN UNCHANGED disk
               ELSE \/ UNCHANGED disk
                    \/ /\ e.remote # Absent /\ e.from # Unset /\ e.kind = "Behind"
                       /\ disk' = Written(e)
      BY <1>3 DEF PullSkips
    <2>2. disk' = disk \/ (e.remote # Absent /\ blobs[e.id] # Absent /\ disk' = Written(e))
      BY <2>1
    <2>3. disk' \in Contents
      <3>1. CASE disk' = disk
        BY <1>0, <3>1
      <3>2. CASE e.remote # Absent /\ blobs[e.id] # Absent /\ disk' = Written(e)
        BY <1>0, <1>3, <2>1, <3>2, PullEntry DEF PullSkips, Written, Contents
      <3> QED  BY <2>2, <3>1, <3>2
    <2> QED
      BY <1>0, <1>3, <2>1, <2>3, PullStepSync DEF PullSkips
  <1> QED  BY <1>1, <1>2, <1>3

LEMMA EndingsSync ==
    SyncInv /\ (Pulled \/ Purge \/ Quit \/ Crash) => SyncInv'
  <1> SUFFICES ASSUME SyncInv, Pulled \/ Purge \/ Quit \/ Crash PROVE SyncInv'
    OBVIOUS
  <1>0. disk \in Contents /\ base \in Rows /\ ignored \in SUBSET Path
    BY DEF SyncInv, TypeOK, Contents, Rows
  <1>1. CASE Pulled
    BY <1>0, <1>1, SaveRows, EndSync DEF Pulled
  <1>2. CASE Purge
    <2>1. disk' \in Contents /\ base' \in Rows
      BY <1>0, <1>2 DEF Purge, SyncInv, TypeOK, Contents, Rows
    <2> QED
      BY <1>0, <1>2, <2>1, EndSync DEF Purge
  <1>3. CASE Quit \/ Crash
    BY <1>0, <1>3, EndSync DEF Quit, Crash
  <1> QED  BY <1>1, <1>2, <1>3

LEMMA SyncStep == SyncInv /\ [Next]_vars => SyncInv'
  <1> SUFFICES ASSUME SyncInv, [Next]_vars PROVE SyncInv'
    OBVIOUS
  <1>1. CASE UNCHANGED vars
    BY <1>1, AroundSync DEF vars, process, SyncInv, TypeOK, Rows, Contents, Housed
  <1> QED
    BY <1>1, EditSync, TeammateSync, ListSync, ScanSync, PushSync, UntrackSync,
       SendSync, FailSync, PushEndsSync, PullSync, PullStepsSync, EndingsSync
       DEF Next

LEMMA SyncAlways == Spec => []SyncInv
  BY InitSync, SyncStep, PTL DEF Spec

(* Whatever the commands, the user and the teammates do, and wherever an   *)
(* answer or a process is lost, every variable has its type: the base and  *)
(* the listing hold rows, a plan holds entries, a request holds changes.   *)
THEOREM SyncTyped == Spec => []TypeOK
<1>1. SyncInv => TypeOK  BY DEF SyncInv
<1> QED  BY <1>1, SyncAlways, PTL

-----------------------------------------------------------------------------
(* The history of the project, of which the server keeps every row, and    *)
(* what listings, bases and the memory of a command have to do with it.    *)
Recalled(rows) ==
    \A f \in FileId : rows[f] # Absent => SnapshotOf(f, rows[f]) \in history

(* A version of a file names one row. *)
HistoryNames ==
    \A s, t \in history : s.id = t.id /\ s.version = t.version => s = t

(* No row was ever of a later version than the file has now, and only      *)
(* files with an identifier that was issued have had rows.                 *)
HistoryBehind ==
    \A s \in history :
        /\ s.id \in issued
        /\ files[s.id] # Absent => s.version <= files[s.id].version

HistoryInv ==
    /\ Recalled(files) /\ Recalled(listing) /\ Recalled(base) /\ Recalled(state)
    /\ HistoryNames
    /\ HistoryBehind

LEMMA InitHistory == Init => HistoryInv
  <1> SUFFICES ASSUME Init PROVE HistoryInv
    OBVIOUS
  <1>1. Recalled(files)
    BY DEF Init, Recalled, FirstSnapshots
  <1>2. Recalled(listing) /\ Recalled(base) /\ Recalled(state)
    BY DEF Init, Recalled, NoRows
  <1>3. \A s \in history : s.id \in FileId /\ Seed[s.id] # Absent
                           /\ s = SnapshotOf(s.id, Seed[s.id])
    BY DEF Init, FirstSnapshots, SnapshotOf
  <1>4. HistoryNames
    BY <1>3, Zenon DEF HistoryNames
  <1>5. HistoryBehind
    BY <1>3, SeedAssumption DEF HistoryBehind, Init, SnapshotOf
  <1> QED  BY <1>1, <1>2, <1>4, <1>5 DEF HistoryInv

(* A request that the server takes keeps what was recalled, and what it    *)
(* adds to the history are later versions or new files.                    *)
LEMMA TakeHistory ==
    ASSUME SyncInv, HistoryInv, NEW b, Request(b), Take(b)
    PROVE  /\ history \subseteq history'
           /\ Recalled(files)' /\ HistoryNames' /\ HistoryBehind'
  <1>1. /\ files' \in Rows /\ files \in Rows
        /\ issued \subseteq issued'
        /\ Housed' /\ Housed
        /\ \A f \in FileId : Fares(f)
    BY TakeFacts DEF SyncInv, TypeOK, Rows
  <1>2. /\ history \subseteq history'
        /\ \A s \in history' \ history :
             s.id \in FileId /\ files'[s.id] # Absent /\ s = SnapshotOf(s.id, files'[s.id])
    BY DEF Take, SnapshotOf
  <1>3. Recalled(files)'
    BY DEF Recalled, Take
  <1>4. \A s \in history : s \in Snapshot
    BY DEF SyncInv, TypeOK
  (* A row that is new in the history has no older rival. *)
  <1>5. ASSUME NEW s \in history, NEW t \in history' \ history,
               s.id = t.id, s.version = t.version
        PROVE  FALSE
    <2> DEFINE f == t.id
    <2>1. /\ f \in FileId /\ files'[f] # Absent /\ files'[f] \in Row
          /\ t = SnapshotOf(f, files'[f]) /\ t.version = files'[f].version
      BY <1>1, <1>2 DEF Rows, SnapshotOf
    <2>2. files'[f] # files[f]
      BY <1>5, <2>1 DEF HistoryInv, Recalled
    <2>3. f \in issued /\ (files[f] # Absent => s.version <= files[f].version)
      BY <1>5 DEF HistoryInv, HistoryBehind
    <2>4. /\ files[f] # Absent /\ files[f] \in Row
          /\ files'[f].version = files[f].version + 1
      BY <1>1, <2>1, <2>2, <2>3 DEF Fares, Rows
    <2> QED
      BY <1>5, <2>1, <2>3, <2>4 DEF Row, Version
  <1>6. HistoryNames'
    <2> SUFFICES ASSUME NEW s \in history', NEW t \in history',
                        s.id = t.id, s.version = t.version
                 PROVE  s = t
      BY DEF HistoryNames
    <2>1. CASE s \in history /\ t \in history
      BY <2>1 DEF HistoryInv, HistoryNames
    <2>2. CASE s \notin history /\ t \notin history
      BY <1>2, <2>2
    <2> QED  BY <1>5, <2>1, <2>2
  <1>7. HistoryBehind'
    <2> SUFFICES ASSUME NEW s \in history'
                 PROVE  /\ s.id \in issued'
                        /\ files'[s.id] # Absent => s.version <= files'[s.id].version
      BY DEF HistoryBehind
    <2>1. CASE s \in history
      <3> DEFINE f == s.id
      <3>1. /\ f \in issued /\ f \in FileId /\ s.version \in Nat
            /\ files[f] # Absent => s.version <= files[f].version
        BY <1>4, <2>1 DEF HistoryInv, HistoryBehind, Snapshot, Version
      <3>2. Fares(f) /\ files[f] \in Row \cup {Absent}
        BY <1>1, <3>1 DEF Rows
      <3> QED
        BY <1>1, <3>1, <3>2 DEF Fares, Row, Version
    <2>2. CASE s \notin history
      <3>1. s.id \in FileId /\ files'[s.id] # Absent /\ s.version = files'[s.id].version
            /\ files'[s.id] \in Row
        BY <1>1, <1>2, <2>2 DEF SnapshotOf, Rows
      <3> QED
        BY <1>1, <3>1 DEF Housed, Row, Version
    <2> QED  BY <2>1, <2>2
  <1> QED  BY <1>2, <1>3, <1>6, <1>7

(* What is recalled after a step in which the server takes no request.     *)
LEMMA QuietHistory ==
    ASSUME HistoryInv, server' = server,
           Recalled(listing') , Recalled(base'), Recalled(state')
    PROVE  HistoryInv'
  BY DEF HistoryInv, Recalled, HistoryNames, HistoryBehind, server

LEMMA SaveHistory ==
    ASSUME HistoryInv, Save(state)
    PROVE  Recalled(base')
  BY DEF HistoryInv, Recalled, Save

LEMMA EndHistory ==
    ASSUME HistoryInv, End, Recalled(base'), server' = server
    PROVE  HistoryInv'
  <1>1. Recalled(listing') /\ Recalled(state')
    BY DEF End, NoRows, Recalled
  <1> QED  BY <1>1, QuietHistory

LEMMA HistoryStep == SyncInv /\ HistoryInv /\ [Next]_vars => HistoryInv'
  <1> SUFFICES ASSUME SyncInv, HistoryInv, [Next]_vars PROVE HistoryInv'
    OBVIOUS
  <1>0. Recalled(files) /\ Recalled(listing) /\ Recalled(base) /\ Recalled(state)
    BY DEF HistoryInv
  <1>1. CASE UNCHANGED vars
    BY <1>0, <1>1, QuietHistory DEF vars, server
  <1>2. ASSUME NEW p \in Path, NEW c \in Hash \cup {Absent}, Edit(p, c)  PROVE HistoryInv'
    BY <1>0, <1>2, QuietHistory DEF Edit, process
  <1>3. ASSUME NEW b \in Batch, Teammate(b)  PROVE HistoryInv'
    <2>1. /\ history \subseteq history'
          /\ Recalled(files)' /\ HistoryNames' /\ HistoryBehind'
      BY <1>3, TakeHistory, BatchRequest DEF Teammate
    <2> QED
      BY <1>0, <1>3, <2>1 DEF HistoryInv, Recalled, Teammate, process
  <1>4. ASSUME NEW c \in Commands, List(c)  PROVE HistoryInv'
    BY <1>0, <1>4, QuietHistory DEF List
  <1>5. CASE Scan \/ Push \/ Untrack \/ Pull
    BY <1>0, <1>5, QuietHistory DEF Scan, Push, Untrack, Pull
  <1>6. CASE SendRequest
    <2>1. PICK jobs \in Requests : Take(Body(jobs)) /\ state' = Recorded(jobs)
      BY <1>6 DEF SendRequest
    <2>2. Request(Body(jobs))
      BY <1>6, <2>1, JobsRequest DEF SendRequest
    <2>3. /\ history \subseteq history'
          /\ Recalled(files)' /\ HistoryNames' /\ HistoryBehind'
      BY <2>1, <2>2, TakeHistory
    <2>4. Recalled(state)'
      BY <1>0, <2>1, <2>3 DEF Recalled, Recorded
    <2> QED
      BY <1>0, <1>6, <2>3, <2>4 DEF HistoryInv, Recalled, SendRequest
  <1>7. CASE RequestFails
    <2>1. Recalled(base')
      BY <1>0, <1>7, SaveHistory DEF RequestFails
    <2>2. CASE UNCHANGED server
      BY <1>7, <2>1, <2>2, EndHistory DEF RequestFails
    <2>3. ASSUME NEW jobs \in Requests, Take(Body(jobs))  PROVE HistoryInv'
      <3>1. /\ history \subseteq history'
            /\ Recalled(files)' /\ HistoryNames' /\ HistoryBehind'
        BY <1>7, <2>3, JobsRequest, TakeHistory DEF RequestFails
      <3>2. Recalled(listing)' /\ Recalled(state)'
        BY <1>7 DEF RequestFails, End, NoRows, Recalled
      <3> QED
        BY <2>1, <3>1, <3>2 DEF HistoryInv, Recalled
    <2> QED
      BY <1>7, <2>2, <2>3 DEF RequestFails
  <1>8. CASE ReadFails \/ Pulled
    BY <1>8, SaveHistory, EndHistory DEF ReadFails, Pulled
  <1>9. CASE Pushed
    BY <1>0, <1>9, SaveHistory, EndHistory DEF Pushed
  <1>10. CASE PullDeletion \/ PullSkips
    <2>1. Recalled(state')
      BY <1>0, <1>10 DEF PullDeletion, PullSkips, Recalled
    <2> QED
      BY <1>0, <1>10, <2>1, QuietHistory DEF PullDeletion, PullSkips
  <1>11. CASE PullContent
    <2>1. PICK e \in todo : /\ e.remote # Absent
                            /\ state' = [state EXCEPT ![e.id] = e.remote]
      BY <1>11 DEF PullContent, ToSynced
    <2>2. e.id \in FileId /\ e.remote = listing[e.id]
      BY <1>11, <2>1, PullEntry DEF PullContent
    <2>3. Recalled(state')
      BY <1>0, <2>1, <2>2 DEF Recalled, SyncInv, TypeOK
    <2> QED
      BY <1>0, <1>11, <2>3, QuietHistory DEF PullContent
  <1>12. CASE Purge \/ Quit \/ Crash
    <2>1. Recalled(base')
      BY <1>0, <1>12 DEF Purge, Quit, Crash, Recalled
    <2> QED
      BY <1>12, <2>1, EndHistory DEF Purge, Quit, Crash
  <1> QED
    BY <1>1, <1>2, <1>3, <1>4, <1>5, <1>6, <1>7, <1>8, <1>9, <1>10, <1>11, <1>12
       DEF Next

LEMMA HistoryAlways == Spec => [](SyncInv /\ HistoryInv)
<1>1. Init => SyncInv /\ HistoryInv
  BY InitSync, InitHistory
<1>2. SyncInv /\ HistoryInv /\ [Next]_vars => (SyncInv /\ HistoryInv)'
  BY SyncStep, HistoryStep
<1> QED  BY <1>1, <1>2, PTL DEF Spec

(* A base never says what the server did not have, wherever in a push, a   *)
(* pull, a purge or an untrack the process stops or an answer is lost.     *)
THEOREM BaseIsFromServer == Spec => []BaseFromServer
<1>1. HistoryInv => BaseFromServer
  BY DEF HistoryInv, Recalled, BaseFromServer
<1> QED  BY <1>1, HistoryAlways, PTL

-----------------------------------------------------------------------------
(* What the commands keep. *)

(* Rows of one file that both were on the server, with one version, are    *)
(* the same row: what the comparison of versions rests on.                 *)
LEMMA SameRow ==
    ASSUME HistoryInv, NEW f \in FileId, NEW r \in Row, NEW q \in Row,
           SnapshotOf(f, r) \in history, SnapshotOf(f, q) \in history,
           r.version = q.version
    PROVE  r = q
  <1>1. SnapshotOf(f, r) = SnapshotOf(f, q)
    BY DEF HistoryInv, HistoryNames, SnapshotOf
  <1>2. r.path = q.path /\ r.hash = q.hash
    BY <1>1 DEF SnapshotOf
  <1> QED  BY <1>2 DEF Row

(* What an unforced push changes on the server is what this machine last   *)
(* synced, by its version and therefore by its path and content.           *)
LEMMA SentAsSynced ==
    ASSUME SyncInv, HistoryInv, op = "send", cmd.name = "push", ~cmd.force,
           NEW jobs \in Requests, Take(Body(jobs)),
           NEW f \in FileId, files[f] # Absent, files'[f] # files[f]
    PROVE  files[f] = base[f]
  <1> DEFINE b == Body(jobs)
  <1>1. f \in Touched(b)
    BY JobsRequest, TakeFacts DEF SyncInv, TypeOK, Rows
  <1>2. PICK j \in jobs : j.change.id = f /\ j \in Edits(b) /\ b[j] = j.change
    BY <1>1 DEF Touched, Edits, Body
  <1>3. j \in todo /\ f # Unset
    BY NullAssumption DEF Requests
  <1>4. /\ j.entry.id = f
        /\ j.entry.remote # Absent
        /\ j.change.base = j.entry.remote.version
        /\ j.entry \in plan /\ IsLocalChange(j.entry)
    BY <1>2, <1>3 DEF SyncInv, Working, Based
  <1>5. files[f].version = j.change.base
    BY <1>2 DEF Take, Accepts, Current
  <1>6. Sound(j.entry, listing, base, seen)
    BY <1>4 DEF SyncInv, Working
  <1>7. base[f] # Absent /\ base[f].version = j.entry.remote.version
    BY <1>4, <1>6 DEF Sound, IsLocalChange
  <1>8. files[f] \in Row /\ base[f] \in Row
    BY <1>7 DEF SyncInv, TypeOK
  <1>9. SnapshotOf(f, files[f]) \in history /\ SnapshotOf(f, base[f]) \in history
    BY <1>7 DEF HistoryInv, Recalled
  <1> QED  BY <1>4, <1>5, <1>7, <1>8, <1>9, SameRow

(* However old its plan is and wherever an answer is lost, a push without  *)
(* --force changes a file only while the server still has the row of it    *)
(* that this machine last synced: no teammate's change is overwritten.     *)
THEOREM PushKeepsTeamwork == Spec => TeamworkKept
<1>1. ASSUME SyncInv, HistoryInv, [Next]_vars
      PROVE  [(SendRequest \/ RequestFails) /\ cmd.name = "push" /\ ~cmd.force =>
                \A f \in FileId :
                    files[f] # Absent /\ files'[f] # files[f]
                        => files[f] = base[f]]_vars
  <2> SUFFICES ASSUME SendRequest \/ RequestFails, cmd.name = "push", ~cmd.force,
                      NEW f \in FileId, files[f] # Absent, files'[f] # files[f]
               PROVE  files[f] = base[f]
    OBVIOUS
  <2>1. op = "send"
    BY DEF SendRequest, RequestFails
  <2>2. \E jobs \in Requests : Take(Body(jobs))
    BY DEF SendRequest, RequestFails, server
  <2> QED  BY <1>1, <2>1, <2>2, SentAsSynced
<1> QED  BY <1>1, HistoryAlways, PTL DEF Spec, TeamworkKept

(* What a pull without --force replaces or deletes: a copy that is as the  *)
(* base or as the listing has it, or no file at all when it was hashed.    *)
LEMMA PulledOver ==
    ASSUME SyncInv, op = "write", ~cmd.force, NEW e \in todo, NEW p \in Path,
           \/ e.remote = Absent /\ p = e.path
           \/ e.remote # Absent /\ p = e.remote.path
           \/ e.kind = "Behind" /\ e.from # Unset /\ p = e.from,
           disk[p] # Absent, disk[p] = seen[p]
    PROVE  Shared(p)
  <1>1. /\ Sound(e, listing, base, seen)
        /\ e.kind \in {"Behind", "NewOnServer", "DeletedOnServer"}
    BY DEF SyncInv, Working
  <1>2. CASE e.kind = "DeletedOnServer"
    BY <1>1, <1>2 DEF Sound, Shared
  <1>3. CASE e.kind = "NewOnServer"
    BY <1>1, <1>3 DEF Sound
  <1>4. CASE e.kind = "Behind"
    <2>1. /\ e.id \in FileId /\ e.remote = listing[e.id] /\ e.remote # Absent
          /\ base[e.id] # Absent /\ seen[base[e.id].path] = base[e.id].hash
      BY <1>1, <1>4 DEF Sound
    <2>2. \/ p = base[e.id].path
          \/ p = e.remote.path /\ seen[p] = e.remote.hash
      BY <1>1, <1>4 DEF Sound
    <2> QED  BY <2>1, <2>2 DEF Shared
  <1> QED  BY <1>1, <1>2, <1>3, <1>4

LEMMA PurgedOver ==
    ASSUME SyncInv, op = "confirm", NEW e \in plan, e.kind \in {"InSync", "Behind"},
           disk[e.path] # Absent, disk[e.path] = seen[e.path]
    PROVE  Shared(e.path)
  <1>1. Sound(e, listing, base, seen)
    BY DEF SyncInv, Working
  <1>2. e.id \in FileId /\ e.remote = listing[e.id] /\ e.remote # Absent
    BY <1>1 DEF Sound
  <1>3. \/ base[e.id] # Absent /\ base[e.id].path = e.path /\ base[e.id].hash = seen[e.path]
        \/ e.remote.path = e.path /\ e.remote.hash = seen[e.path]
    BY <1>1 DEF Sound
  <1> QED  BY <1>2, <1>3 DEF Shared

(* Pull and purge without --force never overwrite or delete work that only *)
(* this machine has, except in files that change after they were hashed.   *)
THEOREM PullKeepsLocalWork == Spec => LocalWorkKept
<1>1. ASSUME SyncInv, [Next]_vars
      PROVE  [(PullDeletion \/ PullContent \/ PullSkips \/ Purge) /\ ~cmd.force =>
                \A p \in Path :
                    disk'[p] # disk[p] /\ disk[p] # Absent /\ disk[p] = seen[p]
                        => Shared(p)]_vars
  <2> SUFFICES ASSUME PullDeletion \/ PullContent \/ PullSkips \/ Purge, ~cmd.force,
                      NEW p \in Path,
                      disk'[p] # disk[p], disk[p] # Absent, disk[p] = seen[p]
               PROVE  Shared(p)
    OBVIOUS
  <2>0. disk \in [Path -> Hash \cup {Absent}]
    BY <1>1 DEF SyncInv, TypeOK
  <2>1. CASE PullDeletion
    <3>1. PICK e \in todo : e.remote = Absent /\ disk' = [disk EXCEPT ![e.path] = Absent]
      BY <2>1 DEF PullDeletion
    <3>2. p = e.path
      BY <2>0, <3>1
    <3> QED  BY <1>1, <2>1, <3>1, <3>2, PulledOver DEF PullDeletion
  <2>2. CASE PullContent
    <3>1. PICK e \in todo :
            /\ e.remote # Absent
            /\ disk' = IF e.from # Unset /\ e.kind = "Behind"
                       THEN [Written(e) EXCEPT ![e.from] = Absent]
                       ELSE Written(e)
      BY <2>2 DEF PullContent
    <3>2. \/ p = e.remote.path
          \/ e.kind = "Behind" /\ e.from # Unset /\ p = e.from
      BY <2>0, <3>1 DEF Written
    <3> QED  BY <1>1, <2>2, <3>1, <3>2, PulledOver DEF PullContent
  <2>3. CASE PullSkips
    <3>1. PICK e \in todo : e.remote # Absent /\ disk' = Written(e)
      BY <2>3 DEF PullSkips
    <3>2. p = e.remote.path
      BY <2>0, <3>1 DEF Written
    <3> QED  BY <1>1, <2>3, <3>1, <3>2, PulledOver DEF PullSkips
  <2>4. CASE Purge
    <3>1. PICK e \in plan : e.kind \in {"InSync", "Behind"} /\ e.path = p
      BY <2>0, <2>4 DEF Purge
    <3> QED  BY <1>1, <2>4, <3>1, PurgedOver DEF Purge
  <2> QED  BY <2>1, <2>2, <2>3, <2>4
<1> QED  BY <1>1, SyncAlways, PTL DEF Spec, LocalWorkKept

-----------------------------------------------------------------------------
(* What status and push say of a checkout. *)

LEMMA SyncedEntry ==
    ASSUME NEW f, NEW r, NEW s, NEW d
    PROVE  /\ PlanSynced(f, r, s, d).id = f
           /\ PlanSynced(f, r, s, d).remote = r
           /\ PlanSynced(f, r, s, d).kind = "InSync" =>
                r.version = s.version \/ r.path = s.path
  <1> DEFINE hash     == d[s.path]
             changed  == hash # s.hash
             moved    == r.path # s.path
             occupied == moved /\ d[r.path] \notin {Absent, r.hash}
             e == PlanSynced(f, r, s, d)
  <1>1. CASE r.version = s.version /\ hash = Absent
    BY <1>1 DEF PlanSynced, Entry
  <1>2. CASE r.version = s.version /\ hash # Absent
    BY <1>2 DEF PlanSynced, Entry
  <1>3. CASE r.version # s.version /\ ~changed /\ occupied
    BY <1>3 DEF PlanSynced, Entry
  <1>4. CASE r.version # s.version /\ ~changed /\ ~occupied
    BY <1>4 DEF PlanSynced, Entry
  <1>5. CASE r.version # s.version /\ changed /\ hash = r.hash /\ ~moved
    BY <1>5 DEF PlanSynced, Entry
  <1>6. CASE r.version # s.version /\ changed /\ ~(hash = r.hash /\ ~moved)
    BY <1>6 DEF PlanSynced, Entry
  <1> QED  BY <1>1, <1>2, <1>3, <1>4, <1>5, <1>6

LEMMA UnsyncedEntry ==
    ASSUME NEW f, NEW r, NEW d
    PROVE  PlanUnsynced(f, r, d).id = f /\ PlanUnsynced(f, r, d).remote = r
  BY DEF PlanUnsynced, Entry

(* An entry in sync is so with the row that was listed, provided a version *)
(* names one row.                                                          *)
LEMMA InSyncHere ==
    ASSUME NEW l, NEW s, NEW d, NEW e, Sound(e, l, s, d), e.kind = "InSync",
           \A f \in FileId :
              l[f] # Absent /\ s[f] # Absent /\ l[f].version = s[f].version
                => l[f] = s[f]
    PROVE  e.path = e.remote.path /\ d[e.path] = e.remote.hash
  BY DEF Sound

(* A plan of nothing but entries in sync leaves nothing out.               *)
LEMMA AllInSync ==
    ASSUME NEW l \in Rows, NEW s \in Rows, NEW d \in Contents,
           NEW C \in SUBSET Path, NEW P \in Plans(l, s, d, C),
           \A e \in P : e.kind = "InSync",
           \A f \in FileId :
              l[f] # Absent /\ s[f] # Absent /\ l[f].version = s[f].version
                => l[f] = s[f]
    PROVE  /\ \A f \in FileId : l[f] # Absent => d[l[f].path] = l[f].hash
           /\ \A p \in C : d[p] # Absent =>
                \E f \in FileId : l[f] # Absent /\ l[f].path = p
  <1>1. PICK G \in Judges(l, s) :
          P = PairRenames(RemoteEntries(l, s, d) \cup GoneEntries(G, s, d)
                            \cup UntrackedEntries(l, s, d, C))
    BY DEF Plans
  <1> DEFINE E == RemoteEntries(l, s, d) \cup GoneEntries(G, s, d)
                    \cup UntrackedEntries(l, s, d, C)
  <1>2. P = E
    <2>1. ASSUME NEW r \in Renames(E)  PROVE FALSE
      <3> DEFINE e == Entry("Renamed", r[2].path, r[1].id, r[1].remote, r[2].local,
                            r[1].path)
      <3>1. e \in P
        BY <1>1, <2>1 DEF PairRenames
      <3>2. e.kind = "Renamed"
        BY DEF Entry
      <3> QED  BY <3>1, <3>2
    <2>2. Renames(E) = {}
      BY <2>1
    <2> QED  BY <1>1, <2>2 DEF PairRenames
  <1> HIDE DEF E
  (* Each listed file has an entry, and it is here. *)
  <1>3. ASSUME NEW f \in FileId, l[f] # Absent
        PROVE  /\ d[l[f].path] = l[f].hash
               /\ s[f] # Absent => s[f].path = l[f].path
    <2> DEFINE e == IF s[f] # Absent THEN PlanSynced(f, l[f], s[f], d)
                                     ELSE PlanUnsynced(f, l[f], d)
    <2>1. e \in P
      BY <1>2, <1>3 DEF E, RemoteEntries
    <2>2. e.id = f /\ e.remote = l[f] /\ e.kind = "InSync"
      BY <2>1, SyncedEntry, UnsyncedEntry
    <2>3. s[f] # Absent => l[f].version = s[f].version \/ l[f].path = s[f].path
      BY <2>2, SyncedEntry
    <2>4. Sound(e, l, s, d)
      BY <2>1, PlansSound
    <2>5. e.path = l[f].path /\ d[e.path] = l[f].hash
      <3> HIDE DEF e
      <3> QED  BY <2>2, <2>4, InSyncHere
    <2>6. s[f] # Absent => s[f].path = l[f].path
      BY <1>3, <2>3
    <2> QED  BY <2>5, <2>6
  (* A path that is claimed is the path of a listed file. *)
  <1>4. ASSUME NEW p \in Claimed(l, s)
        PROVE  \E f \in FileId : l[f] # Absent /\ l[f].path = p
    <2>1. PICK f \in FileId :
            /\ l[f] # Absent
            /\ p = l[f].path \/ (s[f] # Absent /\ p = s[f].path)
      BY DEF Claimed
    <2> QED  BY <1>3, <2>1
  (* No file is gone from the server and still here. *)
  <1>5. ASSUME NEW f \in Gone(l, s), d[s[f].path] # Absent
        PROVE  FALSE
    <2>1. PICK g \in G : \A h \in G : s[h].path = s[f].path <=> h = g
      BY <1>5 DEF Judges
    <2>2. s[g].path = s[f].path
      BY <2>1
    <2> DEFINE e == Entry(IF d[s[g].path] = s[g].hash THEN "DeletedOnServer" ELSE "Conflict",
                          s[g].path, Unset, Absent, d[s[g].path], Unset)
    <2>3. e \in P
      BY <1>2, <1>5, <2>2 DEF E, GoneEntries
    <2>4. e.kind # "InSync"
      BY DEF Entry
    <2> QED  BY <2>3, <2>4
  <1>6. ASSUME NEW p \in C, d[p] # Absent
        PROVE  \E f \in FileId : l[f] # Absent /\ l[f].path = p
    <2>1. CASE p \in Claimed(l, s)
      BY <1>4, <2>1
    <2>2. CASE p \notin Claimed(l, s)
      <3> DEFINE e == Entry("Untracked", p, Unset, Absent, d[p], Unset)
      <3>1. \A f \in Gone(l, s) : s[f].path # p
        BY <1>5, <1>6
      <3>2. e \in P
        BY <1>2, <1>6, <2>2, <3>1 DEF E, UntrackedEntries
      <3>3. e.kind # "InSync"
        BY DEF Entry
      <3> QED  BY <3>2, <3>3
    <2> QED  BY <2>1, <2>2
  <1> QED  BY <1>3, <1>6

LEMMA VersionsAgree ==
    ASSUME SyncInv, HistoryInv, NEW f \in FileId, listing[f] # Absent, base[f] # Absent,
           listing[f].version = base[f].version
    PROVE  listing[f] = base[f]
  BY SameRow DEF SyncInv, TypeOK, HistoryInv, Recalled

LEMMA TruthfulStep ==
    ASSUME SyncInv, HistoryInv, SyncInv', HistoryInv', StatusTruthful, [Next]_vars
    PROVE  StatusTruthful'
  <1>1. CASE UNCHANGED <<process, ignored>>
    BY <1>1 DEF StatusTruthful, process
  <1>2. CASE Scan
    <2> DEFINE C == (Trackable \ ignored) \cup cmd.named
    <2>1. /\ listing \in Rows /\ base \in Rows /\ disk \in Contents
          /\ C \in SUBSET Path
      BY SyncAssumption DEF SyncInv, TypeOK, Command, Rows, Contents
    <2>2. /\ plan' \in Plans(listing, base, disk, C)
          /\ seen' = disk /\ listing' = listing /\ base' = base /\ ignored' = ignored
      BY <1>2 DEF Scan
    <2>3. \A f \in FileId :
             listing[f] # Absent /\ base[f] # Absent /\ listing[f].version = base[f].version
               => listing[f] = base[f]
      BY VersionsAgree
    <2>4. ASSUME NEW e \in plan', e.kind = "InSync"
          PROVE  e.path = e.remote.path /\ disk[e.path] = e.remote.hash
      BY <2>1, <2>2, <2>3, <2>4, PlansSound, InSyncHere
    <2>5. ASSUME \A e \in plan' : e.kind = "InSync"
          PROVE  /\ \A f \in FileId : listing[f] # Absent =>
                      disk[listing[f].path] = listing[f].hash
                 /\ \A p \in Trackable \ ignored : disk[p] # Absent =>
                      \E f \in FileId : listing[f] # Absent /\ listing[f].path = p
      <3> HIDE DEF C
      <3>1. /\ \A f \in FileId : listing[f] # Absent =>
                  disk[listing[f].path] = listing[f].hash
            /\ \A p \in C : disk[p] # Absent =>
                  \E f \in FileId : listing[f] # Absent /\ listing[f].path = p
        BY <2>1, <2>2, <2>3, <2>5, AllInSync
      <3> QED  BY <3>1 DEF C
    <2> QED  BY <2>2, <2>4, <2>5 DEF StatusTruthful
  <1>3. CASE op' # "confirm"
    BY <1>3 DEF StatusTruthful
  <1>4. \/ UNCHANGED <<process, ignored>>
        \/ Scan
        \/ op' # "confirm"
    BY DEF Next, vars, process, Edit, Teammate, List, Push, Untrack, SendRequest,
           RequestFails, ReadFails, Pushed, Pull, PullDeletion, PullContent, PullSkips,
           Pulled, Purge, Quit, Crash, End
  <1> QED  BY <1>1, <1>2, <1>3, <1>4

(* A file that status reports in sync has, on this machine, the path and   *)
(* the content that the server listed; when it reports nothing else, every *)
(* file of the project is here and every file of this machine that could   *)
(* be tracked is in the project.                                           *)
THEOREM StatusIsTruthful == Spec => []StatusTruthful
<1>1. Init => StatusTruthful
  BY DEF Init, StatusTruthful
<1>2. SyncInv /\ HistoryInv /\ SyncInv' /\ HistoryInv' /\ StatusTruthful /\ [Next]_vars
        => StatusTruthful'
  BY TruthfulStep
<1> QED  BY <1>1, <1>2, HistoryAlways, PTL DEF Spec

-----------------------------------------------------------------------------
(* A checkout that nobody disturbs. *)

(* Nobody else changes the project, no answer and no process is lost, and  *)
(* the project starts out empty.                                           *)
Alone ==
    /\ Reliable
    /\ MaxTeamwork = 0
    /\ Seed = NoRows
    /\ \A c \in Commands : c.name \in {"push", "pull"}

(* A listing that is the base leaves only local changes to report, and a   *)
(* file in sync has no other entry.                                        *)
LEMMA AlonePlan ==
    ASSUME NEW l \in Rows, NEW d \in Contents, NEW C \in SUBSET Path,
           NEW P \in Plans(l, l, d, C)
    PROVE  /\ \A e \in P : e.kind = "InSync" \/ IsLocalChange(e)
           /\ \A e, x \in P : e.kind = "InSync" /\ x.id = e.id => x.kind = "InSync"
  <1> DEFINE R == RemoteEntries(l, l, d)
             U == UntrackedEntries(l, l, d, C)
  <1>1. P = PairRenames(R \cup U)
    <2>1. PICK G \in Judges(l, l) : P = PairRenames(R \cup GoneEntries(G, l, d) \cup U)
      BY DEF Plans
    <2>2. Gone(l, l) = {}
      BY DEF Gone
    <2>3. GoneEntries(G, l, d) = {}
      BY <2>1, <2>2 DEF Judges, GoneEntries
    <2>4. R \cup GoneEntries(G, l, d) \cup U = R \cup U
      BY <2>3
    <2> QED  BY <2>1, <2>4
  <1>2. ASSUME NEW e \in R
        PROVE  /\ e.kind \in {"InSync", "Modified", "Deleted"}
               /\ e.id \in FileId /\ e = PlanSynced(e.id, l[e.id], l[e.id], d)
    <2>1. PICK f \in FileId : l[f] # Absent /\ e = PlanSynced(f, l[f], l[f], d)
      BY <1>2 DEF RemoteEntries
    <2>2. e.id = f
      BY <2>1, SyncedEntry
    <2>3. e.kind \in {"InSync", "Modified", "Deleted"}
      <3>1. CASE d[l[f].path] = Absent
        BY <2>1, <3>1 DEF PlanSynced, Entry
      <3>2. CASE d[l[f].path] # Absent
        BY <2>1, <3>2 DEF PlanSynced, Entry
      <3> QED  BY <3>1, <3>2
    <2> QED  BY <2>1, <2>2, <2>3
  <1>3. ASSUME NEW e \in U  PROVE e.kind = "Untracked" /\ e.id = Unset
    BY <1>3 DEF UntrackedEntries, Entry
  <1> HIDE DEF R, U
  <1>4. ASSUME NEW e \in P, e \notin R \cup U
        PROVE  e.kind = "Renamed" /\ \E r \in R : r.kind = "Deleted" /\ r.id = e.id
    <2>1. PICK r \in Renames(R \cup U) :
            e = Entry("Renamed", r[2].path, r[1].id, r[1].remote, r[2].local, r[1].path)
      BY <1>1, <1>4 DEF PairRenames
    <2>2. r[1] \in R \cup U /\ r[1].kind = "Deleted"
      BY DEF Renames
    <2>3. r[1] \in R
      BY <1>3, <2>2
    <2>4. e.kind = "Renamed" /\ e.id = r[1].id
      BY <2>1 DEF Entry
    <2> QED  BY <2>2, <2>3, <2>4
  <1>5. ASSUME NEW e \in P  PROVE e.kind = "InSync" \/ IsLocalChange(e)
    BY <1>2, <1>3, <1>4 DEF IsLocalChange
  <1>6. ASSUME NEW e \in P, NEW x \in P, e.kind = "InSync", x.id = e.id
        PROVE  x.kind = "InSync"
    <2>1. e \in R
      BY <1>3, <1>4, <1>6
    <2>2. e.id \in FileId /\ e = PlanSynced(e.id, l[e.id], l[e.id], d)
      BY <1>2, <2>1
    <2>3. CASE x \in R
      BY <1>2, <1>6, <2>2, <2>3
    <2>4. CASE x \in U
      BY <1>3, <1>6, <2>2, <2>4, NullAssumption
    <2>5. CASE x \notin R \cup U
      <3>1. PICK r \in R : r.kind = "Deleted" /\ r.id = e.id
        BY <1>4, <1>6, <2>5
      <3>2. r = e
        BY <1>2, <2>2, <3>1
      <3> QED  BY <1>6, <3>1, <3>2
    <2> QED  BY <2>3, <2>4, <2>5
  <1> QED  BY <1>5, <1>6

(* Between commands the base is the project; a push keeps its memory so.   *)
AloneInv ==
    /\ op # "idle" => cmd.name \in {"push", "pull"}
    /\ op # "write"
    /\ op \in {"idle", "scan", "confirm"} => base = files
    /\ op \in {"scan", "confirm"} => listing = files
    /\ op \in {"confirm", "send"} => state = files
    /\ op = "confirm" => \A e \in plan : e.kind = "InSync" \/ IsLocalChange(e)
    /\ op \in {"confirm", "send"} =>
          \A e, x \in plan : e.kind = "InSync" /\ x.id = e.id => x.kind = "InSync"
    /\ op = "send" =>
          /\ cmd.name = "push"
          /\ \A j \in todo : j.entry.kind # "InSync"
          /\ \A e \in plan : e.kind = "InSync" =>
                e.id \in issued /\ listing[e.id] = state[e.id]

(* The base that a push saves is its memory of the project. *)
LEMMA AloneSave ==
    ASSUME SyncInv, AloneInv, op \in {"confirm", "send"}, Save(state)
    PROVE  base' = files
  <1>1. \A e \in plan : e.kind = "InSync" => listing[e.id] = state[e.id]
    BY DEF AloneInv
  <1>2. \A f \in FileId : base'[f] = state[f]
    BY <1>1 DEF Save
  <1>3. base' = [f \in FileId |-> base'[f]] /\ state = [f \in FileId |-> state[f]]
    BY DEF Save, SyncInv, TypeOK
  <1>4. base' = state
    BY <1>2, <1>3
  <1> QED  BY <1>4 DEF AloneInv

LEMMA AloneSend ==
    ASSUME SyncInv, AloneInv, SendRequest
    PROVE  AloneInv'
  <1>1. PICK jobs \in Requests :
          Take(Body(jobs)) /\ state' = Recorded(jobs) /\ todo' = todo \ jobs
    BY DEF SendRequest
  <1> DEFINE b == Body(jobs)
             new == NewIds(b)
  <1>2. /\ op = "send" /\ op' = "send" /\ cmd' = cmd /\ plan' = plan /\ listing' = listing
        /\ state = files /\ jobs \subseteq todo
    BY <1>1 DEF SendRequest, AloneInv, Requests
  <1>3. /\ Request(b) /\ issued \in SUBSET FileId /\ Accepts(b)
        /\ files' = Result(files, b, new) /\ files' \in Rows
        /\ issued \subseteq issued'
    BY <1>1, <1>2, JobsRequest, TakeFacts DEF SyncInv, TypeOK, Rows, Take
  <1>4. \A i \in Creates(b) : new[i] \notin issued
    BY <1>3, FreshIds
  <1>5. state' = [f \in FileId |->
                    IF f \in Touched(b) \cup {new[i] : i \in Creates(b)}
                    THEN files'[f] ELSE files[f]]
    BY <1>1, <1>2 DEF Recorded
  <1>6. ASSUME NEW f \in FileId, f \notin Touched(b) \cup {new[i] : i \in Creates(b)}
        PROVE  files'[f] = files[f]
    <2>1. ~\E i \in Creates(b) : new[i] = f
      BY <1>6
    <2> HIDE DEF new, b
    <2> QED  BY <1>3, <1>6, <2>1 DEF Result
  <1>7. state' = files'
    <2>1. \A f \in FileId : state'[f] = files'[f]
      BY <1>5, <1>6
    <2>2. state' = [f \in FileId |-> state'[f]] /\ files' = [f \in FileId |-> files'[f]]
      BY <1>3, <1>5 DEF Rows
    <2> QED  BY <2>1, <2>2
  <1>8. ASSUME NEW e \in plan, e.kind = "InSync"
        PROVE  e.id \in issued' /\ listing[e.id] = state'[e.id]
    <2>1. e.id \in issued /\ listing[e.id] = files[e.id]
      BY <1>2, <1>8 DEF AloneInv
    <2>2. e.id \notin Touched(b)
      <3>1. SUFFICES ASSUME NEW j \in jobs, j.change.id # Unset, j.change.id = e.id
                     PROVE  FALSE
        BY DEF Touched, Edits, Body
      <3>2. j \in todo /\ Based(j) /\ j.entry \in plan
        BY <1>2, <3>1 DEF SyncInv, Working, AloneInv
      <3>3. j.entry.id = e.id /\ j.entry.kind # "InSync"
        BY <1>2, <3>1, <3>2 DEF Based, AloneInv
      <3> QED  BY <1>2, <1>8, <3>2, <3>3 DEF AloneInv
    <2>3. e.id \notin {new[i] : i \in Creates(b)}
      BY <1>4, <2>1
    <2> QED  BY <1>3, <1>5, <2>1, <2>2, <2>3
  <1> QED  BY <1>1, <1>2, <1>7, <1>8 DEF AloneInv

LEMMA AloneEnds ==
    ASSUME End, base' = files' PROVE AloneInv'
  BY DEF End, AloneInv

LEMMA AloneStep ==
    ASSUME Alone, SyncInv, AloneInv, [Next]_vars PROVE AloneInv'
  <1>1. CASE UNCHANGED <<server, base, process>>
    BY <1>1 DEF AloneInv, server, process
  <1>2. ASSUME NEW b \in Batch, Teammate(b)  PROVE AloneInv'
    BY <1>2 DEF Teammate, Alone, SyncInv, TypeOK
  <1>3. ASSUME NEW c \in Commands, List(c)  PROVE AloneInv'
    BY <1>3 DEF List, Alone, AloneInv, server
  <1>4. CASE Scan
    <2> DEFINE C == (Trackable \ ignored) \cup cmd.named
    <2>1. /\ files \in Rows /\ disk \in Contents /\ C \in SUBSET Path
      BY SyncAssumption DEF SyncInv, TypeOK, Command, Rows, Contents
    <2>2. /\ listing = files /\ base = files /\ plan' \in Plans(files, files, disk, C)
      BY <1>4 DEF Scan, AloneInv
    <2>3. /\ \A e \in plan' : e.kind = "InSync" \/ IsLocalChange(e)
          /\ \A e, x \in plan' : e.kind = "InSync" /\ x.id = e.id => x.kind = "InSync"
      <3> HIDE DEF C
      <3> QED  BY <2>1, <2>2, AlonePlan
    <2>4. \A e \in plan' : IsLocalChange(e)' = IsLocalChange(e)
      BY DEF IsLocalChange
    <2> QED  BY <1>4, <2>2, <2>3, <2>4 DEF Scan, AloneInv, server
  <1>5. CASE Push
    <2>0. Conflicts = {}
      BY <1>5 DEF Push, AloneInv, Conflicts, IsLocalChange
    <2>1. ASSUME NEW j \in todo'  PROVE j.entry.kind # "InSync"
      <3>1. PICK selected \in Selections : todo' = {Job(e, BuildChange(e)) : e \in selected}
        BY <1>5 DEF Push
      <3>2. j.entry \in selected
        BY <2>1, <3>1 DEF Job
      <3> QED  BY <2>0, <3>2, SelectionFacts DEF IsLocalChange
    <2>2. ASSUME NEW e \in plan, e.kind = "InSync"
          PROVE  e.id \in issued /\ listing[e.id] = state[e.id]
      BY <1>5, <2>2 DEF Push, AloneInv, SyncInv, Working, Sound, Housed
    <2> QED  BY <1>5, <2>1, <2>2 DEF Push, AloneInv, server
  <1>6. CASE Untrack \/ PullDeletion \/ PullContent \/ PullSkips \/ Pulled \/ Crash \/ Purge
    BY <1>6 DEF Untrack, PullDeletion, PullContent, PullSkips, Pulled, Crash, Purge,
               AloneInv, Alone
  <1>7. CASE Pull
    <2>1. \A e \in plan : e.kind \notin {"Behind", "NewOnServer", "DeletedOnServer", "Conflict"}
      BY <1>7 DEF Pull, AloneInv, IsLocalChange
    <2>2. Conflicts = {}
      BY <2>1 DEF Conflicts
    <2>3. \A removed : \A dropped \in Confirmed(removed) : dropped \subseteq removed
      BY DEF Confirmed
    <2>4. todo' = {}
      BY <1>7, <2>1, <2>2, <2>3 DEF Pull
    <2> QED  BY <1>7, <2>4 DEF Pull
  <1>8. CASE SendRequest
    BY <1>8, AloneSend
  <1>9. CASE RequestFails
    BY <1>9, AloneSave, AloneEnds DEF RequestFails, Alone, AloneInv, server
  <1>10. CASE ReadFails
    BY <1>10, AloneSave, AloneEnds DEF ReadFails, server
  <1>11. CASE Pushed
    BY <1>11, AloneSave, AloneEnds DEF Pushed, AloneInv, server
  <1>12. CASE Quit
    BY <1>12, AloneEnds DEF Quit, AloneInv, server
  <1>13. CASE UNCHANGED vars
    BY <1>1, <1>13 DEF vars, process, server
  <1>14. ASSUME NEW p \in Path, NEW c \in Hash \cup {Absent}, Edit(p, c)  PROVE AloneInv'
    BY <1>1, <1>14 DEF Edit
  <1> QED
    BY <1>2, <1>3, <1>4, <1>5, <1>6, <1>7, <1>8, <1>9, <1>10, <1>11, <1>12, <1>13, <1>14
       DEF Next

(* Where nobody else changes the project and no answer is lost, a checkout *)
(* that pushes and pulls, forced or not, never conflicts with its own      *)
(* pushes, whatever the user edits meanwhile and whichever requests of     *)
(* them the server refuses.                                                *)
THEOREM NoConflictAlone ==
    ASSUME Alone PROVE Spec => []NoConflictWithSelf
<1>1. Init => AloneInv
  BY DEF Init, Alone, AloneInv, NoRows
<1>2. SyncInv /\ AloneInv /\ [Next]_vars => AloneInv'
  BY AloneStep
<1>3. AloneInv => NoConflictWithSelf
  BY DEF AloneInv, NoConflictWithSelf, IsLocalChange
<1> QED  BY <1>1, <1>2, <1>3, SyncAlways, PTL DEF Spec
=============================================================================
