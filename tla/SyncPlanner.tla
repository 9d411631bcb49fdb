----------------------------- MODULE SyncPlanner -----------------------------
(***************************************************************************)
(* The three-way comparison behind status, push and pull: the rows the     *)
(* server lists, the rows this machine last synced (its base) and the      *)
(* content of the local files give one entry for every file that one of    *)
(* them knows.  A plan is a set of entries here; the order in which they   *)
(* are carried out is EntryBefore.                                         *)
(***************************************************************************)
EXTENDS RepoBatch

(* Paths are numbered in ordinal order, the order plans are sorted in.  A  *)
(* listing has the order of the database's collation, taken to agree.      *)
ASSUME PathAssumption == Path \subseteq Nat

ASSUME DiskAssumption == Absent \notin Hash

Entry(kind, path, f, remote, local, from) ==
    [kind |-> kind, path |-> path, id |-> f, remote |-> remote,
     local |-> local, from |-> from]

-----------------------------------------------------------------------------
(* Mutation: a base of any version counts as the server's. *)
PlanIgnoringVersions(f, r, s, disk) ==
    CASE disk[s.path] = Absent -> Entry("Deleted", s.path, f, r, Absent, Unset)
      [] disk[s.path] = s.hash ->
            Entry("InSync", s.path, f, r, disk[s.path], Unset)
      [] OTHER -> Entry("Modified", s.path, f, r, disk[s.path], Unset)

(* Mutation: a move on the server overwrites whatever is in its way. *)
PlanOverOccupant(f, r, s, disk) ==
    CASE r.version = s.version /\ disk[s.path] = Absent ->
            Entry("Deleted", s.path, f, r, Absent, Unset)
      [] r.version = s.version /\ disk[s.path] = s.hash ->
            Entry("InSync", s.path, f, r, disk[s.path], Unset)
      [] r.version = s.version /\ disk[s.path] \notin {s.hash, Absent} ->
            Entry("Modified", s.path, f, r, disk[s.path], Unset)
      [] r.version # s.version /\ disk[s.path] = s.hash ->
            Entry("Behind", r.path, f, r, disk[s.path],
                  IF r.path # s.path THEN s.path ELSE Unset)
      [] OTHER -> Entry("Conflict", s.path, f, r, disk[s.path], Unset)

(* Row r of a listed file whose base is s.                                 *)
PlanSynced(f, r, s, disk) ==
    LET hash     == disk[s.path]
        changed  == hash # s.hash
        moved    == r.path # s.path
        occupied == moved /\ disk[r.path] \notin {Absent, r.hash}
    IN
    CASE r.version = s.version /\ hash = Absent ->
            Entry("Deleted", s.path, f, r, Absent, Unset)
      [] r.version = s.version /\ hash # Absent ->
            Entry(IF changed THEN "Modified" ELSE "InSync",
                  s.path, f, r, hash, Unset)
      [] r.version # s.version /\ ~changed /\ occupied ->
            Entry("Conflict", r.path, f, r, disk[r.path], s.path)
      [] r.version # s.version /\ ~changed /\ ~occupied ->
            Entry("Behind", r.path, f, r, hash, IF moved THEN s.path ELSE Unset)
      [] r.version # s.version /\ changed /\ hash = r.hash /\ ~moved ->
            Entry("InSync", r.path, f, r, hash, Unset)
      [] OTHER ->
            Entry("Conflict", s.path, f, r, hash, Unset)

(* A listed file this machine never synced: adopt an identical copy.       *)
PlanUnsynced(f, r, disk) ==
    LET kind == CASE disk[r.path] = Absent -> "NewOnServer"
                  [] disk[r.path] = r.hash -> "InSync"
                  [] OTHER -> "Conflict"
    IN  Entry(kind, r.path, f, r, disk[r.path], Unset)

RemoteEntries(listing, base, disk) ==
    {IF base[f] # Absent THEN PlanSynced(f, listing[f], base[f], disk)
                         ELSE PlanUnsynced(f, listing[f], disk) :
        f \in {g \in FileId : listing[g] # Absent}}

(* The paths those entries speak for.                                      *)
Claimed(listing, base) ==
    UNION {{listing[f].path} \cup
           (IF base[f] # Absent THEN {base[f].path} ELSE {}) :
              f \in {g \in FileId : listing[g] # Absent}}

(* Synced files the server no longer lists, on paths nobody claims.        *)
Gone(listing, base) ==
    {f \in FileId : /\ base[f] # Absent
                    /\ listing[f] = Absent
                    /\ base[f].path \notin Claimed(listing, base)}

(* Each path is judged once, by whichever of its files comes first in the  *)
(* dictionary that holds the base.                                         *)
Judges(listing, base) ==
    {G \in SUBSET Gone(listing, base) :
        \A f \in Gone(listing, base) :
            \E g \in G : \A h \in G : base[h].path = base[f].path <=> h = g}

GoneEntries(judges, base, disk) ==
    {Entry(IF disk[base[f].path] = base[f].hash
           THEN "DeletedOnServer" ELSE "Conflict",
           base[f].path, Unset, Absent, disk[base[f].path], Unset) :
        f \in {g \in judges : disk[base[g].path] # Absent}}

UntrackedEntries(listing, base, disk, candidates) ==
    {Entry("Untracked", p, Unset, Absent, disk[p], Unset) :
        p \in {q \in candidates :
                 /\ disk[q] # Absent
                 /\ q \notin Claimed(listing, base)
                 /\ \A f \in Gone(listing, base) : base[f].path # q}}

(* A deleted file and the only untracked file with the content it has on   *)
(* the server are one renamed file.                                        *)
Renames(entries) ==
    {r \in {e \in entries : e.kind = "Deleted"}
             \X {e \in entries : e.kind = "Untracked"} :
        /\ r[1].remote.hash = r[2].local
        /\ \A e \in entries :
             e.kind = "Untracked" /\ e.local = r[2].local => e = r[2]
        /\ \A e \in entries :
             e.kind = "Deleted" /\ e.remote.hash = r[2].local
                => r[1].remote.path <= e.remote.path}

PairRenames(entries) ==
    (entries \ UNION {{r[1], r[2]} : r \in Renames(entries)})
        \cup {Entry("Renamed", r[2].path, r[1].id, r[1].remote, r[2].local,
                    r[1].path) : r \in Renames(entries)}

Plans(listing, base, disk, candidates) ==
    {PairRenames(RemoteEntries(listing, base, disk)
                   \cup GoneEntries(judges, base, disk)
                   \cup UntrackedEntries(listing, base, disk, candidates)) :
        judges \in Judges(listing, base)}

-----------------------------------------------------------------------------
IsLocalChange(e) == e.kind \in {"Modified", "Untracked", "Deleted", "Renamed"}

IsDeletion(e) == e.kind \in {"Deleted", "DeletedOnServer"}

(* By path, what is listed first first; confirmed deletions come last.     *)
EntryBefore(d, e) ==
    IF IsDeletion(d) # IsDeletion(e) THEN IsDeletion(e)
    ELSE \/ d.path < e.path
         \/ d.path = e.path /\ d.remote.path < e.remote.path
=============================================================================
