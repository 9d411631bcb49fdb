-------------------------------- MODULE Sync --------------------------------
(***************************************************************************)
(* One checkout of a repository kept in step with its project by the CLI:  *)
(* depvault push, pull, purge and untrack, run one after the other on one  *)
(* machine, while teammates change the project and the user, or any other  *)
(* program, changes the local files at any time.                           *)
(*                                                                         *)
(* The backend is what FileStore promises: a change request takes effect   *)
(* in one step or not at all.  Its answer may be lost.  The process may    *)
(* stop anywhere, and what it has not saved by then is gone.               *)
(***************************************************************************)
EXTENDS SyncPlanner

CONSTANTS
    Trackable,      \* paths discovery offers: secret-looking and ignored by git
    Commands,       \* the commands the user runs
    Reliable,       \* neither an answer nor a process is ever lost
    MaxPerRequest,  \* changes in one request
    MaxCommands,    \* bound: commands run
    MaxEdits,       \* bound: local files changed by hand
    MaxTeamwork     \* bound: change requests of teammates

Command ==
    [name : {"push", "pull", "purge", "untrack"}, force : BOOLEAN,
     yes : BOOLEAN, named : SUBSET Path]

ASSUME SyncAssumption ==
    /\ Trackable \subseteq Path
    /\ Commands \subseteq Command
    /\ \A c \in Commands : c.name = "untrack" => c.named # {}
    /\ Reliable \in BOOLEAN
    /\ MaxPerRequest \in Nat \ {0}
    /\ MaxCommands \in Nat
    /\ MaxEdits \in Nat
    /\ MaxTeamwork \in Nat
    /\ IsFiniteSet(FileId)

VARIABLES
    files,      \* rows of the project on the server
    issued,     \* identifiers the server has given out
    history,    \* every state a file has had on the server
    disk,       \* content of the local files
    base,       \* the sync base saved on this machine
    ignored,    \* paths .depvault.json says to ignore
    op,         \* where the process is: idle, scan, confirm, send, write
    cmd,        \* the command it runs
    listing,    \* the rows the server listed for it
    seen,       \* content of the local files as it hashed them
    plan,       \* the entries it planned
    state,      \* the base as it has it in memory
    todo,       \* entries (pull) or jobs (push, untrack) still to carry out
    blobs,      \* the content it downloaded, by file
    failed,     \* a file was listed as an error and skipped
    used        \* how much of each bound is used up

server == <<files, issued, history>>
process == <<op, cmd, listing, seen, plan, state, todo, blobs, failed>>
vars == <<files, issued, history, disk, base, ignored, op, cmd, listing, seen,
          plan, state, todo, blobs, failed, used>>

NoRows == [f \in FileId |-> Absent]
NoContent == [p \in Path |-> Absent]
NoCommand == [name |-> "pull", force |-> FALSE, yes |-> FALSE, named |-> {}]

(* A change and the entry it was made for.                                 *)
Job(e, c) == [entry |-> e, change |-> c]

Init ==
    /\ files = Seed
    /\ issued = {f \in FileId : Seed[f] # Absent}
    /\ history = FirstSnapshots(Seed)
    /\ disk = NoContent
    /\ base = NoRows
    /\ ignored = {}
    /\ op = "idle"
    /\ cmd = NoCommand
    /\ listing = NoRows
    /\ seen = NoContent
    /\ plan = {}
    /\ state = NoRows
    /\ todo = {}
    /\ blobs = NoRows
    /\ failed = FALSE
    /\ used = [commands |-> 0, edits |-> 0, teamwork |-> 0]

(* The process is over: what it held in memory is gone.                    *)
End ==
    /\ op' = "idle"
    /\ cmd' = NoCommand
    /\ listing' = NoRows
    /\ seen' = NoContent
    /\ plan' = {}
    /\ state' = NoRows
    /\ todo' = {}
    /\ blobs' = NoRows
    /\ failed' = FALSE

-----------------------------------------------------------------------------
(* Around the process. *)

(* The user writes, creates or deletes a local file.                       *)
Edit(p, content) ==
    /\ used.edits < MaxEdits
    /\ disk[p] # content
    /\ disk' = [disk EXCEPT ![p] = content]
    /\ used' = [used EXCEPT !.edits = @ + 1]
    /\ UNCHANGED <<server, base, ignored, process>>

(* The server takes batch b; the identifiers it gives to new files.        *)
Accepts(b) ==
    /\ Valid(b)
    /\ Current(files, b)
    /\ Cardinality(FileId \ issued) >= Cardinality(Creates(b))

NewIds(b) ==
    CHOOSE new \in [Creates(b) -> FileId \ issued] :
        \A i, j \in Creates(b) : new[i] = new[j] => i = j

Take(b) ==
    /\ Accepts(b)
    /\ files' = Result(files, b, NewIds(b))
    /\ PathsUnique(files')
    /\ issued' = issued \cup {NewIds(b)[i] : i \in Creates(b)}
    /\ history' = history \cup
          {SnapshotOf(f, files'[f]) : f \in {g \in FileId : files'[g] # Absent}}

(* A teammate, or this user in the web app, changes the project.           *)
Teammate(b) ==
    /\ used.teamwork < MaxTeamwork
    /\ Take(b)
    /\ used' = [used EXCEPT !.teamwork = @ + 1]
    /\ UNCHANGED <<disk, base, ignored, process>>

-----------------------------------------------------------------------------
(* Opening a command. *)

(* Path arguments: none stands for every file.                             *)
Matches(p) == cmd.named = {} \/ p \in cmd.named

Matched(e) == Matches(e.path) \/ (e.from # Unset /\ Matches(e.from))

(* LoadAsync lists the server.                                             *)
List(c) ==
    /\ op = "idle"
    /\ used.commands < MaxCommands
    /\ op' = "scan"
    /\ cmd' = c
    /\ listing' = files
    /\ used' = [used EXCEPT !.commands = @ + 1]
    /\ UNCHANGED <<server, disk, base, ignored, seen, plan, state, todo, blobs,
                   failed>>

(* LoadAsync loads the base, hashes the local files that matter and plans. *)
Scan ==
    /\ op = "scan"
    /\ cmd.name # "untrack"
    /\ op' = "confirm"
    /\ seen' = disk
    /\ state' = base
    /\ plan' \in Plans(listing, base, disk,
                    (Trackable \ ignored) \cup cmd.named)
    /\ UNCHANGED <<server, disk, base, ignored, cmd, listing, todo, blobs, failed,
                   used>>

(* Deletions are confirmed all or none, or else carried out for the files  *)
(* that were named.                                                        *)
Confirmed(deletions) ==
    IF cmd.yes THEN {{e \in deletions : e.path \in cmd.named}}
               ELSE {{}, deletions}

Conflicts == {e \in plan : e.kind = "Conflict" /\ Matched(e)}

-----------------------------------------------------------------------------
(* Push and untrack. *)

DeleteChange(f, r) ==
    [id |-> f, base |-> r.version, path |-> Unset, content |-> Unset,
     delete |-> TRUE]

(* BuildChangeAsync: content is read again, a rename sends the path alone, *)
(* and a file that moved on the server is moved back.                      *)
BuildChange(e) ==
    CASE e.local = Absent -> DeleteChange(e.id, e.remote)
      [] e.local # Absent /\ e.kind = "Renamed" ->
            [id |-> e.id, base |-> e.remote.version, path |-> e.path,
             content |-> Unset, delete |-> FALSE]
      [] e.local # Absent /\ e.remote = Absent ->
            [id |-> Unset, base |-> Unset, path |-> e.path,
             content |-> disk[e.path], delete |-> FALSE]
      [] OTHER ->
            [id |-> e.id, base |-> e.remote.version,
             path |-> IF e.remote.path = e.path THEN Unset ELSE e.path,
             content |-> disk[e.path], delete |-> FALSE]

(* The file whose content the change carries has been deleted meanwhile.   *)
Unreadable(e) ==
    e.local # Absent /\ e.kind # "Renamed" /\ disk[e.path] = Absent

(* The changes to push: conflicts stop it unless forced; the user picks    *)
(* from the rest, or takes all of it with --yes.                           *)
Selections ==
    LET changes   == {e \in plan : Matched(e) /\ IsLocalChange(e)} \cup Conflicts
        deletions == {e \in changes : e.kind = "Deleted"}
    IN  {picked \cup dropped :
            picked \in IF cmd.yes THEN {changes \ deletions}
                                  ELSE SUBSET (changes \ deletions),
            dropped \in Confirmed(deletions)}

Push ==
    /\ op = "confirm"
    /\ cmd.name = "push"
    /\ Conflicts = {} \/ cmd.force
    /\ \E selected \in Selections \ {{}} :
         /\ \A e \in selected : ~Unreadable(e)
         /\ todo' = {Job(e, BuildChange(e)) : e \in selected}
    /\ op' = "send"
    /\ UNCHANGED <<server, disk, base, ignored, cmd, listing, seen, plan, state,
                   blobs, failed, used>>

(* untrack lists, confirms and deletes on the server; local copies stay.   *)
Untrack ==
    /\ op = "scan"
    /\ cmd.name = "untrack"
    /\ op' = "send"
    /\ state' = base
    /\ todo' = {Job(Entry("InSync", listing[f].path, f, listing[f], Absent, Unset),
                    DeleteChange(f, listing[f])) :
                  f \in {g \in FileId : listing[g] # Absent
                                        /\ Matches(listing[g].path)}}
    /\ UNCHANGED <<server, disk, base, ignored, cmd, listing, seen, plan, blobs,
                   failed, used>>

(* A request: the next jobs in order, as many as its limits on the number  *)
(* of changes and on their bytes allow.                                    *)
Requests ==
    {jobs \in SUBSET todo :
        /\ jobs # {}
        /\ IsFiniteSet(jobs)
        /\ Cardinality(jobs) <= MaxPerRequest
        /\ \A j \in jobs, k \in todo \ jobs : EntryBefore(j.entry, k.entry)}

Body(jobs) == [j \in jobs |-> j.change]

(* What the base becomes when the server has answered a request.           *)
Recorded(jobs) ==
    LET b == Body(jobs) IN
    [f \in FileId |->
        IF f \in Touched(b) \cup {NewIds(b)[j] : j \in Creates(b)}
        THEN files'[f] ELSE state[f]]

(* Mutation: nothing is saved for a push that fails. *)
SaveNothing(st) == base' = base

(* Save also records the files that already matched the server.            *)
Save(st) ==
    base' = [f \in FileId |->
                IF \E e \in plan : e.kind = "InSync" /\ e.id = f
                THEN listing[f] ELSE st[f]]

SendRequest ==
    /\ op = "send"
    /\ \E jobs \in Requests :
         /\ Take(Body(jobs))
         /\ state' = Recorded(jobs)
         /\ todo' = todo \ jobs
    /\ UNCHANGED <<disk, base, ignored, op, cmd, listing, seen, plan, blobs, failed,
                   used>>

(* The request is refused, or carried out without the client learning it.  *)
(* A push saves what it has recorded so far; untrack does not.             *)
RequestFails ==
    /\ op = "send"
    /\ \/ todo # {} /\ UNCHANGED server
       \/ ~Reliable /\ \E jobs \in Requests : Take(Body(jobs))
    /\ IF cmd.name = "push" THEN Save(state) ELSE UNCHANGED base
    /\ End
    /\ UNCHANGED <<disk, ignored, used>>

(* A file to push cannot be read: nothing is sent.                         *)
ReadFails ==
    /\ op = "confirm"
    /\ cmd.name = "push"
    /\ Conflicts = {} \/ cmd.force
    /\ \E selected \in Selections : \E e \in selected : Unreadable(e)
    /\ Save(state)
    /\ End
    /\ UNCHANGED <<server, disk, ignored, used>>

Pushed ==
    /\ op = "send"
    /\ todo = {}
    /\ \/ cmd.name = "push" /\ Save(state) /\ UNCHANGED ignored
       \/ cmd.name = "untrack" /\ base' = state /\ ignored' = ignored \cup cmd.named
    /\ End
    /\ UNCHANGED <<server, disk, used>>

-----------------------------------------------------------------------------
(* Pull and purge. *)

(* PullAsync downloads the content its entries have now.                   *)
Pull ==
    /\ op = "confirm"
    /\ cmd.name = "pull"
    /\ LET incoming == {e \in plan : Matched(e) /\ e.kind \in {"Behind", "NewOnServer"}}
           removed  == {e \in plan : Matched(e) /\ e.kind = "DeletedOnServer"}
       IN  \E dropped \in Confirmed(removed) :
             todo' = incoming \cup dropped
                       \cup (IF cmd.force THEN Conflicts ELSE {})
    /\ todo' # {}
    /\ blobs' = [f \in FileId |->
                    IF files[f] # Absent /\ \E e \in todo' : e.id = f
                    THEN files[f].hash ELSE Absent]
    /\ op' = "write"
    /\ UNCHANGED <<server, disk, base, ignored, cmd, listing, seen, plan, state,
                   failed, used>>

Foremost(e) == e \in todo /\ \A d \in todo \ {e} : EntryBefore(e, d)

(* An entry without a row on the server: the local copy goes.              *)
PullDeletion ==
    /\ op = "write"
    /\ \E e \in todo :
         /\ Foremost(e)
         /\ e.remote = Absent
         /\ disk' = [disk EXCEPT ![e.path] = Absent]
         /\ state' = [f \in FileId |->
               IF state[f] # Absent /\ state[f].path = e.path
               THEN Absent ELSE state[f]]
         /\ todo' = todo \ {e}
    /\ UNCHANGED <<server, base, ignored, op, cmd, listing, seen, plan, blobs,
                   failed, used>>

(* Mutation: the base takes the content that was downloaded. *)
ToSyncedAsDownloaded(e) == [e.remote EXCEPT !.hash = blobs[e.id]]

(* What the base says of a file that was pulled: the row that was listed.  *)
ToSynced(e) == e.remote

Written(e) == [disk EXCEPT ![e.remote.path] = blobs[e.id]]

(* The content is written where the listing had the file, and a copy that  *)
(* the server moved away is deleted.                                       *)
PullContent ==
    /\ op = "write"
    /\ \E e \in todo :
         /\ Foremost(e)
         /\ e.remote # Absent
         /\ blobs[e.id] # Absent
         /\ disk' = IF e.from # Unset /\ e.kind = "Behind"
                    THEN [Written(e) EXCEPT ![e.from] = Absent]
                    ELSE Written(e)
         /\ state' = [state EXCEPT ![e.id] = ToSynced(e)]
         /\ todo' = todo \ {e}
    /\ UNCHANGED <<server, base, ignored, op, cmd, listing, seen, plan, blobs,
                   failed, used>>

(* The file left the server after it was listed, or the disk refuses it,   *)
(* perhaps half way: it is skipped.                                        *)
PullSkips ==
    /\ op = "write"
    /\ \E e \in todo :
         /\ Foremost(e)
         /\ todo' = todo \ {e}
         /\ IF e.remote # Absent /\ blobs[e.id] = Absent THEN UNCHANGED disk
            ELSE \/ UNCHANGED disk
                 \/ /\ e.remote # Absent /\ e.from # Unset /\ e.kind = "Behind"
                    /\ disk' = Written(e)
    /\ failed' = TRUE
    /\ UNCHANGED <<server, base, ignored, op, cmd, listing, seen, plan, state, blobs,
                   used>>

Pulled ==
    /\ op = "write"
    /\ todo = {}
    /\ Save(state)
    /\ End
    /\ UNCHANGED <<server, disk, ignored, used>>

(* purge deletes local copies and forgets their base.                      *)
Purge ==
    /\ op = "confirm"
    /\ cmd.name = "purge"
    /\ LET present == {e \in plan : Matched(e) /\ e.remote # Absent /\ e.local # Absent}
           targets == IF cmd.force THEN present
                      ELSE {e \in present : e.kind \in {"InSync", "Behind"}}
       IN
       /\ targets # {}
       /\ disk' = [p \in Path |->
                      IF \E e \in targets : e.path = p THEN Absent ELSE disk[p]]
       /\ base' = [f \in FileId |->
                      IF \E e \in targets : e.id = f THEN Absent ELSE state[f]]
    /\ End
    /\ UNCHANGED <<server, ignored, used>>

-----------------------------------------------------------------------------
(* Nothing to do, the user says no, a conflict stops the push: the process *)
(* ends and changes nothing.                                               *)
Quit ==
    /\ op \in {"scan", "confirm"}
    /\ End
    /\ UNCHANGED <<server, disk, base, ignored, used>>

(* The process is killed, or a download fails, before anything is saved.   *)
Crash ==
    /\ op \in {"send", "write"}
    /\ ~Reliable
    /\ End
    /\ UNCHANGED <<server, disk, base, ignored, used>>

Next ==
    \/ \E p \in Path, content \in Hash \cup {Absent} : Edit(p, content)
    \/ \E b \in Batch : Teammate(b)
    \/ \E c \in Commands : List(c)
    \/ Scan
    \/ Push \/ Untrack \/ SendRequest \/ RequestFails \/ ReadFails \/ Pushed
    \/ Pull \/ PullDeletion \/ PullContent \/ PullSkips \/ Pulled
    \/ Purge
    \/ Quit \/ Crash

Spec == Init /\ [][Next]_vars

-----------------------------------------------------------------------------
(* Properties. *)

EntryType ==
    [kind : {"InSync", "Modified", "Untracked", "Deleted", "Renamed", "Behind",
             "NewOnServer", "DeletedOnServer", "Conflict"},
     path : Path, id : FileId \cup {Unset}, remote : Row \cup {Absent},
     local : Hash \cup {Absent}, from : Path \cup {Unset}]

TypeOK ==
    /\ files \in [FileId -> Row \cup {Absent}]
    /\ issued \subseteq FileId
    /\ history \subseteq Snapshot
    /\ disk \in [Path -> Hash \cup {Absent}]
    /\ base \in [FileId -> Row \cup {Absent}]
    /\ ignored \subseteq Path
    /\ op \in {"idle", "scan", "confirm", "send", "write"}
    /\ cmd \in Command
    /\ listing \in [FileId -> Row \cup {Absent}]
    /\ seen \in [Path -> Hash \cup {Absent}]
    /\ plan \subseteq EntryType
    /\ state \in [FileId -> Row \cup {Absent}]
    /\ op # "send" => todo \subseteq EntryType
    /\ op = "send" => \A j \in todo : j.entry \in EntryType /\ j.change \in Change
    /\ blobs \in [FileId -> Hash \cup {Absent}]
    /\ failed \in BOOLEAN
    /\ used \in [commands : 0..MaxCommands, edits : 0..MaxEdits,
                 teamwork : 0..MaxTeamwork]

(* Whatever happens between a listing, a download, the requests and the    *)
(* save, a base never says what the server did not have: every row of it   *)
(* was a row of that file on the server.  The plan may compare versions    *)
(* alone because of that.  (ToSynced, Save, PushAsync, PullAsync.)         *)
BaseFromServer ==
    \A f \in FileId :
        /\ base[f] # Absent => SnapshotOf(f, base[f]) \in history
        /\ state[f] # Absent => SnapshotOf(f, state[f]) \in history

(* A file reported in sync has, locally, the path and the content the       *)
(* server listed; and where nothing but that is reported, every file of     *)
(* the project is here and every file discovery offers is in the project.   *)
StatusTruthful ==
    op = "confirm" =>
        /\ \A e \in plan : e.kind = "InSync" =>
             e.path = e.remote.path /\ seen[e.path] = e.remote.hash
        /\ (\A e \in plan : e.kind = "InSync") =>
             /\ \A f \in FileId : listing[f] # Absent =>
                  seen[listing[f].path] = listing[f].hash
             /\ \A p \in Trackable \ ignored : seen[p] # Absent =>
                  \E f \in FileId : listing[f] # Absent /\ listing[f].path = p

(* The content of the local file p is what was last synced there, or what   *)
(* the server listed there: it is no work of the user's that pushes have    *)
(* not sent.                                                                *)
Shared(p) ==
    \E f \in FileId :
        \/ base[f] # Absent /\ base[f].path = p /\ base[f].hash = disk[p]
        \/ listing[f] # Absent /\ listing[f].path = p /\ listing[f].hash = disk[p]

(* Pull and purge without --force overwrite and delete no local work, but  *)
(* for files changed after the command hashed them.                        *)
LocalWorkKept ==
    [][(PullDeletion \/ PullContent \/ PullSkips \/ Purge) /\ ~cmd.force =>
          \A p \in Path :
              disk'[p] # disk[p] /\ disk[p] # Absent /\ disk[p] = seen[p]
                  => Shared(p)]_vars

(* Push without --force changes a file only if the server still has what   *)
(* this machine last synced of it, so nobody else's change is overwritten, *)
(* however old the plan is when it is sent.                                *)
TeamworkKept ==
    [][(SendRequest \/ RequestFails) /\ cmd.name = "push" /\ ~cmd.force =>
          \A f \in FileId :
              files[f] # Absent /\ files'[f] # files[f]
                  => files[f] = base[f]]_vars

(* Where nobody else changes the project and no answer is lost, a checkout *)
(* never conflicts with its own pushes: a request that fails leaves what   *)
(* the earlier ones did in the base.                                       *)
NoConflictWithSelf ==
    op = "confirm" => \A e \in plan : e.kind # "Conflict"

(* What docs/cli.md and ConfirmDeletions say: with --yes a push deletes on *)
(* the server only files named exactly, so a wiped working tree can never  *)
(* empty the vault.                                                        *)
WipedTreeKeepsVault ==
    [][cmd.name = "push" /\ cmd.yes /\ SendRequest =>
          \A f \in FileId :
              files[f] # Absent /\ files'[f] = Absent
                  => files[f].path \in cmd.named]_vars

(* What PullAsync says of itself: the server's changes are written to      *)
(* disk.  When a pull ends without an error, the files it records as       *)
(* synced are there.  (The run lets nobody edit local files meanwhile.)    *)
PulledFilesAreHere ==
    [][Pulled /\ ~failed =>
          \A f \in FileId :
              base'[f] # Absent /\ base'[f] # base[f]
                  => disk[base'[f].path] # Absent]_vars
=============================================================================
