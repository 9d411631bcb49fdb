------------------------------ MODULE FileStore ------------------------------
(***************************************************************************)
(* What POST /projects/:id/files/changes promises, whatever the database   *)
(* does in between: a request takes effect in one step or not at all; it   *)
(* takes effect only if every file it changes is then at the version the   *)
(* client based its change on; the files keep distinct paths; the new      *)
(* state of every file it changes joins that file's history; and the       *)
(* answer tells the truth, except that "error" leaves the client not       *)
(* knowing.  A change that alters nothing is held to its version once,     *)
(* when the request is checked, and not again when it takes effect.        *)
(***************************************************************************)
EXTENDS RepoBatch

VARIABLES
    files,      \* the rows of repo_files
    versions,   \* the rows of repo_file_versions
    asked,      \* the batch a handler serves
    settled,    \* which of its changes were found to alter nothing
    phase,      \* how far the request is: idle, asked, checked, applied
    reply       \* the last answer a handler gave

vars == <<files, versions, asked, settled, phase, reply>>

Rejection == {"conflict", "planLimit", "error"}

Init ==
    /\ files = Seed
    /\ versions = FirstSnapshots(Seed)
    /\ asked = [h \in Handler |-> << >>]
    /\ settled = [h \in Handler |-> {}]
    /\ phase = [h \in Handler |-> "idle"]
    /\ reply = [h \in Handler |-> "none"]

Ask(h) ==
    /\ phase[h] = "idle"
    /\ \E b \in Batch :
         /\ Valid(b)
         /\ asked' = [asked EXCEPT ![h] = b]
    /\ phase' = [phase EXCEPT ![h] = "asked"]
    /\ reply' = [reply EXCEPT ![h] = "none"]
    /\ UNCHANGED <<files, versions, settled>>

(* A malformed body is refused on the spot. *)
Refuse(h) ==
    /\ phase[h] = "idle"
    /\ reply' = [reply EXCEPT ![h] = "badRequest"]
    /\ UNCHANGED <<files, versions, asked, settled, phase>>

Finish(h, r) ==
    /\ asked' = [asked EXCEPT ![h] = << >>]
    /\ settled' = [settled EXCEPT ![h] = {}]
    /\ phase' = [phase EXCEPT ![h] = "idle"]
    /\ reply' = [reply EXCEPT ![h] = r]

Reject(h) ==
    /\ phase[h] \in {"asked", "checked"}
    /\ \E r \in Rejection : Finish(h, r)
    /\ UNCHANGED <<files, versions>>

(* The changes of batch b that leave the rows they edit as they are.       *)
Idle(rows, b) ==
    {i \in Edits(b) : ~b[i].delete /\ ~Changed(rows[b[i].id], b[i])}

(* Every version the client sent is checked at once.                       *)
Check(h) ==
    /\ phase[h] = "asked"
    /\ Current(files, asked[h])
    /\ settled' = [settled EXCEPT ![h] = Idle(files, asked[h])]
    /\ phase' = [phase EXCEPT ![h] = "checked"]
    /\ UNCHANGED <<files, versions, asked, reply>>

(* The changes of batch b but those in S.                                  *)
Without(b, S) == [i \in DOMAIN b \ S |-> b[i]]

(* Histories vanish with their file; a changed file gains its new state. *)
ResultVersions(history, rows, new) ==
    {s \in history : new[s.id] # Absent}
        \cup {SnapshotOf(f, new[f]) :
                f \in {g \in FileId : new[g] # Absent /\ new[g] # rows[g]}}

Apply(h) ==
    /\ phase[h] = "checked"
    /\ LET b == Without(asked[h], settled[h]) IN
         /\ Current(files, b)
         /\ \E new \in [Creates(b) -> {f \in FileId : files[f] = Absent}] :
              /\ \A i, j \in Creates(b) : new[i] = new[j] => i = j
              /\ files' = Result(files, b, new)
    /\ PathsUnique(files')
    /\ versions' = ResultVersions(versions, files, files')
    /\ settled' = [settled EXCEPT ![h] = {}]
    /\ phase' = [phase EXCEPT ![h] = "applied"]
    /\ UNCHANGED <<asked, reply>>

Answer(h) ==
    /\ phase[h] = "applied"
    /\ \E r \in {"ok", "error"} : Finish(h, r)
    /\ UNCHANGED <<files, versions>>

Next ==
    \E h \in Handler :
        \/ Ask(h) \/ Refuse(h) \/ Check(h)
        \/ Reject(h) \/ Apply(h) \/ Answer(h)

Spec == Init /\ [][Next]_vars
=============================================================================
