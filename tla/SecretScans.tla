---------------------------- MODULE SecretScans ----------------------------
(***************************************************************************)
(* Scans of one project's commits for secrets: secret-scan.service.ts,     *)
(* secret-scan.executor.ts and the daily secret-scan.job.ts.  A scan runs  *)
(* in the background of the process that started it; a restart forgets it, *)
(* and a scan that has been active for an hour is declared abandoned when  *)
(* the next one starts, though it may only be slow.                        *)
(***************************************************************************)
EXTENDS Naturals, FiniteSets

CONSTANTS
    Finding,    \* secrets that the commits may hold
    Starter,    \* requests that may start a scan at once; one is the job
    MaxScans    \* bound: scans ever started

ASSUME ScanBound == MaxScans \in Nat

VARIABLES
    scan,       \* secret_scans: the status of each row
    stale,      \* the scans created an hour ago or more
    exec,       \* what each scan's executor does next, and has found
    starting,   \* the starters that have swept stale scans
    commits,    \* the secrets that the repository holds by now
    detection,  \* secret_detections: the status of each row
    told,       \* history: how often the owner was notified of a finding
    orphaned    \* history: scans whose executor stopped without a word

scanVars == <<scan, stale, exec, starting, commits, detection, told, orphaned>>

Scan == 1..MaxScans
Status == {"none", "PENDING", "RUNNING", "COMPLETED", "FAILED"}
ScanStep == {"none", "begin", "collect", "insert", "complete", "notify", "fail", "done"}
Active == {n \in Scan : scan[n] \in {"PENDING", "RUNNING"}}
Stored == {f \in Finding : detection[f] # "none"}

ScanInit ==
    /\ scan = [n \in Scan |-> "none"]
    /\ stale = {}
    /\ exec = [n \in Scan |-> [step |-> "none", found |-> {}, new |-> {}]]
    /\ starting = {}
    /\ commits = {}
    /\ detection = [f \in Finding |-> "none"]
    /\ told = [f \in Finding |-> 0]
    /\ orphaned = {}

Set(n, status) == scan' = [scan EXCEPT ![n] = status]
GoOn(n, step) == exec' = [exec EXCEPT ![n].step = step]

(***************************************************************************)
(* Starting a scan.                                                        *)
(***************************************************************************)
(* Mutation: only scans that have begun are swept. *)
AbandonedRunning == {n \in stale : scan[n] = "RUNNING"}

Abandoned == Active \cap stale

SweepStale(r) ==
    /\ r \notin starting
    /\ scan' = [n \in Scan |-> IF n \in Abandoned THEN "FAILED" ELSE scan[n]]
    /\ starting' = starting \cup {r}
    /\ UNCHANGED <<stale, exec, commits, detection, told, orphaned>>

Fresh == {n \in Scan : scan[n] = "none"}

(* Mutation: without the partial unique index. *)
SlotUnguarded == TRUE

(* The partial unique index: no other row of the project is active.        *)
SlotFree == Active = {}

(* The row is created, or the index refuses it (as the bound does, where   *)
(* all rows are used); execute is not awaited.                             *)
CreateScan(r) ==
    /\ r \in starting
    /\ starting' = starting \ {r}
    /\ \/ /\ ~SlotFree \/ Fresh = {}
          /\ UNCHANGED <<scan, exec>>
       \/ /\ SlotFree
          /\ \E n \in Fresh :
               /\ \A k \in Fresh : n <= k
               /\ Set(n, "PENDING")
               /\ GoOn(n, "begin")
    /\ UNCHANGED <<stale, commits, detection, told, orphaned>>

(***************************************************************************)
(* SecretScanExecutor.execute; its updates have no guard on the status.    *)
(***************************************************************************)
AtStep(n, step) == exec[n].step = step

BeginScan(n) ==
    /\ AtStep(n, "begin")
    /\ IF Active \ {n} = {}
       THEN Set(n, "RUNNING") /\ GoOn(n, "collect")
       ELSE GoOn(n, "fail") /\ UNCHANGED scan
    /\ UNCHANGED <<stale, starting, commits, detection, told, orphaned>>

(* Mutation: the scan is completed before its findings are inserted. *)
CompletedFirst ==
    [collect |-> "complete", complete |-> "insert", insert |-> "notify"]

Following == [collect |-> "insert", insert |-> "complete", complete |-> "notify"]

CollectFindings(n) ==
    /\ AtStep(n, "collect")
    /\ exec' = [exec EXCEPT ![n].step = Following["collect"], ![n].found = commits]
    /\ UNCHANGED <<scan, stale, starting, commits, detection, told, orphaned>>

(* Mutation: a finding that is there is written again. *)
InsertedAnew(found) ==
    [f \in Finding |-> IF f \in found THEN "OPEN" ELSE detection[f]]

(* skipDuplicates: a finding that is there keeps its row and its status.   *)
Inserted(found) ==
    [f \in Finding |-> IF f \in found \ Stored THEN "OPEN" ELSE detection[f]]

InsertFindings(n) ==
    /\ AtStep(n, "insert")
    /\ detection' = Inserted(exec[n].found)
    /\ exec' = [exec EXCEPT ![n].step = Following["insert"],
                            ![n].new = exec[n].found \ Stored]
    /\ UNCHANGED <<scan, stale, starting, commits, told, orphaned>>

CompleteScan(n) ==
    /\ AtStep(n, "complete")
    /\ Set(n, "COMPLETED")
    /\ GoOn(n, Following["complete"])
    /\ UNCHANGED <<stale, starting, commits, detection, told, orphaned>>

(* Mutation: the owner hears of everything the scan has found. *)
ToldOfAll(n) == exec[n].found

(* The owner hears of what was inserted, if there is an owner. *)
ToldOf(n) == exec[n].new

NotifyOwner(n) ==
    /\ AtStep(n, "notify")
    /\ told' = [f \in Finding |-> told[f] + (IF f \in ToldOf(n) THEN 1 ELSE 0)]
    /\ GoOn(n, "done")
    /\ UNCHANGED <<scan, stale, starting, commits, detection, orphaned>>

(* Mutation: an error ends the executor and leaves the row as it is. *)
ErrorUnrecorded == "done"

ErrorLeadsTo == "fail"

(* Any of the steps above throws, the notification included. *)
ScanError(n) ==
    /\ exec[n].step \in {"begin", "collect", "insert", "complete", "notify"}
    /\ GoOn(n, ErrorLeadsTo)
    /\ UNCHANGED <<scan, stale, starting, commits, detection, told, orphaned>>

(* This update may fail too, and then the row stays as it is. *)
RecordFailure(n) ==
    /\ AtStep(n, "fail")
    /\ GoOn(n, "done")
    /\ \/ Set(n, "FAILED") /\ UNCHANGED orphaned
       \/ orphaned' = orphaned \cup {n} /\ UNCHANGED scan
    /\ UNCHANGED <<stale, starting, commits, detection, told>>

ExecuteStep(n) ==
    \/ BeginScan(n) \/ CollectFindings(n) \/ InsertFindings(n)
    \/ CompleteScan(n) \/ NotifyOwner(n) \/ RecordFailure(n)

(***************************************************************************)
(* The rest of the world.                                                  *)
(***************************************************************************)
Restart ==
    LET running == {n \in Scan : exec[n].step \notin {"none", "done"}} IN
    /\ running \cup starting # {}
    /\ exec' = [n \in Scan |-> IF n \in running
                               THEN [exec[n] EXCEPT !.step = "done"] ELSE exec[n]]
    /\ orphaned' = orphaned \cup running
    /\ starting' = {}
    /\ UNCHANGED <<scan, stale, commits, detection, told>>

GrowStale(n) ==
    /\ scan[n] # "none"
    /\ stale' = stale \cup {n}
    /\ UNCHANGED <<scan, exec, starting, commits, detection, told, orphaned>>

CommitSecret(f) ==
    /\ commits' = commits \cup {f}
    /\ UNCHANGED <<scan, stale, exec, starting, detection, told, orphaned>>

(* One detection, whatever its status, or some of those that are open.     *)
Triage ==
    /\ \/ \E f \in Stored, s \in {"RESOLVED", "FALSE_POSITIVE"} :
            detection' = [detection EXCEPT ![f] = s]
       \/ \E D \in SUBSET Stored, s \in {"RESOLVED", "FALSE_POSITIVE"} :
            detection' = [f \in Finding |->
                IF f \in D /\ detection[f] = "OPEN" THEN s ELSE detection[f]]
    /\ UNCHANGED <<scan, stale, exec, starting, commits, told, orphaned>>

ScanNext ==
    \/ Restart
    \/ Triage
    \/ \E f \in Finding : CommitSecret(f)
    \/ \E r \in Starter : SweepStale(r) \/ CreateScan(r)
    \/ \E n \in Scan : ExecuteStep(n) \/ ScanError(n) \/ GrowStale(n)

ScanSpec == ScanInit /\ [][ScanNext]_scanVars

(***************************************************************************)
(* Properties.                                                             *)
(***************************************************************************)
ScanTypeOK ==
    /\ scan \in [Scan -> Status]
    /\ stale \cup orphaned \subseteq {n \in Scan : scan[n] # "none"}
    /\ exec \in [Scan -> [step : ScanStep, found : SUBSET Finding, new : SUBSET Finding]]
    /\ starting \subseteq Starter
    /\ commits \subseteq Finding
    /\ detection \in [Finding -> {"none", "OPEN", "RESOLVED", "FALSE_POSITIVE"}]
    /\ told \in [Finding -> Nat]
    /\ Cardinality(Active) <= 1

(* The slot of the active scan is held by a scan whose executor will still *)
(* settle it, or by one that a restart or a failed write has orphaned.     *)
ActiveIsServed ==
    \A n \in Active : exec[n].step # "done" \/ n \in orphaned

(* A scan that counts as completed has stored everything it found, also    *)
(* when it had been declared abandoned and another scan ran beside it.     *)
CompletedIsStored ==
    \A n \in Scan : scan[n] = "COMPLETED" => exec[n].found \subseteq Stored

(* The owner is notified of a finding once at most, and only of one that   *)
(* is stored, though scans overlap and find the same secrets.              *)
ToldOnce == \A f \in Finding : told[f] <= 1 /\ (told[f] = 1 => f \in Stored)

(* A triage decision survives every later scan. *)
TriageSurvives ==
    [][\A f \in Finding : detection[f] \in {"RESOLVED", "FALSE_POSITIVE"}
          => detection'[f] \in {"RESOLVED", "FALSE_POSITIVE"}]_scanVars

(* The slot of the active scan is freed in the end, through restarts, lost *)
(* executors and abandoned scans: a project can always be scanned again.   *)
SlotFreed == \A n \in Scan : n \in Active ~> n \notin Active
=============================================================================
