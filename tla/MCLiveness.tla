----------------------------- MODULE MCLiveness -----------------------------
(***************************************************************************)
(* What must eventually happen: the change requests of RepoFilesLive and   *)
(* the secret scans.  They share no state, so a behaviour runs one of the  *)
(* two, chosen at the start, and the other stays in its initial state.     *)
(***************************************************************************)
EXTENDS MCRepoFiles, SecretScans

CONSTANT daily      \* the daily job, one of the starters of scans

VARIABLE service    \* what runs

servicesVars == <<service, vars, scanVars>>

ServicesInit == service \in {"files", "scans"} /\ Init /\ ScanInit

Scans(A) == service = "scans" /\ A /\ UNCHANGED <<service, vars>>

ServicesNext ==
    \/ service = "files" /\ Next /\ UNCHANGED <<service, scanVars>>
    \/ Scans(ScanNext)

(* What goes on by itself: the steps of an executor that is not stopped,   *)
(* the daily job, which starts the scan of a project without a completed   *)
(* one, and time.  (Fairness of RepoFilesLive asks nothing of an idle       *)
(* backend, so it can stand as it is.)                                     *)
ScanFairness ==
    /\ \A n \in Scan : /\ WF_servicesVars(Scans(ExecuteStep(n)))
                       /\ WF_servicesVars(Scans(GrowStale(n)))
    /\ WF_servicesVars(Scans(SweepStale(daily)))
    /\ WF_servicesVars(Scans(CreateScan(daily)))

ServicesSpec ==
    ServicesInit /\ [][ServicesNext]_servicesVars /\ Fairness /\ ScanFairness
=============================================================================
