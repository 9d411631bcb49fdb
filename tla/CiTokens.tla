------------------------------ MODULE CiTokens ------------------------------
(***************************************************************************)
(* CI tokens: a job presents a token and is sent the files whose paths the *)
(* token allows (ci-token.service.ts).  The service lists the files, picks *)
(* by path and then fetches by identifier, while members move files.       *)
(***************************************************************************)
EXTENDS Naturals

CONSTANTS
    CiToken,    \* tokens that may be created
    CiFile,     \* identifiers of files of the project
    CiPath,     \* paths of files
    CiJob,      \* requests of jobs that may be served at once
    Outside     \* the path of a file that does not exist

ASSUME OutsideAssumption == Outside \notin CiPath

VARIABLES
    token,      \* ci_tokens: none, gone, or the set of paths it allows
    file,       \* repo_files: the path of each file, or Outside
    job,        \* how far each job's request is
    ever,       \* history: the paths each file had while a job was served
    always      \* history: the paths each file has had all the while

ciVars == <<token, file, job, ever, always>>

Waiting == [step |-> "idle"]

CiInit ==
    /\ token = [t \in CiToken |-> [state |-> "none", paths |-> {}]]
    /\ file \in [CiFile -> CiPath \cup {Outside}]
    /\ \A f, g \in CiFile : file[f] = file[g] => f = g \/ file[f] = Outside
    /\ job = [j \in CiJob |-> Waiting]
    /\ ever = [j \in CiJob |-> [f \in CiFile |-> {}]]
    /\ always = [j \in CiJob |-> [f \in CiFile |-> {}]]

(* No paths stand for every path. *)
CreateToken(t) ==
    /\ token[t].state = "none"
    /\ \E paths \in SUBSET CiPath :
         token' = [token EXCEPT ![t] = [state |-> "live", paths |-> paths]]
    /\ UNCHANGED <<file, job, ever, always>>

(* Found, then deleted by its key; who comes second is told of an error. *)
RevokeToken(t) ==
    /\ token[t].state = "live"
    /\ token' = [token EXCEPT ![t].state = "gone"]
    /\ UNCHANGED <<file, job, ever, always>>

(* The unique index on the paths of a project. *)
PathFree(p) == p = Outside \/ \A g \in CiFile : file[g] # p

(* A member creates, moves or deletes a file. *)
ChangeFile(f, p) ==
    /\ p # file[f]
    /\ PathFree(p)
    /\ file' = [file EXCEPT ![f] = p]
    /\ ever' = [j \in CiJob |-> [ever[j] EXCEPT ![f] = @ \cup {p}]]
    /\ always' = [j \in CiJob |-> [always[j] EXCEPT ![f] = @ \cap {p}]]
    /\ UNCHANGED <<token, job>>

(* validateToken finds the row; a bad address or an old token is refused.  *)
FindToken(j, t) ==
    /\ job[j] = Waiting
    /\ token[t].state = "live"
    /\ job' = [job EXCEPT ![j] = [step |-> "found", token |-> t,
                                  paths |-> token[t].paths]]
    /\ ever' = [ever EXCEPT ![j] = [f \in CiFile |-> {file[f]}]]
    /\ always' = [always EXCEPT ![j] = [f \in CiFile |-> {file[f]}]]
    /\ UNCHANGED <<token, file>>

Refused(j) == job' = [job EXCEPT ![j] = Waiting]

(* lastUsedAt is written to a row that must still be there. *)
TouchToken(j) ==
    /\ job[j].step = "found"
    /\ IF token[job[j].token].state = "live"
       THEN job' = [job EXCEPT ![j].step = "valid"]
       ELSE Refused(j)
    /\ UNCHANGED <<token, file, ever, always>>

Files == {f \in CiFile : file[f] # Outside}

(* Only a token without paths asks for every file. *)
ListAllowed(j) ==
    /\ job[j].step = "valid"
    /\ job' = [job EXCEPT ![j] =
         [step |-> "listed", token |-> job[j].token, paths |-> job[j].paths,
          all |-> job[j].paths = {},
          ids |-> {f \in Files : file[f] \in job[j].paths}]]
    /\ UNCHANGED <<token, file, ever, always>>

(* Mutation: no identifier is taken for no restriction. *)
FoundUnlessNone(r) == IF r.all \/ r.ids = {} THEN Files ELSE r.ids \cap Files

(* repoFiles.findMany, which is not asked when no path matched. *)
Found(r) == IF r.all THEN Files ELSE r.ids \cap Files

FetchFiles(j) ==
    /\ job[j].step = "listed"
    /\ job' = [job EXCEPT ![j] = [step |-> "answer", token |-> @.token,
                                  paths |-> @.paths, files |-> Found(@)]]
    /\ UNCHANGED <<token, file, ever, always>>

(* The answer is sent, or the request fails before. *)
EndJob(j) ==
    /\ job[j] # Waiting
    /\ Refused(j)
    /\ UNCHANGED <<token, file, ever, always>>

CiNext ==
    \/ \E t \in CiToken : CreateToken(t) \/ RevokeToken(t)
    \/ \E f \in CiFile, p \in CiPath \cup {Outside} : ChangeFile(f, p)
    \/ \E j \in CiJob :
         \/ \E t \in CiToken : FindToken(j, t)
         \/ TouchToken(j) \/ ListAllowed(j) \/ FetchFiles(j) \/ EndJob(j)

CiSpec == CiInit /\ [][CiNext]_ciVars

(***************************************************************************)
(* Properties.                                                             *)
(***************************************************************************)
CiTypeOK ==
    /\ token \in [CiToken -> [state : {"none", "live", "gone"}, paths : SUBSET CiPath]]
    /\ file \in [CiFile -> CiPath \cup {Outside}]
    /\ \A f, g \in Files : file[f] = file[g] => f = g
    /\ \A j \in CiJob : job[j].step \in {"idle", "found", "valid", "listed", "answer"}

Matches(paths, p) == p # Outside /\ (paths = {} \/ p \in paths)

(* A job is sent no file that its token did not allow at some moment of    *)
(* the request, even where nothing matches or files move between the       *)
(* listing and the fetch, and is sent every file that kept an allowed path *)
(* throughout.                                                             *)
SentIsAllowed ==
    \A j \in CiJob : job[j].step = "answer" =>
        \A f \in CiFile :
            /\ f \in job[j].files => \E p \in ever[j][f] : Matches(job[j].paths, p)
            /\ (\E p \in always[j][f] : Matches(job[j].paths, p)) => f \in job[j].files
=============================================================================
