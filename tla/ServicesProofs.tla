---------------------------- MODULE ServicesProofs ----------------------------
(***************************************************************************)
(* Proofs about services that share no state: a share link is opened once  *)
(* and one that was revoked unread stays so; what a job is sent was        *)
(* allowed to its token, though files move meanwhile; and the rate limiter *)
(* lets through at most twice its limit in any window's time and refuses   *)
(* only who has spent it; the row of a subscription follows Stripe; and    *)
(* the files of a person's projects pass the limit of the plan by no more  *)
(* than was under way.                                                     *)
(* Run together, with the sign-in sessions, each still does what it does   *)
(* alone.  For any sets and any limits.                                    *)
(***************************************************************************)
EXTENDS Services, AuthSessionsProofs, FiniteSetTheorems, TLAPS

-----------------------------------------------------------------------------
(* Share links. *)

(* A link that nobody has created is held by no reader and was not sent,   *)
(* and one that was revoked unread is gone.                                *)
LinkHistory ==
    /\ \A l \in Link : link[l] = "none" =>
         answered[l] = 0 /\ \A r \in Reader : reading[r].link # l
    /\ \A l \in unread : link[l] = "gone"

LinkInv == LinkTypeOK /\ LinkHistory /\ PayloadHandedOnce /\ RevokedStaysUnread

LEMMA LinkInitHolds == LinkInit => LinkInv
  BY NoLinkAssumption
     DEF LinkInit, LinkInv, LinkTypeOK, LinkHistory, PayloadHandedOnce,
         RevokedStaysUnread, Winners, Resting

(* Nothing that is read of a link that is open has been sent or is on its  *)
(* way: the payload is in the row.                                         *)
LEMMA OpenUnsent ==
  ASSUME LinkInv, NEW l \in Link, link[l] = "PENDING"
  PROVE  answered[l] = 0 /\ Winners(l) = {} /\ l \notin unread
  BY DEF LinkInv, LinkTypeOK, LinkHistory, PayloadHandedOnce

LEMMA LinkCreateKeeps ==
  ASSUME LinkInv, NEW l \in Link, CreateLink(l)
  PROVE  LinkInv'
<1> USE NoLinkAssumption DEF CreateLink, LinkInv, Winners, Resting
<1>1. LinkTypeOK'  BY DEF LinkTypeOK
<1>2. LinkHistory'  BY DEF LinkHistory, LinkTypeOK
<1>3. PayloadHandedOnce'  BY DEF PayloadHandedOnce, LinkTypeOK, LinkHistory
<1>4. RevokedStaysUnread'  BY DEF RevokedStaysUnread
<1> QED  BY <1>1, <1>2, <1>3, <1>4

LEMMA LinkLapseKeeps ==
  ASSUME LinkInv, NEW l \in Link, Lapse(l)
  PROVE  LinkInv'
  BY DEF Lapse, LinkInv, LinkTypeOK, LinkHistory, PayloadHandedOnce,
         RevokedStaysUnread, Winners

LEMMA LinkFindKeeps ==
  ASSUME LinkInv, NEW l \in Link, NEW r \in Reader, FindConsumable(r, l)
  PROVE  LinkInv'
<1> USE NoLinkAssumption DEF FindConsumable, Open, LinkInv
<1>1. LinkTypeOK'  BY DEF LinkTypeOK
<1>2. \A k \in Link : Winners(k)' = Winners(k)
  BY DEF Winners, LinkTypeOK, Resting
<1>3. LinkHistory'  BY DEF LinkHistory, LinkTypeOK
<1>4. PayloadHandedOnce'  BY <1>2 DEF PayloadHandedOnce
<1>5. RevokedStaysUnread'  BY <1>2 DEF RevokedStaysUnread, LinkTypeOK
<1> QED  BY <1>1, <1>3, <1>4, <1>5

(* The step that makes a reader the winner: the row is still PENDING, so   *)
(* there was no winner before and nothing had been sent.                   *)
LEMMA LinkConsumeKeeps ==
  ASSUME LinkInv, NEW r \in Reader, ConsumeLink(r)
  PROVE  LinkInv'
<1> DEFINE l == reading[r].link
<1>l. l \in Link /\ reading[r] = [link |-> l, step |-> "found"]
  BY NoLinkAssumption DEF ConsumeLink, LinkInv, LinkTypeOK, Resting
<1>1. CASE Open(l)
  <2> USE <1>1, <1>l DEF ConsumeLink, Consume, Consumed, Open, LinkInv
  <2>1. answered[l] = 0 /\ Winners(l) = {} /\ l \notin unread
    BY OpenUnsent
  <2>2. LinkTypeOK'  BY DEF LinkTypeOK
  <2>3. Winners(l)' = {r}
    BY <2>1 DEF Winners, LinkTypeOK
  <2>4. \A k \in Link \ {l} : Winners(k)' = Winners(k)
    BY DEF Winners, LinkTypeOK
  <2>5. LinkHistory'  BY <2>1 DEF LinkHistory, LinkTypeOK
  <2>6. PayloadHandedOnce'  BY <2>1, <2>3, <2>4 DEF PayloadHandedOnce, LinkTypeOK
  <2>7. RevokedStaysUnread'  BY <2>1, <2>4 DEF RevokedStaysUnread, LinkTypeOK
  <2> QED  BY <2>2, <2>5, <2>6, <2>7
<1>2. CASE ~Open(l)
  <2> USE <1>2, <1>l, NoLinkAssumption DEF ConsumeLink, Consume, Gone, LinkInv, Resting
  <2>1. LinkTypeOK'  BY DEF LinkTypeOK
  <2>2. \A k \in Link : Winners(k)' = Winners(k)
    BY DEF Winners, LinkTypeOK
  <2>3. LinkHistory'  BY DEF LinkHistory, LinkTypeOK
  <2>4. PayloadHandedOnce'  BY <2>2 DEF PayloadHandedOnce
  <2>5. RevokedStaysUnread'  BY <2>2 DEF RevokedStaysUnread, LinkTypeOK
  <2> QED  BY <2>1, <2>3, <2>4, <2>5
<1> QED  BY <1>1, <1>2

LEMMA LinkAnswerKeeps ==
  ASSUME LinkInv, NEW r \in Reader, AnswerReader(r)
  PROVE  LinkInv'
<1> USE NoLinkAssumption DEF AnswerReader, Gone, LinkInv, Resting
<1>l. PICK l \in Link : reading[r] = [link |-> l, step |-> "consumed"]
  BY DEF LinkTypeOK
<1>w. r \in Winners(l)
  BY <1>l DEF Winners
<1>1. Winners(l) = {r} /\ answered[l] = 0 /\ l \notin payload /\ l \notin unread
  BY <1>w DEF PayloadHandedOnce, RevokedStaysUnread
<1>2. LinkTypeOK'  BY <1>l DEF LinkTypeOK
<1>3. Winners(l)' = {}
  BY <1>1, <1>l DEF Winners, LinkTypeOK
<1>4. \A k \in Link \ {l} : Winners(k)' = Winners(k)
  BY <1>l DEF Winners, LinkTypeOK
<1>5. link[l] # "none"
  BY <1>l DEF LinkHistory
<1>6. LinkHistory'  BY <1>5, <1>l DEF LinkHistory, LinkTypeOK
<1>7. PayloadHandedOnce'
  <2> SUFFICES ASSUME NEW k \in Link
               PROVE  /\ answered'[k] <= 1
                      /\ \A a, b \in Winners(k)' : a = b
                      /\ Winners(k)' # {} => answered'[k] = 0
                      /\ answered'[k] = 1 \/ Winners(k)' # {} => k \notin payload'
    BY DEF PayloadHandedOnce
  <2>1. CASE k = l
    <3>1. answered'[k] = 1  BY <2>1, <1>1, <1>l DEF LinkTypeOK
    <3>2. payload' = payload  OBVIOUS
    <3> QED  BY <3>1, <3>2, <2>1, <1>1, <1>3
  <2>2. CASE k # l
    <3>1. answered'[k] = answered[k]  BY <2>2, <1>l DEF LinkTypeOK
    <3>2. Winners(k)' = Winners(k)  BY <2>2, <1>4
    <3>3. payload' = payload  OBVIOUS
    <3> QED  BY <3>1, <3>2, <3>3 DEF PayloadHandedOnce
  <2> QED  BY <2>1, <2>2
<1>8. RevokedStaysUnread'
  BY <1>1, <1>4, <1>l DEF RevokedStaysUnread, LinkTypeOK
<1> QED  BY <1>2, <1>6, <1>7, <1>8

LEMMA LinkDropKeeps ==
  ASSUME LinkInv, NEW r \in Reader, DropReader(r)
  PROVE  LinkInv'
<1> USE NoLinkAssumption DEF DropReader, Gone, LinkInv, Resting
<1>1. LinkTypeOK'  BY DEF LinkTypeOK
<1>2. \A k \in Link : Winners(k)' \subseteq Winners(k)
  BY DEF Winners, LinkTypeOK
<1>3. LinkHistory'  BY DEF LinkHistory, LinkTypeOK
<1>4. PayloadHandedOnce'  BY <1>2 DEF PayloadHandedOnce
<1>5. RevokedStaysUnread'  BY <1>2 DEF RevokedStaysUnread, LinkTypeOK
<1> QED  BY <1>1, <1>3, <1>4, <1>5

LEMMA FindRevocableKeeps ==
  ASSUME LinkInv, NEW l \in Link, NEW v \in Revoker, FindRevocable(v, l)
  PROVE  LinkInv'
  BY DEF FindRevocable, LinkInv, LinkTypeOK, LinkHistory, PayloadHandedOnce,
         RevokedStaysUnread, Winners

(* A link whose payload was there is deleted before anyone was sent it.    *)
LEMMA LinkDeleteKeeps ==
  ASSUME LinkInv, NEW v \in Revoker, DeleteLink(v)
  PROVE  LinkInv'
<1> DEFINE l == revoking[v]
<1> USE NoLinkAssumption DEF DeleteLink, LinkInv
<1>l. l \in Link  BY DEF LinkTypeOK
<1>1. \A k \in Link : Winners(k)' = Winners(k)  BY DEF Winners
<1>2. LinkTypeOK'  BY <1>l DEF LinkTypeOK
<1>3. LinkHistory'  BY <1>l DEF LinkHistory, LinkTypeOK
<1>4. PayloadHandedOnce'  BY <1>1 DEF PayloadHandedOnce
<1>5. RevokedStaysUnread'
  BY <1>1, <1>l DEF RevokedStaysUnread, PayloadHandedOnce, LinkTypeOK
<1> QED  BY <1>2, <1>3, <1>4, <1>5

LEMMA LinkStepKeeps == LinkInv /\ [LinkNext]_linkVars => LinkInv'
<1> SUFFICES ASSUME LinkInv, [LinkNext]_linkVars  PROVE LinkInv'
  OBVIOUS
<1>1. CASE \E l \in Link : CreateLink(l)  BY <1>1, LinkCreateKeeps
<1>2. CASE \E l \in Link : Lapse(l)  BY <1>2, LinkLapseKeeps
<1>3. CASE \E l \in Link, r \in Reader : FindConsumable(r, l)  BY <1>3, LinkFindKeeps
<1>4. CASE \E l \in Link, v \in Revoker : FindRevocable(v, l)
  BY <1>4, FindRevocableKeeps
<1>5. CASE \E r \in Reader : ConsumeLink(r)  BY <1>5, LinkConsumeKeeps
<1>6. CASE \E r \in Reader : AnswerReader(r)  BY <1>6, LinkAnswerKeeps
<1>7. CASE \E r \in Reader : DropReader(r)  BY <1>7, LinkDropKeeps
<1>8. CASE \E v \in Revoker : DeleteLink(v)  BY <1>8, LinkDeleteKeeps
<1>9. CASE UNCHANGED linkVars
  BY <1>9 DEF linkVars, LinkInv, LinkTypeOK, LinkHistory, PayloadHandedOnce,
              RevokedStaysUnread, Winners
<1> QED
  BY <1>1, <1>2, <1>3, <1>4, <1>5, <1>6, <1>7, <1>8, <1>9 DEF LinkNext

LEMMA LinkInvariant == LinkSpec => []LinkInv
<1>1. LinkInit => LinkInv  BY LinkInitHolds
<1>2. LinkInv /\ [LinkNext]_linkVars => LinkInv'  BY LinkStepKeeps
<1> QED  BY <1>1, <1>2, PTL DEF LinkSpec

(* Every variable of share-link.service.ts keeps its type, and the payload *)
(* is in a row exactly while the row is PENDING.                           *)
THEOREM LinkTypeCorrect == LinkSpec => []LinkTypeOK
<1>1. LinkInv => LinkTypeOK  BY DEF LinkInv
<1> QED  BY <1>1, LinkInvariant, PTL

(* One-time: access hands a payload to one reader at most, however many    *)
(* requests read the row before consume updated it.                        *)
THEOREM OneReader == LinkSpec => []PayloadHandedOnce
<1>1. LinkInv => PayloadHandedOnce  BY DEF LinkInv
<1> QED  BY <1>1, LinkInvariant, PTL

(* A link that revoke deleted before anyone had opened it is never opened. *)
THEOREM RevokedUnread == LinkSpec => []RevokedStaysUnread
<1>1. LinkInv => RevokedStaysUnread  BY DEF LinkInv
<1> QED  BY <1>1, LinkInvariant, PTL

-----------------------------------------------------------------------------
(* CI tokens. *)

Base == [step : {"found", "valid"}, token : CiToken, paths : SUBSET CiPath]
Listed == [step : {"listed"}, token : CiToken, paths : SUBSET CiPath, all : BOOLEAN,
           ids : SUBSET CiFile]
Answer == [step : {"answer"}, token : CiToken, paths : SUBSET CiPath, files : SUBSET CiFile]
Job == {Waiting} \cup Base \cup Listed \cup Answer

JobsShape ==
    /\ token \in [CiToken -> [state : {"none", "live", "gone"}, paths : SUBSET CiPath]]
    /\ job \in [CiJob -> Job]
    /\ ever \in [CiJob -> [CiFile -> SUBSET (CiPath \cup {Outside})]]
    /\ always \in [CiJob -> [CiFile -> SUBSET (CiPath \cup {Outside})]]
    /\ file \in [CiFile -> CiPath \cup {Outside}]

(* The path a file has is one of those it had, and the only one that it    *)
(* can have kept. *)
Witnessed ==
    \A j \in CiJob : job[j] # Waiting =>
        \A f \in CiFile : file[f] \in ever[j][f] /\ always[j][f] \subseteq {file[f]}

(* The identifiers that were listed are right by the paths of the request. *)
Picked(j) ==
    /\ job[j].all <=> job[j].paths = {}
    /\ ~job[j].all => \A f \in CiFile :
         /\ f \in job[j].ids => \E p \in ever[j][f] : Matches(job[j].paths, p)
         /\ (\E p \in always[j][f] : Matches(job[j].paths, p)) => f \in job[j].ids

CiInv ==
    /\ JobsShape
    /\ Witnessed
    /\ \A j \in CiJob : job[j].step = "listed" => Picked(j)
    /\ SentIsAllowed

LEMMA JobInitHolds == CiInit => CiInv
  BY DEF CiInit, CiInv, JobsShape, Job, Waiting, Witnessed, SentIsAllowed

LEMMA JobKinds ==
  ASSUME JobsShape, NEW j \in CiJob
  PROVE  /\ job[j].step = "idle" <=> job[j] = Waiting
         /\ job[j].step \in {"found", "valid"} => job[j] \in Base
         /\ job[j].step = "listed" => job[j] \in Listed
         /\ job[j].step = "answer" => job[j] \in Answer
<1>1. job[j] \in Job  BY DEF JobsShape
<1> QED  BY <1>1 DEF Job, Base, Listed, Answer, Waiting

(* A request that neither lists nor answers. *)
LEMMA PlainJobKeeps ==
  ASSUME CiInv, NEW j \in CiJob, NEW r \in {Waiting} \cup Base,
         job' = [job EXCEPT ![j] = r], job[j] # Waiting,
         UNCHANGED <<token, file, ever, always>>
  PROVE  CiInv'
<1>1. \A k \in CiJob : job'[k] = IF k = j THEN r ELSE job[k]  BY DEF CiInv, JobsShape
<1>2. r.step \notin {"listed", "answer"}  BY DEF Base, Waiting
<1>3. JobsShape'  BY DEF CiInv, JobsShape, Job
<1>4. Witnessed'  BY <1>1 DEF CiInv, Witnessed
<1>5. \A k \in CiJob : job'[k].step = "listed" => Picked(k)'
  BY <1>1, <1>2 DEF CiInv, Picked
<1>6. SentIsAllowed'  BY <1>1, <1>2 DEF CiInv, SentIsAllowed
<1> QED  BY <1>3, <1>4, <1>5, <1>6 DEF CiInv

LEMMA TokensKeep ==
  ASSUME CiInv, NEW t \in CiToken, CreateToken(t) \/ RevokeToken(t)
  PROVE  CiInv'
<1>1. UNCHANGED <<file, job, ever, always>>  BY DEF CreateToken, RevokeToken
<1>2. JobsShape'
  <2>1. PICK r \in [state : {"none", "live", "gone"}, paths : SUBSET CiPath] :
          token' = [token EXCEPT ![t] = r]
    <3>1. CASE CreateToken(t)  BY <3>1 DEF CreateToken
    <3>2. CASE RevokeToken(t)
      <4>1. token' = [token EXCEPT ![t] = [token[t] EXCEPT !.state = "gone"]]
        BY <3>2 DEF RevokeToken
      <4>2. [token[t] EXCEPT !.state = "gone"]
              \in [state : {"none", "live", "gone"}, paths : SUBSET CiPath]
        BY DEF CiInv, JobsShape
      <4> QED  BY <4>1, <4>2
    <3> QED  BY <3>1, <3>2
  <2> QED  BY <2>1, <1>1 DEF CiInv, JobsShape
<1> QED  BY <1>1, <1>2 DEF CiInv, Witnessed, Picked, SentIsAllowed

(* A move adds to the paths a file had and takes from those it kept. *)
LEMMA JobChangeKeeps ==
  ASSUME CiInv, NEW f \in CiFile, NEW p \in CiPath \cup {Outside}, ChangeFile(f, p)
  PROVE  CiInv'
<1>1. \A j \in CiJob, g \in CiFile :
        /\ ever'[j][g] = IF g = f THEN ever[j][g] \cup {p} ELSE ever[j][g]
        /\ always'[j][g] = IF g = f THEN always[j][g] \cap {p} ELSE always[j][g]
        /\ file'[g] = IF g = f THEN p ELSE file[g]
  BY DEF ChangeFile, CiInv, JobsShape
<1>2. \A j \in CiJob, g \in CiFile :
        ever[j][g] \subseteq ever'[j][g] /\ always'[j][g] \subseteq always[j][g]
  BY <1>1
<1>3. job' = job /\ token' = token  BY DEF ChangeFile
<1>4. JobsShape'
  <2>1. file' \in [CiFile -> CiPath \cup {Outside}]  BY DEF ChangeFile, CiInv, JobsShape
  <2>2. ever' \in [CiJob -> [CiFile -> SUBSET (CiPath \cup {Outside})]]
    BY DEF ChangeFile, CiInv, JobsShape
  <2>3. always' \in [CiJob -> [CiFile -> SUBSET (CiPath \cup {Outside})]]
    BY DEF ChangeFile, CiInv, JobsShape
  <2> QED  BY <2>1, <2>2, <2>3, <1>3 DEF CiInv, JobsShape
<1>5. Witnessed'
  <2> SUFFICES ASSUME NEW j \in CiJob, job[j] # Waiting, NEW g \in CiFile
               PROVE  file'[g] \in ever'[j][g] /\ always'[j][g] \subseteq {file'[g]}
    BY <1>3 DEF Witnessed
  <2>1. file[g] \in ever[j][g] /\ always[j][g] \subseteq {file[g]}
    BY DEF CiInv, Witnessed
  <2> QED  BY <1>1, <2>1
<1>6. \A j \in CiJob : job'[j].step = "listed" => Picked(j)'
  BY <1>2, <1>3 DEF CiInv, Picked
<1>7. SentIsAllowed'  BY <1>2, <1>3 DEF CiInv, SentIsAllowed
<1> QED  BY <1>4, <1>5, <1>6, <1>7 DEF CiInv

LEMMA JobFindKeeps ==
  ASSUME CiInv, NEW j \in CiJob, NEW t \in CiToken, FindToken(j, t)
  PROVE  CiInv'
<1> DEFINE r == [step |-> "found", token |-> t, paths |-> token[t].paths]
<1>1. job' = [job EXCEPT ![j] = r] /\ UNCHANGED <<token, file>>  BY DEF FindToken
<1>2. r \in Base /\ r.step = "found"  BY DEF CiInv, JobsShape, Base
<1> HIDE DEF r
<1>3. \A k \in CiJob : job'[k] = IF k = j THEN r ELSE job[k]  BY <1>1 DEF CiInv, JobsShape
<1>4. \A k \in CiJob, f \in CiFile :
        /\ ever'[k][f] = IF k = j THEN {file[f]} ELSE ever[k][f]
        /\ always'[k][f] = IF k = j THEN {file[f]} ELSE always[k][f]
  BY DEF FindToken, CiInv, JobsShape
<1>5. JobsShape'
  <2>1. [f \in CiFile |-> {file[f]}] \in [CiFile -> SUBSET (CiPath \cup {Outside})]
    BY DEF CiInv, JobsShape
  <2>2. /\ ever' \in [CiJob -> [CiFile -> SUBSET (CiPath \cup {Outside})]]
        /\ always' \in [CiJob -> [CiFile -> SUBSET (CiPath \cup {Outside})]]
    BY <2>1 DEF FindToken, CiInv, JobsShape
  <2>3. job' \in [CiJob -> Job]  BY <1>1, <1>2 DEF CiInv, JobsShape, Job
  <2> QED  BY <2>2, <2>3, <1>1 DEF CiInv, JobsShape
<1>6. Witnessed'
  <2> SUFFICES ASSUME NEW k \in CiJob, job'[k] # Waiting, NEW f \in CiFile
               PROVE  file[f] \in ever'[k][f] /\ always'[k][f] \subseteq {file[f]}
    BY <1>1 DEF Witnessed
  <2>1. CASE k = j  BY <2>1, <1>4
  <2>2. CASE k # j
    <3>1. ever'[k][f] = ever[k][f] /\ always'[k][f] = always[k][f]  BY <2>2, <1>4
    <3>2. job[k] # Waiting  BY <2>2, <1>3
    <3> QED  BY <3>1, <3>2 DEF CiInv, Witnessed
  <2> QED  BY <2>1, <2>2
<1>7. \A k \in CiJob : job'[k].step = "listed" => Picked(k)'
  <2> SUFFICES ASSUME NEW k \in CiJob, job'[k].step = "listed"  PROVE Picked(k)'
    OBVIOUS
  <2>1. k # j  BY <1>2, <1>3
  <2>2. job'[k] = job[k] /\ ever'[k] = ever[k] /\ always'[k] = always[k]
    BY <2>1, <1>3 DEF FindToken, CiInv, JobsShape
  <2>3. Picked(k)  BY <2>2 DEF CiInv
  <2> QED  BY <2>2, <2>3 DEF Picked
<1>8. SentIsAllowed'  BY <1>2, <1>3, <1>4 DEF CiInv, SentIsAllowed
<1> QED  BY <1>5, <1>6, <1>7, <1>8 DEF CiInv

LEMMA TouchOrEndKeeps ==
  ASSUME CiInv, NEW j \in CiJob, TouchToken(j) \/ EndJob(j)
  PROVE  CiInv'
<1>1. UNCHANGED <<token, file, ever, always>> /\ job[j] # Waiting
  BY DEF TouchToken, EndJob, Waiting
<1>2. CASE Refused(j)  BY <1>1, <1>2, PlainJobKeeps DEF Refused
<1>3. CASE TouchToken(j) /\ job' = [job EXCEPT ![j].step = "valid"]
  <2>1. job[j] \in Base  BY <1>3, JobKinds DEF TouchToken, CiInv
  <2>2. [job[j] EXCEPT !.step = "valid"] \in Base  BY <2>1 DEF Base
  <2> QED  BY <1>1, <1>3, <2>2, PlainJobKeeps
<1> QED  BY <1>2, <1>3 DEF TouchToken, EndJob

(* What is listed by path now is right now. *)
LEMMA JobListKeeps ==
  ASSUME CiInv, NEW j \in CiJob, ListAllowed(j)
  PROVE  CiInv'
<1> DEFINE paths == job[j].paths
           ids == {f \in Files : file[f] \in paths}
           r == [step |-> "listed", token |-> job[j].token, paths |-> paths,
                 all |-> paths = {}, ids |-> ids]
<1>1. job' = [job EXCEPT ![j] = r] /\ UNCHANGED <<token, file, ever, always>>
  BY DEF ListAllowed
<1>2. job[j] \in Base /\ job[j] # Waiting
  BY JobKinds DEF ListAllowed, CiInv, Waiting
<1>3. r \in Listed  BY <1>2 DEF Base, Listed, Files
<1>4. \A f \in CiFile : file[f] \in ever[j][f] /\ always[j][f] \subseteq {file[f]}
  BY <1>2 DEF CiInv, Witnessed
<1>5. paths # {} => \A f \in CiFile :
        /\ f \in ids => \E p \in ever[j][f] : Matches(paths, p)
        /\ (\E p \in always[j][f] : Matches(paths, p)) => f \in ids
  BY <1>4 DEF Matches, Files
<1>6. r.paths = paths /\ r.ids = ids /\ (r.all <=> paths = {}) /\ r.step = "listed"
  OBVIOUS
<1> HIDE DEF r, ids, paths
<1>7. \A k \in CiJob : job'[k] = IF k = j THEN r ELSE job[k]  BY <1>1 DEF CiInv, JobsShape
<1>8. JobsShape'  BY <1>1, <1>3 DEF CiInv, JobsShape, Job
<1>9. Witnessed'  BY <1>1, <1>2, <1>7 DEF CiInv, Witnessed
<1>10. ASSUME NEW k \in CiJob, job'[k].step = "listed"  PROVE Picked(k)'
  <2>1. CASE k = j
    <3>1. job'[k] = r  BY <2>1, <1>7
    <3> QED  BY <3>1, <2>1, <1>1, <1>5, <1>6 DEF Picked
  <2>2. CASE k # j
    <3>1. job'[k] = job[k]  BY <2>2, <1>7
    <3> QED  BY <3>1, <1>1, <1>10 DEF Picked, CiInv
  <2> QED  BY <2>1, <2>2
<1>11. SentIsAllowed'  BY <1>1, <1>6, <1>7 DEF CiInv, SentIsAllowed
<1> QED  BY <1>8, <1>9, <1>10, <1>11 DEF CiInv

(* What is fetched by identifier was right by path, or no path was asked.  *)
LEMMA JobFetchKeeps ==
  ASSUME CiInv, NEW j \in CiJob, FetchFiles(j)
  PROVE  CiInv'
<1> DEFINE r == [step |-> "answer", token |-> job[j].token, paths |-> job[j].paths,
                 files |-> Found(job[j])]
<1>1. job' = [job EXCEPT ![j] = r] /\ UNCHANGED <<token, file, ever, always>>
  BY DEF FetchFiles
<1>2. job[j] \in Listed /\ job[j] # Waiting
  BY JobKinds DEF FetchFiles, CiInv, Waiting
<1>3. r \in Answer  BY <1>2 DEF Listed, Answer, Found, Files
<1>4. \A f \in CiFile : file[f] \in ever[j][f] /\ always[j][f] \subseteq {file[f]}
  BY <1>2 DEF CiInv, Witnessed
<1>5. Picked(j)  BY DEF CiInv, FetchFiles
<1>6. \A f \in CiFile :
        /\ f \in Found(job[j]) => \E p \in ever[j][f] : Matches(job[j].paths, p)
        /\ (\E p \in always[j][f] : Matches(job[j].paths, p)) => f \in Found(job[j])
  <2>1. CASE job[j].all  BY <2>1, <1>4, <1>5 DEF Picked, Found, Files, Matches
  <2>2. CASE ~job[j].all  BY <2>2, <1>4, <1>5 DEF Picked, Found, Files, Matches
  <2> QED  BY <2>1, <2>2
<1>7. r.paths = job[j].paths /\ r.files = Found(job[j]) /\ r.step = "answer"
  OBVIOUS
<1> HIDE DEF r
<1>8. \A k \in CiJob : job'[k] = IF k = j THEN r ELSE job[k]  BY <1>1 DEF CiInv, JobsShape
<1>9. JobsShape'  BY <1>1, <1>3 DEF CiInv, JobsShape, Job
<1>10. Witnessed'  BY <1>1, <1>2, <1>8 DEF CiInv, Witnessed
<1>11. \A k \in CiJob : job'[k].step = "listed" => Picked(k)'
  BY <1>1, <1>7, <1>8 DEF CiInv, Picked
<1>12. SentIsAllowed'
  BY <1>1, <1>6, <1>7, <1>8 DEF CiInv, SentIsAllowed
<1> QED  BY <1>9, <1>10, <1>11, <1>12 DEF CiInv

LEMMA JobStepKeeps == CiInv /\ [CiNext]_ciVars => CiInv'
<1> SUFFICES ASSUME CiInv, [CiNext]_ciVars  PROVE CiInv'
  OBVIOUS
<1>1. CASE UNCHANGED ciVars
  BY <1>1 DEF ciVars, CiInv, JobsShape, Witnessed, Picked, SentIsAllowed
<1> QED
  BY <1>1, TokensKeep, JobChangeKeeps, JobFindKeeps, TouchOrEndKeeps, JobListKeeps, JobFetchKeeps
     DEF CiNext

(* The files that ci-token.service.ts sends were each under an allowed     *)
(* path at a moment of the request, and none that stayed under one lacks.  *)
THEOREM JobsSentTheAllowed == CiSpec => []SentIsAllowed
<1>1. CiInit => CiInv  BY JobInitHolds
<1>2. CiInv /\ [CiNext]_ciVars => CiInv'  BY JobStepKeeps
<1>3. CiInv => SentIsAllowed  BY DEF CiInv
<1> QED  BY <1>1, <1>2, <1>3, PTL DEF CiSpec

(* The unique index on the paths of a project: a file is put on a path that *)
(* no other one has, and the other steps leave the files alone.            *)
PathsUnique == \A f, g \in Files : file[f] = file[g] => f = g

LEMMA PathsStayUnique == CiInv /\ PathsUnique /\ [CiNext]_ciVars => PathsUnique'
<1> SUFFICES ASSUME CiInv, PathsUnique, [CiNext]_ciVars  PROVE PathsUnique'
  OBVIOUS
<1>1. CASE file' = file  BY <1>1 DEF PathsUnique, Files
<1>2. ASSUME NEW f \in CiFile, NEW p \in CiPath \cup {Outside}, ChangeFile(f, p)
      PROVE  PathsUnique'
  <2>1. \A g \in CiFile : file'[g] = IF g = f THEN p ELSE file[g]
    BY <1>2 DEF ChangeFile, CiInv, JobsShape
  <2>2. p = Outside \/ \A g \in CiFile : file[g] # p  BY <1>2 DEF ChangeFile, PathFree
  <2> QED  BY <2>1, <2>2 DEF PathsUnique, Files
<1> QED
  BY <1>1, <1>2
     DEF CiNext, ciVars, CreateToken, RevokeToken, FindToken, TouchToken, ListAllowed,
         FetchFiles, EndJob

LEMMA CiTypes == CiInv /\ PathsUnique => CiTypeOK
<1> SUFFICES ASSUME CiInv, PathsUnique  PROVE CiTypeOK
  OBVIOUS
<1>1. \A j \in CiJob : job[j].step \in {"idle", "found", "valid", "listed", "answer"}
  <2> SUFFICES ASSUME NEW j \in CiJob
               PROVE  job[j].step \in {"idle", "found", "valid", "listed", "answer"}
    OBVIOUS
  <2>1. job[j] \in Job  BY DEF CiInv, JobsShape
  <2> QED  BY <2>1 DEF Job, Base, Listed, Answer, Waiting
<1> QED  BY <1>1 DEF CiInv, JobsShape, PathsUnique, CiTypeOK

(* The rows of ci-token.service.ts keep their types, two files never have  *)
(* one path, and a job's request goes through the steps it has.            *)
THEOREM CiTypeCorrect == CiSpec => []CiTypeOK
<1>1. CiInit => CiInv  BY JobInitHolds
<1>2. CiInit => PathsUnique  BY DEF CiInit, PathsUnique, Files
<1> QED  BY <1>1, <1>2, JobStepKeeps, PathsStayUnique, CiTypes, PTL DEF CiSpec

-----------------------------------------------------------------------------
(* The rate limiter. *)

(* A window of k is open; it began at Start(k).                            *)
Active(k) == clock < store[k].resetAt
Start(k) == store[k].resetAt - Window

(* The history grows with time up to now, and not beyond.                  *)
Counted(k) ==
    /\ \A s, t \in Moment : s <= t => admitted[k][s] <= admitted[k][t]
    /\ \A t \in Moment : t > clock => admitted[k][t] = admitted[k][clock + 1]

(* An open window has let through what its count says, and the stretch of  *)
(* a window's length before it saw one limit at most.                      *)
Running(k) ==
    /\ Start(k) \in 0..clock
    /\ store[k].count >= 1
    /\ admitted[k][clock + 1] - admitted[k][Start(k)]
         = IF store[k].count <= MaxHits THEN store[k].count ELSE MaxHits
    /\ \A t \in Moment : Start(k) - Window <= t /\ t <= Start(k) =>
         admitted[k][Start(k)] - admitted[k][t] <= MaxHits

(* With no window open nothing was let through at this moment, and one     *)
(* limit at most in the stretch of a window's length before it.            *)
Over(k) ==
    /\ admitted[k][clock + 1] = admitted[k][clock]
    /\ \A t \in Moment : clock - Window <= t /\ t <= clock =>
         admitted[k][clock] - admitted[k][t] <= MaxHits

Spent(k) == k \in refusedAt => Active(k) /\ store[k].count > MaxHits

Twice(k) ==
    \A s, t \in Moment : s <= t /\ t <= s + Window =>
        admitted[k][t] - admitted[k][s] <= 2 * MaxHits

KeyInv(k) ==
    /\ Counted(k)
    /\ Active(k) => Running(k)
    /\ ~Active(k) => Over(k)
    /\ Spent(k)
    /\ Twice(k)

LimitInv == LimitTypeOK /\ \A k \in Key : KeyInv(k)

LEMMA LimitInitHolds == LimitInit => LimitInv
  <1> SUFFICES ASSUME LimitInit PROVE LimitInv
    OBVIOUS
  <1> USE LimitAssumption DEF LimitInit, NoEntry, Moment
  <1>1. LimitTypeOK
    BY DEF LimitTypeOK
  <1>2. ASSUME NEW k \in Key  PROVE KeyInv(k)
    BY DEF KeyInv, Counted, Over, Spent, Twice, Active
  <1> QED  BY <1>1, <1>2 DEF LimitInv

(* The types that the arithmetic below needs. *)
LEMMA LimitTypes ==
    ASSUME LimitTypeOK, NEW k \in Key
    PROVE  /\ clock \in Nat /\ clock <= LastTick /\ clock \in Moment /\ clock + 1 \in Moment
           /\ store[k].count \in Nat /\ store[k].count <= MaxHits + 1
           /\ store[k].resetAt \in Nat /\ store[k].resetAt <= clock + Window
           /\ \A t \in Moment : admitted[k][t] \in Nat
  BY LimitAssumption DEF LimitTypeOK, Moment

(* Time passes: an open window may end, and another may begin from now on. *)
LEMMA PassTimeKeeps ==
    ASSUME LimitInv, PassTime
    PROVE  LimitInv'
  <1> USE LimitAssumption
  <1>1. LimitTypeOK'
    BY DEF LimitInv, LimitTypeOK, PassTime
  <1>2. ASSUME NEW k \in Key  PROVE KeyInv(k)'
    <2>1. KeyInv(k) /\ LimitTypeOK
      BY DEF LimitInv
    <2>2. /\ clock' = clock + 1 /\ clock < LastTick
          /\ UNCHANGED <<store, admitted>> /\ refusedAt' = {}
      BY DEF PassTime
    <2>3. admitted[k][clock + 2] = admitted[k][clock + 1] /\ clock + 2 \in Moment
      BY <2>1, <2>2, LimitTypes DEF KeyInv, Counted, Moment
    <2>4. Counted(k)' /\ Spent(k)' /\ Twice(k)'
      BY <2>1, <2>2, <2>3, LimitTypes DEF KeyInv, Counted, Spent, Twice, Moment
    <2>5. CASE Active(k)'
      <3>1. Active(k)
        BY <2>1, <2>2, <2>5, LimitTypes DEF Active
      <3>2. Running(k)
        BY <2>1, <3>1 DEF KeyInv
      <3>3. Start(k)' = Start(k) /\ Start(k) \in 0..clock' /\ clock' + 1 = clock + 2
        BY <2>1, <2>2, <3>2, LimitTypes DEF Start, Running
      <3>4. Running(k)'
        BY <2>2, <2>3, <3>2, <3>3 DEF Running
      <3> QED  BY <2>4, <2>5, <3>4 DEF KeyInv
    <2>6. CASE ~Active(k)'
      <3>1. ASSUME NEW t \in Moment, clock + 1 - Window <= t, t <= clock + 1
            PROVE  admitted[k][clock + 1] - admitted[k][t] <= MaxHits
        <4>1. CASE Active(k)
          <5>1. Start(k) \in Moment /\ Start(k) <= t
            BY <2>1, <2>2, <2>6, <3>1, <4>1, LimitTypes
               DEF KeyInv, Running, Active, Start, Moment
          <5>2. admitted[k][clock + 1] - admitted[k][Start(k)] <= MaxHits
            BY <2>1, <4>1, LimitTypes DEF KeyInv, Running
          <5>3. admitted[k][Start(k)] <= admitted[k][t]
            BY <2>1, <5>1 DEF KeyInv, Counted
          <5> QED  BY <2>1, <5>1, <5>2, <5>3, LimitTypes
        <4>2. CASE ~Active(k) /\ t <= clock
          BY <2>1, <3>1, <4>2, LimitTypes DEF KeyInv, Over, Moment
        <4>3. CASE t = clock + 1
          BY <2>1, <4>3, LimitTypes
        <4> QED  BY <2>1, <3>1, <4>1, <4>2, <4>3, LimitTypes DEF Moment
      <3>2. Over(k)'
        <4>1. clock' + 1 = clock + 2
          BY <2>1, <2>2, LimitTypes
        <4>2. admitted'[k][clock' + 1] = admitted'[k][clock']
          BY <2>2, <2>3, <4>1
        <4>3. \A t \in Moment : clock' - Window <= t /\ t <= clock' =>
                admitted'[k][clock'] - admitted'[k][t] <= MaxHits
          <5> SUFFICES ASSUME NEW t \in Moment, clock' - Window <= t, t <= clock'
                       PROVE  admitted'[k][clock'] - admitted'[k][t] <= MaxHits
            OBVIOUS
          <5>1. clock + 1 - Window <= t /\ t <= clock + 1
            BY <2>1, <2>2, LimitTypes DEF Moment
          <5>2. admitted[k][clock + 1] - admitted[k][t] <= MaxHits
            BY <3>1, <5>1
          <5>3. admitted'[k][clock'] = admitted[k][clock + 1] /\ admitted'[k][t] = admitted[k][t]
            BY <2>2
          <5> QED  BY <5>2, <5>3
        <4> QED  BY <4>2, <4>3 DEF Over
      <3> QED  BY <2>4, <2>6, <3>2 DEF KeyInv
    <2> QED  BY <2>5, <2>6
  <1> QED  BY <1>1, <1>2 DEF LimitInv

(* Only windows that are over are purged. *)
LEMMA CleanupKeeps ==
    ASSUME LimitInv, Cleanup
    PROVE  LimitInv'
  <1> USE LimitAssumption
  <1>1. LimitTypeOK'
    BY DEF LimitInv, LimitTypeOK, Cleanup, NoEntry
  <1>2. ASSUME NEW k \in Key  PROVE KeyInv(k)'
    <2>1. KeyInv(k) /\ LimitTypeOK
      BY DEF LimitInv
    <2>2. /\ UNCHANGED <<clock, admitted, refusedAt>>
          /\ store'[k] = IF Active(k) THEN store[k] ELSE NoEntry
      BY <2>1, LimitTypes DEF Cleanup, Purged, Active
    <2>3. Active(k)' <=> Active(k)
      BY <2>1, <2>2, LimitTypes DEF Active, NoEntry
    <2>4. Active(k) => Start(k)' = Start(k)
      BY <2>2 DEF Start
    <2> QED
      BY <2>1, <2>2, <2>3, <2>4 DEF KeyInv, Counted, Running, Over, Spent, Twice
  <1> QED  BY <1>1, <1>2 DEF LimitInv

(* A request is counted, in the open window or in a new one.               *)
LEMMA AskKeeps ==
    ASSUME LimitInv, NEW k \in Key, Ask(k)
    PROVE  LimitInv'
  <1> USE LimitAssumption
  <1> DEFINE hit == Hit(k)
  <1>0. LimitTypeOK /\ KeyInv(k)
    BY DEF LimitInv
  <1>1. /\ clock' = clock
        /\ store' = [store EXCEPT ![k] = hit]
        /\ store[k].count <= MaxHits \/ ~Active(k)
    BY <1>0, LimitTypes DEF Ask, Active
  <1>2. /\ hit.count \in 1..MaxHits + 1
        /\ hit.resetAt \in 0..clock + Window
        /\ clock < hit.resetAt
        /\ hit = [count |-> hit.count, resetAt |-> hit.resetAt]
        /\ Active(k) => hit.count = store[k].count + 1 /\ hit.resetAt = store[k].resetAt
        /\ ~Active(k) => hit.count = 1 /\ hit.resetAt = clock + Window
    <2>1. store[k] \in [count : 0..MaxHits + 1, resetAt : 0..LastTick + Window]
      BY <1>0 DEF LimitTypeOK
    <2>2. CASE Active(k)
      BY <1>0, <1>1, <2>1, <2>2, LimitTypes DEF Hit, Active
    <2>3. CASE ~Active(k)
      BY <1>0, <1>1, <2>1, <2>3, LimitTypes DEF Hit, Active
    <2> QED  BY <2>2, <2>3
  <1>3. \/ /\ hit.count > MaxHits
           /\ refusedAt' = refusedAt \cup {k} /\ admitted' = admitted
        \/ /\ hit.count <= MaxHits
           /\ refusedAt' = refusedAt
           /\ admitted' = [admitted EXCEPT ![k] =
                [t \in Moment |-> IF t > clock THEN @[t] + 1 ELSE @[t]]]
    BY <1>2 DEF Ask
  <1> HIDE DEF hit
  <1>4. /\ store'[k] = hit
        /\ \A j \in Key \ {k} : store'[j] = store[j] /\ admitted'[j] = admitted[j]
        /\ \A j \in Key \ {k} : j \in refusedAt' <=> j \in refusedAt
    BY <1>0, <1>1, <1>3 DEF LimitTypeOK
  <1>5. LimitTypeOK'
    <2>1. store' \in [Key -> [count : 0..MaxHits + 1, resetAt : 0..LastTick + Window]]
      BY <1>0, <1>1, <1>2 DEF LimitTypeOK
    <2>2. admitted' \in [Key -> [Moment -> Nat]]
      BY <1>0, <1>3 DEF LimitTypeOK
    <2>3. \A j \in Key : store'[j].resetAt <= clock' + Window
      BY <1>0, <1>1, <1>2, <1>4, LimitTypes DEF LimitTypeOK
    <2> QED  BY <1>0, <1>1, <1>3, <2>1, <2>2, <2>3 DEF LimitTypeOK
  <1>6. ASSUME NEW j \in Key \ {k}  PROVE KeyInv(j)'
    BY <1>1, <1>4, <1>6
       DEF LimitInv, KeyInv, Counted, Running, Over, Spent, Twice, Active, Start
  <1>7. Active(k)' /\ Start(k)' \in 0..clock
        /\ (Active(k) => Start(k)' = Start(k)) /\ (~Active(k) => Start(k)' = clock)
    BY <1>0, <1>1, <1>2, <1>4, LimitTypes DEF Active, Start, KeyInv, Running
  <1> DEFINE plus == IF hit.count > MaxHits THEN 0 ELSE 1
  <1>8. \A t \in Moment :
          admitted'[k][t] = admitted[k][t] + (IF t > clock THEN plus ELSE 0)
    <2>1. CASE hit.count > MaxHits
      BY <1>0, <1>2, <1>3, <2>1, LimitTypes
    <2>2. CASE hit.count <= MaxHits
      <3>1. admitted'[k] = [t \in Moment |->
              IF t > clock THEN admitted[k][t] + 1 ELSE admitted[k][t]]
        BY <1>0, <1>2, <1>3, <2>2 DEF LimitTypeOK
      <3> QED  BY <1>0, <1>2, <2>2, <3>1, LimitTypes
    <2> QED  BY <1>2, <2>1, <2>2
  <1>9. plus \in {0, 1} /\ (plus = 1 <=> hit.count <= MaxHits)
    BY <1>2
  <1> HIDE DEF plus
  <1>10. Counted(k)'
    BY <1>0, <1>1, <1>8, <1>9, LimitTypes DEF KeyInv, Counted, Moment
  (* Before the open window began a stretch saw one limit at most, and the *)
  (* window has let through no more than its count.                        *)
  <1>11. /\ \A t \in Moment : Start(k)' - Window <= t /\ t <= Start(k)' =>
              admitted[k][Start(k)'] - admitted[k][t] <= MaxHits
         /\ admitted[k][clock + 1] - admitted[k][Start(k)'] + plus
              = IF hit.count <= MaxHits THEN hit.count ELSE MaxHits
    <2>1. CASE Active(k)
      BY <1>0, <1>1, <1>2, <1>7, <1>9, <2>1, LimitTypes DEF KeyInv, Running
    <2>2. CASE ~Active(k)
      BY <1>0, <1>1, <1>2, <1>7, <1>9, <2>2, LimitTypes DEF KeyInv, Over
    <2> QED  BY <2>1, <2>2
  <1>12. Start(k)' \in Moment /\ clock + 1 \in Moment /\ clock \in Moment
         /\ Start(k)' <= clock /\ Start(k)' \in Nat /\ clock \in Nat
    BY <1>0, <1>7, LimitTypes DEF Moment
  <1>13. Running(k)'
    <2>1. \A t \in Moment : t <= clock => admitted'[k][t] = admitted[k][t]
      BY <1>0, <1>8, <1>12, LimitTypes DEF Moment
    <2>2. admitted'[k][clock + 1] = admitted[k][clock + 1] + plus
      BY <1>8, <1>12
    <2>3. admitted'[k][clock + 1] - admitted'[k][Start(k)']
            = IF hit.count <= MaxHits THEN hit.count ELSE MaxHits
      BY <1>0, <1>9, <1>11, <1>12, <2>1, <2>2, LimitTypes
    <2>4. \A t \in Moment : Start(k)' - Window <= t /\ t <= Start(k)' =>
            admitted'[k][Start(k)'] - admitted'[k][t] <= MaxHits
      BY <1>11, <1>12, <2>1 DEF Moment
    <2> QED  BY <1>1, <1>2, <1>4, <1>12, <2>3, <2>4 DEF Running
  <1>14. Spent(k)'
    BY <1>0, <1>2, <1>3, <1>4, <1>7, LimitTypes DEF Spent, KeyInv
  <1>15. Twice(k)'
    <2> SUFFICES ASSUME NEW s \in Moment, NEW t \in Moment, s <= t, t <= s + Window
                 PROVE  admitted'[k][t] - admitted'[k][s] <= 2 * MaxHits
      BY DEF Twice
    <2>0. s \in Int /\ t \in Int /\ admitted[k][s] \in Nat /\ admitted[k][t] \in Nat
          /\ admitted[k][clock + 1] \in Nat /\ admitted[k][Start(k)'] \in Nat
      BY <1>0, <1>12, LimitTypes DEF Moment
    <2>1. admitted[k][t] - admitted[k][s] <= 2 * MaxHits
      BY <1>0 DEF KeyInv, Twice
    <2>2. CASE t <= clock \/ s > clock
      BY <1>8, <1>9, <1>12, <2>0, <2>1, <2>2
    <2>3. CASE t > clock /\ s <= clock
      <3>1. admitted[k][t] = admitted[k][clock + 1]
        BY <1>0, <2>3 DEF KeyInv, Counted
      <3>2. admitted'[k][t] = admitted[k][clock + 1] + plus
            /\ admitted'[k][s] = admitted[k][s]
        BY <1>8, <1>9, <1>12, <2>0, <2>3, <3>1
      <3>3. admitted[k][clock + 1] + plus - admitted[k][Start(k)'] <= MaxHits
        BY <1>2, <1>9, <1>11, <2>0
      <3>4. CASE s <= Start(k)'
        <4>1. Start(k)' - Window <= s
          BY <1>12, <2>0, <2>3, <3>4
        <4>2. admitted[k][Start(k)'] - admitted[k][s] <= MaxHits
          BY <1>11, <3>4, <4>1
        <4> QED  BY <1>9, <2>0, <3>2, <3>3, <4>2
      <3>5. CASE s > Start(k)'
        <4>1. admitted[k][Start(k)'] <= admitted[k][s]
          BY <1>0, <1>12, <2>0, <3>5 DEF KeyInv, Counted
        <4> QED  BY <1>9, <2>0, <3>2, <3>3, <4>1
      <3> QED  BY <1>12, <2>0, <3>4, <3>5
    <2> QED  BY <1>12, <2>0, <2>2, <2>3
  <1>16. KeyInv(k)'
    BY <1>7, <1>10, <1>13, <1>14, <1>15 DEF KeyInv
  <1> QED  BY <1>5, <1>6, <1>16 DEF LimitInv

LEMMA LimitStepKeeps == LimitInv /\ [LimitNext]_limitVars => LimitInv'
  <1> SUFFICES ASSUME LimitInv, [LimitNext]_limitVars PROVE LimitInv'
    OBVIOUS
  <1>1. ASSUME NEW k \in Key, AskAgain(k)  PROVE LimitInv'
    <2>1. /\ UNCHANGED <<clock, store, admitted>>
          /\ refusedAt' = refusedAt \cup {k} /\ store[k].count > MaxHits /\ Active(k)
      BY <1>1 DEF AskAgain, Active
    <2>2. LimitTypeOK'
      BY <2>1 DEF LimitInv, LimitTypeOK
    <2>3. ASSUME NEW j \in Key  PROVE KeyInv(j)'
      BY <2>1
         DEF LimitInv, KeyInv, Counted, Running, Over, Spent, Twice, Active, Start
    <2> QED  BY <2>2, <2>3 DEF LimitInv
  <1>2. CASE UNCHANGED limitVars
    BY <1>2
       DEF limitVars, LimitInv, LimitTypeOK, KeyInv, Counted, Running, Over, Spent,
           Twice, Active, Start
  <1> QED
    BY <1>1, <1>2, PassTimeKeeps, CleanupKeeps, AskKeeps DEF LimitNext

LEMMA LimitInvariant == LimitSpec => []LimitInv
  BY LimitInitHolds, LimitStepKeeps, PTL DEF LimitSpec

(* The entries of rate-limiter.ts: no count passes the limit by more than  *)
(* the request that finds it spent, and no window lasts beyond its length. *)
THEOREM LimitTypeCorrect == LimitSpec => []LimitTypeOK
<1>1. LimitInv => LimitTypeOK  BY DEF LimitInv
<1> QED  BY <1>1, LimitInvariant, PTL

(* In any stretch as long as a window RateLimitStore lets a key through at *)
(* most twice its limit, whenever entries are purged.                      *)
THEOREM LimitedToTwice == LimitSpec => []AtMostTwice
  <1>1. LimitInv => AtMostTwice
    <2> SUFFICES ASSUME LimitInv, NEW k \in Key, NEW t \in 0..LastTick
                 PROVE  Between(k, t, t + Window - 1) <= 2 * MaxHits
      BY DEF AtMostTwice
    <2> DEFINE end == Clip(t + Window)
    <2>1. Clip(t) = t /\ end \in Moment /\ t \in Moment /\ t <= end /\ end <= t + Window
      BY LimitAssumption DEF Clip, Moment
    <2>2. t + Window - 1 + 1 = t + Window
      BY LimitAssumption
    <2>3. Between(k, t, t + Window - 1) = admitted[k][end] - admitted[k][t]
      BY <2>1, <2>2 DEF Between
    <2> HIDE DEF end
    <2> QED  BY <2>1, <2>3 DEF LimitInv, KeyInv, Twice
  <1> QED  BY <1>1, LimitInvariant, PTL

(* A key is refused only while a whole limit of its requests was let       *)
(* through within the last window: what is refused is not held against it. *)
THEOREM RefusedWhenSpent == LimitSpec => []RefusedOnlyWhenSpent
  <1>1. LimitInv => RefusedOnlyWhenSpent
    <2> SUFFICES ASSUME LimitInv, NEW k \in refusedAt
                 PROVE  Between(k, clock - Window + 1, clock) >= MaxHits
      BY DEF RefusedOnlyWhenSpent
    <2>0. k \in Key /\ LimitTypeOK
      BY DEF LimitInv, LimitTypeOK
    <2>1. /\ Active(k) /\ store[k].count > MaxHits /\ Running(k) /\ Counted(k)
      BY <2>0 DEF LimitInv, KeyInv, Spent
    <2> DEFINE first == Clip(clock - Window + 1)
    <2>2. Clip(clock + 1) = clock + 1
      BY <2>0, LimitTypes, LimitAssumption DEF Clip
    <2>3. first \in Moment /\ Start(k) \in Moment /\ first <= Start(k)
      BY <2>0, <2>1, LimitTypes, LimitAssumption DEF Clip, Moment, Start, Active, Running
    <2>4. Between(k, clock - Window + 1, clock) = admitted[k][clock + 1] - admitted[k][first]
      BY <2>2 DEF Between
    <2> HIDE DEF first
    <2>5. admitted[k][clock + 1] - admitted[k][Start(k)] = MaxHits
      BY <2>0, <2>1, LimitTypes, LimitAssumption DEF Running
    <2>6. admitted[k][first] <= admitted[k][Start(k)]
      BY <2>1, <2>3 DEF Counted
    <2> QED  BY <2>0, <2>3, <2>4, <2>5, <2>6, LimitTypes, LimitAssumption
  <1> QED  BY <1>1, LimitInvariant, PTL
-----------------------------------------------------------------------------
(* Subscriptions. *)

Event == [kind : EventKind, sub : Sub, status : StripeStatus, cancel : BOOLEAN]

(* The last event tells what became of its subscription: it is there as it *)
(* says, or as it was bought, or it is over.                               *)
MailEnds ==
    /\ \A i \in DOMAIN mail : mail[i].sub \in DOMAIN stripe
    /\ mail = <<>> => stripe = <<>>
    /\ mail # <<>> => LET e == mail[Len(mail)] IN
         /\ e.kind \in {"synced", "deleted", "checkout"}
         /\ e.kind \in {"synced", "checkout"} => e.sub \in Bought
         /\ e.kind = "synced" =>
              e.status = stripe[e.sub].status /\ e.cancel = stripe[e.sub].cancel

(* A checkout under way has seen its subscription as it is now, unless     *)
(* Stripe has sent something since.                                        *)
Desks ==
    /\ DOMAIN desk = Desk
    /\ \A d \in Desk :
         /\ desk[d].op \in {"rest", "checkout", "mirror"}
         /\ desk[d].op = "rest" => desk[d] = AtRest
         /\ desk[d].op = "checkout" =>
              /\ desk[d].event \in DOMAIN mail
              /\ mail[desk[d].event].kind = "checkout"
              /\ mail[desk[d].event].sub = desk[d].sub
              /\ desk[d].seen \in StripeSub
              /\ desk[d].event = Len(mail) => desk[d].seen = stripe[desk[d].sub]
         /\ desk[d].op = "mirror" => desk[d].cancel \in BOOLEAN

LastDone == mail = <<>> \/ Len(mail) \in handled

RowMatches ==
    /\ \A n \in Bought : row.sub = n /\ row.cancel = stripe[n].cancel
    /\ EffectivePlan =
         IF \E n \in Bought : stripe[n].status \in {"active", "past_due"}
         THEN "PRO" ELSE "FREE"

(* While nothing has come between, the last event decides.                 *)
Undisturbed ==
    /\ ~row.comp
    /\ \A n, m \in Bought : n = m
    /\ mail # <<>> /\ mail[Len(mail)].kind = "deleted" => Bought = {}
    /\ \A c, d \in Desk : desk[c] # AtRest /\ desk[d] # AtRest => c = d
    /\ LastDone => RowMatches
    /\ \A d \in Desk, n \in Bought :
         desk[d].op = "mirror" /\ LastDone => stripe[n].cancel = desk[d].cancel

BillInv == BillTypeOK /\ MailEnds /\ Desks /\ (~disturbed => Undisturbed)

LEMMA BillTypes ==
  ASSUME BillTypeOK
  PROVE  /\ stripe \in Seq(StripeSub) /\ Len(stripe) \in Nat /\ Len(stripe) <= MaxSubs
         /\ DOMAIN stripe = 1..Len(stripe) /\ \A n \in DOMAIN stripe : stripe[n] \in StripeSub
         /\ mail \in Seq(Event) /\ Len(mail) \in Nat
         /\ DOMAIN mail = 1..Len(mail) /\ \A i \in DOMAIN mail : mail[i] \in Event
         /\ mail = <<>> <=> Len(mail) = 0
<1>1. stripe \in Seq(StripeSub) /\ Len(stripe) <= MaxSubs /\ mail \in Seq(Event)
  BY DEF BillTypeOK, Event
<1>2. Len(stripe) \in Nat /\ DOMAIN stripe = 1..Len(stripe)
      /\ \A n \in DOMAIN stripe : stripe[n] \in StripeSub
  BY <1>1
<1>3. Len(mail) \in Nat /\ DOMAIN mail = 1..Len(mail)
      /\ \A i \in DOMAIN mail : mail[i] \in Event
  BY <1>1
<1>4. mail = <<>> <=> Len(mail) = 0  BY <1>1
<1> QED  BY <1>1, <1>2, <1>3, <1>4

(* What Stripe sends comes after all it has sent.                          *)
LEMMA Appended ==
  ASSUME NEW S, NEW s \in Seq(S), NEW t \in Seq(S), Len(t) > 0,
         NEW u, u = s \o t
  PROVE  /\ u \in Seq(S) /\ Len(u) = Len(s) + Len(t) /\ u # <<>>
         /\ Len(u) \notin DOMAIN s
         /\ u[Len(u)] = t[Len(t)]
         /\ \A i \in DOMAIN s : i \in DOMAIN u /\ u[i] = s[i] /\ i # Len(u)
         /\ \A i \in DOMAIN u : i \in DOMAIN s \/ \E j \in DOMAIN t : u[i] = t[j]
<1>1. /\ u \in Seq(S) /\ Len(u) = Len(s) + Len(t) /\ Len(s) \in Nat /\ Len(t) \in Nat
      /\ DOMAIN u = 1..(Len(s) + Len(t)) /\ DOMAIN s = 1..Len(s) /\ DOMAIN t = 1..Len(t)
  OBVIOUS
<1>2. \A i \in DOMAIN u : u[i] = IF i <= Len(s) THEN s[i] ELSE t[i - Len(s)]
  OBVIOUS
<1>3. u # <<>>
  <2>1. Len(u) # 0  BY <1>1
  <2> QED  BY <2>1
<1>4. \A i \in DOMAIN u : i \in DOMAIN s \/ (i - Len(s) \in DOMAIN t /\ u[i] = t[i - Len(s)])
  BY <1>1, <1>2
<1>5. u[Len(u)] = t[Len(t)]
  <2>1. Len(u) \in DOMAIN u /\ ~(Len(u) <= Len(s)) /\ Len(u) - Len(s) = Len(t)  BY <1>1
  <2> QED  BY <1>2, <2>1
<1>6. \A i \in DOMAIN s : i \in DOMAIN u /\ u[i] = s[i] /\ i # Len(u)  BY <1>1, <1>2
<1>7. Len(u) \notin DOMAIN s  BY <1>1
<1> QED  BY <1>1, <1>3, <1>4, <1>5, <1>6, <1>7

(* Stripe changes and sends: what the row says is of no account until the  *)
(* last event has been handled.                                            *)
LEMMA SendingKeeps ==
  ASSUME BillInv, NEW ev \in Seq(Event), Len(ev) > 0, mail' = mail \o ev,
         stripe' \in Seq(StripeSub), Len(stripe') <= MaxSubs, Len(mail') <= MaxEvents,
         Len(stripe) <= Len(stripe'),
         UNCHANGED <<handled, row>>, disturbed' \in BOOLEAN,
         \A j \in DOMAIN ev : ev[j].sub \in DOMAIN stripe',
         ev[Len(ev)].kind \in {"synced", "deleted", "checkout"},
         ev[Len(ev)].kind \in {"synced", "checkout"} => ev[Len(ev)].sub \in Bought',
         ev[Len(ev)].kind = "synced" =>
             /\ ev[Len(ev)].status = stripe'[ev[Len(ev)].sub].status
             /\ ev[Len(ev)].cancel = stripe'[ev[Len(ev)].sub].cancel,
         DOMAIN desk' = Desk,
         \A d \in Desk : desk'[d] = desk[d]
                         \/ (desk'[d].op = "mirror" /\ desk'[d].cancel \in BOOLEAN),
         ~disturbed' =>
             /\ ~disturbed
             /\ \A n, m \in Bought' : n = m
             /\ ev[Len(ev)].kind = "deleted" => Bought' = {}
             /\ \A c, d \in Desk : desk'[c] # AtRest /\ desk'[d] # AtRest => c = d
  PROVE  BillInv'
<1>0. mail \in Seq(Event)  BY BillTypes DEF BillInv
<1>1. /\ mail' \in Seq(Event) /\ mail' # <<>> /\ Len(mail') \notin DOMAIN mail
      /\ mail'[Len(mail')] = ev[Len(ev)]
      /\ \A i \in DOMAIN mail : i \in DOMAIN mail' /\ mail'[i] = mail[i] /\ i # Len(mail')
      /\ \A i \in DOMAIN mail' : i \in DOMAIN mail \/ \E j \in DOMAIN ev : mail'[i] = ev[j]
  BY <1>0, Appended
<1> USE BillTypes DEF BillInv
<1>2. DOMAIN stripe \subseteq DOMAIN stripe'
  <2>1. DOMAIN stripe' = 1..Len(stripe') /\ Len(stripe') \in Nat  OBVIOUS
  <2> QED  BY <2>1
<1>3. BillTypeOK'
  <2>1. handled' \subseteq DOMAIN mail'  BY <1>1 DEF BillTypeOK
  <2>2. row'.sub \in DOMAIN stripe' \cup {NoSub}  BY <1>2 DEF BillTypeOK
  <2> QED  BY <1>1, <2>1, <2>2 DEF BillTypeOK, Event
<1>4. MailEnds'
  <2>1. \A i \in DOMAIN mail' : mail'[i].sub \in DOMAIN stripe'
    BY <1>1, <1>2 DEF MailEnds
  <2> QED  BY <1>1, <2>1 DEF MailEnds
<1>5. Desks'  BY <1>1 DEF Desks
<1>6. ~LastDone'  BY <1>1 DEF LastDone, BillTypeOK
<1>7. ASSUME ~disturbed'  PROVE Undisturbed'
  BY <1>1, <1>6, <1>7 DEF Undisturbed
<1> QED  BY <1>3, <1>4, <1>5, <1>7

LEMMA PayKeeps == BillInv /\ PayCheckout => BillInv'
<1> SUFFICES ASSUME BillInv, PayCheckout  PROVE BillInv'
  OBVIOUS
<1> USE BillTypes DEF BillInv
<1> DEFINE n == Len(stripe) + 1
           s == [status |-> "active", cancel |-> FALSE]
           ev == <<Mail("synced", n, s), Mail("paid", n, s), Mail("checkout", n, s)>>
<1>1. /\ n \in Sub /\ stripe' = Append(stripe, s) /\ mail' = mail \o ev
      /\ Len(mail) + Len(ev) <= MaxEvents
      /\ disturbed' = (disturbed \/ Bought # {}) /\ UNCHANGED <<handled, row, desk>>
  BY DEF PayCheckout, Sends
<1>2. s \in StripeSub /\ s.status = "active"  BY DEF StripeSub, StripeStatus
<1>3. \A k \in {"synced", "paid", "checkout"} : Mail(k, n, s) \in Event
  BY <1>1, <1>2 DEF Event, Mail, EventKind, StripeSub
<1>4. ev \in Seq(Event) /\ Len(ev) = 3 /\ ev[3] = Mail("checkout", n, s)
      /\ DOMAIN ev = 1..3 /\ \A j \in 1..3 : ev[j].sub = n
  <2>1. ev \in Seq(Event)  BY <1>3
  <2>2. \A k \in {"synced", "paid", "checkout"} : Mail(k, n, s).sub = n  BY DEF Mail
  <2>3. Len(ev) = 3 /\ DOMAIN ev = 1..3 /\ ev[1] = Mail("synced", n, s)
        /\ ev[2] = Mail("paid", n, s) /\ ev[3] = Mail("checkout", n, s)
    OBVIOUS
  <2>4. \A j \in 1..3 : j = 1 \/ j = 2 \/ j = 3  OBVIOUS
  <2> HIDE DEF ev
  <2> QED  BY <2>1, <2>2, <2>3, <2>4
<1>5. ev[3].kind = "checkout" /\ ev[3].sub = n  BY <1>4 DEF Mail
<1>6. /\ stripe' \in Seq(StripeSub) /\ Len(stripe') = n /\ stripe'[n] = s
      /\ DOMAIN stripe' = 1..n /\ \A m \in DOMAIN stripe : stripe'[m] = stripe[m]
  BY <1>1, <1>2
<1> HIDE DEF ev, s
<1>7. n \in Bought' /\ \A m \in Bought' : m \in Bought \/ m = n
  BY <1>2, <1>6 DEF Bought
<1>8. Len(mail') <= MaxEvents /\ mail' = mail \o ev /\ Len(ev) > 0
  <2>1. mail \in Seq(Event) /\ ev \in Seq(Event)  BY <1>4
  <2>2. Len(mail \o ev) = Len(mail) + Len(ev)  BY ONLY <2>1
  <2> QED  BY ONLY <1>1, <1>4, <2>2
<1>9. Len(stripe') <= MaxSubs /\ Len(stripe) <= Len(stripe') /\ disturbed' \in BOOLEAN
  BY <1>1, <1>6, BillBounds DEF Sub, BillTypeOK
<1>10. \A j \in DOMAIN ev : ev[j].sub \in DOMAIN stripe'  BY <1>4, <1>6
<1>11. ~disturbed' =>
         /\ ~disturbed
         /\ \A i, m \in Bought' : i = m
         /\ \A c, d \in Desk : desk'[c] # AtRest /\ desk'[d] # AtRest => c = d
  BY <1>1, <1>7 DEF Undisturbed, BillTypeOK
<1>12. DOMAIN desk' = Desk /\ \A d \in Desk : desk'[d] = desk[d]  BY <1>1 DEF Desks
<1>13. /\ ev[Len(ev)].kind = "checkout" /\ ev[Len(ev)].sub \in Bought'
       /\ "checkout" \in {"synced", "deleted", "checkout"}
       /\ "checkout" # "synced" /\ "checkout" # "deleted"
  BY ONLY <1>4, <1>5, <1>7
<1> QED
  BY ONLY BillInv, <1>1, <1>4, <1>6, <1>8, <1>9, <1>10, <1>11, <1>12, <1>13, SendingKeeps

(* A subscription changes, but not which there are, or it ends.            *)
LEMMA ChangeKeeps ==
  ASSUME BillInv, NEW n \in Bought, NEW s \in StripeSub, NEW ev \in Seq(Event), Len(ev) > 0,
         stripe' = [stripe EXCEPT ![n] = s], Sends(ev),
         \A j \in DOMAIN ev : ev[j].sub = n,
         \/ s.status # "canceled" /\ ev[Len(ev)] = Mail("synced", n, s)
         \/ s.status = "canceled" /\ ev[Len(ev)] = Mail("deleted", n, s),
         UNCHANGED <<handled, row>>,
         DOMAIN desk' = Desk,
         \A d \in Desk : desk'[d] = desk[d]
                         \/ (desk'[d].op = "mirror" /\ desk'[d].cancel \in BOOLEAN),
         disturbed' \in BOOLEAN,
         ~disturbed' =>
             /\ ~disturbed
             /\ \A c, d \in Desk : desk'[c] # AtRest /\ desk'[d] # AtRest => c = d
  PROVE  BillInv'
<1> USE BillTypes DEF BillInv
<1>1. n \in DOMAIN stripe  BY DEF Bought
<1>2. /\ stripe' \in Seq(StripeSub) /\ Len(stripe') = Len(stripe)
      /\ DOMAIN stripe' = DOMAIN stripe
      /\ \A m \in DOMAIN stripe : stripe'[m] = IF m = n THEN s ELSE stripe[m]
  BY <1>1
<1>3. Len(mail') <= MaxEvents /\ mail' = mail \o ev
  <2>0. mail \in Seq(Event)  OBVIOUS
  <2>1. Len(mail \o ev) = Len(mail) + Len(ev)  BY ONLY <2>0, ev \in Seq(Event)
  <2> QED  BY <2>1 DEF Sends
<1>4. \A m \in Bought' : m \in Bought /\ (m = n => s.status # "canceled")
  BY <1>1, <1>2 DEF Bought
<1>5. s.status # "canceled" => n \in Bought'  BY <1>1, <1>2 DEF Bought
<1>6. /\ Mail("synced", n, s).kind = "synced" /\ Mail("deleted", n, s).kind = "deleted"
      /\ Mail("synced", n, s).sub = n
      /\ Mail("synced", n, s).status = s.status /\ Mail("synced", n, s).cancel = s.cancel
  BY DEF Mail
<1>7. ASSUME ~disturbed'
      PROVE  /\ \A i, m \in Bought' : i = m
             /\ ev[Len(ev)].kind = "deleted" => Bought' = {}
  <2>1. \A i, m \in Bought : i = m  BY <1>7 DEF Undisturbed
  <2> QED  BY <1>4, <1>6, <2>1
<1>8. Len(stripe') <= MaxSubs /\ Len(stripe) <= Len(stripe')  BY <1>2
<1>9. \A j \in DOMAIN ev : ev[j].sub \in DOMAIN stripe'  BY <1>1, <1>2
<1>10. /\ ev[Len(ev)].kind \in {"synced", "deleted", "checkout"}
       /\ ev[Len(ev)].kind \in {"synced", "checkout"} => ev[Len(ev)].sub \in Bought'
       /\ ev[Len(ev)].kind = "synced" =>
             /\ ev[Len(ev)].status = stripe'[ev[Len(ev)].sub].status
             /\ ev[Len(ev)].cancel = stripe'[ev[Len(ev)].sub].cancel
  BY <1>1, <1>2, <1>5, <1>6
<1> QED  BY <1>2, <1>3, <1>7, <1>8, <1>9, <1>10, SendingKeeps

LEMMA StripeKeeps ==
  ASSUME BillInv, NEW n \in DOMAIN stripe,
         EndSubscription(n)
           \/ \E status \in StripeStatus \ {"canceled"} : ChangeStatus(n, status)
  PROVE  BillInv'
<1> USE BillTypes DEF BillInv
<1>0. DOMAIN stripe \subseteq Sub  BY BillBounds DEF Sub
<1>e. ASSUME NEW s \in StripeSub, NEW k \in EventKind
      PROVE  Mail(k, n, s) \in Event /\ Mail(k, n, s).sub = n
  BY <1>0, <1>e DEF Mail, Event, StripeSub
<1>d. UNCHANGED <<handled, row, desk, disturbed>> =>
        /\ DOMAIN desk' = Desk /\ \A d \in Desk : desk'[d] = desk[d]
        /\ disturbed' \in BOOLEAN
        /\ ~disturbed' =>
             /\ ~disturbed
             /\ \A c, d \in Desk : desk'[c] # AtRest /\ desk'[d] # AtRest => c = d
  BY DEF Desks, Undisturbed, BillTypeOK
<1>1. CASE EndSubscription(n)
  <2> DEFINE s == [stripe[n] EXCEPT !.status = "canceled"]
             ev == <<Mail("deleted", n, s)>>
  <2>1. /\ n \in Bought /\ stripe' = [stripe EXCEPT ![n] = s] /\ Sends(ev)
        /\ UNCHANGED <<handled, row, desk, disturbed>>
    BY <1>1 DEF EndSubscription
  <2>2. s \in StripeSub /\ s.status = "canceled"  BY DEF StripeSub, StripeStatus
  <2> HIDE DEF s
  <2>3. ev \in Seq(Event) /\ Len(ev) = 1 /\ ev[1] = Mail("deleted", n, s)
        /\ DOMAIN ev = {1}
    <3>1. Mail("deleted", n, s) \in Event  BY <1>e, <2>2 DEF EventKind
    <3> QED  BY <3>1
  <2>4. \A j \in DOMAIN ev : ev[j].sub = n  BY <1>e, <2>2, <2>3 DEF EventKind
  <2>5. Len(ev) > 0 /\ ev[Len(ev)] = Mail("deleted", n, s)  BY ONLY <2>3
  <2> HIDE DEF ev
  <2> QED
    BY ONLY BillInv, <1>d, <2>1, <2>2, <2>3, <2>4, <2>5, ChangeKeeps
<1>2. ASSUME NEW status \in StripeStatus \ {"canceled"}, ChangeStatus(n, status)
      PROVE  BillInv'
  <2> DEFINE s == [stripe[n] EXCEPT !.status = status]
             first == IF status = "active" THEN <<Mail("paid", n, s)>>
                      ELSE IF status = "past_due" THEN <<Mail("failed", n, s)>> ELSE <<>>
             last == <<Mail("synced", n, s)>>
             ev == first \o last
  <2>1. /\ n \in Bought /\ stripe' = [stripe EXCEPT ![n] = s] /\ Sends(ev)
        /\ UNCHANGED <<handled, row, desk, disturbed>>
    BY <1>2 DEF ChangeStatus
  <2>2. s \in StripeSub /\ s.status = status  BY DEF StripeSub
  <2> HIDE DEF s
  <2>3. \A k \in EventKind : Mail(k, n, s) \in Event /\ Mail(k, n, s).sub = n
    BY <1>e, <2>2
  <2>4. first \in Seq(Event) /\ \A j \in DOMAIN first : first[j].sub = n
    <3>1. ASSUME NEW k \in EventKind
          PROVE  <<Mail(k, n, s)>> \in Seq(Event)
                 /\ \A j \in DOMAIN <<Mail(k, n, s)>> : <<Mail(k, n, s)>>[j].sub = n
      BY <2>3
    <3>2. <<>> \in Seq(Event) /\ \A j \in DOMAIN <<>> : <<>>[j].sub = n
      OBVIOUS
    <3>3. "paid" \in EventKind /\ "failed" \in EventKind  BY DEF EventKind
    <3> QED  BY <3>1, <3>2, <3>3
  <2>5. last \in Seq(Event) /\ Len(last) = 1 /\ last[1] = Mail("synced", n, s)
        /\ DOMAIN last = {1} /\ last[1].sub = n
    BY <2>3 DEF EventKind
  <2> HIDE DEF first, last
  <2>6. /\ ev \in Seq(Event) /\ Len(ev) = Len(first) + 1 /\ ev[Len(ev)] = Mail("synced", n, s)
        /\ \A j \in DOMAIN ev : ev[j].sub = n
    <3>1. first \in Seq(Event) /\ last \in Seq(Event) /\ Len(last) > 0
      BY ONLY <2>4, <2>5
    <3>2. /\ ev \in Seq(Event) /\ Len(ev) = Len(first) + Len(last)
          /\ ev[Len(ev)] = last[Len(last)]
          /\ \A i \in DOMAIN ev : i \in DOMAIN first \/ \E j \in DOMAIN last : ev[i] = last[j]
      BY ONLY <3>1, Appended
    <3>3. \A i \in DOMAIN first : ev[i] = first[i]  BY ONLY <3>1, Appended
    <3> HIDE DEF ev
    <3> QED  BY ONLY <2>4, <2>5, <3>2, <3>3
  <2>7. Len(ev) > 0  BY <2>4, <2>6
  <2> HIDE DEF ev
  <2> QED  BY <1>d, <2>1, <2>2, <2>6, <2>7, ChangeKeeps
<1> QED  BY <1>1, <1>2

(* A status that counts as paid is one that Stripe counts as paid.         *)
LEMMA Mapped ==
  ASSUME NEW status \in StripeStatus
  PROVE  /\ MapStripeStatus(status) \in BillStatus
         /\ MapStripeStatus(status) \in PaidStatuses <=> status \in {"active", "past_due"}
BY DEF StripeStatus, MapStripeStatus, BillStatus, PaidStatuses

(* The row of the only subscription there is, as it is now, is right.      *)
LEMMA SyncedMatches ==
  ASSUME BillTypeOK, NEW n \in Bought, \A m \in Bought : m = n, ~row.comp,
         NEW s, s.status = stripe[n].status, s.cancel = stripe[n].cancel,
         SyncSubscription(n, s), stripe' = stripe
  PROVE  RowMatches'
<1>1. n \in DOMAIN stripe /\ stripe[n] \in StripeSub  BY BillTypes DEF Bought
<1>2. stripe[n].status \in StripeStatus  BY <1>1 DEF StripeSub
<1>3. /\ row'.plan = "PRO" /\ row'.status = MapStripeStatus(s.status) /\ row'.sub = n
      /\ row'.cancel = s.cancel /\ row'.comp = row.comp
  BY DEF SyncSubscription, BillTypeOK
<1>4. Bought' = Bought  BY DEF Bought
<1>5. EffectivePlan' = IF stripe[n].status \in {"active", "past_due"} THEN "PRO" ELSE "FREE"
  BY <1>2, <1>3, Mapped DEF EffectivePlan
<1>6. (\E m \in Bought' : stripe'[m].status \in {"active", "past_due"})
        <=> stripe[n].status \in {"active", "past_due"}
  BY <1>4
<1>7. \A m \in Bought' : row'.sub = m /\ row'.cancel = stripe'[m].cancel  BY <1>3, <1>4
<1> QED  BY <1>5, <1>6, <1>7 DEF RowMatches

(* The row keeps its type whatever is written to it.                       *)
LEMMA RowTyped ==
  ASSUME BillTypeOK, UNCHANGED <<stripe, mail>>, handled' \subseteq DOMAIN mail,
         disturbed' \in BOOLEAN,
         \/ row' = row
         \/ \E n \in DOMAIN stripe, s \in StripeSub \cup Event : SyncSubscription(n, s)
         \/ OnSubscriptionDeleted
         \/ \E n \in Sub, status \in BillStatus : OnInvoiceStatusChange(n, status)
         \/ \E cancel \in BOOLEAN : row' = [row EXCEPT !.cancel = cancel]
  PROVE  BillTypeOK'
<1> USE BillTypes
<1> DEFINE Goal ==
             /\ row' \in [plan : {"FREE", "PRO", "TEAM"}, status : BillStatus,
                          sub : Sub \cup {NoSub}, cancel : BOOLEAN, comp : BOOLEAN]
             /\ row'.sub \in DOMAIN stripe \cup {NoSub}
             /\ row'.sub = NoSub /\ ~row'.comp => row'.plan = "FREE"
<1>1. Goal
  <2>1. CASE row' = row  BY <2>1 DEF BillTypeOK
  <2>2. ASSUME NEW n \in DOMAIN stripe, NEW s \in StripeSub \cup Event, SyncSubscription(n, s)
        PROVE  Goal
    <3>1. s.status \in StripeStatus /\ s.cancel \in BOOLEAN  BY DEF StripeSub, Event
    <3>2. n \in Sub /\ n # NoSub  BY BillBounds DEF Sub, NoSub
    <3>3. MapStripeStatus(s.status) \in BillStatus  BY <3>1, Mapped
    <3> QED  BY <2>2, <3>1, <3>2, <3>3 DEF SyncSubscription, BillTypeOK
  <2>3. CASE OnSubscriptionDeleted
    BY <2>3 DEF OnSubscriptionDeleted, BillTypeOK, BillStatus
  <2>4. ASSUME NEW n \in Sub, NEW status \in BillStatus, OnInvoiceStatusChange(n, status)
        PROVE  Goal
    BY <2>4 DEF OnInvoiceStatusChange, BillTypeOK
  <2>5. ASSUME NEW cancel \in BOOLEAN, row' = [row EXCEPT !.cancel = cancel]
        PROVE  Goal
    BY <2>5 DEF BillTypeOK
  <2> HIDE DEF Goal
  <2> QED  BY <2>1, <2>2, <2>3, <2>4, <2>5
<1> QED  BY <1>1 DEF BillTypeOK

(* Nothing Stripe holds or has sent changes.                               *)
LEMMA StripeStays ==
  ASSUME UNCHANGED <<stripe, mail>>
  PROVE  Bought' = Bought /\ (MailEnds => MailEnds')
<1>1. Bought' = Bought  BY DEF Bought
<1> QED  BY <1>1 DEF MailEnds

LEMMA DeskRests ==
  ASSUME Desks, NEW d \in Desk
  PROVE  (desk[d] = AtRest <=> desk[d].op = "rest") /\ AtRest.op = "rest"
BY DEF Desks, AtRest

LEMMA DispatchKeeps ==
  ASSUME BillInv, NEW i \in DOMAIN mail, Dispatch(i)
  PROVE  BillInv'
<1> DEFINE e == mail[i]
<1>1. BillTypeOK /\ MailEnds /\ Desks  BY DEF BillInv
<1>2. /\ UNCHANGED <<stripe, mail, desk>> /\ handled' = handled \cup {i}
      /\ disturbed' = (~Heals(i) /\ (disturbed \/ OutOfOrder(i) \/ Busy))
      /\ e.kind # "checkout"
  BY DEF Dispatch
<1>3. e \in Event /\ e.sub \in DOMAIN stripe /\ e.sub \in Sub
  BY <1>1, BillTypes DEF MailEnds, Event
<1>4. /\ e.kind = "synced" => SyncSubscription(e.sub, e)
      /\ e.kind = "deleted" => OnSubscriptionDeleted
      /\ e.kind = "paid" => OnInvoiceStatusChange(e.sub, "ACTIVE")
      /\ e.kind = "failed" => OnInvoiceStatusChange(e.sub, "PAST_DUE")
  BY DEF Dispatch
<1>5. e.kind \in {"synced", "deleted", "paid", "failed"}
  BY <1>2, <1>3 DEF Event, EventKind
<1>6. disturbed' \in BOOLEAN  BY <1>2
<1>7. handled' \subseteq DOMAIN mail  BY <1>1, <1>2 DEF BillTypeOK
<1> HIDE DEF e
<1>8. BillTypeOK'
  <2>1. "ACTIVE" \in BillStatus /\ "PAST_DUE" \in BillStatus  BY DEF BillStatus
  <2>2. CASE e.kind = "synced"
    BY ONLY <1>1, <1>2, <1>3, <1>4, <1>6, <1>7, <2>2, RowTyped
  <2>3. CASE e.kind = "deleted"
    BY ONLY <1>1, <1>2, <1>4, <1>6, <1>7, <2>3, RowTyped
  <2>4. CASE e.kind = "paid"
    BY ONLY <1>1, <1>2, <1>3, <1>4, <1>6, <1>7, <2>1, <2>4, RowTyped
  <2>5. CASE e.kind = "failed"
    BY ONLY <1>1, <1>2, <1>3, <1>4, <1>6, <1>7, <2>1, <2>5, RowTyped
  <2> QED  BY <1>5, <2>2, <2>3, <2>4, <2>5
<1>9. MailEnds'  BY <1>1, <1>2, StripeStays
<1>10. Desks'  BY <1>1, <1>2 DEF Desks
<1>11. ASSUME ~disturbed'  PROVE Undisturbed'
  <2>1. Bought' = Bought  BY <1>2, StripeStays
  <2>2. /\ ~Busy /\ ~row.comp /\ \A n, m \in Bought : n = m
        /\ mail # <<>> /\ mail[Len(mail)].kind = "deleted" => Bought = {}
        /\ ~Heals(i) => ~OutOfOrder(i)
    <3>1. CASE Heals(i)
      BY <3>1 DEF Heals
    <3>2. CASE ~Heals(i)
      BY <1>2, <1>11, <3>2 DEF BillInv, Undisturbed
    <3> QED  BY <3>1, <3>2
  <2>3. \A d \in Desk : desk'[d] = AtRest /\ desk'[d].op # "mirror"
    BY <1>1, <1>2, <2>2, DeskRests DEF Busy
  <2>4. ~row'.comp
    BY <1>1, <1>4, <1>5, <2>2
       DEF BillTypeOK, SyncSubscription, OnSubscriptionDeleted, OnInvoiceStatusChange
  <2>5. ASSUME LastDone'  PROVE i = Len(mail)
    <3>1. CASE Heals(i)  BY <3>1 DEF Heals
    <3>2. CASE ~Heals(i)
      <4>1. Len(mail) \in Nat /\ DOMAIN mail = 1..Len(mail) /\ mail # <<>>
        BY <1>1, BillTypes
      <4>2. Len(mail) \in handled \cup {i}  BY <1>2, <2>5, <4>1 DEF LastDone
      <4>3. \A j \in handled : ~(j > i)  BY <2>2, <3>2 DEF OutOfOrder
      <4> QED  BY <4>1, <4>2, <4>3
    <3> QED  BY <3>1, <3>2
  <2>6. ASSUME LastDone'  PROVE RowMatches'
    <3>1. i = Len(mail) /\ mail # <<>>  BY <1>1, <2>5, <2>6, BillTypes
    <3>2. e.kind \in {"synced", "deleted"}
      BY <1>1, <1>2, <1>5, <3>1 DEF MailEnds, e
    <3>3. CASE e.kind = "synced"
      <4>1. /\ e.sub \in Bought /\ e.status = stripe[e.sub].status
            /\ e.cancel = stripe[e.sub].cancel
        BY <1>1, <3>1, <3>3 DEF MailEnds, e
      <4> QED  BY <1>1, <1>2, <1>4, <2>2, <3>3, <4>1, SyncedMatches
    <3>4. CASE e.kind = "deleted"
      <4>1. Bought' = {}  BY <2>1, <2>2, <3>1, <3>4 DEF e
      <4>2. row'.plan = "FREE"
        BY <1>1, <1>4, <3>4 DEF OnSubscriptionDeleted, BillTypeOK
      <4> QED  BY <4>1, <4>2 DEF RowMatches, EffectivePlan
    <3> QED  BY <3>2, <3>3, <3>4
  <2> QED  BY <1>2, <2>1, <2>2, <2>3, <2>4, <2>6 DEF Undisturbed
<1> QED  BY <1>8, <1>9, <1>10, <1>11 DEF BillInv

(* A step that leaves the row as it is and nothing disturbed that was not. *)
LEMMA RetrieveKeeps ==
  ASSUME BillInv, NEW d \in Desk, NEW i \in DOMAIN mail, RetrieveSubscription(d, i)
  PROVE  BillInv'
<1>1. BillTypeOK /\ MailEnds /\ Desks  BY DEF BillInv
<1>2. /\ UNCHANGED <<stripe, mail, handled, row>> /\ mail[i].kind = "checkout"
      /\ desk' = [desk EXCEPT ![d] = [op |-> "checkout", event |-> i, sub |-> mail[i].sub,
                                      seen |-> stripe[mail[i].sub]]]
      /\ disturbed' = (disturbed \/ OutOfOrder(i) \/ Busy)
  BY DEF RetrieveSubscription
<1>3. stripe[mail[i].sub] \in StripeSub  BY <1>1, BillTypes DEF MailEnds
<1>4. BillTypeOK'
  <2>1. disturbed' \in BOOLEAN /\ handled' \subseteq DOMAIN mail
    BY <1>1, <1>2 DEF BillTypeOK
  <2> QED  BY <1>1, <1>2, <2>1, RowTyped
<1>5. MailEnds' /\ Bought' = Bought  BY <1>1, <1>2, StripeStays
<1>6. /\ DOMAIN desk' = Desk /\ \A c \in Desk : c # d => desk'[c] = desk[c]
      /\ desk'[d].op = "checkout" /\ desk'[d].event = i /\ desk'[d].sub = mail[i].sub
      /\ desk'[d].seen = stripe[mail[i].sub]
  BY <1>1, <1>2 DEF Desks
<1>7. Desks'  BY <1>1, <1>2, <1>3, <1>6 DEF Desks
<1>8. ASSUME ~disturbed'  PROVE Undisturbed'
  <2>1. ~Busy /\ Undisturbed  BY <1>2, <1>8 DEF BillInv
  <2>2. \A c \in Desk : c # d => desk'[c] = AtRest  BY <1>6, <2>1 DEF Busy
  <2>3. \A c \in Desk : desk'[c].op # "mirror"  BY <1>6, <2>2 DEF AtRest
  <2>4. RowMatches => RowMatches'
    BY <1>2, <1>5 DEF RowMatches, EffectivePlan
  <2>5. LastDone' <=> LastDone  BY <1>2 DEF LastDone
  <2> QED  BY <1>2, <1>5, <2>1, <2>2, <2>3, <2>4, <2>5 DEF Undisturbed
<1> QED  BY <1>4, <1>5, <1>7, <1>8 DEF BillInv

LEMMA CheckoutKeeps ==
  ASSUME BillInv, NEW d \in Desk, OnCheckoutCompleted(d)
  PROVE  BillInv'
<1> DEFINE i == desk[d].event
           n == desk[d].sub
           s == desk[d].seen
<1>1. BillTypeOK /\ MailEnds /\ Desks  BY DEF BillInv
<1>2. /\ UNCHANGED <<stripe, mail>> /\ handled' = handled \cup {i} /\ desk[d].op = "checkout"
      /\ desk' = [desk EXCEPT ![d] = AtRest] /\ SyncSubscription(n, s)
      /\ disturbed' = (disturbed \/ \E j \in handled : j > i)
  BY DEF OnCheckoutCompleted
<1>3. /\ i \in DOMAIN mail /\ mail[i].kind = "checkout" /\ mail[i].sub = n /\ s \in StripeSub
      /\ i = Len(mail) => s = stripe[n]
      /\ n \in DOMAIN stripe
  BY <1>1, <1>2 DEF Desks, MailEnds
<1> HIDE DEF i, n, s
<1>4. BillTypeOK'
  <2>1. disturbed' \in BOOLEAN /\ handled' \subseteq DOMAIN mail
    BY <1>1, <1>2, <1>3 DEF BillTypeOK
  <2> QED  BY ONLY <1>1, <1>2, <1>3, <2>1, RowTyped
<1>5. MailEnds' /\ Bought' = Bought  BY <1>1, <1>2, StripeStays
<1>6. DOMAIN desk' = Desk /\ \A c \in Desk : desk'[c] = IF c = d THEN AtRest ELSE desk[c]
  BY <1>1, <1>2 DEF Desks
<1>7. Desks'
  <2>1. \A c \in Desk : desk'[c] = AtRest \/ desk'[c] = desk[c]  BY <1>6
  <2> QED  BY <1>1, <1>2, <1>6, <2>1 DEF Desks, AtRest
<1>8. ASSUME ~disturbed'  PROVE Undisturbed'
  <2>1. Undisturbed /\ \A j \in handled : ~(j > i)  BY <1>2, <1>8 DEF BillInv
  <2>2. \A c \in Desk : desk'[c] = AtRest /\ desk'[c].op # "mirror"
    <3>1. desk[d] # AtRest  BY <1>1, <1>2, DeskRests
    <3>2. \A c \in Desk : c # d => desk[c] = AtRest  BY <2>1, <3>1 DEF Undisturbed
    <3> QED  BY <1>6, <3>2 DEF AtRest
  <2>3. ~row'.comp
    BY <1>1, <1>2, <2>1 DEF Undisturbed, SyncSubscription, BillTypeOK
  <2>4. ASSUME LastDone'  PROVE RowMatches'
    <3>1. Len(mail) \in Nat /\ DOMAIN mail = 1..Len(mail) /\ mail # <<>>
      BY <1>1, <1>3, BillTypes
    <3>2. i = Len(mail)
      <4>1. Len(mail) \in handled \cup {i}  BY <1>2, <2>4, <3>1 DEF LastDone
      <4> QED  BY <1>3, <2>1, <3>1, <4>1
    <3>3. n \in Bought  BY <1>1, <1>3, <3>1, <3>2 DEF MailEnds
    <3>4. \A m \in Bought : m = n  BY <2>1, <3>3 DEF Undisturbed
    <3>5. s.status = stripe[n].status /\ s.cancel = stripe[n].cancel /\ ~row.comp
      BY <1>3, <2>1, <3>2 DEF Undisturbed
    <3> QED  BY ONLY <1>1, <1>2, <3>3, <3>4, <3>5, SyncedMatches
  <2> QED  BY <1>2, <1>5, <2>1, <2>2, <2>3, <2>4 DEF Undisturbed
<1> QED  BY <1>4, <1>5, <1>7, <1>8 DEF BillInv

(* A person's wish is put to Stripe: it changes the subscription and an    *)
(* event follows, or Stripe knew already.                                  *)
LEMMA SetKeeps ==
  ASSUME BillInv, NEW d \in Desk, NEW cancel \in BOOLEAN, SetAtStripe(d, cancel)
  PROVE  BillInv'
<1> DEFINE n == row.sub
           s == [stripe[n] EXCEPT !.cancel = cancel]
           ev == <<Mail("synced", n, s)>>
<1>1. BillTypeOK /\ MailEnds /\ Desks  BY DEF BillInv
<1>2. /\ n \in Bought /\ stripe' = [stripe EXCEPT ![n] = s] /\ desk[d] = AtRest
      /\ IF s = stripe[n] THEN UNCHANGED mail ELSE Sends(ev)
      /\ desk' = [desk EXCEPT ![d] = [op |-> "mirror", cancel |-> cancel]]
      /\ disturbed' = (disturbed \/ Busy) /\ UNCHANGED <<handled, row>>
  BY DEF SetAtStripe
<1>3. n \in DOMAIN stripe /\ n \in Sub /\ stripe[n] \in StripeSub
      /\ stripe[n].status # "canceled"
  <2>1. n \in DOMAIN stripe /\ stripe[n].status # "canceled"  BY <1>2 DEF Bought
  <2>2. DOMAIN stripe \subseteq Sub  BY <1>1, BillTypes, BillBounds DEF Sub
  <2> QED  BY <1>1, <2>1, <2>2, BillTypes
<1>4. s \in StripeSub /\ s.status = stripe[n].status /\ s.cancel = cancel
  BY <1>3 DEF StripeSub
<1> HIDE DEF n, s
<1>5. ev \in Seq(Event) /\ Len(ev) > 0 /\ ev[Len(ev)] = Mail("synced", n, s)
      /\ \A j \in DOMAIN ev : ev[j].sub = n
  <2>1. Mail("synced", n, s) \in Event /\ Mail("synced", n, s).sub = n
    BY <1>3, <1>4 DEF Mail, Event, EventKind, StripeSub
  <2> QED  BY ONLY <2>1
<1>6. /\ DOMAIN desk' = Desk /\ \A c \in Desk : c # d => desk'[c] = desk[c]
      /\ desk'[d].op = "mirror" /\ desk'[d].cancel = cancel
  BY <1>1, <1>2 DEF Desks
<1>7. disturbed' \in BOOLEAN  BY <1>1, <1>2 DEF BillTypeOK
<1>8. ASSUME ~disturbed'
      PROVE  /\ ~disturbed /\ ~Busy /\ Undisturbed
             /\ \A c \in Desk : c # d => desk'[c] = AtRest
  BY <1>2, <1>6, <1>8 DEF BillInv, Busy
<1>9. CASE s # stripe[n]
  <2>1. Sends(ev)  BY <1>2, <1>9
  <2>2. /\ \A c \in Desk : desk'[c] = desk[c]
                           \/ (desk'[c].op = "mirror" /\ desk'[c].cancel \in BOOLEAN)
        /\ ~disturbed' =>
             /\ ~disturbed
             /\ \A b, c \in Desk : desk'[b] # AtRest /\ desk'[c] # AtRest => b = c
    BY <1>6, <1>8
  <2>3. s.status # "canceled"  BY <1>3, <1>4
  <2> HIDE DEF ev
  <2> QED
    BY ONLY BillInv, <1>2, <1>4, <1>5, <1>6, <1>7, <2>1, <2>2, <2>3, ChangeKeeps
<1>10. CASE s = stripe[n]
  <2>1. stripe' = stripe /\ mail' = mail
    <3>1. stripe' = [stripe EXCEPT ![n] = stripe[n]]  BY <1>2, <1>10
    <3>2. stripe' \in Seq(StripeSub) /\ Len(stripe') = Len(stripe)
          /\ \A m \in 1..Len(stripe) : stripe'[m] = stripe[m]
      BY <1>1, <1>3, <3>1, BillTypes
    <3>3. stripe' = stripe  BY <1>1, <3>2, BillTypes
    <3> QED  BY <1>2, <1>10, <3>3
  <2>2. BillTypeOK'
    <3>1. handled' \subseteq DOMAIN mail  BY <1>1, <1>2 DEF BillTypeOK
    <3> QED  BY <1>1, <1>2, <1>7, <2>1, <3>1, RowTyped
  <2>3. MailEnds' /\ Bought' = Bought  BY <1>1, <2>1, StripeStays
  <2>4. Desks'  BY <1>1, <1>6, <2>1 DEF Desks
  <2>5. ASSUME ~disturbed'  PROVE Undisturbed'
    <3>1. RowMatches => RowMatches'
      BY <1>2, <2>1, <2>3 DEF RowMatches, EffectivePlan
    <3>2. LastDone' <=> LastDone  BY <1>2, <2>1 DEF LastDone
    <3>3. \A m \in Bought : stripe[m].cancel = cancel
      BY <1>2, <1>4, <1>8, <1>10, <2>5 DEF Undisturbed
    <3>4. \A c \in Desk : desk'[c].op = "mirror" => desk'[c].cancel = cancel
      BY <1>6, <1>8, <2>5 DEF AtRest
    <3> QED  BY <1>2, <1>8, <2>1, <2>3, <2>5, <3>1, <3>2, <3>3, <3>4 DEF Undisturbed
  <2> QED  BY <2>2, <2>3, <2>4, <2>5 DEF BillInv
<1> QED  BY <1>9, <1>10

(* A desk is left, with the row as it was or with the wish written to it.  *)
LEMMA LeavingKeeps ==
  ASSUME BillInv, NEW d \in Desk, MirrorCancel(d) \/ FailDesk(d)
  PROVE  BillInv'
<1>1. BillTypeOK /\ MailEnds /\ Desks  BY DEF BillInv
<1>2. /\ UNCHANGED <<stripe, mail, handled, disturbed>>
      /\ desk' = [desk EXCEPT ![d] = AtRest]
      /\ \/ row' = row
         \/ desk[d].op = "mirror" /\ row' = [row EXCEPT !.cancel = desk[d].cancel]
  BY DEF MirrorCancel, FailDesk
<1>3. desk[d].op = "mirror" => desk[d].cancel \in BOOLEAN  BY <1>1 DEF Desks
<1>4. BillTypeOK'
  <2>1. disturbed' \in BOOLEAN /\ handled' \subseteq DOMAIN mail
    BY <1>1, <1>2 DEF BillTypeOK
  <2> QED  BY <1>1, <1>2, <1>3, <2>1, RowTyped
<1>5. MailEnds' /\ Bought' = Bought  BY <1>1, <1>2, StripeStays
<1>6. DOMAIN desk' = Desk /\ \A c \in Desk : desk'[c] = IF c = d THEN AtRest ELSE desk[c]
  BY <1>1, <1>2 DEF Desks
<1>7. Desks'
  <2>1. \A c \in Desk : desk'[c] = AtRest \/ desk'[c] = desk[c]  BY <1>6
  <2> QED  BY <1>1, <1>2, <1>6, <2>1 DEF Desks, AtRest
<1>8. ASSUME ~disturbed'  PROVE Undisturbed'
  <2>1. Undisturbed  BY <1>2, <1>8 DEF BillInv
  <2>2. /\ row'.comp = row.comp /\ row'.plan = row.plan /\ row'.status = row.status
        /\ row'.sub = row.sub
        /\ \/ row'.cancel = row.cancel
           \/ desk[d].op = "mirror" /\ row'.cancel = desk[d].cancel
    BY <1>1, <1>2 DEF BillTypeOK
  <2>3. ASSUME LastDone'  PROVE RowMatches'
    <3>1. LastDone  BY <1>2, <2>3 DEF LastDone
    <3>2. RowMatches  BY <2>1, <3>1 DEF Undisturbed
    <3>3. \A n \in Bought : row'.cancel = stripe[n].cancel
      BY <2>1, <2>2, <3>1, <3>2 DEF Undisturbed, RowMatches
    <3>4. EffectivePlan' = EffectivePlan  BY <2>2 DEF EffectivePlan, PaidStatuses
    <3> QED  BY <1>2, <1>5, <2>2, <3>2, <3>3, <3>4 DEF RowMatches
  <2>4. \A c \in Desk : desk'[c] # AtRest => desk[c] # AtRest  BY <1>6
  <2>5. \A c \in Desk : desk'[c].op = "mirror" =>
          desk[c].op = "mirror" /\ desk'[c].cancel = desk[c].cancel
    BY <1>6 DEF AtRest
  <2>6. LastDone' <=> LastDone  BY <1>2 DEF LastDone
  <2> QED  BY <1>2, <1>5, <2>1, <2>2, <2>3, <2>4, <2>5, <2>6 DEF Undisturbed
<1> QED  BY <1>4, <1>5, <1>7, <1>8 DEF BillInv

(* A complimentary plan disturbs from its grant on.                        *)
LEMMA CompKeeps ==
  ASSUME BillInv, AssignComp \/ RevokeComp
  PROVE  BillInv'
<1>1. BillTypeOK /\ MailEnds /\ Desks  BY DEF BillInv
<1>2. /\ UNCHANGED <<stripe, mail, handled, desk>>
      /\ \/ disturbed' = TRUE
            /\ \E plan \in {"PRO", "TEAM"} :
                 row' = [row EXCEPT !.plan = plan, !.status = "ACTIVE", !.comp = TRUE]
         \/ row.comp /\ disturbed' = disturbed
            /\ row' = [row EXCEPT !.plan = "FREE", !.status = "ACTIVE", !.comp = FALSE]
  BY DEF AssignComp, RevokeComp
<1>3. disturbed'
  BY <1>1, <1>2 DEF BillInv, Undisturbed, BillTypeOK
<1>4. BillTypeOK'
  <2>1. /\ row' \in [plan : {"FREE", "PRO", "TEAM"}, status : BillStatus,
                     sub : Sub \cup {NoSub}, cancel : BOOLEAN, comp : BOOLEAN]
        /\ row'.sub = row.sub
        /\ row'.sub = NoSub /\ ~row'.comp => row'.plan = "FREE"
    BY <1>1, <1>2 DEF BillTypeOK, BillStatus
  <2>2. disturbed' \in BOOLEAN  BY <1>1, <1>2 DEF BillTypeOK
  <2> QED  BY <1>1, <1>2, <2>1, <2>2 DEF BillTypeOK
<1>5. MailEnds'  BY <1>1, <1>2, StripeStays
<1>6. Desks'  BY <1>1, <1>2 DEF Desks
<1> QED  BY <1>3, <1>4, <1>5, <1>6 DEF BillInv

LEMMA BillStarts == BillInit => BillInv
<1> SUFFICES ASSUME BillInit  PROVE BillInv
  OBVIOUS
<1>1. /\ stripe = <<>> /\ mail = <<>> /\ handled = {} /\ disturbed = FALSE
      /\ row = [plan |-> "FREE", status |-> "ACTIVE", sub |-> NoSub, cancel |-> FALSE,
                comp |-> FALSE]
      /\ desk = [d \in Desk |-> AtRest]
  BY DEF BillInit
<1>2. /\ stripe \in Seq(StripeSub) /\ Len(stripe) = 0 /\ DOMAIN stripe = {}
      /\ mail \in Seq(Event) /\ Len(mail) = 0 /\ DOMAIN mail = {}
  BY <1>1
<1>3. BillTypeOK
  <2>1. Len(stripe) <= MaxSubs /\ Len(mail) <= MaxEvents  BY <1>2, BillBounds
  <2>2. row \in [plan : {"FREE", "PRO", "TEAM"}, status : BillStatus,
                 sub : Sub \cup {NoSub}, cancel : BOOLEAN, comp : BOOLEAN]
    BY <1>1 DEF BillStatus
  <2>3. row.sub = NoSub /\ row.plan = "FREE"  BY <1>1
  <2> QED  BY <1>1, <1>2, <2>1, <2>2, <2>3 DEF BillTypeOK, Event
<1>4. MailEnds  BY <1>1, <1>2 DEF MailEnds
<1>5. \A d \in Desk : desk[d] = AtRest  BY <1>1
<1>6. Desks  BY <1>1, <1>5 DEF Desks, AtRest
<1>7. Bought = {}  BY <1>2 DEF Bought
<1>8. RowMatches  BY <1>1, <1>7 DEF RowMatches, EffectivePlan
<1>9. Undisturbed  BY <1>1, <1>5, <1>7, <1>8 DEF Undisturbed, AtRest
<1> QED  BY <1>3, <1>4, <1>6, <1>9 DEF BillInv

LEMMA BillSteps == BillInv /\ [BillNext]_billVars => BillInv'
<1> SUFFICES ASSUME BillInv, [BillNext]_billVars  PROVE BillInv'
  OBVIOUS
<1>1. CASE PayCheckout  BY <1>1, PayKeeps
<1>2. CASE AssignComp \/ RevokeComp  BY <1>2, CompKeeps
<1>3. ASSUME NEW n \in DOMAIN stripe,
             EndSubscription(n)
               \/ \E status \in StripeStatus \ {"canceled"} : ChangeStatus(n, status)
      PROVE  BillInv'
  BY <1>3, StripeKeeps
<1>4. ASSUME NEW i \in DOMAIN mail, Dispatch(i)  PROVE BillInv'  BY <1>4, DispatchKeeps
<1>5. ASSUME NEW d \in Desk, NEW i \in DOMAIN mail, RetrieveSubscription(d, i)
      PROVE  BillInv'
  BY <1>5, RetrieveKeeps
<1>6. ASSUME NEW d \in Desk, OnCheckoutCompleted(d)  PROVE BillInv'
  BY <1>6, CheckoutKeeps
<1>7. ASSUME NEW d \in Desk, NEW cancel \in BOOLEAN, SetAtStripe(d, cancel)
      PROVE  BillInv'
  BY <1>7, SetKeeps
<1>8. ASSUME NEW d \in Desk, MirrorCancel(d) \/ FailDesk(d)  PROVE BillInv'
  BY <1>8, LeavingKeeps
<1>9. CASE UNCHANGED billVars
  <2>1. /\ UNCHANGED <<stripe, mail, handled, row, desk, disturbed>> /\ Bought' = Bought
        /\ BillTypeOK /\ MailEnds'
    BY <1>9, StripeStays DEF billVars, BillInv
  <2>2. BillTypeOK'  BY <2>1 DEF BillTypeOK
  <2>3. Desks'  BY <2>1 DEF BillInv, Desks
  <2>4. Undisturbed => Undisturbed'
    BY <2>1 DEF Undisturbed, LastDone, RowMatches, EffectivePlan
  <2> QED  BY <2>1, <2>2, <2>3, <2>4 DEF BillInv
<1> QED
  BY <1>1, <1>2, <1>3, <1>4, <1>5, <1>6, <1>7, <1>8, <1>9 DEF BillNext

(* Once every event was handled, in order and one at a time or the last    *)
(* one last, the row is what Stripe holds.                                 *)
THEOREM RowIsRight == BillSpec => []RowFollowsStripe
<1>1. BillInv => RowFollowsStripe
  <2> SUFFICES ASSUME BillInv, ~disturbed, handled = DOMAIN mail  PROVE RowMatches
    BY DEF RowFollowsStripe, RowMatches
  <2>1. Undisturbed /\ BillTypeOK  BY DEF BillInv
  <2>2. LastDone  BY <2>1, BillTypes DEF LastDone
  <2> QED  BY <2>1, <2>2 DEF Undisturbed
<1> QED  BY <1>1, BillStarts, BillSteps, PTL DEF BillSpec

(* The row names a subscription Stripe has, and a plan that is paid or     *)
(* complimentary, and handled events are among those sent.                 *)
THEOREM BillTypeCorrect == BillSpec => []BillTypeOK
<1>1. BillInv => BillTypeOK  BY DEF BillInv
<1> QED  BY <1>1, BillStarts, BillSteps, PTL DEF BillSpec

-----------------------------------------------------------------------------
(* The limits of plans. *)

(* The requests that person u's plan has told that there is room.          *)
Told(u) == {h \in Adder : adder[h].step = "add" /\ adder[h].payer = u}

PlanCap(u, n) == n + (Cardinality(Adder) - 1) * Growth + unasked[u]

(* There is room for what one of those that were told adds, and for the    *)
(* most that each of the others may.                                       *)
PlanRoom(u, n) ==
    /\ Cardinality(FilesOf(u)) <= PlanCap(u, n)
    /\ Told(u) # {} => \E k \in Told(u) :
         Cardinality(FilesOf(u)) + adder[k].adding + (Cardinality(Told(u)) - 1) * Growth
            <= PlanCap(u, n)

(* A request goes by a limit that the plan has had. *)
PlanRead ==
    /\ \A u \in Payer : limit[u] \in had[u]
    /\ \A h \in Adder : adder[h].step \in {"count", "add"} =>
         /\ adder[h].max \in had[adder[h].payer]
         /\ adder[h].step = "count" => adder[h].max # Infinite

RoomFor(u) == Infinite \notin had[u] => \E n \in had[u] : PlanRoom(u, n)

PlanInv == PlanTypeOK /\ PlanRead /\ \A u \in Payer : RoomFor(u)

LEMMA Products ==
  ASSUME NEW a \in Nat
  PROVE  /\ a * Growth \in Nat
         /\ (a + 1) * Growth = a * Growth + Growth
  BY PlanAssumption

LEMMA StoredCounts ==
  \A T \in SUBSET Stored : IsFiniteSet(T) /\ Cardinality(T) \in Nat
  BY PlanAssumption, FS_Subset, FS_CardinalityType

LEMMA AdderCounts ==
  \A T \in SUBSET Adder :
     /\ IsFiniteSet(T) /\ Cardinality(T) \in Nat /\ Cardinality(T) <= Cardinality(Adder)
     /\ T # {} => Cardinality(T) >= 1
<1>1. \A T \in SUBSET Adder :
        IsFiniteSet(T) /\ Cardinality(T) \in Nat /\ Cardinality(T) <= Cardinality(Adder)
  BY PlanAssumption, FS_Subset, FS_CardinalityType
<1>2. \A T \in SUBSET Adder : T # {} => Cardinality(T) # 0  BY <1>1, FS_EmptySet
<1> QED  BY <1>1, <1>2

LEMMA PlanCapTyped ==
  ASSUME PlanTypeOK, NEW u \in Payer, NEW n \in Nat
  PROVE  (Cardinality(Adder) - 1) * Growth \in Nat /\ PlanCap(u, n) \in Nat
<1>1. Cardinality(Adder) - 1 \in Nat
  BY PlanAssumption, FS_CardinalityType, FS_EmptySet
<1>2. (Cardinality(Adder) - 1) * Growth \in Nat  BY <1>1, Products
<1>3. unasked[u] \in Nat  BY DEF PlanTypeOK
<1> QED  BY <1>2, <1>3 DEF PlanCap

LEMMA PlanCounts ==
  ASSUME PlanTypeOK, NEW u \in Payer
  PROVE  /\ IsFiniteSet(FilesOf(u)) /\ Cardinality(FilesOf(u)) \in Nat
         /\ \A p : IsFiniteSet(FilesIn(p)) /\ Cardinality(FilesIn(p)) \in Nat
         /\ IsFiniteSet(Told(u)) /\ Cardinality(Told(u)) \in Nat
         /\ Cardinality(Told(u)) <= Cardinality(Adder)
         /\ Told(u) # {} => Cardinality(Told(u)) >= 1
         /\ Cardinality(Adder) \in Nat /\ Cardinality(Adder) >= 1
         /\ unasked[u] \in Nat /\ Growth \in Nat
         /\ \A k \in Adder : adder[k].step = "add" =>
              adder[k].adding \in Nat /\ 1 <= adder[k].adding /\ adder[k].adding <= Growth
<1>4. Told(u) \in SUBSET Adder /\ FilesOf(u) \in SUBSET Stored
      /\ \A p : FilesIn(p) \in SUBSET Stored
  BY DEF Told, FilesOf, FilesIn
<1>5. unasked[u] \in Nat /\ Growth \in Nat  BY PlanAssumption DEF PlanTypeOK
<1>6. \A k \in Adder : adder[k].step = "add" =>
        adder[k].adding \in Nat /\ 1 <= adder[k].adding /\ adder[k].adding <= Growth
  BY <1>5 DEF PlanTypeOK, AddRequest, AtEase
<1>7. Cardinality(Adder) \in Nat /\ Cardinality(Adder) >= 1
  BY AdderCounts, PlanAssumption
<1> QED  BY <1>4, <1>5, <1>6, <1>7, StoredCounts, AdderCounts

(* The requests told are as they were, and what u has is no more than what *)
(* has come unasked.                                                       *)
LEMMA PlanSteady ==
  ASSUME PlanTypeOK, PlanTypeOK', NEW u \in Payer, NEW n \in Nat, PlanRoom(u, n),
         Told(u)' = Told(u), \A k \in Told(u) : adder'[k] = adder[k],
         Cardinality(FilesOf(u))' - unasked'[u] <= Cardinality(FilesOf(u)) - unasked[u]
  PROVE  PlanRoom(u, n)'
<1> DEFINE live == Cardinality(FilesOf(u))
           m == Cardinality(Told(u))
           c == n + (Cardinality(Adder) - 1) * Growth
<1>1. live \in Nat /\ unasked[u] \in Nat /\ m \in Nat
  BY PlanCounts
<1>2. live' \in Nat /\ unasked'[u] \in Nat
  <2>1. FilesOf(u)' \in SUBSET Stored  BY DEF FilesOf
  <2> QED  BY <2>1, StoredCounts DEF PlanTypeOK
<1>3. c \in Nat /\ c' = c /\ m' = m  BY PlanCapTyped
<1>4. live <= c + unasked[u] => live' <= c + unasked'[u]
  BY <1>1, <1>2, <1>3
<1>5. \A d \in Int : live + d <= c + unasked[u] => live' + d <= c + unasked'[u]
  BY <1>1, <1>2, <1>3
<1> HIDE DEF c
<1>6. PlanCap(u, n) = c + unasked[u] /\ PlanCap(u, n)' = c + unasked'[u]
  BY <1>3 DEF PlanCap, c
<1>7. live' <= PlanCap(u, n)'  BY <1>4, <1>6 DEF PlanRoom
<1>8. ASSUME Told(u)' # {}
      PROVE  \E k \in Told(u)' :
               live' + adder'[k].adding + (m' - 1) * Growth <= PlanCap(u, n)'
  <2>1. PICK k \in Told(u) : live + adder[k].adding + (m - 1) * Growth <= PlanCap(u, n)
    BY <1>8 DEF PlanRoom
  <2> DEFINE g == (m - 1) * Growth
  <2>2. adder[k].adding \in Nat /\ g \in Nat
    <3>1. m >= 1 /\ adder[k].adding \in Nat  BY <1>8, PlanCounts DEF Told
    <3>2. m - 1 \in Nat  BY <1>1, <3>1
    <3> QED  BY <3>1, <3>2, Products
  <2>3. (m' - 1) * Growth = g /\ adder'[k] = adder[k]  BY <1>3
  <2> HIDE DEF g, live
  <2>4. live + (adder[k].adding + g) <= c + unasked[u]
    BY <1>1, <1>6, <2>1, <2>2 DEF g
  <2>5. live' + (adder[k].adding + g) <= c + unasked'[u]  BY <1>5, <2>2, <2>4
  <2>6. live' + adder'[k].adding + (m' - 1) * Growth <= PlanCap(u, n)'
    BY <1>2, <1>6, <2>2, <2>3, <2>5
  <2> QED  BY <2>6
<1> QED  BY <1>7, <1>8 DEF PlanRoom

(* One of the requests that were told is through, with what it adds or     *)
(* without.                                                                *)
LEMMA PlanLanding ==
  ASSUME PlanTypeOK, PlanTypeOK', NEW u \in Payer, NEW n \in Nat, PlanRoom(u, n),
         NEW h \in Told(u), Told(u)' = Told(u) \ {h},
         \A k \in Told(u) \ {h} : adder'[k] = adder[k],
         unasked'[u] = unasked[u],
         Cardinality(FilesOf(u))' <= Cardinality(FilesOf(u)) + adder[h].adding
  PROVE  PlanRoom(u, n)'
<1> DEFINE live == Cardinality(FilesOf(u))
           m == Cardinality(Told(u))
           cap == PlanCap(u, n)
<1>1. live \in Nat /\ live' \in Nat /\ m \in Nat /\ m >= 1 /\ m' = m - 1 /\ cap \in Int /\ cap' = cap
      /\ Growth \in Nat
  <2>1. m' = m - 1  BY PlanCounts, FS_RemoveElement
  <2>2. live' \in Nat
    <3>1. FilesOf(u)' \in SUBSET Stored  BY DEF FilesOf
    <3> QED  BY <3>1, StoredCounts
  <2>3. cap \in Int  BY PlanCapTyped
  <2>4. cap' = cap  BY DEF PlanCap
  <2> QED  BY <2>1, <2>2, <2>3, <2>4, PlanCounts
<1>2. \A k \in Told(u) : adder[k].adding \in Nat /\ 1 <= adder[k].adding /\ adder[k].adding <= Growth
  BY PlanCounts DEF Told
<1>3. PICK k \in Told(u) : live + adder[k].adding + (m - 1) * Growth <= cap
  BY DEF PlanRoom
<1>4. \A a \in Nat : a * Growth \in Nat /\ (a + 1) * Growth = a * Growth + Growth
  BY Products
<1>5. (m - 1) * Growth \in Nat  BY <1>1, <1>4
<1> HIDE DEF live, m, cap
<1>6. CASE Told(u)' = {}
  <2>1. k = h  BY <1>6
  <2>2. live' <= cap  BY <1>1, <1>2, <1>3, <1>5, <2>1 DEF live
  <2> QED  BY <1>1, <1>6, <2>2 DEF PlanRoom, live, cap
<1>7. CASE Told(u)' # {}
  <2>1. PICK j \in Told(u) \ {h} : IF k = h THEN TRUE ELSE j = k
    <3>1. Told(u) \ {h} # {}  BY <1>7
    <3> QED  BY <3>1
  <2>2. m >= 2
    <3>1. m' # 0
      <4>1. Told(u)' \in SUBSET Adder  BY DEF Told
      <4> QED  BY <1>7, <4>1, AdderCounts DEF m
    <3> QED  BY <1>1, <3>1
  <2>3. (m - 2) * Growth \in Nat /\ (m - 1) * Growth = (m - 2) * Growth + Growth
    <3>1. m - 2 \in Nat  BY <1>1, <2>2
    <3> QED  BY <1>1, <1>4, <3>1
  <2>4. live' <= live + adder[h].adding  BY DEF live
  <2>5. live' + adder[j].adding + (m - 2) * Growth <= cap
    <3>1. CASE k = h  BY <1>1, <1>2, <1>3, <2>1, <2>3, <2>4, <3>1
    <3>2. CASE k # h  BY <1>1, <1>2, <1>3, <2>1, <2>3, <2>4, <3>2
    <3> QED  BY <3>1, <3>2
  <2>6. live' <= cap  BY <1>1, <1>2, <2>1, <2>3, <2>5
  <2>7. m' - 1 = m - 2 /\ adder'[j] = adder[j] /\ j \in Told(u)'  BY <1>1, <2>1
  <2>8. live' + adder'[j].adding + (m' - 1) * Growth <= cap'  BY <1>1, <2>5, <2>7
  <2> QED  BY <1>1, <2>6, <2>7, <2>8 DEF PlanRoom, live, m, cap
<1> QED  BY <1>6, <1>7

(***************************************************************************)
(* What each step does to the types and to what requests have read.        *)
(***************************************************************************)
LEMMA AddRequests ==
  ASSUME PlanTypeOK, NEW h \in Adder, adder[h].step # "idle"
  PROVE  adder[h] \in AddRequest
  BY DEF PlanTypeOK, AtEase

LEMMA ToldAfter ==
  ASSUME PlanTypeOK, NEW h \in Adder, NEW r, adder' = [adder EXCEPT ![h] = r],
         NEW u \in Payer
  PROVE  /\ \A k \in Adder \ {h} : adder'[k] = adder[k]
         /\ r.step = "add" /\ r.payer = u => Told(u)' = Told(u) \cup {h}
         /\ r.step # "add" \/ r.payer # u => Told(u)' = Told(u) \ {h}
<1>1. /\ \A k \in Adder \ {h} : adder'[k] = adder[k]
      /\ adder'[h] = r
  BY DEF PlanTypeOK
<1> QED  BY <1>1 DEF Told

(* A step that sets one request and leaves the rest. *)
LEMMA NowTyped ==
  ASSUME PlanTypeOK, PlanRead, NEW h \in Adder, NEW r \in AddRequest \cup {AtEase}, NowAt(h, r),
         UNCHANGED <<within, owner, unasked>>,
         r.step \in {"count", "add"} =>
            r.max \in had[r.payer] /\ (r.step = "count" => r.max # Infinite)
  PROVE  PlanTypeOK' /\ PlanRead'
<1>1. /\ UNCHANGED <<within, owner, unasked, limit, moves, had>>
      /\ adder' = [adder EXCEPT ![h] = r]
  BY DEF NowAt
<1>2. adder' \in [Adder -> AddRequest \cup {AtEase}]  BY <1>1 DEF PlanTypeOK
<1>3. PlanTypeOK'  BY <1>1, <1>2 DEF PlanTypeOK
<1>4. PlanRead'  BY <1>1 DEF PlanRead, PlanTypeOK
<1> QED  BY <1>3, <1>4

LEMMA AskToAddTyped ==
  ASSUME PlanTypeOK, PlanRead, NEW h \in Adder, AskToAdd(h)
  PROVE  /\ PlanTypeOK' /\ PlanRead'
         /\ \E r : adder' = [adder EXCEPT ![h] = r] /\ r.step = "plan"
<1>1. PICK p \in Project, n \in 1..Growth :
        /\ owner[p] # Nobody
        /\ NowAt(h, [AtEase EXCEPT !.step = "plan", !.project = p, !.adding = n,
                                  !.payer = owner[p]])
  BY DEF AskToAdd
<1> DEFINE r == [AtEase EXCEPT !.step = "plan", !.project = p, !.adding = n,
                               !.payer = owner[p]]
<1>2. r \in AddRequest /\ r.step = "plan"
  <2>1. owner[p] \in Payer  BY <1>1 DEF PlanTypeOK
  <2> QED  BY <2>1 DEF AddRequest, AtEase
<1>3. NowAt(h, r)  BY <1>1
<1> HIDE DEF r
<1>4. PlanTypeOK' /\ PlanRead'  BY <1>2, <1>3, NowTyped DEF AskToAdd
<1> QED  BY <1>2, <1>3, <1>4 DEF NowAt

LEMMA FindPlanTyped ==
  ASSUME PlanTypeOK, PlanRead, NEW h \in Adder, FindPlan(h)
  PROVE  /\ PlanTypeOK' /\ PlanRead'
         /\ \E r : /\ adder' = [adder EXCEPT ![h] = r]
                   /\ r.step = "add" => Infinite \in had[r.payer]
<1> DEFINE q == adder[h]
           u == q.payer
           r == [q EXCEPT !.step = IF limit[u] = Infinite THEN "add" ELSE "count",
                          !.max = limit[u]]
<1>1. q \in AddRequest  BY AddRequests DEF FindPlan
<1>2. NowAt(h, r)  BY DEF FindPlan
<1>3. u \in Payer  BY <1>1 DEF AddRequest
<1>4. limit[u] \in Limit /\ limit[u] \in had[u]  BY <1>3 DEF PlanTypeOK, PlanRead
<1>5. /\ r \in AddRequest /\ r.payer = u /\ r.max = limit[u]
      /\ r.step = IF limit[u] = Infinite THEN "add" ELSE "count"
  BY <1>1, <1>3, <1>4 DEF AddRequest
<1> HIDE DEF r, u
<1>6. PlanTypeOK' /\ PlanRead'  BY <1>2, <1>4, <1>5, NowTyped DEF FindPlan
<1> QED  BY <1>2, <1>4, <1>5, <1>6 DEF NowAt

LEMMA CountFilesTyped ==
  ASSUME PlanTypeOK, PlanRead, NEW h \in Adder, CountFiles(h)
  PROVE  /\ PlanTypeOK' /\ PlanRead'
         /\ adder[h] \in AddRequest /\ adder[h].payer \in Payer
         /\ adder[h].max \in had[adder[h].payer]
         /\ \E r : /\ adder' = [adder EXCEPT ![h] = r]
                   /\ r.step = "add" =>
                        /\ r.payer = adder[h].payer /\ r.adding = adder[h].adding
                        /\ ~(CountOf(adder[h]) + adder[h].adding > adder[h].max)
<1> DEFINE q == adder[h]
<1>1. q \in AddRequest /\ q.step = "count"  BY AddRequests DEF CountFiles
<1>2. q.payer \in Payer /\ q.max \in had[q.payer]  BY <1>1 DEF PlanRead, AddRequest
<1>3. CASE CountOf(q) + q.adding > q.max
  <2>1. NowAt(h, AtEase)  BY <1>3 DEF CountFiles
  <2>2. AtEase.step = "idle"  BY DEF AtEase
  <2>3. PlanTypeOK' /\ PlanRead'  BY <2>1, <2>2, NowTyped DEF CountFiles
  <2> QED  BY <1>1, <1>2, <2>1, <2>2, <2>3 DEF NowAt
<1>4. CASE ~(CountOf(q) + q.adding > q.max)
  <2> DEFINE r == [q EXCEPT !.step = "add"]
  <2>1. NowAt(h, r)  BY <1>4 DEF CountFiles
  <2>2. /\ r \in AddRequest /\ r.payer = q.payer /\ r.max = q.max
        /\ r.step = "add" /\ r.adding = q.adding
    BY <1>1 DEF AddRequest
  <2> HIDE DEF r
  <2>3. PlanTypeOK' /\ PlanRead'  BY <1>2, <2>1, <2>2, NowTyped DEF CountFiles
  <2> QED  BY <1>1, <1>2, <1>4, <2>1, <2>2, <2>3 DEF NowAt
<1> QED  BY <1>3, <1>4

LEMMA FailToAddTyped ==
  ASSUME PlanTypeOK, PlanRead, NEW h \in Adder, FailToAdd(h)
  PROVE  PlanTypeOK' /\ PlanRead'
<1>1. AtEase.step = "idle"  BY DEF AtEase
<1> QED  BY <1>1, NowTyped DEF FailToAdd

LEMMA CommitFilesTyped ==
  ASSUME PlanTypeOK, PlanRead, NEW h \in Adder, CommitFiles(h)
  PROVE  PlanTypeOK' /\ PlanRead'
<1> DEFINE r == adder[h]
           u == owner[r.project]
<1>1. r \in AddRequest  BY AddRequests DEF CommitFiles
<1>2. r.project \in Project /\ r.adding \in Nat  BY <1>1 DEF AddRequest
<1>3. u # Nobody /\ u \in Payer  BY <1>2 DEF CommitFiles, PlanTypeOK
<1>4. PICK new \in SUBSET FilesIn(Nobody) :
        within' = [f \in Stored |-> IF f \in new THEN r.project ELSE within[f]]
  BY DEF CommitFiles
<1>5. /\ unasked' = [unasked EXCEPT ![u] = @ + (IF u = r.payer THEN 0 ELSE r.adding)]
      /\ adder' = [adder EXCEPT ![h] = AtEase]
      /\ UNCHANGED <<owner, limit, moves, had>>
  BY DEF CommitFiles, NowAt
<1> HIDE DEF r, u
<1>6. unasked' \in [Payer -> Nat]
  <2>1. unasked[u] + (IF u = r.payer THEN 0 ELSE r.adding) \in Nat
    BY <1>2, <1>3 DEF PlanTypeOK
  <2> QED  BY <1>5, <2>1 DEF PlanTypeOK
<1>7. /\ within' \in [Stored -> Project \cup {Nobody}]
      /\ \A f \in Stored : within'[f] # Nobody => owner[within'[f]] # Nobody
  BY <1>2, <1>3, <1>4 DEF PlanTypeOK, u
<1>8. adder' \in [Adder -> AddRequest \cup {AtEase}]  BY <1>5 DEF PlanTypeOK
<1>9. PlanTypeOK'  BY <1>5, <1>6, <1>7, <1>8 DEF PlanTypeOK
<1>10. PlanRead'
  <2>1. AtEase.step = "idle"  BY DEF AtEase
  <2> QED  BY <1>5, <2>1 DEF PlanRead, PlanTypeOK
<1> QED  BY <1>9, <1>10

LEMMA AroundTyped ==
  ASSUME PlanTypeOK, PlanRead,
         \/ \E f \in Stored : RemoveFile(f)
         \/ \E p \in Project : DeleteProject(p) \/ \E v \in Payer : TransferOwnership(p, v)
         \/ \E u \in Payer, n \in Limit : ChangePlan(u, n)
  PROVE  PlanTypeOK' /\ PlanRead' /\ UNCHANGED adder
<1>1. CASE \E f \in Stored : RemoveFile(f)
  BY <1>1 DEF RemoveFile, PlanTypeOK, PlanRead
<1>2. ASSUME NEW p \in Project, DeleteProject(p)
      PROVE  PlanTypeOK' /\ PlanRead' /\ UNCHANGED adder
  BY <1>2 DEF DeleteProject, PlanTypeOK, PlanRead
<1>3. ASSUME NEW p \in Project, NEW v \in Payer, TransferOwnership(p, v)
      PROVE  PlanTypeOK' /\ PlanRead' /\ UNCHANGED adder
  <2>1. /\ moves' = moves + 1 /\ moves < MaxMoves
        /\ owner' = [owner EXCEPT ![p] = v]
        /\ unasked' = [unasked EXCEPT ![v] = @ + Cardinality(FilesIn(p))]
        /\ UNCHANGED <<within, limit, adder, had>>
    BY <1>3 DEF TransferOwnership
  <2>2. moves' \in 0..MaxMoves  BY <2>1, PlanAssumption DEF PlanTypeOK
  <2>3. Cardinality(FilesIn(p)) \in Nat
    <3>1. FilesIn(p) \in SUBSET Stored  BY DEF FilesIn
    <3> QED  BY <3>1, StoredCounts
  <2>4. unasked' \in [Payer -> Nat]  BY <2>1, <2>3 DEF PlanTypeOK
  <2>5. /\ owner' \in [Project -> Payer \cup {Nobody}]
        /\ \A f \in Stored : within[f] # Nobody => owner'[within[f]] # Nobody
    BY <2>1, PlanAssumption DEF PlanTypeOK
  <2>6. PlanTypeOK'  BY <2>1, <2>2, <2>4, <2>5 DEF PlanTypeOK
  <2>7. PlanRead'  BY <2>1 DEF PlanRead
  <2> QED  BY <2>1, <2>6, <2>7
<1>4. ASSUME NEW u \in Payer, NEW n \in Limit, ChangePlan(u, n)
      PROVE  PlanTypeOK' /\ PlanRead' /\ UNCHANGED adder
  <2>1. /\ moves' = moves + 1 /\ moves < MaxMoves
        /\ limit' = [limit EXCEPT ![u] = n]
        /\ had' = [had EXCEPT ![u] = @ \cup {n}]
        /\ UNCHANGED <<within, owner, adder, unasked>>
    BY <1>4 DEF ChangePlan
  <2>2. moves' \in 0..MaxMoves  BY <2>1, PlanAssumption DEF PlanTypeOK
  <2>3. limit' \in [Payer -> Limit] /\ had' \in [Payer -> SUBSET Limit]
    BY <2>1 DEF PlanTypeOK
  <2>4. PlanTypeOK'  BY <2>1, <2>2, <2>3 DEF PlanTypeOK
  <2>5. \A v \in Payer : had[v] \subseteq had'[v] /\ limit'[v] \in had'[v]
    BY <2>1 DEF PlanTypeOK, PlanRead
  <2>6. PlanRead'  BY <2>1, <2>5 DEF PlanRead
  <2> QED  BY <2>1, <2>4, <2>6
<1> QED  BY <1>1, <1>2, <1>3, <1>4

(***************************************************************************)
(* What each step does to the room that is left.                           *)
(***************************************************************************)
LEMMA RoomSteady ==
  ASSUME PlanInv, PlanTypeOK', NEW u \in Payer, had[u] \subseteq had'[u],
         Told(u)' = Told(u), \A k \in Told(u) : adder'[k] = adder[k],
         Cardinality(FilesOf(u))' - unasked'[u] <= Cardinality(FilesOf(u)) - unasked[u]
  PROVE  RoomFor(u)'
<1> SUFFICES ASSUME Infinite \notin had'[u]
             PROVE  \E n \in had'[u] : PlanRoom(u, n)'
  BY DEF RoomFor
<1>1. PICK n \in had[u] : PlanRoom(u, n)  BY DEF PlanInv, RoomFor
<1>2. n \in Nat /\ PlanTypeOK  BY PlanAssumption DEF PlanInv, PlanTypeOK
<1>3. PlanRoom(u, n)'  BY <1>1, <1>2, PlanSteady
<1> QED  BY <1>3

LEMMA RoomLanding ==
  ASSUME PlanInv, PlanTypeOK', NEW u \in Payer, had'[u] = had[u],
         NEW h \in Told(u), Told(u)' = Told(u) \ {h},
         \A k \in Told(u) \ {h} : adder'[k] = adder[k],
         unasked'[u] = unasked[u],
         Cardinality(FilesOf(u))' <= Cardinality(FilesOf(u)) + adder[h].adding
  PROVE  RoomFor(u)'
<1> SUFFICES ASSUME Infinite \notin had'[u]
             PROVE  \E n \in had'[u] : PlanRoom(u, n)'
  BY DEF RoomFor
<1>1. PICK n \in had[u] : PlanRoom(u, n)  BY DEF PlanInv, RoomFor
<1>2. n \in Nat /\ PlanTypeOK  BY PlanAssumption DEF PlanInv, PlanTypeOK
<1>3. PlanRoom(u, n)'  BY <1>1, <1>2, PlanLanding
<1> QED  BY <1>3

(* A request that does not become one that was told, in a step that        *)
(* changes no file. *)
LEMMA RoomNotTold ==
  ASSUME PlanInv, PlanTypeOK', NEW u \in Payer, NEW h \in Adder, NEW r,
         adder' = [adder EXCEPT ![h] = r], r.step # "add" \/ r.payer # u,
         UNCHANGED <<within, owner, unasked, had>>
  PROVE  RoomFor(u)'
<1>1. PlanTypeOK  BY DEF PlanInv
<1>2. /\ Told(u)' = Told(u) \ {h}
      /\ \A k \in Adder \ {h} : adder'[k] = adder[k]
  BY <1>1, ToldAfter
<1>3. Cardinality(FilesOf(u))' = Cardinality(FilesOf(u)) /\ Cardinality(FilesOf(u)) \in Nat
  BY <1>1, PlanCounts DEF FilesOf
<1>4. CASE h \in Told(u)
  <2>1. adder[h].adding \in Nat  BY <1>1, <1>4, PlanCounts DEF Told
  <2>2. Cardinality(FilesOf(u))' <= Cardinality(FilesOf(u)) + adder[h].adding
    BY <1>3, <2>1
  <2> QED  BY <1>2, <1>4, <2>2, RoomLanding DEF Told
<1>5. CASE h \notin Told(u)
  <2>1. Told(u)' = Told(u) /\ \A k \in Told(u) : adder'[k] = adder[k]
    BY <1>2, <1>5 DEF Told
  <2>2. Cardinality(FilesOf(u))' - unasked'[u] <= Cardinality(FilesOf(u)) - unasked[u]
    BY <1>1, <1>3 DEF PlanTypeOK
  <2> QED  BY <2>1, <2>2, RoomSteady
<1> QED  BY <1>4, <1>5

(* The plan says that there is room. *)
LEMMA RoomTold ==
  ASSUME PlanInv, PlanTypeOK', NEW h \in Adder, CountFiles(h), NEW r,
         adder' = [adder EXCEPT ![h] = r], r.step = "add",
         r.payer = adder[h].payer, r.adding = adder[h].adding,
         adder[h] \in AddRequest, r.payer \in Payer, adder[h].max \in had[r.payer],
         ~(CountOf(adder[h]) + r.adding > adder[h].max)
  PROVE  RoomFor(r.payer)'
<1> DEFINE u == r.payer
<1>0. PICK n \in had[u] : n = adder[h].max  OBVIOUS
<1> DEFINE live == Cardinality(FilesOf(u))
           c == (Cardinality(Adder) - 1) * Growth
<1>1. PlanTypeOK /\ u \in Payer  BY DEF PlanInv
<1>2. UNCHANGED <<within, owner, unasked, limit, moves, had>>  BY DEF CountFiles, NowAt
<1> SUFFICES ASSUME Infinite \notin had[u]
             PROVE  PlanRoom(u, n)'
  BY <1>2 DEF RoomFor
<1>3. n \in Nat  BY <1>1, PlanAssumption DEF PlanTypeOK
<1>4. live' = live /\ live \in Nat  BY <1>1, <1>2, PlanCounts DEF FilesOf
<1>5. unasked[u] \in Nat  BY <1>1 DEF PlanTypeOK
<1>6. c \in Nat /\ PlanCap(u, n)' = n + c + unasked[u]
  BY <1>1, <1>2, <1>3, PlanCapTyped DEF PlanCap
<1>7. r.adding \in Nat  BY DEF AddRequest
<1>8. live + r.adding <= n
  <2>1. CountOf(adder[h]) = live  BY DEF CountOf
  <2> QED  BY <1>0, <1>3, <1>4, <1>7, <2>1
<1>9. h \in Told(u)' /\ Told(u)' \in SUBSET Adder /\ adder'[h] = r
  BY <1>1, ToldAfter DEF Told, PlanTypeOK
<1>10. (Cardinality(Told(u)') - 1) * Growth <= c
  <2>1. /\ Cardinality(Told(u)') - 1 \in Nat
        /\ Cardinality(Told(u)') <= Cardinality(Adder)
    BY <1>9, AdderCounts
  <2>2. \A a, b \in Nat : a <= b => a * Growth <= b * Growth  BY PlanAssumption
  <2>3. Cardinality(Adder) - 1 \in Nat
        /\ Cardinality(Told(u)') - 1 <= Cardinality(Adder) - 1
    <3>1. Cardinality(Adder) \in Nat /\ Cardinality(Adder) >= 1
      BY <1>1, PlanCounts
    <3>2. Cardinality(Told(u)') \in Nat  BY <1>9, AdderCounts
    <3> QED  BY <2>1, <3>1, <3>2
  <2> QED  BY <2>1, <2>2, <2>3
<1>11. (Cardinality(Told(u)') - 1) * Growth \in Nat
  <2>1. Cardinality(Told(u)') - 1 \in Nat  BY <1>9, AdderCounts
  <2> QED  BY <2>1, Products
<1> DEFINE d == (Cardinality(Told(u)') - 1) * Growth
<1>12. live' <= PlanCap(u, n)' /\ live' + r.adding + d <= PlanCap(u, n)'
  <2> HIDE DEF live, c, d, u
  <2>1. d \in Nat /\ d <= c  BY <1>10, <1>11 DEF d
  <2> QED  BY <1>3, <1>4, <1>5, <1>6, <1>7, <1>8, <2>1
<1> QED  BY <1>9, <1>12 DEF PlanRoom

LEMMA RoomCommitted ==
  ASSUME PlanInv, PlanTypeOK', NEW h \in Adder, CommitFiles(h), NEW u \in Payer
  PROVE  RoomFor(u)'
<1> DEFINE r == adder[h]
           o == owner[r.project]
<1>t. PlanTypeOK  BY DEF PlanInv
<1>1. r \in AddRequest /\ r.adding \in Nat /\ r.project \in Project /\ r.step = "add"
  <2>1. r \in AddRequest  BY <1>t, AddRequests DEF CommitFiles
  <2> QED  BY <2>1 DEF AddRequest, CommitFiles
<1>2. PICK new \in SUBSET FilesIn(Nobody) :
        /\ Cardinality(new) = r.adding
        /\ within' = [f \in Stored |-> IF f \in new THEN r.project ELSE within[f]]
  BY DEF CommitFiles
<1>3. /\ unasked' = [unasked EXCEPT ![o] = @ + (IF o = r.payer THEN 0 ELSE r.adding)]
      /\ adder' = [adder EXCEPT ![h] = AtEase]
      /\ UNCHANGED <<owner, had>>
      /\ o # Nobody
  BY DEF CommitFiles, NowAt
<1>4. AtEase.step = "idle"  BY DEF AtEase
<1>5. /\ Told(u)' = Told(u) \ {h}
      /\ \A k \in Adder \ {h} : adder'[k] = adder[k]
  BY <1>t, <1>3, <1>4, ToldAfter
<1>6. h \in Told(u) <=> u = r.payer  BY <1>1 DEF Told
<1>7. new \in SUBSET Stored /\ FilesOf(u) \in SUBSET Stored /\ FilesOf(u)' \in SUBSET Stored
  BY DEF FilesIn, FilesOf
<1>8. o \in Payer /\ unasked \in [Payer -> Nat]  BY <1>1, <1>3, <1>t DEF PlanTypeOK
<1>9. Cardinality(FilesOf(u))' <= Cardinality(FilesOf(u)) + (IF u = o THEN r.adding ELSE 0)
  <2>1. CASE u = o
    <3>1. FilesOf(u)' \subseteq FilesOf(u) \cup new  BY <1>2, <1>3 DEF FilesOf
    <3>2. IsFiniteSet(new) /\ IsFiniteSet(FilesOf(u))  BY <1>7, StoredCounts
    <3>3. Cardinality(FilesOf(u) \cup new)
            = Cardinality(FilesOf(u)) + Cardinality(new) - Cardinality(FilesOf(u) \cap new)
          /\ IsFiniteSet(FilesOf(u) \cup new)
      BY <3>2, FS_Union
    <3>4. Cardinality(FilesOf(u)') <= Cardinality(FilesOf(u) \cup new)
      BY <3>1, <3>3, FS_Subset
    <3>5. /\ Cardinality(FilesOf(u) \cap new) \in Nat /\ Cardinality(FilesOf(u)) \in Nat
          /\ Cardinality(FilesOf(u)') \in Nat /\ Cardinality(new) \in Nat
      <4>1. FilesOf(u) \cap new \in SUBSET Stored  BY <1>7
      <4> QED  BY <4>1, <1>7, StoredCounts
    <3> QED  BY <1>2, <2>1, <3>3, <3>4, <3>5
  <2>2. CASE u # o
    <3>1. FilesOf(u)' \subseteq FilesOf(u)  BY <1>2, <1>3, <2>2 DEF FilesOf
    <3>2. Cardinality(FilesOf(u)') <= Cardinality(FilesOf(u))
      BY <1>7, <3>1, StoredCounts, FS_Subset
    <3> QED  BY <1>7, <2>2, <3>2, StoredCounts
  <2> QED  BY <2>1, <2>2
<1> DEFINE live == Cardinality(FilesOf(u))
<1>10. live \in Nat /\ live' \in Nat  BY <1>7, StoredCounts
<1> HIDE DEF r, o, live
<1>11. CASE u = r.payer
  <2>1. unasked'[u] = unasked[u]  BY <1>3, <1>8, <1>11
  <2>2. live' <= live + r.adding  BY <1>1, <1>9, <1>10 DEF live
  <2> QED  BY <1>3, <1>5, <1>6, <1>11, <2>1, <2>2, RoomLanding DEF Told, r, live
<1>12. CASE u # r.payer
  <2>1. Told(u)' = Told(u) /\ \A k \in Told(u) : adder'[k] = adder[k]
    BY <1>5, <1>6, <1>12 DEF Told
  <2>2. unasked'[u] = unasked[u] + (IF u = o THEN r.adding ELSE 0)
    BY <1>3, <1>8, <1>12
  <2>3. unasked[u] \in Nat  BY <1>8
  <2>4. live' - unasked'[u] <= live - unasked[u]
    BY <1>1, <1>9, <1>10, <2>2, <2>3 DEF live
  <2> QED  BY <1>3, <2>1, <2>4, RoomSteady DEF live
<1> QED  BY <1>11, <1>12

LEMMA RoomAround ==
  ASSUME PlanInv, PlanTypeOK', NEW u \in Payer, UNCHANGED adder,
         \/ \E f \in Stored : RemoveFile(f)
         \/ \E p \in Project : DeleteProject(p) \/ \E v \in Payer : TransferOwnership(p, v)
         \/ \E v \in Payer, n \in Limit : ChangePlan(v, n)
  PROVE  RoomFor(u)'
<1> DEFINE live == Cardinality(FilesOf(u))
<1>t. PlanTypeOK  BY DEF PlanInv
<1>1. Told(u)' = Told(u) /\ \A k \in Told(u) : adder'[k] = adder[k]  BY DEF Told
<1>2. FilesOf(u) \in SUBSET Stored /\ FilesOf(u)' \in SUBSET Stored  BY DEF FilesOf
<1>3. live \in Nat /\ live' \in Nat  BY <1>2, StoredCounts
<1>4. FilesOf(u)' \subseteq FilesOf(u) => live' <= live
  BY <1>2, StoredCounts, FS_Subset
<1>5. unasked[u] \in Nat /\ unasked'[u] \in Nat  BY <1>t DEF PlanTypeOK
<1>6. CASE \/ \E f \in Stored : RemoveFile(f)
           \/ \E p \in Project : DeleteProject(p)
  <2>1. FilesOf(u)' \subseteq FilesOf(u) /\ UNCHANGED <<had, unasked>>
    BY <1>6, <1>t, PlanAssumption DEF RemoveFile, DeleteProject, FilesOf, PlanTypeOK
  <2> HIDE DEF live
  <2>2. live' - unasked'[u] <= live - unasked[u]  BY <1>3, <1>4, <1>5, <2>1
  <2> QED  BY <1>1, <2>1, <2>2, RoomSteady DEF live
<1>7. ASSUME NEW p \in Project, NEW v \in Payer, TransferOwnership(p, v)
      PROVE  RoomFor(u)'
  <2>1. /\ owner' = [owner EXCEPT ![p] = v]
        /\ unasked' = [unasked EXCEPT ![v] = @ + Cardinality(FilesIn(p))]
        /\ UNCHANGED <<within, had>>
    BY <1>7 DEF TransferOwnership
  <2>2. CASE u = v
    <3>1. FilesOf(u)' \subseteq FilesOf(u) \cup FilesIn(p)
      BY <1>t, <2>1 DEF FilesOf, FilesIn, PlanTypeOK
    <3>2. FilesIn(p) \in SUBSET Stored  BY DEF FilesIn
    <3>3. IsFiniteSet(FilesIn(p)) /\ IsFiniteSet(FilesOf(u))  BY <1>2, <3>2, StoredCounts
    <3>4. /\ IsFiniteSet(FilesOf(u) \cup FilesIn(p))
          /\ Cardinality(FilesOf(u) \cup FilesIn(p))
            = live + Cardinality(FilesIn(p)) - Cardinality(FilesOf(u) \cap FilesIn(p))
      BY <3>3, FS_Union
    <3>5. live' <= Cardinality(FilesOf(u) \cup FilesIn(p))
      BY <3>1, <3>4, FS_Subset
    <3>6. Cardinality(FilesOf(u) \cap FilesIn(p)) \in Nat /\ Cardinality(FilesIn(p)) \in Nat
      <4>1. FilesOf(u) \cap FilesIn(p) \in SUBSET Stored  BY <3>2
      <4> QED  BY <4>1, <3>2, StoredCounts
    <3>7. unasked'[u] = unasked[u] + Cardinality(FilesIn(p))
      BY <1>t, <2>1, <2>2 DEF PlanTypeOK
    <3> HIDE DEF live
    <3>8. live' - unasked'[u] <= live - unasked[u]
      BY <1>3, <1>5, <3>4, <3>5, <3>6, <3>7
    <3> QED  BY <1>1, <2>1, <3>8, RoomSteady DEF live
  <2>3. CASE u # v
    <3>1. FilesOf(u)' \subseteq FilesOf(u)
      BY <1>t, <2>1, <2>3 DEF FilesOf, PlanTypeOK
    <3>2. unasked'[u] = unasked[u]  BY <1>t, <2>1, <2>3 DEF PlanTypeOK
    <3> HIDE DEF live
    <3>3. live' - unasked'[u] <= live - unasked[u]  BY <1>3, <1>4, <1>5, <3>1, <3>2
    <3> QED  BY <1>1, <2>1, <3>3, RoomSteady DEF live
  <2> QED  BY <2>2, <2>3
<1>8. ASSUME NEW v \in Payer, NEW n \in Limit, ChangePlan(v, n)
      PROVE  RoomFor(u)'
  <2>1. had[u] \subseteq had'[u] /\ UNCHANGED <<within, owner, unasked>>
    BY <1>8, <1>t DEF ChangePlan, PlanTypeOK
  <2>2. live' = live  BY <2>1 DEF FilesOf
  <2>3. live' - unasked'[u] <= live - unasked[u]
    <3> HIDE DEF live
    <3> QED  BY <1>3, <1>5, <2>1, <2>2
  <2> QED  BY <1>1, <2>1, <2>3, RoomSteady
<1> QED  BY <1>6, <1>7, <1>8

LEMMA PlanStep == PlanInv /\ [PlanNext]_planVars => PlanInv'
<1> SUFFICES ASSUME PlanInv, [PlanNext]_planVars  PROVE PlanInv'
  OBVIOUS
<1>t. PlanTypeOK /\ PlanRead  BY DEF PlanInv
<1>1. ASSUME NEW h \in Adder, AskToAdd(h)  PROVE PlanInv'
  BY <1>t, <1>1, AskToAddTyped, RoomNotTold DEF PlanInv, AskToAdd, NowAt
<1>2. ASSUME NEW h \in Adder, FindPlan(h)  PROVE PlanInv'
  <2>1. PlanTypeOK' /\ PlanRead' /\ UNCHANGED <<within, owner, unasked, had>>
    BY <1>t, <1>2, FindPlanTyped DEF FindPlan, NowAt
  <2>2. PICK r : /\ adder' = [adder EXCEPT ![h] = r]
                 /\ r.step = "add" => Infinite \in had[r.payer]
    BY <1>t, <1>2, FindPlanTyped
  <2>3. ASSUME NEW u \in Payer  PROVE RoomFor(u)'
    <3>1. CASE r.step = "add" /\ r.payer = u  BY <2>1, <2>2, <3>1 DEF RoomFor
    <3>2. CASE r.step # "add" \/ r.payer # u  BY <2>1, <2>2, <3>2, RoomNotTold
    <3> QED  BY <3>1, <3>2
  <2> QED  BY <2>1, <2>3 DEF PlanInv
<1>3. ASSUME NEW h \in Adder, CountFiles(h)  PROVE PlanInv'
  <2>1. PlanTypeOK' /\ PlanRead' /\ UNCHANGED <<within, owner, unasked, had>>
    BY <1>t, <1>3, CountFilesTyped DEF CountFiles, NowAt
  <2>2. /\ adder[h] \in AddRequest /\ adder[h].payer \in Payer
        /\ adder[h].max \in had[adder[h].payer]
    BY <1>t, <1>3, CountFilesTyped
  <2>3. PICK r : /\ adder' = [adder EXCEPT ![h] = r]
                 /\ r.step = "add" =>
                      /\ r.payer = adder[h].payer /\ r.adding = adder[h].adding
                      /\ ~(CountOf(adder[h]) + adder[h].adding > adder[h].max)
    BY <1>t, <1>3, CountFilesTyped
  <2>4. ASSUME NEW u \in Payer  PROVE RoomFor(u)'
    <3>1. CASE r.step = "add" /\ r.payer = u
      BY <1>3, <2>1, <2>2, <2>3, <3>1, RoomTold
    <3>2. CASE r.step # "add" \/ r.payer # u  BY <2>1, <2>3, <3>2, RoomNotTold
    <3> QED  BY <3>1, <3>2
  <2> QED  BY <2>1, <2>4 DEF PlanInv
<1>4. ASSUME NEW h \in Adder, CommitFiles(h)  PROVE PlanInv'
  BY <1>t, <1>4, CommitFilesTyped, RoomCommitted DEF PlanInv
<1>5. ASSUME NEW h \in Adder, FailToAdd(h)  PROVE PlanInv'
  <2>1. PlanTypeOK' /\ PlanRead'  BY <1>t, <1>5, FailToAddTyped
  <2>2. /\ adder' = [adder EXCEPT ![h] = AtEase] /\ AtEase.step # "add"
        /\ UNCHANGED <<within, owner, unasked, had>>
    BY <1>5 DEF FailToAdd, NowAt, AtEase
  <2>3. \A u \in Payer : RoomFor(u)'  BY <2>1, <2>2, RoomNotTold
  <2> QED  BY <2>1, <2>3 DEF PlanInv
<1>6. CASE \/ \E f \in Stored : RemoveFile(f)
           \/ \E p \in Project : DeleteProject(p) \/ \E v \in Payer : TransferOwnership(p, v)
           \/ \E u \in Payer, n \in Limit : ChangePlan(u, n)
  <2>1. PlanTypeOK' /\ PlanRead' /\ UNCHANGED adder  BY <1>t, <1>6, AroundTyped
  <2>2. \A u \in Payer : RoomFor(u)'  BY <1>6, <2>1, RoomAround
  <2> QED  BY <2>1, <2>2 DEF PlanInv
<1>7. CASE UNCHANGED planVars
  <2>1. PlanTypeOK' /\ PlanRead'  BY <1>t, <1>7 DEF planVars, PlanTypeOK, PlanRead
  <2>2. \A u \in Payer : RoomFor(u)'
    BY <1>7 DEF planVars, PlanInv, RoomFor, PlanRoom, PlanCap, Told, FilesOf
  <2> QED  BY <2>1, <2>2 DEF PlanInv
<1> QED  BY <1>1, <1>2, <1>3, <1>4, <1>5, <1>6, <1>7 DEF PlanNext

LEMMA PlanStart == PlanInit => PlanInv
<1> SUFFICES ASSUME PlanInit  PROVE PlanInv
  OBVIOUS
<1>1. AtEase.step = "idle"  BY DEF AtEase
<1>2. PlanTypeOK
  BY PlanAssumption DEF PlanInit, PlanTypeOK
<1>3. PlanRead  BY <1>1 DEF PlanInit, PlanRead
<1>4. ASSUME NEW u \in Payer, Infinite \notin had[u]
      PROVE  \E n \in had[u] : PlanRoom(u, n)
  <2>1. limit[u] \in had[u] /\ limit[u] \in Nat
    BY <1>4, PlanAssumption DEF PlanInit
  <2>2. FilesOf(u) = {} /\ Told(u) = {}  BY <1>1 DEF PlanInit, FilesOf, Told
  <2>3. Cardinality(FilesOf(u)) = 0  BY <2>2, FS_EmptySet
  <2>4. PlanCap(u, limit[u]) \in Nat  BY <1>2, <2>1, PlanCapTyped
  <2>5. PlanRoom(u, limit[u])  BY <2>2, <2>3, <2>4 DEF PlanRoom
  <2> QED  BY <2>1, <2>5
<1> QED  BY <1>2, <1>3, <1>4 DEF PlanInv, RoomFor

LEMMA PlanAlways == PlanSpec => []PlanInv
  BY PlanStart, PlanStep, PTL DEF PlanSpec

(* Files, owners, plans and requests keep their types. *)
THEOREM PlanTypeCorrect == PlanSpec => []PlanTypeOK
<1>1. PlanInv => PlanTypeOK  BY DEF PlanInv
<1> QED  BY <1>1, PlanAlways, PTL

(* For any people, projects, plans and number of requests at once: the     *)
(* files of all the projects that a person owns pass the limit that        *)
(* plan-enforcement.service.ts checked only by what the other requests may *)
(* add meanwhile, and by what came without that person's plan being asked. *)
THEOREM OvershootIsBounded == PlanSpec => []OvershootBounded
<1>1. PlanInv => OvershootBounded
  BY DEF PlanInv, RoomFor, PlanRoom, PlanCap, OvershootBounded
<1> QED  BY <1>1, PlanAlways, PTL

-----------------------------------------------------------------------------
(* All the services. *)

(* Every service behaves as it does alone, so that what is proved of each  *)
(* of them holds of them together: a step of one leaves the others as they *)
(* are.                                                                    *)
THEOREM ServicesApart ==
  ServicesSpec => AuthSpec /\ LinkSpec /\ CiSpec /\ LimitSpec /\ BillSpec /\ PlanSpec
<1>1. ServicesInit => AuthInit /\ LinkInit /\ CiInit /\ LimitInit /\ BillInit /\ PlanInit
  BY DEF ServicesInit
<1>2. [ServicesNext]_servicesVars =>
        /\ [AuthNext]_authVars
        /\ [LinkNext]_linkVars
        /\ [CiNext]_ciVars
        /\ [LimitNext]_limitVars
        /\ [BillNext]_billVars
        /\ [PlanNext]_planVars
  BY DEF ServicesNext, AuthRuns, LinksRun, CiRuns, LimiterRuns, BillingRuns, PlansRun,
         servicesVars
<1> QED
  BY <1>1, <1>2, PTL
     DEF ServicesSpec, AuthSpec, LinkSpec, CiSpec, LimitSpec, BillSpec, PlanSpec

(* The rows of all six services keep their types, their unique indexes and *)
(* their bounds, whichever of them runs.                                   *)
THEOREM ServicesTyped == ServicesSpec => []ServicesTypeOK
<1>1. AuthTypeOK /\ LinkTypeOK /\ CiTypeOK /\ LimitTypeOK /\ BillTypeOK /\ PlanTypeOK
        => ServicesTypeOK
  BY DEF ServicesTypeOK
<1> QED
  BY <1>1, ServicesApart, AuthTypeCorrect, LinkTypeCorrect, CiTypeCorrect, LimitTypeCorrect,
     BillTypeCorrect, PlanTypeCorrect, PTL
=============================================================================
