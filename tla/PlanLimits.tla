----------------------------- MODULE PlanLimits -----------------------------
(***************************************************************************)
(* The limit of a plan on files, as plan-enforcement.service.ts keeps it:  *)
(* the plan of a project's owner pays for the files of every project that  *)
(* person owns.  Whoever adds files asks for the owner and the plan, then  *)
(* for the count, and adds them after that, in steps of its own; meanwhile *)
(* other requests add files, projects are handed over or deleted, and      *)
(* plans change.  A project is one from the start; one that is deleted     *)
(* does not come back.                                                     *)
(***************************************************************************)
EXTENDS Integers, FiniteSets

CONSTANTS
    Payer,      \* people with a plan, who own projects
    Project,
    Stored,     \* identifiers of files
    Adder,      \* requests that may add files at once
    Growth,     \* the most that one request may add, beyond what it deletes
    Limit,      \* the limits that plans have
    Infinite,   \* INFINITE_LIMIT
    Nobody,     \* the owner of a project that is gone
    MaxMoves    \* bound: handovers of projects and changes of plan

ASSUME PlanAssumption ==
    /\ IsFiniteSet(Stored)
    /\ IsFiniteSet(Adder) /\ Adder # {}
    /\ Growth \in Nat
    /\ Limit \subseteq Nat \cup {Infinite} /\ Infinite \notin Nat
    /\ Nobody \notin Payer \cup Project
    /\ MaxMoves \in Nat

VARIABLES
    within,     \* repo_files: the project of each, Nobody if there is no such file
    owner,      \* project_members with the role OWNER
    limit,      \* the limit that each person's plan has
    adder,      \* what each request is doing
    moves,      \* bound: handovers and changes of plan so far
    had,        \* history: the limits that each person's plan has had
    unasked     \* history: files that came to each person's projects
                \* without their plan being asked

planVars == <<within, owner, limit, adder, moves, had, unasked>>

AtEase == [step |-> "idle", project |-> Nobody, adding |-> 0, payer |-> Nobody,
           max |-> 0]

FilesIn(p) == {f \in Stored : within[f] = p}

(* Where the count is of: ownedBy(u). *)
FilesOf(u) == {f \in Stored : within[f] # Nobody /\ owner[within[f]] = u}

PlanInit ==
    /\ within = [f \in Stored |-> Nobody]
    /\ owner \in [Project -> Payer]
    /\ limit \in [Payer -> Limit]
    /\ adder = [h \in Adder |-> AtEase]
    /\ moves = 0
    /\ had = [u \in Payer |-> {limit[u]}]
    /\ unasked = [u \in Payer |-> 0]

NowAt(h, r) ==
    /\ adder' = [adder EXCEPT ![h] = r]
    /\ UNCHANGED <<limit, moves, had>>

(* applyChanges: a body that creates more than it deletes is asked for;    *)
(* enforceForProject reads the owner first.                                *)
AskToAdd(h) ==
    /\ adder[h] = AtEase
    /\ \E p \in Project, n \in 1..Growth :
         /\ owner[p] # Nobody
         /\ NowAt(h, [AtEase EXCEPT !.step = "plan", !.project = p, !.adding = n,
                                   !.payer = owner[p]])
    /\ UNCHANGED <<within, owner, unasked>>

(* The plan of that owner; one without limit is not counted against. *)
FindPlan(h) ==
    LET r == adder[h]
        max == limit[r.payer] IN
    /\ r.step = "plan"
    /\ NowAt(h, [r EXCEPT !.step = IF max = Infinite THEN "add" ELSE "count",
                          !.max = max])
    /\ UNCHANGED <<within, owner, unasked>>

(* Mutation: the files of the project alone. *)
CountInProject(r) == Cardinality(FilesIn(r.project))

CountOf(r) == Cardinality(FilesOf(r.payer))

CountFiles(h) ==
    LET r == adder[h] IN
    /\ r.step = "count"
    /\ NowAt(h, IF CountOf(r) + r.adding > r.max
                THEN AtEase ELSE [r EXCEPT !.step = "add"])
    /\ UNCHANGED <<within, owner, unasked>>

(* The transaction commits.  Its plan was asked if the owner is still the  *)
(* one that was found.                                                     *)
CommitFiles(h) ==
    LET r == adder[h]
        o == owner[r.project] IN
    /\ r.step = "add"
    /\ o # Nobody
    /\ \E new \in SUBSET FilesIn(Nobody) :
         /\ Cardinality(new) = r.adding
         /\ within' = [f \in Stored |-> IF f \in new THEN r.project ELSE within[f]]
    /\ unasked' = [unasked EXCEPT ![o] = @ + (IF o = r.payer THEN 0 ELSE r.adding)]
    /\ NowAt(h, AtEase)
    /\ UNCHANGED owner

(* A conflict, a project that is gone, a crash. *)
FailToAdd(h) ==
    /\ adder[h] # AtEase
    /\ NowAt(h, AtEase)
    /\ UNCHANGED <<within, owner, unasked>>

(* A body that deletes more than it creates asks nobody. *)
RemoveFile(f) ==
    /\ within[f] # Nobody
    /\ within' = [within EXCEPT ![f] = Nobody]
    /\ UNCHANGED <<owner, limit, adder, moves, had, unasked>>

DeleteProject(p) ==
    /\ owner[p] # Nobody
    /\ owner' = [owner EXCEPT ![p] = Nobody]
    /\ within' = [f \in Stored |-> IF within[f] = p THEN Nobody ELSE within[f]]
    /\ UNCHANGED <<limit, adder, moves, had, unasked>>

(* MemberService.transferOwnership asks the new owner's plan for a project, *)
(* not for the files in it.                                                *)
TransferOwnership(p, v) ==
    /\ moves < MaxMoves
    /\ moves' = moves + 1
    /\ owner[p] \notin {Nobody, v}
    /\ owner' = [owner EXCEPT ![p] = v]
    /\ unasked' = [unasked EXCEPT ![v] = @ + Cardinality(FilesIn(p))]
    /\ UNCHANGED <<within, limit, adder, had>>

(* A subscription is bought, changed or over: no file goes for it. *)
ChangePlan(u, n) ==
    /\ moves < MaxMoves
    /\ moves' = moves + 1
    /\ limit[u] # n
    /\ limit' = [limit EXCEPT ![u] = n]
    /\ had' = [had EXCEPT ![u] = @ \cup {n}]
    /\ UNCHANGED <<within, owner, adder, unasked>>

PlanNext ==
    \/ \E h \in Adder : \/ AskToAdd(h) \/ FindPlan(h) \/ CountFiles(h)
                        \/ CommitFiles(h) \/ FailToAdd(h)
    \/ \E f \in Stored : RemoveFile(f)
    \/ \E p \in Project : DeleteProject(p) \/ \E v \in Payer : TransferOwnership(p, v)
    \/ \E u \in Payer, n \in Limit : ChangePlan(u, n)

PlanSpec == PlanInit /\ [][PlanNext]_planVars

(***************************************************************************)
(* Properties.                                                             *)
(***************************************************************************)
AddRequest ==
    [step : {"plan", "count", "add"}, project : Project, adding : 1..Growth,
     payer : Payer, max : Limit \cup {0}]

PlanTypeOK ==
    /\ within \in [Stored -> Project \cup {Nobody}]
    /\ owner \in [Project -> Payer \cup {Nobody}]
    /\ limit \in [Payer -> Limit]
    /\ adder \in [Adder -> AddRequest \cup {AtEase}]
    /\ moves \in 0..MaxMoves
    /\ had \in [Payer -> SUBSET Limit]
    /\ unasked \in [Payer -> Nat]
    /\ \A f \in Stored : within[f] # Nobody => owner[within[f]] # Nobody

(* The files that a person's plan pays for, in all of their projects, may   *)
(* pass the limit, which is checked some steps before they are added, but  *)
(* only by what the other requests had under way at the same time, and by  *)
(* what came without that plan being asked: with a project that was handed *)
(* over, or by a request that had asked the owner before.  A plan that was *)
(* lowered leaves the files that an earlier limit let in.                  *)
OvershootBounded ==
    \A u \in Payer : Infinite \notin had[u] =>
        \E n \in had[u] :
            Cardinality(FilesOf(u)) <= n + (Cardinality(Adder) - 1) * Growth + unasked[u]
=============================================================================
