# DepVault in TLA+

DepVault keeps the environment and secret files of repositories in an
end-to-end encrypted vault. Clients (a web app and a CLI) encrypt files with a
project key; the backend (TypeScript on Bun, Prisma over PostgreSQL) stores
ciphertext, versions and audit entries; the CLI keeps a checkout in step with
its project. This directory holds the specifications of the parts where the
order of events matters, the configurations that model-check them and the
proofs of what holds for every size of the system.

Paths below are relative to the repository root, `src/` in `PROJECT.json`.

## 1. Inventory

| Part | Keeps | Operations | What is hard | What makes it correct |
|---|---|---|---|---|
| **Repo files** (`apps/backend/src/modules/repo-file`) | `repo_files` (path, version, blob), `repo_file_versions` | a batch of creates, updates, moves and deletes, each with the version it was based on | several requests at once under read committed; rows read first and written later; failure in the middle of a batch; lock cycles | a batch takes effect in one step or not at all, only on current versions; history complete; no lost update; every request answered |
| **Plan limits** (`modules/subscription/plan-enforcement.service.ts`) | subscriptions, counts of rows in all projects that a person owns | find the payer, read the plan, count, compare, then create | owner, plan and count are read before the creating transaction, while others add files, hand projects over and change plans | limit respected, or overshot by a known amount |
| **Audit log** (`modules/audit-log`) | `audit_logs` | append after a change | failure after the commit is swallowed | every change recorded |
| **CLI sync** (`apps/cli/Services/Sync`, `Commands`) | a base per checkout (id, path, version, hash), local files, `.depvault.json` | status, push, pull, purge, untrack | plan made from a listing, a base and hashes of different moments, acted on later; teammates; lost answers; crashes; partial pushes; local edits at any time | never loses local or others' work silently; base true; status truthful |
| **Vaults and key grants** (`modules/vault`, `apps/frontend/src/lib/crypto`) | key pair and recovery key per user, wrapped project keys (SELF, ECDH, RECOVERY) | set up, change password, recover, regenerate, store own, share | two devices of one user, re-key racing a new grant, removal racing a share | one key per project; who holds a grant can open it; who left holds none |
| **Membership** (`modules/project`, `modules/invitation`) | members with roles, invitations | invite, accept, decline, cancel, change role, remove, transfer | checks and updates in separate statements | exactly one owner; an invitation is used once |
| **Auth sessions** (`modules/auth`, `apps/cli/Auth`, `apps/frontend/src/api`) | session rows with a token hash, device codes, credentials file | login, refresh, logout, reset, device flow | refresh rotation with lost answers, two processes, replay detection; a password that changes under a sign-in | a client alone is never taken for a thief; an ended session stays ended; a new password signs everybody out; a code gives one session |
| **Share links** (`modules/share-link`) | one-time links | create, access, revoke, expire | concurrent readers | at most one reader |
| **CI tokens** (`modules/ci-token`) | hashed tokens with path globs | create, validate, fetch, revoke | listing and fetch at different moments | only allowed paths are sent |
| **Subscriptions** (`modules/subscription`) | a subscription per user | Stripe webhooks | duplicated and reordered events; events and requests at once | once all events are handled in order the plan is what Stripe says |
| **Secret scans** (`modules/secret-scan`, `jobs`) | scans, detections | start, run, fail, abandon, triage | restarts, slow scans declared stale that go on beside the next one | one active scan per project, the slot is freed, nothing found is lost, the owner told once |
| **Rate limiter** (`common/middleware`) | counters in memory | hit, purge | window boundary | bounded rate |
| Analysis, license rules, notifications, users, GitHub, cryptography, web views | - | parsing, lookups, single-row writes, views | - | not a protocol; see section 7 |

**Interaction.** The CLI and the web app call the backend over HTTP; all state
they share is in PostgreSQL, and there is no push from the server to a client.
A change request passes validation, the plan check (subscription of the
project's owner), the transaction of the repository, and the audit log, in
this order, with an `await` at each. The CLI plans from one listing, may ask
the user, and sends change requests or writes local files afterwards.

The hazards of each part, with the line where they bite and the property that
would catch them, are listed in `PROJECT.json`.

## 2. Modules

| Module | Stands for | Extends |
|---|---|---|
| `RepoBatch` | rows, snapshots and changes; validation; what one change does to one row | - |
| `FileStore` | what `POST /projects/:id/files/changes` promises (abstract) | `RepoBatch` |
| `RepoFiles` | how the backend carries a request out, statement by statement | `RepoBatch`, `INSTANCE FileStore` |
| `RepoFilesLive` | fairness and deadlock detection, every request answered | `RepoFiles` |
| `SyncPlanner` | `SyncPlanner.Plan` as operators over sets | `RepoBatch` |
| `Sync` | one checkout: push, pull, purge, untrack among edits and teammates | `SyncPlanner` |
| `Access` | members, roles, invitations, deletion of a project or an account | - |
| `KeyGrants` | vaults and the grants of one project's key | - |
| `AuthSessions` | sign-in sessions, refresh rotation, passwords, device codes, and the clients that keep tokens | - |
| `ShareLinks` | one-time links | - |
| `CiTokens` | what a CI job is sent while files move | - |
| `RateLimiter` | the fixed-window counter | - |
| `SecretScans` | scans of one project, their executors, the daily job, triage | - |
| `Billing` | the subscription row of one person, Stripe and its events | - |
| `PlanLimits` | the limit on files of a person's plan, over all projects they own | - |
| `Services` | six small components in one behaviour | `AuthSessions`, `ShareLinks`, `CiTokens`, `RateLimiter`, `Billing`, `PlanLimits` |
| `MCRepoFiles`, `MCSync`, `MCAccess`, `MCKeyGrants`, `MCServices` | constants of the runs | the component |
| `MCLiveness` | the two components with liveness in one run | `MCRepoFiles`, `SecretScans`; see section 3 |
| `RepoFilesProofs` | types, history, no lost update | `RepoFiles`, TLAPS |
| `RepoFilesRefinement` | the refinement of `FileStore`, what a commit adds | `RepoFilesProofs` |
| `SyncProofs`, `AccessProofs`, `KeyGrantsProofs`, `AuthSessionsProofs`, `SecretScansProofs` | the proofs of one component each | the component, TLAPS |
| `ServicesProofs` | the proofs of five small components, and of the six together | `Services`, `AuthSessionsProofs` |

`Sync` composes with `RepoFiles` through `FileStore`: `RepoFiles` is shown to
implement `FileStore` (run `RepoFiles`, theorem `RequestsAreAtomic`), and the
server of `Sync` takes a request in one step under the conditions of
`FileStore` (`Valid`, `Current`, distinct paths, `Result`), with definitions
that both take from `RepoBatch`. Between its check and its effect a request of
`FileStore` may see a file that it names but does not alter change; `Sync` lets
the two coincide and leaves this window out. `RepoFiles` and `PlanLimits` divide
the plan check between them: in `RepoFiles` it is a refusal before the
transaction, with any number of files in the owner's other projects
(`Elsewhere`); what the limit is worth with several projects, owners and plans is
the subject of `PlanLimits`, whose `CommitFiles` adds as many files as were
asked for. That a commit of `RepoFiles` adds no more than that is the theorem
`AddsNoMoreThanAsked`. The other components share no state with these but the
membership that a route's guard reads: `Access` models it in full, `KeyGrants`
has the part of it that grants depend on (`Join`, `Remove`).

One convention runs through the modules. A request is a handler, a call or a
process; each step is what the code does between two `await`s (a guard, a
read, a statement, a transaction), and whatever was read is kept in the
request's record and used later although the rows may have changed. A
transaction that locks the rows it writes before it reads anything else is one
step. Every request may end at any step (a refusal, an error, a client that is
gone). Variables marked `history` in their declaration record what properties
speak about; no guard reads them.

### 2.1 RepoFiles

One project. A handler is one request being served; its `pc` follows
`RepoFileService.applyChanges`:

    idle --ApplyChanges--> enforce --Enforce--> load --LoadCurrent--> write
         (validateChange,  (only when the       (loadCurrent)         |
          assertNoDuplicates) batch adds files)                       |
      ^                                                DeleteFile, SkipUpdate,
      |                                                UpdateFile, CreateFile
      +--LogMany-- audit <------------Commit-----------(one statement each)

`LostRace` and `UniqueViolation` answer 409, `Enforce` may answer with the
plan limit, and `Fail` (crash, transaction timeout, victim of a deadlock,
client gone) ends a request anywhere.

The database is external and modelled from how it is used. `files` and
`versions` hold what is committed; `writes[h]` and `snaps[h]` what the open
transaction of `h` has written. Under read committed a statement sees the
committed rows and its own transaction's (`View`); it waits for a row another
open transaction has written (`RowLocked`) and for a path whose index entry
another has touched (`PathClaimed`), and re-evaluates its guard afterwards
(`VersionGuard` reads `files`, not `loaded`). A statement that needs both a row
and a path waits for both before it starts; PostgreSQL takes them one after
the other, which adds waiting but no new outcome. The write of a row and of
its snapshot are one action: both are statements of one transaction, and the
snapshot's unique index on (file, version) cannot fail where `HistoryComplete`
holds.

A blob with its IV, tag, size and flags is represented by its content hash,
which is a keyed HMAC of the plaintext. Authorship, timestamps and messages are
left out. The plan is asked for the files of all projects of the owner, so
`Enforce` adds some number from `Elsewhere` to the files of this one.
`SkipUpdate` is there because an update that changes neither path nor
content writes no row and no version but is answered and audited. As it writes
nothing it has no guard on the version either (`repo-file.repository.ts:227`
returns before the guarded update), and this is the one way in which a request
takes effect on a file that is no longer at the version it was based on.

`FileStore` says so: a request is asked, checked once against all its versions
(`Check`, which fixes in `settled` the updates that alter nothing), and takes
effect in one step (`Apply`) in which every file that it *alters* is still at
its base, with all its changes or none.

### 2.2 SyncPlanner and Sync

`SyncPlanner` is a translation of `SyncPlanner.cs` from loops over lists to
sets of entries; where the order of a loop decides something it is stated
(`Renames` picks the first deleted file in listing order; `Judges` leaves open
which of two base entries with one path the dictionary yields first).

`Sync` follows one CLI process at a time: `List` (the listing), `Scan` (base,
hashes, plan), a command's decision (`Push`, `Pull`, `Purge`, `Untrack`), then
one action per request (`SendRequest`, `RequestFails`) or per entry
(`PullDeletion`, `PullContent`, `PullSkips`), and the save (`Pushed`,
`Pulled`). Between any two of these the user may edit files, a teammate may
change the project and, unless `Reliable`, the process may die or an answer
may be lost after the server took the request.

What is atomic in the model and why that is enough: hashing of the local files
(`Scan`), because an edit during it equals one just before or just after for
each file; building the changes of a push (content is read again for all of
them before the first request, and that is kept: `Push` reads `disk`, not
`seen`); `Purge`, a short loop of deletions without awaits. A path argument is
a set of named paths: globs only select, and only literal names count for
deletions. The byte limit of a request is a free choice of any size up to
`MaxPerRequest`.

### 2.3 Access

`Ask...` is the guard of a route (`projectRole: "OWNER"` reads the caller's
row), `Find...` and `CheckInvitee` the reads of `member.service.ts` and
`invitation.service.ts`, and `UpdateRole`, `Remove`, `TransferOwnership`,
`CreateInvitation`, `Withdraw`, `AcceptInvitation`, `SettleAccepted`,
`DeleteProject`, `DeleteOwned` and `DeleteUser` the writes. `request[h].seen`
is the role that a check found. A member's row has an identifier of its own,
because an update or a transfer names the row and not the person, and a person
who left and came back has another row.

`transitionStatus` is two statements of a transaction, and two steps. The delete
selects the rows of the address that have the status already, as committed when
it begins (`FindOlder`); it waits for whoever has changed one of them. The rest
(`TransitionStatus`, within `Withdraw`, `SettleAccepted` and
`AcceptInvitation`) removes those that still have the status, and updates the
invitation by its identifier, whatever its status is by then. The update fails
when the row is gone, or when there is a row of that status that the delete did
not find. So an invitation may vanish under a request that has read it, and two
acceptances that both find no older row may both go through once the first one's
member is removed: `overlapped` records this, and `AdmitsOnce` excludes it
by name (section 6).

A person's e-mail address is the person; the plan check is a refusal; the link
from an invitation to a user who registers later is left out, since acceptance
goes by token and address.

`overtaken` is set when a request commits on a role that changed after it was
checked; `OneOwner` speaks of the other behaviours, `OwnerStays` (run
`AccessOwner`) shows that these are real.

### 2.4 KeyGrants

A wrapped key is a record of what is in it and what opens it: a vault's
`kek` seals `private` and `recovery`, `sealed` is what the recovery key was
sealed with, `public` stands beside `private`, `hash` proves a recovery key.
Keys are numbered by the call that generated them. A session is what a device
holds unlocked (`vault-provider.tsx`, `DekService.cs`).

`ResolveOwn`, `ResolveShared` and `CreateProjectKey` are `resolveProjectDEK`:
which of them applies depends on the grants a device finds, and the key it
creates or adopts is stored by a call that the server handles later
(`PassStore`, `StoreOwn`). `Share` is the listing of pending members and the
wrapping, `PassShare` and `StoreShared` the route. A re-keying call reads the
vault or the session (`ChangePassword`, `Recover`, `Regenerate`), then the
grants (`Rewrap`), passes the route (`PassRekey`), and its transaction checks
that the grants sent cover those held (`CheckCover`) and writes
(`ReplaceGrants`); what other calls store between these two steps is seen under
read committed. Only the rows it deleted stay locked (`SharedRowLocked`). A
removal takes the grants that there are when its statement starts, and never
those that a recovery under way inserts, so it comes before that recovery's
end and does not wait for it.

A device has one call at a time. The windows in which a call is overtaken by
another are recorded in `mishaps`, each with the name of what was overtaken:
`left` (a member who was removed), `stored` and `shared` (grants wrapped for
keys that changed), `rekeyed` (a vault that changed after it was read, for
`vault.service.ts` guards no version), `changed` (grants that came or went
between the check and the writes). The properties say exactly which windows
matter for which promise, and that nothing else breaks it.

### 2.5 AuthSessions

A process is one request of a client, from its start until the answer is kept.
Several processes share a client's `jar`: tabs share a cookie, commands share
the credentials file. A request that its client gave up and the one it sends
instead are two processes. A refresh goes through `CallApi` (refused with
401), `RefreshOnCommandLine` (which loads the credentials again and retries
the call when they changed) or `RefreshInBrowser`, `LookUpSession`, `MintPair`,
`RotateTokens`, `KeepTokens`; a replay goes through `RevokeSession`. `iat`
stands for the token's hash: two tokens of a session signed in the same second
are equal, as they are in the code. `Lose` stops a process anywhere;
`mishaps` records the losses that clients cannot tell from success.

A change of password (`CommitChange`) ends all sessions of its person. The code
spares the session that the request's refresh cookie names, but the cookie has
the path `/api/auth` (`auth.utils.ts:47-55`) and the route is
`/api/users/me/password`, so no client sends it there; the caller's client keeps
a token whose session is gone.

Registration, verification and sign-in with GitHub open a session as `Login`
does and are left out. `Lifetime` is both the lifetime of a token and that of
its row: they come from one setting, read by two parsers (jose's for the token
in `jwt.ts`, `parseExpiry` for the row in `auth.utils.ts`, with 7 days where the
text does not parse), and that these agree is taken for granted.

### 2.6 ShareLinks, CiTokens, RateLimiter, SecretScans, Billing, PlanLimits

`ShareLinks`: `FindConsumable` reads, `ConsumeLink` is the guarded update whose
count decides, `AnswerReader` sends; `FindRevocable` and `DeleteLink` are a
revocation.

`CiTokens`: `FindToken`, `TouchToken`, `ListAllowed` (by path), `FetchFiles` (by
identifier) and `EndJob`. A set of paths stands for the globs.

`RateLimiter`: a call of `hit` runs to its end, so it is a step; the clock is
discrete and windows are `Window` ticks.

`SecretScans`: `SweepStale` and `CreateScan` are a start (by the route or by
the daily job), `exec[n]` is the position of the executor of scan `n`, which a
`Restart` forgets and which writes with no guard on the status. The patterns
and the calls of GitHub are the set `commits`, of which a scan collects what is
there.

`Billing`: `PayCheckout`, `ChangeStatus` and `EndSubscription` happen at Stripe
and put events in `mail`; `Dispatch`, `RetrieveSubscription` and
`OnCheckoutCompleted` are the webhook, `SetAtStripe` and `MirrorCancel` a
request to cancel or to resume, `AssignComp` and `RevokeComp` the
administrator's. One paid plan; a status that `mapStripeStatus` does not know
is one of its own. Events may be handled late, twice or in another order;
`disturbed` records that they were, until the last event of the only
subscription heals it (`Heals`).

`PlanLimits`: a request finds the project's owner (`AskToAdd`), reads that
person's plan (`FindPlan`), counts the files of *all* projects that person owns
(`CountFiles`, `FilesOf`) and adds its own (`CommitFiles`), with other requests,
removals, deletions of projects, transfers of ownership and changes of plan
between any two of these. A transfer asks the new owner's plan for a project
and not for the files in it (`member.service.ts:141-142`), and a request may
have asked the owner before; `unasked` counts what came to a person's projects
in these two ways, `had` the limits that the plan has had. A project has one
owner here; the two or none that an overtaken transfer leaves are the subject
of `Access`.

## 3. Runs

All runs bound the number of requests, commands, calls or edits, so a behaviour
ends when they are used up: `CHECK_DEADLOCK FALSE`. Blocking that matters is
checked as liveness.

| Run | Checks | Shows |
|---|---|---|
| `RepoFiles` | `TypeOK`, `HistoryComplete`, `VersionNamesRow`, `WritesBasedOnCommitted`, `StoreInv`, `ImplementsFileStore` | 2 handlers, 3 requests of up to 2 changes, over 2 files, with a plan limit of 4 of which other projects may use 2; two transactions overlap in every way while a third request follows; they refine `FileStore` |
| `Liveness` | `RequestsAnswered`; `ScanTypeOK`, `ActiveIsServed`, `CompletedIsStored`, `ToldOnce`, `TriageSurvives`, `SlotFreed` | every change request is answered; a project can always be scanned again, and overlapping scans lose no finding and no decision |
| `Sync` | `TypeOK`, `BaseFromServer`, `StatusTruthful`, `LocalWorkKept`, `TeamworkKept` | three commands, two edits, two changes by teammates, lost answers and crashes |
| `SyncSelf` | `NoConflictWithSelf` | alone and with a reliable network, four commands, four edits, one change per request |
| `Access` | `OneOwner`, `AdmitsOnce`, `AccessInv` | three people, three handlers, five requests, two invitations |
| `KeyGrants` | `TypeOK`, `VaultsOpen`, `GrantsOpen`, `GrantsPaired`, `GrantsOfMembers` | an owner with two devices and an editor with one, four calls that create keys |
| `Services` | `ServicesTypeOK`; `CodeGivesOne`, `OldPasswordSignedOut`, `ReplayNeedsMishap`, `RowOutlivesToken`, `EndedStaysEnded`; `PayloadHandedOnce`, `RevokedStaysUnread`; `SentIsAllowed`; `AtMostTwice`, `RefusedOnlyWhenSpent`; `RowFollowsStripe`; `OvershootBounded` | sessions and device codes; share links; CI tokens; the rate limiter; the subscription; the limit of a plan over two projects |

`Services` and `Liveness` put components together that share no state and that
no property relates. A variable `service`, chosen at the start, says which of
them runs in a behaviour, and the others stay where they began, so their states
add up instead of multiplying, and each is explored as it would be alone.

Runs that show a disagreement between the code and what is said of it:

| Run | Violated | Disagreement |
|---|---|---|
| `RepoFilesIdle` | `AppliedAtBase` | a batch with an update that alters nothing commits although the file it names was changed or deleted after it was read |
| `SyncWiped` | `WipedTreeKeepsVault` | `push --force --yes` deletes files on the server that were not named |
| `SyncForcedPull` | `PulledFilesAreHere` | `pull --force` deletes a file it has just written |
| `AccessOwner` | `OwnerStays` | a change of role or a removal that was checked before a transfer takes the role from the new owner |
| `KeyReplaced` | `KeyNeverReplaced` | a user's second device replaces the project's first key |

**Why the bounds are enough.** The properties of `RepoFiles` relate one file to
one transaction and at most one competitor, so two handlers show every
conflict; the third request starts after a commit and finds version 2. Two
changes per batch give every order of two ranks, both orders of equal ranks,
and the cycles of locks. Seven paths and eight identifiers are more than the
bounded requests can use (`CreateFile` is guarded by `FileId # issued`, which
never disables it here). In `Sync` three paths allow a file to move away and
another to take its place; two contents distinguish "same" from "different";
two edits and two changes by teammates make every kind of entry, and three
commands let a run act on the base two others left.

In `Access` three handlers let a transfer run beside two requests that were
checked before it, and five requests let a person be invited, admitted, removed
and admitted again, with an acceptance that is still under way; two invitations
of one address are what the unique index is about. (Without `overlapped` in
`AdmitsOnce`, TLC finds the second admission of section 6 within these bounds.) In `KeyGrants` two devices of
one user are needed for every window but the removal, which the editor's device
shows, and four calls let a key be created, shared, re-keyed and stored again.

In `Services` one person with a browser and two requests of one command line
gives every race of two refreshes, a replay, and a sign-in across a change of
password; five requests let a session be opened, rotated twice and ended, or a
code be created, authorised and polled twice; with lifetimes of 2 and a clock of
0..2 codes, tokens and rows come to their ends. Two readers and two revokers
give every race on a link. Two files and two paths let a file leave the token's
paths and another take its place. Five moments and windows of 2 give two windows
and their boundary, with 2 hits in each. Seven events are a first purchase (3),
its end (1) and a second purchase (3). Two people with a project each, two
requests and three files let limits of 2 and 1 be passed by a race between
projects of one owner; one handover gives both projects to one person or brings
in files that were not asked for, and one change of plan raises a limit, lowers
it or takes it away. In `Liveness` one finding is enough, as
the executor treats each by itself, and two scans overlap when the first is
declared stale.

The handlers, the people other than the founder and the owner's devices are
interchangeable, hence the symmetry; `Services` and `Liveness` use none. The
theorems of section 5 do not depend on any of these bounds but the lengths of
histories that constants name.

## 4. Fairness

`RepoFilesLive` assumes strong fairness of each handler's own steps (`Handle`):
JavaScript resumes a request whose awaited statement completed, and PostgreSQL
queues waiters, so a statement that can run again and again is not passed over
for ever. It assumes weak fairness of `BreakDeadlock`: after
`deadlock_timeout` the server aborts a transaction of a waiting cycle. It
assumes nothing about clients, crashes or timeouts: `ApplyChanges` and `Fail`
may never happen. Without `BreakDeadlock` the property fails, for two batches
can list two files in opposite orders.

`ScanFairness` of `MCLiveness` assumes weak fairness of an executor's steps (the
event loop goes on with it while the process lives), of `GrowStale` (an hour
passes) and of the two steps by which the daily job starts a scan. The last
holds for a project that the job still selects: one whose owner keeps a plan
with scans and an account at GitHub. It assumes nothing of requests, errors and
restarts. `SlotFreed` needs the daily job: a scan whose executor a restart has
lost stays active until somebody starts the next one.

## 5. Proofs

Every theorem holds for any values of the constants that satisfy the
assumptions named in the component's module.

| Module | Theorems |
|---|---|
| `RepoFilesProofs` | `TypeCorrect`, `Safety`, `HistoryIsComplete`, `VersionsNameRows`, `NoLostUpdate` |
| `RepoFilesRefinement` | `StoreIsSound`, `RequestsAreAtomic`, `ReplacedAtBase`, `AddsNoMoreThanAsked` |
| `SyncProofs` | `SyncTyped`, `BaseIsFromServer`, `PushKeepsTeamwork`, `PullKeepsLocalWork`, `StatusIsTruthful`, `NoConflictAlone` |
| `AccessProofs` | `Invariant`, `AccessTyped`, `ExactlyOneOwner`, `InvitationAdmitsOnce`, `OwnersHandOver` |
| `KeyGrantsProofs` | `KeysTyped`, `VaultsStayOpen`, `GrantsStayOpen`, `GrantsStayPaired`, `MembersHoldGrants` |
| `AuthSessionsProofs` | `SessionsShaped`, `RowsOutliveTokens`, `NothingRevived`, `OneSessionPerCode`, `ReplayIsExplained`, `OldPasswordsOut`, `AuthTypeCorrect` |
| `ServicesProofs` | `LinkTypeCorrect`, `OneReader`, `RevokedUnread`, `JobsSentTheAllowed`, `LimitedToTwice`, `RefusedWhenSpent`, `RowIsRight`, `BillTypeCorrect`, `CiTypeCorrect`, `LimitTypeCorrect`, `PlanTypeCorrect`, `OvershootIsBounded`; `ServicesApart`, `ServicesTyped` |
| `SecretScansProofs` | `ScansTyped`, `ActiveServed`, `FindingsStored`, `OwnerToldOnce`, `DecisionsSurvive`, `SlotsAreTakenFree` |

**RepoFiles.** None of the three safety properties is inductive. `IInv` adds
what a transaction holds at each stage (`Stage`), that a row it wrote over a
committed one is the next version of the row it loaded and that this row is
*still* the committed one (`PendingWrites`), that its snapshots are exactly
those of its written rows (`PendingSnapshots`), that a statement still to come
finds its row unwritten (`NotYetWritten`, from the check that no file appears
twice), that no row is written by two transactions (`RowsExclusive`), that
identifiers in use were issued (`SeenIssued`) and that loaded versions are not
ahead of committed ones (`LoadedNotAhead`). The heart is `Commit`: the rows of
the other open transactions are disjoint (`RowsExclusive`), so their
`PendingWrites` survive; what they have loaded but not written may now be old,
and is then *behind* (`LoadedNotAhead`), so the version guard turns it away.

**Refinement.** `RequestsAreAtomic` maps the handlers to requests that take
effect in one step: idle stays idle, `enforce` and `load` are asked, `write` is
checked, `audit` is applied (`Phase`); the statements stutter and a commit is
`Apply`. `StoreInv` adds to `IInv` what that step needs. `PathsApart`: paths are
distinct among the committed rows, in what each transaction sees, and between
rows that different transactions have written, so the committed result breaks no
unique index. `CarriedOut`: each row that a transaction has written is what one
of its changes makes of the row it loaded, at the base the client sent, and each
creation it has carried out has a row of its own. With `PendingWrites` the
loaded rows are the committed ones, so the whole commit is `Result` of the batch
without the updates that alter nothing. An abstract request that was held to
*every* version at its effect could not be proved, and TLC gave the reason: the
window of `SkipUpdate`, which the run `RepoFilesIdle` shows. `FileStore` now
promises what the code does, and the finding records what it says it does.

`ReplacedAtBase` is what remains of that promise, and what a client relies on: a
row that changes goes to its next version, or goes, in a commit whose batch
names the version it had, and a snapshot goes only with its file. It follows
from `CarriedOut` and `PendingWrites` at `Commit`; no other step changes a
committed row.

`AddsNoMoreThanAsked` counts a commit by a bijection of its deletions with the
rows that go and a surjection from its creations to the rows that come
(`CommitGrowth`), which `CarriedOut` gives.

**The plan limit.** That each request may have passed the check on an old count
does not bound the files by itself. The invariant (`RoomFor`) is that, for each
person and for one of the limits their plan has had, either the files are
within what the other requests may add beyond it, or, of the requests which
have been told by that plan that there is room, *one* has room for all that the
others may still add: the last to be told. When it commits, another takes its
place, for nobody adds more than the largest growth. What comes unasked raises
both sides alike, and what is removed, deleted or handed over lowers one side
only. `PlanRead` keeps that a limit that was read is one that the plan has had.

**Sync.** The planner is a set of entries, and what an entry says is stated once
(`Sound`: for each kind, how listing, base and local content relate) and proved
of `RemoteEntries`, `GoneEntries`, `UntrackedEntries` and `PairRenames`.
`SyncInv` joins the types with `Working`: the entries of a command are sound for
the listing, the base and the content it was planned from, and the changes it
sends are based on the rows that were listed. `HistoryInv` adds the rows that
the server ever had: every row that a listing, a base or a command's memory
holds is one of them, a version names one of them, and none is later than the
file is now. From these follow `BaseIsFromServer` and `PushKeepsTeamwork` (the
version that the server accepts is that of the base, hence its row is), and
`PullKeepsLocalWork` from the entries that an unforced pull carries out.
`StatusIsTruthful` also needs that a plan leaves no file out.
`NoConflictAlone` has hypotheses of its own, those of the property: a reliable
network, no teammates, a project that starts empty, pushes and pulls.
`AloneInv` says that between commands the base *is* the project, and that during
a push its memory is.

**Access.** `OneOwner` alone is not inductive: a transfer that named one row
twice would leave no owner, and an update that had seen an owner would not count
as overtaken. `AccessInv` adds that identifiers name one member and are not
given again (`RowsNameMembers`), that a transfer names two different rows
(`TransfersNameTwo`) and that checks spared the owner (`ChecksSpareOwners`).
`AdmitsOnce` needs in addition that an invitation that has admitted somebody was
issued and, unless it was overruled or overlapped, has admitted once, is ACCEPTED
or gone, and is among the older rows that any acceptance of it under way has
found, which therefore fails (`AdmitHistory`, `Settled`); and that only
invitations that were issued are there (`SentIssued`). `OwnersHandOver` is the counterpart of `OwnerStays`, which the
run `AccessOwner` violates: outside the window between check and update, which
`overtaken` records, an owner loses the role only by a transfer that names their
own row as the caller's, or with the project.

**KeyGrants.** `KeyInv` joins the four properties, the types and three facts:
an unlocked device and a call have a vault behind them (`Backed`); a re-keying
past its check sends own grants exactly if it found some (`CoverFits`); and
while no share has come in between, the shared grant of a recovering user is
the one it found or none (`SharedStays`). The first makes types inductive, the
second gives `GrantsPaired` and `GrantsOfMembers`, the third `GrantsOpen`.

**AuthSessions.** `AuthInv` joins `RowOutlivesToken` with `Shape`: the types of
the tables and clients, and that what a request carries fits its operation and
its step (`Fits`; a token about to be written, for one, was not minted in the
future). `EndedStaysEnded` is an action property that follows from it step by
step. `CodeGivesOne` needs `CodeOnce`: the code is in its table, or one request
is about to issue its session, or it was issued, and never two of these.

`ReplayIsExplained` needs to know whose a session is (`TokenInv`). `Named`: a
token that is kept or carried names an issued session of its person. `Apart`: no
two clients hold tokens of one session, and a session that was just opened is
held by its sign-in alone. `Current`, as long as no answer was lost and nobody
raced: a client has one request that refreshes, and the row of a session has the
token that is kept, sent or on its way back, unless its successor is on its way
back. A refresh is then never judged a replay. Most steps are alike for it: a
request goes on with a token that it or its client has, and no session changes
its token (`Passes`); the steps that issue, rotate or keep a token have lemmas
of their own. `OldPasswordsOut` is inductive beside `Shape` alone: a change of
password leaves no session of its person, and a reset leaves the old ones to
the step that it still has to take.

The types are not inductive either, for the numbers in them are bounded by the
requests that the run allows. `AuthTypeInv` counts: the sessions that were opened
and the requests that are still signing in are together no more than the calls
(`Counts`). It also says that a token in use names a session, that nothing is
dated in the future, and that a session has one row (`Dated`).

**ShareLinks.** `LinkInv` joins the two properties and the types with
`LinkHistory`: a link that nobody has created is held by no reader and was not
answered, and one that was revoked unread is gone.

**CiTokens.** `Witnessed` ties the paths a file has now to those it had during a
request, `Picked` says what the identifiers listed by path are worth afterwards. The
types need beside them that two files never have one path (`PathsUnique`).

**RateLimiter.** `admitted[k][t]` counts what was let through before moment `t`,
so the properties are about differences and no set has to be summed. `KeyInv`:
in an open window the difference since its start is its count, up to the limit,
and the stretch of a window's length before it saw one limit at most
(`Running`); with no window open the same holds of the stretch that ends now
(`Over`). Two stretches make twice the limit, wherever a window's length is laid
over them (`Twice`); `Spent` says that who is refused has used up the open
window.

**Billing.** The last event decides, so no account of the earlier ones is
needed. `BillInv` says what the last event Stripe sent tells of its subscription
(`MailEnds`: it is as the event says, or bought, or over), that a checkout under
way has seen the subscription as it is unless Stripe has sent something since
(`Desks`), and what holds while nothing has come between (`Undisturbed`): at
most one subscription, at most one request or delivery at work, no complimentary
plan; a deletion that came last leaves no subscription; the row matches as soon
as the last event was handled; and from then on, who is about to write a wish to
cancel or resume writes what Stripe holds. Every change at Stripe sends an
event, so the row is of no account until that one has been handled
(`SendingKeeps`). A disturbance is over when the last event comes last
(`Heals`), and the row is then written whole.

**SecretScans.** `Placed` says what status a scan can have at a step of its
executor (it is not COMPLETED before the step that completes it, though it may
be FAILED); `Held` that what an executor has inserted is stored, untold, and in
no other executor's hands. The latter is why two scans that find one secret
tell its owner once: `skipDuplicates` gives it to the first. `Placed` also gives
`SlotsAreTakenFree`: although the executor's updates do not look at the status,
a scan becomes active only while none is, a completed one never runs again, and
a row whose executor has ended is touched by a sweep alone.

**Services.** A step of one service leaves the variables of the others as they
are, so that every behaviour of `ServicesSpec` is a behaviour of each service's
own specification (`ServicesApart`). What is proved of a service alone therefore
holds of the composition that the run checks; `ServicesTyped` is the instance
for the types.

Each action, or each group of actions that change the same variables, has a
lemma of its own with one step per conjunct. TLC checks `StoreInv` (with `IInv`
in it) and `AccessInv` in their runs; the further invariants are conjunctions of
what the runs check with the facts named above.

**Model-checked only.** Liveness under fairness (`RequestsAnswered`,
`SlotFreed`), which is beyond the prover. Every other property of a passing run
has a theorem.

## 6. What was found

Five disagreements are shown by runs (section 3) and quoted in `PROJECT.json`.
Others were met while modelling, and are recorded here without a run.

- `repo-file.repository.ts:106-107` promises that a path freed by a delete or a
  move can be used again in the same batch; a path that a later move of the same rank frees is refused
  with 409.
- Concurrent requests exceed `maxRepoFiles` (`docs/prd.md:237`), and a transfer of
  ownership brings files that the new owner's plan was not asked for;
  `OvershootBounded` says by how much.
- A change of password signs the caller out as well. `user.service.ts:103-104`
  and `user.controller.ts:52` ("Signs out every other session.") say that the
  caller's session is kept, but the cookie that names it is not sent to that
  route (`auth.utils.ts:47-55`).
- An invitation can admit twice: two acceptances read it as PENDING, the second
  one's delete finds no ACCEPTED row before the first commits, the member is
  removed, and the second one's update sets ACCEPTED again
  (`invitation.service.ts:280-287`).
- A pull overwrites work that is saved after its scan (`docs/cli.md:126`), and
  `purge` leaves a copy of a file that moved on the server
  (`PurgeCommands.cs:9`).
- An address whose invitation expired cannot be invited again until that one is
  cancelled: it is still PENDING, and the unique index refuses the second. An
  invitation that is created while its recipient registers is never linked to
  the account (`invitation.service.ts:50`, `:212`).
- `vault-rekey.ts:147` seals a new recovery key with the KEK of the session,
  which another device may have replaced.
- An `invoice.payment_failed` that arrives late over an UNPAID subscription
  makes it PAST_DUE, which counts as paid. The deletion of an old Stripe
  subscription removes a plan that an administrator has granted since.
- An error of the notification marks a scan FAILED that was COMPLETED and
  stored (`secret-scan.executor.ts:81-100`).

## 7. Not modelled

- **Dependency analysis, license rules, GitHub calls, notifications, security
  overview, user profiles**: they compute or forward data, or write one row; no
  two of their steps can come apart in a way that anything depends on.
- **Cryptography** is taken to be perfect: a key opens what was sealed with it
  and nothing else, and a hash stands for one plaintext.
- **Discovery of local files**: the walk and `git check-ignore` decide a set
  of paths, which is a constant of `Sync`. A CI pull overwrites a fresh checkout
  and keeps no base; linking writes one file once.
- **Plan limits other than the files of a person's projects** are counted and
  compared in the same way before their own creations.
- **Custom patterns of the scanner**: deleting one deletes its detections, and
  with them the decisions taken on them, by design; `TriageSurvives` speaks of
  scans.
- **Promo codes, seats, trials, the billing portal** and invoices that name no
  subscription; **registration, verification, sign-in with GitHub**; the
  deletion of unverified users.
- **Two commands at once in one checkout**: the later save of the base wins. It
  doubles the state of `Sync`, which is near what TLC explores in minutes.

By lines, most of the repository is the web app's views, the scenes of a demo
video, the documentation site, commands that print, parsers of manifests,
request schemas and generated clients. They hold no state that two actors
share, and a specification of them would restate them; so the share of the
repository's lines that these modules translate is small, although the services
that keep the shared state are nearly all here.
