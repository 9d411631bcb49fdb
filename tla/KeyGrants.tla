----------------------------- MODULE KeyGrants -----------------------------
(***************************************************************************)
(* Vaults and the key of one project.  A user's devices (browsers, the     *)
(* CLI) create keys, wrap them and send the result; the backend stores     *)
(* wrapped keys that it cannot open.  A wrapped key is modelled by what is *)
(* in it and what opens it.  Other devices, members and removals come in   *)
(* between what a device reads, what the backend checks and what it writes.*)
(***************************************************************************)
EXTENDS Integers, FiniteSets

CONSTANTS
    User,
    Device,
    UserOf,      \* whose device it is
    Owner,       \* the project's owner, who cannot be removed
    Prepared,    \* users who set up a vault before
    MaxCalls,    \* bound: calls of devices
    None

ASSUME DeviceAssumption == UserOf \in [Device -> User]
ASSUME OwnerAssumption == Owner \in User /\ Prepared \subseteq User
ASSUME KeyBounds == MaxCalls \in Nat /\ None \notin Nat

VARIABLES
    members,    \* project_members
    vault,      \* user_vaults, or None
    grants,     \* project_key_grants of the project, by user and type
    session,    \* per device: the keys it holds unlocked, or None
    call,       \* per device: the operation under way, or None
    calls,      \* bound: calls so far; also numbers the keys
    keys,       \* history: the keys created for the project
    mishaps     \* history: the windows in which a call was overtaken

vars == <<members, vault, grants, session, call, calls, keys, mishaps>>

(* A key generated by the n-th call is n; users set up before have key 0.  *)
Key == 0..MaxCalls
NoGrants == [self |-> None, recovery |-> None, ecdh |-> None]

(* What seals the private and the recovery key, the two keys so sealed,    *)
(* the public key beside them, and the hash that proves a recovery key.    *)
Vault == [kek : Key, private : Key, public : Key, sealed : Key, recovery : Key,
          hash : Key]
OwnGrant == [key : Key, under : Key]
SharedGrant == [key : Key, by : Key, named : Key, to : Key]
Grants == [self : OwnGrant \cup {None}, recovery : OwnGrant \cup {None},
           ecdh : SharedGrant \cup {None}]
Session == [kek : Key, private : Key, recovery : Key, key : Key \cup {None}]

NewVault(n) == [kek |-> n, private |-> n, public |-> n, sealed |-> n,
                recovery |-> n, hash |-> n]
Holders == {u \in User : grants[u] # NoGrants}

Init ==
    /\ members = {Owner}
    /\ vault = [u \in User |-> IF u \in Prepared THEN NewVault(0) ELSE None]
    /\ grants = [u \in User |-> NoGrants]
    /\ session = [d \in Device |-> None]
    /\ call = [d \in Device |-> None]
    /\ calls = 0
    /\ keys = {}
    /\ mishaps = {}

(***************************************************************************)
(* Calls: "sent" by the device, "passed" the route's guard and the reads   *)
(* that precede the transaction, "covered" inside a re-keying transaction. *)
(***************************************************************************)
StoreCall == [op : {"store"}, stage : {"sent", "passed"}, created : BOOLEAN,
              key : Key, kek : Key, recovery : Key]
ShareCall == [op : {"share"}, stage : {"sent", "passed"}, with : User, key : Key,
              by : Key, named : Key, to : Key]
RekeyCall == [op : {"password", "recover", "regenerate"},
              stage : {"read", "sent", "passed", "covered"},
              info : Vault, new : Key, rewrapped : Key \cup {None},
              held : Grants]
Call == StoreCall \cup ShareCall \cup RekeyCall

ASSUME NoneAssumption ==
    None \notin Vault \cup OwnGrant \cup SharedGrant \cup Session \cup Call

Idle(d) == call[d] = None /\ calls < MaxCalls
New == calls + 1

Begin(d, c) ==
    /\ calls' = calls + 1
    /\ call' = [call EXCEPT ![d] = c]
    /\ UNCHANGED <<members, vault, grants, keys, mishaps>>

Proceed(d, c) ==
    /\ call' = [call EXCEPT ![d] = c]
    /\ UNCHANGED <<members, vault, grants, session, calls, keys, mishaps>>

(* A refusal, an error or a lost connection ends a call before it commits. *)
GiveUp(d) == call[d] # None /\ Proceed(d, None)

(***************************************************************************)
(* Sessions.                                                               *)
(***************************************************************************)
SetUpVault(d) ==
    LET u == UserOf[d] IN
    /\ Idle(d)
    /\ vault[u] = None
    /\ calls' = calls + 1
    /\ vault' = [vault EXCEPT ![u] = NewVault(New)]
    /\ session' = [session EXCEPT ![d] = [kek |-> New, private |-> New,
                                          recovery |-> New, key |-> None]]
    /\ UNCHANGED <<members, grants, call, keys, mishaps>>

(* The password derives the vault's KEK, which must open both sealed keys. *)
Unlock(d) ==
    LET v == vault[UserOf[d]] IN
    /\ call[d] = None
    /\ session[d] = None
    /\ v # None
    /\ v.sealed = v.kek
    /\ session' = [session EXCEPT ![d] = [kek |-> v.kek, private |-> v.private,
                                          recovery |-> v.recovery, key |-> None]]
    /\ UNCHANGED <<members, vault, grants, call, calls, keys, mishaps>>

Lock(d) ==
    /\ call[d] = None
    /\ session[d] # None
    /\ session' = [session EXCEPT ![d] = None]
    /\ UNCHANGED <<members, vault, grants, call, calls, keys, mishaps>>

(***************************************************************************)
(* resolveProjectDEK: the user's own grant opens with the session's KEK; a *)
(* shared one with the private key, and is then adopted; with no grant at  *)
(* all the device generates a key.  Both of the latter store own grants.   *)
(***************************************************************************)
StoreOwnCall(d, key, created) ==
    [op |-> "store", stage |-> "sent", created |-> created, key |-> key,
     kek |-> session[d].kek, recovery |-> session[d].recovery]

Opens(d) == session[d] # None /\ session[d].key = None /\ UserOf[d] \in members

ResolveOwn(d) ==
    LET own == grants[UserOf[d]].self IN
    /\ call[d] = None
    /\ Opens(d)
    /\ own # None
    /\ own.under = session[d].kek
    /\ session' = [session EXCEPT ![d].key = own.key]
    /\ UNCHANGED <<members, vault, grants, call, calls, keys, mishaps>>

ResolveShared(d) ==
    LET g == grants[UserOf[d]] IN
    /\ Idle(d)
    /\ Opens(d)
    /\ g.self = None
    /\ g.ecdh # None
    /\ g.ecdh.to = session[d].private
    /\ g.ecdh.by = g.ecdh.named
    /\ session' = [session EXCEPT ![d].key = g.ecdh.key]
    /\ Begin(d, StoreOwnCall(d, g.ecdh.key, FALSE))

CreateProjectKey(d) ==
    LET g == grants[UserOf[d]] IN
    /\ Idle(d)
    /\ Opens(d)
    /\ g.self = None
    /\ g.ecdh = None
    /\ Begin(d, StoreOwnCall(d, New, TRUE))
    /\ UNCHANGED session

(* getPendingMembers names who cannot open the project yet, with the       *)
(* public key the device wraps the project's key for.                      *)
Share(d) ==
    \E u \in members \ {UserOf[d]} :
        /\ Idle(d)
        /\ session[d] # None
        /\ session[d].key # None
        /\ UserOf[d] \in members
        /\ grants[u].self = None
        /\ grants[u].ecdh = None
        /\ vault[u] # None
        /\ Begin(d, [op |-> "share", stage |-> "sent", with |-> u,
                     key |-> session[d].key, by |-> session[d].private,
                     named |-> session[d].private, to |-> vault[u].public])
        /\ UNCHANGED session

(* The guard of the two routes; shareWithMember also reads the member and  *)
(* the granter's vault, whose public key it stores beside the grant.       *)
PassStore(d) ==
    /\ call[d] # None
    /\ call[d].op = "store"
    /\ call[d].stage = "sent"
    /\ UserOf[d] \in members
    /\ Proceed(d, [call[d] EXCEPT !.stage = "passed"])

(* Mutation: the granter's public key is not stored. *)
PassShareUnnamed(d) ==
    /\ call[d] # None
    /\ call[d].op = "share"
    /\ call[d].stage = "sent"
    /\ {UserOf[d], call[d].with} \subseteq members
    /\ Proceed(d, [call[d] EXCEPT !.stage = "passed", !.named = None])

PassShare(d) ==
    /\ call[d] # None
    /\ call[d].op = "share"
    /\ call[d].stage = "sent"
    /\ {UserOf[d], call[d].with} \subseteq members
    /\ vault[call[d].with] # None
    /\ Proceed(d, [call[d] EXCEPT !.stage = "passed",
                                  !.named = vault[UserOf[d]].public])

(* Recoveries of u that have deleted shared grants and not committed yet;  *)
(* a row that one has deleted is locked until then.                        *)
Recovering(u) ==
    {d \in Device : /\ UserOf[d] = u
                    /\ call[d] # None
                    /\ call[d].op = "recover"
                    /\ call[d].stage = "covered"}
SharedRowLocked(u) == \E d \in Recovering(u) : call[d].held.ecdh # None

Note(conditions) == mishaps' = mishaps \cup conditions
When(condition, mishap) == IF condition THEN {mishap} ELSE {}

(* storeOwn: only a holder, or the first user, may store a key. *)
HolderCheck(u) == Holders = {} \/ u \in Holders

StoreOwn(d) ==
    LET u == UserOf[d]
        c == call[d] IN
    /\ c # None
    /\ c.op = "store"
    /\ c.stage = "passed"
    /\ HolderCheck(u)
    /\ ~SharedRowLocked(u)
    /\ grants' = [grants EXCEPT ![u] =
                    [self |-> [key |-> c.key, under |-> c.kek],
                     recovery |-> [key |-> c.key, under |-> c.recovery],
                     ecdh |-> None]]
    /\ keys' = IF c.created THEN keys \cup {c.key} ELSE keys
    /\ session' = IF c.created THEN [session EXCEPT ![d].key = c.key] ELSE session
    /\ Note(When(u \notin members, "left") \cup
            When(c.kek # vault[u].kek \/ c.recovery # vault[u].hash, "stored"))
    /\ call' = [call EXCEPT ![d] = None]
    /\ UNCHANGED <<members, vault, calls>>

StoreShared(d) ==
    LET u == call[d].with
        c == call[d] IN
    /\ c # None
    /\ c.op = "share"
    /\ c.stage = "passed"
    /\ ~SharedRowLocked(u)
    /\ grants' = [grants EXCEPT ![u].ecdh =
                    [key |-> c.key, by |-> c.by, named |-> c.named, to |-> c.to]]
    /\ Note(When(u \notin members, "left") \cup
            When(\/ c.to # vault[u].public
                 \/ c.by # c.named
                 \/ Recovering(u) # {}, "shared"))
    /\ call' = [call EXCEPT ![d] = None]
    /\ UNCHANGED <<members, vault, session, calls, keys>>

(***************************************************************************)
(* Re-keying.  Each call reads what it starts from (the vault, or the keys *)
(* of the session) and then the grants it re-wraps.  Unwrapping with the   *)
(* wrong key fails and ends the call.                                      *)
(***************************************************************************)
RekeyCallOf(op, info) ==
    [op |-> op, stage |-> "read", info |-> info, new |-> New,
     rewrapped |-> None, held |-> NoGrants]

ChangePassword(d) ==
    LET v == vault[UserOf[d]] IN
    /\ Idle(d)
    /\ session[d] # None
    /\ v.sealed = v.kek
    /\ Begin(d, RekeyCallOf("password", v))
    /\ UNCHANGED session

(* The user types the recovery key that is current. *)
Recover(d) ==
    LET v == vault[UserOf[d]] IN
    /\ Idle(d)
    /\ v # None
    /\ Begin(d, RekeyCallOf("recover", [v EXCEPT !.recovery = v.hash]))
    /\ UNCHANGED session

(* Only the KEK of the session is used; of the vault nothing is read. *)
Regenerate(d) ==
    LET v == vault[UserOf[d]] IN
    /\ Idle(d)
    /\ session[d] # None
    /\ Begin(d, RekeyCallOf("regenerate", [v EXCEPT !.kek = session[d].kek]))
    /\ UNCHANGED session

Cover(op, g) == IF op = "recover" THEN g.recovery ELSE g.self
Opener(c) == IF c.op = "recover" THEN c.info.recovery ELSE c.info.kek

Rewrap(d) ==
    LET c == call[d]
        g == Cover(c.op, grants[UserOf[d]]) IN
    /\ c # None
    /\ c.op \in {"password", "recover", "regenerate"}
    /\ c.stage = "read"
    /\ g # None => g.under = Opener(c)
    /\ Proceed(d, [c EXCEPT !.stage = "sent",
                            !.rewrapped = IF g = None THEN None ELSE g.key])

(* requireVault, and for a recovery the comparison of the hashes. *)
PassRekey(d) ==
    LET c == call[d] IN
    /\ c # None
    /\ c.op \in {"password", "recover", "regenerate"}
    /\ c.stage = "sent"
    /\ c.op = "recover" => c.info.recovery = vault[UserOf[d]].hash
    /\ Proceed(d, [c EXCEPT !.stage = "passed"])

(* Mutation: the grants sent replace those held, whichever they are. *)
CoverUnchecked(d) == TRUE

(* The transaction takes the lock of the vault's row, and replaceGrants    *)
(* checks that the grants sent cover the grants held.                      *)
Covered(d) ==
    (call[d].rewrapped = None) = (Cover(call[d].op, grants[UserOf[d]]) = None)

CheckCover(d) ==
    LET c == call[d] IN
    /\ c # None
    /\ c.op \in {"password", "recover", "regenerate"}
    /\ c.stage = "passed"
    /\ \A e \in Device \ {d} :
         UserOf[e] = UserOf[d] /\ call[e] # None => call[e].stage # "covered"
    /\ Covered(d)
    /\ Proceed(d, [c EXCEPT !.stage = "covered", !.held = grants[UserOf[d]]])

(* Mutation: a change of password leaves the recovery key as it is sealed. *)
RekeyedButRecovery(c, v) ==
    CASE c.op = "password" ->
           [v EXCEPT !.kek = c.new, !.private = c.info.private]
      [] c.op = "recover" ->
           [v EXCEPT !.kek = c.new, !.private = c.new, !.public = c.new,
                     !.sealed = c.new, !.recovery = c.info.recovery]
      [] c.op = "regenerate" ->
           [v EXCEPT !.sealed = c.info.kek, !.recovery = c.new, !.hash = c.new]

Rekeyed(c, v) ==
    CASE c.op = "password" ->
           [v EXCEPT !.kek = c.new, !.private = c.info.private, !.sealed = c.new,
                     !.recovery = c.info.recovery]
      [] c.op = "recover" ->
           [v EXCEPT !.kek = c.new, !.private = c.new, !.public = c.new,
                     !.sealed = c.new, !.recovery = c.info.recovery]
      [] c.op = "regenerate" ->
           [v EXCEPT !.sealed = c.info.kek, !.recovery = c.new, !.hash = c.new]

(* Mutation: a recovery leaves the shared grant. *)
ReplacedButShared(c, g) ==
    LET own == IF c.rewrapped = None THEN None
               ELSE [key |-> c.rewrapped, under |-> c.new] IN
    IF c.op = "regenerate" THEN [g EXCEPT !.recovery = own]
    ELSE [g EXCEPT !.self = own]

Replaced(c, g) ==
    LET own == IF c.rewrapped = None THEN None
               ELSE [key |-> c.rewrapped, under |-> c.new] IN
    CASE c.op = "password" -> [g EXCEPT !.self = own]
      [] c.op = "regenerate" -> [g EXCEPT !.recovery = own]
      [] c.op = "recover" ->
           [g EXCEPT !.self = own,
                     !.ecdh = IF g.ecdh = c.held.ecdh THEN None ELSE g.ecdh]

(* What the call started from is no longer what the vault holds. *)
Outdated(c, v) ==
    CASE c.op = "password" -> c.info # v
      [] c.op = "recover" -> c.info.recovery # v.hash
      [] c.op = "regenerate" -> c.info.kek # v.kek

NewSession(d, c) ==
    CASE c.op = "password" -> [session[d] EXCEPT !.kek = c.new]
      [] c.op = "regenerate" -> [session[d] EXCEPT !.recovery = c.new]
      [] c.op = "recover" -> [kek |-> c.new, private |-> c.new,
                              recovery |-> c.info.recovery, key |-> None]

ReplaceGrants(d) ==
    LET u == UserOf[d]
        c == call[d] IN
    /\ c # None
    /\ c.op \in {"password", "recover", "regenerate"}
    /\ c.stage = "covered"
    /\ vault' = [vault EXCEPT ![u] = Rekeyed(c, vault[u])]
    /\ grants' = [grants EXCEPT ![u] = Replaced(c, grants[u])]
    /\ session' = [session EXCEPT ![d] = NewSession(d, c)]
    /\ Note(When(Outdated(c, vault[u]), "rekeyed") \cup
            When(grants[u] # c.held, "changed"))
    /\ call' = [call EXCEPT ![d] = None]
    /\ UNCHANGED <<members, calls, keys>>

(***************************************************************************)
(* Members come and go; a removal deletes the grants of the member.        *)
(***************************************************************************)
Join(u) ==
    /\ u \notin members
    /\ members' = members \cup {u}
    /\ UNCHANGED <<vault, grants, session, call, calls, keys, mishaps>>

(* Mutation: the grants of a removed member stay. *)
RemoveMemberOnly(u) ==
    /\ u \in members \ {Owner}
    /\ members' = members \ {u}
    /\ UNCHANGED <<vault, grants, session, call, calls, keys, mishaps>>

(* The deletion takes the grants that there are as it starts.  Where a     *)
(* recovery has locked some of them it waits, and then leaves those that   *)
(* the recovery has inserted: as if it had come first, as it does here.    *)
Remove(u) ==
    /\ u \in members \ {Owner}
    /\ members' = members \ {u}
    /\ grants' = [grants EXCEPT ![u] = NoGrants]
    /\ UNCHANGED <<vault, session, call, calls, keys, mishaps>>

Use(d) ==
    \/ SetUpVault(d) \/ Unlock(d) \/ Lock(d) \/ GiveUp(d)
    \/ ResolveOwn(d) \/ ResolveShared(d) \/ CreateProjectKey(d) \/ Share(d)
    \/ PassStore(d) \/ PassShare(d) \/ StoreOwn(d) \/ StoreShared(d)
    \/ ChangePassword(d) \/ Recover(d) \/ Regenerate(d) \/ Rewrap(d)
    \/ PassRekey(d) \/ CheckCover(d) \/ ReplaceGrants(d)

Next ==
    \/ \E d \in Device : Use(d)
    \/ \E u \in User : Join(u) \/ Remove(u)

Spec == Init /\ [][Next]_vars

(***************************************************************************)
(* Properties.                                                             *)
(***************************************************************************)
TypeOK ==
    /\ members \subseteq User
    /\ vault \in [User -> Vault \cup {None}]
    /\ grants \in [User -> Grants]
    /\ session \in [Device -> Session \cup {None}]
    /\ call \in [Device -> Call \cup {None}]
    /\ calls \in 0..MaxCalls
    /\ keys \subseteq Key
    /\ mishaps \subseteq {"left", "stored", "shared", "rekeyed", "changed"}

Whole(v) ==
    /\ v.sealed = v.kek
    /\ v.public = v.private
    /\ v.recovery = v.hash

(* A vault opens: the password's KEK opens both sealed keys, the private    *)
(* key belongs to the public key others wrap for, and the recovery key is   *)
(* the one that its hash proves.  Changes of password, recoveries and new   *)
(* recovery keys of several devices, each writing columns of its own        *)
(* computed from what it read, break this only when one commits on a vault  *)
(* that has changed since (vault.service.ts checks no version).             *)
VaultsOpen ==
    "rekeyed" \notin mishaps => \A u \in User : vault[u] # None => Whole(vault[u])

(* A grant that is stored opens with the keys its user has now.  Re-keying  *)
(* re-wraps or deletes every grant, so only a grant wrapped before and      *)
(* stored after a re-keying, or a re-keying that was itself overtaken, can  *)
(* leave one that nothing opens.                                            *)
GrantsOpen ==
    mishaps \cap {"stored", "shared", "rekeyed"} = {} =>
        \A u \in Holders :
            /\ grants[u].self # None => grants[u].self.under = vault[u].kek
            /\ grants[u].recovery # None => grants[u].recovery.under = vault[u].hash
            /\ grants[u].ecdh # None =>
                 /\ grants[u].ecdh.to = vault[u].private
                 /\ grants[u].ecdh.by = grants[u].ecdh.named

(* Whoever can open the project with the password can with the recovery     *)
(* key, and the other way round: "a project added or removed mid-re-key"    *)
(* (vault.service.ts:124) is noticed by replaceGrants, unless it is added   *)
(* or removed between its check and its writes.                             *)
GrantsPaired ==
    "changed" \notin mishaps =>
        \A u \in User : (grants[u].self = None) = (grants[u].recovery = None)

(* Nobody but a member holds a grant: a removal takes all of them, and only *)
(* a call that had passed its check before the removal brings one back.     *)
GrantsOfMembers == mishaps \cap {"left", "changed"} = {} => Holders \subseteq members

(* "The server refuses a new key (409) once anyone holds one, so this can't *)
(* replace a real DEK" (vault-grants.ts:23).                                *)
KeyNeverReplaced == Cardinality(keys) <= 1
=============================================================================
