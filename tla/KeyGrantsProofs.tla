-------------------------- MODULE KeyGrantsProofs --------------------------
(***************************************************************************)
(* Vaults open, grants open, come in pairs and are members', for any users *)
(* and devices and any number of calls at once.                            *)
(***************************************************************************)
EXTENDS KeyGrants, TLAPS

(* A call and an unlocked device have the vault of their user behind them, *)
(* and a call, other than a recovery, an unlocked device.                  *)
Backed ==
    /\ \A d \in Device :
         /\ session[d] # None \/ call[d] # None => vault[UserOf[d]] # None
         /\ call[d] # None /\ call[d].op # "recover" => session[d] # None
         /\ call[d] # None /\ call[d].op = "share" /\ call[d].stage = "passed" =>
              vault[call[d].with] # None
    /\ \A u \in Holders : vault[u] # None

(* The grants that a checked re-keying sends cover those that it found...  *)
CoverFits(c) ==
    c # None /\ c.stage = "covered" =>
        (c.rewrapped = None) = (Cover(c.op, c.held) = None)

(* ... and a shared grant that a recovery has found is replaced by none.   *)
SharedStays(c, g) ==
    c # None /\ c.op = "recover" /\ c.stage = "covered" => g.ecdh \in {c.held.ecdh, None}

KeyInv ==
    /\ TypeOK
    /\ Backed
    /\ \A d \in Device : CoverFits(call[d])
    /\ "shared" \notin mishaps =>
         \A d \in Device : SharedStays(call[d], grants[UserOf[d]])
    /\ VaultsOpen
    /\ GrantsOpen
    /\ GrantsPaired
    /\ GrantsOfMembers

LEMMA NoGrantsTyped == NoGrants \in Grants
  BY DEF NoGrants, Grants

LEMMA NewVaultWhole == \A n \in Key : NewVault(n) \in Vault /\ Whole(NewVault(n))
  BY DEF NewVault, Vault, Whole

LEMMA CallKinds ==
  ASSUME TypeOK, NEW d \in Device, call[d] # None
  PROVE  /\ call[d] \in Call
         /\ call[d].op = "store" => call[d] \in StoreCall
         /\ call[d].op = "share" => call[d] \in ShareCall
         /\ call[d].op \in {"password", "recover", "regenerate"} => call[d] \in RekeyCall
<1>1. call[d] \in Call  BY DEF TypeOK
<1> QED  BY <1>1 DEF Call, StoreCall, ShareCall, RekeyCall

LEMMA InitHolds == Init => KeyInv
<1> SUFFICES ASSUME Init  PROVE KeyInv
  OBVIOUS
<1>1. 0 \in Key  BY KeyBounds DEF Key
<1>2. \A u \in User : vault[u] # None => vault[u] = NewVault(0)  BY DEF Init
<1>3. TypeOK
  <2>1. vault \in [User -> Vault \cup {None}]  BY <1>1, NewVaultWhole DEF Init
  <2>2. grants \in [User -> Grants]  BY NoGrantsTyped DEF Init
  <2> QED  BY <2>1, <2>2, OwnerAssumption, KeyBounds DEF Init, TypeOK
<1>4. Holders = {}  BY DEF Init, Holders
<1>5. Backed  BY <1>4 DEF Init, Backed
<1>6. VaultsOpen  BY <1>1, <1>2, NewVaultWhole DEF VaultsOpen
<1>7. GrantsPaired  BY DEF Init, GrantsPaired, NoGrants
<1>8. \A d \in Device : CoverFits(call[d]) /\ SharedStays(call[d], grants[UserOf[d]])
  BY DEF Init, CoverFits, SharedStays
<1> QED  BY <1>3, <1>4, <1>5, <1>6, <1>7, <1>8 DEF KeyInv, GrantsOpen, GrantsOfMembers

(* A step that changes no vault and no grant. *)
LEMMA CallKeeps ==
  ASSUME KeyInv, NEW d \in Device, NEW c \in Call \cup {None}, NEW s \in Session \cup {None},
         call' = [call EXCEPT ![d] = c],
         session' = [session EXCEPT ![d] = s],
         calls' \in 0..MaxCalls,
         UNCHANGED <<members, vault, grants, keys, mishaps>>,
         s # None \/ c # None => vault[UserOf[d]] # None,
         c # None /\ c.op # "recover" => s # None,
         c # None /\ c.op = "share" /\ c.stage = "passed" => vault[c.with] # None,
         CoverFits(c), SharedStays(c, grants[UserOf[d]])
  PROVE  KeyInv'
<1>1. \A e \in Device : /\ call'[e] = IF e = d THEN c ELSE call[e]
                        /\ session'[e] = IF e = d THEN s ELSE session[e]
  BY DEF KeyInv, TypeOK
<1>2. TypeOK'  BY DEF KeyInv, TypeOK
<1>3. Backed'
  <2>1. Holders' = Holders  BY DEF Holders
  <2> QED  BY <1>1, <2>1 DEF KeyInv, Backed
<1>4. \A e \in Device : CoverFits(call'[e])  BY <1>1 DEF KeyInv
<1>5. "shared" \notin mishaps =>
        \A e \in Device : SharedStays(call'[e], grants[UserOf[e]])
  BY <1>1 DEF KeyInv
<1>6. VaultsOpen' /\ GrantsOpen' /\ GrantsPaired' /\ GrantsOfMembers'
  BY DEF KeyInv, VaultsOpen, GrantsOpen, GrantsPaired, GrantsOfMembers, Holders
<1> QED  BY <1>2, <1>3, <1>4, <1>5, <1>6 DEF KeyInv, CoverFits, SharedStays

(* What a device has that is unlocked or serves a call. *)
LEMMA DeviceKinds ==
  ASSUME KeyInv, NEW d \in Device
  PROVE  /\ UserOf[d] \in User
         /\ session[d] # None => session[d] \in Session
         /\ vault[UserOf[d]] # None => vault[UserOf[d]] \in Vault
         /\ session[d] # None \/ call[d] # None => vault[UserOf[d]] # None
         /\ session = [session EXCEPT ![d] = session[d]]
         /\ call = [call EXCEPT ![d] = call[d]]
         /\ calls \in 0..MaxCalls
         /\ grants[UserOf[d]] \in Grants
  BY DeviceAssumption DEF KeyInv, TypeOK, Backed

LEMMA NewKey == TypeOK /\ calls < MaxCalls => New \in Key /\ calls + 1 \in 0..MaxCalls
  BY KeyBounds DEF TypeOK, Key, New

LEMMA EndKeeps ==
  ASSUME KeyInv, NEW d \in Device, GiveUp(d) \/ Lock(d)
  PROVE  KeyInv'
<1>1. UNCHANGED <<members, vault, grants, calls, keys, mishaps>>
  BY DEF GiveUp, Lock, Proceed
<1>2. CoverFits(None) /\ SharedStays(None, grants[UserOf[d]])
  BY DEF CoverFits, SharedStays
<1>3. CASE GiveUp(d)
  <2>1. call' = [call EXCEPT ![d] = None] /\ session' = [session EXCEPT ![d] = session[d]]
    BY <1>3, DeviceKinds DEF GiveUp, Proceed
  <2> QED  BY <1>1, <1>2, <2>1, DeviceKinds, CallKeeps
<1>4. CASE Lock(d)
  <2>1. call' = [call EXCEPT ![d] = None] /\ session' = [session EXCEPT ![d] = None]
    BY <1>4, DeviceKinds DEF Lock
  <2> QED  BY <1>1, <1>2, <2>1, DeviceKinds, CallKeeps
<1> QED  BY <1>3, <1>4

LEMMA UnlockKeeps ==
  ASSUME KeyInv, NEW d \in Device, Unlock(d) \/ ResolveOwn(d)
  PROVE  KeyInv'
<1>1. /\ UNCHANGED <<members, vault, grants, call, calls, keys, mishaps>>
      /\ call[d] = None
  BY DEF Unlock, ResolveOwn
<1>2. CoverFits(None) /\ SharedStays(None, grants[UserOf[d]])
  BY DEF CoverFits, SharedStays
<1>3. PICK s \in Session : session' = [session EXCEPT ![d] = s] /\ vault[UserOf[d]] # None
  <2>1. CASE Unlock(d)
    <3> DEFINE v == vault[UserOf[d]]
    <3>1. v \in Vault  BY <2>1, DeviceKinds DEF Unlock
    <3>2. [kek |-> v.kek, private |-> v.private, recovery |-> v.recovery, key |-> None]
            \in Session
      BY <3>1 DEF Vault, Session
    <3> QED  BY <2>1, <3>2 DEF Unlock
  <2>2. CASE ResolveOwn(d)
    <3> DEFINE own == grants[UserOf[d]].self
    <3>1. session[d] \in Session /\ vault[UserOf[d]] # None
      BY <2>2, DeviceKinds DEF ResolveOwn, Opens
    <3>2. own \in OwnGrant  BY <2>2, DeviceKinds DEF ResolveOwn, Grants
    <3>3. [session[d] EXCEPT !.key = own.key] \in Session
      BY <3>1, <3>2 DEF Session, OwnGrant
    <3> QED  BY <2>2, <3>1, <3>3 DEF ResolveOwn
  <2> QED  BY <2>1, <2>2
<1>4. call' = [call EXCEPT ![d] = None]  BY <1>1, DeviceKinds
<1> QED  BY <1>1, <1>2, <1>3, <1>4, DeviceKinds, CallKeeps

(* A call begins. *)
LEMMA BeginKeeps ==
  ASSUME KeyInv, NEW d \in Device, calls < MaxCalls, session[d] # None,
         NEW s \in Session, session' = [session EXCEPT ![d] = s],
         NEW c \in Call, Begin(d, c), c.stage \in {"sent", "read"}
  PROVE  KeyInv'
<1>1. CoverFits(c) /\ SharedStays(c, grants[UserOf[d]])
  BY DEF CoverFits, SharedStays
<1>2. calls' \in 0..MaxCalls  BY NewKey DEF Begin, KeyInv
<1>3. s # None  BY NoneAssumption
<1> QED  BY <1>1, <1>2, <1>3, DeviceKinds, CallKeeps DEF Begin

LEMMA StoreCallTyped ==
  ASSUME NEW d \in Device, session[d] \in Session, NEW k \in Key, NEW b \in BOOLEAN
  PROVE  StoreOwnCall(d, k, b) \in StoreCall /\ StoreOwnCall(d, k, b).stage = "sent"
  BY DEF StoreOwnCall, StoreCall, Session

LEMMA ResolveKeeps ==
  ASSUME KeyInv, NEW d \in Device, ResolveShared(d) \/ CreateProjectKey(d)
  PROVE  KeyInv'
<1>1. calls < MaxCalls /\ session[d] # None /\ session[d] \in Session
  BY DeviceKinds DEF ResolveShared, CreateProjectKey, Idle, Opens
<1>2. CASE ResolveShared(d)
  <2> DEFINE k == grants[UserOf[d]].ecdh.key
  <2>1. k \in Key
    BY <1>2, DeviceKinds DEF ResolveShared, Grants, SharedGrant
  <2>2. [session[d] EXCEPT !.key = k] \in Session  BY <1>1, <2>1 DEF Session
  <2>3. StoreOwnCall(d, k, FALSE) \in Call /\ StoreOwnCall(d, k, FALSE).stage = "sent"
    BY <1>1, <2>1, StoreCallTyped DEF Call
  <2>4. Begin(d, StoreOwnCall(d, k, FALSE))
        /\ session' = [session EXCEPT ![d] = [session[d] EXCEPT !.key = k]]
    BY <1>2 DEF ResolveShared
  <2> HIDE DEF k
  <2> QED  BY <1>1, <2>2, <2>3, <2>4, BeginKeeps
<1>3. CASE CreateProjectKey(d)
  <2>1. StoreOwnCall(d, New, TRUE) \in Call /\ StoreOwnCall(d, New, TRUE).stage = "sent"
    BY <1>1, NewKey, StoreCallTyped DEF Call, KeyInv
  <2>2. Begin(d, StoreOwnCall(d, New, TRUE)) /\ session' = [session EXCEPT ![d] = session[d]]
    BY <1>3, DeviceKinds DEF CreateProjectKey
  <2> QED  BY <1>1, <2>1, <2>2, BeginKeeps
<1> QED  BY <1>2, <1>3

LEMMA ShareKeeps ==
  ASSUME KeyInv, NEW d \in Device, Share(d)
  PROVE  KeyInv'
<1>1. calls < MaxCalls /\ session[d] # None /\ session[d] \in Session
  BY DeviceKinds DEF Share, Idle
<1>2. PICK u \in members :
        /\ session[d].key # None
        /\ vault[u] # None
        /\ Begin(d, [op |-> "share", stage |-> "sent", with |-> u,
                     key |-> session[d].key, by |-> session[d].private,
                     named |-> session[d].private, to |-> vault[u].public])
        /\ UNCHANGED session
  BY DEF Share
<1> DEFINE c == [op |-> "share", stage |-> "sent", with |-> u,
                 key |-> session[d].key, by |-> session[d].private,
                 named |-> session[d].private, to |-> vault[u].public]
<1>3. u \in User /\ vault[u] \in Vault  BY <1>2 DEF KeyInv, TypeOK
<1>4. c \in ShareCall /\ c.stage = "sent"
  BY <1>1, <1>2, <1>3 DEF ShareCall, Session, Vault
<1>5. session' = [session EXCEPT ![d] = session[d]]  BY <1>2, DeviceKinds
<1>6. Begin(d, c)  BY <1>2
<1> HIDE DEF c
<1> QED  BY <1>1, <1>4, <1>5, <1>6, BeginKeeps DEF Call

LEMMA RekeyCallTyped ==
  ASSUME NEW op \in {"password", "recover", "regenerate"}, NEW v \in Vault, New \in Key
  PROVE  /\ RekeyCallOf(op, v) \in RekeyCall
         /\ RekeyCallOf(op, v).stage = "read"
         /\ RekeyCallOf(op, v).op = op
  BY NoGrantsTyped DEF RekeyCallOf, RekeyCall

LEMMA RekeyBegins ==
  ASSUME KeyInv, NEW d \in Device, ChangePassword(d) \/ Recover(d) \/ Regenerate(d)
  PROVE  KeyInv'
<1> DEFINE v == vault[UserOf[d]]
<1>1. calls < MaxCalls /\ New \in Key /\ calls + 1 \in 0..MaxCalls
  BY NewKey DEF ChangePassword, Recover, Regenerate, Idle, KeyInv
<1>2. v # None /\ v \in Vault
  BY DeviceKinds DEF ChangePassword, Recover, Regenerate
<1>3. session' = [session EXCEPT ![d] = session[d]]
  BY DeviceKinds DEF ChangePassword, Recover, Regenerate
<1>4. CASE ChangePassword(d)
  <2>1. session[d] # None /\ Begin(d, RekeyCallOf("password", v))
    BY <1>4 DEF ChangePassword
  <2> QED  BY <1>1, <1>2, <1>3, <2>1, DeviceKinds, RekeyCallTyped, BeginKeeps DEF Call
<1>5. CASE Recover(d)
  <2> DEFINE i == [v EXCEPT !.recovery = v.hash]
             c == RekeyCallOf("recover", i)
  <2>1. i \in Vault  BY <1>2 DEF Vault
  <2>2. c \in Call /\ c.stage = "read" /\ c.op = "recover"
    BY <1>1, <2>1, RekeyCallTyped DEF Call
  <2>3. Begin(d, c)  BY <1>5 DEF Recover
  <2> HIDE DEF c
  <2>4. CoverFits(c) /\ SharedStays(c, grants[UserOf[d]])
    BY <2>2 DEF CoverFits, SharedStays
  <2>5. session[d] \in Session \cup {None}  BY DeviceKinds
  <2> QED  BY <1>1, <1>2, <1>3, <2>2, <2>3, <2>4, <2>5, CallKeeps DEF Begin
<1>6. CASE Regenerate(d)
  <2> DEFINE i == [v EXCEPT !.kek = session[d].kek]
  <2>1. session[d] # None /\ session[d] \in Session
    BY <1>6, DeviceKinds DEF Regenerate
  <2>2. i \in Vault  BY <1>2, <2>1 DEF Vault, Session
  <2>3. Begin(d, RekeyCallOf("regenerate", i))  BY <1>6 DEF Regenerate
  <2> HIDE DEF i
  <2> QED  BY <1>1, <1>3, <2>1, <2>2, <2>3, RekeyCallTyped, BeginKeeps DEF Call
<1> QED  BY <1>4, <1>5, <1>6

(* A call goes on. *)
LEMMA ProceedKeeps ==
  ASSUME KeyInv, NEW d \in Device, call[d] # None, NEW c \in Call, Proceed(d, c),
         c.op = call[d].op,
         c.op = "share" /\ c.stage = "passed" => vault[c.with] # None,
         CoverFits(c), SharedStays(c, grants[UserOf[d]])
  PROVE  KeyInv'
<1>1. call[d].op # "recover" => session[d] # None  BY DEF KeyInv, Backed
<1>2. session' = [session EXCEPT ![d] = session[d]] /\ calls' \in 0..MaxCalls
  BY DeviceKinds DEF Proceed
<1>3. session[d] \in Session \cup {None} /\ vault[UserOf[d]] # None  BY DeviceKinds
<1>4. /\ call' = [call EXCEPT ![d] = c]
      /\ UNCHANGED <<members, vault, grants, keys, mishaps>>
  BY DEF Proceed
<1>5. c.op # "recover" => session[d] # None  BY <1>1
<1> QED  BY <1>2, <1>3, <1>4, <1>5, CallKeeps

LEMMA PassKeeps ==
  ASSUME KeyInv, NEW d \in Device, PassStore(d) \/ PassShare(d)
  PROVE  KeyInv'
<1>1. CASE PassStore(d)
  <2> DEFINE c == [call[d] EXCEPT !.stage = "passed"]
  <2>1. call[d] # None /\ call[d] \in StoreCall
    BY <1>1, CallKinds DEF PassStore, KeyInv
  <2>2. c \in StoreCall /\ c.op = "store" /\ c.op = call[d].op /\ c.stage = "passed"
    BY <2>1 DEF StoreCall
  <2>3. Proceed(d, c)  BY <1>1 DEF PassStore
  <2> HIDE DEF c
  <2>4. CoverFits(c) /\ SharedStays(c, grants[UserOf[d]])
    BY <2>2 DEF CoverFits, SharedStays
  <2> QED  BY <2>1, <2>2, <2>3, <2>4, ProceedKeeps DEF Call
<1>2. CASE PassShare(d)
  <2> DEFINE c == [call[d] EXCEPT !.stage = "passed", !.named = vault[UserOf[d]].public]
  <2>1. call[d] # None /\ call[d] \in ShareCall /\ vault[call[d].with] # None
    BY <1>2, CallKinds DEF PassShare, KeyInv
  <2>2. vault[UserOf[d]].public \in Key  BY <2>1, DeviceKinds DEF Vault
  <2>3. /\ c \in ShareCall /\ c.op = "share" /\ c.op = call[d].op
        /\ c.stage = "passed" /\ c.with = call[d].with
    BY <2>1, <2>2 DEF ShareCall
  <2>4. Proceed(d, c)  BY <1>2 DEF PassShare
  <2> HIDE DEF c
  <2>5. CoverFits(c) /\ SharedStays(c, grants[UserOf[d]])
    BY <2>3 DEF CoverFits, SharedStays
  <2> QED  BY <2>1, <2>3, <2>4, <2>5, ProceedKeeps DEF Call
<1> QED  BY <1>1, <1>2

LEMMA RekeyProceeds ==
  ASSUME KeyInv, NEW d \in Device, Rewrap(d) \/ PassRekey(d)
  PROVE  KeyInv'
<1>1. /\ call[d] # None /\ call[d] \in RekeyCall
      /\ call[d].op \in {"password", "recover", "regenerate"}
  BY CallKinds DEF Rewrap, PassRekey, KeyInv
<1>2. PICK c \in RekeyCall : Proceed(d, c) /\ c.op = call[d].op /\ c.stage # "covered"
  <2>1. CASE Rewrap(d)
    <3> DEFINE g == Cover(call[d].op, grants[UserOf[d]])
               k == IF g = None THEN None ELSE g.key
    <3>1. k \in Key \cup {None}
      <4>1. grants[UserOf[d]].self \in OwnGrant \cup {None}
            /\ grants[UserOf[d]].recovery \in OwnGrant \cup {None}
        BY DeviceKinds DEF Grants
      <4>2. g \in OwnGrant \cup {None}  BY <4>1 DEF Cover
      <4> QED  BY <4>2 DEF OwnGrant
    <3>2. Proceed(d, [call[d] EXCEPT !.stage = "sent", !.rewrapped = k])
      BY <2>1 DEF Rewrap
    <3> HIDE DEF k
    <3>3. /\ [call[d] EXCEPT !.stage = "sent", !.rewrapped = k] \in RekeyCall
          /\ [call[d] EXCEPT !.stage = "sent", !.rewrapped = k].op = call[d].op
          /\ [call[d] EXCEPT !.stage = "sent", !.rewrapped = k].stage = "sent"
      BY <1>1, <3>1 DEF RekeyCall
    <3> QED  BY <3>2, <3>3
  <2>2. CASE PassRekey(d)
    <3>1. Proceed(d, [call[d] EXCEPT !.stage = "passed"])  BY <2>2 DEF PassRekey
    <3>2. /\ [call[d] EXCEPT !.stage = "passed"] \in RekeyCall
          /\ [call[d] EXCEPT !.stage = "passed"].op = call[d].op
          /\ [call[d] EXCEPT !.stage = "passed"].stage = "passed"
      BY <1>1 DEF RekeyCall
    <3> QED  BY <3>1, <3>2
  <2> QED  BY <2>1, <2>2
<1>3. CoverFits(c) /\ SharedStays(c, grants[UserOf[d]])
  BY <1>2 DEF CoverFits, SharedStays
<1> QED  BY <1>1, <1>2, <1>3, ProceedKeeps DEF Call

(* The grants that were sent cover those that are held at this moment. *)
LEMMA CoverKeeps ==
  ASSUME KeyInv, NEW d \in Device, CheckCover(d)
  PROVE  KeyInv'
<1> DEFINE g == grants[UserOf[d]]
           c == [call[d] EXCEPT !.stage = "covered", !.held = g]
<1>1. /\ call[d] # None /\ call[d] \in RekeyCall
      /\ call[d].op \in {"password", "recover", "regenerate"}
  BY CallKinds DEF CheckCover, KeyInv
<1>2. g \in Grants  BY DeviceKinds
<1>3. /\ c \in RekeyCall /\ c.op = call[d].op /\ c.held = g
      /\ c.rewrapped = call[d].rewrapped
  BY <1>1, <1>2 DEF RekeyCall
<1>4. Proceed(d, c) /\ (call[d].rewrapped = None) = (Cover(call[d].op, g) = None)
  BY DEF CheckCover, Covered
<1> HIDE DEF c, g
<1>5. CoverFits(c)  BY <1>3, <1>4 DEF CoverFits
<1>6. SharedStays(c, g)  BY <1>3 DEF SharedStays
<1> QED  BY <1>1, <1>3, <1>4, <1>5, <1>6, ProceedKeeps DEF Call, g

(***************************************************************************)
(* What is written.                                                        *)
(***************************************************************************)
LEMMA SetUpKeeps ==
  ASSUME KeyInv, NEW d \in Device, SetUpVault(d)
  PROVE  KeyInv'
<1> DEFINE u == UserOf[d]
           s == [kek |-> New, private |-> New, recovery |-> New, key |-> None]
<1>1. u \in User /\ vault[u] = None /\ call[d] = None
  BY DeviceAssumption DEF SetUpVault, Idle
<1>2. New \in Key /\ calls + 1 \in 0..MaxCalls  BY NewKey DEF SetUpVault, Idle, KeyInv
<1>3. s \in Session  BY <1>2 DEF Session
<1>4. NewVault(New) \in Vault /\ NewVault(New) # None /\ Whole(NewVault(New))
  BY <1>2, NewVaultWhole, NoneAssumption
<1>5. /\ vault' = [vault EXCEPT ![u] = NewVault(New)]
      /\ session' = [session EXCEPT ![d] = s]
      /\ UNCHANGED <<members, grants, call, keys, mishaps>> /\ calls' = calls + 1
  BY DEF SetUpVault
<1> HIDE DEF s
<1>6. \A v \in User : vault'[v] = IF v = u THEN NewVault(New) ELSE vault[v]
  BY <1>1, <1>5 DEF KeyInv, TypeOK
<1>7. TypeOK'  BY <1>2, <1>3, <1>4, <1>5 DEF KeyInv, TypeOK
<1>8. u \notin Holders /\ Holders' = Holders  BY <1>1, <1>5 DEF KeyInv, Backed, Holders
<1>9. Backed'
  <2>1. \A e \in Device : UserOf[e] \in User  BY DeviceAssumption
  <2>2. \A e \in Device : e # d => session'[e] = session[e]  BY <1>5 DEF KeyInv, TypeOK
  <2>3. \A v \in User : vault[v] # None => vault'[v] # None  BY <1>4, <1>6
  <2>4. vault'[u] # None  BY <1>1, <1>4, <1>6
  <2>5. \A e \in Device : call[e] # None /\ call[e].op = "share" => call[e].with \in User
    BY CallKinds DEF KeyInv, ShareCall
  <2>6. \A v \in Holders : v \in User  BY DEF Holders
  <2>7. \A e \in Device : call[e] # None /\ call[e].op = "share" /\ call[e].stage = "passed"
          => vault'[call[e].with] # None
    BY <2>3, <2>5 DEF KeyInv, Backed
  <2>8. \A v \in Holders : vault'[v] # None  BY <2>3, <2>6 DEF KeyInv, Backed
  <2>9. \A e \in Device : /\ session'[e] # None \/ call[e] # None => vault'[UserOf[e]] # None
                          /\ call[e] # None /\ call[e].op # "recover" => session'[e] # None
    BY <2>1, <2>2, <2>3, <2>4, <1>1 DEF KeyInv, Backed
  <2> QED  BY <1>5, <1>8, <2>7, <2>8, <2>9 DEF Backed
<1>10. VaultsOpen'  BY <1>4, <1>5, <1>6 DEF KeyInv, VaultsOpen
<1>11. GrantsOpen'
  <2>1. \A v \in Holders : vault'[v] = vault[v]  BY <1>6, <1>8 DEF Holders
  <2> QED  BY <1>5, <1>8, <2>1 DEF KeyInv, GrantsOpen
<1>12. GrantsPaired' /\ GrantsOfMembers'
  BY <1>5, <1>8 DEF KeyInv, GrantsPaired, GrantsOfMembers
<1>13. /\ \A e \in Device : CoverFits(call'[e])
       /\ "shared" \notin mishaps' =>
            \A e \in Device : SharedStays(call'[e], grants'[UserOf[e]])
  BY <1>5 DEF KeyInv
<1> QED  BY <1>7, <1>9, <1>10, <1>11, <1>12, <1>13 DEF KeyInv, CoverFits, SharedStays

LEMMA MembersKeep ==
  ASSUME KeyInv, NEW u \in User, Join(u) \/ Remove(u)
  PROVE  KeyInv'
<1>1. UNCHANGED <<vault, session, call, calls, keys, mishaps>>  BY DEF Join, Remove
<1>2. \A v \in User : grants'[v] = grants[v] \/ grants'[v] = NoGrants
  BY DEF Join, Remove, KeyInv, TypeOK
<1>3. TypeOK'  BY <1>1, NoGrantsTyped DEF Join, Remove, KeyInv, TypeOK
<1>4. Holders' \subseteq Holders /\ \A v \in Holders' : grants'[v] = grants[v]
  BY <1>2 DEF Holders
<1>5. Backed'  BY <1>1, <1>4 DEF KeyInv, Backed
<1>6. \A d \in Device : CoverFits(call'[d])  BY <1>1 DEF KeyInv
<1>7. ASSUME NEW d \in Device, "shared" \notin mishaps
      PROVE  SharedStays(call'[d], grants'[UserOf[d]])
  <2>1. UserOf[d] \in User  BY DeviceAssumption
  <2>2. NoGrants.ecdh = None  BY DEF NoGrants
  <2> QED  BY <1>1, <1>2, <1>7, <2>1, <2>2 DEF KeyInv, SharedStays
<1>8. VaultsOpen'  BY <1>1 DEF KeyInv, VaultsOpen
<1>9. GrantsOpen'  BY <1>1, <1>4 DEF KeyInv, GrantsOpen
<1>10. GrantsPaired'
  <2>1. NoGrants.self = NoGrants.recovery  BY DEF NoGrants
  <2> QED  BY <1>1, <1>2, <2>1 DEF KeyInv, GrantsPaired
<1>11. GrantsOfMembers'
  <2>1. CASE Join(u)  BY <2>1, <1>1, <1>4 DEF Join, KeyInv, GrantsOfMembers
  <2>2. CASE Remove(u)
    <3>1. u \notin Holders'  BY <2>2 DEF Remove, Holders, KeyInv, TypeOK
    <3> QED  BY <2>2, <3>1, <1>1, <1>4 DEF Remove, KeyInv, GrantsOfMembers
  <2> QED  BY <2>1, <2>2
<1> QED
  BY <1>1, <1>3, <1>5, <1>6, <1>7, <1>8, <1>9, <1>10, <1>11 DEF KeyInv, CoverFits, SharedStays

(* Own grants: the keys they are wrapped with are the vault's, or there is *)
(* a mishap. *)
LEMMA StoreOwnKeeps ==
  ASSUME KeyInv, NEW d \in Device, StoreOwn(d)
  PROVE  KeyInv'
<1> DEFINE u == UserOf[d]
           c == call[d]
           g == [self |-> [key |-> c.key, under |-> c.kek],
                 recovery |-> [key |-> c.key, under |-> c.recovery],
                 ecdh |-> None]
           s == IF c.created THEN [session[d] EXCEPT !.key = c.key] ELSE session[d]
<1>1. /\ c # None /\ c.op = "store" /\ c \in StoreCall /\ u \in User
      /\ session[d] # None /\ session[d] \in Session
      /\ vault[u] # None
  BY CallKinds, DeviceKinds DEF StoreOwn, KeyInv, Backed
<1>2. /\ grants' = [grants EXCEPT ![u] = g]
      /\ call' = [call EXCEPT ![d] = None]
      /\ UNCHANGED <<members, vault, calls>>
      /\ mishaps \subseteq mishaps'
      /\ u \in members \/ "left" \in mishaps'
      /\ (c.kek = vault[u].kek /\ c.recovery = vault[u].hash) \/ "stored" \in mishaps'
      /\ mishaps' \subseteq mishaps \cup {"left", "stored"}
      /\ keys' = IF c.created THEN keys \cup {c.key} ELSE keys
  BY DEF StoreOwn, Note, When
<1>3. session' = [session EXCEPT ![d] = s]
  BY DeviceKinds DEF StoreOwn
<1>4. s \in Session  BY <1>1 DEF StoreCall, Session
<1>5. g \in Grants  BY <1>1 DEF StoreCall, Grants, OwnGrant
<1>6. /\ g.self.under = c.kek /\ g.recovery.under = c.recovery /\ g.ecdh = None
      /\ g.self # None /\ g.recovery # None
  BY <1>1, NoneAssumption DEF StoreCall, OwnGrant
<1> HIDE DEF g, s
<1>7. /\ \A v \in User : grants'[v] = IF v = u THEN g ELSE grants[v]
      /\ \A e \in Device : /\ call'[e] = IF e = d THEN None ELSE call[e]
                           /\ session'[e] = IF e = d THEN s ELSE session[e]
  BY <1>2, <1>3 DEF KeyInv, TypeOK
<1>8. TypeOK'
  <2>1. keys' \subseteq Key  BY <1>1, <1>2 DEF KeyInv, TypeOK, StoreCall
  <2>2. mishaps' \subseteq {"left", "stored", "shared", "rekeyed", "changed"}
    BY <1>2 DEF KeyInv, TypeOK
  <2>3. session' \in [Device -> Session \cup {None}]  BY <1>3, <1>4 DEF KeyInv, TypeOK
  <2>4. grants' \in [User -> Grants]  BY <1>2, <1>5 DEF KeyInv, TypeOK
  <2>5. call' \in [Device -> Call \cup {None}]  BY <1>2 DEF KeyInv, TypeOK
  <2> QED  BY <1>2, <2>1, <2>2, <2>3, <2>4, <2>5 DEF KeyInv, TypeOK
<1>9. Holders' \subseteq Holders \cup {u}  BY <1>7 DEF Holders
<1>10. Backed'
  <2>1. \A v \in Holders' : vault[v] # None  BY <1>1, <1>9 DEF KeyInv, Backed
  <2> QED  BY <1>1, <1>2, <1>7, <2>1, NoneAssumption, <1>4 DEF KeyInv, Backed
<1>11. \A e \in Device : CoverFits(call'[e])  BY <1>7 DEF KeyInv, CoverFits
<1>12. ASSUME NEW e \in Device, "shared" \notin mishaps'
       PROVE  SharedStays(call'[e], grants'[UserOf[e]])
  <2>1. UserOf[e] \in User  BY DeviceAssumption
  <2> QED  BY <1>2, <1>6, <1>7, <1>12, <2>1 DEF KeyInv, SharedStays
<1>13. VaultsOpen'  BY <1>2 DEF KeyInv, VaultsOpen
<1>14. GrantsOpen'
  <2> SUFFICES ASSUME mishaps' \cap {"stored", "shared", "rekeyed"} = {}, NEW v \in Holders'
               PROVE  /\ grants'[v].self # None => grants'[v].self.under = vault'[v].kek
                      /\ grants'[v].recovery # None => grants'[v].recovery.under = vault'[v].hash
                      /\ grants'[v].ecdh # None =>
                           /\ grants'[v].ecdh.to = vault'[v].private
                           /\ grants'[v].ecdh.by = grants'[v].ecdh.named
    BY DEF GrantsOpen
  <2>1. CASE v = u  BY <2>1, <1>1, <1>2, <1>6, <1>7
  <2>2. CASE v # u
    <3>1. v \in Holders /\ v \in User  BY <2>2, <1>9 DEF Holders
    <3> QED  BY <2>2, <3>1, <1>2, <1>7 DEF KeyInv, GrantsOpen
  <2> QED  BY <2>1, <2>2
<1>15. GrantsPaired'  BY <1>2, <1>6, <1>7 DEF KeyInv, GrantsPaired
<1>16. GrantsOfMembers'  BY <1>2, <1>9 DEF KeyInv, GrantsOfMembers
<1> QED
  BY <1>8, <1>10, <1>11, <1>12, <1>13, <1>14, <1>15, <1>16 DEF KeyInv, CoverFits, SharedStays

(* A shared grant: it is wrapped for the public key of the vault, and no   *)
(* recovery has passed its check, or there is a mishap.                    *)
LEMMA StoreSharedKeeps ==
  ASSUME KeyInv, NEW d \in Device, StoreShared(d)
  PROVE  KeyInv'
<1> DEFINE c == call[d]
           u == c.with
           e == [key |-> c.key, by |-> c.by, named |-> c.named, to |-> c.to]
<1>1. /\ c # None /\ c.op = "share" /\ c.stage = "passed" /\ c \in ShareCall
  BY CallKinds DEF StoreShared, KeyInv
<1>2. /\ grants' = [grants EXCEPT ![u].ecdh = e]
      /\ call' = [call EXCEPT ![d] = None]
      /\ UNCHANGED <<members, vault, session, calls, keys>>
      /\ mishaps \subseteq mishaps' /\ mishaps' \subseteq mishaps \cup {"left", "shared"}
      /\ u \in members \/ "left" \in mishaps'
      /\ \/ c.to = vault[u].public /\ c.by = c.named /\ Recovering(u) = {}
         \/ "shared" \in mishaps'
  BY DEF StoreShared, Note, When
<1>3. u \in User /\ vault[u] # None /\ grants[u] \in Grants
  BY <1>1 DEF KeyInv, TypeOK, Backed, ShareCall
<1>4. e \in SharedGrant /\ e.to = c.to /\ e.by = c.by /\ e.named = c.named
  BY <1>1 DEF ShareCall, SharedGrant
<1> HIDE DEF e, u
<1> DEFINE g == [grants[u] EXCEPT !.ecdh = e]
<1>5. /\ g \in Grants /\ g.self = grants[u].self /\ g.recovery = grants[u].recovery
      /\ g.ecdh = e
  BY <1>3, <1>4 DEF Grants
<1>6. grants' = [grants EXCEPT ![u] = g]  BY <1>2
<1> HIDE DEF g
<1>7. /\ \A v \in User : grants'[v] = IF v = u THEN g ELSE grants[v]
      /\ \A f \in Device : call'[f] = IF f = d THEN None ELSE call[f]
  BY <1>2, <1>6 DEF KeyInv, TypeOK
<1>8. TypeOK'
  <2>1. mishaps' \subseteq {"left", "stored", "shared", "rekeyed", "changed"}
    BY <1>2 DEF KeyInv, TypeOK
  <2>2. grants' \in [User -> Grants]  BY <1>5, <1>6 DEF KeyInv, TypeOK
  <2>3. call' \in [Device -> Call \cup {None}]  BY <1>2 DEF KeyInv, TypeOK
  <2> QED  BY <1>2, <2>1, <2>2, <2>3 DEF KeyInv, TypeOK
<1>9. Holders' \subseteq Holders \cup {u}  BY <1>7 DEF Holders
<1>10. Backed'
  <2>1. \A v \in Holders' : vault[v] # None  BY <1>3, <1>9 DEF KeyInv, Backed
  <2> QED  BY <1>2, <1>7, <2>1 DEF KeyInv, Backed
<1>11. \A f \in Device : CoverFits(call'[f])  BY <1>7 DEF KeyInv, CoverFits
<1>12. ASSUME NEW f \in Device, "shared" \notin mishaps'
       PROVE  SharedStays(call'[f], grants'[UserOf[f]])
  <2>1. UserOf[f] \in User  BY DeviceAssumption
  <2>2. CASE f = d  BY <2>2, <1>7 DEF SharedStays
  <2>3. CASE UserOf[f] = u /\ f # d
    <3>1. f \notin Recovering(u)  BY <1>2, <1>12
    <3> QED  BY <3>1, <2>3, <1>7 DEF SharedStays, Recovering
  <2>4. CASE UserOf[f] # u /\ f # d
    BY <2>1, <2>4, <1>2, <1>7, <1>12 DEF KeyInv
  <2> QED  BY <2>2, <2>3, <2>4
<1>13. VaultsOpen'  BY <1>2 DEF KeyInv, VaultsOpen
<1>14. GrantsOpen'
  <2> SUFFICES ASSUME mishaps' \cap {"stored", "shared", "rekeyed"} = {}, NEW v \in Holders'
               PROVE  /\ grants'[v].self # None => grants'[v].self.under = vault'[v].kek
                      /\ grants'[v].recovery # None => grants'[v].recovery.under = vault'[v].hash
                      /\ grants'[v].ecdh # None =>
                           /\ grants'[v].ecdh.to = vault'[v].private
                           /\ grants'[v].ecdh.by = grants'[v].ecdh.named
    BY DEF GrantsOpen
  <2>1. mishaps \cap {"stored", "shared", "rekeyed"} = {}  BY <1>2
  <2>2. v \in User  BY DEF Holders
  <2>3. v \in Holders =>
          (grants[v].self # None => grants[v].self.under = vault[v].kek)
    BY <2>1 DEF KeyInv, GrantsOpen
  <2>4. v \in Holders =>
          (grants[v].recovery # None => grants[v].recovery.under = vault[v].hash)
    BY <2>1 DEF KeyInv, GrantsOpen
  <2>5. v \notin Holders => grants[v].self = None /\ grants[v].recovery = None
    BY <2>2 DEF Holders, NoGrants
  <2>6. CASE v = u
    <3>1. vault[u].public = vault[u].private
      BY <1>3, <2>1 DEF KeyInv, VaultsOpen, Whole
    <3> QED  BY <2>2, <2>3, <2>4, <2>5, <2>6, <3>1, <1>2, <1>4, <1>5, <1>7
  <2>7. CASE v # u
    <3>1. v \in Holders  BY <2>7, <1>9
    <3> QED  BY <2>1, <2>2, <2>7, <3>1, <1>2, <1>7 DEF KeyInv, GrantsOpen
  <2> QED  BY <2>6, <2>7
<1>15. GrantsPaired'  BY <1>2, <1>5, <1>7 DEF KeyInv, GrantsPaired
<1>16. GrantsOfMembers'  BY <1>2, <1>9 DEF KeyInv, GrantsOfMembers
<1> QED
  BY <1>8, <1>10, <1>11, <1>12, <1>13, <1>14, <1>15, <1>16 DEF KeyInv, CoverFits, SharedStays

LEMMA RekeyedVault ==
  ASSUME NEW c \in RekeyCall, NEW v \in Vault
  PROVE  /\ Rekeyed(c, v) \in Vault
         /\ ~Outdated(c, v) /\ Whole(v) =>
              /\ Whole(Rekeyed(c, v))
              /\ Rekeyed(c, v).kek = IF c.op = "regenerate" THEN v.kek ELSE c.new
              /\ Rekeyed(c, v).hash = IF c.op = "regenerate" THEN c.new ELSE v.hash
              /\ Rekeyed(c, v).private = IF c.op = "recover" THEN c.new ELSE v.private
<1>1. c.op \in {"password", "recover", "regenerate"} /\ c.info \in Vault /\ c.new \in Key
  BY DEF RekeyCall
<1>2. CASE c.op = "password"
  BY <1>1, <1>2 DEF Rekeyed, Outdated, Whole, Vault
<1>3. CASE c.op = "recover"
  BY <1>1, <1>3 DEF Rekeyed, Outdated, Whole, Vault
<1>4. CASE c.op = "regenerate"
  BY <1>1, <1>4 DEF Rekeyed, Outdated, Whole, Vault
<1> QED  BY <1>1, <1>2, <1>3, <1>4

(* The own grant that a re-keying writes is there just if it was re-wrapped, *)
(* and opens with the new key. *)
LEMMA ReplacedGrants ==
  ASSUME NEW c \in RekeyCall, NEW g \in Grants
  PROVE  LET r == Replaced(c, g) IN
         /\ r \in Grants
         /\ c.op # "regenerate" =>
              /\ r.self = None <=> c.rewrapped = None
              /\ r.self # None => r.self.under = c.new
              /\ r.recovery = g.recovery
         /\ c.op = "regenerate" =>
              /\ r.recovery = None <=> c.rewrapped = None
              /\ r.recovery # None => r.recovery.under = c.new
              /\ r.self = g.self
         /\ c.op # "recover" => r.ecdh = g.ecdh
         /\ c.op = "recover" => r.ecdh = IF g.ecdh = c.held.ecdh THEN None ELSE g.ecdh
<1> DEFINE own == IF c.rewrapped = None THEN None
                  ELSE [key |-> c.rewrapped, under |-> c.new]
<1>1. /\ c.op \in {"password", "recover", "regenerate"}
      /\ c.rewrapped \in Key \cup {None} /\ c.new \in Key
  BY DEF RekeyCall
<1>2. /\ own \in OwnGrant \cup {None}
      /\ own = None <=> c.rewrapped = None
      /\ own # None => own.under = c.new
  BY <1>1, NoneAssumption DEF OwnGrant
<1>3. /\ g.self \in OwnGrant \cup {None} /\ g.recovery \in OwnGrant \cup {None}
      /\ g.ecdh \in SharedGrant \cup {None}
  BY DEF Grants
<1>4. Replaced(c, g) =
        CASE c.op = "password" -> [g EXCEPT !.self = own]
          [] c.op = "regenerate" -> [g EXCEPT !.recovery = own]
          [] c.op = "recover" ->
               [g EXCEPT !.self = own,
                         !.ecdh = IF g.ecdh = c.held.ecdh THEN None ELSE g.ecdh]
  BY DEF Replaced
<1> HIDE DEF own
<1>5. CASE c.op = "password"  BY <1>2, <1>3, <1>4, <1>5 DEF Grants
<1>6. CASE c.op = "recover"
  <2> DEFINE e == IF g.ecdh = c.held.ecdh THEN None ELSE g.ecdh
  <2>1. e \in SharedGrant \cup {None}  BY <1>3
  <2>2. Replaced(c, g) = [g EXCEPT !.self = own, !.ecdh = e]  BY <1>4, <1>6
  <2> HIDE DEF e
  <2>3. /\ Replaced(c, g) \in Grants /\ Replaced(c, g).self = own
        /\ Replaced(c, g).ecdh = e /\ Replaced(c, g).recovery = g.recovery
    BY <1>2, <2>1, <2>2 DEF Grants
  <2> QED  BY <1>2, <1>6, <2>3 DEF e
<1>7. CASE c.op = "regenerate"  BY <1>2, <1>3, <1>4, <1>7 DEF Grants
<1> QED  BY <1>1, <1>5, <1>6, <1>7

LEMMA ReplaceKeeps ==
  ASSUME KeyInv, NEW d \in Device, ReplaceGrants(d)
  PROVE  KeyInv'
<1> DEFINE u == UserOf[d]
           c == call[d]
           v == vault[u]
           g == grants[u]
           w == Rekeyed(c, v)
           r == Replaced(c, g)
           s == NewSession(d, c)
<1>1. /\ c # None /\ c.stage = "covered" /\ c \in RekeyCall /\ u \in User
      /\ c.op \in {"password", "recover", "regenerate"}
      /\ v # None /\ v \in Vault /\ g \in Grants
      /\ c.op # "recover" => session[d] # None /\ session[d] \in Session
  BY CallKinds, DeviceKinds DEF ReplaceGrants, KeyInv, Backed
<1>2. /\ vault' = [vault EXCEPT ![u] = w]
      /\ grants' = [grants EXCEPT ![u] = r]
      /\ session' = [session EXCEPT ![d] = s]
      /\ call' = [call EXCEPT ![d] = None]
      /\ UNCHANGED <<members, calls, keys>>
      /\ mishaps \subseteq mishaps' /\ mishaps' \subseteq mishaps \cup {"rekeyed", "changed"}
      /\ ~Outdated(c, v) \/ "rekeyed" \in mishaps'
      /\ g = c.held \/ "changed" \in mishaps'
  BY DEF ReplaceGrants, Note, When
<1>3. s \in Session
  <2>1. c.new \in Key /\ c.info \in Vault  BY <1>1 DEF RekeyCall
  <2>2. c.info.recovery \in Key  BY <2>1 DEF Vault
  <2> QED  BY <1>1, <2>1, <2>2 DEF NewSession, Session
<1>4. w \in Vault /\ w # None /\ r \in Grants
  BY <1>1, RekeyedVault, ReplacedGrants, NoneAssumption
<1>5. ASSUME "rekeyed" \notin mishaps'
      PROVE  /\ Whole(v) /\ Whole(w)
             /\ w.kek = IF c.op = "regenerate" THEN v.kek ELSE c.new
             /\ w.hash = IF c.op = "regenerate" THEN c.new ELSE v.hash
             /\ w.private = IF c.op = "recover" THEN c.new ELSE v.private
  <2>1. Whole(v)  BY <1>1, <1>2, <1>5 DEF KeyInv, VaultsOpen
  <2>2. ~Outdated(c, v)  BY <1>2, <1>5
  <2> QED  BY <2>1, <2>2, <1>1, RekeyedVault
<1>6. /\ c.op # "regenerate" =>
           /\ r.self = None <=> c.rewrapped = None
           /\ r.self # None => r.self.under = c.new
           /\ r.recovery = g.recovery
      /\ c.op = "regenerate" =>
           /\ r.recovery = None <=> c.rewrapped = None
           /\ r.recovery # None => r.recovery.under = c.new
           /\ r.self = g.self
      /\ c.op # "recover" => r.ecdh = g.ecdh
      /\ c.op = "recover" => r.ecdh = IF g.ecdh = c.held.ecdh THEN None ELSE g.ecdh
  BY <1>1, ReplacedGrants
<1>7. (c.rewrapped = None) = (Cover(c.op, c.held) = None)
  BY <1>1 DEF KeyInv, CoverFits
<1>8. "shared" \notin mishaps /\ c.op = "recover" => g.ecdh \in {c.held.ecdh, None}
  BY <1>1 DEF KeyInv, SharedStays
<1> HIDE DEF w, r, s
<1>9. /\ \A x \in User : /\ grants'[x] = IF x = u THEN r ELSE grants[x]
                        /\ vault'[x] = IF x = u THEN w ELSE vault[x]
      /\ \A f \in Device : /\ call'[f] = IF f = d THEN None ELSE call[f]
                          /\ session'[f] = IF f = d THEN s ELSE session[f]
  BY <1>2 DEF KeyInv, TypeOK
<1>10. TypeOK'
  <2>1. mishaps' \subseteq {"left", "stored", "shared", "rekeyed", "changed"}
    BY <1>2 DEF KeyInv, TypeOK
  <2>2. vault' \in [User -> Vault \cup {None}] /\ grants' \in [User -> Grants]
    BY <1>2, <1>4 DEF KeyInv, TypeOK
  <2>3. session' \in [Device -> Session \cup {None}] /\ call' \in [Device -> Call \cup {None}]
    BY <1>2, <1>3 DEF KeyInv, TypeOK
  <2> QED  BY <1>2, <2>1, <2>2, <2>3 DEF KeyInv, TypeOK
<1>11. Holders' \subseteq Holders \cup {u}  BY <1>9 DEF Holders
<1>12. Backed'
  <2>1. \A x \in User : vault[x] # None => vault'[x] # None  BY <1>4, <1>9
  <2>2. vault'[u] # None  BY <1>1, <1>4, <1>9
  <2>3. \A f \in Device : call[f] # None /\ call[f].op = "share" => call[f].with \in User
    BY CallKinds DEF KeyInv, ShareCall
  <2>4. \A x \in Holders' : vault'[x] # None
    BY <2>1, <2>2, <1>11 DEF KeyInv, Backed, Holders
  <2>5. \A f \in Device : UserOf[f] \in User  BY DeviceAssumption
  <2>6. s # None  BY <1>3, NoneAssumption
  <2>7. \A f \in Device :
          /\ session'[f] # None \/ call'[f] # None => vault'[UserOf[f]] # None
          /\ call'[f] # None /\ call'[f].op # "recover" => session'[f] # None
    BY <2>1, <2>2, <2>5, <2>6, <1>9 DEF KeyInv, Backed
  <2>8. \A f \in Device :
          call'[f] # None /\ call'[f].op = "share" /\ call'[f].stage = "passed" =>
              vault'[call'[f].with] # None
    BY <2>1, <2>3, <1>9 DEF KeyInv, Backed
  <2> QED  BY <2>4, <2>7, <2>8 DEF Backed
<1>13. \A f \in Device : CoverFits(call'[f])  BY <1>9 DEF KeyInv, CoverFits
<1>14. ASSUME NEW f \in Device, "shared" \notin mishaps'
       PROVE  SharedStays(call'[f], grants'[UserOf[f]])
  <2>1. UserOf[f] \in User /\ "shared" \notin mishaps  BY DeviceAssumption, <1>2, <1>14
  <2>2. grants'[UserOf[f]].ecdh \in {grants[UserOf[f]].ecdh, None}
    BY <2>1, <1>1, <1>6, <1>9
  <2>3. call'[f] # None => SharedStays(call'[f], grants[UserOf[f]])
    BY <2>1, <1>9 DEF KeyInv
  <2> QED  BY <2>2, <2>3 DEF SharedStays
<1>15. VaultsOpen'
  <2>1. "rekeyed" \notin mishaps' => "rekeyed" \notin mishaps  BY <1>2
  <2> QED  BY <2>1, <1>5, <1>9 DEF KeyInv, VaultsOpen
<1>16. GrantsOpen'
  <2> SUFFICES ASSUME mishaps' \cap {"stored", "shared", "rekeyed"} = {}, NEW x \in Holders'
               PROVE  /\ grants'[x].self # None => grants'[x].self.under = vault'[x].kek
                      /\ grants'[x].recovery # None => grants'[x].recovery.under = vault'[x].hash
                      /\ grants'[x].ecdh # None =>
                           /\ grants'[x].ecdh.to = vault'[x].private
                           /\ grants'[x].ecdh.by = grants'[x].ecdh.named
    BY DEF GrantsOpen
  <2>1. mishaps \cap {"stored", "shared", "rekeyed"} = {}  BY <1>2
  <2>2. x \in User  BY DEF Holders
  <2>3. CASE x = u
    <3>1. /\ g.self # None => g.self.under = v.kek
          /\ g.recovery # None => g.recovery.under = v.hash
          /\ g.ecdh # None => g.ecdh.to = v.private /\ g.ecdh.by = g.ecdh.named
      <4>1. CASE u \in Holders  BY <4>1, <2>1 DEF KeyInv, GrantsOpen
      <4>2. CASE u \notin Holders  BY <4>2, <1>1 DEF Holders, NoGrants
      <4> QED  BY <4>1, <4>2
    <3>2. c.op = "recover" => r.ecdh = None  BY <2>1, <1>6, <1>8
    <3>3. grants'[x] = r /\ vault'[x] = w  BY <2>2, <2>3, <1>9
    <3>4. "rekeyed" \notin mishaps'  OBVIOUS
    <3> QED  BY <3>1, <3>2, <3>3, <3>4, <1>5, <1>6
  <2>4. CASE x # u
    <3>1. x \in Holders  BY <2>4, <1>11
    <3> QED  BY <2>1, <2>2, <2>4, <3>1, <1>9 DEF KeyInv, GrantsOpen
  <2> QED  BY <2>3, <2>4
<1>17. GrantsPaired'
  <2> SUFFICES ASSUME "changed" \notin mishaps', NEW x \in User
               PROVE  (grants'[x].self = None) = (grants'[x].recovery = None)
    BY DEF GrantsPaired
  <2>1. (grants[x].self = None) = (grants[x].recovery = None)
    BY <1>2 DEF KeyInv, GrantsPaired
  <2>2. CASE x = u
    <3>1. g = c.held  BY <1>2
    <3>2. (c.rewrapped = None) = (Cover(c.op, g) = None)  BY <3>1, <1>7
    <3>3. grants'[x] = r  BY <2>2, <1>9
    <3> QED  BY <2>1, <2>2, <3>2, <3>3, <1>1, <1>6 DEF Cover
  <2>3. CASE x # u  BY <2>1, <2>3, <1>9
  <2> QED  BY <2>2, <2>3
<1>18. GrantsOfMembers'
  <2> SUFFICES ASSUME mishaps' \cap {"left", "changed"} = {}, u \in Holders'
               PROVE  u \in members
    BY <1>2, <1>11 DEF KeyInv, GrantsOfMembers
  <2>1. g = c.held /\ mishaps \cap {"left", "changed"} = {}  BY <1>2
  <2>2. u \in Holders
    <3> SUFFICES ASSUME g = NoGrants  PROVE FALSE
      BY <1>1 DEF Holders
    <3>1. g.self = None /\ g.recovery = None /\ g.ecdh = None  BY DEF NoGrants
    <3>2. c.rewrapped = None  BY <3>1, <2>1, <1>7 DEF Cover
    <3>3. r.self = None /\ r.recovery = None /\ r.ecdh = None
      BY <3>1, <3>2, <1>1, <1>6
    <3>4. r = NoGrants  BY <3>3, <1>4 DEF Grants, NoGrants
    <3> QED  BY <3>4, <1>9 DEF Holders
  <2> QED  BY <2>1, <2>2 DEF KeyInv, GrantsOfMembers
<1> QED
  BY <1>10, <1>12, <1>13, <1>14, <1>15, <1>16, <1>17, <1>18
     DEF KeyInv, CoverFits, SharedStays

LEMMA StepKeeps == KeyInv /\ [Next]_vars => KeyInv'
<1> SUFFICES ASSUME KeyInv, [Next]_vars  PROVE KeyInv'
  OBVIOUS
<1>1. CASE UNCHANGED vars
  BY <1>1 DEF vars, KeyInv, TypeOK, Backed, CoverFits, SharedStays, VaultsOpen, GrantsOpen,
              GrantsPaired, GrantsOfMembers, Holders
<1>2. ASSUME NEW d \in Device, Use(d)  PROVE KeyInv'
  BY <1>2, SetUpKeeps, UnlockKeeps, EndKeeps, ResolveKeeps, ShareKeeps, PassKeeps,
     StoreOwnKeeps, StoreSharedKeeps, RekeyBegins, RekeyProceeds, CoverKeeps, ReplaceKeeps
     DEF Use
<1>3. ASSUME NEW u \in User, Join(u) \/ Remove(u)  PROVE KeyInv'
  BY <1>3, MembersKeep
<1> QED  BY <1>1, <1>2, <1>3 DEF Next

LEMMA Invariant == Spec => []KeyInv
<1> QED  BY InitHolds, StepKeeps, PTL DEF Spec

(* Vaults, grants, sessions and calls keep their shape. *)
THEOREM KeysTyped == Spec => []TypeOK
<1>1. KeyInv => TypeOK  BY DEF KeyInv
<1> QED  BY <1>1, Invariant, PTL

(* Each re-keying of vault.service.ts writes columns that fit one another, *)
(* unless it commits on a vault that changed after it was read.            *)
THEOREM VaultsStayOpen == Spec => []VaultsOpen
<1>1. KeyInv => VaultsOpen  BY DEF KeyInv
<1> QED  BY <1>1, Invariant, PTL

(* replaceGrants re-wraps or deletes every grant that the keys before      *)
(* opened, so what is stored opens with the keys that are current.         *)
THEOREM GrantsStayOpen == Spec => []GrantsOpen
<1>1. KeyInv => GrantsOpen  BY DEF KeyInv
<1> QED  BY <1>1, Invariant, PTL

(* The check of replaceGrants keeps the two own grants of a user together. *)
THEOREM GrantsStayPaired == Spec => []GrantsPaired
<1>1. KeyInv => GrantsPaired  BY DEF KeyInv
<1> QED  BY <1>1, Invariant, PTL

(* A removal in member.service.ts leaves no grant, and none comes back but *)
(* through a call that was under way.                                      *)
THEOREM MembersHoldGrants == Spec => []GrantsOfMembers
<1>1. KeyInv => GrantsOfMembers  BY DEF KeyInv
<1> QED  BY <1>1, Invariant, PTL
=============================================================================
