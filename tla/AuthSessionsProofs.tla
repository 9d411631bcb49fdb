------------------------- MODULE AuthSessionsProofs -------------------------
(***************************************************************************)
(* Sessions for any people, clients and requests: a device code gives one  *)
(* session, a session that has ended stays ended, the row of a session     *)
(* lasts as long as its token, a replay has an explanation, and an old     *)
(* password leaves no session behind.  And the numbers of the service:     *)
(* no more sessions than requests that signed in, no token of the future.  *)
(***************************************************************************)
EXTENDS AuthSessions, FiniteSetTheorems, TLAPS

(***************************************************************************)
(* The shape of rows, tokens and requests, without the bounds of the runs. *)
(***************************************************************************)
TokenShape == [sid : Nat, sub : Person, iat : Nat]
AnyToken == [sid : Nat, sub : Person \cup {0}, iat : Nat]
RowShape == [sid : Nat, user : Person, iat : Nat, expires : Nat, version : Nat]
CodeShape == [id : Nat, status : {"PENDING", "VERIFIED"}, user : Person \cup {0},
              version : Nat, expires : Nat]
CallShape ==
    [op : {"idle", "login", "poll", "verify", "refresh", "logout", "change", "reset"},
     step : {"idle", "mint", "write", "answer", "wait", "consume", "refused", "look",
             "expire", "revoke", "end", "clear", "signout"},
     token : AnyToken, user : Person \cup {0}, version : Nat, code : Nat]

(* What a request holds at each of its steps. *)
Fits(r) ==
    /\ r.op \in {"login", "verify", "reset"} => r.user \in Person
    /\ r.step = "consume" => r.user \in Person
    /\ r.op \in {"logout", "change"} => r.token \in TokenShape
    /\ r.op = "refresh" => r.token \in TokenShape \cup {NoToken}
    /\ r.op = "refresh" /\ r.step \in {"mint", "write"} => r.token \in TokenShape
    /\ r.step = "answer" => r.token \in TokenShape
    /\ r.step \in {"mint", "answer"} => r.op \in {"login", "refresh"}
    /\ r.op \in {"login", "refresh"} /\ r.step = "write" => r.token.iat <= now

Shape ==
    /\ now \in Nat /\ opened \in Nat /\ coded \in Nat
    /\ password \in [Person -> Nat]
    /\ session \subseteq RowShape
    /\ code \subseteq CodeShape
    /\ \A k \in code : k.status = "VERIFIED" => k.user \in Person
    /\ jar \in [Client -> TokenShape \cup {NoToken}]
    /\ call \in [Process -> CallShape]
    /\ \A q \in Process : Fits(call[q])

(* The row of a session lasts as long as its token. *)
AuthInv == Shape /\ RowOutlivesToken

LEMMA InitHolds == AuthInit => AuthInv
  BY DEF AuthInit, AuthInv, Shape, Fits, CallShape, AnyToken, Idle, NoToken, RowOutlivesToken

LEMMA IdleFits == Idle \in CallShape /\ Fits(Idle)
  BY DEF Idle, NoToken, CallShape, AnyToken, Fits

(* A request is replaced by another that fits. *)
LEMMA CallsFit ==
  ASSUME Shape, NEW p \in Process, NEW r \in CallShape, Fits(r),
         call' = [call EXCEPT ![p] = r], now' = now
  PROVE  call' \in [Process -> CallShape] /\ (\A q \in Process : Fits(call[q]))'
<1>1. call' \in [Process -> CallShape]  BY DEF Shape
<1>2. ASSUME NEW q \in Process  PROVE Fits(call[q])'
  <2>1. CASE q = p
    <3>1. call'[q] = r  BY <2>1 DEF Shape
    <3> QED  BY <3>1 DEF Fits
  <2>2. CASE q # p
    <3>1. call'[q] = call[q]  BY <2>2 DEF Shape
    <3>2. Fits(call[q])  BY DEF Shape
    <3> QED  BY <3>1, <3>2 DEF Fits
  <2> QED  BY <2>1, <2>2
<1> QED  BY <1>1, <1>2

(* Steps of a request that leave the tables and the clients alone. *)
LEMMA CallKeeps ==
  ASSUME AuthInv, NEW p \in Process, NEW r \in CallShape, Fits(r),
         call' = [call EXCEPT ![p] = r],
         UNCHANGED <<now, password, session, opened, code, coded, jar>>
  PROVE  AuthInv'
<1>1. call' \in [Process -> CallShape] /\ (\A q \in Process : Fits(call[q]))'
  BY CallsFit DEF AuthInv
<1>2. Shape'  BY <1>1 DEF AuthInv, Shape
<1>3. RowOutlivesToken'  BY DEF AuthInv, RowOutlivesToken
<1> QED  BY <1>2, <1>3 DEF AuthInv

(* What Begin, Goto and Done do. *)
LEMMA Moves ==
  ASSUME NEW p \in Process, NEW r
  PROVE  /\ Begin(p, r) => call' = [call EXCEPT ![p] = r] /\ UNCHANGED <<now, jar>>
         /\ Goto(p, r) => call' = [call EXCEPT ![p] = r] /\ UNCHANGED now
         /\ Done(p) => call' = [call EXCEPT ![p] = Idle] /\ UNCHANGED now
  BY DEF Begin, Goto, Done

LEMMA KeptTyped ==
  ASSUME Shape, NEW p \in Process
  PROVE  /\ Home[p] \in Client
         /\ Kept(p) \in TokenShape \cup {NoToken}
         /\ TokenShape \cup {NoToken} \subseteq AnyToken
  BY HomeAssumption DEF Shape, Kept, TokenShape, AnyToken, NoToken

LEMMA BeginsKeep ==
  ASSUME AuthInv, NEW p \in Process,
         \/ Login(p) \/ PollAgain(p) \/ VerifyDeviceCode(p) \/ CallApi(p) \/ Logout(p)
         \/ ChangePassword(p) \/ ResetPassword(p)
  PROVE  AuthInv'
<1> USE KeptTyped DEF Asks, Idle, CallShape, Fits
<1>t. Shape  BY DEF AuthInv
<1>n. NoToken \in AnyToken  BY DEF NoToken, AnyToken
<1>s. UNCHANGED server
  BY DEF Login, PollAgain, VerifyDeviceCode, CallApi, Logout, ChangePassword, ResetPassword
<1>1. CASE Login(p)
  <2>1. PICK u \in Person :
          Begin(p, [Asks("login", "mint") EXCEPT !.user = u, !.version = password[u]])
    BY <1>1, Zenon DEF Login
  <2> DEFINE r == [Asks("login", "mint") EXCEPT !.user = u, !.version = password[u]]
  <2>2. r \in CallShape /\ Fits(r)  BY <1>t, <1>n DEF Shape
  <2> QED  BY <2>1, <2>2, <1>s, Moves, CallKeeps DEF server
<1>2. CASE PollAgain(p)
  <2>1. PICK q \in Process : Begin(p, [Asks("poll", "wait") EXCEPT !.code = call[q].code])
    BY <1>2 DEF PollAgain
  <2> DEFINE r == [Asks("poll", "wait") EXCEPT !.code = call[q].code]
  <2>2. r \in CallShape /\ Fits(r)  BY <1>t, <1>n DEF Shape
  <2> QED  BY <2>1, <2>2, <1>s, Moves, CallKeeps DEF server
<1>3. CASE VerifyDeviceCode(p)
  <2>1. PICK k \in LiveCodes :
          Begin(p, [Asks("verify", "write") EXCEPT !.code = k.id, !.user = Kept(p).sub])
    BY <1>3 DEF VerifyDeviceCode
  <2> DEFINE r == [Asks("verify", "write") EXCEPT !.code = k.id, !.user = Kept(p).sub]
  <2>2. Kept(p).sub \in Person  BY <1>3, <1>t DEF VerifyDeviceCode, TokenShape
  <2>3. k.id \in Nat  BY <1>t DEF LiveCodes, Shape, CodeShape
  <2>4. r \in CallShape /\ Fits(r)  BY <2>2, <2>3, <1>n
  <2> QED  BY <2>1, <2>4, <1>s, Moves, CallKeeps DEF server
<1>4. CASE CallApi(p)
  <2> DEFINE r == [Asks("refresh", "refused") EXCEPT !.token = Kept(p)]
  <2>1. Begin(p, r)  BY <1>4 DEF CallApi
  <2>2. r \in CallShape /\ Fits(r)  BY <1>t
  <2> QED  BY <2>1, <2>2, <1>s, Moves, CallKeeps DEF server
<1>5. CASE Logout(p)
  <2> DEFINE r == [Asks("logout", "end") EXCEPT !.token = Kept(p)]
  <2>1. Begin(p, r) /\ Kept(p) # NoToken  BY <1>5 DEF Logout
  <2>2. r \in CallShape /\ Fits(r)  BY <1>t, <2>1
  <2> QED  BY <2>1, <2>2, <1>s, Moves, CallKeeps DEF server
<1>6. CASE ChangePassword(p)
  <2> DEFINE r == [Asks("change", "write") EXCEPT !.token = Kept(p)]
  <2>1. Begin(p, r) /\ Kept(p) # NoToken  BY <1>6 DEF ChangePassword
  <2>2. r \in CallShape /\ Fits(r)  BY <1>t, <2>1
  <2> QED  BY <2>1, <2>2, <1>s, Moves, CallKeeps DEF server
<1>7. CASE ResetPassword(p)
  <2>1. PICK u \in Person : Begin(p, [Asks("reset", "write") EXCEPT !.user = u])
    BY <1>7 DEF ResetPassword
  <2> DEFINE r == [Asks("reset", "write") EXCEPT !.user = u]
  <2>2. r \in CallShape /\ Fits(r)  BY <1>n
  <2> QED  BY <2>1, <2>2, <1>s, Moves, CallKeeps DEF server
<1> QED  BY <1>1, <1>2, <1>3, <1>4, <1>5, <1>6, <1>7

LEMMA RequestsKeep ==
  ASSUME AuthInv, NEW p \in Process,
         \/ MintPair(p) \/ RefreshOnCommandLine(p) \/ RefreshInBrowser(p)
         \/ LookUpSession(p) \/ Lose(p)
  PROVE  AuthInv'
<1>t. Shape  BY DEF AuthInv
<1>c. call[p] \in CallShape /\ Fits(call[p])  BY <1>t DEF Shape
<1>k. Kept(p) \in TokenShape \cup {NoToken} /\ TokenShape \cup {NoToken} \subseteq AnyToken
  BY <1>t, KeptTyped
<1>s. UNCHANGED server /\ UNCHANGED jar
  BY DEF MintPair, RefreshOnCommandLine, RefreshInBrowser, LookUpSession, Lose, SendOrRetry,
         Send, Retry
<1>d. CASE Done(p)  BY <1>d, <1>s, IdleFits, Moves, CallKeeps DEF server
<1>1. CASE MintPair(p)
  <2> DEFINE r == [call[p] EXCEPT !.step = "write", !.token.iat = now]
  <2>1. Goto(p, r) /\ call[p].step = "mint"  BY <1>1 DEF MintPair
  <2>2. r \in CallShape /\ Fits(r)
    <3>1. now \in Nat  BY <1>t DEF Shape
    <3>2. /\ r \in CallShape
          /\ r.op = call[p].op /\ r.step = "write" /\ r.user = call[p].user
          /\ r.token = [call[p].token EXCEPT !.iat = now]
      BY <1>c, <3>1 DEF CallShape, AnyToken
    <3>3. r.token.iat = now  BY <3>2, <1>c DEF CallShape, AnyToken
    <3>4. call[p].op = "refresh" => r.token \in TokenShape
      BY <2>1, <3>1, <3>2, <1>c DEF Fits, TokenShape
    <3>5. call[p].op \in {"login", "refresh"}  BY <2>1, <1>c DEF Fits
    <3> HIDE DEF r
    <3> QED  BY <3>1, <3>2, <3>3, <3>4, <3>5, <1>c DEF Fits
  <2> QED  BY <2>1, <2>2, <1>s, Moves, CallKeeps DEF server
<1>2. ASSUME NEW t \in TokenShape \cup {NoToken}, Send(p, t), call[p].op = "refresh"
      PROVE  AuthInv'
  <2> DEFINE r == [call[p] EXCEPT !.step = "look", !.token = t]
  <2>1. Goto(p, r)  BY <1>2 DEF Send
  <2>2. r \in CallShape /\ Fits(r)  BY <1>2, <1>c, <1>k DEF CallShape, Fits
  <2> QED  BY <2>1, <2>2, <1>s, Moves, CallKeeps DEF server
<1>3. CASE RefreshOnCommandLine(p)
  BY <1>3, <1>2, <1>k, <1>d DEF RefreshOnCommandLine, SendOrRetry, Retry, At
<1>4. CASE RefreshInBrowser(p)
  BY <1>4, <1>2, <1>k DEF RefreshInBrowser, At
<1>5. CASE LookUpSession(p)
  <2>1. CASE Done(p)  BY <2>1, <1>d
  <2>2. ASSUME NEW step \in {"expire", "revoke", "mint"}, Step(p, step), Genuine(call[p].token)
        PROVE  AuthInv'
    <3> DEFINE r == [call[p] EXCEPT !.step = step]
    <3>1. Goto(p, r)  BY <2>2 DEF Step
    <3>2. call[p].op = "refresh"  BY <1>5 DEF LookUpSession, At
    <3>3. call[p].token \in TokenShape  BY <2>2, <3>2, <1>c DEF Fits, Genuine
    <3>4. r \in CallShape /\ Fits(r)  BY <3>2, <3>3, <1>c DEF CallShape, Fits
    <3> QED  BY <3>1, <3>4, <1>s, Moves, CallKeeps DEF server
  <2> QED  BY <1>5, <2>1, <2>2 DEF LookUpSession
<1>6. CASE Lose(p)  BY <1>6, <1>d DEF Lose
<1> QED  BY <1>1, <1>3, <1>4, <1>5, <1>6

LEMMA CodesKeep ==
  ASSUME AuthInv, NEW p \in Process,
         \/ CreateDeviceCode(p) \/ AuthoriseCode(p) \/ PollDeviceCode(p) \/ ConsumeCode(p)
  PROVE  AuthInv'
<1>t. Shape  BY DEF AuthInv
<1>c. call[p] \in CallShape /\ Fits(call[p])  BY <1>t DEF Shape
<1>s. UNCHANGED <<now, password, session, opened, jar>>
  BY Moves DEF CreateDeviceCode, AuthoriseCode, PollDeviceCode, ConsumeCode, Begin,
               Goto, Done, IssueIfConsumed, ToLogin
<1>l. LiveCodes \subseteq code  BY DEF LiveCodes
<1>k. ASSUME coded' \in Nat, code' \subseteq CodeShape,
             \A k \in code' : k.status = "VERIFIED" => k.user \in Person,
             NEW r \in CallShape, Fits(r), call' = [call EXCEPT ![p] = r]
      PROVE  AuthInv'
  <2>1. call' \in [Process -> CallShape] /\ (\A q \in Process : Fits(call[q]))'
    BY <1>k, <1>t, <1>s, CallsFit
  <2>2. Shape'  BY <2>1, <1>k, <1>s, <1>t DEF Shape
  <2> QED  BY <2>2, <1>s DEF AuthInv, RowOutlivesToken
<1>1. CASE CreateDeviceCode(p)
  <2> DEFINE r == [Asks("poll", "wait") EXCEPT !.code = coded + 1]
             new == [id |-> coded + 1, status |-> "PENDING", user |-> 0, version |-> 0,
                     expires |-> now + CodeLifetime]
  <2>1. Begin(p, r) /\ coded' = coded + 1 /\ code' = LiveCodes \cup {new}
    BY <1>1 DEF CreateDeviceCode
  <2>2. coded \in Nat /\ now \in Nat  BY <1>t DEF Shape
  <2>3. r \in CallShape /\ Fits(r)
    <3>1. NoToken \in AnyToken  BY DEF NoToken, AnyToken
    <3>2. coded + 1 \in Nat  BY <2>2
    <3> QED  BY <3>1, <3>2 DEF Asks, Idle, CallShape, Fits
  <2>4. new \in CodeShape /\ new.status # "VERIFIED"
    BY <2>2, LifetimeAssumption DEF CodeShape
  <2> HIDE DEF new, r
  <2>5. code' \subseteq CodeShape /\ \A k \in code' : k.status = "VERIFIED" => k.user \in Person
    BY <2>1, <2>4, <1>l, <1>t DEF Shape
  <2> QED  BY <2>1, <2>2, <2>3, <2>5, <1>k, Moves
<1>2. CASE AuthoriseCode(p)
  <2>1. call[p].user \in Person  BY <1>2, <1>c DEF AuthoriseCode, At, Fits
  <2>2. password[call[p].user] \in Nat  BY <2>1, <1>t DEF Shape
  <2>3. \A k \in code : [k EXCEPT !.status = "VERIFIED", !.user = call[p].user,
                               !.version = password[call[p].user]] \in CodeShape
                       /\ [k EXCEPT !.status = "VERIFIED", !.user = call[p].user,
                               !.version = password[call[p].user]].user = call[p].user
    BY <2>1, <2>2, <1>t DEF Shape, CodeShape
  <2>4. code' \subseteq CodeShape /\ \A k \in code' : k.status = "VERIFIED" => k.user \in Person
    BY <1>2, <2>1, <2>3, <1>t DEF AuthoriseCode, Shape
  <2>5. Done(p) /\ coded' = coded  BY <1>2 DEF AuthoriseCode
  <2>6. coded \in Nat  BY <1>t DEF Shape
  <2> QED  BY <2>4, <2>5, <2>6, <1>k, IdleFits, Moves
<1>3. CASE PollDeviceCode(p)
  <2>1. code' = LiveCodes /\ coded' = coded  BY <1>3 DEF PollDeviceCode
  <2>2. code' \subseteq CodeShape /\ \A k \in code' : k.status = "VERIFIED" => k.user \in Person
    BY <2>1, <1>l, <1>t DEF Shape
  <2>3. coded \in Nat  BY <1>t DEF Shape
  <2>4. CASE Done(p)  BY <2>1, <2>2, <2>3, <2>4, <1>k, IdleFits, Moves
  <2>5. ASSUME NEW k \in LiveCodes, k.status = "VERIFIED",
               Goto(p, [call[p] EXCEPT !.step = "consume", !.user = k.user, !.version = k.version])
        PROVE  AuthInv'
    <3> DEFINE r == [call[p] EXCEPT !.step = "consume", !.user = k.user, !.version = k.version]
    <3>1. k \in CodeShape /\ k.user \in Person  BY <2>5, <1>l, <1>t DEF Shape
    <3>2. call[p].op = "poll"  BY <1>3 DEF PollDeviceCode, At
    <3>3. r \in CallShape /\ Fits(r)  BY <3>1, <3>2, <1>c DEF CallShape, CodeShape, Fits
    <3> QED  BY <2>1, <2>2, <2>3, <2>5, <3>3, <1>k, Moves
  <2> QED  BY <1>3, <2>4, <2>5 DEF PollDeviceCode
<1>4. CASE ConsumeCode(p)
  <2>1. code' \subseteq code /\ coded' = coded  BY <1>4 DEF ConsumeCode
  <2>2. code' \subseteq CodeShape /\ \A k \in code' : k.status = "VERIFIED" => k.user \in Person
    BY <2>1, <1>t DEF Shape
  <2>3. coded \in Nat  BY <1>t DEF Shape
  <2>4. CASE Done(p)  BY <2>1, <2>2, <2>3, <2>4, <1>k, IdleFits, Moves
  <2>5. CASE ToLogin(p)
    <3> DEFINE r == [call[p] EXCEPT !.op = "login", !.step = "mint"]
    <3>1. call[p].op = "poll" /\ call[p].step = "consume"  BY <1>4 DEF ConsumeCode, At
    <3>2. r \in CallShape /\ Fits(r)  BY <3>1, <1>c DEF CallShape, Fits
    <3>3. Goto(p, r)  BY <2>5 DEF ToLogin
    <3> QED  BY <2>1, <2>2, <2>3, <3>2, <3>3, <1>k, Moves
  <2> QED  BY <1>4, <2>4, <2>5 DEF ConsumeCode, IssueIfConsumed
<1> QED  BY <1>1, <1>2, <1>3, <1>4

(* A session is opened under a family of its own, with the row's expiry    *)
(* counted from the moment of the write, after the token was signed. *)
LEMMA IssueKeeps ==
  ASSUME AuthInv, NEW p \in Process, IssueTokens(p)
  PROVE  AuthInv'
<1> DEFINE c == call[p]
           t == [sid |-> opened + 1, sub |-> c.user, iat |-> c.token.iat]
           new == [sid |-> t.sid, user |-> c.user, iat |-> t.iat,
                   expires |-> now + Lifetime, version |-> c.version]
           r == [c EXCEPT !.step = "answer", !.token = t]
<1>t. Shape  BY DEF AuthInv
<1>c. c \in CallShape /\ Fits(c) /\ c.op = "login" /\ c.step = "write"
  BY <1>t DEF Shape, IssueTokens, At
<1>1. /\ session' = session \cup {new} /\ opened' = opened + 1 /\ Goto(p, r)
      /\ UNCHANGED <<password, code, coded, jar>>
  BY DEF IssueTokens, NewFamily
<1>2. c.user \in Person /\ c.token.iat \in Nat /\ c.token.iat <= now /\ c.version \in Nat
  BY <1>c DEF Fits, CallShape, AnyToken
<1>3. opened \in Nat /\ now \in Nat /\ Lifetime \in Nat
  BY <1>t, LifetimeAssumption DEF Shape
<1>4. t \in TokenShape  BY <1>2, <1>3 DEF TokenShape
<1>5. new \in RowShape /\ new.iat + Lifetime <= new.expires
  BY <1>2, <1>3 DEF RowShape
<1>6. TokenShape \subseteq AnyToken  BY DEF TokenShape, AnyToken
<1> HIDE DEF t, new
<1>7. r \in CallShape /\ Fits(r)  BY <1>c, <1>2, <1>4, <1>6 DEF CallShape, Fits
<1>8. call' \in [Process -> CallShape] /\ (\A q \in Process : Fits(call[q]))'
  BY <1>1, <1>7, <1>t, CallsFit, Moves
<1>9. Shape'  BY <1>1, <1>3, <1>5, <1>8, <1>t, Moves DEF Shape, Goto
<1>10. RowOutlivesToken'  BY <1>1, <1>5 DEF AuthInv, RowOutlivesToken
<1> QED  BY <1>9, <1>10 DEF AuthInv

(* Sessions are deleted, or changed in place by a step that keeps rows and *)
(* the promise about their expiry. *)
LEMMA SessionsKeep ==
  ASSUME AuthInv, NEW p \in Process, NEW r \in CallShape, Fits(r),
         call' = [call EXCEPT ![p] = r],
         session' \subseteq RowShape,
         \A s \in session' : s.iat + Lifetime <= s.expires,
         password' \in [Person -> Nat],
         UNCHANGED <<now, opened, code, coded, jar>>
  PROVE  AuthInv'
<1>1. call' \in [Process -> CallShape] /\ (\A q \in Process : Fits(call[q]))'
  BY CallsFit DEF AuthInv
<1>2. Shape'  BY <1>1 DEF AuthInv, Shape
<1> QED  BY <1>2 DEF AuthInv, RowOutlivesToken

LEMMA RotateKeeps ==
  ASSUME AuthInv, NEW p \in Process, RotateTokens(p)
  PROVE  AuthInv'
<1>t. Shape  BY DEF AuthInv
<1>c. /\ call[p] \in CallShape /\ Fits(call[p])
      /\ call[p].op = "refresh" /\ call[p].step = "write"
  BY <1>t DEF Shape, RotateTokens, At
<1> DEFINE t == call[p].token
           upd(s) == [s EXCEPT !.iat = t.iat, !.expires = now + Lifetime]
<1>1. t \in TokenShape /\ t.iat \in Nat /\ t.iat <= now  BY <1>c DEF Fits, TokenShape
<1>2. now \in Nat /\ Lifetime \in Nat  BY <1>t, LifetimeAssumption DEF Shape
<1>3. ASSUME NEW s \in session
      PROVE  upd(s) \in RowShape /\ upd(s).iat + Lifetime <= upd(s).expires
  <2>1. now + Lifetime \in Nat /\ t.iat + Lifetime <= now + Lifetime  BY <1>1, <1>2
  <2>2. s \in RowShape  BY <1>t DEF Shape
  <2>3. upd(s) \in RowShape /\ upd(s).iat = t.iat /\ upd(s).expires = now + Lifetime
    BY <1>1, <2>1, <2>2 DEF RowShape
  <2> QED  BY <2>1, <2>3
<1>4. session' = {IF s.sid = t.sid THEN upd(s) ELSE s : s \in session}
  BY DEF RotateTokens, Rotated
<1> HIDE DEF upd
<1>5. session' \subseteq RowShape /\ \A s \in session' : s.iat + Lifetime <= s.expires
  BY <1>3, <1>4, <1>t DEF Shape, AuthInv, RowOutlivesToken
<1>6. UNCHANGED <<now, password, opened, code, coded, jar>> /\ password' \in [Person -> Nat]
  BY <1>t DEF RotateTokens, Done, Step, Goto, Shape
<1>7. CASE Done(p)  BY <1>5, <1>6, <1>7, IdleFits, Moves, SessionsKeep
<1>8. CASE Step(p, "answer")
  <2> DEFINE r == [call[p] EXCEPT !.step = "answer"]
  <2>1. r \in CallShape /\ Fits(r)  BY <1>c, <1>1 DEF CallShape, Fits
  <2>2. Goto(p, r)  BY <1>8 DEF Step
  <2> QED  BY <1>5, <1>6, <2>1, <2>2, Moves, SessionsKeep
<1> QED  BY <1>7, <1>8 DEF RotateTokens

LEMMA EndsKeep ==
  ASSUME AuthInv, NEW p \in Process,
         RevokeSession(p) \/ EndSession(p) \/ SignOutEverywhere(p)
  PROVE  AuthInv'
<1>t. Shape  BY DEF AuthInv
<1>c. call[p] \in CallShape /\ Fits(call[p])  BY <1>t DEF Shape
<1>1. session' \subseteq session  BY DEF RevokeSession, EndSession, SignOutEverywhere, SignedOut
<1>2. session' \subseteq RowShape /\ \A s \in session' : s.iat + Lifetime <= s.expires
  BY <1>1, <1>t DEF Shape, AuthInv, RowOutlivesToken
<1>3. UNCHANGED <<now, password, opened, code, coded, jar>> /\ password' \in [Person -> Nat]
  BY <1>t DEF RevokeSession, EndSession, SignOutEverywhere, Done, Step, Goto, Shape
<1>4. CASE Done(p)  BY <1>2, <1>3, <1>4, IdleFits, Moves, SessionsKeep
<1>5. CASE EndSession(p)
  <2> DEFINE r == [call[p] EXCEPT !.step = "clear"]
  <2>1. r \in CallShape /\ Fits(r)
    <3>1. call[p].op = "logout"  BY <1>5 DEF EndSession, At
    <3> QED  BY <3>1, <1>c DEF CallShape, Fits
  <2>2. Goto(p, r)  BY <1>5 DEF EndSession, Step
  <2> QED  BY <1>2, <1>3, <2>1, <2>2, Moves, SessionsKeep
<1> QED  BY <1>4, <1>5 DEF RevokeSession, SignOutEverywhere

LEMMA PasswordsKeep ==
  ASSUME AuthInv, NEW p \in Process, CommitChange(p) \/ CommitReset(p)
  PROVE  AuthInv'
<1>t. Shape  BY DEF AuthInv
<1>c. call[p] \in CallShape /\ Fits(call[p])  BY <1>t DEF Shape
<1>1. CASE CommitChange(p)
  <2>1. call[p].token \in TokenShape  BY <1>1, <1>c DEF CommitChange, At, Fits
  <2>2. session' \subseteq session  BY <1>1 DEF CommitChange, SignedOut
  <2>3. session' \subseteq RowShape /\ \A s \in session' : s.iat + Lifetime <= s.expires
    BY <2>2, <1>t DEF Shape, AuthInv, RowOutlivesToken
  <2>4. password' \in [Person -> Nat]
    BY <1>1, <2>1, <1>t DEF CommitChange, NewPassword, Shape, TokenShape
  <2>5. Done(p) /\ UNCHANGED <<now, opened, code, coded, jar>>
    BY <1>1 DEF CommitChange, Done, Goto
  <2> QED  BY <2>3, <2>4, <2>5, IdleFits, Moves, SessionsKeep
<1>2. CASE CommitReset(p)
  <2> DEFINE r == [call[p] EXCEPT !.step = "signout"]
  <2>1. call[p].op = "reset" /\ call[p].user \in Person
    BY <1>2, <1>c DEF CommitReset, At, Fits
  <2>2. r \in CallShape /\ Fits(r)  BY <2>1, <1>c DEF CallShape, Fits
  <2>3. password' \in [Person -> Nat]
    BY <1>2, <2>1, <1>t DEF CommitReset, NewPassword, Shape
  <2>4. session' \subseteq RowShape /\ \A s \in session' : s.iat + Lifetime <= s.expires
    BY <1>2, <1>t DEF CommitReset, Shape, AuthInv, RowOutlivesToken
  <2>5. Goto(p, r) /\ UNCHANGED <<now, opened, code, coded, jar>>
    BY <1>2 DEF CommitReset, Step, Goto
  <2> QED  BY <2>2, <2>3, <2>4, <2>5, Moves, SessionsKeep
<1> QED  BY <1>1, <1>2

LEMMA JarsKeep ==
  ASSUME AuthInv, NEW p \in Process, KeepTokens(p) \/ ClearTokens(p)
  PROVE  AuthInv'
<1>t. Shape  BY DEF AuthInv
<1>c. call[p] \in CallShape /\ Fits(call[p])  BY <1>t DEF Shape
<1>1. PICK t \in TokenShape \cup {NoToken} : Keep(p, t)
  BY <1>c DEF KeepTokens, ClearTokens, Fits
<1>2. jar' \in [Client -> TokenShape \cup {NoToken}]
  BY <1>1, <1>t, HomeAssumption DEF Keep, Shape
<1>3. Done(p) /\ UNCHANGED <<now, password, session, opened, code, coded>>
  BY DEF KeepTokens, ClearTokens, Done, Goto, server
<1>4. call' \in [Process -> CallShape] /\ (\A q \in Process : Fits(call[q]))'
  BY <1>3, <1>t, IdleFits, Moves, CallsFit
<1>5. Shape'  BY <1>2, <1>3, <1>4, <1>t DEF Shape
<1> QED  BY <1>3, <1>5 DEF AuthInv, RowOutlivesToken

(* Time passes, sessions are deleted, links are mailed, or nothing. *)
LEMMA AroundKeeps ==
  ASSUME AuthInv,
         \/ Tick \/ DeleteExpiredSessions \/ UNCHANGED authVars
         \/ \E u \in Person : ForgotPassword(u)
  PROVE  AuthInv'
<1>t. Shape  BY DEF AuthInv
<1>1. UNCHANGED <<password, opened, code, coded, jar, call>> /\ session' \subseteq session
  BY DEF Tick, DeleteExpiredSessions, ForgotPassword, authVars, server
<1>2. now' \in Nat /\ now <= now'
  BY <1>t DEF Tick, DeleteExpiredSessions, ForgotPassword, authVars, Shape
<1>3. \A q \in Process : Fits(call[q])'
  <2> SUFFICES ASSUME NEW q \in Process  PROVE Fits(call[q])'
    OBVIOUS
  <2>1. call[q] \in CallShape /\ Fits(call[q]) /\ call'[q] = call[q]  BY <1>1, <1>t DEF Shape
  <2>2. call[q].token.iat \in Nat /\ now \in Nat  BY <2>1, <1>t DEF CallShape, AnyToken, Shape
  <2> QED  BY <2>1, <2>2, <1>2 DEF Fits
<1>4. Shape'  BY <1>1, <1>2, <1>3, <1>t DEF Shape
<1> QED  BY <1>1, <1>4 DEF AuthInv, RowOutlivesToken

LEMMA StepKeeps == AuthInv /\ [AuthNext]_authVars => AuthInv'
<1> SUFFICES ASSUME AuthInv, [AuthNext]_authVars  PROVE AuthInv'
  OBVIOUS
<1>1. CASE \/ Tick \/ DeleteExpiredSessions \/ UNCHANGED authVars
           \/ \E u \in Person : ForgotPassword(u)
  BY <1>1, AroundKeeps
<1>2. ASSUME NEW p \in Process,
             \/ Login(p) \/ CreateDeviceCode(p) \/ PollAgain(p) \/ VerifyDeviceCode(p)
             \/ AuthoriseCode(p) \/ PollDeviceCode(p) \/ ConsumeCode(p)
             \/ MintPair(p) \/ IssueTokens(p) \/ CallApi(p)
             \/ RefreshOnCommandLine(p) \/ RefreshInBrowser(p)
             \/ LookUpSession(p) \/ RevokeSession(p) \/ RotateTokens(p)
             \/ KeepTokens(p) \/ Logout(p) \/ EndSession(p) \/ ClearTokens(p)
             \/ ChangePassword(p) \/ CommitChange(p) \/ ResetPassword(p)
             \/ CommitReset(p) \/ SignOutEverywhere(p) \/ Lose(p)
      PROVE  AuthInv'
  BY <1>2, BeginsKeep, RequestsKeep, CodesKeep, IssueKeeps, RotateKeeps, EndsKeep,
     PasswordsKeep, JarsKeep
<1> QED  BY <1>1, <1>2 DEF AuthNext

LEMMA Invariant == AuthSpec => []AuthInv
<1>1. AuthInit => AuthInv  BY InitHolds
<1>2. AuthInv /\ [AuthNext]_authVars => AuthInv'  BY StepKeeps
<1> QED  BY <1>1, <1>2, PTL DEF AuthSpec

(* Rows, tokens and requests keep their shape, and a request holds what    *)
(* each of its steps uses.                                                 *)
THEOREM SessionsShaped == AuthSpec => []Shape
<1>1. AuthInv => Shape  BY DEF AuthInv
<1> QED  BY <1>1, Invariant, PTL

(* rotateTokens puts the expiry of the row off together with the token's.  *)
THEOREM RowsOutliveTokens == AuthSpec => []RowOutlivesToken
<1>1. AuthInv => RowOutlivesToken  BY DEF AuthInv
<1> QED  BY <1>1, Invariant, PTL

(***************************************************************************)
(* A session that has ended stays ended: only a sign-in makes rows, and    *)
(* under a family that was not used before.                                *)
(***************************************************************************)
NotRevived == \A s \in session' : Rows(s.sid) # {} \/ s.sid > opened

LEMMA KeptNotRevived ==
  ASSUME \A s \in session' : \E q \in session : q.sid = s.sid
  PROVE  NotRevived
  BY DEF NotRevived, Rows

LEMMA StepRevivesNone == AuthInv /\ [AuthNext]_authVars => NotRevived
<1> SUFFICES ASSUME AuthInv, [AuthNext]_authVars  PROVE NotRevived
  OBVIOUS
<1>t. session \subseteq RowShape /\ opened \in Nat  BY DEF AuthInv, Shape
<1>1. CASE session' \subseteq session  BY <1>1, KeptNotRevived
<1>2. ASSUME NEW p \in Process, IssueTokens(p)  PROVE NotRevived
  <2> DEFINE new == [sid |-> opened + 1, user |-> call[p].user, iat |-> call[p].token.iat,
                     expires |-> now + Lifetime, version |-> call[p].version]
  <2>1. session' = session \cup {new} /\ new.sid = opened + 1
    BY <1>2 DEF IssueTokens, NewFamily
  <2> HIDE DEF new
  <2>2. opened + 1 > opened  BY <1>t
  <2> QED  BY <2>1, <2>2 DEF NotRevived, Rows
<1>3. ASSUME NEW p \in Process, RotateTokens(p)  PROVE NotRevived
  <2> DEFINE upd(s) == [s EXCEPT !.iat = call[p].token.iat, !.expires = now + Lifetime]
  <2>1. \A s \in session : upd(s).sid = s.sid  BY <1>t DEF RowShape
  <2>2. session' = {IF s.sid = call[p].token.sid THEN upd(s) ELSE s : s \in session}
    BY <1>3 DEF RotateTokens, Rotated
  <2> HIDE DEF upd
  <2> QED  BY <2>1, <2>2, KeptNotRevived
<1>4. ASSUME NEW p \in Process, CommitChange(p)  PROVE NotRevived
  BY <1>4, <1>1 DEF CommitChange, SignedOut
<1>5. CASE \/ Tick \/ DeleteExpiredSessions \/ UNCHANGED authVars
           \/ \E u \in Person : ForgotPassword(u)
  BY <1>5, <1>1 DEF Tick, DeleteExpiredSessions, ForgotPassword, authVars, server
<1>6. ASSUME NEW p \in Process,
             \/ Login(p) \/ CreateDeviceCode(p) \/ PollAgain(p) \/ VerifyDeviceCode(p)
             \/ AuthoriseCode(p) \/ PollDeviceCode(p) \/ ConsumeCode(p)
             \/ MintPair(p) \/ CallApi(p) \/ LookUpSession(p)
             \/ KeepTokens(p) \/ Logout(p) \/ ClearTokens(p) \/ ChangePassword(p)
             \/ ResetPassword(p) \/ CommitReset(p) \/ Lose(p)
      PROVE  NotRevived
  BY <1>6, <1>1
     DEF Login, CreateDeviceCode, PollAgain, VerifyDeviceCode, AuthoriseCode,
         PollDeviceCode, ConsumeCode, MintPair, CallApi, LookUpSession, KeepTokens,
         Logout, ClearTokens, ChangePassword, ResetPassword, CommitReset, Lose, server
<1>7. ASSUME NEW p \in Process, RefreshOnCommandLine(p) \/ RefreshInBrowser(p)
      PROVE  NotRevived
  BY <1>7, <1>1 DEF RefreshOnCommandLine, RefreshInBrowser, SendOrRetry, Send, Retry, server
<1>8. ASSUME NEW p \in Process, RevokeSession(p) \/ EndSession(p) \/ SignOutEverywhere(p)
      PROVE  NotRevived
  BY <1>8, <1>1 DEF RevokeSession, EndSession, SignOutEverywhere, SignedOut
<1> QED  BY <1>2, <1>3, <1>4, <1>5, <1>6, <1>7, <1>8 DEF AuthNext

(* A refresh that read a row before it was deleted finds nothing to        *)
(* rotate, so no session comes back.                                       *)
THEOREM NothingRevived == AuthSpec => EndedStaysEnded
<1>1. AuthInv /\ [AuthNext]_authVars => NotRevived  BY StepRevivesNone
<1> QED  BY <1>1, Invariant, PTL DEF AuthSpec, EndedStaysEnded, NotRevived

(***************************************************************************)
(* A device code gives one session: the deletion of the code picks one of  *)
(* the requests that have read it as verified.                             *)
(***************************************************************************)
Minting(q, k) == call[q].op = "login" /\ call[q].step \in {"mint", "write"} /\ call[q].code = k

CodeOnce ==
    /\ granted \in [1..MaxCalls -> Nat]
    /\ \A c \in code : 1 <= c.id /\ c.id <= coded
    /\ \A c, d \in code : c.id = d.id => c = d
    /\ \A q \in Process : call[q].code <= coded
    /\ \A q, r \in Process : \A k \in 1..MaxCalls : Minting(q, k) /\ Minting(r, k) => q = r
    /\ \A k \in 1..MaxCalls : granted[k] <= 1
    /\ \A k \in 1..MaxCalls :
         granted[k] = 1 => k <= coded /\ \A q \in Process : ~Minting(q, k)
    /\ \A k \in 1..MaxCalls :
         granted[k] = 1 \/ (\E q \in Process : Minting(q, k)) => \A c \in code : c.id # k

(* A request r that mints nothing which p was not minting already. *)
Quiet(p, r) ==
    /\ r.code \in Nat /\ r.code <= coded
    /\ \A k \in 1..MaxCalls :
         r.op = "login" /\ r.step \in {"mint", "write"} /\ r.code = k => Minting(p, k)

LEMMA QuietKeeps ==
  ASSUME Shape, CodeOnce, NEW p \in Process, NEW r, Quiet(p, r),
         call' = [call EXCEPT ![p] = r],
         \A c \in code' : \E d \in code : d.id = c.id,
         \A c, d \in code' : c.id = d.id => c = d,
         UNCHANGED <<coded, granted>>
  PROVE  CodeOnce'
<1>1. \A q \in Process : call'[q] = IF q = p THEN r ELSE call[q]  BY DEF Shape
<1>2. \A q \in Process, k \in 1..MaxCalls : Minting(q, k)' => Minting(q, k)
  BY <1>1 DEF Minting, Quiet
<1>3. \A q \in Process : call'[q].code <= coded'  BY <1>1 DEF Quiet, CodeOnce
<1>4. \A c \in code' : 1 <= c.id /\ c.id <= coded'  BY DEF CodeOnce
<1>5. \A k \in 1..MaxCalls :
        granted'[k] = 1 \/ (\E q \in Process : Minting(q, k)') => \A c \in code' : c.id # k
  BY <1>2 DEF CodeOnce
<1> QED  BY <1>2, <1>3, <1>4, <1>5 DEF CodeOnce

LEMMA IdleQuiet ==
  ASSUME Shape, NEW p
  PROVE  Quiet(p, Idle)
  BY DEF Quiet, Idle, Shape

LEMMA DoneKeepsCodes ==
  ASSUME Shape, CodeOnce, NEW p \in Process, Done(p), code' \subseteq code,
         UNCHANGED <<coded, granted>>
  PROVE  CodeOnce'
<1>1. \A c, d \in code' : c.id = d.id => c = d  BY DEF CodeOnce
<1> QED  BY <1>1, IdleQuiet, Moves, QuietKeeps

LEMMA BeginsQuiet ==
  ASSUME Shape, CodeOnce, NEW p \in Process,
         \/ Login(p) \/ PollAgain(p) \/ VerifyDeviceCode(p) \/ CallApi(p) \/ Logout(p)
         \/ ChangePassword(p) \/ ResetPassword(p)
  PROVE  CodeOnce'
<1>c. coded \in Nat /\ \A q \in Process : call[q].code \in Nat /\ call[q].code <= coded
  BY DEF Shape, CallShape, CodeOnce
<1>d. \A k \in code : k.id \in Nat /\ k.id <= coded  BY DEF Shape, CodeShape, CodeOnce
<1>s. UNCHANGED server
  BY DEF Login, PollAgain, VerifyDeviceCode, CallApi, Logout, ChangePassword, ResetPassword
<1>k. ASSUME NEW r, Begin(p, r), Quiet(p, r)  PROVE CodeOnce'
  <2>1. UNCHANGED <<code, coded, granted>>  BY <1>s, <1>k DEF server, Begin, history
  <2>2. \A c, d \in code' : c.id = d.id => c = d  BY <2>1 DEF CodeOnce
  <2> QED  BY <1>k, <2>1, <2>2, Moves, QuietKeeps
<1> USE DEF Asks, Idle, Quiet
<1>1. CASE Login(p)
  <2>1. PICK u \in Person :
          Begin(p, [Asks("login", "mint") EXCEPT !.user = u, !.version = password[u]])
    BY <1>1, Zenon DEF Login
  <2>2. Quiet(p, [Asks("login", "mint") EXCEPT !.user = u, !.version = password[u]])
    BY <1>c
  <2> QED  BY <2>1, <2>2, <1>k
<1>2. CASE PollAgain(p)
  <2>1. PICK q \in Process : Begin(p, [Asks("poll", "wait") EXCEPT !.code = call[q].code])
    BY <1>2 DEF PollAgain
  <2>2. Quiet(p, [Asks("poll", "wait") EXCEPT !.code = call[q].code])  BY <1>c
  <2> QED  BY <2>1, <2>2, <1>k
<1>3. CASE VerifyDeviceCode(p)
  <2>1. PICK k \in code :
          Begin(p, [Asks("verify", "write") EXCEPT !.code = k.id, !.user = Kept(p).sub])
    BY <1>3 DEF VerifyDeviceCode, LiveCodes
  <2>2. Quiet(p, [Asks("verify", "write") EXCEPT !.code = k.id, !.user = Kept(p).sub])
    BY <1>d
  <2> QED  BY <2>1, <2>2, <1>k
<1>4. CASE CallApi(p)
  <2>1. Quiet(p, [Asks("refresh", "refused") EXCEPT !.token = Kept(p)])  BY <1>c
  <2> QED  BY <2>1, <1>4, <1>k DEF CallApi
<1>5. CASE Logout(p)
  <2>1. Quiet(p, [Asks("logout", "end") EXCEPT !.token = Kept(p)])  BY <1>c
  <2> QED  BY <2>1, <1>5, <1>k DEF Logout
<1>6. CASE ChangePassword(p)
  <2>1. Quiet(p, [Asks("change", "write") EXCEPT !.token = Kept(p)])  BY <1>c
  <2> QED  BY <2>1, <1>6, <1>k DEF ChangePassword
<1>7. CASE ResetPassword(p)
  <2>1. PICK u \in Person : Begin(p, [Asks("reset", "write") EXCEPT !.user = u])
    BY <1>7 DEF ResetPassword
  <2>2. Quiet(p, [Asks("reset", "write") EXCEPT !.user = u])  BY <1>c
  <2> QED  BY <2>1, <2>2, <1>k
<1> QED  BY <1>1, <1>2, <1>3, <1>4, <1>5, <1>6, <1>7

(* Steps of a request that is no sign-in, or that goes on with its own. *)
LEMMA StepsQuiet ==
  ASSUME Shape, CodeOnce, NEW p \in Process, NEW r,
         r.code = call[p].code,
         \/ r.op # "login"
         \/ r.step \notin {"mint", "write"}
         \/ call[p].op = "login" /\ call[p].step = "mint"
  PROVE  Quiet(p, r)
<1>1. call[p].code \in Nat /\ call[p].code <= coded  BY DEF Shape, CallShape, CodeOnce
<1> QED  BY <1>1 DEF Quiet, Minting

LEMMA OthersQuiet ==
  ASSUME Shape, CodeOnce, NEW p \in Process,
         \/ MintPair(p) \/ RefreshOnCommandLine(p) \/ RefreshInBrowser(p)
         \/ LookUpSession(p) \/ Lose(p) \/ AuthoriseCode(p) \/ PollDeviceCode(p)
         \/ RevokeSession(p) \/ RotateTokens(p) \/ KeepTokens(p) \/ EndSession(p)
         \/ ClearTokens(p) \/ CommitChange(p) \/ CommitReset(p) \/ SignOutEverywhere(p)
  PROVE  CodeOnce'
<1>c. call[p] \in CallShape /\ Fits(call[p])  BY DEF Shape
<1>s. /\ UNCHANGED <<coded, granted>>
      /\ code' = code \/ code' = LiveCodes \/ AuthoriseCode(p)
  BY DEF MintPair, RefreshOnCommandLine, RefreshInBrowser, LookUpSession, Lose, SendOrRetry,
         Send, Retry, AuthoriseCode, PollDeviceCode, RevokeSession, RotateTokens, KeepTokens,
         EndSession, ClearTokens, CommitChange, CommitReset, SignOutEverywhere, server, history
<1>k. /\ \A c \in code' : \E d \in code : d.id = c.id
      /\ \A c, d \in code' : c.id = d.id => c = d
  <2>1. CASE code' \subseteq code  BY <2>1 DEF CodeOnce
  <2>2. CASE AuthoriseCode(p)
    <3> DEFINE upd(k) == [k EXCEPT !.status = "VERIFIED", !.user = call[p].user,
                                   !.version = password[call[p].user]]
               new(k) == IF k.id = call[p].code THEN upd(k) ELSE k
    <3>1. \A k \in code : new(k).id = k.id  BY DEF Shape, CodeShape
    <3>2. code' = {new(k) : k \in code}  BY <2>2 DEF AuthoriseCode
    <3> HIDE DEF new
    <3> QED  BY <3>1, <3>2 DEF CodeOnce
  <2> QED  BY <1>s, <2>1, <2>2 DEF LiveCodes
<1>d. CASE Done(p)  BY <1>d, <1>s, <1>k, IdleQuiet, Moves, QuietKeeps
<1>g. ASSUME NEW r, Goto(p, r), r.code = call[p].code,
             \/ r.op # "login"
             \/ r.step \notin {"mint", "write"}
             \/ call[p].op = "login" /\ call[p].step = "mint"
      PROVE  CodeOnce'
  BY <1>g, <1>s, <1>k, StepsQuiet, Moves, QuietKeeps
<1>1. CASE MintPair(p)
  <2> DEFINE r == [call[p] EXCEPT !.step = "write", !.token.iat = now]
  <2>1. Goto(p, r) /\ call[p].step = "mint"  BY <1>1 DEF MintPair
  <2>2. r.code = call[p].code /\ r.op = call[p].op  BY <1>c DEF CallShape
  <2>3. call[p].op \in {"login", "refresh"}  BY <2>1, <1>c DEF Fits
  <2> HIDE DEF r
  <2> QED  BY <2>1, <2>2, <2>3, <1>g
<1>2. ASSUME NEW t, Send(p, t), call[p].op = "refresh"  PROVE CodeOnce'
  <2> DEFINE r == [call[p] EXCEPT !.step = "look", !.token = t]
  <2>1. Goto(p, r)  BY <1>2 DEF Send
  <2>2. r.code = call[p].code /\ r.op = "refresh"  BY <1>2, <1>c DEF CallShape
  <2> QED  BY <2>1, <2>2, <1>g
<1>3. ASSUME NEW step \in {"expire", "revoke", "mint", "answer", "clear", "signout"},
             Step(p, step), call[p].op # "login"
      PROVE  CodeOnce'
  <2> DEFINE r == [call[p] EXCEPT !.step = step]
  <2>1. Goto(p, r)  BY <1>3 DEF Step
  <2>2. r.code = call[p].code /\ r.op = call[p].op  BY <1>c DEF CallShape
  <2> QED  BY <2>1, <2>2, <1>3, <1>g
<1>4. CASE RefreshOnCommandLine(p) \/ RefreshInBrowser(p)
  BY <1>4, <1>2, <1>d DEF RefreshOnCommandLine, RefreshInBrowser, SendOrRetry, Retry, At
<1>5. CASE LookUpSession(p)  BY <1>5, <1>3, <1>d DEF LookUpSession, At
<1>6. CASE RotateTokens(p)  BY <1>6, <1>3, <1>d DEF RotateTokens, At
<1>7. CASE EndSession(p)  BY <1>7, <1>3 DEF EndSession, At
<1>8. CASE CommitReset(p)  BY <1>8, <1>3 DEF CommitReset, At
<1>9. CASE PollDeviceCode(p)
  <2>1. ASSUME NEW k,
               Goto(p, [call[p] EXCEPT !.step = "consume", !.user = k.user, !.version = k.version])
        PROVE  CodeOnce'
    <3> DEFINE r == [call[p] EXCEPT !.step = "consume", !.user = k.user, !.version = k.version]
    <3>1. r.code = call[p].code /\ r.step = "consume"  BY <1>c DEF CallShape
    <3> HIDE DEF r
    <3>2. Goto(p, r)  BY <2>1 DEF r
    <3> QED  BY <3>1, <3>2, <1>g
  <2> QED  BY <1>9, <2>1, <1>d DEF PollDeviceCode
<1>10. CASE \/ Lose(p) \/ AuthoriseCode(p) \/ RevokeSession(p) \/ KeepTokens(p)
            \/ ClearTokens(p) \/ CommitChange(p) \/ SignOutEverywhere(p)
  BY <1>10, <1>d
     DEF Lose, AuthoriseCode, RevokeSession, KeepTokens, ClearTokens, CommitChange,
         SignOutEverywhere
<1> QED  BY <1>1, <1>4, <1>5, <1>6, <1>7, <1>8, <1>9, <1>10

(* A new code has an identifier that no code, request or session has had. *)
LEMMA CreatedOnce ==
  ASSUME Shape, CodeOnce, NEW p \in Process, CreateDeviceCode(p)
  PROVE  CodeOnce'
<1> DEFINE r == [Asks("poll", "wait") EXCEPT !.code = coded + 1]
           new == [id |-> coded + 1, status |-> "PENDING", user |-> 0, version |-> 0,
                   expires |-> now + CodeLifetime]
<1>1. Begin(p, r) /\ coded' = coded + 1 /\ code' = LiveCodes \cup {new}
  BY DEF CreateDeviceCode
<1>2. granted' = granted /\ call' = [call EXCEPT ![p] = r]
  BY <1>1 DEF Begin, history
<1>3. coded \in Nat /\ \A q \in Process : call[q].code \in Nat  BY DEF Shape, CallShape
<1>4. r.op = "poll" /\ r.code = coded + 1  BY DEF Asks, Idle
<1>5. new.id = coded + 1  OBVIOUS
<1> HIDE DEF r, new
<1>6. \A q \in Process : call'[q] = IF q = p THEN r ELSE call[q]  BY <1>2 DEF Shape
<1>7. \A q \in Process, k \in 1..MaxCalls : Minting(q, k)' => Minting(q, k)
  BY <1>4, <1>6 DEF Minting
<1>8. \A q \in Process : call'[q].code <= coded'  BY <1>1, <1>3, <1>4, <1>6 DEF CodeOnce
<1>9. \A c \in code : c.id \in Nat /\ 1 <= c.id /\ c.id <= coded
  BY DEF CodeOnce, Shape, CodeShape
<1>10. \A c \in code' : c = new \/ c \in code  BY <1>1 DEF LiveCodes
<1>11. /\ \A c \in code' : 1 <= c.id /\ c.id <= coded'
       /\ \A c, d \in code' : c.id = d.id => c = d
  BY <1>1, <1>3, <1>5, <1>9, <1>10 DEF CodeOnce
<1>12. \A q \in Process, k \in 1..MaxCalls : Minting(q, k) => k # coded + 1
  BY <1>3 DEF Minting, CodeOnce
<1>13. \A k \in 1..MaxCalls :
         granted'[k] = 1 \/ (\E q \in Process : Minting(q, k)') => \A c \in code' : c.id # k
  <2> SUFFICES ASSUME NEW k \in 1..MaxCalls, NEW c \in code',
                      granted[k] = 1 \/ \E q \in Process : Minting(q, k)
               PROVE  c.id # k
    BY <1>2, <1>7
  <2>1. k # coded + 1  BY <1>3, <1>12 DEF CodeOnce
  <2> QED  BY <2>1, <1>5, <1>10 DEF CodeOnce
<1>14. \A k \in 1..MaxCalls :
         granted'[k] = 1 => k <= coded' /\ \A q \in Process : ~Minting(q, k)'
  BY <1>1, <1>2, <1>3, <1>7 DEF CodeOnce
<1> QED  BY <1>2, <1>7, <1>8, <1>11, <1>13, <1>14 DEF CodeOnce

(* Only a request whose deletion deleted the code goes on to mint, and no  *)
(* other did before it, for the code was still there.                      *)
LEMMA ConsumedOnce ==
  ASSUME Shape, CodeOnce, NEW p \in Process, ConsumeCode(p)
  PROVE  CodeOnce'
<1>s. code' = code \ Consumable(p) /\ UNCHANGED <<coded, granted>>
  BY DEF ConsumeCode, history, IssueIfConsumed, ToLogin, Done, Goto
<1>1. CASE Done(p)  BY <1>1, <1>s, DoneKeepsCodes
<1>2. CASE ToLogin(p) /\ Consumable(p) # {}
  <2> DEFINE r == [call[p] EXCEPT !.op = "login", !.step = "mint"]
             n == call[p].code
  <2>1. call' = [call EXCEPT ![p] = r]  BY <1>2 DEF ToLogin, Goto
  <2>2. r.code = n /\ r.op = "login" /\ r.step = "mint" /\ n \in Nat
    BY DEF Shape, CallShape
  <2> HIDE DEF r
  <2>3. \A q \in Process : call'[q] = IF q = p THEN r ELSE call[q]  BY <2>1 DEF Shape
  <2>4. PICK k \in code : k.id = n /\ k.status = "VERIFIED"  BY <1>2 DEF Consumable
  <2>5. \A c \in code' : c \in code /\ c.id # n
    BY <1>s, <2>4 DEF Consumable, CodeOnce
  <2>6. \A j \in 1..MaxCalls : j = n => granted[j] # 1 /\ \A q \in Process : ~Minting(q, j)
    BY <2>4 DEF CodeOnce
  <2>7. \A q \in Process, j \in 1..MaxCalls :
          Minting(q, j)' <=> (IF q = p THEN j = n ELSE Minting(q, j))
    BY <2>2, <2>3 DEF Minting
  <2>8. \A q, w \in Process : \A j \in 1..MaxCalls : Minting(q, j)' /\ Minting(w, j)' => q = w
    BY <2>6, <2>7 DEF CodeOnce
  <2>9. \A q \in Process : call'[q].code <= coded'
    BY <1>s, <2>2, <2>3 DEF CodeOnce
  <2>10. \A j \in 1..MaxCalls :
           granted'[j] = 1 => j <= coded' /\ \A q \in Process : ~Minting(q, j)'
    BY <1>s, <2>6, <2>7 DEF CodeOnce
  <2>11. \A j \in 1..MaxCalls :
           granted'[j] = 1 \/ (\E q \in Process : Minting(q, j)') => \A c \in code' : c.id # j
    BY <1>s, <2>5, <2>7 DEF CodeOnce
  <2>12. /\ \A c \in code' : 1 <= c.id /\ c.id <= coded'
         /\ \A c, d \in code' : c.id = d.id => c = d
    BY <1>s, <2>5 DEF CodeOnce
  <2> QED  BY <1>s, <2>8, <2>9, <2>10, <2>11, <2>12 DEF CodeOnce
<1> QED  BY <1>1, <1>2 DEF ConsumeCode, IssueIfConsumed

LEMMA IssuedOnce ==
  ASSUME Shape, CodeOnce, NEW p \in Process, IssueTokens(p)
  PROVE  CodeOnce'
<1> DEFINE t == [sid |-> opened + 1, sub |-> call[p].user, iat |-> call[p].token.iat]
           r == [call[p] EXCEPT !.step = "answer", !.token = t]
           n == call[p].code
<1>1. /\ Goto(p, r) /\ UNCHANGED <<code, coded>>
      /\ granted' = [k \in 1..MaxCalls |-> granted[k] + (IF k = n THEN 1 ELSE 0)]
      /\ call[p].op = "login" /\ call[p].step = "write"
  BY DEF IssueTokens, NewFamily, At
<1>2. r.code = n /\ r.step = "answer" /\ n \in Nat /\ n <= coded
  BY DEF Shape, CallShape, CodeOnce
<1> HIDE DEF t, r
<1>3. \A q \in Process : call'[q] = IF q = p THEN r ELSE call[q]
  BY <1>1 DEF Goto, Shape
<1>4. \A q \in Process, j \in 1..MaxCalls : Minting(q, j)' <=> q # p /\ Minting(q, j)
  BY <1>2, <1>3 DEF Minting
<1>5. Minting(p, n)  BY <1>1 DEF Minting
<1>6. \A j \in 1..MaxCalls : granted[j] \in Nat  BY DEF CodeOnce
<1>7. \A j \in 1..MaxCalls : j = n => granted[j] = 0
  BY <1>5, <1>6 DEF CodeOnce
<1>8. granted' \in [1..MaxCalls -> Nat] /\ \A j \in 1..MaxCalls : granted'[j] <= 1
  BY <1>1, <1>6, <1>7 DEF CodeOnce
<1>9. \A j \in 1..MaxCalls : granted'[j] = 1 => j = n \/ granted[j] = 1
  BY <1>1, <1>6
<1>10. \A j \in 1..MaxCalls :
         granted'[j] = 1 => j <= coded' /\ \A q \in Process : ~Minting(q, j)'
  BY <1>1, <1>2, <1>4, <1>5, <1>9 DEF CodeOnce
<1>11. \A j \in 1..MaxCalls :
         granted'[j] = 1 \/ (\E q \in Process : Minting(q, j)') => \A c \in code' : c.id # j
  BY <1>1, <1>4, <1>5, <1>9 DEF CodeOnce
<1>12. \A q \in Process : call'[q].code <= coded'  BY <1>1, <1>2, <1>3 DEF CodeOnce
<1>13. \A q, w \in Process : \A j \in 1..MaxCalls : Minting(q, j)' /\ Minting(w, j)' => q = w
  BY <1>4 DEF CodeOnce
<1> QED  BY <1>1, <1>8, <1>10, <1>11, <1>12, <1>13 DEF CodeOnce

LEMMA CodeStep == AuthInv /\ CodeOnce /\ [AuthNext]_authVars => CodeOnce'
<1> SUFFICES ASSUME AuthInv, CodeOnce, [AuthNext]_authVars  PROVE CodeOnce'
  OBVIOUS
<1>t. Shape  BY DEF AuthInv
<1>1. CASE \/ Tick \/ DeleteExpiredSessions \/ UNCHANGED authVars
           \/ \E u \in Person : ForgotPassword(u)
  <2>1. UNCHANGED <<code, coded, call, granted>>
    BY <1>1 DEF Tick, DeleteExpiredSessions, ForgotPassword, authVars, server, history
  <2> QED  BY <2>1 DEF CodeOnce, Minting
<1>2. ASSUME NEW p \in Process,
             \/ Login(p) \/ CreateDeviceCode(p) \/ PollAgain(p) \/ VerifyDeviceCode(p)
             \/ AuthoriseCode(p) \/ PollDeviceCode(p) \/ ConsumeCode(p)
             \/ MintPair(p) \/ IssueTokens(p) \/ CallApi(p)
             \/ RefreshOnCommandLine(p) \/ RefreshInBrowser(p)
             \/ LookUpSession(p) \/ RevokeSession(p) \/ RotateTokens(p)
             \/ KeepTokens(p) \/ Logout(p) \/ EndSession(p) \/ ClearTokens(p)
             \/ ChangePassword(p) \/ CommitChange(p) \/ ResetPassword(p)
             \/ CommitReset(p) \/ SignOutEverywhere(p) \/ Lose(p)
      PROVE  CodeOnce'
  BY <1>2, <1>t, BeginsQuiet, OthersQuiet, CreatedOnce, ConsumedOnce, IssuedOnce
<1> QED  BY <1>1, <1>2 DEF AuthNext

(* However often a client polls, and however many people authorise it, a   *)
(* device code of device-code.service.ts gives one session.                *)
THEOREM OneSessionPerCode == AuthSpec => []CodeGivesOne
<1>1. AuthInit => CodeOnce
  BY DEF AuthInit, CodeOnce, Minting, Idle
<1>2. AuthInv /\ CodeOnce /\ [AuthNext]_authVars => CodeOnce'  BY CodeStep
<1>3. CodeOnce => CodeGivesOne  BY DEF CodeOnce, CodeGivesOne
<1> QED  BY <1>1, <1>2, <1>3, Invariant, PTL DEF AuthSpec

(***************************************************************************)
(* Whose a session is: every token that a client keeps, or that a request  *)
(* carries, names a session of the person it was issued to.                *)
(***************************************************************************)
Names(t) == t.sid <= opened /\ \A s \in session : s.sid = t.sid => s.user = t.sub

Named ==
    /\ \A s \in session : 1 <= s.sid /\ s.sid <= opened
    /\ \A c \in Client : Names(jar[c])
    /\ \A q \in Process : Names(call[q].token)

SameName(t, u) == t.sid = u.sid /\ t.sub = u.sub

(* A step that leaves no session but some that were there, with the token, *)
(* the user and the moment of issue that they had.                         *)
Thinned ==
    \A s \in session' : \E q \in session :
        q.sid = s.sid /\ q.user = s.user /\ q.iat = s.iat

(* Nothing that explains a replay has happened.                            *)
Calm == mishaps \cap {"lost", "raced"} = {}

Asking(r) == r.op = "refresh" /\ r.step \in {"look", "revoke", "mint", "write", "answer"}
AloneAtHome(p) == \A q \in Process \ {p} : Home[q] = Home[p] => ~Asking(call[q])

(* Request p goes on as r, with a token that it or its client has, and     *)
(* without an answer.                                                      *)
Passes(p, r) ==
    /\ call' = [call EXCEPT ![p] = r]
    /\ UNCHANGED <<jar, opened>>
    /\ mishaps \subseteq mishaps'
    /\ Thinned
    /\ \/ r.token.sid = 0
       \/ SameName(r.token, call[p].token)
       \/ SameName(r.token, Kept(p))
    /\ r.step # "answer"
    /\ Calm' =>
         /\ revoked' = revoked
         /\ ~At(p, "refresh", "answer")
         /\ ~(r.op = "refresh" /\ r.step = "revoke")
         /\ Asking(r) => Asking(call[p]) \/ AloneAtHome(p)
         /\ r.op = "refresh" /\ r.step = "look" => r.token = Kept(p) /\ AloneAtHome(p)

(* A client holds session n: it keeps a token of it, or one of its requests *)
(* carries one.                                                            *)
HoldsSession(c, n) ==
    \/ jar[c].sid = n
    \/ \E q \in Process : Home[q] = c /\ call[q].token.sid = n

(* A session is held by one client, and one that a sign-in has just opened *)
(* by that sign-in alone.                                                  *)
Apart ==
    /\ \A n \in Nat \ {0}, c, d \in Client :
         HoldsSession(c, n) /\ HoldsSession(d, n) => c = d
    /\ \A p \in Process : At(p, "login", "answer") =>
         /\ call[p].token.sid # 0
         /\ \A c \in Client : jar[c].sid # call[p].token.sid
         /\ \A q \in Process \ {p} : call[q].token.sid # call[p].token.sid

(* While nothing is lost and nobody races, the row of a session holds the  *)
(* token that is sent, that is on its way back, or that is kept, unless    *)
(* its successor is on its way back.                                       *)
Current ==
    /\ revoked = {}
    /\ \A p \in Process : ~At(p, "refresh", "revoke")
    /\ \A p, q \in Process :
         Home[p] = Home[q] /\ Asking(call[p]) /\ Asking(call[q]) => p = q
    /\ \A p \in Process, s \in session :
         call[p].step = "answer" \/ At(p, "refresh", "look") =>
             (s.sid = call[p].token.sid => s.iat = call[p].token.iat)
    /\ \A c \in Client, s \in session : s.sid = jar[c].sid =>
         \/ s.iat = jar[c].iat
         \/ \E p \in Process :
              Home[p] = c /\ At(p, "refresh", "answer") /\ call[p].token.sid = s.sid

TokenInv == Named /\ Apart /\ (Calm => Current)

LEMMA TokenInitHolds == AuthInit => TokenInv
<1> SUFFICES ASSUME AuthInit  PROVE TokenInv
  OBVIOUS
<1> USE DEF AuthInit, NoToken, Idle
<1>1. Named  BY DEF Named, Names
<1>2. Apart  BY DEF Apart, HoldsSession, At
<1>3. Current  BY DEF Current, At, Asking
<1> QED  BY <1>1, <1>2, <1>3 DEF TokenInv

LEMMA PassNamed ==
  ASSUME Shape, Named, NEW p \in Process, NEW r, Passes(p, r)
  PROVE  Named'
<1>1. \A q \in Process : call'[q] = IF q = p THEN r ELSE call[q]
  BY DEF Passes, Shape
<1>2. opened' = opened /\ jar' = jar  BY DEF Passes
<1>3. \A s \in session' : 1 <= s.sid /\ s.sid <= opened
  BY DEF Passes, Thinned, Named
<1>4. ASSUME NEW t, Names(t)
      PROVE  t.sid <= opened /\ \A s \in session' : s.sid = t.sid => s.user = t.sub
  BY <1>4 DEF Passes, Thinned, Names
<1>5. Home[p] \in Client  BY HomeAssumption
<1>6. r.token.sid <= opened /\ \A s \in session' : s.sid = r.token.sid => s.user = r.token.sub
  <2>1. CASE r.token.sid = 0
    BY <2>1, <1>3 DEF Shape
  <2>2. CASE SameName(r.token, call[p].token)
    BY <2>2, <1>4 DEF SameName, Named
  <2>3. CASE SameName(r.token, Kept(p))
    BY <2>3, <1>4, <1>5 DEF SameName, Named, Kept
  <2> QED  BY <2>1, <2>2, <2>3 DEF Passes
<1>7. \A q \in Process : Names(call[q].token)'
  BY <1>1, <1>2, <1>4, <1>6 DEF Names, Named
<1>8. \A c \in Client : Names(jar[c])'
  BY <1>2, <1>4 DEF Names, Named
<1> QED  BY <1>2, <1>3, <1>7, <1>8 DEF Named

LEMMA PassApart ==
  ASSUME Shape, Apart, NEW p \in Process, NEW r, Passes(p, r)
  PROVE  Apart'
<1>1. \A q \in Process : call'[q] = IF q = p THEN r ELSE call[q]
  BY DEF Passes, Shape
<1>2. jar' = jar  BY DEF Passes
<1>3. r.token.sid = 0 \/ r.token.sid = call[p].token.sid \/ r.token.sid = jar[Home[p]].sid
  BY DEF Passes, SameName, Kept
<1>4. \A c \in Client, n \in Nat \ {0} : HoldsSession(c, n)' => HoldsSession(c, n)
  BY <1>1, <1>2, <1>3 DEF HoldsSession
<1>5. \A n \in Nat \ {0}, c, d \in Client :
        HoldsSession(c, n)' /\ HoldsSession(d, n)' => c = d
  BY <1>4 DEF Apart
<1>6. ASSUME NEW q \in Process, At(q, "login", "answer")'
      PROVE  /\ call'[q].token.sid # 0
             /\ \A c \in Client : jar'[c].sid # call'[q].token.sid
             /\ \A w \in Process \ {q} : call'[w].token.sid # call'[q].token.sid
  <2>1. q # p  BY <1>1, <1>6 DEF At, Passes
  <2>2. At(q, "login", "answer") /\ call'[q] = call[q]  BY <1>1, <1>6, <2>1 DEF At
  <2>3. Home[p] \in Client  BY HomeAssumption
  <2>4. r.token.sid # call[q].token.sid  BY <1>3, <2>1, <2>2, <2>3 DEF Apart
  <2> QED  BY <1>1, <1>2, <2>2, <2>4 DEF Apart
<1> QED  BY <1>5, <1>6 DEF Apart

(* In the calm, what is sent is what the client keeps, and nothing was on  *)
(* its way back: so the row holds it.                                      *)
LEMMA PassCurrent ==
  ASSUME Shape, Current, NEW p \in Process, NEW r, Passes(p, r), Calm'
  PROVE  Current'
<1>1. \A q \in Process : call'[q] = IF q = p THEN r ELSE call[q]
  BY DEF Passes, Shape
<1>2. jar' = jar /\ revoked' = revoked /\ ~At(p, "refresh", "answer")
  BY DEF Passes
<1>3. \A q \in Process : ~At(q, "refresh", "revoke")'
  BY <1>1 DEF Passes, At, Current
<1>4. \A q, w \in Process :
        Home[q] = Home[w] /\ Asking(call'[q]) /\ Asking(call'[w]) => q = w
  BY <1>1 DEF Passes, AloneAtHome, Current
<1>5. ASSUME NEW q \in Process, NEW s \in session',
             call'[q].step = "answer" \/ At(q, "refresh", "look")', s.sid = call'[q].token.sid
      PROVE  s.iat = call'[q].token.iat
  <2>1. PICK o \in session : o.sid = s.sid /\ o.iat = s.iat  BY DEF Passes, Thinned
  <2>2. CASE q # p
    BY <1>1, <1>5, <2>1, <2>2 DEF Current, At
  <2>3. CASE q = p
    <3>1. r.op = "refresh" /\ r.step = "look"  BY <1>1, <1>5, <2>3 DEF Passes, At
    <3>2. r.token = jar[Home[p]] /\ AloneAtHome(p)  BY <3>1 DEF Passes, Kept
    <3>3. ~\E w \in Process : Home[w] = Home[p] /\ At(w, "refresh", "answer")
      BY <1>2, <3>2 DEF AloneAtHome, Asking, At
    <3>4. Home[p] \in Client  BY HomeAssumption
    <3> QED  BY <1>1, <1>5, <2>1, <2>3, <3>2, <3>3, <3>4 DEF Current
  <2> QED  BY <2>2, <2>3
<1>6. ASSUME NEW c \in Client, NEW s \in session', s.sid = jar'[c].sid
      PROVE  \/ s.iat = jar'[c].iat
             \/ \E q \in Process :
                  Home[q] = c /\ At(q, "refresh", "answer")' /\ call'[q].token.sid = s.sid
  <2>1. PICK o \in session : o.sid = s.sid /\ o.iat = s.iat  BY DEF Passes, Thinned
  <2>2. CASE o.iat = jar[c].iat
    BY <1>2, <2>1, <2>2
  <2>3. ASSUME NEW q \in Process,
               Home[q] = c, At(q, "refresh", "answer"), call[q].token.sid = o.sid
        PROVE  At(q, "refresh", "answer")' /\ call'[q].token.sid = s.sid
    <3>1. call'[q] = call[q]  BY <1>1, <1>2, <2>3
    <3> QED  BY <2>1, <2>3, <3>1 DEF At
  <2> QED  BY <1>2, <1>6, <2>1, <2>2, <2>3 DEF Current
<1> QED  BY <1>2, <1>3, <1>4, <1>5, <1>6 DEF Current

LEMMA PassKeeps ==
  ASSUME Shape, TokenInv, NEW p \in Process, NEW r, Passes(p, r)
  PROVE  TokenInv'
<1>1. Calm' => Calm  BY DEF Passes, Calm
<1> QED  BY <1>1, PassNamed, PassApart, PassCurrent DEF TokenInv

LEMMA RestKeeps ==
  ASSUME TokenInv, Thinned, UNCHANGED <<jar, opened, call, revoked, mishaps>>
  PROVE  TokenInv'
<1>1. Named'  BY DEF TokenInv, Named, Names, Thinned
<1>2. Apart'  BY DEF TokenInv, Apart, HoldsSession, At
<1>3. Calm' => Current'
  <2> SUFFICES ASSUME Calm'  PROVE Current'
    OBVIOUS
  <2>1. Current  BY DEF TokenInv, Calm
  <2>2. \A p \in Process, s \in session' :
          call'[p].step = "answer" \/ At(p, "refresh", "look")' =>
             (s.sid = call'[p].token.sid => s.iat = call'[p].token.iat)
    BY <2>1 DEF Current, Thinned, At
  <2>3. \A c \in Client, s \in session' : s.sid = jar'[c].sid =>
         \/ s.iat = jar'[c].iat
         \/ \E p \in Process :
              Home[p] = c /\ At(p, "refresh", "answer")' /\ call'[p].token.sid = s.sid
    BY <2>1 DEF Current, Thinned, At
  <2> QED  BY <2>1, <2>2, <2>3 DEF Current, At, Asking
<1> QED  BY <1>1, <1>2, <1>3 DEF TokenInv

LEMMA AllThinned == session' \subseteq session => Thinned
  BY DEF Thinned

(* A new request, with no token or with the one its client keeps.          *)
Plain(p, r) ==
    /\ r.token \in {NoToken, Kept(p)}
    /\ r.step \in {"mint", "wait", "write", "refused", "end"}
    /\ r.op = "refresh" => r.step = "refused"

LEMMA BeginsPass ==
  ASSUME Shape, NEW p \in Process, NEW r, Begin(p, r), UNCHANGED <<opened, session>>,
         Plain(p, r)
  PROVE  Passes(p, r)
<1>1. /\ call' = [call EXCEPT ![p] = r] /\ call[p] = Idle
      /\ UNCHANGED <<jar, opened, mishaps, revoked, session>>
  BY DEF Begin, history
<1>2. Thinned  BY <1>1, AllThinned
<1>3. r.token.sid = 0 \/ SameName(r.token, Kept(p))  BY DEF NoToken, SameName, Plain
<1>4. ~At(p, "refresh", "answer")  BY <1>1 DEF At, Idle
<1> QED  BY <1>1, <1>2, <1>3, <1>4 DEF Passes, Asking, Plain

LEMMA BeginningsPass ==
  ASSUME Shape, NEW p \in Process,
         \/ Login(p) \/ CreateDeviceCode(p) \/ PollAgain(p) \/ VerifyDeviceCode(p)
         \/ CallApi(p) \/ Logout(p) \/ ChangePassword(p) \/ ResetPassword(p)
  PROVE  \E r : Passes(p, r)
<1>b. ASSUME NEW r, Begin(p, r), Plain(p, r), UNCHANGED server  PROVE \E q : Passes(p, q)
  <2>1. Passes(p, r)  BY <1>b, BeginsPass DEF server
  <2> QED  BY <2>1
<1>1. CASE Login(p)
  <2>1. PICK u \in Person :
          Begin(p, [Asks("login", "mint") EXCEPT !.user = u, !.version = password[u]])
    BY <1>1, Zenon DEF Login
  <2>2. Plain(p, [Asks("login", "mint") EXCEPT !.user = u, !.version = password[u]])
    BY DEF Plain, Asks, Idle
  <2>3. UNCHANGED server  BY <1>1, Zenon DEF Login
  <2> QED  BY <2>1, <2>2, <2>3, <1>b
<1>2. CASE CreateDeviceCode(p)
  <2> DEFINE r == [Asks("poll", "wait") EXCEPT !.code = coded + 1]
  <2>1. Plain(p, r)
    BY DEF Plain, Asks, Idle
  <2>2. Begin(p, r) /\ UNCHANGED <<opened, session>>  BY <1>2, Zenon DEF CreateDeviceCode
  <2> HIDE DEF r
  <2>3. Passes(p, r)  BY <2>1, <2>2, BeginsPass
  <2> QED  BY <2>3
<1>3. CASE PollAgain(p)
  <2>1. PICK q \in Process :
          Begin(p, [Asks("poll", "wait") EXCEPT !.code = call[q].code])
    BY <1>3 DEF PollAgain
  <2>2. Plain(p, [Asks("poll", "wait") EXCEPT !.code = call[q].code])
    BY DEF Plain, Asks, Idle
  <2>3. UNCHANGED server  BY <1>3, Zenon DEF PollAgain
  <2> QED  BY <2>1, <2>2, <2>3, <1>b
<1>4. CASE VerifyDeviceCode(p)
  <2>1. PICK k \in LiveCodes :
          Begin(p, [Asks("verify", "write") EXCEPT !.code = k.id, !.user = Kept(p).sub])
    BY <1>4, Zenon DEF VerifyDeviceCode
  <2>2. Plain(p, [Asks("verify", "write") EXCEPT !.code = k.id, !.user = Kept(p).sub])
    BY DEF Plain, Asks, Idle
  <2>3. UNCHANGED server  BY <1>4, Zenon DEF VerifyDeviceCode
  <2> QED  BY <2>1, <2>2, <2>3, <1>b
<1>5. CASE CallApi(p)
  <2>1. Plain(p, [Asks("refresh", "refused") EXCEPT !.token = Kept(p)])
    BY DEF Plain, Asks, Idle
  <2> QED  BY <1>5, <2>1, <1>b DEF CallApi
<1>6. CASE Logout(p)
  <2>1. Plain(p, [Asks("logout", "end") EXCEPT !.token = Kept(p)])
    BY DEF Plain, Asks, Idle
  <2> QED  BY <1>6, <2>1, <1>b DEF Logout
<1>7. CASE ChangePassword(p)
  <2>1. Plain(p, [Asks("change", "write") EXCEPT !.token = Kept(p)])
    BY DEF Plain, Asks, Idle
  <2> QED  BY <1>7, <2>1, <1>b DEF ChangePassword
<1>8. CASE ResetPassword(p)
  <2>1. PICK u \in Person :
          Begin(p, [Asks("reset", "write") EXCEPT !.user = u])
    BY <1>8 DEF ResetPassword
  <2>2. Plain(p, [Asks("reset", "write") EXCEPT !.user = u])
    BY DEF Plain, Asks, Idle
  <2>3. UNCHANGED server  BY <1>8, Zenon DEF ResetPassword
  <2> QED  BY <2>1, <2>2, <2>3, <1>b
<1> QED  BY <1>1, <1>2, <1>3, <1>4, <1>5, <1>6, <1>7, <1>8

(* A request is over: what it carried is forgotten, and unless that was    *)
(* the answer to a refresh no session is the worse for it.                 *)
LEMMA EndsPass ==
  ASSUME Shape, NEW p \in Process, Done(p), Thinned, UNCHANGED <<jar, opened>>,
         mishaps \subseteq mishaps',
         Calm' => revoked' = revoked /\ ~At(p, "refresh", "answer")
  PROVE  Passes(p, Idle)
<1>1. call' = [call EXCEPT ![p] = Idle]  BY DEF Done, Goto
<1>2. Idle.token.sid = 0 /\ Idle.op = "idle" /\ Idle.step = "idle"  BY DEF Idle, NoToken
<1> QED  BY <1>1, <1>2 DEF Passes, Asking

(* A request goes on with the token it has.                                *)
LEMMA GoesOnPass ==
  ASSUME Shape, NEW p \in Process, NEW r, Goto(p, r), Thinned,
         UNCHANGED <<jar, opened, mishaps, revoked>>,
         SameName(r.token, call[p].token),
         r.step \notin {"answer", "look"}, ~At(p, "refresh", "answer"),
         Calm => ~(r.op = "refresh" /\ r.step = "revoke"),
         Asking(r) => Asking(call[p])
  PROVE  Passes(p, r)
BY DEF Goto, Passes, Calm

LEMMA GoingOnPass ==
  ASSUME Shape, TokenInv, NEW p \in Process,
         \/ MintPair(p) \/ LookUpSession(p) \/ PollDeviceCode(p) \/ ConsumeCode(p)
         \/ EndSession(p) \/ CommitReset(p)
  PROVE  \E r : Passes(p, r)
<1>c. call[p] \in CallShape /\ Fits(call[p])  BY DEF Shape
<1>s. Thinned /\ UNCHANGED <<jar, opened, mishaps, revoked>>
  <2>1. session' \subseteq session /\ UNCHANGED <<jar, opened, history>>
    <3>1. CASE MintPair(p)  BY <3>1 DEF MintPair, server
    <3>2. CASE LookUpSession(p)  BY <3>2, Zenon DEF LookUpSession, server
    <3>3. CASE PollDeviceCode(p)  BY <3>3, Zenon DEF PollDeviceCode
    <3>4. CASE ConsumeCode(p)  BY <3>4, Zenon DEF ConsumeCode
    <3>5. CASE EndSession(p)  BY <3>5 DEF EndSession
    <3>6. CASE CommitReset(p)  BY <3>6 DEF CommitReset
    <3> QED  BY <3>1, <3>2, <3>3, <3>4, <3>5, <3>6
  <2> QED  BY <2>1, AllThinned DEF history
<1>a. ~At(p, "refresh", "answer")
  <2>1. CASE MintPair(p)  BY <2>1 DEF MintPair, At
  <2>2. CASE LookUpSession(p)  BY <2>2 DEF LookUpSession, At
  <2>3. CASE PollDeviceCode(p)
    <3>1. At(p, "poll", "wait")  BY <2>3, Zenon DEF PollDeviceCode
    <3> QED  BY <3>1 DEF At
  <2>5. CASE ConsumeCode(p)
    <3>1. At(p, "poll", "consume")  BY <2>5, Zenon DEF ConsumeCode
    <3> QED  BY <3>1 DEF At
  <2>4. CASE EndSession(p) \/ CommitReset(p)  BY <2>4 DEF EndSession, CommitReset, At
  <2> QED  BY <2>1, <2>2, <2>3, <2>4, <2>5
<1>d. CASE Done(p)  BY <1>d, <1>s, <1>a, EndsPass
<1>1. CASE MintPair(p)
  <2> DEFINE r == [call[p] EXCEPT !.step = "write", !.token.iat = now]
  <2>1. Goto(p, r) /\ call[p].step = "mint"  BY <1>1 DEF MintPair
  <2>2. r.step = "write" /\ r.op = call[p].op /\ SameName(r.token, call[p].token)
    BY <1>c DEF CallShape, AnyToken, SameName
  <2> HIDE DEF r
  <2>3. Passes(p, r)  BY <1>s, <1>a, <2>1, <2>2, GoesOnPass DEF Asking
  <2> QED  BY <2>3
<1>2. ASSUME NEW step, Step(p, step), step \notin {"answer", "look"},
             Calm => ~(call[p].op = "refresh" /\ step = "revoke"),
             call[p].op = "refresh" => call[p].step = "look"
      PROVE  \E r : Passes(p, r)
  <2> DEFINE r == [call[p] EXCEPT !.step = step]
  <2>1. Goto(p, r)  BY <1>2 DEF Step
  <2>2. r.step = step /\ r.op = call[p].op /\ r.token = call[p].token
    BY <1>c DEF CallShape
  <2> HIDE DEF r
  <2>3. Passes(p, r)  BY <1>2, <1>s, <1>a, <2>1, <2>2, GoesOnPass DEF Asking, SameName
  <2> QED  BY <2>3
<1>3. CASE LookUpSession(p)
  <2>1. call[p].op = "refresh" /\ call[p].step = "look"  BY <1>3 DEF LookUpSession, At
  <2>2. ASSUME Step(p, "revoke"), NEW s \in Rows(call[p].token.sid), s.iat # call[p].token.iat
        PROVE  \E r : Passes(p, r)
    <3>1. ~Calm  BY <2>1, <2>2 DEF TokenInv, Current, At, Rows
    <3> QED  BY <2>1, <2>2, <3>1, <1>2
  <2> QED  BY <1>2, <1>3, <1>d, <2>1, <2>2 DEF LookUpSession
<1>4. CASE PollDeviceCode(p)
  <2>1. ASSUME NEW k \in LiveCodes,
               Goto(p, [call[p] EXCEPT !.step = "consume", !.user = k.user, !.version = k.version])
        PROVE  \E r : Passes(p, r)
    <3> DEFINE r == [call[p] EXCEPT !.step = "consume", !.user = k.user, !.version = k.version]
    <3>1. r.step = "consume" /\ r.token = call[p].token  BY <1>c DEF CallShape
    <3>2. Goto(p, r)  BY <2>1
    <3> HIDE DEF r
    <3>3. Passes(p, r)  BY <1>s, <1>a, <3>1, <3>2, GoesOnPass DEF Asking, SameName
    <3> QED  BY <3>3
  <2> QED  BY <1>4, <1>d, <2>1, Zenon DEF PollDeviceCode
<1>5. CASE ConsumeCode(p)
  <2>1. CASE ToLogin(p)
    <3> DEFINE r == [call[p] EXCEPT !.op = "login", !.step = "mint"]
    <3>1. r.op = "login" /\ r.step = "mint" /\ r.token = call[p].token  BY <1>c DEF CallShape
    <3>2. Goto(p, r)  BY <2>1 DEF ToLogin
    <3> HIDE DEF r
    <3>3. Passes(p, r)  BY <1>s, <1>a, <3>1, <3>2, GoesOnPass DEF Asking, SameName
    <3> QED  BY <3>3
  <2> QED  BY <1>5, <1>d, <2>1 DEF ConsumeCode, IssueIfConsumed
<1>6. CASE EndSession(p)  BY <1>6, <1>2 DEF EndSession, At
<1>7. CASE CommitReset(p)  BY <1>7, <1>2 DEF CommitReset, At
<1> QED  BY <1>1, <1>3, <1>4, <1>5, <1>6, <1>7

LEMMA SendPass ==
  ASSUME Shape, NEW p \in Process, call[p].op = "refresh", call[p].step = "refused",
         Send(p, Kept(p))
  PROVE  \E r : Passes(p, r)
<1> DEFINE r == [call[p] EXCEPT !.step = "look", !.token = Kept(p)]
<1>1. call' = [call EXCEPT ![p] = r]  BY DEF Send, Goto
<1>2. r.token = Kept(p) /\ r.step = "look" /\ r.op = "refresh"
  BY DEF Shape, CallShape
<1>3. /\ UNCHANGED <<jar, opened, revoked, session>>
      /\ mishaps' = IF \E q \in Process \ {p} : Home[q] = Home[p] /\ Refreshing(q)
                    THEN mishaps \cup {"raced"} ELSE mishaps
  BY DEF Send, server
<1> HIDE DEF r
<1>4. Thinned  BY <1>3, AllThinned
<1>5. Calm' => AloneAtHome(p)  BY <1>3 DEF Calm, AloneAtHome, Asking, Refreshing
<1>6. ~At(p, "refresh", "answer")  BY DEF At
<1>7. SameName(r.token, Kept(p))  BY <1>2 DEF SameName
<1>8. mishaps \subseteq mishaps'  BY <1>3
<1>9. Passes(p, r)  BY <1>1, <1>2, <1>3, <1>4, <1>5, <1>6, <1>7, <1>8 DEF Passes
<1> QED  BY <1>9

LEMMA RefreshesPass ==
  ASSUME Shape, NEW p \in Process, RefreshOnCommandLine(p) \/ RefreshInBrowser(p)
  PROVE  \E r : Passes(p, r)
<1>1. call[p].op = "refresh" /\ call[p].step = "refused"
  BY DEF RefreshOnCommandLine, RefreshInBrowser, At
<1>2. CASE Send(p, Kept(p))  BY <1>1, <1>2, SendPass
<1>3. CASE Retry(p)
  <2>1. Done(p) /\ UNCHANGED <<jar, opened, mishaps, revoked, session>>
    BY <1>3 DEF Retry, server, history
  <2>2. Passes(p, Idle)  BY <1>1, <2>1, AllThinned, EndsPass DEF At
  <2> QED  BY <2>2
<1> QED  BY <1>2, <1>3 DEF RefreshOnCommandLine, RefreshInBrowser, SendOrRetry

(* A replay is not taken for one in the calm.                              *)
LEMMA EndingsPass ==
  ASSUME Shape, TokenInv, NEW p \in Process,
         \/ AuthoriseCode(p) \/ RevokeSession(p) \/ CommitChange(p)
         \/ SignOutEverywhere(p) \/ Lose(p)
  PROVE  Passes(p, Idle)
<1>1. CASE AuthoriseCode(p)
  <2>1. Done(p) /\ UNCHANGED <<jar, opened, mishaps, revoked, session>>
        /\ At(p, "verify", "write")
    BY <1>1, Zenon DEF AuthoriseCode, history
  <2> QED  BY <2>1, AllThinned, EndsPass DEF At
<1>2. CASE RevokeSession(p)
  <2>1. Done(p) /\ UNCHANGED <<jar, opened, mishaps>> /\ session' \subseteq session
        /\ call[p].op = "refresh" /\ call[p].step \in {"expire", "revoke"}
    BY <1>2 DEF RevokeSession
  <2>2. Calm' => revoked' = revoked
    <3>1. Calm => call[p].step # "revoke"  BY <2>1 DEF TokenInv, Current, At
    <3> QED  BY <1>2, <2>1, <3>1 DEF RevokeSession, Calm
  <2> QED  BY <2>1, <2>2, AllThinned, EndsPass DEF At
<1>3. CASE CommitChange(p)
  <2>1. Done(p) /\ UNCHANGED <<jar, opened, mishaps, revoked>> /\ At(p, "change", "write")
        /\ session' \subseteq session
    BY <1>3 DEF CommitChange, SignedOut, history
  <2> QED  BY <2>1, AllThinned, EndsPass DEF At
<1>4. CASE SignOutEverywhere(p)
  <2>1. Done(p) /\ UNCHANGED <<jar, opened, mishaps, revoked>> /\ At(p, "reset", "signout")
        /\ session' \subseteq session
    BY <1>4 DEF SignOutEverywhere, SignedOut, history
  <2> QED  BY <2>1, AllThinned, EndsPass DEF At
<1>5. CASE Lose(p)
  <2>1. Done(p) /\ UNCHANGED <<jar, opened, revoked, session>> /\ mishaps \subseteq mishaps'
        /\ (At(p, "refresh", "answer") => "lost" \in mishaps')
    BY <1>5 DEF Lose, server
  <2>2. Calm' => ~At(p, "refresh", "answer")  BY <2>1 DEF Calm
  <2> QED  BY <2>1, <2>2, AllThinned, EndsPass
<1> QED  BY <1>1, <1>2, <1>3, <1>4, <1>5

(***************************************************************************)
(* The steps that make tokens, and those that keep or forget them.         *)
(***************************************************************************)
LEMMA IssueKeepsTokens ==
  ASSUME Shape, TokenInv, NEW p \in Process, IssueTokens(p)
  PROVE  TokenInv'
<1> DEFINE t == [sid |-> opened + 1, sub |-> call[p].user, iat |-> call[p].token.iat]
           new == [sid |-> opened + 1, user |-> call[p].user, iat |-> call[p].token.iat,
                   expires |-> now + Lifetime, version |-> call[p].version]
           r == [call[p] EXCEPT !.step = "answer", !.token = t]
<1>1. /\ session' = session \cup {new} /\ opened' = opened + 1
      /\ call' = [call EXCEPT ![p] = r] /\ UNCHANGED <<jar, mishaps, revoked>>
      /\ call[p].op = "login" /\ call[p].step = "write"
  BY DEF IssueTokens, NewFamily, At, Goto
<1>2. /\ new.sid = opened + 1 /\ new.user = t.sub /\ new.iat = t.iat /\ t.sid = opened + 1
      /\ r.op = "login" /\ r.step = "answer" /\ r.token = t
  BY <1>1 DEF Shape, CallShape
<1> HIDE DEF t, new, r
<1>3. \A q \in Process : call'[q] = IF q = p THEN r ELSE call[q]
  BY <1>1 DEF Shape
<1>4. opened \in Nat /\ opened + 1 > opened /\ opened + 1 # 0 /\ opened + 1 \in Nat
  BY DEF Shape
<1>5. /\ \A c \in Client : jar[c].sid \in Nat /\ jar[c].sid <= opened
      /\ \A q \in Process : call[q].token.sid \in Nat /\ call[q].token.sid <= opened
      /\ \A s \in session : s.sid \in Nat /\ 1 <= s.sid /\ s.sid <= opened
  BY DEF Shape, TokenInv, Named, Names, CallShape, AnyToken, TokenShape, NoToken, RowShape
<1>6. Named'
  <2>1. ASSUME NEW u, u.sid \in Nat, Names(u)
        PROVE  u.sid <= opened' /\ \A s \in session' : s.sid = u.sid => s.user = u.sub
    BY <1>1, <1>2, <1>4, <2>1 DEF Names
  <2>2. t.sid <= opened' /\ \A s \in session' : s.sid = t.sid => s.user = t.sub
    BY <1>1, <1>2, <1>4, <1>5
  <2>3. \A q \in Process : Names(call[q].token)'
    BY <1>2, <1>3, <1>5, <2>1, <2>2 DEF Names, TokenInv, Named
  <2>4. \A c \in Client : Names(jar[c])'
    BY <1>1, <1>5, <2>1 DEF Names, TokenInv, Named
  <2>5. \A s \in session' : 1 <= s.sid /\ s.sid <= opened'
    BY <1>1, <1>2, <1>4, <1>5
  <2> QED  BY <2>3, <2>4, <2>5 DEF Named
<1>7. Apart'
  <2>1. \A c \in Client, n \in Nat \ {0} :
          HoldsSession(c, n)' => HoldsSession(c, n) \/ (n = opened + 1 /\ c = Home[p])
    BY <1>1, <1>2, <1>3 DEF HoldsSession
  <2>2. \A c \in Client : ~HoldsSession(c, opened + 1)
    BY <1>4, <1>5 DEF HoldsSession
  <2>3. \A n \in Nat \ {0}, c, d \in Client :
          HoldsSession(c, n)' /\ HoldsSession(d, n)' => c = d
    BY <2>1, <2>2 DEF TokenInv, Apart
  <2>4. ASSUME NEW q \in Process, At(q, "login", "answer")'
        PROVE  /\ call'[q].token.sid # 0
               /\ \A c \in Client : jar'[c].sid # call'[q].token.sid
               /\ \A w \in Process \ {q} : call'[w].token.sid # call'[q].token.sid
    <3>1. CASE q = p
      BY <1>1, <1>2, <1>3, <1>4, <1>5, <3>1
    <3>2. CASE q # p
      <4>1. At(q, "login", "answer") /\ call'[q] = call[q]  BY <1>3, <2>4, <3>2 DEF At
      <4> QED  BY <1>1, <1>2, <1>3, <1>4, <1>5, <4>1 DEF TokenInv, Apart
    <3> QED  BY <3>1, <3>2
  <2> QED  BY <2>3, <2>4 DEF Apart
<1>8. Calm' => Current'
  <2> SUFFICES ASSUME Calm'  PROVE Current'
    OBVIOUS
  <2>0. Current  BY <1>1 DEF TokenInv, Calm
  <2>1. \A q \in Process : Asking(call'[q]) => Asking(call[q])
    BY <1>2, <1>3 DEF Asking
  <2>2. \A q \in Process : ~At(q, "refresh", "revoke")'
    BY <1>2, <1>3, <2>0 DEF At, Current
  <2>3. ASSUME NEW q \in Process, NEW s \in session',
               call'[q].step = "answer" \/ At(q, "refresh", "look")',
               s.sid = call'[q].token.sid
        PROVE  s.iat = call'[q].token.iat
    <3>1. CASE q = p
      BY <1>1, <1>2, <1>3, <1>4, <1>5, <2>3, <3>1
    <3>2. CASE q # p
      BY <1>1, <1>2, <1>3, <1>4, <1>5, <2>0, <2>3, <3>2 DEF Current, At
    <3> QED  BY <3>1, <3>2
  <2>4. ASSUME NEW c \in Client, NEW s \in session', s.sid = jar'[c].sid
        PROVE  \/ s.iat = jar'[c].iat
               \/ \E q \in Process :
                    Home[q] = c /\ At(q, "refresh", "answer")' /\ call'[q].token.sid = s.sid
    <3>1. s \in session  BY <1>1, <1>2, <1>4, <1>5, <2>4
    <3>2. \A q \in Process : At(q, "refresh", "answer") => At(q, "refresh", "answer")'
                                                        /\ call'[q] = call[q]
      BY <1>1, <1>3 DEF At
    <3> QED  BY <1>1, <2>0, <2>4, <3>1, <3>2 DEF Current
  <2> QED  BY <1>1, <2>0, <2>1, <2>2, <2>3, <2>4 DEF Current
<1> QED  BY <1>6, <1>7, <1>8 DEF TokenInv

(* The row of the session, and no other, takes the new token, which is on  *)
(* its way back.                                                           *)
LEMMA RotateKeepsTokens ==
  ASSUME Shape, TokenInv, NEW p \in Process, RotateTokens(p)
  PROVE  TokenInv'
<1> DEFINE t == call[p].token
           upd(s) == [s EXCEPT !.iat = t.iat, !.expires = now + Lifetime]
           new(s) == IF s.sid = t.sid THEN upd(s) ELSE s
<1>1. /\ call[p].op = "refresh" /\ call[p].step = "write"
      /\ session' = {new(s) : s \in session}
      /\ UNCHANGED <<jar, opened, mishaps, revoked>>
  <2>1. session' = {new(s) : s \in session}  BY Zenon DEF RotateTokens, Rotated
  <2> HIDE DEF new
  <2> QED  BY <2>1 DEF RotateTokens, At, history
<1>2. \A s \in session : /\ new(s).sid = s.sid /\ new(s).user = s.user
                         /\ new(s).iat = IF s.sid = t.sid THEN t.iat ELSE s.iat
  BY DEF Shape, RowShape
<1> HIDE DEF new
<1>3. \A s \in session' : \E q \in session :
        /\ q.sid = s.sid /\ q.user = s.user
        /\ s.iat = IF s.sid = t.sid THEN t.iat ELSE q.iat
  BY <1>1, <1>2
<1>4. CASE Rows(t.sid) = {}
  <2>1. Thinned  BY <1>3, <1>4 DEF Thinned, Rows
  <2>2. Done(p)  BY <1>4 DEF RotateTokens
  <2>3. Passes(p, Idle)  BY <1>1, <2>1, <2>2, EndsPass DEF At
  <2> QED  BY <2>3, PassKeeps
<1>5. CASE Rows(t.sid) # {}
  <2> DEFINE r == [call[p] EXCEPT !.step = "answer"]
  <2>1. call' = [call EXCEPT ![p] = r]  BY <1>5 DEF RotateTokens, Step, Goto
  <2>2. r.op = "refresh" /\ r.step = "answer" /\ r.token = t
    BY <1>1 DEF Shape, CallShape
  <2> HIDE DEF r
  <2>3. \A q \in Process : call'[q] = IF q = p THEN r ELSE call[q]
    BY <2>1 DEF Shape
  <2>4. \A q \in Process : call'[q].token = call[q].token  BY <2>2, <2>3
  <2>5. Named'  BY <1>1, <1>3, <2>4 DEF TokenInv, Named, Names
  <2>6. \A q \in Process : At(q, "login", "answer")' => At(q, "login", "answer")
    BY <2>2, <2>3 DEF At
  <2>7. \A c \in Client, n \in Nat : HoldsSession(c, n)' <=> HoldsSession(c, n)
    BY <1>1, <2>4 DEF HoldsSession
  <2>8. Apart'
    <3>1. \A n \in Nat \ {0}, c, d \in Client :
            HoldsSession(c, n)' /\ HoldsSession(d, n)' => c = d
      BY <2>7 DEF TokenInv, Apart
    <3> QED  BY <1>1, <2>4, <2>6, <3>1 DEF TokenInv, Apart
  <2>9. ASSUME Calm'  PROVE Current'
    <3>0. Current  BY <1>1, <2>9 DEF TokenInv, Calm
    <3>1. \A q \in Process : Asking(call'[q]) <=> Asking(call[q])
      BY <1>1, <2>2, <2>3 DEF Asking
    <3>2. \A q \in Process : ~At(q, "refresh", "revoke")'
      BY <2>2, <2>3, <3>0 DEF At, Current
    <3>3. t.sid \in Nat \ {0} /\ Home[p] \in Client
      <4>1. PICK s \in session : s.sid = t.sid  BY <1>5 DEF Rows
      <4> QED  BY <4>1, HomeAssumption DEF TokenInv, Named, Shape, RowShape
    (* Another request with a token of this session would be of this client. *)
    <3>4. ASSUME NEW q \in Process, q # p, call[q].token.sid = t.sid
          PROVE  ~Asking(call[q]) /\ ~At(q, "login", "answer")
      <4>1. HoldsSession(Home[q], t.sid) /\ HoldsSession(Home[p], t.sid) /\ Home[q] \in Client
        BY <3>4, HomeAssumption DEF HoldsSession
      <4>2. Home[q] = Home[p]  BY <3>3, <4>1 DEF TokenInv, Apart
      <4>3. ~Asking(call[q])  BY <1>1, <3>0, <3>4, <4>2 DEF Current, Asking
      <4>4. ~At(q, "login", "answer")  BY <3>4 DEF TokenInv, Apart
      <4> QED  BY <4>3, <4>4
    <3>5. ASSUME NEW q \in Process, NEW s \in session',
                 call'[q].step = "answer" \/ At(q, "refresh", "look")',
                 s.sid = call'[q].token.sid
          PROVE  s.iat = call'[q].token.iat
      <4>1. CASE q = p  BY <1>3, <2>4, <3>5, <4>1
      <4>2. CASE q # p
        <5>1. call'[q] = call[q] /\ (call[q].step = "answer" \/ At(q, "refresh", "look"))
          BY <2>3, <3>5, <4>2 DEF At
        <5>2. Asking(call[q]) \/ At(q, "login", "answer")
          BY <5>1 DEF Shape, Fits, At, Asking
        <5>3. s.sid # t.sid  BY <3>4, <3>5, <4>2, <5>1, <5>2
        <5>4. PICK o \in session : o.sid = s.sid /\ o.iat = s.iat  BY <1>3, <5>3
        <5> QED  BY <3>0, <3>5, <5>1, <5>4 DEF Current
      <4> QED  BY <4>1, <4>2
    <3>6. ASSUME NEW c \in Client, NEW s \in session', s.sid = jar'[c].sid
          PROVE  \/ s.iat = jar'[c].iat
                 \/ \E q \in Process :
                      Home[q] = c /\ At(q, "refresh", "answer")' /\ call'[q].token.sid = s.sid
      <4>1. CASE s.sid = t.sid
        <5>1. HoldsSession(c, t.sid) /\ HoldsSession(Home[p], t.sid)
          BY <1>1, <3>6, <4>1 DEF HoldsSession
        <5>2. c = Home[p]  BY <3>3, <5>1 DEF TokenInv, Apart
        <5>3. At(p, "refresh", "answer")' /\ call'[p].token.sid = s.sid
          BY <2>2, <2>3, <4>1 DEF At
        <5> QED  BY <5>2, <5>3
      <4>2. CASE s.sid # t.sid
        <5>1. PICK o \in session : o.sid = s.sid /\ o.iat = s.iat  BY <1>3, <4>2
        <5>2. \A q \in Process : At(q, "refresh", "answer") => At(q, "refresh", "answer")'
          BY <1>1, <2>3 DEF At
        <5> QED  BY <1>1, <2>4, <3>0, <3>6, <5>1, <5>2 DEF Current
      <4> QED  BY <4>1, <4>2
    <3> QED  BY <1>1, <3>0, <3>1, <3>2, <3>5, <3>6 DEF Current
  <2> QED  BY <2>5, <2>8, <2>9 DEF TokenInv
<1> QED  BY <1>4, <1>5

(* A client keeps the token of an answer, or forgets what it has.          *)
LEMMA KeepKeepsTokens ==
  ASSUME Shape, TokenInv, NEW p \in Process, KeepTokens(p) \/ ClearTokens(p)
  PROVE  TokenInv'
<1>0. call[p] \in CallShape /\ Fits(call[p]) /\ Home[p] \in Client
  BY HomeAssumption DEF Shape
<1>1. PICK t : /\ jar' = [jar EXCEPT ![Home[p]] = t]
               /\ t = NoToken \/ (t = call[p].token /\ call[p].step = "answer")
               /\ call[p].step = "answer" => t = call[p].token
  BY DEF KeepTokens, ClearTokens, Keep, At
<1>2. call' = [call EXCEPT ![p] = Idle] /\ UNCHANGED <<session, opened, mishaps, revoked>>
  BY DEF KeepTokens, ClearTokens, Done, Goto, server, history
<1>3. /\ \A q \in Process : call'[q] = IF q = p THEN Idle ELSE call[q]
      /\ \A c \in Client : jar'[c] = IF c = Home[p] THEN t ELSE jar[c]
  BY <1>1, <1>2 DEF Shape
<1>4. Idle.op = "idle" /\ Idle.step = "idle" /\ Idle.token.sid = 0 /\ NoToken.sid = 0
      /\ Idle.token = NoToken
  BY DEF Idle, NoToken
<1>5. \A s \in session : s.sid \in Nat \ {0}  BY DEF Shape, RowShape, TokenInv, Named
<1>6. Named'
  <2>1. Names(NoToken)  BY <1>4, <1>5 DEF Names, Shape
  <2>2. Names(t)  BY <1>1, <2>1 DEF TokenInv, Named
  <2> QED  BY <1>2, <1>3, <1>4, <2>1, <2>2 DEF TokenInv, Named, Names
<1>7. Apart'
  <2>1. \A c \in Client, n \in Nat \ {0} : HoldsSession(c, n)' => HoldsSession(c, n)
    BY <1>1, <1>3, <1>4 DEF HoldsSession
  <2>2. \A n \in Nat \ {0}, c, d \in Client :
          HoldsSession(c, n)' /\ HoldsSession(d, n)' => c = d
    BY <2>1 DEF TokenInv, Apart
  <2>3. ASSUME NEW q \in Process, At(q, "login", "answer")'
        PROVE  /\ call'[q].token.sid # 0
               /\ \A c \in Client : jar'[c].sid # call'[q].token.sid
               /\ \A w \in Process \ {q} : call'[w].token.sid # call'[q].token.sid
    <3>1. q # p /\ At(q, "login", "answer") /\ call'[q] = call[q]
      BY <1>3, <1>4, <2>3 DEF At
    <3> QED  BY <1>1, <1>3, <1>4, <3>1 DEF TokenInv, Apart
  <2> QED  BY <2>2, <2>3 DEF Apart
<1>8. ASSUME Calm'  PROVE Current'
  <2>0. Current  BY <1>2, <1>8 DEF TokenInv, Calm
  <2>1. \A q \in Process : Asking(call'[q]) => Asking(call[q])
    BY <1>3, <1>4 DEF Asking
  <2>2. \A q \in Process : ~At(q, "refresh", "revoke")'
    BY <1>3, <1>4, <2>0 DEF At, Current
  <2>3. \A q \in Process, s \in session' :
          call'[q].step = "answer" \/ At(q, "refresh", "look")' =>
             (s.sid = call'[q].token.sid => s.iat = call'[q].token.iat)
    BY <1>2, <1>3, <1>4, <2>0 DEF Current, At
  <2>4. ASSUME NEW c \in Client, NEW s \in session', s.sid = jar'[c].sid
        PROVE  \/ s.iat = jar'[c].iat
               \/ \E q \in Process :
                    Home[q] = c /\ At(q, "refresh", "answer")' /\ call'[q].token.sid = s.sid
    <3>1. CASE c = Home[p]
      BY <1>1, <1>2, <1>3, <1>4, <1>5, <2>0, <2>4, <3>1 DEF Current
    <3>2. CASE c # Home[p]
      <4>1. \A q \in Process : Home[q] = c => call'[q] = call[q]
        BY <1>3, <3>2
      <4> QED  BY <1>2, <1>3, <2>0, <2>4, <3>2, <4>1 DEF Current, At
    <3> QED  BY <3>1, <3>2
  <2> QED  BY <1>2, <2>0, <2>1, <2>2, <2>3, <2>4 DEF Current
<1> QED  BY <1>6, <1>7, <1>8 DEF TokenInv

LEMMA TokensStep == AuthInv /\ TokenInv /\ [AuthNext]_authVars => TokenInv'
<1> SUFFICES ASSUME AuthInv, TokenInv, [AuthNext]_authVars  PROVE TokenInv'
  OBVIOUS
<1>t. Shape  BY DEF AuthInv
<1>1. CASE \/ Tick \/ DeleteExpiredSessions \/ UNCHANGED authVars
           \/ \E u \in Person : ForgotPassword(u)
  <2>1. session' \subseteq session /\ UNCHANGED <<jar, opened, call, revoked, mishaps>>
    BY <1>1 DEF Tick, DeleteExpiredSessions, ForgotPassword, authVars, server, history
  <2> QED  BY <2>1, AllThinned, RestKeeps
<1>2. ASSUME NEW p \in Process,
             \/ Login(p) \/ CreateDeviceCode(p) \/ PollAgain(p) \/ VerifyDeviceCode(p)
             \/ AuthoriseCode(p) \/ PollDeviceCode(p) \/ ConsumeCode(p)
             \/ MintPair(p) \/ IssueTokens(p) \/ CallApi(p)
             \/ RefreshOnCommandLine(p) \/ RefreshInBrowser(p)
             \/ LookUpSession(p) \/ RevokeSession(p) \/ RotateTokens(p)
             \/ KeepTokens(p) \/ Logout(p) \/ EndSession(p) \/ ClearTokens(p)
             \/ ChangePassword(p) \/ CommitChange(p) \/ ResetPassword(p)
             \/ CommitReset(p) \/ SignOutEverywhere(p) \/ Lose(p)
      PROVE  TokenInv'
  <2>1. CASE \E r : Passes(p, r)  BY <1>t, <2>1, PassKeeps
  <2>2. CASE IssueTokens(p)  BY <1>t, <2>2, IssueKeepsTokens
  <2>3. CASE RotateTokens(p)  BY <1>t, <2>3, RotateKeepsTokens
  <2>4. CASE KeepTokens(p) \/ ClearTokens(p)  BY <1>t, <2>4, KeepKeepsTokens
  <2> QED  BY <1>2, <1>t, <2>1, <2>2, <2>3, <2>4, BeginningsPass, GoingOnPass, RefreshesPass,
              EndingsPass
<1> QED  BY <1>1, <1>2 DEF AuthNext

LEMMA TokensNamed == AuthSpec => []TokenInv
<1>1. AuthInit => TokenInv  BY TokenInitHolds
<1> QED  BY <1>1, TokensStep, Invariant, PTL DEF AuthSpec

(* A session is taken for a stolen one only after an answer to a refresh   *)
(* was lost or two requests of a client refreshed at once: a command that  *)
(* finds its token rotated by another uses the other's.                    *)
THEOREM ReplayIsExplained == AuthSpec => []ReplayNeedsMishap
<1>1. TokenInv => ReplayNeedsMishap
  BY DEF TokenInv, Calm, Current, ReplayNeedsMishap
<1> QED  BY <1>1, TokensNamed, PTL

(***************************************************************************)
(* Passwords: which sessions a change of password leaves.                  *)
(***************************************************************************)
Worn ==
    \A s \in session' : \E q \in session :
        q.sid = s.sid /\ q.user = s.user /\ q.version = s.version

(* A step with no change of password and no new session explains as much   *)
(* as it did, unless it is that of a reset that has still to sign out.     *)
LEMMA WornKeepsPasswords ==
  ASSUME OldPasswordSignedOut, Worn, password' = password, late \subseteq late',
         mishaps \subseteq mishaps',
         \A q \in Process : At(q, "reset", "signout") =>
             At(q, "reset", "signout")' /\ call'[q].user = call[q].user
  PROVE  OldPasswordSignedOut'
<1> SUFFICES ASSUME NEW s \in session'
             PROVE  \/ s.version = password'[s.user]
                    \/ s.sid \in late'
                    \/ "halfway" \in mishaps'
                    \/ \E q \in Process : At(q, "reset", "signout")' /\ call'[q].user = s.user
  BY DEF OldPasswordSignedOut
<1>1. PICK r \in session : r.sid = s.sid /\ r.user = s.user /\ r.version = s.version
  BY DEF Worn
<1> QED  BY <1>1 DEF OldPasswordSignedOut

LEMMA AllWorn == session' \subseteq session => Worn
BY DEF Worn

(* What a request does next is its own affair.                             *)
LEMMA OthersWait ==
  ASSUME Shape, NEW p \in Process, NEW r, call' = [call EXCEPT ![p] = r],
         ~At(p, "reset", "signout")
  PROVE  \A q \in Process : At(q, "reset", "signout") =>
             At(q, "reset", "signout")' /\ call'[q].user = call[q].user
BY DEF Shape, At

LEMMA BeginningsKeepPasswords ==
  ASSUME Shape, OldPasswordSignedOut, NEW p \in Process,
         \/ Login(p) \/ CreateDeviceCode(p) \/ PollAgain(p) \/ VerifyDeviceCode(p)
         \/ CallApi(p) \/ Logout(p) \/ ChangePassword(p) \/ ResetPassword(p)
  PROVE  OldPasswordSignedOut'
<1>1. PICK r : Begin(p, r) /\ UNCHANGED <<password, session>>
  <2>1. CASE Login(p)  BY <2>1, Zenon DEF Login, server
  <2>2. CASE CreateDeviceCode(p)  BY <2>2, Zenon DEF CreateDeviceCode
  <2>3. CASE PollAgain(p)  BY <2>3, Zenon DEF PollAgain, server
  <2>4. CASE VerifyDeviceCode(p)  BY <2>4, Zenon DEF VerifyDeviceCode, server
  <2>5. CASE CallApi(p)  BY <2>5, Zenon DEF CallApi, server
  <2>6. CASE Logout(p)  BY <2>6, Zenon DEF Logout, server
  <2>7. CASE ChangePassword(p)  BY <2>7, Zenon DEF ChangePassword, server
  <2>8. CASE ResetPassword(p)  BY <2>8, Zenon DEF ResetPassword, server
  <2> QED  BY <2>1, <2>2, <2>3, <2>4, <2>5, <2>6, <2>7, <2>8
<1>2. /\ call' = [call EXCEPT ![p] = r] /\ call[p] = Idle
      /\ UNCHANGED <<late, mishaps>>
  BY <1>1 DEF Begin, history
<1>3. ~At(p, "reset", "signout")  BY <1>2 DEF At, Idle
<1> QED  BY <1>1, <1>2, <1>3, AllWorn, OthersWait, WornKeepsPasswords

LEMMA RequestsKeepPasswords ==
  ASSUME Shape, OldPasswordSignedOut, NEW p \in Process,
         \/ AuthoriseCode(p) \/ PollDeviceCode(p) \/ ConsumeCode(p) \/ MintPair(p)
         \/ RefreshOnCommandLine(p) \/ RefreshInBrowser(p) \/ LookUpSession(p)
         \/ RevokeSession(p) \/ RotateTokens(p) \/ KeepTokens(p)
         \/ EndSession(p) \/ ClearTokens(p)
  PROVE  OldPasswordSignedOut'
<1>1. UNCHANGED <<password, late>> /\ mishaps \subseteq mishaps' /\ ~At(p, "reset", "signout")
  <2>1. CASE AuthoriseCode(p)
    <3>1. UNCHANGED <<password, history>> /\ At(p, "verify", "write")
      BY <2>1, Zenon DEF AuthoriseCode
    <3> QED  BY <3>1 DEF history, At
  <2>2. CASE PollDeviceCode(p)
    <3>1. UNCHANGED <<password, history>> /\ At(p, "poll", "wait")
      BY <2>2, Zenon DEF PollDeviceCode
    <3> QED  BY <3>1 DEF history, At
  <2>3. CASE ConsumeCode(p)
    <3>1. UNCHANGED <<password, history>> /\ At(p, "poll", "consume")
      BY <2>3, Zenon DEF ConsumeCode
    <3> QED  BY <3>1 DEF history, At
  <2>4. CASE MintPair(p)  BY <2>4 DEF MintPair, server, history, At
  <2>5. CASE RefreshOnCommandLine(p) \/ RefreshInBrowser(p)
    BY <2>5 DEF RefreshOnCommandLine, RefreshInBrowser, SendOrRetry, Send, Retry, server,
                history, At
  <2>6. CASE LookUpSession(p)
    <3>1. UNCHANGED <<server, history>> /\ At(p, "refresh", "look")
      BY <2>6, Zenon DEF LookUpSession
    <3> QED  BY <3>1 DEF server, history, At
  <2>7. CASE RevokeSession(p)  BY <2>7 DEF RevokeSession, At
  <2>8. CASE RotateTokens(p)
    <3>1. UNCHANGED <<password, history>> /\ At(p, "refresh", "write")
      BY <2>8, Zenon DEF RotateTokens
    <3> QED  BY <3>1 DEF history, At
  <2>9. CASE KeepTokens(p)  BY <2>9 DEF KeepTokens, server, history, At
  <2>10. CASE EndSession(p)  BY <2>10 DEF EndSession, history, At
  <2>11. CASE ClearTokens(p)  BY <2>11 DEF ClearTokens, server, history, At
  <2> QED  BY <2>1, <2>2, <2>3, <2>4, <2>5, <2>6, <2>7, <2>8, <2>9, <2>10, <2>11
<1>2. \E r : call' = [call EXCEPT ![p] = r]
  <2>1. CASE Done(p)  BY <2>1 DEF Done, Goto
  <2>2. CASE \E r : Goto(p, r)  BY <2>2 DEF Goto
  <2>3. CASE AuthoriseCode(p) \/ RevokeSession(p) \/ KeepTokens(p) \/ ClearTokens(p)
    BY <2>1, <2>3, Zenon DEF AuthoriseCode, RevokeSession, KeepTokens, ClearTokens
  <2>4. CASE PollDeviceCode(p)  BY <2>1, <2>2, <2>4, Zenon DEF PollDeviceCode
  <2>5. CASE ConsumeCode(p)
    BY <2>1, <2>2, <2>5, Zenon DEF ConsumeCode, IssueIfConsumed, ToLogin
  <2>6. CASE MintPair(p)  BY <2>2, <2>6, Zenon DEF MintPair
  <2>7. CASE RefreshOnCommandLine(p) \/ RefreshInBrowser(p)
    BY <2>1, <2>2, <2>7, Zenon DEF RefreshOnCommandLine, RefreshInBrowser, SendOrRetry, Send,
                                   Retry
  <2>8. CASE LookUpSession(p)
    <3>1. Done(p) \/ \E step : Step(p, step)
      BY <2>8 DEF LookUpSession
    <3> QED  BY <2>1, <2>2, <3>1 DEF Step
  <2>9. CASE RotateTokens(p)  BY <2>1, <2>2, <2>9, Zenon DEF RotateTokens, Step
  <2>10. CASE EndSession(p)  BY <2>2, <2>10, Zenon DEF EndSession, Step
  <2> QED  BY <2>3, <2>4, <2>5, <2>6, <2>7, <2>8, <2>9, <2>10
<1>3. Worn
  <2>1. CASE RotateTokens(p)
    <3> DEFINE t == call[p].token
               upd(s) == [s EXCEPT !.iat = t.iat, !.expires = now + Lifetime]
    <3>1. session' = {IF s.sid = t.sid THEN upd(s) ELSE s : s \in session}
      BY <2>1, Zenon DEF RotateTokens, Rotated
    <3>2. \A s \in session : /\ upd(s).sid = s.sid /\ upd(s).user = s.user
                             /\ upd(s).version = s.version
      BY DEF Shape, RowShape
    <3> HIDE DEF upd
    <3> QED  BY <3>1, <3>2 DEF Worn
  <2>2. session' \subseteq session \/ RotateTokens(p)
    <3>1. CASE AuthoriseCode(p) \/ PollDeviceCode(p) \/ ConsumeCode(p)
      BY <3>1, Zenon DEF AuthoriseCode, PollDeviceCode, ConsumeCode
    <3>2. CASE MintPair(p) \/ LookUpSession(p) \/ KeepTokens(p) \/ ClearTokens(p)
      <4>1. UNCHANGED server
        BY <3>2, Zenon DEF MintPair, LookUpSession, KeepTokens, ClearTokens
      <4> QED  BY <4>1 DEF server
    <3>3. CASE RefreshOnCommandLine(p) \/ RefreshInBrowser(p)
      BY <3>3 DEF RefreshOnCommandLine, RefreshInBrowser, SendOrRetry, Send, Retry, server
    <3>4. CASE RevokeSession(p) \/ EndSession(p)  BY <3>4 DEF RevokeSession, EndSession
    <3> QED  BY <3>1, <3>2, <3>3, <3>4
  <2> QED  BY <2>1, <2>2, AllWorn
<1>4. PICK r : call' = [call EXCEPT ![p] = r]  BY <1>2
<1> QED  BY <1>1, <1>3, <1>4, OthersWait, WornKeepsPasswords

(* A session is opened with the password that its sign-in had checked, or  *)
(* is counted as late.                                                     *)
LEMMA IssueKeepsPasswords ==
  ASSUME Shape, OldPasswordSignedOut, NEW p \in Process, IssueTokens(p)
  PROVE  OldPasswordSignedOut'
<1> DEFINE t == [sid |-> opened + 1, sub |-> call[p].user, iat |-> call[p].token.iat]
           new == [sid |-> opened + 1, user |-> call[p].user, iat |-> call[p].token.iat,
                   expires |-> now + Lifetime, version |-> call[p].version]
           r == [call[p] EXCEPT !.step = "answer", !.token = t]
<1>1. /\ session' = session \cup {new} /\ call' = [call EXCEPT ![p] = r]
      /\ UNCHANGED <<password, mishaps>>
      /\ late' = IF call[p].version = password[call[p].user] THEN late
                 ELSE late \cup {opened + 1}
      /\ call[p].op = "login"
  BY DEF IssueTokens, NewFamily, At, Goto
<1>2. new.sid = opened + 1 /\ new.user = call[p].user /\ new.version = call[p].version
  OBVIOUS
<1> HIDE DEF new, r
<1>3. new.version = password'[new.user] \/ new.sid \in late'  BY <1>1, <1>2
<1>4. ~At(p, "reset", "signout")  BY <1>1 DEF At
<1>5. \A q \in Process : At(q, "reset", "signout") =>
         At(q, "reset", "signout")' /\ call'[q].user = call[q].user
  BY <1>1, <1>4, OthersWait
<1>6. ASSUME NEW s \in session
      PROVE  \/ s.version = password'[s.user]
             \/ s.sid \in late'
             \/ "halfway" \in mishaps'
             \/ \E q \in Process : At(q, "reset", "signout")' /\ call'[q].user = s.user
  BY <1>1, <1>5 DEF OldPasswordSignedOut
<1> QED  BY <1>1, <1>3, <1>6 DEF OldPasswordSignedOut

(* The person who changes their password is signed out everywhere. *)
LEMMA ChangeKeepsPasswords ==
  ASSUME Shape, OldPasswordSignedOut, NEW p \in Process, CommitChange(p)
  PROVE  OldPasswordSignedOut'
<1> DEFINE u == call[p].token.sub
<1>1. /\ password' = [password EXCEPT ![u] = password[u] + 1]
      /\ call' = [call EXCEPT ![p] = Idle]
      /\ UNCHANGED <<late, mishaps>> /\ call[p].op = "change"
  BY DEF CommitChange, NewPassword, Done, Goto, history, At
<1>2. \A s \in session' : s \in session /\ s.user # u  BY DEF CommitChange, SignedOut
<1>3. \A s \in session' : password'[s.user] = password[s.user]
  BY <1>1, <1>2 DEF Shape, RowShape
<1>4. \A q \in Process : At(q, "reset", "signout") =>
         At(q, "reset", "signout")' /\ call'[q].user = call[q].user
  BY <1>1, OthersWait DEF At
<1> QED  BY <1>1, <1>2, <1>3, <1>4 DEF OldPasswordSignedOut

(* A reset leaves the old sessions to the step that signs their person out. *)
LEMMA ResetKeepsPasswords ==
  ASSUME Shape, OldPasswordSignedOut, NEW p \in Process, CommitReset(p)
  PROVE  OldPasswordSignedOut'
<1> DEFINE u == call[p].user
           r == [call[p] EXCEPT !.step = "signout"]
<1>1. /\ password' = [password EXCEPT ![u] = @ + 1] /\ call' = [call EXCEPT ![p] = r]
      /\ UNCHANGED <<session, late, mishaps>>
      /\ call[p].op = "reset" /\ call[p].step = "write"
  BY DEF CommitReset, NewPassword, Step, Goto, history, At
<1>2. r.op = "reset" /\ r.step = "signout" /\ r.user = u
  BY <1>1 DEF Shape, CallShape
<1> HIDE DEF r
<1>3. At(p, "reset", "signout")' /\ call'[p].user = u  BY <1>1, <1>2 DEF Shape, At
<1>4. \A q \in Process : At(q, "reset", "signout") =>
         At(q, "reset", "signout")' /\ call'[q].user = call[q].user
  BY <1>1, OthersWait DEF At
<1>5. ASSUME NEW s \in session
      PROVE  \/ s.version = password'[s.user]
             \/ s.sid \in late'
             \/ "halfway" \in mishaps'
             \/ \E q \in Process : At(q, "reset", "signout")' /\ call'[q].user = s.user
  <2>1. CASE s.user = u  BY <1>3, <2>1
  <2>2. CASE s.user # u
    <3>1. password'[s.user] = password[s.user]  BY <1>1, <2>2 DEF Shape, RowShape
    <3> QED  BY <1>1, <1>4, <3>1 DEF OldPasswordSignedOut
  <2> QED  BY <2>1, <2>2
<1> QED  BY <1>1, <1>5 DEF OldPasswordSignedOut

(* When it has, or has stopped, nothing more is left to it.                *)
LEMMA SignOutKeepsPasswords ==
  ASSUME Shape, OldPasswordSignedOut, NEW p \in Process,
         SignOutEverywhere(p) \/ Lose(p)
  PROVE  OldPasswordSignedOut'
<1>1. /\ call' = [call EXCEPT ![p] = Idle] /\ UNCHANGED <<password, late>>
      /\ mishaps \subseteq mishaps' /\ session' \subseteq session
  BY DEF SignOutEverywhere, SignedOut, Lose, Done, Goto, server, history
<1>2. CASE ~At(p, "reset", "signout")
  BY <1>1, <1>2, AllWorn, OthersWait, WornKeepsPasswords
<1>3. CASE At(p, "reset", "signout") /\ Lose(p)
  <2>1. "halfway" \in mishaps'  BY <1>3 DEF Lose
  <2> QED  BY <2>1 DEF OldPasswordSignedOut
<1>4. CASE SignOutEverywhere(p)
  <2>1. session' = {s \in session : s.user # call[p].user}
    BY <1>4 DEF SignOutEverywhere, SignedOut
  <2>2. \A q \in Process : q # p => call'[q] = call[q]  BY <1>1 DEF Shape
  <2>3. ASSUME NEW s \in session'
        PROVE  \/ s.version = password'[s.user]
               \/ s.sid \in late'
               \/ "halfway" \in mishaps'
               \/ \E q \in Process : At(q, "reset", "signout")' /\ call'[q].user = s.user
    BY <1>1, <2>1, <2>2 DEF OldPasswordSignedOut, At
  <2> QED  BY <2>3 DEF OldPasswordSignedOut
<1> QED  BY <1>2, <1>3, <1>4

LEMMA PasswordsStep ==
  AuthInv /\ TokenInv /\ OldPasswordSignedOut /\ [AuthNext]_authVars => OldPasswordSignedOut'
<1> SUFFICES ASSUME AuthInv, TokenInv, OldPasswordSignedOut, [AuthNext]_authVars
             PROVE  OldPasswordSignedOut'
  OBVIOUS
<1>t. Shape /\ Named  BY DEF AuthInv, TokenInv
<1>1. CASE \/ Tick \/ DeleteExpiredSessions \/ UNCHANGED authVars
           \/ \E u \in Person : ForgotPassword(u)
  <2>1. session' \subseteq session /\ UNCHANGED <<password, call, late, mishaps>>
    BY <1>1 DEF Tick, DeleteExpiredSessions, ForgotPassword, authVars, server, history
  <2>2. \A q \in Process : At(q, "reset", "signout") =>
           At(q, "reset", "signout")' /\ call'[q].user = call[q].user
    BY <2>1 DEF At
  <2> QED  BY <2>1, <2>2, AllWorn, WornKeepsPasswords
<1>2. ASSUME NEW p \in Process,
             \/ Login(p) \/ CreateDeviceCode(p) \/ PollAgain(p) \/ VerifyDeviceCode(p)
             \/ AuthoriseCode(p) \/ PollDeviceCode(p) \/ ConsumeCode(p)
             \/ MintPair(p) \/ IssueTokens(p) \/ CallApi(p)
             \/ RefreshOnCommandLine(p) \/ RefreshInBrowser(p)
             \/ LookUpSession(p) \/ RevokeSession(p) \/ RotateTokens(p)
             \/ KeepTokens(p) \/ Logout(p) \/ EndSession(p) \/ ClearTokens(p)
             \/ ChangePassword(p) \/ CommitChange(p) \/ ResetPassword(p)
             \/ CommitReset(p) \/ SignOutEverywhere(p) \/ Lose(p)
      PROVE  OldPasswordSignedOut'
  BY <1>2, <1>t, BeginningsKeepPasswords, RequestsKeepPasswords, IssueKeepsPasswords,
     ChangeKeepsPasswords, ResetKeepsPasswords, SignOutKeepsPasswords
<1> QED  BY <1>1, <1>2 DEF AuthNext

(* A change of password signs its person out with every client they have,  *)
(* the one that asked for it too, and a reset once it is through does the  *)
(* same: no session opened with the old one is left, but those of sign-ins *)
(* that were under way.                                                    *)
THEOREM OldPasswordsOut == AuthSpec => []OldPasswordSignedOut
<1>1. AuthInit => OldPasswordSignedOut  BY DEF AuthInit, OldPasswordSignedOut
<1> QED  BY <1>1, PasswordsStep, Invariant, TokensNamed, PTL DEF AuthSpec

(***************************************************************************)
(* The types with the bounds of the runs: no token or row is dated in the  *)
(* future, a token in use names a session, and there are no more sessions  *)
(* than requests that signed in.                                           *)
(***************************************************************************)
Numbered(r) ==
    /\ r.token.iat <= now
    /\ r.op = "refresh" =>
         r.token.sid >= 1 \/ (r.token = NoToken /\ r.step \in {"refused", "look"})
    /\ r.step = "answer" => r.token.sid >= 1

Dated ==
    /\ \A q \in Process : Numbered(call[q])
    /\ \A c \in Client : jar[c] = NoToken \/ (jar[c].sid >= 1 /\ jar[c].iat <= now)
    /\ \A s \in session : s.iat <= now
    /\ \A s, r \in session : s.sid = r.sid => s = r

SignsIn(r) == r.op \in {"login", "poll"} /\ r.step # "answer"
SigningIn == {q \in Process : SignsIn(call[q])}

Counts ==
    /\ now <= MaxTime
    /\ calls \in Nat /\ calls <= MaxCalls /\ coded <= calls
    /\ IsFiniteSet(SigningIn) /\ opened + Cardinality(SigningIn) <= calls
    /\ revoked \cup late \subseteq 1..opened
    /\ mishaps \subseteq {"lost", "raced", "halfway"}
    /\ emailed \in [Person -> BOOLEAN]

AuthTypeInv == Dated /\ Counts

(* Request p becomes r: a new one is counted, another signs in only if it  *)
(* did before.                                                             *)
Becomes(p, r) ==
    /\ call' = [call EXCEPT ![p] = r]
    /\ now' = now
    /\ Numbered(r)
    /\ \/ calls' = calls + 1 /\ calls < MaxCalls /\ coded' \in {coded, coded + 1}
          /\ SignsIn(call[p]) = FALSE
       \/ calls' = calls /\ coded' = coded /\ (SignsIn(r) => SignsIn(call[p]))

LEMMA Numbers ==
  ASSUME Shape, Dated, NEW p \in Process
  PROVE  /\ Numbered(Idle) /\ ~SignsIn(Idle)
         /\ Kept(p) = NoToken \/ Kept(p).sid >= 1
         /\ Kept(p).iat <= now
<1>1. now \in Nat  BY DEF Shape
<1>2. Home[p] \in Client  BY HomeAssumption
<1>3. NoToken.iat <= now  BY <1>1 DEF NoToken
<1> QED  BY <1>1, <1>2, <1>3 DEF Dated, Kept, Numbered, SignsIn, Idle, NoToken

LEMMA BegunBecomes ==
  ASSUME Shape, Dated, NEW p \in Process, NEW r, Begin(p, r), coded' \in {coded, coded + 1},
         r.token \in {NoToken, Kept(p)}, r.step # "answer",
         r.op = "refresh" => r.step = "refused"
  PROVE  Becomes(p, r)
<1>1. ~SignsIn(call[p])  BY Numbers DEF Begin
<1>2. NoToken.iat <= now  BY DEF NoToken, Shape
<1>3. Numbered(r)  BY <1>2, Numbers DEF Numbered
<1> QED  BY <1>1, <1>3 DEF Begin, Becomes

LEMMA BeginningsBecome ==
  ASSUME Shape, Dated, NEW p \in Process,
         \/ Login(p) \/ CreateDeviceCode(p) \/ PollAgain(p) \/ VerifyDeviceCode(p)
         \/ CallApi(p) \/ Logout(p) \/ ChangePassword(p) \/ ResetPassword(p)
  PROVE  \E r : Becomes(p, r)
<1>b. ASSUME NEW r, Begin(p, r), UNCHANGED server,
             r.token \in {NoToken, Kept(p)}, r.step # "answer",
             r.op = "refresh" => r.step = "refused"
      PROVE  \E q : Becomes(p, q)
  <2>1. Becomes(p, r)  BY <1>b, BegunBecomes DEF server
  <2> QED  BY <2>1
<1> USE DEF Asks, Idle
<1>1. CASE Login(p)
  <2>1. PICK u \in Person :
          Begin(p, [Asks("login", "mint") EXCEPT !.user = u, !.version = password[u]])
    BY <1>1, Zenon DEF Login
  <2>3. UNCHANGED server  BY <1>1, Zenon DEF Login
  <2> QED  BY <2>1, <2>3, <1>b
<1>2. CASE CreateDeviceCode(p)
  <2> DEFINE r == [Asks("poll", "wait") EXCEPT !.code = coded + 1]
  <2>1. r.token = NoToken /\ r.step = "wait" /\ r.op = "poll"  OBVIOUS
  <2>2. Begin(p, r) /\ coded' = coded + 1  BY <1>2, Zenon DEF CreateDeviceCode
  <2> HIDE DEF r
  <2>3. Becomes(p, r)  BY <2>1, <2>2, BegunBecomes
  <2> QED  BY <2>3
<1>3. CASE PollAgain(p)
  <2>1. PICK q \in Process :
          Begin(p, [Asks("poll", "wait") EXCEPT !.code = call[q].code])
    BY <1>3 DEF PollAgain
  <2>3. UNCHANGED server  BY <1>3, Zenon DEF PollAgain
  <2> QED  BY <2>1, <2>3, <1>b
<1>4. CASE VerifyDeviceCode(p)
  <2>1. PICK k \in LiveCodes :
          Begin(p, [Asks("verify", "write") EXCEPT !.code = k.id, !.user = Kept(p).sub])
    BY <1>4, Zenon DEF VerifyDeviceCode
  <2>3. UNCHANGED server  BY <1>4, Zenon DEF VerifyDeviceCode
  <2> QED  BY <2>1, <2>3, <1>b
<1>5. CASE CallApi(p)  BY <1>5, <1>b DEF CallApi
<1>6. CASE Logout(p)  BY <1>6, <1>b DEF Logout
<1>7. CASE ChangePassword(p)  BY <1>7, <1>b DEF ChangePassword
<1>8. CASE ResetPassword(p)
  <2>1. PICK u \in Person : Begin(p, [Asks("reset", "write") EXCEPT !.user = u])
    BY <1>8 DEF ResetPassword
  <2>3. UNCHANGED server  BY <1>8, Zenon DEF ResetPassword
  <2> QED  BY <2>1, <2>3, <1>b
<1> QED  BY <1>1, <1>2, <1>3, <1>4, <1>5, <1>6, <1>7, <1>8

LEMMA GoneBecomes ==
  ASSUME Shape, Dated, NEW p \in Process, NEW r, Goto(p, r), coded' = coded, Numbered(r),
         SignsIn(r) => SignsIn(call[p])
  PROVE  Becomes(p, r)
BY DEF Goto, Becomes

LEMMA RequestsBecome ==
  ASSUME Shape, Dated, NEW p \in Process,
         \/ AuthoriseCode(p) \/ PollDeviceCode(p) \/ ConsumeCode(p) \/ MintPair(p)
         \/ RefreshOnCommandLine(p) \/ RefreshInBrowser(p)
         \/ LookUpSession(p) \/ RevokeSession(p) \/ RotateTokens(p)
         \/ KeepTokens(p) \/ EndSession(p) \/ ClearTokens(p) \/ CommitChange(p)
         \/ CommitReset(p) \/ SignOutEverywhere(p) \/ Lose(p)
  PROVE  \E r : Becomes(p, r)
<1>c. call[p] \in CallShape /\ Fits(call[p]) /\ Numbered(call[p]) /\ now \in Nat
  BY DEF Shape, Dated
<1>t. call[p].token \in AnyToken  BY <1>c DEF CallShape
<1>s. coded' = coded
  <2>1. CASE PollDeviceCode(p)  BY <2>1, Zenon DEF PollDeviceCode
  <2>2. CASE ConsumeCode(p)  BY <2>2, Zenon DEF ConsumeCode
  <2>3. CASE LookUpSession(p)  BY <2>3, Zenon DEF LookUpSession, server
  <2>4. CASE AuthoriseCode(p)  BY <2>4, Zenon DEF AuthoriseCode
  <2> QED
    BY <2>1, <2>2, <2>3, <2>4
       DEF MintPair, RefreshOnCommandLine, RefreshInBrowser, SendOrRetry, Send, Retry,
           RevokeSession, RotateTokens, KeepTokens, EndSession, ClearTokens, CommitChange,
           CommitReset, SignOutEverywhere, Lose, server
<1>d. CASE Done(p)
  <2>1. Becomes(p, Idle)  BY <1>d, <1>s, Numbers, GoneBecomes DEF Done
  <2> QED  BY <2>1
<1>g. ASSUME NEW r, Goto(p, r), Numbered(r), SignsIn(r) => SignsIn(call[p])
      PROVE  \E q : Becomes(p, q)
  <2>1. Becomes(p, r)  BY <1>g, <1>s, GoneBecomes
  <2> QED  BY <2>1
<1>i. ASSUME NEW step, Step(p, step),
             step = "answer" => call[p].token.sid >= 1,
             call[p].op = "refresh" => call[p].token.sid >= 1,
             call[p].op \notin {"login", "poll"}
      PROVE  \E q : Becomes(p, q)
  <2> DEFINE r == [call[p] EXCEPT !.step = step]
  <2>1. r.op = call[p].op /\ r.token = call[p].token /\ r.step = step  BY <1>c DEF CallShape
  <2>2. Goto(p, r)  BY <1>i DEF Step
  <2> HIDE DEF r
  <2>3. Numbered(r) /\ ~SignsIn(r)  BY <1>i, <1>c, <2>1 DEF Numbered, SignsIn
  <2> QED  BY <2>2, <2>3, <1>g
<1>1. CASE PollDeviceCode(p)
  <2>1. ASSUME NEW k \in LiveCodes,
               Goto(p, [call[p] EXCEPT !.step = "consume", !.user = k.user, !.version = k.version])
        PROVE  \E r : Becomes(p, r)
    <3> DEFINE r == [call[p] EXCEPT !.step = "consume", !.user = k.user, !.version = k.version]
    <3>0. call[p].op = "poll" /\ call[p].step = "wait"  BY <1>1, Zenon DEF PollDeviceCode, At
    <3>1. r.step = "consume" /\ r.token = call[p].token /\ r.op = "poll"
      BY <1>c, <3>0 DEF CallShape
    <3>2. Goto(p, r)  BY <2>1
    <3> HIDE DEF r
    <3>3. Numbered(r) /\ SignsIn(call[p])  BY <1>c, <3>0, <3>1 DEF Numbered, SignsIn
    <3> QED  BY <3>2, <3>3, <1>g
  <2> QED  BY <1>1, <1>d, <2>1, Zenon DEF PollDeviceCode
<1>2. CASE ConsumeCode(p)
  <2>0. call[p].op = "poll" /\ call[p].step = "consume"  BY <1>2, Zenon DEF ConsumeCode, At
  <2>1. CASE ToLogin(p)
    <3> DEFINE r == [call[p] EXCEPT !.op = "login", !.step = "mint"]
    <3>1. r.op = "login" /\ r.step = "mint" /\ r.token = call[p].token  BY <1>c DEF CallShape
    <3>2. Goto(p, r)  BY <2>1 DEF ToLogin
    <3> HIDE DEF r
    <3>3. Numbered(r) /\ SignsIn(call[p])  BY <1>c, <2>0, <3>1 DEF Numbered, SignsIn
    <3> QED  BY <3>2, <3>3, <1>g
  <2> QED  BY <1>2, <1>d, <2>1 DEF ConsumeCode, IssueIfConsumed
<1>3. CASE MintPair(p)
  <2> DEFINE r == [call[p] EXCEPT !.step = "write", !.token.iat = now]
  <2>1. Goto(p, r) /\ call[p].step = "mint"  BY <1>3 DEF MintPair
  <2>2. r.step = "write" /\ r.op = call[p].op /\ r.token.sid = call[p].token.sid
        /\ r.token.iat = now
    BY <1>c, <1>t DEF CallShape, AnyToken
  <2> HIDE DEF r
  <2>3. call[p].op \in {"login", "refresh"}  BY <1>c, <2>1 DEF Fits
  <2>4. Numbered(r) /\ (SignsIn(r) => SignsIn(call[p]))
    BY <1>c, <2>1, <2>2, <2>3 DEF Numbered, SignsIn
  <2> QED  BY <2>1, <2>4, <1>g
<1>4. CASE RefreshOnCommandLine(p) \/ RefreshInBrowser(p)
  <2>1. call[p].op = "refresh" /\ call[p].step = "refused"
    BY <1>4 DEF RefreshOnCommandLine, RefreshInBrowser, At
  <2>2. ASSUME Send(p, Kept(p))  PROVE \E r : Becomes(p, r)
    <3> DEFINE r == [call[p] EXCEPT !.step = "look", !.token = Kept(p)]
    <3>1. r.op = "refresh" /\ r.step = "look" /\ r.token = Kept(p)
      BY <1>c, <2>1 DEF CallShape
    <3>2. Goto(p, r)  BY <2>2 DEF Send
    <3> HIDE DEF r
    <3>3. Numbered(r) /\ ~SignsIn(r)  BY <3>1, Numbers DEF Numbered, SignsIn
    <3> QED  BY <3>2, <3>3, <1>g
  <2> QED
    BY <1>4, <1>d, <2>2 DEF RefreshOnCommandLine, RefreshInBrowser, SendOrRetry, Retry
<1>5. CASE LookUpSession(p)
  <2>1. call[p].op = "refresh"  BY <1>5, Zenon DEF LookUpSession, At
  <2>2. Genuine(call[p].token) => call[p].token.sid >= 1
    BY <1>c, <2>1 DEF Numbered, Genuine
  <2>3. Done(p) \/ \E step \in {"expire", "revoke", "mint"} :
                     Step(p, step) /\ Genuine(call[p].token)
    BY <1>5 DEF LookUpSession
  <2> QED  BY <1>d, <1>i, <2>1, <2>2, <2>3
<1>6. CASE RotateTokens(p)
  <2>1. call[p].op = "refresh" /\ call[p].step = "write"  BY <1>6 DEF RotateTokens, At
  <2>2. call[p].token.sid >= 1  BY <1>c, <2>1 DEF Numbered
  <2> QED  BY <1>6, <1>d, <1>i, <2>1, <2>2 DEF RotateTokens
<1>7. CASE EndSession(p)  BY <1>7, <1>i DEF EndSession, At
<1>8. CASE CommitReset(p)  BY <1>8, <1>i DEF CommitReset, At
<1>9. CASE AuthoriseCode(p)  BY <1>9, <1>d, Zenon DEF AuthoriseCode
<1> QED
  BY <1>1, <1>2, <1>3, <1>4, <1>5, <1>6, <1>7, <1>8, <1>9, <1>d
     DEF RevokeSession, KeepTokens, ClearTokens, CommitChange, SignOutEverywhere, Lose

(* A step that leaves no session but those that were there, with a token   *)
(* that is not of the future.                                              *)
Reordered ==
    /\ \A s \in session' : s.iat <= now
    /\ \A s, q \in session' : s.sid = q.sid => s = q

LEMMA SessionsReordered ==
  ASSUME Shape, Dated, NEW p \in Process,
         session' \subseteq session \/ RotateTokens(p)
  PROVE  Reordered
<1>1. CASE session' \subseteq session  BY <1>1 DEF Dated, Reordered
<1>2. CASE RotateTokens(p)
  <2> DEFINE t == call[p].token
             f(s) == IF s.sid = t.sid
                     THEN [s EXCEPT !.iat = t.iat, !.expires = now + Lifetime] ELSE s
  <2>1. session' = {f(s) : s \in session}  BY <1>2 DEF RotateTokens, Rotated
  <2>2. t.iat <= now  BY DEF Dated, Numbered
  <2>3. \A s \in session : f(s).sid = s.sid /\ f(s).iat <= now
    BY <2>2 DEF Shape, RowShape, Dated
  <2> HIDE DEF f
  <2> QED  BY <2>1, <2>3 DEF Reordered, Dated
<1> QED  BY <1>1, <1>2

LEMMA BecomesDated ==
  ASSUME Shape, Dated, NEW p \in Process, NEW r, Becomes(p, r), Reordered,
         jar' = jar \/ Keep(p, NoToken)
           \/ (Keep(p, call[p].token) /\ call[p].token.sid >= 1)
  PROVE  Dated'
<1>1. now' = now /\ \A q \in Process : call'[q] = IF q = p THEN r ELSE call[q]
  BY DEF Becomes, Shape
<1>2. \A q \in Process : Numbered(call[q])'
  BY <1>1 DEF Becomes, Numbered, Dated
<1>3. \A c \in Client : jar'[c] = NoToken \/ (jar'[c].sid >= 1 /\ jar'[c].iat <= now)
  <2>1. \A c \in Client : jar'[c] \in {jar[c], NoToken}
                          \/ (jar'[c] = call[p].token /\ call[p].token.sid >= 1)
    BY DEF Keep, Shape
  <2>2. call[p].token.iat <= now  BY DEF Dated, Numbered
  <2> QED  BY <2>1, <2>2 DEF Dated
<1> QED  BY <1>1, <1>2, <1>3 DEF Dated, Reordered

LEMMA BecomesCounted ==
  ASSUME Shape, Counts, NEW p \in Process, NEW r, Becomes(p, r), opened' = opened,
         revoked' \cup late' \subseteq 1..opened,
         mishaps' \subseteq {"lost", "raced", "halfway"}, emailed' \in [Person -> BOOLEAN]
  PROVE  Counts'
<1>1. now' = now /\ \A q \in Process : call'[q] = IF q = p THEN r ELSE call[q]
  BY DEF Becomes, Shape
<1>2. opened \in Nat /\ coded \in Nat /\ Cardinality(SigningIn) \in Nat
  BY FS_CardinalityType DEF Shape, Counts
<1>3. CASE calls' = calls + 1 /\ calls < MaxCalls /\ coded' \in {coded, coded + 1}
  <2>1. SigningIn' \subseteq SigningIn \cup {p}  BY <1>1 DEF SigningIn
  <2>2. /\ IsFiniteSet(SigningIn \cup {p})
        /\ Cardinality(SigningIn \cup {p}) \in Nat
        /\ Cardinality(SigningIn \cup {p}) <= Cardinality(SigningIn) + 1
    <3> DEFINE S == SigningIn
    <3>1. IsFiniteSet(S)  BY DEF Counts
    <3>2. /\ IsFiniteSet(S \cup {p})
          /\ Cardinality(S \cup {p}) = IF p \in S THEN Cardinality(S) ELSE Cardinality(S) + 1
      BY ONLY <3>1, FS_AddElement
    <3>3. Cardinality(S \cup {p}) \in Nat  BY ONLY <3>2, FS_CardinalityType
    <3> QED  BY ONLY <1>2, <3>2, <3>3
  <2>3. IsFiniteSet(SigningIn') /\ Cardinality(SigningIn') <= Cardinality(SigningIn \cup {p})
        /\ Cardinality(SigningIn') \in Nat
    BY <2>1, <2>2, FS_Subset, FS_CardinalityType
  <2> QED  BY <1>1, <1>2, <1>3, <2>2, <2>3, AuthBounds DEF Counts
<1>4. CASE calls' = calls /\ coded' = coded /\ (SignsIn(r) => SignsIn(call[p]))
  <2>1. SigningIn' \subseteq SigningIn  BY <1>1, <1>4 DEF SigningIn
  <2>2. IsFiniteSet(SigningIn') /\ Cardinality(SigningIn') <= Cardinality(SigningIn)
        /\ Cardinality(SigningIn') \in Nat
    BY <2>1, FS_Subset, FS_CardinalityType DEF Counts
  <2> QED  BY <1>1, <1>2, <1>4, <2>2 DEF Counts
<1> QED  BY <1>3, <1>4 DEF Becomes

LEMMA ProcessKeepsTypes ==
  ASSUME Shape, TokenInv, AuthTypeInv, NEW p \in Process,
         \/ Login(p) \/ CreateDeviceCode(p) \/ PollAgain(p) \/ VerifyDeviceCode(p)
         \/ AuthoriseCode(p) \/ PollDeviceCode(p) \/ ConsumeCode(p)
         \/ MintPair(p) \/ CallApi(p)
         \/ RefreshOnCommandLine(p) \/ RefreshInBrowser(p)
         \/ LookUpSession(p) \/ RevokeSession(p) \/ RotateTokens(p)
         \/ KeepTokens(p) \/ Logout(p) \/ EndSession(p) \/ ClearTokens(p)
         \/ ChangePassword(p) \/ CommitChange(p) \/ ResetPassword(p)
         \/ CommitReset(p) \/ SignOutEverywhere(p) \/ Lose(p)
  PROVE  AuthTypeInv'
<1>t. Dated /\ Counts  BY DEF AuthTypeInv
<1>1. PICK r : Becomes(p, r)  BY <1>t, BeginningsBecome, RequestsBecome
<1>2. /\ opened' = opened
      /\ session' \subseteq session \/ RotateTokens(p)
      /\ revoked' = revoked \/ RevokeSession(p)
      /\ late' = late
      /\ mishaps' \subseteq mishaps \cup {"lost", "raced", "halfway"}
      /\ emailed' = emailed \/ CommitReset(p)
      /\ jar' = jar \/ KeepTokens(p) \/ ClearTokens(p)
  <2> USE DEF Begin, server, history
  <2>1. CASE Login(p)  BY <2>1, Zenon DEF Login
  <2>2. CASE CreateDeviceCode(p)  BY <2>2, Zenon DEF CreateDeviceCode
  <2>3. CASE PollAgain(p)  BY <2>3, Zenon DEF PollAgain
  <2>4. CASE VerifyDeviceCode(p)  BY <2>4, Zenon DEF VerifyDeviceCode
  <2>5. CASE AuthoriseCode(p)  BY <2>5, Zenon DEF AuthoriseCode
  <2>6. CASE PollDeviceCode(p)  BY <2>6, Zenon DEF PollDeviceCode
  <2>7. CASE ConsumeCode(p)  BY <2>7, Zenon DEF ConsumeCode
  <2>8. CASE LookUpSession(p)  BY <2>8, Zenon DEF LookUpSession
  <2>9. CASE MintPair(p) \/ CallApi(p) \/ Logout(p) \/ ChangePassword(p) \/ ResetPassword(p)
    BY <2>9 DEF MintPair, CallApi, Logout, ChangePassword, ResetPassword
  <2>10. CASE RefreshOnCommandLine(p) \/ RefreshInBrowser(p)
    BY <2>10 DEF RefreshOnCommandLine, RefreshInBrowser, SendOrRetry, Send, Retry
  <2>11. CASE RevokeSession(p) \/ RotateTokens(p) \/ KeepTokens(p) \/ EndSession(p)
              \/ ClearTokens(p)
    BY <2>11 DEF RevokeSession, RotateTokens, KeepTokens, EndSession, ClearTokens
  <2>12. CASE CommitChange(p) \/ CommitReset(p) \/ SignOutEverywhere(p) \/ Lose(p)
    BY <2>12 DEF CommitChange, CommitReset, SignOutEverywhere, SignedOut, Lose
  <2> QED
    BY <2>1, <2>2, <2>3, <2>4, <2>5, <2>6, <2>7, <2>8, <2>9, <2>10, <2>11, <2>12
<1>3. Dated'
  <2>1. KeepTokens(p) => Keep(p, call[p].token) /\ call[p].token.sid >= 1
    BY <1>t DEF KeepTokens, Dated, Numbered
  <2>2. ClearTokens(p) => Keep(p, NoToken)  BY DEF ClearTokens
  <2>3. Reordered  BY <1>t, <1>2, SessionsReordered
  <2> QED  BY <1>t, <1>1, <1>2, <2>1, <2>2, <2>3, BecomesDated
<1>4. Counts'
  <2>1. revoked' \subseteq 1..opened
    <3>1. CASE revoked' = revoked  BY <3>1, <1>t DEF Counts
    <3>2. CASE RevokeSession(p)
      <4>1. call[p].op = "refresh" /\ call[p].step \in {"expire", "revoke"}
            /\ revoked' \subseteq revoked \cup {call[p].token.sid}
        BY <3>2 DEF RevokeSession
      <4>2. call[p].token.sid >= 1  BY <1>t, <4>1 DEF Dated, Numbered
      <4>3. call[p].token.sid \in Nat /\ call[p].token.sid <= opened /\ opened \in Nat
        BY DEF Shape, CallShape, AnyToken, TokenInv, Named, Names
      <4> QED  BY <1>t, <4>1, <4>2, <4>3 DEF Counts
    <3> QED  BY <1>2, <3>1, <3>2
  <2>2. late' \subseteq 1..opened  BY <1>t, <1>2 DEF Counts
  <2>3. mishaps' \subseteq {"lost", "raced", "halfway"}  BY <1>t, <1>2 DEF Counts
  <2>4. emailed' \in [Person -> BOOLEAN]  BY <1>t, <1>2 DEF Counts, CommitReset
  <2> QED  BY <1>t, <1>1, <1>2, <2>1, <2>2, <2>3, <2>4, BecomesCounted
<1> QED  BY <1>3, <1>4 DEF AuthTypeInv

(* A sign-in that opens its session is counted as that session from then.  *)
LEMMA IssueKeepsTypes ==
  ASSUME Shape, TokenInv, AuthTypeInv, NEW p \in Process, IssueTokens(p)
  PROVE  AuthTypeInv'
<1> DEFINE t == [sid |-> opened + 1, sub |-> call[p].user, iat |-> call[p].token.iat]
           new == [sid |-> opened + 1, user |-> call[p].user, iat |-> call[p].token.iat,
                   expires |-> now + Lifetime, version |-> call[p].version]
           r == [call[p] EXCEPT !.step = "answer", !.token = t]
<1>t. Dated /\ Counts  BY DEF AuthTypeInv
<1>1. /\ session' = session \cup {new} /\ opened' = opened + 1
      /\ call' = [call EXCEPT ![p] = r]
      /\ UNCHANGED <<now, jar, mishaps, revoked, calls, coded, emailed>>
      /\ late' \subseteq late \cup {opened + 1}
      /\ call[p].op = "login" /\ call[p].step = "write"
  BY DEF IssueTokens, NewFamily, At, Goto
<1>2. /\ new.sid = opened + 1 /\ new.iat = call[p].token.iat
      /\ r.op = "login" /\ r.step = "answer" /\ r.token.sid = opened + 1
      /\ r.token.iat = call[p].token.iat
  BY <1>1 DEF Shape, CallShape
<1> HIDE DEF t, new, r
<1>3. \A q \in Process : call'[q] = IF q = p THEN r ELSE call[q]
  BY <1>1 DEF Shape
<1>4. opened \in Nat /\ opened + 1 >= 1 /\ call[p].token.iat <= now
      /\ \A s \in session : s.sid <= opened /\ s.sid \in Nat
  BY <1>t DEF Shape, RowShape, TokenInv, Named, Dated, Numbered
<1>5. Dated'
  <2>1. \A q \in Process : Numbered(call[q])'
    BY <1>t, <1>1, <1>2, <1>3, <1>4 DEF Dated, Numbered
  <2>2. \A s, q \in session' : s.sid = q.sid => s = q
    BY <1>t, <1>1, <1>2, <1>4 DEF Dated
  <2>3. \A s \in session' : s.iat <= now  BY <1>t, <1>1, <1>2, <1>4 DEF Dated
  <2> QED  BY <1>t, <1>1, <2>1, <2>2, <2>3 DEF Dated
<1>6. Counts'
  <2>1. p \in SigningIn  BY <1>1 DEF SigningIn, SignsIn
  <2>2. SigningIn' = SigningIn \ {p}
    BY <1>2, <1>3 DEF SigningIn, SignsIn
  <2>3. IsFiniteSet(SigningIn \ {p}) /\ Cardinality(SigningIn \ {p}) = Cardinality(SigningIn) - 1
        /\ Cardinality(SigningIn) \in Nat
    BY <1>t, <2>1, FS_RemoveElement, FS_CardinalityType DEF Counts
  <2>4. revoked' \cup late' \subseteq 1..opened'  BY <1>t, <1>1, <1>4 DEF Counts
  <2>5. opened' + Cardinality(SigningIn') <= calls'
    BY <1>t, <1>1, <1>4, <2>2, <2>3 DEF Counts
  <2>6. IsFiniteSet(SigningIn')  BY <2>2, <2>3
  <2> QED  BY <1>t, <1>1, <2>4, <2>5, <2>6 DEF Counts
<1> QED  BY <1>5, <1>6 DEF AuthTypeInv

LEMMA AuthTypesStart == AuthInit => AuthTypeInv
<1> SUFFICES ASSUME AuthInit  PROVE AuthTypeInv
  OBVIOUS
<1> USE DEF AuthInit
<1>1. Dated
  BY DEF Dated, Numbered, Idle, NoToken
<1>2. SigningIn = {}  BY DEF SigningIn, SignsIn, Idle
<1>3. Counts  BY <1>2, FS_EmptySet, AuthBounds DEF Counts
<1> QED  BY <1>1, <1>3 DEF AuthTypeInv

LEMMA AuthTypesStep ==
  AuthInv /\ TokenInv /\ AuthTypeInv /\ [AuthNext]_authVars => AuthTypeInv'
<1> SUFFICES ASSUME AuthInv, TokenInv, AuthTypeInv, [AuthNext]_authVars  PROVE AuthTypeInv'
  OBVIOUS
<1>t. Shape /\ Dated /\ Counts  BY DEF AuthInv, AuthTypeInv
<1>1. CASE \/ Tick \/ DeleteExpiredSessions \/ UNCHANGED authVars
           \/ \E u \in Person : ForgotPassword(u)
  <2>1. session' \subseteq session
        /\ UNCHANGED <<opened, coded, jar, call, mishaps, revoked, late>>
    BY <1>1 DEF Tick, DeleteExpiredSessions, ForgotPassword, authVars, server, history
  <2>2. /\ now \in Nat /\ now' \in Nat /\ now <= now' /\ now' <= MaxTime
        /\ calls' \in {calls, calls + 1} /\ calls' <= MaxCalls
    BY <1>1, <1>t, AuthBounds
       DEF Tick, DeleteExpiredSessions, ForgotPassword, authVars, Shape, Counts
  <2>3. emailed' \in [Person -> BOOLEAN]
    BY <1>1, <1>t
       DEF Tick, DeleteExpiredSessions, ForgotPassword, authVars, server, Counts
  <2>4. Dated'
    <3>1. /\ \A q \in Process : call[q].token.iat \in Nat
          /\ \A c \in Client : jar[c].iat \in Nat
          /\ \A s \in session : s.iat \in Nat
      BY <1>t DEF Shape, CallShape, AnyToken, TokenShape, NoToken, RowShape
    <3>2. \A q \in Process : Numbered(call[q])'
      BY <1>t, <2>1, <2>2, <3>1 DEF Dated, Numbered
    <3> QED  BY <1>t, <2>1, <2>2, <3>1, <3>2 DEF Dated
  <2>5. Counts'
    <3>1. SigningIn' = SigningIn  BY <2>1 DEF SigningIn
    <3>2. opened \in Nat /\ coded \in Nat /\ Cardinality(SigningIn) \in Nat
      BY <1>t, FS_CardinalityType DEF Shape, Counts
    <3> QED  BY <1>t, <2>1, <2>2, <2>3, <3>1, <3>2 DEF Counts
  <2> QED  BY <2>4, <2>5 DEF AuthTypeInv
<1> QED  BY <1>1, <1>t, ProcessKeepsTypes, IssueKeepsTypes DEF AuthNext

(* The types hold with the bounds that the runs give them.                 *)
LEMMA AuthTypes ==
  ASSUME AuthInv, TokenInv, CodeOnce, AuthTypeInv
  PROVE  AuthTypeOK
<1>t. Shape /\ Named /\ Dated /\ Counts  BY DEF AuthInv, TokenInv, AuthTypeInv
<1>1. /\ opened \in Nat /\ coded \in Nat /\ now \in Nat /\ calls \in Nat
      /\ opened <= MaxCalls /\ coded <= MaxCalls /\ calls <= MaxCalls /\ now <= MaxTime
  BY <1>t, FS_CardinalityType, AuthBounds DEF Shape, Counts
<1>2. session \subseteq Row
  BY <1>t, <1>1, AuthBounds DEF Shape, RowShape, Row, Named, Dated
<1>3. code \subseteq DeviceCode
  BY <1>t, <1>1, AuthBounds DEF Shape, CodeShape, DeviceCode, CodeOnce
<1>4. jar \in [Client -> Token \cup {NoToken}]
  <2>1. \A c \in Client : jar[c] \in Token \cup {NoToken}
    BY <1>t, <1>1, AuthBounds DEF Shape, TokenShape, Token, Named, Names, Dated
  <2> QED  BY <1>t, <2>1 DEF Shape
<1>5. revoked \cup late \subseteq 1..MaxCalls  BY <1>t, <1>1, AuthBounds DEF Counts
<1>6. \A c \in Client : jar[c].sid <= opened  BY <1>t DEF Named, Names
<1>7. now \in 0..MaxTime /\ opened \in 0..MaxCalls /\ coded \in 0..MaxCalls
      /\ calls \in 0..MaxCalls
  BY <1>1, AuthBounds
<1> QED  BY <1>t, <1>2, <1>3, <1>4, <1>5, <1>6, <1>7 DEF Shape, Dated, Counts, AuthTypeOK

(* The tables of the sign-in service and what its clients keep: rows and   *)
(* device codes have the numbers they were given, each family of tokens    *)
(* has one row, and a client keeps a token of a session that was opened.   *)
THEOREM AuthTypeCorrect == AuthSpec => []AuthTypeOK
<1>1. AuthInit => CodeOnce
  BY DEF AuthInit, CodeOnce, Minting, Idle
<1> QED
  BY <1>1, CodeStep, AuthTypesStart, AuthTypesStep, AuthTypes, Invariant, TokensNamed, PTL
     DEF AuthSpec
=============================================================================
