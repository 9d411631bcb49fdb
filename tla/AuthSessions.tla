---------------------------- MODULE AuthSessions ----------------------------
(***************************************************************************)
(* Sign-in sessions: the routes of auth.service.ts, device-code.service.ts *)
(* and user.service.ts that open, rotate and end them, and the clients     *)
(* that keep the tokens, a browser or the command line.                    *)
(*                                                                         *)
(* A process is one request of a client, from the moment it is made until  *)
(* its answer is kept: tabs of one browser share a cookie, commands share  *)
(* the credentials file, and a request that a client has given up and the  *)
(* one that it makes instead are two processes.  A person knows their      *)
(* password; access tokens may expire at any moment.                       *)
(***************************************************************************)
EXTENDS Integers, FiniteSets

CONSTANTS
    Person,         \* accounts with a verified e-mail address
    Process,        \* requests that may be under way at once
    Client,         \* where tokens are kept
    Home,           \* the client of each process
    CommandLine,    \* the clients that are the command line
    Lifetime,       \* seconds that a refresh token and its session last
    CodeLifetime,   \* seconds that a device code lasts
    MaxTime,        \* bound: the last second of the clock
    MaxCalls        \* bound: requests ever made

ASSUME HomeAssumption == Home \in [Process -> Client] /\ CommandLine \subseteq Client
ASSUME LifetimeAssumption == Lifetime \in Nat \ {0} /\ CodeLifetime \in Nat
ASSUME AuthBounds == MaxTime \in Nat /\ MaxCalls \in Nat

VARIABLES
    now,        \* the clock, in seconds: what iat of a token counts
    password,   \* users: which password of theirs is in force
    emailed,    \* users: a reset link is out
    session,    \* auth_sessions; iat stands for the hash of the token
    opened,     \* sessions opened so far: the last sid
    code,       \* device_codes
    coded,      \* device codes created so far
    jar,        \* the refresh token each client keeps
    call,       \* what each process is doing
    calls,      \* bound: requests made so far
    mishaps,    \* history: what went wrong outside the server's control
    revoked,    \* history: sessions revoked because a token was replayed
    late,       \* history: sessions opened after their password was changed
    granted     \* history: the sessions each device code gave

server == <<password, emailed, session, opened, code, coded>>
history == <<mishaps, revoked, late, granted>>
authVars == <<now, server, jar, call, calls, history>>

NoToken == [sid |-> 0, sub |-> 0, iat |-> 0]
Token == [sid : 1..MaxCalls, sub : Person, iat : 0..MaxTime]
Row == [sid : 1..MaxCalls, user : Person, iat : 0..MaxTime, expires : Nat,
        version : Nat]
DeviceCode == [id : 1..MaxCalls, status : {"PENDING", "VERIFIED"},
               user : Person \cup {0}, version : Nat, expires : Nat]

(* A request: token is the one it carries or has been given.               *)
Idle == [op |-> "idle", step |-> "idle", token |-> NoToken, user |-> 0,
         version |-> 0, code |-> 0]
Asks(op, step) == [Idle EXCEPT !.op = op, !.step = step]

AuthInit ==
    /\ now = 0
    /\ password = [u \in Person |-> 0]
    /\ emailed = [u \in Person |-> FALSE]
    /\ session = {}
    /\ opened = 0
    /\ code = {}
    /\ coded = 0
    /\ jar = [c \in Client |-> NoToken]
    /\ call = [p \in Process |-> Idle]
    /\ calls = 0
    /\ mishaps = {}
    /\ revoked = {}
    /\ late = {}
    /\ granted = [k \in 1..MaxCalls |-> 0]

Kept(p) == jar[Home[p]]
Keep(p, t) == jar' = [jar EXCEPT ![Home[p]] = t]
Rows(sid) == {s \in session : s.sid = sid}
OnCommandLine(p) == Home[p] \in CommandLine

(* verifyRefreshToken: the signature is good and exp is still to come. *)
Genuine(t) == t # NoToken /\ now < t.iat + Lifetime

Begin(p, r) ==
    /\ call[p] = Idle
    /\ calls < MaxCalls
    /\ calls' = calls + 1
    /\ call' = [call EXCEPT ![p] = r]
    /\ UNCHANGED <<now, jar, history>>

At(p, op, step) == call[p].op = op /\ call[p].step = step
Goto(p, r) == call' = [call EXCEPT ![p] = r] /\ UNCHANGED <<now, calls>>
Step(p, step) == Goto(p, [call[p] EXCEPT !.step = step])
Done(p) == Goto(p, Idle)

(***************************************************************************)
(* Opening a session, with a password or with a device code.               *)
(***************************************************************************)
Login(p) ==
    /\ ~OnCommandLine(p)
    /\ \E u \in Person :
         Begin(p, [Asks("login", "mint") EXCEPT !.user = u, !.version = password[u]])
    /\ UNCHANGED server

(* cleanupExpired, which a new code and every poll begin with. *)
LiveCodes == {k \in code : k.expires >= now}

CreateDeviceCode(p) ==
    /\ OnCommandLine(p)
    /\ Begin(p, [Asks("poll", "wait") EXCEPT !.code = coded + 1])
    /\ coded' = coded + 1
    /\ code' = LiveCodes \cup
         {[id |-> coded + 1, status |-> "PENDING", user |-> 0, version |-> 0,
           expires |-> now + CodeLifetime]}
    /\ UNCHANGED <<password, emailed, session, opened>>

(* A poll whose answer is overdue is sent again. *)
PollAgain(p) ==
    /\ \E q \in Process :
         /\ Home[q] = Home[p]
         /\ call[q].op = "poll"
         /\ Begin(p, [Asks("poll", "wait") EXCEPT !.code = call[q].code])
    /\ UNCHANGED server

(* Someone signed in authorises a code that is pending when it is read. *)
VerifyDeviceCode(p) ==
    /\ ~OnCommandLine(p)
    /\ Kept(p) # NoToken
    /\ \E k \in LiveCodes :
         /\ k.status = "PENDING"
         /\ Begin(p, [Asks("verify", "write") EXCEPT !.code = k.id,
                                                     !.user = Kept(p).sub])
    /\ UNCHANGED server

AuthoriseCode(p) ==
    /\ At(p, "verify", "write")
    /\ code' = {IF k.id = call[p].code
                THEN [k EXCEPT !.status = "VERIFIED", !.user = call[p].user,
                               !.version = password[call[p].user]]
                ELSE k : k \in code}
    /\ Done(p)
    /\ UNCHANGED <<password, emailed, session, opened, coded, jar, history>>

PollDeviceCode(p) ==
    /\ At(p, "poll", "wait")
    /\ code' = LiveCodes
    /\ \/ /\ \A k \in LiveCodes : k.id # call[p].code
          /\ Done(p)
       \/ \E k \in LiveCodes :
            /\ k.id = call[p].code
            /\ k.status = "VERIFIED"
            /\ Goto(p, [call[p] EXCEPT !.step = "consume", !.user = k.user,
                                       !.version = k.version])
    /\ UNCHANGED <<password, emailed, session, opened, coded, jar, history>>

(* The rows that the guarded deletion of a verified code deletes. *)
Consumable(p) == {k \in code : k.id = call[p].code /\ k.status = "VERIFIED"}

ToLogin(p) == Goto(p, [call[p] EXCEPT !.op = "login", !.step = "mint"])

(* Mutation: tokens are issued however many rows the deletion deleted. *)
IssueUncounted(p) == ToLogin(p)

IssueIfConsumed(p) == IF Consumable(p) = {} THEN Done(p) ELSE ToLogin(p)

ConsumeCode(p) ==
    /\ At(p, "poll", "consume")
    /\ code' = code \ Consumable(p)
    /\ IssueIfConsumed(p)
    /\ UNCHANGED <<password, emailed, session, opened, coded, jar, history>>

(* mintPair signs in the second it runs in, and then hashes the token. *)
MintPair(p) ==
    /\ call[p].step = "mint"
    /\ Goto(p, [call[p] EXCEPT !.step = "write", !.token.iat = now])
    /\ UNCHANGED <<server, jar, history>>

(* Mutation: one token family per person. *)
FamilyOfPerson == 1

(* randomUUID: a family of its own for every session. *)
NewFamily == opened + 1

IssueTokens(p) ==
    /\ At(p, "login", "write")
    /\ LET c == call[p]
           t == [sid |-> NewFamily, sub |-> c.user, iat |-> c.token.iat] IN
       /\ session' = session \cup
            {[sid |-> t.sid, user |-> c.user, iat |-> t.iat,
              expires |-> now + Lifetime, version |-> c.version]}
       /\ opened' = opened + 1
       /\ Goto(p, [c EXCEPT !.step = "answer", !.token = t])
       /\ late' = IF c.version = password[c.user] THEN late ELSE late \cup {t.sid}
       /\ granted' = [k \in 1..MaxCalls |-> granted[k] + (IF k = c.code THEN 1 ELSE 0)]
    /\ UNCHANGED <<password, emailed, code, coded, jar, mishaps, revoked>>

(***************************************************************************)
(* Refreshing: a call with the access token has been refused.              *)
(***************************************************************************)
CallApi(p) ==
    /\ Kept(p) # NoToken
    /\ Begin(p, [Asks("refresh", "refused") EXCEPT !.token = Kept(p)])
    /\ UNCHANGED server

Refreshing(q) ==
    call[q].op = "refresh" /\ call[q].step \in {"look", "revoke", "mint", "write", "answer"}

Send(p, t) ==
    /\ Goto(p, [call[p] EXCEPT !.step = "look", !.token = t])
    /\ mishaps' = IF \E q \in Process \ {p} : Home[q] = Home[p] /\ Refreshing(q)
                  THEN mishaps \cup {"raced"} ELSE mishaps
    /\ UNCHANGED <<server, jar, revoked, late, granted>>

Retry(p) == Done(p) /\ UNCHANGED <<server, jar, history>>

(* Mutation: the command sends the token that it had loaded at its start. *)
SendLoaded(p) == Send(p, call[p].token)

(* TokenRefreshHandler loads the credentials again: where another process  *)
(* has changed them it retries the call, and where they are gone gives up. *)
SendOrRetry(p) ==
    IF Kept(p) = call[p].token THEN Send(p, Kept(p)) ELSE Retry(p)

RefreshOnCommandLine(p) ==
    /\ At(p, "refresh", "refused")
    /\ OnCommandLine(p)
    /\ SendOrRetry(p)

(* A browser sends the cookie it has by then. *)
RefreshInBrowser(p) ==
    /\ At(p, "refresh", "refused")
    /\ ~OnCommandLine(p)
    /\ Send(p, Kept(p))

(* AuthService.refresh up to what it decides on the row it has read. *)
LookUpSession(p) ==
    /\ At(p, "refresh", "look")
    /\ LET t == call[p].token
           row == {s \in Rows(t.sid) : Genuine(t) /\ s.user = t.sub} IN
       \/ row = {} /\ Done(p)
       \/ \E s \in row :
            IF s.expires < now THEN Step(p, "expire")
            ELSE IF s.iat # t.iat THEN Step(p, "revoke")
            ELSE Step(p, "mint")
    /\ UNCHANGED <<server, jar, history>>

RevokeSession(p) ==
    /\ call[p].op = "refresh"
    /\ call[p].step \in {"expire", "revoke"}
    /\ session' = session \ Rows(call[p].token.sid)
    /\ revoked' = IF call[p].step = "revoke"
                  THEN revoked \cup {call[p].token.sid} ELSE revoked
    /\ Done(p)
    /\ UNCHANGED <<password, emailed, opened, code, coded, jar, mishaps, late, granted>>

(* Mutation: the row's expiry stays that of the login. *)
RotateInPlace(t) ==
    {IF s.sid = t.sid THEN [s EXCEPT !.iat = t.iat] ELSE s : s \in session}

(* Mutation: a row that is gone is written anew. *)
RotateOrCreate(t) ==
    (session \ Rows(t.sid)) \cup
        {[sid |-> t.sid, user |-> t.sub, iat |-> t.iat, expires |-> now + Lifetime,
          version |-> password[t.sub]]}

Rotated(t) ==
    {IF s.sid = t.sid THEN [s EXCEPT !.iat = t.iat, !.expires = now + Lifetime] ELSE s
        : s \in session}

RotateTokens(p) ==
    /\ At(p, "refresh", "write")
    /\ session' = Rotated(call[p].token)
    /\ IF Rows(call[p].token.sid) = {} THEN Done(p) ELSE Step(p, "answer")
    /\ UNCHANGED <<password, emailed, opened, code, coded, jar, history>>

(* The answer arrives and its token is kept, over whatever is kept by then. *)
KeepTokens(p) ==
    /\ call[p].step = "answer"
    /\ Keep(p, call[p].token)
    /\ Done(p)
    /\ UNCHANGED <<server, history>>

(***************************************************************************)
(* Signing out.                                                            *)
(***************************************************************************)
Logout(p) ==
    /\ Kept(p) # NoToken
    /\ Begin(p, [Asks("logout", "end") EXCEPT !.token = Kept(p)])
    /\ UNCHANGED server

EndSession(p) ==
    /\ At(p, "logout", "end")
    /\ session' = {s \in session : ~(Genuine(call[p].token)
                     /\ s.sid = call[p].token.sid /\ s.user = call[p].token.sub)}
    /\ Step(p, "clear")
    /\ UNCHANGED <<password, emailed, opened, code, coded, jar, history>>

(* The command line signs out here even when the request has failed. *)
ClearTokens(p) ==
    /\ \/ At(p, "logout", "clear")
       \/ At(p, "logout", "end") /\ OnCommandLine(p)
    /\ Keep(p, NoToken)
    /\ Done(p)
    /\ UNCHANGED <<server, history>>

(***************************************************************************)
(* Passwords.                                                              *)
(***************************************************************************)
NewPassword(u) == password' = [password EXCEPT ![u] = @ + 1]

(* Mutation: the sessions are left alone. *)
SignedOutNobody(u) == session

SignedOut(u) == {s \in session : s.user # u}

ChangePassword(p) ==
    /\ Kept(p) # NoToken
    /\ Begin(p, [Asks("change", "write") EXCEPT !.token = Kept(p)])
    /\ UNCHANGED server

(* One transaction.  The session that the request names by its refresh     *)
(* token would stay, but that token is a cookie of the path /api/auth,     *)
(* which no client sends here: the caller's sessions end with the others,  *)
(* and its client is left with a token of a session that is gone.          *)
CommitChange(p) ==
    /\ At(p, "change", "write")
    /\ LET caller == call[p].token.sub IN
       /\ NewPassword(caller)
       /\ session' = SignedOut(caller)
    /\ Done(p)
    /\ UNCHANGED <<emailed, opened, code, coded, jar, history>>

ForgotPassword(u) ==
    /\ calls < MaxCalls
    /\ calls' = calls + 1
    /\ emailed' = [emailed EXCEPT ![u] = TRUE]
    /\ UNCHANGED <<now, password, session, opened, code, coded, jar, call, history>>

ResetPassword(p) ==
    /\ \E u \in Person :
         /\ emailed[u]
         /\ Begin(p, [Asks("reset", "write") EXCEPT !.user = u])
    /\ UNCHANGED server

CommitReset(p) ==
    /\ At(p, "reset", "write")
    /\ NewPassword(call[p].user)
    /\ emailed' = [emailed EXCEPT ![call[p].user] = FALSE]
    /\ Step(p, "signout")
    /\ UNCHANGED <<session, opened, code, coded, jar, history>>

SignOutEverywhere(p) ==
    /\ At(p, "reset", "signout")
    /\ session' = SignedOut(call[p].user)
    /\ Done(p)
    /\ UNCHANGED <<password, emailed, opened, code, coded, jar, history>>

(***************************************************************************)
(* A client or the backend stops, or an answer is lost; time passes; the   *)
(* daily job deletes expired sessions.                                     *)
(***************************************************************************)
Lose(p) ==
    /\ call[p] # Idle
    /\ Done(p)
    /\ mishaps' = mishaps
         \cup (IF At(p, "refresh", "answer") THEN {"lost"} ELSE {})
         \cup (IF At(p, "reset", "signout") THEN {"halfway"} ELSE {})
    /\ UNCHANGED <<server, jar, revoked, late, granted>>

Tick ==
    /\ now < MaxTime
    /\ now' = now + 1
    /\ UNCHANGED <<server, jar, call, calls, history>>

DeleteExpiredSessions ==
    /\ \E s \in session : s.expires < now
    /\ session' = {s \in session : s.expires >= now}
    /\ UNCHANGED <<now, password, emailed, opened, code, coded, jar, call, calls,
                   history>>

AuthNext ==
    \/ Tick
    \/ DeleteExpiredSessions
    \/ \E u \in Person : ForgotPassword(u)
    \/ \E p \in Process :
         \/ Login(p) \/ CreateDeviceCode(p) \/ PollAgain(p) \/ VerifyDeviceCode(p)
         \/ AuthoriseCode(p) \/ PollDeviceCode(p) \/ ConsumeCode(p)
         \/ MintPair(p) \/ IssueTokens(p) \/ CallApi(p)
         \/ RefreshOnCommandLine(p) \/ RefreshInBrowser(p)
         \/ LookUpSession(p) \/ RevokeSession(p) \/ RotateTokens(p)
         \/ KeepTokens(p) \/ Logout(p) \/ EndSession(p) \/ ClearTokens(p)
         \/ ChangePassword(p) \/ CommitChange(p) \/ ResetPassword(p)
         \/ CommitReset(p) \/ SignOutEverywhere(p) \/ Lose(p)

AuthSpec == AuthInit /\ [][AuthNext]_authVars

(***************************************************************************)
(* Properties.                                                             *)
(***************************************************************************)
AuthTypeOK ==
    /\ now \in 0..MaxTime
    /\ password \in [Person -> Nat]
    /\ emailed \in [Person -> BOOLEAN]
    /\ session \subseteq Row
    /\ opened \in 0..MaxCalls
    /\ code \subseteq DeviceCode
    /\ coded \in 0..MaxCalls
    /\ jar \in [Client -> Token \cup {NoToken}]
    /\ DOMAIN call = Process
    /\ calls \in 0..MaxCalls
    /\ mishaps \subseteq {"lost", "raced", "halfway"}
    /\ revoked \cup late \subseteq 1..MaxCalls
    /\ \A s, r \in session : s.sid = r.sid => s = r
    /\ \A c \in Client : jar[c].sid <= opened

(* A session that was ended, by signing out, by a new password, as a       *)
(* replay or as expired, is never brought back: a refresh that had read    *)
(* the row before then finds nothing to rotate.                            *)
EndedStaysEnded ==
    [][\A s \in session' : Rows(s.sid) # {} \/ s.sid > opened]_authVars

(* A device code gives one session, however often its client polls and     *)
(* however many people authorise it.                                       *)
CodeGivesOne == \A k \in DOMAIN granted : granted[k] <= 1

(* A session that was opened before the password was last changed survives *)
(* only the reset that has still to sign its person out, or stopped before *)
(* it did, and a sign-in that had checked the old password (or an          *)
(* authorised code) and opened its session after the change.               *)
OldPasswordSignedOut ==
    \A s \in session :
        \/ s.version = password[s.user]
        \/ s.sid \in late
        \/ "halfway" \in mishaps
        \/ \E p \in Process : At(p, "reset", "signout") /\ call[p].user = s.user

(* A client is taken for a thief, and signed out, only after an answer to  *)
(* a refresh was lost or two of its processes refreshed at once: a command *)
(* that another has overtaken uses the credentials that it finds.          *)
ReplayNeedsMishap == revoked # {} => mishaps \cap {"lost", "raced"} # {}

(* The row of a session lasts as long as the token it holds, so a token    *)
(* that is still good is never refused because its session has expired.    *)
RowOutlivesToken == \A s \in session : s.iat + Lifetime <= s.expires
=============================================================================
