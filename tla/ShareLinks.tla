----------------------------- MODULE ShareLinks -----------------------------
(***************************************************************************)
(* One-time share links: the routes of share-link.service.ts.  Reading a   *)
(* link and revoking one check the row first and change it afterwards, and *)
(* requests interleave in between.                                         *)
(***************************************************************************)
EXTENDS Naturals

CONSTANTS
    Link,       \* links that may be created
    Reader,     \* requests that may open a link at once
    Revoker,    \* requests that may revoke a link at once
    NoLink

ASSUME NoLinkAssumption == NoLink \notin Link

VARIABLES
    link,       \* share_links: the status of the row, if there is one
    lapsed,     \* the links whose expiresAt has passed
    payload,    \* the links whose row holds the encrypted payload
    reading,    \* per reader, the link it has read and how far it is
    revoking,   \* per revoker, the link it has read
    answered,   \* history: how often a link's payload was sent
    unread      \* history: links revoked while their payload was there

linkVars == <<link, lapsed, payload, reading, revoking, answered, unread>>

Resting == [link |-> NoLink, step |-> "idle"]

LinkInit ==
    /\ link = [l \in Link |-> "none"]
    /\ lapsed = {}
    /\ payload = {}
    /\ reading = [r \in Reader |-> Resting]
    /\ revoking = [v \in Revoker |-> NoLink]
    /\ answered = [l \in Link |-> 0]
    /\ unread = {}

(* effectiveStatus(row) is PENDING: neither viewed nor expired. *)
Open(l) == link[l] = "PENDING" /\ l \notin lapsed

CreateLink(l) ==
    /\ link[l] = "none"
    /\ link' = [link EXCEPT ![l] = "PENDING"]
    /\ payload' = payload \cup {l}
    /\ UNCHANGED <<lapsed, reading, revoking, answered, unread>>

Lapse(l) ==
    /\ link[l] \in {"PENDING", "VIEWED"}
    /\ lapsed' = lapsed \cup {l}
    /\ UNCHANGED <<link, payload, reading, revoking, answered, unread>>

(* The payload is put into the answer here, before the link is consumed. *)
FindConsumable(r, l) ==
    /\ reading[r] = Resting
    /\ Open(l)
    /\ reading' = [reading EXCEPT ![r] = [link |-> l, step |-> "found"]]
    /\ UNCHANGED <<link, lapsed, payload, revoking, answered, unread>>

Consumed(r) == reading' = [reading EXCEPT ![r].step = "consumed"]
Gone(r) == reading' = [reading EXCEPT ![r] = Resting]

(* Mutation: the status is tested when the row is read, and not again. *)
ConsumeFound(r, l) ==
    /\ link' = [link EXCEPT ![l] = IF @ = "PENDING" THEN "VIEWED" ELSE @]
    /\ payload' = payload \ {l}
    /\ Consumed(r)

(* Mutation: a row that is not there counts as one that was updated. *)
ConsumeUnlessViewed(r, l) ==
    IF link[l] = "VIEWED" \/ l \in lapsed
    THEN Gone(r) /\ UNCHANGED <<link, payload>>
    ELSE /\ link' = [link EXCEPT ![l] = IF @ = "PENDING" THEN "VIEWED" ELSE @]
         /\ payload' = payload \ {l}
         /\ Consumed(r)

(* The guarded update: it changes one row, or none and the link is gone. *)
Consume(r, l) ==
    IF Open(l)
    THEN /\ link' = [link EXCEPT ![l] = "VIEWED"]
         /\ payload' = payload \ {l}
         /\ Consumed(r)
    ELSE Gone(r) /\ UNCHANGED <<link, payload>>

ConsumeLink(r) ==
    /\ reading[r].step = "found"
    /\ Consume(r, reading[r].link)
    /\ UNCHANGED <<lapsed, revoking, answered, unread>>

AnswerReader(r) ==
    /\ reading[r].step = "consumed"
    /\ answered' = [answered EXCEPT ![reading[r].link] = @ + 1]
    /\ Gone(r)
    /\ UNCHANGED <<link, lapsed, payload, revoking, unread>>

(* A wrong password, a failure, or an answer that is lost. *)
DropReader(r) ==
    /\ reading[r] # Resting
    /\ Gone(r)
    /\ UNCHANGED <<link, lapsed, payload, revoking, answered, unread>>

FindRevocable(v, l) ==
    /\ revoking[v] = NoLink
    /\ Open(l)
    /\ revoking' = [revoking EXCEPT ![v] = l]
    /\ UNCHANGED <<link, lapsed, payload, reading, answered, unread>>

(* The row is deleted whatever its status is by now; a second deletion     *)
(* fails, as a request may that stops here.                                *)
DeleteLink(v) ==
    LET l == revoking[v] IN
    /\ l # NoLink
    /\ revoking' = [revoking EXCEPT ![v] = NoLink]
    /\ \/ /\ link' = [link EXCEPT ![l] = "gone"]
          /\ payload' = payload \ {l}
          /\ unread' = IF l \in payload THEN unread \cup {l} ELSE unread
       \/ UNCHANGED <<link, payload, unread>>
    /\ UNCHANGED <<lapsed, reading, answered>>

LinkNext ==
    \/ \E l \in Link :
         \/ CreateLink(l)
         \/ Lapse(l)
         \/ \E r \in Reader : FindConsumable(r, l)
         \/ \E v \in Revoker : FindRevocable(v, l)
    \/ \E r \in Reader : ConsumeLink(r) \/ AnswerReader(r) \/ DropReader(r)
    \/ \E v \in Revoker : DeleteLink(v)

LinkSpec == LinkInit /\ [][LinkNext]_linkVars

(***************************************************************************)
(* Properties.                                                             *)
(***************************************************************************)
LinkTypeOK ==
    /\ link \in [Link -> {"none", "PENDING", "VIEWED", "gone"}]
    /\ lapsed \subseteq Link
    /\ payload = {l \in Link : link[l] = "PENDING"}
    /\ reading \in [Reader -> [link : Link, step : {"found", "consumed"}] \cup {Resting}]
    /\ revoking \in [Revoker -> Link \cup {NoLink}]
    /\ answered \in [Link -> Nat]
    /\ unread \subseteq Link

(* Readers that have consumed l and whose answer is on its way. *)
Winners(l) == {r \in Reader : reading[r] = [link |-> l, step |-> "consumed"]}

(* One-time: a payload is on its way to one reader, or was sent to one, or *)
(* is still in its row, and never two of these, whoever read the row       *)
(* before it was consumed.                                                 *)
PayloadHandedOnce ==
    \A l \in Link :
        /\ answered[l] <= 1
        /\ \A r, s \in Winners(l) : r = s
        /\ Winners(l) # {} => answered[l] = 0
        /\ answered[l] = 1 \/ Winners(l) # {} => l \notin payload

(* A link that was revoked before anyone had opened it is never opened     *)
(* afterwards, though a reader may have read its row before.               *)
RevokedStaysUnread ==
    \A l \in unread : answered[l] = 0 /\ Winners(l) = {}
=============================================================================
