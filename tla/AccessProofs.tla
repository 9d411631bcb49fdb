---------------------------- MODULE AccessProofs ----------------------------
(***************************************************************************)
(* A project keeps exactly one owner, for any people and any number of     *)
(* requests at once, as long as no request commits on a role that changed  *)
(* after it was checked.                                                   *)
(***************************************************************************)
EXTENDS Access, TLAPS

USE DEF Membership, Role

LEMMA InitHolds == Init => AccessInv
<1> SUFFICES ASSUME Init  PROVE AccessInv
  OBVIOUS
<1> USE FounderAssumption, AccessAbsent, AccessBounds DEF Init
<1>1. TypeOK
  <2>1. account \in [User -> {"none", "open", "deleted"}]  OBVIOUS
  <2>2. member \in [User -> Membership \cup {Absent}]  OBVIOUS
  <2>3. issued \in 0..MaxInvites  OBVIOUS
  <2>4. /\ invite \in [1..MaxInvites -> Invitation \cup {Absent}]
        /\ admitted \in [1..MaxInvites -> Nat]
        /\ overruled \subseteq 1..MaxInvites
        /\ overlapped \subseteq 1..MaxInvites
    OBVIOUS
  <2>5. request \in [Handler -> Request \cup {Absent}]  OBVIOUS
  <2> QED  BY <2>1, <2>2, <2>3, <2>4, <2>5 DEF TypeOK
<1>2. Members = {Founder}  BY DEF Members
<1>3. Owners = {Founder}  BY <1>2 DEF Owners
<1>4. RowsNameMembers  BY <1>2 DEF RowsNameMembers
<1>5. TransfersNameTwo  BY DEF TransfersNameTwo
<1>6. ChecksSpareOwners  BY DEF ChecksSpareOwners, Serves
<1>7. OneOwner  BY <1>3 DEF OneOwner
<1> QED  BY <1>1, <1>4, <1>5, <1>6, <1>7 DEF AccessInv

(* What a handler serves tells the shape of its request. *)
LEMMA RequestKinds ==
  ASSUME TypeOK, NEW h \in Handler, request[h] # Absent
  PROVE  /\ request[h].op = "update" => request[h] \in UpdateRequest
         /\ request[h].op = "remove" => request[h] \in RemoveRequest
         /\ request[h].op = "transfer" /\ ~request[h].checked => request[h] \in TransferRequest
         /\ request[h].op = "transfer" /\ request[h].checked => request[h] \in CheckedTransfer
         /\ request[h].op = "invite" => request[h] \in InviteRequest
         /\ request[h].op \in {"cancel", "decline", "accept", "settle", "join"}
              => request[h] \in AnswerRequest
         /\ request[h].op = "transition" => request[h] \in TransitionRequest
         /\ request[h].op = "delete" => request[h] \in DeleteRequest
         /\ request[h].op = "leave" => request[h] \in LeaveRequest
<1>1. request[h] \in Request  BY DEF TypeOK
<1> QED
  BY <1>1 DEF Request, UpdateRequest, RemoveRequest, TransferRequest, CheckedTransfer,
              InviteRequest, AnswerRequest, TransitionRequest, DeleteRequest, LeaveRequest

(***************************************************************************)
(* Steps that change no row but a request.                                 *)
(***************************************************************************)
LEMMA RequestChanges ==
  ASSUME AccessInv, NEW h \in Handler, NEW r \in Request \cup {Absent},
         request' = [request EXCEPT ![h] = r], made' \in Nat, UNCHANGED rows,
         r # Absent /\ r.op = "transfer" => TransferNamesTwo(r),
         r # Absent /\ r.op \in {"update", "remove"} /\ r.checked => r.seen # "OWNER"
  PROVE  AccessInv'
<1> USE DEF rows, AccessInv
<1>1. TypeOK'  BY DEF TypeOK
<1>2. Members' = Members  BY DEF Members
<1>3. RowsNameMembers'  BY <1>2 DEF RowsNameMembers
<1>4. \A n : Holders(n)' = Holders(n)  BY <1>2 DEF Holders
<1>5. TransfersNameTwo'
  <2> SUFFICES ASSUME NEW k \in Handler, request'[k] # Absent, request'[k].op = "transfer"
               PROVE  TransferNamesTwo(request[k])'
    BY DEF TransfersNameTwo
  <2>1. CASE k = h
    <3>1. request'[k] = r  BY <2>1 DEF TypeOK
    <3>2. TransferNamesTwo(r)  BY <3>1
    <3> QED  BY <3>1, <3>2, <1>4 DEF TransferNamesTwo
  <2>2. CASE k # h
    <3>1. request'[k] = request[k]  BY <2>2 DEF TypeOK
    <3>2. TransferNamesTwo(request[k])  BY <3>1 DEF TransfersNameTwo
    <3> QED  BY <3>1, <3>2, <1>4 DEF TransferNamesTwo
  <2> QED  BY <2>1, <2>2
<1>6. ChecksSpareOwners'
  <2> SUFFICES ASSUME NEW k \in Handler, Serves(k, {"update", "remove"}, TRUE)'
               PROVE  request'[k].seen # "OWNER"
    BY DEF ChecksSpareOwners
  <2>1. CASE k = h
    <3>1. request'[k] = r  BY <2>1 DEF TypeOK
    <3> QED  BY <3>1 DEF Serves
  <2>2. CASE k # h
    <3>1. request'[k] = request[k]  BY <2>2 DEF TypeOK
    <3> QED  BY <3>1 DEF ChecksSpareOwners, Serves
  <2> QED  BY <2>1, <2>2
<1>7. OneOwner'  BY <1>2 DEF OneOwner, Owners
<1> QED  BY <1>1, <1>3, <1>5, <1>6, <1>7

(* A request that ends, or goes on to a step that is neither a transfer    *)
(* nor a checked update or removal. *)
LEMMA CheckedKeeps ==
  ASSUME AccessInv, NEW h \in Handler, NEW r \in Request \cup {Absent}, Checked(h, r),
         r # Absent /\ r.op = "transfer" => TransferNamesTwo(r),
         r # Absent /\ r.op \in {"update", "remove"} /\ r.checked => r.seen # "OWNER"
  PROVE  AccessInv'
<1>1. made' \in Nat  BY DEF Checked, Become, AccessInv, TypeOK
<1>2. request' = [request EXCEPT ![h] = r] /\ UNCHANGED rows  BY DEF Checked, Become
<1> QED  BY <1>1, <1>2, RequestChanges

LEMMA AskedKeeps ==
  ASSUME AccessInv, NEW h \in Handler, NEW r \in Request, Ask(h, r),
         r.op = "transfer" => TransferNamesTwo(r),
         r.op \in {"update", "remove"} => ~r.checked
  PROVE  AccessInv'
<1>1. made' \in Nat  BY DEF Ask, AccessInv, TypeOK
<1>2. request' = [request EXCEPT ![h] = r] /\ UNCHANGED rows  BY DEF Ask
<1> QED  BY <1>1, <1>2, RequestChanges

LEMMA AsksKeep ==
  ASSUME AccessInv, NEW h \in Handler,
         \/ AskUpdateOrRemove(h) \/ AskTransfer(h) \/ AskInvite(h) \/ AskCancel(h)
         \/ AskAnswer(h) \/ AskDelete(h)
  PROVE  AccessInv'
<1> USE DEF Request
<1>m. \A u \in Members : u \in User /\ member[u] \in Membership /\ member[u].id < joined
  BY DEF Members, AccessInv, TypeOK, RowsNameMembers
<1>s. \A i \in Sent : i \in 1..MaxInvites /\ invite[i] \in Invitation
  BY DEF Sent, AccessInv, TypeOK
<1>1. CASE AskUpdateOrRemove(h)
  <2>1. PICK u \in Members, op \in {"update", "remove"} :
          \E role \in IF op = "update" THEN Granted ELSE {Absent} :
            Ask(h, [op |-> op, checked |-> FALSE, id |-> member[u].id,
                    role |-> role, seen |-> Absent])
    BY <1>1 DEF AskUpdateOrRemove
  <2>2. PICK role \in IF op = "update" THEN Granted ELSE {Absent} :
            Ask(h, [op |-> op, checked |-> FALSE, id |-> member[u].id,
                    role |-> role, seen |-> Absent])
    BY <2>1
  <2> DEFINE r == [op |-> op, checked |-> FALSE, id |-> member[u].id,
                   role |-> role, seen |-> Absent]
  <2>3. r \in Request  BY <1>m DEF UpdateRequest, RemoveRequest
  <2> QED  BY <2>2, <2>3, AskedKeeps
<1>2. CASE AskTransfer(h)
  <2>1. PICK a \in User, u \in User :
          /\ OwnerGuard(a)
          /\ u # a
          /\ Ask(h, [op |-> "transfer", checked |-> FALSE, to |-> u, caller |-> a,
                     callerId |-> member[a].id, seen |-> member[a].role])
    BY <1>2 DEF AskTransfer
  <2> DEFINE r == [op |-> "transfer", checked |-> FALSE, to |-> u, caller |-> a,
                   callerId |-> member[a].id, seen |-> member[a].role]
  <2>2. a \in Members /\ member[a].role = "OWNER"  BY <2>1 DEF OwnerGuard
  <2>3. r \in Request  BY <2>2, <1>m DEF TransferRequest
  <2>4. Holders(member[a].id) \subseteq {a}
    BY <2>2 DEF Holders, AccessInv, RowsNameMembers
  <2>5. TransferNamesTwo(r)  BY <2>1, <2>2, <2>4, <1>m DEF TransferNamesTwo
  <2> QED  BY <2>1, <2>3, <2>5, AskedKeeps
<1>3. CASE AskInvite(h)
  <2>1. PICK a \in User, u \in User, role \in Granted :
          Ask(h, [op |-> "invite", checked |-> FALSE, email |-> u, by |-> a, role |-> role])
    BY <1>3 DEF AskInvite
  <2> DEFINE r == [op |-> "invite", checked |-> FALSE, email |-> u, by |-> a, role |-> role]
  <2>2. r \in Request  BY DEF InviteRequest
  <2> QED  BY <2>1, <2>2, AskedKeeps
<1>4. CASE AskCancel(h)
  <2>1. PICK a \in User, i \in Sent :
          Ask(h, [op |-> "cancel", checked |-> FALSE, invite |-> i, actor |-> a])
    BY <1>4 DEF AskCancel
  <2> DEFINE r == [op |-> "cancel", checked |-> FALSE, invite |-> i, actor |-> a]
  <2>2. r \in Request  BY <1>s DEF AnswerRequest
  <2> QED  BY <2>1, <2>2, AskedKeeps
<1>5. CASE AskAnswer(h)
  <2>1. PICK i \in Sent, op \in {"accept", "decline"} :
          Ask(h, [op |-> op, checked |-> FALSE, invite |-> i, actor |-> invite[i].email])
    BY <1>5 DEF AskAnswer
  <2> DEFINE r == [op |-> op, checked |-> FALSE, invite |-> i, actor |-> invite[i].email]
  <2>2. r \in Request  BY <1>s DEF AnswerRequest, Invitation
  <2> QED  BY <2>1, <2>2, AskedKeeps
<1>6. CASE AskDelete(h)
  <2>1. CASE Ask(h, [op |-> "delete", checked |-> TRUE])
    <3>1. [op |-> "delete", checked |-> TRUE] \in Request  BY DEF DeleteRequest
    <3> QED  BY <2>1, <3>1, AskedKeeps
  <2>2. CASE \E a \in User : Ask(h, [op |-> "leave", checked |-> FALSE, actor |-> a])
    <3>1. PICK a \in User : Ask(h, [op |-> "leave", checked |-> FALSE, actor |-> a])
      BY <2>2
    <3>2. [op |-> "leave", checked |-> FALSE, actor |-> a] \in Request  BY DEF LeaveRequest
    <3> QED  BY <3>1, <3>2, AskedKeeps
  <2> QED  BY <1>6, <2>1, <2>2 DEF AskDelete
<1> QED  BY <1>1, <1>2, <1>3, <1>4, <1>5, <1>6

(* A transaction that has begun knows the rows that are to go. *)
LEMMA BegunRequest ==
  ASSUME TypeOK, NEW h \in Handler, FindOlder(h)
  PROVE  \E r \in TransitionRequest :
           /\ Checked(h, r)
           /\ r.invite \in Sent
           /\ r.older = InStatus(r.invite, Target[r.answer])
<1> DEFINE q == request[h]
           old == InStatus(q.invite, Target[q.op])
           r == [op |-> "transition", checked |-> TRUE, answer |-> q.op,
                 invite |-> q.invite, actor |-> q.actor, older |-> old]
<1>1. q \in AnswerRequest /\ q.op \in {"cancel", "decline", "settle", "join"}
  BY RequestKinds DEF FindOlder, Serves
<1>2. old \in SUBSET (1..MaxInvites)  BY DEF InStatus, Sent
<1>3. q.invite \in Sent /\ Checked(h, r)  BY DEF FindOlder, Begin
<1>4. q.invite \in 1..MaxInvites /\ q.actor \in User  BY <1>1 DEF AnswerRequest
<1> HIDE DEF q, old
<1>5. r \in TransitionRequest  BY <1>1, <1>2, <1>4 DEF TransitionRequest
<1>6. r.invite = q.invite /\ r.answer = q.op /\ r.older = InStatus(q.invite, Target[q.op])
  BY DEF old
<1> HIDE DEF r
<1> QED  BY <1>3, <1>5, <1>6

LEMMA ChecksKeep ==
  ASSUME AccessInv, NEW h \in Handler,
         \/ FindMember(h) \/ FindNewOwner(h) \/ CheckInvitee(h) \/ FindPending(h)
         \/ FindMembership(h) \/ FindOlder(h) \/ Refuse(h)
  PROVE  AccessInv'
<1>t. TypeOK  BY DEF AccessInv
<1>1. CASE FindMember(h)
  <2>1. PICK u \in Holders(request[h].id) :
          /\ member[u].role # "OWNER"
          /\ Checked(h, [request[h] EXCEPT !.checked = TRUE, !.seen = member[u].role])
    BY <1>1 DEF FindMember
  <2> DEFINE r == [request[h] EXCEPT !.checked = TRUE, !.seen = member[u].role]
  <2>2. request[h] \in UpdateRequest \cup RemoveRequest
    BY <1>1, <1>t, RequestKinds DEF FindMember, Serves
  <2>3. member[u] \in Membership  BY <1>t DEF Holders, Members, TypeOK
  <2>4. r \in UpdateRequest \cup RemoveRequest /\ r.seen = member[u].role
    BY <2>2, <2>3 DEF UpdateRequest, RemoveRequest
  <2>5. r.op # "transfer"  BY <2>4 DEF UpdateRequest, RemoveRequest
  <2>6. r \in Request  BY <2>4 DEF Request
  <2> QED  BY <2>1, <2>4, <2>5, <2>6, CheckedKeeps
<1>2. CASE FindNewOwner(h)
  <2> DEFINE u == request[h].to
             r == [op |-> "transfer", checked |-> TRUE, id |-> member[u].id,
                   callerId |-> request[h].callerId, seen |-> request[h].seen]
  <2>1. u \in Members /\ Checked(h, r)  BY <1>2 DEF FindNewOwner
  <2>2. request[h] \in TransferRequest
    BY <1>2, <1>t, RequestKinds DEF FindNewOwner, Serves
  <2>3. TransferNamesTwo(request[h])
    BY <1>2 DEF AccessInv, TransfersNameTwo, FindNewOwner, Serves
  <2>4. u \notin Holders(request[h].callerId)
    BY <2>2, <2>3 DEF TransferNamesTwo, TransferRequest
  <2>5. member[u].id # request[h].callerId  BY <2>1, <2>4 DEF Holders
  <2>6. member[u] \in Membership  BY <2>1, <1>t DEF Members, TypeOK
  <2>7. r \in CheckedTransfer  BY <2>2, <2>6 DEF TransferRequest, CheckedTransfer
  <2>8. TransferNamesTwo(r)  BY <2>3, <2>5 DEF TransferNamesTwo
  <2> HIDE DEF r, u
  <2>9. r \in Request /\ r.op = "transfer"  BY <2>7 DEF Request, CheckedTransfer
  <2> QED  BY <2>1, <2>8, <2>9, CheckedKeeps
<1>3. CASE CheckInvitee(h)
  <2> DEFINE r == [request[h] EXCEPT !.checked = TRUE]
  <2>1. request[h] \in InviteRequest
    BY <1>3, <1>t, RequestKinds DEF CheckInvitee, Serves
  <2>2. r \in InviteRequest  BY <2>1 DEF InviteRequest
  <2>3. r \in Request /\ r.op = "invite"  BY <2>2 DEF Request, InviteRequest
  <2>4. Checked(h, r)  BY <1>3 DEF CheckInvitee
  <2> QED  BY <2>3, <2>4, CheckedKeeps
<1>4. CASE FindPending(h)
  <2> DEFINE r == [request[h] EXCEPT !.checked = TRUE]
  <2>1. request[h] \in AnswerRequest
    BY <1>4, <1>t, RequestKinds DEF FindPending, Serves
  <2>2. r \in AnswerRequest  BY <2>1 DEF AnswerRequest
  <2>3. r \in Request /\ r.op \notin {"transfer", "update", "remove"}
    BY <2>2 DEF Request, AnswerRequest
  <2>4. Checked(h, r)  BY <1>4 DEF FindPending
  <2> QED  BY <2>3, <2>4, CheckedKeeps
<1>5. CASE FindMembership(h)
  <2> DEFINE r == [request[h] EXCEPT
                     !.op = IF request[h].actor \in Members THEN "settle" ELSE "join"]
  <2>1. request[h] \in AnswerRequest
    BY <1>5, <1>t, RequestKinds DEF FindMembership, Serves
  <2>2. r \in AnswerRequest  BY <2>1 DEF AnswerRequest
  <2>3. r \in Request /\ r.op \notin {"transfer", "update", "remove"}
    BY <2>2 DEF Request, AnswerRequest
  <2>4. Checked(h, r)  BY <1>5 DEF FindMembership
  <2> QED  BY <2>3, <2>4, CheckedKeeps
<1>6. CASE FindOlder(h)
  <2>1. PICK r \in TransitionRequest : Checked(h, r)
    BY <1>6, <1>t, BegunRequest
  <2>2. r \in Request /\ r.op \notin {"transfer", "update", "remove"}
    BY <2>1 DEF Request, TransitionRequest
  <2> QED  BY <2>1, <2>2, CheckedKeeps
<1>7. CASE Refuse(h)
  BY <1>7, CheckedKeeps DEF Refuse
<1> QED  BY <1>1, <1>2, <1>3, <1>4, <1>5, <1>6, <1>7

(***************************************************************************)
(* Transactions.  A handler that is done serves nothing, and rows keep     *)
(* their identifiers while they exist.                                     *)
(***************************************************************************)
IdsKept ==
  \A u \in User : member'[u] # Absent => member[u] # Absent /\ member'[u].id = member[u].id

(* What is left of the requests after one of them has been answered. *)
LEMMA AnsweredKeeps ==
  ASSUME AccessInv, NEW h \in Handler, Become(h, Absent),
         joined' = joined \/ joined' = joined + 1,
         \A u \in User : \A n \in Nat :
            n < joined /\ member'[u] # Absent /\ member'[u].id = n
              => member[u] # Absent /\ member[u].id = n
  PROVE  TransfersNameTwo' /\ ChecksSpareOwners'
<1> USE DEF Become
<1>1. joined \in Nat  BY DEF AccessInv, TypeOK
<1>2. \A n \in Nat : n < joined => Holders(n)' \subseteq Holders(n)
  BY DEF Holders, Members
<1>3. \A k \in Handler : request'[k] # Absent => k # h /\ request'[k] = request[k]
  BY DEF AccessInv, TypeOK
<1>4. TransfersNameTwo'
  <2> SUFFICES ASSUME NEW k \in Handler, request'[k] # Absent, request'[k].op = "transfer"
               PROVE  TransferNamesTwo(request[k])'
    BY DEF TransfersNameTwo
  <2>1. request'[k] = request[k]  BY <1>3
  <2>2. TransferNamesTwo(request[k])  BY <2>1 DEF AccessInv, TransfersNameTwo
  <2>3. request[k].callerId \in Nat
    <3>1. TypeOK /\ request[k] # Absent /\ request[k].op = "transfer"
      BY <2>1 DEF AccessInv
    <3>2. request[k].checked \in BOOLEAN
      BY <3>1 DEF TypeOK, Request, UpdateRequest, RemoveRequest, TransferRequest,
                  CheckedTransfer, InviteRequest, AnswerRequest, TransitionRequest,
                  DeleteRequest, LeaveRequest
    <3>3. request[k] \in TransferRequest \/ request[k] \in CheckedTransfer
      BY <3>1, <3>2, RequestKinds
    <3> QED  BY <3>3 DEF TransferRequest, CheckedTransfer
  <2>4. Holders(request[k].callerId)' \subseteq Holders(request[k].callerId)
    <3>1. request[k].callerId < joined  BY <2>2 DEF TransferNamesTwo
    <3> QED  BY <2>1, <2>3, <3>1, <1>2
  <2> QED  BY <1>1, <2>1, <2>2, <2>3, <2>4 DEF TransferNamesTwo
<1>5. ChecksSpareOwners'
  BY <1>3 DEF AccessInv, ChecksSpareOwners, Serves
<1> QED  BY <1>4, <1>5

(* A transaction that makes no member and only changes or drops rows. *)
LEMMA RowsKeep ==
  ASSUME AccessInv, NEW h \in Handler, Become(h, Absent), IdsKept, joined' = joined
  PROVE  RowsNameMembers' /\ TransfersNameTwo' /\ ChecksSpareOwners'
<1>1. RowsNameMembers'
  BY DEF AccessInv, RowsNameMembers, Members, IdsKept
<1>2. TransfersNameTwo' /\ ChecksSpareOwners'
  BY AnsweredKeeps DEF IdsKept
<1> QED  BY <1>1, <1>2

(* The request of a handler that is done. *)
LEMMA DoneTyped ==
  ASSUME TypeOK, NEW h \in Handler, Become(h, Absent)
  PROVE  request' \in [Handler -> Request \cup {Absent}] /\ made' \in Nat
  BY DEF TypeOK, Become

LEMMA UpdateKeeps ==
  ASSUME AccessInv, NEW h \in Handler, UpdateRole(h)
  PROVE  AccessInv'
<1> USE AccessAbsent
<1>t. TypeOK  BY DEF AccessInv
<1>1. PICK u \in Holders(request[h].id) :
        /\ member' = [member EXCEPT ![u].role = request[h].role]
        /\ overtaken' = (overtaken \/ Overtakes(member[u].role, request[h].seen))
  BY DEF UpdateRole
<1>2. u \in User /\ member[u] \in Membership  BY <1>t DEF Holders, Members, TypeOK
<1>3. request[h] \in UpdateRequest  BY <1>t, RequestKinds DEF UpdateRole, Serves
<1>4. request[h].role \in {"EDITOR", "VIEWER"}  BY <1>3, GrantedAssumption DEF UpdateRequest
<1>5. request[h].seen # "OWNER"  BY DEF AccessInv, ChecksSpareOwners, UpdateRole, Serves
<1>6. Become(h, Absent) /\ UNCHANGED <<account, invite, exists, joined, issued, admitted, overruled, overlapped>>
  BY DEF UpdateRole
<1>7. member'[u] = [member[u] EXCEPT !.role = request[h].role]
      /\ \A v \in User \ {u} : member'[v] = member[v]
  BY <1>1, <1>2, <1>t DEF TypeOK
<1>8. member'[u] \in Membership  BY <1>2, <1>4, <1>7
<1>9. TypeOK'
  <2>1. member' \in [User -> Membership \cup {Absent}]
    BY <1>1, <1>7, <1>8, <1>t DEF TypeOK
  <2>2. overtaken' \in BOOLEAN  BY <1>1, <1>t DEF TypeOK, Overtakes
  <2>3. request' \in [Handler -> Request \cup {Absent}] /\ made' \in Nat
    BY <1>6, <1>t, DoneTyped
  <2> QED  BY <2>1, <2>2, <2>3, <1>6, <1>t DEF TypeOK
<1>10. IdsKept  BY <1>2, <1>7 DEF IdsKept
<1>11. OneOwner'
  <2> SUFFICES ASSUME exists', ~overtaken'  PROVE \E v \in User : Owners' = {v}
    BY DEF OneOwner
  <2>1. member[u].role # "OWNER"  BY <1>1, <1>5 DEF Overtakes
  <2>2. Owners' = Owners
    BY <2>1, <1>2, <1>4, <1>7, <1>8 DEF Owners, Members
  <2>3. exists /\ ~overtaken  BY <1>1, <1>6
  <2> QED  BY <2>2, <2>3 DEF AccessInv, OneOwner
<1> QED  BY <1>6, <1>9, <1>10, <1>11, RowsKeep DEF AccessInv

LEMMA RemoveKeeps ==
  ASSUME AccessInv, NEW h \in Handler, Remove(h)
  PROVE  AccessInv'
<1> USE AccessAbsent
<1>t. TypeOK  BY DEF AccessInv
<1>1. PICK u \in Holders(request[h].id) :
        /\ member' = [member EXCEPT ![u] = Absent]
        /\ overtaken' = (overtaken \/ Overtakes(member[u].role, request[h].seen))
  BY DEF Remove
<1>2. u \in User  BY DEF Holders, Members
<1>3. request[h].seen # "OWNER"  BY DEF AccessInv, ChecksSpareOwners, Remove, Serves
<1>4. Become(h, Absent) /\ UNCHANGED <<account, invite, exists, joined, issued, admitted, overruled, overlapped>>
  BY DEF Remove
<1>5. member'[u] = Absent /\ \A v \in User \ {u} : member'[v] = member[v]
  BY <1>1, <1>2, <1>t DEF TypeOK
<1>6. TypeOK'
  <2>1. member' \in [User -> Membership \cup {Absent}]  BY <1>1, <1>t DEF TypeOK
  <2>2. overtaken' \in BOOLEAN  BY <1>1, <1>t DEF TypeOK, Overtakes
  <2>3. request' \in [Handler -> Request \cup {Absent}] /\ made' \in Nat
    BY <1>4, <1>t, DoneTyped
  <2> QED  BY <2>1, <2>2, <2>3, <1>4, <1>t DEF TypeOK
<1>7. IdsKept  BY <1>5 DEF IdsKept
<1>8. OneOwner'
  <2> SUFFICES ASSUME exists', ~overtaken'  PROVE \E v \in User : Owners' = {v}
    BY DEF OneOwner
  <2>1. member[u].role # "OWNER"  BY <1>1, <1>3 DEF Overtakes
  <2>2. Owners' = Owners  BY <2>1, <1>2, <1>5 DEF Owners, Members
  <2>3. exists /\ ~overtaken  BY <1>1, <1>4
  <2> QED  BY <2>2, <2>3 DEF AccessInv, OneOwner
<1> QED  BY <1>4, <1>6, <1>7, <1>8, RowsKeep DEF AccessInv

(* The two rows of a transfer differ, and the caller's is the owner's: the *)
(* role moves from one to the other. *)
LEMMA TransferKeeps ==
  ASSUME AccessInv, NEW h \in Handler, TransferOwnership(h)
  PROVE  AccessInv'
<1> USE AccessAbsent
<1>t. TypeOK  BY DEF AccessInv
<1>1. PICK u \in Holders(request[h].id), c \in Holders(request[h].callerId) :
        /\ member' = [member EXCEPT ![u].role = "OWNER", ![c].role = "EDITOR"]
        /\ overtaken' = (overtaken \/ Overtakes(member[c].role, request[h].seen))
  BY DEF TransferOwnership
<1>2. /\ u \in User /\ member[u] \in Membership
      /\ c \in User /\ member[c] \in Membership
  BY <1>t DEF Holders, Members, TypeOK
<1>3. request[h].seen = "OWNER" /\ request[h].id # request[h].callerId
  BY DEF AccessInv, TransfersNameTwo, TransferNamesTwo, TransferOwnership, Serves
<1>4. u # c  BY <1>3 DEF Holders
<1>5. Become(h, Absent) /\ UNCHANGED <<account, invite, exists, joined, issued, admitted, overruled, overlapped>>
  BY DEF TransferOwnership
<1>6. /\ member'[u] = [member[u] EXCEPT !.role = "OWNER"]
      /\ member'[c] = [member[c] EXCEPT !.role = "EDITOR"]
      /\ \A v \in User \ {u, c} : member'[v] = member[v]
  BY <1>1, <1>2, <1>4, <1>t DEF TypeOK
<1>7. /\ member'[u] \in Membership /\ member'[u].role = "OWNER" /\ member'[u].id = member[u].id
      /\ member'[c] \in Membership /\ member'[c].role = "EDITOR" /\ member'[c].id = member[c].id
  BY <1>2, <1>6
<1>8. TypeOK'
  <2>1. member' \in [User -> Membership \cup {Absent}]
    BY <1>1, <1>6, <1>7, <1>t DEF TypeOK
  <2>2. overtaken' \in BOOLEAN  BY <1>1, <1>t DEF TypeOK, Overtakes
  <2>3. request' \in [Handler -> Request \cup {Absent}] /\ made' \in Nat
    BY <1>5, <1>t, DoneTyped
  <2> QED  BY <2>1, <2>2, <2>3, <1>5, <1>t DEF TypeOK
<1>9. IdsKept  BY <1>2, <1>6, <1>7 DEF IdsKept
<1>10. OneOwner'
  <2> SUFFICES ASSUME exists', ~overtaken'  PROVE \E v \in User : Owners' = {v}
    BY DEF OneOwner
  <2>1. member[c].role = "OWNER" /\ exists /\ ~overtaken
    BY <1>1, <1>3, <1>5 DEF Overtakes
  <2>2. c \in Owners  BY <2>1, <1>2 DEF Owners, Members
  <2>3. Owners = {c}  BY <2>1, <2>2 DEF AccessInv, OneOwner
  <2>4. \A v \in User \ {u, c} : v \notin Owners'
    BY <2>3, <1>6 DEF Owners, Members
  <2>5. u \in Owners' /\ c \notin Owners'
    BY <1>2, <1>7 DEF Owners, Members
  <2>6. Owners' = {u}  BY <2>4, <2>5, <1>2 DEF Owners, Members
  <2> QED  BY <2>6, <1>2
<1> QED  BY <1>5, <1>8, <1>9, <1>10, RowsKeep DEF AccessInv

(* Transactions that change no member. *)
LEMMA SameMembersKeep ==
  ASSUME AccessInv, NEW h \in Handler, Become(h, Absent),
         UNCHANGED <<member, exists, joined, overtaken>>
  PROVE  RowsNameMembers' /\ TransfersNameTwo' /\ ChecksSpareOwners' /\ OneOwner'
<1>1. IdsKept  BY DEF IdsKept
<1>2. OneOwner'  BY DEF AccessInv, OneOwner, Owners, Members
<1> QED  BY <1>1, <1>2, RowsKeep

LEMMA CreateInvitationKeeps ==
  ASSUME AccessInv, NEW h \in Handler, CreateInvitation(h)
  PROVE  AccessInv'
<1>t. TypeOK  BY DEF AccessInv
<1>1. Become(h, Absent) /\ UNCHANGED <<account, member, exists, joined, overtaken, admitted, overruled, overlapped>>
  BY DEF CreateInvitation
<1>2. request[h] \in InviteRequest  BY <1>t, RequestKinds DEF CreateInvitation, Serves
<1>3. issued' \in 0..MaxInvites /\ issued' = issued + 1
  BY <1>t, AccessBounds DEF CreateInvitation, TypeOK
<1>4. invite' \in [1..MaxInvites -> Invitation \cup {Absent}]
  <2> DEFINE new == [email |-> request[h].email, by |-> request[h].by,
                     role |-> request[h].role, live |-> TRUE, status |-> "PENDING"]
  <2>1. new \in Invitation  BY <1>2 DEF InviteRequest, Invitation
  <2>2. invite' = [invite EXCEPT ![issued + 1] = new]  BY DEF CreateInvitation
  <2> HIDE DEF new
  <2> QED  BY <2>1, <2>2, <1>t DEF TypeOK
<1>5. request' \in [Handler -> Request \cup {Absent}] /\ made' \in Nat
  BY <1>1, <1>t, DoneTyped
<1>6. TypeOK'  BY <1>1, <1>3, <1>4, <1>5, <1>t DEF TypeOK
<1> QED  BY <1>1, <1>6, SameMembersKeep DEF AccessInv

LEMMA Targets ==
  /\ Target["cancel"] = "CANCELLED" /\ Target["decline"] = "DECLINED"
  /\ Target["settle"] = "ACCEPTED" /\ Target["join"] = "ACCEPTED"
  BY DEF Target

LEMMA TransitionTyped ==
  ASSUME TypeOK, NEW h \in Handler, Serves(h, {"transition"}, TRUE), TransitionStatus(h)
  PROVE  /\ request[h] \in TransitionRequest
         /\ invite[request[h].invite] \in Invitation
         /\ invite' \in [1..MaxInvites -> Invitation \cup {Absent}]
<1> DEFINE i == request[h].invite
           status == Target[request[h].answer]
           older == request[h].older \cap InStatus(i, status)
           new == [invite[i] EXCEPT !.status = status]
<1>1. request[h] \in TransitionRequest  BY RequestKinds DEF Serves
<1>2. status \in {"CANCELLED", "DECLINED", "ACCEPTED"}
  <2>1. request[h].answer \in {"cancel", "decline", "settle", "join"}
    BY <1>1 DEF TransitionRequest
  <2> QED  BY <2>1, Targets
<1>3. invite[i] \in Invitation  BY DEF TransitionStatus, Sent, TypeOK
<1>4. new \in Invitation  BY <1>2, <1>3 DEF Invitation
<1>5. invite' = [j \in 1..MaxInvites |->
                   IF j = i THEN new ELSE IF j \in older THEN Absent ELSE invite[j]]
  BY DEF TransitionStatus
<1> HIDE DEF new, older, i
<1>6. invite' \in [1..MaxInvites -> Invitation \cup {Absent}]
  BY <1>4, <1>5 DEF TypeOK
<1> QED  BY <1>1, <1>3, <1>6 DEF i

LEMMA WithdrawOrSettleKeeps ==
  ASSUME AccessInv, NEW h \in Handler, Withdraw(h) \/ SettleAccepted(h)
  PROVE  AccessInv'
<1>t. TypeOK  BY DEF AccessInv
<1>1. /\ Become(h, Absent)
      /\ UNCHANGED <<account, member, exists, joined, issued, overtaken, admitted, overlapped>>
  BY DEF Withdraw, SettleAccepted
<1>2. Serves(h, {"transition"}, TRUE) /\ TransitionStatus(h)
  BY DEF Withdraw, SettleAccepted, Transitions
<1>3. request[h].invite \in 1..MaxInvites
  BY <1>2, <1>t, TransitionTyped DEF TransitionRequest
<1>4. invite' \in [1..MaxInvites -> Invitation \cup {Absent}]
  BY <1>2, <1>t, TransitionTyped
<1>5. overruled' \subseteq 1..MaxInvites
  BY <1>3, <1>t DEF Withdraw, SettleAccepted, TypeOK
<1>6. request' \in [Handler -> Request \cup {Absent}] /\ made' \in Nat
  BY <1>1, <1>t, DoneTyped
<1>7. TypeOK'  BY <1>1, <1>4, <1>5, <1>6, <1>t DEF TypeOK
<1> QED  BY <1>1, <1>7, SameMembersKeep DEF AccessInv

(* The one step that makes a member: its row gets a fresh identifier, and  *)
(* the role of an invitation is never the owner's. *)
LEMMA AcceptKeeps ==
  ASSUME AccessInv, NEW h \in Handler, AcceptInvitation(h)
  PROVE  AccessInv'
<1> USE AccessAbsent
<1>t. TypeOK  BY DEF AccessInv
<1>0. Serves(h, {"transition"}, TRUE) /\ TransitionStatus(h)
  BY DEF AcceptInvitation, Transitions
<1>1. request[h] \in TransitionRequest  BY <1>0, <1>t, TransitionTyped
<1>2. PICK i \in 1..MaxInvites, u \in User :
        /\ i = request[h].invite
        /\ u \notin Members
        /\ member' = [member EXCEPT ![u] = [id |-> joined, role |-> invite[i].role]]
        /\ admitted' = [admitted EXCEPT ![i] = @ + 1]
        /\ overlapped' = IF \E k \in Handler \ {h} : Joining(k, i)
                         THEN overlapped \cup {i} ELSE overlapped
  BY <1>1 DEF AcceptInvitation, TransitionRequest
<1>3. Become(h, Absent) /\ UNCHANGED <<account, exists, issued, overtaken, overruled>>
      /\ joined' = joined + 1
  BY DEF AcceptInvitation
<1>4. /\ invite[i] \in Invitation
      /\ invite' \in [1..MaxInvites -> Invitation \cup {Absent}]
  BY <1>0, <1>2, <1>t, TransitionTyped
<1>5. invite[i].role \in {"EDITOR", "VIEWER"}  BY <1>4, GrantedAssumption DEF Invitation
<1>6. joined \in Nat  BY <1>t DEF TypeOK
<1>7. /\ member[u] = Absent
      /\ member'[u] = [id |-> joined, role |-> invite[i].role]
      /\ \A v \in User \ {u} : member'[v] = member[v]
  BY <1>2, <1>t DEF TypeOK, Members
<1>8. member'[u] \in Membership /\ member'[u].id = joined /\ member'[u].role # "OWNER"
  BY <1>5, <1>6, <1>7
<1>9. TypeOK'
  <2>1. member' \in [User -> Membership \cup {Absent}]
    BY <1>2, <1>7, <1>8, <1>t DEF TypeOK
  <2>2. admitted' \in [1..MaxInvites -> Nat]  BY <1>2, <1>t DEF TypeOK
  <2>4. overlapped' \subseteq 1..MaxInvites
    <3>1. overlapped \subseteq 1..MaxInvites  BY <1>t DEF TypeOK
    <3>2. overlapped' \subseteq overlapped \cup {i}  BY <1>2
    <3> QED  BY <3>1, <3>2, <1>2
  <2>3. request' \in [Handler -> Request \cup {Absent}] /\ made' \in Nat
    BY <1>3, <1>t, DoneTyped
  <2> QED  BY <2>1, <2>2, <2>3, <2>4, <1>3, <1>4, <1>6, <1>t DEF TypeOK
<1>10. \A v \in Members : member[v].id \in Nat /\ member[v].id < joined
  BY <1>t DEF AccessInv, RowsNameMembers, Members, TypeOK
<1>11. Members' = Members \cup {u}
  BY <1>7, <1>8 DEF Members
<1>12. RowsNameMembers'
  <2>1. \A v \in Members : v # u /\ member'[v] = member[v]
    BY <1>2, <1>7 DEF Members
  <2>2. \A v \in Members' : member'[v].id < joined'
    BY <2>1, <1>3, <1>6, <1>8, <1>10, <1>11
  <2>3. ASSUME NEW v \in Members', NEW w \in Members', member'[v].id = member'[w].id
        PROVE  v = w
    <3>1. CASE v \in Members /\ w \in Members
      BY <3>1, <2>1, <2>3 DEF AccessInv, RowsNameMembers
    <3>2. CASE v = u /\ w \in Members  BY <3>2, <2>1, <2>3, <1>8, <1>10, <1>6
    <3>3. CASE v \in Members /\ w = u  BY <3>3, <2>1, <2>3, <1>8, <1>10, <1>6
    <3> QED  BY <3>1, <3>2, <3>3, <1>11
  <2> QED  BY <2>2, <2>3 DEF RowsNameMembers
<1>13. TransfersNameTwo' /\ ChecksSpareOwners'
  <2>1. \A v \in User : \A n \in Nat :
          n < joined /\ member'[v] # Absent /\ member'[v].id = n
            => member[v] # Absent /\ member[v].id = n
    BY <1>6, <1>7, <1>8
  <2> QED  BY <2>1, <1>3, AnsweredKeeps
<1>14. OneOwner'
  <2>1. Owners' = Owners
    BY <1>2, <1>7, <1>8, <1>11 DEF Owners, Members
  <2> QED  BY <2>1, <1>3 DEF AccessInv, OneOwner
<1> QED  BY <1>9, <1>12, <1>13, <1>14 DEF AccessInv

(* A project that is gone has no members and nothing to own. *)
LEMMA DropKeeps ==
  ASSUME AccessInv, NEW h \in Handler, DropProject, Become(h, Absent),
         account' \in [User -> {"none", "open", "deleted"}],
         UNCHANGED <<joined, issued, overtaken, admitted, overruled, overlapped>>
  PROVE  AccessInv'
<1>t. TypeOK  BY DEF AccessInv
<1>1. IdsKept  BY DEF IdsKept, DropProject
<1>2. TypeOK'
  <2>1. request' \in [Handler -> Request \cup {Absent}] /\ made' \in Nat
    BY <1>t, DoneTyped
  <2>2. /\ member' \in [User -> Membership \cup {Absent}]
        /\ invite' \in [1..MaxInvites -> Invitation \cup {Absent}]
        /\ exists' = FALSE
    BY DEF DropProject
  <2> QED  BY <2>1, <2>2, <1>t DEF TypeOK
<1>3. OneOwner'  BY DEF OneOwner, DropProject
<1> QED  BY <1>1, <1>2, <1>3, RowsKeep DEF AccessInv

LEMMA DeleteProjectKeeps ==
  ASSUME AccessInv, NEW h \in Handler, DeleteProject(h)
  PROVE  AccessInv'
<1>1. account' \in [User -> {"none", "open", "deleted"}]
  BY DEF DeleteProject, AccessInv, TypeOK
<1> QED  BY <1>1, DropKeeps DEF DeleteProject

LEMMA DeleteOwnedKeeps ==
  ASSUME AccessInv, NEW h \in Handler, DeleteOwned(h)
  PROVE  AccessInv'
<1>t. TypeOK  BY DEF AccessInv
<1>1. request[h] \in LeaveRequest  BY <1>t, RequestKinds DEF DeleteOwned, Serves
<1>2. CASE request[h].actor \in Owners
  <2>1. account' \in [User -> {"none", "open", "deleted"}]
    BY <1>2, <1>t DEF DeleteOwned, TypeOK
  <2> QED  BY <1>2, <2>1, DropKeeps DEF DeleteOwned
<1>3. CASE request[h].actor \notin Owners
  <2> DEFINE r == [request[h] EXCEPT !.checked = TRUE]
  <2>1. r \in LeaveRequest  BY <1>1 DEF LeaveRequest
  <2>2. r \in Request /\ r.op = "leave"  BY <2>1 DEF Request, LeaveRequest
  <2>3. Checked(h, r)  BY <1>3 DEF DeleteOwned
  <2> QED  BY <2>2, <2>3, CheckedKeeps
<1> QED  BY <1>2, <1>3

LEMMA DeleteUserKeeps ==
  ASSUME AccessInv, NEW h \in Handler, DeleteUser(h)
  PROVE  AccessInv'
<1>t. TypeOK  BY DEF AccessInv
<1>1. request[h] \in LeaveRequest  BY <1>t, RequestKinds DEF DeleteUser, Serves
<1>2. PICK u \in User :
        /\ account' = [account EXCEPT ![u] = "deleted"]
        /\ member' = [member EXCEPT ![u] = Absent]
        /\ invite' = [i \in 1..MaxInvites |->
                        IF i \in Sent /\ invite[i].by = u THEN Absent ELSE invite[i]]
        /\ overtaken' = (overtaken \/ u \in Owners)
  BY <1>1 DEF DeleteUser, LeaveRequest
<1>3. Become(h, Absent) /\ UNCHANGED <<exists, joined, issued, admitted, overruled, overlapped>>
  BY DEF DeleteUser
<1>4. member'[u] = Absent /\ \A v \in User \ {u} : member'[v] = member[v]
  BY <1>2, <1>t DEF TypeOK
<1>5. TypeOK'
  <2>1. /\ account' \in [User -> {"none", "open", "deleted"}]
        /\ member' \in [User -> Membership \cup {Absent}]
        /\ invite' \in [1..MaxInvites -> Invitation \cup {Absent}]
    BY <1>2, <1>t DEF TypeOK
  <2>2. overtaken' \in BOOLEAN  BY <1>2, <1>t DEF TypeOK
  <2>3. request' \in [Handler -> Request \cup {Absent}] /\ made' \in Nat
    BY <1>3, <1>t, DoneTyped
  <2> QED  BY <2>1, <2>2, <2>3, <1>3, <1>t DEF TypeOK
<1>6. IdsKept  BY <1>4 DEF IdsKept
<1>7. OneOwner'
  <2> SUFFICES ASSUME exists', ~overtaken'  PROVE \E v \in User : Owners' = {v}
    BY DEF OneOwner
  <2>1. u \notin Owners /\ exists /\ ~overtaken  BY <1>2, <1>3
  <2>2. Owners' = Owners  BY <2>1, <1>4 DEF Owners, Members
  <2> QED  BY <2>1, <2>2 DEF AccessInv, OneOwner
<1> QED  BY <1>3, <1>5, <1>6, <1>7, RowsKeep DEF AccessInv

(***************************************************************************)
(* The whole specification.                                                *)
(***************************************************************************)
LEMMA AroundKeeps ==
  ASSUME AccessInv,
         \/ \E i \in 1..MaxInvites : Expire(i)
         \/ \E u \in User : Register(u)
         \/ UNCHANGED vars
  PROVE  AccessInv'
<1>t. TypeOK  BY DEF AccessInv
<1>1. UNCHANGED <<member, exists, request, made, joined, issued, overtaken, admitted, overruled, overlapped>>
  BY DEF Expire, Register, vars
<1>2. TypeOK'
  <2>1. CASE \E i \in 1..MaxInvites : Expire(i)
    <3>1. PICK i \in 1..MaxInvites : Expire(i)  BY <2>1
    <3>2. invite[i] \in Invitation  BY <3>1, <1>t DEF Expire, Sent, TypeOK
    <3>3. [invite[i] EXCEPT !.live = FALSE] \in Invitation  BY <3>2 DEF Invitation
    <3>4. invite' \in [1..MaxInvites -> Invitation \cup {Absent}]
      BY <3>1, <3>3, <1>t DEF Expire, TypeOK
    <3> QED  BY <3>1, <3>4, <1>1, <1>t DEF Expire, TypeOK
  <2>2. CASE \E u \in User : Register(u)
    BY <2>2, <1>1, <1>t DEF Register, TypeOK
  <2>3. CASE UNCHANGED vars  BY <2>3, <1>t DEF vars, TypeOK
  <2> QED  BY <2>1, <2>2, <2>3
<1>3. RowsNameMembers' /\ OneOwner'
  BY <1>1 DEF AccessInv, RowsNameMembers, OneOwner, Owners, Members
<1>4. TransfersNameTwo' /\ ChecksSpareOwners'
  BY <1>1 DEF AccessInv, TransfersNameTwo, TransferNamesTwo, Holders, Members,
              ChecksSpareOwners, Serves
<1> QED  BY <1>2, <1>3, <1>4 DEF AccessInv

LEMMA StepKeeps == AccessInv /\ [Next]_vars => AccessInv'
<1> SUFFICES ASSUME AccessInv, [Next]_vars  PROVE AccessInv'
  OBVIOUS
<1>1. ASSUME NEW h \in Handler, Serve(h)  PROVE AccessInv'
  <2>1. CASE \/ AskUpdateOrRemove(h) \/ AskTransfer(h) \/ AskInvite(h) \/ AskCancel(h)
             \/ AskAnswer(h) \/ AskDelete(h)
    BY <2>1, AsksKeep
  <2>2. CASE \/ FindMember(h) \/ FindNewOwner(h) \/ CheckInvitee(h) \/ FindPending(h)
             \/ FindMembership(h) \/ FindOlder(h) \/ Refuse(h)
    BY <2>2, ChecksKeep
  <2>3. CASE UpdateRole(h)  BY <2>3, UpdateKeeps
  <2>4. CASE Remove(h)  BY <2>4, RemoveKeeps
  <2>5. CASE TransferOwnership(h)  BY <2>5, TransferKeeps
  <2>6. CASE CreateInvitation(h)  BY <2>6, CreateInvitationKeeps
  <2>7. CASE Withdraw(h) \/ SettleAccepted(h)  BY <2>7, WithdrawOrSettleKeeps
  <2>8. CASE AcceptInvitation(h)  BY <2>8, AcceptKeeps
  <2>9. CASE DeleteProject(h)  BY <2>9, DeleteProjectKeeps
  <2>10. CASE DeleteOwned(h)  BY <2>10, DeleteOwnedKeeps
  <2>11. CASE DeleteUser(h)  BY <2>11, DeleteUserKeeps
  <2> QED
    BY <1>1, <2>1, <2>2, <2>3, <2>4, <2>5, <2>6, <2>7, <2>8, <2>9, <2>10, <2>11
       DEF Serve
<1> QED  BY <1>1, AroundKeeps DEF Next

(* The invariant behind the theorems below. *)
THEOREM Invariant == Spec => []AccessInv
<1>1. Init => AccessInv  BY InitHolds
<1>2. AccessInv /\ [Next]_vars => AccessInv'  BY StepKeeps
<1> QED  BY <1>1, <1>2, PTL DEF Spec

(* Members, invitations and the rows that requests carry keep their types. *)
THEOREM AccessTyped == Spec => []TypeOK
<1>1. AccessInv => TypeOK  BY DEF AccessInv
<1> QED  BY <1>1, Invariant, PTL

(* The checks of member.service.ts leave a project with one owner, unless  *)
(* a request commits on a role that changed since it was checked. *)
THEOREM ExactlyOneOwner == Spec => []OneOwner
<1>1. AccessInv => OneOwner  BY DEF AccessInv
<1> QED  BY <1>1, Invariant, PTL

(***************************************************************************)
(* An invitation admits once.  One that has admitted its recipient stays   *)
(* accepted until it is withdrawn or its row is dropped, no later          *)
(* invitation takes its place, and an acceptance that begins after that    *)
(* finds its row among those that are to go.                               *)
(***************************************************************************)
Settled(i) ==
    /\ admitted[i] = 1
    /\ i \in Sent => invite[i].status = "ACCEPTED"
    /\ \A h \in Handler : Joining(h, i) => i \in request[h].older

AdmitHistory ==
    \A i \in 1..MaxInvites : admitted[i] > 0 =>
        /\ i <= issued
        /\ i \notin overruled \cup overlapped => Settled(i)

StatusesKept ==
    \A i \in 1..MaxInvites :
        \/ invite'[i] = Absent
        \/ invite[i] # Absent /\ invite'[i].status = invite[i].status

(* No acceptance begins its transaction. *)
NoneBegins ==
    \A k \in Handler : \A i \in 1..MaxInvites :
        Joining(k, i)' => Joining(k, i) /\ request'[k] = request[k]

LEMMA OthersKept ==
  ASSUME TypeOK, NEW h \in Handler, NEW r, request' = [request EXCEPT ![h] = r],
         r = Absent \/ r.op # "transition"
  PROVE  NoneBegins
<1> SUFFICES ASSUME NEW k \in Handler, NEW i \in 1..MaxInvites, Joining(k, i)'
             PROVE  Joining(k, i) /\ request'[k] = request[k]
  BY DEF NoneBegins
<1>1. k # h  BY DEF Joining, Transitions, Serves, TypeOK
<1>2. request'[k] = request[k]  BY <1>1 DEF TypeOK
<1> QED  BY <1>2 DEF Joining, Transitions, Serves

LEMMA HistoryKept ==
  ASSUME AdmitHistory, StatusesKept, NoneBegins,
         UNCHANGED <<issued, admitted, overruled, overlapped>>
  PROVE  AdmitHistory'
<1> SUFFICES ASSUME NEW i \in 1..MaxInvites, admitted[i] > 0
             PROVE  i <= issued /\ (i \notin overruled \cup overlapped => Settled(i)')
  BY DEF AdmitHistory
<1>1. Settled(i) => Settled(i)'
  <2> SUFFICES ASSUME Settled(i)  PROVE Settled(i)'
    OBVIOUS
  <2>1. i \in Sent' => invite'[i].status = "ACCEPTED"
    BY DEF Settled, StatusesKept, Sent
  <2>2. \A h \in Handler : Joining(h, i)' => i \in request'[h].older
    BY DEF Settled, NoneBegins
  <2> QED  BY <2>1, <2>2 DEF Settled
<1> QED  BY <1>1 DEF AdmitHistory

(* TransitionStatus moves its invitation to another status, or leaves it,  *)
(* and drops rows. *)
LEMMA TransitionMoves ==
  ASSUME TypeOK, NEW h \in Handler, Serves(h, {"transition"}, TRUE), TransitionStatus(h),
         Become(h, Absent), NEW i, i = request[h].invite
  PROVE  /\ i \in Sent
         /\ invite'[i].status = Target[request[h].answer]
         /\ \A j \in 1..MaxInvites \ {i} : invite'[j] = Absent \/ invite'[j] = invite[j]
         /\ invite[i].status = Target[request[h].answer] => i \notin request[h].older
         /\ NoneBegins
<1>1. i \in Sent /\ i \in 1..MaxInvites  BY DEF TransitionStatus, Sent
<1>2. invite[i] \in Invitation  BY <1>1 DEF Sent, TypeOK
<1>3. invite'[i] = [invite[i] EXCEPT !.status = Target[request[h].answer]]
  BY <1>1 DEF TransitionStatus
<1>4. invite'[i].status = Target[request[h].answer]  BY <1>2, <1>3 DEF Invitation
<1>5. \A j \in 1..MaxInvites \ {i} : invite'[j] = Absent \/ invite'[j] = invite[j]
  BY DEF TransitionStatus
<1>6. invite[i].status = Target[request[h].answer] => i \notin request[h].older
  BY <1>1 DEF TransitionStatus, InStatus
<1>7. NoneBegins  BY OthersKept DEF Become
<1> QED  BY <1>1, <1>4, <1>5, <1>6, <1>7

LEMMA CreatedHistory ==
  ASSUME TypeOK, AdmitHistory, NEW h \in Handler, CreateInvitation(h)
  PROVE  AdmitHistory'
<1>1. issued \in Nat /\ issued' = issued + 1 /\ UNCHANGED <<admitted, overruled, overlapped>>
  BY AccessBounds DEF CreateInvitation, TypeOK
<1>2. \A i \in 1..MaxInvites : i # issued + 1 => invite'[i] = invite[i]
  BY DEF CreateInvitation, TypeOK
<1>3. NoneBegins  BY OthersKept DEF CreateInvitation, Become
<1> SUFFICES ASSUME NEW i \in 1..MaxInvites, admitted[i] > 0
             PROVE  i <= issued' /\ (i \notin overruled \cup overlapped => Settled(i)')
  BY <1>1 DEF AdmitHistory
<1>4. i <= issued /\ invite'[i] = invite[i]  BY <1>1, <1>2 DEF AdmitHistory
<1>5. ASSUME Settled(i)  PROVE Settled(i)'
  <2>1. i \in Sent' => invite'[i].status = "ACCEPTED"  BY <1>4, <1>5 DEF Settled, Sent
  <2>2. \A k \in Handler : Joining(k, i)' => i \in request'[k].older
    BY <1>3, <1>5 DEF Settled, NoneBegins
  <2> QED  BY <1>1, <1>5, <2>1, <2>2 DEF Settled
<1> QED  BY <1>1, <1>4, <1>5 DEF AdmitHistory

(* Whoever withdraws an accepted invitation overrules it. *)
LEMMA WithdrawnHistory ==
  ASSUME TypeOK, AdmitHistory, NEW h \in Handler, Withdraw(h)
  PROVE  AdmitHistory'
<1> DEFINE i == request[h].invite
<1>1. Serves(h, {"transition"}, TRUE) /\ TransitionStatus(h) /\ Become(h, Absent)
  BY DEF Withdraw, Transitions
<1>2. overruled' = IF invite[i].status = "ACCEPTED" THEN overruled \cup {i} ELSE overruled
  BY DEF Withdraw
<1>3. UNCHANGED <<issued, admitted, overlapped>>  BY DEF Withdraw
<1>4. /\ i \in Sent
      /\ \A j \in 1..MaxInvites \ {i} : invite'[j] = Absent \/ invite'[j] = invite[j]
      /\ NoneBegins
  BY <1>1, TransitionMoves
<1> HIDE DEF i
<1> SUFFICES ASSUME NEW j \in 1..MaxInvites, admitted[j] > 0
             PROVE  j <= issued /\ (j \notin overruled' \cup overlapped => Settled(j)')
  BY <1>3 DEF AdmitHistory
<1>5. j <= issued /\ (j \notin overruled' \cup overlapped => Settled(j))
  BY <1>2 DEF AdmitHistory
<1>6. ASSUME j \notin overruled' \cup overlapped  PROVE Settled(j)'
  <2>1. Settled(j)  BY <1>5, <1>6
  <2>2. j # i  BY <1>2, <1>4, <1>6, <2>1 DEF Settled
  <2>3. j \in Sent' => invite'[j].status = "ACCEPTED"  BY <1>4, <2>1, <2>2 DEF Settled, Sent
  <2>4. \A k \in Handler : Joining(k, j)' => j \in request'[k].older
    BY <1>4, <2>1 DEF Settled, NoneBegins
  <2> QED  BY <1>3, <2>1, <2>3, <2>4 DEF Settled
<1> QED  BY <1>5, <1>6

LEMMA SettledHistory ==
  ASSUME TypeOK, AdmitHistory, NEW h \in Handler, SettleAccepted(h)
  PROVE  AdmitHistory'
<1> DEFINE i == request[h].invite
<1>1. /\ Serves(h, {"transition"}, TRUE) /\ TransitionStatus(h) /\ Become(h, Absent)
      /\ Target[request[h].answer] = "ACCEPTED"
  BY Targets DEF SettleAccepted, Transitions
<1>2. UNCHANGED <<issued, admitted, overruled, overlapped>>  BY DEF SettleAccepted
<1>3. /\ invite'[i].status = "ACCEPTED"
      /\ \A j \in 1..MaxInvites \ {i} : invite'[j] = Absent \/ invite'[j] = invite[j]
      /\ NoneBegins
  BY <1>1, TransitionMoves
<1> HIDE DEF i
<1> SUFFICES ASSUME NEW j \in 1..MaxInvites, Settled(j)  PROVE Settled(j)'
  BY <1>2 DEF AdmitHistory
<1>4. j \in Sent' => invite'[j].status = "ACCEPTED"  BY <1>3 DEF Settled, Sent
<1>5. \A k \in Handler : Joining(k, j)' => j \in request'[k].older
  BY <1>3 DEF Settled, NoneBegins
<1> QED  BY <1>2, <1>4, <1>5 DEF Settled

(* An invitation that has admitted somebody, and was neither withdrawn nor *)
(* accepted beside another acceptance, is among the rows that this         *)
(* acceptance found, and its update fails: so it has admitted nobody.      *)
LEMMA AcceptedHistory ==
  ASSUME TypeOK, AdmitHistory, NEW h \in Handler, AcceptInvitation(h),
         \A i \in Sent : i <= issued
  PROVE  AdmitHistory'
<1> DEFINE i == request[h].invite
<1>1. /\ Serves(h, {"transition"}, TRUE) /\ TransitionStatus(h) /\ Become(h, Absent)
      /\ Target[request[h].answer] = "ACCEPTED"
  BY Targets DEF AcceptInvitation, Transitions
<1>2. /\ admitted' = [admitted EXCEPT ![i] = @ + 1]
      /\ overlapped' = IF \E k \in Handler \ {h} : Joining(k, i)
                       THEN overlapped \cup {i} ELSE overlapped
  BY DEF AcceptInvitation
<1>3. UNCHANGED <<issued, overruled>>  BY DEF AcceptInvitation
<1>4. /\ i \in Sent
      /\ invite'[i].status = "ACCEPTED"
      /\ \A j \in 1..MaxInvites \ {i} : invite'[j] = Absent \/ invite'[j] = invite[j]
      /\ invite[i].status = "ACCEPTED" => i \notin request[h].older
      /\ NoneBegins
  BY <1>1, TransitionMoves
<1>5. admitted \in [1..MaxInvites -> Nat] /\ i \in 1..MaxInvites  BY <1>4 DEF TypeOK, Sent
<1>6. Joining(h, i)  BY DEF Joining, AcceptInvitation
<1> HIDE DEF i
<1>7. i \notin overruled \cup overlapped => admitted[i] = 0
  BY <1>4, <1>5, <1>6 DEF AdmitHistory, Settled
<1>8. request'[h] = Absent  BY <1>1 DEF Become, TypeOK
<1>9. overlapped \subseteq overlapped'  BY <1>2
<1> SUFFICES ASSUME NEW j \in 1..MaxInvites, admitted'[j] > 0
             PROVE  j <= issued /\ (j \notin overruled \cup overlapped' => Settled(j)')
  BY <1>3 DEF AdmitHistory
<1>10. CASE j = i
  <2>1. j <= issued  BY <1>4, <1>10
  <2>2. ASSUME j \notin overruled \cup overlapped'  PROVE Settled(j)'
    <3>1. admitted'[j] = 1  BY <1>2, <1>5, <1>7, <1>9, <1>10, <2>2
    <3>2. \A k \in Handler \ {h} : ~Joining(k, j)  BY <1>2, <1>10, <2>2
    <3>3. ~Joining(h, j)'  BY <1>8 DEF Joining, Transitions, Serves
    <3>4. \A k \in Handler : ~Joining(k, j)'  BY <1>4, <3>2, <3>3 DEF NoneBegins
    <3> QED  BY <1>4, <1>10, <3>1, <3>4 DEF Settled
  <2> QED  BY <2>1, <2>2
<1>11. CASE j # i
  <2>1. admitted'[j] = admitted[j]  BY <1>2, <1>5, <1>11
  <2>2. j <= issued /\ (j \notin overruled \cup overlapped' => Settled(j))
    BY <1>9, <2>1 DEF AdmitHistory
  <2>3. ASSUME Settled(j)  PROVE Settled(j)'
    <3>1. j \in Sent' => invite'[j].status = "ACCEPTED"
      BY <1>4, <1>11, <2>3 DEF Settled, Sent
    <3>2. \A k \in Handler : Joining(k, j)' => j \in request'[k].older
      BY <1>4, <2>3 DEF Settled, NoneBegins
    <3> QED  BY <2>1, <2>3, <3>1, <3>2 DEF Settled
  <2> QED  BY <2>2, <2>3
<1> QED  BY <1>10, <1>11

(* An acceptance begins: an invitation that has admitted somebody, and is  *)
(* still there, is accepted, and so among the rows it finds.               *)
LEMMA BegunHistory ==
  ASSUME TypeOK, AdmitHistory, NEW h \in Handler, FindOlder(h)
  PROVE  AdmitHistory'
<1>1. PICK r \in TransitionRequest :
        /\ Checked(h, r)
        /\ r.invite \in Sent
        /\ r.older = InStatus(r.invite, Target[r.answer])
  BY BegunRequest
<1>2. /\ request' = [request EXCEPT ![h] = r]
      /\ UNCHANGED <<invite, issued, admitted, overruled, overlapped>>
  BY <1>1 DEF Checked, Become, rows
<1> SUFFICES ASSUME NEW i \in 1..MaxInvites, Settled(i)  PROVE Settled(i)'
  BY <1>2 DEF AdmitHistory
<1>3. ASSUME NEW k \in Handler, Joining(k, i)'  PROVE i \in request'[k].older
  <2>1. CASE k = h
    <3>1. request'[k] = r  BY <1>2, <2>1 DEF TypeOK
    <3>2. r.invite = i /\ r.answer = "join"  BY <1>3, <3>1 DEF Joining, Transitions
    <3>3. i \in InStatus(i, "ACCEPTED")  BY <1>1, <3>2 DEF Settled, InStatus
    <3> QED  BY <1>1, <3>1, <3>2, <3>3, Targets
  <2>2. CASE k # h
    <3>1. request'[k] = request[k]  BY <1>2, <2>2 DEF TypeOK
    <3> QED  BY <1>3, <3>1 DEF Settled, Joining, Transitions, Serves
  <2> QED  BY <2>1, <2>2
<1> QED  BY <1>2, <1>3 DEF Settled, Sent

(* Invitations are numbered by the order of their creation. *)
SentIssued == \A i \in Sent : i <= issued

AdmitInv == AccessInv /\ SentIssued /\ AdmitHistory

LEMMA StatusesKeep ==
  ASSUME AdmitInv, StatusesKept, NoneBegins,
         UNCHANGED <<issued, admitted, overruled, overlapped>>
  PROVE  SentIssued' /\ AdmitHistory'
<1>1. SentIssued'  BY DEF AdmitInv, SentIssued, StatusesKept, Sent
<1> QED  BY <1>1, HistoryKept DEF AdmitInv

(* Requests that are asked and checked begin no transaction. *)
LEMMA AsksBeginNone ==
  ASSUME TypeOK, NEW h \in Handler,
         \/ AskUpdateOrRemove(h) \/ AskTransfer(h) \/ AskInvite(h) \/ AskCancel(h)
         \/ AskAnswer(h) \/ AskDelete(h)
  PROVE  NoneBegins /\ UNCHANGED rows
<1>1. PICK r : Ask(h, r) /\ r.op # "transition"
  <2>1. CASE AskUpdateOrRemove(h)  BY <2>1 DEF AskUpdateOrRemove
  <2>2. CASE AskTransfer(h)  BY <2>2 DEF AskTransfer
  <2>3. CASE AskInvite(h)  BY <2>3 DEF AskInvite
  <2>4. CASE AskCancel(h)  BY <2>4 DEF AskCancel
  <2>5. CASE AskAnswer(h)  BY <2>5 DEF AskAnswer
  <2>6. CASE AskDelete(h)
    <3>1. CASE Ask(h, [op |-> "delete", checked |-> TRUE])  BY <3>1
    <3>2. CASE \E a \in User : Ask(h, [op |-> "leave", checked |-> FALSE, actor |-> a])
      BY <3>2
    <3> QED  BY <2>6, <3>1, <3>2 DEF AskDelete
  <2> QED  BY <2>1, <2>2, <2>3, <2>4, <2>5, <2>6
<1> QED  BY <1>1, OthersKept DEF Ask

LEMMA ChecksBeginNone ==
  ASSUME TypeOK, NEW h \in Handler,
         \/ FindMember(h) \/ FindNewOwner(h) \/ CheckInvitee(h) \/ FindPending(h)
         \/ FindMembership(h) \/ Refuse(h)
  PROVE  NoneBegins /\ UNCHANGED rows
<1>1. PICK r : Checked(h, r) /\ (r = Absent \/ r.op # "transition")
  <2>1. CASE FindMember(h)
    <3>1. PICK u \in Holders(request[h].id) :
            Checked(h, [request[h] EXCEPT !.checked = TRUE, !.seen = member[u].role])
      BY <2>1 DEF FindMember
    <3> DEFINE r == [request[h] EXCEPT !.checked = TRUE, !.seen = member[u].role]
    <3>2. request[h] \in UpdateRequest \cup RemoveRequest
      BY <2>1, RequestKinds DEF FindMember, Serves
    <3>3. r.op = request[h].op /\ request[h].op \in {"update", "remove"}
      BY <3>2 DEF UpdateRequest, RemoveRequest
    <3> HIDE DEF r
    <3>4. Checked(h, r)  BY <3>1 DEF r
    <3> QED  BY <3>3, <3>4
  <2>2. CASE FindNewOwner(h)  BY <2>2 DEF FindNewOwner
  <2>3. CASE CheckInvitee(h)
    <3>1. request[h] \in InviteRequest  BY <2>3, RequestKinds DEF CheckInvitee, Serves
    <3> QED  BY <2>3, <3>1 DEF CheckInvitee, InviteRequest
  <2>4. CASE FindPending(h)
    <3>1. request[h] \in AnswerRequest  BY <2>4, RequestKinds DEF FindPending, Serves
    <3> QED  BY <2>4, <3>1 DEF FindPending, AnswerRequest
  <2>5. CASE FindMembership(h)
    <3>1. request[h] \in AnswerRequest  BY <2>5, RequestKinds DEF FindMembership, Serves
    <3> QED  BY <2>5, <3>1 DEF FindMembership, AnswerRequest
  <2>6. CASE Refuse(h)  BY <2>6 DEF Refuse
  <2> QED  BY <2>1, <2>2, <2>3, <2>4, <2>5, <2>6
<1> QED  BY <1>1, OthersKept DEF Checked, Become

LEMMA AdmitServe ==
  ASSUME AdmitInv, NEW h \in Handler, Serve(h)
  PROVE  SentIssued' /\ AdmitHistory'
<1>t. TypeOK /\ SentIssued /\ AdmitHistory  BY DEF AdmitInv, AccessInv
<1>1. CASE \/ AskUpdateOrRemove(h) \/ AskTransfer(h) \/ AskInvite(h) \/ AskCancel(h)
           \/ AskAnswer(h) \/ AskDelete(h)
  <2>1. NoneBegins /\ UNCHANGED rows  BY <1>1, <1>t, AsksBeginNone
  <2> QED  BY <2>1, StatusesKeep DEF StatusesKept, rows
<1>2. CASE \/ FindMember(h) \/ FindNewOwner(h) \/ CheckInvitee(h) \/ FindPending(h)
           \/ FindMembership(h) \/ Refuse(h)
  <2>1. NoneBegins /\ UNCHANGED rows  BY <1>2, <1>t, ChecksBeginNone
  <2> QED  BY <2>1, StatusesKeep DEF StatusesKept, rows
<1>3. CASE UpdateRole(h) \/ Remove(h) \/ TransferOwnership(h)
  <2>1. NoneBegins
    BY <1>3, <1>t, OthersKept DEF UpdateRole, Remove, TransferOwnership, Become
  <2> QED
    BY <1>3, <2>1, StatusesKeep DEF StatusesKept, UpdateRole, Remove, TransferOwnership
<1>4. CASE DeleteProject(h) \/ DeleteOwned(h) \/ DeleteUser(h)
  <2>1. NoneBegins
    <3>1. CASE Become(h, Absent)  BY <1>t, <3>1, OthersKept DEF Become
    <3>2. CASE DeleteOwned(h) /\ ~Become(h, Absent)
      <4>1. request[h] \in LeaveRequest  BY <1>t, <3>2, RequestKinds DEF DeleteOwned, Serves
      <4>2. Checked(h, [request[h] EXCEPT !.checked = TRUE])  BY <3>2 DEF DeleteOwned
      <4>3. [request[h] EXCEPT !.checked = TRUE].op # "transition"
        BY <4>1 DEF LeaveRequest
      <4> QED  BY <1>t, <4>2, <4>3, OthersKept DEF Checked, Become
    <3> QED  BY <1>4, <3>1, <3>2 DEF DeleteProject, DeleteUser
  <2>2. StatusesKept /\ UNCHANGED <<issued, admitted, overruled, overlapped>>
    BY <1>4 DEF StatusesKept, DeleteProject, DeleteOwned, DeleteUser, DropProject, Checked,
                rows, Sent
  <2> QED  BY <2>1, <2>2, StatusesKeep
<1>5. CASE CreateInvitation(h)
  <2>1. \A i \in 1..MaxInvites : i # issued + 1 => invite'[i] = invite[i]
    BY <1>5, <1>t DEF CreateInvitation, TypeOK
  <2>2. issued \in Nat /\ issued' = issued + 1
    BY <1>5, <1>t, AccessBounds DEF CreateInvitation, TypeOK
  <2>3. SentIssued'  BY <2>1, <2>2, <1>t, AccessBounds DEF SentIssued, Sent
  <2> QED  BY <1>5, <1>t, <2>3, CreatedHistory
<1>6. CASE FindOlder(h)
  <2>1. UNCHANGED <<invite, issued>>  BY <1>6 DEF FindOlder, Begin, Checked, rows
  <2>2. SentIssued'  BY <1>t, <2>1 DEF SentIssued, Sent
  <2> QED  BY <1>6, <1>t, <2>2, BegunHistory
<1>7. CASE Withdraw(h) \/ SettleAccepted(h) \/ AcceptInvitation(h)
  <2>1. AdmitHistory'
    BY <1>7, <1>t, WithdrawnHistory, SettledHistory, AcceptedHistory DEF SentIssued
  <2>2. UNCHANGED issued  BY <1>7 DEF Withdraw, SettleAccepted, AcceptInvitation
  <2>3. Serves(h, {"transition"}, TRUE) /\ TransitionStatus(h) /\ Become(h, Absent)
    BY <1>7 DEF Withdraw, SettleAccepted, AcceptInvitation, Transitions
  <2>4. Sent' \subseteq Sent
    BY <1>t, <2>3, TransitionMoves DEF Sent
  <2>5. SentIssued'  BY <1>t, <2>2, <2>4 DEF SentIssued
  <2> QED  BY <2>1, <2>5
<1> QED  BY <1>1, <1>2, <1>3, <1>4, <1>5, <1>6, <1>7 DEF Serve

LEMMA AdmitStep == AdmitInv /\ [Next]_vars => AdmitInv'
<1> SUFFICES ASSUME AdmitInv, [Next]_vars  PROVE AdmitInv'
  OBVIOUS
<1>1. AccessInv'  BY StepKeeps DEF AdmitInv
<1>2. SentIssued' /\ AdmitHistory'
  <2>1. CASE \E h \in Handler : Serve(h)  BY <2>1, AdmitServe
  <2>s. UNCHANGED request => NoneBegins
    BY DEF NoneBegins, Joining, Transitions, Serves
  <2>2. CASE \E i \in 1..MaxInvites : Expire(i)
    <3>1. PICK i \in 1..MaxInvites : Expire(i)  BY <2>2
    <3>2. invite[i] \in Invitation  BY <3>1 DEF Expire, Sent, AdmitInv, AccessInv, TypeOK
    <3>3. invite'[i].status = invite[i].status /\ i \in Sent
          /\ \A j \in 1..MaxInvites \ {i} : invite'[j] = invite[j]
      BY <3>1, <3>2 DEF Expire, Invitation, AdmitInv, AccessInv, TypeOK
    <3>4. StatusesKept  BY <3>3 DEF StatusesKept, Sent
    <3> QED  BY <2>s, <3>1, <3>4, StatusesKeep DEF Expire
  <2>3. CASE \E u \in User : Register(u)
    BY <2>s, <2>3, StatusesKeep DEF Register, StatusesKept
  <2>4. CASE UNCHANGED vars  BY <2>s, <2>4, StatusesKeep DEF vars, StatusesKept
  <2> QED  BY <2>1, <2>2, <2>3, <2>4 DEF Next
<1> QED  BY <1>1, <1>2 DEF AdmitInv

(* An invitation of invitation.service.ts makes one membership at most,    *)
(* however its acceptances interleave with each other, with removals and   *)
(* with deletions, unless it was cancelled or declined after it had been   *)
(* accepted, or accepted while the transaction of another acceptance had   *)
(* already looked for the rows to drop. *)
THEOREM InvitationAdmitsOnce == Spec => []AdmitsOnce
<1>1. Init => AdmitInv
  <2>1. Init => SentIssued /\ AdmitHistory  BY DEF Init, SentIssued, AdmitHistory, Sent
  <2> QED  BY <2>1, InitHolds DEF AdmitInv
<1>2. AdmitInv /\ [Next]_vars => AdmitInv'  BY AdmitStep
<1>3. AdmitInv => AdmitsOnce
  <2> SUFFICES ASSUME AdmitInv, NEW i \in 1..MaxInvites, admitted[i] > 1
               PROVE  i \in overruled \cup overlapped
    BY DEF AdmitsOnce
  <2>1. admitted[i] \in Nat  BY DEF AdmitInv, AccessInv, TypeOK
  <2> QED  BY <2>1 DEF AdmitInv, AdmitHistory, Settled
<1> QED  BY <1>1, <1>2, <1>3, PTL DEF Spec

(***************************************************************************)
(* How ownership is given up.                                              *)
(***************************************************************************)
HandsOver(h, u) ==
    Serves(h, {"transfer"}, TRUE) /\ request[h].callerId = member[u].id

OwnersGiveUp ==
    \A u \in Owners :
        u \in Owners' \/ ~exists' \/ \E h \in Handler : HandsOver(h, u)

LEMMA OthersSpareOwners ==
  ASSUME AccessInv, NEW h \in Handler, UpdateRole(h) \/ Remove(h), ~overtaken'
  PROVE  Owners \subseteq Owners'
<1>1. request[h].seen # "OWNER"
  BY DEF AccessInv, ChecksSpareOwners, UpdateRole, Remove, Serves
<1>2. PICK v \in Holders(request[h].id) :
        /\ overtaken' = (overtaken \/ Overtakes(member[v].role, request[h].seen))
        /\ \/ member' = [member EXCEPT ![v].role = request[h].role]
           \/ member' = [member EXCEPT ![v] = Absent]
  BY DEF UpdateRole, Remove
<1>3. member[v].role # "OWNER"  BY <1>1, <1>2 DEF Overtakes
<1>4. \A u \in User \ {v} : member'[u] = member[u]  BY <1>2 DEF AccessInv, TypeOK
<1> QED  BY <1>3, <1>4 DEF Owners, Members

LEMMA TransferTakesOne ==
  ASSUME AccessInv, NEW h \in Handler, TransferOwnership(h), NEW u \in Owners
  PROVE  u \in Owners' \/ HandsOver(h, u)
<1>1. PICK w \in Holders(request[h].id), c \in Holders(request[h].callerId) :
        member' = [member EXCEPT ![w].role = "OWNER", ![c].role = "EDITOR"]
  BY DEF TransferOwnership
<1>2. u \in User /\ c \in User /\ w \in User /\ member[c].id = request[h].callerId
  BY DEF Owners, Holders, Members
<1>3. CASE u = c  BY <1>2, <1>3 DEF HandsOver, TransferOwnership
<1>4. CASE u # c
  <2>1. member[u] \in Membership /\ member[u].role = "OWNER"
    BY DEF Owners, Members, AccessInv, TypeOK
  <2>2. member'[u] \in Membership /\ member'[u].role = "OWNER"
    <3>1. CASE u = w
      <4>1. member'[u] = [member[u] EXCEPT !.role = "OWNER"]
        BY <1>1, <1>2, <1>4, <3>1 DEF AccessInv, TypeOK
      <4> QED  BY <4>1, <2>1
    <3>2. CASE u # w
      <4>1. member'[u] = member[u]  BY <1>1, <1>2, <1>4, <3>2 DEF AccessInv, TypeOK
      <4> QED  BY <4>1, <2>1
    <3> QED  BY <3>1, <3>2
  <2> QED  BY <1>2, <2>2, AccessAbsent DEF Owners, Members
<1> QED  BY <1>3, <1>4

LEMMA LeavingTakesProject ==
  ASSUME AccessInv, NEW h \in Handler, DeleteOwned(h) \/ DeleteUser(h), ~overtaken'
  PROVE  Owners \subseteq Owners' \/ ~exists'
<1>1. CASE DeleteOwned(h)
  BY <1>1 DEF DeleteOwned, DropProject, Checked, rows, Owners, Members
<1>2. CASE DeleteUser(h)
  <2>1. request[h].actor \notin Owners  BY <1>2 DEF DeleteUser
  <2>2. \A u \in User : u # request[h].actor => member'[u] = member[u]
    BY <1>2 DEF DeleteUser, AccessInv, TypeOK
  <2> QED  BY <2>1, <2>2 DEF Owners, Members
<1> QED  BY <1>1, <1>2

LEMMA JoiningSparesOwners ==
  ASSUME AccessInv, NEW h \in Handler, AcceptInvitation(h)
  PROVE  Owners \subseteq Owners'
<1>1. /\ request[h].actor \notin Members
      /\ \A u \in User : u # request[h].actor => member'[u] = member[u]
  BY DEF AcceptInvitation, AccessInv, TypeOK
<1> QED  BY <1>1 DEF Owners, Members

(* An owner loses the role by a transfer of their own or with the project, *)
(* never through what others ask for, however requests interleave, as long *)
(* as none commits on a role that changed since it was checked: the two    *)
(* refusals of member.service.ts to touch the owner are enough but for the *)
(* time between check and update.                                          *)
THEOREM OwnersHandOver == Spec => [][~overtaken' => OwnersGiveUp]_vars
<1>1. ASSUME AccessInv, Next, ~overtaken'  PROVE OwnersGiveUp
  <2> SUFFICES ASSUME NEW u \in Owners
               PROVE  u \in Owners' \/ ~exists' \/ \E h \in Handler : HandsOver(h, u)
    BY DEF OwnersGiveUp
  <2>1. CASE UNCHANGED member  BY <2>1 DEF Owners, Members
  <2>2. ASSUME NEW h \in Handler, Serve(h), ~UNCHANGED member
        PROVE  u \in Owners' \/ ~exists' \/ HandsOver(h, u)
    <3>1. CASE UpdateRole(h) \/ Remove(h)  BY <1>1, <3>1, OthersSpareOwners
    <3>2. CASE TransferOwnership(h)  BY <1>1, <3>2, TransferTakesOne
    <3>3. CASE DeleteOwned(h) \/ DeleteUser(h)  BY <1>1, <3>3, LeavingTakesProject
    <3>4. CASE AcceptInvitation(h)  BY <1>1, <3>4, JoiningSparesOwners
    <3>5. CASE DeleteProject(h)  BY <3>5 DEF DeleteProject, DropProject
    <3>6. CASE CreateInvitation(h) \/ Withdraw(h) \/ SettleAccepted(h)
      BY <2>2, <3>6 DEF CreateInvitation, Withdraw, SettleAccepted
    <3>7. CASE \/ AskUpdateOrRemove(h) \/ AskTransfer(h) \/ AskInvite(h) \/ AskCancel(h)
               \/ AskAnswer(h) \/ AskDelete(h)
      BY <2>2, <3>7 DEF AskUpdateOrRemove, AskTransfer, AskInvite, AskCancel, AskAnswer,
                        AskDelete, Ask, rows
    <3>8. CASE \/ FindMember(h) \/ FindNewOwner(h) \/ CheckInvitee(h) \/ FindPending(h)
               \/ FindMembership(h) \/ FindOlder(h) \/ Refuse(h)
      BY <2>2, <3>8 DEF FindMember, FindNewOwner, CheckInvitee, FindPending,
                        FindMembership, FindOlder, Begin, Refuse, Checked, rows
    <3> QED  BY <2>2, <3>1, <3>2, <3>3, <3>4, <3>5, <3>6, <3>7, <3>8 DEF Serve
  <2> QED  BY <1>1, <2>1, <2>2 DEF Next, Expire, Register
<1>2. AccessInv /\ [Next]_vars => [~overtaken' => OwnersGiveUp]_vars
  BY <1>1
<1> QED  BY <1>2, Invariant, PTL DEF Spec
=============================================================================
