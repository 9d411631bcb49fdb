------------------------------- MODULE Access -------------------------------
(***************************************************************************)
(* Who belongs to a project: its members and invitations, as the routes of *)
(* member.service.ts and invitation.service.ts change them, with the       *)
(* registration and the deletion of the project or of an account.          *)
(*                                                                         *)
(* A request holds no lock between its steps: its guard, its reads and its *)
(* transaction are separate steps, and requests interleave at each.  A     *)
(* transaction is one step when it writes rows by their key, after locking *)
(* them; the one of transitionStatus selects rows first, by what has been  *)
(* committed when it begins, and is two.  A refusal of the plan, or a      *)
(* failure, may end any request.                                           *)
(***************************************************************************)
EXTENDS Integers, FiniteSets

CONSTANTS
    User,           \* people; a person's e-mail address is the person
    Founder,        \* who created the project
    Granted,        \* the roles that a body may name
    Handler,        \* requests the backend may serve at once
    MaxRequests,    \* bound: requests ever made
    MaxInvites,     \* bound: invitations ever created
    Absent

ASSUME FounderAssumption == Founder \in User
ASSUME GrantedAssumption == Granted \subseteq {"EDITOR", "VIEWER"}
ASSUME AccessAbsent == Absent \notin [id : Nat, role : {"OWNER", "EDITOR", "VIEWER"}]
ASSUME AccessBounds == MaxRequests \in Nat /\ MaxInvites \in Nat

VARIABLES
    account,    \* users: none, open or deleted
    member,     \* project_members: the row of each user, or Absent
    invite,     \* project_invitations, by the order of their creation
    exists,     \* projects: the project's own row is there
    request,    \* what each handler serves, or Absent
    made,       \* bound: requests made so far
    joined,     \* memberships created so far: the identifier of the next row
    issued,     \* invitations created so far
    overtaken,  \* history: a request committed on a role that had changed
    admitted,   \* history: per invitation, the memberships it gave
    overruled,  \* history: accepted invitations cancelled or declined later
    overlapped  \* history: invitations accepted while the transaction of
                \* another acceptance of theirs had begun

vars == <<account, member, invite, exists, request, made, joined, issued,
          overtaken, admitted, overruled, overlapped>>
rows == <<account, member, invite, exists, joined, issued, overtaken, admitted,
          overruled, overlapped>>

Role == {"OWNER", "EDITOR", "VIEWER"}
Membership == [id : Nat, role : Role]
Invitation == [email : User, by : User, role : Granted, live : BOOLEAN,
               status : {"PENDING", "ACCEPTED", "DECLINED", "CANCELLED"}]

Members == {u \in User : member[u] # Absent}
Owners == {u \in Members : member[u].role = "OWNER"}
Holders(id) == {u \in Members : member[u].id = id}
Sent == {i \in 1..MaxInvites : invite[i] # Absent}
Pending(u) == {i \in Sent : invite[i].email = u /\ invite[i].status = "PENDING"}

Init ==
    /\ account = [u \in User |-> IF u = Founder THEN "open" ELSE "none"]
    /\ member = [u \in User |-> IF u = Founder
                                THEN [id |-> 0, role |-> "OWNER"] ELSE Absent]
    /\ invite = [i \in 1..MaxInvites |-> Absent]
    /\ exists = TRUE
    /\ request = [h \in Handler |-> Absent]
    /\ made = 0
    /\ joined = 1
    /\ issued = 0
    /\ overtaken = FALSE
    /\ admitted = [i \in 1..MaxInvites |-> 0]
    /\ overruled = {}
    /\ overlapped = {}

(***************************************************************************)
(* Requests, and the rows they have read: seen is a role as a guard or a   *)
(* check found it.                                                         *)
(***************************************************************************)
UpdateRequest ==
    [op : {"update"}, checked : BOOLEAN, id : Nat, role : Granted,
     seen : Role \cup {Absent}]
RemoveRequest ==
    [op : {"remove"}, checked : BOOLEAN, id : Nat, role : {Absent},
     seen : Role \cup {Absent}]
TransferRequest ==
    [op : {"transfer"}, checked : {FALSE}, to : User, caller : User,
     callerId : Nat, seen : Role]
CheckedTransfer ==
    [op : {"transfer"}, checked : {TRUE}, id : Nat, callerId : Nat, seen : Role]
InviteRequest ==
    [op : {"invite"}, checked : BOOLEAN, email : User, by : User, role : Granted]
AnswerRequest ==
    [op : {"cancel", "decline", "accept", "settle", "join"}, checked : BOOLEAN,
     invite : 1..MaxInvites, actor : User]
TransitionRequest ==
    [op : {"transition"}, checked : {TRUE}, answer : {"cancel", "decline", "settle", "join"},
     invite : 1..MaxInvites, actor : User, older : SUBSET (1..MaxInvites)]
DeleteRequest ==
    [op : {"delete"}, checked : {TRUE}]
LeaveRequest ==
    [op : {"leave"}, checked : BOOLEAN, actor : User]

Request == UpdateRequest \cup RemoveRequest \cup TransferRequest \cup CheckedTransfer
    \cup InviteRequest \cup AnswerRequest \cup TransitionRequest \cup DeleteRequest
    \cup LeaveRequest

(* The guard of a route with projectRole "OWNER" has let its caller pass. *)
OwnerGuard(u) == u \in Members /\ member[u].role = "OWNER"

Ask(h, r) ==
    /\ request[h] = Absent
    /\ made < MaxRequests
    /\ made' = made + 1
    /\ request' = [request EXCEPT ![h] = r]
    /\ UNCHANGED rows

AskUpdateOrRemove(h) ==
    \E a \in User, u \in Members, op \in {"update", "remove"} :
        \E role \in IF op = "update" THEN Granted ELSE {Absent} :
            /\ OwnerGuard(a)
            /\ Ask(h, [op |-> op, checked |-> FALSE, id |-> member[u].id,
                       role |-> role, seen |-> Absent])

AskTransfer(h) ==
    \E a, u \in User :
        /\ OwnerGuard(a)
        /\ u # a
        /\ Ask(h, [op |-> "transfer", checked |-> FALSE, to |-> u, caller |-> a,
                   callerId |-> member[a].id, seen |-> member[a].role])

AskInvite(h) ==
    \E a, u \in User, role \in Granted :
        /\ OwnerGuard(a)
        /\ u # a
        /\ Ask(h, [op |-> "invite", checked |-> FALSE, email |-> u, by |-> a,
                   role |-> role])

AskCancel(h) ==
    \E a \in User, i \in Sent :
        /\ OwnerGuard(a)
        /\ Ask(h, [op |-> "cancel", checked |-> FALSE, invite |-> i, actor |-> a])

(* A recipient follows the link; only theirs passes verifyRecipient.  At a *)
(* registration with a token, acceptByToken does what accept does.         *)
AskAnswer(h) ==
    \E i \in Sent, op \in {"accept", "decline"} :
        /\ account[invite[i].email] = "open"
        /\ Ask(h, [op |-> op, checked |-> FALSE, invite |-> i,
                   actor |-> invite[i].email])

AskDelete(h) ==
    \/ \E a \in User :
         /\ OwnerGuard(a)
         /\ Ask(h, [op |-> "delete", checked |-> TRUE])
    \/ \E a \in User :
         /\ account[a] = "open"
         /\ Ask(h, [op |-> "leave", checked |-> FALSE, actor |-> a])

Serves(h, ops, checked) ==
    /\ request[h] # Absent
    /\ request[h].op \in ops
    /\ request[h].checked = checked

Become(h, r) ==
    /\ request' = [request EXCEPT ![h] = r]
    /\ UNCHANGED made

Checked(h, r) == Become(h, r) /\ UNCHANGED rows

(* Mutation: the owner is not spared. *)
FindAnyMember(h) ==
    /\ Serves(h, {"update", "remove"}, FALSE)
    /\ \E u \in Holders(request[h].id) :
         Checked(h, [request[h] EXCEPT !.checked = TRUE, !.seen = member[u].role])

(* findMember, and the refusal to touch the owner. *)
FindMember(h) ==
    /\ Serves(h, {"update", "remove"}, FALSE)
    /\ \E u \in Holders(request[h].id) :
         /\ member[u].role # "OWNER"
         /\ Checked(h, [request[h] EXCEPT !.checked = TRUE, !.seen = member[u].role])

FindNewOwner(h) ==
    /\ Serves(h, {"transfer"}, FALSE)
    /\ request[h].to \in Members
    /\ Checked(h, [op |-> "transfer", checked |-> TRUE,
                   id |-> member[request[h].to].id,
                   callerId |-> request[h].callerId, seen |-> request[h].seen])

(* ensureNotMember and ensureNoPendingInvite. *)
CheckInvitee(h) ==
    /\ Serves(h, {"invite"}, FALSE)
    /\ request[h].email \notin Members
    /\ \A i \in Pending(request[h].email) : ~invite[i].live
    /\ Checked(h, [request[h] EXCEPT !.checked = TRUE])

(* findPending; only a cancellation may find an expired invitation.  An    *)
(* acceptance goes on to look for a membership of its user.                *)
FindPending(h) ==
    /\ Serves(h, {"cancel", "decline", "accept"}, FALSE)
    /\ LET i == request[h].invite IN
         /\ invite[i] # Absent
         /\ invite[i].status = "PENDING"
         /\ invite[i].live \/ request[h].op = "cancel"
    /\ Checked(h, [request[h] EXCEPT !.checked = TRUE])

FindMembership(h) ==
    /\ Serves(h, {"accept"}, TRUE)
    /\ Checked(h, [request[h] EXCEPT
         !.op = IF request[h].actor \in Members THEN "settle" ELSE "join"])

(* Any check that refuses, a plan that refuses, and any failure. *)
Refuse(h) ==
    /\ request[h] # Absent
    /\ Checked(h, Absent)

(***************************************************************************)
(* Transactions.                                                           *)
(***************************************************************************)
Overtakes(role, seen) == (role = "OWNER") # (seen = "OWNER")

UpdateRole(h) ==
    /\ Serves(h, {"update"}, TRUE)
    /\ \E u \in Holders(request[h].id) :
         /\ member' = [member EXCEPT ![u].role = request[h].role]
         /\ overtaken' = (overtaken \/ Overtakes(member[u].role, request[h].seen))
    /\ Become(h, Absent)
    /\ UNCHANGED <<account, invite, exists, joined, issued, admitted, overruled,
                   overlapped>>

Remove(h) ==
    /\ Serves(h, {"remove"}, TRUE)
    /\ \E u \in Holders(request[h].id) :
         /\ member' = [member EXCEPT ![u] = Absent]
         /\ overtaken' = (overtaken \/ Overtakes(member[u].role, request[h].seen))
    /\ Become(h, Absent)
    /\ UNCHANGED <<account, invite, exists, joined, issued, admitted, overruled,
                   overlapped>>

(* Mutation: the caller stays an owner. *)
TransferKeepingCaller(h) ==
    /\ Serves(h, {"transfer"}, TRUE)
    /\ \E u \in Holders(request[h].id), c \in Holders(request[h].callerId) :
         /\ member' = [member EXCEPT ![u].role = "OWNER"]
         /\ overtaken' = (overtaken \/ Overtakes(member[c].role, request[h].seen))
    /\ Become(h, Absent)
    /\ UNCHANGED <<account, invite, exists, joined, issued, admitted, overruled,
                   overlapped>>

TransferOwnership(h) ==
    /\ Serves(h, {"transfer"}, TRUE)
    /\ \E u \in Holders(request[h].id), c \in Holders(request[h].callerId) :
         /\ member' = [member EXCEPT ![u].role = "OWNER", ![c].role = "EDITOR"]
         /\ overtaken' = (overtaken \/ Overtakes(member[c].role, request[h].seen))
    /\ Become(h, Absent)
    /\ UNCHANGED <<account, invite, exists, joined, issued, admitted, overruled,
                   overlapped>>

(* (projectId, email, status) is unique: an expired invitation that nobody *)
(* cancelled is still PENDING, and the insert fails.                       *)
CreateInvitation(h) ==
    /\ Serves(h, {"invite"}, TRUE)
    /\ exists
    /\ account[request[h].by] = "open"
    /\ Pending(request[h].email) = {}
    /\ issued < MaxInvites
    /\ issued' = issued + 1
    /\ invite' = [invite EXCEPT ![issued + 1] =
                    [email |-> request[h].email, by |-> request[h].by,
                     role |-> request[h].role, live |-> TRUE, status |-> "PENDING"]]
    /\ Become(h, Absent)
    /\ UNCHANGED <<account, member, exists, joined, overtaken, admitted, overruled, overlapped>>

(* transitionStatus, first statement: rows of the address that have the    *)
(* status already, as committed now, are to go.                            *)
Target == [cancel |-> "CANCELLED", decline |-> "DECLINED", settle |-> "ACCEPTED",
           join |-> "ACCEPTED"]

InStatus(i, status) ==
    {j \in Sent : invite[j].email = invite[i].email /\ invite[j].status = status}

Begin(h, older) ==
    LET r == request[h] IN
    Checked(h, [op |-> "transition", checked |-> TRUE, answer |-> r.op,
                invite |-> r.invite, actor |-> r.actor, older |-> older])

(* Mutation: the older rows of the status stay. *)
FindNoneOlder(h) ==
    /\ Serves(h, {"cancel", "decline", "settle", "join"}, TRUE)
    /\ request[h].invite \in Sent
    /\ Begin(h, {})

FindOlder(h) ==
    /\ Serves(h, {"cancel", "decline", "settle", "join"}, TRUE)
    /\ request[h].invite \in Sent
    /\ Begin(h, InStatus(request[h].invite, Target[request[h].op]))

(* The rest of the transaction.  The delete has waited for whoever changed *)
(* a row it found, and takes those that still have the status.  The update *)
(* goes by the identifier: it fails when the row is gone, by this delete   *)
(* or another's, or when there is a row of that status that the delete did *)
(* not find; it does not ask which status the row has had.                 *)
Transitions(h, answers) ==
    Serves(h, {"transition"}, TRUE) /\ request[h].answer \in answers

TransitionStatus(h) ==
    LET i == request[h].invite
        status == Target[request[h].answer]
        older == request[h].older \cap InStatus(i, status) IN
    /\ i \in Sent
    /\ i \notin older
    /\ InStatus(i, status) \subseteq older \cup {i}
    /\ invite' = [j \in 1..MaxInvites |->
                    IF j = i THEN [invite[i] EXCEPT !.status = status]
                    ELSE IF j \in older THEN Absent
                    ELSE invite[j]]

Withdraw(h) ==
    /\ Transitions(h, {"cancel", "decline"})
    /\ TransitionStatus(h)
    /\ LET i == request[h].invite IN
         overruled' = IF invite[i].status = "ACCEPTED" THEN overruled \cup {i}
                      ELSE overruled
    /\ Become(h, Absent)
    /\ UNCHANGED <<account, member, exists, joined, issued, overtaken, admitted,
                   overlapped>>

SettleAccepted(h) ==
    /\ Transitions(h, {"settle"})
    /\ TransitionStatus(h)
    /\ Become(h, Absent)
    /\ UNCHANGED <<account, member, exists, joined, issued, overtaken, admitted,
                   overruled, overlapped>>

Joining(h, i) == Transitions(h, {"join"}) /\ request[h].invite = i

AcceptInvitation(h) ==
    /\ Transitions(h, {"join"})
    /\ TransitionStatus(h)
    /\ LET i == request[h].invite
           u == request[h].actor IN
         /\ account[u] = "open"
         /\ u \notin Members
         /\ member' = [member EXCEPT ![u] = [id |-> joined, role |-> invite[i].role]]
         /\ admitted' = [admitted EXCEPT ![i] = @ + 1]
         /\ overlapped' = IF \E k \in Handler \ {h} : Joining(k, i)
                          THEN overlapped \cup {i} ELSE overlapped
    /\ joined' = joined + 1
    /\ Become(h, Absent)
    /\ UNCHANGED <<account, exists, issued, overtaken, overruled>>

(* Members and invitations go with their project. *)
DropProject ==
    /\ exists' = FALSE
    /\ member' = [u \in User |-> Absent]
    /\ invite' = [i \in 1..MaxInvites |-> Absent]

DeleteProject(h) ==
    /\ Serves(h, {"delete"}, TRUE)
    /\ exists
    /\ DropProject
    /\ Become(h, Absent)
    /\ UNCHANGED <<account, joined, issued, overtaken, admitted, overruled, overlapped>>

(* deleteAccount: the first statement of its transaction deletes the       *)
(* projects the user owns at that moment, the second the user's row and,   *)
(* with it, their membership and the invitations they sent.                *)
DeleteOwned(h) ==
    /\ Serves(h, {"leave"}, FALSE)
    /\ LET u == request[h].actor IN
         IF u \in Owners
         THEN /\ account[u] = "open"
              /\ account' = [account EXCEPT ![u] = "deleted"]
              /\ DropProject
              /\ Become(h, Absent)
              /\ UNCHANGED <<joined, issued, overtaken, admitted, overruled, overlapped>>
         ELSE Checked(h, [request[h] EXCEPT !.checked = TRUE])

DeleteUser(h) ==
    /\ Serves(h, {"leave"}, TRUE)
    /\ LET u == request[h].actor IN
         /\ account[u] = "open"
         /\ account' = [account EXCEPT ![u] = "deleted"]
         /\ member' = [member EXCEPT ![u] = Absent]
         /\ invite' = [i \in 1..MaxInvites |->
                         IF i \in Sent /\ invite[i].by = u THEN Absent ELSE invite[i]]
         /\ overtaken' = (overtaken \/ u \in Owners)
    /\ Become(h, Absent)
    /\ UNCHANGED <<exists, joined, issued, admitted, overruled,
                   overlapped>>

(* Seven days pass, and somebody registers. *)
Expire(i) ==
    /\ i \in Sent
    /\ invite[i].status = "PENDING"
    /\ invite[i].live
    /\ invite' = [invite EXCEPT ![i].live = FALSE]
    /\ UNCHANGED <<account, member, exists, request, made, joined, issued,
                   overtaken, admitted, overruled, overlapped>>

Register(u) ==
    /\ account[u] = "none"
    /\ account' = [account EXCEPT ![u] = "open"]
    /\ UNCHANGED <<member, invite, exists, request, made, joined, issued,
                   overtaken, admitted, overruled, overlapped>>

Serve(h) ==
    \/ AskUpdateOrRemove(h) \/ AskTransfer(h) \/ AskInvite(h) \/ AskCancel(h)
    \/ AskAnswer(h) \/ AskDelete(h)
    \/ FindMember(h) \/ FindNewOwner(h) \/ CheckInvitee(h) \/ FindPending(h)
    \/ FindMembership(h) \/ FindOlder(h) \/ Refuse(h)
    \/ UpdateRole(h) \/ Remove(h) \/ TransferOwnership(h) \/ CreateInvitation(h)
    \/ Withdraw(h) \/ SettleAccepted(h) \/ AcceptInvitation(h)
    \/ DeleteProject(h) \/ DeleteOwned(h) \/ DeleteUser(h)

Next ==
    \/ \E h \in Handler : Serve(h)
    \/ \E i \in 1..MaxInvites : Expire(i)
    \/ \E u \in User : Register(u)

Spec == Init /\ [][Next]_vars

(***************************************************************************)
(* Properties.                                                             *)
(***************************************************************************)
TypeOK ==
    /\ account \in [User -> {"none", "open", "deleted"}]
    /\ member \in [User -> Membership \cup {Absent}]
    /\ invite \in [1..MaxInvites -> Invitation \cup {Absent}]
    /\ exists \in BOOLEAN
    /\ request \in [Handler -> Request \cup {Absent}]
    /\ made \in Nat
    /\ joined \in Nat
    /\ issued \in 0..MaxInvites
    /\ overtaken \in BOOLEAN
    /\ admitted \in [1..MaxInvites -> Nat]
    /\ overruled \subseteq 1..MaxInvites
    /\ overlapped \subseteq 1..MaxInvites

(* A project that exists has one owner, whatever joins, leaves, removals,   *)
(* changes of role, transfers and deletions interleave, unless one of them  *)
(* committed on a role that had changed since it was checked: the checks of *)
(* member.service.ts are enough but for the time between check and update.  *)
OneOwner == exists /\ ~overtaken => \E u \in User : Owners = {u}

(* An invitation lets its recipient in once: an acceptance that read it as  *)
(* pending cannot use it after another has, though its member be removed    *)
(* between them, for the rows transitionStatus drops first then include the *)
(* invitation itself.  Two ways are left to be admitted again: one that was *)
(* accepted is withdrawn after all; and an acceptance looked for the older  *)
(* rows before another committed, found none, and was overtaken by it and   *)
(* by the removal of its member.                                            *)
AdmitsOnce ==
    \A i \in 1..MaxInvites : admitted[i] > 1 => i \in overruled \cup overlapped

(* A row's identifier is never given twice, and a transfer names two rows.  *)
RowsNameMembers ==
    /\ \A u, v \in Members : member[u].id = member[v].id => u = v
    /\ \A u \in Members : member[u].id < joined

TransferNamesTwo(r) ==
    /\ r.callerId < joined
    /\ r.seen = "OWNER"
    /\ IF r.checked THEN r.id # r.callerId
       ELSE r.to # r.caller /\ Holders(r.callerId) \subseteq {r.caller}

TransfersNameTwo ==
    \A h \in Handler :
        request[h] # Absent /\ request[h].op = "transfer" => TransferNamesTwo(request[h])

(* An update or a removal that was checked found somebody who is not owner. *)
ChecksSpareOwners ==
    \A h \in Handler : Serves(h, {"update", "remove"}, TRUE) => request[h].seen # "OWNER"

(* The invariant that the proof of OneOwner rests on: a transfer moves the  *)
(* role between two different rows, and changes of role and removals spare  *)
(* the owner, although each goes by rows that were read before.             *)
AccessInv ==
    TypeOK /\ RowsNameMembers /\ TransfersNameTwo /\ ChecksSpareOwners /\ OneOwner

(* "Cannot remove the project owner" and "Cannot change the owner's role"   *)
(* (member.service.ts:93 and :59): an owner loses the role by handing it    *)
(* over or by deleting project or account, never by the updates of others.  *)
OwnerStays ==
    [][\A h \in Handler :
         request'[h] = Absent /\ Serves(h, {"update", "remove"}, TRUE) =>
            Owners' = Owners]_vars
=============================================================================
