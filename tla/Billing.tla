------------------------------ MODULE Billing ------------------------------
(***************************************************************************)
(* The subscription of one person: what Stripe keeps, the events it sends, *)
(* and the row that stripe-webhook.service.ts, stripe-billing.service.ts   *)
(* and admin.service.ts write.  Stripe delivers an event until it has been *)
(* handled; events may come late, again and in another order, and requests *)
(* and events are handled at once.                                         *)
(***************************************************************************)
EXTENDS Naturals, Sequences

CONSTANTS
    MaxSubs,    \* bound: subscriptions ever bought
    MaxEvents,  \* bound: events ever sent
    Desk        \* requests and deliveries handled at once

ASSUME BillBounds == MaxSubs \in Nat /\ MaxEvents \in Nat

VARIABLES
    stripe,     \* Stripe's subscriptions, in the order they were bought
    mail,       \* the events, in the order Stripe sent them
    handled,    \* the events that were handled
    row,        \* subscriptions: the row of the person
    desk,       \* what is being handled
    disturbed   \* history: events came out of order, or two things at once

billVars == <<stripe, mail, handled, row, desk, disturbed>>

Sub == 1..MaxSubs
StripeStatus == {"active", "past_due", "unpaid", "canceled", "some_other"}
StripeSub == [status : StripeStatus, cancel : BOOLEAN]
BillStatus == {"ACTIVE", "PAST_DUE", "UNPAID", "CANCELED", "INCOMPLETE"}
EventKind == {"checkout", "synced", "deleted", "paid", "failed"}

Mail(kind, n, s) == [kind |-> kind, sub |-> n, status |-> s.status, cancel |-> s.cancel]
NoSub == 0
AtRest == [op |-> "rest"]

BillInit ==
    /\ stripe = <<>>
    /\ mail = <<>>
    /\ handled = {}
    /\ row = [plan |-> "FREE", status |-> "ACTIVE", sub |-> NoSub, cancel |-> FALSE,
              comp |-> FALSE]
    /\ desk = [d \in Desk |-> AtRest]
    /\ disturbed = FALSE

(***************************************************************************)
(* Stripe.                                                                 *)
(***************************************************************************)
Bought == {n \in DOMAIN stripe : stripe[n].status # "canceled"}

Sends(events) ==
    /\ Len(mail) + Len(events) <= MaxEvents
    /\ mail' = mail \o events

(* A checkout is paid.  createCheckoutSession does not ask whether there   *)
(* is a subscription already; two at once are a disturbance here.          *)
PayCheckout ==
    LET n == Len(stripe) + 1
        s == [status |-> "active", cancel |-> FALSE] IN
    /\ n \in Sub
    /\ stripe' = Append(stripe, s)
    /\ Sends(<<Mail("synced", n, s), Mail("paid", n, s), Mail("checkout", n, s)>>)
    /\ disturbed' = (disturbed \/ Bought # {})
    /\ UNCHANGED <<handled, row, desk>>

(* A payment fails, is given up or is made; the invoice's event is first.  *)
ChangeStatus(n, status) ==
    LET s == [stripe[n] EXCEPT !.status = status] IN
    /\ n \in Bought
    /\ stripe[n].status # status
    /\ stripe' = [stripe EXCEPT ![n] = s]
    /\ Sends((IF status = "active" THEN <<Mail("paid", n, s)>>
              ELSE IF status = "past_due" THEN <<Mail("failed", n, s)>> ELSE <<>>)
             \o <<Mail("synced", n, s)>>)
    /\ UNCHANGED <<handled, row, desk, disturbed>>

EndSubscription(n) ==
    LET s == [stripe[n] EXCEPT !.status = "canceled"] IN
    /\ n \in Bought
    /\ stripe' = [stripe EXCEPT ![n] = s]
    /\ Sends(<<Mail("deleted", n, s)>>)
    /\ UNCHANGED <<handled, row, desk, disturbed>>

(***************************************************************************)
(* The webhook.                                                            *)
(***************************************************************************)
(* Mutation: a status that is not known counts as paid. *)
MapUnknownToActive(status) ==
    CASE status = "past_due" -> "PAST_DUE"
      [] status = "unpaid" -> "UNPAID"
      [] status = "canceled" -> "CANCELED"
      [] OTHER -> "ACTIVE"

MapStripeStatus(status) ==
    CASE status = "active" -> "ACTIVE"
      [] status = "past_due" -> "PAST_DUE"
      [] status = "unpaid" -> "UNPAID"
      [] status = "canceled" -> "CANCELED"
      [] OTHER -> "INCOMPLETE"

SyncSubscription(n, s) ==
    row' = [row EXCEPT !.plan = "PRO", !.status = MapStripeStatus(s.status),
                       !.sub = n, !.cancel = s.cancel]

OnSubscriptionDeleted ==
    row' = [row EXCEPT !.plan = "FREE", !.status = "CANCELED", !.sub = NoSub]

OnInvoiceStatusChange(n, status) ==
    row' = IF row.sub = n THEN [row EXCEPT !.status = status] ELSE row

(* Later events were handled before, or earlier ones were not. *)
OutOfOrder(i) ==
    \/ \E j \in handled : j > i
    \/ \E j \in 1..(i - 1) : j \notin handled

Busy == \E d \in Desk : desk[d] # AtRest

(* The last event of the only subscription says all there is to say. *)
Heals(i) ==
    /\ i = Len(mail)
    /\ mail[i].kind = "synced"
    /\ Bought = {mail[i].sub}
    /\ ~Busy
    /\ ~row.comp

Dispatch(i) ==
    LET e == mail[i] IN
    /\ e.kind # "checkout"
    /\ CASE e.kind = "synced" -> SyncSubscription(e.sub, e)
         [] e.kind = "deleted" -> OnSubscriptionDeleted
         [] e.kind = "paid" -> OnInvoiceStatusChange(e.sub, "ACTIVE")
         [] e.kind = "failed" -> OnInvoiceStatusChange(e.sub, "PAST_DUE")
    /\ handled' = handled \cup {i}
    /\ disturbed' = (~Heals(i) /\ (disturbed \/ OutOfOrder(i) \/ Busy))
    /\ UNCHANGED <<stripe, mail, desk>>

(* A completed checkout asks Stripe for the subscription as it is now ... *)
RetrieveSubscription(d, i) ==
    /\ desk[d] = AtRest
    /\ mail[i].kind = "checkout"
    /\ desk' = [desk EXCEPT ![d] = [op |-> "checkout", event |-> i, sub |-> mail[i].sub,
                                    seen |-> stripe[mail[i].sub]]]
    /\ disturbed' = (disturbed \/ OutOfOrder(i) \/ Busy)
    /\ UNCHANGED <<stripe, mail, handled, row>>

(* ... and syncs what it was told. *)
OnCheckoutCompleted(d) ==
    /\ desk[d].op = "checkout"
    /\ SyncSubscription(desk[d].sub, desk[d].seen)
    /\ handled' = handled \cup {desk[d].event}
    /\ desk' = [desk EXCEPT ![d] = AtRest]
    /\ disturbed' = (disturbed \/ \E j \in handled : j > desk[d].event)
    /\ UNCHANGED <<stripe, mail>>

(***************************************************************************)
(* Requests.                                                               *)
(***************************************************************************)
(* cancelSubscription and resumeSubscription: Stripe is told ... *)
SetAtStripe(d, cancel) ==
    /\ desk[d] = AtRest
    /\ row.sub \in Bought
    /\ IF cancel THEN ~row.comp ELSE row.cancel
    /\ LET n == row.sub
           s == [stripe[n] EXCEPT !.cancel = cancel] IN
       /\ stripe' = [stripe EXCEPT ![n] = s]
       /\ IF s = stripe[n] THEN UNCHANGED mail ELSE Sends(<<Mail("synced", n, s)>>)
    /\ desk' = [desk EXCEPT ![d] = [op |-> "mirror", cancel |-> cancel]]
    /\ disturbed' = (disturbed \/ Busy)
    /\ UNCHANGED <<handled, row>>

(* ... and the row follows, whatever it holds by then. *)
MirrorCancel(d) ==
    /\ desk[d].op = "mirror"
    /\ row' = [row EXCEPT !.cancel = desk[d].cancel]
    /\ desk' = [desk EXCEPT ![d] = AtRest]
    /\ UNCHANGED <<stripe, mail, handled, disturbed>>

(* A failure; Stripe sends an event again that was not handled. *)
FailDesk(d) ==
    /\ desk[d] # AtRest
    /\ desk' = [desk EXCEPT ![d] = AtRest]
    /\ UNCHANGED <<stripe, mail, handled, row, disturbed>>

AssignComp ==
    /\ \E plan \in {"PRO", "TEAM"} :
         row' = [row EXCEPT !.plan = plan, !.status = "ACTIVE", !.comp = TRUE]
    /\ UNCHANGED <<stripe, mail, handled, desk>>
    /\ disturbed' = TRUE

RevokeComp ==
    /\ row.comp
    /\ row' = [row EXCEPT !.plan = "FREE", !.status = "ACTIVE", !.comp = FALSE]
    /\ UNCHANGED <<stripe, mail, handled, desk, disturbed>>

BillNext ==
    \/ PayCheckout
    \/ AssignComp
    \/ RevokeComp
    \/ \E n \in DOMAIN stripe :
         \/ EndSubscription(n)
         \/ \E status \in StripeStatus \ {"canceled"} : ChangeStatus(n, status)
    \/ \E i \in DOMAIN mail : Dispatch(i)
    \/ \E d \in Desk :
         \/ \E i \in DOMAIN mail : RetrieveSubscription(d, i)
         \/ OnCheckoutCompleted(d)
         \/ \E cancel \in BOOLEAN : SetAtStripe(d, cancel)
         \/ MirrorCancel(d)
         \/ FailDesk(d)

BillSpec == BillInit /\ [][BillNext]_billVars

(***************************************************************************)
(* Properties.                                                             *)
(***************************************************************************)
BillTypeOK ==
    /\ stripe \in Seq(StripeSub)
    /\ Len(stripe) <= MaxSubs
    /\ mail \in Seq([kind : EventKind, sub : Sub, status : StripeStatus, cancel : BOOLEAN])
    /\ Len(mail) <= MaxEvents
    /\ handled \subseteq DOMAIN mail
    /\ row \in [plan : {"FREE", "PRO", "TEAM"}, status : BillStatus,
                sub : Sub \cup {NoSub}, cancel : BOOLEAN, comp : BOOLEAN]
    /\ row.sub \in DOMAIN stripe \cup {NoSub}
    /\ row.sub = NoSub /\ ~row.comp => row.plan = "FREE"
    /\ disturbed \in BOOLEAN

PaidStatuses == {"ACTIVE", "PAST_DUE"}

EffectivePlan ==
    IF row.comp \/ row.status \in PaidStatuses THEN row.plan ELSE "FREE"

(* Once every event was handled, and either all came in the order they     *)
(* were sent and one at a time or the last one came last, the row names    *)
(* the subscription that is bought and its cancellation, and the limits    *)
(* that apply are those of a paid plan just while Stripe is paid or still  *)
(* tries.  Requests that cancel or resume, failures and deliveries of the  *)
(* last event once more do not part the two.                               *)
RowFollowsStripe ==
    disturbed \/ Busy \/ handled # DOMAIN mail \/
        /\ \A n \in Bought : row.sub = n /\ row.cancel = stripe[n].cancel
        /\ EffectivePlan =
             IF \E n \in Bought : stripe[n].status \in {"active", "past_due"}
             THEN "PRO" ELSE "FREE"
=============================================================================
