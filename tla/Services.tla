------------------------------ MODULE Services ------------------------------
(***************************************************************************)
(* The services that share no state but the accounts: sign-in sessions,    *)
(* share links, CI tokens, the rate limiter, billing and the limits of     *)
(* plans.  No property relates two of them, so a behaviour runs one,       *)
(* chosen at the start, and the others stay in a state they may start in:  *)
(* the states of the services add up and are not multiplied.               *)
(***************************************************************************)
EXTENDS AuthSessions, ShareLinks, CiTokens, RateLimiter, Billing, PlanLimits

VARIABLE service    \* the service that runs

servicesVars == <<service, authVars, linkVars, ciVars, limitVars, billVars, planVars>>

ServicesInit ==
    /\ service \in {"auth", "links", "ci", "limits", "billing", "plans"}
    /\ AuthInit /\ LinkInit /\ CiInit /\ LimitInit /\ BillInit /\ PlanInit

AuthRuns == service = "auth" /\ AuthNext
    /\ UNCHANGED <<service, linkVars, ciVars, limitVars, billVars, planVars>>
LinksRun == service = "links" /\ LinkNext
    /\ UNCHANGED <<service, authVars, ciVars, limitVars, billVars, planVars>>
CiRuns == service = "ci" /\ CiNext
    /\ UNCHANGED <<service, authVars, linkVars, limitVars, billVars, planVars>>
LimiterRuns == service = "limits" /\ LimitNext
    /\ UNCHANGED <<service, authVars, linkVars, ciVars, billVars, planVars>>
BillingRuns == service = "billing" /\ BillNext
    /\ UNCHANGED <<service, authVars, linkVars, ciVars, limitVars, planVars>>
PlansRun == service = "plans" /\ PlanNext
    /\ UNCHANGED <<service, authVars, linkVars, ciVars, limitVars, billVars>>

ServicesNext ==
    AuthRuns \/ LinksRun \/ CiRuns \/ LimiterRuns \/ BillingRuns \/ PlansRun

ServicesSpec == ServicesInit /\ [][ServicesNext]_servicesVars

(* The type invariants of the six services, the unique indexes of their    *)
(* tables included.                                                        *)
ServicesTypeOK ==
    /\ AuthTypeOK
    /\ LinkTypeOK
    /\ CiTypeOK
    /\ LimitTypeOK
    /\ BillTypeOK
    /\ PlanTypeOK
=============================================================================
