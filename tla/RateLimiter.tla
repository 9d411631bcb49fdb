---------------------------- MODULE RateLimiter ----------------------------
(***************************************************************************)
(* The fixed-window counter of rate-limiter.ts, which every route with a   *)
(* limit asks.  JavaScript runs each call to its end, so a call is a step. *)
(***************************************************************************)
EXTENDS Integers

CONSTANTS
    Key,            \* a route and the address of a client
    MaxHits,        \* requests allowed in a window
    Window,         \* its length
    LastTick        \* bound: the last moment of the clock

ASSUME LimitAssumption == MaxHits \in Nat /\ Window \in Nat \ {0} /\ LastTick \in Nat

VARIABLES
    clock,
    store,      \* the entry of each key; one that is not there has no window
    admitted,   \* history: how many requests were let through before a moment
    refusedAt   \* history: the keys refused at this moment

limitVars == <<clock, store, admitted, refusedAt>>

Moment == 0..LastTick + 1

NoEntry == [count |-> 0, resetAt |-> 0]

LimitInit ==
    /\ clock = 0
    /\ store = [k \in Key |-> NoEntry]
    /\ admitted = [k \in Key |-> [t \in Moment |-> 0]]
    /\ refusedAt = {}

(* Mutation: every hit puts the end of the window off. *)
HitSliding(k) ==
    IF clock >= store[k].resetAt
    THEN [count |-> 1, resetAt |-> clock + Window]
    ELSE [count |-> store[k].count + 1, resetAt |-> clock + Window]

Hit(k) ==
    IF clock >= store[k].resetAt
    THEN [count |-> 1, resetAt |-> clock + Window]
    ELSE [store[k] EXCEPT !.count = @ + 1]

(* The count is not bounded in the code; one more than MaxHits tells all.  *)
Ask(k) ==
    /\ store[k].count <= MaxHits \/ clock >= store[k].resetAt
    /\ store' = [store EXCEPT ![k] = Hit(k)]
    /\ IF Hit(k).count > MaxHits
       THEN refusedAt' = refusedAt \cup {k} /\ UNCHANGED admitted
       ELSE /\ admitted' = [admitted EXCEPT ![k] =
                 [t \in Moment |-> IF t > clock THEN @[t] + 1 ELSE @[t]]]
            /\ UNCHANGED refusedAt
    /\ UNCHANGED clock

(* Further requests of a key that is over its limit. *)
AskAgain(k) ==
    /\ store[k].count > MaxHits
    /\ clock < store[k].resetAt
    /\ refusedAt' = refusedAt \cup {k}
    /\ UNCHANGED <<clock, store, admitted>>

(* Mutation: every entry is purged. *)
PurgeAll(k) == TRUE

(* The entries that cleanup, or get for one key, deletes. *)
Purged(k) == clock >= store[k].resetAt

Cleanup ==
    /\ store' = [k \in Key |-> IF Purged(k) THEN NoEntry ELSE store[k]]
    /\ UNCHANGED <<clock, admitted, refusedAt>>

PassTime ==
    /\ clock < LastTick
    /\ clock' = clock + 1
    /\ refusedAt' = {}
    /\ UNCHANGED <<store, admitted>>

LimitNext ==
    \/ PassTime
    \/ Cleanup
    \/ \E k \in Key : Ask(k) \/ AskAgain(k)

LimitSpec == LimitInit /\ [][LimitNext]_limitVars

(***************************************************************************)
(* Properties.                                                             *)
(***************************************************************************)
LimitTypeOK ==
    /\ clock \in 0..LastTick
    /\ store \in [Key -> [count : 0..MaxHits + 1, resetAt : 0..LastTick + Window]]
    /\ \A k \in Key : store[k].resetAt <= clock + Window
    /\ admitted \in [Key -> [Moment -> Nat]]
    /\ refusedAt \subseteq Key

Clip(t) == IF t < 0 THEN 0 ELSE IF t > LastTick + 1 THEN LastTick + 1 ELSE t

(* The requests let through from one moment to another, these included.    *)
Between(k, from, to) == admitted[k][Clip(to + 1)] - admitted[k][Clip(from)]

(* In any stretch as long as a window a key is let through at most twice   *)
(* its limit: at the end of one window and at the start of the next.       *)
AtMostTwice ==
    \A k \in Key, t \in 0..LastTick : Between(k, t, t + Window - 1) <= 2 * MaxHits

(* A key is refused only while a whole limit of its requests was let       *)
(* through within the last window: its refused requests never prolong the  *)
(* refusal.                                                                *)
RefusedOnlyWhenSpent ==
    \A k \in refusedAt : Between(k, clock - Window + 1, clock) >= MaxHits
=============================================================================
