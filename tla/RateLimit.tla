----------------------------- MODULE RateLimit -----------------------------
(***************************************************************************)
(* RateLimitMiddleware (app/api/main.py) of one process of the API: for    *)
(* each address the times of its admitted requests within the last minute. *)
(* Nobody reads the order of that list, so it is the set of the requests,  *)
(* each known by its place in the history of those admitted.  Nothing is   *)
(* awaited between the pruning and the recording, so a request is one      *)
(* action.  The clock is taken not to be set back.                         *)
(***************************************************************************)
EXTENDS Naturals, FiniteSets, Sequences

CONSTANTS
    Addresses,
    PerMinute,  \* requests_per_minute
    Minute,     \* the window, in ticks
    LastTick    \* bound of the model: no tick after this one

ASSUME LimitAssumption == PerMinute \in Nat /\ Minute \in Nat /\ LastTick \in Nat

VARIABLES
    tick,
    recent,     \* _requests
    admitted    \* history: the times of all requests passed on

rateVars == <<tick, recent, admitted>>

RateTypeOK ==
    /\ tick \in 0 .. LastTick
    /\ admitted \in [Addresses -> Seq(0 .. LastTick)]
    /\ recent \in [Addresses -> SUBSET Nat]
    /\ \A a \in Addresses : recent[a] \subseteq DOMAIN admitted[a]

RateInit ==
    /\ tick = 0
    /\ recent = [a \in Addresses |-> {}]
    /\ admitted = [a \in Addresses |-> <<>>]

Pass == /\ tick < LastTick
        /\ tick' = tick + 1
        /\ UNCHANGED <<recent, admitted>>

(* t > minute_ago *)
Within(t, now) == t + Minute > now

Pruned(a) == {i \in recent[a] : Within(admitted[a][i], tick)}

(* Seeded fault: > instead of >=.                                          *)
FullLate(a) == Cardinality(Pruned(a)) > PerMinute

Full(a) == Cardinality(Pruned(a)) >= PerMinute

(* 429 if the window is full; a refused request is not recorded.           *)
Call(a) ==
    /\ IF Full(a)
       THEN /\ recent' = [recent EXCEPT ![a] = Pruned(a)]
            /\ UNCHANGED admitted
       ELSE /\ recent' = [recent EXCEPT ![a] = Pruned(a) \cup {Len(admitted[a]) + 1}]
            /\ admitted' = [admitted EXCEPT ![a] = Append(@, tick)]
    /\ UNCHANGED tick

RateNext == Pass \/ \E a \in Addresses : Call(a)

RateSpec == RateInit /\ [][RateNext]_rateVars

-----------------------------------------------------------------------------
(* The requests passed on in the minute up to now.                         *)
Window(a, now) ==
    {i \in DOMAIN admitted[a] : admitted[a][i] <= now /\ Within(admitted[a][i], now)}

(* In no minute, wherever it begins, does a process pass on more than      *)
(* PerMinute requests of an address, although it forgets times as it goes: *)
(* the counts at the tick a request was let in and at any other.           *)
WindowHolds ==
    \A a \in Addresses, now \in 0 .. tick : Cardinality(Window(a, now)) <= PerMinute
=============================================================================
