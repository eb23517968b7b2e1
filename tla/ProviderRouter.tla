--------------------------- MODULE ProviderRouter ---------------------------
(***************************************************************************)
(* ProviderRouter.complete (app/api/judiciary/provider_router.py): one     *)
(* router, asked by several requests at once.  A request goes through the  *)
(* providers in order of priority, each behind a circuit breaker that all  *)
(* requests share.  It awaits twice: the provider's answer, and XADD of    *)
(* the PROVIDER_FALLBACK event to the stream of violations.                *)
(*                                                                         *)
(* The services build a router for every completion, so today a router has *)
(* one request; the class is written to be shared, and so is the model.    *)
(*                                                                         *)
(* pybreaker is external.  Its breaker counts failures in a row, opens at  *)
(* fail_max, and lets one call through (half-open) once reset_timeout has  *)
(* passed and call_async is called again.                                  *)
(***************************************************************************)
EXTENDS Naturals, Sequences

CONSTANTS
    Requests,
    Providers,
    Priority,   \* the sequence of Providers to ask
    FailMax     \* failures in a row that open a provider's breaker

ASSUME RouterAssumption ==
    /\ Priority \in Seq(Providers)
    /\ \A i, j \in DOMAIN Priority : Priority[i] = Priority[j] => i = j
    /\ FailMax \in [Providers -> Nat \ {0}]

VARIABLES
    breaker,    \* state of a provider's breaker
    failures,   \* failures in a row a breaker has counted
    request,    \* where a request stands
    place,      \* the place in Priority a request is at
    usedProvider, \* used_provider: {} or {first provider that was tried}
    fallbacks   \* PROVIDER_FALLBACK events on the stream

routerVars == <<breaker, failures, request, place, usedProvider, fallbacks>>

Fallback == [request : Requests, from : Providers, to : Providers]

RouterTypeOK ==
    /\ breaker \in [Providers -> {"closed", "open", "half-open"}]
    /\ failures \in [Providers -> Nat]
    /\ request \in [Requests -> {"new", "looping", "calling", "publishing",
                                 "answered", "exhausted"}]
    /\ place \in [Requests -> 1 .. Len(Priority) + 1]
    /\ usedProvider \in [Requests -> SUBSET Providers]
    /\ fallbacks \subseteq Fallback

RouterInit ==
    /\ breaker = [p \in Providers |-> "closed"]
    /\ failures = [p \in Providers |-> 0]
    /\ request = [r \in Requests |-> "new"]
    /\ place = [r \in Requests |-> 1]
    /\ usedProvider = [r \in Requests |-> {}]
    /\ fallbacks = {}

At(r) == Priority[place[r]]

-----------------------------------------------------------------------------
Complete(r) ==
    /\ request[r] = "new"
    /\ request' = [request EXCEPT ![r] = "looping"]
    /\ UNCHANGED <<breaker, failures, place, usedProvider, fallbacks>>

(* Seeded fault: the state is left to call_async, which after the reset    *)
(* timeout lets one call through an open breaker.                          *)
AskAfterReset(r) ==
    /\ request[r] = "looping" /\ place[r] <= Len(Priority)
    /\ request' = [request EXCEPT ![r] = "calling"]
    /\ breaker' = [breaker EXCEPT ![At(r)] = IF @ = "open" THEN "half-open"
                                                           ELSE @]
    /\ UNCHANGED <<failures, place, usedProvider, fallbacks>>

(* The head of the loop and call_async up to its await.  An open breaker   *)
(* is skipped and does not count as tried.                                 *)
Ask(r) ==
    /\ request[r] = "looping" /\ place[r] <= Len(Priority)
    /\ IF breaker[At(r)] = "open"
       THEN /\ place' = [place EXCEPT ![r] = @ + 1]
            /\ UNCHANGED request
       ELSE /\ request' = [request EXCEPT ![r] = "calling"]
            /\ UNCHANGED place
    /\ UNCHANGED <<breaker, failures, usedProvider, fallbacks>>

(* call_async returns: the breaker forgets its failures; one that was      *)
(* half-open closes.                                                       *)
BreakerSuccess(p) ==
    /\ failures' = [failures EXCEPT ![p] = 0]
    /\ breaker' = [breaker EXCEPT ![p] = IF @ = "half-open" THEN "closed"
                                                            ELSE @]

(* call_async raises, CircuitBreakerError if this opens the breaker.       *)
BreakerFailure(p) ==
    /\ failures' = [failures EXCEPT ![p] = @ + 1]
    /\ breaker' = [breaker EXCEPT
                     ![p] = IF @ = "half-open" \/ failures[p] + 1 >= FailMax[p]
                            THEN "open" ELSE @]

(* The provider answers.  If an earlier one was tried, its failure has to  *)
(* be announced before the answer is returned.                             *)
Answer(r) ==
    /\ request[r] = "calling"
    /\ BreakerSuccess(At(r))
    /\ request' = [request EXCEPT ![r] = IF usedProvider[r] = {}
                                         THEN "answered" ELSE "publishing"]
    /\ UNCHANGED <<place, usedProvider, fallbacks>>

(* The handlers of the loop's try, and the code after them.                *)
NextProvider(r) ==
    /\ request' = [request EXCEPT ![r] = "looping"]
    /\ place' = [place EXCEPT ![r] = @ + 1]
    /\ usedProvider' = [usedProvider EXCEPT ![r] = IF @ = {} THEN {At(r)}
                                                             ELSE @]

ProviderFails(r) ==
    /\ request[r] = "calling"
    /\ BreakerFailure(At(r))
    /\ NextProvider(r)
    /\ UNCHANGED fallbacks

(* _emit_fallback_event: the provider that answered, and the first that    *)
(* was tried; what lies between them, or was skipped, is not named.        *)
FallbackEvent(r) ==
    {[request |-> r, from |-> p, to |-> At(r)] : p \in usedProvider[r]}

(* publish_violation adds the entry.                                       *)
EmitFallback(r) ==
    /\ request[r] = "publishing"
    /\ fallbacks' = fallbacks \cup FallbackEvent(r)
    /\ request' = [request EXCEPT ![r] = "answered"]
    /\ UNCHANGED <<breaker, failures, place, usedProvider>>

(* Seeded fault: a lost event is logged, and the answer returned.          *)
EmitSwallowed(r) ==
    /\ request[r] = "publishing"
    /\ request' = [request EXCEPT ![r] = "answered"]
    /\ UNCHANGED <<breaker, failures, place, usedProvider, fallbacks>>

(* The publishing raises, inside the try of the provider's call: the       *)
(* answer is dropped and the next provider asked.  XADD may have been      *)
(* carried out all the same, and only its reply been lost.                 *)
EmitFails(r) ==
    /\ request[r] = "publishing"
    /\ fallbacks' \in {fallbacks, fallbacks \cup FallbackEvent(r)}
    /\ NextProvider(r)
    /\ UNCHANGED <<breaker, failures>>

(* RuntimeError: all providers were skipped or failed.                     *)
Exhaust(r) ==
    /\ request[r] = "looping" /\ place[r] > Len(Priority)
    /\ request' = [request EXCEPT ![r] = "exhausted"]
    /\ UNCHANGED <<breaker, failures, place, usedProvider, fallbacks>>

RouterNext ==
    \E r \in Requests :
        \/ Complete(r) \/ Ask(r) \/ Answer(r) \/ ProviderFails(r)
        \/ EmitFallback(r) \/ EmitFails(r) \/ Exhaust(r)

RouterSpec == RouterInit /\ [][RouterNext]_routerVars

-----------------------------------------------------------------------------
(* Who answers in the place of another is announced on the stream, unless  *)
(* every provider before it was skipped with its breaker open: a failure   *)
(* of the call, or of the announcement itself, is never passed over in     *)
(* silence.  And an announcement names the first provider the request has  *)
(* tried and one after it (complete, _emit_fallback_event).                *)
UnannouncedOnlyPastOpen ==
    /\ \A r \in Requests :
          request[r] = "answered" =>
             \/ \E f \in fallbacks : f.request = r /\ f.to = At(r)
             \/ \A i \in 1 .. place[r] - 1 : breaker[Priority[i]] = "open"
    /\ \A f \in fallbacks : f.from \in usedProvider[f.request] /\ f.from # f.to

(* Once open, a breaker stays open for the life of the router: complete    *)
(* skips it before call_async could try it again, and the calls that were  *)
(* in flight when it opened do not close it, whatever their outcome.       *)
BreakersStayOpen ==
    [][\A p \in Providers : breaker[p] = "open" => breaker'[p] = "open"]_routerVars

-----------------------------------------------------------------------------
(* What the class says of itself and does not do.                          *)

(* "A provider switch emits a PROVIDER_FALLBACK event to the audit stream."*)
SwitchAnnounced ==
    \A r \in Requests :
        request[r] = "answered" /\ place[r] > 1 =>
            \E f \in fallbacks : f.request = r /\ f.to = At(r)
=============================================================================
