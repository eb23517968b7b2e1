--------------------------- MODULE OutboundProofs ---------------------------
(* Theorems about what the API asks and tells services outside it:         *)
(* ProviderRouter, for any number of requests and providers; FourthEstate, *)
(* for any number of tasks; LegacyReview, for any number of reviews and    *)
(* any TTL.                                                                *)
EXTENDS ProviderRouter, FourthEstate, LegacyReview, TLAPS

(* A request that asks, or announces, is at a provider of Priority.        *)
AtProvider ==
    \A r \in Requests :
        request[r] \in {"calling", "publishing", "answered"} =>
            place[r] <= Len(Priority)

(* The first provider that was tried lies before the one a request is at.  *)
UsedBefore ==
    \A r \in Requests : \A p \in usedProvider[r] :
        \E i \in 1 .. Len(Priority) : i < place[r] /\ p = Priority[i]

(* A request that tried nobody has only passed by open breakers.           *)
PassedOpen ==
    \A r \in Requests : usedProvider[r] = {} =>
        \A i \in 1 .. place[r] - 1 : breaker[Priority[i]] = "open"

(* Who tried somebody before is answered only when the stream says so.     *)
Told ==
    \A r \in Requests : request[r] = "answered" =>
        \/ usedProvider[r] = {}
        \/ \E f \in fallbacks : f.request = r /\ f.to = At(r)

(* An event names a provider that was tried, and another one.              *)
NamesTried ==
    \A f \in fallbacks : f.from \in usedProvider[f.request] /\ f.from # f.to

RouterInv ==
    /\ RouterTypeOK /\ AtProvider /\ UsedBefore
    /\ PassedOpen /\ Told /\ NamesTried

(* Whoever asks, asks one of the providers.                                *)
LEMMA PriorityFacts ==
    /\ Len(Priority) \in Nat
    /\ \A i \in 1 .. Len(Priority) : Priority[i] \in Providers
    /\ \A i, j \in 1 .. Len(Priority) : Priority[i] = Priority[j] => i = j
  BY RouterAssumption

LEMMA InitRouterInv == RouterInit => RouterInv
<1> SUFFICES ASSUME RouterInit PROVE RouterInv
  OBVIOUS
<1>1. RouterTypeOK
  BY PriorityFacts DEF RouterInit, RouterTypeOK, Fallback
<1>2. AtProvider
  BY DEF RouterInit, AtProvider
<1>3. UsedBefore
  BY DEF RouterInit, UsedBefore
<1>4. PassedOpen /\ Told /\ NamesTried
  BY DEF RouterInit, PassedOpen, Told, NamesTried
<1> QED
  BY <1>1, <1>2, <1>3, <1>4 DEF RouterInv

(* What a fallback event says of the request that publishes it.            *)
LEMMA EventFacts ==
    ASSUME RouterInv, NEW r \in Requests, request[r] = "publishing",
           NEW f \in FallbackEvent(r)
    PROVE  /\ f \in Fallback /\ f.request = r /\ f.to = At(r)
           /\ f.from \in usedProvider[r] /\ f.from # f.to
<1> USE PriorityFacts DEF RouterInv, RouterTypeOK
<1>1. place[r] \in 1 .. Len(Priority) /\ At(r) \in Providers
  BY DEF AtProvider, At
<1>2. f \in Fallback /\ f.request = r /\ f.to = At(r)
      /\ f.from \in usedProvider[r]
  BY <1>1 DEF FallbackEvent, Fallback
<1>3. PICK i \in 1 .. Len(Priority) : i < place[r] /\ f.from = Priority[i]
  BY <1>2 DEF UsedBefore
<1>4. Priority[i] # Priority[place[r]]
  BY <1>1, <1>3
<1> QED
  BY <1>2, <1>3, <1>4 DEF At

(* Where a failure leaves a request: the provider it leaves becomes the    *)
(* first that was tried, or the first stays what it was.                   *)
LEMMA NextProviderKeeps ==
    ASSUME RouterInv, NEW r \in Requests, NextProvider(r),
           request[r] \in {"calling", "publishing"}
    PROVE  /\ request' \in [Requests -> {"new", "looping", "calling",
                                "publishing", "answered", "exhausted"}]
           /\ place' \in [Requests -> 1 .. Len(Priority) + 1]
           /\ usedProvider' \in [Requests -> SUBSET Providers]
           /\ AtProvider' /\ UsedBefore'
<1> USE PriorityFacts DEF RouterInv, RouterTypeOK
<1>1. place[r] \in 1 .. Len(Priority) /\ At(r) \in Providers
  BY DEF AtProvider, At
<1>2. request' \in [Requests -> {"new", "looping", "calling", "publishing",
                                 "answered", "exhausted"}]
  BY DEF NextProvider
<1>3. place' \in [Requests -> 1 .. Len(Priority) + 1]
  BY <1>1 DEF NextProvider
<1>4. usedProvider' \in [Requests -> SUBSET Providers]
  BY <1>1 DEF NextProvider
<1>5. AtProvider'
  BY DEF AtProvider, NextProvider
<1>6. UsedBefore'
  <2> SUFFICES ASSUME NEW q \in Requests, NEW p \in usedProvider'[q]
               PROVE  \E i \in 1 .. Len(Priority) :
                         i < place'[q] /\ p = Priority[i]
    BY DEF UsedBefore
  <2>1. CASE q # r
    BY <2>1 DEF UsedBefore, NextProvider
  <2>2. CASE q = r /\ usedProvider[r] = {}
    <3>1. p = Priority[place[r]]
      BY <2>2 DEF NextProvider, At
    <3>2. place'[r] = place[r] + 1 /\ place[r] < place'[r]
      BY <1>1 DEF NextProvider
    <3> QED
      BY <3>1, <3>2, <1>1, <2>2
  <2>3. CASE q = r /\ usedProvider[r] # {}
    <3>1. p \in usedProvider[r] /\ place'[r] = place[r] + 1
      BY <2>3 DEF NextProvider
    <3> QED
      BY <3>1, <1>1, <2>3 DEF UsedBefore
  <2> QED
    BY <2>1, <2>2, <2>3
<1> QED
  BY <1>2, <1>3, <1>4, <1>5, <1>6

(* A step that moves a request on where it is.                             *)
LEMMA MovedOn ==
    ASSUME RouterInv, NEW r \in Requests,
           NEW to \in {"looping", "calling", "publishing", "answered",
                       "exhausted"},
           request' = [request EXCEPT ![r] = to],
           to \in {"calling", "publishing", "answered"} =>
               place[r] <= Len(Priority),
           UNCHANGED <<place, usedProvider>>
    PROVE  AtProvider' /\ UsedBefore'
<1> USE DEF RouterInv, RouterTypeOK
<1>1. AtProvider'
  BY DEF AtProvider
<1>2. UsedBefore'
  BY DEF UsedBefore
<1> QED
  BY <1>1, <1>2

-----------------------------------------------------------------------------
(* An open breaker stays open: no call in flight when it opens closes it,  *)
(* and none is made afterwards.                                            *)
LEMMA OpenKept ==
    RouterInv /\ [RouterNext]_routerVars =>
        \A p \in Providers : breaker[p] = "open" => breaker'[p] = "open"
<1> SUFFICES ASSUME RouterInv, RouterNext, NEW p \in Providers,
                    breaker[p] = "open"
             PROVE  breaker'[p] = "open"
  BY DEF routerVars
<1> USE DEF RouterInv, RouterTypeOK
<1>1. PICK r \in Requests :
        \/ Complete(r) \/ Ask(r) \/ Answer(r) \/ ProviderFails(r)
        \/ EmitFallback(r) \/ EmitFails(r) \/ Exhaust(r)
  BY DEF RouterNext
<1>2. CASE Answer(r)
  BY <1>2 DEF Answer, BreakerSuccess
<1>3. CASE ProviderFails(r)
  BY <1>3 DEF ProviderFails, BreakerFailure
<1>4. CASE Complete(r) \/ Ask(r) \/ EmitFallback(r) \/ EmitFails(r) \/ Exhaust(r)
  BY <1>4 DEF Complete, Ask, EmitFallback, EmitFails, Exhaust
<1> QED
  BY <1>1, <1>2, <1>3, <1>4

(* A request passes a provider by without trying it only in Ask, and there *)
(* the breaker is open; in every other step that moves it, it has tried.   *)
LEMMA StepPassedOpen == RouterInv /\ [RouterNext]_routerVars => PassedOpen'
<1> SUFFICES ASSUME RouterInv, [RouterNext]_routerVars,
                    NEW q \in Requests, usedProvider'[q] = {},
                    NEW i \in 1 .. place'[q] - 1
             PROVE  breaker'[Priority[i]] = "open"
  BY DEF PassedOpen
<1> USE PriorityFacts DEF RouterInv, RouterTypeOK
<1>1. ASSUME usedProvider[q] = {}, place'[q] = place[q]
      PROVE  breaker'[Priority[i]] = "open"
  <2>1. i \in 1 .. place[q] - 1 /\ i \in 1 .. Len(Priority)
    BY <1>1
  <2>2. breaker[Priority[i]] = "open" /\ Priority[i] \in Providers
    BY <1>1, <2>1 DEF PassedOpen
  <2> QED
    BY <2>2, OpenKept
<1>2. CASE UNCHANGED <<place, usedProvider>>
  BY <1>1, <1>2
<1>3. ASSUME NEW r \in Requests, NextProvider(r)
      PROVE  breaker'[Priority[i]] = "open"
  <2>1. q # r
    BY <1>3 DEF NextProvider
  <2> QED
    BY <1>1, <1>3, <2>1 DEF NextProvider
<1>4. ASSUME NEW r \in Requests, Ask(r), breaker[At(r)] = "open"
      PROVE  breaker'[Priority[i]] = "open"
  <2>1. place' = [place EXCEPT ![r] = @ + 1] /\ place[r] <= Len(Priority)
        /\ UNCHANGED <<breaker, usedProvider>>
    BY <1>4 DEF Ask
  <2>2. CASE q = r /\ i = place[r]
    BY <2>1, <2>2, <1>4 DEF At
  <2>3. CASE q = r /\ i # place[r]
    <3>1. i \in 1 .. place[r] - 1
      BY <2>1, <2>3
    <3> QED
      BY <2>1, <2>3, <3>1 DEF PassedOpen
  <2>4. CASE q # r
    BY <1>1, <2>1, <2>4
  <2> QED
    BY <2>2, <2>3, <2>4
<1>5. CASE RouterNext
  <2>1. PICK r \in Requests :
          \/ Complete(r) \/ Ask(r) \/ Answer(r) \/ ProviderFails(r)
          \/ EmitFallback(r) \/ EmitFails(r) \/ Exhaust(r)
    BY <1>5 DEF RouterNext
  <2>2. CASE Ask(r)
    BY <1>2, <1>4, <2>2 DEF Ask
  <2>3. CASE ProviderFails(r) \/ EmitFails(r)
    BY <1>3, <2>3 DEF ProviderFails, EmitFails
  <2>4. CASE Complete(r) \/ Answer(r) \/ EmitFallback(r) \/ Exhaust(r)
    BY <1>2, <2>4 DEF Complete, Answer, EmitFallback, Exhaust
  <2> QED
    BY <2>1, <2>2, <2>3, <2>4
<1> QED
  BY <1>2, <1>5 DEF routerVars

(* What a step adds to the stream is the event of a request that is        *)
(* publishing, and what was tried stays tried.                             *)
LEMMA StepNamesTried == RouterInv /\ [RouterNext]_routerVars => NamesTried'
<1> SUFFICES ASSUME RouterInv, [RouterNext]_routerVars, NEW f \in fallbacks'
             PROVE  f.from \in usedProvider'[f.request] /\ f.from # f.to
  BY DEF NamesTried
<1> USE DEF RouterInv, RouterTypeOK
<1>1. \A q \in Requests : usedProvider[q] \subseteq usedProvider'[q]
  BY DEF RouterNext, routerVars, Complete, Ask, Answer, ProviderFails,
         EmitFallback, EmitFails, Exhaust, NextProvider
<1>2. \/ f \in fallbacks
      \/ \E r \in Requests : request[r] = "publishing" /\ f \in FallbackEvent(r)
  BY DEF RouterNext, routerVars, Complete, Ask, Answer, ProviderFails,
         EmitFallback, EmitFails, Exhaust
<1>3. CASE f \in fallbacks
  <2>1. f.request \in Requests
    BY <1>3 DEF Fallback
  <2> QED
    BY <1>1, <1>3, <2>1 DEF NamesTried
<1>4. ASSUME NEW r \in Requests, request[r] = "publishing",
             f \in FallbackEvent(r)
      PROVE  f.from \in usedProvider'[f.request] /\ f.from # f.to
  BY <1>1, <1>4, EventFacts
<1> QED
  BY <1>2, <1>3, <1>4

(* A request that is answered, is answered where it had tried nobody, or   *)
(* by the step that adds its event.                                        *)
LEMMA StepTold == RouterInv /\ [RouterNext]_routerVars => Told'
<1> SUFFICES ASSUME RouterInv, [RouterNext]_routerVars,
                    NEW q \in Requests, request'[q] = "answered"
             PROVE  \/ usedProvider'[q] = {}
                    \/ \E f \in fallbacks' : f.request = q /\ f.to = At(q)'
  BY DEF Told, At
<1> USE DEF RouterInv, RouterTypeOK
<1>1. ASSUME request[q] = "answered", place'[q] = place[q],
             usedProvider'[q] = usedProvider[q], fallbacks \subseteq fallbacks'
      PROVE  \/ usedProvider'[q] = {}
             \/ \E f \in fallbacks' : f.request = q /\ f.to = At(q)'
  BY <1>1 DEF Told, At
<1>2. CASE UNCHANGED routerVars
  BY <1>1, <1>2 DEF routerVars
<1>3. ASSUME NEW r \in Requests, NextProvider(r),
             fallbacks \subseteq fallbacks'
      PROVE  \/ usedProvider'[q] = {}
             \/ \E f \in fallbacks' : f.request = q /\ f.to = At(q)'
  <2>1. q # r
    BY <1>3 DEF NextProvider
  <2>2. request[q] = "answered" /\ place'[q] = place[q]
        /\ usedProvider'[q] = usedProvider[q]
    BY <1>3, <2>1 DEF NextProvider
  <2> QED
    BY <1>1, <1>3, <2>2
<1>4. ASSUME NEW r \in Requests, EmitFallback(r)
      PROVE  \/ usedProvider'[q] = {}
             \/ \E f \in fallbacks' : f.request = q /\ f.to = At(q)'
  <2>1. UNCHANGED <<place, usedProvider>> /\ request[r] = "publishing"
        /\ fallbacks' = fallbacks \cup FallbackEvent(r)
        /\ request' = [request EXCEPT ![r] = "answered"]
    BY <1>4 DEF EmitFallback
  <2>2. CASE q # r
    BY <1>1, <2>1, <2>2
  <2>3. CASE q = r /\ usedProvider[r] # {}
    <3>1. PICK p \in usedProvider[r] : TRUE
      BY <2>3
    <3>2. PICK f \in FallbackEvent(r) : TRUE
      BY <3>1 DEF FallbackEvent
    <3>3. f.request = r /\ f.to = At(r) /\ f \in fallbacks'
      BY <2>1, <3>2, EventFacts
    <3>4. At(q)' = At(r)
      BY <2>1, <2>3 DEF At
    <3> QED
      BY <2>3, <3>3, <3>4
  <2> QED
    BY <2>1, <2>2, <2>3
<1>5. ASSUME NEW r \in Requests, Answer(r)
      PROVE  \/ usedProvider'[q] = {}
             \/ \E f \in fallbacks' : f.request = q /\ f.to = At(q)'
  <2>1. UNCHANGED <<place, usedProvider, fallbacks>>
        /\ request' = [request EXCEPT
             ![r] = IF usedProvider[r] = {} THEN "answered" ELSE "publishing"]
    BY <1>5 DEF Answer
  <2>2. CASE q # r
    BY <1>1, <2>1, <2>2
  <2>3. CASE q = r
    BY <2>1, <2>3
  <2> QED
    BY <2>2, <2>3
<1>6. CASE RouterNext
  <2>1. PICK r \in Requests :
          \/ Complete(r) \/ Ask(r) \/ Answer(r) \/ ProviderFails(r)
          \/ EmitFallback(r) \/ EmitFails(r) \/ Exhaust(r)
    BY <1>6 DEF RouterNext
  <2>2. CASE ProviderFails(r) \/ EmitFails(r)
    BY <1>3, <2>2 DEF ProviderFails, EmitFails
  <2>3. CASE Complete(r) \/ Exhaust(r)
    <3>1. UNCHANGED <<place, usedProvider, fallbacks>>
          /\ request[q] = "answered"
      BY <2>3 DEF Complete, Exhaust
    <3> QED
      BY <1>1, <3>1
  <2>4. CASE Ask(r)
    <3>1. UNCHANGED <<usedProvider, fallbacks>> /\ request[r] = "looping"
          /\ request[q] = "answered" /\ q # r /\ place'[q] = place[q]
      BY <2>4 DEF Ask
    <3> QED
      BY <1>1, <3>1
  <2> QED
    BY <1>4, <1>5, <2>1, <2>2, <2>3, <2>4
<1> QED
  BY <1>2, <1>6

LEMMA StepRouterInv == RouterInv /\ [RouterNext]_routerVars => RouterInv'
<1> SUFFICES ASSUME RouterInv, [RouterNext]_routerVars
             PROVE  RouterTypeOK' /\ AtProvider' /\ UsedBefore'
  BY StepPassedOpen, StepNamesTried, StepTold DEF RouterInv
<1> USE PriorityFacts DEF RouterInv, RouterTypeOK
<1>1. ASSUME NEW r \in Requests, Complete(r)
      PROVE  RouterTypeOK' /\ AtProvider' /\ UsedBefore'
  <2>1. RouterTypeOK'
    BY <1>1 DEF Complete
  <2>2. AtProvider' /\ UsedBefore'
    BY <1>1, MovedOn DEF Complete
  <2> QED
    BY <2>1, <2>2
<1>2. ASSUME NEW r \in Requests, Ask(r)
      PROVE  RouterTypeOK' /\ AtProvider' /\ UsedBefore'
  <2>1. CASE breaker[At(r)] = "open"
    <3>1. place' = [place EXCEPT ![r] = @ + 1]
          /\ UNCHANGED <<request, breaker, failures, usedProvider, fallbacks>>
          /\ place[r] <= Len(Priority) /\ request[r] = "looping"
      BY <1>2, <2>1 DEF Ask
    <3>2. RouterTypeOK'
      BY <3>1
    <3>3. AtProvider'
      BY <3>1 DEF AtProvider
    <3>4. UsedBefore'
      BY <3>1 DEF UsedBefore
    <3> QED
      BY <3>2, <3>3, <3>4
  <2>2. CASE breaker[At(r)] # "open"
    <3>1. RouterTypeOK'
      BY <1>2, <2>2 DEF Ask
    <3>2. AtProvider' /\ UsedBefore'
      BY <1>2, <2>2, MovedOn DEF Ask
    <3> QED
      BY <3>1, <3>2
  <2> QED
    BY <2>1, <2>2
<1>3. ASSUME NEW r \in Requests, Answer(r)
      PROVE  RouterTypeOK' /\ AtProvider' /\ UsedBefore'
  <2>1. RouterTypeOK'
    BY <1>3 DEF Answer, BreakerSuccess
  <2>2. PICK to \in {"answered", "publishing"} :
          request' = [request EXCEPT ![r] = to]
    BY <1>3 DEF Answer
  <2>3. UNCHANGED <<place, usedProvider>> /\ place[r] <= Len(Priority)
    BY <1>3 DEF Answer, AtProvider
  <2>4. AtProvider' /\ UsedBefore'
    BY <2>2, <2>3, MovedOn
  <2> QED
    BY <2>1, <2>4
<1>4. ASSUME NEW r \in Requests, ProviderFails(r)
      PROVE  RouterTypeOK' /\ AtProvider' /\ UsedBefore'
  <2>1. PICK p \in Providers : BreakerFailure(p)
    <3>1. place[r] \in 1 .. Len(Priority)
      BY <1>4 DEF ProviderFails, AtProvider
    <3>2. At(r) \in Providers
      BY <3>1 DEF At
    <3> QED
      BY <1>4, <3>2 DEF ProviderFails
  <2>2. failures' \in [Providers -> Nat]
    BY <2>1 DEF BreakerFailure
  <2>3. breaker' \in [Providers -> {"closed", "open", "half-open"}]
    BY <2>1 DEF BreakerFailure
  <2> QED
    BY <1>4, <2>2, <2>3, NextProviderKeeps DEF ProviderFails
<1>5. ASSUME NEW r \in Requests, EmitFails(r)
      PROVE  RouterTypeOK' /\ AtProvider' /\ UsedBefore'
  <2>1. fallbacks' \subseteq Fallback
    BY <1>5, EventFacts DEF EmitFails
  <2> QED
    BY <1>5, <2>1, NextProviderKeeps DEF EmitFails
<1>6. ASSUME NEW r \in Requests, EmitFallback(r)
      PROVE  RouterTypeOK' /\ AtProvider' /\ UsedBefore'
  <2>1. fallbacks' \subseteq Fallback
    BY <1>6, EventFacts DEF EmitFallback
  <2>2. request' = [request EXCEPT ![r] = "answered"]
        /\ UNCHANGED <<breaker, failures, place, usedProvider>>
        /\ place[r] <= Len(Priority)
    BY <1>6 DEF EmitFallback, AtProvider
  <2>3. AtProvider' /\ UsedBefore'
    BY <2>2, MovedOn
  <2> QED
    BY <2>1, <2>2, <2>3
<1>7. ASSUME NEW r \in Requests, Exhaust(r)
      PROVE  RouterTypeOK' /\ AtProvider' /\ UsedBefore'
  <2>1. RouterTypeOK'
    BY <1>7 DEF Exhaust
  <2>2. AtProvider' /\ UsedBefore'
    BY <1>7, MovedOn DEF Exhaust
  <2> QED
    BY <2>1, <2>2
<1>8. CASE UNCHANGED routerVars
  BY <1>8 DEF routerVars, AtProvider, UsedBefore
<1> QED
  BY <1>1, <1>2, <1>3, <1>4, <1>5, <1>6, <1>7, <1>8 DEF RouterNext

(* Every variable of the router keeps its type.                            *)
THEOREM RouterTypes == RouterSpec => []RouterTypeOK
<1>1. RouterInv => RouterTypeOK
  BY DEF RouterInv
<1> QED
  BY InitRouterInv, StepRouterInv, <1>1, PTL DEF RouterSpec

(* An answer is of the first provider, or its switch is announced, or      *)
(* every provider before it was passed by with its breaker open; and an    *)
(* event names a provider that was tried (complete, _emit_fallback_event). *)
THEOREM UnannouncedAnswersPassOpenBreakers ==
    RouterSpec => []UnannouncedOnlyPastOpen
<1>1. RouterInv => UnannouncedOnlyPastOpen
  BY DEF RouterInv, PassedOpen, Told, NamesTried, UnannouncedOnlyPastOpen
<1> QED
  BY InitRouterInv, StepRouterInv, <1>1, PTL DEF RouterSpec

(* No call in flight when a breaker opens closes it, and none is made      *)
(* afterwards (complete skips an open breaker; pybreaker is external).     *)
THEOREM OpenForGood == RouterSpec => BreakersStayOpen
<1>1. RouterSpec => []RouterInv
  BY InitRouterInv, StepRouterInv, PTL DEF RouterSpec
<1>2. RouterInv /\ [RouterNext]_routerVars =>
        [\A p \in Providers : breaker[p] = "open" => breaker'[p] = "open"]_routerVars
  BY OpenKept
<1> QED
  BY <1>1, <1>2, PTL DEF RouterSpec, BreakersStayOpen

-----------------------------------------------------------------------------
(* FourthEstate: who sends has an exchange, for it is never given up; and  *)
(* who is in the middle of publish has an event to publish.                *)
SendersHaveExchange == \A t \in Tasks : stage[t] = "sending" => exchange

EventAtHand == \A t \in Tasks : stage[t] # "ready" => agenda[t] # <<>>

EstateInv == EstateTypeOK /\ SendersHaveExchange /\ EventAtHand

LEMMA InitEstateInv == EstateInit => EstateInv
<1> SUFFICES ASSUME EstateInit PROVE EstateInv
  OBVIOUS
<1>1. ASSUME NEW q \in Agendas PROVE q \in Seq(EventTypes)
  <2>1. CASE q = <<"EVENT">>
    BY <2>1 DEF EventTypes
  <2>2. CASE q = <<"FOREIGN">>
    BY <2>2 DEF EventTypes
  <2>3. CASE q = <<"STAMP_ISSUED">>
    BY <2>3 DEF EventTypes
  <2>4. CASE q = <<"STAMP_ISSUED", "STAMP_REJECTED", "CONSTITUTIONAL_VIOL">>
    BY <2>4 DEF EventTypes
  <2> QED
    BY <2>1, <2>2, <2>3, <2>4 DEF Agendas
<1>2. agenda \in [Tasks -> Seq(EventTypes)]
  BY <1>1 DEF EstateInit
<1>3. buffer \in Seq(EstateEvent) /\ Len(buffer) <= BufferSize
  BY BufferAssumption DEF EstateInit
<1> QED
  BY <1>2, <1>3
     DEF EstateInit, EstateInv, EstateTypeOK, SendersHaveExchange, EventAtHand

(* publish returns: the event at the head is done with.                    *)
LEMMA FinishedKeeps ==
    ASSUME EstateInv, NEW t \in Tasks, agenda[t] # <<>>, Finished(t),
           exchange' = exchange
    PROVE  /\ agenda' \in [Tasks -> Seq(EventTypes)]
           /\ stage' \in [Tasks -> {"ready", "connecting", "declaring",
                                    "sending"}]
           /\ SendersHaveExchange' /\ EventAtHand'
<1> USE DEF EstateInv, EstateTypeOK
<1>1. Tail(agenda[t]) \in Seq(EventTypes)
  OBVIOUS
<1> QED
  BY <1>1 DEF Finished, SendersHaveExchange, EventAtHand

LEMMA RecordKeeps ==
    ASSUME EstateInv, NEW t \in Tasks, agenda[t] # <<>>, Record(t)
    PROVE  /\ totalEvents' \in Nat /\ violationCount' \in Nat /\ sequence' \in Nat
           /\ buffer' \in Seq(EstateEvent) /\ Len(buffer') <= BufferSize
<1> USE BufferAssumption DEF EstateInv, EstateTypeOK
<1>1. Current(t) \in EstateEvent
  <2>1. Head(agenda[t]) \in EventTypes
    OBVIOUS
  <2> QED
    BY <2>1 DEF Current, EstateEvent
<1>2. Appended(Current(t)) \in Seq(EstateEvent)
      /\ Len(Appended(Current(t))) <= BufferSize
  <2> DEFINE e == Current(t)
  <2>1. e \in EstateEvent
    BY <1>1
  <2> HIDE DEF e
  <2>2. Appended(e) \in Seq(EstateEvent) /\ Len(Appended(e)) <= BufferSize
    BY <2>1 DEF Appended
  <2> QED
    BY <2>2 DEF e
<1> QED
  BY <1>2 DEF Record

LEMMA StepEstateInv == EstateInv /\ [EstateNext]_estateVars => EstateInv'
<1> SUFFICES ASSUME EstateInv, [EstateNext]_estateVars PROVE EstateInv'
  OBVIOUS
<1> USE DEF EstateInv, EstateTypeOK
<1>1. ASSUME NEW t \in Tasks, PublishEvent(t) PROVE EstateInv'
  <2>1. agenda[t] # <<>> /\ Record(t)
        /\ UNCHANGED <<connection, exchange, delivered>>
    BY <1>1 DEF PublishEvent
  <2>2. /\ totalEvents' \in Nat /\ violationCount' \in Nat /\ sequence' \in Nat
        /\ buffer' \in Seq(EstateEvent) /\ Len(buffer') <= BufferSize
    BY <2>1, RecordKeeps
  <2>3. CASE Finished(t)
    BY <2>1, <2>2, <2>3, FinishedKeeps
  <2>4. CASE /\ UNCHANGED agenda
             /\ \/ stage' = [stage EXCEPT ![t] = "connecting"]
                \/ exchange /\ stage' = [stage EXCEPT ![t] = "sending"]
    BY <2>1, <2>2, <2>4 DEF SendersHaveExchange, EventAtHand
  <2> QED
    BY <1>1, <2>3, <2>4 DEF PublishEvent
<1>2. ASSUME NEW t \in Tasks, Connect(t) \/ Declare(t) PROVE EstateInv'
  BY <1>2 DEF Connect, Declare, SendersHaveExchange, EventAtHand
<1>3. ASSUME NEW t \in Tasks, ConnectFails(t) PROVE EstateInv'
  <2>1. agenda[t] # <<>>
    BY <1>3 DEF ConnectFails, EventAtHand
  <2>2. CASE exchange
    BY <1>3, <2>2 DEF ConnectFails, SendersHaveExchange, EventAtHand
  <2>3. CASE ~exchange
    BY <1>3, <2>1, <2>3, FinishedKeeps DEF ConnectFails
  <2> QED
    BY <2>2, <2>3
<1>4. ASSUME NEW t \in Tasks, Send(t) PROVE EstateInv'
  <2>1. agenda[t] # <<>> /\ Head(agenda[t]) \in EventTypes
    BY <1>4 DEF Send, EventAtHand
  <2>2. delivered' \subseteq EstateEvent
    BY <1>4, <2>1 DEF Send, Current, EstateEvent
  <2> QED
    BY <1>4, <2>1, <2>2, FinishedKeeps DEF Send
<1>5. ASSUME NEW t \in Tasks, SendFails(t) PROVE EstateInv'
  <2>1. agenda[t] # <<>>
    BY <1>5 DEF SendFails, EventAtHand
  <2> QED
    BY <1>5, <2>1, FinishedKeeps DEF SendFails
<1>6. CASE Close
  BY <1>6 DEF Close, SendersHaveExchange, EventAtHand
<1>7. CASE UNCHANGED estateVars
  BY <1>7 DEF estateVars, SendersHaveExchange, EventAtHand
<1> QED
  BY <1>1, <1>2, <1>3, <1>4, <1>5, <1>6, <1>7 DEF EstateNext

(* Every variable of the publisher keeps its type; the buffer its bound.   *)
THEOREM EstateTypes == EstateSpec => []EstateTypeOK
<1>1. EstateInv => EstateTypeOK
  BY DEF EstateInv
<1> QED
  BY InitEstateInv, StepEstateInv, <1>1, PTL DEF EstateSpec

LEMMA StepStaysMute ==
    EstateInv /\ [EstateNext]_estateVars =>
        [HalfConnected => /\ delivered' = delivered
                          /\ HalfConnected' \/ connection' = "closed"]_estateVars
<1> SUFFICES ASSUME EstateInv, EstateNext, HalfConnected
             PROVE  /\ delivered' = delivered
                    /\ HalfConnected' \/ connection' = "closed"
  OBVIOUS
<1> USE DEF EstateInv, EstateTypeOK
<1>1. ~exchange /\ connection = "open"
      /\ \A t \in Tasks : stage[t] = "ready"
  BY DEF HalfConnected, SendersHaveExchange
<1>2. ASSUME NEW t \in Tasks, PublishEvent(t)
      PROVE  delivered' = delivered /\ HalfConnected'
  BY <1>1, <1>2 DEF PublishEvent, MustConnect, Finished, HalfConnected
<1>3. ASSUME NEW t \in Tasks,
             Connect(t) \/ Declare(t) \/ ConnectFails(t) \/ Send(t) \/ SendFails(t)
      PROVE  FALSE
  BY <1>1, <1>3 DEF Connect, Declare, ConnectFails, Send, SendFails
<1>4. CASE Close
  BY <1>4 DEF Close
<1> QED
  BY <1>2, <1>3, <1>4 DEF EstateNext

(* A publisher whose declaration failed on an open connection delivers     *)
(* nothing until it is closed, whatever its tasks publish (connect).       *)
THEOREM HalfConnectedMute == EstateSpec => HalfConnectedStaysMute
<1>1. EstateSpec => []EstateInv
  BY InitEstateInv, StepEstateInv, PTL DEF EstateSpec
<1> QED
  BY <1>1, StepStaysMute, PTL DEF EstateSpec, HalfConnectedStaysMute

-----------------------------------------------------------------------------
(* LegacyReview: an entry is as old as its question.                       *)
EntriesDated == \A e \in llmCache : e.ts = e.asked

LegacyInv == LegacyTypeOK /\ EntriesDated

LEMMA AttemptsBound == Len(Attempts) \in 1 .. 5
<1>1. CASE offlineMode
  BY <1>1 DEF Attempts
<1>2. CASE ~offlineMode
  BY <1>2 DEF Attempts
<1> QED
  BY <1>1, <1>2

LEMMA InitLegacyInv == LegacyInit => LegacyInv
<1> SUFFICES ASSUME LegacyInit PROVE LegacyInv
  OBVIOUS
<1>1. stamp \in [Reviews -> Stamp]
  BY DEF LegacyInit, Stamp
<1>2. 0 \in Moments
  BY LegacyAssumption DEF Moments
<1>3. useLLM \in BOOLEAN /\ offlineMode \in BOOLEAN /\ modelsLoaded \in BOOLEAN
  BY DEF LegacyInit
<1>4. attempt \in [Reviews -> 0 .. 5] /\ total \in Nat /\ rejections \in Nat
  BY DEF LegacyInit
<1>5. moment \in Moments /\ askedAt \in [Reviews -> Moments]
  BY <1>2 DEF LegacyInit
<1>6. prompt \in [Reviews -> Prompts] /\ violating \subseteq Reviews
      /\ llmCache = {}
  BY DEF LegacyInit
<1> QED
  BY <1>1, <1>3, <1>4, <1>5, <1>6 DEF LegacyInv, LegacyTypeOK, EntriesDated

LEMMA ReturnKeeps ==
    ASSUME LegacyInv, NEW r \in Reviews, NEW st \in Statuses,
           NEW source \in {"rules", "model", "failure", "cache"},
           NEW asked \in Moments, ReturnStamp(r, st, source, asked)
    PROVE  stamp' \in [Reviews -> Stamp] /\ rejections' \in Nat
<1> USE DEF LegacyInv, LegacyTypeOK
<1>1. [status |-> st, source |-> source, asked |-> asked] \in Stamp
  BY DEF Stamp
<1>2. stamp' \in [Reviews -> Stamp]
  BY <1>1 DEF ReturnStamp
<1>3. rejections' \in Nat
  BY DEF ReturnStamp
<1> QED
  BY <1>2, <1>3

LEMMA CacheKeeps ==
    ASSUME LegacyInv, NEW r \in Reviews, NEW st \in Statuses, Cache(r, st)
    PROVE  llmCache' \subseteq Entry /\ EntriesDated'
<1> USE DEF LegacyInv, LegacyTypeOK
<1> DEFINE new == [prompt |-> prompt[r], status |-> st, ts |-> askedAt[r],
                   asked |-> askedAt[r]]
<1>1. new \in Entry /\ new.ts = new.asked
  BY DEF Entry
<1>2. \A e \in llmCache' : e \in llmCache \/ e = new
  BY DEF Cache
<1> HIDE DEF new
<1> QED
  BY <1>1, <1>2 DEF EntriesDated

LEMMA StepLegacyInv == LegacyInv /\ [LegacyNext]_legacyVars => LegacyInv'
<1> SUFFICES ASSUME LegacyInv, [LegacyNext]_legacyVars PROVE LegacyInv'
  OBVIOUS
<1> USE LegacyAssumption, AttemptsBound DEF LegacyInv, LegacyTypeOK, settings
<1>1. CASE Moment
  BY <1>1 DEF Moment, Moments, EntriesDated
<1>2. CASE ServerChanges
  BY <1>2 DEF ServerChanges, EntriesDated
<1>3. ASSUME NEW r \in Reviews, Review(r) PROVE LegacyInv'
  <2>1. UNCHANGED <<moment, useLLM, offlineMode, prompt, violating,
                    modelsLoaded, llmCache>> /\ total' = total + 1
    BY <1>3 DEF Review
  <2>2. EntriesDated'
    BY <2>1 DEF EntriesDated
  <2>3. CASE r \in violating \/ ~useLLM
    <3> DEFINE st == IF r \in violating THEN "REJECTED" ELSE "APPROVED"
    <3>1. st \in Statuses /\ ReturnStamp(r, st, "rules", moment)
          /\ UNCHANGED <<askedAt, attempt>>
      BY <1>3, <2>3 DEF Review, Statuses
    <3> HIDE DEF st
    <3>2. stamp' \in [Reviews -> Stamp] /\ rejections' \in Nat
      BY <3>1, ReturnKeeps
    <3> QED
      BY <2>1, <2>2, <3>1, <3>2
  <2>4. ASSUME NEW e \in llmCache, ReturnStamp(r, e.status, "cache", e.asked),
               UNCHANGED <<askedAt, attempt>>
        PROVE  LegacyInv'
    <3>1. e.status \in Statuses /\ e.asked \in Moments
      BY DEF Entry
    <3>2. stamp' \in [Reviews -> Stamp] /\ rejections' \in Nat
      BY <2>4, <3>1, ReturnKeeps
    <3> QED
      BY <2>1, <2>2, <2>4, <3>2
  <2>5. CASE /\ askedAt' = [askedAt EXCEPT ![r] = moment]
             /\ attempt' = [attempt EXCEPT ![r] = 1]
             /\ UNCHANGED <<stamp, rejections>>
    BY <2>1, <2>2, <2>5
  <2> QED
    BY <1>3, <2>3, <2>4, <2>5 DEF Review
<1>4. ASSUME NEW r \in Reviews, ProviderAnswers(r) PROVE LegacyInv'
  <2>1. PICK verdict \in Statuses :
          ReturnStamp(r, verdict, "model", askedAt[r]) /\ Cache(r, verdict)
    BY <1>4 DEF ProviderAnswers
  <2>2. stamp' \in [Reviews -> Stamp] /\ rejections' \in Nat
    BY <2>1, ReturnKeeps
  <2>3. llmCache' \subseteq Entry /\ EntriesDated'
    BY <2>1, CacheKeeps
  <2>4. UNCHANGED <<moment, useLLM, offlineMode, prompt, violating,
                    modelsLoaded, askedAt, attempt, total>>
    BY <1>4 DEF ProviderAnswers
  <2> QED
    BY <2>2, <2>3, <2>4
<1>5. ASSUME NEW r \in Reviews, GatewayFails(r) PROVE LegacyInv'
  <2>1. CASE attempt[r] < Len(Attempts)
    <3>1. attempt' = [attempt EXCEPT ![r] = @ + 1]
          /\ UNCHANGED <<moment, useLLM, offlineMode, prompt, violating,
                         modelsLoaded, askedAt, stamp, llmCache, total,
                         rejections>>
      BY <1>5, <2>1 DEF GatewayFails
    <3>2. attempt[r] + 1 \in 0 .. 5
      <4> DEFINE n == Len(Attempts)
                 m == attempt[r]
      <4>1. n \in 1 .. 5 /\ m \in 0 .. 5 /\ m < n
        BY <2>1, AttemptsBound
      <4> HIDE DEF n, m
      <4>2. m + 1 \in 0 .. 5
        BY <4>1
      <4> QED
        BY <4>2 DEF m
    <3>3. attempt' \in [Reviews -> 0 .. 5]
      BY <3>1, <3>2
    <3>4. EntriesDated'
      BY <3>1 DEF EntriesDated
    <3> QED
      BY <3>1, <3>3, <3>4
  <2>2. CASE ~(attempt[r] < Len(Attempts))
    <3>1. "APPROVED" \in Statuses /\ ReturnStamp(r, "APPROVED", "failure", askedAt[r])
          /\ Cache(r, "APPROVED") /\ UNCHANGED attempt
      BY <1>5, <2>2 DEF GatewayFails, Statuses
    <3>2. stamp' \in [Reviews -> Stamp] /\ rejections' \in Nat
      BY <3>1, ReturnKeeps
    <3>3. llmCache' \subseteq Entry /\ EntriesDated'
      BY <3>1, CacheKeeps
    <3>4. UNCHANGED <<moment, useLLM, offlineMode, prompt, violating,
                      modelsLoaded, askedAt, total>>
      BY <1>5 DEF GatewayFails
    <3> QED
      BY <3>1, <3>2, <3>3, <3>4
  <2> QED
    BY <2>1, <2>2
<1>6. CASE UNCHANGED legacyVars
  BY <1>6 DEF legacyVars, EntriesDated
<1> QED
  BY <1>1, <1>2, <1>3, <1>4, <1>5, <1>6 DEF LegacyNext

(* Every variable of the in-process judiciary keeps its type.              *)
THEOREM LegacyTypes == LegacySpec => []LegacyTypeOK
<1>1. LegacyInv => LegacyTypeOK
  BY DEF LegacyInv
<1> QED
  BY InitLegacyInv, StepLegacyInv, <1>1, PTL DEF LegacySpec

LEMMA StepRecent ==
    LegacyInv /\ [LegacyNext]_legacyVars =>
        [\A r \in Reviews :
            stamp'[r] # stamp[r] /\ stamp'[r].source = "cache" =>
                moment < stamp'[r].asked + CacheTTL]_legacyVars
<1> SUFFICES ASSUME LegacyInv, LegacyNext, NEW r \in Reviews,
                    stamp'[r] # stamp[r], stamp'[r].source = "cache"
             PROVE  moment < stamp'[r].asked + CacheTTL
  OBVIOUS
<1> USE DEF LegacyInv, LegacyTypeOK
<1>1. ASSUME NEW q \in Reviews, NEW st, NEW source, NEW asked,
             ReturnStamp(q, st, source, asked)
      PROVE  q = r /\ source = "cache" /\ stamp'[r].asked = asked
  BY <1>1 DEF ReturnStamp
<1>2. ASSUME NEW q \in Reviews, Review(q)
      PROVE  moment < stamp'[r].asked + CacheTTL
  <2>1. CASE q \in violating \/ ~useLLM
    BY <1>1, <1>2, <2>1 DEF Review
  <2>2. ASSUME NEW e \in llmCache, Unexpired(e),
               ReturnStamp(q, e.status, "cache", e.asked)
        PROVE  moment < stamp'[r].asked + CacheTTL
    BY <1>1, <2>2 DEF EntriesDated, Unexpired
  <2>3. stamp' # stamp
    OBVIOUS
  <2> QED
    BY <1>2, <2>1, <2>2, <2>3 DEF Review
<1>3. ASSUME NEW q \in Reviews, ProviderAnswers(q) PROVE FALSE
  BY <1>1, <1>3 DEF ProviderAnswers
<1>4. ASSUME NEW q \in Reviews, GatewayFails(q) PROVE FALSE
  BY <1>1, <1>4 DEF GatewayFails
<1>5. CASE Moment \/ ServerChanges
  BY <1>5 DEF Moment, ServerChanges
<1> QED
  BY <1>2, <1>3, <1>4, <1>5 DEF LegacyNext

(* Whatever the TTL and however reviews overlap, the cache answers only    *)
(* with verdicts asked for less than the TTL ago (review).                 *)
THEOREM CacheAnswersRecent == LegacySpec => CachedVerdictsAreRecent
<1>1. LegacySpec => []LegacyInv
  BY InitLegacyInv, StepLegacyInv, PTL DEF LegacySpec
<1> QED
  BY <1>1, StepRecent, PTL DEF LegacySpec, CachedVerdictsAreRecent
=============================================================================
