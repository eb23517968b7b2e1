--------------------------- MODULE LegacyReview ---------------------------
(***************************************************************************)
(* The in-process Judiciary of app/api/judiciary/legacy.py and the         *)
(* inference gateway it asks (app/api/services/inference_gateway.py) with  *)
(* the offline server behind it (docker/inference_server.py).              *)
(*                                                                         *)
(* A review runs without a stop up to its call of the model and from the   *)
(* answer to its return; in between other reviews run.  A prompt stands    *)
(* for all a review's prompt text is made of: reviews with the same prompt *)
(* share a cache key.                                                      *)
(***************************************************************************)
EXTENDS Naturals, Sequences

CONSTANTS
    Reviews, Prompts,
    CacheTTL,       \* _llm_cache_ttl
    LastMoment      \* bound on the clock

ASSUME LegacyAssumption == CacheTTL \in Nat \ {0} /\ LastMoment \in Nat

VARIABLES
    moment,         \* monotonic()
    useLLM,         \* use_llm_review of the first get_judiciary
    offlineMode,    \* EDUBOOST_OFFLINE_MODE
    modelsLoaded,   \* the inference server has its models
    prompt,         \* of a review
    violating,      \* reviews that _structural or _scan_prompts refuses
    askedAt,        \* now_ts of a review
    attempt,        \* how many of the gateway's attempts have failed
    stamp,          \* what a review returned
    llmCache,       \* _llm_cache: at most one entry of a prompt
    total, rejections

legacyVars == <<moment, useLLM, offlineMode, modelsLoaded, prompt, violating,
                askedAt, attempt, stamp, llmCache, total, rejections>>
settings == <<useLLM, offlineMode, prompt, violating>>

Statuses == {"APPROVED", "REJECTED"}
Moments == 0 .. LastMoment
None == [status |-> "none", source |-> "none", asked |-> 0]
Stamp == {None} \cup
    [status : Statuses, source : {"rules", "model", "failure", "cache"},
     asked : Moments]
Entry == [prompt : Prompts, status : Statuses, ts : Moments, asked : Moments]

LegacyTypeOK ==
    /\ moment \in Moments
    /\ useLLM \in BOOLEAN /\ offlineMode \in BOOLEAN /\ modelsLoaded \in BOOLEAN
    /\ prompt \in [Reviews -> Prompts] /\ violating \subseteq Reviews
    /\ askedAt \in [Reviews -> Moments]
    /\ attempt \in [Reviews -> 0 .. 5]
    /\ stamp \in [Reviews -> Stamp]
    /\ llmCache \subseteq Entry
    /\ total \in Nat /\ rejections \in Nat

LegacyInit ==
    /\ moment = 0
    /\ useLLM \in BOOLEAN /\ offlineMode \in BOOLEAN /\ modelsLoaded = FALSE
    /\ prompt \in [Reviews -> Prompts]
    /\ violating \in SUBSET Reviews
    /\ askedAt = [r \in Reviews |-> 0]
    /\ attempt = [r \in Reviews |-> 0]
    /\ stamp = [r \in Reviews |-> None]
    /\ llmCache = {}
    /\ total = 0 /\ rejections = 0

-----------------------------------------------------------------------------
Moment == /\ moment < LastMoment
          /\ moment' = moment + 1
          /\ UNCHANGED <<settings, modelsLoaded, askedAt, attempt, stamp,
                         llmCache, total, rejections>>

(* The server's lifespan: _load_models, and later _models.clear.           *)
ServerChanges == /\ modelsLoaded' = ~modelsLoaded
                 /\ UNCHANGED <<moment, settings, askedAt, attempt, stamp,
                                llmCache, total, rejections>>

(* call_llm: offline first where that is the mode, Groq twice (tenacity),  *)
(* Anthropic, Hugging Face.                                                *)
Attempts == (IF offlineMode THEN <<"offline">> ELSE <<>>)
                \o <<"groq", "groq", "anthropic", "huggingface">>

PendingReview(r) == attempt[r] > 0 /\ stamp[r] = None

ReturnStamp(r, status, source, asked) ==
    /\ stamp' = [stamp EXCEPT ![r] = [status |-> status, source |-> source,
                                      asked |-> asked]]
    /\ rejections' = rejections + IF status = "REJECTED" THEN 1 ELSE 0

Unexpired(e) == moment < e.ts + CacheTTL

(* review: the rules, then the cache, or else the first call of the model. *)
Review(r) ==
    /\ stamp[r] = None /\ attempt[r] = 0
    /\ total' = total + 1
    /\ IF r \in violating \/ ~useLLM
       THEN /\ ReturnStamp(r, IF r \in violating THEN "REJECTED"
                            ELSE "APPROVED", "rules", moment)
            /\ UNCHANGED <<askedAt, attempt>>
       ELSE \/ /\ \E e \in llmCache :
                     /\ e.prompt = prompt[r] /\ Unexpired(e)
                     /\ ReturnStamp(r, e.status, "cache", e.asked)
               /\ UNCHANGED <<askedAt, attempt>>
            \/ /\ ~\E e \in llmCache : e.prompt = prompt[r] /\ Unexpired(e)
               /\ askedAt' = [askedAt EXCEPT ![r] = moment]
               /\ attempt' = [attempt EXCEPT ![r] = 1]
               /\ UNCHANGED <<stamp, rejections>>
    /\ UNCHANGED <<moment, settings, modelsLoaded, llmCache>>

(* Seeded fault: the time is taken when the answer is there.               *)
CacheAtAnswer(r, verdict) ==
    llmCache' = {e \in llmCache : e.prompt # prompt[r]} \cup
        {[prompt |-> prompt[r], status |-> verdict, ts |-> moment,
          asked |-> askedAt[r]]}

(* self._llm_cache[key] = (status, reasoning, now_ts)                      *)
Cache(r, verdict) ==
    llmCache' = {e \in llmCache : e.prompt # prompt[r]} \cup
        {[prompt |-> prompt[r], status |-> verdict, ts |-> askedAt[r],
          asked |-> askedAt[r]]}

(* A provider answers; a text that starts with REJECT is a rejection.      *)
ProviderAnswers(r) ==
    /\ PendingReview(r)
    /\ Attempts[attempt[r]] = "offline" => modelsLoaded
    /\ \E verdict \in Statuses :
          /\ ReturnStamp(r, verdict, "model", askedAt[r])
          /\ Cache(r, verdict)
    /\ UNCHANGED <<moment, settings, modelsLoaded, askedAt, attempt, total>>

(* A provider fails: the next attempt, or after the last an approval that  *)
(* is cached like any other.                                               *)
GatewayFails(r) ==
    /\ PendingReview(r)
    /\ IF attempt[r] < Len(Attempts)
       THEN /\ attempt' = [attempt EXCEPT ![r] = @ + 1]
            /\ UNCHANGED <<stamp, rejections, llmCache>>
       ELSE /\ ReturnStamp(r, "APPROVED", "failure", askedAt[r])
            /\ Cache(r, "APPROVED")
            /\ UNCHANGED attempt
    /\ UNCHANGED <<moment, settings, modelsLoaded, askedAt, total>>

LegacyNext ==
    \/ Moment \/ ServerChanges
    \/ \E r \in Reviews : Review(r) \/ ProviderAnswers(r) \/ GatewayFails(r)

LegacySpec == LegacyInit /\ [][LegacyNext]_legacyVars

-----------------------------------------------------------------------------
(* A review that is answered from the cache is answered with a verdict     *)
(* that was asked for less than the TTL ago, however long the model took   *)
(* and whichever of two overlapping reviews was cached last.               *)
CachedVerdictsAreRecent ==
    [][\A r \in Reviews :
          stamp'[r] # stamp[r] /\ stamp'[r].source = "cache" =>
              moment < stamp'[r].asked + CacheTTL]_legacyVars
=============================================================================
