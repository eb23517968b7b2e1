----------------------------- MODULE Judiciary -----------------------------
(***************************************************************************)
(* judiciary-svc: the review pipeline of JudiciaryService                  *)
(* (app/api/judiciary/service.py) behind POST /review                      *)
(* (app/api/judiciary/main.py).                                            *)
(*                                                                         *)
(* Every POST /review is handled by one coroutine with a database session  *)
(* of its own; handlers of different actions interleave at every await     *)
(* that reaches PostgreSQL or the LLM.  One action of this module is the   *)
(* code between two such points, up to and including the commit.           *)
(*                                                                         *)
(* The parameters of an ExecutiveAction are abstracted to one bit, whether *)
(* the deterministic fast path objects to them; (agent_id, intent,         *)
(* rules_hash) is one cache key; a stamp_id is named after the action it   *)
(* was issued for and whether the review issued it or a cache hit did.     *)
(***************************************************************************)
EXTENDS Naturals, FiniteSets

CONSTANTS
    Actions,    \* action_ids, one for each run of a worker
    Keys,       \* the (agent_id, intent, rules_hash) triples in use
    TTL,        \* STAMP_CACHE_TTL_SECONDS, in clock ticks
    MaxTime,    \* bound on the clock
    MaxRules    \* bound on the versions of the rules, the first among them

ASSUME TTLAssumption == TTL \in Nat \ {0}
ASSUME BoundsAssumption == MaxTime \in Nat /\ MaxRules \in Nat \ {0}

VARIABLES
    clock,       \* now
    rules,       \* version of the constitutional_rules table
    action,      \* the ExecutiveActionIn a handler received
    phase,       \* where the handler of an action stands
    began,       \* now() of the transaction the handler's lookup opened
    grounds,     \* version of the rules the handler retrieved
    stamps,      \* rows of judiciary_stamps
    violations,  \* rows of constitutional_violations
    stampCache,  \* rows of judiciary_stamp_cache
    returned     \* JudiciaryStamp bodies sent back to the callers

tables == <<stamps, violations, stampCache>>
handlerVars == <<phase, began, grounds, tables, returned>>
judiciaryVars == <<clock, rules, action, handlerVars>>

Phases == {"idle", "received", "grounding", "reviewing",
           "rejected", "approved", "answered", "failed"}
Open == {"received", "grounding", "reviewing", "rejected", "approved"}

Verdicts == {"APPROVED", "REJECTED"}
StampIds == Actions \X {"issued", "cached"}
Issued(a) == <<a, "issued">>
Reissued(a) == <<a, "cached">>

ExecutiveActionIn == [key : Keys, flagged : BOOLEAN]

(* review names the action whose review wrote the reason, the checked      *)
(* rules and the reviewer version that the body carries.                   *)
JudiciaryStamp == [stamp_id : StampIds, action_id : Actions,
                   verdict : Verdicts, review : Actions]
JudiciaryStampORM == [stamp_id : StampIds, action_id : Actions,
                      verdict : Verdicts, created_at : Nat, grounds : Nat]
ConstitutionalViolationORM == [action_id : Actions, stamp_id : StampIds]
StampCacheRow == [key : Keys, stamp_id : StampIds]

TypeOK ==
    /\ clock \in Nat
    /\ rules \in Nat
    /\ action \in [Actions -> ExecutiveActionIn]
    /\ phase \in [Actions -> Phases]
    /\ began \in [Actions -> Nat]
    /\ grounds \in [Actions -> Nat]
    /\ stamps \subseteq JudiciaryStampORM
    /\ violations \subseteq ConstitutionalViolationORM
    /\ stampCache \subseteq StampCacheRow
    /\ returned \subseteq JudiciaryStamp

Init ==
    /\ clock = 0
    /\ rules = 1
    /\ action \in [Actions -> ExecutiveActionIn]
    /\ phase = [a \in Actions |-> "idle"]
    /\ began = [a \in Actions |-> 0]
    /\ grounds = [a \in Actions |-> 0]
    /\ stamps = {}
    /\ violations = {}
    /\ stampCache = {}
    /\ returned = {}

-----------------------------------------------------------------------------
(* Reads of the tables.                                                    *)

(* created_at > now - STAMP_CACHE_TTL_SECONDS *)
Fresh(created_at) == clock < created_at + TTL

(* Seeded fault: the ORM row is filled from the wrong identifier.          *)
StampRowOfAction(a, verdict, now, version) ==
    [stamp_id |-> a, action_id |-> a, verdict |-> verdict,
     created_at |-> now, grounds |-> version]

StampRow(a, verdict, now, version) ==
    [stamp_id |-> Issued(a), action_id |-> a, verdict |-> verdict,
     created_at |-> now, grounds |-> version]

Body(id, a, verdict, r) ==
    [stamp_id |-> id, action_id |-> a, verdict |-> verdict, review |-> r]

(* Seeded fault: the EXISTS subquery is not correlated with the key.       *)
CacheLookupAnyKey(k) ==
    {s \in stamps : /\ s.verdict = "APPROVED"
                    /\ Fresh(s.created_at)
                    /\ \E row \in stampCache : row.stamp_id = s.stamp_id}

(* Seeded fault: no cutoff on created_at.                                  *)
CacheLookupAnyAge(k) ==
    {s \in stamps : /\ s.verdict = "APPROVED"
                    /\ [key |-> k, stamp_id |-> s.stamp_id] \in stampCache}

(* _cache_lookup: APPROVED, younger than the TTL, and named by the cache   *)
(* row of the key.                                                         *)
CacheLookup(k) ==
    {s \in stamps : /\ s.verdict = "APPROVED"
                    /\ Fresh(s.created_at)
                    /\ [key |-> k, stamp_id |-> s.stamp_id] \in stampCache}

(* get_stamp: what GET /stamps/{action_id} can find; empty is its 404.     *)
GetStamp(a) == {s \in stamps : s.action_id = a}

-----------------------------------------------------------------------------
(* POST /review reaches the service.                                       *)
ReviewAction(a) ==
    /\ phase[a] = "idle"
    /\ phase' = [phase EXCEPT ![a] = "received"]
    /\ UNCHANGED <<clock, rules, action, began, grounds, tables, returned>>

(* _fast_path_check objects: the REJECTED stamp is committed before the    *)
(* violation, in a transaction of its own.                                 *)
FastReject(a) ==
    /\ phase[a] = "received"
    /\ action[a].flagged
    /\ stamps' = stamps \cup {StampRow(a, "REJECTED", clock, 0)}
    /\ phase' = [phase EXCEPT ![a] = "rejected"]
    /\ UNCHANGED <<clock, rules, action, began, grounds,
                   violations, stampCache, returned>>

(* Seeded fault: the cache is looked up before the fast path.              *)
CacheHitFirst(a) ==
    /\ phase[a] = "received"
    /\ \E s \in CacheLookup(action[a].key) :
          returned' = returned
            \cup {Body(Reissued(a), a, "APPROVED", s.action_id)}
    /\ phase' = [phase EXCEPT ![a] = "answered"]
    /\ UNCHANGED <<clock, rules, action, began, grounds, tables>>

(* A hit: the cached row under a new stamp_id and this action_id; nothing  *)
(* is written.                                                             *)
CacheHit(a) ==
    /\ phase[a] = "received"
    /\ ~action[a].flagged
    /\ \E s \in CacheLookup(action[a].key) :
          returned' = returned
            \cup {Body(Reissued(a), a, "APPROVED", s.action_id)}
    /\ phase' = [phase EXCEPT ![a] = "answered"]
    /\ UNCHANGED <<clock, rules, action, began, grounds, tables>>

(* A miss: the SELECT has opened the transaction in which the stamp will   *)
(* be inserted, so now() is fixed here, before the LLM is called.          *)
CacheMiss(a) ==
    /\ phase[a] = "received"
    /\ ~action[a].flagged
    /\ CacheLookup(action[a].key) = {}
    /\ began' = [began EXCEPT ![a] = clock]
    /\ phase' = [phase EXCEPT ![a] = "grounding"]
    /\ UNCHANGED <<clock, rules, action, grounds, tables, returned>>

(* _get_relevant_rules: the latest version in force when it is read.       *)
GetRelevantRules(a) ==
    /\ phase[a] = "grounding"
    /\ grounds' = [grounds EXCEPT ![a] = rules]
    /\ phase' = [phase EXCEPT ![a] = "reviewing"]
    /\ UNCHANGED <<clock, rules, action, began, tables, returned>>

(* Seeded fault: a rejection is asked again, its stamp already committed.  *)
LLMReviewRetries(a, verdict) ==
    /\ phase[a] = "reviewing"
    /\ stamps' = stamps \cup {StampRow(a, verdict, began[a], grounds[a])}
    /\ phase' = [phase EXCEPT
                   ![a] = IF verdict = "APPROVED" THEN "approved"
                                                  ELSE "reviewing"]
    /\ UNCHANGED <<clock, rules, action, began, grounds,
                   violations, stampCache, returned>>

(* Seeded fault: the transaction begins anew after the LLM's answer.       *)
LLMReviewNewTransaction(a, verdict) ==
    /\ phase[a] = "reviewing"
    /\ stamps' = stamps \cup {StampRow(a, verdict, clock, grounds[a])}
    /\ phase' = [phase EXCEPT
                   ![a] = IF verdict = "APPROVED" THEN "approved"
                                                  ELSE "rejected"]
    /\ UNCHANGED <<clock, rules, action, began, grounds,
                   violations, stampCache, returned>>

(* _llm_review answers, or raises and the review fails closed, and the     *)
(* stamp is committed.                                                     *)
LLMReview(a, verdict) ==
    /\ phase[a] = "reviewing"
    /\ stamps' = stamps \cup {StampRow(a, verdict, began[a], grounds[a])}
    /\ phase' = [phase EXCEPT
                   ![a] = IF verdict = "APPROVED" THEN "approved"
                                                  ELSE "rejected"]
    /\ UNCHANGED <<clock, rules, action, began, grounds,
                   violations, stampCache, returned>>

(* Seeded fault: the rejection is returned without its violation.          *)
RejectUnrecorded(a) ==
    /\ phase[a] = "rejected"
    /\ returned' = returned \cup {Body(Issued(a), a, "REJECTED", a)}
    /\ phase' = [phase EXCEPT ![a] = "answered"]
    /\ UNCHANGED <<clock, rules, action, began, grounds, tables>>

(* _record_violation commits and the rejection is returned.                *)
RecordViolation(a) ==
    /\ phase[a] = "rejected"
    /\ violations' = violations
         \cup {[action_id |-> a, stamp_id |-> Issued(a)]}
    /\ returned' = returned \cup {Body(Issued(a), a, "REJECTED", a)}
    /\ phase' = [phase EXCEPT ![a] = "answered"]
    /\ UNCHANGED <<clock, rules, action, began, grounds, stamps, stampCache>>

(* Seeded fault: the row of the key is replaced.                           *)
StoredRowsUpsert(k, id) ==
    {row \in stampCache : row.key # k} \cup {[key |-> k, stamp_id |-> id]}

(* _cache_store: ON CONFLICT DO NOTHING on uq_stamp_cache_key; then the    *)
(* approval is returned.                                                   *)
StoredRows(k, id) ==
    IF \E row \in stampCache : row.key = k
    THEN stampCache
    ELSE stampCache \cup {[key |-> k, stamp_id |-> id]}

(* Seeded fault: without ON CONFLICT a taken key raises for ever.          *)
CacheStoreOnce(a) ==
    /\ phase[a] = "approved"
    /\ ~\E row \in stampCache : row.key = action[a].key
    /\ stampCache' = StoredRows(action[a].key, Issued(a))
    /\ returned' = returned \cup {Body(Issued(a), a, "APPROVED", a)}
    /\ phase' = [phase EXCEPT ![a] = "answered"]
    /\ UNCHANGED <<clock, rules, action, began, grounds, stamps, violations>>

CacheStore(a) ==
    /\ phase[a] = "approved"
    /\ stampCache' = StoredRows(action[a].key, Issued(a))
    /\ returned' = returned \cup {Body(Issued(a), a, "APPROVED", a)}
    /\ phase' = [phase EXCEPT ![a] = "answered"]
    /\ UNCHANGED <<clock, rules, action, began, grounds, stamps, violations>>

(* Any await of an open handler may raise (PostgreSQL gone, the process    *)
(* killed): what is committed stays, the caller gets a 500 or no answer.   *)
ReviewError(a) ==
    /\ phase[a] \in Open
    /\ phase' = [phase EXCEPT ![a] = "failed"]
    /\ UNCHANGED <<clock, rules, action, began, grounds, tables, returned>>

(* LegislatureAgent inserts a newer version of a rule (agent.py).          *)
AmendRules ==
    /\ rules < MaxRules
    /\ rules' = rules + 1
    /\ UNCHANGED <<clock, action, handlerVars>>

Tick ==
    /\ clock < MaxTime
    /\ clock' = clock + 1
    /\ UNCHANGED <<rules, action, handlerVars>>

Handle(a) ==
    \/ FastReject(a)
    \/ CacheHit(a)
    \/ CacheMiss(a)
    \/ GetRelevantRules(a)
    \/ \E verdict \in Verdicts : LLMReview(a, verdict)
    \/ RecordViolation(a)
    \/ CacheStore(a)

Next ==
    \/ \E a \in Actions : ReviewAction(a) \/ Handle(a) \/ ReviewError(a)
    \/ AmendRules
    \/ Tick

Spec == Init /\ [][Next]_judiciaryVars

(* The event loop runs every handler whose awaited call has returned, and  *)
(* every call it makes returns or raises (httpx and driver timeouts).      *)
FairSpec == Spec /\ \A a \in Actions : WF_judiciaryVars(Handle(a))

-----------------------------------------------------------------------------
(* An approval that leaves the service rests on a committed APPROVED stamp *)
(* that a review of an action with the same agent, intent and claimed      *)
(* rules produced: a cache hit (service.py, review step 2) never answers   *)
(* for another key, nor from a rejected or uncommitted stamp.              *)
ApprovalRestsOnReview ==
    \A j \in returned : j.verdict = "APPROVED" =>
        \E s \in stamps : /\ s.stamp_id = Issued(j.review)
                          /\ s.verdict = "APPROVED"
                          /\ action[j.review].key = action[j.action_id].key
                          /\ ~action[j.review].flagged

(* The fast path is a gate that no later step can undo: an action whose    *)
(* parameters it objects to is neither stamped APPROVED nor answered from  *)
(* the approval of a clean action with the same key.                       *)
FlaggedNeverApproved ==
    \A a \in Actions : action[a].flagged =>
        /\ \A s \in stamps : s.action_id = a => s.verdict = "REJECTED"
        /\ \A j \in returned : j.action_id = a => j.verdict = "REJECTED"

(* The two commits of a rejection are ordered: a violation row always      *)
(* names a committed REJECTED stamp of its own action, and a caller is     *)
(* told REJECTED only once the violation is on record.                     *)
RejectionOnRecord ==
    /\ \A v \in violations : \E s \in GetStamp(v.action_id) :
          s.stamp_id = v.stamp_id /\ s.verdict = "REJECTED"
    /\ \A j \in returned : j.verdict = "REJECTED" =>
          [action_id |-> j.action_id, stamp_id |-> j.stamp_id] \in violations

(* No action gets two different answers from the tables and the caller:    *)
(* at most one stamp row, and the body returned agrees with it.            *)
OneVerdict ==
    \A a \in Actions :
        /\ \A s, t \in GetStamp(a) : s = t
        /\ \A s \in GetStamp(a), j \in returned :
              j.action_id = a => j.verdict = s.verdict

(* A cache hit is never older than the TTL, counted from the moment the    *)
(* original review looked in the cache (created_at is the start of that    *)
(* transaction), however long the LLM took to answer it.                   *)
FreshHits ==
    \A j \in returned' \ returned : j.stamp_id = Reissued(j.action_id) =>
        \E s \in stamps : s.stamp_id = Issued(j.review) /\ Fresh(s.created_at)

HitsAreFresh == [][FreshHits]_judiciaryVars

(* A key whose cached approval has run out never hits again: _cache_store  *)
(* does nothing for a key that has a row (service.py:323), and no row is   *)
(* ever removed.  From then on each of its actions costs a model call.     *)
Cold(k) == (\E row \in stampCache : row.key = k) /\ CacheLookup(k) = {}

ColdKeysStayCold == [][\A k \in Keys : Cold(k) => Cold(k)']_judiciaryVars

(* Every review that reaches the service ends: answered, or failed.        *)
ReviewsEnd == \A a \in Actions :
    phase[a] = "received" ~> phase[a] \in {"answered", "failed"}

-----------------------------------------------------------------------------
(* What the documentation says and the code does not do.                   *)

(* docs/five_pillars.md: the Judiciary always retrieves the latest version *)
(* of a rule.  An approval is grounded in the version in force when its    *)
(* action was looked up.                                                   *)
GroundedInLatestRules ==
    [][\A j \in returned' \ returned : j.stamp_id = Reissued(j.action_id) =>
          \E s \in stamps : /\ s.stamp_id = Issued(j.review)
                            /\ s.grounds = rules]_judiciaryVars
=============================================================================
