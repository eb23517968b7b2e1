-------------------------- MODULE JudiciaryProofs --------------------------
(***************************************************************************)
(* Theorems about Judiciary, and about RulesHistory, for any actions,      *)
(* keys, TTL and bounds.                                                   *)
(*                                                                         *)
(* None of the safety properties of Judiciary is inductive by itself: that *)
(* an answer agrees with the tables depends on which phases of a handler   *)
(* can still write, and that a cache hit rests on a review depends on what *)
(* the rows of the cache point to.  IndInv adds those two facts.           *)
(***************************************************************************)
EXTENDS RulesHistory, TLAPS

(* Where a stamp row comes from: its own action's review, which has left   *)
(* the phases that write stamps, and an approval is of clean parameters.   *)
StampsMatchPhase ==
    \A s \in stamps :
        /\ s.stamp_id = Issued(s.action_id)
        /\ phase[s.action_id] \in {"rejected", "approved", "answered", "failed"}
        /\ s.verdict = "APPROVED" => ~action[s.action_id].flagged
        /\ phase[s.action_id] = "rejected" => s.verdict = "REJECTED"
        /\ phase[s.action_id] = "approved" => s.verdict = "APPROVED"

OneStamp == \A s, t \in stamps : s.action_id = t.action_id => s = t

(* A handler past its commit has its row in the table, and only clean      *)
(* actions get as far as the LLM.                                          *)
PhaseHasStamp ==
    \A a \in Actions :
        /\ phase[a] \in {"grounding", "reviewing"} => ~action[a].flagged
        /\ phase[a] \in {"rejected", "approved"} =>
              \E s \in stamps : s.action_id = a

CacheRowsApproved ==
    \A row \in stampCache : \E s \in stamps :
        /\ s.stamp_id = row.stamp_id
        /\ s.verdict = "APPROVED"
        /\ action[s.action_id].key = row.key

ViolationsOnRecord ==
    \A v \in violations : \E s \in stamps :
        /\ s.action_id = v.action_id
        /\ s.stamp_id = v.stamp_id
        /\ s.verdict = "REJECTED"

(* The three ways a body leaves the service.                               *)
RejectedBody(j) ==
    /\ j.verdict = "REJECTED"
    /\ [action_id |-> j.action_id, stamp_id |-> j.stamp_id] \in violations

ApprovedBody(j) ==
    /\ j.verdict = "APPROVED"
    /\ j.stamp_id = Issued(j.action_id)
    /\ j.review = j.action_id
    /\ \E s \in stamps : s.action_id = j.action_id /\ s.verdict = "APPROVED"

CachedBody(j) ==
    /\ j.verdict = "APPROVED"
    /\ ~action[j.action_id].flagged
    /\ \A s \in stamps : s.action_id # j.action_id
    /\ \E s \in stamps : /\ s.stamp_id = Issued(j.review)
                         /\ s.verdict = "APPROVED"
                         /\ s.action_id = j.review
                         /\ action[j.review].key = action[j.action_id].key

BodiesOnRecord ==
    \A j \in returned : /\ phase[j.action_id] = "answered"
                        /\ RejectedBody(j) \/ ApprovedBody(j) \/ CachedBody(j)

IndInv ==
    /\ TypeOK
    /\ StampsMatchPhase
    /\ OneStamp
    /\ PhaseHasStamp
    /\ CacheRowsApproved
    /\ ViolationsOnRecord
    /\ BodiesOnRecord

-----------------------------------------------------------------------------

LEMMA StampIdsDiffer ==
    /\ \A a, b \in Actions : Issued(a) = Issued(b) => a = b
    /\ \A a, b \in Actions : Issued(a) # Reissued(b)
BY DEF Issued, Reissued

LEMMA InitEstablishesIndInv == Init => IndInv
BY BoundsAssumption
DEF Init, IndInv, TypeOK, StampsMatchPhase, OneStamp, PhaseHasStamp,
    CacheRowsApproved, ViolationsOnRecord, BodiesOnRecord, Phases

(* Every step keeps the types; with TypeOK true initially this is the type *)
(* correctness of the service.                                             *)
LEMMA TypeOKPreserved == TypeOK /\ [Next]_judiciaryVars => TypeOK'
<1> SUFFICES ASSUME TypeOK, [Next]_judiciaryVars PROVE TypeOK'
  OBVIOUS
<1> USE DEF TypeOK, tables, handlerVars
<1>1. ASSUME NEW a \in Actions, ReviewAction(a) PROVE TypeOK'
  BY <1>1 DEF ReviewAction, Phases
<1>2. ASSUME NEW a \in Actions, FastReject(a) PROVE TypeOK'
  BY <1>2 DEF FastReject, Phases, StampRow, JudiciaryStampORM, StampIds,
              Issued, Verdicts
<1>3. ASSUME NEW a \in Actions, CacheHit(a) PROVE TypeOK'
  BY <1>3 DEF CacheHit, CacheLookup, Phases, Body, JudiciaryStamp, StampIds,
              Reissued, Verdicts, JudiciaryStampORM
<1>4. ASSUME NEW a \in Actions, CacheMiss(a) PROVE TypeOK'
  BY <1>4 DEF CacheMiss, Phases
<1>5. ASSUME NEW a \in Actions, GetRelevantRules(a) PROVE TypeOK'
  BY <1>5 DEF GetRelevantRules, Phases
<1>6. ASSUME NEW a \in Actions, NEW v \in Verdicts, LLMReview(a, v)
      PROVE  TypeOK'
  BY <1>6 DEF LLMReview, Phases, StampRow, JudiciaryStampORM, StampIds,
              Issued, Verdicts
<1>7. ASSUME NEW a \in Actions, RecordViolation(a) PROVE TypeOK'
  BY <1>7 DEF RecordViolation, Phases, Body, JudiciaryStamp, StampIds,
              Issued, Verdicts, ConstitutionalViolationORM
<1>8. ASSUME NEW a \in Actions, CacheStore(a) PROVE TypeOK'
  <2>1. stampCache' \subseteq StampCacheRow
    BY <1>8 DEF CacheStore, StoredRows, StampCacheRow, StampIds, Issued,
                ExecutiveActionIn
  <2>2. returned' \subseteq JudiciaryStamp
    BY <1>8 DEF CacheStore, Body, JudiciaryStamp, StampIds, Issued, Verdicts
  <2> QED
    BY <1>8, <2>1, <2>2 DEF CacheStore, Phases
<1>9. ASSUME NEW a \in Actions, ReviewError(a) PROVE TypeOK'
  BY <1>9 DEF ReviewError, Phases
<1>10. CASE AmendRules
  BY <1>10 DEF AmendRules
<1>11. CASE Tick
  BY <1>11 DEF Tick
<1>12. CASE UNCHANGED judiciaryVars
  BY <1>12 DEF judiciaryVars
<1> QED
  BY <1>1, <1>2, <1>3, <1>4, <1>5, <1>6, <1>7, <1>8, <1>9, <1>10, <1>11,
     <1>12 DEF Next, Handle

(* A step of the handler of a that only adds rows, and stamps only for a,  *)
(* leaves every body sent before it on record: a has not answered yet.     *)
OnRecord(j) == /\ phase[j.action_id] = "answered"
               /\ RejectedBody(j) \/ ApprovedBody(j) \/ CachedBody(j)

LEMMA OldBodiesStay ==
    ASSUME TypeOK, BodiesOnRecord, NEW a \in Actions, phase[a] # "answered",
           NEW p \in Phases, phase' = [phase EXCEPT ![a] = p],
           action' = action, stamps \subseteq stamps',
           violations \subseteq violations',
           \A s \in stamps' \ stamps : s.action_id = a
    PROVE  \A j \in returned : OnRecord(j)'
<1> SUFFICES ASSUME NEW j \in returned PROVE OnRecord(j)'
  OBVIOUS
<1>1. /\ phase[j.action_id] = "answered" /\ j.action_id # a
      /\ j.action_id \in Actions
  BY DEF BodiesOnRecord, TypeOK, JudiciaryStamp
<1>2. phase'[j.action_id] = "answered"
  BY <1>1 DEF TypeOK
<1>3. CASE RejectedBody(j)
  BY <1>2, <1>3 DEF OnRecord, RejectedBody
<1>4. CASE ApprovedBody(j)
  BY <1>2, <1>4 DEF OnRecord, ApprovedBody
<1>5. CASE CachedBody(j)
  BY <1>1, <1>2, <1>5 DEF OnRecord, CachedBody
<1> QED
  BY <1>3, <1>4, <1>5 DEF BodiesOnRecord

(* The inductive step, one case for each action.  Steps that commit a row  *)
(* or send a body are split into the parts of IndInv they disturb.         *)
LEMMA IndInvPreserved == IndInv /\ [Next]_judiciaryVars => IndInv'
<1> SUFFICES ASSUME IndInv, [Next]_judiciaryVars PROVE IndInv'
  OBVIOUS
<1>0. TypeOK'
  BY TypeOKPreserved DEF IndInv
<1> DEFINE Rest == /\ StampsMatchPhase' /\ OneStamp' /\ PhaseHasStamp'
                   /\ CacheRowsApproved' /\ ViolationsOnRecord'
                   /\ BodiesOnRecord'
<1> SUFFICES Rest
  BY <1>0 DEF IndInv
<1> USE DEF IndInv, TypeOK
<1>1. ASSUME NEW a \in Actions, ReviewAction(a) PROVE Rest
  BY <1>1 DEF ReviewAction, tables, StampsMatchPhase, OneStamp, PhaseHasStamp,
     CacheRowsApproved, ViolationsOnRecord, BodiesOnRecord, RejectedBody,
     ApprovedBody, CachedBody, JudiciaryStampORM, JudiciaryStamp
<1>2. ASSUME NEW a \in Actions, FastReject(a) PROVE Rest
  <2> USE <1>2 DEF FastReject
  <2> DEFINE new == StampRow(a, "REJECTED", clock, 0)
  <2>1. \A s \in stamps : s.action_id # a
    BY DEF StampsMatchPhase
  <2>2. /\ new.action_id = a /\ new.stamp_id = Issued(a)
        /\ new.verdict = "REJECTED" /\ new \in stamps'
    BY DEF StampRow
  <2>3. StampsMatchPhase'
    BY <2>1, <2>2 DEF StampsMatchPhase, JudiciaryStampORM
  <2>4. OneStamp'
    BY <2>1, <2>2 DEF OneStamp
  <2>5. PhaseHasStamp'
    BY <2>2 DEF PhaseHasStamp
  <2>6. CacheRowsApproved' /\ ViolationsOnRecord'
    BY DEF CacheRowsApproved, ViolationsOnRecord
  <2>7. BodiesOnRecord'
    BY <2>2, OldBodiesStay DEF BodiesOnRecord, OnRecord, Phases
  <2> QED
    BY <2>3, <2>4, <2>5, <2>6, <2>7
<1>3. ASSUME NEW a \in Actions, CacheHit(a) PROVE Rest
  <2> USE <1>3 DEF CacheHit, tables
  <2>1. PICK s \in CacheLookup(action[a].key) :
          returned' = returned
            \cup {Body(Reissued(a), a, "APPROVED", s.action_id)}
    OBVIOUS
  <2> DEFINE j == Body(Reissued(a), a, "APPROVED", s.action_id)
  <2>2. /\ s \in stamps /\ s.verdict = "APPROVED"
        /\ s.stamp_id = Issued(s.action_id) /\ s.action_id \in Actions
        /\ action[s.action_id].key = action[a].key
    <3>1. s \in stamps /\ s.verdict = "APPROVED"
          /\ [key |-> action[a].key, stamp_id |-> s.stamp_id] \in stampCache
      BY DEF CacheLookup
    <3>2. s.stamp_id = Issued(s.action_id) /\ s.action_id \in Actions
      BY <3>1 DEF StampsMatchPhase, JudiciaryStampORM
    <3>3. PICK t \in stamps : /\ t.stamp_id = s.stamp_id
                              /\ action[t.action_id].key = action[a].key
      BY <3>1 DEF CacheRowsApproved
    <3>4. t.action_id = s.action_id
      BY <3>2, <3>3, StampIdsDiffer DEF StampsMatchPhase, JudiciaryStampORM
    <3> QED
      BY <3>1, <3>2, <3>3, <3>4
  <2>3. \A t \in stamps : t.action_id # a
    BY DEF StampsMatchPhase
  <2>4. /\ j.action_id = a /\ j.verdict = "APPROVED"
        /\ j.review = s.action_id
    BY DEF Body
  <2>5. CachedBody(j)'
    BY <2>2, <2>3, <2>4 DEF CachedBody
  <2>6. BodiesOnRecord'
    BY <2>1, <2>4, <2>5, OldBodiesStay DEF BodiesOnRecord, OnRecord, Phases
  <2>7. StampsMatchPhase' /\ PhaseHasStamp'
    BY DEF StampsMatchPhase, PhaseHasStamp, JudiciaryStampORM
  <2> QED
    BY <2>6, <2>7 DEF OneStamp, CacheRowsApproved, ViolationsOnRecord
<1>4. ASSUME NEW a \in Actions, CacheMiss(a) PROVE Rest
  BY <1>4 DEF CacheMiss, tables, StampsMatchPhase, OneStamp, PhaseHasStamp,
     CacheRowsApproved, ViolationsOnRecord, BodiesOnRecord, RejectedBody,
     ApprovedBody, CachedBody, JudiciaryStampORM, JudiciaryStamp
<1>5. ASSUME NEW a \in Actions, GetRelevantRules(a) PROVE Rest
  BY <1>5 DEF GetRelevantRules, tables, StampsMatchPhase, OneStamp,
     PhaseHasStamp, CacheRowsApproved, ViolationsOnRecord, BodiesOnRecord,
     RejectedBody, ApprovedBody, CachedBody, JudiciaryStampORM, JudiciaryStamp
<1>6. ASSUME NEW a \in Actions, NEW v \in Verdicts, LLMReview(a, v)
      PROVE  Rest
  <2> USE <1>6 DEF LLMReview
  <2> DEFINE new == StampRow(a, v, began[a], grounds[a])
  <2>1. \A s \in stamps : s.action_id # a
    BY DEF StampsMatchPhase
  <2>2. /\ new.action_id = a /\ new.stamp_id = Issued(a)
        /\ new.verdict = v /\ new \in stamps'
    BY DEF StampRow
  <2>3. ~action[a].flagged
    BY DEF PhaseHasStamp
  <2>4. StampsMatchPhase'
    BY <2>1, <2>2, <2>3 DEF StampsMatchPhase, JudiciaryStampORM, Verdicts
  <2>5. OneStamp'
    BY <2>1, <2>2 DEF OneStamp
  <2>6. PhaseHasStamp'
    BY <2>2 DEF PhaseHasStamp
  <2>7. CacheRowsApproved' /\ ViolationsOnRecord'
    BY DEF CacheRowsApproved, ViolationsOnRecord
  <2>8. BodiesOnRecord'
    BY <2>2, OldBodiesStay DEF BodiesOnRecord, OnRecord, Phases
  <2> QED
    BY <2>4, <2>5, <2>6, <2>7, <2>8
<1>7. ASSUME NEW a \in Actions, RecordViolation(a) PROVE Rest
  <2> USE <1>7 DEF RecordViolation
  <2> DEFINE v == [action_id |-> a, stamp_id |-> Issued(a)]
             j == Body(Issued(a), a, "REJECTED", a)
  <2>1. PICK s \in stamps : /\ s.action_id = a
                            /\ s.stamp_id = Issued(a)
                            /\ s.verdict = "REJECTED"
    BY DEF PhaseHasStamp, StampsMatchPhase
  <2>2. ViolationsOnRecord'
    BY <2>1 DEF ViolationsOnRecord
  <2>3. /\ j.action_id = a /\ j.verdict = "REJECTED"
        /\ j.stamp_id = Issued(a) /\ v \in violations'
    BY DEF Body
  <2>4. BodiesOnRecord'
    <3>1. RejectedBody(j)'
      BY <2>3 DEF RejectedBody
    <3> QED
      BY <2>3, <3>1, OldBodiesStay DEF BodiesOnRecord, OnRecord, Phases
  <2>5. StampsMatchPhase' /\ PhaseHasStamp'
    BY DEF StampsMatchPhase, PhaseHasStamp, JudiciaryStampORM
  <2> QED
    BY <2>2, <2>4, <2>5 DEF OneStamp, CacheRowsApproved
<1>8. ASSUME NEW a \in Actions, CacheStore(a) PROVE Rest
  <2> USE <1>8 DEF CacheStore
  <2> DEFINE j == Body(Issued(a), a, "APPROVED", a)
  <2>1. PICK s \in stamps : /\ s.action_id = a
                            /\ s.stamp_id = Issued(a)
                            /\ s.verdict = "APPROVED"
    BY DEF PhaseHasStamp, StampsMatchPhase
  <2>2. CacheRowsApproved'
    BY <2>1 DEF CacheRowsApproved, StoredRows
  <2>3. /\ j.action_id = a /\ j.verdict = "APPROVED"
        /\ j.stamp_id = Issued(a) /\ j.review = a
    BY DEF Body
  <2>4. BodiesOnRecord'
    <3>1. ApprovedBody(j)'
      BY <2>1, <2>3 DEF ApprovedBody
    <3> QED
      BY <2>3, <3>1, OldBodiesStay DEF BodiesOnRecord, OnRecord, Phases
  <2>5. StampsMatchPhase' /\ PhaseHasStamp'
    BY DEF StampsMatchPhase, PhaseHasStamp, JudiciaryStampORM
  <2> QED
    BY <2>2, <2>4, <2>5 DEF OneStamp, ViolationsOnRecord
<1>9. ASSUME NEW a \in Actions, ReviewError(a) PROVE Rest
  BY <1>9 DEF ReviewError, Open, tables, StampsMatchPhase, OneStamp,
     PhaseHasStamp, CacheRowsApproved, ViolationsOnRecord, BodiesOnRecord,
     RejectedBody, ApprovedBody, CachedBody, JudiciaryStampORM, JudiciaryStamp
<1>10. CASE AmendRules \/ Tick \/ UNCHANGED judiciaryVars
  BY <1>10 DEF AmendRules, Tick, judiciaryVars, handlerVars, tables,
     StampsMatchPhase, OneStamp, PhaseHasStamp, CacheRowsApproved,
     ViolationsOnRecord, BodiesOnRecord, RejectedBody, ApprovedBody, CachedBody
<1> QED
  BY <1>1, <1>2, <1>3, <1>4, <1>5, <1>6, <1>7, <1>8, <1>9, <1>10
  DEF Next, Handle

LEMMA IndInvAlways == Spec => []IndInv
BY InitEstablishesIndInv, IndInvPreserved, PTL DEF Spec

-----------------------------------------------------------------------------

(* The tables and the handlers keep their types.                           *)
THEOREM JudiciaryTypeCorrect == Spec => []TypeOK
BY IndInvAlways, PTL DEF IndInv

(* For any number of concurrent reviews, keys, TTL and failures, every     *)
(* approval sent by the service rests on a committed APPROVED stamp of a   *)
(* reviewed, clean action with the same key.                               *)
THEOREM ApprovalsRestOnReviews == Spec => []ApprovalRestsOnReview
<1>1. IndInv => ApprovalRestsOnReview
  <2> SUFFICES ASSUME IndInv, NEW j \in returned, j.verdict = "APPROVED"
               PROVE  \E s \in stamps :
                        /\ s.stamp_id = Issued(j.review)
                        /\ s.verdict = "APPROVED"
                        /\ action[j.review].key = action[j.action_id].key
                        /\ ~action[j.review].flagged
    BY DEF ApprovalRestsOnReview
  <2>1. CASE ApprovedBody(j)
    BY <2>1 DEF ApprovedBody, IndInv, StampsMatchPhase
  <2>2. CASE CachedBody(j)
    BY <2>2 DEF CachedBody, IndInv, StampsMatchPhase
  <2> QED
    BY <2>1, <2>2 DEF IndInv, BodiesOnRecord, RejectedBody
<1> QED
  BY <1>1, IndInvAlways, PTL

(* Neither a review nor the cache approves parameters the fast path        *)
(* objects to.                                                             *)
THEOREM FlaggedStaysRejected == Spec => []FlaggedNeverApproved
<1>1. IndInv => FlaggedNeverApproved
  <2> SUFFICES ASSUME IndInv, NEW a \in Actions, action[a].flagged
               PROVE  /\ \A s \in stamps : s.action_id = a
                                             => s.verdict = "REJECTED"
                      /\ \A j \in returned : j.action_id = a
                                               => j.verdict = "REJECTED"
    BY DEF FlaggedNeverApproved
  <2>1. \A s \in stamps : s.action_id = a => s.verdict = "REJECTED"
    BY DEF IndInv, TypeOK, StampsMatchPhase, JudiciaryStampORM, Verdicts
  <2>2. ASSUME NEW j \in returned, j.action_id = a
        PROVE  j.verdict = "REJECTED"
    BY <2>1, <2>2 DEF IndInv, BodiesOnRecord, RejectedBody, ApprovedBody,
                      CachedBody
  <2> QED
    BY <2>1, <2>2
<1> QED
  BY <1>1, IndInvAlways, PTL

(* A caller that is told REJECTED can rely on the stamp and the violation  *)
(* being on record, and no violation is recorded without its stamp.        *)
THEOREM RejectionsOnRecord == Spec => []RejectionOnRecord
<1>1. IndInv => RejectionOnRecord
  BY DEF IndInv, RejectionOnRecord, GetStamp, ViolationsOnRecord,
         BodiesOnRecord, RejectedBody, ApprovedBody, CachedBody
<1> QED
  BY <1>1, IndInvAlways, PTL

(* The table and the caller never disagree about an action.                *)
THEOREM VerdictsAgree == Spec => []OneVerdict
<1>1. IndInv => OneVerdict
  <2> SUFFICES ASSUME IndInv, NEW a \in Actions
               PROVE  /\ \A s, t \in GetStamp(a) : s = t
                      /\ \A s \in GetStamp(a), j \in returned :
                            j.action_id = a => j.verdict = s.verdict
    BY DEF OneVerdict
  <2>1. \A s, t \in GetStamp(a) : s = t
    BY DEF IndInv, OneStamp, GetStamp
  <2>2. ASSUME NEW s \in stamps, s.action_id = a,
               NEW j \in returned, j.action_id = a
        PROVE  j.verdict = s.verdict
    <3>1. CASE RejectedBody(j)
      <4>1. PICK t \in stamps : t.action_id = a /\ t.verdict = "REJECTED"
        BY <2>2, <3>1 DEF RejectedBody, IndInv, ViolationsOnRecord
      <4> QED
        BY <2>2, <3>1, <4>1 DEF IndInv, OneStamp, RejectedBody
    <3>2. CASE ApprovedBody(j)
      BY <2>2, <3>2 DEF IndInv, OneStamp, ApprovedBody
    <3>3. CASE CachedBody(j)
      BY <2>2, <3>3 DEF CachedBody
    <3> QED
      BY <3>1, <3>2, <3>3 DEF IndInv, BodiesOnRecord
  <2> QED
    BY <2>1, <2>2 DEF GetStamp
<1> QED
  BY <1>1, IndInvAlways, PTL

(* Only a hit answers under a stamp_id of its own making.                  *)
LEMMA OnlyHitsReissue ==
    ASSUME Next, NEW j \in returned' \ returned,
           j.stamp_id = Reissued(j.action_id)
    PROVE  \E a \in Actions :
              /\ CacheHit(a)
              /\ \E s \in CacheLookup(action[a].key) :
                     j = Body(Reissued(a), a, "APPROVED", s.action_id)
<1>1. ASSUME NEW a \in Actions, CacheHit(a)
      PROVE  \E s \in CacheLookup(action[a].key) :
                j = Body(Reissued(a), a, "APPROVED", s.action_id)
  BY <1>1 DEF CacheHit
<1>2. ASSUME NEW a \in Actions, RecordViolation(a) \/ CacheStore(a)
      PROVE  FALSE
  <2>1. j.stamp_id = Issued(a)
    BY <1>2 DEF RecordViolation, CacheStore, Body
  <2>2. j.action_id = a
    BY <1>2 DEF RecordViolation, CacheStore, Body
  <2> QED
    BY <2>1, <2>2, StampIdsDiffer
<1>3. returned' # returned
  OBVIOUS
<1> QED
  BY <1>1, <1>2, <1>3 DEF Next, Handle, ReviewAction, FastReject, CacheMiss,
     GetRelevantRules, LLMReview, ReviewError, AmendRules, Tick, handlerVars

(* A hit never serves an approval older than the TTL.                      *)
THEOREM CacheHitsAreFresh == Spec => HitsAreFresh
<1>1. IndInv /\ [Next]_judiciaryVars => [FreshHits]_judiciaryVars
  <2> SUFFICES ASSUME IndInv, Next,
                      NEW j \in returned' \ returned,
                      j.stamp_id = Reissued(j.action_id)
               PROVE  \E s \in stamps : /\ s.stamp_id = Issued(j.review)
                                        /\ Fresh(s.created_at)
    BY DEF FreshHits
  <2>0. PICK a \in Actions :
            \E s \in CacheLookup(action[a].key) :
                j = Body(Reissued(a), a, "APPROVED", s.action_id)
    BY OnlyHitsReissue
  <2>1. PICK s \in CacheLookup(action[a].key) :
            j = Body(Reissued(a), a, "APPROVED", s.action_id)
    BY <2>0
  <2>2. s \in stamps /\ Fresh(s.created_at) /\ j.review = s.action_id
    BY <2>1 DEF CacheLookup, Body
  <2> QED
    BY <2>2 DEF IndInv, StampsMatchPhase
<1> QED
  BY <1>1, IndInvAlways, PTL DEF Spec, HitsAreFresh

(* What a step can do to the tables and to the clock.                      *)
LEMMA TablesOnlyGrow ==
    ASSUME IndInv, Next
    PROVE  /\ clock \in Nat /\ clock' \in Nat /\ clock <= clock'
           /\ stamps \subseteq stamps'
           /\ stampCache \subseteq stampCache'
           /\ \A row \in stampCache' \ stampCache : \A old \in stampCache :
                  old.key # row.key
<1> USE DEF IndInv, TypeOK
<1>1. ASSUME NEW a \in Actions, CacheStore(a)
      PROVE  /\ clock' = clock /\ stamps' = stamps
             /\ stampCache \subseteq stampCache'
             /\ \A row \in stampCache' \ stampCache : \A old \in stampCache :
                    old.key # row.key
  BY <1>1 DEF CacheStore, StoredRows
<1>2. CASE Tick
  BY <1>2 DEF Tick, handlerVars, tables
<1>3. ASSUME NEW a \in Actions, FastReject(a) \/ \E v \in Verdicts : LLMReview(a, v)
      PROVE  clock' = clock /\ stamps \subseteq stamps' /\ stampCache' = stampCache
  BY <1>3 DEF FastReject, LLMReview
<1>4. ASSUME NEW a \in Actions,
             ReviewAction(a) \/ CacheHit(a) \/ CacheMiss(a) \/ GetRelevantRules(a)
               \/ RecordViolation(a) \/ ReviewError(a)
      PROVE  clock' = clock /\ stamps' = stamps /\ stampCache' = stampCache
  BY <1>4 DEF ReviewAction, CacheHit, CacheMiss, GetRelevantRules,
              RecordViolation, ReviewError, tables
<1>5. CASE AmendRules
  BY <1>5 DEF AmendRules, handlerVars, tables
<1> QED
  BY <1>1, <1>2, <1>3, <1>4, <1>5 DEF Next, Handle

(* However reviews overlap, a key whose approval has run out is not        *)
(* answered from the cache again, for any TTL and any number of reviews.   *)
THEOREM ColdKeysAreNeverWarmed == Spec => ColdKeysStayCold
<1>1. IndInv /\ [Next]_judiciaryVars =>
        [\A k \in Keys : Cold(k) => Cold(k)']_judiciaryVars
  <2> SUFFICES ASSUME IndInv, Next, NEW k \in Keys, Cold(k) PROVE Cold(k)'
    OBVIOUS
  <2>1. IndInv'
    BY IndInvPreserved
  <2>2. PICK row \in stampCache : row.key = k
    BY DEF Cold
  <2>3. row \in stampCache'
    BY TablesOnlyGrow
  <2>4. ASSUME NEW s \in CacheLookup(k)' PROVE FALSE
    <3> DEFINE r == [key |-> k, stamp_id |-> s.stamp_id]
    <3>1. /\ s \in stamps' /\ s.verdict = "APPROVED" /\ r \in stampCache'
          /\ clock' < s.created_at + TTL
      BY <2>4 DEF CacheLookup, Fresh
    <3>2. r \in stampCache
      BY <2>2, <3>1, TablesOnlyGrow
    <3>3. PICK t \in stamps : t.stamp_id = s.stamp_id
      BY <3>2 DEF IndInv, CacheRowsApproved
    <3>4. t = s
      <4>1. t \in stamps'
        BY TablesOnlyGrow
      <4>2. /\ s.action_id \in Actions /\ t.action_id \in Actions
            /\ Issued(s.action_id) = Issued(t.action_id)
        BY <2>1, <3>1, <3>3, <4>1
           DEF IndInv, TypeOK, JudiciaryStampORM, StampsMatchPhase
      <4> QED
        BY <2>1, <3>1, <4>1, <4>2, StampIdsDiffer DEF IndInv, OneStamp
    <3>5. clock < s.created_at + TTL
      BY <3>1, <3>4, TablesOnlyGrow, TTLAssumption
         DEF IndInv, TypeOK, JudiciaryStampORM
    <3>6. s \in CacheLookup(k)
      BY <3>1, <3>2, <3>4, <3>5 DEF CacheLookup, Fresh
    <3> QED
      BY <3>6 DEF Cold
  <2> QED
    BY <2>2, <2>3, <2>4 DEF Cold
<1> QED
  BY <1>1, IndInvAlways, PTL DEF Spec, ColdKeysStayCold

-----------------------------------------------------------------------------
(* That every review ends (ReviewsEnd) needs fairness and is checked by    *)
(* TLC; that no handler goes back is proved.                               *)
StepsLeft(at) ==
    CASE at = "idle" -> 5
      [] at = "received" -> 4
      [] at = "grounding" -> 3
      [] at = "reviewing" -> 2
      [] at \in {"rejected", "approved"} -> 1
      [] OTHER -> 0

(* A handler only moves towards its answer or its failure.                 *)
HandlersAdvance ==
    [][\A a \in Actions :
          \/ phase'[a] = phase[a]
          \/ StepsLeft(phase'[a]) < StepsLeft(phase[a])]_judiciaryVars

(* Whatever the other handlers do, an action is looked up once, reviewed   *)
(* by the LLM once at most, and answered in four steps of its handler.     *)
THEOREM HandlersOnlyAdvance == Spec => HandlersAdvance
<1>1. TypeOK /\ [Next]_judiciaryVars =>
        [\A a \in Actions :
             \/ phase'[a] = phase[a]
             \/ StepsLeft(phase'[a]) < StepsLeft(phase[a])]_judiciaryVars
  <2> SUFFICES ASSUME TypeOK, Next, NEW a \in Actions, phase'[a] # phase[a]
               PROVE  StepsLeft(phase'[a]) < StepsLeft(phase[a])
    OBVIOUS
  <2>1. phase \in [Actions -> Phases]
    BY DEF TypeOK
  <2>2. ASSUME NEW b \in Actions, ReviewAction(b) \/ Handle(b) \/ ReviewError(b)
        PROVE  StepsLeft(phase'[a]) < StepsLeft(phase[a])
    <3>1. \E at : phase' = [phase EXCEPT ![b] = at]
      BY <2>2 DEF ReviewAction, Handle, ReviewError, FastReject, CacheHit,
                  CacheMiss, GetRelevantRules, LLMReview, RecordViolation,
                  CacheStore
    <3>2. a = b
      BY <2>1, <3>1
    <3> QED
      BY <2>1, <2>2, <3>2
         DEF ReviewAction, Handle, ReviewError, FastReject, CacheHit,
             CacheMiss, GetRelevantRules, LLMReview, RecordViolation,
             CacheStore, StepsLeft, Open
  <2>3. phase' = phase \/ \E b \in Actions : ReviewAction(b) \/ Handle(b) \/ ReviewError(b)
    BY DEF Next, AmendRules, Tick, handlerVars
  <2> QED
    BY <2>2, <2>3
<1>2. IndInv => TypeOK
  BY DEF IndInv
<1> QED
  BY <1>1, <1>2, IndInvAlways, PTL DEF Spec, HandlersAdvance

-----------------------------------------------------------------------------
(* A review of rules that are not in force any more looked in the cache    *)
(* before they were amended, and its stamp is dated from that look.        *)
Dated ==
    /\ since \in Nat /\ since <= clock
    /\ \A a \in Actions :
           /\ began[a] <= clock
           /\ phase[a] = "reviewing" => grounds[a] = rules \/ began[a] <= since
    /\ \A s \in stamps :
           /\ s.created_at <= clock
           /\ s.verdict = "APPROVED" =>
                  s.grounds = rules \/ s.created_at <= since

LEMMA DatedPreserved ==
    TypeOK /\ Dated /\ [RulesNext]_rulesVars => Dated'
<1> SUFFICES ASSUME TypeOK, Dated, [RulesNext]_rulesVars PROVE Dated'
  OBVIOUS
<1> USE DEF TypeOK, Dated
<1>1. CASE UNCHANGED rulesVars
  BY <1>1 DEF rulesVars, judiciaryVars, handlerVars, tables
<1>2. ASSUME AmendRules, RulesNext PROVE Dated'
  <2>1. since' = clock /\ UNCHANGED <<clock, phase, began, stamps>>
    BY <1>2 DEF AmendRules, RulesNext, handlerVars, tables
  <2> QED
    BY <2>1
<1>3. ASSUME Tick, RulesNext PROVE Dated'
  <2>1. /\ clock' = clock + 1
        /\ UNCHANGED <<rules, since, phase, began, grounds, stamps>>
    BY <1>3 DEF Tick, RulesNext, handlerVars, tables
  <2>2. ASSUME NEW n \in Nat, n <= clock PROVE n <= clock'
    BY <2>1, <2>2
  <2>3. \A s \in stamps : s.created_at \in Nat
    BY DEF JudiciaryStampORM
  <2> QED
    BY <2>1, <2>2, <2>3
<1>4. ASSUME NEW a \in Actions, ReviewAction(a) \/ Handle(a) \/ ReviewError(a),
             RulesNext
      PROVE  Dated'
  <2>1. UNCHANGED <<clock, rules, since>>
    BY <1>4 DEF ReviewAction, Handle, ReviewError, FastReject, CacheHit,
                CacheMiss, GetRelevantRules, LLMReview, RecordViolation,
                CacheStore, RulesNext
  <2>2. ASSUME \/ ReviewAction(a) \/ CacheHit(a) \/ RecordViolation(a)
               \/ CacheStore(a) \/ ReviewError(a)
        PROVE  Dated'
    <3>1. /\ UNCHANGED <<began, grounds, stamps>>
          /\ \A b \in Actions : phase'[b] = "reviewing" => phase[b] = "reviewing"
      BY <2>2 DEF ReviewAction, CacheHit, RecordViolation, CacheStore,
                  ReviewError, tables
    <3> QED
      BY <2>1, <3>1
  <2>3. ASSUME FastReject(a) PROVE Dated'
    <3> DEFINE row == StampRow(a, "REJECTED", clock, 0)
    <3>1. /\ UNCHANGED <<began, grounds>> /\ stamps' = stamps \cup {row}
          /\ \A b \in Actions : phase'[b] = "reviewing" => phase[b] = "reviewing"
      BY <2>3 DEF FastReject
    <3>2. row.created_at = clock /\ row.verdict = "REJECTED"
      BY DEF StampRow
    <3> HIDE DEF row
    <3> QED
      BY <2>1, <3>1, <3>2
  <2>4. ASSUME CacheMiss(a) PROVE Dated'
    <3>1. /\ began' = [began EXCEPT ![a] = clock] /\ UNCHANGED <<grounds, stamps>>
          /\ phase' = [phase EXCEPT ![a] = "grounding"]
      BY <2>4 DEF CacheMiss, tables
    <3> QED
      BY <2>1, <3>1
  <2>5. ASSUME GetRelevantRules(a) PROVE Dated'
    <3>1. /\ grounds' = [grounds EXCEPT ![a] = rules] /\ UNCHANGED <<began, stamps>>
          /\ phase' = [phase EXCEPT ![a] = "reviewing"]
      BY <2>5 DEF GetRelevantRules, tables
    <3> QED
      BY <2>1, <3>1
  <2>6. ASSUME NEW verdict \in Verdicts, LLMReview(a, verdict) PROVE Dated'
    <3> DEFINE row == StampRow(a, verdict, began[a], grounds[a])
    <3>1. /\ UNCHANGED <<began, grounds>> /\ stamps' = stamps \cup {row}
          /\ phase[a] = "reviewing"
          /\ \A b \in Actions : phase'[b] = "reviewing" => phase[b] = "reviewing"
      BY <2>6 DEF LLMReview
    <3>2. row.created_at = began[a] /\ row.grounds = grounds[a]
      BY DEF StampRow
    <3> HIDE DEF row
    <3> QED
      BY <2>1, <3>1, <3>2
  <2> QED
    BY <1>4, <2>2, <2>3, <2>4, <2>5, <2>6 DEF Handle
<1> QED
  BY <1>1, <1>2, <1>3, <1>4 DEF RulesNext, Next

LEMMA DatedAlways == RulesSpec => [](IndInv /\ Dated)
<1>1. RulesInit => IndInv /\ Dated
  <2>1. RulesInit => Dated
    BY DEF RulesInit, Init, Dated
  <2> QED
    BY <2>1, InitEstablishesIndInv DEF RulesInit
<1>2. (IndInv /\ Dated) /\ [RulesNext]_rulesVars => (IndInv /\ Dated)'
  <2>1. [RulesNext]_rulesVars => [Next]_judiciaryVars
    BY DEF RulesNext, rulesVars
  <2>2. IndInv => TypeOK
    BY DEF IndInv
  <2> QED
    BY <2>1, <2>2, IndInvPreserved, DatedPreserved
<1> QED
  BY <1>1, <1>2, PTL DEF RulesSpec

(* However long the LLM takes and whenever the Legislature writes, no      *)
(* answer from the cache rests on a rule that was replaced a TTL ago: a    *)
(* stamp is dated from before its review read the rules.                   *)
THEOREM AmendmentsReachCacheHits == RulesSpec => AmendmentsReachHits
<1>1. (IndInv /\ Dated) /\ [RulesNext]_rulesVars =>
        [\A j \in returned' \ returned : j.stamp_id = Reissued(j.action_id) =>
            \E s \in stamps :
               /\ s.stamp_id = Issued(j.review)
               /\ Fresh(s.created_at)
               /\ s.grounds = rules \/ clock < since + TTL]_rulesVars
  <2> SUFFICES ASSUME IndInv, Dated, RulesNext,
                      NEW j \in returned' \ returned,
                      j.stamp_id = Reissued(j.action_id)
               PROVE  \E s \in stamps :
                         /\ s.stamp_id = Issued(j.review)
                         /\ Fresh(s.created_at)
                         /\ s.grounds = rules \/ clock < since + TTL
    OBVIOUS
  <2>0. PICK a \in Actions :
            \E s \in CacheLookup(action[a].key) :
                j = Body(Reissued(a), a, "APPROVED", s.action_id)
    BY OnlyHitsReissue DEF RulesNext
  <2>2. PICK s \in CacheLookup(action[a].key) :
            j = Body(Reissued(a), a, "APPROVED", s.action_id)
    BY <2>0
  <2>3. /\ s \in stamps /\ s.verdict = "APPROVED" /\ Fresh(s.created_at)
        /\ j.review = s.action_id
    BY <2>2 DEF CacheLookup, Body
  <2>4. s.stamp_id = Issued(j.review)
    BY <2>3 DEF IndInv, StampsMatchPhase
  <2>5. s.grounds = rules \/ clock < since + TTL
    <3>1. CASE s.grounds = rules
      BY <3>1
    <3>2. CASE s.created_at <= since
      <4>1. /\ s.created_at \in Nat /\ since \in Nat /\ clock \in Nat
            /\ TTL \in Nat
        BY <2>3, TTLAssumption DEF IndInv, TypeOK, JudiciaryStampORM, Dated
      <4> QED
        BY <2>3, <3>2, <4>1 DEF Fresh
    <3> QED
      BY <2>3, <3>1, <3>2 DEF Dated
  <2> QED
    BY <2>3, <2>4, <2>5
<1> QED
  BY <1>1, DatedAlways, PTL DEF RulesSpec, AmendmentsReachHits
=============================================================================
