-------------------------- MODULE ExecutiveProofs --------------------------
(***************************************************************************)
(* Theorems about Executive, for any runs, learners and worker classes.    *)
(*                                                                         *)
(* The composition implements Judiciary, so what JudiciaryProofs shows of  *)
(* the judiciary holds here too and is used as IndInv.  ExecInv adds what  *)
(* ties a run to the judiciary's answers: a run keeps a stamp only while   *)
(* the body that carried it is among the answers, and what it wrote and    *)
(* published came from such a body.                                        *)
(***************************************************************************)
EXTENDS Executive, JudiciaryProofs

(* A body answered to the POST of run a that approves it with stamp id.    *)
ApprovedFor(a, id) ==
    \E j \in returned : /\ j.action_id = a
                        /\ j.stamp_id = id
                        /\ j.verdict = "APPROVED"

StampsHeld ==
    \A a \in Actions :
        /\ worker[a] \in {"stamped", "generated"} => stampRef[a] # {}
        /\ \A id \in stampRef[a] : ApprovedFor(a, id)

ArtifactsApproved ==
    \A x \in artifacts : ApprovedFor(x.action_id, x.stamp_id)

ExecInv ==
    /\ ExecutiveTypeOK
    /\ StampsHeld
    /\ ArtifactsApproved
    /\ ViolationEventsBacked

-----------------------------------------------------------------------------
(* A step of the composition is a step of the judiciary or leaves it be.   *)
LEMMA JudiciaryStepOrStutter ==
    [ExecutiveNext]_executiveVars => [Next]_judiciaryVars
BY DEF ExecutiveNext, executiveVars, WorkerStep, BuildAction, SubmitAction,
       ReceiveStamp, ReviewLost, Generate, Persist, WorkerError,
       RecordConsent, JudiciaryStep, Next

(* The workers use the judiciary only as its own specification allows.     *)
THEOREM ExecutiveImplementsJudiciary == ExecutiveSpec => Spec
<1>1. ExecutiveInit => Init
  BY DEF ExecutiveInit
<1> QED
  BY <1>1, JudiciaryStepOrStutter, PTL DEF ExecutiveSpec, Spec

LEMMA InitEstablishesExecInv == ExecutiveInit => ExecInv
<1> SUFFICES ASSUME ExecutiveInit PROVE ExecInv
  OBVIOUS
<1>1. TypeOK
  BY InitEstablishesIndInv DEF ExecutiveInit, IndInv
<1> QED
  BY <1>1 DEF ExecutiveInit, ExecInv, ExecutiveTypeOK, StampsHeld,
     ArtifactsApproved, ViolationEventsBacked, WorkerPhases, ConsentEvents

(* Answers and violations are never taken back.                            *)
LEMMA RecordsGrow ==
    [Next]_judiciaryVars => returned \subseteq returned' /\ violations \subseteq violations'
BY DEF Next, Handle, ReviewAction, FastReject, CacheHit, CacheMiss,
       GetRelevantRules, LLMReview, RecordViolation, CacheStore, ReviewError,
       AmendRules, Tick, judiciaryVars, handlerVars, tables

LEMMA ExecutiveTypePreserved ==
    ExecutiveTypeOK /\ [ExecutiveNext]_executiveVars => ExecutiveTypeOK'
<1> SUFFICES ASSUME ExecutiveTypeOK, [ExecutiveNext]_executiveVars
             PROVE  ExecutiveTypeOK'
  OBVIOUS
<1>1. TypeOK'
  BY TypeOKPreserved, JudiciaryStepOrStutter DEF ExecutiveTypeOK
<1> USE <1>1 DEF ExecutiveTypeOK, WorkerPhases
<1>2. ASSUME NEW a \in Actions, BuildAction(a) PROVE ExecutiveTypeOK'
  BY <1>2 DEF BuildAction
<1>3. ASSUME NEW a \in Actions, SubmitAction(a) PROVE ExecutiveTypeOK'
  BY <1>3 DEF SubmitAction, ActionSubmitted, Event, AuditEvent
<1>4. ASSUME NEW a \in Actions, ReceiveStamp(a) PROVE ExecutiveTypeOK'
  <2>1. PICK j \in returned :
          /\ trail' = trail \cup StampIssued(a, j.verdict)
          /\ worker' \in {[worker EXCEPT ![a] = "stamped"],
                          [worker EXCEPT ![a] = "stopped"]}
          /\ stampRef' \in {[stampRef EXCEPT ![a] = {j.stamp_id}], stampRef}
    BY <1>4 DEF ReceiveStamp
  <2>2. trail' \subseteq AuditEvent
    BY <2>1 DEF StampIssued, Event, AuditEvent
  <2>3. stampRef' \in [Actions -> SUBSET StampIds]
    <3>1. j.stamp_id \in StampIds
      BY DEF TypeOK, JudiciaryStamp
    <3> QED
      BY <2>1, <3>1
  <2> QED
    BY <1>4, <2>1, <2>2, <2>3 DEF ReceiveStamp
<1>5. ASSUME NEW a \in Actions, ReviewLost(a) PROVE ExecutiveTypeOK'
  BY <1>5 DEF ReviewLost
<1>6. ASSUME NEW a \in Actions, Generate(a) PROVE ExecutiveTypeOK'
  BY <1>6 DEF Generate
<1>7. ASSUME NEW a \in Actions, Persist(a) PROVE ExecutiveTypeOK'
  BY <1>7 DEF Persist, Artifact
<1>8. ASSUME NEW a \in Actions, WorkerError(a) PROVE ExecutiveTypeOK'
  BY <1>8 DEF WorkerError
<1>9. ASSUME NEW l \in Learners, NEW event \in ConsentEvents \ {"none"},
             RecordConsent(l, event)
      PROVE  ExecutiveTypeOK'
  BY <1>9 DEF RecordConsent
<1>10. ASSUME JudiciaryStep \/ UNCHANGED executiveVars PROVE ExecutiveTypeOK'
  BY <1>10 DEF JudiciaryStep, executiveVars
<1> QED
  BY <1>2, <1>3, <1>4, <1>5, <1>6, <1>7, <1>8, <1>9, <1>10
  DEF ExecutiveNext, WorkerStep

(* The three clauses ExecInv adds are disturbed only by ReceiveStamp and   *)
(* Persist; every other step keeps worker, stamps and trail, or moves a    *)
(* run to a phase that needs no stamp.                                     *)
LEMMA ExecInvPreserved ==
    IndInv /\ ExecInv /\ [ExecutiveNext]_executiveVars => ExecInv'
<1> SUFFICES ASSUME IndInv, ExecInv, [ExecutiveNext]_executiveVars
             PROVE  ExecInv'
  OBVIOUS
<1> USE DEF ExecInv
<1>1. ExecutiveTypeOK'
  BY ExecutiveTypePreserved
<1>2. returned \subseteq returned' /\ violations \subseteq violations'
  BY RecordsGrow, JudiciaryStepOrStutter
<1>3. \A a, id : ApprovedFor(a, id) => ApprovedFor(a, id)'
  BY <1>2 DEF ApprovedFor
<1>5. ASSUME NEW a \in Actions, ReceiveStamp(a)
      PROVE  StampsHeld' /\ ArtifactsApproved' /\ ViolationEventsBacked'
  <2>1. PICK j \in returned :
          /\ j.action_id = a
          /\ trail' = trail \cup StampIssued(a, j.verdict)
          /\ IF j.verdict = "APPROVED"
             THEN /\ worker' = [worker EXCEPT ![a] = "stamped"]
                  /\ stampRef' = [stampRef EXCEPT ![a] = {j.stamp_id}]
             ELSE /\ worker' = [worker EXCEPT ![a] = "stopped"]
                  /\ UNCHANGED stampRef
    BY <1>5 DEF ReceiveStamp
  <2>2. StampsHeld'
    <3>1. CASE j.verdict = "APPROVED"
      <4>1. ApprovedFor(a, j.stamp_id)'
        BY <1>3, <2>1, <3>1 DEF ApprovedFor
      <4> QED
        BY <1>3, <2>1, <3>1, <4>1 DEF StampsHeld, ExecutiveTypeOK
    <3>2. CASE j.verdict # "APPROVED"
      BY <1>3, <2>1, <3>2 DEF StampsHeld, ExecutiveTypeOK
    <3> QED
      BY <3>1, <3>2
  <2>3. ArtifactsApproved'
    BY <1>3, <1>5 DEF ReceiveStamp, ArtifactsApproved
  <2>4. ViolationEventsBacked'
    <3>1. SUFFICES ASSUME j.verdict = "REJECTED"
                   PROVE  \E v \in violations : v.action_id = a
      BY <1>2, <2>1 DEF ViolationEventsBacked, StampIssued, Event
    <3>2. [action_id |-> a, stamp_id |-> j.stamp_id] \in violations
      BY <2>1, <3>1 DEF IndInv, BodiesOnRecord, RejectedBody, ApprovedBody,
                        CachedBody
    <3> QED
      BY <3>2
  <2> QED
    BY <2>2, <2>3, <2>4
<1>6. ASSUME NEW a \in Actions, Persist(a)
      PROVE  StampsHeld' /\ ArtifactsApproved' /\ ViolationEventsBacked'
  BY <1>2, <1>3, <1>6
  DEF Persist, StampsHeld, ArtifactsApproved, ViolationEventsBacked,
      ExecutiveTypeOK
<1>7. ASSUME NEW a \in Actions, SubmitAction(a)
      PROVE  StampsHeld' /\ ArtifactsApproved' /\ ViolationEventsBacked'
  BY <1>2, <1>3, <1>7
  DEF SubmitAction, ActionSubmitted, Event, StampsHeld, ArtifactsApproved,
      ViolationEventsBacked, ExecutiveTypeOK
<1>8. ASSUME NEW a \in Actions,
             BuildAction(a) \/ ReviewLost(a) \/ Generate(a) \/ WorkerError(a)
      PROVE  StampsHeld' /\ ArtifactsApproved' /\ ViolationEventsBacked'
  BY <1>2, <1>3, <1>8
  DEF BuildAction, ReviewLost, Generate, WorkerError, StampsHeld,
      ArtifactsApproved, ViolationEventsBacked, ExecutiveTypeOK
<1>9. ASSUME \/ \E l \in Learners, event \in ConsentEvents \ {"none"} :
                   RecordConsent(l, event)
             \/ JudiciaryStep
             \/ UNCHANGED executiveVars
      PROVE  StampsHeld' /\ ArtifactsApproved' /\ ViolationEventsBacked'
  <2>1. UNCHANGED <<worker, stampRef, artifacts, trail>>
    BY <1>9 DEF RecordConsent, JudiciaryStep, executiveVars
  <2> QED
    BY <1>2, <1>3, <2>1 DEF StampsHeld, ArtifactsApproved, ViolationEventsBacked
<1> QED
  BY <1>1, <1>5, <1>6, <1>7, <1>8, <1>9 DEF ExecutiveNext, WorkerStep

LEMMA ExecInvAlways == ExecutiveSpec => [](IndInv /\ ExecInv)
<1>1. ExecutiveInit => ExecInv
  BY InitEstablishesExecInv
<1> QED
  BY <1>1, ExecutiveImplementsJudiciary, IndInvAlways, ExecInvPreserved, PTL
  DEF ExecutiveSpec

-----------------------------------------------------------------------------
(* Every reachable state of the workers and the judiciary is well typed.   *)
THEOREM ExecutiveTypeCorrect == ExecutiveSpec => []ExecutiveTypeOK
BY ExecInvAlways, PTL DEF ExecInv

(* No lesson, plan or report exists that a committed approval of its       *)
(* worker class does not stand behind.                                     *)
THEOREM NothingWrittenUnstamped == ExecutiveSpec => []ArtifactsAuthorised
<1>1. IndInv /\ ApprovalRestsOnReview /\ ExecInv => ArtifactsAuthorised
  BY DEF ExecInv, ArtifactsApproved, ApprovedFor, ApprovalRestsOnReview,
         ArtifactsAuthorised
<1> QED
  BY <1>1, ExecInvAlways, ExecutiveImplementsJudiciary,
     ApprovalsRestOnReviews, PTL

(* The Fourth Estate never hears of a violation the judiciary's database   *)
(* does not hold.                                                          *)
THEOREM ViolationEventsAreBacked == ExecutiveSpec => []ViolationEventsBacked
BY ExecInvAlways, PTL DEF ExecInv

(* The workers, the judiciary client and the judiciary together implement  *)
(* the stamp gate: consent first, then an approval of an action the fast   *)
(* path has nothing against, then the effect.                              *)
THEOREM GateRefined == ExecutiveSpec => GateContract
<1>1. ExecutiveInit => Gate!Init
  BY DEF ExecutiveInit, Gate!Init, GateState, GateRun, Vetoed
<1>2. ExecInv /\ FlaggedNeverApproved /\ [ExecutiveNext]_executiveVars
        => [Gate!Next]_(Gate!gateVars)
  <2> SUFFICES ASSUME ExecInv, FlaggedNeverApproved,
                      [ExecutiveNext]_executiveVars
               PROVE  [Gate!Next]_(Gate!gateVars)
    OBVIOUS
  <2> USE DEF ExecInv, ExecutiveTypeOK
  <2>1. UNCHANGED <<learner, Vetoed>>
    <3>1. UNCHANGED learner
      BY DEF ExecutiveNext, executiveVars, WorkerStep, BuildAction,
         SubmitAction, ReceiveStamp, ReviewLost, Generate, Persist,
         WorkerError, RecordConsent, JudiciaryStep
    <3>2. UNCHANGED action
      BY JudiciaryStepOrStutter
      DEF Next, Handle, ReviewAction, FastReject, CacheHit, CacheMiss,
          GetRelevantRules, LLMReview, RecordViolation, CacheStore,
          ReviewError, AmendRules, Tick, judiciaryVars, handlerVars, tables
    <3> QED
      BY <3>1, <3>2 DEF Vetoed
  <2>2. ASSUME NEW a \in Actions, NEW w \in WorkerPhases,
               worker' = [worker EXCEPT ![a] = w]
        PROVE  GateRun' = [GateRun EXCEPT ![a] = GateState[w]]
    BY <2>2 DEF GateRun
  <2>3. \A a \in Actions : GateRun[a] = GateState[worker[a]]
    BY DEF GateRun
  <2>4. worker' = worker => GateRun' = GateRun
    BY DEF GateRun
  <2>5. ASSUME NEW a \in Actions, BuildAction(a)
        PROVE  Gate!Check(a) \/ Gate!Stop(a)
    <3>1. CASE ConsentActive(learner[a])
      <4>1. GateRun' = [GateRun EXCEPT ![a] = "checked"]
        BY <2>2, <2>5, <3>1 DEF BuildAction, GateState, WorkerPhases
      <4> QED
        BY <2>1, <2>3, <2>5, <3>1, <4>1
        DEF BuildAction, ConsentActive, Gate!Check, GateState
    <3>2. CASE ~ConsentActive(learner[a])
      <4>1. GateRun' = [GateRun EXCEPT ![a] = "stopped"]
        BY <2>2, <2>5, <3>2 DEF BuildAction, GateState, WorkerPhases
      <4> QED
        BY <2>1, <2>3, <2>5, <4>1 DEF BuildAction, Gate!Stop, GateState
    <3> QED
      BY <3>1, <3>2
  <2>6. ASSUME NEW a \in Actions, SubmitAction(a)
        PROVE  Gate!Stop(a) \/ UNCHANGED Gate!gateVars
    <3>1. CASE worker' = [worker EXCEPT ![a] = "awaiting"]
      <4>1. GateRun' = [GateRun EXCEPT ![a] = "checked"]
        BY <2>2, <3>1 DEF GateState, WorkerPhases
      <4>2. GateRun' = GateRun
        BY <2>3, <2>6, <4>1 DEF SubmitAction, GateState, GateRun
      <4> QED
        BY <2>1, <2>6, <4>2 DEF SubmitAction, Gate!gateVars
    <3>2. CASE worker' = [worker EXCEPT ![a] = "stopped"]
      <4>1. GateRun' = [GateRun EXCEPT ![a] = "stopped"]
        BY <2>2, <3>2 DEF GateState, WorkerPhases
      <4> QED
        BY <2>1, <2>3, <2>6, <4>1 DEF SubmitAction, Gate!Stop, GateState
    <3> QED
      BY <2>6, <3>1, <3>2 DEF SubmitAction
  <2>7. ASSUME NEW a \in Actions, ReceiveStamp(a)
        PROVE  Gate!Approve(a) \/ Gate!Stop(a)
    <3>1. PICK j \in returned :
            /\ j.action_id = a
            /\ worker' = [worker EXCEPT ![a] = IF j.verdict = "APPROVED"
                                               THEN "stamped" ELSE "stopped"]
      BY <2>7 DEF ReceiveStamp
    <3>2. CASE j.verdict = "APPROVED"
      <4>1. GateRun' = [GateRun EXCEPT ![a] = "approved"]
        BY <2>2, <3>1, <3>2 DEF GateState, WorkerPhases
      <4>2. a \notin Vetoed
        BY <3>1, <3>2 DEF FlaggedNeverApproved, Vetoed
      <4> QED
        BY <2>1, <2>3, <2>7, <4>1, <4>2
        DEF ReceiveStamp, Gate!Approve, GateState
    <3>3. CASE j.verdict # "APPROVED"
      <4>1. GateRun' = [GateRun EXCEPT ![a] = "stopped"]
        BY <2>2, <3>1, <3>3 DEF GateState, WorkerPhases
      <4> QED
        BY <2>1, <2>3, <2>7, <4>1 DEF ReceiveStamp, Gate!Stop, GateState
    <3> QED
      BY <3>2, <3>3
  <2>8. ASSUME NEW a \in Actions, ReviewLost(a) \/ WorkerError(a)
        PROVE  Gate!Stop(a)
    <3>1. GateRun' = [GateRun EXCEPT ![a] = "stopped"]
      BY <2>2, <2>8 DEF ReviewLost, WorkerError, GateState, WorkerPhases
    <3> QED
      BY <2>1, <2>3, <2>8, <3>1
      DEF ReviewLost, WorkerError, Gate!Stop, GateState
  <2>9. ASSUME NEW a \in Actions, Generate(a)
        PROVE  UNCHANGED Gate!gateVars
    <3>1. GateRun' = [GateRun EXCEPT ![a] = "approved"]
      BY <2>2, <2>9 DEF Generate, GateState, WorkerPhases
    <3>2. GateRun' = GateRun
      BY <2>3, <2>9, <3>1 DEF Generate, GateState, GateRun
    <3> QED
      BY <2>1, <2>9, <3>2 DEF Generate, Gate!gateVars
  <2>10. ASSUME NEW a \in Actions, Persist(a)
         PROVE  Gate!Execute(a)
    <3>1. GateRun' = [GateRun EXCEPT ![a] = "executed"]
      BY <2>2, <2>10 DEF Persist, GateState, WorkerPhases
    <3> QED
      BY <2>1, <2>3, <2>10, <3>1 DEF Persist, Gate!Execute, GateState
  <2>11. ASSUME NEW l \in Learners, NEW event \in ConsentEvents \ {"none"},
                RecordConsent(l, event)
         PROVE  Gate!ChangeConsent(l, event)
    BY <2>1, <2>4, <2>11 DEF RecordConsent, Gate!ChangeConsent
  <2>12. ASSUME JudiciaryStep \/ UNCHANGED executiveVars
         PROVE  UNCHANGED Gate!gateVars
    BY <2>1, <2>4, <2>12 DEF JudiciaryStep, executiveVars, Gate!gateVars
  <2>13. ConsentEvents = Gate!ConsentEvents
    BY DEF ConsentEvents, Gate!ConsentEvents
  <2> QED
    BY <2>5, <2>6, <2>7, <2>8, <2>9, <2>10, <2>11, <2>12, <2>13
    DEF ExecutiveNext, WorkerStep, Gate!Next
<1> QED
  BY <1>1, <1>2, ExecInvAlways, ExecutiveImplementsJudiciary,
     FlaggedStaysRejected, PTL
  DEF ExecutiveSpec, GateContract, Gate!Spec

(* A run is as far as the trail says, and only a run that is done has      *)
(* written anything.                                                       *)
TrailFollowsRuns ==
    /\ \A a \in Actions :
          /\ worker[a] \in {"awaiting", "stamped", "generated", "done"} =>
                Event("ACTION_SUBMITTED", a) \in trail
          /\ worker[a] \in {"stamped", "generated", "done"} =>
                Event("STAMP_ISSUED", a) \in trail
          /\ Event("STAMP_REJECTED", a) \in trail => worker[a] = "stopped"
    /\ \A x \in artifacts : worker[x.action_id] = "done"

LEMMA TrailFollowsPreserved ==
    ExecutiveTypeOK /\ TrailFollowsRuns /\ [ExecutiveNext]_executiveVars
      => TrailFollowsRuns'
<1> SUFFICES ASSUME ExecutiveTypeOK, TrailFollowsRuns,
                    [ExecutiveNext]_executiveVars
             PROVE  TrailFollowsRuns'
  OBVIOUS
<1>1. /\ worker \in [Actions -> WorkerPhases]
      /\ \A x \in artifacts : x.action_id \in Actions
  BY DEF ExecutiveTypeOK, Artifact
<1>2. ASSUME NEW a \in Actions, SubmitAction(a) PROVE TrailFollowsRuns'
  BY <1>1, <1>2 DEF SubmitAction, ActionSubmitted, Event, TrailFollowsRuns
<1>3. ASSUME NEW a \in Actions, ReceiveStamp(a) PROVE TrailFollowsRuns'
  <2>1. PICK j \in returned :
          /\ trail' = trail \cup StampIssued(a, j.verdict)
          /\ worker' = [worker EXCEPT ![a] = IF j.verdict = "APPROVED"
                                             THEN "stamped" ELSE "stopped"]
    BY <1>3 DEF ReceiveStamp
  <2>2. worker[a] = "awaiting" /\ artifacts' = artifacts
    BY <1>3 DEF ReceiveStamp
  <2>3. /\ trail \subseteq trail' /\ Event("STAMP_ISSUED", a) \in trail'
        /\ \A b \in Actions : Event("STAMP_REJECTED", b) \in trail' =>
              \/ Event("STAMP_REJECTED", b) \in trail
              \/ b = a /\ j.verdict = "REJECTED"
    BY <2>1 DEF StampIssued, Event
  <2>4. /\ worker'[a] = IF j.verdict = "APPROVED" THEN "stamped" ELSE "stopped"
        /\ \A b \in Actions \ {a} : worker'[b] = worker[b]
    BY <1>1, <2>1
  <2> QED
    BY <1>1, <2>2, <2>3, <2>4 DEF TrailFollowsRuns
<1>4. ASSUME NEW a \in Actions, Persist(a) PROVE TrailFollowsRuns'
  BY <1>1, <1>4 DEF Persist, TrailFollowsRuns
<1>5. ASSUME NEW a \in Actions,
             BuildAction(a) \/ ReviewLost(a) \/ Generate(a) \/ WorkerError(a)
      PROVE  TrailFollowsRuns'
  BY <1>1, <1>5
  DEF BuildAction, ReviewLost, Generate, WorkerError, TrailFollowsRuns
<1>6. ASSUME \/ \E l \in Learners, event \in ConsentEvents \ {"none"} :
                   RecordConsent(l, event)
             \/ JudiciaryStep
             \/ UNCHANGED executiveVars
      PROVE  TrailFollowsRuns'
  <2>1. UNCHANGED <<worker, artifacts, trail>>
    BY <1>6 DEF RecordConsent, JudiciaryStep, executiveVars
  <2> QED
    BY <2>1 DEF TrailFollowsRuns
<1> QED
  BY <1>2, <1>3, <1>4, <1>5, <1>6 DEF ExecutiveNext, WorkerStep

(* However the workers' runs and the judiciary's overlap and whatever      *)
(* times out, everything written is on the trail as submitted and stamped, *)
(* and nothing on it says that it was rejected.                            *)
THEOREM ArtifactsAreOnTrail == ExecutiveSpec => []ArtifactsOnTrail
<1>1. ExecutiveInit => TrailFollowsRuns
  BY DEF ExecutiveInit, TrailFollowsRuns
<1>2. ExecutiveTypeOK /\ TrailFollowsRuns => ArtifactsOnTrail
  BY DEF ExecutiveTypeOK, Artifact, TrailFollowsRuns, ArtifactsOnTrail
<1> QED
  BY <1>1, <1>2, TrailFollowsPreserved, ExecutiveTypeCorrect, PTL
  DEF ExecutiveSpec

-----------------------------------------------------------------------------
(* That every run ends (RunsEnd) needs fairness and is checked by TLC;     *)
(* that no run goes back is proved.                                        *)
RunStepsLeft(at) ==
    CASE at = "idle" -> 5
      [] at = "built" -> 4
      [] at = "awaiting" -> 3
      [] at = "stamped" -> 2
      [] at = "generated" -> 1
      [] OTHER -> 0

(* A run only moves towards what it writes, or towards its error.          *)
RunsAdvance ==
    [][\A a \in Actions :
          \/ worker'[a] = worker[a]
          \/ RunStepsLeft(worker'[a]) < RunStepsLeft(worker[a])]_executiveVars

(* Whatever the judiciary and the other runs do, a run asks for one stamp  *)
(* and writes once at most, and is over after five steps of its own: no    *)
(* error path of WorkerAgent.run tries again.                              *)
THEOREM RunsOnlyAdvance == ExecutiveSpec => RunsAdvance
<1>1. ExecutiveTypeOK /\ [ExecutiveNext]_executiveVars =>
        [\A a \in Actions :
             \/ worker'[a] = worker[a]
             \/ RunStepsLeft(worker'[a]) < RunStepsLeft(worker[a])]_executiveVars
  <2> SUFFICES ASSUME ExecutiveTypeOK, ExecutiveNext, NEW a \in Actions,
                      worker'[a] # worker[a]
               PROVE  RunStepsLeft(worker'[a]) < RunStepsLeft(worker[a])
    OBVIOUS
  <2>1. worker \in [Actions -> WorkerPhases]
    BY DEF ExecutiveTypeOK
  <2>2. ASSUME NEW b \in Actions, WorkerStep(b)
        PROVE  RunStepsLeft(worker'[a]) < RunStepsLeft(worker[a])
    <3>1. \E at : worker' = [worker EXCEPT ![b] = at]
      BY <2>2 DEF WorkerStep, BuildAction, SubmitAction, ReceiveStamp,
                  ReviewLost, Generate, Persist, WorkerError
    <3>2. a = b
      BY <2>1, <3>1
    <3> QED
      BY <2>1, <2>2, <3>2
         DEF WorkerStep, BuildAction, SubmitAction, ReceiveStamp,
             ReviewLost, Generate, Persist, WorkerError, RunStepsLeft
  <2>3. worker' = worker \/ \E b \in Actions : WorkerStep(b)
    BY DEF ExecutiveNext, RecordConsent, JudiciaryStep
  <2> QED
    BY <2>2, <2>3
<1> QED
  BY <1>1, ExecutiveTypeCorrect, PTL DEF ExecutiveSpec, RunsAdvance

-----------------------------------------------------------------------------
(* What LessonService asks for is flagged by the fast path, whatever the   *)
(* lesson.                                                                 *)
LessonsFlagged == \A a \in Actions : action[a].key = LessonKey => action[a].flagged

LEMMA LessonsFlaggedAlways == ExecutiveSpec => []LessonsFlagged
<1>1. LessonsFlagged /\ [ExecutiveNext]_executiveVars => LessonsFlagged'
  <2>1. [ExecutiveNext]_executiveVars => action' = action
    BY JudiciaryStepOrStutter
    DEF Next, Handle, ReviewAction, FastReject, CacheHit, CacheMiss,
        GetRelevantRules, LLMReview, RecordViolation, CacheStore, ReviewError,
        AmendRules, Tick, handlerVars, tables, judiciaryVars
  <2> QED
    BY <2>1 DEF LessonsFlagged
<1> QED
  BY <1>1, PTL DEF ExecutiveSpec, ExecutiveInit, LessonsFlagged

(* No run of LessonService writes a lesson: its parameters and the keys    *)
(* that _structural allows for its intent do not agree, so its stamp is    *)
(* refused, and no approval of another run takes its place.                *)
NoLessonWritten == \A x \in artifacts : action[x.action_id].key # LessonKey

THEOREM NoLessonIsWritten == ExecutiveSpec => []NoLessonWritten
<1>1. ExecutiveTypeOK /\ LessonsFlagged /\ ArtifactsAuthorised /\ FlaggedNeverApproved
        => NoLessonWritten
  <2> SUFFICES ASSUME ExecutiveTypeOK, LessonsFlagged, ArtifactsAuthorised,
                      FlaggedNeverApproved, NEW x \in artifacts
               PROVE  action[x.action_id].key # LessonKey
    BY DEF NoLessonWritten
  <2>1. x.action_id \in Actions
    BY DEF ExecutiveTypeOK, Artifact
  <2>2. action[x.action_id].flagged =>
          \A j \in returned : j.action_id = x.action_id => j.verdict = "REJECTED"
    BY <2>1 DEF FlaggedNeverApproved
  <2>3. \E j \in returned : j.action_id = x.action_id /\ j.verdict = "APPROVED"
    BY DEF ArtifactsAuthorised
  <2> QED
    BY <2>1, <2>2, <2>3 DEF LessonsFlagged
<1> QED
  BY <1>1, LessonsFlaggedAlways, ExecutiveTypeCorrect, NothingWrittenUnstamped,
     ExecutiveImplementsJudiciary, FlaggedStaysRejected, PTL
=============================================================================
