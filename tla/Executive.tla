----------------------------- MODULE Executive -----------------------------
(***************************************************************************)
(* The runs of WorkerAgents (app/api/judiciary/base.py) and the three      *)
(* workers the orchestrator starts: LessonService, StudyPlanService and    *)
(* ParentReportService, composed with the judiciary they ask.              *)
(*                                                                         *)
(* A run is named after the action_id it builds.  Its coroutine and the    *)
(* judiciary's handler of its POST are separate processes: the client may  *)
(* give up (timeout) while the handler goes on.  One action of this module *)
(* is the code of the worker between two awaits that reach another         *)
(* process.                                                                *)
(*                                                                         *)
(* agent_id, intent and claimed_rules are literals of a worker class, so   *)
(* all runs of a class share one cache key: a key stands for the class.    *)
(***************************************************************************)
EXTENDS Judiciary

CONSTANTS
    Learners,
    LessonKey   \* the key of LessonService

ASSUME LessonAssumption == LessonKey \in Keys

VARIABLES
    learner,    \* learner_pseudonym of the action a run builds
    worker,     \* where the coroutine of a run stands
    stampRef,   \* the stamp _stamp_gate returned: {} or {its stamp_id}
    consent,    \* event_type of the newest consent_audit row of a learner
    artifacts,  \* lesson_results, study_plans and reports
    trail       \* events given to the Fourth Estate

executiveVars ==
    <<judiciaryVars, learner, worker, stampRef, consent, artifacts, trail>>

WorkerPhases == {"idle", "built", "awaiting", "stamped", "generated",
                 "done", "stopped"}
Running == {"built", "awaiting", "stamped", "generated"}
ConsentEvents == {"none", "consent_granted", "consent_revoked"}

Artifact == [action_id : Actions, learner : Learners, stamp_id : StampIds]
AuditEvent ==
    [event_type : {"ACTION_SUBMITTED", "STAMP_ISSUED", "STAMP_REJECTED",
                   "CONSTITUTIONAL_VIOL"},
     action_id : Actions]

ExecutiveTypeOK ==
    /\ TypeOK
    /\ learner \in [Actions -> Learners]
    /\ worker \in [Actions -> WorkerPhases]
    /\ stampRef \in [Actions -> SUBSET StampIds]
    /\ consent \in [Learners -> ConsentEvents]
    /\ artifacts \subseteq Artifact
    /\ trail \subseteq AuditEvent

(* The parameters LessonService builds (subject, grade, topic) are not     *)
(* among the keys the fast path allows for its intent (subject_code,       *)
(* topic, ...): every lesson action is flagged.                            *)
ExecutiveInit ==
    /\ Init
    /\ \A a \in Actions : action[a].key = LessonKey => action[a].flagged
    /\ learner \in [Actions -> Learners]
    /\ worker = [a \in Actions |-> "idle"]
    /\ stampRef = [a \in Actions |-> {}]
    /\ consent = [l \in Learners |-> "none"]
    /\ artifacts = {}
    /\ trail = {}

-----------------------------------------------------------------------------
Event(type, a) == [event_type |-> type, action_id |-> a]

(* publish_action_submitted *)
ActionSubmitted(a) == {Event("ACTION_SUBMITTED", a)}

(* Seeded fault: the event type is taken from the verdict.                 *)
StampIssuedByVerdict(a, verdict) == {Event(verdict, a)}

(* publish_stamp_issued, and flag_constitutional_violation with it *)
StampIssued(a, verdict) ==
    {Event("STAMP_ISSUED", a)}
        \cup IF verdict = "REJECTED"
             THEN {Event("STAMP_REJECTED", a), Event("CONSTITUTIONAL_VIOL", a)}
             ELSE {}

(* _assert_consent: the newest consent_audit row of the learner.           *)
ConsentActive(l) == consent[l] = "consent_granted"

(* Seeded fault: a worker that does not call _assert_consent.              *)
BuildUnchecked(a) ==
    /\ worker[a] = "idle"
    /\ worker' = [worker EXCEPT ![a] = "built"]
    /\ UNCHANGED <<judiciaryVars, learner, stampRef, consent, artifacts, trail>>

(* _build_action: ConsentViolationError, or an ExecutiveAction.            *)
BuildAction(a) ==
    /\ worker[a] = "idle"
    /\ worker' = [worker EXCEPT
                    ![a] = IF ConsentActive(learner[a]) THEN "built"
                                                        ELSE "stopped"]
    /\ UNCHANGED <<judiciaryVars, learner, stampRef, consent, artifacts, trail>>

(* _stamp_gate up to the POST: the event is published first, whatever      *)
(* becomes of the request.                                                 *)
SubmitAction(a) ==
    /\ worker[a] = "built"
    /\ trail' = trail \cup ActionSubmitted(a)
    /\ \/ /\ ReviewAction(a)
          /\ worker' = [worker EXCEPT ![a] = "awaiting"]
       \/ /\ worker' = [worker EXCEPT ![a] = "stopped"]
          /\ UNCHANGED judiciaryVars
    /\ UNCHANGED <<learner, stampRef, consent, artifacts>>

(* Seeded fault: the verdict of the stamp is not looked at.                *)
ReceiveAnyStamp(a) ==
    /\ worker[a] = "awaiting"
    /\ \E j \in returned :
          /\ j.action_id = a
          /\ trail' = trail \cup StampIssued(a, j.verdict)
          /\ stampRef' = [stampRef EXCEPT ![a] = {j.stamp_id}]
    /\ worker' = [worker EXCEPT ![a] = "stamped"]
    /\ UNCHANGED <<judiciaryVars, learner, consent, artifacts>>

(* _stamp_gate from the answer on: published, then refused or kept.        *)
ReceiveStamp(a) ==
    /\ worker[a] = "awaiting"
    /\ \E j \in returned :
          /\ j.action_id = a
          /\ trail' = trail \cup StampIssued(a, j.verdict)
          /\ IF j.verdict = "APPROVED"
             THEN /\ worker' = [worker EXCEPT ![a] = "stamped"]
                  /\ stampRef' = [stampRef EXCEPT ![a] = {j.stamp_id}]
             ELSE /\ worker' = [worker EXCEPT ![a] = "stopped"]
                  /\ UNCHANGED stampRef
    /\ UNCHANGED <<judiciaryVars, learner, consent, artifacts>>

(* Seeded fault: a client without a timeout.                               *)
ReviewFailed(a) ==
    /\ worker[a] = "awaiting"
    /\ phase[a] = "failed"
    /\ worker' = [worker EXCEPT ![a] = "stopped"]
    /\ UNCHANGED <<judiciaryVars, learner, stampRef, consent, artifacts, trail>>

(* The client's timeout, or a 500: the run ends, the review may not.       *)
ReviewLost(a) ==
    /\ worker[a] = "awaiting"
    /\ worker' = [worker EXCEPT ![a] = "stopped"]
    /\ UNCHANGED <<judiciaryVars, learner, stampRef, consent, artifacts, trail>>

(* _execute up to the LLM's answer.                                        *)
Generate(a) ==
    /\ worker[a] = "stamped"
    /\ worker' = [worker EXCEPT ![a] = "generated"]
    /\ UNCHANGED <<judiciaryVars, learner, stampRef, consent, artifacts, trail>>

(* _persist_lesson, _persist_plan, _persist_report                         *)
Persist(a) ==
    /\ worker[a] = "generated"
    /\ artifacts' = artifacts \cup
         {[action_id |-> a, learner |-> learner[a], stamp_id |-> id] :
             id \in stampRef[a]}
    /\ worker' = [worker EXCEPT ![a] = "done"]
    /\ UNCHANGED <<judiciaryVars, learner, stampRef, consent, trail>>

(* The LLM call, the validation of its output or the commit raises.        *)
WorkerError(a) ==
    /\ worker[a] \in {"stamped", "generated"}
    /\ worker' = [worker EXCEPT ![a] = "stopped"]
    /\ UNCHANGED <<judiciaryVars, learner, stampRef, consent, artifacts, trail>>

(* record_consent, and the consent_revoked row of execute_deletion.        *)
RecordConsent(l, event) ==
    /\ consent' = [consent EXCEPT ![l] = event]
    /\ UNCHANGED <<judiciaryVars, learner, worker, stampRef, artifacts, trail>>

(* The judiciary on its own; its POSTs are SubmitAction's.                 *)
JudiciaryStep ==
    /\ \/ \E a \in Actions : Handle(a) \/ ReviewError(a)
       \/ AmendRules
       \/ Tick
    /\ UNCHANGED <<learner, worker, stampRef, consent, artifacts, trail>>

WorkerStep(a) ==
    \/ BuildAction(a)
    \/ SubmitAction(a)
    \/ ReceiveStamp(a)
    \/ ReviewLost(a)
    \/ Generate(a)
    \/ Persist(a)
    \/ WorkerError(a)

ExecutiveNext ==
    \/ \E a \in Actions : WorkerStep(a)
    \/ \E l \in Learners, event \in ConsentEvents \ {"none"} :
          RecordConsent(l, event)
    \/ JudiciaryStep

ExecutiveSpec == ExecutiveInit /\ [][ExecutiveNext]_executiveVars

(* The event loop resumes a coroutine whose call returned, and every call  *)
(* returns or raises: the judiciary client and the LLM clients time out.   *)
FairExecutiveSpec ==
    ExecutiveSpec /\ \A a \in Actions : WF_executiveVars(WorkerStep(a))

-----------------------------------------------------------------------------
(* Nothing is written without a stamp: every lesson, plan and report is of *)
(* a run whose own POST was answered APPROVED with the stamp it carries,   *)
(* and rests, directly or through the cache, on a committed approval of    *)
(* the same worker class.                                                  *)
ArtifactsAuthorised ==
    \A x \in artifacts : \E j \in returned :
        /\ j.action_id = x.action_id
        /\ j.stamp_id = x.stamp_id
        /\ j.verdict = "APPROVED"
        /\ \E s \in stamps : /\ s.stamp_id = Issued(j.review)
                             /\ s.verdict = "APPROVED"
                             /\ action[j.review].key = action[x.action_id].key

(* The audit trail and the judiciary's database agree on violations: the   *)
(* Fourth Estate is told of one only after its row is committed.           *)
ViolationEventsBacked ==
    \A e \in trail : e.event_type = "CONSTITUTIONAL_VIOL" =>
        \E v \in violations : v.action_id = e.action_id

(* Whoever reads the trail finds what was written there: that it was asked *)
(* for, that it was stamped, and no rejection of it, although the events   *)
(* are published by another process than the judiciary that commits.       *)
ArtifactsOnTrail ==
    \A x \in artifacts :
        /\ Event("ACTION_SUBMITTED", x.action_id) \in trail
        /\ Event("STAMP_ISSUED", x.action_id) \in trail
        /\ Event("STAMP_REJECTED", x.action_id) \notin trail

(* The run of a worker, as the gate's contract sees it.                    *)
GateState ==
    [idle |-> "idle", built |-> "checked", awaiting |-> "checked",
     stamped |-> "approved", generated |-> "approved", done |-> "executed",
     stopped |-> "stopped"]

GateRun == [a \in Actions |-> GateState[worker[a]]]
Vetoed == {a \in Actions : action[a].flagged}

Gate == INSTANCE StampGate WITH
    Runs <- Actions,
    about <- learner,
    vetoed <- Vetoed,
    run <- GateRun

(* The workers and the judiciary together keep the execution contract.     *)
GateContract == Gate!Spec

(* Whatever the judiciary does, a run that was built comes to an end.      *)
RunsEnd == \A a \in Actions : worker[a] = "built" ~> worker[a] \in {"done", "stopped"}
=============================================================================
