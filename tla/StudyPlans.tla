---------------------------- MODULE StudyPlans ----------------------------
(***************************************************************************)
(* Who makes study plans, and what is left when one of the steps fails:    *)
(* the requests of routers/study_plans.py, which write an audit event with *)
(* core/audit_helpers.py after the plan, and the Celery jobs of            *)
(* tasks/plan_tasks.py and tasks/report_tasks.py.                          *)
(*                                                                         *)
(* StudyPlanService.run (module Executive) either raises or commits a plan *)
(* in the session it is given; a WorkerAgent's own steps are not repeated  *)
(* here.  A job is a list of learners it works off.  The jobs' INSERT      *)
(* (:schedule::jsonb is no bind parameter, and the table has none of the   *)
(* columns) fails whenever it is reached.  Celery and its broker are       *)
(* external.                                                               *)
(***************************************************************************)
EXTENDS Naturals, Sequences, FiniteSets

CONSTANTS
    Learners, WebRequests, Jobs,
    MaxRetries,     \* of a kind of job: 3 or 2
    MaxCrashes      \* workers lost with a job, a bound of the model

ASSUME StudyPlansAssumption ==
    /\ MaxCrashes \in Nat
    /\ MaxRetries \in [{"refresh", "daily", "weekly"} -> Nat]
    /\ WebRequests \cap Jobs = {}

VARIABLES
    kind,       \* of a job: the task it is a message for
    diagnosed,  \* learners with a completed diagnostic_sessions row
    saved,      \* committed study_plans and reports: who wrote one for whom
    logged,     \* requests whose audit_events row is committed
    transaction, \* where the transaction of a request stands
    status,     \* HTTP status of a request, 0 before
    job,        \* where a job stands
    left,       \* learners the delivery has still to work for, in order
    retries,    \* request.retries of a job's message
    deliveries  \* how often a worker was given it

plansVars == <<kind, diagnosed, saved, logged, transaction, status, job, left,
               retries, deliveries>>
webVars == <<logged, transaction, status>>
jobVars == <<kind, diagnosed, job, left, retries, deliveries>>

Save == [by : WebRequests \cup Jobs, learner : Learners, delivery : Nat]

PlansTypeOK ==
    /\ kind \in [Jobs -> DOMAIN MaxRetries]
    /\ diagnosed \subseteq Learners /\ logged \subseteq WebRequests
    /\ saved \subseteq Save
    /\ transaction \in [WebRequests ->
                          {"idle", "planned", "flushed", "aborted", "closed"}]
    /\ status \in [WebRequests -> {0, 200, 400, 404, 503}]
    /\ job \in [Jobs -> {"queued", "selecting", "running", "insert",
                         "success", "failed"}]
    /\ left \in [Jobs -> Seq(Learners)]
    /\ \A j \in Jobs :
          /\ retries[j] \in 0 .. MaxRetries[kind[j]]
          /\ deliveries[j] \in 0 .. MaxRetries[kind[j]] + MaxCrashes + 1

PlansInit ==
    /\ kind \in [Jobs -> DOMAIN MaxRetries]
    /\ diagnosed \in SUBSET Learners
    /\ saved = {} /\ logged = {}
    /\ transaction = [r \in WebRequests |-> "idle"]
    /\ status = [r \in WebRequests |-> 0]
    /\ job = [j \in Jobs |-> "queued"]
    /\ left = [j \in Jobs |-> <<>>]
    /\ retries = [j \in Jobs |-> 0]
    /\ deliveries = [j \in Jobs |-> 0]

-----------------------------------------------------------------------------
Close(r, code) ==
    /\ transaction' = [transaction EXCEPT ![r] = "closed"]
    /\ status' = [status EXCEPT ![r] = code]

(* generate_study_plan, refresh_study_plan up to the service's own commit: *)
(* a ValueError (generate alone has an answer for it), no such learner     *)
(* (refresh alone looks), a worker that raises, or a plan.                 *)
MakePlan(r) ==
    /\ transaction[r] = "idle"
    /\ \/ /\ \E code \in {400, 404, 503} : Close(r, code)
          /\ UNCHANGED saved
       \/ /\ \E l \in Learners :
                saved' = saved \cup {[by |-> r, learner |-> l, delivery |-> 0]}
          /\ transaction' = [transaction EXCEPT ![r] = "planned"]
          /\ UNCHANGED status
    /\ UNCHANGED <<logged, jobVars>>

(* emit_audit_event: a failed flush is swallowed, and leaves the session   *)
(* unusable until somebody rolls it back.                                  *)
EmitAuditEvent(r) ==
    /\ transaction[r] = "planned"
    /\ \E t \in {"flushed", "aborted"} :
          transaction' = [transaction EXCEPT ![r] = t]
    /\ UNCHANGED <<saved, logged, status, jobVars>>

(* The router's commit and answer.                                         *)
CommitRequest(r) ==
    /\ \/ /\ transaction[r] = "flushed"
          /\ logged' = logged \cup {r}
          /\ Close(r, 200)
       \/ /\ transaction[r] \in {"flushed", "aborted"}
          /\ Close(r, 503)
          /\ UNCHANGED logged
    /\ UNCHANGED <<saved, jobVars>>

(* get_current_plan and get_study_plan_rationale; the history is never 404.*)
ReadPlan(r) ==
    /\ transaction[r] = "idle"
    /\ \E l \in Learners, history \in BOOLEAN :
          Close(r, IF history \/ \E s \in saved : s.learner = l
                   THEN 200 ELSE 404)
    /\ UNCHANGED <<saved, logged, jobVars>>

-----------------------------------------------------------------------------
(* A worker is given the message, which stays unacknowledged till the end. *)
StartJob(j) ==
    /\ job[j] = "queued"
    /\ job' = [job EXCEPT ![j] = "selecting"]
    /\ left' = [left EXCEPT ![j] = <<>>]
    /\ deliveries' = [deliveries EXCEPT ![j] = @ + 1]
    /\ UNCHANGED <<kind, diagnosed, saved, retries, webVars>>

(* The learner of the message, the recently diagnosed, or those a guardian *)
(* is linked to, in whatever order the rows come.                          *)
Selections(j) ==
    LET orders(S) == {q \in [1 .. 1 -> S] \cup [1 .. 2 -> S] \cup {<<>>} :
                         \A m, n \in DOMAIN q : q[m] = q[n] => m = n}
    IN  CASE kind[j] = "refresh" -> {q \in orders(Learners) : Len(q) = 1}
          [] kind[j] = "daily" -> orders(diagnosed)
          [] kind[j] = "weekly" -> orders(Learners)

SelectLearners(j) ==
    /\ job[j] = "selecting"
    /\ job' = [job EXCEPT ![j] = "running"]
    /\ \E q \in Selections(j) : left' = [left EXCEPT ![j] = q]
    /\ UNCHANGED <<kind, diagnosed, saved, retries, deliveries, webVars>>

(* Done with a learner, whatever came of it.                               *)
NextLearner(j) ==
    /\ left' = [left EXCEPT ![j] = Tail(@)]
    /\ job' = [job EXCEPT ![j] = "running"]
    /\ UNCHANGED retries

(* Seeded fault: the task is published anew, and its count with it.        *)
RetryAnew(j) ==
    /\ job' = [job EXCEPT ![j] = "queued"]
    /\ UNCHANGED <<retries, left>>

(* self.retry: published again with its count, or given up.                *)
Retry(j) ==
    /\ IF retries[j] < MaxRetries[kind[j]]
       THEN /\ job' = [job EXCEPT ![j] = "queued"]
            /\ retries' = [retries EXCEPT ![j] = @ + 1]
       ELSE /\ job' = [job EXCEPT ![j] = "failed"]
            /\ UNCHANGED retries
    /\ UNCHANGED left

(* An exception while a learner is worked for: the jobs over many learners *)
(* log it and go on.                                                       *)
Raise(j) == IF kind[j] = "refresh" THEN Retry(j) ELSE NextLearner(j)

SelectFails(j) ==
    /\ job[j] = "selecting"
    /\ Retry(j)
    /\ UNCHANGED <<kind, diagnosed, saved, deliveries, webVars>>

(* No completed diagnostic and an OperationResult without success are a    *)
(* plain return; a failing database, or report, raises.                    *)
NothingSaved(j) ==
    /\ job[j] = "running" /\ left[j] # <<>>
    /\ (kind[j] # "weekly" /\ NextLearner(j)) \/ Raise(j)
    /\ UNCHANGED <<kind, diagnosed, saved, deliveries, webVars>>

(* The worker's plan, or report, committed by its own session.             *)
WorkerSaves(j) ==
    /\ job[j] = "running" /\ left[j] # <<>>
    /\ kind[j] = "weekly" \/ Head(left[j]) \in diagnosed
    /\ saved' = saved \cup {[by |-> j, learner |-> Head(left[j]),
                             delivery |-> deliveries[j]]}
    /\ IF kind[j] = "weekly"
       THEN NextLearner(j)
       ELSE job' = [job EXCEPT ![j] = "insert"] /\ UNCHANGED <<left, retries>>
    /\ UNCHANGED <<kind, diagnosed, deliveries, webVars>>

(* _refresh_study_plan's own INSERT of the plan the worker has saved: it   *)
(* never succeeds.                                                         *)
InsertPlan(j) ==
    /\ job[j] = "insert"
    /\ Raise(j)
    /\ UNCHANGED <<kind, diagnosed, saved, deliveries, webVars>>

(* The task returns its message, and is acknowledged.                      *)
JobReturns(j) ==
    /\ job[j] = "running" /\ left[j] = <<>>
    /\ job' = [job EXCEPT ![j] = "success"]
    /\ UNCHANGED <<kind, diagnosed, saved, left, retries, deliveries, webVars>>

(* Seeded fault: the message is acknowledged when it is delivered.         *)
LostForGood(j) ==
    /\ job[j] \in {"selecting", "running", "insert"}
    /\ deliveries[j] <= retries[j] + MaxCrashes
    /\ job' = [job EXCEPT ![j] = "lost"]
    /\ UNCHANGED <<kind, diagnosed, saved, left, retries, deliveries, webVars>>

(* task_acks_late, task_reject_on_worker_lost: the same message again.     *)
WorkerLost(j) ==
    /\ job[j] \in {"selecting", "running", "insert"}
    /\ deliveries[j] <= retries[j] + MaxCrashes
    /\ job' = [job EXCEPT ![j] = "queued"]
    /\ UNCHANGED <<kind, diagnosed, saved, left, retries, deliveries, webVars>>

JobStep(j) ==
    \/ StartJob(j) \/ SelectLearners(j) \/ SelectFails(j)
    \/ NothingSaved(j) \/ WorkerSaves(j) \/ InsertPlan(j) \/ JobReturns(j)

PlansNext ==
    \/ \E r \in WebRequests : MakePlan(r) \/ EmitAuditEvent(r)
                           \/ CommitRequest(r) \/ ReadPlan(r)
    \/ \E j \in Jobs : JobStep(j) \/ WorkerLost(j)

PlansSpec == PlansInit /\ [][PlansNext]_plansVars

(* The broker hands out what is queued, and a worker goes on.              *)
FairPlansSpec == PlansSpec /\ \A j \in Jobs : WF_plansVars(JobStep(j))

-----------------------------------------------------------------------------
(* Every run of a job that is cut short or raises starts over, and what it *)
(* has committed stays: a message leaves as many plans, or reports, of a   *)
(* learner as it had deliveries, but these are no more than its retries,   *)
(* the workers lost with it and one (self.retry carries its count;         *)
(* task_acks_late).                                                        *)
SavesBoundedByRetries ==
    \A s \in saved : s.by \in Jobs =>
        s.delivery \in 1 .. MaxRetries[kind[s.by]] + MaxCrashes + 1

(* Every message a worker is given comes to an end, done or given up,      *)
(* though workers raise and are lost with it.                              *)
JobsEnd ==
    \A j \in Jobs : job[j] = "selecting" ~> job[j] \in {"success", "failed"}

-----------------------------------------------------------------------------
(* What comments and messages say and the code does not do.                *)

(* audit_helpers.py: "audit emission failure should not block operations". *)
(* The flush that fails leaves the session unusable, so the router's       *)
(* commit raises and the request is answered with an error.                *)
AuditFailureBlocksNothing ==
    [][\A r \in WebRequests :
          transaction[r] = "aborted" /\ transaction'[r] = "closed" =>
              status'[r] = 200]_plansVars

(* plan_tasks.py: the refresh task is to generate "a new study plan", and  *)
(* returns "Study plan generated".  It says so of a diagnosed learner who  *)
(* was refused one; and each retry of a run that did save one saves one    *)
(* more.                                                                   *)
RefreshMakesOnePlan ==
    \A j \in Jobs :
        LET plans == {s \in saved : s.by = j}
        IN  kind[j] = "refresh" /\ diagnosed = Learners =>
                /\ job[j] = "success" => plans # {}
                /\ Cardinality(plans) <= 1
=============================================================================
