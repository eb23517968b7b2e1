---------------------------- MODULE MCStudyPlans ----------------------------
(* One request and one job over two learners; one retry, and one worker    *)
(* lost with the job.                                                      *)
EXTENDS StudyPlans

CONSTANTS l1, l2, q1, j1

MCLearners == {l1, l2}
MCWebRequests == {q1}
MCJobs == {j1}
MCMaxRetries == [k \in {"refresh", "daily", "weekly"} |-> 1]
=============================================================================
