CONSTANTS
    l1 = l1
    l2 = l2
    q1 = q1
    j1 = j1
    Learners <- MCLearners
    WebRequests <- MCWebRequests
    Jobs <- MCJobs
    MaxRetries <- MCMaxRetries
    MaxCrashes = 1

SPECIFICATION PlansSpec

PROPERTIES
    AuditFailureBlocksNothing

CHECK_DEADLOCK FALSE
