CONSTANTS
    a1 = a1
    a2 = a2
    a3 = a3
    k1 = k1
    k2 = k2
    Actions <- MCTwoActions
    Keys <- MCKeys
    TTL = 2
    MaxTime = 3
    MaxRules = 2
    c1 = c1
    c2 = c2
    c3 = c3
    e1 = e1
    t1 = t1
    t2 = t2
    AuthCalls <- MCAuthCalls
    Emails <- MCEmails
    Tokens <- MCTokens
    Second = 2
    Lifetime = 4
    LastTick = 5
    l1 = l1
    l2 = l2
    q1 = q1
    j1 = j1
    Learners <- MCLearners
    WebRequests <- MCWebRequests
    Jobs <- MCJobs
    MaxRetries <- MCMaxRetries
    MaxCrashes = 1
    actions = actions
    consents = consents
    Streams <- MCStreams
    STREAM_CONSENT = consents
    MaxId = 2
    Faults = {"database", "redis", "crash"}
    MaxFaults = 1
    s1 = s1
    Callers <- MCCallers
    Targets <- MCAllTargets
    RedisFails = FALSE

SPECIFICATION MCSpec

INVARIANTS
    ApprovalRestsOnReview
    FlaggedNeverApproved
    RejectionOnRecord
    OneVerdict
    LoggedOutStaysOut
    
    AckMeansWritten
    LoggedOnce

PROPERTIES
    AmendmentsReachHits
    ColdKeysStayCold
    ReviewsEnd
    JobsEnd
    KeepsLog
    NewEntriesLogged
    ImplementsFSM

CHECK_DEADLOCK FALSE
