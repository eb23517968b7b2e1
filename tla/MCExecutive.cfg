CONSTANTS
    a1 = a1
    a2 = a2
    l1 = l1
    l2 = l2
    lesson = lesson
    plan = plan
    Actions <- MCActions
    Learners <- MCLearners
    Keys <- MCKeys
    LessonKey = lesson
    TTL = 1
    MaxTime = 1
    MaxRules = 1
    s1 = s1
    s2 = s2
    Callers <- MCCallers
    Targets <- MCFewTargets
    RedisFails = TRUE

SPECIFICATION MCSpec

INVARIANTS
    ArtifactsAuthorised
    ViolationEventsBacked
    ArtifactsOnTrail
    RowIsTransition
    NothingUncommitted

PROPERTIES
    GateContract
    RunsEnd
    CallsEnd

CHECK_DEADLOCK FALSE
