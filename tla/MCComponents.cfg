CONSTANTS
    c1 = c1
    c2 = c2
    streak = streak
    xp = xp
    mastery = mastery
    Calls <- MCCalls
    StreakBadges = {streak}
    XPBadges = {xp}
    OtherBadges = {mastery}
    threshold <- MCThreshold
    Amounts = {1, 2}
    MaxDay = 3
    MaxXP = 3
    i1 = i1
    i2 = i2
    u1 = u1
    u2 = u2
    u3 = u3
    w1 = w1
    w2 = w2
    Items <- MCItems
    Updates <- MCUpdates
    Answers <- MCAnswers
    item <- MCItemOf
    f1 = f1
    f2 = f2
    x1 = x1
    x2 = x2
    en = en
    zu = zu
    Feedback <- MCFeedback
    Exports <- MCExports
    Languages <- MCLanguages
    s1 = s1
    s2 = s2
    Starts <- MCStarts
    Target = 3
    Floor = 2
    BatchSize = 2
    ip = ip
    Addresses <- MCAddresses
    PerMinute = 2
    Minute = 3
    LastTick = 7
    l1 = l1
    m1 = m1
    m2 = m2
    Learners <- MCLearners
    Numbers = {0, 1}
    Assessments <- MCAssessments
    d1 = d1
    d2 = d2
    b1 = b1
    b2 = b2
    SessionIds <- MCSessionIds
    BankItems <- MCBankItems
    MinItems = 2
    g1 = g1
    g2 = g2
    old = old
    new = new
    Agents <- MCAgents
    Documents <- MCDocuments
    Places = 2
    Dates = {1, 2}
    Text <- MCText
    v1 = v1
    v2 = v2
    p1 = p1
    Reviews <- MCReviews
    Prompts <- MCPrompts
    CacheTTL = 2
    LastMoment = 3
    r1 = r1
    r2 = r2
    r3 = r3
    groq = groq
    anthropic = anthropic
    local = local
    Requests <- MCRequests
    Providers <- MCProviders
    Priority <- MCPriority
    FailMax <- MCFailMax
    t1 = t1
    t2 = t2
    Tasks <- MCTasks
    BufferSize = 2

SPECIFICATION MCSpec

INVARIANTS
    BadgeAtMostOnce
    MilestonesAwarded
    VersionsInSequence
    ExportedOnce
    FloorBeforeSurplus
    WindowHolds
    HashMeansRules
    UnannouncedOnlyPastOpen

PROPERTIES
    BadgesDeserved
    ProgressStaysServed
    CachedVerdictsAreRecent
    BreakersStayOpen
    HalfConnectedStaysMute

CHECK_DEADLOCK FALSE
