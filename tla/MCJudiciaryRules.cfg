CONSTANTS
    a1 = a1
    a2 = a2
    a3 = a3
    k1 = k1
    k2 = k2
    Actions <- MCActions
    Keys <- MCOneKey
    TTL = 2
    MaxTime = 3
    MaxRules = 2

SPECIFICATION RulesSpec

PROPERTIES
    GroundedInLatestRules

CHECK_DEADLOCK FALSE
