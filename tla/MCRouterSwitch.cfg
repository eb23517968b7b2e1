CONSTANTS
    r1 = r1
    r2 = r2
    r3 = r3
    groq = groq
    anthropic = anthropic
    local = local
    Requests <- MCRequests
    Providers <- MCProviders
    Priority <- MCPriority
    FailMax <- MCFailMax

SPECIFICATION RouterSpec

INVARIANTS
    SwitchAnnounced

CHECK_DEADLOCK FALSE
