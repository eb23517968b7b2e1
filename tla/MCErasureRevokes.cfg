CONSTANTS
    g1 = g1
    c1 = c1
    c2 = c2
    Guardians <- MCOneGuardian
    Calls <- MCCalls
    Tables <- MCPlans
    ErasedTables <- MCPlans
    MaxCalls = 4

SPECIFICATION ErasureSpec

PROPERTIES
    ErasureRevokesConsent

CHECK_DEADLOCK FALSE
