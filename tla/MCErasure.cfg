CONSTANTS
    g1 = g1
    c1 = c1
    c2 = c2
    Guardians <- MCOneGuardian
    Calls <- MCCalls
    Tables <- MCPlans
    ErasedTables <- MCPlans
    MaxCalls = 5

SPECIFICATION FairErasureSpec

INVARIANTS
    ErasureTypeOK
    ErasedWhatWasThere
    ErasureClosesAccess

PROPERTIES
    CallsReturn

CHECK_DEADLOCK FALSE
