CONSTANTS
    c1 = c1
    c2 = c2
    Callers <- MCTwo
    Targets <- MCFewTargets
    RedisFails = FALSE

SPECIFICATION SessionSpec

PROPERTIES
    SuspensionHolds

CHECK_DEADLOCK FALSE
