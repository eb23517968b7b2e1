CONSTANTS
    actions = actions
    consents = consents
    Streams <- MCStreams
    STREAM_CONSENT = consents
    MaxId = 1
    Faults = {}
    MaxFaults = 0

SPECIFICATION AuditSpec

PROPERTIES
    RevocationStands

CHECK_DEADLOCK FALSE
