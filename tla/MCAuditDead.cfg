CONSTANTS
    actions = actions
    consents = consents
    Streams <- MCStreams
    STREAM_CONSENT = consents
    MaxId = 1
    Faults = {"database"}
    MaxFaults = 1

SPECIFICATION FairAuditSpec

PROPERTIES
    FailedEntriesDeadLettered

CHECK_DEADLOCK FALSE
