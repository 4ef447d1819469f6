\* One worker whose polls may all fail from some time on.
CONSTANTS
    Workers = {w1}
    Markets = {m1}
    Volumes = {1, 2}
    MinDelta = 1
    Multiplier = 2
    StaleAfter = 0
    Hour = 1
    HasWebhook = TRUE
    Limit = 1
    MaxTime = 1
    MaxFaults = 0
SPECIFICATION FairSpec
PROPERTIES
    StaleStoreIsWarned
CHECK_DEADLOCK FALSE
