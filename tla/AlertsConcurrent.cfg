\* Two workers over one market; polls are answered again and again.
CONSTANTS
    Workers = {w1, w2}
    Markets = {m1}
    Volumes = {1, 2}
    MinDelta = 1
    Multiplier = 2
    StaleAfter = 0
    Hour = 1
    HasWebhook = TRUE
    Limit = 1
    MaxTime = 1
    MaxFaults = 1
SPECIFICATION AnsweredSpec
INVARIANTS
    TypeOK
    RepeatsAreAccounted
PROPERTIES
    ImplementsOutbox
    PendingGetsHandled
CHECK_DEADLOCK FALSE
