\* Two scans and repeated syncs overlap on one market; one price turns.
CONSTANTS
    Scans = {s1, s2}
    Syncs = {y1}
    Markets = {m1}
    NoMarket = NoMarket
    ScanSources = {"keyword", "both", "weather-tag"}
    ScanLimit = 1
    SyncLimit = 1
    MaxSignals = 2
    MaxReversals = 1
    MaxFailures = 1
SPECIFICATION FairSpec
INVARIANTS
    TypeOK
    OrdersMatchSignals
    SettlementsWereDecided
    StatusFollowsSettlement
    ScanNeverRepeats
PROPERTIES
    DecidedGetsSettled
CHECK_DEADLOCK FALSE
