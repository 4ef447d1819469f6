\* The limit is smaller than the number of markets that wait.
CONSTANTS
    Scans = {s1}
    Syncs = {y1}
    Markets = {m1, m2}
    NoMarket = NoMarket
    ScanSources = {"keyword"}
    ScanLimit = 1
    SyncLimit = 1
    MaxSignals = 2
    MaxReversals = 0
    MaxFailures = 0
SPECIFICATION FairSpec
PROPERTIES
    DecidedGetsSettled
CHECK_DEADLOCK FALSE
