\* A server's loop and a command over one token and one print.
CONSTANTS
    a1 = a1
    Servers = {s1}
    Commands = {c1}
    EnableScheduler = TRUE
    EnableStream = TRUE
    Assets = {a1}
    Prints = {p1}
    AssetOf <- OneAsset
    AssetLimit = 1
    Window = 2
    MaxRuns = 2
    MaxInbox = 1
    MaxFaults = 1
SPECIFICATION FairSpec
INVARIANTS
    TypeOK
    TradesCountedOnce
PROPERTIES
    ImplementsLedger
    WindowsEnd
    StreamReturns
    StopReturns
CHECK_DEADLOCK FALSE
