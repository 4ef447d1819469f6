\* Two overlapping rebuilds of the hours over one market.
CONSTANTS
    Refreshers = {r1, r2}
    Markets = {m1}
    Volumes = {0, 1}
    Sizes <- HourOnly
    Length <- Lengths
    Since <- Windows
    MaxDelay = 1
    MaxTime = 3
    MaxRows = 3
    MaxTrades = 2
SPECIFICATION Spec
SYMMETRY RefreshSymmetry
INVARIANTS
    TypeOK
    NeverOvercounts
    KeysAreFree
    WindowExact
    DeltasWithinGrowth
CHECK_DEADLOCK FALSE
