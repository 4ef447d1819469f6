\* One rebuild of the hours and the days; every row is stored in its own tick.
CONSTANTS
    Refreshers = {r1}
    Markets = {m1}
    Volumes = {0, 1}
    Sizes <- BothSizes
    Length <- Lengths
    Since <- Windows
    MaxDelay = 0
    MaxTime = 3
    MaxRows = 2
    MaxTrades = 2
SPECIFICATION Spec
INVARIANTS
    RollupsComplete
CHECK_DEADLOCK FALSE
