\* Jobs one after the other; a market and a nameless payload in pages of one,
\* so that a market can come twice in a fetch, or not at all.
CONSTANTS
    m1 = m1
    m2 = m2
    e1 = e1
    NoEvent = NoEvent
    Jobs = {j1}
    Markets = {m1}
    Nameless = {m2}
    Events = {e1}
    EventOf <- OneEvent
    PageSize = 1
    PollLimit = 2
    ActiveLimit = 2
    ClosedLimit = 0
    LiveEvents = 1
    MaxTime = 1
    MaxVolume = 1
    MaxRuns = 2
    MaxStops = 0
SPECIFICATION FairSpec
INVARIANTS
    RowsLeadSnapshots
PROPERTIES
    EveryRunEnds
CHECK_DEADLOCK FALSE
