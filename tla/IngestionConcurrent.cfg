\* Two overlapping jobs, one market of one event, which one page holds.
CONSTANTS
    m1 = m1
    m2 = m2
    e1 = e1
    NoEvent = NoEvent
    Jobs = {j1, j2}
    Markets = {m1}
    Nameless = {}
    Events = {e1}
    EventOf <- OneEvent
    PageSize = 1
    PollLimit = 1
    ActiveLimit = 1
    ClosedLimit = 1
    LiveEvents = 1
    MaxTime = 2
    MaxVolume = 1
    MaxRuns = 2
    MaxStops = 1
SPECIFICATION Spec
SYMMETRY JobSymmetry
INVARIANTS
    TypeOK
    RunningRowsAccounted
    StampsAreHonest
    SeenMeansSnapshot
    FetchedIsPersisted
    SnapshotsCountedOnce
    BackfillMissesNothing
PROPERTIES
    ImplementsLedger
    HistoryIsNotRewritten
CHECK_DEADLOCK FALSE
