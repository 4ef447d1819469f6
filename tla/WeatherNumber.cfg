\* Titles whose date comes before the number, or right before the place.
CONSTANTS
    m1 = m1
    m2 = m2
    m3 = m3
    Markets = {m1, m2, m3}
    Named = {m1, m2}
    NoMarket = NoMarket
    ScanSources = {"keyword", "both", "weather-tag"}
    ScanLimit = 1
    TagLimit = 2
    Asks <- MCAsks
    Ensembles <- MCEnsembles
    Books <- MCBooks
    Missing = Missing
    Bankrolls = {100000, 137, 3}
    MinConfidence = 70
    Reach = 2
    MinEdge = 8
    MaxSpread = 8
    MaxTrade = 2500
    MaxMarket = 2000
    Fraction = 4
SPECIFICATION Spec
INVARIANTS
    NumberIsNotTheDate
CHECK_DEADLOCK FALSE
