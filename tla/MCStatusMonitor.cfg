SPECIFICATION FairSpec
CONSTANTS
    Tablets = {t1, t2}
    Workers = {w1, w2}
    Pages = {p1}
    Watched <- WatchAll
    MaxScans = 2
    Failing = {t1}
    FetchTimesOut = TRUE
    Retains = TRUE
    NoTablet = NoTablet
INVARIANTS TypeOK ScanIsComplete RowRefreshPending
PROPERTIES ScanEnds
CHECK_DEADLOCK FALSE
