SPECIFICATION Spec
CONSTANTS
    c1 = c1
    c2 = c2
    h1 = h1
    x1 = x1
    Commands = {c1, c2}
    Handlers = {h1}
    Cancelers = {x1}
    MapColumns = {FALSE, TRUE}
    NoMsg = NoMsg
SYMMETRY CommandsAlike
INVARIANTS
    TypeOK
    TableTracksCalls
    VerdictFromDevice
    HistoryTellsVerdict
CHECK_DEADLOCK FALSE
