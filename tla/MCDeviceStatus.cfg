SPECIFICATION StatusSpec
CONSTANTS
    r1 = r1
    r2 = r2
    l1 = l1
    l2 = l2
    Devices = {d1}
    Requests = {r1, r2}
    Lanes = {l1, l2}
    Subscribers = {s1}
    MapColumns = {FALSE, TRUE}
    None = None
SYMMETRY CallerSymmetry
INVARIANTS
    StatusTypeOK
    NeverSendsOnClosed
    ReportLasts
    BatchAddsUp
CHECK_DEADLOCK FALSE
