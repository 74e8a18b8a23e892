SPECIFICATION FairSpec
CONSTANTS
    t1 = t1
    t2 = t2
    x = x
    Tablets = {t1, t2}
    Unknown = {x}
    Groups = {g1}
    Toggles = {q1, q2}
    Calls = {c1}
    Uploads = {u1}
    BulkLists <- Lists
    None = None
    RequestTimesOut = TRUE
INVARIANTS
    TypeOK
    ReportTellsTruth
    MembersBelong
PROPERTIES
    CallAnswers
CHECK_DEADLOCK FALSE
