SPECIFICATION MailboxSpec
CONSTANTS
    Sets = {s1, s2, s3}
    EmptyLists = {}
    Polls = {p1, p2}
    None = None
    MaxClock = 1
    Lossy = TRUE
    Crashes = TRUE
    Unmarkable = {s3}
SYMMETRY MailboxSymmetry
INVARIANTS MailboxTypeOK OldestFirst
PROPERTIES NeverReverts
CHECK_DEADLOCK FALSE
