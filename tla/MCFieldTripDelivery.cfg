SPECIFICATION MailboxFairSpec
CONSTANTS
    Sets = {s1, s2, s3}
    EmptyLists = {}
    Polls = {p1, p2}
    None = None
    MaxClock = 1
    Lossy = FALSE
    Crashes = FALSE
    Unmarkable = {}
PROPERTIES WhitelistReachesTablet
CHECK_DEADLOCK FALSE
