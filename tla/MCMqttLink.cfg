SPECIFICATION FairSpec
CONSTANTS
    Filters <- FilterOrder
    Covers <- Coverage
    Reports = {"t/d/status", "t/d/event", "t/d/telemetry"}
    ResponseTopic = "t/d/response/id"
    Calls = {c1, c2}
    AsyncCalls = {a1}
    None = None
INVARIANTS
    TypeOK
    TableFollowsCalls
    SentReachedBroker
PROPERTIES
    CallReturns
CHECK_DEADLOCK FALSE
