SPECIFICATION FairSpec
CONSTANTS
    c1 = c1
    h1 = h1
    h2 = h2
    Commands = {c1}
    Handlers = {h1, h2}
    Cancelers = {}
    MapColumns = {FALSE, TRUE}
    NoMsg = NoMsg
PROPERTIES
    ImplementsLifecycle
    CallReturns
CHECK_DEADLOCK FALSE
