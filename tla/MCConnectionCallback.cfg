SPECIFICATION FairSpec
CONSTANTS
    AppThreads = {a1, a2}
    Dispatchers = {d1}
    Sessions = {s1}
    None = None
    AppOps = {"connect", "provide", "disconnect"}
    HandlerOps = {"disconnect"}
    StartModes = {TRUE}
    Failures = {}
CHECK_DEADLOCK FALSE
PROPERTY
    CallbackDisconnectReturns
