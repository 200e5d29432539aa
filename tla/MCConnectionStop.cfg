SPECIFICATION FairSpec
CONSTANTS
    AppThreads = {a1, a2}
    Dispatchers = {d1}
    Sessions = {s1}
    None = None
    AppOps = {"connect", "provide", "publish", "disconnect", "attach", "names", "release"}
    HandlerOps = {"reply", "attach", "connect"}
    StartModes = {TRUE}
    Failures = {"connect", "start", "join", "register", "lost"}
CHECK_DEADLOCK FALSE
INVARIANT
    WaitersAreServed
PROPERTIES
    ProvideReturns
    DisconnectReturns
    DestroyedAfterStop
