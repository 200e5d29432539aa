SPECIFICATION Spec
CONSTANTS
    AppThreads = {a1, a2}
    Dispatchers = {d1}
    Sessions = {s1}
    None = None
    AppOps = {"connect", "provide", "publish"}
    HandlerOps = {"reply"}
    StartModes = {TRUE}
    Failures = {"join"}
CHECK_DEADLOCK FALSE
INVARIANT
    UsesJoinedSession
