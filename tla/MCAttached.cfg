SPECIFICATION ASpec
CONSTANTS
    Sources = {x1, x2}
    Owned = {x1}
    Timeouts = {t1}
    Watches = {}
    Clients = {c1, cb}
    Callback = cb
    Connections = {k1}
    ClientOps = {"source", "unsource", "timeout", "untimeout", "stop", "wakeup"}
    Calls = {"run"}
    WakeFds = {TRUE, FALSE}
    ObjectBound = 3
    Wake = Wake
    None = None
CHECK_DEADLOCK FALSE
INVARIANT
    UndefinedOnlyEarly
    NothingGoneInUse
PROPERTIES
    DueIsDispatched
    StopEndsRun
    DeletedAtLast
