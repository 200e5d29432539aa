SPECIFICATION Spec
CONSTANTS
    Sources = {}
    Timeouts = {}
    Watches = {w1, w2}
    Clients = {c1, cb}
    Callback = cb
    ClientOps = {"watch", "unwatch"}
    Calls = {"run"}
    ObjectBound = 2
    Wake = Wake
    None = None
CHECK_DEADLOCK FALSE
INVARIANT
    DispatchOnlyReported
