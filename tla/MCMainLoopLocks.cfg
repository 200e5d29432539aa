SPECIFICATION FairSpec
CONSTANTS
    Sources = {}
    Timeouts = {}
    Watches = {w1, w2}
    Clients = {c1}
    Callback = cb
    ClientOps = {"watch", "wakeup"}
    Calls = {"run"}
    ObjectBound = 2
    Wake = Wake
    None = None
CHECK_DEADLOCK FALSE
PROPERTY
    CheckGoesOn
