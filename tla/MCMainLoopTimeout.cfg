SPECIFICATION FairSpec
CONSTANTS
    Sources = {}
    Timeouts = {t1}
    Watches = {}
    Clients = {c1}
    Callback = cb
    ClientOps = {"timeout"}
    Calls = {"run"}
    ObjectBound = 2
    Wake = Wake
    None = None
CHECK_DEADLOCK FALSE
PROPERTY
    TimeoutServed
