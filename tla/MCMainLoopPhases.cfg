SPECIFICATION Spec
CONSTANTS
    Sources = {x1}
    Timeouts = {t1}
    Watches = {w1, w2}
    Clients = {c1, cb}
    Callback = cb
    ClientOps = {"source", "timeout", "watch", "unsource", "untimeout", "unwatch",
                 "stop", "wakeup"}
    Calls = {"run", "prepare", "check"}
    ObjectBound = 2
    Wake = Wake
    None = None
CHECK_DEADLOCK FALSE
SYMMETRY Interchangeable
INVARIANTS
    TypeOK
    NothingFreedInUse
    DescriptorsLinked
    MutexHolders
PROPERTIES
    ReportedUnlessShifted
    KeepsPromise
