SPECIFICATION Spec
CONSTANTS
    AppThreads = {a1, a2}
    Dispatchers = {d1, d2}
    Sessions = {s1, s2}
    None = None
    AppOps = {"connect", "provide", "publish", "disconnect", "release"}
    HandlerOps = {"reply", "publish", "provide", "disconnect"}
    StartModes = {TRUE, FALSE}
    Failures = {"connect", "start", "join", "register", "lost", "thread"}
SYMMETRY Interchangeable
CHECK_DEADLOCK FALSE
INVARIANTS
    TypeOK
    LifeInv
    IoMutexHasOneOwner
    SessionIsTheOneMeant
    DisconnectIsSerial
    DestroyedWhenUnused
    TerminatedByTwoConnects
PROPERTIES
    SessionIsHandedOver
    SessionKeptInUse
    SessionIsFinal
