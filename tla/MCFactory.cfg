SPECIFICATION FairSpec
CONSTANTS
    Threads = {t1, t2}
    Interfaces = {"I", "J"}
    Addresses = {"one", "two", "blank"}
    Realms = {"local:I:one", "local:I:two", "::", "r"}
    RealmOf <- MCRealmOf
    AddressOf <- MCAddressOf
    InterfaceOf <- MCInterfaceOf
    Ids = {id}
    Contexts = {context}
    Managed = Managed
    Ops = {"register", "unregister", "managed", "unmanaged"}
    CallBound = 3
CHECK_DEADLOCK FALSE
INVARIANTS
    TypeOK
    RoundTrip
    ServiceUnderItsAddress
    OrphanHasOneUser
    ListedIsServed
    OnlyServedConnections
    InitialisedOnce
PROPERTIES
    ServiceKept
    CachedForGood
    RegistrationGoesOn
