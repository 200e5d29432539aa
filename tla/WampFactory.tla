----------------------------- MODULE WampFactory -----------------------------
(***************************************************************************)
(* The Factory with the WampAddressTranslator and the WampStubAdapters it  *)
(* keeps: interface libraries register their initialisers, threads of the  *)
(* application register stubs, generated code registers managed services.  *)
(* The factory's maps have no mutex; each find, insert and erase is a step *)
(* here, and other threads come in between.  The translator and the        *)
(* initialisers have a mutex each.                                         *)
(*                                                                         *)
(* A connection is its place in conns and how far it is; its inside is the *)
(* business of WampConnection.                                             *)
(***************************************************************************)
EXTENDS Naturals, Sequences, FiniteSets

CONSTANTS
    Threads,       \* of the application
    Interfaces,    \* each with a generated library
    Addresses,     \* CommonAPI addresses
    Realms,        \* what a WampAddress holds
    RealmOf,       \* the realm that spells out an address
    AddressOf,     \* the address that CommonAPI reads from a realm
    InterfaceOf,   \* the interface part of an address, if it has one
    Ids, Contexts, \* connection ids and main loop contexts
    Managed,       \* in place of these for a managed service
    Ops,           \* the calls that are made
    CallBound      \* how many calls are made in all

ASSUME SpellingIsReadBack ==
    /\ RealmOf \in [Addresses -> Realms]
    /\ AddressOf \in [Realms -> Addresses]
    /\ \A a \in Addresses : AddressOf[RealmOf[a]] = a
ASSUME InterfacesOfAddresses == DOMAIN InterfaceOf = Addresses
ASSUME KeysDistinct == Ids \cap Contexts = {} /\ Managed \notin Ids \cup Contexts
ASSUME OpsKnown == Ops \subseteq {"register", "unregister", "managed", "unmanaged"}
ASSUME CallBoundNat == CallBound \in Nat

VARIABLES
    loaded,           \* interfaces whose library called registerInterface
    initializers,     \* initializers_
    left,             \* those that the loop in init() has still to call
    isInitialized,    \* isInitialized_
    initializerMutex, \* initializerMutex_ is locked by init()
    ran,              \* how often the initialiser of an interface ran
    forwards,         \* forwards_ of the translator
    backwards,        \* backwards_
    conns,            \* the connections in the order of their creation
    connections,      \* connections_ and contextConnections_
    services,         \* services_
    provided,         \* realms whose procedure the router knows, with the connection
                      \* it calls it on
    pc, my,           \* the threads, and the locals of their calls
    found,            \* the iterators of those in unregisterManagedService
    undefined,        \* an iterator was used whose element was erased
    calls             \* the number of calls made

vars == <<loaded, initializers, left, isInitialized, initializerMutex, ran, forwards,
          backwards, conns, connections, services, provided, pc, my, found, undefined,
          calls>>

initialising == <<loaded, initializers, left, isInitialized, initializerMutex, ran>>
translator == <<forwards, backwards>>
registry == <<conns, connections, services, provided>>
iterators == <<found, undefined>>
threads == <<pc, my, iterators, calls>>

Keys == Ids \cup Contexts

(* How far a connection is.  Before connect(); with a thread in io_.run(), or
   with nobody there; joined; with connected_ unset for good, or set and io_
   stopped.                                                                *)
ConnStates == {"new", "connecting", "unserved", "connected", "failed", "stopped"}

PCs == {"idle", "getConnection", "insert", "connect", "create", "provide", "add",
        "manage", "unmanage"}

(* What a call keeps in its locals, and an adapter once there is one. *)
Locals == [key : Keys \cup {Managed}, address : Addresses, realm : Realms,
           connection : Nat]

Known == {i \in Interfaces : ran[i] > 0}

TypeOK ==
    /\ loaded \subseteq Interfaces
    /\ initializers \in Seq(Interfaces) /\ left \in Seq(Interfaces)
    /\ isInitialized \in BOOLEAN
    /\ initializerMutex \in BOOLEAN
    /\ ran \in [Interfaces -> Nat]
    /\ DOMAIN forwards \subseteq Addresses
    /\ \A a \in DOMAIN forwards : forwards[a] \in Realms
    /\ DOMAIN backwards \subseteq Realms
    /\ \A r \in DOMAIN backwards : backwards[r] \in Addresses
    /\ conns \in Seq(ConnStates)
    /\ DOMAIN connections \subseteq Keys
    /\ \A k \in DOMAIN connections : connections[k] \in DOMAIN conns
    /\ DOMAIN services \subseteq Addresses
    /\ \A a \in DOMAIN services : services[a].connection \in DOMAIN conns
    /\ DOMAIN provided \subseteq Realms
    /\ pc \in [Threads -> PCs]
    /\ calls \in 0..CallBound
    /\ DOMAIN my = {t \in Threads : pc[t] \notin {"idle", "unmanage"}}
    /\ \A t \in DOMAIN my : /\ my[t] \in Locals
                            /\ my[t].key = Managed <=> pc[t] = "manage"
                            /\ pc[t] # "getConnection" => my[t].connection \in DOMAIN conns
    /\ DOMAIN found = {t \in Threads : pc[t] = "unmanage"}
    /\ \A t \in DOMAIN found : found[t].valid \in BOOLEAN
    /\ undefined \in BOOLEAN

Empty == [x \in {} |-> x]

Init ==
    /\ loaded = {} /\ initializers = <<>> /\ left = <<>>
    /\ isInitialized = FALSE /\ initializerMutex = FALSE
    /\ ran = [i \in Interfaces |-> 0]
    /\ forwards = Empty /\ backwards = Empty
    /\ conns = <<>> /\ connections = Empty
    /\ services = Empty /\ provided = Empty
    /\ pc = [t \in Threads |-> "idle"] /\ my = Empty /\ calls = 0
    /\ found = Empty /\ undefined = FALSE

(* map::insert leaves an entry that is there. *)
Insert(m, k, v) == [x \in DOMAIN m \cup {k} |-> IF x \in DOMAIN m THEN m[x] ELSE v]
Assign(m, k, v) == [x \in DOMAIN m \cup {k} |-> IF x = k THEN v ELSE m[x]]
Erase(m, k) == [x \in DOMAIN m \ {k} |-> m[x]]

-----------------------------------------------------------------------------
(* Initialisers.  The function that an interface library hands over enters *)
(* the library's create function.                                          *)

(* Mutant: initializerMutex_ is not locked. *)
MutRegisterInterface(i) ==
    /\ i \notin loaded /\ loaded' = loaded \cup {i}
    /\ IF isInitialized
       THEN ran' = [ran EXCEPT ![i] = @ + 1] /\ UNCHANGED initializers
       ELSE initializers' = Append(initializers, i) /\ UNCHANGED ran
    /\ UNCHANGED <<left, isInitialized, initializerMutex, translator, registry, threads>>

RegisterInterface(i) ==
    /\ i \notin loaded /\ loaded' = loaded \cup {i}
    /\ ~initializerMutex
    /\ IF isInitialized
       THEN ran' = [ran EXCEPT ![i] = @ + 1] /\ UNCHANGED initializers
       ELSE initializers' = Append(initializers, i) /\ UNCHANGED ran
    /\ UNCHANGED <<left, isInitialized, initializerMutex, translator, registry, threads>>

(* init() takes the mutex and starts its loop over initializers_. *)
InitLock ==
    /\ ~initializerMutex /\ ~isInitialized
    /\ initializerMutex' = TRUE
    /\ left' = initializers
    /\ UNCHANGED <<loaded, initializers, isInitialized, ran, translator, registry,
                   threads>>

InitNext ==
    /\ initializerMutex /\ left # <<>>
    /\ ran' = [ran EXCEPT ![Head(left)] = @ + 1]
    /\ left' = Tail(left)
    /\ UNCHANGED <<loaded, initializers, isInitialized, initializerMutex, translator,
                   registry, threads>>

(* The list is cleared, with whatever is in it. *)
InitUnlock ==
    /\ initializerMutex /\ left = <<>>
    /\ initializers' = <<>>
    /\ isInitialized' = TRUE /\ initializerMutex' = FALSE
    /\ UNCHANGED <<loaded, left, ran, translator, registry, threads>>

-----------------------------------------------------------------------------
(* WampAddressTranslator::translate, both ways, under its mutex.  isDefault_
   is always true.                                                         *)

(* Mutant: only the interface goes into the realm. *)
MutSetRealm(a) == RealmOf[CHOOSE b \in Addresses : InterfaceOf[b] = InterfaceOf[a]]

SetRealm(a) == RealmOf[a]

Forward(a) == IF a \in DOMAIN forwards THEN forwards[a] ELSE SetRealm(a)
Back(r) == IF r \in DOMAIN backwards THEN backwards[r] ELSE AddressOf[r]

TranslateForward(a) ==
    IF a \in DOMAIN forwards
    THEN UNCHANGED translator
    ELSE /\ forwards' = Insert(forwards, a, Forward(a))
         /\ backwards' = Insert(backwards, Forward(a), a)

TranslateBack(r) ==
    IF r \in DOMAIN backwards
    THEN UNCHANGED translator
    ELSE /\ forwards' = Insert(forwards, Back(r), r)
         /\ backwards' = Insert(backwards, r, Back(r))

-----------------------------------------------------------------------------
(* registerStub, for a connection id or a context                          *)

At(t, label) == pc[t] = label
Goto(t, label) == pc' = [pc EXCEPT ![t] = label]
Return(t) == Goto(t, "idle") /\ my' = Erase(my, t)

(* Bound: CallBound calls in all. *)
Begin(t, op) == /\ op \in Ops /\ At(t, "idle")
                /\ calls < CallBound /\ calls' = calls + 1

(* The create function is found and the address translated; without a create
   function the call returns false and nothing has changed.                *)
RegisterStub(t, k, a) ==
    /\ Begin(t, "register")
    /\ InterfaceOf[a] \in Known
    /\ TranslateForward(a)
    /\ my' = Assign(my, t, [key |-> k, address |-> a, realm |-> Forward(a),
                            connection |-> 0])
    /\ Goto(t, "getConnection")
    /\ UNCHANGED <<initialising, registry, iterators>>

(* getConnection: find, or make a connection that is entered afterwards. *)
GetConnection(t) ==
    /\ At(t, "getConnection")
    /\ IF my[t].key \in DOMAIN connections
       THEN /\ my' = [my EXCEPT ![t].connection = connections[my[t].key]]
            /\ Goto(t, "create")
            /\ UNCHANGED conns
       ELSE /\ conns' = Append(conns, "new")
            /\ my' = [my EXCEPT ![t].connection = Len(conns) + 1]
            /\ Goto(t, "insert")
    /\ UNCHANGED <<initialising, translator, connections, services, provided, iterators,
                   calls>>

(* Mutant: the later of two connections replaces the earlier. *)
MutEntered(t) == Assign(connections, my[t].key, my[t].connection)

Entered(t) == Insert(connections, my[t].key, my[t].connection)

(* Mutant: there is no connection to return when insert() found one. *)
MutInsertConnection(t) ==
    /\ At(t, "insert")
    /\ connections' = Entered(t)
    /\ my' = [my EXCEPT ![t].connection = IF my[t].key \in DOMAIN connections
                                          THEN 0 ELSE @]
    /\ Goto(t, "connect")
    /\ UNCHANGED <<initialising, translator, conns, services, provided, iterators, calls>>

(* The connection is entered before it is started: another thread may find it
   now.  It is kept by this one also when another has entered one for the key
   meanwhile.                                                              *)
InsertConnection(t) ==
    /\ At(t, "insert")
    /\ connections' = Entered(t)
    /\ Goto(t, "connect")
    /\ UNCHANGED <<initialising, translator, conns, services, provided, my, iterators,
                   calls>>

(* Mutant: no connection is started with a thread. *)
MutConnected(k) == {"unserved"}

(* connect(true) starts a thread that runs io_, or fails to, which nobody looks
   at; connect(false) starts none.                                         *)
Connected(k) == IF k \in Ids THEN {"connecting", "failed"} ELSE {"unserved"}

(* connect(), for a context followed by attachMainLoopContext(). *)
Connect(t) ==
    /\ At(t, "connect")
    /\ \E s \in Connected(my[t].key) :
          conns' = [conns EXCEPT ![my[t].connection] = s]
    /\ Goto(t, "create")
    /\ UNCHANGED <<initialising, translator, connections, services, provided, my,
                   iterators, calls>>

(* The create function makes an adapter, whose init() translates back, or
   none, and registerStub returns false.                                   *)
CreateAdapter(t) ==
    /\ At(t, "create")
    /\ \/ Goto(t, "provide") /\ TranslateBack(my[t].realm) /\ UNCHANGED my
       \/ Return(t) /\ UNCHANGED translator
    /\ UNCHANGED <<initialising, registry, iterators, calls>>

(* Mutant: a refusal leaves the connection at work. *)
MutProvideRemoteMethods(t) ==
    LET c == my[t].connection
        r == my[t].realm
    IN  /\ At(t, "provide")
        /\ conns[c] = "connected"
        /\ \/ r \notin DOMAIN provided /\ provided' = Assign(provided, r, c)
           \/ UNCHANGED provided
        /\ Goto(t, "add")
        /\ UNCHANGED <<initialising, translator, conns, connections, services, my,
                       iterators, calls>>

(* provideRemoteMethods waits until the connection is joined and the router
   has answered.  It refuses a procedure that it knows, and may refuse any
   other; io_ is stopped then, and who waits on that connection waits on.  *)
ProvideRemoteMethods(t) ==
    LET c == my[t].connection
        r == my[t].realm
    IN  /\ At(t, "provide")
        /\ conns[c] = "connected"
        /\ \/ /\ r \notin DOMAIN provided
              /\ provided' = Assign(provided, r, c)
              /\ UNCHANGED conns
           \/ /\ conns' = [conns EXCEPT ![c] = "stopped"]
              /\ UNCHANGED provided
        /\ Goto(t, "add")
        /\ UNCHANGED <<initialising, translator, connections, services, my, iterators,
                       calls>>

(* Mutant: the later of two services replaces the earlier. *)
MutWithService(a, adapter) == Assign(services, a, adapter)

WithService(a, adapter) == Insert(services, a, adapter)

(* registerStubAdapter; the result of insert is not looked at. *)
RegisterStubAdapter(t) ==
    /\ At(t, "add")
    /\ TranslateBack(my[t].realm)
    /\ services' = WithService(Back(my[t].realm), my[t])
    /\ Return(t)
    /\ UNCHANGED <<initialising, conns, connections, provided, iterators, calls>>

(* releaseServiceName takes from the count of a name that was requested more
   than once.  requestServiceNameAndBlock only adds to a count that is there,
   so that none ever is.                                                   *)
ReleaseServiceName(adapter) == FALSE

UnregisterStubAdapter(adapter) == TranslateBack(adapter.realm)

(* unregisterStub copies the adapter; the service goes when its name was
   released.                                                               *)
UnregisterStub(t, a) ==
    /\ Begin(t, "unregister")
    /\ a \in DOMAIN services
    /\ IF ReleaseServiceName(services[a])
       THEN UnregisterStubAdapter(services[a]) /\ services' = Erase(services, a)
       ELSE UNCHANGED <<translator, services>>
    /\ UNCHANGED <<initialising, conns, connections, provided, pc, my, iterators>>

-----------------------------------------------------------------------------
(* Managed services: the adapter of a managing stub gives the WampAddress  *)
(* and its own connection.                                                 *)

CreateWampStubAdapter(t, r) ==
    /\ Begin(t, "managed")
    /\ Known # {}
    /\ \E a \in DOMAIN services :
          my' = Assign(my, t, [key |-> Managed, address |-> Back(r), realm |-> r,
                               connection |-> services[a].connection])
    /\ TranslateBack(r)
    /\ Goto(t, "manage")
    /\ UNCHANGED <<initialising, registry, iterators>>

RegisterManagedService(t) ==
    /\ At(t, "manage")
    /\ services' = WithService(my[t].address, my[t])
    /\ Return(t)
    /\ UNCHANGED <<initialising, translator, conns, connections, provided, iterators,
                   calls>>

(* unregisterManagedService: the element is found, and the adapter taken from
   it.                                                                     *)
UnregisterManagedService(t, a) ==
    /\ Begin(t, "unmanaged")
    /\ a \in DOMAIN services
    /\ found' = Assign(found, t, [address |-> a, adapter |-> services[a], valid |-> TRUE])
    /\ Goto(t, "unmanage")
    /\ UNCHANGED <<initialising, translator, registry, my, undefined>>

(* Other iterators to the same element lead nowhere from now on. *)
Invalidated(t) ==
    [u \in DOMAIN found \ {t} |->
       [found[u] EXCEPT !.valid = @ /\ found[u].address # found[t].address]]

(* The name is released, and the element erased through the iterator.  That is
   undefined when another thread has erased it.                            *)
EraseManagedService(t) ==
    /\ At(t, "unmanage")
    /\ IF found[t].valid
       THEN services' = Erase(services, found[t].address) /\ UNCHANGED undefined
       ELSE undefined' = TRUE /\ UNCHANGED services
    /\ found' = Invalidated(t)
    /\ Goto(t, "idle")
    /\ UNCHANGED <<initialising, translator, conns, connections, provided, my, calls>>

-----------------------------------------------------------------------------
(* The handshake of a connection whose io_ is run: it succeeds; or a connect or
   start is refused and io_ stops with connected_ unset; or the join is, and
   io_ stops with connected_ set.                                          *)
HandshakeEnds(c) ==
    /\ conns[c] = "connecting"
    /\ \E s \in {"connected", "failed", "stopped"} : conns' = [conns EXCEPT ![c] = s]
    /\ UNCHANGED <<initialising, translator, connections, services, provided, threads>>

(* The transport of a connection is lost, and io_.run() returns. *)
LoseTransport(c) ==
    /\ conns[c] = "connected"
    /\ conns' = [conns EXCEPT ![c] = "stopped"]
    /\ UNCHANGED <<initialising, translator, connections, services, provided, threads>>

Step(t) == \/ GetConnection(t) \/ InsertConnection(t) \/ Connect(t)
           \/ CreateAdapter(t) \/ ProvideRemoteMethods(t) \/ RegisterStubAdapter(t)
           \/ RegisterManagedService(t) \/ EraseManagedService(t)

Next ==
    /\ ~undefined
    /\ \/ \E i \in Interfaces : RegisterInterface(i)
       \/ InitLock \/ InitNext \/ InitUnlock
       \/ \E t \in Threads :
             \/ \E k \in Keys, a \in Addresses : RegisterStub(t, k, a)
             \/ \E r \in Realms : CreateWampStubAdapter(t, r)
             \/ \E a \in Addresses :
                   UnregisterStub(t, a) \/ UnregisterManagedService(t, a)
             \/ Step(t)
       \/ \E c \in DOMAIN conns : HandshakeEnds(c) \/ LoseTransport(c)

Spec == Init /\ [][Next]_vars

(* Threads run on in a call, and a handshake comes to an end, well or badly. *)
FairSpec ==
    /\ Spec
    /\ \A t \in Threads : WF_vars(~undefined /\ Step(t))
    /\ WF_vars(~undefined /\ \E c \in DOMAIN conns : HandshakeEnds(c))

-----------------------------------------------------------------------------
(* Properties                                                              *)

(* translate() there and back leads to the address one came from, for all
   addresses the translator has seen, also when realms were translated first
   that spell no address properly.                                         *)
RoundTrip ==
    \A a \in DOMAIN forwards :
       forwards[a] \in DOMAIN backwards /\ backwards[forwards[a]] = a

(* A service is in services_ under the address it was registered for, although
   registerStubAdapter does not use that address but translates the realm
   back: unregisterStub and getRegisteredService look where it is.         *)
ServiceUnderItsAddress ==
    \A a \in DOMAIN services : services[a].address = a

(* What makes the two above inductive: the translator remembers for a realm
   what CommonAPI reads from it, and that is also the address that the call
   of a thread is for.                                                     *)
AddressInv ==
    /\ TypeOK
    /\ \A r \in DOMAIN backwards : backwards[r] = AddressOf[r]
    /\ RoundTrip
    /\ \A t \in DOMAIN my : my[t].address = AddressOf[my[t].realm]
    /\ ServiceUnderItsAddress

(* Two threads may both make a connection for one id; the one that is not
   entered is then used by no more than the stub it was made for.          *)
Shared == {connections[k] : k \in DOMAIN connections}
Uses(x, c) == x.key # Managed /\ x.connection = c
OrphanHasOneUser ==
    \A c \in DOMAIN conns \ Shared :
       /\ \A a, b \in DOMAIN services :
             Uses(services[a], c) /\ Uses(services[b], c) => a = b
       /\ \A t, u \in DOMAIN my : Uses(my[t], c) /\ Uses(my[u], c) => t = u
       /\ \A a \in DOMAIN services, t \in DOMAIN my :
             ~(Uses(services[a], c) /\ Uses(my[t], c))

(* registerStub returns true also when the router refused the procedure.  A
   service that is listed is nevertheless one that the router calls on the
   connection of its adapter, or that connection has been stopped: it is never
   passed over in silence while the rest of its connection goes on.        *)
Served(adapter) ==
    \/ /\ adapter.realm \in DOMAIN provided
       /\ provided[adapter.realm] = adapter.connection
    \/ conns[adapter.connection] = "stopped"
ListedIsServed ==
    \A a \in DOMAIN services : services[a].key # Managed => Served(services[a])

(* An initialiser runs exactly once: not twice, and not never because it was
   registered while init() was on its way.                                 *)
InitialisedOnce ==
    \A i \in Interfaces : /\ ran[i] =< 1
                          /\ isInitialized /\ i \in loaded => ran[i] = 1

(* A service that is registered is never replaced by another one; it can only
   be taken away, and then by a call to unregisterManagedService that has found
   this very service before, whoever registered and erased in between.     *)
Found(t, a) == At(t, "unmanage") /\ found[t].address = a
ServiceKept ==
    [][\A a \in DOMAIN services :
          IF a \in DOMAIN services'
          THEN services'[a] = services[a]
          ELSE \E t \in Threads : Found(t, a) /\ found[t].adapter = services[a]]_vars

(* A connection that the factory has entered for an id or a context is never
   replaced, and one that has stopped stays so: after one refusal no stub is
   registered on that id any more, and a context gets the connection that was
   once made for its address.                                              *)
CachedForGood ==
    [][\A k \in DOMAIN connections :
          /\ k \in DOMAIN connections' /\ connections'[k] = connections[k]
          /\ conns[connections[k]] = "stopped" => conns'[connections[k]] = "stopped"]_vars

Waits(t) == /\ pc[t] = "provide"
            /\ my[t].key \in Ids

(* A stub for an id waits on a connection that was started with a thread,
   whichever call made it, or that the call which has entered it is about to
   start: between insert() and connect() another thread may find it.  A stub
   for a context is never listed, since nothing runs the io_ of its connection;
   and what is listed, a managed service too, has a connection that was joined. *)
Starting(c) == \E u \in Threads : At(u, "connect") /\ my[u].connection = c
OnlyServedConnections ==
    /\ \A t \in Threads : Waits(t) =>
          \/ conns[my[t].connection] \in {"connecting", "connected", "failed", "stopped"}
          \/ conns[my[t].connection] = "new" /\ Starting(my[t].connection)
    /\ \A a \in DOMAIN services :
          /\ services[a].key \notin Contexts
          /\ conns[services[a].connection] \in {"connected", "stopped"}

(* registerStub gets past provideRemoteMethods on a connection for an id, also
   when it found one that another call had still to start, unless the handshake
   of that connection fails or its io_ stops: then it waits for ever.      *)
Lost(t) == pc[t] = "provide" /\ conns[my[t].connection] \in {"failed", "stopped"}
RegistrationGoesOn ==
    \A t \in Threads : Waits(t) ~> (pc[t] # "provide" \/ Lost(t) \/ undefined)
=============================================================================
