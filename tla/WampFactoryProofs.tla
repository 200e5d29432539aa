-------------------------- MODULE WampFactoryProofs --------------------------
(***************************************************************************)
(* Theorems about WampFactory: the types, the round trip of the translator *)
(* and the address a service is found under; which services are served,    *)
(* what becomes of connections and who uses them.  For any threads,        *)
(* addresses, realms and number of calls.                                  *)
(***************************************************************************)
EXTENDS WampFactory, TLAPS

-----------------------------------------------------------------------------
(* The translator                                                          *)

Maps == /\ DOMAIN forwards \subseteq Addresses
        /\ \A a \in DOMAIN forwards : forwards[a] \in Realms
        /\ DOMAIN backwards \subseteq Realms
        /\ \A r \in DOMAIN backwards : backwards[r] = AddressOf[r]
        /\ RoundTrip

(* A realm given for an address is read back as that address. *)
LEMMA ForwardIsReadBack ==
    ASSUME Maps, NEW a \in Addresses
    PROVE  Forward(a) \in Realms /\ AddressOf[Forward(a)] = a
BY SpellingIsReadBack DEF Maps, RoundTrip, Forward, SetRealm

(* A realm is translated to what CommonAPI reads from it. *)
LEMMA BackIsReading ==
    ASSUME Maps, NEW r \in Realms
    PROVE  Back(r) = AddressOf[r] /\ Back(r) \in Addresses
BY SpellingIsReadBack DEF Maps, Back

(* Both translations keep the maps in order. *)
LEMMA ForwardKeepsMaps ==
    ASSUME Maps, NEW a \in Addresses, TranslateForward(a)
    PROVE  Maps'
<1>1. CASE a \in DOMAIN forwards
  BY <1>1 DEF TranslateForward, translator, Maps, RoundTrip
<1>2. CASE a \notin DOMAIN forwards
  <2> DEFINE r == Forward(a)
  <2>1. /\ forwards' = Insert(forwards, a, r)
        /\ backwards' = Insert(backwards, r, a)
    BY <1>2 DEF TranslateForward
  <2>2. r \in Realms /\ AddressOf[r] = a
    BY ForwardIsReadBack
  <2> HIDE DEF r
  <2>3. /\ DOMAIN forwards' = DOMAIN forwards \cup {a}
        /\ forwards'[a] = r
        /\ \A b \in DOMAIN forwards : forwards'[b] = forwards[b]
    BY <1>2, <2>1 DEF Insert
  <2>4. /\ DOMAIN backwards' = DOMAIN backwards \cup {r}
        /\ \A q \in DOMAIN backwards : backwards'[q] = backwards[q]
        /\ r \notin DOMAIN backwards => backwards'[r] = a
    BY <2>1 DEF Insert
  <2>5. \A q \in DOMAIN backwards' : backwards'[q] = AddressOf[q]
    BY <2>2, <2>4 DEF Maps
  <2>6. RoundTrip'
    BY <2>2, <2>3, <2>4, <2>5 DEF Maps, RoundTrip
  <2> QED BY <2>2, <2>3, <2>4, <2>5, <2>6 DEF Maps
<1> QED BY <1>1, <1>2

(* So does the translation of a realm to an address. *)
LEMMA BackKeepsMaps ==
    ASSUME Maps, NEW r \in Realms, TranslateBack(r)
    PROVE  Maps'
<1>1. CASE r \in DOMAIN backwards
  BY <1>1 DEF TranslateBack, translator, Maps, RoundTrip
<1>2. CASE r \notin DOMAIN backwards
  <2> DEFINE a == Back(r)
  <2>1. /\ forwards' = Insert(forwards, a, r)
        /\ backwards' = Insert(backwards, r, a)
    BY <1>2 DEF TranslateBack
  <2>2. a \in Addresses /\ a = AddressOf[r]
    BY BackIsReading
  <2> HIDE DEF a
  <2>3. /\ DOMAIN forwards' = DOMAIN forwards \cup {a}
        /\ \A b \in DOMAIN forwards : forwards'[b] = forwards[b]
        /\ a \notin DOMAIN forwards => forwards'[a] = r
    BY <2>1 DEF Insert
  <2>4. /\ DOMAIN backwards' = DOMAIN backwards \cup {r}
        /\ \A q \in DOMAIN backwards : backwards'[q] = backwards[q]
        /\ backwards'[r] = a
    BY <1>2, <2>1 DEF Insert
  <2>5. \A q \in DOMAIN backwards' : backwards'[q] = AddressOf[q]
    BY <2>2, <2>4 DEF Maps
  <2>6. RoundTrip'
    BY <2>2, <2>3, <2>4, <2>5 DEF Maps, RoundTrip
  <2> QED BY <2>2, <2>3, <2>4, <2>5, <2>6 DEF Maps
<1> QED BY <1>1, <1>2

-----------------------------------------------------------------------------
(* Types                                                                   *)

(* What TypeOK says of the factory's maps and of the threads. *)
RegistryOK ==
    /\ conns \in Seq(ConnStates)
    /\ DOMAIN connections \subseteq Keys
    /\ \A k \in DOMAIN connections : connections[k] \in DOMAIN conns
    /\ DOMAIN services \subseteq Addresses
    /\ \A a \in DOMAIN services : services[a].connection \in DOMAIN conns
    /\ DOMAIN provided \subseteq Realms

HasConnection == {"insert", "connect", "create", "provide", "add", "manage"}
Unheld == {"idle", "unmanage"}

ThreadsOK ==
    /\ pc \in [Threads -> PCs]
    /\ calls \in 0..CallBound
    /\ DOMAIN my = {t \in Threads : pc[t] \notin Unheld}
    /\ \A t \in DOMAIN my : /\ my[t] \in Locals
                            /\ my[t].key = Managed <=> pc[t] = "manage"
                            /\ pc[t] \in HasConnection => my[t].connection \in DOMAIN conns
    /\ DOMAIN found = {t \in Threads : pc[t] = "unmanage"}
    /\ \A t \in DOMAIN found : found[t].valid \in BOOLEAN
    /\ undefined \in BOOLEAN

InitialisersOK ==
    /\ loaded \subseteq Interfaces
    /\ initializers \in Seq(Interfaces) /\ left \in Seq(Interfaces)
    /\ isInitialized \in BOOLEAN
    /\ initializerMutex \in BOOLEAN
    /\ ran \in [Interfaces -> Nat]

(* A call keeps its address and its realm in agreement. *)
LocalsMeant == \A t \in DOMAIN my : my[t].address = AddressOf[my[t].realm]

(* AddressInv is these parts together. *)
LEMMA Parts ==
    AddressInv <=> /\ InitialisersOK /\ Maps /\ RegistryOK /\ ThreadsOK
                   /\ LocalsMeant /\ ServiceUnderItsAddress
<1>1. Maps => \A r \in DOMAIN backwards : backwards[r] \in Addresses
  BY SpellingIsReadBack DEF Maps
<1>2. pc \in [Threads -> PCs] =>
         \A t \in Threads : pc[t] \notin Unheld =>
            (pc[t] \in HasConnection <=> pc[t] # "getConnection")
  BY DEF PCs, HasConnection, Unheld
<1> QED BY <1>1, <1>2
        DEF AddressInv, TypeOK, InitialisersOK, Maps, RegistryOK, ThreadsOK,
            LocalsMeant, Unheld

(* A call begins: a thread that was idle gets its locals. *)
LEMMA Begins ==
    ASSUME ThreadsOK, LocalsMeant, NEW t \in Threads, NEW op, Begin(t, op),
           NEW x \in Locals, my' = Assign(my, t, x),
           x.address = AddressOf[x.realm],
           NEW label \in PCs \ Unheld, Goto(t, label), UNCHANGED iterators,
           x.key = Managed <=> label = "manage",
           label \in HasConnection => x.connection \in DOMAIN conns,
           conns' = conns
    PROVE  ThreadsOK' /\ LocalsMeant'
<1>1. /\ pc' = [pc EXCEPT ![t] = label] /\ pc' \in [Threads -> PCs]
      /\ calls' \in 0..CallBound
      /\ pc[t] = "idle"
  BY CallBoundNat DEF ThreadsOK, Begin, Goto, At
<1>2. /\ DOMAIN my' = DOMAIN my \cup {t} /\ my'[t] = x
      /\ \A u \in DOMAIN my \ {t} : my'[u] = my[u]
  BY DEF Assign
<1>3. DOMAIN my' = {u \in Threads : pc'[u] \notin Unheld}
  BY <1>1, <1>2 DEF ThreadsOK, Unheld
<1>4. \A u \in DOMAIN my' : /\ my'[u] \in Locals
                            /\ my'[u].key = Managed <=> pc'[u] = "manage"
                            /\ pc'[u] \in HasConnection =>
                                  my'[u].connection \in DOMAIN conns'
  BY <1>1, <1>2 DEF ThreadsOK, Unheld
<1>5. LocalsMeant'
  BY <1>2 DEF LocalsMeant
<1>6. DOMAIN found' = {u \in Threads : pc'[u] = "unmanage"}
      /\ UNCHANGED <<found, undefined>>
  BY <1>1 DEF ThreadsOK, Unheld, iterators
<1> QED BY <1>1, <1>3, <1>4, <1>5, <1>6 DEF ThreadsOK

(* A call goes on; it may come to know its connection. *)
LEMMA Moves ==
    ASSUME ThreadsOK, LocalsMeant, NEW t \in DOMAIN my, pc[t] # "manage",
           NEW label \in PCs \ {"idle", "manage", "unmanage"}, Goto(t, label),
           UNCHANGED iterators,
           DOMAIN conns \subseteq DOMAIN conns',
           NEW c \in Nat, my' = [my EXCEPT ![t].connection = c] \/ my' = my,
           my'[t].connection \in DOMAIN conns',
           calls' = calls
    PROVE  ThreadsOK' /\ LocalsMeant'
<1>1. /\ pc' = [pc EXCEPT ![t] = label] /\ pc' \in [Threads -> PCs]
      /\ t \in Threads /\ pc[t] \notin Unheld /\ label \notin Unheld
  BY DEF ThreadsOK, Goto, Unheld
<1>2. /\ DOMAIN my' = DOMAIN my
      /\ \A u \in DOMAIN my \ {t} : my'[u] = my[u]
  OBVIOUS
<1>3. my'[t] \in Locals /\ my'[t].address = my[t].address /\ my'[t].realm = my[t].realm
      /\ my'[t].key = my[t].key
  BY DEF ThreadsOK, Locals
<1>4. DOMAIN my' = {u \in Threads : pc'[u] \notin Unheld}
  BY <1>1, <1>2 DEF ThreadsOK
<1>5. \A u \in DOMAIN my' : /\ my'[u] \in Locals
                            /\ my'[u].key = Managed <=> pc'[u] = "manage"
                            /\ pc'[u] \in HasConnection =>
                                  my'[u].connection \in DOMAIN conns'
  BY <1>1, <1>2, <1>3 DEF ThreadsOK
<1>6. LocalsMeant'
  BY <1>2, <1>3 DEF LocalsMeant
<1>7. DOMAIN found' = {u \in Threads : pc'[u] = "unmanage"}
      /\ UNCHANGED <<found, undefined>>
  BY <1>1 DEF ThreadsOK, Unheld, iterators
<1> QED BY <1>1, <1>4, <1>5, <1>6, <1>7 DEF ThreadsOK

(* A call returns. *)
LEMMA Returns ==
    ASSUME ThreadsOK, LocalsMeant, NEW t \in DOMAIN my, Return(t),
           conns' = conns, calls' = calls, UNCHANGED iterators
    PROVE  ThreadsOK' /\ LocalsMeant'
<1>1. /\ pc' = [pc EXCEPT ![t] = "idle"] /\ pc' \in [Threads -> PCs]
      /\ t \in Threads /\ pc[t] \notin Unheld
  BY DEF ThreadsOK, Return, Goto, PCs
<1>2. /\ DOMAIN my' = DOMAIN my \ {t}
      /\ \A u \in DOMAIN my \ {t} : my'[u] = my[u]
  BY DEF Return, Erase
<1>3. DOMAIN my' = {u \in Threads : pc'[u] \notin Unheld}
  BY <1>1, <1>2 DEF ThreadsOK, Unheld
<1>4. \A u \in DOMAIN my' : /\ my'[u] \in Locals
                            /\ my'[u].key = Managed <=> pc'[u] = "manage"
                            /\ pc'[u] \in HasConnection =>
                                  my'[u].connection \in DOMAIN conns'
  BY <1>1, <1>2 DEF ThreadsOK
<1>5. LocalsMeant'
  BY <1>2 DEF LocalsMeant
<1>6. DOMAIN found' = {u \in Threads : pc'[u] = "unmanage"}
      /\ UNCHANGED <<found, undefined>>
  BY <1>1 DEF ThreadsOK, Unheld, iterators
<1> QED BY <1>1, <1>3, <1>4, <1>5, <1>6 DEF ThreadsOK

(* A service is entered under the address of its call. *)
LEMMA Serves ==
    ASSUME RegistryOK, ThreadsOK, ServiceUnderItsAddress,
           NEW t \in DOMAIN my, pc[t] \in HasConnection,
           services' = WithService(my[t].address, my[t]),
           UNCHANGED <<conns, connections, provided>>
    PROVE  RegistryOK' /\ ServiceUnderItsAddress'
<1>1. my[t] \in Locals /\ my[t].connection \in DOMAIN conns
      /\ my[t].address \in Addresses
  BY DEF ThreadsOK, Locals
<1>2. /\ DOMAIN services' = DOMAIN services \cup {my[t].address}
      /\ \A a \in DOMAIN services : services'[a] = services[a]
      /\ my[t].address \notin DOMAIN services => services'[my[t].address] = my[t]
  BY DEF WithService, Insert
<1> QED BY <1>1, <1>2 DEF RegistryOK, ServiceUnderItsAddress

-----------------------------------------------------------------------------
(* The inductive invariant                                                 *)

Inv == /\ InitialisersOK /\ Maps /\ RegistryOK /\ ThreadsOK
       /\ LocalsMeant /\ ServiceUnderItsAddress

(* A factory that was just made satisfies it. *)
LEMMA InvInit == Init => Inv
<1> SUFFICES ASSUME Init PROVE Inv
  OBVIOUS
<1> USE DEF Init, Empty
<1>1. InitialisersOK
  <2>1. isInitialized \in BOOLEAN /\ initializerMutex \in BOOLEAN
    BY Zenon
  <2>2. ran \in [Interfaces -> Nat]
    BY SMT
  <2> QED BY <2>1, <2>2 DEF InitialisersOK
<1>2. Maps
  BY DEF Maps, RoundTrip
<1>3. RegistryOK
  BY DEF RegistryOK
<1>4. ThreadsOK
  <2>1. undefined \in BOOLEAN
    BY Zenon
  <2>2. DOMAIN found = {} /\ DOMAIN my = {} /\ \A t \in Threads : pc[t] = "idle"
    OBVIOUS
  <2>3. pc \in [Threads -> PCs] /\ calls \in 0..CallBound
    BY CallBoundNat DEF PCs
  <2> QED BY <2>1, <2>2, <2>3 DEF ThreadsOK, Unheld
<1>5. LocalsMeant /\ ServiceUnderItsAddress
  BY DEF LocalsMeant, ServiceUnderItsAddress
<1> QED BY <1>1, <1>2, <1>3, <1>4, <1>5 DEF Inv

(* Each part is kept by a step that leaves its variables alone. *)
LEMMA KeepInitialisers ==
    ASSUME InitialisersOK, UNCHANGED initialising PROVE InitialisersOK'
BY DEF InitialisersOK, initialising

(* The maps of the translator stay as they are. *)
LEMMA KeepMaps ==
    ASSUME Maps, UNCHANGED translator PROVE Maps'
BY DEF Maps, RoundTrip, translator

(* So do connections and services, *)
LEMMA KeepRegistry ==
    ASSUME RegistryOK, ServiceUnderItsAddress, UNCHANGED registry
    PROVE  RegistryOK' /\ ServiceUnderItsAddress'
BY DEF RegistryOK, ServiceUnderItsAddress, registry

(* and the calls, when no connection goes away. *)
LEMMA KeepThreads ==
    ASSUME ThreadsOK, LocalsMeant, UNCHANGED threads, DOMAIN conns' = DOMAIN conns
    PROVE  ThreadsOK' /\ LocalsMeant'
BY DEF ThreadsOK, LocalsMeant, threads, iterators

(* A thread in a call has locals. *)
LEMMA InCall ==
    ASSUME ThreadsOK, NEW t \in Threads, NEW label \in PCs \ Unheld, At(t, label)
    PROVE  /\ t \in DOMAIN my /\ my[t] \in Locals /\ pc[t] = label
           /\ label \in HasConnection => my[t].connection \in DOMAIN conns
BY DEF ThreadsOK, At

(* Registering and running initialisers touches nothing else. *)
LEMMA InitialiserSteps ==
    ASSUME Inv, (\E i \in Interfaces : RegisterInterface(i))
                \/ InitLock \/ InitNext \/ InitUnlock
    PROVE  Inv'
<1>1. UNCHANGED <<translator, registry, threads>>
  BY DEF RegisterInterface, InitLock, InitNext, InitUnlock
<1>2. UNCHANGED translator /\ UNCHANGED registry /\ UNCHANGED threads /\ conns' = conns
  BY <1>1 DEF registry
<1>3. InitialisersOK'
  <2>1. CASE \E i \in Interfaces : RegisterInterface(i)
    <3>1. PICK i \in Interfaces : RegisterInterface(i)
      BY <2>1
    <3>2. /\ loaded \subseteq Interfaces /\ initializers \in Seq(Interfaces)
          /\ left \in Seq(Interfaces) /\ ran \in [Interfaces -> Nat]
      BY DEF Inv, InitialisersOK
    <3>3. \/ ran' = [ran EXCEPT ![i] = @ + 1] /\ initializers' = initializers
          \/ initializers' = Append(initializers, i) /\ ran' = ran
      BY <3>1 DEF RegisterInterface
    <3>4. initializers' \in Seq(Interfaces) /\ ran' \in [Interfaces -> Nat]
      <4>1. CASE ran' = [ran EXCEPT ![i] = @ + 1] /\ initializers' = initializers
        BY <3>2, <4>1
      <4>2. CASE initializers' = Append(initializers, i) /\ ran' = ran
        BY <3>2, <4>2
      <4> QED BY <3>3, <4>1, <4>2
    <3>5. loaded' \subseteq Interfaces
      BY <3>1, <3>2 DEF RegisterInterface
    <3>6. UNCHANGED <<left, isInitialized, initializerMutex>>
      BY <3>1 DEF RegisterInterface
    <3> QED BY <3>4, <3>5, <3>6 DEF Inv, InitialisersOK
  <2>2. CASE InitLock
    BY <2>2 DEF Inv, InitialisersOK, InitLock
  <2>3. CASE InitNext
    <3>1. left \in Seq(Interfaces) /\ left # <<>>
          /\ ran \in [Interfaces -> Nat]
      BY <2>3 DEF Inv, InitialisersOK, InitNext
    <3>2. Head(left) \in Interfaces /\ Tail(left) \in Seq(Interfaces)
      BY <3>1
    <3>3. ran' \in [Interfaces -> Nat] /\ left' \in Seq(Interfaces)
      BY <2>3, <3>1, <3>2 DEF InitNext
    <3> QED BY <2>3, <3>3 DEF Inv, InitialisersOK, InitNext
  <2>4. CASE InitUnlock
    BY <2>4 DEF Inv, InitialisersOK, InitUnlock
  <2> QED BY <2>1, <2>2, <2>3, <2>4
<1> QED BY <1>2, <1>3, KeepMaps, KeepRegistry, KeepThreads DEF Inv

(* The translator is asked for a realm, and a call begins. *)
LEMMA RegisterStubStep ==
    ASSUME Inv, NEW t \in Threads, NEW k \in Keys, NEW a \in Addresses,
           RegisterStub(t, k, a)
    PROVE  Inv'
<1> DEFINE x == [key |-> k, address |-> a, realm |-> Forward(a), connection |-> 0]
<1>1. Forward(a) \in Realms /\ AddressOf[Forward(a)] = a
  BY ForwardIsReadBack DEF Inv
<1>2. x \in Locals /\ x.address = AddressOf[x.realm] /\ x.key # Managed
  BY <1>1, KeysDistinct DEF Locals, Keys
<1>3. /\ Begin(t, "register") /\ TranslateForward(a) /\ my' = Assign(my, t, x)
      /\ Goto(t, "getConnection") /\ UNCHANGED initialising /\ UNCHANGED registry
      /\ conns' = conns /\ UNCHANGED iterators
  BY DEF RegisterStub, registry
<1> HIDE DEF x
<1>4. "getConnection" \in PCs \ Unheld /\ "getConnection" \notin HasConnection
  BY DEF PCs, HasConnection, Unheld
<1>5. ThreadsOK' /\ LocalsMeant'
  BY <1>2, <1>3, <1>4, Begins DEF Inv
<1>6. Maps'
  BY <1>3, ForwardKeepsMaps DEF Inv
<1> QED BY <1>3, <1>5, <1>6, KeepInitialisers, KeepRegistry DEF Inv

(* A connection is found, or made. *)
LEMMA GetConnectionStep ==
    ASSUME Inv, NEW t \in Threads, GetConnection(t)
    PROVE  Inv'
<1>1. /\ "getConnection" \in PCs \ Unheld
      /\ {"create", "insert"} \subseteq PCs \ {"idle", "manage", "unmanage"}
  BY DEF PCs, Unheld
<1>2. t \in DOMAIN my /\ my[t] \in Locals /\ pc[t] # "manage"
  BY <1>1, InCall DEF Inv, GetConnection
<1>3. UNCHANGED initialising /\ UNCHANGED translator
      /\ calls' = calls /\ UNCHANGED iterators
      /\ UNCHANGED <<connections, services, provided>>
  BY DEF GetConnection
<1>4. CASE my[t].key \in DOMAIN connections
  <2> DEFINE c == connections[my[t].key]
  <2>1. my' = [my EXCEPT ![t].connection = c] /\ Goto(t, "create") /\ conns' = conns
    BY <1>4 DEF GetConnection
  <2>2. c \in DOMAIN conns /\ c \in Nat
    BY <1>4 DEF Inv, RegistryOK
  <2> HIDE DEF c
  <2>3. my'[t].connection \in DOMAIN conns'
    BY <1>2, <2>1, <2>2 DEF Locals
  <2>4. ThreadsOK' /\ LocalsMeant'
    BY <1>1, <1>2, <1>3, <2>1, <2>2, <2>3, Moves DEF Inv
  <2>5. UNCHANGED registry
    BY <1>3, <2>1 DEF registry
  <2> QED BY <1>3, <2>4, <2>5, KeepInitialisers, KeepMaps, KeepRegistry DEF Inv
<1>5. CASE my[t].key \notin DOMAIN connections
  <2> DEFINE c == Len(conns) + 1
  <2>1. my' = [my EXCEPT ![t].connection = c] /\ Goto(t, "insert")
        /\ conns' = Append(conns, "new")
    BY <1>5 DEF GetConnection
  <2>2. conns' \in Seq(ConnStates) /\ c \in DOMAIN conns' /\ c \in Nat
        /\ DOMAIN conns \subseteq DOMAIN conns'
    BY <2>1 DEF Inv, RegistryOK, ConnStates
  <2> HIDE DEF c
  <2>3. my'[t].connection \in DOMAIN conns'
    BY <1>2, <2>1, <2>2 DEF Locals
  <2>4. ThreadsOK' /\ LocalsMeant'
    BY <1>1, <1>2, <1>3, <2>1, <2>2, <2>3, Moves DEF Inv
  <2>5. RegistryOK' /\ ServiceUnderItsAddress'
    BY <1>3, <2>2 DEF Inv, RegistryOK, ServiceUnderItsAddress
  <2> QED BY <1>3, <2>4, <2>5, KeepInitialisers, KeepMaps DEF Inv
<1> QED BY <1>4, <1>5

(* The state of a connection changes, and nothing else of the registry but
   perhaps the connections that are entered or the procedures provided.    *)
LEMMA ConnStateChanges ==
    ASSUME RegistryOK, NEW c \in DOMAIN conns, NEW s \in ConnStates,
           conns' = [conns EXCEPT ![c] = s]
    PROVE  conns' \in Seq(ConnStates) /\ DOMAIN conns' = DOMAIN conns
BY DEF RegistryOK

(* The connection is entered for the key of the call. *)
LEMMA InsertConnectionStep ==
    ASSUME Inv, NEW t \in Threads, InsertConnection(t)
    PROVE  Inv'
<1> DEFINE c == my[t].connection
<1>1. {"insert", "connect"} \subseteq PCs \ {"idle", "manage", "unmanage"}
      /\ "insert" \in HasConnection
  BY DEF PCs, HasConnection, Unheld
<1>2. t \in DOMAIN my /\ my[t] \in Locals /\ c \in DOMAIN conns /\ c \in Nat
  <2>1. At(t, "insert") BY DEF InsertConnection
  <2>2. t \in DOMAIN my /\ my[t] \in Locals /\ c \in DOMAIN conns
    BY <1>1, <2>1, InCall DEF Inv, Unheld
  <2> QED BY <2>2 DEF Inv, RegistryOK
<1>3. pc[t] = "insert"
  BY DEF InsertConnection, At
<1>4. conns' = conns /\ my' = my
      /\ Goto(t, "connect") /\ calls' = calls
      /\ UNCHANGED iterators /\ UNCHANGED initialising /\ UNCHANGED translator
      /\ UNCHANGED <<services, provided>>
      /\ connections' = Insert(connections, my[t].key, c)
  BY DEF InsertConnection, Entered
<1>7. ThreadsOK' /\ LocalsMeant'
  BY <1>1, <1>2, <1>3, <1>4, Moves DEF Inv
<1>8. /\ DOMAIN connections' = DOMAIN connections \cup {my[t].key}
      /\ \A k \in DOMAIN connections : connections'[k] = connections[k]
      /\ my[t].key \notin DOMAIN connections => connections'[my[t].key] = c
  BY <1>4 DEF Insert
<1>9. my[t].key \in Keys
  BY <1>2, <1>3 DEF Inv, ThreadsOK, Locals
<1>10. RegistryOK' /\ ServiceUnderItsAddress'
  BY <1>2, <1>4, <1>8, <1>9 DEF Inv, RegistryOK, ServiceUnderItsAddress
<1> QED BY <1>4, <1>7, <1>10, KeepInitialisers, KeepMaps DEF Inv

(* The connection is started, with a thread or without. *)
LEMMA ConnectStep ==
    ASSUME Inv, NEW t \in Threads, Connect(t)
    PROVE  Inv'
<1> DEFINE c == my[t].connection
<1>1. {"connect", "create"} \subseteq PCs \ {"idle", "manage", "unmanage"}
      /\ "connect" \in HasConnection
  BY DEF PCs, HasConnection
<1>2. At(t, "connect") /\ pc[t] = "connect"
  BY DEF Connect, At
<1>3. t \in DOMAIN my /\ my[t] \in Locals /\ c \in DOMAIN conns
  BY <1>1, <1>2, InCall DEF Inv, Unheld
<1>4. c \in Nat
  BY <1>3 DEF Locals
<1>5. PICK s \in Connected(my[t].key) : conns' = [conns EXCEPT ![c] = s]
  BY DEF Connect
<1>6. /\ my' = my /\ Goto(t, "create") /\ calls' = calls /\ UNCHANGED iterators
      /\ UNCHANGED initialising /\ UNCHANGED translator
      /\ UNCHANGED <<connections, services, provided>>
  BY DEF Connect
<1>7. s \in ConnStates
  BY DEF Connected, ConnStates
<1>8. conns' \in Seq(ConnStates) /\ DOMAIN conns' = DOMAIN conns
  BY <1>3, <1>5, <1>7, ConnStateChanges DEF Inv
<1>9. ThreadsOK' /\ LocalsMeant'
  BY <1>1, <1>2, <1>3, <1>4, <1>6, <1>8, Moves DEF Inv
<1>10. RegistryOK' /\ ServiceUnderItsAddress'
  BY <1>6, <1>8 DEF Inv, RegistryOK, ServiceUnderItsAddress
<1> QED BY <1>6, <1>9, <1>10, KeepInitialisers, KeepMaps DEF Inv

(* The adapter is made, or not. *)
LEMMA CreateAdapterStep ==
    ASSUME Inv, NEW t \in Threads, CreateAdapter(t)
    PROVE  Inv'
<1>1. {"create", "provide"} \subseteq PCs \ {"idle", "manage", "unmanage"}
      /\ "create" \in HasConnection
  BY DEF PCs, HasConnection, Unheld
<1>2. At(t, "create")
  BY DEF CreateAdapter
<1>3. t \in DOMAIN my /\ my[t] \in Locals /\ my[t].connection \in DOMAIN conns
      /\ pc[t] # "manage"
  BY <1>1, <1>2, InCall DEF Inv, Unheld
<1>4. my[t].connection \in Nat /\ my[t].realm \in Realms
  BY <1>3 DEF Locals
<1>5. UNCHANGED initialising /\ UNCHANGED registry /\ conns' = conns
      /\ calls' = calls /\ UNCHANGED iterators
  BY DEF CreateAdapter, registry
<1>6. CASE Goto(t, "provide") /\ TranslateBack(my[t].realm) /\ my' = my
  <2>1. Maps'
    BY <1>4, <1>6, BackKeepsMaps DEF Inv
  <2>2. ThreadsOK' /\ LocalsMeant'
    BY <1>1, <1>3, <1>4, <1>5, <1>6, Moves DEF Inv
  <2> QED BY <1>5, <2>1, <2>2, KeepInitialisers, KeepRegistry DEF Inv
<1>7. CASE Return(t) /\ UNCHANGED translator
  <2>1. ThreadsOK' /\ LocalsMeant'
    BY <1>3, <1>5, <1>7, Returns DEF Inv
  <2> QED BY <1>5, <1>7, <2>1, KeepInitialisers, KeepMaps, KeepRegistry DEF Inv
<1> QED BY <1>6, <1>7 DEF CreateAdapter

(* A procedure is provided, or refused. *)
LEMMA ProvideRemoteMethodsStep ==
    ASSUME Inv, NEW t \in Threads, ProvideRemoteMethods(t)
    PROVE  Inv'
<1> DEFINE c == my[t].connection
<1>1. {"provide", "add"} \subseteq PCs \ {"idle", "manage", "unmanage"}
      /\ "provide" \in HasConnection
  BY DEF PCs, HasConnection, Unheld
<1>2. At(t, "provide")
  BY DEF ProvideRemoteMethods
<1>3. t \in DOMAIN my /\ my[t] \in Locals /\ c \in DOMAIN conns /\ pc[t] # "manage"
  BY <1>1, <1>2, InCall DEF Inv, Unheld
<1>4. c \in Nat /\ my[t].realm \in Realms
  BY <1>3 DEF Locals
<1>5. /\ UNCHANGED initialising /\ UNCHANGED translator
      /\ calls' = calls /\ UNCHANGED iterators
      /\ connections' = connections /\ services' = services /\ my' = my
      /\ Goto(t, "add")
      /\ conns' = conns \/ conns' = [conns EXCEPT ![c] = "stopped"]
      /\ provided' = provided \/ provided' = Assign(provided, my[t].realm, c)
  BY DEF ProvideRemoteMethods
<1>6. conns' \in Seq(ConnStates) /\ DOMAIN conns' = DOMAIN conns
  <2>1. "stopped" \in ConnStates
    BY DEF ConnStates
  <2>2. CASE conns' = conns
    BY <2>2 DEF Inv, RegistryOK
  <2>3. CASE conns' = [conns EXCEPT ![c] = "stopped"]
    BY <1>3, <2>1, <2>3, ConnStateChanges DEF Inv
  <2> QED BY <1>5, <2>2, <2>3
<1>7. ThreadsOK' /\ LocalsMeant'
  BY <1>1, <1>3, <1>4, <1>5, <1>6, Moves DEF Inv
<1>8. DOMAIN provided' \subseteq Realms
  BY <1>4, <1>5 DEF Inv, RegistryOK, Assign
<1>9. RegistryOK' /\ ServiceUnderItsAddress'
  BY <1>5, <1>6, <1>8 DEF Inv, RegistryOK, ServiceUnderItsAddress
<1> QED BY <1>5, <1>7, <1>9, KeepInitialisers, KeepMaps DEF Inv

(* The service is entered under what its realm is translated to. *)
LEMMA RegisterStubAdapterStep ==
    ASSUME Inv, NEW t \in Threads, RegisterStubAdapter(t)
    PROVE  Inv'
<1>1. "add" \in PCs \ Unheld /\ "add" \in HasConnection
  BY DEF PCs, HasConnection, Unheld
<1>2. At(t, "add")
  BY DEF RegisterStubAdapter
<1>3. t \in DOMAIN my /\ my[t] \in Locals /\ pc[t] = "add"
  BY <1>1, <1>2, InCall DEF Inv
<1>4. my[t].realm \in Realms /\ Back(my[t].realm) = my[t].address
  <2>1. my[t].realm \in Realms
    BY <1>3 DEF Locals
  <2>2. Back(my[t].realm) = AddressOf[my[t].realm]
    BY <2>1, BackIsReading DEF Inv
  <2> QED BY <1>3, <2>1, <2>2 DEF Inv, LocalsMeant
<1>5. /\ TranslateBack(my[t].realm) /\ Return(t)
      /\ services' = WithService(my[t].address, my[t])
      /\ UNCHANGED initialising /\ UNCHANGED <<conns, connections, provided>>
      /\ conns' = conns
      /\ calls' = calls /\ UNCHANGED iterators
  BY <1>4 DEF RegisterStubAdapter
<1>6. Maps'
  BY <1>4, <1>5, BackKeepsMaps DEF Inv
<1>7. ThreadsOK' /\ LocalsMeant'
  BY <1>3, <1>5, Returns DEF Inv
<1>8. RegistryOK' /\ ServiceUnderItsAddress'
  BY <1>1, <1>3, <1>5, Serves DEF Inv
<1> QED BY <1>5, <1>6, <1>7, <1>8, KeepInitialisers DEF Inv

(* A managed service gets its adapter. *)
LEMMA CreateWampStubAdapterStep ==
    ASSUME Inv, NEW t \in Threads, NEW r \in Realms, CreateWampStubAdapter(t, r)
    PROVE  Inv'
<1>1. "manage" \in PCs \ Unheld /\ "manage" \in HasConnection
  BY DEF PCs, HasConnection, Unheld
<1>2. PICK a \in DOMAIN services :
         my' = Assign(my, t, [key |-> Managed, address |-> Back(r), realm |-> r,
                              connection |-> services[a].connection])
  BY DEF CreateWampStubAdapter
<1> DEFINE x == [key |-> Managed, address |-> Back(r), realm |-> r,
                 connection |-> services[a].connection]
<1>3. services[a].connection \in DOMAIN conns /\ services[a].connection \in Nat
  BY DEF Inv, RegistryOK
<1>4. Back(r) = AddressOf[r] /\ Back(r) \in Addresses
  BY BackIsReading DEF Inv
<1>5. /\ x \in Locals /\ x.address = AddressOf[x.realm]
      /\ x.connection \in DOMAIN conns /\ x.key = Managed
  BY <1>3, <1>4 DEF Locals
<1>6. /\ Begin(t, "managed") /\ TranslateBack(r) /\ my' = Assign(my, t, x)
      /\ Goto(t, "manage") /\ UNCHANGED initialising /\ UNCHANGED registry
      /\ conns' = conns /\ UNCHANGED iterators
  BY <1>2 DEF CreateWampStubAdapter, registry
<1> HIDE DEF x
<1>7. ThreadsOK' /\ LocalsMeant'
  BY <1>1, <1>5, <1>6, Begins DEF Inv
<1>8. Maps'
  BY <1>6, BackKeepsMaps DEF Inv
<1> QED BY <1>6, <1>7, <1>8, KeepInitialisers, KeepRegistry DEF Inv

(* A managed service is entered under the address of its adapter. *)
LEMMA RegisterManagedServiceStep ==
    ASSUME Inv, NEW t \in Threads, RegisterManagedService(t)
    PROVE  Inv'
<1>1. "manage" \in PCs \ Unheld /\ "manage" \in HasConnection
  BY DEF PCs, HasConnection, Unheld
<1>2. At(t, "manage")
  BY DEF RegisterManagedService
<1>3. t \in DOMAIN my /\ my[t] \in Locals /\ pc[t] = "manage"
  BY <1>1, <1>2, InCall DEF Inv
<1>4. /\ Return(t) /\ services' = WithService(my[t].address, my[t])
      /\ UNCHANGED initialising /\ UNCHANGED translator
      /\ UNCHANGED <<conns, connections, provided>>
      /\ conns' = conns
      /\ calls' = calls /\ UNCHANGED iterators
  BY DEF RegisterManagedService
<1>5. ThreadsOK' /\ LocalsMeant'
  BY <1>3, <1>4, Returns DEF Inv
<1>6. RegistryOK' /\ ServiceUnderItsAddress'
  BY <1>1, <1>3, <1>4, Serves DEF Inv
<1> QED BY <1>4, <1>5, <1>6, KeepInitialisers, KeepMaps DEF Inv

(* A service is looked up to be taken away. *)
LEMMA UnregisterManagedServiceStep ==
    ASSUME Inv, NEW t \in Threads, NEW a \in Addresses, UnregisterManagedService(t, a)
    PROVE  Inv'
<1> DEFINE x == [address |-> a, adapter |-> services[a], valid |-> TRUE]
<1>1. /\ calls < CallBound /\ calls' = calls + 1 /\ pc[t] = "idle"
      /\ pc' = [pc EXCEPT ![t] = "unmanage"] /\ found' = Assign(found, t, x)
      /\ UNCHANGED initialising /\ UNCHANGED translator /\ UNCHANGED registry
      /\ UNCHANGED <<conns, my, undefined>>
  BY DEF UnregisterManagedService, Begin, At, Goto, registry
<1>2. calls' \in 0..CallBound
  BY <1>1, CallBoundNat DEF Inv, ThreadsOK
<1>3. x.valid = TRUE
  OBVIOUS
<1> HIDE DEF x
<1>4. pc' \in [Threads -> PCs] /\ pc \in [Threads -> PCs]
  BY <1>1 DEF Inv, ThreadsOK, PCs
<1>5. /\ DOMAIN found' = DOMAIN found \cup {t}
      /\ \A u \in DOMAIN found' : found'[u] = IF u = t THEN x ELSE found[u]
  BY <1>1 DEF Assign
<1>6. /\ DOMAIN found' = {u \in Threads : pc'[u] = "unmanage"}
      /\ \A u \in DOMAIN found' : found'[u].valid \in BOOLEAN
  BY <1>1, <1>3, <1>4, <1>5 DEF Inv, ThreadsOK
<1>7. ThreadsOK' /\ LocalsMeant'
  <2>1. DOMAIN my' = {u \in Threads : pc'[u] \notin Unheld}
    BY <1>1, <1>4 DEF Inv, ThreadsOK, Unheld
  <2>2. \A u \in DOMAIN my : pc'[u] = pc[u]
    BY <1>1, <1>4 DEF Inv, ThreadsOK, Unheld
  <2> QED BY <1>1, <1>2, <1>4, <1>6, <2>1, <2>2 DEF Inv, ThreadsOK, LocalsMeant
<1> QED BY <1>1, <1>7, KeepInitialisers, KeepMaps, KeepRegistry DEF Inv

(* It is taken away, or was before; the others stay under their addresses. *)
LEMMA EraseManagedServiceStep ==
    ASSUME Inv, NEW t \in Threads, EraseManagedService(t)
    PROVE  Inv'
<1>1. /\ \/ services' = Erase(services, found[t].address) /\ undefined' = undefined
         \/ services' = services /\ undefined' = TRUE
      /\ found' = Invalidated(t)
      /\ pc[t] = "unmanage" /\ pc' = [pc EXCEPT ![t] = "idle"]
      /\ UNCHANGED initialising /\ UNCHANGED translator
      /\ UNCHANGED <<conns, connections, provided, my, calls>>
  BY DEF EraseManagedService, At, Goto
<1>2. pc' \in [Threads -> PCs] /\ pc \in [Threads -> PCs]
  BY <1>1 DEF Inv, ThreadsOK, PCs
<1>3. /\ DOMAIN found' = DOMAIN found \ {t}
      /\ \A u \in DOMAIN found' : found'[u].valid \in BOOLEAN
  <2>1. ASSUME NEW u \in DOMAIN found \ {t} PROVE found'[u].valid \in BOOLEAN
    <3>1. found'[u] = [found[u] EXCEPT !.valid = @ /\ found[u].address # found[t].address]
      BY <1>1, <2>1 DEF Invalidated
    <3>2. CASE "valid" \in DOMAIN found[u]
      BY <3>1, <3>2
    <3>3. CASE "valid" \notin DOMAIN found[u]
      BY <3>1, <3>3, <2>1 DEF Inv, ThreadsOK
    <3> QED BY <3>2, <3>3
  <2> QED BY <1>1, <2>1 DEF Invalidated
<1>4. DOMAIN found' = {u \in Threads : pc'[u] = "unmanage"}
  BY <1>1, <1>2, <1>3 DEF Inv, ThreadsOK
<1>5. undefined' \in BOOLEAN
  BY <1>1 DEF Inv, ThreadsOK
<1>6. ThreadsOK' /\ LocalsMeant'
  <2>1. DOMAIN my' = {u \in Threads : pc'[u] \notin Unheld}
    BY <1>1, <1>2 DEF Inv, ThreadsOK, Unheld
  <2>2. \A u \in DOMAIN my : pc'[u] = pc[u]
    BY <1>1, <1>2 DEF Inv, ThreadsOK, Unheld
  <2> QED BY <1>1, <1>2, <1>3, <1>4, <1>5, <2>1, <2>2
          DEF Inv, ThreadsOK, LocalsMeant
<1>7. /\ DOMAIN services' \subseteq DOMAIN services
      /\ \A b \in DOMAIN services' : services'[b] = services[b]
  BY <1>1 DEF Erase
<1>8. RegistryOK' /\ ServiceUnderItsAddress'
  BY <1>1, <1>7 DEF Inv, RegistryOK, ServiceUnderItsAddress
<1> QED BY <1>1, <1>6, <1>8, KeepInitialisers, KeepMaps DEF Inv

(* unregisterStub gets no further than releaseServiceName. *)
LEMMA UnregisterStubStep ==
    ASSUME Inv, NEW t \in Threads, NEW a \in Addresses, UnregisterStub(t, a)
    PROVE  Inv'
<1>1. /\ calls < CallBound /\ calls' = calls + 1
      /\ UNCHANGED initialising /\ UNCHANGED translator /\ UNCHANGED registry
      /\ UNCHANGED <<conns, pc, my, found, undefined>>
  BY DEF UnregisterStub, Begin, ReleaseServiceName, registry, iterators
<1>2. calls' \in 0..CallBound
  BY <1>1, CallBoundNat DEF Inv, ThreadsOK
<1>3. ThreadsOK' /\ LocalsMeant'
  BY <1>1, <1>2 DEF Inv, ThreadsOK, LocalsMeant
<1> QED BY <1>1, <1>3, KeepInitialisers, KeepMaps, KeepRegistry DEF Inv

(* The router changes the state of a connection only. *)
LEMMA RouterStep ==
    ASSUME Inv, NEW c \in DOMAIN conns, HandshakeEnds(c) \/ LoseTransport(c)
    PROVE  Inv'
<1>1. PICK s \in {"connected", "failed", "stopped"} :
      /\ conns' = [conns EXCEPT ![c] = s] /\ UNCHANGED initialising
      /\ UNCHANGED translator /\ UNCHANGED threads
      /\ UNCHANGED <<connections, services, provided>>
  BY DEF HandshakeEnds, LoseTransport
<1>2. s \in ConnStates
  BY DEF ConnStates
<1>3. conns' \in Seq(ConnStates) /\ DOMAIN conns' = DOMAIN conns
  BY <1>1, <1>2, ConnStateChanges DEF Inv
<1>4. RegistryOK' /\ ServiceUnderItsAddress'
  BY <1>1, <1>3 DEF Inv, RegistryOK, ServiceUnderItsAddress
<1>5. ThreadsOK' /\ LocalsMeant'
  BY <1>1, <1>3, KeepThreads DEF Inv
<1> QED BY <1>1, <1>4, <1>5, KeepInitialisers, KeepMaps DEF Inv

-----------------------------------------------------------------------------
(* Theorems                                                                *)

(* No step of any thread breaks the invariant. *)
LEMMA InvStep == Inv /\ [Next]_vars => Inv'
<1> SUFFICES ASSUME Inv, [Next]_vars PROVE Inv'
  OBVIOUS
<1>1. CASE (\E i \in Interfaces : RegisterInterface(i))
           \/ InitLock \/ InitNext \/ InitUnlock
  BY <1>1, InitialiserSteps
<1>2. CASE \E t \in Threads, k \in Keys, a \in Addresses : RegisterStub(t, k, a)
  BY <1>2, RegisterStubStep
<1>3. CASE \E t \in Threads, r \in Realms : CreateWampStubAdapter(t, r)
  BY <1>3, CreateWampStubAdapterStep
<1>4. CASE \E t \in Threads, a \in Addresses : UnregisterManagedService(t, a)
  BY <1>4, UnregisterManagedServiceStep
<1>5. ASSUME NEW t \in Threads, Step(t) PROVE Inv'
  BY <1>5, GetConnectionStep, InsertConnectionStep, ConnectStep, CreateAdapterStep,
     ProvideRemoteMethodsStep, RegisterStubAdapterStep, RegisterManagedServiceStep,
     EraseManagedServiceStep
  DEF Step
<1>6. CASE \E c \in DOMAIN conns : HandshakeEnds(c) \/ LoseTransport(c)
  BY <1>6, RouterStep
<1>7. CASE UNCHANGED vars
  <2>1. /\ UNCHANGED initialising /\ UNCHANGED translator /\ UNCHANGED registry
        /\ UNCHANGED threads /\ DOMAIN conns' = DOMAIN conns
    BY <1>7 DEF vars, initialising, translator, registry, threads, iterators
  <2> QED BY <2>1, KeepInitialisers, KeepMaps, KeepRegistry, KeepThreads DEF Inv
<1>8. CASE \E t \in Threads, a \in Addresses : UnregisterStub(t, a)
  BY <1>8, UnregisterStubStep
<1> QED BY <1>1, <1>2, <1>3, <1>4, <1>5, <1>6, <1>7, <1>8 DEF Next

(* The inductive invariant of the factory holds, whatever order the calls of
   the threads come in.                                                    *)
THEOREM FactoryInvariant == Spec => []AddressInv
<1>1. Inv <=> AddressInv
  BY Parts DEF Inv
<1> QED BY <1>1, InvInit, InvStep, PTL DEF Spec

(* TypeOK: above all, no map of the factory and no local of a call refers to
   a connection that was not made.                                         *)
THEOREM FactoryTypeCorrect == Spec => []TypeOK
<1>1. AddressInv => TypeOK
  BY DEF AddressInv
<1> QED BY <1>1, FactoryInvariant, PTL

(* translate() there and back gives the address that was asked for, for any
   addresses and realms, whichever of them the translator sees first.      *)
THEOREM TranslationRoundTrip == Spec => []RoundTrip
<1>1. AddressInv => RoundTrip
  BY DEF AddressInv
<1> QED BY <1>1, FactoryInvariant, PTL

(* registerStubAdapter and registerManagedService enter a service under the
   address that it was registered for.                                     *)
THEOREM ServicesUnderTheirAddress == Spec => []ServiceUnderItsAddress
<1>1. AddressInv => ServiceUnderItsAddress
  BY DEF AddressInv
<1> QED BY <1>1, FactoryInvariant, PTL

-----------------------------------------------------------------------------
(* Services that are listed are served                                     *)

(* Where a call has a connection that it made and has still to start. *)
Making == {"insert", "connect"}

(* A connection that is yet to be started is new, and its maker is one thread
   only; what is about to be listed is served.  This makes ListedIsServed
   inductive: connect() can then never set a stopped connection to work again. *)
ServedInv ==
    /\ ListedIsServed
    /\ \A t \in DOMAIN my : pc[t] = "add" => Served(my[t])
    /\ \A t \in DOMAIN my : pc[t] \in Making => conns[my[t].connection] = "new"
    /\ \A t, u \in DOMAIN my :
          /\ pc[t] \in Making /\ pc[u] \in Making
          /\ my[t].connection = my[u].connection
          => t = u

(* Nothing that is provided is forgotten and nothing stopped starts again. *)
Onward == /\ \A r \in DOMAIN provided :
                 r \in DOMAIN provided' /\ provided'[r] = provided[r]
          /\ \A c \in DOMAIN conns : conns[c] = "stopped" => conns'[c] = "stopped"

(* Who is served goes on being served. *)
LEMMA ServedOnward ==
    ASSUME Onward
    PROVE  \A x : /\ x.connection \in DOMAIN conns
                  /\ Served(x)
                  => \/ /\ x.realm \in DOMAIN provided'
                        /\ provided'[x.realm] = x.connection
                     \/ conns'[x.connection] = "stopped"
BY DEF Onward, Served

(* So do all services, as long as none is added, *)
LEMMA ListOnward ==
    ASSUME RegistryOK, ListedIsServed, Onward,
           DOMAIN services' \subseteq DOMAIN services,
           \A a \in DOMAIN services' : services'[a] = services[a]
    PROVE  ListedIsServed'
<1> SUFFICES ASSUME NEW a \in DOMAIN services', services'[a].key # Managed
             PROVE  Served(services[a])'
  BY DEF ListedIsServed
<1>1. Served(services[a]) /\ services[a].connection \in DOMAIN conns
      /\ services'[a] = services[a]
  BY DEF ListedIsServed, RegistryOK
<1>2. \/ /\ services[a].realm \in DOMAIN provided'
         /\ provided'[services[a].realm] = services[a].connection
      \/ conns'[services[a].connection] = "stopped"
  BY <1>1, ServedOnward
<1> QED BY <1>1, <1>2 DEF Served

(* and all when one is added that is served or managed. *)
LEMMA ListGrows ==
    ASSUME ListedIsServed, NEW a, NEW t,
           my[t].key = Managed \/ Served(my[t]),
           services' = WithService(a, my[t]),
           UNCHANGED <<conns, provided>>
    PROVE  ListedIsServed'
<1>1. \A b \in DOMAIN services' : b \in DOMAIN services \/ b = a
  BY DEF WithService, Insert
<1>2. \A b \in DOMAIN services : services'[b] = services[b]
  BY DEF WithService, Insert
<1>3. a \notin DOMAIN services => services'[a] = my[t]
  BY DEF WithService, Insert
<1> SUFFICES ASSUME NEW b \in DOMAIN services', services'[b].key # Managed
             PROVE  Served(services[b])'
  BY DEF ListedIsServed
<1>4. CASE b \in DOMAIN services
  BY <1>2, <1>4 DEF ListedIsServed, Served
<1>5. CASE b \notin DOMAIN services
  BY <1>1, <1>3, <1>5 DEF Served
<1> QED BY <1>4, <1>5

(* At first there is nothing to serve. *)
LEMMA ServedInit == Init => ServedInv
BY DEF Init, Empty, ServedInv, ListedIsServed

(* A step that brings no thread to "add" or among the makers keeps what is said of
   the threads, if the connections that are yet to be started stay new.    *)
LEMMA ThreadsOnward ==
    ASSUME RegistryOK, ThreadsOK, ServedInv, Onward,
           \A t \in DOMAIN my' : pc'[t] \in {"add"} \cup Making =>
              /\ t \in DOMAIN my /\ my'[t] = my[t]
              /\ pc'[t] = pc[t] \/ (pc[t] \in Making /\ pc'[t] \in Making),
           \A t \in DOMAIN my : t \in DOMAIN my' /\ pc'[t] \in Making =>
              conns'[my[t].connection] = "new",
           ListedIsServed'
    PROVE  ServedInv'
<1>1. ASSUME NEW t \in DOMAIN my', pc'[t] = "add" PROVE Served(my[t])'
  <2>1. t \in DOMAIN my /\ pc[t] = "add" /\ my'[t] = my[t]
    BY <1>1 DEF Making
  <2>2. Served(my[t]) /\ my[t].connection \in DOMAIN conns
    BY <2>1 DEF ServedInv, ThreadsOK, HasConnection
  <2>3. \/ /\ my[t].realm \in DOMAIN provided'
           /\ provided'[my[t].realm] = my[t].connection
        \/ conns'[my[t].connection] = "stopped"
    BY <2>2, ServedOnward
  <2> QED BY <2>1, <2>3 DEF Served
<1>2. \A t \in DOMAIN my' : pc'[t] \in Making =>
         /\ t \in DOMAIN my /\ pc[t] \in Making /\ my'[t] = my[t]
         /\ conns'[my[t].connection] = "new"
  OBVIOUS
<1>3. \A t \in DOMAIN my' : pc'[t] \in Making => conns'[my'[t].connection] = "new"
  BY <1>2
<1>4. \A t, u \in DOMAIN my' :
         /\ pc'[t] \in Making /\ pc'[u] \in Making
         /\ my'[t].connection = my'[u].connection
         => t = u
  BY <1>2 DEF ServedInv
<1> QED BY <1>1, <1>3, <1>4 DEF ServedInv

(* A step that changes no connection, nothing provided and no service. *)
LEMMA RegistryAtRest ==
    ASSUME RegistryOK, ThreadsOK, ServedInv, UNCHANGED registry,
           \A t \in DOMAIN my' : pc'[t] \in {"add"} \cup Making =>
              t \in DOMAIN my /\ pc'[t] = pc[t] /\ my'[t] = my[t]
    PROVE  ServedInv'
<1>1. conns' = conns /\ provided' = provided /\ services' = services
  BY DEF registry
<1>2. Onward
  BY <1>1 DEF Onward
<1>3. ListedIsServed'
  BY <1>1, <1>2, ListOnward DEF ServedInv
<1>4. \A t \in DOMAIN my : t \in DOMAIN my' /\ pc'[t] \in Making =>
         conns'[my[t].connection] = "new"
  BY <1>1 DEF ServedInv
<1> QED BY <1>2, <1>3, <1>4, ThreadsOnward

(* Calls that begin, and steps that are not about connections or services. *)
LEMMA ServedAtRest ==
    ASSUME Inv, ServedInv,
           \/ (\E i \in Interfaces : RegisterInterface(i))
              \/ InitLock \/ InitNext \/ InitUnlock
           \/ \E t \in Threads, k \in Keys, a \in Addresses : RegisterStub(t, k, a)
           \/ \E t \in Threads, r \in Realms : CreateWampStubAdapter(t, r)
           \/ \E t \in Threads, a \in Addresses :
                 UnregisterStub(t, a) \/ UnregisterManagedService(t, a)
           \/ \E t \in Threads : CreateAdapter(t)
           \/ UNCHANGED vars
    PROVE  ServedInv'
<1>1. CASE UNCHANGED registry /\ UNCHANGED <<pc, my>>
  BY <1>1, RegistryAtRest DEF Inv
<1>2. ASSUME NEW t \in Threads, UNCHANGED registry,
             NEW label \in {"getConnection", "manage", "provide", "unmanage"}, Goto(t, label),
             my' = my \/ \E x : my' = Assign(my, t, x)
      PROVE  ServedInv'
  <2>1. \A u \in Threads : u # t => pc'[u] = pc[u]
    BY <1>2 DEF Goto, Inv, ThreadsOK
  <2>2. pc'[t] \notin {"add"} \cup Making
    BY <1>2 DEF Goto, Inv, ThreadsOK, Making
  <2>3. \A u \in DOMAIN my' : u # t => u \in DOMAIN my /\ my'[u] = my[u]
    BY <1>2 DEF Assign
  <2>4. DOMAIN my \subseteq Threads
    BY DEF Inv, ThreadsOK
  <2> QED BY <1>2, <2>1, <2>2, <2>3, <2>4, RegistryAtRest DEF Inv
<1>3. ASSUME NEW t \in Threads, UNCHANGED registry, Return(t)
      PROVE  ServedInv'
  <2>1. \A u \in DOMAIN my' : u # t /\ u \in DOMAIN my /\ my'[u] = my[u]
    BY <1>3 DEF Return, Erase
  <2>2. \A u \in DOMAIN my : u # t => pc'[u] = pc[u]
    BY <1>3 DEF Return, Goto, Inv, ThreadsOK
  <2> QED BY <1>3, <2>1, <2>2, RegistryAtRest DEF Inv
<1>4. CASE (\E i \in Interfaces : RegisterInterface(i))
           \/ InitLock \/ InitNext \/ InitUnlock
  BY <1>1, <1>4 DEF RegisterInterface, InitLock, InitNext, InitUnlock, threads
<1>5. CASE \E t \in Threads, k \in Keys, a \in Addresses : RegisterStub(t, k, a)
  BY <1>2, <1>5 DEF RegisterStub
<1>6. CASE \E t \in Threads, r \in Realms : CreateWampStubAdapter(t, r)
  BY <1>2, <1>6 DEF CreateWampStubAdapter
<1>7. CASE \E t \in Threads, a \in Addresses : UnregisterStub(t, a)
  BY <1>1, <1>7 DEF UnregisterStub, ReleaseServiceName, registry
<1>8. CASE \E t \in Threads : CreateAdapter(t)
  BY <1>2, <1>3, <1>8 DEF CreateAdapter
<1>9. CASE UNCHANGED vars
  BY <1>1, <1>9 DEF vars, registry
<1>10. CASE \E t \in Threads, a \in Addresses : UnregisterManagedService(t, a)
  BY <1>2, <1>10 DEF UnregisterManagedService
<1> QED BY <1>4, <1>5, <1>6, <1>7, <1>8, <1>9, <1>10

(* A connection that is made is new, and no other thread knows it. *)
LEMMA ServedGetConnection ==
    ASSUME Inv, ServedInv, NEW t \in Threads, GetConnection(t)
    PROVE  ServedInv'
<1>1. t \in DOMAIN my /\ my[t] \in Locals
  BY DEF GetConnection, At, Inv, ThreadsOK, Unheld
<1>2. provided' = provided /\ services' = services /\ connections' = connections
  BY DEF GetConnection
<1>3. \A u \in DOMAIN my : my[u] \in Locals
  BY DEF Inv, ThreadsOK
<1>4. CASE my[t].key \in DOMAIN connections
  <2>1. /\ my' = [my EXCEPT ![t].connection = connections[my[t].key]]
        /\ pc' = [pc EXCEPT ![t] = "create"] /\ conns' = conns
    BY <1>4 DEF GetConnection, Goto
  <2>2. UNCHANGED registry
    BY <1>2, <2>1 DEF registry
  <2>3. \A u \in DOMAIN my' : pc'[u] \in {"add"} \cup Making =>
           u \in DOMAIN my /\ pc'[u] = pc[u] /\ my'[u] = my[u]
    BY <2>1, <1>1 DEF Inv, ThreadsOK, Making
  <2> QED BY <2>2, <2>3, RegistryAtRest DEF Inv
<1>5. CASE my[t].key \notin DOMAIN connections
  <2> DEFINE c == Len(conns) + 1
  <2>1. /\ my' = [my EXCEPT ![t].connection = c]
        /\ pc' = [pc EXCEPT ![t] = "insert"] /\ conns' = Append(conns, "new")
    BY <1>5 DEF GetConnection, Goto
  <2>2. /\ conns'[c] = "new" /\ c \notin DOMAIN conns
        /\ \A d \in DOMAIN conns : conns'[d] = conns[d]
    BY <2>1 DEF Inv, RegistryOK
  <2> HIDE DEF c
  <2>3. Onward
    BY <1>2, <2>2 DEF Onward
  <2>4. ListedIsServed'
    BY <1>2, <2>3, ListOnward DEF Inv, ServedInv
  <2>5. DOMAIN my' = DOMAIN my /\ my'[t].connection = c /\ pc'[t] \in Making
        /\ pc'[t] # "add"
    BY <1>1, <2>1 DEF Locals, Inv, ThreadsOK, Making
  <2>6. \A u \in DOMAIN my : u # t => my'[u] = my[u] /\ pc'[u] = pc[u]
    BY <1>1, <2>1 DEF Inv, ThreadsOK
  <2>7. \A u \in DOMAIN my : pc[u] \in {"add"} \cup Making =>
           my[u].connection \in DOMAIN conns
    BY DEF Inv, ThreadsOK, HasConnection, Making
  <2>8. \A u \in DOMAIN my' : pc'[u] \in Making => conns'[my'[u].connection] = "new"
    BY <2>2, <2>5, <2>6, <2>7 DEF ServedInv
  <2>9. \A u, v \in DOMAIN my' :
           /\ pc'[u] \in Making /\ pc'[v] \in Making
           /\ my'[u].connection = my'[v].connection
           => u = v
    BY <2>2, <2>5, <2>6, <2>7 DEF ServedInv
  <2>10. ASSUME NEW u \in DOMAIN my', pc'[u] = "add" PROVE Served(my[u])'
    <3>1. u \in DOMAIN my /\ pc[u] = "add" /\ my'[u] = my[u]
      BY <2>5, <2>6, <2>10
    <3>2. Served(my[u]) /\ my[u].connection \in DOMAIN conns
      BY <2>7, <3>1 DEF ServedInv
    <3> QED BY <1>2, <2>2, <3>1, <3>2 DEF Served
  <2> QED BY <2>4, <2>8, <2>9, <2>10 DEF ServedInv
<1> QED BY <1>4, <1>5

(* A connection is entered: it stays new, and with the call that made it. *)
LEMMA ServedInsertConnection ==
    ASSUME Inv, ServedInv, NEW t \in Threads, InsertConnection(t)
    PROVE  ServedInv'
<1>1. t \in DOMAIN my /\ pc[t] = "insert"
  BY DEF InsertConnection, At, Inv, ThreadsOK, Unheld
<1>2. /\ my' = my /\ conns' = conns /\ provided' = provided /\ services' = services
      /\ pc' = [pc EXCEPT ![t] = "connect"]
  BY DEF InsertConnection, Goto
<1>3. Onward
  BY <1>2 DEF Onward
<1>4. ListedIsServed'
  BY <1>2, <1>3, ListOnward DEF Inv, ServedInv
<1>5. \A u \in DOMAIN my : \/ pc'[u] = pc[u]
                           \/ pc[u] \in Making /\ pc'[u] \in Making
  BY <1>1, <1>2 DEF Inv, ThreadsOK, Making
<1>6. \A u \in DOMAIN my : pc'[u] \in Making => conns'[my[u].connection] = "new"
  BY <1>2, <1>5 DEF ServedInv
<1> QED BY <1>2, <1>3, <1>4, <1>5, <1>6, ThreadsOnward DEF Inv

(* connect() is called on a connection that no other call has to start. *)
LEMMA ServedConnect ==
    ASSUME Inv, ServedInv, NEW t \in Threads, Connect(t)
    PROVE  ServedInv'
<1> DEFINE c == my[t].connection
<1>1. t \in DOMAIN my /\ pc[t] \in Making /\ conns[c] = "new" /\ c \in DOMAIN conns
  BY DEF Connect, At, Inv, ThreadsOK, HasConnection, Unheld, ServedInv, Making
<1>2. /\ \E q : conns' = [conns EXCEPT ![c] = q]
      /\ my' = my /\ pc' = [pc EXCEPT ![t] = "create"]
      /\ provided' = provided /\ services' = services
  BY DEF Connect, Goto
<1>3. \A d \in DOMAIN conns : d # c => conns'[d] = conns[d]
  BY <1>2 DEF Inv, RegistryOK
<1>4. Onward
  BY <1>1, <1>2, <1>3 DEF Onward
<1>5. ListedIsServed'
  BY <1>2, <1>4, ListOnward DEF Inv, ServedInv
<1>6. \A u \in DOMAIN my' : pc'[u] \in {"add"} \cup Making =>
         u # t /\ u \in DOMAIN my /\ pc'[u] = pc[u] /\ my'[u] = my[u]
  BY <1>1, <1>2 DEF Inv, ThreadsOK, Making
<1>7. \A u \in DOMAIN my : u \in DOMAIN my' /\ pc'[u] \in Making =>
         conns'[my[u].connection] = "new"
  <2> SUFFICES ASSUME NEW u \in DOMAIN my, pc'[u] \in Making
               PROVE  conns'[my[u].connection] = "new"
    OBVIOUS
  <2>1. u # t /\ pc[u] \in Making
    BY <1>2, <1>6
  <2>2. my[u].connection # c /\ my[u].connection \in DOMAIN conns
        /\ conns[my[u].connection] = "new"
    BY <1>1, <2>1 DEF ServedInv, Inv, ThreadsOK, HasConnection, Making
  <2> QED BY <1>3, <2>2
<1> HIDE DEF c
<1> QED BY <1>4, <1>5, <1>6, <1>7, ThreadsOnward DEF Inv

(* The procedure is provided or the connection stopped. *)
LEMMA ServedProvide ==
    ASSUME Inv, ServedInv, NEW t \in Threads, ProvideRemoteMethods(t)
    PROVE  ServedInv'
<1> DEFINE c == my[t].connection
           r == my[t].realm
<1>1. t \in DOMAIN my /\ pc[t] = "provide" /\ c \in DOMAIN conns
      /\ conns[c] = "connected"
  BY DEF ProvideRemoteMethods, At, Inv, ThreadsOK, Unheld, HasConnection
<1>2. /\ my' = my /\ services' = services /\ pc' = [pc EXCEPT ![t] = "add"]
      /\ \/ /\ r \notin DOMAIN provided /\ provided' = Assign(provided, r, c)
            /\ conns' = conns
         \/ conns' = [conns EXCEPT ![c] = "stopped"] /\ provided' = provided
  BY DEF ProvideRemoteMethods, Goto
<1>3. \/ r \in DOMAIN provided' /\ provided'[r] = c
      \/ conns'[c] = "stopped"
  BY <1>1, <1>2 DEF Assign
<1>4. \A d \in DOMAIN conns : d # c => conns'[d] = conns[d]
  BY <1>2 DEF Inv, RegistryOK
<1>5. \A q \in DOMAIN provided : q \in DOMAIN provided' /\ provided'[q] = provided[q]
  BY <1>2 DEF Assign
<1>6. Onward
  BY <1>1, <1>4, <1>5 DEF Onward
<1>7. ListedIsServed'
  BY <1>2, <1>6, ListOnward DEF Inv, ServedInv
<1>8. /\ \A u \in DOMAIN my : u # t => pc'[u] = pc[u]
      /\ pc'[t] = "add"
  BY <1>1, <1>2 DEF Inv, ThreadsOK
<1>9. ASSUME NEW u \in DOMAIN my', pc'[u] = "add" PROVE Served(my[u])'
  <2>1. CASE u = t
    BY <1>2, <1>3, <2>1 DEF Served
  <2>2. CASE u # t
    <3>1. Served(my[u]) /\ my[u].connection \in DOMAIN conns
      BY <1>2, <1>8, <1>9, <2>2 DEF ServedInv, Inv, ThreadsOK, HasConnection
    <3>2. \/ /\ my[u].realm \in DOMAIN provided'
             /\ provided'[my[u].realm] = my[u].connection
          \/ conns'[my[u].connection] = "stopped"
      BY <1>6, <3>1, ServedOnward
    <3> QED BY <1>2, <3>2 DEF Served
  <2> QED BY <2>1, <2>2
<1>10. \A u \in DOMAIN my' : pc'[u] \in Making =>
          /\ pc[u] \in Making /\ conns'[my'[u].connection] = "new"
  <2> SUFFICES ASSUME NEW u \in DOMAIN my', pc'[u] \in Making
               PROVE  pc[u] \in Making /\ conns'[my'[u].connection] = "new"
    OBVIOUS
  <2>1. u \in DOMAIN my /\ u # t /\ pc[u] \in Making /\ my'[u] = my[u]
    BY <1>2, <1>8 DEF Making
  <2>2. my[u].connection \in DOMAIN conns /\ conns[my[u].connection] = "new"
    BY <2>1 DEF ServedInv, Inv, ThreadsOK, HasConnection, Making
  <2>3. my[u].connection # c
    BY <1>1, <2>2
  <2> QED BY <1>4, <2>1, <2>2, <2>3
<1> HIDE DEF c, r
<1>11. \A u, v \in DOMAIN my' :
          /\ pc'[u] \in Making /\ pc'[v] \in Making
          /\ my'[u].connection = my'[v].connection
          => u = v
  BY <1>2, <1>10 DEF ServedInv
<1> QED BY <1>7, <1>9, <1>10, <1>11 DEF ServedInv

(* A service is listed: it was provided, or it is a managed one. *)
LEMMA ServedListing ==
    ASSUME Inv, ServedInv, NEW t \in Threads,
           RegisterStubAdapter(t) \/ RegisterManagedService(t)
    PROVE  ServedInv'
<1>1. /\ t \in DOMAIN my
      /\ my[t].key = Managed \/ Served(my[t])
  BY DEF RegisterStubAdapter, RegisterManagedService, At, Inv, ThreadsOK, Unheld, ServedInv
<1>2. /\ \E a : services' = WithService(a, my[t])
      /\ Return(t) /\ UNCHANGED <<conns, provided>>
  BY DEF RegisterStubAdapter, RegisterManagedService
<1>3. ListedIsServed'
  BY <1>1, <1>2, ListGrows DEF ServedInv
<1>4. Onward
  BY <1>2 DEF Onward
<1>5. \A u \in DOMAIN my' : /\ u # t /\ u \in DOMAIN my /\ my'[u] = my[u]
                            /\ pc'[u] = pc[u]
  BY <1>2 DEF Return, Goto, Erase, Inv, ThreadsOK
<1>6. \A u \in DOMAIN my : u \in DOMAIN my' /\ pc'[u] \in Making =>
         conns'[my[u].connection] = "new"
  BY <1>2, <1>5 DEF ServedInv
<1> QED BY <1>3, <1>4, <1>5, <1>6, ThreadsOnward DEF Inv

(* A service goes, and the call that erased it returns. *)
LEMMA ServedErase ==
    ASSUME Inv, ServedInv, NEW t \in Threads, EraseManagedService(t)
    PROVE  ServedInv'
<1>1. /\ my' = my /\ conns' = conns /\ provided' = provided
      /\ pc' = [pc EXCEPT ![t] = "idle"]
  BY DEF EraseManagedService, Goto
<1>2. \A a \in DOMAIN services' : a \in DOMAIN services /\ services'[a] = services[a]
  BY DEF EraseManagedService, Erase
<1>3. Onward
  BY <1>1 DEF Onward
<1>4. ListedIsServed'
  BY <1>2, <1>3, ListOnward DEF Inv, ServedInv
<1>5. \A u \in DOMAIN my : pc'[u] \in {"add"} \cup Making => pc'[u] = pc[u]
  BY <1>1 DEF Inv, ThreadsOK, Making
<1>6. \A u \in DOMAIN my : pc'[u] \in Making => conns'[my[u].connection] = "new"
  BY <1>1, <1>5 DEF ServedInv
<1> QED BY <1>1, <1>3, <1>4, <1>5, <1>6, ThreadsOnward DEF Inv

(* A handshake ends, or a transport is lost. *)
LEMMA ServedRouter ==
    ASSUME Inv, ServedInv, NEW c \in DOMAIN conns, HandshakeEnds(c) \/ LoseTransport(c)
    PROVE  ServedInv'
<1>1. /\ my' = my /\ pc' = pc /\ provided' = provided /\ services' = services
      /\ conns[c] \in {"connecting", "connected"}
      /\ \E q : conns' = [conns EXCEPT ![c] = q]
  BY DEF HandshakeEnds, LoseTransport, threads
<1>2. \A d \in DOMAIN conns : conns[d] \in {"new", "stopped"} => conns'[d] = conns[d]
  BY <1>1 DEF Inv, RegistryOK
<1>3. Onward
  BY <1>1, <1>2 DEF Onward
<1>4. ListedIsServed'
  BY <1>1, <1>3, ListOnward DEF Inv, ServedInv
<1>5. \A t \in DOMAIN my : t \in DOMAIN my' /\ pc'[t] \in Making =>
         conns'[my[t].connection] = "new"
  BY <1>1, <1>2 DEF ServedInv, Inv, ThreadsOK, HasConnection, Making
<1> QED BY <1>1, <1>3, <1>4, <1>5, ThreadsOnward DEF Inv

(* The invariant is kept by every step. *)
LEMMA ServedStep == Inv /\ ServedInv /\ [Next]_vars => ServedInv'
<1> SUFFICES ASSUME Inv, ServedInv, [Next]_vars PROVE ServedInv'
  OBVIOUS
<1>1. ASSUME NEW t \in Threads, Step(t) PROVE ServedInv'
  <2>1. CASE GetConnection(t)
    BY <2>1, ServedGetConnection
  <2>2. CASE InsertConnection(t)
    BY <2>2, ServedInsertConnection
  <2>3. CASE CreateAdapter(t)
    BY <2>3, ServedAtRest
  <2>4. CASE ProvideRemoteMethods(t)
    BY <2>4, ServedProvide
  <2>5. CASE RegisterStubAdapter(t) \/ RegisterManagedService(t)
    BY <2>5, ServedListing
  <2>6. CASE Connect(t)
    BY <2>6, ServedConnect
  <2>7. CASE EraseManagedService(t)
    BY <2>7, ServedErase
  <2> QED BY <1>1, <2>1, <2>2, <2>3, <2>4, <2>5, <2>6, <2>7 DEF Step
<1>2. CASE \E c \in DOMAIN conns : HandshakeEnds(c) \/ LoseTransport(c)
  BY <1>2, ServedRouter
<1>3. CASE \/ (\E i \in Interfaces : RegisterInterface(i))
              \/ InitLock \/ InitNext \/ InitUnlock
           \/ \E t \in Threads, k \in Keys, a \in Addresses : RegisterStub(t, k, a)
           \/ \E t \in Threads, r \in Realms : CreateWampStubAdapter(t, r)
           \/ \E t \in Threads, a \in Addresses :
                 UnregisterStub(t, a) \/ UnregisterManagedService(t, a)
           \/ UNCHANGED vars
  BY <1>3, ServedAtRest
<1> QED BY <1>1, <1>2, <1>3 DEF Next

(* A service that registerStub listed is provided on its own connection, or that
   connection is stopped, for any threads and any router.                  *)
THEOREM ListedServicesAreServed == Spec => []ListedIsServed
<1>1. Init => Inv /\ ServedInv
  BY InvInit, ServedInit
<1>2. Inv /\ ServedInv /\ [Next]_vars => (Inv /\ ServedInv)'
  BY InvStep, ServedStep
<1>3. ServedInv => ListedIsServed
  BY DEF ServedInv
<1> QED BY <1>1, <1>2, <1>3, PTL DEF Spec

-----------------------------------------------------------------------------
(* Initialisers run once                                                   *)

(* The initialisers that are still to be called: during init() those that its loop
   has not reached, otherwise all in the list.                             *)
Pending == IF initializerMutex THEN left ELSE initializers

(* An initialiser is pending at most once and has not run then; one that is not
   pending has run if its library is loaded, and after init() none is.     *)
OnceInv ==
    /\ \A m, n \in 1..Len(Pending) : Pending[m] = Pending[n] => m = n
    /\ \A n \in 1..Len(Pending) : Pending[n] \in loaded /\ ran[Pending[n]] = 0
    /\ \A i \in loaded : \/ \E n \in 1..Len(Pending) : Pending[n] = i
                         \/ ran[i] = 1
    /\ \A i \in Interfaces \ loaded : ran[i] = 0
    /\ isInitialized => Pending = <<>>
    /\ initializerMutex => ~isInitialized

(* A library hands over its initialiser. *)
LEMMA OnceRegister ==
    ASSUME InitialisersOK, OnceInv, NEW i \in Interfaces, RegisterInterface(i)
    PROVE  OnceInv'
<1>0. Pending = initializers /\ Pending' = initializers' /\ ~initializerMutex
  BY DEF RegisterInterface, Pending
<1>1. /\ i \notin loaded /\ loaded' = loaded \cup {i} /\ ran[i] = 0
      /\ isInitialized' = isInitialized /\ initializerMutex' = initializerMutex
      /\ Pending \in Seq(Interfaces) /\ ran \in [Interfaces -> Nat]
      /\ loaded \subseteq Interfaces
  BY <1>0 DEF RegisterInterface, OnceInv, InitialisersOK
<1>2. CASE isInitialized
  <2>1. /\ ran' = [ran EXCEPT ![i] = ran[i] + 1] /\ Pending' = Pending
        /\ Pending = <<>>
    BY <1>0, <1>2 DEF RegisterInterface, OnceInv
  <2>2. ran'[i] = 1 /\ \A j \in Interfaces \ {i} : ran'[j] = ran[j]
    BY <1>1, <2>1
  <2>3. \A j \in loaded : ran[j] = 1
    BY <2>1 DEF OnceInv
  <2>4. Len(Pending') = 0
    BY <2>1
  <2> QED BY <1>1, <1>2, <2>1, <2>2, <2>3, <2>4 DEF OnceInv
<1>3. CASE ~isInitialized
  <2>1. Pending' = Append(Pending, i) /\ ran' = ran
    BY <1>0, <1>3 DEF RegisterInterface
  <2>2. /\ Len(Pending') = Len(Pending) + 1
        /\ Pending'[Len(Pending) + 1] = i
        /\ \A n \in 1..Len(Pending) : Pending'[n] = Pending[n]
        /\ Len(Pending) \in Nat
    BY <1>1, <2>1
  <2>3. \A n \in 1..Len(Pending) : Pending[n] # i
    BY <1>1 DEF OnceInv
  <2>4. \A m, n \in 1..Len(Pending') : Pending'[m] = Pending'[n] => m = n
    BY <2>2, <2>3 DEF OnceInv
  <2>5. \A n \in 1..Len(Pending') : /\ Pending'[n] \in loaded'
                                         /\ ran'[Pending'[n]] = 0
    BY <1>1, <2>1, <2>2 DEF OnceInv
  <2>6. \A j \in loaded' : \/ \E n \in 1..Len(Pending') : Pending'[n] = j
                           \/ ran'[j] = 1
    BY <1>1, <2>1, <2>2 DEF OnceInv
  <2> QED BY <1>1, <1>3, <2>1, <2>4, <2>5, <2>6 DEF OnceInv
<1> QED BY <1>2, <1>3

(* init() runs the next one. *)
LEMMA OnceNext ==
    ASSUME InitialisersOK, OnceInv, InitNext
    PROVE  OnceInv'
<1> DEFINE i == Pending[1]
<1>0. Pending = left /\ Pending' = left'
  BY DEF InitNext, Pending
<1>1. /\ Pending \in Seq(Interfaces) /\ Pending # <<>>
      /\ ran \in [Interfaces -> Nat] /\ loaded \subseteq Interfaces
  BY <1>0 DEF InitNext, InitialisersOK
<1>2. /\ ran' = [ran EXCEPT ![i] = ran[i] + 1] /\ Pending' = Tail(Pending)
      /\ loaded' = loaded /\ initializerMutex
      /\ isInitialized' = isInitialized /\ initializerMutex' = initializerMutex
  BY <1>0, <1>1 DEF InitNext
<1>3. /\ Len(Pending) \in Nat \ {0}
      /\ Len(Pending') = Len(Pending) - 1
      /\ \A n \in 1..Len(Pending') : Pending'[n] = Pending[n + 1]
  BY <1>1, <1>2
<1>4. i \in Interfaces /\ i \in loaded /\ ran[i] = 0
  BY <1>1, <1>3 DEF OnceInv
<1>5. ran'[i] = 1 /\ \A j \in Interfaces \ {i} : ran'[j] = ran[j]
  BY <1>1, <1>2, <1>4
<1>6. \A n \in 1..Len(Pending') : /\ Pending[n + 1] # i
                                       /\ Pending[n + 1] \in Interfaces
  BY <1>1, <1>3 DEF OnceInv
<1> HIDE DEF i
<1>7. \A m, n \in 1..Len(Pending') : Pending'[m] = Pending'[n] => m = n
  BY <1>3 DEF OnceInv
<1>8. \A n \in 1..Len(Pending') : /\ Pending'[n] \in loaded'
                                       /\ ran'[Pending'[n]] = 0
  BY <1>2, <1>3, <1>5, <1>6 DEF OnceInv
<1>9. \A j \in loaded' : \/ \E n \in 1..Len(Pending') : Pending'[n] = j
                         \/ ran'[j] = 1
  <2> SUFFICES ASSUME NEW j \in loaded, j # i
               PROVE  \/ \E n \in 1..Len(Pending') : Pending'[n] = j
                      \/ ran'[j] = 1
    BY <1>2, <1>5
  <2>1. CASE \E n \in 1..Len(Pending) : Pending[n] = j
    <3>1. PICK n \in 1..Len(Pending) : Pending[n] = j
      BY <2>1
    <3>2. n # 1
      BY <3>1 DEF i
    <3>3. n - 1 \in 1..Len(Pending') /\ Pending'[n - 1] = j
      BY <1>3, <3>1, <3>2
    <3> QED BY <3>3
  <2>2. CASE ran[j] = 1
    BY <1>1, <1>5, <2>2
  <2> QED BY <2>1, <2>2 DEF OnceInv
<1>10. \A j \in Interfaces \ loaded' : ran'[j] = 0
  BY <1>2, <1>4, <1>5 DEF OnceInv
<1> QED BY <1>2, <1>7, <1>8, <1>9, <1>10 DEF OnceInv

(* All other steps leave the initialisers alone, or lock and unlock. *)
LEMMA OnceStep == Inv /\ OnceInv /\ [Next]_vars => OnceInv'
<1> SUFFICES ASSUME Inv, OnceInv, [Next]_vars PROVE OnceInv'
  OBVIOUS
<1>1. CASE \E i \in Interfaces : RegisterInterface(i)
  BY <1>1, OnceRegister DEF Inv
<1>2. CASE InitNext
  BY <1>2, OnceNext DEF Inv
<1>3. CASE InitLock \/ InitUnlock
  <2>1. /\ UNCHANGED <<Pending, loaded, ran>>
        /\ isInitialized' => Pending' = <<>>
        /\ initializerMutex' => ~isInitialized'
    BY <1>3 DEF InitLock, InitUnlock, Pending
  <2> QED BY <2>1 DEF OnceInv
<1>4. CASE UNCHANGED initialising
  BY <1>4 DEF initialising, OnceInv, Pending
<1>5. CASE \E t \in Threads :
              \/ \E k \in Keys, a \in Addresses : RegisterStub(t, k, a)
              \/ \E r \in Realms : CreateWampStubAdapter(t, r)
              \/ \E a \in Addresses :
                    UnregisterStub(t, a) \/ UnregisterManagedService(t, a)
              \/ Step(t)
  BY <1>4, <1>5
  DEF RegisterStub, CreateWampStubAdapter, UnregisterStub, UnregisterManagedService,
      Step, GetConnection, InsertConnection, Connect, CreateAdapter,
      ProvideRemoteMethods, RegisterStubAdapter, RegisterManagedService,
      EraseManagedService
<1>6. CASE \E c \in DOMAIN conns : HandshakeEnds(c) \/ LoseTransport(c)
  BY <1>4, <1>6 DEF HandshakeEnds, LoseTransport
<1>7. CASE UNCHANGED vars
  BY <1>4, <1>7 DEF vars, initialising
<1> QED BY <1>1, <1>2, <1>3, <1>5, <1>6, <1>7 DEF Next

(* Each initialiser runs exactly once, however the loading of libraries and
   init() interleave, for any number of libraries.                         *)
THEOREM InitialisersRunOnce == Spec => []InitialisedOnce
<1>1. Init => Inv /\ OnceInv
  <2>1. Init => OnceInv
    BY DEF Init, OnceInv, Pending
  <2> QED BY <2>1, InvInit
<1>2. Inv /\ OnceInv /\ [Next]_vars => (Inv /\ OnceInv)'
  BY InvStep, OnceStep
<1>3. Inv /\ OnceInv => InitialisedOnce
  <2> SUFFICES ASSUME Inv, OnceInv, NEW i \in Interfaces
               PROVE  /\ ran[i] =< 1
                      /\ isInitialized /\ i \in loaded => ran[i] = 1
    BY DEF InitialisedOnce
  <2>1. ran[i] = 0 \/ ran[i] = 1
    BY DEF OnceInv
  <2>2. isInitialized /\ i \in loaded => ran[i] = 1
    BY DEF OnceInv
  <2> QED BY <2>1, <2>2
<1> QED BY <1>1, <1>2, <1>3, PTL DEF Spec

-----------------------------------------------------------------------------
(* A connection that was not entered has one user                          *)

(* A call that has not yet looked for its connection has none. *)
OrphanInv ==
    /\ OrphanHasOneUser
    /\ \A t \in DOMAIN my : pc[t] = "getConnection" => my[t].connection = 0

(* Connections that are not entered, before and after a step. *)
Orphans == DOMAIN conns \ Shared

(* No connection becomes an orphan, no service is added, and no thread comes to
   use an orphan.                                                          *)
LEMMA NoNewUser ==
    ASSUME OrphanHasOneUser, Orphans' \subseteq Orphans,
           \A a \in DOMAIN services' : a \in DOMAIN services /\ services'[a] = services[a],
           \A t \in DOMAIN my' : \/ t \in DOMAIN my /\ my'[t] = my[t]
                                 \/ my'[t].key = Managed
                                 \/ my'[t].connection \notin Orphans'
    PROVE  OrphanHasOneUser'
<1> SUFFICES ASSUME NEW c \in Orphans'
             PROVE  (/\ \A a, b \in DOMAIN services :
                           Uses(services[a], c) /\ Uses(services[b], c) => a = b
                     /\ \A t, u \in DOMAIN my :
                           Uses(my[t], c) /\ Uses(my[u], c) => t = u
                     /\ \A a \in DOMAIN services, t \in DOMAIN my :
                           ~(Uses(services[a], c) /\ Uses(my[t], c)))'
  BY DEF OrphanHasOneUser, Orphans
<1>1. c \in DOMAIN conns \ Shared
  BY DEF Orphans
<1>2. \A a \in DOMAIN services' : Uses(services'[a], c) =>
         a \in DOMAIN services /\ Uses(services[a], c)
  OBVIOUS
<1>3. \A t \in DOMAIN my' : Uses(my'[t], c) => t \in DOMAIN my /\ Uses(my[t], c)
  BY DEF Uses
<1> QED BY <1>1, <1>2, <1>3 DEF OrphanHasOneUser

(* Entering a connection and changing its state make no orphan. *)
LEMMA FewerOrphans ==
    ASSUME DOMAIN conns' = DOMAIN conns,
           DOMAIN connections \subseteq DOMAIN connections',
           \A k \in DOMAIN connections : connections'[k] = connections[k]
    PROVE  Orphans' \subseteq Orphans
BY DEF Orphans, Shared

(* A thread makes a connection of its own. *)
LEMMA OrphanGetConnection ==
    ASSUME Inv, OrphanInv, NEW t \in Threads, GetConnection(t)
    PROVE  OrphanInv'
<1>1. t \in DOMAIN my /\ my[t] \in Locals
  BY DEF GetConnection, At, Inv, ThreadsOK, Unheld
<1>2. services' = services /\ connections' = connections
  BY DEF GetConnection
<1>3. ASSUME NEW c, my' = [my EXCEPT ![t].connection = c],
             NEW label \in {"create", "insert"}, Goto(t, label)
      PROVE  /\ DOMAIN my' = DOMAIN my /\ my'[t].connection = c
             /\ \A u \in DOMAIN my : u # t => my'[u] = my[u]
             /\ (\A u \in DOMAIN my : pc[u] = "getConnection" => my[u].connection = 0)'
  <2>1. /\ DOMAIN my' = DOMAIN my /\ my'[t].connection = c
        /\ \A u \in DOMAIN my : u # t => my'[u] = my[u]
    BY <1>1, <1>3 DEF Locals
  <2>2. pc'[t] # "getConnection" /\ \A u \in Threads : u # t => pc'[u] = pc[u]
    BY <1>3 DEF Goto, Inv, ThreadsOK
  <2> QED BY <2>1, <2>2 DEF OrphanInv, Inv, ThreadsOK
<1>4. CASE my[t].key \in DOMAIN connections
  <2> DEFINE c == connections[my[t].key]
  <2>1. my' = [my EXCEPT ![t].connection = c] /\ Goto(t, "create") /\ conns' = conns
    BY <1>4 DEF GetConnection
  <2>2. c \notin Orphans'
    BY <1>2, <1>4 DEF Orphans, Shared
  <2> HIDE DEF c
  <2>3. Orphans' \subseteq Orphans
    BY <1>2, <2>1, FewerOrphans
  <2> QED BY <1>2, <1>3, <2>1, <2>2, <2>3, NoNewUser DEF OrphanInv
<1>5. CASE my[t].key \notin DOMAIN connections
  <2> DEFINE n == Len(conns) + 1
  <2>1. my' = [my EXCEPT ![t].connection = n] /\ Goto(t, "insert")
        /\ conns' = Append(conns, "new")
    BY <1>5 DEF GetConnection
  <2>2. DOMAIN conns' = DOMAIN conns \cup {n} /\ n \notin DOMAIN conns /\ n # 0
    BY <2>1 DEF Inv, RegistryOK
  <2> HIDE DEF n
  <2>3. /\ DOMAIN my' = DOMAIN my /\ my'[t].connection = n
        /\ \A u \in DOMAIN my : u # t => my'[u] = my[u]
        /\ (\A u \in DOMAIN my : pc[u] = "getConnection" => my[u].connection = 0)'
    BY <1>3, <2>1
  <2>4. \A a \in DOMAIN services : services[a].connection # n
    BY <2>2 DEF Inv, RegistryOK
  <2>5. \A u \in DOMAIN my : my[u].connection # n
    <3>1. \A u \in DOMAIN my : pc[u] \in HasConnection \/ pc[u] = "getConnection"
      BY DEF Inv, ThreadsOK, Unheld, HasConnection, PCs
    <3> QED BY <2>2, <3>1 DEF Inv, ThreadsOK, OrphanInv
  <2>6. Shared' = Shared
    BY <1>2 DEF Shared
  <2>7. ASSUME NEW c \in DOMAIN conns' \ Shared'
        PROVE  /\ \A a, b \in DOMAIN services' :
                     Uses(services'[a], c) /\ Uses(services'[b], c) => a = b
               /\ \A u, v \in DOMAIN my' :
                     Uses(my'[u], c) /\ Uses(my'[v], c) => u = v
               /\ \A a \in DOMAIN services', u \in DOMAIN my' :
                     ~(Uses(services'[a], c) /\ Uses(my'[u], c))
    <3>1. CASE c = n
      BY <1>2, <2>3, <2>4, <2>5, <3>1 DEF Uses
    <3>2. CASE c # n
      <4>1. c \in DOMAIN conns \ Shared
        BY <2>2, <2>6, <2>7, <3>2
      <4>2. \A u \in DOMAIN my' : Uses(my'[u], c) => u \in DOMAIN my /\ Uses(my[u], c)
        BY <2>3, <3>2 DEF Uses
      <4> QED BY <1>2, <4>1, <4>2 DEF OrphanInv, OrphanHasOneUser
    <3> QED BY <3>1, <3>2
  <2>8. OrphanHasOneUser'
    BY <2>7 DEF OrphanHasOneUser, Uses
  <2> QED BY <2>3, <2>8 DEF OrphanInv
<1> QED BY <1>4, <1>5

(* A service takes over the connection of the call that lists it. *)
LEMMA OrphanListing ==
    ASSUME Inv, OrphanInv, NEW t \in Threads,
           RegisterStubAdapter(t) \/ RegisterManagedService(t)
    PROVE  OrphanInv'
<1>1. PICK a : services' = WithService(a, my[t])
  BY DEF RegisterStubAdapter, RegisterManagedService
<1>2. Return(t) /\ conns' = conns /\ connections' = connections /\ t \in DOMAIN my
  BY DEF RegisterStubAdapter, RegisterManagedService, At, Inv, ThreadsOK, Unheld
<1>3. \A u \in DOMAIN my' : /\ u # t /\ u \in DOMAIN my /\ my'[u] = my[u]
                            /\ pc'[u] = pc[u]
  BY <1>2 DEF Return, Goto, Erase, Inv, ThreadsOK
<1>4. \A b \in DOMAIN services' : \/ b \in DOMAIN services /\ services'[b] = services[b]
                                  \/ b = a /\ services'[b] = my[t]
  BY <1>1 DEF WithService, Insert
<1>5. ASSUME NEW c \in DOMAIN conns' \ Shared'
      PROVE  /\ \A b, d \in DOMAIN services' :
                   Uses(services'[b], c) /\ Uses(services'[d], c) => b = d
             /\ \A u, v \in DOMAIN my' :
                   Uses(my'[u], c) /\ Uses(my'[v], c) => u = v
             /\ \A b \in DOMAIN services', u \in DOMAIN my' :
                   ~(Uses(services'[b], c) /\ Uses(my'[u], c))
  <2>1. c \in DOMAIN conns \ Shared
    BY <1>2 DEF Shared
  <2> QED BY <1>2, <1>3, <1>4, <2>1 DEF OrphanInv, OrphanHasOneUser
<1>6. OrphanHasOneUser'
  BY <1>5 DEF OrphanHasOneUser, Uses
<1> QED BY <1>3, <1>6 DEF OrphanInv

(* The other steps of a call and of the router. *)
LEMMA OrphanStep == Inv /\ OrphanInv /\ [Next]_vars => OrphanInv'
<1> SUFFICES ASSUME Inv, OrphanInv, [Next]_vars PROVE OrphanInv'
  OBVIOUS
<1>1. ASSUME DOMAIN conns' = DOMAIN conns,
             DOMAIN connections \subseteq DOMAIN connections',
             \A k \in DOMAIN connections : connections'[k] = connections[k],
             \A a \in DOMAIN services' : a \in DOMAIN services /\ services'[a] = services[a],
             \A t \in DOMAIN my' : \/ /\ t \in DOMAIN my /\ my'[t] = my[t]
                                      /\ pc'[t] = "getConnection" => pc'[t] = pc[t]
                                   \/ pc'[t] = "manage" /\ my'[t].key = Managed
                                   \/ my'[t].connection = 0
      PROVE  OrphanInv'
  <2>1. Orphans' \subseteq Orphans
    BY <1>1, FewerOrphans
  <2>2. 0 \notin Orphans'
    BY <2>1 DEF Orphans, Inv, RegistryOK
  <2>3. OrphanHasOneUser'
    BY <1>1, <2>1, <2>2, NoNewUser DEF OrphanInv
  <2> QED BY <1>1, <2>3 DEF OrphanInv
<1>2. CASE UNCHANGED registry /\ UNCHANGED <<pc, my>>
  BY <1>1, <1>2 DEF registry
<1>3. CASE \/ (\E i \in Interfaces : RegisterInterface(i))
              \/ InitLock \/ InitNext \/ InitUnlock
           \/ \E t \in Threads, a \in Addresses : UnregisterStub(t, a)
           \/ UNCHANGED vars
  BY <1>2, <1>3 DEF RegisterInterface, InitLock, InitNext, InitUnlock, UnregisterStub,
                    ReleaseServiceName, threads, registry, vars
<1>4. ASSUME NEW t \in Threads, NEW k \in Keys, NEW a \in Addresses,
             RegisterStub(t, k, a)
      PROVE  OrphanInv'
  <2>1. /\ \E x : my' = Assign(my, t, x) /\ x.connection = 0
        /\ pc' = [pc EXCEPT ![t] = "getConnection"] /\ UNCHANGED registry
    BY <1>4 DEF RegisterStub, Goto
  <2>2. \A u \in DOMAIN my' : my'[u].connection = 0 \/
           (u # t /\ u \in DOMAIN my /\ my'[u] = my[u])
    BY <2>1 DEF Assign
  <2>3. \A u \in Threads : u # t => pc'[u] = pc[u]
    BY <2>1 DEF Inv, ThreadsOK
  <2>4. DOMAIN my \subseteq Threads
    BY DEF Inv, ThreadsOK
  <2> QED BY <1>1, <2>1, <2>2, <2>3, <2>4 DEF registry
<1>5. ASSUME NEW t \in Threads, NEW r \in Realms, CreateWampStubAdapter(t, r)
      PROVE  OrphanInv'
  <2>1. /\ \E x : my' = Assign(my, t, x) /\ x.key = Managed
        /\ pc' = [pc EXCEPT ![t] = "manage"] /\ UNCHANGED registry
    BY <1>5 DEF CreateWampStubAdapter, Goto
  <2>2. \A u \in DOMAIN my' : (u = t /\ my'[u].key = Managed) \/
           (u # t /\ u \in DOMAIN my /\ my'[u] = my[u])
    BY <2>1 DEF Assign
  <2>3. pc'[t] = "manage" /\ \A u \in Threads : u # t => pc'[u] = pc[u]
    BY <2>1 DEF Inv, ThreadsOK
  <2>4. DOMAIN my \subseteq Threads
    BY DEF Inv, ThreadsOK
  <2> QED BY <1>1, <2>1, <2>2, <2>3, <2>4 DEF registry
<1>6. ASSUME NEW t \in Threads,
             InsertConnection(t) \/ Connect(t) \/ ProvideRemoteMethods(t)
      PROVE  OrphanInv'
  <2>1. /\ my' = my /\ services' = services
        /\ connections' = connections \/ connections' = Entered(t)
        /\ \E c, s : conns' = conns \/ conns' = [conns EXCEPT ![c] = s]
        /\ \E label \in {"connect", "create", "add"} : pc' = [pc EXCEPT ![t] = label]
    BY <1>6 DEF InsertConnection, Connect, ProvideRemoteMethods, Goto
  <2>2. DOMAIN conns' = DOMAIN conns
    BY <2>1 DEF Inv, RegistryOK
  <2>3. /\ DOMAIN connections \subseteq DOMAIN connections'
        /\ \A k \in DOMAIN connections : connections'[k] = connections[k]
    BY <2>1 DEF Entered, Insert
  <2>4. \A u \in Threads : pc'[u] = "getConnection" => pc'[u] = pc[u]
    BY <2>1 DEF Inv, ThreadsOK
  <2>5. DOMAIN my \subseteq Threads
    BY DEF Inv, ThreadsOK
  <2> QED BY <1>1, <2>1, <2>2, <2>3, <2>4, <2>5
<1>7. ASSUME NEW t \in Threads, CreateAdapter(t)
      PROVE  OrphanInv'
  <2>1. /\ UNCHANGED registry
        /\ my' = my \/ my' = Erase(my, t)
        /\ \E label \in {"provide", "idle"} : pc' = [pc EXCEPT ![t] = label]
    BY <1>7 DEF CreateAdapter, Goto, Return
  <2>2. \A u \in DOMAIN my' : u \in DOMAIN my /\ my'[u] = my[u]
    BY <2>1 DEF Erase
  <2>3. \A u \in Threads : pc'[u] = "getConnection" => pc'[u] = pc[u]
    BY <2>1 DEF Inv, ThreadsOK
  <2>4. DOMAIN my \subseteq Threads
    BY DEF Inv, ThreadsOK
  <2> QED BY <1>1, <2>1, <2>2, <2>3, <2>4 DEF registry
<1>8. ASSUME NEW t \in Threads,
             EraseManagedService(t) \/ \E a \in Addresses : UnregisterManagedService(t, a)
      PROVE  OrphanInv'
  <2>1. /\ my' = my /\ conns' = conns /\ connections' = connections
        /\ \E label \in {"unmanage", "idle"} : pc' = [pc EXCEPT ![t] = label]
    BY <1>8 DEF EraseManagedService, UnregisterManagedService, Goto, registry
  <2>2. \A a \in DOMAIN services' : a \in DOMAIN services /\ services'[a] = services[a]
    BY <1>8 DEF EraseManagedService, UnregisterManagedService, Erase, registry
  <2>3. \A u \in DOMAIN my : pc'[u] = "getConnection" => pc'[u] = pc[u]
    BY <2>1 DEF Inv, ThreadsOK
  <2> QED BY <1>1, <2>1, <2>2, <2>3
<1>9. ASSUME NEW c \in DOMAIN conns, HandshakeEnds(c) \/ LoseTransport(c)
      PROVE  OrphanInv'
  BY <1>1, <1>9 DEF HandshakeEnds, LoseTransport, threads, Inv, RegistryOK
<1>10. ASSUME NEW t \in Threads, Step(t) PROVE OrphanInv'
  BY <1>6, <1>7, <1>8, <1>10, OrphanGetConnection, OrphanListing DEF Step
<1> QED BY <1>3, <1>4, <1>5, <1>8, <1>9, <1>10 DEF Next

(* A connection that lost the race to be entered is used by the one stub that
   it was made for, for any number of threads.                             *)
THEOREM OrphansHaveOneUser == Spec => []OrphanHasOneUser
<1>1. Init => Inv /\ OrphanInv
  <2>1. Init => OrphanInv
    BY DEF Init, Empty, OrphanInv, OrphanHasOneUser
  <2> QED BY <2>1, InvInit
<1>2. Inv /\ OrphanInv /\ [Next]_vars => (Inv /\ OrphanInv)'
  BY InvStep, OrphanStep
<1>3. OrphanInv => OrphanHasOneUser
  BY DEF OrphanInv
<1> QED BY <1>1, <1>2, <1>3, PTL DEF Spec

-----------------------------------------------------------------------------
(* Services are not replaced                                               *)

(* What a valid iterator leads to is still what its call has found there. *)
LeadsTo(x) == x.valid => /\ x.address \in DOMAIN services
                         /\ services[x.address] = x.adapter
FoundInv ==
    \A t \in DOMAIN found : /\ DOMAIN found[t] = {"address", "adapter", "valid"}
                            /\ LeadsTo(found[t])

(* How a step changes the services: it adds at most one where there was none, or
   takes one away through an iterator.                                     *)
LEMMA ServicesChange ==
    ASSUME [Next]_vars
    PROVE  \/ services' = services
           \/ \E a, x : services' = WithService(a, x) /\ found' = found
           \/ \E t \in Threads : EraseManagedService(t)
<1>1. CASE UNCHANGED vars
  BY <1>1 DEF vars
<1>2. ASSUME NEW t \in Threads, Step(t), ~EraseManagedService(t)
      PROVE  services' = services \/ \E a, x : services' = WithService(a, x) /\ found' = found
  BY <1>2 DEF Step, GetConnection, InsertConnection, Connect, CreateAdapter,
              ProvideRemoteMethods, RegisterStubAdapter, RegisterManagedService,
              registry, iterators
<1>3. CASE \/ \E i \in Interfaces : RegisterInterface(i)
           \/ InitLock \/ InitNext \/ InitUnlock
           \/ \E t \in Threads, k \in Keys, a \in Addresses : RegisterStub(t, k, a)
           \/ \E t \in Threads, r \in Realms : CreateWampStubAdapter(t, r)
           \/ \E t \in Threads, a \in Addresses :
                 UnregisterStub(t, a) \/ UnregisterManagedService(t, a)
           \/ \E c \in DOMAIN conns : HandshakeEnds(c) \/ LoseTransport(c)
  BY <1>3 DEF RegisterInterface, InitLock, InitNext, InitUnlock, RegisterStub,
              CreateWampStubAdapter, UnregisterStub, UnregisterManagedService,
              ReleaseServiceName, HandshakeEnds, LoseTransport, registry
<1> QED BY <1>1, <1>2, <1>3 DEF Next

(* An iterator is got by finding a service, and otherwise only lost. *)
LEMMA FoundChanges ==
    ASSUME [Next]_vars
    PROVE  \/ found' = found
           \/ \E t \in Threads, a \in Addresses : UnregisterManagedService(t, a)
           \/ \E t \in Threads : EraseManagedService(t)
<1>1. CASE UNCHANGED vars
  BY <1>1 DEF vars
<1>2. ASSUME NEW t \in Threads, Step(t), ~EraseManagedService(t)
      PROVE  found' = found
  BY <1>2 DEF Step, GetConnection, InsertConnection, Connect, CreateAdapter,
              ProvideRemoteMethods, RegisterStubAdapter, RegisterManagedService,
              iterators
<1>3. CASE \/ \E i \in Interfaces : RegisterInterface(i)
           \/ InitLock \/ InitNext \/ InitUnlock
           \/ \E t \in Threads, k \in Keys, a \in Addresses : RegisterStub(t, k, a)
           \/ \E t \in Threads, r \in Realms : CreateWampStubAdapter(t, r)
           \/ \E t \in Threads, a \in Addresses : UnregisterStub(t, a)
           \/ \E c \in DOMAIN conns : HandshakeEnds(c) \/ LoseTransport(c)
  BY <1>3 DEF RegisterInterface, InitLock, InitNext, InitUnlock, RegisterStub,
              CreateWampStubAdapter, UnregisterStub, HandshakeEnds, LoseTransport,
              threads, iterators
<1> QED BY <1>1, <1>2, <1>3 DEF Next

(* Erasing an element makes the other iterators to it invalid, and leaves the
   elements that the rest of them lead to.                                 *)
LEMMA FoundErase ==
    ASSUME Inv, FoundInv, NEW t \in Threads, EraseManagedService(t)
    PROVE  FoundInv'
<1>1. t \in DOMAIN found
  BY DEF EraseManagedService, At, Inv, ThreadsOK
<1>2. services' = services \/ services' = Erase(services, found[t].address)
  BY DEF EraseManagedService
<1>3. found' = Invalidated(t)
  BY DEF EraseManagedService
<1> SUFFICES ASSUME NEW u \in DOMAIN found'
             PROVE  /\ DOMAIN found'[u] = {"address", "adapter", "valid"}
                    /\ found'[u].valid =>
                          /\ found'[u].address \in DOMAIN services'
                          /\ services'[found'[u].address] = found'[u].adapter
  BY DEF FoundInv, LeadsTo
<1>4. u \in DOMAIN found /\ u # t
  BY <1>3 DEF Invalidated
<1>5. found'[u] = [found[u] EXCEPT !.valid = @ /\ found[u].address # found[t].address]
  BY <1>3, <1>4 DEF Invalidated
<1>6. /\ DOMAIN found'[u] = {"address", "adapter", "valid"}
      /\ found'[u].valid => found[u].valid /\ found[u].address # found[t].address
      /\ found'[u].address = found[u].address /\ found'[u].adapter = found[u].adapter
  BY <1>4, <1>5 DEF FoundInv
<1>7. found[u].valid => /\ found[u].address \in DOMAIN services
                        /\ services[found[u].address] = found[u].adapter
  BY <1>4 DEF FoundInv, LeadsTo
<1> QED BY <1>2, <1>6, <1>7 DEF Erase

(* No step leaves a valid iterator with nothing, or with another service. *)
LEMMA FoundStep == Inv /\ FoundInv /\ [Next]_vars => FoundInv'
<1> SUFFICES ASSUME Inv, FoundInv, [Next]_vars PROVE FoundInv'
  OBVIOUS
<1>1. CASE \E t \in Threads : EraseManagedService(t)
  BY <1>1, FoundErase
<1>2. CASE \E t \in Threads, a \in Addresses : UnregisterManagedService(t, a)
  <2>1. PICK t \in Threads, a \in Addresses : UnregisterManagedService(t, a)
    BY <1>2
  <2>2. /\ a \in DOMAIN services /\ services' = services
        /\ found' = Assign(found, t, [address |-> a, adapter |-> services[a],
                                      valid |-> TRUE])
    BY <2>1 DEF UnregisterManagedService, registry
  <2>3. /\ found'[t] = [address |-> a, adapter |-> services[a], valid |-> TRUE]
        /\ \A u \in DOMAIN found' : u # t => u \in DOMAIN found /\ found'[u] = found[u]
    BY <2>2 DEF Assign
  <2>4. ASSUME NEW u \in DOMAIN found'
        PROVE  DOMAIN found'[u] = {"address", "adapter", "valid"} /\ LeadsTo(found[u])'
    <3>1. CASE u = t
      <4> DEFINE x == [address |-> a, adapter |-> services[a], valid |-> TRUE]
      <4>1. found'[u] = x
        BY <2>3, <3>1
      <4>2. /\ DOMAIN x = {"address", "adapter", "valid"}
            /\ x.address = a /\ x.adapter = services[a]
        OBVIOUS
      <4> HIDE DEF x
      <4> QED BY <2>2, <4>1, <4>2 DEF LeadsTo
    <3>2. CASE u # t
      <4>1. u \in DOMAIN found /\ found'[u] = found[u]
        BY <2>3, <2>4, <3>2
      <4>2. DOMAIN found[u] = {"address", "adapter", "valid"} /\ LeadsTo(found[u])
        BY <4>1 DEF FoundInv
      <4> QED BY <2>2, <4>1, <4>2 DEF LeadsTo
    <3> QED BY <3>1, <3>2
  <2> QED BY <2>4 DEF FoundInv
<1>3. CASE found' = found /\ \A t \in Threads : ~EraseManagedService(t)
  <2>1. \A a \in DOMAIN services : a \in DOMAIN services' /\ services'[a] = services[a]
    BY <1>3, ServicesChange DEF WithService, Insert
  <2> QED BY <1>3, <2>1 DEF FoundInv, LeadsTo
<1> QED BY <1>1, <1>2, <1>3, FoundChanges

(* A registered service is never replaced by a later registration for the same
   address, by whichever of the two ways it is registered; it goes only through
   an unregisterManagedService that has found this very service, whatever other
   threads register and erase between its find() and its erase().          *)
THEOREM ServicesAreKept == Spec => ServiceKept
<1> DEFINE Kept == \A a \in DOMAIN services :
                      IF a \in DOMAIN services'
                      THEN services'[a] = services[a]
                      ELSE \E t \in Threads :
                              Found(t, a) /\ found[t].adapter = services[a]
<1>1. ASSUME Inv, FoundInv, [Next]_vars PROVE Kept
  <2>1. CASE services' = services
    BY <2>1
  <2>2. CASE \E a, x : services' = WithService(a, x)
    BY <2>2 DEF WithService, Insert
  <2>3. ASSUME NEW t \in Threads, EraseManagedService(t) PROVE Kept
    <3>1. t \in DOMAIN found /\ At(t, "unmanage")
      BY <1>1, <2>3 DEF EraseManagedService, At, Inv, ThreadsOK
    <3>2. CASE ~found[t].valid
      BY <2>1, <2>3, <3>2 DEF EraseManagedService
    <3>3. CASE found[t].valid
      <4>1. services' = Erase(services, found[t].address)
        BY <2>3, <3>3 DEF EraseManagedService
      <4>2. services[found[t].address] = found[t].adapter
        BY <1>1, <3>1, <3>3 DEF FoundInv, LeadsTo
      <4>3. \A a \in DOMAIN services : a # found[t].address =>
               a \in DOMAIN services' /\ services'[a] = services[a]
        BY <4>1 DEF Erase
      <4>4. found[t].address \notin DOMAIN services'
        BY <4>1 DEF Erase
      <4> QED BY <3>1, <4>2, <4>3, <4>4 DEF Found
    <3> QED BY <3>2, <3>3
  <2> QED BY <1>1, <2>1, <2>2, <2>3, ServicesChange
<1>2. Inv /\ FoundInv /\ [Next]_vars => [Kept]_vars
  BY <1>1
<1>3. Init => Inv /\ FoundInv
  <2>1. Init => FoundInv
    BY DEF Init, Empty, FoundInv
  <2> QED BY <2>1, InvInit
<1>4. Inv /\ FoundInv /\ [Next]_vars => (Inv /\ FoundInv)'
  BY InvStep, FoundStep
<1> QED BY <1>2, <1>3, <1>4, PTL DEF Spec, ServiceKept

-----------------------------------------------------------------------------
(* Connections are kept, and fit those who use them                        *)

(* What may become of a connection once it is started. *)
Follows(s, q) == \/ q = s
                 \/ s = "connecting" /\ q \in {"connected", "failed", "stopped"}
                 \/ s = "connected" /\ q = "stopped"

ConnsFollow == \A c \in DOMAIN conns : c \in DOMAIN conns' /\ Follows(conns[c], conns'[c])

(* Only connect() sets a connection to work, and no step takes one back. *)
LEMMA ConnectionsFollow ==
    ASSUME Inv, [Next]_vars
    PROVE  ConnsFollow \/ \E t \in Threads : Connect(t)
<1>1. conns \in Seq(ConnStates)
  BY DEF Inv, RegistryOK
<1>2. ASSUME conns' = conns PROVE ConnsFollow
  BY <1>2 DEF ConnsFollow, Follows
<1>3. ASSUME NEW c \in DOMAIN conns, NEW q, Follows(conns[c], q),
             conns' = [conns EXCEPT ![c] = q]
      PROVE  ConnsFollow
  BY <1>1, <1>3 DEF ConnsFollow, Follows
<1>4. ASSUME NEW t \in Threads, GetConnection(t) PROVE ConnsFollow
  <2>1. conns' = conns \/ conns' = Append(conns, "new")
    BY <1>4 DEF GetConnection
  <2>2. CASE conns' = Append(conns, "new")
    BY <1>1, <2>2 DEF ConnsFollow, Follows
  <2> QED BY <1>2, <2>1, <2>2
<1>5. ASSUME NEW t \in Threads, ProvideRemoteMethods(t) PROVE ConnsFollow
  <2> DEFINE c == my[t].connection
  <2>1. c \in DOMAIN conns /\ conns[c] = "connected"
        /\ (conns' = conns \/ conns' = [conns EXCEPT ![c] = "stopped"])
    BY <1>5 DEF ProvideRemoteMethods, At, Inv, ThreadsOK, Unheld, HasConnection
  <2>2. Follows(conns[c], "stopped")
    BY <2>1 DEF Follows
  <2> HIDE DEF c
  <2> QED BY <1>2, <1>3, <2>1, <2>2
<1>6. ASSUME NEW c \in DOMAIN conns, HandshakeEnds(c) \/ LoseTransport(c)
      PROVE  ConnsFollow
  <2>1. PICK q : Follows(conns[c], q) /\ conns' = [conns EXCEPT ![c] = q]
    BY <1>6 DEF HandshakeEnds, LoseTransport, Follows
  <2> QED BY <1>3, <2>1
<1>7. ASSUME NEW t \in Threads,
             \/ InsertConnection(t) \/ CreateAdapter(t) \/ RegisterStubAdapter(t)
             \/ RegisterManagedService(t) \/ EraseManagedService(t)
             \/ \E k \in Keys, a \in Addresses : RegisterStub(t, k, a)
             \/ \E r \in Realms : CreateWampStubAdapter(t, r)
             \/ \E a \in Addresses :
                   UnregisterStub(t, a) \/ UnregisterManagedService(t, a)
      PROVE  ConnsFollow
  <2>1. conns' = conns
    BY <1>7 DEF InsertConnection, CreateAdapter, RegisterStubAdapter,
                RegisterManagedService, EraseManagedService, RegisterStub,
                CreateWampStubAdapter, UnregisterStub, UnregisterManagedService,
                registry
  <2> QED BY <1>2, <2>1
<1>8. CASE \/ \E i \in Interfaces : RegisterInterface(i)
           \/ InitLock \/ InitNext \/ InitUnlock \/ UNCHANGED vars
  <2>1. conns' = conns
    BY <1>8 DEF RegisterInterface, InitLock, InitNext, InitUnlock, registry, vars
  <2> QED BY <1>2, <2>1
<1> QED BY <1>4, <1>5, <1>6, <1>7, <1>8 DEF Next, Step

(* connect() is called on a connection that is new, and changes no other. *)
LEMMA ConnectChanges ==
    ASSUME Inv, ServedInv, NEW t \in Threads, Connect(t)
    PROVE  /\ t \in DOMAIN my /\ pc[t] = "connect" /\ my[t].key \in Keys
           /\ my[t].connection \in DOMAIN conns /\ conns[my[t].connection] = "new"
           /\ DOMAIN conns' = DOMAIN conns
           /\ conns'[my[t].connection] \in Connected(my[t].key)
           /\ \A c \in DOMAIN conns : c # my[t].connection => conns'[c] = conns[c]
           /\ \A u \in DOMAIN my : /\ u # t
                                   /\ pc[u] \in Making
                                   => my[u].connection # my[t].connection
<1>1. /\ t \in DOMAIN my /\ pc[t] = "connect" /\ my[t].key \in Keys
      /\ my[t].connection \in DOMAIN conns
  BY DEF Connect, At, Inv, ThreadsOK, Unheld, HasConnection, Locals
<1>2. /\ conns[my[t].connection] = "new"
      /\ \A u \in DOMAIN my : u # t /\ pc[u] \in Making =>
            my[u].connection # my[t].connection
  BY <1>1 DEF ServedInv, Making
<1>3. PICK q \in Connected(my[t].key) : conns' = [conns EXCEPT ![my[t].connection] = q]
  BY DEF Connect
<1>4. /\ DOMAIN conns' = DOMAIN conns
      /\ conns'[my[t].connection] \in Connected(my[t].key)
      /\ \A c \in DOMAIN conns : c # my[t].connection => conns'[c] = conns[c]
  BY <1>1, <1>3 DEF Inv, RegistryOK
<1> QED BY <1>1, <1>2, <1>4

(* An entry is made by one step only, which leaves those that are there. *)
LEMMA EntriesStay ==
    ASSUME [Next]_vars
    PROVE  \/ connections' = connections
           \/ \E t \in Threads : InsertConnection(t) /\ connections' = Entered(t)
<1>1. ASSUME NEW t \in Threads, Step(t)
      PROVE  \/ connections' = connections
             \/ InsertConnection(t) /\ connections' = Entered(t)
  BY <1>1 DEF Step, GetConnection, InsertConnection, Connect, CreateAdapter,
              ProvideRemoteMethods, RegisterStubAdapter, RegisterManagedService,
              EraseManagedService, registry
<1>2. ASSUME NEW t \in Threads,
             \/ \E k \in Keys, a \in Addresses : RegisterStub(t, k, a)
             \/ \E r \in Realms : CreateWampStubAdapter(t, r)
             \/ \E a \in Addresses :
                   UnregisterStub(t, a) \/ UnregisterManagedService(t, a)
      PROVE  connections' = connections
  BY <1>2 DEF RegisterStub, CreateWampStubAdapter, UnregisterStub,
              UnregisterManagedService, registry
<1>3. CASE \/ \E i \in Interfaces : RegisterInterface(i)
           \/ InitLock \/ InitNext \/ InitUnlock
           \/ \E c \in DOMAIN conns : HandshakeEnds(c) \/ LoseTransport(c)
           \/ UNCHANGED vars
  BY <1>3 DEF RegisterInterface, InitLock, InitNext, InitUnlock, HandshakeEnds,
              LoseTransport, registry, vars
<1> QED BY <1>1, <1>2, <1>3 DEF Next

(* What the factory has entered for an id or a context is never replaced, and
   once it has stopped it stays so, for any threads and any router.        *)
THEOREM EntriesAreForGood == Spec => CachedForGood
<1> DEFINE Stays == \A k \in DOMAIN connections :
                       /\ k \in DOMAIN connections' /\ connections'[k] = connections[k]
                       /\ conns[connections[k]] = "stopped" =>
                             conns'[connections[k]] = "stopped"
<1>1. ASSUME Inv, ServedInv, [Next]_vars PROVE Stays
  <2>1. \A k \in DOMAIN connections :
           k \in DOMAIN connections' /\ connections'[k] = connections[k]
    BY <1>1, EntriesStay DEF Entered, Insert
  <2>2. \A k \in DOMAIN connections : connections[k] \in DOMAIN conns
    BY <1>1 DEF Inv, RegistryOK
  <2>3. \A c \in DOMAIN conns : conns[c] = "stopped" => conns'[c] = "stopped"
    <3>1. CASE ConnsFollow
      BY <3>1 DEF ConnsFollow, Follows
    <3>2. CASE \E t \in Threads : Connect(t)
      BY <1>1, <3>2, ConnectChanges
    <3> QED BY <1>1, <3>1, <3>2, ConnectionsFollow
  <2> QED BY <2>1, <2>2, <2>3
<1>2. Inv /\ ServedInv /\ [Next]_vars => [Stays]_vars
  BY <1>1
<1>3. Init => Inv /\ ServedInv
  BY InvInit, ServedInit
<1>4. Inv /\ ServedInv /\ [Next]_vars => (Inv /\ ServedInv)'
  BY InvStep, ServedStep
<1> QED BY <1>2, <1>3, <1>4, PTL DEF Spec, CachedForGood

(* Where a call has got its connection and not yet got past it. *)
Holding == Making \cup {"create", "provide"}

(* Who comes upon a connection that is not started: it is entered, and the call
   that made it is at connect(); and whoever has it, by entry or by call, has it
   for the key that it was made for.                                       *)
StartInv ==
    /\ \A k \in DOMAIN connections :
          conns[connections[k]] = "new" => Starting(connections[k])
    /\ \A t \in DOMAIN my :
          pc[t] \in Holding \ Making /\ conns[my[t].connection] = "new" =>
             Starting(my[t].connection)
    /\ \A t \in DOMAIN my, k \in DOMAIN connections :
          pc[t] \in Making /\ connections[k] = my[t].connection => k = my[t].key
    /\ \A t, u \in DOMAIN my :
          pc[t] \in Making /\ pc[u] \in Holding /\ my[u].connection = my[t].connection =>
             my[u].key = my[t].key

(* It is kept by steps that move no maker, enter nothing and bring no call to a
   connection.                                                             *)
LEMMA StartOnward ==
    ASSUME Inv, StartInv, ConnsFollow, connections' = connections,
           \A t \in DOMAIN my : pc[t] \in Making =>
              t \in DOMAIN my' /\ my'[t] = my[t] /\ pc'[t] = pc[t],
           \A t \in DOMAIN my' : pc'[t] \in Holding =>
              /\ t \in DOMAIN my /\ my'[t] = my[t] /\ pc[t] \in Holding
              /\ pc'[t] \in Making <=> pc[t] \in Making
    PROVE  StartInv'
<1>1. \A c \in DOMAIN conns : conns'[c] = "new" => conns[c] = "new"
  BY DEF ConnsFollow, Follows
<1>2. \A c : Starting(c) => Starting(c)'
  BY DEF Starting, At, Inv, ThreadsOK, Unheld, Making
<1>3. /\ \A k \in DOMAIN connections : connections[k] \in DOMAIN conns
      /\ \A t \in DOMAIN my : pc[t] \in Holding => my[t].connection \in DOMAIN conns
  BY DEF Inv, RegistryOK, ThreadsOK, HasConnection, Holding, Making
<1>4. \A k \in DOMAIN connections' :
         conns'[connections'[k]] = "new" => Starting(connections[k])'
  BY <1>1, <1>2, <1>3 DEF StartInv, Starting
<1>5. ASSUME NEW t \in DOMAIN my', pc'[t] \in Holding \ Making,
             conns'[my'[t].connection] = "new"
      PROVE  Starting(my[t].connection)'
  <2>1. t \in DOMAIN my /\ my'[t] = my[t] /\ pc[t] \in Holding \ Making
    BY <1>5
  <2>2. Starting(my[t].connection)
    BY <1>1, <1>3, <1>5, <2>1 DEF StartInv
  <2> QED BY <1>2, <2>1, <2>2 DEF Starting
<1>6. \A t \in DOMAIN my', k \in DOMAIN connections' :
         pc'[t] \in Making /\ connections'[k] = my'[t].connection => k = my'[t].key
  BY DEF StartInv, Holding
<1>7. \A t, u \in DOMAIN my' :
         pc'[t] \in Making /\ pc'[u] \in Holding /\ my'[u].connection = my'[t].connection
         => my'[u].key = my'[t].key
  BY DEF StartInv, Holding
<1> QED BY <1>4, <1>5, <1>6, <1>7 DEF StartInv

(* A thread finds what is entered for its key, or makes a connection that nobody
   else has.                                                               *)
LEMMA StartGetConnection ==
    ASSUME Inv, StartInv, NEW t \in Threads, GetConnection(t)
    PROVE  StartInv'
<1>1. t \in DOMAIN my /\ my[t] \in Locals /\ DOMAIN my \subseteq Threads
      /\ pc[t] = "getConnection" /\ connections' = connections
  BY DEF GetConnection, At, Inv, ThreadsOK, Unheld
<1>2. /\ DOMAIN my' = DOMAIN my /\ my'[t].key = my[t].key
      /\ \A u \in DOMAIN my : u # t => my'[u] = my[u] /\ pc'[u] = pc[u]
  BY <1>1 DEF GetConnection, Goto, Inv, ThreadsOK, Locals
<1>3. /\ \A k \in DOMAIN connections : connections[k] \in DOMAIN conns
      /\ \A u \in DOMAIN my : pc[u] \in Holding => my[u].connection \in DOMAIN conns
  BY DEF Inv, RegistryOK, ThreadsOK, HasConnection, Holding, Making
<1>4. \A c : Starting(c) => Starting(c)'
  BY <1>1, <1>2 DEF Starting, At, Inv, ThreadsOK, Unheld
<1>5. CASE my[t].key \in DOMAIN connections
  <2> DEFINE c == connections[my[t].key]
  <2>1. /\ my' = [my EXCEPT ![t].connection = c]
        /\ pc' = [pc EXCEPT ![t] = "create"] /\ conns' = conns
    BY <1>5 DEF GetConnection, Goto
  <2>2. pc'[t] \in Holding \ Making /\ my'[t].connection = c
    BY <1>1, <2>1 DEF Inv, ThreadsOK, Locals, Holding, Making
  <2>3. \A k \in DOMAIN connections' :
           conns'[connections'[k]] = "new" => Starting(connections[k])'
    BY <1>1, <1>4, <2>1 DEF StartInv, Starting
  <2>4. ASSUME NEW u \in DOMAIN my', pc'[u] \in Holding \ Making,
               conns'[my'[u].connection] = "new"
        PROVE  Starting(my[u].connection)'
    <3>1. CASE u = t
      BY <1>1, <1>5, <2>1, <2>2, <2>3, <2>4, <3>1 DEF Starting
    <3>2. CASE u # t
      <4>1. Starting(my[u].connection)
        BY <1>2, <2>1, <2>4, <3>2 DEF StartInv
      <4> QED BY <1>2, <1>4, <3>2, <4>1 DEF Starting
    <3> QED BY <3>1, <3>2
  <2>5. \A u \in DOMAIN my' : pc'[u] \in Making => u # t
    BY <2>2
  <2>6. \A u \in DOMAIN my', k \in DOMAIN connections' :
           pc'[u] \in Making /\ connections'[k] = my'[u].connection => k = my'[u].key
    BY <1>1, <1>2, <2>5 DEF StartInv
  <2>7. \A u, v \in DOMAIN my' :
           pc'[u] \in Making /\ pc'[v] \in Holding
           /\ my'[v].connection = my'[u].connection => my'[v].key = my'[u].key
    BY <1>1, <1>2, <1>5, <2>2, <2>5, <2>6 DEF StartInv
  <2> HIDE DEF c
  <2> QED BY <2>3, <2>4, <2>6, <2>7 DEF StartInv
<1>6. CASE my[t].key \notin DOMAIN connections
  <2> DEFINE c == Len(conns) + 1
  <2>1. /\ my' = [my EXCEPT ![t].connection = c]
        /\ pc' = [pc EXCEPT ![t] = "insert"] /\ conns' = Append(conns, "new")
    BY <1>6 DEF GetConnection, Goto
  <2>2. pc'[t] = "insert" /\ my'[t].connection = c
    BY <1>1, <2>1 DEF Inv, ThreadsOK, Locals
  <2>3. c \notin DOMAIN conns /\ \A d \in DOMAIN conns : conns'[d] = conns[d]
    BY <2>1 DEF Inv, RegistryOK
  <2> HIDE DEF c
  <2>4. \A k \in DOMAIN connections' :
           conns'[connections'[k]] = "new" => Starting(connections[k])'
    BY <1>1, <1>3, <1>4, <2>3 DEF StartInv, Starting
  <2>5. ASSUME NEW u \in DOMAIN my', pc'[u] \in Holding \ Making,
               conns'[my'[u].connection] = "new"
        PROVE  Starting(my[u].connection)'
    <3>1. u # t
      BY <2>2, <2>5 DEF Making
    <3>2. Starting(my[u].connection)
      BY <1>2, <1>3, <2>3, <2>5, <3>1 DEF StartInv
    <3> QED BY <1>2, <1>4, <3>1, <3>2 DEF Starting
  <2>6. \A u \in DOMAIN my', k \in DOMAIN connections' :
           pc'[u] \in Making /\ connections'[k] = my'[u].connection => k = my'[u].key
    BY <1>1, <1>2, <1>3, <2>2, <2>3 DEF StartInv
  <2>7. \A u, v \in DOMAIN my' :
           pc'[u] \in Making /\ pc'[v] \in Holding
           /\ my'[v].connection = my'[u].connection => my'[v].key = my'[u].key
    BY <1>1, <1>2, <1>3, <2>2, <2>3 DEF StartInv, Holding
  <2> QED BY <2>4, <2>5, <2>6, <2>7 DEF StartInv
<1> QED BY <1>5, <1>6

(* What is entered is about to be started by the thread that enters it. *)
LEMMA StartInsert ==
    ASSUME Inv, ServedInv, StartInv, NEW t \in Threads, InsertConnection(t)
    PROVE  StartInv'
<1> DEFINE c == my[t].connection
           k == my[t].key
<1>1. t \in DOMAIN my /\ pc[t] \in Making /\ DOMAIN my \subseteq Threads
  BY DEF InsertConnection, At, Inv, ThreadsOK, Unheld, Making
<1>2. /\ my' = my /\ conns' = conns /\ pc'[t] = "connect"
      /\ \A u \in Threads : u # t => pc'[u] = pc[u]
  BY DEF InsertConnection, Goto, Inv, ThreadsOK
<1>3. \A u \in DOMAIN my : /\ pc'[u] \in Making <=> pc[u] \in Making
                           /\ pc'[u] \in Holding <=> pc[u] \in Holding
  BY <1>1, <1>2 DEF Making, Holding
<1>4. \A d : Starting(d) => Starting(d)'
  BY <1>1, <1>2 DEF Starting, At
<1>5. Starting(my[t].connection)'
  BY <1>2 DEF Starting, At
<1>6. \A j \in DOMAIN connections' :
         \/ j \in DOMAIN connections /\ connections'[j] = connections[j]
         \/ j = k /\ connections'[j] = c
  BY DEF InsertConnection, Entered, Insert
<1>7. \A j \in DOMAIN connections' :
         conns'[connections'[j]] = "new" => Starting(connections[j])'
  BY <1>2, <1>4, <1>5, <1>6 DEF StartInv, Starting
<1>8. \A u \in DOMAIN my' : pc'[u] \in Holding \ Making /\ conns'[my'[u].connection] = "new"
         => Starting(my[u].connection)'
  BY <1>2, <1>3, <1>4 DEF StartInv, Starting
<1>9. \A u \in DOMAIN my : pc[u] \in Making /\ my[u].connection = c => u = t
  BY <1>1 DEF ServedInv
<1>10. \A u \in DOMAIN my', j \in DOMAIN connections' :
          pc'[u] \in Making /\ connections'[j] = my'[u].connection => j = my'[u].key
  BY <1>2, <1>3, <1>6, <1>9 DEF StartInv
<1>11. \A u, v \in DOMAIN my' :
          pc'[u] \in Making /\ pc'[v] \in Holding
          /\ my'[v].connection = my'[u].connection => my'[v].key = my'[u].key
  BY <1>2, <1>3 DEF StartInv
<1> HIDE DEF c, k
<1> QED BY <1>7, <1>8, <1>10, <1>11 DEF StartInv

(* Once it is started its maker is a user like any other. *)
LEMMA StartConnect ==
    ASSUME Inv, ServedInv, StartInv, NEW t \in Threads, Connect(t)
    PROVE  StartInv'
<1> DEFINE c == my[t].connection
<1>1. /\ t \in DOMAIN my /\ pc[t] = "connect" /\ c \in DOMAIN conns
      /\ conns'[c] \in Connected(my[t].key)
      /\ \A d \in DOMAIN conns : d # c => conns'[d] = conns[d]
      /\ \A u \in DOMAIN my : u # t /\ pc[u] \in Making => my[u].connection # c
      /\ DOMAIN my = {u \in Threads : pc[u] \notin Unheld}
  BY ConnectChanges DEF Inv, ThreadsOK
<1>2. conns'[c] # "new"
  BY <1>1 DEF Connected
<1>3. /\ my' = my /\ connections' = connections /\ pc'[t] = "create"
      /\ \A u \in Threads : u # t => pc'[u] = pc[u]
  BY DEF Connect, Goto, Inv, ThreadsOK
<1>4. /\ \A u \in DOMAIN my : pc'[u] \in Making <=> u # t /\ pc[u] \in Making
      /\ \A u \in DOMAIN my : pc'[u] \in Holding <=> pc[u] \in Holding
  BY <1>1, <1>3 DEF Making, Holding
<1>5. \A d : d # c /\ Starting(d) => Starting(d)'
  BY <1>1, <1>3 DEF Starting, At
<1>6. /\ \A k \in DOMAIN connections : connections[k] \in DOMAIN conns
      /\ \A u \in DOMAIN my : pc[u] \in Holding => my[u].connection \in DOMAIN conns
  BY DEF Inv, RegistryOK, ThreadsOK, HasConnection, Holding, Making
<1>7. \A k \in DOMAIN connections' :
         conns'[connections'[k]] = "new" => Starting(connections[k])'
  BY <1>1, <1>2, <1>3, <1>5, <1>6 DEF StartInv, Starting
<1>8. ASSUME NEW u \in DOMAIN my', pc'[u] \in Holding \ Making,
             conns'[my'[u].connection] = "new"
      PROVE  Starting(my[u].connection)'
  <2>1. u # t /\ my[u].connection # c /\ pc[u] \in Holding \ Making
        /\ conns[my[u].connection] = "new"
    BY <1>1, <1>2, <1>3, <1>4, <1>6, <1>8
  <2>2. Starting(my[u].connection)
    BY <1>3, <1>8, <2>1 DEF StartInv
  <2> QED BY <1>3, <1>5, <2>1, <2>2 DEF Starting
<1>9. \A u \in DOMAIN my', k \in DOMAIN connections' :
         pc'[u] \in Making /\ connections'[k] = my'[u].connection => k = my'[u].key
  BY <1>3, <1>4 DEF StartInv
<1>10. \A u, v \in DOMAIN my' :
          pc'[u] \in Making /\ pc'[v] \in Holding
          /\ my'[v].connection = my'[u].connection => my'[v].key = my'[u].key
  BY <1>3, <1>4 DEF StartInv
<1> HIDE DEF c
<1> QED BY <1>7, <1>8, <1>9, <1>10 DEF StartInv

(* All other steps leave those who have a connection where they are, or take them
   past it.                                                                *)
LEMMA StartStep == Inv /\ ServedInv /\ StartInv /\ [Next]_vars => StartInv'
<1> SUFFICES ASSUME Inv, ServedInv, StartInv, [Next]_vars PROVE StartInv'
  OBVIOUS
<1>1. CASE \E t \in Threads : GetConnection(t) \/ InsertConnection(t) \/ Connect(t)
  BY <1>1, StartGetConnection, StartInsert, StartConnect
<1>2. ASSUME \A t \in Threads : ~(GetConnection(t) \/ InsertConnection(t) \/ Connect(t))
      PROVE  StartInv'
  <2>1. ConnsFollow /\ connections' = connections
    BY <1>2, ConnectionsFollow, EntriesStay
  <2>2. DOMAIN my = {t \in Threads : pc[t] \notin Unheld}
    BY DEF Inv, ThreadsOK
  <2>3. CASE UNCHANGED <<pc, my>>
    BY <2>1, <2>3, StartOnward
  <2>4. ASSUME NEW t \in Threads, pc[t] \notin Making,
               NEW label, pc' = [pc EXCEPT ![t] = label],
               label \in Holding =>
                  label = "provide" /\ pc[t] = "create" /\ my' = my,
               \/ my' = my \/ my' = Erase(my, t) \/ \E x : my' = Assign(my, t, x)
        PROVE  StartInv'
    <3>1. pc'[t] = label /\ \A u \in DOMAIN my : u # t => pc'[u] = pc[u]
      BY <2>2, <2>4 DEF Inv, ThreadsOK
    <3>2. \A u : u # t => /\ u \in DOMAIN my' <=> u \in DOMAIN my
                          /\ u \in DOMAIN my => my'[u] = my[u]
      BY <2>4 DEF Erase, Assign
    <3>3. \A u \in DOMAIN my : pc[u] \in Making =>
             u \in DOMAIN my' /\ my'[u] = my[u] /\ pc'[u] = pc[u]
      BY <2>4, <3>1, <3>2
    <3>4. label = "provide" => label \in Holding \ Making
      BY DEF Holding, Making
    <3>5. "create" \in Holding \ Making
      BY DEF Holding, Making
    <3>6. ASSUME NEW u \in DOMAIN my', pc'[u] \in Holding
          PROVE  /\ u \in DOMAIN my /\ my'[u] = my[u] /\ pc[u] \in Holding
                 /\ pc'[u] \in Making <=> pc[u] \in Making
      <4>1. CASE u = t
        BY <2>4, <3>1, <3>4, <3>5, <3>6, <4>1
      <4>2. CASE u # t
        BY <3>1, <3>2, <3>6, <4>2
      <4> QED BY <4>1, <4>2
    <3> QED BY <2>1, <3>3, <3>6, StartOnward
  <2>5. ASSUME NEW t \in Threads,
               \/ Step(t)
               \/ \E k \in Keys, a \in Addresses : RegisterStub(t, k, a)
               \/ \E r \in Realms : CreateWampStubAdapter(t, r)
               \/ \E a \in Addresses : UnregisterManagedService(t, a)
        PROVE  StartInv'
    <3>1. pc[t] \notin Making
      BY <1>2, <2>5 DEF Step, CreateAdapter, ProvideRemoteMethods, RegisterStubAdapter,
              RegisterManagedService, EraseManagedService, RegisterStub,
              CreateWampStubAdapter, UnregisterManagedService, Begin, At, Making
    <3>2. \/ my' = my \/ my' = Erase(my, t) \/ \E x : my' = Assign(my, t, x)
      BY <1>2, <2>5 DEF Step, CreateAdapter, ProvideRemoteMethods, RegisterStubAdapter,
              RegisterManagedService, EraseManagedService, RegisterStub,
              CreateWampStubAdapter, UnregisterManagedService, Return
    <3>3. PICK label : /\ pc' = [pc EXCEPT ![t] = label]
                       /\ \/ label \in {"add", "idle", "getConnection", "manage",
                                        "unmanage"}
                          \/ label = "provide" /\ pc[t] = "create" /\ my' = my
      BY <1>2, <2>5 DEF Step, CreateAdapter, ProvideRemoteMethods, RegisterStubAdapter,
              RegisterManagedService, EraseManagedService, RegisterStub,
              CreateWampStubAdapter, UnregisterManagedService, Return, Goto, At
    <3>4. label \in Holding => label = "provide" /\ pc[t] = "create" /\ my' = my
      BY <3>3 DEF Holding, Making
    <3> QED BY <2>4, <3>1, <3>2, <3>3, <3>4
  <2>6. CASE \/ \E t \in Threads, a \in Addresses : UnregisterStub(t, a)
             \/ \E c \in DOMAIN conns : HandshakeEnds(c) \/ LoseTransport(c)
             \/ \E i \in Interfaces : RegisterInterface(i)
             \/ InitLock \/ InitNext \/ InitUnlock \/ UNCHANGED vars
    <3>1. UNCHANGED <<pc, my>>
      BY <2>6 DEF UnregisterStub, HandshakeEnds, LoseTransport, RegisterInterface,
                  InitLock, InitNext, InitUnlock, vars, threads
    <3> QED BY <2>3, <3>1
  <2> QED BY <2>5, <2>6 DEF Next
<1> QED BY <1>1, <1>2

(* Who may meet which connection at which place of its call: a stub for an id
   one that gets a thread, a stub for a context one that gets none, and who is past
   provideRemoteMethods one that was joined.                               *)
Joined(k, s) == k \notin Contexts /\ s \in {"connected", "stopped"}
Suits(k, s) == /\ k \in Ids => s \in {"new", "connecting", "connected", "failed",
                                      "stopped"}
               /\ k \in Contexts => s \in {"new", "unserved"}
Fits(label, k, s) == /\ label \in {"create", "provide"} => Suits(k, s)
                     /\ label \in {"add", "manage"} => Joined(k, s)

(* OnlyServedConnections is not inductive: it says nothing of the entries that
   later calls find, nor of a call before and after it waits.              *)
UsableInv ==
    /\ \A k \in DOMAIN connections : Suits(k, conns[connections[k]])
    /\ \A t \in DOMAIN my : Fits(pc[t], my[t].key, conns[my[t].connection])
    /\ \A a \in DOMAIN services : Joined(services[a].key, conns[services[a].connection])

(* A connection that fits goes on to fit, wherever it gets to. *)
LEMMA FitsOnward ==
    ASSUME NEW k, NEW s, NEW q, Follows(s, q)
    PROVE  /\ Joined(k, s) => Joined(k, q)
           /\ Suits(k, s) /\ k \in Keys => Suits(k, q)
BY DEF Joined, Suits, Follows, Keys

(* A step keeps UsableInv if what it brings, an entry, a place in a call or a
   service, fits the connection it comes with.                             *)
LEMMA UsableOnward ==
    ASSUME Inv, UsableInv, ConnsFollow,
           \A k \in DOMAIN connections' :
              \/ k \in DOMAIN connections /\ connections'[k] = connections[k]
              \/ Suits(k, conns'[connections'[k]]),
           \A t \in DOMAIN my' :
              \/ t \in DOMAIN my /\ my'[t] = my[t] /\ pc'[t] = pc[t]
              \/ Fits(pc'[t], my'[t].key, conns'[my'[t].connection]),
           \A a \in DOMAIN services' :
              \/ a \in DOMAIN services /\ services'[a] = services[a]
              \/ Joined(services'[a].key, conns'[services'[a].connection])
    PROVE  UsableInv'
<1>1. ASSUME NEW k \in DOMAIN connections'
      PROVE  Suits(k, conns'[connections'[k]])
  <2>1. CASE k \in DOMAIN connections /\ connections'[k] = connections[k]
    <3>1. k \in Keys /\ connections[k] \in DOMAIN conns
          /\ Suits(k, conns[connections[k]])
      BY <2>1 DEF Inv, RegistryOK, UsableInv
    <3> QED BY <2>1, <3>1, FitsOnward DEF ConnsFollow
  <2> QED BY <1>1, <2>1
<1>2. ASSUME NEW t \in DOMAIN my'
      PROVE  Fits(pc'[t], my'[t].key, conns'[my'[t].connection])
  <2>1. CASE t \in DOMAIN my /\ my'[t] = my[t] /\ pc'[t] = pc[t]
    <3>1. /\ pc[t] \in HasConnection => my[t].connection \in DOMAIN conns
          /\ pc[t] \in {"create", "provide"} => my[t].key \in Keys
          /\ Fits(pc[t], my[t].key, conns[my[t].connection])
      BY <2>1 DEF Inv, ThreadsOK, Locals, UsableInv
    <3>2. CASE pc[t] \in HasConnection
      BY <2>1, <3>1, <3>2, FitsOnward DEF ConnsFollow, Fits
    <3>3. CASE pc[t] \notin HasConnection
      BY <2>1, <3>3 DEF Fits, HasConnection
    <3> QED BY <3>2, <3>3
  <2> QED BY <1>2, <2>1
<1>3. ASSUME NEW a \in DOMAIN services'
      PROVE  Joined(services'[a].key, conns'[services'[a].connection])
  <2>1. CASE a \in DOMAIN services /\ services'[a] = services[a]
    <3>1. services[a].connection \in DOMAIN conns
          /\ Joined(services[a].key, conns[services[a].connection])
      BY <2>1 DEF Inv, RegistryOK, UsableInv
    <3> QED BY <2>1, <3>1, FitsOnward DEF ConnsFollow
  <2> QED BY <1>3, <2>1
<1> QED BY <1>1, <1>2, <1>3 DEF UsableInv

(* A call begins with no connection yet, or with that of a listed service. *)
LEMMA UsableBegin ==
    ASSUME Inv, UsableInv, ConnsFollow, NEW t \in Threads,
           \/ \E k \in Keys, a \in Addresses : RegisterStub(t, k, a)
           \/ \E r \in Realms : CreateWampStubAdapter(t, r)
    PROVE  UsableInv'
<1>1. PICK x, label :
         /\ my' = Assign(my, t, x) /\ pc' = [pc EXCEPT ![t] = label]
         /\ \/ label = "getConnection"
            \/ /\ label = "manage" /\ x.key = Managed
               /\ \E a \in DOMAIN services : x.connection = services[a].connection
  <2>1. CASE \E k \in Keys, a \in Addresses : RegisterStub(t, k, a)
    BY <2>1 DEF RegisterStub, Goto
  <2>2. CASE \E r \in Realms : CreateWampStubAdapter(t, r)
    <3>1. PICK r \in Realms : CreateWampStubAdapter(t, r)
      BY <2>2
    <3>2. PICK a \in DOMAIN services :
             my' = Assign(my, t, [key |-> Managed, address |-> Back(r), realm |-> r,
                                  connection |-> services[a].connection])
      BY <3>1 DEF CreateWampStubAdapter
    <3>3. pc' = [pc EXCEPT ![t] = "manage"]
      BY <3>1 DEF CreateWampStubAdapter, Goto
    <3> QED BY <3>2, <3>3
  <2> QED BY <2>1, <2>2
<1>2. conns' = conns /\ connections' = connections /\ services' = services
  BY DEF RegisterStub, CreateWampStubAdapter, registry
<1>3. /\ t \in DOMAIN my' /\ my'[t] = x /\ pc'[t] = label
      /\ \A u \in DOMAIN my' : u # t => u \in DOMAIN my /\ my'[u] = my[u] /\ pc'[u] = pc[u]
  BY <1>1 DEF Assign, Inv, ThreadsOK
<1>4. Fits(label, x.key, conns[x.connection])
  BY <1>1, KeysDistinct DEF Fits, UsableInv, Joined
<1> QED BY <1>2, <1>3, <1>4, UsableOnward

(* A connection that is found suits the key it is found under; the one that is
   made is in nobody's use yet.                                            *)
LEMMA UsableGetConnection ==
    ASSUME Inv, UsableInv, ConnsFollow, NEW t \in Threads, GetConnection(t)
    PROVE  UsableInv'
<1>1. t \in DOMAIN my /\ my[t] \in Locals /\ DOMAIN my \subseteq Threads
      /\ connections' = connections /\ services' = services
  BY DEF GetConnection, At, Inv, ThreadsOK, Unheld
<1>2. /\ DOMAIN my' = DOMAIN my /\ my'[t].key = my[t].key
      /\ \A u \in DOMAIN my : u # t => my'[u] = my[u] /\ pc'[u] = pc[u]
  BY <1>1 DEF GetConnection, Goto, Inv, ThreadsOK, Locals
<1>3. CASE my[t].key \in DOMAIN connections
  <2>1. /\ my' = [my EXCEPT ![t].connection = connections[my[t].key]]
        /\ pc' = [pc EXCEPT ![t] = "create"] /\ conns' = conns
    BY <1>3 DEF GetConnection, Goto
  <2>2. pc'[t] = "create" /\ my'[t].connection = connections[my[t].key]
    BY <1>1, <2>1 DEF Inv, ThreadsOK, Locals
  <2>3. Fits(pc'[t], my'[t].key, conns'[my'[t].connection])
    BY <1>2, <1>3, <2>1, <2>2 DEF Fits, UsableInv
  <2> QED BY <1>1, <1>2, <2>3, UsableOnward
<1>4. CASE my[t].key \notin DOMAIN connections
  <2>1. pc'[t] = "insert"
    BY <1>1, <1>4 DEF GetConnection, Goto, Inv, ThreadsOK
  <2>2. Fits(pc'[t], my'[t].key, conns'[my'[t].connection])
    BY <2>1 DEF Fits
  <2> QED BY <1>1, <1>2, <2>2, UsableOnward
<1> QED BY <1>3, <1>4

(* A connection that is entered is new, and suits any key. *)
LEMMA UsableInsert ==
    ASSUME Inv, ServedInv, UsableInv, ConnsFollow, NEW t \in Threads, InsertConnection(t)
    PROVE  UsableInv'
<1> DEFINE c == my[t].connection
           k == my[t].key
<1>1. t \in DOMAIN my /\ conns[c] = "new"
  BY DEF InsertConnection, At, Inv, ThreadsOK, Unheld, ServedInv, Making
<1>2. /\ my' = my /\ conns' = conns /\ services' = services /\ pc'[t] = "connect"
      /\ \A u \in DOMAIN my : u # t => pc'[u] = pc[u]
  BY <1>1 DEF InsertConnection, Goto, Inv, ThreadsOK
<1>3. Suits(k, conns'[c])
  BY <1>1, <1>2 DEF Suits
<1>4. \A j \in DOMAIN connections' :
         \/ j \in DOMAIN connections /\ connections'[j] = connections[j]
         \/ j = k /\ connections'[j] = c
  BY DEF InsertConnection, Entered, Insert
<1>5. Fits(pc'[t], my'[t].key, conns'[my'[t].connection])
  BY <1>2 DEF Fits
<1> HIDE DEF c, k
<1> QED BY <1>2, <1>3, <1>4, <1>5, UsableOnward

(* connect() gives a thread to the connection for an id, and to no other; who has
   found the connection meanwhile has it for the same key.                 *)
LEMMA UsableConnect ==
    ASSUME Inv, ServedInv, StartInv, UsableInv, NEW t \in Threads, Connect(t)
    PROVE  UsableInv'
<1> DEFINE c == my[t].connection
           k == my[t].key
<1>1. /\ t \in DOMAIN my /\ pc[t] \in Making /\ c \in DOMAIN conns /\ conns[c] = "new"
      /\ conns'[c] \in Connected(k)
      /\ \A d \in DOMAIN conns : d # c => conns'[d] = conns[d]
  BY ConnectChanges DEF Making
<1>2. /\ my' = my /\ connections' = connections /\ services' = services
      /\ pc'[t] = "create" /\ \A u \in DOMAIN my : u # t => pc'[u] = pc[u]
  BY DEF Connect, Goto, Inv, ThreadsOK
<1>3. Suits(k, conns'[c])
  BY <1>1, KeysDistinct DEF Suits, Connected
<1>4. ASSUME NEW j \in DOMAIN connections PROVE Suits(j, conns'[connections[j]])
  <2>1. CASE connections[j] = c
    BY <1>1, <1>3, <2>1 DEF StartInv
  <2>2. CASE connections[j] # c
    BY <1>1, <2>2 DEF UsableInv, Inv, RegistryOK
  <2> QED BY <2>1, <2>2
<1>5. ASSUME NEW u \in DOMAIN my
      PROVE  Fits(pc'[u], my[u].key, conns'[my[u].connection])
  <2>1. CASE u = t
    BY <1>2, <1>3, <2>1 DEF Fits
  <2>2. CASE u # t /\ my[u].connection = c
    <3>1. pc[u] \in {"create", "provide"} => my[u].key = k
      BY <1>1, <2>2 DEF StartInv, Holding
    <3>2. pc[u] \notin {"add", "manage"}
      BY <1>1, <2>2 DEF UsableInv, Fits, Joined
    <3> QED BY <1>2, <1>3, <2>2, <3>1, <3>2 DEF Fits
  <2>3. CASE u # t /\ my[u].connection # c
    <3>1. Fits(pc[u], my[u].key, conns[my[u].connection])
      BY DEF UsableInv
    <3>2. pc[u] \in HasConnection => my[u].connection \in DOMAIN conns
      BY DEF Inv, ThreadsOK
    <3> QED BY <1>1, <1>2, <2>3, <3>1, <3>2 DEF Fits, HasConnection
  <2> QED BY <2>1, <2>2, <2>3
<1>6. ASSUME NEW a \in DOMAIN services
      PROVE  Joined(services[a].key, conns'[services[a].connection])
  <2>1. Joined(services[a].key, conns[services[a].connection])
        /\ services[a].connection \in DOMAIN conns
    BY DEF UsableInv, Inv, RegistryOK
  <2>2. services[a].connection # c
    BY <1>1, <2>1 DEF Joined
  <2> QED BY <1>1, <2>1, <2>2
<1> HIDE DEF c, k
<1> QED BY <1>2, <1>4, <1>5, <1>6 DEF UsableInv

(* A thread that gets past provideRemoteMethods had a connection that was joined,
   and so not one of a context.                                            *)
LEMMA UsableProvide ==
    ASSUME Inv, UsableInv, ConnsFollow, NEW t \in Threads, ProvideRemoteMethods(t)
    PROVE  UsableInv'
<1> DEFINE c == my[t].connection
           k == my[t].key
<1>1. t \in DOMAIN my /\ c \in DOMAIN conns /\ pc[t] = "provide"
      /\ conns[c] = "connected"
  BY DEF ProvideRemoteMethods, At, Inv, ThreadsOK, Unheld, HasConnection
<1>2. Joined(k, conns[c])
  BY <1>1 DEF Joined, UsableInv, Fits, Suits
<1>3. Joined(k, conns'[c])
  BY <1>1, <1>2, FitsOnward DEF ConnsFollow
<1>4. /\ my' = my /\ services' = services /\ connections' = connections
      /\ pc'[t] = "add" /\ \A u \in DOMAIN my : u # t => pc'[u] = pc[u]
  BY <1>1 DEF ProvideRemoteMethods, Goto, Inv, ThreadsOK
<1>5. Fits(pc'[t], my'[t].key, conns'[my'[t].connection])
  BY <1>3, <1>4 DEF Fits
<1> HIDE DEF c, k
<1> QED BY <1>4, <1>5, UsableOnward

(* A service is listed with the connection of the call that lists it. *)
LEMMA UsableListing ==
    ASSUME Inv, UsableInv, ConnsFollow, NEW t \in Threads,
           RegisterStubAdapter(t) \/ RegisterManagedService(t)
    PROVE  UsableInv'
<1>1. PICK a : services' = WithService(a, my[t])
  BY DEF RegisterStubAdapter, RegisterManagedService
<1>2. /\ Return(t) /\ conns' = conns /\ connections' = connections
      /\ t \in DOMAIN my /\ pc[t] \in {"add", "manage"}
  BY DEF RegisterStubAdapter, RegisterManagedService, At, Inv, ThreadsOK, Unheld
<1>3. \A u \in DOMAIN my' : u \in DOMAIN my /\ my'[u] = my[u] /\ pc'[u] = pc[u]
  BY <1>2 DEF Return, Goto, Erase, Inv, ThreadsOK
<1>4. Joined(my[t].key, conns'[my[t].connection])
  BY <1>2 DEF UsableInv, Fits
<1>5. \A b \in DOMAIN services' : \/ b \in DOMAIN services /\ services'[b] = services[b]
                                  \/ services'[b] = my[t]
  BY <1>1 DEF WithService, Insert
<1> QED BY <1>2, <1>3, <1>4, <1>5, UsableOnward

(* An adapter is made on the connection that was got, or none. *)
LEMMA UsableCreate ==
    ASSUME Inv, UsableInv, ConnsFollow, NEW t \in Threads, CreateAdapter(t)
    PROVE  UsableInv'
<1>1. /\ t \in DOMAIN my /\ pc[t] = "create"
      /\ conns' = conns /\ connections' = connections /\ services' = services
  BY DEF CreateAdapter, At, registry, Inv, ThreadsOK, Unheld
<1>2. CASE Return(t)
  <2>1. \A u \in DOMAIN my' : u \in DOMAIN my /\ my'[u] = my[u] /\ pc'[u] = pc[u]
    BY <1>2 DEF Return, Goto, Erase, Inv, ThreadsOK
  <2> QED BY <1>1, <2>1, UsableOnward
<1>3. CASE Goto(t, "provide") /\ my' = my
  <2>1. pc'[t] = "provide" /\ \A u \in DOMAIN my : u # t => pc'[u] = pc[u]
    BY <1>1, <1>3 DEF Goto, Inv, ThreadsOK
  <2>2. Fits(pc'[t], my'[t].key, conns'[my'[t].connection])
    BY <1>1, <1>3, <2>1 DEF UsableInv, Fits
  <2> QED BY <1>1, <1>3, <2>1, <2>2, UsableOnward
<1> QED BY <1>2, <1>3 DEF CreateAdapter

(* An unregisterManagedService begins or ends: services only go. *)
LEMMA UsableUnregister ==
    ASSUME Inv, UsableInv, ConnsFollow, NEW t \in Threads,
           EraseManagedService(t) \/ \E a \in Addresses : UnregisterManagedService(t, a)
    PROVE  UsableInv'
<1>1. /\ my' = my /\ conns' = conns /\ connections' = connections
      /\ \E label \in {"unmanage", "idle"} : pc' = [pc EXCEPT ![t] = label]
  BY DEF EraseManagedService, UnregisterManagedService, Goto, registry
<1>2. \A a \in DOMAIN services' : a \in DOMAIN services /\ services'[a] = services[a]
  BY DEF EraseManagedService, UnregisterManagedService, Erase, registry
<1>3. \A u \in DOMAIN my : pc'[u] = pc[u] \/ pc'[u] \in {"unmanage", "idle"}
  BY <1>1 DEF Inv, ThreadsOK
<1>4. \A u \in DOMAIN my' : \/ pc'[u] = pc[u]
                            \/ Fits(pc'[u], my'[u].key, conns'[my'[u].connection])
  BY <1>1, <1>3 DEF Fits
<1> QED BY <1>1, <1>2, <1>4, UsableOnward

(* Every step keeps the connections fitting. *)
LEMMA UsableStep == Inv /\ ServedInv /\ StartInv /\ UsableInv /\ [Next]_vars => UsableInv'
<1> SUFFICES ASSUME Inv, ServedInv, StartInv, UsableInv, [Next]_vars PROVE UsableInv'
  OBVIOUS
<1>1. CASE \E t \in Threads : Connect(t)
  BY <1>1, UsableConnect
<1>2. CASE ConnsFollow
  <2>1. ASSUME NEW t \in Threads, Step(t) PROVE UsableInv'
    <3>1. CASE EraseManagedService(t)
      BY <1>2, <3>1, UsableUnregister
    <3> QED BY <1>1, <1>2, <2>1, <3>1, UsableGetConnection, UsableInsert, UsableCreate,
               UsableProvide, UsableListing DEF Step
  <2>2. ASSUME NEW t \in Threads,
               \/ \E k \in Keys, a \in Addresses : RegisterStub(t, k, a)
               \/ \E r \in Realms : CreateWampStubAdapter(t, r)
        PROVE  UsableInv'
    BY <1>2, <2>2, UsableBegin
  <2>3. ASSUME NEW t \in Threads, \E a \in Addresses : UnregisterManagedService(t, a)
        PROVE  UsableInv'
    BY <1>2, <2>3, UsableUnregister
  <2>4. CASE \/ \E t \in Threads, a \in Addresses : UnregisterStub(t, a)
             \/ \E c \in DOMAIN conns : HandshakeEnds(c) \/ LoseTransport(c)
             \/ \E i \in Interfaces : RegisterInterface(i)
             \/ InitLock \/ InitNext \/ InitUnlock \/ UNCHANGED vars
    <3>1. my' = my /\ pc' = pc /\ connections' = connections /\ services' = services
      BY <2>4 DEF UnregisterStub, ReleaseServiceName, HandshakeEnds, LoseTransport,
                  RegisterInterface, InitLock, InitNext, InitUnlock, vars, threads,
                  registry
    <3> QED BY <1>2, <3>1, UsableOnward
  <2> QED BY <2>1, <2>2, <2>3, <2>4 DEF Next
<1> QED BY <1>1, <1>2, ConnectionsFollow

(* A stub for an id waits on a connection that has its thread, or that the call
   which entered it is about to give one, and what is listed has a connection that
   was joined and is not one of a context, however many threads register stubs at
   once.                                                                   *)
THEOREM ConnectionsFitTheirUse == Spec => []OnlyServedConnections
<1> DEFINE I == Inv /\ ServedInv /\ StartInv /\ UsableInv
<1>1. Init => I
  <2>1. Init => UsableInv /\ StartInv
    BY DEF Init, Empty, UsableInv, StartInv
  <2> QED BY <2>1, InvInit, ServedInit
<1>2. I /\ [Next]_vars => I'
  BY InvStep, ServedStep, StartStep, UsableStep
<1>3. I => OnlyServedConnections
  <2> SUFFICES ASSUME Inv, StartInv, UsableInv PROVE OnlyServedConnections
    OBVIOUS
  <2>1. ASSUME NEW t \in Threads, Waits(t)
        PROVE  \/ conns[my[t].connection] \in {"connecting", "connected", "failed",
                                               "stopped"}
               \/ conns[my[t].connection] = "new" /\ Starting(my[t].connection)
    <3>1. t \in DOMAIN my /\ pc[t] = "provide" /\ my[t].key \in Ids
      BY <2>1 DEF Waits, Inv, ThreadsOK, Unheld
    <3>2. conns[my[t].connection] \in {"new", "connecting", "connected", "failed",
                                       "stopped"}
      BY <3>1 DEF UsableInv, Fits, Suits
    <3>3. pc[t] \in Holding \ Making
      BY <3>1 DEF Holding, Making
    <3> QED BY <3>1, <3>2, <3>3 DEF StartInv
  <2>2. \A a \in DOMAIN services :
           /\ services[a].key \notin Contexts
           /\ conns[services[a].connection] \in {"connected", "stopped"}
    BY DEF UsableInv, Joined
  <2> QED BY <2>1, <2>2 DEF OnlyServedConnections
<1> QED BY <1>1, <1>2, <1>3, PTL DEF Spec
=============================================================================
