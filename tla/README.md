# A TLA+ model of capicxx-wamp-runtime

The repository is the CommonAPI C++ runtime for the WAMP protocol, derived from
the D-Bus runtime (most of the D-Bus code is still there, commented out). The
parts with state of their own are a connection to a WAMP router, a main loop,
and a factory that hands out connections and registers stubs. The C++ files are
in `src/src/CommonAPI/Wamp` and `src/include/CommonAPI/Wamp`.

## Inventory

| Part | State | Operations | Used by |
|---|---|---|---|
| `WampConnection` | `connected_`, `session_`, the three futures, `ioMutex_`, `connectionGuard_`, `dispatchThread_`, `stopDispatching_`, `loop_`, `dispatchSource_`, `io_` | `connect`, `disconnect`, `attachMainLoopContext`, `requestServiceNameAndBlock`, `releaseServiceName`, `dispatch` (a thread), the continuations of the futures, the destructor | the factory, the stubs |
| `WampStubAdapterHelper` | none; it uses `ioMutex_`, `session_`, `io_` of the connection | `provideRemoteMethod`, `publishTopic` | generated stub adapters |
| `WampMainLoop` | registered sources, timeouts, watches with `isExecuted_`, `deleteObject_`, `timeoutElapsed_`; three to-dispatch sets; `managedFileDescriptors_`; `hasToStop_`, `isBroken_`; four mutexes and one per object | `run`, `stop`, `wakeup`, `doSingleIteration`, `prepare`, `poll`, `check`, `dispatch`, `register...`/`unregister...` | a connection (it only calls `stop`), applications, the context's subscribers |
| `WampDispatchSource` (`WampWatch`, `WampTimeout`: nothing makes one) | the connection it serves | `prepare`, `check`, `dispatch` | the main loop, which deletes it; its connection, which does so too |
| `Factory` | `connections_`, `contextConnections_`, `services_`, the create functions, `initializers_` | `init`, `registerInterface`, `registerStub`, `unregisterStub`, `getConnection` | the CommonAPI runtime |
| `WampAddressTranslator` | `forwards_`, `backwards_` under a mutex | `translate`, both ways | the factory |
| `WampFunctionalHash`, `WampAddress` | none; they order and hash the keys of `StubDispatcherTable` and `backwards_` | `hash`, `equal_to`, `operator<` | stub adapters, the translator |
| `WampClientId`, `WampError`, `WampHelper` | values | comparison, hashing | generated code |

How they interact. The factory creates a connection and calls `connect(true)`
(or `connect(false)` and `attachMainLoopContext` for a caller's context).
`connect` locks `ioMutex_`, creates a session, and starts a chain of three
futures; it starts a thread that sits in `io_.run()`. The last continuation
unlocks `ioMutex_` and sets `connected_`. A stub adapter spins on
`isConnected()` and then uses the session under `ioMutex_`. The router's
invocations run the stub's methods inside `io_.run()`, and such a method may
publish, register or disconnect. The thread holds a `shared_ptr` to the
connection, so the destructor runs on whichever thread drops the last one. A
main loop and its clients share the registrations; callbacks run in
`dispatch()` without any mutex and may register and unregister.

What is hard: `ioMutex_` changes hands between threads; `connected_` is tested
without a lock and never reset; a registration waits for the dispatch thread
with `ioMutex_` held; `disconnect` joins a thread with `connectionGuard_` held
and reads `dispatchThread_` again afterwards; the destructor may run on the
thread it would join; the main loop reads its descriptors without their mutex,
nests two mutexes in both orders, defers deletion, and steps over elements when
it erases; a connection and a loop both delete the connection's dispatch source;
`registerStub` lists stubs that the router refused, and waits for ever on a
connection whose handshake failed; the factory enters a connection before it is
started, and erases a service through an iterator that another thread may have
made invalid; the destructor of a connection waits for futures whose answer may
never come; the dispatcher table is keyed by pointers. `PROJECT.json` lists each of these as a hazard at its line, with the
properties aimed at it.

## Modules

* `WampConnection`: one connection, application threads, dispatch threads and
  sessions. `pc[t]` names the statement thread `t` is about to execute;
  `stage[n]` is how far the future chain of session `n` has come, `result[n]`
  the outcome of its outstanding request. `ioMutex` and `guard` are only locked
  or not, like a `std::mutex`: who owns one is something to be proved. Each
  piece of code between two points where another thread can interfere is one
  action (`ConnectTest`, `ConnectLock`, `ConnectStart` for `connect`, and so
  on). Continuations are actors of their own, since `boost::future::then` runs
  them on other threads; the join continuation has three steps, because
  `unlock`, the assignment of `connected_` and `get()` are seen separately.
  Unlocking a `std::mutex` from another thread releases it, as the platform's
  implementation does. The members go at the end of the destructor
  (`FinishDestructor`), the futures among them, and the future of a continuation
  that has not ended (`Unfulfilled`) blocks there, as the comment at the members in
  `WampConnection.hpp` says. The autobahn library, the router and asio are external:
  `DeliverHandshake`, `DeliverRegistration`, `Invoke`, `LoseTransport`.
* `SessionHandle`: the promise to the users of a connection's session: one
  session is opened at a time, each once, and a call has an opened session to
  itself from its beginning to its end. `WampConnection` refines it
  (`SessionIsHandedOver`): the sessions whose chain owns `ioMutex_` are those
  being opened, the calls that own it are those that use the session. A session
  whose opening failed before the unlock is opening for ever, as the mutex stays
  locked in the code.
* `WampMainLoop`: one thread that calls the public functions, client threads
  and the callback that runs. A block under one mutex is one step;
  `fileDescriptorsMutex_` and `watchesMutex_` are variables because they are
  held while waiting for each other. The sequence `fds` is the vector with
  `revents`; `polled` is what `::poll` was given, and its answers are stored by
  index into `fds` as it is when `::poll` returns, unless `push_back` moved the
  vector. `Erased` is the double advance of the iterator after `erase`: an
  element goes if the number of those that could go directly before it is even.
* `DispatchLifecycle`: the promise to the owner of an object: called back only
  between registration and unregistration, one callback at a time, deleted once
  and not while it runs. `WampMainLoop` refines it (`KeepsPromise`), with
  `Status` as the mapping.
* `WampFactory`: the factory, the translator and the adapters they know.
  `initializers`, `forwards`, `backwards`, `connections` (both caches),
  `services` are the members of the same name. The maps of the factory have no
  mutex, so `getConnection` is three steps, `GetConnection` (find, make),
  `InsertConnection` (insert) and `Connect` (connect, for a context attach, and
  return): another thread may find a connection that is entered and not started.
  `HandshakeEnds` is the outcome of the handshake, which `WampConnection` has in
  full: joined; `failed`, when a connect or start was refused and `connected_`
  stays unset; or `stopped`, when the join was refused and `connected_` is set
  nevertheless. `left` is what the loop of `init` has still to call; the list is
  cleared after the loop. `unregisterManagedService` is a find
  (`UnregisterManagedService`) and a later erase (`EraseManagedService`) through
  the iterator in `found`; when the element was erased by another thread meanwhile,
  `undefined` is set and the behaviour ends. A record in `my` holds the
  locals of a call and becomes the entry in `services`. `RealmOf` and
  `AddressOf` are CommonAPI's `Address::getAddress` and `setAddress`, which are
  not in this repository; `Realms` may contain realms that spell no address
  properly, which `createWampStubAdapter` can be given. A connection is only its
  place and how far it is, since `WampConnection` has the rest; `unserved` is a
  connection made with `connect(false)`. `provided` is what the router knows:
  for a realm, the connection that it calls the procedure on. `UnregisterStub`
  is all of `unregisterStub`, which as the code stands gets no further than
  `releaseServiceName`.
* `AttachedConnection`: composes `WampMainLoop` with the connections attached to
  its context. It adds the constructor of the loop, which may not get its wakeup
  descriptor (`canWake`), its destructor, `attachMainLoopContext`, the
  `WampDispatchSource` of each connection and what the destructor of a
  connection does with it. `LoopStep` is a step of the loop in which these
  sources answer as the code does (`isDispatchReady` is always false,
  `singleDispatch` always true). The context passes a source on to whoever has
  subscribed at that time. `undefined` is set when something deleted is used or
  deleted again, and the behaviour ends there.
* `WampKeys`: the hash functions, `equal_to` and `operator<` with the two tables
  they serve. A text is the sequence of its bytes, a key of the dispatcher table
  a pair of addresses, so that equal texts at different addresses and buffers
  that are overwritten can be told apart. 32 bit words are pairs of 16 bit
  halves. Where `std::unordered_map` and `std::map` search is external: a search
  of the table looks among all entries of the bucket and may return any equal
  one, and the place in the ordered map is the first that is not less.
* `MemberMap`: the promise of a dispatcher table, which `WampKeys` refines
  (`TableIsMap`): texts have one dispatcher, never replaced.
* `MCConnection`, `MCMainLoop`, `MCAttached`, `MCFactory`, `MCKeys`: instances
  for TLC, some with symmetry sets, which are used in runs without liveness only.
* `WampConnectionProofs`, `WampFactoryProofs`, `WampMainLoopProofs`,
  `AttachedConnectionProofs`, `WampKeysProofs`: the theorems.

Names beginning with `Mut` are mutated versions of the definition that follows
them; no specification uses them. They serve to see each property fail.

## Runs

| Run | Result | What it shows |
|---|---|---|
| `MCConnectionSafety` | holds, 2 million states | Two application threads, two dispatch threads, two sessions, every failure, calls from callbacks. One owner of `ioMutex_` (`IoMutexHasOneOwner`), the session is the one meant (`SessionIsTheOneMeant`, `SessionKeptInUse`), the promise of `SessionHandle` is kept (`SessionIsHandedOver`), one disconnect and no self-join (`DisconnectIsSerial`), nobody uses a destroyed connection (`DestroyedWhenUnused`), no running `std::thread` is deleted unless two calls of `connect` overlap (`TerminatedByTwoConnects`), a session that was once up is never followed by another (`SessionIsFinal`), and the inductive invariant `LifeInv`. |
| `MCConnectionStop` | holds | With one `connect`, every failure of the router, and methods of the stubs that reply, attach or connect: whoever waits for a dispatch thread waits for one that is in `io_.run()` or through, unless `io_` has stopped (`WaitersAreServed`); `provideRemoteMethod` returns unless `io_` stops (`ProvideReturns`), `disconnect` returns once `io_` has stopped, (`DisconnectReturns`), and a connection whose sessions hold no registered procedure is destroyed with its last reference, or its destructor hangs in the future of a handshake that is not answered any more (`DestroyedAfterStop`). |
| `MCConnectionJoined` | violated | A stub uses a session whose join failed, against the comment "busy waiting until the session is started and joined". |
| `MCConnectionHandlerPublish` | violated | A handler that publishes and a registration block each other. |
| `MCConnectionCallback` | violated | An application thread disconnects and holds `connectionGuard_` while it joins; a callback that disconnects too never gets to the test for a self-join, against the comment "It is possible for the disconnect to be called from within a callback". |
| `MCMainLoopPhases` | holds | `run`, and `prepare` and `check` called by themselves in any order, with clients that register, unregister, stop and wake up: nothing deleted is used, descriptors belong to live watches, the two nested mutexes are held by `check` and by a `registerWatch` on another thread only (`MutexHolders`), a watch is dispatched only for its own descriptor unless a descriptor was erased during `::poll` (`ReportedUnlessShifted`), the promise of `DispatchLifecycle` is kept. |
| `MCAttached` | holds | A loop with one attached connection, from its constructor to its destructor: no source is used or deleted after its deletion, provided the loop goes before the connection (`UndefinedOnlyEarly`), and the loop keeps no pointer to anything deleted (`NothingGoneInUse`); `run` ends after `stop` if there is a wakeup descriptor and `check` does not hang (`StopEndsRun`); a timeout that is due when `run` comes to `prepare` gets its turn, whatever is unregistered meanwhile (`DueIsDispatched`; since `timeoutElapsed_` is never reset, one that missed its turn would have no other); unregistered objects are deleted in the end although the scan steps over neighbours (`DeletedAtLast`). |
| `MCMainLoopShift` | violated | With unregistration during `::poll` another watch is dispatched. |
| `MCMainLoopTimeout` | violated | A due timeout waits for ever in `::poll(..., -1)`. |
| `MCMainLoopLocks` | violated | `check` and `registerWatch` block each other. |
| `MCFactory` | holds, 0.7 million states | Two threads register stubs (on an id and on a context) and managed services while libraries are loaded and `init` runs. An address survives translation to a realm and back (`RoundTrip`), a service is where `unregisterStub` looks for it (`ServiceUnderItsAddress`), is never replaced and taken away only by a call that found this very service (`ServiceKept`); of two connections made for one id the one that is not cached has a single user (`OrphanHasOneUser`); every initialiser runs once (`InitialisedOnce`); a listed stub is served on its own connection or that connection is stopped (`ListedIsServed`); a cached connection is never replaced and, once stopped, stays so (`CachedForGood`); a stub for an id waits on a connection that was started with a thread or that the call which entered it is about to start, and none for a context is ever listed (`OnlyServedConnections`); and a registration on an id goes on unless the handshake of its connection fails or its `io_` stops (`RegistrationGoesOn`). The first two hold by the inductive invariant `AddressInv` of the proofs. |
| `MCKeys` | holds | Literals with equal texts, texts with a NUL and with negative chars: the dispatcher table is a map over texts (`TableIsMap`), a message finds the entry of its texts (`FoundByContents`), the hash is a polynomial in which field boundaries count, modulo 2^32 (`HashIsPolynomial`), and the ordered map finds exactly what was inserted (`AddressesFound`). |

The order of teardown matters to `UndefinedOnlyEarly`. When a connection goes
while the loop is there, `deregisterDispatchSource` marks the source for the
loop, which deletes it, and the destructor deletes it as well; and until it is
erased `prepare` and `check` go on asking it, since they do not look at
`deleteObject_`, and it asks a connection that is gone. No document of the
repository says who goes first, so this is a hazard and not a finding.

`DestroyedAfterStop` is about connections without registered procedures:
`provideRemoteMethod` binds a copy of the stub adapter, and with it a reference
to the connection, into a procedure that the connection's own session keeps. Such
a connection is not destroyed before its transport is lost and the session
replaced. Nor is one destroyed whose `io_` stopped between a request of the
handshake and its answer: the member future blocks in the destructor.

`TerminatedByTwoConnects` describes the one way the process can end: with two
overlapping calls of `connect`, `disconnect` can delete the running thread of
the other one. No document speaks of it, so it is listed as a hazard and not as
a finding.

### Bounds

Two application threads and two dispatch threads are the least for two
overlapping calls of `connect` with a thread each, next to which a callback can
run; the argument of the proofs never needs more. `SessionBound` lets a
`connect` start only while a session is left for it, so that no call waits for
want of a model value. The main loop has a source, a timeout and two watches
(two for the shift) in `MCMainLoopPhases`, of which any two are registered
(`ObjectBound`): the three kinds meet in the order of the phases and in
`isBroken_` only, so that pairs show what can go wrong. The calls there are
`run`, which contains all phases, and the two phases that leave something to
dispatch behind when they are called by themselves. There are two sources (for
the neighbour that is stepped over), of which one belongs to the connection, and
a timeout in `MCAttached`; one client thread and the running callback; every
object is registered once, as its owner gives it away. `WakeFds` lets the wakeup
descriptor be made or not.

`MCKeys` has three literals of two texts, and four texts for messages and
realms: empty, one byte, one with a NUL inside, one that begins with a byte
beyond 127. `EntryBound` entries go into the two tables together; two are enough
for a collision of keys and for an insertion before another. Three buckets make
both equal and different buckets happen.

The factory has two threads, which is enough for a connection made twice, and
makes three calls in all (`CallBound`): two that race and a third that finds
what they left. Three are also the least for two calls that erase one service. There are two addresses of one interface, the address that is
left when a realm spells none, an improper realm, and two interfaces so that one
can be loaded while the initialiser of the other runs.

`CHECK_DEADLOCK FALSE` in every configuration but `MCKeys.cfg`: threads that
have finished, a loop with nothing to do and the mutual waits that the findings
describe are real ends of the program.

### Fairness

`WampConnection!Fairness`: weak fairness of every thread's steps and of the
continuations, because the scheduler runs them; strong fairness of taking a
mutex, as a mutex that is free again and again is not refused for ever; strong
fairness of the delivery of a completion, as asio takes what is ready in the
order of its queue, so invocations do not hold up a reply for ever. Nothing
makes the application call, the router invoke, or a failure happen.
`WampMainLoop!FairSpec`: weak fairness of the loop's thread and of a client in
the middle of a call; nothing makes time pass, data arrive or a client begin.
Fairness of the loop contains the assumption that callbacks return.
`AttachedConnection!ASpec`: the same two, until something is undefined; nothing
makes the application attach, drop or destroy. `WampKeys` has no fairness.
`WampFactory!FairSpec`: weak fairness of a thread in a call, and of the end of
the handshake of a connection that has a thread, as a connect, start or join is
answered, refused or broken off. Nothing says that a handshake succeeds or a
registration is accepted, and nothing makes a call begin.

## Proofs

`WampConnectionProofs`, for every set of threads, dispatch threads and
sessions, any subset of operations and failures. Assumptions: the sets are
disjoint from each other and from `None` (`ThreadsDisjoint`, `NoneIsNobody`),
and the operations are among those of the module (`OpsKnown`).

* `SessionInvariant`, and from it `TypeCorrect`, `MutexHasOneOwner` and
  `RightSession`: `SessionInv` is inductive.
  `IoMutexHasOneOwner` alone is not: the step of `ProvideLock` or `PublishLock`
  must find a session, so `SessionExists` says that `connected_` and every
  thread that has passed the wait imply one; and the continuation of a
  registration must belong to a thread that still waits (`RequestIsAwaited`).
  The argument: `ioMutex_` is taken only when free, and then no chain and no
  call owns it; a chain passes ownership along its stages and gives it up in
  the one step that unlocks.
* `SessionNotReplaced`: `session_` changes in `ConnectLock` only, which finds
  `ioMutex_` free, so no call owns it.
* `LifeInvariant`, and from it `OneDisconnect` and `SafeDestruction`: `LifeInv`
  is inductive together with `SessionInv`. `LastThread` is the strengthening: in
  the destructor a single thread is left, it is in `disconnect` or behind it, and
  no bound procedure holds a reference. The part of `DestroyedWhenUnused` about
  continuations is what the futures give: the destructor does not get past them.
* `SessionPassesThroughFree`: every step is one of `SessionHandle` or leaves its
  four variables alone, given `SessionInv`: whoever takes `ioMutex_` finds
  nobody in possession, and `SessionExists` gives the call an opened session.
* `JoinedUnlessJoinFails`: if joining is not among the failures, every stub uses
  a joined session. So the finding of `MCConnectionJoined` has this one cause.
  `JoinedInv` is the strengthening: past the unlock a session has been welcomed.
* `OneConnectDoesNotTerminate`: `TerminatedByTwoConnects` is not inductive, as
  nothing in it says that `disconnect` deletes the thread it joined.
  `StartInv` adds that, unless two handshakes were begun, at most one `connect`
  is about to assign `dispatchThread_`, that no thread was assigned before it and
  no `disconnect` is joining, and that a `disconnect` that joins does so with the
  thread that is still the connection's.
* `NeverReconnects`: nothing resets `connected_`, so a `connect` that begins after
  it was set returns at its test, and `session_` is assigned only behind a test
  that was passed before. What the user sees is that `connect` after `disconnect`
  returns true and opens nothing.
* `WaitsForRunningThreads`: if no method of a stub takes `ioMutex_` or
  `connectionGuard_` (`ShortMethods`), every thread that waits with one of them
  held waits for a thread that serves the queue or is through. `ServeInv` is the
  strengthening: a registration waits only on a connection that is up, whose
  handshake a dispatch thread has answered; that thread leaves `io_.run()` for good
  only when `io_` has stopped; and a `disconnect` joins only a thread that was
  started. The runs `MCConnectionHandlerPublish` and
  `MCConnectionCallback` show that the condition on the methods is needed.

`WampFactoryProofs`, for any threads, interfaces, addresses, realms, ids and
number of calls. Assumptions: CommonAPI reads back the address that a realm was
made from (`SpellingIsReadBack`; it holds for addresses without a colon in their
parts), ids and contexts are told apart (`KeysDistinct`), and the bound is a
number (`CallBoundNat`).

* `FactoryInvariant`, and from it `TranslationRoundTrip`,
  `ServicesUnderTheirAddress` and `FactoryTypeCorrect`: `AddressInv` is
  inductive. `RoundTrip` alone is not: `insert` leaves an older entry of
  `backwards_` alone, and nothing would say that this one names the same
  address. The strengthening is that `backwards_` always holds what CommonAPI
  reads from the realm, whichever direction entered it, so an older entry agrees
  with the new one. `ServiceUnderItsAddress` needs besides that a call keeps
  address and realm in agreement from `registerStub` to `registerStubAdapter`.

* `ListedServicesAreServed`: that a service is served is lost if its connection
  leaves the state stopped, which only `connect` could do. The strengthening
  (`ServedInv`) is that a connection from its making to its `connect` (`Making`)
  is new and has one maker only, though others may have found it, so `connect` is
  never called on one that has stopped; and that a stub about to be listed is
  already served.
* `InitialisersRunOnce`: `OnceInv` says that an initialiser is pending at most once
  and has not run then, that the others of loaded libraries have run, and that
  nothing is pending after `init`. What is pending (`Pending`) is the rest of the
  loop while `init` holds `initializerMutex_`, and the list otherwise; that nobody
  adds to the list during the loop is what the mutex is for.
* `OrphansHaveOneUser`: inductive with the fact that a call that has not yet
  looked for its connection has none, so the number of a new connection is new
  to all.
* `ServicesAreKept`: `FoundInv` says that an iterator which no erasure has made
  invalid leads to the service that its call found, though another thread may
  have erased that element and entered a new one at the same address.
* `EntriesAreForGood`: by `ConnectionsFollow` a connection is only ever
  joined, failed or stopped once it is started, and `Connect` by itself starts new
  ones only, by `ServedInv`. An entry is made by one step, whose `insert`
  leaves older entries alone.
* `ConnectionsFitTheirUse`: `OnlyServedConnections` speaks of calls that wait and
  of services. `UsableInv` adds what these come from: the entries that a later
  call finds suit their keys (an id has a connection with a thread, a context one
  without, or either is not started yet), and so does the connection of a call
  from the moment it has been found or started; who is past `provideRemoteMethods`
  had one that was joined, and therefore none of a context. `StartInv` is about
  the window between `insert` and `connect`: who comes upon a connection that is
  not started finds it entered, with its maker at `connect`, and for the key that
  it was made for; so the `connect` to come will suit those who found it.

`WampMainLoopProofs`, for any sources, timeouts, watches and clients, any number
of registrations and any set of calls. Assumptions: the objects are told apart
(`ObjectsDistinct`), the calls are among those of the module (`CallsKnown`).
What the steps do to the lists is taken from three facts about sequences
(what `Erased`, `Append` and the erasure of a descriptor leave behind), so that
every step is one of four moves: it erases objects that may be deleted, adds a
new one, marks one, or leaves the registrations alone.

* `NoUseAfterFree`: `ObjectInv` is inductive. `NothingFreedInUse` alone is not,
  since an object that waits in a to-dispatch set could be erased before its
  turn. `Books` says that what waits or is executed is registered and that
  nothing registered is freed; `Claims` that a client in the middle of
  `registerWatch` or `unregisterWatch` works on a watch of its own, so that two
  calls do not register or mark it twice.
* `LoopKeepsPromise`: with `ObjectInv` every step is a step of
  `DispatchLifecycle` or changes the status of no object.
* `DescriptorsBelongToWatches`: `Linked` adds that the wakeup descriptor is
  first and that a watch whose descriptor was removed has no other, which is what
  keeps the mark that follows from leaving a descriptor behind.
* `DispatchForOwnAnswer`: `Answers` says that, while `::poll` waits and nothing
  was erased, the vector begins with the polled descriptors in their order, so an
  answer stored by index reaches its own watch.
* `OwnAnswersInRun`, `ShiftedByAnotherThread`: the cause of what
  `MCMainLoopShift` finds. For an application that only calls `run`, watches wait
  for `dispatch` from `check` to the end of their turn and no longer (`RunInv`), so
  that what waits was reported by the last `::poll`, unless a descriptor was
  erased while it waited; and only another thread can do that, as a callback runs
  outside of `::poll`.
* `OnlyTwoHolders`: `HolderInv` ties `fileDescriptorsMutex_` to the scan of `check`
  and `watchesMutex_` to the one client at the second lock of `registerWatch`, and
  says that a callback is in the middle of a call only while it is executed. So
  the only cycle is the one of the run `MCMainLoopLocks`, between two threads; and
  by `DeadlockIsForGood` nothing, not even `stop`, ends it.
* `LoopTypes`: from these invariants and three about phases, flags and marked
  objects.

`AttachedConnectionProofs`, for any connections besides. Assumption: the
connections' sources are sources (`OwnedAreSources`).

* `LoopFirstIsSafe`: `AttachedInv` is inductive. `UndefinedOnlyEarly` needs
  `Pointers` (a source belongs to one connection for good and is deleted only by
  that one), `Quiet` (after the loop's destructor nothing is registered and no
  client is inside), and `Safe` (while no connection was dropped under a loop, the
  sources that the loop knows belong to living connections and none is marked).
* `AttachedLoopKeepsNothingGone`: what the loop has deleted it has forgotten, also
  where sources come from connections and loops are destroyed and made again. The
  part about sources that a connection has deleted needs `AttachedInv`; the rest
  is `Kept`: while there is a loop its books are in order (what waits is
  registered, what is registered is not freed), without one nothing waits, and a
  source that the loop was ever given was made by a connection, so that a
  connection attaches no source twice.

`WampKeysProofs`, for any texts, literals, buckets and signedness of `char`.
Assumptions: texts are sequences of bytes (`TextsAreBytes`), buffers are not
literals (`BuffersAreNoLiterals`), there is a bucket (`SomeBuckets`).

* `RealmsAreFound`: `StringLess` is a strict total order, whence `MapInv`, that
  the keys ascend, survives an insertion at the lower bound, and a search by
  lower bound finds exactly what was inserted.
* `TableIsMapOfTexts`, `MessagesFindDispatchers`: the hash of a key depends on
  the contents only, so that keys that `equal_to` takes for equal are in one
  bucket, whatever value the hash has; and the keys in the table are literals
  (`TableInv`), whose contents no message overwrites.

Only model-checked, because liveness under fairness is beyond this prover:
`ProvideReturns`, `DisconnectReturns`, `DestroyedAfterStop`, `StopEndsRun`,
`DueIsDispatched`, `DeletedAtLast`, `RegistrationGoesOn`, and the temporal properties of the
findings. Besides these `HashIsPolynomial`, which states what a fold computes and
needs an induction over the text.

## Not modelled

Commented-out D-Bus code; the WIN32 branches, among them the socket pair that
stands for the wakeup descriptor there; `::poll` returning -1 when a signal
interrupts it, after which the iteration goes on with nothing ready; two watches
on one descriptor; the MurmurHash3 branch of `hash32`, which no
build file selects; the connection status event, whose listeners are the
application's (they are called with `connectionGuard_` held); `onWakeupMainContext`,
which nothing calls; `WampWatch` and `WampTimeout`, whose constructors are
commented out so that no object of them exists; `createProxy`, which returns
`nullptr`; `getWampBusType` and the translator's `init`, which read a map and a
path that nothing uses; what a data race does to the inside of a `std::map` of
the factory; the templates that adapt generated stubs; `WampClientId`,
`WampError`, `WampHelper`, `WampTypes`, which hold no state of the system; logging.

## Plan

1. Done: `WampConnection`, its runs and the proofs of its safety.
2. Done: `WampMainLoop`, `DispatchLifecycle`, their runs.
3. Done: `WampFactory` with `WampAddressTranslator`, its run, and the proofs of
   the translation and of the place of a service.
4. Done: `AttachedConnection`, the connection with its main loop, and its run.
5. Done: `WampKeys` with `MemberMap`, and its run; the proofs of the factory's
   remaining safety properties.
6. Done: `SessionHandle`, implemented by `WampConnection`; the remaining safety
   properties of the connection.
7. Done: the proofs of the main loop, of the attached connections and of the
   keys. Every safety property of the passing runs but `HashIsPolynomial` is
   now a theorem.
8. Done: what the loop keeps in the composition, what a connection and the
   factory never take back, who waits for whom, and the causes of the findings
   about the join, the descriptors and the mutexes as theorems.
9. Left: `HashIsPolynomial` and the liveness properties stay with TLC; the finding
   about timeouts is a liveness property and has no theorem.
