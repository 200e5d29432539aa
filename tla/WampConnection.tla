--------------------------- MODULE WampConnection ---------------------------
(***************************************************************************)
(* One WampConnection object (WampConnection.cpp/.hpp) and the threads     *)
(* that use it: application threads, the dispatch threads that connect()   *)
(* starts (they run io_.run()), and the continuations of the futures that  *)
(* carry a session through connect, start and join.  The stub side calls   *)
(* provideRemoteMethod and publishTopic (WampStubAdapterHelper.hpp) are    *)
(* here too, because they take the connection's ioMutex_ themselves.       *)
(*                                                                         *)
(* A thread's program counter names the statement it is about to execute.  *)
(* ioMutex and guard are what the code has: plain mutexes that are locked  *)
(* or not, with no record of an owner.  ioMutex_ is locked by connect()    *)
(* and unlocked by the join continuation, on another thread.               *)
(***************************************************************************)

EXTENDS Naturals, FiniteSets

CONSTANTS
    AppThreads,   \* application threads, each holding a reference at first
    Dispatchers,  \* the threads that connect() may create
    Sessions,     \* the autobahn sessions that connect() may create
    None,         \* the null pointer
    AppOps,       \* the calls the application makes
    HandlerOps,   \* the calls a stub makes while it serves an invocation
    StartModes,   \* the values of startDispatchThread in use
    Failures      \* what may go wrong outside the program

Ops == {"connect", "provide", "publish", "disconnect", "names", "attach",
        "release", "reply"}

FailureKinds == {"connect", "start", "join", "register", "lost", "thread"}

ASSUME ThreadsDisjoint == AppThreads \cap Dispatchers = {}
ASSUME NoneIsNobody ==
    /\ None \notin AppThreads \cup Dispatchers
    /\ None \notin Sessions
ASSUME OpsKnown ==
    /\ AppOps \subseteq Ops \ {"reply"}
    /\ HandlerOps \subseteq Ops \ {"release"}
    /\ StartModes \subseteq BOOLEAN
    /\ Failures \subseteq FailureKinds

VARIABLES
    pc,             \* the next statement of every thread
    life,           \* of the object: alive, in its destructor, destroyed,
                    \* or the process ended by std::terminate
    connected,      \* connected_
    ioMutex,        \* ioMutex_ is locked
    guard,          \* connectionGuard_ is locked
    session,        \* session_
    stage,          \* how far the future chain of each session has come
    result,         \* the result of the chain's outstanding request
    ioStopped,      \* io_.run() returns: io_.stop() was called or no work is left
    dispatchThread, \* dispatchThread_
    joining,        \* the thread that each disconnect() joins
    stopDispatching,\* stopDispatching_
    loopStopped,    \* hasToStop_ of the current loop_
    source,         \* the WampDispatchSource given to the main loop context
    reg,            \* each thread's outstanding register request
    provided        \* sessions on which a procedure is registered

vars == <<pc, life, connected, ioMutex, guard, session, stage, result,
          ioStopped, dispatchThread, joining, stopDispatching, loopStopped,
          source, reg, provided>>

handshake == <<session, stage, result>>
dispatching == <<dispatchThread, joining, stopDispatching, loopStopped, source>>
router == <<reg, provided>>

Threads == AppThreads \cup Dispatchers

-----------------------------------------------------------------------------
(* Types                                                                   *)

Outside == {"none", "gone"}          \* not created yet, or finished
Home(t) == IF t \in AppThreads THEN "idle" ELSE "run"

FirstStep == [connect |-> "connectTest", provide |-> "provWait",
              publish |-> "pubWait", disconnect |-> "discLock",
              names |-> "nameLock", attach |-> "attach", reply |-> "reply"]

PCs == Outside \cup
       {"idle", "run", "connectTest", "connectLock", "connectStart",
        "provWait", "provLock", "provGet", "pubWait", "pubLock", "pubSend",
        "discLock", "discBody", "discJoin", "nameLock", "attach", "reply",
        "dtorEnd"}

Stages == {"none", "connecting", "starting", "joining", "unlocked", "marked",
           "joined", "failed", "aborted"}

TypeOK ==
    /\ pc \in [Threads -> PCs]
    /\ life \in {"alive", "dtor", "destroyed", "terminated"}
    /\ connected \in BOOLEAN
    /\ ioMutex \in BOOLEAN
    /\ guard \in BOOLEAN
    /\ session \in Sessions \cup {None}
    /\ stage \in [Sessions -> Stages]
    /\ result \in [Sessions -> {"pending", "ok", "error"}]
    /\ ioStopped \in BOOLEAN
    /\ dispatchThread \in Dispatchers \cup {None}
    /\ joining \in [Threads -> Dispatchers \cup {None}]
    /\ stopDispatching \in BOOLEAN
    /\ loopStopped \in BOOLEAN
    /\ source \in {"none", "attached", "deleted"}
    /\ reg \in [Threads -> {"none", "pending", "ok", "error", "done"}]
    /\ provided \subseteq Sessions

Init ==
    /\ pc = [t \in Threads |-> IF t \in AppThreads THEN "idle" ELSE "none"]
    /\ life = "alive"
    /\ connected = FALSE
    /\ ioMutex = FALSE
    /\ guard = FALSE
    /\ session = None
    /\ stage = [n \in Sessions |-> "none"]
    /\ result = [n \in Sessions |-> "pending"]
    /\ ioStopped = FALSE
    /\ dispatchThread = None
    /\ joining = [t \in Threads |-> None]
    /\ stopDispatching = FALSE
    /\ loopStopped = FALSE
    /\ source = "none"
    /\ reg = [t \in Threads |-> "none"]
    /\ provided = {}

-----------------------------------------------------------------------------
(* Control flow                                                            *)

At(t, label) == life \in {"alive", "dtor"} /\ pc[t] = label
Goto(t, label) == pc' = [pc EXCEPT ![t] = label]

(* A call ends: back to the caller, which is the application, io_.run() or
   the destructor.                                                         *)
Back(t) == IF life = "dtor" THEN "dtorEnd" ELSE Home(t)
Return(t) == Goto(t, Back(t))

(* Bound: a connect() is made only while every one that is on its way to a
   new session finds one left, so that none waits for want of a session.   *)
SessionBound ==
    connected \/ Cardinality({n \in Sessions : stage[n] = "none"}) >
                 Cardinality({t \in Threads : pc[t] \in {"connectTest", "connectLock"}})

(* The application makes a call. *)
Call(t, op) ==
    /\ t \in AppThreads /\ op \in AppOps \ {"release"}
    /\ At(t, "idle")
    /\ op = "connect" => SessionBound
    /\ Goto(t, FirstStep[op])
    /\ UNCHANGED <<life, connected, ioMutex, guard, handshake, ioStopped,
                   dispatching, router>>

-----------------------------------------------------------------------------
(* connect(): the test, the lock with the start of the future chain, and   *)
(* the start of the dispatch thread.                                       *)

(* Mutant: the test of connected_ is left out. *)
MutConnectTest(t) ==
    /\ At(t, "connectTest")
    /\ Goto(t, "connectLock")
    /\ UNCHANGED <<life, connected, ioMutex, guard, handshake, ioStopped,
                   dispatching, router>>

ConnectTest(t) ==
    /\ At(t, "connectTest")
    /\ Goto(t, IF connected THEN Back(t) ELSE "connectLock")
    /\ UNCHANGED <<life, connected, ioMutex, guard, handshake, ioStopped,
                   dispatching, router>>

(* Mutant: the result of trying the lock is ignored. *)
MutConnectLock(t) ==
    /\ At(t, "connectLock")
    /\ \E n \in Sessions :
          /\ stage[n] = "none"
          /\ session' = n
          /\ stage' = [stage EXCEPT ![n] = "connecting"]
    /\ ioMutex' = TRUE
    /\ Goto(t, "connectStart")
    /\ UNCHANGED <<life, connected, guard, result, ioStopped, dispatching, router>>

ConnectLock(t) ==
    /\ At(t, "connectLock")
    /\ ~ioMutex
    /\ \E n \in Sessions :
          /\ stage[n] = "none"
          /\ session' = n
          /\ stage' = [stage EXCEPT ![n] = "connecting"]
    /\ ioMutex' = TRUE
    /\ Goto(t, "connectStart")
    /\ UNCHANGED <<life, connected, guard, result, ioStopped, dispatching, router>>

(* A loop is made and the dispatch source attached to its context before the
   thread is created.                                                      *)
ConnectStart(t) ==
    /\ At(t, "connectStart")
    /\ \E d \in Dispatchers :
          /\ pc[d] = "none"
          /\ dispatchThread' = d
          /\ pc' = [pc EXCEPT ![t] = Back(t), ![d] = "run"]
    /\ TRUE \in StartModes
    /\ stopDispatching' = FALSE
    /\ loopStopped' = FALSE
    /\ source' = "attached"
    /\ UNCHANGED <<life, connected, ioMutex, guard, handshake, ioStopped,
                   joining, router>>

(* connect(false): nobody runs io_ yet, the caller's main loop is expected to. *)
ConnectNoThread(t) ==
    /\ At(t, "connectStart")
    /\ FALSE \in StartModes
    /\ stopDispatching' = TRUE
    /\ Return(t)
    /\ UNCHANGED <<life, connected, ioMutex, guard, handshake, ioStopped,
                   dispatchThread, joining, loopStopped, source, router>>

(* The thread cannot be created: caught, connect() returns false. *)
ConnectThrows(t) ==
    /\ At(t, "connectStart")
    /\ "thread" \in Failures /\ TRUE \in StartModes
    /\ stopDispatching' = FALSE
    /\ loopStopped' = FALSE
    /\ source' = "attached"
    /\ Return(t)
    /\ UNCHANGED <<life, connected, ioMutex, guard, handshake, ioStopped,
                   dispatchThread, joining, router>>

(* The factory attaches a caller's context after connect(false). *)
AttachMainLoopContext(t) ==
    /\ At(t, "attach")
    /\ source' = "attached"
    /\ Return(t)
    /\ UNCHANGED <<life, connected, ioMutex, guard, handshake, ioStopped,
                   dispatchThread, joining, stopDispatching, loopStopped, router>>

-----------------------------------------------------------------------------
(* io_: what a dispatch thread does inside io_.run().  Replies come from   *)
(* the router; the library completes the matching promise.                 *)

Running(d) == d \in Dispatchers /\ At(d, "run") /\ ~ioStopped

Outstanding == {"connecting", "starting", "joining"}
FailureOf == [connecting |-> "connect", starting |-> "start", joining |-> "join"]

DeliverHandshake(d, n) ==
    /\ Running(d)
    /\ stage[n] \in Outstanding /\ result[n] = "pending"
    /\ \E r \in {"ok", "error"} :
          /\ r = "error" => FailureOf[stage[n]] \in Failures
          /\ result' = [result EXCEPT ![n] = r]
    /\ UNCHANGED <<pc, life, connected, ioMutex, guard, session, stage,
                   ioStopped, dispatching, router>>

Welcomed(n) == stage[n] \in {"unlocked", "marked", "joined"} /\ result[n] = "ok"

(* The REGISTERED reply, the router's ERROR, or the exception of a session
   that is not established.                                                *)
DeliverRegistration(d, t) ==
    /\ Running(d)
    /\ reg[t] = "pending"
    /\ \/ /\ Welcomed(session)
          /\ reg' = [reg EXCEPT ![t] = "ok"]
          /\ provided' = provided \cup {session}
       \/ /\ "register" \in Failures \/ ~Welcomed(session)
          /\ reg' = [reg EXCEPT ![t] = "error"]
          /\ UNCHANGED provided
    /\ UNCHANGED <<pc, life, connected, ioMutex, guard, handshake, ioStopped,
                   dispatching>>

(* The router calls a registered procedure: the stub's method runs on the
   dispatch thread and may use the connection.                             *)
Invoke(d, op) ==
    /\ Running(d)
    /\ provided # {}
    /\ op \in HandlerOps
    /\ op = "connect" => SessionBound
    /\ Goto(d, FirstStep[op])
    /\ UNCHANGED <<life, connected, ioMutex, guard, handshake, ioStopped,
                   dispatching, router>>

Reply(t) ==
    /\ At(t, "reply")
    /\ Return(t)
    /\ UNCHANGED <<life, connected, ioMutex, guard, handshake, ioStopped,
                   dispatching, router>>

(* The transport is lost and io_ runs out of work.  A session that session_
   no longer names was kept by its transport's read and goes with it.      *)
LoseTransport(d) ==
    /\ Running(d)
    /\ "lost" \in Failures
    /\ ioStopped' = TRUE
    /\ provided' = provided \cap {session}
    /\ UNCHANGED <<pc, life, connected, ioMutex, guard, handshake, dispatching, reg>>

-----------------------------------------------------------------------------
(* The continuations connect() installs.  Each may run at any time after   *)
(* its future is ready.                                                    *)

Ready(n, s) == life \in {"alive", "dtor"} /\ stage[n] = s /\ result[n] # "pending"

(* connected.get(), then session_->start(); started.get(), then
   session_->join(realm).  An exception stops io_ and leaves ioMutex_ locked. *)
NextStage == [connecting |-> "starting", starting |-> "joining"]

(* Mutant: the start continuation unlocks, before the session has joined. *)
MutContinueHandshake(n) ==
    /\ \E s \in DOMAIN NextStage :
          /\ Ready(n, s)
          /\ \/ /\ result[n] = "ok"
                /\ stage' = [stage EXCEPT ![n] = NextStage[s]]
                /\ result' = [result EXCEPT ![n] = "pending"]
                /\ ioMutex' = (ioMutex /\ s # "starting")
                /\ UNCHANGED ioStopped
             \/ /\ result[n] = "error"
                /\ stage' = [stage EXCEPT ![n] = "failed"]
                /\ ioStopped' = TRUE
                /\ UNCHANGED <<result, ioMutex>>
    /\ UNCHANGED <<pc, life, connected, guard, session, dispatching, router>>

ContinueHandshake(n) ==
    /\ \E s \in DOMAIN NextStage :
          /\ Ready(n, s)
          /\ \/ /\ result[n] = "ok"
                /\ stage' = [stage EXCEPT ![n] = NextStage[s]]
                /\ result' = [result EXCEPT ![n] = "pending"]
                /\ UNCHANGED ioStopped
             \/ /\ result[n] = "error"
                /\ stage' = [stage EXCEPT ![n] = "failed"]
                /\ ioStopped' = TRUE
                /\ UNCHANGED result
    /\ UNCHANGED <<pc, life, connected, ioMutex, guard, session, dispatching,
                   router>>

(* The join continuation: ioMutex_.unlock(), connected_ = true, and only
   then joined.get(), which may throw.                                     *)
JoinUnlock(n) ==
    /\ Ready(n, "joining")
    /\ ioMutex' = FALSE
    /\ stage' = [stage EXCEPT ![n] = "unlocked"]
    /\ UNCHANGED <<pc, life, connected, guard, session, result, ioStopped,
                   dispatching, router>>

JoinMark(n) ==
    /\ Ready(n, "unlocked")
    /\ connected' = TRUE
    /\ stage' = [stage EXCEPT ![n] = "marked"]
    /\ UNCHANGED <<pc, life, ioMutex, guard, session, result, ioStopped,
                   dispatching, router>>

JoinGet(n) ==
    /\ Ready(n, "marked")
    /\ \/ /\ result[n] = "ok"
          /\ stage' = [stage EXCEPT ![n] = "joined"]
          /\ UNCHANGED ioStopped
       \/ /\ result[n] = "error"
          /\ stage' = [stage EXCEPT ![n] = "aborted"]
          /\ ioStopped' = TRUE
    /\ UNCHANGED <<pc, life, connected, ioMutex, guard, session, result,
                   dispatching, router>>

Continue(n) == ContinueHandshake(n) \/ JoinUnlock(n) \/ JoinMark(n) \/ JoinGet(n)

-----------------------------------------------------------------------------
(* provideRemoteMethod: spin until connected, lock, register and wait for  *)
(* the reply with ioMutex_ held.                                           *)

ProvideWait(t) ==
    /\ At(t, "provWait")
    /\ connected
    /\ Goto(t, "provLock")
    /\ UNCHANGED <<life, connected, ioMutex, guard, handshake, ioStopped,
                   dispatching, router>>

(* Mutant: the lock is given back before the reply is waited for. *)
MutProvideLock(t) ==
    /\ At(t, "provLock")
    /\ ~ioMutex
    /\ reg' = [reg EXCEPT ![t] = "pending"]
    /\ Goto(t, "provGet")
    /\ UNCHANGED <<life, connected, ioMutex, guard, handshake, ioStopped, dispatching,
                   provided>>

ProvideLock(t) ==
    /\ At(t, "provLock")
    /\ ~ioMutex
    /\ ioMutex' = TRUE
    /\ reg' = [reg EXCEPT ![t] = "pending"]
    /\ Goto(t, "provGet")
    /\ UNCHANGED <<life, connected, guard, handshake, ioStopped, dispatching,
                   provided>>

(* The continuation of the registration; an error stops io_. *)
ContinueRegistration(t) ==
    /\ life = "alive"
    /\ \/ reg[t] = "ok" /\ UNCHANGED ioStopped
       \/ reg[t] = "error" /\ ioStopped' = TRUE
    /\ reg' = [reg EXCEPT ![t] = "done"]
    /\ UNCHANGED <<pc, life, connected, ioMutex, guard, handshake, dispatching,
                   provided>>

(* Mutant: the unlock after the reply is missing. *)
MutProvideUnlock(t) ==
    /\ At(t, "provGet")
    /\ reg[t] = "done"
    /\ reg' = [reg EXCEPT ![t] = "none"]
    /\ Return(t)
    /\ UNCHANGED <<life, connected, ioMutex, guard, handshake, ioStopped,
                   dispatching, provided>>

ProvideUnlock(t) ==
    /\ At(t, "provGet")
    /\ reg[t] = "done"
    /\ reg' = [reg EXCEPT ![t] = "none"]
    /\ ioMutex' = FALSE
    /\ Return(t)
    /\ UNCHANGED <<life, connected, guard, handshake, ioStopped, dispatching,
                   provided>>

-----------------------------------------------------------------------------
(* publishTopic: spin until connected, lock, publish, unlock. *)

PublishWait(t) ==
    /\ At(t, "pubWait")
    /\ connected
    /\ Goto(t, "pubLock")
    /\ UNCHANGED <<life, connected, ioMutex, guard, handshake, ioStopped,
                   dispatching, router>>

(* Mutant: publishTopic uses the session without the lock. *)
MutPublishLock(t) ==
    /\ At(t, "pubLock")
    /\ Goto(t, "pubSend")
    /\ UNCHANGED <<life, connected, ioMutex, guard, handshake, ioStopped,
                   dispatching, router>>

PublishLock(t) ==
    /\ At(t, "pubLock")
    /\ ~ioMutex
    /\ ioMutex' = TRUE
    /\ Goto(t, "pubSend")
    /\ UNCHANGED <<life, connected, guard, handshake, ioStopped, dispatching,
                   router>>

PublishUnlock(t) ==
    /\ At(t, "pubSend")
    /\ ioMutex' = FALSE
    /\ Return(t)
    /\ UNCHANGED <<life, connected, guard, handshake, ioStopped, dispatching,
                   router>>

-----------------------------------------------------------------------------
(* disconnect(), and the service name calls that share connectionGuard_.   *)

(* Mutant: no lock_guard in disconnect(). *)
MutDisconnectLock(t) ==
    /\ At(t, "discLock")
    /\ \/ /\ connected
          /\ stopDispatching' = TRUE
          /\ Goto(t, "discBody")
       \/ /\ ~connected
          /\ Return(t)
          /\ UNCHANGED stopDispatching
    /\ UNCHANGED <<life, connected, ioMutex, guard, handshake, ioStopped,
                   dispatchThread, joining, loopStopped, source, router>>

(* Mutant: a lock without a guard object, not unlocked on the early return. *)
MutDisconnectEarlyReturn(t) ==
    /\ At(t, "discLock")
    /\ ~guard
    /\ guard' = TRUE
    /\ \/ /\ connected
          /\ stopDispatching' = TRUE
          /\ Goto(t, "discBody")
       \/ /\ ~connected
          /\ Return(t)
          /\ UNCHANGED stopDispatching
    /\ UNCHANGED <<life, connected, ioMutex, handshake, ioStopped,
                   dispatchThread, joining, loopStopped, source, router>>

DisconnectLock(t) ==
    /\ At(t, "discLock")
    /\ ~guard
    /\ \/ /\ connected
          /\ guard' = TRUE
          /\ stopDispatching' = TRUE
          /\ Goto(t, "discBody")
       \/ /\ ~connected
          /\ Return(t)
          /\ UNCHANGED <<guard, stopDispatching>>
    /\ UNCHANGED <<life, connected, ioMutex, handshake, ioStopped,
                   dispatchThread, joining, loopStopped, source, router>>

DisconnectNoThread(t) ==
    /\ At(t, "discBody")
    /\ dispatchThread = None
    /\ guard' = FALSE
    /\ Return(t)
    /\ UNCHANGED <<life, connected, ioMutex, handshake, ioStopped, dispatching,
                   router>>

(* Mutant: the caller is not compared with the dispatch thread. *)
MutMayJoin(t) == dispatchThread # None

(* Any thread is joined but the caller itself, which is detached. *)
MayJoin(t) == dispatchThread \notin {None, t}

(* Mutant: the calling thread is joined. *)
MutJoinTarget(t) == t

JoinTarget(t) == dispatchThread

(* loop_->stop() and join(). *)
DisconnectJoin(t) ==
    /\ At(t, "discBody")
    /\ MayJoin(t)
    /\ loopStopped' = TRUE
    /\ joining' = [joining EXCEPT ![t] = JoinTarget(t)]
    /\ Goto(t, "discJoin")
    /\ UNCHANGED <<life, connected, ioMutex, guard, handshake, ioStopped,
                   dispatchThread, stopDispatching, source, router>>

DisconnectDetach(t) ==
    /\ At(t, "discBody")
    /\ dispatchThread = t
    /\ loopStopped' = TRUE
    /\ dispatchThread' = None
    /\ guard' = FALSE
    /\ Return(t)
    /\ UNCHANGED <<life, connected, ioMutex, handshake, ioStopped, joining,
                   stopDispatching, source, router>>

(* join() returned; dispatchThread_ is read again to be deleted.  If a
   connect() has put another, running thread there, its std::thread is
   deleted while joinable and the process ends.                            *)
DisconnectJoined(t) ==
    /\ At(t, "discJoin")
    /\ pc[joining[t]] = "gone"
    /\ \/ /\ dispatchThread = joining[t]
          /\ dispatchThread' = None
          /\ joining' = [joining EXCEPT ![t] = None]
          /\ guard' = FALSE
          /\ Return(t)
          /\ UNCHANGED life
       \/ /\ dispatchThread # joining[t]
          /\ life' = "terminated"
          /\ UNCHANGED <<pc, dispatchThread, joining, guard>>
    /\ UNCHANGED <<connected, ioMutex, handshake, ioStopped, stopDispatching,
                   loopStopped, source, router>>

(* requestServiceNameAndBlock and releaseServiceName: connectionNameCount_
   is always empty, so both find nothing under the guard and return false. *)
ServiceName(t) ==
    /\ At(t, "nameLock")
    /\ ~guard
    /\ Return(t)
    /\ UNCHANGED <<life, connected, ioMutex, guard, handshake, ioStopped,
                   dispatching, router>>

-----------------------------------------------------------------------------
(* References.  An application thread drops its shared_ptr; a dispatch     *)
(* thread drops the one std::bind gave it when io_.run() returns.  The     *)
(* last one out runs the destructor.                                       *)

(* Mutant: the procedure is bound to a reference to the stub adapter. *)
MutBoundCopies == {}

(* std::bind copies the stub adapter, and with it a reference, into the
   procedure, which a session keeps that the connection itself keeps: a cycle
   that nothing breaks.                                                    *)
BoundCopies == provided

(* Mutant: the dispatch thread is bound to this and holds no reference. *)
MutOtherReferences(t) ==
    {u \in AppThreads \ {t} : pc[u] \notin Outside} \cup BoundCopies

OtherReferences(t) ==
    {u \in Threads \ {t} : pc[u] \notin Outside} \cup BoundCopies

DropReference(t) ==
    /\ \/ /\ OtherReferences(t) # {}
          /\ Goto(t, "gone")
          /\ UNCHANGED <<life, source>>
       \/ /\ OtherReferences(t) = {}
          /\ life' = "dtor"
          /\ source' = IF source = "attached" THEN "deleted" ELSE source
          /\ Goto(t, "discLock")
    /\ UNCHANGED <<connected, ioMutex, guard, handshake, ioStopped,
                   dispatchThread, joining, stopDispatching, loopStopped, router>>

Release(t) ==
    /\ t \in AppThreads /\ "release" \in AppOps
    /\ life = "alive" /\ pc[t] = "idle"
    /\ DropReference(t)

(* Mutant: the reference given to the thread is never dropped. *)
MutRunReturns(d) ==
    /\ d \in Dispatchers
    /\ life = "alive" /\ pc[d] = "run"
    /\ ioStopped
    /\ Goto(d, "gone")
    /\ UNCHANGED <<life, connected, ioMutex, guard, handshake, ioStopped,
                   dispatching, router>>

(* Mutant: io_.run_one(), which returns after one completion. *)
MutRunsOnce(d) ==
    /\ d \in Dispatchers
    /\ life = "alive" /\ pc[d] = "run"
    /\ DropReference(d)

RunReturns(d) ==
    /\ d \in Dispatchers
    /\ life = "alive" /\ pc[d] = "run"
    /\ ioStopped
    /\ DropReference(d)

(* The future of a continuation that has not ended yet. *)
Unfulfilled(n) == stage[n] \in Outstanding \cup {"unlocked", "marked"}

(* The members go, the futures among them: destroying the future of a
   continuation blocks until that has ended, which one whose answer never
   comes does not do.                                                      *)
FinishDestructor(t) ==
    /\ At(t, "dtorEnd")
    /\ \A n \in Sessions : ~Unfulfilled(n)
    /\ life' = "destroyed"
    /\ Goto(t, "gone")
    /\ UNCHANGED <<connected, ioMutex, guard, handshake, ioStopped, dispatching,
                   router>>

-----------------------------------------------------------------------------
Acquire(t) == \/ ConnectLock(t) \/ ProvideLock(t) \/ PublishLock(t)
              \/ DisconnectLock(t) \/ ServiceName(t)

Advance(t) == \/ ConnectTest(t) \/ ConnectStart(t) \/ ConnectNoThread(t)
              \/ ConnectThrows(t) \/ AttachMainLoopContext(t) \/ Reply(t)
              \/ ProvideWait(t) \/ ProvideUnlock(t)
              \/ PublishWait(t) \/ PublishUnlock(t)
              \/ DisconnectNoThread(t) \/ DisconnectJoin(t)
              \/ DisconnectDetach(t) \/ DisconnectJoined(t)
              \/ FinishDestructor(t)

Next ==
    \/ \E t \in Threads :
          \/ \E op \in AppOps : Call(t, op)
          \/ Acquire(t)
          \/ Advance(t)
          \/ ContinueRegistration(t)
    \/ \E t \in AppThreads : Release(t)
    \/ \E d \in Dispatchers :
          \/ \E n \in Sessions : DeliverHandshake(d, n)
          \/ \E t \in Threads : DeliverRegistration(d, t)
          \/ \E op \in HandlerOps : Invoke(d, op)
          \/ LoseTransport(d)
          \/ RunReturns(d)
    \/ \E n \in Sessions : Continue(n)

Spec == Init /\ [][Next]_vars

(* Threads run, the mutexes are not unfair for ever, and asio takes the
   completions that are ready in turn, so a stream of invocations does not
   keep a reply from being handled.  Nothing makes the application call,
   the router invoke or a failure happen.                                  *)
Fairness ==
    /\ \A t \in Threads :
          /\ WF_vars(Advance(t))
          /\ SF_vars(Acquire(t))
          /\ WF_vars(ContinueRegistration(t))
          /\ SF_vars(\E d \in Dispatchers : DeliverRegistration(d, t))
    /\ \A d \in Dispatchers : WF_vars(RunReturns(d))
    /\ \A n \in Sessions :
          /\ WF_vars(Continue(n))
          /\ SF_vars(\E d \in Dispatchers : DeliverHandshake(d, n))

FairSpec == Spec /\ Fairness

-----------------------------------------------------------------------------
(* Safety                                                                  *)

ChainHolds == {"connecting", "starting", "joining", "failed"}
InSession == {"provGet", "pubSend"}
Guarded == {"discBody", "discJoin"}

(* ioMutex_ is locked exactly when one party owns it: the future chain of
   one session from connect() up to its unlock, or one thread between the
   lock and the unlock of provideRemoteMethod or publishTopic.  So the
   unlock in the join continuation, made by a thread that did not lock,
   never frees a lock that somebody else has taken.                        *)
ChainOwns(n) == stage[n] \in ChainHolds
CallOwns(t) == pc[t] \in InSession

IoMutexHasOneOwner ==
    /\ ioMutex <=> \/ \E n \in Sessions : ChainOwns(n)
                   \/ \E t \in Threads : CallOwns(t)
    /\ \A n, m \in Sessions : ChainOwns(n) /\ ChainOwns(m) => n = m
    /\ \A t, u \in Threads : CallOwns(t) /\ CallOwns(u) => t = u
    /\ \A n \in Sessions, t \in Threads : ~(ChainOwns(n) /\ CallOwns(t))

(* The continuations and the stubs reach the session through the member
   session_, which a second connect() overwrites.  While a chain is under
   way session_ is the session it was started for, and a stub that uses
   session_ finds one whose handshake is over.                             *)
SessionIsTheOneMeant ==
    /\ \A n \in Sessions : ChainOwns(n) => session = n
    /\ \A t \in Threads : CallOwns(t) =>
          /\ session # None
          /\ stage[session] \in {"unlocked", "marked", "joined", "aborted"}

(* session_ is never replaced under a call that is using it. *)
SessionKeptInUse ==
    [][session' # session => \A t \in Threads : ~CallOwns(t)]_vars

(* ioMutex_ and session_ together keep the promise of SessionHandle: although
   one thread locks and a continuation on another unlocks, the session passes
   from one user to the next only through being free.                      *)
Handle == INSTANCE SessionHandle WITH
    opened <- {n \in Sessions : stage[n] # "none"},
    opening <- {n \in Sessions : ChainOwns(n)},
    using <- {t \in Threads : CallOwns(t)}

SessionIsHandedOver == Handle!Spec

(* connectionGuard_ is held by the one disconnect() that is in its body, and
   that disconnect() never joins the thread it runs on, also when it is
   called from a stub's method or from the destructor on the dispatch
   thread.                                                                 *)
DisconnectIsSerial ==
    /\ guard <=> \E t \in Threads : pc[t] \in Guarded
    /\ \A t, u \in Threads : pc[t] \in Guarded /\ pc[u] \in Guarded => t = u
    /\ \A t \in Threads : pc[t] = "discJoin" => joining[t] \notin {None, t}

(* No thread or continuation still has work to do on the connection when the
   last reference is gone and the object destroyed, and no procedure that the
   router may call is left that would use it.                              *)
DestroyedWhenUnused ==
    life = "destroyed" =>
       /\ \A t \in Threads : pc[t] \in Outside
       /\ provided = {}
       /\ \A n \in Sessions : ~Unfulfilled(n)

(* The std::thread that disconnect() deletes is the one it joined, and the
   process does not end, unless two connect() calls both found connected_
   unset and started a handshake each.                                     *)
TerminatedByTwoConnects ==
    life = "terminated" =>
       \E n, m \in Sessions : n # m /\ stage[n] # "none" /\ stage[m] # "none"

(* connected_ is never reset: once it is set and the calls that found it unset
   are through with session_, that session is the last one.  No connect()
   replaces it, not after disconnect() and not after a lost transport.     *)
Settled == connected /\ \A t \in Threads : pc[t] # "connectLock"

SessionIsFinal == [][Settled => Settled' /\ session' = session]_vars

(* Who waits for another thread waits for one that goes on: a registration,
   with ioMutex_ held, for a dispatch thread in io_.run(), unless io_ has
   stopped; a disconnect(), with connectionGuard_ held, for a thread that was
   started and is in io_.run() or through.  This takes methods of the stubs
   that do not wait for either mutex themselves.                           *)
Serving == {"run", "reply", "attach", "connectTest"}

WaitersAreServed ==
    /\ \A t \in Threads : reg[t] = "pending" =>
          ioStopped \/ \E d \in Dispatchers : pc[d] \in Serving
    /\ \A t \in Threads : pc[t] = "discJoin" =>
          pc[joining[t]] \in Serving \cup {"gone"}

(* The comment in provideRemoteMethod and publishTopic: they spin "until the
   session is started and joined".                                         *)
UsesJoinedSession ==
    \A t \in Threads : CallOwns(t) => Welcomed(session)

-----------------------------------------------------------------------------
(* What the proofs need besides, to make the invariants above inductive.   *)

(* A register request belongs to a thread that waits for it. *)
RequestIsAwaited ==
    \A t \in Threads : reg[t] # "none" => pc[t] = "provGet"

(* session_ is set before connected_ and never cleared. *)
SessionExists ==
    /\ session # None => stage[session] # "none"
    /\ \A n \in Sessions : stage[n] # "none" => session # None
    /\ connected => session # None
    /\ \A t \in Threads : pc[t] \in {"provLock", "pubLock"} => connected

SessionInv ==
    /\ TypeOK
    /\ RequestIsAwaited
    /\ SessionExists
    /\ IoMutexHasOneOwner
    /\ SessionIsTheOneMeant

(* In the destructor one thread is left, and it is in disconnect() or behind. *)
LastThread ==
    /\ \A t \in Threads : pc[t] = "dtorEnd" => life = "dtor"
    /\ life = "dtor" => \A t \in Threads :
          pc[t] \in Outside \cup Guarded \cup {"discLock", "dtorEnd"}
    /\ life = "dtor" => \A t, u \in Threads :
          pc[t] \notin Outside /\ pc[u] \notin Outside => t = u
    /\ life = "dtor" => provided = {}

LifeInv == TypeOK /\ DisconnectIsSerial /\ LastThread /\ DestroyedWhenUnused

-----------------------------------------------------------------------------
(* Liveness                                                                *)

Connecting == \E n \in Sessions : stage[n] # "none"

(* provideRemoteMethod returns once a connect() has started a handshake,
   unless io_ stops meanwhile.                                             *)
ProvideReturns ==
    \A t \in Threads :
       (pc[t] \in {"provWait", "provLock", "provGet"} /\ Connecting)
          ~> (pc[t] = Home(t) \/ ioStopped)

(* disconnect() returns when io_ has stopped, for io_.run() is then the only
   thing that it waits for.                                                *)
DisconnectReturns ==
    \A t \in Threads :
       (pc[t] \in Guarded \cup {"discLock"} /\ ioStopped)
          ~> pc[t] \notin Guarded \cup {"discLock"}

(* The comment in disconnect(): it may be called from a callback, on the
   dispatch thread itself.  Such a call returns.                           *)
CallbackDisconnectReturns ==
    \A d \in Dispatchers :
       pc[d] \in Guarded \cup {"discLock"}
          ~> pc[d] \notin Guarded \cup {"discLock"}

NoOutsideReference == \A t \in AppThreads : pc[t] = "gone"

(* A step of the handshake was asked for and io_ has stopped before the answer
   was there.                                                              *)
Unanswered ==
    ioStopped /\ \E n \in Sessions : stage[n] \in Outstanding /\ result[n] = "pending"

(* When io_ has stopped and only dispatch threads refer to the connection,
   it is destroyed, provided that no procedure was ever registered on it; or
   the destructor hangs in the future of a handshake that nobody will answer
   any more, and for no other reason.                                      *)
DestroyedAfterStop ==
    (NoOutsideReference /\ ioStopped /\ provided = {})
       ~> (life = "destroyed" \/ Unanswered)
=============================================================================
