------------------------ MODULE WampConnectionProofs ------------------------
(***************************************************************************)
(* Proofs about WampConnection for any sets of threads, dispatch threads   *)
(* and sessions, any calls, and any failures.                              *)
(***************************************************************************)
EXTENDS WampConnection, TLAPS

-----------------------------------------------------------------------------
(* Control flow facts                                                      *)

(* A call returns to the application, to io_.run() or to the destructor. *)
LEMMA BackLabels ==
    ASSUME NEW t PROVE Back(t) \in {"idle", "run", "dtorEnd"}
BY DEF Back, Home

(* The first statement of every call the program can make. *)
LEMMA FirstLabels ==
    ASSUME NEW op \in Ops \ {"release"}
    PROVE  FirstStep[op] \in {"connectTest", "provWait", "pubWait", "discLock",
                              "nameLock", "attach", "reply"}
BY DEF FirstStep, Ops

(* The continuations that go on with the handshake, and where to. *)
LEMMA NextStages ==
    ASSUME NEW s \in DOMAIN NextStage
    PROVE  s \in {"connecting", "starting"} /\ NextStage[s] \in {"starting", "joining"}
BY DEF NextStage

-----------------------------------------------------------------------------
(* Typing                                                                  *)

(* A step from a state with the types right leaves them right; that a
   REGISTERED reply is for an existing session_ comes from SessionInv.     *)
LEMMA TypingStep == SessionInv /\ [Next]_vars => TypeOK'
<1> SUFFICES ASSUME SessionInv, [Next]_vars PROVE TypeOK'
  OBVIOUS
<1>0. TypeOK /\ RequestIsAwaited /\ SessionIsTheOneMeant
  BY DEF SessionInv
<1> USE <1>0 DEF TypeOK
<1>1. ASSUME NEW t \in Threads, NEW op \in AppOps, Call(t, op) PROVE TypeOK'
  BY <1>1, FirstLabels, OpsKnown
     DEF Call, Goto, PCs, Outside, handshake, dispatching, router
<1>2. ASSUME NEW t \in Threads, Acquire(t) PROVE TypeOK'
  <2> USE BackLabels
          DEF Goto, Return, PCs, Outside, handshake, dispatching, router
  <2>1. CASE ConnectLock(t)
    BY <2>1 DEF ConnectLock, Stages
  <2>2. CASE ProvideLock(t)
    BY <2>2 DEF ProvideLock
  <2>3. CASE PublishLock(t)
    BY <2>3 DEF PublishLock
  <2>4. CASE DisconnectLock(t)
    BY <2>4 DEF DisconnectLock
  <2>5. CASE ServiceName(t)
    BY <2>5 DEF ServiceName
  <2> QED BY <1>2, <2>1, <2>2, <2>3, <2>4, <2>5 DEF Acquire
<1>3. ASSUME NEW t \in Threads, Advance(t) PROVE TypeOK'
  <2> USE BackLabels
          DEF Goto, Return, PCs, Outside, handshake, dispatching, router
  <2>1. CASE ConnectTest(t)
    BY <2>1 DEF ConnectTest
  <2>2. CASE ConnectStart(t)
    BY <2>2 DEF ConnectStart
  <2>3. CASE ConnectNoThread(t)
    BY <2>3 DEF ConnectNoThread
  <2>4. CASE ConnectThrows(t)
    BY <2>4 DEF ConnectThrows
  <2>5. CASE AttachMainLoopContext(t)
    BY <2>5 DEF AttachMainLoopContext
  <2>6. CASE Reply(t)
    BY <2>6 DEF Reply
  <2>7. CASE ProvideWait(t)
    BY <2>7 DEF ProvideWait
  <2>8. CASE ProvideUnlock(t)
    BY <2>8 DEF ProvideUnlock
  <2>9. CASE PublishWait(t)
    BY <2>9 DEF PublishWait
  <2>10. CASE PublishUnlock(t)
    BY <2>10 DEF PublishUnlock
  <2>11. CASE DisconnectNoThread(t)
    BY <2>11 DEF DisconnectNoThread
  <2>12. CASE DisconnectJoin(t)
    BY <2>12 DEF DisconnectJoin, MayJoin, JoinTarget
  <2>13. CASE DisconnectDetach(t)
    BY <2>13 DEF DisconnectDetach
  <2>14. CASE DisconnectJoined(t)
    <3>1. /\ pc' \in [Threads -> PCs]
          /\ joining' \in [Threads -> Dispatchers \cup {None}]
          /\ dispatchThread' \in Dispatchers \cup {None}
      BY <2>14 DEF DisconnectJoined
    <3>2. life' \in {"alive", "dtor", "destroyed", "terminated"} /\ guard' \in BOOLEAN
      BY <2>14 DEF DisconnectJoined
    <3>3. UNCHANGED <<connected, ioMutex, session, stage, result, ioStopped,
                      stopDispatching, loopStopped, source, reg, provided>>
      BY <2>14 DEF DisconnectJoined
    <3> QED BY <3>1, <3>2, <3>3
  <2>15. CASE FinishDestructor(t)
    BY <2>15 DEF FinishDestructor
  <2> QED BY <1>3, <2>1, <2>2, <2>3, <2>4, <2>5, <2>6, <2>7, <2>8, <2>9,
             <2>10, <2>11, <2>12, <2>13, <2>14, <2>15 DEF Advance
<1>4. ASSUME NEW t \in Threads, ContinueRegistration(t) PROVE TypeOK'
  BY <1>4 DEF ContinueRegistration, handshake, dispatching
<1>5. ASSUME NEW t \in Threads, DropReference(t) PROVE TypeOK'
  BY <1>5 DEF DropReference, Goto, PCs, Outside, handshake, router
<1>6. ASSUME NEW d \in Dispatchers, NEW n \in Sessions, DeliverHandshake(d, n)
      PROVE  TypeOK'
  BY <1>6 DEF DeliverHandshake, dispatching, router
<1>7. ASSUME NEW d \in Dispatchers, NEW t \in Threads, DeliverRegistration(d, t)
      PROVE  TypeOK'
  <2>1. session \in Sessions
    BY <1>7 DEF DeliverRegistration, RequestIsAwaited, SessionIsTheOneMeant,
                CallOwns, InSession
  <2> QED
    BY <1>7, <2>1 DEF DeliverRegistration, handshake, dispatching
<1>8. ASSUME NEW d \in Dispatchers, NEW op \in HandlerOps, Invoke(d, op)
      PROVE  TypeOK'
  BY <1>8, FirstLabels, OpsKnown
     DEF Invoke, Goto, PCs, Outside, Threads, handshake, dispatching, router
<1>9. ASSUME NEW d \in Dispatchers, LoseTransport(d) PROVE TypeOK'
  BY <1>9 DEF LoseTransport, handshake, dispatching, router
<1>10. ASSUME NEW n \in Sessions, Continue(n) PROVE TypeOK'
  <2> USE DEF Stages, dispatching, router
  <2>1. CASE ContinueHandshake(n)
    <3> PICK s \in DOMAIN NextStage :
            \/ /\ stage' = [stage EXCEPT ![n] = NextStage[s]]
               /\ result' = [result EXCEPT ![n] = "pending"]
               /\ UNCHANGED ioStopped
            \/ /\ stage' = [stage EXCEPT ![n] = "failed"]
               /\ ioStopped' = TRUE
               /\ UNCHANGED result
      BY <2>1 DEF ContinueHandshake
    <3>1. stage' \in [Sessions -> Stages]
      BY NextStages
    <3>2. result' \in [Sessions -> {"pending", "ok", "error"}]
      OBVIOUS
    <3>3. ioStopped' \in BOOLEAN
      OBVIOUS
    <3> QED BY <2>1, <3>1, <3>2, <3>3 DEF ContinueHandshake
  <2>2. CASE JoinUnlock(n)
    BY <2>2 DEF JoinUnlock
  <2>3. CASE JoinMark(n)
    BY <2>3 DEF JoinMark
  <2>4. CASE JoinGet(n)
    <3>1. ioStopped' \in BOOLEAN
      BY <2>4 DEF JoinGet
    <3>2. stage' \in [Sessions -> Stages]
      BY <2>4 DEF JoinGet
    <3> QED BY <2>4, <3>1, <3>2 DEF JoinGet
  <2> QED BY <1>10, <2>1, <2>2, <2>3, <2>4 DEF Continue
<1>11. CASE UNCHANGED vars
  BY <1>11 DEF vars
<1> HIDE DEF TypeOK
<1>12. ASSUME NEW t \in AppThreads, Release(t) PROVE TypeOK'
  BY <1>5, <1>12 DEF Release, Threads
<1>13. ASSUME NEW d \in Dispatchers, RunReturns(d) PROVE TypeOK'
  BY <1>5, <1>13 DEF RunReturns, Threads
<1> QED
  BY <1>1, <1>2, <1>3, <1>4, <1>6, <1>7, <1>8, <1>9, <1>10, <1>11, <1>12, <1>13
     DEF Next

-----------------------------------------------------------------------------
(* The session and its mutex                                               *)

SessionParts ==
    /\ RequestIsAwaited
    /\ SessionExists
    /\ IoMutexHasOneOwner
    /\ SessionIsTheOneMeant

(* A step that leaves the session, its chain, the requests and ioMutex_ alone
   and moves threads only outside the code that ioMutex_ protects.         *)
Quiet ==
    /\ UNCHANGED <<session, stage, connected, ioMutex, reg>>
    /\ \A t \in Threads :
          \/ pc'[t] = pc[t]
          \/ pc[t] \notin InSession /\ pc'[t] \notin InSession \cup {"provLock", "pubLock"}

(* Such a step keeps everything that is said of ioMutex_ and session_. *)
LEMMA QuietStep == SessionInv /\ Quiet => SessionParts'
<1> SUFFICES ASSUME SessionInv, Quiet PROVE SessionParts'
  OBVIOUS
<1> USE DEF SessionInv, Quiet, InSession
<1>1. RequestIsAwaited'
  BY DEF RequestIsAwaited
<1>2. SessionExists'
  BY DEF SessionExists
<1>3. \A t \in Threads : CallOwns(t)' <=> CallOwns(t)
  BY DEF CallOwns
<1>4. \A n \in Sessions : ChainOwns(n)' <=> ChainOwns(n)
  BY DEF ChainOwns
<1>5. IoMutexHasOneOwner'
  BY <1>3, <1>4 DEF IoMutexHasOneOwner
<1>6. SessionIsTheOneMeant'
  BY <1>3, <1>4 DEF SessionIsTheOneMeant
<1> QED BY <1>1, <1>2, <1>5, <1>6 DEF SessionParts

(* A thread takes ioMutex_ to use session_: the chain of session_ is over. *)
LEMMA LockForSession ==
    ASSUME SessionInv, NEW t \in Threads,
           pc[t] \in {"provLock", "pubLock"}, ~ioMutex, ioMutex' = TRUE,
           UNCHANGED <<session, stage, connected>>,
           NEW label \in InSession, pc' = [pc EXCEPT ![t] = label],
           \A u \in Threads \ {t} : reg'[u] = reg[u],
           reg'[t] # "none" => label = "provGet"
    PROVE  SessionParts'
<1> USE DEF SessionInv, InSession
<1>1. \A u \in Threads : ~CallOwns(u)
  BY DEF IoMutexHasOneOwner
<1>2. \A n \in Sessions : ~ChainOwns(n) /\ ~ChainOwns(n)'
  BY DEF IoMutexHasOneOwner, ChainOwns
<1>3. \A u \in Threads : CallOwns(u)' <=> u = t
  BY <1>1 DEF CallOwns, TypeOK
<1>4. session \in Sessions /\ stage[session] \in {"unlocked", "marked", "joined", "aborted"}
  BY <1>2 DEF SessionExists, ChainOwns, ChainHolds, TypeOK, Stages
<1>5. RequestIsAwaited'
  BY <1>1 DEF RequestIsAwaited, TypeOK, CallOwns
<1>6. SessionExists'
  BY DEF SessionExists, TypeOK
<1>7. IoMutexHasOneOwner'
  BY <1>2, <1>3 DEF IoMutexHasOneOwner
<1>8. SessionIsTheOneMeant'
  BY <1>2, <1>3, <1>4, NoneIsNobody DEF SessionIsTheOneMeant
<1> QED BY <1>5, <1>6, <1>7, <1>8 DEF SessionParts

(* The owner of ioMutex_ gives it back. *)
LEMMA UnlockSession ==
    ASSUME SessionInv, NEW t \in Threads, CallOwns(t), ioMutex' = FALSE,
           UNCHANGED <<session, stage, connected>>,
           NEW label, label \in {"idle", "run", "dtorEnd"},
           pc' = [pc EXCEPT ![t] = label],
           \A u \in Threads \ {t} : reg'[u] = reg[u],
           reg'[t] = "none"
    PROVE  SessionParts'
<1> USE DEF SessionInv, InSession
<1>1. \A u \in Threads : CallOwns(u) => u = t
  BY DEF IoMutexHasOneOwner
<1>2. \A n \in Sessions : ~ChainOwns(n) /\ ~ChainOwns(n)'
  BY DEF IoMutexHasOneOwner, ChainOwns
<1>3. \A u \in Threads : ~CallOwns(u)'
  BY <1>1 DEF CallOwns, TypeOK
<1>4. RequestIsAwaited'
  BY DEF RequestIsAwaited, TypeOK
<1>5. SessionExists'
  BY DEF SessionExists, TypeOK
<1>6. IoMutexHasOneOwner'
  BY <1>2, <1>3 DEF IoMutexHasOneOwner
<1>7. SessionIsTheOneMeant'
  BY <1>2, <1>3 DEF SessionIsTheOneMeant
<1> QED BY <1>4, <1>5, <1>6, <1>7 DEF SessionParts

(* The chain of a session goes on: inside the part that owns ioMutex_, out of
   it with the unlock, or after it.                                        *)
LEMMA ChainMoves ==
    ASSUME SessionInv, NEW n \in Sessions, NEW s \in Stages \ {"none"},
           stage[n] # "none", stage' = [stage EXCEPT ![n] = s],
           UNCHANGED <<session, pc, reg>>,
           connected' => connected \/ stage[n] # "none",
           connected => connected',
           \/ stage[n] \in ChainHolds /\ s \in ChainHolds /\ ioMutex' = ioMutex
           \/ stage[n] \in ChainHolds /\ s \notin ChainHolds /\ ioMutex' = FALSE
           \/ stage[n] \notin ChainHolds /\ s \notin ChainHolds /\ ioMutex' = ioMutex
    PROVE  SessionParts'
<1> USE DEF SessionInv, ChainHolds
<1>1. RequestIsAwaited'
  BY DEF RequestIsAwaited
<1>2. SessionExists'
  BY DEF SessionExists, TypeOK
<1>3. \A t \in Threads : CallOwns(t)' <=> CallOwns(t)
  BY DEF CallOwns
<1>4. \A m \in Sessions \ {n} : ChainOwns(m)' <=> ChainOwns(m)
  BY DEF ChainOwns, TypeOK
<1>5. ChainOwns(n)' <=> s \in ChainHolds
  BY DEF ChainOwns, TypeOK
<1>6. ChainOwns(n) <=> stage[n] \in ChainHolds
  BY DEF ChainOwns
<1>7. IoMutexHasOneOwner'
  <2>1. CASE stage[n] \in ChainHolds /\ s \in ChainHolds /\ ioMutex' = ioMutex
    BY <2>1, <1>3, <1>4, <1>5, <1>6 DEF IoMutexHasOneOwner
  <2>2. CASE stage[n] \in ChainHolds /\ s \notin ChainHolds /\ ioMutex' = FALSE
    BY <2>2, <1>3, <1>4, <1>5, <1>6 DEF IoMutexHasOneOwner
  <2>3. CASE stage[n] \notin ChainHolds /\ s \notin ChainHolds /\ ioMutex' = ioMutex
    BY <2>3, <1>3, <1>4, <1>5, <1>6 DEF IoMutexHasOneOwner
  <2> QED BY <2>1, <2>2, <2>3
<1>8. SessionIsTheOneMeant'
  <2>1. \A m \in Sessions : ChainOwns(m)' => session' = m
    BY <1>4, <1>5, <1>6 DEF SessionIsTheOneMeant
  <2>2. ASSUME NEW t \in Threads, CallOwns(t)'
        PROVE  session' # None /\
               stage'[session'] \in {"unlocked", "marked", "joined", "aborted"}
    <3>1. CallOwns(t) /\ ~ChainOwns(n)
      BY <2>2, <1>3 DEF IoMutexHasOneOwner
    <3>2. s \in {"unlocked", "marked", "joined", "aborted"}
      BY <3>1, <1>6 DEF Stages
    <3> QED BY <3>1, <3>2 DEF SessionIsTheOneMeant, TypeOK
  <2> QED BY <2>1, <2>2 DEF SessionIsTheOneMeant
<1> QED BY <1>1, <1>2, <1>7, <1>8 DEF SessionParts

(* connect() takes ioMutex_ and puts a new session into session_. *)
LEMMA ConnectOwns ==
    ASSUME SessionInv, NEW t \in Threads, ConnectLock(t) PROVE SessionParts'
<1> USE DEF SessionInv
<1> PICK n \in Sessions :
        /\ stage[n] = "none"
        /\ session' = n
        /\ stage' = [stage EXCEPT ![n] = "connecting"]
  BY DEF ConnectLock
<1>1. /\ ~ioMutex /\ ioMutex' = TRUE
      /\ pc[t] = "connectLock" /\ pc' = [pc EXCEPT ![t] = "connectStart"]
      /\ UNCHANGED <<connected, reg>>
  BY DEF ConnectLock, At, Goto, router
<1>2. \A u \in Threads : ~CallOwns(u) /\ ~CallOwns(u)'
  BY <1>1 DEF IoMutexHasOneOwner, CallOwns, InSession, TypeOK
<1>3. \A m \in Sessions : ChainOwns(m)' <=> m = n
  BY <1>1 DEF IoMutexHasOneOwner, ChainOwns, ChainHolds, TypeOK
<1>4. RequestIsAwaited'
  BY <1>1 DEF RequestIsAwaited, TypeOK
<1>5. SessionExists'
  BY <1>1, NoneIsNobody DEF SessionExists, TypeOK
<1>6. IoMutexHasOneOwner'
  BY <1>1, <1>2, <1>3 DEF IoMutexHasOneOwner
<1>7. SessionIsTheOneMeant'
  BY <1>2, <1>3 DEF SessionIsTheOneMeant
<1> QED BY <1>4, <1>5, <1>6, <1>7 DEF SessionParts

(* A thread that spins until connected_ finds it set. *)
LEMMA WaitEnds ==
    ASSUME SessionInv, NEW t \in Threads, ProvideWait(t) \/ PublishWait(t)
    PROVE  SessionParts'
<1> USE DEF SessionInv
<1>1. PICK label \in {"provLock", "pubLock"} :
        /\ pc[t] \in {"provWait", "pubWait"}
        /\ connected
        /\ pc' = [pc EXCEPT ![t] = label]
        /\ UNCHANGED <<session, stage, connected, ioMutex, reg>>
  BY DEF ProvideWait, PublishWait, At, Goto, handshake, router
<1>2. \A u \in Threads : CallOwns(u)' <=> CallOwns(u)
  BY <1>1 DEF CallOwns, InSession, TypeOK
<1>3. \A n \in Sessions : ChainOwns(n)' <=> ChainOwns(n)
  BY <1>1 DEF ChainOwns
<1>4. RequestIsAwaited'
  BY <1>1 DEF RequestIsAwaited, TypeOK
<1>5. SessionExists'
  BY <1>1 DEF SessionExists, TypeOK
<1>6. IoMutexHasOneOwner'
  BY <1>1, <1>2, <1>3 DEF IoMutexHasOneOwner
<1>7. SessionIsTheOneMeant'
  BY <1>1, <1>2, <1>3 DEF SessionIsTheOneMeant
<1> QED BY <1>4, <1>5, <1>6, <1>7 DEF SessionParts

(* A reply or its continuation changes the state of an awaited request. *)
LEMMA RequestMoves ==
    ASSUME SessionInv, NEW t \in Threads, reg[t] # "none",
           NEW r, reg' = [reg EXCEPT ![t] = r],
           UNCHANGED <<session, stage, connected, ioMutex, pc>>
    PROVE  SessionParts'
<1> USE DEF SessionInv
<1>1. RequestIsAwaited'
  BY DEF RequestIsAwaited, TypeOK
<1>2. SessionExists'
  BY DEF SessionExists
<1>3. IoMutexHasOneOwner'
  BY DEF IoMutexHasOneOwner, CallOwns, ChainOwns
<1>4. SessionIsTheOneMeant'
  BY DEF SessionIsTheOneMeant, CallOwns, ChainOwns
<1> QED BY <1>1, <1>2, <1>3, <1>4 DEF SessionParts

(* Every step keeps what is said of ioMutex_ and session_. *)
LEMMA SessionStep == SessionInv /\ [Next]_vars => SessionParts'
<1> SUFFICES ASSUME SessionInv, [Next]_vars PROVE SessionParts'
  OBVIOUS
<1>0. TypeOK
  BY DEF SessionInv
<1>1. ASSUME NEW t \in Threads, NEW op \in AppOps, Call(t, op) PROVE SessionParts'
  <2>1. Quiet
    BY <1>0, <1>1, FirstLabels, OpsKnown
       DEF Call, At, Goto, Quiet, InSession, TypeOK, handshake, router
  <2> QED BY <2>1, QuietStep
<1>2. ASSUME NEW t \in Threads, Acquire(t) PROVE SessionParts'
  <2>1. CASE ConnectLock(t)
    BY <2>1, ConnectOwns
  <2>2. CASE ProvideLock(t)
    <3>1. /\ pc[t] = "provLock" /\ ~ioMutex /\ ioMutex' = TRUE
          /\ UNCHANGED <<session, stage, connected>>
          /\ pc' = [pc EXCEPT ![t] = "provGet"]
          /\ \A u \in Threads \ {t} : reg'[u] = reg[u]
      BY <1>0, <2>2 DEF ProvideLock, At, Goto, handshake, TypeOK
    <3> QED BY <3>1, LockForSession DEF InSession
  <2>3. CASE PublishLock(t)
    <3>1. /\ pc[t] = "pubLock" /\ ~ioMutex /\ ioMutex' = TRUE
          /\ UNCHANGED <<session, stage, connected, reg>>
          /\ pc' = [pc EXCEPT ![t] = "pubSend"]
      BY <2>3 DEF PublishLock, At, Goto, handshake, router
    <3>2. reg[t] = "none"
      BY <3>1 DEF SessionInv, RequestIsAwaited
    <3> QED BY <3>1, <3>2, LockForSession DEF InSession
  <2>4. CASE DisconnectLock(t)
    <3>1. Quiet
      BY <1>0, <2>4, BackLabels
         DEF DisconnectLock, At, Goto, Return, Quiet, InSession, TypeOK,
             handshake, router
    <3> QED BY <3>1, QuietStep
  <2>5. CASE ServiceName(t)
    <3>1. Quiet
      BY <1>0, <2>5, BackLabels
         DEF ServiceName, At, Goto, Return, Quiet, InSession, TypeOK,
             handshake, router
    <3> QED BY <3>1, QuietStep
  <2> QED BY <1>2, <2>1, <2>2, <2>3, <2>4, <2>5 DEF Acquire
<1>3. ASSUME NEW t \in Threads, Advance(t) PROVE SessionParts'
  <2>1. CASE ProvideWait(t) \/ PublishWait(t)
    BY <2>1, WaitEnds
  <2>2. CASE ProvideUnlock(t)
    <3>1. /\ pc[t] = "provGet" /\ ioMutex' = FALSE
          /\ UNCHANGED <<session, stage, connected>>
          /\ pc' = [pc EXCEPT ![t] = Back(t)]
          /\ reg' = [reg EXCEPT ![t] = "none"]
      BY <2>2 DEF ProvideUnlock, At, Goto, Return, handshake
    <3>2. reg'[t] = "none" /\ \A u \in Threads \ {t} : reg'[u] = reg[u]
      BY <1>0, <3>1 DEF TypeOK
    <3> QED BY <3>1, <3>2, UnlockSession, BackLabels DEF CallOwns, InSession
  <2>3. CASE PublishUnlock(t)
    <3>1. /\ pc[t] = "pubSend" /\ ioMutex' = FALSE
          /\ UNCHANGED <<session, stage, connected, reg>>
          /\ pc' = [pc EXCEPT ![t] = Back(t)]
      BY <2>3 DEF PublishUnlock, At, Goto, Return, handshake, router
    <3>2. reg[t] = "none"
      BY <3>1 DEF SessionInv, RequestIsAwaited
    <3> QED BY <3>1, <3>2, UnlockSession, BackLabels DEF CallOwns, InSession
  <2>4. ASSUME ~(ProvideWait(t) \/ PublishWait(t)), ~ProvideUnlock(t),
               ~PublishUnlock(t)
        PROVE  Quiet
    <3> USE <1>0, BackLabels
            DEF At, Goto, Return, Quiet, InSession, TypeOK, handshake,
                dispatching, router
    <3>1. CASE ConnectTest(t)
      BY <3>1 DEF ConnectTest
    <3>2. CASE ConnectStart(t)
      BY <3>2 DEF ConnectStart
    <3>3. CASE ConnectNoThread(t)
      BY <3>3 DEF ConnectNoThread
    <3>4. CASE ConnectThrows(t)
      BY <3>4 DEF ConnectThrows
    <3>5. CASE AttachMainLoopContext(t)
      BY <3>5 DEF AttachMainLoopContext
    <3>6. CASE Reply(t)
      BY <3>6 DEF Reply
    <3>7. CASE DisconnectNoThread(t)
      BY <3>7 DEF DisconnectNoThread
    <3>8. CASE DisconnectJoin(t)
      BY <3>8 DEF DisconnectJoin
    <3>9. CASE DisconnectDetach(t)
      BY <3>9 DEF DisconnectDetach
    <3>10. CASE DisconnectJoined(t)
      BY <3>10 DEF DisconnectJoined
    <3>11. CASE FinishDestructor(t)
      BY <3>11 DEF FinishDestructor
    <3> QED BY <1>3, <2>4, <3>1, <3>2, <3>3, <3>4, <3>5, <3>6, <3>7, <3>8,
               <3>9, <3>10, <3>11 DEF Advance
  <2> QED BY <2>1, <2>2, <2>3, <2>4, QuietStep
<1>4. ASSUME NEW t \in Threads, ContinueRegistration(t) PROVE SessionParts'
  BY <1>4, RequestMoves DEF ContinueRegistration, handshake
<1>5. ASSUME NEW t \in Threads, DropReference(t), pc[t] \in {"idle", "run"}
      PROVE  SessionParts'
  <2>1. Quiet
    BY <1>0, <1>5 DEF DropReference, Goto, Quiet, InSession, TypeOK, handshake, router
  <2> QED BY <2>1, QuietStep
<1>6. ASSUME NEW d \in Dispatchers, NEW n \in Sessions, DeliverHandshake(d, n)
      PROVE  SessionParts'
  <2>1. Quiet
    BY <1>6 DEF DeliverHandshake, Quiet, router
  <2> QED BY <2>1, QuietStep
<1>7. ASSUME NEW d \in Dispatchers, NEW t \in Threads, DeliverRegistration(d, t)
      PROVE  SessionParts'
  BY <1>7, RequestMoves DEF DeliverRegistration, handshake
<1>8. ASSUME NEW d \in Dispatchers, NEW op \in HandlerOps, Invoke(d, op)
      PROVE  SessionParts'
  <2>1. Quiet
    BY <1>0, <1>8, FirstLabels, OpsKnown
       DEF Invoke, Running, At, Goto, Quiet, InSession, TypeOK, Threads,
           handshake, router
  <2> QED BY <2>1, QuietStep
<1>9. ASSUME NEW d \in Dispatchers, LoseTransport(d) PROVE SessionParts'
  <2>1. Quiet
    BY <1>9 DEF LoseTransport, Quiet, handshake, router
  <2> QED BY <2>1, QuietStep
<1>10. ASSUME NEW n \in Sessions, Continue(n) PROVE SessionParts'
  <2> USE DEF Ready, Stages, ChainHolds, router
  <2>1. CASE ContinueHandshake(n)
    <3>1. PICK s \in DOMAIN NextStage :
            /\ stage[n] = s
            /\ \/ stage' = [stage EXCEPT ![n] = NextStage[s]]
               \/ stage' = [stage EXCEPT ![n] = "failed"]
      BY <2>1 DEF ContinueHandshake
    <3>2. UNCHANGED <<session, connected, ioMutex, pc, reg>>
      BY <2>1 DEF ContinueHandshake
    <3>3. stage[n] \in ChainHolds \ {"none"}
      BY <3>1, NextStages
    <3>4. PICK to \in {"starting", "joining", "failed"} :
            stage' = [stage EXCEPT ![n] = to]
      BY <3>1, NextStages
    <3>5. to \in Stages \ {"none"} /\ to \in ChainHolds
      OBVIOUS
    <3> HIDE DEF Stages, ChainHolds
    <3> QED BY <3>2, <3>3, <3>4, <3>5, ChainMoves
  <2>2. CASE JoinUnlock(n)
    BY <2>2, ChainMoves DEF JoinUnlock
  <2>3. CASE JoinMark(n)
    BY <2>3, ChainMoves DEF JoinMark
  <2>4. CASE JoinGet(n)
    BY <2>4, ChainMoves DEF JoinGet
  <2> QED BY <1>10, <2>1, <2>2, <2>3, <2>4 DEF Continue
<1>11. CASE UNCHANGED vars
  <2>1. Quiet
    BY <1>11 DEF vars, Quiet
  <2> QED BY <2>1, QuietStep
<1>12. ASSUME NEW t \in AppThreads, Release(t) PROVE SessionParts'
  BY <1>5, <1>12 DEF Release, Threads
<1>13. ASSUME NEW d \in Dispatchers, RunReturns(d) PROVE SessionParts'
  BY <1>5, <1>13 DEF RunReturns, Threads
<1> QED
  BY <1>1, <1>2, <1>3, <1>4, <1>6, <1>7, <1>8, <1>9, <1>10, <1>11, <1>12, <1>13
     DEF Next

(* Before the first connect() nothing is locked and there is no session. *)
LEMMA SessionInit == Init => SessionInv
BY ThreadsDisjoint, NoneIsNobody
   DEF Init, SessionInv, TypeOK, PCs, Outside, Stages, RequestIsAwaited,
       SessionExists, IoMutexHasOneOwner, SessionIsTheOneMeant, ChainOwns,
       CallOwns, ChainHolds, InSession

(* SessionInv is inductive. *)
LEMMA SessionInductive == SessionInv /\ [Next]_vars => SessionInv'
BY TypingStep, SessionStep DEF SessionInv, SessionParts

(* The inductive invariant of the handshake holds: from it follows what is said
   of ioMutex_ and of session_.                                            *)
THEOREM SessionInvariant == Spec => []SessionInv
BY SessionInit, SessionInductive, PTL DEF Spec

(* The members of the connection, its threads' control state and the state of
   the handshakes keep their types in every behaviour.                     *)
THEOREM TypeCorrect == Spec => []TypeOK
<1>1. SessionInv => TypeOK
  BY DEF SessionInv
<1> QED BY SessionInvariant, <1>1, PTL

(* ioMutex_, locked by connect() on one thread and unlocked by the join
   continuation on another, always has exactly one owner when it is locked,
   whatever calls overlap and whatever fails.                              *)
THEOREM MutexHasOneOwner == Spec => []IoMutexHasOneOwner
<1>1. SessionInv => IoMutexHasOneOwner
  BY DEF SessionInv
<1> QED BY SessionInvariant, <1>1, PTL

(* The continuations of connect() and the stubs always find in session_ the
   session they mean.                                                      *)
THEOREM RightSession == Spec => []SessionIsTheOneMeant
<1>1. SessionInv => SessionIsTheOneMeant
  BY DEF SessionInv
<1> QED BY SessionInvariant, <1>1, PTL

(* Only connect() assigns session_. *)
LEMMA SessionAssigned ==
    [Next]_vars => session' = session \/ \E t \in Threads : ConnectLock(t)
<1> SUFFICES ASSUME [Next]_vars, session' # session
             PROVE  \E t \in Threads : ConnectLock(t)
  OBVIOUS
<1> USE DEF handshake
<1>1. ASSUME NEW t \in Threads, Acquire(t) PROVE ConnectLock(t)
  BY <1>1 DEF Acquire, ProvideLock, PublishLock, DisconnectLock, ServiceName
<1>2. ASSUME NEW t \in Threads, Advance(t) PROVE FALSE
  BY <1>2 DEF Advance, ConnectTest, ConnectStart, ConnectNoThread, ConnectThrows,
     AttachMainLoopContext, Reply, ProvideWait, ProvideUnlock, PublishWait,
     PublishUnlock, DisconnectNoThread, DisconnectJoin, DisconnectDetach,
     DisconnectJoined, FinishDestructor
<1>3. ASSUME NEW n \in Sessions, Continue(n) PROVE FALSE
  BY <1>3 DEF Continue, ContinueHandshake, JoinUnlock, JoinMark, JoinGet
<1>4. ASSUME NEW t \in Threads, NEW op, Call(t, op) \/ ContinueRegistration(t)
                                        \/ DropReference(t)
      PROVE  FALSE
  BY <1>4 DEF Call, ContinueRegistration, DropReference
<1>5. ASSUME NEW d \in Dispatchers, NEW x,
             \/ DeliverHandshake(d, x) \/ DeliverRegistration(d, x)
             \/ Invoke(d, x) \/ LoseTransport(d)
      PROVE  FALSE
  BY <1>5 DEF DeliverHandshake, DeliverRegistration, Invoke, LoseTransport
<1>6. ~UNCHANGED vars
  BY DEF vars
<1> QED BY <1>1, <1>2, <1>3, <1>4, <1>5, <1>6 DEF Next, Release, RunReturns, Threads

(* A second connect() never replaces session_ under a provideRemoteMethod or
   publishTopic that is using it.                                          *)
THEOREM SessionNotReplaced == Spec => SessionKeptInUse
<1>1. SessionInv /\ [Next]_vars
         => [session' # session => \A t \in Threads : ~CallOwns(t)]_vars
  BY SessionAssigned DEF ConnectLock, SessionInv, IoMutexHasOneOwner
<1> QED BY SessionInit, SessionInductive, <1>1, PTL DEF Spec, SessionKeptInUse

-----------------------------------------------------------------------------
(* The promise of the session                                              *)

BegunSessions == {n \in Sessions : stage[n] # "none"}
Openings == {n \in Sessions : ChainOwns(n)}
Uses == {t \in Threads : CallOwns(t)}

(* A step aside: no chain begins or ends, no call begins or ends its use. *)
Aside == UNCHANGED <<session, BegunSessions, Openings, Uses>>

(* Threads move outside the part of a call that has the session. *)
LEMMA MovesAside ==
    ASSUME UNCHANGED <<session, stage>>,
           \A t \in Threads : pc'[t] \in InSession <=> pc[t] \in InSession
    PROVE  Aside
BY DEF Aside, BegunSessions, Openings, Uses, ChainOwns, CallOwns

(* The chain of a session goes on, and keeps the session or has given it up. *)
LEMMA ChainAside ==
    ASSUME TypeOK, NEW n \in Sessions, NEW s, stage[n] # "none", s # "none",
           stage' = [stage EXCEPT ![n] = s], UNCHANGED <<session, pc>>,
           stage[n] \in ChainHolds <=> s \in ChainHolds
    PROVE  Aside
<1>1. \A m \in Sessions : ChainOwns(m)' <=> ChainOwns(m)
  BY DEF ChainOwns, TypeOK
<1>2. \A m \in Sessions : stage'[m] # "none" <=> stage[m] # "none"
  BY DEF TypeOK
<1>3. \A t \in Threads : CallOwns(t)' <=> CallOwns(t)
  BY DEF CallOwns
<1>4. Openings' = Openings
  BY <1>1 DEF Openings
<1>5. BegunSessions' = BegunSessions
  BY <1>2 DEF BegunSessions
<1>6. Uses' = Uses
  BY <1>3 DEF Uses
<1> QED BY <1>4, <1>5, <1>6 DEF Aside

(* Only these steps begin or end the opening or the use of a session. *)
HandleSteps ==
    \/ \E t \in Threads : \/ ConnectLock(t) \/ ProvideLock(t) \/ PublishLock(t)
                          \/ ProvideUnlock(t) \/ PublishUnlock(t)
    \/ \E n \in Sessions : JoinUnlock(n)

(* All the others step aside. *)
LEMMA OthersStepAside ==
    ASSUME TypeOK, [Next]_vars, ~HandleSteps PROVE Aside
<1> USE MovesAside DEF At, Goto, Return, TypeOK, InSession, handshake, dispatching, router
<1>1. ASSUME NEW t \in Threads, NEW op \in AppOps, Call(t, op) PROVE Aside
  BY <1>1, FirstLabels, OpsKnown DEF Call
<1>2. ASSUME NEW t \in Threads, Acquire(t) PROVE Aside
  <2> USE BackLabels
  <2>1. CASE DisconnectLock(t)
    BY <2>1 DEF DisconnectLock
  <2>2. CASE ServiceName(t)
    BY <2>2 DEF ServiceName
  <2> QED BY <1>2, <2>1, <2>2 DEF Acquire, HandleSteps
<1>3. ASSUME NEW t \in Threads, Advance(t) PROVE Aside
  <2> USE BackLabels
  <2>1. CASE ConnectTest(t)
    BY <2>1 DEF ConnectTest
  <2>2. CASE ConnectStart(t)
    BY <2>2 DEF ConnectStart
  <2>3. CASE ConnectNoThread(t) \/ ConnectThrows(t)
    BY <2>3 DEF ConnectNoThread, ConnectThrows
  <2>4. CASE AttachMainLoopContext(t) \/ Reply(t)
    BY <2>4 DEF AttachMainLoopContext, Reply
  <2>5. CASE ProvideWait(t) \/ PublishWait(t)
    BY <2>5 DEF ProvideWait, PublishWait
  <2>6. CASE DisconnectNoThread(t) \/ DisconnectDetach(t)
    BY <2>6 DEF DisconnectNoThread, DisconnectDetach
  <2>7. CASE DisconnectJoin(t)
    BY <2>7 DEF DisconnectJoin
  <2>8. CASE DisconnectJoined(t)
    BY <2>8 DEF DisconnectJoined
  <2>9. CASE FinishDestructor(t)
    BY <2>9 DEF FinishDestructor
  <2> QED BY <1>3, <2>1, <2>2, <2>3, <2>4, <2>5, <2>6, <2>7, <2>8, <2>9
          DEF Advance, HandleSteps
<1>4. ASSUME NEW t \in Threads, ContinueRegistration(t) PROVE Aside
  BY <1>4 DEF ContinueRegistration
<1>5. ASSUME NEW t \in Threads, DropReference(t), pc[t] \in {"idle", "run"}
      PROVE  Aside
  BY <1>5 DEF DropReference
<1>6. ASSUME NEW d \in Dispatchers, NEW x,
             DeliverHandshake(d, x) \/ DeliverRegistration(d, x) \/ LoseTransport(d)
      PROVE  Aside
  BY <1>6 DEF DeliverHandshake, DeliverRegistration, LoseTransport
<1>7. ASSUME NEW d \in Dispatchers, NEW op \in HandlerOps, Invoke(d, op) PROVE Aside
  BY <1>7, FirstLabels, OpsKnown DEF Invoke, Running, Threads
<1>8. ASSUME NEW n \in Sessions, Continue(n) PROVE Aside
  <2> USE ChainAside DEF Ready, ChainHolds
  <2>1. CASE ContinueHandshake(n)
    BY <2>1, NextStages DEF ContinueHandshake
  <2>2. CASE JoinMark(n)
    BY <2>2 DEF JoinMark
  <2>3. CASE JoinGet(n)
    BY <2>3 DEF JoinGet
  <2> QED BY <1>8, <2>1, <2>2, <2>3 DEF Continue, HandleSteps
<1>9. ASSUME UNCHANGED vars PROVE Aside
  BY <1>9 DEF vars
<1> QED BY <1>1, <1>2, <1>3, <1>4, <1>5, <1>6, <1>7, <1>8, <1>9
        DEF Next, Release, RunReturns, Threads

(* Every step opens a session, ends the opening, begins or ends a use of it,
   as SessionHandle allows, or steps aside.                                *)
LEMMA HandleRefines ==
    ASSUME SessionInv, [Next]_vars
    PROVE  Handle!Next \/ Aside
<1> USE DEF SessionInv, BegunSessions, Openings, Uses
<1>1. ASSUME NEW t \in Threads, ConnectLock(t) PROVE Handle!Open
  <2>1. PICK n \in Sessions : /\ stage[n] = "none" /\ session' = n
                              /\ stage' = [stage EXCEPT ![n] = "connecting"]
    BY <1>1 DEF ConnectLock
  <2>2. ~ioMutex /\ pc[t] = "connectLock" /\ pc' = [pc EXCEPT ![t] = "connectStart"]
    BY <1>1 DEF ConnectLock, At, Goto
  <2>3. \A m \in Sessions : ~ChainOwns(m) /\ (ChainOwns(m)' <=> m = n)
    BY <2>1, <2>2 DEF IoMutexHasOneOwner, ChainOwns, ChainHolds, TypeOK
  <2>4. \A u \in Threads : ~CallOwns(u) /\ ~CallOwns(u)'
    BY <2>2 DEF IoMutexHasOneOwner, CallOwns, InSession, TypeOK
  <2>5. \A m \in Sessions : stage'[m] # "none" <=> stage[m] # "none" \/ m = n
    BY <2>1 DEF TypeOK
  <2>6. Openings = {} /\ Uses = {} /\ Openings' = {n} /\ Uses' = {}
    BY <2>3, <2>4
  <2>7. BegunSessions' = BegunSessions \cup {n} /\ n \in BegunSessions' \ BegunSessions
    BY <2>1, <2>5
  <2> QED BY <2>1, <2>6, <2>7, Zenon DEF Handle!Open, Handle!Free
<1>2. ASSUME NEW t \in Threads, ProvideLock(t) \/ PublishLock(t) PROVE Handle!Use
  <2>1. /\ ~ioMutex /\ pc[t] \in {"provLock", "pubLock"} /\ UNCHANGED <<session, stage>>
        /\ \E label \in InSession : pc' = [pc EXCEPT ![t] = label]
    BY <1>2 DEF ProvideLock, PublishLock, At, Goto, InSession, handshake
  <2>2. \A m \in Sessions : ~ChainOwns(m) /\ ~ChainOwns(m)'
    BY <2>1 DEF IoMutexHasOneOwner, ChainOwns
  <2>3. \A u \in Threads : ~CallOwns(u) /\ (CallOwns(u)' <=> u = t)
    BY <2>1 DEF IoMutexHasOneOwner, CallOwns, TypeOK
  <2>4. session \in BegunSessions
    BY <2>1 DEF SessionExists, TypeOK
  <2>5. /\ Openings = {} /\ Uses = {} /\ Openings' = {} /\ Uses' = {t}
        /\ BegunSessions' = BegunSessions
    BY <2>1, <2>2, <2>3
  <2> QED BY <2>1, <2>4, <2>5 DEF Handle!Use, Handle!Free
<1>3. ASSUME NEW t \in Threads, ProvideUnlock(t) \/ PublishUnlock(t) PROVE Handle!Done
  <2>1. CallOwns(t) /\ pc' = [pc EXCEPT ![t] = Back(t)] /\ UNCHANGED <<session, stage>>
    BY <1>3 DEF ProvideUnlock, PublishUnlock, At, Goto, Return, CallOwns, InSession,
                handshake
  <2>2. \A u \in Threads : ~CallOwns(u)'
    BY <2>1, BackLabels DEF IoMutexHasOneOwner, CallOwns, InSession, TypeOK
  <2>3. /\ Uses # {} /\ Uses' = {} /\ Openings' = Openings
        /\ BegunSessions' = BegunSessions
    BY <2>1, <2>2 DEF ChainOwns
  <2> QED BY <2>1, <2>3 DEF Handle!Done
<1>4. ASSUME NEW n \in Sessions, JoinUnlock(n) PROVE Handle!Opened
  <2>1. /\ stage[n] = "joining" /\ stage' = [stage EXCEPT ![n] = "unlocked"]
        /\ UNCHANGED <<session, pc>>
    BY <1>4 DEF JoinUnlock, Ready
  <2>2. ChainOwns(n) /\ \A m \in Sessions : ~ChainOwns(m)'
    BY <2>1 DEF IoMutexHasOneOwner, ChainOwns, ChainHolds, TypeOK
  <2>3. \A m \in Sessions : stage'[m] # "none" <=> stage[m] # "none"
    BY <2>1 DEF TypeOK
  <2>4. /\ Openings # {} /\ Openings' = {} /\ Uses' = Uses
        /\ BegunSessions' = BegunSessions
    BY <2>1, <2>2, <2>3 DEF CallOwns
  <2> QED BY <2>1, <2>4 DEF Handle!Opened
<1> QED BY <1>1, <1>2, <1>3, <1>4, OthersStepAside DEF HandleSteps, Handle!Next

(* ioMutex_ and session_ implement SessionHandle: a stub has the session to
   itself while it uses it, and gets it only after its opening has ended.  *)
THEOREM SessionPassesThroughFree == Spec => SessionIsHandedOver
<1>1. Init => Handle!Init
  BY DEF Init, Handle!Init, ChainOwns, ChainHolds, CallOwns, InSession, Threads
<1>2. SessionInv /\ [Next]_vars => [Handle!Next]_(Handle!handle)
  BY HandleRefines DEF Aside, BegunSessions, Openings, Uses, Handle!handle
<1> QED BY <1>1, <1>2, SessionInit, SessionInductive, PTL
        DEF Spec, SessionIsHandedOver, Handle!Spec

(* Where no join fails, a session that is past its opening has joined. *)
JoinedInv ==
    \A n \in Sessions :
       /\ stage[n] = "joining" => result[n] # "error"
       /\ stage[n] \in {"unlocked", "marked", "joined", "aborted"} => Welcomed(n)

(* A join that is answered is answered with success. *)
LEMMA JoinedStep ==
    ASSUME "join" \notin Failures, TypeOK, JoinedInv, [Next]_vars PROVE JoinedInv'
<1>1. ASSUME UNCHANGED <<stage, result>> PROVE JoinedInv'
  BY <1>1 DEF JoinedInv, Welcomed
<1>2. ASSUME NEW t \in Threads, ConnectLock(t) PROVE JoinedInv'
  BY <1>2 DEF ConnectLock, JoinedInv, Welcomed, TypeOK
<1>3. ASSUME NEW d \in Dispatchers, NEW n \in Sessions, DeliverHandshake(d, n)
      PROVE  JoinedInv'
  BY <1>3 DEF DeliverHandshake, Outstanding, FailureOf, JoinedInv, Welcomed, TypeOK
<1>4. ASSUME NEW n \in Sessions, Continue(n) PROVE JoinedInv'
  <2> USE DEF Ready, JoinedInv, Welcomed, TypeOK
  <2>1. CASE ContinueHandshake(n)
    BY <2>1, NextStages DEF ContinueHandshake
  <2>2. CASE JoinUnlock(n)
    BY <2>2 DEF JoinUnlock
  <2>3. CASE JoinMark(n)
    BY <2>3 DEF JoinMark
  <2>4. CASE JoinGet(n)
    BY <2>4 DEF JoinGet
  <2> QED BY <1>4, <2>1, <2>2, <2>3, <2>4 DEF Continue
<1>5. ASSUME NEW t \in Threads, Acquire(t), ~ConnectLock(t) PROVE UNCHANGED <<stage, result>>
  BY <1>5 DEF Acquire, ProvideLock, PublishLock, DisconnectLock, ServiceName, handshake
<1>6. ASSUME NEW t \in Threads, Advance(t) PROVE UNCHANGED <<stage, result>>
  BY <1>6 DEF Advance, ConnectTest, ConnectStart, ConnectNoThread, ConnectThrows,
     AttachMainLoopContext, Reply, ProvideWait, ProvideUnlock, PublishWait,
     PublishUnlock, DisconnectNoThread, DisconnectJoin, DisconnectDetach,
     DisconnectJoined, FinishDestructor, handshake
<1>7. ASSUME NEW t \in Threads, NEW op, Call(t, op) \/ ContinueRegistration(t)
                                        \/ DropReference(t)
      PROVE  UNCHANGED <<stage, result>>
  BY <1>7 DEF Call, ContinueRegistration, DropReference, handshake
<1>8. ASSUME NEW d \in Dispatchers, NEW x,
             DeliverRegistration(d, x) \/ Invoke(d, x) \/ LoseTransport(d)
      PROVE  UNCHANGED <<stage, result>>
  BY <1>8 DEF DeliverRegistration, Invoke, LoseTransport, handshake
<1>9. ASSUME UNCHANGED vars PROVE UNCHANGED <<stage, result>>
  BY <1>9 DEF vars
<1> QED BY <1>1, <1>2, <1>3, <1>4, <1>5, <1>6, <1>7, <1>8, <1>9
        DEF Next, Release, RunReturns, Threads

(* The comment in provideRemoteMethod and publishTopic holds as far as joins
   succeed, whatever else fails: a stub then uses a session that has joined. *)
THEOREM JoinedUnlessJoinFails ==
    ASSUME "join" \notin Failures PROVE Spec => []UsesJoinedSession
<1>1. Init => JoinedInv
  BY DEF Init, JoinedInv
<1>2. SessionInv /\ JoinedInv => UsesJoinedSession
  BY DEF SessionInv, TypeOK, SessionIsTheOneMeant, JoinedInv, UsesJoinedSession
<1>3. SessionInv /\ JoinedInv /\ [Next]_vars => JoinedInv'
  BY JoinedStep DEF SessionInv
<1> QED BY <1>1, <1>2, <1>3, SessionInit, SessionInductive, PTL DEF Spec

-----------------------------------------------------------------------------
(* disconnect(), the references and the destructor                         *)

LifeParts == DisconnectIsSerial /\ LastThread /\ DestroyedWhenUnused

(* A thread moves outside disconnect() while the object is alive, and
   procedures come and go only then.                                       *)
Elsewhere ==
    /\ UNCHANGED <<life, guard, joining>>
    /\ life # "alive" => UNCHANGED provided
    /\ \A t \in Threads :
          \/ pc'[t] = pc[t]
          \/ /\ life = "alive"
             /\ pc[t] \notin Guarded /\ pc'[t] \notin Guarded \cup {"dtorEnd"}

(* Such a step says nothing of disconnect() or of the object's end. *)
LEMMA ElsewhereStep ==
    ASSUME LifeInv, Elsewhere,
           life = "destroyed" => UNCHANGED <<stage, result>>
    PROVE  LifeParts'
<1> USE DEF LifeInv, Elsewhere, Guarded, Outside
<1>1. DisconnectIsSerial'
  <2>1. \A t \in Threads : pc'[t] \in Guarded <=> pc[t] \in Guarded
    OBVIOUS
  <2>2. \A t \in Threads : pc'[t] = "discJoin" => pc[t] = "discJoin"
    OBVIOUS
  <2> QED BY <2>1, <2>2 DEF DisconnectIsSerial
<1>2. LastThread'
  BY DEF LastThread
<1>3. DestroyedWhenUnused'
  BY DEF DestroyedWhenUnused, Unfulfilled
<1> QED BY <1>1, <1>2, <1>3 DEF LifeParts

(* Where a thread returns from disconnect(). *)
LEMMA BackByLife ==
    ASSUME NEW t PROVE /\ life = "dtor" => Back(t) = "dtorEnd"
                       /\ life # "dtor" => Back(t) \in {"idle", "run"}
BY DEF Back, Home

(* disconnect() takes connectionGuard_, moves on in its body, and leaves it. *)
LEMMA DisconnectMoves ==
    ASSUME LifeInv, NEW t \in Threads, life \in {"alive", "dtor"},
           UNCHANGED <<life, provided>>,
           pc[t] \in Guarded \cup {"discLock"},
           pc[t] = "discLock" => ~guard,
           NEW label, pc' = [pc EXCEPT ![t] = label],
           \/ label \in Guarded /\ guard' = TRUE
           \/ /\ guard' = FALSE
              /\ life = "dtor" => label = "dtorEnd"
              /\ life # "dtor" => label \in {"idle", "run"},
           label = "discJoin" => joining'[t] \notin {None, t}
    PROVE  LifeParts'
<1> USE DEF LifeInv, Guarded
<1>1. \A u \in Threads \ {t} : pc'[u] = pc[u] /\ pc[u] \notin Guarded
  BY DEF DisconnectIsSerial, TypeOK
<1>2. pc'[t] = label
  BY DEF TypeOK
<1>3. DisconnectIsSerial'
  BY <1>1, <1>2 DEF DisconnectIsSerial
<1>4. LastThread'
  BY <1>1, <1>2 DEF LastThread, Outside
<1>5. DestroyedWhenUnused'
  BY DEF DestroyedWhenUnused, Unfulfilled
<1> QED BY <1>3, <1>4, <1>5 DEF LifeParts

(* Every step keeps the guard, the single thread of the destructor, and the
   rule that nothing is left to do on a destroyed connection.              *)
LEMMA LifeStep == LifeInv /\ [Next]_vars => LifeParts'
<1> SUFFICES ASSUME LifeInv, [Next]_vars PROVE LifeParts'
  OBVIOUS
<1>0. TypeOK /\ DisconnectIsSerial /\ LastThread /\ DestroyedWhenUnused
  BY DEF LifeInv
<1>1. ASSUME NEW t \in Threads, NEW op \in AppOps, Call(t, op) PROVE LifeParts'
  <2>1. Elsewhere /\ life # "destroyed"
    BY <1>0, <1>1, FirstLabels, OpsKnown
       DEF Call, At, Goto, Elsewhere, LastThread, Guarded, Outside, TypeOK,
           dispatching, router
  <2> QED BY <2>1, ElsewhereStep
<1>2. ASSUME NEW t \in Threads, Acquire(t) PROVE LifeParts'
  <2>1. ASSUME ConnectLock(t) \/ ProvideLock(t) \/ PublishLock(t) \/ ServiceName(t)
        PROVE  Elsewhere /\ life # "destroyed"
    <3> USE <1>0, BackByLife
            DEF At, Goto, Return, Elsewhere, LastThread, Guarded, Outside,
                TypeOK, dispatching, router
    <3>1. CASE ConnectLock(t)
      BY <3>1 DEF ConnectLock
    <3>2. CASE ProvideLock(t)
      BY <3>2 DEF ProvideLock
    <3>3. CASE PublishLock(t)
      BY <3>3 DEF PublishLock
    <3>4. CASE ServiceName(t)
      BY <3>4 DEF ServiceName
    <3> QED BY <2>1, <3>1, <3>2, <3>3, <3>4
  <2>2. CASE DisconnectLock(t)
    <3>1. life \in {"alive", "dtor"} /\ life' = life /\ provided' = provided
          /\ pc[t] = "discLock" /\ ~guard
      BY <2>2 DEF DisconnectLock, At, router
    <3>2. CASE connected
      BY <2>2, <3>1, <3>2, DisconnectMoves DEF DisconnectLock, Goto, Guarded
    <3>3. CASE ~connected
      <4>1. guard' = FALSE
        BY <1>0, <2>2, <3>1, <3>3 DEF DisconnectLock, TypeOK
      <4> QED BY <2>2, <3>1, <3>3, <4>1, BackByLife, DisconnectMoves
              DEF DisconnectLock, Return, Goto
    <3> QED BY <3>2, <3>3
  <2> QED BY <1>2, <2>1, <2>2, ElsewhereStep DEF Acquire
<1>3. ASSUME NEW t \in Threads, Advance(t) PROVE LifeParts'
  <2>1. ASSUME \/ ConnectTest(t) \/ ConnectStart(t) \/ ConnectNoThread(t)
               \/ ConnectThrows(t) \/ AttachMainLoopContext(t) \/ Reply(t)
               \/ ProvideWait(t) \/ ProvideUnlock(t)
               \/ PublishWait(t) \/ PublishUnlock(t)
        PROVE  Elsewhere /\ life # "destroyed"
    <3> USE <1>0, BackByLife
            DEF At, Goto, Return, Elsewhere, LastThread, Guarded, Outside,
                TypeOK, dispatching, router
    <3>1. CASE ConnectStart(t)
      BY <3>1 DEF ConnectStart
    <3>2. CASE ConnectTest(t)
      BY <3>2 DEF ConnectTest
    <3>3. CASE ConnectNoThread(t)
      BY <3>3 DEF ConnectNoThread
    <3>4. CASE ConnectThrows(t)
      BY <3>4 DEF ConnectThrows
    <3>5. CASE AttachMainLoopContext(t)
      BY <3>5 DEF AttachMainLoopContext
    <3>6. CASE Reply(t)
      BY <3>6 DEF Reply
    <3>7. CASE ProvideWait(t)
      BY <3>7 DEF ProvideWait
    <3>8. CASE ProvideUnlock(t)
      BY <3>8 DEF ProvideUnlock
    <3>9. CASE PublishWait(t)
      BY <3>9 DEF PublishWait
    <3>10. CASE PublishUnlock(t)
      BY <3>10 DEF PublishUnlock
    <3> QED BY <2>1, <3>1, <3>2, <3>3, <3>4, <3>5, <3>6, <3>7, <3>8, <3>9,
               <3>10
  <2>2. CASE DisconnectNoThread(t)
    BY <2>2, BackByLife, DisconnectMoves
       DEF DisconnectNoThread, At, Goto, Return, Guarded, router
  <2>3. CASE DisconnectJoin(t)
    <3>1. joining'[t] \notin {None, t} /\ guard' = TRUE
      BY <1>0, <2>3 DEF DisconnectJoin, At, MayJoin, JoinTarget,
                        DisconnectIsSerial, Guarded, TypeOK
    <3> QED BY <2>3, <3>1, DisconnectMoves
            DEF DisconnectJoin, At, Goto, Guarded, router
  <2>4. CASE DisconnectDetach(t)
    BY <2>4, BackByLife, DisconnectMoves
       DEF DisconnectDetach, At, Goto, Return, Guarded, router
  <2>5. CASE DisconnectJoined(t)
    <3>1. CASE dispatchThread = joining[t]
      BY <2>5, <3>1, BackByLife, DisconnectMoves
         DEF DisconnectJoined, At, Goto, Return, Guarded, router
    <3>2. CASE dispatchThread # joining[t]
      <4>1. /\ life' = "terminated" /\ UNCHANGED <<pc, guard, joining>>
            /\ pc[t] = "discJoin"
        BY <2>5, <3>2 DEF DisconnectJoined, At
      <4>2. \A u \in Threads : pc[u] # "dtorEnd"
        BY <1>0, <4>1 DEF LastThread, Outside
      <4> QED BY <1>0, <4>1, <4>2
              DEF LifeParts, DisconnectIsSerial, LastThread, DestroyedWhenUnused
    <3> QED BY <3>1, <3>2
  <2>6. CASE FinishDestructor(t)
    <3>1. /\ pc[t] = "dtorEnd" /\ life = "dtor" /\ life' = "destroyed"
          /\ pc' = [pc EXCEPT ![t] = "gone"]
          /\ UNCHANGED <<guard, joining, stage, result, provided>>
      BY <1>0, <2>6
         DEF FinishDestructor, At, Goto, LastThread, handshake, dispatching, router
    <3>2. \A u \in Threads : pc'[u] \in Outside
      BY <1>0, <3>1 DEF LastThread, Outside, TypeOK
    <3>3. \A u \in Threads : pc[u] \in Outside \cup {"dtorEnd"}
      BY <1>0, <3>1 DEF LastThread, Outside, TypeOK
    <3>4. DisconnectIsSerial'
      BY <1>0, <3>1, <3>2, <3>3 DEF DisconnectIsSerial, Guarded, Outside
    <3>5. LastThread'
      BY <3>1, <3>2 DEF LastThread, Outside
    <3>6. DestroyedWhenUnused'
      BY <1>0, <2>6, <3>1, <3>2 DEF FinishDestructor, LastThread, DestroyedWhenUnused, Unfulfilled
    <3> QED BY <3>4, <3>5, <3>6 DEF LifeParts
  <2> QED BY <1>3, <2>1, <2>2, <2>3, <2>4, <2>5, <2>6, ElsewhereStep DEF Advance
<1>4. ASSUME NEW t \in Threads, ContinueRegistration(t) PROVE LifeParts'
  <2>1. Elsewhere /\ life # "destroyed"
    BY <1>4 DEF ContinueRegistration, Elsewhere, dispatching
  <2> QED BY <2>1, ElsewhereStep
<1>5. ASSUME NEW t \in Threads, DropReference(t), pc[t] \in {"idle", "run"},
             life = "alive"
      PROVE  LifeParts'
  <2>1. CASE OtherReferences(t) # {}
    <3>1. Elsewhere
      BY <1>0, <1>5, <2>1 DEF DropReference, Goto, Elsewhere, Guarded, TypeOK, router
    <3> QED BY <1>5, <3>1, ElsewhereStep
  <2>2. CASE OtherReferences(t) = {}
    <3>1. /\ life' = "dtor" /\ pc' = [pc EXCEPT ![t] = "discLock"]
          /\ UNCHANGED <<guard, joining, provided>> /\ provided = {}
      BY <1>5, <2>2 DEF DropReference, OtherReferences, BoundCopies, Goto, router
    <3>2. \A u \in Threads \ {t} : pc[u] \in Outside /\ pc'[u] = pc[u]
      BY <1>0, <2>2, <3>1 DEF OtherReferences, TypeOK
    <3>3. pc'[t] = "discLock"
      BY <1>0, <3>1 DEF TypeOK
    <3>4. DisconnectIsSerial'
      BY <1>0, <1>5, <3>1, <3>2, <3>3 DEF DisconnectIsSerial, Guarded, Outside
    <3>5. LastThread'
      BY <3>1, <3>2, <3>3 DEF LastThread, Outside
    <3>6. DestroyedWhenUnused'
      BY <3>1 DEF DestroyedWhenUnused, Unfulfilled
    <3> QED BY <3>4, <3>5, <3>6 DEF LifeParts
  <2> QED BY <2>1, <2>2
<1>6. ASSUME NEW d \in Dispatchers, NEW n \in Sessions, DeliverHandshake(d, n)
      PROVE  LifeParts'
  <2>1. Elsewhere /\ life # "destroyed"
    BY <1>6 DEF DeliverHandshake, Running, At, Elsewhere, dispatching, router
  <2> QED BY <2>1, ElsewhereStep
<1>7. ASSUME NEW d \in Dispatchers, NEW t \in Threads, DeliverRegistration(d, t)
      PROVE  LifeParts'
  <2>1. Elsewhere /\ life # "destroyed"
    BY <1>0, <1>7
       DEF DeliverRegistration, Running, At, LastThread, Outside, Guarded, Threads,
           Elsewhere, dispatching, router
  <2> QED BY <2>1, ElsewhereStep
<1>8. ASSUME NEW d \in Dispatchers, NEW op \in HandlerOps, Invoke(d, op)
      PROVE  LifeParts'
  <2>1. Elsewhere /\ life # "destroyed"
    BY <1>0, <1>8, FirstLabels, OpsKnown
       DEF Invoke, Running, At, Goto, Elsewhere, LastThread, Guarded, Outside,
           TypeOK, Threads, dispatching, router
  <2> QED BY <2>1, ElsewhereStep
<1>9. ASSUME NEW d \in Dispatchers, LoseTransport(d) PROVE LifeParts'
  <2>1. Elsewhere /\ life # "destroyed"
    BY <1>0, <1>9
       DEF LoseTransport, Running, At, LastThread, Outside, Guarded, Threads,
           Elsewhere, dispatching, router
  <2> QED BY <2>1, ElsewhereStep
<1>10. ASSUME NEW n \in Sessions, Continue(n) PROVE LifeParts'
  <2>1. Elsewhere /\ life # "destroyed"
    BY <1>10 DEF Continue, ContinueHandshake, JoinUnlock, JoinMark, JoinGet,
                 Ready, Elsewhere, dispatching, router
  <2> QED BY <2>1, ElsewhereStep
<1>11. CASE UNCHANGED vars
  <2>1. Elsewhere /\ UNCHANGED <<stage, result>>
    BY <1>11 DEF vars, Elsewhere
  <2> QED BY <2>1, ElsewhereStep
<1>12. ASSUME NEW t \in AppThreads, Release(t) PROVE LifeParts'
  BY <1>5, <1>12 DEF Release, Threads
<1>13. ASSUME NEW d \in Dispatchers, RunReturns(d) PROVE LifeParts'
  BY <1>5, <1>13 DEF RunReturns, Threads
<1> QED
  BY <1>1, <1>2, <1>3, <1>4, <1>6, <1>7, <1>8, <1>9, <1>10, <1>11, <1>12, <1>13
     DEF Next

(* Nobody is in disconnect() at first and the object is alive. *)
LEMMA LifeInit == Init => LifeInv
<1> SUFFICES ASSUME Init PROVE LifeInv
  OBVIOUS
<1>1. TypeOK
  BY SessionInit DEF SessionInv
<1>2. DisconnectIsSerial
  BY DEF Init, DisconnectIsSerial, Guarded
<1>3. LastThread /\ DestroyedWhenUnused
  BY DEF Init, LastThread, DestroyedWhenUnused, Unfulfilled
<1> QED BY <1>1, <1>2, <1>3 DEF LifeInv

(* With SessionInv, which types the reply to a registration, LifeInv is too. *)
LEMMA LifeInductive == SessionInv /\ LifeInv /\ [Next]_vars => LifeInv'
BY TypingStep, LifeStep DEF LifeInv, LifeParts

(* The inductive invariant of disconnect() and of the references holds. *)
THEOREM LifeInvariant == Spec => []LifeInv
BY SessionInit, LifeInit, SessionInductive, LifeInductive, PTL DEF Spec

(* One disconnect() at a time is in its body, and it never joins the thread it
   runs on, be it called by the application, from a stub's method on the
   dispatch thread, or by the destructor there.                            *)
THEOREM OneDisconnect == Spec => []DisconnectIsSerial
<1>1. LifeInv => DisconnectIsSerial
  BY DEF LifeInv
<1> QED BY LifeInvariant, <1>1, PTL

(* The connection is destroyed only when no thread, callback or continuation
   has anything left to do on it.                                          *)
THEOREM SafeDestruction == Spec => []DestroyedWhenUnused
<1>1. LifeInv => DestroyedWhenUnused
  BY DEF LifeInv
<1> QED BY LifeInvariant, <1>1, PTL

-----------------------------------------------------------------------------
(* The dispatch thread of one connect()                                    *)

Begun(n) == stage[n] # "none"
TwoBegun == \E n, m \in Sessions : n # m /\ Begun(n) /\ Begun(m)

(* As long as only one connect() has come past the test of connected_, a
   thread is assigned to dispatchThread_ at most once, before any disconnect()
   waits for one, and the one that a disconnect() waits for is still there. *)
OneStart ==
    /\ life # "terminated"
    /\ \A t, u \in Threads : pc[t] = "connectStart" /\ pc[u] = "connectStart" => t = u
    /\ \A t, u \in Threads : pc[t] = "connectStart" =>
          dispatchThread = None /\ pc[u] # "discJoin"
    /\ \A t \in Threads : pc[t] = "discJoin" => joining[t] = dispatchThread

StartInv ==
    /\ (dispatchThread # None \/ \E t \in Threads : pc[t] \in {"connectStart", "discJoin"})
          => \E n \in Sessions : Begun(n)
    /\ TwoBegun \/ OneStart

(* Most steps start nothing: no handshake begins, no thread is assigned or
   waited for.                                                             *)
StartsNothing ==
    /\ UNCHANGED <<dispatchThread, joining>>
    /\ life' = life \/ life' # "terminated"
    /\ \A n \in Sessions : Begun(n)' <=> Begun(n)
    /\ \A t \in Threads : pc'[t] \in {"connectStart", "discJoin"} => pc'[t] = pc[t]

(* Such a step keeps the rule. *)
LEMMA StartsNothingStep ==
    ASSUME StartInv, StartsNothing PROVE StartInv'
<1>1. TwoBegun => TwoBegun'
  BY DEF StartsNothing, TwoBegun
<1>2. OneStart => OneStart'
  BY DEF StartsNothing, OneStart
<1>3. (\E n \in Sessions : Begun(n)) => \E n \in Sessions : Begun(n)'
  BY DEF StartsNothing
<1> QED BY <1>1, <1>2, <1>3 DEF StartInv, StartsNothing

(* A continuation begins no handshake and ends none. *)
LEMMA ContinueStartsNothing ==
    ASSUME TypeOK, NEW n \in Sessions, Continue(n) PROVE StartsNothing
<1> USE DEF TypeOK, StartsNothing, Begun, Ready, dispatching, router
<1>1. CASE ContinueHandshake(n)
  BY <1>1, NextStages DEF ContinueHandshake
<1>2. CASE JoinUnlock(n)
  BY <1>2 DEF JoinUnlock
<1>3. CASE JoinMark(n)
  BY <1>3 DEF JoinMark
<1>4. CASE JoinGet(n)
  BY <1>4 DEF JoinGet
<1> QED BY <1>1, <1>2, <1>3, <1>4 DEF Continue

(* The first connect() past the test finds nothing begun; the second makes two. *)
LEMMA ConnectLockStarts ==
    ASSUME TypeOK, StartInv, NEW t \in Threads, ConnectLock(t) PROVE StartInv'
<1>1. PICK n \in Sessions : stage[n] = "none"
                            /\ stage' = [stage EXCEPT ![n] = "connecting"]
  BY DEF ConnectLock
<1>2. /\ UNCHANGED <<dispatchThread, joining>> /\ life' = life
      /\ pc' = [pc EXCEPT ![t] = "connectStart"] /\ life # "terminated"
  BY DEF ConnectLock, Goto, At, dispatching
<1>3. Begun(n)' /\ \A m \in Sessions : Begun(m) => m # n /\ Begun(m)'
  BY <1>1 DEF Begun, TypeOK
<1>4. CASE \E m \in Sessions : Begun(m)
  <2>1. TwoBegun'
    BY <1>3, <1>4 DEF TwoBegun
  <2> QED BY <2>1, <1>3 DEF StartInv
<1>5. CASE ~\E m \in Sessions : Begun(m)
  <2>1. dispatchThread = None /\ \A u \in Threads : pc[u] \notin {"connectStart", "discJoin"}
    BY <1>5 DEF StartInv
  <2>2. \A u \in Threads : pc'[u] # "discJoin" /\ (pc'[u] = "connectStart" => u = t)
    BY <1>2, <2>1 DEF TypeOK
  <2>3. OneStart'
    BY <1>2, <2>1, <2>2 DEF OneStart
  <2> QED BY <2>3, <1>3 DEF StartInv
<1> QED BY <1>4, <1>5

(* connect() assigns the thread, disconnect() waits for it and lets it go. *)
LEMMA ThreadMoves ==
    ASSUME TypeOK, DisconnectIsSerial, StartInv, NEW t \in Threads,
           ConnectStart(t) \/ DisconnectJoin(t) \/ DisconnectDetach(t) \/ DisconnectJoined(t)
    PROVE  StartInv'
<1>1. stage' = stage
  BY DEF ConnectStart, DisconnectJoin, DisconnectDetach, DisconnectJoined, handshake
<1>2. TwoBegun => TwoBegun'
  BY <1>1 DEF TwoBegun, Begun
<1>3. (\E n \in Sessions : Begun(n)) => (\E n \in Sessions : Begun(n))'
  BY <1>1 DEF Begun
<1>4. life \in {"alive", "dtor"}
  BY DEF ConnectStart, DisconnectJoin, DisconnectDetach, DisconnectJoined, At
<1>5. CASE ConnectStart(t)
  <2>1. PICK d \in Dispatchers : /\ pc[d] = "none" /\ dispatchThread' = d
                                 /\ pc' = [pc EXCEPT ![t] = Back(t), ![d] = "run"]
    BY <1>5 DEF ConnectStart
  <2>2. pc[t] = "connectStart" /\ joining' = joining /\ life' = life
    BY <1>5 DEF ConnectStart, At
  <2>3. \A u \in Threads : pc'[u] \in {"connectStart", "discJoin"} =>
                              pc'[u] = pc[u] /\ u # t
    BY <2>1, BackLabels DEF TypeOK
  <2>4. \E n \in Sessions : Begun(n)
    BY <2>2 DEF StartInv
  <2>5. OneStart => OneStart'
    BY <2>2, <2>3 DEF OneStart
  <2> QED BY <2>4, <2>5, <1>2, <1>3 DEF StartInv
<1>6. CASE DisconnectJoin(t)
  <2>1. /\ pc[t] = "discBody" /\ dispatchThread # None /\ UNCHANGED <<life, dispatchThread>>
        /\ joining' = [joining EXCEPT ![t] = dispatchThread]
        /\ pc' = [pc EXCEPT ![t] = "discJoin"]
    BY <1>6 DEF DisconnectJoin, At, MayJoin, JoinTarget, Goto
  <2>2. /\ joining'[t] = dispatchThread
        /\ \A u \in Threads \ {t} : joining'[u] = joining[u] /\ pc'[u] = pc[u]
        /\ pc'[t] = "discJoin"
    BY <2>1 DEF TypeOK
  <2>3. \E n \in Sessions : Begun(n)
    BY <2>1 DEF StartInv
  <2>4. OneStart => OneStart'
    BY <2>1, <2>2 DEF OneStart
  <2> QED BY <2>3, <2>4, <1>2, <1>3 DEF StartInv
<1>7. CASE DisconnectDetach(t)
  <2>1. /\ pc[t] = "discBody" /\ dispatchThread' = None /\ UNCHANGED <<life, joining>>
        /\ pc' = [pc EXCEPT ![t] = Back(t)]
    BY <1>7 DEF DisconnectDetach, At, Return, Goto
  <2>2. \A u \in Threads : /\ pc[u] # "discJoin" /\ pc'[u] # "discJoin"
                           /\ pc'[u] = "connectStart" => pc[u] = "connectStart"
    BY <2>1, BackLabels DEF DisconnectIsSerial, Guarded, TypeOK
  <2>3. OneStart => OneStart'
    BY <2>1, <2>2 DEF OneStart
  <2> QED BY <2>1, <2>2, <2>3, <1>2, <1>3 DEF StartInv
<1>8. CASE DisconnectJoined(t)
  <2>0. pc[t] = "discJoin"
    BY <1>8 DEF DisconnectJoined, At
  <2>1. CASE dispatchThread = joining[t]
    <3>1. /\ dispatchThread' = None /\ life' = life /\ joining' = [joining EXCEPT ![t] = None]
          /\ pc' = [pc EXCEPT ![t] = Back(t)]
      BY <1>8, <2>1 DEF DisconnectJoined, Return, Goto
    <3>2. \A u \in Threads : /\ pc'[u] # "discJoin"
                             /\ pc'[u] = "connectStart" => pc[u] = "connectStart"
      BY <2>0, <3>1, BackLabels DEF DisconnectIsSerial, Guarded, TypeOK
    <3>3. OneStart => OneStart'
      BY <3>1, <3>2 DEF OneStart
    <3> QED BY <3>1, <3>2, <3>3, <1>2, <1>3 DEF StartInv
  <2>2. CASE dispatchThread # joining[t]
    <3>1. ~OneStart
      BY <2>0, <2>2 DEF OneStart
    <3>2. UNCHANGED <<pc, dispatchThread>>
      BY <1>8, <2>2 DEF DisconnectJoined
    <3> QED BY <3>1, <3>2, <1>2, <1>3 DEF StartInv
  <2> QED BY <2>1, <2>2
<1> QED BY <1>5, <1>6, <1>7, <1>8

(* The steps that begin a handshake, assign a dispatch thread or wait for one. *)
StartingSteps(t) == \/ ConnectLock(t) \/ ConnectStart(t)
                    \/ DisconnectJoin(t) \/ DisconnectDetach(t) \/ DisconnectJoined(t)

(* All the others start nothing. *)
LEMMA OthersStartNothing ==
    ASSUME TypeOK, [Next]_vars, \A t \in Threads : ~StartingSteps(t) PROVE StartsNothing
<1> USE DEF StartsNothing, Begun, At, Goto, Return, TypeOK, handshake, dispatching, router
<1>1. ASSUME NEW t \in Threads, NEW op \in AppOps, Call(t, op) PROVE StartsNothing
  BY <1>1, FirstLabels, OpsKnown DEF Call
<1>2. ASSUME NEW t \in Threads,
             ProvideLock(t) \/ PublishLock(t) \/ DisconnectLock(t) \/ ServiceName(t)
      PROVE  StartsNothing
  <2> USE BackLabels
  <2>1. CASE ProvideLock(t)
    BY <2>1 DEF ProvideLock
  <2>2. CASE PublishLock(t)
    BY <2>2 DEF PublishLock
  <2>3. CASE DisconnectLock(t)
    BY <2>3 DEF DisconnectLock
  <2>4. CASE ServiceName(t)
    BY <2>4 DEF ServiceName
  <2> QED BY <1>2, <2>1, <2>2, <2>3, <2>4
<1>3. ASSUME NEW t \in Threads,
             \/ ConnectTest(t) \/ ConnectNoThread(t)
             \/ ConnectThrows(t) \/ AttachMainLoopContext(t) \/ Reply(t)
             \/ ProvideWait(t) \/ ProvideUnlock(t)
             \/ PublishWait(t) \/ PublishUnlock(t)
             \/ DisconnectNoThread(t) \/ FinishDestructor(t)
      PROVE  StartsNothing
  <2> USE BackLabels
  <2>1. CASE ConnectTest(t)
    BY <2>1 DEF ConnectTest
  <2>2. CASE ConnectNoThread(t)
    BY <2>2 DEF ConnectNoThread
  <2>3. CASE ConnectThrows(t)
    BY <2>3 DEF ConnectThrows
  <2>4. CASE AttachMainLoopContext(t) \/ Reply(t)
    BY <2>4 DEF AttachMainLoopContext, Reply
  <2>5. CASE ProvideWait(t) \/ PublishWait(t)
    BY <2>5 DEF ProvideWait, PublishWait
  <2>6. CASE ProvideUnlock(t) \/ PublishUnlock(t)
    BY <2>6 DEF ProvideUnlock, PublishUnlock
  <2>7. CASE DisconnectNoThread(t)
    BY <2>7 DEF DisconnectNoThread
  <2>8. CASE FinishDestructor(t)
    BY <2>8 DEF FinishDestructor
  <2> QED BY <1>3, <2>1, <2>2, <2>3, <2>4, <2>5, <2>6, <2>7, <2>8
<1>4. ASSUME NEW t \in Threads, ContinueRegistration(t) \/ DropReference(t)
      PROVE  StartsNothing
  <2>1. CASE ContinueRegistration(t)
    BY <2>1 DEF ContinueRegistration
  <2>2. CASE DropReference(t)
    BY <2>2 DEF DropReference
  <2> QED BY <1>4, <2>1, <2>2
<1>5. ASSUME NEW d \in Dispatchers, NEW x,
             DeliverHandshake(d, x) \/ DeliverRegistration(d, x) \/ LoseTransport(d)
      PROVE  StartsNothing
  BY <1>5 DEF DeliverHandshake, DeliverRegistration, LoseTransport
<1>6. ASSUME NEW d \in Dispatchers, NEW op \in HandlerOps, Invoke(d, op)
      PROVE  StartsNothing
  BY <1>6, FirstLabels, OpsKnown DEF Invoke, Running, Threads
<1>7. ASSUME UNCHANGED vars PROVE StartsNothing
  BY <1>7 DEF vars
<1>8. ASSUME NEW t \in Threads, Acquire(t) PROVE StartsNothing
  BY <1>2, <1>8 DEF Acquire, StartingSteps
<1>9. ASSUME NEW t \in Threads, Advance(t) PROVE StartsNothing
  BY <1>3, <1>9 DEF Advance, StartingSteps
<1> QED BY <1>1, <1>4, <1>5, <1>6, <1>7, <1>8, <1>9, ContinueStartsNothing
        DEF Next, Release, RunReturns, Threads

(* Every step keeps the rule of the one dispatch thread. *)
LEMMA StartStep == TypeOK /\ DisconnectIsSerial /\ StartInv /\ [Next]_vars => StartInv'
BY OthersStartNothing, StartsNothingStep, ConnectLockStarts, ThreadMoves DEF StartingSteps

(* The process ends in disconnect(), on the deletion of a std::thread that is
   joinable, only after two connect() calls have both found connected_ unset. *)
THEOREM OneConnectDoesNotTerminate == Spec => []TerminatedByTwoConnects
<1>1. Init => StartInv
  BY DEF Init, StartInv, OneStart, Threads
<1>2. LifeInv => TypeOK /\ DisconnectIsSerial
  BY DEF LifeInv
<1>3. StartInv => TerminatedByTwoConnects
  BY DEF StartInv, OneStart, TwoBegun, Begun, TerminatedByTwoConnects
<1> QED BY SessionInit, LifeInit, SessionInductive, LifeInductive, StartStep,
           <1>1, <1>2, <1>3, PTL DEF Spec

-----------------------------------------------------------------------------
(* The last session                                                        *)

(* Nothing resets connected_, and no thread that finds it set goes on to the
   lock of connect().                                                      *)
LEMMA SettledStays ==
    ASSUME TypeOK, [Next]_vars, Settled PROVE Settled'
<1> USE DEF Settled, At, Goto, Return, TypeOK
<1>1. ASSUME NEW t \in Threads, NEW op \in AppOps, Call(t, op) PROVE Settled'
  BY <1>1, FirstLabels, OpsKnown DEF Call
<1>2. ASSUME NEW t \in Threads, Acquire(t) PROVE Settled'
  <2> USE BackLabels
  <2>1. CASE ProvideLock(t) \/ PublishLock(t)
    BY <2>1 DEF ProvideLock, PublishLock
  <2>2. CASE DisconnectLock(t)
    BY <2>2 DEF DisconnectLock
  <2>3. CASE ServiceName(t)
    BY <2>3 DEF ServiceName
  <2> QED BY <1>2, <2>1, <2>2, <2>3 DEF Acquire, ConnectLock
<1>3. ASSUME NEW t \in Threads, Advance(t) PROVE Settled'
  <2> USE BackLabels
  <2>1. CASE ConnectTest(t)
    BY <2>1 DEF ConnectTest
  <2>2. CASE ConnectStart(t)
    BY <2>2 DEF ConnectStart
  <2>3. CASE ConnectNoThread(t) \/ ConnectThrows(t)
    BY <2>3 DEF ConnectNoThread, ConnectThrows
  <2>4. CASE AttachMainLoopContext(t) \/ Reply(t)
    BY <2>4 DEF AttachMainLoopContext, Reply
  <2>5. CASE ProvideWait(t) \/ PublishWait(t)
    BY <2>5 DEF ProvideWait, PublishWait
  <2>6. CASE ProvideUnlock(t) \/ PublishUnlock(t)
    BY <2>6 DEF ProvideUnlock, PublishUnlock
  <2>7. CASE DisconnectNoThread(t) \/ DisconnectDetach(t)
    BY <2>7 DEF DisconnectNoThread, DisconnectDetach
  <2>8. CASE DisconnectJoin(t)
    BY <2>8 DEF DisconnectJoin
  <2>9. CASE DisconnectJoined(t)
    BY <2>9 DEF DisconnectJoined
  <2>10. CASE FinishDestructor(t)
    BY <2>10 DEF FinishDestructor
  <2> QED BY <1>3, <2>1, <2>2, <2>3, <2>4, <2>5, <2>6, <2>7, <2>8, <2>9, <2>10
          DEF Advance
<1>4. ASSUME NEW t \in Threads, ContinueRegistration(t) \/ DropReference(t)
      PROVE  Settled'
  BY <1>4 DEF ContinueRegistration, DropReference
<1>5. ASSUME NEW d \in Dispatchers, NEW x,
             DeliverHandshake(d, x) \/ DeliverRegistration(d, x) \/ LoseTransport(d)
      PROVE  Settled'
  BY <1>5 DEF DeliverHandshake, DeliverRegistration, LoseTransport
<1>6. ASSUME NEW d \in Dispatchers, NEW op \in HandlerOps, Invoke(d, op)
      PROVE  Settled'
  BY <1>6, FirstLabels, OpsKnown DEF Invoke, Threads
<1>7. ASSUME NEW n \in Sessions, Continue(n) PROVE Settled'
  BY <1>7 DEF Continue, ContinueHandshake, JoinUnlock, JoinMark, JoinGet
<1>8. ASSUME UNCHANGED vars PROVE Settled'
  BY <1>8 DEF vars
<1> QED BY <1>1, <1>2, <1>3, <1>4, <1>5, <1>6, <1>7, <1>8
        DEF Next, Release, RunReturns, Threads

(* Once connected_ is set and no call is left that found it unset, no connect()
   brings a new session, whatever becomes of the one there is.             *)
THEOREM NeverReconnects == Spec => SessionIsFinal
<1>1. TypeOK /\ [Next]_vars => [Settled => Settled' /\ session' = session]_vars
  BY SettledStays, SessionAssigned DEF ConnectLock, At, Settled
<1> QED BY <1>1, TypeCorrect, PTL DEF Spec, SessionIsFinal

-----------------------------------------------------------------------------
(* Those who wait for a dispatch thread                                    *)

(* Methods of the stubs that wait for neither mutex nor for the connection:
   they answer, attach a context, or call connect() on a connection that is
   connected already.                                                      *)
ShortMethods == HandlerOps \subseteq {"reply", "attach", "connect"}

(* The router has answered a request of the session's handshake. *)
Answered(n) == stage[n] \notin {"none", "connecting"} \/ result[n] # "pending"

(* A procedure is registered, or its registration asked for, only through a
   connection that is connected.                                           *)
ProvidedConnected ==
    /\ provided # {} => connected
    /\ \A t \in Threads : reg[t] # "none" => connected

(* As long as the object lives a dispatch thread is in io_.run() or in one of
   the short methods; there was one if anything was ever answered, and it is
   still there unless io_ has stopped; and dispatchThread_ and those in join()
   name a thread that has been started.                                    *)
DispatchersServe ==
    /\ life = "alive" => \A d \in Dispatchers : pc[d] \in Serving \cup Outside
    /\ \A d \in Dispatchers : pc[d] = "connectTest" => connected
    /\ (\E n \in Sessions : Answered(n)) =>
          ioStopped \/ \E d \in Dispatchers : pc[d] \in Serving

JoinsStarted ==
    /\ dispatchThread # None => pc[dispatchThread] # "none"
    /\ \A t \in Threads : pc[t] = "discJoin" =>
          joining[t] \in Dispatchers /\ pc[joining[t]] \in Serving \cup {"gone"}

ServeInv == ProvidedConnected /\ DispatchersServe /\ JoinsStarted

(* What a step does to the flags, the answers and the procedures. *)
Grows ==
    /\ connected => connected'
    /\ ioStopped => ioStopped'
    /\ life' = "alive" => life = "alive"
    /\ \A n \in Sessions : Answered(n)' /\ ~Answered(n) =>
          UNCHANGED pc /\ \E d \in Dispatchers : pc[d] = "run"
    /\ ProvidedConnected'

(* No flag is reset, and an answer is taken by a dispatch thread. *)
LEMMA GrowsStep ==
    ASSUME SessionInv, ProvidedConnected, [Next]_vars PROVE Grows
<1>0. TypeOK /\ SessionExists
  BY DEF SessionInv
<1> USE <1>0 DEF Grows, ProvidedConnected, Answered, TypeOK, At, Goto, Return, Running,
                 Ready, handshake, dispatching, router
<1>1. ASSUME NEW t \in Threads, NEW op \in AppOps, Call(t, op) PROVE Grows
  BY <1>1 DEF Call
<1>2. ASSUME NEW t \in Threads, Acquire(t) PROVE Grows
  <2>1. CASE ConnectLock(t)
    BY <2>1 DEF ConnectLock
  <2>2. CASE ProvideLock(t)
    BY <2>2 DEF ProvideLock, SessionExists
  <2>3. CASE PublishLock(t)
    BY <2>3 DEF PublishLock
  <2>4. CASE DisconnectLock(t)
    BY <2>4 DEF DisconnectLock
  <2>5. CASE ServiceName(t)
    BY <2>5 DEF ServiceName
  <2> QED BY <1>2, <2>1, <2>2, <2>3, <2>4, <2>5 DEF Acquire
<1>3. ASSUME NEW t \in Threads, Advance(t) PROVE Grows
  <2>1. CASE ConnectTest(t) \/ ConnectStart(t) \/ ConnectNoThread(t) \/ ConnectThrows(t)
    BY <2>1 DEF ConnectTest, ConnectStart, ConnectNoThread, ConnectThrows
  <2>2. CASE AttachMainLoopContext(t) \/ Reply(t)
    BY <2>2 DEF AttachMainLoopContext, Reply
  <2>3. CASE ProvideWait(t) \/ PublishWait(t) \/ PublishUnlock(t)
    BY <2>3 DEF ProvideWait, PublishWait, PublishUnlock
  <2>4. CASE ProvideUnlock(t)
    BY <2>4 DEF ProvideUnlock
  <2>5. CASE DisconnectNoThread(t) \/ DisconnectJoin(t) \/ DisconnectDetach(t)
    BY <2>5 DEF DisconnectNoThread, DisconnectJoin, DisconnectDetach
  <2>6. CASE DisconnectJoined(t)
    BY <2>6 DEF DisconnectJoined
  <2>7. CASE FinishDestructor(t)
    BY <2>7 DEF FinishDestructor
  <2> QED BY <1>3, <2>1, <2>2, <2>3, <2>4, <2>5, <2>6, <2>7 DEF Advance
<1>4. ASSUME NEW t \in Threads, ContinueRegistration(t) PROVE Grows
  BY <1>4 DEF ContinueRegistration
<1>5. ASSUME NEW t \in Threads, DropReference(t), life = "alive" PROVE Grows
  BY <1>5 DEF DropReference
<1>6. ASSUME NEW d \in Dispatchers, NEW n \in Sessions, DeliverHandshake(d, n) PROVE Grows
  BY <1>6 DEF DeliverHandshake
<1>7. ASSUME NEW d \in Dispatchers, NEW t \in Threads, DeliverRegistration(d, t) PROVE Grows
  BY <1>7 DEF DeliverRegistration
<1>8. ASSUME NEW d \in Dispatchers, NEW op \in HandlerOps, Invoke(d, op) PROVE Grows
  BY <1>8 DEF Invoke
<1>9. ASSUME NEW d \in Dispatchers, LoseTransport(d) PROVE Grows
  BY <1>9 DEF LoseTransport
<1>10. ASSUME NEW n \in Sessions, Continue(n) PROVE Grows
  <2>1. CASE ContinueHandshake(n)
    BY <2>1, NextStages DEF ContinueHandshake
  <2>2. CASE JoinUnlock(n) \/ JoinMark(n)
    BY <2>2 DEF JoinUnlock, JoinMark
  <2>3. CASE JoinGet(n)
    BY <2>3 DEF JoinGet
  <2> QED BY <1>10, <2>1, <2>2, <2>3 DEF Continue
<1>11. CASE UNCHANGED vars
  BY <1>11 DEF vars
<1> QED BY <1>1, <1>2, <1>3, <1>4, <1>5, <1>6, <1>7, <1>8, <1>9, <1>10, <1>11
        DEF Next, Release, RunReturns, Threads

(* How a dispatch thread moves: it is started; it stays in io_.run() and the
   short methods; it leaves io_.run() when io_ has stopped, and if it runs the
   destructor then nobody waits for it.  Past the object's life none is left
   that serves.                                                            *)
DispatcherMoves(d) ==
    \/ pc'[d] = pc[d]
    \/ pc[d] = "none" /\ pc'[d] = "run"
    \/ /\ pc[d] \in Serving /\ pc'[d] \in Serving
       /\ pc'[d] = "connectTest" => connected
    \/ /\ pc[d] = "run" /\ ioStopped
       /\ \/ pc'[d] = "gone"
          \/ /\ pc'[d] \notin Serving \cup {"none"}
             /\ life' # "alive" /\ \A t \in Threads : pc'[t] # "discJoin"
    \/ /\ life # "alive" /\ pc[d] \notin Serving \cup Outside
       /\ pc'[d] \notin Serving \cup {"none"}

(* Every dispatch thread moves like that, also when it is another's step. *)
LEMMA DispatchersMove ==
    ASSUME ShortMethods, TypeOK, LastThread, ProvidedConnected, DispatchersServe,
           [Next]_vars, NEW d \in Dispatchers
    PROVE  DispatcherMoves(d)
<1> USE DEF DispatcherMoves, DispatchersServe, TypeOK, At, Goto, Return, Serving, Outside
<1>0. d \in Threads /\ Home(d) = "run"
  BY ThreadsDisjoint DEF Threads, Home
<1>a. Back(d) = IF life = "dtor" THEN "dtorEnd" ELSE "run"
  BY <1>0 DEF Back
<1>b. life \in {"alive", "dtor"} /\ pc[d] \notin Serving \cup Outside => life = "dtor"
  OBVIOUS
<1>c. life = "dtor" => pc[d] \notin Serving
  BY <1>0 DEF LastThread, Guarded
<1> USE <1>0, <1>a, <1>b, <1>c
<1>1. ASSUME NEW t \in Threads, NEW op \in AppOps, Call(t, op) PROVE DispatcherMoves(d)
  BY <1>1, ThreadsDisjoint DEF Call
<1>2. ASSUME NEW t \in Threads, Acquire(t) PROVE DispatcherMoves(d)
  <2>1. CASE ConnectLock(t)
    BY <2>1 DEF ConnectLock, LastThread, Guarded
  <2>2. CASE ProvideLock(t)
    BY <2>2 DEF ProvideLock, LastThread, Guarded
  <2>3. CASE PublishLock(t)
    BY <2>3 DEF PublishLock, LastThread, Guarded
  <2>4. CASE DisconnectLock(t)
    BY <2>4 DEF DisconnectLock
  <2>5. CASE ServiceName(t)
    BY <2>5 DEF ServiceName
  <2> QED BY <1>2, <2>1, <2>2, <2>3, <2>4, <2>5 DEF Acquire
<1>3. ASSUME NEW t \in Threads, Advance(t) PROVE DispatcherMoves(d)
  <2>1. CASE ConnectTest(t)
    BY <2>1 DEF ConnectTest
  <2>2. CASE ConnectStart(t)
    BY <2>2 DEF ConnectStart
  <2>3. CASE ConnectNoThread(t) \/ ConnectThrows(t)
    BY <2>3 DEF ConnectNoThread, ConnectThrows
  <2>4. CASE AttachMainLoopContext(t) \/ Reply(t)
    BY <2>4 DEF AttachMainLoopContext, Reply
  <2>5. CASE ProvideWait(t) \/ PublishWait(t)
    BY <2>5 DEF ProvideWait, PublishWait
  <2>6. CASE ProvideUnlock(t) \/ PublishUnlock(t)
    BY <2>6 DEF ProvideUnlock, PublishUnlock
  <2>7. CASE DisconnectNoThread(t) \/ DisconnectDetach(t)
    BY <2>7 DEF DisconnectNoThread, DisconnectDetach
  <2>8. CASE DisconnectJoin(t)
    BY <2>8 DEF DisconnectJoin
  <2>9. CASE DisconnectJoined(t)
    BY <2>9 DEF DisconnectJoined
  <2>10. CASE FinishDestructor(t)
    BY <2>10 DEF FinishDestructor, LastThread
  <2> QED BY <1>3, <2>1, <2>2, <2>3, <2>4, <2>5, <2>6, <2>7, <2>8, <2>9, <2>10
          DEF Advance
<1>4. ASSUME NEW t \in AppThreads, Release(t) PROVE DispatcherMoves(d)
  <2>1. t # d /\ t \in Threads
    BY ThreadsDisjoint DEF Threads
  <2> QED BY <1>4, <2>1 DEF Release, DropReference
<1>5. ASSUME NEW e \in Dispatchers, RunReturns(e) PROVE DispatcherMoves(d)
  <2>0. e \in Threads /\ pc[e] = "run" /\ ioStopped
    BY <1>5 DEF RunReturns, Threads
  <2>1. CASE pc' = [pc EXCEPT ![e] = "gone"]
    BY <2>0, <2>1
  <2>2. CASE OtherReferences(e) = {} /\ life' = "dtor" /\ pc' = [pc EXCEPT ![e] = "discLock"]
    <3>1. \A t \in Threads \ {e} : pc[t] \in Outside
      BY <2>2 DEF OtherReferences
    <3>2. \A t \in Threads : pc'[t] # "discJoin"
      BY <2>2, <3>1
    <3> QED BY <2>0, <2>2, <3>2
  <2> QED BY <1>5, <2>1, <2>2 DEF RunReturns, DropReference
<1>6. ASSUME UNCHANGED pc PROVE DispatcherMoves(d)
  BY <1>6
<1>7. ASSUME NEW e \in Dispatchers, NEW op \in HandlerOps, Invoke(e, op)
      PROVE  DispatcherMoves(d)
  <2>1. FirstStep[op] \in Serving /\ (op = "connect" <=> FirstStep[op] = "connectTest")
    <3>1. op \in {"reply", "attach", "connect"}
      BY DEF ShortMethods
    <3> QED BY <3>1 DEF FirstStep
  <2>2. /\ e \in Threads /\ pc[e] = "run" /\ pc' = [pc EXCEPT ![e] = FirstStep[op]]
        /\ connected
    BY <1>7 DEF Invoke, Running, Threads, ProvidedConnected
  <2> QED BY <2>1, <2>2
<1>8. ASSUME NEW e \in Dispatchers, NEW x,
             DeliverHandshake(e, x) \/ DeliverRegistration(e, x) \/ LoseTransport(e)
      PROVE  UNCHANGED pc
  BY <1>8 DEF DeliverHandshake, DeliverRegistration, LoseTransport
<1>9. ASSUME NEW t \in Threads, ContinueRegistration(t) PROVE UNCHANGED pc
  BY <1>9 DEF ContinueRegistration
<1>10. ASSUME NEW n \in Sessions, Continue(n) PROVE UNCHANGED pc
  BY <1>10 DEF Continue, ContinueHandshake, JoinUnlock, JoinMark, JoinGet
<1>11. ASSUME UNCHANGED vars PROVE UNCHANGED pc
  BY <1>11 DEF vars
<1> QED BY <1>1, <1>2, <1>3, <1>4, <1>5, <1>6, <1>7, <1>8, <1>9, <1>10, <1>11 DEF Next

(* How a disconnect() comes to wait in join(): it was there already, or it
   read dispatchThread_ just now.                                          *)
JoinMoves(t) ==
    \/ pc[t] = "discJoin" /\ joining'[t] = joining[t]
    \/ /\ pc[t] = "discBody" /\ life \in {"alive", "dtor"}
       /\ joining'[t] = dispatchThread /\ dispatchThread \notin {None, t}
       /\ pc' = [pc EXCEPT ![t] = "discJoin"]

(* dispatchThread_ is reset or names the thread just started, and every
   disconnect() in join() came there in one of these ways.                 *)
LEMMA JoinsMove ==
    ASSUME TypeOK, DisconnectIsSerial, [Next]_vars
    PROVE  /\ dispatchThread' \in {dispatchThread, None} \/ pc'[dispatchThread'] = "run"
           /\ \A t \in Threads : pc'[t] = "discJoin" => JoinMoves(t)
<1> USE DEF TypeOK, JoinMoves, At, Goto, Return
<1>1. CASE StartsNothing
  BY <1>1 DEF StartsNothing
<1>2. ASSUME NEW t \in Threads, ConnectLock(t)
      PROVE  UNCHANGED <<dispatchThread, joining>> /\
             \A u \in Threads : pc'[u] = "discJoin" => pc[u] = "discJoin"
  BY <1>2 DEF ConnectLock, dispatching
<1>3. ASSUME NEW t \in Threads, ConnectStart(t)
      PROVE  pc'[dispatchThread'] = "run" /\ joining' = joining /\
             \A u \in Threads : pc'[u] = "discJoin" => pc[u] = "discJoin"
  BY <1>3, BackLabels DEF ConnectStart, Threads
<1>4. ASSUME NEW t \in Threads, DisconnectJoin(t)
      PROVE  dispatchThread' = dispatchThread /\
             \A u \in Threads : pc'[u] = "discJoin" => JoinMoves(u)
  BY <1>4 DEF DisconnectJoin, MayJoin, JoinTarget
<1>5. ASSUME NEW t \in Threads, DisconnectDetach(t)
      PROVE  dispatchThread' = None /\ joining' = joining /\
             \A u \in Threads : pc'[u] = "discJoin" => pc[u] = "discJoin"
  BY <1>5, BackLabels DEF DisconnectDetach
<1>6. ASSUME NEW t \in Threads, DisconnectJoined(t)
      PROVE  dispatchThread' \in {dispatchThread, None} /\
             \A u \in Threads : pc'[u] = "discJoin" => JoinMoves(u)
  <2>1. CASE life' = "terminated" /\ UNCHANGED <<pc, dispatchThread, joining, guard>>
    BY <2>1
  <2>2. CASE /\ dispatchThread' = None /\ joining' = [joining EXCEPT ![t] = None]
             /\ Return(t)
    BY <2>2, BackLabels
  <2> QED BY <1>6, <2>1, <2>2 DEF DisconnectJoined
<1> QED BY <1>1, <1>2, <1>3, <1>4, <1>5, <1>6, OthersStartNothing DEF StartingSteps

(* A step from a state in which the dispatch threads serve leads to another. *)
LEMMA ServeStep ==
    ASSUME ShortMethods, SessionInv, LifeInv, ServeInv, [Next]_vars PROVE ServeInv'
<1>0. TypeOK /\ LastThread /\ DisconnectIsSerial
  BY DEF LifeInv
<1>1. Grows
  BY GrowsStep DEF ServeInv
<1>2. \A d \in Dispatchers : DispatcherMoves(d)
  BY <1>0, DispatchersMove DEF ServeInv
<1>3. \A d \in Dispatchers : d \in Threads
  BY DEF Threads
<1>4. DispatchersServe'
  <2>1. ASSUME life' = "alive", NEW d \in Dispatchers
        PROVE  pc'[d] \in Serving \cup Outside
    BY <1>1, <1>2, <2>1
       DEF Grows, DispatcherMoves, ServeInv, DispatchersServe, Serving, Outside
  <2>2. ASSUME NEW d \in Dispatchers, pc'[d] = "connectTest" PROVE connected'
    BY <1>1, <1>2, <2>2
       DEF Grows, DispatcherMoves, ServeInv, DispatchersServe, Serving, Outside
  <2>3. ASSUME NEW n \in Sessions, Answered(n)', ~ioStopped'
        PROVE  \E d \in Dispatchers : pc'[d] \in Serving
    <3>1. ~ioStopped
      BY <1>1, <2>3 DEF Grows
    <3>2. CASE Answered(n)
      <4>1. PICK d \in Dispatchers : pc[d] \in Serving
        BY <3>1, <3>2 DEF ServeInv, DispatchersServe
      <4>2. pc'[d] \in Serving
        BY <1>2, <3>1, <4>1 DEF DispatcherMoves, Serving
      <4> QED BY <4>2
    <3>3. CASE ~Answered(n)
      BY <1>1, <2>3, <3>3 DEF Grows, Serving
    <3> QED BY <3>2, <3>3
  <2> QED BY <2>1, <2>2, <2>3 DEF DispatchersServe
<1>5. JoinsStarted'
  <2>1. ASSUME dispatchThread' # None PROVE pc'[dispatchThread'] # "none"
    <3>1. CASE dispatchThread' = dispatchThread
      <4>1. dispatchThread \in Dispatchers /\ pc[dispatchThread] # "none"
        BY <1>0, <2>1, <3>1 DEF TypeOK, ServeInv, JoinsStarted
      <4> QED BY <1>2, <3>1, <4>1 DEF DispatcherMoves, Serving
    <3> QED BY <1>0, <2>1, <3>1, JoinsMove
  <2>2. ASSUME NEW t \in Threads, pc'[t] = "discJoin"
        PROVE  joining'[t] \in Dispatchers /\ pc'[joining'[t]] \in Serving \cup {"gone"}
    <3>1. CASE pc[t] = "discJoin" /\ joining'[t] = joining[t]
      <4>1. joining[t] \in Dispatchers /\ pc[joining[t]] \in Serving \cup {"gone"}
        BY <3>1 DEF ServeInv, JoinsStarted
      <4> QED BY <1>2, <2>2, <3>1, <4>1 DEF DispatcherMoves, Serving, Outside
    <3>2. CASE /\ pc[t] = "discBody" /\ life \in {"alive", "dtor"}
               /\ joining'[t] = dispatchThread /\ dispatchThread \notin {None, t}
               /\ pc' = [pc EXCEPT ![t] = "discJoin"]
      <4>1. dispatchThread \in Dispatchers /\ pc[dispatchThread] # "none"
        BY <1>0, <3>2 DEF TypeOK, ServeInv, JoinsStarted
      <4>2. pc'[dispatchThread] = pc[dispatchThread]
        BY <1>0, <1>3, <3>2, <4>1 DEF TypeOK
      <4>3. pc[dispatchThread] \in Serving \cup {"gone"}
        <5>1. CASE life = "alive"
          BY <4>1, <5>1 DEF ServeInv, DispatchersServe, Outside
        <5>2. CASE life = "dtor"
          BY <1>0, <1>3, <3>2, <4>1, <5>2 DEF LastThread, Outside
        <5> QED BY <3>2, <5>1, <5>2
      <4> QED BY <3>2, <4>1, <4>2, <4>3
    <3> QED BY <1>0, <2>2, <3>1, <3>2, JoinsMove DEF JoinMoves
  <2> QED BY <2>1, <2>2 DEF JoinsStarted
<1> QED BY <1>1, <1>4, <1>5 DEF Grows, ServeInv

(* A registration that is awaited was asked of a session whose handshake is
   over, so somebody has answered it.                                      *)
LEMMA ServeImpliesServed == SessionInv /\ ServeInv => WaitersAreServed
<1> SUFFICES ASSUME SessionInv, ServeInv PROVE WaitersAreServed
  OBVIOUS
<1>1. ASSUME NEW t \in Threads, reg[t] = "pending"
      PROVE  ioStopped \/ \E d \in Dispatchers : pc[d] \in Serving
  <2>1. CallOwns(t)
    BY <1>1 DEF SessionInv, RequestIsAwaited, CallOwns, InSession
  <2>2. session \in Sessions /\ Answered(session)
    BY <2>1 DEF SessionInv, SessionIsTheOneMeant, TypeOK, Answered
  <2> QED BY <2>2 DEF ServeInv, DispatchersServe
<1> QED BY <1>1 DEF WaitersAreServed, ServeInv, JoinsStarted

(* With stubs whose methods take neither mutex, nobody waits in vain for the
   reply to a registration or in join() for want of a running thread: there
   is one in io_.run() or in a short method, or io_ has stopped.           *)
THEOREM WaitsForRunningThreads ==
    ASSUME ShortMethods PROVE Spec => []WaitersAreServed
<1>1. Init => ServeInv
  BY ThreadsDisjoint
     DEF Init, ServeInv, ProvidedConnected, DispatchersServe, JoinsStarted, Answered,
         Outside, Threads
<1>2. SessionInv /\ LifeInv /\ ServeInv /\ [Next]_vars => ServeInv'
  BY ServeStep
<1> QED BY <1>1, <1>2, SessionInit, SessionInductive, LifeInit, LifeInductive,
           ServeImpliesServed, PTL DEF Spec
=============================================================================
