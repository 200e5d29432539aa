------------------------- MODULE AttachedConnection -------------------------
(***************************************************************************)
(* Connections attached to the main loop of an application: the loop is    *)
(* made on a MainLoopContext and destroyed, connections attach to that     *)
(* context with a WampDispatchSource each, and their destructors take the  *)
(* source back.  The loop itself is WampMainLoop; its other sources,       *)
(* timeouts and watches belong to the application.                         *)
(*                                                                         *)
(* A source and its connection know each other by plain pointers, and both *)
(* the loop and the connection delete the source.  Once a deleted object   *)
(* is used or deleted again the behaviour is undefined and ends here.      *)
(***************************************************************************)
EXTENDS WampMainLoop

CONSTANTS
    Connections,
    Owned,       \* the sources that are WampDispatchSources
    WakeFds      \* whether the wakeup descriptor can be made

ASSUME OwnedAreSources == Owned \subseteq Sources /\ None \notin Connections
ASSUME WakeFdsKnown == WakeFds \subseteq BOOLEAN

VARIABLES
    loop,           \* the loop: none, alive, gone
    canWake,        \* wakeFd_ is a descriptor
    contextHeld,    \* the application keeps its reference to the context
    conn,           \* each connection: alive, at a step of its destructor, gone
    dispatchSource, \* dispatchSource_ of each connection
    wampConnection, \* wampConnection_ of each source
    deleted,        \* sources that their connections deleted
    early,          \* connections dropped while the loop was there
    undefined       \* something deleted was used

attachment == <<loop, canWake, contextHeld, conn, dispatchSource, wampConnection,
                deleted, early>>
avars == <<vars, attachment, undefined>>

AInit ==
    /\ Init
    /\ loop = "none" /\ canWake = FALSE /\ contextHeld = TRUE
    /\ conn = [c \in Connections |-> "alive"]
    /\ dispatchSource = [c \in Connections |-> None]
    /\ wampConnection = [x \in Owned |-> None]
    /\ deleted = {} /\ early = {} /\ undefined = FALSE

-----------------------------------------------------------------------------
(* The loop's constructor and destructor                                   *)

(* The constructor: a wakeup descriptor, if the system has one to give, and
   the subscriptions.  A failure is at most printed.                       *)
NewLoop ==
    /\ loop = "none" /\ contextHeld
    /\ loop' = "alive"
    /\ canWake' \in WakeFds
    /\ UNCHANGED <<vars, contextHeld, conn, dispatchSource, wampConnection, deleted,
                   early, undefined>>

(* Mutant: the destructor deletes the sources that are still registered. *)
MutDestroyed == ToSet(registered["source"])

(* What the loop's destructor deletes of the objects it was given. *)
Destroyed == {}

(* The destructor gives up the wakeup descriptor and the subscriptions, and
   the members go.  The application calls it when nobody is inside.        *)
DestroyLoop ==
    /\ loop = "alive" /\ At("idle")
    /\ \A c \in Clients : cpc[c] = "idle"
    /\ loop' = "gone" /\ canWake' = FALSE
    /\ freed' = freed \cup Destroyed
    /\ registered' = [k \in Kinds |-> <<>>] /\ toDispatch' = [k \in Kinds |-> {}]
    /\ fds' = WithoutFd(Wake) /\ moved' = FALSE /\ shifted' = FALSE /\ reported' = {}
    /\ deleteObject' = {} /\ elapsed' = {} /\ due' = {} /\ readable' = {}
    /\ isBroken' = FALSE /\ hasToStop' = FALSE /\ woken' = FALSE
    /\ UNCHANGED <<pc, call, kind, todo, exec, polled, clients, fdMutex, watchesMutex,
                   contextHeld, conn, dispatchSource, wampConnection, deleted, early,
                   undefined>>

(* The loop keeps its context, and so does a destructor that has locked it. *)
ContextAlive == \/ contextHeld \/ loop = "alive"
                \/ \E c \in Connections : conn[c] \in {"deregister", "delete"}

DropContext ==
    /\ contextHeld /\ contextHeld' = FALSE
    /\ UNCHANGED <<vars, loop, canWake, conn, dispatchSource, wampConnection,
                   deleted, early, undefined>>

-----------------------------------------------------------------------------
(* attachMainLoopContext.  The context passes the source on to who has     *)
(* subscribed: a loop that is made later never hears of it.  A second call *)
(* forgets the first source.  On a dead context nothing is attached.       *)

Unused == {x \in Owned : wampConnection[x] = None}

Attach(c) ==
    /\ conn[c] = "alive" /\ ContextAlive
    /\ \E x \in Unused :
          /\ dispatchSource' = [dispatchSource EXCEPT ![c] = x]
          /\ wampConnection' = [wampConnection EXCEPT ![x] = c]
          /\ IF loop = "alive" THEN Insert("source", x) ELSE UNCHANGED registered
    /\ UNCHANGED <<pc, call, deleteObject, elapsed, freed, dispatching, polling, world,
                   clients, flags, fdMutex, watchesMutex, loop, canWake, contextHeld,
                   conn, deleted, early, undefined>>

-----------------------------------------------------------------------------
(* The destructor of a connection: if there is a context, the source is     *)
(* deregistered, then deleted.                                              *)

Drop(c) ==
    /\ conn[c] = "alive"
    /\ conn' = [conn EXCEPT ![c] = IF dispatchSource[c] # None /\ ContextAlive
                                   THEN "deregister" ELSE "gone"]
    /\ early' = IF loop = "alive" THEN early \cup {c} ELSE early
    /\ UNCHANGED <<vars, loop, canWake, contextHeld, dispatchSource, wampConnection,
                   deleted, undefined>>

Deregister(c) ==
    /\ conn[c] = "deregister"
    /\ conn' = [conn EXCEPT ![c] = "delete"]
    /\ IF loop = "alive"
       THEN /\ deleteObject' = deleteObject \cup
                  ({dispatchSource[c]} \cap ToSet(registered["source"]))
            /\ isBroken' = TRUE
       ELSE UNCHANGED <<deleteObject, isBroken>>
    /\ UNCHANGED <<pc, call, registered, elapsed, freed, dispatching, polling, world,
                   clients, hasToStop, woken, fdMutex, watchesMutex, loop, canWake,
                   contextHeld, dispatchSource, wampConnection, deleted, early,
                   undefined>>

(* The loop may have deleted the source meanwhile. *)
Delete(c) ==
    /\ conn[c] = "delete"
    /\ conn' = [conn EXCEPT ![c] = "gone"]
    /\ deleted' = deleted \cup {dispatchSource[c]}
    /\ undefined' = (dispatchSource[c] \in freed)
    /\ UNCHANGED <<vars, loop, canWake, contextHeld, dispatchSource, wampConnection,
                   early>>

-----------------------------------------------------------------------------
(* The loop and its clients                                                *)

(* What a WampDispatchSource answers to prepare() and check(), and to
   dispatch(), by asking its connection.                                   *)
IsDispatchReady(c) == FALSE
SingleDispatch(c) == TRUE

Asking == pc \in {"prepareSources", "checkSources"}
Asked == IF Asking THEN ToSet(registered["source"]) \cap Owned ELSE {}

AnswersRight ==
    \A x \in Asked : x \in toDispatch'["source"] <=>
       x \in toDispatch["source"] \/ IsDispatchReady(wampConnection[x])

(* dispatch() calls a source until it answers that nothing is left. *)
DispatchEnds == At("executing") /\ exec \in Owned => ~SingleDispatch(wampConnection[exec])

(* Without a descriptor to write to, only a watch ends the poll. *)
PollEnds == At("polling") => canWake \/ \E i \in ReadyFds : polled[i] # Wake

UsesDeleted ==
    \/ \E x \in Asked : x \in deleted \/ conn[wampConnection[x]] = "gone"
    \/ \E x \in deleted : x \in freed' \ freed

LoopStep ==
    /\ loop = "alive"
    /\ Loop
    /\ AnswersRight /\ DispatchEnds /\ PollEnds
    /\ undefined' = UsesDeleted
    /\ UNCHANGED attachment

(* The application leaves the connections' sources alone. *)
NotOwned == /\ Owned \cap ToSet(registered'["source"]) = Owned \cap ToSet(registered["source"])
            /\ Owned \cap deleteObject' = Owned \cap deleteObject

ApplicationStep ==
    /\ loop = "alive"
    /\ \/ \E f \in Calls : Begin(f)
       \/ \E c \in Clients : Client(c)
       \/ BecomesDue
       \/ BecomesReadable
    /\ NotOwned
    /\ UNCHANGED <<attachment, undefined>>

ClientGoesOnStep(c) == ClientGoesOn(c) /\ UNCHANGED <<attachment, undefined>>

ANext ==
    /\ ~undefined
    /\ \/ NewLoop \/ DestroyLoop \/ DropContext
       \/ \E c \in Connections : Attach(c) \/ Drop(c) \/ Deregister(c) \/ Delete(c)
       \/ LoopStep
       \/ ApplicationStep
       \/ \E c \in Clients : ClientGoesOnStep(c)

(* As in WampMainLoop: who is in the middle of something goes on. *)
ASpec == /\ AInit /\ [][ANext]_avars
         /\ WF_avars(~undefined /\ LoopStep)
         /\ \A c \in Clients : WF_avars(~undefined /\ ClientGoesOnStep(c))

-----------------------------------------------------------------------------
(* Properties                                                              *)

(* An application that destroys its loop before it drops the connections is
   safe: no source is deleted twice or used when it or its connection is
   gone, also when it attached before there was a loop.                    *)
UndefinedOnlyEarly == undefined => early # {}

(* The loop never keeps a pointer to an object that it has deleted itself,
   whoever attaches and drops meanwhile; and none to a source that its
   connection has deleted, as long as no connection is dropped under it.   *)
NothingGoneInUse ==
    /\ NothingFreedInUse
    /\ early = {} =>
          /\ \A k \in Kinds : (ToSet(registered[k]) \cup toDispatch[k]) \cap deleted = {}
          /\ exec \notin deleted

(* run() returns after stop(), from whatever phase it is in, with connections
   attached or not, if the loop has got its wakeup descriptor and check() does
   not hang on its mutexes.                                                *)
StopEndsRun ==
    CheckGoesOn =>
       ((hasToStop /\ call = "run" /\ canWake) ~> (call = "none" \/ undefined))

(* timeoutElapsed_ is set when a timeout is put up for dispatch and never
   reset, so that a timeout which is dropped from the set before its turn never
   gets another.  Every timeout that is due when run() comes to prepare() gets
   its turn, unless it is unregistered meanwhile: the unregistration of a
   source, which breaks off the dispatch of the sources, takes none away.  *)
DueIsDispatched ==
    \A x \in Timeouts :
       (call = "run" /\ At("prepareTimeouts") /\ x \in NewlyDue)
          ~> (exec = x \/ x \in deleteObject \/ undefined)

(* While the loop iterates, every unregistered object is deleted at last,
   although erasing one object skips its neighbour.                        *)
DeletedAtLast ==
    ([]<>(pc = "cleanWatches")) =>
       \A x \in Objects : (x \in deleteObject) ~> (x \in freed \/ undefined)
=============================================================================
