---------------------------- MODULE WampMainLoop ----------------------------
(***************************************************************************)
(* WampMainLoop: one thread goes through the phases of doSingleIteration() *)
(* (delete what was unregistered, prepare, poll, check, dispatch) while    *)
(* other threads, and the callbacks that dispatch() runs, register and     *)
(* unregister dispatch sources, timeouts and watches, and call stop().     *)
(*                                                                         *)
(* A block of code under one mutex is one step.  Two mutexes are state of  *)
(* the model because they are held while waiting for each other:           *)
(* watchesMutex_ and fileDescriptorsMutex_.                                *)
(***************************************************************************)
EXTENDS Naturals, Sequences, FiniteSets, SequencesExt

CONSTANTS
    Sources, Timeouts, Watches, \* the objects the users of the loop own
    Clients,      \* threads that use the loop's context
    Callback,     \* the client that stands for the running callback
    ClientOps,    \* what the clients do
    Calls,        \* what the thread that drives the loop calls
    ObjectBound,  \* how many objects are registered in all
    Wake,         \* the wakeup descriptor
    None

Objects == Sources \cup Timeouts \cup Watches
Kinds == {"timeout", "watch", "source"}
Of == [timeout |-> Timeouts, watch |-> Watches, source |-> Sources]

ASSUME ObjectsDistinct ==
    /\ Sources \cap Timeouts = {}
    /\ Sources \cap Watches = {}
    /\ Timeouts \cap Watches = {}
    /\ Wake \notin Objects
    /\ None \notin Objects

ASSUME ObjectBoundNat == ObjectBound \in Nat

ASSUME CallsKnown ==
    /\ Calls \subseteq {"run", "iteration", "prepare", "poll", "check", "dispatch"}
    /\ ClientOps \subseteq {"source", "timeout", "watch", "unsource", "untimeout",
                            "unwatch", "stop", "wakeup"}

VARIABLES
    pc,           \* the driving thread
    call,         \* the public function it is in
    registered,   \* registered..._ of each kind, in multimap order
    toDispatch,   \* ...ToDispatch_ of each kind
    kind,         \* the kind that dispatch() is working through
    todo,         \* what its iterator has not reached
    exec,         \* the object whose isExecuted_ is set
    deleteObject, \* objects whose deleteObject_ is set
    elapsed,      \* timeouts whose timeoutElapsed_ is set
    freed,        \* objects the loop has deleted
    due,          \* timeouts whose ready time has passed
    isBroken, hasToStop,
    woken,        \* the eventfd is readable
    fds,          \* managedFileDescriptors_: descriptor and revents
    polled,       \* the descriptors passed to ::poll
    moved,        \* the vector was reallocated meanwhile
    shifted,      \* an element was erased from it meanwhile
    readable,     \* watches whose descriptor is ready
    reported,     \* watches whose descriptor the last ::poll reported
    fdMutex, watchesMutex,
    cpc, carg     \* the clients and the object each works on

vars == <<pc, call, registered, toDispatch, kind, todo, exec, deleteObject,
          elapsed, freed, due, isBroken, hasToStop, woken, fds, polled, moved,
          shifted, readable, reported, fdMutex, watchesMutex, cpc, carg>>

objects == <<registered, deleteObject, elapsed, freed>>
dispatching == <<toDispatch, kind, todo, exec>>
polling == <<fds, polled, moved, shifted, reported>>
world == <<due, readable>>
clients == <<cpc, carg>>
flags == <<isBroken, hasToStop, woken>>

ClientPCs == {"idle", "watchFd", "unwatchFd", "unwatchMark", "stopWake"}

LoopPCs == {"idle", "test", "cleanSources", "cleanTimeouts", "cleanWatches",
            "prepareSources", "prepareTimeouts", "pollEnter", "polling", "ack",
            "checkFds", "checkWatch", "checkSources", "dispatch", "executing"}

TypeOK ==
    /\ pc \in LoopPCs
    /\ call \in {"none", "run", "iteration", "prepare", "poll", "check", "dispatch"}
    /\ \A k \in Kinds : /\ ToSet(registered[k]) \subseteq Of[k]
                        /\ toDispatch[k] \subseteq Of[k]
    /\ kind \in Kinds
    /\ todo \subseteq toDispatch[kind]
    /\ exec \in Objects \cup {None}
    /\ deleteObject \subseteq Objects /\ freed \subseteq deleteObject
    /\ elapsed \subseteq Timeouts /\ due \subseteq Timeouts
    /\ {isBroken, hasToStop, woken, moved, shifted, fdMutex, watchesMutex} \subseteq BOOLEAN
    /\ ToSet(fds) \subseteq [fd : Watches \cup {Wake}, revents : BOOLEAN]
    /\ Head(fds).fd = Wake
    /\ ToSet(polled) \subseteq Watches \cup {Wake}
    /\ readable \subseteq Watches /\ reported \subseteq Watches
    /\ cpc \in [Clients -> ClientPCs]
    /\ carg \in [Clients -> Objects \cup {None}]

Init ==
    /\ pc = "idle" /\ call = "none"
    /\ registered = [k \in Kinds |-> <<>>]
    /\ toDispatch = [k \in Kinds |-> {}]
    /\ kind = "timeout" /\ todo = {} /\ exec = None
    /\ deleteObject = {} /\ elapsed = {} /\ freed = {}
    /\ due = {} /\ readable = {}
    /\ isBroken = FALSE /\ hasToStop = FALSE /\ woken = FALSE
    /\ fds = <<[fd |-> Wake, revents |-> FALSE]>>
    /\ polled = <<>> /\ moved = FALSE /\ shifted = FALSE /\ reported = {}
    /\ fdMutex = FALSE /\ watchesMutex = FALSE
    /\ cpc = [c \in Clients |-> "idle"] /\ carg = [c \in Clients |-> None]

-----------------------------------------------------------------------------
(* The public functions of the driving thread                              *)

At(label) == pc = label
Goto(label) == pc' = label /\ UNCHANGED call
Iterating == call \in {"run", "iteration"}

Entry == [run |-> "test", iteration |-> "cleanSources", prepare |-> "prepareSources",
          poll |-> "pollEnter", check |-> "checkFds", dispatch |-> "dispatch"]

(* A call begins; dispatch() starts with the timeouts. *)
StartDispatch == kind' = "timeout" /\ todo' = toDispatch'["timeout"]

Begin(f) ==
    /\ At("idle")
    /\ pc' = Entry[f] /\ call' = f
    /\ IF f = "dispatch"
       THEN UNCHANGED <<toDispatch, exec>> /\ StartDispatch
       ELSE UNCHANGED dispatching
    /\ UNCHANGED <<objects, polling, world, clients, flags, fdMutex, watchesMutex>>

(* The end of a function, or of an iteration inside run(). *)
Finish == /\ pc' = IF call = "run" THEN "test" ELSE "idle"
          /\ call' = IF call = "run" THEN "run" ELSE "none"

(* run(): while (!hasToStop_) doSingleIteration(). *)
RunTest ==
    /\ At("test")
    /\ IF hasToStop THEN pc' = "idle" /\ call' = "none" ELSE Goto("cleanSources")
    /\ UNCHANGED <<objects, dispatching, polling, world, clients, flags, fdMutex,
                   watchesMutex>>

-----------------------------------------------------------------------------
(* Deletion of what was unregistered                                       *)

(* Mutant: the search in the ...ToDispatch_ set is left out. *)
MutDeletable(k) == {x \in deleteObject : x # exec}

(* Mutant: the outcome of that search is taken the wrong way round. *)
MutContained(k) == {x \in deleteObject : x # exec /\ x \in toDispatch[k]}

Deletable(k) == {x \in deleteObject : x # exec /\ x \notin toDispatch[k]}

(* Erasing an element and then advancing the iterator steps over the element
   behind it, which is left for the next iteration: of the elements to delete
   that stand together, every other one is erased, beginning with the first. *)
Erased(s, D) ==
    {s[i] : i \in {j \in DOMAIN s : \E b \in 0..(j - 1) :
       /\ b = 0 \/ s[b] \notin D
       /\ \A m \in (b + 1)..j : s[m] \in D
       /\ (j - b) % 2 = 1}}

(* Mutant: what was deleted is not erased. *)
MutWithout(s, E) == s

(* The others stay in their order. *)
Without(s, E) ==
    LET kept == {i \in DOMAIN s : s[i] \notin E}
        Rank(i) == Cardinality({j \in kept : j =< i})
    IN  [n \in 1..Cardinality(kept) |-> s[CHOOSE i \in kept : Rank(i) = n]]

Clean(k) ==
    LET E == Erased(registered[k], Deletable(k))
    IN  /\ registered' = [registered EXCEPT ![k] = Without(@, E)]
        /\ freed' = freed \cup E
        /\ UNCHANGED <<deleteObject, elapsed, dispatching, polling, world, clients,
                       flags, fdMutex, watchesMutex>>

CleanSources == At("cleanSources") /\ Clean("source") /\ Goto("cleanTimeouts")
CleanTimeouts == At("cleanTimeouts") /\ Clean("timeout") /\ Goto("cleanWatches")
CleanWatches == /\ At("cleanWatches") /\ ~watchesMutex
                /\ Clean("watch") /\ Goto("prepareSources")

-----------------------------------------------------------------------------
(* prepare()                                                               *)

(* A source answers prepare() as it likes, also one that was unregistered. *)
PrepareSources ==
    /\ At("prepareSources")
    /\ \E R \in SUBSET ToSet(registered["source"]) :
          toDispatch' = [toDispatch EXCEPT !["source"] = @ \cup R]
    /\ Goto("prepareTimeouts")
    /\ UNCHANGED <<objects, kind, todo, exec, polling, world, clients, flags,
                   fdMutex, watchesMutex>>

NewlyDue == (ToSet(registered["timeout"]) \cap due) \ (deleteObject \cup elapsed)

PrepareTimeouts ==
    /\ At("prepareTimeouts")
    /\ toDispatch' = [toDispatch EXCEPT !["timeout"] = @ \cup NewlyDue]
    /\ elapsed' = elapsed \cup NewlyDue
    /\ IF ~Iterating
       THEN Finish /\ UNCHANGED <<kind, todo>>
       ELSE IF toDispatch'["source"] # {} \/ toDispatch'["timeout"] # {}
            THEN Goto("dispatch") /\ StartDispatch
            ELSE Goto("pollEnter") /\ UNCHANGED <<kind, todo>>
    /\ UNCHANGED <<registered, deleteObject, freed, exec, polling, world, clients,
                   flags, fdMutex, watchesMutex>>

-----------------------------------------------------------------------------
(* poll(): no mutex is held, the timeout passed to ::poll is -1.  The      *)
(* kernel answers by index into the vector as it was on entry.             *)

(* Mutant: revents keeps what an earlier ::poll left there. *)
MutNoRevents(s) == s

NoRevents(s) == [i \in DOMAIN s |-> [s[i] EXCEPT !.revents = FALSE]]

PollEnter ==
    /\ At("pollEnter")
    /\ fds' = NoRevents(fds)
    /\ polled' = [i \in DOMAIN fds |-> fds[i].fd]
    /\ moved' = FALSE /\ shifted' = FALSE /\ reported' = {}
    /\ Goto("polling")
    /\ UNCHANGED <<objects, dispatching, world, clients, flags, fdMutex, watchesMutex>>

ReadyFds == {i \in DOMAIN polled : IF polled[i] = Wake THEN woken
                                   ELSE polled[i] \in readable}

PollReturn ==
    /\ At("polling")
    /\ ReadyFds # {}
    /\ fds' = IF moved THEN fds
              ELSE [i \in DOMAIN fds |-> [fds[i] EXCEPT !.revents = @ \/ i \in ReadyFds]]
    /\ reported' = {polled[i] : i \in ReadyFds} \ {Wake}
    /\ polled' = <<>>
    /\ Goto("ack")
    /\ UNCHANGED <<objects, dispatching, moved, shifted, world, clients, flags,
                   fdMutex, watchesMutex>>

(* wakeupAck() empties the eventfd. *)
PollAck ==
    /\ At("ack")
    /\ woken' = (woken /\ ~Head(fds).revents)
    /\ IF Iterating THEN Goto("checkFds") ELSE Finish
    /\ UNCHANGED <<objects, dispatching, polling, world, clients, isBroken,
                   hasToStop, fdMutex, watchesMutex>>

-----------------------------------------------------------------------------
(* check(): fileDescriptorsMutex_ for the whole scan, watchesMutex_ for    *)
(* each descriptor in turn.  The scans are one step here, taken when       *)
(* watchesMutex_ is free: each watch has one descriptor, and a watch that  *)
(* is marked between two scans could as well be marked before the first or *)
(* after the last.                                                         *)

CheckFds ==
    /\ At("checkFds")
    /\ ~fdMutex
    /\ IF Len(fds) > 1
       THEN fdMutex' = TRUE /\ Goto("checkWatch")
       ELSE UNCHANGED fdMutex /\ Goto("checkSources")
    /\ UNCHANGED <<objects, dispatching, polling, world, clients, flags, watchesMutex>>

Hot == {fds[i].fd : i \in {j \in 2..Len(fds) : fds[j].revents}}

CheckWatches ==
    /\ At("checkWatch")
    /\ ~watchesMutex
    /\ toDispatch' = [toDispatch EXCEPT !["watch"] =
          @ \cup ((Hot \cap ToSet(registered["watch"])) \ deleteObject)]
    /\ fdMutex' = FALSE
    /\ Goto("checkSources")
    /\ UNCHANGED <<objects, kind, todo, exec, polling, world, clients, flags,
                   watchesMutex>>

CheckSources ==
    /\ At("checkSources")
    /\ \E R \in SUBSET ToSet(registered["source"]) :
          toDispatch' = [toDispatch EXCEPT !["source"] = @ \cup R]
    /\ IF Iterating /\ \E k \in Kinds : toDispatch'[k] # {}
       THEN Goto("dispatch") /\ StartDispatch
       ELSE Finish /\ UNCHANGED <<kind, todo>>
    /\ UNCHANGED <<objects, exec, polling, world, clients, flags, fdMutex,
                   watchesMutex>>

-----------------------------------------------------------------------------
(* dispatch(): timeouts, watches, sources; each set in an arbitrary order. *)

(* Mutant: deleteObject_ is not looked at before the callback. *)
MutRuns(x) == TRUE

Runs(x) == x \notin deleteObject

(* Mutant: all three loops look at isBroken_, not only that of the sources. *)
MutBrokenOff == isBroken

(* An unregistration breaks off the loop over the sources. *)
BrokenOff == kind = "source" /\ isBroken

DispatchNext ==
    /\ At("dispatch")
    /\ ~BrokenOff
    /\ \E x \in todo :
          /\ todo' = todo \ {x}
          /\ IF Runs(x) THEN exec' = x /\ Goto("executing")
                        ELSE UNCHANGED exec /\ Goto("dispatch")
    /\ UNCHANGED <<objects, toDispatch, kind, polling, world, clients, flags,
                   fdMutex, watchesMutex>>

(* The callback returns and isExecuted_ is reset; a watch has read its
   descriptor.                                                             *)
Executed ==
    /\ At("executing")
    /\ Callback \in Clients => cpc[Callback] = "idle"
    /\ exec' = None
    /\ readable' = readable \ {exec}
    /\ Goto("dispatch")
    /\ UNCHANGED <<objects, toDispatch, kind, todo, polling, due, clients, flags,
                   fdMutex, watchesMutex>>

Cleared == [toDispatch EXCEPT ![kind] = {}]

(* A set is done, or broken off; what is left of it is forgotten. *)
DispatchKindDone ==
    /\ At("dispatch")
    /\ todo = {} \/ BrokenOff
    /\ toDispatch' = Cleared
    /\ \/ /\ kind = "timeout"
          /\ kind' = "watch" /\ todo' = toDispatch["watch"]
          /\ Goto("dispatch")
          /\ UNCHANGED isBroken
       \/ /\ kind = "watch"
          /\ kind' = "source" /\ todo' = toDispatch["source"]
          /\ isBroken' = (isBroken /\ toDispatch["source"] = {})
          /\ Goto("dispatch")
       \/ /\ kind = "source"
          /\ kind' = "timeout" /\ todo' = {}
          /\ Finish
          /\ UNCHANGED isBroken
    /\ UNCHANGED <<objects, exec, polling, world, clients, hasToStop, woken, fdMutex,
                   watchesMutex>>

Loop == \/ RunTest \/ CleanSources \/ CleanTimeouts \/ CleanWatches
        \/ PrepareSources \/ PrepareTimeouts
        \/ PollEnter \/ PollReturn \/ PollAck
        \/ CheckFds \/ CheckWatches \/ CheckSources
        \/ DispatchNext \/ Executed \/ DispatchKindDone

-----------------------------------------------------------------------------
(* The clients.  The callback client runs inside a callback only.          *)

Free(c, op) == /\ op \in ClientOps
               /\ cpc[c] = "idle"
               /\ c = Callback => At("executing")

(* Objects that were given to the loop; each is given once. *)
Given == freed \cup UNION {ToSet(registered[k]) : k \in Kinds}

(* Bound: ObjectBound objects in all. *)
New(k) == {x \in Of[k] \ Given : /\ Cardinality(Given) < ObjectBound
                                 /\ \A c \in Clients : carg[c] # x}
Live(k) == {x \in ToSet(registered[k]) \ deleteObject : \A c \in Clients : carg[c] # x}

(* multimap::insert: the position depends on the priorities. *)
Insert(k, x) ==
    \E i \in 1..(Len(registered[k]) + 1) :
       registered' = [registered EXCEPT ![k] = InsertAt(@, i, x)]

(* registerDispatchSource and registerTimeout. *)
Register(c, k) ==
    /\ Free(c, k) /\ k \in {"source", "timeout"}
    /\ \E x \in New(k) : Insert(k, x)
    /\ UNCHANGED <<pc, call, deleteObject, elapsed, freed, dispatching, polling,
                   world, clients, flags, fdMutex, watchesMutex>>

UnregisterDispatchSource(c) ==
    /\ Free(c, "unsource")
    /\ \E x \in Live("source") : deleteObject' = deleteObject \cup {x}
    /\ isBroken' = TRUE
    /\ UNCHANGED <<pc, call, registered, elapsed, freed, dispatching, polling, world,
                   clients, hasToStop, woken, fdMutex, watchesMutex>>

UnregisterTimeout(c) ==
    /\ Free(c, "untimeout")
    /\ \E x \in Live("timeout") : deleteObject' = deleteObject \cup {x}
    /\ UNCHANGED <<pc, call, registered, elapsed, freed, dispatching, polling, world,
                   clients, flags, fdMutex, watchesMutex>>

(* registerWatch: watchesMutex_ first, then fileDescriptorsMutex_. *)
RegisterWatch(c) ==
    /\ Free(c, "watch")
    /\ ~watchesMutex /\ watchesMutex' = TRUE
    /\ \E x \in New("watch") : carg' = [carg EXCEPT ![c] = x]
    /\ cpc' = [cpc EXCEPT ![c] = "watchFd"]
    /\ UNCHANGED <<pc, call, objects, dispatching, polling, world, flags, fdMutex>>

(* Mutant: watchesMutex_ is not given back. *)
MutRegisterWatchFd(c) ==
    /\ cpc[c] = "watchFd"
    /\ ~fdMutex
    /\ fds' = Append(fds, [fd |-> carg[c], revents |-> FALSE])
    /\ Insert("watch", carg[c])
    /\ cpc' = [cpc EXCEPT ![c] = "idle"] /\ carg' = [carg EXCEPT ![c] = None]
    /\ UNCHANGED <<pc, call, deleteObject, elapsed, freed, dispatching, polled, moved,
                   shifted, reported, world, flags, fdMutex, watchesMutex>>

(* push_back may move the vector away from under ::poll. *)
RegisterWatchFd(c) ==
    /\ cpc[c] = "watchFd"
    /\ ~fdMutex
    /\ fds' = Append(fds, [fd |-> carg[c], revents |-> FALSE])
    /\ \E m \in {FALSE, At("polling")} : moved' = (moved \/ m)
    /\ Insert("watch", carg[c])
    /\ watchesMutex' = FALSE
    /\ cpc' = [cpc EXCEPT ![c] = "idle"] /\ carg' = [carg EXCEPT ![c] = None]
    /\ UNCHANGED <<pc, call, deleteObject, elapsed, freed, dispatching, polled,
                   shifted, reported, world, flags, fdMutex>>

(* unregisterWatch: wakeup(), the descriptor, then deleteObject_. *)
UnregisterWatch(c) ==
    /\ Free(c, "unwatch")
    /\ \E x \in Live("watch") : carg' = [carg EXCEPT ![c] = x]
    /\ woken' = TRUE
    /\ cpc' = [cpc EXCEPT ![c] = "unwatchFd"]
    /\ UNCHANGED <<pc, call, objects, dispatching, polling, world, isBroken,
                   hasToStop, fdMutex, watchesMutex>>

(* Mutant: only the events are compared, and those are POLLIN for all. *)
MutWithoutFd(x) == RemoveFirstMatch(fds, LAMBDA p : TRUE)

WithoutFd(x) == RemoveFirstMatch(fds, LAMBDA p : p.fd = x)

(* Mutant: the watch is marked before its descriptor is taken away. *)
MutUnregisterWatchFd(c) ==
    /\ cpc[c] = "unwatchFd"
    /\ ~watchesMutex
    /\ deleteObject' = deleteObject \cup {carg[c]}
    /\ cpc' = [cpc EXCEPT ![c] = "unwatchMark"]
    /\ UNCHANGED <<pc, call, registered, elapsed, freed, dispatching, polling, world,
                   flags, fdMutex, watchesMutex, carg>>

UnregisterWatchFd(c) ==
    /\ cpc[c] = "unwatchFd"
    /\ ~fdMutex
    /\ fds' = WithoutFd(carg[c])
    /\ shifted' = (shifted \/ At("polling"))
    /\ cpc' = [cpc EXCEPT ![c] = "unwatchMark"]
    /\ UNCHANGED <<pc, call, objects, dispatching, polled, moved, reported, world,
                   flags, fdMutex, watchesMutex, carg>>

UnregisterWatchMark(c) ==
    /\ cpc[c] = "unwatchMark"
    /\ ~watchesMutex
    /\ deleteObject' = deleteObject \cup {carg[c]}
    /\ cpc' = [cpc EXCEPT ![c] = "idle"] /\ carg' = [carg EXCEPT ![c] = None]
    /\ UNCHANGED <<pc, call, registered, elapsed, freed, dispatching, polling, world,
                   flags, fdMutex, watchesMutex>>

Stop(c) ==
    /\ Free(c, "stop") /\ ~hasToStop
    /\ hasToStop' = TRUE
    /\ cpc' = [cpc EXCEPT ![c] = "stopWake"]
    /\ UNCHANGED <<pc, call, objects, dispatching, polling, world, isBroken, woken,
                   fdMutex, watchesMutex, carg>>

(* Mutant: stop() does not wake the loop up. *)
MutStopWake(c) ==
    /\ cpc[c] = "stopWake"
    /\ cpc' = [cpc EXCEPT ![c] = "idle"]
    /\ UNCHANGED <<pc, call, objects, dispatching, polling, world, flags, fdMutex,
                   watchesMutex, carg>>

StopWake(c) ==
    /\ cpc[c] = "stopWake"
    /\ woken' = TRUE
    /\ cpc' = [cpc EXCEPT ![c] = "idle"]
    /\ UNCHANGED <<pc, call, objects, dispatching, polling, world, isBroken,
                   hasToStop, fdMutex, watchesMutex, carg>>

Wakeup(c) ==
    /\ Free(c, "wakeup")
    /\ woken' = TRUE
    /\ UNCHANGED <<pc, call, objects, dispatching, polling, world, clients, isBroken,
                   hasToStop, fdMutex, watchesMutex>>

ClientGoesOn(c) == \/ RegisterWatchFd(c) \/ UnregisterWatchFd(c)
                   \/ UnregisterWatchMark(c) \/ StopWake(c)

Client(c) == \/ \E k \in {"source", "timeout"} : Register(c, k)
             \/ UnregisterDispatchSource(c) \/ UnregisterTimeout(c)
             \/ RegisterWatch(c) \/ UnregisterWatch(c)
             \/ Stop(c) \/ Wakeup(c)

(* Time passes, data arrives. *)
BecomesDue ==
    /\ \E x \in ToSet(registered["timeout"]) \ due : due' = due \cup {x}
    /\ UNCHANGED <<pc, call, objects, dispatching, polling, readable, clients, flags,
                   fdMutex, watchesMutex>>

BecomesReadable ==
    /\ \E x \in ToSet(registered["watch"]) \ readable : readable' = readable \cup {x}
    /\ UNCHANGED <<pc, call, objects, dispatching, polling, due, clients, flags,
                   fdMutex, watchesMutex>>

Next == \/ \E f \in Calls : Begin(f)
        \/ Loop
        \/ \E c \in Clients : Client(c) \/ ClientGoesOn(c)
        \/ BecomesDue
        \/ BecomesReadable

Spec == Init /\ [][Next]_vars

(* The driving thread and a client in the middle of a call run on; callbacks
   return.  Nothing makes anybody call, time pass or data arrive.          *)
FairSpec == /\ Spec
            /\ WF_vars(Loop)
            /\ \A c \in Clients : WF_vars(ClientGoesOn(c))

-----------------------------------------------------------------------------
(* Properties                                                              *)

(* The loop never keeps a pointer to an object it has deleted: not in a
   registration, not in a set that waits for dispatch(), not in a running
   callback; also when prepare(), check() and dispatch() are called one by
   one, with a doSingleIteration() between them.                           *)
NothingFreedInUse ==
    /\ \A k \in Kinds : (ToSet(registered[k]) \cup toDispatch[k]) \cap freed = {}
    /\ exec \notin freed

(* The comment in check(): the first descriptor is the wakeup descriptor,
   "All others need to be linked to a watch"; here, to one that is still
   registered, and no descriptor is there twice.                           *)
DescriptorsLinked ==
    \A i \in 2..Len(fds) :
       /\ fds[i].fd \in ToSet(registered["watch"]) \ deleteObject
       /\ \A j \in 2..Len(fds) : fds[i].fd = fds[j].fd => i = j

(* A watch is put up for dispatch in run() only if ::poll reported its own
   descriptor in this iteration: the answers in the unprotected vector are
   read for the descriptors they were given for.                           *)
DispatchOnlyReported ==
    call = "run" => toDispatch["watch"] \subseteq reported

(* The same in whatever order the phases are called, and although a
   registration may make the vector move: a watch is put up for an answer that
   was not its own only if another one was unregistered during the ::poll.  *)
ReportedUnlessShifted ==
    [][~shifted => toDispatch'["watch"] \ toDispatch["watch"] \subseteq reported]_vars

(* check() waits for a registerWatch() on another thread only, and that one
   for check(): no other call holds the one mutex while it waits for the other,
   and a callback is never in the middle of registerWatch() meanwhile.     *)
MutexHolders ==
    /\ fdMutex => pc = "checkWatch"
    /\ watchesMutex => \E c \in Clients : /\ cpc[c] = "watchFd"
                                          /\ pc = "checkWatch" => c # Callback

(* The loop keeps the promise of DispatchLifecycle. *)
Status(x) ==
    IF x \in freed THEN "freed"
    ELSE IF x \in deleteObject THEN "unregistered"
    ELSE IF \E k \in Kinds : x \in ToSet(registered[k]) THEN "registered"
    ELSE "new"

Promise == INSTANCE DispatchLifecycle WITH status <- [x \in Objects |-> Status(x)],
                                           running <- exec

KeepsPromise == Promise!Spec

(* The comment on run(): the timeout of the loop "will be overridden if a
   timeout-event is present that defines an earlier ready time".           *)
TimeoutServed ==
    \A x \in Timeouts :
       (call = "run" /\ x \in due) ~> (x \in elapsed \cup deleteObject \/ call # "run")

(* The comment on doSingleIteration(): all steps but the poll "are handled in
   a non-blocking way".                                                    *)
CheckGoesOn == pc = "checkWatch" ~> pc # "checkWatch"
=============================================================================
