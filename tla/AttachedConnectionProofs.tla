---------------------- MODULE AttachedConnectionProofs ----------------------
(***************************************************************************)
(* Theorems about AttachedConnection, for any connections, sources and     *)
(* clients: an application that destroys its loop before it drops the      *)
(* connections is safe, and no timeout is dispatched twice.                *)
(***************************************************************************)
EXTENDS AttachedConnection, WampMainLoopProofs

(* The pointers between connections and their sources.  A source belongs to
   one connection for good, and is deleted by that one.                    *)
Pointers ==
    /\ conn \in [Connections -> {"alive", "deregister", "delete", "gone"}]
    /\ dispatchSource \in [Connections -> Owned \cup {None}]
    /\ wampConnection \in [Owned -> Connections \cup {None}]
    /\ \A c \in Connections :
          /\ dispatchSource[c] # None => wampConnection[dispatchSource[c]] = c
          /\ conn[c] \in {"deregister", "delete"} => dispatchSource[c] # None
    /\ deleted \subseteq Owned
    /\ \A x \in deleted : /\ wampConnection[x] # None
                          /\ conn[wampConnection[x]] = "gone"

(* Without a loop there is nobody inside and nothing registered. *)
Quiet ==
    loop # "alive" => /\ \A c \in Clients : cpc[c] = "idle"
                      /\ \A k \in Kinds : registered[k] = <<>>

(* As long as no connection was dropped under a loop, the sources that the
   loop knows belong to connections that live, and it is not asked to delete
   any of them.                                                            *)
Safe ==
    early = {} =>
       /\ ~undefined
       /\ \A x \in Owned \cap ToSet(registered["source"]) :
             wampConnection[x] # None /\ conn[wampConnection[x]] = "alive"
       /\ Owned \cap deleteObject = {} /\ Owned \cap freed = {}

AttachedInv == Registrations /\ Claims /\ Pointers /\ Quiet /\ Safe

(* The connections' sources are sources, and nothing else. *)
LEMMA OwnedFacts ==
    /\ Owned \subseteq Sources /\ Owned \subseteq Objects
    /\ None \notin Owned /\ None \notin Connections
    /\ Owned \cap Watches = {}
BY OwnedAreSources, ObjectsDistinct DEF Objects

(* Before there is a loop nothing is attached. *)
LEMMA AttachedInvInit == AInit => AttachedInv
<1> SUFFICES ASSUME AInit PROVE AttachedInv
  OBVIOUS
<1>1. Registrations /\ Claims
  BY ObjectInvInit DEF AInit, ObjectInv
<1>2. \A k \in Kinds : registered[k] = <<>> /\ ToSet(registered[k]) = {}
  BY DEF AInit, Init, ToSet
<1>3. Pointers
  BY DEF AInit, Pointers
<1>4. Quiet /\ Safe
  BY <1>2 DEF AInit, Init, Quiet, Safe, Kinds
<1> QED BY <1>1, <1>3, <1>4 DEF AttachedInv

-----------------------------------------------------------------------------
(* The steps of the loop's life and of the connections                     *)

(* What depends on the loop's variables alone does not change with others. *)
LEMMA LoopVariablesSame ==
    ASSUME UNCHANGED vars, Registrations, Claims
    PROVE  Registrations' /\ Claims'
BY DEF vars, Registrations, Claims, Given

(* A new loop finds nothing registered and nobody inside; dropping the
   context touches no pointer.                                              *)
LEMMA NewLoopStep ==
    ASSUME AttachedInv, ~undefined, NewLoop \/ DropContext
    PROVE  AttachedInv'
<1>1. /\ UNCHANGED vars /\ UNCHANGED <<conn, dispatchSource, wampConnection, deleted,
                                      early, undefined>>
      /\ loop' # "alive" => loop # "alive"
  BY DEF NewLoop, DropContext
<1>2. Registrations' /\ Claims'
  BY <1>1, LoopVariablesSame DEF AttachedInv
<1>3. Pointers'
  BY <1>1 DEF AttachedInv, Pointers
<1>4. Quiet' /\ Safe'
  BY <1>1 DEF AttachedInv, Quiet, Safe, vars
<1> QED BY <1>2, <1>3, <1>4 DEF AttachedInv

(* The loop's destructor forgets what was registered and deletes none of it. *)
LEMMA DestroyLoopStep ==
    ASSUME AttachedInv, ~undefined, DestroyLoop
    PROVE  AttachedInv'
<1>1. /\ registered' = [k \in Kinds |-> <<>>] /\ deleteObject' = {} /\ freed' = freed
      /\ cpc' = cpc /\ carg' = carg
      /\ \A c \in Clients : cpc[c] = "idle"
      /\ UNCHANGED <<conn, dispatchSource, wampConnection, deleted, early, undefined>>
  BY DEF DestroyLoop, clients, Destroyed
<1>2. \A k \in Kinds : registered'[k] = <<>> /\ ToSet(registered'[k]) = {}
  BY <1>1 DEF ToSet
<1>3. Registrations'
  BY <1>1, <1>2 DEF Registrations
<1>4. Claims'
  BY <1>1 DEF AttachedInv, Claims
<1>5. Pointers'
  BY <1>1 DEF AttachedInv, Pointers
<1>6. Quiet'
  BY <1>1, <1>2 DEF Quiet
<1>7. Safe'
  BY <1>1, <1>2 DEF AttachedInv, Safe, Kinds
<1> QED BY <1>3, <1>4, <1>5, <1>6, <1>7 DEF AttachedInv

(* attachMainLoopContext takes a new source for a connection that lives. *)
LEMMA AttachStep ==
    ASSUME AttachedInv, ~undefined, NEW c \in Connections, Attach(c)
    PROVE  AttachedInv'
<1>1. PICK x \in Unused :
         /\ dispatchSource' = [dispatchSource EXCEPT ![c] = x]
         /\ wampConnection' = [wampConnection EXCEPT ![x] = c]
         /\ IF loop = "alive" THEN Insert("source", x) ELSE UNCHANGED registered
  BY DEF Attach
<1>2. /\ conn[c] = "alive" /\ conn' = conn /\ deleted' = deleted /\ early' = early
      /\ undefined' = undefined /\ loop' = loop /\ cpc' = cpc /\ carg' = carg
      /\ deleteObject' = deleteObject /\ freed' = freed
  BY DEF Attach, clients
<1>3. x \in Owned /\ wampConnection[x] = None /\ x \in Of["source"] /\ c # None
  BY OwnedFacts, OfKinds DEF Unused
<1>4. /\ registered' \in [Kinds -> Seq(Objects)]
      /\ ToSet(registered'["source"]) \subseteq ToSet(registered["source"]) \cup {x}
      /\ \A k \in Kinds \ {"source"} : registered'[k] = registered[k]
      /\ loop # "alive" => registered' = registered
  <2>1. CASE loop = "alive"
    BY <1>1, <1>3, <2>1, InsertRegisters DEF AttachedInv, Kinds
  <2>2. CASE loop # "alive"
    BY <1>1, <2>2 DEF AttachedInv, Registrations
  <2> QED BY <2>1, <2>2
<1>5. Registrations'
  BY <1>3, <1>4 DEF AttachedInv, Registrations, Kinds
<1>6. Claims'
  <2>1. Given' \subseteq Given \cup {x}
    BY <1>2, <1>4, GivenIs
  <2>2. x \notin Watches
    BY <1>3, OwnedFacts
  <2>3. registered'["watch"] = registered["watch"]
    BY <1>4 DEF Kinds
  <2> QED BY <1>2, <2>1, <2>2, <2>3 DEF AttachedInv, Claims
<1>7. Pointers'
  <2>1. \A d \in Connections : dispatchSource[d] # x
    BY <1>3, OwnedFacts DEF AttachedInv, Pointers
  <2>2. x \notin deleted
    BY <1>3 DEF AttachedInv, Pointers
  <2> QED BY <1>1, <1>2, <1>3, <2>1, <2>2, OwnedFacts DEF AttachedInv, Pointers
<1>8. Quiet'
  BY <1>2, <1>4 DEF AttachedInv, Quiet
<1>9. Safe'
  BY <1>1, <1>2, <1>3, <1>4 DEF AttachedInv, Safe, Pointers
<1> QED BY <1>5, <1>6, <1>7, <1>8, <1>9 DEF AttachedInv

(* A connection that is dropped without a loop is in no loop's table. *)
LEMMA DropStep ==
    ASSUME AttachedInv, ~undefined, NEW c \in Connections, Drop(c)
    PROVE  AttachedInv'
<1>1. /\ conn[c] = "alive"
      /\ conn' = [conn EXCEPT ![c] = IF dispatchSource[c] # None /\ ContextAlive
                                     THEN "deregister" ELSE "gone"]
      /\ loop = "alive" => c \in early'
      /\ loop # "alive" => early' = early
      /\ UNCHANGED vars
      /\ UNCHANGED <<loop, dispatchSource, wampConnection, deleted, undefined>>
  BY DEF Drop
<1>2. Registrations' /\ Claims'
  BY <1>1, LoopVariablesSame DEF AttachedInv
<1>3. Pointers'
  <2>1. \A x \in deleted : wampConnection[x] # c
    BY <1>1 DEF AttachedInv, Pointers
  <2> QED BY <1>1, <2>1 DEF AttachedInv, Pointers
<1>4. Quiet'
  BY <1>1 DEF AttachedInv, Quiet, vars
<1>5. Safe'
  <2>1. CASE loop = "alive"
    BY <1>1, <2>1 DEF Safe
  <2>2. CASE loop # "alive"
    <3>1. ToSet(registered["source"]) = {}
      BY <2>2 DEF AttachedInv, Quiet, Kinds, ToSet
    <3> QED BY <1>1, <2>2, <3>1 DEF AttachedInv, Safe, vars
  <2> QED BY <2>1, <2>2
<1> QED BY <1>2, <1>3, <1>4, <1>5 DEF AttachedInv

(* The destructor of a connection marks its source only if a loop knows it. *)
LEMMA DeregisterStep ==
    ASSUME AttachedInv, ~undefined, NEW c \in Connections, Deregister(c)
    PROVE  AttachedInv'
<1> DEFINE x == dispatchSource[c]
           X == {x} \cap ToSet(registered["source"])
<1>1. /\ conn[c] = "deregister" /\ conn' = [conn EXCEPT ![c] = "delete"]
      /\ deleteObject' = deleteObject \cup X \/ deleteObject' = deleteObject
      /\ UNCHANGED <<registered, freed, cpc, carg, loop, dispatchSource,
                     wampConnection, deleted, early, undefined>>
  BY DEF Deregister, clients
<1>2. x \in Owned /\ wampConnection[x] = c
  BY <1>1 DEF AttachedInv, Pointers
<1> HIDE DEF x
<1>3. Registrations'
  BY <1>1 DEF AttachedInv, Registrations
<1>4. Claims'
  <2>1. Given' = Given
    BY <1>1 DEF Given
  <2>2. X \cap ToSet(registered["watch"]) = {}
    BY <1>2, OwnedFacts, OfKinds DEF AttachedInv, Registrations, Kinds
  <2> HIDE DEF X
  <2> QED BY <1>1, <2>1, <2>2 DEF AttachedInv, Claims
<1>5. Pointers'
  BY <1>1 DEF AttachedInv, Pointers
<1>6. Quiet'
  BY <1>1 DEF AttachedInv, Quiet
<1>7. Safe'
  <2> SUFFICES ASSUME early = {} PROVE Safe'
    BY <1>1 DEF Safe
  <2>1. X = {}
    BY <1>1, <1>2 DEF AttachedInv, Safe
  <2>2. \A y \in Owned \cap ToSet(registered["source"]) : wampConnection[y] # c
    BY <1>1 DEF AttachedInv, Safe
  <2> HIDE DEF X
  <2> QED BY <1>1, <2>1, <2>2 DEF AttachedInv, Safe, Pointers
<1> QED BY <1>3, <1>4, <1>5, <1>6, <1>7 DEF AttachedInv

(* It then deletes a source that no loop has deleted. *)
LEMMA DeleteStep ==
    ASSUME AttachedInv, ~undefined, NEW c \in Connections, Delete(c)
    PROVE  AttachedInv'
<1> DEFINE x == dispatchSource[c]
<1>1. /\ conn[c] = "delete" /\ conn' = [conn EXCEPT ![c] = "gone"]
      /\ deleted' = deleted \cup {x} /\ undefined' = (x \in freed)
      /\ UNCHANGED vars
      /\ UNCHANGED <<loop, dispatchSource, wampConnection, early>>
  BY DEF Delete
<1>2. x \in Owned /\ wampConnection[x] = c /\ c # None
  BY <1>1, OwnedFacts DEF AttachedInv, Pointers
<1> HIDE DEF x
<1>3. Registrations' /\ Claims'
  BY <1>1, LoopVariablesSame DEF AttachedInv
<1>4. Pointers'
  BY <1>1, <1>2 DEF AttachedInv, Pointers
<1>5. Quiet'
  BY <1>1 DEF AttachedInv, Quiet, vars
<1>6. Safe'
  <2> SUFFICES ASSUME early = {} PROVE Safe'
    BY <1>1 DEF Safe
  <2>1. x \notin freed
    BY <1>2 DEF AttachedInv, Safe
  <2>2. \A y \in Owned \cap ToSet(registered["source"]) : wampConnection[y] # c
    BY <1>1 DEF AttachedInv, Safe
  <2> QED BY <1>1, <2>1, <2>2 DEF AttachedInv, Safe, Pointers, vars
<1> QED BY <1>3, <1>4, <1>5, <1>6 DEF AttachedInv

-----------------------------------------------------------------------------
(* The steps of the loop and of its clients                                *)

(* The loop asks only sources that are there, and deletes none of them. *)
LEMMA LoopStepStep ==
    ASSUME AttachedInv, ~undefined, LoopStep
    PROVE  AttachedInv'
<1>1. /\ loop = "alive" /\ undefined' = UsesDeleted
      /\ UNCHANGED <<loop, conn, dispatchSource, wampConnection, deleted, early>>
  BY DEF LoopStep, attachment
<1>2. GivesNothing \/ \E k \in Kinds : \E E : Erases(k, E)
  BY LoopMoves DEF LoopStep, AttachedInv
<1>3. Registrations' /\ Claims'
  BY <1>2, LoopMoves, MovesKeepRegistrations, MovesKeepClaims DEF LoopStep, AttachedInv
<1>4. Pointers'
  BY <1>1 DEF AttachedInv, Pointers
<1>5. Quiet'
  BY <1>1 DEF Quiet
<1>6. Safe'
  <2> SUFFICES ASSUME early = {} PROVE Safe'
    BY <1>1 DEF Safe
  <2>1. /\ ToSet(registered'["source"]) \subseteq ToSet(registered["source"])
        /\ deleteObject' = deleteObject
        /\ freed' \subseteq freed \cup deleteObject
    <3>1. CASE GivesNothing
      BY <3>1 DEF GivesNothing
    <3>2. ASSUME NEW k \in Kinds, NEW E, Erases(k, E)
          PROVE  /\ ToSet(registered'["source"]) \subseteq ToSet(registered["source"])
                 /\ deleteObject' = deleteObject
                 /\ freed' \subseteq freed \cup deleteObject
      BY <3>2 DEF Erases, Deletable, Kinds
    <3> QED BY <1>2, <3>1, <3>2
  <2>2. \A x \in Asked : x \notin deleted /\ conn[wampConnection[x]] # "gone"
    BY DEF AttachedInv, Safe, Pointers, Asked
  <2>3. \A x \in deleted : x \notin freed'
    BY <2>1 DEF AttachedInv, Safe, Pointers
  <2>4. ~UsesDeleted
    BY <2>2, <2>3 DEF UsesDeleted
  <2> QED BY <1>1, <2>1, <2>4 DEF AttachedInv, Safe
<1> QED BY <1>3, <1>4, <1>5, <1>6 DEF AttachedInv

(* Clients free nothing. *)
LEMMA ClientsFreeNothing ==
    ASSUME Registrations, Claims, NEW c \in Clients, Client(c) \/ ClientGoesOn(c)
    PROVE  Registrations' /\ Claims' /\ freed' = freed
BY ClientMoves, MovesKeepRegistrations, ClientKeepsClaims
   DEF GivesNothing, Adds, Marks

(* The application leaves the connections' sources alone. *)
LEMMA ApplicationStepStep ==
    ASSUME AttachedInv, ~undefined, ApplicationStep
    PROVE  AttachedInv'
<1>1. /\ loop = "alive" /\ UNCHANGED <<loop, conn, dispatchSource, wampConnection,
                                      deleted, early, undefined>>
  BY DEF ApplicationStep, attachment
<1>2. Registrations' /\ Claims' /\ freed' = freed
  <2>1. CASE (\E f \in Calls : Begin(f)) \/ BecomesDue \/ BecomesReadable
    <3>1. GivesNothing /\ UNCHANGED clients
      BY <2>1 DEF Begin, BecomesDue, BecomesReadable, objects, GivesNothing
    <3> QED BY <3>1, MovesKeepRegistrations, MovesKeepClaims DEF AttachedInv, GivesNothing
  <2> QED BY <2>1, ClientsFreeNothing DEF ApplicationStep, AttachedInv
<1>3. Pointers'
  BY <1>1 DEF AttachedInv, Pointers
<1>4. Quiet'
  BY <1>1 DEF Quiet
<1>5. Safe'
  BY <1>1, <1>2 DEF ApplicationStep, NotOwned, AttachedInv, Safe
<1> QED BY <1>2, <1>3, <1>4, <1>5 DEF AttachedInv

(* So does a client that goes on with the registration of a watch. *)
LEMMA ClientGoesOnStepStep ==
    ASSUME AttachedInv, ~undefined, NEW c \in Clients, ClientGoesOnStep(c)
    PROVE  AttachedInv'
<1>0. cpc[c] # "idle"
  BY DEF ClientGoesOnStep, ClientGoesOn, RegisterWatchFd, UnregisterWatchFd,
         UnregisterWatchMark, StopWake
<1>1. /\ loop = "alive" /\ UNCHANGED <<loop, conn, dispatchSource, wampConnection,
                                      deleted, early, undefined>>
  BY <1>0 DEF ClientGoesOnStep, attachment, AttachedInv, Quiet
<1>2. Registrations' /\ Claims' /\ freed' = freed
  BY ClientsFreeNothing DEF ClientGoesOnStep, AttachedInv
<1>3. /\ registered'["source"] = registered["source"]
      /\ Owned \cap deleteObject' = Owned \cap deleteObject
  <2>1. CASE RegisterWatchFd(c)
    BY <2>1, RegisterWatchFdAdds DEF AttachedInv, Adds, Kinds
  <2>2. CASE UnregisterWatchMark(c)
    <3>1. carg[c] \in Watches
      BY <2>2, OfKinds DEF UnregisterWatchMark, AttachedInv, Claims, Registrations, Kinds
    <3> QED BY <2>2, <3>1, OwnedFacts DEF UnregisterWatchMark
  <2>3. CASE UnregisterWatchFd(c) \/ StopWake(c)
    BY <2>3 DEF UnregisterWatchFd, StopWake, objects
  <2> QED BY <2>1, <2>2, <2>3 DEF ClientGoesOnStep, ClientGoesOn
<1>4. Pointers'
  BY <1>1 DEF AttachedInv, Pointers
<1>5. Quiet'
  BY <1>1 DEF Quiet
<1>6. Safe'
  BY <1>1, <1>2, <1>3 DEF AttachedInv, Safe
<1> QED BY <1>2, <1>4, <1>5, <1>6 DEF AttachedInv

(* Every step keeps the pointers, and safety as long as no connection was
   dropped under a loop.                                                    *)
LEMMA AttachedInvStep ==
    ASSUME AttachedInv, [ANext]_avars
    PROVE  AttachedInv'
<1>1. CASE UNCHANGED avars
  <2>1. UNCHANGED vars /\ UNCHANGED attachment /\ undefined' = undefined
    BY <1>1 DEF avars
  <2>2. Registrations' /\ Claims'
    BY <2>1, LoopVariablesSame DEF AttachedInv
  <2> QED BY <2>1, <2>2 DEF AttachedInv, Pointers, Quiet, Safe, vars, attachment
<1>2. CASE ANext
  BY <1>2, NewLoopStep, DestroyLoopStep, AttachStep, DropStep, DeregisterStep,
     DeleteStep, LoopStepStep, ApplicationStepStep, ClientGoesOnStepStep DEF ANext
<1> QED BY <1>1, <1>2

(* An application that destroys its loop before it drops its connections is
   safe: no source is deleted twice, and none is asked when it or its
   connection is gone.                                                     *)
THEOREM LoopFirstIsSafe == ASpec => []UndefinedOnlyEarly
<1>1. AttachedInv => UndefinedOnlyEarly
  BY DEF AttachedInv, Safe, UndefinedOnlyEarly
<1> QED BY <1>1, AttachedInvInit, AttachedInvStep, PTL DEF ASpec

-----------------------------------------------------------------------------
(* What the loop keeps of what is deleted                                  *)

(* The loop's books are right until it is destroyed, and nothing is left in
   them then; a connection's source that the loop was given is in use.     *)
Kept ==
    /\ loop # "gone" => Books
    /\ loop = "gone" => exec = None /\ \A k \in Kinds : toDispatch[k] = {}
    /\ freed \subseteq Objects
    /\ \A x \in Owned \cap Given : wampConnection[x] # None

(* If no source of a connection is registered and nothing deleted, the loop is
   given none of them: the other registrations hold other objects.         *)
LEMMA OwnedNotGiven ==
    ASSUME Registrations', freed' = freed,
           Owned \cap ToSet(registered'["source"]) \subseteq ToSet(registered["source"])
    PROVE  Owned \cap Given' \subseteq Given
<1> SUFFICES ASSUME NEW x \in Owned, x \in Given' PROVE x \in Given
  OBVIOUS
<1>1. CASE x \in freed'
  BY <1>1, GivenIs
<1>2. ASSUME NEW k \in Kinds, x \in ToSet(registered'[k]) PROVE x \in Given
  <2>1. x \in Of[k] /\ x \in Of["source"]
    BY <1>2, OwnedFacts, OfKinds DEF Registrations
  <2>2. k = "source"
    BY <2>1, OfKinds DEF Kinds
  <2> QED BY <1>2, <2>2, GivenIs DEF Kinds
<1> QED BY <1>1, <1>2, GivenIs

(* The steps that leave the loop's own variables alone keep its books. *)
LEMMA KeptAside ==
    ASSUME Kept, UNCHANGED vars, UNCHANGED wampConnection, loop' = "gone" <=> loop = "gone"
    PROVE  Kept'
BY DEF Kept, Books, Given, vars

(* The loop's destructor: nobody is inside, so nothing is executing. *)
LEMMA KeptDestroyLoop ==
    ASSUME AttachedInv, Kept, DestroyLoop PROVE Kept'
<1>1. /\ loop = "alive" /\ loop' = "gone" /\ pc = "idle" /\ exec' = exec
      /\ toDispatch' = [k \in Kinds |-> {}] /\ registered' = [k \in Kinds |-> <<>>]
      /\ freed' = freed /\ wampConnection' = wampConnection
  BY DEF DestroyLoop, At, Destroyed
<1>2. exec = None
  BY <1>1 DEF Kept, Books
<1>3. \A k \in Kinds : ToSet(registered'[k]) = {}
  BY <1>1 DEF ToSet
<1>4. \A x \in Given' : x \in Given
  BY <1>1, <1>3, GivenIs
<1> QED BY <1>1, <1>2, <1>4 DEF Kept

(* A new source goes to the loop that is there, and to no other. *)
LEMMA KeptAttach ==
    ASSUME AttachedInv, Kept, NEW c \in Connections, Attach(c) PROVE Kept'
<1>1. PICK x \in Unused :
         /\ dispatchSource' = [dispatchSource EXCEPT ![c] = x]
         /\ wampConnection' = [wampConnection EXCEPT ![x] = c]
         /\ IF loop = "alive" THEN Insert("source", x) ELSE UNCHANGED registered
  BY DEF Attach
<1>2. /\ deleteObject' = deleteObject /\ freed' = freed /\ loop' = loop /\ pc' = pc
      /\ UNCHANGED dispatching
  BY DEF Attach
<1>3. x \in Owned /\ wampConnection[x] = None /\ x \in Of["source"] /\ c # None
  BY OwnedFacts, OfKinds DEF Unused
<1>4. x \notin Given
  BY <1>3 DEF Kept
<1>5. wampConnection \in [Owned -> Connections \cup {None}]
  BY DEF AttachedInv, Pointers
<1>6. "source" \in Kinds
  BY DEF Kinds
<1>7. CASE loop = "alive"
  <2>1. Adds("source", x)
    BY <1>1, <1>2, <1>3, <1>4, <1>6, <1>7, InsertRegisters DEF AttachedInv, Adds
  <2>2. Books'
    BY <1>2, <1>6, <1>7, <2>1, MovesKeepBooks DEF AttachedInv, Kept
  <2>3. Given' = Given \cup {x}
    BY <1>6, <2>1, GivenGrows DEF AttachedInv
  <2> QED BY <1>1, <1>2, <1>3, <1>5, <1>7, <2>2, <2>3 DEF Kept
<1>8. CASE loop # "alive"
  <2>1. GivesNothing
    BY <1>1, <1>2, <1>8 DEF GivesNothing
  <2>2. loop # "gone" => Books'
    BY <1>2, <2>1, MovesKeepBooks DEF AttachedInv, Kept
  <2>3. Given' = Given
    BY <1>6, <2>1, GivenGrows DEF AttachedInv
  <2> QED BY <1>1, <1>2, <1>3, <1>4, <1>5, <2>2, <2>3 DEF Kept, dispatching
<1> QED BY <1>7, <1>8

(* Deregistering marks the source, if the loop knows it and has not been told. *)
LEMMA KeptDeregister ==
    ASSUME AttachedInv, Kept, NEW c \in Connections, Deregister(c) PROVE Kept'
<1>1. /\ registered' = registered /\ freed' = freed /\ loop' = loop /\ pc' = pc
      /\ wampConnection' = wampConnection /\ UNCHANGED dispatching
      /\ \/ deleteObject' = deleteObject
         \/ deleteObject' = deleteObject \cup
               ({dispatchSource[c]} \cap ToSet(registered["source"]))
  BY DEF Deregister
<1>2. GivesNothing \/ Marks("source", dispatchSource[c])
  <2>1. CASE dispatchSource[c] \in ToSet(registered["source"]) \ deleteObject
    BY <1>1, <2>1 DEF GivesNothing, Marks
  <2>2. CASE dispatchSource[c] \notin ToSet(registered["source"]) \ deleteObject
    BY <1>1, <2>2 DEF GivesNothing
  <2> QED BY <2>1, <2>2
<1>3. "source" \in Kinds
  BY DEF Kinds
<1>4. Given' = Given
  BY <1>2, <1>3, GivenGrows DEF AttachedInv
<1>5. loop # "gone" => Books'
  BY <1>1, <1>2, <1>3, MovesKeepBooks DEF AttachedInv, Kept
<1> QED BY <1>1, <1>4, <1>5 DEF Kept, dispatching

(* The loop and its clients keep the books, as without connections, and the
   clients give the loop no source of a connection.                        *)
LEMMA KeptInLoop ==
    ASSUME AttachedInv, Kept,
           LoopStep \/ ApplicationStep \/ \E c \in Clients : ClientGoesOnStep(c)
    PROVE  Kept'
<1>1. \A c \in Clients : ClientGoesOn(c) => cpc[c] # "idle"
  BY DEF ClientGoesOn, RegisterWatchFd, UnregisterWatchFd, UnregisterWatchMark, StopWake
<1>2. loop = "alive" /\ loop' = loop /\ wampConnection' = wampConnection
  BY <1>1 DEF LoopStep, ApplicationStep, ClientGoesOnStep, attachment, AttachedInv, Quiet
<1>3. Next
  BY DEF LoopStep, ApplicationStep, ClientGoesOnStep, Next
<1>4. Registrations' /\ Books'
  BY <1>2, <1>3, ObjectInvStep DEF ObjectInv, AttachedInv, Kept
<1>5. Owned \cap Given' \subseteq Given
  <2>1. CASE LoopStep
    <3>1. Loop /\ Registrations /\ "source" \in Kinds
      BY <2>1 DEF LoopStep, AttachedInv, Kinds
    <3>2. GivesNothing \/ \E k \in Kinds : \E E : Erases(k, E)
      BY <3>1, LoopMoves
    <3> QED BY <3>1, <3>2, GivenGrows
  <2>2. CASE ApplicationStep
    <3>1. freed' = freed
      BY <2>2, ClientsFreeNothing
         DEF ApplicationStep, AttachedInv, Begin, BecomesDue, BecomesReadable, objects
    <3> QED BY <1>4, <2>2, <3>1, OwnedNotGiven DEF ApplicationStep, NotOwned
  <2>3. ASSUME NEW c \in Clients, ClientGoesOnStep(c)
        PROVE  Owned \cap Given' \subseteq Given
    <3>1. freed' = freed
      BY <2>3, ClientsFreeNothing DEF ClientGoesOnStep, AttachedInv
    <3>2. registered'["source"] = registered["source"]
      <4>1. CASE RegisterWatchFd(c)
        BY <4>1, RegisterWatchFdAdds DEF AttachedInv, Adds, Kinds
      <4>2. CASE UnregisterWatchFd(c) \/ UnregisterWatchMark(c) \/ StopWake(c)
        BY <4>2 DEF UnregisterWatchFd, UnregisterWatchMark, StopWake, objects
      <4> QED BY <2>3, <4>1, <4>2 DEF ClientGoesOnStep, ClientGoesOn
    <3> QED BY <1>4, <3>1, <3>2, OwnedNotGiven
  <2> QED BY <2>1, <2>2, <2>3
<1>6. freed' \subseteq Objects
  BY <1>4 DEF Books
<1> QED BY <1>2, <1>4, <1>5, <1>6 DEF Kept

(* Every step keeps the books of a loop with connections. *)
LEMMA KeptStep ==
    ASSUME AttachedInv, Kept, [ANext]_avars PROVE Kept'
<1>1. ASSUME NEW c \in Connections, Drop(c) \/ Delete(c) PROVE Kept'
  BY <1>1, KeptAside DEF Drop, Delete
<1>2. CASE NewLoop \/ DropContext
  BY <1>2, KeptAside DEF NewLoop, DropContext
<1>3. CASE UNCHANGED avars
  BY <1>3, KeptAside DEF avars, attachment
<1> QED BY <1>1, <1>2, <1>3, KeptDestroyLoop, KeptAttach, KeptDeregister, KeptInLoop
        DEF ANext

(* Right books hold nothing that the loop has deleted, and no source of a
   connection that is gone unless one was dropped under the loop.          *)
LEMMA KeptImpliesNothingGone == AttachedInv /\ Kept => NothingGoneInUse
<1> SUFFICES ASSUME AttachedInv, Kept PROVE NothingGoneInUse
  OBVIOUS
<1>1. None \notin freed /\ None \notin deleted
  BY ObjectsDistinct, OwnedFacts DEF Kept, AttachedInv, Pointers
<1>2. \A k \in Kinds : toDispatch[k] \subseteq ToSet(registered[k])
  BY DEF Kept, Books
<1>3. exec = None \/ \E k \in Kinds : exec \in ToSet(registered[k])
  BY <1>2 DEF Kept, Books
<1>4. \A k \in Kinds : ToSet(registered[k]) \cap freed = {}
  <2>1. CASE loop = "gone"
    BY <2>1 DEF AttachedInv, Quiet, ToSet
  <2>2. CASE loop # "gone"
    BY <2>2 DEF Kept, Books
  <2> QED BY <2>1, <2>2
<1>5. ASSUME early = {}, NEW k \in Kinds PROVE ToSet(registered[k]) \cap deleted = {}
  <2> SUFFICES ASSUME NEW x \in deleted, x \in ToSet(registered[k]) PROVE FALSE
    OBVIOUS
  <2>1. x \in Owned /\ wampConnection[x] # None /\ conn[wampConnection[x]] = "gone"
    BY DEF AttachedInv, Pointers
  <2>2. x \in Of[k] /\ x \in Of["source"]
    BY <2>1, OwnedFacts, OfKinds DEF AttachedInv, Registrations
  <2>3. k = "source"
    BY <2>2, OfKinds DEF Kinds
  <2> QED BY <1>5, <2>1, <2>3 DEF AttachedInv, Safe
<1>6. NothingFreedInUse
  BY <1>1, <1>2, <1>3, <1>4 DEF NothingFreedInUse
<1> QED BY <1>1, <1>2, <1>3, <1>5, <1>6 DEF NothingGoneInUse

(* A loop with connections, whoever attaches, drops and unregisters meanwhile,
   keeps no pointer to what it has deleted; nor to what a connection has
   deleted, if the connections outlive it.                                 *)
THEOREM AttachedLoopKeepsNothingGone == ASpec => []NothingGoneInUse
<1>1. AInit => Kept
  <2> SUFFICES ASSUME AInit PROVE Kept
    OBVIOUS
  <2>1. Books /\ freed = {}
    BY ObjectInvInit DEF AInit, ObjectInv, Init
  <2>2. \A k \in Kinds : ToSet(registered[k]) = {}
    BY DEF AInit, Init, ToSet
  <2>3. Given = {}
    BY <2>1, <2>2, GivenIs
  <2> QED BY <2>1, <2>3 DEF AInit, Kept
<1> QED BY <1>1, KeptStep, KeptImpliesNothingGone, AttachedInvInit, AttachedInvStep, PTL
        DEF ASpec
=============================================================================
