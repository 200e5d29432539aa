------------------------- MODULE DispatchLifecycle --------------------------
(***************************************************************************)
(* What WampMainLoop promises the owner of a dispatch source, a timeout or *)
(* a watch: it is called back only between its registration and its        *)
(* unregistration, one callback at a time runs, and it is deleted, once,   *)
(* when it is unregistered and its callback is not running.                *)
(***************************************************************************)
CONSTANTS Objects, None

VARIABLES status, running

TypeOK == /\ status \in [Objects -> {"new", "registered", "unregistered", "freed"}]
          /\ running \in Objects \cup {None}

Init == /\ status = [x \in Objects |-> "new"]
        /\ running = None

Move(x, from, to) == /\ status[x] = from
                     /\ status' = [status EXCEPT ![x] = to]

Register(x) == Move(x, "new", "registered") /\ UNCHANGED running

Unregister(x) == Move(x, "registered", "unregistered") /\ UNCHANGED running

Start(x) == /\ status[x] = "registered"
            /\ running = None /\ running' = x
            /\ UNCHANGED status

End == running # None /\ running' = None /\ UNCHANGED status

(* One pass of the loop deletes a set of objects. *)
Free(X) == /\ \A x \in X : status[x] = "unregistered" /\ x # running
           /\ status' = [x \in Objects |-> IF x \in X THEN "freed" ELSE status[x]]
           /\ UNCHANGED running

Next == \/ \E x \in Objects : Register(x) \/ Unregister(x) \/ Start(x)
        \/ End
        \/ \E X \in SUBSET Objects : Free(X)

Spec == Init /\ [][Next]_<<status, running>>
=============================================================================
