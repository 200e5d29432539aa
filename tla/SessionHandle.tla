---------------------------- MODULE SessionHandle ----------------------------
(***************************************************************************)
(* What a connection promises to who uses its session: one session at a    *)
(* time is opened, and each one once; a call has the session to itself     *)
(* from its beginning to its end, and it is one that has been opened.      *)
(***************************************************************************)
CONSTANT None

VARIABLES
    session,   \* the session in use
    opened,    \* the sessions that were ever begun
    opening,   \* those whose opening has not ended; one that fails is kept
    using      \* the calls that use the session

handle == <<session, opened, opening, using>>

Init == session = None /\ opened = {} /\ opening = {} /\ using = {}

Free == opening = {} /\ using = {}

Open == \E n \in opened' \ opened :
           /\ Free
           /\ session' = n /\ opened' = opened \cup {n} /\ opening' = {n}
           /\ UNCHANGED using

Opened == opening # {} /\ opening' = {} /\ UNCHANGED <<session, opened, using>>

Use == /\ Free /\ session \in opened
       /\ \E t \in using' : using' = {t}
       /\ UNCHANGED <<session, opened, opening>>

Done == using # {} /\ using' = {} /\ UNCHANGED <<session, opened, opening>>

Next == Open \/ Opened \/ Use \/ Done

Spec == Init /\ [][Next]_handle
=============================================================================
