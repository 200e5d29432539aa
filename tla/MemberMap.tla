------------------------------ MODULE MemberMap ------------------------------
(***************************************************************************)
(* What a dispatcher table promises: a member and a signature, taken as    *)
(* texts, have at most one dispatcher, which is never replaced.            *)
(***************************************************************************)
VARIABLE entries   \* pairs of a key and its dispatcher

Absent(k) == \A e \in entries : e[1] # k

Init == entries = {}

Next == \E new \in entries' \ entries :
           Absent(new[1]) /\ entries' = entries \cup {new}

Spec == Init /\ [][Next]_entries
=============================================================================
