----------------------------- MODULE MCMainLoop -----------------------------
(* Instances of WampMainLoop for TLC. *)
EXTENDS WampMainLoop, TLC

(* Objects of one kind are interchangeable: the position at which one is
   inserted is arbitrary.                                                  *)
Interchangeable ==
    Permutations(Sources) \cup Permutations(Timeouts) \cup Permutations(Watches)
=============================================================================
