---------------------------- MODULE MCConnection ----------------------------
(* Instances of WampConnection for TLC. *)
EXTENDS WampConnection, TLC

(* Threads, dispatch threads and sessions are interchangeable; used by the
   runs without temporal properties only.                                  *)
Interchangeable ==
    Permutations(AppThreads) \cup Permutations(Dispatchers) \cup
    Permutations(Sessions)
=============================================================================
