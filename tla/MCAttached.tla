----------------------------- MODULE MCAttached -----------------------------
(* An instance of AttachedConnection for TLC. *)
EXTENDS AttachedConnection
=============================================================================
