----------------------------- MODULE MCSearchQueue -----------------------------
(* SearchQueue with small sets of workers and searches, for TLC. *)
EXTENDS SearchQueue
=============================================================================
