---------------------------- MODULE MCIndexLifecycle ----------------------------
(* IndexLifecycle with small bounds, for TLC. *)
EXTENDS IndexLifecycle
=============================================================================
