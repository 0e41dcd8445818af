---------------------------- MODULE MCBlockWorker ----------------------------
(* BlockWorker with small sets of callers, for TLC. *)
EXTENDS BlockWorker

CONSTANTS r1, r2, r3

ThreeReaders == {r1, r2, r3}
TwoReaders   == {r1, r2}
=============================================================================
