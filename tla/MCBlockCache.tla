---------------------------- MODULE MCBlockCache ----------------------------
(* BlockCache with small sets of callers, for TLC. *)
EXTENDS BlockCache

CONSTANTS r1, r2, r3

ThreeReaders == {r1, r2, r3}
TwoReaders   == {r1, r2}
=============================================================================
