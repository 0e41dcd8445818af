\* Two readers while a merge scans the same pool; reads may fail.
SPECIFICATION FairSpec
CONSTANTS
  r1 = r1
  r2 = r2
  r3 = r3
  Readers <- TwoReaders
  Mergers = {m1}
  TotalBlockCount = 3
  SlotCount = 1
  EvictModulus = 2
  ReadsMayFail = TRUE
INVARIANTS
  NoPinLeak
PROPERTIES
  WaitersAreWoken
