\* Readers while a merge scans the same pool; no read fails.
SPECIFICATION Spec
CONSTANTS
  r1 = r1
  r2 = r2
  r3 = r3
  Readers <- TwoReaders
  Mergers = {m1}
  TotalBlockCount = 3
  SlotCount = 2
  EvictModulus = 4
  ReadsMayFail = FALSE
INVARIANT
  HandleSeesItsBlock
