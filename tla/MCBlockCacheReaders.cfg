\* Three readers over two slots and three blocks; reads may fail.
\* The slots do not divide the values of BCP_EvictSlot, as in the code (25600, 2^32).
SPECIFICATION FairSpec
CONSTANTS
  r1 = r1
  r2 = r2
  r3 = r3
  Readers <- ThreeReaders
  Mergers = {}
  TotalBlockCount = 3
  SlotCount = 2
  EvictModulus = 5
  ReadsMayFail = TRUE
INVARIANTS
  TypeOK
  TablesAgree
  PinsExact
  HandleSeesItsBlock
PROPERTIES
  ImplementsStore
  PinnedPageStays
  RefusedOnlyWhenFull
