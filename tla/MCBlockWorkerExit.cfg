\* One reader; worker mode is switched on and off again.
SPECIFICATION FairWorkerSpec
CONSTANTS
  r1 = r1
  r2 = r2
  r3 = r3
  Readers = {r1}
  Mergers = {}
  TotalBlockCount = 2
  SlotCount = 1
  EvictModulus = 2
  ReadsMayFail = FALSE
  RingSize = 1
  MaxSwitches = 2
  QuietSwitch = TRUE
PROPERTY
  ExitReturns
