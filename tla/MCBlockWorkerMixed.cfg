\* Three readers, direct and worker mode mixed; the switch back waits for a quiet moment.
SPECIFICATION FairWorkerSpec
CONSTANTS
  r1 = r1
  r2 = r2
  r3 = r3
  Readers <- ThreeReaders
  Mergers = {}
  TotalBlockCount = 2
  SlotCount = 1
  EvictModulus = 2
  ReadsMayFail = FALSE
  RingSize = 1
  MaxSwitches = 2
  QuietSwitch = TRUE
INVARIANTS
  WorkerTypeOK
  RequestsAccounted
PROPERTIES
  RequestsAnswered
  SubmittersWoken
  ImplementsStore
