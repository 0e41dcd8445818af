\* Two workers, three searches, two changes of the context; one search panics.
SPECIFICATION FairSpec
CONSTANTS
  Workers = {w1, w2}
  Tasks = {t1, t2, t3}
  MaxMutations = 2
  MaxPanics = 1
INVARIANTS
  TypeOK
  NoWorkerSeesAMutation
PROPERTIES
  ImplementsService
  EverySearchEnds
  StopReturns
CHECK_DEADLOCK FALSE
