SPECIFICATION FairSpec
CONSTANTS
  MaxEntries = 2
  BatchSize = 2
  BackoffBase = 2
  BackoffCap = 3
  MaxPendingAge = 3
  Retention = 2
  AgeCap = 4
  MaxBudget = 2
INVARIANTS
  IInv
  BatchIsFresh
  DuplicatesExplained
  NoLostWakeup
  RetriesAreSpaced
PROPERTIES
  KeepsPromise
  EventuallySettled
