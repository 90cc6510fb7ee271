\* One process, an operator who cancels at any time, one crash, two store faults.
CONSTANTS
  Items = {1, 2, 3}
  Workers = {w1}
  Concurrency = 2
  AllowCancel = TRUE
  MaxCrashes = 1
  MaxFaults = 2
  NoItem = NoItem
SPECIFICATION FairSpec
INVARIANTS
  TypeOK
  AttemptsBounded
  ConcurrencyRespected
  NoOrphanedItem
  RunRecordsAgree
  CancelStopsBatch
PROPERTIES
  RunConcludes
  ImplementsContract
