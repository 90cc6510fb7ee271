\* One process dies in the middle of a run and the run is worked again.
CONSTANTS
  Items = {1, 2}
  Workers = {w1}
  Concurrency = 2
  AllowCancel = FALSE
  MaxCrashes = 1
  MaxFaults = 0
  NoItem = NoItem
SPECIFICATION Spec
INVARIANT ResumedRunIsWhole
