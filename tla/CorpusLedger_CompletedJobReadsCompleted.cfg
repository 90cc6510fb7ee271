\* One process at a time; a crash or a failing call.
CONSTANTS
  Shards = {1}
  Workers = {w1}
  Texts <- TwoTexts
  Truncates <- Unrelated
  MaxRetries = 2
  BatchCap = 1
  Exclusive = TRUE
  MaxCrashes = 1
  MaxFaults = 2
  None = None
  short = short
  long = long
SPECIFICATION Spec
INVARIANTS
  CompletedJobReadsCompleted
