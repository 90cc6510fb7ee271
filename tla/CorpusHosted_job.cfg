\* Two shards, two translations; one death, one call that throws or one edit.
CONSTANTS
  Shards = {1, 2}
  Texts <- TwoTexts
  Lanes = {"live", "dry"}
  Settings <- FourSettings
  BatchCap = 2
  ByteCap = 2
  MaxMishaps = 1
  None = None
  a = a
  b = b
SPECIFICATION FairSpec
INVARIANTS
  LiveSentOnce
  MemoryIsApproved
  CompletedIsCertified
PROPERTIES
  CancelledUnlessStale
  DryJobConcludes
