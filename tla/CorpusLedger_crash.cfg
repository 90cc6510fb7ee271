\* One process at a time works an OCR job; it may die once, two calls may throw.
CONSTANTS
  Shards = {1, 2}
  Workers = {w1}
  Texts <- TwoTexts
  Truncates <- ShortTruncatesLong
  MaxRetries = 2
  BatchCap = 1
  Exclusive = TRUE
  MaxCrashes = 1
  MaxFaults = 2
  None = None
  short = short
  long = long
SPECIFICATION FairSpec
INVARIANTS
  TypeOK
  RetriesBounded
  LedgerTellsTruth
  ProofCertifiesOutput
PROPERTIES
  CommittedNeverRedone
  CancelIsFinal
  JobConcludes
