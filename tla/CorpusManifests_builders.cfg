\* Every short text and record file, and chosen PDFs, directories and failures; two edits of a
\* file by another program and one of the manifest by hand.  A call ends when it is refused
\* or its shards are done.
CONSTANTS
  Calls <- MCCalls
  MaxSource = 6
  MaxShards = 4
  MaxChars = 8
  MaxChunk = 4
  MaxRecord = 2
  ReadBytes = 2
  MaxEdits = 2
SPECIFICATION Spec
CHECK_DEADLOCK FALSE
INVARIANTS
  ManifestIsWhole
  ProcessedIsDeclared
  RefusedOnlyIfChanged
  PlanIsHonoured
