\* Four processes that keep asking for the lock, three of which may die, one failed write.
CONSTANTS
  Procs = {p1, p2, p3, p4}
  MaxCrashes = 3
  MaxFaults = 1
  NoFile = NoFile
SPECIFICATION FairSpec
INVARIANTS
  ExclusiveUnlessContested
PROPERTIES
  StaleLockIsReclaimed
