\* Three processes, one of which may die.
CONSTANTS
  Procs = {p1, p2, p3}
  MaxCrashes = 1
  MaxFaults = 0
  NoFile = NoFile
SPECIFICATION Spec
INVARIANT LiveLockRemains
