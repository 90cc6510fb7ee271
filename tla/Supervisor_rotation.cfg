\* Three eligible jobs and a live one, two places a cycle, two deaths.
SPECIFICATION FairSpec
CONSTANTS
  Jobs = {1, 2, 3, 4}
  Live = {2}
  MaxJobs = 2
  MaxCycles = 2
  MaxCrashes = 2
INVARIANTS
  RotationIsFair
PROPERTIES
  JobsAreServed
