SPECIFICATION FairSpec
CONSTANTS
  Platforms <- AllPlatforms
  Kinds <- AllKinds
  Tasks = {1, 2}
  GivenPassword = TRUE
  MaxTries = 2
  MaxCreates = 3
  MaxFaults = 1
  MaxCrashes = 1
INVARIANTS TypeOK ServedAsConfigured
PROPERTIES InitCompletes FirstCreationCompletes
CHECK_DEADLOCK FALSE
