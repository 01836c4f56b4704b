\* Two failed starts, then the server comes up.
SPECIFICATION FairSpec
CONSTANTS
  SeedUsers = 4
  SeedRows = 16
  MaxRegistered = 2
  MaxFailures = 2
CHECK_DEADLOCK FALSE
INVARIANT
  SeededAtMostOnce
PROPERTY
  EventuallyServes
