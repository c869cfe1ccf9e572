SPECIFICATION FairSpec
CONSTANTS
  MaxEvents = 5
  OnlineAtBoot = TRUE
INVARIANTS
  SemaphoreIsFresh
  WaitsForNetwork
PROPERTIES
  TestIsRun
