SPECIFICATION FairSpec
CONSTANTS
  DebounceMs = 2
  TapMs = 3
  DoubleMs = 4
  LongMs = 5
  Jitter = 1
  MaxStall = 1
  MaxAge <- MCMaxAge
  ReadMayFail = FALSE
  UptimeWraps = FALSE
INVARIANTS
  EdgeNeverLost
PROPERTIES
  Settles
  Reported
