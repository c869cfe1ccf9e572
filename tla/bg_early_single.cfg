SPECIFICATION Spec
CONSTANTS
  DebounceMs = 1
  TapMs = 2
  DoubleMs = 3
  LongMs = 4
  Jitter = 1
  MaxStall = 0
  MaxAge <- MCMaxAge
  ReadMayFail = FALSE
  UptimeWraps = FALSE
PROPERTIES
  SingleNotEarly
