SPECIFICATION Spec
CONSTANTS
  DebounceMs = 2
  TapMs = 3
  DoubleMs = 6
  LongMs = 5
  Jitter = 1
  MaxStall = 2
  MaxAge <- MCMaxAge
  ReadMayFail = TRUE
  UptimeWraps = TRUE
INVARIANTS
  TypeOK
  LongPressWatched
  TapWatched
  TimeoutsAgree
  ReportedInTime
PROPERTIES
  LongNeverEarly
  LedgerKept
