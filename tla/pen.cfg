SPECIFICATION FairSpec
CONSTANTS
  TimerMayFail = TRUE
  QueueSize = 3
  OledW = 4
  Pitch = 4
  BarW = 1
  BarWMax = 3
  BarCount = 2
  Heights = {1, 4}
  GrowRange = 2
  VolMax = 2
INVARIANTS
  TypeOK
  ScreenMatchesScene
  RecordingIsVisible
PROPERTIES
  BarsScroll
  RemoteKept
  LongPressServed
