SPECIFICATION FairSpec
CONSTANTS
  Pages = 3
  MaxAge = 2
  Width = 6
  SpawnGap = 2
  ThickMax = 2
  DotW = 2
  VolumeMax = 2
  RandTicks = 2
  SwitchTicks = 3
  MaxDelay = 2
  Heights = {1}
CHECK_DEADLOCK FALSE
INVARIANTS
  PagesInOrder
  BarsApart
PROPERTY PicturesRecover
