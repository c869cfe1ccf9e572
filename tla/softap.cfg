SPECIFICATION FairSpec
CONSTANTS
  Sta = {s1, s2, s3}
  NoSta = NoSta
  MaxStations = 3
  IdleTimeout = 3
  CheckPeriod = 2
  MaxEvents = 2
  MaxLag = 1
  RequestsMayFail = TRUE
INVARIANTS
  TypeOK
  TableFollowsEvents
  IdleManagerAlive
PROPERTIES
  CutsOffNobody
  NotTurnedOffEarly
  IdleApGoesDown
