SPECIFICATION Spec
CONSTANTS
  Sta = {s1, s2}
  NoSta = NoSta
  MaxStations = 1
  IdleTimeout = 2
  CheckPeriod = 1
  MaxEvents = 2
  MaxLag = 1
  RequestsMayFail = FALSE
PROPERTIES
  CutsOffNobody
