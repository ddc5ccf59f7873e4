SPECIFICATION Spec
CONSTANTS
  t1 = t1
  t2 = t2
  i1 = i1
  i2 = i2
  Tab <- OneTab
  Item <- TwoItems
  NoTab = NoTab
  NoItem = NoItem
  Parts = 1
  MaxSessions = 2
  MaxRetries = 0
  MaxCloses = 0
  MaxLapses = 0
  MaxFaults = 0
CHECK_DEADLOCK FALSE
INVARIANT ReportedIsStored
