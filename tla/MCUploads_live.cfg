SPECIFICATION Spec
CONSTANTS
  t1 = t1
  t2 = t2
  i1 = i1
  i2 = i2
  Tab <- OneTab
  Item <- OneItem
  NoTab = NoTab
  NoItem = NoItem
  Parts = 2
  MaxSessions = 2
  MaxRetries = 0
  MaxCloses = 1
  MaxLapses = 0
  MaxFaults = 1
CHECK_DEADLOCK FALSE
INVARIANT FileIsWhole
INVARIANT ReportedIsThere
PROPERTY ItemsSettle
