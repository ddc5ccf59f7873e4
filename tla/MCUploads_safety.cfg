SPECIFICATION Spec
CONSTANTS
  t1 = t1
  t2 = t2
  i1 = i1
  i2 = i2
  Tab <- TwoTabs
  Item <- OneItem
  NoTab = NoTab
  NoItem = NoItem
  Parts = 1
  MaxSessions = 2
  MaxRetries = 2
  MaxCloses = 0
  MaxLapses = 1
  MaxFaults = 0
CHECK_DEADLOCK FALSE
SYMMETRY Symmetry
CONSTRAINT FewRequests
INVARIANT IInv
INVARIANT ReportedIsThere
INVARIANT OneTabUploads
INVARIANT PendingIsDriven
INVARIANT AnswersAreAwaited
PROPERTY QueueForgetsOnlyDone
