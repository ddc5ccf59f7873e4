SPECIFICATION Spec
CONSTANTS
  s1 = s1
  Stream <- OneStream
  Limit = 3
  SeenCap = 2
  Window = 0
  PerTick = 2
  MaxWrites = 4
  MaxClock = 1
  MaxLoads = 1
CHECK_DEADLOCK FALSE
INVARIANT IInv
INVARIANT SentOnce
INVARIANT SentInOrder
PROPERTY NothingSkipped
PROPERTY ImplementsFeed
PROPERTY PageNeverGoesBack
PROPERTY EventuallySent
