SPECIFICATION FairSpec

CONSTANTS
  j1 = j1
  p1 = p1
  p2 = p2
  m1 = m1
  k1 = k1
  k2 = k2
  k3 = k3
  NoJob = NoJob
  NoChat = NoChat
  Job <- OneJob
  Poller <- OnePoller
  Manual <- NoManual
  Chat <- ThreeChats
  MaxCrashes = 1
  MaxFaults = 1

PROPERTY DueJobsAreAttempted
