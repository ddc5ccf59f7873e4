SPECIFICATION Spec

CONSTANTS
  j1 = j1
  p1 = p1
  p2 = p2
  m1 = m1
  k1 = k1
  k2 = k2
  k3 = k3
  NoJob = NoJob
  NoChat = NoChat
  Job <- OneJob
  Poller <- TwoPollers
  Manual <- NoManual
  Chat <- ThreeChats
  MaxCrashes = 0
  MaxFaults = 0

INVARIANT PickedUpOnce

SYMMETRY Symmetry
