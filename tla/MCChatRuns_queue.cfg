SPECIFICATION Spec

CONSTANTS
  r1 = r1
  r2 = r2
  r3 = r3
  c1 = c1
  c2 = c2
  q1 = q1
  q2 = q2
  s1 = s1
  s2 = s2
  NoRun = NoRun
  NoChat = NoChat
  Run <- ThreeRuns
  Chat <- TwoChats
  StudioChat <- TwoChats
  Request <- TwoRequests
  Stream <- NoStreams
  RunLimit = 1
  LoaderAge = 1
  PolicyAge = 1
  MaxCrashes = 0
  MaxFaults = 0

INVARIANT QueueOvershootIsBounded

CONSTRAINT BeforeTheLoop

SYMMETRY StudioSymmetry
