SPECIFICATION Spec

CONSTANTS
  r1 = r1
  r2 = r2
  r3 = r3
  c1 = c1
  c2 = c2
  q1 = q1
  q2 = q2
  s1 = s1
  s2 = s2
  NoRun = NoRun
  NoChat = NoChat
  Run <- OneRun
  Chat <- OneChat
  StudioChat <- OneChat
  Request <- TwoRequests
  Stream <- TwoStreams
  RunLimit = 1
  LoaderAge = 1
  PolicyAge = 2
  MaxCrashes = 1
  MaxFaults = 1

INVARIANT TypeOK
INVARIANT StreamsFollowSession
INVARIANT ClosedSessionIsFinal
INVARIANT LiveSessionIsServed
INVARIANT QueuedRunIsServed
PROPERTY ImplementsSessions
INVARIANT IInv
PROPERTY SessionOpensOnce

SYMMETRY Symmetry
