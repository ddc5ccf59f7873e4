SPECIFICATION Spec
CONSTANTS
  c1 = c1
  s1 = s1
  p1 = p1
  p2 = p2
  q1 = q1
  q2 = q2
  Host <- TwoHosts
  Subdomain <- TheSubdomain
  Proxy <- OneProxy
  Request <- TwoRequests
  NoHost = NoHost
  NoProxy = NoProxy
  MaxRemoved = 1
  MaxFaults = 0
SYMMETRY Symmetry
INVARIANT IInv
INVARIANT ActiveIsProved
INVARIANT RoutesAreProved
PROPERTY ImplementsLifecycle
