SPECIFICATION RouteSpec
CONSTANTS
  Reqs = {r1, r2}
  d1 = d1
  d2 = d2
  n1 = n1
  n2 = n2
  Replicas <- TwoDeployments
  NoEntry = NoEntry
  CacheTTL = 2
  ResolveTime = 1
  CursorWrap = 2
SYMMETRY Symmetry
VIEW View
INVARIANT RouteTypeOK
PROPERTY RoutedWasReady
PROPERTY RefusedWasEmpty
