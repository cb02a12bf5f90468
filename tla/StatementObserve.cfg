SPECIFICATION Spec
CONSTANTS
  w1 = w1
  w2 = w2
  c1 = c1
  c2 = c2
  s1 = s1
  s2 = s2
  NoConn = NoConn
  Workers = {w1, w2}
  Conns = {c1, c2}
  Scopes = {s1, s2}
  ScopeOf <- OneScope
  Settings <- Mixed
  Calls = {"query", "exec"}
  MaxStatements <- EachOne
  ObserverQueries = FALSE
  Faults = {"pin", "exec", "probe", "release", "write", "observer"}
SYMMETRY Symmetric
INVARIANTS
  ArtifactReadable
  ProbesDescribeTheirStatement
  PoolRestored
  CaptureComplete
  ObserverSeesEachOnce
CHECK_DEADLOCK FALSE
