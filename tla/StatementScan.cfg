SPECIFICATION FairSpec
CONSTANTS
  w1 = w1
  w2 = w2
  c1 = c1
  c2 = c2
  s1 = s1
  s2 = s2
  NoConn = NoConn
  Workers = {w1, w2}
  Conns = {c1}
  Scopes = {s1, s2}
  ScopeOf <- OneScope
  Settings <- Measured
  Calls = {"query", "exec"}
  MaxStatements <- EachTwo
  ObserverQueries = FALSE
  Faults = {"scan"}
INVARIANT NoConnectionIsLost
CHECK_DEADLOCK FALSE
