CONSTANTS
  k1 = k1  k2 = k2  a1 = a1  a2 = a2  a3 = a3
  Keys <- MCKeys
  Addrs <- MCAddrs
  Objs <- MCObjs
  Books <- MCBooks
  InitBook <- MCInitBook
  Callers = {c1}
  NodeMinBackoff = 1
  NodeMaxBackoff = 2
  MinReadmitPeriod = 1
  MaxReadmitPeriod = 2
  MaxTime = 4
  Never = Never
  None = None
SPECIFICATION Spec
INVARIANTS TypeOK HealthyNodesAreMembers HealthyNodesAreHealthy ReadmittedAfterPass RemovalKeepsPresentKeys
PROPERTY ReplaceIdempotent
