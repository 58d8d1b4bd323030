CONSTANTS
  k1 = k1  k2 = k2  a1 = a1  a2 = a2  a3 = a3  r1 = r1  r2 = r2  r3 = r3
  Keys <- MCKeys
  Addrs <- MCAddrs
  Objs <- MCObjs
  Books <- MCBooks
  InitBook <- MCInitBook
  NetworkBook <- MCNetworkBook
  Pinned <- MCPinned3
  MaxRetry <- MCMaxRetry3
  Requests = {r1, r2, r3}
  Refresher = ref
  Tx = {r2}
  Regenerate = {r2}
  Batched = {r3}
  ClientMaxAttempts = None
  NodeMinBackoff = 1
  NodeMaxBackoff = 1
  MinReadmitPeriod = 1
  MaxReadmitPeriod = 2
  ExecMinBackoff = 1
  ExecMaxBackoff = 2
  RequestTimeout = 2
  GrpcDeadline = 1
  MaxTime = 7
  Statuses = {"RETRY", "EXPIRED", "ERROR", "FINISHED"}
  TransportErrors = {"Unavailable", "Internal"}
  DialCanFail = TRUE
  MaxRefreshes = 1
  Never = Never
  None = None
SPECIFICATION Spec
INVARIANT TypeOK

PROPERTY EveryRequestTerminates
\* A request stuck short of returning violates EveryRequestTerminates.
CHECK_DEADLOCK FALSE
