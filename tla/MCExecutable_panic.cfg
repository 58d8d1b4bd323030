CONSTANTS
  k1 = k1  k2 = k2  a1 = a1  a2 = a2  a3 = a3  r1 = r1  r2 = r2  r3 = r3
  Keys <- MCKeys
  Addrs <- MCAddrs
  Objs <- MCObjs
  Books <- MCBooks
  InitBook <- MCInitBook
  NetworkBook <- MCNetworkBook
  Pinned <- MCPinned
  MaxRetry <- MCMaxRetry4
  Requests = {r1, r2}
  Refresher = ref
  Tx = {r2}
  Regenerate = {r2}
  Batched = {}
  ClientMaxAttempts = None
  NodeMinBackoff = 1
  NodeMaxBackoff = 2
  MinReadmitPeriod = 1
  MaxReadmitPeriod = 3
  ExecMinBackoff = 1
  ExecMaxBackoff = 2
  RequestTimeout = 4
  GrpcDeadline = 1
  MaxTime = 9
  Statuses = {"RETRY", "FINISHED"}
  TransportErrors = {"Unavailable"}
  DialCanFail = FALSE
  MaxRefreshes = 0
  Never = Never
  None = None
SPECIFICATION Spec
PROPERTY PanicOnlyWithoutHealthyNode
