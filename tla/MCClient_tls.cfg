CONSTANTS
  k1 = k1  k2 = k2  a1 = a1  a2 = a2  g1 = g1  g2 = g2
  Keys <- MCKeys
  Addrs <- MCAddrs
  Objs <- MCObjs
  Books <- MCBooks
  UserBooks <- MCUserBooks
  InitBook <- MCInitBook
  Goroutines <- MCGoroutines
  User = User
  Requester = Requester
  Never = Never
  None = None
  NodeMinBackoff = 1
  NodeMaxBackoff = 1
  MinReadmitPeriod = 1
  MaxReadmitPeriod = 2
  MaxTime = 2
  Periods = {1}
  DefaultPeriod = 2
  Constructors = {"schedule", "noschedule", "nomirror"}
  MaxRefreshes = 2
  MaxUserCalls = 2
SPECIFICATION Spec
\* The client stops when the bounds on time, refreshes and user calls are
\* reached; a refresher still waiting on a live context waits for ever.
CHECK_DEADLOCK FALSE
INVARIANT ChannelMatchesAddressMode
