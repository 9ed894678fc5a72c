SPECIFICATION SSpec
CONSTANTS
  Callers = {1}
  Options = {"small"}
  MaxSessions = 1
  MaxRequests = 4
  MaxPeers = 2
INVARIANT
  RejectedIsRefetched
CHECK_DEADLOCK FALSE
