SPECIFICATION MCSpec
CONSTANTS
  c1 = c1
  c2 = c2
  Cells = {c1, c2}
  Calls = {1, 2, 3}
  AliasKinds = {"execution"}
  MaxEntries = 3
  MaxBatch = 2
  MaxEdits = 1
  MaxOpens = 2
  Callers = {1, 2}
  Options = {"small", "large"}
  MaxSessions = 2
  MaxRequests = 4
  MaxPeers = 2
  f1 = f1
  f2 = f2
  f3 = f3
  path1 = path1
  path2 = path2
  Bindings = {1}
  Files = {f1, f2, f3}
  PathOf <- MCPathOf
  Names = {"a", "b"}
  MaxTalks = 2
  MaxOpened = 3
  MaxRooms = 2
INVARIANTS
  TableInvariant
  ErrorsAreTrue
  ServersInvariant
  PresenceIsTrue
CHECK_DEADLOCK FALSE
