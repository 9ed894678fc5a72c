\* Two callers of one session that open, create and close, while a file moves.
SPECIFICATION FairSpec
CONSTANTS
  c1 = c1
  c2 = c2
  s1 = s1
  p1 = p1
  p2 = p2
  Callers = {c1, c2}
  Creators = {c1}
  Sessions = {s1}
  Paths = {p1, p2}
  NoCaller = NoCaller
  Budget = 2
  MaxReplicas = 3
  MaxFiles = 2
  MaxMoves = 1
INVARIANTS
  ReplicasInvariant
  OpensCoalesce
PROPERTIES
  EveryCallReturns
CHECK_DEADLOCK FALSE
