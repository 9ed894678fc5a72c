SPECIFICATION Spec
CONSTANTS
  c1 = c1
  c2 = c2
  nbA = nbA
  nbB = nbB
  s1 = s1
  s2 = s2
  p1 = p1
  Callers = {c1, c2}
  Notebooks = {nbA, nbB}
  SessionOf <- TwoSessions
  PathOf <- SamePath
  MaxKernels = 2
  MaxClients = 2
SYMMETRY CallerSymmetry
INVARIANTS
  LeasesInvariant
  JobsInvariant
PROPERTIES
  RestartDropsConnection
CHECK_DEADLOCK FALSE
