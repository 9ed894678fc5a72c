\* Two logins of a principal who may have one worker or session at a time.
SPECIFICATION MCSpec
CONSTANTS
  k1 = k1
  k2 = k2
  r1 = r1
  r2 = r2
  r3 = r3
  p = p
  Requests = {r1, r2, r3}
  Keys = {k1, k2}
  KeyOf <- TwoOfOne
  PrincipalOf <- OneOwner
  MaxWorkers = 2
  MaxPerPrincipal = 1
  MaxSlots = 2
  ClosingMayFail = TRUE
INVARIANTS
  SlotsInvariant
  SessionsInvariant
PROPERTIES
  LeaseIsPermitted
  EveryRequestEnds
  SessionsEndInTime
CHECK_DEADLOCK FALSE
