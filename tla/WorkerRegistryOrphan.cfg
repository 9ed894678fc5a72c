\* Requests of one login and the sweep after a failed cleanup.
SPECIFICATION Spec
CONSTANTS
  k1 = k1
  r1 = r1
  r2 = r2
  p = p
  Requests = {r1, r2}
  Keys = {k1}
  KeyOf <- OneLogin
  PrincipalOf <- Owner
  MaxWorkers = 1
  MaxPerPrincipal = 1
  MaxSlots = 3
  ClosingMayFail = TRUE
INVARIANT OneWorkerPerLogin
CHECK_DEADLOCK FALSE
