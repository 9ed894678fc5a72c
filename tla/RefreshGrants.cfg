\* Two requests at once; a receipt lasts two ticks, a refresh three.
SPECIFICATION Spec
CONSTANTS
  r1 = r1
  r2 = r2
  Requests = {r1, r2}
  TransactionTtl = 2
  CodeTtl = 2
  Receipt = 2
  Inflight = 3
  GrantTtl = 6
  AssertionTtl = 4
  MaxTime = 5
  MaxSent = 5
SYMMETRY Symmetry
INVARIANTS
  GrantsInvariant
PROPERTIES
  GrantsEndRightly
CHECK_DEADLOCK FALSE
