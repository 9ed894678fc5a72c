\* Two overlapping calls over two receipts, one payload that is over the
\* budget, and a number beyond the range; under fairness.
SPECIFICATION FairSpec
CONSTANTS
  c1 = c1
  c2 = c2
  Callers = {c1, c2}
  RequestIds = {1, 2, 3, 4}
  Payloads <- MCPayloads
  Oversized <- MCOversized
  MaxReceipts = 2
  MaxRequestId = 3
INVARIANTS
  LedgerInvariant
PROPERTIES
  Promise
  EveryCallAnswered
CHECK_DEADLOCK FALSE
