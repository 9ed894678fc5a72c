\* Two jobs that share a cell, one queued behind the other, or one job while
\* peers work on its cells, under fairness.
SPECIFICATION MCFairSpec
CONSTANTS
  j1 = j1
  j2 = j2
  cellA = cellA
  cellB = cellB
  NoJob = NoJob
  Jobs = {j1, j2}
  Cells = {cellA, cellB}
  Targets <- MCTargets
  StopOnError = {j1}
  MaxEpoch = 1
  MaxEdits = 1
  Touched = {cellA, cellB}
  RoomMayDrop = TRUE
INVARIANTS
  RegistryInvariant
  InOrder
PROPERTIES
  SendsWhatWasAccepted
  VerdictIsEvidence
  EveryRunSettles
CHECK_DEADLOCK FALSE
