\* Two cells of one kernel, two runs, one transaction of a peer; three outputs
\* of a job, three answers, and room for two of the snapshots.
SPECIFICATION MCSpec
CONSTANTS
  MaxOutputBytes = 2
  MaxDisplayIds = 1
  MaxTargetsPerId = 2
  DisplayIds = {"d"}
  Sizes = {1, 3}
  UpdateSizes = {2}
  Cells = {c1, c2}
  MaxRuns = 2
  MaxMessages = 3
  MaxForeign = 2
  MaxChanges = 1
  MaxEvents = 3
  AreaLimit = 2
  LateRouteLimit = 1
  Boundaries <- MCBoundaries
  Alternate <- MCAlternate
  Binary = {2}
  StoreBytes = 7
  JobCells = 2
  Tokens = {1, 2, 3}
  Previews = {1}
  Budgets = {2, 6}
  OutputBytes = 4
  Parts = {2, 3}
  ResourceBytes = 3
  MaxOutputChanges = 3
  MaxViews = 3
SYMMETRY CellSymmetry
INVARIANTS
  AreaShowsTheRun
  RunsLeaveNothing
  FollowerIsCurrent
  SnapshotsAreReadable
PROPERTIES
  PeerChangesStay
CHECK_DEADLOCK FALSE
