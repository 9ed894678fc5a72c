SPECIFICATION MCSpec
CONSTANTS
  Ids = {"a", "b", "c"}
  Limit = 2
  Window = 2
  Boundaries <- MCBoundaries
  MaxCells = 2
  MaxBytes = 2
  Objects <- MCObjects
  InitialDoc <- MCInitialDoc
  InitialId <- MCInitialId
  Views = {"summary", "cells"}
  Edits = {{"outputs"}, {"source", "metadata", "outputs"}}
  AlongEdits <- MCAlongEdits
  Positions = {1}
  PollLimits = {1, 9}
  MaxEvents = 5
  MaxUnread = 1
  Sources <- MCSources
  Requested <- MCRequested
  Lines <- MCLines
  Keys = {"k", "l"}
  WrittenKeys = {"k"}
  Values = {1}
  Quiet = {2}
  MaxRemembered = 1
  MaxBatch = 2
  MaxEdits = 4
INVARIANTS
  JournalInvariant
  NothingMissed
  ExecutionMatchesPlan
  GuardsAreExact
  ChangesOfOthersSurvive
PROPERTIES
  PagesFollowTheDocument
CHECK_DEADLOCK FALSE
