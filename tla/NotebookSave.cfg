\* One handle, one save at a time; two lost sockets, one rejected revalidation.
SPECIFICATION Spec
CONSTANTS
  InitRetryBudget = 1
  MaxSaves = 2
  MaxCloses = 2
  MaxRejects = 1
  MaxEdits = 1
  MaxWrites = 1
  Savers = {"s1"}
  Contents = {"a", "b"}
INVARIANTS
  RoomInvariant
  AnswersAreTrue
PROPERTIES
  OverIsFinal
  Recovers
CHECK_DEADLOCK FALSE
