CONSTANTS
  e1 = e1
  e2 = e2
  e3 = e3
  e4 = e4
  Execs = {e1, e2, e3}
  Kinds = {"trigger", "embedding_rebuild", "cron", "cli"}
  MaxFaults = 1
SPECIFICATION Spec
CHECK_DEADLOCK FALSE
INVARIANTS
  TypeOK
  GuardIsExact
  RowTellsItsOwnRun
PROPERTIES
  GuardIsLock
  RunsEndOrFault
