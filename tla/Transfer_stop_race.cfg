SPECIFICATION Safe
CHECK_DEADLOCK FALSE
CONSTANTS
  Transfers = {x1, x2}
  OnWorker = {}
  HandleFirst = {}
  StopWhileAdding = TRUE
INVARIANT ResumedMeansFinished
