SPECIFICATION Spec
CHECK_DEADLOCK FALSE
CONSTANTS
  Transfers = {x1, x2, x3}
  OnWorker = {x1}
  HandleFirst = {x2}
  StopWhileAdding = FALSE
INVARIANTS TypeOK ResumedOnce ResumedMeansFinished NoUseAfterDestroy
PROPERTIES AwaitReturns StopEndsAwait
