SPECIFICATION Spec
CONSTANTS
  Threads = {t1}
  Worker = worker
  Fns = {f1, f2}
  Handles = {}
  None = none
  SchedCallers = {t1}
  MaxTime = 4
  PollMax = 3
  Slack = 1
  Preempted = TRUE
INVARIANTS TypeOK OversleepIsBounded
