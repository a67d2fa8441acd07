SPECIFICATION Safe
CONSTANTS
  Threads = {t1}
  Worker = worker
  Fns = {f1, f2, f3}
  Handles = {}
  None = none
  SchedCallers = {t1, worker}
  MaxTime = 0
  PollMax = 1
  Slack = 1
  Preempted = TRUE
INVARIANT ScheduledIsKept
