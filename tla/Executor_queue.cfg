SPECIFICATION Spec
CONSTANTS
  Threads = {t1, t2}
  Worker = worker
  Fns = {f1, f2}
  Handles = {h1}
  None = none
  SchedCallers = {worker}
  MaxTime = 0
  PollMax = 1
  Slack = 1
  Preempted = TRUE
INVARIANTS NoLostWakeup NoLostExit OwnWorkRunsBeforeExit
PROPERTIES ImplementsDispatcher PushWaitReturns DestroyCompletes CompletionDelivered
