SPECIFICATION Safe
CHECK_DEADLOCK FALSE
CONSTANTS
  Threads = {t1}
  Worker = worker
  None = none
  Callers = {t1}
  Observers = {worker}
  Connectors = {t1}
  Closers = {t1}
  Destroyers = {t1}
  Sizes = {1, 2}
  MaxCalls = 6
  Stream = 1
  Window = 1
  PeerResets = TRUE
INVARIANTS TypeOK OneCallback ConnectedIsDriven DestroyedIsUnused
