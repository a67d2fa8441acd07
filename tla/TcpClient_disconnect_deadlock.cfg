SPECIFICATION Spec
CHECK_DEADLOCK FALSE
CONSTANTS
  Threads = {t1}
  Worker = worker
  None = none
  Callers = {t1}
  Observers = {}
  Connectors = {t1}
  Closers = {t1}
  Destroyers = {}
  Sizes = {1, 2}
  MaxCalls = 4
  Stream = 1
  Window = 1
  PeerResets = FALSE
PROPERTY DisconnectReturns
