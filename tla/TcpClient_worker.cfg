SPECIFICATION Spec
CONSTANTS
  Threads = {t1}
  Worker = worker
  None = none
  Callers = {t1, worker}
  Observers = {}
  Connectors = {worker}
  Closers = {worker}
  Destroyers = {}
  Sizes = {1, 2}
  MaxCalls = 5
  Stream = 2
  Window = 2
  PeerResets = FALSE
INVARIANTS NoLostUnpause BytesAccounted AllOrClosed
PROPERTIES CallsBack
