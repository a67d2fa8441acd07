SPECIFICATION Safe
CHECK_DEADLOCK FALSE
CONSTANTS
  Threads = {}
  Worker = worker
  Senders = {}
  Closers = {worker}
  Destroyers = {}
  PeerFrames <- MessageFrames
  MaxFrames = 4
  MaxSends = 0
  MaxCloses = 1
INVARIANTS CloseReportedOnce WholeMessages
