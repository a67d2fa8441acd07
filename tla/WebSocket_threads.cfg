SPECIFICATION Spec
CHECK_DEADLOCK FALSE
CONSTANTS
  Threads = {t1}
  Worker = worker
  Senders = {t1, worker}
  Closers = {t1}
  Destroyers = {t1, worker}
  PeerFrames <- ControlFrames
  MaxFrames = 2
  MaxSends = 2
  MaxCloses = 1
INVARIANTS TypeOK NoLostFrame OneAnswer
PROPERTIES CloseCompletes DestroyDisconnects SendsAnswered
