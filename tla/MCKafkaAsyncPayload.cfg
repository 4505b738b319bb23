\* One packet through the asynchronous mode, which is the default.
SPECIFICATION Spec
CONSTANTS
  Packets = {p1}
  Concurrency = 2
  QueueSize = 1
  MaxBuffered = 1
  Closers = {c1}
  Modes <- AsyncOnly
  Backpressures <- BothBackpressures
  Expiring = FALSE
  None = None
CHECK_DEADLOCK FALSE
INVARIANT PayloadKept
