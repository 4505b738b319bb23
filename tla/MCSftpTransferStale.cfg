\* A file of two bytes of which one was sent, then a shorter version of it;
\* nothing fails.
SPECIFICATION Spec
CONSTANTS
  Workers = {w1}
  Transfers = {"long", "short"}
  Size <- VersionSizes
  Chunks <- TwoVersions
  PathOf <- OnePath
  Concurrency = 2
  Copies <- Once
  MaxRestarts = 0
  Faults <- NoFaults
  None = None
CHECK_DEADLOCK FALSE
INVARIANT CommittedIntact
