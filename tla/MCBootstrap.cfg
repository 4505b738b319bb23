\* Every part of the start and every update may fail, both files are edited;
\* fair scheduling of Run and the watcher.
SPECIFICATION FairSpec
CONSTANTS
  Contents <- AllContents
  Valid <- Loading
  First = "a"
  Systems = {"s", "t"}
  MaxEdits = 3
  MaxSignals = 2
  Faults <- AllFaults
  None = None
CHECK_DEADLOCK FALSE
INVARIANTS
  ReturnStopsAll
  StaleNoticed
PROPERTY RequestsServed
