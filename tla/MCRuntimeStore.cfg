\* A cold start and two reloads among all configurations, any builder failing,
\* then a shutdown; fair update thread.
SPECIFICATION FairSpec
CONSTANTS
  Configs <- AllConfigs
  Keys = {"k", "other"}
  Packets = {p1}
  MaxUpdates = 3
  Faults = {"pipeline", "receiver", "sender"}
  None = None
CHECK_DEADLOCK FALSE
INVARIANTS
  ReferencesAccounted
  OpenWhileUsed
  OneGeneration
  UpdateAllOrNothing
  ShutdownComplete
PROPERTIES
  UntouchedTasksKeepRunning
  UpdateTerminates
