\* A reload that fails to build a sender, then one with the same routing.
SPECIFICATION Spec
CONSTANTS
  Configs <- RouteConfigs
  Keys = {"k", "other"}
  Packets = {}
  MaxUpdates = 3
  Faults = {"sender"}
  None = None
CHECK_DEADLOCK FALSE
INVARIANT RoutesApplied
