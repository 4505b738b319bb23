\* Two runs of each job, two changes of leadership, Stop called twice and
\* timing out; fair scheduling, functions that return.
SPECIFICATION FairSpec
CONSTANTS
  Local = {"local"}
  LeaderOnly = {"leader"}
  NoElector = {"orphan"}
  Jobs <- AllJobs
  JobsOf <- JobsOfGroups
  Immediate = {"send"}
  Overlapping = {"sweep"}
  MaxTicks = 2
  MaxChanges = 2
  MaxStops = 2
  Timeouts = TRUE
CHECK_DEADLOCK FALSE
INVARIANTS
  NoOverlap
  StopQuiesces
  OnlyLeadersRun
PROPERTY JobsEnd
