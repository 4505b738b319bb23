\* Two packets from two receiver goroutines, two senders; pool and queue have
\* room for one packet, so that callers and the worker have to wait.
SPECIFICATION FairSpec
CONSTANTS
  Packets = {p1, p2}
  Callers = {c1, c2}
  Senders = {s1, s2}
  ConfiguredModels <- AllModels
  PoolSize = 1
  ChannelQueueSize = 1
  DefaultPoolSize = 1
  DefaultChannelQueueSize = 1
  None = None
CHECK_DEADLOCK FALSE
INVARIANTS
  TypeOK
  InflightExact
  ReleasedOnce
  ResourceSafe
  QuietAfterDrain
  OrderedPerCaller
PROPERTIES
  Progress
  ImplementsGate
