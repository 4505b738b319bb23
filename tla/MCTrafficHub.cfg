\* A receiver and a task, three instances of them at a time, two senders of
\* one name, every second sample counted, two counters and three samples each.
SPECIFICATION Spec
CONSTANTS
  r = r
  t = t
  u1 = u1
  u2 = u2
  u3 = u3
  s1 = s1
  s2 = s2
  Receivers = {r}
  Tasks = {t}
  Users = {u1, u2, u3}
  Senders = {s1, s2}
  Sample = 2
  MaxCounters = 2
  MaxSamples = 3
  None = None
SYMMETRY Symmetry
CHECK_DEADLOCK FALSE
INVARIANTS
  CountersShared
  RunningListed
