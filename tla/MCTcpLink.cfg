\* Two frames over one connection that nobody closes and that does not break.
SPECIFICATION Spec
CONSTANTS
  Packets <- TwoPackets
  Payload <- Contents
  Base = 2
  Concurrency = 1
  NumConns = 1
  Framings = {TRUE}
  MaxBreaks = 0
  None = None
CHECK_DEADLOCK FALSE
INVARIANT PayloadsCut
