\* Two files over two connections by two goroutines, the chunks of one sent up to three times;
\* every call of the server may fail, the process may restart once.
SPECIFICATION Spec
CONSTANTS
  Workers = {w1, w2}
  Transfers = {"big", "small"}
  Size <- TwoSizes
  Chunks <- TwoFiles
  PathOf <- OwnPaths
  Concurrency = 2
  Copies <- Thrice
  MaxRestarts = 1
  Faults <- AllButAnswer
  None = None
SYMMETRY Symmetry
CHECK_DEADLOCK FALSE
INVARIANTS
  CommittedIntact
  CommittedKept
  ReceivedExact
