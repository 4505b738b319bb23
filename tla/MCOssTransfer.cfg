\* A file of seven bytes in three chunks, each sent up to twice, by three
\* goroutines; two notifiers; every call of the store may fail.
SPECIFICATION Spec
CONSTANTS
  Workers = {w1, w2, w3}
  Chunks <- SevenBytes
  FileSize = 7
  PartSize = 2
  Copies = 2
  MaxSessions = 3
  NumNotifiers = 2
  Faults <- AllFaults
  None = None
SYMMETRY Symmetry
CHECK_DEADLOCK FALSE
INVARIANTS
  ObjectIntact
  BytesConserved
  UploadDriven
  CommittedOnce
  NoLeakedUpload
