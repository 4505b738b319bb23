\* Kafka sender: two packets on one shard with room for one record in the queue and
\* one in the producer; two goroutines close it, their time may run out.
\* SkyDDS: three messages, batches of two, one write that fails, a queue of two.
\* TCP: a connection and one to redial, frames of at most three bytes.
\* UDP sender: two shards, three Sends that may all open a socket again.
\* File receivers: two files of up to two chunks, a write or deletion, one failure
\* of the server; an OSS receiver remembers one file.
\* Stream receivers: three ticks of one and a half packets, a total of two or none.
SPECIFICATION EndpointSpec
CONSTANTS
  Types <- AllTypes
  Packets = {p1, p2}
  Concurrency = 1
  QueueSize = 1
  MaxBuffered = 1
  Closers = {c1, c2}
  Modes <- BothModes
  Backpressures <- BothBackpressures
  Expiring = TRUE
  None = None
  Messages <- ThreeMessages
  Size <- Sizes
  Payload <- Contents
  Base = 2
  Models <- BothModels
  BatchNum = 2
  BatchSize = 3
  Timers = {"t1", "t2", "t3"}
  SoftLimit = 2
  DrainItems = 2
  DrainBytes = 4
  MaxFaults = 1
  Closer = "close"
  Frames <- ThreeFrames
  TcpConcurrency = 1
  NumConns = 2
  Framings <- Both
  MaxBreaks = 1
  UdpConcurrency = 2
  NumSockets = 5
  FileKinds <- BothKinds
  NumFiles = 2
  MaxSize = 2
  MaxWrites = 1
  FileFaults = 1
  SeenLimit = 1
  StreamKinds <- FourKinds
  Totals = {0, 2}
  Unit = 2
  PerTick = 3
  MaxTicks = 3
  MaxPolls = 2
  MaxErrors = 1
CHECK_DEADLOCK FALSE
INVARIANTS
  Accounted
  CloseDelivers
  LinkAccounted
  FramesIntact
  SocketsAccounted
  SeenDelivered
  ReceiverStops
PROPERTY EndpointsSettle
