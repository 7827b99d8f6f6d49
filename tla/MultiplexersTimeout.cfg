CONSTANTS
  worker = worker
  sink = sink
  observer = observer
  cascade = cascade
  Processors <- Worker
  Producers <- Worker
  Observers <- None
  Sources <- Cascade
  Rank <- SubscribedInTurn
  MaxEvents = 1
  MayFail <- None
  Stops <- GracefulThenForced
  MaxQueueSize = 1
  HighWaterMark = 2
  LowWaterMark = 1
  MayStall = TRUE
  Setups <- WorkerBlocking
SPECIFICATION Spec
PROPERTY ForcedLoopsExit
