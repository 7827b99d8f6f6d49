CONSTANTS
  worker = worker
  sink = sink
  observer = observer
  cascade = cascade
  Processors <- Sink
  Producers <- None
  Observers <- Observer
  Sources <- Cascade
  Rank <- SubscribedInTurn
  MaxEvents = 2
  MayFail <- None
  Stops <- None
  MaxQueueSize = 1
  HighWaterMark = 2
  LowWaterMark = 1
  MayStall = TRUE
  Setups <- ObservedBlocking
SPECIFICATION Spec
INVARIANT NothingMissed
