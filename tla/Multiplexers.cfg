CONSTANTS
  worker = worker
  sink = sink
  observer = observer
  cascade = cascade
  Processors <- WorkerAndSink
  Producers <- Worker
  Observers <- Observer
  Sources <- Cascade
  Rank <- SubscribedInTurn
  MaxEvents = 3
  MayFail <- Failures
  Stops <- EveryStop
  MaxQueueSize = 1
  HighWaterMark = 1
  LowWaterMark = 0
  MayStall = TRUE
  Setups <- ProcessorsOrObserved
SPECIFICATION Spec
INVARIANT WaitersMatchBacklog
INVARIANT QueuesKeepToLimit
INVARIANT NoRecoveryIsLost
PROPERTY ImplementsOrderedBroadcast
PROPERTY EveryBroadcastReturns
PROPERTY EveryLoopExits
PROPERTY EveryEventIsRead
