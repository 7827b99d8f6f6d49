CONSTANTS
  Plans <- Setups
  Size = 2
  MinWorkers = 1
  MaxWorkers = 2
  MaxConcurrency = 2
  Hash <- Hashes
  MaxEvents = 3
  MaxSpawned = 3
  MayFail <- Failures
SPECIFICATION Spec
INVARIANT Accounted
INVARIANT NothingLost
INVARIANT KeysInOrder
PROPERTY GeneratorEnds
