CONSTANTS
  MaxCommits = 4
  MaxDerived = 2
  MaxStarts = 2
  Processors = 1
  DepthLimit = 1
  Window = 1
  EvictEvery = 3
  Snapshots = TRUE
  MayFail = TRUE
SPECIFICATION Spec
INVARIANT StateFollowsLedger
INVARIANT DerivedOnceInOrder
INVARIANT DepthIsBounded
PROPERTY CascadeDrains
PROPERTY CascadeLoopExits
