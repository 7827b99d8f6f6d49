CONSTANTS
  Garbage = Garbage
  c1 = c1
  c2 = c2
  c3 = c3
  Clients <- ThreeClients
  MaxCommits = 4
  MaxCrashes = 2
  AppendFaults <- CleanFaults
  CrashTails <- FragmentTail
SPECIFICATION Spec
INVARIANT ChainIntact
INVARIANT AnnouncedArePersisted
INVARIANT AnnouncedWithoutGaps
INVARIANT CommitsInCallOrder
PROPERTY EveryCommitSettles
