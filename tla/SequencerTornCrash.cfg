CONSTANTS
  Garbage = Garbage
  c1 = c1
  c2 = c2
  c3 = c3
  Clients <- TwoClients
  MaxCommits = 3
  MaxCrashes = 1
  AppendFaults <- NoFaults
  CrashTails <- UnterminatedTail
SPECIFICATION Spec
INVARIANT AnnouncedArePersisted
