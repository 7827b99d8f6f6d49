CONSTANTS
  shell = shell
  server = server
  Processes <- TwoProcesses
  Read <- Shell
  MaxOutput <- OutputOfShell
  MaxErrors <- ErrorsOfShell
SPECIFICATION Spec
INVARIANT OutputIsKept
INVARIANT TimerRunsWhileAlive
INVARIANT TerminateWaitsForAll
PROPERTY TerminationCompletes
