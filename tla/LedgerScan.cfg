CONSTANTS
  Clients <- FourCallers
  MaxSteps = 4
  MaxEvents = 2
  MaxLines = 3
  MaxWidth = 3
  MaxChunk = 6
  Tokens <- FourTokens
  Chunks <- ThreeCalls
  MaxOpens = 3
SPECIFICATION Spec
CHECK_DEADLOCK FALSE
INVARIANT ScanFindsAll
