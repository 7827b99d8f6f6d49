CONSTANTS
  p1 = p1
  p2 = p2
  p3 = p3
  Askers <- Peers
  Answerers <- PeerAndServer
  MaxRequests = 2
  MaxEvents = 4
  Timed = TRUE
  MayFail = TRUE
SPECIFICATION Spec
INVARIANT ResumedWithOwnAnswer
INVARIANT NoAnswerIsMissed
INVARIANT SettledIsCleared
PROPERTY EveryRequestSettles
