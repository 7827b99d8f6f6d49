SPECIFICATION Spec
CONSTANTS
    C1 = C1
    C2 = C2
    Callers <- MCCallers
    Policies <- MCPolicies
    MayFail <- MCMayFail
    MaxContextTokens = 4
    MaxFailures = 1
    MaxHallucinations = 2
    ScopeTurns = 2
    MaxRetries = 1
    HeadCount = 1
    TailCount = 0
    CallCounts <- MCCallCounts
    MaxRounds = 1
    MaxTurns = 3
    MaxEvents = 1
SYMMETRY MCSymmetry
INVARIANT ConversationsAreTurns
INVARIANT EachMessageIsNewOnce
INVARIANT LimitsOvershootOncePerCaller
CONSTRAINT MCEventsMatter
