SPECIFICATION FairSpec
CONSTANTS
    n1 = n1
    n2 = n2
    NoNode = NoNode
    Nodes <- MCNodes
    MaxTurns = 1
    MaxLogins = 2
    MaxRequests = 1
    MaxEdits = 1
    MaxFaults = 1
INVARIANTS
    HealthyNotBroken
    OnlyLossBreaks
PROPERTIES
    NewestKept
    DueRefreshed
CHECK_DEADLOCK FALSE
