SPECIFICATION FairSpec
CONSTANTS
    w1 = w1
    w2 = w2
    NoWorker = NoWorker
    Workers <- MCWorkers
    Costs <- MCCosts
    Funds <- MCFunds
    OtherHolds = 2
    Hold = 2
    MaxRetries = 2
    MaxFaults = 2
INVARIANTS
    ChargedOnce
    OneEndPerHold
    HoldComesBack
    CompletedPaid
    NeverLost
    AtWorstOneHold
PROPERTIES
    TerminalStays
    KeepsPromise
    HoldEnds
CHECK_DEADLOCK FALSE
