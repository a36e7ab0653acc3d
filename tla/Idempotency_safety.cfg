CONSTANTS
    Procs = {p1, p2}
    Prints = {1, 2}
    TTL = 4
    Lease = 3
    Backoff = 1
    Renew = 1
    Delay = 1
    Run = 2
    MaxClock = 7
    MaxCalls = 3
    MaxFaults = 1
SPECIFICATION Spec
SYMMETRY ProcSymmetry
CHECK_DEADLOCK FALSE
INVARIANTS
    OneAtATime
    OneRequestPerKey
    RecordedMeansDone
    Inv
PROPERTIES
    NotRepeated
    KeepsPromise
