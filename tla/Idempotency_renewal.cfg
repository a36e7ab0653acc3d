CONSTANTS
    Procs = {p1, p2}
    Prints = {1, 2}
    TTL = 4
    Lease = 3
    Backoff = 1
    Renew = 1
    Delay = 1
    Run = 2
    MaxClock = 9
    MaxCalls = 3
    MaxFaults = 0
SPECIFICATION Spec
CHECK_DEADLOCK FALSE
INVARIANT RenewedWhileHeld
