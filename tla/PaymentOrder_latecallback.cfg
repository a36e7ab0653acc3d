SPECIFICATION FairSpec
CONSTANTS
    Orders = {o1}
    Workers = {w1, w2}
    None = None
    MaxFaults = 0
    LostReads = FALSE
PROPERTIES PaidIsReconciled
CHECK_DEADLOCK FALSE
