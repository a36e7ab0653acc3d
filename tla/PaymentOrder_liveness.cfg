SPECIFICATION FairSpec
CONSTANTS
    Orders = {o1}
    Workers = {w1, w2}
    None = None
    MaxFaults = 1
    LostReads = FALSE
PROPERTIES NotificationSettles
CHECK_DEADLOCK FALSE
