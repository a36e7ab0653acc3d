SPECIFICATION Spec
CONSTANTS
    Admins = {a1}
    Amount = 3
    MaxHeld = 4
    MaxCalls = 3
    MaxFaults = 0
CHECK_DEADLOCK FALSE
INVARIANTS
    RefundAmountIsReal
