SPECIFICATION Spec
CONSTANTS
    Admins = {a1, a2}
    Amount = 2
    MaxHeld = 3
    MaxCalls = 3
    MaxFaults = 1
SYMMETRY AdminSymmetry
CHECK_DEADLOCK FALSE
INVARIANTS
    NothingTakenUnrefunded
    DeductedOnce
    RefundedMeansPaidBack
    OneRefundAtATime
    Inv
PROPERTIES
    KeepsPromise
