SPECIFICATION Spec
CONSTANTS
    Orders = {o1}
    Workers = {w1, w2}
    None = None
    MaxFaults = 2
    LostReads = TRUE
SYMMETRY WorkerSymmetry
INVARIANTS GrantedOnce RebateOnce CompletedMeansGranted GrantedMeansPaid Inv
PROPERTIES ForwardOnly KeepsPromise
CHECK_DEADLOCK FALSE
