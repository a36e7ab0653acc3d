CONSTANTS
    Procs = {p1, p2, p3}
    u = u
    a = a
    x = x
    Users = {u}
    Accounts = {a}
    ApiKeys = {x}
    UserOf <- OneUser
    KeyOf <- OneKey
    Limit <- SmallLimits
    MaxWait = 1
    MaxFaults = 1
SPECIFICATION Spec
SYMMETRY ProcSymmetry
INVARIANTS
    LimitKept
    StoreBounded
    LeaseTogether
    NothingForgotten
    QueueBounded
    Inv
PROPERTIES
    NotResurrected
