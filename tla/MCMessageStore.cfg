CONSTANTS
    a = a
    b = b
    Workers = {w1, w2}
    Users = {a, b}
    Requests <- MCRequests
    ErrId = 9
    None = None
    MaxRequests = 3
    MaxFaults = 1
SYMMETRY WorkerSymmetry
SPECIFICATION Spec
INVARIANTS
    TypeOK
    IdsUnique
    OneRow
    AckedReaches
CHECK_DEADLOCK FALSE
