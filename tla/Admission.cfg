CONSTANTS
    a = a
    b = b
    c = c
    Clients = {a, b, c}
    Capacity = 3
    Refill = 1
    GlobalCapacity = 8
    GlobalRefill = 2
    Cost = 2
    MaxKeys = 2
    MaxTime = 3
    MaxBackSteps = 2
    MaxRequests = 5
SPECIFICATION Spec
INVARIANTS TypeOK DebtBounded NoFreeTokens TableBounded RefusedOnlyInACrowd
SYMMETRY Symmetry
CHECK_DEADLOCK FALSE
