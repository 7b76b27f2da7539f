CONSTANTS
    r1 = r1
    r2 = r2
    k = k
    Requests <- MCRequests
    Keys <- MCKeys
    KeyOf <- MCKeyOf
    Clients = {c}
    Capacity = 1
    MaxAttempts = 2
    MaxFaults = 0
    MaxRefunds = 2
    None = None
SPECIFICATION Spec
INVARIANTS RefundedOnce
CHECK_DEADLOCK FALSE
