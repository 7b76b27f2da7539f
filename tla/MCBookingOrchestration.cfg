CONSTANTS
    r1 = r1
    r2 = r2
    k = k
    Requests <- MCRequests
    Keys <- MCKeys
    KeyOf <- MCKeyOf
    Clients = {c}
    Capacity = 1
    MaxAttempts = 2
    MaxFaults = 2
    MaxRefunds = 1
    None = None
SPECIFICATION Spec
INVARIANTS TypeOK NeverOversold OutcomeAgrees
PROPERTIES RetryFindsBooking Settles
CHECK_DEADLOCK FALSE
