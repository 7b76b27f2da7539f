CONSTANTS
    a = a
    b = b
    c = c
    d = d
    k = k
    x = x
    y = y
    p = p
    q = q
    Callers <- MCTwo
    Keys = {k}
    Payloads = {x, y}
    Processes = {p, q}
    KeyOf <- MCTwoKeyOf
    PayloadOf <- MCTwoPayloadOf
    ProcessOf <- MCTwoProcessOf
    AllOutcomes = FALSE
    None = None
SPECIFICATION Spec
INVARIANTS ExecutedOnce
CHECK_DEADLOCK FALSE
