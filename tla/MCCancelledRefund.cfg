CONSTANTS
    a = a
    b = b
    c = c
    d = d
    k = k
    x = x
    y = y
    p = p
    q = q
    Callers <- MCCallers
    Keys = {k}
    Payloads = {x, y}
    Processes = {p, q}
    KeyOf <- MCKeyOf
    PayloadOf <- MCPayloadOf
    ProcessOf <- MCProcessOf
    AllOutcomes = TRUE
    None = None
    Seats = {s1, s2}
    Groups = {g, h}
    Bookings = {b}
    SeatCallers = {b, g}
    Duration = 1
    MaxClock = 2
    People = {o, m1, m2}
    Organizer = o
    Seating = 2
    MaxGroupCalls = 2
    Refunds = {f1}
    RefundCallers = {w1, w2}
    Job = Job
    Delay = 1
    MaxDate = 1
    MaxCalls = 3
    MaxFailures = 1
    Jobs = {j1, j2, j3}
    Servers = {e1, e2}
    Unhandled = {j3}
    MaxRetries = 2
    MaxDeadLetters = 1
    MaxLosses = 1
SPECIFICATION ServerSpec
INVARIANTS CancelledIsUnpaid
CHECK_DEADLOCK FALSE
