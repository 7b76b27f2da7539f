CONSTANTS
    Accounts = {p}
    BookingIds <- MCBookingIds
    Amounts <- MCAmounts
    Keys = {k1, k2}
    Windows = {1}
    Percentages = {10000}
    NoPolicy = NoPolicy
    MaxSettled = 3
    MaxRequests = 2
    RefundIds = {r1, r2}
    Passengers = {p1, p2}
    Resolutions = {approve, reject}
    None = None
    MaxRulings = 2
    a = a
    b = b
    Participants = {a, b, c, d}
    Cases <- MCCases
    JurySize = 2
    EvidencePeriod = 1
    VotingPeriod = 1
    RevealPeriod = 1
    AppealPeriod = 1
    MinStake = 1
    AppealStake = 2
    MaxDisputeTime = 6
    MaxEvidence = 1
    MaxClaims = 2
    x = x
    y = y
    Addresses = {x, y, a}
    FirstArbiters <- MCFirstArbiters
    Deposits = {1, 2}
    MaxDeposits = 2
SPECIFICATION Spec
INVARIANTS AppealGetsNewJury
CHECK_DEADLOCK FALSE
