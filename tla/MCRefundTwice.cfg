CONSTANTS
    Accounts = {p, a}
    Escrow = Escrow
    Oracles = {}
    ReceiptContracts = {}
    None = None
    Prices <- MCPrices
    Departures <- MCDepartures
    Bps <- MCBps
    Window = 1
    MaxBatch = 1
    Wealth = 2
    MaxBookings = 1
    MaxTime = 3
    Names = {n1, n2}
    BookingIds <- MCBookingIds
    Amounts = {}
    Keys = {}
    Windows = {}
    Percentages = {}
    NoPolicy = NoPolicy
    MaxSettled = 2
    MaxRequests = 2
    FullWindow = 2
    PartialWindow = 1
    MaxRefundBatch = 2
SPECIFICATION AutomationSpec
INVARIANTS NeverRefundsMoreThanPrice
SYMMETRY Symmetric
CHECK_DEADLOCK FALSE
