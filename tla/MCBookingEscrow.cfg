CONSTANTS
    Accounts = {p, a}
    Escrow = Escrow
    Oracles = {o}
    ReceiptContracts = {r}
    None = None
    Prices <- MCPrices
    Departures <- MCDepartures
    Bps <- MCBps
    Window = 1
    MaxBatch = 2
    Wealth = 3
    MaxBookings = 2
    MaxTime = 1
SPECIFICATION Spec
INVARIANTS TypeOK Solvent Conserved BatchReport ReceiptsProvePayment
PROPERTIES ClosedForGood KeepsPromise
SYMMETRY Symmetric
CHECK_DEADLOCK FALSE
