CONSTANTS
    Accounts = {p, a}
    Escrow = Escrow
    Oracles = {oc, x}
    ReceiptContracts = {}
    None = None
    Prices <- MCPrices
    Departures <- MCDepartures
    Bps <- MCBps
    Window = 1
    MaxBatch = 1
    Wealth = 2
    MaxBookings = 1
    MaxTime = 0
    FlightOracleId = oc
    Owners = {w, v}
    Providers = {q1, q2}
    Flights = {f1, f2}
    Stakes <- MCStakes
    Thresholds <- MCThresholds
    MaxReports = 2
SPECIFICATION OracleSpec
INVARIANTS OracleTypeOK SettledOnceByConsensus
SYMMETRY Symmetric
CHECK_DEADLOCK FALSE
