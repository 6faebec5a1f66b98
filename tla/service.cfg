CONSTANTS
    alice = alice  bob = bob
    c1 = c1  c2 = c2  c3 = c3  c4 = c4
    Addr = {alice}
    Service = Service
    CallName = {c1, c2}
    NoName = NoName
    CloseFee = 1
    Collateral = 2
    InitNeedsVault = TRUE
    MaxBlocks = 3
    MaxFaults = 1
    Requests <- PayoutRequests
    PolledTx <- PolledCalls
    ClientCalls <- PostedCalls
    Silent = {}
    Limit = 2
    Expiry = 2
    PostedAges = {0}
    Reposts = TRUE
    Code = {0}
    MaxReports = 1
SPECIFICATION ServiceSpec
CHECK_DEADLOCK FALSE
CONSTRAINT ThirdBlock
INVARIANTS AnnouncedPayoutsAreWatched StatusIsOfItsPayout
