CONSTANTS
    alice = alice  bob = bob
    c1 = c1  c2 = c2  c3 = c3  c4 = c4
    Addr = {alice, bob}
    Service = Service
    CallName = {c1, c2, c3, c4}
    NoName = NoName
    CloseFee = 1
    Collateral = 2
    InitNeedsVault = TRUE
    MaxBlocks = 3
    MaxFaults = 0
    Requests <- SameBlockRequests
SPECIFICATION Spec
CHECK_DEADLOCK FALSE
INVARIANTS BalanceDiffsTelescope
