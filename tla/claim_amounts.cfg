CONSTANTS
    FactorNum = 5
    FactorDen = 2
    PegsUsdap = TRUE
    RateOne = 2
    Rates = {1, 2, 3}
    AmountDen = 4
    Claims <- SmallClaims
    Supplies = {3, 8}
    Debts = {1, 2}
    MaxWest = 8
    MaxClaims = 2
SPECIFICATION Spec
INVARIANTS TypeOK ClaimsPaidInFull
PROPERTIES CollateralKept
