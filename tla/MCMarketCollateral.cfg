SPECIFICATION Spec
CONSTANTS
    a1 = a1
    a2 = a2
    Account = {a1, a2}
    expScale = 2
    initialExchangeRateMantissa = 2
    reserveFactorMaxMantissa = 2
    protocolSeizeShareMaxMantissa = 1
    Amounts = {1, 2}
    BorrowRates = {0}
    TransferFees = {0}
    CollateralCaps = {0, 2}
    ReserveFactors = {0}
    SeizeShares = {1}
    Allowances = {}
    FlashLoanAmounts = {}
    flashFeeBips = 1
    bips = 2
    LegacyBalances = {0, 1}
    UnderlyingSupply = 3
    MaxTokens = 4
    MaxBorrows = 2
    MaxTime = 0
SYMMETRY Symmetry
INVARIANTS TypeOK SupplyIsSumOfBalances CollateralWithinBalance CollateralIsCounted
PROPERTIES CollateralCapRespected CollateralDriftsBySeizureOnly
CHECK_DEADLOCK FALSE
