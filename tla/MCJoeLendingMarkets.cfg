SPECIFICATION Spec
CONSTANTS
    a1 = a1
    a2 = a2
    Account = {a1, a2}
    j1 = j1
    j2 = j2
    j3 = j3
    JToken = {j1}
    NoMarket = NoMarket
    expScale = 4
    initialExchangeRateMantissa = 4
    reserveFactorMaxMantissa = 4
    protocolSeizeShareMaxMantissa = 2
    collateralFactorMaxMantissa = 3
    InitialConfig <- MCInitialConfig
    InitialCollateralFactor = 3
    InitialCloseFactor = 4
    InitialLiquidationIncentive = 4
    InitiallyPaused = {}
    Amounts = {1, 2}
    LiquidationAmounts = {1}
    BorrowRates = {4}
    TransferFees = {0}
    UnderlyingSupply = 2
    Prices = {4}
    CollateralFactors = {0}
    CloseFactors = {}
    LiquidationIncentives = {}
    SupplyCaps = {}
    BorrowCaps = {}
    CollateralCaps = {1}
    SeizeShares = {2}
    CreditLimits = {}
    Pausable = {}
    Relistable = {}
    MaxTokens = 2
    MaxBorrows = 2
    MaxTime = 1
SYMMETRY Symmetry
PROPERTIES EachMarketIsAMarket
CHECK_DEADLOCK FALSE
