SPECIFICATION Spec
CONSTANTS
    a1 = a1
    a2 = a2
    Account = {a1, a2}
    j1 = j1
    j2 = j2
    j3 = j3
    JToken = {j1, j2}
    NoMarket = NoMarket
    expScale = 4
    initialExchangeRateMantissa = 4
    reserveFactorMaxMantissa = 4
    protocolSeizeShareMaxMantissa = 2
    collateralFactorMaxMantissa = 3
    InitialConfig <- MCInitialConfig
    InitialCollateralFactor = 2
    InitialCloseFactor = 2
    InitialLiquidationIncentive = 8
    InitiallyPaused = {"Transfer"}
    Amounts = {3}
    LiquidationAmounts = {1}
    BorrowRates = {0}
    TransferFees = {0}
    UnderlyingSupply = 3
    Prices = {3, 6}
    CollateralFactors = {}
    CloseFactors = {}
    LiquidationIncentives = {}
    SupplyCaps = {}
    BorrowCaps = {}
    CollateralCaps = {}
    SeizeShares = {}
    CreditLimits = {}
    Pausable = {}
    Relistable = {}
    MaxTokens = 3
    MaxBorrows = 3
    MaxTime = 0
SYMMETRY Symmetry
INVARIANTS TypeOK DebtsAreCounted
PROPERTIES NoSelfInflictedShortfall LiquidationIsAnExchange
CHECK_DEADLOCK FALSE
