SPECIFICATION Spec
CONSTANTS
    a1 = a1
    a2 = a2
    Account = {a1}
    j1 = j1
    j2 = j2
    j3 = j3
    JToken = {j1, j2, j3}
    NoMarket = NoMarket
    expScale = 4
    initialExchangeRateMantissa = 4
    reserveFactorMaxMantissa = 4
    protocolSeizeShareMaxMantissa = 2
    collateralFactorMaxMantissa = 3
    InitialConfig <- MCInitialConfig
    InitialCollateralFactor = 3
    InitialCloseFactor = 2
    InitialLiquidationIncentive = 5
    InitiallyPaused = {}
    Amounts = {1}
    LiquidationAmounts = {}
    BorrowRates = {0}
    TransferFees = {0}
    UnderlyingSupply = 1
    Prices = {9}
    CollateralFactors = {3}
    CloseFactors = {3}
    LiquidationIncentives = {6}
    SupplyCaps = {}
    BorrowCaps = {}
    CollateralCaps = {}
    SeizeShares = {}
    CreditLimits = {}
    Pausable = {}
    Relistable = {j1, j2, j3}
    MaxTokens = 1
    MaxBorrows = 2
    MaxTime = 0
SYMMETRY Symmetry
INVARIANTS AccountAssetsMatchMembership AllMarketsAreListed
CHECK_DEADLOCK FALSE
