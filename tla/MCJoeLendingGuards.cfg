SPECIFICATION Spec
CONSTANTS
    a1 = a1
    a2 = a2
    Account = {a1, a2}
    j1 = j1
    j2 = j2
    j3 = j3
    JToken = {j1}
    NoMarket = NoMarket
    expScale = 4
    initialExchangeRateMantissa = 4
    reserveFactorMaxMantissa = 4
    protocolSeizeShareMaxMantissa = 2
    collateralFactorMaxMantissa = 3
    InitialConfig <- MCInitialConfig
    InitialCollateralFactor = 3
    InitialCloseFactor = 2
    InitialLiquidationIncentive = 5
    InitiallyPaused = {}
    Amounts = {1}
    LiquidationAmounts = {1}
    BorrowRates = {0}
    TransferFees = {0}
    UnderlyingSupply = 2
    Prices = {9}
    CollateralFactors = {}
    CloseFactors = {}
    LiquidationIncentives = {}
    SupplyCaps = {3}
    BorrowCaps = {2}
    CollateralCaps = {}
    SeizeShares = {}
    CreditLimits = {0, 4}
    Pausable = {"Mint", "Borrow", "Transfer", "Seize"}
    Relistable = {}
    MaxTokens = 2
    MaxBorrows = 2
    MaxTime = 0
SYMMETRY Symmetry
PROPERTIES PausedMeansStopped CreditAccountsHoldNoCollateral
CHECK_DEADLOCK FALSE
