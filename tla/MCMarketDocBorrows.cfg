SPECIFICATION Spec
CONSTANTS
    a1 = a1
    a2 = a2
    Account = {a1, a2}
    expScale = 2
    initialExchangeRateMantissa = 2
    reserveFactorMaxMantissa = 2
    protocolSeizeShareMaxMantissa = 1
    Amounts = {0, 1, 3}
    BorrowRates = {1}
    TransferFees = {0}
    CollateralCaps = {}
    ReserveFactors = {1}
    SeizeShares = {}
    Allowances = {}
    FlashLoanAmounts = {}
    flashFeeBips = 1
    bips = 2
    LegacyBalances = {0}
    UnderlyingSupply = 3
    MaxTokens = 2
    MaxBorrows = 4
    MaxTime = 2
SYMMETRY Symmetry
INVARIANTS DebtsAreInTotalBorrows
CHECK_DEADLOCK FALSE
