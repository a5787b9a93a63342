SPECIFICATION Spec
CONSTANTS
    a1 = a1
    a2 = a2
    Account = {a1}
    expScale = 2
    initialExchangeRateMantissa = 3
    reserveFactorMaxMantissa = 2
    protocolSeizeShareMaxMantissa = 1
    Amounts = {1, 2}
    BorrowRates = {1}
    TransferFees = {0, 1}
    CollateralCaps = {1}
    ReserveFactors = {1}
    SeizeShares = {}
    Allowances <- MCAllowances
    FlashLoanAmounts = {1, 2}
    flashFeeBips = 1
    bips = 2
    LegacyBalances = {0}
    UnderlyingSupply = 3
    MaxTokens = 2
    MaxBorrows = 3
    MaxTime = 2
INVARIANTS CashIsOnChain BorrowersAreMembers SnapshotsAreSound MintRedeemGainsNothing
PROPERTIES FlashLoanKeepsExchangeRate ExcessCashOnlyDonated ExchangeRateNeverFalls ReservesStayCovered
CHECK_DEADLOCK FALSE
