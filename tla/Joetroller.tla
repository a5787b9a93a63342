------------------------------ MODULE Joetroller -------------------------------
(***************************************************************************)
(* Joetroller.sol: which markets an account entered, how much it may       *)
(* borrow against them, and the hooks that allow or reject what the        *)
(* markets are asked to do.                                                *)
(*                                                                         *)
(* A hook is called in the middle of a market's function, so it reads the  *)
(* markets from an argument, jTokens, and not from a variable.  A hook     *)
(* rejects by an error code (FooAllowed is FALSE) or by reverting          *)
(* (FooReverts).  The rewards the hooks distribute are not modelled here:  *)
(* they change nothing the Joetroller reads.                               *)
(***************************************************************************)
EXTENDS JCollateralCapErc20, SequencesExt

CONSTANTS
    JToken,                        \* the markets
    NoMarket,                      \* JToken(0), "no market is modified"
    collateralFactorMaxMantissa    \* 0.9e18 in the code

ASSUME JoetrollerAssumption ==
    /\ NoMarket \notin JToken
    /\ collateralFactorMaxMantissa \in 0 .. expScale

VARIABLES
    isListed,           \* markets[_].isListed, as a set
    allMarkets,         \* the listed markets, as the array that admins and lenses read
    accountMembership,  \* markets[_].accountMembership: who entered which market
    accountAssets,      \* the markets each account entered, as an array
    config,             \* what the admin and the guardians set
    price               \* oracle.getUnderlyingPrice, zero for none

trollerVars == <<isListed, allMarkets, accountMembership, accountAssets, config, price>>

ConfigType ==
    [ collateralFactorMantissa     : [JToken -> 0 .. collateralFactorMaxMantissa],
      closeFactorMantissa          : Nat,
      liquidationIncentiveMantissa : Nat,
      supplyCaps                   : [JToken -> Nat],
      borrowCaps                   : [JToken -> Nat],
      creditLimits                 : [Account -> Nat \cup {UIntMax}],
      mintGuardianPaused           : SUBSET JToken,
      borrowGuardianPaused         : SUBSET JToken,
      transferGuardianPaused       : BOOLEAN,
      seizeGuardianPaused          : BOOLEAN ]

(***************************************************************************)
(* Liquidity.                                                              *)
(***************************************************************************)
IsCreditAccount(account) == config.creditLimits[account] # 0

(* The value of one jToken as collateral. *)
TokensToDenom(jTokens, j) ==
    MulExp(MulExp(config.collateralFactorMantissa[j], ExchangeRateStored(jTokens[j])), price[j])

(* The price of an asset is not read, and may be missing, if the account   *)
(* has nothing in it.                                                      *)
PriceIsMissing(jTokens, j, account, jTokenModify) ==
    /\ price[j] = 0
    /\ \/ JTokenBalance(jTokens[j], account) # 0
       \/ BorrowBalanceStored(jTokens[j], account) # 0
       \/ j = jTokenModify

CollateralValue(jTokens, j, account) ==
    MulScalarTruncate(TokensToDenom(jTokens, j), JTokenBalance(jTokens[j], account))

BorrowValue(jTokens, j, account) ==
    MulScalarTruncate(price[j], BorrowBalanceStored(jTokens[j], account))

EffectValue(jTokens, j, redeemTokens, borrowAmount) ==
    MulScalarTruncate(TokensToDenom(jTokens, j), redeemTokens)
    + MulScalarTruncate(price[j], borrowAmount)

(* getHypotheticalAccountLiquidityInternal over assets, an array of        *)
(* markets.  It reverts with the exchange rate of an asset, and its error  *)
(* code says that the price of one is missing.                             *)
LiquidityReverts(jTokens, assets, account) ==
    /\ config.creditLimits[account] # UIntMax
    /\ \E j \in ToSet(assets) : ExchangeRateReverts(jTokens[j])

(* The sum of the amounts of the markets in the array: that many units are *)
(* counted, each under the place of its market.                            *)
SumOver(assets, amount) ==
    Cardinality(UNION { {i} \X (1 .. amount[assets[i]]) : i \in DOMAIN assets })

Liquidity(jTokens, assets, account, jTokenModify, redeemTokens, borrowAmount) ==
    LET collateral == [j \in JToken |-> CollateralValue(jTokens, j, account)]
        borrowPlusEffects == [j \in JToken |->
            BorrowValue(jTokens, j, account)
            + (IF j = jTokenModify
                 THEN EffectValue(jTokens, j, redeemTokens, borrowAmount) ELSE 0)]
        sumCollateral == IF IsCreditAccount(account) THEN config.creditLimits[account]
                         ELSE SumOver(assets, collateral)
        sumBorrowPlusEffects == SumOver(assets, borrowPlusEffects)
    IN  IF config.creditLimits[account] = UIntMax THEN [error |-> FALSE, shortfall |-> 0]
        ELSE [ error     |-> \E j \in ToSet(assets) :
                                PriceIsMissing(jTokens, j, account, jTokenModify),
               shortfall |-> IF sumCollateral > sumBorrowPlusEffects THEN 0
                             ELSE sumBorrowPlusEffects - sumCollateral ]

(* getAccountLiquidityInternal *)
AccountLiquidity(jTokens, account) ==
    Liquidity(jTokens, accountAssets[account], account, NoMarket, 0, 0)

(***************************************************************************)
(* The hooks.                                                              *)
(***************************************************************************)
MintReverts(jTokens, j, minter, mintAmount) ==
    \/ j \in config.mintGuardianPaused
    \/ IsCreditAccount(minter)
    \/ /\ config.supplyCaps[j] # 0
       /\ LET totalSupplies == CashPlusBorrowsMinusReserves(jTokens[j])
          IN  totalSupplies < 0 \/ totalSupplies + mintAmount >= config.supplyCaps[j]

MintAllowed(j) == j \in isListed

(* Mutant of RedeemAllowed: what is redeemed still counts as collateral. *)
RedeemAllowedBefore(jTokens, j, redeemer, redeemTokens) ==
    /\ j \in isListed
    /\ redeemer \in accountMembership[j] =>
         LET liquidity == Liquidity(jTokens, accountAssets[redeemer], redeemer, j, 0, 0)
         IN  ~liquidity.error /\ liquidity.shortfall = 0

(* redeemAllowedInternal, which transferAllowed and exitMarket also ask. *)
RedeemAllowed(jTokens, j, redeemer, redeemTokens) ==
    /\ j \in isListed
    /\ redeemer \in accountMembership[j] =>
         LET liquidity == Liquidity(jTokens, accountAssets[redeemer], redeemer, j, redeemTokens, 0)
         IN  ~liquidity.error /\ liquidity.shortfall = 0

RedeemReverts(jTokens, j, redeemer) ==
    /\ j \in isListed
    /\ redeemer \in accountMembership[j]
    /\ LiquidityReverts(jTokens, accountAssets[redeemer], redeemer)

(* What borrowAllowed checks once the borrower is in the market; assets is *)
(* the array of what the borrower entered, j included.                     *)
BorrowReverts(jTokens, assets, j, borrower, borrowAmount) ==
    /\ price[j] # 0
    /\ \/ /\ config.borrowCaps[j] # 0
          /\ jTokens[j].totalBorrows + borrowAmount >= config.borrowCaps[j]
       \/ LiquidityReverts(jTokens, assets, borrower)

BorrowAllowed(jTokens, assets, j, borrower, borrowAmount) ==
    /\ price[j] # 0
    /\ LET liquidity == Liquidity(jTokens, assets, borrower, j, 0, borrowAmount)
       IN  ~liquidity.error /\ liquidity.shortfall = 0

RepayBorrowAllowed(j) == j \in isListed

LiquidateBorrowReverts(jTokens, borrower) ==
    IsCreditAccount(borrower) \/ LiquidityReverts(jTokens, accountAssets[borrower], borrower)

MaxClose(jTokens, j, borrower) ==
    MulScalarTruncate(config.closeFactorMantissa, BorrowBalanceStored(jTokens[j], borrower))

LiquidateBorrowAllowed(jTokens, jTokenBorrowed, jTokenCollateral, borrower, repayAmount) ==
    /\ jTokenBorrowed \in isListed
    /\ jTokenCollateral \in isListed
    /\ repayAmount <= MaxClose(jTokens, jTokenBorrowed, borrower)
    /\ LET liquidity == AccountLiquidity(jTokens, borrower)
       IN  ~liquidity.error /\ liquidity.shortfall # 0

(* liquidateCalculateSeizeTokens divides by this price of a jToken. *)
SeizeDenominator(jTokens, jTokenCollateral) ==
    MulExp(price[jTokenCollateral], ExchangeRateStored(jTokens[jTokenCollateral]))

SeizeTokens(jTokens, jTokenBorrowed, jTokenCollateral, actualRepayAmount) ==
    LET numerator == MulExp(config.liquidationIncentiveMantissa, price[jTokenBorrowed])
        ratio     == DivUIntByExp(numerator, SeizeDenominator(jTokens, jTokenCollateral))
    IN  MulScalarTruncate(ratio, actualRepayAmount)

SeizeTokensReverts(jTokens, jTokenBorrowed, jTokenCollateral) ==
    \/ price[jTokenBorrowed] = 0
    \/ price[jTokenCollateral] = 0
    \/ ExchangeRateReverts(jTokens[jTokenCollateral])
    \/ SeizeDenominator(jTokens, jTokenCollateral) = 0

(* Mutant of SeizeReverts: the pause is not looked at. *)
SeizeRevertsForCreditAccounts(borrower) == IsCreditAccount(borrower)

SeizeReverts(borrower) == config.seizeGuardianPaused \/ IsCreditAccount(borrower)

(* Mutant of TransferReverts: it is the sender who may not be a credit account. *)
TransferRevertsForSender(jTokens, j, src, dst) ==
    \/ config.transferGuardianPaused
    \/ IsCreditAccount(src)
    \/ RedeemReverts(jTokens, j, src)

TransferReverts(jTokens, j, src, dst) ==
    \/ config.transferGuardianPaused
    \/ IsCreditAccount(dst)
    \/ RedeemReverts(jTokens, j, src)

(* Mutant of SwapWithLast: the last entry is dropped and not moved. *)
DropLast(s, x) == SubSeq(s, 1, Len(s) - 1)

(***************************************************************************)
(* The list of markets an account entered.  To remove a market, the first  *)
(* place that has it gets the last of the list, and the last is dropped.   *)
(***************************************************************************)
SwapWithLast(s, x) ==
    [i \in 1 .. Len(s) - 1 |->
        IF s[i] = x /\ \A h \in 1 .. i - 1 : s[h] # x THEN s[Len(s)] ELSE s[i]]

(* Mutant of AddToMarket: the array is not extended. *)
AddToMarketUnlisted(j, account) ==
    /\ accountMembership' = [accountMembership EXCEPT ![j] = @ \cup {account}]
    /\ UNCHANGED accountAssets

AddToMarket(j, account) ==
    IF account \in accountMembership[j] THEN UNCHANGED <<accountMembership, accountAssets>>
    ELSE /\ accountMembership' = [accountMembership EXCEPT ![j] = @ \cup {account}]
         /\ accountAssets' = [accountAssets EXCEPT ![account] = Append(@, j)]

RemoveFromMarket(j, account) ==
    IF account \notin accountMembership[j] THEN UNCHANGED <<accountMembership, accountAssets>>
    ELSE /\ accountMembership' = [accountMembership EXCEPT ![j] = @ \ {account}]
         /\ accountAssets' = [accountAssets EXCEPT ![account] = SwapWithLast(@, j)]

(***************************************************************************)
(* The admin's and the guardians' functions.                               *)
(***************************************************************************)
SetConfig(newConfig) ==
    /\ config' = newConfig
    /\ UNCHANGED <<isListed, allMarkets, accountMembership, accountAssets, price>>

SetCloseFactor(newCloseFactorMantissa) ==
    SetConfig([config EXCEPT !.closeFactorMantissa = newCloseFactorMantissa])

SetLiquidationIncentive(newLiquidationIncentiveMantissa) ==
    SetConfig([config EXCEPT !.liquidationIncentiveMantissa = newLiquidationIncentiveMantissa])

SetCollateralFactor(j, newCollateralFactorMantissa) ==
    /\ j \in isListed
    /\ newCollateralFactorMantissa <= collateralFactorMaxMantissa
    /\ newCollateralFactorMantissa # 0 => price[j] # 0
    /\ SetConfig([config EXCEPT !.collateralFactorMantissa[j] = newCollateralFactorMantissa])

SetMarketSupplyCap(j, newSupplyCap) == SetConfig([config EXCEPT !.supplyCaps[j] = newSupplyCap])

SetMarketBorrowCap(j, newBorrowCap) == SetConfig([config EXCEPT !.borrowCaps[j] = newBorrowCap])

SetCreditLimit(account, creditLimit) ==
    SetConfig([config EXCEPT !.creditLimits[account] = creditLimit])

SetMintPaused(j, state) ==
    /\ j \in isListed
    /\ SetConfig([config EXCEPT !.mintGuardianPaused = IF state THEN @ \cup {j} ELSE @ \ {j}])

SetBorrowPaused(j, state) ==
    /\ j \in isListed
    /\ SetConfig([config EXCEPT !.borrowGuardianPaused = IF state THEN @ \cup {j} ELSE @ \ {j}])

SetTransferPaused(state) == SetConfig([config EXCEPT !.transferGuardianPaused = state])

SetSeizePaused(state) == SetConfig([config EXCEPT !.seizeGuardianPaused = state])

(* A new market starts without collateral value. The mapping of members of *)
(* an earlier listing is still there: delete does not reach it.            *)
SupportMarket(j) ==
    /\ j \notin isListed
    /\ j \notin ToSet(allMarkets)
    /\ isListed' = isListed \cup {j}
    /\ allMarkets' = Append(allMarkets, j)
    /\ config' = [config EXCEPT !.collateralFactorMantissa[j] = 0]
    /\ UNCHANGED <<accountMembership, accountAssets, price>>

(* Mutant of DelistMarket: the array keeps the market. *)
DelistMarketOnly(j, totalSupply) ==
    /\ j \in isListed
    /\ totalSupply = 0
    /\ isListed' = isListed \ {j}
    /\ config' = [config EXCEPT !.collateralFactorMantissa[j] = 0]
    /\ UNCHANGED <<allMarkets, accountMembership, accountAssets, price>>

DelistMarket(j, totalSupply) ==
    /\ j \in isListed
    /\ totalSupply = 0
    /\ isListed' = isListed \ {j}
    /\ allMarkets' = SwapWithLast(allMarkets, j)
    /\ config' = [config EXCEPT !.collateralFactorMantissa[j] = 0]
    /\ UNCHANGED <<accountMembership, accountAssets, price>>

================================================================================
