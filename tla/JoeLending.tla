------------------------------- MODULE JoeLending ------------------------------
(***************************************************************************)
(* Several JCollateralCapErc20 markets under one Joetroller: suppliers,    *)
(* borrowers and liquidators, the oracle's prices and the clock.           *)
(*                                                                         *)
(* Every action is a whole transaction.  It asks the Joetroller where the  *)
(* code does, with the markets as they are at that moment: the market      *)
(* called has accrued its interest, the account's other markets have not.  *)
(***************************************************************************)
EXTENDS Joetroller

CONSTANTS
    Amounts,              \* amounts and token counts that callers pass
    LiquidationAmounts,   \* amounts that liquidators repay
    Prices,               \* answers of the oracle
    CollateralFactors, CloseFactors, LiquidationIncentives,
    SupplyCaps, BorrowCaps, CollateralCaps, SeizeShares, CreditLimits,
    Pausable,             \* the guards that are used: "Mint", "Borrow", "Transfer", "Seize"
    Relistable,           \* markets the admin delists and lists again
    InitialConfig,        \* the configuration the system starts with
    MaxTokens,            \* bound: jTokens in existence in a market, also as collateral
    MaxBorrows,           \* bound: totalBorrows of a market
    MaxTime               \* bound: the last timestamp

ASSUME JoeLendingAssumption ==
    /\ \A inputs \in { Amounts, LiquidationAmounts, Prices, CollateralFactors, CloseFactors,
                       LiquidationIncentives, SupplyCaps, BorrowCaps, CollateralCaps,
                       SeizeShares } : inputs \subseteq Nat
    /\ CreditLimits \subseteq Nat \cup {UIntMax}
    /\ IsFiniteSet(JToken)
    /\ InitialConfig \in ConfigType
    /\ Relistable \subseteq JToken
    /\ MaxTokens \in Nat /\ MaxBorrows \in Nat /\ MaxTime \in Nat

VARIABLES
    jToken,      \* storage of every market
    now          \* block.timestamp

vars == <<jToken, now, trollerVars>>

Init ==
    /\ jToken = [j \in JToken |-> InitializedMarket(0)]
    /\ now = 0
    /\ isListed = JToken
    /\ allMarkets \in { s \in [1 .. Cardinality(JToken) -> JToken] : ToSet(s) = JToken }
    /\ accountMembership = [j \in JToken |-> {}]
    /\ accountAssets = [a \in Account |-> <<>>]
    /\ config = InitialConfig
    /\ price \in [JToken -> Prices]

With(j, m) == [jToken EXCEPT ![j] = m]

Initialized(m, j, account) ==
    InitializeAccountCollateralTokens(m, account, account \in accountMembership[j])

TrollerUnchanged == UNCHANGED <<trollerVars, now>>

(***************************************************************************)
(* Suppliers.                                                              *)
(***************************************************************************)
Mint(j, minter, mintAmount) ==
    /\ \E m0 \in Accruals(jToken[j], now) :
         LET m == Initialized(m0, j, minter)
         IN  /\ ~MintReverts(With(j, m), j, minter, mintAmount)
             /\ IF ~MintAllowed(j) \/ mintAmount = 0
                  THEN jToken' = With(j, m)
                  ELSE /\ ~MintFreshReverts(m)
                       /\ \E actual \in Received(m, mintAmount) :
                            jToken' = With(j, MintFresh(m, minter, actual,
                                                        minter \in accountMembership[j]))
    /\ TrollerUnchanged

(* The Joetroller is asked twice: before the redemption, and before the    *)
(* collateral is taken off, when the tokens and the cash are gone already. *)
Redeem(j, redeemer, redeemTokensIn, redeemAmountIn) ==
    /\ redeemTokensIn = 0 \/ redeemAmountIn = 0
    /\ \E m0 \in Accruals(jToken[j], now) :
         LET m          == Initialized(m0, j, redeemer)
             tokens     == RedeemTokens(m, redeemTokensIn, redeemAmountIn)
             amount     == RedeemAmount(m, redeemTokensIn, redeemAmountIn)
             collateral == CollateralTokensOf(m, redeemer, tokens)
             paidOut    == With(j, RedeemPaidOut(m, redeemer, tokens, amount))
         IN  /\ ~RedeemTokensReverts(m, redeemTokensIn)
             /\ ~BufferTokensReverts(m, redeemer)
             /\ ~RedeemReverts(With(j, m), j, redeemer)
             /\ IF ~RedeemAllowed(With(j, m), j, redeemer, collateral) \/ amount > m.internalCash
                  THEN jToken' = With(j, m)
                  ELSE /\ ~RedeemFreshReverts(m, redeemer, tokens, amount)
                       /\ ~RedeemReverts(paidOut, j, redeemer)
                       /\ RedeemAllowed(paidOut, j, redeemer, collateral)
                       /\ jToken' = With(j, RedeemFresh(m, redeemer, tokens, amount))
    /\ TrollerUnchanged

Transfer(j, src, dst, tokens) ==
    /\ LET m          == Initialized(Initialized(jToken[j], j, src), j, dst)
           collateral == CollateralTokensOf(m, src, tokens)
       IN  /\ ~BufferTokensReverts(m, src)
           /\ ~TransferReverts(With(j, m), j, src, dst)
           /\ IF ~RedeemAllowed(With(j, m), j, src, collateral) \/ src = dst
                THEN jToken' = With(j, m)
                ELSE /\ ~TransferTokensReverts(m, src, src, tokens)
                     /\ jToken' = With(j, TransferTokens(m, src, src, dst, tokens))
    /\ TrollerUnchanged

(* Mutant of EnterMarket: the tokens do not become collateral. *)
EnterMarketUnregistered(j, account) ==
    /\ j \in isListed
    /\ AddToMarket(j, account)
    /\ UNCHANGED <<jToken, now, isListed, allMarkets, config, price>>

EnterMarket(j, account) ==
    /\ j \in isListed
    /\ jToken' = With(j, RegisterCollateral(jToken[j], account, account \in accountMembership[j]))
    /\ AddToMarket(j, account)
    /\ UNCHANGED <<now, isListed, allMarkets, config, price>>

(* exitMarket does not accrue interest. *)
ExitMarket(j, account) ==
    /\ BorrowBalanceStored(jToken[j], account) = 0
    /\ ~ExchangeRateReverts(jToken[j])
    /\ ~RedeemReverts(jToken, j, account)
    /\ RedeemAllowed(jToken, j, account, JTokenBalance(jToken[j], account))
    /\ LET m == Initialized(jToken[j], j, account)
       IN  /\ ~DecreaseUserCollateralReverts(m, account, m.accountCollateralTokens[account])
           /\ RedeemAllowed(With(j, m), j, account, m.accountCollateralTokens[account])
    /\ jToken' = With(j, UnregisterCollateral(jToken[j], account, account \in accountMembership[j]))
    /\ RemoveFromMarket(j, account)
    /\ UNCHANGED <<now, isListed, allMarkets, config, price>>

(***************************************************************************)
(* Borrowers.                                                              *)
(***************************************************************************)
Borrow(j, borrower, borrowAmount) ==
    /\ j \notin config.borrowGuardianPaused
    /\ j \in isListed
    /\ \E m0 \in Accruals(jToken[j], now) :
         LET entered == borrower \in accountMembership[j]
             m       == IF entered THEN m0 ELSE RegisterCollateral(m0, borrower, FALSE)
             assets  == IF entered THEN accountAssets[borrower]
                        ELSE Append(accountAssets[borrower], j)
         IN  /\ ~BorrowReverts(With(j, m), assets, j, borrower, borrowAmount)
             /\ IF ~BorrowAllowed(With(j, m), assets, j, borrower, borrowAmount)
                  THEN jToken' = With(j, m)
                ELSE IF borrowAmount = 0
                  THEN jToken' = With(j, RefreshAccountBorrows(m, borrower))
                ELSE IF borrowAmount > m.internalCash
                  THEN jToken' = With(j, m)
                ELSE jToken' = With(j, BorrowFresh(m, borrower, borrowAmount))
    /\ AddToMarket(j, borrower)
    /\ UNCHANGED <<now, isListed, allMarkets, config, price>>

RepayBorrow(j, borrower, repayAmount) ==
    /\ \E m \in Accruals(jToken[j], now) :
         IF ~RepayBorrowAllowed(j)
           THEN jToken' = With(j, m)
         ELSE IF repayAmount = 0
           THEN jToken' = With(j, RefreshAccountBorrows(m, borrower))
         ELSE \E actual \in Received(m, RepayAmount(m, borrower, repayAmount)) :
                /\ ~RepayBorrowFreshReverts(m, borrower, actual)
                /\ jToken' = With(j, RepayBorrowFresh(m, borrower, actual))
    /\ TrollerUnchanged

(***************************************************************************)
(* Liquidation: both markets accrue, the debt is repaid in jb, and then    *)
(* tokens are seized in jc, which may be the same market.                  *)
(***************************************************************************)
AccruedBoth(jb, jc) ==
    { [jToken EXCEPT ![jb] = mb, ![jc] = IF jb = jc THEN mb ELSE mc] :
        mb \in Accruals(jToken[jb], now), mc \in Accruals(jToken[jc], now) }

(* Mutant of LiquidateBorrow: the repayment stays when the seizure fails.   *)
LiquidateBorrowKeepsRepayment(jb, jc, liquidator, borrower, repayAmount) ==
    /\ \E accrued \in AccruedBoth(jb, jc) :
         /\ ~LiquidateBorrowReverts(accrued, borrower)
         /\ IF \/ ~LiquidateBorrowAllowed(accrued, jb, jc, borrower, repayAmount)
               \/ borrower = liquidator
               \/ repayAmount = 0
              THEN jToken' = accrued
              ELSE \E actual \in Received(accrued[jb], repayAmount) :
                     LET repaid == [accrued EXCEPT ![jb] = RepayBorrowFresh(@, borrower, actual)]
                         tokens == SeizeTokens(repaid, jb, jc, actual)
                         m      == Initialized(Initialized(repaid[jc], jc, liquidator), jc, borrower)
                     IN  /\ ~RepayBorrowFreshReverts(accrued[jb], borrower, actual)
                         /\ ~SeizeTokensReverts(repaid, jb, jc)
                         /\ jToken' = IF tokens > repaid[jc].accountTokens[borrower]
                                     THEN repaid
                                     ELSE [repaid EXCEPT ![jc] =
                                             SeizeInternal(m, liquidator, borrower, tokens)]
    /\ TrollerUnchanged

LiquidateBorrow(jb, jc, liquidator, borrower, repayAmount) ==
    /\ \E accrued \in AccruedBoth(jb, jc) :
         /\ ~LiquidateBorrowReverts(accrued, borrower)
         /\ IF \/ ~LiquidateBorrowAllowed(accrued, jb, jc, borrower, repayAmount)
               \/ borrower = liquidator
               \/ repayAmount = 0
              THEN jToken' = accrued
              ELSE \E actual \in Received(accrued[jb], repayAmount) :
                     LET repaid == [accrued EXCEPT ![jb] = RepayBorrowFresh(@, borrower, actual)]
                         tokens == SeizeTokens(repaid, jb, jc, actual)
                         m      == Initialized(Initialized(repaid[jc], jc, liquidator), jc, borrower)
                     IN  /\ ~RepayBorrowFreshReverts(accrued[jb], borrower, actual)
                         /\ ~SeizeTokensReverts(repaid, jb, jc)
                         /\ tokens <= repaid[jc].accountTokens[borrower]
                         /\ ~SeizeReverts(borrower)
                         /\ tokens > 0 => ~SeizeInternalReverts(m, borrower, tokens)
                         /\ jToken' = [repaid EXCEPT ![jc] =
                              IF tokens = 0 THEN m ELSE SeizeInternal(m, liquidator, borrower, tokens)]
    /\ TrollerUnchanged

(***************************************************************************)
(* The markets' admin, the oracle and the clock.                           *)
(***************************************************************************)
SetCollateralCap(j, newCollateralCap) ==
    /\ jToken' = With(j, [jToken[j] EXCEPT !.collateralCap = newCollateralCap])
    /\ TrollerUnchanged

SetProtocolSeizeShare(j, newProtocolSeizeShareMantissa) ==
    /\ newProtocolSeizeShareMantissa <= protocolSeizeShareMaxMantissa
    /\ \E m \in Accruals(jToken[j], now) :
         jToken' = With(j, [m EXCEPT !.protocolSeizeShareMantissa = newProtocolSeizeShareMantissa])
    /\ TrollerUnchanged

Accrue(j) ==
    /\ \E m \in Accruals(jToken[j], now) : jToken' = With(j, m)
    /\ TrollerUnchanged

SetPrice(j, newPrice) ==
    /\ price' = [price EXCEPT ![j] = newPrice]
    /\ UNCHANGED <<jToken, now, isListed, allMarkets, accountMembership, accountAssets, config>>

Tick ==
    /\ now < MaxTime
    /\ now' = now + 1
    /\ UNCHANGED <<jToken, trollerVars>>

JoetrollerAdmin ==
    /\ \/ \E mantissa \in CloseFactors : SetCloseFactor(mantissa)
       \/ \E mantissa \in LiquidationIncentives : SetLiquidationIncentive(mantissa)
       \/ \E j \in JToken, mantissa \in CollateralFactors : SetCollateralFactor(j, mantissa)
       \/ \E j \in JToken, cap \in SupplyCaps : SetMarketSupplyCap(j, cap)
       \/ \E j \in JToken, cap \in BorrowCaps : SetMarketBorrowCap(j, cap)
       \/ \E a \in Account, limit \in CreditLimits : SetCreditLimit(a, limit)
       \/ \E state \in BOOLEAN :
             \/ \E j \in JToken : "Mint" \in Pausable /\ SetMintPaused(j, state)
             \/ \E j \in JToken : "Borrow" \in Pausable /\ SetBorrowPaused(j, state)
             \/ "Transfer" \in Pausable /\ SetTransferPaused(state)
             \/ "Seize" \in Pausable /\ SetSeizePaused(state)
       \/ \E j \in Relistable : SupportMarket(j) \/ DelistMarket(j, jToken[j].totalSupply)
    /\ UNCHANGED <<jToken, now>>

--------------------------------------------------------------------------------

WithinBounds(m) ==
    /\ m.totalSupply <= MaxTokens
    /\ m.totalCollateralTokens <= MaxTokens
    /\ m.totalBorrows <= MaxBorrows

Step ==
    \/ \E j \in JToken, a \in Account, amount \in Amounts :
          \/ Mint(j, a, amount)
          \/ Redeem(j, a, amount, 0)
          \/ Redeem(j, a, 0, amount)
          \/ Borrow(j, a, amount)
          \/ \E dst \in Account : Transfer(j, a, dst, amount)
    \/ \E j \in JToken, a \in Account, amount \in Amounts \cup {UIntMax} : RepayBorrow(j, a, amount)
    \/ \E jb, jc \in JToken, liquidator, borrower \in Account, amount \in LiquidationAmounts :
          LiquidateBorrow(jb, jc, liquidator, borrower, amount)
    \/ \E j \in JToken, a \in Account : EnterMarket(j, a) \/ ExitMarket(j, a)
    \/ \E j \in JToken, cap \in CollateralCaps : SetCollateralCap(j, cap)
    \/ \E j \in JToken, mantissa \in SeizeShares : SetProtocolSeizeShare(j, mantissa)
    \/ \E j \in JToken : Accrue(j)
    \/ \E j \in JToken, p \in Prices : SetPrice(j, p)
    \/ JoetrollerAdmin
    \/ Tick

Next == Step /\ \A j \in JToken : WithinBounds(jToken'[j])

Spec == Init /\ [][Next]_vars

--------------------------------------------------------------------------------
(***************************************************************************)
(* Properties.                                                             *)
(***************************************************************************)

(* Every variable has its type. *)
TypeOK ==
    /\ jToken \in [JToken -> MarketType]
    /\ now \in Nat
    /\ isListed \in SUBSET JToken
    /\ ToSet(allMarkets) \subseteq JToken
    /\ accountMembership \in [JToken -> SUBSET Account]
    /\ DOMAIN accountAssets = Account
    /\ config \in ConfigType
    /\ price \in [JToken -> Nat]

(* The mapping and the array of the markets an account entered say the     *)
(* same, and the array has no market twice: no collateral or debt is left  *)
(* out of a liquidity check or counted twice, and the assertion of         *)
(* exitMarket holds.                                                       *)
AccountAssetsMatchMembership ==
    \A a \in Account :
        /\ ToSet(accountAssets[a]) = { j \in JToken : a \in accountMembership[j] }
        /\ Len(accountAssets[a]) = Cardinality(ToSet(accountAssets[a]))

(* allMarkets is the listed markets, each once, through delistings. *)
AllMarketsAreListed ==
    ToSet(allMarkets) = isListed /\ Len(allMarkets) = Cardinality(isListed)

(* Every debt is in the sight of the liquidity checks. *)
DebtsAreCounted ==
    \A a \in Account, j \in JToken :
        jToken[j].accountBorrows[a].principal > 0 => j \in ToSet(accountAssets[a])

(* The shortfall of an account, by stored data. *)
ShortfallOf(account) == AccountLiquidity(jToken, account).shortfall

(* What a owed in j before the step, with interest up to index.            *)
Owed(j, a, index) == BorrowBalanceStored([jToken[j] EXCEPT !.borrowIndex = index], a)

(* A debt in jb was paid and tokens in jc were given for it.               *)
Liquidated(a, jb, jc) ==
    /\ BorrowBalanceStored(jToken'[jb], a) < Owed(jb, a, jToken'[jb].borrowIndex)
    /\ jToken'[jc].accountTokens[a] < jToken[jc].accountTokens[a]

InterestIsStable == \A j \in JToken : jToken'[j].borrowIndex = jToken[j].borrowIndex

(* What a liquidation moved.                                               *)
Repaid(jb, a) == Owed(jb, a, jToken'[jb].borrowIndex) - BorrowBalanceStored(jToken'[jb], a)

SeizedFrom(jc, a) == jToken[jc].accountTokens[a] - jToken'[jc].accountTokens[a]

(* seized jTokens are what repaid units of debt buy, up to truncation: not *)
(* more than with a denominator of one unit less, and not a token less.    *)
FairlySeized(jb, jc, repaid, seized) ==
    LET jTokenPrice == ExchangeRateStored(jToken[jc]) * price[jc]
        debtPrice   == config.liquidationIncentiveMantissa * price[jb]
    IN  /\ seized * jTokenPrice <= repaid * debtPrice + seized * (expScale - 1)
        /\ repaid * debtPrice <= (seized + 1) * jTokenPrice
                                 + repaid * (jTokenPrice \div expScale + expScale - 1)

(* Something a liquidation moves was moved, and by a liquidation.          *)
LiquidationMoves(jb, jc, a) ==
    /\ \/ jToken'[jb].accountBorrows[a] # jToken[jb].accountBorrows[a]
       \/ jToken'[jc].accountTokens[a] # jToken[jc].accountTokens[a]
    /\ \E liquidator \in Account, amount \in LiquidationAmounts :
          LiquidateBorrow(jb, jc, liquidator, a, amount)

(* A liquidation pays and seizes, or does neither, and the liquidator gets *)
(* no more jTokens than the incentive on what was paid, and no fewer: only *)
(* truncation is between them.  Then, if a unit of debt buys less than a   *)
(* unit of borrowing power, that is, the collateral factor times the       *)
(* incentive is at most 1, the borrower's shortfall does not grow, up to a *)
(* unit and one more for every expScale jTokens that are seized.           *)
LiquidationIsAnExchange ==
    [][ \A jb, jc \in JToken, a \in Account :
          LiquidationMoves(jb, jc, a) /\ InterestIsStable =>
            /\ FairlySeized(jb, jc, Repaid(jb, a), SeizedFrom(jc, a))
            /\ \/ config.collateralFactorMantissa[jc] * config.liquidationIncentiveMantissa
                    > expScale * expScale
               \/ (ShortfallOf(a))' <= ShortfallOf(a) + 1
                     + (SeizedFrom(jc, a) + expScale - 1) \div expScale ]_vars

(* The markets a entered are worth no less per jToken. *)
RatesHold(a) ==
    \A j \in ToSet(accountAssets[a]) :
        ExchangeRateStored(jToken'[j]) >= ExchangeRateStored(jToken[j])

(* Nothing an account or another does puts an account without a shortfall  *)
(* into one of more than the unit that truncation may cost, as long as     *)
(* prices, interest and the configuration stay and no market it entered    *)
(* loses value per jToken, as a redemption of less than a whole jToken     *)
(* makes it.                                                               *)
NoSelfInflictedShortfall ==
    [][ \A a \in Account :
          \/ UNCHANGED <<jToken, accountAssets>>
          \/ price' # price
          \/ config' # config
          \/ ~InterestIsStable
          \/ ~RatesHold(a)
          \/ (ShortfallOf(a))' <= 1
          \/ ShortfallOf(a) > 0 ]_vars

(* What a guardian paused stops, by whatever function: no supply is added, *)
(* no debt grows but by its interest, and when both transfers and seizures *)
(* are paused no jToken changes hands.                                     *)
PausedMeansStopped ==
    [][ \A j \in JToken :
          /\ j \in config.mintGuardianPaused =>
               jToken'[j].totalSupply <= jToken[j].totalSupply
          /\ j \in config.borrowGuardianPaused =>
               \A a \in Account :
                 BorrowBalanceStored(jToken'[j], a) <= Owed(j, a, jToken'[j].borrowIndex)
          /\ config.transferGuardianPaused /\ config.seizeGuardianPaused =>
               \A a \in Account :
                 jToken'[j].accountTokens[a] > jToken[j].accountTokens[a]
                 => jToken'[j].totalSupply > jToken[j].totalSupply ]_vars

(* A credit account, which borrows without collateral, gets jTokens only   *)
(* as the liquidator of someone else.                                      *)
CreditAccountsHoldNoCollateral ==
    [][ \A a \in Account, j \in JToken :
          /\ IsCreditAccount(a)
          /\ jToken'[j].accountTokens[a] > jToken[j].accountTokens[a]
          => \E b \in Account \ {a}, jb \in JToken : Liquidated(b, jb, j) ]_vars

(* Every market is a Market: whatever the Joetroller decides, what a       *)
(* transaction does to one market is a step of Market.tla or nothing, so   *)
(* what holds there of one market under an arbitrary Joetroller holds here *)
(* of each market under the real one.                                      *)
OneMarket(j) ==
    INSTANCE Market WITH
        market <- jToken[j], member <- accountMembership[j],
        notEntered <- TRUE, loan <- NoLoan,
        Amounts <- Amounts \cup LiquidationAmounts \cup 0 .. MaxTokens,
        ReserveFactors <- {}, Allowances <- {}, LegacyBalances <- {0},
        FlashLoanAmounts <- {}, flashFeeBips <- 0, bips <- 1

EachMarketIsAMarket ==       \* \A j \in JToken : OneMarket(j)!Spec
    /\ \A j \in JToken : OneMarket(j)!Init
    /\ [][ \A j \in JToken : UNCHANGED OneMarket(j)!vars \/ OneMarket(j)!Next ]_vars

================================================================================
