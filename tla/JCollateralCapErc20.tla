-------------------------- MODULE JCollateralCapErc20 --------------------------
(***************************************************************************)
(* The functions of one JCollateralCapErc20 market (JToken.sol and         *)
(* JCollateralCapErc20.sol), as operators from the market's storage, a     *)
(* record m, to the storage the call leaves.  Market.tla turns them into   *)
(* the actions of a single market, JoeLending.tla into those of several    *)
(* markets under one Joetroller.                                           *)
(*                                                                         *)
(* A Solidity call has three outcomes.  It succeeds; or it returns an      *)
(* error code, which keeps what was stored so far (the accrued interest,   *)
(* the initialised collateral); or it reverts, which undoes everything.    *)
(* The operator Foo(m, ..) is the storage after a successful Foo, and      *)
(* FooReverts(m, ..) says when that path reverts instead.                  *)
(***************************************************************************)
EXTENDS Exponential, FiniteSets

CONSTANTS
    Account,                       \* holders of jTokens and borrowers
    initialExchangeRateMantissa,   \* exchange rate while the supply is zero
    reserveFactorMaxMantissa,
    protocolSeizeShareMaxMantissa,
    BorrowRates,                   \* answers of the interest rate model, per unit of time
    TransferFees,                  \* fees the underlying may keep on a transfer
    UnderlyingSupply               \* bound: all the underlying there is

ASSUME MarketAssumption ==
    /\ initialExchangeRateMantissa \in Nat \ {0}
    /\ reserveFactorMaxMantissa \in 0 .. expScale
    /\ protocolSeizeShareMaxMantissa \in 0 .. expScale
    /\ BorrowRates \subseteq Nat
    /\ TransferFees \subseteq Nat
    /\ UnderlyingSupply \in Nat

ASSUME AccountAssumption == IsFiniteSet(Account)

(* The amount uint256(-1): "all of it" for a repayment, "without limit"    *)
(* for an allowance.                                                       *)
UIntMax == -1

(***************************************************************************)
(* Storage.  cashOnChain is not storage of the market: it is what the      *)
(* underlying token answers to balanceOf(market), which anyone can raise   *)
(* with a direct transfer.                                                 *)
(***************************************************************************)
BorrowSnapshot == [principal : Nat, interestIndex : Nat]

MarketType ==
    [ accrualBlockTimestamp      : Nat,
      borrowIndex                : Nat,
      totalBorrows               : Nat,
      totalReserves              : Nat,
      totalSupply                : Nat,
      accountTokens              : [Account -> Nat],
      accountBorrows             : [Account -> BorrowSnapshot],
      transferAllowances         : [Account -> [Account -> Nat \cup {UIntMax}]],
      reserveFactorMantissa      : 0 .. reserveFactorMaxMantissa,
      internalCash               : Nat,
      cashOnChain                : Nat,
      totalCollateralTokens      : Nat,
      accountCollateralTokens    : [Account -> Nat],
      isCollateralTokenInit      : [Account -> BOOLEAN],
      collateralCap              : Nat,
      protocolSeizeShareMantissa : 0 .. protocolSeizeShareMaxMantissa ]

(* A market right after initialize(): nothing supplied, nothing borrowed.  *)
InitializedMarket(now) ==
    [ accrualBlockTimestamp      |-> now,
      borrowIndex                |-> mantissaOne,
      totalBorrows               |-> 0,
      totalReserves              |-> 0,
      totalSupply                |-> 0,
      accountTokens              |-> [a \in Account |-> 0],
      accountBorrows             |-> [a \in Account |-> [principal |-> 0, interestIndex |-> 0]],
      transferAllowances         |-> [a \in Account |-> [b \in Account |-> 0]],
      reserveFactorMantissa      |-> 0,
      internalCash               |-> 0,
      cashOnChain                |-> 0,
      totalCollateralTokens      |-> 0,
      accountCollateralTokens    |-> [a \in Account |-> 0],
      isCollateralTokenInit      |-> [a \in Account |-> FALSE],
      collateralCap              |-> 0,
      protocolSeizeShareMantissa |-> 0 ]

(* The sum of a function from accounts to amounts, as the number of units  *)
(* the accounts hold.                                                      *)
Units(balance) == UNION { {a} \X (1 .. balance[a]) : a \in Account }

Total(balance) == Cardinality(Units(balance))

(***************************************************************************)
(* Views.                                                                  *)
(***************************************************************************)
BorrowBalanceStored(m, account) ==
    LET snapshot == m.accountBorrows[account]
    IN  IF snapshot.principal = 0 THEN 0
        ELSE (snapshot.principal * m.borrowIndex) \div snapshot.interestIndex

(* What the holders of jTokens own together, in underlying.  sub_ reverts  *)
(* every reader of the exchange rate when the reserves exceed it.          *)
CashPlusBorrowsMinusReserves(m) ==
    m.internalCash + m.totalBorrows - m.totalReserves

ExchangeRateReverts(m) ==
    m.totalSupply > 0 /\ CashPlusBorrowsMinusReserves(m) < 0

ExchangeRateStored(m) ==
    IF m.totalSupply = 0
      THEN initialExchangeRateMantissa
      ELSE DivUIntByExp(CashPlusBorrowsMinusReserves(m), m.totalSupply)

(* getJTokenBalanceInternal: the balance the Joetroller counts as collateral. *)
JTokenBalance(m, account) ==
    IF m.isCollateralTokenInit[account]
      THEN m.accountCollateralTokens[account]
      ELSE m.accountTokens[account]

(***************************************************************************)
(* accrueInterest() at time now, when the interest rate model answers      *)
(* borrowRateMantissa.                                                     *)
(***************************************************************************)
AccrueInterest(m, now, borrowRateMantissa) ==
    IF m.accrualBlockTimestamp = now THEN m
    ELSE LET simpleInterestFactor == borrowRateMantissa * (now - m.accrualBlockTimestamp)
             interestAccumulated  == MulScalarTruncate(simpleInterestFactor, m.totalBorrows)
         IN  [m EXCEPT
                !.accrualBlockTimestamp = now,
                !.borrowIndex   = MulScalarTruncateAddUInt(simpleInterestFactor, @, @),
                !.totalBorrows  = interestAccumulated + @,
                !.totalReserves = MulScalarTruncateAddUInt(m.reserveFactorMantissa,
                                                           interestAccumulated, @)]

Accruals(m, now) == { AccrueInterest(m, now, rate) : rate \in BorrowRates }

(***************************************************************************)
(* Collateral bookkeeping.  isMember is the answer of the Joetroller's     *)
(* checkMembership(account, market).                                       *)
(***************************************************************************)
InitializeAccountCollateralTokens(m, account, isMember) ==
    IF m.isCollateralTokenInit[account] THEN m
    ELSE LET initial == IF isMember THEN m.accountTokens[account]
                                    ELSE m.accountCollateralTokens[account]
         IN  [m EXCEPT
                !.isCollateralTokenInit[account]   = TRUE,
                !.accountCollateralTokens[account] = initial,
                !.totalCollateralTokens = @ + (IF isMember THEN m.accountTokens[account] ELSE 0)]

(* Mutant of CollateralIncrease: the cap is compared before the increase. *)
CollateralIncreasePastCap(m, amount) ==
    IF m.collateralCap = 0 \/ m.totalCollateralTokens < m.collateralCap THEN amount ELSE 0

(* How much of amount the cap leaves room for. *)
CollateralIncrease(m, amount) ==
    IF m.collateralCap = 0 \/ m.totalCollateralTokens + amount <= m.collateralCap
      THEN amount
      ELSE IF m.collateralCap > m.totalCollateralTokens
             THEN m.collateralCap - m.totalCollateralTokens
             ELSE 0

(* Mutant of IncreaseUserCollateral: the total is forgotten. *)
IncreaseUserCollateralOnly(m, account, amount) ==
    [m EXCEPT !.accountCollateralTokens[account] = @ + CollateralIncrease(m, amount)]

IncreaseUserCollateral(m, account, amount) ==
    LET increase == CollateralIncrease(m, amount)
    IN  [m EXCEPT !.totalCollateralTokens = @ + increase,
                  !.accountCollateralTokens[account] = @ + increase]

DecreaseUserCollateralReverts(m, account, amount) ==
    \/ amount > m.totalCollateralTokens
    \/ amount > m.accountCollateralTokens[account]

(* Mutant of DecreaseUserCollateral: the total is forgotten. *)
DecreaseUserCollateralOnly(m, account, amount) ==
    [m EXCEPT !.accountCollateralTokens[account] = @ - amount]

DecreaseUserCollateral(m, account, amount) ==
    [m EXCEPT !.totalCollateralTokens = @ - amount,
              !.accountCollateralTokens[account] = @ - amount]

(* The buffer, the tokens that are not collateral, is spent first.  sub_   *)
(* reverts if an account had more collateral than tokens.                  *)
BufferTokens(m, account) ==
    m.accountTokens[account] - m.accountCollateralTokens[account]

BufferTokensReverts(m, account) == BufferTokens(m, account) < 0

CollateralTokensOf(m, account, tokens) ==
    IF tokens > BufferTokens(m, account)
      THEN tokens - BufferTokens(m, account)
      ELSE 0

RegisterCollateral(m, account, isMember) ==
    LET m1 == InitializeAccountCollateralTokens(m, account, isMember)
    IN  IncreaseUserCollateral(m1, account, BufferTokens(m1, account))

UnregisterCollateral(m, account, isMember) ==
    LET m1 == InitializeAccountCollateralTokens(m, account, isMember)
    IN  DecreaseUserCollateral(m1, account, m1.accountCollateralTokens[account])

(***************************************************************************)
(* The underlying.  doTransferIn counts what really arrived, transferredIn,*)
(* which a token with a transfer fee makes less than the amount sent.      *)
(***************************************************************************)
(* What can arrive of amount, if the payers have that much.                *)
Received(m, amount) ==
    { amount - fee : fee \in { f \in TransferFees :
                                 f <= amount /\ amount <= UnderlyingSupply - m.cashOnChain } }

(* Mutant of DoTransferIn: the internal counter is forgotten. *)
DoTransferInUncounted(m, transferredIn) ==
    [m EXCEPT !.cashOnChain = @ + transferredIn]

DoTransferIn(m, transferredIn) ==
    [m EXCEPT !.cashOnChain = @ + transferredIn, !.internalCash = @ + transferredIn]

DoTransferOut(m, amount) ==
    [m EXCEPT !.cashOnChain = @ - amount, !.internalCash = @ - amount]

(* Mutant of MintTokens: rounded up. *)
MintTokensRoundedUp(m, actualMintAmount) ==
    (expScale * actualMintAmount + ExchangeRateStored(m) - 1) \div ExchangeRateStored(m)

(***************************************************************************)
(* Mint and redeem, after the Joetroller allowed them.                     *)
(***************************************************************************)
MintTokens(m, actualMintAmount) ==
    DivScalarByExpTruncate(actualMintAmount, ExchangeRateStored(m))

MintFreshReverts(m) == ExchangeRateReverts(m) \/ ExchangeRateStored(m) = 0

MintFresh(m, minter, actualMintAmount, isMember) ==
    LET mintTokens == MintTokens(m, actualMintAmount)
        m1 == [DoTransferIn(m, actualMintAmount) EXCEPT
                 !.totalSupply = @ + mintTokens,
                 !.accountTokens[minter] = @ + mintTokens]
    IN  IF isMember THEN IncreaseUserCollateral(m1, minter, mintTokens) ELSE m1

(* One of redeemTokensIn and redeemAmountIn is zero. *)
RedeemTokensReverts(m, redeemTokensIn) ==
    ExchangeRateReverts(m) \/ (redeemTokensIn = 0 /\ ExchangeRateStored(m) = 0)

RedeemTokens(m, redeemTokensIn, redeemAmountIn) ==
    IF redeemTokensIn > 0 THEN redeemTokensIn
    ELSE DivScalarByExpTruncate(redeemAmountIn, ExchangeRateStored(m))

(* Mutant of RedeemAmount: rounded up. *)
RedeemAmountRoundedUp(m, redeemTokensIn, redeemAmountIn) ==
    IF redeemTokensIn > 0
      THEN Truncate(ExchangeRateStored(m) * redeemTokensIn + expScale - 1)
      ELSE redeemAmountIn

RedeemAmount(m, redeemTokensIn, redeemAmountIn) ==
    IF redeemTokensIn > 0
      THEN MulScalarTruncate(ExchangeRateStored(m), redeemTokensIn)
      ELSE redeemAmountIn

RedeemFreshReverts(m, redeemer, redeemTokens, redeemAmount) ==
    \/ BufferTokensReverts(m, redeemer)
    \/ redeemTokens > m.totalSupply
    \/ redeemTokens > m.accountTokens[redeemer]
    \/ DecreaseUserCollateralReverts(m, redeemer, CollateralTokensOf(m, redeemer, redeemTokens))
    \/ redeemTokens = 0 /\ redeemAmount > 0               \* redeemVerify

(* The storage when redeemFresh asks the Joetroller for the second time.   *)
RedeemPaidOut(m, redeemer, redeemTokens, redeemAmount) ==
    [DoTransferOut(m, redeemAmount) EXCEPT
       !.totalSupply = @ - redeemTokens,
       !.accountTokens[redeemer] = @ - redeemTokens]

RedeemFresh(m, redeemer, redeemTokens, redeemAmount) ==
    DecreaseUserCollateral(RedeemPaidOut(m, redeemer, redeemTokens, redeemAmount),
                           redeemer, CollateralTokensOf(m, redeemer, redeemTokens))

(* Mutant of SetAccountBorrows: the index of the snapshot is forgotten. *)
SetPrincipalOnly(m, borrower, principal) ==
    [m EXCEPT !.accountBorrows[borrower].principal = principal]

(***************************************************************************)
(* Borrow and repay.                                                       *)
(***************************************************************************)
SetAccountBorrows(m, borrower, principal) ==
    [m EXCEPT !.accountBorrows[borrower] =
        [principal |-> principal, interestIndex |-> m.borrowIndex]]

(* A borrow or repayment of zero only brings the snapshot up to date. *)
RefreshAccountBorrows(m, borrower) ==
    SetAccountBorrows(m, borrower, BorrowBalanceStored(m, borrower))

BorrowFresh(m, borrower, borrowAmount) ==
    LET m1 == SetAccountBorrows(m, borrower, BorrowBalanceStored(m, borrower) + borrowAmount)
    IN  [DoTransferOut(m1, borrowAmount) EXCEPT !.totalBorrows = @ + borrowAmount]

(* The amount repayBorrowFresh asks the payer for. *)
RepayAmount(m, borrower, repayAmount) ==
    IF repayAmount = UIntMax THEN BorrowBalanceStored(m, borrower) ELSE repayAmount

(* Mutant of RepayBorrowFreshReverts: the borrower's own debt is not looked at. *)
RepayBorrowRevertsOnTotal(m, borrower, actualRepayAmount) ==
    actualRepayAmount > m.totalBorrows

RepayBorrowFreshReverts(m, borrower, actualRepayAmount) ==
    \/ actualRepayAmount > BorrowBalanceStored(m, borrower)
    \/ actualRepayAmount > m.totalBorrows

RepayBorrowFresh(m, borrower, actualRepayAmount) ==
    LET m1 == SetAccountBorrows(m, borrower,
                                BorrowBalanceStored(m, borrower) - actualRepayAmount)
    IN  [DoTransferIn(m1, actualRepayAmount) EXCEPT !.totalBorrows = @ - actualRepayAmount]

(* One account pays paid, another gets got. *)
Moved(balance, payer, paid, payee, got) ==
    [balance EXCEPT ![payer] = @ - paid, ![payee] = @ + got]

(* Mutant of SeizeInternalReverts: tokens that are no collateral are seized. *)
SeizeRevertsOnTokensOnly(m, borrower, seizeTokens) ==
    ExchangeRateReverts(m) \/ seizeTokens > m.accountTokens[borrower]

(***************************************************************************)
(* Seizing collateral: a share of it is burnt and its value kept as        *)
(* reserves.  The liquidator's part is collateral even if the liquidator   *)
(* has not entered the market, and totalCollateralTokens keeps the burnt   *)
(* part.                                                                   *)
(***************************************************************************)
SeizeInternalReverts(m, borrower, seizeTokens) ==
    \/ ExchangeRateReverts(m)
    \/ seizeTokens > m.accountTokens[borrower]
    \/ seizeTokens > m.accountCollateralTokens[borrower]

(* Mutant of SeizeInternal: the liquidator also gets the protocol's share. *)
SeizeAllForLiquidator(m, liquidator, borrower, seizeTokens) ==
    LET protocolSeizeTokens == MulUIntExp(seizeTokens, m.protocolSeizeShareMantissa)
    IN  [m EXCEPT
           !.accountTokens = Moved(@, borrower, seizeTokens, liquidator, seizeTokens),
           !.accountCollateralTokens = Moved(@, borrower, seizeTokens, liquidator, seizeTokens),
           !.totalSupply = @ - protocolSeizeTokens]

SeizeInternal(m, liquidator, borrower, seizeTokens) ==
    LET protocolSeizeTokens   == MulUIntExp(seizeTokens, m.protocolSeizeShareMantissa)
        liquidatorSeizeTokens == seizeTokens - protocolSeizeTokens
        protocolSeizeAmount   == MulScalarTruncate(ExchangeRateStored(m), protocolSeizeTokens)
    IN  [m EXCEPT
           !.accountTokens = Moved(m.accountTokens, borrower, seizeTokens,
                                   liquidator, liquidatorSeizeTokens),
           !.accountCollateralTokens = Moved(m.accountCollateralTokens, borrower, seizeTokens,
                                             liquidator, liquidatorSeizeTokens),
           !.totalReserves = m.totalReserves + protocolSeizeAmount,
           !.totalSupply   = m.totalSupply - protocolSeizeTokens]

(***************************************************************************)
(* Transfers of jTokens.                                                   *)
(***************************************************************************)
TransferTokensReverts(m, spender, src, tokens) ==
    \/ BufferTokensReverts(m, src)
    \/ tokens > m.accountTokens[src]
    \/ /\ spender # src
       /\ m.transferAllowances[src][spender] # UIntMax
       /\ tokens > m.transferAllowances[src][spender]

AllowancesAfter(m, spender, src, tokens) ==
    [m.transferAllowances EXCEPT
       ![src][spender] = IF spender = src \/ @ = UIntMax THEN @ ELSE @ - tokens]

(* Mutant of TransferTokens: the collateral stays with the sender. *)
TransferBalanceOnly(m, spender, src, dst, tokens) ==
    [m EXCEPT !.accountTokens = Moved(@, src, tokens, dst, tokens)]

TransferTokens(m, spender, src, dst, tokens) ==
    LET collateralTokens == CollateralTokensOf(m, src, tokens)
    IN  [m EXCEPT
           !.accountTokens = Moved(m.accountTokens, src, tokens, dst, tokens),
           !.accountCollateralTokens =
               Moved(m.accountCollateralTokens, src, collateralTokens, dst, collateralTokens),
           !.transferAllowances = AllowancesAfter(m, spender, src, tokens)]

(***************************************************************************)
(* Reserves and the unaccounted cash of direct transfers.                  *)
(***************************************************************************)
AddReservesFresh(m, actualAddAmount) ==
    [DoTransferIn(m, actualAddAmount) EXCEPT !.totalReserves = @ + actualAddAmount]

(* Mutant of ReduceReservesFresh: the reserves are paid out but still owed. *)
ReduceReservesCashOnly(m, reduceAmount) == DoTransferOut(m, reduceAmount)

ReduceReservesFresh(m, reduceAmount) ==
    [DoTransferOut(m, reduceAmount) EXCEPT !.totalReserves = @ - reduceAmount]

Gulp(m) ==
    [m EXCEPT !.totalReserves = @ + (m.cashOnChain - m.internalCash),
              !.internalCash  = m.cashOnChain]

(***************************************************************************)
(* What a flash loan remembers while its receiver's callback runs: its     *)
(* local variables, and the storage a revert returns to.                   *)
(***************************************************************************)
NoLoan ==
    [ amount |-> 0, fee |-> 0, cashBefore |-> 0, cashOnChainBefore |-> 0,
      marketBefore |-> InitializedMarket(0), memberBefore |-> {} ]

================================================================================
