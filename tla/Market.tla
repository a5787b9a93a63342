-------------------------------- MODULE Market ---------------------------------
(***************************************************************************)
(* One JCollateralCapErc20 market, its users, its admin and the clock.     *)
(*                                                                         *)
(* The Joetroller is here an environment that may allow or reject any      *)
(* call: what this module shows holds whatever risk policy it follows.     *)
(* The only Joetroller state the market depends on is who entered it, the  *)
(* variable member.  The interest rate model may answer any rate of        *)
(* BorrowRates, the underlying may keep any fee of TransferFees.           *)
(*                                                                         *)
(* A step is a transaction, except that a flash loan takes several: while  *)
(* its receiver's callback runs, notEntered is FALSE, the functions that   *)
(* are nonReentrant cannot be called and the others can.                   *)
(***************************************************************************)
EXTENDS JCollateralCapErc20

CONSTANTS
    Amounts,           \* amounts and token counts that callers pass
    CollateralCaps,    \* values the admin gives to collateralCap
    ReserveFactors,    \* ... to reserveFactorMantissa
    SeizeShares,       \* ... to protocolSeizeShareMantissa
    Allowances,        \* values of approve
    FlashLoanAmounts,  \* amounts of flash loans
    flashFeeBips,      \* the fee of a flash loan is amount * flashFeeBips / bips
    bips,              \* 10000 in the code
    LegacyBalances,    \* jToken balances before the upgrade to a collateral cap
    MaxTokens,         \* bound: jTokens in existence, and jTokens counted as collateral
    MaxBorrows,        \* bound: totalBorrows
    MaxTime            \* bound: the last timestamp

ASSUME MarketInputsAssumption ==
    /\ Amounts \subseteq Nat
    /\ CollateralCaps \subseteq Nat
    /\ ReserveFactors \subseteq Nat
    /\ SeizeShares \subseteq Nat
    /\ Allowances \subseteq Nat \cup {UIntMax}
    /\ FlashLoanAmounts \subseteq Nat
    /\ flashFeeBips \in Nat
    /\ bips \in Nat \ {0}
    /\ LegacyBalances \subseteq Nat
    /\ MaxTokens \in Nat
    /\ MaxBorrows \in Nat
    /\ MaxTime \in Nat

VARIABLES
    market,      \* storage of the market
    member,      \* accounts that entered the market (Joetroller.accountMembership)
    now,         \* block.timestamp
    notEntered,  \* the market's reentrancy guard
    loan         \* the flash loan being executed, while notEntered is FALSE

vars == <<market, member, now, notEntered, loan>>

LoanType ==
    [ amount : Nat, fee : Nat, cashBefore : Nat, cashOnChainBefore : Nat,
      marketBefore : MarketType, memberBefore : SUBSET Account ]

(***************************************************************************)
(* The market starts its life as a collateral cap market either empty or   *)
(* by an upgrade of a market without collateral bookkeeping: accounts may  *)
(* hold tokens and be members, isCollateralTokenInit is FALSE for all, and *)
(* internalCash is set to the balance on chain.                            *)
(***************************************************************************)
LegacyCash(supply) ==
    (initialExchangeRateMantissa * supply + (expScale - 1)) \div expScale

UpgradedMarket(balance) ==
    LET cash == LegacyCash(Total(balance))
    IN  [InitializedMarket(0) EXCEPT
           !.accountTokens = balance,
           !.totalSupply   = Total(balance),
           !.internalCash  = cash,
           !.cashOnChain   = cash]

Init ==
    /\ \E balance \in [Account -> LegacyBalances] :
          /\ market = UpgradedMarket(balance)
          /\ market.cashOnChain <= UnderlyingSupply
    /\ member \in SUBSET Account
    /\ now = 0
    /\ notEntered = TRUE
    /\ loan = NoLoan

(***************************************************************************)
(* What every call starts with.                                            *)
(***************************************************************************)
Accrued(m) == Accruals(m, now)

Initialized(m, account) ==
    InitializeAccountCollateralTokens(m, account, account \in member)

NonReentrant == notEntered /\ UNCHANGED <<now, notEntered, loan>>

(***************************************************************************)
(* Suppliers.                                                              *)
(***************************************************************************)
Mint(minter, mintAmount) ==
    /\ NonReentrant
    /\ \E m0 \in Accrued(market) :
         LET m == Initialized(m0, minter)
         IN  \/ market' = m                  \* rejected, or an amount of zero
             \/ /\ mintAmount > 0
                /\ ~MintFreshReverts(m)
                /\ \E actual \in Received(m, mintAmount) :
                     market' = MintFresh(m, minter, actual, minter \in member)
    /\ UNCHANGED member

(* redeem and redeemUnderlying: one of the two arguments is zero. *)
Redeem(redeemer, redeemTokensIn, redeemAmountIn) ==
    /\ NonReentrant
    /\ redeemTokensIn = 0 \/ redeemAmountIn = 0
    /\ \E m0 \in Accrued(market) :
         LET m      == Initialized(m0, redeemer)
             tokens == RedeemTokens(m, redeemTokensIn, redeemAmountIn)
             amount == RedeemAmount(m, redeemTokensIn, redeemAmountIn)
         IN  /\ ~RedeemTokensReverts(m, redeemTokensIn)
             /\ ~BufferTokensReverts(m, redeemer)
             /\ \/ market' = m               \* rejected, or not enough cash
                \/ /\ amount <= m.internalCash
                   /\ ~RedeemFreshReverts(m, redeemer, tokens, amount)
                   /\ market' = RedeemFresh(m, redeemer, tokens, amount)
    /\ UNCHANGED member

(***************************************************************************)
(* Borrowers.  The Joetroller enters a borrower into the market before it  *)
(* decides, and a rejected borrower stays entered.                         *)
(***************************************************************************)
Borrow(borrower, borrowAmount) ==
    /\ NonReentrant
    /\ \E m0 \in Accrued(market) :
         LET m == IF borrower \in member THEN m0
                  ELSE RegisterCollateral(m0, borrower, FALSE)
         IN  \/ market' = m                  \* rejected, or not enough cash
             \/ borrowAmount = 0 /\ market' = RefreshAccountBorrows(m, borrower)
             \/ /\ borrowAmount > 0
                /\ borrowAmount <= m.internalCash
                /\ market' = BorrowFresh(m, borrower, borrowAmount)
    /\ member' = member \cup {borrower}

(* repayBorrow and repayBorrowBehalf: anyone may pay. *)
RepayBorrow(borrower, repayAmount) ==
    /\ NonReentrant
    /\ \E m \in Accrued(market) :
         \/ repayAmount = 0 /\ market' = RefreshAccountBorrows(m, borrower)
         \/ /\ repayAmount # 0
            /\ \E actual \in Received(m, RepayAmount(m, borrower, repayAmount)) :
                 /\ ~RepayBorrowFreshReverts(m, borrower, actual)
                 /\ market' = RepayBorrowFresh(m, borrower, actual)
    /\ UNCHANGED member

(***************************************************************************)
(* Liquidation.  Seize is the part of a liquidation in another market that *)
(* takes its collateral here; LiquidateBorrow repays and seizes here.      *)
(***************************************************************************)
Seized(m, liquidator, borrower, seizeTokens) ==
    LET m1 == Initialized(Initialized(m, liquidator), borrower)
    IN  IF seizeTokens = 0 THEN {m1}
        ELSE { n \in {SeizeInternal(m1, liquidator, borrower, seizeTokens)} :
                 ~SeizeInternalReverts(m1, borrower, seizeTokens) }

Seize(liquidator, borrower, seizeTokens) ==
    /\ NonReentrant
    /\ liquidator # borrower
    /\ \E m \in Accrued(market) : market' \in Seized(m, liquidator, borrower, seizeTokens)
    /\ UNCHANGED member

LiquidateBorrow(liquidator, borrower, repayAmount, seizeTokens) ==
    /\ NonReentrant
    /\ liquidator # borrower
    /\ repayAmount > 0
    /\ \E m \in Accrued(market) :
         \E actual \in Received(m, repayAmount) :
            /\ ~RepayBorrowFreshReverts(m, borrower, actual)
            /\ seizeTokens <= m.accountTokens[borrower]
            /\ market' \in Seized(RepayBorrowFresh(m, borrower, actual),
                                  liquidator, borrower, seizeTokens)
    /\ UNCHANGED member

(***************************************************************************)
(* jToken transfers.                                                       *)
(***************************************************************************)
Transfer(spender, src, dst, tokens) ==
    /\ NonReentrant
    /\ LET m == Initialized(Initialized(market, src), dst)
       IN  /\ ~BufferTokensReverts(m, src)
           /\ \/ market' = m                 \* rejected, or src = dst
              \/ /\ src # dst
                 /\ ~TransferTokensReverts(m, spender, src, tokens)
                 /\ market' = TransferTokens(m, spender, src, dst, tokens)
    /\ UNCHANGED member

Approve(src, spender, amount) ==
    /\ market' = [market EXCEPT !.transferAllowances[src][spender] = amount]
    /\ UNCHANGED <<member, now, notEntered, loan>>

(***************************************************************************)
(* Entering and leaving the market, through the Joetroller.                *)
(***************************************************************************)
EnterMarket(account) ==
    /\ market' = RegisterCollateral(market, account, account \in member)
    /\ member' = member \cup {account}
    /\ UNCHANGED <<now, notEntered, loan>>

(* Mutant of ExitMarket: the debt is not looked at. *)
ExitMarketOwing(account) ==
    /\ LET m == Initialized(market, account)
       IN  ~DecreaseUserCollateralReverts(m, account, m.accountCollateralTokens[account])
    /\ market' = UnregisterCollateral(market, account, account \in member)
    /\ member' = member \ {account}
    /\ UNCHANGED <<now, notEntered, loan>>

ExitMarket(account) ==
    /\ BorrowBalanceStored(market, account) = 0
    /\ LET m == Initialized(market, account)
       IN  ~DecreaseUserCollateralReverts(m, account, m.accountCollateralTokens[account])
    /\ market' = UnregisterCollateral(market, account, account \in member)
    /\ member' = member \ {account}
    /\ UNCHANGED <<now, notEntered, loan>>

(***************************************************************************)
(* The admin, and anyone's reserves, gulp and direct transfers.            *)
(***************************************************************************)
AddReserves(addAmount) ==
    /\ NonReentrant
    /\ \E m \in Accrued(market) :
         \E actual \in Received(m, addAmount) : market' = AddReservesFresh(m, actual)
    /\ UNCHANGED member

ReduceReserves(reduceAmount) ==
    /\ NonReentrant
    /\ \E m \in Accrued(market) :
         /\ reduceAmount <= m.internalCash
         /\ reduceAmount <= m.totalReserves
         /\ market' = ReduceReservesFresh(m, reduceAmount)
    /\ UNCHANGED member

SetReserveFactor(newReserveFactorMantissa) ==
    /\ NonReentrant
    /\ newReserveFactorMantissa <= reserveFactorMaxMantissa
    /\ \E m \in Accrued(market) :
         market' = [m EXCEPT !.reserveFactorMantissa = newReserveFactorMantissa]
    /\ UNCHANGED member

SetProtocolSeizeShare(newProtocolSeizeShareMantissa) ==
    /\ NonReentrant
    /\ newProtocolSeizeShareMantissa <= protocolSeizeShareMaxMantissa
    /\ \E m \in Accrued(market) :
         market' = [m EXCEPT !.protocolSeizeShareMantissa = newProtocolSeizeShareMantissa]
    /\ UNCHANGED member

SetCollateralCap(newCollateralCap) ==
    /\ market' = [market EXCEPT !.collateralCap = newCollateralCap]
    /\ UNCHANGED <<member, now, notEntered, loan>>

GulpCash ==
    /\ NonReentrant
    /\ market.internalCash <= market.cashOnChain
    /\ market' = Gulp(market)
    /\ UNCHANGED member

(* The admin installs the implementation again, not inside a callback. *)
BecomeImplementation ==
    /\ notEntered
    /\ market' = [market EXCEPT !.internalCash = market.cashOnChain]
    /\ UNCHANGED <<member, now, notEntered, loan>>

(* Someone sends underlying to the market without calling it. *)
Donate(amount) ==
    /\ amount <= UnderlyingSupply - market.cashOnChain
    /\ market' = [market EXCEPT !.cashOnChain = @ + amount]
    /\ UNCHANGED <<member, now, notEntered, loan>>

(* accrueInterest is public and not nonReentrant. *)
Accrue ==
    /\ market' \in Accrued(market)
    /\ UNCHANGED <<member, now, notEntered, loan>>

(***************************************************************************)
(* Flash loans.  FlashLoan runs up to the receiver's callback, which may   *)
(* call whatever is not nonReentrant; then FlashLoanRepay takes the money  *)
(* back, or, if a check fails, FlashLoanRevert undoes the transaction.     *)
(***************************************************************************)
FlashFee(amount) == (amount * flashFeeBips) \div bips

(* Mutant of FlashLoan: the amount lent is not counted as a borrow. *)
FlashLoanOffTheBooks(amount) ==
    /\ notEntered
    /\ amount > 0
    /\ \E m \in Accrued(market) :
         /\ amount <= m.internalCash
         /\ market' = DoTransferOut(m, amount)
         /\ loan' = [ amount            |-> amount,
                      fee               |-> FlashFee(amount),
                      cashBefore        |-> m.internalCash,
                      cashOnChainBefore |-> m.cashOnChain,
                      marketBefore      |-> market,
                      memberBefore      |-> member ]
    /\ notEntered' = FALSE
    /\ UNCHANGED <<member, now>>

FlashLoan(amount) ==
    /\ notEntered
    /\ amount > 0
    /\ \E m \in Accrued(market) :
         /\ amount <= m.internalCash
         /\ market' = [DoTransferOut(m, amount) EXCEPT !.totalBorrows = @ + amount]
         /\ loan' = [ amount            |-> amount,
                      fee               |-> FlashFee(amount),
                      cashBefore        |-> m.internalCash,
                      cashOnChainBefore |-> m.cashOnChain,
                      marketBefore      |-> market,
                      memberBefore      |-> member ]
    /\ notEntered' = FALSE
    /\ UNCHANGED <<member, now>>

(* Mutant of FlashLoanRepay: the balance after the loan is not checked. *)
FlashLoanRepayUnchecked ==
    /\ ~notEntered
    /\ \E actual \in Received(market, loan.amount + loan.fee) :
         LET m == DoTransferIn(market, actual)
         IN  /\ loan.amount <= m.totalBorrows
             /\ market' = [m EXCEPT
                  !.totalReserves = @ + MulScalarTruncate(m.reserveFactorMantissa, loan.fee),
                  !.internalCash  = loan.cashBefore + loan.fee,
                  !.totalBorrows  = @ - loan.amount]
    /\ notEntered' = TRUE
    /\ loan' = NoLoan
    /\ UNCHANGED <<member, now>>

FlashLoanRepay ==
    /\ ~notEntered
    /\ \E actual \in Received(market, loan.amount + loan.fee) :
         LET m == DoTransferIn(market, actual)
         IN  /\ m.cashOnChain = loan.cashOnChainBefore + loan.fee
             /\ loan.amount <= m.totalBorrows
             /\ market' = [m EXCEPT
                  !.totalReserves = @ + MulScalarTruncate(m.reserveFactorMantissa, loan.fee),
                  !.internalCash  = loan.cashBefore + loan.fee,
                  !.totalBorrows  = @ - loan.amount]
    /\ notEntered' = TRUE
    /\ loan' = NoLoan
    /\ UNCHANGED <<member, now>>

FlashLoanRevert ==
    /\ ~notEntered
    /\ market' = loan.marketBefore
    /\ member' = loan.memberBefore
    /\ notEntered' = TRUE
    /\ loan' = NoLoan
    /\ UNCHANGED now

Tick ==
    /\ notEntered
    /\ now < MaxTime
    /\ now' = now + 1
    /\ UNCHANGED <<market, member, notEntered, loan>>

--------------------------------------------------------------------------------

(* The same underlying can be supplied, borrowed and supplied again, so    *)
(* the bound on the underlying bounds neither the supply nor the borrows.  *)
WithinBounds(m) ==
    /\ m.totalSupply <= MaxTokens
    /\ m.totalCollateralTokens <= MaxTokens
    /\ m.totalBorrows <= MaxBorrows

Step ==
    \/ \E a \in Account, amount \in Amounts :
          \/ Mint(a, amount)
          \/ Redeem(a, amount, 0)
          \/ Redeem(a, 0, amount)
          \/ Borrow(a, amount)
    \/ \E a \in Account, amount \in Amounts \cup {UIntMax} : RepayBorrow(a, amount)
    \/ \E liquidator, borrower \in Account, tokens \in Amounts :
          \/ Seize(liquidator, borrower, tokens)
          \/ \E repay \in Amounts : LiquidateBorrow(liquidator, borrower, repay, tokens)
    \/ \E spender, src, dst \in Account, tokens \in Amounts : Transfer(spender, src, dst, tokens)
    \/ \E src, spender \in Account, amount \in Allowances : Approve(src, spender, amount)
    \/ \E a \in Account : EnterMarket(a) \/ ExitMarket(a)
    \/ \E amount \in Amounts :
          \/ AddReserves(amount)
          \/ ReduceReserves(amount)
          \/ Donate(amount)
    \/ \E mantissa \in ReserveFactors : SetReserveFactor(mantissa)
    \/ \E mantissa \in SeizeShares : SetProtocolSeizeShare(mantissa)
    \/ \E cap \in CollateralCaps : SetCollateralCap(cap)
    \/ GulpCash
    \/ BecomeImplementation
    \/ Accrue
    \/ \E amount \in FlashLoanAmounts : FlashLoan(amount)
    \/ FlashLoanRepay
    \/ FlashLoanRevert
    \/ Tick

Next == Step /\ WithinBounds(market')

Spec == Init /\ [][Next]_vars

--------------------------------------------------------------------------------
(***************************************************************************)
(* Properties.                                                             *)
(***************************************************************************)

(* Every variable has its type: no counter is ever negative. *)
TypeOK ==
    /\ market \in MarketType
    /\ member \in SUBSET Account
    /\ now \in Nat
    /\ notEntered \in BOOLEAN
    /\ loan \in LoanType

(* Mint, redeem, transfer and seize keep the supply the sum of the         *)
(* balances, whatever part of a seizure the protocol burns.                *)
SupplyIsSumOfBalances == Total(market.accountTokens) = market.totalSupply

(* The two balances of an account, kept by five different functions, never *)
(* let it have more collateral than tokens: the subtraction that every     *)
(* transfer, redemption and registration starts with does not revert.      *)
CollateralWithinBalance ==
    \A a \in Account : market.accountCollateralTokens[a] <= market.accountTokens[a]

(* The cap is enforced on totalCollateralTokens, which never counts less   *)
(* than the accounts' collateral: the cap cannot be evaded, and            *)
(* decreaseUserCollateralInternal never fails on the total.                *)
CollateralIsCounted ==
    Total(market.accountCollateralTokens) <= market.totalCollateralTokens

(* The cash the market counts on is really there, also while a flash loan  *)
(* is out and after it was paid back.                                      *)
CashIsOnChain == market.internalCash <= market.cashOnChain

(* Who owes anything is a member: leaving the market cannot take a debt    *)
(* out of the Joetroller's sight, also when the debt was rounded.          *)
BorrowersAreMembers ==
    \A a \in Account : market.accountBorrows[a].principal > 0 => a \in member

(* A debt can always be brought up to date: the index of its snapshot is   *)
(* not zero and not ahead of the market's.                                 *)
SnapshotsAreSound ==
    \A a \in Account :
        LET snapshot == market.accountBorrows[a]
        IN  snapshot.principal > 0 =>
              mantissaOne <= snapshot.interestIndex /\ snapshot.interestIndex <= market.borrowIndex

(* A supplier who mints and redeems the same tokens at the same time gets  *)
(* at most what came in: both roundings favour the market.  (The first     *)
(* supplier of a market without supply also owns what rounding left in it.)*)
MintRedeemGainsNothing ==
    \A a \in Account, amount \in Amounts :
        /\ ~MintFreshReverts(market)
        /\ market.totalSupply = 0 => CashPlusBorrowsMinusReserves(market) <= 0
        =>
            LET minted == MintTokens(market, amount)
                after  == MintFresh(market, a, amount, FALSE)
            IN  minted > 0 => RedeemAmount(after, minted, 0) <= amount

(* Only a step that initialises an account of an upgraded market, or the   *)
(* undoing of a transaction, raises the collateral above the cap.          *)
CollateralCapRespected ==
    [][ \/ market'.totalCollateralTokens <= market.totalCollateralTokens
        \/ market'.isCollateralTokenInit # market.isCollateralTokenInit
        \/ market.collateralCap = 0
        \/ market'.totalCollateralTokens <= market.collateralCap
        \/ FlashLoanRevert ]_vars

(* totalCollateralTokens drifts from the accounts' collateral only by a    *)
(* seizure, in this market or with the repayment in another, and by just   *)
(* what it burns of the seized tokens for the protocol: the supply falls   *)
(* by the same tokens, and the market pays no cash for them.               *)
CollateralDrift(m) == m.totalCollateralTokens - Total(m.accountCollateralTokens)

Seizes(tokens) ==
    \E liquidator, borrower \in Account :
        \/ Seize(liquidator, borrower, tokens)
        \/ \E repay \in Amounts : LiquidateBorrow(liquidator, borrower, repay, tokens)

BurntBySeizure ==
    \E tokens \in Amounts :
        LET burnt == MulUIntExp(tokens, market.protocolSeizeShareMantissa)
        IN  /\ Seizes(tokens)
            /\ CollateralDrift(market') - CollateralDrift(market) = burnt
            /\ market.totalSupply - market'.totalSupply = burnt
            /\ market'.internalCash >= market.internalCash

CollateralDriftsBySeizureOnly ==
    [][ CollateralDrift(market') = CollateralDrift(market) \/ BurntBySeizure ]_vars

(* The exchange rate between jTokens and underlying never falls while      *)
(* there is a supply, except by redeemUnderlying, whose tokens are rounded *)
(* down, and by undoing a flash loan.                                      *)
ExchangeRateNeverFalls ==
    [][ \/ market.totalSupply = 0 \/ market'.totalSupply = 0
        \/ ExchangeRateStored(market') >= ExchangeRateStored(market)
        \/ \E a \in Account, amount \in Amounts : Redeem(a, 0, amount)
        \/ FlashLoanRevert ]_vars

(* Reserves that are covered by cash and borrows stay covered, unless the  *)
(* last jToken is redeemed or a flash loan, with the interest it accrued,  *)
(* is undone: the exchange rate of a market with a supply does not start   *)
(* to revert.                                                              *)
ReservesStayCovered ==
    [][ \/ CashPlusBorrowsMinusReserves(market) >= 0 /\ market'.totalSupply > 0 =>
              CashPlusBorrowsMinusReserves(market') >= 0
        \/ FlashLoanRevert ]_vars

(* While a flash loan is out the exchange rate is what it was, so the      *)
(* Joetroller values collateral no differently inside the callback.        *)
FlashLoanKeepsExchangeRate ==
    [][ ~notEntered' /\ market.accrualBlockTimestamp = now =>
            ExchangeRateStored(market') = ExchangeRateStored(market) ]_vars

(* The cash the market does not count comes from direct transfers only.    *)
(* It goes to the reserves, all of it and with nothing for the suppliers,  *)
(* by gulp; or to the suppliers, with nothing for the reserves, when the   *)
(* admin installs the implementation again; and a flash loan returns it to *)
(* what it was.                                                            *)
ExcessCash(m) == m.cashOnChain - m.internalCash

Donated ==
    /\ market' = [market EXCEPT !.cashOnChain = market'.cashOnChain]
    /\ market'.cashOnChain >= market.cashOnChain

ExcessCounted(toReserves, toSuppliers) ==
    /\ ExcessCash(market') = 0
    /\ market'.totalReserves = market.totalReserves + toReserves
    /\ CashPlusBorrowsMinusReserves(market')
          = CashPlusBorrowsMinusReserves(market) + toSuppliers

ExcessCashOnlyDonated ==
    [][ \/ ExcessCash(market') = ExcessCash(market)
        \/ Donated
        \/ ExcessCounted(ExcessCash(market), 0)
        \/ BecomeImplementation /\ ExcessCounted(0, ExcessCash(market))
        \/ /\ ~notEntered /\ notEntered'           \* a flash loan ends
           /\ ExcessCash(market') = loan.cashOnChainBefore - loan.cashBefore ]_vars

--------------------------------------------------------------------------------
(***************************************************************************)
(* What the comments on the storage variables say, and the code does not   *)
(* keep: the runs MCMarketDoc*.cfg show how.                               *)
(***************************************************************************)

(* JTokenInterfaces.sol:143, totalCollateralTokens is the "Total number of *)
(* tokens used as collateral in circulation".  The share of a seizure that *)
(* the protocol burns stays in it.                                         *)
CollateralIsTotal ==
    Total(market.accountCollateralTokens) = market.totalCollateralTokens

(* JTokenInterfaces.sol:82, totalBorrows is the "Total amount of           *)
(* outstanding borrows".  It and the accounts' debts are rounded apart.    *)
DebtsAreInTotalBorrows ==
    Total([a \in Account |-> BorrowBalanceStored(market, a)]) <= market.totalBorrows

(* JTokenInterfaces.sol:149, "If collateral cap is not set, the value      *)
(* should be equal to accountTokens".  Who has not entered the market has  *)
(* tokens and no collateral.                                               *)
WithoutCapAllTokensAreCollateral ==
    market.collateralCap = 0 =>
        \A a \in Account :
            market.isCollateralTokenInit[a] =>
                market.accountCollateralTokens[a] = market.accountTokens[a]

================================================================================
