------------------------------ MODULE MarketProofs ------------------------------
(***************************************************************************)
(* Theorems about every behaviour of one market: for every set of          *)
(* accounts, every scale of the arithmetic, all inputs and all answers of  *)
(* the Joetroller, the interest rate model and the underlying.             *)
(*                                                                         *)
(* The argument is one inductive invariant, Inv: the storage is sound, and *)
(* while a flash loan is out so is the storage its revert would restore.   *)
(* JCollateralCapErc20Proofs shows that each function keeps a storage      *)
(* sound; here is one lemma per action.  The action properties come        *)
(* second, and what a supplier can gain.                                   *)
(***************************************************************************)
EXTENDS Market, JCollateralCapErc20Proofs

LoanIsSound ==
    ~notEntered =>
        /\ Sound(loan.marketBefore, loan.memberBefore, now)
        /\ loan.cashBefore <= loan.cashOnChainBefore

Inv ==
    /\ Sound(market, member, now)
    /\ member \in SUBSET Account
    /\ now \in Nat
    /\ notEntered \in BOOLEAN
    /\ loan \in LoanType
    /\ LoanIsSound

--------------------------------------------------------------------------------
(***************************************************************************)
(* The initial states.                                                     *)
(***************************************************************************)
LEMMA NoLoanType ==
    NoLoan \in LoanType
BY EmptyMarketType DEF NoLoan, LoanType

LEMMA UpgradedMarketIsSound ==
    ASSUME NEW balance \in [Account -> LegacyBalances], NEW mem
    PROVE  Sound(UpgradedMarket(balance), mem, 0)
PROOF
  <1> DEFINE m == InitializedMarket(0)
             supply == Total(balance)
             cash == LegacyCash(supply)
             n == [m EXCEPT !.accountTokens = balance, !.totalSupply = supply,
                            !.internalCash = cash, !.cashOnChain = cash]
             none == [a \in Account |-> 0]
  <1>1. balance \in Balances /\ balance \in [Account -> Nat]
    BY MarketInputsAssumption DEF Balances
  <1>2. supply \in Nat
    BY <1>1, TotalType
  <1> HIDE DEF supply
  <1>3. cash \in Nat
    <2>1. initialExchangeRateMantissa * supply + (expScale - 1) \in Nat
      BY <1>2, MarketAssumption, ExpScaleAssumption
    <2> QED
      BY <2>1, ExpScaleAssumption, QuotientOfNat DEF LegacyCash
  <1> HIDE DEF cash
  <1>4. m \in MarketType
    BY EmptyMarketType
  <1>5. /\ m.accountCollateralTokens = none /\ m.totalCollateralTokens = 0
        /\ m.borrowIndex = mantissaOne /\ m.accrualBlockTimestamp = 0
        /\ \A a \in Account : m.accountBorrows[a].principal = 0
    BY DEF InitializedMarket
  <1> HIDE DEF m
  <1>6. n \in MarketType
    BY <1>1, <1>2, <1>3, <1>4, FieldUpdates, Zenon
  <1>7. /\ n.accountTokens = balance /\ n.totalSupply = supply
        /\ n.internalCash = cash /\ n.cashOnChain = cash
        /\ n.accountCollateralTokens = m.accountCollateralTokens
        /\ n.totalCollateralTokens = m.totalCollateralTokens
        /\ n.borrowIndex = m.borrowIndex /\ n.accountBorrows = m.accountBorrows
        /\ n.accrualBlockTimestamp = m.accrualBlockTimestamp
    BY <1>4 DEF MarketType
  <1>8. n = UpgradedMarket(balance)
    BY Zenon DEF UpgradedMarket, m, supply, cash
  <1> HIDE DEF n
  <1>9. Total(none) = 0
    BY TotalOfNothing
  <1>10. SupplyAddsUp(n)
    BY <1>7 DEF SupplyAddsUp, supply
  <1>11. CollateralHeld(n)
    BY <1>1, <1>5, <1>7 DEF CollateralHeld
  <1>12. CollateralCounted(n)
    <2> HIDE DEF none
    <2> QED
      BY <1>5, <1>7, <1>9 DEF CollateralCounted
  <1>13. CashHeld(n)
    BY <1>3, <1>7 DEF CashHeld
  <1>14. DebtorsAreIn(n, mem)
    BY <1>5, <1>7 DEF DebtorsAreIn
  <1>15. IndexesInOrder(n)
    BY <1>5, <1>7, ExpScaleAssumption DEF IndexesInOrder, mantissaOne
  <1>16. AccruedInThePast(n, 0)
    BY <1>5, <1>7 DEF AccruedInThePast
  <1> QED
    BY <1>6, <1>8, <1>10, <1>11, <1>12, <1>13, <1>14, <1>15, <1>16 DEF Sound

LEMMA InitInv ==
    Init => Inv
PROOF
  <1> SUFFICES ASSUME Init PROVE Inv
    OBVIOUS
  <1>1. PICK balance \in [Account -> LegacyBalances] : market = UpgradedMarket(balance)
    BY DEF Init
  <1>2. Sound(market, member, now)
    BY <1>1, UpgradedMarketIsSound DEF Init
  <1> QED
    BY <1>2, NoLoanType DEF Init, Inv, LoanIsSound

--------------------------------------------------------------------------------
(***************************************************************************)
(* What every call starts with.                                            *)
(***************************************************************************)
LEMMA AccruedIsSound ==
    ASSUME Inv, NEW m \in Accrued(market)
    PROVE  Sound(m, member, now)
PROOF
  <1>1. PICK rate \in BorrowRates : m = AccrueInterest(market, now, rate)
    BY DEF Accrued, Accruals
  <1> QED
    BY <1>1, AccrueInterestIsSound DEF Inv

LEMMA InitializedIsSound ==
    ASSUME NEW m, Sound(m, member, now), NEW a \in Account
    PROVE  Sound(Initialized(m, a), member, now)
PROOF
  <1> DEFINE isMember == a \in member
  <1>1. isMember \in BOOLEAN
    OBVIOUS
  <1> HIDE DEF isMember
  <1>2. Sound(InitializeAccountCollateralTokens(m, a, isMember), member, now)
    BY <1>1, InitializeIsSound
  <1> QED
    BY <1>2 DEF Initialized, isMember

(* A call that leaves the guard and the loan alone only has to leave a     *)
(* sound storage.                                                          *)
LEMMA CallKeepsInv ==
    ASSUME Inv, UNCHANGED <<now, notEntered, loan>>,
           Sound(market', member', now), member' \in SUBSET Account
    PROVE  Inv'
BY DEF Inv, LoanIsSound

--------------------------------------------------------------------------------
(***************************************************************************)
(* Suppliers.                                                              *)
(***************************************************************************)
LEMMA MintKeepsInv ==
    ASSUME Inv, NEW a \in Account, NEW amount \in Amounts, Mint(a, amount)
    PROVE  Inv'
PROOF
  <1>1. PICK m0 \in Accrued(market) :
          \/ market' = Initialized(m0, a)
          \/ /\ ~MintFreshReverts(Initialized(m0, a))
             /\ \E actual \in Received(Initialized(m0, a), amount) :
                  market' = MintFresh(Initialized(m0, a), a, actual, a \in member)
    BY DEF Mint
  <1> DEFINE m == Initialized(m0, a)
             isMember == a \in member
  <1>2. Sound(m, member, now)
    BY AccruedIsSound, InitializedIsSound
  <1> HIDE DEF m
  <1>3. ASSUME NEW actual \in Received(m, amount), ~MintFreshReverts(m),
               market' = MintFresh(m, a, actual, isMember)
        PROVE  Sound(market', member, now)
    <2>1. actual \in Nat
      BY <1>2, MarketInputsAssumption, ReceivedType DEF Sound
    <2>2. isMember \in BOOLEAN
      OBVIOUS
    <2> HIDE DEF isMember
    <2> QED
      BY <1>2, <1>3, <2>1, <2>2, MintIsSound
  <1>4. Sound(market', member, now)
    BY <1>1, <1>2, <1>3 DEF m
  <1> QED
    BY <1>4, CallKeepsInv DEF Mint, NonReentrant, Inv

LEMMA RedeemKeepsInv ==
    ASSUME Inv, NEW a \in Account, NEW tokensIn \in Nat, NEW amountIn \in Nat,
           Redeem(a, tokensIn, amountIn)
    PROVE  Inv'
PROOF
  <1>1. PICK m0 \in Accrued(market) :
          LET m      == Initialized(m0, a)
              tokens == RedeemTokens(m, tokensIn, amountIn)
              amount == RedeemAmount(m, tokensIn, amountIn)
          IN  /\ ~RedeemTokensReverts(m, tokensIn)
              /\ \/ market' = m
                 \/ /\ amount <= m.internalCash
                    /\ ~RedeemFreshReverts(m, a, tokens, amount)
                    /\ market' = RedeemFresh(m, a, tokens, amount)
    BY DEF Redeem
  <1> DEFINE m      == Initialized(m0, a)
             tokens == RedeemTokens(m, tokensIn, amountIn)
             amount == RedeemAmount(m, tokensIn, amountIn)
  <1>2. Sound(m, member, now)
    BY AccruedIsSound, InitializedIsSound
  <1> HIDE DEF m
  <1>3. tokens \in Nat /\ amount \in Nat
    BY <1>1, <1>2, RedeemTypes DEF Sound, m
  <1> HIDE DEF tokens, amount
  <1>4. Sound(market', member, now)
    <2>1. \/ market' = m
          \/ /\ amount <= m.internalCash
             /\ ~RedeemFreshReverts(m, a, tokens, amount)
             /\ market' = RedeemFresh(m, a, tokens, amount)
      BY <1>1 DEF m, tokens, amount
    <2> QED
      BY <1>2, <1>3, <2>1, RedeemIsSound
  <1> QED
    BY <1>4, CallKeepsInv DEF Redeem, NonReentrant, Inv

(***************************************************************************)
(* Borrowers.                                                              *)
(***************************************************************************)
LEMMA BorrowKeepsInv ==
    ASSUME Inv, NEW a \in Account, NEW amount \in Amounts, Borrow(a, amount)
    PROVE  Inv'
PROOF
  <1>1. PICK m0 \in Accrued(market) :
          LET m == IF a \in member THEN m0 ELSE RegisterCollateral(m0, a, FALSE)
          IN  \/ market' = m
              \/ market' = RefreshAccountBorrows(m, a)
              \/ /\ amount <= m.internalCash
                 /\ market' = BorrowFresh(m, a, amount)
    BY DEF Borrow
  <1> DEFINE m == IF a \in member THEN m0 ELSE RegisterCollateral(m0, a, FALSE)
             newMember == member \cup {a}
  <1>2. Sound(m, member, now)
    <2>1. Sound(m0, member, now)
      BY AccruedIsSound
    <2>2. Sound(RegisterCollateral(m0, a, FALSE), member, now)
      BY <2>1, RegisterIsSound
    <2> QED
      BY <2>1, <2>2
  <1>3. \/ market' = m
        \/ market' = RefreshAccountBorrows(m, a)
        \/ amount <= m.internalCash /\ market' = BorrowFresh(m, a, amount)
    BY <1>1
  <1> HIDE DEF m
  <1>4. member \subseteq newMember /\ a \in newMember
    OBVIOUS
  <1>5. member' = newMember /\ newMember \in SUBSET Account
    BY DEF Borrow, Inv
  <1> HIDE DEF newMember
  <1>6. Sound(m, newMember, now)
    BY <1>2, <1>4 DEF Sound, DebtorsAreIn
  <1>7. Sound(RefreshAccountBorrows(m, a), newMember, now)
    BY <1>2, <1>4, RefreshIsSound
  <1>8. amount <= m.internalCash => Sound(BorrowFresh(m, a, amount), newMember, now)
    BY <1>2, <1>4, MarketInputsAssumption, BorrowIsSound
  <1>9. Sound(market', member', now)
    BY <1>3, <1>5, <1>6, <1>7, <1>8
  <1> QED
    BY <1>5, <1>9, CallKeepsInv DEF Borrow, NonReentrant

LEMMA RepayBorrowKeepsInv ==
    ASSUME Inv, NEW a \in Account, NEW repayAmount \in Amounts \cup {UIntMax},
           RepayBorrow(a, repayAmount)
    PROVE  Inv'
PROOF
  <1>1. PICK m \in Accrued(market) :
          \/ market' = RefreshAccountBorrows(m, a)
          \/ \E actual \in Received(m, RepayAmount(m, a, repayAmount)) :
               /\ ~RepayBorrowFreshReverts(m, a, actual)
               /\ market' = RepayBorrowFresh(m, a, actual)
    BY DEF RepayBorrow
  <1>2. Sound(m, member, now)
    BY AccruedIsSound
  <1>3. RepayAmount(m, a, repayAmount) \in Nat
    BY <1>2, MarketInputsAssumption, RepayAmountType
  <1>4. Received(m, RepayAmount(m, a, repayAmount)) \subseteq Nat
    BY <1>2, <1>3, ReceivedType DEF Sound
  <1>5. Sound(RefreshAccountBorrows(m, a), member, now)
    BY <1>2, RefreshIsSound
  <1>6. Sound(market', member, now)
    BY <1>1, <1>2, <1>4, <1>5, RepayBorrowIsSound
  <1> QED
    BY <1>6, CallKeepsInv DEF RepayBorrow, NonReentrant, Inv

(***************************************************************************)
(* Liquidation and transfers.                                              *)
(***************************************************************************)
LEMMA SeizedIsSound ==
    ASSUME NEW m, Sound(m, member, now), NEW liquidator \in Account, NEW borrower \in Account,
           liquidator # borrower, NEW tokens \in Nat,
           NEW n \in Seized(m, liquidator, borrower, tokens)
    PROVE  Sound(n, member, now)
PROOF
  <1> DEFINE m1 == Initialized(Initialized(m, liquidator), borrower)
  <1>1. Sound(m1, member, now)
    BY InitializedIsSound
  <1>2. \/ n = m1
        \/ /\ ~SeizeInternalReverts(m1, borrower, tokens)
           /\ n = SeizeInternal(m1, liquidator, borrower, tokens)
    BY DEF Seized
  <1> HIDE DEF m1
  <1> QED
    BY <1>1, <1>2, SeizeIsSound

LEMMA SeizeKeepsInv ==
    ASSUME Inv, NEW liquidator \in Account, NEW borrower \in Account, NEW tokens \in Amounts,
           Seize(liquidator, borrower, tokens)
    PROVE  Inv'
PROOF
  <1>1. PICK m \in Accrued(market) : market' \in Seized(m, liquidator, borrower, tokens)
    BY DEF Seize
  <1>2. Sound(m, member, now)
    BY AccruedIsSound
  <1>3. liquidator # borrower /\ tokens \in Nat
    BY MarketInputsAssumption DEF Seize
  <1>4. Sound(market', member, now)
    BY <1>1, <1>2, <1>3, SeizedIsSound
  <1> QED
    BY <1>4, CallKeepsInv DEF Seize, NonReentrant, Inv

LEMMA LiquidateBorrowKeepsInv ==
    ASSUME Inv, NEW liquidator \in Account, NEW borrower \in Account,
           NEW repayAmount \in Amounts, NEW tokens \in Amounts,
           LiquidateBorrow(liquidator, borrower, repayAmount, tokens)
    PROVE  Inv'
PROOF
  <1>1. PICK m \in Accrued(market) :
          \E actual \in Received(m, repayAmount) :
            /\ ~RepayBorrowFreshReverts(m, borrower, actual)
            /\ market' \in Seized(RepayBorrowFresh(m, borrower, actual),
                                  liquidator, borrower, tokens)
    BY DEF LiquidateBorrow
  <1>2. PICK actual \in Received(m, repayAmount) :
            /\ ~RepayBorrowFreshReverts(m, borrower, actual)
            /\ market' \in Seized(RepayBorrowFresh(m, borrower, actual),
                                  liquidator, borrower, tokens)
    BY <1>1
  <1>3. Sound(m, member, now)
    BY AccruedIsSound
  <1>4. actual \in Nat
    BY <1>2, <1>3, MarketInputsAssumption, ReceivedType DEF Sound
  <1>5. Sound(RepayBorrowFresh(m, borrower, actual), member, now)
    BY <1>2, <1>3, <1>4, RepayBorrowIsSound
  <1>6. liquidator # borrower /\ tokens \in Nat
    BY MarketInputsAssumption DEF LiquidateBorrow
  <1>7. Sound(market', member, now)
    BY <1>2, <1>5, <1>6, SeizedIsSound
  <1> QED
    BY <1>7, CallKeepsInv DEF LiquidateBorrow, NonReentrant, Inv

LEMMA TransferKeepsInv ==
    ASSUME Inv, NEW spender \in Account, NEW src \in Account, NEW dst \in Account,
           NEW tokens \in Amounts, Transfer(spender, src, dst, tokens)
    PROVE  Inv'
PROOF
  <1> DEFINE m == Initialized(Initialized(market, src), dst)
  <1>1. Sound(m, member, now)
    BY InitializedIsSound DEF Inv
  <1>2. \/ market' = m
        \/ /\ src # dst
           /\ ~TransferTokensReverts(m, spender, src, tokens)
           /\ market' = TransferTokens(m, spender, src, dst, tokens)
    BY DEF Transfer
  <1> HIDE DEF m
  <1>3. Sound(market', member, now)
    BY <1>1, <1>2, MarketInputsAssumption, TransferIsSound
  <1> QED
    BY <1>3, CallKeepsInv DEF Transfer, NonReentrant, Inv

LEMMA ApproveKeepsInv ==
    ASSUME Inv, NEW src \in Account, NEW spender \in Account, NEW amount \in Allowances,
           Approve(src, spender, amount)
    PROVE  Inv'
PROOF
  <1> DEFINE allowances == [market.transferAllowances EXCEPT ![src][spender] = amount]
  <1>1. market.transferAllowances \in [Account -> [Account -> Nat \cup {UIntMax}]]
    BY DEF Inv, Sound, MarketType
  <1>2. allowances \in [Account -> [Account -> Nat \cup {UIntMax}]]
    BY <1>1, MarketInputsAssumption
  <1>3. market' = [market EXCEPT !.transferAllowances = allowances]
    BY DEF Approve
  <1> HIDE DEF allowances
  <1>4. Sound([market EXCEPT !.transferAllowances = allowances], member, now)
    BY <1>2, OtherFieldsAreSound DEF Inv
  <1> QED
    BY <1>3, <1>4, CallKeepsInv DEF Approve, Inv

(***************************************************************************)
(* Entering and leaving.                                                   *)
(***************************************************************************)
LEMMA EnterMarketKeepsInv ==
    ASSUME Inv, NEW a \in Account, EnterMarket(a)
    PROVE  Inv'
PROOF
  <1> DEFINE isMember == a \in member
  <1>1. isMember \in BOOLEAN
    OBVIOUS
  <1>2. market' = RegisterCollateral(market, a, isMember)
    BY DEF EnterMarket
  <1> HIDE DEF isMember
  <1>3. Sound(market', member, now)
    BY <1>1, <1>2, RegisterIsSound DEF Inv
  <1>4. member \subseteq member' /\ member' \in SUBSET Account
    BY DEF EnterMarket, Inv
  <1>5. Sound(market', member', now)
    BY <1>3, <1>4 DEF Sound, DebtorsAreIn
  <1> QED
    BY <1>4, <1>5, CallKeepsInv DEF EnterMarket

(* Who leaves owes nothing: a debt that is worth zero has a principal of   *)
(* zero, because its snapshot is not ahead of the index.                   *)
LEMMA ExitMarketKeepsInv ==
    ASSUME Inv, NEW a \in Account, ExitMarket(a)
    PROVE  Inv'
PROOF
  <1> DEFINE isMember == a \in member
             m1 == InitializeAccountCollateralTokens(market, a, isMember)
  <1>1. isMember \in BOOLEAN
    OBVIOUS
  <1>2. /\ market' = UnregisterCollateral(market, a, isMember)
        /\ ~DecreaseUserCollateralReverts(m1, a, m1.accountCollateralTokens[a])
    BY DEF ExitMarket, Initialized
  <1> HIDE DEF isMember
  <1>3. Sound(market', member, now)
    BY <1>1, <1>2, UnregisterIsSound DEF Inv
  <1>4. market.accountBorrows[a].principal = 0
    <2>1. market.accountBorrows[a].principal \in Nat
      BY DEF Inv, Sound, MarketType, BorrowSnapshot
    <2>2. market.accountBorrows[a].principal <= 0
      BY BorrowBalanceType DEF ExitMarket, Inv
    <2> QED
      BY <2>1, <2>2
  <1>5. market'.accountBorrows = market.accountBorrows
    BY <1>1, <1>2, UnregisterKeepsDebts DEF Inv, Sound
  <1>6. member' = member \ {a} /\ member' \in SUBSET Account
    BY DEF ExitMarket, Inv
  <1>7. DebtorsAreIn(market', member')
    BY <1>3, <1>4, <1>5, <1>6 DEF Sound, DebtorsAreIn
  <1>8. Sound(market', member', now)
    BY <1>3, <1>7 DEF Sound
  <1> QED
    BY <1>6, <1>8, CallKeepsInv DEF ExitMarket

(***************************************************************************)
(* The admin, reserves and direct transfers.                               *)
(***************************************************************************)
LEMMA AddReservesKeepsInv ==
    ASSUME Inv, NEW amount \in Amounts, AddReserves(amount)
    PROVE  Inv'
PROOF
  <1>1. PICK m \in Accrued(market) :
          \E actual \in Received(m, amount) : market' = AddReservesFresh(m, actual)
    BY DEF AddReserves
  <1>2. Sound(m, member, now)
    BY AccruedIsSound
  <1>3. Received(m, amount) \subseteq Nat
    BY <1>2, MarketInputsAssumption, ReceivedType DEF Sound
  <1>4. Sound(market', member, now)
    BY <1>1, <1>2, <1>3, AddReservesIsSound
  <1> QED
    BY <1>4, CallKeepsInv DEF AddReserves, NonReentrant, Inv

LEMMA ReduceReservesKeepsInv ==
    ASSUME Inv, NEW amount \in Amounts, ReduceReserves(amount)
    PROVE  Inv'
PROOF
  <1>1. PICK m \in Accrued(market) :
          /\ amount <= m.internalCash /\ amount <= m.totalReserves
          /\ market' = ReduceReservesFresh(m, amount)
    BY DEF ReduceReserves
  <1>2. Sound(m, member, now)
    BY AccruedIsSound
  <1>3. Sound(market', member, now)
    BY <1>1, <1>2, MarketInputsAssumption, ReduceReservesIsSound
  <1> QED
    BY <1>3, CallKeepsInv DEF ReduceReserves, NonReentrant, Inv

LEMMA SetReserveFactorKeepsInv ==
    ASSUME Inv, NEW mantissa \in ReserveFactors, SetReserveFactor(mantissa)
    PROVE  Inv'
PROOF
  <1>1. PICK m \in Accrued(market) : market' = [m EXCEPT !.reserveFactorMantissa = mantissa]
    BY DEF SetReserveFactor
  <1>2. mantissa \in 0 .. reserveFactorMaxMantissa
    BY MarketAssumption, MarketInputsAssumption, ExpScaleAssumption DEF SetReserveFactor
  <1>3. Sound(market', member, now)
    BY <1>1, <1>2, AccruedIsSound, OtherFieldsAreSound
  <1> QED
    BY <1>3, CallKeepsInv DEF SetReserveFactor, NonReentrant, Inv

LEMMA SetProtocolSeizeShareKeepsInv ==
    ASSUME Inv, NEW mantissa \in SeizeShares, SetProtocolSeizeShare(mantissa)
    PROVE  Inv'
PROOF
  <1>1. PICK m \in Accrued(market) :
          market' = [m EXCEPT !.protocolSeizeShareMantissa = mantissa]
    BY DEF SetProtocolSeizeShare
  <1>2. mantissa \in 0 .. protocolSeizeShareMaxMantissa
    BY MarketAssumption, MarketInputsAssumption, ExpScaleAssumption DEF SetProtocolSeizeShare
  <1>3. Sound(market', member, now)
    BY <1>1, <1>2, AccruedIsSound, OtherFieldsAreSound
  <1> QED
    BY <1>3, CallKeepsInv DEF SetProtocolSeizeShare, NonReentrant, Inv

LEMMA SetCollateralCapKeepsInv ==
    ASSUME Inv, NEW cap \in CollateralCaps, SetCollateralCap(cap)
    PROVE  Inv'
PROOF
  <1>1. Sound([market EXCEPT !.collateralCap = cap], member, now)
    BY MarketInputsAssumption, OtherFieldsAreSound DEF Inv
  <1> QED
    BY <1>1, CallKeepsInv DEF SetCollateralCap, Inv

LEMMA GulpCashKeepsInv ==
    ASSUME Inv, GulpCash
    PROVE  Inv'
PROOF
  <1>1. Sound(Gulp(market), member, now)
    BY GulpIsSound DEF Inv
  <1> QED
    BY <1>1, CallKeepsInv DEF GulpCash, NonReentrant, Inv

LEMMA BecomeImplementationKeepsInv ==
    ASSUME Inv, BecomeImplementation
    PROVE  Inv'
PROOF
  <1>1. market.cashOnChain \in Nat /\ market.cashOnChain <= market.cashOnChain
    BY MoneyTypes DEF Inv, Sound
  <1>2. Sound([market EXCEPT !.internalCash = market.cashOnChain], member, now)
    BY <1>1, CountCashIsSound DEF Inv
  <1> QED
    BY <1>2, CallKeepsInv DEF BecomeImplementation, Inv

LEMMA DonateKeepsInv ==
    ASSUME Inv, NEW amount \in Amounts, Donate(amount)
    PROVE  Inv'
PROOF
  <1> DEFINE onChain == market.cashOnChain + amount
             counted == market.internalCash
  <1>1. onChain \in Nat /\ counted \in Nat /\ counted <= onChain
    BY MoneyTypes, MarketInputsAssumption DEF Inv, Sound, CashHeld
  <1>2. market' = [market EXCEPT !.cashOnChain = onChain, !.internalCash = counted]
    BY DEF Donate, Inv, Sound, MarketType
  <1> HIDE DEF onChain, counted
  <1>3. Sound([market EXCEPT !.cashOnChain = onChain, !.internalCash = counted], member, now)
    BY <1>1, CashIsSound DEF Inv
  <1> QED
    BY <1>2, <1>3, CallKeepsInv DEF Donate, Inv

LEMMA AccrueKeepsInv ==
    ASSUME Inv, Accrue
    PROVE  Inv'
PROOF
  <1>1. Sound(market', member, now)
    BY AccruedIsSound DEF Accrue
  <1> QED
    BY <1>1, CallKeepsInv DEF Accrue, Inv

(***************************************************************************)
(* Flash loans and time.                                                   *)
(***************************************************************************)
LEMMA FlashFeeType ==
    ASSUME NEW amount \in Nat
    PROVE  FlashFee(amount) \in Nat
PROOF
  <1>1. amount * flashFeeBips \in Nat /\ bips \in Nat \ {0}
    BY MarketInputsAssumption
  <1> QED
    BY <1>1, QuotientOfNat DEF FlashFee

LEMMA FlashLoanKeepsInv ==
    ASSUME Inv, NEW amount \in FlashLoanAmounts, FlashLoan(amount)
    PROVE  Inv'
PROOF
  <1>1. PICK m \in Accrued(market) :
         /\ amount <= m.internalCash
         /\ market' = [DoTransferOut(m, amount) EXCEPT !.totalBorrows = @ + amount]
         /\ loan' = [ amount            |-> amount,
                      fee               |-> FlashFee(amount),
                      cashBefore        |-> m.internalCash,
                      cashOnChainBefore |-> m.cashOnChain,
                      marketBefore      |-> market,
                      memberBefore      |-> member ]
    BY DEF FlashLoan
  <1> DEFINE m1 == DoTransferOut(m, amount)
             borrows == m1.totalBorrows + amount
  <1>2. Sound(m, member, now)
    BY AccruedIsSound
  <1>3. amount \in Nat
    BY MarketInputsAssumption
  <1>4. Sound(m1, member, now)
    BY <1>1, <1>2, <1>3, TransferOutIsSound
  <1>5. market' = [m1 EXCEPT !.totalBorrows = borrows]
    BY <1>1
  <1> HIDE DEF m1
  <1>6. borrows \in Nat
    BY <1>3, <1>4, MoneyTypes DEF Sound
  <1> HIDE DEF borrows
  <1>7. Sound(market', member, now)
    BY <1>4, <1>5, <1>6, OtherFieldsAreSound
  <1>8. loan' \in LoanType
    <2>1. /\ m.internalCash \in Nat /\ m.cashOnChain \in Nat
          /\ FlashFee(amount) \in Nat /\ market \in MarketType
      BY <1>2, <1>3, MoneyTypes, FlashFeeType DEF Sound, Inv
    <2> QED
      BY <1>1, <1>3, <2>1 DEF LoanType, Inv
  <1>9. LoanIsSound'
    BY <1>1, <1>2 DEF LoanIsSound, Inv, Sound, CashHeld, FlashLoan
  <1> QED
    BY <1>7, <1>8, <1>9 DEF FlashLoan, Inv

LEMMA FlashLoanRepayKeepsInv ==
    ASSUME Inv, FlashLoanRepay
    PROVE  Inv'
PROOF
  <1>1. PICK actual \in Received(market, loan.amount + loan.fee) :
         LET m == DoTransferIn(market, actual)
         IN  /\ m.cashOnChain = loan.cashOnChainBefore + loan.fee
             /\ loan.amount <= m.totalBorrows
             /\ market' = [m EXCEPT
                  !.totalReserves = @ + MulScalarTruncate(m.reserveFactorMantissa, loan.fee),
                  !.internalCash  = loan.cashBefore + loan.fee,
                  !.totalBorrows  = @ - loan.amount]
    BY DEF FlashLoanRepay
  <1> DEFINE m == DoTransferIn(market, actual)
             reserves == m.totalReserves + MulScalarTruncate(m.reserveFactorMantissa, loan.fee)
             m1 == [m EXCEPT !.totalReserves = reserves]
             counted == loan.cashBefore + loan.fee
             m2 == [m1 EXCEPT !.internalCash = counted]
             borrows == m.totalBorrows - loan.amount
  <1>2. /\ loan.amount \in Nat /\ loan.fee \in Nat
        /\ loan.cashBefore \in Nat /\ loan.cashOnChainBefore \in Nat
        /\ loan.cashBefore <= loan.cashOnChainBefore
    BY DEF Inv, LoanIsSound, LoanType, FlashLoanRepay
  <1>3. actual \in Nat
    BY <1>2, ReceivedType DEF Inv, Sound
  <1>4. Sound(m, member, now)
    BY <1>3, TransferInIsSound DEF Inv
  <1>5. m.cashOnChain = loan.cashOnChainBefore + loan.fee /\ loan.amount <= m.totalBorrows
    BY <1>1
  <1>6. market' = [m EXCEPT
                  !.totalReserves = @ + MulScalarTruncate(m.reserveFactorMantissa, loan.fee),
                  !.internalCash  = loan.cashBefore + loan.fee,
                  !.totalBorrows  = @ - loan.amount]
    BY <1>1
  <1> HIDE DEF m
  <1>7. m2.totalBorrows = m.totalBorrows
    BY <1>4 DEF Sound, MarketType
  <1>8. market' = [m2 EXCEPT !.totalBorrows = borrows]
    BY <1>6, <1>7
  <1>9. reserves \in Nat
    <2>1. m.reserveFactorMantissa \in Nat
      BY <1>4, MarketAssumption, ExpScaleAssumption DEF Sound, MarketType
    <2>2. MulScalarTruncate(m.reserveFactorMantissa, loan.fee) \in Nat
      BY <1>2, <2>1, MulScalarTruncateType
    <2>3. m.totalReserves \in Nat
      BY <1>4, MoneyTypes DEF Sound
    <2> QED
      BY <2>2, <2>3
  <1>10. borrows \in Nat
    BY <1>2, <1>4, <1>5, MoneyTypes DEF Sound
  <1> HIDE DEF reserves, borrows
  <1>11. Sound(m1, member, now) /\ m1.cashOnChain = m.cashOnChain
    BY <1>4, <1>9, OtherFieldsAreSound, ZenonT(60) DEF Sound, MarketType
  <1> HIDE DEF m1
  <1>12. Sound(m2, member, now)
    <2>1. counted \in Nat /\ counted <= m1.cashOnChain
      BY <1>2, <1>5, <1>11
    <2> HIDE DEF counted
    <2> QED
      BY <1>11, <2>1, CountCashIsSound
  <1> HIDE DEF m2
  <1>13. Sound(market', member, now)
    BY <1>8, <1>10, <1>12, OtherFieldsAreSound
  <1> QED
    BY <1>13, NoLoanType DEF FlashLoanRepay, Inv, LoanIsSound

LEMMA FlashLoanRevertKeepsInv ==
    ASSUME Inv, FlashLoanRevert
    PROVE  Inv'
PROOF
  <1>1. Sound(market', member', now) /\ member' \in SUBSET Account
    BY DEF FlashLoanRevert, Inv, LoanIsSound, LoanType
  <1> QED
    BY <1>1, NoLoanType DEF FlashLoanRevert, Inv, LoanIsSound

LEMMA TickKeepsInv ==
    ASSUME Inv, Tick
    PROVE  Inv'
PROOF
  <1>1. Sound(market', member', now')
    BY MoneyTypes DEF Tick, Inv, Sound, AccruedInThePast
  <1> QED
    BY <1>1 DEF Tick, Inv, LoanIsSound

--------------------------------------------------------------------------------
(***************************************************************************)
(* The invariant is inductive.                                             *)
(***************************************************************************)
LEMMA NextKeepsInv ==
    Inv /\ [Next]_vars => Inv'
PROOF
  <1> SUFFICES ASSUME Inv, [Next]_vars PROVE Inv'
    OBVIOUS
  <1> USE DEF Next
  <1>1. CASE UNCHANGED vars
    BY <1>1 DEF vars, Inv, LoanIsSound
  <1>2. ASSUME NEW a \in Account, NEW amount \in Amounts, Mint(a, amount) PROVE Inv'
    BY <1>2, MintKeepsInv
  <1>3. ASSUME NEW a \in Account, NEW amount \in Amounts,
               Redeem(a, amount, 0) \/ Redeem(a, 0, amount)
        PROVE  Inv'
    BY <1>3, MarketInputsAssumption, RedeemKeepsInv
  <1>4. ASSUME NEW a \in Account, NEW amount \in Amounts, Borrow(a, amount) PROVE Inv'
    BY <1>4, BorrowKeepsInv
  <1>5. ASSUME NEW a \in Account, NEW amount \in Amounts \cup {UIntMax}, RepayBorrow(a, amount)
        PROVE  Inv'
    BY <1>5, RepayBorrowKeepsInv
  <1>6. ASSUME NEW liquidator \in Account, NEW borrower \in Account, NEW tokens \in Amounts,
               Seize(liquidator, borrower, tokens)
        PROVE  Inv'
    BY <1>6, SeizeKeepsInv
  <1>7. ASSUME NEW liquidator \in Account, NEW borrower \in Account, NEW tokens \in Amounts,
               NEW repay \in Amounts, LiquidateBorrow(liquidator, borrower, repay, tokens)
        PROVE  Inv'
    BY <1>7, LiquidateBorrowKeepsInv
  <1>8. ASSUME NEW spender \in Account, NEW src \in Account, NEW dst \in Account,
               NEW tokens \in Amounts, Transfer(spender, src, dst, tokens)
        PROVE  Inv'
    BY <1>8, TransferKeepsInv
  <1>9. ASSUME NEW src \in Account, NEW spender \in Account, NEW amount \in Allowances,
               Approve(src, spender, amount)
        PROVE  Inv'
    BY <1>9, ApproveKeepsInv
  <1>10. ASSUME NEW a \in Account, EnterMarket(a) \/ ExitMarket(a) PROVE Inv'
    BY <1>10, EnterMarketKeepsInv, ExitMarketKeepsInv
  <1>11. ASSUME NEW amount \in Amounts,
                AddReserves(amount) \/ ReduceReserves(amount) \/ Donate(amount)
         PROVE  Inv'
    BY <1>11, AddReservesKeepsInv, ReduceReservesKeepsInv, DonateKeepsInv
  <1>12. ASSUME NEW mantissa \in ReserveFactors, SetReserveFactor(mantissa) PROVE Inv'
    BY <1>12, SetReserveFactorKeepsInv
  <1>13. ASSUME NEW mantissa \in SeizeShares, SetProtocolSeizeShare(mantissa) PROVE Inv'
    BY <1>13, SetProtocolSeizeShareKeepsInv
  <1>14. ASSUME NEW cap \in CollateralCaps, SetCollateralCap(cap) PROVE Inv'
    BY <1>14, SetCollateralCapKeepsInv
  <1>15. CASE GulpCash \/ BecomeImplementation \/ Accrue
    BY <1>15, GulpCashKeepsInv, BecomeImplementationKeepsInv, AccrueKeepsInv
  <1>16. ASSUME NEW amount \in FlashLoanAmounts, FlashLoan(amount) PROVE Inv'
    BY <1>16, FlashLoanKeepsInv
  <1>17. CASE FlashLoanRepay \/ FlashLoanRevert \/ Tick
    BY <1>17, FlashLoanRepayKeepsInv, FlashLoanRevertKeepsInv, TickKeepsInv
  <1>18. CASE Step
    BY <1>2, <1>3, <1>4, <1>5, <1>6, <1>7, <1>8, <1>9, <1>10, <1>11, <1>12, <1>13, <1>14,
       <1>15, <1>16, <1>17, <1>18
    DEF Step
  <1> QED
    BY <1>1, <1>18

(* Every storage the market is ever in, and every storage a flash loan can *)
(* revert to, is sound.                                                    *)
THEOREM InvIsInvariant ==
    Spec => []Inv
PROOF
  <1>1. Init => Inv
    BY InitInv
  <1>2. Inv /\ [Next]_vars => Inv'
    BY NextKeepsInv
  <1> QED
    BY <1>1, <1>2, PTL DEF Spec

--------------------------------------------------------------------------------
(***************************************************************************)
(* The invariants of Market follow.                                        *)
(***************************************************************************)

(* No counter of the market is ever negative, and no share exceeds its     *)
(* maximum, whatever is burnt, seized or rounded.                          *)
THEOREM TypeCorrectness ==
    Spec => []TypeOK
PROOF
  <1>1. Inv => TypeOK
    BY DEF Inv, Sound, TypeOK
  <1> QED
    BY <1>1, InvIsInvariant, PTL

(* mint, redeem, transfer and seize keep totalSupply the sum of the        *)
(* balances of the accounts.                                               *)
THEOREM SupplyTheorem ==
    Spec => []SupplyIsSumOfBalances
PROOF
  <1>1. Inv => SupplyIsSumOfBalances
    BY DEF Inv, Sound, SupplyAddsUp, SupplyIsSumOfBalances
  <1> QED
    BY <1>1, InvIsInvariant, PTL

(* An account never has more collateral than tokens: sub_(accountTokens,   *)
(* accountCollateralTokens) in transfer, redeem and registerCollateral     *)
(* never reverts.                                                          *)
THEOREM CollateralHeldTheorem ==
    Spec => []CollateralWithinBalance
PROOF
  <1>1. Inv => CollateralWithinBalance
    BY DEF Inv, Sound, CollateralHeld, CollateralWithinBalance
  <1> QED
    BY <1>1, InvIsInvariant, PTL

(* totalCollateralTokens, on which the cap is enforced, never counts less  *)
(* than the accounts' collateral.                                          *)
THEOREM CollateralCountedTheorem ==
    Spec => []CollateralIsCounted
PROOF
  <1>1. Inv => CollateralIsCounted
    BY DEF Inv, Sound, CollateralCounted, CollateralIsCounted
  <1> QED
    BY <1>1, InvIsInvariant, PTL

(* The cash that the market counts on is on chain, during a flash loan     *)
(* too: the underlying covers every transfer that getCashPrior allows.     *)
THEOREM CashTheorem ==
    Spec => []CashIsOnChain
PROOF
  <1>1. Inv => CashIsOnChain
    BY DEF Inv, Sound, CashHeld, CashIsOnChain
  <1> QED
    BY <1>1, InvIsInvariant, PTL

(* Who owes anything has entered the market, where the Joetroller counts   *)
(* the debt.                                                               *)
THEOREM BorrowersTheorem ==
    Spec => []BorrowersAreMembers
PROOF
  <1>1. Inv => BorrowersAreMembers
    BY DEF Inv, Sound, DebtorsAreIn, BorrowersAreMembers
  <1> QED
    BY <1>1, InvIsInvariant, PTL

(* borrowBalanceStored divides by an index that is not zero and not ahead  *)
(* of the market's.                                                        *)
THEOREM SnapshotsTheorem ==
    Spec => []SnapshotsAreSound
PROOF
  <1>1. Inv => SnapshotsAreSound
    BY DEF Inv, Sound, IndexesInOrder, SnapshotsAreSound
  <1> QED
    BY <1>1, InvIsInvariant, PTL

--------------------------------------------------------------------------------
(***************************************************************************)
(* The steps of the market, and what a supplier can gain.                  *)
(*                                                                         *)
(* Most of what a call does leaves the exchange rate, the unaccounted cash *)
(* and the collateral in order, wherever it does it: interest that         *)
(* accrues, an account whose collateral is initialised or registered, a    *)
(* borrow, a repayment, a transfer are Quiet.  A Quiet relation between    *)
(* two storages is transitive, and a call is some Quiet changes followed   *)
(* by at most one that is not: tokens are minted, redeemed or seized, or   *)
(* cash is counted again.                                                  *)
(***************************************************************************)

(***************************************************************************)
(* Arithmetic: truncated quotients of integers, negative ones included,    *)
(* because the reserves may exceed cash and borrows.                       *)
(***************************************************************************)
LEMMA ProductsCompare ==
    ASSUME NEW a \in Int, NEW b \in Int, NEW c \in Nat, a <= b
    PROVE  a * c <= b * c
PROOF
  <1>1. PICK d \in Nat : b = a + d
    <2>1. b - a \in Nat /\ b = a + (b - a)
      OBVIOUS
    <2> QED
      BY <2>1
  <1>2. (a + d) * c = a * c + d * c /\ d * c \in Nat /\ a * c \in Int
    OBVIOUS
  <1> QED
    BY <1>1, <1>2

LEMMA FloorBounds ==
    ASSUME NEW a \in Int, NEW b \in Nat \ {0}
    PROVE  /\ a \div b \in Int
           /\ (a \div b) * b <= a
           /\ a < (a \div b) * b + b
OBVIOUS

(* The floor is the greatest integer below the quotient. *)
LEMMA FloorIsGreatest ==
    ASSUME NEW a \in Int, NEW b \in Nat \ {0}, NEW q \in Int, q * b <= a
    PROVE  q <= a \div b
PROOF
  <1> DEFINE f == a \div b
  <1>1. f \in Int /\ a < f * b + b
    BY FloorBounds
  <1> HIDE DEF f
  <1>2. ASSUME f < q PROVE FALSE
    <2>1. (f + 1) * b <= q * b
      BY <1>1, <1>2, ProductsCompare
    <2>2. (f + 1) * b = f * b + b
      BY <1>1
    <2>3. q * b \in Int /\ f * b \in Int
      BY <1>1
    <2> QED
      BY <1>1, <2>1, <2>2, <2>3
  <1> QED
    BY <1>1, <1>2 DEF f

(* A common positive factor can be cancelled. *)
LEMMA FactorCancels ==
    ASSUME NEW a \in Int, NEW b \in Int, NEW c \in Nat \ {0}, a * c <= b * c
    PROVE  a <= b
PROOF
  <1>1. ASSUME b < a PROVE FALSE
    <2>1. (b + 1) * c <= a * c
      BY <1>1, ProductsCompare
    <2>2. (b + 1) * c = b * c + c
      OBVIOUS
    <2>3. b * c \in Int /\ a * c \in Int
      OBVIOUS
    <2> QED
      BY <2>1, <2>2, <2>3
  <1> QED
    BY <1>1

--------------------------------------------------------------------------------
(***************************************************************************)
(* Quiet changes of the storage.                                           *)
(***************************************************************************)

(* Collateral is only counted for accounts whose bookkeeping was           *)
(* initialised: initialising one moves no collateral that was there.       *)
OpenCollateral(m) ==
    \A a \in Account : ~m.isCollateralTokenInit[a] => m.accountCollateralTokens[a] = 0

(* Accounts stay initialised, and the collateral does not pass the cap     *)
(* unless an account was initialised.                                      *)
CapKept(m, n) ==
    /\ n.collateralCap = m.collateralCap
    /\ \A a \in Account : m.isCollateralTokenInit[a] => n.isCollateralTokenInit[a]
    /\ \/ n.isCollateralTokenInit # m.isCollateralTokenInit
       \/ n.totalCollateralTokens <= m.totalCollateralTokens
       \/ m.collateralCap = 0
       \/ n.totalCollateralTokens <= m.collateralCap

Quiet(m, n) ==
    /\ n.totalSupply = m.totalSupply
    /\ CashPlusBorrowsMinusReserves(m) <= CashPlusBorrowsMinusReserves(n)
    /\ ExcessCash(n) = ExcessCash(m)
    /\ CollateralDrift(n) = CollateralDrift(m)
    /\ CapKept(m, n)

(* What a call does before it mints, redeems or seizes: no reserves are    *)
(* paid out.                                                               *)
Prepared(m, n) ==
    /\ Quiet(m, n)
    /\ OpenCollateral(n)
    /\ m.totalReserves <= n.totalReserves

LEMMA StorageTypes ==
    ASSUME NEW m \in MarketType
    PROVE  /\ CashPlusBorrowsMinusReserves(m) \in Int
           /\ ExcessCash(m) \in Int
           /\ CollateralDrift(m) \in Int
           /\ Total(m.accountCollateralTokens) \in Nat
           /\ m.totalSupply \in Nat /\ m.totalReserves \in Nat
           /\ m.totalCollateralTokens \in Nat /\ m.collateralCap \in Nat
           /\ m.isCollateralTokenInit \in [Account -> BOOLEAN]
PROOF
  <1>1. /\ m.internalCash \in Nat /\ m.cashOnChain \in Nat /\ m.totalBorrows \in Nat
        /\ m.totalReserves \in Nat /\ m.totalSupply \in Nat /\ m.totalCollateralTokens \in Nat
        /\ m.collateralCap \in Nat /\ m.isCollateralTokenInit \in [Account -> BOOLEAN]
        /\ m.accountCollateralTokens \in Balances
    BY DEF MarketType, Balances
  <1>2. Total(m.accountCollateralTokens) \in Nat
    BY <1>1, TotalType
  <1> QED
    BY <1>1, <1>2 DEF CashPlusBorrowsMinusReserves, ExcessCash, CollateralDrift

LEMMA CapKeptIsTransitive ==
    ASSUME NEW m \in MarketType, NEW n \in MarketType, NEW o \in MarketType,
           CapKept(m, n), CapKept(n, o)
    PROVE  CapKept(m, o)
PROOF
  <1>1. /\ m.isCollateralTokenInit \in [Account -> BOOLEAN]
        /\ n.isCollateralTokenInit \in [Account -> BOOLEAN]
        /\ o.isCollateralTokenInit \in [Account -> BOOLEAN]
        /\ m.totalCollateralTokens \in Nat /\ n.totalCollateralTokens \in Nat
        /\ o.totalCollateralTokens \in Nat /\ m.collateralCap \in Nat
    BY StorageTypes
  <1>2. ASSUME o.isCollateralTokenInit = m.isCollateralTokenInit
        PROVE  n.isCollateralTokenInit = m.isCollateralTokenInit
    <2>1. \A a \in Account : n.isCollateralTokenInit[a] = m.isCollateralTokenInit[a]
      BY <1>1, <1>2 DEF CapKept
    <2> QED
      BY <1>1, <2>1
  <1> QED
    BY <1>1, <1>2 DEF CapKept

LEMMA QuietIsTransitive ==
    ASSUME NEW m \in MarketType, NEW n \in MarketType, NEW o \in MarketType,
           Quiet(m, n), Quiet(n, o)
    PROVE  Quiet(m, o)
PROOF
  <1>1. CapKept(m, o)
    BY CapKeptIsTransitive DEF Quiet
  <1>2. CashPlusBorrowsMinusReserves(m) <= CashPlusBorrowsMinusReserves(o)
    <2>1. /\ CashPlusBorrowsMinusReserves(m) \in Int
          /\ CashPlusBorrowsMinusReserves(n) \in Int
          /\ CashPlusBorrowsMinusReserves(o) \in Int
      BY StorageTypes
    <2> QED
      BY <2>1 DEF Quiet
  <1> QED
    BY <1>1, <1>2 DEF Quiet

LEMMA PreparedIsTransitive ==
    ASSUME NEW m \in MarketType, NEW n \in MarketType, NEW o \in MarketType,
           Prepared(m, n), Prepared(n, o)
    PROVE  Prepared(m, o)
BY QuietIsTransitive, StorageTypes DEF Prepared

LEMMA PreparedIsReflexive ==
    ASSUME NEW m \in MarketType, OpenCollateral(m)
    PROVE  Prepared(m, m)
BY StorageTypes DEF Prepared, Quiet, CapKept

(* A change of the money alone, or of the tokens alone. *)
CollateralUnchanged(m, n) ==
    /\ n.totalSupply = m.totalSupply
    /\ n.accountCollateralTokens = m.accountCollateralTokens
    /\ n.totalCollateralTokens = m.totalCollateralTokens
    /\ n.isCollateralTokenInit = m.isCollateralTokenInit
    /\ n.collateralCap = m.collateralCap

CashUnchanged(m, n) ==
    /\ n.internalCash = m.internalCash
    /\ n.cashOnChain = m.cashOnChain
    /\ n.totalBorrows = m.totalBorrows
    /\ n.totalReserves = m.totalReserves

LEMMA MoneyMovesQuietly ==
    ASSUME NEW m \in MarketType, NEW n \in MarketType, CollateralUnchanged(m, n),
           CashPlusBorrowsMinusReserves(m) <= CashPlusBorrowsMinusReserves(n),
           ExcessCash(n) = ExcessCash(m)
    PROVE  /\ Quiet(m, n)
           /\ OpenCollateral(m) => OpenCollateral(n)
BY StorageTypes DEF CollateralUnchanged, Quiet, CapKept, CollateralDrift, OpenCollateral

LEMMA TokensMoveQuietly ==
    ASSUME NEW m \in MarketType, NEW n \in MarketType, CashUnchanged(m, n),
           n.totalSupply = m.totalSupply, CollateralDrift(n) = CollateralDrift(m),
           CapKept(m, n), OpenCollateral(n)
    PROVE  Prepared(m, n)
BY StorageTypes
DEF CashUnchanged, Prepared, Quiet, CashPlusBorrowsMinusReserves, ExcessCash

--------------------------------------------------------------------------------
(***************************************************************************)
(* Quiet changes of the money.                                             *)
(***************************************************************************)

(* The share of the interest that becomes reserves is part of the interest.*)
LEMMA ShareIsPart ==
    ASSUME NEW share \in 0 .. reserveFactorMaxMantissa, NEW amount \in Nat
    PROVE  MulScalarTruncate(share, amount) \in 0 .. amount
PROOF
  <1>1. share \in 0 .. expScale /\ share \in Nat
    BY MarketAssumption, ExpScaleAssumption
  <1>2. MulUIntExp(amount, share) \in 0 .. amount
    BY <1>1, MulUIntExpBound
  <1>3. amount * share = share * amount
    BY <1>1
  <1> QED
    BY <1>2, <1>3 DEF MulUIntExp, MulScalarTruncate, Truncate

LEMMA AccrueInterestIsQuiet ==
    ASSUME NEW m, NEW mem, NEW t \in Nat, Sound(m, mem, t), OpenCollateral(m),
           NEW rate \in BorrowRates
    PROVE  Prepared(m, AccrueInterest(m, t, rate))
PROOF
  <1> DEFINE n == AccrueInterest(m, t, rate)
             factor == rate * (t - m.accrualBlockTimestamp)
             interest == MulScalarTruncate(factor, m.totalBorrows)
             reserved == MulScalarTruncate(m.reserveFactorMantissa, interest)
  <1>1. m \in MarketType /\ n \in MarketType
    BY AccrueInterestIsSound DEF Sound
  <1>2. CASE m.accrualBlockTimestamp = t
    BY <1>1, <1>2, PreparedIsReflexive DEF AccrueInterest
  <1>3. CASE m.accrualBlockTimestamp # t
    <2>1. interest \in Nat
      <3>1. factor \in Nat
        BY <1>1, MarketAssumption, MoneyTypes DEF Sound, AccruedInThePast
      <3> QED
        BY <1>1, <3>1, MoneyTypes, MulScalarTruncateType
    <2> HIDE DEF interest
    <2>2. reserved \in 0 .. interest
      BY <1>1, <2>1, ShareIsPart DEF MarketType
    <2>3. /\ CollateralUnchanged(m, n)
          /\ n.internalCash = m.internalCash /\ n.cashOnChain = m.cashOnChain
          /\ n.totalBorrows = interest + m.totalBorrows
          /\ n.totalReserves = reserved + m.totalReserves
      BY <1>1, <1>3
      DEF AccrueInterest, CollateralUnchanged, interest, MulScalarTruncateAddUInt,
          MulScalarTruncate, MarketType
    <2> HIDE DEF n, reserved
    <2>4. /\ CashPlusBorrowsMinusReserves(m) <= CashPlusBorrowsMinusReserves(n)
          /\ ExcessCash(n) = ExcessCash(m) /\ m.totalReserves <= n.totalReserves
      BY <1>1, <2>1, <2>2, <2>3, MoneyTypes DEF CashPlusBorrowsMinusReserves, ExcessCash
    <2> QED
      BY <1>1, <2>3, <2>4, MoneyMovesQuietly DEF Prepared, n
  <1> QED
    BY <1>2, <1>3

LEMMA SetAccountBorrowsIsQuiet ==
    ASSUME NEW m \in MarketType, OpenCollateral(m), NEW a \in Account, NEW principal,
           SetAccountBorrows(m, a, principal) \in MarketType
    PROVE  Prepared(m, SetAccountBorrows(m, a, principal))
PROOF
  <1> DEFINE n == SetAccountBorrows(m, a, principal)
  <1>1. CollateralUnchanged(m, n) /\ CashUnchanged(m, n)
    BY DEF SetAccountBorrows, CollateralUnchanged, CashUnchanged, MarketType
  <1> HIDE DEF n
  <1>2. CollateralDrift(n) = CollateralDrift(m) /\ OpenCollateral(n) /\ CapKept(m, n)
    BY <1>1, StorageTypes DEF CollateralUnchanged, CollateralDrift, OpenCollateral, CapKept
  <1> QED
    BY <1>1, <1>2, TokensMoveQuietly DEF n, CollateralUnchanged

LEMMA RefreshIsQuiet ==
    ASSUME NEW m, NEW mem, NEW t, Sound(m, mem, t), OpenCollateral(m), NEW a \in Account
    PROVE  Prepared(m, RefreshAccountBorrows(m, a))
PROOF
  <1>1. m \in MarketType /\ RefreshAccountBorrows(m, a) \in MarketType
    BY RefreshIsSound DEF Sound
  <1> QED
    BY <1>1, SetAccountBorrowsIsQuiet DEF RefreshAccountBorrows

LEMMA BorrowIsQuiet ==
    ASSUME NEW m, NEW mem, NEW t, Sound(m, mem, t), OpenCollateral(m), NEW a \in Account,
           NEW amount \in Nat, amount <= m.internalCash
    PROVE  Prepared(m, BorrowFresh(m, a, amount))
PROOF
  <1> DEFINE n == BorrowFresh(m, a, amount)
             newMem == mem \cup {a}
  <1>1. m \in MarketType /\ n \in MarketType
    <2>1. mem \subseteq newMem /\ a \in newMem
      OBVIOUS
    <2> HIDE DEF newMem
    <2> QED
      BY <2>1, BorrowIsSound DEF Sound
  <1>2. /\ CollateralUnchanged(m, n)
        /\ n.internalCash = m.internalCash - amount /\ n.cashOnChain = m.cashOnChain - amount
        /\ n.totalBorrows = m.totalBorrows + amount /\ n.totalReserves = m.totalReserves
    BY <1>1 DEF BorrowFresh, SetAccountBorrows, DoTransferOut, CollateralUnchanged, MarketType
  <1> HIDE DEF n
  <1>3. /\ CashPlusBorrowsMinusReserves(m) <= CashPlusBorrowsMinusReserves(n)
        /\ ExcessCash(n) = ExcessCash(m) /\ m.totalReserves <= n.totalReserves
    BY <1>1, <1>2, MoneyTypes DEF CashPlusBorrowsMinusReserves, ExcessCash
  <1> QED
    BY <1>1, <1>2, <1>3, MoneyMovesQuietly DEF Prepared, n

LEMMA RepayBorrowIsQuiet ==
    ASSUME NEW m, NEW mem, NEW t, Sound(m, mem, t), OpenCollateral(m), NEW a \in Account,
           NEW amount \in Nat, ~RepayBorrowFreshReverts(m, a, amount)
    PROVE  Prepared(m, RepayBorrowFresh(m, a, amount))
PROOF
  <1> DEFINE n == RepayBorrowFresh(m, a, amount)
  <1>1. m \in MarketType /\ n \in MarketType
    BY RepayBorrowIsSound DEF Sound
  <1>2. /\ CollateralUnchanged(m, n)
        /\ n.internalCash = m.internalCash + amount /\ n.cashOnChain = m.cashOnChain + amount
        /\ n.totalBorrows = m.totalBorrows - amount /\ n.totalReserves = m.totalReserves
    BY <1>1 DEF RepayBorrowFresh, SetAccountBorrows, DoTransferIn, CollateralUnchanged, MarketType
  <1> HIDE DEF n
  <1>3. /\ CashPlusBorrowsMinusReserves(m) <= CashPlusBorrowsMinusReserves(n)
        /\ ExcessCash(n) = ExcessCash(m) /\ m.totalReserves <= n.totalReserves
    BY <1>1, <1>2, MoneyTypes DEF CashPlusBorrowsMinusReserves, ExcessCash
  <1> QED
    BY <1>1, <1>2, <1>3, MoneyMovesQuietly DEF Prepared, n

LEMMA AddReservesIsQuiet ==
    ASSUME NEW m, NEW mem, NEW t, Sound(m, mem, t), NEW amount \in Nat
    PROVE  /\ Quiet(m, AddReservesFresh(m, amount))
           /\ OpenCollateral(m) => OpenCollateral(AddReservesFresh(m, amount))
PROOF
  <1> DEFINE n == AddReservesFresh(m, amount)
  <1>1. m \in MarketType /\ n \in MarketType
    BY AddReservesIsSound DEF Sound
  <1>2. /\ CollateralUnchanged(m, n)
        /\ n.internalCash = m.internalCash + amount /\ n.cashOnChain = m.cashOnChain + amount
        /\ n.totalBorrows = m.totalBorrows /\ n.totalReserves = m.totalReserves + amount
    BY <1>1 DEF AddReservesFresh, DoTransferIn, CollateralUnchanged, MarketType
  <1> HIDE DEF n
  <1>3. /\ CashPlusBorrowsMinusReserves(m) <= CashPlusBorrowsMinusReserves(n)
        /\ ExcessCash(n) = ExcessCash(m)
    BY <1>1, <1>2, MoneyTypes DEF CashPlusBorrowsMinusReserves, ExcessCash
  <1> QED
    BY <1>1, <1>2, <1>3, MoneyMovesQuietly DEF n

LEMMA ReduceReservesIsQuiet ==
    ASSUME NEW m, NEW mem, NEW t, Sound(m, mem, t), NEW amount \in Nat,
           amount <= m.internalCash, amount <= m.totalReserves
    PROVE  /\ Quiet(m, ReduceReservesFresh(m, amount))
           /\ OpenCollateral(m) => OpenCollateral(ReduceReservesFresh(m, amount))
PROOF
  <1> DEFINE n == ReduceReservesFresh(m, amount)
  <1>1. m \in MarketType /\ n \in MarketType
    BY ReduceReservesIsSound DEF Sound
  <1>2. /\ CollateralUnchanged(m, n)
        /\ n.internalCash = m.internalCash - amount /\ n.cashOnChain = m.cashOnChain - amount
        /\ n.totalBorrows = m.totalBorrows /\ n.totalReserves = m.totalReserves - amount
    BY <1>1 DEF ReduceReservesFresh, DoTransferOut, CollateralUnchanged, MarketType
  <1> HIDE DEF n
  <1>3. /\ CashPlusBorrowsMinusReserves(m) <= CashPlusBorrowsMinusReserves(n)
        /\ ExcessCash(n) = ExcessCash(m)
    BY <1>1, <1>2, MoneyTypes DEF CashPlusBorrowsMinusReserves, ExcessCash
  <1> QED
    BY <1>1, <1>2, <1>3, MoneyMovesQuietly DEF n


--------------------------------------------------------------------------------
(***************************************************************************)
(* Quiet changes of the collateral.                                        *)
(***************************************************************************)
LEMMA InitializeIsQuiet ==
    ASSUME NEW m, NEW mem, NEW t, Sound(m, mem, t), OpenCollateral(m),
           NEW a \in Account, NEW isMember \in BOOLEAN
    PROVE  LET n == InitializeAccountCollateralTokens(m, a, isMember)
           IN  Prepared(m, n) /\ n.isCollateralTokenInit[a]
PROOF
  <1> DEFINE n == InitializeAccountCollateralTokens(m, a, isMember)
  <1>1. m \in MarketType /\ n \in MarketType
    BY InitializeIsSound DEF Sound
  <1>2. CASE m.isCollateralTokenInit[a]
    BY <1>1, <1>2, PreparedIsReflexive DEF InitializeAccountCollateralTokens
  <1>3. CASE ~m.isCollateralTokenInit[a]
    <2> DEFINE added == IF isMember THEN m.accountTokens[a] ELSE 0
               inits == [m.isCollateralTokenInit EXCEPT ![a] = TRUE]
               collateral == [m.accountCollateralTokens EXCEPT ![a] = added]
               total == m.totalCollateralTokens + added
    <2>1. /\ added \in Nat /\ m.accountCollateralTokens \in Balances
          /\ m.accountCollateralTokens[a] = 0
          /\ m.isCollateralTokenInit \in [Account -> BOOLEAN]
      BY <1>1, <1>3, FieldTypes, StorageTypes DEF OpenCollateral
    <2>2. n = [m EXCEPT !.isCollateralTokenInit[a] = TRUE,
                        !.accountCollateralTokens[a] = added,
                        !.totalCollateralTokens = total]
      BY <1>3, <2>1 DEF InitializeAccountCollateralTokens
    <2>3. /\ CashUnchanged(m, n) /\ n.totalSupply = m.totalSupply
          /\ n.isCollateralTokenInit = inits
          /\ n.accountCollateralTokens = collateral
          /\ n.totalCollateralTokens = total
          /\ n.collateralCap = m.collateralCap
      <3> HIDE DEF n, added, total
      <3> QED
        BY <1>1, <2>2 DEF CashUnchanged, MarketType
    <2> HIDE DEF n, added
    <2>4. Total(collateral) = Total(m.accountCollateralTokens) + added
      <3>1. /\ Total(collateral) = Total(m.accountCollateralTokens)
                                    - m.accountCollateralTokens[a] + added
            /\ Total(m.accountCollateralTokens) \in Nat
        BY <2>1, TotalOfUpdate, TotalType
      <3> HIDE DEF collateral
      <3> QED
        BY <2>1, <3>1
    <2>5. CollateralDrift(n) = CollateralDrift(m)
      <3> HIDE DEF collateral
      <3> QED
        BY <1>1, <2>1, <2>3, <2>4, StorageTypes DEF CollateralDrift
    <2>6. inits # m.isCollateralTokenInit /\ inits[a]
      BY <1>3, <2>1
    <2>7. CapKept(m, n) /\ n.isCollateralTokenInit[a]
      BY <2>1, <2>3, <2>6 DEF CapKept
    <2>8. OpenCollateral(n)
      BY <2>1, <2>3 DEF OpenCollateral, Balances
    <2> QED
      BY <1>1, <2>3, <2>5, <2>7, <2>8, TokensMoveQuietly DEF n
  <1> QED
    BY <1>2, <1>3

(* More collateral, as much as the cap leaves room for. *)
LEMMA IncreaseIsQuiet ==
    ASSUME NEW m \in MarketType, OpenCollateral(m), NEW a \in Account, NEW amount \in Nat,
           m.isCollateralTokenInit[a], IncreaseUserCollateral(m, a, amount) \in MarketType
    PROVE  LET n == IncreaseUserCollateral(m, a, amount)
           IN  /\ Prepared(m, n)
               /\ CashUnchanged(m, n)
PROOF
  <1> DEFINE n == IncreaseUserCollateral(m, a, amount)
             increase == CollateralIncrease(m, amount)
             collateral == [m.accountCollateralTokens EXCEPT ![a] = @ + increase]
             total == m.totalCollateralTokens + increase
  <1>1. increase \in Nat
    BY CollateralIncreaseBound
  <1>2. /\ CashUnchanged(m, n) /\ n.totalSupply = m.totalSupply
        /\ n.isCollateralTokenInit = m.isCollateralTokenInit
        /\ n.accountCollateralTokens = collateral
        /\ n.totalCollateralTokens = total
        /\ n.collateralCap = m.collateralCap
    <2> HIDE DEF increase
    <2> QED
      BY DEF IncreaseUserCollateral, increase, CashUnchanged, MarketType
  <1>3. \/ increase = 0 \/ m.collateralCap = 0 \/ total <= m.collateralCap
    BY StorageTypes DEF CollateralIncrease
  <1> HIDE DEF n, increase
  <1>4. /\ m.accountCollateralTokens \in Balances /\ m.accountCollateralTokens[a] \in Nat
        /\ m.accountCollateralTokens[a] + increase \in Nat
    BY <1>1, FieldTypes
  <1>5. Total(collateral) = Total(m.accountCollateralTokens) + increase
    <2>1. /\ Total(collateral) = Total(m.accountCollateralTokens) - m.accountCollateralTokens[a]
                                   + (m.accountCollateralTokens[a] + increase)
          /\ Total(m.accountCollateralTokens) \in Nat
      BY <1>4, TotalOfUpdate, TotalType
    <2> HIDE DEF collateral
    <2> QED
      BY <1>1, <1>4, <2>1
  <1>6. CollateralDrift(n) = CollateralDrift(m)
    <2> HIDE DEF collateral
    <2> QED
      BY <1>1, <1>2, <1>5, StorageTypes DEF CollateralDrift
  <1>7. CapKept(m, n)
    BY <1>1, <1>2, <1>3, StorageTypes DEF CapKept
  <1>8. OpenCollateral(n)
    BY <1>2, <1>4 DEF OpenCollateral, Balances
  <1> QED
    BY <1>2, <1>6, <1>7, <1>8, TokensMoveQuietly DEF n

LEMMA DecreaseIsQuiet ==
    ASSUME NEW m \in MarketType, OpenCollateral(m), NEW a \in Account, NEW amount \in Nat,
           m.isCollateralTokenInit[a], ~DecreaseUserCollateralReverts(m, a, amount),
           DecreaseUserCollateral(m, a, amount) \in MarketType
    PROVE  LET n == DecreaseUserCollateral(m, a, amount)
           IN  /\ Prepared(m, n)
               /\ CashUnchanged(m, n)
PROOF
  <1> DEFINE n == DecreaseUserCollateral(m, a, amount)
             collateral == [m.accountCollateralTokens EXCEPT ![a] = @ - amount]
             total == m.totalCollateralTokens - amount
  <1>2. /\ CashUnchanged(m, n) /\ n.totalSupply = m.totalSupply
        /\ n.isCollateralTokenInit = m.isCollateralTokenInit
        /\ n.accountCollateralTokens = collateral
        /\ n.totalCollateralTokens = total
        /\ n.collateralCap = m.collateralCap
    BY DEF DecreaseUserCollateral, CashUnchanged, MarketType
  <1> HIDE DEF n
  <1>4. /\ m.accountCollateralTokens \in Balances /\ m.accountCollateralTokens[a] \in Nat
        /\ m.accountCollateralTokens[a] - amount \in Nat
    BY FieldTypes DEF DecreaseUserCollateralReverts
  <1>5. Total(collateral) = Total(m.accountCollateralTokens) - amount
    <2>1. /\ Total(collateral) = Total(m.accountCollateralTokens) - m.accountCollateralTokens[a]
                                   + (m.accountCollateralTokens[a] - amount)
          /\ Total(m.accountCollateralTokens) \in Nat
      BY <1>4, TotalOfUpdate, TotalType
    <2> HIDE DEF collateral
    <2> QED
      BY <1>4, <2>1
  <1>6. CollateralDrift(n) = CollateralDrift(m)
    <2> HIDE DEF collateral
    <2> QED
      BY <1>2, <1>5, StorageTypes DEF CollateralDrift
  <1>7. CapKept(m, n)
    BY <1>2, StorageTypes DEF CapKept
  <1>8. OpenCollateral(n)
    BY <1>2, <1>4 DEF OpenCollateral, Balances
  <1> QED
    BY <1>2, <1>6, <1>7, <1>8, TokensMoveQuietly DEF n

LEMMA RegisterIsQuiet ==
    ASSUME NEW m, NEW mem, NEW t, Sound(m, mem, t), OpenCollateral(m),
           NEW a \in Account, NEW isMember \in BOOLEAN
    PROVE  Prepared(m, RegisterCollateral(m, a, isMember))
PROOF
  <1> DEFINE m1 == InitializeAccountCollateralTokens(m, a, isMember)
             n == RegisterCollateral(m, a, isMember)
  <1>1. Sound(m1, mem, t) /\ Sound(n, mem, t)
    BY InitializeIsSound, RegisterIsSound
  <1>2. Prepared(m, m1) /\ m1.isCollateralTokenInit[a]
    BY InitializeIsQuiet
  <1>3. n = IncreaseUserCollateral(m1, a, BufferTokens(m1, a))
    BY DEF RegisterCollateral
  <1> HIDE DEF m1, n
  <1>4. BufferTokens(m1, a) \in Nat
    BY <1>1, FieldTypes DEF Sound, CollateralHeld, BufferTokens
  <1>5. Prepared(m1, n)
    BY <1>1, <1>2, <1>3, <1>4, IncreaseIsQuiet DEF Sound, Prepared
  <1>6. Prepared(m, n)
    BY <1>1, <1>2, <1>5, PreparedIsTransitive DEF Sound
  <1> QED
    BY <1>6 DEF n

LEMMA UnregisterIsQuiet ==
    ASSUME NEW m, NEW mem, NEW t, Sound(m, mem, t), OpenCollateral(m),
           NEW a \in Account, NEW isMember \in BOOLEAN
    PROVE  LET m1 == InitializeAccountCollateralTokens(m, a, isMember)
           IN  ~DecreaseUserCollateralReverts(m1, a, m1.accountCollateralTokens[a])
                 => Prepared(m, UnregisterCollateral(m, a, isMember))
PROOF
  <1> DEFINE m1 == InitializeAccountCollateralTokens(m, a, isMember)
             n == UnregisterCollateral(m, a, isMember)
  <1> SUFFICES ASSUME ~DecreaseUserCollateralReverts(m1, a, m1.accountCollateralTokens[a])
               PROVE  Prepared(m, n)
    OBVIOUS
  <1>1. Sound(m1, mem, t) /\ Sound(n, mem, t)
    BY InitializeIsSound, UnregisterIsSound
  <1>2. Prepared(m, m1) /\ m1.isCollateralTokenInit[a]
    BY InitializeIsQuiet
  <1>3. n = DecreaseUserCollateral(m1, a, m1.accountCollateralTokens[a])
    BY DEF UnregisterCollateral
  <1> HIDE DEF m1, n
  <1>4. m1.accountCollateralTokens[a] \in Nat
    BY <1>1, FieldTypes DEF Sound
  <1>5. Prepared(m1, n)
    BY <1>1, <1>2, <1>3, <1>4, DecreaseIsQuiet DEF Sound, Prepared
  <1> QED
    BY <1>1, <1>2, <1>5, PreparedIsTransitive DEF Sound

LEMMA TransferTokensIsQuiet ==
    ASSUME NEW m, NEW mem, NEW t, Sound(m, mem, t), OpenCollateral(m), NEW spender \in Account,
           NEW src \in Account, NEW dst \in Account, src # dst,
           m.isCollateralTokenInit[src], m.isCollateralTokenInit[dst],
           NEW tokens \in Nat, ~TransferTokensReverts(m, spender, src, tokens)
    PROVE  Prepared(m, TransferTokens(m, spender, src, dst, tokens))
PROOF
  <1> DEFINE n == TransferTokens(m, spender, src, dst, tokens)
             taken == CollateralTokensOf(m, src, tokens)
             before == m.accountCollateralTokens
             after == Moved(before, src, taken, dst, taken)
  <1>1. m \in MarketType /\ n \in MarketType /\ CollateralHeld(m)
    BY TransferIsSound DEF Sound
  <1>2. taken \in Nat /\ taken <= before[src] /\ before \in Balances
    BY <1>1, CollateralPart, FieldTypes DEF TransferTokensReverts
  <1>3. /\ CashUnchanged(m, n) /\ n.totalSupply = m.totalSupply
        /\ n.isCollateralTokenInit = m.isCollateralTokenInit
        /\ n.accountCollateralTokens = after
        /\ n.totalCollateralTokens = m.totalCollateralTokens
        /\ n.collateralCap = m.collateralCap
    BY <1>1 DEF TransferTokens, CashUnchanged, MarketType
  <1> HIDE DEF n, taken
  <1>4. /\ Total(after) = Total(before) - taken + taken
        /\ \A c \in Account \ {src, dst} : after[c] = before[c]
    <2> HIDE DEF before
    <2> QED
      BY <1>2, MovedBalances
  <1>5. CollateralDrift(n) = CollateralDrift(m)
    <2>1. Total(after) = Total(before)
      <3>1. Total(before) \in Nat
        BY <1>2, TotalType
      <3> HIDE DEF after, before
      <3> QED
        BY <1>2, <1>4, <3>1
    <2> HIDE DEF after
    <2> QED
      BY <1>1, <1>3, <2>1, StorageTypes DEF CollateralDrift
  <1>6. CapKept(m, n)
    BY <1>1, <1>3, StorageTypes DEF CapKept
  <1>7. OpenCollateral(n)
    <2> HIDE DEF after
    <2> QED
      BY <1>3, <1>4 DEF OpenCollateral
  <1> QED
    BY <1>1, <1>3, <1>5, <1>6, <1>7, TokensMoveQuietly DEF n


--------------------------------------------------------------------------------
(***************************************************************************)
(* The exchange rate.                                                      *)
(***************************************************************************)
LEMMA RateOfSupply ==
    ASSUME NEW m \in MarketType, m.totalSupply > 0
    PROVE  LET rate  == ExchangeRateStored(m)
               owned == CashPlusBorrowsMinusReserves(m)
           IN  /\ rate \in Int
               /\ rate * m.totalSupply <= owned * expScale
               /\ \A q \in Int : q * m.totalSupply <= owned * expScale => q <= rate
PROOF
  <1> DEFINE worth == CashPlusBorrowsMinusReserves(m) * expScale
  <1>1. worth \in Int /\ m.totalSupply \in Nat \ {0}
    BY StorageTypes, ExpScaleAssumption
  <1>2. ExchangeRateStored(m) = worth \div m.totalSupply
    BY <1>1 DEF ExchangeRateStored, DivUIntByExp
  <1> HIDE DEF worth
  <1>3. /\ worth \div m.totalSupply \in Int
        /\ (worth \div m.totalSupply) * m.totalSupply <= worth
        /\ \A q \in Int : q * m.totalSupply <= worth => q <= worth \div m.totalSupply
    BY <1>1, FloorBounds, FloorIsGreatest
  <1> QED
    BY <1>2, <1>3 DEF worth

LEMMA RateType ==
    ASSUME NEW m \in MarketType
    PROVE  /\ ExchangeRateStored(m) \in Int
           /\ CashPlusBorrowsMinusReserves(m) >= 0 => ExchangeRateStored(m) >= 0
PROOF
  <1>1. CASE m.totalSupply = 0
    BY <1>1, MarketAssumption DEF ExchangeRateStored
  <1>2. CASE m.totalSupply > 0
    <2>1. ASSUME CashPlusBorrowsMinusReserves(m) >= 0
          PROVE  ExchangeRateStored(m) >= 0
      <3>1. ~ExchangeRateReverts(m)
        BY <2>1, StorageTypes DEF ExchangeRateReverts
      <3>2. ExchangeRateStored(m) \in Nat
        BY <3>1, ExchangeRateType
      <3> QED
        BY <3>2
    <2> QED
      BY <1>2, <2>1, RateOfSupply
  <1> QED
    BY <1>1, <1>2, StorageTypes

(* Tokens that come or go for at least, or at most, what they are worth at *)
(* the exchange rate do not lower it.                                      *)
LEMMA FairPriceKeepsRate ==
    ASSUME NEW m \in MarketType, NEW n \in MarketType, m.totalSupply > 0, n.totalSupply > 0,
           NEW cash \in Int, NEW tokens \in Int,
           CashPlusBorrowsMinusReserves(n) >= CashPlusBorrowsMinusReserves(m) + cash,
           n.totalSupply = m.totalSupply + tokens,
           ExchangeRateStored(m) * tokens <= cash * expScale
    PROVE  ExchangeRateStored(m) <= ExchangeRateStored(n)
PROOF
  <1> DEFINE rate  == ExchangeRateStored(m)
             owned == CashPlusBorrowsMinusReserves(m)
             after == CashPlusBorrowsMinusReserves(n)
  <1>1. /\ rate \in Int /\ owned \in Int /\ after \in Int
        /\ m.totalSupply \in Nat /\ n.totalSupply \in Nat
        /\ expScale \in Nat \ {0}
        /\ rate * m.totalSupply <= owned * expScale
    BY RateOfSupply, StorageTypes, ExpScaleAssumption
  <1>2. \A q \in Int : q * n.totalSupply <= after * expScale => q <= ExchangeRateStored(n)
    BY RateOfSupply
  <1>3. owned + cash <= after /\ rate * tokens <= cash * expScale
    OBVIOUS
  <1> HIDE DEF rate, owned, after
  <1>4. rate * n.totalSupply = rate * m.totalSupply + rate * tokens
    BY <1>1
  <1>5. (owned + cash) * expScale = owned * expScale + cash * expScale
    BY <1>1
  <1>6. (owned + cash) * expScale <= after * expScale
    BY <1>1, <1>3, ProductsCompare
  <1>7. /\ rate * m.totalSupply \in Int /\ rate * tokens \in Int
        /\ owned * expScale \in Int /\ cash * expScale \in Int /\ after * expScale \in Int
    BY <1>1
  <1>8. rate * n.totalSupply <= after * expScale
    <2>1. rate * n.totalSupply <= owned * expScale + cash * expScale
      BY <1>1, <1>3, <1>4, <1>7
    <2>2. owned * expScale + cash * expScale <= after * expScale
      BY <1>5, <1>6
    <2>3. rate * n.totalSupply \in Int
      BY <1>1
    <2> HIDE DEF rate
    <2> QED
      BY <1>7, <2>1, <2>2, <2>3
  <1> QED
    BY <1>1, <1>2, <1>8 DEF rate

LEMMA QuietKeepsRate ==
    ASSUME NEW m \in MarketType, NEW n \in MarketType, Quiet(m, n)
    PROVE  ExchangeRateStored(m) <= ExchangeRateStored(n)
PROOF
  <1>1. CASE m.totalSupply = 0
    BY <1>1, MarketAssumption DEF Quiet, ExchangeRateStored
  <1>2. CASE m.totalSupply > 0
    <2>1. /\ n.totalSupply = m.totalSupply + 0 /\ n.totalSupply > 0
          /\ CashPlusBorrowsMinusReserves(n) >= CashPlusBorrowsMinusReserves(m) + 0
      BY <1>2, StorageTypes DEF Quiet
    <2>2. ExchangeRateStored(m) * 0 <= 0 * expScale
      BY RateType, ExpScaleAssumption
    <2> QED
      BY <1>2, <2>1, <2>2, FairPriceKeepsRate
  <1> QED
    BY <1>1, <1>2, StorageTypes

(* A supply whose exchange rate is not negative covers the reserves. *)
LEMMA RateCoversReserves ==
    ASSUME NEW m \in MarketType, m.totalSupply > 0, ExchangeRateStored(m) >= 0
    PROVE  CashPlusBorrowsMinusReserves(m) >= 0
PROOF
  <1> DEFINE rate  == ExchangeRateStored(m)
             owned == CashPlusBorrowsMinusReserves(m)
  <1>1. /\ rate \in Nat /\ owned \in Int /\ m.totalSupply \in Nat /\ expScale \in Nat \ {0}
        /\ rate * m.totalSupply <= owned * expScale
    BY RateOfSupply, StorageTypes, ExpScaleAssumption
  <1> HIDE DEF rate, owned
  <1>2. rate * m.totalSupply \in Nat /\ 0 * expScale = 0
    BY <1>1
  <1>3. 0 * expScale <= owned * expScale
    <2>1. owned * expScale \in Int
      BY <1>1
    <2> QED
      BY <1>1, <1>2, <2>1
  <1>4. 0 <= owned
    BY <1>1, <1>3, FactorCancels
  <1> QED
    BY <1>1, <1>4 DEF owned

(* The jTokens minted, or burnt, for an amount are worth at most the       *)
(* amount, and one more would be worth more.                               *)
LEMMA TokensForAmount ==
    ASSUME NEW amount \in Nat, NEW rate \in Nat \ {0}
    PROVE  LET tokens == DivScalarByExpTruncate(amount, rate)
           IN  /\ tokens \in Nat
               /\ rate * tokens <= amount * expScale
               /\ amount * expScale < rate * (tokens + 1)
PROOF
  <1> DEFINE worth  == (expScale * amount) * expScale
             scaled == worth \div rate
             tokens == scaled \div expScale
  <1>1. /\ expScale \in Nat \ {0} /\ worth \in Nat
        /\ DivScalarByExpTruncate(amount, rate) = tokens
    BY ExpScaleAssumption DEF DivScalarByExpTruncate, Truncate
  <1>2. worth = (amount * expScale) * expScale
    BY <1>1
  <1> HIDE DEF worth
  <1>3. scaled \in Nat /\ scaled * rate <= worth /\ worth < scaled * rate + rate
    BY <1>1, FloorBounds, QuotientOfNat
  <1> HIDE DEF scaled
  <1>4. /\ tokens \in Nat /\ tokens * expScale <= scaled
        /\ scaled < tokens * expScale + expScale
    BY <1>1, <1>3, FloorBounds, QuotientOfNat
  <1> HIDE DEF tokens
  <1>5. /\ amount * expScale \in Nat /\ rate * tokens \in Nat /\ rate * (tokens + 1) \in Nat
        /\ tokens * expScale \in Nat /\ scaled * rate \in Nat
    BY <1>1, <1>3, <1>4
  <1>6. rate * tokens <= amount * expScale
    <2>1. (tokens * expScale) * rate <= scaled * rate
      BY <1>3, <1>4, <1>5, ProductsCompare
    <2>2. (tokens * expScale) * rate = (rate * tokens) * expScale
      BY <1>1, <1>4
    <2>3. (tokens * expScale) * rate <= (amount * expScale) * expScale
      BY <1>2, <1>3, <1>5, <2>1
    <2>4. (rate * tokens) * expScale <= (amount * expScale) * expScale
      BY <2>2, <2>3
    <2> QED
      BY <1>1, <1>5, <2>4, FactorCancels
  <1>7. ~(rate * (tokens + 1) <= amount * expScale)
    <2> SUFFICES ASSUME rate * (tokens + 1) <= amount * expScale
                 PROVE  FALSE
      OBVIOUS
    <2>1. (rate * (tokens + 1)) * expScale <= (amount * expScale) * expScale
      BY <1>1, <1>5, ProductsCompare
    <2>2. (rate * (tokens + 1)) * expScale = (tokens * expScale + expScale) * rate
      BY <1>1, <1>4
    <2>3. (scaled + 1) * rate <= (tokens * expScale + expScale) * rate
      <3>1. scaled + 1 <= tokens * expScale + expScale /\ tokens * expScale + expScale \in Int
        BY <1>1, <1>3, <1>4, <1>5
      <3> QED
        BY <1>3, <3>1, ProductsCompare
    <2>4. (scaled + 1) * rate = scaled * rate + rate
      BY <1>3
    <2>5. worth < (tokens * expScale + expScale) * rate
      <3>1. (tokens * expScale + expScale) * rate \in Int
        BY <1>1, <1>5
      <3> QED
        BY <1>1, <1>3, <1>5, <2>3, <2>4, <3>1
    <2>6. (tokens * expScale + expScale) * rate <= worth
      BY <1>2, <2>1, <2>2
    <2> QED
      BY <1>1, <1>4, <1>5, <2>5, <2>6
  <1> QED
    BY <1>1, <1>4, <1>5, <1>6, <1>7

(* The amount that jTokens are worth, truncated. *)
LEMMA AmountForTokens ==
    ASSUME NEW rate \in Nat, NEW tokens \in Nat
    PROVE  /\ MulScalarTruncate(rate, tokens) \in Nat
           /\ MulScalarTruncate(rate, tokens) * expScale <= rate * tokens
PROOF
  <1>1. rate * tokens \in Nat /\ expScale \in Nat \ {0}
    BY ExpScaleAssumption
  <1> QED
    BY <1>1, FloorBounds, QuotientOfNat DEF MulScalarTruncate, Truncate


--------------------------------------------------------------------------------
(***************************************************************************)
(* What is not quiet: the supply changes, for a price.                     *)
(***************************************************************************)

(* The storage n is m with cash more underlying and tokens more jTokens,   *)
(* neither of them in favour of who called.                                *)
Traded(m, n, cash, tokens) ==
    /\ CashPlusBorrowsMinusReserves(n) = CashPlusBorrowsMinusReserves(m) + cash
    /\ n.totalSupply = m.totalSupply + tokens
    /\ ExcessCash(n) = ExcessCash(m)
    /\ CapKept(m, n)
    /\ OpenCollateral(n)

Fair(m, cash, tokens) == ExchangeRateStored(m) * tokens <= cash * expScale

LEMMA MintIsFair ==
    ASSUME NEW m, NEW mem, NEW t, Sound(m, mem, t), OpenCollateral(m), NEW a \in Account,
           m.isCollateralTokenInit[a], NEW amount \in Nat, NEW isMember \in BOOLEAN,
           ~MintFreshReverts(m)
    PROVE  LET n      == MintFresh(m, a, amount, isMember)
               tokens == MintTokens(m, amount)
           IN  /\ tokens \in Nat
               /\ Traded(m, n, amount, tokens)
               /\ Fair(m, amount, tokens)
               /\ CollateralDrift(n) = CollateralDrift(m)
PROOF
  <1> DEFINE n      == MintFresh(m, a, amount, isMember)
             m2     == MintFresh(m, a, amount, FALSE)
             tokens == MintTokens(m, amount)
  <1>1. m \in MarketType /\ m2 \in MarketType /\ n \in MarketType
    BY MintIsSound DEF Sound
  <1>2. /\ tokens \in Nat
        /\ ExchangeRateStored(m) * tokens <= amount * expScale
    <2>1. ExchangeRateStored(m) \in Nat \ {0}
      BY <1>1, ExchangeRateType DEF MintFreshReverts
    <2> QED
      BY <2>1, TokensForAmount DEF MintTokens
  <1>3. n = IF isMember THEN IncreaseUserCollateral(m2, a, tokens) ELSE m2
    BY DEF MintFresh
  <1>4. /\ m2.internalCash = m.internalCash + amount /\ m2.cashOnChain = m.cashOnChain + amount
        /\ m2.totalBorrows = m.totalBorrows /\ m2.totalReserves = m.totalReserves
        /\ m2.totalSupply = m.totalSupply + tokens
        /\ m2.accountCollateralTokens = m.accountCollateralTokens
        /\ m2.totalCollateralTokens = m.totalCollateralTokens
        /\ m2.isCollateralTokenInit = m.isCollateralTokenInit
        /\ m2.collateralCap = m.collateralCap
    <2> HIDE DEF tokens
    <2> QED
      BY <1>1, SMTT(30) DEF MintFresh, DoTransferIn, MarketType, tokens
  <1> HIDE DEF n, m2, tokens
  <1>5. /\ Traded(m, m2, amount, tokens)
        /\ CollateralDrift(m2) = CollateralDrift(m)
    BY <1>1, <1>4, MoneyTypes, StorageTypes
    DEF Traded, CapKept, OpenCollateral, CollateralDrift, ExcessCash,
        CashPlusBorrowsMinusReserves
  <1>6. Quiet(m2, n) /\ OpenCollateral(n) /\ CashUnchanged(m2, n)
    <2>1. ASSUME isMember PROVE Prepared(m2, n) /\ CashUnchanged(m2, n)
      BY <1>1, <1>2, <1>3, <1>4, <1>5, <2>1, IncreaseIsQuiet DEF Traded
    <2>2. ASSUME ~isMember PROVE Prepared(m2, n) /\ CashUnchanged(m2, n)
      BY <1>1, <1>3, <1>5, <2>2, PreparedIsReflexive DEF Traded, CashUnchanged
    <2> QED
      BY <2>1, <2>2 DEF Prepared
  <1>7. CapKept(m, n)
    BY <1>1, <1>5, <1>6, CapKeptIsTransitive DEF Traded, Quiet
  <1>8. Traded(m, n, amount, tokens) /\ CollateralDrift(n) = CollateralDrift(m)
    BY <1>5, <1>6, <1>7
    DEF Traded, Quiet, CashUnchanged, ExcessCash, CashPlusBorrowsMinusReserves
  <1> QED
    BY <1>2, <1>8 DEF n, tokens, Fair

LEMMA RedeemIsTrade ==
    ASSUME NEW m, NEW mem, NEW t, Sound(m, mem, t), OpenCollateral(m), NEW a \in Account,
           m.isCollateralTokenInit[a], NEW tokens \in Nat, NEW amount \in Nat,
           amount <= m.internalCash, ~RedeemFreshReverts(m, a, tokens, amount)
    PROVE  LET n == RedeemFresh(m, a, tokens, amount)
           IN  /\ Traded(m, n, 0 - amount, 0 - tokens)
               /\ CollateralDrift(n) = CollateralDrift(m)
PROOF
  <1> DEFINE n == RedeemFresh(m, a, tokens, amount)
             taken == CollateralTokensOf(m, a, tokens)
             before == m.accountCollateralTokens
             after == [before EXCEPT ![a] = @ - taken]
  <1>1. m \in MarketType /\ n \in MarketType /\ CollateralHeld(m)
    BY RedeemIsSound DEF Sound
  <1>2. taken \in Nat /\ before \in Balances /\ before[a] - taken \in Nat
    BY <1>1, CollateralPart, FieldTypes DEF RedeemFreshReverts
  <1>3. /\ n.internalCash = m.internalCash - amount /\ n.cashOnChain = m.cashOnChain - amount
        /\ n.totalBorrows = m.totalBorrows /\ n.totalReserves = m.totalReserves
        /\ n.totalSupply = m.totalSupply - tokens
        /\ n.accountCollateralTokens = after
        /\ n.totalCollateralTokens = m.totalCollateralTokens - taken
        /\ n.isCollateralTokenInit = m.isCollateralTokenInit
        /\ n.collateralCap = m.collateralCap
    <2> HIDE DEF taken
    <2> QED
      BY <1>1, SMTT(30)
      DEF RedeemFresh, RedeemPaidOut, DoTransferOut, DecreaseUserCollateral, MarketType, taken
  <1> HIDE DEF n, taken
  <1>4. Total(after) = Total(before) - taken
    <2>1. Total(after) = Total(before) - before[a] + (before[a] - taken) /\ Total(before) \in Nat
      BY <1>2, TotalOfUpdate, TotalType
    <2>2. before[a] \in Nat
      BY <1>2 DEF Balances
    <2> HIDE DEF before, after
    <2> QED
      BY <1>2, <2>1, <2>2
  <1>5. CollateralDrift(n) = CollateralDrift(m)
    <2> HIDE DEF after
    <2> QED
      BY <1>1, <1>2, <1>3, <1>4, StorageTypes DEF CollateralDrift
  <1>6. CapKept(m, n)
    BY <1>1, <1>2, <1>3, StorageTypes DEF CapKept
  <1>7. OpenCollateral(n)
    BY <1>2, <1>3 DEF OpenCollateral, Balances
  <1> HIDE DEF after
  <1>8. /\ CashPlusBorrowsMinusReserves(n) = CashPlusBorrowsMinusReserves(m) + (0 - amount)
        /\ n.totalSupply = m.totalSupply + (0 - tokens)
        /\ ExcessCash(n) = ExcessCash(m)
    BY <1>1, <1>3, MoneyTypes, StorageTypes DEF ExcessCash, CashPlusBorrowsMinusReserves
  <1> QED
    BY <1>5, <1>6, <1>7, <1>8 DEF Traded, n

(* The protocol's share is burnt for reserves of at most its worth.        *)
LEMMA SeizeIsFair ==
    ASSUME NEW m, NEW mem, NEW t, Sound(m, mem, t), OpenCollateral(m),
           NEW liquidator \in Account, NEW borrower \in Account, liquidator # borrower,
           m.isCollateralTokenInit[liquidator], m.isCollateralTokenInit[borrower],
           NEW tokens \in Nat, ~SeizeInternalReverts(m, borrower, tokens)
    PROVE  LET n == SeizeInternal(m, liquidator, borrower, tokens)
               burnt == MulUIntExp(tokens, m.protocolSeizeShareMantissa)
           IN  /\ burnt \in Nat
               /\ \E amount \in Nat :
                     /\ Traded(m, n, 0 - amount, 0 - burnt)
                     /\ Fair(m, 0 - amount, 0 - burnt)
               /\ CollateralDrift(n) = CollateralDrift(m) + burnt
               /\ n.internalCash = m.internalCash
PROOF
  <1> DEFINE n == SeizeInternal(m, liquidator, borrower, tokens)
             burnt == MulUIntExp(tokens, m.protocolSeizeShareMantissa)
             rate == ExchangeRateStored(m)
             amount == MulScalarTruncate(rate, burnt)
             got == tokens - burnt
             before == m.accountCollateralTokens
             after == Moved(before, borrower, tokens, liquidator, got)
  <1>1. m \in MarketType /\ n \in MarketType
    BY SeizeIsSound DEF Sound
  <1>2. burnt \in 0 .. tokens /\ burnt \in Nat
    <2>1. m.protocolSeizeShareMantissa \in 0 .. expScale
      BY <1>1, MarketAssumption, ExpScaleAssumption DEF MarketType
    <2> QED
      BY <2>1, MulUIntExpBound
  <1>3. rate \in Nat
    BY <1>1, ExchangeRateType DEF SeizeInternalReverts
  <1>4. /\ n.accountCollateralTokens = after
        /\ n.totalReserves = m.totalReserves + amount
        /\ n.totalSupply = m.totalSupply - burnt
        /\ n.totalCollateralTokens = m.totalCollateralTokens
        /\ n.internalCash = m.internalCash /\ n.cashOnChain = m.cashOnChain
        /\ n.totalBorrows = m.totalBorrows
        /\ n.isCollateralTokenInit = m.isCollateralTokenInit
        /\ n.collateralCap = m.collateralCap
    BY <1>1 DEF SeizeInternal, MarketType
  <1>5. amount \in Nat /\ amount * expScale <= rate * burnt
    BY <1>2, <1>3, AmountForTokens
  <1> HIDE DEF n, burnt, rate, amount
  <1>6. got \in Nat /\ before \in Balances /\ tokens <= before[borrower]
    BY <1>1, <1>2, FieldTypes DEF SeizeInternalReverts
  <1>7. /\ Total(after) = Total(before) - tokens + got /\ Total(before) \in Nat
        /\ \A c \in Account \ {liquidator, borrower} : after[c] = before[c]
    <2> HIDE DEF before, got
    <2> QED
      BY <1>6, MovedBalances, TotalType
  <1>8. CollateralDrift(n) = CollateralDrift(m) + burnt
    <2> HIDE DEF after
    <2> QED
      BY <1>1, <1>2, <1>4, <1>7, StorageTypes DEF CollateralDrift
  <1>9. CapKept(m, n)
    BY <1>1, <1>4, StorageTypes DEF CapKept
  <1> HIDE DEF after
  <1>10. OpenCollateral(n)
    BY <1>4, <1>7 DEF OpenCollateral
  <1>11. Fair(m, 0 - amount, 0 - burnt)
    <2>1. /\ rate * (0 - burnt) = 0 - rate * burnt
          /\ (0 - amount) * expScale = 0 - amount * expScale
          /\ rate * burnt \in Nat /\ amount * expScale \in Nat
      BY <1>2, <1>3, <1>5, ExpScaleAssumption
    <2>2. rate * (0 - burnt) <= (0 - amount) * expScale
      BY <1>5, <2>1
    <2> QED
      BY <2>2 DEF Fair, rate
  <1>12. /\ CashPlusBorrowsMinusReserves(n) = CashPlusBorrowsMinusReserves(m) + (0 - amount)
         /\ n.totalSupply = m.totalSupply + (0 - burnt)
         /\ ExcessCash(n) = ExcessCash(m)
    BY <1>1, <1>2, <1>4, <1>5, MoneyTypes, StorageTypes
    DEF ExcessCash, CashPlusBorrowsMinusReserves
  <1>13. Traded(m, n, 0 - amount, 0 - burnt)
    BY <1>9, <1>10, <1>12 DEF Traded
  <1> QED
    BY <1>2, <1>4, <1>5, <1>8, <1>11, <1>13 DEF n, burnt


--------------------------------------------------------------------------------
(***************************************************************************)
(* What the action properties of Market say of a step from m to n.         *)
(***************************************************************************)
CapStep(m, n) ==
    \/ n.totalCollateralTokens <= m.totalCollateralTokens
    \/ n.isCollateralTokenInit # m.isCollateralTokenInit
    \/ m.collateralCap = 0
    \/ n.totalCollateralTokens <= m.collateralCap

DriftStep ==
    CollateralDrift(market') = CollateralDrift(market) \/ BurntBySeizure

CoverStep(m, n) ==
    CashPlusBorrowsMinusReserves(m) >= 0 /\ n.totalSupply > 0 =>
        CashPlusBorrowsMinusReserves(n) >= 0

ExcessStep ==
    \/ ExcessCash(market') = ExcessCash(market)
    \/ Donated
    \/ ExcessCounted(ExcessCash(market), 0)
    \/ BecomeImplementation /\ ExcessCounted(0, ExcessCash(market))

RateStep(m, n) ==
    \/ m.totalSupply = 0 \/ n.totalSupply = 0
    \/ ExchangeRateStored(n) >= ExchangeRateStored(m)

Promises(m, n) == CapStep(m, n) /\ CoverStep(m, n)

LEMMA QuietKeepsPromises ==
    ASSUME NEW m \in MarketType, NEW n \in MarketType, Quiet(m, n)
    PROVE  Promises(m, n) /\ RateStep(m, n)
PROOF
  <1>1. CapStep(m, n) /\ CoverStep(m, n)
    BY StorageTypes DEF Quiet, CapKept, CapStep, CoverStep
  <1>2. RateStep(m, n)
    BY QuietKeepsRate, RateType DEF RateStep
  <1> QED
    BY <1>1, <1>2 DEF Promises

(* Quiet changes from m to n, then a trade that leaves o. *)
LEMMA TradeKeepsPromises ==
    ASSUME NEW m \in MarketType, NEW n \in MarketType, NEW o \in MarketType,
           Prepared(m, n), NEW cash \in Int, NEW tokens \in Int, Traded(n, o, cash, tokens)
    PROVE  /\ CapStep(m, o) /\ ExcessCash(o) = ExcessCash(m)
           /\ Fair(n, cash, tokens) => Promises(m, o) /\ RateStep(m, o)
PROOF
  <1>1. CapStep(m, o)
    BY CapKeptIsTransitive DEF Prepared, Quiet, Traded, CapKept, CapStep
  <1>2. ExcessCash(o) = ExcessCash(m)
    BY DEF Prepared, Quiet, Traded
  <1>3. ASSUME Fair(n, cash, tokens) PROVE CoverStep(m, o) /\ RateStep(m, o)
    <2>1. ASSUME n.totalSupply > 0, o.totalSupply > 0
          PROVE  ExchangeRateStored(n) <= ExchangeRateStored(o)
      <3>1. /\ CashPlusBorrowsMinusReserves(o) >= CashPlusBorrowsMinusReserves(n) + cash
            /\ o.totalSupply = n.totalSupply + tokens
            /\ ExchangeRateStored(n) * tokens <= cash * expScale
        BY <1>3, StorageTypes DEF Traded, Fair
      <3> QED
        BY <2>1, <3>1, FairPriceKeepsRate
    <2>2. ExchangeRateStored(m) <= ExchangeRateStored(n)
      BY QuietKeepsRate DEF Prepared
    <2>3. RateStep(m, o)
      <3> SUFFICES ASSUME m.totalSupply # 0, o.totalSupply # 0
                   PROVE  ExchangeRateStored(o) >= ExchangeRateStored(m)
        BY DEF RateStep
      <3>1. n.totalSupply > 0 /\ o.totalSupply > 0
        BY StorageTypes DEF Prepared, Quiet
      <3> QED
        BY <2>1, <2>2, <3>1, RateType
    <2>4. CoverStep(m, o)
      <3> SUFFICES ASSUME CashPlusBorrowsMinusReserves(m) >= 0, o.totalSupply > 0
                   PROVE  CashPlusBorrowsMinusReserves(o) >= 0
        BY DEF CoverStep
      <3>1. CashPlusBorrowsMinusReserves(n) >= 0
        BY StorageTypes DEF Prepared, Quiet
      <3>2. CASE n.totalSupply > 0
        <4>1. ExchangeRateStored(o) >= 0
          BY <2>1, <3>1, <3>2, RateType
        <4> QED
          BY <4>1, RateCoversReserves
      <3>3. CASE n.totalSupply = 0
        <4> DEFINE rate == ExchangeRateStored(n)
        <4>1. tokens \in Nat /\ rate \in Nat
          BY <3>1, <3>3, RateType, StorageTypes DEF Traded
        <4>2. rate * tokens <= cash * expScale
          BY <1>3 DEF Fair
        <4> HIDE DEF rate
        <4>3. 0 <= cash * expScale
          <5>1. rate * tokens \in Nat /\ cash * expScale \in Int
            BY <4>1, ExpScaleAssumption
          <5> QED
            BY <4>2, <5>1
        <4>4. 0 <= cash
          <5>1. 0 * expScale <= cash * expScale
            BY <4>3, ExpScaleAssumption
          <5> QED
            BY <5>1, ExpScaleAssumption, FactorCancels
        <4> QED
          BY <3>1, <4>4, StorageTypes DEF Traded
      <3> QED
        BY <3>2, <3>3, StorageTypes
    <2> QED
      BY <2>3, <2>4
  <1> QED
    BY <1>1, <1>2, <1>3 DEF Promises

--------------------------------------------------------------------------------
(***************************************************************************)
(* The invariant of the steps: what Inv says, and what a flash loan has    *)
(* booked while its receiver's callback runs.                              *)
(***************************************************************************)
LoanIsBooked ==
    ~notEntered =>
        /\ OpenCollateral(loan.marketBefore)
        /\ market.internalCash = loan.cashBefore - loan.amount
        /\ ExcessCash(loan.marketBefore) = loan.cashOnChainBefore - loan.cashBefore
        /\ CollateralDrift(loan.marketBefore) = CollateralDrift(market)

StepInv ==
    /\ Inv
    /\ OpenCollateral(market)
    /\ LoanIsBooked

LEMMA InitStepInv ==
    Init => StepInv
PROOF
  <1> SUFFICES ASSUME Init PROVE StepInv
    OBVIOUS
  <1>1. PICK balance \in [Account -> LegacyBalances] : market = UpgradedMarket(balance)
    BY DEF Init
  <1>2. market.accountCollateralTokens = [a \in Account |-> 0]
    BY <1>1 DEF UpgradedMarket, InitializedMarket
  <1> QED
    BY <1>2, InitInv DEF Init, StepInv, OpenCollateral, LoanIsBooked

LEMMA StorageOfInv ==
    ASSUME Inv
    PROVE  Sound(market, member, now) /\ market \in MarketType
BY DEF Inv, Sound

LEMMA AccruedIsPrepared ==
    ASSUME StepInv, NEW m \in Accrued(market)
    PROVE  Prepared(market, m) /\ Sound(m, member, now) /\ m \in MarketType
PROOF
  <1>1. PICK rate \in BorrowRates : m = AccrueInterest(market, now, rate)
    BY DEF Accrued, Accruals
  <1>2. Prepared(market, m)
    BY <1>1, AccrueInterestIsQuiet DEF StepInv, Inv
  <1> QED
    BY <1>2, AccruedIsSound DEF StepInv, Sound

LEMMA InitializedIsPrepared ==
    ASSUME NEW m, Sound(m, member, now), OpenCollateral(m), NEW a \in Account
    PROVE  LET n == Initialized(m, a)
           IN  /\ Prepared(m, n) /\ n.isCollateralTokenInit[a]
               /\ Sound(n, member, now) /\ n \in MarketType
PROOF
  <1> DEFINE isMember == a \in member
             n == InitializeAccountCollateralTokens(m, a, isMember)
  <1>1. isMember \in BOOLEAN
    OBVIOUS
  <1>2. Initialized(m, a) = n
    BY DEF Initialized
  <1> HIDE DEF isMember
  <1>3. Prepared(m, n) /\ n.isCollateralTokenInit[a]
    BY <1>1, InitializeIsQuiet
  <1>4. Sound(n, member, now)
    BY <1>1, InitializeIsSound
  <1> HIDE DEF n
  <1> QED
    BY <1>2, <1>3, <1>4 DEF Sound

(* An action that only prepares. *)
KeptBesideRate == OpenCollateral(market') /\ Promises(market, market') /\ DriftStep /\ ExcessStep

StepKept == KeptBesideRate /\ RateStep(market, market')

LEMMA PreparedStep ==
    ASSUME StepInv, market' \in MarketType, Prepared(market, market')
    PROVE  StepKept
BY StorageOfInv, QuietKeepsPromises
DEF StepInv, Prepared, Quiet, StepKept, KeptBesideRate, DriftStep, ExcessStep

LEMMA QuietStep ==
    ASSUME StepInv, market' \in MarketType, Quiet(market, market'), OpenCollateral(market')
    PROVE  StepKept
BY StorageOfInv, QuietKeepsPromises
DEF StepInv, Quiet, StepKept, KeptBesideRate, DriftStep, ExcessStep

LEMMA FairStep ==
    ASSUME StepInv, NEW m \in MarketType, Prepared(market, m), market' \in MarketType,
           NEW cash \in Int, NEW tokens \in Int, Traded(m, market', cash, tokens),
           Fair(m, cash, tokens), DriftStep
    PROVE  StepKept
PROOF
  <1>1. market \in MarketType
    BY StorageOfInv DEF StepInv
  <1>2. Promises(market, market') /\ RateStep(market, market') /\ ExcessStep
    BY <1>1, TradeKeepsPromises DEF ExcessStep
  <1> QED
    BY <1>2 DEF Traded, StepKept, KeptBesideRate

(* Preparing does not drift, so that nothing else does.                    *)
LEMMA DriftKept ==
    ASSUME NEW m, Prepared(market, m), CollateralDrift(market') = CollateralDrift(m)
    PROVE  DriftStep
BY DEF Prepared, Quiet, DriftStep


--------------------------------------------------------------------------------
(***************************************************************************)
(* Calls of suppliers.                                                     *)
(***************************************************************************)
LEMMA MintStep ==
    ASSUME StepInv, Inv', NEW a \in Account, NEW amount \in Amounts, Mint(a, amount)
    PROVE  StepKept
PROOF
  <1>1. PICK m0 \in Accrued(market) :
          \/ market' = Initialized(m0, a)
          \/ /\ ~MintFreshReverts(Initialized(m0, a))
             /\ \E actual \in Received(Initialized(m0, a), amount) :
                  market' = MintFresh(Initialized(m0, a), a, actual, a \in member)
    BY DEF Mint
  <1> DEFINE m == Initialized(m0, a)
             isMember == a \in member
  <1>2. /\ Prepared(market, m0) /\ Sound(m0, member, now) /\ m0 \in MarketType
        /\ OpenCollateral(m0)
    BY AccruedIsPrepared DEF Prepared
  <1>3. /\ Prepared(m0, m) /\ m.isCollateralTokenInit[a]
        /\ Sound(m, member, now) /\ m \in MarketType
    BY <1>2, InitializedIsPrepared
  <1>4. market \in MarketType /\ market' \in MarketType
    BY DEF StepInv, Inv, Sound
  <1> HIDE DEF m
  <1>5. Prepared(market, m) /\ OpenCollateral(m)
    BY <1>2, <1>3, <1>4, PreparedIsTransitive DEF Prepared
  <1>6. ASSUME NEW actual \in Received(m, amount), ~MintFreshReverts(m),
               market' = MintFresh(m, a, actual, isMember)
        PROVE  StepKept
    <2> DEFINE tokens == MintTokens(m, actual)
    <2>1. actual \in Nat /\ isMember \in BOOLEAN
      BY <1>3, MarketInputsAssumption, ReceivedType
    <2> HIDE DEF isMember
    <2>2. /\ tokens \in Nat /\ Traded(m, market', actual, tokens) /\ Fair(m, actual, tokens)
          /\ CollateralDrift(market') = CollateralDrift(m)
      BY <1>3, <1>5, <1>6, <2>1, MintIsFair
    <2> HIDE DEF tokens
    <2> QED
      BY <1>3, <1>4, <1>5, <2>1, <2>2, DriftKept, FairStep
  <1>7. ASSUME market' = m PROVE StepKept
    BY <1>4, <1>5, <1>7, PreparedStep
  <1> QED
    BY <1>1, <1>6, <1>7 DEF m

(* What a redemption pays is at most what its tokens are worth, unless the *)
(* amount was given and the tokens are rounded down.  Then one token more  *)
(* would be worth more, so that a supply that stays still covers the       *)
(* reserves.                                                               *)
LEMMA RedeemStep ==
    ASSUME StepInv, Inv', NEW a \in Account, NEW tokensIn \in Nat, NEW amountIn \in Nat,
           Redeem(a, tokensIn, amountIn)
    PROVE  KeptBesideRate /\ (tokensIn > 0 => StepKept)
PROOF
  <1>1. PICK m0 \in Accrued(market) :
          LET m      == Initialized(m0, a)
              tokens == RedeemTokens(m, tokensIn, amountIn)
              amount == RedeemAmount(m, tokensIn, amountIn)
          IN  /\ ~RedeemTokensReverts(m, tokensIn)
              /\ \/ market' = m
                 \/ /\ amount <= m.internalCash
                    /\ ~RedeemFreshReverts(m, a, tokens, amount)
                    /\ market' = RedeemFresh(m, a, tokens, amount)
    BY DEF Redeem
  <1> DEFINE m      == Initialized(m0, a)
             tokens == RedeemTokens(m, tokensIn, amountIn)
             amount == RedeemAmount(m, tokensIn, amountIn)
             rate   == ExchangeRateStored(m)
             owned  == CashPlusBorrowsMinusReserves(m)
  <1>2. /\ Prepared(market, m0) /\ Sound(m0, member, now) /\ m0 \in MarketType
        /\ OpenCollateral(m0)
    BY AccruedIsPrepared DEF Prepared
  <1>3. /\ Prepared(m0, m) /\ m.isCollateralTokenInit[a]
        /\ Sound(m, member, now) /\ m \in MarketType
    BY <1>2, InitializedIsPrepared
  <1>4. market \in MarketType /\ market' \in MarketType
    BY DEF StepInv, Inv, Sound
  <1>5. /\ ~RedeemTokensReverts(m, tokensIn)
        /\ \/ market' = m
           \/ /\ amount <= m.internalCash
              /\ ~RedeemFreshReverts(m, a, tokens, amount)
              /\ market' = RedeemFresh(m, a, tokens, amount)
    BY <1>1
  <1> HIDE DEF m
  <1>6. Prepared(market, m) /\ OpenCollateral(m)
    BY <1>2, <1>3, <1>4, PreparedIsTransitive DEF Prepared
  <1>7. CASE market' = m
    BY <1>4, <1>6, <1>7, PreparedStep DEF StepKept
  <1>8. CASE /\ amount <= m.internalCash
             /\ ~RedeemFreshReverts(m, a, tokens, amount)
             /\ market' = RedeemFresh(m, a, tokens, amount)
    <2>1. tokens \in Nat /\ amount \in Nat
      BY <1>3, <1>5, RedeemTypes
    <2>2. rate \in Nat /\ (tokensIn = 0 => rate # 0)
      BY <1>3, <1>5, ExchangeRateType DEF RedeemTokensReverts
    <2>3. tokensIn > 0 => amount * expScale <= rate * tokens
      BY <2>2, AmountForTokens DEF RedeemTokens, RedeemAmount
    <2>4. tokensIn = 0 => amount * expScale < rate * (tokens + 1)
      BY <2>2, TokensForAmount DEF RedeemTokens, RedeemAmount
    <2> HIDE DEF tokens, amount
    <2>5. /\ Traded(m, market', 0 - amount, 0 - tokens)
          /\ CollateralDrift(market') = CollateralDrift(m)
      BY <1>3, <1>6, <1>8, <2>1, RedeemIsTrade
    <2>6. 0 - amount \in Int /\ 0 - tokens \in Int
      BY <2>1
    <2>7. /\ CapStep(market, market') /\ ExcessCash(market') = ExcessCash(market)
          /\ Fair(m, 0 - amount, 0 - tokens)
               => Promises(market, market') /\ RateStep(market, market')
      BY <1>3, <1>4, <1>6, <2>5, <2>6, TradeKeepsPromises
    <2>8. OpenCollateral(market') /\ DriftStep /\ ExcessStep
      BY <1>6, <2>5, <2>7, DriftKept DEF Traded, ExcessStep
    <2>9. CASE tokensIn > 0
      <3> HIDE DEF rate
      <3>1. /\ rate * (0 - tokens) = 0 - rate * tokens
            /\ (0 - amount) * expScale = 0 - amount * expScale
            /\ rate * tokens \in Nat /\ amount * expScale \in Nat
        BY <2>1, <2>2, ExpScaleAssumption
      <3>2. rate * (0 - tokens) <= (0 - amount) * expScale
        BY <2>3, <2>9, <3>1
      <3>3. Fair(m, 0 - amount, 0 - tokens)
        BY <3>2 DEF Fair, rate
      <3> QED
        BY <2>7, <2>8, <3>3 DEF StepKept, KeptBesideRate
    <2>10. CASE tokensIn = 0
      <3>1. ASSUME market'.totalSupply > 0
            PROVE  CashPlusBorrowsMinusReserves(market') >= 0
        <4>1. /\ m.totalSupply \in Nat /\ tokens + 1 <= m.totalSupply /\ m.totalSupply > 0
              /\ CashPlusBorrowsMinusReserves(market') = owned - amount
              /\ owned \in Int
          BY <1>3, <1>4, <2>1, <2>5, <3>1, StorageTypes DEF Traded
        <4>2. rate * m.totalSupply <= owned * expScale
          BY <1>3, <4>1, RateOfSupply
        <4> HIDE DEF rate, owned
        <4>3. rate * (tokens + 1) <= rate * m.totalSupply
          <5>1. (tokens + 1) * rate <= m.totalSupply * rate
            BY <2>1, <2>2, <4>1, ProductsCompare
          <5>2. /\ (tokens + 1) * rate = rate * (tokens + 1)
                /\ m.totalSupply * rate = rate * m.totalSupply
            BY <2>1, <2>2, <4>1
          <5> QED
            BY <5>1, <5>2
        <4>4. amount * expScale <= owned * expScale
          <5>1. /\ amount * expScale \in Int /\ rate * (tokens + 1) \in Int
                /\ rate * m.totalSupply \in Int /\ owned * expScale \in Int
            BY <2>1, <2>2, <4>1, ExpScaleAssumption
          <5> QED
            BY <2>4, <2>10, <4>2, <4>3, <5>1
        <4>5. amount <= owned
          BY <2>1, <4>1, <4>4, ExpScaleAssumption, FactorCancels
        <4> QED
          BY <2>1, <4>1, <4>5
      <3>2. CoverStep(market, market')
        BY <3>1 DEF CoverStep
      <3> QED
        BY <2>7, <2>10, <2>8, <3>2 DEF Promises, KeptBesideRate
    <2> QED
      BY <2>9, <2>10
  <1> QED
    BY <1>5, <1>7, <1>8

(***************************************************************************)
(* Calls of borrowers.                                                     *)
(***************************************************************************)
LEMMA BorrowStep ==
    ASSUME StepInv, Inv', NEW a \in Account, NEW amount \in Amounts, Borrow(a, amount)
    PROVE  StepKept
PROOF
  <1>1. PICK m0 \in Accrued(market) :
          LET m == IF a \in member THEN m0 ELSE RegisterCollateral(m0, a, FALSE)
          IN  \/ market' = m
              \/ market' = RefreshAccountBorrows(m, a)
              \/ /\ amount <= m.internalCash
                 /\ market' = BorrowFresh(m, a, amount)
    BY DEF Borrow
  <1> DEFINE m == IF a \in member THEN m0 ELSE RegisterCollateral(m0, a, FALSE)
  <1>2. /\ Prepared(market, m0) /\ Sound(m0, member, now) /\ m0 \in MarketType
        /\ OpenCollateral(m0)
    BY AccruedIsPrepared DEF Prepared
  <1>3. market \in MarketType /\ market' \in MarketType
    BY DEF StepInv, Inv, Sound
  <1>4. Prepared(m0, m) /\ Sound(m, member, now)
    BY <1>2, PreparedIsReflexive, RegisterIsQuiet, RegisterIsSound
  <1>5. \/ market' = m
        \/ market' = RefreshAccountBorrows(m, a)
        \/ amount <= m.internalCash /\ market' = BorrowFresh(m, a, amount)
    BY <1>1
  <1> HIDE DEF m
  <1>6. Prepared(market, m) /\ OpenCollateral(m) /\ m \in MarketType
    BY <1>2, <1>3, <1>4, PreparedIsTransitive DEF Prepared, Sound
  <1>7. Prepared(m, market')
    BY <1>4, <1>5, <1>6, PreparedIsReflexive, RefreshIsQuiet, BorrowIsQuiet,
       MarketInputsAssumption
  <1>8. Prepared(market, market')
    BY <1>3, <1>6, <1>7, PreparedIsTransitive
  <1> QED
    BY <1>3, <1>8, PreparedStep

LEMMA RepayBorrowStep ==
    ASSUME StepInv, Inv', NEW a \in Account, NEW repayAmount \in Amounts \cup {UIntMax},
           RepayBorrow(a, repayAmount)
    PROVE  StepKept
PROOF
  <1>1. PICK m \in Accrued(market) :
          \/ market' = RefreshAccountBorrows(m, a)
          \/ \E actual \in Received(m, RepayAmount(m, a, repayAmount)) :
               /\ ~RepayBorrowFreshReverts(m, a, actual)
               /\ market' = RepayBorrowFresh(m, a, actual)
    BY DEF RepayBorrow
  <1>2. /\ Prepared(market, m) /\ Sound(m, member, now) /\ m \in MarketType
        /\ OpenCollateral(m)
    BY AccruedIsPrepared DEF Prepared
  <1>3. RepayAmount(m, a, repayAmount) \in Nat
    BY <1>2, MarketInputsAssumption, RepayAmountType
  <1>4. Received(m, RepayAmount(m, a, repayAmount)) \subseteq Nat
    BY <1>2, <1>3, ReceivedType
  <1>5. market \in MarketType /\ market' \in MarketType
    BY DEF StepInv, Inv, Sound
  <1>6. Prepared(m, market')
    BY <1>1, <1>2, <1>4, RefreshIsQuiet, RepayBorrowIsQuiet
  <1>7. Prepared(market, market')
    BY <1>2, <1>5, <1>6, PreparedIsTransitive
  <1> QED
    BY <1>5, <1>7, PreparedStep


(***************************************************************************)
(* Liquidation and transfers.                                              *)
(***************************************************************************)
(* Cash comes in or stays, and the share of a seizure is the same. *)
SeizurePrepared(m, n) ==
    /\ m.internalCash <= n.internalCash
    /\ n.protocolSeizeShareMantissa = m.protocolSeizeShareMantissa

LEMMA SeizureIsPrepared ==
    ASSUME NEW m \in MarketType
    PROVE  /\ \A rate \in BorrowRates : SeizurePrepared(m, AccrueInterest(m, now, rate))
           /\ \A a \in Account, amount \in Nat :
                  SeizurePrepared(m, RepayBorrowFresh(m, a, amount))
           /\ \A a \in Account : SeizurePrepared(m, Initialized(m, a))
PROOF
  <1>1. m.internalCash \in Nat
    BY DEF MarketType
  <1>2. ASSUME NEW rate \in BorrowRates PROVE SeizurePrepared(m, AccrueInterest(m, now, rate))
    BY <1>1 DEF SeizurePrepared, AccrueInterest, MarketType
  <1>3. ASSUME NEW a \in Account, NEW amount \in Nat
        PROVE  SeizurePrepared(m, RepayBorrowFresh(m, a, amount))
    BY <1>1 DEF SeizurePrepared, RepayBorrowFresh, SetAccountBorrows, DoTransferIn, MarketType
  <1>4. ASSUME NEW a \in Account PROVE SeizurePrepared(m, Initialized(m, a))
    BY <1>1 DEF SeizurePrepared, Initialized, InitializeAccountCollateralTokens, MarketType
  <1> QED
    BY <1>2, <1>3, <1>4

LEMMA SeizedStep ==
    ASSUME StepInv, NEW m, Sound(m, member, now), Prepared(market, m),
           SeizurePrepared(market, m),
           NEW liquidator \in Account, NEW borrower \in Account, liquidator # borrower,
           NEW tokens \in Amounts, market' \in Seized(m, liquidator, borrower, tokens),
           market' \in MarketType, Seizes(tokens)
    PROVE  StepKept
PROOF
  <1> DEFINE m1 == Initialized(m, liquidator)
             m2 == Initialized(m1, borrower)
  <1>1. /\ market \in MarketType /\ m \in MarketType /\ OpenCollateral(m)
        /\ tokens \in Nat
    BY StorageOfInv, MarketInputsAssumption DEF StepInv, Sound, Prepared
  <1>2. /\ Prepared(m, m1) /\ m1.isCollateralTokenInit[liquidator]
        /\ Sound(m1, member, now) /\ m1 \in MarketType /\ SeizurePrepared(m, m1)
    BY <1>1, InitializedIsPrepared, SeizureIsPrepared
  <1>3. \/ market' = m2
        \/ /\ ~SeizeInternalReverts(m2, borrower, tokens)
           /\ market' = SeizeInternal(m2, liquidator, borrower, tokens)
    BY DEF Seized
  <1> HIDE DEF m1
  <1>4. /\ Prepared(m1, m2) /\ m2.isCollateralTokenInit[borrower]
        /\ Sound(m2, member, now) /\ m2 \in MarketType /\ SeizurePrepared(m1, m2)
    BY <1>2, InitializedIsPrepared, SeizureIsPrepared DEF Prepared
  <1> HIDE DEF m2
  <1>5. m2.isCollateralTokenInit[liquidator] /\ OpenCollateral(m2)
    BY <1>2, <1>4 DEF Prepared, Quiet, CapKept
  <1>6. Prepared(market, m2)
    BY <1>1, <1>2, <1>4, PreparedIsTransitive
  <1>7. CASE market' = m2
    BY <1>4, <1>6, <1>7, PreparedStep
  <1>8. CASE /\ ~SeizeInternalReverts(m2, borrower, tokens)
             /\ market' = SeizeInternal(m2, liquidator, borrower, tokens)
    <2> DEFINE burnt == MulUIntExp(tokens, m2.protocolSeizeShareMantissa)
    <2>1. /\ burnt \in Nat
          /\ \E amount \in Nat :
                /\ Traded(m2, market', 0 - amount, 0 - burnt)
                /\ Fair(m2, 0 - amount, 0 - burnt)
          /\ CollateralDrift(market') = CollateralDrift(m2) + burnt
          /\ market'.internalCash = m2.internalCash
      BY <1>1, <1>4, <1>5, <1>8, SeizeIsFair
    <2>2. /\ burnt = MulUIntExp(tokens, market.protocolSeizeShareMantissa)
          /\ market'.internalCash >= market.internalCash
      <3>1. m2.protocolSeizeShareMantissa = market.protocolSeizeShareMantissa
        BY <1>2, <1>4 DEF SeizurePrepared
      <3>2. market'.internalCash >= market.internalCash
        <4>1. /\ market.internalCash \in Nat /\ m.internalCash \in Nat
              /\ m1.internalCash \in Nat /\ m2.internalCash \in Nat
          BY <1>1, <1>2, <1>4 DEF MarketType
        <4> QED
          BY <1>2, <1>4, <2>1, <4>1 DEF SeizurePrepared
      <3> QED
        BY <3>1, <3>2
    <2> HIDE DEF burnt
    <2>3. PICK amount \in Nat : /\ Traded(m2, market', 0 - amount, 0 - burnt)
                               /\ Fair(m2, 0 - amount, 0 - burnt)
      BY <2>1
    <2>4. /\ CollateralDrift(market') - CollateralDrift(market) = burnt
          /\ market.totalSupply - market'.totalSupply = burnt
      BY <1>1, <1>4, <1>6, <2>1, <2>3, StorageTypes DEF Prepared, Quiet, Traded
    <2>5. DriftStep
      BY <2>2, <2>4 DEF DriftStep, BurntBySeizure
    <2>6. 0 - amount \in Int /\ 0 - burnt \in Int
      BY <2>1
    <2> QED
      BY <1>4, <1>6, <2>3, <2>5, <2>6, FairStep
  <1> QED
    BY <1>3, <1>7, <1>8

LEMMA SeizeStep ==
    ASSUME StepInv, Inv', NEW liquidator \in Account, NEW borrower \in Account,
           NEW tokens \in Amounts, Seize(liquidator, borrower, tokens)
    PROVE  StepKept
PROOF
  <1>1. PICK m \in Accrued(market) : market' \in Seized(m, liquidator, borrower, tokens)
    BY DEF Seize
  <1>2. Prepared(market, m) /\ Sound(m, member, now) /\ SeizurePrepared(market, m)
    BY AccruedIsPrepared, StorageOfInv, SeizureIsPrepared DEF StepInv, Accrued, Accruals
  <1>3. liquidator # borrower /\ market' \in MarketType /\ Seizes(tokens)
    BY DEF Seize, Inv, Sound, Seizes
  <1> QED
    BY <1>1, <1>2, <1>3, SeizedStep

LEMMA LiquidateBorrowStep ==
    ASSUME StepInv, Inv', NEW liquidator \in Account, NEW borrower \in Account,
           NEW repayAmount \in Amounts, NEW tokens \in Amounts,
           LiquidateBorrow(liquidator, borrower, repayAmount, tokens)
    PROVE  StepKept
PROOF
  <1>1. PICK m \in Accrued(market) :
          \E actual \in Received(m, repayAmount) :
            /\ ~RepayBorrowFreshReverts(m, borrower, actual)
            /\ market' \in Seized(RepayBorrowFresh(m, borrower, actual),
                                  liquidator, borrower, tokens)
    BY DEF LiquidateBorrow
  <1>2. PICK actual \in Received(m, repayAmount) :
            /\ ~RepayBorrowFreshReverts(m, borrower, actual)
            /\ market' \in Seized(RepayBorrowFresh(m, borrower, actual),
                                  liquidator, borrower, tokens)
    BY <1>1
  <1> DEFINE repaid == RepayBorrowFresh(m, borrower, actual)
  <1>3. /\ Prepared(market, m) /\ Sound(m, member, now) /\ m \in MarketType
        /\ OpenCollateral(m) /\ SeizurePrepared(market, m)
    BY AccruedIsPrepared, StorageOfInv, SeizureIsPrepared
    DEF Prepared, StepInv, Accrued, Accruals
  <1>4. actual \in Nat
    BY <1>3, MarketInputsAssumption, ReceivedType
  <1>5. Sound(repaid, member, now) /\ Prepared(m, repaid) /\ SeizurePrepared(m, repaid)
    BY <1>2, <1>3, <1>4, RepayBorrowIsSound, RepayBorrowIsQuiet, SeizureIsPrepared
  <1>6. market' \in Seized(repaid, liquidator, borrower, tokens)
    BY <1>2
  <1> HIDE DEF repaid
  <1>7. Prepared(market, repaid)
    BY <1>3, <1>5, StorageOfInv, PreparedIsTransitive DEF StepInv, Sound
  <1>8. SeizurePrepared(market, repaid)
    <2>1. /\ market.internalCash \in Nat /\ m.internalCash \in Nat
          /\ repaid.internalCash \in Nat
      BY <1>3, <1>5, StorageOfInv DEF StepInv, Sound, MarketType
    <2> QED
      BY <1>3, <1>5, <2>1 DEF SeizurePrepared
  <1>9. liquidator # borrower /\ market' \in MarketType /\ Seizes(tokens)
    BY DEF LiquidateBorrow, Inv, Sound, Seizes
  <1> QED
    BY <1>5, <1>6, <1>7, <1>8, <1>9, SeizedStep

LEMMA TransferStep ==
    ASSUME StepInv, Inv', NEW spender \in Account, NEW src \in Account, NEW dst \in Account,
           NEW tokens \in Amounts, Transfer(spender, src, dst, tokens)
    PROVE  StepKept
PROOF
  <1> DEFINE m1 == Initialized(market, src)
             m == Initialized(m1, dst)
  <1>1. market \in MarketType /\ Sound(market, member, now) /\ OpenCollateral(market)
    BY StorageOfInv DEF StepInv
  <1>2. /\ Prepared(market, m1) /\ m1.isCollateralTokenInit[src]
        /\ Sound(m1, member, now) /\ m1 \in MarketType
    BY <1>1, InitializedIsPrepared
  <1>3. \/ market' = m
        \/ /\ src # dst
           /\ ~TransferTokensReverts(m, spender, src, tokens)
           /\ market' = TransferTokens(m, spender, src, dst, tokens)
    BY DEF Transfer
  <1> HIDE DEF m1
  <1>4. /\ Prepared(m1, m) /\ m.isCollateralTokenInit[dst]
        /\ Sound(m, member, now) /\ m \in MarketType
    BY <1>2, InitializedIsPrepared DEF Prepared
  <1> HIDE DEF m
  <1>5. m.isCollateralTokenInit[src] /\ OpenCollateral(m)
    BY <1>2, <1>4 DEF Prepared, Quiet, CapKept
  <1>6. Prepared(m, market')
    BY <1>3, <1>4, <1>5, MarketInputsAssumption, PreparedIsReflexive, TransferTokensIsQuiet
  <1>7. market' \in MarketType
    BY DEF Inv, Sound
  <1>8. Prepared(market, m)
    BY <1>1, <1>2, <1>4, PreparedIsTransitive
  <1>9. Prepared(market, market')
    BY <1>1, <1>4, <1>6, <1>7, <1>8, PreparedIsTransitive
  <1> QED
    BY <1>7, <1>9, PreparedStep

LEMMA ApproveStep ==
    ASSUME StepInv, Inv', NEW src \in Account, NEW spender \in Account, NEW amount \in Allowances,
           Approve(src, spender, amount)
    PROVE  StepKept /\ market'.internalCash = market.internalCash
                    /\ ExchangeRateStored(market') = ExchangeRateStored(market)
PROOF
  <1>1. market \in MarketType /\ market' \in MarketType
    BY DEF StepInv, Inv, Sound
  <1>2. CollateralUnchanged(market, market') /\ CashUnchanged(market, market')
    BY <1>1 DEF Approve, CollateralUnchanged, CashUnchanged, MarketType
  <1>3. /\ CashPlusBorrowsMinusReserves(market') = CashPlusBorrowsMinusReserves(market)
        /\ ExcessCash(market') = ExcessCash(market)
    BY <1>2 DEF CashUnchanged, CashPlusBorrowsMinusReserves, ExcessCash
  <1>4. Quiet(market, market') /\ OpenCollateral(market')
    BY <1>1, <1>2, <1>3, StorageTypes, MoneyMovesQuietly DEF StepInv
  <1>5. ExchangeRateStored(market') = ExchangeRateStored(market)
    BY <1>2, <1>3 DEF CollateralUnchanged, ExchangeRateStored
  <1> QED
    BY <1>1, <1>2, <1>4, <1>5, QuietStep DEF CashUnchanged

(***************************************************************************)
(* Entering and leaving: neither is nonReentrant.                          *)
(***************************************************************************)

(* Registering and unregistering leave the money alone. *)
LEMMA MembershipKeepsCash ==
    ASSUME NEW m \in MarketType, NEW a \in Account, NEW isMember \in BOOLEAN
    PROVE  /\ CashUnchanged(m, RegisterCollateral(m, a, isMember))
           /\ RegisterCollateral(m, a, isMember).totalSupply = m.totalSupply
           /\ CashUnchanged(m, UnregisterCollateral(m, a, isMember))
           /\ UnregisterCollateral(m, a, isMember).totalSupply = m.totalSupply
PROOF
  <1> DEFINE m1 == InitializeAccountCollateralTokens(m, a, isMember)
  <1>1. CashUnchanged(m, m1) /\ m1.totalSupply = m.totalSupply /\ DOMAIN m1 = DOMAIN m
    BY DEF InitializeAccountCollateralTokens, CashUnchanged, MarketType
  <1> HIDE DEF m1
  <1>2. ASSUME NEW amount
        PROVE  /\ CashUnchanged(m, IncreaseUserCollateral(m1, a, amount))
               /\ IncreaseUserCollateral(m1, a, amount).totalSupply = m.totalSupply
               /\ CashUnchanged(m, DecreaseUserCollateral(m1, a, amount))
               /\ DecreaseUserCollateral(m1, a, amount).totalSupply = m.totalSupply
    BY <1>1 DEF IncreaseUserCollateral, DecreaseUserCollateral, CashUnchanged, MarketType
  <1> QED
    BY <1>2 DEF RegisterCollateral, UnregisterCollateral, m1

LEMMA SameCashSameRate ==
    ASSUME NEW m, NEW n, CashUnchanged(m, n), n.totalSupply = m.totalSupply
    PROVE  ExchangeRateStored(n) = ExchangeRateStored(m)
BY DEF CashUnchanged, ExchangeRateStored, CashPlusBorrowsMinusReserves

LEMMA EnterMarketStep ==
    ASSUME StepInv, Inv', NEW a \in Account, EnterMarket(a)
    PROVE  StepKept /\ market'.internalCash = market.internalCash
                    /\ ExchangeRateStored(market') = ExchangeRateStored(market)
PROOF
  <1> DEFINE isMember == a \in member
  <1>1. isMember \in BOOLEAN /\ market' = RegisterCollateral(market, a, isMember)
    BY DEF EnterMarket
  <1> HIDE DEF isMember
  <1>2. market \in MarketType /\ market' \in MarketType
    BY DEF StepInv, Inv, Sound
  <1>3. Prepared(market, market')
    BY <1>1, StorageOfInv, RegisterIsQuiet DEF StepInv
  <1>4. CashUnchanged(market, market') /\ market'.totalSupply = market.totalSupply
    BY <1>1, <1>2, MembershipKeepsCash
  <1> QED
    BY <1>2, <1>3, <1>4, PreparedStep, SameCashSameRate DEF CashUnchanged

LEMMA ExitMarketStep ==
    ASSUME StepInv, Inv', NEW a \in Account, ExitMarket(a)
    PROVE  StepKept /\ market'.internalCash = market.internalCash
                    /\ ExchangeRateStored(market') = ExchangeRateStored(market)
PROOF
  <1> DEFINE isMember == a \in member
             m1 == InitializeAccountCollateralTokens(market, a, isMember)
  <1>1. /\ isMember \in BOOLEAN /\ market' = UnregisterCollateral(market, a, isMember)
        /\ ~DecreaseUserCollateralReverts(m1, a, m1.accountCollateralTokens[a])
    BY DEF ExitMarket, Initialized
  <1> HIDE DEF isMember
  <1>2. market \in MarketType /\ market' \in MarketType
    BY DEF StepInv, Inv, Sound
  <1>3. Prepared(market, market')
    BY <1>1, StorageOfInv, UnregisterIsQuiet DEF StepInv
  <1>4. CashUnchanged(market, market') /\ market'.totalSupply = market.totalSupply
    BY <1>1, <1>2, MembershipKeepsCash
  <1> QED
    BY <1>2, <1>3, <1>4, PreparedStep, SameCashSameRate DEF CashUnchanged


(***************************************************************************)
(* The admin, reserves, gulp and direct transfers.                         *)
(***************************************************************************)
LEMMA AddReservesStep ==
    ASSUME StepInv, Inv', NEW amount \in Amounts, AddReserves(amount)
    PROVE  StepKept
PROOF
  <1>1. PICK m \in Accrued(market) :
          \E actual \in Received(m, amount) : market' = AddReservesFresh(m, actual)
    BY DEF AddReserves
  <1>2. PICK actual \in Received(m, amount) : market' = AddReservesFresh(m, actual)
    BY <1>1
  <1>3. Prepared(market, m) /\ Sound(m, member, now) /\ m \in MarketType
    BY AccruedIsPrepared
  <1>4. actual \in Nat
    BY <1>3, MarketInputsAssumption, ReceivedType
  <1>5. market \in MarketType /\ market' \in MarketType
    BY DEF StepInv, Inv, Sound
  <1>6. Quiet(m, market') /\ OpenCollateral(market')
    BY <1>2, <1>3, <1>4, AddReservesIsQuiet DEF Prepared
  <1>7. Quiet(market, market')
    BY <1>3, <1>5, <1>6, QuietIsTransitive DEF Prepared
  <1> QED
    BY <1>5, <1>6, <1>7, QuietStep

LEMMA ReduceReservesStep ==
    ASSUME StepInv, Inv', NEW amount \in Amounts, ReduceReserves(amount)
    PROVE  StepKept
PROOF
  <1>1. PICK m \in Accrued(market) :
          /\ amount <= m.internalCash
          /\ amount <= m.totalReserves
          /\ market' = ReduceReservesFresh(m, amount)
    BY DEF ReduceReserves
  <1>2. Prepared(market, m) /\ Sound(m, member, now) /\ m \in MarketType
    BY AccruedIsPrepared
  <1>3. market \in MarketType /\ market' \in MarketType
    BY DEF StepInv, Inv, Sound
  <1>4. Quiet(m, market') /\ OpenCollateral(market')
    BY <1>1, <1>2, MarketInputsAssumption, ReduceReservesIsQuiet DEF Prepared
  <1>5. Quiet(market, market')
    BY <1>2, <1>3, <1>4, QuietIsTransitive DEF Prepared
  <1> QED
    BY <1>3, <1>4, <1>5, QuietStep

LEMMA SetReserveFactorStep ==
    ASSUME StepInv, Inv', NEW mantissa \in ReserveFactors, SetReserveFactor(mantissa)
    PROVE  StepKept
PROOF
  <1>1. PICK m \in Accrued(market) : market' = [m EXCEPT !.reserveFactorMantissa = mantissa]
    BY DEF SetReserveFactor
  <1>2. Prepared(market, m) /\ m \in MarketType
    BY AccruedIsPrepared
  <1>3. market \in MarketType /\ market' \in MarketType
    BY DEF StepInv, Inv, Sound
  <1>4. CollateralUnchanged(m, market') /\ CashUnchanged(m, market')
    BY <1>1, <1>2 DEF CollateralUnchanged, CashUnchanged, MarketType
  <1>5. Quiet(m, market') /\ OpenCollateral(market')
    BY <1>2, <1>3, <1>4, StorageTypes, MoneyMovesQuietly
    DEF Prepared, CashUnchanged, CashPlusBorrowsMinusReserves, ExcessCash
  <1>6. Quiet(market, market')
    BY <1>2, <1>3, <1>5, QuietIsTransitive DEF Prepared
  <1> QED
    BY <1>3, <1>5, <1>6, QuietStep

LEMMA SetProtocolSeizeShareStep ==
    ASSUME StepInv, Inv', NEW mantissa \in SeizeShares, SetProtocolSeizeShare(mantissa)
    PROVE  StepKept
PROOF
  <1>1. PICK m \in Accrued(market) :
          market' = [m EXCEPT !.protocolSeizeShareMantissa = mantissa]
    BY DEF SetProtocolSeizeShare
  <1>2. Prepared(market, m) /\ m \in MarketType
    BY AccruedIsPrepared
  <1>3. market \in MarketType /\ market' \in MarketType
    BY DEF StepInv, Inv, Sound
  <1>4. CollateralUnchanged(m, market') /\ CashUnchanged(m, market')
    BY <1>1, <1>2 DEF CollateralUnchanged, CashUnchanged, MarketType
  <1>5. Quiet(m, market') /\ OpenCollateral(market')
    BY <1>2, <1>3, <1>4, StorageTypes, MoneyMovesQuietly
    DEF Prepared, CashUnchanged, CashPlusBorrowsMinusReserves, ExcessCash
  <1>6. Quiet(market, market')
    BY <1>2, <1>3, <1>5, QuietIsTransitive DEF Prepared
  <1> QED
    BY <1>3, <1>5, <1>6, QuietStep

(* Changes of single fields. *)
LEMMA OwnedGrows ==
    ASSUME NEW m \in MarketType, NEW n \in MarketType, n.totalSupply = m.totalSupply,
           CashPlusBorrowsMinusReserves(m) <= CashPlusBorrowsMinusReserves(n)
    PROVE  CoverStep(m, n) /\ RateStep(m, n)
PROOF
  <1>1. CoverStep(m, n)
    BY StorageTypes DEF CoverStep
  <1>2. RateStep(m, n)
    <2> SUFFICES ASSUME m.totalSupply # 0 PROVE ExchangeRateStored(n) >= ExchangeRateStored(m)
      BY DEF RateStep
    <2> DEFINE none == 0
    <2>1. /\ m.totalSupply > 0 /\ n.totalSupply > 0 /\ n.totalSupply = m.totalSupply + none
          /\ CashPlusBorrowsMinusReserves(n) >= CashPlusBorrowsMinusReserves(m) + none
          /\ none \in Int
      BY StorageTypes
    <2>2. ExchangeRateStored(m) * none <= none * expScale
      BY RateType, ExpScaleAssumption
    <2> HIDE DEF none
    <2>3. ExchangeRateStored(m) <= ExchangeRateStored(n)
      BY <2>1, <2>2, FairPriceKeepsRate
    <2> QED
      BY <2>3, RateType
  <1> QED
    BY <1>1, <1>2

LEMMA SetCollateralCapStep ==
    ASSUME StepInv, Inv', NEW cap \in CollateralCaps, SetCollateralCap(cap)
    PROVE  StepKept /\ market'.internalCash = market.internalCash
                    /\ ExchangeRateStored(market') = ExchangeRateStored(market)
PROOF
  <1>1. market \in MarketType /\ market' \in MarketType
    BY DEF StepInv, Inv, Sound
  <1>2. /\ CashUnchanged(market, market') /\ market'.totalSupply = market.totalSupply
        /\ market'.accountCollateralTokens = market.accountCollateralTokens
        /\ market'.totalCollateralTokens = market.totalCollateralTokens
        /\ market'.isCollateralTokenInit = market.isCollateralTokenInit
    BY <1>1 DEF SetCollateralCap, CashUnchanged, MarketType
  <1>3. /\ CashPlusBorrowsMinusReserves(market') = CashPlusBorrowsMinusReserves(market)
        /\ ExcessCash(market') = ExcessCash(market)
        /\ CollateralDrift(market') = CollateralDrift(market)
        /\ OpenCollateral(market')
    BY <1>2 DEF CashUnchanged, CashPlusBorrowsMinusReserves, ExcessCash, CollateralDrift,
                OpenCollateral, StepInv
  <1>4. CoverStep(market, market') /\ RateStep(market, market')
    BY <1>1, <1>2, <1>3, StorageTypes, OwnedGrows
  <1>5. CapStep(market, market') /\ DriftStep /\ ExcessStep
    BY <1>1, <1>2, <1>3, StorageTypes DEF CapStep, DriftStep, ExcessStep
  <1>6. ExchangeRateStored(market') = ExchangeRateStored(market)
    BY <1>2, SameCashSameRate
  <1> QED
    BY <1>2, <1>3, <1>4, <1>5, <1>6 DEF StepKept, KeptBesideRate, Promises, CashUnchanged

(* Cash is counted again: only the cash and the reserves change. *)
LEMMA CashIsCounted ==
    ASSUME StepInv, market' \in MarketType, CollateralUnchanged(market, market'),
           CashPlusBorrowsMinusReserves(market) <= CashPlusBorrowsMinusReserves(market'),
           ExcessStep
    PROVE  StepKept
PROOF
  <1>1. market \in MarketType
    BY StorageOfInv DEF StepInv
  <1>2. CoverStep(market, market') /\ RateStep(market, market')
    BY <1>1, OwnedGrows DEF CollateralUnchanged
  <1>3. CapStep(market, market') /\ DriftStep /\ OpenCollateral(market')
    BY <1>1, StorageTypes
    DEF CollateralUnchanged, CapStep, DriftStep, CollateralDrift, OpenCollateral, StepInv
  <1> QED
    BY <1>2, <1>3 DEF StepKept, KeptBesideRate, Promises

LEMMA GulpCashStep ==
    ASSUME StepInv, Inv', GulpCash
    PROVE  StepKept
PROOF
  <1>1. market \in MarketType /\ market' \in MarketType
    BY DEF StepInv, Inv, Sound
  <1>2. /\ CollateralUnchanged(market, market')
        /\ market'.internalCash = market.cashOnChain /\ market'.cashOnChain = market.cashOnChain
        /\ market'.totalBorrows = market.totalBorrows
        /\ market'.totalReserves
             = market.totalReserves + (market.cashOnChain - market.internalCash)
    BY <1>1 DEF GulpCash, Gulp, CollateralUnchanged, MarketType
  <1>3. /\ CashPlusBorrowsMinusReserves(market) <= CashPlusBorrowsMinusReserves(market')
        /\ ExcessStep
    BY <1>1, <1>2, MoneyTypes
    DEF CashPlusBorrowsMinusReserves, ExcessStep, ExcessCounted, ExcessCash
  <1> QED
    BY <1>1, <1>2, <1>3, CashIsCounted

LEMMA BecomeImplementationStep ==
    ASSUME StepInv, Inv', BecomeImplementation
    PROVE  StepKept
PROOF
  <1>1. market \in MarketType /\ market' \in MarketType /\ CashHeld(market)
    BY DEF StepInv, Inv, Sound
  <1>2. /\ CollateralUnchanged(market, market')
        /\ market'.internalCash = market.cashOnChain /\ market'.cashOnChain = market.cashOnChain
        /\ market'.totalBorrows = market.totalBorrows
        /\ market'.totalReserves = market.totalReserves
    BY <1>1 DEF BecomeImplementation, CollateralUnchanged, MarketType
  <1>3. /\ CashPlusBorrowsMinusReserves(market) <= CashPlusBorrowsMinusReserves(market')
        /\ ExcessStep
    BY <1>1, <1>2, MoneyTypes
    DEF CashPlusBorrowsMinusReserves, ExcessStep, ExcessCounted, ExcessCash, CashHeld
  <1> QED
    BY <1>1, <1>2, <1>3, CashIsCounted

LEMMA DonateStep ==
    ASSUME StepInv, Inv', NEW amount \in Amounts, Donate(amount)
    PROVE  StepKept /\ market'.internalCash = market.internalCash
                    /\ ExchangeRateStored(market') = ExchangeRateStored(market)
PROOF
  <1>1. market \in MarketType /\ market' \in MarketType
    BY DEF StepInv, Inv, Sound
  <1>2. Donated
    <2> DEFINE cash == market.cashOnChain + amount
    <2>1. market' = [market EXCEPT !.cashOnChain = cash] /\ cash >= market.cashOnChain
      BY <1>1, MarketInputsAssumption DEF Donate, MarketType
    <2> HIDE DEF cash
    <2>2. market'.cashOnChain = cash
      BY <1>1, <2>1 DEF MarketType
    <2> QED
      BY <2>1, <2>2 DEF Donated
  <1>3. /\ CollateralUnchanged(market, market')
        /\ market'.internalCash = market.internalCash
        /\ market'.totalBorrows = market.totalBorrows
        /\ market'.totalReserves = market.totalReserves
    BY <1>1 DEF Donate, CollateralUnchanged, MarketType
  <1>4. /\ CashPlusBorrowsMinusReserves(market) = CashPlusBorrowsMinusReserves(market')
        /\ ExcessStep
    BY <1>2, <1>3 DEF CashPlusBorrowsMinusReserves, ExcessStep
  <1>5. ExchangeRateStored(market') = ExchangeRateStored(market)
    BY <1>3, <1>4 DEF CollateralUnchanged, ExchangeRateStored
  <1>6. StepKept
    BY <1>1, <1>3, <1>4, StorageTypes, CashIsCounted
  <1> QED
    BY <1>3, <1>5, <1>6

LEMMA AccrueStep ==
    ASSUME StepInv, Inv', Accrue
    PROVE  StepKept /\ market'.internalCash = market.internalCash
                    /\ (market.accrualBlockTimestamp = now => market' = market)
PROOF
  <1>1. PICK rate \in BorrowRates : market' = AccrueInterest(market, now, rate)
    BY DEF Accrue, Accrued, Accruals
  <1>2. Prepared(market, market') /\ market' \in MarketType
    BY AccruedIsPrepared DEF Accrue
  <1>3. market'.internalCash = market.internalCash
    BY <1>1, StorageOfInv DEF AccrueInterest, MarketType, StepInv
  <1>4. market.accrualBlockTimestamp = now => market' = market
    BY <1>1 DEF AccrueInterest
  <1> QED
    BY <1>2, <1>3, <1>4, PreparedStep


--------------------------------------------------------------------------------
(***************************************************************************)
(* Flash loans, and the step in general.                                   *)
(***************************************************************************)
StepFacts ==
    /\ StepInv'
    /\ CapStep(market, market') \/ FlashLoanRevert
    /\ DriftStep
    /\ CoverStep(market, market') \/ FlashLoanRevert
    /\ \/ RateStep(market, market')
       \/ \E a \in Account, amount \in Amounts : Redeem(a, 0, amount)
       \/ FlashLoanRevert
    /\ \/ ExcessStep
       \/ /\ ~notEntered /\ notEntered'
          /\ ExcessCash(market') = loan.cashOnChainBefore - loan.cashBefore
    /\ ~notEntered' /\ market.accrualBlockTimestamp = now =>
          ExchangeRateStored(market') = ExchangeRateStored(market)

(* A call that is nonReentrant, and one that a callback may make. *)
LEMMA CallFacts ==
    ASSUME StepInv, Inv', notEntered, notEntered', StepKept
    PROVE  StepFacts
BY DEF StepFacts, StepKept, KeptBesideRate, Promises, StepInv, LoanIsBooked

LEMMA CallbackFacts ==
    ASSUME StepInv, Inv', UNCHANGED <<notEntered, loan>>, StepKept,
           market'.internalCash = market.internalCash,
           market.accrualBlockTimestamp = now =>
               ExchangeRateStored(market') = ExchangeRateStored(market)
    PROVE  StepFacts
PROOF
  <1>1. ~notEntered => ~BurntBySeizure
    BY DEF BurntBySeizure, Seizes, Seize, LiquidateBorrow, NonReentrant
  <1>2. LoanIsBooked'
    BY <1>1 DEF StepKept, KeptBesideRate, DriftStep, StepInv, LoanIsBooked
  <1> QED
    BY <1>2 DEF StepFacts, StepKept, KeptBesideRate, Promises, StepInv

(* What is lent counts as a borrow, so that the exchange rate stands. *)
LEMMA FlashLoanFacts ==
    ASSUME StepInv, Inv', NEW amount \in FlashLoanAmounts, FlashLoan(amount)
    PROVE  StepFacts
PROOF
  <1>1. PICK m \in Accrued(market) :
         /\ amount <= m.internalCash
         /\ market' = [DoTransferOut(m, amount) EXCEPT !.totalBorrows = @ + amount]
         /\ loan' = [ amount            |-> amount,
                      fee               |-> FlashFee(amount),
                      cashBefore        |-> m.internalCash,
                      cashOnChainBefore |-> m.cashOnChain,
                      marketBefore      |-> market,
                      memberBefore      |-> member ]
    BY DEF FlashLoan
  <1>2. Prepared(market, m) /\ m \in MarketType
    BY AccruedIsPrepared
  <1>3. market \in MarketType /\ market' \in MarketType /\ amount \in Nat
    BY MarketInputsAssumption DEF StepInv, Inv, Sound
  <1>4. /\ CollateralUnchanged(m, market')
        /\ market'.internalCash = m.internalCash - amount
        /\ market'.cashOnChain = m.cashOnChain - amount
        /\ market'.totalBorrows = m.totalBorrows + amount
        /\ market'.totalReserves = m.totalReserves
    BY <1>1, <1>2 DEF DoTransferOut, CollateralUnchanged, MarketType
  <1>5. /\ CashPlusBorrowsMinusReserves(market') = CashPlusBorrowsMinusReserves(m)
        /\ ExcessCash(market') = ExcessCash(m)
    BY <1>2, <1>3, <1>4, MoneyTypes DEF CashPlusBorrowsMinusReserves, ExcessCash
  <1>6. Quiet(m, market') /\ OpenCollateral(market')
    BY <1>2, <1>3, <1>4, <1>5, StorageTypes, MoneyMovesQuietly DEF Prepared
  <1>7. Quiet(market, market')
    BY <1>2, <1>3, <1>6, QuietIsTransitive DEF Prepared
  <1>8. StepKept
    BY <1>3, <1>6, <1>7, QuietStep
  <1>9. market.accrualBlockTimestamp = now =>
          ExchangeRateStored(market') = ExchangeRateStored(market)
    <2>1. market.accrualBlockTimestamp = now => m = market
      BY DEF Accrued, Accruals, AccrueInterest
    <2>2. ExchangeRateStored(market') = ExchangeRateStored(m)
      BY <1>4, <1>5 DEF CollateralUnchanged, ExchangeRateStored
    <2> QED
      BY <2>1, <2>2
  <1>10. /\ loan'.marketBefore = market /\ loan'.amount = amount
         /\ loan'.cashBefore = m.internalCash /\ loan'.cashOnChainBefore = m.cashOnChain
    BY <1>1
  <1>11. LoanIsBooked'
    BY <1>2, <1>4, <1>7, <1>10 DEF LoanIsBooked, StepInv, Prepared, Quiet, ExcessCash
  <1> QED
    BY <1>8, <1>9, <1>11 DEF StepFacts, StepKept, KeptBesideRate, Promises, StepInv

(* The fee stays in the market, and of it at most the reserves' share.     *)
LEMMA FlashLoanRepayFacts ==
    ASSUME StepInv, Inv', FlashLoanRepay
    PROVE  StepFacts
PROOF
  <1>1. PICK actual \in Received(market, loan.amount + loan.fee) :
         LET m == DoTransferIn(market, actual)
         IN  /\ m.cashOnChain = loan.cashOnChainBefore + loan.fee
             /\ market' = [m EXCEPT
                  !.totalReserves = @ + MulScalarTruncate(m.reserveFactorMantissa, loan.fee),
                  !.internalCash  = loan.cashBefore + loan.fee,
                  !.totalBorrows  = @ - loan.amount]
    BY DEF FlashLoanRepay
  <1> DEFINE reserved == MulScalarTruncate(market.reserveFactorMantissa, loan.fee)
  <1>2. /\ loan.amount \in Nat /\ loan.fee \in Nat
        /\ loan.cashBefore \in Nat /\ loan.cashOnChainBefore \in Nat
        /\ market.internalCash = loan.cashBefore - loan.amount
    BY DEF StepInv, Inv, LoanIsBooked, LoanType, FlashLoanRepay
  <1>3. market \in MarketType /\ market' \in MarketType
    BY DEF StepInv, Inv, Sound
  <1>4. reserved \in 0 .. loan.fee
    BY <1>2, <1>3, ShareIsPart DEF MarketType
  <1>5. /\ CollateralUnchanged(market, market')
        /\ market'.internalCash = loan.cashBefore + loan.fee
        /\ market'.cashOnChain = loan.cashOnChainBefore + loan.fee
        /\ market'.totalBorrows = market.totalBorrows - loan.amount
        /\ market'.totalReserves = market.totalReserves + reserved
    BY <1>1, <1>3 DEF DoTransferIn, CollateralUnchanged, MarketType
  <1> HIDE DEF reserved
  <1>6. CashPlusBorrowsMinusReserves(market) <= CashPlusBorrowsMinusReserves(market')
    BY <1>2, <1>3, <1>4, <1>5, MoneyTypes DEF CashPlusBorrowsMinusReserves
  <1>7. CoverStep(market, market') /\ RateStep(market, market')
    BY <1>3, <1>5, <1>6, OwnedGrows DEF CollateralUnchanged
  <1>8. CapStep(market, market') /\ DriftStep /\ OpenCollateral(market')
    BY <1>3, <1>5, StorageTypes
    DEF CollateralUnchanged, CapStep, DriftStep, CollateralDrift, OpenCollateral, StepInv
  <1>9. ExcessCash(market') = loan.cashOnChainBefore - loan.cashBefore
    BY <1>2, <1>5 DEF ExcessCash
  <1> QED
    BY <1>7, <1>8, <1>9 DEF StepFacts, StepInv, LoanIsBooked, FlashLoanRepay

LEMMA FlashLoanRevertFacts ==
    ASSUME StepInv, Inv', FlashLoanRevert
    PROVE  StepFacts
PROOF
  <1>1. /\ ~notEntered /\ market' = loan.marketBefore /\ notEntered'
        /\ OpenCollateral(market')
        /\ ExcessCash(market') = loan.cashOnChainBefore - loan.cashBefore
        /\ CollateralDrift(market') = CollateralDrift(market)
    BY DEF FlashLoanRevert, StepInv, LoanIsBooked
  <1> QED
    BY <1>1 DEF StepFacts, DriftStep, StepInv, LoanIsBooked

LEMMA TickFacts ==
    ASSUME StepInv, Inv', Tick
    PROVE  StepFacts
PROOF
  <1>1. Prepared(market, market') /\ market' \in MarketType
    BY StorageOfInv, PreparedIsReflexive DEF Tick, StepInv
  <1> QED
    BY <1>1, PreparedStep, CallFacts DEF Tick

LEMMA NextFacts ==
    ASSUME StepInv, Next
    PROVE  StepFacts
PROOF
  <1>0. Inv'
    BY NextKeepsInv DEF StepInv
  <1>1. ASSUME notEntered, notEntered', StepKept PROVE StepFacts
    BY <1>0, <1>1, CallFacts
  <1>2. ASSUME NEW a \in Account, NEW amount \in Amounts, Mint(a, amount) PROVE StepFacts
    BY <1>0, <1>1, <1>2, MintStep DEF Mint, NonReentrant
  <1>3. ASSUME NEW a \in Account, NEW amount \in Amounts, Redeem(a, amount, 0)
        PROVE  StepFacts
    <2>1. CASE amount > 0
      <3>1. StepKept
        BY <1>0, <1>3, <2>1, MarketInputsAssumption, RedeemStep
      <3> QED
        BY <1>1, <1>3, <3>1 DEF Redeem, NonReentrant
    <2>2. CASE amount = 0
      <3>1. KeptBesideRate
        BY <1>0, <1>3, <2>2, RedeemStep
      <3>2. notEntered' /\ \E b \in Account, c \in Amounts : Redeem(b, 0, c)
        BY <1>3, <2>2 DEF Redeem, NonReentrant
      <3> QED
        BY <1>0, <1>3, <3>1, <3>2
        DEF StepFacts, StepInv, LoanIsBooked, KeptBesideRate, Promises
    <2> QED
      BY <2>1, <2>2, MarketInputsAssumption
  <1>4. ASSUME NEW a \in Account, NEW amount \in Amounts, Redeem(a, 0, amount)
        PROVE  StepFacts
    <2>1. KeptBesideRate
      BY <1>0, <1>4, MarketInputsAssumption, RedeemStep
    <2>2. notEntered'
      BY <1>4 DEF Redeem, NonReentrant
    <2> QED
      BY <1>0, <1>4, <2>1, <2>2
    DEF StepFacts, StepInv, LoanIsBooked, KeptBesideRate, Promises
  <1>5. ASSUME NEW a \in Account, NEW amount \in Amounts, Borrow(a, amount) PROVE StepFacts
    BY <1>0, <1>1, <1>5, BorrowStep DEF Borrow, NonReentrant
  <1>6. ASSUME NEW a \in Account, NEW amount \in Amounts \cup {UIntMax}, RepayBorrow(a, amount)
        PROVE  StepFacts
    BY <1>0, <1>1, <1>6, RepayBorrowStep DEF RepayBorrow, NonReentrant
  <1>7. ASSUME NEW liquidator \in Account, NEW borrower \in Account, NEW tokens \in Amounts,
               Seize(liquidator, borrower, tokens)
        PROVE  StepFacts
    BY <1>0, <1>1, <1>7, SeizeStep DEF Seize, NonReentrant
  <1>8. ASSUME NEW liquidator \in Account, NEW borrower \in Account, NEW tokens \in Amounts,
               NEW repay \in Amounts, LiquidateBorrow(liquidator, borrower, repay, tokens)
        PROVE  StepFacts
    BY <1>0, <1>1, <1>8, LiquidateBorrowStep DEF LiquidateBorrow, NonReentrant
  <1>9. ASSUME NEW spender \in Account, NEW src \in Account, NEW dst \in Account,
               NEW tokens \in Amounts, Transfer(spender, src, dst, tokens)
        PROVE  StepFacts
    BY <1>0, <1>1, <1>9, TransferStep DEF Transfer, NonReentrant
  <1>10. ASSUME NEW src \in Account, NEW spender \in Account, NEW amount \in Allowances,
                Approve(src, spender, amount)
         PROVE  StepFacts
    BY <1>0, <1>10, ApproveStep, CallbackFacts DEF Approve
  <1>11. ASSUME NEW a \in Account, EnterMarket(a) PROVE StepFacts
    BY <1>0, <1>11, EnterMarketStep, CallbackFacts DEF EnterMarket
  <1>12. ASSUME NEW a \in Account, ExitMarket(a) PROVE StepFacts
    BY <1>0, <1>12, ExitMarketStep, CallbackFacts DEF ExitMarket
  <1>13. ASSUME NEW amount \in Amounts, AddReserves(amount) \/ ReduceReserves(amount)
         PROVE  StepFacts
    BY <1>0, <1>1, <1>13, AddReservesStep, ReduceReservesStep
    DEF AddReserves, ReduceReserves, NonReentrant
  <1>14. ASSUME NEW amount \in Amounts, Donate(amount) PROVE StepFacts
    BY <1>0, <1>14, DonateStep, CallbackFacts DEF Donate
  <1>15. ASSUME NEW mantissa \in ReserveFactors, SetReserveFactor(mantissa) PROVE StepFacts
    BY <1>0, <1>1, <1>15, SetReserveFactorStep DEF SetReserveFactor, NonReentrant
  <1>16. ASSUME NEW mantissa \in SeizeShares, SetProtocolSeizeShare(mantissa) PROVE StepFacts
    BY <1>0, <1>1, <1>16, SetProtocolSeizeShareStep DEF SetProtocolSeizeShare, NonReentrant
  <1>17. ASSUME NEW cap \in CollateralCaps, SetCollateralCap(cap) PROVE StepFacts
    BY <1>0, <1>17, SetCollateralCapStep, CallbackFacts DEF SetCollateralCap
  <1>18. CASE GulpCash
    BY <1>0, <1>1, <1>18, GulpCashStep DEF GulpCash, NonReentrant
  <1>19. CASE BecomeImplementation
    BY <1>0, <1>1, <1>19, BecomeImplementationStep DEF BecomeImplementation
  <1>20. CASE Accrue
    <2>1. StepKept /\ market'.internalCash = market.internalCash
      BY <1>0, <1>20, AccrueStep
    <2>2. market.accrualBlockTimestamp = now =>
            ExchangeRateStored(market') = ExchangeRateStored(market)
      BY <1>0, <1>20, AccrueStep
    <2> QED
      BY <1>0, <1>20, <2>1, <2>2, CallbackFacts DEF Accrue
  <1>21. ASSUME NEW amount \in FlashLoanAmounts, FlashLoan(amount) PROVE StepFacts
    BY <1>0, <1>21, FlashLoanFacts
  <1>22. CASE FlashLoanRepay \/ FlashLoanRevert \/ Tick
    BY <1>0, <1>22, FlashLoanRepayFacts, FlashLoanRevertFacts, TickFacts
  <1> QED
    BY <1>2, <1>3, <1>4, <1>5, <1>6, <1>7, <1>8, <1>9, <1>10, <1>11, <1>12, <1>13, <1>14,
       <1>15, <1>16, <1>17, <1>18, <1>19, <1>20, <1>21, <1>22
    DEF Next, Step

LEMMA StutterKeepsStepInv ==
    ASSUME StepInv, UNCHANGED vars
    PROVE  StepInv'
PROOF
  <1>1. Inv'
    BY NextKeepsInv DEF StepInv
  <1> QED
    BY <1>1 DEF StepInv, LoanIsBooked, vars

(* In every reachable state collateral is counted for initialised accounts *)
(* only, and a flash loan has booked what its repayment relies on.         *)
THEOREM StepInvIsInvariant ==
    Spec => []StepInv
PROOF
  <1>1. Init => StepInv
    BY InitStepInv
  <1>2. StepInv /\ [Next]_vars => StepInv'
    BY NextFacts, StutterKeepsStepInv DEF StepFacts
  <1> QED
    BY <1>1, <1>2, PTL DEF Spec

--------------------------------------------------------------------------------
(***************************************************************************)
(* The action properties of Market follow.                                 *)
(***************************************************************************)

(* The collateral cap binds every call: mint, transfer, seize, entering    *)
(* and borrowing raise totalCollateralTokens up to it and no further.      *)
THEOREM CollateralCapTheorem ==
    Spec => CollateralCapRespected
PROOF
  <1>1. StepInv /\ [Next]_vars =>
          [ \/ market'.totalCollateralTokens <= market.totalCollateralTokens
            \/ market'.isCollateralTokenInit # market.isCollateralTokenInit
            \/ market.collateralCap = 0
            \/ market'.totalCollateralTokens <= market.collateralCap
            \/ FlashLoanRevert ]_vars
    BY NextFacts DEF StepFacts, CapStep
  <1> QED
    BY <1>1, StepInvIsInvariant, PTL DEF Spec, CollateralCapRespected

(* totalCollateralTokens drifts from the sum of the accounts' collateral   *)
(* by exactly the jTokens that a seizure burns for the protocol, and by no *)
(* other call.                                                             *)
THEOREM CollateralDriftTheorem ==
    Spec => CollateralDriftsBySeizureOnly
PROOF
  <1>1. StepInv /\ [Next]_vars =>
          [ CollateralDrift(market') = CollateralDrift(market) \/ BurntBySeizure ]_vars
    BY NextFacts DEF StepFacts, DriftStep
  <1> QED
    BY <1>1, StepInvIsInvariant, PTL DEF Spec, CollateralDriftsBySeizureOnly

(* No call of anyone lowers the exchange rate, however it rounds: mint and *)
(* redeem round against the caller, a seizure burns tokens for at most     *)
(* their worth, interest adds at most itself to the reserves.              *)
(* redeemUnderlying is the exception.                                      *)
THEOREM ExchangeRateTheorem ==
    Spec => ExchangeRateNeverFalls
PROOF
  <1>1. StepInv /\ [Next]_vars =>
          [ \/ market.totalSupply = 0 \/ market'.totalSupply = 0
            \/ ExchangeRateStored(market') >= ExchangeRateStored(market)
            \/ \E a \in Account, amount \in Amounts : Redeem(a, 0, amount)
            \/ FlashLoanRevert ]_vars
    BY NextFacts DEF StepFacts, RateStep
  <1> QED
    BY <1>1, StepInvIsInvariant, PTL DEF Spec, ExchangeRateNeverFalls

(* While jTokens remain, no call makes the reserves exceed cash and        *)
(* borrows, redeemUnderlying with its rounded tokens included: the         *)
(* subtraction in exchangeRateStoredInternal does not start to revert.     *)
THEOREM ReservesTheorem ==
    Spec => ReservesStayCovered
PROOF
  <1>1. StepInv /\ [Next]_vars =>
          [ \/ CashPlusBorrowsMinusReserves(market) >= 0 /\ market'.totalSupply > 0 =>
                  CashPlusBorrowsMinusReserves(market') >= 0
            \/ FlashLoanRevert ]_vars
    BY NextFacts DEF StepFacts, CoverStep
  <1> QED
    BY <1>1, StepInvIsInvariant, PTL DEF Spec, ReservesStayCovered

(* Neither a flash loan nor what its receiver may call in the callback     *)
(* moves the exchange rate.                                                *)
THEOREM FlashLoanTheorem ==
    Spec => FlashLoanKeepsExchangeRate
PROOF
  <1>1. StepInv /\ [Next]_vars =>
          [ ~notEntered' /\ market.accrualBlockTimestamp = now =>
                ExchangeRateStored(market') = ExchangeRateStored(market) ]_vars
    BY NextFacts DEF StepFacts
  <1> QED
    BY <1>1, StepInvIsInvariant, PTL DEF Spec, FlashLoanKeepsExchangeRate

(* The cash on chain that the market does not count is what was sent to it *)
(* directly.  gulp turns all of it into reserves and none into what the    *)
(* suppliers own, an upgrade the other way round; no other call takes from *)
(* it, and after a flash loan it is what it was before.                    *)
THEOREM ExcessCashTheorem ==
    Spec => ExcessCashOnlyDonated
PROOF
  <1>1. StepInv /\ [Next]_vars =>
          [ \/ ExcessCash(market') = ExcessCash(market)
            \/ Donated
            \/ ExcessCounted(ExcessCash(market), 0)
            \/ BecomeImplementation /\ ExcessCounted(0, ExcessCash(market))
            \/ /\ ~notEntered /\ notEntered'
               /\ ExcessCash(market') = loan.cashOnChainBefore - loan.cashBefore ]_vars
    BY NextFacts DEF StepFacts, ExcessStep
  <1> QED
    BY <1>1, StepInvIsInvariant, PTL DEF Spec, ExcessCashOnlyDonated

--------------------------------------------------------------------------------
(***************************************************************************)
(* What a supplier can gain.                                               *)
(***************************************************************************)

(* Tokens minted for an amount are worth at most the amount afterwards: if *)
(* they were worth more, the rate would have risen, the other tokens would *)
(* be worth more than what was there before, and all together more than    *)
(* there is.                                                               *)
LEMMA MintedTokensWorth ==
    ASSUME NEW supply \in Nat, NEW owned \in Int, NEW rate \in Nat \ {0},
           NEW amount \in Nat, NEW tokens \in Nat \ {0}, NEW newRate \in Int,
           rate * tokens <= amount * expScale,
           newRate * (supply + tokens) <= (owned + amount) * expScale,
           supply = 0 => owned <= 0,
           supply > 0 => owned * expScale < rate * supply + supply
    PROVE  newRate * tokens <= amount * expScale
PROOF
  <1>1. expScale \in Nat \ {0}
    BY ExpScaleAssumption
  <1>2. /\ newRate * (supply + tokens) = newRate * supply + newRate * tokens
        /\ (owned + amount) * expScale = owned * expScale + amount * expScale
        /\ newRate * supply \in Int /\ newRate * tokens \in Int
        /\ owned * expScale \in Int /\ amount * expScale \in Nat /\ rate * tokens \in Nat
        /\ rate * supply \in Nat
    BY <1>1
  <1>3. CASE supply = 0
    <2>1. newRate * supply = 0
      BY <1>3
    <2>2. owned * expScale <= 0 * expScale
      BY <1>1, <1>3, ProductsCompare
    <2>3. 0 * expScale = 0
      BY <1>1
    <2> QED
      BY <1>2, <2>1, <2>2, <2>3
  <1>4. CASE supply > 0
    <2> SUFFICES ASSUME amount * expScale < newRate * tokens
                 PROVE  FALSE
      BY <1>2
    <2>1. rate + 1 <= newRate
      <3>1. ASSUME newRate <= rate PROVE FALSE
        <4>1. newRate * tokens <= rate * tokens
          BY <3>1, ProductsCompare
        <4> QED
          BY <1>2, <4>1
      <3> QED
        BY <3>1
    <2>2. (rate + 1) * supply <= newRate * supply
      BY <2>1, ProductsCompare
    <2>3. (rate + 1) * supply = rate * supply + supply
      OBVIOUS
    <2>4. owned * expScale < newRate * supply
      BY <1>2, <1>4, <2>2, <2>3
    <2> QED
      BY <1>2, <2>4
  <1> QED
    BY <1>3, <1>4

(* Minting and redeeming at once never pays more than it cost, whatever    *)
(* the exchange rate, the supply and the rounding.                         *)
THEOREM MintRedeemTheorem ==
    Spec => []MintRedeemGainsNothing
PROOF
  <1>1. ASSUME Inv, NEW a \in Account, NEW amount \in Amounts, ~MintFreshReverts(market),
               market.totalSupply = 0 => CashPlusBorrowsMinusReserves(market) <= 0,
               MintTokens(market, amount) > 0
        PROVE  RedeemAmount(MintFresh(market, a, amount, FALSE), MintTokens(market, amount), 0)
                 <= amount
    <2> DEFINE tokens  == MintTokens(market, amount)
               n       == MintFresh(market, a, amount, FALSE)
               rate    == ExchangeRateStored(market)
               newRate == ExchangeRateStored(n)
               supply  == market.totalSupply
               owned   == CashPlusBorrowsMinusReserves(market)
    <2>1. /\ market \in MarketType /\ n \in MarketType /\ amount \in Nat
      BY <1>1, MintIsSound, MarketInputsAssumption DEF Inv, Sound
    <2>2. rate \in Nat \ {0} /\ (supply > 0 => owned >= 0)
      BY <1>1, <2>1, ExchangeRateType, StorageTypes DEF MintFreshReverts, ExchangeRateReverts
    <2>3. tokens \in Nat \ {0} /\ rate * tokens <= amount * expScale
      BY <1>1, <2>1, <2>2, TokensForAmount DEF MintTokens
    <2>4. /\ n.totalSupply = supply + tokens
          /\ n.internalCash = market.internalCash + amount
          /\ n.totalBorrows = market.totalBorrows /\ n.totalReserves = market.totalReserves
      <3> HIDE DEF tokens
      <3> QED
        BY <2>1, SMTT(30) DEF MintFresh, DoTransferIn, MarketType, tokens
    <2>5. /\ supply \in Nat /\ owned \in Int
          /\ CashPlusBorrowsMinusReserves(n) = owned + amount
      <3> HIDE DEF tokens, n
      <3>1. /\ market.totalSupply \in Nat /\ market.internalCash \in Int
            /\ market.totalBorrows \in Int /\ market.totalReserves \in Int
        BY <2>1, MoneyTypes, StorageTypes
      <3> QED
        BY <2>1, <2>4, <3>1 DEF CashPlusBorrowsMinusReserves
    <2>6. supply > 0 => owned * expScale < rate * supply + supply
      <3> SUFFICES ASSUME supply > 0 PROVE owned * expScale < rate * supply + supply
        OBVIOUS
      <3> DEFINE worth == owned * expScale
      <3>1. worth \in Int /\ supply \in Nat \ {0}
        BY <2>5, ExpScaleAssumption
      <3>2. rate = worth \div supply
        BY <3>1 DEF ExchangeRateStored, DivUIntByExp
      <3> HIDE DEF worth, supply, rate
      <3>3. worth < rate * supply + supply
        BY <3>1, <3>2, FloorBounds
      <3> QED
        BY <3>3 DEF worth
    <2> HIDE DEF tokens, n
    <2>7. n.totalSupply > 0
      BY <2>3, <2>4, <2>5
    <2>8. newRate \in Int /\ newRate * (supply + tokens) <= (owned + amount) * expScale
      BY <2>1, <2>4, <2>5, <2>7, RateOfSupply
    <2>9. newRate * tokens <= amount * expScale
      <3>1. supply = 0 => owned <= 0
        BY <1>1
      <3> HIDE DEF newRate, rate, supply, owned
      <3> QED
        BY <2>1, <2>2, <2>3, <2>5, <2>6, <2>8, <3>1, MintedTokensWorth
    <2> HIDE DEF newRate
    <2>10. RedeemAmount(n, tokens, 0) = (newRate * tokens) \div expScale
      BY <2>3 DEF RedeemAmount, MulScalarTruncate, Truncate, newRate
    <2>11. ((newRate * tokens) \div expScale) <= amount
      <3> DEFINE worth == newRate * tokens
                 paid == worth \div expScale
      <3>1. worth \in Int /\ worth <= amount * expScale /\ amount * expScale \in Nat
        BY <2>1, <2>3, <2>8, <2>9, ExpScaleAssumption
      <3> HIDE DEF worth
      <3>2. paid \in Int /\ paid * expScale <= worth
        BY <3>1, FloorBounds, ExpScaleAssumption
      <3> HIDE DEF paid
      <3>3. paid * expScale \in Int
        BY <3>2, ExpScaleAssumption
      <3>4. paid * expScale <= amount * expScale
        BY <3>1, <3>2, <3>3
      <3>5. paid <= amount
        BY <2>1, <3>2, <3>4, FactorCancels, ExpScaleAssumption
      <3> QED
        BY <3>5 DEF paid, worth
    <2> QED
      BY <2>10, <2>11 DEF tokens, n
  <1>2. Inv => MintRedeemGainsNothing
    BY <1>1 DEF MintRedeemGainsNothing
  <1> QED
    BY <1>2, InvIsInvariant, PTL


================================================================================
