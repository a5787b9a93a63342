---------------------------- MODULE JoeLendingRefinement ---------------------------
(***************************************************************************)
(* JoeLending implements Market, once for each of its markets: what a      *)
(* transaction does to a market under the real Joetroller, also as one of  *)
(* the two markets of a liquidation, is what Market allows one market      *)
(* under an arbitrary Joetroller.                                          *)
(*                                                                         *)
(* OneMarket(j) is Market with the storage of j for its variables.  The    *)
(* operators of the market are defined there a second time, so the first   *)
(* lemma says that they are the same; then every transaction is mapped to  *)
(* the call of Market it makes in each market it touches.                  *)
(*                                                                         *)
(* What a transaction does to a market being known, the second half says   *)
(* what none does: not what is paused, and no supply to who has credit.    *)
(***************************************************************************)
EXTENDS JoeLendingProofs

--------------------------------------------------------------------------------
(***************************************************************************)
(* The operators of a market are the same in both.                         *)
(***************************************************************************)
LEMMA SameOperators ==
    ASSUME NEW j
    PROVE  /\ \A m, t : OneMarket(j)!Accruals(m, t) = Accruals(m, t)
           /\ \A f : OneMarket(j)!Total(f) = Total(f)
           /\ \A m, a : OneMarket(j)!BorrowBalanceStored(m, a) = BorrowBalanceStored(m, a)
           /\ \A m : OneMarket(j)!ExchangeRateReverts(m) <=> ExchangeRateReverts(m)
           /\ \A m : OneMarket(j)!ExchangeRateStored(m) = ExchangeRateStored(m)
           /\ \A m, a, is :
                  OneMarket(j)!InitializeAccountCollateralTokens(m, a, is) = InitializeAccountCollateralTokens(m, a, is)
           /\ \A m, a, x :
                  OneMarket(j)!IncreaseUserCollateral(m, a, x) = IncreaseUserCollateral(m, a, x)
           /\ \A m, a, x :
                  OneMarket(j)!DecreaseUserCollateral(m, a, x) = DecreaseUserCollateral(m, a, x)
           /\ \A m, a, x :
                  OneMarket(j)!DecreaseUserCollateralReverts(m, a, x) <=> DecreaseUserCollateralReverts(m, a, x)
           /\ \A m, a : OneMarket(j)!BufferTokensReverts(m, a) <=> BufferTokensReverts(m, a)
           /\ \A m, a, x :
                  OneMarket(j)!CollateralTokensOf(m, a, x) = CollateralTokensOf(m, a, x)
           /\ \A m, a, is :
                  OneMarket(j)!RegisterCollateral(m, a, is) = RegisterCollateral(m, a, is)
           /\ \A m, a, is :
                  OneMarket(j)!UnregisterCollateral(m, a, is) = UnregisterCollateral(m, a, is)
           /\ \A m, x : OneMarket(j)!Received(m, x) = Received(m, x)
           /\ \A m : OneMarket(j)!MintFreshReverts(m) <=> MintFreshReverts(m)
           /\ \A m, a, x, is : OneMarket(j)!MintFresh(m, a, x, is) = MintFresh(m, a, x, is)
           /\ \A m, x : OneMarket(j)!RedeemTokensReverts(m, x) <=> RedeemTokensReverts(m, x)
           /\ \A m, x, y : OneMarket(j)!RedeemTokens(m, x, y) = RedeemTokens(m, x, y)
           /\ \A m, x, y : OneMarket(j)!RedeemAmount(m, x, y) = RedeemAmount(m, x, y)
           /\ \A m, a, x, y :
                  OneMarket(j)!RedeemFreshReverts(m, a, x, y) <=> RedeemFreshReverts(m, a, x, y)
           /\ \A m, a, x, y : OneMarket(j)!RedeemFresh(m, a, x, y) = RedeemFresh(m, a, x, y)
           /\ \A m, a : OneMarket(j)!RefreshAccountBorrows(m, a) = RefreshAccountBorrows(m, a)
           /\ \A m, a, x : OneMarket(j)!BorrowFresh(m, a, x) = BorrowFresh(m, a, x)
           /\ \A m, a, x : OneMarket(j)!RepayAmount(m, a, x) = RepayAmount(m, a, x)
           /\ \A m, a, x :
                  OneMarket(j)!RepayBorrowFreshReverts(m, a, x) <=> RepayBorrowFreshReverts(m, a, x)
           /\ \A m, a, x : OneMarket(j)!RepayBorrowFresh(m, a, x) = RepayBorrowFresh(m, a, x)
           /\ \A m, a, x :
                  OneMarket(j)!SeizeInternalReverts(m, a, x) <=> SeizeInternalReverts(m, a, x)
           /\ \A m, c, a, x : OneMarket(j)!SeizeInternal(m, c, a, x) = SeizeInternal(m, c, a, x)
           /\ \A m, s, a, x :
                  OneMarket(j)!TransferTokensReverts(m, s, a, x) <=> TransferTokensReverts(m, s, a, x)
           /\ \A m, s, a, b, x :
                  OneMarket(j)!TransferTokens(m, s, a, b, x) = TransferTokens(m, s, a, b, x)
PROOF
  <1>1. \A m, t : OneMarket(j)!Accruals(m, t) = Accruals(m, t)
    BY DEF Accruals, AccrueInterest, MulScalarTruncate, MulScalarTruncateAddUInt,
       Truncate, OneMarket!Accruals, OneMarket!AccrueInterest,
       OneMarket!MulScalarTruncate, OneMarket!MulScalarTruncateAddUInt,
       OneMarket!Truncate
  <1>2. \A f : OneMarket(j)!Total(f) = Total(f)
    BY DEF Total, Units, Cardinality, OneMarket!Total, OneMarket!Units, OneMarket!Cardinality
  <1>3. \A m, a : OneMarket(j)!BorrowBalanceStored(m, a) = BorrowBalanceStored(m, a)
    BY DEF BorrowBalanceStored, OneMarket!BorrowBalanceStored
  <1>4. \A m : OneMarket(j)!ExchangeRateReverts(m) <=> ExchangeRateReverts(m)
    BY DEF ExchangeRateReverts, CashPlusBorrowsMinusReserves,
       OneMarket!ExchangeRateReverts, OneMarket!CashPlusBorrowsMinusReserves
  <1>5. \A m : OneMarket(j)!ExchangeRateStored(m) = ExchangeRateStored(m)
    BY DEF ExchangeRateStored, DivUIntByExp, CashPlusBorrowsMinusReserves,
       OneMarket!ExchangeRateStored, OneMarket!DivUIntByExp,
       OneMarket!CashPlusBorrowsMinusReserves
  <1>6. \A m, a, is :
            OneMarket(j)!InitializeAccountCollateralTokens(m, a, is) = InitializeAccountCollateralTokens(m, a, is)
    BY DEF InitializeAccountCollateralTokens,
       OneMarket!InitializeAccountCollateralTokens
  <1>7. \A m, a, x :
            OneMarket(j)!IncreaseUserCollateral(m, a, x) = IncreaseUserCollateral(m, a, x)
    BY DEF IncreaseUserCollateral, CollateralIncrease, OneMarket!IncreaseUserCollateral,
       OneMarket!CollateralIncrease
  <1>8. \A m, a, x :
            OneMarket(j)!DecreaseUserCollateral(m, a, x) = DecreaseUserCollateral(m, a, x)
    BY DEF DecreaseUserCollateral, OneMarket!DecreaseUserCollateral
  <1>9. \A m, a, x :
            OneMarket(j)!DecreaseUserCollateralReverts(m, a, x) <=> DecreaseUserCollateralReverts(m, a, x)
    BY DEF DecreaseUserCollateralReverts, OneMarket!DecreaseUserCollateralReverts
  <1>10. \A m, a : OneMarket(j)!BufferTokensReverts(m, a) <=> BufferTokensReverts(m, a)
    BY DEF BufferTokensReverts, BufferTokens, OneMarket!BufferTokensReverts,
       OneMarket!BufferTokens
  <1>11. \A m, a, x : OneMarket(j)!CollateralTokensOf(m, a, x) = CollateralTokensOf(m, a, x)
    BY DEF CollateralTokensOf, BufferTokens, OneMarket!CollateralTokensOf,
       OneMarket!BufferTokens
  <1>12. \A m, a, is : OneMarket(j)!RegisterCollateral(m, a, is) = RegisterCollateral(m, a, is)
    BY DEF RegisterCollateral, InitializeAccountCollateralTokens,
       IncreaseUserCollateral, BufferTokens, CollateralIncrease,
       OneMarket!RegisterCollateral, OneMarket!InitializeAccountCollateralTokens,
       OneMarket!IncreaseUserCollateral, OneMarket!BufferTokens,
       OneMarket!CollateralIncrease
  <1>13. \A m, a, is :
             OneMarket(j)!UnregisterCollateral(m, a, is) = UnregisterCollateral(m, a, is)
    BY DEF UnregisterCollateral, InitializeAccountCollateralTokens,
       DecreaseUserCollateral, OneMarket!UnregisterCollateral,
       OneMarket!InitializeAccountCollateralTokens, OneMarket!DecreaseUserCollateral
  <1>14. \A m, x : OneMarket(j)!Received(m, x) = Received(m, x)
    BY DEF Received, OneMarket!Received
  <1>15. \A m : OneMarket(j)!MintFreshReverts(m) <=> MintFreshReverts(m)
    BY DEF MintFreshReverts, ExchangeRateReverts, ExchangeRateStored,
       CashPlusBorrowsMinusReserves, DivUIntByExp, OneMarket!MintFreshReverts,
       OneMarket!ExchangeRateReverts, OneMarket!ExchangeRateStored,
       OneMarket!CashPlusBorrowsMinusReserves, OneMarket!DivUIntByExp
  <1>16. \A m, a, x, is : OneMarket(j)!MintFresh(m, a, x, is) = MintFresh(m, a, x, is)
    BY DEF MintFresh, MintTokens, DoTransferIn, IncreaseUserCollateral,
       DivScalarByExpTruncate, ExchangeRateStored, CollateralIncrease, Truncate,
       DivUIntByExp, CashPlusBorrowsMinusReserves, OneMarket!MintFresh,
       OneMarket!MintTokens, OneMarket!DoTransferIn, OneMarket!IncreaseUserCollateral,
       OneMarket!DivScalarByExpTruncate, OneMarket!ExchangeRateStored,
       OneMarket!CollateralIncrease, OneMarket!Truncate, OneMarket!DivUIntByExp,
       OneMarket!CashPlusBorrowsMinusReserves
  <1>17. \A m, x : OneMarket(j)!RedeemTokensReverts(m, x) <=> RedeemTokensReverts(m, x)
    BY DEF RedeemTokensReverts, ExchangeRateReverts, ExchangeRateStored,
       CashPlusBorrowsMinusReserves, DivUIntByExp, OneMarket!RedeemTokensReverts,
       OneMarket!ExchangeRateReverts, OneMarket!ExchangeRateStored,
       OneMarket!CashPlusBorrowsMinusReserves, OneMarket!DivUIntByExp
  <1>18. \A m, x, y : OneMarket(j)!RedeemTokens(m, x, y) = RedeemTokens(m, x, y)
    BY DEF RedeemTokens, DivScalarByExpTruncate, ExchangeRateStored, Truncate,
       DivUIntByExp, CashPlusBorrowsMinusReserves, OneMarket!RedeemTokens,
       OneMarket!DivScalarByExpTruncate, OneMarket!ExchangeRateStored,
       OneMarket!Truncate, OneMarket!DivUIntByExp,
       OneMarket!CashPlusBorrowsMinusReserves
  <1>19. \A m, x, y : OneMarket(j)!RedeemAmount(m, x, y) = RedeemAmount(m, x, y)
    BY DEF RedeemAmount, MulScalarTruncate, ExchangeRateStored, Truncate, DivUIntByExp,
       CashPlusBorrowsMinusReserves, OneMarket!RedeemAmount,
       OneMarket!MulScalarTruncate, OneMarket!ExchangeRateStored, OneMarket!Truncate,
       OneMarket!DivUIntByExp, OneMarket!CashPlusBorrowsMinusReserves
  <1>20. \A m, a, x, y :
             OneMarket(j)!RedeemFreshReverts(m, a, x, y) <=> RedeemFreshReverts(m, a, x, y)
    BY DEF RedeemFreshReverts, BufferTokensReverts, DecreaseUserCollateralReverts,
       CollateralTokensOf, BufferTokens, OneMarket!RedeemFreshReverts,
       OneMarket!BufferTokensReverts, OneMarket!DecreaseUserCollateralReverts,
       OneMarket!CollateralTokensOf, OneMarket!BufferTokens
  <1>21. \A m, a, x, y : OneMarket(j)!RedeemFresh(m, a, x, y) = RedeemFresh(m, a, x, y)
    BY DEF RedeemFresh, DecreaseUserCollateral, RedeemPaidOut, CollateralTokensOf,
       DoTransferOut, BufferTokens, OneMarket!RedeemFresh,
       OneMarket!DecreaseUserCollateral, OneMarket!RedeemPaidOut,
       OneMarket!CollateralTokensOf, OneMarket!DoTransferOut, OneMarket!BufferTokens
  <1>22. \A m, a : OneMarket(j)!RefreshAccountBorrows(m, a) = RefreshAccountBorrows(m, a)
    BY DEF RefreshAccountBorrows, SetAccountBorrows, BorrowBalanceStored,
       OneMarket!RefreshAccountBorrows, OneMarket!SetAccountBorrows,
       OneMarket!BorrowBalanceStored
  <1>23. \A m, a, x : OneMarket(j)!BorrowFresh(m, a, x) = BorrowFresh(m, a, x)
    BY DEF BorrowFresh, SetAccountBorrows, BorrowBalanceStored, DoTransferOut,
       OneMarket!BorrowFresh, OneMarket!SetAccountBorrows,
       OneMarket!BorrowBalanceStored, OneMarket!DoTransferOut
  <1>24. \A m, a, x : OneMarket(j)!RepayAmount(m, a, x) = RepayAmount(m, a, x)
    BY DEF RepayAmount, UIntMax, BorrowBalanceStored, OneMarket!RepayAmount,
       OneMarket!UIntMax, OneMarket!BorrowBalanceStored
  <1>25. \A m, a, x :
             OneMarket(j)!RepayBorrowFreshReverts(m, a, x) <=> RepayBorrowFreshReverts(m, a, x)
    BY DEF RepayBorrowFreshReverts, BorrowBalanceStored,
       OneMarket!RepayBorrowFreshReverts, OneMarket!BorrowBalanceStored
  <1>26. \A m, a, x : OneMarket(j)!RepayBorrowFresh(m, a, x) = RepayBorrowFresh(m, a, x)
    BY DEF RepayBorrowFresh, SetAccountBorrows, BorrowBalanceStored, DoTransferIn,
       OneMarket!RepayBorrowFresh, OneMarket!SetAccountBorrows,
       OneMarket!BorrowBalanceStored, OneMarket!DoTransferIn
  <1>27. \A m, a, x :
             OneMarket(j)!SeizeInternalReverts(m, a, x) <=> SeizeInternalReverts(m, a, x)
    BY DEF SeizeInternalReverts, ExchangeRateReverts, CashPlusBorrowsMinusReserves,
       OneMarket!SeizeInternalReverts, OneMarket!ExchangeRateReverts,
       OneMarket!CashPlusBorrowsMinusReserves
  <1>28. \A m, c, a, x : OneMarket(j)!SeizeInternal(m, c, a, x) = SeizeInternal(m, c, a, x)
    BY DEF SeizeInternal, MulUIntExp, MulScalarTruncate, ExchangeRateStored, Moved,
       Truncate, DivUIntByExp, CashPlusBorrowsMinusReserves, OneMarket!SeizeInternal,
       OneMarket!MulUIntExp, OneMarket!MulScalarTruncate, OneMarket!ExchangeRateStored,
       OneMarket!Moved, OneMarket!Truncate, OneMarket!DivUIntByExp,
       OneMarket!CashPlusBorrowsMinusReserves
  <1>29. \A m, s, a, x :
             OneMarket(j)!TransferTokensReverts(m, s, a, x) <=> TransferTokensReverts(m, s, a, x)
    BY DEF TransferTokensReverts, BufferTokensReverts, UIntMax, BufferTokens,
       OneMarket!TransferTokensReverts, OneMarket!BufferTokensReverts,
       OneMarket!UIntMax, OneMarket!BufferTokens
  <1>30. \A m, s, a, b, x :
             OneMarket(j)!TransferTokens(m, s, a, b, x) = TransferTokens(m, s, a, b, x)
    BY DEF TransferTokens, CollateralTokensOf, Moved, AllowancesAfter, BufferTokens,
       UIntMax, OneMarket!TransferTokens, OneMarket!CollateralTokensOf, OneMarket!Moved,
       OneMarket!AllowancesAfter, OneMarket!BufferTokens, OneMarket!UIntMax
  <1> QED
    BY <1>1, <1>2, <1>3, <1>4, <1>5, <1>6, <1>7, <1>8, <1>9, <1>10, <1>11, <1>12, <1>13, <1>14,
       <1>15, <1>16, <1>17, <1>18, <1>19, <1>20, <1>21, <1>22, <1>23, <1>24,
       <1>25, <1>26, <1>27, <1>28, <1>29, <1>30

LEMMA SameInitialized ==
    ASSUME NEW j, NEW m, NEW a
    PROVE  OneMarket(j)!Initialized(m, a) = Initialized(m, j, a)
BY SameOperators DEF OneMarket!Initialized, Initialized

(***************************************************************************)
(* What a transaction leaves alone.                                        *)
(***************************************************************************)
LEMMA MarketAfter ==
    ASSUME Inv, NEW j \in JToken, NEW m
    PROVE  With(j, m)[j] = m /\ \A k \in JToken \ {j} : With(j, m)[k] = jToken[k]
BY DEF Inv, Storages, With

LEMMA ClockStands ==
    ASSUME NEW j, UNCHANGED now
    PROVE  OneMarket(j)!NonReentrant
BY DEF OneMarket!NonReentrant

LEMMA MarketStands ==
    ASSUME NEW j, jToken'[j] = jToken[j], accountMembership'[j] = accountMembership[j],
           UNCHANGED now
    PROVE  UNCHANGED OneMarket(j)!vars
BY DEF OneMarket!vars

LEMMA MembershipAfter ==
    ASSUME Inv, NEW j \in JToken, NEW members,
           accountMembership' = [accountMembership EXCEPT ![j] = members]
    PROVE  /\ accountMembership'[j] = members
           /\ \A k \in JToken \ {j} : accountMembership'[k] = accountMembership[k]
BY DEF Inv, TrollerSound, ArraysMatch

--------------------------------------------------------------------------------
(***************************************************************************)
(* Every call is the same call of Market.                                  *)
(***************************************************************************)
LEMMA MintIsMint ==
    ASSUME Inv, NEW j \in JToken, NEW a \in Account, NEW amount \in Amounts, Mint(j, a, amount)
    PROVE  OneMarket(j)!Mint(a, amount)
PROOF
  <1>1. PICK m0 \in Accruals(jToken[j], now) :
          LET m == Initialized(m0, j, a)
          IN  \/ jToken' = With(j, m)
              \/ /\ amount # 0
                 /\ ~MintFreshReverts(m)
                 /\ \E actual \in Received(m, amount) :
                      jToken' = With(j, MintFresh(m, a, actual, a \in accountMembership[j]))
    BY DEF Mint
  <1> DEFINE m == Initialized(m0, j, a)
  <1>2. amount # 0 => amount > 0
    BY JoeLendingAssumption
  <1>3. \/ jToken'[j] = m
        \/ /\ amount > 0
           /\ ~MintFreshReverts(m)
           /\ \E actual \in Received(m, amount) :
                jToken'[j] = MintFresh(m, a, actual, a \in accountMembership[j])
    BY <1>1, <1>2, MarketAfter
  <1>4. OneMarket(j)!NonReentrant /\ UNCHANGED accountMembership[j]
    BY ClockStands DEF Mint, TrollerUnchanged, trollerVars
  <1> QED
    BY <1>3, <1>4, SameOperators, SameInitialized DEF OneMarket!Mint, OneMarket!Accrued

LEMMA RedeemIsRedeem ==
    ASSUME Inv, NEW j \in JToken, NEW a \in Account, NEW tokensIn \in Nat, NEW amountIn \in Nat,
           Redeem(j, a, tokensIn, amountIn)
    PROVE  OneMarket(j)!Redeem(a, tokensIn, amountIn)
PROOF
  <1>1. PICK m0 \in Accruals(jToken[j], now) :
          LET m      == Initialized(m0, j, a)
              tokens == RedeemTokens(m, tokensIn, amountIn)
              amount == RedeemAmount(m, tokensIn, amountIn)
          IN  /\ ~RedeemTokensReverts(m, tokensIn)
              /\ ~BufferTokensReverts(m, a)
              /\ \/ jToken' = With(j, m)
                 \/ /\ ~(amount > m.internalCash)
                    /\ ~RedeemFreshReverts(m, a, tokens, amount)
                    /\ jToken' = With(j, RedeemFresh(m, a, tokens, amount))
    BY DEF Redeem
  <1> DEFINE m      == Initialized(m0, j, a)
             tokens == RedeemTokens(m, tokensIn, amountIn)
             amount == RedeemAmount(m, tokensIn, amountIn)
  <1>2. Sound(m, accountMembership[j], now)
    BY AccruedIsSound, InitializedIsSound
  <1>3. ~RedeemTokensReverts(m, tokensIn) /\ ~BufferTokensReverts(m, a)
    BY <1>1
  <1>4. ~(amount > m.internalCash) => amount <= m.internalCash
    <2> HIDE DEF m
    <2>1. amount \in Nat /\ m.internalCash \in Nat
      BY <1>2, <1>3, RedeemTypes, MoneyTypes DEF Sound
    <2> QED
      BY <2>1
  <1>5. \/ jToken'[j] = m
        \/ /\ amount <= m.internalCash
           /\ ~RedeemFreshReverts(m, a, tokens, amount)
           /\ jToken'[j] = RedeemFresh(m, a, tokens, amount)
    BY <1>1, <1>4, MarketAfter
  <1>6. /\ OneMarket(j)!NonReentrant /\ UNCHANGED accountMembership[j]
        /\ tokensIn = 0 \/ amountIn = 0
    BY ClockStands DEF Redeem, TrollerUnchanged, trollerVars
  <1> QED
    BY <1>3, <1>5, <1>6, SameOperators, SameInitialized DEF OneMarket!Redeem, OneMarket!Accrued

(* The sender of a transfer is here the one who calls it. *)
LEMMA TransferIsTransfer ==
    ASSUME Inv, NEW j \in JToken, NEW src \in Account, NEW dst \in Account, NEW tokens \in Amounts,
           Transfer(j, src, dst, tokens)
    PROVE  OneMarket(j)!Transfer(src, src, dst, tokens)
PROOF
  <1> DEFINE m == Initialized(Initialized(jToken[j], j, src), j, dst)
  <1>1. /\ ~BufferTokensReverts(m, src)
        /\ \/ jToken' = With(j, m)
           \/ /\ src # dst
              /\ ~TransferTokensReverts(m, src, src, tokens)
              /\ jToken' = With(j, TransferTokens(m, src, src, dst, tokens))
    BY DEF Transfer
  <1>2. \/ jToken'[j] = m
        \/ /\ src # dst
           /\ ~TransferTokensReverts(m, src, src, tokens)
           /\ jToken'[j] = TransferTokens(m, src, src, dst, tokens)
    BY <1>1, MarketAfter
  <1>3. OneMarket(j)!NonReentrant /\ UNCHANGED accountMembership[j]
    BY ClockStands DEF Transfer, TrollerUnchanged, trollerVars
  <1> QED
    BY <1>1, <1>2, <1>3, SameOperators, SameInitialized DEF OneMarket!Transfer

LEMMA EnterMarketIsEnterMarket ==
    ASSUME Inv, NEW j \in JToken, NEW a \in Account, EnterMarket(j, a)
    PROVE  OneMarket(j)!EnterMarket(a)
PROOF
  <1>1. jToken'[j] = RegisterCollateral(jToken[j], a, a \in accountMembership[j])
    BY MarketAfter DEF EnterMarket
  <1>2. accountMembership' = [accountMembership EXCEPT ![j] = accountMembership[j] \cup {a}]
    BY AddToMarketMatches DEF EnterMarket, Inv, TrollerSound
  <1>3. accountMembership'[j] = accountMembership[j] \cup {a}
    BY <1>2, MembershipAfter
  <1> QED
    BY <1>1, <1>3, SameOperators DEF OneMarket!EnterMarket, EnterMarket

LEMMA ExitMarketIsExitMarket ==
    ASSUME Inv, NEW j \in JToken, NEW a \in Account, ExitMarket(j, a)
    PROVE  OneMarket(j)!ExitMarket(a)
PROOF
  <1>1. jToken'[j] = UnregisterCollateral(jToken[j], a, a \in accountMembership[j])
    BY MarketAfter DEF ExitMarket
  <1>2. accountMembership' = [accountMembership EXCEPT ![j] = accountMembership[j] \ {a}]
    BY RemoveFromMarketMatches DEF ExitMarket, Inv, TrollerSound
  <1>3. accountMembership'[j] = accountMembership[j] \ {a}
    BY <1>2, MembershipAfter
  <1>4. LET m == Initialized(jToken[j], j, a)
        IN  ~DecreaseUserCollateralReverts(m, a, m.accountCollateralTokens[a])
    BY DEF ExitMarket
  <1>5. BorrowBalanceStored(jToken[j], a) = 0 /\ UNCHANGED now
    BY DEF ExitMarket
  <1> QED
    BY <1>1, <1>3, <1>4, <1>5, SameOperators, SameInitialized DEF OneMarket!ExitMarket

LEMMA BorrowIsBorrow ==
    ASSUME Inv, NEW j \in JToken, NEW a \in Account, NEW amount \in Amounts, Borrow(j, a, amount)
    PROVE  OneMarket(j)!Borrow(a, amount)
PROOF
  <1>1. PICK m0 \in Accruals(jToken[j], now) :
          LET m == IF a \in accountMembership[j] THEN m0 ELSE RegisterCollateral(m0, a, FALSE)
          IN  \/ jToken' = With(j, m)
              \/ amount = 0 /\ jToken' = With(j, RefreshAccountBorrows(m, a))
              \/ /\ amount # 0 /\ ~(amount > m.internalCash)
                 /\ jToken' = With(j, BorrowFresh(m, a, amount))
    BY DEF Borrow
  <1> DEFINE m == IF a \in accountMembership[j] THEN m0 ELSE RegisterCollateral(m0, a, FALSE)
  <1>2. Sound(m, accountMembership[j], now)
    <2>1. Sound(m0, accountMembership[j], now)
      BY AccruedIsSound
    <2> QED
      BY <2>1, RegisterIsSound
  <1>3. amount # 0 /\ ~(amount > m.internalCash) => amount > 0 /\ amount <= m.internalCash
    <2> HIDE DEF m
    <2>1. amount \in Nat /\ m.internalCash \in Nat
      BY <1>2, MoneyTypes, JoeLendingAssumption DEF Sound
    <2> QED
      BY <2>1
  <1>4. m = IF a \in accountMembership[j] THEN m0 ELSE OneMarket(j)!RegisterCollateral(m0, a, FALSE)
    BY SameOperators
  <1>5. \/ jToken' = With(j, m)
        \/ amount = 0 /\ jToken' = With(j, RefreshAccountBorrows(m, a))
        \/ /\ amount # 0 /\ ~(amount > m.internalCash)
           /\ jToken' = With(j, BorrowFresh(m, a, amount))
    BY <1>1
  <1> HIDE DEF m
  <1>6. \/ jToken'[j] = m
        \/ amount = 0 /\ jToken'[j] = OneMarket(j)!RefreshAccountBorrows(m, a)
        \/ /\ amount > 0 /\ amount <= m.internalCash
           /\ jToken'[j] = OneMarket(j)!BorrowFresh(m, a, amount)
    BY <1>3, <1>5, MarketAfter, SameOperators
  <1>7. accountMembership' = [accountMembership EXCEPT ![j] = accountMembership[j] \cup {a}]
    BY AddToMarketMatches DEF Borrow, Inv, TrollerSound
  <1>8. accountMembership'[j] = accountMembership[j] \cup {a}
    BY <1>7, MembershipAfter
  <1>9. OneMarket(j)!NonReentrant
    BY ClockStands DEF Borrow
  <1>10. m0 \in OneMarket(j)!Accrued(jToken[j])
    BY SameOperators DEF OneMarket!Accrued
  <1> QED
    BY <1>4, <1>6, <1>8, <1>9, <1>10 DEF OneMarket!Borrow

(* A repayment the Joetroller rejects accrues interest and nothing else. *)
LEMMA RepayBorrowIsRepayBorrow ==
    ASSUME Inv, NEW j \in JToken, NEW a \in Account, NEW repayAmount \in Amounts \cup {UIntMax},
           RepayBorrow(j, a, repayAmount)
    PROVE  OneMarket(j)!RepayBorrow(a, repayAmount) \/ OneMarket(j)!Accrue
PROOF
  <1>1. PICK m \in Accruals(jToken[j], now) :
          \/ jToken' = With(j, m)
          \/ repayAmount = 0 /\ jToken' = With(j, RefreshAccountBorrows(m, a))
          \/ /\ repayAmount # 0
             /\ \E actual \in Received(m, RepayAmount(m, a, repayAmount)) :
                  /\ ~RepayBorrowFreshReverts(m, a, actual)
                  /\ jToken' = With(j, RepayBorrowFresh(m, a, actual))
    BY DEF RepayBorrow
  <1>2. \/ jToken'[j] = m
        \/ repayAmount = 0 /\ jToken'[j] = RefreshAccountBorrows(m, a)
        \/ /\ repayAmount # 0
           /\ \E actual \in Received(m, RepayAmount(m, a, repayAmount)) :
                /\ ~RepayBorrowFreshReverts(m, a, actual)
                /\ jToken'[j] = RepayBorrowFresh(m, a, actual)
    BY <1>1, MarketAfter
  <1>3. UNCHANGED <<accountMembership[j], now>> /\ OneMarket(j)!NonReentrant
    BY ClockStands DEF RepayBorrow, TrollerUnchanged, trollerVars
  <1>4. CASE jToken'[j] = m
    BY <1>3, <1>4, SameOperators DEF OneMarket!Accrue, OneMarket!Accrued
  <1>5. CASE jToken'[j] # m
    <2>1. m \in OneMarket(j)!Accrued(jToken[j])
      BY SameOperators DEF OneMarket!Accrued
    <2>2. \/ repayAmount = 0 /\ jToken'[j] = OneMarket(j)!RefreshAccountBorrows(m, a)
          \/ /\ repayAmount # 0
             /\ \E actual \in OneMarket(j)!Received(m, OneMarket(j)!RepayAmount(m, a, repayAmount)) :
                  /\ ~OneMarket(j)!RepayBorrowFreshReverts(m, a, actual)
                  /\ jToken'[j] = OneMarket(j)!RepayBorrowFresh(m, a, actual)
      BY <1>2, <1>5, SameOperators
    <2> QED
      BY <1>3, <2>1, <2>2 DEF OneMarket!RepayBorrow
  <1> QED
    BY <1>4, <1>5

(***************************************************************************)
(* The admins and the clock.                                               *)
(***************************************************************************)
LEMMA AccrueIsAccrue ==
    ASSUME Inv, NEW j \in JToken, Accrue(j)
    PROVE  OneMarket(j)!Accrue
PROOF
  <1>1. \E m \in Accruals(jToken[j], now) : jToken'[j] = m
    BY MarketAfter DEF Accrue
  <1>2. UNCHANGED <<accountMembership[j], now>>
    BY DEF Accrue, TrollerUnchanged, trollerVars
  <1> QED
    BY <1>1, <1>2, SameOperators DEF OneMarket!Accrue, OneMarket!Accrued

LEMMA SetProtocolSeizeShareIsThat ==
    ASSUME Inv, NEW j \in JToken, NEW mantissa \in SeizeShares, SetProtocolSeizeShare(j, mantissa)
    PROVE  OneMarket(j)!SetProtocolSeizeShare(mantissa)
PROOF
  <1>1. \E m \in Accruals(jToken[j], now) :
          jToken'[j] = [m EXCEPT !.protocolSeizeShareMantissa = mantissa]
    BY MarketAfter DEF SetProtocolSeizeShare
  <1>2. OneMarket(j)!NonReentrant /\ UNCHANGED accountMembership[j]
    BY ClockStands DEF SetProtocolSeizeShare, TrollerUnchanged, trollerVars
  <1>3. mantissa <= protocolSeizeShareMaxMantissa
    BY DEF SetProtocolSeizeShare
  <1>4. OneMarket(j)!Accrued(jToken[j]) = Accruals(jToken[j], now)
    BY SameOperators DEF OneMarket!Accrued
  <1> QED
    BY <1>1, <1>2, <1>3, <1>4 DEF OneMarket!SetProtocolSeizeShare

LEMMA SetCollateralCapIsThat ==
    ASSUME Inv, NEW j \in JToken, NEW cap \in CollateralCaps, SetCollateralCap(j, cap)
    PROVE  OneMarket(j)!SetCollateralCap(cap)
PROOF
  <1>1. jToken'[j] = [jToken[j] EXCEPT !.collateralCap = cap]
    BY MarketAfter DEF SetCollateralCap
  <1>2. UNCHANGED <<accountMembership[j], now>>
    BY DEF SetCollateralCap, TrollerUnchanged, trollerVars
  <1> QED
    BY <1>1, <1>2 DEF OneMarket!SetCollateralCap

LEMMA TickIsTick ==
    ASSUME NEW j \in JToken, Tick
    PROVE  OneMarket(j)!Tick
BY DEF Tick, trollerVars, OneMarket!Tick

LEMMA AdminLeavesMarkets ==
    ASSUME JoetrollerAdmin
    PROVE  UNCHANGED <<jToken, now, accountMembership>>
BY DEF JoetrollerAdmin, SetCloseFactor, SetLiquidationIncentive, SetCollateralFactor,
       SetMarketSupplyCap, SetMarketBorrowCap, SetCreditLimit, SetMintPaused, SetBorrowPaused,
       SetTransferPaused, SetSeizePaused, SetConfig, SupportMarket, DelistMarket

(***************************************************************************)
(* Liquidation.  Where one market is borrowed from and seized in, it is    *)
(* one call of that market; else the market of the debt sees a repayment   *)
(* and the market of the collateral a seizure.                             *)
(***************************************************************************)
LEMMA AccrualKeepsTokens ==
    ASSUME Inv, NEW j \in JToken, NEW m \in Accruals(jToken[j], now)
    PROVE  m.accountTokens = jToken[j].accountTokens
PROOF
  <1>1. PICK rate \in BorrowRates : m = AccrueInterest(jToken[j], now, rate)
    BY DEF Accruals
  <1>2. jToken[j] \in MarketType
    BY DEF Inv, Storages
  <1> QED
    BY <1>1, <1>2 DEF AccrueInterest, MarketType

LEMMA RepaymentKeepsTokens ==
    ASSUME NEW m \in MarketType, NEW a \in Account, NEW amount
    PROVE  RepayBorrowFresh(m, a, amount).accountTokens = m.accountTokens
BY DEF RepayBorrowFresh, SetAccountBorrows, DoTransferIn, MarketType

LEMMA SeizedTokensAreBounded ==
    ASSUME Inv, NEW j \in JToken, WithinBounds(jToken[j]), NEW a \in Account,
           NEW tokens \in Nat, tokens <= jToken[j].accountTokens[a]
    PROVE  tokens \in 0 .. MaxTokens
PROOF
  <1> DEFINE balance == jToken[j].accountTokens
  <1>1. balance \in Balances /\ Total(balance) = jToken[j].totalSupply
    BY FieldTypes DEF Inv, Storages, Sound, SupplyAddsUp
  <1>2. balance[a] <= Total(balance) /\ balance[a] \in Nat /\ Total(balance) \in Nat
    BY <1>1, BalanceWithinTotal, TotalType DEF Balances
  <1> QED
    BY <1>1, <1>2, JoeLendingAssumption DEF WithinBounds

LEMMA SeizureIsSeized ==
    ASSUME NEW j, NEW m, NEW liquidator, NEW borrower, NEW tokens \in Nat,
           NEW m1, m1 = Initialized(Initialized(m, j, liquidator), j, borrower),
           tokens > 0 => ~SeizeInternalReverts(m1, borrower, tokens)
    PROVE  (IF tokens = 0 THEN m1 ELSE SeizeInternal(m1, liquidator, borrower, tokens))
             \in OneMarket(j)!Seized(m, liquidator, borrower, tokens)
PROOF
  <1>1. m1 = OneMarket(j)!Initialized(OneMarket(j)!Initialized(m, liquidator), borrower)
    BY SameInitialized
  <1>2. OneMarket(j)!Seized(m, liquidator, borrower, tokens) =
          IF tokens = 0 THEN {m1}
          ELSE { n \in {OneMarket(j)!SeizeInternal(m1, liquidator, borrower, tokens)} :
                   ~OneMarket(j)!SeizeInternalReverts(m1, borrower, tokens) }
    BY <1>1 DEF OneMarket!Seized
  <1> QED
    BY <1>2, SameOperators

(* What a successful liquidation leaves in the markets, if mb and mc are   *)
(* the two markets with their interest.                                    *)
Liquidation(jb, jc, mb, mc, liquidator, borrower, actual, tokens) ==
    LET collateral == IF jb = jc THEN RepayBorrowFresh(mb, borrower, actual) ELSE mc
        m == Initialized(Initialized(collateral, jc, liquidator), jc, borrower)
    IN  /\ ~RepayBorrowFreshReverts(mb, borrower, actual)
        /\ ~SeizeReverts(borrower)
        /\ tokens \in 0 .. MaxTokens
        /\ actual = 0 => tokens = 0
        /\ tokens <= collateral.accountTokens[borrower]
        /\ tokens > 0 => ~SeizeInternalReverts(m, borrower, tokens)
        /\ jb # jc => jToken'[jb] = RepayBorrowFresh(mb, borrower, actual)
        /\ jToken'[jc] = IF tokens = 0 THEN m ELSE SeizeInternal(m, liquidator, borrower, tokens)

(* The markets with that interest, before anything is repaid. *)
AccruedAt(jb, jc, mb, mc) == [jToken EXCEPT ![jb] = mb, ![jc] = IF jb = jc THEN mb ELSE mc]

LEMMA LiquidationOutcome ==
    ASSUME Inv, NEW jb \in JToken, NEW jc \in JToken, WithinBounds(jToken[jc]),
           NEW liquidator \in Account, NEW borrower \in Account,
           NEW repayAmount \in LiquidationAmounts,
           LiquidateBorrow(jb, jc, liquidator, borrower, repayAmount)
    PROVE  /\ \A k \in JToken \ {jb, jc} : jToken'[k] = jToken[k]
           /\ \E mb \in Accruals(jToken[jb], now), mc \in Accruals(jToken[jc], now) :
                \/ jToken'[jb] = mb /\ jToken'[jc] = IF jb = jc THEN mb ELSE mc
                \/ /\ liquidator # borrower /\ repayAmount # 0
                   /\ AccountLiquidity(AccruedAt(jb, jc, mb, mc), borrower).shortfall # 0
                   /\ \E actual \in Received(mb, repayAmount), tokens \in Nat :
                        Liquidation(jb, jc, mb, mc, liquidator, borrower, actual, tokens)
PROOF
  <1>1. PICK accrued \in AccruedBoth(jb, jc) :
          \/ jToken' = accrued
          \/ /\ borrower # liquidator /\ repayAmount # 0
             /\ AccountLiquidity(accrued, borrower).shortfall # 0
             /\ \E actual \in Received(accrued[jb], repayAmount) :
                  LET repaid == [accrued EXCEPT ![jb] = RepayBorrowFresh(@, borrower, actual)]
                      tokens == SeizeTokens(repaid, jb, jc, actual)
                      m      == Initialized(Initialized(repaid[jc], jc, liquidator), jc, borrower)
                  IN  /\ ~RepayBorrowFreshReverts(accrued[jb], borrower, actual)
                      /\ ~SeizeTokensReverts(repaid, jb, jc)
                      /\ tokens <= repaid[jc].accountTokens[borrower]
                      /\ ~SeizeReverts(borrower)
                      /\ tokens > 0 => ~SeizeInternalReverts(m, borrower, tokens)
                      /\ jToken' = [repaid EXCEPT ![jc] =
                           IF tokens = 0 THEN m ELSE SeizeInternal(m, liquidator, borrower, tokens)]
    BY DEF LiquidateBorrow, LiquidateBorrowAllowed
  <1>2. PICK mb \in Accruals(jToken[jb], now), mc \in Accruals(jToken[jc], now) :
          /\ Storages(accrued) /\ accrued = AccruedAt(jb, jc, mb, mc)
          /\ accrued[jb] = mb /\ accrued[jc] = IF jb = jc THEN mb ELSE mc
          /\ \A k \in JToken \ {jb, jc} : accrued[k] = jToken[k]
    <2>1. PICK mb \in Accruals(jToken[jb], now), mc \in Accruals(jToken[jc], now) :
            accrued = [jToken EXCEPT ![jb] = mb, ![jc] = IF jb = jc THEN mb ELSE mc]
      BY DEF AccruedBoth
    <2>2. DOMAIN jToken = JToken
      BY DEF Inv, Storages
    <2> QED
      BY <2>1, <2>2, AccruedBothAreSound DEF AccruedAt
  <1>3. CASE jToken' = accrued
    BY <1>2, <1>3
  <1>4. CASE jToken' # accrued
    <2>1. PICK actual \in Received(accrued[jb], repayAmount) :
            LET repaid == [accrued EXCEPT ![jb] = RepayBorrowFresh(@, borrower, actual)]
                tokens == SeizeTokens(repaid, jb, jc, actual)
                m      == Initialized(Initialized(repaid[jc], jc, liquidator), jc, borrower)
            IN  /\ ~RepayBorrowFreshReverts(accrued[jb], borrower, actual)
                /\ ~SeizeTokensReverts(repaid, jb, jc)
                /\ tokens <= repaid[jc].accountTokens[borrower]
                /\ ~SeizeReverts(borrower)
                /\ tokens > 0 => ~SeizeInternalReverts(m, borrower, tokens)
                /\ jToken' = [repaid EXCEPT ![jc] =
                     IF tokens = 0 THEN m ELSE SeizeInternal(m, liquidator, borrower, tokens)]
      BY <1>1, <1>4
    <2>2. /\ borrower # liquidator /\ repayAmount # 0
          /\ AccountLiquidity(AccruedAt(jb, jc, mb, mc), borrower).shortfall # 0
      BY <1>1, <1>2, <1>4
    <2> DEFINE repaid     == [accrued EXCEPT ![jb] = RepayBorrowFresh(@, borrower, actual)]
               tokens     == SeizeTokens(repaid, jb, jc, actual)
               collateral == IF jb = jc THEN RepayBorrowFresh(mb, borrower, actual) ELSE mc
               m          == Initialized(Initialized(repaid[jc], jc, liquidator), jc, borrower)
               n          == IF tokens = 0 THEN m
                             ELSE SeizeInternal(m, liquidator, borrower, tokens)
    <2>3. /\ ~RepayBorrowFreshReverts(accrued[jb], borrower, actual)
          /\ ~SeizeTokensReverts(repaid, jb, jc)
          /\ tokens <= repaid[jc].accountTokens[borrower]
          /\ ~SeizeReverts(borrower)
          /\ tokens > 0 => ~SeizeInternalReverts(m, borrower, tokens)
          /\ jToken' = [repaid EXCEPT ![jc] = n]
      BY <2>1, Zenon
    <2>4. DOMAIN accrued = JToken /\ mb \in MarketType
      BY <1>2 DEF Storages
    <2>5. /\ DOMAIN repaid = JToken /\ repaid[jc] = collateral
          /\ jb # jc => repaid[jb] = RepayBorrowFresh(mb, borrower, actual)
          /\ \A k \in JToken \ {jb, jc} : repaid[k] = jToken[k]
      BY <1>2, <2>4
    <2>6. collateral.accountTokens = jToken[jc].accountTokens
      BY <2>4, AccrualKeepsTokens, RepaymentKeepsTokens
    <2>7. actual \in Nat
      BY <1>2, <2>4, ReceivedType, JoeLendingAssumption
    <2>8. Storages(repaid)
      <3>1. Sound(RepayBorrowFresh(mb, borrower, actual), accountMembership[jb], now)
        BY <1>2, <2>3, <2>7, RepayBorrowIsSound DEF Storages
      <3>2. repaid = [accrued EXCEPT ![jb] = RepayBorrowFresh(mb, borrower, actual)]
        BY <1>2
      <3> QED
        BY <1>2, <3>1, <3>2, UpdateStorages
    <2> HIDE DEF repaid
    <2>9. tokens \in Nat /\ (actual = 0 => tokens = 0)
      BY <2>3, <2>7, <2>8, SeizeTokensType DEF Inv
    <2> HIDE DEF tokens, collateral
    <2>10. tokens \in 0 .. MaxTokens
      BY <2>3, <2>5, <2>6, <2>9, SeizedTokensAreBounded
    <2>11. m = Initialized(Initialized(collateral, jc, liquidator), jc, borrower)
      BY <2>5
    <2> HIDE DEF m
    <2>12. /\ jToken'[jc] = n
           /\ jb # jc => jToken'[jb] = RepayBorrowFresh(mb, borrower, actual)
           /\ \A k \in JToken \ {jb, jc} : jToken'[k] = jToken[k]
      BY <2>3, <2>5
    <2>13. Liquidation(jb, jc, mb, mc, liquidator, borrower, actual, tokens)
      BY <1>2, <2>3, <2>5, <2>9, <2>10, <2>11, <2>12 DEF Liquidation, collateral
    <2> QED
      BY <1>2, <2>2, <2>9, <2>12, <2>13
  <1> QED
    BY <1>3, <1>4

(* What any step does to one market: nothing, or a step of Market. *)
MarketStep(k) == UNCHANGED OneMarket(k)!vars \/ OneMarket(k)!Step

LEMMA RepaidInAnotherMarket ==
    ASSUME Inv, NEW jb \in JToken, NEW mb \in Accruals(jToken[jb], now),
           NEW borrower \in Account, NEW repayAmount \in LiquidationAmounts, repayAmount # 0,
           NEW actual \in Received(mb, repayAmount),
           ~RepayBorrowFreshReverts(mb, borrower, actual),
           jToken'[jb] = RepayBorrowFresh(mb, borrower, actual),
           UNCHANGED <<now, accountMembership[jb]>>
    PROVE  MarketStep(jb)
PROOF
  <1>1. RepayAmount(mb, borrower, repayAmount) = repayAmount
    BY JoeLendingAssumption DEF RepayAmount, UIntMax
  <1>2. mb \in OneMarket(jb)!Accrued(jToken[jb])
    BY SameOperators DEF OneMarket!Accrued
  <1>3. OneMarket(jb)!NonReentrant
    BY ClockStands
  <1>4. actual \in OneMarket(jb)!Received(mb, OneMarket(jb)!RepayAmount(mb, borrower, repayAmount))
    BY <1>1, SameOperators
  <1>5. /\ ~OneMarket(jb)!RepayBorrowFreshReverts(mb, borrower, actual)
        /\ jToken'[jb] = OneMarket(jb)!RepayBorrowFresh(mb, borrower, actual)
    BY SameOperators
  <1>6. OneMarket(jb)!RepayBorrow(borrower, repayAmount)
    BY <1>2, <1>3, <1>4, <1>5 DEF OneMarket!RepayBorrow
  <1> QED
    BY <1>6 DEF MarketStep, OneMarket!Step

LEMMA LiquidationIsMarketSteps ==
    ASSUME Inv, NEW jb \in JToken, NEW jc \in JToken, WithinBounds(jToken[jc]),
           NEW liquidator \in Account, NEW borrower \in Account,
           NEW repayAmount \in LiquidationAmounts,
           LiquidateBorrow(jb, jc, liquidator, borrower, repayAmount),
           NEW k \in JToken
    PROVE  MarketStep(k)
PROOF
  <1>1. UNCHANGED <<now, accountMembership>> /\ UNCHANGED accountMembership[k]
    BY DEF LiquidateBorrow, TrollerUnchanged, trollerVars
  <1>2. \A j \in JToken \ {jb, jc} : jToken'[j] = jToken[j]
    BY LiquidationOutcome
  <1>3. PICK mb \in Accruals(jToken[jb], now), mc \in Accruals(jToken[jc], now) :
          \/ jToken'[jb] = mb /\ jToken'[jc] = IF jb = jc THEN mb ELSE mc
          \/ /\ liquidator # borrower /\ repayAmount # 0
             /\ \E actual \in Received(mb, repayAmount), tokens \in Nat :
                  Liquidation(jb, jc, mb, mc, liquidator, borrower, actual, tokens)
    BY LiquidationOutcome
  <1>4. CASE k \notin {jb, jc}
    BY <1>1, <1>2, <1>4, MarketStands DEF MarketStep
  <1>5. ASSUME k \in {jb, jc}, jToken'[jb] = mb, jToken'[jc] = IF jb = jc THEN mb ELSE mc
        PROVE  MarketStep(k)
    <2>1. jToken'[k] \in Accruals(jToken[k], now)
      BY <1>5
    <2>2. OneMarket(k)!Accrue
      BY <1>1, <2>1, SameOperators DEF OneMarket!Accrue, OneMarket!Accrued
    <2> QED
      BY <2>2 DEF MarketStep, OneMarket!Step
  <1>6. ASSUME liquidator # borrower, repayAmount # 0, k \in {jb, jc},
               NEW actual \in Received(mb, repayAmount), NEW tokens \in Nat,
               Liquidation(jb, jc, mb, mc, liquidator, borrower, actual, tokens)
        PROVE  MarketStep(k)
    <2> DEFINE collateral == IF jb = jc THEN RepayBorrowFresh(mb, borrower, actual) ELSE mc
               m == Initialized(Initialized(collateral, jc, liquidator), jc, borrower)
    <2>1. /\ ~RepayBorrowFreshReverts(mb, borrower, actual)
          /\ tokens \in 0 .. MaxTokens
          /\ tokens <= collateral.accountTokens[borrower]
          /\ tokens > 0 => ~SeizeInternalReverts(m, borrower, tokens)
          /\ jb # jc => jToken'[jb] = RepayBorrowFresh(mb, borrower, actual)
          /\ jToken'[jc] = IF tokens = 0 THEN m
                           ELSE SeizeInternal(m, liquidator, borrower, tokens)
      BY <1>6, Zenon DEF Liquidation
    <2>2. jToken'[jc] \in OneMarket(jc)!Seized(collateral, liquidator, borrower, tokens)
      BY <2>1, SeizureIsSeized
    <2>3. OneMarket(k)!NonReentrant
      BY <1>1, ClockStands
    <2>4. tokens \in Amounts \cup LiquidationAmounts \cup 0 .. MaxTokens
      BY <2>1
    <2>5. CASE k = jb /\ jb # jc
      <3>1. jToken'[jb] = RepayBorrowFresh(mb, borrower, actual)
        BY <2>1, <2>5
      <3> QED
        BY <1>1, <1>6, <2>1, <2>5, <3>1, RepaidInAnotherMarket
    <2>6. CASE k = jc /\ jb # jc
      <3>1. mc \in OneMarket(k)!Accrued(jToken[k])
        BY <2>6, SameOperators DEF OneMarket!Accrued
      <3>2. jToken'[k] \in OneMarket(k)!Seized(mc, liquidator, borrower, tokens)
        BY <2>2, <2>6
      <3>3. OneMarket(k)!Seize(liquidator, borrower, tokens)
        BY <1>1, <1>6, <2>3, <3>1, <3>2 DEF OneMarket!Seize
      <3> QED
        BY <2>4, <3>3 DEF MarketStep, OneMarket!Step
    <2>7. CASE k = jc /\ jb = jc
      <3>1. mb \in OneMarket(k)!Accrued(jToken[k])
        BY <2>7, SameOperators DEF OneMarket!Accrued
      <3>2. /\ actual \in OneMarket(k)!Received(mb, repayAmount)
            /\ ~OneMarket(k)!RepayBorrowFreshReverts(mb, borrower, actual)
            /\ collateral = OneMarket(k)!RepayBorrowFresh(mb, borrower, actual)
        BY <2>1, <2>7, SameOperators
      <3>3. tokens <= mb.accountTokens[borrower]
        <4>1. mb \in MarketType
          BY <2>7, AccruedIsSound DEF Sound
        <4> QED
          BY <2>1, <2>7, <4>1, RepaymentKeepsTokens
      <3>4. jToken'[k] \in OneMarket(k)!Seized(collateral, liquidator, borrower, tokens)
        BY <2>2, <2>7
      <3>5. repayAmount > 0
        BY <1>6, JoeLendingAssumption
      <3> HIDE DEF collateral
      <3>6. OneMarket(k)!LiquidateBorrow(liquidator, borrower, repayAmount, tokens)
        BY <1>1, <1>6, <2>3, <3>1, <3>2, <3>3, <3>4, <3>5 DEF OneMarket!LiquidateBorrow
      <3> QED
        BY <2>4, <3>6 DEF MarketStep, OneMarket!Step
    <2> QED
      BY <1>6, <2>5, <2>6, <2>7
  <1> QED
    BY <1>3, <1>4, <1>5, <1>6

--------------------------------------------------------------------------------
(***************************************************************************)
(* All steps, and the initial states.                                      *)
(***************************************************************************)
Bounded == \A j \in JToken : WithinBounds(jToken[j])

LEMMA OneCallIsMarketSteps ==
    ASSUME Inv, NEW j \in JToken, OneMarket(j)!Step, UNCHANGED now,
           NEW m, jToken' = With(j, m),
           NEW members, accountMembership' = [accountMembership EXCEPT ![j] = members],
           NEW k \in JToken
    PROVE  MarketStep(k)
PROOF
  <1>1. CASE k = j
    BY <1>1 DEF MarketStep
  <1>2. CASE k # j
    <2>1. jToken'[k] = jToken[k] /\ accountMembership'[k] = accountMembership[k]
      BY <1>2, MarketAfter, MembershipAfter
    <2> QED
      BY <2>1, MarketStands DEF MarketStep
  <1> QED
    BY <1>1, <1>2

LEMMA QuietCallIsMarketSteps ==
    ASSUME Inv, NEW j \in JToken, OneMarket(j)!Step, TrollerUnchanged, NEW m, jToken' = With(j, m),
           NEW k \in JToken
    PROVE  MarketStep(k)
PROOF
  <1>1. UNCHANGED <<now, accountMembership>>
    BY DEF TrollerUnchanged, trollerVars
  <1>2. accountMembership' = [accountMembership EXCEPT ![j] = accountMembership[j]]
    BY <1>1 DEF Inv, TrollerSound, ArraysMatch
  <1> QED
    BY <1>1, <1>2, OneCallIsMarketSteps

LEMMA StepIsMarketSteps ==
    ASSUME Inv, Bounded, Step, NEW k \in JToken
    PROVE  MarketStep(k)
PROOF
  <1>1. ASSUME NEW j \in JToken, NEW a \in Account, NEW amount \in Amounts, Mint(j, a, amount)
        PROVE  MarketStep(k)
    <2>1. OneMarket(j)!Step
      BY <1>1, MintIsMint DEF OneMarket!Step
    <2>2. TrollerUnchanged /\ \E m : jToken' = With(j, m)
      BY <1>1 DEF Mint
    <2> QED
      BY <2>1, <2>2, QuietCallIsMarketSteps
  <1>2. ASSUME NEW j \in JToken, NEW a \in Account, NEW amount \in Amounts,
               Redeem(j, a, amount, 0) \/ Redeem(j, a, 0, amount)
        PROVE  MarketStep(k)
    <2>1. amount \in Nat /\ 0 \in Nat
      BY JoeLendingAssumption
    <2>2. OneMarket(j)!Redeem(a, amount, 0) \/ OneMarket(j)!Redeem(a, 0, amount)
      BY <1>2, <2>1, RedeemIsRedeem
    <2>3. OneMarket(j)!Step
      BY <2>2 DEF OneMarket!Step
    <2>4. TrollerUnchanged /\ \E m : jToken' = With(j, m)
      BY <1>2 DEF Redeem
    <2> QED
      BY <2>3, <2>4, QuietCallIsMarketSteps
  <1>3. ASSUME NEW j \in JToken, NEW src \in Account, NEW dst \in Account, NEW tokens \in Amounts,
               Transfer(j, src, dst, tokens)
        PROVE  MarketStep(k)
    <2>1. OneMarket(j)!Step
      BY <1>3, TransferIsTransfer DEF OneMarket!Step
    <2>2. TrollerUnchanged /\ \E m : jToken' = With(j, m)
      BY <1>3 DEF Transfer
    <2> QED
      BY <2>1, <2>2, QuietCallIsMarketSteps
  <1>4. ASSUME NEW j \in JToken, NEW a \in Account, NEW amount \in Amounts, Borrow(j, a, amount)
        PROVE  MarketStep(k)
    <2>1. OneMarket(j)!Step
      BY <1>4, BorrowIsBorrow DEF OneMarket!Step
    <2>2. UNCHANGED now /\ \E m : jToken' = With(j, m)
      BY <1>4 DEF Borrow
    <2>3. accountMembership' = [accountMembership EXCEPT ![j] = accountMembership[j] \cup {a}]
      BY <1>4, AddToMarketMatches DEF Borrow, Inv, TrollerSound
    <2> QED
      BY <2>1, <2>2, <2>3, OneCallIsMarketSteps
  <1>5. ASSUME NEW j \in JToken, NEW a \in Account, NEW amount \in Amounts \cup {UIntMax},
               RepayBorrow(j, a, amount)
        PROVE  MarketStep(k)
    <2>1. amount \in (Amounts \cup LiquidationAmounts \cup 0 .. MaxTokens) \cup {OneMarket(j)!UIntMax}
      BY DEF UIntMax, OneMarket!UIntMax
    <2>2. OneMarket(j)!Step
      BY <1>5, <2>1, RepayBorrowIsRepayBorrow DEF OneMarket!Step
    <2>3. TrollerUnchanged /\ \E m : jToken' = With(j, m)
      BY <1>5 DEF RepayBorrow
    <2> QED
      BY <2>2, <2>3, QuietCallIsMarketSteps
  <1>6. ASSUME NEW jb \in JToken, NEW jc \in JToken, NEW liquidator \in Account,
               NEW borrower \in Account, NEW amount \in LiquidationAmounts,
               LiquidateBorrow(jb, jc, liquidator, borrower, amount)
        PROVE  MarketStep(k)
    BY <1>6, LiquidationIsMarketSteps DEF Bounded
  <1>7. ASSUME NEW j \in JToken, NEW a \in Account, EnterMarket(j, a)
        PROVE  MarketStep(k)
    <2>1. OneMarket(j)!Step
      BY <1>7, EnterMarketIsEnterMarket DEF OneMarket!Step
    <2>2. UNCHANGED now /\ \E m : jToken' = With(j, m)
      BY <1>7 DEF EnterMarket
    <2>3. accountMembership' = [accountMembership EXCEPT ![j] = accountMembership[j] \cup {a}]
      BY <1>7, AddToMarketMatches DEF EnterMarket, Inv, TrollerSound
    <2> QED
      BY <2>1, <2>2, <2>3, OneCallIsMarketSteps
  <1>8. ASSUME NEW j \in JToken, NEW a \in Account, ExitMarket(j, a)
        PROVE  MarketStep(k)
    <2>1. OneMarket(j)!Step
      BY <1>8, ExitMarketIsExitMarket DEF OneMarket!Step
    <2>2. UNCHANGED now /\ \E m : jToken' = With(j, m)
      BY <1>8 DEF ExitMarket
    <2>3. accountMembership' = [accountMembership EXCEPT ![j] = accountMembership[j] \ {a}]
      BY <1>8, RemoveFromMarketMatches DEF ExitMarket, Inv, TrollerSound
    <2> QED
      BY <2>1, <2>2, <2>3, OneCallIsMarketSteps
  <1>9. ASSUME NEW j \in JToken, NEW cap \in CollateralCaps, SetCollateralCap(j, cap)
        PROVE  MarketStep(k)
    <2>1. OneMarket(j)!Step
      BY <1>9, SetCollateralCapIsThat DEF OneMarket!Step
    <2> QED
      BY <1>9, <2>1, QuietCallIsMarketSteps DEF SetCollateralCap
  <1>10. ASSUME NEW j \in JToken, NEW mantissa \in SeizeShares, SetProtocolSeizeShare(j, mantissa)
         PROVE  MarketStep(k)
    <2>1. OneMarket(j)!Step
      BY <1>10, SetProtocolSeizeShareIsThat DEF OneMarket!Step
    <2>2. TrollerUnchanged /\ \E m : jToken' = With(j, m)
      BY <1>10 DEF SetProtocolSeizeShare
    <2> QED
      BY <2>1, <2>2, QuietCallIsMarketSteps
  <1>11. ASSUME NEW j \in JToken, Accrue(j)
         PROVE  MarketStep(k)
    <2>1. OneMarket(j)!Step
      BY <1>11, AccrueIsAccrue DEF OneMarket!Step
    <2>2. TrollerUnchanged /\ \E m : jToken' = With(j, m)
      BY <1>11 DEF Accrue
    <2> QED
      BY <2>1, <2>2, QuietCallIsMarketSteps
  <1>12. ASSUME UNCHANGED <<jToken, now, accountMembership>>
         PROVE  MarketStep(k)
    BY <1>12, MarketStands DEF MarketStep
  <1>13. ASSUME NEW j \in JToken, NEW p \in Prices, SetPrice(j, p)
         PROVE  MarketStep(k)
    BY <1>12, <1>13 DEF SetPrice
  <1>14. CASE JoetrollerAdmin
    BY <1>12, <1>14, AdminLeavesMarkets
  <1>15. CASE Tick
    BY <1>15, TickIsTick DEF MarketStep, OneMarket!Step
  <1> QED
    BY <1>1, <1>2, <1>3, <1>4, <1>5, <1>6, <1>7, <1>8, <1>9, <1>10, <1>11, <1>13, <1>14, <1>15,
       Zenon DEF Step

LEMMA SameBounds ==
    ASSUME NEW j
    PROVE  \A m : OneMarket(j)!WithinBounds(m) <=> WithinBounds(m)
BY DEF OneMarket!WithinBounds, WithinBounds

LEMMA NextIsMarketSteps ==
    ASSUME Inv, Bounded, [Next]_vars
    PROVE  \A k \in JToken : UNCHANGED OneMarket(k)!vars \/ OneMarket(k)!Next
PROOF
  <1> SUFFICES ASSUME NEW k \in JToken
               PROVE  UNCHANGED OneMarket(k)!vars \/ OneMarket(k)!Next
    OBVIOUS
  <1>1. CASE UNCHANGED vars
    BY <1>1, MarketStands DEF vars, trollerVars
  <1>2. CASE Next
    <2>1. MarketStep(k)
      BY <1>2, StepIsMarketSteps DEF Next
    <2>2. OneMarket(k)!WithinBounds(jToken'[k])
      BY <1>2, SameBounds DEF Next
    <2> QED
      BY <2>1, <2>2 DEF MarketStep, OneMarket!Next
  <1> QED
    BY <1>1, <1>2

LEMMA InitIsMarketInits ==
    ASSUME Init
    PROVE  (\A j \in JToken : OneMarket(j)!Init) /\ Bounded
PROOF
  <1>1. \A j \in JToken : jToken[j] = InitializedMarket(0) /\ accountMembership[j] = {}
    BY DEF Init
  <1>2. Bounded
    BY <1>1, JoeLendingAssumption DEF Bounded, WithinBounds, InitializedMarket
  <1> DEFINE none == [a \in Account |-> 0]
  <1>3. ASSUME NEW j \in JToken PROVE OneMarket(j)!Init
    <2>1. none \in [Account -> {0}] /\ OneMarket(j)!Total(none) = 0
      BY SameOperators, TotalOfNothing
    <2>2. OneMarket(j)!LegacyCash(0) = 0
      <3>1. initialExchangeRateMantissa * 0 + (expScale - 1) = expScale - 1
        BY MarketAssumption, ExpScaleAssumption
      <3>2. (expScale - 1) \div expScale = 0
        BY ExpScaleAssumption
      <3> QED
        BY <3>1, <3>2 DEF OneMarket!LegacyCash
    <2>3. OneMarket(j)!InitializedMarket(0) = InitializedMarket(0)
      BY DEF OneMarket!InitializedMarket, OneMarket!mantissaOne, InitializedMarket, mantissaOne
    <2>4. OneMarket(j)!UpgradedMarket(none) = InitializedMarket(0)
      <3> DEFINE empty == InitializedMarket(0)
      <3>1. OneMarket(j)!UpgradedMarket(none) =
              [empty EXCEPT !.accountTokens = none, !.totalSupply = 0,
                            !.internalCash = 0, !.cashOnChain = 0]
        BY <2>1, <2>2, <2>3, Zenon DEF OneMarket!UpgradedMarket
      <3>2. /\ empty.accountTokens = none /\ empty.totalSupply = 0
            /\ empty.internalCash = 0 /\ empty.cashOnChain = 0
        BY DEF InitializedMarket
      <3>3. empty \in MarketType
        BY EmptyMarketType
      <3> HIDE DEF empty
      <3> HIDE DEF none
      <3>4. /\ [empty EXCEPT !.accountTokens = none] = empty
            /\ [empty EXCEPT !.totalSupply = 0] = empty
            /\ [empty EXCEPT !.internalCash = 0] = empty
            /\ [empty EXCEPT !.cashOnChain = 0] = empty
        BY <3>2, <3>3 DEF MarketType
      <3>5. OneMarket(j)!UpgradedMarket(none) = empty
        BY <3>1, <3>4
      <3> QED
        BY <3>5 DEF empty, none
    <2>5. InitializedMarket(0).cashOnChain <= UnderlyingSupply
      BY MarketAssumption DEF InitializedMarket
    <2>6. now = 0
      BY DEF Init
    <2>7. NoLoan = OneMarket(j)!NoLoan
      BY <2>3 DEF NoLoan, OneMarket!NoLoan
    <2> HIDE DEF none
    <2> QED
      BY <1>1, <2>1, <2>4, <2>5, <2>6, <2>7 DEF OneMarket!Init
  <1> QED
    BY <1>2, <1>3

LEMMA BoundsAreKept ==
    Bounded /\ [Next]_vars => Bounded'
BY DEF Bounded, Next, vars, WithinBounds

(* Under the Joetroller every market is a market of Market: whatever the   *)
(* Joetroller decides and however a liquidation spans two markets, each of *)
(* them makes a step that Market allows, or none.                          *)
THEOREM MarketsImplementMarket ==
    Spec => EachMarketIsAMarket
PROOF
  <1>1. Init => (\A j \in JToken : OneMarket(j)!Init) /\ Bounded
    BY InitIsMarketInits
  <1>2. Bounded /\ [Next]_vars => Bounded'
    BY BoundsAreKept
  <1>3. Inv /\ Bounded /\ [Next]_vars
          => [ \A j \in JToken : UNCHANGED OneMarket(j)!vars \/ OneMarket(j)!Next ]_vars
    BY NextIsMarketSteps
  <1> QED
    BY <1>1, <1>2, <1>3, InvIsInvariant, PTL DEF Spec, EachMarketIsAMarket

--------------------------------------------------------------------------------
(***************************************************************************)
(* What the guardians and the admin switched off stays off, whatever       *)
(* function is called, with whatever inputs and in whatever market.        *)
(*                                                                         *)
(* A transaction is followed through the markets it touches.  Accruing,    *)
(* initialising an account and entering or leaving a market move neither   *)
(* tokens nor debts (AtRest); what a function does after that is compared  *)
(* with the guards that let it.                                            *)
(***************************************************************************)
TokensAtRest(m, n) == n.accountTokens = m.accountTokens /\ n.totalSupply = m.totalSupply

AtRest(m, n) == TokensAtRest(m, n) /\ n.accountBorrows = m.accountBorrows

(* No debt of n is above what it was in m, which has the same interest. *)
DebtsShrink(m, n) ==
    /\ n.borrowIndex = m.borrowIndex
    /\ \A a \in Account : BorrowBalanceStored(n, a) <= BorrowBalanceStored(m, a)

(* The guards of one market, as PausedMeansStopped and                     *)
(* CreditAccountsHoldNoCollateral state them of all.                       *)
MintGuarded(j) ==
    j \in config.mintGuardianPaused => jToken'[j].totalSupply <= jToken[j].totalSupply

BorrowGuarded(j) ==
    j \in config.borrowGuardianPaused =>
        \A a \in Account :
            BorrowBalanceStored(jToken'[j], a) <= Owed(j, a, jToken'[j].borrowIndex)

MoveGuarded(j) ==
    config.transferGuardianPaused /\ config.seizeGuardianPaused =>
        \A a \in Account :
            jToken'[j].accountTokens[a] > jToken[j].accountTokens[a]
            => jToken'[j].totalSupply > jToken[j].totalSupply

CreditGuarded(j) ==
    \A a \in Account :
        /\ IsCreditAccount(a)
        /\ jToken'[j].accountTokens[a] > jToken[j].accountTokens[a]
        => \E b \in Account \ {a}, jb \in JToken : Liquidated(b, jb, j)

Guarded(j) == MintGuarded(j) /\ BorrowGuarded(j) /\ MoveGuarded(j) /\ CreditGuarded(j)

--------------------------------------------------------------------------------
(***************************************************************************)
(* Operators that move nothing, and debts.                                 *)
(***************************************************************************)
LEMMA TokenTypes ==
    ASSUME NEW m \in MarketType, NEW a \in Account
    PROVE  m.accountTokens[a] \in Nat /\ m.totalSupply \in Nat
BY DEF MarketType

LEMMA AccrualIsAtRest ==
    ASSUME Inv, NEW j \in JToken, NEW m \in Accruals(jToken[j], now)
    PROVE  AtRest(jToken[j], m)
PROOF
  <1>1. PICK rate \in BorrowRates : m = AccrueInterest(jToken[j], now, rate)
    BY DEF Accruals
  <1>2. jToken[j] \in MarketType
    BY DEF Inv, Storages
  <1> QED
    BY <1>1, <1>2 DEF AccrueInterest, MarketType, AtRest, TokensAtRest

LEMMA InitializedIsAtRest ==
    ASSUME NEW m \in MarketType, NEW j, NEW a
    PROVE  AtRest(m, Initialized(m, j, a)) /\ Initialized(m, j, a).borrowIndex = m.borrowIndex
BY DEF Initialized, InitializeAccountCollateralTokens, AtRest, TokensAtRest, MarketType

LEMMA RegisteredIsAtRest ==
    ASSUME NEW m \in MarketType, NEW a \in Account, NEW isMember \in BOOLEAN
    PROVE  /\ AtRest(m, RegisterCollateral(m, a, isMember))
           /\ AtRest(m, UnregisterCollateral(m, a, isMember))
BY DEF RegisterCollateral, UnregisterCollateral, IncreaseUserCollateral, DecreaseUserCollateral,
       InitializeAccountCollateralTokens, AtRest, TokensAtRest, MarketType

(* A debt depends on its snapshot and the index alone. *)
LEMMA SameSnapshotSameDebt ==
    ASSUME NEW j \in JToken, jToken[j] \in MarketType, NEW m,
           m.accountBorrows = jToken[j].accountBorrows, NEW a \in Account
    PROVE  Owed(j, a, m.borrowIndex) = BorrowBalanceStored(m, a)
PROOF
  <1> DEFINE n == [jToken[j] EXCEPT !.borrowIndex = m.borrowIndex]
  <1>1. n.borrowIndex = m.borrowIndex /\ n.accountBorrows = m.accountBorrows
    BY DEF MarketType
  <1> HIDE DEF n
  <1>2. BorrowBalanceStored(n, a) = BorrowBalanceStored(m, a)
    BY <1>1 DEF BorrowBalanceStored
  <1> QED
    BY <1>2 DEF Owed, n

(* A new snapshot is a debt of just its principal. *)
LEMMA DebtOfSnapshot ==
    ASSUME NEW m, NEW mem, NEW t, Sound(m, mem, t), NEW a \in Account, NEW principal \in Nat
    PROVE  LET n == SetAccountBorrows(m, a, principal)
           IN  /\ n.borrowIndex = m.borrowIndex
               /\ BorrowBalanceStored(n, a) = principal
               /\ \A b \in Account \ {a} : BorrowBalanceStored(n, b) = BorrowBalanceStored(m, b)
PROOF
  <1> DEFINE index == m.borrowIndex
             n == SetAccountBorrows(m, a, principal)
  <1>1. m \in MarketType /\ index \in Nat \ {0}
    BY ExpScaleAssumption DEF Sound, IndexesInOrder, MarketType, mantissaOne
  <1>2. /\ n.borrowIndex = index
        /\ n.accountBorrows[a].principal = principal /\ n.accountBorrows[a].interestIndex = index
        /\ \A b \in Account \ {a} : n.accountBorrows[b] = m.accountBorrows[b]
    BY <1>1 DEF SetAccountBorrows, MarketType
  <1> HIDE DEF n
  <1>3. BorrowBalanceStored(n, a) = IF principal = 0 THEN 0 ELSE (principal * index) \div index
    BY <1>2 DEF BorrowBalanceStored
  <1> HIDE DEF index
  <1>4. (principal * index) \div index = principal
    BY <1>1, ScaledPrincipal
  <1>5. \A b \in Account \ {a} : BorrowBalanceStored(n, b) = BorrowBalanceStored(m, b)
    BY <1>2 DEF BorrowBalanceStored, index
  <1> QED
    BY <1>2, <1>3, <1>4, <1>5 DEF n, index

LEMMA RefreshedDebts ==
    ASSUME NEW m, NEW mem, NEW t, Sound(m, mem, t), NEW a \in Account
    PROVE  /\ TokensAtRest(m, RefreshAccountBorrows(m, a))
           /\ DebtsShrink(m, RefreshAccountBorrows(m, a))
PROOF
  <1> DEFINE debt == BorrowBalanceStored(m, a)
             n == SetAccountBorrows(m, a, debt)
  <1>1. \A b \in Account : BorrowBalanceStored(m, b) \in Nat
    BY BorrowBalanceType
  <1>2. debt \in Nat
    BY <1>1
  <1> HIDE DEF debt
  <1>3. /\ n.borrowIndex = m.borrowIndex /\ BorrowBalanceStored(n, a) = debt
        /\ \A b \in Account \ {a} : BorrowBalanceStored(n, b) = BorrowBalanceStored(m, b)
    BY <1>2, DebtOfSnapshot
  <1>4. TokensAtRest(m, n)
    BY DEF Sound, SetAccountBorrows, MarketType, TokensAtRest
  <1> HIDE DEF n
  <1>5. DebtsShrink(m, n)
    BY <1>1, <1>3 DEF DebtsShrink, debt
  <1> QED
    BY <1>4, <1>5 DEF RefreshAccountBorrows, n, debt

LEMMA RepaidDebts ==
    ASSUME NEW m, NEW mem, NEW t, Sound(m, mem, t), NEW a \in Account, NEW amount \in Nat,
           ~RepayBorrowFreshReverts(m, a, amount)
    PROVE  LET n == RepayBorrowFresh(m, a, amount)
           IN  /\ TokensAtRest(m, n)
               /\ DebtsShrink(m, n)
               /\ BorrowBalanceStored(n, a) = BorrowBalanceStored(m, a) - amount
PROOF
  <1> DEFINE debt == BorrowBalanceStored(m, a)
             m1 == SetAccountBorrows(m, a, debt - amount)
             n == RepayBorrowFresh(m, a, amount)
  <1>1. \A b \in Account : BorrowBalanceStored(m, b) \in Nat
    BY BorrowBalanceType
  <1>2. debt \in Nat /\ debt - amount \in Nat
    BY <1>1 DEF RepayBorrowFreshReverts
  <1>3. /\ n.accountBorrows = m1.accountBorrows /\ n.borrowIndex = m1.borrowIndex
        /\ TokensAtRest(m, n)
    BY DEF RepayBorrowFresh, SetAccountBorrows, DoTransferIn, Sound, MarketType, TokensAtRest
  <1> HIDE DEF debt
  <1>4. /\ m1.borrowIndex = m.borrowIndex /\ BorrowBalanceStored(m1, a) = debt - amount
        /\ \A b \in Account \ {a} : BorrowBalanceStored(m1, b) = BorrowBalanceStored(m, b)
    BY <1>2, DebtOfSnapshot
  <1> HIDE DEF m1, n
  <1>5. \A b \in Account : BorrowBalanceStored(n, b) = BorrowBalanceStored(m1, b)
    BY <1>3 DEF BorrowBalanceStored
  <1>6. DebtsShrink(m, n)
    BY <1>1, <1>2, <1>3, <1>4, <1>5 DEF DebtsShrink, debt
  <1> QED
    BY <1>3, <1>4, <1>5, <1>6 DEF n, debt

--------------------------------------------------------------------------------
(***************************************************************************)
(* From one market to the guards of all.                                   *)
(***************************************************************************)

(* A market whose tokens are at rest, and whose debts did not grow since   *)
(* it accrued its interest, is guarded whatever is paused.                 *)
LEMMA QuietIsGuarded ==
    ASSUME Inv, NEW j \in JToken, NEW m \in MarketType, AtRest(jToken[j], m),
           TokensAtRest(m, jToken'[j]), DebtsShrink(m, jToken'[j])
    PROVE  Guarded(j)
PROOF
  <1>1. jToken[j] \in MarketType
    BY DEF Inv, Storages
  <1>2. /\ jToken'[j].accountTokens = jToken[j].accountTokens
        /\ jToken'[j].totalSupply = jToken[j].totalSupply
    BY DEF AtRest, TokensAtRest
  <1>3. \A a \in Account : Owed(j, a, jToken'[j].borrowIndex) = BorrowBalanceStored(m, a)
    BY <1>1, SameSnapshotSameDebt DEF AtRest, DebtsShrink
  <1>4. BorrowGuarded(j)
    BY <1>3 DEF BorrowGuarded, DebtsShrink
  <1>5. \A a \in Account : ~(jToken'[j].accountTokens[a] > jToken[j].accountTokens[a])
    BY <1>1, <1>2, TokenTypes
  <1>6. MintGuarded(j) /\ MoveGuarded(j) /\ CreditGuarded(j)
    BY <1>1, <1>2, <1>5, TokenTypes DEF MintGuarded, MoveGuarded, CreditGuarded, MarketType
  <1> QED
    BY <1>4, <1>6 DEF Guarded

LEMMA RestIsGuarded ==
    ASSUME Inv, NEW j \in JToken, AtRest(jToken[j], jToken'[j]),
           Sound(jToken'[j], accountMembership'[j], now')
    PROVE  Guarded(j)
PROOF
  <1> DEFINE m == jToken'[j]
  <1>1. m \in MarketType /\ TokensAtRest(m, m)
    BY DEF Sound, TokensAtRest
  <1>2. \A a \in Account : BorrowBalanceStored(m, a) \in Nat
    BY BorrowBalanceType
  <1>3. DebtsShrink(m, m)
    BY <1>2 DEF DebtsShrink
  <1> QED
    BY <1>1, <1>3, QuietIsGuarded

LEMMA UntouchedIsGuarded ==
    ASSUME Inv, Inv', NEW j \in JToken, jToken'[j] = jToken[j]
    PROVE  Guarded(j)
PROOF
  <1>1. AtRest(jToken[j], jToken'[j])
    BY DEF AtRest, TokensAtRest
  <1>2. Sound(jToken'[j], accountMembership'[j], now')
    BY DEF Inv, Storages
  <1> QED
    BY <1>1, <1>2, RestIsGuarded

LEMMA CallIsGuarded ==
    ASSUME Inv, Inv', NEW j \in JToken, NEW m, jToken' = With(j, m), Guarded(j), NEW k \in JToken
    PROVE  Guarded(k)
PROOF
  <1>1. k # j => jToken'[k] = jToken[k]
    BY MarketAfter
  <1> QED
    BY <1>1, UntouchedIsGuarded

LEMMA DebtsAreGuarded ==
    ASSUME Inv, NEW j \in JToken, NEW m, Sound(m, accountMembership[j], now),
           AtRest(jToken[j], m), jToken'[j].accountBorrows = m.accountBorrows,
           jToken'[j].borrowIndex = m.borrowIndex
    PROVE  BorrowGuarded(j)
PROOF
  <1>1. jToken[j] \in MarketType
    BY DEF Inv, Storages
  <1>2. \A a \in Account : BorrowBalanceStored(m, a) \in Nat
    BY BorrowBalanceType
  <1>3. \A a \in Account : BorrowBalanceStored(jToken'[j], a) = BorrowBalanceStored(m, a)
    BY DEF BorrowBalanceStored
  <1>4. \A a \in Account : Owed(j, a, jToken'[j].borrowIndex) = BorrowBalanceStored(m, a)
    BY <1>1, SameSnapshotSameDebt DEF AtRest
  <1> QED
    BY <1>2, <1>3, <1>4 DEF BorrowGuarded

(* The storage a function finds after accrual and initialisation. *)
LEMMA PreparedIsAtRest ==
    ASSUME Inv, NEW j \in JToken, NEW m0 \in Accruals(jToken[j], now), NEW a \in Account
    PROVE  /\ AtRest(jToken[j], m0) /\ Sound(m0, accountMembership[j], now)
           /\ AtRest(jToken[j], Initialized(m0, j, a))
           /\ Sound(Initialized(m0, j, a), accountMembership[j], now)
PROOF
  <1>1. AtRest(jToken[j], m0) /\ Sound(m0, accountMembership[j], now)
    BY AccrualIsAtRest, AccruedIsSound
  <1>2. m0 \in MarketType
    BY <1>1 DEF Sound
  <1>3. AtRest(m0, Initialized(m0, j, a))
    BY <1>2, InitializedIsAtRest
  <1> QED
    BY <1>1, <1>3, InitializedIsSound DEF AtRest, TokensAtRest

--------------------------------------------------------------------------------
(***************************************************************************)
(* Suppliers.                                                              *)
(***************************************************************************)
LEMMA MintedTokens ==
    ASSUME NEW m \in MarketType, ~MintFreshReverts(m), NEW a \in Account, NEW amount \in Nat,
           NEW isMember \in BOOLEAN
    PROVE  LET n == MintFresh(m, a, amount, isMember)
           IN  /\ MintTokens(m, amount) \in Nat
               /\ n.accountTokens = [m.accountTokens EXCEPT ![a] = @ + MintTokens(m, amount)]
               /\ n.totalSupply = m.totalSupply + MintTokens(m, amount)
               /\ n.accountBorrows = m.accountBorrows /\ n.borrowIndex = m.borrowIndex
PROOF
  <1> DEFINE tokens == MintTokens(m, amount)
  <1>1. ExchangeRateStored(m) \in Nat \ {0}
    BY ExchangeRateType DEF MintFreshReverts
  <1>2. tokens \in Nat
    BY <1>1, DivScalarByExpTruncateType DEF MintTokens
  <1> HIDE DEF tokens
  <1>3. LET n == MintFresh(m, a, amount, isMember)
        IN  /\ n.accountTokens = [m.accountTokens EXCEPT ![a] = @ + tokens]
            /\ n.totalSupply = m.totalSupply + tokens
            /\ n.accountBorrows = m.accountBorrows /\ n.borrowIndex = m.borrowIndex
    BY SMTT(30) DEF MintFresh, DoTransferIn, IncreaseUserCollateral, MarketType, tokens
  <1> QED
    BY <1>2, <1>3 DEF tokens

LEMMA MintIsGuarded ==
    ASSUME Inv, Inv', NEW j \in JToken, NEW a \in Account, NEW amount \in Amounts,
           Mint(j, a, amount)
    PROVE  \A k \in JToken : Guarded(k)
PROOF
  <1>1. PICK m0 \in Accruals(jToken[j], now) :
          LET m == Initialized(m0, j, a)
          IN  /\ ~MintReverts(With(j, m), j, a, amount)
              /\ \/ jToken' = With(j, m)
                 \/ /\ ~MintFreshReverts(m)
                    /\ \E actual \in Received(m, amount) :
                         jToken' = With(j, MintFresh(m, a, actual, a \in accountMembership[j]))
    BY DEF Mint
  <1> DEFINE m == Initialized(m0, j, a)
             isMember == a \in accountMembership[j]
  <1>2. AtRest(jToken[j], m) /\ Sound(m, accountMembership[j], now)
    BY PreparedIsAtRest
  <1>3. j \notin config.mintGuardianPaused /\ ~IsCreditAccount(a)
    BY <1>1 DEF MintReverts
  <1>4. isMember \in BOOLEAN /\ m \in MarketType /\ amount \in Nat
    BY <1>2, JoeLendingAssumption DEF Sound
  <1>5. /\ jToken' = With(j, jToken'[j])
        /\ \/ jToken'[j] = m
           \/ /\ ~MintFreshReverts(m)
              /\ \E actual \in Received(m, amount) : jToken'[j] = MintFresh(m, a, actual, isMember)
    BY <1>1, MarketAfter
  <1> HIDE DEF m, isMember
  <1>6. ASSUME jToken'[j] = m PROVE Guarded(j)
    BY <1>2, <1>6, RestIsGuarded DEF Inv, Storages
  <1>7. ASSUME NEW actual \in Received(m, amount), ~MintFreshReverts(m),
               jToken'[j] = MintFresh(m, a, actual, isMember)
        PROVE  Guarded(j)
    <2> DEFINE n == jToken'[j]
               tokens == MintTokens(m, actual)
    <2>1. actual \in Nat
      BY <1>4, ReceivedType
    <2>2. /\ tokens \in Nat
          /\ n.accountTokens = [m.accountTokens EXCEPT ![a] = @ + tokens]
          /\ n.totalSupply = m.totalSupply + tokens
          /\ n.accountBorrows = m.accountBorrows /\ n.borrowIndex = m.borrowIndex
      BY <1>4, <1>7, <2>1, MintedTokens
    <2> HIDE DEF tokens
    <2>3. BorrowGuarded(j)
      BY <1>2, <2>2, DebtsAreGuarded
    <2>4. /\ m.accountTokens = jToken[j].accountTokens /\ m.totalSupply = jToken[j].totalSupply
          /\ m.accountTokens \in [Account -> Nat] /\ m.totalSupply \in Nat
      BY <1>2, <1>4 DEF AtRest, TokensAtRest, MarketType
    <2>5. ASSUME NEW b \in Account, n.accountTokens[b] > jToken[j].accountTokens[b]
          PROVE  b = a /\ n.totalSupply > jToken[j].totalSupply
      BY <2>2, <2>4, <2>5
    <2> QED
      BY <1>3, <2>3, <2>5 DEF Guarded, MintGuarded, MoveGuarded, CreditGuarded
  <1>8. Guarded(j)
    BY <1>5, <1>6, <1>7
  <1> QED
    BY <1>5, <1>8, CallIsGuarded

LEMMA RedeemedTokens ==
    ASSUME NEW m \in MarketType, NEW a \in Account, NEW tokens \in Nat, NEW amount \in Nat
    PROVE  LET n == RedeemFresh(m, a, tokens, amount)
           IN  /\ n.accountTokens = [m.accountTokens EXCEPT ![a] = @ - tokens]
               /\ n.totalSupply = m.totalSupply - tokens
               /\ n.accountBorrows = m.accountBorrows /\ n.borrowIndex = m.borrowIndex
BY DEF RedeemFresh, RedeemPaidOut, DoTransferOut, DecreaseUserCollateral, MarketType

LEMMA RedeemIsGuarded ==
    ASSUME Inv, Inv', NEW j \in JToken, NEW a \in Account, NEW tokensIn \in Nat,
           NEW amountIn \in Nat, Redeem(j, a, tokensIn, amountIn)
    PROVE  \A k \in JToken : Guarded(k)
PROOF
  <1>1. PICK m0 \in Accruals(jToken[j], now) :
          LET m      == Initialized(m0, j, a)
              tokens == RedeemTokens(m, tokensIn, amountIn)
              amount == RedeemAmount(m, tokensIn, amountIn)
          IN  /\ ~RedeemTokensReverts(m, tokensIn)
              /\ \/ jToken' = With(j, m)
                 \/ jToken' = With(j, RedeemFresh(m, a, tokens, amount))
    BY DEF Redeem
  <1> DEFINE m      == Initialized(m0, j, a)
             tokens == RedeemTokens(m, tokensIn, amountIn)
             amount == RedeemAmount(m, tokensIn, amountIn)
  <1>2. AtRest(jToken[j], m) /\ Sound(m, accountMembership[j], now)
    BY PreparedIsAtRest
  <1>3. /\ ~RedeemTokensReverts(m, tokensIn)
        /\ jToken' = With(j, jToken'[j])
        /\ jToken'[j] = m \/ jToken'[j] = RedeemFresh(m, a, tokens, amount)
    BY <1>1, MarketAfter
  <1> HIDE DEF m
  <1>4. tokens \in Nat /\ amount \in Nat /\ m \in MarketType
    BY <1>2, <1>3, RedeemTypes DEF Sound
  <1> HIDE DEF tokens, amount
  <1>5. ASSUME jToken'[j] = m PROVE Guarded(j)
    BY <1>2, <1>5, RestIsGuarded DEF Inv, Storages
  <1>6. ASSUME jToken'[j] = RedeemFresh(m, a, tokens, amount) PROVE Guarded(j)
    <2> DEFINE n == jToken'[j]
    <2>1. /\ n.accountTokens = [m.accountTokens EXCEPT ![a] = @ - tokens]
          /\ n.totalSupply = m.totalSupply - tokens
          /\ n.accountBorrows = m.accountBorrows /\ n.borrowIndex = m.borrowIndex
      BY <1>4, <1>6, RedeemedTokens
    <2>2. BorrowGuarded(j)
      BY <1>2, <2>1, DebtsAreGuarded
    <2>3. /\ m.accountTokens = jToken[j].accountTokens /\ m.totalSupply = jToken[j].totalSupply
          /\ m.accountTokens \in [Account -> Nat] /\ m.totalSupply \in Nat
      BY <1>2, <1>4 DEF AtRest, TokensAtRest, MarketType
    <2>4. /\ n.totalSupply <= jToken[j].totalSupply
          /\ \A b \in Account : ~(n.accountTokens[b] > jToken[j].accountTokens[b])
      BY <1>4, <2>1, <2>3
    <2> QED
      BY <2>2, <2>4 DEF Guarded, MintGuarded, MoveGuarded, CreditGuarded
  <1>7. Guarded(j)
    BY <1>3, <1>5, <1>6
  <1> QED
    BY <1>3, <1>7, CallIsGuarded

LEMMA TransferIsGuarded ==
    ASSUME Inv, Inv', NEW j \in JToken, NEW src \in Account, NEW dst \in Account,
           NEW tokens \in Amounts, Transfer(j, src, dst, tokens)
    PROVE  \A k \in JToken : Guarded(k)
PROOF
  <1> DEFINE m1 == Initialized(jToken[j], j, src)
             m  == Initialized(m1, j, dst)
  <1>1. /\ ~TransferReverts(With(j, m), j, src, dst)
        /\ \/ jToken' = With(j, m)
           \/ /\ src # dst
              /\ ~TransferTokensReverts(m, src, src, tokens)
              /\ jToken' = With(j, TransferTokens(m, src, src, dst, tokens))
    BY DEF Transfer
  <1>2. /\ ~config.transferGuardianPaused /\ ~IsCreditAccount(dst)
        /\ jToken' = With(j, jToken'[j])
        /\ \/ jToken'[j] = m
           \/ /\ src # dst
              /\ ~TransferTokensReverts(m, src, src, tokens)
              /\ jToken'[j] = TransferTokens(m, src, src, dst, tokens)
    BY <1>1, MarketAfter DEF TransferReverts
  <1>3. Sound(m1, accountMembership[j], now) /\ Sound(m, accountMembership[j], now)
    BY InitializedIsSound DEF Inv, Storages
  <1>4. AtRest(jToken[j], m1) /\ AtRest(m1, m)
    BY <1>3, InitializedIsAtRest DEF Sound, Inv, Storages
  <1>5. AtRest(jToken[j], m)
    BY <1>4 DEF AtRest, TokensAtRest
  <1>6. tokens \in Nat /\ m \in MarketType
    BY <1>3, JoeLendingAssumption DEF Sound
  <1> HIDE DEF m
  <1>7. ASSUME jToken'[j] = m PROVE Guarded(j)
    BY <1>5, <1>7, RestIsGuarded DEF Inv, Storages
  <1>8. ASSUME src # dst, ~TransferTokensReverts(m, src, src, tokens),
               jToken'[j] = TransferTokens(m, src, src, dst, tokens)
        PROVE  Guarded(j)
    <2> DEFINE n == jToken'[j]
    <2>1. /\ n.accountTokens = Moved(m.accountTokens, src, tokens, dst, tokens)
          /\ n.totalSupply = m.totalSupply
          /\ n.accountBorrows = m.accountBorrows /\ n.borrowIndex = m.borrowIndex
      BY <1>6, <1>8 DEF TransferTokens, MarketType
    <2>2. BorrowGuarded(j)
      BY <1>3, <1>5, <2>1, DebtsAreGuarded
    <2>3. /\ m.accountTokens = jToken[j].accountTokens /\ m.totalSupply = jToken[j].totalSupply
          /\ m.accountTokens \in Balances /\ m.totalSupply \in Nat
      BY <1>5, <1>6 DEF AtRest, TokensAtRest, MarketType, Balances
    <2>4. tokens <= m.accountTokens[src]
      BY <1>6, <1>8, <2>3 DEF TransferTokensReverts, Balances
    <2>5. /\ n.accountTokens[src] = m.accountTokens[src] - tokens
          /\ \A c \in Account \ {src, dst} : n.accountTokens[c] = m.accountTokens[c]
      BY <1>6, <1>8, <2>1, <2>3, <2>4, MovedBalances
    <2>6. ASSUME NEW b \in Account, n.accountTokens[b] > jToken[j].accountTokens[b]
          PROVE  b = dst
      <3>1. \A c \in Account : m.accountTokens[c] \in Nat
        BY <2>3 DEF Balances
      <3> QED
        BY <1>6, <2>3, <2>5, <2>6, <3>1
    <2> QED
      BY <1>2, <2>1, <2>2, <2>3, <2>6 DEF Guarded, MintGuarded, MoveGuarded, CreditGuarded
  <1>9. Guarded(j)
    BY <1>2, <1>7, <1>8
  <1> QED
    BY <1>2, <1>9, CallIsGuarded

LEMMA MembershipIsGuarded ==
    ASSUME Inv, Inv', NEW j \in JToken, NEW a \in Account, EnterMarket(j, a) \/ ExitMarket(j, a)
    PROVE  \A k \in JToken : Guarded(k)
PROOF
  <1> DEFINE isMember == a \in accountMembership[j]
  <1>1. isMember \in BOOLEAN /\ jToken[j] \in MarketType
    BY DEF Inv, Storages
  <1>2. \/ jToken' = With(j, RegisterCollateral(jToken[j], a, isMember))
        \/ jToken' = With(j, UnregisterCollateral(jToken[j], a, isMember))
    BY DEF EnterMarket, ExitMarket
  <1> HIDE DEF isMember
  <1>3. jToken' = With(j, jToken'[j]) /\ AtRest(jToken[j], jToken'[j])
    BY <1>1, <1>2, MarketAfter, RegisteredIsAtRest
  <1>4. Guarded(j)
    BY <1>3, RestIsGuarded DEF Inv, Storages
  <1> QED
    BY <1>3, <1>4, CallIsGuarded

--------------------------------------------------------------------------------
(***************************************************************************)
(* Borrowers.                                                              *)
(***************************************************************************)
LEMMA BorrowingKeepsTokens ==
    ASSUME NEW m \in MarketType, NEW a \in Account, NEW amount
    PROVE  TokensAtRest(m, RefreshAccountBorrows(m, a)) /\ TokensAtRest(m, BorrowFresh(m, a, amount))
BY DEF RefreshAccountBorrows, BorrowFresh, SetAccountBorrows, DoTransferOut, MarketType, TokensAtRest

LEMMA BorrowIsGuarded ==
    ASSUME Inv, Inv', NEW j \in JToken, NEW a \in Account, NEW amount \in Amounts,
           Borrow(j, a, amount)
    PROVE  \A k \in JToken : Guarded(k)
PROOF
  <1>1. PICK m0 \in Accruals(jToken[j], now) :
          LET m == IF a \in accountMembership[j] THEN m0 ELSE RegisterCollateral(m0, a, FALSE)
          IN  \/ jToken' = With(j, m)
              \/ jToken' = With(j, RefreshAccountBorrows(m, a))
              \/ jToken' = With(j, BorrowFresh(m, a, amount))
    BY DEF Borrow
  <1> DEFINE m == IF a \in accountMembership[j] THEN m0 ELSE RegisterCollateral(m0, a, FALSE)
             n == jToken'[j]
  <1>2. /\ j \notin config.borrowGuardianPaused
        /\ jToken' = With(j, n)
        /\ n = m \/ n = RefreshAccountBorrows(m, a) \/ n = BorrowFresh(m, a, amount)
    <2>1. \/ jToken' = With(j, m)
          \/ jToken' = With(j, RefreshAccountBorrows(m, a))
          \/ jToken' = With(j, BorrowFresh(m, a, amount))
      BY <1>1
    <2>2. \A x : With(j, x)[j] = x
      BY MarketAfter
    <2> HIDE DEF m
    <2> QED
      BY <2>1, <2>2 DEF Borrow
  <1>3. AtRest(jToken[j], m0) /\ m0 \in MarketType /\ jToken[j] \in MarketType
    BY PreparedIsAtRest DEF Sound, Inv, Storages
  <1>4. TokensAtRest(m0, m)
    BY <1>3, RegisteredIsAtRest DEF AtRest, TokensAtRest
  <1>5. m \in MarketType
    <2>1. Sound(m0, accountMembership[j], now)
      BY PreparedIsAtRest
    <2>2. RegisterCollateral(m0, a, FALSE) \in MarketType
      BY <2>1, RegisterIsSound DEF Sound
    <2> QED
      BY <1>3, <2>2
  <1> HIDE DEF m
  <1>6. TokensAtRest(m, n)
    BY <1>2, <1>5, BorrowingKeepsTokens DEF TokensAtRest
  <1>7. n.accountTokens = jToken[j].accountTokens /\ n.totalSupply = jToken[j].totalSupply
    BY <1>3, <1>4, <1>6 DEF AtRest, TokensAtRest
  <1>8. \A b \in Account : ~(n.accountTokens[b] > jToken[j].accountTokens[b])
    BY <1>3, <1>7, TokenTypes
  <1>9. n.totalSupply <= jToken[j].totalSupply
    <2>1. jToken[j].totalSupply \in Nat
      BY <1>3 DEF MarketType
    <2> QED
      BY <1>7, <2>1
  <1>10. Guarded(j)
    BY <1>2, <1>8, <1>9 DEF Guarded, MintGuarded, BorrowGuarded, MoveGuarded, CreditGuarded
  <1> QED
    BY <1>2, <1>10, CallIsGuarded

LEMMA RepayBorrowIsGuarded ==
    ASSUME Inv, Inv', NEW j \in JToken, NEW a \in Account, NEW amount \in Amounts \cup {UIntMax},
           RepayBorrow(j, a, amount)
    PROVE  \A k \in JToken : Guarded(k)
PROOF
  <1>1. PICK m \in Accruals(jToken[j], now) :
          \/ jToken' = With(j, m)
          \/ jToken' = With(j, RefreshAccountBorrows(m, a))
          \/ \E actual \in Received(m, RepayAmount(m, a, amount)) :
               /\ ~RepayBorrowFreshReverts(m, a, actual)
               /\ jToken' = With(j, RepayBorrowFresh(m, a, actual))
    BY DEF RepayBorrow
  <1>2. AtRest(jToken[j], m) /\ Sound(m, accountMembership[j], now) /\ m \in MarketType
    BY PreparedIsAtRest DEF Sound
  <1>3. /\ jToken' = With(j, jToken'[j])
        /\ \/ jToken'[j] = m
           \/ jToken'[j] = RefreshAccountBorrows(m, a)
           \/ \E actual \in Received(m, RepayAmount(m, a, amount)) :
                /\ ~RepayBorrowFreshReverts(m, a, actual)
                /\ jToken'[j] = RepayBorrowFresh(m, a, actual)
    BY <1>1, MarketAfter
  <1>4. ASSUME jToken'[j] = m PROVE Guarded(j)
    BY <1>2, <1>4, RestIsGuarded DEF Inv, Storages
  <1>5. ASSUME jToken'[j] = RefreshAccountBorrows(m, a) PROVE Guarded(j)
    BY <1>2, <1>5, RefreshedDebts, QuietIsGuarded
  <1>6. ASSUME NEW actual \in Received(m, RepayAmount(m, a, amount)),
               ~RepayBorrowFreshReverts(m, a, actual),
               jToken'[j] = RepayBorrowFresh(m, a, actual)
        PROVE  Guarded(j)
    <2>1. RepayAmount(m, a, amount) \in Nat
      BY <1>2, JoeLendingAssumption, RepayAmountType
    <2>2. actual \in Nat
      BY <1>2, <2>1, ReceivedType
    <2> QED
      BY <1>2, <1>6, <2>2, RepaidDebts, QuietIsGuarded
  <1>7. Guarded(j)
    BY <1>3, <1>4, <1>5, <1>6
  <1> QED
    BY <1>3, <1>7, CallIsGuarded

--------------------------------------------------------------------------------
(***************************************************************************)
(* Liquidations.  The market of the debt sees a repayment; the market of   *)
(* the collateral, which may be the same, sees a seizure after it.         *)
(***************************************************************************)
LEMMA SeizedTokens ==
    ASSUME NEW m \in MarketType, NEW liquidator \in Account, NEW borrower \in Account,
           liquidator # borrower, NEW tokens \in Nat, ~SeizeInternalReverts(m, borrower, tokens)
    PROVE  LET n == SeizeInternal(m, liquidator, borrower, tokens)
           IN  /\ n.totalSupply <= m.totalSupply
               /\ n.accountTokens[borrower] = m.accountTokens[borrower] - tokens
               /\ \A a \in Account \ {liquidator, borrower} :
                      n.accountTokens[a] = m.accountTokens[a]
               /\ n.accountBorrows = m.accountBorrows /\ n.borrowIndex = m.borrowIndex
PROOF
  <1> DEFINE burnt == MulUIntExp(tokens, m.protocolSeizeShareMantissa)
             got   == tokens - burnt
             n     == SeizeInternal(m, liquidator, borrower, tokens)
  <1>1. burnt \in 0 .. tokens
    <2>1. m.protocolSeizeShareMantissa \in 0 .. expScale
      BY MarketAssumption, ExpScaleAssumption DEF MarketType
    <2> QED
      BY <2>1, MulUIntExpBound
  <1>2. /\ n.accountTokens = Moved(m.accountTokens, borrower, tokens, liquidator, got)
        /\ n.totalSupply = m.totalSupply - burnt
        /\ n.accountBorrows = m.accountBorrows /\ n.borrowIndex = m.borrowIndex
    BY DEF SeizeInternal, MarketType
  <1> HIDE DEF burnt, n
  <1>3. /\ m.accountTokens \in Balances /\ m.totalSupply \in Nat
        /\ tokens <= m.accountTokens[borrower]
    <2>1. m.accountTokens \in Balances /\ m.totalSupply \in Nat
      BY DEF MarketType, Balances
    <2>2. m.accountTokens[borrower] \in Nat
      BY <2>1 DEF Balances
    <2> QED
      BY <2>1, <2>2 DEF SeizeInternalReverts
  <1>4. got \in Nat
    BY <1>1
  <1> HIDE DEF got
  <1>5. /\ n.accountTokens[borrower] = m.accountTokens[borrower] - tokens
        /\ \A a \in Account \ {liquidator, borrower} : n.accountTokens[a] = m.accountTokens[a]
    BY <1>2, <1>3, <1>4, MovedBalances
  <1>6. n.totalSupply <= m.totalSupply
    BY <1>1, <1>2, <1>3
  <1> QED
    BY <1>2, <1>5, <1>6 DEF n

(* Seizing is not paused, and who was paid for is the borrower. *)
LEMMA SeizureIsGuarded ==
    ASSUME Inv, NEW jb \in JToken, NEW j \in JToken, NEW base, NEW m \in MarketType,
           Sound(base, accountMembership[j], now),
           AtRest(jToken[j], base), TokensAtRest(base, m), DebtsShrink(base, m),
           NEW liquidator \in Account, NEW borrower \in Account, liquidator # borrower,
           NEW tokens \in Nat, tokens > 0, ~SeizeInternalReverts(m, borrower, tokens),
           jToken'[j] = SeizeInternal(m, liquidator, borrower, tokens),
           ~SeizeReverts(borrower),
           BorrowBalanceStored(jToken'[jb], borrower) < Owed(jb, borrower, jToken'[jb].borrowIndex)
    PROVE  Guarded(j)
PROOF
  <1> DEFINE n == jToken'[j]
  <1>1. /\ n.totalSupply <= m.totalSupply
        /\ n.accountTokens[borrower] = m.accountTokens[borrower] - tokens
        /\ \A a \in Account \ {liquidator, borrower} : n.accountTokens[a] = m.accountTokens[a]
        /\ n.accountBorrows = m.accountBorrows /\ n.borrowIndex = m.borrowIndex
    BY SeizedTokens
  <1>2. /\ m.accountTokens = jToken[j].accountTokens /\ m.totalSupply = jToken[j].totalSupply
        /\ jToken[j] \in MarketType /\ \A a \in Account : m.accountTokens[a] \in Nat
    BY TokenTypes DEF AtRest, TokensAtRest, Inv, Storages
  <1>3. \A a \in Account : Owed(j, a, n.borrowIndex) = BorrowBalanceStored(base, a)
    BY <1>1, <1>2, SameSnapshotSameDebt DEF AtRest, DebtsShrink
  <1>4. \A a \in Account : BorrowBalanceStored(n, a) = BorrowBalanceStored(m, a)
    BY <1>1 DEF BorrowBalanceStored
  <1>5. BorrowGuarded(j)
    BY <1>3, <1>4 DEF BorrowGuarded, DebtsShrink
  <1>6. n.accountTokens[borrower] < jToken[j].accountTokens[borrower]
    BY <1>1, <1>2
  <1>7. Liquidated(borrower, jb, j)
    BY <1>6 DEF Liquidated
  <1>8. ASSUME NEW a \in Account, n.accountTokens[a] > jToken[j].accountTokens[a]
        PROVE  borrower # a
    BY <1>1, <1>2, <1>8
  <1>9. CreditGuarded(j)
    BY <1>7, <1>8 DEF CreditGuarded
  <1> QED
    BY <1>1, <1>2, <1>5, <1>9 DEF Guarded, MintGuarded, MoveGuarded, SeizeReverts

(* Initialising the two accounts of a liquidation moves nothing.           *)
LEMMA InitializedTwice ==
    ASSUME NEW j \in JToken, NEW m, Sound(m, accountMembership[j], now),
           NEW a \in Account, NEW b \in Account
    PROVE  LET n == Initialized(Initialized(m, j, a), j, b)
           IN  /\ n \in MarketType
               /\ TokensAtRest(m, n) /\ n.accountBorrows = m.accountBorrows
               /\ n.borrowIndex = m.borrowIndex
PROOF
  <1> DEFINE m1 == Initialized(m, j, a)
             n  == Initialized(m1, j, b)
  <1>1. Sound(m1, accountMembership[j], now)
    BY InitializedIsSound
  <1>2. AtRest(m, m1) /\ m1.borrowIndex = m.borrowIndex
    BY InitializedIsAtRest DEF Sound
  <1>3. m1 \in MarketType
    BY <1>1 DEF Sound
  <1> HIDE DEF m1
  <1>4. Sound(n, accountMembership[j], now)
    BY <1>1, InitializedIsSound
  <1>5. AtRest(m1, n) /\ n.borrowIndex = m1.borrowIndex
    BY <1>3, InitializedIsAtRest
  <1>6. n \in MarketType
    BY <1>4 DEF Sound
  <1> HIDE DEF n
  <1>7. TokensAtRest(m, n) /\ n.accountBorrows = m.accountBorrows /\ n.borrowIndex = m.borrowIndex
    BY <1>2, <1>5 DEF AtRest, TokensAtRest
  <1> QED
    BY <1>6, <1>7 DEF m1, n

LEMMA LiquidationIsGuarded ==
    ASSUME Inv, Inv', NEW jb \in JToken, NEW jc \in JToken,
           NEW mb \in Accruals(jToken[jb], now), NEW mc \in Accruals(jToken[jc], now),
           NEW liquidator \in Account, NEW borrower \in Account, liquidator # borrower,
           NEW actual \in Nat, NEW tokens \in Nat,
           Liquidation(jb, jc, mb, mc, liquidator, borrower, actual, tokens)
    PROVE  Guarded(jb) /\ Guarded(jc)
PROOF
  <1> DEFINE repaid     == RepayBorrowFresh(mb, borrower, actual)
             base       == IF jb = jc THEN mb ELSE mc
             collateral == IF jb = jc THEN repaid ELSE mc
             m == Initialized(Initialized(collateral, jc, liquidator), jc, borrower)
  <1>1. /\ ~RepayBorrowFreshReverts(mb, borrower, actual) /\ ~SeizeReverts(borrower)
        /\ actual = 0 => tokens = 0
        /\ tokens > 0 => ~SeizeInternalReverts(m, borrower, tokens)
        /\ jb # jc => jToken'[jb] = repaid
        /\ jToken'[jc] = IF tokens = 0 THEN m ELSE SeizeInternal(m, liquidator, borrower, tokens)
    BY Zenon DEF Liquidation
  <1>2. /\ AtRest(jToken[jb], mb) /\ Sound(mb, accountMembership[jb], now) /\ mb \in MarketType
        /\ AtRest(jToken[jc], mc) /\ Sound(mc, accountMembership[jc], now) /\ mc \in MarketType
    BY PreparedIsAtRest DEF Sound
  <1>3. /\ TokensAtRest(mb, repaid) /\ DebtsShrink(mb, repaid)
        /\ BorrowBalanceStored(repaid, borrower) = BorrowBalanceStored(mb, borrower) - actual
    BY <1>1, <1>2, RepaidDebts
  <1>4. Sound(repaid, accountMembership[jb], now)
    BY <1>1, <1>2, RepayBorrowIsSound
  <1> HIDE DEF repaid
  <1>5. /\ AtRest(jToken[jc], base) /\ Sound(base, accountMembership[jc], now)
        /\ base \in MarketType
    BY <1>2
  <1>6. Sound(collateral, accountMembership[jc], now)
    BY <1>2, <1>4
  <1>7. TokensAtRest(base, collateral) /\ DebtsShrink(base, collateral)
    <2>1. \A a \in Account : BorrowBalanceStored(mc, a) \in Nat
      BY <1>2, BorrowBalanceType
    <2> QED
      BY <1>3, <2>1 DEF TokensAtRest, DebtsShrink
  <1>8. /\ m \in MarketType
        /\ TokensAtRest(collateral, m) /\ m.accountBorrows = collateral.accountBorrows
        /\ m.borrowIndex = collateral.borrowIndex
    BY <1>6, InitializedTwice
  <1>9. TokensAtRest(base, m) /\ DebtsShrink(base, m)
    <2>1. \A a \in Account : BorrowBalanceStored(m, a) = BorrowBalanceStored(collateral, a)
      BY <1>8 DEF BorrowBalanceStored
    <2> QED
      BY <1>7, <1>8, <2>1 DEF TokensAtRest, DebtsShrink
  <1>10. jb # jc => Guarded(jb)
    BY <1>1, <1>2, <1>3, QuietIsGuarded
  <1>11. CASE tokens = 0
    <2>1. jToken'[jc] = m
      BY <1>1, <1>11
    <2> QED
      BY <1>5, <1>9, <1>10, <2>1, QuietIsGuarded
  <1>12. CASE tokens > 0
    <2>1. /\ ~SeizeInternalReverts(m, borrower, tokens) /\ actual > 0
          /\ jToken'[jc] = SeizeInternal(m, liquidator, borrower, tokens)
      BY <1>1, <1>12
    <2>2. /\ jToken'[jb].accountBorrows = repaid.accountBorrows
          /\ jToken'[jb].borrowIndex = repaid.borrowIndex
      <3>1. CASE jb # jc
        BY <1>1, <3>1
      <3>2. CASE jb = jc
        <4>1. /\ jToken'[jc].accountBorrows = m.accountBorrows
              /\ jToken'[jc].borrowIndex = m.borrowIndex
          BY <1>8, <2>1, SeizedTokens
        <4> QED
          BY <1>8, <3>2, <4>1
      <3> QED
        BY <3>1, <3>2
    <2>3. BorrowBalanceStored(jToken'[jb], borrower) = BorrowBalanceStored(repaid, borrower)
      BY <2>2 DEF BorrowBalanceStored
    <2>4. Owed(jb, borrower, jToken'[jb].borrowIndex) = BorrowBalanceStored(mb, borrower)
      <3>1. jToken[jb] \in MarketType /\ jToken'[jb].borrowIndex = mb.borrowIndex
        BY <1>3, <2>2 DEF DebtsShrink, Inv, Storages
      <3> QED
        BY <1>2, <3>1, SameSnapshotSameDebt DEF AtRest
    <2>5. BorrowBalanceStored(mb, borrower) \in Nat
      BY <1>2, BorrowBalanceType
    <2>6. BorrowBalanceStored(jToken'[jb], borrower) < Owed(jb, borrower, jToken'[jb].borrowIndex)
      BY <1>3, <2>1, <2>3, <2>4, <2>5
    <2> HIDE DEF m, base
    <2>7. Guarded(jc)
      BY <1>1, <1>5, <1>8, <1>9, <1>12, <2>1, <2>6, SeizureIsGuarded
    <2> QED
      BY <1>10, <2>7
  <1> QED
    BY <1>11, <1>12

LEMMA LiquidateBorrowIsGuarded ==
    ASSUME Inv, Inv', NEW jb \in JToken, NEW jc \in JToken, WithinBounds(jToken[jc]),
           NEW liquidator \in Account, NEW borrower \in Account,
           NEW repayAmount \in LiquidationAmounts,
           LiquidateBorrow(jb, jc, liquidator, borrower, repayAmount)
    PROVE  \A k \in JToken : Guarded(k)
PROOF
  <1>1. \A k \in JToken \ {jb, jc} : Guarded(k)
    BY LiquidationOutcome, UntouchedIsGuarded
  <1>2. PICK mb \in Accruals(jToken[jb], now), mc \in Accruals(jToken[jc], now) :
          \/ jToken'[jb] = mb /\ jToken'[jc] = IF jb = jc THEN mb ELSE mc
          \/ /\ liquidator # borrower /\ repayAmount # 0
             /\ \E actual \in Received(mb, repayAmount), tokens \in Nat :
                  Liquidation(jb, jc, mb, mc, liquidator, borrower, actual, tokens)
    BY LiquidationOutcome
  <1>3. ASSUME jToken'[jb] = mb, jToken'[jc] = IF jb = jc THEN mb ELSE mc
        PROVE  Guarded(jb) /\ Guarded(jc)
    <2>1. AtRest(jToken[jb], jToken'[jb]) /\ AtRest(jToken[jc], jToken'[jc])
      BY <1>3, PreparedIsAtRest
    <2> QED
      BY <2>1, RestIsGuarded DEF Inv, Storages
  <1>4. ASSUME liquidator # borrower, NEW actual \in Received(mb, repayAmount), NEW tokens \in Nat,
               Liquidation(jb, jc, mb, mc, liquidator, borrower, actual, tokens)
        PROVE  Guarded(jb) /\ Guarded(jc)
    <2>1. mb \in MarketType /\ repayAmount \in Nat
      BY PreparedIsAtRest, JoeLendingAssumption DEF Sound
    <2>2. actual \in Nat
      BY <2>1, ReceivedType
    <2> QED
      BY <1>4, <2>2, LiquidationIsGuarded
  <1> QED
    BY <1>1, <1>2, <1>3, <1>4

--------------------------------------------------------------------------------
(***************************************************************************)
(* Everyone else, and all steps.                                           *)
(***************************************************************************)
LEMMA SettingIsGuarded ==
    ASSUME Inv, Inv', NEW j \in JToken,
           \/ Accrue(j)
           \/ \E mantissa \in SeizeShares : SetProtocolSeizeShare(j, mantissa)
           \/ \E cap \in CollateralCaps : SetCollateralCap(j, cap)
    PROVE  \A k \in JToken : Guarded(k)
PROOF
  <1>1. jToken[j] \in MarketType
    BY DEF Inv, Storages
  <1>2. ASSUME NEW m \in MarketType, AtRest(jToken[j], m), NEW share, NEW cap,
               \/ jToken' = With(j, m)
               \/ jToken' = With(j, [m EXCEPT !.protocolSeizeShareMantissa = share])
               \/ jToken' = With(j, [m EXCEPT !.collateralCap = cap])
        PROVE  \A k \in JToken : Guarded(k)
    <2>1. /\ AtRest(m, m)
          /\ AtRest(m, [m EXCEPT !.protocolSeizeShareMantissa = share])
          /\ AtRest(m, [m EXCEPT !.collateralCap = cap])
      BY DEF AtRest, TokensAtRest, MarketType
    <2>2. PICK n : AtRest(m, n) /\ jToken' = With(j, n)
      BY <1>2, <2>1
    <2>3. jToken'[j] = n
      BY <2>2, MarketAfter
    <2>4. AtRest(jToken[j], jToken'[j])
      BY <1>2, <2>2, <2>3 DEF AtRest, TokensAtRest
    <2>5. Guarded(j)
      BY <2>4, RestIsGuarded DEF Inv, Storages
    <2> QED
      BY <2>2, <2>5, CallIsGuarded
  <1>3. ASSUME NEW m \in Accruals(jToken[j], now)
        PROVE  m \in MarketType /\ AtRest(jToken[j], m)
    BY <1>3, AccrualIsAtRest, AccruedIsSound DEF Sound
  <1>4. CASE Accrue(j)
    BY <1>2, <1>3, <1>4 DEF Accrue
  <1>5. ASSUME NEW mantissa \in SeizeShares, SetProtocolSeizeShare(j, mantissa)
        PROVE  \A k \in JToken : Guarded(k)
    BY <1>2, <1>3, <1>5 DEF SetProtocolSeizeShare
  <1>6. ASSUME NEW cap \in CollateralCaps, SetCollateralCap(j, cap)
        PROVE  \A k \in JToken : Guarded(k)
    <2>1. AtRest(jToken[j], jToken[j])
      BY DEF AtRest, TokensAtRest
    <2> QED
      BY <1>1, <1>2, <1>6, <2>1 DEF SetCollateralCap
  <1> QED
    BY <1>4, <1>5, <1>6

LEMMA StepIsGuarded ==
    ASSUME Inv, Inv', Bounded, Step
    PROVE  \A k \in JToken : Guarded(k)
PROOF
  <1> DEFINE AllGuarded == \A k \in JToken : Guarded(k)
  <1>1. ASSUME NEW j \in JToken, NEW a \in Account, NEW amount \in Amounts,
               \/ Mint(j, a, amount)
               \/ Redeem(j, a, amount, 0)
               \/ Redeem(j, a, 0, amount)
               \/ Borrow(j, a, amount)
               \/ \E dst \in Account : Transfer(j, a, dst, amount)
        PROVE  AllGuarded
    <2>1. amount \in Nat /\ 0 \in Nat
      BY JoeLendingAssumption
    <2> QED
      BY <1>1, <2>1, MintIsGuarded, RedeemIsGuarded, BorrowIsGuarded, TransferIsGuarded
  <1>2. ASSUME NEW j \in JToken, NEW a \in Account, NEW amount \in Amounts \cup {UIntMax},
               RepayBorrow(j, a, amount)
        PROVE  AllGuarded
    BY <1>2, RepayBorrowIsGuarded
  <1>3. ASSUME NEW jb \in JToken, NEW jc \in JToken, NEW liquidator \in Account,
               NEW borrower \in Account, NEW amount \in LiquidationAmounts,
               LiquidateBorrow(jb, jc, liquidator, borrower, amount)
        PROVE  AllGuarded
    BY <1>3, LiquidateBorrowIsGuarded DEF Bounded
  <1>4. ASSUME NEW j \in JToken, NEW a \in Account, EnterMarket(j, a) \/ ExitMarket(j, a)
        PROVE  AllGuarded
    BY <1>4, MembershipIsGuarded
  <1>5. ASSUME NEW j \in JToken, Accrue(j) PROVE AllGuarded
    BY <1>5, SettingIsGuarded
  <1>6. ASSUME NEW j \in JToken, NEW mantissa \in SeizeShares, SetProtocolSeizeShare(j, mantissa)
        PROVE  AllGuarded
    BY <1>6, SettingIsGuarded
  <1>7. ASSUME NEW j \in JToken, NEW cap \in CollateralCaps, SetCollateralCap(j, cap)
        PROVE  AllGuarded
    BY <1>7, SettingIsGuarded
  <1>8. ASSUME UNCHANGED jToken PROVE AllGuarded
    BY <1>8, UntouchedIsGuarded
  <1>9. ASSUME NEW j \in JToken, NEW p \in Prices, SetPrice(j, p) PROVE AllGuarded
    BY <1>8, <1>9 DEF SetPrice
  <1>10. ASSUME JoetrollerAdmin PROVE AllGuarded
    BY <1>8, <1>10, AdminLeavesMarkets
  <1>11. ASSUME Tick PROVE AllGuarded
    BY <1>8, <1>11 DEF Tick
  <1> HIDE DEF AllGuarded
  <1>12. AllGuarded
    BY <1>1, <1>2, <1>3, <1>4, <1>5, <1>6, <1>7, <1>9, <1>10, <1>11, Zenon DEF Step
  <1> QED
    BY <1>12 DEF AllGuarded

LEMMA NextIsGuarded ==
    Inv /\ Bounded /\ [Next]_vars => \A k \in JToken : Guarded(k)
PROOF
  <1> SUFFICES ASSUME Inv, Bounded, [Next]_vars PROVE \A k \in JToken : Guarded(k)
    OBVIOUS
  <1>1. Inv'
    BY NextKeepsInv
  <1>2. CASE UNCHANGED vars
    BY <1>1, <1>2, UntouchedIsGuarded DEF vars
  <1>3. CASE Next
    BY <1>1, <1>3, StepIsGuarded DEF Next
  <1> QED
    BY <1>2, <1>3

(* What a guardian paused stops, by whatever function: no supply is added, *)
(* no debt grows but by its interest, and when both transfers and seizures *)
(* are paused no jToken changes hands.                                     *)
THEOREM PauseTheorem ==
    Spec => PausedMeansStopped
PROOF
  <1>1. Init => Bounded
    BY InitIsMarketInits
  <1>2. Bounded /\ [Next]_vars => Bounded'
    BY BoundsAreKept
  <1>3. Inv /\ Bounded /\ [Next]_vars =>
          [ \A j \in JToken :
              /\ j \in config.mintGuardianPaused =>
                   jToken'[j].totalSupply <= jToken[j].totalSupply
              /\ j \in config.borrowGuardianPaused =>
                   \A a \in Account :
                     BorrowBalanceStored(jToken'[j], a) <= Owed(j, a, jToken'[j].borrowIndex)
              /\ config.transferGuardianPaused /\ config.seizeGuardianPaused =>
                   \A a \in Account :
                     jToken'[j].accountTokens[a] > jToken[j].accountTokens[a]
                     => jToken'[j].totalSupply > jToken[j].totalSupply ]_vars
    BY NextIsGuarded DEF Guarded, MintGuarded, BorrowGuarded, MoveGuarded
  <1> QED
    BY <1>1, <1>2, <1>3, InvIsInvariant, PTL DEF Spec, PausedMeansStopped

(* A credit account, which borrows without collateral, gets jTokens only   *)
(* as the liquidator of someone else: no mint, transfer or seizure gives   *)
(* it collateral in another way.                                           *)
THEOREM CreditAccountsTheorem ==
    Spec => CreditAccountsHoldNoCollateral
PROOF
  <1>1. Init => Bounded
    BY InitIsMarketInits
  <1>2. Bounded /\ [Next]_vars => Bounded'
    BY BoundsAreKept
  <1>3. Inv /\ Bounded /\ [Next]_vars =>
          [ \A a \in Account, j \in JToken :
              /\ IsCreditAccount(a)
              /\ jToken'[j].accountTokens[a] > jToken[j].accountTokens[a]
              => \E b \in Account \ {a}, jb \in JToken : Liquidated(b, jb, j) ]_vars
    BY NextIsGuarded DEF Guarded, CreditGuarded
  <1> QED
    BY <1>1, <1>2, <1>3, InvIsInvariant, PTL DEF Spec, CreditAccountsHoldNoCollateral

================================================================================
