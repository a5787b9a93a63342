----------------------- MODULE JCollateralCapErc20Proofs -----------------------
(***************************************************************************)
(* Lemmas about the operators of JCollateralCapErc20: each function of the *)
(* market leaves a sound storage when it found one.  MarketProofs puts     *)
(* them together into theorems about the behaviours of Market.             *)
(***************************************************************************)
EXTENDS JCollateralCapErc20, FiniteSetTheorems, TLAPS

(***************************************************************************)
(* Arithmetic.                                                             *)
(***************************************************************************)

(* The product of natural numbers is monotonic in each factor. *)
LEMMA ProductIsMonotonic ==
    ASSUME NEW a \in Nat, NEW b \in Nat, NEW c \in Nat, a <= b
    PROVE  a * c <= b * c
PROOF
  <1>1. b = a + (b - a) /\ b - a \in Nat
    OBVIOUS
  <1>2. PICK d \in Nat : b = a + d
    BY <1>1
  <1>3. (a + d) * c = a * c + d * c
    OBVIOUS
  <1>4. d * c \in Nat /\ a * c \in Nat
    OBVIOUS
  <1> QED
    BY <1>2, <1>3, <1>4

(* A truncated quotient is a natural number, and the quotient of a multiple *)
(* is exact. *)
LEMMA QuotientOfNat ==
    ASSUME NEW a \in Nat, NEW b \in Nat \ {0}
    PROVE  a \div b \in Nat
OBVIOUS

LEMMA QuotientBounds ==
    ASSUME NEW a \in Nat, NEW b \in Nat \ {0}
    PROVE  b * (a \div b) <= a /\ a < b * ((a \div b) + 1)
OBVIOUS

(* Scaling by a fraction of at most one does not enlarge an amount: the    *)
(* share of a seizure that the protocol burns is part of the seizure.      *)
LEMMA MulUIntExpBound ==
    ASSUME NEW amount \in Nat, NEW share \in 0 .. expScale
    PROVE  MulUIntExp(amount, share) \in 0 .. amount
PROOF
  <1> DEFINE q == (amount * share) \div expScale
  <1>0. expScale \in Nat \ {0} /\ share \in Nat /\ share <= expScale
    BY ExpScaleAssumption
  <1>1. amount * share \in Nat /\ q \in Nat
    BY <1>0, QuotientOfNat
  <1>2. expScale * q <= amount * share
    BY <1>0, <1>1, QuotientBounds
  <1>3. amount * share <= expScale * amount
    BY <1>0, ProductIsMonotonic
  <1>4. ASSUME q > amount PROVE FALSE
    <2>1. (amount + 1) * expScale <= q * expScale
      BY <1>0, <1>1, <1>4, ProductIsMonotonic
    <2>2. (amount + 1) * expScale = expScale * amount + expScale
      BY <1>0
    <2>3. q * expScale = expScale * q /\ expScale * amount \in Nat /\ expScale * q \in Nat
      BY <1>0, <1>1
    <2> HIDE DEF q
    <2> QED
      BY <1>0, <1>1, <1>2, <1>3, <2>1, <2>2, <2>3
  <1>5. q <= amount
    BY <1>1, <1>4
  <1> QED
    BY <1>1, <1>5 DEF MulUIntExp

(* A debt brought up to date with an index that did not fall is not less   *)
(* than its principal.                                                     *)
LEMMA ScaledPrincipal ==
    ASSUME NEW p \in Nat, NEW i \in Nat \ {0}, NEW b \in Nat, i <= b
    PROVE  (p * b) \div i \in Nat /\ p <= (p * b) \div i
PROOF
  <1> DEFINE q == (p * b) \div i
  <1>1. p * b \in Nat /\ q \in Nat
    BY QuotientOfNat
  <1>2. p * b < i * (q + 1)
    BY <1>1, QuotientBounds
  <1>3. i * p <= p * b
    BY ProductIsMonotonic
  <1>4. ASSUME q + 1 <= p PROVE FALSE
    <2>1. (q + 1) * i <= p * i
      BY <1>1, <1>4, ProductIsMonotonic
    <2>2. (q + 1) * i = i * (q + 1) /\ p * i = i * p
      BY <1>1
    <2>3. (q + 1) * i \in Nat /\ p * i \in Nat
      BY <1>1
    <2> HIDE DEF q
    <2> QED
      BY <1>1, <1>2, <1>3, <2>1, <2>2, <2>3
  <1> QED
    BY <1>1, <1>4

(***************************************************************************)
(* Totals.                                                                 *)
(***************************************************************************)
Balances == [Account -> Nat]

UnitsOf(balance, a) == {a} \X (1 .. balance[a])

(* The units of one account, and those of all accounts, are finitely many. *)
LEMMA UnitsAreFinite ==
    ASSUME NEW f \in Balances
    PROVE  /\ IsFiniteSet(Units(f))
           /\ \A a \in Account : IsFiniteSet(UnitsOf(f, a)) /\ Cardinality(UnitsOf(f, a)) = f[a]
PROOF
  <1>1. ASSUME NEW a \in Account
        PROVE  IsFiniteSet(UnitsOf(f, a)) /\ Cardinality(UnitsOf(f, a)) = f[a]
    <2>1. f[a] \in Nat
      BY DEF Balances
    <2>2. IsFiniteSet(1 .. f[a]) /\ Cardinality(1 .. f[a]) = f[a]
      BY <2>1, FS_Interval, SMTT(30)
    <2>3. IsFiniteSet({a}) /\ Cardinality({a}) = 1
      BY FS_Singleton
    <2>4. IsFiniteSet({a} \X (1 .. f[a])) /\ Cardinality({a} \X (1 .. f[a])) = 1 * f[a]
      BY <2>2, <2>3, FS_Product, ZenonT(60)
    <2> QED
      BY <2>1, <2>4 DEF UnitsOf
  <1>2. IsFiniteSet(Units(f))
    <2> DEFINE parts == { UnitsOf(f, a) : a \in Account }
    <2> DEFINE part == [a \in Account |-> UnitsOf(f, a)]
    <2>1. part \in Surjection(Account, parts)
      BY DEF Surjection
    <2>2. IsFiniteSet(parts)
      BY <2>1, AccountAssumption, FS_Surjection
    <2>3. \A T \in parts : IsFiniteSet(T)
      BY <1>1
    <2>4. IsFiniteSet(UNION parts)
      BY <2>2, <2>3, FS_UNION
    <2> QED
      BY <2>4 DEF Units, UnitsOf
  <1> QED
    BY <1>1, <1>2

LEMMA TotalType ==
    ASSUME NEW f \in Balances
    PROVE  Total(f) \in Nat
BY UnitsAreFinite, FS_CardinalityType DEF Total

(* No account holds more than all accounts together. *)
LEMMA BalanceWithinTotal ==
    ASSUME NEW f \in Balances, NEW a \in Account
    PROVE  f[a] <= Total(f)
PROOF
  <1>1. UnitsOf(f, a) \subseteq Units(f)
    BY DEF Units, UnitsOf
  <1>2. Cardinality(UnitsOf(f, a)) <= Cardinality(Units(f))
    BY <1>1, UnitsAreFinite, FS_Subset
  <1> QED
    BY <1>2, UnitsAreFinite DEF Total

(* Without balances the total is zero. *)
LEMMA TotalOfNothing ==
    Total([a \in Account |-> 0]) = 0
PROOF
  <1> DEFINE none == [a \in Account |-> 0]
  <1>1. \A a \in Account : 1 .. none[a] = {}
    OBVIOUS
  <1>2. Units(none) = {}
    BY <1>1, Zenon DEF Units
  <1> QED
    BY <1>2, FS_EmptySet DEF Total

(* Changing one balance changes the total by the difference. *)
LEMMA TotalOfUpdate ==
    ASSUME NEW f \in Balances, NEW a \in Account, NEW v \in Nat
    PROVE  /\ [f EXCEPT ![a] = v] \in Balances
           /\ Total([f EXCEPT ![a] = v]) = Total(f) - f[a] + v
PROOF
  <1> DEFINE g == [f EXCEPT ![a] = v]
  <1> DEFINE rest == Units(f) \ UnitsOf(f, a)
  <1>1. g \in Balances /\ g[a] = v
    BY DEF Balances
  <1>2. Units(f) = rest \cup UnitsOf(f, a) /\ rest \cap UnitsOf(f, a) = {}
    BY DEF Units, UnitsOf
  <1>3. Units(g) = rest \cup UnitsOf(g, a) /\ rest \cap UnitsOf(g, a) = {}
    <2>1. \A u \in rest : \E b \in Account \ {a} : u \in UnitsOf(f, b)
      BY DEF Units, UnitsOf
    <2>2. \A b \in Account \ {a} : UnitsOf(f, b) = UnitsOf(g, b)
      BY DEF UnitsOf, Balances
    <2>3. \A b \in Account \ {a} : UnitsOf(f, b) \subseteq rest
      BY DEF Units, UnitsOf
    <2>4. \A b \in Account \ {a} : UnitsOf(f, b) \cap UnitsOf(g, a) = {}
      BY DEF UnitsOf
    <2>5. Units(g) = UNION { UnitsOf(g, b) : b \in Account }
      BY DEF Units, UnitsOf
    <2> HIDE DEF rest, g
    <2> QED
      BY <2>1, <2>2, <2>3, <2>4, <2>5
  <1>4. IsFiniteSet(rest) /\ Cardinality(rest) \in Nat
    BY UnitsAreFinite, FS_Difference, FS_CardinalityType
  <1>5. Cardinality(Units(f)) = Cardinality(rest) + f[a]
    <2> HIDE DEF rest
    <2> QED
      BY <1>2, <1>4, UnitsAreFinite, FS_Union, FS_EmptySet DEF Balances
  <1>6. Cardinality(Units(g)) = Cardinality(rest) + v
    <2> HIDE DEF rest, g
    <2> QED
      BY <1>1, <1>3, <1>4, UnitsAreFinite, FS_Union, FS_EmptySet
  <1>7. f[a] \in Nat
    BY DEF Balances
  <1> HIDE DEF rest, g
  <1>8. g \in Balances /\ Total(g) = Total(f) - f[a] + v
    BY <1>1, <1>4, <1>5, <1>6, <1>7 DEF Total
  <1> QED
    BY <1>8 DEF g

(***************************************************************************)
(* A sound storage m, when the accounts in mem have entered the market and *)
(* the time is t.  Its parts are the invariants of Market, one by one; the *)
(* last is only needed to prove the others.                                *)
(***************************************************************************)
SupplyAddsUp(m) == Total(m.accountTokens) = m.totalSupply

CollateralHeld(m) ==
    \A a \in Account : m.accountCollateralTokens[a] <= m.accountTokens[a]

CollateralCounted(m) == Total(m.accountCollateralTokens) <= m.totalCollateralTokens

CashHeld(m) == m.internalCash <= m.cashOnChain

DebtorsAreIn(m, mem) ==
    \A a \in Account : m.accountBorrows[a].principal > 0 => a \in mem

IndexesInOrder(m) ==
    /\ mantissaOne <= m.borrowIndex
    /\ \A a \in Account :
          m.accountBorrows[a].principal > 0 =>
              /\ mantissaOne <= m.accountBorrows[a].interestIndex
              /\ m.accountBorrows[a].interestIndex <= m.borrowIndex

AccruedInThePast(m, t) == m.accrualBlockTimestamp <= t

Sound(m, mem, t) ==
    /\ m \in MarketType
    /\ SupplyAddsUp(m)
    /\ CollateralHeld(m)
    /\ CollateralCounted(m)
    /\ CashHeld(m)
    /\ DebtorsAreIn(m, mem)
    /\ IndexesInOrder(m)
    /\ AccruedInThePast(m, t)

(***************************************************************************)
(* Views of a sound storage.                                               *)
(***************************************************************************)
LEMMA BorrowBalanceType ==
    ASSUME NEW m, NEW mem, NEW t, Sound(m, mem, t), NEW a \in Account
    PROVE  /\ BorrowBalanceStored(m, a) \in Nat
           /\ m.accountBorrows[a].principal <= BorrowBalanceStored(m, a)
           /\ m.accountBorrows[a].principal = 0 => BorrowBalanceStored(m, a) = 0
PROOF
  <1> DEFINE snapshot == m.accountBorrows[a]
  <1>1. snapshot.principal \in Nat /\ snapshot.interestIndex \in Nat /\ m.borrowIndex \in Nat
    BY DEF Sound, MarketType, BorrowSnapshot
  <1>2. CASE snapshot.principal = 0
    BY <1>1, <1>2 DEF BorrowBalanceStored
  <1>3. CASE snapshot.principal # 0
    <2>1. snapshot.interestIndex \in Nat \ {0} /\ snapshot.interestIndex <= m.borrowIndex
      BY <1>1, <1>3, ExpScaleAssumption DEF Sound, IndexesInOrder, mantissaOne
    <2>2. BorrowBalanceStored(m, a) = (snapshot.principal * m.borrowIndex) \div snapshot.interestIndex
      BY <1>3 DEF BorrowBalanceStored
    <2> QED
      BY <1>1, <1>3, <2>1, <2>2, ScaledPrincipal
  <1> QED
    BY <1>2, <1>3

LEMMA ExchangeRateType ==
    ASSUME NEW m \in MarketType, ~ExchangeRateReverts(m)
    PROVE  ExchangeRateStored(m) \in Nat
PROOF
  <1>1. /\ m.internalCash \in Nat /\ m.totalBorrows \in Nat
        /\ m.totalReserves \in Nat /\ m.totalSupply \in Nat
    BY DEF MarketType
  <1>2. CASE m.totalSupply = 0
    BY <1>2, MarketAssumption DEF ExchangeRateStored
  <1>3. CASE m.totalSupply # 0
    <2> DEFINE owned == CashPlusBorrowsMinusReserves(m)
    <2>1. owned \in Nat
      BY <1>1, <1>3 DEF ExchangeRateReverts, CashPlusBorrowsMinusReserves
    <2>2. owned * expScale \in Nat
      BY <2>1, ExpScaleAssumption
    <2> HIDE DEF owned
    <2>3. (owned * expScale) \div m.totalSupply \in Nat
      BY <1>1, <1>3, <2>2, QuotientOfNat
    <2> QED
      BY <1>3, <2>3 DEF ExchangeRateStored, DivUIntByExp, owned
  <1> QED
    BY <1>2, <1>3

LEMMA TruncateType ==
    ASSUME NEW exp \in Nat
    PROVE  Truncate(exp) \in Nat
BY ExpScaleAssumption, QuotientOfNat DEF Truncate

LEMMA MulScalarTruncateType ==
    ASSUME NEW exp \in Nat, NEW scalar \in Nat
    PROVE  MulScalarTruncate(exp, scalar) \in Nat
BY TruncateType DEF MulScalarTruncate

LEMMA DivScalarByExpTruncateType ==
    ASSUME NEW scalar \in Nat, NEW divisor \in Nat \ {0}
    PROVE  DivScalarByExpTruncate(scalar, divisor) \in Nat
PROOF
  <1>1. (expScale * scalar) * expScale \in Nat
    BY ExpScaleAssumption
  <1>2. ((expScale * scalar) * expScale) \div divisor \in Nat
    BY <1>1, QuotientOfNat
  <1> QED
    BY <1>2, TruncateType DEF DivScalarByExpTruncate

(* Changing one field within its type keeps the type of a storage.         *)
LEMMA FieldUpdates ==
    ASSUME NEW m \in MarketType
    PROVE
        /\ \A v \in Nat :
               /\ [m EXCEPT !.accrualBlockTimestamp = v] \in MarketType
               /\ [m EXCEPT !.borrowIndex = v] \in MarketType
               /\ [m EXCEPT !.totalBorrows = v] \in MarketType
               /\ [m EXCEPT !.totalReserves = v] \in MarketType
               /\ [m EXCEPT !.totalSupply = v] \in MarketType
               /\ [m EXCEPT !.internalCash = v] \in MarketType
               /\ [m EXCEPT !.cashOnChain = v] \in MarketType
               /\ [m EXCEPT !.totalCollateralTokens = v] \in MarketType
               /\ [m EXCEPT !.collateralCap = v] \in MarketType
        /\ \A f \in [Account -> Nat] :
               /\ [m EXCEPT !.accountTokens = f] \in MarketType
               /\ [m EXCEPT !.accountCollateralTokens = f] \in MarketType
        /\ \A f \in [Account -> BorrowSnapshot] :
               [m EXCEPT !.accountBorrows = f] \in MarketType
        /\ \A f \in [Account -> BOOLEAN] :
               [m EXCEPT !.isCollateralTokenInit = f] \in MarketType
        /\ \A f \in [Account -> [Account -> Nat \cup {UIntMax}]] :
               [m EXCEPT !.transferAllowances = f] \in MarketType
        /\ \A v \in 0 .. reserveFactorMaxMantissa :
               [m EXCEPT !.reserveFactorMantissa = v] \in MarketType
        /\ \A v \in 0 .. protocolSeizeShareMaxMantissa :
               [m EXCEPT !.protocolSeizeShareMantissa = v] \in MarketType
PROOF
  <1>1. \A v \in Nat :
            [m EXCEPT !.accrualBlockTimestamp = v] \in MarketType
    BY DEF MarketType
  <1>2. \A v \in Nat :
            [m EXCEPT !.borrowIndex = v] \in MarketType
    BY DEF MarketType
  <1>3. \A v \in Nat :
            [m EXCEPT !.totalBorrows = v] \in MarketType
    BY DEF MarketType
  <1>4. \A v \in Nat :
            [m EXCEPT !.totalReserves = v] \in MarketType
    BY DEF MarketType
  <1>5. \A v \in Nat :
            [m EXCEPT !.totalSupply = v] \in MarketType
    BY DEF MarketType
  <1>6. \A v \in Nat :
            [m EXCEPT !.internalCash = v] \in MarketType
    BY DEF MarketType
  <1>7. \A v \in Nat :
            [m EXCEPT !.cashOnChain = v] \in MarketType
    BY DEF MarketType
  <1>8. \A v \in Nat :
            [m EXCEPT !.totalCollateralTokens = v] \in MarketType
    BY DEF MarketType
  <1>9. \A v \in Nat :
            [m EXCEPT !.collateralCap = v] \in MarketType
    BY DEF MarketType
  <1>10. \A f \in [Account -> Nat] :
            [m EXCEPT !.accountTokens = f] \in MarketType
    BY DEF MarketType
  <1>11. \A f \in [Account -> Nat] :
            [m EXCEPT !.accountCollateralTokens = f] \in MarketType
    BY DEF MarketType
  <1>12. \A f \in [Account -> BorrowSnapshot] :
            [m EXCEPT !.accountBorrows = f] \in MarketType
    BY DEF MarketType
  <1>13. \A f \in [Account -> BOOLEAN] :
            [m EXCEPT !.isCollateralTokenInit = f] \in MarketType
    BY DEF MarketType
  <1>14. \A f \in [Account -> [Account -> Nat \cup {UIntMax}]] :
            [m EXCEPT !.transferAllowances = f] \in MarketType
    BY DEF MarketType
  <1>15. \A v \in 0 .. reserveFactorMaxMantissa :
            [m EXCEPT !.reserveFactorMantissa = v] \in MarketType
    BY DEF MarketType
  <1>16. \A v \in 0 .. protocolSeizeShareMaxMantissa :
            [m EXCEPT !.protocolSeizeShareMantissa = v] \in MarketType
    BY DEF MarketType
  <1> QED
    BY <1>1, <1>2, <1>3, <1>4, <1>5, <1>6, <1>7, <1>8, <1>9, <1>10, <1>11, <1>12, <1>13, <1>14, <1>15, <1>16

(* accrueInterest only raises the index, the borrows and the reserves.     *)
LEMMA AccrueInterestIsSound ==
    ASSUME NEW m, NEW mem, NEW t \in Nat, Sound(m, mem, t), NEW rate \in BorrowRates
    PROVE  Sound(AccrueInterest(m, t, rate), mem, t)
PROOF
  <1>1. CASE m.accrualBlockTimestamp = t
    BY <1>1 DEF AccrueInterest
  <1>2. CASE m.accrualBlockTimestamp # t
    <2> DEFINE factor == rate * (t - m.accrualBlockTimestamp)
               interest == MulScalarTruncate(factor, m.totalBorrows)
               index == MulScalarTruncateAddUInt(factor, m.borrowIndex, m.borrowIndex)
               reserves == MulScalarTruncateAddUInt(m.reserveFactorMantissa, interest,
                                                    m.totalReserves)
               n == [m EXCEPT !.accrualBlockTimestamp = t,
                              !.borrowIndex   = index,
                              !.totalBorrows  = interest + m.totalBorrows,
                              !.totalReserves = reserves]
    <2>1. /\ m \in MarketType
          /\ m.borrowIndex \in Nat /\ m.totalBorrows \in Nat /\ m.totalReserves \in Nat
          /\ m.reserveFactorMantissa \in Nat
          /\ m.accrualBlockTimestamp \in Nat /\ m.accrualBlockTimestamp <= t
      BY MarketAssumption, ExpScaleAssumption DEF Sound, MarketType, AccruedInThePast
    <2>2. factor \in Nat
      BY <2>1, MarketAssumption
    <2> HIDE DEF factor
    <2>3. interest \in Nat
      BY <2>1, <2>2, MulScalarTruncateType
    <2> HIDE DEF interest
    <2>4. index \in Nat /\ m.borrowIndex <= index
      BY <2>1, <2>2, MulScalarTruncateType DEF MulScalarTruncateAddUInt, MulScalarTruncate
    <2>5. reserves \in Nat
      BY <2>1, <2>3, MulScalarTruncateType DEF MulScalarTruncateAddUInt, MulScalarTruncate
    <2> HIDE DEF index, reserves
    <2>6. n \in MarketType
      <3>1. interest + m.totalBorrows \in Nat
        BY <2>1, <2>3
      <3> QED
        BY <2>1, <2>4, <2>5, <3>1, FieldUpdates, Zenon
    <2>7. IndexesInOrder(n)
      BY <2>1, <2>4, ExpScaleAssumption
      DEF Sound, IndexesInOrder, MarketType, BorrowSnapshot, mantissaOne
    <2>8. Sound(n, mem, t)
      BY <2>1, <2>6, <2>7
      DEF Sound, MarketType, SupplyAddsUp, CollateralHeld, CollateralCounted, CashHeld,
          DebtorsAreIn, AccruedInThePast
    <2>9. n = AccrueInterest(m, t, rate)
      BY <1>2 DEF AccrueInterest, factor, interest, index, reserves
    <2> QED
      BY <2>8, <2>9
  <1> QED
    BY <1>1, <1>2

(***************************************************************************)
(* Collateral bookkeeping.                                                 *)
(***************************************************************************)

(* Soundness speaks of the money of a market apart from its tokens: what   *)
(* changes only the tokens keeps the rest.                                 *)
MoneyUnchanged(m, n) ==
    /\ n.internalCash = m.internalCash
    /\ n.cashOnChain = m.cashOnChain
    /\ n.accountBorrows = m.accountBorrows
    /\ n.borrowIndex = m.borrowIndex
    /\ n.accrualBlockTimestamp = m.accrualBlockTimestamp

TokensUnchanged(m, n) ==
    /\ n.totalSupply = m.totalSupply
    /\ n.accountTokens = m.accountTokens
    /\ n.accountCollateralTokens = m.accountCollateralTokens
    /\ n.totalCollateralTokens = m.totalCollateralTokens

LEMMA SoundTokens ==
    ASSUME NEW m, NEW mem, NEW t, Sound(m, mem, t), NEW n \in MarketType,
           MoneyUnchanged(m, n), SupplyAddsUp(n), CollateralHeld(n), CollateralCounted(n)
    PROVE  Sound(n, mem, t)
BY DEF Sound, MoneyUnchanged, CashHeld, DebtorsAreIn, IndexesInOrder, AccruedInThePast

LEMMA SoundMoney ==
    ASSUME NEW m, NEW mem, NEW t, Sound(m, mem, t), NEW n \in MarketType,
           TokensUnchanged(m, n), CashHeld(n), NEW newMem, DebtorsAreIn(n, newMem),
           IndexesInOrder(n), AccruedInThePast(n, t)
    PROVE  Sound(n, newMem, t)
BY DEF Sound, TokensUnchanged, SupplyAddsUp, CollateralHeld, CollateralCounted

(* The fields of a storage that the lemmas below compute with.             *)
LEMMA FieldTypes ==
    ASSUME NEW m \in MarketType, NEW a \in Account
    PROVE  /\ m.totalSupply \in Nat /\ m.totalCollateralTokens \in Nat
           /\ m.accountTokens \in Balances /\ m.accountTokens[a] \in Nat
           /\ m.accountCollateralTokens \in Balances /\ m.accountCollateralTokens[a] \in Nat
           /\ m.isCollateralTokenInit[a] \in BOOLEAN
           /\ m.collateralCap \in Nat
BY DEF MarketType, Balances

(* Initialising an account gives it as collateral what it holds, if it is  *)
(* a member, and counts that.                                              *)
LEMMA InitializeIsSound ==
    ASSUME NEW m, NEW mem, NEW t, Sound(m, mem, t), NEW a \in Account, NEW isMember \in BOOLEAN
    PROVE  Sound(InitializeAccountCollateralTokens(m, a, isMember), mem, t)
PROOF
  <1>1. CASE m.isCollateralTokenInit[a]
    BY <1>1 DEF InitializeAccountCollateralTokens
  <1>2. CASE ~m.isCollateralTokenInit[a]
    <2> DEFINE tokens == m.accountTokens[a]
               initial == IF isMember THEN tokens ELSE m.accountCollateralTokens[a]
               added == IF isMember THEN tokens ELSE 0
               inits == [m.isCollateralTokenInit EXCEPT ![a] = TRUE]
               collateral == [m.accountCollateralTokens EXCEPT ![a] = initial]
               total == m.totalCollateralTokens + added
               n == [m EXCEPT !.isCollateralTokenInit = inits,
                              !.accountCollateralTokens = collateral,
                              !.totalCollateralTokens = total]
    <2>1. m \in MarketType /\ SupplyAddsUp(m) /\ CollateralHeld(m) /\ CollateralCounted(m)
      BY DEF Sound
    <2>2. /\ tokens \in Nat /\ initial \in Nat /\ added \in Nat /\ initial <= tokens
          /\ total \in Nat /\ m.totalCollateralTokens \in Nat
          /\ m.accountCollateralTokens \in Balances /\ m.accountCollateralTokens[a] \in Nat
          /\ initial - m.accountCollateralTokens[a] <= added
      BY <2>1, FieldTypes DEF CollateralHeld
    <2>3. inits \in [Account -> BOOLEAN]
      BY <2>1 DEF MarketType
    <2>4. /\ collateral \in Balances
          /\ Total(collateral) = Total(m.accountCollateralTokens)
                                   - m.accountCollateralTokens[a] + initial
      BY <2>2, TotalOfUpdate
    <2>5. n \in MarketType
      <3> HIDE DEF inits, collateral, total
      <3> QED
        BY <2>1, <2>2, <2>3, <2>4, FieldUpdates, Zenon DEF Balances
    <2>6. /\ MoneyUnchanged(m, n)
          /\ n.totalSupply = m.totalSupply /\ n.accountTokens = m.accountTokens
          /\ n.accountCollateralTokens = collateral /\ n.totalCollateralTokens = total
      <3> HIDE DEF inits, collateral, total
      <3> QED
        BY <2>1 DEF MarketType, MoneyUnchanged
    <2>7. CollateralHeld(n)
      <3> HIDE DEF n
      <3> QED
        BY <2>1, <2>2, <2>6 DEF CollateralHeld, Balances
    <2>8. SupplyAddsUp(n) /\ CollateralCounted(n)
      <3>1. Total(m.accountCollateralTokens) \in Nat
        BY <2>2, TotalType
      <3> HIDE DEF n, collateral, initial, added
      <3> QED
        BY <2>1, <2>2, <2>4, <2>6, <3>1 DEF SupplyAddsUp, CollateralCounted
    <2>9. n = InitializeAccountCollateralTokens(m, a, isMember)
      BY <1>2 DEF InitializeAccountCollateralTokens
    <2> HIDE DEF n
    <2> QED
      BY <2>1, <2>5, <2>6, <2>7, <2>8, <2>9, SoundTokens
  <1> QED
    BY <1>1, <1>2

(* The cap lets through at most what is asked for. *)
LEMMA CollateralIncreaseBound ==
    ASSUME NEW m \in MarketType, NEW amount \in Nat
    PROVE  CollateralIncrease(m, amount) \in 0 .. amount
PROOF
  <1>1. m.totalCollateralTokens \in Nat /\ m.collateralCap \in Nat
    BY DEF MarketType
  <1> QED
    BY <1>1 DEF CollateralIncrease

(* Collateral can be raised up to the tokens of the account. *)
LEMMA IncreaseIsSound ==
    ASSUME NEW m, NEW mem, NEW t, Sound(m, mem, t), NEW a \in Account, NEW amount \in Nat,
           m.accountCollateralTokens[a] + amount <= m.accountTokens[a]
    PROVE  Sound(IncreaseUserCollateral(m, a, amount), mem, t)
PROOF
  <1> DEFINE increase == CollateralIncrease(m, amount)
             collateral == [m.accountCollateralTokens EXCEPT ![a] = @ + increase]
             total == m.totalCollateralTokens + increase
             n == [m EXCEPT !.totalCollateralTokens = total,
                            !.accountCollateralTokens = collateral]
  <1>1. m \in MarketType /\ SupplyAddsUp(m) /\ CollateralHeld(m) /\ CollateralCounted(m)
    BY DEF Sound
  <1>2. increase \in Nat /\ increase <= amount
    BY <1>1, CollateralIncreaseBound
  <1> HIDE DEF increase
  <1>3. /\ total \in Nat /\ m.totalCollateralTokens \in Nat
        /\ m.accountTokens[a] \in Nat
        /\ m.accountCollateralTokens \in Balances /\ m.accountCollateralTokens[a] \in Nat
        /\ m.accountCollateralTokens[a] + increase \in Nat
    BY <1>1, <1>2, FieldTypes
  <1>4. /\ collateral \in Balances
        /\ Total(collateral) = Total(m.accountCollateralTokens) + increase
    <2>1. Total(collateral) = Total(m.accountCollateralTokens) - m.accountCollateralTokens[a]
                                + (m.accountCollateralTokens[a] + increase)
      BY <1>3, TotalOfUpdate
    <2>2. Total(m.accountCollateralTokens) \in Nat
      BY <1>3, TotalType
    <2>3. collateral \in Balances
      BY <1>3, TotalOfUpdate
    <2> HIDE DEF collateral
    <2> QED
      BY <1>2, <1>3, <2>1, <2>2, <2>3
  <1>5. n \in MarketType
    <2> HIDE DEF collateral, total
    <2> QED
      BY <1>1, <1>3, <1>4, FieldUpdates, Zenon DEF Balances
  <1>6. /\ MoneyUnchanged(m, n)
        /\ n.totalSupply = m.totalSupply /\ n.accountTokens = m.accountTokens
        /\ n.accountCollateralTokens = collateral /\ n.totalCollateralTokens = total
    <2> HIDE DEF collateral, total
    <2> QED
      BY <1>1 DEF MarketType, MoneyUnchanged
  <1>7. CollateralHeld(n)
    <2> HIDE DEF n
    <2> QED
      BY <1>1, <1>2, <1>3, <1>6 DEF CollateralHeld, Balances
  <1>8. SupplyAddsUp(n) /\ CollateralCounted(n)
    <2>1. Total(m.accountCollateralTokens) \in Nat
      BY <1>3, TotalType
    <2> HIDE DEF n, collateral
    <2> QED
      BY <1>1, <1>2, <1>3, <1>4, <1>6, <2>1 DEF SupplyAddsUp, CollateralCounted
  <1>9. n = IncreaseUserCollateral(m, a, amount)
    BY DEF IncreaseUserCollateral, increase
  <1> HIDE DEF n
  <1> QED
    BY <1>1, <1>5, <1>6, <1>7, <1>8, <1>9, SoundTokens

(* Collateral can be lowered.  Redeeming lowers it after the tokens, when  *)
(* the account may have less tokens than collateral, so that this lemma    *)
(* does not ask for a sound storage.                                       *)
LEMMA DecreaseEffect ==
    ASSUME NEW m \in MarketType, NEW a \in Account, NEW amount \in Nat,
           ~DecreaseUserCollateralReverts(m, a, amount), CollateralCounted(m)
    PROVE  LET n == DecreaseUserCollateral(m, a, amount)
           IN  /\ n \in MarketType
               /\ MoneyUnchanged(m, n)
               /\ n.totalSupply = m.totalSupply /\ n.accountTokens = m.accountTokens
               /\ n.accountCollateralTokens = [m.accountCollateralTokens EXCEPT ![a] = @ - amount]
               /\ CollateralCounted(n)
PROOF
  <1> DEFINE collateral == [m.accountCollateralTokens EXCEPT ![a] = @ - amount]
             total == m.totalCollateralTokens - amount
             n == [m EXCEPT !.totalCollateralTokens = total,
                            !.accountCollateralTokens = collateral]
  <1>1. /\ total \in Nat /\ m.totalCollateralTokens \in Nat
        /\ m.accountCollateralTokens \in Balances /\ m.accountCollateralTokens[a] \in Nat
        /\ m.accountCollateralTokens[a] - amount \in Nat
    BY FieldTypes DEF DecreaseUserCollateralReverts
  <1>2. /\ collateral \in Balances
        /\ Total(collateral) = Total(m.accountCollateralTokens) - amount
    <2>1. Total(collateral) = Total(m.accountCollateralTokens) - m.accountCollateralTokens[a]
                                + (m.accountCollateralTokens[a] - amount)
      BY <1>1, TotalOfUpdate
    <2>2. Total(m.accountCollateralTokens) \in Nat
      BY <1>1, TotalType
    <2>3. collateral \in Balances
      BY <1>1, TotalOfUpdate
    <2> HIDE DEF collateral
    <2> QED
      BY <1>1, <2>1, <2>2, <2>3
  <1>3. n \in MarketType
    <2> HIDE DEF collateral, total
    <2> QED
      BY <1>1, <1>2, FieldUpdates, Zenon DEF Balances
  <1>4. /\ MoneyUnchanged(m, n)
        /\ n.totalSupply = m.totalSupply /\ n.accountTokens = m.accountTokens
        /\ n.accountCollateralTokens = collateral /\ n.totalCollateralTokens = total
    <2> HIDE DEF collateral, total
    <2> QED
      BY DEF MarketType, MoneyUnchanged
  <1>5. CollateralCounted(n)
    <2>1. Total(m.accountCollateralTokens) \in Nat
      BY <1>1, TotalType
    <2> HIDE DEF n, collateral
    <2> QED
      BY <1>1, <1>2, <1>4, <2>1 DEF CollateralCounted
  <1>6. n = DecreaseUserCollateral(m, a, amount)
    BY DEF DecreaseUserCollateral
  <1> QED
    BY <1>3, <1>4, <1>5, <1>6

LEMMA DecreaseIsSound ==
    ASSUME NEW m, NEW mem, NEW t, Sound(m, mem, t), NEW a \in Account, NEW amount \in Nat,
           ~DecreaseUserCollateralReverts(m, a, amount)
    PROVE  Sound(DecreaseUserCollateral(m, a, amount), mem, t)
PROOF
  <1> DEFINE n == DecreaseUserCollateral(m, a, amount)
  <1>1. m \in MarketType /\ SupplyAddsUp(m) /\ CollateralHeld(m) /\ CollateralCounted(m)
    BY DEF Sound
  <1>2. /\ n \in MarketType /\ MoneyUnchanged(m, n) /\ CollateralCounted(n)
        /\ n.totalSupply = m.totalSupply /\ n.accountTokens = m.accountTokens
        /\ n.accountCollateralTokens = [m.accountCollateralTokens EXCEPT ![a] = @ - amount]
    BY <1>1, DecreaseEffect
  <1> HIDE DEF n
  <1>3. SupplyAddsUp(n)
    BY <1>1, <1>2 DEF SupplyAddsUp
  <1>4. CollateralHeld(n)
    <2>1. \A b \in Account : m.accountTokens[b] \in Nat /\ m.accountCollateralTokens[b] \in Nat
      BY <1>1, FieldTypes
    <2>2. m.accountCollateralTokens \in Balances
      BY <1>1, FieldTypes
    <2> QED
      BY <1>1, <1>2, <2>1, <2>2 DEF CollateralHeld, Balances
  <1> QED
    BY <1>1, <1>2, <1>3, <1>4, SoundTokens DEF n

(* Registering an account turns its buffer into collateral, unregistering  *)
(* takes its collateral away.                                              *)
LEMMA RegisterIsSound ==
    ASSUME NEW m, NEW mem, NEW t, Sound(m, mem, t), NEW a \in Account, NEW isMember \in BOOLEAN
    PROVE  Sound(RegisterCollateral(m, a, isMember), mem, t)
PROOF
  <1> DEFINE m1 == InitializeAccountCollateralTokens(m, a, isMember)
  <1>1. Sound(m1, mem, t)
    BY InitializeIsSound
  <1> HIDE DEF m1
  <1>2. /\ BufferTokens(m1, a) \in Nat
        /\ m1.accountCollateralTokens[a] + BufferTokens(m1, a) <= m1.accountTokens[a]
    BY <1>1, FieldTypes DEF Sound, CollateralHeld, BufferTokens
  <1> QED
    BY <1>1, <1>2, IncreaseIsSound DEF RegisterCollateral, m1

LEMMA UnregisterIsSound ==
    ASSUME NEW m, NEW mem, NEW t, Sound(m, mem, t), NEW a \in Account, NEW isMember \in BOOLEAN
    PROVE  LET m1 == InitializeAccountCollateralTokens(m, a, isMember)
           IN  ~DecreaseUserCollateralReverts(m1, a, m1.accountCollateralTokens[a])
                 => Sound(UnregisterCollateral(m, a, isMember), mem, t)
PROOF
  <1> DEFINE m1 == InitializeAccountCollateralTokens(m, a, isMember)
  <1>1. Sound(m1, mem, t)
    BY InitializeIsSound
  <1> HIDE DEF m1
  <1>2. m1.accountCollateralTokens[a] \in Nat
    BY <1>1, FieldTypes DEF Sound
  <1> QED
    BY <1>1, <1>2, DecreaseIsSound DEF UnregisterCollateral, m1

(***************************************************************************)
(* Fields that soundness does not speak of.                                *)
(***************************************************************************)
LEMMA OtherFieldsAreSound ==
    ASSUME NEW m, NEW mem, NEW t, Sound(m, mem, t)
    PROVE  /\ \A v \in Nat :
                 /\ Sound([m EXCEPT !.totalBorrows = v], mem, t)
                 /\ Sound([m EXCEPT !.totalReserves = v], mem, t)
                 /\ Sound([m EXCEPT !.collateralCap = v], mem, t)
           /\ \A v \in 0 .. reserveFactorMaxMantissa :
                 Sound([m EXCEPT !.reserveFactorMantissa = v], mem, t)
           /\ \A v \in 0 .. protocolSeizeShareMaxMantissa :
                 Sound([m EXCEPT !.protocolSeizeShareMantissa = v], mem, t)
           /\ \A f \in [Account -> [Account -> Nat \cup {UIntMax}]] :
                 Sound([m EXCEPT !.transferAllowances = f], mem, t)
PROOF
  <1>1. /\ m \in MarketType /\ CashHeld(m) /\ DebtorsAreIn(m, mem) /\ IndexesInOrder(m)
        /\ AccruedInThePast(m, t)
    BY DEF Sound
  <1>2. ASSUME NEW n \in MarketType, TokensUnchanged(m, n), MoneyUnchanged(m, n)
        PROVE  Sound(n, mem, t)
    BY <1>1, <1>2, SoundMoney
    DEF MoneyUnchanged, CashHeld, DebtorsAreIn, IndexesInOrder, AccruedInThePast
  <1>3. ASSUME NEW v \in Nat PROVE Sound([m EXCEPT !.totalBorrows = v], mem, t)
    <2> DEFINE n == [m EXCEPT !.totalBorrows = v]
    <2>1. n \in MarketType
      BY <1>1, FieldUpdates, Zenon
    <2>2. TokensUnchanged(m, n) /\ MoneyUnchanged(m, n)
      BY <1>1 DEF MarketType, TokensUnchanged, MoneyUnchanged
    <2> QED
      BY <1>2, <2>1, <2>2, Zenon
  <1>4. ASSUME NEW v \in Nat PROVE Sound([m EXCEPT !.totalReserves = v], mem, t)
    <2> DEFINE n == [m EXCEPT !.totalReserves = v]
    <2>1. n \in MarketType
      BY <1>1, FieldUpdates, Zenon
    <2>2. TokensUnchanged(m, n) /\ MoneyUnchanged(m, n)
      BY <1>1 DEF MarketType, TokensUnchanged, MoneyUnchanged
    <2> QED
      BY <1>2, <2>1, <2>2, Zenon
  <1>5. ASSUME NEW v \in Nat PROVE Sound([m EXCEPT !.collateralCap = v], mem, t)
    <2> DEFINE n == [m EXCEPT !.collateralCap = v]
    <2>1. n \in MarketType
      BY <1>1, FieldUpdates, Zenon
    <2>2. TokensUnchanged(m, n) /\ MoneyUnchanged(m, n)
      BY <1>1 DEF MarketType, TokensUnchanged, MoneyUnchanged
    <2> QED
      BY <1>2, <2>1, <2>2, Zenon
  <1>6. ASSUME NEW v \in 0 .. reserveFactorMaxMantissa
        PROVE  Sound([m EXCEPT !.reserveFactorMantissa = v], mem, t)
    <2> DEFINE n == [m EXCEPT !.reserveFactorMantissa = v]
    <2>1. n \in MarketType
      BY <1>1, FieldUpdates, Zenon
    <2>2. TokensUnchanged(m, n) /\ MoneyUnchanged(m, n)
      BY <1>1 DEF MarketType, TokensUnchanged, MoneyUnchanged
    <2> QED
      BY <1>2, <2>1, <2>2, Zenon
  <1>7. ASSUME NEW v \in 0 .. protocolSeizeShareMaxMantissa
        PROVE  Sound([m EXCEPT !.protocolSeizeShareMantissa = v], mem, t)
    <2> DEFINE n == [m EXCEPT !.protocolSeizeShareMantissa = v]
    <2>1. n \in MarketType
      BY <1>1, FieldUpdates, Zenon
    <2>2. TokensUnchanged(m, n) /\ MoneyUnchanged(m, n)
      BY <1>1 DEF MarketType, TokensUnchanged, MoneyUnchanged
    <2> QED
      BY <1>2, <2>1, <2>2, Zenon
  <1>8. ASSUME NEW f \in [Account -> [Account -> Nat \cup {UIntMax}]]
        PROVE  Sound([m EXCEPT !.transferAllowances = f], mem, t)
    <2> DEFINE n == [m EXCEPT !.transferAllowances = f]
    <2>1. n \in MarketType
      BY <1>1, FieldUpdates, Zenon
    <2>2. TokensUnchanged(m, n) /\ MoneyUnchanged(m, n)
      BY <1>1 DEF MarketType, TokensUnchanged, MoneyUnchanged
    <2> QED
      BY <1>2, <2>1, <2>2, Zenon
  <1> QED
    BY <1>3, <1>4, <1>5, <1>6, <1>7, <1>8

(***************************************************************************)
(* Money.                                                                  *)
(***************************************************************************)
LEMMA MoneyTypes ==
    ASSUME NEW m \in MarketType
    PROVE  /\ m.internalCash \in Nat /\ m.cashOnChain \in Nat
           /\ m.totalBorrows \in Nat /\ m.totalReserves \in Nat
           /\ m.borrowIndex \in Nat /\ m.accrualBlockTimestamp \in Nat
BY DEF MarketType

LEMMA CashIsSound ==
    ASSUME NEW m, NEW mem, NEW t, Sound(m, mem, t), NEW onChain \in Nat, NEW counted \in Nat,
           counted <= onChain
    PROVE  Sound([m EXCEPT !.cashOnChain = onChain, !.internalCash = counted], mem, t)
PROOF
  <1> DEFINE n == [m EXCEPT !.cashOnChain = onChain, !.internalCash = counted]
  <1>1. /\ m \in MarketType /\ DebtorsAreIn(m, mem) /\ IndexesInOrder(m) /\ AccruedInThePast(m, t)
    BY DEF Sound
  <1>2. n \in MarketType
    BY <1>1, FieldUpdates, Zenon
  <1>3. /\ TokensUnchanged(m, n) /\ n.internalCash = counted /\ n.cashOnChain = onChain
        /\ n.accountBorrows = m.accountBorrows /\ n.borrowIndex = m.borrowIndex
        /\ n.accrualBlockTimestamp = m.accrualBlockTimestamp
    BY <1>1 DEF MarketType, TokensUnchanged
  <1> HIDE DEF n
  <1>4. CashHeld(n) /\ DebtorsAreIn(n, mem) /\ IndexesInOrder(n) /\ AccruedInThePast(n, t)
    BY <1>1, <1>3 DEF CashHeld, DebtorsAreIn, IndexesInOrder, AccruedInThePast
  <1> QED
    BY <1>2, <1>3, <1>4, SoundMoney DEF n

LEMMA TransferInIsSound ==
    ASSUME NEW m, NEW mem, NEW t, Sound(m, mem, t), NEW amount \in Nat
    PROVE  Sound(DoTransferIn(m, amount), mem, t)
PROOF
  <1>1. /\ m.internalCash \in Nat /\ m.cashOnChain \in Nat /\ m.internalCash <= m.cashOnChain
    BY MoneyTypes DEF Sound, CashHeld
  <1> DEFINE onChain == m.cashOnChain + amount
             counted == m.internalCash + amount
  <1>2. DoTransferIn(m, amount) = [m EXCEPT !.cashOnChain = onChain, !.internalCash = counted]
    BY DEF DoTransferIn, Sound, MarketType
  <1>3. onChain \in Nat /\ counted \in Nat /\ counted <= onChain
    BY <1>1
  <1> HIDE DEF onChain, counted
  <1>4. Sound([m EXCEPT !.cashOnChain = onChain, !.internalCash = counted], mem, t)
    BY <1>3, CashIsSound
  <1> QED
    BY <1>2, <1>4

LEMMA TransferOutIsSound ==
    ASSUME NEW m, NEW mem, NEW t, Sound(m, mem, t), NEW amount \in Nat, amount <= m.internalCash
    PROVE  Sound(DoTransferOut(m, amount), mem, t)
PROOF
  <1>1. /\ m.internalCash \in Nat /\ m.cashOnChain \in Nat /\ m.internalCash <= m.cashOnChain
    BY MoneyTypes DEF Sound, CashHeld
  <1> DEFINE onChain == m.cashOnChain - amount
             counted == m.internalCash - amount
  <1>2. DoTransferOut(m, amount) = [m EXCEPT !.cashOnChain = onChain, !.internalCash = counted]
    BY DEF DoTransferOut, Sound, MarketType
  <1>3. onChain \in Nat /\ counted \in Nat /\ counted <= onChain
    BY <1>1
  <1> HIDE DEF onChain, counted
  <1>4. Sound([m EXCEPT !.cashOnChain = onChain, !.internalCash = counted], mem, t)
    BY <1>3, CashIsSound
  <1> QED
    BY <1>2, <1>4

LEMMA ReceivedType ==
    ASSUME NEW m \in MarketType, NEW amount \in Nat
    PROVE  Received(m, amount) \subseteq 0 .. amount
PROOF
  <1> SUFFICES ASSUME NEW actual \in Received(m, amount)
               PROVE  actual \in 0 .. amount
    OBVIOUS
  <1>1. PICK fee \in TransferFees : actual = amount - fee /\ fee <= amount
    BY DEF Received
  <1>2. fee \in Nat
    BY MarketAssumption
  <1> QED
    BY <1>1, <1>2

(***************************************************************************)
(* Debts.                                                                  *)
(***************************************************************************)
LEMMA SetAccountBorrowsIsSound ==
    ASSUME NEW m, NEW mem, NEW t, Sound(m, mem, t), NEW a \in Account, NEW principal \in Nat,
           NEW newMem, mem \subseteq newMem, principal > 0 => a \in newMem
    PROVE  Sound(SetAccountBorrows(m, a, principal), newMem, t)
PROOF
  <1> DEFINE borrows == [m.accountBorrows EXCEPT
                           ![a] = [principal |-> principal, interestIndex |-> m.borrowIndex]]
             n == [m EXCEPT !.accountBorrows = borrows]
  <1>1. /\ m \in MarketType /\ CashHeld(m) /\ DebtorsAreIn(m, mem) /\ IndexesInOrder(m)
        /\ AccruedInThePast(m, t)
    BY DEF Sound
  <1>2. borrows \in [Account -> BorrowSnapshot]
    BY <1>1 DEF MarketType, BorrowSnapshot
  <1>3. n \in MarketType
    <2> HIDE DEF borrows
    <2> QED
      BY <1>1, <1>2, FieldUpdates, Zenon
  <1>4. /\ TokensUnchanged(m, n) /\ CashHeld(n) /\ AccruedInThePast(n, t)
        /\ n.borrowIndex = m.borrowIndex /\ n.accountBorrows = borrows
    <2> HIDE DEF borrows
    <2> QED
      BY <1>1 DEF MarketType, TokensUnchanged, CashHeld, AccruedInThePast
  <1>5. n = SetAccountBorrows(m, a, principal)
    BY DEF SetAccountBorrows
  <1> HIDE DEF n
  <1>6. \A b \in Account : /\ m.accountBorrows[b].principal \in Nat
                           /\ m.accountBorrows[b].interestIndex \in Nat
    BY <1>1 DEF MarketType, BorrowSnapshot
  <1>7. /\ borrows[a].principal = principal /\ borrows[a].interestIndex = m.borrowIndex
        /\ \A b \in Account \ {a} : borrows[b] = m.accountBorrows[b]
    BY <1>1 DEF MarketType
  <1>8. mantissaOne \in Nat /\ m.borrowIndex \in Nat
    BY <1>1, MoneyTypes, ExpScaleAssumption DEF mantissaOne
  <1> HIDE DEF borrows
  <1>9. DebtorsAreIn(n, newMem)
    BY <1>1, <1>4, <1>7 DEF DebtorsAreIn
  <1>10. IndexesInOrder(n)
    BY <1>1, <1>4, <1>6, <1>7, <1>8 DEF IndexesInOrder
  <1> QED
    BY <1>3, <1>4, <1>5, <1>9, <1>10, SoundMoney

(* A debt of zero or a repayment of a part keeps the borrower where the    *)
(* debt is seen.                                                           *)
LEMMA BorrowersStay ==
    ASSUME NEW m, NEW mem, NEW t, Sound(m, mem, t), NEW a \in Account,
           BorrowBalanceStored(m, a) > 0
    PROVE  a \in mem
PROOF
  <1>1. m.accountBorrows[a].principal \in Nat
    BY DEF Sound, MarketType, BorrowSnapshot
  <1>2. m.accountBorrows[a].principal > 0
    BY <1>1, BorrowBalanceType
  <1> QED
    BY <1>2 DEF Sound, DebtorsAreIn

LEMMA RefreshIsSound ==
    ASSUME NEW m, NEW mem, NEW t, Sound(m, mem, t), NEW a \in Account,
           NEW newMem, mem \subseteq newMem
    PROVE  Sound(RefreshAccountBorrows(m, a), newMem, t)
BY SetAccountBorrowsIsSound, BorrowBalanceType, BorrowersStay DEF RefreshAccountBorrows

LEMMA BorrowIsSound ==
    ASSUME NEW m, NEW mem, NEW t, Sound(m, mem, t), NEW a \in Account, NEW amount \in Nat,
           amount <= m.internalCash, NEW newMem, mem \subseteq newMem, a \in newMem
    PROVE  Sound(BorrowFresh(m, a, amount), newMem, t)
PROOF
  <1> DEFINE m1 == SetAccountBorrows(m, a, BorrowBalanceStored(m, a) + amount)
             m2 == DoTransferOut(m1, amount)
             borrows == m2.totalBorrows + amount
  <1>1. BorrowBalanceStored(m, a) + amount \in Nat
    BY BorrowBalanceType
  <1>2. Sound(m1, newMem, t)
    BY <1>1, SetAccountBorrowsIsSound
  <1>3. m1.internalCash = m.internalCash
    BY DEF SetAccountBorrows, Sound, MarketType
  <1> HIDE DEF m1
  <1>4. Sound(m2, newMem, t)
    BY <1>2, <1>3, TransferOutIsSound
  <1>5. BorrowFresh(m, a, amount) = [m2 EXCEPT !.totalBorrows = borrows]
    BY DEF BorrowFresh, m1
  <1> HIDE DEF m2
  <1>6. borrows \in Nat
    BY <1>4, MoneyTypes DEF Sound
  <1> HIDE DEF borrows
  <1>7. Sound([m2 EXCEPT !.totalBorrows = borrows], newMem, t)
    BY <1>4, <1>6, OtherFieldsAreSound
  <1> QED
    BY <1>5, <1>7

LEMMA RepayBorrowIsSound ==
    ASSUME NEW m, NEW mem, NEW t, Sound(m, mem, t), NEW a \in Account, NEW amount \in Nat,
           ~RepayBorrowFreshReverts(m, a, amount)
    PROVE  Sound(RepayBorrowFresh(m, a, amount), mem, t)
PROOF
  <1> DEFINE left == BorrowBalanceStored(m, a) - amount
             m1 == SetAccountBorrows(m, a, left)
             m2 == DoTransferIn(m1, amount)
             borrows == m2.totalBorrows - amount
  <1>1. left \in Nat /\ (left > 0 => a \in mem)
    BY BorrowBalanceType, BorrowersStay DEF RepayBorrowFreshReverts
  <1> HIDE DEF left
  <1>2. Sound(m1, mem, t)
    BY <1>1, SetAccountBorrowsIsSound
  <1>3. m1.totalBorrows = m.totalBorrows
    BY DEF SetAccountBorrows, Sound, MarketType
  <1> HIDE DEF m1
  <1>4. Sound(m2, mem, t)
    BY <1>2, TransferInIsSound
  <1>5. m2.totalBorrows = m.totalBorrows
    BY <1>2, <1>3 DEF DoTransferIn, Sound, MarketType
  <1>6. RepayBorrowFresh(m, a, amount) = [m2 EXCEPT !.totalBorrows = borrows]
    BY DEF RepayBorrowFresh, m1, left
  <1> HIDE DEF m2
  <1>7. borrows \in Nat
    BY <1>4, <1>5, MoneyTypes DEF Sound, RepayBorrowFreshReverts
  <1> HIDE DEF borrows
  <1>8. Sound([m2 EXCEPT !.totalBorrows = borrows], mem, t)
    BY <1>4, <1>7, OtherFieldsAreSound
  <1> QED
    BY <1>6, <1>8

(***************************************************************************)
(* Reserves and unaccounted cash.                                          *)
(***************************************************************************)
LEMMA AddReservesIsSound ==
    ASSUME NEW m, NEW mem, NEW t, Sound(m, mem, t), NEW amount \in Nat
    PROVE  Sound(AddReservesFresh(m, amount), mem, t)
PROOF
  <1> DEFINE m1 == DoTransferIn(m, amount)
             reserves == m1.totalReserves + amount
  <1>1. Sound(m1, mem, t)
    BY TransferInIsSound
  <1>2. AddReservesFresh(m, amount) = [m1 EXCEPT !.totalReserves = reserves]
    BY DEF AddReservesFresh
  <1> HIDE DEF m1
  <1>3. reserves \in Nat
    BY <1>1, MoneyTypes DEF Sound
  <1> HIDE DEF reserves
  <1>4. Sound([m1 EXCEPT !.totalReserves = reserves], mem, t)
    BY <1>1, <1>3, OtherFieldsAreSound
  <1> QED
    BY <1>2, <1>4

LEMMA ReduceReservesIsSound ==
    ASSUME NEW m, NEW mem, NEW t, Sound(m, mem, t), NEW amount \in Nat,
           amount <= m.internalCash, amount <= m.totalReserves
    PROVE  Sound(ReduceReservesFresh(m, amount), mem, t)
PROOF
  <1> DEFINE m1 == DoTransferOut(m, amount)
             reserves == m1.totalReserves - amount
  <1>1. Sound(m1, mem, t)
    BY TransferOutIsSound
  <1>2. ReduceReservesFresh(m, amount) = [m1 EXCEPT !.totalReserves = reserves]
    BY DEF ReduceReservesFresh
  <1>3. m1.totalReserves = m.totalReserves
    BY DEF DoTransferOut, Sound, MarketType
  <1> HIDE DEF m1
  <1>4. reserves \in Nat
    BY <1>1, <1>3, MoneyTypes DEF Sound
  <1> HIDE DEF reserves
  <1>5. Sound([m1 EXCEPT !.totalReserves = reserves], mem, t)
    BY <1>1, <1>4, OtherFieldsAreSound
  <1> QED
    BY <1>2, <1>5

(* The internal cash may be set to any part of what is on chain. *)
LEMMA CountCashIsSound ==
    ASSUME NEW m, NEW mem, NEW t, Sound(m, mem, t), NEW counted \in Nat, counted <= m.cashOnChain
    PROVE  Sound([m EXCEPT !.internalCash = counted], mem, t)
PROOF
  <1>1. m.cashOnChain \in Nat
    BY MoneyTypes DEF Sound
  <1>2. [m EXCEPT !.internalCash = counted]
          = [m EXCEPT !.cashOnChain = m.cashOnChain, !.internalCash = counted]
    BY DEF Sound, MarketType
  <1> QED
    BY <1>1, <1>2, CashIsSound

LEMMA GulpIsSound ==
    ASSUME NEW m, NEW mem, NEW t, Sound(m, mem, t)
    PROVE  Sound(Gulp(m), mem, t)
PROOF
  <1> DEFINE reserves == m.totalReserves + (m.cashOnChain - m.internalCash)
             m1 == [m EXCEPT !.totalReserves = reserves]
  <1>1. reserves \in Nat
    BY MoneyTypes DEF Sound, CashHeld
  <1>2. Gulp(m) = [m1 EXCEPT !.internalCash = m1.cashOnChain]
    BY DEF Gulp, Sound, MarketType
  <1> HIDE DEF reserves
  <1>3. Sound(m1, mem, t)
    BY <1>1, OtherFieldsAreSound
  <1> HIDE DEF m1
  <1>4. m1.cashOnChain \in Nat /\ m1.cashOnChain <= m1.cashOnChain
    BY <1>3, MoneyTypes DEF Sound
  <1> QED
    BY <1>2, <1>3, <1>4, CountCashIsSound

(***************************************************************************)
(* Mint and redeem.                                                        *)
(***************************************************************************)

(* The tokens of one account and the supply change by the same amount.     *)
LEMMA BalanceAndSupply ==
    ASSUME NEW m \in MarketType, SupplyAddsUp(m), NEW a \in Account, NEW change \in Int,
           m.totalSupply + change \in Nat, m.accountTokens[a] + change \in Nat
    PROVE  LET n == [m EXCEPT !.totalSupply = m.totalSupply + change,
                              !.accountTokens = [m.accountTokens EXCEPT ![a] = @ + change]]
           IN  /\ n \in MarketType
               /\ SupplyAddsUp(n)
               /\ MoneyUnchanged(m, n)
               /\ n.accountTokens = [m.accountTokens EXCEPT ![a] = @ + change]
               /\ n.accountCollateralTokens = m.accountCollateralTokens
               /\ n.totalCollateralTokens = m.totalCollateralTokens
PROOF
  <1> DEFINE supply == m.totalSupply + change
             tokens == [m.accountTokens EXCEPT ![a] = @ + change]
             n == [m EXCEPT !.totalSupply = supply, !.accountTokens = tokens]
  <1>1. /\ m.accountTokens \in Balances /\ m.accountTokens[a] \in Nat
        /\ m.totalSupply \in Nat
    BY FieldTypes
  <1>2. /\ tokens \in Balances
        /\ Total(tokens) = supply
    <2>1. /\ tokens \in Balances
          /\ Total(tokens) = Total(m.accountTokens) - m.accountTokens[a]
                               + (m.accountTokens[a] + change)
      BY <1>1, TotalOfUpdate
    <2> HIDE DEF tokens
    <2> QED
      BY <1>1, <2>1 DEF SupplyAddsUp
  <1>3. supply \in Nat
    OBVIOUS
  <1> HIDE DEF supply, tokens
  <1>4. n \in MarketType
    BY <1>2, <1>3, FieldUpdates, Zenon DEF Balances
  <1>5. /\ MoneyUnchanged(m, n) /\ n.totalSupply = supply /\ n.accountTokens = tokens
        /\ n.accountCollateralTokens = m.accountCollateralTokens
        /\ n.totalCollateralTokens = m.totalCollateralTokens
    BY DEF MarketType, MoneyUnchanged
  <1> HIDE DEF n
  <1>6. SupplyAddsUp(n)
    BY <1>2, <1>5 DEF SupplyAddsUp
  <1> QED
    BY <1>4, <1>5, <1>6 DEF n, supply, tokens

LEMMA MintIsSound ==
    ASSUME NEW m, NEW mem, NEW t, Sound(m, mem, t), NEW a \in Account, NEW amount \in Nat,
           NEW isMember \in BOOLEAN, ~MintFreshReverts(m)
    PROVE  Sound(MintFresh(m, a, amount, isMember), mem, t)
PROOF
  <1> DEFINE minted == MintTokens(m, amount)
             m1 == DoTransferIn(m, amount)
             tokens == [m1.accountTokens EXCEPT ![a] = @ + minted]
             m2 == [m1 EXCEPT !.totalSupply = m1.totalSupply + minted, !.accountTokens = tokens]
  <1>1. minted \in Nat
    <2>1. ExchangeRateStored(m) \in Nat \ {0}
      BY ExchangeRateType DEF MintFreshReverts, Sound
    <2> QED
      BY <2>1, DivScalarByExpTruncateType DEF MintTokens
  <1> HIDE DEF minted
  <1>2. Sound(m1, mem, t)
    BY TransferInIsSound
  <1>3. MintFresh(m, a, amount, isMember)
          = IF isMember THEN IncreaseUserCollateral(m2, a, minted) ELSE m2
    BY DEF MintFresh, minted, DoTransferIn, Sound, MarketType
  <1> HIDE DEF m1
  <1>4. /\ m1 \in MarketType /\ SupplyAddsUp(m1) /\ CollateralHeld(m1) /\ CollateralCounted(m1)
    BY <1>2 DEF Sound
  <1>5. /\ m1.totalSupply \in Nat /\ m1.accountTokens \in Balances
        /\ m1.accountCollateralTokens \in Balances
        /\ minted \in Int
        /\ m1.totalSupply + minted \in Nat /\ m1.accountTokens[a] + minted \in Nat
    BY <1>1, <1>4, FieldTypes
  <1>6. /\ m2 \in MarketType /\ SupplyAddsUp(m2) /\ MoneyUnchanged(m1, m2)
        /\ m2.accountTokens = tokens
        /\ m2.accountCollateralTokens = m1.accountCollateralTokens
        /\ m2.totalCollateralTokens = m1.totalCollateralTokens
    BY <1>1, <1>4, <1>5, BalanceAndSupply, ZenonT(60)
  <1> HIDE DEF m2
  <1>7. \A b \in Account : /\ m2.accountCollateralTokens[b] <= m2.accountTokens[b]
                           /\ b = a => m2.accountCollateralTokens[b] + minted <= m2.accountTokens[b]
    BY <1>1, <1>4, <1>5, <1>6, SMTT(30) DEF CollateralHeld, Balances
  <1>8. CollateralHeld(m2) /\ CollateralCounted(m2)
    BY <1>4, <1>6, <1>7 DEF CollateralHeld, CollateralCounted
  <1>9. Sound(m2, mem, t)
    BY <1>2, <1>6, <1>8, SoundTokens
  <1>10. Sound(IncreaseUserCollateral(m2, a, minted), mem, t)
    BY <1>1, <1>7, <1>9, IncreaseIsSound
  <1> QED
    BY <1>3, <1>9, <1>10

(* What a redemption burns and pays are amounts. *)
LEMMA RedeemTypes ==
    ASSUME NEW m \in MarketType, NEW tokensIn \in Nat, NEW amountIn \in Nat,
           ~RedeemTokensReverts(m, tokensIn)
    PROVE  /\ RedeemTokens(m, tokensIn, amountIn) \in Nat
           /\ RedeemAmount(m, tokensIn, amountIn) \in Nat
PROOF
  <1>1. /\ ExchangeRateStored(m) \in Nat
        /\ tokensIn = 0 => ExchangeRateStored(m) \in Nat \ {0}
    BY ExchangeRateType DEF RedeemTokensReverts
  <1>2. RedeemTokens(m, tokensIn, amountIn) \in Nat
    BY <1>1, DivScalarByExpTruncateType DEF RedeemTokens
  <1>3. RedeemAmount(m, tokensIn, amountIn) \in Nat
    BY <1>1, MulScalarTruncateType DEF RedeemAmount
  <1> QED
    BY <1>2, <1>3

(* The buffer is spent first: taking tokens tokens, and their part of the  *)
(* collateral, leaves an account with no more collateral than tokens.      *)
LEMMA CollateralPart ==
    ASSUME NEW m \in MarketType, CollateralHeld(m), NEW a \in Account, NEW tokens \in Nat,
           tokens <= m.accountTokens[a]
    PROVE  /\ CollateralTokensOf(m, a, tokens) \in 0 .. tokens
           /\ CollateralTokensOf(m, a, tokens) <= m.accountCollateralTokens[a]
           /\ m.accountCollateralTokens[a] - CollateralTokensOf(m, a, tokens)
                <= m.accountTokens[a] - tokens
BY FieldTypes DEF CollateralHeld, CollateralTokensOf, BufferTokens

LEMMA RedeemIsSound ==
    ASSUME NEW m, NEW mem, NEW t, Sound(m, mem, t), NEW a \in Account,
           NEW tokens \in Nat, NEW amount \in Nat, amount <= m.internalCash,
           ~RedeemFreshReverts(m, a, tokens, amount)
    PROVE  Sound(RedeemFresh(m, a, tokens, amount), mem, t)
PROOF
  <1> DEFINE taken == CollateralTokensOf(m, a, tokens)
             m1 == DoTransferOut(m, amount)
             left == [m1.accountTokens EXCEPT ![a] = @ + (0 - tokens)]
             m2 == [m1 EXCEPT !.totalSupply = m1.totalSupply + (0 - tokens),
                              !.accountTokens = left]
             n == DecreaseUserCollateral(m2, a, taken)
  <1>1. /\ m \in MarketType /\ CollateralHeld(m)
        /\ tokens <= m.accountTokens[a] /\ tokens <= m.totalSupply
        /\ ~DecreaseUserCollateralReverts(m, a, taken)
    BY FieldTypes DEF RedeemFreshReverts, Sound
  <1>2. /\ taken \in Nat
        /\ m.accountCollateralTokens[a] - taken <= m.accountTokens[a] - tokens
    BY <1>1, CollateralPart
  <1> HIDE DEF taken
  <1>3. Sound(m1, mem, t)
    BY TransferOutIsSound
  <1>4. TokensUnchanged(m, m1)
    BY <1>1 DEF DoTransferOut, MarketType, TokensUnchanged
  <1>5. n = RedeemFresh(m, a, tokens, amount)
    <2>1. m2 = RedeemPaidOut(m, a, tokens, amount)
      <3>1. m1.totalSupply \in Nat /\ m1.accountTokens[a] \in Nat
        BY <1>3, FieldTypes DEF Sound
      <3>2. /\ m1.totalSupply + (0 - tokens) = m1.totalSupply - tokens
            /\ m1.accountTokens[a] + (0 - tokens) = m1.accountTokens[a] - tokens
        BY <3>1
      <3> QED
        BY <1>3, <3>2 DEF RedeemPaidOut, DoTransferOut, Sound, MarketType
    <2> QED
      BY <2>1 DEF RedeemFresh, taken
  <1> HIDE DEF m1
  <1>6. /\ m1 \in MarketType /\ SupplyAddsUp(m1) /\ CollateralHeld(m1) /\ CollateralCounted(m1)
    BY <1>3 DEF Sound
  <1>7. /\ m1.totalSupply \in Nat /\ m1.accountTokens \in Balances
        /\ m1.accountCollateralTokens \in Balances
        /\ 0 - tokens \in Int
        /\ m1.totalSupply + (0 - tokens) \in Nat /\ m1.accountTokens[a] + (0 - tokens) \in Nat
    BY <1>1, <1>4, <1>6, FieldTypes DEF TokensUnchanged
  <1>8. /\ m2 \in MarketType /\ SupplyAddsUp(m2) /\ MoneyUnchanged(m1, m2)
        /\ m2.accountTokens = left
        /\ m2.accountCollateralTokens = m1.accountCollateralTokens
        /\ m2.totalCollateralTokens = m1.totalCollateralTokens
    BY <1>6, <1>7, BalanceAndSupply, ZenonT(60)
  <1> HIDE DEF m2
  <1>9. CollateralCounted(m2) /\ ~DecreaseUserCollateralReverts(m2, a, taken)
    BY <1>1, <1>4, <1>6, <1>8, SMTT(30)
    DEF CollateralCounted, DecreaseUserCollateralReverts, TokensUnchanged
  <1>10. /\ n \in MarketType /\ MoneyUnchanged(m2, n) /\ CollateralCounted(n)
         /\ n.totalSupply = m2.totalSupply /\ n.accountTokens = m2.accountTokens
         /\ n.accountCollateralTokens = [m2.accountCollateralTokens EXCEPT ![a] = @ - taken]
    BY <1>2, <1>8, <1>9, DecreaseEffect
  <1> HIDE DEF n
  <1>11. SupplyAddsUp(n) /\ MoneyUnchanged(m1, n)
    BY <1>8, <1>10 DEF SupplyAddsUp, MoneyUnchanged
  <1>12. CollateralHeld(n)
    <2>1. /\ n.accountTokens = left
          /\ n.accountCollateralTokens = [m1.accountCollateralTokens EXCEPT ![a] = @ - taken]
      BY <1>8, <1>10
    <2>2. /\ m1.accountCollateralTokens[a] - taken <= m1.accountTokens[a] - tokens
          /\ \A b \in Account : m1.accountTokens[b] \in Nat /\ m1.accountCollateralTokens[b] \in Nat
      BY <1>2, <1>4, <1>6, FieldTypes DEF TokensUnchanged
    <2> QED
      BY <1>2, <1>6, <1>7, <2>1, <2>2 DEF CollateralHeld, Balances
  <1> QED
    BY <1>3, <1>5, <1>10, <1>11, <1>12, SoundTokens

(***************************************************************************)
(* Moving tokens between accounts.                                         *)
(***************************************************************************)

LEMMA MovedBalances ==
    ASSUME NEW f \in Balances, NEW a \in Account, NEW b \in Account, a # b,
           NEW paid \in Nat, NEW got \in Nat, paid <= f[a]
    PROVE  LET g == Moved(f, a, paid, b, got)
           IN  /\ g \in Balances
               /\ Total(g) = Total(f) - paid + got
               /\ g[a] = f[a] - paid /\ g[b] = f[b] + got
               /\ \A c \in Account \ {a, b} : g[c] = f[c]
PROOF
  <1> DEFINE f1 == [f EXCEPT ![a] = @ - paid]
             f2 == [f1 EXCEPT ![b] = @ + got]
  <1>1. f[a] \in Nat /\ f[b] \in Nat /\ f[a] - paid \in Nat
    BY DEF Balances
  <1>2. Total(f) \in Nat
    BY TotalType
  <1>3. f1 \in Balances /\ Total(f1) = Total(f) - f[a] + (f[a] - paid)
    BY <1>1, TotalOfUpdate
  <1>4. f1[a] = f[a] - paid /\ \A c \in Account \ {a} : f1[c] = f[c]
    BY DEF Balances
  <1> HIDE DEF f1
  <1>5. f1[b] \in Nat /\ f1[b] + got \in Nat
    BY <1>1, <1>4
  <1>6. f2 \in Balances /\ Total(f2) = Total(f1) - f1[b] + (f1[b] + got)
    BY <1>3, <1>5, TotalOfUpdate
  <1>7. f2[b] = f1[b] + got /\ \A c \in Account \ {b} : f2[c] = f1[c]
    BY <1>3 DEF Balances
  <1>8. f2 = Moved(f, a, paid, b, got)
    BY DEF f1, Moved
  <1> HIDE DEF f2
  <1>9. Total(f2) = Total(f) - paid + got
    BY <1>1, <1>2, <1>3, <1>5, <1>6
  <1> QED
    BY <1>4, <1>6, <1>7, <1>8, <1>9

(* A move of tokens, and of a part of them that is collateral, keeps the   *)
(* bookkeeping when at most burnt of the tokens disappear.                 *)
LEMMA MoveIsSound ==
    ASSUME NEW m, NEW mem, NEW t, Sound(m, mem, t),
           NEW a \in Account, NEW b \in Account, a # b,
           NEW tokens \in Nat, tokens <= m.accountTokens[a], NEW burnt \in 0 .. tokens,
           NEW taken \in Nat, taken <= m.accountCollateralTokens[a],
           m.accountCollateralTokens[a] - taken <= m.accountTokens[a] - tokens,
           NEW given \in 0 .. taken, given <= tokens - burnt,
           NEW n \in MarketType, MoneyUnchanged(m, n),
           n.accountTokens = Moved(m.accountTokens, a, tokens, b, tokens - burnt),
           n.accountCollateralTokens = Moved(m.accountCollateralTokens, a, taken, b, given),
           n.totalSupply = m.totalSupply - burnt,
           n.totalCollateralTokens = m.totalCollateralTokens
    PROVE  Sound(n, mem, t)
PROOF
  <1>1. m \in MarketType /\ SupplyAddsUp(m) /\ CollateralHeld(m) /\ CollateralCounted(m)
    BY DEF Sound
  <1>2. /\ m.accountTokens \in Balances /\ m.accountCollateralTokens \in Balances
        /\ m.totalSupply \in Nat /\ m.totalCollateralTokens \in Nat
        /\ \A c \in Account : m.accountTokens[c] \in Nat /\ m.accountCollateralTokens[c] \in Nat
    BY <1>1, FieldTypes
  <1>3. tokens - burnt \in Nat /\ given \in Nat
    OBVIOUS
  <1>4. /\ Total(n.accountTokens) = Total(m.accountTokens) - tokens + (tokens - burnt)
        /\ n.accountTokens[a] = m.accountTokens[a] - tokens
        /\ n.accountTokens[b] = m.accountTokens[b] + (tokens - burnt)
        /\ \A c \in Account \ {a, b} : n.accountTokens[c] = m.accountTokens[c]
    <2> DEFINE before == m.accountTokens
               got == tokens - burnt
    <2>1. before \in Balances /\ tokens <= before[a] /\ got \in Nat
      BY <1>2, <1>3
    <2>2. n.accountTokens = Moved(before, a, tokens, b, got)
      OBVIOUS
    <2> HIDE DEF before, got
    <2>3. /\ Total(n.accountTokens) = Total(before) - tokens + got
          /\ n.accountTokens[a] = before[a] - tokens /\ n.accountTokens[b] = before[b] + got
          /\ \A c \in Account \ {a, b} : n.accountTokens[c] = before[c]
      BY <2>1, <2>2, MovedBalances
    <2> QED
      BY <2>3 DEF before, got
  <1>5. /\ Total(n.accountCollateralTokens) = Total(m.accountCollateralTokens) - taken + given
        /\ n.accountCollateralTokens[a] = m.accountCollateralTokens[a] - taken
        /\ n.accountCollateralTokens[b] = m.accountCollateralTokens[b] + given
        /\ \A c \in Account \ {a, b} :
              n.accountCollateralTokens[c] = m.accountCollateralTokens[c]
    <2> DEFINE before == m.accountCollateralTokens
    <2>1. before \in Balances /\ taken <= before[a] /\ given \in Nat
      BY <1>2, <1>3
    <2>2. n.accountCollateralTokens = Moved(before, a, taken, b, given)
      OBVIOUS
    <2> HIDE DEF before
    <2>3. /\ Total(n.accountCollateralTokens) = Total(before) - taken + given
          /\ n.accountCollateralTokens[a] = before[a] - taken /\ n.accountCollateralTokens[b] = before[b] + given
          /\ \A c \in Account \ {a, b} : n.accountCollateralTokens[c] = before[c]
      BY <2>1, <2>2, MovedBalances
    <2> QED
      BY <2>3 DEF before
  <1>6. SupplyAddsUp(n)
    BY <1>1, <1>2, <1>4 DEF SupplyAddsUp
  <1>7. CollateralHeld(n)
    BY <1>1, <1>2, <1>4, <1>5 DEF CollateralHeld
  <1>8. CollateralCounted(n)
    <2>1. Total(m.accountCollateralTokens) \in Nat
      BY <1>2, TotalType
    <2> QED
      BY <1>1, <1>2, <1>3, <1>5, <2>1 DEF CollateralCounted
  <1> QED
    BY <1>6, <1>7, <1>8, SoundTokens

LEMMA SeizeIsSound ==
    ASSUME NEW m, NEW mem, NEW t, Sound(m, mem, t),
           NEW liquidator \in Account, NEW borrower \in Account, liquidator # borrower,
           NEW tokens \in Nat, ~SeizeInternalReverts(m, borrower, tokens)
    PROVE  Sound(SeizeInternal(m, liquidator, borrower, tokens), mem, t)
PROOF
  <1> DEFINE burnt == MulUIntExp(tokens, m.protocolSeizeShareMantissa)
             got == tokens - burnt
             balances == Moved(m.accountTokens, borrower, tokens, liquidator, got)
             collateral == Moved(m.accountCollateralTokens, borrower, tokens, liquidator, got)
             reserves == m.totalReserves + MulScalarTruncate(ExchangeRateStored(m), burnt)
             supply == m.totalSupply - burnt
             n == [m EXCEPT !.accountTokens = balances, !.accountCollateralTokens = collateral,
                            !.totalReserves = reserves, !.totalSupply = supply]
  <1>1. m \in MarketType /\ SupplyAddsUp(m) /\ CollateralHeld(m)
    BY DEF Sound
  <1>2. burnt \in 0 .. tokens
    <2>1. m.protocolSeizeShareMantissa \in 0 .. expScale
      BY <1>1, MarketAssumption, ExpScaleAssumption DEF MarketType
    <2> QED
      BY <2>1, MulUIntExpBound
  <1>3. n = SeizeInternal(m, liquidator, borrower, tokens)
    BY DEF SeizeInternal
  <1>4. /\ m.accountTokens \in Balances /\ m.accountCollateralTokens \in Balances
        /\ m.accountTokens[borrower] \in Nat /\ m.accountCollateralTokens[borrower] \in Nat
        /\ m.totalSupply \in Nat /\ m.totalReserves \in Nat
    BY <1>1, FieldTypes, MoneyTypes
  <1>5. reserves \in Nat
    <2>1. ExchangeRateStored(m) \in Nat
      BY <1>1, ExchangeRateType DEF SeizeInternalReverts
    <2>2. MulScalarTruncate(ExchangeRateStored(m), burnt) \in Nat
      BY <1>2, <2>1, MulScalarTruncateType
    <2> HIDE DEF burnt
    <2> QED
      BY <1>4, <2>2
  <1> HIDE DEF burnt
  <1>6. got \in Nat /\ got \in 0 .. tokens /\ got <= tokens - burnt
    BY <1>2
  <1>7. tokens <= m.accountTokens[borrower] /\ tokens <= m.accountCollateralTokens[borrower]
    BY <1>4 DEF SeizeInternalReverts
  <1>8. supply \in Nat
    <2>1. m.accountTokens[borrower] <= m.totalSupply
      BY <1>1, <1>4, BalanceWithinTotal DEF SupplyAddsUp
    <2> QED
      BY <1>2, <1>4, <1>7, <2>1
  <1>9. balances \in Balances /\ collateral \in Balances
    <2> HIDE DEF got
    <2> QED
      BY <1>4, <1>6, <1>7, MovedBalances
  <1>10. n \in MarketType
    <2> HIDE DEF balances, collateral, reserves, supply
    <2> QED
      BY <1>1, <1>5, <1>8, <1>9, FieldUpdates, Zenon DEF Balances
  <1>11. /\ MoneyUnchanged(m, n) /\ n.accountTokens = balances
         /\ n.accountCollateralTokens = collateral /\ n.totalSupply = supply
         /\ n.totalCollateralTokens = m.totalCollateralTokens
    <2> HIDE DEF balances, collateral, reserves, supply
    <2> QED
      BY <1>1 DEF MarketType, MoneyUnchanged
  <1>12. m.accountCollateralTokens[borrower] - tokens <= m.accountTokens[borrower] - tokens
    BY <1>1, <1>4 DEF CollateralHeld
  <1> HIDE DEF n
  <1>13. Sound(n, mem, t)
    BY <1>2, <1>6, <1>7, <1>10, <1>11, <1>12, MoveIsSound
  <1> QED
    BY <1>3, <1>13

LEMMA TransferIsSound ==
    ASSUME NEW m, NEW mem, NEW t, Sound(m, mem, t), NEW spender \in Account,
           NEW src \in Account, NEW dst \in Account, src # dst,
           NEW tokens \in Nat, ~TransferTokensReverts(m, spender, src, tokens)
    PROVE  Sound(TransferTokens(m, spender, src, dst, tokens), mem, t)
PROOF
  <1> DEFINE taken == CollateralTokensOf(m, src, tokens)
             balances == Moved(m.accountTokens, src, tokens, dst, tokens)
             collateral == Moved(m.accountCollateralTokens, src, taken, dst, taken)
             allowances == AllowancesAfter(m, spender, src, tokens)
             n == [m EXCEPT !.accountTokens = balances, !.accountCollateralTokens = collateral,
                            !.transferAllowances = allowances]
  <1>1. m \in MarketType /\ SupplyAddsUp(m) /\ CollateralHeld(m)
    BY DEF Sound
  <1>2. /\ m.accountTokens \in Balances /\ m.accountCollateralTokens \in Balances
        /\ m.accountTokens[src] \in Nat /\ m.accountCollateralTokens[src] \in Nat
        /\ m.totalSupply \in Nat
    BY <1>1, FieldTypes
  <1>3. tokens <= m.accountTokens[src]
    BY <1>2 DEF TransferTokensReverts
  <1>4. /\ taken \in 0 .. tokens /\ taken \in Nat
        /\ taken <= m.accountCollateralTokens[src]
        /\ m.accountCollateralTokens[src] - taken <= m.accountTokens[src] - tokens
    BY <1>1, <1>3, CollateralPart
  <1>5. allowances \in [Account -> [Account -> Nat \cup {UIntMax}]]
    <2>1. m.transferAllowances \in [Account -> [Account -> Nat \cup {UIntMax}]]
      BY <1>1 DEF MarketType
    <2> DEFINE allowance == m.transferAllowances[src][spender]
               newAllowance == IF spender = src \/ allowance = UIntMax THEN allowance
                               ELSE allowance - tokens
    <2>2. newAllowance \in Nat \cup {UIntMax}
      BY <2>1 DEF TransferTokensReverts, UIntMax
    <2>3. allowances = [m.transferAllowances EXCEPT ![src][spender] = newAllowance]
      BY DEF AllowancesAfter
    <2> HIDE DEF newAllowance, allowances
    <2> QED
      BY <2>1, <2>2, <2>3
  <1>6. n = TransferTokens(m, spender, src, dst, tokens)
    BY DEF TransferTokens
  <1> HIDE DEF taken, allowances
  <1>7. balances \in Balances /\ collateral \in Balances
    BY <1>2, <1>3, <1>4, MovedBalances
  <1>8. n \in MarketType
    <2> HIDE DEF balances, collateral
    <2> QED
      BY <1>1, <1>5, <1>7, FieldUpdates, Zenon DEF Balances
  <1>9. /\ MoneyUnchanged(m, n) /\ n.accountTokens = balances
        /\ n.accountCollateralTokens = collateral /\ n.totalSupply = m.totalSupply
        /\ n.totalCollateralTokens = m.totalCollateralTokens
    <2> HIDE DEF balances, collateral
    <2> QED
      BY <1>1 DEF MarketType, MoneyUnchanged
  <1> HIDE DEF n
  <1> DEFINE burnt == 0
  <1>10. burnt \in 0 .. tokens /\ tokens - burnt = tokens /\ m.totalSupply - burnt = m.totalSupply
    BY <1>2
  <1>11. taken \in 0 .. taken /\ taken <= tokens
    BY <1>4
  <1> HIDE DEF burnt
  <1>12. Sound(n, mem, t)
    BY <1>3, <1>4, <1>8, <1>9, <1>10, <1>11, MoveIsSound
  <1> QED
    BY <1>6, <1>12

(***************************************************************************)
(* The storage after initialize().                                         *)
(***************************************************************************)
LEMMA EmptyMarketType ==
    InitializedMarket(0) \in MarketType
PROOF
  <1>1. /\ mantissaOne \in Nat
        /\ 0 \in 0 .. reserveFactorMaxMantissa /\ 0 \in 0 .. protocolSeizeShareMaxMantissa
    BY ExpScaleAssumption, MarketAssumption DEF mantissaOne
  <1> QED
    BY <1>1 DEF InitializedMarket, MarketType, BorrowSnapshot

LEMMA EmptyMarketIsSound ==
    ASSUME NEW mem
    PROVE  Sound(InitializedMarket(0), mem, 0)
PROOF
  <1> DEFINE none == [a \in Account |-> 0]
             m == InitializedMarket(0)
  <1>1. /\ m.accountTokens = none /\ m.totalSupply = 0
        /\ m.accountCollateralTokens = none /\ m.totalCollateralTokens = 0
        /\ m.internalCash = 0 /\ m.cashOnChain = 0
        /\ m.borrowIndex = mantissaOne /\ m.accrualBlockTimestamp = 0
        /\ \A a \in Account : m.accountBorrows[a].principal = 0
    BY DEF InitializedMarket
  <1>2. m \in MarketType
    BY EmptyMarketType
  <1>3. Total(none) = 0
    BY TotalOfNothing
  <1>4. CollateralHeld(m)
    <2>1. \A a \in Account : none[a] <= none[a]
      OBVIOUS
    <2> QED
      BY <1>1, <2>1 DEF CollateralHeld
  <1> HIDE DEF m, none
  <1>5. SupplyAddsUp(m) /\ CollateralCounted(m)
    BY <1>1, <1>3 DEF SupplyAddsUp, CollateralCounted
  <1>6. CashHeld(m) /\ DebtorsAreIn(m, mem) /\ AccruedInThePast(m, 0)
    BY <1>1 DEF CashHeld, DebtorsAreIn, AccruedInThePast
  <1>7. IndexesInOrder(m)
    BY <1>1, ExpScaleAssumption DEF IndexesInOrder, mantissaOne
  <1> QED
    BY <1>2, <1>4, <1>5, <1>6, <1>7 DEF Sound, m

(***************************************************************************)
(* What the callers of the functions need.                                 *)
(***************************************************************************)
(* What is asked of the payer is an amount. *)
LEMMA RepayAmountType ==
    ASSUME NEW m, NEW mem, NEW t, Sound(m, mem, t), NEW a \in Account,
           NEW repayAmount \in Nat \cup {UIntMax}
    PROVE  RepayAmount(m, a, repayAmount) \in Nat
BY BorrowBalanceType DEF RepayAmount, UIntMax

(* Registering and unregistering do not touch the debts. *)
LEMMA UnregisterKeepsDebts ==
    ASSUME NEW m \in MarketType, NEW a \in Account, NEW isMember \in BOOLEAN
    PROVE  UnregisterCollateral(m, a, isMember).accountBorrows = m.accountBorrows
PROOF
  <1> DEFINE m1 == InitializeAccountCollateralTokens(m, a, isMember)
  <1>1. m1.accountBorrows = m.accountBorrows
    BY DEF InitializeAccountCollateralTokens, MarketType
  <1> HIDE DEF m1
  <1>2. \A amount : DecreaseUserCollateral(m1, a, amount).accountBorrows = m1.accountBorrows
    BY DEF DecreaseUserCollateral
  <1> QED
    BY <1>1, <1>2 DEF UnregisterCollateral, m1

================================================================================
