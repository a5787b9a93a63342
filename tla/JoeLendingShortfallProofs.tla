--------------------------- MODULE JoeLendingShortfallProofs -----------------------
(***************************************************************************)
(* Who had no shortfall gets none by what anybody does.                    *)
(*                                                                         *)
(* The sums of a liquidity check run over an array of markets; since an    *)
(* array has no market twice, they are sums over a set of markets (Worth). *)
(***************************************************************************)
EXTENDS JoeLendingRefinement

--------------------------------------------------------------------------------
(***************************************************************************)
(* Truncated quotients.                                                    *)
(***************************************************************************)
LEMMA QuotientOfInt ==
    ASSUME NEW p \in Int, NEW s \in Nat \ {0}
    PROVE  /\ p \div s \in Int
           /\ s * (p \div s) <= p /\ p < s * ((p \div s) + 1)
OBVIOUS

LEMMA IntProductIsMonotonic ==
    ASSUME NEW p \in Int, NEW q \in Int, NEW n \in Nat, p <= q
    PROVE  p * n \in Int /\ q * n \in Int /\ p * n <= q * n
PROOF
  <1>1. PICK d \in Nat : q = p + d
    <2>1. q - p \in Nat /\ q = p + (q - p)
      OBVIOUS
    <2> QED
      BY <2>1
  <1>2. (p + d) * n = p * n + d * n
    OBVIOUS
  <1>3. d * n \in Nat /\ p * n \in Int /\ q * n \in Int
    OBVIOUS
  <1> QED
    BY <1>1, <1>2, <1>3

(* Whole multiples of a divisor compare like their factors. *)
LEMMA MultiplesInOrder ==
    ASSUME NEW x \in Int, NEW y \in Int, NEW s \in Nat \ {0}, s * x < s * y
    PROVE  x < y
PROOF
  <1>1. SUFFICES ASSUME y <= x PROVE FALSE
    OBVIOUS
  <1>2. y * s <= x * s
    BY <1>1, IntProductIsMonotonic
  <1>3. y * s = s * y /\ x * s = s * x /\ s * x \in Int /\ s * y \in Int
    OBVIOUS
  <1> QED
    BY <1>2, <1>3

LEMMA QuotientIsMonotonic ==
    ASSUME NEW p \in Int, NEW q \in Int, NEW s \in Nat \ {0}, p <= q
    PROVE  p \div s \in Int /\ q \div s \in Int /\ p \div s <= q \div s
PROOF
  <1> DEFINE x == p \div s
             y == q \div s
  <1>1. /\ x \in Int /\ y \in Int
        /\ s * x <= p /\ q < s * (y + 1)
    BY QuotientOfInt
  <1>2. s * x \in Int /\ s * (y + 1) \in Int
    BY <1>1
  <1> HIDE DEF x, y
  <1>3. s * x < s * (y + 1)
    BY <1>1, <1>2
  <1>4. x < y + 1
    BY <1>1, <1>3, MultiplesInOrder
  <1> QED
    BY <1>1, <1>4 DEF x, y

(* Truncating a sum loses at most one against truncating its parts. *)
LEMMA QuotientOfSum ==
    ASSUME NEW p \in Int, NEW q \in Int, NEW s \in Nat \ {0}
    PROVE  (p + q) \div s \in Int /\ (p + q) \div s <= (p \div s) + (q \div s) + 1
PROOF
  <1> DEFINE x == p \div s
             y == q \div s
             z == (p + q) \div s
  <1>1. /\ x \in Int /\ y \in Int /\ z \in Int
        /\ p < s * (x + 1) /\ q < s * (y + 1) /\ s * z <= p + q
    BY QuotientOfInt
  <1> HIDE DEF x, y, z
  <1>2. s * (x + 1) \in Int /\ s * (y + 1) \in Int /\ s * z \in Int
    BY <1>1
  <1>3. s * (x + y + 2) = s * (x + 1) + s * (y + 1)
    BY <1>1
  <1>4. s * z < s * (x + y + 2)
    BY <1>1, <1>2, <1>3
  <1>5. z < x + y + 2
    BY <1>1, <1>4, MultiplesInOrder
  <1> QED
    BY <1>1, <1>5 DEF x, y, z

--------------------------------------------------------------------------------
(***************************************************************************)
(* Sums over a set of markets.  A negative amount counts as none.          *)
(***************************************************************************)
Part(j, f) == {j} \X (1 .. f[j])

Parts(S, f) == UNION { Part(j, f) : j \in S }

Worth(S, f) == Cardinality(Parts(S, f))

LEMMA PartIsFinite ==
    ASSUME NEW j, NEW f, f[j] \in Int
    PROVE  /\ IsFiniteSet(Part(j, f))
           /\ f[j] \in Nat => Cardinality(Part(j, f)) = f[j]
PROOF
  <1> DEFINE n == f[j]
  <1>1. n \in Int
    OBVIOUS
  <1> HIDE DEF n
  <1>2. IsFiniteSet(1 .. n) /\ Cardinality(1 .. n) = IF 1 > n THEN 0 ELSE n - 1 + 1
    BY <1>1, FS_Interval
  <1>3. IsFiniteSet({j}) /\ Cardinality({j}) = 1
    BY FS_Singleton
  <1>4. /\ IsFiniteSet({j} \X (1 .. n))
        /\ Cardinality({j} \X (1 .. n)) = Cardinality({j}) * Cardinality(1 .. n)
    BY <1>2, <1>3, FS_Product, ZenonT(60)
  <1>5. ASSUME n \in Nat PROVE Cardinality({j} \X (1 .. n)) = n
    <2>1. Cardinality(1 .. n) = n
      BY <1>2, <1>5
    <2> QED
      BY <1>3, <1>4, <1>5, <2>1
  <1> QED
    BY <1>4, <1>5 DEF Part, n

LEMMA PartsAreFinite ==
    ASSUME NEW S, IsFiniteSet(S), NEW f, \A j \in S : f[j] \in Int
    PROVE  IsFiniteSet(Parts(S, f)) /\ Worth(S, f) \in Nat
PROOF
  <1> DEFINE parts == { Part(j, f) : j \in S }
             part  == [j \in S |-> Part(j, f)]
  <1>1. part \in Surjection(S, parts)
    BY DEF Surjection
  <1>2. IsFiniteSet(parts)
    BY <1>1, FS_Surjection
  <1>3. \A T \in parts : IsFiniteSet(T)
    BY PartIsFinite
  <1>4. IsFiniteSet(UNION parts)
    BY <1>2, <1>3, FS_UNION
  <1> QED
    BY <1>4, FS_CardinalityType DEF Parts, Worth

(* More markets, or markets worth more, are worth more; a market worth     *)
(* nothing need not be among them.                                         *)
LEMMA WorthIsMonotonic ==
    ASSUME NEW S, IsFiniteSet(S), NEW T, IsFiniteSet(T), NEW f, NEW g,
           \A j \in S : f[j] \in Int /\ (f[j] <= 0 \/ (j \in T /\ f[j] <= g[j])),
           \A j \in T : g[j] \in Int
    PROVE  Worth(S, f) \in Nat /\ Worth(T, g) \in Nat /\ Worth(S, f) <= Worth(T, g)
PROOF
  <1>1. IsFiniteSet(Parts(T, g)) /\ Worth(T, g) \in Nat /\ Worth(S, f) \in Nat
    BY PartsAreFinite
  <1>2. ASSUME NEW j \in S, NEW u \in Part(j, f)
        PROVE  u \in Parts(T, g)
    <2>1. PICK n \in 1 .. f[j] : u = <<j, n>>
      BY <1>2 DEF Part
    <2>2. j \in T /\ g[j] \in Int /\ n \in 1 .. g[j]
      BY <2>1
    <2> QED
      BY <2>1, <2>2 DEF Parts, Part
  <1>3. Parts(S, f) \in SUBSET Parts(T, g)
    BY <1>2 DEF Parts
  <1> QED
    BY <1>1, <1>3, FS_Subset DEF Worth

(* One market counts what it is worth.                                     *)
LEMMA WorthOfOne ==
    ASSUME NEW S, IsFiniteSet(S), NEW f, \A k \in S : f[k] \in Int, NEW j \in S, f[j] \in Nat
    PROVE  /\ Worth(S \ {j}, f) \in Nat
           /\ Worth(S, f) = Worth(S \ {j}, f) + f[j]
PROOF
  <1> DEFINE rest == Parts(S \ {j}, f)
             one == Part(j, f)
  <1>1. IsFiniteSet(S \ {j})
    BY FS_Difference
  <1>2. IsFiniteSet(rest) /\ Cardinality(rest) \in Nat
    BY <1>1, PartsAreFinite DEF Worth
  <1>3. IsFiniteSet(one) /\ Cardinality(one) = f[j]
    BY PartIsFinite
  <1>4. Parts(S, f) = rest \cup one
    BY DEF Parts
  <1>5. rest \cap one = {}
    BY DEF Parts, Part
  <1> HIDE DEF rest, one
  <1>6. Cardinality(rest \cup one) = Cardinality(rest) + Cardinality(one) - Cardinality({})
    BY <1>2, <1>3, <1>5, FS_Union
  <1>7. Cardinality(rest \cup one) = Cardinality(rest) + f[j]
    BY <1>2, <1>3, <1>6, FS_EmptySet
  <1> QED
    BY <1>2, <1>4, <1>7 DEF Worth, rest

(* A sum over an array without repetitions is one over its set.            *)
LEMMA SumOverList ==
    ASSUME NEW s, NEW S, ListsExactly(s, S), NEW f, \A j \in JToken : f[j] \in Int
    PROVE  IsFiniteSet(S) /\ S \subseteq JToken /\ SumOver(s, f) = Worth(S, f)
PROOF
  <1>1. /\ s \in Seq(JToken) /\ ToSet(s) = S /\ NoRepeats(s)
        /\ IsFiniteSet(S) /\ S \subseteq JToken
    BY LengthOfList, ElementsOfList DEF ListsExactly
  <1>2. /\ DOMAIN s = 1 .. Len(s)
        /\ \A i \in 1 .. Len(s) : s[i] \in S
        /\ \A j \in S : \E i \in 1 .. Len(s) : s[i] = j
    BY <1>1, ElementsOfList
  <1> DEFINE places == UNION { {i} \X (1 .. f[s[i]]) : i \in DOMAIN s }
             move == [u \in places |-> <<s[u[1]], u[2]>>]
  <1>3. ASSUME NEW u \in places
        PROVE  u[1] \in 1 .. Len(s) /\ u[2] \in 1 .. f[s[u[1]]] /\ u = <<u[1], u[2]>>
    BY <1>2
  <1>4. ASSUME NEW i \in 1 .. Len(s), NEW n \in 1 .. f[s[i]]
        PROVE  <<i, n>> \in places
    BY <1>2
  <1> HIDE DEF places
  <1>5. ASSUME NEW v \in Parts(S, f)
        PROVE  v[1] \in S /\ v[2] \in 1 .. f[v[1]] /\ v = <<v[1], v[2]>>
    BY DEF Parts, Part
  <1>6. ASSUME NEW j \in S, NEW n \in 1 .. f[j]
        PROVE  <<j, n>> \in Parts(S, f)
    BY DEF Parts, Part
  <1>7. \A u \in places : move[u] \in Parts(S, f) /\ move[u] = <<s[u[1]], u[2]>>
    BY <1>2, <1>3, <1>6
  <1>8. move \in [places -> Parts(S, f)]
    BY <1>7
  <1>9. ASSUME NEW u \in places, NEW w \in places, move[u] = move[w]
        PROVE  u = w
    <2>1. s[u[1]] = s[w[1]] /\ u[2] = w[2]
      BY <1>7, <1>9
    <2>2. u[1] = w[1]
      BY <1>1, <1>3, <2>1 DEF NoRepeats
    <2> QED
      BY <1>3, <2>1, <2>2
  <1>10. ASSUME NEW v \in Parts(S, f)
         PROVE  \E u \in places : move[u] = v
    <2>1. PICK i \in 1 .. Len(s) : s[i] = v[1]
      BY <1>2, <1>5
    <2>2. <<i, v[2]>> \in places
      BY <1>4, <1>5, <2>1
    <2>3. move[<<i, v[2]>>] = <<s[i], v[2]>>
      BY <1>7, <2>2
    <2> QED
      BY <1>5, <2>1, <2>2, <2>3
  <1> HIDE DEF move
  <1>11. move \in Injection(places, Parts(S, f)) /\ move \in Surjection(places, Parts(S, f))
    BY <1>8, <1>9, <1>10 DEF Injection, Surjection, IsInjective
  <1>12. IsFiniteSet(Parts(S, f))
    BY <1>1, PartsAreFinite
  <1>13. Cardinality(places) = Cardinality(Parts(S, f))
    BY <1>11, <1>12, FS_Injection
  <1> QED
    BY <1>1, <1>13 DEF SumOver, places, Worth

--------------------------------------------------------------------------------
(***************************************************************************)
(* A liquidity check as a comparison of two sums.                          *)
(***************************************************************************)
CollateralOf(jTokens, a) == [j \in JToken |-> CollateralValue(jTokens, j, a)]

DebtsOf(jTokens, a, jTokenModify, redeemTokens, borrowAmount) ==
    [j \in JToken |->
        BorrowValue(jTokens, j, a)
        + (IF j = jTokenModify THEN EffectValue(jTokens, j, redeemTokens, borrowAmount) ELSE 0)]

(* What a may owe covers the debts in the markets of S but for slack.      *)
Covered(a, S, collateral, debts, slack) ==
    \/ config.creditLimits[a] = UIntMax
    \/ IF IsCreditAccount(a) THEN Worth(S, debts) <= config.creditLimits[a] + slack
       ELSE Worth(S, debts) <= Worth(S, collateral) + slack

(* Markets of which a liquidity check can be made for a. *)
Countable(jTokens, a) ==
    /\ jTokens \in [JToken -> MarketType]
    /\ \A j \in JToken : BorrowBalanceStored(jTokens[j], a) \in Nat

LEMMA StoragesAreCountable ==
    ASSUME NEW jTokens, Storages(jTokens), NEW a \in Account
    PROVE  Countable(jTokens, a)
BY BorrowBalanceType DEF Storages, Countable

LEMMA RateType ==
    ASSUME NEW m \in MarketType
    PROVE  ExchangeRateStored(m) \in Int
PROOF
  <1>1. /\ m.internalCash \in Nat /\ m.totalBorrows \in Nat
        /\ m.totalReserves \in Nat /\ m.totalSupply \in Nat
    BY DEF MarketType
  <1>2. CASE m.totalSupply = 0
    BY <1>2, MarketAssumption DEF ExchangeRateStored
  <1>3. CASE m.totalSupply # 0
    <2> DEFINE owned == CashPlusBorrowsMinusReserves(m)
    <2>1. owned \in Int
      BY <1>1 DEF CashPlusBorrowsMinusReserves
    <2> HIDE DEF owned
    <2>2. owned * expScale \in Int
      BY <2>1, ExpScaleAssumption
    <2>3. (owned * expScale) \div m.totalSupply \in Int
      BY <1>1, <1>3, <2>2, QuotientOfInt
    <2> QED
      BY <1>3, <2>3 DEF ExchangeRateStored, DivUIntByExp, owned
  <1> QED
    BY <1>2, <1>3

(* A product of fixed-point numbers is one, and is monotonic. *)
LEMMA ExpProduct ==
    ASSUME NEW p \in Int, NEW q \in Int, NEW n \in Nat, p <= q
    PROVE  /\ (p * n) \div expScale \in Int /\ (q * n) \div expScale \in Int
           /\ (p * n) \div expScale <= (q * n) \div expScale
           /\ p \in Nat => (p * n) \div expScale \in Nat
PROOF
  <1>1. p * n \in Int /\ q * n \in Int /\ p * n <= q * n
    BY IntProductIsMonotonic
  <1>2. expScale \in Nat \ {0}
    BY ExpScaleAssumption
  <1>3. p \in Nat => p * n \in Nat
    OBVIOUS
  <1> DEFINE pn == p * n
             qn == q * n
  <1> HIDE DEF pn, qn
  <1>4. /\ pn \div expScale \in Int /\ qn \div expScale \in Int
        /\ pn \div expScale <= qn \div expScale
        /\ pn \in Nat => pn \div expScale \in Nat
    BY <1>1, <1>2, QuotientIsMonotonic, QuotientOfNat DEF pn, qn
  <1> QED
    BY <1>3, <1>4 DEF pn, qn

LEMMA SettingTypes ==
    ASSUME SettingsTyped, NEW j \in JToken
    PROVE  price[j] \in Nat /\ config.collateralFactorMantissa[j] \in Nat
PROOF
  <1>1. expScale \in Nat /\ collateralFactorMaxMantissa \in 0 .. expScale
    BY ExpScaleAssumption, JoetrollerAssumption
  <1>2. config.collateralFactorMantissa \in [JToken -> 0 .. collateralFactorMaxMantissa]
    BY DEF SettingsTyped, ConfigType
  <1>3. config.collateralFactorMantissa[j] \in Nat
    BY <1>1, <1>2
  <1> QED
    BY <1>3 DEF SettingsTyped

(* What one jToken counts as collateral follows its exchange rate. *)
LEMMA DenomFollowsRate ==
    ASSUME SettingsTyped, NEW j \in JToken, NEW t1, NEW t2,
           t1[j] \in MarketType, t2[j] \in MarketType,
           ExchangeRateStored(t1[j]) <= ExchangeRateStored(t2[j])
    PROVE  /\ TokensToDenom(t1, j) \in Int /\ TokensToDenom(t2, j) \in Int
           /\ TokensToDenom(t1, j) <= TokensToDenom(t2, j)
           /\ ExchangeRateStored(t1[j]) >= 0 => TokensToDenom(t1, j) \in Nat
PROOF
  <1> DEFINE r1 == ExchangeRateStored(t1[j])
             r2 == ExchangeRateStored(t2[j])
             f  == config.collateralFactorMantissa[j]
             p  == price[j]
             d1 == (r1 * f) \div expScale
             d2 == (r2 * f) \div expScale
  <1>1. r1 \in Int /\ r2 \in Int /\ r1 <= r2 /\ f \in Nat /\ p \in Nat
    BY RateType, SettingTypes
  <1> HIDE DEF r1, r2, f, p
  <1>2. d1 \in Int /\ d2 \in Int /\ d1 <= d2 /\ (r1 \in Nat => d1 \in Nat)
    BY <1>1, ExpProduct
  <1>3. f * r1 = r1 * f /\ f * r2 = r2 * f
    BY <1>1
  <1>4. TokensToDenom(t1, j) = (d1 * p) \div expScale /\ TokensToDenom(t2, j) = (d2 * p) \div expScale
    BY <1>3 DEF TokensToDenom, MulExp, r1, r2, f, p
  <1> HIDE DEF d1, d2
  <1>5. r1 >= 0 => d1 \in Nat
    BY <1>1, <1>2
  <1>6. /\ (d1 * p) \div expScale \in Int /\ (d2 * p) \div expScale \in Int
        /\ (d1 * p) \div expScale <= (d2 * p) \div expScale
        /\ d1 \in Nat => (d1 * p) \div expScale \in Nat
    BY <1>1, <1>2, ExpProduct
  <1> QED
    BY <1>4, <1>5, <1>6 DEF r1

LEMMA BalanceType ==
    ASSUME NEW m \in MarketType, NEW a \in Account
    PROVE  JTokenBalance(m, a) \in Nat
BY DEF MarketType, JTokenBalance

LEMMA ValueTypes ==
    ASSUME SettingsTyped, NEW a \in Account, NEW jTokens, Countable(jTokens, a), NEW j \in JToken,
           NEW redeemTokens \in Nat, NEW borrowAmount \in Nat
    PROVE  /\ CollateralValue(jTokens, j, a) \in Int
           /\ BorrowValue(jTokens, j, a) \in Nat
           /\ EffectValue(jTokens, j, redeemTokens, borrowAmount) \in Int
           /\ ExchangeRateStored(jTokens[j]) >= 0 =>
                /\ CollateralValue(jTokens, j, a) \in Nat
                /\ EffectValue(jTokens, j, redeemTokens, borrowAmount) \in Nat
PROOF
  <1> DEFINE d == TokensToDenom(jTokens, j)
             b == JTokenBalance(jTokens[j], a)
             p == price[j]
             o == BorrowBalanceStored(jTokens[j], a)
  <1>1. jTokens[j] \in MarketType /\ o \in Nat
    BY DEF Countable
  <1>2. b \in Nat /\ p \in Nat
    BY <1>1, BalanceType, SettingTypes
  <1>3. ExchangeRateStored(jTokens[j]) \in Int
    BY <1>1, RateType
  <1>4. d \in Int /\ (ExchangeRateStored(jTokens[j]) >= 0 => d \in Nat)
    <2> DEFINE r == ExchangeRateStored(jTokens[j])
    <2>1. r <= r
      BY <1>3
    <2> HIDE DEF r
    <2> QED
      BY <1>1, <2>1, DenomFollowsRate DEF r
  <1> HIDE DEF d, b, p, o
  <1>5. \A x \in Int, n \in Nat :
            (x * n) \div expScale \in Int /\ (x \in Nat => (x * n) \div expScale \in Nat)
    <2>1. TAKE x \in Int, n \in Nat
    <2>2. x <= x
      OBVIOUS
    <2> QED
      BY <2>1, <2>2, ExpProduct
  <1>6. (d * b) \div expScale \in Int /\ (d \in Nat => (d * b) \div expScale \in Nat)
    BY <1>2, <1>4, <1>5
  <1>7. /\ (d * redeemTokens) \div expScale \in Int
        /\ d \in Nat => (d * redeemTokens) \div expScale \in Nat
    BY <1>4, <1>5
  <1>8. (p * o) \div expScale \in Nat /\ (p * borrowAmount) \div expScale \in Nat
    BY <1>1, <1>2, <1>5
  <1>9. CollateralValue(jTokens, j, a) = (d * b) \div expScale
    BY DEF CollateralValue, MulScalarTruncate, Truncate, d, b
  <1>10. BorrowValue(jTokens, j, a) = (p * o) \div expScale
    BY DEF BorrowValue, MulScalarTruncate, Truncate, p, o
  <1> DEFINE e1 == (d * redeemTokens) \div expScale
             e2 == (p * borrowAmount) \div expScale
  <1>11. EffectValue(jTokens, j, redeemTokens, borrowAmount) = e1 + e2
    BY DEF EffectValue, MulScalarTruncate, Truncate, p, d
  <1>12. e1 \in Int /\ e2 \in Nat /\ (d \in Nat => e1 \in Nat)
    BY <1>7, <1>8
  <1> HIDE DEF e1, e2
  <1>13. e1 + e2 \in Int /\ (d \in Nat => e1 + e2 \in Nat)
    BY <1>12
  <1> QED
    BY <1>4, <1>6, <1>8, <1>9, <1>10, <1>11, <1>13

(* A liquidity check over the array of the markets in S.                   *)
LEMMA LiquidityIsCoverage ==
    ASSUME SettingsTyped, NEW a \in Account, NEW jTokens, Countable(jTokens, a),
           NEW assets, NEW S, ListsExactly(assets, S), NEW jTokenModify,
           NEW redeemTokens \in Nat, NEW borrowAmount \in Nat, NEW slack \in Nat
    PROVE  LET shortfall == Liquidity(jTokens, assets, a, jTokenModify,
                                      redeemTokens, borrowAmount).shortfall
           IN  /\ shortfall \in Nat
               /\ shortfall <= slack <=>
                    Covered(a, S, CollateralOf(jTokens, a),
                            DebtsOf(jTokens, a, jTokenModify, redeemTokens, borrowAmount), slack)
PROOF
  <1> DEFINE collateral == CollateralOf(jTokens, a)
             debts == DebtsOf(jTokens, a, jTokenModify, redeemTokens, borrowAmount)
             limit == config.creditLimits[a]
             sumCollateral == IF IsCreditAccount(a) THEN limit ELSE SumOver(assets, collateral)
             sumDebts == SumOver(assets, debts)
             shortfall == Liquidity(jTokens, assets, a, jTokenModify,
                                    redeemTokens, borrowAmount).shortfall
  <1>1. \A j \in JToken : collateral[j] \in Int
    BY ValueTypes DEF CollateralOf
  <1>2. ASSUME NEW j \in JToken PROVE debts[j] \in Int
    <2> DEFINE b == BorrowValue(jTokens, j, a)
               e == EffectValue(jTokens, j, redeemTokens, borrowAmount)
    <2>1. b \in Nat /\ e \in Int
      BY ValueTypes
    <2>2. debts[j] = b + (IF j = jTokenModify THEN e ELSE 0)
      BY DEF DebtsOf
    <2> HIDE DEF b, e, debts
    <2> QED
      BY <2>1, <2>2
  <1>3. /\ IsFiniteSet(S)
        /\ SumOver(assets, collateral) = Worth(S, collateral) /\ sumDebts = Worth(S, debts)
    <2> HIDE DEF collateral, debts
    <2> QED
      BY <1>1, <1>2, SumOverList
  <1>4. Worth(S, collateral) \in Nat /\ Worth(S, debts) \in Nat
    <2>1. \A j \in S : collateral[j] \in Int /\ debts[j] \in Int
      <3> HIDE DEF collateral, debts
      <3> QED
        BY <1>1, <1>2, SumOverList
    <2> HIDE DEF collateral, debts
    <2> QED
      BY <1>3, <2>1, PartsAreFinite
  <1>5. limit \in Nat \cup {UIntMax} /\ UIntMax = -1
    BY DEF SettingsTyped, ConfigType, UIntMax
  <1>6. shortfall = IF limit = UIntMax THEN 0
                    ELSE IF sumCollateral > sumDebts THEN 0 ELSE sumDebts - sumCollateral
    BY DEF Liquidity, CollateralOf, DebtsOf
  <1>7. Covered(a, S, collateral, debts, slack) <=>
          \/ limit = UIntMax
          \/ IF IsCreditAccount(a) THEN Worth(S, debts) <= limit + slack
             ELSE Worth(S, debts) <= Worth(S, collateral) + slack
    BY DEF Covered
  <1> HIDE DEF collateral, debts, limit, shortfall
  <1>8. shortfall \in Nat /\ (shortfall <= slack <=> Covered(a, S, collateral, debts, slack))
    BY <1>3, <1>4, <1>5, <1>6, <1>7
  <1> QED
    BY <1>8 DEF collateral, debts, shortfall

(* What covers the debts still does when it is worth no less, and when     *)
(* the debts are no more.                                                  *)
LEMMA CoverageIsMonotonic ==
    ASSUME NEW a, config.creditLimits[a] \in Nat \cup {UIntMax}, NEW slack \in Nat,
           NEW S, IsFiniteSet(S), NEW T, IsFiniteSet(T), S \subseteq T,
           NEW c1, NEW d1, NEW c2, NEW d2,
           \A j \in S : /\ c1[j] \in Int /\ d1[j] \in Int
                        /\ c1[j] <= 0 \/ c1[j] <= c2[j]
                        /\ d2[j] <= d1[j],
           \A j \in T : /\ c2[j] \in Int /\ d2[j] \in Int
                        /\ j \notin S => d2[j] <= 0,
           Covered(a, S, c1, d1, slack)
    PROVE  Covered(a, T, c2, d2, slack)
PROOF
  <1>1. Worth(S, c1) \in Nat /\ Worth(T, c2) \in Nat /\ Worth(S, c1) <= Worth(T, c2)
    BY WorthIsMonotonic
  <1>2. Worth(T, d2) \in Nat /\ Worth(S, d1) \in Nat /\ Worth(T, d2) <= Worth(S, d1)
    BY WorthIsMonotonic
  <1>3. UIntMax = -1
    BY DEF UIntMax
  <1> QED
    BY <1>1, <1>2, <1>3 DEF Covered

LEMMA LimitType ==
    ASSUME SettingsTyped, NEW a \in Account
    PROVE  config.creditLimits[a] \in Nat \cup {UIntMax}
BY DEF SettingsTyped, ConfigType

(* What a check with an effect in j covered covers j's new state, up to    *)
(* one unit, if that is no worse than the effect.                          *)
LEMMA CoverageOfEffect ==
    ASSUME NEW a, config.creditLimits[a] \in Nat \cup {UIntMax},
           NEW S, IsFiniteSet(S), NEW j \in S, NEW c1, NEW d1, NEW c2, NEW d2,
           \A k \in S : /\ c1[k] \in Int /\ d1[k] \in Int /\ c2[k] \in Int /\ d2[k] \in Int
                        /\ k # j => c1[k] <= c2[k] /\ d2[k] <= d1[k],
           c1[j] \in Nat, d1[j] \in Nat, c2[j] \in Nat, d2[j] \in Nat,
           d2[j] + c1[j] <= c2[j] + d1[j] + 1, d2[j] <= d1[j] + 1,
           Covered(a, S, c1, d1, 0)
    PROVE  Covered(a, S, c2, d2, 1)
PROOF
  <1> DEFINE R == S \ {j}
  <1>1. /\ Worth(R, c1) \in Nat /\ Worth(S, c1) = Worth(R, c1) + c1[j]
        /\ Worth(R, c2) \in Nat /\ Worth(S, c2) = Worth(R, c2) + c2[j]
        /\ Worth(R, d1) \in Nat /\ Worth(S, d1) = Worth(R, d1) + d1[j]
        /\ Worth(R, d2) \in Nat /\ Worth(S, d2) = Worth(R, d2) + d2[j]
    BY WorthOfOne
  <1>2. IsFiniteSet(R)
    BY FS_Difference
  <1>3. \A k \in R : /\ c1[k] \in Int /\ d1[k] \in Int /\ c2[k] \in Int /\ d2[k] \in Int
                     /\ c1[k] <= c2[k] /\ d2[k] <= d1[k]
    OBVIOUS
  <1> HIDE DEF R
  <1>4. Worth(R, c1) <= Worth(R, c2)
    BY <1>2, <1>3, WorthIsMonotonic
  <1>5. Worth(R, d2) <= Worth(R, d1)
    BY <1>2, <1>3, WorthIsMonotonic
  <1>6. UIntMax = -1
    BY DEF UIntMax
  <1> QED
    BY <1>1, <1>4, <1>5, <1>6 DEF Covered

(* A market without debt whose whole collateral is not needed can be left. *)
LEMMA CoverageWithoutOne ==
    ASSUME NEW a, config.creditLimits[a] \in Nat \cup {UIntMax},
           NEW S, IsFiniteSet(S), NEW j \in S, NEW c1, NEW d1, NEW c2, NEW d2,
           \A k \in S : /\ c1[k] \in Int /\ d1[k] \in Int /\ c2[k] \in Int /\ d2[k] \in Int
                        /\ k # j => c1[k] <= c2[k] /\ d2[k] <= d1[k],
           c1[j] \in Nat, d1[j] \in Nat, c1[j] <= d1[j],
           Covered(a, S, c1, d1, 0)
    PROVE  Covered(a, S \ {j}, c2, d2, 0)
PROOF
  <1> DEFINE R == S \ {j}
  <1>1. /\ Worth(R, c1) \in Nat /\ Worth(S, c1) = Worth(R, c1) + c1[j]
        /\ Worth(R, d1) \in Nat /\ Worth(S, d1) = Worth(R, d1) + d1[j]
    BY WorthOfOne
  <1>2. IsFiniteSet(R)
    BY FS_Difference
  <1>3. \A k \in R : /\ c1[k] \in Int /\ d1[k] \in Int /\ c2[k] \in Int /\ d2[k] \in Int
                     /\ c1[k] <= c2[k] /\ d2[k] <= d1[k]
    OBVIOUS
  <1> HIDE DEF R
  <1>4. Worth(R, c2) \in Nat /\ Worth(R, c1) <= Worth(R, c2)
    BY <1>2, <1>3, WorthIsMonotonic
  <1>5. Worth(R, d2) \in Nat /\ Worth(R, d2) <= Worth(R, d1)
    BY <1>2, <1>3, WorthIsMonotonic
  <1>6. UIntMax = -1
    BY DEF UIntMax
  <1> QED
    BY <1>1, <1>4, <1>5, <1>6 DEF Covered, R

(* The shortfall after a step that changes no price and no setting.        *)
LEMMA ShortfallAfter ==
    ASSUME config' = config, price' = price, NEW a
    PROVE  (ShortfallOf(a))' = Liquidity(jToken', accountAssets'[a], a, NoMarket, 0, 0).shortfall
BY DEF ShortfallOf, AccountLiquidity, Liquidity, IsCreditAccount, CollateralValue, BorrowValue,
       EffectValue, TokensToDenom, PriceIsMissing

--------------------------------------------------------------------------------
(***************************************************************************)
(* Steps that take nothing from an account.                                *)
(***************************************************************************)

(* For a, the market n is no worse than m, but perhaps for its rate. *)
NoWorse(m, n, a) ==
    /\ JTokenBalance(m, a) <= JTokenBalance(n, a)
    /\ BorrowBalanceStored(n, a) <= BorrowBalanceStored(m, a)

(* A product with a rate below zero is not above zero. *)
LEMMA NegativeProduct ==
    ASSUME NEW p \in Int, NEW n \in Nat, p <= 0
    PROVE  (p * n) \div expScale \in Int /\ (p * n) \div expScale <= 0
PROOF
  <1> DEFINE zero == 0
  <1>1. zero \in Int /\ p <= zero /\ zero * n = 0
    OBVIOUS
  <1>2. 0 \div expScale = 0
    BY ExpScaleAssumption
  <1> HIDE DEF zero
  <1>3. /\ (p * n) \div expScale \in Int
        /\ (p * n) \div expScale <= (zero * n) \div expScale
    BY <1>1, ExpProduct
  <1> QED
    BY <1>1, <1>2, <1>3

(* Both factors of a value may grow. *)
LEMMA ValueIsMonotonic ==
    ASSUME NEW p \in Int, NEW q \in Int, NEW m \in Nat, NEW n \in Nat, p <= q, m <= n
    PROVE  \/ (p * m) \div expScale <= 0
           \/ (p * m) \div expScale <= (q * n) \div expScale
PROOF
  <1>1. CASE p <= 0
    BY <1>1, NegativeProduct
  <1>2. CASE p > 0
    <2>1. p \in Nat /\ q \in Nat
      BY <1>2
    <2>2. m * p <= n * p
      BY <2>1, IntProductIsMonotonic
    <2>3. p * n <= q * n
      BY IntProductIsMonotonic
    <2>4. m * p = p * m /\ n * p = p * n /\ p * m \in Int /\ q * n \in Int /\ p * n \in Int
      OBVIOUS
    <2> DEFINE pm == p * m
               qn == q * n
    <2>5. pm \in Int /\ qn \in Int /\ pm <= qn
      BY <2>2, <2>3, <2>4
    <2> HIDE DEF pm, qn
    <2>6. pm \div expScale <= qn \div expScale
      BY <2>5, ExpScaleAssumption, QuotientIsMonotonic
    <2> QED
      BY <2>6 DEF pm, qn
  <1> QED
    BY <1>1, <1>2

LEMMA ValueOrder ==
    ASSUME SettingsTyped, NEW a \in Account, NEW t1, Countable(t1, a), NEW t2, Countable(t2, a),
           NEW j \in JToken, ExchangeRateStored(t1[j]) <= ExchangeRateStored(t2[j]),
           NoWorse(t1[j], t2[j], a)
    PROVE  /\ \/ CollateralValue(t1, j, a) <= 0
              \/ CollateralValue(t1, j, a) <= CollateralValue(t2, j, a)
           /\ BorrowValue(t2, j, a) <= BorrowValue(t1, j, a)
PROOF
  <1> DEFINE p  == price[j]
             o1 == BorrowBalanceStored(t1[j], a)
             o2 == BorrowBalanceStored(t2[j], a)
             b1 == JTokenBalance(t1[j], a)
             b2 == JTokenBalance(t2[j], a)
             x1 == TokensToDenom(t1, j)
             x2 == TokensToDenom(t2, j)
  <1>1. /\ t1[j] \in MarketType /\ t2[j] \in MarketType
        /\ o1 \in Nat /\ o2 \in Nat /\ o2 <= o1 /\ b1 <= b2
    BY DEF Countable, NoWorse
  <1>2. p \in Nat /\ b1 \in Nat /\ b2 \in Nat
    BY <1>1, SettingTypes, BalanceType
  <1>3. x1 \in Int /\ x2 \in Int /\ x1 <= x2
    BY <1>1, DenomFollowsRate
  <1>4. /\ CollateralValue(t1, j, a) = (x1 * b1) \div expScale
        /\ CollateralValue(t2, j, a) = (x2 * b2) \div expScale
        /\ BorrowValue(t1, j, a) = (p * o1) \div expScale
        /\ BorrowValue(t2, j, a) = (p * o2) \div expScale
    BY DEF CollateralValue, BorrowValue, MulScalarTruncate, Truncate
  <1> HIDE DEF p, o1, o2, b1, b2, x1, x2
  <1>5. \/ (x1 * b1) \div expScale <= 0
        \/ (x1 * b1) \div expScale <= (x2 * b2) \div expScale
    BY <1>1, <1>2, <1>3, ValueIsMonotonic
  <1>6. p * o1 = o1 * p /\ p * o2 = o2 * p
    BY <1>1, <1>2
  <1>7. (o2 * p) \div expScale <= (o1 * p) \div expScale
    <2>1. o1 \in Int /\ o2 \in Int /\ o2 <= o1 /\ p \in Nat
      BY <1>1, <1>2
    <2> QED
      BY <2>1, ExpProduct
  <1> QED
    BY <1>4, <1>5, <1>6, <1>7

(* Without an effect the debts are those stored. *)
LEMMA StoredDebts ==
    ASSUME SettingsTyped, NEW a \in Account, NEW t, Countable(t, a), NEW j \in JToken
    PROVE  /\ DebtsOf(t, a, NoMarket, 0, 0)[j] = BorrowValue(t, j, a)
           /\ CollateralOf(t, a)[j] = CollateralValue(t, j, a)
           /\ BorrowValue(t, j, a) \in Nat
           /\ CollateralValue(t, j, a) \in Int
PROOF
  <1>1. /\ BorrowValue(t, j, a) \in Nat /\ CollateralValue(t, j, a) \in Int
    BY ValueTypes
  <1>2. j # NoMarket
    BY JoetrollerAssumption
  <1>3. DebtsOf(t, a, NoMarket, 0, 0)[j] = BorrowValue(t, j, a) + 0
    BY <1>2 DEF DebtsOf
  <1> QED
    BY <1>1, <1>3 DEF CollateralOf

LEMMA ShortfallNow ==
    ASSUME Inv, NEW a \in Account
    PROVE  /\ ShortfallOf(a) \in Nat
           /\ ShortfallOf(a) = 0 =>
                Covered(a, Entered(a), CollateralOf(jToken, a), DebtsOf(jToken, a, NoMarket, 0, 0), 0)
PROOF
  <1>1. SettingsTyped /\ Countable(jToken, a) /\ ListsExactly(accountAssets[a], Entered(a))
    BY StoragesAreCountable DEF Inv, TrollerSound, ArraysMatch
  <1>2. ShortfallOf(a) = Liquidity(jToken, accountAssets[a], a, NoMarket, 0, 0).shortfall
    BY DEF ShortfallOf, AccountLiquidity
  <1> DEFINE shortfall == Liquidity(jToken, accountAssets[a], a, NoMarket, 0, 0).shortfall
             covered == Covered(a, Entered(a), CollateralOf(jToken, a),
                                DebtsOf(jToken, a, NoMarket, 0, 0), 0)
  <1>3. shortfall \in Nat /\ (shortfall <= 0 <=> covered)
    BY <1>1, LiquidityIsCoverage
  <1> HIDE DEF shortfall, covered
  <1>4. shortfall \in Nat /\ (shortfall = 0 => covered)
    BY <1>3
  <1> QED
    BY <1>2, <1>4 DEF shortfall, covered

LEMMA ShortfallLater ==
    ASSUME Inv, Inv', config' = config, price' = price, NEW a \in Account,
           Covered(a, Entered(a)', CollateralOf(jToken', a), DebtsOf(jToken', a, NoMarket, 0, 0), 1)
    PROVE  (ShortfallOf(a))' <= 1
PROOF
  <1>1. SettingsTyped
    BY DEF Inv, TrollerSound
  <1>2. ListsExactly(accountAssets'[a], Entered(a)')
    BY DEF Inv, TrollerSound, ArraysMatch
  <1>3. Countable(jToken', a)
    <2>1. /\ jToken' \in [JToken -> MarketType]
          /\ \A j \in JToken : Sound(jToken'[j], accountMembership'[j], now')
      BY DEF Inv, Storages
    <2> QED
      BY <2>1, BorrowBalanceType DEF Countable
  <1> QED
    BY <1>1, <1>2, <1>3, LiquidityIsCoverage, ShortfallAfter

(* The shortfall of a after the step, if it had none. *)
Unhurt(a) ==
    RatesHold(a) /\ InterestIsStable /\ ShortfallOf(a) = 0 => (ShortfallOf(a))' <= 1

LEMMA NoWorseIsUnhurt ==
    ASSUME Inv, Inv', config' = config, price' = price, NEW a \in Account,
           Entered(a) \subseteq Entered(a)',
           \A j \in Entered(a) : NoWorse(jToken[j], jToken'[j], a),
           \A j \in Entered(a)' \ Entered(a) : BorrowBalanceStored(jToken'[j], a) = 0
    PROVE  Unhurt(a)
PROOF
  <1> SUFFICES ASSUME RatesHold(a), ShortfallOf(a) = 0
               PROVE  (ShortfallOf(a))' <= 1
    BY DEF Unhurt
  <1> DEFINE S  == Entered(a)
             T  == Entered(a)'
             c1 == CollateralOf(jToken, a)
             d1 == DebtsOf(jToken, a, NoMarket, 0, 0)
             c2 == CollateralOf(jToken', a)
             d2 == DebtsOf(jToken', a, NoMarket, 0, 0)
  <1>1. /\ SettingsTyped /\ Countable(jToken, a)
        /\ ListsExactly(accountAssets[a], S) /\ ListsExactly(accountAssets'[a], T)
    BY StoragesAreCountable DEF Inv, TrollerSound, ArraysMatch
  <1>2. Countable(jToken', a)
    <2>1. /\ jToken' \in [JToken -> MarketType]
          /\ \A j \in JToken : Sound(jToken'[j], accountMembership'[j], now')
      BY DEF Inv, Storages
    <2> QED
      BY <2>1, BorrowBalanceType DEF Countable
  <1>3. Covered(a, S, c1, d1, 0)
    BY ShortfallNow
  <1>4. /\ IsFiniteSet(S) /\ IsFiniteSet(T) /\ S \subseteq JToken /\ T \subseteq JToken
        /\ S = ToSet(accountAssets[a])
    BY <1>1, LengthOfList, ElementsOfList DEF ListsExactly
  <1>5. config.creditLimits[a] \in Nat \cup {UIntMax}
    BY <1>1, LimitType
  <1>6. ASSUME NEW j \in S
        PROVE  /\ c1[j] \in Int /\ d1[j] \in Int
               /\ c1[j] <= 0 \/ c1[j] <= c2[j]
               /\ d2[j] <= d1[j]
    <2>1. j \in JToken /\ NoWorse(jToken[j], jToken'[j], a)
      BY <1>4
    <2>2. ExchangeRateStored(jToken[j]) <= ExchangeRateStored(jToken'[j])
      <3>1. ExchangeRateStored(jToken[j]) \in Int /\ ExchangeRateStored(jToken'[j]) \in Int
        BY <1>1, <1>2, <2>1, RateType DEF Countable
      <3>2. ExchangeRateStored(jToken'[j]) >= ExchangeRateStored(jToken[j])
        BY <1>4 DEF RatesHold
      <3> QED
        BY <3>1, <3>2
    <2>3. /\ \/ CollateralValue(jToken, j, a) <= 0
             \/ CollateralValue(jToken, j, a) <= CollateralValue(jToken', j, a)
          /\ BorrowValue(jToken', j, a) <= BorrowValue(jToken, j, a)
      BY <1>1, <1>2, <2>1, <2>2, ValueOrder
    <2>4. /\ c1[j] = CollateralValue(jToken, j, a) /\ c1[j] \in Int
          /\ d1[j] = BorrowValue(jToken, j, a) /\ d1[j] \in Int
          /\ c2[j] = CollateralValue(jToken', j, a)
          /\ d2[j] = BorrowValue(jToken', j, a)
      BY <1>1, <1>2, <2>1, StoredDebts
    <2> HIDE DEF c1, c2, d1, d2
    <2> QED
      BY <2>3, <2>4
  <1>7. ASSUME NEW j \in T
        PROVE  /\ c2[j] \in Int /\ d2[j] \in Int
               /\ j \notin S => d2[j] <= 0
    <2>1. j \in JToken
      BY <1>4
    <2>2. c2[j] \in Int /\ d2[j] = BorrowValue(jToken', j, a) /\ d2[j] \in Int
      BY <1>1, <1>2, <2>1, StoredDebts
    <2>3. ASSUME j \notin S PROVE BorrowValue(jToken', j, a) = 0
      <3>1. BorrowBalanceStored(jToken'[j], a) = 0
        BY <2>3
      <3>2. price[j] * 0 = 0 /\ 0 \div expScale = 0
        BY <1>1, <2>1, SettingTypes, ExpScaleAssumption
      <3> QED
        BY <3>1, <3>2 DEF BorrowValue, MulScalarTruncate, Truncate
    <2> HIDE DEF c2, d2
    <2> QED
      BY <2>2, <2>3
  <1> HIDE DEF c1, c2, d1, d2
  <1>8. S \subseteq T
    OBVIOUS
  <1> HIDE DEF S, T
  <1>9. Covered(a, T, c2, d2, 0)
    BY <1>3, <1>4, <1>5, <1>6, <1>7, <1>8, CoverageIsMonotonic
  <1>10. Covered(a, T, c2, d2, 1)
    <2>1. Worth(T, d2) \in Nat /\ Worth(T, c2) \in Nat
      BY <1>4, <1>7, PartsAreFinite
    <2>2. UIntMax = -1
      BY DEF UIntMax
    <2> QED
      BY <1>5, <1>9, <2>1, <2>2 DEF Covered
  <1> QED
    BY <1>10, ShortfallLater DEF c2, d2, T

(***************************************************************************)
(* Storages in which a liquidity check finds the same for the members mem. *)
(***************************************************************************)
Alike(m, n, mem) ==
    /\ ExchangeRateStored(n) = ExchangeRateStored(m)
    /\ \A a \in Account : BorrowBalanceStored(n, a) = BorrowBalanceStored(m, a)
    /\ \A a \in mem : JTokenBalance(n, a) = JTokenBalance(m, a)

(* Interest that does not move the index is none. *)
LEMMA StableAccrual ==
    ASSUME Inv, NEW j \in JToken, NEW m \in Accruals(jToken[j], now),
           m.borrowIndex = jToken[j].borrowIndex
    PROVE  Alike(jToken[j], m, Account)
PROOF
  <1> DEFINE n == jToken[j]
  <1>1. PICK rate \in BorrowRates : m = AccrueInterest(n, now, rate)
    BY DEF Accruals
  <1>2. n \in MarketType /\ n.accrualBlockTimestamp <= now /\ mantissaOne <= n.borrowIndex
    BY DEF Inv, Storages, Sound, AccruedInThePast, IndexesInOrder
  <1> HIDE DEF n
  <1>3. CASE n.accrualBlockTimestamp = now
    BY <1>1, <1>3 DEF AccrueInterest, Alike, n
  <1>4. CASE n.accrualBlockTimestamp # now
    <2> DEFINE factor == rate * (now - n.accrualBlockTimestamp)
               index == n.borrowIndex
               interest == MulScalarTruncate(factor, n.totalBorrows)
               reserves == MulScalarTruncateAddUInt(n.reserveFactorMantissa, interest, n.totalReserves)
    <2>1. /\ m.borrowIndex = MulScalarTruncateAddUInt(factor, index, index)
          /\ m.totalBorrows = interest + n.totalBorrows
          /\ m.totalReserves = reserves
          /\ m.internalCash = n.internalCash /\ m.totalSupply = n.totalSupply
          /\ m.accountTokens = n.accountTokens
          /\ m.accountBorrows = n.accountBorrows
          /\ m.accountCollateralTokens = n.accountCollateralTokens
          /\ m.isCollateralTokenInit = n.isCollateralTokenInit
      BY <1>1, <1>2, <1>4 DEF AccrueInterest, MarketType
    <2>2. factor \in Nat /\ index \in Nat /\ expScale \in Nat \ {0} /\ expScale <= index
      <3>1. rate \in Nat /\ now \in Nat /\ n.accrualBlockTimestamp \in Nat
        BY <1>2, MarketAssumption DEF Inv, MarketType
      <3>2. now - n.accrualBlockTimestamp \in Nat
        BY <1>2, <3>1
      <3> QED
        BY <1>2, <3>1, <3>2, ExpScaleAssumption DEF MarketType, mantissaOne
    <2>3. /\ n.totalBorrows \in Nat /\ n.totalReserves \in Nat /\ n.internalCash \in Nat
          /\ n.reserveFactorMantissa \in Nat
      BY <1>2, MarketAssumption, ExpScaleAssumption DEF MarketType
    <2>4. m.borrowIndex = (factor * index) \div expScale + index
      BY <2>1 DEF MulScalarTruncateAddUInt, Truncate
    <2>5. (factor * index) \div expScale = 0
      <3> DEFINE q == (factor * index) \div expScale
      <3>1. factor * index \in Nat
        BY <2>2
      <3>2. q \in Nat
        BY <2>2, <3>1, QuotientOfNat
      <3>3. m.borrowIndex = q + index /\ m.borrowIndex = index
        BY <2>4 DEF n
      <3> HIDE DEF q, index
      <3>4. q = 0
        BY <2>2, <3>2, <3>3
      <3> QED
        BY <3>4 DEF q, index
    <2> HIDE DEF factor, index
    <2>6. factor = 0
      <3>1. factor * index \in Nat /\ factor * index < expScale * (0 + 1)
        BY <2>2, <2>5, QuotientBounds
      <3>2. expScale * (0 + 1) = expScale
        BY <2>2
      <3>3. factor * index < index
        BY <2>2, <3>1, <3>2
      <3>4. SUFFICES ASSUME factor >= 1 PROVE FALSE
        BY <2>2
      <3>5. 1 * index <= factor * index
        BY <2>2, <3>4, IntProductIsMonotonic
      <3> QED
        BY <2>2, <3>1, <3>3, <3>5
    <2>7. 0 \div expScale = 0
      BY <2>2
    <2>8. interest = 0
      BY <2>3, <2>6, <2>7 DEF MulScalarTruncate, Truncate
    <2> HIDE DEF interest
    <2>9. reserves = n.totalReserves
      BY <2>3, <2>7, <2>8 DEF MulScalarTruncateAddUInt, Truncate
    <2> HIDE DEF reserves
    <2>10. CashPlusBorrowsMinusReserves(m) = CashPlusBorrowsMinusReserves(n)
      BY <2>1, <2>3, <2>8, <2>9 DEF CashPlusBorrowsMinusReserves
    <2>11. ExchangeRateStored(m) = ExchangeRateStored(n)
      BY <2>1, <2>10 DEF ExchangeRateStored
    <2>12. \A a \in Account : /\ BorrowBalanceStored(m, a) = BorrowBalanceStored(n, a)
                              /\ JTokenBalance(m, a) = JTokenBalance(n, a)
      BY <2>1 DEF BorrowBalanceStored, JTokenBalance, n
    <2> QED
      BY <2>11, <2>12 DEF Alike, n
  <1> QED
    BY <1>3, <1>4

LEMMA AlikeIsTransitive ==
    ASSUME NEW l, NEW m, NEW n, NEW mem, Alike(l, m, mem), Alike(m, n, mem)
    PROVE  Alike(l, n, mem)
BY DEF Alike

LEMMA FewerAlike ==
    ASSUME NEW m, NEW n, NEW mem, mem \subseteq Account, Alike(m, n, Account)
    PROVE  Alike(m, n, mem)
BY DEF Alike

(* To be initialised changes nothing for a member, nor for anybody else.   *)
LEMMA InitializedIsAlike ==
    ASSUME NEW m \in MarketType, NEW j \in JToken, NEW b \in Account,
           accountMembership[j] \subseteq Account
    PROVE  /\ Alike(m, Initialized(m, j, b), accountMembership[j])
           /\ Initialized(m, j, b).isCollateralTokenInit[b] = TRUE
           /\ \A a \in Account : m.isCollateralTokenInit[a] =>
                Initialized(m, j, b).isCollateralTokenInit[a] = TRUE
           /\ Initialized(m, j, b).borrowIndex = m.borrowIndex
PROOF
  <1> DEFINE n == Initialized(m, j, b)
             isMember == b \in accountMembership[j]
  <1>1. /\ n.borrowIndex = m.borrowIndex /\ n.accountBorrows = m.accountBorrows
        /\ n.totalSupply = m.totalSupply /\ n.internalCash = m.internalCash
        /\ n.totalBorrows = m.totalBorrows /\ n.totalReserves = m.totalReserves
        /\ n.accountTokens = m.accountTokens
    BY DEF Initialized, InitializeAccountCollateralTokens, MarketType
  <1>2. n.isCollateralTokenInit[b] = TRUE
    <2>1. CASE m.isCollateralTokenInit[b]
      BY <2>1 DEF Initialized, InitializeAccountCollateralTokens, MarketType
    <2>2. CASE ~m.isCollateralTokenInit[b]
      <3>1. n.isCollateralTokenInit = [m.isCollateralTokenInit EXCEPT ![b] = TRUE]
        BY <2>2, ZenonT(60) DEF Initialized, InitializeAccountCollateralTokens, MarketType
      <3> QED
        BY <3>1 DEF MarketType
    <2> QED
      BY <2>1, <2>2
  <1>3. ASSUME NEW a \in Account, a # b
        PROVE  /\ n.isCollateralTokenInit[a] = m.isCollateralTokenInit[a]
               /\ n.accountCollateralTokens[a] = m.accountCollateralTokens[a]
    BY <1>3 DEF Initialized, InitializeAccountCollateralTokens, MarketType
  <1>4. ASSUME isMember
        PROVE  n.accountCollateralTokens[b] = JTokenBalance(m, b)
    BY <1>4 DEF Initialized, InitializeAccountCollateralTokens, MarketType, JTokenBalance
  <1> HIDE DEF n
  <1>5. ASSUME NEW a \in accountMembership[j]
        PROVE  JTokenBalance(n, a) = JTokenBalance(m, a)
    BY <1>1, <1>2, <1>3, <1>4 DEF JTokenBalance
  <1>6. CashPlusBorrowsMinusReserves(n) = CashPlusBorrowsMinusReserves(m)
    BY <1>1 DEF CashPlusBorrowsMinusReserves
  <1>7. ExchangeRateStored(n) = ExchangeRateStored(m)
    BY <1>1, <1>6 DEF ExchangeRateStored
  <1>8. \A a \in Account : BorrowBalanceStored(n, a) = BorrowBalanceStored(m, a)
    BY <1>1 DEF BorrowBalanceStored
  <1>9. Alike(m, n, accountMembership[j])
    BY <1>5, <1>7, <1>8 DEF Alike
  <1>10. \A a \in Account : m.isCollateralTokenInit[a] => n.isCollateralTokenInit[a] = TRUE
    BY <1>2, <1>3 DEF MarketType
  <1> QED
    BY <1>1, <1>2, <1>9, <1>10 DEF n

(* What a function finds after a stable accrual and initialisation. *)
LEMMA PreparedIsAlike ==
    ASSUME Inv, NEW j \in JToken, NEW m0 \in Accruals(jToken[j], now), NEW b \in Account,
           m0.borrowIndex = jToken[j].borrowIndex
    PROVE  /\ Alike(jToken[j], m0, Account)
           /\ Alike(jToken[j], Initialized(m0, j, b), accountMembership[j])
           /\ Initialized(m0, j, b).isCollateralTokenInit[b] = TRUE
PROOF
  <1>1. accountMembership[j] \subseteq Account
    BY DEF Inv, TrollerSound, ArraysMatch
  <1>2. m0 \in MarketType
    BY AccruedIsSound DEF Sound
  <1>3. Alike(jToken[j], m0, Account)
    BY StableAccrual
  <1> QED
    BY <1>1, <1>2, <1>3, FewerAlike, InitializedIsAlike, AlikeIsTransitive

LEMMA MemberOf ==
    ASSUME NEW a, NEW j \in JToken
    PROVE  j \in Entered(a) <=> a \in accountMembership[j]
BY DEF Entered

(* A call of one market that leaves a no worse off there.                  *)
LEMMA CallIsUnhurt ==
    ASSUME Inv, Inv', config' = config, price' = price, accountMembership' = accountMembership,
           NEW j \in JToken, NEW n, jToken' = With(j, n), NEW a \in Account,
           a \in accountMembership[j] => NoWorse(jToken[j], n, a)
    PROVE  Unhurt(a)
PROOF
  <1>1. Entered(a)' = Entered(a)
    BY DEF Entered
  <1>2. jToken'[j] = n /\ \A k \in JToken : k # j => jToken'[k] = jToken[k]
    BY MarketAfter DEF Inv, Storages
  <1>3. ASSUME NEW k \in Entered(a) PROVE NoWorse(jToken[k], jToken'[k], a)
    <2>1. k \in JToken /\ a \in accountMembership[k]
      BY DEF Entered
    <2>2. CASE k = j
      BY <1>2, <2>1, <2>2
    <2>3. CASE k # j
      <3>1. JTokenBalance(jToken[k], a) \in Nat /\ BorrowBalanceStored(jToken[k], a) \in Nat
        BY <2>1, BalanceType, BorrowBalanceType DEF Inv, Storages
      <3> QED
        BY <1>2, <2>1, <2>3, <3>1 DEF NoWorse
    <2> QED
      BY <2>2, <2>3
  <1> QED
    BY <1>1, <1>3, NoWorseIsUnhurt

LEMMA AlikeIsNoWorse ==
    ASSUME Inv, NEW j \in JToken, NEW n, Alike(jToken[j], n, accountMembership[j]),
           NEW a \in accountMembership[j]
    PROVE  a \in Account /\ NoWorse(jToken[j], n, a)
PROOF
  <1>1. a \in Account /\ jToken[j] \in MarketType /\ Sound(jToken[j], accountMembership[j], now)
    BY DEF Inv, TrollerSound, ArraysMatch, Storages
  <1>2. JTokenBalance(jToken[j], a) \in Nat /\ BorrowBalanceStored(jToken[j], a) \in Nat
    BY <1>1, BalanceType, BorrowBalanceType
  <1> QED
    BY <1>1, <1>2 DEF Alike, NoWorse

--------------------------------------------------------------------------------
(***************************************************************************)
(* Steps that take something and ask the Joetroller.                       *)
(***************************************************************************)

(* What is left of a collateral, and what a check took for the part spent. *)
LEMMA SpentValue ==
    ASSUME NEW x \in Nat, NEW y \in Nat, x <= y, NEW b \in Nat, NEW t \in Nat, t <= b
    PROVE  /\ (y * (b - t)) \div expScale \in Nat
           /\ (x * b) \div expScale
                <= ((y * (b - t)) \div expScale) + ((x * t) \div expScale) + 1
PROOF
  <1>1. PICK r \in Nat : b = r + t
    <2>1. b - t \in Nat /\ b = (b - t) + t
      OBVIOUS
    <2> QED
      BY <2>1
  <1>2. b - t = r
    BY <1>1
  <1>3. x * r \in Nat /\ x * t \in Nat /\ x * b = x * r + x * t
    BY <1>1
  <1>4. (x * r) \div expScale <= (y * r) \div expScale
    <2>1. x \in Int /\ y \in Int /\ x <= y /\ r \in Nat
      OBVIOUS
    <2> QED
      BY <2>1, ExpProduct
  <1>5. /\ (x * r) \div expScale \in Nat /\ (y * r) \div expScale \in Nat
        /\ (x * t) \div expScale \in Nat
    <2>1. x <= x /\ y <= y
      OBVIOUS
    <2> QED
      BY <2>1, ExpProduct
  <1> DEFINE xr == x * r
             xt == x * t
             xb == x * b
             yr == y * r
  <1>6. xr \in Int /\ xt \in Int /\ xb = xr + xt /\ expScale \in Nat \ {0}
    BY <1>3, ExpScaleAssumption
  <1> HIDE DEF xr, xt, xb, yr
  <1>7. (xr + xt) \div expScale \in Int
        /\ (xr + xt) \div expScale <= (xr \div expScale) + (xt \div expScale) + 1
    BY <1>6, QuotientOfSum
  <1>8. xb \div expScale = (xr + xt) \div expScale
    BY <1>6
  <1>9. xb \div expScale <= (yr \div expScale) + (xt \div expScale) + 1
    BY <1>4, <1>5, <1>7, <1>8 DEF xr, xt, yr
  <1> QED
    BY <1>2, <1>5, <1>9 DEF xb, xt, yr

LEMMA EffectDebts ==
    ASSUME SettingsTyped, NEW a \in Account, NEW t, Countable(t, a), NEW j \in JToken,
           NEW redeemTokens, NEW borrowAmount, NEW k \in JToken
    PROVE  /\ k # j => DebtsOf(t, a, j, redeemTokens, borrowAmount)[k] = BorrowValue(t, k, a)
           /\ k = j => DebtsOf(t, a, j, redeemTokens, borrowAmount)[k]
                       = BorrowValue(t, k, a) + EffectValue(t, k, redeemTokens, borrowAmount)
PROOF
  <1>1. BorrowValue(t, k, a) \in Nat
    BY StoredDebts
  <1>2. CASE k = j
    BY <1>2 DEF DebtsOf
  <1>3. CASE k # j
    <2>1. DebtsOf(t, a, j, redeemTokens, borrowAmount)[k] = BorrowValue(t, k, a) + 0
      BY <1>3 DEF DebtsOf
    <2> QED
      BY <1>1, <1>3, <2>1
  <1> QED
    BY <1>2, <1>3

(* The values in a market are those of its storage. *)
LEMMA SameStorageSameValues ==
    ASSUME NEW t1, NEW t2, NEW k, t1[k] = t2[k], NEW a
    PROVE  /\ CollateralValue(t1, k, a) = CollateralValue(t2, k, a)
           /\ BorrowValue(t1, k, a) = BorrowValue(t2, k, a)
BY DEF CollateralValue, BorrowValue, TokensToDenom

LEMMA CountableAfter ==
    ASSUME Inv', NEW a \in Account
    PROVE  Countable(jToken', a)
PROOF
  <1>1. /\ jToken' \in [JToken -> MarketType]
        /\ \A j \in JToken : Sound(jToken'[j], accountMembership'[j], now')
    BY DEF Inv, Storages
  <1> QED
    BY <1>1, BorrowBalanceType DEF Countable

LEMMA CountableDuring ==
    ASSUME Inv, NEW j \in JToken, NEW m \in MarketType, NEW a \in Account,
           BorrowBalanceStored(m, a) \in Nat
    PROVE  Countable(With(j, m), a)
PROOF
  <1>1. Countable(jToken, a)
    BY StoragesAreCountable DEF Inv
  <1>2. With(j, m) \in [JToken -> MarketType]
    BY <1>1 DEF With, Countable
  <1>3. ASSUME NEW k \in JToken PROVE BorrowBalanceStored(With(j, m)[k], a) \in Nat
    <2>1. CASE k = j
      BY <2>1, MarketAfter
    <2>2. CASE k # j
      BY <1>1, <2>2, MarketAfter DEF Countable
    <2> QED
      BY <2>1, <2>2
  <1> QED
    BY <1>2, <1>3 DEF Countable

(* A rate the Joetroller can read is not below zero. *)
LEMMA ReadableRate ==
    ASSUME NEW jTokens, NEW a, NEW assets, NEW S, ListsExactly(assets, S),
           ~LiquidityReverts(jTokens, assets, a), config.creditLimits[a] # UIntMax,
           NEW j \in S, jTokens[j] \in MarketType
    PROVE  ExchangeRateStored(jTokens[j]) \in Nat
BY ExchangeRateType DEF LiquidityReverts, ListsExactly

(* The common frame: a check of j's storage m with an effect in j passed,  *)
(* and the storage j is left with is no worse than the effect.             *)
LEMMA CheckedIsUnhurt ==
    ASSUME Inv, Inv', config' = config, price' = price, NEW a \in Account,
           NEW j \in JToken, NEW m \in MarketType, NEW n, jToken' = With(j, n),
           BorrowBalanceStored(m, a) \in Nat,
           NEW assets, NEW S, ListsExactly(assets, S), j \in S, Entered(a)' = S,
           NEW redeemTokens \in Nat, NEW borrowAmount \in Nat,
           ~LiquidityReverts(With(j, m), assets, a),
           Liquidity(With(j, m), assets, a, j, redeemTokens, borrowAmount).shortfall = 0,
           ExchangeRateStored(m) \in Nat =>
               /\ CollateralValue(jToken', j, a) \in Nat
               /\ BorrowValue(jToken', j, a) + CollateralValue(With(j, m), j, a)
                    <= CollateralValue(jToken', j, a) + BorrowValue(With(j, m), j, a)
                       + EffectValue(With(j, m), j, redeemTokens, borrowAmount) + 1
               /\ BorrowValue(jToken', j, a)
                    <= BorrowValue(With(j, m), j, a)
                       + EffectValue(With(j, m), j, redeemTokens, borrowAmount) + 1
    PROVE  (ShortfallOf(a))' <= 1
PROOF
  <1> DEFINE t  == With(j, m)
             c1 == CollateralOf(t, a)
             d1 == DebtsOf(t, a, j, redeemTokens, borrowAmount)
             c2 == CollateralOf(jToken', a)
             d2 == DebtsOf(jToken', a, NoMarket, 0, 0)
  <1>1. SettingsTyped /\ Countable(t, a) /\ Countable(jToken', a)
    BY CountableDuring, CountableAfter DEF Inv, TrollerSound
  <1>2. config.creditLimits[a] \in Nat \cup {UIntMax}
    BY <1>1, LimitType
  <1>3. IsFiniteSet(S) /\ S \subseteq JToken
    BY LengthOfList, ElementsOfList DEF ListsExactly
  <1>4. t[j] = m /\ jToken'[j] = n /\ \A k \in JToken : k # j => t[k] = jToken'[k]
    BY MarketAfter
  <1> HIDE DEF t
  <1>5. Covered(a, S, c1, d1, 0)
    <2> DEFINE shortfall == Liquidity(t, assets, a, j, redeemTokens, borrowAmount).shortfall
    <2>1. shortfall \in Nat /\ (shortfall <= 0 <=> Covered(a, S, c1, d1, 0))
      BY <1>1, LiquidityIsCoverage
    <2>2. shortfall = 0
      BY DEF t
    <2> HIDE DEF shortfall, c1, d1
    <2> QED
      BY <2>1, <2>2
  <1>6. ASSUME NEW k \in S
        PROVE  /\ c1[k] = CollateralValue(t, k, a) /\ c1[k] \in Int
               /\ c2[k] = CollateralValue(jToken', k, a) /\ c2[k] \in Int
               /\ d2[k] = BorrowValue(jToken', k, a) /\ d2[k] \in Nat
               /\ BorrowValue(t, k, a) \in Nat
               /\ k # j => d1[k] = BorrowValue(t, k, a)
               /\ k = j => d1[k] = BorrowValue(t, k, a) + EffectValue(t, k, redeemTokens, borrowAmount)
    BY <1>1, <1>3, StoredDebts, EffectDebts
  <1> DEFINE e == EffectValue(t, j, redeemTokens, borrowAmount)
  <1>7. ASSUME NEW k \in S, k # j
        PROVE  d1[k] \in Int /\ c1[k] <= c2[k] /\ d2[k] <= d1[k]
    <2>1. c1[k] = c2[k] /\ d2[k] = d1[k]
      BY <1>3, <1>4, <1>6, <1>7, SameStorageSameValues
    <2> HIDE DEF c1, c2, d1, d2
    <2> QED
      BY <1>6, <2>1
  <1>8. CASE config.creditLimits[a] = UIntMax
    <2>1. Covered(a, S, c2, d2, 1)
      BY <1>8 DEF Covered
    <2> QED
      BY <2>1, ShortfallLater
  <1>9. CASE config.creditLimits[a] # UIntMax
    <2>1. ExchangeRateStored(m) \in Nat
      <3>1. ExchangeRateStored(t[j]) \in Nat
        BY <1>4, <1>9, ReadableRate DEF t
      <3> QED
        BY <1>4, <3>1
    <2>2. CollateralValue(t, j, a) \in Nat /\ e \in Nat
      <3>1. ExchangeRateStored(t[j]) >= 0
        BY <1>4, <2>1
      <3> QED
        BY <1>1, <3>1, ValueTypes
    <2>3. /\ CollateralValue(jToken', j, a) \in Nat
          /\ BorrowValue(jToken', j, a) + CollateralValue(t, j, a)
               <= CollateralValue(jToken', j, a) + BorrowValue(t, j, a) + e + 1
          /\ BorrowValue(jToken', j, a) <= BorrowValue(t, j, a) + e + 1
      BY <2>1 DEF t
    <2> HIDE DEF e
    <2>4. /\ c1[j] = CollateralValue(t, j, a) /\ c2[j] = CollateralValue(jToken', j, a)
          /\ d2[j] = BorrowValue(jToken', j, a) /\ d2[j] \in Nat
          /\ BorrowValue(t, j, a) \in Nat /\ d1[j] = BorrowValue(t, j, a) + e
      BY <1>6 DEF e
    <2> HIDE DEF c1, c2, d1, d2
    <2>5. /\ c1[j] \in Nat /\ d1[j] \in Nat /\ c2[j] \in Nat /\ d2[j] \in Nat
          /\ d2[j] + c1[j] <= c2[j] + d1[j] + 1 /\ d2[j] <= d1[j] + 1
      BY <2>2, <2>3, <2>4
    <2>6. \A k \in S : /\ c1[k] \in Int /\ d1[k] \in Int /\ c2[k] \in Int /\ d2[k] \in Int
                       /\ k # j => c1[k] <= c2[k] /\ d2[k] <= d1[k]
      <3>1. TAKE k \in S
      <3>2. c1[k] \in Int /\ c2[k] \in Int /\ d2[k] \in Int
        BY <1>6
      <3>3. CASE k = j
        BY <2>5, <3>2, <3>3
      <3>4. CASE k # j
        BY <1>7, <3>2, <3>4
      <3> QED
        BY <3>3, <3>4
    <2>7. Covered(a, S, c2, d2, 1)
      BY <1>2, <1>3, <1>5, <2>5, <2>6, CoverageOfEffect
    <2> QED
      BY <2>7, ShortfallLater DEF c2, d2
  <1> QED
    BY <1>8, <1>9

(* A member spends collateral that the Joetroller agreed to.               *)
LEMMA SpentIsUnhurt ==
    ASSUME Inv, Inv', config' = config, price' = price, accountMembership' = accountMembership,
           NEW j \in JToken, NEW a \in accountMembership[j],
           NEW m, Sound(m, accountMembership[j], now), Alike(jToken[j], m, accountMembership[j]),
           NEW tokens \in Nat, ~RedeemReverts(With(j, m), j, a),
           RedeemAllowed(With(j, m), j, a, tokens),
           NEW n, jToken' = With(j, n),
           JTokenBalance(n, a) = JTokenBalance(m, a) - tokens,
           BorrowBalanceStored(n, a) = BorrowBalanceStored(m, a)
    PROVE  Unhurt(a)
PROOF
  <1> SUFFICES ASSUME RatesHold(a)
               PROVE  (ShortfallOf(a))' <= 1
    BY DEF Unhurt
  <1> DEFINE S == Entered(a)
             assets == accountAssets[a]
             t == With(j, m)
  <1>1. /\ a \in Account /\ SettingsTyped /\ ListsExactly(assets, S)
        /\ j \in S /\ S = ToSet(assets) /\ Entered(a)' = S
    BY DEF Inv, TrollerSound, ArraysMatch, Entered, ListsExactly
  <1>2. m \in MarketType /\ BorrowBalanceStored(m, a) \in Nat
    BY <1>1, BorrowBalanceType DEF Sound
  <1>3. /\ ~LiquidityReverts(t, assets, a)
        /\ Liquidity(t, assets, a, j, tokens, 0).shortfall = 0
    BY DEF RedeemReverts, RedeemAllowed
  <1>4. t[j] = m /\ jToken'[j] = n
    BY MarketAfter
  <1>5. ExchangeRateStored(n) >= ExchangeRateStored(m)
    BY <1>1, <1>4 DEF RatesHold, Alike
  <1>6. n \in MarketType
    BY <1>4 DEF Inv, Storages
  <1> DEFINE x == TokensToDenom(t, j)
             y == TokensToDenom(jToken', j)
             b == JTokenBalance(m, a)
             o == BorrowBalanceStored(m, a)
             p == price[j]
  <1>7. ASSUME ExchangeRateStored(m) \in Nat
        PROVE  /\ CollateralValue(jToken', j, a) \in Nat
               /\ BorrowValue(jToken', j, a) + CollateralValue(t, j, a)
                    <= CollateralValue(jToken', j, a) + BorrowValue(t, j, a)
                       + EffectValue(t, j, tokens, 0) + 1
               /\ BorrowValue(jToken', j, a)
                    <= BorrowValue(t, j, a) + EffectValue(t, j, tokens, 0) + 1
    <2>1. ExchangeRateStored(n) \in Int /\ ExchangeRateStored(m) <= ExchangeRateStored(n)
          /\ ExchangeRateStored(m) >= 0
      BY <1>5, <1>6, <1>7, RateType
    <2>2. x \in Int /\ y \in Int /\ x <= y /\ x \in Nat
      BY <1>1, <1>2, <1>4, <1>6, <2>1, DenomFollowsRate
    <2>3. p \in Nat /\ o \in Nat /\ b \in Nat /\ JTokenBalance(n, a) \in Nat
      BY <1>1, <1>2, <1>6, SettingTypes, BalanceType
    <2>4. JTokenBalance(n, a) = b - tokens
      OBVIOUS
    <2>5. /\ CollateralValue(t, j, a) = (x * b) \div expScale
          /\ CollateralValue(jToken', j, a) = (y * (b - tokens)) \div expScale
          /\ BorrowValue(t, j, a) = (p * o) \div expScale
          /\ BorrowValue(jToken', j, a) = (p * o) \div expScale
          /\ EffectValue(t, j, tokens, 0) = (x * tokens) \div expScale + (p * 0) \div expScale
      BY <1>4 DEF CollateralValue, BorrowValue, EffectValue, MulScalarTruncate, Truncate
    <2> HIDE DEF x, y, b, o, p
    <2>6. tokens <= b /\ y \in Nat
      BY <2>2, <2>3, <2>4
    <2>7. /\ (y * (b - tokens)) \div expScale \in Nat
          /\ (x * b) \div expScale
               <= ((y * (b - tokens)) \div expScale) + ((x * tokens) \div expScale) + 1
      BY <2>2, <2>3, <2>6, SpentValue
    <2>8. p * 0 = 0 /\ 0 \div expScale = 0
      BY <2>3, ExpScaleAssumption
    <2>9. /\ (x * tokens) \div expScale \in Nat /\ (p * o) \div expScale \in Nat
          /\ (x * b) \div expScale \in Nat
      <3>1. x \in Int /\ p \in Int /\ x <= x /\ p <= p
        BY <2>2, <2>3
      <3> QED
        BY <2>2, <2>3, <3>1, ExpProduct
    <2> DEFINE xb == (x * b) \div expScale
               xt == (x * tokens) \div expScale
               yr == (y * (b - tokens)) \div expScale
               po == (p * o) \div expScale
    <2>10. /\ CollateralValue(t, j, a) = xb /\ CollateralValue(jToken', j, a) = yr
           /\ BorrowValue(t, j, a) = po /\ BorrowValue(jToken', j, a) = po
           /\ EffectValue(t, j, tokens, 0) = xt + 0
           /\ xb \in Nat /\ xt \in Nat /\ yr \in Nat /\ po \in Nat
           /\ xb <= yr + xt + 1
      BY <2>5, <2>7, <2>8, <2>9
    <2> HIDE DEF xb, xt, yr, po, t
    <2> QED
      BY <2>10
  <1> HIDE DEF assets, S
  <1> QED
    BY <1>1, <1>2, <1>3, <1>7, CheckedIsUnhurt

--------------------------------------------------------------------------------
(***************************************************************************)
(* Suppliers.                                                              *)
(***************************************************************************)

(* A call after which j's index is that of the accrual m0 found no new     *)
(* interest, if interest is stable.                                        *)
LEMMA IndexStands ==
    ASSUME Inv, NEW j \in JToken, InterestIsStable, NEW m0, jToken'[j].borrowIndex = m0.borrowIndex
    PROVE  m0.borrowIndex = jToken[j].borrowIndex
BY DEF InterestIsStable

LEMMA MintedBalances ==
    ASSUME NEW m \in MarketType, NEW b \in Account, NEW actual \in Nat, ~MintFreshReverts(m),
           NEW isMember \in BOOLEAN, NEW a \in Account
    PROVE  LET n == MintFresh(m, b, actual, isMember)
           IN  n \in MarketType => JTokenBalance(m, a) <= JTokenBalance(n, a)
PROOF
  <1> DEFINE n == MintFresh(m, b, actual, isMember)
             tokens == MintTokens(m, actual)
             m1 == [DoTransferIn(m, actual) EXCEPT
                      !.totalSupply = @ + tokens, !.accountTokens[b] = @ + tokens]
             more == CollateralIncrease(m1, tokens)
  <1>1. tokens \in Nat /\ n.accountTokens = [m.accountTokens EXCEPT ![b] = @ + tokens]
    BY MintedTokens
  <1> HIDE DEF tokens
  <1>2. /\ m1.isCollateralTokenInit = m.isCollateralTokenInit
        /\ m1.accountCollateralTokens = m.accountCollateralTokens
        /\ m1.totalCollateralTokens = m.totalCollateralTokens
        /\ m1.collateralCap = m.collateralCap
    BY DEF DoTransferIn, MarketType
  <1>3. more \in Nat
    <2>1. m.collateralCap \in Nat /\ m.totalCollateralTokens \in Nat
      BY DEF MarketType
    <2> HIDE DEF m1
    <2> QED
      BY <1>1, <1>2, <2>1 DEF CollateralIncrease
  <1>4. /\ n.isCollateralTokenInit = m.isCollateralTokenInit
        /\ \/ n.accountCollateralTokens = m.accountCollateralTokens
           \/ n.accountCollateralTokens = [m.accountCollateralTokens EXCEPT ![b] = @ + more]
    <2>1. n = IF isMember THEN IncreaseUserCollateral(m1, b, tokens) ELSE m1
      BY DEF MintFresh, tokens
    <2>2. CASE isMember
      <3>1. n = [m1 EXCEPT !.totalCollateralTokens = @ + more,
                           !.accountCollateralTokens[b] = @ + more]
        BY <2>1, <2>2 DEF IncreaseUserCollateral
      <3>2. m1 = [m EXCEPT !.cashOnChain = m1.cashOnChain, !.internalCash = m1.internalCash,
                           !.totalSupply = m1.totalSupply, !.accountTokens = m1.accountTokens]
        BY DEF DoTransferIn, MarketType
      <3> HIDE DEF m1, more, n
      <3> QED
        BY <1>2, <3>1, <3>2 DEF MarketType
    <2>3. CASE ~isMember
      BY <1>2, <2>1, <2>3
    <2> QED
      BY <2>2, <2>3
  <1> HIDE DEF n, more
  <1>5. m.accountTokens \in [Account -> Nat] /\ m.accountCollateralTokens \in [Account -> Nat]
    BY DEF MarketType
  <1>6. /\ m.accountTokens[a] <= n.accountTokens[a]
        /\ m.accountCollateralTokens[a] <= n.accountCollateralTokens[a]
    BY <1>1, <1>3, <1>4, <1>5
  <1>7. JTokenBalance(m, a) <= JTokenBalance(n, a)
    BY <1>4, <1>6 DEF JTokenBalance
  <1> QED
    BY <1>7 DEF n

LEMMA MintedDebts ==
    ASSUME NEW m \in MarketType, NEW b \in Account, NEW actual \in Nat, NEW isMember \in BOOLEAN
    PROVE  /\ MintFresh(m, b, actual, isMember).borrowIndex = m.borrowIndex
           /\ MintFresh(m, b, actual, isMember).accountBorrows = m.accountBorrows
BY SMTT(30) DEF MintFresh, DoTransferIn, IncreaseUserCollateral, MarketType

LEMMA MintIsUnhurt ==
    ASSUME Inv, Inv', NEW j \in JToken, NEW b \in Account, NEW amount \in Amounts,
           Mint(j, b, amount), NEW a \in Account
    PROVE  Unhurt(a)
PROOF
  <1> SUFFICES ASSUME InterestIsStable PROVE Unhurt(a)
    BY DEF Unhurt
  <1>1. PICK m0 \in Accruals(jToken[j], now) :
          LET m == Initialized(m0, j, b)
          IN  \/ jToken' = With(j, m)
              \/ /\ ~MintFreshReverts(m)
                 /\ \E actual \in Received(m, amount) :
                      jToken' = With(j, MintFresh(m, b, actual, b \in accountMembership[j]))
    BY DEF Mint
  <1>0. config' = config /\ price' = price /\ accountMembership' = accountMembership
    BY DEF Mint, TrollerUnchanged, trollerVars
  <1> DEFINE m == Initialized(m0, j, b)
             isMember == b \in accountMembership[j]
             n == jToken'[j]
  <1>2. Sound(m, accountMembership[j], now) /\ Sound(m0, accountMembership[j], now)
    BY PreparedIsAtRest
  <1>3. isMember \in BOOLEAN /\ m \in MarketType /\ amount \in Nat /\ n \in MarketType
    BY <1>2, JoeLendingAssumption DEF Sound, Inv, Storages
  <1>4. m.borrowIndex = m0.borrowIndex
    BY <1>2, InitializedIsAtRest DEF Sound
  <1>5. m0.borrowIndex = jToken[j].borrowIndex => Alike(jToken[j], m, accountMembership[j])
    BY PreparedIsAlike
  <1>6. /\ jToken' = With(j, n)
        /\ \/ n = m
           \/ /\ ~MintFreshReverts(m)
              /\ \E actual \in Received(m, amount) : n = MintFresh(m, b, actual, isMember)
    BY <1>1, MarketAfter
  <1> HIDE DEF m, isMember
  <1>7. n = m \/ \E actual \in Nat : ~MintFreshReverts(m) /\ n = MintFresh(m, b, actual, isMember)
    BY <1>3, <1>6, ReceivedType
  <1>8. /\ n.borrowIndex = m.borrowIndex
        /\ n.accountBorrows = m.accountBorrows
        /\ JTokenBalance(m, a) <= JTokenBalance(n, a)
    <2>1. CASE n = m
      <3>1. JTokenBalance(m, a) \in Nat
        BY <1>3, BalanceType
      <3> HIDE DEF n
      <3> QED
        BY <2>1, <3>1
    <2>2. ASSUME NEW actual \in Nat, ~MintFreshReverts(m), n = MintFresh(m, b, actual, isMember)
          PROVE  /\ n.borrowIndex = m.borrowIndex
                 /\ n.accountBorrows = m.accountBorrows
                 /\ JTokenBalance(m, a) <= JTokenBalance(n, a)
      <3> DEFINE minted == MintFresh(m, b, actual, isMember)
      <3>1. minted \in MarketType /\ n = minted
        BY <1>3, <2>2
      <3>2. m \in MarketType /\ isMember \in BOOLEAN /\ ~MintFreshReverts(m)
        BY <1>3, <2>2
      <3>3. minted.borrowIndex = m.borrowIndex /\ minted.accountBorrows = m.accountBorrows
        BY <3>2, MintedDebts, Zenon
      <3>4. JTokenBalance(m, a) <= JTokenBalance(minted, a)
        BY <3>1, <3>2, MintedBalances, ZenonT(60)
      <3> HIDE DEF minted, n
      <3> QED
        BY <3>1, <3>3, <3>4
    <2> QED
      BY <1>7, <2>1, <2>2
  <1>9. Alike(jToken[j], m, accountMembership[j])
    BY <1>4, <1>5, <1>8, IndexStands
  <1>10. ASSUME a \in accountMembership[j] PROVE NoWorse(jToken[j], n, a)
    <2>1. NoWorse(jToken[j], m, a)
      BY <1>9, <1>10, AlikeIsNoWorse
    <2>2. BorrowBalanceStored(n, a) = BorrowBalanceStored(m, a)
      BY <1>8 DEF BorrowBalanceStored
    <2>3. /\ JTokenBalance(m, a) \in Nat /\ JTokenBalance(n, a) \in Nat
          /\ JTokenBalance(jToken[j], a) \in Nat
      BY <1>3, BalanceType DEF Inv, Storages
    <2> HIDE DEF n
    <2> QED
      BY <1>8, <2>1, <2>2, <2>3 DEF NoWorse
  <1> HIDE DEF n
  <1> QED
    BY <1>0, <1>6, <1>10, CallIsUnhurt

(* One account gives collateral, and no other account nor a debt changes   *)
(* for the worse.                                                          *)
Pays(m, n, b, spent) ==
    /\ JTokenBalance(n, b) = JTokenBalance(m, b) - spent
    /\ \A a \in Account \ {b} : JTokenBalance(m, a) <= JTokenBalance(n, a)
    /\ \A a \in Account : BorrowBalanceStored(n, a) = BorrowBalanceStored(m, a)

(* Who may pay by the Joetroller is not hurt, nor is anybody else. *)
LEMMA PaymentIsUnhurt ==
    ASSUME Inv, Inv', config' = config, price' = price, accountMembership' = accountMembership,
           NEW j \in JToken, NEW b \in Account,
           NEW m, Sound(m, accountMembership[j], now), Alike(jToken[j], m, accountMembership[j]),
           NEW tokens \in Nat, ~RedeemReverts(With(j, m), j, b),
           RedeemAllowed(With(j, m), j, b, tokens),
           NEW n, jToken' = With(j, n), Pays(m, n, b, tokens), NEW a \in Account
    PROVE  Unhurt(a)
PROOF
  <1>1. m \in MarketType /\ n \in MarketType
    BY MarketAfter DEF Sound, Inv, Storages
  <1>2. CASE a = b /\ a \in accountMembership[j]
    <2>1. /\ JTokenBalance(n, a) = JTokenBalance(m, a) - tokens
          /\ BorrowBalanceStored(n, a) = BorrowBalanceStored(m, a)
      BY <1>2 DEF Pays
    <2> QED
      BY <1>2, <2>1, SpentIsUnhurt
  <1>3. CASE ~(a = b /\ a \in accountMembership[j])
    <2>1. ASSUME a \in accountMembership[j] PROVE NoWorse(jToken[j], n, a)
      <3>1. NoWorse(jToken[j], m, a)
        BY <2>1, AlikeIsNoWorse
      <3>2. /\ JTokenBalance(m, a) <= JTokenBalance(n, a)
            /\ BorrowBalanceStored(n, a) = BorrowBalanceStored(m, a)
        BY <1>3, <2>1 DEF Pays
      <3>3. /\ JTokenBalance(jToken[j], a) \in Nat /\ JTokenBalance(m, a) \in Nat
            /\ JTokenBalance(n, a) \in Nat
        BY <1>1, BalanceType DEF Inv, Storages
      <3> QED
        BY <3>1, <3>2, <3>3 DEF NoWorse
    <2> QED
      BY <2>1, CallIsUnhurt
  <1> QED
    BY <1>2, <1>3

(* What is paid out of a market, and the collateral that goes with it.     *)
LEMMA RedeemedBalances ==
    ASSUME NEW m \in MarketType, NEW b \in Account, m.isCollateralTokenInit[b] = TRUE,
           NEW tokens \in Nat, NEW amount \in Nat, NEW n, n = RedeemFresh(m, b, tokens, amount)
    PROVE  Pays(m, n, b, CollateralTokensOf(m, b, tokens))
PROOF
  <1> DEFINE spent == CollateralTokensOf(m, b, tokens)
  <1>1. /\ n.accountTokens = [m.accountTokens EXCEPT ![b] = @ - tokens]
        /\ n.accountCollateralTokens = [m.accountCollateralTokens EXCEPT ![b] = @ - spent]
        /\ n.isCollateralTokenInit = m.isCollateralTokenInit
        /\ n.accountBorrows = m.accountBorrows /\ n.borrowIndex = m.borrowIndex
    <2> HIDE DEF spent
    <2> QED
      BY DEF RedeemFresh, RedeemPaidOut, DoTransferOut, DecreaseUserCollateral, MarketType, spent
  <1> HIDE DEF spent
  <1>2. /\ n.accountCollateralTokens[b] = m.accountCollateralTokens[b] - spent
        /\ \A a \in Account \ {b} : /\ n.accountTokens[a] = m.accountTokens[a]
                                    /\ n.accountCollateralTokens[a] = m.accountCollateralTokens[a]
    BY <1>1 DEF MarketType
  <1>3. /\ JTokenBalance(n, b) = JTokenBalance(m, b) - spent
        /\ \A a \in Account \ {b} : JTokenBalance(n, a) = JTokenBalance(m, a)
    BY <1>1, <1>2 DEF JTokenBalance
  <1>4. \A a \in Account \ {b} : JTokenBalance(m, a) <= JTokenBalance(n, a)
    <2>1. \A a \in Account : JTokenBalance(m, a) \in Nat
      BY BalanceType
    <2> QED
      BY <1>3, <2>1
  <1>5. \A a \in Account : BorrowBalanceStored(n, a) = BorrowBalanceStored(m, a)
    BY <1>1 DEF BorrowBalanceStored
  <1> QED
    BY <1>3, <1>4, <1>5 DEF spent, Pays

LEMMA RedeemedIndex ==
    ASSUME NEW m \in MarketType, NEW b \in Account, NEW tokens \in Nat, NEW amount \in Nat,
           NEW n, n = RedeemFresh(m, b, tokens, amount)
    PROVE  n.borrowIndex = m.borrowIndex
BY DEF RedeemFresh, RedeemPaidOut, DoTransferOut, DecreaseUserCollateral, MarketType

LEMMA SpentType ==
    ASSUME NEW m \in MarketType, NEW b \in Account, NEW tokens \in Nat
    PROVE  CollateralTokensOf(m, b, tokens) \in Nat
BY FieldTypes DEF CollateralTokensOf, BufferTokens

LEMMA RedeemIsUnhurt ==
    ASSUME Inv, Inv', NEW j \in JToken, NEW b \in Account, NEW tokensIn \in Nat,
           NEW amountIn \in Nat, Redeem(j, b, tokensIn, amountIn), NEW a \in Account
    PROVE  Unhurt(a)
PROOF
  <1> SUFFICES ASSUME InterestIsStable PROVE Unhurt(a)
    BY DEF Unhurt
  <1>1. PICK m0 \in Accruals(jToken[j], now) :
          LET m          == Initialized(m0, j, b)
              tokens     == RedeemTokens(m, tokensIn, amountIn)
              amount     == RedeemAmount(m, tokensIn, amountIn)
              collateral == CollateralTokensOf(m, b, tokens)
          IN  /\ ~RedeemTokensReverts(m, tokensIn)
              /\ ~RedeemReverts(With(j, m), j, b)
              /\ \/ jToken' = With(j, m)
                 \/ /\ RedeemAllowed(With(j, m), j, b, collateral)
                    /\ jToken' = With(j, RedeemFresh(m, b, tokens, amount))
    BY DEF Redeem
  <1>0. config' = config /\ price' = price /\ accountMembership' = accountMembership
    BY DEF Redeem, TrollerUnchanged, trollerVars
  <1> DEFINE m          == Initialized(m0, j, b)
             tokens     == RedeemTokens(m, tokensIn, amountIn)
             amount     == RedeemAmount(m, tokensIn, amountIn)
             collateral == CollateralTokensOf(m, b, tokens)
             n          == jToken'[j]
  <1>2. Sound(m, accountMembership[j], now) /\ Sound(m0, accountMembership[j], now)
    BY PreparedIsAtRest
  <1>3. m.borrowIndex = m0.borrowIndex /\ m \in MarketType
    BY <1>2, InitializedIsAtRest DEF Sound
  <1>4. m0.borrowIndex = jToken[j].borrowIndex =>
          /\ Alike(jToken[j], m, accountMembership[j])
          /\ m.isCollateralTokenInit[b] = TRUE
    BY PreparedIsAlike
  <1>5. /\ ~RedeemTokensReverts(m, tokensIn) /\ ~RedeemReverts(With(j, m), j, b)
        /\ jToken' = With(j, n)
        /\ \/ n = m
           \/ /\ RedeemAllowed(With(j, m), j, b, collateral)
              /\ n = RedeemFresh(m, b, tokens, amount)
    BY <1>1, MarketAfter
  <1> HIDE DEF m
  <1>6. tokens \in Nat /\ amount \in Nat
    BY <1>3, <1>5, RedeemTypes
  <1> HIDE DEF tokens, amount
  <1>7. collateral \in Nat
    BY <1>3, <1>6, SpentType
  <1> HIDE DEF n
  <1>8. n.borrowIndex = m.borrowIndex
    BY <1>3, <1>5, <1>6, RedeemedIndex
  <1>9. Alike(jToken[j], m, accountMembership[j]) /\ m.isCollateralTokenInit[b] = TRUE
    BY <1>3, <1>4, <1>8, IndexStands DEF n
  <1>10. CASE n = m
    <2>1. a \in accountMembership[j] => NoWorse(jToken[j], n, a)
      BY <1>9, <1>10, AlikeIsNoWorse
    <2> QED
      BY <1>0, <1>5, <2>1, CallIsUnhurt
  <1>11. CASE /\ RedeemAllowed(With(j, m), j, b, collateral)
              /\ n = RedeemFresh(m, b, tokens, amount)
    <2>1. n = RedeemFresh(m, b, tokens, amount) /\ m.isCollateralTokenInit[b] = TRUE
      BY <1>9, <1>11
    <2>2. Pays(m, n, b, collateral)
      BY <1>3, <1>6, <2>1, RedeemedBalances
    <2> HIDE DEF collateral
    <2> QED
      BY <1>0, <1>2, <1>5, <1>7, <1>9, <1>11, <2>2, PaymentIsUnhurt
  <1> QED
    BY <1>5, <1>10, <1>11

(* A transfer takes collateral from the sender only. *)
LEMMA TransferredBalances ==
    ASSUME NEW m \in MarketType, NEW src \in Account, NEW dst \in Account, src # dst,
           m.isCollateralTokenInit[src] = TRUE, m.isCollateralTokenInit[dst] = TRUE,
           NEW tokens \in Nat, NEW n, n = TransferTokens(m, src, src, dst, tokens)
    PROVE  Pays(m, n, src, CollateralTokensOf(m, src, tokens))
PROOF
  <1> DEFINE spent == CollateralTokensOf(m, src, tokens)
  <1>1. spent \in Nat
    BY SpentType
  <1>2. /\ n.accountTokens = Moved(m.accountTokens, src, tokens, dst, tokens)
        /\ n.accountCollateralTokens = Moved(m.accountCollateralTokens, src, spent, dst, spent)
        /\ n.isCollateralTokenInit = m.isCollateralTokenInit
        /\ n.accountBorrows = m.accountBorrows /\ n.borrowIndex = m.borrowIndex
    <2> HIDE DEF spent
    <2> QED
      BY DEF TransferTokens, MarketType, spent
  <1> HIDE DEF spent
  <1>3. /\ m.accountCollateralTokens \in [Account -> Nat] /\ m.accountTokens \in [Account -> Nat]
    BY DEF MarketType
  <1>4. /\ n.accountCollateralTokens[src] = m.accountCollateralTokens[src] - spent
        /\ n.accountCollateralTokens[dst] = m.accountCollateralTokens[dst] + spent
        /\ \A a \in Account \ {src, dst} :
              /\ n.accountTokens[a] = m.accountTokens[a]
              /\ n.accountCollateralTokens[a] = m.accountCollateralTokens[a]
    BY <1>2, <1>3 DEF Moved
  <1>5. /\ JTokenBalance(n, src) = JTokenBalance(m, src) - spent
        /\ JTokenBalance(n, dst) = JTokenBalance(m, dst) + spent
        /\ \A a \in Account \ {src, dst} : JTokenBalance(n, a) = JTokenBalance(m, a)
    BY <1>2, <1>4 DEF JTokenBalance
  <1>6. ASSUME NEW a \in Account \ {src} PROVE JTokenBalance(m, a) <= JTokenBalance(n, a)
    <2>1. JTokenBalance(m, a) \in Nat
      BY BalanceType
    <2> QED
      BY <1>1, <1>5, <2>1
  <1>7. \A a \in Account : BorrowBalanceStored(n, a) = BorrowBalanceStored(m, a)
    BY <1>2 DEF BorrowBalanceStored
  <1> QED
    BY <1>5, <1>6, <1>7 DEF spent, Pays

LEMMA TransferIsUnhurt ==
    ASSUME Inv, Inv', NEW j \in JToken, NEW src \in Account, NEW dst \in Account,
           NEW tokens \in Amounts, Transfer(j, src, dst, tokens), NEW a \in Account
    PROVE  Unhurt(a)
PROOF
  <1> DEFINE m1         == Initialized(jToken[j], j, src)
             m          == Initialized(m1, j, dst)
             collateral == CollateralTokensOf(m, src, tokens)
             mem        == accountMembership[j]
             n          == jToken'[j]
  <1>0. config' = config /\ price' = price /\ accountMembership' = accountMembership
    BY DEF Transfer, TrollerUnchanged, trollerVars
  <1>1. /\ ~TransferReverts(With(j, m), j, src, dst)
        /\ \/ jToken' = With(j, m)
           \/ /\ src # dst
              /\ RedeemAllowed(With(j, m), j, src, collateral)
              /\ jToken' = With(j, TransferTokens(m, src, src, dst, tokens))
    BY DEF Transfer
  <1>2. /\ ~RedeemReverts(With(j, m), j, src)
        /\ jToken' = With(j, n)
        /\ \/ n = m
           \/ /\ src # dst
              /\ RedeemAllowed(With(j, m), j, src, collateral)
              /\ n = TransferTokens(m, src, src, dst, tokens)
    BY <1>1, MarketAfter DEF TransferReverts
  <1>3. /\ Sound(jToken[j], mem, now) /\ Sound(m1, mem, now) /\ Sound(m, mem, now)
        /\ mem \subseteq Account
    BY InitializedIsSound DEF Inv, Storages, TrollerSound, ArraysMatch
  <1>4. tokens \in Nat /\ m \in MarketType /\ m1 \in MarketType /\ jToken[j] \in MarketType
    BY <1>3, JoeLendingAssumption DEF Sound
  <1> HIDE DEF mem, m
  <1>5. /\ Alike(jToken[j], m1, mem) /\ m1.isCollateralTokenInit[src] = TRUE
    BY <1>3, <1>4, InitializedIsAlike DEF mem
  <1>6. /\ Alike(m1, m, mem) /\ m.isCollateralTokenInit[src] = TRUE
        /\ m.isCollateralTokenInit[dst] = TRUE
    <2> HIDE DEF m1
    <2> QED
      BY <1>3, <1>4, <1>5, InitializedIsAlike DEF mem, m
  <1>7. Alike(jToken[j], m, mem)
    BY <1>5, <1>6, AlikeIsTransitive
  <1> HIDE DEF m1
  <1>8. collateral \in Nat
    BY <1>4, SpentType
  <1> HIDE DEF n
  <1>9. CASE n = m
    <2>1. a \in accountMembership[j] => NoWorse(jToken[j], n, a)
      BY <1>7, <1>9, AlikeIsNoWorse DEF mem
    <2> QED
      BY <1>0, <1>2, <2>1, CallIsUnhurt
  <1>10. CASE /\ src # dst
              /\ RedeemAllowed(With(j, m), j, src, collateral)
              /\ n = TransferTokens(m, src, src, dst, tokens)
    <2>1. n = TransferTokens(m, src, src, dst, tokens) /\ src # dst
      BY <1>10
    <2>2. Pays(m, n, src, collateral)
      BY <1>4, <1>6, <2>1, TransferredBalances
    <2> HIDE DEF collateral
    <2> QED
      BY <1>0, <1>2, <1>3, <1>7, <1>8, <1>10, <2>2, PaymentIsUnhurt DEF mem
  <1> QED
    BY <1>2, <1>9, <1>10

--------------------------------------------------------------------------------
(***************************************************************************)
(* Entering and leaving markets.                                           *)
(***************************************************************************)

(* A call of one market that may enter b there, where b then owes nothing. *)
LEMMA EnteringIsUnhurt ==
    ASSUME Inv, Inv', config' = config, price' = price, NEW j \in JToken, NEW b \in Account,
           accountMembership' = [accountMembership EXCEPT ![j] = @ \cup {b}],
           NEW n, jToken' = With(j, n), NEW a \in Account,
           a \in accountMembership[j] => NoWorse(jToken[j], n, a),
           a = b /\ a \notin accountMembership[j] => BorrowBalanceStored(n, a) = 0
    PROVE  Unhurt(a)
PROOF
  <1>1. accountMembership \in [JToken -> SUBSET Account]
    BY DEF Inv, TrollerSound, ArraysMatch
  <1>2. jToken'[j] = n /\ \A k \in JToken : k # j => jToken'[k] = jToken[k]
    BY MarketAfter DEF Inv, Storages
  <1>3. Entered(a) \subseteq Entered(a)'
    BY <1>1 DEF Entered
  <1>4. ASSUME NEW k \in Entered(a)' \ Entered(a) PROVE BorrowBalanceStored(jToken'[k], a) = 0
    <2>1. k = j /\ a = b /\ a \notin accountMembership[j]
      BY <1>1, <1>4 DEF Entered
    <2> QED
      BY <1>2, <2>1
  <1>5. ASSUME NEW k \in Entered(a) PROVE NoWorse(jToken[k], jToken'[k], a)
    <2>1. k \in JToken /\ a \in accountMembership[k]
      BY DEF Entered
    <2>2. CASE k = j
      BY <1>2, <2>1, <2>2
    <2>3. CASE k # j
      <3>1. JTokenBalance(jToken[k], a) \in Nat /\ BorrowBalanceStored(jToken[k], a) \in Nat
        BY <2>1, BalanceType, BorrowBalanceType DEF Inv, Storages
      <3> QED
        BY <1>2, <2>1, <2>3, <3>1 DEF NoWorse
    <2> QED
      BY <2>2, <2>3
  <1> QED
    BY <1>3, <1>4, <1>5, NoWorseIsUnhurt

(* The members keep their collateral, and everybody the debts. *)
Raised(m, n, mem) ==
    /\ n.borrowIndex = m.borrowIndex /\ n.accountBorrows = m.accountBorrows
    /\ \A a \in mem : JTokenBalance(m, a) <= JTokenBalance(n, a)

Registered(m, j, b) == RegisterCollateral(m, b, b \in accountMembership[j])

(* Registering the tokens of b as collateral takes nothing from a member.  *)
LEMMA RegisteredIsNoWorse ==
    ASSUME NEW m, NEW j \in JToken, Sound(m, accountMembership[j], now), NEW b \in Account,
           accountMembership[j] \subseteq Account,
           NEW n, n = Registered(m, j, b)
    PROVE  Raised(m, n, accountMembership[j])
PROOF
  <1> DEFINE mem == accountMembership[j]
             m1 == Initialized(m, j, b)
             increase == CollateralIncrease(m1, BufferTokens(m1, b))
  <1>1. m \in MarketType
    BY DEF Sound
  <1>0. m1 = Initialized(m, j, b)
    OBVIOUS
  <1>5. n = IncreaseUserCollateral(m1, b, BufferTokens(m1, b))
    BY DEF Registered, RegisterCollateral, Initialized
  <1> HIDE DEF m1
  <1>2. /\ Alike(m, m1, mem) /\ m1.isCollateralTokenInit[b] = TRUE /\ m1.borrowIndex = m.borrowIndex
    BY <1>0, <1>1, InitializedIsAlike
  <1>3. Sound(m1, mem, now) /\ m1 \in MarketType
    BY <1>0, InitializedIsSound DEF Sound
  <1>4. m1.accountBorrows = m.accountBorrows
    BY <1>0, <1>1, InitializedIsAtRest DEF AtRest
  <1>6. BufferTokens(m1, b) \in Nat
    BY <1>3, FieldTypes DEF Sound, CollateralHeld, BufferTokens
  <1>7. increase \in Nat
    BY <1>3, <1>6, CollateralIncreaseBound
  <1>8. /\ n.borrowIndex = m1.borrowIndex /\ n.accountBorrows = m1.accountBorrows
        /\ n.isCollateralTokenInit = m1.isCollateralTokenInit
        /\ n.accountTokens = m1.accountTokens
        /\ n.accountCollateralTokens = [m1.accountCollateralTokens EXCEPT ![b] = @ + increase]
    <2> HIDE DEF increase
    <2> QED
      BY <1>3, <1>5 DEF IncreaseUserCollateral, MarketType, increase
  <1> HIDE DEF increase
  <1>9. ASSUME NEW a \in mem PROVE JTokenBalance(m, a) <= JTokenBalance(n, a)
    <2>1. JTokenBalance(m1, a) = JTokenBalance(m, a) /\ JTokenBalance(m, a) \in Nat
      BY <1>1, <1>2, BalanceType DEF Alike
    <2>2. CASE a = b
      <3>1. JTokenBalance(n, b) = JTokenBalance(m1, b) + increase
        BY <1>2, <1>3, <1>8 DEF JTokenBalance, MarketType
      <3> QED
        BY <1>7, <2>1, <2>2, <3>1
    <2>3. CASE a # b
      <3>1. JTokenBalance(n, a) = JTokenBalance(m1, a)
        BY <1>3, <1>8, <2>3 DEF JTokenBalance, MarketType
      <3> QED
        BY <2>1, <3>1
    <2> QED
      BY <2>2, <2>3
  <1> QED
    BY <1>2, <1>4, <1>8, <1>9 DEF Raised

(* A debt of a non-member is none. *)
LEMMA StrangersOweNothing ==
    ASSUME NEW m, NEW mem, NEW t, Sound(m, mem, t), NEW a \in Account, a \notin mem
    PROVE  BorrowBalanceStored(m, a) = 0
PROOF
  <1>1. m.accountBorrows[a].principal \in Nat
    BY DEF Sound, MarketType, BorrowSnapshot
  <1> QED
    BY <1>1, BorrowBalanceType DEF Sound, DebtorsAreIn

LEMMA EnterMarketIsUnhurt ==
    ASSUME Inv, Inv', NEW j \in JToken, NEW b \in Account, EnterMarket(j, b), NEW a \in Account
    PROVE  Unhurt(a)
PROOF
  <1> DEFINE mem == accountMembership[j]
             n == jToken'[j]
  <1>0. jToken' = With(j, Registered(jToken[j], j, b))
    BY DEF EnterMarket, Registered
  <1>1. /\ jToken' = With(j, n) /\ n = Registered(jToken[j], j, b)
        /\ config' = config /\ price' = price
        /\ accountMembership' = [accountMembership EXCEPT ![j] = @ \cup {b}]
    BY <1>0, AddToMarketMatches, MarketAfter DEF EnterMarket, Inv, TrollerSound
  <1>2. Sound(jToken[j], mem, now) /\ mem \subseteq Account
    BY DEF Inv, Storages, TrollerSound, ArraysMatch
  <1>3. Raised(jToken[j], n, mem)
    <2> HIDE DEF n
    <2> QED
      BY <1>1, <1>2, RegisteredIsNoWorse
  <1> HIDE DEF n
  <1>4. BorrowBalanceStored(n, a) = BorrowBalanceStored(jToken[j], a)
    BY <1>3 DEF Raised, BorrowBalanceStored
  <1>5. BorrowBalanceStored(jToken[j], a) \in Nat
    BY <1>2, BorrowBalanceType
  <1>6. a \in mem => NoWorse(jToken[j], n, a)
    BY <1>3, <1>4, <1>5 DEF Raised, NoWorse
  <1>7. a \notin mem => BorrowBalanceStored(n, a) = 0
    BY <1>2, <1>4, StrangersOweNothing
  <1> QED
    BY <1>1, <1>6, <1>7, EnteringIsUnhurt

(* Taking b's collateral off leaves that of the other members alone.       *)
LEMMA UnregisteredBalances ==
    ASSUME NEW m \in MarketType, NEW b \in Account, NEW isMember \in BOOLEAN, NEW n,
           n = UnregisterCollateral(m, b, isMember), NEW a \in Account, a # b
    PROVE  JTokenBalance(n, a) = JTokenBalance(m, a)
PROOF
  <1> DEFINE m1 == InitializeAccountCollateralTokens(m, b, isMember)
             spent == m1.accountCollateralTokens[b]
  <1>1. /\ m1.accountTokens = m.accountTokens
        /\ m1.isCollateralTokenInit[a] = m.isCollateralTokenInit[a]
        /\ m1.accountCollateralTokens[a] = m.accountCollateralTokens[a]
        /\ m1.accountCollateralTokens \in [Account -> Nat]
    BY DEF InitializeAccountCollateralTokens, MarketType
  <1>2. n = DecreaseUserCollateral(m1, b, spent)
    BY DEF UnregisterCollateral
  <1> HIDE DEF m1
  <1>3. /\ n.accountTokens = m1.accountTokens
        /\ n.isCollateralTokenInit = m1.isCollateralTokenInit
        /\ n.accountCollateralTokens = [m1.accountCollateralTokens EXCEPT ![b] = @ - spent]
    <2>1. /\ m1.accountTokens = m.accountTokens
      BY <1>1
    <2> QED
      BY <1>2 DEF DecreaseUserCollateral
  <1> QED
    BY <1>1, <1>3 DEF JTokenBalance

(* The check before b leaves j: its whole collateral there is not needed.  *)
LEMMA LeavingIsCovered ==
    ASSUME Inv, Inv', config' = config, price' = price, NEW j \in JToken,
           NEW b \in accountMembership[j], BorrowBalanceStored(jToken[j], b) = 0,
           ~RedeemReverts(jToken, j, b),
           RedeemAllowed(jToken, j, b, JTokenBalance(jToken[j], b)),
           NEW n, jToken' = With(j, n), Entered(b)' = Entered(b) \ {j}
    PROVE  (ShortfallOf(b))' <= 1
PROOF
  <1> DEFINE S  == Entered(b)
             T  == Entered(b)'
             assets == accountAssets[b]
             balance == JTokenBalance(jToken[j], b)
             c1 == CollateralOf(jToken, b)
             d1 == DebtsOf(jToken, b, j, balance, 0)
             c2 == CollateralOf(jToken', b)
             d2 == DebtsOf(jToken', b, NoMarket, 0, 0)
             shortfall == Liquidity(jToken, assets, b, j, balance, 0).shortfall
  <1>1. /\ b \in Account /\ SettingsTyped /\ ListsExactly(assets, S)
        /\ j \in S /\ S = ToSet(assets) /\ S \subseteq JToken
    BY DEF Inv, TrollerSound, ArraysMatch, Entered, ListsExactly
  <1>2. /\ Countable(jToken, b) /\ Countable(jToken', b)
        /\ jToken[j] \in MarketType
    BY <1>1, StoragesAreCountable, CountableAfter DEF Inv, Storages
  <1>3. balance \in Nat /\ config.creditLimits[b] \in Nat \cup {UIntMax}
    BY <1>1, <1>2, BalanceType, LimitType
  <1>4. shortfall = 0 /\ ~LiquidityReverts(jToken, assets, b)
    BY DEF RedeemReverts, RedeemAllowed
  <1> HIDE DEF S
  <1>5. Covered(b, S, c1, d1, 0)
    <2> HIDE DEF balance
    <2>1. shortfall \in Nat /\ (shortfall <= 0 <=> Covered(b, S, c1, d1, 0))
      BY <1>1, <1>2, <1>3, LiquidityIsCoverage
    <2> HIDE DEF shortfall, c1, d1
    <2> QED
      BY <1>4, <2>1
  <1>6. IsFiniteSet(S)
    BY <1>1, LengthOfList DEF ListsExactly
  <1>7. jToken'[j] = n /\ \A k \in JToken : k # j => jToken'[k] = jToken[k]
    BY MarketAfter DEF Inv, Storages
  <1>8. ASSUME NEW k \in S
        PROVE  /\ c1[k] = CollateralValue(jToken, k, b) /\ c1[k] \in Int
               /\ c2[k] = CollateralValue(jToken', k, b) /\ c2[k] \in Int
               /\ d2[k] = BorrowValue(jToken', k, b) /\ d2[k] \in Int
               /\ BorrowValue(jToken, k, b) \in Nat
               /\ k # j => d1[k] = BorrowValue(jToken, k, b)
               /\ k = j => d1[k] = BorrowValue(jToken, k, b) + EffectValue(jToken, k, balance, 0)
    BY <1>1, <1>2, StoredDebts, EffectDebts
  <1>9. ASSUME NEW k \in S, k # j
        PROVE  d1[k] \in Int /\ c1[k] <= c2[k] /\ d2[k] <= d1[k]
    <2>1. c1[k] = c2[k] /\ d2[k] = d1[k]
      BY <1>1, <1>7, <1>8, <1>9, SameStorageSameValues
    <2> HIDE DEF c1, c2, d1, d2
    <2> QED
      BY <1>8, <2>1
  <1>10. CASE config.creditLimits[b] = UIntMax
    <2>1. Covered(b, T, c2, d2, 1)
      BY <1>10 DEF Covered
    <2> QED
      BY <1>1, <2>1, ShortfallLater
  <1>11. CASE config.creditLimits[b] # UIntMax
    <2>1. ExchangeRateStored(jToken[j]) \in Nat
      BY <1>1, <1>2, <1>4, <1>11, ReadableRate
    <2>2. /\ CollateralValue(jToken, j, b) \in Nat
          /\ EffectValue(jToken, j, balance, 0) = CollateralValue(jToken, j, b)
      <3>1. ExchangeRateStored(jToken[j]) >= 0
        BY <2>1
      <3>2. CollateralValue(jToken, j, b) \in Nat
        BY <1>1, <1>2, <1>3, <3>1, ValueTypes
      <3>3. price[j] * 0 = 0 /\ 0 \div expScale = 0
        BY <1>1, SettingTypes, ExpScaleAssumption
      <3>4. EffectValue(jToken, j, balance, 0) = CollateralValue(jToken, j, b) + 0
        BY <3>3 DEF EffectValue, CollateralValue, MulScalarTruncate, Truncate
      <3> QED
        BY <3>2, <3>4
    <2>3. /\ c1[j] \in Nat /\ d1[j] \in Nat /\ c1[j] <= d1[j]
      <3>1. /\ c1[j] = CollateralValue(jToken, j, b)
            /\ BorrowValue(jToken, j, b) \in Nat
            /\ d1[j] = BorrowValue(jToken, j, b) + EffectValue(jToken, j, balance, 0)
        BY <1>1, <1>8
      <3> HIDE DEF c1, d1, balance
      <3> QED
        BY <2>2, <3>1
    <2>4. \A k \in S : /\ c1[k] \in Int /\ d1[k] \in Int /\ c2[k] \in Int /\ d2[k] \in Int
                       /\ k # j => c1[k] <= c2[k] /\ d2[k] <= d1[k]
      <3> HIDE DEF c1, c2, d1, d2
      <3>1. TAKE k \in S
      <3>2. c1[k] \in Int /\ c2[k] \in Int /\ d2[k] \in Int
        BY <1>8
      <3>3. CASE k = j
        BY <2>3, <3>2, <3>3
      <3>4. CASE k # j
        BY <1>9, <3>2, <3>4
      <3> QED
        BY <3>3, <3>4
    <2> HIDE DEF c1, c2, d1, d2
    <2>5. Covered(b, S \ {j}, c2, d2, 0)
      BY <1>1, <1>3, <1>5, <1>6, <2>3, <2>4, CoverageWithoutOne
    <2>6. Covered(b, T, c2, d2, 1)
      <3>1. T = S \ {j} /\ IsFiniteSet(T) /\ T \subseteq S
        BY <1>6, FS_Subset DEF S
      <3>2. Worth(T, d2) \in Nat /\ Worth(T, c2) \in Nat
        BY <2>4, <3>1, PartsAreFinite
      <3>3. UIntMax = -1
        BY DEF UIntMax
      <3> HIDE DEF T
      <3> QED
        BY <1>3, <2>5, <3>1, <3>2, <3>3 DEF Covered
    <2> QED
      BY <1>1, <2>6, ShortfallLater DEF c2, d2
  <1> QED
    BY <1>10, <1>11

LEMMA ExitMarketIsUnhurt ==
    ASSUME Inv, Inv', NEW j \in JToken, NEW b \in Account, ExitMarket(j, b), NEW a \in Account
    PROVE  Unhurt(a)
PROOF
  <1> DEFINE mem == accountMembership[j]
             isMember == b \in mem
             n == jToken'[j]
  <1>1. /\ jToken' = With(j, UnregisterCollateral(jToken[j], b, isMember))
        /\ config' = config /\ price' = price
        /\ BorrowBalanceStored(jToken[j], b) = 0
        /\ ~RedeemReverts(jToken, j, b)
        /\ RedeemAllowed(jToken, j, b, JTokenBalance(jToken[j], b))
    BY DEF ExitMarket
  <1>2. accountMembership' = [accountMembership EXCEPT ![j] = @ \ {b}]
    BY RemoveFromMarketMatches DEF ExitMarket, Inv, TrollerSound
  <1>3. /\ jToken' = With(j, n) /\ n = UnregisterCollateral(jToken[j], b, isMember)
        /\ \A k \in JToken : k # j => jToken'[k] = jToken[k]
    BY <1>1, MarketAfter DEF Inv, Storages
  <1>4. isMember \in BOOLEAN /\ jToken[j] \in MarketType
        /\ accountMembership \in [JToken -> SUBSET Account]
        /\ Sound(jToken[j], mem, now)
    BY DEF Inv, Storages, TrollerSound, ArraysMatch
  <1>5. CASE a = b /\ b \in mem
    <2>1. Entered(b)' = Entered(b) \ {j}
      BY <1>2, <1>4, <1>5 DEF Entered
    <2> HIDE DEF n
    <2> QED
      BY <1>1, <1>3, <1>5, <2>1, LeavingIsCovered DEF Unhurt
  <1>6. CASE ~(a = b /\ b \in mem)
    <2>1. Entered(a)' = Entered(a)
      BY <1>2, <1>4, <1>6 DEF Entered
    <2>2. ASSUME NEW k \in Entered(a) PROVE NoWorse(jToken[k], jToken'[k], a)
      <3>1. k \in JToken /\ a \in accountMembership[k]
        BY DEF Entered
      <3>2. JTokenBalance(jToken[k], a) \in Nat /\ BorrowBalanceStored(jToken[k], a) \in Nat
        BY <3>1, BalanceType, BorrowBalanceType DEF Inv, Storages
      <3>3. CASE k # j
        BY <1>3, <3>1, <3>2, <3>3 DEF NoWorse
      <3>4. CASE k = j
        <4>1. a # b
          BY <1>6, <3>1, <3>4
        <4> HIDE DEF n, isMember
        <4>2. JTokenBalance(n, a) = JTokenBalance(jToken[j], a)
          BY <1>3, <1>4, <4>1, UnregisteredBalances
        <4>3. n.borrowIndex = jToken[j].borrowIndex /\ n.accountBorrows = jToken[j].accountBorrows
          <5>1. UnregisterCollateral(jToken[j], b, isMember).borrowIndex = jToken[j].borrowIndex
            BY <1>4 DEF UnregisterCollateral, DecreaseUserCollateral,
                        InitializeAccountCollateralTokens, MarketType
          <5> QED
            BY <1>3, <1>4, <5>1, UnregisterKeepsDebts
        <4>4. BorrowBalanceStored(n, a) = BorrowBalanceStored(jToken[j], a)
          BY <4>3 DEF BorrowBalanceStored
        <4> QED
          BY <3>2, <3>4, <4>2, <4>4 DEF NoWorse, n
      <3> QED
        BY <3>3, <3>4
    <2> QED
      BY <1>1, <2>1, <2>2, NoWorseIsUnhurt
  <1> QED
    BY <1>5, <1>6

--------------------------------------------------------------------------------
(***************************************************************************)
(* Borrowers.                                                              *)
(***************************************************************************)

(* The storage n after b borrowed amount of m: the cash that left is owed. *)
Borrowed(m, n, b, amount) ==
    /\ n.borrowIndex = m.borrowIndex
    /\ ExchangeRateStored(n) = ExchangeRateStored(m)
    /\ BorrowBalanceStored(n, b) = BorrowBalanceStored(m, b) + amount
    /\ \A a \in Account \ {b} : BorrowBalanceStored(n, a) = BorrowBalanceStored(m, a)
    /\ \A a \in Account : JTokenBalance(n, a) = JTokenBalance(m, a)

LEMMA BorrowedDebts ==
    ASSUME NEW m, NEW mem, NEW t, Sound(m, mem, t), NEW b \in Account, NEW amount \in Nat,
           NEW n, n = BorrowFresh(m, b, amount)
    PROVE  Borrowed(m, n, b, amount)
PROOF
  <1> DEFINE debt == BorrowBalanceStored(m, b)
             m1   == SetAccountBorrows(m, b, debt + amount)
  <1>1. m \in MarketType /\ debt \in Nat
    BY BorrowBalanceType DEF Sound
  <1> HIDE DEF debt
  <1>2. /\ m1.borrowIndex = m.borrowIndex
        /\ BorrowBalanceStored(m1, b) = debt + amount
        /\ \A a \in Account \ {b} : BorrowBalanceStored(m1, a) = BorrowBalanceStored(m, a)
    <2>1. debt + amount \in Nat
      BY <1>1
    <2> QED
      BY <2>1, DebtOfSnapshot
  <1>3. /\ m1.accountTokens = m.accountTokens /\ m1.totalSupply = m.totalSupply
        /\ m1.accountCollateralTokens = m.accountCollateralTokens
        /\ m1.isCollateralTokenInit = m.isCollateralTokenInit
        /\ m1.internalCash = m.internalCash /\ m1.totalBorrows = m.totalBorrows
        /\ m1.totalReserves = m.totalReserves
        /\ DOMAIN m1 = DOMAIN m
    BY <1>1 DEF SetAccountBorrows, MarketType
  <1>4. n = [DoTransferOut(m1, amount) EXCEPT !.totalBorrows = @ + amount]
    BY DEF BorrowFresh, debt
  <1> HIDE DEF m1
  <1>5. DOMAIN m = DOMAIN InitializedMarket(0)
    BY <1>1 DEF MarketType, InitializedMarket
  <1>6. /\ n.borrowIndex = m1.borrowIndex /\ n.accountBorrows = m1.accountBorrows
        /\ n.accountTokens = m1.accountTokens /\ n.totalSupply = m1.totalSupply
        /\ n.accountCollateralTokens = m1.accountCollateralTokens
        /\ n.isCollateralTokenInit = m1.isCollateralTokenInit
        /\ n.totalReserves = m1.totalReserves
        /\ n.internalCash = m1.internalCash - amount
        /\ n.totalBorrows = m1.totalBorrows + amount
    BY <1>3, <1>4, <1>5 DEF DoTransferOut, InitializedMarket
  <1>7. CashPlusBorrowsMinusReserves(n) = CashPlusBorrowsMinusReserves(m)
    <2>1. m.internalCash \in Nat /\ m.totalBorrows \in Nat /\ m.totalReserves \in Nat
      BY <1>1 DEF MarketType
    <2> QED
      BY <1>3, <1>6, <2>1 DEF CashPlusBorrowsMinusReserves
  <1>8. ExchangeRateStored(n) = ExchangeRateStored(m)
    BY <1>3, <1>6, <1>7 DEF ExchangeRateStored
  <1>9. \A a \in Account : BorrowBalanceStored(n, a) = BorrowBalanceStored(m1, a)
    BY <1>6 DEF BorrowBalanceStored
  <1>10. \A a \in Account : JTokenBalance(n, a) = JTokenBalance(m, a)
    BY <1>3, <1>6 DEF JTokenBalance
  <1> QED
    BY <1>2, <1>6, <1>8, <1>9, <1>10 DEF Borrowed, debt

(* Two parts of a debt, each truncated. *)
LEMMA DebtOfSum ==
    ASSUME NEW p \in Nat, NEW o \in Nat, NEW amount \in Nat
    PROVE  /\ (p * o) \div expScale \in Nat /\ (p * amount) \div expScale \in Nat
           /\ (p * (o + amount)) \div expScale
                <= ((p * o) \div expScale) + ((p * amount) \div expScale) + 1
PROOF
  <1>1. expScale \in Nat \ {0}
    BY ExpScaleAssumption
  <1>2. p \in Int /\ p <= p
    OBVIOUS
  <1>3. (p * o) \div expScale \in Nat /\ (p * amount) \div expScale \in Nat
    BY <1>2, ExpProduct
  <1>4. p * (o + amount) = p * o + p * amount /\ p * o \in Int /\ p * amount \in Int
    OBVIOUS
  <1>5. ((p * o) + (p * amount)) \div expScale
          <= ((p * o) \div expScale) + ((p * amount) \div expScale) + 1
    BY <1>1, <1>4, QuotientOfSum
  <1> QED
    BY <1>3, <1>4, <1>5

(* Who may borrow by the Joetroller is not hurt by it. *)
LEMMA BorrowerIsUnhurt ==
    ASSUME Inv, Inv', config' = config, price' = price, NEW b \in Account, NEW j \in JToken,
           NEW m, Sound(m, accountMembership'[j], now), NEW n, jToken' = With(j, n),
           NEW amount \in Nat, Borrowed(m, n, b, amount),
           NEW assets, ListsExactly(assets, Entered(b)'), j \in Entered(b)',
           ~LiquidityReverts(With(j, m), assets, b),
           Liquidity(With(j, m), assets, b, j, 0, amount).shortfall = 0
    PROVE  (ShortfallOf(b))' <= 1
PROOF
  <1> DEFINE S == Entered(b)'
             t == With(j, m)
             x == TokensToDenom(t, j)
             g == JTokenBalance(m, b)
             o == BorrowBalanceStored(m, b)
             p == price[j]
  <1>1. m \in MarketType /\ o \in Nat /\ g \in Nat /\ p \in Nat
    BY BorrowBalanceType, BalanceType, SettingTypes DEF Sound, Inv, TrollerSound
  <1>2. t[j] = m /\ jToken'[j] = n
    BY MarketAfter
  <1>3. ASSUME ExchangeRateStored(m) \in Nat
        PROVE  /\ CollateralValue(jToken', j, b) \in Nat
               /\ BorrowValue(jToken', j, b) + CollateralValue(t, j, b)
                    <= CollateralValue(jToken', j, b) + BorrowValue(t, j, b)
                       + EffectValue(t, j, 0, amount) + 1
               /\ BorrowValue(jToken', j, b)
                    <= BorrowValue(t, j, b) + EffectValue(t, j, 0, amount) + 1
    <2>1. ExchangeRateStored(m) >= 0 /\ ExchangeRateStored(m) <= ExchangeRateStored(m)
      BY <1>3
    <2>2. x \in Nat
      BY <1>1, <1>2, <2>1, DenomFollowsRate DEF Inv, TrollerSound
    <2>3. TokensToDenom(jToken', j) = x
      BY <1>2 DEF TokensToDenom, Borrowed
    <2>4. /\ CollateralValue(t, j, b) = (x * g) \div expScale
          /\ CollateralValue(jToken', j, b) = (x * g) \div expScale
          /\ BorrowValue(t, j, b) = (p * o) \div expScale
          /\ BorrowValue(jToken', j, b) = (p * (o + amount)) \div expScale
          /\ EffectValue(t, j, 0, amount) = (x * 0) \div expScale + (p * amount) \div expScale
      <3>1. JTokenBalance(n, b) = g /\ BorrowBalanceStored(n, b) = o + amount
        BY DEF Borrowed
      <3> HIDE DEF x
      <3> QED
        BY <1>2, <2>3, <3>1 DEF CollateralValue, BorrowValue, EffectValue, MulScalarTruncate,
                                Truncate, x
    <2> HIDE DEF x, g, o, p
    <2>5. x * 0 = 0 /\ 0 \div expScale = 0
      BY <2>2, ExpScaleAssumption
    <2>6. /\ (p * o) \div expScale \in Nat /\ (p * amount) \div expScale \in Nat
          /\ (p * (o + amount)) \div expScale
               <= ((p * o) \div expScale) + ((p * amount) \div expScale) + 1
      BY <1>1, DebtOfSum
    <2>7. (x * g) \div expScale \in Nat
      <3>1. x \in Int /\ x <= x
        BY <2>2
      <3> QED
        BY <1>1, <2>2, <3>1, ExpProduct
    <2>8. (p * (o + amount)) \div expScale \in Nat
      <3>1. p \in Int /\ p <= p /\ o + amount \in Nat
        BY <1>1
      <3> QED
        BY <1>1, <3>1, ExpProduct
    <2> DEFINE xg == (x * g) \div expScale
               po == (p * o) \div expScale
               pa == (p * amount) \div expScale
               pp == (p * (o + amount)) \div expScale
    <2>9. /\ CollateralValue(t, j, b) = xg /\ CollateralValue(jToken', j, b) = xg
          /\ BorrowValue(t, j, b) = po /\ BorrowValue(jToken', j, b) = pp
          /\ EffectValue(t, j, 0, amount) = 0 + pa
          /\ xg \in Nat /\ po \in Nat /\ pa \in Nat /\ pp \in Nat /\ pp <= po + pa + 1
      BY <2>4, <2>5, <2>6, <2>7, <2>8
    <2> HIDE DEF xg, po, pa, pp, t
    <2> QED
      BY <2>9
  <1> HIDE DEF S
  <1>4. S = Entered(b)' /\ ListsExactly(assets, S) /\ j \in S
    BY DEF S
  <1> QED
    BY <1>1, <1>3, <1>4, CheckedIsUnhurt

(* The storage a borrow starts from: b is a member by then. *)
ReadyToBorrow(m0, m, j, b) ==
    \/ b \in accountMembership[j] /\ m = m0
    \/ b \notin accountMembership[j] /\ m = Registered(m0, j, b)

LEMMA ReadyIsSound ==
    ASSUME Inv, NEW j \in JToken, NEW m0 \in Accruals(jToken[j], now), NEW b \in Account,
           NEW m, ReadyToBorrow(m0, m, j, b)
    PROVE  /\ Sound(m, accountMembership[j], now)
           /\ Raised(m0, m, accountMembership[j])
PROOF
  <1>1. Sound(m0, accountMembership[j], now) /\ accountMembership[j] \subseteq Account
    BY PreparedIsAtRest DEF Inv, TrollerSound, ArraysMatch
  <1>2. CASE m = m0
    <2>1. \A a \in accountMembership[j] : JTokenBalance(m0, a) \in Nat
      BY <1>1, BalanceType DEF Sound
    <2> QED
      BY <1>1, <1>2, <2>1 DEF Raised
  <1>3. CASE m = Registered(m0, j, b)
    <2>1. Raised(m0, m, accountMembership[j])
      BY <1>1, <1>3, RegisteredIsNoWorse
    <2> DEFINE isMember == b \in accountMembership[j]
    <2>2. isMember \in BOOLEAN /\ m = RegisterCollateral(m0, b, isMember)
      BY <1>3 DEF Registered
    <2> HIDE DEF isMember
    <2>3. Sound(RegisterCollateral(m0, b, isMember), accountMembership[j], now)
      BY <1>1, <2>2, RegisterIsSound
    <2> QED
      BY <2>1, <2>2, <2>3
  <1> QED
    BY <1>2, <1>3 DEF ReadyToBorrow

LEMMA ReadyIsNoWorse ==
    ASSUME Inv, NEW j \in JToken, NEW m0 \in Accruals(jToken[j], now), NEW b \in Account,
           NEW m, ReadyToBorrow(m0, m, j, b), m0.borrowIndex = jToken[j].borrowIndex,
           NEW a \in accountMembership[j]
    PROVE  NoWorse(jToken[j], m, a)
PROOF
  <1>1. Alike(jToken[j], m0, Account)
    BY StableAccrual
  <1>2. Sound(m, accountMembership[j], now) /\ Raised(m0, m, accountMembership[j])
    BY ReadyIsSound
  <1>3. a \in Account
    BY DEF Inv, TrollerSound, ArraysMatch
  <1>4. BorrowBalanceStored(m, a) = BorrowBalanceStored(m0, a)
    BY <1>2 DEF Raised, BorrowBalanceStored
  <1>5. BorrowBalanceStored(m, a) = BorrowBalanceStored(jToken[j], a)
    BY <1>1, <1>3, <1>4 DEF Alike
  <1>6. BorrowBalanceStored(m, a) \in Nat
    BY <1>2, <1>3, BorrowBalanceType
  <1>7. JTokenBalance(m0, a) = JTokenBalance(jToken[j], a)
        /\ JTokenBalance(m0, a) <= JTokenBalance(m, a)
    BY <1>1, <1>2, <1>3 DEF Alike, Raised
  <1> QED
    BY <1>5, <1>6, <1>7 DEF NoWorse

(* Bringing a snapshot up to date keeps collateral and raises no debt.     *)
LEMMA RefreshedIsNoWorse ==
    ASSUME NEW m, NEW mem, NEW t, Sound(m, mem, t), NEW b \in Account,
           NEW n, n = RefreshAccountBorrows(m, b), NEW a \in Account
    PROVE  NoWorse(m, n, a) /\ n.borrowIndex = m.borrowIndex
PROOF
  <1>1. m \in MarketType
    BY DEF Sound
  <1>2. DebtsShrink(m, n)
    BY RefreshedDebts
  <1>3. /\ n.accountTokens = m.accountTokens
        /\ n.accountCollateralTokens = m.accountCollateralTokens
        /\ n.isCollateralTokenInit = m.isCollateralTokenInit
    BY <1>1 DEF RefreshAccountBorrows, SetAccountBorrows, MarketType
  <1>4. JTokenBalance(n, a) = JTokenBalance(m, a) /\ JTokenBalance(m, a) \in Nat
    BY <1>1, <1>3, BalanceType DEF JTokenBalance
  <1> QED
    BY <1>2, <1>4 DEF NoWorse, DebtsShrink

LEMMA NoWorseIsTransitive ==
    ASSUME NEW l, NEW m \in MarketType, NEW n, NEW a \in Account, NoWorse(l, m, a),
           NoWorse(m, n, a), l \in MarketType, n \in MarketType,
           BorrowBalanceStored(l, a) \in Nat, BorrowBalanceStored(m, a) \in Nat,
           BorrowBalanceStored(n, a) \in Nat
    PROVE  NoWorse(l, n, a)
PROOF
  <1>1. JTokenBalance(l, a) \in Nat /\ JTokenBalance(m, a) \in Nat /\ JTokenBalance(n, a) \in Nat
    BY BalanceType
  <1> QED
    BY <1>1 DEF NoWorse

(* What a borrow leaves behind, whatever the Joetroller answered.          *)
BorrowOutcome(j, b, amount, m, n, assets) ==
    \/ n = m
    \/ n = RefreshAccountBorrows(m, b)
    \/ /\ n = BorrowFresh(m, b, amount)
       /\ ~LiquidityReverts(With(j, m), assets, b)
       /\ Liquidity(With(j, m), assets, b, j, 0, amount).shortfall = 0

LEMMA BorrowEnds ==
    ASSUME Inv, NEW j \in JToken, NEW b \in Account, NEW amount \in Amounts, Borrow(j, b, amount)
    PROVE  \E m0 \in Accruals(jToken[j], now) : \E m :
             /\ ReadyToBorrow(m0, m, j, b)
             /\ jToken' = With(j, jToken'[j])
             /\ BorrowOutcome(j, b, amount, m, jToken'[j], accountAssets'[b])
PROOF
  <1>1. PICK m0 \in Accruals(jToken[j], now) :
          LET entered == b \in accountMembership[j]
              m       == IF entered THEN m0 ELSE RegisterCollateral(m0, b, FALSE)
              assets  == IF entered THEN accountAssets[b] ELSE Append(accountAssets[b], j)
          IN  /\ ~BorrowReverts(With(j, m), assets, j, b, amount)
              /\ \/ jToken' = With(j, m)
                 \/ jToken' = With(j, RefreshAccountBorrows(m, b))
                 \/ /\ BorrowAllowed(With(j, m), assets, j, b, amount)
                    /\ jToken' = With(j, BorrowFresh(m, b, amount))
    BY DEF Borrow
  <1> DEFINE entered == b \in accountMembership[j]
             m       == IF entered THEN m0 ELSE RegisterCollateral(m0, b, FALSE)
             assets  == IF entered THEN accountAssets[b] ELSE Append(accountAssets[b], j)
  <1>2. ReadyToBorrow(m0, m, j, b)
    <2>1. CASE entered
      BY <2>1 DEF ReadyToBorrow
    <2>2. CASE ~entered
      <3>1. m = RegisterCollateral(m0, b, FALSE) /\ entered = FALSE
        BY <2>2
      <3>2. m = Registered(m0, j, b)
        BY <3>1, Zenon DEF Registered
      <3> QED
        BY <2>2, <3>2 DEF ReadyToBorrow
    <2> QED
      BY <2>1, <2>2
  <1>3. accountAssets'[b] = assets
    <2>1. accountAssets \in [Account -> Seq(JToken)]
      BY DEF Inv, TrollerSound, ArraysMatch
    <2> QED
      BY <2>1 DEF Borrow, AddToMarket
  <1>4. /\ ~BorrowReverts(With(j, m), assets, j, b, amount)
        /\ \/ jToken' = With(j, m)
           \/ jToken' = With(j, RefreshAccountBorrows(m, b))
           \/ /\ BorrowAllowed(With(j, m), assets, j, b, amount)
              /\ jToken' = With(j, BorrowFresh(m, b, amount))
    BY <1>1
  <1> HIDE DEF m, assets
  <1>5. /\ ~BorrowReverts(With(j, m), assets, j, b, amount)
        /\ jToken' = With(j, jToken'[j])
        /\ \/ jToken'[j] = m
           \/ jToken'[j] = RefreshAccountBorrows(m, b)
           \/ /\ BorrowAllowed(With(j, m), assets, j, b, amount)
              /\ jToken'[j] = BorrowFresh(m, b, amount)
    BY <1>4, MarketAfter
  <1>6. BorrowAllowed(With(j, m), assets, j, b, amount)
          => /\ ~LiquidityReverts(With(j, m), assets, b)
             /\ Liquidity(With(j, m), assets, b, j, 0, amount).shortfall = 0
    BY <1>5 DEF BorrowReverts, BorrowAllowed
  <1>7. BorrowOutcome(j, b, amount, m, jToken'[j], assets)
    BY <1>5, <1>6, Zenon DEF BorrowOutcome
  <1> QED
    BY <1>2, <1>3, <1>5, <1>7

LEMMA BorrowIsUnhurt ==
    ASSUME Inv, Inv', NEW j \in JToken, NEW b \in Account, NEW amount \in Amounts,
           Borrow(j, b, amount), NEW a \in Account
    PROVE  Unhurt(a)
PROOF
  <1> SUFFICES ASSUME InterestIsStable PROVE Unhurt(a)
    BY DEF Unhurt
  <1> DEFINE mem == accountMembership[j]
             n == jToken'[j]
             assets == accountAssets'[b]
  <1>0. PICK m0 \in Accruals(jToken[j], now) :
          \E m : /\ ReadyToBorrow(m0, m, j, b)
                /\ jToken' = With(j, n)
                /\ BorrowOutcome(j, b, amount, m, n, assets)
    BY BorrowEnds
  <1>1. PICK m : /\ ReadyToBorrow(m0, m, j, b)
                 /\ jToken' = With(j, n)
                 /\ BorrowOutcome(j, b, amount, m, n, assets)
    BY <1>0
  <1>2. /\ config' = config /\ price' = price /\ now' = now /\ amount \in Nat
        /\ accountMembership' = [accountMembership EXCEPT ![j] = @ \cup {b}]
    BY AddToMarketMatches, JoeLendingAssumption DEF Borrow, Inv, TrollerSound
  <1>3. accountMembership \in [JToken -> SUBSET Account]
    BY DEF Inv, TrollerSound, ArraysMatch
  <1>4. Sound(m, mem, now) /\ Raised(m0, m, mem) /\ m \in MarketType
    BY <1>1, ReadyIsSound DEF Sound
  <1>5. jToken[j] \in MarketType /\ n \in MarketType
        /\ BorrowBalanceStored(jToken[j], a) \in Nat /\ BorrowBalanceStored(m, a) \in Nat
        /\ BorrowBalanceStored(n, a) \in Nat
    BY <1>4, BorrowBalanceType DEF Sound, Inv, Storages
  <1> HIDE DEF n
  <1>6. n = BorrowFresh(m, b, amount) => Borrowed(m, n, b, amount)
    BY <1>2, <1>4, BorrowedDebts
  <1>7. n.borrowIndex = m.borrowIndex
    <2>1. n = RefreshAccountBorrows(m, b) => n.borrowIndex = m.borrowIndex
      BY <1>4, RefreshedIsNoWorse
    <2> QED
      BY <1>1, <1>6, <2>1 DEF BorrowOutcome, Borrowed
  <1>8. m0.borrowIndex = jToken[j].borrowIndex
    BY <1>4, <1>7, IndexStands DEF Raised, n
  <1>9. a \in mem => NoWorse(jToken[j], m, a)
    BY <1>1, <1>8, ReadyIsNoWorse
  <1>10. ASSUME NoWorse(m, n, a) PROVE Unhurt(a)
    <2>1. a \in mem => NoWorse(jToken[j], n, a)
      BY <1>4, <1>5, <1>9, <1>10, NoWorseIsTransitive
    <2>2. a \notin mem => BorrowBalanceStored(n, a) = 0
      <3>1. a \notin mem => BorrowBalanceStored(m, a) = 0
        BY <1>4, StrangersOweNothing
      <3> QED
        BY <1>5, <1>10, <3>1 DEF NoWorse
    <2> QED
      BY <1>1, <1>2, <2>1, <2>2, EnteringIsUnhurt
  <1>11. CASE n = m
    <2>1. JTokenBalance(m, a) \in Nat
      BY <1>4, BalanceType
    <2> QED
      BY <1>5, <1>10, <1>11, <2>1 DEF NoWorse
  <1>12. CASE n = RefreshAccountBorrows(m, b)
    BY <1>4, <1>10, <1>12, RefreshedIsNoWorse
  <1>13. CASE /\ n = BorrowFresh(m, b, amount)
              /\ ~LiquidityReverts(With(j, m), assets, b)
              /\ Liquidity(With(j, m), assets, b, j, 0, amount).shortfall = 0
    <2>1. Borrowed(m, n, b, amount)
      BY <1>6, <1>13
    <2>2. CASE a # b
      <3>1. /\ JTokenBalance(n, a) = JTokenBalance(m, a) /\ JTokenBalance(m, a) \in Nat
            /\ BorrowBalanceStored(n, a) = BorrowBalanceStored(m, a)
        BY <1>4, <2>1, <2>2, BalanceType DEF Borrowed
      <3> QED
        BY <1>5, <1>10, <3>1 DEF NoWorse
    <2>3. CASE a = b
      <3>1. j \in Entered(b)' /\ mem \subseteq accountMembership'[j]
        BY <1>2, <1>3 DEF Entered
      <3>2. ListsExactly(assets, Entered(b)')
        BY DEF Inv, TrollerSound, ArraysMatch
      <3>3. Sound(m, accountMembership'[j], now)
        BY <1>4, <3>1, MoreMembers
      <3> HIDE DEF assets
      <3> QED
        BY <1>1, <1>2, <1>13, <2>1, <2>3, <3>1, <3>2, <3>3, BorrowerIsUnhurt DEF Unhurt
    <2> QED
      BY <2>2, <2>3
  <1> QED
    BY <1>1, <1>11, <1>12, <1>13 DEF BorrowOutcome

LEMMA RepaidIsNoWorse ==
    ASSUME NEW m, NEW mem, NEW t, Sound(m, mem, t), NEW b \in Account, NEW amount \in Nat,
           ~RepayBorrowFreshReverts(m, b, amount), NEW n, n = RepayBorrowFresh(m, b, amount),
           NEW a \in Account
    PROVE  NoWorse(m, n, a) /\ n.borrowIndex = m.borrowIndex
PROOF
  <1>1. m \in MarketType
    BY DEF Sound
  <1>2. DebtsShrink(m, n)
    BY RepaidDebts
  <1>3. /\ n.accountTokens = m.accountTokens
        /\ n.accountCollateralTokens = m.accountCollateralTokens
        /\ n.isCollateralTokenInit = m.isCollateralTokenInit
    BY <1>1 DEF RepayBorrowFresh, SetAccountBorrows, DoTransferIn, MarketType
  <1>4. JTokenBalance(n, a) = JTokenBalance(m, a) /\ JTokenBalance(m, a) \in Nat
    BY <1>1, <1>3, BalanceType DEF JTokenBalance
  <1> QED
    BY <1>2, <1>4 DEF NoWorse, DebtsShrink

LEMMA SameIsNoWorse ==
    ASSUME NEW m, NEW mem, NEW t, Sound(m, mem, t), NEW a \in Account
    PROVE  NoWorse(m, m, a)
PROOF
  <1>1. JTokenBalance(m, a) \in Nat /\ BorrowBalanceStored(m, a) \in Nat
    BY BalanceType, BorrowBalanceType DEF Sound
  <1> QED
    BY <1>1 DEF NoWorse

(* A call that leaves a no worse off than the accrual it starts with.      *)
LEMMA QuietIsUnhurt ==
    ASSUME Inv, Inv', config' = config, price' = price, accountMembership' = accountMembership,
           NEW j \in JToken, NEW m \in Accruals(jToken[j], now), NEW n, jToken' = With(j, n),
           n.borrowIndex = m.borrowIndex, NEW a \in Account, NoWorse(m, n, a)
    PROVE  Unhurt(a)
PROOF
  <1> SUFFICES ASSUME InterestIsStable PROVE Unhurt(a)
    BY DEF Unhurt
  <1>1. jToken'[j] = n
    BY MarketAfter
  <1>2. m.borrowIndex = jToken[j].borrowIndex
    BY <1>1, IndexStands
  <1>3. Alike(jToken[j], m, Account)
    BY <1>2, StableAccrual
  <1>4. /\ JTokenBalance(m, a) = JTokenBalance(jToken[j], a)
        /\ BorrowBalanceStored(m, a) = BorrowBalanceStored(jToken[j], a)
    BY <1>3 DEF Alike
  <1>5. NoWorse(jToken[j], n, a)
    BY <1>4 DEF NoWorse
  <1> QED
    BY <1>5, CallIsUnhurt

LEMMA RepayBorrowIsUnhurt ==
    ASSUME Inv, Inv', NEW j \in JToken, NEW b \in Account, NEW amount \in Amounts \cup {UIntMax},
           RepayBorrow(j, b, amount), NEW a \in Account
    PROVE  Unhurt(a)
PROOF
  <1>1. PICK m \in Accruals(jToken[j], now) :
          \/ jToken' = With(j, m)
          \/ jToken' = With(j, RefreshAccountBorrows(m, b))
          \/ \E actual \in Received(m, RepayAmount(m, b, amount)) :
               /\ ~RepayBorrowFreshReverts(m, b, actual)
               /\ jToken' = With(j, RepayBorrowFresh(m, b, actual))
    BY DEF RepayBorrow
  <1>2. config' = config /\ price' = price /\ accountMembership' = accountMembership
    BY DEF RepayBorrow, TrollerUnchanged, trollerVars
  <1>3. Sound(m, accountMembership[j], now) /\ m \in MarketType
    BY PreparedIsAtRest DEF Sound
  <1>4. ASSUME NEW n, jToken' = With(j, n), n.borrowIndex = m.borrowIndex, NoWorse(m, n, a)
        PROVE  Unhurt(a)
    BY <1>2, <1>4, QuietIsUnhurt
  <1>5. CASE jToken' = With(j, m)
    BY <1>3, <1>4, <1>5, SameIsNoWorse
  <1>6. CASE jToken' = With(j, RefreshAccountBorrows(m, b))
    <2> DEFINE n == RefreshAccountBorrows(m, b)
    <2>1. n = RefreshAccountBorrows(m, b)
      OBVIOUS
    <2>2. jToken' = With(j, n)
      BY <1>6
    <2> HIDE DEF n
    <2>3. NoWorse(m, n, a) /\ n.borrowIndex = m.borrowIndex
      BY <1>3, <2>1, RefreshedIsNoWorse
    <2> QED
      BY <1>4, <2>2, <2>3
  <1>7. ASSUME NEW actual \in Received(m, RepayAmount(m, b, amount)),
               ~RepayBorrowFreshReverts(m, b, actual),
               jToken' = With(j, RepayBorrowFresh(m, b, actual))
        PROVE  Unhurt(a)
    <2> DEFINE n == RepayBorrowFresh(m, b, actual)
    <2>1. n = RepayBorrowFresh(m, b, actual)
      OBVIOUS
    <2>2. jToken' = With(j, n)
      BY <1>7
    <2> HIDE DEF n
    <2>3. RepayAmount(m, b, amount) \in Nat
      BY <1>3, JoeLendingAssumption, RepayAmountType
    <2>4. actual \in Nat
      BY <1>3, <2>3, ReceivedType
    <2>5. NoWorse(m, n, a) /\ n.borrowIndex = m.borrowIndex
      BY <1>3, <1>7, <2>1, <2>4, RepaidIsNoWorse
    <2> QED
      BY <1>4, <2>2, <2>5
  <1> QED
    BY <1>1, <1>5, <1>6, <1>7

--------------------------------------------------------------------------------
(***************************************************************************)
(* Liquidations.  The borrower had a shortfall, or nothing was seized.     *)
(***************************************************************************)
LEMMA AlikeSameShortfall ==
    ASSUME Inv, NEW a \in Account, NEW t, Countable(t, a),
           \A j \in JToken : Alike(jToken[j], t[j], Account),
           AccountLiquidity(t, a).shortfall # 0
    PROVE  ShortfallOf(a) # 0
PROOF
  <1> SUFFICES ASSUME ShortfallOf(a) = 0 PROVE FALSE
    OBVIOUS
  <1> DEFINE S  == Entered(a)
             c1 == CollateralOf(jToken, a)
             d1 == DebtsOf(jToken, a, NoMarket, 0, 0)
             c2 == CollateralOf(t, a)
             d2 == DebtsOf(t, a, NoMarket, 0, 0)
             shortfall == Liquidity(t, accountAssets[a], a, NoMarket, 0, 0).shortfall
  <1>1. /\ SettingsTyped /\ Countable(jToken, a) /\ ListsExactly(accountAssets[a], S)
    BY StoragesAreCountable DEF Inv, TrollerSound, ArraysMatch
  <1>2. /\ IsFiniteSet(S) /\ S \subseteq JToken
    BY <1>1, LengthOfList, ElementsOfList DEF ListsExactly
  <1>3. config.creditLimits[a] \in Nat \cup {UIntMax}
    BY <1>1, LimitType
  <1>4. Covered(a, S, c1, d1, 0)
    BY ShortfallNow
  <1>5. ASSUME NEW j \in S
        PROVE  /\ c1[j] \in Int /\ d1[j] \in Int
               /\ c2[j] \in Int /\ d2[j] \in Int
               /\ c1[j] <= c2[j] /\ d2[j] <= d1[j]
    <2>1. j \in JToken /\ Alike(jToken[j], t[j], Account)
      BY <1>2
    <2>2. /\ CollateralValue(t, j, a) = CollateralValue(jToken, j, a)
          /\ BorrowValue(t, j, a) = BorrowValue(jToken, j, a)
      BY <2>1 DEF Alike, CollateralValue, BorrowValue, TokensToDenom
    <2>3. /\ c1[j] = CollateralValue(jToken, j, a) /\ c1[j] \in Int
          /\ d1[j] = BorrowValue(jToken, j, a) /\ d1[j] \in Int
          /\ c2[j] = CollateralValue(t, j, a)
          /\ d2[j] = BorrowValue(t, j, a)
      BY <1>1, <2>1, StoredDebts
    <2> HIDE DEF c1, c2, d1, d2
    <2> QED
      BY <2>2, <2>3
  <1> HIDE DEF c1, c2, d1, d2, S
  <1>6. Covered(a, S, c2, d2, 0)
    BY <1>2, <1>3, <1>4, <1>5, CoverageIsMonotonic
  <1>7. shortfall \in Nat /\ (shortfall <= 0 <=> Covered(a, S, c2, d2, 0))
    <2> HIDE DEF shortfall
    <2>1. shortfall = Liquidity(t, accountAssets[a], a, NoMarket, 0, 0).shortfall
      BY DEF shortfall
    <2> QED
      BY <1>1, <2>1, LiquidityIsCoverage DEF c2, d2
  <1>8. shortfall # 0
    BY DEF AccountLiquidity
  <1> HIDE DEF shortfall
  <1> QED
    BY <1>6, <1>7, <1>8

(* What the seizure leaves the liquidator and everybody else.              *)
LEMMA SeizedBalances ==
    ASSUME NEW m \in MarketType, NEW liquidator \in Account, NEW borrower \in Account,
           liquidator # borrower, NEW tokens \in Nat,
           ~SeizeInternalReverts(m, borrower, tokens),
           NEW n, n = SeizeInternal(m, liquidator, borrower, tokens),
           NEW a \in Account \ {borrower}, n \in MarketType
    PROVE  /\ JTokenBalance(m, a) <= JTokenBalance(n, a)
           /\ BorrowBalanceStored(n, a) = BorrowBalanceStored(m, a)
           /\ n.borrowIndex = m.borrowIndex
PROOF
  <1> DEFINE burnt == MulUIntExp(tokens, m.protocolSeizeShareMantissa)
             got   == tokens - burnt
  <1>1. /\ n.accountTokens = Moved(m.accountTokens, borrower, tokens, liquidator, got)
        /\ n.accountCollateralTokens
             = Moved(m.accountCollateralTokens, borrower, tokens, liquidator, got)
        /\ n.isCollateralTokenInit = m.isCollateralTokenInit
        /\ n.accountBorrows = m.accountBorrows /\ n.borrowIndex = m.borrowIndex
    <2> HIDE DEF burnt
    <2> QED
      BY DEF SeizeInternal, MarketType, burnt
  <1>2. burnt \in 0 .. tokens
    <2>1. m.protocolSeizeShareMantissa \in 0 .. expScale
      BY MarketAssumption, ExpScaleAssumption DEF MarketType
    <2> QED
      BY <2>1, MulUIntExpBound
  <1> HIDE DEF burnt
  <1>3. got \in Nat
    BY <1>2
  <1> HIDE DEF got
  <1>4. /\ m.accountCollateralTokens \in [Account -> Nat] /\ m.accountTokens \in [Account -> Nat]
    BY DEF MarketType
  <1>5. /\ a = liquidator => /\ n.accountTokens[a] = m.accountTokens[a] + got
                             /\ n.accountCollateralTokens[a] = m.accountCollateralTokens[a] + got
        /\ a # liquidator => /\ n.accountTokens[a] = m.accountTokens[a]
                             /\ n.accountCollateralTokens[a] = m.accountCollateralTokens[a]
    BY <1>1, <1>4 DEF Moved
  <1>6. /\ a = liquidator => JTokenBalance(n, a) = JTokenBalance(m, a) + got
        /\ a # liquidator => JTokenBalance(n, a) = JTokenBalance(m, a)
    BY <1>1, <1>5 DEF JTokenBalance
  <1>7. JTokenBalance(m, a) \in Nat
    BY BalanceType
  <1>8. BorrowBalanceStored(n, a) = BorrowBalanceStored(m, a)
    BY <1>1 DEF BorrowBalanceStored
  <1> QED
    BY <1>1, <1>3, <1>6, <1>7, <1>8

(* A call of two markets that leaves a no worse off in either.             *)
LEMMA TwoMarketsAreUnhurt ==
    ASSUME Inv, Inv', config' = config, price' = price, accountMembership' = accountMembership,
           NEW jb \in JToken, NEW jc \in JToken,
           \A k \in JToken \ {jb, jc} : jToken'[k] = jToken[k],
           NEW a \in Account,
           a \in accountMembership[jb] => NoWorse(jToken[jb], jToken'[jb], a),
           a \in accountMembership[jc] => NoWorse(jToken[jc], jToken'[jc], a)
    PROVE  Unhurt(a)
PROOF
  <1>1. Entered(a)' = Entered(a)
    BY DEF Entered
  <1>2. ASSUME NEW k \in Entered(a) PROVE NoWorse(jToken[k], jToken'[k], a)
    <2>1. k \in JToken /\ a \in accountMembership[k]
      BY DEF Entered
    <2>2. CASE k = jb \/ k = jc
      BY <2>1, <2>2
    <2>3. CASE ~(k = jb \/ k = jc)
      <3>1. NoWorse(jToken[k], jToken[k], a)
        BY <2>1, SameIsNoWorse DEF Inv, Storages
      <3>2. jToken'[k] = jToken[k]
        BY <2>1, <2>3
      <3> QED
        BY <3>1, <3>2
    <2> QED
      BY <2>2, <2>3
  <1> QED
    BY <1>1, <1>2, NoWorseIsUnhurt

(* After an accrual without interest nobody is worse off. *)
LEMMA StableIsNoWorse ==
    ASSUME Inv, NEW j \in JToken, NEW m \in Accruals(jToken[j], now),
           m.borrowIndex = jToken[j].borrowIndex, NEW a \in Account
    PROVE  Alike(jToken[j], m, Account) /\ NoWorse(jToken[j], m, a)
PROOF
  <1>1. Alike(jToken[j], m, Account)
    BY StableAccrual
  <1>2. Sound(m, accountMembership[j], now) /\ m \in MarketType
    BY PreparedIsAtRest DEF Sound
  <1>3. JTokenBalance(m, a) \in Nat /\ BorrowBalanceStored(m, a) \in Nat
    BY <1>2, BalanceType, BorrowBalanceType
  <1> QED
    BY <1>1, <1>3 DEF Alike, NoWorse

(* Both markets of a liquidation without new interest show the borrower's  *)
(* shortfall as it was.                                                    *)
LEMMA AccruedSameShortfall ==
    ASSUME Inv, NEW jb \in JToken, NEW jc \in JToken,
           NEW mb \in Accruals(jToken[jb], now), NEW mc \in Accruals(jToken[jc], now),
           mb.borrowIndex = jToken[jb].borrowIndex,
           jb # jc => mc.borrowIndex = jToken[jc].borrowIndex,
           NEW a \in Account, AccountLiquidity(AccruedAt(jb, jc, mb, mc), a).shortfall # 0
    PROVE  ShortfallOf(a) # 0
PROOF
  <1> DEFINE t == AccruedAt(jb, jc, mb, mc)
  <1>1. t \in AccruedBoth(jb, jc)
    BY DEF AccruedBoth, AccruedAt
  <1>2. Countable(t, a)
    BY <1>1, AccruedBothAreSound, StoragesAreCountable
  <1>3. DOMAIN jToken = JToken
    BY DEF Inv, Storages
  <1>4. /\ t[jb] = mb /\ t[jc] = IF jb = jc THEN mb ELSE mc
        /\ \A k \in JToken \ {jb, jc} : t[k] = jToken[k]
    BY <1>3 DEF AccruedAt
  <1>5. Alike(jToken[jb], mb, Account) /\ (jb # jc => Alike(jToken[jc], mc, Account))
    BY StableAccrual
  <1>6. ASSUME NEW k \in JToken PROVE Alike(jToken[k], t[k], Account)
    <2>1. Alike(jToken[k], jToken[k], Account)
      BY DEF Alike
    <2> HIDE DEF t
    <2>2. CASE k \notin {jb, jc}
      BY <1>4, <2>1, <2>2
    <2>3. CASE k \in {jb, jc}
      BY <1>4, <1>5, <2>3
    <2> QED
      BY <2>2, <2>3
  <1> HIDE DEF t
  <1>7. AccountLiquidity(t, a).shortfall # 0
    BY DEF t
  <1> QED
    BY <1>2, <1>6, <1>7, AlikeSameShortfall

(* Filling in the collateral of an account, with the market under a name.  *)
LEMMA FilledIn ==
    ASSUME NEW j \in JToken, NEW mem, mem = accountMembership[j], mem \subseteq Account,
           NEW m, Sound(m, mem, now), NEW b \in Account, NEW n, n = Initialized(m, j, b)
    PROVE  Alike(m, n, mem) /\ Sound(n, mem, now) /\ n.borrowIndex = m.borrowIndex
PROOF
  <1>1. m \in MarketType
    BY DEF Sound
  <1>2. Alike(m, n, mem) /\ n.borrowIndex = m.borrowIndex
    BY <1>1, InitializedIsAlike
  <1>3. Sound(n, mem, now)
    BY InitializedIsSound
  <1> QED
    BY <1>2, <1>3

LEMMA LiquidationIsUnhurt ==
    ASSUME Inv, Inv', config' = config, price' = price, accountMembership' = accountMembership,
           NEW jb \in JToken, NEW jc \in JToken,
           \A k \in JToken \ {jb, jc} : jToken'[k] = jToken[k],
           NEW mb \in Accruals(jToken[jb], now), NEW mc \in Accruals(jToken[jc], now),
           NEW liquidator \in Account, NEW borrower \in Account, liquidator # borrower,
           NEW actual \in Nat, NEW tokens \in Nat,
           AccountLiquidity(AccruedAt(jb, jc, mb, mc), borrower).shortfall # 0,
           Liquidation(jb, jc, mb, mc, liquidator, borrower, actual, tokens),
           NEW a \in Account
    PROVE  Unhurt(a)
PROOF
  <1> SUFFICES ASSUME InterestIsStable PROVE Unhurt(a)
    BY DEF Unhurt
  <1> DEFINE repaid     == RepayBorrowFresh(mb, borrower, actual)
             base       == IF jb = jc THEN mb ELSE mc
             collateral == IF jb = jc THEN repaid ELSE mc
             m1         == Initialized(collateral, jc, liquidator)
             m          == Initialized(m1, jc, borrower)
             n          == jToken'[jc]
             mem        == accountMembership[jc]
  <1>1. /\ ~RepayBorrowFreshReverts(mb, borrower, actual)
        /\ tokens > 0 => ~SeizeInternalReverts(m, borrower, tokens)
        /\ jb # jc => jToken'[jb] = repaid
        /\ n = IF tokens = 0 THEN m ELSE SeizeInternal(m, liquidator, borrower, tokens)
    BY Zenon DEF Liquidation
  <1>2. /\ Sound(mb, accountMembership[jb], now) /\ mb \in MarketType
        /\ Sound(mc, accountMembership[jc], now) /\ mc \in MarketType
        /\ mem \subseteq Account /\ n \in MarketType
    BY PreparedIsAtRest DEF Sound, Inv, Storages, TrollerSound, ArraysMatch
  <1>3. Sound(repaid, accountMembership[jb], now)
    BY <1>1, <1>2, RepayBorrowIsSound
  <1>4. repaid = RepayBorrowFresh(mb, borrower, actual)
    OBVIOUS
  <1> HIDE DEF repaid
  <1>5. NoWorse(mb, repaid, a) /\ repaid.borrowIndex = mb.borrowIndex
    BY <1>1, <1>2, <1>4, RepaidIsNoWorse
  <1>6. /\ Sound(collateral, mem, now) /\ collateral \in MarketType
        /\ NoWorse(base, collateral, a)
        /\ collateral.borrowIndex = base.borrowIndex
    <2>1. NoWorse(mc, mc, a)
      BY <1>2, SameIsNoWorse
    <2> QED
      BY <1>2, <1>3, <1>5, <2>1 DEF Sound
  <1> HIDE DEF collateral
  <1> HIDE DEF mem
  <1>7. Alike(collateral, m1, mem) /\ Sound(m1, mem, now) /\ m1.borrowIndex = collateral.borrowIndex
    <2>1. mem = accountMembership[jc] /\ m1 = Initialized(collateral, jc, liquidator)
      BY DEF mem
    <2> QED
      BY <1>2, <1>6, <2>1, FilledIn
  <1> HIDE DEF m1
  <1>8. Alike(m1, m, mem) /\ Sound(m, mem, now) /\ m.borrowIndex = m1.borrowIndex /\ m \in MarketType
    <2>1. mem = accountMembership[jc] /\ m = Initialized(m1, jc, borrower)
      BY DEF mem
    <2>2. Alike(m1, m, mem) /\ Sound(m, mem, now) /\ m.borrowIndex = m1.borrowIndex
      BY <1>2, <1>7, <2>1, FilledIn
    <2> QED
      BY <2>2 DEF Sound
  <1>9. Alike(collateral, m, mem)
    BY <1>7, <1>8, AlikeIsTransitive
  <1> HIDE DEF m, n
  <1>10. n.borrowIndex = base.borrowIndex
    <2>1. n.borrowIndex = m.borrowIndex
      <3>1. CASE tokens = 0
        BY <1>1, <3>1
      <3>2. CASE tokens # 0
        <4>1. ~SeizeInternalReverts(m, borrower, tokens)
              /\ n = SeizeInternal(m, liquidator, borrower, tokens)
          BY <1>1, <3>2
        <4> QED
          BY <1>8, <4>1, SeizedTokens
      <3> QED
        BY <3>1, <3>2
    <2> QED
      BY <1>6, <1>7, <1>8, <2>1
  <1>11. /\ mb.borrowIndex = jToken[jb].borrowIndex
         /\ jb # jc => mc.borrowIndex = jToken[jc].borrowIndex
    BY <1>1, <1>5, <1>10 DEF InterestIsStable, n
  <1>12. /\ NoWorse(jToken[jb], mb, a) /\ (jb # jc => NoWorse(jToken[jc], mc, a))
    BY <1>11, StableIsNoWorse
  <1>13. /\ \A c \in Account : /\ BorrowBalanceStored(mb, c) \in Nat
                               /\ BorrowBalanceStored(repaid, c) \in Nat
                               /\ BorrowBalanceStored(jToken[jb], c) \in Nat
                               /\ BorrowBalanceStored(jToken[jc], c) \in Nat
                               /\ BorrowBalanceStored(mc, c) \in Nat
                               /\ BorrowBalanceStored(collateral, c) \in Nat
                               /\ BorrowBalanceStored(m, c) \in Nat
         /\ jToken[jb] \in MarketType /\ jToken[jc] \in MarketType /\ repaid \in MarketType
    BY <1>2, <1>3, <1>6, <1>8, BorrowBalanceType DEF Inv, Storages, Sound
  <1>14. NoWorse(jToken[jb], repaid, a)
    BY <1>2, <1>5, <1>12, <1>13, NoWorseIsTransitive
  <1>15. NoWorse(jToken[jc], collateral, a)
    <2>1. CASE jb = jc
      BY <1>14, <2>1 DEF collateral
    <2>2. CASE jb # jc
      BY <1>12, <2>2 DEF collateral
    <2> QED
      BY <2>1, <2>2
  <1>16. ASSUME a \in mem PROVE NoWorse(jToken[jc], m, a)
    <2>1. /\ JTokenBalance(m, a) = JTokenBalance(collateral, a)
          /\ BorrowBalanceStored(m, a) = BorrowBalanceStored(collateral, a)
      BY <1>9, <1>16 DEF Alike
    <2> QED
      BY <1>15, <2>1 DEF NoWorse
  <1>17. CASE tokens = 0 \/ a # borrower
    <2>1. ASSUME a \in mem PROVE NoWorse(jToken[jc], n, a)
      <3>1. CASE tokens = 0
        BY <1>1, <1>16, <2>1, <3>1
      <3>2. CASE tokens # 0
        <4>1. /\ ~SeizeInternalReverts(m, borrower, tokens)
              /\ n = SeizeInternal(m, liquidator, borrower, tokens)
              /\ a \in Account \ {borrower}
          BY <1>1, <1>17, <3>2
        <4>2. /\ JTokenBalance(m, a) <= JTokenBalance(n, a)
              /\ BorrowBalanceStored(n, a) = BorrowBalanceStored(m, a)
          BY <1>2, <1>8, <4>1, SeizedBalances
        <4>3. /\ JTokenBalance(jToken[jc], a) \in Nat /\ JTokenBalance(m, a) \in Nat
              /\ JTokenBalance(n, a) \in Nat
          BY <1>2, <1>8, <1>13, BalanceType
        <4> QED
          BY <1>16, <2>1, <4>2, <4>3 DEF NoWorse
      <3> QED
        BY <3>1, <3>2
    <2>2. jb # jc => NoWorse(jToken[jb], jToken'[jb], a)
      BY <1>1, <1>14
    <2>3. /\ a \in accountMembership[jb] => NoWorse(jToken[jb], jToken'[jb], a)
          /\ a \in accountMembership[jc] => NoWorse(jToken[jc], jToken'[jc], a)
      <3>1. a \in accountMembership[jc] => NoWorse(jToken[jc], jToken'[jc], a)
        BY <2>1 DEF mem, n
      <3> QED
        BY <2>2, <3>1
    <2> QED
      BY <2>3, TwoMarketsAreUnhurt
  <1>18. CASE a = borrower
    <2>1. ShortfallOf(a) # 0
      BY <1>11, <1>18, AccruedSameShortfall
    <2> QED
      BY <2>1 DEF Unhurt
  <1> QED
    BY <1>17, <1>18

LEMMA LiquidateBorrowIsUnhurt ==
    ASSUME Inv, Inv', NEW jb \in JToken, NEW jc \in JToken, WithinBounds(jToken[jc]),
           NEW liquidator \in Account, NEW borrower \in Account,
           NEW repayAmount \in LiquidationAmounts,
           LiquidateBorrow(jb, jc, liquidator, borrower, repayAmount), NEW a \in Account
    PROVE  Unhurt(a)
PROOF
  <1>1. config' = config /\ price' = price /\ accountMembership' = accountMembership
    BY DEF LiquidateBorrow, TrollerUnchanged, trollerVars
  <1>2. \A k \in JToken \ {jb, jc} : jToken'[k] = jToken[k]
    BY LiquidationOutcome
  <1>3. PICK mb \in Accruals(jToken[jb], now), mc \in Accruals(jToken[jc], now) :
          \/ jToken'[jb] = mb /\ jToken'[jc] = IF jb = jc THEN mb ELSE mc
          \/ /\ liquidator # borrower /\ repayAmount # 0
             /\ AccountLiquidity(AccruedAt(jb, jc, mb, mc), borrower).shortfall # 0
             /\ \E actual \in Received(mb, repayAmount), tokens \in Nat :
                  Liquidation(jb, jc, mb, mc, liquidator, borrower, actual, tokens)
    BY LiquidationOutcome
  <1>4. CASE jToken'[jb] = mb /\ jToken'[jc] = IF jb = jc THEN mb ELSE mc
    <2> SUFFICES ASSUME InterestIsStable PROVE Unhurt(a)
      BY DEF Unhurt
    <2>1. /\ mb.borrowIndex = jToken[jb].borrowIndex
          /\ jb # jc => mc.borrowIndex = jToken[jc].borrowIndex
      BY <1>4 DEF InterestIsStable
    <2>2. NoWorse(jToken[jb], mb, a) /\ (jb # jc => NoWorse(jToken[jc], mc, a))
      BY <2>1, StableIsNoWorse
    <2>3. NoWorse(jToken[jb], jToken'[jb], a) /\ NoWorse(jToken[jc], jToken'[jc], a)
      BY <1>4, <2>2
    <2> QED
      BY <1>1, <1>2, <2>3, TwoMarketsAreUnhurt
  <1>5. ASSUME liquidator # borrower,
               AccountLiquidity(AccruedAt(jb, jc, mb, mc), borrower).shortfall # 0,
               NEW actual \in Received(mb, repayAmount), NEW tokens \in Nat,
               Liquidation(jb, jc, mb, mc, liquidator, borrower, actual, tokens)
        PROVE  Unhurt(a)
    <2>1. mb \in MarketType /\ repayAmount \in Nat
      BY PreparedIsAtRest, JoeLendingAssumption DEF Sound
    <2>2. actual \in Nat
      BY <2>1, ReceivedType
    <2> QED
      BY <1>1, <1>2, <1>5, <2>2, LiquidationIsUnhurt
  <1> QED
    BY <1>3, <1>4, <1>5

(* Interest that is not due, and the settings of a market, hurt nobody.    *)
LEMMA SettingIsUnhurt ==
    ASSUME Inv, Inv', NEW j \in JToken,
           \/ Accrue(j)
           \/ \E mantissa \in SeizeShares : SetProtocolSeizeShare(j, mantissa)
           \/ \E cap \in CollateralCaps : SetCollateralCap(j, cap),
           NEW a \in Account
    PROVE  Unhurt(a)
PROOF
  <1>1. config' = config /\ price' = price /\ accountMembership' = accountMembership
    BY DEF Accrue, SetProtocolSeizeShare, SetCollateralCap, TrollerUnchanged, trollerVars
  <1>2. ASSUME NEW m, Sound(m, accountMembership[j], now), NEW share, NEW cap,
               NEW n \in { m, [m EXCEPT !.protocolSeizeShareMantissa = share],
                           [m EXCEPT !.collateralCap = cap] }
        PROVE  NoWorse(m, n, a) /\ n.borrowIndex = m.borrowIndex
    <2>1. /\ n.borrowIndex = m.borrowIndex /\ n.accountBorrows = m.accountBorrows
          /\ n.accountTokens = m.accountTokens
          /\ n.accountCollateralTokens = m.accountCollateralTokens
          /\ n.isCollateralTokenInit = m.isCollateralTokenInit
      BY <1>2 DEF Sound, MarketType
    <2>2. /\ JTokenBalance(n, a) = JTokenBalance(m, a)
          /\ BorrowBalanceStored(n, a) = BorrowBalanceStored(m, a)
      BY <2>1 DEF JTokenBalance, BorrowBalanceStored
    <2> QED
      BY <1>2, <2>1, <2>2, SameIsNoWorse DEF NoWorse
  <1>3. CASE Accrue(j)
    <2>1. PICK m \in Accruals(jToken[j], now) : jToken' = With(j, m)
      BY <1>3 DEF Accrue
    <2>2. NoWorse(m, m, a)
      BY SameIsNoWorse, PreparedIsAtRest
    <2> QED
      BY <1>1, <2>1, <2>2, QuietIsUnhurt
  <1>4. ASSUME NEW mantissa \in SeizeShares, SetProtocolSeizeShare(j, mantissa)
        PROVE  Unhurt(a)
    <2>1. PICK m \in Accruals(jToken[j], now) :
            jToken' = With(j, [m EXCEPT !.protocolSeizeShareMantissa = mantissa])
      BY <1>4 DEF SetProtocolSeizeShare
    <2>2. Sound(m, accountMembership[j], now)
      BY PreparedIsAtRest
    <2> DEFINE n == [m EXCEPT !.protocolSeizeShareMantissa = mantissa]
    <2>3. NoWorse(m, n, a) /\ n.borrowIndex = m.borrowIndex /\ jToken' = With(j, n)
      BY <1>2, <2>1, <2>2
    <2> HIDE DEF n
    <2> QED
      BY <1>1, <2>3, QuietIsUnhurt
  <1>5. ASSUME NEW cap \in CollateralCaps, SetCollateralCap(j, cap)
        PROVE  Unhurt(a)
    <2> DEFINE n == [jToken[j] EXCEPT !.collateralCap = cap]
    <2>1. Sound(jToken[j], accountMembership[j], now)
      BY DEF Inv, Storages
    <2>2. NoWorse(jToken[j], n, a) /\ jToken' = With(j, n)
      BY <1>2, <1>5, <2>1 DEF SetCollateralCap
    <2> HIDE DEF n
    <2> QED
      BY <1>1, <2>2, CallIsUnhurt
  <1> QED
    BY <1>3, <1>4, <1>5

(* What a step may do to a, if it does anything to the markets and to the  *)
(* lists and leaves prices and the configuration.                          *)
Spared(a) ==
    \/ UNCHANGED <<jToken, accountAssets>>
    \/ price' # price
    \/ config' # config
    \/ Unhurt(a)

LEMMA StepIsSpared ==
    ASSUME Inv, Inv', Bounded, Step
    PROVE  \A a \in Account : Spared(a)
PROOF
  <1> DEFINE AllSpared == \A a \in Account : Spared(a)
  <1>1. ASSUME NEW j \in JToken, NEW b \in Account, NEW amount \in Amounts,
               \/ Mint(j, b, amount)
               \/ Redeem(j, b, amount, 0)
               \/ Redeem(j, b, 0, amount)
               \/ Borrow(j, b, amount)
               \/ \E dst \in Account : Transfer(j, b, dst, amount)
        PROVE  AllSpared
    <2>1. amount \in Nat /\ 0 \in Nat
      BY JoeLendingAssumption
    <2> QED
      BY <1>1, <2>1, MintIsUnhurt, RedeemIsUnhurt, BorrowIsUnhurt, TransferIsUnhurt DEF Spared
  <1>2. ASSUME NEW j \in JToken, NEW b \in Account, NEW amount \in Amounts \cup {UIntMax},
               RepayBorrow(j, b, amount)
        PROVE  AllSpared
    BY <1>2, RepayBorrowIsUnhurt DEF Spared
  <1>3. ASSUME NEW jb \in JToken, NEW jc \in JToken, NEW liquidator \in Account,
               NEW borrower \in Account, NEW amount \in LiquidationAmounts,
               LiquidateBorrow(jb, jc, liquidator, borrower, amount)
        PROVE  AllSpared
    BY <1>3, LiquidateBorrowIsUnhurt DEF Bounded, Spared
  <1>4. ASSUME NEW j \in JToken, NEW b \in Account, EnterMarket(j, b) \/ ExitMarket(j, b)
        PROVE  AllSpared
    BY <1>4, EnterMarketIsUnhurt, ExitMarketIsUnhurt DEF Spared
  <1>5. ASSUME NEW j \in JToken, Accrue(j) PROVE AllSpared
    BY <1>5, SettingIsUnhurt DEF Spared
  <1>6. ASSUME NEW j \in JToken, NEW mantissa \in SeizeShares, SetProtocolSeizeShare(j, mantissa)
        PROVE  AllSpared
    BY <1>6, SettingIsUnhurt DEF Spared
  <1>7. ASSUME NEW j \in JToken, NEW cap \in CollateralCaps, SetCollateralCap(j, cap)
        PROVE  AllSpared
    BY <1>7, SettingIsUnhurt DEF Spared
  <1>8. ASSUME NEW j \in JToken, NEW p \in Prices, SetPrice(j, p) PROVE AllSpared
    BY <1>8 DEF SetPrice, Spared
  <1>9. ASSUME JoetrollerAdmin PROVE AllSpared
    <2>1. accountAssets' = accountAssets
      BY <1>9 DEF JoetrollerAdmin, SetCloseFactor, SetLiquidationIncentive, SetCollateralFactor,
                  SetMarketSupplyCap, SetMarketBorrowCap, SetCreditLimit, SetMintPaused,
                  SetBorrowPaused, SetTransferPaused, SetSeizePaused, SetConfig,
                  SupportMarket, DelistMarket
    <2>2. jToken' = jToken
      BY <1>9, AdminLeavesMarkets
    <2> QED
      BY <2>1, <2>2 DEF Spared
  <1>10. ASSUME Tick PROVE AllSpared
    BY <1>10 DEF Tick, trollerVars, Spared
  <1> HIDE DEF AllSpared
  <1>11. AllSpared
    BY <1>1, <1>2, <1>3, <1>4, <1>5, <1>6, <1>7, <1>8, <1>9, <1>10, Zenon DEF Step
  <1> QED
    BY <1>11 DEF AllSpared

LEMMA NextIsSpared ==
    Inv /\ Bounded /\ [Next]_vars => \A a \in Account : Spared(a) /\ ShortfallOf(a) \in Nat
PROOF
  <1> SUFFICES ASSUME Inv, Bounded, [Next]_vars
               PROVE  \A a \in Account : Spared(a) /\ ShortfallOf(a) \in Nat
    OBVIOUS
  <1>1. Inv'
    BY NextKeepsInv
  <1>2. \A a \in Account : ShortfallOf(a) \in Nat
    BY ShortfallNow
  <1>3. CASE UNCHANGED vars
    BY <1>2, <1>3 DEF vars, trollerVars, Spared
  <1>4. CASE Next
    BY <1>1, <1>2, <1>4, StepIsSpared DEF Next
  <1> QED
    BY <1>3, <1>4

(* Nothing that is done to the markets puts an account without a shortfall *)
(* into one of more than the unit that truncation may cost, while prices,  *)
(* configuration, interest and the rates of its markets stand.             *)
THEOREM ShortfallTheorem ==
    Spec => NoSelfInflictedShortfall
PROOF
  <1>1. Init => Bounded
    BY InitIsMarketInits
  <1>2. Bounded /\ [Next]_vars => Bounded'
    BY BoundsAreKept
  <1>3. Inv /\ Bounded /\ [Next]_vars =>
          [ \A a \in Account :
              \/ UNCHANGED <<jToken, accountAssets>>
              \/ price' # price
              \/ config' # config
              \/ ~InterestIsStable
              \/ ~RatesHold(a)
              \/ (ShortfallOf(a))' <= 1
              \/ ShortfallOf(a) > 0 ]_vars
    <2> SUFFICES ASSUME Inv, Bounded, [Next]_vars, NEW a \in Account
                 PROVE  \/ UNCHANGED <<jToken, accountAssets>>
                        \/ price' # price
                        \/ config' # config
                        \/ ~InterestIsStable
                        \/ ~RatesHold(a)
                        \/ (ShortfallOf(a))' <= 1
                        \/ ShortfallOf(a) > 0
      OBVIOUS
    <2> DEFINE before == ShortfallOf(a)
               after  == (ShortfallOf(a))'
    <2>1. Spared(a) /\ before \in Nat
      BY NextIsSpared
    <2>2. \/ UNCHANGED <<jToken, accountAssets>>
          \/ price' # price
          \/ config' # config
          \/ (RatesHold(a) /\ InterestIsStable /\ before = 0 => after <= 1)
      BY <2>1 DEF Spared, Unhurt
    <2> HIDE DEF before, after
    <2>3. before = 0 \/ before > 0
      BY <2>1
    <2>4. \/ UNCHANGED <<jToken, accountAssets>>
          \/ price' # price
          \/ config' # config
          \/ ~InterestIsStable
          \/ ~RatesHold(a)
          \/ after <= 1
          \/ before > 0
      BY <2>2, <2>3
    <2> QED
      BY <2>4 DEF before, after
  <1> QED
    BY <1>1, <1>2, <1>3, InvIsInvariant, PTL DEF Spec, NoSelfInflictedShortfall

================================================================================
