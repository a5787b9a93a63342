------------------------------ MODULE JoeLendingProofs -----------------------------
(***************************************************************************)
(* Theorems about every behaviour of the markets under their Joetroller:   *)
(* for every finite set of markets and accounts, every configuration, all  *)
(* prices and all inputs.                                                  *)
(*                                                                         *)
(* The argument is one inductive invariant, Inv: the storage of every      *)
(* market is sound for the members the Joetroller has of it, and the       *)
(* Joetroller's arrays match its mappings.  No debt is then out of the     *)
(* sight of a liquidity check.  Before it come lemmas about the arrays:    *)
(* what appending a market and removing one by swapping with the last do   *)
(* to the set an array stands for.                                         *)
(***************************************************************************)
EXTENDS JoeLending, JCollateralCapErc20Proofs, SequenceTheorems

--------------------------------------------------------------------------------
(***************************************************************************)
(* Arrays that have no market twice.                                       *)
(***************************************************************************)
NoRepeats(s) == \A i, k \in 1 .. Len(s) : s[i] = s[k] => i = k

(* The array s stands for the set of markets S. *)
ListsExactly(s, S) ==
    /\ s \in Seq(JToken)
    /\ ToSet(s) = S
    /\ NoRepeats(s)

(* The elements of an array are what its places hold. *)
LEMMA ElementsOfList ==
    ASSUME NEW s \in Seq(JToken)
    PROVE  /\ Len(s) \in Nat /\ DOMAIN s = 1 .. Len(s)
           /\ \A i \in 1 .. Len(s) : s[i] \in JToken /\ s[i] \in ToSet(s)
           /\ \A x \in ToSet(s) : \E i \in 1 .. Len(s) : s[i] = x
           /\ ToSet(s) \subseteq JToken
BY DEF ToSet

(* An array without repetitions is as long as its set is large. *)
LEMMA LengthOfList ==
    ASSUME NEW s \in Seq(JToken), NoRepeats(s)
    PROVE  /\ IsFiniteSet(ToSet(s))
           /\ Len(s) = Cardinality(ToSet(s))
PROOF
  <1>1. s \in [1 .. Len(s) -> ToSet(s)] /\ Len(s) \in Nat
    BY ElementsOfList
  <1>2. s \in Surjection(1 .. Len(s), ToSet(s))
    BY <1>1, ElementsOfList DEF Surjection
  <1>3. s \in Injection(1 .. Len(s), ToSet(s))
    BY <1>1 DEF Injection, IsInjective, NoRepeats
  <1>4. IsFiniteSet(1 .. Len(s)) /\ Cardinality(1 .. Len(s)) = Len(s)
    <2> DEFINE n == Len(s)
    <2>1. n \in Nat
      BY <1>1
    <2> HIDE DEF n
    <2>2. IsFiniteSet(1 .. n) /\ Cardinality(1 .. n) = IF 1 > n THEN 0 ELSE n - 1 + 1
      BY <2>1, FS_Interval
    <2>3. (IF 1 > n THEN 0 ELSE n - 1 + 1) = n
      BY <2>1
    <2> QED
      BY <2>2, <2>3 DEF n
  <1> QED
    BY <1>2, <1>3, <1>4, FS_Surjection

(* Appending a market that is not in the array adds it to the set. *)
LEMMA AppendToList ==
    ASSUME NEW s, NEW S, ListsExactly(s, S), NEW x \in JToken, x \notin S
    PROVE  ListsExactly(Append(s, x), S \cup {x})
PROOF
  <1> DEFINE t == Append(s, x)
  <1>1. /\ s \in Seq(JToken) /\ Len(s) \in Nat /\ ToSet(s) = S
        /\ \A i \in 1 .. Len(s) : s[i] \in S
    BY ElementsOfList DEF ListsExactly
  <1>2. /\ t \in Seq(JToken) /\ Len(t) = Len(s) + 1
        /\ \A i \in 1 .. Len(s) : t[i] = s[i]
        /\ t[Len(s) + 1] = x
    BY <1>1
  <1> HIDE DEF t
  <1>3. ToSet(t) = S \cup {x}
    <2>1. ASSUME NEW y \in ToSet(t) PROVE y \in S \cup {x}
      <3>1. PICK i \in 1 .. Len(t) : t[i] = y
        BY <1>2, ElementsOfList
      <3>2. i \in 1 .. Len(s) \/ i = Len(s) + 1
        BY <1>1, <1>2, <3>1
      <3> QED
        BY <1>1, <1>2, <3>1, <3>2
    <2>2. ASSUME NEW y \in S PROVE y \in ToSet(t)
      <3>1. PICK i \in 1 .. Len(s) : s[i] = y
        BY <1>1, ElementsOfList
      <3>2. i \in 1 .. Len(t) /\ t[i] = y
        BY <1>1, <1>2, <3>1
      <3> QED
        BY <1>2, <3>2, ElementsOfList
    <2>3. x \in ToSet(t)
      <3>1. Len(s) + 1 \in 1 .. Len(t)
        BY <1>1, <1>2
      <3> QED
        BY <1>2, <3>1, ElementsOfList
    <2> QED
      BY <2>1, <2>2, <2>3
  <1>4. NoRepeats(t)
    <2> SUFFICES ASSUME NEW i \in 1 .. Len(t), NEW k \in 1 .. Len(t), t[i] = t[k]
                 PROVE  i = k
      BY DEF NoRepeats
    <2>1. /\ i \in 1 .. Len(s) \/ i = Len(s) + 1
          /\ k \in 1 .. Len(s) \/ k = Len(s) + 1
      BY <1>1, <1>2
    <2> QED
      BY <1>1, <1>2, <2>1 DEF ListsExactly, NoRepeats
  <1> QED
    BY <1>2, <1>3, <1>4 DEF ListsExactly, t

(* Removing a market that is in the array takes it out of the set and      *)
(* keeps every other one, also when the market is the last of the array.   *)
LEMMA SwapWithLastOfList ==
    ASSUME NEW s, NEW S, ListsExactly(s, S), NEW x \in S
    PROVE  ListsExactly(SwapWithLast(s, x), S \ {x})
PROOF
  <1> DEFINE n == Len(s)
             t == SwapWithLast(s, x)
  <1>1. /\ s \in Seq(JToken) /\ n \in Nat /\ ToSet(s) = S
        /\ \A i \in 1 .. n : s[i] \in S /\ s[i] \in JToken
        /\ \A i, k \in 1 .. n : s[i] = s[k] => i = k
    BY ElementsOfList DEF ListsExactly, NoRepeats
  <1>2. PICK p \in 1 .. n : s[p] = x
    BY <1>1, ElementsOfList
  <1>3. n >= 1 /\ n \in 1 .. n /\ n - 1 \in Nat
    BY <1>1, <1>2
  <1>4. ASSUME NEW i \in 1 .. n - 1
        PROVE  /\ i \in 1 .. n
               /\ (s[i] = x /\ \A h \in 1 .. i - 1 : s[h] # x) <=> i = p
    <2>1. i \in 1 .. n
      BY <1>3
    <2>2. \A h \in 1 .. i - 1 : h \in 1 .. n /\ h # i
      BY <1>3
    <2> QED
      BY <1>1, <1>2, <2>1, <2>2
  <1>5. t = [i \in 1 .. n - 1 |-> IF i = p THEN s[n] ELSE s[i]]
    BY <1>4, Zenon DEF SwapWithLast
  <1>6. /\ t \in Seq(JToken) /\ Len(t) = n - 1
        /\ \A i \in 1 .. n - 1 : t[i] = IF i = p THEN s[n] ELSE s[i]
    <2>1. \A i \in 1 .. n - 1 : (IF i = p THEN s[n] ELSE s[i]) \in JToken
      BY <1>1, <1>3, <1>4
    <2>2. t \in [1 .. n - 1 -> JToken]
      BY <1>5, <2>1, Zenon
    <2>3. t \in Seq(JToken)
      BY <1>3, <2>2, SeqDef, Zenon
    <2>4. Len(t) = n - 1
      BY <1>3, <2>2, <2>3, ElementsOfList
    <2> QED
      BY <1>5, <2>3, <2>4, Zenon
  <1> HIDE DEF t, n
  <1>7. ToSet(t) = S \ {x}
    <2>1. ASSUME NEW y \in ToSet(t) PROVE y \in S \ {x}
      <3>1. PICK i \in 1 .. n - 1 : t[i] = y
        BY <1>6, ElementsOfList
      <3>2. CASE i = p
        BY <1>1, <1>2, <1>3, <1>6, <3>1, <3>2
      <3>3. CASE i # p
        BY <1>1, <1>2, <1>4, <1>6, <3>1, <3>3
      <3> QED
        BY <3>2, <3>3
    <2>2. ASSUME NEW y \in S \ {x} PROVE y \in ToSet(t)
      <3>1. PICK k \in 1 .. n : s[k] = y
        BY <1>1, ElementsOfList DEF n
      <3>2. k # p
        BY <1>2, <3>1
      <3>3. CASE k = n
        <4>1. p \in 1 .. n - 1
          BY <1>2, <1>3, <3>2, <3>3
        <4>2. t[p] = y
          BY <1>6, <3>1, <3>3, <4>1
        <4> QED
          BY <1>6, <4>1, <4>2, ElementsOfList
      <3>4. CASE k # n
        <4>1. k \in 1 .. n - 1
          BY <1>3, <3>1, <3>4
        <4>2. t[k] = y
          BY <1>6, <3>1, <3>2, <4>1
        <4> QED
          BY <1>6, <4>1, <4>2, ElementsOfList
      <3> QED
        BY <3>3, <3>4
    <2> QED
      BY <2>1, <2>2
  <1>8. NoRepeats(t)
    <2> SUFFICES ASSUME NEW i \in 1 .. n - 1, NEW k \in 1 .. n - 1, t[i] = t[k]
                 PROVE  i = k
      BY <1>6 DEF NoRepeats
    <2>1. i \in 1 .. n /\ k \in 1 .. n /\ i # n /\ k # n
      BY <1>3
    <2> QED
      BY <1>1, <1>3, <1>6, <2>1
  <1> QED
    BY <1>6, <1>7, <1>8 DEF ListsExactly, t

--------------------------------------------------------------------------------
(***************************************************************************)
(* The storage of the Joetroller.                                          *)
(***************************************************************************)
(* The markets an account entered, by the mapping. *)
Entered(account) == { j \in JToken : account \in accountMembership[j] }

ArraysMatch ==
    /\ isListed \in SUBSET JToken
    /\ ListsExactly(allMarkets, isListed)
    /\ accountMembership \in [JToken -> SUBSET Account]
    /\ accountAssets \in [Account -> Seq(JToken)]
    /\ \A a \in Account : ListsExactly(accountAssets[a], Entered(a))

SettingsTyped ==
    /\ config \in ConfigType
    /\ price \in [JToken -> Nat]

TrollerSound == ArraysMatch /\ SettingsTyped

(* Steps that leave the arrays and the mappings alone keep them matched.   *)
LEMMA ArraysUnchanged ==
    ASSUME ArraysMatch, UNCHANGED <<isListed, allMarkets, accountMembership, accountAssets>>
    PROVE  ArraysMatch'
BY DEF ArraysMatch, Entered

(* addToMarketInternal keeps the array of an account matched with the      *)
(* mapping, and the arrays of the others.                                  *)
LEMMA AddToMarketMatches ==
    ASSUME ArraysMatch, NEW j \in JToken, NEW account \in Account, AddToMarket(j, account),
           UNCHANGED <<isListed, allMarkets>>
    PROVE  /\ ArraysMatch'
           /\ accountMembership' = [accountMembership EXCEPT ![j] = @ \cup {account}]
PROOF
  <1>1. /\ accountMembership \in [JToken -> SUBSET Account]
        /\ accountAssets \in [Account -> Seq(JToken)]
        /\ \A a \in Account : ListsExactly(accountAssets[a], Entered(a))
    BY DEF ArraysMatch
  <1>2. CASE account \in accountMembership[j]
    <2>1. UNCHANGED <<accountMembership, accountAssets>>
      BY <1>2 DEF AddToMarket
    <2>2. accountMembership = [accountMembership EXCEPT ![j] = @ \cup {account}]
      BY <1>1, <1>2
    <2> QED
      BY <2>1, <2>2, ArraysUnchanged
  <1>3. CASE account \notin accountMembership[j]
    <2>1. /\ accountMembership' = [accountMembership EXCEPT ![j] = @ \cup {account}]
          /\ accountAssets' = [accountAssets EXCEPT ![account] = Append(@, j)]
      BY <1>3 DEF AddToMarket
    <2>2. j \notin Entered(account)
      BY <1>3 DEF Entered
    <2>3. ListsExactly(Append(accountAssets[account], j), Entered(account) \cup {j})
      BY <1>1, <2>2, AppendToList
    <2>4. accountMembership' \in [JToken -> SUBSET Account]
      BY <1>1, <2>1
    <2>5. accountAssets' \in [Account -> Seq(JToken)]
      BY <1>1, <2>1, <2>3 DEF ListsExactly
    <2>6. ASSUME NEW a \in Account PROVE ListsExactly(accountAssets'[a], Entered(a)')
      <3>1. CASE a = account
        <4>1. Entered(a)' = Entered(account) \cup {j}
          BY <1>1, <2>1, <3>1 DEF Entered
        <4>2. accountAssets'[a] = Append(accountAssets[account], j)
          BY <1>1, <2>1, <3>1
        <4> QED
          BY <2>3, <4>1, <4>2
      <3>2. CASE a # account
        <4>1. Entered(a)' = Entered(a)
          BY <1>1, <2>1, <3>2 DEF Entered
        <4>2. accountAssets'[a] = accountAssets[a]
          BY <1>1, <2>1, <3>2
        <4> QED
          BY <1>1, <4>1, <4>2
      <3> QED
        BY <3>1, <3>2
    <2> QED
      BY <2>1, <2>4, <2>5, <2>6 DEF ArraysMatch
  <1> QED
    BY <1>2, <1>3

(* The removal of exitMarket does, too: its assertion that the array has   *)
(* the market holds.                                                       *)
LEMMA RemoveFromMarketMatches ==
    ASSUME ArraysMatch, NEW j \in JToken, NEW account \in Account, RemoveFromMarket(j, account),
           UNCHANGED <<isListed, allMarkets>>
    PROVE  /\ ArraysMatch'
           /\ accountMembership' = [accountMembership EXCEPT ![j] = @ \ {account}]
PROOF
  <1>1. /\ accountMembership \in [JToken -> SUBSET Account]
        /\ accountAssets \in [Account -> Seq(JToken)]
        /\ \A a \in Account : ListsExactly(accountAssets[a], Entered(a))
    BY DEF ArraysMatch
  <1>2. CASE account \notin accountMembership[j]
    <2>1. UNCHANGED <<accountMembership, accountAssets>>
      BY <1>2 DEF RemoveFromMarket
    <2>2. accountMembership = [accountMembership EXCEPT ![j] = @ \ {account}]
      BY <1>1, <1>2
    <2> QED
      BY <2>1, <2>2, ArraysUnchanged
  <1>3. CASE account \in accountMembership[j]
    <2>1. /\ accountMembership' = [accountMembership EXCEPT ![j] = @ \ {account}]
          /\ accountAssets' = [accountAssets EXCEPT ![account] = SwapWithLast(@, j)]
      BY <1>3 DEF RemoveFromMarket
    <2>2. j \in Entered(account)
      BY <1>3 DEF Entered
    <2>3. ListsExactly(SwapWithLast(accountAssets[account], j), Entered(account) \ {j})
      BY <1>1, <2>2, SwapWithLastOfList
    <2>4. accountMembership' \in [JToken -> SUBSET Account]
      BY <1>1, <2>1
    <2>5. accountAssets' \in [Account -> Seq(JToken)]
      BY <1>1, <2>1, <2>3 DEF ListsExactly
    <2>6. ASSUME NEW a \in Account PROVE ListsExactly(accountAssets'[a], Entered(a)')
      <3>1. CASE a = account
        <4>1. Entered(a)' = Entered(account) \ {j}
          BY <1>1, <2>1, <3>1 DEF Entered
        <4>2. accountAssets'[a] = SwapWithLast(accountAssets[account], j)
          BY <1>1, <2>1, <3>1
        <4> QED
          BY <2>3, <4>1, <4>2
      <3>2. CASE a # account
        <4>1. Entered(a)' = Entered(a)
          BY <1>1, <2>1, <3>2 DEF Entered
        <4>2. accountAssets'[a] = accountAssets[a]
          BY <1>1, <2>1, <3>2
        <4> QED
          BY <1>1, <4>1, <4>2
      <3> QED
        BY <3>1, <3>2
    <2> QED
      BY <2>1, <2>4, <2>5, <2>6 DEF ArraysMatch
  <1> QED
    BY <1>2, <1>3

(* Listing and delisting keep allMarkets the listed markets.               *)
LEMMA SupportMarketMatches ==
    ASSUME ArraysMatch, NEW j \in JToken, SupportMarket(j)
    PROVE  ArraysMatch'
PROOF
  <1>1. /\ isListed \in SUBSET JToken /\ ListsExactly(allMarkets, isListed) /\ j \notin isListed
        /\ isListed' = isListed \cup {j} /\ allMarkets' = Append(allMarkets, j)
        /\ UNCHANGED <<accountMembership, accountAssets>>
    BY DEF ArraysMatch, SupportMarket
  <1>2. ListsExactly(allMarkets', isListed')
    BY <1>1, AppendToList
  <1> QED
    BY <1>1, <1>2 DEF ArraysMatch, Entered

LEMMA DelistMarketMatches ==
    ASSUME ArraysMatch, NEW j \in JToken, NEW totalSupply, DelistMarket(j, totalSupply)
    PROVE  ArraysMatch'
PROOF
  <1>1. /\ isListed \in SUBSET JToken /\ ListsExactly(allMarkets, isListed) /\ j \in isListed
        /\ isListed' = isListed \ {j} /\ allMarkets' = SwapWithLast(allMarkets, j)
        /\ UNCHANGED <<accountMembership, accountAssets>>
    BY DEF ArraysMatch, DelistMarket
  <1>2. ListsExactly(allMarkets', isListed')
    BY <1>1, SwapWithLastOfList
  <1> QED
    BY <1>1, <1>2 DEF ArraysMatch, Entered

--------------------------------------------------------------------------------
(***************************************************************************)
(* The configuration: every setter writes a value of the field's type.     *)
(***************************************************************************)
LEMMA ConfigUpdates ==
    ASSUME NEW c \in ConfigType
    PROVE  /\ \A v \in Nat :
                 /\ [c EXCEPT !.closeFactorMantissa = v] \in ConfigType
                 /\ [c EXCEPT !.liquidationIncentiveMantissa = v] \in ConfigType
                 /\ \A j \in JToken :
                       /\ [c EXCEPT !.supplyCaps[j] = v] \in ConfigType
                       /\ [c EXCEPT !.borrowCaps[j] = v] \in ConfigType
           /\ \A j \in JToken, v \in 0 .. collateralFactorMaxMantissa :
                 [c EXCEPT !.collateralFactorMantissa[j] = v] \in ConfigType
           /\ \A a \in Account, v \in Nat \cup {UIntMax} :
                 [c EXCEPT !.creditLimits[a] = v] \in ConfigType
           /\ \A v \in SUBSET JToken :
                 /\ [c EXCEPT !.mintGuardianPaused = v] \in ConfigType
                 /\ [c EXCEPT !.borrowGuardianPaused = v] \in ConfigType
           /\ \A v \in BOOLEAN :
                 /\ [c EXCEPT !.transferGuardianPaused = v] \in ConfigType
                 /\ [c EXCEPT !.seizeGuardianPaused = v] \in ConfigType
           /\ \A j \in JToken, state \in BOOLEAN :
                 /\ (IF state THEN c.mintGuardianPaused \cup {j}
                              ELSE c.mintGuardianPaused \ {j}) \in SUBSET JToken
                 /\ (IF state THEN c.borrowGuardianPaused \cup {j}
                              ELSE c.borrowGuardianPaused \ {j}) \in SUBSET JToken
PROOF
  <1>1. c \in ConfigType
    OBVIOUS
  <1>2. ASSUME NEW v \in Nat
        PROVE  /\ [c EXCEPT !.closeFactorMantissa = v] \in ConfigType
               /\ [c EXCEPT !.liquidationIncentiveMantissa = v] \in ConfigType
    BY <1>1 DEF ConfigType
  <1>3. ASSUME NEW v \in Nat, NEW j \in JToken
        PROVE  /\ [c EXCEPT !.supplyCaps[j] = v] \in ConfigType
               /\ [c EXCEPT !.borrowCaps[j] = v] \in ConfigType
    BY <1>1 DEF ConfigType
  <1>4. ASSUME NEW j \in JToken, NEW v \in 0 .. collateralFactorMaxMantissa
        PROVE  [c EXCEPT !.collateralFactorMantissa[j] = v] \in ConfigType
    BY <1>1 DEF ConfigType
  <1>5. ASSUME NEW a \in Account, NEW v \in Nat \cup {UIntMax}
        PROVE  [c EXCEPT !.creditLimits[a] = v] \in ConfigType
    BY <1>1 DEF ConfigType
  <1>6. ASSUME NEW v \in SUBSET JToken
        PROVE  /\ [c EXCEPT !.mintGuardianPaused = v] \in ConfigType
               /\ [c EXCEPT !.borrowGuardianPaused = v] \in ConfigType
    BY <1>1 DEF ConfigType
  <1>7. ASSUME NEW v \in BOOLEAN
        PROVE  /\ [c EXCEPT !.transferGuardianPaused = v] \in ConfigType
               /\ [c EXCEPT !.seizeGuardianPaused = v] \in ConfigType
    BY <1>1 DEF ConfigType
  <1>8. c.mintGuardianPaused \in SUBSET JToken /\ c.borrowGuardianPaused \in SUBSET JToken
    BY <1>1 DEF ConfigType
  <1> QED
    BY <1>2, <1>3, <1>4, <1>5, <1>6, <1>7, <1>8

--------------------------------------------------------------------------------

(* Every market of jTokens is sound, for the present members. *)
Storages(jTokens) ==
    /\ jTokens \in [JToken -> MarketType]
    /\ \A j \in JToken : Sound(jTokens[j], accountMembership[j], now)

Inv ==
    /\ TrollerSound
    /\ now \in Nat
    /\ Storages(jToken)

--------------------------------------------------------------------------------
(***************************************************************************)
(* The initial states.                                                     *)
(***************************************************************************)
LEMMA InitialArrays ==
    ASSUME Init
    PROVE  ListsExactly(allMarkets, isListed)
PROOF
  <1> DEFINE n == Cardinality(JToken)
  <1>1. n \in Nat
    BY JoeLendingAssumption, FS_CardinalityType
  <1>2. allMarkets \in [1 .. n -> JToken] /\ ToSet(allMarkets) = JToken /\ isListed = JToken
    BY DEF Init
  <1>3. IsFiniteSet(1 .. n) /\ Cardinality(1 .. n) = n
    <2> HIDE DEF n
    <2>1. IsFiniteSet(1 .. n) /\ Cardinality(1 .. n) = IF 1 > n THEN 0 ELSE n - 1 + 1
      BY <1>1, FS_Interval
    <2>2. (IF 1 > n THEN 0 ELSE n - 1 + 1) = n
      BY <1>1
    <2> QED
      BY <2>1, <2>2
  <1> HIDE DEF n
  <1>4. allMarkets \in Seq(JToken) /\ Len(allMarkets) = n
    BY <1>1, <1>2
  <1>5. allMarkets \in Surjection(1 .. n, JToken)
    BY <1>2, <1>4, ElementsOfList DEF Surjection
  <1>6. Cardinality(1 .. n) = Cardinality(JToken)
    BY <1>3 DEF n
  <1>7. allMarkets \in Injection(1 .. n, JToken)
    BY <1>3, <1>5, <1>6, FS_SurjSameCardinalityImpliesInj
  <1>8. NoRepeats(allMarkets)
    BY <1>4, <1>7 DEF Injection, IsInjective, NoRepeats
  <1> QED
    BY <1>2, <1>4, <1>8 DEF ListsExactly

LEMMA InitInv ==
    Init => Inv
PROOF
  <1> SUFFICES ASSUME Init PROVE Inv
    OBVIOUS
  <1>1. /\ jToken = [j \in JToken |-> InitializedMarket(0)] /\ now = 0 /\ isListed = JToken
        /\ accountMembership = [j \in JToken |-> {}]
        /\ accountAssets = [a \in Account |-> <<>>]
        /\ config = InitialConfig /\ price \in [JToken -> Prices]
    BY DEF Init
  <1>2. ASSUME NEW a \in Account PROVE ListsExactly(accountAssets[a], Entered(a))
    <2>1. accountAssets[a] = <<>> /\ Entered(a) = {}
      BY <1>1 DEF Entered
    <2>2. ToSet(<<>>) = {} /\ NoRepeats(<<>>) /\ <<>> \in Seq(JToken)
      BY DEF ToSet, NoRepeats
    <2> QED
      BY <2>1, <2>2 DEF ListsExactly
  <1>3. accountAssets \in [Account -> Seq(JToken)]
    BY <1>1
  <1>4. ArraysMatch
    BY <1>1, <1>2, <1>3, InitialArrays DEF ArraysMatch
  <1>5. SettingsTyped
    BY <1>1, JoeLendingAssumption DEF SettingsTyped
  <1>6. \A j \in JToken : jToken[j] = InitializedMarket(0)
    BY <1>1
  <1>7. Storages(jToken)
    BY <1>1, <1>6, EmptyMarketType, EmptyMarketIsSound DEF Storages
  <1> QED
    BY <1>1, <1>4, <1>5, <1>7 DEF Inv, TrollerSound

--------------------------------------------------------------------------------
(***************************************************************************)
(* Parts of a transaction.                                                 *)
(***************************************************************************)
(* Who is a member of more markets, or of the same, hides no debt.         *)
LEMMA MoreMembers ==
    ASSUME NEW m, NEW mem, NEW t, Sound(m, mem, t), NEW newMem, mem \subseteq newMem
    PROVE  Sound(m, newMem, t)
BY DEF Sound, DebtorsAreIn

LEMMA UpdateStorages ==
    ASSUME NEW jTokens, Storages(jTokens), NEW j \in JToken,
           NEW m, Sound(m, accountMembership[j], now)
    PROVE  Storages([jTokens EXCEPT ![j] = m])
BY DEF Storages, Sound

LEMMA AccruedIsSound ==
    ASSUME Inv, NEW j \in JToken, NEW m \in Accruals(jToken[j], now)
    PROVE  Sound(m, accountMembership[j], now)
PROOF
  <1>1. PICK rate \in BorrowRates : m = AccrueInterest(jToken[j], now, rate)
    BY DEF Accruals
  <1> QED
    BY <1>1, AccrueInterestIsSound DEF Inv, Storages

LEMMA InitializedIsSound ==
    ASSUME NEW j \in JToken, NEW m, Sound(m, accountMembership[j], now), NEW a \in Account
    PROVE  Sound(Initialized(m, j, a), accountMembership[j], now)
PROOF
  <1> DEFINE isMember == a \in accountMembership[j]
  <1>1. isMember \in BOOLEAN
    OBVIOUS
  <1> HIDE DEF isMember
  <1>2. Sound(InitializeAccountCollateralTokens(m, a, isMember), accountMembership[j], now)
    BY <1>1, InitializeIsSound
  <1> QED
    BY <1>2 DEF Initialized, isMember

(* A call that leaves the Joetroller and the clock alone only has to leave *)
(* sound storages.                                                         *)
LEMMA CallKeepsInv ==
    ASSUME Inv, TrollerUnchanged, Storages(jToken')
    PROVE  Inv'
PROOF
  <1>1. UNCHANGED <<isListed, allMarkets, accountMembership, accountAssets, config, price, now>>
    BY DEF TrollerUnchanged, trollerVars
  <1>2. TrollerSound'
    BY <1>1, ArraysUnchanged DEF Inv, TrollerSound, SettingsTyped
  <1>3. Storages(jToken)'
    BY <1>1 DEF Storages
  <1> QED
    BY <1>1, <1>2, <1>3 DEF Inv

LEMMA MarketCallKeepsInv ==
    ASSUME Inv, TrollerUnchanged, NEW j \in JToken, NEW m, Sound(m, accountMembership[j], now),
           jToken' = With(j, m)
    PROVE  Inv'
PROOF
  <1>1. Storages(jToken')
    BY UpdateStorages DEF Inv, With
  <1> QED
    BY <1>1, CallKeepsInv

(* A call that enters an account into a market, or takes it out.           *)
LEMMA MembershipCallKeepsInv ==
    ASSUME Inv, NEW j \in JToken, NEW m, NEW members \in SUBSET Account,
           jToken' = With(j, m), Sound(m, members, now),
           ArraysMatch', accountMembership' = [accountMembership EXCEPT ![j] = members],
           UNCHANGED <<now, config, price>>
    PROVE  Inv'
PROOF
  <1>1. accountMembership \in [JToken -> SUBSET Account] /\ jToken \in [JToken -> MarketType]
    BY DEF Inv, TrollerSound, ArraysMatch, Storages
  <1>2. jToken' \in [JToken -> MarketType]
    BY <1>1 DEF With, Sound
  <1>3. ASSUME NEW k \in JToken PROVE Sound(jToken'[k], accountMembership'[k], now)
    <2>1. CASE k = j
      BY <1>1, <2>1 DEF With
    <2>2. CASE k # j
      <3>1. jToken'[k] = jToken[k] /\ accountMembership'[k] = accountMembership[k]
        BY <1>1, <2>2 DEF With
      <3> QED
        BY <3>1 DEF Inv, Storages
    <2> QED
      BY <2>1, <2>2
  <1>4. Storages(jToken)'
    BY <1>2, <1>3 DEF Storages
  <1>5. TrollerSound'
    BY DEF Inv, TrollerSound, SettingsTyped
  <1> QED
    BY <1>4, <1>5 DEF Inv

--------------------------------------------------------------------------------
(***************************************************************************)
(* Suppliers.                                                              *)
(***************************************************************************)
LEMMA MintKeepsInv ==
    ASSUME Inv, NEW j \in JToken, NEW a \in Account, NEW amount \in Amounts, Mint(j, a, amount)
    PROVE  Inv'
PROOF
  <1>1. PICK m0 \in Accruals(jToken[j], now) :
          LET m == Initialized(m0, j, a)
          IN  \/ jToken' = With(j, m)
              \/ /\ ~MintFreshReverts(m)
                 /\ \E actual \in Received(m, amount) :
                      jToken' = With(j, MintFresh(m, a, actual, a \in accountMembership[j]))
    BY DEF Mint
  <1> DEFINE m == Initialized(m0, j, a)
             isMember == a \in accountMembership[j]
  <1>2. Sound(m, accountMembership[j], now)
    BY AccruedIsSound, InitializedIsSound
  <1>3. \/ jToken' = With(j, m)
        \/ /\ ~MintFreshReverts(m)
           /\ \E actual \in Received(m, amount) : jToken' = With(j, MintFresh(m, a, actual, isMember))
    BY <1>1
  <1>4. isMember \in BOOLEAN
    OBVIOUS
  <1>5. TrollerUnchanged /\ amount \in Nat
    BY JoeLendingAssumption DEF Mint
  <1> HIDE DEF m, isMember
  <1>6. ASSUME NEW actual \in Received(m, amount), ~MintFreshReverts(m),
               jToken' = With(j, MintFresh(m, a, actual, isMember))
        PROVE  Inv'
    <2>1. actual \in Nat
      BY <1>2, <1>5, ReceivedType DEF Sound
    <2>2. Sound(MintFresh(m, a, actual, isMember), accountMembership[j], now)
      BY <1>2, <1>4, <1>6, <2>1, MintIsSound
    <2> QED
      BY <1>5, <1>6, <2>2, MarketCallKeepsInv
  <1> QED
    BY <1>2, <1>3, <1>5, <1>6, MarketCallKeepsInv

LEMMA RedeemKeepsInv ==
    ASSUME Inv, NEW j \in JToken, NEW a \in Account, NEW tokensIn \in Nat, NEW amountIn \in Nat,
           Redeem(j, a, tokensIn, amountIn)
    PROVE  Inv'
PROOF
  <1>1. PICK m0 \in Accruals(jToken[j], now) :
          LET m      == Initialized(m0, j, a)
              tokens == RedeemTokens(m, tokensIn, amountIn)
              amount == RedeemAmount(m, tokensIn, amountIn)
          IN  /\ ~RedeemTokensReverts(m, tokensIn)
              /\ \/ jToken' = With(j, m)
                 \/ /\ ~(amount > m.internalCash)
                    /\ ~RedeemFreshReverts(m, a, tokens, amount)
                    /\ jToken' = With(j, RedeemFresh(m, a, tokens, amount))
    BY DEF Redeem
  <1> DEFINE m      == Initialized(m0, j, a)
             tokens == RedeemTokens(m, tokensIn, amountIn)
             amount == RedeemAmount(m, tokensIn, amountIn)
  <1>2. Sound(m, accountMembership[j], now)
    BY AccruedIsSound, InitializedIsSound
  <1>3. /\ ~RedeemTokensReverts(m, tokensIn)
        /\ \/ jToken' = With(j, m)
           \/ /\ ~(amount > m.internalCash)
              /\ ~RedeemFreshReverts(m, a, tokens, amount)
              /\ jToken' = With(j, RedeemFresh(m, a, tokens, amount))
    BY <1>1
  <1> HIDE DEF m
  <1>4. tokens \in Nat /\ amount \in Nat /\ m.internalCash \in Nat
    BY <1>2, <1>3, RedeemTypes, MoneyTypes DEF Sound
  <1> HIDE DEF tokens, amount
  <1>5. TrollerUnchanged
    BY DEF Redeem
  <1>6. CASE jToken' = With(j, m)
    BY <1>2, <1>5, <1>6, MarketCallKeepsInv
  <1>7. CASE /\ ~(amount > m.internalCash)
             /\ ~RedeemFreshReverts(m, a, tokens, amount)
             /\ jToken' = With(j, RedeemFresh(m, a, tokens, amount))
    <2>1. amount <= m.internalCash
      BY <1>4, <1>7
    <2>2. Sound(RedeemFresh(m, a, tokens, amount), accountMembership[j], now)
      BY <1>2, <1>4, <1>7, <2>1, RedeemIsSound
    <2> QED
      BY <1>5, <1>7, <2>2, MarketCallKeepsInv
  <1> QED
    BY <1>3, <1>6, <1>7

LEMMA TransferKeepsInv ==
    ASSUME Inv, NEW j \in JToken, NEW src \in Account, NEW dst \in Account,
           NEW tokens \in Amounts, Transfer(j, src, dst, tokens)
    PROVE  Inv'
PROOF
  <1> DEFINE m == Initialized(Initialized(jToken[j], j, src), j, dst)
  <1>1. Sound(m, accountMembership[j], now)
    BY InitializedIsSound DEF Inv, Storages
  <1>2. \/ jToken' = With(j, m)
        \/ /\ src # dst
           /\ ~TransferTokensReverts(m, src, src, tokens)
           /\ jToken' = With(j, TransferTokens(m, src, src, dst, tokens))
    BY DEF Transfer
  <1>3. TrollerUnchanged /\ tokens \in Nat
    BY JoeLendingAssumption DEF Transfer
  <1> HIDE DEF m
  <1>4. /\ src # dst /\ ~TransferTokensReverts(m, src, src, tokens)
        => Sound(TransferTokens(m, src, src, dst, tokens), accountMembership[j], now)
    BY <1>1, <1>3, TransferIsSound
  <1> QED
    BY <1>1, <1>2, <1>3, <1>4, MarketCallKeepsInv

(***************************************************************************)
(* Entering and leaving a market.                                          *)
(***************************************************************************)
LEMMA EnterMarketKeepsInv ==
    ASSUME Inv, NEW j \in JToken, NEW a \in Account, EnterMarket(j, a)
    PROVE  Inv'
PROOF
  <1> DEFINE isMember == a \in accountMembership[j]
             members == accountMembership[j] \cup {a}
             m == RegisterCollateral(jToken[j], a, isMember)
  <1>1. isMember \in BOOLEAN
    OBVIOUS
  <1>2. /\ jToken' = With(j, m) /\ AddToMarket(j, a)
        /\ UNCHANGED <<now, isListed, allMarkets, config, price>>
    BY DEF EnterMarket
  <1>3. ArraysMatch' /\ accountMembership' = [accountMembership EXCEPT ![j] = members]
    BY <1>2, AddToMarketMatches DEF Inv, TrollerSound
  <1>4. members \in SUBSET Account /\ accountMembership[j] \subseteq members
    BY DEF Inv, TrollerSound, ArraysMatch
  <1> HIDE DEF isMember
  <1>5. Sound(m, accountMembership[j], now)
    BY <1>1, RegisterIsSound DEF Inv, Storages
  <1> HIDE DEF m, members
  <1>6. Sound(m, members, now)
    BY <1>4, <1>5, MoreMembers
  <1> QED
    BY <1>2, <1>3, <1>4, <1>6, MembershipCallKeepsInv

(* Who leaves owes nothing: exitMarket reads a debt of zero, and so the    *)
(* principal is zero.                                                      *)
LEMMA ExitMarketKeepsInv ==
    ASSUME Inv, NEW j \in JToken, NEW a \in Account, ExitMarket(j, a)
    PROVE  Inv'
PROOF
  <1> DEFINE isMember == a \in accountMembership[j]
             members == accountMembership[j] \ {a}
             m1 == InitializeAccountCollateralTokens(jToken[j], a, isMember)
             m == UnregisterCollateral(jToken[j], a, isMember)
  <1>1. isMember \in BOOLEAN
    OBVIOUS
  <1>2. /\ jToken' = With(j, m) /\ RemoveFromMarket(j, a)
        /\ ~DecreaseUserCollateralReverts(m1, a, m1.accountCollateralTokens[a])
        /\ BorrowBalanceStored(jToken[j], a) = 0
        /\ UNCHANGED <<now, isListed, allMarkets, config, price>>
    BY DEF ExitMarket, Initialized
  <1>3. ArraysMatch' /\ accountMembership' = [accountMembership EXCEPT ![j] = members]
    BY <1>2, RemoveFromMarketMatches DEF Inv, TrollerSound
  <1>4. members \in SUBSET Account
    BY DEF Inv, TrollerSound, ArraysMatch
  <1>5. Sound(jToken[j], accountMembership[j], now)
    BY DEF Inv, Storages
  <1> HIDE DEF isMember
  <1>6. Sound(m, accountMembership[j], now)
    BY <1>1, <1>2, <1>5, UnregisterIsSound
  <1>7. m.accountBorrows = jToken[j].accountBorrows
    BY <1>1, <1>5, UnregisterKeepsDebts DEF Sound
  <1>8. jToken[j].accountBorrows[a].principal = 0
    <2>1. jToken[j].accountBorrows[a].principal \in Nat
      BY <1>5 DEF Sound, MarketType, BorrowSnapshot
    <2>2. jToken[j].accountBorrows[a].principal <= 0
      BY <1>2, <1>5, BorrowBalanceType
    <2> QED
      BY <2>1, <2>2
  <1> HIDE DEF m, m1
  <1>9. DebtorsAreIn(m, members)
    BY <1>6, <1>7, <1>8 DEF Sound, DebtorsAreIn
  <1>10. Sound(m, members, now)
    BY <1>6, <1>9 DEF Sound
  <1> HIDE DEF members
  <1> QED
    BY <1>2, <1>3, <1>4, <1>10, MembershipCallKeepsInv

(***************************************************************************)
(* Borrowers.                                                              *)
(***************************************************************************)
LEMMA BorrowKeepsInv ==
    ASSUME Inv, NEW j \in JToken, NEW a \in Account, NEW amount \in Amounts, Borrow(j, a, amount)
    PROVE  Inv'
PROOF
  <1>1. PICK m0 \in Accruals(jToken[j], now) :
          LET m == IF a \in accountMembership[j] THEN m0 ELSE RegisterCollateral(m0, a, FALSE)
          IN  \/ jToken' = With(j, m)
              \/ jToken' = With(j, RefreshAccountBorrows(m, a))
              \/ /\ ~(amount > m.internalCash)
                 /\ jToken' = With(j, BorrowFresh(m, a, amount))
    BY DEF Borrow
  <1> DEFINE m == IF a \in accountMembership[j] THEN m0 ELSE RegisterCollateral(m0, a, FALSE)
             members == accountMembership[j] \cup {a}
  <1>2. Sound(m, accountMembership[j], now)
    <2>1. Sound(m0, accountMembership[j], now)
      BY AccruedIsSound
    <2>2. Sound(RegisterCollateral(m0, a, FALSE), accountMembership[j], now)
      BY <2>1, RegisterIsSound
    <2> QED
      BY <2>1, <2>2
  <1>3. \/ jToken' = With(j, m)
        \/ jToken' = With(j, RefreshAccountBorrows(m, a))
        \/ ~(amount > m.internalCash) /\ jToken' = With(j, BorrowFresh(m, a, amount))
    BY <1>1
  <1> HIDE DEF m
  <1>4. /\ AddToMarket(j, a) /\ amount \in Nat
        /\ UNCHANGED <<now, isListed, allMarkets, config, price>>
    BY JoeLendingAssumption DEF Borrow
  <1>5. ArraysMatch' /\ accountMembership' = [accountMembership EXCEPT ![j] = members]
    BY <1>4, AddToMarketMatches DEF Inv, TrollerSound
  <1>6. members \in SUBSET Account /\ accountMembership[j] \subseteq members /\ a \in members
    BY DEF Inv, TrollerSound, ArraysMatch
  <1> HIDE DEF members
  <1>7. m.internalCash \in Nat
    BY <1>2, MoneyTypes DEF Sound
  <1>8. Sound(m, members, now) /\ Sound(RefreshAccountBorrows(m, a), members, now)
    BY <1>2, <1>6, MoreMembers, RefreshIsSound
  <1>9. ~(amount > m.internalCash) => Sound(BorrowFresh(m, a, amount), members, now)
    BY <1>2, <1>4, <1>6, <1>7, BorrowIsSound
  <1>10. \E n : jToken' = With(j, n) /\ Sound(n, members, now)
    BY <1>3, <1>8, <1>9
  <1> QED
    BY <1>4, <1>5, <1>6, <1>10, MembershipCallKeepsInv

LEMMA RepayBorrowKeepsInv ==
    ASSUME Inv, NEW j \in JToken, NEW a \in Account, NEW repayAmount \in Amounts \cup {UIntMax},
           RepayBorrow(j, a, repayAmount)
    PROVE  Inv'
PROOF
  <1>1. PICK m \in Accruals(jToken[j], now) :
          \/ jToken' = With(j, m)
          \/ jToken' = With(j, RefreshAccountBorrows(m, a))
          \/ \E actual \in Received(m, RepayAmount(m, a, repayAmount)) :
               /\ ~RepayBorrowFreshReverts(m, a, actual)
               /\ jToken' = With(j, RepayBorrowFresh(m, a, actual))
    BY DEF RepayBorrow
  <1>2. Sound(m, accountMembership[j], now)
    BY AccruedIsSound
  <1>3. repayAmount \in Nat \cup {UIntMax} /\ TrollerUnchanged
    BY JoeLendingAssumption DEF RepayBorrow
  <1>4. RepayAmount(m, a, repayAmount) \in Nat
    BY <1>2, <1>3, RepayAmountType
  <1>5. Received(m, RepayAmount(m, a, repayAmount)) \subseteq Nat
    BY <1>2, <1>4, ReceivedType DEF Sound
  <1>6. Sound(RefreshAccountBorrows(m, a), accountMembership[j], now)
    BY <1>2, RefreshIsSound
  <1>7. \E n : jToken' = With(j, n) /\ Sound(n, accountMembership[j], now)
    BY <1>1, <1>2, <1>5, <1>6, RepayBorrowIsSound
  <1> QED
    BY <1>3, <1>7, MarketCallKeepsInv

(***************************************************************************)
(* Liquidation.                                                            *)
(***************************************************************************)
LEMMA AccruedBothAreSound ==
    ASSUME Inv, NEW jb \in JToken, NEW jc \in JToken, NEW accrued \in AccruedBoth(jb, jc)
    PROVE  Storages(accrued)
PROOF
  <1>1. PICK mb \in Accruals(jToken[jb], now), mc \in Accruals(jToken[jc], now) :
          accrued = [jToken EXCEPT ![jb] = mb, ![jc] = IF jb = jc THEN mb ELSE mc]
    BY DEF AccruedBoth
  <1> DEFINE seized == IF jb = jc THEN mb ELSE mc
             repaid == [jToken EXCEPT ![jb] = mb]
  <1>2. /\ Sound(mb, accountMembership[jb], now)
        /\ Sound(seized, accountMembership[jc], now)
    BY AccruedIsSound
  <1>3. Storages(repaid)
    BY <1>2, UpdateStorages DEF Inv
  <1> HIDE DEF seized, repaid
  <1>4. Storages([repaid EXCEPT ![jc] = seized])
    BY <1>2, <1>3, UpdateStorages
  <1>5. accrued = [repaid EXCEPT ![jc] = seized]
    BY <1>1 DEF repaid, seized
  <1> QED
    BY <1>4, <1>5

(* What liquidateCalculateSeizeTokens answers is an amount. *)
LEMMA SeizeTokensType ==
    ASSUME TrollerSound, NEW jTokens, Storages(jTokens), NEW jb \in JToken, NEW jc \in JToken,
           NEW amount \in Nat, ~SeizeTokensReverts(jTokens, jb, jc)
    PROVE  /\ SeizeTokens(jTokens, jb, jc, amount) \in Nat
           /\ amount = 0 => SeizeTokens(jTokens, jb, jc, amount) = 0
PROOF
  <1> DEFINE numerator   == MulExp(config.liquidationIncentiveMantissa, price[jb])
             denominator == SeizeDenominator(jTokens, jc)
             ratio       == DivUIntByExp(numerator, denominator)
  <1>1. /\ config.liquidationIncentiveMantissa \in Nat /\ price[jb] \in Nat /\ price[jc] \in Nat
    BY DEF TrollerSound, SettingsTyped, ConfigType
  <1>2. jTokens[jc] \in MarketType
    BY DEF Storages
  <1>3. ~ExchangeRateReverts(jTokens[jc]) /\ denominator # 0
    BY DEF SeizeTokensReverts
  <1>4. ExchangeRateStored(jTokens[jc]) \in Nat
    BY <1>2, <1>3, ExchangeRateType
  <1>5. \A x, y \in Nat : x * y \in Nat
    OBVIOUS
  <1>6. numerator \in Nat
    BY <1>1, <1>5, ExpScaleAssumption, QuotientOfNat DEF MulExp
  <1>7. denominator \in Nat \ {0}
    BY <1>1, <1>3, <1>4, <1>5, ExpScaleAssumption, QuotientOfNat DEF MulExp, SeizeDenominator
  <1> HIDE DEF numerator, denominator
  <1>8. numerator * expScale \in Nat
    BY <1>5, <1>6, ExpScaleAssumption
  <1>9. ratio \in Nat
    BY <1>7, <1>8, QuotientOfNat DEF DivUIntByExp
  <1> HIDE DEF ratio
  <1>10. MulScalarTruncate(ratio, amount) \in Nat
    BY <1>9, MulScalarTruncateType
  <1>11. ASSUME amount = 0 PROVE MulScalarTruncate(ratio, amount) = 0
    <2>1. ratio * 0 = 0 /\ 0 \div expScale = 0
      BY <1>9, ExpScaleAssumption
    <2> QED
      BY <1>11, <2>1 DEF MulScalarTruncate, Truncate
  <1> QED
    BY <1>10, <1>11 DEF SeizeTokens, ratio, numerator, denominator

LEMMA LiquidateBorrowKeepsInv ==
    ASSUME Inv, NEW jb \in JToken, NEW jc \in JToken, NEW liquidator \in Account,
           NEW borrower \in Account, NEW repayAmount \in LiquidationAmounts,
           LiquidateBorrow(jb, jc, liquidator, borrower, repayAmount)
    PROVE  Inv'
PROOF
  <1>1. PICK accrued \in AccruedBoth(jb, jc) :
          \/ jToken' = accrued
          \/ /\ borrower # liquidator
             /\ \E actual \in Received(accrued[jb], repayAmount) :
                  LET repaid == [accrued EXCEPT ![jb] = RepayBorrowFresh(@, borrower, actual)]
                      tokens == SeizeTokens(repaid, jb, jc, actual)
                      m      == Initialized(Initialized(repaid[jc], jc, liquidator), jc, borrower)
                  IN  /\ ~RepayBorrowFreshReverts(accrued[jb], borrower, actual)
                      /\ ~SeizeTokensReverts(repaid, jb, jc)
                      /\ tokens > 0 => ~SeizeInternalReverts(m, borrower, tokens)
                      /\ jToken' = [repaid EXCEPT ![jc] =
                           IF tokens = 0 THEN m ELSE SeizeInternal(m, liquidator, borrower, tokens)]
    BY DEF LiquidateBorrow
  <1>2. Storages(accrued) /\ TrollerUnchanged /\ repayAmount \in Nat
    BY AccruedBothAreSound, JoeLendingAssumption DEF LiquidateBorrow
  <1>3. ASSUME borrower # liquidator, NEW actual \in Received(accrued[jb], repayAmount),
               LET repaid == [accrued EXCEPT ![jb] = RepayBorrowFresh(@, borrower, actual)]
                   tokens == SeizeTokens(repaid, jb, jc, actual)
                   m      == Initialized(Initialized(repaid[jc], jc, liquidator), jc, borrower)
               IN  /\ ~RepayBorrowFreshReverts(accrued[jb], borrower, actual)
                   /\ ~SeizeTokensReverts(repaid, jb, jc)
                   /\ tokens > 0 => ~SeizeInternalReverts(m, borrower, tokens)
                   /\ jToken' = [repaid EXCEPT ![jc] =
                        IF tokens = 0 THEN m ELSE SeizeInternal(m, liquidator, borrower, tokens)]
        PROVE  Inv'
    <2> DEFINE repaid == [accrued EXCEPT ![jb] = RepayBorrowFresh(@, borrower, actual)]
               tokens == SeizeTokens(repaid, jb, jc, actual)
               m      == Initialized(Initialized(repaid[jc], jc, liquidator), jc, borrower)
               n      == IF tokens = 0 THEN m ELSE SeizeInternal(m, liquidator, borrower, tokens)
    <2>1. /\ ~RepayBorrowFreshReverts(accrued[jb], borrower, actual)
          /\ ~SeizeTokensReverts(repaid, jb, jc)
          /\ tokens > 0 => ~SeizeInternalReverts(m, borrower, tokens)
          /\ jToken' = [repaid EXCEPT ![jc] = n]
      BY <1>3, Zenon
    <2>2. Sound(accrued[jb], accountMembership[jb], now) /\ accrued[jb] \in MarketType
      BY <1>2 DEF Storages
    <2>3. actual \in Nat
      BY <1>2, <2>2, ReceivedType
    <2>4. Sound(RepayBorrowFresh(accrued[jb], borrower, actual), accountMembership[jb], now)
      BY <2>1, <2>2, <2>3, RepayBorrowIsSound
    <2>5. Storages(repaid)
      BY <1>2, <2>4, UpdateStorages
    <2> HIDE DEF repaid
    <2>6. tokens \in Nat
      BY <2>1, <2>3, <2>5, SeizeTokensType DEF Inv
    <2> HIDE DEF tokens
    <2>7. Sound(m, accountMembership[jc], now)
      BY <2>5, InitializedIsSound DEF Storages
    <2> HIDE DEF m
    <2>8. CASE tokens = 0
      BY <1>2, <2>1, <2>5, <2>7, <2>8, UpdateStorages, CallKeepsInv
    <2>9. CASE tokens # 0
      <3>1. ~SeizeInternalReverts(m, borrower, tokens)
        BY <2>1, <2>6, <2>9
      <3>2. Sound(SeizeInternal(m, liquidator, borrower, tokens), accountMembership[jc], now)
        BY <1>3, <2>6, <2>7, <3>1, SeizeIsSound
      <3> QED
        BY <1>2, <2>1, <2>5, <2>9, <3>2, UpdateStorages, CallKeepsInv
    <2> QED
      BY <2>8, <2>9
  <1> QED
    BY <1>1, <1>2, <1>3, CallKeepsInv, Zenon

(***************************************************************************)
(* The admins, the oracle and the clock.                                   *)
(***************************************************************************)
LEMMA SetCollateralCapKeepsInv ==
    ASSUME Inv, NEW j \in JToken, NEW cap \in CollateralCaps, SetCollateralCap(j, cap)
    PROVE  Inv'
PROOF
  <1>1. Sound([jToken[j] EXCEPT !.collateralCap = cap], accountMembership[j], now)
    BY JoeLendingAssumption, OtherFieldsAreSound DEF Inv, Storages
  <1> QED
    BY <1>1, MarketCallKeepsInv DEF SetCollateralCap

LEMMA SetProtocolSeizeShareKeepsInv ==
    ASSUME Inv, NEW j \in JToken, NEW mantissa \in SeizeShares, SetProtocolSeizeShare(j, mantissa)
    PROVE  Inv'
PROOF
  <1>1. PICK m \in Accruals(jToken[j], now) :
          jToken' = With(j, [m EXCEPT !.protocolSeizeShareMantissa = mantissa])
    BY DEF SetProtocolSeizeShare
  <1>2. mantissa \in 0 .. protocolSeizeShareMaxMantissa
    BY MarketAssumption, JoeLendingAssumption, ExpScaleAssumption DEF SetProtocolSeizeShare
  <1>3. Sound([m EXCEPT !.protocolSeizeShareMantissa = mantissa], accountMembership[j], now)
    BY <1>2, AccruedIsSound, OtherFieldsAreSound
  <1> QED
    BY <1>1, <1>3, MarketCallKeepsInv DEF SetProtocolSeizeShare

LEMMA AccrueKeepsInv ==
    ASSUME Inv, NEW j \in JToken, Accrue(j)
    PROVE  Inv'
PROOF
  <1>1. PICK m \in Accruals(jToken[j], now) : jToken' = With(j, m)
    BY DEF Accrue
  <1> QED
    BY <1>1, AccruedIsSound, MarketCallKeepsInv DEF Accrue

(* Steps of the Joetroller alone. *)
LEMMA TrollerStepKeepsInv ==
    ASSUME Inv, TrollerSound', UNCHANGED <<jToken, now, accountMembership>>
    PROVE  Inv'
BY DEF Inv, Storages

LEMMA SetConfigKeepsInv ==
    ASSUME Inv, NEW newConfig \in ConfigType, SetConfig(newConfig), UNCHANGED <<jToken, now>>
    PROVE  Inv'
PROOF
  <1>1. /\ UNCHANGED <<isListed, allMarkets, accountMembership, accountAssets, price>>
        /\ config' = newConfig
    BY DEF SetConfig
  <1>2. ArraysMatch'
    BY <1>1, ArraysUnchanged DEF Inv, TrollerSound
  <1>3. SettingsTyped'
    BY <1>1 DEF Inv, TrollerSound, SettingsTyped
  <1> QED
    BY <1>1, <1>2, <1>3, TrollerStepKeepsInv DEF TrollerSound

LEMMA RelistingKeepsInv ==
    ASSUME Inv, NEW j \in JToken, SupportMarket(j) \/ DelistMarket(j, jToken[j].totalSupply),
           UNCHANGED <<jToken, now>>
    PROVE  Inv'
PROOF
  <1>1. /\ UNCHANGED <<accountMembership, price>>
        /\ config' = [config EXCEPT !.collateralFactorMantissa[j] = 0]
    BY DEF SupportMarket, DelistMarket
  <1>2. ArraysMatch'
    BY SupportMarketMatches, DelistMarketMatches DEF Inv, TrollerSound
  <1>3. 0 \in 0 .. collateralFactorMaxMantissa
    BY JoetrollerAssumption, ExpScaleAssumption
  <1>4. SettingsTyped'
    BY <1>1, <1>3, ConfigUpdates DEF Inv, TrollerSound, SettingsTyped
  <1> QED
    BY <1>1, <1>2, <1>4, TrollerStepKeepsInv DEF TrollerSound

LEMMA JoetrollerAdminKeepsInv ==
    ASSUME Inv, JoetrollerAdmin
    PROVE  Inv'
PROOF
  <1>1. config \in ConfigType /\ UNCHANGED <<jToken, now>>
    BY DEF Inv, TrollerSound, SettingsTyped, JoetrollerAdmin
  <1>2. ASSUME NEW v \in CloseFactors, SetCloseFactor(v) PROVE Inv'
    BY <1>1, <1>2, JoeLendingAssumption, ConfigUpdates, SetConfigKeepsInv DEF SetCloseFactor
  <1>3. ASSUME NEW v \in LiquidationIncentives, SetLiquidationIncentive(v) PROVE Inv'
    BY <1>1, <1>3, JoeLendingAssumption, ConfigUpdates, SetConfigKeepsInv
    DEF SetLiquidationIncentive
  <1>4. ASSUME NEW j \in JToken, NEW v \in CollateralFactors, SetCollateralFactor(j, v) PROVE Inv'
    <2>1. v \in 0 .. collateralFactorMaxMantissa
      BY <1>4, JoeLendingAssumption, JoetrollerAssumption, ExpScaleAssumption
      DEF SetCollateralFactor
    <2> QED
      BY <1>1, <1>4, <2>1, ConfigUpdates, SetConfigKeepsInv DEF SetCollateralFactor
  <1>5. ASSUME NEW j \in JToken, NEW v \in SupplyCaps, SetMarketSupplyCap(j, v) PROVE Inv'
    BY <1>1, <1>5, JoeLendingAssumption, ConfigUpdates, SetConfigKeepsInv DEF SetMarketSupplyCap
  <1>6. ASSUME NEW j \in JToken, NEW v \in BorrowCaps, SetMarketBorrowCap(j, v) PROVE Inv'
    BY <1>1, <1>6, JoeLendingAssumption, ConfigUpdates, SetConfigKeepsInv DEF SetMarketBorrowCap
  <1>7. ASSUME NEW a \in Account, NEW v \in CreditLimits, SetCreditLimit(a, v) PROVE Inv'
    BY <1>1, <1>7, JoeLendingAssumption, ConfigUpdates, SetConfigKeepsInv DEF SetCreditLimit
  <1>8. ASSUME NEW j \in JToken, NEW state \in BOOLEAN, SetMintPaused(j, state) PROVE Inv'
    <2> DEFINE paused == IF state THEN config.mintGuardianPaused \cup {j}
                                  ELSE config.mintGuardianPaused \ {j}
    <2>1. paused \in SUBSET JToken
      BY <1>1, ConfigUpdates
    <2>2. SetConfig([config EXCEPT !.mintGuardianPaused = paused])
      BY <1>8 DEF SetMintPaused
    <2> HIDE DEF paused
    <2> QED
      BY <1>1, <2>1, <2>2, ConfigUpdates, SetConfigKeepsInv
  <1>9. ASSUME NEW j \in JToken, NEW state \in BOOLEAN, SetBorrowPaused(j, state) PROVE Inv'
    <2> DEFINE paused == IF state THEN config.borrowGuardianPaused \cup {j}
                                  ELSE config.borrowGuardianPaused \ {j}
    <2>1. paused \in SUBSET JToken
      BY <1>1, ConfigUpdates
    <2>2. SetConfig([config EXCEPT !.borrowGuardianPaused = paused])
      BY <1>9 DEF SetBorrowPaused
    <2> HIDE DEF paused
    <2> QED
      BY <1>1, <2>1, <2>2, ConfigUpdates, SetConfigKeepsInv
  <1>10. ASSUME NEW state \in BOOLEAN, SetTransferPaused(state) \/ SetSeizePaused(state) PROVE Inv'
    BY <1>1, <1>10, ConfigUpdates, SetConfigKeepsInv DEF SetTransferPaused, SetSeizePaused
  <1>11. ASSUME NEW j \in Relistable, SupportMarket(j) \/ DelistMarket(j, jToken[j].totalSupply)
         PROVE Inv'
    BY <1>1, <1>11, JoeLendingAssumption, RelistingKeepsInv
  <1> QED
    BY <1>2, <1>3, <1>4, <1>5, <1>6, <1>7, <1>8, <1>9, <1>10, <1>11, Zenon DEF JoetrollerAdmin

LEMMA SetPriceKeepsInv ==
    ASSUME Inv, NEW j \in JToken, NEW newPrice \in Prices, SetPrice(j, newPrice)
    PROVE  Inv'
PROOF
  <1>1. /\ UNCHANGED <<isListed, allMarkets, accountMembership, accountAssets, config, jToken, now>>
        /\ price' = [price EXCEPT ![j] = newPrice] /\ newPrice \in Nat
    BY JoeLendingAssumption DEF SetPrice
  <1>2. ArraysMatch'
    BY <1>1, ArraysUnchanged DEF Inv, TrollerSound
  <1>3. SettingsTyped'
    BY <1>1 DEF Inv, TrollerSound, SettingsTyped
  <1> QED
    BY <1>1, <1>2, <1>3, TrollerStepKeepsInv DEF TrollerSound

LEMMA TickKeepsInv ==
    ASSUME Inv, Tick
    PROVE  Inv'
PROOF
  <1>1. /\ now' = now + 1 /\ now \in Nat
        /\ UNCHANGED <<jToken, isListed, allMarkets, accountMembership, accountAssets, config, price>>
    BY DEF Tick, trollerVars, Inv
  <1>2. TrollerSound'
    BY <1>1, ArraysUnchanged DEF Inv, TrollerSound, SettingsTyped
  <1>3. ASSUME NEW j \in JToken PROVE Sound(jToken[j], accountMembership[j], now + 1)
    <2>1. Sound(jToken[j], accountMembership[j], now)
      BY DEF Inv, Storages
    <2>2. jToken[j].accrualBlockTimestamp \in Nat
      BY <2>1 DEF Sound, MarketType
    <2> QED
      BY <1>1, <2>1, <2>2 DEF Sound, AccruedInThePast
  <1>4. Storages(jToken)'
    BY <1>1, <1>3 DEF Inv, Storages
  <1> QED
    BY <1>1, <1>2, <1>4 DEF Inv

--------------------------------------------------------------------------------
(***************************************************************************)
(* All steps.                                                              *)
(***************************************************************************)
LEMMA NextKeepsInv ==
    Inv /\ [Next]_vars => Inv'
PROOF
  <1> SUFFICES ASSUME Inv, [Next]_vars PROVE Inv'
    OBVIOUS
  <1>1. CASE UNCHANGED vars
    <2>1. TrollerUnchanged /\ Storages(jToken') = Storages(jToken)
      BY <1>1 DEF vars, trollerVars, TrollerUnchanged
    <2> QED
      BY <2>1, CallKeepsInv DEF Inv
  <1>2. ASSUME NEW j \in JToken, NEW a \in Account, NEW amount \in Amounts,
               \/ Mint(j, a, amount)
               \/ Redeem(j, a, amount, 0)
               \/ Redeem(j, a, 0, amount)
               \/ Borrow(j, a, amount)
               \/ \E dst \in Account : Transfer(j, a, dst, amount)
        PROVE  Inv'
    <2>1. amount \in Nat /\ 0 \in Nat
      BY JoeLendingAssumption
    <2> QED
      BY <1>2, <2>1, MintKeepsInv, RedeemKeepsInv, BorrowKeepsInv, TransferKeepsInv
  <1>3. ASSUME NEW j \in JToken, NEW a \in Account, NEW amount \in Amounts \cup {UIntMax},
               RepayBorrow(j, a, amount)
        PROVE  Inv'
    BY <1>3, RepayBorrowKeepsInv
  <1>4. ASSUME NEW jb \in JToken, NEW jc \in JToken, NEW liquidator \in Account,
               NEW borrower \in Account, NEW amount \in LiquidationAmounts,
               LiquidateBorrow(jb, jc, liquidator, borrower, amount)
        PROVE  Inv'
    BY <1>4, LiquidateBorrowKeepsInv
  <1>5. ASSUME NEW j \in JToken, NEW a \in Account, EnterMarket(j, a) \/ ExitMarket(j, a)
        PROVE  Inv'
    BY <1>5, EnterMarketKeepsInv, ExitMarketKeepsInv
  <1>6. ASSUME NEW j \in JToken, NEW cap \in CollateralCaps, SetCollateralCap(j, cap)
        PROVE  Inv'
    BY <1>6, SetCollateralCapKeepsInv
  <1>7. ASSUME NEW j \in JToken, NEW mantissa \in SeizeShares, SetProtocolSeizeShare(j, mantissa)
        PROVE  Inv'
    BY <1>7, SetProtocolSeizeShareKeepsInv
  <1>8. ASSUME NEW j \in JToken, Accrue(j) PROVE Inv'
    BY <1>8, AccrueKeepsInv
  <1>9. ASSUME NEW j \in JToken, NEW p \in Prices, SetPrice(j, p) PROVE Inv'
    BY <1>9, SetPriceKeepsInv
  <1>10. CASE JoetrollerAdmin
    BY <1>10, JoetrollerAdminKeepsInv
  <1>11. CASE Tick
    BY <1>11, TickKeepsInv
  <1>12. CASE Step
    BY <1>2, <1>3, <1>4, <1>5, <1>6, <1>7, <1>8, <1>9, <1>10, <1>11, <1>12, Zenon DEF Step
  <1> QED
    BY <1>1, <1>12 DEF Next

(* Every market is sound for the members the Joetroller has of it, and the *)
(* arrays of the Joetroller match its mappings.                            *)
THEOREM InvIsInvariant ==
    Spec => []Inv
PROOF
  <1>1. Init => Inv
    BY InitInv
  <1>2. Inv /\ [Next]_vars => Inv'
    BY NextKeepsInv
  <1> QED
    BY <1>1, <1>2, PTL DEF Spec

--------------------------------------------------------------------------------
(***************************************************************************)
(* The invariants of JoeLending follow.                                    *)
(***************************************************************************)

(* No counter of a market is ever negative, no collateral factor exceeds   *)
(* its maximum and no array has a market the Joetroller does not know.     *)
THEOREM TypeCorrectness ==
    Spec => []TypeOK
PROOF
  <1>1. ASSUME Inv PROVE TypeOK
    <2>1. ToSet(allMarkets) \subseteq JToken
      BY <1>1 DEF Inv, TrollerSound, ArraysMatch, ListsExactly
    <2> QED
      BY <1>1, <2>1 DEF Inv, TrollerSound, ArraysMatch, SettingsTyped, Storages, TypeOK
  <1> QED
    BY <1>1, InvIsInvariant, PTL

(* The mapping and the array of the markets an account entered say the     *)
(* same, each market once, through entering, borrowing and leaving.        *)
THEOREM AccountAssetsTheorem ==
    Spec => []AccountAssetsMatchMembership
PROOF
  <1>1. ASSUME Inv PROVE AccountAssetsMatchMembership
    <2>1. ASSUME NEW a \in Account
          PROVE  /\ accountAssets[a] \in Seq(JToken) /\ NoRepeats(accountAssets[a])
                 /\ ToSet(accountAssets[a]) = { j \in JToken : a \in accountMembership[j] }
      BY <1>1 DEF Inv, TrollerSound, ArraysMatch, ListsExactly, Entered
    <2> QED
      BY <2>1, LengthOfList DEF AccountAssetsMatchMembership
  <1> QED
    BY <1>1, InvIsInvariant, PTL

(* allMarkets is the listed markets, each once, through listings and       *)
(* delistings.                                                             *)
THEOREM AllMarketsTheorem ==
    Spec => []AllMarketsAreListed
PROOF
  <1>1. ASSUME Inv PROVE AllMarketsAreListed
    <2>1. /\ allMarkets \in Seq(JToken) /\ NoRepeats(allMarkets)
          /\ ToSet(allMarkets) = isListed
      BY <1>1 DEF Inv, TrollerSound, ArraysMatch, ListsExactly
    <2> QED
      BY <2>1, LengthOfList DEF AllMarketsAreListed
  <1> QED
    BY <1>1, InvIsInvariant, PTL

(* Whatever an account owes, in whatever market, the liquidity checks of   *)
(* the Joetroller run over that market: no exit, no delisting and no       *)
(* rounding takes a debt out of their sight.                               *)
THEOREM DebtsTheorem ==
    Spec => []DebtsAreCounted
PROOF
  <1>1. ASSUME Inv PROVE DebtsAreCounted
    <2>1. ASSUME NEW a \in Account, NEW j \in JToken, jToken[j].accountBorrows[a].principal > 0
          PROVE  j \in ToSet(accountAssets[a])
      <3>1. a \in accountMembership[j]
        BY <1>1, <2>1 DEF Inv, Storages, Sound, DebtorsAreIn
      <3> QED
        BY <1>1, <3>1 DEF Inv, TrollerSound, ArraysMatch, ListsExactly, Entered
    <2> QED
      BY <2>1 DEF DebtsAreCounted
  <1> QED
    BY <1>1, InvIsInvariant, PTL

================================================================================
