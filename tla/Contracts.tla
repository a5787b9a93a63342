------------------------------ MODULE Contracts ------------------------------
(***************************************************************************)
(* The interfaces of the contracts that scenarios deploy and call: for each *)
(* class the functions among those the scenario language uses, with the     *)
(* types of their parameters, and the constructors. Contracts of tests are  *)
(* in src/tests/Contracts, the others in src/contracts. Numbers of every    *)
(* width are "uint" here; interfaces of contracts are "address".            *)
(***************************************************************************)
EXTENDS Naturals, Sequences

Addresses(n) == [i \in 1 .. n |-> "address"]
Function(name, types) == [name |-> name, types |-> types]

\* JTokenInterface: every market.
MarketFunctions ==
    {Function(f, << >>) : f \in {"accrueInterest", "_acceptAdmin"}}
    \cup {Function(f, <<"uint">>) : f \in {"_setReserveFactor", "_reduceReserves",
                                           "redeem", "redeemUnderlying", "borrow"}}
    \cup {Function(f, <<"address">>) : f \in {"_setPendingAdmin", "_setJoetroller",
                                              "_setInterestRateModel"}}
    \cup {Function("seize", <<"address", "address", "uint">>)}
\* JErc20Interface: what a market of a token adds, and what one of AVAX has.
Erc20MarketFunctions ==
    {Function(f, <<"uint">>) : f \in {"mint", "repayBorrow", "_addReserves"}}
    \cup {Function("liquidateBorrow", <<"address", "uint", "address">>)}
AvaxMarketFunctions ==
    {Function("mint", << >>), Function("repayBorrow", << >>), Function("liquidateBorrow", Addresses(2))}
\* JWrappedNativeInterface and JCollateralCapErc20Interface.
NativeFunctions ==
    {Function(f, << >>) : f \in {"mintNative", "repayBorrowNative"}}
    \cup {Function(f, <<"uint">>) : f \in {"redeemNative", "redeemUnderlyingNative", "borrowNative"}}
CollateralCapFunctions == {Function("gulp", << >>), Function("_setCollateralCap", <<"uint">>)}
\* JDelegatorInterface and JDelegateInterface.
DelegatorFunctions == {Function("_setImplementation", <<"address", "bool", "bytes">>)}
DelegateFunctions ==
    {Function("_becomeImplementation", <<"bytes">>), Function("_resignImplementation", << >>)}
\* Setters of the test contracts.
MarketMocks == {Function(f, <<"uint">>) : f \in {"setTotalBorrows", "setTotalReserves"}}
EvilFunctions == {Function("evilSeize", <<"address", "address", "address", "uint">>)}
DonateFunctions == {Function("donate", << >>)}

Erc20Market == MarketFunctions \cup Erc20MarketFunctions
Delegators == {"JErc20Delegator", "JErc20DelegatorScenario",
               "JCollateralCapErc20DelegatorScenario", "JWrappedNativeDelegatorScenario"}
Delegates == {"JErc20Delegate", "JErc20DelegateScenario", "JCapableErc20Delegate",
              "JCollateralCapErc20DelegateScenario", "JWrappedNativeDelegateScenario"}
JTokenAbi(c) ==
    CASE c = "JErc20Delegator" -> Erc20Market \cup DelegatorFunctions
      [] c = "JErc20DelegatorScenario" -> Erc20Market \cup DelegatorFunctions \cup MarketMocks
      [] c = "JCollateralCapErc20DelegatorScenario" ->
             Erc20Market \cup DelegatorFunctions \cup MarketMocks \cup CollateralCapFunctions
      [] c = "JWrappedNativeDelegatorScenario" ->
             Erc20Market \cup DelegatorFunctions \cup MarketMocks \cup NativeFunctions
      [] c = "JErc20Scenario" -> Erc20Market \cup MarketMocks
      [] c = "JErc20Immutable" -> Erc20Market
      [] c = "JEvil" -> Erc20Market \cup MarketMocks \cup EvilFunctions
      [] c = "JAvax" -> MarketFunctions \cup AvaxMarketFunctions
      [] c = "JAvaxScenario" ->
             MarketFunctions \cup AvaxMarketFunctions \cup MarketMocks \cup DonateFunctions
JTokenClasses == (Delegators \cup {"JErc20Scenario", "JErc20Immutable", "JEvil", "JAvax", "JAvaxScenario"})

\* Tokens, and the tokens of tests.
TokenFunctions ==
    {Function(f, <<"address", "uint">>) : f \in {"approve", "transfer"}}
    \cup {Function("transferFrom", <<"address", "address", "uint">>)}
FaucetFunctions == {Function("allocateTo", <<"address", "uint">>)}
Erc20Extras(c) ==
    CASE c = "EvilToken" -> FaucetFunctions \cup {Function("setFail", <<"bool">>)}
      [] c = "WBTCToken" ->
             FaucetFunctions \cup {Function("pause", << >>), Function("unpause", << >>)}
      [] c = "WAVAX9" -> {Function("deposit", << >>)}
      [] c = "TetherInterface" -> {Function("setParams", <<"uint", "uint">>)}
      [] c = "EIP20Interface" -> {}
      [] OTHER -> FaucetFunctions
Erc20Classes == {"EIP20Interface", "TetherInterface", "FaucetToken", "FaucetNonStandardToken",
                 "FaucetTokenReEntrantHarness", "EvilToken", "WBTCToken", "WAVAX9", "FeeToken"}

\* The governance token of the tests.
JoeFunctions == TokenFunctions \cup {Function("delegate", <<"address">>)}
JoeScenarioFunctions ==
    {Function(f, <<"address[]", "uint">>) : f \in {"transferScenario", "transferFromScenario"}}

\* The Joetroller behind the Unitroller, and what its test version adds.
UnitrollerFunctions ==
    {Function("_acceptAdmin", << >>)}
    \cup {Function(f, <<"address">>) : f \in {"_setPendingAdmin", "_setPendingImplementation"}}
JoetrollerFunctions ==
    {Function(f, <<"uint">>) : f \in {"_setLiquidationIncentive", "_setCloseFactor"}}
    \cup {Function(f, <<"address">>) : f \in {"exitMarket", "_become", "_setPriceOracle",
              "_setPauseGuardian", "_setSupplyCapGuardian", "_setBorrowCapGuardian"}}
    \cup {Function(f, <<"address", "uint">>) : f \in {"_supportMarket", "updateJTokenVersion",
              "_setCollateralFactor", "_setCreditLimit"}}
    \cup {Function(f, <<"bool">>) : f \in {"_setTransferPaused", "_setSeizePaused"}}
    \cup {Function(f, <<"address", "bool">>) : f \in {"_setMintPaused", "_setBorrowPaused"}}
    \cup {Function(f, <<"address[]", "uint[]">>) : f \in {"_setMarketSupplyCaps", "_setMarketBorrowCaps"}}
    \cup {Function("enterMarkets", <<"address[]">>)}
JoetrollerScenarioFunctions ==
    {Function(f, <<"uint">>) : f \in {"fastForward", "setBlockTimestamp"}}
    \cup {Function("unlist", <<"address">>)}
ImplAbi(c) ==
    CASE c = "Joetroller" -> JoetrollerFunctions
      [] c = "JoetrollerScenario" -> JoetrollerFunctions \cup JoetrollerScenarioFunctions
      [] c = "JoetrollerBorked" -> {Function("_become", Addresses(5))}
ImplClasses == {"Joetroller", "JoetrollerScenario", "JoetrollerBorked"}

OracleFunctions ==
    {Function(f, <<"address", "uint">>) : f \in {"setUnderlyingPrice", "setDirectPrice"}}

\* The classes of each kind of contract in a world, and their functions. The
\* contract "Joetroller" has the Unitroller's functions and those of an
\* implementation (mergeContractABI).
ClassesOf(k) ==
    CASE k = "JToken" -> JTokenClasses
      [] k = "Erc20" -> Erc20Classes
      [] k = "Joe" -> {"Joe", "JoeScenario"}
      [] k \in {"Joetroller", "JoetrollerImpl"} -> ImplClasses
      [] k = "Unitroller" -> {"Unitroller"}
      [] k = "PriceOracle" -> {"FixedPriceOracle", "SimplePriceOracle"}
      [] k = "PriceOracleProxy" -> {"PriceOracleProxyUSD"}
      [] k = "InterestRateModel" -> {"InterestRateModelHarness", "JumpRateModelV2"}
      [] k = "JTokenDelegate" -> Delegates
Abi(k, c) ==
    CASE k = "JToken" -> JTokenAbi(c)
      [] k = "Erc20" -> TokenFunctions \cup Erc20Extras(c)
      [] k = "Joe" -> JoeFunctions \cup (IF c = "JoeScenario" THEN JoeScenarioFunctions ELSE {})
      [] k = "Joetroller" -> UnitrollerFunctions \cup ImplAbi(c)
      [] k = "JoetrollerImpl" -> ImplAbi(c)
      [] k = "Unitroller" -> UnitrollerFunctions
      [] k = "PriceOracle" -> IF c = "SimplePriceOracle" THEN OracleFunctions ELSE {}
      [] k = "JTokenDelegate" -> DelegateFunctions
      [] OTHER -> {}

-----------------------------------------------------------------------------
(* Constructors. *)

ImmutableParams ==
    <<"address", "address", "address", "uint", "string", "string", "uint", "address">>
DelegatedParams == ImmutableParams \o <<"address", "bytes">>
TokenParams == <<"uint", "string", "uint", "string">>

ConstructorOf(c) ==
    CASE c \in Delegators -> DelegatedParams
      [] c \in {"JErc20Scenario", "JErc20Immutable", "JEvil"} -> ImmutableParams
      [] c = "JAvax" -> <<"address", "address", "uint", "string", "string", "uint", "address">>
      [] c = "JAvaxScenario" ->
             <<"string", "string", "uint", "address", "address", "address", "uint">>
      [] c \in {"FaucetToken", "FaucetNonStandardToken", "EvilToken"} -> TokenParams
      [] c = "FaucetTokenReEntrantHarness" -> TokenParams \o <<"bytes", "string">>
      [] c = "FeeToken" -> TokenParams \o <<"uint", "address">>
      [] c \in {"Joe", "JoeScenario", "PriceOracleProxyUSD"} -> <<"address">>
      [] c \in {"FixedPriceOracle", "InterestRateModelHarness"} -> <<"uint">>
      [] c = "JumpRateModelV2" -> <<"uint", "uint", "uint", "uint", "uint", "address">>
      [] OTHER -> << >>
===============================================================================
