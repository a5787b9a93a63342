------------------------------- MODULE Builders -------------------------------
(***************************************************************************)
(* What "Deploy" makes of an event, kind by kind (src/scenario/src/Builder): *)
(* the arguments of each variant, the class it deploys, the parameters of    *)
(* the constructor, and the class and the names it is recorded under.        *)
(***************************************************************************)
EXTENDS ContractCalls

\* On local networks some variants deploy another class than elsewhere.
BuildsBy(view, localClass, c, recordedAs, params) ==
    [expr |-> view, localClass |-> localClass, class |-> c,
     recorded |-> recordedAs, params |-> params]
Builds(view, c, params) == BuildsBy(view, c, c, c, params)
Strings(names) == [i \in DOMAIN names |-> Needs(names[i], "String")]

-----------------------------------------------------------------------------
(* JTokenBuilder.ts *)

MarketArgs(underlying) ==
    Strings(<<"symbol", "name">>) \o underlying
    \o <<Needs("joetroller", "Address"), Needs("interestRateModel", "Address"),
         Needs("initialExchangeRate", "ExpNumber"), Needs("decimals", "Number"),
         Needs("admin", "Address")>>
Underlying == <<Needs("underlying", "Address")>>
DelegatorArgs ==
    MarketArgs(Underlying)
    \o <<Needs("implementation", "Address"), Needs("becomeImplementationData", "String")>>
ImmutableArguments ==
    <<"underlying", "joetroller", "interestRateModel", "initialExchangeRate",
      "name", "symbol", "decimals", "admin">>
DelegatorArguments == ImmutableArguments \o <<"implementation", "becomeImplementationData">>
DelegatorRow(c) == Builds(View(c, 0, DelegatorArgs), c, DelegatorArguments)
ImmutableRow(name, c) == Builds(View(name, 0, MarketArgs(Underlying)), c, ImmutableArguments)

DelegatorBuilders == <<DelegatorRow("JErc20Delegator"), DelegatorRow("JErc20DelegatorScenario")>>
CapDelegatorBuilders == <<DelegatorRow("JCollateralCapErc20DelegatorScenario")>>
NativeDelegatorBuilders == <<DelegatorRow("JWrappedNativeDelegatorScenario")>>
ScenarioBuilders ==
    << ImmutableRow("Scenario", "JErc20Scenario"),
       Builds(View("JAvaxScenario", 0, MarketArgs(<< >>)), "JAvaxScenario",
              <<"name", "symbol", "decimals", "admin", "joetroller", "interestRateModel",
                "initialExchangeRate">>) >>
\* The second one is recorded as "JErc20".
PlainBuilders ==
    << Builds(View("JAvax", 0, MarketArgs(<< >>)), "JAvax",
              <<"joetroller", "interestRateModel", "initialExchangeRate", "name", "symbol",
                "decimals", "admin">>),
       [ImmutableRow("JErc20", "JErc20Immutable") EXCEPT !.recorded = "JErc20"] >>
EvilBuilders == <<ImmutableRow("JEvil", "JEvil")>>
StandardBuilders ==
    << BuildsBy(Catchall("Standard", MarketArgs(Underlying)), "JErc20Scenario", "JErc20Immutable",
                "", ImmutableArguments) >>
JTokenBuilders ==
    DelegatorBuilders \o CapDelegatorBuilders \o NativeDelegatorBuilders \o ScenarioBuilders
        \o PlainBuilders \o EvilBuilders \o StandardBuilders

-----------------------------------------------------------------------------
(* Erc20Builder.ts *)

TokenArgs == Strings(<<"symbol", "name">>) \o <<OrDefault("decimals", "Number")>>
TokenArguments == <<Zero, "name", "decimals", "symbol">>
NamedByDefault(name) == View(name, 0, <<OrDefault("symbol", "String"), OrDefault("name", "String")>>)

\* Existing tokens are attached to, not deployed. A default of undefined is none.
ExistingBuilders ==
    << [Builds(View("Existing", 0, <<Needs("symbol", "String"), Needs("address", "Address"),
                                     Needs("name", "String")>>), "EIP20Interface", << >>)
          EXCEPT !.recorded = "ExistingToken"],
       Builds(View("ExistingTether", 0, <<Needs("symbol", "String"), Needs("address", "Address")>>),
              "TetherInterface", << >>) >>
NonStandardBuilders ==
    << Builds(View("NonStandard", 0, TokenArgs), "FaucetNonStandardToken", TokenArguments),
       Builds(View("ReEntrant", 0, Strings(<<"symbol", "name", "fun", "reEntryFunSig">>)
                                     \o <<Arg("reEntryFunArgs", "String", {"variadic", "mapped"})>>),
              "FaucetTokenReEntrantHarness",
              <<Zero, "name", Eighteen, "symbol", CallData, "fun">>) >>
FaucetBuilders ==
    << Builds(View("Evil", 0, TokenArgs), "EvilToken", TokenArguments),
       Builds(View("Standard", 0, TokenArgs), "FaucetToken", TokenArguments) >>
WrappedBuilders ==
    << Builds(NamedByDefault("WBTC"), "WBTCToken", << >>),
       Builds(NamedByDefault("WAVAX"), "WAVAX9", << >>),
       Builds(View("Fee", 0, Strings(<<"symbol", "name">>)
                               \o <<Needs("decimals", "Number"), Needs("basisPointFee", "Number"),
                                    Needs("owner", "Address")>>),
              "FeeToken", TokenArguments \o <<"basisPointFee", "owner">>) >>
Erc20Builders ==
    ExistingBuilders \o NonStandardBuilders \o FaucetBuilders \o WrappedBuilders

-----------------------------------------------------------------------------
(* The other builders. *)

NamedRow(name, c) == Builds(View(name, 0, Strings(<<"name">>)), c, << >>)

JTokenDelegateBuilders ==
    << NamedRow("JErc20Delegate", "JErc20Delegate"),
       NamedRow("JErc20DelegateScenario", "JErc20DelegateScenario"),
       NamedRow("JCapableErc20Delegate", "JCapableErc20Delegate"),
       NamedRow("JCollateralCapErc20DelegateScenario", "JCollateralCapErc20DelegateScenario"),
       NamedRow("JWrappedNativeDelegateScenario", "JWrappedNativeDelegateScenario") >>
JoetrollerImplBuilders ==
    << NamedRow("Scenario", "JoetrollerScenario"), NamedRow("Standard", "Joetroller"),
       NamedRow("Borked", "JoetrollerBorked"),
       BuildsBy(Catchall("Default", Strings(<<"name">>)), "JoetrollerScenario", "Joetroller", "", << >>) >>

UnitrollerBuilders == << Builds(Catchall("Unitroller", << >>), "Unitroller", << >>) >>
JoeBuilders ==
    << Builds(View("Scenario", 0, <<Needs("account", "Address")>>), "JoeScenario", <<"account">>),
       BuildsBy(Catchall("Joe", <<Needs("account", "Address")>>), "JoeScenario", "Joe", "",
                <<"account">>) >>

PriceOracleBuilders ==
    << Builds(View("Fixed", 0, <<Needs("price", "ExpNumber")>>), "FixedPriceOracle", <<"price">>),
       Builds(View("Simple", 0, << >>), "SimplePriceOracle", << >>),
       Builds(View("Anchor", 0, <<Needs("poster", "Address")>>), "AnchorPriceOracle", <<"poster">>),
       Builds(View("NotPriceOracle", 0, << >>), "NotPriceOracle", << >>) >>
\* setPriceOracle attaches to an oracle that is there.
SetPriceOracleBuilders ==
    << Builds(View("Standard", 0, <<Needs("address", "Address"), Needs("description", "String")>>),
              "PriceOracle", << >>) >>

PriceOracleProxyBuilders ==
    << Builds(Catchall("PriceOracleProxy",
                       <<Needs("guardian", "Address"), Needs("priceOracle", "Address"),
                         Needs("jAVAX", "Address"), Needs("jXJOE", "Address")>>),
              "PriceOracleProxy", <<"guardian", "priceOracle", "jAVAX", "jXJOE">>) >>

InterestRateModelBuilders ==
    << Builds(View("Fixed", 0, <<Needs("name", "String"), Needs("rate", "Percent")>>),
              "InterestRateModelHarness", <<"rate">>),
       Builds(View("JumpRateModel", 0,
                   <<Needs("name", "String"), Needs("baseRate", "ExpNumber"),
                     Needs("multiplier", "ExpNumber"), Needs("jump", "ExpNumber"),
                     Needs("kink", "ExpNumber"), Needs("roof", "ExpNumber"),
                     Needs("admin", "Address")>>),
              "JumpRateModelv2", <<"baseRate", "multiplier", "jump", "kink", "roof", "admin">>) >>
===============================================================================
