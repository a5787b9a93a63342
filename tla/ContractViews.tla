----------------------------- MODULE ContractViews -----------------------------
(***************************************************************************)
(* The views of the scenario language (src/scenario/src/Value, CoreValue.ts): *)
(* the arguments of each, the function of a contract it reads and the type   *)
(* it gives the answer; and those functions as the contracts declare them.   *)
(* Numbers of every width are "uint", interfaces of contracts "address".     *)
(***************************************************************************)
EXTENDS ContractCalls

\* A view may read another function depending on what an argument says. One
\* without a method is answered by the world or by the node.
ReadsIf(word, method, params, at, type) ==
    [said |-> word, method |-> method, params |-> params, part |-> at, type |-> type]
Reads(view, method, params, at, type) ==
    [expr |-> view, reads |-> {ReadsIf("", method, params, at, type)}]
\* Views, by name and function, that take the same arguments.
ReadEach(namePos, args, params, type, pairs) ==
    [i \in DOMAIN pairs |->
        Reads(View(pairs[i][1], namePos, args), pairs[i][2], params, 1, type)]
AnsweredBy(namePos, args, type, names) ==
    ReadEach(namePos, args, << >>, type, [i \in DOMAIN names |-> <<names[i], "">>])

-----------------------------------------------------------------------------
(* JTokenValue.ts *)

AMarket == <<Needs("jToken", "JToken")>>
OfAccount == <<Needs("address", "Address")>>
MarketAddressViews ==
    AnsweredBy(1, AMarket, "Address", <<"Address">>)
    \o ReadEach(1, AMarket, << >>, "Address",
                << <<"InterestRateModel", "interestRateModel">>, <<"Admin", "admin">>,
                   <<"PendingAdmin", "pendingAdmin">>, <<"Underlying", "underlying">> >>)
BalanceViews ==
    ReadEach(1, AMarket \o OfAccount, <<"address">>, "Number",
             << <<"UnderlyingBalance", "balanceOfUnderlying">>,
                <<"BorrowBalance", "borrowBalanceCurrent">>,
                <<"BorrowBalanceStored", "borrowBalanceStored">> >>)
\* "CallNum" calls whatever function it is told, without parameters.
MarketStateViews ==
    ReadEach(1, AMarket, << >>, "Number",
             << <<"TotalBorrows", "totalBorrows">>, <<"TotalBorrowsCurrent", "totalBorrowsCurrent">>,
                <<"Reserves", "totalReserves">>, <<"ReserveFactor", "reserveFactorMantissa">>,
                <<"ExchangeRateStored", "exchangeRateStored">>,
                <<"ExchangeRate", "exchangeRateCurrent">>, <<"Cash", "getCash">>,
                <<"InterestRate", "borrowRatePerSecond">> >>)
    \o ReadEach(1, AMarket, << >>, "Address", << <<"Joetroller", "joetroller">> >>)
    \o AnsweredBy(1, AMarket \o <<Needs("signature", "String")>>, "Number", <<"CallNum">>)
CollateralViews ==
    ReadEach(1, AMarket, << >>, "Address", << <<"Implementation", "implementation">> >>)
    \o ReadEach(1, AMarket \o OfAccount, <<"address">>, "Number",
                << <<"CollateralBalance", "accountCollateralTokens">> >>)
    \o ReadEach(1, AMarket, << >>, "Number", << <<"TotalCollateralTokens", "totalCollateralTokens">> >>)
JTokenViews == MarketAddressViews \o BalanceViews \o MarketStateViews \o CollateralViews

-----------------------------------------------------------------------------
(* JoetrollerValue.ts *)

TheJoetroller == <<OfWorld("joetroller", "Joetroller")>>
AJoetrollerMarket == TheJoetroller \o AMarket
JoetrollerAccount == TheJoetroller \o <<Needs("account", "Address")>>
LiquidityViews ==
    << Reads(View("Liquidity", 0, JoetrollerAccount), "getAccountLiquidity", <<"account">>, 2, "Number"),
       [expr |-> View("Hypothetical", 0,
                      JoetrollerAccount \o <<Needs("action", "String"), Needs("amount", "Number")>> \o AMarket),
        reads |-> {ReadsIf("Borrows", "getHypotheticalAccountLiquidity",
                           <<"account", "jToken", Zero, "amount">>, 2, "Number"),
                   ReadsIf("Redeems", "getHypotheticalAccountLiquidity",
                           <<"account", "jToken", "amount", Zero>>, 2, "Number")}] >>
JoetrollerStateViews ==
    AnsweredBy(0, TheJoetroller, "Address", <<"Address">>)
    \o ReadEach(0, TheJoetroller, << >>, "Address",
                << <<"Admin", "admin">>, <<"PendingAdmin", "pendingAdmin">>, <<"PriceOracle", "oracle">>,
                   <<"Implementation", "joetrollerImplementation">> >>)
    \o ReadEach(0, TheJoetroller, << >>, "Number",
                << <<"CloseFactor", "closeFactorMantissa">>,
                   <<"LiquidationIncentive", "liquidationIncentiveMantissa">>,
                   <<"BlockTimestamp", "getBlockTimestamp">> >>)
\* Whether a market is listed, its collateral factor and its version are parts
\* of one record.
MembershipViews ==
    << Reads(View("CheckListed", 0, AJoetrollerMarket), "markets", <<"jToken">>, 1, "Bool"),
       Reads(View("CollateralFactor", 0, AJoetrollerMarket), "markets", <<"jToken">>, 2, "Number"),
       Reads(View("CheckJTokenVersion", 0, AJoetrollerMarket), "markets", <<"jToken">>, 3, "Number"),
       Reads(View("MembershipLength", 0, JoetrollerAccount), "membershipLength", <<"account">>, 1, "Number"),
       Reads(View("CheckMembership", 0, JoetrollerAccount \o AMarket),
             "checkMembership", <<"account", "jToken">>, 1, "Bool"),
       Reads(View("AssetsIn", 0, JoetrollerAccount), "getAssetsIn", <<"account">>, 1, "List") >>
GuardianViews ==
    ReadEach(0, TheJoetroller, << >>, "Address", << <<"PauseGuardian", "pauseGuardian">> >>)
    \o ReadEach(0, TheJoetroller, << >>, "Bool",
                << <<"_MintGuardianPaused", "_mintGuardianPaused">>,
                   <<"_BorrowGuardianPaused", "_borrowGuardianPaused">>,
                   <<"TransferGuardianPaused", "transferGuardianPaused">>,
                   <<"SeizeGuardianPaused", "seizeGuardianPaused">> >>)
    \o ReadEach(0, AJoetrollerMarket, <<"jToken">>, "Bool",
                << <<"MintGuardianMarketPaused", "mintGuardianPaused">>,
                   <<"BorrowGuardianMarketPaused", "borrowGuardianPaused">> >>)
CapViews ==
    ReadEach(0, TheJoetroller, << >>, "Address",
             << <<"SupplyCapGuardian", "supplyCapGuardian">>, <<"BorrowCapGuardian", "borrowCapGuardian">> >>)
    \o ReadEach(0, AJoetrollerMarket, <<"jToken">>, "Number",
                << <<"SupplyCaps", "supplyCaps">>, <<"BorrowCaps", "borrowCaps">> >>)
    \o AnsweredBy(0, TheJoetroller \o <<Needs("signature", "String"),
                                        Arg("callArgs", "Core", {"variadic", "mapped"})>>,
                  "Number", <<"CallNum">>)
JoetrollerViews ==
    LiquidityViews \o JoetrollerStateViews \o MembershipViews \o GuardianViews \o CapViews

-----------------------------------------------------------------------------
(* Erc20Value.ts, JoeValue.ts *)

TokenViews(namePos, token) ==
    AnsweredBy(namePos, token, "Address", <<"Address">>)
    \o ReadEach(namePos, token, << >>, "String", << <<"Name", "name">>, <<"Symbol", "symbol">> >>)
    \o ReadEach(namePos, token, << >>, "Number",
                << <<"Decimals", "decimals">>, <<"TotalSupply", "totalSupply">> >>)
    \o ReadEach(namePos, token \o OfAccount, <<"address">>, "Number", << <<"TokenBalance", "balanceOf">> >>)
    \o ReadEach(namePos, token \o <<Needs("owner", "Address"), Needs("spender", "Address")>>,
                <<"owner", "spender">>, "Number", << <<"Allowance", "allowance">> >>)
Erc20Views == TokenViews(1, <<Needs("erc20", "Erc20")>>)

TheJoe == <<OfWorld("joe", "Joe")>>
JoeAccount == TheJoe \o <<Needs("account", "Address")>>
\* The last two first ask for the number of checkpoints.
Counting == {"GetCurrentVotesBlock", "AllVotes"}
VoteViews ==
    ReadEach(0, JoeAccount, <<"account">>, "Number",
             << <<"GetCurrentVotes", "getCurrentVotes">>, <<"VotesLength", "numCheckpoints">>,
                <<"GetCurrentVotesBlock", "numCheckpoints">>, <<"AllVotes", "numCheckpoints">> >>)
    \o ReadEach(0, JoeAccount \o <<Needs("blockNumber", "Number")>>, <<"account", "blockNumber">>,
                "Number", << <<"GetPriorVotes", "getPriorVotes">> >>)
JoeViews == TokenViews(0, TheJoe) \o VoteViews

-----------------------------------------------------------------------------
(* The other contracts, and accounts. *)

TheUnitrollerOnly == <<OfWorld("unitroller", "Unitroller")>>
UnitrollerViews ==
    AnsweredBy(0, TheUnitrollerOnly, "Address", <<"Address">>)
    \o ReadEach(0, TheUnitrollerOnly, << >>, "Address",
                << <<"Admin", "admin">>, <<"PendingAdmin", "pendingAdmin">>,
                   <<"Implementation", "joetrollerImplementation">>,
                   <<"PendingImplementation", "pendingJoetrollerImplementation">> >>)
AModel == <<Needs("interestRateModel", "InterestRateModel")>>
InterestRateModelViews ==
    AnsweredBy(1, AModel, "Address", <<"Address">>)
    \o << Reads(View("BorrowRate", 1, AModel \o <<Needs("cash", "Number"), Needs("borrows", "Number"),
                                                  Needs("reserves", "Number")>>),
                "getBorrowRate", <<"cash", "borrows", "reserves">>, 1, "Number") >>
PriceViews(oracle, method) ==
    AnsweredBy(0, oracle, "Address", <<"Address">>)
    \o << Reads(View("Price", 0, oracle \o <<Needs("asset", "Address")>>), method, <<"asset">>, 1, "Number") >>
PriceOracleViews == PriceViews(<<OfWorld("priceOracle", "PriceOracle")>>, "assetPrices")
TheProxy == <<OfWorld("priceOracleProxy", "PriceOracleProxy")>>
PriceOracleProxyViews ==
    PriceViews(TheProxy, "getUnderlyingPrice")
    \o ReadEach(0, TheProxy, << >>, "Address", << <<"V1PriceOracle", "v1PriceOracle">> >>)
JTokenDelegateViews ==
    AnsweredBy(1, <<Needs("jTokenDelegate", "JTokenDelegate")>>, "Address", <<"Address">>)
JoetrollerImplViews ==
    AnsweredBy(1, <<Needs("joetrollerImpl", "JoetrollerImpl")>>, "Address", <<"Address">>)
UserViews == AnsweredBy(1, <<Needs("account", "Address")>>, "Address", <<"Address">>)

-----------------------------------------------------------------------------
(* CoreValue.ts. The first argument of "Exactly" and its like is an event that *)
(* the view itself reads as a number or a string.                            *)

ConstantViews ==
    AnsweredBy(0, << >>, "Bool", <<"True", "False">>)
    \o AnsweredBy(0, << >>, "Number", <<"Zero", "UInt96Max", "UInt256Max", "Some", "Little">>)
LiteralViews ==
    AnsweredBy(0, <<Needs("amt", "Number")>>, "Number", <<"Exactly", "Exp", "Neg">>)
    \o AnsweredBy(0, <<Needs("amt", "String")>>, "Number", <<"Precisely">>)
    \o AnsweredBy(0, <<Needs("str", "String")>>, "String", <<"Hex", "String">>)
    \o AnsweredBy(0, <<Needs("addr", "Address")>>, "Address", <<"Address">>)
    \o AnsweredBy(0, << >>, "Anything", <<"Anything">>) \o AnsweredBy(0, << >>, "Nothing", <<"Nothing">>)
\* Storage is read as the type that is asked for, or as nothing.
StorageView(name, keys, types) ==
    [expr |-> View(name, 0, <<Needs("addr", "Address"), Needs("slot", "Number")>>
                            \o keys \o <<Needs("valType", "String")>>),
     reads |-> {ReadsIf(t[1], "", << >>, 1, t[2]) : t \in types}]
Key(name) == Needs(name, "Address")
Scalars == {<<"bool", "Bool">>, <<"address", "Address">>, <<"number", "Number">>}
StorageViews ==
    << StorageView("StorageAt", <<Needs("start", "Number")>>, Scalars),
       StorageView("StorageAtNestedMapping", <<Key("key"), Key("nestedKey")>>,
                   {<<"marketStruct", "List">>}),
       StorageView("StorageAtMapping", <<Key("key")>>, Scalars \cup {<<"list(address)", "List">>}) >>
\* LastBlock and LastGas read the receipt of the last transaction.
Receipts == {"LastBlock", "LastGas"}
WorldViews ==
    AnsweredBy(0, << >>, "Number", <<"BlockNumber", "GasCounter", "LastBlock", "LastGas">>)
    \o AnsweredBy(0, << >>, "Address", <<"LastContract">>)
NodeViews ==
    AnsweredBy(0, << >>, "Number", <<"Now", "BlockTimestamp">>)
    \o AnsweredBy(0, << >>, "String", <<"Network">>)
    \o AnsweredBy(0, <<Needs("address", "Address")>>, "Number", <<"EtherBalance">>)
TimeViews ==
    LET span(name, arg) == AnsweredBy(0, <<Needs(arg, "Number")>>, "Number", <<name>>)
    IN  span("Minutes", "minutes") \o span("Hours", "hours") \o span("Days", "days")
          \o span("Weeks", "weeks") \o span("Years", "years") \o span("FromNow", "seconds")
ListViews ==
    AnsweredBy(0, <<Arg("els", "Core", {"variadic", "mapped"})>>, "List", <<"List">>)
    \o AnsweredBy(0, <<Needs("val", "Core"), Needs("def", "Event")>>, "Core", <<"Default">>)
ComparingViews ==
    AnsweredBy(0, <<Needs("given", "Core"), Needs("expected", "Core")>>, "Bool", <<"Equal">>)
    \o AnsweredBy(0, <<Each("argTypes", "String"), Each("args", "String")>>, "String", <<"EncodeParameters">>)
\* These hand the rest of the event to the views of the contracts.
ContractKinds == <<"User", "Unitroller", "Joetroller", "JoetrollerImpl", "JToken", "JTokenDelegate",
                   "Erc20", "InterestRateModel", "PriceOracle", "PriceOracleProxy", "Joe">>
HandingViews == AnsweredBy(0, <<All("res", "Event")>>, "Core", ContractKinds)
CoreViews ==
    ConstantViews \o LiteralViews \o StorageViews \o WorldViews \o NodeViews \o TimeViews
        \o ListViews \o ComparingViews \o HandingViews

-----------------------------------------------------------------------------
(* The functions read, as the contracts declare them. *)

Getters(types, results, names) ==
    {[name |-> f, types |-> types, results |-> results] : f \in names}

MarketGetters ==
    Getters(<< >>, <<"address">>, {"interestRateModel", "admin", "pendingAdmin", "joetroller"})
    \cup Getters(Addresses(1), <<"uint">>,
                 {"balanceOfUnderlying", "borrowBalanceCurrent", "borrowBalanceStored"})
    \cup Getters(<< >>, <<"uint">>,
                 {"totalBorrows", "totalBorrowsCurrent", "totalReserves", "reserveFactorMantissa",
                  "exchangeRateStored", "exchangeRateCurrent", "getCash", "borrowRatePerSecond"})
\* The storage of delegates is that of every market of a token.
JTokenGetters(c) ==
    MarketGetters
    \cup (IF c \in {"JAvax", "JAvaxScenario"} THEN {}
          ELSE Getters(<< >>, <<"address">>, {"underlying", "implementation"}))
    \cup (IF c # "JCollateralCapErc20DelegatorScenario" THEN {}
          ELSE Getters(Addresses(1), <<"uint">>, {"accountCollateralTokens"})
               \cup Getters(<< >>, <<"uint">>, {"totalCollateralTokens"}))
UnitrollerGetters == Getters(<< >>, <<"address">>, {"admin", "pendingAdmin", "implementation",
                                                    "pendingImplementation"})
ImplGetters ==
    Getters(Addresses(1), <<"uint", "uint", "uint">>, {"getAccountLiquidity"})
    \cup Getters(<<"address", "address", "uint", "uint">>, <<"uint", "uint", "uint">>,
                 {"getHypotheticalAccountLiquidity"})
    \cup Getters(<< >>, <<"address">>, {"oracle", "pauseGuardian", "supplyCapGuardian", "borrowCapGuardian"})
    \cup Getters(<< >>, <<"uint">>, {"closeFactorMantissa", "liquidationIncentiveMantissa",
                                     "getBlockTimestamp"})
    \cup Getters(Addresses(1), <<"bool", "uint", "uint">>, {"markets"})
    \cup Getters(Addresses(2), <<"bool">>, {"checkMembership"})
    \cup Getters(Addresses(1), <<"address[]">>, {"getAssetsIn"})
    \cup Getters(<< >>, <<"bool">>, {"_mintGuardianPaused", "_borrowGuardianPaused",
                                     "transferGuardianPaused", "seizeGuardianPaused"})
    \cup Getters(Addresses(1), <<"bool">>, {"mintGuardianPaused", "borrowGuardianPaused"})
    \cup Getters(Addresses(1), <<"uint">>, {"supplyCaps", "borrowCaps"})
JoetrollerGetters(c) ==
    UnitrollerGetters
    \cup (IF c = "JoetrollerBorked" THEN {} ELSE ImplGetters)
    \cup (IF c = "JoetrollerScenario" THEN Getters(Addresses(1), <<"uint">>, {"membershipLength"}) ELSE {})
TokenGetters ==
    Getters(<< >>, <<"string">>, {"name", "symbol"})
    \cup Getters(<< >>, <<"uint">>, {"decimals", "totalSupply"})
    \cup Getters(Addresses(1), <<"uint">>, {"balanceOf"})
    \cup Getters(Addresses(2), <<"uint">>, {"allowance"})
JoeGetters ==
    TokenGetters
    \cup Getters(Addresses(1), <<"uint">>, {"getCurrentVotes", "numCheckpoints"})
    \cup Getters(<<"address", "uint">>, <<"uint">>, {"getPriorVotes"})
GettersOf(k, c) ==
    CASE k = "JToken" -> JTokenGetters(c)
      [] k = "Joetroller" -> JoetrollerGetters(c)
      [] k = "Unitroller" -> UnitrollerGetters
      [] k = "Erc20" -> TokenGetters
      [] k = "Joe" -> JoeGetters
      [] k = "InterestRateModel" ->
             Getters(<<"uint", "uint", "uint">>, <<"uint">>, {"getBorrowRate"})
      [] k = "PriceOracle" ->
             Getters(Addresses(1), <<"uint">>, {"assetPrices", "getUnderlyingPrice"})
      [] k = "PriceOracleProxy" -> Getters(Addresses(1), <<"uint">>, {"getUnderlyingPrice"})
      [] OTHER -> {}

-----------------------------------------------------------------------------
\* The views of CoreValue.ts itself, and those of each contract.
Views ==
    [Core |-> CoreViews, User |-> UserViews, Unitroller |-> UnitrollerViews,
     Joetroller |-> JoetrollerViews, JoetrollerImpl |-> JoetrollerImplViews, JToken |-> JTokenViews,
     JTokenDelegate |-> JTokenDelegateViews, Erc20 |-> Erc20Views,
     InterestRateModel |-> InterestRateModelViews, PriceOracle |-> PriceOracleViews,
     PriceOracleProxy |-> PriceOracleProxyViews, Joe |-> JoeViews]
ViewKinds == DOMAIN Views
Exprs(views) == [i \in DOMAIN views |-> views[i].expr]
Handing == Exprs(HandingViews)
ReadClasses(k) == IF k \in {"Core", "User"} THEN {} ELSE ClassesOf(k)
===============================================================================
