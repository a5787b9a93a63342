------------------------------ MODULE AdminEvents ------------------------------
(***************************************************************************)
(* The commands on the contracts around the markets: the events             *)
(* PriceOracle, PriceOracleProxy, Unitroller, JoetrollerImpl,               *)
(* InterestRateModel and JTokenDelegate of src/scenario/src/Event.          *)
(***************************************************************************)
EXTENDS ContractCalls

Deploying(params) == Cmd("Deploy", 0, <<All(params, "Event")>>)
Verifying(name) == View("Verify", 1, <<Needs(name, "String"), Needs("apiKey", "String")>>)
VerifyingNamed(name, type) ==
    View("Verify", 0, <<OfWorld(name, type), Needs("apiKey", "String"),
                        OrDefault("contractName", "String")>>)

TheOracle == OfWorld("priceOracle", "PriceOracle")
PriceOracleCommands ==
    << Deploying("params"),
       Cmd("Set", 0, <<All("params", "Event")>>),
       Cmd("SetPrice", 0, <<TheOracle, Needs("jToken", "Address"), Needs("amount", "ExpNumber")>>),
       Cmd("SetDirectPrice", 0, <<TheOracle, Needs("address", "Address"), Needs("amount", "ExpNumber")>>),
       VerifyingNamed("priceOracle", "PriceOracle") >>
PriceOracleCalls ==
    DecodedBy("none", { Sends("SetPrice", "setUnderlyingPrice", <<"jToken", "amount">>),
                        Sends("SetDirectPrice", "setDirectPrice", <<"address", "amount">>) })

PriceOracleProxyCommands ==
    << Deploying("params"),
       VerifyingNamed("priceOracleProxy", "PriceOracleProxy"),
       Cmd("SetSaiPrice", 0, <<OfWorld("priceOracleProxy", "PriceOracleProxy"),
                               Needs("amount", "ExpNumber")>>) >>
PriceOracleProxyCalls == DecodedBy("none", { Sends("SetSaiPrice", "setSaiPrice", <<"amount">>) })

TheUnitroller == OfWorld("unitroller", "Unitroller")
UnitrollerCommands ==
    << Deploying("unitrollerParams"),
       View("Verify", 0, <<TheUnitroller, Needs("apiKey", "String")>>),
       Cmd("AcceptAdmin", 0, <<TheUnitroller>>),
       Cmd("SetPendingAdmin", 0, <<TheUnitroller, Needs("pendingAdmin", "Address")>>),
       Cmd("SetPendingImpl", 0, <<TheUnitroller, Needs("joetrollerImpl", "JoetrollerImpl")>>) >>
UnitrollerCalls ==
    DecodedBy("Joetroller", { Sends("AcceptAdmin", "_acceptAdmin", << >>),
                              Sends("SetPendingAdmin", "_setPendingAdmin", <<"pendingAdmin">>),
                              Sends("SetPendingImpl", "_setPendingImplementation", <<"joetrollerImpl">>) })

\* MergeABI sends nothing.
JoetrollerImplCommands ==
    << Deploying("joetrollerImplParams"),
       Verifying("joetrollerImplArg"),
       Cmd("Become", 1, <<TheUnitroller, Needs("joetrollerImpl", "JoetrollerImpl")>>),
       Cmd("MergeABI", 1, <<TheUnitroller, Needs("joetrollerImpl", "JoetrollerImpl")>>) >>
JoetrollerImplCalls == DecodedBy("Joetroller", { Sends("Become", "_become", <<"unitroller">>) })

InterestRateModelCommands == << Deploying("params"), Verifying("interestRateModelArg") >>
JTokenDelegateCommands == << Deploying("jTokenDelegateParams"), Verifying("jTokenDelegateArg") >>
===============================================================================
