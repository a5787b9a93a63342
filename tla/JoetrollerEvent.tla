---------------------------- MODULE JoetrollerEvent ----------------------------
(***************************************************************************)
(* The commands on the Joetroller                                           *)
(* (src/scenario/src/Event/JoetrollerEvent.ts): what each reads from its    *)
(* event, and what it sends to the Joetroller behind the Unitroller.        *)
(***************************************************************************)
EXTENDS ContractCalls

OnJoetroller(name, args) == Cmd(name, 0, <<OfWorld("joetroller", "Joetroller")>> \o args)
AskJoetroller(name, args) == View(name, 0, <<OfWorld("joetroller", "Joetroller")>> \o args)

ListingCommands ==
    << Cmd("Deploy", 0, <<All("joetrollerParams", "Event")>>),
       OnJoetroller("SetPaused", <<Needs("action", "String"), Needs("isPaused", "Bool")>>),
       OnJoetroller("OldSupportMarket", <<Needs("jToken", "JToken")>>),
       OnJoetroller("SupportMarket", <<Needs("jToken", "JToken"), Needs("version", "Number")>>),
       OnJoetroller("UnList", <<Needs("jToken", "JToken")>>) >>

MembershipCommands ==
    << OnJoetroller("EnterMarkets", <<Each("jTokens", "JToken")>>),
       OnJoetroller("ExitMarket", <<Needs("jToken", "JToken")>>),
       OnJoetroller("UpdateJTokenVersion", <<Needs("jToken", "JToken"), Needs("version", "Number")>>) >>

FactorCommands ==
    << OnJoetroller("LiquidationIncentive", <<Needs("liquidationIncentive", "ExpNumber")>>),
       OnJoetroller("SetPriceOracle", <<Needs("priceOracle", "Address")>>),
       OnJoetroller("SetCollateralFactor", <<Needs("jToken", "JToken"),
                                             Needs("collateralFactor", "ExpNumber")>>),
       OnJoetroller("SetCloseFactor", <<Needs("closeFactor", "Percent")>>) >>

GuardianCommands ==
    << OnJoetroller("SetPendingAdmin", <<Needs("newPendingAdmin", "Address")>>),
       OnJoetroller("AcceptAdmin", << >>),
       OnJoetroller("SetPauseGuardian", <<Needs("newPauseGuardian", "Address")>>),
       OnJoetroller("SetGuardianPaused", <<Needs("action", "String"), Needs("isPaused", "Bool")>>),
       OnJoetroller("SetGuardianMarketPaused", <<Needs("jToken", "JToken"), Needs("action", "String"),
                                                 Needs("isPaused", "Bool")>>) >>

\* FastForward reads a keyword, "Blocks", that it does not use.
ViewCommands ==
    << OnJoetroller("FastForward", <<Needs("blocks", "Number"), Needs("_keyword", "String")>>),
       AskJoetroller("Liquidity", << >>),
       AskJoetroller("Decode", <<Needs("input", "String")>>) >>

CapCommands ==
    << OnJoetroller("SetMarketSupplyCaps", <<Each("jTokens", "JToken"), Each("supplyCaps", "Number")>>),
       OnJoetroller("SetSupplyCapGuardian", <<Needs("newSupplyCapGuardian", "Address")>>),
       OnJoetroller("SetMarketBorrowCaps", <<Each("jTokens", "JToken"), Each("borrowCaps", "Number")>>),
       OnJoetroller("SetBorrowCapGuardian", <<Needs("newBorrowCapGuardian", "Address")>>),
       OnJoetroller("SetBlockTimestamp", <<Needs("blockTimestamp", "Number")>>),
       OnJoetroller("SetCreditLimit", <<Needs("protocol", "Address"), Needs("creditLimit", "Number")>>) >>

JoetrollerCommands ==
    ListingCommands \o MembershipCommands \o FactorCommands \o GuardianCommands
        \o ViewCommands \o CapCommands

-----------------------------------------------------------------------------
\* setPaused asks for a function of the contract object itself, which has none.
PauseCalls == { SendsIf("SetPaused", "action", "Mint", "contract.Mint", <<"isPaused">>) }

\* setLiquidationIncentive, ..., enterMarkets
ListingCalls ==
    { Sends("LiquidationIncentive", "_setLiquidationIncentive", <<"liquidationIncentive">>),
      Sends("OldSupportMarket", "_supportMarket", <<"jToken">>),
      Sends("SupportMarket", "_supportMarket", <<"jToken", "version">>),
      Sends("UnList", "unlist", <<"jToken">>),
      Sends("EnterMarkets", "enterMarkets", <<"jTokens">>) }

\* exitMarket, ..., setCollateralFactor
MarketCalls ==
    { Sends("ExitMarket", "exitMarket", <<"jToken">>),
      Sends("UpdateJTokenVersion", "updateJTokenVersion", <<"jToken", "version">>),
      Sends("SetPriceOracle", "_setPriceOracle", <<"priceOracle">>),
      Sends("SetCollateralFactor", "_setCollateralFactor", <<"jToken", "collateralFactor">>) }

\* setCloseFactor, fastForward
FactorCalls ==
    { Sends("SetCloseFactor", "_setCloseFactor", <<"closeFactor">>),
      Sends("FastForward", "fastForward", <<"blocks">>) }

\* setPendingAdmin, ..., setGuardianMarketPaused
GuardianCalls ==
    { Sends("SetPendingAdmin", "_setPendingAdmin", <<"newPendingAdmin">>),
      Sends("AcceptAdmin", "_acceptAdmin", << >>),
      Sends("SetPauseGuardian", "_setPauseGuardian", <<"newPauseGuardian">>),
      SendsIf("SetGuardianPaused", "action", "Transfer", "_setTransferPaused", <<"isPaused">>),
      SendsIf("SetGuardianPaused", "action", "Seize", "_setSeizePaused", <<"isPaused">>) }
GuardianMarketCalls ==
    { SendsIf("SetGuardianMarketPaused", "action", "Mint", "_setMintPaused", <<"jToken", "isPaused">>),
      SendsIf("SetGuardianMarketPaused", "action", "Borrow", "_setBorrowPaused", <<"jToken", "isPaused">>) }

\* setMarketSupplyCaps, ..., setCreditLimit
CapCalls ==
    { Sends("SetMarketSupplyCaps", "_setMarketSupplyCaps", <<"jTokens", "supplyCaps">>),
      Sends("SetSupplyCapGuardian", "_setSupplyCapGuardian", <<"newSupplyCapGuardian">>),
      Sends("SetMarketBorrowCaps", "_setMarketBorrowCaps", <<"jTokens", "borrowCaps">>),
      Sends("SetBorrowCapGuardian", "_setBorrowCapGuardian", <<"newBorrowCapGuardian">>),
      Sends("SetBlockTimestamp", "setBlockTimestamp", <<"blockTimestamp">>),
      Sends("SetCreditLimit", "_setCreditLimit", <<"protocol", "creditLimit">>) }

JoetrollerCalls ==
    DecodedBy("Joetroller", PauseCalls \cup ListingCalls \cup MarketCalls \cup FactorCalls
                  \cup GuardianCalls \cup GuardianMarketCalls \cup CapCalls)
===============================================================================
