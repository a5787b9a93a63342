----------------------------- MODULE JTokenEvent -----------------------------
(***************************************************************************)
(* The commands on a market (src/scenario/src/Event/JTokenEvent.ts): what   *)
(* each reads from its event, and what it sends to the market.              *)
(***************************************************************************)
EXTENDS ContractCalls

TheMarket == Needs("jToken", "JToken")
OnMarket(name, args) == Cmd(name, 1, <<TheMarket>> \o args)
AskMarket(name, args) == View(name, 1, <<TheMarket>> \o args)

DeployCommands ==
    << Cmd("Deploy", 0, <<All("jTokenParams", "Event")>>),
       View("Verify", 1, <<Needs("jTokenArg", "String"), Needs("apiKey", "String")>>) >>

SupplyCommands ==
    << OnMarket("AccrueInterest", << >>),
       OnMarket("Mint", <<OrNone("amount", "Number")>>),
       OnMarket("MintNative", << >>),
       OnMarket("Redeem", <<Needs("tokens", "Number")>>),
       OnMarket("RedeemNative", <<Needs("tokens", "Number")>>),
       OnMarket("RedeemUnderlying", <<Needs("amount", "Number")>>),
       OnMarket("RedeemUnderlyingNative", <<Needs("amount", "Number")>>) >>

BorrowCommands ==
    << OnMarket("Borrow", <<Needs("amount", "Number")>>),
       OnMarket("BorrowNative", <<Needs("amount", "Number")>>),
       OnMarket("RepayBorrow", <<OrNone("amount", "Number")>>),
       OnMarket("RepayBorrowNative", << >>) >>

LiquidationCommands ==
    << OnMarket("Liquidate", <<Needs("borrower", "Address"), Needs("collateral", "JToken"),
                               OrNone("repayAmount", "Number")>>),
       OnMarket("Seize", <<Needs("liquidator", "Address"), Needs("borrower", "Address"),
                           Needs("seizeTokens", "Number")>>),
       OnMarket("EvilSeize", <<Needs("treasure", "JToken"), Needs("liquidator", "Address"),
                               Needs("borrower", "Address"), Needs("seizeTokens", "Number")>>) >>

AdminCommands ==
    << OnMarket("ReduceReserves", <<Needs("amount", "Number")>>),
       OnMarket("AddReserves", <<Needs("amount", "Number")>>),
       OnMarket("SetPendingAdmin", <<Needs("newPendingAdmin", "Address")>>),
       OnMarket("AcceptAdmin", << >>),
       OnMarket("SetReserveFactor", <<Needs("reserveFactor", "ExpNumber")>>),
       OnMarket("SetInterestRateModel", <<Needs("interestRateModel", "Address")>>),
       OnMarket("SetJoetroller", <<Needs("joetroller", "Address")>>),
       OnMarket("Gulp", << >>),
       OnMarket("SetCollateralCap", <<Needs("amount", "Number")>>) >>

ImplementationCommands ==
    << OnMarket("BecomeImplementation", <<Needs("becomeImplementationData", "String")>>),
       OnMarket("ResignImplementation", << >>),
       OnMarket("SetImplementation", <<Needs("implementation", "Address"), Needs("allowResign", "Bool"),
                                       Needs("becomeImplementationData", "String")>>) >>

OtherCommands ==
    << OnMarket("Donate", << >>),
       OnMarket("Mock", <<Needs("variable", "String"), Needs("value", "Number")>>),
       AskMarket("Minters", << >>), AskMarket("Borrowers", << >>), AskMarket("Liquidity", << >>),
       AskMarket("Decode", <<Needs("input", "String")>>) >>

JTokenCommands ==
    DeployCommands \o SupplyCommands \o BorrowCommands \o LiquidationCommands
        \o AdminCommands \o ImplementationCommands \o OtherCommands

-----------------------------------------------------------------------------
(* mint, mintNative, ..., redeemUnderlyingNative *)
SupplyCalls ==
    { Sends("AccrueInterest", "accrueInterest", << >>),
      SendsIf("Mint", "amount", Given, "mint", <<"amount">>),
      SendsIf("Mint", "amount", Absent, "mint", << >>),
      Sends("MintNative", "mintNative", << >>),
      Sends("Redeem", "redeem", <<"tokens">>),
      Sends("RedeemNative", "redeemNative", <<"tokens">>) }
RedeemUnderlyingCalls ==
    { Sends("RedeemUnderlying", "redeemUnderlying", <<"amount">>),
      Sends("RedeemUnderlyingNative", "redeemUnderlyingNative", <<"amount">>) }

\* borrow, ..., repayBorrowNative
BorrowCalls ==
    { Sends("Borrow", "borrow", <<"amount">>),
      Sends("BorrowNative", "borrowNative", <<"amount">>),
      SendsIf("RepayBorrow", "amount", Given, "repayBorrow", <<"amount">>),
      SendsIf("RepayBorrow", "amount", Absent, "repayBorrow", << >>),
      Sends("RepayBorrowNative", "repayBorrowNative", << >>) }

\* liquidateBorrow, seize, evilSeize
LiquidationCalls ==
    { SendsIf("Liquidate", "repayAmount", Given, "liquidateBorrow",
              <<"borrower", "repayAmount", "collateral">>),
      SendsIf("Liquidate", "repayAmount", Absent, "liquidateBorrow", <<"borrower", "collateral">>),
      Sends("Seize", "seize", <<"liquidator", "borrower", "seizeTokens">>),
      Sends("EvilSeize", "evilSeize", <<"treasure", "liquidator", "borrower", "seizeTokens">>) }

\* setPendingAdmin, ..., setReserveFactor
AdminCalls ==
    { Sends("SetPendingAdmin", "_setPendingAdmin", <<"newPendingAdmin">>),
      Sends("AcceptAdmin", "_acceptAdmin", << >>),
      Sends("AddReserves", "_addReserves", <<"amount">>),
      Sends("ReduceReserves", "_reduceReserves", <<"amount">>),
      Sends("SetReserveFactor", "_setReserveFactor", <<"reserveFactor">>) }
\* setInterestRateModel, ..., setCollateralCap
SettingCalls ==
    { Sends("SetInterestRateModel", "_setInterestRateModel", <<"interestRateModel">>),
      Sends("SetJoetroller", "_setJoetroller", <<"joetroller">>),
      Sends("Gulp", "gulp", << >>),
      Sends("SetCollateralCap", "_setCollateralCap", <<"amount">>) }

\* The first two go to the market as if it were a delegate (becomeImplementation,
\* resignImplementation).
ImplementationCalls ==
    { Sends("BecomeImplementation", "_becomeImplementation", <<"becomeImplementationData">>),
      Sends("ResignImplementation", "_resignImplementation", << >>),
      Sends("SetImplementation", "_setImplementation",
            <<"implementation", "allowResign", "becomeImplementationData">>) }
AsDelegate == {"_becomeImplementation", "_resignImplementation"}

DonateCalls == { Sends("Donate", "donate", << >>) }

\* setJTokenMock knows two variables, and no error codes.
MockCalls ==
    { SendsIf("Mock", "variable", "totalborrows", "setTotalBorrows", <<"value">>),
      SendsIf("Mock", "variable", "totalreserves", "setTotalReserves", <<"value">>) }

JTokenCalls ==
    DecodedBy("JToken", SupplyCalls \cup RedeemUnderlyingCalls \cup BorrowCalls
                  \cup LiquidationCalls \cup AdminCalls \cup SettingCalls
                  \cup ImplementationCalls \cup DonateCalls)
    \cup DecodedBy("none", MockCalls)
===============================================================================
