------------------------------ MODULE TokenEvents ------------------------------
(***************************************************************************)
(* The commands on tokens: src/scenario/src/Event/Erc20Event.ts and         *)
(* JoeEvent.ts.                                                             *)
(***************************************************************************)
EXTENDS ContractCalls

OnToken(name, args) == Cmd(name, 1, <<Needs("erc20", "Erc20")>> \o args)

TransferCommands ==
    << Cmd("Deploy", 0, <<All("erc20Params", "Event")>>),
       View("Verify", 1, <<Needs("erc20Arg", "String"), Needs("apiKey", "String")>>),
       OnToken("Approve", <<Needs("spender", "Address"), Needs("amount", "Number")>>),
       OnToken("Faucet", <<Needs("recipient", "Address"), Needs("amount", "Number")>>),
       OnToken("Transfer", <<Needs("recipient", "Address"), Needs("amount", "Number")>>),
       OnToken("TransferFrom", <<Needs("owner", "Address"), Needs("spender", "Address"),
                                 Needs("amount", "Number")>>) >>
TestTokenCommands ==
    << OnToken("SetFail", <<Needs("fail", "Bool")>>),
       OnToken("Pause", <<OrDefault("paused", "Bool")>>),
       OnToken("SetFee", <<Needs("basisPointFee", "Number"), Needs("maxFee", "Number")>>),
       OnToken("Deposit", << >>) >>

Erc20Commands == TransferCommands \o TestTokenCommands

\* approve, ..., transferFrom: the recipient is called spender.
TransferCalls ==
    { Sends("Approve", "approve", <<"spender", "amount">>),
      Sends("Faucet", "allocateTo", <<"recipient", "amount">>),
      Sends("Transfer", "transfer", <<"recipient", "amount">>),
      Sends("TransferFrom", "transferFrom", <<"owner", "spender", "amount">>) }
\* setFail, setPaused, setFee, deposit
FailCalls == { Sends("SetFail", "setFail", <<"fail">>) }
TestTokenCalls ==
    { SendsIf("Pause", "paused", "True", "pause", << >>),
      SendsIf("Pause", "paused", "False", "unpause", << >>),
      Sends("SetFee", "setParams", <<"basisPointFee", "maxFee">>),
      Sends("Deposit", "deposit", << >>) }

Erc20Calls ==
    DecodedBy("JToken", TransferCalls \cup FailCalls) \cup DecodedBy("none", TestTokenCalls)

-----------------------------------------------------------------------------
OnJoe(name, args) == Cmd(name, 0, <<OfWorld("joe", "Joe")>> \o args)

JoeTransferCommands ==
    << Cmd("Deploy", 0, <<All("params", "Event")>>),
       View("Verify", 0, <<OfWorld("joe", "Joe"), Needs("apiKey", "String"),
                           OrDefault("contractName", "String")>>),
       OnJoe("Approve", <<Needs("spender", "Address"), Needs("amount", "Number")>>),
       OnJoe("Transfer", <<Needs("recipient", "Address"), Needs("amount", "Number")>>),
       OnJoe("TransferFrom", <<Needs("owner", "Address"), Needs("spender", "Address"),
                               Needs("amount", "Number")>>) >>
JoeScenarioCommands ==
    << OnJoe("TransferScenario", <<Each("recipients", "Address"), Needs("amount", "Number")>>),
       OnJoe("TransferFromScenario", <<Each("froms", "Address"), Needs("amount", "Number")>>),
       OnJoe("Delegate", <<Needs("account", "Address")>>),
       OnJoe("SetBlockNumber", <<Needs("blockNumber", "Number")>>) >>

JoeCommands == JoeTransferCommands \o JoeScenarioCommands

JoeTransferCalls ==
    { Sends("Approve", "approve", <<"spender", "amount">>),
      Sends("Transfer", "transfer", <<"recipient", "amount">>),
      Sends("TransferFrom", "transferFrom", <<"owner", "spender", "amount">>) }
JoeScenarioCalls ==
    { Sends("TransferScenario", "transferScenario", <<"recipients", "amount">>),
      Sends("TransferFromScenario", "transferFromScenario", <<"froms", "amount">>),
      Sends("Delegate", "delegate", <<"account">>),
      Sends("SetBlockNumber", "setBlockNumber", <<"blockNumber">>) }

JoeCalls == DecodedBy("none", JoeTransferCalls \cup JoeScenarioCalls)
===============================================================================
