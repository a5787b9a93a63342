# A TLA+ model of Banker Joe (joe-lending)

Banker Joe is a lending protocol on Avalanche, a descendant of Compound and
Cream. Accounts supply an underlying token to a *market* and receive jTokens,
whose price in underlying (the *exchange rate*) grows with the interest that
borrowers pay. A *Joetroller* decides how much an account may borrow against the
jTokens it holds in the markets it entered, and lets liquidators repay the debt
of an account whose collateral is worth too little.

Beside the contracts the repository holds an interpreter of *scenarios*, the
language its integration tests and deployments are written in: a script is parsed,
its macros are expanded, each event finds a command, the command sends a
transaction to a node, and invariants, expectations and assertions are checked on
what became of it. Most of the repository's TypeScript is this interpreter.

This directory holds TLA+ modules translated from the Solidity sources under
`src/contracts` and from the interpreter under `src/scenario/src`, TLC configurations
that check them on small instances, and proofs, checked by TLAPS, for any
instance. `PROJECT.json` has the machine readable index: which definition stands
for which lines, the runs, a mutant of the code for every property, the hazards,
the theorems.

    tlc -workers 2 -config MCMarketCollateral.cfg MCMarket     # a run
    tlapm MarketProofs.tla                                     # the proofs

## 1. The system

### Components

| component | state | operations | modelled by |
|---|---|---|---|
| Fixed-point arithmetic (`Exponential.sol`) | none | `mul_`, `div_`, truncations | `Exponential.tla` |
| Market with a collateral cap (`JToken.sol`, `JCollateralCapErc20.sol`, its delegate) | supply, balances, borrow snapshots, index, reserves, internal cash, collateral per account and in total, the cap | mint, redeem, borrow, repay, liquidate, seize, transfer, approve, accrue, reserves, gulp, flash loan, register/unregister collateral, admin setters, upgrade | `JCollateralCapErc20.tla`, `Market.tla` |
| Joetroller (`Joetroller.sol`, `JoetrollerStorage.sol`) | listed markets, who entered what (a mapping and an array), factors, caps, pauses, credit limits | the `...Allowed` hooks, liquidity, enter/exit, listing, configuration | `Joetroller.tla` |
| Markets under the Joetroller | both of the above, the oracle's prices, the clock | the same, with the hooks asked where the code asks them | `JoeLending.tla` |
| Expressions and commands (`Command.ts`) | the arguments bound so far, the events left | find a command, bind its arguments, run it | `Expression.tla`, `Command.tla` |
| Macros and parser (`Macro.ts`, `Parser.ts`) | macros and tests defined so far | define, expand | `Macro.tla`, `Interpreter.tla` |
| World and core events (`World.ts`, `CoreEvent.ts`, `Runner.ts`, `Repl.ts`, invariants, expectations, assertions) | actions, invariants, expectations, options of the next transaction, the last invokation | wrappers (`From`, `Trx`, `Gate`, `Given`), `Invariant`, `Expect`, `Assert`, holds, waiting for blocks | `World.tla`, `CoreEvent.tla` |
| Contract events and deployments (`Event/*.ts`, `Builder/*.ts`) | contracts known to the world | one handler per event, one builder per kind | `Contracts.tla`, `ContractCalls.tla`, `JTokenEvent.tla`, `JoetrollerEvent.tla`, `TokenEvents.tla`, `AdminEvents.tla`, `Builders.tla`, `CommandTables.tla`, `ContractEvents.tla` |
| Values (`CoreValue.ts`, `Value/*.ts`) | none | one view per value | `ContractViews.tla`, `ContractValues.tla` |
| Comparisons (`Value.ts`) | none | `compareTo`, `compareOrder` | `Values.tla` |
| Generated commands (`EventBuilder.ts`) | the table built once per world | build, deploy, call, read | `EventBuilder.tla` |
| Transactions (`Invokation.ts`, `ErrorReporter*.ts`) | the last invokation, the gas counter | estimate, call, send, report | `Invokation.tla`, `ErrorReporter.tla`; abstractly `Transactions.tla` |
| Registry (`Networks.ts`, `Contract.ts`, `ContractLookup.ts`, `File.ts`) | `contractData`, `contractIndex`, two files per network | store, save, merge, load, look up | `Registry.tla` |
| Reward distributors (V1, V2) | index, timestamp and speed per market and reward, index and accrued reward per account | update, distribute, claim, set speed | not modelled |
| Interest rate models (`JumpRateModelV2`, `TripleSlopeRateModel`) | parameters | `getBorrowRate`, `getSupplyRate`, update | any rate |
| Price oracle (`PriceOracleProxyUSD`) | aggregators, fallback prices | `getUnderlyingPrice`, setters | any price |
| Proxies and admin (`Unitroller`, delegators, `JTokenAdmin`) | implementation, pending implementation, admin, pending admin | propose, accept, upgrade | the upgrade in `Market.tla`; adopting an implementation in `Registry.tla` |
| Other markets (`JErc20`, `JWrappedNative`, `JCapableErc20`, `JJLPDelegate`, `JJTokenDelegate`) | as the market, plus staking rewards for the last two | as the market, other flash loans, claims | their interfaces only, in `Contracts.tla` |
| Flash loan lender, Maximillion, Lens contracts | none | forwarders and views | not modelled: they keep no state |
| Printing, completion, help, web and account set-up of the interpreter; deployment scripts | | | not modelled: input, output, configuration |

### How they interact

A user calls a market. The market accrues interest, initialises the caller's
collateral entry if it is an upgraded account, asks the Joetroller's hook, moves
the underlying, writes its own storage, and for a redemption asks the Joetroller
a second time. The hook reads every market the account entered through
`getAccountSnapshot`, and the prices from the oracle. `borrowAllowed` writes: it
enters the borrower into the market, which calls back into the market's
`registerCollateral`. `enterMarkets`/`exitMarket` go the other way, from the
Joetroller to the market. A liquidation involves two markets: the debt is repaid
in one, which calls `seize` of the other, whose own hook is asked again.
`flashLoan` hands control to a receiver in the middle of the function.

A call has three outcomes, which the model keeps apart because they leave
different states: success, an *error code* (what was stored before it stays: the
accrued interest, the initialised collateral, the entered borrower) and a
*revert* (nothing stays; in the model no step is taken).

A line of a scenario is a few events. The parser expands the macros in it; the
interpreter hands each event to the first command of its table that matches, the
command's arguments are read from the rest of the event, some of them as values
that call contracts themselves; the handler sends a transaction through
`invoke`, records it in the world, and then the invariants and the expectations
are checked. A deployment also enters the contract in the registry, which the
next session reads back from two files.

### What is hard here

The contracts have no threads, but every function is interleaved with every other
by whoever sends transactions, and the callback of a flash loan interleaves
*within* one. The difficulties, each listed with its line under "hazards":

- redundant state kept by many functions: `internalCash` beside the balance of
  the underlying, `totalSupply` beside the balances, `totalCollateralTokens`
  beside the accounts' collateral, `accountAssets` beside `accountMembership`,
  `allMarkets` beside `isListed`, `totalBorrows` beside the debts;
- truncation at different moments of quantities that should agree;
- checks that read state before something changes it: `exitMarket` without an
  accrual, the second hook of a redemption, values read before a callback;
- errors that keep a part of what was done: a rejected borrow leaves the borrower
  entered, and a liquidation consists of two halves;
- admins who change caps, pauses and listings between any two calls, and a mapping
  that survives the deletion of the record that contains it.

The interpreter is one thread, but it awaits a node that others use too, and it
keeps state in three places that fail at different moments: the world, which is a
value and is thrown away with a failed line; objects that all worlds share; and the
chain with the files, where what happened stays. The difficulties:

- a value and a gas estimate that are read before the transaction they are told
  of, with others' transactions in between; answers that get lost;
- invariants with a flag `held` that is set in place, while the line that set it
  may fail; options that belong to the next transaction only;
- names of contracts, functions and their parameters that are untyped strings in
  some hundred rows of tables, and arguments bound by position to rows of several
  optional arguments;
- addresses in one file and interfaces in another, saves cut short, contracts
  with two names of one address, and an interface merged for a proxy;
- numbers that are JavaScript numbers in one comparison and exact in the next.

### What makes each component correct

- **Market**: supply is the sum of balances; an account has no more collateral
  than tokens; the cap holds; the counted cash exists; a debt can be computed and
  belongs to a member; the exchange rate does not fall; reserves stay covered;
  minting and redeeming gains nothing; a flash loan changes no valuation.
- **Joetroller**: mapping and arrays agree; every debt is in sight of the
  liquidity check.
- **Together**: no function but a price, interest or configuration change puts an
  account into a shortfall; a liquidation seizes what the repayment buys with the
  incentive, or moves nothing in either market; pauses and credit limits stop what they
  say; each market under the Joetroller is still the market
  of which the properties above were shown.
- **Scenario language**: each event reaches the row it was written for and each
  argument gets its share of the event; a handler calls a function that a contract
  has, with the parameters it declares; what is sent is recorded, unless a deployment or
  a `Become` throws, and what throws leaves the world as it was; an assertion that passes says something true; every event is answered.
- **World**: nothing breaks unnoticed between two transactions; holds and
  expectations cover the transaction they are meant for; a transaction carries the
  sender and the options of its own event; every line ends.
- **Transactions**: a scenario is told the truth about what it sent, also when an
  answer got lost.
- **Registry**: the files fit the chain, and a restart forgets nothing.

## 2. The modules

### The contracts

```
Exponential  <-  JCollateralCapErc20  <-  Market  <-  MCMarket
                        ^                    ^
                        |     (INSTANCE)     |
                  Joetroller  <-  JoeLending +  <-  MCJoeLending

proofs:
JCollateralCapErc20Proofs  <-  MarketProofs
        ^
        JoeLendingProofs   <-  JoeLendingRefinement  <-  JoeLendingShortfallProofs
```

**`Exponential`**: one operator per library function used, with its truncations.
`expScale` is `1e18` in the code and a parameter here. A checked subtraction or a
division by zero, which revert, become guards of the callers.

**`JCollateralCapErc20`**: the market's storage as one record `m`, and every
internal function as an operator from the storage it finds to the storage it
leaves, with an operator `...Reverts` beside it for the paths that revert. It is
shared by `Market` and `JoeLending`, so that the code is translated once. Two
fields are not Solidity storage: `cashOnChain` is what the underlying answers to
`balanceOf(market)`; every other field has the name it has in the code.

| code | operator |
|---|---|
| `accrueInterest` | `AccrueInterest`, `Accruals` (one result per rate the model may answer) |
| `exchangeRateStoredInternal`, `borrowBalanceStoredInternal` | `ExchangeRateStored`, `BorrowBalanceStored` |
| `initializeAccountCollateralTokens` | `InitializeAccountCollateralTokens` |
| `increase/decreaseUserCollateralInternal` | `IncreaseUserCollateral`, `DecreaseUserCollateral` |
| `registerCollateral`, `unregisterCollateral` | `RegisterCollateral`, `UnregisterCollateral` |
| `mintFresh`, `redeemFresh` | `MintTokens`/`MintFresh`, `RedeemTokens`/`RedeemAmount`/`RedeemPaidOut`/`RedeemFresh` |
| `borrowFresh`, `repayBorrowFresh` | `BorrowFresh`, `RepayAmount`/`RepayBorrowFresh` |
| `seizeInternal`, `transferTokens` | `SeizeInternal`, `TransferTokens` |
| `doTransferIn/Out` | `Received` (what may arrive), `DoTransferIn`, `DoTransferOut` |
| `_addReservesFresh`, `_reduceReservesFresh`, `gulp` | `AddReservesFresh`, `ReduceReservesFresh`, `Gulp` |

**`Market`**: one market, its users, its admin and the clock, with an *arbitrary*
Joetroller: any call may be allowed or rejected. Only the Joetroller's membership
is kept (`member`). What holds here holds under any risk policy. A step is a
transaction, except that a flash loan takes two: `FlashLoan` runs to the
receiver's callback and clears `notEntered`; then anything that is not
`nonReentrant` may happen (accrual, entering and leaving, approvals, an admin's
cap, direct transfers); `FlashLoanRepay` takes the money back and checks the
balance, or `FlashLoanRevert` restores the storage at the start. The market
starts empty or as the upgrade of a market without collateral bookkeeping, with
balances and members that are not initialised.

**`Joetroller`**: membership, liquidity, hooks, listing and configuration. Hooks
read the markets from an argument because they are called in the middle of a
market's function. The liquidity of an account is summed over its array
`accountAssets`, as in the code: a market that is missing from the array is not
counted and one that is in it twice is counted twice, which is why
`AccountAssetsMatchMembership` says that neither happens.

**`JoeLending`**: several markets under the Joetroller. Each action is the whole
transaction: accrual, hook, transfer, storage, error code or revert. Initially
every market is listed and empty.

**`MCMarket`**, **`MCJoeLending`**: finite inputs and the symmetry sets for TLC.

### The scenario language

```
Expression <- Command, Macro
Contracts <- ContractCalls <- JTokenEvent, JoetrollerEvent, TokenEvents,
                              AdminEvents, Builders <- CommandTables <- ContractEvents
             ContractCalls <- ContractViews <- ContractValues
Command, Values, EventBuilder, ContractEvents, ContractValues
                          (INSTANCE)  <- Language <- Interpreter <- MCLanguage
Macro                                               (INSTANCE) ^
World <- CoreEvent <- MCCoreEvent
ErrorReporter <- Invokation (implements Transactions), Registry <- Session <- MCSession

proofs: Language <- LanguageProofs, CoreEvent <- CoreEventProofs, Session <- SessionProofs
```

**`Expression`, `Command`**: an event is a word or a list. `Command` follows one event
through `processCommandEvent` and the fold in `getArgs`: one step per argument, by
what its declaration says (`BindVariadic`, `BindImplicit`, `BindAbsent`, ...). The
reference definition is `Share`, which says by counting alone which events belong to
which argument; `ArgumentsGetTheirShare` compares the two.

**`Macro`**: scripts of macro and test definitions; the steps of a test are expanded
until no step is headed by a macro. A parameter that a macro's step hands on by name,
`erc20:token`, is not looked up by the code and stays what it is
(`OnlyNamedParametersAreLeft` makes this exception and no other).

**`Contracts`, `ContractCalls`** and the tables (`JTokenEvent`, `JoetrollerEvent`,
`TokenEvents`, `AdminEvents`, `Builders`, gathered in `CommandTables`; `ContractViews` for
values): one record per row of the code's tables, with the name and where it
stands, the arguments and their kinds, the function it calls, the parameters it
passes and how its outcome is decoded. The tables are data translated row by row;
`Contracts` has the functions and constructors of the Solidity side, so that the two
can be compared.

**`ContractEvents`**: one event from its table to the chain and back: find, bind, look
up, call, record; a deployment makes a contract and stores it. What throws may do so
before anything is sent (`LookFails`, and `Existing` asks its token for its decimals) or
after it: a deployment that reverts or whose answer is lost was sent, and so was one that
cannot be saved (`DeployFails`, `SaveFails`); `become` merges the interfaces after its
transaction (`MergeFails`). `sent` is what reached the node, `recorded` the actions of the
world. **`ContractValues`**: the
same for values; the chain moves on between two calls of one view. **`EventBuilder`**:
the tables generated from an interface. **`Values`**: the comparisons, a pure algorithm
checked against "are the same number/word"; what rounding off does to a number is written
with the powers of ten (`Tens`). **`Language`** puts these together: the interpreter
awaits whatever it starts, so one part is at work and the others are not.
**`Interpreter`** adds the macros, which are expanded before the first event of a script
is looked at, and the fairness. It is a module of its own because `Macro` expands by
recursive operators, which the provers do not support: nothing that is proved of
`Language` reaches them.

**`World`, `CoreEvent`**: sessions, scripts (`Runner.ts`) and the interactive loop
(`Repl.ts`). A line is processed event by event; `From`, `Trx`, `Gate` and `Given` hand
on another event; after each, `CheckInvariants` and `CheckExpectations`. A failed line
of the loop goes back to the old world, while `objects` (the invariants with their
flags), `sent` and the chain stay as they are. A hold covers one check: `spared` are the
invariants that some `HoldInvariants` asked to hold since they were last checked and let
pass. It is not reset by a line that fails, as the code's flag is not.

**`Invokation`**: `invoke` as four requests (estimate, call, send, report) with others
moving the contract between them, requests that do not reach the node, and answers
that get lost, after which the transaction may still take effect later.
**`Registry`**: `contractData`, `contractIndex` and the two files, with a line that fails
after saving, a save cut short between the files, and restarts. **`Session`** composes
both; they share the dry run and nothing else, so a behaviour is examined at
one side.

Operators commented "Mutant of X" are variants of X with one plausible bug; they
are used by nothing but the mutation check, which puts one in the place of X and
expects a property to fail.

### Refinement

`EachMarketIsAMarket` says that `JoeLending` implements `Market` for each of its
markets: `market <- jToken[j]`, `member <- accountMembership[j]`, no flash loan.
So `Market` is the abstract specification (any Joetroller) and `JoeLending` a
detailed one (the real one), and what is proved of `Market` is true of every
market of `JoeLending`. TLC checks it in `lending_markets`, and
`MarketsImplementMarket` proves it for every instance. The formula
is `\A j \in JToken : OneMarket(j)!Spec`, written out as an initial condition and a
box, the form TLC accepts for a parameterised instance. `Market` is instantiated
with the amounts its callers may pass in `JoeLending`: those that users pass, those
that liquidators repay, and the tokens that a liquidation seizes, which it computes.

`TellsTheTruth` says that `Invokation` implements `Transactions`: `done <- effects`, and
`told` is what a report lets the scenario conclude (success, no success, dry run, or
lost). In `Transactions` a transaction takes effect at most once; what is told as a
success has taken effect, what is told as none never will; only of a lost one nothing
is known. `TellsTheTruthTheorem` proves it for any number of transactions.

## 3. The runs

**Fairness.** No run of the contracts assumes any: the contracts schedule nothing,
every function waits for a caller, and a market whose users go away owes no progress
to anybody. The interpreter does owe progress, and its specifications state weak
fairness of its own steps (in `CoreEvent` `WF_vars(Step)`, in `Interpreter`
`WF_interpreterVars(InterpreterWork)`): it is one thread whose every `await` is answered
or throws. `CoreEvent`
adds `WF_vars(Mine)`, that the network mines blocks, which `SleepUntilBlock` waits for.
That a session starts another line is not assumed in `CoreEvent`. `SessionSpec` needs no
fairness: what it promises is safety, and its environment may do nothing at all.

**Deadlock** is not checked: the bounds (`MaxTokens`, `MaxBorrows`, `MaxTime`,
`UnderlyingSupply`; `MaxVotes`, `MaxEvents`; the `maxActions`, `maxObjects`, `maxBlock` of
a session; `MaxTransactions`, `MaxMoves`, `MaxDeploys`, `MaxRestarts`) can leave no step
that stays within them, and a session may end. Accounts (and markets, where their
configurations are equal) are symmetric: no definition names one, no property uses
an order of them, and no run with symmetry checks liveness.

| run | instance | what it shows |
|---|---|---|
| `market_collateral` | 2 accounts, cap none or 2, half of a seizure to the protocol, upgraded balances 0-1 | supply and balances, collateral within balances, the cap, and that the total of the collateral drifts by a seizure only, by the share it burns and pays no cash for |
| `market_debts` | 1 account, 2 timestamps, interest 50 % per step, reserve factor 50 %, exchange rate 3/2, transfer fee 0 or 1, loans of 1-2, donations | internal cash is on chain at every moment of a loan; debts stay with members and computable; the exchange rate falls by no function but `redeemUnderlying`; reserves stay covered; mint and redeem gain nothing; the rate in the callback is the one before it; uncounted cash comes by direct transfers only and goes to the reserves without loss, or to the suppliers when the implementation is installed again |
| `lending_accounts` | 2 markets, 2 accounts, scale 4 and prices 3/4 or 6/4, so that quotients truncate, supplies of 3, factor 1/2, incentive 2, close factor 1/2 | no one is put into a shortfall while prices and configuration stay and no jToken it holds loses value, a rounding unit aside; every debt is in sight of the liquidity check; a liquidation pays and seizes or does neither, seizes what was repaid buys up to truncation, and, when factor times incentive is at most 1, raises the shortfall by no more than truncation may cost |
| `lending_listing` | 3 markets, 1 account, delisting and relisting | arrays and mappings agree through every order of listing, entering and leaving, including members of an earlier listing |
| `lending_guards` | 1 market, 2 accounts, all pauses, caps, credit limits | what is paused stops by every path; credit accounts get no jTokens except by liquidating |
| `lending_markets` | 1 market, 2 accounts, interest, cap 1, protocol share, liquidations | refinement of `Market` |
| `language` | all signatures of one argument, those of two and some of three, events of up to 3 parts; scripts of 6 macros that call each other, one of which hands on a parameter by name; every row of every table of events, builders and views; two generated contracts; 9 numbers around the precision limit | what section 1 asks of the language, and that every event is answered |
| `scenario` | three sessions: a script of invariants, holds, expectations and assertions, 3 transactions; a script of wrappers two and three deep, with gates, throws and blocks; the interactive loop with lines that fail half way | what section 1 asks of the world, and that every line ends |
| `session` | 2 transactions, 2 moves of others, two kinds of failure, costs below and above the estimate; 3 deployments under 2 names, 2 implementations, 2 restarts | what section 1 asks of transactions and of the registry |
| `market_doc_*`, `scenario_doc_hold` | as above | the disagreements of section 5 |

The bounds are small on purpose and chosen by the case that has to happen. A scale
of 2 or 4 instead of 10^18 makes every division truncate in a few steps; an
initial exchange rate of 3/2 makes both roundings of mint and redeem differ from
zero; two accounts are enough for a borrower and a liquidator or a sender and a
receiver, since no function touches more than two balances (`market_debts` has one,
its properties are about the market's totals); two markets are enough for a
liquidation across markets, three for a removal from the middle of an array; two time
steps separate an old and a new index, so that snapshots, debts and totals of both
kinds exist side by side.

In `language` the arguments of a command interact only through what is left of the
event, so two arguments with all attributes, and three with those that look ahead,
contain every order of cases in `getArgs`; the tables of the contracts are complete, so
that nothing about them is a bound. `scenario` needs two transactions to have something
left over from an earlier one, and a third to be spared or not; `session` needs one
transaction to be lost and another to come after it, one contract to take over the
name of another, and a third to be the market beside them. Numbers around `Safe` = 100, with powers
of ten up to 1000, stand for numbers around 2^53.

Every property is also checked to be *breakable*: its mutant in `PROJECT.json` is a
bug in a mapped definition with which TLC finds a violation on the same instance.

## 4. The proofs

Everything here is proved for all values of the constants that satisfy the named
assumptions: every finite set of accounts and of markets, every rounding scale,
rate, fee, factor and price, any number of transactions, wrappers of any depth and
lines of any length, any tables of commands and any events, numbers of any size.

| module | theorem | property |
|---|---|---|
| `MarketProofs` | `InvIsInvariant` | the inductive invariant of `Market` |
| | `TypeCorrectness` | `TypeOK` |
| | `SupplyTheorem` | `SupplyIsSumOfBalances` |
| | `CollateralHeldTheorem` | `CollateralWithinBalance` |
| | `CollateralCountedTheorem` | `CollateralIsCounted` |
| | `CashTheorem` | `CashIsOnChain` |
| | `BorrowersTheorem` | `BorrowersAreMembers` |
| | `SnapshotsTheorem` | `SnapshotsAreSound` |
| | `StepInvIsInvariant` | the invariant the action properties need |
| | `CollateralCapTheorem` | `CollateralCapRespected` |
| | `CollateralDriftTheorem` | `CollateralDriftsBySeizureOnly` |
| | `ExchangeRateTheorem` | `ExchangeRateNeverFalls` |
| | `ReservesTheorem` | `ReservesStayCovered` |
| | `FlashLoanTheorem` | `FlashLoanKeepsExchangeRate` |
| | `ExcessCashTheorem` | `ExcessCashOnlyDonated` |
| | `MintRedeemTheorem` | `MintRedeemGainsNothing` |
| `JoeLendingProofs` | `InvIsInvariant` | the inductive invariant of `JoeLending` |
| | `TypeCorrectness` | `TypeOK` |
| | `AccountAssetsTheorem` | `AccountAssetsMatchMembership` |
| | `AllMarketsTheorem` | `AllMarketsAreListed` |
| | `DebtsTheorem` | `DebtsAreCounted` |
| `JoeLendingRefinement` | `MarketsImplementMarket` | `EachMarketIsAMarket` |
| | `PauseTheorem` | `PausedMeansStopped` |
| | `CreditAccountsTheorem` | `CreditAccountsHoldNoCollateral` |
| `JoeLendingShortfallProofs` | `ShortfallTheorem` | `NoSelfInflictedShortfall` |
| `SessionProofs` | `NodeInvIsInvariant` | the inductive invariant of a session at the node |
| | `TellsTheTruthTheorem` | `TellsTheTruth` |
| | `ReportsTheorem` | `ReportsAreRight` |
| | `FileInvIsInvariant` | the inductive invariant of a session at its files |
| | `FilesTheorem` | `FilesFitTheChain` |
| | `RestartTheorem` | `RestartForgetsNothing` |
| `CoreEventProofs` | `TypeTheorem` | `TypeOK` |
| | `HoldsTheorem` | `HoldsCoverOneTransaction` |
| | `ExpectationsTheorem` | `ExpectationsAreDue` |
| | `NothingUnnoticedTheorem` | `NothingPassesUnnoticed` |
| | `TransactionsTheorem` | `TransactionsCarryTheirEvent` |
| `LanguageProofs` | `CommandInvIsInvariant` | the inductive invariant of matching and binding |
| | `ArgumentsTheorem` | `ArgumentsGetTheirShare` |
| | `FirstCommandTheorem` | the part of `EventsReachTheirRow` that is about `Command` |
| | `ValuesInvIsInvariant` | the invariant of a comparison |
| | `ComparisonsTheorem` | `ComparisonsAreSound` |
| | `TypeTheorem` | `TypeOK` |
| | `WhatIsSentIsRecordedTheorem` | the part of `CallsFitTheContracts` about what handlers leave behind |
| | `VotesTheorem` | the part of `CallsFitTheContracts` about views that read in two calls |

One lemma module stands below them: `JCollateralCapErc20Proofs` (what each function of a
market does to sound storage).

**Assumptions** (all named, and evaluated by TLC on every run of the module that
states them): `ExpScaleAssumption` (the scale is positive), `MarketAssumption` (a
positive initial exchange rate, factors between 0 and 1, natural rates and fees),
`AccountAssumption` (finitely many accounts), `MarketInputsAssumption` (callers pass
natural numbers; `bips` is positive), `JoetrollerAssumption` (`NoMarket` is none,
the maximal collateral factor is at most 1), `JoeLendingAssumption` (finitely many
markets, natural inputs, a configuration of the right type), `GasAssumption`
(executions cost gas), `FailuresAssumption` (the codes of a `Failure` event are codes
of the enumerations in `ErrorReporter.sol`) and `TransactionsAssumption`;
`SessionsAssumption` (what is typed is a list of whole events: wrappers around one event
that is none), `NamesAssumption` (a scenario gives no implementation, token or market the
name "Unitroller" or "Joetroller"; no script of the repository does, and a market called
"Joetroller" would take the place of the real one in both files), `EventsAssumption` (the
rows of a table stand one after the other and so do a row's arguments; what is wrapped in
an event is an event), `NumbersAssumption` (a number as large as the limit of precision is
itself exact, as 2^53 is; one power of ten is above all numbers) and `VotesAssumption` (a
natural number). `LanguageAssumption` of `MCLanguage` is about the instance only and used
by no proof. The bounds
on counters are conjuncts of `Next`; the proofs use no more of them than that they
are natural numbers, and that what a liquidation seizes is within `MaxTokens`, which
is how `Market` is instantiated. The theorems hold for every value of them, however
large.

### The market

**The inductive invariant.** None of the invariants is inductive. `TypeOK` says that no
counter is negative, but `totalSupply` decreases by what leaves a balance, so it
needs `SupplyAddsUp`; `totalCollateralTokens` decreases by what an account had, so
it needs the sum of the collateral to be counted in it; `cashOnChain` decreases by
an amount compared with `internalCash` only, so it needs `CashHeld`; a transfer
keeps collateral within balances only because the collateral it takes is
computed from the buffer, so it needs `CollateralHeld` of both sides. Snapshots
need that the index never falls, hence that the last accrual is in the past. The
conjunction is `Sound(m, mem, t)` of `JCollateralCapErc20Proofs`, stated of *any*
storage and not of a variable: a function of the code is applied to a storage in
the middle of a transaction, and the lemma `<Operator>IsSound` says that it maps
sound storage to sound storage. A flash loan that reverts brings back an old
storage, so `Inv` also says, while a loan is out, that the storage it remembers
was sound and the cash values read before the callback were consistent.

There are three layers: lemmas on `Total` (the sum of a function, as the
cardinality of a set of units, which avoids induction: updating one account
changes the total by the difference), one lemma per operator, one lemma
`<Action>KeepsInv` per action; `NextKeepsInv` collects them and `PTL` concludes
`Spec => []Inv`, from which each theorem follows.

**Steps.** The action properties need two facts more, so `StepInv` adds them: an
account that is not initialised has no collateral yet (`OpenCollateral`), and a loan
that is out left exactly its amount uncounted (`LoanIsBooked`). A function is then
split as the code runs it. What it does before it moves tokens is `Prepared`: an accrual
and an initialisation may raise cash plus borrows minus reserves and nothing lowers it.
What it does then is `Traded(m, n, cash, tokens)`: so much cash and so many tokens
came or went. The exchange rate does not fall if the trade is `Fair`, that is, if what
came is worth at least the tokens at the old rate; that both roundings favour the market
is arithmetic of truncated quotients, proved once for minting, redeeming and seizing.
`redeemUnderlying` is not fair, and the property excepts it by name.

### The markets together

`Inv` of `JoeLending` is `TrollerSound` (each array of the Joetroller lists its mapping,
without repetition, and `config` has its type) and `Sound` of every market's storage
for the members that the Joetroller has of it. `accountAssets` is an array in which the
code swaps and shrinks, so the lemmas say what this does to the set of its members and
that nothing appears twice; the mapping survives a delisting, and the invariant holds of
delisted markets too. `DebtsAreCounted` is then `BorrowersAreMembers` of each market and
the agreement of mapping and array.

**Refinement.** `MarketsImplementMarket` maps each transaction to the call it makes in
each market it touches, one lemma per call; the other markets stutter. A liquidation is a
repayment in the one market and a seizure in the other, and both at once, one after the
other, when the two are the same. `Market` is instantiated and its operators exist
twice, so `SameOperators` first says that they are equal.

**Guards.** `PausedMeansStopped` and `CreditAccountsHoldNoCollateral` speak of all paths:
accruals, initialisations, entering and leaving are `AtRest` (no token and no debt
moves); repayments make `DebtsShrink`; and for the rest the hook that the function asked
is opposed to what the function did (`Guarded`, market by market). A debt is compared
with what it was at the new index (`Owed`), since a pause does not stop interest.

**Shortfalls.** `ShortfallTheorem` says that nobody puts an account without a shortfall
into one of more than the unit that truncation may cost, as long as prices, interest and
configuration stay. It has one more exception, which TLC found: the exchange rate of a
market must not fall (`RatesHold`), as it may when somebody redeems less than a
whole jToken of it; what all others hold there is then worth less. The sums of a
liquidity check run over an array; no market is in it twice, so they are sums over a set
of markets (`Worth`), and no induction over the array is needed. A step that is no worse
for an account in any market (`NoWorse`) cannot raise its shortfall; a step that is worse
for it asked the liquidity check of the Joetroller about the account as it would be
afterwards, and what the hook computed and what the account then has are the same sum
but for one truncation (`Alike`, `Covered`).

### Transactions

`NodeInv` says of each report that it is one of three kinds, a success, a mined failure
or an error (`ReportSound`); of each lost transaction that it was told to be lost and has
no effect yet (`LostSound`); and of the request at hand that the value it holds is of the
contract as it is, unless others moved it, and that the gas is enough for what was
estimated (`RequestSound`). `SendOutcomes` lists what a `send` can do; each outcome is
one step of `Transactions`, and every other step of `Invokation` a stutter.

### The registry

`FilesFitTheChain` is far from inductive: what the files say is decided by a session
that has saved nothing yet, by a line that fails after saving, and by a session before
it. `FileInv` has eight parts. The world before and after the line (`WorldInv`) and the
files (`FilesInv`) know contracts of the chain, each under a name of its own, and an
interface fits its address but for the names where a save was cut short (`torn`).
`WritesInv` says the same of the save at hand, of which one file may be written and the
other not: it changes one name and no other. `AgreeInv` says that a world and the files
that the save at hand will leave agree, unless the session lost touch with them
(`apart`). The rest is about the proxy, which has two names: the save that follows an
adoption writes the functions of the Unitroller and of its implementation together
(`AdoptInv`), and a Joetroller that has them keeps them, unless it adopts another
implementation and that was not merged yet (`MergedInv`, `unmerged`).
`RestartForgetsNothing` then compares what a session knew after its last line with what
loading the files gives (`Loaded`).

### The interpreter of scenario events

`IInv` of `CoreEventProofs` is six parts: the types, with every world's references within
the objects it refers to (`TypeInv`); a flag that is set belongs to an invariant that was
spared, and not to one that was just checked (`HoldInv`); an expectation of the world is
due at the next transaction (`DueInv`); lines consist of whole events (`LineInv`); while
an event is processed, what its wrappers have set up so far is the sender and the options
that an outside reader computes from the event and the number of wrappers passed
(`CarryInv`: `SenderTo`, `AmountTo`), and no option outlives its event; and a script, where
no line is ever undone, has sent what its world has recorded (`ScriptInv`). The
properties speak of worlds that a failed line threw away; `TypeInv` and `HoldInv`
therefore speak of the objects, which are shared, and not of the worlds.

### Commands, comparisons, types and what is left behind

**Arguments.** The reference definition of a share counts: an argument gets the events
that the ones before it leave and the ones after it do not need. The code's fold has no
such view, it looks at the next argument and at the rest. `CommandInv` joins the two: the
row is the first that matches (`RowInv`), after `m` arguments the rest is what `UsedUp`,
the events counted for `m` arguments, leaves of the event (`BindingInv`), and a refusal
has its reason (`StatusInv`). `UsedUp` speaks of the least position at which an event ran
out, which exists because < is well-founded on the natural numbers.

**Comparisons.** `ValuesInv` says that a verdict is that of the two values it was asked
about. What remains is about the operators: a number is rounded off to as many digits as
a comparison keeps, which leaves the number of its digits as it was (`TensGrow`,
`DigitsOf`, `RoundedOff`), so that two numbers that look the same agree in the digits
that are left (`SameDigits`), and `ToNumber` is monotone; texts of digits compare by
length and then at the first digit that differs, lists at the least index where their
elements do. The proof found that the guards of a `CASE` in `CompareStrings` overlapped;
it is now the `if` of the code.

**Types.** `TypeInv` is `CommandInv` for the commands; for the generated table, that a
name the world knows is bound to a generated contract (`BuilderInv`); for the handlers,
that nothing is sent or recorded before it is decided (`ActInv`); and for the views, that
a row that was found is a row of the views of its kind and a call has a type (`ReadInv`).
The last needs that every row of `ContractViews` says of each call it makes how the answer
is read (`Typed`, `ViewsAreTyped`).

**What is left behind.** `WhatIsSentIsRecordedTheorem` says that an event that throws leaves
the world as it was, and that only a deployment or a `Become` may throw after it sent its
transaction; that an event that does not throw has recorded what it sent, that what it
calls a success or makes known is on the chain, and that a dry run sends nothing; in
addition, that no event sends more than one transaction. One path does not record:
`PriceOracle Set` only stores. `BooksInv` has to show that this is never a deployment, for
which it needs of every table that `Deploy` and `Set` stand at the front of their events
(`CommandsAreAtFront`, `BuildingWord`) and that the builder of `Set` attaches to what is
there (`SetAttaches`). `VotesTheorem` is about a
view that asks for the number of checkpoints and then reads them while others vote:
`VotesInv` says that the number it was told is at most the present one.

### What stays model-checked

- `LiquidationIsAnExchange`: that the seizure is fair follows from three truncations one
  after the other; that the shortfall grows by no more than a unit, and one for every
  `expScale` seized jTokens, from how these combine with the truncations of the liquidity
  check in two markets. Its instance is chosen so that they all truncate: the statement
  without the allowance, that a shortfall does not grow, is violated there.
- `EventsReachTheirRow` and `CallsFitTheContracts` beyond the parts that are proved: they
  compare finite tables, row by row, which TLC exhausts; nothing in them is a bound.
- `MacrosAreExpanded`: `Macro` declares recursive operators, which the provers do not
  support; only `Interpreter` reaches them.
- Liveness (`EveryLineEnds`, `EveryEventIsAnswered`) and `ENABLED` are out of the prover's
  reach, as is induction over data; this is why sums are cardinalities and not folds in
  what is proved.

## 5. Where comments and code disagree

Each is a run that expects TLC to find the violation.

- `market_doc_collateral`: `JTokenInterfaces.sol:143` calls
  `totalCollateralTokens` the total number of tokens used as collateral in
  circulation. `seizeInternal` burns the protocol's share of a seizure from the
  balance, the supply and the accounts' collateral, but not from this total. The
  total therefore only drifts upwards, and the drift uses up the cap.
  (`CollateralDriftsBySeizureOnly` shows that nothing else drifts it, and by how much.)
- `market_doc_borrows`: `JTokenInterfaces.sol:82` calls `totalBorrows` the total of
  the outstanding borrows. The debts of the accounts may add up to a little more:
  each accrual truncates the interest on the total, while a debt is truncated
  once, from the index. The last borrower's full repayment then reverts.
- `scenario_doc_hold`: `CoreEvent.ts:617` documents `HoldInvariants Success` as skipping
  the success invariants. `holdInvariants` uses the filter of `clearInvariants`, which
  lets through what is *not* of the type, so that every other invariant is skipped
  and the success invariant is checked.

Further disagreements met in the code, stated here and not given a run each:

- `JTokenInterfaces.sol:149` says that without a cap `accountCollateralTokens` equals
  `accountTokens`; an account that has not entered the market has tokens and no
  collateral (`WithoutCapAllTokensAreCollateral` of `Market`).
- `ClearInvariants All` (and without a type) clears nothing: the filter says what to
  keep, and that of `All` keeps everything.
- Assertions look at the last invokation, which after a deployment has no receipt to
  read; `LastBlock` and `LastGas` throw then. `History` throws when it comes to an
  action without an invokation (`Printable` of `World`).
- `Joetroller SetPaused` indexes the contract object with the word of the event and
  always throws; the views `Unitroller Implementation` and `Joetroller Implementation` read
  `joetrollerImplementation`, a getter that the storage no longer has
  (`EveryCommandCanRun`, `EveryViewCanBeRead`).
- `InterestRateModelBuilder` names a class that is spelled differently in the
  sources (`EveryVariantCanBeDeployed`), and a `JErc20Immutable` market is recorded for
  verification under another name (`VerificationNamesTheClass`).
- Generated commands pass only their last argument (`CommandsSendTheirArguments`); the
  table itself cannot be built when a function has an argument of a type without a
  getter, as `JoeLens.getClaimableRewards` has (`EventsGetToTheirCommand`). The other
  parts of `Language` assume a build of JoeLens without it.
- `Equal` on lists accepts a list that is only the beginning of the other
  (`EqualListsAreAsLong`), and `True` passes for a number that is not truthy
  (`TrueMeansTruthy`).
- `Erc20Builder.ts:47` documents `Erc20 Deploy Existing DAI "0x123..."`, which throws: the
  name that is left out has the default `undefined` (line 53), which `getArgs` takes for
  no default (`Command.ts:146`). `ExistingBuilders` has the name required.
- A macro does not expand the named arguments of its steps (`Macro.ts:85`; the core macros
  say so in two TODOs, `CoreMacros:206` and `:232`): `erc20:token` stays `erc20:token`
  (`HandedByName`).
- A deployment that fails on the chain, or is not saved, throws (`JTokenBuilder.ts:807`,
  `Erc20Builder.ts:350`), and so does `become` when the merge of the interfaces fails
  after its transaction (`JoetrollerImplEvent.ts:80`): the chain has a transaction that no
  action tells of, where a call that fails the same way is recorded.
- The failure infos in `ErrorReporterConstants.ts` are older than those of
  `ErrorReporter.sol` (`InfosKeepTheirName`).
- `Joetroller Liquidity` computes with JavaScript numbers and loses precision from 2^53
  on; `become` merges the interfaces also when the transaction failed; a boolean
  argument is false whatever other word is given.

## 6. What is abstracted, and what is not modelled

- Numbers are unbounded; the code's arithmetic is checked, so that an overflow of
  256 bits reverts and no wrapped value is ever stored. `borrowRateMaxMantissa` is a
  revert as well: a rate above it is a step not taken.
- Events, names, decimals, gas, and the addresses of admins are left out; a
  function only an admin may call is an action at any time.
- `_becomeImplementation` is assumed not to be called by the admin inside the
  callback of a flash loan, where it would count the balance without the loan.
- Who pays an underlying transfer is not tracked; all the underlying there is is
  `UnderlyingSupply`, and a payer can have whatever the market does not.
- Rewards are left out of the hooks: they read the markets and write nothing the
  markets or the Joetroller read.
- `JoeLending` has no reserves, direct transfers or flash loans (they are in
  `Market`), and its markets are created with the collateral cap implementation.
- In the interpreter, words, names and numbers are members of small sets; wording,
  printing and formatting are left out. Names are looked up without regard to case in
  the code and exactly in the model; a name is spelled in one way there.
- The generated recogniser in `Parser.ts` is not modelled: `Macro` starts from the
  definitions and steps it recognised.
- A file is written as a whole or not at all; the network "test" keeps its files in
  memory, where a save cannot be cut short.
- Storage slots, time and the numeric formats of literals are not modelled; a view on
  them is answered with any value of its type.
- Verification with an explorer, the set-up of `web3` and of accounts, and the
  hypothetical simulation are not modelled.
- Not modelled in the market: `_setJoetroller`, `_setInterestRateModel`,
  `_setPendingAdmin`/`_acceptAdmin`. Not modelled in the Joetroller: the guardians'
  addresses, the pause of flash loans, `updateJTokenVersion`, `_become`.

## 7. What could be added

In the order of what it would show:

1. Proofs: `LiquidationIsAnExchange`, from bounds on the truncated quotients; the
   generated table of `EventBuilder` for any interface.
2. `JoeLending`: reserves, so that a market without supply can have debts when it is
   delisted; interest in a market that a liquidity check reads and does not accrue.
3. `RewardDistributorV2`: indices, speeds, claims that cannot be paid, with the
   emitted rewards as the abstract budget.
4. The rate models as pure operators, the price oracle as a refinement of "any price",
   the handover of admins, the other markets' flash loans and staking.
