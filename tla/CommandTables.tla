----------------------------- MODULE CommandTables -----------------------------
(***************************************************************************)
(* The tables that events on contracts are looked up in: for each kind of   *)
(* contract its commands and the calls they make (src/scenario/src/Event),  *)
(* the variants of its deployment (src/scenario/src/Builder), and the       *)
(* classes of contracts of that kind with their functions.                  *)
(***************************************************************************)
EXTENDS JTokenEvent, JoetrollerEvent, TokenEvents, AdminEvents, Builders, SequencesExt

NoClass == "no class"

\* One entry per event type in the table of CoreEvent.ts.
Commands ==
    [JToken |-> JTokenCommands, Joetroller |-> JoetrollerCommands, Erc20 |-> Erc20Commands,
     Joe |-> JoeCommands, PriceOracle |-> PriceOracleCommands,
     PriceOracleProxy |-> PriceOracleProxyCommands, Unitroller |-> UnitrollerCommands,
     JoetrollerImpl |-> JoetrollerImplCommands, InterestRateModel |-> InterestRateModelCommands,
     JTokenDelegate |-> JTokenDelegateCommands]
Kinds == DOMAIN Commands
Calls ==
    [JToken |-> JTokenCalls, Joetroller |-> JoetrollerCalls, Erc20 |-> Erc20Calls, Joe |-> JoeCalls,
     PriceOracle |-> PriceOracleCalls, PriceOracleProxy |-> PriceOracleProxyCalls,
     Unitroller |-> UnitrollerCalls, JoetrollerImpl |-> JoetrollerImplCalls,
     InterestRateModel |-> {}, JTokenDelegate |-> {}]

\* "Deploy" hands the rest of the event to the builder of the kind, and so does
\* "Set" of the price oracle. genJoetroller builds an implementation.
Builders ==
    [JToken |-> JTokenBuilders, Joetroller |-> JoetrollerImplBuilders, Erc20 |-> Erc20Builders,
     Joe |-> JoeBuilders, PriceOracle |-> PriceOracleBuilders,
     PriceOracleProxy |-> PriceOracleProxyBuilders, Unitroller |-> UnitrollerBuilders,
     JoetrollerImpl |-> JoetrollerImplBuilders, InterestRateModel |-> InterestRateModelBuilders,
     JTokenDelegate |-> JTokenDelegateBuilders]
Building == {"Deploy", "Set"}
Variants(k, command) ==
    CASE command = "Deploy" -> Builders[k]
      [] command = "Set" -> IF k = "PriceOracle" THEN SetPriceOracleBuilders ELSE << >>
VariantTable(k, command) ==
    [i \in DOMAIN Variants(k, command) |-> Variants(k, command)[i].expr]

Classes == [k \in Kinds |-> ClassesOf(k)]
Interfaces == {"EIP20Interface", "TetherInterface", "PriceOracle"}
AllClasses == UNION Range(Classes) \cup Interfaces
Constructors == [c \in AllClasses |-> ConstructorOf(c)]
================================================================================
