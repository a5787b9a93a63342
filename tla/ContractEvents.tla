---------------------------- MODULE ContractEvents ----------------------------
(***************************************************************************)
(* An event on a contract, from the command table to the chain and back     *)
(* into the world (src/scenario/src/Event and Builder, with Command.ts and  *)
(* Invokation.ts): the event finds its command, the arguments are bound,    *)
(* the receiver is looked up, the call is made, what became of it is        *)
(* recorded. "Deploy" and "Set" hand the rest of the event to the builder   *)
(* of the kind.                                                            *)
(***************************************************************************)
EXTENDS CommandTables

CONSTANT Words     \* what a selecting argument may say

VARIABLES
    kind, event, wanted,   \* the event, and the row it was written for
    local, dryRun,         \* world.isLocalNetwork(), world.dryRun
    class,                 \* class of the receiver the world has, or NoClass
    said,                  \* the value of the selecting arguments
    stage,
    expr, given,           \* the command that got the event, and its arguments
    call,                  \* what is sent to the receiver
    plan,                  \* what is to be deployed
    sent, recorded,        \* what reached the chain; actions of the world
    contracts              \* contracts that the event made known

vars == <<kind, event, wanted, local, dryRun, class, said, stage, expr, given,
          call, plan, sent, recorded, contracts>>
written == <<kind, event, wanted, local, dryRun, class, said>>

NoInvokation == "no invokation"
NoCall == [command |-> "", method |-> "", params |-> << >>, reporter |-> ""]
NoPlan == [class |-> NoClass, recorded |-> "", params |-> << >>]
NoExpr == View("", 0, << >>)

-----------------------------------------------------------------------------
(* Events as they are written: the name of a command at its place, and       *)
(* arguments, each a word that says which it is, possibly too few of them.   *)

Selects(e) == \E a \in Range(e.args) : a.type \in {"String", "Bool"}

\* A deployment has no receiver, and only deployments ask which network it is.
Init ==
    /\ kind \in Kinds
    /\ dryRun \in BOOLEAN
    /\ \/ /\ \E w \in {v \in Written(Commands[kind]) : v.row.name \notin Building} :
                wanted = w.row /\ event = w.event
          /\ class \in Classes[kind] \cup {NoClass} /\ local = FALSE
       \/ /\ \E command \in Building : \E w \in Written(VariantTable(kind, command)) :
                wanted = w.row /\ event = <<Word(command)>> \o w.event
          /\ class = NoClass /\ local \in BOOLEAN
    /\ said \in IF Selects(wanted) THEN Words ELSE {""}
    /\ stage = "finding"
    /\ expr = NoExpr /\ given = {}
    /\ call = NoCall /\ plan = NoPlan
    /\ sent = << >> /\ recorded = << >>
    /\ contracts = {}

-----------------------------------------------------------------------------
(* Finding the command and its arguments (Command.tla has the details). *)

Binds(table, e, i) ==
    \E row \in {table[i]} : \E n \in {Len(ArgsOf(row, e))} :
        /\ expr' = row
        /\ given' = ArgumentsGiven(row.args, n)
        /\ stage' = "found"

NotFound ==
    /\ stage' = "aborted"
    /\ UNCHANGED <<written, expr, given, call, plan, sent, recorded, contracts>>

FindCommand ==
    /\ stage = "finding"
    /\ \E table \in {Commands[kind]}, e \in {List(event)} : \E taking \in {Takes(table, e)} :
          \/ taking = {} /\ NotFound
          \/ \E i \in taking :
                /\ Binds(table, e, i)
                /\ UNCHANGED <<written, call, plan, sent, recorded, contracts>>

\* genJToken and its like hand the rest of the event to the builder.
Chosen(variant) == IF local THEN variant.localClass ELSE variant.class
Planned(variant) ==
    [class |-> Chosen(variant),
     recorded |-> IF variant.recorded = "" THEN Chosen(variant) ELSE variant.recorded,
     params |-> Values(variant.expr.args, variant.params)]

FindBuilder ==
    /\ stage = "found" /\ expr.name \in Building /\ plan = NoPlan
    /\ \E table \in {VariantTable(kind, expr.name)}, e \in {List(Tail(event))} :
       \E taking \in {Takes(table, e)} :
          \/ taking = {} /\ NotFound
          \/ \E i \in taking :
                /\ Binds(table, e, i)
                /\ plan' = Planned(Variants(kind, expr.name)[i])
                /\ UNCHANGED <<written, call, sent, recorded, contracts>>

-----------------------------------------------------------------------------
(* The handlers. *)

Abort ==
    /\ stage' = "aborted"
    /\ UNCHANGED <<written, expr, given, call, plan, sent, recorded, contracts>>
Finish ==
    /\ stage' = "done"
    /\ UNCHANGED <<written, expr, given, call, plan, sent, recorded, contracts>>

Handling == stage = "found" /\ expr.name \notin Building /\ plan = NoPlan

\* Views read; mergeABI changes what the world knows, not the chain; on a dry
\* run markets are not listed.
SendsNothing ==
    \/ ~expr.requireFrom
    \/ expr.name = "MergeABI"
    \/ dryRun /\ kind = "Joetroller" /\ expr.name \in {"OldSupportMarket", "SupportMarket"}

\* The receiver is an argument or is the world's one of its kind.
Resolved == class # NoClass \/ ~\E a \in Range(expr.args) : a.type = kind

ResolveFails == Handling /\ ~Resolved /\ Abort

Look == Handling /\ SendsNothing /\ Resolved /\ Finish

\* What is to be read is not there, or what is merged cannot be saved.
LookFails ==
    /\ Handling /\ Resolved
    /\ ~expr.requireFrom \/ (expr.name = "MergeABI" /\ ~dryRun)
    /\ Abort

Fits(c) ==
    /\ c.command = expr.name
    /\ CASE c.arg = "" -> TRUE
         [] c.value = Given -> c.arg \in given
         [] c.value = Absent -> c.arg \notin given
         [] c.value = "True" -> c.arg \notin given \/ said = "True"
         [] OTHER -> said = c.value

\* A value that selects no function makes the handler throw.
SelectNothing ==
    /\ Handling /\ Resolved /\ ~SendsNothing
    /\ ~\E c \in Calls[kind] : Fits(c)
    /\ Abort

Prepare ==
    /\ Handling /\ Resolved /\ ~SendsNothing
    /\ \E c \in Calls[kind] :
          /\ Fits(c)
          /\ call' = [command |-> c.command, method |-> c.method,
                      params |-> Values(expr.args, c.params),
                      reporter |-> c.reporter]
    /\ stage' = "calling"
    /\ UNCHANGED <<written, expr, given, plan, sent, recorded, contracts>>

-----------------------------------------------------------------------------
(* The call. *)

CanEncode(types, params) ==
    /\ Len(types) = Len(params)
    /\ \A i \in DOMAIN types : types[i] \in Encodes(params[i])
Understands(functions, c) ==
    \E f \in functions : f.name = c.method /\ CanEncode(f.types, c.params)

\* The functions that the runner believes the receiver to have.
ReceiverAbi(k, receiver, c) ==
    CASE c.method \in AsDelegate -> DelegateFunctions
      [] c.method \notin AsDelegate /\ receiver = NoClass -> {}
      [] OTHER -> Abi(k, receiver)

\* methods.f is undefined, or takes other parameters: the handler throws.
CallUnknown ==
    /\ stage = "calling" /\ ~Understands(ReceiverAbi(kind, class, call), call)
    /\ Abort

Outcomes == {"success", "failure", "revert failure", "error"}
Thrown == {"revert failure", "error"}

\* A transaction whose send throws was refused, or is on the chain all the same.
OnChain(outcome) == {Append(sent, outcome)} \cup IF outcome \in Thrown THEN {sent} ELSE {}

\* A dry run makes up a success.
SendsWith(outcome) ==
    /\ stage = "calling" /\ Understands(ReceiverAbi(kind, class, call), call)
    /\ IF dryRun THEN outcome = "success" /\ sent' = sent ELSE sent' \in OnChain(outcome)

\* Every outcome is recorded.
Invoke ==
    /\ \E outcome \in Outcomes :
          /\ SendsWith(outcome)
          /\ recorded' = Append(recorded, outcome)
    /\ stage' = "done"
    /\ UNCHANGED <<written, expr, given, call, plan, contracts>>

\* "Become" merges the interfaces after its transaction and before the record of
\* it: one of them may not be known, or the files cannot be written.
MergeFails ==
    /\ kind = "JoetrollerImpl" /\ call.command = "Become" /\ ~dryRun
    /\ \E outcome \in Outcomes : SendsWith(outcome)
    /\ stage' = "aborted"
    /\ UNCHANGED <<written, expr, given, call, plan, recorded, contracts>>

-----------------------------------------------------------------------------
(* Deployments. *)

Planning == stage = "found" /\ plan # NoPlan
Attaches == plan.class \in Interfaces
HasSource == plan.class \in AllClasses

\* saddle.abi has nothing for a class without a source.
DeployUnknown == Planning /\ ~HasSource /\ Abort

\* The constructor's parameters are encoded unless it is a dry run, which sends
\* nothing, as an attachment does.
CanDeploy ==
    Attaches \/ dryRun \/ CanEncode(Constructors[plan.class], plan.params)
Mined == IF Attaches \/ dryRun THEN sent ELSE Append(sent, "deployed")

(* Mutant of DeployFails: the contract was stored before it was there. *)
DeployFailsAfterStoring ==
    /\ Planning /\ HasSource /\ ~Attaches /\ ~dryRun
    /\ contracts' = contracts \cup {[kind |-> kind, class |-> plan.class, recorded |-> plan.recorded]}
    /\ stage' = "aborted"
    /\ UNCHANGED <<written, expr, given, call, plan, sent, recorded>>

\* The builder throws the error of its deployment: nothing was sent, the
\* constructor reverted on the chain, or only the answer is lost. An existing
\* token is asked for its decimals, and may not answer.
DeployFails ==
    /\ Planning /\ HasSource
    /\ \/ Attaches /\ plan.class = "EIP20Interface" /\ UNCHANGED sent
       \/ ~Attaches /\ ~dryRun /\ UNCHANGED sent
       \/ /\ ~Attaches /\ ~dryRun /\ CanDeploy
          /\ \E outcome \in {"error", "deployed"} : sent' = Append(sent, outcome)
    /\ stage' = "aborted"
    /\ UNCHANGED <<written, expr, given, call, plan, recorded, contracts>>

\* What was deployed is there, and the files of the network cannot be read or
\* written.
SaveFails ==
    /\ Planning /\ HasSource /\ CanDeploy
    /\ sent' = Mined
    /\ stage' = "aborted"
    /\ UNCHANGED <<written, expr, given, call, plan, recorded, contracts>>

\* A deployment that goes through is stored and saved, then recorded as an action,
\* most often without its invokation, which the builders delete before; setting
\* the price oracle is only stored.
Deploy ==
    /\ Planning /\ HasSource /\ CanDeploy
    /\ sent' = Mined
    /\ contracts' = contracts \cup {[kind |-> kind, class |-> plan.class, recorded |-> plan.recorded]}
    /\ recorded' = IF event[1].word = "Set" THEN recorded
                   ELSE Append(recorded, IF kind \in {"Joe", "PriceOracleProxy"}
                                         THEN "deployed" ELSE NoInvokation)
    /\ stage' = "done"
    /\ UNCHANGED <<written, expr, given, call, plan>>

Next ==
    \/ FindCommand \/ FindBuilder \/ ResolveFails \/ Look \/ LookFails \/ SelectNothing
    \/ Prepare \/ CallUnknown \/ Invoke \/ MergeFails
    \/ DeployUnknown \/ DeployFails \/ SaveFails \/ Deploy

\* Every await is answered.
Spec == Init /\ [][Next]_vars /\ WF_vars(Next)

-----------------------------------------------------------------------------
\* Every variable has its type.
TypeOK ==
    /\ stage \in {"finding", "found", "calling", "done", "aborted"}
    /\ given \subseteq {a.name : a \in Range(expr.args)}
    /\ Len(sent) <= 1 /\ Len(recorded) <= 1
    /\ class \in Classes[kind] \cup {NoClass}

\* No command hides another one: an event that is written for a command gets
\* there, and what was written for a variant of "Deploy" builds that variant,
\* although the names stand at two places and some variants catch everything.
\* An event with too few arguments gets nowhere.
Legal ==
    LET parts == IF event[1].word \in Building THEN Tail(event) ELSE event
    IN  Admits(wanted.args, Len(ArgsOf(wanted, List(parts))))
EventsReachTheirCommand ==
    /\ stage \in {"calling", "done"} \/ plan # NoPlan => expr = wanted /\ Legal
    /\ stage = "aborted" /\ expr # wanted => ~Legal

\* Commands of Compound that no contract here understands.
Retired == {"SetPaused", "OldSupportMarket", "SetBlockNumber", "SetSaiPrice"}

\* There is a class of contract for every call: no handler names a function, or
\* a list of parameters, that no contract of its kind has.
EveryCallHasAReceiver ==
    stage = "calling" /\ call.command \notin Retired =>
        \E c \in Classes[kind] : Understands(ReceiverAbi(kind, c, call), call)

\* The call carries every argument of the event once, other than the receiver,
\* what selects the function and what only reads well, and nothing else.
ReceiverOf(k) ==
    CASE k = "JToken" -> "jToken" [] k = "Erc20" -> "erc20"
      [] k = "JoetrollerImpl" -> "joetrollerImpl" [] OTHER -> ""
Selectors ==
    {c.arg : c \in {d \in Calls[kind] : d.command = call.command /\ d.value \notin {Given, Absent}}}
TakenFromWorld == {a.name : a \in {b \in Range(expr.args) : Is(b, "implicit")}}
ArgumentsReachTheContract ==
    stage = "calling" =>
        /\ IsInjective(call.params)
        /\ {p.name : p \in Range(call.params)} \ TakenFromWorld
              = given \ (Selectors \cup {ReceiverOf(kind), "_keyword"})

\* A failure is read with the error codes of the contract that reported it: the
\* same number is another error in another contract.
ReportsFailures(k, method) ==
    \/ k \in {"Joetroller", "Unitroller", "JoetrollerImpl"}
    \/ k = "JToken" /\ ~\E f \in MarketMocks \cup DonateFunctions : f.name = method
FailuresAreReadRight ==
    stage = "calling" /\ ReportsFailures(kind, call.method) =>
        call.reporter = IF kind = "JToken" THEN "JToken" ELSE "Joetroller"

\* An event that throws leaves the world as it was, and may leave a transaction on
\* the chain that no action tells of only if it is a deployment or a Become; an
\* event that does not throw has recorded what it sent, what it calls a success
\* is on the chain and so is a contract that it made known, unless it was there
\* before; a dry run sends nothing.
WhatIsSentIsRecorded ==
    /\ stage = "aborted" =>
          /\ recorded = << >> /\ contracts = {}
          /\ sent # << >> => plan # NoPlan \/ call.command = "Become"
    /\ stage = "done" /\ sent # << >> => recorded # << >>
    /\ stage = "done" /\ recorded = <<"success">> /\ ~dryRun => sent = recorded
    /\ contracts # {} /\ ~dryRun /\ ~Attaches => sent = <<"deployed">>
    /\ dryRun => sent = << >>

\* Every deployment that a builder prepares has the parameters of the class it
\* deploys, in their order.
DeploymentsFitTheirConstructor ==
    Planning /\ HasSource /\ ~Attaches => CanEncode(Constructors[plan.class], plan.params)

-----------------------------------------------------------------------------
(* What the documentation of the commands says, and the code does not do.  *)

\* "Joetroller SetPaused <Action> <Bool>" - Pauses or unpaused given jToken
\* function; and the like: every documented command can be carried out.
EveryCommandCanRun ==
    stage = "calling" => \E c \in Classes[kind] : Understands(ReceiverAbi(kind, c, call), call)

\* "InterestRateModel Deploy JumpRateModel MyInterestRateModel ..." and the
\* like: every documented variant can be deployed.
EveryVariantCanBeDeployed == Planning => HasSource

\* "JToken <jToken> Verify" - Verifies JToken in Etherscan: under the name of
\* the contract that was deployed.
VerificationNamesTheClass == \A c \in contracts : c.recorded = c.class
===============================================================================
