------------------------------ MODULE EventBuilder ------------------------------
(***************************************************************************)
(* Commands and values that are generated from the ABI of a contract        *)
(* (src/scenario/src/EventBuilder.ts): CoreEvent.ts and CoreValue.ts put    *)
(* them into the tables for Counter and JoeLens, once per world. Whether    *)
(* web3 can encode a value is outside.                                      *)
(***************************************************************************)
EXTENDS SequencesExt

CONSTANTS
    Generated,   \* contracts that the tables are generated for
    Names,       \* names they are deployed under
    Inputs,      \* values that events carry
    MaxEvents    \* bound of the events of a run

VARIABLES
    abi,         \* what saddle.abi gives for each contract
    table,       \* world.commands: "none" or "built"
    known,       \* contracts that contractData names
    event, stage,
    inputs,      \* the arguments as the handler gets them, by name
    sent,        \* what reached the chain
    events       \* events so far

vars == <<abi, table, known, event, stage, inputs, sent, events>>

\* The contracts, external to the scenario runner.
Function(name, types, returns) == [name |-> name, inputs |-> types, outputs |-> returns]
CounterAbi ==
    << Function("count", << >>, <<"uint256">>), Function("count2", << >>, <<"uint256">>),
       Function("increment", <<"uint256">>, << >>),
       Function("decrement", <<"uint256">>, << >>),
       Function("increment", <<"uint256", "uint256">>, << >>),
       Function("notZero", << >>, << >>), Function("doRevert", << >>, << >>) >>
JoeLensAbi ==
    << Function("nativeSymbol", << >>, <<"string">>),
       Function("jTokenMetadata", <<"address">>, <<"tuple">>),
       Function("jTokenMetadataAll", <<"address[]">>, <<"tuple[]">>),
       Function("jTokenBalances", <<"address", "address">>, <<"tuple">>),
       Function("jTokenBalancesAll", <<"address[]", "address">>, <<"tuple[]">>),
       Function("getAccountLimits", <<"address", "address">>, <<"tuple">>),
       Function("getClaimableRewards", <<"uint8", "address", "address", "address">>, <<"uint256">>) >>
AbiOf(contract) == IF contract = "Counter" THEN CounterAbi ELSE JoeLensAbi

\* Types of arguments and of results that have a getter and a builder.
TypeMappings == {"address", "address[]", "string", "uint256", "uint256[]", "uint32[]", "uint96[]"}

NoEvent == [do |-> "none", contract |-> "", receiver |-> "", function |-> "", args |-> << >>]
NotDeployed == "nothing"

\* The interfaces are read from the last build. The order of the functions in it
\* is the compiler's, and it may be a build from before a function was added to
\* JoeLens that has an argument of type uint8.
Builds(contract) == IF contract = "JoeLens" THEN {"forth", "back", "older"} ELSE {"forth", "back"}
Init ==
    /\ abi \in [Generated -> {"forth", "back", "older"}]
    /\ \A c \in Generated : abi[c] \in Builds(c)
    /\ table = "none"
    /\ known = [n \in Names |-> NotDeployed]
    /\ event = NoEvent /\ stage = "idle"
    /\ inputs = << >> /\ sent = << >>
    /\ events = 0
Functions(contract) ==
    CASE abi[contract] = "forth" -> AbiOf(contract)
      [] abi[contract] = "back" -> Reverse(AbiOf(contract))
      [] abi[contract] = "older" ->
             SelectSeq(AbiOf(contract), LAMBDA f : f.name # "getClaimableRewards")

-----------------------------------------------------------------------------
\* Events as the help of the commands shows them.
ReadEvent ==
    /\ stage = "idle" /\ events < MaxEvents
    /\ events' = events + 1
    /\ \E c \in Generated, n \in Names, do \in {"Deploy", "command", "value"} :
       \E f \in Range(Functions(c)) :
          /\ do = "Deploy" => f = Functions(c)[1]
          /\ event' \in [do : {do}, contract : {c}, receiver : {n}, function : {f.name},
                         args : [DOMAIN f.inputs -> Inputs]]
    /\ stage' = IF table = "none" THEN "building" ELSE "reading"
    /\ inputs' = << >>
    /\ UNCHANGED <<abi, table, known, sent>>

Refuse ==
    /\ stage' = "idle" /\ event' = NoEvent /\ inputs' = << >>
    /\ UNCHANGED <<abi, known, sent, events>>

\* The first event builds the whole table, and keeps it. No event gets to its
\* command while a type has no getter.
Buildable(contract) ==
    \A f \in Range(Functions(contract)) : Range(f.inputs) \subseteq TypeMappings
GetCommands ==
    /\ stage = "building"
    /\ IF \A c \in Generated : Buildable(c)
       THEN /\ table' = "built" /\ stage' = "reading"
            /\ UNCHANGED <<abi, known, event, inputs, sent, events>>
       ELSE Refuse /\ UNCHANGED table

Deploy ==
    /\ stage = "reading" /\ event.do = "Deploy"
    /\ \/ known' = [known EXCEPT ![event.receiver] = event.contract]
       \/ UNCHANGED known
    /\ stage' = "idle" /\ event' = NoEvent
    /\ UNCHANGED <<abi, table, inputs, sent, events>>

\* The first function of the name gets the event. Its arguments are all named
\* after the function, so that the last one is what the handler sees.
Row == CHOOSE i \in DOMAIN Functions(event.contract) :
          /\ Functions(event.contract)[i].name = event.function
          /\ \A j \in 1 .. i - 1 : Functions(event.contract)[j].name # event.function
Bound(args) == IF args = << >> THEN << >> ELSE <<Last(args)>>

Bind ==
    /\ stage = "reading" /\ event.do # "Deploy"
    /\ IF /\ known[event.receiver] # NotDeployed
          /\ Len(event.args) = Len(Functions(event.contract)[Row].inputs)
       THEN /\ inputs' = Bound(event.args)
            /\ stage' = "calling"
            /\ UNCHANGED <<abi, table, known, event, sent, events>>
       ELSE Refuse /\ UNCHANGED table

\* web3 picks the overload by the number of parameters, among the functions of
\* whatever contract goes by that name.
Callees ==
    {f \in Range(Functions(known[event.receiver])) :
        f.name = event.function /\ Len(f.inputs) = Len(inputs)}

\* A value is read, and only if its type has a builder is it an answer.
Call ==
    /\ stage = "calling"
    /\ \/ /\ event.do = "command"
          /\ \E f \in Callees :
                sent' = Append(sent, [event |-> event, callee |-> f, params |-> inputs])
       \/ UNCHANGED sent
    /\ stage' = "idle" /\ event' = NoEvent /\ inputs' = << >>
    /\ UNCHANGED <<abi, table, known, events>>

Next == ReadEvent \/ GetCommands \/ Deploy \/ Bind \/ Call
Spec == Init /\ [][Next]_vars /\ WF_vars(GetCommands \/ Deploy \/ Bind \/ Call)

-----------------------------------------------------------------------------
\* Every variable has its type.
TypeOK ==
    /\ stage \in {"idle", "building", "reading", "calling"}
    /\ table \in {"none", "built"}
    /\ \A n \in Names : known[n] \in Generated \cup {NotDeployed}
    /\ stage = "calling" => known[event.receiver] # NotDeployed

-----------------------------------------------------------------------------
(* What the generated help says, and the code does not do. *)

\* "Increment Amount Amount2" - Executes `increment` function.
CommandsSendTheirArguments == \A i \in DOMAIN sent : sent[i].params = sent[i].event.args

\* "JoeLens ...event" - Runs given JoeLens event: it gets to its command.
EventsGetToTheirCommand == [][stage = "building" => stage' # "idle"]_vars
===============================================================================
