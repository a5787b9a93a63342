---------------------------- MODULE ContractValues ----------------------------
(***************************************************************************)
(* A value that an event of the scenario language stands for: getCoreValue   *)
(* finds the view (CoreValue.ts), which for a contract hands the rest of the *)
(* event to the views of that contract (src/scenario/src/Value); that view   *)
(* looks up the contract, calls its function and gives the answer a type.    *)
(* On a public network the chain moves on between two calls.                *)
(***************************************************************************)
EXTENDS ContractViews

CONSTANTS
    Words,      \* what a selecting argument may say
    MaxVotes    \* bound of the vote checkpoints of the account

VARIABLES
    kind, event, wanted,   \* the event, and the row it was written for
    class,                 \* class of the contract the world has, or NoClass
    said,                  \* what the selecting argument says
    last,                  \* the last transaction: "none", "lost" or "mined"
    votes,                 \* vote checkpoints of the account on the chain
    stage,
    expr, given,           \* the view that got the event, and its arguments
    call,                  \* the call that the view makes
    counted,               \* number of checkpoints that a view was told
    result                 \* type of the value; checkpoints it was made from

vars == <<kind, event, wanted, class, said, last, votes, stage, expr, given, call, counted, result>>
written == <<kind, event, wanted, class, said, last>>

NoClass == "no class"
NoExpr == View("", 0, << >>)
NoCall == [view |-> "", method |-> "", params |-> << >>, part |-> 1, type |-> ""]
Value(type) == [type |-> type, checkpoints |-> {}]
NoValue == Value("")

\* Events on a contract start with its kind.
Init ==
    /\ kind \in ViewKinds
    /\ \E w \in Written(Exprs(Views[kind])) :
          /\ w.row \notin Range(Handing)
          /\ wanted = w.row
          /\ event = (IF kind = "Core" THEN << >> ELSE <<Word(kind)>>) \o w.event
    /\ class \in ReadClasses(kind) \cup {NoClass}
    /\ said \in IF \E a \in Range(wanted.args) : a.type = "String" THEN Words ELSE {""}
    /\ last \in IF wanted.name \in Receipts THEN {"none", "lost", "mined"} ELSE {"mined"}
    /\ votes \in IF wanted.name \in Counting THEN 0 .. MaxVotes ELSE {0}
    /\ stage = "finding"
    /\ expr = NoExpr /\ given = {}
    /\ call = NoCall /\ counted = 0 /\ result = NoValue

-----------------------------------------------------------------------------
(* getCoreValue, getFetcherValue, and the views that hand on. *)

Abort == stage' = "aborted" /\ UNCHANGED <<written, votes, expr, given, call, counted, result>>

\* The table is that of the contract if the event starts with its kind.
Table == IF kind # "Core" /\ expr = NoExpr THEN Handing ELSE Exprs(Views[kind])
Rest == IF kind = "Core" \/ expr = NoExpr THEN event ELSE Tail(event)

FindView ==
    /\ stage = "finding"
    /\ \E table \in {Table}, e \in {List(Rest)} : \E taking \in {Takes(table, e)} :
          \/ taking = {} /\ Abort
          \/ \E i \in taking :
                /\ expr' = table[i]
                /\ given' = ArgumentsGiven(table[i].args, Len(ArgsOf(table[i], e)))
                /\ stage' = IF kind # "Core" /\ expr = NoExpr THEN "finding" ELSE "found"
                /\ UNCHANGED <<written, votes, call, counted, result>>

-----------------------------------------------------------------------------
(* The views. *)

Row == CHOOSE row \in Range(Views[kind]) : row.expr = expr
\* What the view reads, given what its arguments say.
Reading == {r \in Row.reads : r.said \in {"", said}}
NeedsContract == \E a \in Range(expr.args) : a.type = kind
Resolved == class # NoClass \/ ~NeedsContract

ResolveFails == stage = "found" /\ ~Resolved /\ Abort

\* An unknown word makes "Hypothetical" throw; storage is then read as nothing.
SelectNothing ==
    /\ stage = "found" /\ Resolved /\ Reading = {}
    /\ IF kind = "Core" THEN stage' = "done" /\ result' = Value("Nothing")
                        ELSE stage' = "aborted" /\ UNCHANGED result
    /\ UNCHANGED <<written, votes, expr, given, call, counted>>

\* The world answers, or the node; but there may be no receipt to answer from,
\* and a number that was asked for by signature may not come back.
Answer ==
    /\ stage = "found" /\ Resolved
    /\ \E r \in Reading :
          /\ r.method = ""
          /\ expr.name \in Receipts => last = "mined"
          /\ result' = Value(r.type)
    /\ stage' = "done"
    /\ UNCHANGED <<written, votes, expr, given, call, counted>>
NoAnswer ==
    /\ stage = "found" /\ Resolved
    /\ \/ expr.name \in Receipts /\ last # "mined"
       \/ expr.name = "CallNum"
    /\ Abort

Prepare ==
    /\ stage = "found" /\ Resolved
    /\ \E r \in Reading :
          /\ r.method # ""
          /\ call' = [view |-> expr.name, method |-> r.method,
                      params |-> Values(expr.args, r.params), part |-> r.part, type |-> r.type]
    /\ stage' = "calling"
    /\ UNCHANGED <<written, votes, expr, given, counted, result>>

-----------------------------------------------------------------------------
(* The call. *)

CanEncode(types, params) ==
    /\ Len(types) = Len(params)
    /\ \A i \in DOMAIN types : types[i] \in Encodes(params[i])
Understood(c) ==
    {f \in GettersOf(kind, c) : f.name = call.method /\ CanEncode(f.types, call.params)}

\* methods.f is undefined, or takes other parameters: the view throws.
CallUnknown == stage = "calling" /\ Understood(class) = {} /\ Abort

\* The contract may revert, report an error, or be gone from the chain.
CallFails == stage = "calling" /\ Understood(class) # {} /\ Abort

CallReturns ==
    /\ stage = "calling" /\ Understood(class) # {}
    /\ IF call.view \in Counting
       THEN counted' = votes /\ stage' = "counted" /\ UNCHANGED result
       ELSE result' = Value(call.type) /\ stage' = "done" /\ UNCHANGED counted
    /\ UNCHANGED <<written, votes, expr, given, call>>

\* The checkpoints are read by their index; there may be none.
ReadCheckpoint ==
    /\ stage = "counted" /\ call.view = "GetCurrentVotesBlock" /\ counted > 0
    /\ result' = [Value("Number") EXCEPT !.checkpoints = {counted - 1}]
    /\ stage' = "done"
    /\ UNCHANGED <<written, votes, expr, given, call, counted>>
NoCheckpoint ==
    stage = "counted" /\ call.view = "GetCurrentVotesBlock" /\ counted = 0 /\ Abort
ReadCheckpoints ==
    /\ stage = "counted" /\ call.view = "AllVotes"
    /\ result' = [Value("List") EXCEPT !.checkpoints = 0 .. counted - 1]
    /\ stage' = "done"
    /\ UNCHANGED <<written, votes, expr, given, call, counted>>

\* Someone delegates to the account.
OthersVote ==
    /\ stage \notin {"done", "aborted"}
    /\ wanted.name \in Counting /\ votes < MaxVotes
    /\ votes' = votes + 1
    /\ UNCHANGED <<written, stage, expr, given, call, counted, result>>

Read ==
    \/ FindView \/ ResolveFails \/ SelectNothing \/ Answer \/ NoAnswer \/ Prepare
    \/ CallUnknown \/ CallFails \/ CallReturns \/ ReadCheckpoint \/ NoCheckpoint \/ ReadCheckpoints
Next == Read \/ OthersVote

\* Every await is answered.
Spec == Init /\ [][Next]_vars /\ WF_vars(Read)

-----------------------------------------------------------------------------
\* Every variable has its type.
Stages == {"finding", "found", "calling", "counted", "done", "aborted"}
TypeOK ==
    /\ stage \in Stages
    /\ given \subseteq {a.name : a \in Range(expr.args)}
    /\ counted \in 0 .. MaxVotes /\ votes \in 0 .. MaxVotes
    /\ result.checkpoints \subseteq 0 .. MaxVotes - 1
    /\ stage = "done" <=> result.type # ""

\* No view hides another one, although names stand at two places and an event
\* passes two tables: it reaches the view that it was written for, if it has
\* the arguments which that view asks for, and otherwise none.
Own == IF kind = "Core" THEN event ELSE Tail(event)
Legal == Admits(wanted.args, Len(ArgsOf(wanted, List(Own))))
EventsReachTheirView ==
    /\ stage \in {"found", "calling", "counted", "done"} => expr = wanted /\ Legal
    /\ stage = "aborted" /\ expr # wanted => ~Legal

\* Views of Compound that no contract here has a function for.
Retired == {<<"Unitroller", "Implementation">>, <<"Unitroller", "PendingImplementation">>,
            <<"Joetroller", "Implementation">>, <<"PriceOracleProxy", "V1PriceOracle">>}

\* Every other view can be read of some contract of its kind: no view names a
\* function, or gives it parameters, that none of them has.
EveryViewHasAReceiver ==
    stage = "calling" /\ <<kind, call.view>> \notin Retired =>
        \E c \in ReadClasses(kind) : Understood(c) # {}

\* A call carries every argument of the event but the contract and the word
\* that selects what is read.
ReceiverOf(k) ==
    CASE k = "JToken" -> "jToken" [] k = "Erc20" -> "erc20"
      [] k = "InterestRateModel" -> "interestRateModel" [] OTHER -> ""
ViewsUseTheirArguments ==
    stage = "calling" =>
        {p.name : p \in Range(call.params)} \ {Zero}
            = given \ ({ReceiverOf(kind)} \cup (IF call.view = "Hypothetical" THEN {"action"} ELSE {}))

\* The answer is read as the type that the function returns at that place.
ReadsAs(type) ==
    CASE type = "Address" -> "address" [] type = "Bool" -> "bool" [] type = "String" -> "string"
      [] type = "Number" -> "uint" [] type = "List" -> "address[]"
ResultsAreReadAsTheirType ==
    stage = "calling" =>
        \A f \in UNION {Understood(c) : c \in ReadClasses(kind)} :
            call.part \in DOMAIN f.results /\ f.results[call.part] = ReadsAs(call.type)

\* What a view says of the votes is made of checkpoints that exist, up to the
\* last one of some moment of the reading.
VotesAreOfOneMoment ==
    stage = "done" /\ wanted.name \in Counting =>
        /\ \A i \in result.checkpoints : i < votes
        /\ counted > 0 => counted - 1 \in result.checkpoints

-----------------------------------------------------------------------------
\* "Unitroller Implementation" - Returns the Unitroller's current implementation,
\* and the like: every documented view can be read.
EveryViewCanBeRead ==
    stage = "calling" => \E c \in ReadClasses(kind) : Understood(c) # {}
===============================================================================
