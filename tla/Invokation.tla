------------------------------ MODULE Invokation ------------------------------
(***************************************************************************)
(* One transaction after the other as the scenario runner sends them        *)
(* (src/scenario/src/Invokation.ts): it estimates the gas, calls the        *)
(* function to learn what it will return, sends the transaction, and tells  *)
(* what became of it. Between these requests others move the contract, a    *)
(* request may not reach the node, and the answer to a transaction may be   *)
(* lost. The node and the contract are external.                            *)
(***************************************************************************)
EXTENDS Naturals, Sequences, FiniteSets, ErrorReporter

CONSTANTS
    MaxTransactions,  \* bound on the transactions
    MaxMoves,         \* bound on the moves of others
    Failures,         \* <<error, info, detail>> of the Failure events that occur
    Codes,            \* the codes that end a revert message
    Cost,             \* gas of an execution that is "done" or a "failure"
    DefaultGas,       \* 2000000 in the code
    TotalGas          \* the fixed gas limits to try, 0 for none

ASSUME GasAssumption ==
    /\ Cost \in [{"done", "failure"} -> Nat \ {0}]
    /\ DefaultGas \in Nat \ {0} /\ TotalGas \subseteq Nat

\* What the contract does with the call: it obeys, declines with a Failure
\* event, or reverts, with a code at the end of the message or without.
Done == [kind |-> "done", codes |-> << >>]
Declined(codes) == [kind |-> "failure", codes |-> codes]
Reverts == [kind |-> "revert", codes |-> << >>]
Coded(code) == [kind |-> "coded", codes |-> <<code>>]
Answers == {Done, Reverts} \cup {Declined(f) : f \in Failures} \cup {Coded(c) : c \in Codes}
Executes(answer) == answer.kind \in {"done", "failure"}
NoAnswer == [kind |-> "none", codes |-> << >>]
Fits(answer, limit) == Executes(answer) /\ Cost[answer.kind] <= limit

\* The codes of a Failure event are those of the enumerations of a market, and
\* behind a rejection of the Joetroller its code (ErrorReporter.sol).
ASSUME FailuresAssumption ==
    \A c \in Failures :
        /\ c[1] \in 0..(Len(TokenErrors) - 1)
        /\ TokenErrors[c[1] + 1] = "JOETROLLER_REJECTION" =>
               c[3] \in 0..(Len(JoetrollerErrors) - 1)

ASSUME TransactionsAssumption == MaxTransactions \in Nat

VARIABLES
    contract,    \* what it would do with the call now
    effects,     \* the transactions that took effect
    lost,        \* the transactions sent whose answer is lost, and not executed yet
    moves,
    dryRun, totalGas, reporter,   \* how this session was started
    n, pc,       \* the transaction at hand, and the request it waits for
    gas, value,  \* its gas limit and what the call returned
    estimated,   \* what the contract would have done when the gas was estimated
    stale,       \* others moved the contract since the call
    reports, gasCounter
chain == <<contract, effects, lost, moves>>
session == <<dryRun, totalGas, reporter>>
vars == <<chain, session, n, pc, gas, value, estimated, stale, reports, gasCounter>>

Init ==
    /\ contract \in Answers /\ effects = {} /\ lost = {} /\ moves = 0
    /\ dryRun \in BOOLEAN /\ totalGas \in TotalGas /\ reporter \in Reporters
    /\ n = 1 /\ pc = "estimate" /\ gas = 0 /\ value = NoAnswer /\ estimated = NoAnswer
    /\ stale = FALSE /\ reports = << >> /\ gasCounter = 0

-----------------------------------------------------------------------------
At(request) == pc = request /\ n <= MaxTransactions

SetGas(limit, answer) ==
    /\ gas' = limit /\ estimated' = answer /\ pc' = "call"
    /\ UNCHANGED <<chain, session, n, value, stale, reports, gasCounter>>
TakeTotalGas == At("estimate") /\ totalGas > 0 /\ SetGas(totalGas, NoAnswer)
EstimateGas ==
    /\ At("estimate") /\ totalGas = 0
    /\ SetGas(IF Executes(contract) THEN 2 * Cost[contract.kind] ELSE DefaultGas, contract)
EstimateIsLost == At("estimate") /\ totalGas = 0 /\ SetGas(DefaultGas, NoAnswer)

\* An error of the call is dropped: the transaction is sent all the same.
SetValue(answer) ==
    /\ value' = answer /\ stale' = FALSE /\ pc' = "send"
    /\ UNCHANGED <<chain, session, n, gas, estimated, reports, gasCounter>>
(* Mutant of CallFunction: the answer is the one from the estimate. *)
CallFunctionFromEstimate == At("call") /\ SetValue(estimated)

CallFunction == At("call") /\ SetValue(IF Fits(contract, gas) THEN contract ELSE NoAnswer)
CallIsLost == At("call") /\ SetValue(NoAnswer)

-----------------------------------------------------------------------------
\* An error has a message that the virtual machine or the node wrote; one whose
\* message ends in a code is a revert failure, named by the error reporter.
NoError == [type |-> "none", by |-> "", name |-> ""]
InvokationError(by) == [type |-> "error", by |-> by, name |-> ""]
RevertFailure(code) ==
    [type |-> "revert failure", by |-> "revert", name |-> GetError(reporter, code)]

(* Mutant of FailuresOf: a failure of a transaction that was mined is overlooked. *)
NoFailures(receipt) == << >>

FailuresOf(receipt) ==
    IF receipt.kind # "failure" THEN << >>
    ELSE LET c == receipt.codes
         IN  <<[error |-> GetError(reporter, c[1]), info |-> GetInfo(reporter, c[2]),
                detail |-> GetDetail(reporter, c[1], c[3])]>>
Invoked(receipt, error) ==
    [value |-> value, receipt |-> receipt, error |-> error, failures |-> FailuresOf(receipt),
     stale |-> stale, dry |-> dryRun]
Successful(report) == report.error.type = "none" /\ report.failures = << >>

Report(receipt, error) ==
    /\ reports' = Append(reports, Invoked(receipt, error))
    /\ n' = n + 1 /\ pc' = "estimate" /\ gas' = 0 /\ value' = NoAnswer /\ estimated' = NoAnswer
    /\ stale' = FALSE /\ UNCHANGED session

\* A dry run makes up a receipt without events.
DryRun == At("send") /\ dryRun /\ Report(Done, NoError) /\ UNCHANGED <<chain, gasCounter>>
Sends == At("send") /\ ~dryRun

SendIsMined ==
    /\ Sends /\ Fits(contract, gas)
    /\ effects' = IF contract = Done THEN effects \cup {n} ELSE effects
    /\ gasCounter' = gasCounter + Cost[contract.kind]
    /\ Report(contract, NoError) /\ UNCHANGED <<contract, lost, moves>>
SendReverts ==
    /\ Sends /\ ~Fits(contract, gas)
    /\ Report(NoAnswer, IF contract.kind = "coded" THEN RevertFailure(contract.codes[1])
                        ELSE InvokationError(IF Executes(contract) THEN "out of gas" ELSE "revert"))
    /\ UNCHANGED <<chain, gasCounter>>
SendIsRefused ==
    Sends /\ Report(NoAnswer, InvokationError("node")) /\ UNCHANGED <<chain, gasCounter>>
SendIsLost ==
    /\ Sends /\ lost' = lost \cup {n} /\ Report(NoAnswer, InvokationError("timeout"))
    /\ UNCHANGED <<contract, effects, moves, gasCounter>>

-----------------------------------------------------------------------------
LostIsMined ==
    \E t \in lost :
        /\ lost' = lost \ {t}
        /\ effects' = IF contract = Done THEN effects \cup {t} ELSE effects
        /\ UNCHANGED <<contract, moves, session, n, pc, gas, value, estimated, stale, reports,
                       gasCounter>>
OthersMove ==
    /\ moves < MaxMoves /\ moves' = moves + 1
    /\ contract' \in Answers /\ stale' = (pc = "send")
    /\ UNCHANGED <<effects, lost, session, n, pc, gas, value, estimated, reports, gasCounter>>

Invoke ==
    \/ TakeTotalGas \/ EstimateGas \/ EstimateIsLost \/ CallFunction \/ CallIsLost
    \/ DryRun \/ SendIsMined \/ SendReverts \/ SendIsRefused \/ SendIsLost
Next == Invoke \/ LostIsMined \/ OthersMove

\* Every request is answered or given up, in the end.
Spec == Init /\ [][Next]_vars /\ WF_vars(Invoke)

-----------------------------------------------------------------------------
\* The assertions on the last transaction (AssertionEvent.ts).
AssertSuccess(r) == Successful(r)
AssertFailure(r, failure) ==
    /\ ~Successful(r) /\ r.error.type = "none"
    /\ \E i \in DOMAIN r.failures : r.failures[i] = failure
AssertRevertFailure(r, name) ==
    ~Successful(r) /\ r.failures = << >> /\ r.error.type = "revert failure" /\ r.error.name = name
AssertError(r, by) == ~Successful(r) /\ r.failures = << >> /\ r.error.by = by

-----------------------------------------------------------------------------
TypeOK ==
    /\ contract \in Answers /\ effects \subseteq 1..MaxTransactions /\ lost \subseteq 1..MaxTransactions
    /\ n \in 1..(MaxTransactions + 1) /\ pc \in {"estimate", "call", "send"}
    /\ Len(reports) = n - 1 /\ gas \in Nat /\ gasCounter \in Nat
    /\ {value, estimated} \subseteq Answers \cup {NoAnswer} /\ stale \in BOOLEAN

\* A scenario is told the truth about its transactions (see Transactions). What
\* it is told of a lost one is an error.
Told(r) ==
    IF r.dry THEN "dry run"
    ELSE CASE r.error.by = "timeout" -> "lost"
           [] Successful(r) -> "success"
           [] OTHER -> "no success"
Told_ == [t \in 1..MaxTransactions |-> IF t \in DOMAIN reports THEN Told(reports[t]) ELSE "nothing"]
Abstract == INSTANCE Transactions WITH done <- effects, told <- Told_
TellsTheTruth == Abstract!Spec

\* Success, Failure and Error exclude each other and leave nothing out: one of
\* them holds of whatever was reported, and names what the contract did.
Holding(r) ==
    {a \in {"Success", "Failure", "Error"} :
        \/ a = "Success" /\ AssertSuccess(r)
        \/ a = "Failure" /\ \E i \in DOMAIN r.failures : AssertFailure(r, r.failures[i])
        \/ a = "Error" /\ \E by \in {"revert", "out of gas", "node", "timeout"} :
                              AssertError(r, by)}
OneAssertionHolds ==
    \A t \in DOMAIN reports :
        /\ Cardinality(Holding(reports[t])) = 1
        /\ \A name \in {GetError(reporter, c) : c \in Codes} :
               AssertRevertFailure(reports[t], name) => AssertError(reports[t], "revert")

\* The value of an invokation is the one the transaction itself produced, unless
\* the call failed or others moved the contract between the call and the send.
ValueIsOfTheTransaction ==
    \A t \in DOMAIN reports :
        LET r == reports[t]
        IN  r.receipt # NoAnswer /\ r.value # NoAnswer /\ ~r.stale /\ ~r.dry => r.value = r.receipt

\* With an estimate, a transaction runs out of gas only when the contract would
\* have answered otherwise at the time of the estimate.
GasSuffices ==
    pc \in {"call", "send"} /\ estimated = contract /\ Executes(contract) => Fits(contract, gas)

\* The error of a Failure event is named as the contract names it, and a detail
\* that comes from the Joetroller by the Joetroller's name.
ErrorsKeepTheirName ==
    \A t \in DOMAIN reports, c \in Failures :
        LET r == reports[t]
        IN  r.receipt = Declined(c) /\ ~r.dry /\ reporter = "JToken" =>
                /\ r.failures[1].error = TokenErrors[c[1] + 1]
                /\ r.failures[1].error = "JOETROLLER_REJECTION" =>
                       r.failures[1].detail = JoetrollerErrors[c[3] + 1]

-----------------------------------------------------------------------------
(* What the documentation of the assertions says, and the code does not do. *)

\* "Failure error info detail" - Asserts that last transaction had a graceful
\* failure with given error, info and detail: the info that the contract emitted.
InfosKeepTheirName ==
    \A t \in DOMAIN reports, c \in Failures :
        LET r == reports[t]
        IN  r.receipt = Declined(c) /\ ~r.dry =>
                /\ reporter = "JToken" => r.failures[1].info = ContractTokenInfo[c[2] + 1]
                /\ reporter = "Joetroller" => r.failures[1].info = ContractJoetrollerInfo[c[2] + 1]
===============================================================================
