-------------------------------- MODULE Language --------------------------------
(***************************************************************************)
(* The events of the scenarios. Each event finds its command and its           *)
(* arguments (Command), is carried out on a contract (ContractEvents) or by   *)
(* a generated command (EventBuilder); the events inside it are read as       *)
(* values (ContractValues), and assertions compare these (Values).            *)
(*                                                                            *)
(* The interpreter is one thread that awaits whatever it starts: one of the   *)
(* parts is at work, the others are not, and what a part works on when it      *)
(* starts is whatever the part before it may have left.                        *)
(***************************************************************************)
EXTENDS CommandTables, ContractViews

CONSTANTS
    Tables, Events, Senders, NoSender, Readable,     \* Command
    Numbers, Safe, Tens, Texts, Spellings, Checksum, \* Values
    Generated, Names, Inputs, MaxEvents,             \* EventBuilder
    Words,                                           \* ContractEvents
    ViewWords, MaxVotes                              \* ContractValues

VARIABLES
    part,                                            \* the part at work
    table, event, status, expr, given, stage, sent,  \* of several parts
    kind, wanted, class, said, call,                 \* of both contract parts
    from, bound, rest,
    asserted, expected, verdict,
    abi, known, inputs, events,
    local, dryRun, plan, recorded, contracts,
    last, votes, counted, result

onlyCommand == <<from, bound, rest>>
onlyValues == <<asserted, expected, verdict>>
onlyBuilder == <<abi, known, inputs, events>>
onlyAct == <<local, dryRun, plan, recorded, contracts>>
onlyRead == <<last, votes, counted, result>>
onContract == <<kind, wanted, class, said, call>>
shared == <<table, event, status, expr, given, stage, sent>>
vars == <<part, shared, onContract, onlyCommand, onlyValues, onlyBuilder, onlyAct, onlyRead>>

C == INSTANCE Command
A == INSTANCE Values
B == INSTANCE EventBuilder
E == INSTANCE ContractEvents
V == INSTANCE ContractValues WITH Words <- ViewWords

\* The rows of a table declare their arguments one after the other, and what is
\* wrapped in an event is an event.
ASSUME EventsAssumption ==
    /\ \A rows \in Tables :
          /\ IsSequence(rows)
          /\ \A i \in DOMAIN rows : rows[i].namePos \in Nat /\ IsSequence(rows[i].args)
    /\ \A e \in Events : IsSequence(e.list) /\ (C!Wrapped(e) => e.list[1] \in Events)

\* Numbers from 2^53 on lose a digit, and 2^53 itself does not; Tens are the powers
\* of ten, with one above all numbers.
ASSUME NumbersAssumption ==
    /\ Safe \in Nat /\ Safe % 10 = 0
    /\ Tens \in Seq(Nat) /\ Len(Tens) >= 2 /\ Tens[1] = 1
    /\ \A i \in 1 .. Len(Tens) - 1 : Tens[i + 1] = 10 * Tens[i]
    /\ Numbers \subseteq 0 .. Tens[Len(Tens)] - 1

ASSUME VotesAssumption == MaxVotes \in Nat

-----------------------------------------------------------------------------
(* The variables that a part does not have. *)

notCommand == <<given, stage, sent, onContract, onlyValues, onlyBuilder, onlyAct, onlyRead>>
notValues == <<table, event, status, expr, stage, sent, onContract, onlyCommand,
               onlyBuilder, onlyAct, onlyRead>>
notBuilder == <<status, expr, given, onContract, onlyCommand, onlyValues, onlyAct, onlyRead>>
notAct == <<table, status, onlyCommand, onlyValues, onlyBuilder, onlyRead>>
notRead == <<table, status, sent, onlyCommand, onlyValues, onlyBuilder, onlyAct>>

None == "none"
NoContract == kind = None /\ wanted = None /\ class = None /\ said = None /\ call = None
NoCommand == from = None /\ bound = None /\ rest = None
NoValues == asserted = None /\ expected = None /\ verdict = None
NoBuilder == abi = None /\ known = None /\ inputs = None /\ events = None
NoAct == local = None /\ dryRun = None /\ plan = None /\ recorded = None /\ contracts = None
NoRead == last = None /\ votes = None /\ counted = None /\ result = None

Init ==
    \/ /\ part = "command" /\ C!Init
       /\ given = None /\ stage = None /\ sent = None
       /\ NoContract /\ NoValues /\ NoBuilder /\ NoAct /\ NoRead
    \/ /\ part = "values" /\ A!Init
       /\ table = None /\ event = None /\ status = None /\ expr = None /\ stage = None /\ sent = None
       /\ NoContract /\ NoCommand /\ NoBuilder /\ NoAct /\ NoRead
    \/ /\ part = "builder" /\ B!Init
       /\ status = None /\ expr = None /\ given = None
       /\ NoContract /\ NoCommand /\ NoValues /\ NoAct /\ NoRead
    \/ /\ part = "act" /\ E!Init
       /\ table = None /\ status = None
       /\ NoCommand /\ NoValues /\ NoBuilder /\ NoRead
    \/ /\ part = "read" /\ V!Init
       /\ table = None /\ status = None /\ sent = None
       /\ NoCommand /\ NoValues /\ NoBuilder /\ NoAct

-----------------------------------------------------------------------------
InCommand == part = "command" /\ UNCHANGED <<part, notCommand>>
InValues == part = "values" /\ UNCHANGED <<part, notValues>>
InBuilder == part = "builder" /\ UNCHANGED <<part, notBuilder>>
InAct == part = "act" /\ UNCHANGED <<part, notAct>>
InRead == part = "read" /\ UNCHANGED <<part, notRead>>

CommandStep ==
    \/ InCommand /\ C!Unwrap
    \/ InCommand /\ C!FindCommand
    \/ InCommand /\ C!UnknownCommand
    \/ InCommand /\ C!BindNothing
    \/ InCommand /\ C!BindVariadic
    \/ InCommand /\ C!BindImplicit
    \/ InCommand /\ C!BindAbsent
    \/ InCommand /\ C!BindPresent
    \/ InCommand /\ C!Process

ValuesStep ==
    \/ InValues /\ A!AssertEqual
    \/ InValues /\ A!AssertLessThan
    \/ InValues /\ A!AssertGreaterThan

BuilderStep ==
    \/ InBuilder /\ B!GetCommands
    \/ InBuilder /\ B!Deploy
    \/ InBuilder /\ B!Bind
    \/ InBuilder /\ B!Call

ActStep ==
    \/ InAct /\ E!FindCommand
    \/ InAct /\ E!FindBuilder
    \/ InAct /\ E!ResolveFails
    \/ InAct /\ E!Look
    \/ InAct /\ E!LookFails
    \/ InAct /\ E!SelectNothing
    \/ InAct /\ E!Prepare
    \/ InAct /\ E!CallUnknown
    \/ InAct /\ E!Invoke
    \/ InAct /\ E!MergeFails
    \/ InAct /\ E!DeployUnknown
    \/ InAct /\ E!DeployFails
    \/ InAct /\ E!SaveFails
    \/ InAct /\ E!Deploy

ReadStep ==
    \/ InRead /\ V!FindView
    \/ InRead /\ V!ResolveFails
    \/ InRead /\ V!SelectNothing
    \/ InRead /\ V!Answer
    \/ InRead /\ V!NoAnswer
    \/ InRead /\ V!Prepare
    \/ InRead /\ V!CallUnknown
    \/ InRead /\ V!CallFails
    \/ InRead /\ V!CallReturns
    \/ InRead /\ V!ReadCheckpoint
    \/ InRead /\ V!NoCheckpoint
    \/ InRead /\ V!ReadCheckpoints

Work == CommandStep \/ ValuesStep \/ BuilderStep \/ ActStep \/ ReadStep
\* What does not have to happen: another line is typed, someone delegates.
Outside ==
    \/ InBuilder /\ B!ReadEvent
    \/ InRead /\ V!OthersVote
Next == Work \/ Outside

Spec == Init /\ [][Next]_vars

-----------------------------------------------------------------------------
\* Every variable of the part at work has its type, and an event that is turned
\* away is turned away for the reason that is given (Command.ts).
TypeOK ==
    /\ part = "command" => C!TypeOK
    /\ part = "builder" => B!TypeOK
    /\ part = "act" => E!TypeOK
    /\ part = "read" => V!TypeOK

\* No event is dropped or read twice, every argument gets its share of the events
\* and no more, and no list that a signature admits is turned away (getArgs).
ArgumentsGetTheirShare ==
    part = "command" => C!NoEventIsLost /\ C!ArgumentsGetTheirShare /\ C!OnlyIllegalListsRefused

\* An event goes to the first command that matches, and in the tables of the
\* contracts this is the one it was written for: no row hides another, at either
\* place of the name, in Event/*.ts, Builder/*.ts, Value/*.ts and CoreValue.ts.
EventsReachTheirRow ==
    /\ part = "command" => C!FirstCommandDecides
    /\ part = "act" => E!EventsReachTheirCommand
    /\ part = "read" => V!EventsReachTheirView

\* The handlers, builders and views fit the contracts they call: there is a
\* contract with the function, the parameters are the arguments of the event, the
\* constructor is that of the class, an error is read with the codes of whoever
\* reports it and an answer as the type that is returned; two calls that make one
\* value agree; and what is sent is recorded, unless a deployment or a Become throws.
CallsFitTheContracts ==
    /\ part = "act" =>
          /\ E!EveryCallHasAReceiver /\ E!ArgumentsReachTheContract
          /\ E!DeploymentsFitTheirConstructor /\ E!FailuresAreReadRight /\ E!WhatIsSentIsRecorded
    /\ part = "read" =>
          /\ V!EveryViewHasAReceiver /\ V!ViewsUseTheirArguments
          /\ V!ResultsAreReadAsTheirType /\ V!VotesAreOfOneMoment

\* An assertion that passes says something true of the values it compares, and
\* values of one type can be compared (compareTo, compareOrder).
ComparisonsAreSound ==
    part = "values" => A!EqualMeansSame /\ A!OrderIsSound /\ A!SameTypesCompare
================================================================================
