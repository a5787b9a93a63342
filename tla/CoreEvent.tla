------------------------------ MODULE CoreEvent ------------------------------
(***************************************************************************)
(* The interpreter of scenario events (src/scenario/src/CoreEvent.ts with  *)
(* the Trx, Invariant, Expectation and Assertion events, Runner.ts and     *)
(* Repl.ts). A line is a few events; each is processed to its end, then    *)
(* the invariants and the expectations are checked. An event that wraps    *)
(* another hands it on, with another sender or other transaction options;  *)
(* an event is modelled as the sequence of what wraps it, outermost first, *)
(* that ends with the event inside.                                        *)
(*                                                                         *)
(* The chain is outside: contracts with one value each that events can     *)
(* read, changed by transactions and by the passing of blocks.             *)
(***************************************************************************)
EXTENDS World

CONSTANTS
    Sessions,     \* the sessions to try, by name: see below
    DefaultFrom,  \* the default account
    MaxValue      \* bound of the value that is read from the chain

VARIABLES
    session,      \* the name of the session
    committed,    \* the world the line started from
    world,        \* the world of the event in process
    objects,      \* the invariants, shared by all worlds
    me,           \* settings.aliases["Me"], shared as well, or ""
    line,         \* events of the line that are still to come
    now, from,    \* what is still to be processed of it, and for whom
    event,        \* the whole event, as setEvent keeps it
    stage,        \* where processEvents stands
    values, block,   \* the chain: the value of each contract
    sent,         \* transactions the chain has seen
    spared        \* invariants held since they were last checked and let pass

chain == <<values, block, sent>>
vars == <<session, committed, world, objects, me, line, now, from, event, stage,
          values, block, sent, spared>>

\* The lines that can be typed or stand in the script, sequences of events; the
\* Repl or a script; network "coverage", where reverts carry no error code.
Lines == Sessions[session].lines
Interactive == Sessions[session].interactive
OnCoverage == Sessions[session].onCoverage
\* Bounds of the transactions, of the invariants and of the expectations, and of
\* the block number.
MaxActions == Sessions[session].maxActions
MaxObjects == Sessions[session].maxObjects
MaxBlock == Sessions[session].maxBlock

NoEvent == << >>
Wrapper == {"From", "Trx", "Gate", "Given"}
IsEvent(e) ==
    /\ e \in Seq(Range(e)) /\ e # NoEvent
    /\ \A i \in DOMAIN e : e[i].do \in Wrapper <=> i < Len(e)

\* Whatever is typed is a list of whole events, and the watched value is a number.
ASSUME SessionsAssumption ==
    /\ MaxValue \in Nat
    /\ \A s \in DOMAIN Sessions : \A l \in Sessions[s].lines :
          l \in Seq(Range(l)) /\ \A i \in DOMAIN l : IsEvent(l[i])

Idle == stage = "idle" /\ line = << >>

\* getCoreValue of the watched value: it cannot be read before the world knows
\* the contract.
Unreadable == -1
Known == world.contract # 0
Reading == IF Known THEN values[world.contract] ELSE Unreadable
DefaultSender == IF me # "" THEN me ELSE DefaultFrom

\* The Repl loads the contracts of earlier sessions.
Init ==
    /\ session \in DOMAIN Sessions
    /\ values \in IF Interactive THEN {<< >>, <<0>>} ELSE {<< >>}
    /\ world = [InitWorld EXCEPT !.contract = Len(values)]
    /\ committed = world
    /\ objects = InitObjects
    /\ me = ""
    /\ line = << >>
    /\ now = NoEvent /\ event = NoEvent /\ from = ""
    /\ stage = "idle"
    /\ block = 0 /\ sent = << >>
    /\ spared = {}

-----------------------------------------------------------------------------
(* Lines, and the frame of processEvents around each event. *)

ReadLine ==
    /\ Idle /\ UNCHANGED session
    /\ line' \in Lines
    /\ Len(sent) + Len(line') <= MaxActions
    /\ Len(objects) + Len(line') <= MaxObjects
    /\ Cardinality(world.expectations) + Len(line') <= MaxObjects
    /\ committed' = world
    /\ UNCHANGED <<world, objects, me, now, from, event, stage, chain, spared>>

NextEvent ==
    /\ stage = "idle" /\ line # << >>
    /\ now' = Head(line) /\ event' = Head(line)
    /\ line' = Tail(line)
    /\ from' = DefaultSender
    /\ stage' = "processing"
    /\ UNCHANGED <<session, committed, world, objects, me, chain, spared>>

\* An error ends the line. A script stops; the Repl prints the error and goes
\* on from the world it had before the line.
Fail ==
    /\ now' = NoEvent /\ event' = NoEvent /\ from' = ""
    /\ line' = << >>
    /\ stage' = IF Interactive THEN "idle" ELSE "aborted"
    /\ world' = IF Interactive THEN committed ELSE world
    /\ UNCHANGED <<session, committed>>

\* The event is done: on to the checks, with the world it made.
Done(w) ==
    /\ world' = w
    /\ now' = NoEvent
    /\ stage' = "checking"
    /\ UNCHANGED <<session, committed, line, from, event>>

CheckInvariants ==
    /\ stage = "checking"
    /\ IF InvariantsHold(world, objects, Reading)
       THEN /\ objects' = IF world.newInvokation THEN ReleaseInvariants(world, objects) ELSE objects
            /\ stage' = "checked"
            /\ UNCHANGED <<session, committed, world, line, now, from, event>>
       ELSE Fail /\ UNCHANGED objects
    /\ UNCHANGED <<me, chain, spared>>

CheckExpectations ==
    /\ stage = "checked"
    /\ IF ExpectationsHold(world, Reading)
       THEN /\ world' = AfterCheck(world)
            /\ spared' = IF world.newInvokation THEN spared \ world.invariants ELSE spared
            /\ event' = NoEvent /\ from' = ""
            /\ stage' = "idle"
            /\ UNCHANGED <<session, committed, line, now>>
       ELSE Fail /\ UNCHANGED spared
    /\ UNCHANGED <<objects, me, chain>>

-----------------------------------------------------------------------------
(* Events that wrap another one. *)

This == Head(now)
Processing(do) == stage = "processing" /\ This.do = do

HandOn(w, sender) ==
    /\ now' = Tail(now)
    /\ from' = sender
    /\ world' = w
    /\ UNCHANGED <<session, committed, objects, me, line, event, stage, chain, spared>>

Leave == Done(world) /\ UNCHANGED <<objects, me, chain, spared>>

From == Processing("From") /\ HandOn(world, This.account)

Trx ==
    /\ Processing("Trx")
    /\ HandOn([world EXCEPT !.trxInvokationOpts[This.opt] = This.amount], from)

\* A value that cannot be read counts as falsy; so does zero.
Truthy == Reading \notin {Unreadable, 0}

(* Mutant of Gate: when it is shut, nobody goes on. *)
GateWaits == Processing("Gate") /\ ~Truthy /\ HandOn(world, from)

Gate == Processing("Gate") /\ (IF Truthy THEN Leave ELSE HandOn(world, from))
Given == Processing("Given") /\ (IF Truthy THEN HandOn(world, from) ELSE Leave)

-----------------------------------------------------------------------------
(* Events that send transactions. *)

Sent(outcome, opts) ==
    sent' = Append(sent, [outcome |-> outcome, from |-> from, opts |-> opts])

\* Only a successful transaction changes what the chain holds.
Invoke ==
    /\ Processing("Invoke") /\ Known
    /\ \E outcome \in Outcomes, v \in 0 .. MaxValue :
          /\ outcome # "success" => v = Reading
          /\ values' = [values EXCEPT ![world.contract] = v]
          /\ Sent(outcome, world.trxInvokationOpts)
          /\ Done(AddAction(world, outcome))
    /\ UNCHANGED <<objects, me, block, spared>>

\* A contract that the world does not know cannot be called.
InvokeUnknown ==
    /\ Processing("Invoke") /\ ~Known
    /\ Fail /\ UNCHANGED <<objects, me, chain, spared>>

\* A deployment is recorded without its invokation, and makes the contract
\* known under its name; one that fails throws.
Deploy ==
    /\ Processing("Deploy")
    /\ \/ /\ values' = Append(values, 0)
          /\ Sent(NoInvokation, NoOpts)
          /\ Done(AddAction([world EXCEPT !.contract = Len(values) + 1], NoInvokation))
       \/ Fail /\ UNCHANGED <<values, sent>>
    /\ UNCHANGED <<objects, me, block, spared>>

-----------------------------------------------------------------------------
(* Invariants and expectations. *)

(* Mutant of NewObject: off by one. *)
NewObjectMisnumbered(kind, v) ==
    /\ objects' = Append(objects, Object(kind, v))
    /\ Done(AddInvariant(world, Len(objects) + 2))

NewObject(kind, v) ==
    /\ objects' = Append(objects, Object(kind, v))
    /\ Done(AddInvariant(world, Len(objects) + 1))

InvariantEvent ==
    /\ Processing("Invariant")
    /\ \/ This.kind = "Success" /\ NewObject("Success", 0)
       \/ This.kind = "Static" /\ Known /\ NewObject("Static", Reading)
       \/ This.kind = "Remains" /\ Reading = This.value /\ NewObject("Remains", This.value)
       \/ /\ \/ This.kind = "Static" /\ ~Known
             \/ This.kind = "Remains" /\ Reading # This.value
          /\ Fail /\ UNCHANGED objects
    /\ UNCHANGED <<me, chain, spared>>

ExpectEvent ==
    /\ Processing("Expect")
    /\ LET v == IF This.kind = "Changes" THEN Reading + This.value ELSE This.value
           at == Len(world.actions)
       IN  IF Known /\ (This.kind = "Remains" => Reading = This.value)
           THEN Done(AddExpectation(world, [value |-> v, at |-> at]))
           ELSE Fail
    /\ UNCHANGED <<objects, me, chain, spared>>

HoldEvent ==
    /\ Processing("HoldInvariants")
    /\ objects' = HoldInvariants(world, objects, This.type)
    /\ spared' = spared \cup {id \in world.invariants : InvariantFilter(This.type, objects[id].kind)}
    /\ Done(world)
    /\ UNCHANGED <<me, chain>>

ClearEvent ==
    /\ Processing("ClearInvariants")
    /\ Done(ClearInvariants(world, objects, This.type))
    /\ UNCHANGED <<objects, me, chain, spared>>

-----------------------------------------------------------------------------
(* Assertions about the last invokation (AssertionEvent.ts). Whether the    *)
(* error and the message are the expected ones is left open.                *)

AssertPasses(kind, last) ==
    CASE kind = "Success" -> last \in {NoInvokation, "success"}
      [] kind = "Failure" -> last = "failure"
      [] kind = "RevertFailure" /\ ~OnCoverage -> last = "revert failure"
      [] OTHER -> last \in {"error", "revert failure"}

AssertEvent ==
    /\ Processing("Assert")
    /\ \E matches \in BOOLEAN :
          IF AssertPasses(This.kind, world.lastInvokation) /\ (matches \/ This.kind = "Success")
          THEN Done(world) ELSE Fail
    /\ UNCHANGED <<objects, me, chain, spared>>

-----------------------------------------------------------------------------
(* The other commands. *)

Alias ==
    /\ Processing("Alias")
    /\ me' = This.account
    /\ Done(world)
    /\ UNCHANGED <<objects, chain, spared>>

Throw == Processing("Throw") /\ Fail /\ UNCHANGED <<objects, me, chain, spared>>

History ==
    /\ Processing("History")
    /\ IF Printable(world, This.n) THEN Done(world) ELSE Fail
    /\ UNCHANGED <<objects, me, chain, spared>>

\* Blocks pass, and interest with them.
Mined(n) ==
    /\ block' = IF n <= MaxBlock THEN n ELSE MaxBlock
    /\ values' \in {values, [c \in DOMAIN values |-> (values[c] + 1) % (MaxValue + 1)]}

AdvanceBlocks ==
    /\ Processing("AdvanceBlocks")
    /\ Mined(block + This.n)
    /\ Done(world)
    /\ UNCHANGED <<objects, me, sent, spared>>

\* SleepUntilBlock asks for the block number until it is reached.
SleepUntilBlock ==
    /\ Processing("SleepUntilBlock")
    /\ block >= This.n
    /\ Leave

Mine ==
    /\ block < MaxBlock
    /\ Mined(block + 1)
    /\ UNCHANGED <<session, committed, world, objects, me, line, now, from, event, stage,
                   sent, spared>>

-----------------------------------------------------------------------------
Step ==
    \/ NextEvent \/ CheckInvariants \/ CheckExpectations
    \/ From \/ Trx \/ Gate \/ Given
    \/ Invoke \/ InvokeUnknown \/ Deploy
    \/ InvariantEvent \/ ExpectEvent \/ HoldEvent \/ ClearEvent \/ AssertEvent
    \/ Alias \/ Throw \/ History \/ AdvanceBlocks \/ SleepUntilBlock

Next == ReadLine \/ Step \/ Mine

\* Every await of the interpreter is answered, and the networks it sleeps on
\* mine by themselves; nobody has to type another line.
Spec == Init /\ [][Next]_vars /\ WF_vars(Step) /\ WF_vars(Mine)

-----------------------------------------------------------------------------
\* Every variable has its type.
TypeOK ==
    /\ stage \in {"idle", "processing", "checking", "checked", "aborted"}
    /\ \A w \in {world, committed} :
          /\ w.contract \in 0 .. Len(values)
          /\ w.invariants \subseteq DOMAIN objects
          /\ Range(w.actions) \subseteq Outcomes \cup {NoInvokation}
    /\ \A id \in DOMAIN objects : objects[id].kind \in Kinds /\ objects[id].held \in BOOLEAN
    /\ Range(values) \subseteq 0 .. MaxValue
    /\ spared \subseteq DOMAIN objects
    /\ stage = "aborted" => ~Interactive

\* A transaction is only accepted if every invariant that no HoldInvariants
\* since its last check spared does hold after it: no failure and no drift of a
\* watched value passes unnoticed (checkInvariants).
NothingPassesUnnoticed ==
    [][ (stage = "checking" /\ stage' = "checked" /\ world.newInvokation)
          => \A id \in world.invariants \ spared :
                InvariantHolds(world, objects[id], Reading) ]_vars

\* A hold covers one check and not the next: what is held was asked for since
\* the invariant was last checked and let pass, even if a line of the Repl that
\* failed brought back a world in which it was not checked (checkInvariants).
HoldsCoverOneTransaction ==
    stage = "idle" => \A id \in DOMAIN objects : objects[id].held => id \in spared

\* An expectation is checked at the first transaction after it: none is still
\* waiting when another transaction was recorded (checkExpectations).
ExpectationsAreDue ==
    stage = "idle" =>
        \A expectation \in world.expectations : expectation.at = Len(world.actions)

\* The sender and the options of a transaction are those of the wrappers in its
\* own event, the innermost deciding, whatever was processed before, what
\* failed, and which gates were shut (Trx, From, the reset in processEvents). In
\* a script the actions of the world are the transactions, one for one and in
\* order, so that every assertion is about the last transaction.
Latest(S) == CHOOSE i \in S : \A j \in S : j <= i
Froms(e) == {i \in DOMAIN e : e[i].do = "From"}
Trxs(e, opt) == {i \in DOMAIN e : e[i].do = "Trx" /\ e[i].opt = opt}
SenderOf(e) == IF Froms(e) = {} THEN DefaultSender ELSE e[Latest(Froms(e))].account
OptsOf(e) ==
    [opt \in Options |-> IF Trxs(e, opt) = {} THEN 0 ELSE e[Latest(Trxs(e, opt))].amount]

TransactionsCarryTheirEvent ==
    [][ (Processing("Invoke") /\ sent' # sent)
          => /\ Last(sent').from = SenderOf(event)
             /\ Last(sent').opts = OptsOf(event)
             /\ ~Interactive =>
                   world'.actions = [i \in DOMAIN sent' |-> sent'[i].outcome] ]_vars

\* Every line is worked off or refused.
EveryLineEnds == stage # "idle" ~> (stage = "aborted" \/ Idle)

-----------------------------------------------------------------------------
(* What the documentation of the commands says, and the code does not do.  *)

\* "HoldInvariants Success" - Skips "success" invariants.
HoldSparesItsKind ==
    [][ (Processing("HoldInvariants") /\ stage' = "checking")
          => \A id \in world.invariants :
                (This.type = "All" \/ objects[id].kind = This.type) => objects'[id].held ]_vars
===============================================================================
