-------------------------------- MODULE World --------------------------------
(***************************************************************************)
(* The state of the scenario runner (src/scenario/src/World.ts) and the    *)
(* checks it makes on it. A world is a value: an event makes a new one, and *)
(* the old one is still there when the event fails. The invariants it      *)
(* refers to are not: they are objects that every world shares, and their  *)
(* flag "held" is changed in place.                                        *)
(***************************************************************************)
EXTENDS Integers, Sequences, SequencesExt, FiniteSets

\* What became of a transaction, as Invokation.ts tells it; a deployment is
\* recorded without an invokation.
Outcomes == {"success", "failure", "revert failure", "error"}
NoInvokation == "none"
Succeeded(outcome) == outcome = "success"

Kinds == {"Success", "Remains", "Static"}
Types == Kinds \cup {"All"}

Options == {"value", "gasPrice"}
NoOpts == [opt \in Options |-> 0]

InitWorld ==
    [actions |-> << >>,          \* what was recorded, in order
     lastInvokation |-> NoInvokation,
     newInvokation |-> TRUE,
     invariants |-> {1},         \* indices into the shared objects
     expectations |-> {},
     trxInvokationOpts |-> NoOpts,
     contract |-> 0]             \* the contract that contractData names, 0 for none

\* The shared objects at the start: the one success invariant.
Object(kind, value) == [kind |-> kind, value |-> value, held |-> FALSE]
InitObjects == <<Object("Success", 0)>>

AddAction(world, outcome) ==
    [world EXCEPT !.actions = Append(@, outcome),
                  !.lastInvokation = outcome,
                  !.newInvokation = TRUE]
AddInvariant(world, id) == [world EXCEPT !.invariants = @ \cup {id}]
AddExpectation(world, expectation) == [world EXCEPT !.expectations = @ \cup {expectation}]

\* The filter of a type lets through what is not of that type; "all" lets
\* through everything. The filtered invariants are the ones that are held, and
\* the ones that are kept when invariants are cleared.
InvariantFilter(type, kind) == type = "All" \/ kind # type

ClearInvariants(world, objects, type) ==
    [world EXCEPT !.invariants = {id \in @ : InvariantFilter(type, objects[id].kind)}]
(* Mutant of HoldInvariants: whatever the type, everything is held. *)
HoldAllInvariants(world, objects, type) ==
    [id \in DOMAIN objects |->
        IF id \in world.invariants THEN [objects[id] EXCEPT !.held = TRUE] ELSE objects[id]]

HoldInvariants(world, objects, type) ==
    [id \in DOMAIN objects |->
        IF id \in world.invariants /\ InvariantFilter(type, objects[id].kind)
        THEN [objects[id] EXCEPT !.held = TRUE] ELSE objects[id]]
(* Mutant of ReleaseInvariants: what is held stays held. *)
ReleaseNothing(world, objects) == objects

ReleaseInvariants(world, objects) ==
    [id \in DOMAIN objects |->
        IF id \in world.invariants THEN [objects[id] EXCEPT !.held = FALSE]
                                          ELSE objects[id]]

\* What an invariant asks of the world and of the value it watches.
InvariantHolds(world, object, reading) ==
    IF object.kind = "Success"
    THEN world.lastInvokation = NoInvokation \/ Succeeded(world.lastInvokation)
    ELSE reading = object.value

ExpectationHolds(expectation, reading) == reading = expectation.value

InvariantsHold(world, objects, reading) ==
    world.newInvokation =>
        \A id \in world.invariants :
            objects[id].held \/ InvariantHolds(world, objects[id], reading)
ExpectationsHold(world, reading) ==
    world.newInvokation =>
        \A expectation \in world.expectations : ExpectationHolds(expectation, reading)

(* Mutants of AfterCheck: the expectations stay, the options of a transaction stay. *)
AfterCheckKeepingExpectations(world) ==
    [world EXCEPT !.trxInvokationOpts = NoOpts, !.newInvokation = FALSE]
AfterCheckKeepingOptions(world) ==
    [world EXCEPT !.expectations = IF world.newInvokation THEN {} ELSE @,
                  !.newInvokation = FALSE]

\* After a check the holds are over and the expectations are gone.
AfterCheck(world) ==
    [world EXCEPT !.expectations = IF world.newInvokation THEN {} ELSE @,
                  !.trxInvokationOpts = NoOpts,
                  !.newInvokation = FALSE]

\* Action.toString reads the invokation of every action it prints.
Printable(world, n) ==
    \A i \in DOMAIN world.actions : i <= n => world.actions[i] # NoInvokation
===============================================================================
