-------------------------------- MODULE Macro --------------------------------
(***************************************************************************)
(* Macros of the scenario language (src/scenario/src/Macro.ts and the same *)
(* functions in Parser.ts): a script is a sequence of macro and test       *)
(* definitions; the steps of a test are expanded with the macros defined   *)
(* before it, each expansion again, until no step is headed by a macro.    *)
(***************************************************************************)
EXTENDS Expression, SequencesExt

CONSTANTS
    Scripts,   \* the scripts to parse: sequences of definitions
    TestWords  \* the words that tests use on their own account

VARIABLES script, macros, tests, current, todo, expanded, status

vars == <<script, macros, tests, current, todo, expanded, status>>

-----------------------------------------------------------------------------
(* getArgValues *)

Indexed(items) == SelectSeq(items, LAMBDA item : ~IsNamed(item))
NamedIndices(items, arg) == {i \in DOMAIN items : IsNamed(items[i]) /\ items[i].list[1].word = arg}
ByName(items, arg) == items[Max(NamedIndices(items, arg))].list[2]

HasValue(decl, i, items) ==
    \/ NamedIndices(items, decl.arg) # {}
    \/ decl.splat
    \/ i \in DOMAIN Indexed(items)
    \/ decl.def # NoDefault

ArgValue(decl, i, items) ==
    CASE NamedIndices(items, decl.arg) # {} -> ByName(items, decl.arg)
      [] NamedIndices(items, decl.arg) = {} /\ decl.splat ->
             List(SubSeq(Indexed(items), i, Len(Indexed(items))))
      [] NamedIndices(items, decl.arg) = {} /\ ~decl.splat /\ i \in DOMAIN Indexed(items) ->
             Indexed(items)[i]
      [] OTHER -> decl.def

UsesSplat(decl, items) == decl.splat /\ NamedIndices(items, decl.arg) = {}

ArgumentError(args, items) ==
    \/ \E i, j \in DOMAIN items : i < j /\ IsNamed(items[i]) /\ ~IsNamed(items[j])
    \/ \E i, j \in DOMAIN args : i < j /\ UsesSplat(args[i], items)
    \/ \E i \in DOMAIN args : ~HasValue(args[i], i, items)

ArgValues(args, items) ==
    [a \in {args[i].arg : i \in DOMAIN args} |->
        LET i == Max({j \in DOMAIN args : args[j].arg = a}) IN ArgValue(args[i], i, items)]

-----------------------------------------------------------------------------
(* expandMacro *)

\* A token is looked up by its text; a list of one word reads like the word.
RECURSIVE TextOf(_)
TextOf(token) ==
    CASE IsList(token) /\ Len(token.list) = 1 -> TextOf(token.list[1])
      [] IsList(token) /\ Len(token.list) # 1 -> ""
      [] OTHER -> token.word

RECURSIVE ExpandStep(_, _)
ExpandStep(values, token) ==
    CASE TextOf(token) \in DOMAIN values -> values[TextOf(token)]
      [] TextOf(token) \notin DOMAIN values /\ IsList(token) ->
             List([i \in DOMAIN token.list |-> ExpandStep(values, token.list[i])])
      [] OTHER -> token

\* The tokens of a step are looked up one by one, never the step as a whole.
ExpandMacro(macro, items) ==
    LET values == ArgValues(macro.args, items)
    IN  [s \in DOMAIN macro.steps |->
            List([i \in DOMAIN macro.steps[s].list |->
                     ExpandStep(values, macro.steps[s].list[i])])]

-----------------------------------------------------------------------------
Init ==
    /\ script \in Scripts
    /\ macros = << >>
    /\ tests = << >>
    /\ current = ""
    /\ todo = << >>
    /\ expanded = << >>
    /\ status = "parsing"

Set(f, key, value) == [k \in DOMAIN f \cup {key} |-> IF k = key THEN value ELSE f[k]]

Parsing == status = "parsing" /\ script # << >>

\* addTopLevelEl: a macro replaces an earlier one of the same name.
DefineMacro ==
    /\ Parsing /\ Head(script).type = "macro"
    /\ macros' = Set(macros, Head(script).name,
                     [args |-> Head(script).args, steps |-> Head(script).steps])
    /\ script' = Tail(script)
    /\ UNCHANGED <<tests, current, todo, expanded, status>>

BeginTest ==
    /\ Parsing /\ Head(script).type = "test"
    /\ current' = Head(script).name
    /\ todo' = Head(script).steps
    /\ expanded' = << >>
    /\ script' = Tail(script)
    /\ status' = "expanding"
    /\ UNCHANGED <<macros, tests>>

Expanding == status = "expanding" /\ todo # << >>
MacroName == TextOf(Head(todo).list[1])
Items == Tail(Head(todo).list)

(* Mutant of ExpandEvent: what was expanded is put behind what follows. *)
ExpandEventAtTheEnd ==
    /\ Expanding /\ MacroName \in DOMAIN macros
    /\ ~ArgumentError(macros[MacroName].args, Items)
    /\ todo' = Tail(todo) \o ExpandMacro(macros[MacroName], Items)
    /\ UNCHANGED <<script, macros, tests, current, expanded, status>>

\* expandEvent: the expansion takes the place of the event and is itself
\* expanded before what follows.
ExpandEvent ==
    /\ Expanding
    /\ MacroName \in DOMAIN macros
    /\ ~ArgumentError(macros[MacroName].args, Items)
    /\ todo' = ExpandMacro(macros[MacroName], Items) \o Tail(todo)
    /\ UNCHANGED <<script, macros, tests, current, expanded, status>>

RefuseEvent ==
    /\ Expanding
    /\ MacroName \in DOMAIN macros
    /\ ArgumentError(macros[MacroName].args, Items)
    /\ status' = "failed"
    /\ UNCHANGED <<script, macros, tests, current, todo, expanded>>

KeepEvent ==
    /\ Expanding
    /\ MacroName \notin DOMAIN macros
    /\ expanded' = Append(expanded, Head(todo))
    /\ todo' = Tail(todo)
    /\ UNCHANGED <<script, macros, tests, current, status>>

FinishTest ==
    /\ status = "expanding" /\ todo = << >>
    /\ tests' = Set(tests, current, expanded)
    /\ status' = "parsing"
    /\ UNCHANGED <<script, macros, current, todo, expanded>>

Next == DefineMacro \/ BeginTest \/ ExpandEvent \/ RefuseEvent \/ KeepEvent \/ FinishTest

\* Parsing is one synchronous computation.
Spec == Init /\ [][Next]_vars /\ WF_vars(Next)

-----------------------------------------------------------------------------
\* Every variable has its type.
TypeOK ==
    /\ status \in {"parsing", "expanding", "failed"}
    /\ \A m \in DOMAIN macros : DOMAIN macros[m] = {"args", "steps"}
    /\ status = "parsing" => todo = << >>
    /\ \A i \in DOMAIN todo : IsList(todo[i])

\* No step of a test is left to be taken for a command although a macro of its
\* name was defined before (expandEvent expands what an expansion returns).
NoMacroIsLeft ==
    status = "expanding" => \A i \in DOMAIN expanded : TextOf(expanded[i].list[1]) \notin DOMAIN macros

\* A step stands where its macro call stood: what is expanded so far and what
\* the rest would expand to is the expansion of the whole test, whatever was
\* expanded first.
RECURSIVE Flat(_)
Flat(events) ==
    IF events = << >> THEN << >>
    ELSE LET name == TextOf(Head(events).list[1])
             first == IF name \in DOMAIN macros
                      THEN Flat(ExpandMacro(macros[name], Tail(Head(events).list)))
                      ELSE <<Head(events)>>
         IN  first \o Flat(Tail(events))

ExpansionKeepsTheOrder ==
    status = "expanding" /\ status' = "expanding" =>
        expanded' \o Flat(todo') = expanded \o Flat(todo)

\* The words that macros hand on by name, "erc20:token": what stands behind a name
\* is no token of its own, and is not looked up.
RECURSIVE WordsOf(_)
WordsOf(token) ==
    CASE IsNamed(token) -> WordsOf(token.list[2])
      [] IsList(token) -> UNION {WordsOf(token.list[i]) : i \in DOMAIN token.list}
      [] OTHER -> {token.word}
RECURSIVE ByNameIn(_)
ByNameIn(token) ==
    CASE IsNamed(token) -> WordsOf(token)
      [] IsList(token) -> UNION {ByNameIn(token.list[i]) : i \in DOMAIN token.list}
      [] OTHER -> {}
HandedByName ==
    UNION {UNION {ByNameIn(macros[m].steps[s]) : s \in DOMAIN macros[m].steps} : m \in DOMAIN macros}
Parameters == UNION {{macros[m].args[i].arg : i \in DOMAIN macros[m].args} : m \in DOMAIN macros}

\* Of the parameters of the macros only those that a macro hands on by name survive
\* the expansion, however many macros a step goes through, however deep in it they
\* stand, and whether or not the macros share names of parameters.
OnlyNamedParametersAreLeft ==
    status = "expanding" =>
        \A i \in DOMAIN expanded :
            WordsOf(expanded[i]) \cap Parameters \subseteq TestWords \cup HandedByName

\* Expansion ends in this, for macros that do not call each other in a circle.
Parsed == status = "failed" \/ (status = "parsing" /\ script = << >>)
===============================================================================
