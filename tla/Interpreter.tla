------------------------------ MODULE Interpreter ------------------------------
(***************************************************************************)
(* The interpreter of the scenarios. A script is parsed and its macros are   *)
(* expanded (Macro) before the first of its events is looked at (Language);  *)
(* both are done by one thread.                                              *)
(***************************************************************************)
EXTENDS Language

CONSTANTS Scripts, TestWords                         \* Macro

VARIABLES script, macros, tests, current, todo, expanded
M == INSTANCE Macro

onlyMacro == <<script, macros, tests, current, todo, expanded>>
notMacro == <<table, event, expr, given, stage, sent, onContract, onlyCommand, onlyValues,
              onlyBuilder, onlyAct, onlyRead>>
interpreterVars == <<vars, onlyMacro>>

NoMacro ==
    /\ script = None /\ macros = None /\ tests = None
    /\ current = None /\ todo = None /\ expanded = None

InterpreterInit ==
    \/ Init /\ NoMacro
    \/ /\ part = "macro" /\ M!Init
       /\ table = None /\ event = None /\ expr = None /\ given = None /\ stage = None /\ sent = None
       /\ NoContract /\ NoCommand /\ NoValues /\ NoBuilder /\ NoAct /\ NoRead

InMacro == part = "macro" /\ UNCHANGED <<part, notMacro>>
InLanguage == UNCHANGED onlyMacro

MacroStep ==
    \/ InMacro /\ M!DefineMacro
    \/ InMacro /\ M!BeginTest
    \/ InMacro /\ M!ExpandEvent
    \/ InMacro /\ M!RefuseEvent
    \/ InMacro /\ M!KeepEvent
    \/ InMacro /\ M!FinishTest

InterpreterWork == MacroStep \/ (InLanguage /\ Work)
InterpreterNext == MacroStep \/ (InLanguage /\ Next)

\* Every await is answered, and nothing but an await stops the interpreter.
InterpreterSpec ==
    InterpreterInit /\ [][InterpreterNext]_interpreterVars /\ WF_interpreterVars(InterpreterWork)

-----------------------------------------------------------------------------
\* Expansion leaves no macro behind, no parameter but those that a macro hands on
\* by name, and the steps in the order in which their macros were called
\* (expandEvent, expandMacro).
MacrosAreExpanded ==
    /\ [](part = "macro" => M!TypeOK /\ M!NoMacroIsLeft /\ M!OnlyNamedParametersAreLeft)
    /\ [][part = "macro" => M!ExpansionKeepsTheOrder]_interpreterVars

\* Every event, script and value comes to an end: it is carried out, read or
\* refused, and the interpreter is ready again.
Answered ==
    CASE part = "command" -> C!Done
      [] part = "macro" -> M!Parsed
      [] part = "values" -> verdict # ""
      [] part = "builder" -> stage = "idle"
      [] OTHER -> stage \in {"done", "aborted"}
EveryEventIsAnswered == []<>Answered
================================================================================
