------------------------------ MODULE MCLanguage ------------------------------
(* What the parts of the language are given in the run of MCLanguage.cfg.    *)
EXTENDS Interpreter

ASSUME LanguageAssumption ==
    /\ NoSender \notin Senders
    /\ MaxEvents \in Nat

-----------------------------------------------------------------------------
(* Command: every signature of up to two arguments, and some of three, at both *)
(* places of the name, in a table with a second command behind it.             *)
Shapes == {{}, {"default"}, {"nullable"}, {"variadic"}, {"variadic", "mapped"},
           {"mapped"}, {"implicit"}, {"rescue"}}

Signatures ==
    {<< >>} \cup {<<Arg("p", "Number", a)>> : a \in Shapes}
LongSignatures ==
    {<<Arg("p", "Number", a), Arg("q", "Number", b)>> : a, b \in Shapes}
    \cup {<<Arg("p", "Number", a), Arg("q", "Event", b), Arg("r", "Number", c)>> :
             a \in {{}, {"default"}, {"implicit"}}, b \in {{}, {"nullable"}, {"variadic"}},
             c \in {{}, {"default"}, {"nullable"}}}

Second == [pos \in {0, 1} |-> IF pos = 0 THEN Cmd("Go", 0, <<Arg("p", "Number", {})>>)
                               ELSE Catchall("Default", <<Arg("p", "Number", {"nullable"})>>)]

MCTables ==
    {<<Cmd("Do", pos, sig), Second[other]>> : pos, other \in {0, 1}, sig \in Signatures}
    \cup {<<Cmd("Do", pos, sig), Second[pos]>> : pos \in {0, 1}, sig \in LongSignatures}

Parts == {Word("Do"), Word("Go"), Word("1"), List(<<Word("1")>>)}

MCEvents ==
    {Word("Do")} \cup {List(s) : s \in UNION {[1 .. n -> Parts] : n \in 0 .. 3}}
    \cup {List(<<List(s)>>) : s \in UNION {[1 .. n -> Parts] : n \in 1 .. 2}}
    \cup {List(<<Word("Do"), Word("1"), Word("1"), Word("1")>>)}

-----------------------------------------------------------------------------
(* Macro: macros that call each other with swapped parameter names, defaults,  *)
(* a splat, nested and wrapped tokens; calls of up to three arguments.         *)
W(w) == Word(w)
DefMacro(name, args, steps) == [type |-> "macro", name |-> name, args |-> args, steps |-> steps]
DefTest(name, steps) == [type |-> "test", name |-> name, args |-> << >>, steps |-> steps]

Prep == DefMacro("Prep", <<Param("user"), Param("amount"), Optional("erc20", W("ZRX"))>>,
    <<List(<<W("Erc20"), W("erc20"), W("Faucet"), W("user"), W("amount")>>),
      List(<<W("From"), W("user"), List(<<W("Erc20"), W("erc20"), List(<<W("amount")>>)>>)>>)>>)
Enter == DefMacro("Enter", <<Param("user"), Splat("markets")>>,
    <<List(<<W("From"), W("user"), List(<<W("EnterMarkets"), W("markets")>>)>>)>>)
\* Its parameters are those of Prep in another order.
Quick == DefMacro("Quick", <<Param("amount"), Param("user")>>,
    <<List(<<W("Prep"), W("amount"), W("user")>>), List(<<W("Enter"), W("user"), W("amount")>>),
      List(<<W("Keep"), W("amount")>>)>>)
Clear == DefMacro("Clear", << >>, <<List(<<W("ClearInvariants"), W("Success")>>)>>)
Clear2 == DefMacro("Clear", <<Optional("kind", W("All"))>>, <<List(<<W("ClearInvariants"), W("kind")>>)>>)

\* It hands a parameter on by name, to a macro and to a command.
Pay == DefMacro("Pay", <<Param("amount"), Optional("erc20", W("USD"))>>,
    <<List(<<W("Prep"), W("amount"), W("5"), Named("erc20", W("erc20"))>>),
      List(<<W("From"), W("amount"), List(<<W("Keep"), Named("user", W("erc20"))>>)>>)>>)

Items_ == {W("1"), W("2"), List(<<W("1"), W("2")>>), Named("user", W("3")), Named("erc20", W("4"))}
MacroCalls ==
    {List(<<W(h)>> \o items) :
        h \in {"Prep", "Enter", "Quick", "Clear", "Keep"},
        items \in UNION {[1 .. n -> Items_] : n \in 0 .. 3}}
    \cup {List(<<List(<<W("Clear")>>)>>)}

PayCalls ==
    {List(<<W("Pay")>> \o items) : items \in UNION {[1 .. n -> Items_] : n \in 0 .. 3}}

MCScripts ==
    {<<Prep, Enter, Quick, Clear, DefTest("t", <<c, List(<<W("Clear")>>)>>)>> : c \in MacroCalls}
    \cup {<<Clear, DefTest("t", <<c>>), Prep, Enter, Clear2, Quick, DefTest(n, <<c, c>>)>> :
              c \in MacroCalls, n \in {"t", "u"}}
    \cup {<<Prep, Pay, DefTest("t", <<c, List(<<W("Pay"), W("5")>>)>>)>> : c \in MacroCalls \cup PayCalls}

-----------------------------------------------------------------------------
(* Values: numbers of one, two and three digits, around the bound of exact     *)
(* numbers, and one address in two spellings.                                  *)
SomeNumbers == {0, 1, 5, 51, 55, 110, 119, 120, 121}
PowersOfTen == <<1, 10, 100, 1000>>
SomeTexts == {"true", "false", "other"}
SomeSpellings == {"0xab", "0xAB", "0xcd"}
Spelled == [a \in SomeSpellings |-> IF a = "0xcd" THEN a ELSE "0xAb"]

-----------------------------------------------------------------------------
(* ContractEvents, ContractValues: every row of every kind, and the words that *)
(* select a function, with one that selects none.                              *)
AllWords == {"Mint", "Borrow", "Transfer", "Seize", "totalborrows", "totalreserves", "True", "other"}
AllViewWords == {"Borrows", "Redeems", "bool", "address", "number", "marketStruct", "list(address)", "other"}
===============================================================================
