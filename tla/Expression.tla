------------------------------ MODULE Expression ------------------------------
(***************************************************************************)
(* The vocabulary of the scenario language (src/scenario/src/Command.ts,   *)
(* Event.ts): events, the arguments a command declares, and which command  *)
(* of a table an event is for.                                             *)
(***************************************************************************)
EXTENDS Naturals, Sequences, FiniteSets, FiniteSetsExt

\* An event is a word or a list of events; one record shape for both.
Word(w) == [word |-> w, list |-> << >>]
List(s) == [word |-> "", list |-> s]
IsList(e) == e.word = ""
IsSequence(s) == Len(s) \in Nat /\ s = [i \in 1 .. Len(s) |-> s[i]]

\* Options of an argument: it may be absent when nothing is left ("nullable"),
\* have a "default", take all that is left ("variadic"), read each element
\* ("mapped"), come from the world ("implicit") or recover ("rescue").
ArgOptions == {"nullable", "default", "variadic", "mapped", "implicit", "rescue"}

Arg(name, type, opts) == [name |-> name, type |-> type, opts |-> opts]
Is(arg, opt) == opt \in arg.opts

\* A row of a command table. A view needs no sender.
Expr(name, namePos, args, requireFrom, catchall) ==
    [name |-> name, namePos |-> namePos, args |-> args,
     requireFrom |-> requireFrom, catchall |-> catchall]
Cmd(name, namePos, args) == Expr(name, namePos, args, TRUE, FALSE)
View(name, namePos, args) == Expr(name, namePos, args, FALSE, FALSE)
Catchall(name, args) == Expr(name, 0, args, FALSE, TRUE)

WithoutIndex(s, i) == SubSeq(s, 1, i - 1) \o SubSeq(s, i + 1, Len(s))

\* A word stands for the list of itself.
AsList(e) == IF IsList(e) THEN e.list ELSE <<e>>

\* The name and the arguments that an expression sees in an event.
HasName(row, e) ==
    LET parts == AsList(e)
    IN  row.namePos + 1 \in DOMAIN parts /\ ~IsList(parts[row.namePos + 1])
NameOf(row, e) == AsList(e)[row.namePos + 1].word
ArgsOf(row, e) ==
    IF row.catchall THEN AsList(e) ELSE WithoutIndex(AsList(e), row.namePos + 1)

Matches(row, e) ==
    \/ row.catchall
    \/ HasName(row, e) /\ NameOf(row, e) = row.name

\* The first match decides.
Matching(rows, e) == {i \in DOMAIN rows : Matches(rows[i], e)}
(* Mutant of FirstMatch: a later expression overrides. *)
LastMatch(rows, e) == Max(Matching(rows, e))

FirstMatch(rows, e) == Min(Matching(rows, e))

-----------------------------------------------------------------------------
(* What a signature admits, independently of the order the code works in. *)

Positional(arg) == ~Is(arg, "implicit") \/ Is(arg, "variadic")
Position(args, i) == Cardinality({j \in 1 .. i : Positional(args[j])})
VariadicBefore(args, i) == \E j \in 1 .. i - 1 : Is(args[j], "variadic")
Required(arg) == arg.opts \cap {"nullable", "default", "variadic", "implicit"} = {}

\* n events are a legal argument list for the signature args.
Admits(args, n) ==
    /\ \A i \in DOMAIN args :
          Required(args[i]) => Position(args, i) <= n /\ ~VariadicBefore(args, i)
    /\ n <= Position(args, Len(args)) \/ VariadicBefore(args, Len(args) + 1)

\* The events, out of n, that the argument at index i stands for.
Share(args, n, i) ==
    IF ~Positional(args[i]) \/ VariadicBefore(args, i) THEN {}
    ELSE IF Is(args[i], "variadic") THEN Position(args, i) .. n
    ELSE {Position(args, i)} \cap (1 .. n)

-----------------------------------------------------------------------------
(* Finding the expression that an event is for, and what it is given. *)

ArgumentsGiven(args, n) == {args[i].name : i \in {j \in DOMAIN args : Share(args, n, j) # {}}}

\* The first row of the table whose name stands in the event takes it, if its
\* signature admits the arguments; i is its index.
Found(rows, e) == IF \E i \in DOMAIN rows : Matches(rows[i], e) THEN {FirstMatch(rows, e)} ELSE {}
Takes(rows, e) == {i \in Found(rows, e) : Admits(rows[i].args, Len(ArgsOf(rows[i], e)))}

-----------------------------------------------------------------------------
(* Events as they are written: the name of an expression at its place, and   *)
(* arguments, each a word that says which it is, possibly too few of them.   *)

PositionalNames(e) ==
    LET positional == SelectSeq(e.args, Positional)
    IN  [i \in DOMAIN positional |-> Word(positional[i].name)]
EventFor(e, n) ==
    LET args == SubSeq(PositionalNames(e), 1, n)
    IN  IF e.catchall THEN args
        ELSE SubSeq(args, 1, e.namePos) \o <<Word(e.name)>> \o SubSeq(args, e.namePos + 1, n)
Written(rows) ==
    UNION {{[row |-> rows[i], event |-> EventFor(rows[i], n)] :
               n \in rows[i].namePos .. Len(PositionalNames(rows[i]))} :
           i \in DOMAIN rows}

-----------------------------------------------------------------------------
(* The tokens of a script (Macro.ts, Parser.ts). *)

\* An argument given by name, "erc20:ZRX".
Named(arg, value) == [word |-> ":", list |-> <<Word(arg), value>>]
IsNamed(token) == token.word = ":"

\* What a macro declares: a parameter, one with a default, or a splat.
NoDefault == Word(":none")
Param(arg) == [arg |-> arg, def |-> NoDefault, splat |-> FALSE]
Optional(arg, def) == [arg |-> arg, def |-> def, splat |-> FALSE]
Splat(arg) == [arg |-> arg, def |-> NoDefault, splat |-> TRUE]
===============================================================================
