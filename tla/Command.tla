------------------------------- MODULE Command -------------------------------
(***************************************************************************)
(* How an event finds its command and its arguments                        *)
(* (src/scenario/src/Command.ts): the first command of the table that      *)
(* matches binds its declared arguments one after the other, each taking   *)
(* what it needs from the events that are left, and then runs.             *)
(***************************************************************************)
EXTENDS Expression, SequencesExt

CONSTANTS
    Tables,      \* command tables
    Events,      \* events handed to a table
    Senders,     \* accounts an event may come from
    NoSender,    \* no default account is known
    Readable     \* the words a getter understands

VARIABLES table, event, from, status, expr, bound, rest

vars == <<table, event, from, status, expr, bound, rest>>

\* A getter reads one event; an argument that is an event itself is taken as
\* it stands.
Reads(arg, e) == arg.type = "Event" \/ (~IsList(e) /\ e.word \in Readable)
ReadsAll(arg, es) == \A i \in DOMAIN es : Reads(arg, es[i])

Nobody == View("", 0, << >>)

Init ==
    /\ table \in Tables
    /\ event \in Events
    /\ from \in Senders \cup {NoSender}
    /\ status = "matching"
    /\ expr = Nobody
    /\ bound = << >>
    /\ rest = << >>

\* A doubly wrapped event is taken out of its wrapping.
Wrapped(e) == IsList(e) /\ Len(e.list) = 1 /\ IsList(e.list[1])

(* Mutant of Unwrap: the wrapped event is handed on as it is, for ever. *)
UnwrapNothing ==
    /\ status = "matching" /\ Wrapped(event)
    /\ UNCHANGED <<table, event, from, status, expr, bound, rest>>

Unwrap ==
    /\ status = "matching"
    /\ Wrapped(event)
    /\ event' = event.list[1]
    /\ UNCHANGED <<table, from, status, expr, bound, rest>>

FindCommand ==
    /\ status = "matching"
    /\ ~Wrapped(event)
    /\ Matching(table, event) # {}
    /\ LET found == table[FirstMatch(table, event)]
       IN  /\ expr' = found
           /\ rest' = ArgsOf(found, event)
    /\ status' = "binding"
    /\ UNCHANGED <<table, event, from, bound>>

UnknownCommand ==
    /\ status = "matching"
    /\ ~Wrapped(event)
    /\ Matching(table, event) = {}
    /\ status' = "unknown"
    /\ UNCHANGED <<table, event, from, expr, bound, rest>>

-----------------------------------------------------------------------------
(* One step per argument, in the order of the declaration. *)

Binding == status = "binding" /\ Len(bound) < Len(expr.args)
Declared == expr.args[Len(bound) + 1]

Bind(how, events, left) ==
    /\ bound' = Append(bound, [how |-> how, events |-> events])
    /\ rest' = left
    /\ UNCHANGED <<table, event, from, status, expr>>

Refuse(why) ==
    /\ status' = why
    /\ UNCHANGED <<table, event, from, expr, bound, rest>>

OutOfEvents == Is(Declared, "nullable") /\ rest = << >>
Single == ~OutOfEvents /\ Declared.opts \cap {"variadic", "implicit"} = {}

BindNothing == Binding /\ OutOfEvents /\ Bind("nothing", << >>, rest)

(* Mutant of BindVariadic: the events that were read are still left. *)
BindVariadicAndKeep ==
    /\ Binding /\ ~OutOfEvents /\ Is(Declared, "variadic")
    /\ IF ReadsAll(Declared, rest)
       THEN Bind("read", rest, rest)
       ELSE Refuse("unreadable")

BindVariadic ==
    /\ Binding /\ ~OutOfEvents /\ Is(Declared, "variadic")
    /\ IF ReadsAll(Declared, rest)
       THEN Bind("read", rest, << >>)
       ELSE Refuse("unreadable")

(* Mutant of BindImplicit: what comes from the world uses up an event. *)
BindImplicitAndTake ==
    /\ Binding /\ ~OutOfEvents /\ Is(Declared, "implicit") /\ ~Is(Declared, "variadic")
    /\ rest # << >> /\ Bind("world", <<Head(rest)>>, Tail(rest))

BindImplicit ==
    /\ Binding /\ ~OutOfEvents /\ Is(Declared, "implicit") /\ ~Is(Declared, "variadic")
    /\ Bind("world", << >>, rest)

BindAbsent ==
    /\ Binding /\ Single /\ rest = << >>
    /\ IF Is(Declared, "default") THEN Bind("default", << >>, rest) ELSE Refuse("missing")

\* A mapped argument reads each element of a list, or the one event it got.
BindPresent ==
    /\ Binding /\ Single /\ rest # << >>
    /\ LET read == IF Is(Declared, "mapped") THEN ReadsAll(Declared, AsList(Head(rest)))
                                          ELSE Reads(Declared, Head(rest))
       IN  CASE read -> Bind("read", <<Head(rest)>>, Tail(rest))
             [] ~read /\ Is(Declared, "rescue") -> Bind("rescue", <<Head(rest)>>, Tail(rest))
             [] OTHER -> Refuse("unreadable")

\* All arguments are bound: leftovers are refused, and so is a command
\* without a sender.
Process ==
    /\ status = "binding" /\ Len(bound) = Len(expr.args)
    /\ status' = CASE rest # << >> -> "extra"
                   [] rest = << >> /\ expr.requireFrom /\ from = NoSender -> "no sender"
                   [] OTHER -> "run"
    /\ UNCHANGED <<table, event, from, expr, bound, rest>>

Next ==
    \/ Unwrap \/ FindCommand \/ UnknownCommand
    \/ BindNothing \/ BindVariadic \/ BindImplicit \/ BindAbsent \/ BindPresent
    \/ Process

\* The interpreter awaits every step before the next one; it never stops
\* by itself in between.
Spec == Init /\ [][Next]_vars /\ WF_vars(Next)

-----------------------------------------------------------------------------
Refusals == {"unknown", "unreadable", "missing", "extra", "no sender"}
Done == status \in Refusals \cup {"run"}

\* Every variable has its type.
TypeOK ==
    /\ status \in Refusals \cup {"matching", "binding", "run"}
    /\ \A i \in DOMAIN bound :
          /\ bound[i].how \in {"nothing", "read", "world", "default", "rescue"}
          /\ bound[i].how \notin {"read", "rescue"} => bound[i].events = << >>
    /\ from \in Senders \cup {NoSender}
    /\ status \in {"missing", "unreadable"} => Len(bound) < Len(expr.args)
    /\ status \in {"extra", "no sender", "run"} => Len(bound) = Len(expr.args)

Supplied == ArgsOf(expr, event)

\* No event is dropped and none is read twice (the fold of getArgs): what the
\* bound arguments took, one after the other, and what is left is what was given.
TakenBefore(k) == Cardinality(UNION {{j} \X DOMAIN bound[j].events : j \in 1 .. k - 1})

NoEventIsLost ==
    expr # Nobody =>
        LET taken == TakenBefore(Len(bound) + 1)
        IN  /\ taken + Len(rest) = Len(Supplied)
            /\ \A k \in DOMAIN bound : \A i \in DOMAIN bound[k].events :
                  bound[k].events[i] = Supplied[TakenBefore(k) + i]
            /\ \A i \in DOMAIN rest : rest[i] = Supplied[taken + i]

\* The order of the cases in getArgs (nullable, variadic, implicit, default)
\* never gives an argument anything but its share of the events, and a command
\* runs only with an argument list its signature admits.
ArgumentsGetTheirShare ==
    status = "run" =>
        /\ Admits(expr.args, Len(Supplied))
        /\ \A i \in DOMAIN bound :
              /\ Len(bound[i].events) = Cardinality(Share(expr.args, Len(Supplied), i))
              /\ \A k \in DOMAIN bound[i].events :
                    Supplied[k - 1 + Min(Share(expr.args, Len(Supplied), i))] = bound[i].events[k]

\* An argument list is refused as too short or too long only when the
\* signature does not admit it: no legal call is turned away.
OnlyIllegalListsRefused ==
    status \in {"missing", "extra"} => ~Admits(expr.args, Len(Supplied))

\* An event that several commands of a table match goes to the first of them;
\* a later one never gets it, and a command that needs a sender never runs
\* without one (matches, processCommandEvent, Command.process).
FirstCommandDecides ==
    /\ expr # Nobody =>
          \E i \in DOMAIN table : /\ table[i] = expr
                                  /\ Matches(expr, event)
                                  /\ \A j \in 1 .. i - 1 : ~Matches(table[j], event)
    /\ status = "run" /\ expr.requireFrom => from # NoSender
===============================================================================
