----------------------------- MODULE MCCoreEvent -----------------------------
(* The lines of the runs.                                                    *)
EXTENDS CoreEvent

Do(name) == <<[do |-> name]>>
Waiting(name, n) == <<[do |-> name, n |-> n]>>
OnValue(kind, v) == <<[do |-> "Invariant", kind |-> kind, value |-> v]>>
Expecting(kind, v) == <<[do |-> "Expect", kind |-> kind, value |-> v]>>
OfType(name, type) == <<[do |-> name, type |-> type]>>
Asserting(kind) == <<[do |-> "Assert", kind |-> kind]>>
As(account, e) == <<[do |-> "From", account |-> account]>> \o e
With(opt, n, e) == <<[do |-> "Trx", opt |-> opt, amount |-> n]>> \o e
Unless(e) == <<[do |-> "Gate"]>> \o e
OnlyIf(e) == <<[do |-> "Given"]>> \o e

One(events) == {<<e>> : e \in events}

\* Invariants, holds, expectations and assertions around transactions.
CheckedLines ==
    One({Do("Invoke"), Do("Deploy"), OnValue("Success", 0), OnValue("Static", 0),
         OnValue("Remains", 1), Expecting("Changes", 1), Expecting("Remains", 1)}
        \cup {OfType(name, type) : name \in {"HoldInvariants", "ClearInvariants"}, type \in Types}
        \cup {Asserting(k) : k \in {"Success", "Failure", "RevertFailure", "Revert"}})

\* Wrappers, two and three deep, around transactions and other events.
Wrappers(e) ==
    {As("geoff", e), As("torrey", e), With("value", 1, e), With("value", 2, e),
     With("gasPrice", 1, e), Unless(e), OnlyIf(e)}
Wrapped(es) == UNION {Wrappers(e) : e \in es}
WrappedLines ==
    One({Do("Deploy"), Do("Throw"), <<[do |-> "Alias", account |-> "robert"]>>,
         Waiting("AdvanceBlocks", 1), Waiting("SleepUntilBlock", 2)}
        \cup Wrapped(Wrapped({Do("Invoke")})) \cup Wrapped({Do("Deploy"), Do("Throw")})
        \cup {With("value", 1, Unless(As("geoff", OnlyIf(Do("Invoke")))))})

\* Lines of several events, as a macro expands to, that fail half way.
ReplLines ==
    {<<Do("Deploy"), Do("Invoke")>>, <<Do("Invoke"), Do("Throw")>>,
     <<OfType("HoldInvariants", "All"), Do("Invoke")>>,
     <<OfType("ClearInvariants", "Success"), Do("Invoke"), Do("Throw")>>,
     <<With("value", 1, Do("Invoke")), As("geoff", Do("Invoke"))>>,
     <<Expecting("Changes", 1), Do("Invoke")>>,
     <<OfType("HoldInvariants", "Remains")>>, <<OnValue("Static", 0)>>,
     <<Do("Deploy"), Waiting("History", 5)>>, <<Waiting("History", 5)>>,
     <<Asserting("Success")>>, <<Asserting("Revert")>>}

Session(ls, repl, coverage, actions, objs, blocks) ==
    [lines |-> ls, interactive |-> repl, onCoverage |-> coverage,
     maxActions |-> actions, maxObjects |-> objs, maxBlock |-> blocks]

\* A script with checks, one with wrappers under coverage, and the Repl.
AllSessions ==
    [checks |-> Session(CheckedLines, FALSE, FALSE, 3, 3, 0),
     wrappers |-> Session(WrappedLines, FALSE, TRUE, 2, 3, 2),
     repl |-> Session(ReplLines, TRUE, FALSE, 3, 4, 0)]
===============================================================================
