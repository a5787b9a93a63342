--------------------------- MODULE CoreEventProofs ---------------------------
(***************************************************************************)
(* What is proved of the interpreter of scenario events, for all sessions, *)
(* wrappers of any depth and lines of any length.                          *)
(***************************************************************************)
EXTENDS CoreEvent, TLAPS

IsSequence(s) == s \in Seq(Range(s))
Recorded == Outcomes \cup {NoInvokation}

-----------------------------------------------------------------------------
(* Sequences, whatever their elements are. *)

\* Appending: one element more, the others stay.
LEMMA Appended ==
    ASSUME NEW s, IsSequence(s), NEW e
    PROVE  /\ IsSequence(Append(s, e))
           /\ Len(Append(s, e)) = Len(s) + 1
           /\ DOMAIN Append(s, e) = 1 .. Len(s) + 1
           /\ \A i \in 1 .. Len(s) : Append(s, e)[i] = s[i]
           /\ Append(s, e)[Len(s) + 1] = e
<1> DEFINE S == Range(s) \cup {e}
           t == Append(s, e)
<1>1. s \in Seq(S)
    BY DEF IsSequence
<1>2. /\ t \in Seq(S) /\ Len(t) = Len(s) + 1 /\ DOMAIN t = 1 .. Len(s) + 1
      /\ \A i \in 1 .. Len(s) : t[i] = s[i]
      /\ t[Len(s) + 1] = e
    BY <1>1
<1>3. t \in Seq(Range(t))
  <2>1. \A i \in 1 .. Len(t) : t[i] \in Range(t)
      BY <1>2 DEF Range
  <2> QED BY <2>1, <1>2, SMT
<1> QED BY <1>2, <1>3 DEF IsSequence

\* The tail: one element less, the others move up.
LEMMA TailOf ==
    ASSUME NEW s, IsSequence(s), s # << >>
    PROVE  /\ IsSequence(Tail(s))
           /\ Len(s) \in Nat /\ Len(s) > 0
           /\ Len(Tail(s)) = Len(s) - 1
           /\ DOMAIN Tail(s) = 1 .. Len(s) - 1
           /\ \A i \in 1 .. Len(s) - 1 : Tail(s)[i] = s[i + 1]
           /\ Head(s) = s[1]
<1> DEFINE t == Tail(s)
<1>1. /\ t \in Seq(Range(s)) /\ Len(t) = Len(s) - 1 /\ DOMAIN t = 1 .. Len(s) - 1
      /\ \A i \in 1 .. Len(s) - 1 : t[i] = s[i + 1]
      /\ Len(s) \in Nat /\ Len(s) > 0 /\ Head(s) = s[1]
    BY DEF IsSequence
<1>2. t \in Seq(Range(t))
  <2>1. \A i \in 1 .. Len(t) : t[i] \in Range(t)
      BY <1>1 DEF Range
  <2>2. Len(t) \in Nat /\ t \in Seq(Range(s))
      BY <1>1
  <2> HIDE DEF t
  <2> QED BY <2>1, <2>2, SMT
<1> QED BY <1>1, <1>2 DEF IsSequence

\* The latest of a set of positions.
LEMMA LatestIs ==
    ASSUME NEW S, S \subseteq Int, NEW i \in S, \A j \in S : j <= i
    PROVE  Latest(S) = i
<1>1. \A k \in S : (\A j \in S : j <= k) => k = i
    OBVIOUS
<1> QED BY <1>1 DEF Latest

-----------------------------------------------------------------------------
(* The worlds an event can make of a world. *)

IsWorld(w) ==
    w = [actions |-> w.actions, lastInvokation |-> w.lastInvokation,
         newInvokation |-> w.newInvokation, invariants |-> w.invariants,
         expectations |-> w.expectations, trxInvokationOpts |-> w.trxInvokationOpts,
         contract |-> w.contract]

\* What the operations of World.ts do to the parts of a world.
LEMMA WorldWithAction ==
    ASSUME NEW w, IsWorld(w), NEW outcome
    PROVE  LET v == AddAction(w, outcome)
           IN  /\ IsWorld(v) /\ v.actions = Append(w.actions, outcome)
               /\ v.lastInvokation = outcome /\ v.newInvokation
               /\ v.invariants = w.invariants /\ v.expectations = w.expectations
               /\ v.trxInvokationOpts = w.trxInvokationOpts /\ v.contract = w.contract
<1>1. PICK a, b, c, d, f, g, h :
           w = [actions |-> a, lastInvokation |-> b, newInvokation |-> c,
                invariants |-> d, expectations |-> f, trxInvokationOpts |-> g,
                contract |-> h]
    BY DEF IsWorld
<1>2. AddAction(w, outcome) =
           [actions |-> Append(a, outcome), lastInvokation |-> outcome,
            newInvokation |-> TRUE, invariants |-> d, expectations |-> f,
            trxInvokationOpts |-> g, contract |-> h]
  <2> DEFINE A == Append(w.actions, outcome)
             w1 == [w EXCEPT !.actions = A]
             w2 == [w1 EXCEPT !.lastInvokation = outcome]
  <2>3. AddAction(w, outcome) = [w2 EXCEPT !.newInvokation = TRUE]
      BY DEF AddAction
  <2>0. A = Append(a, outcome)
      BY <1>1
  <2> HIDE DEF A
  <2>1. w1 = [actions |-> A, lastInvokation |-> b, newInvokation |-> c,
              invariants |-> d, expectations |-> f, trxInvokationOpts |-> g, contract |-> h]
      BY <1>1
  <2> HIDE DEF w1
  <2>2. w2 = [actions |-> A, lastInvokation |-> outcome, newInvokation |-> c,
              invariants |-> d, expectations |-> f, trxInvokationOpts |-> g, contract |-> h]
      BY <2>1
  <2> HIDE DEF w2
  <2> QED BY <2>0, <2>2, <2>3
<1> QED BY <1>1, <1>2 DEF IsWorld

LEMMA WorldWithInvariant ==
    ASSUME NEW w, IsWorld(w), NEW id
    PROVE  LET v == AddInvariant(w, id)
           IN  /\ IsWorld(v) /\ v.actions = w.actions
               /\ v.lastInvokation = w.lastInvokation /\ v.newInvokation = w.newInvokation
               /\ v.invariants = w.invariants \cup {id} /\ v.expectations = w.expectations
               /\ v.trxInvokationOpts = w.trxInvokationOpts /\ v.contract = w.contract
<1>1. PICK a, b, c, d, f, g, h :
           w = [actions |-> a, lastInvokation |-> b, newInvokation |-> c,
                invariants |-> d, expectations |-> f, trxInvokationOpts |-> g,
                contract |-> h]
    BY DEF IsWorld
<1>2. AddInvariant(w, id) =
           [actions |-> a, lastInvokation |-> b, newInvokation |-> c,
            invariants |-> d \cup {id}, expectations |-> f, trxInvokationOpts |-> g,
            contract |-> h]
    BY <1>1 DEF AddInvariant
<1> QED BY <1>1, <1>2 DEF IsWorld

LEMMA WorldWithExpectation ==
    ASSUME NEW w, IsWorld(w), NEW expectation
    PROVE  LET v == AddExpectation(w, expectation)
           IN  /\ IsWorld(v) /\ v.actions = w.actions
               /\ v.lastInvokation = w.lastInvokation /\ v.newInvokation = w.newInvokation
               /\ v.invariants = w.invariants
               /\ v.expectations = w.expectations \cup {expectation}
               /\ v.trxInvokationOpts = w.trxInvokationOpts /\ v.contract = w.contract
<1>1. PICK a, b, c, d, f, g, h :
           w = [actions |-> a, lastInvokation |-> b, newInvokation |-> c,
                invariants |-> d, expectations |-> f, trxInvokationOpts |-> g,
                contract |-> h]
    BY DEF IsWorld
<1>2. AddExpectation(w, expectation) =
           [actions |-> a, lastInvokation |-> b, newInvokation |-> c, invariants |-> d,
            expectations |-> f \cup {expectation}, trxInvokationOpts |-> g,
            contract |-> h]
    BY <1>1 DEF AddExpectation
<1> QED BY <1>1, <1>2 DEF IsWorld

LEMMA WorldCleared ==
    ASSUME NEW w, IsWorld(w), NEW os, NEW type
    PROVE  LET v == ClearInvariants(w, os, type)
           IN  /\ IsWorld(v) /\ v.actions = w.actions
               /\ v.lastInvokation = w.lastInvokation /\ v.newInvokation = w.newInvokation
               /\ v.invariants \subseteq w.invariants /\ v.expectations = w.expectations
               /\ v.trxInvokationOpts = w.trxInvokationOpts /\ v.contract = w.contract
<1>1. PICK a, b, c, d, f, g, h :
           w = [actions |-> a, lastInvokation |-> b, newInvokation |-> c,
                invariants |-> d, expectations |-> f, trxInvokationOpts |-> g,
                contract |-> h]
    BY DEF IsWorld
<1>2. ClearInvariants(w, os, type) =
           [actions |-> a, lastInvokation |-> b, newInvokation |-> c,
            invariants |-> {id \in d : InvariantFilter(type, os[id].kind)},
            expectations |-> f, trxInvokationOpts |-> g, contract |-> h]
  <2> DEFINE S == {id \in w.invariants : InvariantFilter(type, os[id].kind)}
  <2>1. ClearInvariants(w, os, type) = [w EXCEPT !.invariants = S]
      BY DEF ClearInvariants
  <2>2. S = {id \in d : InvariantFilter(type, os[id].kind)}
      BY <1>1
  <2> HIDE DEF S
  <2> QED BY <1>1, <2>1, <2>2
<1> QED BY <1>1, <1>2 DEF IsWorld

LEMMA WorldWithContract ==
    ASSUME NEW w, IsWorld(w), NEW k
    PROVE  LET v == [w EXCEPT !.contract = k]
           IN  /\ IsWorld(v) /\ v.actions = w.actions
               /\ v.lastInvokation = w.lastInvokation /\ v.newInvokation = w.newInvokation
               /\ v.invariants = w.invariants /\ v.expectations = w.expectations
               /\ v.trxInvokationOpts = w.trxInvokationOpts /\ v.contract = k
<1>1. PICK a, b, c, d, f, g, h :
           w = [actions |-> a, lastInvokation |-> b, newInvokation |-> c,
                invariants |-> d, expectations |-> f, trxInvokationOpts |-> g,
                contract |-> h]
    BY DEF IsWorld
<1>2. [w EXCEPT !.contract = k] =
           [actions |-> a, lastInvokation |-> b, newInvokation |-> c, invariants |-> d,
            expectations |-> f, trxInvokationOpts |-> g, contract |-> k]
    BY <1>1
<1> QED BY <1>1, <1>2 DEF IsWorld

LEMMA WorldWithOptions ==
    ASSUME NEW w, IsWorld(w), NEW opts
    PROVE  LET v == [w EXCEPT !.trxInvokationOpts = opts]
           IN  /\ IsWorld(v) /\ v.actions = w.actions
               /\ v.lastInvokation = w.lastInvokation /\ v.newInvokation = w.newInvokation
               /\ v.invariants = w.invariants /\ v.expectations = w.expectations
               /\ v.trxInvokationOpts = opts /\ v.contract = w.contract
<1>1. PICK a, b, c, d, f, g, h :
           w = [actions |-> a, lastInvokation |-> b, newInvokation |-> c,
                invariants |-> d, expectations |-> f, trxInvokationOpts |-> g,
                contract |-> h]
    BY DEF IsWorld
<1>2. [w EXCEPT !.trxInvokationOpts = opts] =
           [actions |-> a, lastInvokation |-> b, newInvokation |-> c,
            invariants |-> d, expectations |-> f, trxInvokationOpts |-> opts,
            contract |-> h]
    BY <1>1
<1> QED BY <1>1, <1>2 DEF IsWorld

LEMMA WorldChecked ==
    ASSUME NEW w, IsWorld(w)
    PROVE  LET v == AfterCheck(w)
           IN  /\ IsWorld(v) /\ v.actions = w.actions
               /\ v.lastInvokation = w.lastInvokation /\ v.newInvokation = FALSE
               /\ v.invariants = w.invariants
               /\ v.expectations = IF w.newInvokation THEN {} ELSE w.expectations
               /\ v.trxInvokationOpts = NoOpts /\ v.contract = w.contract
<1>1. PICK a, b, c, d, f, g, h :
           w = [actions |-> a, lastInvokation |-> b, newInvokation |-> c,
                invariants |-> d, expectations |-> f, trxInvokationOpts |-> g,
                contract |-> h]
    BY DEF IsWorld
<1>2. AfterCheck(w) =
           [actions |-> a, lastInvokation |-> b, newInvokation |-> FALSE,
            invariants |-> d, expectations |-> IF c THEN {} ELSE f,
            trxInvokationOpts |-> NoOpts, contract |-> h]
  <2> DEFINE e == IF w.newInvokation THEN {} ELSE w.expectations
             w1 == [w EXCEPT !.expectations = e]
             w2 == [w1 EXCEPT !.trxInvokationOpts = NoOpts]
  <2>0. e = IF c THEN {} ELSE f
      BY <1>1
  <2>3. AfterCheck(w) = [w2 EXCEPT !.newInvokation = FALSE]
      BY DEF AfterCheck
  <2> HIDE DEF e
  <2>1. w1 = [actions |-> a, lastInvokation |-> b, newInvokation |-> c,
              invariants |-> d, expectations |-> e, trxInvokationOpts |-> g, contract |-> h]
      BY <1>1
  <2> HIDE DEF w1
  <2>2. w2 = [actions |-> a, lastInvokation |-> b, newInvokation |-> c, invariants |-> d,
              expectations |-> e, trxInvokationOpts |-> NoOpts, contract |-> h]
      BY <2>1
  <2> HIDE DEF w2
  <2> QED BY <2>0, <2>2, <2>3
<1> QED BY <1>1, <1>2 DEF IsWorld

-----------------------------------------------------------------------------
(* The inductive invariant.                                                 *)

\* What was passed on of the event, and what it was passed on with.
Passed == Len(event) - Len(now)
FromsTo(e, k) == {i \in Froms(e) : i <= k}
TrxsTo(e, opt, k) == {i \in Trxs(e, opt) : i <= k}
SenderTo(e, k) ==
    IF FromsTo(e, k) = {} THEN DefaultSender ELSE e[Latest(FromsTo(e, k))].account
AmountTo(e, opt, k) ==
    IF TrxsTo(e, opt, k) = {} THEN 0 ELSE e[Latest(TrxsTo(e, opt, k))].amount

Objects == [kind : Kinds, value : Int, held : BOOLEAN]

Fits(w, os, vs) ==
    /\ IsWorld(w)
    /\ w.actions \in Seq(Recorded)
    /\ w.invariants \subseteq DOMAIN os
    /\ w.contract \in 0 .. Len(vs)

Due(w) == \A expectation \in w.expectations : expectation.at = Len(w.actions)

Matches(w, ts) ==
    /\ Len(w.actions) = Len(ts)
    /\ \A i \in 1 .. Len(ts) : w.actions[i] = ts[i].outcome

TypeInv ==
    /\ session \in DOMAIN Sessions
    /\ stage \in {"idle", "processing", "checking", "checked", "aborted"}
    /\ stage = "aborted" => ~Interactive
    /\ objects \in Seq(Objects)
    /\ values \in Seq(0 .. MaxValue)
    /\ IsSequence(sent)
    /\ spared \subseteq DOMAIN objects
    /\ Fits(world, objects, values)
    /\ Fits(committed, objects, values)

HoldInv ==
    \A id \in DOMAIN objects : objects[id].held =>
        /\ id \in spared
        /\ ~(stage = "checked" /\ world.newInvokation /\ id \in world.invariants)

DueInv ==
    /\ Due(committed)
    /\ \/ Due(world)
       \/ stage \in {"checking", "checked"} /\ world.newInvokation
       \/ stage = "aborted"

LineInv == IsSequence(line) /\ \A i \in DOMAIN line : IsEvent(line[i])

CarryInv ==
    /\ committed.trxInvokationOpts = NoOpts
    /\ stage = "idle" => world.trxInvokationOpts = NoOpts
    /\ stage = "processing" =>
          /\ IsEvent(event) /\ IsSequence(now)
          /\ Passed \in Nat /\ now # << >>
          /\ \A i \in 1 .. Len(now) : now[i] = event[Passed + i]
          /\ from = SenderTo(event, Passed)
          /\ world.trxInvokationOpts = [opt \in Options |-> AmountTo(event, opt, Passed)]

ScriptInv == ~Interactive => Matches(world, sent)

IInv == TypeInv /\ HoldInv /\ DueInv /\ LineInv /\ CarryInv /\ ScriptInv

-----------------------------------------------------------------------------
(* Each kind of step keeps it.                                              *)

LEMMA InitialInv ==
    ASSUME Init
    PROVE  IInv
<1> DEFINE w0 == [InitWorld EXCEPT !.contract = Len(values)]
<1>0. /\ session \in DOMAIN Sessions
      /\ values \in IF Interactive THEN {<< >>, <<0>>} ELSE {<< >>}
      /\ world = w0 /\ committed = w0
      /\ objects = InitObjects /\ line = << >> /\ stage = "idle" /\ sent = << >> /\ spared = {}
    BY DEF Init
<1>1. values \in Seq(0 .. MaxValue) /\ Len(values) \in Nat
  <2>1. 0 \in 0 .. MaxValue
      BY SessionsAssumption
  <2>2. values = << >> \/ values = <<0>>
      BY <1>0
  <2>3. CASE values = << >>
      BY <2>3
  <2>4. CASE values = <<0>>
      BY <2>1, <2>4
  <2> QED BY <2>2, <2>3, <2>4
<1>2. /\ IsWorld(InitWorld) /\ InitWorld.actions = << >> /\ InitWorld.invariants = {1}
      /\ InitWorld.expectations = {} /\ InitWorld.trxInvokationOpts = NoOpts
    BY DEF IsWorld, InitWorld
<1>3. /\ IsWorld(w0) /\ w0.actions = << >> /\ w0.invariants = {1}
      /\ w0.expectations = {} /\ w0.trxInvokationOpts = NoOpts
      /\ w0.contract = Len(values)
    BY <1>2, WorldWithContract
<1> HIDE DEF w0
<1>4. /\ objects \in Seq(Objects) /\ DOMAIN objects = {1} /\ ~objects[1].held
  <2>1. objects = <<[kind |-> "Success", value |-> 0, held |-> FALSE]>>
      BY <1>0 DEF InitObjects, Object
  <2> QED BY <2>1 DEF Objects, Kinds
<1>5. /\ IsSequence(<< >>) /\ Len(<< >>) = 0 /\ DOMAIN << >> = {} /\ << >> \in Seq(Recorded)
    BY DEF IsSequence
<1>6. TypeInv
    BY <1>0, <1>1, <1>3, <1>4, <1>5 DEF TypeInv, Fits
<1>7. HoldInv /\ DueInv
    BY <1>0, <1>3, <1>4 DEF HoldInv, DueInv, Due
<1>8. LineInv /\ CarryInv /\ ScriptInv
    BY <1>0, <1>3, <1>5 DEF LineInv, CarryInv, ScriptInv, Matches
<1> QED BY <1>6, <1>7, <1>8 DEF IInv

\* A line that fails leaves the world of the line before, or ends the script.
LEMMA Failed ==
    ASSUME IInv, Fail, UNCHANGED <<objects, me, chain, spared>>
    PROVE  IInv'
<1> USE DEF IInv
<1>1. /\ stage' = (IF Interactive THEN "idle" ELSE "aborted")
      /\ world' = (IF Interactive THEN committed ELSE world)
      /\ line' = << >> /\ committed' = committed /\ session' = session
      /\ objects' = objects /\ values' = values /\ sent' = sent /\ spared' = spared
      /\ Interactive' = Interactive
    BY DEF Fail, chain, Interactive
<1>2. TypeInv'
    BY <1>1 DEF TypeInv
<1>3. HoldInv' /\ DueInv' /\ CarryInv' /\ ScriptInv'
    BY <1>1 DEF HoldInv, DueInv, CarryInv, ScriptInv
<1>4. LineInv'
    BY <1>1 DEF LineInv, IsSequence
<1> QED BY <1>2, <1>3, <1>4

\* An event that was processed: the world it made must fit what it left.
LEMMA DoneWith ==
    ASSUME IInv, stage = "processing", NEW w, Done(w),
           Fits(w, objects', values'), Due(w) \/ w.newInvokation,
           ~Interactive => Matches(w, sent'),
           objects' \in Seq(Objects), values' \in Seq(0 .. MaxValue), IsSequence(sent'),
           DOMAIN objects \subseteq DOMAIN objects', Len(values) <= Len(values'),
           spared' \subseteq DOMAIN objects',
           \A id \in DOMAIN objects' : objects'[id].held => id \in spared'
    PROVE  IInv'
<1> USE DEF IInv
<1>1. /\ stage' = "checking" /\ world' = w /\ line' = line
      /\ committed' = committed /\ session' = session /\ Interactive' = Interactive
    BY DEF Done, Interactive
<1>2. Fits(committed, objects', values')
  <2>1. Fits(committed, objects, values) /\ Len(values) \in Nat /\ Len(values') \in Nat
      BY DEF TypeInv
  <2> QED BY <2>1 DEF Fits
<1>3. TypeInv'
    BY <1>1, <1>2 DEF TypeInv
<1>4. HoldInv' /\ DueInv' /\ CarryInv' /\ ScriptInv' /\ LineInv'
    BY <1>1 DEF HoldInv, DueInv, CarryInv, ScriptInv, LineInv
<1> QED BY <1>3, <1>4

\* A wrapper hands the rest of the event on: the same world, but for the options,
\* and who is sent for and with what is what the words so far say.
LEMMA HandedOn ==
    ASSUME IInv, stage = "processing", This.do \in Wrapper,
           NEW w, NEW sender, HandOn(w, sender), IsWorld(w),
           w.actions = world.actions, w.newInvokation = world.newInvokation,
           w.invariants = world.invariants, w.expectations = world.expectations,
           w.contract = world.contract, sender = SenderTo(event, Passed + 1),
           w.trxInvokationOpts = [opt \in Options |-> AmountTo(event, opt, Passed + 1)]
    PROVE  IInv'
<1>0. TypeInv /\ HoldInv /\ DueInv /\ LineInv /\ CarryInv /\ ScriptInv
    BY DEF IInv
<1>1. /\ now' = Tail(now) /\ from' = sender /\ world' = w
      /\ stage' = stage /\ event' = event /\ line' = line /\ me' = me
      /\ committed' = committed /\ session' = session /\ Interactive' = Interactive
      /\ objects' = objects /\ values' = values /\ sent' = sent /\ spared' = spared
    BY DEF HandOn, chain, Interactive
<1>2. /\ IsEvent(event) /\ IsSequence(now) /\ Passed \in Nat /\ now # << >>
      /\ \A i \in 1 .. Len(now) : now[i] = event[Passed + i]
    BY <1>0 DEF CarryInv
<1>3. /\ IsSequence(Tail(now)) /\ Len(now) \in Nat /\ Len(now) > 0
      /\ Len(Tail(now)) = Len(now) - 1 /\ This = now[1]
      /\ \A i \in 1 .. Len(now) - 1 : Tail(now)[i] = now[i + 1]
    BY <1>2, TailOf DEF This
<1>4. /\ Len(event) \in Nat /\ DOMAIN event = 1 .. Len(event)
      /\ \A i \in DOMAIN event : event[i].do \in Wrapper <=> i < Len(event)
    BY <1>2 DEF IsEvent
<1>5. Passed' = Passed + 1
  <2>1. /\ Len(now') = Len(now) - 1 /\ Len(event') = Len(event)
        /\ Len(now) \in Nat /\ Len(event) \in Nat
      BY <1>1, <1>3, <1>4
  <2>2. Passed = Len(event) - Len(now) /\ Passed' = Len(event') - Len(now')
      BY DEF Passed
  <2> QED BY <2>1, <2>2
<1>6. Passed + 1 < Len(event)
  <2>1. Passed + 1 \in DOMAIN event /\ This = event[Passed + 1]
      BY <1>2, <1>3, <1>4 DEF Passed
  <2> QED BY <2>1, <1>4
<1>7. Tail(now) # << >>
  <2>1. Len(Tail(now)) > 0
      BY <1>3, <1>4, <1>6 DEF Passed
  <2> QED BY <2>1
<1>8. \A i \in 1 .. Len(Tail(now)) : Tail(now)[i] = event[Passed + 1 + i]
    BY <1>2, <1>3
<1>9. SenderTo(event, Passed)' = SenderTo(event, Passed + 1)
  <2>1. FromsTo(event, Passed)' = FromsTo(event, Passed + 1)
      BY <1>1, <1>5 DEF FromsTo, Froms
  <2>2. DefaultSender' = DefaultSender
      BY <1>1 DEF DefaultSender
  <2> QED BY <1>1, <2>1, <2>2 DEF SenderTo
<1>10. ASSUME NEW opt
       PROVE  AmountTo(event, opt, Passed)' = AmountTo(event, opt, Passed + 1)
  <2>1. TrxsTo(event, opt, Passed)' = TrxsTo(event, opt, Passed + 1)
      BY <1>1, <1>5 DEF TrxsTo, Trxs
  <2> QED BY <1>1, <2>1 DEF AmountTo
<1>11. CarryInv'
  <2>1. world'.trxInvokationOpts = [opt \in Options |-> AmountTo(event, opt, Passed)']
      BY <1>1, <1>10
  <2>2. committed'.trxInvokationOpts = NoOpts /\ stage' # "idle"
      BY <1>0, <1>1 DEF CarryInv
  <2>3. IsEvent(event') /\ IsSequence(now') /\ Passed' \in Nat /\ now' # << >>
      BY <1>1, <1>2, <1>3, <1>5, <1>7
  <2>4. \A i \in 1 .. Len(now') : now'[i] = event'[Passed' + i]
      BY <1>1, <1>5, <1>8
  <2>5. from' = SenderTo(event, Passed)'
      BY <1>1, <1>9
  <2> QED BY <2>1, <2>2, <2>3, <2>4, <2>5 DEF CarryInv
<1>12. TypeInv'
    BY <1>0, <1>1 DEF TypeInv, Fits
<1>13. HoldInv' /\ DueInv' /\ LineInv' /\ ScriptInv'
    BY <1>0, <1>1 DEF HoldInv, DueInv, LineInv, ScriptInv, Due, Matches
<1> QED BY <1>11, <1>12, <1>13 DEF IInv

-----------------------------------------------------------------------------
(* What the words of an event say so far, and of the next one.              *)

LEMMA NothingPassed ==
    ASSUME NEW e, IsEvent(e)
    PROVE  /\ SenderTo(e, 0) = DefaultSender
           /\ \A opt : AmountTo(e, opt, 0) = 0
<1>1. DOMAIN e = 1 .. Len(e) /\ Len(e) \in Nat
    BY DEF IsEvent
<1>2. FromsTo(e, 0) = {} /\ \A opt : TrxsTo(e, opt, 0) = {}
    BY <1>1 DEF FromsTo, TrxsTo, Froms, Trxs
<1> QED BY <1>2 DEF SenderTo, AmountTo

LEMMA NextSender ==
    ASSUME NEW e, IsEvent(e), NEW k \in Nat, k + 1 \in DOMAIN e
    PROVE  SenderTo(e, k + 1) = IF e[k + 1].do = "From" THEN e[k + 1].account
                                                        ELSE SenderTo(e, k)
<1>1. DOMAIN e = 1 .. Len(e) /\ Len(e) \in Nat
    BY DEF IsEvent
<1>2. CASE e[k + 1].do = "From"
  <2>1. /\ FromsTo(e, k + 1) \subseteq Int /\ k + 1 \in FromsTo(e, k + 1)
        /\ \A j \in FromsTo(e, k + 1) : j <= k + 1
      BY <1>1, <1>2 DEF FromsTo, Froms
  <2>2. Latest(FromsTo(e, k + 1)) = k + 1
      BY <2>1, LatestIs
  <2> QED BY <1>2, <2>1, <2>2 DEF SenderTo
<1>3. CASE e[k + 1].do # "From"
  <2>1. FromsTo(e, k + 1) = FromsTo(e, k)
      BY <1>1, <1>3 DEF FromsTo, Froms
  <2> QED BY <1>3, <2>1 DEF SenderTo
<1> QED BY <1>2, <1>3

LEMMA NextAmount ==
    ASSUME NEW e, IsEvent(e), NEW k \in Nat, k + 1 \in DOMAIN e, NEW opt
    PROVE  AmountTo(e, opt, k + 1) = IF e[k + 1].do = "Trx" /\ e[k + 1].opt = opt
                                     THEN e[k + 1].amount ELSE AmountTo(e, opt, k)
<1>1. DOMAIN e = 1 .. Len(e) /\ Len(e) \in Nat
    BY DEF IsEvent
<1>2. CASE e[k + 1].do = "Trx" /\ e[k + 1].opt = opt
  <2>1. /\ TrxsTo(e, opt, k + 1) \subseteq Int /\ k + 1 \in TrxsTo(e, opt, k + 1)
        /\ \A j \in TrxsTo(e, opt, k + 1) : j <= k + 1
      BY <1>1, <1>2 DEF TrxsTo, Trxs
  <2>2. Latest(TrxsTo(e, opt, k + 1)) = k + 1
      BY <2>1, LatestIs
  <2> QED BY <1>2, <2>1, <2>2 DEF AmountTo
<1>3. CASE ~(e[k + 1].do = "Trx" /\ e[k + 1].opt = opt)
  <2>1. TrxsTo(e, opt, k + 1) = TrxsTo(e, opt, k)
      BY <1>1, <1>3 DEF TrxsTo, Trxs
  <2> QED BY <1>3, <2>1 DEF AmountTo
<1> QED BY <1>2, <1>3

\* Before its last word, an event has said everything.
LEMMA AllPassed ==
    ASSUME NEW e, IsEvent(e)
    PROVE  /\ SenderTo(e, Len(e) - 1) = SenderOf(e)
           /\ [opt \in Options |-> AmountTo(e, opt, Len(e) - 1)] = OptsOf(e)
<1>1. /\ DOMAIN e = 1 .. Len(e) /\ Len(e) \in Nat
      /\ \A i \in DOMAIN e : e[i].do \in {"From", "Trx"} => i <= Len(e) - 1
    BY DEF IsEvent, Wrapper
<1>2. FromsTo(e, Len(e) - 1) = Froms(e)
    BY <1>1 DEF FromsTo, Froms
<1>3. \A opt : TrxsTo(e, opt, Len(e) - 1) = Trxs(e, opt)
    BY <1>1 DEF TrxsTo, Trxs
<1>4. \A opt : AmountTo(e, opt, Len(e) - 1) =
                  IF Trxs(e, opt) = {} THEN 0 ELSE e[Latest(Trxs(e, opt))].amount
    BY <1>3 DEF AmountTo
<1> QED BY <1>2, <1>4 DEF SenderTo, SenderOf, OptsOf

-----------------------------------------------------------------------------
(* Where the interpreter stands when it processes an event.                 *)

LEMMA Standing ==
    ASSUME IInv, stage = "processing"
    PROVE  /\ IsEvent(event) /\ Passed \in Nat /\ Passed + 1 \in DOMAIN event
           /\ This = event[Passed + 1]
           /\ This.do \notin Wrapper => Passed = Len(event) - 1
           /\ from = SenderTo(event, Passed)
           /\ world.trxInvokationOpts = [opt \in Options |-> AmountTo(event, opt, Passed)]
           /\ Fits(world, objects, values) /\ Due(world)
           /\ ~Interactive => Matches(world, sent)
           /\ IsSequence(sent)
           /\ objects \in Seq(Objects) /\ values \in Seq(0 .. MaxValue)
           /\ spared \subseteq DOMAIN objects
           /\ \A id \in DOMAIN objects : objects[id].held => id \in spared
<1>1. TypeInv /\ HoldInv /\ DueInv /\ LineInv /\ CarryInv /\ ScriptInv
    BY DEF IInv
<1>2. /\ IsEvent(event) /\ IsSequence(now) /\ Passed \in Nat /\ now # << >>
      /\ \A i \in 1 .. Len(now) : now[i] = event[Passed + i]
      /\ from = SenderTo(event, Passed)
      /\ world.trxInvokationOpts = [opt \in Options |-> AmountTo(event, opt, Passed)]
    BY <1>1 DEF CarryInv
<1>3. Len(now) \in Nat /\ Len(now) > 0 /\ This = now[1]
    BY <1>2, TailOf DEF This
<1>4. /\ Len(event) \in Nat /\ DOMAIN event = 1 .. Len(event)
      /\ \A i \in DOMAIN event : event[i].do \in Wrapper <=> i < Len(event)
    BY <1>2 DEF IsEvent
<1>5. Passed + 1 \in DOMAIN event /\ This = event[Passed + 1]
  <2>1. Passed = Len(event) - Len(now)
      BY DEF Passed
  <2>2. Passed + 1 \in DOMAIN event
      BY <2>1, <1>2, <1>3, <1>4
  <2> QED BY <2>2, <1>2, <1>3
<1>6. This.do \notin Wrapper => Passed = Len(event) - 1
  <2>1. This.do \in Wrapper <=> Passed + 1 < Len(event)
      BY <1>4, <1>5
  <2>2. Passed + 1 <= Len(event) /\ Passed \in Nat /\ Len(event) \in Nat
      BY <1>2, <1>4, <1>5
  <2> QED BY <2>1, <2>2
<1>7. /\ Fits(world, objects, values) /\ Due(world)
      /\ ~Interactive => Matches(world, sent)
      /\ IsSequence(sent)
      /\ objects \in Seq(Objects) /\ values \in Seq(0 .. MaxValue)
      /\ spared \subseteq DOMAIN objects
      /\ \A id \in DOMAIN objects : objects[id].held => id \in spared
    BY <1>1 DEF TypeInv, DueInv, ScriptInv, HoldInv
<1> QED BY <1>2, <1>5, <1>6, <1>7

\* An event that leaves the world, the objects and the chain as they were.
LEMMA LeftAlone ==
    ASSUME IInv, stage = "processing", Done(world), UNCHANGED <<objects, values, sent, spared>>
    PROVE  IInv'
<1>1. /\ objects' = objects /\ values' = values /\ sent' = sent /\ spared' = spared
      /\ Len(values) \in Nat
    BY Standing
<1> QED BY <1>1, Standing, DoneWith

\* An event that makes another world of the same objects and the same chain.
LEMMA WorldMade ==
    ASSUME IInv, stage = "processing", NEW w, Done(w),
           UNCHANGED <<objects, values, sent, spared>>,
           IsWorld(w), w.actions = world.actions, w.contract = world.contract,
           w.invariants \subseteq world.invariants, Due(w)
    PROVE  IInv'
<1>1. /\ objects' = objects /\ values' = values /\ sent' = sent /\ spared' = spared
      /\ Len(values) \in Nat
    BY Standing
<1>2. Fits(w, objects, values) /\ (~Interactive => Matches(w, sent))
    BY Standing DEF Fits, Matches
<1> QED BY <1>1, <1>2, Standing, DoneWith

-----------------------------------------------------------------------------
(* One lemma per action, or for a few alike.                                *)

LEMMA ReadLineKeeps ==
    ASSUME IInv, ReadLine
    PROVE  IInv'
<1>1. TypeInv /\ HoldInv /\ DueInv /\ LineInv /\ CarryInv /\ ScriptInv
    BY DEF IInv
<1>2. /\ stage = "idle" /\ stage' = stage /\ world' = world /\ committed' = world
      /\ session' = session /\ Interactive' = Interactive /\ line' \in Lines
      /\ objects' = objects /\ values' = values /\ sent' = sent /\ spared' = spared
    BY DEF ReadLine, Idle, chain, Interactive
<1>3. TypeInv' /\ HoldInv' /\ DueInv' /\ CarryInv' /\ ScriptInv'
    BY <1>1, <1>2 DEF TypeInv, HoldInv, DueInv, CarryInv, ScriptInv
<1>4. LineInv'
    BY <1>1, <1>2, SessionsAssumption DEF LineInv, IsSequence, TypeInv, Lines
<1> QED BY <1>3, <1>4 DEF IInv

LEMMA NextEventKeeps ==
    ASSUME IInv, NextEvent
    PROVE  IInv'
<1>1. TypeInv /\ HoldInv /\ DueInv /\ LineInv /\ CarryInv /\ ScriptInv
    BY DEF IInv
<1>2. /\ stage = "idle" /\ stage' = "processing" /\ line # << >>
      /\ now' = Head(line) /\ event' = Head(line) /\ line' = Tail(line)
      /\ from' = DefaultSender /\ me' = me
      /\ world' = world /\ committed' = committed
      /\ session' = session /\ Interactive' = Interactive
      /\ objects' = objects /\ values' = values /\ sent' = sent /\ spared' = spared
    BY DEF NextEvent, chain, Interactive
<1>3. TypeInv' /\ HoldInv' /\ DueInv' /\ ScriptInv'
    BY <1>1, <1>2 DEF TypeInv, HoldInv, DueInv, ScriptInv
<1>4. LineInv' /\ IsEvent(event')
  <2>1. IsSequence(line)
      BY <1>1 DEF LineInv
  <2>2. /\ IsSequence(Tail(line)) /\ Head(line) = line[1] /\ DOMAIN line = 1 .. Len(line)
        /\ Len(line) \in Nat /\ Len(line) > 0 /\ DOMAIN Tail(line) = 1 .. Len(line) - 1
        /\ \A i \in 1 .. Len(line) - 1 : Tail(line)[i] = line[i + 1]
      BY <2>1, <1>2, TailOf DEF IsSequence
  <2>3. /\ 1 \in DOMAIN line
        /\ \A i \in DOMAIN Tail(line) : i + 1 \in DOMAIN line /\ Tail(line)[i] = line[i + 1]
      BY <2>2
  <2> QED BY <1>1, <1>2, <2>2, <2>3 DEF LineInv
<1>5. CarryInv'
  <2>1. IsSequence(now') /\ now' # << >> /\ Len(event') \in Nat /\ now' = event'
      BY <1>2, <1>4 DEF IsEvent, IsSequence, NoEvent
  <2>2. Passed' = 0
      BY <2>1 DEF Passed
  <2>3. \A i \in 1 .. Len(now') : now'[i] = event'[Passed' + i]
      BY <2>1, <2>2
  <2>4. SenderTo(event', 0) = DefaultSender /\ \A opt : AmountTo(event', opt, 0) = 0
      BY <1>4, NothingPassed
  <2>5. SenderTo(event, Passed)' = SenderTo(event', 0)
    <3>1. FromsTo(event, Passed)' = FromsTo(event', 0) /\ DefaultSender' = DefaultSender
        BY <1>2, <2>2 DEF FromsTo, Froms, DefaultSender
    <3> QED BY <3>1 DEF SenderTo
  <2>6. \A opt : AmountTo(event, opt, Passed)' = 0
      BY <2>2, <2>4
  <2>7. world'.trxInvokationOpts = [opt \in Options |-> AmountTo(event, opt, Passed)']
      BY <1>1, <1>2, <2>6 DEF CarryInv, NoOpts
  <2>8. committed'.trxInvokationOpts = NoOpts /\ stage' # "idle" /\ from' = SenderTo(event, Passed)'
      BY <1>1, <1>2, <2>4, <2>5 DEF CarryInv
  <2> QED BY <1>4, <2>1, <2>2, <2>3, <2>7, <2>8 DEF CarryInv
<1> QED BY <1>3, <1>4, <1>5 DEF IInv

\* Releasing takes the holds off the invariants of the world, and nothing else.
LEMMA Released ==
    ASSUME NEW w, NEW os \in Seq(Objects)
    PROVE  LET rs == ReleaseInvariants(w, os)
           IN  /\ rs \in Seq(Objects) /\ DOMAIN rs = DOMAIN os
               /\ \A id \in DOMAIN os :
                     /\ id \in w.invariants => ~rs[id].held
                     /\ rs[id].held => os[id].held
<1> DEFINE rs == ReleaseInvariants(w, os)
           S == w.invariants
<1>1. \A id \in DOMAIN os : os[id] \in Objects
    OBVIOUS
<1>2. \A id \in DOMAIN os : [os[id] EXCEPT !.held = FALSE] \in Objects
                            /\ [os[id] EXCEPT !.held = FALSE].held = FALSE
    BY <1>1 DEF Objects
<1>3. rs = [id \in DOMAIN os |-> IF id \in S THEN [os[id] EXCEPT !.held = FALSE] ELSE os[id]]
    BY DEF ReleaseInvariants
<1> HIDE DEF rs, S
<1>4. DOMAIN rs = DOMAIN os /\ \A id \in DOMAIN os :
         /\ rs[id] \in Objects
         /\ id \in S => rs[id].held = FALSE
         /\ id \notin S => rs[id] = os[id]
    BY <1>1, <1>2, <1>3
<1>5. rs \in Seq(Objects)
  <2>1. /\ DOMAIN os = 1 .. Len(os) /\ Len(os) \in Nat
        /\ rs = [id \in 1 .. Len(os) |->
                   IF id \in S THEN [os[id] EXCEPT !.held = FALSE] ELSE os[id]]
      BY <1>3
  <2> QED BY <1>4, <2>1
<1>6. \A id \in DOMAIN os : (id \in S => ~rs[id].held) /\ (rs[id].held => os[id].held)
    BY <1>4
<1> QED BY <1>4, <1>5, <1>6 DEF rs, S

\* Holding is the other way around: only invariants of the world are held anew.
LEMMA Held ==
    ASSUME NEW w, NEW os \in Seq(Objects), NEW type
    PROVE  LET hs == HoldInvariants(w, os, type)
           IN  /\ hs \in Seq(Objects) /\ DOMAIN hs = DOMAIN os
               /\ \A id \in DOMAIN os : hs[id].held =>
                     \/ os[id].held
                     \/ id \in w.invariants /\ InvariantFilter(type, os[id].kind)
<1> DEFINE hs == HoldInvariants(w, os, type)
           S == {id \in w.invariants : InvariantFilter(type, os[id].kind)}
<1>1. \A id \in DOMAIN os : os[id] \in Objects
    OBVIOUS
<1>2. \A id \in DOMAIN os : [os[id] EXCEPT !.held = TRUE] \in Objects
    BY <1>1 DEF Objects
<1>3. hs = [id \in DOMAIN os |-> IF id \in S THEN [os[id] EXCEPT !.held = TRUE] ELSE os[id]]
    BY DEF HoldInvariants
<1> HIDE DEF hs, S
<1>4. DOMAIN hs = DOMAIN os /\ \A id \in DOMAIN os :
         hs[id] \in Objects /\ (id \notin S => hs[id] = os[id])
    BY <1>1, <1>2, <1>3
<1>5. hs \in Seq(Objects)
  <2>1. /\ DOMAIN os = 1 .. Len(os) /\ Len(os) \in Nat
        /\ hs = [id \in 1 .. Len(os) |->
                   IF id \in S THEN [os[id] EXCEPT !.held = TRUE] ELSE os[id]]
      BY <1>3
  <2> QED BY <1>4, <2>1
<1>6. \A id \in DOMAIN os : hs[id].held => os[id].held \/ id \in S
    BY <1>4
<1> QED BY <1>4, <1>5, <1>6 DEF hs, S

LEMMA CheckInvariantsKeeps ==
    ASSUME IInv, CheckInvariants
    PROVE  IInv'
<1>1. TypeInv /\ HoldInv /\ DueInv /\ LineInv /\ CarryInv /\ ScriptInv
    BY DEF IInv
<1>2. /\ stage = "checking" /\ me' = me /\ spared' = spared
      /\ values' = values /\ sent' = sent
    BY DEF CheckInvariants, chain
<1>3. CASE ~InvariantsHold(world, objects, Reading)
    BY <1>3, Failed DEF CheckInvariants
<1>4. CASE InvariantsHold(world, objects, Reading)
  <2>1. /\ objects' = (IF world.newInvokation THEN ReleaseInvariants(world, objects) ELSE objects)
        /\ stage' = "checked" /\ world' = world /\ committed' = committed /\ line' = line
        /\ session' = session /\ Interactive' = Interactive
      BY <1>4 DEF CheckInvariants, Interactive
  <2>2. /\ objects' \in Seq(Objects) /\ DOMAIN objects' = DOMAIN objects
        /\ \A id \in DOMAIN objects : objects'[id].held => objects[id].held
        /\ \A id \in world.invariants \cap DOMAIN objects :
              world.newInvokation => ~objects'[id].held
      BY <1>1, <2>1, Released DEF TypeInv
  <2>3. TypeInv'
      BY <1>1, <1>2, <2>1, <2>2 DEF TypeInv, Fits
  <2>4. HoldInv'
      BY <1>1, <1>2, <2>1, <2>2 DEF HoldInv
  <2>5. DueInv' /\ LineInv' /\ CarryInv' /\ ScriptInv'
      BY <1>1, <1>2, <2>1 DEF DueInv, LineInv, CarryInv, ScriptInv
  <2> QED BY <2>3, <2>4, <2>5 DEF IInv
<1> QED BY <1>3, <1>4

LEMMA CheckExpectationsKeeps ==
    ASSUME IInv, CheckExpectations
    PROVE  IInv'
<1>1. TypeInv /\ HoldInv /\ DueInv /\ LineInv /\ CarryInv /\ ScriptInv
    BY DEF IInv
<1>2. /\ stage = "checked" /\ me' = me /\ objects' = objects
      /\ values' = values /\ sent' = sent
    BY DEF CheckExpectations, chain
<1>3. CASE ~ExpectationsHold(world, Reading)
    BY <1>3, Failed DEF CheckExpectations
<1>4. CASE ExpectationsHold(world, Reading)
  <2>1. /\ world' = AfterCheck(world) /\ stage' = "idle"
        /\ spared' = (IF world.newInvokation THEN spared \ world.invariants ELSE spared)
        /\ committed' = committed /\ line' = line
        /\ session' = session /\ Interactive' = Interactive
      BY <1>4 DEF CheckExpectations, Interactive
  <2>2. /\ IsWorld(world') /\ world'.actions = world.actions
        /\ world'.invariants = world.invariants /\ world'.contract = world.contract
        /\ world'.newInvokation = FALSE /\ world'.trxInvokationOpts = NoOpts
        /\ world'.expectations = IF world.newInvokation THEN {} ELSE world.expectations
      BY <1>1, <2>1, WorldChecked DEF TypeInv, Fits
  <2>3. TypeInv'
      BY <1>1, <1>2, <2>1, <2>2 DEF TypeInv, Fits
  <2>4. HoldInv'
      BY <1>1, <1>2, <2>1, <2>2 DEF HoldInv
  <2>5. DueInv'
      BY <1>1, <1>2, <2>1, <2>2 DEF DueInv, Due
  <2>6. LineInv' /\ CarryInv' /\ ScriptInv'
      BY <1>1, <1>2, <2>1, <2>2 DEF LineInv, CarryInv, ScriptInv, Matches
  <2> QED BY <2>3, <2>4, <2>5, <2>6 DEF IInv
<1> QED BY <1>3, <1>4

LEMMA WrapperKeeps ==
    ASSUME IInv, From \/ Trx \/ Gate \/ Given
    PROVE  IInv'
<1>1. /\ stage = "processing" /\ IsEvent(event) /\ Passed \in Nat /\ Passed + 1 \in DOMAIN event
      /\ This = event[Passed + 1] /\ from = SenderTo(event, Passed)
      /\ world.trxInvokationOpts = [opt \in Options |-> AmountTo(event, opt, Passed)]
      /\ IsWorld(world)
    BY Standing DEF From, Trx, Gate, Given, Processing, Fits
<1>2. /\ SenderTo(event, Passed + 1) = IF This.do = "From" THEN This.account
                                       ELSE SenderTo(event, Passed)
      /\ \A opt : AmountTo(event, opt, Passed + 1) =
                     IF This.do = "Trx" /\ This.opt = opt THEN This.amount
                                                          ELSE AmountTo(event, opt, Passed)
    BY <1>1, NextSender, NextAmount
<1>3. CASE From
  <2>1. This.do = "From" /\ HandOn(world, This.account) /\ This.do \in Wrapper
      BY <1>3 DEF From, Processing, Wrapper
  <2> QED BY <1>1, <1>2, <2>1, HandedOn
<1>4. CASE Trx
  <2> DEFINE w == [world EXCEPT !.trxInvokationOpts[This.opt] = This.amount]
  <2>1. This.do = "Trx" /\ HandOn(w, from) /\ This.do \in Wrapper
      BY <1>4 DEF Trx, Processing, Wrapper
  <2>2. /\ IsWorld(w) /\ w.actions = world.actions /\ w.newInvokation = world.newInvokation
        /\ w.invariants = world.invariants /\ w.expectations = world.expectations
        /\ w.contract = world.contract
        /\ w.trxInvokationOpts = [world.trxInvokationOpts EXCEPT ![This.opt] = This.amount]
    <3> DEFINE opts == [world.trxInvokationOpts EXCEPT ![This.opt] = This.amount]
    <3>1. w = [world EXCEPT !.trxInvokationOpts = opts]
        OBVIOUS
    <3> HIDE DEF opts, w
    <3>2. /\ IsWorld(w) /\ w.actions = world.actions
          /\ w.newInvokation = world.newInvokation
          /\ w.invariants = world.invariants /\ w.expectations = world.expectations
          /\ w.contract = world.contract /\ w.trxInvokationOpts = opts
        BY <1>1, <3>1, WorldWithOptions
    <3> QED BY <3>2 DEF opts
  <2> HIDE DEF w
  <2>3. w.trxInvokationOpts = [opt \in Options |-> AmountTo(event, opt, Passed + 1)]
      BY <1>1, <1>2, <2>1, <2>2
  <2> QED BY <1>1, <1>2, <2>1, <2>2, <2>3, HandedOn
<1>5. CASE Gate \/ Given
  <2>1. /\ This.do \in {"Gate", "Given"} /\ This.do \in Wrapper
        /\ HandOn(world, from) \/ Leave
      BY <1>5 DEF Gate, Given, Processing, Wrapper
  <2>2. CASE Leave
      BY <1>1, <2>2, LeftAlone DEF Leave, chain
  <2>3. CASE HandOn(world, from)
      BY <1>1, <1>2, <2>1, <2>3, HandedOn
  <2> QED BY <2>1, <2>2, <2>3
<1> QED BY <1>3, <1>4, <1>5

\* A transaction: an action more in the world and one more on the chain.
LEMMA RecordedWith ==
    ASSUME IInv, stage = "processing", NEW w, IsWorld(w), NEW outcome \in Recorded,
           Done(AddAction(w, outcome)), NEW opts, Sent(outcome, opts),
           w.actions = world.actions, w.invariants = world.invariants,
           w.contract \in 0 .. Len(values'),
           values' \in Seq(0 .. MaxValue), Len(values) <= Len(values'),
           UNCHANGED <<objects, spared>>
    PROVE  /\ IInv'
           /\ ~Interactive =>
                 world'.actions = [i \in DOMAIN sent' |-> sent'[i].outcome]
<1> DEFINE v == AddAction(w, outcome)
           t == [outcome |-> outcome, from |-> from, opts |-> opts]
<1>1. /\ IsWorld(v) /\ v.actions = Append(world.actions, outcome) /\ v.newInvokation
      /\ v.invariants = world.invariants /\ v.contract = w.contract
    BY WorldWithAction
<1>2. sent' = Append(sent, t) /\ world' = v
    BY DEF Sent, Done
<1>3. /\ world.actions \in Seq(Recorded) /\ IsSequence(sent) /\ Fits(world, objects, values)
      /\ ~Interactive => Matches(world, sent)
    BY Standing DEF Fits
<1>4. Append(world.actions, outcome) \in Seq(Recorded)
    BY <1>3
<1>5. Fits(v, objects', values')
    BY <1>1, <1>3, <1>4 DEF Fits
<1>6. /\ IsSequence(sent') /\ Len(sent') = Len(sent) + 1 /\ DOMAIN sent' = 1 .. Len(sent) + 1
      /\ \A i \in 1 .. Len(sent) : sent'[i] = sent[i]
      /\ sent'[Len(sent) + 1].outcome = outcome
    BY <1>2, <1>3, Appended
<1>7. ASSUME ~Interactive
      PROVE  Matches(v, sent') /\ world'.actions = [i \in DOMAIN sent' |-> sent'[i].outcome]
  <2> DEFINE as == world.actions
             bs == Append(as, outcome)
  <2>1. Len(as) = Len(sent) /\ \A i \in 1 .. Len(sent) : as[i] = sent[i].outcome
      BY <1>3, <1>7 DEF Matches
  <2>2. Len(sent) \in Nat
      BY <1>3 DEF IsSequence
  <2>3. /\ Len(bs) = Len(as) + 1 /\ DOMAIN bs = 1 .. Len(as) + 1 /\ bs \in Seq(Recorded)
        /\ \A i \in 1 .. Len(as) : bs[i] = as[i]
        /\ bs[Len(as) + 1] = outcome
      BY <1>3, <1>4
  <2> HIDE DEF as, bs
  <2>4. \A i \in DOMAIN sent' : bs[i] = sent'[i].outcome
    <3> TAKE i \in DOMAIN sent'
    <3>1. i \in 1 .. Len(sent) \/ i = Len(sent) + 1
        BY <1>6, <2>2
    <3> QED BY <1>6, <2>1, <2>3, <3>1
  <2>5. DOMAIN bs = DOMAIN sent' /\ Len(bs) = Len(sent')
      BY <1>6, <2>1, <2>3
  <2>6. bs = [i \in DOMAIN bs |-> bs[i]]
      BY <2>3
  <2>7. bs = [i \in DOMAIN sent' |-> sent'[i].outcome]
      BY <2>4, <2>5, <2>6
  <2>8. v.actions = bs /\ world'.actions = bs
      BY <1>1, <1>2 DEF bs, as
  <2> HIDE DEF v
  <2> QED BY <1>6, <2>4, <2>5, <2>7, <2>8 DEF Matches
<1>8. /\ objects' = objects /\ spared' = spared
      /\ objects \in Seq(Objects) /\ spared \subseteq DOMAIN objects
      /\ \A id \in DOMAIN objects : objects[id].held => id \in spared
    BY Standing
<1> HIDE DEF v
<1>9. Done(v)
    BY DEF v
<1> QED BY <1>1, <1>5, <1>6, <1>7, <1>8, <1>9, DoneWith

LEMMA InvokeKeeps ==
    ASSUME IInv, Invoke
    PROVE  /\ IInv'
           /\ ~Interactive =>
                 world'.actions = [i \in DOMAIN sent' |-> sent'[i].outcome]
<1>1. stage = "processing" /\ Known /\ objects' = objects /\ spared' = spared
    BY DEF Invoke, Processing
<1>2. PICK outcome \in Outcomes, v \in 0 .. MaxValue :
          /\ values' = [values EXCEPT ![world.contract] = v]
          /\ Sent(outcome, world.trxInvokationOpts)
          /\ Done(AddAction(world, outcome))
    BY DEF Invoke
<1>3. IsWorld(world) /\ world.contract \in 0 .. Len(values) /\ values \in Seq(0 .. MaxValue)
    BY <1>1, Standing DEF Fits
<1>4. values' \in Seq(0 .. MaxValue) /\ Len(values') = Len(values) /\ Len(values) \in Nat
  <2>1. /\ Len(values) \in Nat /\ DOMAIN values = 1 .. Len(values)
        /\ \A i \in 1 .. Len(values) : values[i] \in 0 .. MaxValue
    <3> DEFINE S == 0 .. MaxValue
    <3>1. values \in Seq(S)
        BY <1>3
    <3> HIDE DEF S
    <3>2. /\ Len(values) \in Nat /\ DOMAIN values = 1 .. Len(values)
          /\ \A i \in 1 .. Len(values) : values[i] \in S
        BY <3>1
    <3> QED BY <3>2 DEF S
  <2>2. values' = [i \in 1 .. Len(values) |-> IF i = world.contract THEN v ELSE values[i]]
      BY <1>2, <2>1
  <2>3. \A i \in 1 .. Len(values) :
            (IF i = world.contract THEN v ELSE values[i]) \in 0 .. MaxValue
      BY <2>1
  <2> QED BY <2>1, <2>2, <2>3
<1>5. world.contract \in 0 .. Len(values') /\ Len(values) <= Len(values')
    BY <1>3, <1>4
<1>6. outcome \in Recorded
    BY DEF Recorded
<1> QED BY <1>1, <1>2, <1>3, <1>4, <1>5, <1>6, RecordedWith

LEMMA DeployKeeps ==
    ASSUME IInv, Deploy
    PROVE  IInv'
<1> DEFINE w == [world EXCEPT !.contract = Len(values) + 1]
<1>1. stage = "processing" /\ objects' = objects /\ spared' = spared /\ me' = me
    BY DEF Deploy, Processing
<1>2. CASE Fail /\ UNCHANGED <<values, sent>>
    BY <1>2, Failed DEF Deploy, chain
<1>3. CASE /\ values' = Append(values, 0) /\ Sent(NoInvokation, NoOpts)
           /\ Done(AddAction(w, NoInvokation))
  <2>1. IsWorld(world) /\ values \in Seq(0 .. MaxValue)
      BY <1>1, Standing DEF Fits
  <2>2. /\ IsWorld(w) /\ w.actions = world.actions /\ w.invariants = world.invariants
        /\ w.contract = Len(values) + 1
      BY <2>1, WorldWithContract
  <2>3. 0 \in 0 .. MaxValue
      BY SessionsAssumption
  <2>4. /\ values' \in Seq(0 .. MaxValue) /\ Len(values') = Len(values) + 1
        /\ Len(values) \in Nat
      BY <1>3, <2>1, <2>3
  <2>5. NoInvokation \in Recorded /\ Len(values) + 1 \in 0 .. Len(values')
        /\ Len(values) <= Len(values')
      BY <2>4 DEF Recorded
  <2> HIDE DEF w
  <2> QED BY <1>1, <1>3, <2>2, <2>4, <2>5, RecordedWith
<1> QED BY <1>2, <1>3 DEF Deploy

LEMMA NewObjectKeeps ==
    ASSUME IInv, stage = "processing", NEW kind \in Kinds, NEW v \in Int, NewObject(kind, v),
           UNCHANGED <<values, sent, spared>>
    PROVE  IInv'
<1> DEFINE w == AddInvariant(world, Len(objects) + 1)
           o == Object(kind, v)
<1>1. objects' = Append(objects, o) /\ Done(w)
    BY DEF NewObject
<1>2. o \in Objects /\ ~o.held
    BY DEF Object, Objects
<1>3. /\ IsWorld(world) /\ world.actions \in Seq(Recorded)
      /\ world.contract \in 0 .. Len(values) /\ world.invariants \subseteq DOMAIN objects
      /\ Due(world) /\ (~Interactive => Matches(world, sent))
      /\ objects \in Seq(Objects) /\ spared \subseteq DOMAIN objects
      /\ values \in Seq(0 .. MaxValue) /\ IsSequence(sent)
      /\ \A id \in DOMAIN objects : objects[id].held => id \in spared
    BY Standing DEF Fits
<1>4. /\ IsWorld(w) /\ w.actions = world.actions /\ w.contract = world.contract
      /\ w.invariants = world.invariants \cup {Len(objects) + 1}
      /\ w.expectations = world.expectations
    BY <1>3, WorldWithInvariant
<1> HIDE DEF w, o
<1>5. /\ objects' \in Seq(Objects) /\ DOMAIN objects = 1 .. Len(objects) /\ Len(objects) \in Nat
      /\ DOMAIN objects' = 1 .. Len(objects) + 1
      /\ \A id \in 1 .. Len(objects) : objects'[id] = objects[id]
      /\ objects'[Len(objects) + 1] = o
    BY <1>1, <1>2, <1>3
<1>6. DOMAIN objects \subseteq DOMAIN objects' /\ Len(objects) + 1 \in DOMAIN objects'
    BY <1>5
<1>7. \A id \in DOMAIN objects' : objects'[id].held => id \in spared
  <2> TAKE id \in DOMAIN objects'
  <2>1. id \in DOMAIN objects \/ id = Len(objects) + 1
      BY <1>5
  <2> QED BY <1>2, <1>3, <1>5, <2>1
<1>8. values' = values /\ sent' = sent /\ spared' = spared /\ Len(values) \in Nat
    BY <1>3
<1>9. Fits(w, objects', values') /\ Due(w) /\ (~Interactive => Matches(w, sent'))
    BY <1>3, <1>4, <1>6, <1>8 DEF Fits, Due, Matches
<1> QED BY <1>1, <1>3, <1>5, <1>6, <1>7, <1>8, <1>9, DoneWith

LEMMA InvariantEventKeeps ==
    ASSUME IInv, InvariantEvent
    PROVE  IInv'
<1>1. /\ stage = "processing" /\ UNCHANGED <<values, sent, spared>>
      /\ me' = me /\ UNCHANGED chain
    BY DEF InvariantEvent, Processing, chain
<1>2. Known => Reading \in Int
  <2>1. world.contract \in 0 .. Len(values) /\ values \in Seq(0 .. MaxValue)
      BY <1>1, Standing DEF Fits
  <2> QED BY <2>1, SessionsAssumption DEF Known, Reading
<1>3. Reading \in Int
    BY <1>2 DEF Reading, Unreadable
<1>4. CASE Fail /\ UNCHANGED objects
    BY <1>1, <1>4, Failed
<1>5. \/ NewObject("Success", 0)
      \/ NewObject("Static", Reading)
      \/ Reading = This.value /\ NewObject("Remains", This.value)
      \/ Fail /\ UNCHANGED objects
    BY DEF InvariantEvent
<1> QED BY <1>1, <1>3, <1>4, <1>5, NewObjectKeeps DEF Kinds

LEMMA ExpectEventKeeps ==
    ASSUME IInv, ExpectEvent
    PROVE  IInv'
<1>1. stage = "processing" /\ UNCHANGED <<objects, me, chain, spared, values, sent>>
    BY DEF ExpectEvent, Processing, chain
<1>2. CASE Fail
    BY <1>1, <1>2, Failed
<1>3. ASSUME NEW v, Done(AddExpectation(world, [value |-> v, at |-> Len(world.actions)]))
      PROVE  IInv'
  <2> DEFINE e == [value |-> v, at |-> Len(world.actions)]
             w == AddExpectation(world, e)
  <2>1. IsWorld(world) /\ Due(world) /\ e.at = Len(world.actions)
      BY <1>1, Standing DEF Fits
  <2>2. /\ IsWorld(w) /\ w.actions = world.actions /\ w.contract = world.contract
        /\ w.invariants = world.invariants
        /\ w.expectations = world.expectations \cup {e}
      BY <2>1, WorldWithExpectation
  <2>3. Done(w)
      BY <1>3
  <2> HIDE DEF w, e
  <2>4. Due(w)
      BY <2>1, <2>2 DEF Due
  <2> QED BY <1>1, <2>2, <2>3, <2>4, WorldMade
<1> QED BY <1>2, <1>3 DEF ExpectEvent

LEMMA HoldEventKeeps ==
    ASSUME IInv, HoldEvent
    PROVE  IInv'
<1>1. /\ stage = "processing" /\ values' = values /\ sent' = sent /\ Done(world)
      /\ objects' = HoldInvariants(world, objects, This.type)
      /\ spared' = spared \cup {id \in world.invariants :
                                   InvariantFilter(This.type, objects[id].kind)}
    BY DEF HoldEvent, Processing, chain
<1>2. /\ Fits(world, objects, values) /\ Due(world) /\ (~Interactive => Matches(world, sent))
      /\ objects \in Seq(Objects) /\ spared \subseteq DOMAIN objects
      /\ values \in Seq(0 .. MaxValue) /\ IsSequence(sent) /\ Len(values) \in Nat
      /\ \A id \in DOMAIN objects : objects[id].held => id \in spared
    BY <1>1, Standing
<1>3. /\ objects' \in Seq(Objects) /\ DOMAIN objects' = DOMAIN objects
      /\ \A id \in DOMAIN objects : objects'[id].held =>
            \/ objects[id].held
            \/ id \in world.invariants /\ InvariantFilter(This.type, objects[id].kind)
    BY <1>1, <1>2, Held
<1>4. world.invariants \subseteq DOMAIN objects
    BY <1>2 DEF Fits
<1>5. /\ spared' \subseteq DOMAIN objects'
      /\ \A id \in DOMAIN objects' : objects'[id].held => id \in spared'
    BY <1>1, <1>2, <1>3, <1>4
<1>6. Fits(world, objects', values')
    BY <1>1, <1>2, <1>3 DEF Fits
<1> QED BY <1>1, <1>2, <1>3, <1>5, <1>6, DoneWith

LEMMA ClearEventKeeps ==
    ASSUME IInv, ClearEvent
    PROVE  IInv'
<1> DEFINE w == ClearInvariants(world, objects, This.type)
<1>1. stage = "processing" /\ UNCHANGED <<objects, values, sent, spared>> /\ Done(w)
    BY DEF ClearEvent, Processing, chain
<1>2. IsWorld(world) /\ Due(world)
    BY <1>1, Standing DEF Fits
<1>3. /\ IsWorld(w) /\ w.actions = world.actions /\ w.contract = world.contract
      /\ w.invariants \subseteq world.invariants /\ w.expectations = world.expectations
    BY <1>2, WorldCleared
<1> HIDE DEF w
<1>4. Due(w)
    BY <1>2, <1>3 DEF Due
<1> QED BY <1>1, <1>3, <1>4, WorldMade

\* Blocks pass: the values stay values.
LEMMA MinedValues ==
    ASSUME values \in Seq(0 .. MaxValue), NEW n, Mined(n)
    PROVE  /\ values' \in Seq(0 .. MaxValue)
           /\ Len(values') = Len(values) /\ Len(values) \in Nat
<1>1. MaxValue \in Nat
    BY SessionsAssumption
<1>2. Len(values) \in Nat /\ DOMAIN values = 1 .. Len(values)
    OBVIOUS
<1>3. CASE values' = values
    BY <1>2, <1>3
<1>4. CASE values' = [c \in DOMAIN values |-> (values[c] + 1) % (MaxValue + 1)]
  <2>1. \A c \in DOMAIN values : (values[c] + 1) % (MaxValue + 1) \in 0 .. MaxValue
    <3> TAKE c \in DOMAIN values
    <3>1. values[c] + 1 \in Nat /\ MaxValue + 1 \in Nat /\ MaxValue + 1 > 0
        BY <1>1, <1>2
    <3>2. \A a \in Nat, m \in Nat : m > 0 => a % m \in 0 .. m - 1
        OBVIOUS
    <3> QED BY <1>1, <3>1, <3>2
  <2>2. values' = [c \in 1 .. Len(values) |-> (values[c] + 1) % (MaxValue + 1)]
      BY <1>2, <1>4
  <2> QED BY <1>2, <2>1, <2>2
<1> QED BY <1>3, <1>4 DEF Mined

LEMMA OtherEventKeeps ==
    ASSUME IInv, AssertEvent \/ Alias \/ Throw \/ History \/ AdvanceBlocks \/ SleepUntilBlock
                 \/ InvokeUnknown
    PROVE  IInv'
<1>1. stage = "processing" /\ UNCHANGED <<objects, sent, spared>>
    BY DEF AssertEvent, Alias, Throw, History, AdvanceBlocks, SleepUntilBlock, InvokeUnknown,
           Leave, Processing, chain
<1>2. CASE Fail /\ UNCHANGED <<objects, me, chain, spared>>
    BY <1>2, Failed
<1>3. CASE Done(world) /\ values' = values
    BY <1>1, <1>3, LeftAlone
<1>4. CASE AdvanceBlocks
  <2>1. /\ IsWorld(world) /\ values \in Seq(0 .. MaxValue) /\ Fits(world, objects, values)
      BY <1>1, Standing DEF Fits
  <2>2. /\ values' \in Seq(0 .. MaxValue) /\ Len(values') = Len(values) /\ Len(values) \in Nat
        /\ Done(world)
      BY <1>4, <2>1, MinedValues DEF AdvanceBlocks
  <2>3. Fits(world, objects', values')
      BY <1>1, <2>1, <2>2 DEF Fits
  <2>4. objects' = objects /\ sent' = sent /\ spared' = spared
      BY <1>1
  <2> QED BY <1>1, <2>2, <2>3, <2>4, Standing, DoneWith
<1>5. \/ Fail /\ UNCHANGED <<objects, me, chain, spared>>
      \/ Done(world) /\ values' = values
      \/ AdvanceBlocks
    BY DEF AssertEvent, Alias, Throw, History, SleepUntilBlock, InvokeUnknown, Leave, chain
<1> QED BY <1>2, <1>3, <1>4, <1>5

\* Time passes while the interpreter waits.
LEMMA MineKeeps ==
    ASSUME IInv, Mine
    PROVE  IInv'
<1>1. TypeInv /\ HoldInv /\ DueInv /\ LineInv /\ CarryInv /\ ScriptInv
    BY DEF IInv
<1>2. UNCHANGED <<session, committed, world, objects, me, line, now, from, event, stage,
                  sent, spared>>
    BY DEF Mine
<1>3. /\ values' \in Seq(0 .. MaxValue) /\ Len(values') = Len(values)
    BY <1>1, MinedValues DEF Mine, TypeInv
<1>4. TypeInv'
    BY <1>1, <1>2, <1>3 DEF TypeInv, Fits, Interactive
<1>5. HoldInv' /\ DueInv' /\ LineInv' /\ ScriptInv'
    BY <1>1, <1>2 DEF HoldInv, DueInv, LineInv, ScriptInv, Due, Matches, Interactive
<1>6. CarryInv'
  <2>1. SenderTo(event, Passed)' = SenderTo(event, Passed)
      BY <1>2 DEF SenderTo, DefaultSender, FromsTo, Froms, Passed
  <2>2. \A opt : AmountTo(event, opt, Passed)' = AmountTo(event, opt, Passed)
      BY <1>2 DEF AmountTo, TrxsTo, Trxs, Passed
  <2>3. Passed' = Passed
      BY <1>2 DEF Passed
  <2> QED BY <1>1, <1>2, <2>1, <2>2, <2>3 DEF CarryInv
<1> QED BY <1>4, <1>5, <1>6 DEF IInv

LEMMA NextKeeps ==
    ASSUME IInv, [Next]_vars
    PROVE  IInv'
<1>1. CASE UNCHANGED vars
    BY <1>1 DEF vars, chain, IInv, TypeInv, HoldInv, DueInv, LineInv, CarryInv, ScriptInv,
                Fits, Due, Matches, Interactive, SenderTo, AmountTo, FromsTo, TrxsTo, Froms,
                Trxs, Passed, DefaultSender
<1>2. CASE ReadLine
    BY <1>2, ReadLineKeeps
<1>3. CASE Mine
    BY <1>3, MineKeeps
<1>4. CASE Step
  <2>1. CASE NextEvent
      BY <2>1, NextEventKeeps
  <2>2. CASE CheckInvariants
      BY <2>2, CheckInvariantsKeeps
  <2>3. CASE CheckExpectations
      BY <2>3, CheckExpectationsKeeps
  <2>4. CASE From \/ Trx \/ Gate \/ Given
      BY <2>4, WrapperKeeps
  <2>5. CASE Invoke
      BY <2>5, InvokeKeeps
  <2>6. CASE Deploy
      BY <2>6, DeployKeeps
  <2>7. CASE InvariantEvent
      BY <2>7, InvariantEventKeeps
  <2>8. CASE ExpectEvent
      BY <2>8, ExpectEventKeeps
  <2>9. CASE HoldEvent
      BY <2>9, HoldEventKeeps
  <2>10. CASE ClearEvent
      BY <2>10, ClearEventKeeps
  <2>11. CASE AssertEvent \/ Alias \/ Throw \/ History \/ AdvanceBlocks \/ SleepUntilBlock
                 \/ InvokeUnknown
      BY <2>11, OtherEventKeeps
  <2> QED BY <1>4, <2>1, <2>2, <2>3, <2>4, <2>5, <2>6, <2>7, <2>8, <2>9, <2>10, <2>11 DEF Step
<1> QED BY <1>1, <1>2, <1>3, <1>4 DEF Next

LEMMA Invariance == Spec => []IInv
<1>1. IInv /\ [Next]_vars => IInv'
    BY NextKeeps
<1> QED BY InitialInv, <1>1, PTL DEF Spec

-----------------------------------------------------------------------------
(* What the sessions promise.                                               *)

\* Every variable has its type, and the worlds refer to objects and contracts
\* that there are, also after a line that failed (initWorld).
THEOREM TypeTheorem == Spec => []TypeOK
<1>1. IInv => TypeOK
  <2> SUFFICES ASSUME IInv PROVE TypeOK
      OBVIOUS
  <2>1. TypeInv
      BY DEF IInv
  <2>2. ASSUME NEW w, Fits(w, objects, values)
        PROVE  /\ w.contract \in 0 .. Len(values)
               /\ w.invariants \subseteq DOMAIN objects
               /\ Range(w.actions) \subseteq Outcomes \cup {NoInvokation}
    <3>1. w.actions \in Seq(Recorded)
        BY <2>2 DEF Fits
    <3>2. Range(w.actions) \subseteq Recorded
        BY <3>1 DEF Range
    <3> QED BY <2>2, <3>2 DEF Fits, Recorded
  <2>3. \A id \in DOMAIN objects : objects[id].kind \in Kinds /\ objects[id].held \in BOOLEAN
    <3>1. objects \in Seq(Objects)
        BY <2>1 DEF TypeInv
    <3>2. \A id \in DOMAIN objects : objects[id] \in Objects
        BY <3>1
    <3> QED BY <3>2 DEF Objects
  <2>4. Range(values) \subseteq 0 .. MaxValue
    <3> DEFINE S == 0 .. MaxValue
    <3>1. values \in Seq(S)
        BY <2>1 DEF TypeInv
    <3> HIDE DEF S
    <3>2. Range(values) \subseteq S
        BY <3>1 DEF Range
    <3> QED BY <3>2 DEF S
  <2> QED BY <2>1, <2>2, <2>3, <2>4 DEF TypeOK, TypeInv
<1> QED BY Invariance, <1>1, PTL

\* A hold covers one check and not the next (checkInvariants, holdInvariants).
THEOREM HoldsTheorem == Spec => []HoldsCoverOneTransaction
<1>1. IInv => HoldsCoverOneTransaction
    BY DEF IInv, HoldInv, HoldsCoverOneTransaction
<1> QED BY Invariance, <1>1, PTL

\* No expectation waits while another transaction is recorded (checkExpectations).
THEOREM ExpectationsTheorem == Spec => []ExpectationsAreDue
<1>1. IInv => ExpectationsAreDue
    BY DEF IInv, DueInv, Due, ExpectationsAreDue
<1> QED BY Invariance, <1>1, PTL

\* No failure and no drift of a watched value passes unnoticed (checkInvariants).
THEOREM NothingUnnoticedTheorem == Spec => NothingPassesUnnoticed
<1> DEFINE P == (stage = "checking" /\ stage' = "checked" /\ world.newInvokation)
                  => \A id \in world.invariants \ spared :
                        InvariantHolds(world, objects[id], Reading)
<1>1. IInv /\ [Next]_vars => [P]_vars
  <2> SUFFICES ASSUME IInv, Next, stage = "checking", stage' = "checked", world.newInvokation,
                      NEW id \in world.invariants \ spared
               PROVE  InvariantHolds(world, objects[id], Reading)
      BY DEF vars
  <2>1. CheckInvariants
      BY DEF Next, Step, ReadLine, Mine, Idle, Processing, NextEvent, CheckExpectations, From,
             Trx, Gate, Given, Invoke, InvokeUnknown, Deploy, InvariantEvent, ExpectEvent,
             HoldEvent, ClearEvent, AssertEvent, Alias, Throw, History, AdvanceBlocks,
             SleepUntilBlock
  <2>2. InvariantsHold(world, objects, Reading)
      BY <2>1 DEF CheckInvariants, Fail
  <2>3. objects[id].held \/ InvariantHolds(world, objects[id], Reading)
      BY <2>2 DEF InvariantsHold
  <2>4. ~objects[id].held
      BY DEF IInv, TypeInv, Fits, HoldInv
  <2> QED BY <2>3, <2>4
<1> QED BY Invariance, <1>1, PTL DEF Spec, NothingPassesUnnoticed

\* A transaction has the sender and the options of its own event, and in a script
\* the recorded actions are the transactions (processCoreEvent, processEvents).
THEOREM TransactionsTheorem == Spec => TransactionsCarryTheirEvent
<1> DEFINE P == (Processing("Invoke") /\ sent' # sent)
                  => /\ Last(sent').from = SenderOf(event)
                     /\ Last(sent').opts = OptsOf(event)
                     /\ ~Interactive =>
                           world'.actions = [i \in DOMAIN sent' |-> sent'[i].outcome]
<1>1. IInv /\ [Next]_vars => [P]_vars
  <2> SUFFICES ASSUME IInv, Next, Processing("Invoke"), sent' # sent
               PROVE  /\ Last(sent').from = SenderOf(event)
                      /\ Last(sent').opts = OptsOf(event)
                      /\ ~Interactive =>
                            world'.actions = [i \in DOMAIN sent' |-> sent'[i].outcome]
      BY DEF vars, chain
  <2>1. Invoke
      BY DEF Next, Step, ReadLine, Mine, Idle, Processing, NextEvent, CheckInvariants,
             CheckExpectations, From, Trx, Gate, Given, InvokeUnknown, Deploy, InvariantEvent,
             ExpectEvent, HoldEvent, ClearEvent, AssertEvent, Alias, Throw, History,
             AdvanceBlocks, SleepUntilBlock, chain
  <2>2. stage = "processing" /\ This.do = "Invoke" /\ This.do \notin Wrapper
      BY DEF Processing, Wrapper
  <2>3. from = SenderOf(event) /\ world.trxInvokationOpts = OptsOf(event)
      BY <2>2, Standing, AllPassed
  <2>4. PICK outcome :
           sent' = Append(sent, [outcome |-> outcome, from |-> from,
                                 opts |-> world.trxInvokationOpts])
      BY <2>1 DEF Invoke, Sent
  <2>5. Last(sent') = [outcome |-> outcome, from |-> from, opts |-> world.trxInvokationOpts]
    <3> DEFINE t == [outcome |-> outcome, from |-> from, opts |-> world.trxInvokationOpts]
    <3>1. IsSequence(sent)
        BY <2>2, Standing
    <3>2. sent' = Append(sent, t)
        BY <2>4
    <3> HIDE DEF t
    <3>3. Len(sent') = Len(sent) + 1 /\ sent'[Len(sent) + 1] = t
        BY <3>1, <3>2, Appended
    <3>4. Last(sent') = t
        BY <3>3 DEF Last
    <3> QED BY <3>4 DEF t
  <2> QED BY <2>1, <2>3, <2>5, InvokeKeeps
<1> QED BY Invariance, <1>1, PTL DEF Spec, TransactionsCarryTheirEvent

================================================================================
