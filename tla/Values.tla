-------------------------------- MODULE Values --------------------------------
(***************************************************************************)
(* The values of the scenario language and how assertions compare them      *)
(* (src/scenario/src/Value.ts, AssertionEvent.ts). A comparison succeeds,   *)
(* fails or throws. Numbers are naturals; those from Safe on lose their     *)
(* last digit in a JavaScript number.                                       *)
(***************************************************************************)
EXTENDS Naturals, Sequences, FiniteSetsExt

CONSTANTS
    Numbers,     \* numbers that occur in values
    Safe,        \* stands for 2^53
    Tens,        \* 1, 10, 100, ..., beyond the largest number
    Texts,       \* words that occur in strings
    Spellings,   \* addresses, some in several spellings
    Checksum     \* the one address that a spelling stands for

VARIABLES asserted, given, expected, verdict
vars == <<asserted, given, expected, verdict>>

\* A number is held as a number or as text; a precise one has significant digits.
NumberV(n) == [type |-> "Number", val |-> n]
TextNumberV(n) == [type |-> "TextNumber", val |-> n]
PreciseV(n, digits) == [type |-> "Precise", val |-> n, precision |-> digits]
BoolV(b) == [type |-> "Bool", val |-> b]
StringV(s) == [type |-> "String", val |-> s]
AddressV(a) == [type |-> "Address", val |-> a]
ListV(els) == [type |-> "List", val |-> els]
NothingV == [type |-> "Nothing"]
AnythingV == [type |-> "Anything"]

\* A JavaScript number from Safe on has lost its last digit.
ToNumber(n) == IF n < Safe THEN n ELSE n - (n % 10)
Exact == {n \in Numbers : ToNumber(n) = n}

Scalars ==
    {NumberV(n) : n \in Exact} \cup {TextNumberV(n) : n \in Numbers}
    \cup {PreciseV(n, p) : n \in Exact, p \in {1, 2}}
    \cup {BoolV(b) : b \in BOOLEAN}
    \cup {StringV(s) : s \in Texts \cup Spellings} \cup {AddressV(a) : a \in Spellings}
    \cup {NothingV, AnythingV}
Values ==
    Scalars \cup {ListV(els) : els \in {<< >>} \cup {<<NumberV(n)>> : n \in Exact}
                                  \cup {<<NumberV(m), NumberV(n)>> : m, n \in Exact}}

Throws == "throws"
Says(b) == IF b THEN "yes" ELSE "no"
IsNumber(v) == v.type \in {"Number", "TextNumber"}

\* BigNumber.toPrecision, with rounding towards the floor.
Digits(n) == Min({d \in 1 .. Len(Tens) - 1 : n < Tens[d + 1]})
Unit(n, p) == IF Digits(n) <= p THEN 1 ELSE Tens[Digits(n) - p + 1]
ToPrecision(n, p) == n - (n % Unit(n, p))

\* expected.compareTo(given), for everything but lists.
CompareBools(a, b) ==
    CASE b.type = "Bool" -> Says(a.val = b.val)
      [] b.type = "Number" /\ b.val \in {0, 1} -> Says(a.val = (b.val = 0))
      [] b.type = "String" /\ b.val \in {"true", "false"} -> Says(a.val \/ b.val # "true")
      [] OTHER -> Throws
IsAddress(v) == v.val \in Spellings
CompareStrings(a, b) ==
    IF a.type = "String" /\ b.type = "String" THEN Says(a.val = b.val)
    ELSE IF b.type \in {"String", "Address"} /\ IsAddress(a) /\ IsAddress(b)
         THEN Says(Checksum[a.val] = Checksum[b.val]) ELSE Throws
(* Mutant of CompareNumbers: as JavaScript numbers. *)
CompareNumbersInexactly(a, b) ==
    IF IsNumber(b) \/ b.type = "Precise" THEN Says(ToNumber(a.val) = ToNumber(b.val)) ELSE Throws

\* A string that is no numeral is NaN, which is equal to no number.
CompareNumbers(a, b) ==
    CASE IsNumber(b) \/ b.type = "Precise" -> Says(a.val = b.val)
      [] b.type = "String" -> Says(FALSE)
      [] OTHER -> Throws
ComparePrecise(a, b) ==
    IF IsNumber(b) \/ b.type = "Precise"
    THEN Says(ToPrecision(a.val, a.precision) = ToPrecision(b.val, a.precision)) ELSE Throws
CompareScalars(a, b) ==
    CASE a.type = "Anything" -> Says(TRUE)
      [] a.type = "Nothing" -> Says(FALSE)
      [] a.type = "Bool" -> CompareBools(a, b)
      [] a.type \in {"String", "Address"} -> CompareStrings(a, b)
      [] a.type = "Precise" -> ComparePrecise(a, b)
      [] IsNumber(a) -> CompareNumbers(a, b)

\* every() stops at the first element that is not equal, and looks at nothing
\* beyond the elements of the expected list.
Element(els, i) == IF i \in DOMAIN els THEN els[i] ELSE NothingV
CompareLists(a, b) ==
    LET answer(i) == CompareScalars(a.val[i], Element(b.val, i))
        stops == {i \in DOMAIN a.val : answer(i) # "yes"}
    IN  IF stops = {} THEN "yes" ELSE answer(CHOOSE i \in stops : \A j \in stops : i <= j)
CompareTo(a, b) ==
    IF a.type # "List" THEN CompareScalars(a, b)
    ELSE IF b.type = "List" THEN CompareLists(a, b) ELSE Throws

\* given.compareOrder(expected): the numbers become JavaScript numbers, except
\* that a precise one keeps out of it.
CompareOrder(a, b) ==
    IF IsNumber(a) /\ (IsNumber(b) \/ b.type = "Precise")
    THEN LET x == ToNumber(a.val)
             y == ToNumber(b.val)
         IN  IF x = y THEN "equal" ELSE IF x > y THEN "greater" ELSE "less"
    ELSE Throws

Truthy(v) ==
    CASE v.type = "Nothing" -> FALSE [] v.type = "Anything" -> TRUE
      [] v.type = "Bool" -> v.val
      [] IsNumber(v) \/ v.type = "Precise" -> v.val # 0
      [] v.type = "List" -> v.val # << >>
      [] OTHER -> TRUE

-----------------------------------------------------------------------------
Verdict(answer, wanted) ==
    IF answer = Throws THEN Throws ELSE IF answer = wanted THEN "passes" ELSE "fails"

Init ==
    /\ asserted \in {"Equal", "LessThan", "GreaterThan", "True", "False"}
    /\ given \in Values
    /\ expected \in IF asserted \in {"True", "False"} THEN {BoolV(asserted = "True")} ELSE Values
    /\ verdict = ""

Assert(answer, wanted) ==
    /\ verdict = "" /\ verdict' = Verdict(answer, wanted)
    /\ UNCHANGED <<asserted, given, expected>>
AssertEqual ==
    asserted \in {"Equal", "True", "False"} /\ Assert(CompareTo(expected, given), "yes")
AssertLessThan == asserted = "LessThan" /\ Assert(CompareOrder(given, expected), "less")
AssertGreaterThan == asserted = "GreaterThan" /\ Assert(CompareOrder(given, expected), "greater")

Next == AssertEqual \/ AssertLessThan \/ AssertGreaterThan
Spec == Init /\ [][Next]_vars

-----------------------------------------------------------------------------
\* An equality that passes compares the same thing: the same number, up to the
\* significant digits of the expected one, the same address however it is
\* spelled, the same word (compareTo of each class). Booleans among other types
\* and lists of different lengths are another matter, see below.
SameNumber(a, b) ==
    /\ {a.type, b.type} \subseteq {"Number", "TextNumber", "Precise"}
    /\ IF a.type # "Precise" THEN a.val = b.val
       ELSE Unit(a.val, a.precision) = Unit(b.val, a.precision)
            /\ a.val \div Unit(a.val, a.precision) = b.val \div Unit(b.val, a.precision)
SameWord(a, b) ==
    /\ {a.type, b.type} \subseteq {"String", "Address"}
    /\ \/ a.val = b.val
       \/ {a.val, b.val} \subseteq Spellings /\ Checksum[a.val] = Checksum[b.val]
EqualMeansSame ==
    asserted = "Equal" /\ verdict = "passes" =>
        CASE expected.type = "Anything" -> TRUE
          [] expected.type = "Bool" -> given.type = "Bool" => given = expected
          [] expected.type = "List" ->
                 \A i \in DOMAIN expected.val \cap DOMAIN given.val :
                     SameNumber(expected.val[i], given.val[i])
          [] OTHER -> SameNumber(expected, given) \/ SameWord(expected, given)

\* Below 2^53 the order is decided, and above it an order that is asserted is
\* never the wrong one.
OrderIsSound ==
    /\ asserted = "LessThan" /\ verdict = "passes" => given.val < expected.val
    /\ asserted = "GreaterThan" /\ verdict = "passes" => given.val > expected.val
    /\ asserted \in {"LessThan", "GreaterThan"} /\ verdict = "fails" =>
           \/ given.val >= Safe \/ expected.val >= Safe
           \/ given.val = expected.val
           \/ (given.val < expected.val) = (asserted = "GreaterThan")

\* Two values of one type can always be compared, except to a list that is
\* longer: an assertion on what a contract returned passes or fails.
SameTypesCompare ==
    asserted = "Equal" /\ given.type = expected.type /\ verdict = Throws =>
        given.type = "List" /\ Len(given.val) < Len(expected.val)

-----------------------------------------------------------------------------
(* What the documentation of the assertions says, and the code does not do. *)

\* "Equal given:<Value> expected:<Value>" - Asserts that given matches expected.
EqualListsAreAsLong ==
    asserted = "Equal" /\ verdict = "passes" /\ {given.type, expected.type} = {"List"} =>
        Len(given.val) = Len(expected.val)

\* "True given:<Value>" - Asserts that given is true.
TrueMeansTruthy == asserted = "True" /\ verdict = "passes" => Truthy(given)
===============================================================================
