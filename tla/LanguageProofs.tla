----------------------------- MODULE LanguageProofs -----------------------------
(***************************************************************************)
(* Every argument of a command gets its share of the events, whatever the  *)
(* tables of the commands and the events that are handed to them; and an   *)
(* assertion that passes is true, whatever the values.                     *)
(*                                                                         *)
(* The arguments are bound one after the other, and the events are used up *)
(* from the front.  How many are used up after m arguments is a number     *)
(* that the signature alone decides (UsedUp): the positions of the first m *)
(* arguments, or all events once one of them is variadic.  What an         *)
(* argument took and what is left are cut off there (BindingInv).          *)
(***************************************************************************)
EXTENDS Language, FiniteSetTheorems, TLAPS

UsedUp(args, size, m) ==
    IF C!VariadicBefore(args, m + 1) \/ C!Position(args, m) > size THEN size
                                                                   ELSE C!Position(args, m)

Matched == {"binding", "unreadable", "missing", "extra", "no sender", "run"}
Binds == {"nothing", "read", "world", "default", "rescue"}

\* The row that matched, and what it gave to its arguments.
RowInv ==
    \E i \in DOMAIN table :
        /\ expr = table[i] /\ C!Matches(expr, event)
        /\ \A j \in 1 .. i - 1 : ~C!Matches(table[j], event)

BoundInv(b, args, supplied, i) ==
    /\ b.how \in Binds
    /\ b.how \notin {"read", "rescue"} => b.events = << >>
    /\ b.events = SubSeq(supplied, UsedUp(args, Len(supplied), i - 1) + 1,
                                   UsedUp(args, Len(supplied), i))
    /\ C!Required(args[i]) =>
         C!Position(args, i) <= Len(supplied) /\ ~C!VariadicBefore(args, i)

\* What the first k arguments took.
Taken(b, k) == UNION {{j} \X DOMAIN b[j].events : j \in 1 .. k}

BindingInv ==
    LET size == Len(C!Supplied)
        m == Len(bound)
    IN  /\ IsSequence(bound) /\ m <= Len(expr.args)
        /\ rest = SubSeq(C!Supplied, UsedUp(expr.args, size, m) + 1, size)
        /\ \A i \in DOMAIN bound : BoundInv(bound[i], expr.args, C!Supplied, i)
        /\ \A k \in 0 .. m : C!Cardinality(Taken(bound, k)) = UsedUp(expr.args, size, k)

StatusInv ==
    /\ status \in {"missing", "unreadable"} => Len(bound) < Len(expr.args)
    /\ status \in {"extra", "no sender", "run"} => Len(bound) = Len(expr.args)
    /\ status = "missing" => ~C!Admits(expr.args, Len(C!Supplied))
    /\ status = "extra" => rest # << >>
    /\ status = "run" => rest = << >> /\ (expr.requireFrom => from # NoSender)

CommandInv ==
    part = "command" =>
        /\ table \in Tables /\ event \in Events /\ from \in Senders \cup {NoSender}
        /\ \/ status \in {"matching", "unknown"} /\ expr = C!Nobody /\ bound = << >>
           \/ status \in Matched /\ RowInv /\ BindingInv /\ StatusInv

--------------------------------------------------------------------------------
(***************************************************************************)
(* How many events a signature uses up.                                    *)
(***************************************************************************)
LEMMA SameCardinality ==
    ASSUME NEW S
    PROVE  C!Cardinality(S) = Cardinality(S)
BY Zenon DEF C!Cardinality, Cardinality, C!IsFiniteSet, IsFiniteSet

LEMMA PositionStep ==
    ASSUME NEW args, NEW m \in Nat
    PROVE  /\ C!Position(args, 0) = 0 /\ C!Position(args, m) \in Nat
           /\ C!Position(args, m + 1) =
                C!Position(args, m) + (IF C!Positional(args[m + 1]) THEN 1 ELSE 0)
PROOF
  <1> DEFINE P(i) == C!Positional(args[i])
             S == {i \in 1 .. m : P(i)}
             T == {i \in 1 .. m + 1 : P(i)}
  <1>1. IsFiniteSet(S) /\ Cardinality(S) \in Nat
    <2>1. IsFiniteSet(1 .. m) /\ S \in SUBSET (1 .. m)
      BY FS_Interval
    <2>2. IsFiniteSet(S)
      BY <2>1, FS_Subset
    <2> QED
      BY <2>2, FS_CardinalityType
  <1>2. {i \in 1 .. 0 : P(i)} = {}
    OBVIOUS
  <1>3. T = IF P(m + 1) THEN S \cup {m + 1} ELSE S
    <2>1. 1 .. m + 1 = (1 .. m) \cup {m + 1}
      OBVIOUS
    <2> HIDE DEF P
    <2> QED
      BY <2>1
  <1>4. m + 1 \notin S
    OBVIOUS
  <1>5. Cardinality(T) = Cardinality(S) + (IF P(m + 1) THEN 1 ELSE 0)
    <2>1. Cardinality(S \cup {m + 1}) = Cardinality(S) + 1
      BY <1>1, <1>4, FS_AddElement
    <2> HIDE DEF S, T, P
    <2> QED
      BY <1>1, <1>3, <2>1
  <1>6. C!Position(args, m) = Cardinality(S) /\ C!Position(args, m + 1) = Cardinality(T)
        /\ C!Position(args, 0) = Cardinality({i \in 1 .. 0 : P(i)})
    BY SameCardinality DEF C!Position
  <1>7. C!Position(args, 0) = 0
    BY <1>2, <1>6, FS_EmptySet
  <1> HIDE DEF S, T
  <1> QED
    BY <1>1, <1>5, <1>6, <1>7

LEMMA VariadicStep ==
    ASSUME NEW args, NEW m \in Nat
    PROVE  /\ ~C!VariadicBefore(args, 1)
           /\ C!VariadicBefore(args, m + 2)
                <=> C!VariadicBefore(args, m + 1) \/ C!Is(args[m + 1], "variadic")
PROOF
  <1>1. m + 1 - 1 = m /\ m + 2 - 1 = m + 1 /\ 1 .. m + 1 = (1 .. m) \cup {m + 1}
        /\ 1 .. 1 - 1 = {}
    OBVIOUS
  <1> QED
    BY <1>1 DEF C!VariadicBefore

LEMMA UsedUpStep ==
    ASSUME NEW args, NEW size \in Nat, NEW m \in Nat
    PROVE  LET used == UsedUp(args, size, m)
               now  == UsedUp(args, size, m + 1)
               arg  == args[m + 1]
           IN  /\ UsedUp(args, size, 0) = 0
               /\ used \in 0 .. size /\ now \in used .. size
               /\ used < size => ~C!VariadicBefore(args, m + 1) /\ used = C!Position(args, m)
               /\ C!Is(arg, "variadic") => now = size
               /\ ~C!Positional(arg) => now = used
               /\ C!Positional(arg) /\ used < size /\ ~C!Is(arg, "variadic") => now = used + 1
               /\ C!VariadicBefore(args, m + 1) => used = size
               /\ ~C!VariadicBefore(args, m + 1) /\ C!Positional(arg) =>
                     used < size <=> C!Position(args, m + 1) <= size
PROOF
  <1>1. /\ C!Position(args, 0) = 0 /\ C!Position(args, m) \in Nat
        /\ C!Position(args, m + 1) =
             C!Position(args, m) + (IF C!Positional(args[m + 1]) THEN 1 ELSE 0)
    BY PositionStep
  <1>2. ~C!VariadicBefore(args, 0 + 1)
    BY VariadicStep
  <1>3. C!VariadicBefore(args, m + 1 + 1)
          <=> C!VariadicBefore(args, m + 1) \/ C!Is(args[m + 1], "variadic")
    BY VariadicStep
  <1>4. C!Is(args[m + 1], "variadic") => C!Positional(args[m + 1])
    BY DEF C!Positional
  <1> QED
    BY <1>1, <1>2, <1>3, <1>4 DEF UsedUp

--------------------------------------------------------------------------------
(***************************************************************************)
(* Pieces of the events.                                                   *)
(***************************************************************************)
Piece(s, a, b) == SubSeq(s, a + 1, b)

LEMMA SequenceOf ==
    ASSUME NEW s
    PROVE  IsSequence(s) <=> \E S : s \in Seq(S)
PROOF
  <1>1. ASSUME IsSequence(s) PROVE \E S : s \in Seq(S)
    <2> DEFINE S == {s[i] : i \in 1 .. Len(s)}
    <2>1. s \in Seq(S)
      BY <1>1 DEF IsSequence
    <2> QED
      BY <2>1
  <1>2. ASSUME NEW S, s \in Seq(S) PROVE IsSequence(s)
    BY <1>2 DEF IsSequence
  <1> QED
    BY <1>1, <1>2

LEMMA PieceOf ==
    ASSUME NEW s, IsSequence(s), NEW a \in 0 .. Len(s), NEW b \in a .. Len(s)
    PROVE  LET p == Piece(s, a, b)
           IN  /\ IsSequence(p) /\ Len(p) = b - a /\ DOMAIN p = 1 .. b - a
               /\ \A i \in 1 .. b - a : p[i] = s[a + i]
               /\ p = << >> <=> a = b
PROOF
  <1>1. PICK S : s \in Seq(S)
    BY SequenceOf
  <1> DEFINE p == Piece(s, a, b)
  <1>2. p \in Seq(S) /\ Len(p) = b - a /\ \A i \in 1 .. b - a : p[i] = s[a + i]
    BY <1>1 DEF Piece
  <1> HIDE DEF p
  <1>3. DOMAIN p = 1 .. b - a /\ (p = << >> <=> a = b)
    BY <1>2
  <1>4. IsSequence(p)
    BY <1>2, SequenceOf
  <1> QED
    BY <1>2, <1>3, <1>4 DEF p

LEMMA EmptyPiece ==
    ASSUME NEW s, IsSequence(s), NEW a \in 0 .. Len(s)
    PROVE  Piece(s, a, Len(s)) = << >> <=> a = Len(s)
PROOF
  <1>1. Len(s) \in a .. Len(s)
    BY DEF IsSequence
  <1> DEFINE p == Piece(s, a, Len(s))
  <1>2. Len(p) = Len(s) - a /\ IsSequence(p)
    BY <1>1, PieceOf
  <1>3. PICK S : p \in Seq(S)
    BY <1>2, SequenceOf
  <1>4. p = << >> <=> Len(p) = 0
    <2> HIDE DEF p
    <2> QED
      BY <1>3
  <1> HIDE DEF p
  <1> QED
    BY <1>1, <1>2, <1>4 DEF p

LEMMA FirstOfPiece ==
    ASSUME NEW s, IsSequence(s), NEW a \in 0 .. Len(s) - 1
    PROVE  LET p == Piece(s, a, Len(s))
           IN  /\ p # << >> /\ <<Head(p)>> = Piece(s, a, a + 1)
               /\ Tail(p) = Piece(s, a + 1, Len(s))
PROOF
  <1>1. PICK S : s \in Seq(S)
    BY SequenceOf
  <1> DEFINE p == Piece(s, a, Len(s))
             q == Piece(s, a + 1, Len(s))
  <1>2. /\ p \in Seq(S) /\ Len(p) = Len(s) - a
        /\ \A i \in 1 .. Len(s) - a : p[i] = s[a + i]
    BY <1>1 DEF Piece
  <1>3. /\ q \in Seq(S) /\ Len(q) = Len(s) - (a + 1)
        /\ \A i \in 1 .. Len(s) - (a + 1) : q[i] = s[a + 1 + i]
    BY <1>1 DEF Piece
  <1>4. Piece(s, a, a + 1) = <<s[a + 1]>>
    <2> DEFINE r == Piece(s, a, a + 1)
    <2>1. r \in Seq(S) /\ Len(r) = 1 /\ r[1] = s[a + 1]
      <3>1. a \in 0 .. Len(s) /\ a + 1 \in a .. Len(s) /\ a + 1 - a = 1
        BY <1>1
      <3>2. Len(r) = a + 1 - a /\ \A i \in 1 .. a + 1 - a : r[i] = s[a + i]
        <4> DEFINE b == a + 1
        <4>1. b \in a .. Len(s)
          BY <3>1
        <4> HIDE DEF b
        <4>2. LET t == Piece(s, a, b) IN Len(t) = b - a /\ \A i \in 1 .. b - a : t[i] = s[a + i]
          BY <3>1, <4>1, PieceOf
        <4> QED
          BY <4>2 DEF b
      <3>3. r \in Seq(S)
        BY <1>1 DEF Piece
      <3> HIDE DEF r
      <3> QED
        BY <3>1, <3>2, <3>3
    <2> HIDE DEF r
    <2>2. r = <<r[1]>>
      BY <2>1
    <2> QED
      BY <2>1, <2>2 DEF r
  <1> HIDE DEF p, q
  <1>5. p # << >> /\ Head(p) = s[a + 1]
    BY <1>2
  <1>6. Tail(p) = q
    <2>1. Tail(p) \in Seq(S) /\ Len(Tail(p)) = Len(s) - a - 1
      BY <1>2, <1>5
    <2>2. ASSUME NEW i \in 1 .. Len(q) PROVE Tail(p)[i] = q[i]
      <3>1. Tail(p)[i] = p[i + 1] /\ i + 1 \in 1 .. Len(s) - a
        <4>1. i \in 1 .. Len(p) - 1 /\ i + 1 \in 1 .. Len(s) - a
          BY <1>2, <1>3
        <4>2. Tail(p)[i] = p[i + 1]
          BY <1>2, <4>1
        <4> QED
          BY <4>1, <4>2
      <3>2. p[i + 1] = s[a + (i + 1)] /\ q[i] = s[a + 1 + i]
        BY <1>2, <1>3, <3>1
      <3>3. a + (i + 1) = a + 1 + i
        BY <1>1, <1>3
      <3> QED
        BY <3>1, <3>2, <3>3
    <2>3. Len(Tail(p)) = Len(q)
      BY <1>3, <2>1
    <2> QED
      BY <1>3, <2>1, <2>2, <2>3
  <1> QED
    BY <1>4, <1>5, <1>6 DEF p, q

--------------------------------------------------------------------------------
(***************************************************************************)
(* The first command that matches.                                         *)
(***************************************************************************)
LessThan == {pair \in Nat \X Nat : pair[1] < pair[2]}

LEMMA LessThanWellFounded == IsWellFoundedOn(LessThan, Nat)
BY NatLessThanWellFounded DEF OpToRel, LessThan

LEMMA LeastOf ==
    ASSUME NEW S \in SUBSET Nat, S # {}
    PROVE  C!Min(S) \in S /\ \A y \in S : C!Min(S) <= y
PROOF
  <1>1. PICK x \in S : \A y \in S : ~ (<<y, x>> \in LessThan)
    BY LessThanWellFounded, WFMin
  <1>2. \A y \in S : <<y, x>> \in LessThan <=> y < x
    BY DEF LessThan
  <1>3. \A y \in S : x <= y
    <2> TAKE y \in S
    <2>1. x \in Nat /\ y \in Nat
      OBVIOUS
    <2>2. ~(y < x)
      BY <1>1, <1>2
    <2> QED
      BY <2>1, <2>2
  <1> QED
    BY <1>3 DEF C!Min

LEMMA FirstMatches ==
    ASSUME NEW rows, IsSequence(rows), NEW e, C!Matching(rows, e) # {}
    PROVE  LET i == C!FirstMatch(rows, e)
           IN  /\ i \in DOMAIN rows /\ C!Matches(rows[i], e)
               /\ \A j \in 1 .. i - 1 : ~C!Matches(rows[j], e)
PROOF
  <1> DEFINE S == C!Matching(rows, e)
             i == C!FirstMatch(rows, e)
  <1>1. DOMAIN rows = 1 .. Len(rows) /\ Len(rows) \in Nat
    BY DEF IsSequence
  <1>2. S \in SUBSET Nat /\ S \subseteq 1 .. Len(rows)
    BY <1>1 DEF C!Matching
  <1>3. i \in S /\ \A y \in S : i <= y
    BY <1>2, LeastOf DEF C!FirstMatch
  <1>4. i \in DOMAIN rows /\ C!Matches(rows[i], e)
    BY <1>3 DEF C!Matching
  <1>5. ASSUME NEW j \in 1 .. i - 1, C!Matches(rows[j], e) PROVE FALSE
    <2>1. i \in 1 .. Len(rows) /\ j \in 1 .. Len(rows) /\ j < i
      BY <1>1, <1>4
    <2>2. j \in S
      BY <1>1, <1>5, <2>1 DEF C!Matching
    <2> QED
      BY <1>3, <2>1, <2>2
  <1> QED
    BY <1>4, <1>5

LEMMA ArgumentsOf ==
    ASSUME NEW row, row.namePos \in Nat, NEW e, IsSequence(e.list), C!Matches(row, e)
    PROVE  IsSequence(C!ArgsOf(row, e))
PROOF
  <1> DEFINE s == C!AsList(e)
             n == row.namePos + 1
  <1>1. IsSequence(s)
    <2>1. <<e>> \in Seq({e})
      OBVIOUS
    <2>2. IsSequence(<<e>>)
      BY <2>1, SequenceOf
    <2> QED
      BY <2>2 DEF C!AsList
  <1>2. CASE row.catchall
    BY <1>1, <1>2 DEF C!ArgsOf
  <1>3. CASE ~row.catchall
    <2>1. n \in DOMAIN s
      BY <1>3 DEF C!Matches, C!HasName
    <2>2. PICK S : s \in Seq(S)
      BY <1>1, SequenceOf
    <2>3. n \in 1 .. Len(s) /\ Len(s) \in Nat
      BY <2>1, <2>2
    <2> HIDE DEF s, n
    <2>4. SubSeq(s, 1, n - 1) \in Seq(S)
      BY <2>2, <2>3
    <2>5. SubSeq(s, n + 1, Len(s)) \in Seq(S)
      BY <2>2, <2>3
    <2>6. SubSeq(s, 1, n - 1) \o SubSeq(s, n + 1, Len(s)) \in Seq(S)
      BY <2>4, <2>5
    <2> QED
      BY <1>3, <2>6, SequenceOf DEF C!ArgsOf, C!WithoutIndex, s, n
  <1> QED
    BY <1>2, <1>3

LEMMA ShareStep ==
    ASSUME NEW args, NEW size \in Nat, NEW m \in Nat
    PROVE  LET share == C!Share(args, size, m + 1)
               used == UsedUp(args, size, m)
               now == UsedUp(args, size, m + 1)
           IN  /\ C!Cardinality(share) = now - used
               /\ share # {} => C!Min(share) = used + 1
PROOF
  <1> DEFINE i == m + 1
             share == C!Share(args, size, i)
             used == UsedUp(args, size, m)
             now == UsedUp(args, size, i)
             arg == args[i]
  <1>2. /\ used \in 0 .. size /\ now \in used .. size
        /\ used < size => ~C!VariadicBefore(args, i) /\ used = C!Position(args, m)
        /\ C!Is(arg, "variadic") => now = size
        /\ ~C!Positional(arg) => now = used
        /\ C!Positional(arg) /\ used < size /\ ~C!Is(arg, "variadic") => now = used + 1
        /\ C!VariadicBefore(args, i) => used = size
        /\ ~C!VariadicBefore(args, i) /\ C!Positional(arg) =>
              (used < size <=> C!Position(args, i) <= size)
    BY UsedUpStep
  <1>3. /\ C!Position(args, m) \in Nat
        /\ C!Position(args, i) = C!Position(args, m) + (IF C!Positional(arg) THEN 1 ELSE 0)
    BY PositionStep
  <1>4. C!Is(arg, "variadic") => C!Positional(arg)
    BY DEF C!Positional
  <1> SUFFICES C!Cardinality(share) = now - used /\ (share # {} => C!Min(share) = used + 1)
    OBVIOUS
  <1> HIDE DEF i, used, now, arg
  <1>5. ASSUME share = {}, now = used PROVE Cardinality(share) = now - used
    BY <1>2, <1>5, FS_EmptySet
  <1>6. CASE ~C!Positional(arg) \/ C!VariadicBefore(args, i)
    <2>1. share = {}
      BY <1>6 DEF C!Share, arg
    <2>2. now = used
      BY <1>2, <1>6
    <2> HIDE DEF share
    <2> QED
      BY <1>5, <2>1, <2>2, SameCardinality
  <1>7. CASE C!Positional(arg) /\ ~C!VariadicBefore(args, i) /\ C!Is(arg, "variadic")
    <2>1. share = C!Position(args, i) .. size
      BY <1>7 DEF C!Share, arg
    <2>2. used < size => share = used + 1 .. size
      BY <1>2, <1>3, <1>7, <2>1
    <2>3. used = size => share = {}
      BY <1>2, <1>3, <1>7, <2>1
    <2>4. now = size
      BY <1>2, <1>7
    <2> HIDE DEF share
    <2>5. CASE used = size
      BY <1>5, <2>3, <2>4, <2>5, SameCardinality
    <2>6. CASE used < size
      <3>1. share = used + 1 .. size
        BY <2>2, <2>6
      <3>2. Cardinality(share) = now - used
        <4>1. used + 1 \in Int /\ size \in Int /\ ~(used + 1 > size)
          BY <1>2, <2>6
        <4>2. Cardinality(used + 1 .. size) = size - (used + 1) + 1
          <5> DEFINE a == used + 1
          <5> HIDE DEF a
          <5>1. Cardinality(a .. size) = size - a + 1
            BY <4>1, FS_Interval DEF a
          <5> QED
            BY <5>1 DEF a
        <4> QED
          BY <1>2, <2>4, <3>1, <4>2
      <3>3. C!Min(share) = used + 1
        <4>1. share \in SUBSET Nat /\ share # {} /\ used + 1 \in share
          BY <1>2, <2>6, <3>1
        <4>2. C!Min(share) \in share /\ C!Min(share) <= used + 1
          BY <4>1, LeastOf
        <4> QED
          BY <1>2, <3>1, <4>2
      <3> QED
        BY <3>2, <3>3, SameCardinality
    <2> QED
      BY <1>2, <2>5, <2>6
  <1>8. CASE C!Positional(arg) /\ ~C!VariadicBefore(args, i) /\ ~C!Is(arg, "variadic")
    <2>1. share = {C!Position(args, i)} \cap (1 .. size)
      BY <1>8 DEF C!Share, arg
    <2>2. used < size => share = {used + 1} /\ now = used + 1
      BY <1>2, <1>3, <1>8, <2>1
    <2>3. used = size => share = {} /\ now = used
      BY <1>2, <1>3, <1>8, <2>1
    <2> HIDE DEF share
    <2>4. CASE used = size
      BY <1>5, <2>3, <2>4, SameCardinality
    <2>5. CASE used < size
      <3>1. Cardinality(share) = 1
        BY <2>2, <2>5, FS_Singleton
      <3>2. share \in SUBSET Nat
        BY <1>2, <2>2, <2>5
      <3>3. C!Min(share) \in share
        BY <2>2, <2>5, <3>2, LeastOf
      <3> QED
        BY <1>2, <2>2, <2>5, <3>1, <3>3, SameCardinality
    <2> QED
      BY <1>2, <2>4, <2>5
  <1> QED
    BY <1>6, <1>7, <1>8

LEMMA ShareOf ==
    ASSUME NEW args, NEW size \in Nat, NEW i \in Nat \ {0}
    PROVE  LET share == C!Share(args, size, i)
               before == UsedUp(args, size, i - 1)
           IN  /\ C!Cardinality(share) = UsedUp(args, size, i) - before
               /\ share # {} => C!Min(share) = before + 1
PROOF
  <1> DEFINE m == i - 1
  <1>1. m \in Nat /\ m + 1 = i
    OBVIOUS
  <1> HIDE DEF m
  <1>2. /\ C!Cardinality(C!Share(args, size, i)) = UsedUp(args, size, i) - UsedUp(args, size, m)
        /\ C!Share(args, size, i) # {} =>
             C!Min(C!Share(args, size, i)) = UsedUp(args, size, m) + 1
    BY <1>1, ShareStep
  <1> QED
    BY <1>2 DEF m

--------------------------------------------------------------------------------
(***************************************************************************)
(* What the arguments took, counted.                                       *)
(***************************************************************************)
LEMMA TakenBeforeIs ==
    ASSUME NEW k \in Nat
    PROVE  C!TakenBefore(k + 1) = C!Cardinality(Taken(bound, k))
PROOF
  <1>1. k + 1 - 1 = k
    OBVIOUS
  <1> QED
    BY <1>1 DEF C!TakenBefore, Taken

LEMMA TakenStep ==
    ASSUME NEW b, NEW m \in Nat, NEW size \in Nat, NEW n \in Nat,
           \A j \in 1 .. m : DOMAIN b[j].events \subseteq 1 .. size,
           DOMAIN b[m + 1].events = 1 .. n
    PROVE  C!Cardinality(Taken(b, m + 1)) = C!Cardinality(Taken(b, m)) + n
PROOF
  <1> DEFINE S == Taken(b, m)
             T == {m + 1} \X (1 .. n)
  <1>1. Taken(b, m + 1) = S \cup T
    <2>1. 1 .. m + 1 = (1 .. m) \cup {m + 1}
      OBVIOUS
    <2> QED
      BY <2>1 DEF Taken
  <1>2. S \subseteq (1 .. m) \X (1 .. size)
    BY DEF Taken
  <1>3. IsFiniteSet(S)
    <2>1. IsFiniteSet(1 .. m) /\ IsFiniteSet(1 .. size)
      BY FS_Interval
    <2>2. IsFiniteSet((1 .. m) \X (1 .. size))
      BY <2>1, FS_Product
    <2> QED
      BY <1>2, <2>2, FS_Subset
  <1>4. IsFiniteSet(T) /\ Cardinality(T) = n
    <2>1. IsFiniteSet(1 .. n) /\ Cardinality(1 .. n) = n
      <3>1. IsFiniteSet(1 .. n) /\ Cardinality(1 .. n) = IF 1 > n THEN 0 ELSE n - 1 + 1
        BY FS_Interval
      <3> QED
        BY <3>1
    <2>2. IsFiniteSet({m + 1}) /\ Cardinality({m + 1}) = 1
      BY FS_Singleton
    <2>3. IsFiniteSet(T) /\ Cardinality(T) = Cardinality({m + 1}) * Cardinality(1 .. n)
      BY <2>1, <2>2, FS_Product
    <2> QED
      BY <2>1, <2>2, <2>3
  <1>5. S \cap T = {}
    BY <1>2
  <1> HIDE DEF S, T
  <1>6. Cardinality(S \cup T) = Cardinality(S) + Cardinality(T) - Cardinality(S \cap T)
    BY <1>3, <1>4, FS_Union
  <1>7. Cardinality(S) \in Nat /\ Cardinality(S \cap T) = 0
    BY <1>3, <1>5, FS_CardinalityType, FS_EmptySet
  <1>8. Cardinality(S \cup T) = Cardinality(S) + n
    BY <1>4, <1>6, <1>7
  <1>9. C!Cardinality(S) = Cardinality(S) /\ C!Cardinality(S \cup T) = Cardinality(S \cup T)
    BY ONLY SameCardinality
  <1> QED
    BY <1>1, <1>8, <1>9 DEF S

LEMMA TakenAppend ==
    ASSUME NEW b, IsSequence(b), NEW x, NEW k \in 0 .. Len(b)
    PROVE  Taken(Append(b, x), k) = Taken(b, k)
PROOF
  <1>1. PICK S : b \in Seq(S)
    BY SequenceOf
  <1>2. \A j \in 1 .. k : Append(b, x)[j] = b[j]
    BY <1>1
  <1> QED
    BY <1>2 DEF Taken

--------------------------------------------------------------------------------
(***************************************************************************)
(* Binding an argument.                                                    *)
(***************************************************************************)
LEMMA GivenIsSequence ==
    ASSUME table \in Tables, event \in Events, RowInv
    PROVE  IsSequence(C!Supplied) /\ IsSequence(expr.args)
PROOF
  <1>1. PICK i \in DOMAIN table : expr = table[i] /\ C!Matches(expr, event)
    BY DEF RowInv
  <1>2. expr.namePos \in Nat /\ IsSequence(expr.args) /\ IsSequence(event.list)
    BY <1>1, EventsAssumption
  <1> QED
    BY <1>1, <1>2, ArgumentsOf DEF C!Supplied

LEMMA RestIs ==
    ASSUME table \in Tables, event \in Events, RowInv, BindingInv
    PROVE  LET size == Len(C!Supplied)
               u == UsedUp(expr.args, size, Len(bound))
           IN  /\ IsSequence(C!Supplied) /\ size \in Nat /\ Len(bound) \in Nat /\ u \in 0 .. size
               /\ rest = Piece(C!Supplied, u, size)
               /\ rest = << >> <=> u = size
               /\ rest # << >> => /\ <<Head(rest)>> = Piece(C!Supplied, u, u + 1)
                                  /\ Tail(rest) = Piece(C!Supplied, u + 1, size)
PROOF
  <1> DEFINE s == C!Supplied
             size == Len(s)
             u == UsedUp(expr.args, size, Len(bound))
  <1>1. IsSequence(s)
    BY GivenIsSequence
  <1>2. size \in Nat /\ Len(bound) \in Nat
    BY <1>1 DEF IsSequence, BindingInv
  <1>3. u \in 0 .. size /\ rest = Piece(s, u, size)
    <2>1. u \in 0 .. size
      BY <1>2, UsedUpStep
    <2> QED
      BY <2>1 DEF BindingInv, Piece
  <1> HIDE DEF s, u
  <1>4. rest = << >> <=> u = size
    <2>1. size \in u .. Len(s) /\ u \in 0 .. Len(s)
      BY <1>2, <1>3
    <2>2. Piece(s, u, size) = << >> <=> u = size
      BY <1>1, <2>1, EmptyPiece
    <2> QED
      BY <1>3, <2>2
  <1>5. ASSUME rest # << >>
        PROVE  <<Head(rest)>> = Piece(s, u, u + 1) /\ Tail(rest) = Piece(s, u + 1, size)
    <2>1. u \in 0 .. Len(s) - 1
      BY <1>2, <1>3, <1>4, <1>5
    <2> QED
      BY <1>1, <1>3, <2>1, FirstOfPiece
  <1> QED
    BY <1>1, <1>2, <1>3, <1>4, <1>5 DEF s, u

LEMMA BindKeeps ==
    ASSUME table \in Tables, event \in Events, RowInv, BindingInv,
           Len(bound) < Len(expr.args),
           NEW how \in Binds, NEW took, NEW left,
           bound' = Append(bound, [how |-> how, events |-> took]),
           rest' = left, expr' = expr, event' = event,
           how \notin {"read", "rescue"} => took = << >>,
           took = Piece(C!Supplied, UsedUp(expr.args, Len(C!Supplied), Len(bound)),
                                    UsedUp(expr.args, Len(C!Supplied), Len(bound) + 1)),
           left = Piece(C!Supplied, UsedUp(expr.args, Len(C!Supplied), Len(bound) + 1),
                                    Len(C!Supplied)),
           C!Required(expr.args[Len(bound) + 1]) =>
               /\ C!Position(expr.args, Len(bound) + 1) <= Len(C!Supplied)
               /\ ~C!VariadicBefore(expr.args, Len(bound) + 1)
    PROVE  BindingInv'
PROOF
  <1> DEFINE s == C!Supplied
             size == Len(s)
             m == Len(bound)
             args == expr.args
             new == [how |-> how, events |-> took]
  <1>1. IsSequence(s) /\ size \in Nat /\ m \in Nat /\ IsSequence(args)
    BY RestIs, GivenIsSequence
  <1>2. s' = s /\ args' = args
    BY DEF C!Supplied
  <1>3. /\ IsSequence(bound') /\ Len(bound') = m + 1 /\ DOMAIN bound' = (1 .. m) \cup {m + 1}
        /\ \A i \in 1 .. m : bound'[i] = bound[i]
        /\ bound'[m + 1] = new /\ DOMAIN bound = 1 .. m
    <2>1. PICK S : bound \in Seq(S)
      BY SequenceOf DEF BindingInv
    <2>2. bound' \in Seq(S \cup {new})
      BY <2>1
    <2>3. Len(bound') = m + 1 /\ DOMAIN bound' = 1 .. m + 1 /\ 1 .. m + 1 = (1 .. m) \cup {m + 1}
      BY <2>1
    <2>4. IsSequence(bound')
      BY <2>2, SequenceOf
    <2>5. bound'[m + 1] = new /\ (\A i \in 1 .. m : bound'[i] = bound[i]) /\ DOMAIN bound = 1 .. m
      BY <2>1
    <2> QED
      BY <2>3, <2>4, <2>5
  <1>4. m + 1 <= Len(args) /\ Len(args) \in Nat
    BY <1>1 DEF IsSequence
  <1>5. \A i \in DOMAIN bound' : BoundInv(bound'[i], args, s, i)
    <2>1. ASSUME NEW i \in 1 .. m PROVE BoundInv(bound'[i], args, s, i)
      <3>1. BoundInv(bound[i], args, s, i)
        BY <1>3, <2>1 DEF BindingInv
      <3> QED
        BY <1>3, <2>1, <3>1
    <2>2. BoundInv(bound'[m + 1], args, s, m + 1)
      <3> DEFINE i == m + 1
      <3>1. i - 1 = m
        BY <1>1
      <3>2. took = SubSeq(s, UsedUp(args, size, m) + 1, UsedUp(args, size, i))
        BY DEF Piece
      <3>3. C!Required(args[i]) => C!Position(args, i) <= size /\ ~C!VariadicBefore(args, i)
        OBVIOUS
      <3>4. bound'[i].how = how /\ bound'[i].events = took
        BY <1>3
      <3> HIDE DEF s, args, m, i
      <3>5. BoundInv(bound'[i], args, s, i)
        BY <3>1, <3>2, <3>3, <3>4 DEF BoundInv
      <3> QED
        BY <3>5 DEF i
    <2> QED
      BY <1>3, <2>1, <2>2
  <1>6. ASSUME NEW k \in 0 .. m + 1
        PROVE  C!Cardinality(Taken(bound', k)) = UsedUp(args, size, k)
    <2>1. ASSUME NEW j \in 0 .. m
          PROVE  C!Cardinality(Taken(bound', j)) = UsedUp(args, size, j)
      <3>1. Taken(bound', j) = Taken(bound, j)
        BY TakenAppend DEF BindingInv
      <3> QED
        BY <3>1 DEF BindingInv
    <2>2. C!Cardinality(Taken(bound', m + 1)) = UsedUp(args, size, m + 1)
      <3> DEFINE u == UsedUp(args, size, m)
                 w == UsedUp(args, size, m + 1)
      <3>1. u \in 0 .. size /\ w \in u .. size
        BY <1>1, UsedUpStep
      <3>2. DOMAIN took = 1 .. w - u
        <4>1. took = Piece(s, u, w)
          OBVIOUS
        <4> HIDE DEF s, u, w
        <4> QED
          BY <1>1, <3>1, <4>1, PieceOf
      <3>3. ASSUME NEW j \in 1 .. m
            PROVE  DOMAIN bound'[j].events \subseteq 1 .. size
        <4> DEFINE c == UsedUp(args, size, j - 1)
                   d == UsedUp(args, size, j)
        <4>1. c \in 0 .. size /\ d \in c .. size
          <5> DEFINE i == j - 1
          <5>1. i \in Nat /\ i + 1 = j
            BY <1>1
          <5> HIDE DEF i
          <5>2. UsedUp(args, size, i) \in 0 .. size
                /\ UsedUp(args, size, i + 1) \in UsedUp(args, size, i) .. size
            BY <1>1, <5>1, UsedUpStep
          <5> QED
            BY <5>1, <5>2 DEF i
        <4>2. bound'[j].events = Piece(s, c, d)
          BY <1>3 DEF BindingInv, BoundInv, Piece
        <4> HIDE DEF s, c, d
        <4>3. DOMAIN Piece(s, c, d) = 1 .. d - c
          BY <1>1, <4>1, PieceOf
        <4>4. \A x \in 1 .. d - c : x \in 1 .. size
          BY <1>1, <4>1
        <4> QED
          BY <4>2, <4>3, <4>4
      <3>4. DOMAIN bound'[m + 1].events = 1 .. w - u
        BY <1>3, <3>2
      <3>5. w - u \in Nat
        BY <3>1, <1>1
      <3> HIDE DEF s, m, u, w
      <3>6. C!Cardinality(Taken(bound', m + 1)) = C!Cardinality(Taken(bound', m)) + (w - u)
        BY <1>1, <3>3, <3>4, <3>5, TakenStep
      <3>7. C!Cardinality(Taken(bound', m)) = u
        BY <1>1, <2>1 DEF u
      <3> QED
        BY <3>1, <3>6, <3>7, <1>1 DEF w
    <2> QED
      BY <1>1, <2>1, <2>2
  <1>7. rest' = SubSeq(s, UsedUp(args, size, m + 1) + 1, size)
    BY DEF Piece
  <1> HIDE DEF s, m, args, new
  <1>8. /\ IsSequence(bound') /\ Len(bound') <= Len(args')
        /\ rest' = SubSeq(s', UsedUp(args', Len(s'), Len(bound')) + 1, Len(s'))
        /\ \A i \in DOMAIN bound' : BoundInv(bound'[i], args', s', i)
        /\ \A k \in 0 .. Len(bound') :
              C!Cardinality(Taken(bound', k)) = UsedUp(args', Len(s'), k)
    BY <1>2, <1>3, <1>4, <1>5, <1>6, <1>7
  <1> QED
    BY <1>8 DEF BindingInv, s, args

LEMMA AtBinding ==
    ASSUME CommandInv, part = "command", status = "binding"
    PROVE  /\ table \in Tables /\ event \in Events /\ from \in Senders \cup {NoSender}
           /\ RowInv /\ BindingInv /\ StatusInv
BY DEF CommandInv

LEMMA BoundKeeps ==
    ASSUME CommandInv, part = "command", part' = part, C!Binding,
           NEW how \in Binds, NEW took, NEW left, C!Bind(how, took, left),
           how \notin {"read", "rescue"} => took = << >>,
           took = Piece(C!Supplied, UsedUp(expr.args, Len(C!Supplied), Len(bound)),
                                    UsedUp(expr.args, Len(C!Supplied), Len(bound) + 1)),
           left = Piece(C!Supplied, UsedUp(expr.args, Len(C!Supplied), Len(bound) + 1),
                                    Len(C!Supplied)),
           C!Required(C!Declared) =>
               /\ C!Position(expr.args, Len(bound) + 1) <= Len(C!Supplied)
               /\ ~C!VariadicBefore(expr.args, Len(bound) + 1)
    PROVE  CommandInv'
PROOF
  <1>1. status = "binding" /\ Len(bound) < Len(expr.args)
    BY DEF C!Binding
  <1>2. /\ table \in Tables /\ event \in Events /\ from \in Senders \cup {NoSender}
        /\ RowInv /\ BindingInv
    BY <1>1, AtBinding
  <1>3. /\ bound' = Append(bound, [how |-> how, events |-> took]) /\ rest' = left
        /\ expr' = expr /\ event' = event /\ table' = table /\ from' = from /\ status' = status
    BY DEF C!Bind
  <1>4. BindingInv'
    BY <1>1, <1>2, <1>3, BindKeeps DEF C!Declared
  <1>5. RowInv'
    BY <1>2, <1>3 DEF RowInv
  <1>6. StatusInv'
    BY <1>1, <1>3 DEF StatusInv
  <1> QED
    BY <1>1, <1>2, <1>3, <1>4, <1>5, <1>6 DEF CommandInv, Matched

LEMMA RefusedKeeps ==
    ASSUME CommandInv, part = "command", part' = part, C!Binding,
           NEW why \in {"missing", "unreadable"}, C!Refuse(why),
           why = "missing" => ~C!Admits(expr.args, Len(C!Supplied))
    PROVE  CommandInv'
PROOF
  <1>1. status = "binding" /\ Len(bound) < Len(expr.args)
    BY DEF C!Binding
  <1>2. /\ table \in Tables /\ event \in Events /\ from \in Senders \cup {NoSender}
        /\ RowInv /\ BindingInv
    BY <1>1, AtBinding
  <1>3. /\ bound' = bound /\ rest' = rest /\ status' = why
        /\ expr' = expr /\ event' = event /\ table' = table /\ from' = from
    BY DEF C!Refuse
  <1>4. BindingInv'
    BY <1>2, <1>3 DEF BindingInv, C!Supplied
  <1>5. RowInv'
    BY <1>2, <1>3 DEF RowInv
  <1>6. StatusInv'
    BY <1>1, <1>3 DEF StatusInv, C!Supplied
  <1> QED
    BY <1>2, <1>3, <1>4, <1>5, <1>6 DEF CommandInv, Matched

\* What the argument that is due does to the events that are used up.
LEMMA Due ==
    ASSUME CommandInv, part = "command", C!Binding
    PROVE  LET s == C!Supplied
               size == Len(s)
               m == Len(bound)
               u == UsedUp(expr.args, size, m)
               w == UsedUp(expr.args, size, m + 1)
               arg == C!Declared
           IN  /\ IsSequence(s) /\ size \in Nat /\ m \in Nat
               /\ IsSequence(expr.args) /\ m + 1 \in DOMAIN expr.args
               /\ u \in 0 .. size /\ w \in u .. size
               /\ rest = Piece(s, u, size) /\ (rest = << >> <=> u = size)
               /\ rest # << >> => /\ <<Head(rest)>> = Piece(s, u, u + 1)
                                  /\ Tail(rest) = Piece(s, u + 1, size)
               /\ \A x \in 0 .. size : Piece(s, x, x) = << >>
               /\ rest = << >> => w = u
               /\ C!Is(arg, "variadic") => w = size
               /\ ~C!Positional(arg) => w = u
               /\ C!Positional(arg) /\ rest # << >> /\ ~C!Is(arg, "variadic") => w = u + 1
               /\ C!Positional(arg) /\ rest # << >> =>
                     C!Position(expr.args, m + 1) <= size /\ ~C!VariadicBefore(expr.args, m + 1)
               /\ C!Positional(arg) /\ rest = << >> =>
                     C!VariadicBefore(expr.args, m + 1) \/ ~(C!Position(expr.args, m + 1) <= size)
PROOF
  <1> DEFINE s == C!Supplied
             size == Len(s)
             m == Len(bound)
             u == UsedUp(expr.args, size, m)
             w == UsedUp(expr.args, size, m + 1)
             arg == C!Declared
  <1>1. status = "binding" /\ m < Len(expr.args)
    BY DEF C!Binding
  <1>2. /\ table \in Tables /\ event \in Events /\ RowInv /\ BindingInv
    BY <1>1, AtBinding
  <1>3. /\ IsSequence(s) /\ size \in Nat /\ m \in Nat /\ u \in 0 .. size
        /\ rest = Piece(s, u, size) /\ (rest = << >> <=> u = size)
        /\ rest # << >> => <<Head(rest)>> = Piece(s, u, u + 1) /\ Tail(rest) = Piece(s, u + 1, size)
    BY <1>2, RestIs
  <1>4. IsSequence(expr.args) /\ m + 1 \in DOMAIN expr.args
    <2>1. IsSequence(expr.args)
      BY <1>2, GivenIsSequence
    <2>2. DOMAIN expr.args = 1 .. Len(expr.args) /\ Len(expr.args) \in Nat
      BY <2>1 DEF IsSequence
    <2> QED
      BY <1>1, <1>3, <2>1, <2>2
  <1>5. \A x \in 0 .. size : Piece(s, x, x) = << >>
    <2> TAKE x \in 0 .. size
    <2>1. x \in x .. Len(s)
      BY <1>3
    <2>2. IsSequence(Piece(s, x, x)) /\ Len(Piece(s, x, x)) = x - x
      BY <1>3, <2>1, PieceOf
    <2> DEFINE p == Piece(s, x, x)
    <2>3. PICK S : p \in Seq(S)
      BY <2>2, SequenceOf
    <2>4. Len(p) = 0
      BY <2>2
    <2> HIDE DEF p
    <2>5. p = << >>
      BY <2>3, <2>4
    <2> QED
      BY <2>5 DEF p
  <1>6. /\ w \in u .. size
        /\ u < size => ~C!VariadicBefore(expr.args, m + 1)
        /\ C!Is(arg, "variadic") => w = size
        /\ ~C!Positional(arg) => w = u
        /\ C!Positional(arg) /\ u < size /\ ~C!Is(arg, "variadic") => w = u + 1
        /\ ~C!VariadicBefore(expr.args, m + 1) /\ C!Positional(arg) =>
              (u < size <=> C!Position(expr.args, m + 1) <= size)
    BY <1>3, UsedUpStep DEF C!Declared
  <1> HIDE DEF s, m, u, w, arg
  <1> QED
    BY <1>3, <1>4, <1>5, <1>6 DEF s, m, u, w, arg

LEMMA BindNothingKeeps ==
    ASSUME CommandInv, part = "command", part' = part, C!BindNothing
    PROVE  CommandInv'
PROOF
  <1>1. C!Binding /\ C!Is(C!Declared, "nullable") /\ rest = << >>
        /\ C!Bind("nothing", << >>, rest)
    BY DEF C!BindNothing, C!OutOfEvents
  <1>2. ~C!Required(C!Declared)
    BY <1>1 DEF C!Required, C!Is
  <1> DEFINE s == C!Supplied
             u == UsedUp(expr.args, Len(s), Len(bound))
             w == UsedUp(expr.args, Len(s), Len(bound) + 1)
  <1>3. rest = Piece(s, u, Len(s)) /\ u \in 0 .. Len(s) /\ w = u
        /\ \A x \in 0 .. Len(s) : Piece(s, x, x) = << >>
    BY <1>1, Due
  <1>4. << >> = Piece(s, u, w) /\ rest = Piece(s, w, Len(s)) /\ "nothing" \in Binds
    BY <1>3 DEF Binds
  <1> QED
    BY <1>1, <1>2, <1>4, BoundKeeps

LEMMA BindVariadicKeeps ==
    ASSUME CommandInv, part = "command", part' = part, C!BindVariadic
    PROVE  CommandInv'
PROOF
  <1>1. C!Binding /\ C!Is(C!Declared, "variadic")
        /\ (C!Bind("read", rest, << >>) \/ C!Refuse("unreadable"))
    BY DEF C!BindVariadic
  <1>2. ~C!Required(C!Declared)
    BY <1>1 DEF C!Required, C!Is
  <1> DEFINE s == C!Supplied
             u == UsedUp(expr.args, Len(s), Len(bound))
             w == UsedUp(expr.args, Len(s), Len(bound) + 1)
  <1>3. rest = Piece(s, u, Len(s)) /\ Len(s) \in Nat /\ w = Len(s)
        /\ \A x \in 0 .. Len(s) : Piece(s, x, x) = << >>
    BY <1>1, Due
  <1>4. rest = Piece(s, u, w) /\ << >> = Piece(s, w, Len(s)) /\ "read" \in Binds
    BY <1>3 DEF Binds
  <1>5. CASE C!Bind("read", rest, << >>)
    BY <1>1, <1>2, <1>4, <1>5, BoundKeeps
  <1>6. CASE C!Refuse("unreadable")
    BY <1>1, <1>6, RefusedKeeps
  <1> QED
    BY <1>1, <1>5, <1>6

LEMMA BindImplicitKeeps ==
    ASSUME CommandInv, part = "command", part' = part, C!BindImplicit
    PROVE  CommandInv'
PROOF
  <1>1. C!Binding /\ C!Is(C!Declared, "implicit") /\ ~C!Is(C!Declared, "variadic")
        /\ C!Bind("world", << >>, rest)
    BY DEF C!BindImplicit
  <1>2. ~C!Required(C!Declared) /\ ~C!Positional(C!Declared)
    BY <1>1 DEF C!Required, C!Positional, C!Is
  <1> DEFINE s == C!Supplied
             u == UsedUp(expr.args, Len(s), Len(bound))
             w == UsedUp(expr.args, Len(s), Len(bound) + 1)
  <1>3. rest = Piece(s, u, Len(s)) /\ u \in 0 .. Len(s) /\ w = u
        /\ \A x \in 0 .. Len(s) : Piece(s, x, x) = << >>
    BY <1>1, <1>2, Due
  <1>4. << >> = Piece(s, u, w) /\ rest = Piece(s, w, Len(s)) /\ "world" \in Binds
    BY <1>3 DEF Binds
  <1> QED
    BY <1>1, <1>2, <1>4, BoundKeeps

LEMMA BindAbsentKeeps ==
    ASSUME CommandInv, part = "command", part' = part, C!BindAbsent
    PROVE  CommandInv'
PROOF
  <1>1. C!Binding /\ C!Single /\ rest = << >>
        /\ \/ C!Is(C!Declared, "default") /\ C!Bind("default", << >>, rest)
           \/ ~C!Is(C!Declared, "default") /\ C!Refuse("missing")
    BY DEF C!BindAbsent
  <1>2. /\ ~C!Is(C!Declared, "nullable") /\ ~C!Is(C!Declared, "variadic")
        /\ ~C!Is(C!Declared, "implicit") /\ C!Positional(C!Declared)
    BY <1>1 DEF C!Single, C!OutOfEvents, C!Is, C!Positional
  <1> DEFINE s == C!Supplied
             u == UsedUp(expr.args, Len(s), Len(bound))
             w == UsedUp(expr.args, Len(s), Len(bound) + 1)
  <1>3. /\ rest = Piece(s, u, Len(s)) /\ u \in 0 .. Len(s) /\ w = u
        /\ \A x \in 0 .. Len(s) : Piece(s, x, x) = << >>
        /\ Len(bound) + 1 \in DOMAIN expr.args
        /\ \/ C!VariadicBefore(expr.args, Len(bound) + 1)
           \/ ~(C!Position(expr.args, Len(bound) + 1) <= Len(s))
    BY <1>1, <1>2, Due
  <1>4. << >> = Piece(s, u, w) /\ rest = Piece(s, w, Len(s)) /\ "default" \in Binds
    BY <1>3 DEF Binds
  <1>5. CASE C!Is(C!Declared, "default") /\ C!Bind("default", << >>, rest)
    <2>1. ~C!Required(C!Declared)
      BY <1>5 DEF C!Required, C!Is
    <2> QED
      BY <1>1, <1>4, <1>5, <2>1, BoundKeeps
  <1>6. CASE ~C!Is(C!Declared, "default") /\ C!Refuse("missing")
    <2>1. C!Required(C!Declared)
      BY <1>2, <1>6 DEF C!Required, C!Is
    <2>2. C!Required(expr.args[Len(bound) + 1])
      BY <2>1 DEF C!Declared
    <2>3. ~C!Admits(expr.args, Len(s))
      BY <1>3, <2>2 DEF C!Admits
    <2> QED
      BY <1>1, <1>6, <2>3, RefusedKeeps
  <1> QED
    BY <1>1, <1>5, <1>6

LEMMA BindPresentKeeps ==
    ASSUME CommandInv, part = "command", part' = part, C!BindPresent
    PROVE  CommandInv'
PROOF
  <1>1. C!Binding /\ C!Single /\ rest # << >>
        /\ \/ \E how \in {"read", "rescue"} : C!Bind(how, <<Head(rest)>>, Tail(rest))
           \/ C!Refuse("unreadable")
    <2> DEFINE read == IF C!Is(C!Declared, "mapped")
                       THEN C!ReadsAll(C!Declared, C!AsList(Head(rest)))
                       ELSE C!Reads(C!Declared, Head(rest))
               rescue == C!Is(C!Declared, "rescue")
    <2>1. C!Binding /\ C!Single /\ rest # << >>
          /\ CASE read -> C!Bind("read", <<Head(rest)>>, Tail(rest))
               [] ~read /\ rescue -> C!Bind("rescue", <<Head(rest)>>, Tail(rest))
               [] OTHER -> C!Refuse("unreadable")
      BY DEF C!BindPresent
    <2> HIDE DEF read, rescue
    <2>2. CASE read
      BY <2>1, <2>2
    <2>3. CASE ~read /\ rescue
      BY <2>1, <2>3
    <2>4. CASE ~read /\ ~rescue
      BY <2>1, <2>4
    <2> QED
      BY <2>2, <2>3, <2>4
  <1>2. /\ ~C!Is(C!Declared, "variadic") /\ C!Positional(C!Declared)
    BY <1>1 DEF C!Single, C!Is, C!Positional
  <1> DEFINE s == C!Supplied
             u == UsedUp(expr.args, Len(s), Len(bound))
             w == UsedUp(expr.args, Len(s), Len(bound) + 1)
  <1>3. /\ <<Head(rest)>> = Piece(s, u, u + 1) /\ Tail(rest) = Piece(s, u + 1, Len(s))
        /\ w = u + 1
        /\ C!Position(expr.args, Len(bound) + 1) <= Len(s)
        /\ ~C!VariadicBefore(expr.args, Len(bound) + 1)
    BY <1>1, <1>2, Due
  <1>4. <<Head(rest)>> = Piece(s, u, w) /\ Tail(rest) = Piece(s, w, Len(s))
    BY <1>3
  <1>5. ASSUME NEW how \in {"read", "rescue"}, C!Bind(how, <<Head(rest)>>, Tail(rest))
        PROVE  CommandInv'
    <2>1. how \in Binds
      BY DEF Binds
    <2> HIDE DEF s, u, w
    <2> QED
      BY <1>1, <1>3, <1>4, <1>5, <2>1, BoundKeeps DEF s, u, w
  <1>6. CASE C!Refuse("unreadable")
    BY <1>1, <1>6, RefusedKeeps
  <1> QED
    BY <1>1, <1>5, <1>6

LEMMA ProcessKeeps ==
    ASSUME CommandInv, part = "command", part' = part, C!Process
    PROVE  CommandInv'
PROOF
  <1>1. /\ status = "binding" /\ Len(bound) = Len(expr.args)
        /\ table' = table /\ event' = event /\ from' = from
        /\ expr' = expr /\ bound' = bound /\ rest' = rest
    BY DEF C!Process
  <1>2. /\ table \in Tables /\ event \in Events /\ from \in Senders \cup {NoSender}
        /\ RowInv /\ BindingInv
    BY <1>1, AtBinding
  <1>3. \/ status' = "extra" /\ rest # << >>
        \/ status' = "no sender"
        \/ status' = "run" /\ rest = << >> /\ (expr.requireFrom => from # NoSender)
    <2> DEFINE left == rest # << >>
               refused == rest = << >> /\ expr.requireFrom /\ from = NoSender
    <2>1. status' = CASE left -> "extra" [] refused -> "no sender" [] OTHER -> "run"
      BY DEF C!Process
    <2>2. left \/ refused \/ (rest = << >> /\ (expr.requireFrom => from # NoSender))
      OBVIOUS
    <2>3. ~(left /\ refused)
      OBVIOUS
    <2>4. refused => ~left
      OBVIOUS
    <2>5. (rest = << >> /\ (expr.requireFrom => from # NoSender)) => ~left /\ ~refused
      OBVIOUS
    <2> HIDE DEF left, refused
    <2>6. CASE left
      <3>1. status' = "extra"
        BY <2>1, <2>3, <2>6
      <3> QED
        BY <2>6, <3>1 DEF left
    <2>7. CASE refused
      BY <2>1, <2>4, <2>7
    <2>8. CASE rest = << >> /\ (expr.requireFrom => from # NoSender)
      BY <2>1, <2>5, <2>8
    <2> QED
      BY <2>2, <2>6, <2>7, <2>8
  <1>4. BindingInv'
    BY <1>1, <1>2 DEF BindingInv, C!Supplied
  <1>5. RowInv'
    BY <1>1, <1>2 DEF RowInv
  <1>6. StatusInv'
    BY <1>1, <1>3 DEF StatusInv, C!Supplied
  <1> QED
    BY <1>1, <1>2, <1>3, <1>4, <1>5, <1>6 DEF CommandInv, Matched

LEMMA AtMatching ==
    ASSUME CommandInv, part = "command", status = "matching"
    PROVE  /\ table \in Tables /\ event \in Events /\ from \in Senders \cup {NoSender}
           /\ expr = C!Nobody /\ bound = << >>
BY DEF CommandInv, Matched

LEMMA UnwrapKeeps ==
    ASSUME CommandInv, part = "command", part' = part, C!Unwrap
    PROVE  CommandInv'
PROOF
  <1>1. /\ status = "matching" /\ status' = status /\ C!Wrapped(event) /\ event' = event.list[1]
        /\ table' = table /\ from' = from /\ expr' = expr /\ bound' = bound
    BY DEF C!Unwrap
  <1>2. /\ table \in Tables /\ event \in Events /\ from \in Senders \cup {NoSender}
        /\ expr = C!Nobody /\ bound = << >>
    BY <1>1, AtMatching
  <1>3. event' \in Events
    BY <1>1, <1>2, EventsAssumption
  <1> QED
    BY <1>1, <1>2, <1>3 DEF CommandInv, C!Nobody, C!View, C!Expr

LEMMA UnknownCommandKeeps ==
    ASSUME CommandInv, part = "command", part' = part, C!UnknownCommand
    PROVE  CommandInv'
PROOF
  <1>1. /\ status = "matching" /\ status' = "unknown" /\ event' = event
        /\ table' = table /\ from' = from /\ expr' = expr /\ bound' = bound
    BY DEF C!UnknownCommand
  <1>2. /\ table \in Tables /\ event \in Events /\ from \in Senders \cup {NoSender}
        /\ expr = C!Nobody /\ bound = << >>
    BY <1>1, AtMatching
  <1> QED
    BY <1>1, <1>2 DEF CommandInv, C!Nobody, C!View, C!Expr

LEMMA FindCommandKeeps ==
    ASSUME CommandInv, part = "command", part' = part, C!FindCommand
    PROVE  CommandInv'
PROOF
  <1> DEFINE i == C!FirstMatch(table, event)
             found == table[i]
             s == C!ArgsOf(found, event)
  <1>1. /\ status = "matching" /\ status' = "binding" /\ event' = event
        /\ table' = table /\ from' = from /\ bound' = bound
        /\ C!Matching(table, event) # {} /\ expr' = found /\ rest' = s
    BY DEF C!FindCommand
  <1>2. /\ table \in Tables /\ event \in Events /\ from \in Senders \cup {NoSender}
        /\ bound = << >>
    BY <1>1, AtMatching
  <1>3. /\ i \in DOMAIN table /\ C!Matches(found, event)
        /\ \A j \in 1 .. i - 1 : ~C!Matches(table[j], event)
    BY <1>1, <1>2, EventsAssumption, FirstMatches
  <1>4. RowInv'
    BY <1>1, <1>3 DEF RowInv
  <1>5. C!Supplied' = s
    BY <1>1 DEF C!Supplied
  <1>6. IsSequence(s) /\ IsSequence(found.args)
    <2>1. IsSequence(event.list) /\ found.namePos \in Nat /\ IsSequence(found.args)
      BY <1>2, <1>3, EventsAssumption
    <2> QED
      BY <1>3, <2>1, ArgumentsOf
  <1> HIDE DEF i, found, s
  <1>7. IsSequence(<< >>) /\ Len(<< >>) = 0 /\ DOMAIN << >> = {}
    <2>1. << >> \in Seq({}) /\ Len(<< >>) = 0 /\ DOMAIN << >> = {}
      OBVIOUS
    <2> QED
      BY <2>1, SequenceOf
  <1>8. UsedUp(found.args, Len(s), 0) = 0 /\ Len(s) \in Nat /\ Len(found.args) \in Nat
    <2>1. Len(s) \in Nat /\ Len(found.args) \in Nat
      BY <1>6 DEF IsSequence
    <2> QED
      BY <2>1, UsedUpStep
  <1>9. s = SubSeq(s, UsedUp(found.args, Len(s), 0) + 1, Len(s))
    <2>1. PICK S : s \in Seq(S)
      BY <1>6, SequenceOf
    <2>2. SubSeq(s, 1, Len(s)) = s
      BY <2>1
    <2> QED
      BY <1>8, <2>2
  <1>10. C!Cardinality(Taken(<< >>, 0)) = 0
    <2>1. Taken(<< >>, 0) = {}
      BY DEF Taken
    <2> QED
      BY <2>1, SameCardinality, FS_EmptySet
  <1>11. BindingInv'
    <2>1. bound' = << >> /\ rest' = s /\ expr' = found /\ C!Supplied' = s
      BY <1>1, <1>2, <1>5
    <2>2. \A k \in 0 .. 0 : C!Cardinality(Taken(<< >>, k)) = UsedUp(found.args, Len(s), k)
      BY <1>8, <1>10
    <2>3. /\ IsSequence(bound') /\ Len(bound') = 0 /\ DOMAIN bound' = {}
          /\ 0 <= Len(found.args)
          /\ rest' = SubSeq(s, UsedUp(found.args, Len(s), 0) + 1, Len(s))
      BY <1>7, <1>8, <1>9, <2>1
    <2> QED
      BY <2>1, <2>2, <2>3 DEF BindingInv
  <1>12. StatusInv'
    BY <1>1 DEF StatusInv
  <1> QED
    BY <1>1, <1>2, <1>4, <1>11, <1>12 DEF CommandInv, Matched

--------------------------------------------------------------------------------
(***************************************************************************)
(* The invariant.                                                          *)
(***************************************************************************)
LEMMA InitInv == Init => CommandInv
PROOF
  <1> SUFFICES ASSUME Init, part = "command" PROVE CommandInv
    BY DEF CommandInv
  <1>1. C!Init
    BY DEF Init
  <1> QED
    BY <1>1 DEF C!Init, CommandInv

LEMMA NextKeepsInv == CommandInv /\ [Next]_vars => CommandInv'
PROOF
  <1> SUFFICES ASSUME CommandInv, [Next]_vars PROVE CommandInv'
    OBVIOUS
  <1>1. CASE CommandStep
    <2>1. part = "command" /\ part' = part
      BY <1>1 DEF CommandStep, InCommand
    <2> QED
      BY <1>1, <2>1, UnwrapKeeps, FindCommandKeeps, UnknownCommandKeeps, BindNothingKeeps,
         BindVariadicKeeps, BindImplicitKeeps, BindAbsentKeeps, BindPresentKeeps, ProcessKeeps
      DEF CommandStep
  <1>2. CASE ValuesStep \/ BuilderStep \/ ActStep \/ ReadStep \/ Outside
    <2>1. part' = part /\ part # "command"
      BY <1>2 DEF ValuesStep, BuilderStep, ActStep, ReadStep, Outside,
                  InValues, InBuilder, InAct, InRead
    <2> QED
      BY <2>1 DEF CommandInv
  <1>3. CASE UNCHANGED vars
    <2>1. /\ part' = part /\ table' = table /\ event' = event /\ from' = from
          /\ status' = status /\ expr' = expr /\ bound' = bound /\ rest' = rest
      BY <1>3 DEF vars, shared, onlyCommand
    <2> QED
      BY <2>1 DEF CommandInv, RowInv, BindingInv, StatusInv, C!Supplied
  <1> QED
    BY <1>1, <1>2, <1>3 DEF Next, Work

\* The matching and binding of arguments keeps to what the signature says.
THEOREM CommandInvIsInvariant == Spec => []CommandInv
BY InitInv, NextKeepsInv, PTL DEF Spec

--------------------------------------------------------------------------------
(***************************************************************************)
(* What the invariant says of the arguments.                               *)
(***************************************************************************)
LEMMA ShareOfBound ==
    ASSUME table \in Tables, event \in Events, RowInv, BindingInv, NEW i \in DOMAIN bound
    PROVE  LET s == C!Supplied
               size == Len(s)
               before == UsedUp(expr.args, size, i - 1)
               after == UsedUp(expr.args, size, i)
           IN  /\ i \in Nat \ {0} /\ i <= Len(bound) /\ C!TakenBefore(i) = before
               /\ before \in 0 .. size /\ after \in before .. size
               /\ DOMAIN bound[i].events = 1 .. after - before
               /\ Len(bound[i].events) = after - before
               /\ \A k \in DOMAIN bound[i].events : bound[i].events[k] = s[before + k]
PROOF
  <1> DEFINE s == C!Supplied
             size == Len(s)
             m == i - 1
             before == UsedUp(expr.args, size, m)
             after == UsedUp(expr.args, size, i)
  <1>1. IsSequence(s) /\ size \in Nat /\ Len(bound) \in Nat
    BY RestIs
  <1>2. DOMAIN bound = 1 .. Len(bound)
    BY DEF BindingInv, IsSequence
  <1>3. i \in Nat \ {0} /\ i <= Len(bound) /\ m \in 0 .. Len(bound) /\ m + 1 = i
    BY <1>1, <1>2
  <1>4. C!TakenBefore(i) = before
    <2>1. C!Cardinality(Taken(bound, m)) = before
      BY <1>3 DEF BindingInv
    <2> HIDE DEF m
    <2>2. m \in Nat
      BY <1>1, <1>3
    <2>3. C!TakenBefore(m + 1) = C!Cardinality(Taken(bound, m))
      BY <2>2, TakenBeforeIs
    <2> QED
      BY <1>3, <2>1, <2>3
  <1>5. before \in 0 .. size /\ after \in before .. size
    <2> HIDE DEF m
    <2>1. m \in Nat
      BY <1>1, <1>3
    <2>2. UsedUp(expr.args, size, m) \in 0 .. size
          /\ UsedUp(expr.args, size, m + 1) \in UsedUp(expr.args, size, m) .. size
      BY <1>1, <2>1, UsedUpStep
    <2> QED
      BY <1>3, <2>2
  <1>6. bound[i].events = Piece(s, before, after)
    BY DEF BindingInv, BoundInv, Piece
  <1> HIDE DEF s, before, after, m
  <1> DEFINE p == Piece(s, before, after)
  <1>7. /\ DOMAIN p = 1 .. after - before /\ Len(p) = after - before
        /\ \A k \in 1 .. after - before : p[k] = s[before + k]
    BY <1>1, <1>5, PieceOf
  <1> HIDE DEF p
  <1>8. bound[i].events = p
    BY <1>6 DEF p
  <1>9. /\ DOMAIN bound[i].events = 1 .. after - before
        /\ Len(bound[i].events) = after - before
        /\ \A k \in DOMAIN bound[i].events : bound[i].events[k] = s[before + k]
    BY <1>7, <1>8
  <1> QED
    BY <1>3, <1>4, <1>5, <1>9 DEF s, before, after, m

LEMMA NoEventIsLostHolds ==
    ASSUME CommandInv, part = "command"
    PROVE  C!NoEventIsLost
PROOF
  <1> SUFFICES ASSUME expr # C!Nobody PROVE C!NoEventIsLost
    BY DEF C!NoEventIsLost
  <1>1. table \in Tables /\ event \in Events /\ RowInv /\ BindingInv
    BY DEF CommandInv
  <1> DEFINE s == C!Supplied
             size == Len(s)
             m == Len(bound)
             u == UsedUp(expr.args, size, m)
  <1>2. /\ IsSequence(s) /\ size \in Nat /\ m \in Nat /\ u \in 0 .. size
        /\ rest = Piece(s, u, size)
    BY <1>1, RestIs
  <1>3. C!TakenBefore(m + 1) = u
    <2>1. C!TakenBefore(m + 1) = C!Cardinality(Taken(bound, m))
      BY <1>2, TakenBeforeIs
    <2>2. m \in 0 .. m
      BY <1>2
    <2> QED
      BY <1>1, <2>1, <2>2 DEF BindingInv
  <1>4. \A k \in DOMAIN bound : \A i \in DOMAIN bound[k].events :
            bound[k].events[i] = s[C!TakenBefore(k) + i]
    BY <1>1, ShareOfBound
  <1>5. /\ \A i \in DOMAIN rest : rest[i] = s[u + i]
        /\ u + Len(rest) = size
    <2>0. size = Len(s)
      OBVIOUS
    <2> HIDE DEF s, u, size
    <2> DEFINE p == Piece(s, u, size)
    <2>1. size \in u .. Len(s) /\ u \in 0 .. Len(s) /\ IsSequence(s)
      BY <1>2, <2>0
    <2>2. /\ DOMAIN p = 1 .. size - u /\ Len(p) = size - u
          /\ \A i \in 1 .. size - u : p[i] = s[u + i]
      BY <2>1, PieceOf
    <2> HIDE DEF p
    <2>3. rest = p
      BY <1>2 DEF p
    <2> QED
      BY <1>2, <2>2, <2>3
  <1> QED
    BY <1>3, <1>4, <1>5 DEF C!NoEventIsLost

LEMMA SharesHold ==
    ASSUME CommandInv, part = "command"
    PROVE  C!ArgumentsGetTheirShare
PROOF
  <1> SUFFICES ASSUME status = "run" PROVE C!ArgumentsGetTheirShare
    BY DEF C!ArgumentsGetTheirShare
  <1>1. table \in Tables /\ event \in Events /\ RowInv /\ BindingInv /\ StatusInv
    BY DEF CommandInv
  <1> DEFINE s == C!Supplied
             size == Len(s)
             args == expr.args
             m == Len(bound)
             u == UsedUp(args, size, m)
  <1>2. /\ IsSequence(s) /\ size \in Nat /\ m \in Nat /\ u \in 0 .. size
        /\ (rest = << >> <=> u = size)
    BY <1>1, RestIs
  <1>3. m = Len(args) /\ rest = << >>
    BY <1>1 DEF StatusInv
  <1>4. DOMAIN bound = 1 .. m /\ DOMAIN args = 1 .. m
    <2>1. IsSequence(args) /\ IsSequence(bound)
      BY <1>1, GivenIsSequence DEF BindingInv
    <2> QED
      BY <1>3, <2>1 DEF IsSequence
  <1>5. C!Admits(args, size)
    <2>1. ASSUME NEW i \in DOMAIN args, C!Required(args[i])
          PROVE  C!Position(args, i) <= size /\ ~C!VariadicBefore(args, i)
      <3>1. BoundInv(bound[i], args, s, i)
        BY <1>1, <1>4 DEF BindingInv
      <3> QED
        BY <2>1, <3>1 DEF BoundInv
    <2>2. size <= C!Position(args, m) \/ C!VariadicBefore(args, m + 1)
      <3>1. C!Position(args, m) \in Nat
        BY <1>2, PositionStep
      <3>2. C!VariadicBefore(args, m + 1) \/ C!Position(args, m) > size \/ u = C!Position(args, m)
        BY DEF UsedUp
      <3> QED
        BY <1>2, <1>3, <3>1, <3>2
    <2> QED
      BY <1>3, <2>1, <2>2 DEF C!Admits
  <1>6. ASSUME NEW i \in DOMAIN bound
        PROVE  /\ Len(bound[i].events) = C!Cardinality(C!Share(args, size, i))
               /\ \A k \in DOMAIN bound[i].events :
                     s[k - 1 + C!Min(C!Share(args, size, i))] = bound[i].events[k]
    <2> DEFINE before == UsedUp(args, size, i - 1)
               after == UsedUp(args, size, i)
               share == C!Share(args, size, i)
    <2>1. /\ i \in Nat \ {0} /\ before \in 0 .. size /\ after \in before .. size
          /\ DOMAIN bound[i].events = 1 .. after - before
          /\ Len(bound[i].events) = after - before
          /\ \A k \in DOMAIN bound[i].events : bound[i].events[k] = s[before + k]
      BY <1>1, ShareOfBound
    <2>2. /\ C!Cardinality(share) = after - before
          /\ share # {} => C!Min(share) = before + 1
      BY <1>2, <2>1, ShareOf
    <2> HIDE DEF s, before, after, share
    <2>3. ASSUME NEW k \in DOMAIN bound[i].events
          PROVE  s[k - 1 + C!Min(share)] = bound[i].events[k]
      <3>1. k \in Nat /\ k > 0 /\ after - before > 0
        BY <1>2, <2>1
      <3>2. share # {}
        <4>1. C!Cardinality({}) = 0
          BY SameCardinality, FS_EmptySet
        <4>2. C!Cardinality(share) # 0
          BY <1>2, <2>1, <2>2, <3>1
        <4> QED
          BY <4>1, <4>2
      <3>3. k - 1 + C!Min(share) = before + k
        BY <1>2, <2>1, <2>2, <3>1, <3>2
      <3> QED
        BY <2>1, <3>3
    <2> QED
      BY <2>1, <2>2, <2>3 DEF s, share
  <1> QED
    BY <1>5, <1>6 DEF C!ArgumentsGetTheirShare

LEMMA RefusalsHold ==
    ASSUME CommandInv, part = "command"
    PROVE  C!OnlyIllegalListsRefused
PROOF
  <1>1. ASSUME status = "missing" PROVE ~C!Admits(expr.args, Len(C!Supplied))
    BY <1>1 DEF CommandInv, StatusInv
  <1>2. ASSUME status = "extra" PROVE ~C!Admits(expr.args, Len(C!Supplied))
    <2>1. /\ table \in Tables /\ event \in Events /\ RowInv /\ BindingInv
          /\ Len(bound) = Len(expr.args) /\ rest # << >>
      BY <1>2 DEF CommandInv, StatusInv
    <2> DEFINE size == Len(C!Supplied)
               m == Len(bound)
               u == UsedUp(expr.args, size, m)
    <2>2. size \in Nat /\ m \in Nat /\ u \in 0 .. size /\ u # size
      BY <2>1, RestIs
    <2>3. C!Position(expr.args, m) \in Nat
      BY <2>2, PositionStep
    <2>4. ~C!VariadicBefore(expr.args, m + 1) /\ u = C!Position(expr.args, m)
      BY <2>2 DEF UsedUp
    <2>5. ~(size <= C!Position(expr.args, m)) /\ ~C!VariadicBefore(expr.args, m + 1)
      BY <2>2, <2>3, <2>4
    <2> QED
      BY <2>1, <2>5 DEF C!Admits
  <1> QED
    BY <1>1, <1>2 DEF C!OnlyIllegalListsRefused

\* No event is lost or read twice, every argument gets its share of the events
\* and no more, and only a list that the signature does not admit is turned
\* away (getArgs, Command.ts), whatever the tables and the events.
THEOREM ArgumentsTheorem == Spec => []ArgumentsGetTheirShare
PROOF
  <1>1. CommandInv => ArgumentsGetTheirShare
    BY NoEventIsLostHolds, SharesHold, RefusalsHold DEF ArgumentsGetTheirShare
  <1> QED
    BY <1>1, CommandInvIsInvariant, PTL

\* An event goes to the first command of the table that matches it, and a
\* command that needs a sender does not run without one (processCommandEvent).
FirstCommandDecides == part = "command" => C!FirstCommandDecides

THEOREM FirstCommandTheorem == Spec => []FirstCommandDecides
PROOF
  <1>1. ASSUME CommandInv, part = "command" PROVE C!FirstCommandDecides
    <2>1. ASSUME expr # C!Nobody
          PROVE  \E i \in DOMAIN table :
                    /\ table[i] = expr /\ C!Matches(expr, event)
                    /\ \A j \in 1 .. i - 1 : ~C!Matches(table[j], event)
      <3>1. RowInv
        BY <1>1, <2>1 DEF CommandInv
      <3> QED
        BY <3>1 DEF RowInv
    <2>2. status = "run" /\ expr.requireFrom => from # NoSender
      BY <1>1 DEF CommandInv, StatusInv
    <2> QED
      BY <2>1, <2>2 DEF C!FirstCommandDecides
  <1>2. CommandInv => FirstCommandDecides
    BY <1>1 DEF FirstCommandDecides
  <1> QED
    BY <1>2, CommandInvIsInvariant, PTL

--------------------------------------------------------------------------------
(***************************************************************************)
(* Comparisons. A verdict is that of two values that do not change, so     *)
(* what it says of them is what the comparison says.                       *)
(***************************************************************************)
Answer ==
    CASE asserted = "LessThan" -> A!Verdict(A!CompareOrder(given, expected), "less")
      [] asserted = "GreaterThan" -> A!Verdict(A!CompareOrder(given, expected), "greater")
      [] OTHER -> A!Verdict(A!CompareTo(expected, given), "yes")

ValuesInv ==
    part = "values" =>
        /\ asserted \in {"Equal", "LessThan", "GreaterThan", "True", "False"}
        /\ given \in A!Values
        /\ asserted \notin {"True", "False"} => expected \in A!Values
        /\ verdict = "" \/ verdict = Answer

Numeric == {"Number", "TextNumber", "Precise"}

\* The numbers that Tens can tell the digits of.
Counted == 0 .. Tens[Len(Tens)] - 1

\* What a value of each type holds.
ScalarShape(v) ==
    /\ v.type \in Numeric \cup {"Bool", "String", "Address", "Nothing", "Anything"}
    /\ v.type \in Numeric => v.val \in Counted
    /\ v.type = "Precise" => v.precision \in {1, 2}
    /\ v.type = "Bool" => v = A!BoolV(v.val)
    /\ v.type = "Address" => v.val \in Spellings
Shape(v) ==
    \/ ScalarShape(v)
    \/ /\ v.type = "List" /\ IsSequence(v.val)
       /\ \A i \in DOMAIN v.val : v.val[i].type = "Number" /\ v.val[i].val \in Counted

LEMMA ShapeOfValues ==
    ASSUME NEW v \in A!Values
    PROVE  Shape(v)
PROOF
  <1>1. ASSUME NEW n \in A!Exact PROVE n \in Counted
    BY NumbersAssumption DEF A!Exact, Counted
  <1>2. CASE v \in A!Scalars
    <2>1. CASE v \in {A!NumberV(n) : n \in A!Exact}
      BY <1>1, <2>1 DEF A!NumberV, Shape, ScalarShape, Numeric
    <2>2. CASE v \in {A!TextNumberV(n) : n \in Numbers}
      BY NumbersAssumption, <2>2 DEF A!TextNumberV, Counted, Shape, ScalarShape, Numeric
    <2>3. CASE v \in {A!PreciseV(n, p) : n \in A!Exact, p \in {1, 2}}
      BY <1>1, <2>3 DEF A!PreciseV, Shape, ScalarShape, Numeric
    <2>4. CASE v \in {A!BoolV(b) : b \in BOOLEAN}
      BY <2>4 DEF A!BoolV, Shape, ScalarShape, Numeric
    <2>5. CASE v \in {A!StringV(t) : t \in Texts \cup Spellings}
      BY <2>5 DEF A!StringV, Shape, ScalarShape, Numeric
    <2>6. CASE v \in {A!AddressV(a) : a \in Spellings}
      BY <2>6 DEF A!AddressV, Shape, ScalarShape, Numeric
    <2>7. CASE v \in {A!NothingV, A!AnythingV}
      BY <2>7 DEF A!NothingV, A!AnythingV, Shape, ScalarShape, Numeric
    <2> QED
      BY <1>2, <2>1, <2>2, <2>3, <2>4, <2>5, <2>6, <2>7 DEF A!Scalars
  <1>3. ASSUME NEW els,
               els \in {<< >>} \cup {<<A!NumberV(n)>> : n \in A!Exact}
                          \cup {<<A!NumberV(m), A!NumberV(n)>> : m, n \in A!Exact},
               v = A!ListV(els)
        PROVE  Shape(v)
    <2> DEFINE N == {A!NumberV(n) : n \in A!Exact}
    <2>1. els \in Seq(N)
      <3>1. \/ els = << >>
            \/ \E x \in N : els = <<x>>
            \/ \E x, y \in N : els = <<x, y>>
        BY <1>3
      <3> HIDE DEF N
      <3>2. ASSUME NEW x \in N PROVE <<x>> \in Seq(N)
        OBVIOUS
      <3>3. ASSUME NEW x \in N, NEW y \in N PROVE <<x, y>> \in Seq(N)
        OBVIOUS
      <3>4. << >> \in Seq(N)
        OBVIOUS
      <3> QED
        BY <3>1, <3>2, <3>3, <3>4
    <2>2. \A x \in N : x.type = "Number" /\ x.val \in Counted
      BY <1>1 DEF A!NumberV
    <2> HIDE DEF N
    <2>3. IsSequence(els) /\ \A i \in DOMAIN els : els[i] \in N
      <3>1. IsSequence(els)
        BY <2>1, SequenceOf
      <3>2. \A i \in DOMAIN els : els[i] \in N
        BY <2>1
      <3> QED
        BY <3>1, <3>2
    <2>4. v.type = "List" /\ v.val = els
      BY <1>3 DEF A!ListV
    <2> QED
      BY <2>2, <2>3, <2>4 DEF Shape
  <1> QED
    BY <1>2, <1>3 DEF A!Values

\* Proofs by induction over powers of ten take the least counterexample.
LEMMA TensGrow ==
    /\ Len(Tens) \in Nat /\ DOMAIN Tens = 1 .. Len(Tens)
    /\ \A i \in DOMAIN Tens : Tens[i] \in Nat \ {0}
    /\ \A i, j \in DOMAIN Tens : i <= j => Tens[i] <= Tens[j]
PROOF
  <1>1. /\ Len(Tens) \in Nat /\ DOMAIN Tens = 1 .. Len(Tens) /\ Len(Tens) >= 2 /\ Tens[1] = 1
        /\ \A i \in DOMAIN Tens : Tens[i] \in Nat
        /\ \A i \in 1 .. Len(Tens) - 1 : Tens[i + 1] = 10 * Tens[i]
    BY NumbersAssumption
  <1>2. ASSUME NEW i \in DOMAIN Tens, NEW j \in DOMAIN Tens, i <= j
        PROVE  Tens[i] <= Tens[j]
    <2> DEFINE S == {k \in DOMAIN Tens : i <= k /\ ~(Tens[i] <= Tens[k])}
               k == C!Min(S)
    <2>1. SUFFICES ASSUME S # {} PROVE FALSE
      BY <1>2
    <2>2. S \in SUBSET Nat
      BY <1>1
    <2>3. k \in S /\ \A l \in S : k <= l
      BY <2>1, <2>2, LeastOf
    <2>4. k # i
      BY <1>1, <2>3
    <2>5. k - 1 \in DOMAIN Tens /\ i <= k - 1 /\ k - 1 \notin S
      <3>1. /\ k \in DOMAIN Tens /\ i <= k /\ k \in Nat /\ i \in Nat /\ i >= 1
            /\ \A l \in S : k <= l
        BY <1>1, <2>2, <2>3
      <3> HIDE DEF k, S
      <3> QED
        BY <1>1, <2>4, <3>1
    <2>6. /\ k \in DOMAIN Tens /\ ~(Tens[i] <= Tens[k])
          /\ Tens[i] <= Tens[k - 1] /\ Tens[k] = 10 * Tens[k - 1]
      BY <1>1, <2>3, <2>5
    <2> HIDE DEF k, S
    <2> QED
      BY <1>1, <2>5, <2>6
  <1>3. ASSUME NEW i \in DOMAIN Tens PROVE Tens[i] # 0
    BY <1>1, <1>2
  <1> QED
    BY <1>1, <1>2, <1>3

LEMMA DigitsOf ==
    ASSUME NEW n \in Counted
    PROVE  /\ A!Digits(n) \in 1 .. Len(Tens) - 1
           /\ n < Tens[A!Digits(n) + 1]
           /\ A!Digits(n) > 1 => n >= Tens[A!Digits(n)]
PROOF
  <1> DEFINE S == {d \in 1 .. Len(Tens) - 1 : n < Tens[d + 1]}
             d == A!Digits(n)
  <1>1. /\ Len(Tens) \in Nat /\ Len(Tens) >= 2
        /\ \A i \in 1 .. Len(Tens) : Tens[i] \in Nat
    BY NumbersAssumption
  <1>2. n \in Nat /\ n < Tens[Len(Tens)]
    BY <1>1 DEF Counted
  <1>3. Len(Tens) - 1 \in S /\ S \in SUBSET Nat
    BY <1>1, <1>2
  <1>4. d = C!Min(S)
    BY DEF A!Digits, A!Min, C!Min
  <1> HIDE DEF d
  <1>5. d \in S /\ \A e \in S : d <= e
    BY <1>3, <1>4, LeastOf
  <1>6. d > 1 => d - 1 \in 1 .. Len(Tens) - 1 /\ d - 1 \notin S
    BY <1>1, <1>5
  <1>7. d > 1 => ~(n < Tens[d - 1 + 1]) /\ d - 1 + 1 = d
    BY <1>1, <1>5, <1>6
  <1>8. d \in 1 .. Len(Tens) - 1 /\ n < Tens[d + 1]
    BY <1>5
  <1>9. d > 1 => n >= Tens[d]
    BY <1>1, <1>2, <1>7, <1>8
  <1> QED
    BY <1>8, <1>9 DEF d

LEMMA Floor ==
    ASSUME NEW n \in Nat, NEW u \in Nat \ {0}
    PROVE  /\ n % u \in 0 .. n /\ n - (n % u) = u * (n \div u) /\ n \div u \in Nat
           /\ n >= u => n - (n % u) >= u
           /\ n >= 10 * u => n - (n % u) >= 10 * u
PROOF
  <1> DEFINE q == n \div u
             r == n % u
  <1>1. q \in Nat /\ r \in 0 .. u - 1 /\ n = u * q + r
    OBVIOUS
  <1> HIDE DEF q, r
  <1>2. u * q \in Nat
    BY <1>1
  <1>3. ASSUME NEW c \in Nat, n >= c * u PROVE q >= c
    <2> SUFFICES ASSUME q + 1 <= c PROVE FALSE
      BY <1>1
    <2>1. u * (q + 1) <= u * c
      BY <1>1
    <2>2. u * (q + 1) = u * q + u /\ u * c = c * u
      BY <1>1
    <2> QED
      BY <1>1, <1>2, <1>3, <2>1, <2>2
  <1>4. n >= u => q >= 1
    BY <1>3
  <1>5. n >= 10 * u => q >= 10
    BY <1>3
  <1>6. q >= 1 => u * q >= u
    BY <1>1
  <1>7. q >= 10 => u * q >= 10 * u
    BY <1>1
  <1> QED
    BY <1>1, <1>2, <1>4, <1>5, <1>6, <1>7 DEF q, r

\* Rounding off the last digits does not change how many digits there are.
LEMMA RoundedOff ==
    ASSUME NEW n \in Counted, NEW p \in {1, 2}
    PROVE  LET d == A!Digits(n)
               t == A!ToPrecision(n, p)
           IN  /\ A!Unit(n, p) \in Nat \ {0}
               /\ t \in Nat /\ t = A!Unit(n, p) * (n \div A!Unit(n, p)) /\ n \div A!Unit(n, p) \in Nat
               /\ t < Tens[d + 1] /\ (d > 1 => t >= Tens[d])
PROOF
  <1> DEFINE d == A!Digits(n)
             u == A!Unit(n, p)
             t == A!ToPrecision(n, p)
  <1>1. /\ d \in 1 .. Len(Tens) - 1 /\ n < Tens[d + 1] /\ (d > 1 => n >= Tens[d])
    BY DigitsOf
  <1>2. n \in Nat /\ Len(Tens) \in Nat /\ DOMAIN Tens = 1 .. Len(Tens)
        /\ \A i \in DOMAIN Tens : Tens[i] \in Nat \ {0}
    BY TensGrow DEF Counted
  <1>3. u = (IF d <= p THEN 1 ELSE Tens[d - p + 1]) /\ t = n - (n % u)
    BY DEF A!Unit, A!ToPrecision
  <1> HIDE DEF d, u, t
  <1>4. u \in Nat \ {0}
    BY <1>1, <1>2, <1>3
  <1>5. n % u \in 0 .. n /\ n - (n % u) = u * (n \div u) /\ n \div u \in Nat
    BY <1>2, <1>4, Floor
  <1>6. t \in Nat /\ t <= n /\ t = u * (n \div u)
    BY <1>2, <1>3, <1>5
  <1>7. Tens[d + 1] \in Nat /\ Tens[d] \in Nat
    BY <1>1, <1>2
  <1>8. ASSUME d > 1 PROVE t >= Tens[d]
    <2>1. CASE d <= p
      <3>1. u = 1
        BY <1>3, <2>1
      <3>2. t = n
        BY <1>2, <1>3, <3>1
      <3> QED
        BY <1>1, <1>8, <3>2
    <2>2. CASE p = 1 /\ ~(d <= p)
      <3>1. d - p + 1 = d
        BY <1>1, <2>2
      <3>2. u = Tens[d]
        BY <1>3, <2>2, <3>1
      <3> QED
        BY <1>1, <1>2, <1>3, <1>4, <1>8, <3>2, Floor
    <2>3. CASE p = 2 /\ ~(d <= p)
      <3>1. d - p + 1 = d - 1 /\ d - 1 \in 1 .. Len(Tens) - 1 /\ d - 1 + 1 = d
        BY <1>1, <1>2, <2>3
      <3>2. u = Tens[d - 1]
        BY <1>3, <2>3, <3>1
      <3>3. Tens[d - 1 + 1] = 10 * Tens[d - 1]
        BY <3>1, NumbersAssumption
      <3>4. Tens[d] = 10 * u
        BY <3>1, <3>2, <3>3
      <3> QED
        BY <1>1, <1>2, <1>3, <1>4, <1>8, <3>4, Floor
    <2> QED
      BY <2>1, <2>2, <2>3
  <1>9. t < Tens[d + 1]
    BY <1>1, <1>2, <1>6, <1>7
  <1> QED
    BY <1>4, <1>5, <1>6, <1>8, <1>9 DEF d, u, t

LEMMA SameDigits ==
    ASSUME NEW m \in Counted, NEW n \in Counted, NEW p \in {1, 2},
           A!ToPrecision(m, p) = A!ToPrecision(n, p)
    PROVE  /\ A!Unit(m, p) = A!Unit(n, p)
           /\ m \div A!Unit(m, p) = n \div A!Unit(n, p)
PROOF
  <1>1. ASSUME NEW x \in Counted, NEW y \in Counted,
               A!ToPrecision(x, p) = A!ToPrecision(y, p)
        PROVE  ~(A!Digits(x) < A!Digits(y))
    <2> DEFINE d == A!Digits(x)
               e == A!Digits(y)
               t == A!ToPrecision(x, p)
    <2>1. d \in 1 .. Len(Tens) - 1 /\ e \in 1 .. Len(Tens) - 1 /\ Len(Tens) \in Nat
      BY DigitsOf, TensGrow
    <2>2. t \in Nat /\ t < Tens[d + 1] /\ (e > 1 => t >= Tens[e])
      BY <1>1, RoundedOff
    <2> HIDE DEF d, e, t
    <2>3. ASSUME d < e PROVE FALSE
      <3>1. d + 1 \in DOMAIN Tens /\ e \in DOMAIN Tens /\ d + 1 <= e /\ e > 1
        BY <2>1, <2>3, TensGrow
      <3>2. Tens[d + 1] <= Tens[e] /\ Tens[d + 1] \in Nat /\ Tens[e] \in Nat
        BY <3>1, TensGrow
      <3> QED
        BY <2>2, <3>1, <3>2
    <2> QED
      BY <2>3 DEF d, e
  <1>2. A!Digits(m) = A!Digits(n)
    BY <1>1, DigitsOf, TensGrow
  <1>3. A!Unit(m, p) = A!Unit(n, p)
    BY <1>2 DEF A!Unit
  <1> DEFINE u == A!Unit(n, p)
             q == m \div u
             r == n \div u
  <1>4. u \in Nat \ {0} /\ q \in Nat /\ r \in Nat /\ u * q = u * r
    BY <1>3, RoundedOff
  <1> HIDE DEF u, q, r
  <1>5. q = r
    BY <1>4
  <1> QED
    BY <1>3, <1>5 DEF u, q, r

LEMMA VerdictSays ==
    ASSUME NEW answer, NEW wanted_
    PROVE  /\ A!Verdict(answer, wanted_) = "passes" => answer = wanted_
           /\ A!Verdict(answer, wanted_) = "fails" => answer # wanted_ /\ answer # A!Throws
           /\ A!Verdict(answer, wanted_) = A!Throws => answer = A!Throws
BY DEF A!Verdict, A!Throws

LEMMA BoolsAgree ==
    ASSUME NEW a, NEW b, a.type = "Bool", b.type = "Bool"
    PROVE  /\ A!CompareScalars(a, b) = "yes" => a.val = b.val
           /\ A!CompareScalars(a, b) # A!Throws
PROOF
  <1>1. A!CompareScalars(a, b) = A!CompareBools(a, b)
    BY DEF A!CompareScalars, A!IsNumber
  <1>2. A!CompareBools(a, b) = A!Says(a.val = b.val)
    BY DEF A!CompareBools
  <1> QED
    BY <1>1, <1>2 DEF A!Says, A!Throws

LEMMA StringsAgree ==
    ASSUME NEW a, NEW b, a.type \in {"String", "Address"}
    PROVE  /\ A!CompareScalars(a, b) = "yes" => A!SameWord(a, b)
           /\ a.type = b.type /\ (a.type = "Address" => a.val \in Spellings /\ b.val \in Spellings)
                => A!CompareScalars(a, b) # A!Throws
PROOF
  <1>1. A!CompareScalars(a, b) = A!CompareStrings(a, b)
    BY DEF A!CompareScalars, A!IsNumber
  <1> QED
    BY <1>1 DEF A!CompareStrings, A!Says, A!Throws, A!SameWord, A!IsAddress

LEMMA NumbersAgree ==
    ASSUME NEW a, NEW b, A!IsNumber(a)
    PROVE  /\ A!CompareScalars(a, b) = "yes" => A!SameNumber(a, b)
           /\ b.type = a.type => A!CompareScalars(a, b) # A!Throws
PROOF
  <1>1. A!CompareScalars(a, b) = A!CompareNumbers(a, b)
    BY DEF A!CompareScalars, A!IsNumber
  <1>2. CASE A!IsNumber(b) \/ b.type = "Precise"
    <2>1. A!CompareNumbers(a, b) = A!Says(a.val = b.val)
      BY <1>2 DEF A!CompareNumbers, A!IsNumber
    <2> QED
      BY <1>1, <1>2, <2>1 DEF A!Says, A!Throws, A!SameNumber, A!IsNumber
  <1>3. CASE b.type = "String"
    <2>1. A!CompareNumbers(a, b) = A!Says(FALSE)
      BY <1>3 DEF A!CompareNumbers, A!IsNumber
    <2> QED
      BY <1>1, <1>3, <2>1 DEF A!Says, A!Throws, A!IsNumber
  <1>4. CASE ~(A!IsNumber(b) \/ b.type = "Precise") /\ b.type # "String"
    <2>1. A!CompareNumbers(a, b) = A!Throws
      BY <1>4 DEF A!CompareNumbers
    <2> QED
      BY <1>1, <1>4, <2>1 DEF A!Throws, A!IsNumber
  <1> QED
    BY <1>2, <1>3, <1>4

LEMMA PreciseAgree ==
    ASSUME NEW a, NEW b, ScalarShape(a), a.type = "Precise", Shape(b)
    PROVE  /\ A!CompareScalars(a, b) = "yes" => A!SameNumber(a, b)
           /\ b.type = a.type => A!CompareScalars(a, b) # A!Throws
PROOF
  <1>1. A!CompareScalars(a, b) = A!ComparePrecise(a, b)
    BY DEF A!CompareScalars, A!IsNumber
  <1>2. a.val \in Counted /\ a.precision \in {1, 2}
    BY DEF ScalarShape, Numeric
  <1>3. CASE A!IsNumber(b) \/ b.type = "Precise"
    <2>1. b.type \in Numeric /\ b.val \in Counted
      BY <1>3 DEF A!IsNumber, Shape, ScalarShape, Numeric
    <2>2. A!ComparePrecise(a, b) =
            A!Says(A!ToPrecision(a.val, a.precision) = A!ToPrecision(b.val, a.precision))
      BY <1>3 DEF A!ComparePrecise
    <2>3. A!ToPrecision(a.val, a.precision) = A!ToPrecision(b.val, a.precision)
             => /\ A!Unit(a.val, a.precision) = A!Unit(b.val, a.precision)
                /\ a.val \div A!Unit(a.val, a.precision) = b.val \div A!Unit(b.val, a.precision)
      BY <1>2, <2>1, SameDigits
    <2> QED
      BY <1>1, <2>1, <2>2, <2>3 DEF A!Says, A!Throws, A!SameNumber, Numeric
  <1>4. CASE ~(A!IsNumber(b) \/ b.type = "Precise")
    BY <1>1, <1>4 DEF A!ComparePrecise, A!Throws
  <1> QED
    BY <1>3, <1>4

\* A list is compared element by element, and as far as the first that differs.
LEMMA ListsAgree ==
    ASSUME NEW a, NEW b, Shape(a), Shape(b), a.type = "List", b.type = "List"
    PROVE  /\ A!CompareLists(a, b) = "yes" =>
                \A i \in DOMAIN a.val \cap DOMAIN b.val : A!SameNumber(a.val[i], b.val[i])
           /\ A!CompareLists(a, b) = A!Throws => Len(b.val) < Len(a.val)
PROOF
  <1> DEFINE answer(i) == A!CompareScalars(a.val[i], A!Element(b.val, i))
             stops == {i \in DOMAIN a.val : answer(i) # "yes"}
             first == CHOOSE i \in stops : \A j \in stops : i <= j
  <1>1. /\ IsSequence(a.val) /\ IsSequence(b.val)
        /\ \A i \in DOMAIN a.val : a.val[i].type = "Number"
        /\ \A i \in DOMAIN b.val : b.val[i].type = "Number"
    BY DEF Shape, ScalarShape, Numeric
  <1>2. DOMAIN a.val \in SUBSET Nat
    BY <1>1 DEF IsSequence
  <1>3. ASSUME NEW i \in DOMAIN a.val, i \in DOMAIN b.val
        PROVE  /\ answer(i) = "yes" => A!SameNumber(a.val[i], b.val[i])
               /\ answer(i) # A!Throws
    <2>1. A!IsNumber(a.val[i]) /\ a.val[i].type = b.val[i].type
      BY <1>1, <1>3 DEF A!IsNumber
    <2>2. A!Element(b.val, i) = b.val[i]
      BY <1>3 DEF A!Element
    <2> QED
      BY <2>1, <2>2, NumbersAgree
  <1>4. A!CompareLists(a, b) = IF stops = {} THEN "yes" ELSE answer(first)
    BY DEF A!CompareLists
  <1>5. stops \in SUBSET Nat /\ stops \subseteq DOMAIN a.val
    BY <1>2
  <1>6. \A i \in stops : answer(i) # "yes"
    OBVIOUS
  <1>7. \A i \in DOMAIN a.val : i \notin stops => answer(i) = "yes"
    OBVIOUS
  <1> HIDE DEF answer, stops
  <1>8. stops # {} => first \in stops
    <2>1. ASSUME stops # {} PROVE first \in stops
      <3>1. C!Min(stops) = first
        BY DEF C!Min
      <3> QED
        BY <1>5, <2>1, <3>1, LeastOf
    <2> QED
      BY <2>1
  <1> HIDE DEF first
  <1>9. ASSUME A!CompareLists(a, b) = "yes"
        PROVE  \A i \in DOMAIN a.val \cap DOMAIN b.val : A!SameNumber(a.val[i], b.val[i])
    <2>1. stops = {}
      BY <1>4, <1>6, <1>8, <1>9
    <2> QED
      BY <1>3, <1>7, <2>1
  <1>10. ASSUME A!CompareLists(a, b) = A!Throws
         PROVE  Len(b.val) < Len(a.val)
    <2>1. stops # {} /\ answer(first) = A!Throws
      BY <1>4, <1>10 DEF A!Throws
    <2>2. first \in DOMAIN a.val /\ first \notin DOMAIN b.val
      BY <1>3, <1>5, <1>8, <2>1
    <2> QED
      BY <1>1, <2>2 DEF IsSequence
  <1> QED
    BY <1>9, <1>10

\* A JavaScript number may lose its last digit, but never overtakes another.
LEMMA OrderSays ==
    ASSUME NEW a, NEW b, Shape(a), Shape(b)
    PROVE  /\ A!CompareOrder(a, b) = "less" => a.val < b.val
           /\ A!CompareOrder(a, b) = "greater" => a.val > b.val
           /\ A!CompareOrder(a, b) # A!Throws =>
                /\ a.val \in Nat /\ b.val \in Nat
                /\ a.val < Safe /\ b.val < Safe =>
                     A!CompareOrder(a, b) = IF a.val = b.val THEN "equal"
                                            ELSE IF a.val > b.val THEN "greater" ELSE "less"
PROOF
  <1>1. CASE ~(A!IsNumber(a) /\ (A!IsNumber(b) \/ b.type = "Precise"))
    BY <1>1 DEF A!CompareOrder, A!Throws
  <1>2. CASE A!IsNumber(a) /\ (A!IsNumber(b) \/ b.type = "Precise")
    <2>1. a.val \in Nat /\ b.val \in Nat
      BY <1>2 DEF A!IsNumber, Shape, ScalarShape, Numeric, Counted
    <2> DEFINE x == A!ToNumber(a.val)
               y == A!ToNumber(b.val)
    <2>2. A!CompareOrder(a, b) = IF x = y THEN "equal" ELSE IF x > y THEN "greater" ELSE "less"
      BY <1>2 DEF A!CompareOrder
    <2>3. \A m, n \in Nat : m <= n => A!ToNumber(m) <= A!ToNumber(n)
      <3> TAKE m, n \in Nat
      <3>1. /\ m % 10 \in 0 .. 9 /\ n % 10 \in 0 .. 9
            /\ m = 10 * (m \div 10) + (m % 10) /\ n = 10 * (n \div 10) + (n % 10)
            /\ m \div 10 \in Int /\ n \div 10 \in Int
        OBVIOUS
      <3>2. /\ Safe \in Nat /\ Safe = 10 * (Safe \div 10) /\ Safe \div 10 \in Int
        BY NumbersAssumption
      <3> QED
        BY <3>1, <3>2 DEF A!ToNumber
    <2>4. x \in Int /\ y \in Int
      BY <2>1 DEF A!ToNumber
    <2>5. /\ a.val < Safe => x = a.val
          /\ b.val < Safe => y = b.val
      BY DEF A!ToNumber
    <2>6. (a.val <= b.val => x <= y) /\ (b.val <= a.val => y <= x)
      BY <2>1, <2>3
    <2> HIDE DEF x, y
    <2> QED
      BY <2>1, <2>2, <2>4, <2>5, <2>6
  <1> QED
    BY <1>1, <1>2

LEMMA InitValues == Init => ValuesInv
PROOF
  <1> SUFFICES ASSUME Init, part = "values" PROVE ValuesInv
    BY DEF ValuesInv
  <1>1. A!Init
    BY DEF Init
  <1> QED
    BY <1>1 DEF A!Init, ValuesInv

LEMMA AssertKeeps ==
    ASSUME ValuesInv, part = "values", part' = part,
           A!AssertEqual \/ A!AssertLessThan \/ A!AssertGreaterThan
    PROVE  ValuesInv'
PROOF
  <1>1. /\ asserted' = asserted /\ given' = given /\ expected' = expected
        /\ Answer' = Answer
    BY DEF A!AssertEqual, A!AssertLessThan, A!AssertGreaterThan, A!Assert, Answer
  <1>2. CASE A!AssertEqual
    <2>1. /\ verdict' = A!Verdict(A!CompareTo(expected, given), "yes")
          /\ asserted # "LessThan" /\ asserted # "GreaterThan"
      BY <1>2 DEF A!AssertEqual, A!Assert
    <2>2. verdict' = Answer
      BY <2>1 DEF Answer
    <2> QED
      BY <1>1, <2>2 DEF ValuesInv
  <1>3. CASE A!AssertLessThan
    <2>1. verdict' = Answer
      BY <1>3 DEF A!AssertLessThan, A!Assert, Answer
    <2> QED
      BY <1>1, <2>1 DEF ValuesInv
  <1>4. CASE A!AssertGreaterThan
    <2>1. verdict' = Answer
      BY <1>4 DEF A!AssertGreaterThan, A!Assert, Answer
    <2> QED
      BY <1>1, <2>1 DEF ValuesInv
  <1> QED
    BY <1>2, <1>3, <1>4

LEMMA NextKeepsValues == ValuesInv /\ [Next]_vars => ValuesInv'
PROOF
  <1> SUFFICES ASSUME ValuesInv, [Next]_vars, part' = "values" PROVE ValuesInv'
    BY DEF ValuesInv
  <1>1. CASE UNCHANGED vars
    BY <1>1 DEF vars, onlyValues, shared, ValuesInv, Answer
  <1>2. CASE ValuesStep
    <2>1. part = "values" /\ part' = part
      BY <1>2 DEF ValuesStep, InValues
    <2>2. A!AssertEqual \/ A!AssertLessThan \/ A!AssertGreaterThan
      BY <1>2 DEF ValuesStep
    <2> QED
      BY <2>1, <2>2, AssertKeeps
  <1>3. ~(CommandStep \/ BuilderStep \/ ActStep \/ ReadStep \/ Outside)
    BY DEF CommandStep, BuilderStep, ActStep, ReadStep, Outside,
           InCommand, InBuilder, InAct, InRead
  <1> QED
    BY <1>1, <1>2, <1>3 DEF Next, Work

THEOREM ValuesInvIsInvariant == Spec => []ValuesInv
PROOF
  <1> QED
    BY InitValues, NextKeepsValues, PTL DEF Spec

LEMMA EqualityHolds ==
    ASSUME ValuesInv, part = "values", asserted = "Equal"
    PROVE  A!EqualMeansSame /\ A!SameTypesCompare
PROOF
  <1>1. /\ given \in A!Values /\ expected \in A!Values
        /\ verdict = "" \/ verdict = A!Verdict(A!CompareTo(expected, given), "yes")
    BY DEF ValuesInv, Answer
  <1>2. Shape(given) /\ Shape(expected)
    BY <1>1, ShapeOfValues
  <1>3. /\ verdict = "passes" => A!CompareTo(expected, given) = "yes"
        /\ verdict = A!Throws => A!CompareTo(expected, given) = A!Throws
    BY <1>1, VerdictSays DEF A!Throws
  <1>4. CASE expected.type = "List"
    <2>1. given.type = "List" => A!CompareTo(expected, given) = A!CompareLists(expected, given)
      BY <1>4 DEF A!CompareTo
    <2>2. given.type # "List" => A!CompareTo(expected, given) = A!Throws
      BY <1>4 DEF A!CompareTo
    <2>3. ASSUME verdict = "passes"
          PROVE  \A i \in DOMAIN expected.val \cap DOMAIN given.val :
                     A!SameNumber(expected.val[i], given.val[i])
      <3>1. given.type = "List"
        BY <1>3, <2>2, <2>3 DEF A!Throws
      <3> QED
        BY <1>2, <1>3, <1>4, <2>1, <2>3, <3>1, ListsAgree
    <2>4. A!EqualMeansSame
      BY <1>4, <2>3 DEF A!EqualMeansSame
    <2>5. A!SameTypesCompare
      BY <1>2, <1>3, <1>4, <2>1, ListsAgree DEF A!SameTypesCompare
    <2> QED
      BY <2>4, <2>5
  <1>5. CASE expected.type # "List"
    <2>1. A!CompareTo(expected, given) = A!CompareScalars(expected, given)
      BY <1>5 DEF A!CompareTo
    <2>2. ScalarShape(expected)
      BY <1>2, <1>5 DEF Shape
    <2>3. CASE expected.type = "Anything"
      <3>1. A!CompareScalars(expected, given) = A!Says(TRUE)
        BY <2>3 DEF A!CompareScalars, A!IsNumber
      <3> QED
        BY <1>3, <2>1, <2>3, <3>1 DEF A!EqualMeansSame, A!SameTypesCompare, A!Says, A!Throws
    <2>4. CASE expected.type = "Nothing"
      <3>1. A!CompareScalars(expected, given) = A!Says(FALSE)
        BY <2>4 DEF A!CompareScalars, A!IsNumber
      <3> QED
        BY <1>3, <2>1, <2>4, <3>1 DEF A!EqualMeansSame, A!SameTypesCompare, A!Says, A!Throws
    <2>5. CASE expected.type = "Bool"
      <3>1. ASSUME given.type = "Bool", verdict = "passes" PROVE given = expected
        <4>1. ScalarShape(given)
          BY <1>2, <3>1 DEF Shape
        <4>2. expected.val = given.val
          BY <1>3, <2>1, <2>5, <3>1, BoolsAgree
        <4> QED
          BY <2>2, <2>5, <3>1, <4>1, <4>2 DEF ScalarShape
      <3>2. A!EqualMeansSame
        BY <2>5, <3>1 DEF A!EqualMeansSame
      <3>3. A!SameTypesCompare
        BY <1>3, <2>1, <2>5, BoolsAgree DEF A!SameTypesCompare
      <3> QED
        BY <3>2, <3>3
    <2>6. CASE expected.type \in {"String", "Address"}
      <3>1. expected.type = "Address" /\ given.type = "Address" =>
               expected.val \in Spellings /\ given.val \in Spellings
        BY <1>2, <2>2 DEF Shape, ScalarShape, Numeric
      <3>2. verdict = "passes" => A!SameWord(expected, given)
        BY <1>3, <2>1, <2>6, StringsAgree
      <3>3. A!EqualMeansSame
        BY <2>6, <3>2 DEF A!EqualMeansSame
      <3>4. A!SameTypesCompare
        BY <1>3, <2>1, <2>6, <3>1, StringsAgree DEF A!SameTypesCompare
      <3> QED
        BY <3>3, <3>4
    <2>7. CASE expected.type \in Numeric
      <3>1. /\ A!CompareScalars(expected, given) = "yes" => A!SameNumber(expected, given)
            /\ given.type = expected.type => A!CompareScalars(expected, given) # A!Throws
        <4>1. expected.type = "Precise" \/ A!IsNumber(expected)
          BY <2>7 DEF Numeric, A!IsNumber
        <4> QED
          BY <1>2, <2>2, <4>1, NumbersAgree, PreciseAgree
      <3>2. A!EqualMeansSame
        BY <1>3, <2>1, <2>7, <3>1 DEF A!EqualMeansSame, Numeric
      <3>3. A!SameTypesCompare
        BY <1>3, <2>1, <3>1 DEF A!SameTypesCompare
      <3> QED
        BY <3>2, <3>3
    <2> QED
      BY <2>2, <2>3, <2>4, <2>5, <2>6, <2>7 DEF ScalarShape
  <1> QED
    BY <1>4, <1>5

LEMMA OrderHolds ==
    ASSUME ValuesInv, part = "values"
    PROVE  A!OrderIsSound
PROOF
  <1> DEFINE order == A!CompareOrder(given, expected)
  <1>1. ASSUME asserted \in {"LessThan", "GreaterThan"}
        PROVE  Shape(given) /\ Shape(expected)
    BY <1>1, ShapeOfValues DEF ValuesInv
  <1>2. /\ asserted = "LessThan" => verdict = "" \/ verdict = A!Verdict(order, "less")
        /\ asserted = "GreaterThan" => verdict = "" \/ verdict = A!Verdict(order, "greater")
    BY DEF ValuesInv, Answer
  <1>3. ASSUME asserted \in {"LessThan", "GreaterThan"}
        PROVE  /\ order = "less" => given.val < expected.val
               /\ order = "greater" => given.val > expected.val
               /\ order # A!Throws =>
                    /\ given.val \in Nat /\ expected.val \in Nat
                    /\ given.val < Safe /\ expected.val < Safe =>
                         order = IF given.val = expected.val THEN "equal"
                                 ELSE IF given.val > expected.val THEN "greater" ELSE "less"
    BY <1>1, <1>3, OrderSays
  <1> HIDE DEF order
  <1>4. Safe \in Nat
    BY NumbersAssumption
  <1>5. asserted = "LessThan" /\ verdict = "passes" => given.val < expected.val
    BY <1>2, <1>3, VerdictSays
  <1>6. asserted = "GreaterThan" /\ verdict = "passes" => given.val > expected.val
    BY <1>2, <1>3, VerdictSays
  <1>7. ASSUME asserted \in {"LessThan", "GreaterThan"}, verdict = "fails"
        PROVE  \/ given.val >= Safe \/ expected.val >= Safe
               \/ given.val = expected.val
               \/ (given.val < expected.val) = (asserted = "GreaterThan")
    <2>1. /\ order # A!Throws
          /\ asserted = "LessThan" => order # "less"
          /\ asserted = "GreaterThan" => order # "greater"
      BY <1>2, <1>7, VerdictSays
    <2>2. given.val \in Nat /\ expected.val \in Nat
      BY <1>3, <1>7, <2>1
    <2>3. SUFFICES ASSUME given.val < Safe, expected.val < Safe, given.val # expected.val
                   PROVE  (given.val < expected.val) = (asserted = "GreaterThan")
      BY <1>4, <2>2
    <2>4. order = IF given.val > expected.val THEN "greater" ELSE "less"
      BY <1>3, <1>7, <2>1, <2>3
    <2> QED
      BY <1>7, <2>1, <2>2, <2>3, <2>4
  <1> QED
    BY <1>5, <1>6, <1>7 DEF A!OrderIsSound

\* An assertion that passes says something true of the values it compares, and
\* values of one type can be compared, whatever the numbers, words and addresses
\* (compareTo and compareOrder, Value.ts).
THEOREM ComparisonsTheorem == Spec => []ComparisonsAreSound
PROOF
  <1>1. ASSUME ValuesInv, part = "values"
        PROVE  A!EqualMeansSame /\ A!OrderIsSound /\ A!SameTypesCompare
    <2>1. asserted # "Equal" => A!EqualMeansSame /\ A!SameTypesCompare
      BY DEF A!EqualMeansSame, A!SameTypesCompare
    <2> QED
      BY <1>1, <2>1, EqualityHolds, OrderHolds
  <1>2. ValuesInv => ComparisonsAreSound
    BY <1>1 DEF ComparisonsAreSound
  <1> QED
    BY <1>2, ValuesInvIsInvariant, PTL

--------------------------------------------------------------------------------
(***************************************************************************)
(* The tables of the views. Every view says what type its answer has.      *)
(***************************************************************************)
\* A table of views in which every answer has a type.
TypedRow(row) == \A r \in row.reads : r.type # ""
Typed(views) == IsSequence(views) /\ \A i \in DOMAIN views : TypedRow(views[i])

LEMMA TypedConcat ==
    ASSUME NEW v, NEW w, Typed(v), Typed(w)
    PROVE  Typed(v \o w)
PROOF
  <1>1. PICK S, T : v \in Seq(S) /\ w \in Seq(T)
    BY SequenceOf DEF Typed
  <1> DEFINE U == {v[i] : i \in DOMAIN v} \cup {w[i] : i \in DOMAIN w}
  <1>2. v \in Seq(U) /\ w \in Seq(U)
    BY <1>1
  <1>3. \A x \in U : TypedRow(x)
    BY DEF Typed
  <1> HIDE DEF U
  <1>4. v \o w \in Seq(U)
    BY <1>2
  <1> DEFINE both == v \o w
  <1> HIDE DEF both
  <1>5. IsSequence(both)
    BY <1>4, SequenceOf DEF both
  <1>6. \A i \in DOMAIN both : both[i] \in U
    BY <1>4 DEF both
  <1> QED
    BY <1>3, <1>5, <1>6 DEF Typed, both

LEMMA SequenceFrom ==
    ASSUME NEW m, NEW n \in Nat, m = [i \in 1 .. n |-> m[i]]
    PROVE  IsSequence(m) /\ DOMAIN m = 1 .. n
PROOF
  <1> DEFINE T == {m[i] : i \in 1 .. n}
  <1>1. \A i \in 1 .. n : m[i] \in T
    OBVIOUS
  <1> HIDE DEF T
  <1>2. m \in Seq(T)
    BY <1>1
  <1>3. DOMAIN m = 1 .. n
    OBVIOUS
  <1> QED
    BY <1>2, <1>3, SequenceOf

LEMMA TypedReadEach ==
    ASSUME NEW pos, NEW args, NEW params, NEW type, NEW pairs,
           IsSequence(pairs), type # ""
    PROVE  Typed(V!ReadEach(pos, args, params, type, pairs))
PROOF
  <1> DEFINE row(i) == V!Reads(V!View(pairs[i][1], pos, args), pairs[i][2], params, 1, type)
             rows == V!ReadEach(pos, args, params, type, pairs)
  <1>1. Len(pairs) \in Nat /\ DOMAIN pairs = 1 .. Len(pairs)
    BY DEF IsSequence
  <1>2. rows = [i \in DOMAIN pairs |-> row(i)]
    BY DEF V!ReadEach
  <1>3. \A i \in DOMAIN pairs : row(i).reads = {V!ReadsIf("", pairs[i][2], params, 1, type)}
    BY DEF V!Reads
  <1>4. \A i \in DOMAIN pairs : V!ReadsIf("", pairs[i][2], params, 1, type).type = type
    BY DEF V!ReadsIf
  <1> HIDE DEF rows, row
  <1>5. rows = [i \in 1 .. Len(pairs) |-> rows[i]]
        /\ \A i \in DOMAIN rows : i \in DOMAIN pairs /\ rows[i] = row(i)
    BY <1>1, <1>2
  <1>6. IsSequence(rows)
    BY <1>1, <1>5, SequenceFrom
  <1>7. \A i \in DOMAIN rows : TypedRow(rows[i])
    BY <1>3, <1>4, <1>5 DEF TypedRow
  <1> QED
    BY <1>6, <1>7 DEF Typed, rows

LEMMA TypedAnsweredBy ==
    ASSUME NEW pos, NEW args, NEW type, NEW names, IsSequence(names), type # ""
    PROVE  Typed(V!AnsweredBy(pos, args, type, names))
PROOF
  <1> DEFINE pairs == [i \in DOMAIN names |-> <<names[i], "">>]
  <1>1. Len(names) \in Nat /\ DOMAIN names = 1 .. Len(names)
    BY DEF IsSequence
  <1>2. pairs = [i \in 1 .. Len(names) |-> pairs[i]]
    BY <1>1
  <1> HIDE DEF pairs
  <1>3. IsSequence(pairs)
    BY <1>1, <1>2, SequenceFrom
  <1> QED
    BY <1>3, TypedReadEach DEF V!AnsweredBy, pairs

LEMMA Tuples ==
    /\ \A a : IsSequence(<<a>>)
    /\ \A a, b : IsSequence(<<a, b>>)
    /\ \A a, b, c : IsSequence(<<a, b, c>>)
    /\ \A a, b, c, d : IsSequence(<<a, b, c, d>>)
    /\ \A a, b, c, d, e : IsSequence(<<a, b, c, d, e>>)
    /\ \A a, b, c, d, e, f : IsSequence(<<a, b, c, d, e, f>>)
    /\ \A a, b, c, d, e, f, g, h : IsSequence(<<a, b, c, d, e, f, g, h>>)
    /\ \A a, b, c, d, e, f, g, h, i, j, k : IsSequence(<<a, b, c, d, e, f, g, h, i, j, k>>)
BY DEF IsSequence

LEMMA ReadsType ==
    ASSUME NEW said_, NEW method, NEW params, NEW at, NEW type
    PROVE  V!ReadsIf(said_, method, params, at, type).type = type
BY DEF V!ReadsIf

LEMMA TypedRead ==
    ASSUME NEW view, NEW method, NEW params, NEW at, NEW type, type # ""
    PROVE  TypedRow(V!Reads(view, method, params, at, type))
PROOF
  <1>1. V!Reads(view, method, params, at, type).reads = {V!ReadsIf("", method, params, at, type)}
    BY DEF V!Reads
  <1> DEFINE x == V!ReadsIf("", method, params, at, type)
  <1>2. x.type = type
    BY DEF V!ReadsIf
  <1> HIDE DEF x
  <1>3. V!Reads(view, method, params, at, type).reads = {x}
    BY <1>1 DEF x
  <1> QED
    BY <1>2, <1>3 DEF TypedRow

LEMMA TypedRows ==
    /\ \A a : TypedRow(a) => Typed(<<a>>)
    /\ \A a, b : TypedRow(a) /\ TypedRow(b) => Typed(<<a, b>>)
    /\ \A a, b, c : TypedRow(a) /\ TypedRow(b) /\ TypedRow(c) => Typed(<<a, b, c>>)
    /\ \A a, b, c, d, e, f :
          TypedRow(a) /\ TypedRow(b) /\ TypedRow(c) /\ TypedRow(d) /\ TypedRow(e) /\ TypedRow(f)
              => Typed(<<a, b, c, d, e, f>>)
PROOF
  <1>1. \A a : TypedRow(a) => Typed(<<a>>)
    BY Tuples DEF Typed
  <1>2. \A a, b : TypedRow(a) /\ TypedRow(b) => Typed(<<a, b>>)
    BY Tuples DEF Typed
  <1>3. \A a, b, c : TypedRow(a) /\ TypedRow(b) /\ TypedRow(c) => Typed(<<a, b, c>>)
    BY Tuples DEF Typed
  <1>4. \A a, b, c, d, e, f :
          TypedRow(a) /\ TypedRow(b) /\ TypedRow(c) /\ TypedRow(d) /\ TypedRow(e) /\ TypedRow(f)
              => Typed(<<a, b, c, d, e, f>>)
    BY Tuples DEF Typed
  <1> QED
    BY <1>1, <1>2, <1>3, <1>4

LEMMA TypedMarkets == Typed(V!JTokenViews)
PROOF
  <1>1. Typed(V!MarketAddressViews)
    BY Tuples, TypedReadEach, TypedAnsweredBy, TypedConcat DEF V!MarketAddressViews
  <1>2. Typed(V!BalanceViews)
    BY Tuples, TypedReadEach DEF V!BalanceViews
  <1>3. Typed(V!MarketStateViews)
    BY Tuples, TypedReadEach, TypedAnsweredBy, TypedConcat DEF V!MarketStateViews
  <1>4. Typed(V!CollateralViews)
    BY Tuples, TypedReadEach, TypedConcat DEF V!CollateralViews
  <1> QED
    BY <1>1, <1>2, <1>3, <1>4, TypedConcat DEF V!JTokenViews

LEMMA TypedJoetroller == Typed(V!JoetrollerViews)
PROOF
  <1>1. Typed(V!LiquidityViews)
    <2> DEFINE r == V!ReadsIf("Borrows", "getHypotheticalAccountLiquidity",
                              <<"account", "jToken", Zero, "amount">>, 2, "Number")
               s == V!ReadsIf("Redeems", "getHypotheticalAccountLiquidity",
                              <<"account", "jToken", "amount", Zero>>, 2, "Number")
    <2>1. r.type = "Number" /\ s.type = "Number"
      BY ReadsType
    <2>2. V!Zero = Zero
      BY DEF V!Zero, Zero
    <2> HIDE DEF r, s
    <2>3. ASSUME NEW view PROVE TypedRow([expr |-> view, reads |-> {r, s}])
      BY <2>1 DEF TypedRow
    <2> QED
      BY <2>2, <2>3, TypedRows, TypedRead DEF V!LiquidityViews, r, s
  <1>2. Typed(V!JoetrollerStateViews)
    BY Tuples, TypedReadEach, TypedAnsweredBy, TypedConcat DEF V!JoetrollerStateViews
  <1>3. Typed(V!MembershipViews)
    BY TypedRows, TypedRead DEF V!MembershipViews
  <1>4. Typed(V!GuardianViews)
    BY Tuples, TypedReadEach, TypedConcat DEF V!GuardianViews
  <1>5. Typed(V!CapViews)
    BY Tuples, TypedReadEach, TypedAnsweredBy, TypedConcat DEF V!CapViews
  <1> QED
    BY <1>1, <1>2, <1>3, <1>4, <1>5, TypedConcat DEF V!JoetrollerViews

LEMMA TypedTokens == Typed(V!Erc20Views) /\ Typed(V!JoeViews)
PROOF
  <1>1. \A pos, token : Typed(V!TokenViews(pos, token))
    BY Tuples, TypedReadEach, TypedAnsweredBy, TypedConcat DEF V!TokenViews
  <1>2. Typed(V!VoteViews)
    BY Tuples, TypedReadEach, TypedConcat DEF V!VoteViews
  <1> QED
    BY <1>1, <1>2, TypedConcat DEF V!Erc20Views, V!JoeViews

LEMMA TypedOthers ==
    /\ Typed(V!UnitrollerViews) /\ Typed(V!InterestRateModelViews)
    /\ Typed(V!PriceOracleViews) /\ Typed(V!PriceOracleProxyViews)
    /\ Typed(V!JTokenDelegateViews) /\ Typed(V!JoetrollerImplViews) /\ Typed(V!UserViews)
PROOF
  <1>1. ASSUME NEW view, NEW method, NEW params
        PROVE  Typed(<<V!Reads(view, method, params, 1, "Number")>>)
    BY TypedRows, TypedRead
  <1>2. \A oracle, method : Typed(V!PriceViews(oracle, method))
    BY <1>1, Tuples, TypedAnsweredBy, TypedConcat DEF V!PriceViews
  <1>3. Typed(V!UnitrollerViews)
    BY Tuples, TypedReadEach, TypedAnsweredBy, TypedConcat DEF V!UnitrollerViews
  <1>4. Typed(V!InterestRateModelViews)
    BY <1>1, Tuples, TypedAnsweredBy, TypedConcat DEF V!InterestRateModelViews
  <1>5. Typed(V!PriceOracleViews) /\ Typed(V!PriceOracleProxyViews)
    BY <1>2, Tuples, TypedReadEach, TypedConcat DEF V!PriceOracleViews, V!PriceOracleProxyViews
  <1>6. Typed(V!JTokenDelegateViews) /\ Typed(V!JoetrollerImplViews) /\ Typed(V!UserViews)
    BY Tuples, TypedAnsweredBy DEF V!JTokenDelegateViews, V!JoetrollerImplViews, V!UserViews
  <1> QED
    BY <1>3, <1>4, <1>5, <1>6

LEMMA TypedCore == Typed(V!CoreViews)
PROOF
  <1>1. Typed(V!ConstantViews) /\ Typed(V!WorldViews) /\ Typed(V!NodeViews) /\ Typed(V!ComparingViews)
    BY Tuples, TypedAnsweredBy, TypedConcat
    DEF V!ConstantViews, V!WorldViews, V!NodeViews, V!ComparingViews
  <1>2. Typed(V!LiteralViews)
    BY Tuples, TypedAnsweredBy, TypedConcat DEF V!LiteralViews
  <1>3. Typed(V!StorageViews)
    <2>1. ASSUME NEW name, NEW keys, NEW types, \A t \in types : t[2] # ""
          PROVE  TypedRow(V!StorageView(name, keys, types))
      <3>1. V!StorageView(name, keys, types).reads
              = {V!ReadsIf(t[1], "", << >>, 1, t[2]) : t \in types}
        BY DEF V!StorageView
      <3>2. \A t \in types : V!ReadsIf(t[1], "", << >>, 1, t[2]).type # ""
        <4> TAKE t \in types
        <4>1. V!ReadsIf(t[1], "", << >>, 1, t[2]).type = t[2]
          BY DEF V!ReadsIf
        <4> QED
          BY <2>1, <4>1
      <3> QED
        BY <3>1, <3>2 DEF TypedRow
    <2>2. /\ <<"bool", "Bool">>[2] # "" /\ <<"address", "Address">>[2] # ""
          /\ <<"number", "Number">>[2] # "" /\ <<"marketStruct", "List">>[2] # ""
          /\ <<"list(address)", "List">>[2] # ""
      OBVIOUS
    <2> QED
      BY <2>1, <2>2, TypedRows DEF V!StorageViews, V!Scalars
  <1>4. Typed(V!TimeViews)
    BY Tuples, TypedAnsweredBy, TypedConcat DEF V!TimeViews
  <1>5. Typed(V!ListViews)
    BY Tuples, TypedAnsweredBy, TypedConcat DEF V!ListViews
  <1>6. Typed(V!HandingViews)
    BY Tuples, TypedAnsweredBy DEF V!HandingViews, V!ContractKinds
  <1> QED
    BY <1>1, <1>2, <1>3, <1>4, <1>5, <1>6, TypedConcat DEF V!CoreViews

LEMMA ViewsAreTyped == \A k \in V!ViewKinds : Typed(V!Views[k])
PROOF
  <1>1. V!ViewKinds = {"Core", "User", "Unitroller", "Joetroller", "JoetrollerImpl", "JToken",
                       "JTokenDelegate", "Erc20", "InterestRateModel", "PriceOracle",
                       "PriceOracleProxy", "Joe"}
    BY DEF V!ViewKinds, V!Views
  <1> QED
    BY <1>1, TypedMarkets, TypedJoetroller, TypedTokens, TypedOthers, TypedCore DEF V!Views

--------------------------------------------------------------------------------
(***************************************************************************)
(* The types of all parts. A generated command is called only of a         *)
(* contract that is known; what a handler sends and records is empty until *)
(* it is done; and a view that is reading is a row of the table of its     *)
(* kind, so that its answer has a type.                                    *)
(***************************************************************************)
BuilderInv ==
    /\ stage \in {"idle", "building", "reading", "calling"}
    /\ table \in {"none", "built"}
    /\ known \in [Names -> Generated \cup {B!NotDeployed}]
    /\ stage \in {"building", "reading"} => event.contract \in Generated
    /\ stage = "calling" => known[event.receiver] # B!NotDeployed

ActInv ==
    /\ E!TypeOK
    /\ stage \notin {"done", "aborted"} => sent = << >> /\ recorded = << >>

IsView(e) == \E i \in DOMAIN V!Views[kind] : V!Views[kind][i].expr = e
ReadInv ==
    /\ V!TypeOK
    /\ kind \in V!ViewKinds
    /\ stage # "done" => result = V!NoValue
    /\ stage = "found" => IsView(expr)
    /\ stage = "calling" => call.type # ""

TypeInv ==
    /\ CommandInv
    /\ part = "builder" => BuilderInv
    /\ part = "act" => ActInv
    /\ part = "read" => ReadInv

\* The command tables refuse for the reason that is given.
LEMMA CommandTypes ==
    ASSUME CommandInv, part = "command"
    PROVE  C!TypeOK
PROOF
  <1>1. CASE status \in {"matching", "unknown"} /\ expr = C!Nobody /\ bound = << >>
    <2>1. DOMAIN bound = {}
      BY <1>1
    <2> QED
      BY <1>1, <2>1 DEF CommandInv, C!TypeOK, C!Refusals
  <1>2. CASE status \in Matched /\ RowInv /\ BindingInv /\ StatusInv
    <2>1. \A i \in DOMAIN bound : BoundInv(bound[i], expr.args, C!Supplied, i)
      BY <1>2 DEF BindingInv
    <2>2. \A i \in DOMAIN bound :
             /\ bound[i].how \in {"nothing", "read", "world", "default", "rescue"}
             /\ bound[i].how \notin {"read", "rescue"} => bound[i].events = << >>
      BY <2>1 DEF BoundInv, Binds
    <2> QED
      BY <1>2, <2>2 DEF CommandInv, C!TypeOK, C!Refusals, StatusInv, Matched
  <1> QED
    BY <1>1, <1>2 DEF CommandInv

LEMMA BuilderStarts ==
    ASSUME B!Init
    PROVE  BuilderInv
BY DEF B!Init, BuilderInv

LEMMA BuilderKeeps ==
    ASSUME BuilderInv, B!Next
    PROVE  BuilderInv'
PROOF
  <1>1. CASE B!ReadEvent
    <2>1. event'.contract \in Generated
      BY <1>1 DEF B!ReadEvent
    <2>2. stage' \in {"building", "reading"} /\ table' = table /\ known' = known
      BY <1>1 DEF B!ReadEvent
    <2> QED
      BY <2>1, <2>2 DEF BuilderInv
  <1>2. CASE B!GetCommands
    BY <1>2 DEF B!GetCommands, B!Refuse, BuilderInv
  <1>3. CASE B!Deploy
    BY <1>3 DEF B!Deploy, BuilderInv
  <1>4. CASE B!Bind
    BY <1>4 DEF B!Bind, B!Refuse, BuilderInv
  <1>5. CASE B!Call
    BY <1>5 DEF B!Call, BuilderInv
  <1> QED
    BY <1>1, <1>2, <1>3, <1>4, <1>5 DEF B!Next

\* The arguments that get events are arguments of the row.
LEMMA GivenAreNamed ==
    ASSUME NEW args, NEW n
    PROVE  /\ E!ArgumentsGiven(args, n) \subseteq {a.name : a \in E!Range(args)}
           /\ V!ArgumentsGiven(args, n) \subseteq {a.name : a \in V!Range(args)}
BY DEF E!ArgumentsGiven, E!Range, V!ArgumentsGiven, V!Range

LEMMA ActStarts ==
    ASSUME E!Init
    PROVE  ActInv
PROOF
  <1>1. class \in E!Classes[kind] \cup {E!NoClass}
    BY DEF E!Init
  <1>2. stage = "finding" /\ given = {} /\ sent = << >> /\ recorded = << >>
    BY DEF E!Init
  <1> QED
    BY <1>1, <1>2 DEF ActInv, E!TypeOK

LEMMA AtMostOne ==
    ASSUME NEW s, NEW a, s = << >> \/ s = Append(<< >>, a)
    PROVE  Len(s) <= 1
PROOF
  <1>1. CASE s = << >>
    BY <1>1
  <1>2. CASE s = Append(<< >>, a)
    <2>1. Len(Append(<< >>, a)) = 1
      OBVIOUS
    <2> QED
      BY <1>2, <2>1
  <1> QED
    BY <1>1, <1>2

\* What an outcome leaves on the chain is nothing or itself.
LEMMA OutcomesReach ==
    ASSUME NEW outcome, E!SendsWith(outcome), sent = << >>
    PROVE  /\ sent' = << >> \/ sent' = Append(<< >>, outcome)
           /\ dryRun => sent' = << >>
           /\ ~dryRun /\ outcome = "success" => sent' = <<"success">>
PROOF
  <1>1. E!OnChain(outcome) \subseteq {<< >>, Append(<< >>, outcome)}
    BY DEF E!OnChain
  <1>2. outcome = "success" => E!OnChain(outcome) = {Append(<< >>, "success")}
    BY DEF E!OnChain, E!Thrown
  <1>3. Append(<< >>, "success") = <<"success">>
    OBVIOUS
  <1> QED
    BY <1>1, <1>2, <1>3 DEF E!SendsWith

LEMMA ActKeeps ==
    ASSUME ActInv, E!Next
    PROVE  ActInv'
PROOF
  <1>1. ASSUME E!NotFound \/ E!Abort \/ E!Finish PROVE ActInv'
    BY <1>1 DEF E!NotFound, E!Abort, E!Finish, E!written, ActInv, E!TypeOK
  <1>2. ASSUME NEW rows, NEW e, NEW i, E!Binds(rows, e, i),
               kind' = kind, class' = class, sent' = sent, recorded' = recorded,
               stage \in {"finding", "found"}
        PROVE  ActInv'
    <2>1. PICK n : expr' = rows[i] /\ given' = E!ArgumentsGiven(rows[i].args, n) /\ stage' = "found"
      BY <1>2 DEF E!Binds
    <2>2. given' \subseteq {a.name : a \in E!Range(expr'.args)}
      BY <2>1, GivenAreNamed
    <2> QED
      BY <1>2, <2>1, <2>2 DEF ActInv, E!TypeOK
  <1>3. CASE E!FindCommand
    BY <1>1, <1>2, <1>3 DEF E!FindCommand, E!written
  <1>4. CASE E!FindBuilder
    BY <1>1, <1>2, <1>4 DEF E!FindBuilder, E!written
  <1>5. CASE E!Prepare
    BY <1>5 DEF E!Prepare, E!Handling, E!written, ActInv, E!TypeOK
  <1>6. CASE E!Invoke \/ E!MergeFails
    <2>1. stage = "calling" /\ sent = << >> /\ recorded = << >>
      BY <1>6 DEF E!Invoke, E!MergeFails, E!SendsWith, ActInv
    <2>2. /\ stage' \in {"done", "aborted"}
          /\ expr' = expr /\ given' = given /\ kind' = kind /\ class' = class
      BY <1>6 DEF E!Invoke, E!MergeFails, E!written
    <2>3. Len(sent') <= 1 /\ Len(recorded') <= 1
      <3>1. PICK outcome : /\ E!SendsWith(outcome)
                           /\ recorded' = recorded \/ recorded' = Append(recorded, outcome)
        BY <1>6 DEF E!Invoke, E!MergeFails
      <3>2. sent' = << >> \/ sent' = Append(<< >>, outcome)
        BY <2>1, <3>1, OutcomesReach
      <3>3. recorded' = << >> \/ recorded' = Append(<< >>, outcome)
        BY <2>1, <3>1
      <3> QED
        BY <3>2, <3>3, AtMostOne, Zenon
    <2> QED
      BY <2>2, <2>3 DEF ActInv, E!TypeOK
  <1>7. CASE E!Deploy \/ E!SaveFails \/ E!DeployFails
    <2>1. stage = "found" /\ sent = << >> /\ recorded = << >>
      BY <1>7 DEF E!Deploy, E!SaveFails, E!DeployFails, E!Planning, ActInv
    <2>2. /\ stage' \in {"done", "aborted"}
          /\ expr' = expr /\ given' = given /\ kind' = kind /\ class' = class
      BY <1>7 DEF E!Deploy, E!SaveFails, E!DeployFails, E!written
    <2>3. Len(sent') <= 1
      <3>1. sent' \in {sent, Append(sent, "error"), Append(sent, "deployed")}
        BY <1>7 DEF E!Deploy, E!SaveFails, E!DeployFails, E!Mined
      <3> QED
        BY <2>1, <3>1
    <2>4. Len(recorded') <= 1
      BY <1>7, <2>1 DEF E!Deploy, E!SaveFails, E!DeployFails
    <2> QED
      BY <2>2, <2>3, <2>4 DEF ActInv, E!TypeOK
  <1>8. CASE E!ResolveFails \/ E!Look \/ E!LookFails \/ E!SelectNothing \/ E!CallUnknown
             \/ E!DeployUnknown
    BY <1>1, <1>8 DEF E!ResolveFails, E!Look, E!LookFails, E!SelectNothing, E!CallUnknown,
                      E!DeployUnknown
  <1> QED
    BY <1>3, <1>4, <1>5, <1>6, <1>7, <1>8 DEF E!Next

LEMMA ReadStarts ==
    ASSUME V!Init
    PROVE  ReadInv
PROOF
  <1>1. /\ kind \in V!ViewKinds /\ stage = "finding" /\ given = {}
        /\ votes \in 0 .. MaxVotes /\ counted = 0 /\ result = V!NoValue
    <2>1. kind \in V!ViewKinds /\ stage = "finding" /\ given = {} /\ counted = 0 /\ result = V!NoValue
      BY DEF V!Init
    <2>2. votes \in IF wanted.name \in V!Counting THEN 0 .. MaxVotes ELSE {0}
      BY DEF V!Init
    <2>3. 0 \in 0 .. MaxVotes
      BY VotesAssumption
    <2> QED
      BY <2>1, <2>2, <2>3
  <1>2. V!NoValue.checkpoints = {} /\ V!NoValue.type = ""
    BY DEF V!NoValue, V!Value
  <1>3. 0 \in 0 .. MaxVotes
    BY VotesAssumption
  <1> QED
    BY <1>1, <1>2, <1>3 DEF ReadInv, V!TypeOK, V!Stages

\* The row that answers is one of those with that expression, and its answers
\* have types.
LEMMA RowIsTyped ==
    ASSUME kind \in V!ViewKinds, IsView(expr), NEW r \in V!Reading
    PROVE  r.type # ""
PROOF
  <1> DEFINE views == V!Views[kind]
  <1>1. Typed(views)
    BY ViewsAreTyped
  <1>2. PICK i \in DOMAIN views : views[i].expr = expr
    BY DEF IsView
  <1>3. V!Row = CHOOSE row \in V!Range(views) : row.expr = expr
    BY DEF V!Row
  <1> HIDE DEF views
  <1>4. V!Range(views) = {views[j] : j \in DOMAIN views}
    BY DEF V!Range
  <1>5. \E row \in V!Range(views) : row.expr = expr
    BY <1>2, <1>4
  <1>6. V!Row \in V!Range(views)
    BY <1>3, <1>5
  <1>7. TypedRow(V!Row)
    BY <1>1, <1>4, <1>6 DEF Typed
  <1>8. r \in V!Row.reads
    BY DEF V!Reading
  <1> QED
    BY <1>7, <1>8 DEF TypedRow

\* The row that takes an event is a row of the table.
LEMMA TakenByRow ==
    ASSUME NEW rows, NEW e, DOMAIN rows \in SUBSET Nat, NEW i \in V!Takes(rows, e)
    PROVE  i \in DOMAIN rows
PROOF
  <1> DEFINE S == V!Matching(rows, e)
  <1>1. (\E j \in DOMAIN rows : V!Matches(rows[j], e)) /\ i = V!Min(S)
    BY DEF V!Takes, V!Found, V!FirstMatch
  <1>2. S = {j \in DOMAIN rows : V!Matches(rows[j], e)}
    BY DEF V!Matching
  <1> HIDE DEF S
  <1>3. S \in SUBSET Nat /\ S # {} /\ S \subseteq DOMAIN rows
    BY <1>1, <1>2
  <1>4. C!Min(S) \in S
    BY <1>3, LeastOf
  <1>5. V!Min(S) = C!Min(S)
    BY DEF V!Min, C!Min
  <1> QED
    BY <1>1, <1>3, <1>4, <1>5

LEMMA ReadKeeps ==
    ASSUME ReadInv, V!Next
    PROVE  ReadInv'
PROOF
  <1>1. ASSUME V!Abort, stage # "done" PROVE ReadInv'
    BY <1>1 DEF V!Abort, V!written, ReadInv, V!TypeOK, V!Stages
  <1>2. ASSUME NEW t, result' = V!Value(t), t # "", stage' = "done",
               UNCHANGED <<V!written, votes, expr, given, counted>>
        PROVE  ReadInv'
    <2>1. result'.type = t /\ result'.checkpoints = {}
      BY <1>2 DEF V!Value
    <2> QED
      BY <1>2, <2>1 DEF V!written, ReadInv, V!TypeOK, V!Stages
  <1>3. CASE V!FindView
    <2>1. stage = "finding"
      BY <1>3 DEF V!FindView
    <2>2. ASSUME NEW e, NEW i \in V!Takes(V!Table, e),
                 expr' = V!Table[i],
                 NEW n, given' = V!ArgumentsGiven(V!Table[i].args, n),
                 stage' = IF kind # "Core" /\ expr = V!NoExpr THEN "finding" ELSE "found",
                 UNCHANGED <<V!written, votes, call, counted, result>>
          PROVE  ReadInv'
      <3>1. given' \subseteq {a.name : a \in V!Range(expr'.args)}
        BY <2>2, GivenAreNamed
      <3>2. ASSUME stage' = "found"
            PROVE  \E j \in DOMAIN V!Views[kind] : V!Views[kind][j].expr = expr'
        <4>1. V!Table = [j \in DOMAIN V!Views[kind] |-> V!Views[kind][j].expr]
          BY <2>2, <3>2 DEF V!Table, V!Exprs
        <4>2. Typed(V!Views[kind])
          BY ViewsAreTyped DEF ReadInv
        <4>3. DOMAIN V!Views[kind] \in SUBSET Nat
          BY <4>2 DEF Typed, IsSequence
        <4>4. i \in DOMAIN V!Table
          BY <2>2, <4>1, <4>3, TakenByRow
        <4> QED
          BY <2>2, <4>1, <4>4
      <3>3. stage' \in {"finding", "found"}
        BY <2>2
      <3> QED
        BY <2>1, <2>2, <3>1, <3>2, <3>3 DEF V!written, ReadInv, IsView, V!TypeOK, V!Stages
    <2>3. \/ V!Abort
          \/ \E e \in {V!List(V!Rest)} : \E i \in V!Takes(V!Table, e) :
                /\ expr' = V!Table[i]
                /\ given' = V!ArgumentsGiven(V!Table[i].args, V!Len(V!ArgsOf(V!Table[i], e)))
                /\ stage' = IF kind # "Core" /\ expr = V!NoExpr THEN "finding" ELSE "found"
                /\ UNCHANGED <<V!written, votes, call, counted, result>>
      BY <1>3 DEF V!FindView
    <2> QED
      BY <1>1, <2>1, <2>2, <2>3
  <1>4. CASE V!SelectNothing
    <2>1. "Nothing" # ""
      OBVIOUS
    <2>2. CASE kind = "Core"
      BY <1>2, <1>4, <2>1, <2>2 DEF V!SelectNothing
    <2>3. CASE kind # "Core"
      BY <1>1, <1>4, <2>3 DEF V!SelectNothing, V!Abort
    <2> QED
      BY <2>2, <2>3
  <1>5. CASE V!Answer
    <2>1. PICK r \in V!Reading : result' = V!Value(r.type)
      BY <1>5 DEF V!Answer
    <2>2. r.type # ""
      BY <1>5, RowIsTyped DEF V!Answer, ReadInv
    <2> QED
      BY <1>2, <1>5, <2>1, <2>2 DEF V!Answer
  <1>6. CASE V!Prepare
    <2>1. PICK r \in V!Reading :
             call' = [view |-> expr.name, method |-> r.method,
                      params |-> V!Values(expr.args, r.params), part |-> r.part, type |-> r.type]
      BY <1>6 DEF V!Prepare
    <2>2. r.type # ""
      BY <1>6, RowIsTyped DEF V!Prepare, ReadInv
    <2>3. call'.type # ""
      BY <2>1, <2>2
    <2> QED
      BY <1>6, <2>3 DEF V!Prepare, V!written, ReadInv, V!TypeOK, V!Stages
  <1>7. CASE V!CallReturns
    <2>1. CASE call.view \in V!Counting
      BY <1>7, <2>1 DEF V!CallReturns, V!written, ReadInv, V!TypeOK, V!Stages
    <2>2. CASE call.view \notin V!Counting
      BY <1>2, <1>7, <2>2 DEF V!CallReturns, ReadInv
    <2> QED
      BY <2>1, <2>2
  <1>8. CASE V!ReadCheckpoint
    <2>1. result' = [V!Value("Number") EXCEPT !.checkpoints = {counted - 1}]
      BY <1>8 DEF V!ReadCheckpoint
    <2>2. result'.type = "Number" /\ result'.checkpoints = {counted - 1}
      BY <2>1 DEF V!Value
    <2>3. counted - 1 \in 0 .. MaxVotes - 1
      <3>1. counted \in 0 .. MaxVotes /\ counted > 0
        BY <1>8 DEF V!ReadCheckpoint, ReadInv, V!TypeOK
      <3> QED
        BY <3>1, VotesAssumption
    <2> QED
      BY <1>8, <2>2, <2>3 DEF V!ReadCheckpoint, V!written, ReadInv, V!TypeOK, V!Stages
  <1>9. CASE V!ReadCheckpoints
    <2>1. result' = [V!Value("List") EXCEPT !.checkpoints = 0 .. counted - 1]
      BY <1>9 DEF V!ReadCheckpoints
    <2>2. result'.type = "List" /\ result'.checkpoints = 0 .. counted - 1
      BY <2>1 DEF V!Value
    <2>3. 0 .. counted - 1 \subseteq 0 .. MaxVotes - 1
      <3>1. counted \in 0 .. MaxVotes
        BY DEF ReadInv, V!TypeOK
      <3> QED
        BY <3>1, VotesAssumption
    <2> QED
      BY <1>9, <2>2, <2>3 DEF V!ReadCheckpoints, V!written, ReadInv, V!TypeOK, V!Stages
  <1>10. CASE V!OthersVote
    <2>1. votes' \in 0 .. MaxVotes
      <3>1. votes \in 0 .. MaxVotes /\ votes < MaxVotes /\ votes' = votes + 1
        BY <1>10 DEF V!OthersVote, ReadInv, V!TypeOK
      <3> QED
        BY <3>1, VotesAssumption
    <2> QED
      BY <1>10, <2>1 DEF V!OthersVote, V!written, ReadInv, IsView, V!TypeOK, V!Stages
  <1>11. CASE V!ResolveFails \/ V!NoAnswer \/ V!CallUnknown \/ V!CallFails \/ V!NoCheckpoint
    BY <1>1, <1>11 DEF V!ResolveFails, V!NoAnswer, V!CallUnknown, V!CallFails, V!NoCheckpoint
  <1> QED
    BY <1>3, <1>4, <1>5, <1>6, <1>7, <1>8, <1>9, <1>10, <1>11 DEF V!Next, V!Read

LEMMA InitTypes == Init => TypeInv
PROOF
  <1> SUFFICES ASSUME Init PROVE TypeInv
    OBVIOUS
  <1>1. CommandInv
    BY InitInv
  <1>2. part = "builder" => B!Init
    BY DEF Init
  <1>3. part = "act" => E!Init
    BY DEF Init
  <1>4. part = "read" => V!Init
    BY DEF Init
  <1> QED
    BY <1>1, <1>2, <1>3, <1>4, BuilderStarts, ActStarts, ReadStarts DEF TypeInv

LEMMA NextKeepsTypes == TypeInv /\ [Next]_vars => TypeInv'
PROOF
  <1> SUFFICES ASSUME TypeInv, [Next]_vars PROVE TypeInv'
    OBVIOUS
  <1>1. CommandInv'
    BY NextKeepsInv DEF TypeInv
  <1>2. CASE CommandStep \/ ValuesStep
    <2>1. part' \in {"command", "values"}
      BY <1>2 DEF CommandStep, ValuesStep, InCommand, InValues
    <2> QED
      BY <1>1, <2>1 DEF TypeInv
  <1>3. CASE BuilderStep \/ (InBuilder /\ B!ReadEvent)
    <2>1. part = "builder" /\ part' = "builder"
      BY <1>3 DEF BuilderStep, InBuilder
    <2>2. B!Next
      BY <1>3 DEF BuilderStep, B!Next
    <2> QED
      BY <1>1, <2>1, <2>2, BuilderKeeps DEF TypeInv
  <1>4. CASE ActStep
    <2>1. part = "act" /\ part' = "act"
      BY <1>4 DEF ActStep, InAct
    <2>2. E!Next
      BY <1>4 DEF ActStep, E!Next
    <2> QED
      BY <1>1, <2>1, <2>2, ActKeeps DEF TypeInv
  <1>5. CASE ReadStep \/ (InRead /\ V!OthersVote)
    <2>1. part = "read" /\ part' = "read"
      BY <1>5 DEF ReadStep, InRead
    <2>2. V!Next
      BY <1>5 DEF ReadStep, V!Next, V!Read
    <2> QED
      BY <1>1, <2>1, <2>2, ReadKeeps DEF TypeInv
  <1>6. CASE UNCHANGED vars
    <2>1. CASE part = "builder"
      BY <1>1, <1>6, <2>1 DEF vars, shared, onlyBuilder, TypeInv, BuilderInv
    <2>2. CASE part = "act"
      BY <1>1, <1>6, <2>2 DEF vars, shared, onContract, onlyAct, TypeInv, ActInv, E!TypeOK
    <2>3. CASE part = "read"
      BY <1>1, <1>6, <2>3 DEF vars, shared, onContract, onlyRead, TypeInv, ReadInv, IsView, V!TypeOK
    <2>4. CASE part \notin {"builder", "act", "read"}
      BY <1>1, <1>6, <2>4 DEF vars, TypeInv
    <2> QED
      BY <2>1, <2>2, <2>3, <2>4
  <1> QED
    BY <1>2, <1>3, <1>4, <1>5, <1>6 DEF Next, Work, Outside

\* Every variable of the part at work has its type, and an event is turned away
\* for the reason that is given, whatever the tables of the commands.
THEOREM TypeTheorem == Spec => []TypeOK
PROOF
  <1>1. Spec => []TypeInv
    BY InitTypes, NextKeepsTypes, PTL DEF Spec
  <1>2. TypeInv => TypeOK
    BY CommandTypes DEF TypeInv, TypeOK, BuilderInv, ActInv, ReadInv, B!TypeOK
  <1> QED
    BY <1>1, <1>2, PTL

--------------------------------------------------------------------------------
(***************************************************************************)
(* What a view says of the votes. Others vote while it reads; what it was  *)
(* told was true of one moment, and checkpoints are never taken back.      *)
(***************************************************************************)
VotesInv ==
    /\ counted \in Nat /\ votes \in Nat /\ counted <= votes
    /\ stage \in {"finding", "found", "calling"} => counted = 0
    /\ stage = "done" =>
          /\ \A i \in result.checkpoints : i < votes
          /\ counted > 0 => counted - 1 \in result.checkpoints

LEMMA VotesStart ==
    ASSUME V!Init
    PROVE  VotesInv
PROOF
  <1>1. stage = "finding" /\ counted = 0
    BY DEF V!Init
  <1>2. votes \in IF wanted.name \in V!Counting THEN 0 .. MaxVotes ELSE {0}
    BY DEF V!Init
  <1>3. votes \in 0 .. MaxVotes \/ votes = 0
    <2>1. CASE wanted.name \in V!Counting
      BY <1>2, <2>1
    <2>2. CASE wanted.name \notin V!Counting
      BY <1>2, <2>2
    <2> QED
      BY <2>1, <2>2
  <1>4. votes \in Nat /\ 0 <= votes
    BY <1>3, VotesAssumption
  <1>5. stage # "done"
    BY <1>1
  <1> QED
    BY <1>1, <1>4, <1>5 DEF VotesInv

LEMMA VotesKeep ==
    ASSUME VotesInv, V!Next
    PROVE  VotesInv'
PROOF
  <1>1. ASSUME V!Abort PROVE VotesInv'
    BY <1>1 DEF V!Abort, VotesInv
  <1>2. ASSUME NEW t, result' = V!Value(t), counted = 0, counted' = counted, votes' = votes
        PROVE  VotesInv'
    <2>1. result'.checkpoints = {}
      BY <1>2 DEF V!Value
    <2> QED
      BY <1>2, <2>1 DEF VotesInv
  <1>3. CASE V!FindView
    <2>1. stage = "finding"
      BY <1>3 DEF V!FindView
    <2>2. V!Abort \/ (stage' \in {"finding", "found"} /\ votes' = votes /\ counted' = counted)
      BY <1>3 DEF V!FindView
    <2>3. CASE stage' \in {"finding", "found"} /\ votes' = votes /\ counted' = counted
      BY <2>1, <2>3 DEF VotesInv
    <2> QED
      BY <1>1, <2>2, <2>3
  <1>4. CASE V!SelectNothing
    <2>1. counted = 0 /\ votes' = votes /\ counted' = counted
      BY <1>4 DEF V!SelectNothing, VotesInv
    <2>2. result' = V!Value("Nothing") \/ stage' = "aborted"
      BY <1>4 DEF V!SelectNothing
    <2> QED
      BY <1>2, <2>1, <2>2 DEF VotesInv
  <1>5. CASE V!Answer
    <2>1. counted = 0 /\ votes' = votes /\ counted' = counted
      BY <1>5 DEF V!Answer, VotesInv
    <2>2. PICK r : result' = V!Value(r.type)
      BY <1>5 DEF V!Answer
    <2> QED
      BY <1>2, <2>1, <2>2
  <1>6. CASE V!Prepare
    <2>1. counted = 0 /\ votes' = votes /\ counted' = counted /\ stage' = "calling"
      BY <1>6 DEF V!Prepare, VotesInv
    <2> QED
      BY <2>1 DEF VotesInv
  <1>7. CASE V!CallReturns
    <2>1. CASE call.view \in V!Counting
      <3>1. counted' = votes /\ votes' = votes /\ stage' = "counted"
        BY <1>7, <2>1 DEF V!CallReturns
      <3> QED
        BY <3>1 DEF VotesInv
    <2>2. CASE call.view \notin V!Counting
      <3>1. counted = 0 /\ votes' = votes /\ counted' = counted /\ result' = V!Value(call.type)
        BY <1>7, <2>2 DEF V!CallReturns, VotesInv
      <3> QED
        BY <1>2, <3>1
    <2> QED
      BY <2>1, <2>2
  <1>8. CASE V!ReadCheckpoint
    <2>1. /\ result' = [V!Value("Number") EXCEPT !.checkpoints = {counted - 1}]
          /\ votes' = votes /\ counted' = counted /\ counted > 0 /\ stage' = "done"
      BY <1>8 DEF V!ReadCheckpoint
    <2>2. result'.checkpoints = {counted - 1}
      BY <2>1 DEF V!Value
    <2> QED
      BY <2>1, <2>2 DEF VotesInv
  <1>9. CASE V!ReadCheckpoints
    <2>1. /\ result' = [V!Value("List") EXCEPT !.checkpoints = 0 .. counted - 1]
          /\ votes' = votes /\ counted' = counted /\ stage' = "done"
      BY <1>9 DEF V!ReadCheckpoints
    <2>2. result'.checkpoints = 0 .. counted - 1
      BY <2>1 DEF V!Value
    <2> QED
      BY <2>1, <2>2 DEF VotesInv
  <1>10. CASE V!OthersVote
    BY <1>10 DEF V!OthersVote, VotesInv
  <1>11. CASE V!ResolveFails \/ V!NoAnswer \/ V!CallUnknown \/ V!CallFails \/ V!NoCheckpoint
    BY <1>1, <1>11 DEF V!ResolveFails, V!NoAnswer, V!CallUnknown, V!CallFails, V!NoCheckpoint
  <1> QED
    BY <1>3, <1>4, <1>5, <1>6, <1>7, <1>8, <1>9, <1>10, <1>11 DEF V!Next, V!Read

--------------------------------------------------------------------------------
(***************************************************************************)
(* What a handler leaves behind. Only "Set" stores what it does not        *)
(* record, and it attaches to what is there and sends nothing; for this    *)
(* the commands "Deploy" and "Set" have to stand at the front.             *)
(***************************************************************************)
FrontRow(row) == row.name \in E!Building => row.namePos = 0 /\ ~row.catchall
AtFront(rows) == IsSequence(rows) /\ \A i \in DOMAIN rows : FrontRow(rows[i])

LEMMA FrontConcat ==
    ASSUME NEW v, NEW w, AtFront(v), AtFront(w)
    PROVE  AtFront(v \o w)
PROOF
  <1>1. PICK S, T : v \in Seq(S) /\ w \in Seq(T)
    BY SequenceOf DEF AtFront
  <1> DEFINE U == {v[i] : i \in DOMAIN v} \cup {w[i] : i \in DOMAIN w}
  <1>2. v \in Seq(U) /\ w \in Seq(U)
    BY <1>1
  <1>3. \A x \in U : FrontRow(x)
    BY DEF AtFront
  <1> HIDE DEF U
  <1>4. v \o w \in Seq(U)
    BY <1>2
  <1> DEFINE both == v \o w
  <1> HIDE DEF both
  <1>5. IsSequence(both)
    BY <1>4, SequenceOf DEF both
  <1>6. \A i \in DOMAIN both : both[i] \in U
    BY <1>4 DEF both
  <1> QED
    BY <1>3, <1>5, <1>6 DEF AtFront, both

LEMMA FrontRows ==
    /\ \A a :
          FrontRow(a)
              => AtFront(<<a>>)
    /\ \A a, b :
          FrontRow(a) /\ FrontRow(b)
              => AtFront(<<a, b>>)
    /\ \A a, b, c :
          FrontRow(a) /\ FrontRow(b) /\ FrontRow(c)
              => AtFront(<<a, b, c>>)
    /\ \A a, b, c, d :
          FrontRow(a) /\ FrontRow(b) /\ FrontRow(c) /\ FrontRow(d)
              => AtFront(<<a, b, c, d>>)
    /\ \A a, b, c, d, e :
          FrontRow(a) /\ FrontRow(b) /\ FrontRow(c) /\ FrontRow(d) /\ FrontRow(e)
              => AtFront(<<a, b, c, d, e>>)
    /\ \A a, b, c, d, e, f :
          FrontRow(a) /\ FrontRow(b) /\ FrontRow(c) /\ FrontRow(d) /\ FrontRow(e)
              /\ FrontRow(f)
              => AtFront(<<a, b, c, d, e, f>>)
    /\ \A a, b, c, d, e, f, g :
          FrontRow(a) /\ FrontRow(b) /\ FrontRow(c) /\ FrontRow(d) /\ FrontRow(e)
              /\ FrontRow(f) /\ FrontRow(g)
              => AtFront(<<a, b, c, d, e, f, g>>)
    /\ \A a, b, c, d, e, f, g, h :
          FrontRow(a) /\ FrontRow(b) /\ FrontRow(c) /\ FrontRow(d) /\ FrontRow(e)
              /\ FrontRow(f) /\ FrontRow(g) /\ FrontRow(h)
              => AtFront(<<a, b, c, d, e, f, g, h>>)
    /\ \A a, b, c, d, e, f, g, h, i :
          FrontRow(a) /\ FrontRow(b) /\ FrontRow(c) /\ FrontRow(d) /\ FrontRow(e)
              /\ FrontRow(f) /\ FrontRow(g) /\ FrontRow(h) /\ FrontRow(i)
              => AtFront(<<a, b, c, d, e, f, g, h, i>>)
PROOF
  <1>1. \A a :
          FrontRow(a)
              => AtFront(<<a>>)
    BY DEF AtFront, IsSequence
  <1>2. \A a, b :
          FrontRow(a) /\ FrontRow(b)
              => AtFront(<<a, b>>)
    BY DEF AtFront, IsSequence
  <1>3. \A a, b, c :
          FrontRow(a) /\ FrontRow(b) /\ FrontRow(c)
              => AtFront(<<a, b, c>>)
    BY DEF AtFront, IsSequence
  <1>4. \A a, b, c, d :
          FrontRow(a) /\ FrontRow(b) /\ FrontRow(c) /\ FrontRow(d)
              => AtFront(<<a, b, c, d>>)
    BY DEF AtFront, IsSequence
  <1>5. \A a, b, c, d, e :
          FrontRow(a) /\ FrontRow(b) /\ FrontRow(c) /\ FrontRow(d) /\ FrontRow(e)
              => AtFront(<<a, b, c, d, e>>)
    BY DEF AtFront, IsSequence
  <1>6. \A a, b, c, d, e, f :
          FrontRow(a) /\ FrontRow(b) /\ FrontRow(c) /\ FrontRow(d) /\ FrontRow(e)
              /\ FrontRow(f)
              => AtFront(<<a, b, c, d, e, f>>)
    BY DEF AtFront, IsSequence
  <1>7. \A a, b, c, d, e, f, g :
          FrontRow(a) /\ FrontRow(b) /\ FrontRow(c) /\ FrontRow(d) /\ FrontRow(e)
              /\ FrontRow(f) /\ FrontRow(g)
              => AtFront(<<a, b, c, d, e, f, g>>)
    BY DEF AtFront, IsSequence
  <1>8. \A a, b, c, d, e, f, g, h :
          FrontRow(a) /\ FrontRow(b) /\ FrontRow(c) /\ FrontRow(d) /\ FrontRow(e)
              /\ FrontRow(f) /\ FrontRow(g) /\ FrontRow(h)
              => AtFront(<<a, b, c, d, e, f, g, h>>)
    BY DEF AtFront, IsSequence
  <1>9. \A a, b, c, d, e, f, g, h, i :
          FrontRow(a) /\ FrontRow(b) /\ FrontRow(c) /\ FrontRow(d) /\ FrontRow(e)
              /\ FrontRow(f) /\ FrontRow(g) /\ FrontRow(h) /\ FrontRow(i)
              => AtFront(<<a, b, c, d, e, f, g, h, i>>)
    BY DEF AtFront, IsSequence
  <1> QED
    BY <1>1, <1>2, <1>3, <1>4, <1>5, <1>6, <1>7, <1>8, <1>9

LEMMA FrontKinds ==
    /\ \A name, pos, args : name \notin {"Deploy", "Set"} => FrontRow(E!Cmd(name, pos, args))
    /\ \A name, pos, args : name \notin {"Deploy", "Set"} => FrontRow(E!View(name, pos, args))
    /\ \A name, args : FrontRow(E!Cmd(name, 0, args))
BY DEF FrontRow, E!Building, E!Cmd, E!View, E!Expr

LEMMA FrontMarkets == AtFront(E!JTokenCommands)
PROOF
  <1>1. AtFront(E!DeployCommands)
    BY FrontRows, FrontKinds DEF E!DeployCommands
  <1>2. ASSUME NEW name, NEW args, name \notin {"Deploy", "Set"}
        PROVE  FrontRow(E!OnMarket(name, args)) /\ FrontRow(E!AskMarket(name, args))
    BY <1>2, FrontKinds DEF E!OnMarket, E!AskMarket
  <1>3. AtFront(E!SupplyCommands)
    BY <1>2, FrontRows DEF E!SupplyCommands
  <1>4. AtFront(E!BorrowCommands)
    BY <1>2, FrontRows DEF E!BorrowCommands
  <1>5. AtFront(E!LiquidationCommands)
    BY <1>2, FrontRows DEF E!LiquidationCommands
  <1>6. AtFront(E!AdminCommands)
    BY <1>2, FrontRows DEF E!AdminCommands
  <1>7. AtFront(E!ImplementationCommands)
    BY <1>2, FrontRows DEF E!ImplementationCommands
  <1>8. AtFront(E!OtherCommands)
    BY <1>2, FrontRows DEF E!OtherCommands
  <1> QED
    BY <1>1, <1>3, <1>4, <1>5, <1>6, <1>7, <1>8, FrontConcat DEF E!JTokenCommands

LEMMA FrontJoetroller == AtFront(E!JoetrollerCommands)
PROOF
  <1>1. ASSUME NEW name, NEW args, name \notin {"Deploy", "Set"}
        PROVE  FrontRow(E!OnJoetroller(name, args)) /\ FrontRow(E!AskJoetroller(name, args))
    BY <1>1, FrontKinds DEF E!OnJoetroller, E!AskJoetroller
  <1>2. AtFront(E!ListingCommands)
    BY <1>1, FrontRows, FrontKinds DEF E!ListingCommands
  <1>3. AtFront(E!MembershipCommands)
    BY <1>1, FrontRows DEF E!MembershipCommands
  <1>4. AtFront(E!FactorCommands)
    BY <1>1, FrontRows DEF E!FactorCommands
  <1>5. AtFront(E!GuardianCommands)
    BY <1>1, FrontRows DEF E!GuardianCommands
  <1>6. AtFront(E!ViewCommands)
    BY <1>1, FrontRows DEF E!ViewCommands
  <1>7. AtFront(E!CapCommands)
    BY <1>1, FrontRows DEF E!CapCommands
  <1> QED
    BY <1>2, <1>3, <1>4, <1>5, <1>6, <1>7, FrontConcat DEF E!JoetrollerCommands

LEMMA FrontTokens == AtFront(E!Erc20Commands) /\ AtFront(E!JoeCommands)
PROOF
  <1>1. ASSUME NEW name, NEW args, name \notin {"Deploy", "Set"}
        PROVE  FrontRow(E!OnToken(name, args)) /\ FrontRow(E!OnJoe(name, args))
    BY <1>1, FrontKinds DEF E!OnToken, E!OnJoe
  <1>2. AtFront(E!TransferCommands)
    BY <1>1, FrontRows, FrontKinds DEF E!TransferCommands
  <1>3. AtFront(E!TestTokenCommands)
    BY <1>1, FrontRows DEF E!TestTokenCommands
  <1>4. AtFront(E!JoeTransferCommands)
    BY <1>1, FrontRows, FrontKinds DEF E!JoeTransferCommands
  <1>5. AtFront(E!JoeScenarioCommands)
    BY <1>1, FrontRows DEF E!JoeScenarioCommands
  <1> QED
    BY <1>2, <1>3, <1>4, <1>5, FrontConcat DEF E!Erc20Commands, E!JoeCommands

LEMMA FrontOthers ==
    /\ AtFront(E!PriceOracleCommands) /\ AtFront(E!PriceOracleProxyCommands)
    /\ AtFront(E!UnitrollerCommands) /\ AtFront(E!JoetrollerImplCommands)
    /\ AtFront(E!InterestRateModelCommands) /\ AtFront(E!JTokenDelegateCommands)
PROOF
  <1>1. \A params : FrontRow(E!Deploying(params))
    BY FrontKinds DEF E!Deploying
  <1>2. \A name, type : FrontRow(E!Verifying(name)) /\ FrontRow(E!VerifyingNamed(name, type))
    BY FrontKinds DEF E!Verifying, E!VerifyingNamed
  <1>3. AtFront(E!PriceOracleCommands)
    BY <1>1, <1>2, FrontRows, FrontKinds DEF E!PriceOracleCommands
  <1>4. AtFront(E!PriceOracleProxyCommands)
    BY <1>1, <1>2, FrontRows, FrontKinds DEF E!PriceOracleProxyCommands
  <1>5. AtFront(E!UnitrollerCommands)
    BY <1>1, FrontRows, FrontKinds DEF E!UnitrollerCommands
  <1>6. AtFront(E!JoetrollerImplCommands)
    BY <1>1, <1>2, FrontRows, FrontKinds DEF E!JoetrollerImplCommands
  <1>7. AtFront(E!InterestRateModelCommands) /\ AtFront(E!JTokenDelegateCommands)
    BY <1>1, <1>2, FrontRows DEF E!InterestRateModelCommands, E!JTokenDelegateCommands
  <1> QED
    BY <1>3, <1>4, <1>5, <1>6, <1>7

LEMMA CommandsAreAtFront == \A k \in E!Kinds : AtFront(E!Commands[k])
PROOF
  <1>1. E!Kinds = {"JToken", "Joetroller", "Erc20", "Joe", "PriceOracle", "PriceOracleProxy",
                   "Unitroller", "JoetrollerImpl", "InterestRateModel", "JTokenDelegate"}
    BY DEF E!Kinds, E!Commands
  <1> QED
    BY <1>1, FrontMarkets, FrontJoetroller, FrontTokens, FrontOthers DEF E!Commands

\* The row that takes an event is a row of the table and matches it.
LEMMA TakenByCommand ==
    ASSUME NEW rows, NEW e, DOMAIN rows \in SUBSET Nat, NEW i \in E!Takes(rows, e)
    PROVE  i \in DOMAIN rows /\ E!Matches(rows[i], e)
PROOF
  <1> DEFINE S == E!Matching(rows, e)
  <1>1. (\E j \in DOMAIN rows : E!Matches(rows[j], e)) /\ i = E!Min(S)
    BY DEF E!Takes, E!Found, E!FirstMatch
  <1>2. S = {j \in DOMAIN rows : E!Matches(rows[j], e)}
    BY DEF E!Matching
  <1> HIDE DEF S
  <1>3. S \in SUBSET Nat /\ S # {} /\ S \subseteq DOMAIN rows
    BY <1>1, <1>2
  <1>4. C!Min(S) \in S
    BY <1>3, LeastOf
  <1>5. E!Min(S) = C!Min(S)
    BY DEF E!Min, C!Min
  <1> QED
    BY <1>1, <1>2, <1>4, <1>5

\* An event is handed to the builder by the command that it begins with.
LEMMA BuildingWord ==
    ASSUME kind \in E!Kinds,
           NEW i \in E!Takes(E!Commands[kind], E!List(event)),
           E!Commands[kind][i].name \in E!Building
    PROVE  event[1].word = E!Commands[kind][i].name
PROOF
  <1> DEFINE row == E!Commands[kind][i]
  <1>1. AtFront(E!Commands[kind])
    BY CommandsAreAtFront
  <1>2. DOMAIN E!Commands[kind] \in SUBSET Nat
    BY <1>1 DEF AtFront, IsSequence
  <1>3. i \in DOMAIN E!Commands[kind] /\ E!Matches(row, E!List(event))
    BY <1>2, TakenByCommand
  <1>4. row.namePos = 0 /\ ~row.catchall
    BY <1>1, <1>3 DEF AtFront, FrontRow
  <1>5. E!NameOf(row, E!List(event)) = row.name
    BY <1>3, <1>4 DEF E!Matches
  <1>6. E!AsList(E!List(event)) = event
    BY DEF E!AsList, E!List, E!IsList
  <1> HIDE DEF row
  <1>7. E!NameOf(row, E!List(event)) = event[0 + 1].word
    BY <1>4, <1>6 DEF E!NameOf
  <1> QED
    BY <1>5, <1>7 DEF row

\* Whoever is set is attached to.
LEMMA SetAttaches ==
    ASSUME NEW k, NEW i \in DOMAIN E!Variants(k, "Set")
    PROVE  E!Planned(E!Variants(k, "Set")[i]).class = "PriceOracle"
PROOF
  <1>1. E!Variants(k, "Set") = IF k = "PriceOracle" THEN E!SetPriceOracleBuilders ELSE << >>
    BY DEF E!Variants
  <1>2. k = "PriceOracle"
    BY <1>1
  <1> DEFINE view == E!View("Standard", 0, <<E!Needs("address", "Address"), E!Needs("description", "String")>>)
             variant == E!Builds(view, "PriceOracle", << >>)
  <1>3. variant.class = "PriceOracle" /\ variant.localClass = "PriceOracle"
    BY DEF E!Builds, E!BuildsBy
  <1>4. E!SetPriceOracleBuilders = <<variant>>
    BY DEF E!SetPriceOracleBuilders
  <1> HIDE DEF variant
  <1>5. E!Variants(k, "Set")[i] = variant
    BY <1>1, <1>2, <1>4
  <1>6. E!Chosen(variant) = "PriceOracle"
    BY <1>3 DEF E!Chosen
  <1>7. E!Planned(variant).class = E!Chosen(variant)
    BY DEF E!Planned
  <1> QED
    BY <1>5, <1>6, <1>7

\* "Set" is handed to its own builder, which attaches to a contract.
AtSet ==
    event[1].word = "Set" =>
        /\ stage = "found" /\ plan = E!NoPlan /\ expr.name \in E!Building => expr.name = "Set"
        /\ plan # E!NoPlan => E!Attaches
BooksInv ==
    /\ kind \in E!Kinds
    /\ stage # "done" => recorded = << >> /\ contracts = {}
    /\ stage \notin {"done", "aborted"} => sent = << >>
    /\ E!WhatIsSentIsRecorded
    /\ AtSet

LEMMA BooksStart ==
    ASSUME E!Init
    PROVE  BooksInv
PROOF
  <1>1. /\ kind \in E!Kinds /\ stage = "finding" /\ plan = E!NoPlan
        /\ sent = << >> /\ recorded = << >> /\ contracts = {}
    BY DEF E!Init
  <1> QED
    BY <1>1 DEF BooksInv, AtSet, E!WhatIsSentIsRecorded

LEMMA BooksKeep ==
    ASSUME BooksInv, E!Next
    PROVE  BooksInv'
PROOF
  <1>1. ASSUME E!NotFound \/ E!Abort \/ E!Finish, stage \notin {"done", "aborted"}
        PROVE  BooksInv'
    <2>1. /\ kind' = kind /\ event' = event /\ dryRun' = dryRun /\ plan' = plan
          /\ sent' = << >> /\ recorded' = << >> /\ contracts' = {}
          /\ stage' \in {"aborted", "done"}
      BY <1>1 DEF E!NotFound, E!Abort, E!Finish, E!written, BooksInv
    <2>2. recorded' # <<"success">>
      BY <2>1
    <2> QED
      BY <2>1, <2>2 DEF BooksInv, AtSet, E!Attaches, E!WhatIsSentIsRecorded
  <1>2. CASE E!FindCommand
    <2>1. stage = "finding"
      BY <1>2 DEF E!FindCommand
    <2>2. CASE E!NotFound
      BY <1>1, <2>1, <2>2
    <2>3. ASSUME NEW i \in E!Takes(E!Commands[kind], E!List(event)),
                 E!Binds(E!Commands[kind], E!List(event), i),
                 UNCHANGED <<E!written, call, plan, sent, recorded, contracts>>
          PROVE  BooksInv'
      <3>1. expr' = E!Commands[kind][i] /\ stage' = "found"
        BY <2>3 DEF E!Binds
      <3>2. expr'.name \in E!Building => event[1].word = expr'.name
        BY <2>3, <3>1, BuildingWord DEF BooksInv
      <3>3. /\ kind' = kind /\ event' = event /\ dryRun' = dryRun /\ plan' = plan
            /\ sent' = sent /\ recorded' = recorded /\ contracts' = contracts
        BY <2>3 DEF E!written
      <3> QED
        BY <2>1, <3>1, <3>2, <3>3 DEF BooksInv, AtSet, E!Attaches, E!WhatIsSentIsRecorded
    <2>4. \/ E!NotFound
          \/ \E i \in E!Takes(E!Commands[kind], E!List(event)) :
                /\ E!Binds(E!Commands[kind], E!List(event), i)
                /\ UNCHANGED <<E!written, call, plan, sent, recorded, contracts>>
      BY <1>2 DEF E!FindCommand
    <2> QED
      BY <2>2, <2>3, <2>4
  <1>3. CASE E!FindBuilder
    <2>1. stage = "found" /\ expr.name \in E!Building /\ plan = E!NoPlan
      BY <1>3 DEF E!FindBuilder
    <2>2. CASE E!NotFound
      BY <1>1, <2>1, <2>2
    <2>3. ASSUME NEW i \in E!Takes(E!VariantTable(kind, expr.name), E!List(E!Tail(event))),
                 E!Binds(E!VariantTable(kind, expr.name), E!List(E!Tail(event)), i),
                 plan' = E!Planned(E!Variants(kind, expr.name)[i]),
                 UNCHANGED <<E!written, call, sent, recorded, contracts>>
          PROVE  BooksInv'
      <3>1. stage' = "found"
        BY <2>3 DEF E!Binds
      <3>2. /\ kind' = kind /\ event' = event /\ dryRun' = dryRun
            /\ sent' = sent /\ recorded' = recorded /\ contracts' = contracts
        BY <2>3 DEF E!written
      <3>3. ASSUME event[1].word = "Set"
            PROVE  plan'.class = "PriceOracle"
        <4>1. expr.name = "Set"
          BY <2>1, <3>3 DEF BooksInv, AtSet
        <4>2. E!VariantTable(kind, "Set") = [j \in DOMAIN E!Variants(kind, "Set") |->
                                                E!Variants(kind, "Set")[j].expr]
          BY DEF E!VariantTable
        <4>3. DOMAIN E!Variants(kind, "Set") \in SUBSET Nat
          BY DEF E!Variants, E!SetPriceOracleBuilders
        <4>4. i \in DOMAIN E!Variants(kind, "Set")
          BY <2>3, <4>1, <4>2, <4>3, TakenByCommand
        <4> QED
          BY <2>3, <4>1, <4>4, SetAttaches
      <3>4. "PriceOracle" \in E!Interfaces /\ E!NoPlan.class # "PriceOracle"
        BY DEF E!Interfaces, E!NoPlan, E!NoClass
      <3>5. AtSet'
        BY <3>2, <3>3, <3>4 DEF AtSet, E!Attaches
      <3> QED
        BY <2>1, <3>1, <3>2, <3>5 DEF BooksInv, E!WhatIsSentIsRecorded
    <2>4. \/ E!NotFound
          \/ \E i \in E!Takes(E!VariantTable(kind, expr.name), E!List(E!Tail(event))) :
                /\ E!Binds(E!VariantTable(kind, expr.name), E!List(E!Tail(event)), i)
                /\ plan' = E!Planned(E!Variants(kind, expr.name)[i])
                /\ UNCHANGED <<E!written, call, sent, recorded, contracts>>
      BY <1>3 DEF E!FindBuilder
    <2> QED
      BY <2>2, <2>3, <2>4
  <1>4. CASE E!Prepare
    <2>1. /\ kind' = kind /\ event' = event /\ dryRun' = dryRun /\ plan' = plan
          /\ sent' = sent /\ recorded' = recorded /\ contracts' = contracts
          /\ stage = "found" /\ stage' = "calling"
      BY <1>4 DEF E!Prepare, E!Handling, E!written
    <2> QED
      BY <2>1 DEF BooksInv, AtSet, E!Attaches, E!WhatIsSentIsRecorded
  <1>5. CASE E!Invoke
    <2>1. stage = "calling" /\ sent = << >> /\ recorded = << >> /\ contracts = {}
      BY <1>5 DEF E!Invoke, E!SendsWith, BooksInv
    <2>2. /\ kind' = kind /\ event' = event /\ dryRun' = dryRun /\ plan' = plan
          /\ contracts' = contracts /\ stage' = "done"
      BY <1>5 DEF E!Invoke, E!written
    <2>3. AtSet'
      BY <2>2 DEF BooksInv, AtSet, E!Attaches
    <2>4. PICK outcome \in E!Outcomes : E!SendsWith(outcome) /\ recorded' = Append(recorded, outcome)
      BY <1>5 DEF E!Invoke
    <2>5. recorded' = <<outcome>>
      BY <2>1, <2>4
    <2>6. /\ recorded' # << >>
          /\ recorded' = <<"success">> /\ ~dryRun => sent' = recorded'
          /\ dryRun => sent' = << >>
      BY <2>1, <2>4, <2>5, OutcomesReach
    <2> QED
      BY <2>1, <2>2, <2>3, <2>6 DEF BooksInv, E!WhatIsSentIsRecorded
  <1>6. CASE E!MergeFails
    <2>1. stage = "calling" /\ sent = << >> /\ recorded = << >> /\ contracts = {}
      BY <1>6 DEF E!MergeFails, E!SendsWith, BooksInv
    <2>2. /\ kind' = kind /\ event' = event /\ dryRun' = dryRun /\ plan' = plan /\ call' = call
          /\ recorded' = recorded /\ contracts' = contracts /\ stage' = "aborted"
          /\ call.command = "Become" /\ ~dryRun
      BY <1>6 DEF E!MergeFails, E!written
    <2>3. AtSet'
      BY <2>2 DEF BooksInv, AtSet, E!Attaches
    <2> QED
      BY <2>1, <2>2, <2>3 DEF BooksInv, E!WhatIsSentIsRecorded
  <1>7. CASE E!Deploy
    <2>1. stage = "found" /\ sent = << >> /\ recorded = << >> /\ plan # E!NoPlan
      BY <1>7 DEF E!Deploy, E!Planning, BooksInv
    <2>2. /\ kind' = kind /\ event' = event /\ dryRun' = dryRun /\ plan' = plan /\ stage' = "done"
          /\ sent' = E!Mined
      BY <1>7 DEF E!Deploy, E!written
    <2>3. AtSet'
      BY <2>2 DEF BooksInv, AtSet, E!Attaches
    <2>4. /\ dryRun \/ E!Attaches => sent' = << >>
          /\ ~(dryRun \/ E!Attaches) => sent' = <<"deployed">>
      BY <2>1, <2>2 DEF E!Mined
    <2>5. ASSUME sent' # << >> PROVE recorded' # << >>
      <3>1. event[1].word # "Set"
        BY <2>1, <2>4, <2>5 DEF BooksInv, AtSet
      <3>2. PICK a : recorded' = Append(recorded, a)
        BY <1>7, <3>1 DEF E!Deploy
      <3> QED
        BY <2>1, <3>2
    <2>6. recorded' # <<"success">>
      <3>1. recorded' \in {recorded, Append(recorded, E!NoInvokation), Append(recorded, "deployed")}
        BY <1>7 DEF E!Deploy
      <3>2. \A a : a # "success" => Append(<< >>, a) # <<"success">>
        OBVIOUS
      <3>3. E!NoInvokation # "success"
        BY DEF E!NoInvokation
      <3>4. << >> # <<"success">>
        OBVIOUS
      <3> QED
        BY <2>1, <3>1, <3>2, <3>3, <3>4
    <2>7. E!Attaches' <=> E!Attaches
      BY <2>2 DEF E!Attaches
    <2>8. E!WhatIsSentIsRecorded'
      <3>1. stage' # "aborted"
        BY <2>2
      <3>2. contracts' # {} /\ ~dryRun' /\ ~E!Attaches' => sent' = <<"deployed">>
        BY <2>2, <2>4, <2>7
      <3>3. dryRun' => sent' = << >>
        BY <2>2, <2>4
      <3>4. sent' # << >> => recorded' # << >>
        BY <2>5
      <3> QED
        BY <3>1, <3>2, <3>3, <3>4, <2>6 DEF E!WhatIsSentIsRecorded
    <2> QED
      BY <2>2, <2>3, <2>8 DEF BooksInv
  <1>8. CASE E!SaveFails \/ E!DeployFails
    <2>1. stage = "found" /\ sent = << >> /\ recorded = << >> /\ contracts = {} /\ plan # E!NoPlan
      BY <1>8 DEF E!SaveFails, E!DeployFails, E!Planning, BooksInv
    <2>2. /\ kind' = kind /\ event' = event /\ dryRun' = dryRun /\ plan' = plan
          /\ recorded' = recorded /\ contracts' = contracts /\ stage' = "aborted"
      BY <1>8 DEF E!SaveFails, E!DeployFails, E!written
    <2>3. AtSet'
      BY <2>2 DEF BooksInv, AtSet, E!Attaches
    <2>4. dryRun => sent' = << >>
      BY <1>8, <2>1 DEF E!SaveFails, E!DeployFails, E!Mined
    <2> QED
      BY <2>1, <2>2, <2>3, <2>4 DEF BooksInv, E!WhatIsSentIsRecorded
  <1>9. CASE E!ResolveFails \/ E!Look \/ E!LookFails \/ E!SelectNothing \/ E!CallUnknown
             \/ E!DeployUnknown
    <2>1. stage \in {"found", "calling"}
      BY <1>9 DEF E!ResolveFails, E!Look, E!LookFails, E!SelectNothing, E!CallUnknown,
                  E!DeployUnknown, E!Handling, E!Planning
    <2> QED
      BY <1>1, <1>9, <2>1 DEF E!ResolveFails, E!Look, E!LookFails, E!SelectNothing, E!CallUnknown,
                              E!DeployUnknown
  <1> QED
    BY <1>2, <1>3, <1>4, <1>5, <1>6, <1>7, <1>8, <1>9 DEF E!Next

--------------------------------------------------------------------------------
(* What handlers and views leave behind.                                   *)
LeftInv == (part = "act" => BooksInv) /\ (part = "read" => VotesInv)

LEMMA InitLeft == Init => LeftInv
PROOF
  <1>1. Init /\ part = "act" => E!Init
    BY DEF Init
  <1>2. Init /\ part = "read" => V!Init
    BY DEF Init
  <1> QED
    BY <1>1, <1>2, BooksStart, VotesStart DEF LeftInv

LEMMA NextKeepsLeft == LeftInv /\ [Next]_vars => LeftInv'
PROOF
  <1> SUFFICES ASSUME LeftInv, [Next]_vars PROVE LeftInv'
    OBVIOUS
  <1>1. CASE CommandStep \/ ValuesStep \/ BuilderStep \/ (InBuilder /\ B!ReadEvent)
    <2>1. part' \in {"command", "values", "builder"}
      BY <1>1 DEF CommandStep, ValuesStep, BuilderStep, InCommand, InValues, InBuilder
    <2> QED
      BY <2>1 DEF LeftInv
  <1>2. CASE ActStep
    <2>1. part = "act" /\ part' = "act"
      BY <1>2 DEF ActStep, InAct
    <2>2. E!Next
      BY <1>2 DEF ActStep, E!Next
    <2> QED
      BY <2>1, <2>2, BooksKeep DEF LeftInv
  <1>3. CASE ReadStep \/ (InRead /\ V!OthersVote)
    <2>1. part = "read" /\ part' = "read"
      BY <1>3 DEF ReadStep, InRead
    <2>2. V!Next
      BY <1>3 DEF ReadStep, V!Next, V!Read
    <2> QED
      BY <2>1, <2>2, VotesKeep DEF LeftInv
  <1>4. CASE UNCHANGED vars
    <2>1. CASE part = "act"
      BY <1>4, <2>1 DEF vars, shared, onContract, onlyAct, LeftInv, BooksInv, AtSet, E!Attaches, E!WhatIsSentIsRecorded
    <2>2. CASE part = "read"
      BY <1>4, <2>2 DEF vars, shared, onContract, onlyRead, LeftInv, VotesInv
    <2>3. CASE part \notin {"act", "read"}
      BY <1>4, <2>3 DEF vars, LeftInv
    <2> QED
      BY <2>1, <2>2, <2>3
  <1> QED
    BY <1>1, <1>2, <1>3, <1>4 DEF Next, Work, Outside

\* Of every contract, command and variant, whatever fails: an event that throws
\* leaves the world as it was, and at most one transaction on the chain that no
\* action tells of, of a deployment or a Become; one that does not throw has recorded
\* what it sent, and what it calls a success or makes known is on the chain; a dry
\* run sends nothing (Event/*.ts, Builder/*.ts, Contract.ts, Invokation.ts).
WhatIsSentIsRecorded == part = "act" => E!WhatIsSentIsRecorded /\ Len(sent) <= 1

THEOREM WhatIsSentIsRecordedTheorem == Spec => []WhatIsSentIsRecorded
PROOF
  <1>1. LeftInv => (part = "act" => E!WhatIsSentIsRecorded)
    BY DEF LeftInv, BooksInv
  <1>2. TypeInv => (part = "act" => Len(sent) <= 1)
    BY DEF TypeInv, ActInv, E!TypeOK
  <1> QED
    BY <1>1, <1>2, InitLeft, NextKeepsLeft, InitTypes, NextKeepsTypes, PTL DEF Spec, WhatIsSentIsRecorded

\* What a view says of the votes of an account is made of checkpoints that exist,
\* with the last one of some moment of the reading, however often others delegate
\* to the account meanwhile (Value/JoeValue.ts).
VotesAreOfOneMoment == part = "read" => V!VotesAreOfOneMoment

THEOREM VotesTheorem == Spec => []VotesAreOfOneMoment
PROOF
  <1>1. LeftInv => VotesAreOfOneMoment
    BY DEF LeftInv, VotesInv, VotesAreOfOneMoment, V!VotesAreOfOneMoment
  <1> QED
    BY <1>1, InitLeft, NextKeepsLeft, PTL DEF Spec

================================================================================
