------------------------------ MODULE Exponential ------------------------------
(***************************************************************************)
(* The fixed-point arithmetic of Exponential.sol, in which an Exp is a     *)
(* natural number (its mantissa) that stands for mantissa / expScale.      *)
(* Every truncation of the Solidity library is a \div here, so the models  *)
(* round where, and in the direction in which, the contracts round.        *)
(*                                                                         *)
(* The checked subtraction sub_ and the division by zero of the library    *)
(* revert the transaction.  They are not operators: a caller of sub_(a, b) *)
(* has the guard b <= a, a caller of div_ has the guard that its divisor   *)
(* is positive, and a call whose guard is false is not a step.             *)
(***************************************************************************)
EXTENDS Integers

CONSTANT expScale    \* 1e18 in the contracts; small when model checking

ASSUME ExpScaleAssumption == expScale \in Nat \ {0}

mantissaOne == expScale

(* truncate(Exp): the whole part of a fixed-point number. *)
Truncate(exp) == exp \div expScale

(* mul_ScalarTruncate(Exp a, scalar) *)
MulScalarTruncate(a, scalar) == Truncate(a * scalar)

(* mul_ScalarTruncateAddUInt(Exp a, scalar, addend) *)
MulScalarTruncateAddUInt(a, scalar, addend) == Truncate(a * scalar) + addend

(* mul_(uint256 a, Exp b) *)
MulUIntExp(a, b) == (a * b) \div expScale

(* mul_(Exp a, Exp b) *)
MulExp(a, b) == (a * b) \div expScale

(* div_(uint256 a, Exp b); callers guard b # 0. *)
DivUIntByExp(a, b) == (a * expScale) \div b

(* div_ScalarByExpTruncate(scalar, Exp divisor): the numerator is scaled   *)
(* twice, so that the quotient is an Exp, and truncated at the end.        *)
DivScalarByExpTruncate(scalar, divisor) ==
    Truncate(((expScale * scalar) * expScale) \div divisor)

================================================================================
