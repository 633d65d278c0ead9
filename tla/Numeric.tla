------------------------------- MODULE Numeric -------------------------------
(***************************************************************************)
(* src/common/numeric.hpp: the checked integer operations and the exit     *)
(* status that the interpreter, the type checker and the code generator    *)
(* share.  int64_t is the range -Half .. Half - 1 (Half is 2^63 there) and *)
(* the low 32 bits of an exit status are the range of ExitHalf (2^31).     *)
(* C++ divides towards zero.                                               *)
(***************************************************************************)
EXTENDS Integers

CONSTANTS Half, ExitHalf

ASSUME NumericAssumption == Half \in Nat \ {0} /\ ExitHalf \in Nat \ {0}

INT64_MAX == Half - 1
INT64_MIN == -Half

Int64 == INT64_MIN..INT64_MAX

(* a / b of C++, for b # 0: the quotient is truncated towards zero.        *)
Quotient(a, b) ==
  IF b > 0 THEN IF a >= 0 THEN a \div b ELSE -((-a) \div b)
           ELSE IF a >= 0 THEN -(a \div (-b)) ELSE (-a) \div (-b)

(* A slip the runs must catch: the bound is one too high.                  *)
AddFitsOffByOne(a, b) == ~(b > 0 /\ a > INT64_MAX - b + 1) /\ ~(b < 0 /\ a < INT64_MIN - b)

(* numeric::add, sub and mul return false instead of overflowing; every    *)
(* intermediate they compute must itself fit in int64_t.                   *)
AddFits(a, b) == ~(b > 0 /\ a > INT64_MAX - b) /\ ~(b < 0 /\ a < INT64_MIN - b)

SubFits(a, b) == ~(b < 0 /\ a > INT64_MAX + b) /\ ~(b > 0 /\ a < INT64_MIN + b)

MulFits(a, b) ==
  ~(IF a > 0
    THEN IF b > 0 THEN a > Quotient(INT64_MAX, b) ELSE b < Quotient(INT64_MIN, a)
    ELSE a < 0 /\ (IF b > 0 THEN a < Quotient(INT64_MIN, b)
                            ELSE b < 0 /\ a < Quotient(INT64_MAX, b)))

(* The one quotient that does not fit (interpreter.cpp promoteNumeric).    *)
DivFits(a, b) == ~(a = INT64_MIN /\ b = -1)

(* numeric::exitCode: the signed value of the low 32 bits.                 *)
ExitCode(value) ==
  LET low == value % (2 * ExitHalf)
  IN  IF low <= ExitHalf - 1 THEN low ELSE low - 2 * ExitHalf

(* numeric::isMinMagnitude: the literal whose negation is INT64_MIN.       *)
IsMinMagnitude(magnitude) == magnitude = Half
=============================================================================
