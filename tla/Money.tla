------------------------------- MODULE Money -------------------------------
(***************************************************************************)
(* The two pieces of decimal arithmetic that sales and purchases share.    *)
(* Amounts are whole numbers of the smallest money unit.                   *)
(***************************************************************************)
EXTENDS Integers

\* Quotient a / b rounded half up (ROUND_HALF_UP rounds half away from zero;
\* every amount rounded in the code is non-negative).
HalfUp(a, b) == (2 * a + b) \div (2 * b)

\* Slip: the operands are not compared.
Second(a, b) == b
Least(a, b) == IF a <= b THEN a ELSE b
Positive(a) == IF a >= 0 THEN a ELSE 0

\* The part of a line's value that goes back with quantity q: the rest of the
\* value when q is all that remains of the line, a rounded share otherwise.
Share(value, quantity, q, priorValue, priorQuantity) ==
  IF priorQuantity + q = quantity
  THEN value - priorValue
  ELSE HalfUp(value * q, quantity)
=============================================================================
