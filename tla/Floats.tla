------------------------------- MODULE Floats -------------------------------
(***************************************************************************)
(* The numbers the daemon computes with.  A finite float64 is an integer   *)
(* in a unit that the module using it names, and a result is rounded to    *)
(* that unit; NaN stands for every float64 that is not finite.             *)
(***************************************************************************)
EXTENDS Integers, FiniteSets

CONSTANT NaN

ASSUME FloatAssumption == NaN \notin Int

Larger(a, b)  == IF a >= b THEN a ELSE b
Smaller(a, b) == IF a <= b THEN a ELSE b
Abs(a)        == IF a >= 0 THEN a ELSE -a
IsFinite(x)   == x # NaN

(* a / b to the nearest unit, for b > 0.                                    *)
Round(a, b) == (2 * a + b) \div (2 * b)

(* The integral part of the square root of a, for roots up to most.         *)
Sqrt(a, most) == Cardinality({r \in 1 .. most : r * r <= a})
=============================================================================
