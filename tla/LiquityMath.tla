----------------------------- MODULE LiquityMath -----------------------------
(***************************************************************************)
(* The fixed-point arithmetic the contracts share                          *)
(* (Dependencies/LiquityMath.sol).  1.0 is DECIMAL_PRECISION.              *)
(***************************************************************************)
EXTENDS Integers

CONSTANT DECIMAL_PRECISION      \* 1.0 as a fixed-point number: 1e18 in the code

ASSUME LiquityMathAssumption == DECIMAL_PRECISION \in Nat \ {0}

min(a, b) == IF a < b THEN a ELSE b

(* The product of two fixed-point numbers, rounded half up. *)
decMul(x, y) == (x * y + DECIMAL_PRECISION \div 2) \div DECIMAL_PRECISION

(* base ^ minutes by squaring: x is squared, y collects the odd factors. *)
decPow(base, minutes) ==
    LET pow[x \in Nat, y \in Nat, n \in Nat] ==
            IF n <= 1 THEN decMul(x, y)
            ELSE pow[decMul(x, x), IF n % 2 = 0 THEN y ELSE decMul(x, y), n \div 2]
    IN  IF minutes = 0 THEN DECIMAL_PRECISION
        ELSE pow[base, DECIMAL_PRECISION, minutes]
=============================================================================
