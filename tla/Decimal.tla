------------------------------- MODULE Decimal -------------------------------
(***************************************************************************)
(* The fixed-point numbers of the SDK (lib-base/src/Decimal.ts): natural   *)
(* numbers in units of 1/DIGITS.  A subtraction below zero throws in the   *)
(* code; the operators here are used where it cannot, or the caller says   *)
(* what it does instead.                                                   *)
(***************************************************************************)
EXTENDS Integers

CONSTANTS
    DIGITS,     \* 1.0: 10^18 in the code
    INFINITY    \* what a division by zero gives: 2^256 - 1 in the code

ASSUME DecimalAssumption == DIGITS \in Nat \ {0} /\ INFINITY \in Nat

ONE == DIGITS

mul(x, y) == (x * y) \div DIGITS

div(x, y) == IF y = 0 THEN INFINITY ELSE (x * DIGITS) \div y

divCeil(x, y) == IF y = 0 THEN INFINITY ELSE (x * DIGITS + (y - 1)) \div y

mulDiv(x, y, z) == IF z = 0 THEN INFINITY ELSE (x * y) \div z

roundedMul(x, y) == (x * y + DIGITS \div 2) \div DIGITS

(* Square and multiply; the loop's x and y, and what is left of exponent. *)
pow(base, exponent) ==
    LET loop[x \in Nat, y \in Nat, n \in Nat] ==
            IF n <= 1 THEN roundedMul(x, y)
            ELSE loop[roundedMul(x, x), IF n % 2 = 1 THEN roundedMul(x, y) ELSE y, n \div 2]
    IN  IF exponent = 0 THEN ONE ELSE IF exponent = 1 THEN base ELSE loop[base, DIGITS, exponent]

(* Decimal.min; `min` and `max` are names of other modules. *)
lesser(a, b) == IF a < b THEN a ELSE b

(* x.gt(y) ? x.sub(y) : ZERO *)
monus(x, y) == IF x > y THEN x - y ELSE 0
=============================================================================
