---------------------------- MODULE FixedWrapper ----------------------------
(***************************************************************************)
(* Fixed-point arithmetic of common/src/fixed_wrapper.rs.                  *)
(*                                                                         *)
(* A Balance is an unsigned integer below Modulus (u128 in the code).  A   *)
(* Fixed is a signed integer of the same width whose value is read as a    *)
(* multiple of 1/Unit (10^18 in the code).  A FixedWrapper is a Fixed or   *)
(* an error; an error absorbs every operation it takes part in, and the    *)
(* caller sees it only when it converts the result back to a Balance.      *)
(* Multiplication, division and square root round toward minus infinity.   *)
(***************************************************************************)
EXTENDS Integers

CONSTANTS
    Unit,      \* the fixed-point representation of one: 10^FIXED_PRECISION
    Modulus,   \* number of Balance values: 2^128
    Err        \* Err(ArithmeticError), whatever its kind

ASSUME UnitAssumption == Unit \in Nat \ {0}
ASSUME ModulusAssumption == Modulus \in Nat /\ Modulus > 2 * Unit
ASSUME ErrAssumption == Err \notin Int

Balance == 0 .. (Modulus - 1)

\* The signed integers with n values.
Signed(n) == (-(n \div 2)) .. ((n \div 2) - 1)

\* i128::MAX, the largest Fixed; a Balance above it has no Fixed.
FixedMax == (Modulus \div 2) - 1
Fixed == Signed(Modulus)

\* The result of a checked operation: an error when it leaves the type.
Checked(v) == IF v \in Signed(Modulus) THEN v ELSE Err

\* FixedWrapper::from(balance): the value is reused bit for bit.
FromBalance(b) == Checked(b)

\* try_into_balance: negative values and errors do not convert.
ToBalance(f) == IF f = Err \/ f < 0 THEN Err ELSE f

FxAdd(f, g) == IF f = Err \/ g = Err THEN Err ELSE Checked(f + g)

FxSub(f, g) == IF f = Err \/ g = Err THEN Err ELSE Checked(f - g)

\* lhs.rmul(rhs, Floor)
FxMul(f, g) == IF f = Err \/ g = Err THEN Err ELSE Checked((f * g) \div Unit)

\* Quotient rounded toward minus infinity, for a divisor of either sign.
FloorDiv(a, b) == IF b > 0 THEN a \div b ELSE (-a) \div (-b)

\* lhs.rdiv(rhs, Floor): division by zero is an error.
FxDiv(f, g) ==
    IF f = Err \/ g = Err \/ g = 0 THEN Err
    ELSE Checked(FloorDiv(f * Unit, g))

\* The integer square root of a natural number.
IntSqrt(n) == CHOOSE r \in 0 .. n : r * r <= n /\ n < (r + 1) * (r + 1)

\* sqrt_accurate: num.rsqrt(Floor), an error for a negative number.
FxSqrt(f) == IF f = Err \/ f < 0 THEN Err ELSE IntSqrt(f * Unit)

\* multiply_and_sqrt: sqrt(a) * sqrt(b), never sqrt(a * b).
MultiplyAndSqrt(f, g) == FxMul(FxSqrt(f), FxSqrt(g))

\* A bare u128 subtraction, in a build without overflow checks.
WrapSub(a, b) == (a - b) % Modulus
=============================================================================
