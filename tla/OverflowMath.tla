---------------------------- MODULE OverflowMath ----------------------------
(***************************************************************************)
(* The guarded machine arithmetic of math/overflow.go.  The width of the   *)
(* machine words is a parameter: an unsigned word holds 0 .. MaxUint and a *)
(* signed one MinInt .. MaxInt.  The raw Go operators wrap around; each    *)
(* guarded operator detects that from the wrapped result alone and         *)
(* replaces it by a saturated value.                                       *)
(***************************************************************************)
EXTENDS Integers

CONSTANT MaxUint      \* the largest unsigned word (2^64 - 1 in the code)

ASSUME MaxUintAssumption == MaxUint \in Nat /\ MaxUint % 2 = 1

Modulus == MaxUint + 1
MaxInt == MaxUint \div 2
MinInt == -(Modulus \div 2)

Uint == 0 .. MaxUint
SInt == MinInt .. MaxInt

\* Go's wrapping arithmetic.
WrapU(x) == x % Modulus
WrapS(x) == ((x - MinInt) % Modulus) + MinInt

AddUint64(a, b) ==
    LET s == WrapU(a + b) IN IF s >= a /\ s >= b THEN s ELSE MaxUint

SubUint64(a, b) == IF a < b THEN 0 ELSE a - b

MulUint64(a, b) ==
    LET res == WrapU(a * b)
    IN  IF a = 0 \/ b = 0 \/ a = res \div b THEN res ELSE MaxUint

\* AddInt64 and AddInt32 differ in width only.
AddInt(a, b) ==
    LET res == WrapS(a + b) IN IF (res > a) <=> (b > 0) THEN res ELSE MaxInt

\* Mutant: the difference is compared as the sum is.
SubIntAsAddInt(a, b) ==
    LET res == WrapS(a - b) IN IF (res > a) <=> (b > 0) THEN res ELSE MinInt

SubInt(a, b) ==
    LET res == WrapS(a - b) IN IF (res < a) <=> (b > 0) THEN res ELSE MinInt

-----------------------------------------------------------------------------
(* What the guards promise for a pair of words *)

\* AddUint64, SubUint64 and MulUint64 return the exact result when it is an
\* unsigned word, and otherwise the bound that it passed: the tests on the wrapped
\* result miss no overflow and report none that did not happen.
UnsignedSaturates(a, b) ==
    /\ AddUint64(a, b) = IF a + b \in Uint THEN a + b ELSE MaxUint
    /\ SubUint64(a, b) = IF a - b \in Uint THEN a - b ELSE 0
    /\ MulUint64(a, b) = IF a * b \in Uint THEN a * b ELSE MaxUint

\* AddInt64, AddInt32 and SubInt return the exact result when it is a signed
\* word, and otherwise MaxInt for a sum and MinInt for a difference, on whichever
\* side it left the range.
SignedSaturates(a, b) ==
    /\ AddInt(a, b) = IF a + b \in SInt THEN a + b ELSE MaxInt
    /\ SubInt(a, b) = IF a - b \in SInt THEN a - b ELSE MinInt

\* AddUint64, SubUint64, MulUint64, AddInt and SubInt saturate exactly when the
\* result does not fit, for every pair of words (math/overflow.go).
SaturationExact ==
    /\ \A a, b \in Uint : UnsignedSaturates(a, b)
    /\ \A a, b \in SInt : SignedSaturates(a, b)
=============================================================================
