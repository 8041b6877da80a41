---------------------------- MODULE AlmostEquals ----------------------------
(***************************************************************************)
(* almost_equal of ltb-util: two floating-point numbers are compared by    *)
(* the distance of their bit patterns, read as unsigned integers.  A       *)
(* pattern is an integer below 2 * kSignBitMask, whatever its width; the   *)
(* patterns of one sign are ordered as the numbers are.                    *)
(***************************************************************************)
EXTENDS Integers, TLAPS

CONSTANTS
    kSignBitMask,       \* 2^31 for float, 2^63 for double
    kFractionSize       \* 2^23 for float, 2^52 for double: patterns of the fraction bits

kMaxUlps == 4

\* Patterns, and arithmetic on them, which wraps.
Bits    == 0 .. 2 * kSignBitMask - 1
Wrap(n) == IF n < 2 * kSignBitMask THEN n ELSE n - 2 * kSignBitMask
Not(b)  == 2 * kSignBitMask - 1 - b

\* The exponent mask is also the pattern of positive infinity.
kExponentBitMask == kSignBitMask - kFractionSize

sign_bit(b)  == b >= kSignBitMask
Magnitude(b) == IF sign_bit(b) THEN b - kSignBitMask ELSE b

\* The exponent bits are all ones in the last kFractionSize magnitudes, and the
\* fraction bits count from the first of them.
is_nan(b) == Magnitude(b) >= kExponentBitMask /\ Magnitude(b) - kExponentBitMask # 0

SignAndMagnitudeToBiased(sam) ==
    IF sign_bit(sam) THEN Wrap(Not(sam) + 1) ELSE kSignBitMask + sam

DistanceBetweenSignAndMagnitudeNumbers(sam1, sam2) ==
    LET biased1 == SignAndMagnitudeToBiased(sam1)
        biased2 == SignAndMagnitudeToBiased(sam2)
    IN  IF biased1 >= biased2 THEN biased1 - biased2 ELSE biased2 - biased1

AlmostEquals(a, b) ==
    /\ ~is_nan(a) /\ ~is_nan(b)
    /\ DistanceBetweenSignAndMagnitudeNumbers(a, b) <= kMaxUlps

----------------------------------------------------------------------------
\* The place of a number among all numbers, counted in units in the last place
\* from zero: what the distance is meant to measure.
Ulps(b) == IF sign_bit(b) THEN -Magnitude(b) ELSE Magnitude(b)

\* SignAndMagnitudeToBiased (lines 231-254) shifts a number's place by the sign
\* mask, so that unsigned subtraction orders negative numbers too, and stays
\* within the width.
LEMMA BiasedIsShifted ==
    ASSUME kSignBitMask \in Nat \ {0}, NEW b \in Bits
    PROVE  /\ SignAndMagnitudeToBiased(b) = kSignBitMask + Ulps(b)
           /\ SignAndMagnitudeToBiased(b) \in Bits
  BY DEF SignAndMagnitudeToBiased, Ulps, Magnitude, sign_bit, Wrap, Not, Bits

\* "Returns true iff this number is at most kMaxUlps ULP's away from rhs" (lines
\* 209-222): for any width, across zero and at both ends of the range.
THEOREM AlmostEqualsIsUlps ==
    ASSUME kSignBitMask \in Nat \ {0}, NEW a \in Bits, NEW b \in Bits
    PROVE  AlmostEquals(a, b) <=>
               /\ ~is_nan(a) /\ ~is_nan(b)
               /\ Ulps(a) - Ulps(b) \in -kMaxUlps .. kMaxUlps
<1>1. Ulps(a) \in Int /\ Ulps(b) \in Int
  BY DEF Ulps, Magnitude, sign_bit, Bits
<1>2. /\ SignAndMagnitudeToBiased(a) = kSignBitMask + Ulps(a)
      /\ SignAndMagnitudeToBiased(b) = kSignBitMask + Ulps(b)
  BY BiasedIsShifted
<1>3. DistanceBetweenSignAndMagnitudeNumbers(a, b) =
          IF Ulps(a) >= Ulps(b) THEN Ulps(a) - Ulps(b) ELSE Ulps(b) - Ulps(a)
  BY <1>1, <1>2 DEF DistanceBetweenSignAndMagnitudeNumbers
<1> QED
  BY <1>1, <1>3 DEF AlmostEquals, kMaxUlps

\* The comparison does not depend on the order of its arguments.
THEOREM AlmostEqualsIsSymmetric ==
    ASSUME kSignBitMask \in Nat \ {0}, NEW a \in Bits, NEW b \in Bits
    PROVE  AlmostEquals(a, b) <=> AlmostEquals(b, a)
<1>1. Ulps(a) \in Int /\ Ulps(b) \in Int
  BY DEF Ulps, Magnitude, sign_bit, Bits
<1> QED
  BY <1>1, AlmostEqualsIsUlps DEF kMaxUlps

\* The three special cases of the comment on lines 212-214: a NaN equals
\* nothing, itself included; the finite numbers closest to infinity equal it;
\* +0.0 and -0.0 are equal.
THEOREM SpecialNumbers ==
    ASSUME kSignBitMask \in Nat, kFractionSize \in Nat, kMaxUlps < kFractionSize,
           2 * kFractionSize <= kSignBitMask
    PROVE  /\ \A a, b \in Bits : is_nan(a) => ~AlmostEquals(a, b) /\ ~AlmostEquals(b, a)
           /\ \A n \in 0..kMaxUlps : AlmostEquals(kExponentBitMask - n, kExponentBitMask)
           /\ AlmostEquals(0, kSignBitMask)
<1>1. \A a, b \in Bits : is_nan(a) => ~AlmostEquals(a, b) /\ ~AlmostEquals(b, a)
  BY DEF AlmostEquals
<1>2. ASSUME NEW n \in 0..kMaxUlps
      PROVE  AlmostEquals(kExponentBitMask - n, kExponentBitMask)
  BY <1>2 DEF AlmostEquals, is_nan, DistanceBetweenSignAndMagnitudeNumbers,
         SignAndMagnitudeToBiased, Magnitude, sign_bit, kExponentBitMask, kMaxUlps
<1>3. AlmostEquals(0, kSignBitMask)
  BY DEF AlmostEquals, is_nan, DistanceBetweenSignAndMagnitudeNumbers, Wrap, Not,
         SignAndMagnitudeToBiased, Magnitude, sign_bit, kExponentBitMask, kMaxUlps
<1> QED
  BY <1>1, <1>2, <1>3
=============================================================================
