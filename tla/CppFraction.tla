---------------------------- MODULE CppFraction ----------------------------
(***************************************************************************)
(* The fractions of CppFraction.h: a flag that is TRUE when the number is  *)
(* not negative, and the numerator and denominator without sign.  Every    *)
(* operation constructs its result, which reduces it by the GCD.  The      *)
(* forms += to /= are their operators assigned.  The products and sums     *)
(* are of the template's NumberType, an unsigned word: they wrap at        *)
(* NumberWord.                                                             *)
(***************************************************************************)
EXTENDS CppMath

CONSTANT NumberWord

\* The GCD of 0 is 0: such a fraction is not reduced.
Fraction(numerator, denominator, flag) ==
  LET gcd == GCD(numerator, denominator)
  IN  [flag |-> flag,
       numerator |-> IF gcd > 1 THEN numerator \div gcd ELSE numerator,
       denominator |-> IF gcd > 1 THEN denominator \div gcd ELSE denominator]

\* The constructor from an integer.
FromInt(n) == [flag |-> n >= 0, numerator |-> IF n < 0 THEN -n ELSE n, denominator |-> 1]

Negative(a) == Fraction(a.numerator, a.denominator, ~a.flag)

WordProduct(m, n) == (m * n) % NumberWord

Plus(a, b) ==
  LET left == WordProduct(a.numerator, b.denominator)
      right == WordProduct(b.numerator, a.denominator)
      denominator == WordProduct(a.denominator, b.denominator)
  IN  CASE a.flag = b.flag -> Fraction((left + right) % NumberWord, denominator, a.flag)
        [] a.flag # b.flag /\ left > right -> Fraction(left - right, denominator, a.flag)
        [] OTHER -> Fraction(right - left, denominator, b.flag)

Minus(a, b) == Plus(a, Negative(b))

TimesFraction(a, b) ==
  Fraction(WordProduct(a.numerator, b.numerator), WordProduct(a.denominator, b.denominator),
           a.flag = b.flag)

Over(a, b) ==
  Fraction(WordProduct(a.numerator, b.denominator), WordProduct(a.denominator, b.numerator),
           a.flag = b.flag)

-----------------------------------------------------------------------------
(* Properties *)

\* The numerator with its sign.
Signed(a) == IF a.flag THEN a.numerator ELSE -a.numerator

\* A result is p/q for q > 0, in lowest terms unless it is 0.
Is(a, p, q) ==
  /\ a.denominator > 0
  /\ Signed(a) * q = p * a.denominator
  /\ a.numerator # 0 =>
       \A d \in 2 .. a.denominator : a.numerator % d # 0 \/ a.denominator % d # 0

\* Sums, differences, products and quotients of fractions, negative ones and
\* ones not in lowest terms too, are exact and in lowest terms, as long as no
\* product or sum of the reduced numerators and denominators leaves the word.
FractionsAreExact(p, q, r, s) ==
  q > 0 /\ s > 0 =>
    LET abs(n) == IF n < 0 THEN -n ELSE n
        a == Fraction(abs(p), q, p >= 0)
        b == Fraction(abs(r), s, r >= 0)
        left == a.numerator * b.denominator
        right == b.numerator * a.denominator
        below == a.denominator * b.denominator < NumberWord
    IN  /\ left < NumberWord /\ right < NumberWord /\ below =>
             /\ left + right < NumberWord \/ a.flag # b.flag =>
                  Is(Plus(a, b), p * s + r * q, q * s)
             /\ left + right < NumberWord \/ a.flag = b.flag =>
                  Is(Minus(a, b), p * s - r * q, q * s)
        /\ a.numerator * b.numerator < NumberWord /\ below =>
             Is(TimesFraction(a, b), p * r, q * s)
        /\ left < NumberWord /\ right < NumberWord =>
             /\ r > 0 => Is(Over(a, b), p * s, q * r)
             /\ r < 0 => Is(Over(a, b), -(p * s), q * (-r))
        /\ q = 1 /\ left + right < NumberWord => Is(Plus(FromInt(p), b), p * s + r, s)

=============================================================================
