------------------------------ MODULE CppMath ------------------------------
(***************************************************************************)
(* The arithmetic of CppMath.cpp and CppMath.h, but for the primes and     *)
(* factorials of MathCaches.  The double of IsInt is a number of units of  *)
(* 1/Unit.                                                                 *)
(*                                                                         *)
(* A name that ends in _Faulty is a plausible bug in the definition that   *)
(* follows it, on which the properties are tried.                          *)
(***************************************************************************)
EXTENDS MathCaches, Sequences, SequencesExt

CONSTANT Unit

-----------------------------------------------------------------------------
(* Numbers *)

\* The conversions of a double to an integer round towards 0.
Truncate(x) == IF x < 0 THEN -((-x) \div Unit) ELSE x \div Unit

Distance(x, value) == LET d == x - value * Unit IN IF d < 0 THEN -d ELSE d

\* An int32_t from a double; one that does not fit is undefined, and becomes the
\* least int32_t on the processors of the build.
ToInt32(x) ==
  LET half == Word \div 2
  IN  IF Truncate(x) \in -half .. (half - 1) THEN Truncate(x) ELSE -half

IsInt_Faulty(x, epsilon) ==
  [found |-> /\ 2 * epsilon <= Unit
             /\ ToInt32(x + epsilon) # Truncate(x - epsilon),
   value |-> Truncate(x)]

\* Whether x is an integer up to epsilon, and which.  An int32_t is compared with
\* an int64_t: from 2^31 on every number is an integer to it.
IsInt(x, epsilon) ==
  LET value == Truncate(x)
      sign == IF x > 0 THEN 1 ELSE IF x = 0 THEN 0 ELSE -1
  IN  [found |-> /\ 2 * epsilon <= Unit
                 /\ ToInt32(x + epsilon) # Truncate(x - epsilon),
       value |-> IF 2 * Distance(x, value) > Unit THEN value + sign ELSE value]

\* How often d divides n (n # 0), and n without those factors.
RECURSIVE Multiplicity(_, _)
Multiplicity(n, d) == IF n % d = 0 THEN 1 + Multiplicity(n \div d, d) ELSE 0
RECURSIVE Without(_, _)
Without(n, d) == IF n % d = 0 THEN Without(n \div d, d) ELSE n

Counted(factors, d, count) == IF count = 0 THEN factors ELSE factors @@ (d :> count)

GetPrimerFactorNum_Faulty(num) ==
  LET odd == Without(num, 2)
      divide(acc, i) == [num |-> Without(acc.num, i),
                         factors |-> Counted(acc.factors, i, Multiplicity(acc.num, i))]
      start == [num |-> odd, factors |-> Counted(<<>>, 2, Multiplicity(num, 2))]
      end == FoldLeft(divide, start,
                      SelectSeq([i \in 1 .. (SqrtOf(odd) - 1) |-> i], LAMBDA i : i >= 3 /\ i % 2 = 1))
  IN  IF end.num # 1 THEN Counted(end.factors, end.num, 1) ELSE end.factors

\* 2 first, then the odd numbers to the root of what is left, plus 1; what is
\* left then is a factor.  num = 0 never ends.
GetPrimerFactorNum(num) ==
  LET odd == Without(num, 2)
      divide(acc, i) == [num |-> Without(acc.num, i),
                         factors |-> Counted(acc.factors, i, Multiplicity(acc.num, i))]
      start == [num |-> odd, factors |-> Counted(<<>>, 2, Multiplicity(num, 2))]
      end == FoldLeft(divide, start,
                      SelectSeq([i \in 1 .. (SqrtOf(odd) + 1) |-> i], LAMBDA i : i >= 3 /\ i % 2 = 1))
  IN  IF end.num # 1 THEN Counted(end.factors, end.num, 1) ELSE end.factors

GetDiffPrimerFactorNum(num) == DOMAIN GetPrimerFactorNum(num)

RECURSIVE DigitsOf(_)
DigitsOf(num) == IF num = 0 THEN <<>> ELSE <<num % 10>> \o DigitsOf(num \div 10)

\* The digits of num when none comes twice.
GetDigitMap(num) ==
  LET digits == DigitsOf(num)
  IN  [distinct |-> IsInjective(digits), map |-> {digits[i] : i \in DOMAIN digits}]

IsNumsHaveSameDigit(nums) ==
  /\ Len(nums) >= 2
  /\ \A i \in DOMAIN nums :
       GetDigitMap(nums[i]).distinct /\ GetDigitMap(nums[i]).map = GetDigitMap(nums[1]).map

\* The product of the numbers from m to n, in a word.
Product(m, n) == FoldLeft(LAMBDA p, i : (p * i) % Word, 1, [i \in 1 .. (n - m + 1) |-> m + i - 1])

\* The result divided by i to d; a 0 stays 0.
RECURSIVE Divided(_, _, _)
Divided(result, i, d) ==
  IF i > d \/ result = 0 THEN result ELSE Divided(result \div i, i + 1, d)

Combination_Faulty(n, r) ==
  [end |-> "returns", value |-> Divided(Product(r, n), 2, n - r)]

\* r + 1 and n - r are words as well.  No i is larger than the largest word: with
\* that n the first loop never ends, and with r = n + 1 the second one divides by 0.
Combination(n, r) ==
  LET d == (n - r) % Word
  IN  CASE n = Word - 1 -> [end |-> "never"]
        [] n # Word - 1 /\ d = Word - 1 -> [end |-> "division by 0"]
        [] OTHER -> [end |-> "returns", value |-> Divided(Product((r + 1) % Word, n), 2, d)]

RECURSIVE GCD_Faulty(_, _)
GCD_Faulty(num1, num2) ==
  IF num1 = 0 \/ num2 = 0 THEN num1 + num2
  ELSE IF num1 = num2 THEN num1
  ELSE IF num1 > num2 THEN GCD_Faulty(num1 - num2, num2) ELSE GCD_Faulty(num1, num2 - 1)

RECURSIVE GCD(_, _)
GCD(num1, num2) ==
  IF num1 = 0 \/ num2 = 0 THEN 0
  ELSE IF num1 = num2 THEN num1
  ELSE IF num1 > num2 THEN GCD(num1 - num2, num2) ELSE GCD(num1, num2 - num1)

-----------------------------------------------------------------------------
(* Properties *)

\* The factors of a number are prime, and their product is the number.
FactorsMultiply(n) ==
  n >= 1 =>
    LET factors == GetPrimerFactorNum(n)
        power(f) == f ^ factors[f]
    IN  /\ \A f \in DOMAIN factors : Prime(f)
        /\ MapThenFoldSet(LAMBDA x, y : x * y, 1, power, LAMBDA S : CHOOSE x \in S : TRUE,
                          DOMAIN factors) = n

\* The number of subsets of r of n elements.
RECURSIVE Choose(_, _)
Choose(n, r) ==
  CASE r > n -> 0
    [] r = 0 -> 1
    [] OTHER -> Choose(n - 1, r) + Choose(n - 1, r - 1)

\* Combination is right where it returns, as long as the product of r + 1 to n fits
\* in a word.
CombinationFits(n, r) ==
  LET product == FoldLeft(LAMBDA p, i : p * i, 1, [i \in 1 .. (n - r) |-> r + i])
  IN  n # Word - 1 /\ r # n + 1 /\ product < Word =>
        Combination(n, r) = [end |-> "returns", value |-> Choose(n, r)]

\* IsInt finds every integer within epsilon but 0, and nothing else, as long as
\* x + epsilon fits in an int32_t.
IntsAreFound(x, epsilon) ==
  2 * epsilon < Unit /\ Truncate(x + epsilon) \in -(Word \div 2) .. (Word \div 2 - 1) =>
    /\ \A value \in (Truncate(x) - 1) .. (Truncate(x) + 1) :
         value # 0 /\ Distance(x, value) < epsilon => IsInt(x, epsilon) = [found |-> TRUE, value |-> value]
    /\ IsInt(x, epsilon).found => Distance(x, IsInt(x, epsilon).value) <= epsilon

=============================================================================
