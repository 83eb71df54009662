----------------------------- MODULE CppBigNum -----------------------------
(***************************************************************************)
(* The arbitrary precision integers of CppBigNum.cpp.  A CppBigNum holds a *)
(* sign and the decimal digits, the highest first; a CppBigNumPro (the     *)
(* operators that begin with Pro) a sign and words, the lowest first, with *)
(* no words for 0.                                                         *)
(*                                                                         *)
(* Words are digits to the base Base instead of 2^32, and CppBigNum        *)
(* multiplies numbers below Small in one machine operation.  The forms     *)
(* +=, -=, *=, /=, %=, ++, and the comparisons made of < and ==, are their *)
(* operators assigned.                                                     *)
(*                                                                         *)
(* A name that ends in _Faulty is a plausible bug in the definition that   *)
(* follows it, on which the properties are tried.                          *)
(***************************************************************************)
EXTENDS Integers, Sequences, SequencesExt

CONSTANTS Base, Small

\* The characters of a string are its digits and these.
Plus == 10
Minus == 11
Other == 12

Abs(n) == IF n < 0 THEN -n ELSE n

\* The words of n to a base, the lowest first.
RECURSIVE Words(_, _)
Words(n, base) == IF n = 0 THEN <<>> ELSE <<n % base>> \o Words(n \div base, base)

\* The number that words stand for.
Number(words, base) == FoldRight(LAMBDA w, n : n * base + w, words, 0)

-----------------------------------------------------------------------------
(* Columns of digits, the lowest first *)

At(x, i) == IF i \in DOMAIN x THEN x[i] ELSE 0

Longest(x, y) == IF Len(x) < Len(y) THEN Len(y) ELSE Len(x)

\* The sum: every column with the carry of the one before it.
AddColumns(x, y, base) ==
  LET n == Longest(x, y)
      carry[i \in 0 .. n] ==
        IF i = 0 THEN 0 ELSE (At(x, i) + At(y, i) + carry[i - 1]) \div base
  IN  [i \in 1 .. n |-> (At(x, i) + At(y, i) + carry[i - 1]) % base]
        \o (IF carry[n] = 0 THEN <<>> ELSE <<carry[n]>>)

SubColumns_Faulty(x, y, base) ==
  LET borrow(i) == IF i > 0 /\ At(x, i) < At(y, i) THEN 1 ELSE 0
  IN  [i \in 1 .. Longest(x, y) |-> (At(x, i) - At(y, i) - borrow(i - 1)) % base]

\* The difference with a smaller number, as long as the larger one.
SubColumns(x, y, base) ==
  LET borrow[i \in 0 .. Longest(x, y)] ==
        IF i > 0 /\ At(x, i) - borrow[i - 1] < At(y, i) THEN 1 ELSE 0
  IN  [i \in 1 .. Longest(x, y) |-> (At(x, i) - At(y, i) - borrow[i - 1]) % base]

MulColumns_Faulty(x, d, base) ==
  LET carry[i \in 0 .. Len(x)] ==
        IF i = 0 THEN 0 ELSE (x[i] * d + carry[i - 1]) \div base
  IN  [i \in DOMAIN x |-> (x[i] * d + carry[i - 1]) % base]

\* The product with one digit.
MulColumns(x, d, base) ==
  LET carry[i \in 0 .. Len(x)] ==
        IF i = 0 THEN 0 ELSE (x[i] * d + carry[i - 1]) \div base
  IN  [i \in DOMAIN x |-> (x[i] * d + carry[i - 1]) % base]
        \o (IF carry[Len(x)] = 0 THEN <<>> ELSE <<carry[Len(x)]>>)

\* The longer number is larger; of two as long, the one larger at the highest
\* column where they differ.
ColumnsLess(x, y) ==
  \/ Len(x) < Len(y)
  \/ /\ Len(x) = Len(y)
     /\ \E i \in DOMAIN x : x[i] < y[i] /\ \A j \in (i + 1) .. Len(x) : x[j] = y[j]

-----------------------------------------------------------------------------
(* CppBigNum *)

Zero == [flag |-> TRUE, numStr |-> <<0>>]

\* The constructors from integers.
BigNum(n) == [flag |-> n >= 0,
              numStr |-> IF n = 0 THEN <<0>> ELSE Reverse(Words(Abs(n), 10))]

\* The constructor from a string: signs and zeros in front are passed over, and
\* every '-' among them turns the sign; anything else in the string makes it 0.
GetNumFromStr(str) ==
  LET front == {i \in DOMAIN str : \A j \in 1 .. i : str[j] \in {Plus, Minus, 0}}
      start == Cardinality(front)
  IN  IF start = Len(str) \/ \E i \in (start + 1) .. Len(str) : str[i] \notin 0 .. 9
      THEN Zero
      ELSE [flag |-> Cardinality({i \in front : str[i] = Minus}) % 2 = 0,
            numStr |-> SubSeq(str, start + 1, Len(str))]

Signed(flag, digits) == GetNumFromStr((IF flag THEN <<>> ELSE <<Minus>>) \o digits)

Negative(a) == Signed(~a.flag, a.numStr)

AbsOf(a) == GetNumFromStr(a.numStr)

Less(a, b) ==
  CASE a.flag # b.flag -> ~a.flag
    [] a.flag /\ b.flag -> ColumnsLess(Reverse(a.numStr), Reverse(b.numStr))
    [] OTHER -> ColumnsLess(Reverse(b.numStr), Reverse(a.numStr))

Equal(a, b) == (a.numStr = <<0>> /\ b.numStr = <<0>>) \/ (~Less(a, b) /\ ~Less(b, a))

LessEqual(a, b) == Less(a, b) \/ Equal(a, b)

Add(a, b) ==
  LET x == Reverse(a.numStr)
      y == Reverse(b.numStr)
  IN  CASE a.flag = b.flag -> Signed(a.flag, Reverse(AddColumns(x, y, 10)))
        [] a.flag # b.flag /\ ColumnsLess(x, y) ->
             Signed(b.flag, Reverse(SubColumns(y, x, 10)))
        [] a.flag # b.flag /\ x = y -> Zero
        [] OTHER -> Signed(a.flag, Reverse(SubColumns(x, y, 10)))

Sub(a, b) == Add(a, Negative(b))

WithSign(flag, a) == [a EXCEPT !.flag = flag \/ a.numStr = <<0>>]

\* Below Small in one multiplication; otherwise digit by digit of b, each
\* product with the zeros of its place behind it.
Mul(a, b) ==
  LET small == BigNum(Small)
      place(i) == GetNumFromStr(Reverse(MulColumns(Reverse(a.numStr), Reverse(b.numStr)[i], 10))
                                  \o [j \in 1 .. (i - 1) |-> 0])
      sum[i \in 0 .. Len(b.numStr)] ==
        IF i = 0 THEN Zero ELSE Add(sum[i - 1], place(i))
      value(c) == Number(Reverse(c.numStr), 10)
  IN  WithSign(a.flag = b.flag,
        IF Less(AbsOf(a), small) /\ Less(AbsOf(b), small)
        THEN BigNum(value(a) * value(b))
        ELSE sum[Len(b.numStr)])

\* One digit of a long division: the digit is brought down, and the divisor is
\* added up until the sum is larger than what there is.
DivDigit(acc, d, divisor) ==
  LET curr == IF Less(acc.curr, divisor)
              THEN Add(Mul(acc.curr, BigNum(10)), BigNum(d)) ELSE acc.curr
      multi[i \in 0 .. 9] == IF i = 0 THEN divisor ELSE Add(multi[i - 1], divisor)
      over == {i \in 0 .. 9 : Less(curr, multi[i])}
      q == CASE Less(curr, divisor) -> 0
             [] ~Less(curr, divisor) /\ over = {} -> 10
             [] OTHER -> CHOOSE i \in over : \A j \in over : i <= j
  IN  [curr |-> IF Less(curr, divisor) \/ over = {} THEN curr
                ELSE Sub(curr, Sub(multi[q], divisor)),
       result |-> Add(Mul(acc.result, BigNum(10)), BigNum(q))]

Div(a, b) ==
  LET digit(acc, d) == DivDigit(acc, d, [b EXCEPT !.flag = TRUE])
  IN  IF Equal(b, Zero) THEN Zero
      ELSE WithSign(a.flag = b.flag,
             FoldLeft(digit, [curr |-> Zero, result |-> Zero], a.numStr).result)

Mod(a, b) == Sub(a, Mul(Div(a, b), b))

ReverseOf(a) == Signed(a.flag, Reverse(a.numStr))

\* The results for 0 to 4; from 5 on, Newton's method from 1.
SmallResult == <<0, 1, 1, 1, 2>>

RECURSIVE Newton_Faulty(_, _)
Newton_Faulty(a, k) ==
  LET k2 == Mul(k, k)
      twice == Add(k, k)
  IN  IF LessEqual(k2, a) /\ LessEqual(Sub(a, k2), Add(twice, BigNum(1))) THEN k
      ELSE IF Less(a, k2) /\ LessEqual(Sub(k2, a), twice) THEN Sub(k, BigNum(1))
      ELSE Newton_Faulty(a, Div(Add(k, Div(a, k)), BigNum(2)))

\* A k with k^2 <= a is taken even when a = (k + 1)^2.
RECURSIVE Newton(_, _)
Newton(a, k) ==
  LET k2 == Mul(k, k)
      twice == Add(k, k)
  IN  IF LessEqual(k2, a) /\ LessEqual(Sub(a, k2), Add(twice, BigNum(1))) THEN k
      ELSE IF Less(a, k2) /\ LessEqual(Sub(k2, a), Sub(twice, BigNum(1)))
           THEN Sub(k, BigNum(1))
      ELSE Newton(a, Div(Add(k, Div(a, k)), BigNum(2)))

Sqrt(a) ==
  CASE LessEqual(a, Zero) -> Zero
    [] Less(Zero, a) /\ Less(a, BigNum(5)) ->
         BigNum(SmallResult[Number(Reverse(a.numStr), 10) + 1])
    [] OTHER -> Newton(a, BigNum(1))

-----------------------------------------------------------------------------
(* CppBigNumPro *)

Pro(flag, words) == [flag |-> flag \/ words = <<>>, numVec |-> words]

\* The constructors from integers.
ProNum(n) == Pro(n >= 0, Words(Abs(n), Base))

\* The constructor from a string: the words are the remainders.
RECURSIVE ProWords(_)
ProWords(a) ==
  IF LessEqual(a, Zero) THEN <<>>
  ELSE <<Number(Reverse(Mod(a, BigNum(Base)).numStr), 10)>> \o ProWords(Div(a, BigNum(Base)))

ProGetNumFromStr(str) ==
  LET a == GetNumFromStr(str) IN [flag |-> a.flag, numVec |-> ProWords(AbsOf(a))]

\* The sign is given to a zero before the words are added to it.
ProValue(a) ==
  LET add(acc, w) == [sum |-> Add(acc.sum, Mul(acc.place, BigNum(w))),
                      place |-> Mul(acc.place, BigNum(Base))]
  IN  FoldLeft(add, [sum |-> [Zero EXCEPT !.flag = a.flag], place |-> BigNum(1)],
               a.numVec).sum

ProNegative(a) == Pro(~a.flag, a.numVec)

ProLess(a, b) ==
  CASE a.flag # b.flag -> ~a.flag
    [] a.flag /\ b.flag -> ColumnsLess(a.numVec, b.numVec)
    [] OTHER -> ColumnsLess(b.numVec, a.numVec)

ProEqual(a, b) ==
  \/ a.numVec = <<>> /\ b.numVec = <<>>
  \/ a.flag = b.flag /\ a.numVec = b.numVec

ProLessEqual(a, b) == ProLess(a, b) \/ ProEqual(a, b)

\* A difference keeps the words that became 0 at the high end.
ProAdd(a, b) ==
  CASE a.flag = b.flag -> Pro(a.flag, AddColumns(a.numVec, b.numVec, Base))
    [] a.flag # b.flag /\ ColumnsLess(a.numVec, b.numVec) ->
         Pro(b.flag, SubColumns(b.numVec, a.numVec, Base))
    [] a.flag # b.flag /\ ColumnsLess(b.numVec, a.numVec) ->
         Pro(a.flag, SubColumns(a.numVec, b.numVec, Base))
    [] OTHER -> ProNum(0)

ProSub(a, b) == ProAdd(a, ProNegative(b))

ProMul(a, b) ==
  LET place(i) == Pro(TRUE, [j \in 1 .. (i - 1) |-> 0] \o MulColumns(a.numVec, b.numVec[i], Base))
      sum[i \in 0 .. Len(b.numVec)] ==
        IF i = 0 THEN ProNum(0) ELSE ProAdd(sum[i - 1], place(i))
  IN  IF a.numVec = <<>> \/ b.numVec = <<>> THEN ProNum(0)
      ELSE IF ProEqual(b, ProNum(1)) THEN a
      ELSE IF ProEqual(b, ProNum(-1)) THEN ProNegative(a)
      ELSE IF Len(a.numVec) = 1 /\ Len(b.numVec) = 1
           THEN Pro(a.flag = b.flag, Words(a.numVec[1] * b.numVec[1], Base))
      ELSE Pro(a.flag = b.flag, sum[Len(b.numVec)].numVec)

\* The search for a word of the quotient; the middle is computed in a word.
RECURSIVE Search(_, _, _, _)
Search(curr, divisor, begin, end) ==
  LET middle == ((begin + end) % Base) \div 2
      test == ProMul(divisor, ProNum(middle))
  IN  IF middle = begin \/ ProEqual(test, curr) THEN middle
      ELSE IF ProLess(curr, test) THEN Search(curr, divisor, begin, middle)
      ELSE Search(curr, divisor, middle, end)

\* The words are brought down from the lowest.
ProDivWord(acc, w, divisor) ==
  LET shifted(a) == IF a.numVec = <<>> THEN a ELSE [a EXCEPT !.numVec = <<0>> \o @]
      curr == IF ProLess(acc.curr, divisor) THEN ProAdd(shifted(acc.curr), ProNum(w))
              ELSE acc.curr
      q == IF ProLess(curr, divisor) THEN 0 ELSE Search(curr, divisor, 0, Base - 1)
  IN  [curr |-> ProSub(curr, ProMul(divisor, ProNum(q))),
       result |-> ProAdd(shifted(acc.result), ProNum(q))]

ProDiv(a, b) ==
  LET word(acc, w) == ProDivWord(acc, w, [b EXCEPT !.flag = TRUE])
  IN  IF ProEqual(b, ProNum(0)) \/ ColumnsLess(a.numVec, b.numVec) THEN ProNum(0)
      ELSE IF ProEqual(b, ProNum(1)) THEN a
      ELSE IF ProEqual(b, ProNum(-1)) THEN ProNegative(a)
      ELSE Pro(a.flag = b.flag,
               FoldLeft(word, [curr |-> ProNum(0), result |-> ProNum(0)], a.numVec).result.numVec)

ProMod(a, b) == ProSub(a, ProMul(ProDiv(a, b), b))

RECURSIVE ProNewton(_, _)
ProNewton(a, k) ==
  LET k2 == ProMul(k, k)
      twice == ProAdd(k, k)
  IN  IF ProLessEqual(k2, a) /\ ProLessEqual(ProSub(a, k2), ProAdd(twice, ProNum(1))) THEN k
      ELSE IF ProLess(a, k2) /\ ProLessEqual(ProSub(k2, a), ProSub(twice, ProNum(1)))
           THEN ProSub(k, ProNum(1))
      ELSE ProNewton(a, ProDiv(ProAdd(k, ProDiv(a, k)), ProNum(2)))

ProSqrt(a) ==
  CASE ProLessEqual(a, ProNum(0)) -> ProNum(0)
    [] ProLess(ProNum(0), a) /\ ProLess(a, ProNum(5)) ->
         ProNum(SmallResult[Number(a.numVec, Base) + 1])
    [] OTHER -> ProNewton(a, ProNum(1))

-----------------------------------------------------------------------------
(* Properties of two integers m and n *)

Quotient(m, n) ==
  IF n = 0 THEN 0
  ELSE LET q == Abs(m) \div Abs(n) IN IF (m < 0) = (n < 0) THEN q ELSE -q

\* The largest r with r * r <= n.
Root(n) == CHOOSE r \in 0 .. n : r * r <= n /\ (r + 1) * (r + 1) > n

\* CppBigNum is the integers, with the division of C++ (and x / 0 = 0): every
\* result is exact and in the one form without zeros in front and without -0.
IsInteger(m, n) ==
  LET a == BigNum(m)
      b == BigNum(n)
  IN  /\ Add(a, b) = BigNum(m + n)
      /\ Sub(a, b) = BigNum(m - n)
      /\ Mul(a, b) = BigNum(m * n)
      /\ Div(a, b) = BigNum(Quotient(m, n))
      /\ Mod(a, b) = BigNum(m - Quotient(m, n) * n)
      /\ Less(a, b) = (m < n)
      /\ Equal(a, b) = (m = n)

\* Sqrt rounds down (CppBigNum.h:245), for a = (k + 1)^2 too: after its first
\* step Newton's method comes from above.
RootIsFloor(n) == n >= 0 => Sqrt(BigNum(n)) = BigNum(Root(n))

\* CppBigNumPro adds and multiplies exactly and without words 0 at the high end
\* (CppBigNum.h:490).  Of a difference that is claimed only when it is 0 or as long
\* as the longer number: a shorter one keeps such words.  The quotient and the root
\* are exact for numbers of one word, but for the highest words, where the sums in
\* the search leave the word.
ProIsInteger(m, n) ==
  LET a == ProNum(m)
      b == ProNum(n)
      oneWord == Len(a.numVec) <= 1 /\ Len(b.numVec) <= 1
      asLong == Len(ProNum(m + n).numVec) = Longest(a.numVec, b.numVec)
  IN  /\ ProGetNumFromStr((IF m < 0 THEN <<Minus>> ELSE <<>>) \o BigNum(m).numStr) = a
      /\ m >= 0 => ProValue(a) = BigNum(m)
      /\ a.flag = b.flag \/ m + n = 0 \/ asLong => ProAdd(a, b) = ProNum(m + n)
      /\ ProMul(a, b) = ProNum(m * n)
      /\ ProLess(a, b) = (m < n)
      /\ ProEqual(a, b) = (m = n)
      /\ oneWord /\ ~(Abs(m) = Base - 1 /\ Abs(n) = 2) =>
           /\ ProDiv(a, b) = ProNum(Quotient(m, n))
           /\ ProMod(a, b) = ProNum(m - Quotient(m, n) * n)
      /\ n \in 0 .. (Base - 3) => ProSqrt(b) = ProNum(Root(n))

=============================================================================
