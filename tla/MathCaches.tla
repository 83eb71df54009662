----------------------------- MODULE MathCaches -----------------------------
(***************************************************************************)
(* Primes and factorials of CppMath.cpp and CppMath.h: IsPrime, the sieve  *)
(* of CppMathPrimeWithInit, and the two functions that keep what they have *)
(* computed, FactorialWithCache and CppMathPrimeWithCache::IsPrime.  These *)
(* two are the actions of this module, called one after the other.         *)
(*                                                                         *)
(* A uint32_t is a number below Word; a bitset is made of blocks of Bits   *)
(* bits.                                                                   *)
(*                                                                         *)
(* A name that ends in _Faulty is a plausible bug in the definition that   *)
(* follows it, on which the properties are tried.                          *)
(***************************************************************************)
EXTENDS Integers, FiniteSets, FiniteSetsExt, Functions

CONSTANTS
  Word, Bits,
  MaxArgument,   \* the largest argument of the functions with a cache
  CacheSizes     \* the values of cacheSize

VARIABLES
  factorialCache,
  PrimeSet,
  returned       \* the last call and what it returned

mathVars == <<factorialCache, PrimeSet, returned>>

-----------------------------------------------------------------------------
(* Primes and factorials *)

\* The square root of a double below 2^52, rounded down.
SqrtOf(n) == CHOOSE r \in 0 .. n : r * r <= n /\ (r + 1) * (r + 1) > n

IsPrime_Faulty(num) ==
  /\ num >= 2
  /\ \/ num = 2
     \/ /\ num % 2 # 0
        /\ \A i \in 3 .. (SqrtOf(num) - 1) : i % 2 # 0 => num % i # 0

IsPrime(num) ==
  /\ num >= 2
  /\ \/ num = 2
     \/ /\ num % 2 # 0
        /\ \A i \in 3 .. SqrtOf(num) : i % 2 # 0 => num % i # 0

\* CppMathPrimeWithInit<n>: the bitset has the bits 0 .. n - 1, and bit n too
\* unless it is the first of a block that is not there; kept says whether what
\* is written there is read again.
Sieve(n, kept) ==
  LET struck == {j \in 4 .. n : \E i \in 2 .. SqrtOf(n) :
                   j >= i * i /\ j % i = 0 /\ \A p \in 2 .. (i - 1) : i % p # 0}
      lost == IF n % Bits = 0 /\ ~kept THEN {n} ELSE {}
  IN  (2 .. n) \ (struck \ lost)

IsPrimeWithInit(n, kept, num) == IF num <= n THEN num \in Sieve(n, kept) ELSE IsPrime(num)

\* result, from 1 on multiplied by each number up to n, in a word.
Factorial(n) ==
  LET result[i \in 1 .. n] == IF i = 1 THEN 1 ELSE (result[i - 1] * i) % Word
  IN  IF n <= 1 THEN 1 ELSE result[n]

-----------------------------------------------------------------------------
(* The functions with a cache *)

\* The entries with the highest arguments are erased.
Trimmed(cache, size) ==
  Restrict(cache, {k \in DOMAIN cache :
                     Cardinality({j \in DOMAIN cache : j <= k}) <= size})

\* Where the multiplication starts: after the largest argument below n, but only
\* if there is one above n too (lower_bound is not end).
LastBefore(cache, n) ==
  LET lower == {k \in DOMAIN cache : k < n}
      upper == {k \in DOMAIN cache : k >= n}
  IN  IF lower = {} \/ upper = {} THEN [i |-> 2, result |-> 1]
      ELSE [i |-> Max(lower) + 1, result |-> cache[Max(lower)]]

Cached(cache, i, result, cacheSize) ==
  IF Cardinality(DOMAIN cache) < cacheSize
    THEN [k \in DOMAIN cache \union {i} |-> IF k = i THEN result ELSE cache[k]]
    ELSE cache

\* What is cached is the product before the multiplication.
Multiply_Faulty(acc, i, cacheSize) ==
  [result |-> (acc.result * i) % Word, cache |-> Cached(acc.cache, i, acc.result, cacheSize)]

\* One round of the loop.
Multiply(acc, i, cacheSize) ==
  LET result == (acc.result * i) % Word
  IN  [result |-> result, cache |-> Cached(acc.cache, i, result, cacheSize)]

\* The loop up to n.
Multiplied(cache, n, cacheSize) ==
  LET from == LastBefore(cache, n)
      acc[i \in (from.i - 1) .. n] ==
        IF i = from.i - 1 THEN [result |-> from.result, cache |-> cache]
                          ELSE Multiply(acc[i - 1], i, cacheSize)
  IN  acc[n]

FactorialWithCache(n, cacheSize) ==
  LET known == n <= 1 \/ n \in DOMAIN factorialCache
      end == Multiplied(factorialCache, n, cacheSize)
  IN  /\ factorialCache' = IF known THEN factorialCache ELSE Trimmed(end.cache, cacheSize)
      /\ returned' = [call |-> "Factorial", num |-> n,
                      value |-> CASE n <= 1 -> 1
                                  [] n > 1 /\ known -> factorialCache[n]
                                  [] OTHER -> end.result]
      /\ UNCHANGED PrimeSet

\* The cache is unordered: it may be left, at a prime above num, before or after
\* a divisor of num is met.
IsPrimeWithCache(num) ==
  LET odd == num > 2 /\ num % 2 # 0
      divided == \E p \in PrimeSet : num % p = 0
      left == {p \in PrimeSet : p > num} # {}
  IN  \E prime \in BOOLEAN :
        /\ CASE ~odd -> prime = (num = 2)
             [] odd /\ num \in PrimeSet -> prime
             [] odd /\ num \notin PrimeSet /\ divided -> ~prime \/ (left /\ prime = IsPrime(num))
             [] OTHER -> prime = IsPrime(num)
        /\ PrimeSet' = IF odd /\ prime THEN PrimeSet \union {num} ELSE PrimeSet
        /\ returned' = [call |-> "IsPrime", num |-> num, value |-> prime]
        /\ UNCHANGED factorialCache

Init ==
  /\ factorialCache = <<>>
  /\ PrimeSet = {}
  /\ returned = [call |-> "none"]

Next ==
  \E n \in 0 .. MaxArgument :
    \/ \E cacheSize \in CacheSizes : FactorialWithCache(n, cacheSize)
    \/ IsPrimeWithCache(n)

Spec == Init /\ [][Next]_mathVars

-----------------------------------------------------------------------------
(* Properties *)

\* Primes by their definition.
Prime(n) == n >= 2 /\ \A d \in 2 .. (n - 1) : n % d # 0

\* Whatever was called before, with whatever sizes of the cache, every cached
\* factorial is that factorial and so is the result; every cached number is
\* prime, and IsPrime answers as the definition does.
CachesAreRight ==
  /\ \A n \in DOMAIN factorialCache : factorialCache[n] = Factorial(n)
  /\ \A p \in PrimeSet : Prime(p)
  /\ returned.call = "Factorial" => returned.value = Factorial(returned.num)
  /\ returned.call = "IsPrime" => returned.value = Prime(returned.num)

\* IsPrime, and the sieve unless n is a multiple of the bits of a block, are
\* right for every number up to beyond n.
PrimesAreRight(m, n) ==
  /\ IsPrime(m) = Prime(m)
  /\ n >= 2 /\ n % Bits # 0 => IsPrimeWithInit(n, FALSE, m) = Prime(m)
=============================================================================
