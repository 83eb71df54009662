----------------------------- MODULE MCLibrary -----------------------------
(***************************************************************************)
(* The parts of the library that call nothing of one another, side by side *)
(* in one instance for TLC: a behaviour is of one part, and leaves the     *)
(* variables of the others as they were.  The queue is extended, since its *)
(* assumptions have to be evaluated.                                       *)
(*                                                                         *)
(* Of the functions without a state, a behaviour is one input.             *)
(***************************************************************************)
EXTENDS CppLRU, LibraryParts

CONSTANTS
  v1, v2, v3, v4, v5,
  Unit, NumberWord,                                       \* CppMath, CppFraction
  Base, Small,                                            \* CppBigNum
  Chunk, End, Bad,                                        \* BufferLoops
  NULL, EmptyString, INVALID_VALUE                              \* CppTables

VARIABLES part, input

Math == INSTANCE CppFraction
BigNum == INSTANCE CppBigNum
Str == INSTANCE CppString
Regex == INSTANCE CppRegex
Buffer == INSTANCE BufferLoops
Table == INSTANCE CppTables

libraryVars == <<part, input, vars, clientVars, logVars, curlVars, cacheVars, readVars,
                 fdVars>>

Letters == {1, 2}
ChildData == {Null, <<>>, <<1>>, <<1, 2, 1>>}
Strings(n) == UNION {[1 .. l -> Letters] : l \in 0 .. n}

\* Among them the borders of two and three digits and of one and two words.
Numbers ==
  LET large == {16, 50, 99, 100, 255, 256, 300}
  IN  (-11 .. 11) \cup large \cup {-n : n \in large}

\* Results of at most two rows with n columns.
Results(n) == UNION {[1 .. rows -> [1 .. n -> {1, NULL}]] : rows \in 0 .. 2}

\* The inputs of the functions: two numbers; a numerator and a denominator, twice;
\* two strings and a number of times; the words of a pattern, the string to search in
\* and the most matches to find; a stream, another and where it is damaged; the columns
\* of a result, or the names of an enumeration, the rows, a value and a name.
Inputs ==
  [bignum |-> Numbers \X Numbers,
   math |-> (-3 .. 12) \X (0 .. 30) \X (-3 .. 3) \X (0 .. 4),
   string |-> Strings(5) \X Strings(3) \X (-1 .. 2),
   regex |-> {words \in SUBSET Strings(2) : Cardinality(words) <= 2}
               \X Strings(5) \X {0, 1, 2, 6},
   buffer |-> {<<s, o, n>> \in Strings(5) \X Strings(1) \X (0 .. 5) : n <= Len(s)},
   table |-> UNION {[1 .. n -> Letters] \X Results(n) \X (0 .. 4) \X {1, 3} : n \in 0 .. 3}]

Stateful == {"queue", "client", "log", "curl", "caches", "reads", "fd"}

LibraryInit ==
  /\ Init /\ Client!Init /\ Log!Init /\ Curl!Init /\ Caches!Init /\ Reads!Init /\ FdInit
  /\ \/ part \in Stateful /\ input = <<>>
     \/ part \in DOMAIN Inputs /\ input \in Inputs[part]
  /\ part # "client" => mClientThreadCount = 1
  /\ part # "log" => mMaxFileCount = 1 /\ mMaxFileSize = 0 /\ processes = 1
  /\ part # "reads" => abs_path = "/" /\ tree = [child \in Children |-> Absent]

LibraryNext ==
  /\ \/ /\ part = "queue" /\ Next
        /\ UNCHANGED <<clientVars, logVars, curlVars, cacheVars, readVars, fdVars>>
     \/ /\ part = "client" /\ Client!Next
        /\ UNCHANGED <<vars, logVars, curlVars, cacheVars, readVars, fdVars>>
     \/ /\ part = "log" /\ Log!Next
        /\ UNCHANGED <<vars, clientVars, curlVars, cacheVars, readVars, fdVars>>
     \/ /\ part = "curl" /\ Curl!Next
        /\ UNCHANGED <<vars, clientVars, logVars, cacheVars, readVars, fdVars>>
     \/ /\ part = "caches" /\ Caches!Next
        /\ UNCHANGED <<vars, clientVars, logVars, curlVars, readVars, fdVars>>
     \/ /\ part = "reads" /\ Reads!Next
        /\ UNCHANGED <<vars, clientVars, logVars, curlVars, cacheVars, fdVars>>
     \/ /\ part = "fd" /\ FdNext
        /\ UNCHANGED <<vars, clientVars, logVars, curlVars, cacheVars, readVars>>
  /\ UNCHANGED <<part, input>>

LibrarySpec == LibraryInit /\ [][LibraryNext]_libraryVars

-----------------------------------------------------------------------------
(* The properties of the parts.                                            *)

\* The functions of CppString.cpp agree with definitions that do not search the way
\* they do, also when occurrences overlap and when what is removed leaves another
\* behind; and the search of CppRegex takes the leftmost matches, from the end of one
\* to the next (CppRegex.cpp:54).  GetCString of CppZookeeper ends its string, and a
\* path stays absolute.  Each says for which inputs.
TextsAgree ==
  /\ part = "string" =>
       /\ Str!ReplacesAll(input[1], input[2], <<2>>)
       /\ Str!ReplacesAll(input[1], input[2], <<1, 1>>)
       /\ Str!SplitJoins(input[1], input[2], input[3])
       /\ Str!AnglesRemoved(input[1], 1, 2)
       /\ Str!TrimTakesCopies(input[1], input[2], input[3])
       /\ Str!CountsOccurrences(input[1], input[2])
       /\ Str!IsEditDistance(input[1], input[2])
       /\ Reads!CStringFits(input[2], input[1])
       /\ Reads!AbsPathStays(input[1], input[2], 1)
  /\ part = "regex" => Regex!MatchesAreLeftmost(input[1], input[2], input[3])

\* The loops over a buffer take over all of a stream, also where it fills the last
\* buffer (CppCompress.cpp:58, CppFile.cpp:90), and refuse a bad one; the tables of
\* CppMysql and CppEnumType give back what was put in.
StreamsAgree ==
  /\ part = "buffer" =>
       /\ Buffer!RoundTrips(input[1])
       /\ Buffer!DamageShows(input[1], input[3])
       /\ Buffer!ReadsWhole(input[1], input[2])
  /\ part = "table" =>
       /\ Table!MapIsResult(input[1], input[2])
       /\ Table!NamesAreValues(input[1], input[3], input[4])

\* The functions of CppMath and the fractions agree with their definitions, as long as
\* what they compute fits in the word; CppBigNum is the integers, its Sqrt rounds down,
\* and so is CppBigNumPro but for differences that become shorter and for quotients and
\* roots of several words (CppBigNum.cpp).
NumbersAreRight ==
  /\ part = "math" =>
       /\ Math!PrimesAreRight(input[1], input[2])
       /\ Math!FactorsMultiply(input[2])
       /\ \A r \in {input[4], Word - 1 - input[4]} : Math!CombinationFits(input[2] % 10, r)
       /\ \A x \in {0, Unit * (Word \div 2 - 1)} : Math!IntsAreFound(x + 3 * input[1], input[4])
       /\ Math!FractionsAreExact(input[1], input[2], input[3], input[4])
  /\ part = "bignum" =>
       /\ BigNum!IsInteger(input[1], input[2])
       /\ BigNum!RootIsFloor(input[1])
       /\ BigNum!ProIsInteger(input[1], input[2])
=============================================================================
