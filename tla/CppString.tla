----------------------------- MODULE CppString -----------------------------
(***************************************************************************)
(* The string functions of CppString.cpp whose results depend on where one *)
(* string lies in another.  A string is a sequence of characters; an index *)
(* counts the characters before it, as in std::string, and Npos is npos.   *)
(* times = -1 means any number of times.                                   *)
(*                                                                         *)
(* A name that ends in _Faulty is a plausible bug in the definition that   *)
(* follows it, on which the properties are tried.                          *)
(***************************************************************************)
EXTENDS Integers, Sequences, FiniteSets, SequencesExt, FiniteSetsExt

Npos == -1

OccursAt(str, sub, index) ==
  /\ index + Len(sub) <= Len(str)
  /\ \A j \in DOMAIN sub : str[index + j] = sub[j]

Occurrences(str, sub) == {i \in 0 .. Len(str) : OccursAt(str, sub, i)}

\* The occurrence that find(sub, pos) gives; rfind gives the last.
Find(str, sub, pos) ==
  LET at == {i \in Occurrences(str, sub) : i >= pos}
  IN  IF at = {} THEN Npos ELSE Min(at)

\* The characters before an index, and those from it on.
Before(str, index) == SubSeq(str, 1, index)
From(str, index) == SubSeq(str, index + 1, Len(str))

-----------------------------------------------------------------------------

\* Where the search goes on is unsigned: an index below 0 is past the end.
RECURSIVE ReplaceFrom(_, _, _, _)
ReplaceFrom(str, old, new, pos) ==
  LET at == IF pos < 0 THEN Npos ELSE Find(str, old, pos)
  IN  IF at = Npos THEN str
      ELSE ReplaceFrom(Before(str, at) \o new \o From(str, at + Len(old)), old, new,
                       at + Len(new) - Len(old) + 1)

ReplaceStr(str, old, new) == ReplaceFrom(str, old, new, 0)

\* The entities of HtmlDecode (CppCurl.cpp) are replaced one after the other.
HtmlDecode(data, decodeMap) ==
  FoldLeft(LAMBDA result, pair : ReplaceStr(result, pair.entity, pair.char), data, decodeMap)

\* The first separator: where it is, and which of them if several are there.
Cut(str, seps) ==
  LET found == {k \in DOMAIN seps : seps[k] # <<>> /\ Find(str, seps[k], 0) # Npos}
      index(k) == Find(str, seps[k], 0)
      first == CHOOSE k \in found : \A j \in found :
                 index(k) < index(j) \/ (index(k) = index(j) /\ k <= j)
  IN  IF found = {} THEN [index |-> Npos, len |-> 0]
                    ELSE [index |-> index(first), len |-> Len(seps[first])]

RECURSIVE SplitRest_Faulty(_, _, _, _, _)
SplitRest_Faulty(str, seps, removeEmptyElm, maxCount, currCount) ==
  LET cut == Cut(str, seps)
      kept == cut.index # 0 \/ ~removeEmptyElm
      count == IF kept THEN currCount + 1 ELSE currCount
  IN  IF cut.index = Npos \/ (kept /\ maxCount > 0 /\ count > maxCount)
      THEN IF str = <<>> /\ removeEmptyElm THEN <<>> ELSE <<str>>
      ELSE (IF kept THEN <<Before(str, cut.index)>> ELSE <<>>)
             \o SplitRest_Faulty(From(str, cut.index + cut.len), seps, removeEmptyElm,
                                 maxCount, count)

\* maxCount = 0 means any number of pieces.
RECURSIVE SplitRest(_, _, _, _, _)
SplitRest(str, seps, removeEmptyElm, maxCount, currCount) ==
  LET cut == Cut(str, seps)
      kept == cut.index # 0 \/ ~removeEmptyElm
      count == IF kept THEN currCount + 1 ELSE currCount
  IN  IF cut.index = Npos \/ (kept /\ maxCount > 0 /\ count >= maxCount)
      THEN IF str = <<>> /\ removeEmptyElm THEN <<>> ELSE <<str>>
      ELSE (IF kept THEN <<Before(str, cut.index)>> ELSE <<>>)
             \o SplitRest(From(str, cut.index + cut.len), seps, removeEmptyElm,
                          maxCount, count)

SplitStr(str, seps, removeEmptyElm, maxCount) ==
  SplitRest(str, seps, removeEmptyElm, maxCount, 0)

GetList(strs, sep) ==
  IF strs = <<>> THEN <<>>
  ELSE FoldLeft(LAMBDA result, s : result \o sep \o s, Head(strs), Tail(strs))

RECURSIVE RemoveAngle_Faulty(_, _, _)
RemoveAngle_Faulty(str, left, right) ==
  LET start == Find(str, <<left>>, 0)
      end == Find(str, <<right>>, 0)
  IN  IF start < 0 \/ end < 0 \/ start >= end THEN str
      ELSE RemoveAngle_Faulty(Before(str, start) \o From(str, end + 1), left, right)

RECURSIVE RemoveAngle(_, _, _)
RemoveAngle(str, left, right) ==
  LET start == Find(str, <<left>>, 0)
      end == Find(str, <<right>>, start + 1)
  IN  IF start < 0 \/ end < 0 \/ start >= end THEN str
      ELSE RemoveAngle(Before(str, start) \o From(str, end + 1), left, right)

\* The first of trims that str begins with is taken off.
RECURSIVE TrimLeft(_, _, _)
TrimLeft(str, trims, times) ==
  LET fits == {k \in DOMAIN trims : trims[k] # <<>> /\ OccursAt(str, trims[k], 0)}
  IN  IF times = 0 \/ fits = {} THEN str
      ELSE TrimLeft(From(str, Len(trims[Min(fits)])), trims, IF times = -1 THEN -1 ELSE times - 1)

\* The last occurrence must end the string.
EndsWith_Faulty(str, sub) ==
  sub # <<>> /\ Occurrences(str, sub) # {}
    /\ Min(Occurrences(str, sub)) + Len(sub) = Len(str)

EndsWith(str, sub) ==
  sub # <<>> /\ Occurrences(str, sub) # {}
    /\ Max(Occurrences(str, sub)) + Len(sub) = Len(str)

RECURSIVE TrimRight(_, _, _)
TrimRight(str, trims, times) ==
  LET fits == {k \in DOMAIN trims : EndsWith(str, trims[k])}
  IN  IF times = 0 \/ fits = {} THEN str
      ELSE TrimRight(Before(str, Len(str) - Len(trims[Min(fits)])), trims,
                     IF times = -1 THEN -1 ELSE times - 1)

Trim(str, trims, times) == TrimRight(TrimLeft(str, trims, times), trims, times)

\* The overloads without trims take off single white characters: at most times.
TrimSpaceLeft(str, white, times) ==
  LET front == {i \in DOMAIN str : \A j \in 1 .. i : str[j] \in white}
      n == Cardinality(front)
  IN  From(str, IF times = -1 \/ n < times THEN n ELSE times)

TrimSpace(str, white, times) ==
  Reverse(TrimSpaceLeft(Reverse(TrimSpaceLeft(str, white, times)), white, times))

\* Each occurrence found is erased up to behind its first character.
RECURSIVE SubstrCount(_, _)
SubstrCount(str, sub) ==
  LET at == Find(str, sub, 0)
  IN  IF sub = <<>> \/ str = <<>> \/ at = Npos THEN 0
      ELSE 1 + SubstrCount(From(str, at + 1), sub)

NextColumn_Faulty(col, str1, char) ==
  LET next[r \in 0 .. Len(str1)] ==
        IF r = 0 THEN col[0] + 1
        ELSE 1 + Min({next[r - 1] - (IF str1[r] = char THEN 1 ELSE 0), next[r - 1], col[r]})
  IN  next

\* One column of the matrix from the one before it.  Every value stored is one
\* more than the distance.
NextColumn(col, str1, char) ==
  LET next[r \in 0 .. Len(str1)] ==
        IF r = 0 THEN col[0] + 1
        ELSE 1 + Min({col[r - 1] - (IF str1[r] = char THEN 1 ELSE 0), next[r - 1], col[r]})
  IN  next

EditDistance(str1, str2) ==
  LET column(col, char) == NextColumn(col, str1, char)
      first == [r \in 0 .. Len(str1) |-> r + 1]
  IN  CASE str1 = <<>> -> Len(str2)
        [] str1 # <<>> /\ str2 = <<>> -> Len(str1)
        [] OTHER -> FoldLeft(column, first, str2)[Len(str1)] - 1

-----------------------------------------------------------------------------
(* Properties of strings s and t and a number k *)

\* s with every t replaced, from left to right.
RECURSIVE Replaced(_, _, _)
Replaced(s, t, new) ==
  CASE s = <<>> -> <<>>
    [] s # <<>> /\ OccursAt(s, t, 0) -> new \o Replaced(From(s, Len(t)), t, new)
    [] OTHER -> <<Head(s)>> \o Replaced(Tail(s), t, new)

\* ReplaceStr replaces every occurrence (CppString.h:69) of a single character,
\* whatever the new string, and a longer string that occurs once.  Where a longer one
\* occurs several times the code may miss one, and nothing is claimed.
ReplacesAll(s, t, new) ==
  /\ Len(t) = 1 => ReplaceStr(s, t, new) = Replaced(s, t, new)
  /\ Cardinality(Occurrences(s, t)) = 1 /\ Occurrences(Replaced(s, t, new), t) = {}
       => ReplaceStr(s, t, new) = Replaced(s, t, new)

\* SplitStr loses nothing: joined again the pieces are the string, there are at
\* most k of them, and none but the last of a full set still holds a separator.
\* Without the empty pieces the others stay in order.
SplitJoins(s, t, k) ==
  t # <<>> =>
    /\ LET pieces == SplitStr(s, <<t>>, FALSE, k)
       IN  /\ GetList(pieces, t) = s
           /\ k > 0 => Len(pieces) <= k
           /\ \A i \in DOMAIN pieces :
                i # k => Occurrences(pieces[i], t) = {}
    /\ SplitStr(s, <<t>>, TRUE, 0) = SelectSeq(SplitStr(s, <<t>>, FALSE, 0),
                                               LAMBDA piece : piece # <<>>)

\* RemoveAngle leaves no pair of brackets, also when a right one comes first.
AnglesRemoved(s, left, right) ==
  LET rest == RemoveAngle(s, left, right)
  IN  ~\E i, j \in DOMAIN rest : i < j /\ rest[i] = left /\ rest[j] = right

RECURSIVE Copies(_, _)
Copies(t, n) == IF n = 0 THEN <<>> ELSE t \o Copies(t, n - 1)

\* Trim takes whole copies of t off both ends, at most k of each unless k = -1,
\* and stops short of k only when no copy is left.
TrimTakesCopies(s, t, k) ==
  t # <<>> =>
    LET r == Trim(s, <<t>>, k)
        enough(n) == n = k
    IN  \E i, j \in 0 .. Len(s) :
          /\ s = Copies(t, i) \o r \o Copies(t, j)
          /\ k # -1 => i <= k /\ j <= k
          /\ enough(i) \/ ~OccursAt(r, t, 0)
          /\ enough(j) \/ ~EndsWith(r, t)
          /\ Len(t) = 1 => TrimSpace(s, {t[1]}, k) = r

\* SubstrCount counts the places, overlapping ones too.
CountsOccurrences(s, t) ==
  t # <<>> => SubstrCount(s, t) = Cardinality(Occurrences(s, t))

\* The fewest insertions, removals and replacements from s to t.
RECURSIVE Distance(_, _)
Distance(s, t) ==
  IF s = <<>> \/ t = <<>> THEN Len(s) + Len(t)
  ELSE Min({Distance(Tail(s), Tail(t)) + (IF Head(s) = Head(t) THEN 0 ELSE 1),
            Distance(Tail(s), t) + 1, Distance(s, Tail(t)) + 1})

\* EditDistance keeps one column of the matrix, overwrites it in place and is
\* the edit distance all the same.
IsEditDistance(s, t) == EditDistance(s, t) = Distance(s, t)

=============================================================================
