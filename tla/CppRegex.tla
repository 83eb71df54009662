------------------------------ MODULE CppRegex ------------------------------
(***************************************************************************)
(* The search of CppRegex (CppRegex.cpp): Matches calls pcre_exec from     *)
(* where the last match ended.  A pattern is the set of the words that it  *)
(* matches, of which pcre_exec takes the longest at the leftmost place     *)
(* where one begins; groups tells whether it has capturing groups.         *)
(*                                                                         *)
(* A name that ends in _Faulty is a plausible bug in the definition that   *)
(* follows it, on which the properties are tried.                          *)
(***************************************************************************)
EXTENDS Integers, Sequences, FiniteSetsExt

\* The place of a match: str.substr(first, last - first).
Spans(pattern, str) ==
  {span \in [first : 0 .. Len(str), last : 0 .. Len(str)] :
     /\ span.first <= span.last
     /\ SubSeq(str, span.first + 1, span.last) \in pattern}

\* pcre_exec: the place of the match from startoffset on; and rc, which is 0 when
\* ovector has no room for the groups.
Exec(spans, startoffset) ==
  LET first == Min({span.first : span \in {s \in spans : s.first >= startoffset}})
  IN  [first |-> first,
       last |-> Max({span.last : span \in {s \in spans : s.first = first}})]

rc(spans, groups, startoffset) ==
  CASE \A span \in spans : span.first < startoffset -> -1
    [] (\E span \in spans : span.first >= startoffset) /\ groups -> 0
    [] OTHER -> 1

\* The next search starts behind the first letter of the match.
NextStart_Faulty(span) == span.first + 1

NextStart(span) == span.last

\* The matches' places: at most maxCount of them.
Places(pattern, groups, str, maxCount) ==
  LET spans == Spans(pattern, str)
      search[n \in 0 .. maxCount] ==
        IF n = 0 THEN [start |-> 0, places |-> <<>>]
        ELSE LET before == search[n - 1]
             IN  IF Len(before.places) < n - 1 \/ rc(spans, groups, before.start) <= 0
                 THEN before
                 ELSE LET span == Exec(spans, before.start)
                      IN  [start |-> NextStart(span), places |-> Append(before.places, span)]
  IN  search[maxCount].places

Matches(pattern, groups, str, maxCount) ==
  LET places == Places(pattern, groups, str, maxCount)
  IN  [i \in DOMAIN places |-> SubSeq(str, places[i].first + 1, places[i].last)]

Match(pattern, groups, str) ==
  LET result == Matches(pattern, groups, str, 1)
  IN  IF result # <<>> THEN result[1] ELSE <<>>

-----------------------------------------------------------------------------
(* Properties *)

\* The matches of a pattern without groups that does not match the empty word do not
\* overlap, and what is left out between them and behind the last, unless it is the
\* maxCount-th, has no match.
MatchesAreLeftmost(pattern, str, maxCount) ==
  <<>> \notin pattern =>
    LET spans == Spans(pattern, str)
        places == Places(pattern, FALSE, str, maxCount)
        count == Len(places)
        ends == [i \in 0 .. count |-> IF i = 0 THEN 0 ELSE places[i].last]
    IN  /\ count <= maxCount
        /\ \A i \in 1 .. count :
             /\ ends[i - 1] <= places[i].first
             /\ \A span \in spans :
                  span.first \notin ends[i - 1] .. places[i].first - 1
        /\ count < maxCount => \A span \in spans : span.first < ends[count]
        /\ maxCount > 0 /\ count > 0 =>
             Match(pattern, FALSE, str) = Matches(pattern, FALSE, str, maxCount)[1]
=============================================================================
