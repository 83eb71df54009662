------------------------------- MODULE CppLRU -------------------------------
(***************************************************************************)
(* The bounded queue of CppLRU.h.  Each operation is one step: either      *)
(* mNeedLock makes it a critical section of mDataMutex, or the queue is    *)
(* used by one thread.                                                     *)
(*                                                                         *)
(* A name that ends in _Faulty is a plausible bug in the definition that   *)
(* follows it, on which the properties are tried.                          *)
(***************************************************************************)
EXTENDS Naturals, Sequences, FiniteSets

CONSTANTS
  Values,     \* the elements
  mMaxCap,
  PopArgs,    \* what *p_Value may hold when Pop is given a non-null p_Value
  NullArg,    \* Pop(nullptr)
  MaxList     \* bound: no Push when mList is this long

ASSUME CapacityAssumption == mMaxCap \in Nat
ASSUME ValuesAssumption == PopArgs \subseteq Values /\ NullArg \notin Values
ASSUME MaxListAssumption == MaxList \in Nat /\ MaxList > mMaxCap

VARIABLES
  mSet,
  mList,
  undefined   \* history: front() or pop_front() was called on an empty list

vars == <<mSet, mList, undefined>>

Elements(list) == {list[i] : i \in DOMAIN list}

Without(list, i) == SubSeq(list, 1, i - 1) \o SubSeq(list, i + 1, Len(list))

First(list, t) ==
  CHOOSE i \in DOMAIN list : list[i] = t /\ \A j \in 1 .. i - 1 : list[j] # t

TypeOK ==
  /\ mSet \in SUBSET Values
  /\ mList \in Seq(Values)
  /\ undefined \in BOOLEAN

Init ==
  /\ mSet = {}
  /\ mList = <<>>
  /\ undefined = FALSE

\* The eviction loop of Push stops after n pops.
StopsAfter(set, list, n) ==
  Cardinality(set \ {list[i] : i \in 1 .. n}) <= mMaxCap

\* while (mSet.size() > mMaxCap): erase the front from the set, pop it.
Evict(set, list) ==
  LET Stops == {n \in 0 .. Len(list) : StopsAfter(set, list, n)}
  IN  IF Stops = {}
        THEN mSet' = {} /\ mList' = <<>> /\ undefined' = TRUE
        ELSE LET n == CHOOSE m \in Stops : \A k \in Stops : m <= k
             IN  /\ mSet' = set \ {list[i] : i \in 1 .. n}
                 /\ mList' = SubSeq(list, n + 1, Len(list))
                 /\ UNCHANGED undefined

\* An element already in the set keeps its place.
Push(t) ==
  /\ Len(mList) < MaxList
  /\ IF t \in mSet THEN UNCHANGED <<mSet, mList, undefined>>
                   ELSE Evict(mSet \cup {t}, Append(mList, t))

\* The node is popped, the set is left alone.
Pop_Faulty(arg) ==
  /\ mList # <<>>
  /\ mList' = Tail(mList)
  /\ UNCHANGED <<mSet, undefined>>

\* With a p_Value, the swap puts the caller's value in the front node before
\* mSet.erase(mList.front()).  Pop of an empty list returns false.
Pop(arg) ==
  /\ mList # <<>>
  /\ mSet' = mSet \ {IF arg = NullArg THEN Head(mList) ELSE arg}
  /\ mList' = Tail(mList)
  /\ UNCHANGED undefined

\* The last element goes, whichever was asked for.
Del_Faulty(t) ==
  /\ t \in mSet
  /\ mSet' = mSet \ {t}
  /\ mList' = SubSeq(mList, 1, Len(mList) - 1)
  /\ UNCHANGED undefined

Del(t) ==
  /\ t \in mSet
  /\ mSet' = mSet \ {t}
  /\ mList' = IF t \in Elements(mList) THEN Without(mList, First(mList, t))
                                       ELSE mList
  /\ UNCHANGED undefined

Clear ==
  /\ mSet' = {}
  /\ mList' = <<>>
  /\ UNCHANGED undefined

\* Exist and Empty change nothing.
Exist(t) == t \in mSet
Empty == mList = <<>>

Next ==
  \/ \E t \in Values : Push(t) \/ Del(t)
  \/ \E arg \in PopArgs \cup {NullArg} : Pop(arg)
  \/ Clear

Spec == Init /\ [][Next]_vars

-----------------------------------------------------------------------------
(* Properties.                                                             *)

\* The set and the list hold the same elements, each once: what Exist says is
\* what Pop and the eviction will find, Empty agrees with Exist, and the eviction
\* loop, which is bounded by the set but pops the list, never runs off it.
InSync ==
  /\ ~undefined
  /\ \A t \in Values : Exist(t) <=> t \in Elements(mList)
  /\ \A i, j \in DOMAIN mList : mList[i] = mList[j] => i = j

\* The queue is a bounded FIFO queue without repetitions.  That is not the LRU
\* eviction of CppLRU.h:10: what is evicted is the element longest in the queue, also
\* when it has been pushed again since.
Abstract == INSTANCE BoundedFifo WITH queue <- mList, Capacity <- mMaxCap
IsBoundedFifo == Abstract!Spec

\* LRU eviction would want Push to make an element of the queue the newest.
PushMakesNewest ==
  \A t \in mSet : ENABLED (Push(t) /\ mList'[Len(mList')] = t)

\* Pop(&value) takes the front element out of the queue: it no longer exists.
PopTakesOut ==
  [][\A arg \in PopArgs : mList # <<>> /\ Pop(arg) => Head(mList) \notin mSet']_vars
=============================================================================
