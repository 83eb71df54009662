---------------------------- MODULE CppLRUProofs ----------------------------
(***************************************************************************)
(* Proofs about CppLRU, for any elements and any capacity: the queue is in *)
(* step with its set, and is the bounded queue of BoundedFifo, as long as  *)
(* nobody calls Pop with a p_Value.                                        *)
(***************************************************************************)
EXTENDS CppLRU, TLAPS, SequenceTheorems, FiniteSetTheorems

Distinct(list) == \A i, j \in DOMAIN list : list[i] = list[j] => i = j

\* What InSync says, with the size that the eviction loop of Push relies on: it is
\* counted in the set, and the list has as many elements.
QueueInv ==
  /\ TypeOK /\ ~undefined
  /\ mSet = Elements(mList)
  /\ Distinct(mList)
  /\ Len(mList) <= mMaxCap

-----------------------------------------------------------------------------
(* Lists without repetitions.                                              *)

LEMMA ElementsCount ==
  ASSUME NEW list \in Seq(Values), Distinct(list)
  PROVE  /\ IsFiniteSet(Elements(list))
         /\ Cardinality(Elements(list)) = Len(list)
<1>1. list \in [1 .. Len(list) -> Elements(list)] /\ Len(list) \in Nat
      /\ DOMAIN list = 1 .. Len(list)
  BY LenProperties DEF Elements
<1>2. list \in Bijection(1 .. Len(list), Elements(list))
  <2>1. list \in Injection(1 .. Len(list), Elements(list))
    BY <1>1 DEF Injection, IsInjective, Distinct
  <2>2. list \in Surjection(1 .. Len(list), Elements(list))
    BY <1>1 DEF Surjection, Elements
  <2>3. QED
    BY <2>1, <2>2 DEF Bijection
<1>3. ExistsBijection(1 .. Len(list), Elements(list))
  BY <1>2 DEF ExistsBijection
<1>4. QED
  BY <1>1, <1>3, FS_CountingElements, FS_NatBijection

LEMMA AppendElements ==
  ASSUME NEW list \in Seq(Values), NEW t \in Values, Distinct(list), t \notin Elements(list)
  PROVE  /\ Append(list, t) \in Seq(Values)
         /\ Len(Append(list, t)) = Len(list) + 1
         /\ Elements(Append(list, t)) = Elements(list) \cup {t}
         /\ Distinct(Append(list, t))
<1> DEFINE longer == Append(list, t)
<1>1. /\ longer \in Seq(Values) /\ Len(longer) = Len(list) + 1
      /\ \A i \in 1 .. Len(list) : longer[i] = list[i]
      /\ longer[Len(list) + 1] = t
  BY AppendProperties
<1>2. /\ DOMAIN list = 1 .. Len(list) /\ Len(list) \in Nat
      /\ DOMAIN longer = 1 .. Len(list) + 1
  BY <1>1, LenProperties
<1> HIDE DEF longer
<1>3. \A i \in 1 .. Len(list) : longer[i] \in Elements(list) /\ longer[i] # t
  BY <1>1, <1>2 DEF Elements
<1>4. Distinct(longer)
  <2> SUFFICES ASSUME NEW i \in 1 .. Len(list) + 1, NEW j \in 1 .. Len(list) + 1,
                      longer[i] = longer[j]
               PROVE  i = j
    BY <1>2 DEF Distinct
  <2>1. CASE i \in 1 .. Len(list) /\ j \in 1 .. Len(list)
    BY <1>1, <1>2, <2>1 DEF Distinct
  <2>2. CASE i = Len(list) + 1 \/ j = Len(list) + 1
    BY <1>1, <1>2, <1>3, <2>2
  <2>3. QED
    BY <1>2, <2>1, <2>2
<1>5. Elements(longer) = Elements(list) \cup {t}
  <2>1. ASSUME NEW i \in 1 .. Len(list) + 1 PROVE longer[i] \in Elements(list) \cup {t}
    BY <1>1, <1>2, <1>3
  <2>2. ASSUME NEW i \in 1 .. Len(list) PROVE list[i] \in Elements(longer)
    BY <1>1, <1>2 DEF Elements
  <2>3. t \in Elements(longer)
    BY <1>1, <1>2 DEF Elements
  <2>4. QED
    BY <1>2, <2>1, <2>2, <2>3 DEF Elements
<1>6. QED
  BY <1>1, <1>4, <1>5 DEF longer

LEMMA WithoutSays ==
  ASSUME NEW list \in Seq(Values), NEW i \in DOMAIN list
  PROVE  /\ Without(list, i) \in Seq(Values)
         /\ Len(Without(list, i)) = Len(list) - 1
         /\ \A j \in 1 .. Len(list) - 1 :
              Without(list, i)[j] = IF j < i THEN list[j] ELSE list[j + 1]
<1>1. Len(list) \in Nat /\ DOMAIN list = 1 .. Len(list) /\ i \in 1 .. Len(list)
  BY LenProperties
<1>2. \A k \in 1 .. Len(list) : list[k] \in Values
  BY ElementOfSeq
<1> DEFINE front == SubSeq(list, 1, i - 1)
           back == SubSeq(list, i + 1, Len(list))
<1>3. /\ front \in Seq(Values) /\ Len(front) = i - 1
      /\ \A k \in 1 .. i - 1 : front[k] = list[k]
  <2>1. \A k \in 1 .. i - 1 : list[k] \in Values
    BY <1>1, <1>2
  <2>2. QED
    BY <1>1, <2>1, SubSeqProperties
<1>4. /\ back \in Seq(Values) /\ Len(back) = Len(list) - i
      /\ \A k \in 1 .. Len(list) - i : back[k] = list[i + k]
  <2>1. \A k \in i + 1 .. Len(list) : list[k] \in Values
    BY <1>1, <1>2
  <2>2. QED
    BY <1>1, <2>1, SubSeqProperties
<1> HIDE DEF front, back
<1>5. /\ front \o back \in Seq(Values) /\ Len(front \o back) = Len(list) - 1
      /\ \A k \in 1 .. Len(list) - 1 :
           (front \o back)[k] = IF k <= i - 1 THEN front[k] ELSE back[k - (i - 1)]
  <2>1. Len(front) + Len(back) = Len(list) - 1
    BY <1>1, <1>3, <1>4
  <2>2. /\ front \o back \in Seq(Values)
        /\ Len(front \o back) = Len(front) + Len(back)
        /\ \A k \in 1 .. Len(front) + Len(back) :
             (front \o back)[k] = IF k <= Len(front) THEN front[k] ELSE back[k - Len(front)]
    BY <1>3, <1>4, ConcatProperties
  <2>3. Len(front) = i - 1
    BY <1>3
  <2>4. QED
    BY <2>1, <2>2, <2>3
<1>6. ASSUME NEW j \in 1 .. Len(list) - 1
      PROVE  (front \o back)[j] = IF j < i THEN list[j] ELSE list[j + 1]
  <2>1. CASE j < i
    BY <1>1, <1>3, <1>5, <2>1
  <2>2. CASE ~(j < i)
    <3>1. j - (i - 1) \in 1 .. Len(list) - i /\ i + (j - (i - 1)) = j + 1
      BY <1>1, <2>2
    <3>2. back[j - (i - 1)] = list[j + 1]
      BY <1>4, <3>1
    <3>3. (front \o back)[j] = back[j - (i - 1)]
      BY <1>1, <1>5, <2>2
    <3>4. QED
      BY <2>2, <3>2, <3>3
  <2>3. QED
    BY <2>1, <2>2
<1>7. QED
  BY <1>5, <1>6 DEF Without, front, back

LEMMA WithoutElements ==
  ASSUME NEW list \in Seq(Values), NEW i \in DOMAIN list, Distinct(list)
  PROVE  /\ Elements(Without(list, i)) = Elements(list) \ {list[i]}
         /\ Distinct(Without(list, i))
<1> DEFINE less == Without(list, i)
<1>1. /\ Len(list) \in Nat /\ DOMAIN list = 1 .. Len(list) /\ i \in 1 .. Len(list)
      /\ DOMAIN less = 1 .. Len(list) - 1
      /\ \A j \in 1 .. Len(list) - 1 : less[j] = IF j < i THEN list[j] ELSE list[j + 1]
  BY LenProperties, WithoutSays
<1> HIDE DEF less
<1>2. \A j, k \in 1 .. Len(list) : list[j] = list[k] => j = k
  BY <1>1 DEF Distinct
<1>3. Distinct(less)
  <2> SUFFICES ASSUME NEW j \in 1 .. Len(list) - 1, NEW k \in 1 .. Len(list) - 1,
                      less[j] = less[k]
               PROVE  j = k
    BY <1>1 DEF Distinct
  <2>1. PICK a \in 1 .. Len(list) : less[j] = list[a] /\ a = IF j < i THEN j ELSE j + 1
    BY <1>1
  <2>2. PICK b \in 1 .. Len(list) : less[k] = list[b] /\ b = IF k < i THEN k ELSE k + 1
    BY <1>1
  <2>3. a = b
    BY <1>2, <2>1, <2>2
  <2>4. QED
    BY <1>1, <2>1, <2>2, <2>3
<1>4. ASSUME NEW j \in 1 .. Len(list) - 1
      PROVE  less[j] \in Elements(list) \ {list[i]}
  <2>1. PICK a \in 1 .. Len(list) : less[j] = list[a] /\ a = IF j < i THEN j ELSE j + 1
    BY <1>1
  <2>2. a # i
    BY <1>1, <2>1
  <2>3. list[a] # list[i]
    BY <1>1, <1>2, <2>2
  <2>4. QED
    BY <1>1, <2>1, <2>3 DEF Elements
<1>5. ASSUME NEW a \in 1 .. Len(list), a # i
      PROVE  list[a] \in Elements(less)
  <2>1. PICK j \in 1 .. Len(list) - 1 : a = IF j < i THEN j ELSE j + 1
    <3>1. CASE a < i
      BY <1>1, <3>1
    <3>2. CASE a > i
      <4>1. a - 1 \in 1 .. Len(list) - 1 /\ ~(a - 1 < i) /\ a = (a - 1) + 1
        BY <1>1, <3>2
      <4>2. QED
        BY <4>1
    <3>3. QED
      BY <1>1, <1>5, <3>1, <3>2
  <2>2. less[j] = list[a]
    BY <1>1, <2>1
  <2>3. QED
    BY <1>1, <2>2 DEF Elements
<1>6. QED
  BY <1>1, <1>3, <1>4, <1>5 DEF Elements, less

\* pop_front.
LEMMA TailIsWithout ==
  ASSUME NEW list \in Seq(Values), list # <<>>
  PROVE  1 \in DOMAIN list /\ Head(list) = list[1] /\ Tail(list) = Without(list, 1)
<1>1. Len(list) \in Nat \ {0} /\ DOMAIN list = 1 .. Len(list)
  BY EmptySeq, LenProperties
<1>2. Tail(list) = SubSeq(list, 2, Len(list)) /\ Tail(list) \in Seq(Values)
  BY TailIsSubSeq, HeadTailProperties
<1>3. SubSeq(list, 1, 0) = <<>>
  BY SubSeqEmpty
<1>4. Without(list, 1) = Tail(list)
  BY <1>2, <1>3, ConcatEmptySeq DEF Without
<1>5. QED
  BY <1>1, <1>4

\* Del finds the one that is asked for.
LEMMA FirstSays ==
  ASSUME NEW list \in Seq(Values), NEW t \in Elements(list), Distinct(list)
  PROVE  First(list, t) \in DOMAIN list /\ list[First(list, t)] = t
<1>1. PICK i \in DOMAIN list : list[i] = t
  BY DEF Elements
<1>2. \A j \in 1 .. i - 1 : list[j] # t
  BY <1>1, LenProperties DEF Distinct
<1>3. QED
  BY <1>1, <1>2 DEF First

-----------------------------------------------------------------------------
(* The operations.                                                         *)

\* The eviction loop of Push pops once at most.
LEMMA EvictSays ==
  ASSUME NEW list \in Seq(Values), list # <<>>, Distinct(list),
         Len(list) <= mMaxCap + 1, Evict(Elements(list), list)
  PROVE  /\ UNCHANGED undefined
         /\ Len(list) <= mMaxCap => mSet' = Elements(list) /\ mList' = list
         /\ Len(list) > mMaxCap =>
              mSet' = Elements(list) \ {Head(list)} /\ mList' = Tail(list)
<1> DEFINE set == Elements(list)
           Gone(n) == {list[i] : i \in 1 .. n}
           Stops == {n \in 0 .. Len(list) : StopsAfter(set, list, n)}
           stop == CHOOSE m \in Stops : \A k \in Stops : m <= k
<1>1. /\ Len(list) \in Nat \ {0} /\ mMaxCap \in Nat
      /\ IsFiniteSet(set) /\ Cardinality(set) = Len(list)
      /\ list[1] \in set /\ Head(list) = list[1]
  BY EmptySeq, CapacityAssumption, ElementsCount, TailIsWithout DEF Elements
<1>2. {list[i] : i \in 1 .. 0} = {} /\ {list[i] : i \in 1 .. 1} = {list[1]}
  OBVIOUS
<1>3. 0 \in Stops <=> Len(list) <= mMaxCap
  <2>1. set \ {list[i] : i \in 1 .. 0} = set
    BY <1>2
  <2>2. StopsAfter(set, list, 0) <=> Len(list) <= mMaxCap
    BY <1>1, <2>1, Zenon DEF StopsAfter
  <2>3. QED
    BY <1>1, <2>2
<1>4. 1 \in Stops
  <2>1. Cardinality(set \ {list[1]}) = Len(list) - 1
    <3>1. Cardinality(set \ {list[1]}) =
            IF list[1] \in set THEN Cardinality(set) - 1 ELSE Cardinality(set)
      BY <1>1, FS_RemoveElement, Zenon
    <3>. HIDE DEF set
    <3>2. QED
      BY <1>1, <3>1
  <2>2. Len(list) - 1 <= mMaxCap
    BY <1>1
  <2>3. StopsAfter(set, list, 1)
    BY <1>2, <2>1, <2>2, Zenon DEF StopsAfter
  <2>4. QED
    BY <1>1, <2>3
<1>5. \A m \in Stops : m \in Nat
  BY <1>1
<1>6. mSet' = set \ Gone(stop) /\ mList' = SubSeq(list, stop + 1, Len(list))
      /\ UNCHANGED undefined
  <2>1. Stops # {}
    BY <1>4
  <2>2. IF Stops = {} THEN mSet' = {} /\ mList' = <<>> /\ undefined' = TRUE
                      ELSE /\ mSet' = set \ {list[i] : i \in 1 .. stop}
                           /\ mList' = SubSeq(list, stop + 1, Len(list))
                           /\ UNCHANGED undefined
    BY Zenon DEF Evict
  <2> HIDE DEF Stops, stop
  <2>3. QED
    BY <2>1, <2>2
<1>7. ASSUME NEW least \in Stops, \A k \in Stops : least <= k
      PROVE  stop = least
  <2> HIDE DEF Stops
  <2>1. stop \in Stops /\ \A k \in Stops : stop <= k
    BY <1>7
  <2>2. stop <= least /\ least <= stop /\ stop \in Nat /\ least \in Nat
    BY <1>5, <1>7, <2>1
  <2> HIDE DEF stop
  <2>3. QED
    BY <2>2
<1> HIDE DEF Stops, stop, Gone
<1>8. CASE Len(list) <= mMaxCap
  <2>1. 0 \in Stops /\ \A k \in Stops : 0 <= k
    BY <1>3, <1>5, <1>8
  <2>2. stop = 0
    BY <1>7, <2>1
  <2>3. SubSeq(list, 0 + 1, Len(list)) = list
    BY SubSeqFull
  <2>4. mSet' = set /\ mList' = list
    BY <1>2, <1>6, <2>2, <2>3 DEF Gone
  <2>5. ~(Len(list) > mMaxCap)
    BY <1>1, <1>8
  <2>6. QED
    BY <1>6, <1>8, <2>4, <2>5, Zenon
<1>9. CASE Len(list) > mMaxCap
  <2>1. 1 \in Stops /\ \A k \in Stops : 1 <= k
    <3>1. 0 \notin Stops
      BY <1>1, <1>3, <1>9
    <3>2. QED
      BY <1>4, <1>5, <3>1
  <2>2. stop = 1
    BY <1>7, <2>1
  <2>3. SubSeq(list, 1 + 1, Len(list)) = Tail(list)
    BY TailIsSubSeq
  <2>4. mSet' = set \ {list[1]} /\ mList' = Tail(list)
    BY <1>2, <1>6, <2>2, <2>3 DEF Gone
  <2>5. ~(Len(list) <= mMaxCap)
    BY <1>1, <1>9
  <2>6. QED
    BY <1>1, <1>6, <1>9, <2>4, <2>5, Zenon
<1>10. QED
  BY <1>1, <1>8, <1>9

\* A new element enters at the tail; beyond the capacity, the oldest leaves.
LEMMA PushSays ==
  ASSUME QueueInv, NEW t \in Values, t \notin mSet, Push(t)
  PROVE  /\ mList' = IF Len(mList) < mMaxCap THEN Append(mList, t)
                                             ELSE Tail(Append(mList, t))
         /\ QueueInv'
<1> DEFINE list == Append(mList, t)
<1>1. /\ mList \in Seq(Values) /\ mSet = Elements(mList) /\ Distinct(mList)
      /\ Len(mList) \in Nat /\ Len(mList) <= mMaxCap /\ mMaxCap \in Nat
  BY LenProperties, CapacityAssumption DEF QueueInv, TypeOK
<1>2. /\ list \in Seq(Values) /\ Len(list) = Len(mList) + 1
      /\ Elements(list) = mSet \cup {t} /\ Distinct(list)
  BY <1>1, AppendElements
<1>3. Evict(Elements(list), list)
  BY <1>2 DEF Push
<1> HIDE DEF list
<1>4. list # <<>> /\ Len(list) <= mMaxCap + 1
  BY <1>1, <1>2, EmptySeq
<1>5. /\ UNCHANGED undefined
      /\ Len(list) <= mMaxCap => mSet' = Elements(list) /\ mList' = list
      /\ Len(list) > mMaxCap => mSet' = Elements(list) \ {Head(list)} /\ mList' = Tail(list)
  BY <1>2, <1>3, <1>4, EvictSays
<1>6. Elements(list) \subseteq Values
  BY <1>2, LenProperties DEF Elements
<1>7. undefined' \in BOOLEAN /\ ~undefined'
  BY <1>5, Zenon DEF QueueInv, TypeOK
<1>8. CASE Len(mList) < mMaxCap
  <2>1. Len(list) <= mMaxCap
    BY <1>1, <1>2, <1>8
  <2>2. mSet' = Elements(list) /\ mList' = list
    BY <1>5, <2>1
  <2>3. QueueInv'
    <3>1. TypeOK'
      BY <1>2, <1>6, <1>7, <2>2, Zenon DEF TypeOK
    <3>2. mSet' = Elements(mList') /\ Distinct(mList') /\ Len(mList') <= mMaxCap
      BY <1>2, <2>1, <2>2, Zenon
    <3>3. QED
      BY <1>7, <3>1, <3>2, Zenon DEF QueueInv, Elements, Distinct
  <2>4. QED
    BY <1>8, <2>2, <2>3 DEF list
<1>9. CASE ~(Len(mList) < mMaxCap)
  <2>1. Len(list) > mMaxCap
    BY <1>1, <1>2, <1>9
  <2>2. mSet' = Elements(list) \ {list[1]} /\ mList' = Without(list, 1) /\ mList' = Tail(list)
    BY <1>2, <1>4, <1>5, <2>1, TailIsWithout
  <2>3. 1 \in DOMAIN list
    BY <1>2, <1>4, TailIsWithout
  <2>4. /\ Without(list, 1) \in Seq(Values) /\ Len(Without(list, 1)) = Len(list) - 1
        /\ Elements(Without(list, 1)) = Elements(list) \ {list[1]}
        /\ Distinct(Without(list, 1))
    BY <1>2, <2>3, WithoutSays, WithoutElements
  <2>5. Len(Without(list, 1)) <= mMaxCap
    BY <1>1, <1>2, <2>4
  <2>6. QueueInv'
    BY <1>6, <1>7, <2>2, <2>4, <2>5, Zenon DEF QueueInv, TypeOK, Elements, Distinct
  <2>7. QED
    BY <1>9, <2>2, <2>6 DEF list
<1>10. QED
  BY <1>8, <1>9

\* Pop and Del take one element out of both.
LEMMA RemovalKeepsStep ==
  ASSUME QueueInv, NEW i \in DOMAIN mList, mSet' = mSet \ {mList[i]},
         mList' = Without(mList, i), UNCHANGED undefined
  PROVE  QueueInv'
<1>1. /\ mList \in Seq(Values) /\ mSet = Elements(mList) /\ Distinct(mList)
      /\ Len(mList) \in Nat /\ Len(mList) <= mMaxCap /\ mMaxCap \in Nat
  BY LenProperties, CapacityAssumption DEF QueueInv, TypeOK
<1>2. /\ mList' \in Seq(Values) /\ Len(mList') = Len(mList) - 1
      /\ Elements(mList') = mSet' /\ Distinct(mList')
  BY <1>1, WithoutSays, WithoutElements
<1>3. Len(mList') <= mMaxCap
  BY <1>1, <1>2
<1>4. mSet' \in SUBSET Values
  BY Zenon DEF QueueInv, TypeOK
<1>5. undefined' \in BOOLEAN /\ ~undefined'
  BY Zenon DEF QueueInv, TypeOK
<1>6. QED
  BY <1>2, <1>3, <1>4, <1>5, Zenon DEF QueueInv, TypeOK, Elements, Distinct

LEMMA QueueInit == Init => QueueInv
<1> SUFFICES ASSUME Init PROVE QueueInv
  OBVIOUS
<1>1. mList = <<>> /\ mSet = {} /\ undefined = FALSE
  BY DEF Init
<1>2. <<>> \in Seq(Values) /\ Len(<<>>) = 0 /\ DOMAIN <<>> = {}
  BY EmptySeq
<1>3. mSet \in SUBSET Values /\ undefined \in BOOLEAN /\ ~undefined
  BY <1>1, Zenon
<1>4. mSet = Elements(mList) /\ Distinct(mList)
  BY <1>1, <1>2 DEF Elements, Distinct
<1>5. Len(mList) <= mMaxCap
  BY <1>1, <1>2, CapacityAssumption
<1>6. QED
  BY <1>1, <1>2, <1>3, <1>4, <1>5 DEF QueueInv, TypeOK

\* A step keeps the set and the list in step, and is a step of BoundedFifo.
LEMMA QueueStep ==
  ASSUME PopArgs = {}, QueueInv, [Next]_vars
  PROVE  QueueInv' /\ [Abstract!Next]_mList
<1>1. ASSUME NEW t \in Values, Push(t) PROVE QueueInv' /\ [Abstract!Next]_mList
  <2>1. CASE t \in mSet
    <3>1. UNCHANGED vars
      BY <1>1, <2>1 DEF Push, vars
    <3>2. QED
      BY <3>1 DEF vars, QueueInv, TypeOK, Elements, Distinct
  <2>2. CASE t \notin mSet
    <3>1. /\ mList' = IF Len(mList) < mMaxCap THEN Append(mList, t)
                                              ELSE Tail(Append(mList, t))
          /\ QueueInv'
      BY <1>1, <2>2, PushSays
    <3>2. t \notin Abstract!Elements
      BY <2>2 DEF QueueInv, Elements, Abstract!Elements
    <3>3. Abstract!Add(t)
      BY <3>1, <3>2 DEF Abstract!Add
    <3>4. QED
      BY <3>1, <3>3 DEF Abstract!Next
  <2>3. QED
    BY <2>1, <2>2
<1>2. ASSUME NEW t \in Values, Del(t) PROVE QueueInv' /\ [Abstract!Next]_mList
  <2> DEFINE i == First(mList, t)
  <2>1. t \in Elements(mList) /\ mList \in Seq(Values) /\ Distinct(mList)
    BY <1>2 DEF Del, QueueInv, TypeOK
  <2>2. i \in DOMAIN mList /\ mList[i] = t
    BY <2>1, FirstSays
  <2>3. mSet' = mSet \ {mList[i]} /\ mList' = Without(mList, i) /\ UNCHANGED undefined
    BY <1>2, <2>1, <2>2 DEF Del
  <2> HIDE DEF i
  <2>4. QueueInv'
    BY <2>2, <2>3, RemovalKeepsStep
  <2>5. Abstract!Remove(i)
    BY <2>3 DEF Abstract!Remove, Without
  <2>6. QED
    BY <2>2, <2>4, <2>5 DEF Abstract!Next
<1>3. ASSUME NEW arg \in PopArgs \cup {NullArg}, Pop(arg)
      PROVE  QueueInv' /\ [Abstract!Next]_mList
  <2>1. arg = NullArg
    OBVIOUS
  <2>2. mList # <<>> /\ mSet' = mSet \ {Head(mList)} /\ mList' = Tail(mList) /\ UNCHANGED undefined
    BY <1>3, <2>1 DEF Pop
  <2>3. 1 \in DOMAIN mList /\ Head(mList) = mList[1] /\ Tail(mList) = Without(mList, 1)
    BY <2>2, TailIsWithout DEF QueueInv, TypeOK
  <2>4. QueueInv'
    BY <2>2, <2>3, RemovalKeepsStep
  <2>5. Abstract!RemoveOldest
    BY <2>2 DEF Abstract!RemoveOldest
  <2>6. QED
    BY <2>4, <2>5 DEF Abstract!Next
<1>4. ASSUME Clear PROVE QueueInv' /\ [Abstract!Next]_mList
  <2>1. mList' = <<>> /\ mSet' = {} /\ undefined' = undefined
    BY <1>4 DEF Clear
  <2>2. <<>> \in Seq(Values) /\ Len(<<>>) = 0 /\ DOMAIN <<>> = {}
    BY EmptySeq
  <2>3. QueueInv'
    BY <2>1, <2>2, CapacityAssumption DEF QueueInv, TypeOK, Elements, Distinct
  <2>4. Abstract!Clear
    BY <2>1 DEF Abstract!Clear
  <2>5. QED
    BY <2>3, <2>4 DEF Abstract!Next
<1>5. ASSUME UNCHANGED vars PROVE QueueInv' /\ [Abstract!Next]_mList
  BY <1>5 DEF vars, QueueInv, TypeOK, Elements, Distinct
<1>6. QED
  BY <1>1, <1>2, <1>3, <1>4, <1>5 DEF Next

-----------------------------------------------------------------------------
(* Theorems.                                                               *)

\* As long as no Pop is given a p_Value, the set and the list of a CppLRU hold the
\* same elements, each once, and the eviction loop of Push never runs off the list.
\* With a p_Value they part (run lru_pop).
THEOREM QueueInStep == ASSUME PopArgs = {} PROVE Spec => []InSync
<1>1. QueueInv => InSync
  BY DEF QueueInv, InSync, Exist, Distinct
<1>2. QueueInv /\ [Next]_vars => QueueInv'
  BY QueueStep
<1>3. QED
  BY <1>1, <1>2, QueueInit, PTL DEF Spec

\* As long as no Pop is given a p_Value, CppLRU is a bounded queue without
\* repetitions: Push evicts the oldest and only beyond the capacity, Pop takes the
\* oldest, Del takes one element out of the middle and keeps the order of the rest.
THEOREM QueueIsBoundedFifo == ASSUME PopArgs = {} PROVE Spec => IsBoundedFifo
<1>1. Init => Abstract!Init
  BY DEF Init, Abstract!Init
<1>2. QueueInv /\ [Next]_vars => QueueInv' /\ [Abstract!Next]_mList
  BY QueueStep
<1>3. QED
  BY <1>1, <1>2, QueueInit, PTL DEF Spec, IsBoundedFifo, Abstract!Spec
=============================================================================
