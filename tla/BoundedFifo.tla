---------------------------- MODULE BoundedFifo ----------------------------
(***************************************************************************)
(* A bounded queue without repetitions: what CppLRU is.  A new element     *)
(* enters at the tail; beyond the capacity the oldest leaves.  An element  *)
(* that is in the queue is not added again and keeps its place, so that    *)
(* this is no LRU cache, though CppLRU.h:10 speaks of LRU eviction.        *)
(***************************************************************************)
EXTENDS Naturals, Sequences

CONSTANTS Values, Capacity

VARIABLE queue

Init == queue = <<>>

Elements == {queue[i] : i \in DOMAIN queue}

Add(t) ==
  /\ t \notin Elements
  /\ queue' = IF Len(queue) < Capacity THEN Append(queue, t)
                                       ELSE Tail(Append(queue, t))

RemoveOldest ==
  /\ queue # <<>>
  /\ queue' = Tail(queue)

Remove(i) ==
  queue' = SubSeq(queue, 1, i - 1) \o SubSeq(queue, i + 1, Len(queue))

Clear == queue' = <<>>

Next ==
  \/ \E t \in Values : Add(t)
  \/ RemoveOldest
  \/ \E i \in DOMAIN queue : Remove(i)
  \/ Clear

Spec == Init /\ [][Next]_queue
=============================================================================
