-------------------------- MODULE ZkConnectProofs --------------------------
(***************************************************************************)
(* NoHandleLost and ResumedWhenQuiet of ZkConnect, for any number of       *)
(* handles and troubles, with and without a time limit of the user.        *)
(***************************************************************************)
EXTENDS ZkConnect, TLAPS, SequenceTheorems

SessionEvents == {"connected", "connecting", "expired"}

ThreadStates ==
  {"idle", "done", "connect", "init", "assign", "lock", "check", "wait", "waiting",
   "woken", "save", "resume", "notify", "sleep", "reconnect"}

ConnectTypes ==
  /\ m_zhandle \in Handles \union {0}
  /\ m_need_resume_env \in BOOLEAN
  /\ state \in [Handles -> SessionEvents \union {"none", "closed"}]
  /\ events \in [Handles -> Seq(SessionEvents)]
  /\ pc \in [Threads -> ThreadStates]
  /\ new \in [Threads -> Handles \union {0}]
  /\ overlap \in BOOLEAN

Opening(t) == pc[t] \in {"init", "assign"}

\* While one thread is between zookeeper_close and the assignment no other is, and
\* m_zhandle is NULL; the handle a thread is about to assign is one it has got.
OneOpens ==
  /\ ~overlap =>
       /\ \A t, u \in Threads : Opening(t) /\ Opening(u) => t = u
       /\ \A t \in Threads : Opening(t) => m_zhandle = 0
  /\ \A t \in Threads : pc[t] = "assign" => new[t] \in Handles

Hears == {h \in Handles : \E k \in DOMAIN events[h] : events[h][k] = "connected"}

Missed(h) == <<h, "connected">> \in missed

\* Until the environment is resumed, a connection that stands still has its
\* connected event before it, if that was not missed: any connection, if it is not
\* assigned yet, and else the current one, unless its thread is already resuming.
EventAhead ==
  /\ \A h \in Handles :
       state[h] = "connected" /\ h # m_zhandle /\ ~Missed(h) => h \in Hears
  /\ m_zhandle # 0 /\ state[m_zhandle] = "connected" /\ m_need_resume_env
       => Missed(m_zhandle) \/ m_zhandle \in Hears \/ pc[m_zhandle] = "resume"

ConnectInv == ConnectTypes /\ OneOpens /\ NoHandleLost /\ EventAhead

-----------------------------------------------------------------------------
(* Which events wait after one more has come, and after one is handled.    *)

LEMMA HearsAppend ==
  ASSUME ConnectTypes, NEW h \in Handles, NEW to \in SessionEvents, Becomes(h, to)
  PROVE  /\ events' \in [Handles -> Seq(SessionEvents)]
         /\ \A g \in Handles \ {h} : g \in Hears' <=> g \in Hears
         /\ h \in Hears' <=> h \in Hears \/ to = "connected"
<1> DEFINE s == events[h]
<1>1. s \in Seq(SessionEvents) /\ events' = [events EXCEPT ![h] = Append(s, to)]
  BY DEF ConnectTypes, Becomes
<1>2. /\ Append(s, to) \in Seq(SessionEvents)
      /\ DOMAIN Append(s, to) = 1 .. Len(s) + 1
      /\ DOMAIN s = 1 .. Len(s) /\ Len(s) \in Nat
      /\ \A i \in 1 .. Len(s) : Append(s, to)[i] = s[i]
      /\ Append(s, to)[Len(s) + 1] = to
  BY <1>1, AppendProperties, LenProperties
<1>3. events'[h] = Append(s, to) /\ \A g \in Handles \ {h} : events'[g] = events[g]
  BY <1>1 DEF ConnectTypes
<1>4. events' \in [Handles -> Seq(SessionEvents)]
  BY <1>1, <1>2 DEF ConnectTypes
<1>5. \A g \in Handles \ {h} : g \in Hears' <=> g \in Hears
  BY <1>3 DEF Hears
<1>6. (\E k \in DOMAIN Append(s, to) : Append(s, to)[k] = "connected")
        <=> (\E k \in DOMAIN s : s[k] = "connected") \/ to = "connected"
  <2> HIDE DEF s
  <2> QED
    BY <1>2
<1>7. h \in Hears' <=> h \in Hears \/ to = "connected"
  BY <1>3, <1>6 DEF Hears
<1>8. QED
  BY <1>4, <1>5, <1>7

LEMMA HearsTail ==
  ASSUME ConnectTypes, NEW h \in Handles, events[h] # <<>>, Handled(h)
  PROVE  /\ events' \in [Handles -> Seq(SessionEvents)]
         /\ Head(events[h]) \in SessionEvents
         /\ \A g \in Handles \ {h} : g \in Hears' <=> g \in Hears
         /\ h \in Hears => h \in Hears' \/ Head(events[h]) = "connected"
<1> DEFINE s == events[h]
<1>1. s \in Seq(SessionEvents) /\ events' = [events EXCEPT ![h] = Tail(s)]
  BY DEF ConnectTypes, Handled
<1>2. /\ Tail(s) \in Seq(SessionEvents)
      /\ Head(s) \in SessionEvents
      /\ Len(Tail(s)) = Len(s) - 1
      /\ \A i \in 1 .. Len(Tail(s)) : Tail(s)[i] = s[i + 1]
      /\ Head(s) = s[1]
  BY <1>1, HeadTailProperties
<1>3. DOMAIN s = 1 .. Len(s) /\ Len(s) \in Nat /\ DOMAIN Tail(s) = 1 .. Len(s) - 1
  BY <1>1, <1>2, LenProperties
<1>4. events'[h] = Tail(s) /\ \A g \in Handles \ {h} : events'[g] = events[g]
  BY <1>1 DEF ConnectTypes
<1>5. ASSUME NEW k \in DOMAIN s, s[k] = "connected", Head(s) # "connected"
      PROVE  \E j \in DOMAIN Tail(s) : Tail(s)[j] = "connected"
  <2>1. k # 1 /\ k - 1 \in DOMAIN Tail(s)
    BY <1>2, <1>3, <1>5
  <2>2. Tail(s)[k - 1] = s[k]
    BY <1>2, <1>3, <2>1
  <2>3. QED
    BY <1>5, <2>1, <2>2
<1>6. events' \in [Handles -> Seq(SessionEvents)]
  BY <1>1, <1>2 DEF ConnectTypes
<1>7. \A g \in Handles \ {h} : g \in Hears' <=> g \in Hears
  BY <1>4 DEF Hears
<1>8. h \in Hears => h \in Hears' \/ Head(s) = "connected"
  BY <1>4, <1>5 DEF Hears
<1>9. QED
  BY <1>2, <1>6, <1>7, <1>8

\* Other steps leave the events alone, or drop those of the handle that is closed.
LEMMA HearsSame == ASSUME UNCHANGED events PROVE Hears' = Hears
  BY DEF Hears

LEMMA HearsClosed ==
  ASSUME ConnectTypes, m_zhandle # 0, events' = [events EXCEPT ![m_zhandle] = <<>>]
  PROVE  /\ events' \in [Handles -> Seq(SessionEvents)]
         /\ \A g \in Handles \ {m_zhandle} : g \in Hears' <=> g \in Hears
  BY DEF ConnectTypes, Hears

LEMMA MissedLess ==
  ASSUME NEW h \in Handles, NEW event, missed' = missed \ {<<h, event>>}
  PROVE  \A g \in Handles : Missed(g) => Missed(g)' \/ (event = "connected" /\ g = h)
<1>1. SUFFICES ASSUME NEW g \in Handles, Missed(g)
               PROVE  Missed(g)' \/ (event = "connected" /\ g = h)
  OBVIOUS
<1>2. CASE <<g, "connected">> = <<h, event>>
  BY <1>2
<1>3. CASE <<g, "connected">> # <<h, event>>
  <2>1. <<g, "connected">> \in missed'
    BY <1>1, <1>3, Zenon DEF Missed
  <2>2. QED
    BY <2>1, Zenon DEF Missed
<1>4. QED
  BY <1>2, <1>3

LEMMA ThreadFacts ==
  /\ User \in Threads /\ Handles \subseteq Threads /\ 0 \notin Handles
  BY ConnectAssumption DEF User, Threads, Handles

LEMMA InvInit == Init => ConnectInv
<1> SUFFICES ASSUME Init PROVE ConnectInv
  OBVIOUS
<1>1. ConnectTypes
  BY ThreadFacts, EmptySeq DEF Init, ConnectTypes, ThreadStates
<1>2. OneOpens /\ NoHandleLost
  BY ThreadFacts DEF Init, OneOpens, Opening, NoHandleLost, Open
<1>3. EventAhead
  BY DEF Init, EventAhead
<1>4. QED
  BY <1>1, <1>2, <1>3 DEF ConnectInv

\* The C client's steps: what a handle becomes, it has the event of.
LEMMA InvBecomes ==
  ASSUME ConnectInv, NEW h \in Handles, NEW to \in SessionEvents,
         state[h] \in {"connecting", "connected"}, Becomes(h, to),
         UNCHANGED <<manager, threads, history>>
  PROVE  ConnectInv'
<1> USE DEF ConnectInv, manager, threads, history
<1>1. state' = [state EXCEPT ![h] = to]
  BY DEF Becomes
<1>2. ConnectTypes'
  BY <1>1, HearsAppend DEF ConnectTypes
<1>3. OneOpens'
  BY DEF OneOpens, Opening
<1>4. NoHandleLost'
  BY <1>1 DEF NoHandleLost, Open, ConnectTypes
<1>5. EventAhead'
  BY <1>1, HearsAppend DEF EventAhead, Missed, ConnectTypes
<1>6. QED
  BY <1>2, <1>3, <1>4, <1>5

LEMMA InvStep == ConnectInv /\ [Next]_vars => ConnectInv'
<1> SUFFICES ASSUME ConnectInv, [Next]_vars PROVE ConnectInv'
  OBVIOUS
<1> USE ThreadFacts, HearsSame DEF ConnectInv, ConnectTypes, OneOpens, Opening, NoHandleLost, Open,
        EventAhead, Missed, ThreadStates, Goes, Go, Return, manager, client, threads, history
<1>1. ASSUME Goes, NEW t \in Threads, Close(t) PROVE ConnectInv'
  <2>1. ConnectTypes'
    <3>1. CASE m_zhandle = 0
      BY <1>1, <3>1 DEF Close
    <3>2. CASE m_zhandle # 0
      BY <1>1, <3>2, HearsClosed DEF Close
    <3>3. QED
      BY <3>1, <3>2
  <2>2. OneOpens'
    <3>1. /\ pc' = [pc EXCEPT ![t] = "init"] /\ m_zhandle' = 0 /\ new' = new
          /\ overlap' = (overlap \/ \E u \in Threads : Opening(u))
      BY <1>1 DEF Close
    <3>2. \A u \in Threads \ {t} : pc'[u] = pc[u]
      BY <3>1
    <3>3. pc'[t] = "init"
      BY <3>1
    <3>. HIDE DEF NoHandleLost, EventAhead
    <3>4. ~overlap' => \A u \in Threads \ {t} : ~(Opening(u)')
      BY <3>1, <3>2
    <3>5. QED
      BY <3>1, <3>2, <3>3, <3>4
  <2>3. NoHandleLost'
    BY <1>1 DEF Close
  <2>4. EventAhead'
    <3>1. m_zhandle' = 0 /\ missed' = missed
      BY <1>1 DEF Close
    <3>2. \A h \in Handles : state'[h] = "connected" => state[h] = "connected" /\ h # m_zhandle
      BY <1>1 DEF Close
    <3>3. \A h \in Handles \ {m_zhandle} : h \in Hears' <=> h \in Hears
      BY <1>1, HearsClosed DEF Close
    <3>4. QED
      BY <3>1, <3>2, <3>3
  <2>5. QED
    BY <2>1, <2>2, <2>3, <2>4
<1>2. ASSUME Goes, NEW t \in Threads, InitHandle(t) PROVE ConnectInv'
  <2>1. ConnectTypes'
    BY <1>2 DEF InitHandle, SessionEvents
  <2>2. OneOpens'
    BY <1>2 DEF InitHandle
  <2>3. NoHandleLost'
    BY <1>2 DEF InitHandle
  <2>4. EventAhead'
    BY <1>2 DEF InitHandle
  <2>5. QED
    BY <2>1, <2>2, <2>3, <2>4
<1>3. ASSUME Goes, NEW t \in Threads, Assign(t) PROVE ConnectInv'
  <2>1. ConnectTypes'
    BY <1>3 DEF Assign
  <2>2. OneOpens'
    BY <1>3 DEF Assign
  <2>3. NoHandleLost'
    <3>1. /\ Opening(t) /\ pc[t] = "assign" /\ m_zhandle = 0
          /\ m_zhandle' = new[t] /\ UNCHANGED state
      BY <1>3 DEF Assign
    <3>2. SUFFICES ASSUME NEW h \in Handles, Open(h) PROVE h = m_zhandle'
      BY <3>1
    <3>3. PICK u \in Threads : pc[u] = "assign" /\ new[u] = h
      BY <3>1, <3>2
    <3>4. u = t
      BY <1>3, <3>1, <3>3
    <3>5. QED
      BY <3>1, <3>3, <3>4
  <2>4. EventAhead'
    BY <1>3 DEF Assign
  <2>5. QED
    BY <2>1, <2>2, <2>3, <2>4
<1>4. ASSUME Goes, NEW t \in Threads, Lock(t) PROVE ConnectInv'
  <2>1. ConnectTypes'
    BY <1>4 DEF Lock
  <2>2. OneOpens'
    BY <1>4 DEF Lock
  <2>3. NoHandleLost'
    BY <1>4 DEF Lock
  <2>4. EventAhead'
    BY <1>4 DEF Lock
  <2>5. QED
    BY <2>1, <2>2, <2>3, <2>4
<1>5. ASSUME Goes, NEW t \in Threads, Check(t) PROVE ConnectInv'
  <2>1. ConnectTypes'
    BY <1>5 DEF Check
  <2>2. OneOpens'
    BY <1>5 DEF Check
  <2>3. NoHandleLost'
    BY <1>5 DEF Check
  <2>4. EventAhead'
    BY <1>5 DEF Check
  <2>5. QED
    BY <2>1, <2>2, <2>3, <2>4
<1>6. ASSUME Goes, NEW t \in Threads, Wait(t) PROVE ConnectInv'
  <2>1. ConnectTypes'
    BY <1>6 DEF Wait
  <2>2. OneOpens'
    BY <1>6 DEF Wait
  <2>3. NoHandleLost'
    BY <1>6 DEF Wait
  <2>4. EventAhead'
    BY <1>6 DEF Wait
  <2>5. QED
    BY <2>1, <2>2, <2>3, <2>4
<1>7. ASSUME Goes, NEW t \in Threads, TimeOut(t) PROVE ConnectInv'
  <2>1. ConnectTypes'
    BY <1>7 DEF TimeOut
  <2>2. OneOpens'
    BY <1>7 DEF TimeOut
  <2>3. NoHandleLost'
    BY <1>7 DEF TimeOut
  <2>4. EventAhead'
    BY <1>7 DEF TimeOut
  <2>5. QED
    BY <2>1, <2>2, <2>3, <2>4
<1>8. ASSUME Goes, NEW t \in Threads, Relock(t) PROVE ConnectInv'
  <2>1. CASE Return(t, "ZOPERATIONTIMEOUT") /\ UNCHANGED holder
    <3>1. ConnectTypes'
      BY <1>8, <2>1 DEF Relock
    <3>2. OneOpens'
      BY <1>8, <2>1 DEF Relock
    <3>3. NoHandleLost' /\ EventAhead'
      BY <1>8, <2>1 DEF Relock
    <3>4. QED
      BY <3>1, <3>2, <3>3
  <2>2. CASE Go(t, "check") /\ UNCHANGED result
    <3>1. ConnectTypes'
      BY <1>8, <2>2 DEF Relock
    <3>2. OneOpens'
      BY <1>8, <2>2 DEF Relock
    <3>3. NoHandleLost' /\ EventAhead'
      BY <1>8, <2>2 DEF Relock
    <3>4. QED
      BY <3>1, <3>2, <3>3
  <2>3. QED
    BY <1>8, <2>1, <2>2 DEF Relock
<1>9. ASSUME Goes, NEW t \in Threads, Save(t) PROVE ConnectInv'
  <2>1. ConnectTypes'
    <3>. HIDE DEF OneOpens, NoHandleLost, EventAhead
    <3>1. CASE m_zhandle = 0
      BY <1>9, <3>1 DEF Save
    <3>2. CASE m_zhandle # 0
      BY <1>9, <3>2 DEF Save
    <3>3. QED
      BY <3>1, <3>2
  <2>2. OneOpens'
    BY <1>9 DEF Save
  <2>3. NoHandleLost'
    BY <1>9 DEF Save
  <2>4. EventAhead'
    BY <1>9 DEF Save
  <2>5. QED
    BY <2>1, <2>2, <2>3, <2>4
<1>10. ASSUME Goes, NEW t \in Threads, InitFails(t) PROVE ConnectInv'
  <2>1. ConnectTypes'
    BY <1>10 DEF InitFails
  <2>2. OneOpens'
    BY <1>10 DEF InitFails
  <2>3. NoHandleLost'
    BY <1>10 DEF InitFails
  <2>4. EventAhead'
    BY <1>10 DEF InitFails
  <2>5. QED
    BY <2>1, <2>2, <2>3, <2>4
<1>11. ASSUME Goes, ConnectAgain PROVE ConnectInv'
  BY <1>11 DEF ConnectAgain
<1>12. ASSUME Goes, NEW h \in Handles, Event(h) PROVE ConnectInv'
  <2>1. /\ events' \in [Handles -> Seq(SessionEvents)]
        /\ \A g \in Handles \ {h} : g \in Hears' <=> g \in Hears
        /\ h \in Hears => h \in Hears' \/ Head(events[h]) = "connected"
    BY <1>12, HearsTail DEF Event
  <2>2. /\ pc[h] = "idle" /\ h \in Threads
        /\ UNCHANGED <<m_zhandle, m_need_resume_env, state, new, overlap>>
    BY <1>12 DEF Event
  <2>3. CASE Misses(h, Head(events[h]))
    <3>1. pc' = pc /\ missed' = missed \union {<<h, Head(events[h])>>}
      BY <2>3 DEF Misses
    <3>2. \A g \in Handles : Missed(g) => Missed(g)'
      BY <3>1 DEF Missed
    <3>3. Head(events[h]) = "connected" => Missed(h)'
      BY <3>1 DEF Missed
    <3>4. ConnectTypes' /\ OneOpens' /\ NoHandleLost'
      BY <2>1, <2>2, <3>1
    <3>5. EventAhead'
      BY <2>1, <2>2, <3>1, <3>2, <3>3
    <3>6. QED
      BY <3>4, <3>5
  <2>4. CASE /\ h = m_zhandle
             /\ missed' = missed \ {<<h, Head(events[h])>>}
             /\ CASE Head(events[h]) = "connected" ->
                       Go(h, IF NeedsResume(h) THEN "resume" ELSE "notify")
                  [] Head(events[h]) = "expired" -> Go(h, "reconnect")
                  [] OTHER -> UNCHANGED pc
    <3>1. \/ pc' = pc
          \/ \E to \in {"resume", "notify", "reconnect"} : pc' = [pc EXCEPT ![h] = to]
      BY <2>4
    <3>2. \A g \in Handles : Missed(g)
            => Missed(g)' \/ (Head(events[h]) = "connected" /\ g = h)
      <4> HIDE DEF Missed
      <4> QED
        BY <2>4, MissedLess, Zenon
    <3>3. Head(events[h]) = "connected" /\ m_need_resume_env => pc'[h] = "resume"
      BY <2>2, <2>4 DEF NeedsResume
    <3>4. ConnectTypes'
      <4>1. CASE pc' = pc
        BY <2>1, <2>2, <4>1
      <4>2. ASSUME NEW to \in {"resume", "notify", "reconnect"},
                   pc' = [pc EXCEPT ![h] = to]
            PROVE  ConnectTypes'
        BY <2>1, <2>2, <4>2
      <4>3. QED
        BY <3>1, <4>1, <4>2
    <3>5. OneOpens' /\ NoHandleLost'
      BY <2>2, <3>1
    <3>6. EventAhead'
      BY <2>1, <2>2, <2>4, <3>2, <3>3
    <3>7. QED
      BY <3>4, <3>5, <3>6
  <2>5. QED
    BY <1>12, <2>3, <2>4 DEF Event
<1>13. ASSUME Goes, NEW h \in Handles, Resume(h) PROVE ConnectInv'
  <2>1. ConnectTypes'
    BY <1>13 DEF Resume
  <2>2. OneOpens'
    BY <1>13 DEF Resume
  <2>3. NoHandleLost'
    BY <1>13 DEF Resume
  <2>4. EventAhead'
    BY <1>13 DEF Resume
  <2>5. QED
    BY <2>1, <2>2, <2>3, <2>4
<1>14. ASSUME Goes, NEW h \in Handles, Notify(h) PROVE ConnectInv'
  BY <1>14 DEF Notify
<1>15. ASSUME Goes, NEW h \in Handles, Sleep(h) PROVE ConnectInv'
  BY <1>15 DEF Sleep
<1>16. ASSUME Goes, NEW h \in Handles, Reconnect(h) PROVE ConnectInv'
  <2>1. pc' = pc \/ pc' = [pc EXCEPT ![h] = "connect"]
    BY <1>16 DEF Reconnect
  <2>2. QED
    BY <1>16, <2>1 DEF Reconnect
<1>17. ASSUME Goes, NEW h \in Handles, Establish(h) PROVE ConnectInv'
  <2>1. CASE session[h] = 0 \/ session[h] \in alive
    BY <1>17, <2>1, InvBecomes DEF Establish, SessionEvents
  <2>2. CASE session[h] # 0 /\ session[h] \notin alive
    BY <1>17, <2>2, InvBecomes DEF Establish, SessionEvents
  <2>3. QED
    BY <2>1, <2>2
<1>18. ASSUME Goes, NEW h \in Handles, Drop(h) PROVE ConnectInv'
  BY <1>18, InvBecomes DEF Drop, SessionEvents
<1>19. ASSUME Goes, NEW s \in alive, Expire(s) PROVE ConnectInv'
  BY <1>19 DEF Expire
<1>20. ASSUME Goes, NEW h \in Handles, StopContext(h) PROVE ConnectInv'
  BY <1>20 DEF StopContext
<1>21. CASE UNCHANGED vars
  BY <1>21 DEF vars
<1>22. QED
  BY <1>1, <1>2, <1>3, <1>4, <1>5, <1>6, <1>7, <1>8, <1>9, <1>10, <1>11, <1>12, <1>13, <1>14, <1>15, <1>16, <1>17, <1>18, <1>19, <1>20,
     <1>21 DEF Next, Connect, InnerWatcher

LEMMA InvHolds == Spec => []ConnectInv
  BY InvInit, InvStep, PTL DEF Spec

\* Whoever reconnects while the user connects, and whenever zookeeper_init fails, no
\* open handle is forgotten, unless two threads have been in Connect at once, where the
\* model stops (CppZookeeper.cpp:206).
THEOREM HandlesAreNamed == Spec => []NoHandleLost
<1>1. ConnectInv => NoHandleLost
  BY DEF ConnectInv
<1>2. QED
  BY <1>1, InvHolds, PTL

\* However connections are lost and sessions expire, a connection that stands when the
\* threads have nothing left to do has had its environment resumed (CppZookeeper.cpp:1441),
\* unless the last connected event of its handle found another handle in m_zhandle
\* (1431) or a stopped context (1418).
THEOREM ConnectionsAreResumed == Spec => []ResumedWhenQuiet
<1>1. ConnectInv => ResumedWhenQuiet
  <2> SUFFICES ASSUME ConnectInv, GetStatus = "connected", events[m_zhandle] = <<>>,
                      \A t \in Threads : pc[t] \in {"idle", "done", "waiting"},
                      m_need_resume_env, ~Missed(m_zhandle)
               PROVE  FALSE
    BY DEF ResumedWhenQuiet, Quiet, Missed, ConnectInv, ConnectTypes
  <2>1. m_zhandle \in Handles /\ state[m_zhandle] = "connected"
    BY DEF GetStatus, ConnectInv, ConnectTypes
  <2>2. m_zhandle \notin Hears
    BY <2>1 DEF Hears
  <2>3. pc[m_zhandle] # "resume"
    BY <2>1, ThreadFacts
  <2>4. QED
    BY <2>1, <2>2, <2>3, ThreadFacts DEF ConnectInv, EventAhead
<1>2. QED
  BY <1>1, InvHolds, PTL
=============================================================================
