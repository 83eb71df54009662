------------------------------ MODULE LoadClient ------------------------------
(***************************************************************************)
(* The load generator MultiThreadClientBase of CppNet.h: its threads add   *)
(* to the same statistics without a lock, and Run reads and resets them    *)
(* once a second.  A statement such as ++gSuccessCount is a read and a     *)
(* write, between which the other threads run.  Each thread has one        *)
(* client.                                                                 *)
(*                                                                         *)
(* A name that ends in _Faulty is a plausible bug in the definition that   *)
(* follows it, on which the properties are tried.                          *)
(***************************************************************************)
EXTENDS Integers, Sequences

CONSTANTS
  ThreadIds,      \* 1 .. n
  Times,          \* the microseconds an answer may take, 0 when the clock stands
  MaxAnswers,     \* bound: answers that the threads share
  mRunSecond

VARIABLES
  mClientThreadCount,
  stat,           \* the statistics g..., by name
  at,             \* thread -> where it is
  loaded,         \* thread -> the value it has read of the statistic, or NotRead
  usedTimeUs,     \* thread -> of the answer that it handles
  connected,      \* threads whose client's UniqueFd holds a connection
  sent,           \* threads whose request is on its way
  run,            \* where Run is
  second,
  gClientStop,
  answers         \* history: thread -> the times and verdicts of its answers

vars == <<mClientThreadCount, stat, at, loaded, usedTimeUs, connected, sent, run,
          second, gClientStop, answers>>

\* The statistics in the order in which ProcRead comes to them.
Order == <<"gTotalTimeUs", "gMaxTimeUs", "gMinTimeUs",
           "gCurrTotalTimeUs", "gCurrMaxTimeUs", "gCurrMinTimeUs">>
Stats == {Order[i] : i \in DOMAIN Order} \cup {"gSuccessCount", "gFailCount"}

NotRead == -1

Threads == {t \in ThreadIds : t <= mClientThreadCount}

Init ==
  /\ mClientThreadCount \in ThreadIds
  /\ stat = [name \in Stats |-> 0]
  /\ at = [t \in ThreadIds |-> "connect"]
  /\ loaded = [t \in ThreadIds |-> NotRead]
  /\ usedTimeUs = [t \in ThreadIds |-> 0]
  /\ connected = {} /\ sent = {}
  /\ run = "sleep"
  /\ second = 0
  /\ gClientStop = FALSE
  /\ answers = [t \in ThreadIds |-> <<>>]

\* A thread whose client could not connect, or was dropped, goes on without it.
\* Whichever step of ConnectServer fails, its UniqueFd closes the socket.
ConnectServer(t) ==
  /\ at[t] = "connect"
  /\ connected' \in {connected, connected \cup {t}}
  /\ at' = [at EXCEPT ![t] = "wait"]
  /\ UNCHANGED <<mClientThreadCount, stat, loaded, usedTimeUs, sent, run, second,
                 gClientStop, answers>>

Drop(t) ==
  /\ connected' = connected \ {t}
  /\ sent' = sent \ {t}

\* write fails, and the client is dropped, or sendTime is set after it.
ProcWrite(t) ==
  /\ at[t] = "wait" /\ ~gClientStop
  /\ t \in connected \ sent /\ Len(answers[t]) * mClientThreadCount < MaxAnswers
  /\ \/ Drop(t)
     \/ sent' = sent \cup {t} /\ UNCHANGED connected
  /\ UNCHANGED <<mClientThreadCount, stat, at, loaded, usedTimeUs, run, second,
                 gClientStop, answers>>

\* The answer is there; a time that is not positive drops the client with the answer
\* unread, as a server that hangs up does.
ProcRead(t) ==
  /\ at[t] = "wait" /\ ~gClientStop /\ t \in sent
  /\ \E time \in Times :
       IF time = 0
         THEN Drop(t) /\ UNCHANGED <<at, usedTimeUs>>
         ELSE /\ usedTimeUs' = [usedTimeUs EXCEPT ![t] = time]
              /\ at' = [at EXCEPT ![t] = Order[1]]
              /\ UNCHANGED <<connected, sent>>
  /\ UNCHANGED <<mClientThreadCount, stat, loaded, run, second,
                 gClientStop, answers>>

\* The statistic is read...
Load(t) ==
  /\ at[t] \in Stats /\ loaded[t] = NotRead
  /\ loaded' = [loaded EXCEPT ![t] = stat[at[t]]]
  /\ UNCHANGED <<mClientThreadCount, stat, at, usedTimeUs, connected, sent, run,
                 second, gClientStop, answers>>

\* The minimum starts at 0 and stays there.
Updated_Faulty(name, old, time) ==
  CASE name \in {"gTotalTimeUs", "gCurrTotalTimeUs"} -> old + time
    [] name \in {"gMaxTimeUs", "gCurrMaxTimeUs"} -> IF old < time THEN time ELSE old
    [] name \in {"gMinTimeUs", "gCurrMinTimeUs"} -> IF old > time THEN time ELSE old
    [] OTHER -> old + 1

Updated(name, old, time) ==
  CASE name \in {"gTotalTimeUs", "gCurrTotalTimeUs"} -> old + time
    [] name \in {"gMaxTimeUs", "gCurrMaxTimeUs"} -> IF old < time THEN time ELSE old
    [] name \in {"gMinTimeUs", "gCurrMinTimeUs"} ->
         IF old = 0 \/ old > time THEN time ELSE old
    [] OTHER -> old + 1

\* CheckResponse says which counter an answer goes to.
After(name) ==
  IF name = Order[Len(Order)]
    THEN {"gSuccessCount", "gFailCount"}
    ELSE {Order[i + 1] : i \in {j \in DOMAIN Order : Order[j] = name}}

\* An answer that is wrong counts as a success too.
Store_Faulty(t) ==
  /\ at[t] \in Stats /\ loaded[t] # NotRead
  /\ stat' = [stat EXCEPT ![at[t]] = Updated(at[t], loaded[t], usedTimeUs[t]),
                         !["gSuccessCount"] = IF at[t] = "gFailCount" THEN @ + 1 ELSE @]
  /\ loaded' = [loaded EXCEPT ![t] = NotRead]
  /\ IF at[t] \in {"gSuccessCount", "gFailCount"}
       THEN /\ at' = [at EXCEPT ![t] = "wait"]
            /\ sent' = sent \ {t}
            /\ answers' = [answers EXCEPT ![t] = Append(@, <<usedTimeUs[t], at[t]>>)]
       ELSE /\ \E next \in After(at[t]) : at' = [at EXCEPT ![t] = next]
            /\ UNCHANGED <<sent, answers>>
  /\ UNCHANGED <<mClientThreadCount, usedTimeUs, connected, run, second, gClientStop>>

\* ... and the new value is written.  After the last one the answer is handled,
\* and the next request may go.
Store(t) ==
  /\ at[t] \in Stats /\ loaded[t] # NotRead
  /\ stat' = [stat EXCEPT ![at[t]] = Updated(at[t], loaded[t], usedTimeUs[t])]
  /\ loaded' = [loaded EXCEPT ![t] = NotRead]
  /\ IF at[t] \in {"gSuccessCount", "gFailCount"}
       THEN /\ at' = [at EXCEPT ![t] = "wait"]
            /\ sent' = sent \ {t}
            /\ answers' = [answers EXCEPT ![t] = Append(@, <<usedTimeUs[t], at[t]>>)]
       ELSE /\ \E next \in After(at[t]) : at' = [at EXCEPT ![t] = next]
            /\ UNCHANGED <<sent, answers>>
  /\ UNCHANGED <<mClientThreadCount, usedTimeUs, connected, run, second, gClientStop>>

\* Run, once a second: the counts are copied and the last period's taken off...
Period ==
  /\ run = "sleep"
  /\ run' = "gCurrTotalTimeUs"
  /\ UNCHANGED <<mClientThreadCount, stat, at, loaded, usedTimeUs, connected, sent,
                 second, gClientStop, answers>>

\* ... the statistics of the period are reset, one after the other...
Reset ==
  /\ run \in {"gCurrTotalTimeUs", "gCurrMinTimeUs", "gCurrMaxTimeUs"}
  /\ stat' = [stat EXCEPT ![run] = 0]
  /\ run' = CASE run = "gCurrTotalTimeUs" -> "gCurrMinTimeUs"
              [] run = "gCurrMinTimeUs" -> "gCurrMaxTimeUs"
              [] OTHER -> "second"
  /\ UNCHANGED <<mClientThreadCount, at, loaded, usedTimeUs, connected, sent, second,
                 gClientStop, answers>>

\* ... and after mRunSecond periods the threads are told to stop.
EndPeriod ==
  /\ run = "second"
  /\ second' = second + 1
  /\ gClientStop' = (second + 1 >= mRunSecond)
  /\ run' = IF second + 1 >= mRunSecond THEN "join" ELSE "sleep"
  /\ UNCHANGED <<mClientThreadCount, stat, at, loaded, usedTimeUs, connected, sent,
                 answers>>

Next ==
  \/ \E t \in Threads :
       ConnectServer(t) \/ ProcWrite(t) \/ ProcRead(t) \/ Load(t) \/ Store(t)
  \/ Period \/ Reset \/ EndPeriod

Spec == Init /\ [][Next]_vars

-----------------------------------------------------------------------------
(* Properties.                                                             *)

Verdicts(t, name) ==
  {i \in DOMAIN answers[t] : answers[t][i][2] = name}

Handled(t) == {answers[t][i][1] : i \in DOMAIN answers[t]}

\* The sum of f[1] to f[n].
SumOf(f, n) ==
  LET sum[i \in 0 .. n] == IF i = 0 THEN 0 ELSE f[i] + sum[i - 1]
  IN  sum[n]

CountOf(t, name) ==
  SumOf([i \in DOMAIN answers[t] |-> IF i \in Verdicts(t, name) THEN 1 ELSE 0],
        Len(answers[t]))

TimeOf(t) == SumOf([i \in DOMAIN answers[t] |-> answers[t][i][1]], Len(answers[t]))

\* Between two answers, the totals of a client with one thread are exact: the
\* counts, the sum, and the extremes of the answers handled.
ExactWithOneThread ==
  mClientThreadCount = 1 /\ at[1] = "wait" =>
    /\ stat["gSuccessCount"] = CountOf(1, "gSuccessCount")
    /\ stat["gFailCount"] = CountOf(1, "gFailCount")
    /\ stat["gTotalTimeUs"] = TimeOf(1)
    /\ answers[1] # <<>> =>
         /\ stat["gMaxTimeUs"] \in Handled(1) /\ stat["gMinTimeUs"] \in Handled(1)
         /\ \A time \in Handled(1) : stat["gMinTimeUs"] <= time
                                     /\ time <= stat["gMaxTimeUs"]

\* With more threads an update may be lost, but none is made up: the counters never
\* say more than the answers handled, and an extreme is the time of some answer.
NothingInvented ==
  LET Sum(op(_)) == SumOf([t \in ThreadIds |-> op(t)], Len(answers))
      Success(t) == CountOf(t, "gSuccessCount")
      Known == {0} \cup UNION {Handled(t) \cup {usedTimeUs[t]} : t \in Threads}
  IN  /\ (\A t \in Threads : at[t] = "wait") => stat["gSuccessCount"] <= Sum(Success)
      /\ (\A t \in Threads : at[t] = "wait") => stat["gTotalTimeUs"] <= Sum(TimeOf)
      /\ \A name \in {"gMaxTimeUs", "gMinTimeUs", "gCurrMaxTimeUs", "gCurrMinTimeUs"} :
           stat[name] \in Known
=============================================================================
