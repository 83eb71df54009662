------------------------ MODULE CppThreadPoolProofs ------------------------
(***************************************************************************)
(* Proofs about CppThreadPool, for any number of workers, clients and      *)
(* tasks.                                                                  *)
(***************************************************************************)
EXTENDS CppThreadPool, TLAPS, SequenceTheorems

\* Where the local variables of the threads have a meaning: a worker has a pair
\* from Take to the end of Finish, a client a context during Wait; the worker
\* that terminates the list keeps the mutex, and the list is not empty.
LocalsOK ==
  /\ \A w \in Workers :
       Held(w) <=> worker[w] \in {"ready", "skip", "run", "finish", "notify"}
  /\ \A c \in Clients :
       target[c] # Nobody <=> client[c] \in {"enter", "asleep", "woken"}
  /\ \A w \in Workers :
       worker[w] = "terminateNotify" => list_owner = w /\ m_fun_list # <<>>
  /\ \A w \in Workers :
       list_owner = w => worker[w] \in {"terminate", "terminateNotify"}

-----------------------------------------------------------------------------
(* Types.                                                                  *)

\* Both ends at which a task is queued keep the list a sequence of pairs.
LEMMA QueueType ==
  ASSUME TypeOK, NEW t \in Tasks, NEW x \in Contexts, NEW h \in BOOLEAN,
         Queue(t, x, h)
  PROVE  /\ m_fun_list' \in Seq(FunData)
         /\ home' \in [Tasks -> Contexts \cup {Nobody}]
         /\ fate' \in [Tasks -> Fates]
<1>. DEFINE e == [fun |-> t, ctx |-> x]
<1>1. e \in FunData /\ m_fun_list \in Seq(FunData)
  BY DEF TypeOK, FunData
<1>2. <<e>> \o m_fun_list \in Seq(FunData) /\ Append(m_fun_list, e) \in Seq(FunData)
  <2>. HIDE DEF e
  <2>. QED
    BY <1>1
<1>. QED
  BY <1>2 DEF Queue, TypeOK, Fates

\* Every step keeps the variables in their types.
LEMMA TypeStep ==
  ASSUME TypeOK, LocalsOK, [Next]_vars
  PROVE  TypeOK'
<1>. USE DEF Contexts, WorkerStates, ClientStates, Fates,
             poolVars, contextVars, workerVars, clientVars, history
<1>1. ASSUME NEW c \in Clients, NEW t \in Tasks, NEW h \in BOOLEAN, Run(c, t, h)
      PROVE  TypeOK'
  BY <1>1, QueueType DEF TypeOK, Run
<1>2. ASSUME NEW c \in Clients, NEW t \in Tasks, NEW x \in Contexts,
             NEW h \in BOOLEAN, RunOnContext(c, t, x, h)
      PROVE  TypeOK'
  BY <1>2, QueueType DEF TypeOK, RunOnContext
<1>3. ASSUME NEW c \in Clients, NEW x \in Contexts, Wait(c, x) PROVE TypeOK'
  BY <1>3 DEF TypeOK, Wait
<1>4. ASSUME NEW c \in Clients, RunNotify(c) PROVE TypeOK'
  BY <1>4 DEF TypeOK, RunNotify, WakeOneWorker, SleepingWorkers
<1>5. ASSUME NEW c \in Clients, WaitCheck(c) PROVE TypeOK'
  BY <1>5 DEF TypeOK, WaitCheck
<1>6. ASSUME NEW c \in Clients, Stop(c) PROVE TypeOK'
  BY <1>6 DEF TypeOK, Stop
<1>7. ASSUME NEW c \in Clients, StopNotifyAll(c) PROVE TypeOK'
  BY <1>7 DEF TypeOK, StopNotifyAll
<1>8. ASSUME NEW c \in Clients, StopJoin(c) PROVE TypeOK'
  BY <1>8 DEF TypeOK, StopJoin
<1>9. ASSUME NEW w \in Workers, OuterLoop(w) \/ EnterWait(w) \/ CheckStop(w) \/ InnerLoop(w)
      PROVE  TypeOK'
  BY <1>9 DEF TypeOK, OuterLoop, EnterWait, CheckStop, InnerLoop, Goto
<1>10. ASSUME NEW w \in Workers, Take(w) PROVE TypeOK'
  <2>1. CASE m_fun_list = <<>> \/ m_stop
    BY <1>10, <2>1 DEF TypeOK, Take, Goto
  <2>2. CASE m_fun_list # <<>> /\ ~m_stop
    <3>1. Head(m_fun_list) \in FunData /\ Tail(m_fun_list) \in Seq(FunData)
      BY <2>2 DEF TypeOK
    <3>2. Head(m_fun_list).fun \in Tasks
      BY <3>1 DEF FunData
    <3>3. /\ fun_data' = [fun_data EXCEPT ![w] = Head(m_fun_list)]
          /\ m_fun_list' = Tail(m_fun_list)
          /\ fate' = [fate EXCEPT ![Head(m_fun_list).fun] = "taken"]
          /\ worker' = [worker EXCEPT ![w] = "ready"]
          /\ UNCHANGED <<m_stop, m_ths, list_owner, contextVars, abort, clientVars, home>>
      BY <1>10, <2>2 DEF Take, Goto
    <3>. HIDE DEF FunData
    <3>. QED
      BY <3>1, <3>2, <3>3 DEF TypeOK
  <2>. QED
    BY <2>1, <2>2
<1>11. ASSUME NEW w \in Workers, CheckFinish(w) PROVE TypeOK'
  BY <1>11 DEF TypeOK, CheckFinish, Goto
<1>12. ASSUME NEW w \in Workers, ReadAbort(w) PROVE TypeOK'
  <2>1. fun_data[w].ctx \in Contexts
    BY <1>12, NobodyAssumption DEF TypeOK, LocalsOK, Held, ReadAbort, FunData
  <2>. QED
    BY <1>12, <2>1 DEF TypeOK, ReadAbort, Goto
<1>13. ASSUME NEW w \in Workers, NEW threw \in BOOLEAN, EndRun(w, threw)
       PROVE  TypeOK'
  BY <1>13 DEF TypeOK, EndRun, Goto
<1>14. ASSUME NEW w \in Workers, Finish(w) PROVE TypeOK'
  BY <1>14 DEF TypeOK, Finish, SetFinish, Goto
<1>15. ASSUME NEW w \in Workers, FinishNotify(w) PROVE TypeOK'
  BY <1>15 DEF TypeOK, FinishNotify, WakeOneClient, SleepingOn, Goto
<1>16. ASSUME NEW w \in Workers, Terminate(w) PROVE TypeOK'
  <2>1. UNCHANGED <<m_fun_list, m_stop, m_ths, fun_data, abort, clientVars, history>>
    BY <1>16 DEF Terminate
  <2>2. list_owner' \in Workers \cup {Nobody} /\ worker' \in [Workers -> WorkerStates]
    <3>1. CASE m_fun_list = <<>>
      BY <1>16, <3>1 DEF TypeOK, Terminate, Goto
    <3>2. CASE m_fun_list # <<>>
      BY <1>16, <3>2 DEF TypeOK, Terminate, Goto
    <3>. QED
      BY <3>1, <3>2
  <2>3. m_is_finish' \in [Contexts -> BOOLEAN] /\ m_is_abort' \in [Contexts -> BOOLEAN]
    BY <1>16 DEF TypeOK, Terminate, SetFinish
  <2>. QED
    BY <2>1, <2>2, <2>3 DEF TypeOK
<1>17. ASSUME NEW w \in Workers, TerminateNotify(w) PROVE TypeOK'
  BY <1>17 DEF TypeOK, TerminateNotify, WakeOneClient, SleepingOn, Goto
<1>18. CASE SpuriousWakeup
  BY <1>18 DEF TypeOK, SpuriousWakeup, SleepingWorkers
<1>19. CASE UNCHANGED vars
  BY <1>19 DEF TypeOK, vars
<1>. QED
  BY <1>1, <1>2, <1>3, <1>4, <1>5, <1>6, <1>7, <1>8, <1>9, <1>10, <1>11, <1>12,
     <1>13, <1>14, <1>15, <1>16, <1>17, <1>18, <1>19, StoppersAssumption
  DEF Next, ClientCall, ClientProgress, WorkerStep

LEMMA TypeInit == Init => TypeOK
<1>. SUFFICES ASSUME Init PROVE TypeOK
  OBVIOUS
<1>. USE DEF Contexts, WorkerStates, ClientStates, Fates, Init
<1>1. m_fun_list \in Seq(FunData)
  OBVIOUS
<1>2. fun_data \in [Workers -> FunData \cup {NoFunData}]
  OBVIOUS
<1>. QED
  BY <1>1, <1>2 DEF TypeOK

\* Every step keeps the local variables meaningful.
LEMMA LocalsStep ==
  ASSUME TypeOK, LocalsOK, [Next]_vars
  PROVE  LocalsOK'
<1>. USE DEF poolVars, contextVars, workerVars, clientVars, history
<1>1. ASSUME NEW c \in Clients, NEW t \in Tasks, NEW x \in Contexts,
             NEW h \in BOOLEAN, Run(c, t, h) \/ RunOnContext(c, t, x, h)
      PROVE  LocalsOK'
  <2>1. ListFree /\ UNCHANGED <<workerVars, target, list_owner>>
    BY <1>1 DEF Run, RunOnContext
  <2>2. client[c] = "idle" /\ client' = [client EXCEPT ![c] = "notify"]
    BY <1>1 DEF Run, RunOnContext
  <2>. QED
    BY <2>1, <2>2, WorkersAssumption DEF LocalsOK, TypeOK, Held, ListFree
<1>2. ASSUME NEW c \in Clients, NEW x \in Contexts, Wait(c, x) PROVE LocalsOK'
  BY <1>2, NobodyAssumption DEF LocalsOK, TypeOK, Held, Wait, Contexts
<1>3. ASSUME NEW c \in Clients,
             RunNotify(c) \/ Stop(c) \/ StopNotifyAll(c) \/ StopJoin(c)
      PROVE  LocalsOK'
  <2>1. CASE RunNotify(c)
    BY <2>1 DEF LocalsOK, TypeOK, Held, RunNotify, WakeOneWorker, SleepingWorkers
  <2>2. CASE StopNotifyAll(c)
    BY <2>2 DEF LocalsOK, TypeOK, Held, StopNotifyAll
  <2>3. CASE Stop(c)
    BY <2>3 DEF LocalsOK, TypeOK, Held, Stop
  <2>4. CASE StopJoin(c)
    BY <2>4 DEF LocalsOK, TypeOK, Held, StopJoin
  <2>. QED
    BY <1>3, <2>1, <2>2, <2>3, <2>4
<1>4. ASSUME NEW c \in Clients, WaitCheck(c) PROVE LocalsOK'
  BY <1>4 DEF LocalsOK, TypeOK, Held, WaitCheck
<1>5. ASSUME NEW w \in Workers,
             \/ OuterLoop(w) \/ EnterWait(w) \/ CheckStop(w) \/ InnerLoop(w)
             \/ CheckFinish(w) \/ ReadAbort(w) \/ Finish(w)
             \/ \E threw \in BOOLEAN : EndRun(w, threw)
      PROVE  LocalsOK'
  BY <1>5 DEF LocalsOK, TypeOK, Held, Goto, OuterLoop, EnterWait, CheckStop,
              InnerLoop, CheckFinish, ReadAbort, Finish, EndRun
<1>6. ASSUME NEW w \in Workers, Take(w) PROVE LocalsOK'
  <2>1. m_fun_list # <<>> => Head(m_fun_list) # NoFunData
    BY NobodyAssumption DEF TypeOK, FunData, NoFunData
  <2>2. \A v \in Workers : list_owner # v
    BY <1>6, WorkersAssumption DEF Take, ListFree
  <2>. QED
    BY <1>6, <2>1, <2>2 DEF LocalsOK, TypeOK, Held, Goto, Take
<1>7. ASSUME NEW w \in Workers, FinishNotify(w) \/ TerminateNotify(w)
      PROVE  LocalsOK'
  <2>1. /\ UNCHANGED <<m_fun_list, list_owner, target>>
        /\ \A c \in Clients : \/ client'[c] = client[c]
                              \/ client[c] = "asleep" /\ client'[c] = "woken"
    BY <1>7 DEF TypeOK, FinishNotify, TerminateNotify, WakeOneClient, SleepingOn
  <2>2. CASE FinishNotify(w)
    BY <2>1, <2>2 DEF LocalsOK, TypeOK, Held, Goto, FinishNotify
  <2>3. CASE TerminateNotify(w)
    BY <2>1, <2>3 DEF LocalsOK, TypeOK, Held, Goto, TerminateNotify
  <2>. QED
    BY <1>7, <2>2, <2>3
<1>8. ASSUME NEW w \in Workers, Terminate(w) PROVE LocalsOK'
  <2>1. \A v \in Workers : v # w => worker[v] # "terminateNotify" /\ list_owner # v
    BY <1>8, WorkersAssumption DEF LocalsOK, Terminate
  <2>2. UNCHANGED <<m_fun_list, fun_data, client, target>>
    BY <1>8 DEF Terminate
  <2>3. CASE m_fun_list = <<>>
    BY <1>8, <2>1, <2>2, <2>3, WorkersAssumption
    DEF LocalsOK, TypeOK, Held, Goto, Terminate
  <2>4. CASE m_fun_list # <<>>
    BY <1>8, <2>1, <2>2, <2>4, WorkersAssumption
    DEF LocalsOK, TypeOK, Held, Goto, Terminate
  <2>. QED
    BY <2>3, <2>4
<1>9. CASE SpuriousWakeup
  BY <1>9 DEF LocalsOK, TypeOK, Held, SpuriousWakeup, SleepingWorkers
<1>10. CASE UNCHANGED vars
  BY <1>10 DEF LocalsOK, Held, vars
<1>. QED
  BY <1>1, <1>2, <1>3, <1>4, <1>5, <1>6, <1>7, <1>8, <1>9, <1>10,
     StoppersAssumption
  DEF Next, ClientCall, ClientProgress, WorkerStep, Contexts

LEMMA LocalsInit == Init => LocalsOK
  BY WorkersAssumption DEF Init, LocalsOK, Held

\* In every reachable state the variables have their types.
THEOREM TypeCorrect == Spec => []TypeOK
<1>1. Init => TypeOK /\ LocalsOK
  BY TypeInit, LocalsInit
<1>2. TypeOK /\ LocalsOK /\ [Next]_vars => (TypeOK /\ LocalsOK)'
  BY TypeStep, LocalsStep
<1>. QED
  BY <1>1, <1>2, PTL DEF Spec

-----------------------------------------------------------------------------
(* Notifications.                                                          *)

\* A worker leaves its loops only after Stop.
LeaveOnStop ==
  \A w \in Workers :
    worker[w] \in {"terminate", "terminateNotify", "exited"} => m_stop

NotifyInv == LeaveOnStop /\ NoLostWakeup /\ StopWakesAll

LEMMA NotifyStep ==
  ASSUME TypeOK, NotifyInv, [Next]_vars
  PROVE  NotifyInv'
<1>. USE DEF NotifyInv, LeaveOnStop, NoLostWakeup, StopWakesAll, Attends,
             SleepingWorkers, poolVars, workerVars, clientVars
<1>1. ASSUME NEW c \in Clients, NEW t \in Tasks, NEW x \in Contexts,
             NEW h \in BOOLEAN, Run(c, t, h) \/ RunOnContext(c, t, x, h)
      PROVE  NotifyInv'
  <2>1. UNCHANGED <<worker, m_stop>>
    BY <1>1 DEF Run, RunOnContext
  <2>2. client[c] = "idle" /\ client' = [client EXCEPT ![c] = "notify"]
    BY <1>1 DEF Run, RunOnContext
  <2>. QED
    BY <2>1, <2>2 DEF TypeOK
<1>2. ASSUME NEW c \in Clients, WaitCheck(c) \/ \E x \in Contexts : Wait(c, x)
      PROVE  NotifyInv'
  BY <1>2 DEF TypeOK, Wait, WaitCheck
<1>3. ASSUME NEW c \in Clients, RunNotify(c) PROVE NotifyInv'
  <2>1. CASE SleepingWorkers = {}
    BY <1>3, <2>1, WorkersAssumption DEF TypeOK, RunNotify, WakeOneWorker
  <2>2. CASE SleepingWorkers # {}
    BY <1>3, <2>2 DEF TypeOK, RunNotify, WakeOneWorker
  <2>. QED
    BY <2>1, <2>2
<1>4. ASSUME NEW c \in Clients, Stop(c) \/ StopJoin(c) PROVE NotifyInv'
  BY <1>4 DEF TypeOK, Stop, StopJoin
<1>5. ASSUME NEW c \in Clients, StopNotifyAll(c) PROVE NotifyInv'
  BY <1>5, WorkersAssumption DEF TypeOK, StopNotifyAll
<1>6. ASSUME NEW w \in Workers,
             \/ OuterLoop(w) \/ EnterWait(w) \/ CheckStop(w) \/ InnerLoop(w)
             \/ CheckFinish(w) \/ ReadAbort(w) \/ Finish(w)
             \/ \E threw \in BOOLEAN : EndRun(w, threw)
      PROVE  NotifyInv'
  <2>1. UNCHANGED <<m_fun_list, m_stop, client>>
    BY <1>6 DEF OuterLoop, EnterWait, CheckStop, InnerLoop, CheckFinish,
                ReadAbort, Finish, EndRun
  <2>2. \E state \in WorkerStates : worker' = [worker EXCEPT ![w] = state]
    BY <1>6 DEF Goto, OuterLoop, EnterWait, CheckStop, InnerLoop, CheckFinish,
                ReadAbort, Finish, EndRun, WorkerStates
  <2>3. worker'[w] = "asleep" => m_fun_list = <<>> /\ ~m_stop
    BY <1>6 DEF TypeOK, Goto, OuterLoop, EnterWait, CheckStop, InnerLoop,
                CheckFinish, ReadAbort, Finish, EndRun
  <2>4. worker'[w] \in {"terminate", "terminateNotify", "exited"} => m_stop
    BY <1>6 DEF TypeOK, Goto, OuterLoop, EnterWait, CheckStop, InnerLoop,
                CheckFinish, ReadAbort, Finish, EndRun
  <2>. QED
    BY <2>1, <2>2, <2>3, <2>4 DEF TypeOK
<1>7. ASSUME NEW w \in Workers, Take(w) PROVE NotifyInv'
  <2>1. /\ UNCHANGED <<m_stop, client>>
        /\ worker'[w] \in {"outer", "ready"}
        /\ \A v \in Workers : v # w => worker'[v] = worker[v]
    BY <1>7 DEF TypeOK, Goto, Take
  <2>. QED
    BY <2>1
<1>8. ASSUME NEW w \in Workers, FinishNotify(w) \/ TerminateNotify(w)
      PROVE  NotifyInv'
  <2>1. /\ UNCHANGED <<m_fun_list, m_stop>>
        /\ worker'[w] \in {"inner", "terminate"}
        /\ worker'[w] = "terminate" => worker[w] = "terminateNotify"
        /\ \A v \in Workers : v # w => worker'[v] = worker[v]
    BY <1>8 DEF TypeOK, Goto, FinishNotify, TerminateNotify
  <2>2. \A c \in Clients : \/ client'[c] = client[c]
                           \/ client[c] = "asleep" /\ client'[c] = "woken"
    BY <1>8 DEF TypeOK, FinishNotify, TerminateNotify, WakeOneClient, SleepingOn
  <2>. QED
    BY <2>1, <2>2
<1>9. ASSUME NEW w \in Workers, Terminate(w) PROVE NotifyInv'
  <2>1. /\ UNCHANGED <<m_stop, client>> /\ m_stop
        /\ worker'[w] \in {"exited", "terminateNotify"}
        /\ \A v \in Workers : v # w => worker'[v] = worker[v]
    BY <1>9 DEF TypeOK, Goto, Terminate
  <2>. QED
    BY <2>1
<1>10. CASE SpuriousWakeup
  BY <1>10 DEF TypeOK, SpuriousWakeup
<1>11. CASE UNCHANGED vars
  BY <1>11 DEF vars
<1>. HIDE DEF NotifyInv
<1>. QED
  BY <1>1, <1>2, <1>3, <1>4, <1>5, <1>6, <1>7, <1>8, <1>9, <1>10, <1>11,
     StoppersAssumption
  DEF Next, ClientCall, ClientProgress, WorkerStep, Contexts

LEMMA NotifyInit == Init => NotifyInv
  BY DEF Init, NotifyInv, LeaveOnStop, NoLostWakeup, StopWakesAll

LEMMA NotifyInvariant == Spec => []NotifyInv
<1>1. Init => TypeOK /\ LocalsOK /\ NotifyInv
  BY TypeInit, LocalsInit, NotifyInit
<1>2. TypeOK /\ LocalsOK /\ NotifyInv /\ [Next]_vars
      => (TypeOK /\ LocalsOK /\ NotifyInv)'
  BY TypeStep, LocalsStep, NotifyStep
<1>. QED
  BY <1>1, <1>2, PTL DEF Spec

\* One notify_one for each queued task is enough, for any number of workers:
\* until Stop, a non-empty list always has a worker on its way to it, or a
\* client on its way to wake one.
THEOREM NoWakeupIsLost == Spec => []NoLostWakeup
<1>1. NotifyInv => NoLostWakeup
  BY DEF NotifyInv
<1>. QED
  BY <1>1, NotifyInvariant, PTL

\* Once Stop has notified, no worker sleeps again.
THEOREM StopLeavesNoSleeper == Spec => []StopWakesAll
<1>1. NotifyInv => StopWakesAll
  BY DEF NotifyInv
<1>. QED
  BY <1>1, NotifyInvariant, PTL

-----------------------------------------------------------------------------
(* Waiting for a context.                                                  *)

\* Where nobody shares a context to wait on, one client sleeps on it at most.
OneWaiter ==
  \A c, d \in Clients, x \in Contexts : IsWaiting(c, x) /\ IsWaiting(d, x) => c = d

WaiterInv == OneWaiter /\ NoForgottenWaiter

\* The one notify_one of Finish leaves nobody asleep.
LEMMA WakeOneSays ==
  ASSUME TypeOK, OneWaiter, NEW x \in Contexts, WakeOneClient(x), UNCHANGED target
  PROVE  /\ \A c \in Clients : client'[c] = client[c] \/ (client[c] = "asleep" /\ client'[c] = "woken")
         /\ \A c \in Clients : target[c] = x => client'[c] # "asleep"
<1>1. CASE SleepingOn(x) = {}
  BY <1>1 DEF TypeOK, WakeOneClient, SleepingOn
<1>2. CASE SleepingOn(x) # {}
  <2>1. PICK c \in SleepingOn(x) : client' = [client EXCEPT ![c] = "woken"]
    BY <1>2 DEF WakeOneClient
  <2>2. \A d \in SleepingOn(x) : d = c
    BY <2>1 DEF OneWaiter, IsWaiting, SleepingOn
  <2>3. QED
    BY <2>1, <2>2 DEF TypeOK, SleepingOn
<1>3. QED
  BY <1>1, <1>2

\* What keeps NoForgottenWaiter: no context finishes unnotified, no sleeper appears on
\* a finished one.
LEMMA StillRemembered ==
  ASSUME NoForgottenWaiter, UNCHANGED m_is_finish,
         \A x \in Contexts : NotifyPending(x) => NotifyPending(x)',
         \A c \in Clients : client'[c] = "asleep" =>
           \/ client[c] = "asleep" /\ target'[c] = target[c]
           \/ ~m_is_finish[target'[c]]
  PROVE  NoForgottenWaiter'
  BY DEF NoForgottenWaiter, SleepingOn

LEMMA WaiterStep ==
  ASSUME ~SharedWait, TypeOK, LocalsOK, WaiterInv, [Next]_vars
  PROVE  WaiterInv'
<1>. USE DEF WaiterInv, Contexts, poolVars, contextVars, workerVars, clientVars, history
<1>0. ASSUME \A c \in Clients, x \in Contexts : IsWaiting(c, x)' => IsWaiting(c, x)
      PROVE  OneWaiter'
  BY <1>0 DEF OneWaiter
<1>1. ASSUME NEW c \in Clients, NEW t \in Tasks, NEW x \in Contexts,
             NEW h \in BOOLEAN, Run(c, t, h) \/ RunOnContext(c, t, x, h)
      PROVE  WaiterInv'
  <2>1. /\ \A d \in Clients : client'[d] = IF d = c THEN "notify" ELSE client[d]
        /\ ListFree /\ UNCHANGED <<target, worker, fun_data, m_is_finish>>
    BY <1>1 DEF Run, RunOnContext, TypeOK
  <2>2. \A w \in Workers : worker[w] # "terminateNotify"
    BY <2>1, WorkersAssumption DEF LocalsOK, ListFree
  <2>3. OneWaiter'
    BY <1>0, <2>1 DEF IsWaiting
  <2>4. NoForgottenWaiter'
    BY <2>1, <2>2, StillRemembered DEF NotifyPending
  <2>. QED
    BY <2>3, <2>4
<1>2. ASSUME NEW c \in Clients, NEW x \in Contexts, Wait(c, x) PROVE WaiterInv'
  <2>1. /\ \A d \in Clients : client'[d] = IF d = c THEN "enter" ELSE client[d]
        /\ \A d \in Clients : target'[d] = IF d = c THEN x ELSE target[d]
        /\ \A d \in Clients : ~IsWaiting(d, x)
        /\ UNCHANGED <<worker, fun_data, m_is_finish, m_fun_list>>
    BY <1>2 DEF Wait, TypeOK
  <2>2. OneWaiter'
    BY <2>1 DEF OneWaiter, IsWaiting
  <2>3. NoForgottenWaiter'
    BY <2>1, StillRemembered DEF NotifyPending
  <2>. QED
    BY <2>2, <2>3
<1>3. ASSUME NEW c \in Clients,
             RunNotify(c) \/ Stop(c) \/ StopNotifyAll(c) \/ StopJoin(c)
      PROVE  WaiterInv'
  <2>1. /\ \A d \in Clients : d # c => client'[d] = client[d]
        /\ client'[c] \in {"idle", "notifyAll", "join"}
        /\ UNCHANGED <<target, fun_data, m_is_finish, m_fun_list>>
    BY <1>3 DEF RunNotify, Stop, StopNotifyAll, StopJoin, TypeOK
  <2>2. \A w \in Workers : worker'[w] = worker[w] \/ (worker[w] = "asleep" /\ worker'[w] = "woken")
    BY <1>3 DEF RunNotify, Stop, StopNotifyAll, StopJoin, WakeOneWorker, SleepingWorkers, TypeOK
  <2>3. OneWaiter'
    BY <1>0, <2>1 DEF IsWaiting
  <2>4. NoForgottenWaiter'
    BY <2>1, <2>2, StillRemembered DEF NotifyPending
  <2>. QED
    BY <2>3, <2>4
<1>4. ASSUME NEW c \in Clients, WaitCheck(c) PROVE WaiterInv'
  <2>1. /\ \A d \in Clients : d # c => client'[d] = client[d] /\ target'[d] = target[d]
        /\ client[c] \in {"enter", "woken"}
        /\ \/ client'[c] = "idle"
           \/ ~m_is_finish[target[c]] /\ client'[c] = "asleep" /\ target'[c] = target[c]
        /\ UNCHANGED <<worker, fun_data, m_is_finish, m_fun_list>>
    BY <1>4 DEF WaitCheck, TypeOK
  <2>2. OneWaiter'
    BY <1>0, <2>1 DEF IsWaiting
  <2>3. NoForgottenWaiter'
    BY <2>1, StillRemembered DEF NotifyPending
  <2>. QED
    BY <2>2, <2>3
<1>5. ASSUME NEW w \in Workers,
             \/ OuterLoop(w) \/ EnterWait(w) \/ CheckStop(w) \/ InnerLoop(w)
             \/ CheckFinish(w) \/ ReadAbort(w)
             \/ \E threw \in BOOLEAN : EndRun(w, threw)
      PROVE  WaiterInv'
  <2>1. /\ worker[w] \notin {"notify", "terminateNotify"}
        /\ \A v \in Workers : v # w => worker'[v] = worker[v]
        /\ UNCHANGED <<client, target, fun_data, m_is_finish, m_fun_list>>
    BY <1>5 DEF OuterLoop, EnterWait, CheckStop, InnerLoop, CheckFinish, ReadAbort,
                EndRun, Goto, TypeOK
  <2>2. OneWaiter'
    BY <1>0, <2>1 DEF IsWaiting
  <2>3. NoForgottenWaiter'
    BY <2>1, StillRemembered DEF NotifyPending
  <2>. QED
    BY <2>2, <2>3
<1>6. ASSUME NEW w \in Workers, Take(w) PROVE WaiterInv'
  <2>1. /\ worker[w] = "take" /\ ListFree
        /\ \A v \in Workers : v # w => worker'[v] = worker[v] /\ fun_data'[v] = fun_data[v]
        /\ UNCHANGED <<client, target, m_is_finish>>
    BY <1>6 DEF Take, Goto, TypeOK
  <2>2. \A v \in Workers : worker[v] # "terminateNotify"
    BY <2>1, WorkersAssumption DEF LocalsOK, ListFree
  <2>3. OneWaiter'
    BY <1>0, <2>1 DEF IsWaiting
  <2>4. NoForgottenWaiter'
    BY <2>1, <2>2, StillRemembered DEF NotifyPending
  <2>. QED
    BY <2>3, <2>4
<1>7. ASSUME NEW w \in Workers, Finish(w) PROVE WaiterInv'
  <2>1. /\ worker[w] = "finish"
        /\ \A v \in Workers : worker'[v] = IF v = w THEN "notify" ELSE worker[v]
        /\ \A x \in Contexts : x # fun_data[w].ctx => m_is_finish'[x] = m_is_finish[x]
        /\ UNCHANGED <<client, target, fun_data, m_fun_list>>
    BY <1>7 DEF Finish, SetFinish, Goto, TypeOK
  <2>2. OneWaiter'
    BY <1>0, <2>1 DEF IsWaiting
  <2>3. NotifyPending(fun_data[w].ctx)'
    BY <2>1 DEF NotifyPending
  <2>4. \A x \in Contexts : NotifyPending(x) => NotifyPending(x)'
    BY <2>1 DEF NotifyPending
  <2>5. NoForgottenWaiter'
    BY <2>1, <2>3, <2>4 DEF NoForgottenWaiter, SleepingOn
  <2>. QED
    BY <2>2, <2>5
<1>8. ASSUME NEW w \in Workers, Terminate(w) PROVE WaiterInv'
  <2>1. /\ worker[w] = "terminate" /\ UNCHANGED <<client, target, fun_data, m_fun_list>>
        /\ \A v \in Workers : v # w => worker'[v] = worker[v]
        /\ IF m_fun_list = <<>>
             THEN UNCHANGED m_is_finish
             ELSE /\ worker'[w] = "terminateNotify"
                  /\ \A x \in Contexts :
                       x # Head(m_fun_list).ctx => m_is_finish'[x] = m_is_finish[x]
    BY <1>8 DEF Terminate, SetFinish, Goto, TypeOK
  <2>2. OneWaiter'
    BY <1>0, <2>1 DEF IsWaiting
  <2>3. m_fun_list # <<>> => NotifyPending(Head(m_fun_list).ctx)'
    BY <2>1 DEF NotifyPending
  <2>4. \A x \in Contexts : NotifyPending(x) => NotifyPending(x)'
    BY <2>1 DEF NotifyPending
  <2>5. NoForgottenWaiter'
    BY <2>1, <2>3, <2>4 DEF NoForgottenWaiter, SleepingOn
  <2>. QED
    BY <2>2, <2>5
<1>9. ASSUME NEW w \in Workers, NEW x \in Contexts, WakeOneClient(x),
             worker[w] \in {"notify", "terminateNotify"},
             \A v \in Workers : v # w => worker'[v] = worker[v] /\ fun_data'[v] = fun_data[v],
             \A y \in Contexts : y # x =>
               ~(worker[w] = "notify" /\ fun_data[w].ctx = y)
               /\ ~(worker[w] = "terminateNotify" /\ Head(m_fun_list).ctx = y),
             UNCHANGED <<target, m_is_finish, m_fun_list>>
      PROVE  WaiterInv'
  <2>1. /\ \A c \in Clients : client'[c] = client[c] \/ (client[c] = "asleep" /\ client'[c] = "woken")
        /\ \A c \in Clients : target[c] = x => client'[c] # "asleep"
    BY <1>9, WakeOneSays
  <2>2. OneWaiter'
    BY <1>0, <1>9, <2>1 DEF IsWaiting
  <2>3. \A y \in Contexts : y # x /\ NotifyPending(y) => NotifyPending(y)'
    BY <1>9 DEF NotifyPending
  <2>4. NoForgottenWaiter'
    BY <1>9, <2>1, <2>3 DEF NoForgottenWaiter, SleepingOn
  <2>. QED
    BY <2>2, <2>4
<1>10. ASSUME NEW w \in Workers, FinishNotify(w) PROVE WaiterInv'
  <2>1. fun_data[w].ctx \in Contexts
    BY <1>10 DEF FinishNotify, LocalsOK, Held, TypeOK, FunData
  <2>2. \A v \in Workers : v # w => worker'[v] = worker[v] /\ fun_data'[v] = fun_data[v]
    BY <1>10 DEF FinishNotify, Goto, TypeOK
  <2>. QED
    BY <1>9, <1>10, <2>1, <2>2 DEF FinishNotify
<1>11. ASSUME NEW w \in Workers, TerminateNotify(w) PROVE WaiterInv'
  <2>1. Head(m_fun_list) \in FunData
    BY <1>11 DEF TerminateNotify, LocalsOK, TypeOK
  <2>2. \A v \in Workers : v # w => worker'[v] = worker[v] /\ fun_data'[v] = fun_data[v]
    BY <1>11 DEF TerminateNotify, Goto, TypeOK
  <2>3. Head(m_fun_list).ctx \in Contexts
    BY <2>1 DEF FunData
  <2>. QED
    BY <1>9, <1>11, <2>2, <2>3 DEF TerminateNotify
<1>12. CASE SpuriousWakeup
  <2>1. /\ \A c \in Clients : client'[c] = client[c] \/ (client[c] = "asleep" /\ client'[c] = "woken")
        /\ \A w \in Workers : worker'[w] = worker[w] \/ (worker[w] = "asleep" /\ worker'[w] = "woken")
        /\ UNCHANGED <<target, fun_data, m_is_finish, m_fun_list>>
    BY <1>12 DEF SpuriousWakeup, SleepingWorkers, TypeOK
  <2>2. OneWaiter'
    BY <1>0, <2>1 DEF IsWaiting
  <2>3. NoForgottenWaiter'
    BY <2>1, StillRemembered DEF NotifyPending
  <2>. QED
    BY <2>2, <2>3
<1>13. CASE UNCHANGED vars
  BY <1>13 DEF vars, OneWaiter, IsWaiting, NoForgottenWaiter, SleepingOn, NotifyPending
<1>. QED
  BY <1>1, <1>2, <1>3, <1>4, <1>5, <1>6, <1>7, <1>8, <1>10, <1>11, <1>12, <1>13,
     StoppersAssumption
  DEF Next, ClientCall, ClientProgress, WorkerStep

LEMMA WaiterInit == Init => WaiterInv
  BY DEF Init, WaiterInv, OneWaiter, IsWaiting, NoForgottenWaiter

\* Where each context has one waiter, Wait sleeps on a finished context only while
\* Finish has still to notify: m_is_finish is set under the mutex under which Wait's
\* predicate reads it, and the notify_one after it finds the only sleeper.
THEOREM NoWaiterIsForgotten ==
  ASSUME ~SharedWait
  PROVE  Spec => []NoForgottenWaiter
<1>1. Init => TypeOK /\ LocalsOK /\ WaiterInv
  BY TypeInit, LocalsInit, WaiterInit
<1>2. TypeOK /\ LocalsOK /\ WaiterInv /\ [Next]_vars
      => (TypeOK /\ LocalsOK /\ WaiterInv)'
  BY TypeStep, LocalsStep, WaiterStep
<1>3. WaiterInv => NoForgottenWaiter
  BY DEF WaiterInv
<1>. QED
  BY <1>1, <1>2, <1>3, PTL DEF Spec

-----------------------------------------------------------------------------
(* Tasks.                                                                  *)

\* The pairs of a list, and what queueing and popping do to them.
Pairs(list) == {list[i] : i \in DOMAIN list}
Distinct(list) == \A i, j \in DOMAIN list : list[i].fun = list[j].fun => i = j

\* OnePlace in terms of the set of pairs in the list, with what a worker's
\* place in RunTask says of its task, and the context each pair carries.
PlaceInv ==
  /\ Distinct(m_fun_list)
  /\ \A p \in Pairs(m_fun_list) : fate[p.fun] = "queued" /\ home[p.fun] = p.ctx
  /\ \A t \in Tasks : fate[t] = "queued" => \E p \in Pairs(m_fun_list) : p.fun = t
  /\ \A w \in Workers : Held(w) =>
       /\ fate[fun_data[w].fun] \in {"taken", "running", "returned", "threw", "skipped"}
       /\ home[fun_data[w].fun] = fun_data[w].ctx
  /\ \A v, w \in Workers :
       Held(v) /\ Held(w) /\ fun_data[v].fun = fun_data[w].fun => v = w
  /\ \A t \in Tasks : fate[t] \in {"taken", "running"} =>
       \E w \in Workers : fun_data[w].fun = t
  /\ \A w \in Workers :
       /\ worker[w] = "ready" => fate[fun_data[w].fun] = "taken"
       /\ worker[w] = "run" => fate[fun_data[w].fun] = "running"
       /\ worker[w] = "skip" => fate[fun_data[w].fun] = "skipped"
       /\ worker[w] \in {"finish", "notify"}
            => fate[fun_data[w].fun] \in {"returned", "threw", "skipped"}

LEMMA QueuePairs ==
  ASSUME TypeOK, NEW t \in Tasks, NEW x \in Contexts, NEW h \in BOOLEAN,
         Queue(t, x, h), Distinct(m_fun_list),
         \A p \in Pairs(m_fun_list) : p.fun # t
  PROVE  /\ Pairs(m_fun_list') = Pairs(m_fun_list) \cup {[fun |-> t, ctx |-> x]}
         /\ Distinct(m_fun_list')
<1>. DEFINE e == [fun |-> t, ctx |-> x]
            list == m_fun_list
<1>1. e \in FunData /\ e.fun = t /\ list \in Seq(FunData)
  BY DEF TypeOK, FunData, Contexts
<1>2. m_fun_list' = IF h THEN <<e>> \o list ELSE Append(list, e)
  BY DEF Queue
<1>3. Len(list) \in Nat /\ DOMAIN list = 1 .. Len(list)
  BY <1>1
<1>. HIDE DEF e
<1>4. CASE h
  <2>1. /\ DOMAIN m_fun_list' = 1 .. Len(list) + 1
        /\ m_fun_list'[1] = e
        /\ \A i \in 1 .. Len(list) : m_fun_list'[i + 1] = list[i]
    BY <1>1, <1>2, <1>3, <1>4
  <2>2. \A i \in 2 .. Len(list) + 1 : i - 1 \in 1 .. Len(list) /\ m_fun_list'[i] = list[i - 1]
    BY <2>1, <1>3
  <2>3. Distinct(m_fun_list')
    <3>1. \A i \in 1 .. Len(list) : list[i] \in Pairs(m_fun_list)
      BY <1>3 DEF Pairs
    <3>2. \A i \in 2 .. Len(list) + 1 : m_fun_list'[i].fun # t
      BY <2>2, <3>1
    <3>3. \A i, j \in 2 .. Len(list) + 1 :
            m_fun_list'[i].fun = m_fun_list'[j].fun => i - 1 = j - 1
      BY <2>2, <1>3 DEF Distinct
    <3>4. \A i \in 1 .. Len(list) + 1 : i = 1 \/ i \in 2 .. Len(list) + 1
      BY <1>3
    <3>5. ASSUME NEW i \in 1 .. Len(list) + 1, NEW j \in 1 .. Len(list) + 1,
                 m_fun_list'[i].fun = m_fun_list'[j].fun
          PROVE  i = j
      <4>1. CASE i = 1 \/ j = 1
        BY <4>1, <3>2, <3>4, <3>5, <2>1, <1>1
      <4>2. CASE i # 1 /\ j # 1
        <5>1. i \in 2 .. Len(list) + 1 /\ j \in 2 .. Len(list) + 1
          BY <4>2, <3>4
        <5>. QED
          BY <5>1, <3>3, <3>5
      <4>. QED
        BY <4>1, <4>2
    <3>. QED
      BY <2>1, <3>5 DEF Distinct
  <2>4. \A i \in 1 .. Len(list) + 1 : m_fun_list'[i] \in Pairs(m_fun_list) \cup {e}
    <3>1. \A i \in 2 .. Len(list) + 1 : m_fun_list'[i] \in Pairs(m_fun_list)
      BY <2>2, <1>3 DEF Pairs
    <3>2. \A i \in 1 .. Len(list) + 1 : i = 1 \/ i \in 2 .. Len(list) + 1
      BY <1>3
    <3>. QED
      BY <3>1, <3>2, <2>1
  <2>5. \A i \in 1 .. Len(list) : i + 1 \in DOMAIN m_fun_list' /\ m_fun_list'[i + 1] = list[i]
    BY <2>1, <1>3
  <2>6. 1 \in DOMAIN m_fun_list' /\ m_fun_list'[1] = e
    BY <2>1, <1>3
  <2>7. Pairs(m_fun_list') \subseteq Pairs(m_fun_list) \cup {e}
    BY <2>1, <2>4 DEF Pairs
  <2>8. e \in Pairs(m_fun_list')
    BY <2>6 DEF Pairs
  <2>9. Pairs(m_fun_list) \subseteq Pairs(m_fun_list')
    BY <2>5, <1>3 DEF Pairs
  <2>. QED
    BY <2>3, <2>7, <2>8, <2>9 DEF e
<1>5. CASE ~h
  <2>1. /\ DOMAIN m_fun_list' = 1 .. Len(list) + 1
        /\ m_fun_list'[Len(list) + 1] = e
        /\ \A i \in 1 .. Len(list) : m_fun_list'[i] = list[i]
    BY <1>1, <1>2, <1>3, <1>5
  <2>2. Distinct(m_fun_list')
    BY <2>1, <1>1, <1>3 DEF Distinct, Pairs
  <2>3. Pairs(m_fun_list') = Pairs(m_fun_list) \cup {e}
    BY <2>1, <1>3 DEF Pairs
  <2>. QED
    BY <2>2, <2>3 DEF e
<1>. QED
  BY <1>4, <1>5

LEMMA PopPairs ==
  ASSUME TypeOK, m_fun_list # <<>>, m_fun_list' = Tail(m_fun_list),
         Distinct(m_fun_list)
  PROVE  /\ Head(m_fun_list) \in Pairs(m_fun_list)
         /\ Pairs(m_fun_list) = Pairs(m_fun_list') \cup {Head(m_fun_list)}
         /\ \A p \in Pairs(m_fun_list') : p.fun # Head(m_fun_list).fun
         /\ Distinct(m_fun_list')
<1>. DEFINE list == m_fun_list
<1>1. list \in Seq(FunData) /\ Len(list) \in Nat /\ Len(list) >= 1
      /\ DOMAIN list = 1 .. Len(list)
  BY DEF TypeOK
<1>2. /\ DOMAIN m_fun_list' = 1 .. Len(list) - 1
      /\ \A i \in 1 .. Len(list) - 1 : m_fun_list'[i] = list[i + 1]
      /\ Head(list) = list[1]
  BY <1>1
<1>3. \A i \in 2 .. Len(list) : i - 1 \in 1 .. Len(list) - 1 /\ m_fun_list'[i - 1] = list[i]
  BY <1>1, <1>2
<1>4. Distinct(m_fun_list')
  BY <1>1, <1>2 DEF Distinct
<1>5. \A p \in Pairs(m_fun_list') : p.fun # Head(m_fun_list).fun
  BY <1>1, <1>2 DEF Distinct, Pairs
<1>6. Pairs(m_fun_list) = Pairs(m_fun_list') \cup {Head(m_fun_list)}
  <2>1. ASSUME NEW i \in 1 .. Len(list)
        PROVE  list[i] \in Pairs(m_fun_list') \cup {Head(m_fun_list)}
    <3>1. CASE i = 1
      BY <3>1, <1>2
    <3>2. CASE i # 1
      <4>1. i \in 2 .. Len(list)
        BY <3>2, <1>1
      <4>2. i - 1 \in DOMAIN m_fun_list' /\ m_fun_list'[i - 1] = list[i]
        BY <4>1, <1>2, <1>3
      <4>. QED
        BY <4>2 DEF Pairs
    <3>. QED
      BY <3>1, <3>2
  <2>2. ASSUME NEW i \in 1 .. Len(list) - 1
        PROVE  m_fun_list'[i] \in Pairs(m_fun_list)
    <3>1. i + 1 \in DOMAIN list /\ m_fun_list'[i] = list[i + 1]
      BY <1>1, <1>2
    <3>. QED
      BY <3>1 DEF Pairs
  <2>3. Head(m_fun_list) \in Pairs(m_fun_list)
    BY <1>1, <1>2 DEF Pairs
  <2>4. Pairs(m_fun_list) \subseteq Pairs(m_fun_list') \cup {Head(m_fun_list)}
    BY <2>1, <1>1 DEF Pairs
  <2>5. Pairs(m_fun_list') \subseteq Pairs(m_fun_list)
    BY <2>2, <1>2 DEF Pairs
  <2>. QED
    BY <2>3, <2>4, <2>5
<1>. QED
  BY <1>4, <1>5, <1>6

LEMMA PlaceImpliesOnePlace == PlaceInv => OnePlace
<1>. SUFFICES ASSUME PlaceInv PROVE OnePlace
  OBVIOUS
<1>1. \A i, j \in DOMAIN m_fun_list : m_fun_list[i].fun = m_fun_list[j].fun => i = j
  BY DEF PlaceInv, Distinct
<1>2. \A i \in DOMAIN m_fun_list : fate[m_fun_list[i].fun] = "queued"
  BY DEF PlaceInv, Pairs
<1>3. \A t \in Tasks :
        fate[t] = "queued" => \E i \in DOMAIN m_fun_list : m_fun_list[i].fun = t
  BY DEF PlaceInv, Pairs
<1>4. /\ \A w \in Workers : Held(w) =>
           fate[fun_data[w].fun] \in {"taken", "running", "returned", "threw", "skipped"}
      /\ \A v, w \in Workers :
           Held(v) /\ Held(w) /\ fun_data[v].fun = fun_data[w].fun => v = w
      /\ \A t \in Tasks : fate[t] \in {"taken", "running"} =>
           \E w \in Workers : fun_data[w].fun = t
  BY DEF PlaceInv
<1>5. \A t \in Tasks :
        /\ fate[t] = "queued" => \E i \in DOMAIN m_fun_list : m_fun_list[i].fun = t
        /\ fate[t] \in {"taken", "running"} => \E w \in Workers : fun_data[w].fun = t
  BY <1>3, <1>4, Zenon
<1>. QED
  BY <1>1, <1>2, <1>4, <1>5, Zenon DEF OnePlace

LEMMA PlaceStep ==
  ASSUME TypeOK, LocalsOK, PlaceInv, [Next]_vars
  PROVE  PlaceInv'
<1>. USE DEF poolVars, contextVars, workerVars, clientVars, history
<1>1. ASSUME NEW c \in Clients, NEW t \in Tasks, NEW x \in Contexts,
             NEW h \in BOOLEAN, Queue(t, x, h), fate[t] = "new",
             UNCHANGED workerVars
      PROVE  PlaceInv'
  <2>1. \A p \in Pairs(m_fun_list) : p.fun # t
    BY <1>1 DEF PlaceInv
  <2>2. /\ Pairs(m_fun_list') = Pairs(m_fun_list) \cup {[fun |-> t, ctx |-> x]}
        /\ Distinct(m_fun_list')
    BY <1>1, <2>1, QueuePairs DEF PlaceInv
  <2>3. /\ home' = [home EXCEPT ![t] = x]
        /\ fate' = [fate EXCEPT ![t] = "queued"]
    BY <1>1 DEF Queue
  <2>4. \A w \in Workers : Held(w) => fun_data[w].fun # t
    BY <1>1 DEF PlaceInv
  <2>5. \A p \in Pairs(m_fun_list') : fate'[p.fun] = "queued" /\ home'[p.fun] = p.ctx
    BY <2>1, <2>2, <2>3 DEF PlaceInv, TypeOK, Pairs
  <2>6. \A u \in Tasks : u # t => fate'[u] = fate[u] /\ home'[u] = home[u]
    BY <2>3 DEF TypeOK
  <2>7. fate'[t] = "queued"
    BY <2>3 DEF TypeOK
  <2>8. ASSUME NEW u \in Tasks, fate'[u] = "queued"
        PROVE  \E p \in Pairs(m_fun_list') : p.fun = u
    <3>1. CASE u = t
      <4>1. [fun |-> t, ctx |-> x] \in Pairs(m_fun_list')
        BY <2>2
      <4>. QED
        BY <4>1, <3>1
    <3>2. CASE u # t
      BY <3>2, <2>2, <2>6, <2>8 DEF PlaceInv
    <3>. QED
      BY <3>1, <3>2
  <2>9. \A w \in Workers : Held(w) =>
          /\ fun_data[w].fun \in Tasks
          /\ fate'[fun_data[w].fun] = fate[fun_data[w].fun]
          /\ home'[fun_data[w].fun] = home[fun_data[w].fun]
    BY <2>4, <2>6 DEF TypeOK, Held, FunData
  <2>10. UNCHANGED <<worker, fun_data>>
    BY <1>1
  <2>11. \A w \in Workers : Held(w)' <=> Held(w)
    BY <2>10 DEF Held
  <2>12. \A w \in Workers :
           worker[w] \in {"ready", "skip", "run", "finish", "notify"} => Held(w)
    BY DEF LocalsOK
  <2>13. \A u \in Tasks : fate'[u] \in {"taken", "running"} =>
           \E w \in Workers : fun_data[w].fun = u
    BY <2>6, <2>7 DEF PlaceInv
  <2>. QED
    BY <2>2, <2>5, <2>8, <2>9, <2>10, <2>11, <2>12, <2>13 DEF PlaceInv
<1>2. ASSUME NEW w \in Workers, Take(w), m_fun_list # <<>>, ~m_stop
      PROVE  PlaceInv'
  <2>. DEFINE p == Head(m_fun_list)
  <2>1. /\ p \in Pairs(m_fun_list)
        /\ Pairs(m_fun_list) = Pairs(m_fun_list') \cup {p}
        /\ \A q \in Pairs(m_fun_list') : q.fun # p.fun
        /\ Distinct(m_fun_list')
    BY <1>2, PopPairs DEF Take, PlaceInv
  <2>2. /\ fun_data' = [fun_data EXCEPT ![w] = p]
        /\ fate' = [fate EXCEPT ![p.fun] = "taken"]
        /\ worker' = [worker EXCEPT ![w] = "ready"]
        /\ home' = home
        /\ worker[w] = "take"
    BY <1>2 DEF Take, Goto
  <2>3. p \in FunData /\ p.fun \in Tasks
    <3>1. p \in FunData
      BY <1>2 DEF TypeOK
    <3>. QED
      BY <3>1 DEF FunData
  <2>4. fate[p.fun] = "queued" /\ home[p.fun] = p.ctx
    BY <2>1 DEF PlaceInv
  <2>5. \A v \in Workers : Held(v) => fun_data[v].fun # p.fun
    BY <2>4 DEF PlaceInv
  <2>6. ~Held(w)
    BY <2>2 DEF LocalsOK
  <2>. HIDE DEF p
  <2>7. \A u \in Tasks : u # p.fun => fate'[u] = fate[u]
    BY <2>2 DEF TypeOK
  <2>8. fate'[p.fun] = "taken" /\ fun_data'[w] = p /\ worker'[w] = "ready"
    BY <2>2, <2>3 DEF TypeOK
  <2>9. \A v \in Workers : v # w => worker'[v] = worker[v] /\ fun_data'[v] = fun_data[v]
    BY <2>2 DEF TypeOK
  <2>10. \A v \in Workers : v # w => (Held(v)' <=> Held(v))
    BY <2>9 DEF Held
  <2>11. \A v \in Workers : Held(v) => fun_data[v].fun \in Tasks
    BY DEF TypeOK, Held, FunData
  <2>12. \A q \in Pairs(m_fun_list') :
           fate'[q.fun] = "queued" /\ home'[q.fun] = q.ctx
    <3>. SUFFICES ASSUME NEW q \in Pairs(m_fun_list')
                  PROVE  fate'[q.fun] = "queued" /\ home'[q.fun] = q.ctx
      OBVIOUS
    <3>1. q \in Pairs(m_fun_list) /\ q.fun # p.fun
      BY <2>1
    <3>. QED
      BY <3>1, <2>2 DEF PlaceInv, TypeOK
  <2>13. \A u \in Tasks : fate'[u] = "queued" => \E q \in Pairs(m_fun_list') : q.fun = u
    BY <2>1, <2>7, <2>8 DEF PlaceInv
  <2>14. \A v \in Workers : Held(v)' =>
           /\ fate'[fun_data'[v].fun]
                \in {"taken", "running", "returned", "threw", "skipped"}
           /\ home'[fun_data'[v].fun] = fun_data'[v].ctx
    BY <2>2, <2>4, <2>5, <2>7, <2>8, <2>9, <2>10, <2>11 DEF PlaceInv
  <2>15. \A u, v \in Workers :
           Held(u)' /\ Held(v)' /\ fun_data'[u].fun = fun_data'[v].fun => u = v
    BY <2>5, <2>8, <2>9, <2>10 DEF PlaceInv
  <2>16. \A u \in Tasks : fate'[u] \in {"taken", "running"} =>
           \E v \in Workers : fun_data'[v].fun = u
    <3>1. fun_data[w].fun \notin Tasks
      BY <2>6, NobodyAssumption DEF Held, NoFunData
    <3>. QED
      BY <3>1, <2>7, <2>8, <2>9 DEF PlaceInv
  <2>17. \A v \in Workers :
           worker[v] \in {"ready", "skip", "run", "finish", "notify"} => Held(v)
    BY DEF LocalsOK
  <2>. QED
    BY <2>1, <2>5, <2>7, <2>8, <2>9, <2>11, <2>12, <2>13, <2>14, <2>15, <2>16, <2>17
    DEF PlaceInv
<1>3. ASSUME NEW w \in Workers, Held(w), NEW s \in WorkerStates, NEW f \in Fates,
             worker' = [worker EXCEPT ![w] = s],
             fate' = [fate EXCEPT ![fun_data[w].fun] = f],
             UNCHANGED <<m_fun_list, fun_data, home>>,
             \/ worker[w] = "ready" /\ s = "run" /\ f = "running"
             \/ worker[w] = "ready" /\ s = "skip" /\ f = "skipped"
             \/ worker[w] = "run" /\ s = "finish" /\ f \in {"returned", "threw"}
      PROVE  PlaceInv'
  <2>. DEFINE t == fun_data[w].fun
  <2>1. t \in Tasks /\ fate[t] \in {"taken", "running"}
    BY <1>3 DEF PlaceInv, TypeOK, Held, FunData
  <2>2. \A v \in Workers : v # w /\ Held(v) => fun_data[v].fun # t
    BY <1>3 DEF PlaceInv
  <2>3. \A p \in Pairs(m_fun_list) : p.fun # t
    BY <2>1 DEF PlaceInv
  <2>4. \A v \in Workers : v # w => worker'[v] = worker[v]
    BY <1>3 DEF TypeOK
  <2>. QED
    BY <1>3, <2>1, <2>2, <2>3, <2>4 DEF PlaceInv, TypeOK, LocalsOK, Held
<1>4. ASSUME NEW w \in Workers, FinishNotify(w) PROVE PlaceInv'
  <2>1. /\ worker[w] = "notify"
        /\ fun_data' = [fun_data EXCEPT ![w] = NoFunData]
        /\ worker' = [worker EXCEPT ![w] = "inner"]
        /\ UNCHANGED <<m_fun_list, home, fate>>
    BY <1>4 DEF FinishNotify, Goto
  <2>2. fate[fun_data[w].fun] \in {"returned", "threw", "skipped"}
    BY <2>1 DEF PlaceInv
  <2>. QED
    BY <2>1, <2>2 DEF PlaceInv, TypeOK, LocalsOK, Held
<1>5. ASSUME UNCHANGED <<m_fun_list, fun_data, home, fate>>,
             \A w \in Workers :
               \/ worker'[w] = worker[w]
               \/ worker'[w] \notin {"ready", "skip", "run", "finish", "notify"}
               \/ worker[w] = "skip" /\ worker'[w] = "finish"
               \/ worker[w] = "finish" /\ worker'[w] = "notify"
      PROVE  PlaceInv'
  BY <1>5 DEF PlaceInv, Held
<1>6. ASSUME NEW c \in Clients, ClientCall(c) \/ ClientProgress(c) PROVE PlaceInv'
  <2>1. ASSUME NEW t \in Tasks, NEW h \in BOOLEAN, Run(c, t, h) PROVE PlaceInv'
    BY <2>1, <1>1 DEF Run, Contexts
  <2>2. ASSUME NEW t \in Tasks, NEW x \in Contexts, NEW h \in BOOLEAN,
               RunOnContext(c, t, x, h)
        PROVE  PlaceInv'
    BY <2>2, <1>1 DEF RunOnContext
  <2>3. ASSUME \/ \E x \in Contexts : Wait(c, x)
               \/ WaitCheck(c) \/ StopJoin(c) \/ RunNotify(c) \/ StopNotifyAll(c)
        PROVE  PlaceInv'
    BY <2>3, <1>5 DEF Wait, WaitCheck, StopJoin, RunNotify, WakeOneWorker,
                      SleepingWorkers, StopNotifyAll, TypeOK
  <2>. QED
    BY <1>6, <2>1, <2>2, <2>3 DEF ClientCall, ClientProgress
<1>7. ASSUME NEW c \in Clients, Stop(c) PROVE PlaceInv'
  BY <1>7, <1>5 DEF Stop
<1>8. ASSUME NEW w \in Workers, WorkerStep(w) PROVE PlaceInv'
  <2>1. CASE \/ OuterLoop(w) \/ EnterWait(w) \/ CheckStop(w) \/ InnerLoop(w)
             \/ ReadAbort(w) \/ Finish(w) \/ Terminate(w) \/ TerminateNotify(w)
             \/ Take(w) /\ (m_fun_list = <<>> \/ m_stop)
    <3>1. UNCHANGED <<m_fun_list, fun_data, home, fate>>
      BY <2>1 DEF OuterLoop, EnterWait, CheckStop, InnerLoop, ReadAbort, Finish,
                  Terminate, TerminateNotify, Take
    <3>2. \E s \in WorkerStates :
            /\ worker' = [worker EXCEPT ![w] = s]
            /\ \/ s \notin {"ready", "skip", "run", "finish", "notify"}
               \/ worker[w] = "skip" /\ s = "finish"
               \/ worker[w] = "finish" /\ s = "notify"
      BY <2>1 DEF OuterLoop, EnterWait, CheckStop, InnerLoop, ReadAbort, Finish,
                  Terminate, TerminateNotify, Take, Goto, WorkerStates
    <3>. QED
      BY <3>1, <3>2, <1>5 DEF TypeOK
  <2>2. CASE Take(w) /\ m_fun_list # <<>> /\ ~m_stop
    BY <2>2, <1>2
  <2>3. CASE CheckFinish(w) \/ \E threw \in BOOLEAN : EndRun(w, threw)
    <3>1. Held(w)
      BY <2>3 DEF CheckFinish, EndRun, LocalsOK
    <3>. QED
      BY <2>3, <3>1, <1>3 DEF CheckFinish, EndRun, Goto, WorkerStates, Fates
  <2>4. CASE FinishNotify(w)
    BY <2>4, <1>4
  <2>. QED
    BY <1>8, <2>1, <2>2, <2>3, <2>4 DEF WorkerStep
<1>9. CASE SpuriousWakeup
  BY <1>9, <1>5 DEF SpuriousWakeup, SleepingWorkers, TypeOK
<1>10. CASE UNCHANGED vars
  BY <1>10, <1>5 DEF vars
<1>. QED
  BY <1>6, <1>7, <1>8, <1>9, <1>10, StoppersAssumption DEF Next

LEMMA PlaceInit == Init => PlaceInv
<1>. SUFFICES ASSUME Init PROVE PlaceInv
  OBVIOUS
<1>1. DOMAIN m_fun_list = {}
  BY DEF Init
<1>2. \A w \in Workers : ~Held(w) /\ worker[w] = "outer"
  BY DEF Init, Held
<1>. QED
  BY <1>1, <1>2 DEF Init, PlaceInv, Distinct, Pairs

LEMMA PlaceInvariant == Spec => []PlaceInv
<1>1. Init => TypeOK /\ LocalsOK /\ PlaceInv
  BY TypeInit, LocalsInit, PlaceInit
<1>2. TypeOK /\ LocalsOK /\ PlaceInv /\ [Next]_vars
      => (TypeOK /\ LocalsOK /\ PlaceInv)'
  BY TypeStep, LocalsStep, PlaceStep
<1>. QED
  BY <1>1, <1>2, PTL DEF Spec

\* No interleaving of submissions, at either end of the list, and of workers
\* gives a task to two workers or drops it.
THEOREM TasksInOnePlace == Spec => []OnePlace
  BY PlaceInvariant, PlaceImpliesOnePlace, PTL

-----------------------------------------------------------------------------
(* Verdicts.                                                               *)

\* Verdict a is earned on context x.
Due(x, a) ==
  \E t \in Tasks :
    /\ home[t] = x
    /\ IF a THEN fate[t] = "threw" \/ (fate[t] = "queued" /\ m_stop)
            ELSE fate[t] = "returned"

\* Due(x, a) in the next state, for the x and a of this one.
DueNext(x, a) ==
  \E t \in Tasks :
    /\ home'[t] = x
    /\ IF a THEN fate'[t] = "threw" \/ (fate'[t] = "queued" /\ m_stop')
            ELSE fate'[t] = "returned"

\* A verdict is earned when it is reported, and already when a worker is about
\* to report it; a task is skipped only on a finished context.
VerdictInv ==
  /\ \A x \in Contexts : m_is_finish[x] => Due(x, m_is_abort[x])
  /\ \A w \in Workers : worker[w] = "skip" => m_is_finish[fun_data[w].ctx]
  /\ \A w \in Workers : worker[w] = "finish" => Due(fun_data[w].ctx, abort[w])

\* What earns a verdict lasts: a function that is over stays over, and after
\* Stop nothing leaves the list.
LEMMA FateLasts ==
  ASSUME TypeOK, LocalsOK, PlaceInv, [Next]_vars, NEW t \in Tasks,
         fate[t] \in {"returned", "threw"} \/ (fate[t] = "queued" /\ m_stop)
  PROVE  fate'[t] = fate[t] /\ home'[t] = home[t] /\ (m_stop => m_stop')
<1>. USE DEF poolVars, history
<1>1. ASSUME NEW c \in Clients, NEW u \in Tasks, NEW x \in Contexts,
             NEW h \in BOOLEAN, Run(c, u, h) \/ RunOnContext(c, u, x, h)
      PROVE  fate'[t] = fate[t] /\ home'[t] = home[t] /\ (m_stop => m_stop')
  BY <1>1 DEF Run, RunOnContext, Queue, TypeOK
<1>2. ASSUME NEW c \in Clients,
             (\E x \in Contexts : Wait(c, x)) \/ ClientProgress(c) \/ Stop(c)
      PROVE  fate'[t] = fate[t] /\ home'[t] = home[t] /\ (m_stop => m_stop')
  BY <1>2 DEF Wait, ClientProgress, RunNotify, WaitCheck, StopNotifyAll, StopJoin, Stop
<1>3. ASSUME NEW w \in Workers, CheckFinish(w) \/ \E threw \in BOOLEAN : EndRun(w, threw)
      PROVE  fate'[t] = fate[t] /\ home'[t] = home[t] /\ (m_stop => m_stop')
  <2>1. fate[fun_data[w].fun] \in {"taken", "running"}
    BY <1>3 DEF CheckFinish, EndRun, PlaceInv
  <2>. QED
    BY <1>3, <2>1 DEF CheckFinish, EndRun, TypeOK
<1>4. ASSUME NEW w \in Workers, Take(w)
      PROVE  fate'[t] = fate[t] /\ home'[t] = home[t] /\ (m_stop => m_stop')
  <2>1. CASE m_fun_list # <<>> /\ ~m_stop
    <3>1. Head(m_fun_list) \in Pairs(m_fun_list)
      BY <1>4, <2>1, PopPairs DEF Take, PlaceInv
    <3>2. fate[Head(m_fun_list).fun] = "queued"
      BY <3>1 DEF PlaceInv
    <3>. QED
      BY <1>4, <2>1, <3>2 DEF Take, TypeOK
  <2>2. CASE m_fun_list = <<>> \/ m_stop
    BY <1>4, <2>2 DEF Take
  <2>. QED
    BY <2>1, <2>2
<1>5. ASSUME NEW w \in Workers,
             \/ OuterLoop(w) \/ EnterWait(w) \/ CheckStop(w) \/ InnerLoop(w)
             \/ ReadAbort(w) \/ Finish(w) \/ FinishNotify(w)
             \/ Terminate(w) \/ TerminateNotify(w)
      PROVE  fate'[t] = fate[t] /\ home'[t] = home[t] /\ (m_stop => m_stop')
  BY <1>5 DEF OuterLoop, EnterWait, CheckStop, InnerLoop, ReadAbort, Finish,
              FinishNotify, Terminate, TerminateNotify
<1>6. CASE SpuriousWakeup
  BY <1>6 DEF SpuriousWakeup
<1>7. CASE UNCHANGED vars
  BY <1>7 DEF vars
<1>. QED
  BY <1>1, <1>2, <1>3, <1>4, <1>5, <1>6, <1>7, StoppersAssumption
  DEF Next, ClientCall, WorkerStep, Contexts

LEMMA DueLasts ==
  ASSUME TypeOK, LocalsOK, PlaceInv, [Next]_vars,
         NEW x, NEW a \in BOOLEAN, Due(x, a)
  PROVE  DueNext(x, a)
<1>1. PICK t \in Tasks :
        /\ home[t] = x
        /\ IF a THEN fate[t] = "threw" \/ (fate[t] = "queued" /\ m_stop)
                ELSE fate[t] = "returned"
  BY DEF Due
<1>2. fate'[t] = fate[t] /\ home'[t] = home[t] /\ (m_stop => m_stop')
  BY <1>1, FateLasts
<1>. QED
  BY <1>1, <1>2 DEF DueNext

LEMMA VerdictStep ==
  ASSUME TypeOK, LocalsOK, LeaveOnStop, PlaceInv, VerdictInv, [Next]_vars
  PROVE  VerdictInv'
<1>. USE DEF poolVars, contextVars, workerVars, clientVars, history
<1>1. ASSUME UNCHANGED <<contextVars, fun_data>>,
             \A w \in Workers : worker'[w] \in {"skip", "finish"} =>
               worker'[w] = worker[w] /\ abort'[w] = abort[w]
      PROVE  VerdictInv'
  <2>1. \A x \in Contexts : m_is_finish'[x] => DueNext(x, m_is_abort'[x])
    BY <1>1, DueLasts DEF VerdictInv, TypeOK
  <2>2. \A w \in Workers : worker'[w] = "finish" => DueNext(fun_data'[w].ctx, abort'[w])
    BY <1>1, DueLasts DEF VerdictInv, TypeOK
  <2>. QED
    BY <1>1, <2>1, <2>2 DEF VerdictInv, Due, DueNext
<1>2. ASSUME NEW w \in Workers, Take(w) \/ FinishNotify(w) PROVE VerdictInv'
  <2>1. UNCHANGED <<m_is_finish, m_is_abort, abort>>
    BY <1>2 DEF Take, FinishNotify
  <2>2. /\ \A v \in Workers : v # w => worker'[v] = worker[v] /\ fun_data'[v] = fun_data[v]
        /\ worker'[w] \notin {"skip", "finish"}
    BY <1>2 DEF Take, FinishNotify, Goto, TypeOK
  <2>3. \A x \in Contexts : m_is_finish'[x] => DueNext(x, m_is_abort'[x])
    BY <2>1, DueLasts DEF VerdictInv, TypeOK
  <2>4. \A v \in Workers : worker'[v] = "finish" => DueNext(fun_data'[v].ctx, abort'[v])
    BY <2>1, <2>2, DueLasts DEF VerdictInv, TypeOK
  <2>. QED
    BY <2>1, <2>2, <2>3, <2>4 DEF VerdictInv, Due, DueNext
<1>3. ASSUME NEW w \in Workers, CheckFinish(w) PROVE VerdictInv'
  <2>1. UNCHANGED <<m_is_finish, m_is_abort, abort, fun_data>>
    BY <1>3 DEF CheckFinish
  <2>2. /\ \A v \in Workers : v # w => worker'[v] = worker[v]
        /\ worker'[w] # "finish"
        /\ worker'[w] = "skip" => m_is_finish[fun_data[w].ctx]
    BY <1>3 DEF CheckFinish, Goto, TypeOK
  <2>3. \A x \in Contexts : m_is_finish'[x] => DueNext(x, m_is_abort'[x])
    BY <2>1, DueLasts DEF VerdictInv, TypeOK
  <2>4. \A v \in Workers : worker'[v] = "finish" => DueNext(fun_data'[v].ctx, abort'[v])
    BY <2>1, <2>2, DueLasts DEF VerdictInv, TypeOK
  <2>. QED
    BY <2>1, <2>2, <2>3, <2>4 DEF VerdictInv, Due, DueNext
<1>4. ASSUME NEW w \in Workers, ReadAbort(w) \/ \E threw \in BOOLEAN : EndRun(w, threw)
      PROVE  VerdictInv'
  <2>1. UNCHANGED <<m_is_finish, m_is_abort, fun_data>>
    BY <1>4 DEF ReadAbort, EndRun
  <2>2. /\ \A v \in Workers : v # w => worker'[v] = worker[v] /\ abort'[v] = abort[v]
        /\ worker'[w] = "finish"
    BY <1>4 DEF ReadAbort, EndRun, Goto, TypeOK
  <2>3. Held(w) /\ fun_data[w] \in FunData
    BY <1>4 DEF ReadAbort, EndRun, LocalsOK, TypeOK, Held
  <2>4. DueNext(fun_data'[w].ctx, abort'[w])
    <3>1. CASE ReadAbort(w)
      <4>1. /\ m_is_finish[fun_data[w].ctx]
            /\ abort'[w] = m_is_abort[fun_data[w].ctx]
        BY <3>1 DEF ReadAbort, VerdictInv, TypeOK
      <4>2. fun_data[w].ctx \in Contexts
        BY <2>3 DEF FunData
      <4>. QED
        BY <4>1, <4>2, <2>1, DueLasts DEF VerdictInv, TypeOK
    <3>2. ASSUME NEW threw \in BOOLEAN, EndRun(w, threw)
          PROVE  DueNext(fun_data'[w].ctx, abort'[w])
      <4>1. /\ fun_data[w].fun \in Tasks
            /\ home[fun_data[w].fun] = fun_data[w].ctx
        BY <2>3 DEF FunData, PlaceInv
      <4>2. /\ abort'[w] = threw
            /\ fate'[fun_data[w].fun] = IF threw THEN "threw" ELSE "returned"
            /\ home' = home
        BY <3>2, <4>1 DEF EndRun, TypeOK
      <4>. QED
        BY <4>1, <4>2, <2>1 DEF DueNext
    <3>. QED
      BY <1>4, <3>1, <3>2
  <2>5. \A x \in Contexts : m_is_finish'[x] => DueNext(x, m_is_abort'[x])
    BY <2>1, DueLasts DEF VerdictInv, TypeOK
  <2>6. \A v \in Workers : worker'[v] = "finish" => DueNext(fun_data'[v].ctx, abort'[v])
    BY <2>1, <2>2, <2>4, DueLasts DEF VerdictInv, TypeOK
  <2>. QED
    BY <2>1, <2>2, <2>5, <2>6 DEF VerdictInv, Due, DueNext
<1>5. ASSUME NEW w \in Workers, NEW y \in Contexts, NEW a \in BOOLEAN,
             SetFinish(y, a), Due(y, a),
             UNCHANGED <<fun_data, abort>>,
             \A v \in Workers : worker'[v] \in {"skip", "finish"} => worker'[v] = worker[v]
      PROVE  VerdictInv'
  <2>1. \A x \in Contexts : x # y =>
          m_is_finish'[x] = m_is_finish[x] /\ m_is_abort'[x] = m_is_abort[x]
    BY <1>5 DEF SetFinish, TypeOK
  <2>2. m_is_finish'[y] /\ m_is_abort'[y] = a
    BY <1>5 DEF SetFinish, TypeOK
  <2>3. \A x \in Contexts : m_is_finish'[x] => DueNext(x, m_is_abort'[x])
    BY <1>5, <2>1, <2>2, DueLasts DEF VerdictInv, TypeOK
  <2>4. \A v \in Workers : worker'[v] = "finish" => DueNext(fun_data'[v].ctx, abort'[v])
    BY <1>5, DueLasts DEF VerdictInv, TypeOK
  <2>5. \A v \in Workers : worker'[v] = "skip" => fun_data[v].ctx \in Contexts
    BY <1>5 DEF LocalsOK, TypeOK, Held, FunData
  <2>. QED
    BY <1>5, <2>1, <2>2, <2>3, <2>4, <2>5 DEF VerdictInv, Due, DueNext
<1>6. ASSUME NEW w \in Workers, Finish(w) PROVE VerdictInv'
  <2>1. /\ fun_data[w].ctx \in Contexts
        /\ abort[w] \in BOOLEAN
    BY <1>6 DEF Finish, LocalsOK, TypeOK, Held, FunData
  <2>. QED
    BY <1>6, <2>1, <1>5 DEF Finish, Goto, TypeOK, VerdictInv
<1>7. ASSUME NEW w \in Workers, Terminate(w), m_fun_list # <<>>, m_stop
      PROVE  VerdictInv'
  <2>1. Head(m_fun_list) \in FunData /\ Head(m_fun_list) \in Pairs(m_fun_list)
    BY <1>7 DEF TypeOK, Pairs
  <2>2. Due(Head(m_fun_list).ctx, TRUE)
    BY <1>7, <2>1 DEF PlaceInv, Due, FunData
  <2>3. Head(m_fun_list).ctx \in Contexts
    BY <2>1 DEF FunData
  <2>. QED
    BY <1>7, <2>2, <2>3, <1>5 DEF Terminate, Goto, TypeOK
<1>8. ASSUME NEW c \in Clients, ClientCall(c) \/ ClientProgress(c) \/ Stop(c)
      PROVE  VerdictInv'
  <2>1. UNCHANGED <<contextVars, fun_data, abort>>
    BY <1>8 DEF ClientCall, ClientProgress, Run, RunOnContext, Wait, RunNotify,
                WaitCheck, StopNotifyAll, StopJoin, Stop
  <2>2. \A w \in Workers : worker'[w] \in {"skip", "finish"} => worker'[w] = worker[w]
    BY <1>8 DEF ClientCall, ClientProgress, Run, RunOnContext, Wait, RunNotify,
                WaitCheck, StopNotifyAll, StopJoin, Stop, WakeOneWorker,
                SleepingWorkers, TypeOK
  <2>. QED
    BY <2>1, <2>2, <1>1
<1>9. ASSUME NEW w \in Workers,
             \/ OuterLoop(w) \/ EnterWait(w) \/ CheckStop(w) \/ InnerLoop(w)
             \/ TerminateNotify(w) \/ (Terminate(w) /\ m_fun_list = <<>>)
      PROVE  VerdictInv'
  <2>1. UNCHANGED <<contextVars, fun_data, abort>>
    BY <1>9 DEF OuterLoop, EnterWait, CheckStop, InnerLoop, TerminateNotify, Terminate
  <2>2. \A v \in Workers : worker'[v] \in {"skip", "finish"} => worker'[v] = worker[v]
    BY <1>9 DEF OuterLoop, EnterWait, CheckStop, InnerLoop, TerminateNotify,
                Terminate, Goto, TypeOK
  <2>. QED
    BY <2>1, <2>2, <1>1
<1>10. CASE SpuriousWakeup \/ UNCHANGED vars
  BY <1>10, <1>1 DEF SpuriousWakeup, SleepingWorkers, vars, TypeOK
<1>11. ASSUME NEW w \in Workers, Terminate(w) PROVE m_stop
  BY <1>11 DEF Terminate, LeaveOnStop
<1>. HIDE DEF VerdictInv
<1>. QED
  BY <1>2, <1>3, <1>4, <1>6, <1>7, <1>8, <1>9, <1>10, <1>11, StoppersAssumption
  DEF Next, WorkerStep

LEMMA VerdictInit == Init => VerdictInv
  BY DEF Init, VerdictInv

LEMMA VerdictInvariant == Spec => []VerdictInv
<1>. DEFINE Inv == TypeOK /\ LocalsOK /\ NotifyInv /\ PlaceInv /\ VerdictInv
<1>1. Init => Inv
  BY TypeInit, LocalsInit, NotifyInit, PlaceInit, VerdictInit
<1>2. Inv /\ [Next]_vars => Inv'
  <2>1. NotifyInv => LeaveOnStop
    BY DEF NotifyInv
  <2>. QED
    BY <2>1, TypeStep, LocalsStep, NotifyStep, PlaceStep, VerdictStep
<1>. QED
  BY <1>1, <1>2, PTL DEF Spec

\* However many tasks share a context, and however their ends race, a context
\* never reports a success that no function on it had ...
THEOREM SuccessesAreEarned == Spec => []SuccessIsEarned
<1>1. VerdictInv => SuccessIsEarned
  BY DEF VerdictInv, SuccessIsEarned, Due, TasksOf
<1>. QED
  BY <1>1, VerdictInvariant, PTL

\* ... nor an abort that no exception and no Stop explains.
THEOREM AbortsAreDue == Spec => []AbortIsDue
<1>1. VerdictInv => AbortIsDue
  BY DEF VerdictInv, AbortIsDue, Due, TasksOf
<1>. QED
  BY <1>1, VerdictInvariant, PTL

-----------------------------------------------------------------------------
(* Refinement.                                                             *)

\* A context exists because some task was submitted on it.
MadeInv ==
  /\ \A t \in Tasks : fate[t] = "new" => home[t] = Nobody
  /\ \A x \in made : \E t \in Tasks : home[t] = x

LEMMA MadeStep ==
  ASSUME TypeOK, LocalsOK, PlaceInv, MadeInv, [Next]_vars
  PROVE  MadeInv'
<1>. USE DEF poolVars, contextVars, workerVars, clientVars, history
<1>1. ASSUME NEW t \in Tasks, NEW x \in Contexts, NEW h \in BOOLEAN, Queue(t, x, h),
             fate[t] = "new", made' \subseteq made \cup {x}
      PROVE  MadeInv'
  <2>1. /\ \A u \in Tasks : u # t => home'[u] = home[u] /\ fate'[u] = fate[u]
        /\ home'[t] = x /\ fate'[t] = "queued"
    BY <1>1 DEF Queue, TypeOK
  <2>2. \A y \in made : y # Nobody
    BY NobodyAssumption DEF TypeOK, Contexts
  <2>. QED
    BY <1>1, <2>1, <2>2 DEF MadeInv
<1>2. ASSUME UNCHANGED <<made, home>>,
             \A t \in Tasks : fate'[t] = "new" => fate[t] = "new"
      PROVE  MadeInv'
  BY <1>2 DEF MadeInv
<1>3. ASSUME NEW c \in Clients, ClientCall(c) PROVE MadeInv'
  <2>1. ASSUME NEW t \in Tasks, NEW h \in BOOLEAN, Run(c, t, h) PROVE MadeInv'
    BY <2>1, <1>1 DEF Run, Contexts
  <2>2. ASSUME NEW t \in Tasks, NEW x \in Contexts, NEW h \in BOOLEAN,
               RunOnContext(c, t, x, h)
        PROVE  MadeInv'
    BY <2>2, <1>1 DEF RunOnContext
  <2>3. ASSUME NEW x \in Contexts, Wait(c, x) PROVE MadeInv'
    BY <2>3, <1>2 DEF Wait
  <2>. QED
    BY <1>3, <2>1, <2>2, <2>3 DEF ClientCall
<1>4. ASSUME NEW c \in Clients, ClientProgress(c) \/ Stop(c) PROVE MadeInv'
  BY <1>4, <1>2 DEF ClientProgress, RunNotify, WaitCheck, StopNotifyAll, StopJoin, Stop
<1>5. ASSUME NEW w \in Workers, WorkerStep(w) PROVE MadeInv'
  <2>1. UNCHANGED <<made, home>>
    BY <1>5 DEF WorkerStep, OuterLoop, EnterWait, CheckStop, InnerLoop, Take,
                CheckFinish, ReadAbort, EndRun, Finish, FinishNotify, Terminate,
                TerminateNotify
  <2>2. \A t \in Tasks : fate'[t] = "new" => fate[t] = "new"
    <3>1. CASE UNCHANGED fate
      BY <3>1
    <3>2. CASE Take(w) \/ CheckFinish(w) \/ \E threw \in BOOLEAN : EndRun(w, threw)
      BY <3>2 DEF Take, CheckFinish, EndRun, TypeOK
    <3>. QED
      BY <1>5, <3>1, <3>2 DEF WorkerStep, OuterLoop, EnterWait, CheckStop, InnerLoop,
         ReadAbort, Finish, FinishNotify, Terminate, TerminateNotify
  <2>. QED
    BY <2>1, <2>2, <1>2
<1>6. CASE SpuriousWakeup \/ UNCHANGED vars
  BY <1>6, <1>2 DEF SpuriousWakeup, vars
<1>. QED
  BY <1>3, <1>4, <1>5, <1>6, StoppersAssumption DEF Next

\* The refinement mapping.
Status == [t \in Tasks |-> IF fate[t] = "taken" THEN "queued" ELSE fate[t]]
Verdict == [x \in Contexts |-> IF ~m_is_finish[x] THEN "none"
                               ELSE IF m_is_abort[x] THEN "abort" ELSE "success"]

AbstractStep ==
  Abstract!Next \/ UNCHANGED <<Status, home, Verdict, m_stop>>

LEMMA AbstractStepForm == AbstractStep => [Abstract!Next]_(Abstract!vars)
  BY DEF AbstractStep, Abstract!vars, Status, Verdict, Contexts, Abstract!Contexts

LEMMA AbstractActions ==
  /\ \A t \in Tasks, x \in Contexts : Abstract!Submit(t, x) => AbstractStep
  /\ \A t \in Tasks : Abstract!Begin(t) \/ Abstract!Skip(t) => AbstractStep
  /\ \A t \in Tasks, how \in {"returned", "threw"} :
       Abstract!End(t, how) => AbstractStep
  /\ \A x \in Contexts, v \in {"success", "abort"} :
       Abstract!Judge(x, v) => AbstractStep
  /\ Abstract!Stop => AbstractStep
  BY DEF AbstractStep, Abstract!Next, Contexts, Abstract!Contexts

\* Every step of the pool is a step of the abstract pool, or stutters.
LEMMA RefineStep ==
  ASSUME TypeOK, LocalsOK, LeaveOnStop, PlaceInv, VerdictInv, MadeInv, [Next]_vars
  PROVE  AbstractStep
<1>. USE DEF poolVars, contextVars, workerVars, clientVars, history, Contexts,
             Abstract!Contexts
<1>1. ASSUME UNCHANGED <<home, m_stop, contextVars>>,
             \A t \in Tasks : \/ fate'[t] = fate[t]
                              \/ fate[t] = "queued" /\ fate'[t] = "taken"
      PROVE  AbstractStep
  BY <1>1 DEF AbstractStep, Status, Verdict
<1>2. ASSUME NEW t \in Tasks, NEW x \in Contexts, NEW h \in BOOLEAN,
             fate[t] = "new", Queue(t, x, h), UNCHANGED <<m_stop, contextVars>>,
             x = t \/ x \in made
      PROVE  Abstract!Submit(t, x)
  <2>1. x = t \/ \E u \in Tasks : home[u] = x
    BY <1>2 DEF MadeInv
  <2>2. /\ home' = [home EXCEPT ![t] = x]
        /\ fate' = [fate EXCEPT ![t] = "queued"]
    BY <1>2 DEF Queue
  <2>3. Status' = [Status EXCEPT ![t] = "queued"]
    BY <2>2 DEF Status, TypeOK
  <2>4. Verdict' = Verdict
    BY <1>2 DEF Verdict
  <2>. QED
    BY <1>2, <2>1, <2>2, <2>3, <2>4 DEF Abstract!Submit, Status, Verdict
<1>3. ASSUME NEW w \in Workers, NEW t \in Tasks, t = fun_data[w].fun, CheckFinish(w)
      PROVE  Abstract!Begin(t) \/ Abstract!Skip(t)
  <2>1. Held(w) /\ fun_data[w] \in FunData
    BY <1>3 DEF CheckFinish, LocalsOK, TypeOK, Held
  <2>2. /\ t \in Tasks
        /\ fun_data[w].ctx \in Contexts
        /\ home[t] = fun_data[w].ctx
        /\ fate[t] = "taken"
    BY <1>3, <2>1 DEF FunData, PlaceInv, CheckFinish
  <2>3. UNCHANGED <<home, m_stop, contextVars>>
    BY <1>3 DEF CheckFinish
  <2>4. CASE m_is_finish[fun_data[w].ctx]
    <3>1. fate' = [fate EXCEPT ![t] = "skipped"]
      BY <1>3, <2>4 DEF CheckFinish
    <3>2. Status' = [Status EXCEPT ![t] = "skipped"] /\ Verdict' = Verdict
      BY <3>1, <2>2, <2>3 DEF Status, Verdict, TypeOK
    <3>3. Status[t] = "queued" /\ Verdict[home[t]] # "none"
      BY <2>2, <2>4 DEF Status, Verdict
    <3>. QED
      BY <3>2, <3>3, <2>3 DEF Abstract!Skip, Status, Verdict
  <2>5. CASE ~m_is_finish[fun_data[w].ctx]
    <3>1. fate' = [fate EXCEPT ![t] = "running"]
      BY <1>3, <2>5 DEF CheckFinish
    <3>2. Status' = [Status EXCEPT ![t] = "running"] /\ Verdict' = Verdict
      BY <3>1, <2>2, <2>3 DEF Status, Verdict, TypeOK
    <3>3. Status[t] = "queued" /\ Verdict[home[t]] = "none"
      BY <2>2, <2>5 DEF Status, Verdict
    <3>. QED
      BY <3>2, <3>3, <2>3 DEF Abstract!Begin, Status, Verdict
  <2>. QED
    BY <2>4, <2>5
<1>4. ASSUME NEW w \in Workers, NEW threw \in BOOLEAN, EndRun(w, threw)
      PROVE  Abstract!End(fun_data[w].fun, IF threw THEN "threw" ELSE "returned")
  <2>. DEFINE t == fun_data[w].fun
              how == IF threw THEN "threw" ELSE "returned"
  <2>1. Held(w) /\ fun_data[w] \in FunData
    BY <1>4 DEF EndRun, LocalsOK, TypeOK, Held
  <2>2. t \in Tasks /\ fate[t] = "running"
    BY <1>4, <2>1 DEF FunData, PlaceInv, EndRun
  <2>3. UNCHANGED <<home, m_stop, contextVars>> /\ fate' = [fate EXCEPT ![t] = how]
    BY <1>4 DEF EndRun
  <2>. HIDE DEF t
  <2>4. Status' = [Status EXCEPT ![t] = how] /\ Verdict' = Verdict /\ Status[t] = "running"
    BY <2>2, <2>3 DEF Status, Verdict, TypeOK
  <2>. QED
    BY <2>3, <2>4 DEF Abstract!End, Status, Verdict, t
<1>5. ASSUME NEW x \in Contexts, NEW a \in BOOLEAN, SetFinish(x, a), Due(x, a),
             UNCHANGED <<fate, home, m_stop>>
      PROVE  Abstract!Judge(x, IF a THEN "abort" ELSE "success")
  <2>. DEFINE v == IF a THEN "abort" ELSE "success"
  <2>1. Verdict' = [Verdict EXCEPT ![x] = v] /\ Status' = Status
    BY <1>5 DEF SetFinish, Verdict, Status, TypeOK
  <2>2. PICK t \in Tasks :
          /\ home[t] = x
          /\ IF a THEN fate[t] = "threw" \/ (fate[t] = "queued" /\ m_stop)
                  ELSE fate[t] = "returned"
    BY <1>5 DEF Due
  <2>3. Status[t] = fate[t]
    BY <2>2 DEF Status
  <2>. QED
    BY <1>5, <2>1, <2>2, <2>3 DEF Abstract!Judge, Abstract!SomeTask, Status, Verdict
<1>6. ASSUME NEW c \in Clients, ClientCall(c) PROVE AbstractStep
  <2>1. ASSUME NEW t \in Tasks, NEW h \in BOOLEAN, Run(c, t, h)
        PROVE  AbstractStep
    BY <2>1, <1>2, AbstractActions DEF Run
  <2>2. ASSUME NEW t \in Tasks, NEW x \in Contexts, NEW h \in BOOLEAN,
               RunOnContext(c, t, x, h)
        PROVE  AbstractStep
    BY <2>2, <1>2, AbstractActions DEF RunOnContext
  <2>3. ASSUME NEW x \in Contexts, Wait(c, x) PROVE AbstractStep
    BY <2>3, <1>1 DEF Wait
  <2>. QED
    BY <1>6, <2>1, <2>2, <2>3 DEF ClientCall
<1>7. ASSUME NEW c \in Clients, ClientProgress(c) PROVE AbstractStep
  BY <1>7, <1>1 DEF ClientProgress, RunNotify, WaitCheck, StopNotifyAll, StopJoin
<1>8. ASSUME NEW c \in Clients, Stop(c) PROVE AbstractStep
  BY <1>8, AbstractActions DEF Stop, Abstract!Stop
<1>9. ASSUME NEW w \in Workers, WorkerStep(w) PROVE AbstractStep
  <2>1. CASE \/ OuterLoop(w) \/ EnterWait(w) \/ CheckStop(w) \/ InnerLoop(w)
             \/ ReadAbort(w) \/ FinishNotify(w) \/ TerminateNotify(w)
    BY <2>1, <1>1 DEF OuterLoop, EnterWait, CheckStop, InnerLoop, ReadAbort,
                      FinishNotify, TerminateNotify
  <2>2. CASE Take(w)
    <3>1. CASE m_fun_list # <<>> /\ ~m_stop
      <4>1. Head(m_fun_list) \in Pairs(m_fun_list)
        BY <2>2, <3>1, PopPairs DEF Take, PlaceInv
      <4>2. fate[Head(m_fun_list).fun] = "queued"
        BY <4>1 DEF PlaceInv
      <4>. QED
        BY <2>2, <3>1, <4>2, <1>1 DEF Take, TypeOK
    <3>2. CASE m_fun_list = <<>> \/ m_stop
      BY <2>2, <3>2, <1>1 DEF Take
    <3>. QED
      BY <3>1, <3>2
  <2>3. CASE CheckFinish(w)
    <3>1. fun_data[w].fun \in Tasks
      BY <2>3 DEF CheckFinish, LocalsOK, TypeOK, Held, FunData
    <3>2. PICK t \in Tasks : t = fun_data[w].fun
      BY <3>1
    <3>. QED
      BY <2>3, <3>2, <1>3, AbstractActions
  <2>4. ASSUME NEW threw \in BOOLEAN, EndRun(w, threw)
        PROVE  AbstractStep
    <3>1. fun_data[w].fun \in Tasks
      BY <2>4 DEF EndRun, LocalsOK, TypeOK, Held, FunData
    <3>. QED
      BY <2>4, <3>1, <1>4, AbstractActions
  <2>5. CASE Finish(w)
    <3>1. fun_data[w].ctx \in Contexts /\ abort[w] \in BOOLEAN
      BY <2>5 DEF Finish, LocalsOK, TypeOK, Held, FunData
    <3>2. Due(fun_data[w].ctx, abort[w])
      BY <2>5 DEF Finish, VerdictInv
    <3>3. SetFinish(fun_data[w].ctx, abort[w]) /\ UNCHANGED <<fate, home, m_stop>>
      BY <2>5 DEF Finish
    <3>4. PICK x \in Contexts, a \in BOOLEAN : x = fun_data[w].ctx /\ a = abort[w]
      BY <3>1
    <3>5. Abstract!Judge(x, IF a THEN "abort" ELSE "success")
      BY <3>2, <3>3, <3>4, <1>5
    <3>6. PICK v \in {"success", "abort"} : v = IF a THEN "abort" ELSE "success"
      OBVIOUS
    <3>. QED
      BY <3>5, <3>6, AbstractActions
  <2>6. CASE Terminate(w)
    <3>1. CASE m_fun_list = <<>>
      BY <2>6, <3>1, <1>1 DEF Terminate
    <3>2. CASE m_fun_list # <<>>
      <4>1. Head(m_fun_list) \in FunData /\ Head(m_fun_list) \in Pairs(m_fun_list)
        BY <3>2 DEF TypeOK, Pairs
      <4>2. Head(m_fun_list).ctx \in Contexts /\ Due(Head(m_fun_list).ctx, TRUE)
        BY <2>6, <4>1 DEF PlaceInv, Due, FunData, LeaveOnStop, Terminate
      <4>3. /\ SetFinish(Head(m_fun_list).ctx, TRUE)
            /\ UNCHANGED <<fate, home, m_stop>>
        BY <2>6, <3>2 DEF Terminate
      <4>4. Abstract!Judge(Head(m_fun_list).ctx, "abort")
        BY <4>2, <4>3, <1>5
      <4>. QED
        BY <4>2, <4>4, AbstractActions
    <3>. QED
      BY <3>1, <3>2
  <2>. QED
    BY <1>9, <2>1, <2>2, <2>3, <2>4, <2>5, <2>6 DEF WorkerStep
<1>10. CASE SpuriousWakeup \/ UNCHANGED vars
  BY <1>10, <1>1 DEF SpuriousWakeup, vars
<1>. QED
  BY <1>6, <1>7, <1>8, <1>9, <1>10, StoppersAssumption DEF Next

\* The thread pool implements TaskPool.
THEOREM PoolIsTaskPool == Spec => IsTaskPool
<1>. DEFINE Inv == /\ TypeOK /\ LocalsOK /\ NotifyInv
                   /\ PlaceInv /\ VerdictInv /\ MadeInv
<1>1. Init => Inv /\ Abstract!Init
  <2>1. Init => MadeInv
    BY DEF Init, MadeInv
  <2>2. Init => Abstract!Init
    BY DEF Init, Abstract!Init, Abstract!Contexts, Contexts
  <2>. QED
    BY <2>1, <2>2, TypeInit, LocalsInit, NotifyInit, PlaceInit, VerdictInit
<1>2. NotifyInv => LeaveOnStop
  BY DEF NotifyInv
<1>3. Inv /\ [Next]_vars => Inv'
  BY <1>2, TypeStep, LocalsStep, NotifyStep, PlaceStep, VerdictStep, MadeStep
<1>4. Inv /\ [Next]_vars => [Abstract!Next]_(Abstract!vars)
  BY <1>2, RefineStep, AbstractStepForm
<1>. QED
  BY <1>1, <1>3, <1>4, PTL DEF Spec, IsTaskPool, Abstract!Spec
=============================================================================
