--------------------------- MODULE CppThreadPool ---------------------------
(***************************************************************************)
(* The thread pool of CppThread.h / CppThread.cpp.                         *)
(*                                                                         *)
(* Workers run CppThreadPool::RunTask.  Clients are the application        *)
(* threads that call Run, RunOnContext, CppThreadContext::Wait and Stop.   *)
(*                                                                         *)
(* A step is one critical section, or one unsynchronised read of m_stop,   *)
(* m_is_finish or m_is_abort, or one notify.  m_fun_list_mutex is held     *)
(* across steps only by the loop that ends RunTask (list_owner); every     *)
(* other critical section is one step, taken while nobody holds it.  A     *)
(* condition variable is the set of threads asleep on it.                  *)
(*                                                                         *)
(* A context is named by the task for which Run created it.                *)
(*                                                                         *)
(* A definition whose name ends in _Faulty is a plausible bug in the       *)
(* definition that follows it; it is no part of the specification.  The    *)
(* properties are tried on it, to see that they can fail.                  *)
(***************************************************************************)
EXTENDS Naturals, Sequences

CONSTANTS
  Workers,     \* the threads the constructor starts
  Clients,     \* the application threads that use the pool
  Stoppers,    \* the client that calls Stop (or destroys the pool), if any
  Tasks,       \* the functions submitted; each is submitted at most once
  SharedWait,  \* TRUE if several clients may Wait on one context
  Nobody       \* not a worker: the mutex is free, or the worker has no task

Contexts == Tasks

ASSUME WorkersAssumption == Workers # {} /\ Nobody \notin Workers
\* Two concurrent calls of Stop join the same std::thread twice, which is
\* undefined: the pool has one owner.
ASSUME StoppersAssumption ==
  Stoppers \subseteq Clients /\ \A c, d \in Stoppers : c = d
ASSUME SharedWaitAssumption == SharedWait \in BOOLEAN
ASSUME NobodyAssumption == Nobody \notin Tasks

VARIABLES
  m_fun_list,  \* the tasks to execute: a sequence of [fun, ctx]
  m_stop,
  m_ths,       \* the threads not yet joined
  list_owner,  \* who keeps m_fun_list_mutex between two steps
  m_is_finish, \* the fields of the contexts
  m_is_abort,
  worker,      \* where each worker is in RunTask
  fun_data,    \* the pair a worker has taken from the list
  abort,       \* a worker's argument of Finish
  client,      \* where each client is
  target,      \* the context a client waits on
  made,        \* the contexts that exist
  home,        \* history: the context each task was queued on
  fate         \* history: what has become of each task

poolVars == <<m_fun_list, m_stop, m_ths, list_owner>>
contextVars == <<m_is_finish, m_is_abort>>
workerVars == <<worker, fun_data, abort>>
clientVars == <<client, target, made>>
history == <<home, fate>>
vars == <<poolVars, contextVars, workerVars, clientVars, history>>

FunData == [fun : Tasks, ctx : Contexts]
NoFunData == [fun |-> Nobody, ctx |-> Nobody]

Fates == {"new", "queued", "taken", "running", "returned", "threw", "skipped"}

WorkerStates == {"outer", "enter", "asleep", "woken", "checkStop", "inner",
                 "take", "ready", "skip", "run", "finish", "notify",
                 "terminate", "terminateNotify", "exited"}
ClientStates == {"idle", "notify", "enter", "asleep", "woken",
                 "notifyAll", "join"}

TypeOK ==
  /\ m_fun_list \in Seq(FunData)
  /\ m_stop \in BOOLEAN
  /\ m_ths \in SUBSET Workers
  /\ list_owner \in Workers \cup {Nobody}
  /\ m_is_finish \in [Contexts -> BOOLEAN]
  /\ m_is_abort \in [Contexts -> BOOLEAN]
  /\ worker \in [Workers -> WorkerStates]
  /\ fun_data \in [Workers -> FunData \cup {NoFunData}]
  /\ abort \in [Workers -> BOOLEAN]
  /\ client \in [Clients -> ClientStates]
  /\ target \in [Clients -> Contexts \cup {Nobody}]
  /\ made \in SUBSET Contexts
  /\ home \in [Tasks -> Contexts \cup {Nobody}]
  /\ fate \in [Tasks -> Fates]

Held(w) == fun_data[w] # NoFunData

Init ==
  /\ m_fun_list = <<>>
  /\ m_stop = FALSE
  /\ m_ths = Workers
  /\ list_owner = Nobody
  /\ m_is_finish = [x \in Contexts |-> FALSE]
  /\ m_is_abort = [x \in Contexts |-> FALSE]
  /\ worker = [w \in Workers |-> "outer"]
  /\ fun_data = [w \in Workers |-> NoFunData]
  /\ abort = [w \in Workers |-> FALSE]
  /\ client = [c \in Clients |-> "idle"]
  /\ target = [c \in Clients |-> Nobody]
  /\ made = {}
  /\ home = [t \in Tasks |-> Nobody]
  /\ fate = [t \in Tasks |-> "new"]

ListFree == list_owner = Nobody

-----------------------------------------------------------------------------
(* Condition variables.                                                    *)

SleepingWorkers == {w \in Workers : worker[w] = "asleep"}
SleepingOn(x) == {c \in Clients : client[c] = "asleep" /\ target[c] = x}

\* The notify_one is forgotten.
WakeOneWorker_Faulty == UNCHANGED worker

\* m_notify_cv.notify_one() of the pool.
WakeOneWorker ==
  IF SleepingWorkers = {}
    THEN UNCHANGED worker
    ELSE \E w \in SleepingWorkers : worker' = [worker EXCEPT ![w] = "woken"]

\* The notify_one is forgotten.
WakeOneClient_Faulty(x) == UNCHANGED client

\* m_notify_cv.notify_one() of context x.
WakeOneClient(x) ==
  IF SleepingOn(x) = {}
    THEN UNCHANGED client
    ELSE \E c \in SleepingOn(x) : client' = [client EXCEPT ![c] = "woken"]

\* Both waits pass a predicate, so that a spurious wakeup is legal.
SpuriousWakeup ==
  /\ \/ /\ \E w \in SleepingWorkers : worker' = [worker EXCEPT ![w] = "woken"]
        /\ UNCHANGED client
     \/ /\ \E c \in Clients : /\ client[c] = "asleep"
                              /\ client' = [client EXCEPT ![c] = "woken"]
        /\ UNCHANGED worker
  /\ UNCHANGED <<poolVars, contextVars, fun_data, abort, target, made, history>>

-----------------------------------------------------------------------------
(* The clients.                                                            *)

Queue(t, x, high_priority) ==
  /\ m_fun_list' = IF high_priority
                     THEN <<[fun |-> t, ctx |-> x]>> \o m_fun_list
                     ELSE Append(m_fun_list, [fun |-> t, ctx |-> x])
  /\ home' = [home EXCEPT ![t] = x]
  /\ fate' = [fate EXCEPT ![t] = "queued"]

\* The context is moved into the list before it is returned and used.
Run_Faulty(c, t, high_priority) ==
  /\ client[c] = "idle"
  /\ fate[t] = "new"
  /\ ListFree
  /\ Queue(t, Nobody, high_priority)
  /\ made' = made \cup {t}
  /\ client' = [client EXCEPT ![c] = "notify"]
  /\ UNCHANGED <<m_stop, m_ths, list_owner, contextVars, workerVars, target>>

\* Run makes a context for the task; nothing looks at m_stop.
Run(c, t, high_priority) ==
  /\ client[c] = "idle"
  /\ fate[t] = "new"
  /\ ListFree
  /\ Queue(t, t, high_priority)
  /\ made' = made \cup {t}
  /\ client' = [client EXCEPT ![c] = "notify"]
  /\ UNCHANGED <<m_stop, m_ths, list_owner, contextVars, workerVars, target>>

\* RunOnContext queues a task on a context that exists already.
RunOnContext(c, t, x, high_priority) ==
  /\ client[c] = "idle"
  /\ fate[t] = "new"
  /\ x \in made
  /\ ListFree
  /\ Queue(t, x, high_priority)
  /\ client' = [client EXCEPT ![c] = "notify"]
  /\ UNCHANGED <<m_stop, m_ths, list_owner, contextVars, workerVars, target,
                 made>>

\* The notify_one that ends Run and RunOnContext, after the unlock.
RunNotify(c) ==
  /\ client[c] = "notify"
  /\ WakeOneWorker
  /\ client' = [client EXCEPT ![c] = "idle"]
  /\ UNCHANGED <<poolVars, contextVars, fun_data, abort, target, made, history>>

IsWaiting(c, x) == client[c] \in {"enter", "asleep", "woken"} /\ target[c] = x

\* CppThreadContext::Wait is called.
Wait(c, x) ==
  /\ client[c] = "idle"
  /\ x \in made
  /\ SharedWait \/ \A d \in Clients : ~IsWaiting(d, x)
  /\ client' = [client EXCEPT ![c] = "enter"]
  /\ target' = [target EXCEPT ![c] = x]
  /\ UNCHANGED <<poolVars, contextVars, workerVars, made, history>>

\* The wait has no predicate: it sleeps even on a finished context.
WaitCheck_Faulty(c) ==
  /\ \/ /\ client[c] = "woken"
        /\ client' = [client EXCEPT ![c] = "idle"]
        /\ target' = [target EXCEPT ![c] = Nobody]
     \/ /\ client[c] = "enter"
        /\ client' = [client EXCEPT ![c] = "asleep"]
        /\ UNCHANGED target
  /\ UNCHANGED <<poolVars, contextVars, workerVars, made, history>>

\* The predicate, under m_notify_mutex: sleep, or return.
WaitCheck(c) ==
  /\ client[c] \in {"enter", "woken"}
  /\ IF m_is_finish[target[c]]
       THEN /\ client' = [client EXCEPT ![c] = "idle"]
            /\ target' = [target EXCEPT ![c] = Nobody]
       ELSE /\ client' = [client EXCEPT ![c] = "asleep"]
            /\ UNCHANGED target
  /\ UNCHANGED <<poolVars, contextVars, workerVars, made, history>>

\* Stop sets the flag under the mutex.
Stop(c) ==
  /\ client[c] = "idle"
  /\ ListFree
  /\ m_stop' = TRUE
  /\ client' = [client EXCEPT ![c] = "notifyAll"]
  /\ UNCHANGED <<m_fun_list, m_ths, list_owner, contextVars, workerVars,
                 target, made, history>>

\* notify_one for notify_all.
StopNotifyAll_Faulty(c) ==
  /\ client[c] = "notifyAll"
  /\ WakeOneWorker
  /\ client' = [client EXCEPT ![c] = "join"]
  /\ UNCHANGED <<poolVars, contextVars, fun_data, abort, target, made, history>>

StopNotifyAll(c) ==
  /\ client[c] = "notifyAll"
  /\ worker' = [w \in Workers |->
                  IF worker[w] = "asleep" THEN "woken" ELSE worker[w]]
  /\ client' = [client EXCEPT ![c] = "join"]
  /\ UNCHANGED <<poolVars, contextVars, fun_data, abort, target, made, history>>

\* Every th.join() has returned; m_ths.clear().
StopJoin(c) ==
  /\ client[c] = "join"
  /\ \A w \in m_ths : worker[w] = "exited"
  /\ m_ths' = {}
  /\ client' = [client EXCEPT ![c] = "idle"]
  /\ UNCHANGED <<m_fun_list, m_stop, list_owner, contextVars, workerVars,
                 target, made, history>>

-----------------------------------------------------------------------------
(* RunTask.                                                                *)

Goto(w, state) == worker' = [worker EXCEPT ![w] = state]

\* while (!m_stop), the outer loop: m_stop is read without the mutex.
OuterLoop(w) ==
  /\ worker[w] = "outer"
  /\ Goto(w, IF m_stop THEN "terminate" ELSE "enter")
  /\ UNCHANGED <<poolVars, contextVars, fun_data, abort, clientVars, history>>

\* The wait has no predicate: a worker that comes late sleeps on a full list.
EnterWait_Faulty(w) ==
  /\ worker[w] \in {"enter", "woken"}
  /\ ListFree
  /\ Goto(w, IF worker[w] = "woken" THEN "checkStop" ELSE "asleep")
  /\ UNCHANGED <<poolVars, contextVars, fun_data, abort, clientVars, history>>

\* m_notify_cv.wait with its predicate, and the unlock when it returns.
EnterWait(w) ==
  /\ worker[w] \in {"enter", "woken"}
  /\ ListFree
  /\ Goto(w, IF m_fun_list # <<>> \/ m_stop THEN "checkStop" ELSE "asleep")
  /\ UNCHANGED <<poolVars, contextVars, fun_data, abort, clientVars, history>>

\* if (m_stop) break; after the unlock.
CheckStop(w) ==
  /\ worker[w] = "checkStop"
  /\ Goto(w, IF m_stop THEN "terminate" ELSE "inner")
  /\ UNCHANGED <<poolVars, contextVars, fun_data, abort, clientVars, history>>

\* while (!m_stop), the inner loop.
InnerLoop(w) ==
  /\ worker[w] = "inner"
  /\ Goto(w, IF m_stop THEN "outer" ELSE "take")
  /\ UNCHANGED <<poolVars, contextVars, fun_data, abort, clientVars, history>>

\* The pair is read but not popped.
Take_Faulty(w) ==
  /\ worker[w] = "take"
  /\ ListFree
  /\ IF m_fun_list = <<>> \/ m_stop
       THEN /\ Goto(w, "outer")
            /\ UNCHANGED <<fun_data, fate>>
       ELSE /\ fun_data' = [fun_data EXCEPT ![w] = Head(m_fun_list)]
            /\ fate' = [fate EXCEPT ![Head(m_fun_list).fun] = "taken"]
            /\ Goto(w, "ready")
  /\ UNCHANGED <<poolVars, contextVars, abort, clientVars, home>>

\* Pop the first pair, or leave the inner loop.
Take(w) ==
  /\ worker[w] = "take"
  /\ ListFree
  /\ IF m_fun_list = <<>> \/ m_stop
       THEN /\ Goto(w, "outer")
            /\ UNCHANGED <<m_fun_list, fun_data, fate>>
       ELSE /\ fun_data' = [fun_data EXCEPT ![w] = Head(m_fun_list)]
            /\ m_fun_list' = Tail(m_fun_list)
            /\ fate' = [fate EXCEPT ![Head(m_fun_list).fun] = "taken"]
            /\ Goto(w, "ready")
  /\ UNCHANGED <<m_stop, m_ths, list_owner, contextVars, abort, clientVars,
                 home>>

\* The finished context is not looked at: the function is called anyway.
CheckFinish_Faulty(w) ==
  /\ worker[w] = "ready"
  /\ Goto(w, "run")
  /\ fate' = [fate EXCEPT ![fun_data[w].fun] = "running"]
  /\ UNCHANGED <<poolVars, contextVars, fun_data, abort, clientVars, home>>

\* if (m_is_finish), read without m_notify_mutex: skip the function, or call
\* it.
CheckFinish(w) ==
  /\ worker[w] = "ready"
  /\ IF m_is_finish[fun_data[w].ctx]
       THEN Goto(w, "skip") /\ fate' = [fate EXCEPT ![fun_data[w].fun] = "skipped"]
       ELSE Goto(w, "run") /\ fate' = [fate EXCEPT ![fun_data[w].fun] = "running"]
  /\ UNCHANGED <<poolVars, contextVars, fun_data, abort, clientVars, home>>

\* Finish() with its default argument, for a task that was skipped.
ReadAbort_Faulty(w) ==
  /\ worker[w] = "skip"
  /\ abort' = [abort EXCEPT ![w] = FALSE]
  /\ Goto(w, "finish")
  /\ UNCHANGED <<poolVars, contextVars, fun_data, clientVars, history>>

\* Finish(m_is_abort): the argument is read before Finish takes the lock.
ReadAbort(w) ==
  /\ worker[w] = "skip"
  /\ abort' = [abort EXCEPT ![w] = m_is_abort[fun_data[w].ctx]]
  /\ Goto(w, "finish")
  /\ UNCHANGED <<poolVars, contextVars, fun_data, clientVars, history>>

\* abort is never set to false.
EndRun_Faulty(w, threw) ==
  /\ worker[w] = "run"
  /\ abort' = [abort EXCEPT ![w] = TRUE]
  /\ fate' = [fate EXCEPT ![fun_data[w].fun] =
                IF threw THEN "threw" ELSE "returned"]
  /\ Goto(w, "finish")
  /\ UNCHANGED <<poolVars, contextVars, fun_data, clientVars, home>>

\* The function returns, or throws and the catch leaves abort at true.
EndRun(w, threw) ==
  /\ worker[w] = "run"
  /\ abort' = [abort EXCEPT ![w] = threw]
  /\ fate' = [fate EXCEPT ![fun_data[w].fun] =
                IF threw THEN "threw" ELSE "returned"]
  /\ Goto(w, "finish")
  /\ UNCHANGED <<poolVars, contextVars, fun_data, clientVars, home>>

\* CppThreadContext::Finish up to the unlock.
SetFinish(x, is_abort) ==
  /\ m_is_abort' = [m_is_abort EXCEPT ![x] = is_abort]
  /\ m_is_finish' = [m_is_finish EXCEPT ![x] = TRUE]

Finish(w) ==
  /\ worker[w] = "finish"
  /\ SetFinish(fun_data[w].ctx, abort[w])
  /\ Goto(w, "notify")
  /\ UNCHANGED <<poolVars, fun_data, abort, clientVars, history>>

\* The notify_one of Finish; then fun_data goes out of scope.
FinishNotify(w) ==
  /\ worker[w] = "notify"
  /\ WakeOneClient(fun_data[w].ctx)
  /\ fun_data' = [fun_data EXCEPT ![w] = NoFunData]
  /\ Goto(w, "inner")
  /\ UNCHANGED <<poolVars, contextVars, abort, target, made, history>>

\* After the loops, under the mutex: while the list is not empty, Finish(true)
\* its first task.  The task stays in the list, so that once the list is seen
\* to be non-empty the mutex is kept.
Terminate(w) ==
  /\ worker[w] = "terminate"
  /\ list_owner \in {Nobody, w}
  /\ IF m_fun_list = <<>>
       THEN /\ Goto(w, "exited")
            /\ list_owner' = Nobody
            /\ UNCHANGED contextVars
       ELSE /\ SetFinish(Head(m_fun_list).ctx, TRUE)
            /\ list_owner' = w
            /\ Goto(w, "terminateNotify")
  /\ UNCHANGED <<m_fun_list, m_stop, m_ths, fun_data, abort, clientVars, history>>

TerminateNotify(w) ==
  /\ worker[w] = "terminateNotify"
  /\ WakeOneClient(Head(m_fun_list).ctx)
  /\ Goto(w, "terminate")
  /\ UNCHANGED <<poolVars, contextVars, fun_data, abort, target, made, history>>

-----------------------------------------------------------------------------

ClientProgress(c) ==
  RunNotify(c) \/ WaitCheck(c) \/ StopNotifyAll(c) \/ StopJoin(c)

WorkerStep(w) ==
  \/ OuterLoop(w) \/ EnterWait(w) \/ CheckStop(w) \/ InnerLoop(w) \/ Take(w)
  \/ CheckFinish(w) \/ ReadAbort(w) \/ (\E threw \in BOOLEAN : EndRun(w, threw))
  \/ Finish(w) \/ FinishNotify(w) \/ Terminate(w) \/ TerminateNotify(w)

ClientCall(c) ==
  \/ \E t \in Tasks, high_priority \in BOOLEAN : Run(c, t, high_priority)
  \/ \E t \in Tasks, x \in Contexts, high_priority \in BOOLEAN :
        RunOnContext(c, t, x, high_priority)
  \/ \E x \in Contexts : Wait(c, x)

Next ==
  \/ \E c \in Clients : ClientCall(c) \/ ClientProgress(c)
  \/ \E c \in Stoppers : Stop(c)
  \/ \E w \in Workers : WorkerStep(w)
  \/ SpuriousWakeup

Spec == Init /\ [][Next]_vars

\* The scheduler runs every thread that can run; no caller has to call, and
\* no spurious wakeup has to happen.
FairSpec ==
  /\ Spec
  /\ \A c \in Clients : WF_vars(ClientProgress(c))
  /\ \A w \in Workers : WF_vars(WorkerStep(w))

-----------------------------------------------------------------------------
(* Properties.                                                             *)

\* Run's single notify_one is enough: while the pool is not stopped, a task
\* never waits in the list with every worker asleep or gone, unless the client
\* that queued it has still to notify.
Attends(w) ==
  worker[w] \notin {"asleep", "terminate", "terminateNotify", "exited"}

NoLostWakeup ==
  m_fun_list # <<>> /\ ~m_stop =>
    (\E w \in Workers : Attends(w)) \/ (\E c \in Clients : client[c] = "notify")

\* After Stop no worker sleeps on unless the notify_all is still to come: no
\* join waits for a thread nobody will wake.
StopWakesAll ==
  m_stop => \/ SleepingWorkers = {}
            \/ \E c \in Clients : client[c] = "notifyAll"

NotifyPending(x) ==
  \E w \in Workers :
    \/ worker[w] = "notify" /\ fun_data[w].ctx = x
    \/ worker[w] = "terminateNotify" /\ Head(m_fun_list).ctx = x

\* A client never sleeps in Wait on a finished context, unless the worker that
\* finished it has still to notify.  (Of several clients the notify_one of
\* Finish wakes one.)
NoForgottenWaiter ==
  \A x \in Contexts :
    m_is_finish[x] /\ SleepingOn(x) # {} => NotifyPending(x)

\* Each task is in one place: at one index of the list or in the hands of one
\* worker, and there only before it is over; so no task runs twice, and none
\* is dropped.
OnePlace ==
  /\ \A i, j \in DOMAIN m_fun_list :
       m_fun_list[i].fun = m_fun_list[j].fun => i = j
  /\ \A i \in DOMAIN m_fun_list : fate[m_fun_list[i].fun] = "queued"
  /\ \A w \in Workers : Held(w) =>
       fate[fun_data[w].fun] \in {"taken", "running", "returned", "threw", "skipped"}
  /\ \A v, w \in Workers :
       Held(v) /\ Held(w) /\ fun_data[v].fun = fun_data[w].fun => v = w
  /\ \A t \in Tasks :
       /\ fate[t] = "queued" => \E i \in DOMAIN m_fun_list : m_fun_list[i].fun = t
       /\ fate[t] \in {"taken", "running"} => \E w \in Workers : fun_data[w].fun = t

TasksOf(x) == {t \in Tasks : home[t] = x}

\* A context reports success only if a function queued on it has returned:
\* neither a skipped nor a terminated task, nor one that threw, passes for a
\* success, whatever other tasks share the context.
SuccessIsEarned ==
  \A x \in Contexts : m_is_finish[x] /\ ~m_is_abort[x] =>
    \E t \in TasksOf(x) : fate[t] = "returned"

\* A context reports an abort only if a function queued on it threw, or if the
\* pool was stopped with one of its tasks in the list.
AbortIsDue ==
  \A x \in Contexts : m_is_finish[x] /\ m_is_abort[x] =>
    \E t \in TasksOf(x) : fate[t] = "threw" \/ (fate[t] = "queued" /\ m_stop)

\* A task in the list is executed, or skipped because its context is finished,
\* unless the pool is stopped.
EveryTaskEnds ==
  \A t \in Tasks :
    fate[t] = "queued" ~> fate[t] \in {"returned", "threw", "skipped"} \/ m_stop

\* Every Wait returns, unless the pool is stopped.
WaitReturns ==
  \A c \in Clients : client[c] = "enter" ~> client[c] = "idle" \/ m_stop

\* Stop returns if the list stays empty while it joins the threads.
StopReturnsWhenEmpty ==
  \A c \in Stoppers :
    (client[c] = "join" /\ [](m_fun_list = <<>>)) ~> client[c] = "idle"

\* The comment over the last loop of RunTask: "terminate all tasks".  A worker
\* that has left its loops finishes the context of every task in the list.
TerminatesAllTasks ==
  \A t \in Tasks :
    (fate[t] = "queued" /\ \E w \in Workers : worker[w] = "terminate")
      ~> \E x \in Contexts : home[t] = x /\ m_is_finish[x]

\* The pool is a TaskPool: a task in a worker's hands but not yet called is
\* still queued, and a context's two flags are its verdict.
Abstract == INSTANCE TaskPool WITH
  status <- [t \in Tasks |-> IF fate[t] = "taken" THEN "queued" ELSE fate[t]],
  verdict <- [x \in Contexts |-> IF ~m_is_finish[x] THEN "none"
                                 ELSE IF m_is_abort[x] THEN "abort" ELSE "success"],
  stopped <- m_stop

\* Each task is called at most once, a task queued behind the end of its
\* context is skipped, and no race between two tasks of one context makes up a
\* verdict that none of them earned.
IsTaskPool == Abstract!Spec
=============================================================================
