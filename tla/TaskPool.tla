------------------------------ MODULE TaskPool ------------------------------
(***************************************************************************)
(* What the thread pool promises its callers, without threads, locks or    *)
(* notifications.  Each task is submitted on a context and is called at    *)
(* most once; a context is judged when a task on it is over, and the       *)
(* verdict is always earned: "success" by a function that returned,        *)
(* "abort" by one that threw or by a stop that found a task not yet        *)
(* begun.  A task whose context is judged before it begins is skipped.     *)
(***************************************************************************)
CONSTANTS Tasks, Nobody

VARIABLES
  status,   \* what has become of each task
  home,     \* the context each task was submitted on
  verdict,  \* what each context reports
  stopped

vars == <<status, home, verdict, stopped>>

Contexts == Tasks

Init ==
  /\ status = [t \in Tasks |-> "new"]
  /\ home = [t \in Tasks |-> Nobody]
  /\ verdict = [x \in Contexts |-> "none"]
  /\ stopped = FALSE

SomeTask(x, S) == \E t \in Tasks : home[t] = x /\ status[t] \in S

\* On a context of its own, or on one that another task was submitted on.
Submit(t, x) ==
  /\ status[t] = "new"
  /\ x = t \/ \E u \in Tasks : home[u] = x
  /\ status' = [status EXCEPT ![t] = "queued"]
  /\ home' = [home EXCEPT ![t] = x]
  /\ UNCHANGED <<verdict, stopped>>

Begin(t) ==
  /\ status[t] = "queued"
  /\ verdict[home[t]] = "none"
  /\ status' = [status EXCEPT ![t] = "running"]
  /\ UNCHANGED <<home, verdict, stopped>>

Skip(t) ==
  /\ status[t] = "queued"
  /\ verdict[home[t]] # "none"
  /\ status' = [status EXCEPT ![t] = "skipped"]
  /\ UNCHANGED <<home, verdict, stopped>>

End(t, how) ==
  /\ status[t] = "running"
  /\ status' = [status EXCEPT ![t] = how]
  /\ UNCHANGED <<home, verdict, stopped>>

Judge(x, v) ==
  /\ v = "success" => SomeTask(x, {"returned"})
  /\ v = "abort" => SomeTask(x, {"threw"}) \/ (stopped /\ SomeTask(x, {"queued"}))
  /\ verdict' = [verdict EXCEPT ![x] = v]
  /\ UNCHANGED <<status, home, stopped>>

Stop ==
  /\ stopped' = TRUE
  /\ UNCHANGED <<status, home, verdict>>

Next ==
  \/ \E t \in Tasks, x \in Contexts : Submit(t, x)
  \/ \E t \in Tasks : Begin(t) \/ Skip(t)
  \/ \E t \in Tasks, how \in {"returned", "threw"} : End(t, how)
  \/ \E x \in Contexts, v \in {"success", "abort"} : Judge(x, v)
  \/ Stop

Spec == Init /\ [][Next]_vars
=============================================================================
