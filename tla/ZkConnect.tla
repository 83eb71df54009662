----------------------------- MODULE ZkConnect -----------------------------
(***************************************************************************)
(* How a ZookeeperManager connects (CppZookeeper.cpp): Connect, Reconnect  *)
(* and the session events of InnerWatcher.                                 *)
(*                                                                         *)
(* Threads are numbered: 0 is the user's, h is the completion thread of    *)
(* the handle h that the h-th zookeeper_init returned.  A completion       *)
(* thread handles the events of its handle in order, and runs Connect      *)
(* itself when the session has expired.  The state a handle reports        *)
(* changes before its event is handled.  A session is numbered like the    *)
(* handle that first got it; OldSession is the one whose client_id the     *)
(* user may give to Init.                                                  *)
(*                                                                         *)
(* The context of the handle, which all global watches share, may have     *)
(* been stopped (m_is_stop).  It is the same after a Reconnect, which      *)
(* keeps the user's watcher function, and never starts again.              *)
(*                                                                         *)
(* m_connect_lock protects only the waiting: notify_all is called without  *)
(* it, and m_zhandle is read and written without it.                       *)
(*                                                                         *)
(* A name that ends in _Faulty is a plausible bug in the definition that   *)
(* follows it, on which the properties are tried.                          *)
(***************************************************************************)
EXTENDS Naturals, Sequences

CONSTANTS
  MaxHandles,
  UserTimeout,   \* the user calls Connect with conn_timeout_ms > 0
  MaxTroubles    \* how many troubles there are in all (see Trouble)

ASSUME ConnectAssumption ==
  /\ {MaxHandles, MaxTroubles} \subseteq Nat
  /\ UserTimeout \in BOOLEAN

VARIABLES
  m_zhandle,          \* 0 is NULL
  m_zk_tid,
  m_zk_client_id,
  m_need_resume_env,
  m_is_stop,          \* of the context of the handle
  state,              \* the C client: what zoo_state returns for each handle
  session,            \* the session of each handle, 0 until it has one
  events,             \* the session events of each handle not yet handled
  alive,              \* the server: the sessions it knows
  pc,
  new,                \* what zookeeper_init returned to each thread
  holder,             \* the thread that holds m_connect_lock
  result,             \* what the user's last Connect returned
  troubles,           \* how many troubles there have been
  missed,             \* history: the events nothing was done about (see Event)
  overlap,            \* two threads were in Connect at once (see Close)
  crashed             \* a NULL handle was dereferenced

manager == <<m_zhandle, m_zk_tid, m_zk_client_id, m_need_resume_env, m_is_stop>>
client == <<state, session, events, alive>>
threads == <<pc, new, holder, result>>
history == <<missed, overlap, crashed>>
vars == <<m_zhandle, m_zk_tid, m_zk_client_id, m_need_resume_env, m_is_stop, state,
          session, events, alive, pc, new, holder, result, troubles, missed, overlap,
          crashed>>

User == 0
NoThread == MaxHandles + 1
OldSession == MaxHandles + 1
Handles == 1 .. MaxHandles
Threads == {User} \union Handles

\* What makes a run long: a wait that ends while the connection may still be
\* made, a zookeeper_init that returns NULL, a connection lost, a session the
\* server ends, another Connect of the user.
Trouble ==
  /\ troubles < MaxTroubles
  /\ troubles' = troubles + 1

Go(t, to) == pc' = [pc EXCEPT ![t] = to]

GetStatus == IF m_zhandle = 0 THEN "none" ELSE state[m_zhandle]

Open(h) == state[h] \in {"connecting", "connected", "expired"}

\* The wait of a Connect is bounded; Reconnect takes the default, 30 s.
Timed(t) == t # User \/ UserTimeout

\* Connect returns rc: to the user, or to the loop that handles an expired
\* session, which tries again until it gets ZOK.
Return(t, rc) ==
  /\ Go(t, IF t = User THEN "done" ELSE IF rc = "ZOK" THEN "idle" ELSE "sleep")
  /\ result' = IF t = User THEN rc ELSE result

-----------------------------------------------------------------------------
(* Connect *)

Close_Faulty(t) ==
  /\ pc[t] = "connect"
  /\ m_zk_tid' = 0
  /\ m_zhandle' = 0
  /\ m_need_resume_env' = TRUE
  /\ Go(t, "init")
  /\ UNCHANGED <<m_zk_client_id, m_is_stop, client, new, holder, result, troubles, history>>

\* zookeeper_close joins the handle's completion thread, unless it is the
\* caller, and drops the events that wait.  When another thread has closed the
\* handle and has not assigned the new one, the later assignment loses a handle:
\* the model stops there.
Close(t) ==
  /\ pc[t] = "connect"
  /\ m_zhandle \in {0, t} \/ pc[m_zhandle] = "idle"
  /\ m_zk_tid' = 0
  /\ IF m_zhandle = 0
     THEN UNCHANGED <<state, events>>
     ELSE /\ state' = [state EXCEPT ![m_zhandle] = "closed"]
          /\ events' = [events EXCEPT ![m_zhandle] = <<>>]
  /\ m_zhandle' = 0
  /\ m_need_resume_env' = TRUE
  /\ overlap' = (overlap \/ \E u \in Threads : pc[u] \in {"init", "assign"})
  /\ Go(t, "init")
  /\ UNCHANGED <<m_zk_client_id, m_is_stop, session, alive, new, holder, result, troubles,
                 missed, crashed>>

\* The new handle works at once: its events may come before Assign.
InitHandle(t) ==
  /\ pc[t] = "init"
  /\ \E h \in Handles :
       /\ state[h] = "none"
       /\ \A g \in 1 .. (h - 1) : state[g] # "none"
       /\ state' = [state EXCEPT ![h] = "connecting"]
       /\ session' = [session EXCEPT ![h] = m_zk_client_id]
       /\ new' = [new EXCEPT ![t] = h]
  /\ Go(t, "assign")
  /\ UNCHANGED <<manager, events, alive, holder, result, troubles, history>>

InitFails(t) ==
  /\ pc[t] = "init"
  /\ Trouble
  /\ Return(t, "errno")
  /\ UNCHANGED <<manager, client, new, holder, history>>

\* Line 236 then compares the thread with m_zk_tid.  No handle's InnerWatcher
\* runs on a thread that is inside Connect, so they differ.
Assign(t) ==
  /\ pc[t] = "assign"
  /\ m_zhandle' = new[t]
  /\ Go(t, "lock")
  /\ UNCHANGED <<m_zk_tid, m_zk_client_id, m_need_resume_env, m_is_stop, client, new, holder,
                 result, troubles, history>>

Lock(t) ==
  /\ pc[t] = "lock"
  /\ holder = NoThread
  /\ holder' = t
  /\ Go(t, "check")
  /\ UNCHANGED <<manager, client, new, result, troubles, history>>

Check(t) ==
  /\ pc[t] = "check"
  /\ Go(t, IF GetStatus = "connected" THEN "save" ELSE "wait")
  /\ UNCHANGED <<manager, client, new, holder, result, troubles, history>>

Wait(t) ==
  /\ pc[t] = "wait"
  /\ holder' = NoThread
  /\ Go(t, "waiting")
  /\ UNCHANGED <<manager, client, new, result, troubles, history>>

\* wait_for returns by itself.  It is a trouble when it does so early,
\* while the connection may still be made.
TimeOut(t) ==
  /\ pc[t] = "waiting"
  /\ Timed(t)
  /\ IF GetStatus \in {"connected", "expired"}
     THEN UNCHANGED troubles
     ELSE Trouble
  /\ Go(t, "woken")
  /\ UNCHANGED <<manager, client, new, holder, result, history>>

Relock_Faulty(t) ==
  /\ pc[t] = "woken"
  /\ holder = NoThread
  /\ holder' = t
  /\ Go(t, "wait")
  /\ UNCHANGED <<manager, client, new, result, troubles, history>>

Relock(t) ==
  /\ pc[t] = "woken"
  /\ holder = NoThread
  /\ IF Timed(t) /\ GetStatus # "connected"
     THEN Return(t, "ZOPERATIONTIMEOUT") /\ UNCHANGED holder
     ELSE Go(t, "check") /\ holder' = t /\ UNCHANGED result
  /\ UNCHANGED <<manager, client, new, troubles, history>>

Save(t) ==
  /\ pc[t] = "save"
  /\ IF m_zhandle = 0
     THEN crashed' = TRUE /\ UNCHANGED <<m_zk_client_id, pc, holder, result>>
     ELSE /\ m_zk_client_id' = session[m_zhandle]
          /\ holder' = NoThread
          /\ Return(t, "ZOK")
          /\ UNCHANGED crashed
  /\ UNCHANGED <<m_zhandle, m_zk_tid, m_need_resume_env, m_is_stop, client, new, troubles,
                 missed, overlap>>

\* The header tells the user to connect again after a timeout.
ConnectAgain ==
  /\ pc[User] = "done"
  /\ result # "ZOK"
  /\ Trouble
  /\ Go(User, "connect")
  /\ UNCHANGED <<manager, client, new, holder, result, history>>

-----------------------------------------------------------------------------
(* The completion threads: InnerWatcher and Reconnect *)

\* The event that the completion thread h is handling is done.
Handled(h) == events' = [events EXCEPT ![h] = Tail(@)]

NeedsResume_Faulty(h) == m_need_resume_env /\ session[h] # m_zk_client_id

\* Whether a connected event has the environment resumed (line 1441).
NeedsResume(h) == m_need_resume_env

HasThread(h) == m_zk_tid' = IF m_zk_tid = 0 THEN h ELSE m_zk_tid

Misses(h, event) == missed' = missed \union {<<h, event>>} /\ UNCHANGED pc

\* A session event goes to the context of the handle, which hears nothing once it
\* is stopped, and to those of the custom watchers: if there is one, the event is
\* handled all the same.
Event(h) ==
  /\ pc[h] = "idle"
  /\ events[h] # <<>>
  /\ Handled(h)
  /\ LET event == Head(events[h])
     IN  \/ m_is_stop /\ Misses(h, event) /\ UNCHANGED m_zk_tid
         \/ h # m_zhandle /\ Misses(h, event) /\ HasThread(h)
         \/ /\ h = m_zhandle
            /\ HasThread(h)
            /\ missed' = missed \ {<<h, event>>}
            /\ CASE event = "connected" ->
                      Go(h, IF NeedsResume(h) THEN "resume" ELSE "notify")
                 [] event = "expired" -> Go(h, "reconnect")
                 [] OTHER -> UNCHANGED pc
  /\ UNCHANGED <<m_zhandle, m_zk_client_id, m_need_resume_env, m_is_stop, state, session,
                 alive, new, holder, result, troubles, overlap, crashed>>

\* An event of a node whose global watch cannot be armed again, or is not of its
\* type, stops the context (ZkWatcher has the details).  The thread has handled
\* the connected event, and not yet the one that comes after it; there are watches
\* when the user has been through Connect once.
StopContext(h) ==
  /\ pc[h] = "idle"
  /\ h = m_zhandle
  /\ ~m_is_stop
  /\ result # "none"
  /\ IF events[h] = <<>> THEN state[h] = "connected" ELSE Head(events[h]) = "connecting"
  /\ HasThread(h)
  /\ m_is_stop' = TRUE
  /\ UNCHANGED <<m_zhandle, m_zk_client_id, m_need_resume_env, client, threads, troubles,
                 history>>

\* ReconnectResumeEnv, whose work ZkEphemeral and ZkWatcher describe.
Resume(h) ==
  /\ pc[h] = "resume"
  /\ m_need_resume_env' = FALSE
  /\ Go(h, "notify")
  /\ UNCHANGED <<m_zhandle, m_zk_tid, m_zk_client_id, m_is_stop, client, new, holder, result,
                 troubles, history>>

\* m_connect_cond.notify_all, without the lock.
Notify(h) ==
  /\ pc[h] = "notify"
  /\ pc' = [t \in Threads |-> IF t = h THEN "idle"
                              ELSE IF pc[t] = "waiting" THEN "woken" ELSE pc[t]]
  /\ UNCHANGED <<manager, client, new, holder, result, troubles, history>>

Sleep(h) ==
  /\ pc[h] = "sleep"
  /\ Go(h, "reconnect")
  /\ UNCHANGED <<manager, client, new, holder, result, troubles, history>>

Reconnect_Faulty(h) ==
  /\ pc[h] = "reconnect"
  /\ m_zhandle # 0
  /\ Go(h, "connect")
  /\ UNCHANGED <<manager, client, new, holder, result, troubles, history>>

\* zoo_get_context reads the handle that an earlier failure left NULL.
Reconnect(h) ==
  /\ pc[h] = "reconnect"
  /\ m_zk_client_id' = 0
  /\ IF m_zhandle = 0
     THEN crashed' = TRUE /\ UNCHANGED pc
     ELSE Go(h, "connect") /\ UNCHANGED crashed
  /\ UNCHANGED <<m_zhandle, m_zk_tid, m_need_resume_env, m_is_stop, client, new, holder,
                 result, troubles, missed, overlap>>

-----------------------------------------------------------------------------
(* The C client and the server *)

Becomes(h, to) ==
  /\ state' = [state EXCEPT ![h] = to]
  /\ events' = [events EXCEPT ![h] = Append(@, to)]

Establish(h) ==
  /\ state[h] = "connecting"
  /\ IF session[h] = 0
     THEN /\ session' = [session EXCEPT ![h] = h]
          /\ alive' = alive \union {h}
          /\ Becomes(h, "connected")
     ELSE /\ Becomes(h, IF session[h] \in alive THEN "connected" ELSE "expired")
          /\ UNCHANGED <<session, alive>>
  /\ UNCHANGED <<manager, threads, troubles, history>>

Drop(h) ==
  /\ state[h] = "connected"
  /\ Trouble
  /\ Becomes(h, "connecting")
  /\ UNCHANGED <<manager, session, alive, threads, history>>

Expire(s) ==
  /\ \A h \in Handles : session[h] = s => state[h] # "connected"
  /\ Trouble
  /\ alive' = alive \ {s}
  /\ UNCHANGED <<manager, state, session, events, threads, history>>

-----------------------------------------------------------------------------

\* Init(hosts, root_path, client_id), after which the user calls Connect.
Init ==
  /\ m_zhandle = 0
  /\ m_zk_tid = 0
  /\ m_zk_client_id \in {0, OldSession}
  /\ m_need_resume_env = FALSE
  /\ m_is_stop = FALSE
  /\ state = [h \in Handles |-> "none"]
  /\ session = [h \in Handles |-> 0]
  /\ events = [h \in Handles |-> <<>>]
  /\ alive = {OldSession}
  /\ pc = [t \in Threads |-> IF t = User THEN "connect" ELSE "idle"]
  /\ new = [t \in Threads |-> 0]
  /\ holder = NoThread
  /\ result = "none"
  /\ troubles = 0
  /\ missed = {}
  /\ overlap = FALSE
  /\ crashed = FALSE

\* Nothing is said of what follows the dereference of NULL or the overlap.
Goes == ~crashed /\ ~overlap

Connect(t) ==
  \/ Close(t) \/ InitHandle(t) \/ Assign(t) \/ Lock(t) \/ Check(t)
  \/ Wait(t) \/ TimeOut(t) \/ Relock(t) \/ Save(t)

InnerWatcher(h) == Event(h) \/ Resume(h) \/ Notify(h) \/ Sleep(h) \/ Reconnect(h)

Next ==
  /\ Goes
  /\ \/ \E t \in Threads : Connect(t) \/ InitFails(t)
     \/ ConnectAgain
     \/ \E h \in Handles : InnerWatcher(h) \/ StopContext(h) \/ Establish(h) \/ Drop(h)
     \/ \E s \in alive : Expire(s)

Spec == Init /\ [][Next]_vars

\* Threads go on, and the server answers a handle that connects.
Fairness ==
  /\ \A t \in Threads : WF_vars(Goes /\ Connect(t))
  /\ \A h \in Handles : WF_vars(Goes /\ InnerWatcher(h)) /\ WF_vars(Goes /\ Establish(h))

FairSpec == Spec /\ Fairness

-----------------------------------------------------------------------------
(* Properties *)

\* Connect closes the old handle before it opens one (206): no handle is left
\* open that m_zhandle does not name, or is about to.
NoHandleLost ==
  \A h \in Handles :
    Open(h) => h = m_zhandle \/ \E t \in Threads : pc[t] = "assign" /\ new[t] = h

Quiet ==
  /\ GetStatus = "connected"
  /\ events[m_zhandle] = <<>>
  /\ \A t \in Threads : pc[t] \in {"idle", "done", "waiting"}

\* The environment is resumed on every connection (211, 1441): when one stands and
\* nothing is left to handle, the watchers and the ephemeral nodes have been set up
\* again.  The code fails where the last connected event of this very handle came
\* before the handle was assigned, or after its context was stopped; an earlier
\* event that was missed is made up for by the next.
ResumedWhenQuiet ==
  Quiet /\ <<m_zhandle, "connected">> \notin missed => ~m_need_resume_env

\* Fails (zk_refused.cfg): the handle's event may come before the handle is assigned.
AlwaysResumed == Quiet => ~m_need_resume_env

\* A session that expired is replaced (1451): whatever the order of events, the
\* manager is connected again in the end.  What may come between: the expired event
\* of this very handle is missed, two threads in Connect at once, or a
\* zookeeper_init that fails and leaves m_zhandle NULL, to the user or to the next
\* Reconnect.
ExpiredIsReplaced ==
  (GetStatus = "expired")
    ~> (\/ GetStatus = "connected" \/ <<m_zhandle, "expired">> \in missed
        \/ result = "errno" \/ ~Goes)

\* Connect blocks until it succeeds or time is out (CppZookeeper.h:225).
ConnectEnds == (pc[User] = "connect") ~> (pc[User] = "done" \/ ~Goes)

\* A caller that has asked to wait for ever (CppZookeeper.h:230) goes on when
\* the connection stands.
ConnectWakes ==
  (pc[User] = "waiting" /\ GetStatus = "connected")
    ~> (pc[User] # "waiting" \/ GetStatus # "connected")

=============================================================================
