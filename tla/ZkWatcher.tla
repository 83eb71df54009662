----------------------------- MODULE ZkWatcher -----------------------------
(***************************************************************************)
(* The watchers of one ZookeeperManager (CppZookeeper.cpp): the registries *)
(* m_global_watcher_path_type and m_custom_watcher_contexts, the watches   *)
(* the C client has armed, and InnerWatcher, which arms a watch again      *)
(* before it calls the user.                                               *)
(*                                                                         *)
(* A custom watcher has a context of its own; all global watches share the *)
(* context Global.  The C client keeps bare pointers to contexts, in its   *)
(* tables of active watches and in the events that wait to be handled.     *)
(*                                                                         *)
(* The server answers a request when it is sent.  Answers of asynchronous  *)
(* calls and events wait in completions for the completion thread (zk),    *)
(* which handles them in order.  A synchronous call of the user thread has *)
(* its answer first and changes the registry later.  User functions make   *)
(* no calls of their own.                                                  *)
(*                                                                         *)
(* A name that ends in _Faulty is a plausible bug in the definition that   *)
(* follows it, on which the properties are tried.                          *)
(***************************************************************************)
EXTENDS Naturals, Sequences

CONSTANTS
  Paths,        \* the nodes that are watched
  Contexts,     \* the contexts of custom watchers; each is used by one call
  Global,       \* the context of all global watches
  Calls,        \* the calls the user thread makes with a watcher function
  GlobalCalls,  \* the calls it makes with watch # 0
  ResumeWaits,  \* sessions are resumed between the user's calls
  MaxCalls, MaxSessions, MaxFailures, MaxChanges

ASSUME GlobalAssumption == Global \notin Contexts
ASSUME ResumeWaitsAssumption == ResumeWaits \in BOOLEAN

VARIABLES
  exists,       \* the server: which nodes exist
  link,         \* "up", or "expired" until the client reconnects
  active,       \* the C client: the armed watches, by table
  completions,
  m_global_watcher_path_type,
  m_custom_watcher_contexts,
  m_watcher_type,
  m_is_stop,    \* the contexts that are stopped
  freed,        \* the contexts that have been destroyed
  m_need_resume_env,
  user,         \* the user thread
  zk,           \* the completion thread
  bounds,       \* how often each bounded thing has happened
  lost          \* history: what ReconnectResumeEnv could not arm (and logged)

server == <<exists, link>>
registry == <<m_global_watcher_path_type, m_custom_watcher_contexts>>
contexts == <<m_watcher_type, m_is_stop, freed>>
vars == <<exists, link, active, completions, m_global_watcher_path_type,
          m_custom_watcher_contexts, m_watcher_type, m_is_stop, freed,
          m_need_resume_env, user, zk, bounds, lost>>

WatcherTypes == {"EXISTS", "GET", "GET_CHILDREN"}
Tables == {"node", "exist", "child"}
Watches == Paths \X (Contexts \union {Global})

\* The bits of a GlobalWatcherType: WATCHER_EXISTS includes WATCHER_GET.
Bits(type) ==
  CASE type = "EXISTS" -> {"get", "exists"}
    [] type = "GET" -> {"get"}
    [] type = "GET_CHILDREN" -> {"children"}

Has(path, type) == Bits(type) \subseteq m_global_watcher_path_type[path]

-----------------------------------------------------------------------------
(* The C client and the server *)

\* A table of the C client that a call arms when the node exists.
TableOf(type) == IF type = "GET_CHILDREN" THEN "child" ELSE "node"

\* The tables an event takes its watches from.
TablesOf(event) ==
  CASE event \in {"CREATED", "CHANGED"} -> {"node", "exist"}
    [] event = "CHILD" -> {"child"}
    [] event = "DELETED" -> Tables
    [] OTHER -> {}

Arm(table, path, ctx) == active' = [active EXCEPT ![table] = @ \union {<<path, ctx>>}]

\* A call that sets a watch, with the code it returns.  Exists watches a node
\* that is not there; the other calls then watch nothing.  calls counts the
\* user's calls.
SetWatch(type, path, ctx, rc, calls) ==
  /\ CASE link = "expired" -> rc = "ZSESSIONEXPIRED"
       [] link = "up" -> \/ rc = IF exists[path] THEN "ZOK" ELSE "ZNONODE"
                         \/ rc = "ZCONNECTIONLOSS" /\ bounds.failures < MaxFailures
  /\ CASE rc = "ZOK" -> Arm(TableOf(type), path, ctx)
       [] rc = "ZNONODE" /\ type = "EXISTS" -> Arm("exist", path, ctx)
       [] OTHER -> UNCHANGED active
  /\ bounds' = [bounds EXCEPT
                  !.calls = @ + calls,
                  !.failures = IF rc = "ZCONNECTIONLOSS" THEN @ + 1 ELSE @]

Codes == {"ZOK", "ZNONODE", "ZCONNECTIONLOSS", "ZSESSIONEXPIRED"}

\* The answers after which a watch of the type is registered.
Success(type, rc) == rc = "ZOK" \/ (type = "EXISTS" /\ rc = "ZNONODE")

\* Other clients change a node: its watches are taken from the tables and wait
\* in an event.
Change(path, event) ==
  /\ link = "up"
  /\ bounds.changes < MaxChanges
  /\ bounds' = [bounds EXCEPT !.changes = @ + 1]
  /\ exists[path] = (event # "CREATED")
  /\ exists' = [exists EXCEPT ![path] = event # "DELETED"]
  /\ LET ctxs == {c \in Contexts \union {Global} :
                    \E t \in TablesOf(event) : <<path, c>> \in active[t]}
     IN  /\ active' = [t \in Tables |->
                         IF t \in TablesOf(event) THEN active[t] \ ({path} \X ctxs)
                                                  ELSE active[t]]
         /\ completions' =
              IF ctxs = {} THEN completions
              ELSE Append(completions, [event |-> event, path |-> path, ctxs |-> ctxs])
  /\ UNCHANGED <<link, registry, contexts, m_need_resume_env, user, zk, lost>>

\* The server ends the session.  Session events go to every context that has
\* an armed watch, and to Global.
Expire ==
  /\ link = "up"
  /\ bounds.sessions < MaxSessions
  /\ bounds' = [bounds EXCEPT !.sessions = @ + 1]
  /\ link' = "expired"
  /\ completions' = Append(completions,
       [event |-> "EXPIRED_SESSION",
        ctxs |-> {Global} \union {c \in Contexts : \E t \in Tables, p \in Paths :
                                    <<p, c>> \in active[t]}])
  /\ UNCHANGED <<exists, active, registry, contexts, m_need_resume_env, user, zk, lost>>

-----------------------------------------------------------------------------
(* Init *)

Idle == [pc |-> "idle"]

Init ==
  /\ exists \in [Paths -> BOOLEAN]
  /\ link = "up"
  /\ active = [t \in Tables |-> {}]
  /\ completions = << >>
  /\ m_global_watcher_path_type = [p \in Paths |-> {}]
  /\ m_custom_watcher_contexts = {}
  /\ m_watcher_type = [c \in Contexts |-> "NOT_WATCHER"]
  /\ m_is_stop = {}
  /\ freed = {}
  /\ m_need_resume_env = FALSE
  /\ user = Idle
  /\ zk = Idle
  /\ bounds = [calls |-> 0, sessions |-> 1, failures |-> 0, changes |-> 0]
  /\ lost = {}

-----------------------------------------------------------------------------
(* The registries *)

AddGlobal(type, path) ==
  /\ m_global_watcher_path_type' =
       [m_global_watcher_path_type EXCEPT ![path] = @ \union Bits(type)]
  /\ UNCHANGED m_custom_watcher_contexts

AddCustomWatcher(path, ctx) ==
  /\ m_custom_watcher_contexts' = m_custom_watcher_contexts \union {<<path, ctx>>}
  /\ UNCHANGED m_global_watcher_path_type

\* A call that has set a watch enters it; the context of one that has not is
\* destroyed with its last owner.
Enter(call) ==
  IF Success(call.type, call.rc)
  THEN /\ IF call.ctx = Global THEN AddGlobal(call.type, call.path)
                               ELSE AddCustomWatcher(call.path, call.ctx)
       /\ UNCHANGED freed
  ELSE /\ freed' = freed \union ({call.ctx} \ {Global})
       /\ UNCHANGED registry

-----------------------------------------------------------------------------
(* The user thread *)

Resuming == zk.pc \in {"global", "custom"}

\* A call with a watch: watch # 0 for Global, a watcher_fun for a new context.
\* On an expired session a call fails at once and changes nothing.
Watch(name, type, path, ctx, rc) ==
  /\ name \in IF ctx = Global THEN GlobalCalls ELSE Calls
  /\ user.pc = "idle"
  /\ link = "up"
  /\ bounds.calls < MaxCalls
  /\ ResumeWaits => ~m_need_resume_env /\ ~Resuming
  /\ IF ctx = Global
     THEN UNCHANGED m_watcher_type
     ELSE /\ m_watcher_type[ctx] = "NOT_WATCHER"
          /\ m_watcher_type' = [m_watcher_type EXCEPT ![ctx] = type]
  /\ SetWatch(type, path, ctx, rc, 1)
  /\ UNCHANGED <<server, registry, m_is_stop, freed, m_need_resume_env, zk, lost>>

Answer(type, path, ctx, rc) == [type |-> type, path |-> path, ctx |-> ctx, rc |-> rc]

Synchronous(name, type, path, ctx) ==
  \E rc \in Codes :
    /\ Watch(name, type, path, ctx, rc)
    /\ user' = [pc |-> "answered", answer |-> Answer(type, path, ctx, rc)]
    /\ UNCHANGED completions

Asynchronous(name, type, path, ctx) ==
  \E rc \in Codes :
    /\ Watch(name, type, path, ctx, rc)
    /\ completions' = Append(completions,
         [event |-> "ANSWER", answer |-> Answer(type, path, ctx, rc)])
    /\ UNCHANGED user

Exists(path, ctx) == Synchronous("Exists", "EXISTS", path, ctx)
Get(path, ctx) == Synchronous("Get", "GET", path, ctx)
GetChildren(path, ctx) == Synchronous("GetChildren", "GET_CHILDREN", path, ctx)
AExists(path, ctx) == Asynchronous("AExists", "EXISTS", path, ctx)
AGet(path, ctx) == Asynchronous("AGet", "GET", path, ctx)
AGetChildren(path, ctx) == Asynchronous("AGetChildren", "GET_CHILDREN", path, ctx)

\* The locks of the registries: ReconnectResumeEnv keeps each one while it
\* arms the watches in it.
LockFree(ctx) == zk.pc # (IF ctx = Global THEN "global" ELSE "custom")

\* A synchronous call enters its watch and returns.
Return ==
  /\ user.pc = "answered"
  /\ LockFree(user.answer.ctx)
  /\ Enter(user.answer)
  /\ user' = Idle
  /\ UNCHANGED <<server, active, completions, m_watcher_type, m_is_stop,
                 m_need_resume_env, zk, bounds, lost>>

-----------------------------------------------------------------------------
(* The completion thread: answers and session events *)

\* What the completion thread handles next: an answer, or an event for ctx.
Handles(events) ==
  /\ zk.pc = "idle"
  /\ completions # << >>
  /\ Head(completions).event \in events

\* ctx is the next of the contexts an event is delivered to.
Deliver(ctx) ==
  /\ ctx \in Head(completions).ctxs
  /\ completions' =
       IF Head(completions).ctxs = {ctx} THEN Tail(completions)
       ELSE [completions EXCEPT ![1].ctxs = @ \ {ctx}]

\* What InnerStatCompletion, InnerDataCompletion, InnerStringsCompletion and
\* InnerStringsStatCompletion do before they call the user's function.
ProcAsyncWatcher ==
  /\ Handles({"ANSWER"})
  /\ Enter(Head(completions).answer)
  /\ completions' = Tail(completions)
  /\ UNCHANGED <<server, active, m_watcher_type, m_is_stop, m_need_resume_env,
                 user, zk, bounds, lost>>

NodeEvents == {"CREATED", "CHANGED", "DELETED", "CHILD"}
SessionEvents == {"CONNECTED", "EXPIRED_SESSION"}

\* InnerWatcher returns at once when the context is stopped, before it looks at
\* the event.  (A context that has been destroyed was stopped; what is read of
\* it is taken to be what was there last.)
InnerWatcherStopped ==
  /\ Handles(NodeEvents \union SessionEvents)
  /\ \E ctx \in m_is_stop : Deliver(ctx)
  /\ UNCHANGED <<server, active, registry, contexts, m_need_resume_env, user, zk,
                 bounds, lost>>

\* Reconnect, until it succeeds: a new handle with no watches.  The other
\* contexts of the event find that the handle is not theirs any more.
Reconnect ==
  /\ Handles({"EXPIRED_SESSION"})
  /\ \E ctx \in Head(completions).ctxs : ctx \notin m_is_stop
  /\ link' = "up"
  /\ active' = [t \in Tables |-> {}]
  /\ completions' = << [event |-> "CONNECTED", ctxs |-> {Global}] >>
  /\ m_need_resume_env' = TRUE
  /\ lost' = {}
  /\ UNCHANGED <<exists, registry, contexts, user, zk, bounds>>

\* What there is to arm again: Exists or else Get, and GetChildren.
GlobalWatches ==
  {<<p, type, Global>> : p \in {q \in Paths : Has(q, "EXISTS")}, type \in {"EXISTS"}}
    \union {<<p, type, Global>> :
              p \in {q \in Paths : Has(q, "GET") /\ ~Has(q, "EXISTS")}, type \in {"GET"}}
    \union {<<p, type, Global>> :
              p \in {q \in Paths : Has(q, "GET_CHILDREN")}, type \in {"GET_CHILDREN"}}
\* The watchers of children are forgotten.
CustomWatches_Faulty ==
  {<<w[1], m_watcher_type[w[2]], w[2]>> :
     w \in {u \in m_custom_watcher_contexts : m_watcher_type[u[2]] # "GET_CHILDREN"}}
CustomWatches ==
  {<<w[1], m_watcher_type[w[2]], w[2]>> : w \in m_custom_watcher_contexts}

ConnectedEvent ==
  /\ Handles({"CONNECTED"})
  /\ Global \notin m_is_stop
  /\ ResumeWaits /\ m_need_resume_env => user.pc = "idle"
  /\ Deliver(Global)
  /\ zk' = IF m_need_resume_env THEN [pc |-> "global", todo |-> GlobalWatches] ELSE zk
  /\ UNCHANGED <<server, active, registry, contexts, m_need_resume_env, user, bounds, lost>>

-----------------------------------------------------------------------------
(* The completion thread: ReconnectResumeEnv *)

\* An error is logged, and the watch stays registered.
ResumeWatch ==
  /\ Resuming
  /\ \E w \in zk.todo, rc \in Codes :
       /\ SetWatch(w[2], w[1], w[3], rc, 0)
       /\ zk' = [zk EXCEPT !.todo = @ \ {w}]
       /\ lost' = IF Success(w[2], rc) THEN lost ELSE lost \union {w}
  /\ UNCHANGED <<server, completions, registry, contexts, m_need_resume_env, user>>

ResumeCustom ==
  /\ zk.pc = "global"
  /\ zk.todo = {}
  /\ zk' = [pc |-> "custom", todo |-> CustomWatches]
  /\ UNCHANGED <<server, active, completions, registry, contexts, m_need_resume_env,
                 user, bounds, lost>>

ResumeEnd ==
  /\ zk.pc = "custom"
  /\ zk.todo = {}
  /\ zk' = Idle
  /\ m_need_resume_env' = FALSE
  /\ UNCHANGED <<server, active, completions, registry, contexts, user, bounds, lost>>

-----------------------------------------------------------------------------
(* The completion thread: InnerWatcher *)

\* InnerWatcher has armed the watch again, or has not; the user is called next.
Called(ctx, path, event, drops) ==
  zk' = [pc |-> "callback", ctx |-> ctx, path |-> path, event |-> event, drops |-> drops]

\* The event the user is told of when the watch could not be armed again.
Failure(rc) == IF rc = "ZNONODE" THEN "DELETED" ELSE "NOTWATCHING"

\* A custom watcher is armed again by the operation that armed it first, save
\* one on the data or the children of a node that is gone.
CustomWatcher ==
  /\ Handles(NodeEvents)
  /\ \E ctx \in Contexts \ m_is_stop :
       LET type == m_watcher_type[ctx]
           path == Head(completions).path
           event == Head(completions).event
       IN  /\ Deliver(ctx)
           /\ IF event = "DELETED" /\ type # "EXISTS"
              THEN /\ m_is_stop' = m_is_stop \union {ctx}
                   /\ Called(ctx, path, event, {})
                   /\ UNCHANGED <<active, bounds>>
              ELSE \E rc \in Codes :
                     /\ SetWatch(type, path, ctx, rc, 0)
                     /\ IF Success(type, rc)
                        THEN Called(ctx, path, event, {}) /\ UNCHANGED m_is_stop
                        ELSE /\ Called(ctx, path, Failure(rc), {})
                             /\ m_is_stop' = m_is_stop \union {ctx}
  /\ UNCHANGED <<server, registry, m_watcher_type, freed, m_need_resume_env, user, lost>>

\* The path has no global watch any more: the event is dropped.
GlobalWatcherUnknown ==
  /\ Handles(NodeEvents)
  /\ Global \notin m_is_stop
  /\ m_global_watcher_path_type[Head(completions).path] = {}
  /\ Deliver(Global)
  /\ UNCHANGED <<server, active, registry, contexts, m_need_resume_env, user, zk,
                 bounds, lost>>

\* How the global watch of a path is armed again after an event.
Again(path, event) ==
  CASE event # "CHILD" /\ Has(path, "EXISTS") -> "EXISTS"
    [] event \in {"CREATED", "CHANGED"} /\ Has(path, "GET") /\ ~Has(path, "EXISTS") -> "GET"
    [] event = "CHILD" /\ Has(path, "GET_CHILDREN") -> "GET_CHILDREN"
    [] OTHER -> "none"

\* ~stop_watcher_type_mask: what is erased if the user stops the watcher.
Drops(path, event) ==
  CASE event = "DELETED" -> {"get", "exists", "children"}
    [] event = "CHILD" -> Bits("GET_CHILDREN")
    [] OTHER -> Bits(IF Again(path, event) = "GET" THEN "GET" ELSE "EXISTS")

\* The types of a path stay as they are when its node is deleted.
Remaining_Faulty(path, event) == m_global_watcher_path_type[path]

\* The types of a path whose node has been deleted: Exists alone stays.
Remaining(path, event) ==
  IF event = "DELETED" /\ Has(path, "EXISTS") THEN Bits("EXISTS")
  ELSE m_global_watcher_path_type[path]

\* When the event does not match, or arming fails, m_is_stop is set on the
\* context that all global watches share.
GlobalWatcher ==
  /\ Handles(NodeEvents)
  /\ Global \notin m_is_stop
  /\ Deliver(Global)
  /\ LET path == Head(completions).path
         event == Head(completions).event
         again == Again(path, event)
     IN  /\ m_global_watcher_path_type[path] # {}
         /\ m_global_watcher_path_type' =
              [m_global_watcher_path_type EXCEPT ![path] = Remaining(path, event)]
         /\ IF again = "none"
            THEN /\ Called(Global, path, event, Drops(path, event))
                 /\ m_is_stop' = m_is_stop \union {Global}
                 /\ UNCHANGED <<active, bounds>>
            ELSE \E rc \in Codes :
                   /\ SetWatch(again, path, Global, rc, 0)
                   /\ IF Success(again, rc)
                      THEN /\ Called(Global, path, event, Drops(path, event))
                           /\ UNCHANGED m_is_stop
                      ELSE /\ Called(Global, path, "NOTWATCHING", Drops(path, event))
                           /\ m_is_stop' = m_is_stop \union {Global}
  /\ UNCHANGED <<server, m_custom_watcher_contexts, m_watcher_type, freed,
                 m_need_resume_env, user, lost>>

\* Only the table of the nodes is searched.
DeleteWatcher_Faulty(event, path, ctx) ==
  active' = [active EXCEPT !["node"] = @ \ {<<path, ctx>>}]

\* The watches of ctx are taken out of the tables the event belongs to.
DeleteWatcher(event, path, ctx) ==
  active' = [t \in Tables |-> IF t \in TablesOf(event) THEN active[t] \ {<<path, ctx>>}
                                                       ELSE active[t]]

\* The user's function returns; with TRUE, or after m_is_stop was set, a global
\* watch is erased from the registry, and a custom one is destroyed.
Callback ==
  /\ zk.pc = "callback"
  /\ zk' = Idle
  /\ \/ /\ zk.ctx \notin m_is_stop
        /\ UNCHANGED <<active, registry, m_is_stop, freed>>
     \/ /\ zk.ctx = Global
        /\ m_global_watcher_path_type' =
             [m_global_watcher_path_type EXCEPT ![zk.path] = @ \ zk.drops]
        /\ UNCHANGED <<active, m_custom_watcher_contexts, m_is_stop, freed>>
     \/ /\ zk.ctx # Global
        /\ m_is_stop' = m_is_stop \union {zk.ctx}
        /\ m_custom_watcher_contexts' = m_custom_watcher_contexts \ {<<zk.path, zk.ctx>>}
        /\ freed' = IF <<zk.path, zk.ctx>> \in m_custom_watcher_contexts
                    THEN freed \union {zk.ctx} ELSE freed
        /\ DeleteWatcher(zk.event, zk.path, zk.ctx)
        /\ UNCHANGED m_global_watcher_path_type
  /\ UNCHANGED <<server, completions, m_watcher_type, m_need_resume_env, user, bounds, lost>>

-----------------------------------------------------------------------------
(* Specification *)

UserCall ==
  \E path \in Paths, ctx \in Contexts \union {Global} :
    \/ Exists(path, ctx) \/ Get(path, ctx) \/ GetChildren(path, ctx)
    \/ AExists(path, ctx) \/ AGet(path, ctx) \/ AGetChildren(path, ctx)

ZkThread ==
  \/ ProcAsyncWatcher \/ InnerWatcherStopped \/ Reconnect \/ ConnectedEvent
  \/ ResumeWatch \/ ResumeCustom \/ ResumeEnd
  \/ CustomWatcher \/ GlobalWatcherUnknown \/ GlobalWatcher \/ Callback

Environment == Expire \/ \E path \in Paths, event \in NodeEvents : Change(path, event)

Next == UserCall \/ Return \/ ZkThread \/ Environment

Spec == Init /\ [][Next]_vars

\* Each thread of the program goes on.
FairSpec == Spec /\ WF_vars(Return) /\ WF_vars(ZkThread)

-----------------------------------------------------------------------------
(* Properties *)

\* The type of the state.
TypeOK ==
  /\ exists \in [Paths -> BOOLEAN]
  /\ link \in {"up", "expired"}
  /\ active \in [Tables -> SUBSET Watches]
  /\ m_global_watcher_path_type \in [Paths -> SUBSET {"get", "exists", "children"}]
  /\ m_custom_watcher_contexts \subseteq Paths \X Contexts
  /\ m_watcher_type \in [Contexts -> WatcherTypes \union {"NOT_WATCHER"}]
  /\ m_is_stop \subseteq Contexts \union {Global}
  /\ freed \subseteq Contexts
  /\ m_need_resume_env \in BOOLEAN

\* The session is up and its watches have been armed again.
Live == link = "up" /\ ~m_need_resume_env

Armed(tables, path, ctx) == \E t \in tables : <<path, ctx>> \in active[t]

\* An event that will arm the watch again waits to be handled.
Pending(events, path, ctx) ==
  \E k \in DOMAIN completions :
    /\ completions[k].event \in events
    /\ completions[k].path = path
    /\ ctx \in completions[k].ctxs

\* A custom watcher that is registered and not stopped is armed, or an event
\* that will arm it again is on the way: no change of the node goes unnoticed
\* for good, in this session or after it was replaced, whatever changes come
\* while InnerWatcher arms the watch and calls the user.
CustomArmed ==
  Live => \A w \in m_custom_watcher_contexts :
    LET type == m_watcher_type[w[2]]
    IN  w[2] \notin m_is_stop /\ <<w[1], type, w[2]>> \notin lost =>
          \/ Armed({TableOf(type), "exist"}, w[1], w[2])
          \/ Pending(NodeEvents, w[1], w[2])

\* So is a global watch, of each of its types, unless all are stopped.
GlobalArmed ==
  Live /\ Global \notin m_is_stop => \A path \in Paths :
    /\ \/ "get" \notin m_global_watcher_path_type[path]
       \/ \E w \in lost : w[1] = path /\ w[3] = Global
       \/ Armed({"node", "exist"}, path, Global)
       \/ Pending({"CREATED", "CHANGED", "DELETED"}, path, Global)
    /\ \/ "children" \notin m_global_watcher_path_type[path]
       \/ \E w \in lost : w[1] = path /\ w[3] = Global
       \/ Armed({"child"}, path, Global)
       \/ Pending({"CHILD", "DELETED"}, path, Global)

\* No table of the C client holds a context that has been destroyed: when a
\* custom watcher is stopped, DeleteWatcher has found every table it was in.
TablesAlive ==
  \A t \in Tables, w \in Watches : w \in active[t] => w[2] \notin freed

\* Nor does an event that waits to be handled.
EventsAlive ==
  \A k \in DOMAIN completions :
    completions[k].event # "ANSWER" => completions[k].ctxs \intersect freed = {}

\* An expired session is replaced by a new one.
SessionReplaced == link = "expired" ~> link = "up"

=============================================================================
