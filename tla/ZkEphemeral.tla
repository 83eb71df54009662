---------------------------- MODULE ZkEphemeral ----------------------------
(***************************************************************************)
(* The ephemeral nodes of one ZookeeperManager (CppZookeeper.cpp): what it *)
(* remembers of them in m_ephemeral_node_info, what the server holds, and  *)
(* how ReconnectResumeEnv creates them again in a new session.             *)
(*                                                                         *)
(* Two threads of the program take part.  The user thread makes the calls; *)
(* a synchronous call is sent, answered, and then does its bookkeeping in  *)
(* the registry.  The completion thread (zk) of the C client runs the      *)
(* Inner...Completion callbacks and InnerWatcher, in the order of the      *)
(* answers, and resumes the environment when a session is replaced.        *)
(*                                                                         *)
(* The nodes lie under one ordinary node, Parent.  A node is its           *)
(* information: a value for each field, Data and Acl.  Versions, which     *)
(* only a second writer could make fail, and sequence nodes are left out.  *)
(*                                                                         *)
(* A definition whose name ends in _Faulty is a plausible bug in the       *)
(* definition that follows it; it is no part of the specification.         *)
(***************************************************************************)
EXTENDS Naturals, Sequences, FiniteSets, SequencesExt

CONSTANTS
  Nodes,            \* the ephemeral nodes
  Parent,           \* the node they are under
  Plain,            \* the information of Parent, which nobody looks at
  Absent,           \* not an information: there is no such node or entry
  Fields,           \* the fields kept of a node: "Data", "Acl"
  Values,           \* their values
  CString,          \* a value cut at its first NUL, for each value
  Zeros,            \* the values that are empty or nothing but NULs
  Calls,            \* the calls the user thread makes
  MultiLists,       \* the lists of operations it gives to Multi and AMulti
  OneAtATime,       \* it calls on a path when earlier calls on it are over
  ResumeWaits,      \* sessions are resumed between the user's calls
  NoZeroSkips,      \* it gives ephemeral_exist_skip no value of Zeros
  MaxCalls, MaxSessions, MaxDisconnects, MaxRestarts, MaxParentChanges

Info == [Fields -> Values]
Paths == Nodes \union {Parent}

ASSUME PathsAssumption == Parent \notin Nodes /\ IsFiniteSet(Nodes)
ASSUME AbsentAssumption ==
  Absent \notin Info \union {Plain} \union Paths /\ Plain \notin Info
ASSUME FieldsAssumption == "Data" \in Fields
ASSUME CStringAssumption == CString \in [Values -> Values]
ASSUME ZerosAssumption == Zeros \subseteq Values
ASSUME ModesAssumption == {OneAtATime, ResumeWaits, NoZeroSkips} \subseteq BOOLEAN

VARIABLES
  tree,                   \* the server's nodes of this session, and Parent
  link,                   \* "up", or "expired" until the client reconnects
  requests,               \* sent, not executed, in the order sent
  completions,            \* answers and events the zk thread has to handle
  m_ephemeral_node_info,
  m_need_resume_env,
  user,                   \* the user thread
  zk,                     \* the completion thread inside ReconnectResumeEnv
  bounds,                 \* how often each bounded thing has happened
  doubt,                  \* history: nodes with a call whose answer was lost,
                          \* or that ReconnectResumeEnv gave up (and logged)
  orphans,                \* history: nodes an earlier instance left
  deleted                 \* history: nodes a call has deleted

server == <<tree, link>>
pipe == <<requests, completions>>
registry == <<m_ephemeral_node_info, m_need_resume_env>>
history == <<doubt, orphans, deleted>>
vars == <<tree, link, requests, completions, m_ephemeral_node_info,
          m_need_resume_env, user, zk, bounds, doubt, orphans, deleted>>

-----------------------------------------------------------------------------
(* Operations and the server *)

CreateOp(p, i) == [type |-> "create", path |-> p, info |-> i]
DeleteOp(p) == [type |-> "delete", path |-> p]
SetOp(p, f, v) == [type |-> "set", path |-> p, field |-> f, value |-> v]
CheckOp(p) == [type |-> "check", path |-> p]

NodeOps ==
  {CreateOp(p, i) : p \in Nodes, i \in Info} \union {DeleteOp(p) : p \in Nodes}
    \union {SetOp(p, f, v) : p \in Nodes, f \in {"Data", "Acl"}, v \in Values}
    \union {CheckOp(p) : p \in Nodes}
ASSUME MultiAssumption == MultiLists \subseteq Seq(NodeOps)

PathsOf(ops) == {ops[k].path : k \in DOMAIN ops}
Existing(m) == {p \in Nodes : m[p] # Absent}

\* What an operation does to a map from paths to information.
Change(op, m) ==
  CASE op.type = "create" -> [m EXCEPT ![op.path] = op.info]
    [] op.type = "delete" -> [m EXCEPT ![op.path] = Absent]
    [] op.type = "set"    -> [m EXCEPT ![op.path][op.field] = op.value]
    [] op.type = "check"  -> m

\* The answer of the server to one operation.
Outcome(op, t) ==
  CASE op.type = "create" /\ op.path \in Nodes /\ t[Parent] = Absent -> "ZNONODE"
    [] op.type = "create" /\ t[op.path] # Absent -> "ZNODEEXISTS"
    [] op.type # "create" /\ t[op.path] = Absent -> "ZNONODE"
    [] op.type = "delete" /\ op.path = Parent /\ Existing(t) # {} -> "ZNOTEMPTY"
    [] OTHER -> "ZOK"

\* The nodes after each operation of a list.
Steps(ops, t) ==
  LET after[k \in 0..Len(ops)] ==
        IF k = 0 THEN t
        ELSE IF Outcome(ops[k], after[k - 1]) = "ZOK" THEN Change(ops[k], after[k - 1])
        ELSE after[k - 1]
  IN  after

\* A list of operations takes effect as a whole or not at all.  When it fails,
\* the operations before the one that failed are reported with ZOK.
Execute(ops, t) ==
  LET after == Steps(ops, t)
      outcome(k) == Outcome(ops[k], after[k - 1])
      ok(k) == \A j \in 1..k : outcome(j) = "ZOK"
      last == Len(ops)
  IN  IF ok(last)
      THEN [rc |-> "ZOK", tree |-> after[last],
            results |-> [k \in 1..last |-> "ZOK"]]
      ELSE LET failed == CHOOSE k \in 1..last : ok(k - 1) /\ ~ok(k)
           IN  [rc |-> outcome(failed), tree |-> t,
                results |-> [k \in 1..last |->
                  IF k < failed THEN "ZOK"
                  ELSE IF k = failed THEN outcome(k)
                  ELSE "ZRUNTIMEINCONSISTENCY"]]

\* A call that gets no answer leaves the results as resize made them: err is 0.
Unanswered(ops) == [k \in 1..Len(ops) |-> "ZOK"]

-----------------------------------------------------------------------------
(* The registry *)

Resuming == zk.pc # "idle"

\* m_ephemeral_node_info_lock is held while the nodes are created again.
LockFree == ~Resuming

Register(info) ==
  /\ m_ephemeral_node_info' = info
  /\ orphans' = {p \in orphans : info[p] = Absent}

\* The registry after the operations of a list that are reported with ZOK.
ProcMultiEphemeralNode(ops, results) ==
  LET track[k \in 0..Len(ops)] ==
        IF k = 0 THEN m_ephemeral_node_info
        ELSE LET info == track[k - 1] IN
             IF /\ results[k] = "ZOK"
                /\ ops[k].path \in Nodes
                /\ \/ ops[k].type = "create"
                   \/ ops[k].type \in {"delete", "set"} /\ info[ops[k].path] # Absent
             THEN Change(ops[k], info)
             ELSE info
  IN  track[Len(ops)]

-----------------------------------------------------------------------------
(* Init *)

Idle == [pc |-> "idle"]

Init ==
  /\ tree = [p \in Paths |-> IF p = Parent THEN Plain ELSE Absent]
  /\ link = "up"
  /\ requests = << >>
  /\ completions = << >>
  /\ m_ephemeral_node_info = [p \in Nodes |-> Absent]
  /\ m_need_resume_env = FALSE
  /\ user = Idle
  /\ zk = Idle
  /\ bounds = [calls |-> 0, sessions |-> 1, disconnects |-> 0,
               restarts |-> 0, parent |-> 0]
  /\ doubt = {}
  /\ orphans = {}
  /\ deleted = {}

-----------------------------------------------------------------------------
(* Sending and answering *)

AsyncCalls == {"ACreate", "ASet", "ASetAcl", "ADelete", "AMulti"}
Connected == [call |-> "CONNECTED"]
Expired == [call |-> "EXPIRED"]
NoCtx == [path |-> Absent, info |-> Absent]

\* Some call on one of the paths is sent or waits for its callback.
Outstanding(paths) ==
  \E c \in Range(requests) \union Range(completions) :
    c \notin {Connected, Expired} /\ PathsOf(c.ops) \intersect paths # {}

Send(call, ops, ctx) ==
  /\ requests' = Append(requests, [call |-> call, ops |-> ops, ctx |-> ctx])
  /\ user' = IF call \in AsyncCalls THEN user
             ELSE [pc |-> "sent", call |-> call, ops |-> ops, ctx |-> ctx]

\* On an expired session the C client refuses a request at once.
Refuse(call, ops, ctx) ==
  /\ user' = [pc |-> "answered", call |-> call, ops |-> ops, ctx |-> ctx,
              rc |-> "ZINVALIDSTATE", results |-> Unanswered(ops), view |-> {}]
  /\ UNCHANGED requests

\* The user thread makes a call.
Calling(call, ops) ==
  /\ call \in Calls
  /\ user.pc = "idle"
  /\ bounds.calls < MaxCalls
  /\ OneAtATime =>
       ~Outstanding(IF call = "DeletePathRecursion" THEN Paths ELSE PathsOf(ops))
  /\ ResumeWaits => ~m_need_resume_env /\ ~Resuming
  /\ bounds' = [bounds EXCEPT !.calls = @ + 1]
  /\ deleted' = deleted \ {p \in Nodes :
                  \E k \in DOMAIN ops : ops[k].type = "create" /\ ops[k].path = p}
  /\ UNCHANGED <<server, completions, registry, zk, doubt, orphans>>

\* While the session is expired a call fails and changes nothing, and is left out,
\* except for Multi, which handles the results of a failed call too.
Call(call, ops, ctx) == link = "up" /\ Calling(call, ops) /\ Send(call, ops, ctx)

\* The answers of the asynchronous requests, with the code rc for all of them.  A
\* synchronous request is the last one: the user thread waits for its answer.
Answers(rc) ==
  [k \in 1..(IF user.pc = "sent" THEN Len(requests) - 1 ELSE Len(requests)) |->
     [call |-> requests[k].call, ops |-> requests[k].ops, ctx |-> requests[k].ctx,
      rc |-> rc, results |-> Unanswered(requests[k].ops)]]

\* The answer reaches the user thread that waits for it.
Answer(rc, results, view) ==
  user' = [pc |-> "answered", call |-> user.call, ops |-> user.ops,
           ctx |-> user.ctx, rc |-> rc, results |-> results, view |-> view]

Serve ==
  /\ link = "up"
  /\ requests # << >>
  /\ LET request == Head(requests)
         done == Execute(request.ops, tree)
     IN  /\ tree' = done.tree
         /\ IF request.call \in AsyncCalls
            THEN /\ completions' = Append(completions,
                      [call |-> request.call, ops |-> request.ops, ctx |-> request.ctx,
                       rc |-> done.rc, results |-> done.results])
                 /\ user' = user
            ELSE /\ Answer(done.rc, done.results, Existing(tree))
                 /\ UNCHANGED completions
  /\ requests' = Tail(requests)
  /\ UNCHANGED <<link, registry, zk, bounds, history>>

\* The server executes the first k requests, and no answer comes back.
ExecuteFirst(k, t) ==
  LET after[j \in 0..k] ==
        IF j = 0 THEN t ELSE Execute(requests[j].ops, after[j - 1]).tree
  IN  after[k]

\* Every request in flight fails.
FailAll(rc, event) ==
  /\ requests' = << >>
  /\ completions' = Append(completions \o Answers(rc), event)
  /\ IF user.pc = "sent" THEN Answer(rc, Unanswered(user.ops), {}) ELSE user' = user

\* The connection breaks and is established again within the session.
Disconnect ==
  /\ link = "up"
  /\ bounds.disconnects < MaxDisconnects
  /\ bounds' = [bounds EXCEPT !.disconnects = @ + 1]
  /\ \E k \in 0..Len(requests) : tree' = ExecuteFirst(k, tree)
  /\ FailAll("ZCONNECTIONLOSS", Connected)
  /\ doubt' = doubt \union (Nodes \intersect
                 UNION {PathsOf(requests[k].ops) : k \in DOMAIN requests})
  /\ UNCHANGED <<link, registry, zk, orphans, deleted>>

\* The server ends the session and removes its ephemeral nodes.
Expire ==
  /\ link = "up"
  /\ bounds.sessions < MaxSessions
  /\ bounds' = [bounds EXCEPT !.sessions = @ + 1]
  /\ link' = "expired"
  /\ \E k \in 0..Len(requests) :
       tree' = [p \in Paths |-> IF p \in Nodes THEN Absent ELSE ExecuteFirst(k, tree)[p]]
  /\ FailAll("ZSESSIONEXPIRED", Expired)
  /\ UNCHANGED <<registry, zk, history>>

\* Another client removes the parent, which must be empty, or puts it back.
ChangeParent ==
  /\ bounds.parent < MaxParentChanges
  /\ bounds' = [bounds EXCEPT !.parent = @ + 1]
  /\ Existing(tree) = {}
  /\ tree' = [tree EXCEPT ![Parent] = IF @ = Absent THEN Plain ELSE Absent]
  /\ UNCHANGED <<link, pipe, registry, user, zk, history>>

\* The process dies and a new instance connects with the old client id.
Restart ==
  /\ bounds.restarts < MaxRestarts
  /\ bounds' = [bounds EXCEPT !.restarts = @ + 1]
  /\ \E k \in 0..Len(requests) : tree' = ExecuteFirst(k, tree)
  /\ requests' = << >>
  /\ completions' = << IF link = "up" THEN Connected ELSE Expired >>
  /\ m_ephemeral_node_info' = [p \in Nodes |-> Absent]
  /\ m_need_resume_env' = TRUE
  /\ user' = Idle
  /\ zk' = Idle
  /\ doubt' = {}
  /\ orphans' = Existing(tree')
  /\ UNCHANGED <<link, deleted>>

-----------------------------------------------------------------------------
(* The user thread: the calls *)

Create(p, i) == Call("Create", << CreateOp(p, i) >>, NoCtx)
\* Create with ephemeral_exist_skip: the Get of the non-sequence branch; the
\* value to write goes along in ctx.  The ACL is not compared with the node's
\* ("no need so far", a TODO says): the caller gives the one the node has.
CreateExistSkip(p, i) ==
  /\ NoZeroSkips => i["Data"] \notin Zeros
  /\ tree[p] # Absent => \A f \in Fields \ {"Data"} : tree[p][f] = i[f]
  /\ Call("CreateExistSkip", << CheckOp(p) >>, [path |-> p, info |-> i])
Set(p, v) == Call("Set", << SetOp(p, "Data", v) >>, NoCtx)
SetAcl(p, v) == Call("SetAcl", << SetOp(p, "Acl", v) >>, NoCtx)
Delete(p) == Call("Delete", << DeleteOp(p) >>, NoCtx)
Multi(ops) == Call("Multi", ops, NoCtx)
MultiRefused(ops) ==
  link = "expired" /\ Calling("Multi", ops) /\ Refuse("Multi", ops, NoCtx)
CreatePathRecursion == Call("CreatePathRecursion", << CheckOp(Parent) >>, NoCtx)
DeletePathRecursion == Call("DeletePathRecursion", << CheckOp(Parent) >>, NoCtx)

ACreate(p, i) ==
  Call("ACreate", << CreateOp(p, i) >>, [path |-> p, info |-> i])

\* ASet and ASetAcl keep a copy of the whole entry as it is when they are called.
Snapshot(p, f, v) ==
  IF m_ephemeral_node_info[p] = Absent THEN NoCtx
  ELSE [path |-> p, info |-> [m_ephemeral_node_info[p] EXCEPT ![f] = v]]

ASet(p, v) ==
  LockFree /\ Call("ASet", << SetOp(p, "Data", v) >>, Snapshot(p, "Data", v))
ASetAcl(p, v) ==
  LockFree /\ Call("ASetAcl", << SetOp(p, "Acl", v) >>, Snapshot(p, "Acl", v))
ADelete(p) ==
  /\ LockFree
  /\ Call("ADelete", << DeleteOp(p) >>,
          IF m_ephemeral_node_info[p] = Absent THEN NoCtx
          ELSE [path |-> p, info |-> Absent])
AMulti(ops) == Call("AMulti", ops, NoCtx)

-----------------------------------------------------------------------------
(* The user thread: what a synchronous call does with its answer *)

Returns(calls) == user.pc = "answered" /\ user.call \in calls /\ LockFree

Finished ==
  /\ user' = Idle
  /\ UNCHANGED <<server, pipe, m_need_resume_env, zk, bounds, doubt>>

\* Goes on with another call to the server.
Continue(call, ops) ==
  /\ IF link = "up" THEN Send(call, ops, user.ctx) ELSE Refuse(call, ops, user.ctx)
  /\ UNCHANGED <<server, completions, registry, zk, bounds, history>>

CreateReturn ==
  /\ Returns({"Create"})
  /\ Register(IF user.rc = "ZOK" THEN Change(user.ops[1], m_ephemeral_node_info)
              ELSE m_ephemeral_node_info)
  /\ UNCHANGED deleted
  /\ Finished

\* The node exists and is ours: its value is written when it differs from
\* exist_value, which here nobody has read the node's value into: it is zeros.
CreateExistSkipGot ==
  /\ Returns({"CreateExistSkip"})
  /\ user.rc = "ZOK" /\ user.ctx.info["Data"] \notin Zeros
  /\ Continue("CreateExistSkipSet",
              << SetOp(user.ctx.path, "Data", user.ctx.info["Data"]) >>)

\* The end of it, with the value written, or taken to be the same, or neither.
CreateExistSkipReturn ==
  /\ Returns({"CreateExistSkip", "CreateExistSkipSet"})
  /\ user.call = "CreateExistSkip" /\ user.rc = "ZOK" => user.ctx.info["Data"] \in Zeros
  /\ Register(IF user.rc = "ZOK"
              THEN [m_ephemeral_node_info EXCEPT ![user.ctx.path] = user.ctx.info]
              ELSE m_ephemeral_node_info)
  /\ UNCHANGED deleted
  /\ Finished

SetReturn ==
  /\ Returns({"Set", "SetAcl"})
  /\ Register(IF user.rc = "ZOK" /\ m_ephemeral_node_info[user.ops[1].path] # Absent
              THEN Change(user.ops[1], m_ephemeral_node_info)
              ELSE m_ephemeral_node_info)
  /\ UNCHANGED deleted
  /\ Finished

DeleteReturn_Faulty ==
  /\ Returns({"Delete"})
  /\ deleted' = IF user.rc = "ZOK" THEN deleted \union {user.ops[1].path} ELSE deleted
  /\ UNCHANGED <<m_ephemeral_node_info, orphans>>
  /\ Finished

DeleteReturn ==
  /\ Returns({"Delete"})
  /\ IF user.rc = "ZOK"
     THEN /\ Register([m_ephemeral_node_info EXCEPT ![user.ops[1].path] = Absent])
          /\ deleted' = deleted \union {user.ops[1].path}
     ELSE UNCHANGED <<m_ephemeral_node_info, orphans, deleted>>
  /\ Finished

MultiReturn ==
  /\ Returns({"Multi", "CreatePathMulti"})
  /\ Register(ProcMultiEphemeralNode(user.ops, user.results))
  /\ UNCHANGED deleted
  /\ Finished

\* The check of the levels of the path; what does not exist is created.
CreatePathChecked ==
  /\ Returns({"CreatePathRecursion"})
  /\ IF user.rc = "ZNONODE"
     THEN Continue("CreatePathMulti", << CreateOp(Parent, Plain) >>)
     ELSE Finished /\ UNCHANGED <<m_ephemeral_node_info, orphans, deleted>>

\* GetChildren has listed the nodes below Parent, in some order: delete them,
\* then Parent.
DeletePathListed ==
  /\ Returns({"DeletePathRecursion"})
  /\ CASE user.rc = "ZOK" ->
            \E list \in SetToSeqs(user.view) :
              Continue("DeletePathMulti",
                [k \in DOMAIN list |-> DeleteOp(list[k])] \o << DeleteOp(Parent) >>)
       [] user.rc = "ZNONODE" ->
            /\ user' = [pc |-> "erase"]
            /\ UNCHANGED <<server, pipe, registry, zk, bounds, history>>
       [] OTHER -> Finished /\ UNCHANGED <<m_ephemeral_node_info, orphans, deleted>>

DeletePathReturn ==
  /\ Returns({"DeletePathMulti"})
  /\ Register(ProcMultiEphemeralNode(user.ops, user.results))
  /\ IF user.rc = "ZOK"
     THEN /\ user' = [pc |-> "erase"]
          /\ deleted' = deleted \union (PathsOf(user.ops) \intersect Nodes)
     ELSE user' = Idle /\ UNCHANGED deleted
  /\ UNCHANGED <<server, pipe, m_need_resume_env, zk, bounds, doubt>>

\* Every entry below the path goes, whether it was in the list or not.
DeletePathErase ==
  /\ user.pc = "erase"
  /\ LockFree
  /\ Register([p \in Nodes |-> Absent])
  /\ UNCHANGED deleted
  /\ Finished

UserReturn ==
  \/ CreateReturn \/ CreateExistSkipGot \/ CreateExistSkipReturn \/ SetReturn
  \/ DeleteReturn \/ MultiReturn \/ CreatePathChecked
  \/ DeletePathListed \/ DeletePathReturn \/ DeletePathErase

-----------------------------------------------------------------------------
(* The completion thread: callbacks *)

Handles(calls) ==
  /\ zk.pc = "idle"
  /\ completions # << >>
  /\ Head(completions).call \in calls
  /\ completions' = Tail(completions)

\* The callbacks of the single operations write, or erase, the entry that the
\* call put in its context.
RecordContext_Faulty(c) ==
  Register(IF c.ctx.path # Absent
           THEN [m_ephemeral_node_info EXCEPT ![c.ctx.path] = c.ctx.info]
           ELSE m_ephemeral_node_info)
RecordContext(c) ==
  Register(IF c.rc = "ZOK" /\ c.ctx.path # Absent
           THEN [m_ephemeral_node_info EXCEPT ![c.ctx.path] = c.ctx.info]
           ELSE m_ephemeral_node_info)

InnerStringCompletion ==
  /\ Handles({"ACreate"})
  /\ RecordContext(Head(completions))
  /\ UNCHANGED <<server, requests, m_need_resume_env, user, zk, bounds, doubt, deleted>>

InnerStatCompletion ==
  /\ Handles({"ASet"})
  /\ RecordContext(Head(completions))
  /\ UNCHANGED <<server, requests, m_need_resume_env, user, zk, bounds, doubt, deleted>>

InnerVoidCompletion ==
  /\ Handles({"ADelete", "ASetAcl"})
  /\ RecordContext(Head(completions))
  /\ deleted' = IF Head(completions).call = "ADelete" /\ Head(completions).rc = "ZOK"
                THEN deleted \union (PathsOf(Head(completions).ops) \intersect Nodes)
                ELSE deleted
  /\ UNCHANGED <<server, requests, m_need_resume_env, user, zk, bounds, doubt>>

InnerMultiCompletion ==
  /\ Handles({"AMulti"})
  /\ Register(ProcMultiEphemeralNode(Head(completions).ops, Head(completions).results))
  /\ UNCHANGED <<server, requests, m_need_resume_env, user, zk, bounds, doubt, deleted>>

-----------------------------------------------------------------------------
(* The completion thread: InnerWatcher and ReconnectResumeEnv *)

Reconnect_Faulty ==
  /\ zk.pc = "idle"
  /\ completions # << >>
  /\ Head(completions).call = "EXPIRED"
  /\ completions' = Append(Tail(completions), Connected)
  /\ link' = "up"
  /\ doubt' = {}
  /\ orphans' = {}
  /\ UNCHANGED <<tree, requests, registry, user, zk, bounds, deleted>>

\* The loop on the expired session event: it ends with a new session, in which
\* the server has no node of ours.
Reconnect ==
  /\ zk.pc = "idle"
  /\ completions # << >>
  /\ Head(completions).call = "EXPIRED"
  /\ completions' = Append(Tail(completions), Connected)
  /\ link' = "up"
  /\ m_need_resume_env' = TRUE
  /\ doubt' = {}
  /\ orphans' = {}
  /\ UNCHANGED <<tree, requests, m_ephemeral_node_info, user, zk, bounds, deleted>>

ConnectedEvent ==
  /\ Handles({"CONNECTED"})
  /\ ResumeWaits /\ m_need_resume_env => user.pc = "idle"
  /\ zk' = IF m_need_resume_env
           THEN [pc |-> "next", todo |-> Existing(m_ephemeral_node_info)]
           ELSE zk
  /\ UNCHANGED <<server, requests, registry, user, bounds, history>>

\* A synchronous call of the resuming thread, with the code it returns: the
\* server executes it after what was sent before, or the connection breaks, or
\* the session is gone.
ZkCall(ops, rc) ==
  \/ /\ link = "up"
     /\ requests = << >>
     /\ rc = Execute(ops, tree).rc
     /\ tree' = Execute(ops, tree).tree
     /\ UNCHANGED <<completions, bounds>>
  \/ /\ link = "up"
     /\ requests = << >>
     /\ bounds.disconnects < MaxDisconnects
     /\ bounds' = [bounds EXCEPT !.disconnects = @ + 1]
     /\ rc = "ZCONNECTIONLOSS"
     /\ tree' \in {tree, Execute(ops, tree).tree}
     /\ completions' = Append(completions, Connected)
  \/ /\ link = "expired"
     /\ rc = "ZSESSIONEXPIRED"
     /\ UNCHANGED <<tree, completions, bounds>>

Codes == {"ZOK", "ZNONODE", "ZNODEEXISTS", "ZCONNECTIONLOSS", "ZSESSIONEXPIRED"}

\* The data goes through data(), a C string, into Create and back.
Recreated(p) == [m_ephemeral_node_info[p] EXCEPT !["Data"] = CString[@]]
Recreate(rc) == ZkCall(<< CreateOp(zk.cur, Recreated(zk.cur)) >>, rc)
Written_Faulty(rc) ==
  Register([m_ephemeral_node_info EXCEPT
              ![zk.cur] = IF rc = "ZOK" THEN Recreated(zk.cur) ELSE Absent])
Written(rc) ==
  Register(IF rc = "ZOK" THEN [m_ephemeral_node_info EXCEPT ![zk.cur] = Recreated(zk.cur)]
           ELSE m_ephemeral_node_info)

At(pc) == zk' = [zk EXCEPT !.pc = pc] /\ UNCHANGED doubt
NextNode(rc) ==
  /\ zk' = [pc |-> "next", todo |-> zk.todo]
  /\ doubt' = IF rc = "ZOK" THEN doubt ELSE doubt \union {zk.cur}

ResumeNode ==
  /\ zk.pc = "next"
  /\ \E p \in zk.todo :
       zk' = [pc |-> "create", cur |-> p, todo |-> zk.todo \ {p}, try |-> 1]
  /\ UNCHANGED <<server, pipe, registry, user, bounds, history>>

ResumeCreate ==
  /\ zk.pc = "create"
  /\ \E rc \in Codes :
       /\ Recreate(rc)
       /\ Written(rc)
       /\ CASE rc = "ZOK" -> NextNode(rc)
            [] rc = "ZNONODE" -> At("check")
            [] OTHER -> At("retry")
  /\ UNCHANGED <<link, requests, m_need_resume_env, user, deleted>>

\* CreatePathRecursion for the parent, twice if it fails.
PathFailed(rc) ==
  IF zk.try = 1
  THEN zk' = [zk EXCEPT !.pc = "check", !.try = 2] /\ UNCHANGED doubt
  ELSE NextNode(rc)

ResumeCheckParent ==
  /\ zk.pc = "check"
  /\ \E rc \in Codes :
       /\ ZkCall(<< CheckOp(Parent) >>, rc)
       /\ CASE rc = "ZOK" -> At("recreate")
            [] rc = "ZNONODE" -> At("make")
            [] OTHER -> PathFailed(rc)
  /\ UNCHANGED <<link, requests, registry, user, orphans, deleted>>

ResumeMakeParent ==
  /\ zk.pc = "make"
  /\ \E rc \in Codes :
       /\ ZkCall(<< CreateOp(Parent, Plain) >>, rc)
       /\ IF rc = "ZOK" THEN At("recreate") ELSE PathFailed(rc)
  /\ UNCHANGED <<link, requests, registry, user, orphans, deleted>>

ResumeRecreate ==
  /\ zk.pc = "recreate"
  /\ \E rc \in Codes :
       /\ Recreate(rc)
       /\ Written(rc)
       /\ IF rc = "ZOK" THEN NextNode(rc) ELSE At("retry")
  /\ UNCHANGED <<link, requests, m_need_resume_env, user, deleted>>

\* The last attempt; a node it cannot create is skipped.
ResumeRetry ==
  /\ zk.pc = "retry"
  /\ \E rc \in Codes : Recreate(rc) /\ Written(rc) /\ NextNode(rc)
  /\ UNCHANGED <<link, requests, m_need_resume_env, user, deleted>>

ResumeEnd ==
  /\ zk.pc = "next"
  /\ zk.todo = {}
  /\ zk' = Idle
  /\ m_need_resume_env' = FALSE
  /\ UNCHANGED <<server, pipe, m_ephemeral_node_info, user, bounds, history>>

ZkThread ==
  \/ InnerStringCompletion \/ InnerStatCompletion \/ InnerVoidCompletion
  \/ InnerMultiCompletion \/ Reconnect \/ ConnectedEvent
  \/ ResumeNode \/ ResumeCreate \/ ResumeCheckParent \/ ResumeMakeParent
  \/ ResumeRecreate \/ ResumeRetry \/ ResumeEnd

-----------------------------------------------------------------------------
(* Specification *)

UserCall ==
  \/ \E p \in Nodes, i \in Info :
       Create(p, i) \/ CreateExistSkip(p, i) \/ ACreate(p, i)
  \/ \E p \in Nodes, v \in Values :
       Set(p, v) \/ SetAcl(p, v) \/ ASet(p, v) \/ ASetAcl(p, v)
  \/ \E p \in Nodes : Delete(p) \/ ADelete(p)
  \/ \E ops \in MultiLists : Multi(ops) \/ MultiRefused(ops) \/ AMulti(ops)
  \/ CreatePathRecursion
  \/ DeletePathRecursion

Environment == Disconnect \/ Expire \/ ChangeParent \/ Restart

Next == UserCall \/ UserReturn \/ ZkThread \/ Serve \/ Environment

Spec == Init /\ [][Next]_vars

\* The server answers, and each thread of the program goes on.
FairSpec == Spec /\ WF_vars(Serve) /\ WF_vars(UserReturn) /\ WF_vars(ZkThread)

-----------------------------------------------------------------------------
(* Properties *)

\* The type of what the server holds and of what the manager remembers.
TypeOK ==
  /\ tree \in [Paths -> Info \union {Absent, Plain}]
  /\ m_ephemeral_node_info \in [Nodes -> Info \union {Absent}]
  /\ link \in {"up", "expired"}
  /\ m_need_resume_env \in BOOLEAN
  /\ doubt \subseteq Nodes /\ orphans \subseteq Nodes /\ deleted \subseteq Nodes

\* Nothing is under way: no call, no callback, no lost or unresumed session.
AtRest ==
  /\ user.pc = "idle" /\ ~Resuming
  /\ requests = << >> /\ completions = << >>
  /\ link = "up" /\ ~m_need_resume_env

\* When nothing is under way, m_ephemeral_node_info holds exactly the ephemeral
\* nodes of the session with the data and ACL the server has for them, save for
\* the nodes of an earlier instance, those with a call whose answer was lost and
\* those the manager reported it could not create again.
RegistryIsTheServers ==
  AtRest => \A p \in Nodes \ (doubt \union orphans) :
              m_ephemeral_node_info[p] = tree[p]

\* A node that Delete or DeletePathRecursion has removed does not come back,
\* neither from a late callback nor from a resumed session, until it is created.
NoResurrection == \A p \in deleted : tree[p] = Absent

\* Creating the nodes again in a new session changes nothing of what is
\* remembered of them (ReconnectResumeEnv, the loop over the nodes).
ResumeKeepsInfo == [][Resuming /\ Resuming' => UNCHANGED m_ephemeral_node_info]_vars

\* A node that is remembered and that the server has lost with its session is
\* created again, unless it is deleted meanwhile.
NodesComeBack ==
  \A p \in Nodes : (m_ephemeral_node_info[p] # Absent)
    ~> (tree[p] # Absent \/ m_ephemeral_node_info[p] = Absent)

=============================================================================
