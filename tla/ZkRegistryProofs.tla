-------------------------- MODULE ZkRegistryProofs --------------------------
(***************************************************************************)
(* What the manager remembers is what the server has, for any nodes,       *)
(* values and faults: RegistryIsTheServers of ZkEphemeral, when the user   *)
(* calls on a path after earlier calls on it are over, makes no call       *)
(* between the end of a session and the end of ReconnectResumeEnv, gives   *)
(* Multi and AMulti one operation at a time, and ephemeral_exist_skip no   *)
(* value that is empty or only NULs.  Without any of the four there is a   *)
(* counterexample.                                                         *)
(***************************************************************************)
EXTENDS ZkEphemeralProofs

OneOperation == \A ops \in MultiLists : Len(ops) = 1

\* What an operation makes of an entry, or of a node, when it succeeds.
Enter(op, v) ==
  CASE op.type = "create" -> op.info
    [] op.type = "delete" -> Absent
    [] op.type = "set"    -> IF v = Absent THEN Absent ELSE [v EXCEPT ![op.field] = op.value]
    [] op.type = "check"  -> v

\* Every call has one operation, but the batch of DeletePathRecursion.
ShapeOK(call, ops, ctx) ==
  /\ call # "DeletePathMulti" => Len(ops) = 1
  /\ call = "DeletePathMulti" =>
       /\ ops # <<>> /\ ops[Len(ops)].path = Parent
       /\ \A j, k \in DOMAIN ops : ops[j].path = ops[k].path => j = k
  /\ call \in {"CreateExistSkip", "CreatePathRecursion", "DeletePathRecursion"}
       => ops[1].type = "check"
  /\ call = "CreateExistSkip" => ctx.info["Data"] \notin Zeros
  /\ call \in {"CreatePathRecursion", "CreatePathMulti", "DeletePathRecursion"}
       => ops[1].path = Parent
  /\ call = "CreateExistSkipSet" => ops[1].field = "Data" /\ ops[1].value = ctx.info["Data"]

ShapesOK ==
  /\ \A k \in DOMAIN requests : ShapeOK(requests[k].call, requests[k].ops, requests[k].ctx)
  /\ \A k \in DOMAIN completions : IsAnswer(k) =>
       ShapeOK(completions[k].call, completions[k].ops, completions[k].ctx)
  /\ UserCalls => ShapeOK(user.call, user.ops, user.ctx)

\* The entry that the callback will write over v is the one the operation makes.
Fits(c, p, v) ==
  c.call = "AMulti" \/ Enter(c.ops[1], v) = IF c.ctx.path = p THEN c.ctx.info ELSE v
Fitting(p) ==
  /\ \A k \in DOMAIN requests : RequestOn(k, p) /\ requests[k].call \in AsyncCalls =>
       Fits(requests[k], p, m_ephemeral_node_info[p])
  /\ \A k \in DOMAIN completions : AnswerOn(k, p) =>
       Fits(completions[k], p, m_ephemeral_node_info[p])

\* The user thread has an answer that concerns the node, or one that concerns all.
UserTells(p) ==
  user.pc = "answered" /\ user.call # "DeletePathMulti" /\ p \in PathsOf(user.ops)
Wiped ==
  \/ user.pc = "erase"
  \/ user.pc = "answered" /\ user.call = "DeletePathMulti" /\ user.rc = "ZOK"
  \/ user.pc = "answered" /\ user.call = "DeletePathRecursion" /\ user.rc = "ZNONODE"
Untold(p) == (\A k \in DOMAIN completions : ~AnswerOn(k, p)) /\ ~UserTells(p) /\ ~Wiped

\* What an answer makes of the entry v of its node.
Answered(a, v) == IF a.rc = "ZOK" THEN Enter(a.ops[1], v) ELSE v
Returned(u, v) ==
  IF u.rc = "ZOK" /\ u.call = "CreateExistSkipSet" THEN u.ctx.info ELSE Answered(u, v)
ResultIsCode(a) == a.results[1] = "ZOK" <=> a.rc = "ZOK"

\* In a session that stands and is resumed, the registry is what the server has as
\* soon as the answer on the node is handled.
Current(p) == link = "up" /\ ~m_need_resume_env /\ p \notin doubt
Valid(p, v) == v = tree[p] \/ (p \in orphans /\ v = Absent)
Agreed(p) ==
  Current(p) =>
    /\ Untold(p) => Valid(p, m_ephemeral_node_info[p])
    /\ \A k \in DOMAIN completions : AnswerOn(k, p) =>
         /\ ResultIsCode(completions[k])
         /\ Valid(p, Answered(completions[k], m_ephemeral_node_info[p]))
    /\ UserTells(p) =>
         ResultIsCode(user) /\ Valid(p, Returned(user, m_ephemeral_node_info[p]))
    /\ user.pc = "answered" /\ user.call = "DeletePathMulti" /\ user.rc # "ZOK"
         => p \notin PathsOf(user.ops)

\* DeletePathRecursion has found, or left, no node.
Emptied(p) ==
  Wiped =>
    /\ tree[p] = Absent
    /\ \A k \in DOMAIN requests : ~RequestOn(k, p)
    /\ \A k \in DOMAIN completions : ~AnswerOn(k, p)
\* It deletes what it has listed, which is still what there is.
Listed(p) ==
  link = "up" /\ ~m_need_resume_env =>
    /\ user.pc = "answered" /\ user.call = "DeletePathRecursion" /\ user.rc = "ZOK"
         => (p \in user.view <=> tree[p] # Absent)
    /\ user.pc = "sent" /\ user.call = "DeletePathMulti"
         => (p \in PathsOf(user.ops) <=> tree[p] # Absent)
\* Create with ephemeral_exist_skip was given the node's ACL.
Skipping(p) ==
  /\ \/ user.pc = "sent" /\ user.call \in {"CreateExistSkip", "CreateExistSkipSet"}
     \/ user.pc = "answered" /\ user.rc = "ZOK" /\ user.call = "CreateExistSkip"
  /\ user.ctx.path = p
Skipped(p) ==
  Skipping(p) /\ tree[p] # Absent =>
    \A f \in Fields \ {"Data"} : tree[p][f] = user.ctx.info[f]

\* A new session has nothing but what has been created again.
Lapsed(p) ==
  /\ m_need_resume_env \/ link = "expired" =>
       \A k \in DOMAIN requests : ~Creates(requests[k].ops, p)
  /\ link = "expired" => tree[p] = Absent
  /\ m_need_resume_env /\ link = "up" /\ ~Resuming /\ p \notin doubt
       => tree[p] = Absent \/ p \in orphans
Recreating(p) ==
  /\ Resuming /\ link = "up" /\ p \notin doubt =>
       IF p \in zk.todo THEN tree[p] = Absent
       ELSE IF AtNode /\ p = zk.cur THEN tree[p] \in {Absent, Recreated(p)}
       ELSE Valid(p, m_ephemeral_node_info[p])
  /\ AtNode => zk.cur \notin zk.todo
Outside(p) == p \in orphans => m_ephemeral_node_info[p] = Absent
\* An instance that has just been started makes no call before it has resumed.
OrphansWait == m_need_resume_env /\ orphans # {} => user.pc = "idle"

RegistryInv(p) ==
  /\ Fitting(p) /\ Agreed(p) /\ Emptied(p) /\ Listed(p) /\ Skipped(p)
  /\ Lapsed(p) /\ Recreating(p) /\ Outside(p)

ServersInv ==
  EphemeralInv /\ ShapesOK /\ OrphansWait /\ \A p \in Nodes : RegistryInv(p)

-----------------------------------------------------------------------------
(* What one operation, and the batch of DeletePathRecursion, does.         *)

\* A list of one operation.
LEMMA OneSays ==
  ASSUME NEW ops \in Seq(Ops), Len(ops) = 1
  PROVE  /\ ops[1] \in Ops /\ DOMAIN ops = {1} /\ PathsOf(ops) = {ops[1].path}
         /\ \A p : Creates(ops, p) <=> ops[1].type = "create" /\ ops[1].path = p
<1>1. DOMAIN ops = 1..1 /\ 1 \in 1..Len(ops)
  BY LenProperties
<1>2. ops[1] \in Ops /\ DOMAIN ops = {1}
  BY <1>1, ElementOfSeq
<1>3. QED
  BY <1>2 DEF PathsOf, Creates

LEMMA ExecuteOne ==
  ASSUME NEW ops \in Seq(Ops), Len(ops) = 1, NEW t
  PROVE  /\ Execute(ops, t).rc = Outcome(ops[1], t)
         /\ Execute(ops, t).results[1] = Outcome(ops[1], t)
         /\ Execute(ops, t).tree =
              IF Outcome(ops[1], t) = "ZOK" THEN Change(ops[1], t) ELSE t
<1> DEFINE out(k) == Outcome(ops[k], Steps(ops, t)[k - 1])
           ok(k) == \A j \in 1..k : out(j) = "ZOK"
           failed == CHOOSE k \in 1..1 : ok(k - 1) /\ ~ok(k)
<1>0. 1 \in 1..1 /\ 1 - 1 = 0 /\ 1..1 = {1} /\ 1..0 = {}
  OBVIOUS
<1>1. /\ Steps(ops, t)[0] = t
      /\ Steps(ops, t)[1] =
           IF Outcome(ops[1], t) = "ZOK" THEN Change(ops[1], t) ELSE Steps(ops, t)[0]
  <2>1. /\ Steps(ops, t)[0] = t
        /\ \A k \in 1..1 :
             Steps(ops, t)[k] =
               IF Outcome(ops[k], Steps(ops, t)[k - 1]) = "ZOK"
               THEN Change(ops[k], Steps(ops, t)[k - 1]) ELSE Steps(ops, t)[k - 1]
    BY StepsSay
  <2>2. QED
    BY <1>0, <2>1
<1>2. out(1) = Outcome(ops[1], t)
  BY <1>0, <1>1
<1>3. Execute(ops, t) =
        IF ok(1)
        THEN [rc |-> "ZOK", tree |-> Steps(ops, t)[1], results |-> [k \in 1..1 |-> "ZOK"]]
        ELSE [rc |-> out(failed), tree |-> t,
              results |-> [k \in 1..1 |-> IF k < failed THEN "ZOK"
                                          ELSE IF k = failed THEN out(k)
                                          ELSE "ZRUNTIMEINCONSISTENCY"]]
  BY DEF Execute
<1>4. ok(1) <=> out(1) = "ZOK"
  BY <1>0
<1>5. ~ok(1) => failed = 1
  <2>1. ok(0)
    BY <1>0
  <2> HIDE DEF ok
  <2>2. QED
    BY <1>0, <2>1
<1> HIDE DEF ok, failed, out
<1>6. QED
  BY <1>0, <1>1, <1>2, <1>3, <1>4, <1>5

LEMMA ExecuteOK ==
  ASSUME NEW ops \in Seq(Ops), NEW t,
         \A k \in 1..Len(ops) : Outcome(ops[k], Steps(ops, t)[k - 1]) = "ZOK"
  PROVE  Execute(ops, t).rc = "ZOK"
  BY DEF Execute

\* The entry follows the node.
LEMMA EnterFollows ==
  ASSUME NEW op \in Ops, NEW t \in Trees, op.path \in Nodes, Outcome(op, t) = "ZOK",
         NEW v, NEW orphan \in BOOLEAN, v = t[op.path] \/ (orphan /\ v = Absent)
  PROVE  Enter(op, v) = Change(op, t)[op.path] \/ (orphan /\ Enter(op, v) = Absent)
<1>1. t = [q \in DOMAIN t |-> t[q]] /\ DOMAIN t = Paths /\ op.path \in DOMAIN t
  BY NamesDiffer DEF Trees
<1>2. CASE op.type = "create"
  BY <1>1, <1>2, ChangeSays DEF Enter
<1>3. CASE op.type = "delete"
  BY <1>1, <1>3, ChangeSays DEF Enter
<1>4. CASE op.type = "set"
  <2>1. t[op.path] # Absent
    BY <1>4 DEF Outcome
  <2>2. Change(op, t)[op.path] = [t[op.path] EXCEPT ![op.field] = op.value]
    BY <1>1, <1>4, ChangeSays
  <2>3. QED
    BY <1>4, <2>1, <2>2 DEF Enter
<1>5. CASE op.type = "check"
  BY <1>1, <1>5, ChangeSays DEF Enter
<1>6. QED
  BY <1>2, <1>3, <1>4, <1>5, OpSays

\* The registry after Multi or AMulti of one operation.
LEMMA ProcOne ==
  ASSUME m_ephemeral_node_info \in Registries, NEW ops \in Seq(Ops), Len(ops) = 1, NEW results
  PROVE  \A p \in Nodes :
           ProcMultiEphemeralNode(ops, results)[p] =
             IF p = ops[1].path /\ results[1] = "ZOK"
             THEN Enter(ops[1], m_ephemeral_node_info[p]) ELSE m_ephemeral_node_info[p]
<1> DEFINE reg == m_ephemeral_node_info
<1>1. ops[1] \in Ops
  BY OneSays
<1>2. PICK f : Tracked(f, 1, ops, results) /\ ProcMultiEphemeralNode(ops, results) = f[1]
  <2>1. \E f : Tracked(f, 1, ops, results)
    BY TrackedExists
  <2>2. ProcMultiEphemeralNode(ops, results) = (CHOOSE f : Tracked(f, 1, ops, results))[1]
    BY DEF ProcMultiEphemeralNode, Tracked, TrackedOp
  <2>3. QED
    BY <2>1, <2>2
<1>3. f[1] = IF TrackedOp(ops[1], results[1], reg) THEN Change(ops[1], reg) ELSE reg
  BY <1>2 DEF Tracked
<1>4. PICK op \in Ops : op = ops[1]
  BY <1>1
<1>r. PICK result : result = results[1]
  OBVIOUS
<1>5. CASE TrackedOp(op, result, reg)
  <2>1. /\ result = "ZOK" /\ op.path \in Nodes
        /\ op.type = "create" \/ (op.type \in {"delete", "set"} /\ reg[op.path] # Absent)
    BY <1>5 DEF TrackedOp
  <2>2. /\ reg = [q \in DOMAIN reg |-> reg[q]] /\ DOMAIN reg = Nodes
    BY DEF Registries
  <2>3. PICK v : v = Change(op, reg)
    OBVIOUS
  <2>4. \A p \in Nodes : p # op.path => v[p] = reg[p]
    BY <2>1, <2>3, RegistryTouch
  <2>5. v[op.path] = Enter(op, reg[op.path])
    <3>1. CASE op.type = "create"
      BY <2>1, <2>2, <2>3, <3>1, ChangeSays DEF Enter
    <3>2. CASE op.type = "delete"
      BY <2>1, <2>2, <2>3, <3>2, ChangeSays DEF Enter
    <3>3. CASE op.type = "set"
      <4>1. v[op.path] = [reg[op.path] EXCEPT ![op.field] = op.value]
        BY <2>1, <2>2, <2>3, <3>3, ChangeSays
      <4>2. QED
        BY <2>1, <3>3, <4>1 DEF Enter
    <3>4. QED
      BY <2>1, <3>1, <3>2, <3>3
  <2>6. f[1] = v
    BY <1>3, <1>4, <1>r, <1>5, <2>3
  <2>7. QED
    BY <1>2, <1>4, <1>r, <2>1, <2>4, <2>5, <2>6
<1>6. CASE ~TrackedOp(op, result, reg)
  <2>1. f[1] = reg
    BY <1>3, <1>4, <1>r, <1>6
  <2>2. op.path \in Nodes /\ result = "ZOK" => Enter(op, reg[op.path]) = reg[op.path]
    <3>1. SUFFICES ASSUME op.path \in Nodes, result = "ZOK"
                   PROVE  Enter(op, reg[op.path]) = reg[op.path]
      OBVIOUS
    <3>2. op.type # "create" /\ (op.type \in {"delete", "set"} => reg[op.path] = Absent)
      BY <1>6, <3>1 DEF TrackedOp
    <3>3. CASE op.type = "check"
      BY <3>3 DEF Enter
    <3>4. CASE op.type = "delete"
      BY <3>2, <3>4 DEF Enter
    <3>5. CASE op.type = "set"
      BY <3>2, <3>5 DEF Enter
    <3>6. QED
      BY <3>2, <3>3, <3>4, <3>5, OpSays
  <2>3. QED
    BY <1>2, <1>4, <1>r, <2>1, <2>2
<1>7. QED
  BY <1>5, <1>6

\* The batch deletes the parent last, when it has become empty.
LEMMA BatchEmpties ==
  ASSUME NEW ops \in Seq(Ops), NEW t \in Trees, ops # <<>>, Execute(ops, t).rc = "ZOK",
         ops[Len(ops)].path = Parent, ops[Len(ops)].type = "delete"
  PROVE  \A p \in Nodes : Execute(ops, t).tree[p] = Absent
<1> DEFINE n == Len(ops)
<1>1. n \in Nat /\ n >= 1 /\ n \in 1..n /\ n - 1 \in 0..n /\ ops[n] \in Ops
  BY LenProperties, EmptySeq, ElementOfSeq
<1>2. PICK op \in Ops : op = ops[n]
  BY <1>1
<1> HIDE DEF n
<1>3. PICK u \in Trees : u = Steps(ops, t)[n - 1]
  BY <1>1, StepsKeep DEF n
<1>4. Execute(ops, t).tree = Steps(ops, t)[n] /\ Outcome(op, u) = "ZOK"
  BY <1>1, <1>2, <1>3, ExecuteIs DEF n
<1>5. Steps(ops, t)[n] = Change(op, u)
  BY <1>1, <1>2, <1>3, <1>4, StepsSay DEF n
<1>6. op.path = Parent /\ op.type = "delete"
  BY <1>2 DEF n
<1>7. \A p \in Nodes : u[p] = Absent
  BY <1>4, <1>6, NamesDiffer DEF Outcome, Existing
<1>8. QED
  BY <1>4, <1>5, <1>6, <1>7, TreeTouch, NamesDiffer

\* It succeeds when it deletes what there is.
LEMMA BatchSucceeds ==
  ASSUME NEW ops \in Seq(Ops), NEW t \in Trees, ops # <<>>, t[Parent] # Absent,
         \A k \in DOMAIN ops : ops[k].type = "delete",
         ops[Len(ops)].path = Parent,
         \A j, k \in DOMAIN ops : ops[j].path = ops[k].path => j = k,
         \A p \in Nodes : p \in PathsOf(ops) <=> t[p] # Absent
  PROVE  Execute(ops, t).rc = "ZOK"
<1> DEFINE n == Len(ops)
           f == Steps(ops, t)
           Kept(k) ==
             /\ f[k] \in Trees
             /\ \A p \in Nodes : (\A i \in 1..k : ops[i].path # p) => f[k][p] = t[p]
             /\ \A p \in Nodes : (\E i \in 1..k : ops[i].path = p) => f[k][p] = Absent
             /\ k < n => f[k][Parent] # Absent
             /\ \A i \in 1..k : Outcome(ops[i], f[i - 1]) = "ZOK"
           S == {k \in Nat : k <= n => Kept(k)}
<1>1. /\ n \in Nat /\ n >= 1 /\ DOMAIN ops = 1..n /\ n \in 1..n
      /\ \A k \in 1..n : ops[k] \in Ops
  BY LenProperties, EmptySeq, ElementOfSeq
<1>2. /\ f[0] = t
      /\ \A k \in 1..n : Outcome(ops[k], f[k - 1]) = "ZOK" => f[k] = Change(ops[k], f[k - 1])
  BY <1>1, StepsSay
<1> HIDE DEF f
<1>3. 0 \in S
  BY <1>2
<1>4. ASSUME NEW k \in Nat, k \in S PROVE k + 1 \in S
  <2> SUFFICES ASSUME k + 1 <= n PROVE Kept(k + 1)
    OBVIOUS
  <2>1. k + 1 \in 1..n /\ (k + 1) - 1 = k /\ Kept(k) /\ k < n /\ k + 1 \in DOMAIN ops
    BY <1>1, <1>4
  <2>2. PICK u \in Trees, op \in Ops : u = f[k] /\ op = ops[k + 1]
    BY <1>1, <2>1
  <2>3. op.type = "delete" /\ u[Parent] # Absent /\ op.path \in Paths
    BY <2>1, <2>2, OpSays
  <2>4. \A i \in 1..k : i \in DOMAIN ops /\ i # k + 1 /\ ops[i].path # op.path
    <3>1. \A i \in 1..k : i \in DOMAIN ops /\ i # k + 1
      BY <1>1, <2>1
    <3>2. QED
      BY <2>1, <2>2, <3>1
  <2>5. Outcome(op, u) = "ZOK"
    <3>1. CASE op.path \in Nodes
      <4>1. op.path \in PathsOf(ops)
        BY <2>1, <2>2 DEF PathsOf
      <4>2. u[op.path] = t[op.path] /\ t[op.path] # Absent
        BY <2>1, <2>2, <2>4, <3>1, <4>1
      <4>3. QED
        BY <2>3, <3>1, <4>2, NamesDiffer DEF Outcome
    <3>2. CASE op.path = Parent
      <4>1. k + 1 = n
        BY <1>1, <2>1, <2>2, <3>2
      <4>2. ASSUME NEW p \in Nodes PROVE u[p] = Absent
        <5>1. CASE \E i \in 1..k : ops[i].path = p
          BY <2>1, <2>2, <5>1
        <5>2. CASE \A i \in 1..k : ops[i].path # p
          <6>1. \A i \in 1..n : ops[i].path # p
            <7> TAKE i \in 1..n
            <7>1. i \in 1..k \/ i = k + 1
              BY <1>1, <4>1
            <7>2. QED
              BY <2>2, <3>2, <5>2, <7>1, NamesDiffer
          <6>2. p \notin PathsOf(ops)
            BY <1>1, <6>1 DEF PathsOf
          <6>3. QED
            BY <2>1, <2>2, <5>2, <6>2
        <5>3. QED
          BY <5>1, <5>2
      <4>3. Existing(u) = {}
        BY <4>2 DEF Existing
      <4>4. QED
        BY <2>3, <3>2, <4>3 DEF Outcome
    <3>3. QED
      BY <2>3, <3>1, <3>2, NamesDiffer
  <2>6. PICK v : v = Change(op, u) /\ v = f[k + 1]
    BY <1>2, <2>1, <2>2, <2>5
  <2>7. v \in Trees /\ \A q \in Paths : q # op.path => v[q] = u[q]
    <3>1. Change(op, u) \in Trees
      BY <2>5, TreeChange
    <3>2. \A q \in Paths : q # op.path => Change(op, u)[q] = u[q]
      BY TreeTouch
    <3>3. QED
      BY <2>6, <3>1, <3>2
  <2>8. v[op.path] = Absent
    <3>1. u = [q \in DOMAIN u |-> u[q]] /\ DOMAIN u = Paths /\ op.path \in DOMAIN u
      BY <2>3 DEF Trees
    <3>2. Change(op, u)[op.path] = Absent
      BY <2>3, <3>1, ChangeSays
    <3>3. QED
      BY <2>6, <3>2
  <2>9. \A i \in 1..(k + 1) : i \in 1..k \/ i = k + 1
    BY <2>1
  <2>10. ASSUME NEW p \in Nodes, \A i \in 1..(k + 1) : ops[i].path # p
         PROVE  v[p] = t[p]
    <3>1. p # op.path /\ \A i \in 1..k : ops[i].path # p
      BY <2>1, <2>2, <2>10
    <3>2. QED
      BY <2>1, <2>2, <2>7, <3>1, NamesDiffer
  <2>11. ASSUME NEW p \in Nodes, NEW i \in 1..(k + 1), ops[i].path = p
         PROVE  v[p] = Absent
    <3>1. CASE p = op.path
      BY <2>8, <3>1
    <3>2. CASE p # op.path
      <4>1. i \in 1..k
        BY <2>2, <2>9, <2>11, <3>2
      <4>2. u[p] = Absent
        BY <2>1, <2>2, <2>11, <4>1
      <4>3. QED
        BY <2>7, <3>2, <4>2, NamesDiffer
    <3>3. QED
      BY <3>1, <3>2
  <2>12. k + 1 < n => v[Parent] # Absent
    <3>1. SUFFICES ASSUME k + 1 < n PROVE op.path # Parent
      BY <2>3, <2>7, NamesDiffer
    <3>2. k + 1 # n
      BY <3>1, <1>1
    <3>3. QED
      BY <1>1, <2>1, <2>2, <3>2
  <2>13. \A i \in 1..(k + 1) : Outcome(ops[i], f[i - 1]) = "ZOK"
    BY <2>1, <2>2, <2>5, <2>9
  <2>14. QED
    BY <2>6, <2>7, <2>10, <2>11, <2>12, <2>13
<1> HIDE DEF S
<1>5. \A k \in Nat : k \in S
  BY <1>3, <1>4, SetInduction
<1>6. \A k \in 1..n : Outcome(ops[k], f[k - 1]) = "ZOK"
  BY <1>1, <1>5 DEF S
<1>7. QED
  BY <1>6, ExecuteOK DEF f


-----------------------------------------------------------------------------
(* Calling.                                                                *)

\* What a call leaves for its callback makes of the entry what the operation does.
CalledWith(r) ==
  /\ r \in RequestType /\ requests' = Append(requests, r)
  /\ user.pc = "idle" /\ link = "up" /\ ~m_need_resume_env /\ ~Resuming
  /\ UNCHANGED <<tree, link, completions, m_ephemeral_node_info, m_need_resume_env, zk,
                 doubt, orphans>>
  /\ user' = IF r.call \in AsyncCalls THEN user
             ELSE [pc |-> "sent", call |-> r.call, ops |-> r.ops, ctx |-> r.ctx]
  /\ r.call \notin {"DeletePathMulti", "CreateExistSkipSet"}
  /\ r.call \in AsyncCalls => \A p \in Nodes : p \in PathsOf(r.ops) =>
       Fits(r, p, m_ephemeral_node_info[p])
  /\ r.call = "CreateExistSkip" => \A p \in Nodes : r.ctx.path = p /\ tree[p] # Absent =>
       \A f \in Fields \ {"Data"} : tree[p][f] = r.ctx.info[f]
  /\ ShapeOK(r.call, r.ops, r.ctx)

LEMMA CalledWithSays ==
  ASSUME ResumeWaits, NEW call, NEW ops, NEW ctx, Call(call, ops, ctx),
         NEW r \in RequestType, r = [call |-> call, ops |-> ops, ctx |-> ctx],
         call \notin {"DeletePathMulti", "CreateExistSkipSet"},
         call \in AsyncCalls => \A p \in Nodes : p \in PathsOf(ops) =>
           Fits(r, p, m_ephemeral_node_info[p]),
         call = "CreateExistSkip" => \A p \in Nodes : ctx.path = p /\ tree[p] # Absent =>
           \A f \in Fields \ {"Data"} : tree[p][f] = ctx.info[f],
         ShapeOK(call, ops, ctx)
  PROVE  CalledWith(r)
<1>1. r.call = call /\ r.ops = ops /\ r.ctx = ctx
  OBVIOUS
<1>2. /\ user.pc = "idle" /\ link = "up" /\ ~m_need_resume_env /\ ~Resuming
      /\ UNCHANGED <<tree, link, completions, m_ephemeral_node_info, m_need_resume_env, zk,
                     doubt, orphans>>
  BY DEF Call, Calling, server, registry
<1>3. /\ requests' = Append(requests, r)
      /\ user' = IF r.call \in AsyncCalls THEN user
                 ELSE [pc |-> "sent", call |-> r.call, ops |-> r.ops, ctx |-> r.ctx]
  BY <1>1 DEF Call, Send
<1>4. QED
  BY <1>1, <1>2, <1>3 DEF CalledWith

\* On an expired session a call is refused.
RefusedWith ==
  /\ link = "expired" /\ user.pc \in {"idle", "answered"} /\ ~Resuming
  /\ user.pc = "idle" => ~m_need_resume_env
  /\ UNCHANGED <<tree, link, requests, completions, m_ephemeral_node_info,
                 m_need_resume_env, zk, doubt, orphans>>
  /\ user'.pc = "answered" /\ user'.rc = "ZINVALIDSTATE"
  /\ ShapeOK(user'.call, user'.ops, user'.ctx)

LEMMA RequestSays ==
  ASSUME NEW call \in AsyncCalls \union SyncCalls, NEW op \in Ops, NEW ctx \in Ctxs
  PROVE  [call |-> call, ops |-> <<op>>, ctx |-> ctx] \in RequestType
  BY OneOp DEF RequestType

LEMMA CallFits ==
  ASSUME ResumeWaits, OneOperation, NoZeroSkips, MemoryTypes, UserCall
  PROVE  RefusedWith \/ \E r : CalledWith(r)
<1> DEFINE reg == m_ephemeral_node_info
           R(call, ops, ctx) == [call |-> call, ops |-> ops, ctx |-> ctx]
<1> USE NodeOpsSay
<1>r. reg \in Registries
  BY DEF MemoryTypes
<1>n. \A p \in Nodes : p # Absent /\ p # Parent
  BY NamesDiffer
<1>c. /\ \A call \in {"ACreate", "ASet", "ASetAcl", "ADelete", "AMulti"} : call \in AsyncCalls
      /\ \A call \in {"Create", "CreateExistSkip", "Set", "SetAcl", "Delete", "Multi",
                      "CreatePathRecursion", "DeletePathRecursion"} :
           call \in SyncCalls /\ call \notin AsyncCalls
  BY DEF AsyncCalls, SyncCalls
\* A synchronous call of one operation that is not a check.
<1>s. ASSUME NEW call \in {"Create", "Set", "SetAcl", "Delete"}, NEW op \in Ops,
             Call(call, <<op>>, NoCtx)
      PROVE  \E r : CalledWith(r)
  <2>1. R(call, <<op>>, NoCtx) \in RequestType
    BY <1>c, RequestSays, CtxSays
  <2>2. ShapeOK(call, <<op>>, NoCtx)
    BY OneOp DEF ShapeOK
  <2>3. QED
    BY <1>c, <1>s, <2>1, <2>2, CalledWithSays
\* An asynchronous one of one operation.
<1>a. ASSUME NEW call \in {"ACreate", "ASet", "ASetAcl", "ADelete"}, NEW op \in Ops,
             NEW ctx \in Ctxs, Call(call, <<op>>, ctx), op.path \in Nodes,
             Enter(op, reg[op.path]) = IF ctx.path = op.path THEN ctx.info ELSE reg[op.path]
      PROVE  \E r : CalledWith(r)
  <2>1. PICK r \in RequestType : r = R(call, <<op>>, ctx)
    BY <1>c, RequestSays
  <2>2. ShapeOK(call, <<op>>, ctx)
    BY OneOp DEF ShapeOK
  <2>3. \A p \in Nodes : p \in PathsOf(<<op>>) => Fits(r, p, reg[p])
    <3>1. r.ops[1] = op /\ r.ctx = ctx /\ PathsOf(<<op>>) = {op.path}
      BY <2>1, OneOp
    <3>2. QED
      BY <1>a, <3>1 DEF Fits
  <2>4. QED
    BY <1>a, <1>c, <2>1, <2>2, <2>3, CalledWithSays
<1>1. ASSUME NEW p \in Nodes, NEW i \in Info, Create(p, i) PROVE \E r : CalledWith(r)
  BY <1>1, <1>s DEF Create
<1>2. ASSUME NEW p \in Nodes, NEW i \in Info, CreateExistSkip(p, i)
      PROVE  \E r : CalledWith(r)
  <2> DEFINE ctx == [path |-> p, info |-> i]
  <2>1. ctx \in Ctxs /\ ctx.path = p /\ ctx.info = i
    BY CtxSays
  <2>2. CheckOp(p).type = "check"
    BY DEF CheckOp
  <2>3. /\ Call("CreateExistSkip", <<CheckOp(p)>>, ctx)
        /\ tree[p] # Absent => \A f \in Fields \ {"Data"} : tree[p][f] = i[f]
        /\ i["Data"] \notin Zeros
    BY <1>2 DEF CreateExistSkip
  <2> HIDE DEF ctx
  <2>4. ShapeOK("CreateExistSkip", <<CheckOp(p)>>, ctx)
    BY <2>1, <2>2, <2>3, OneOp DEF ShapeOK
  <2>5. R("CreateExistSkip", <<CheckOp(p)>>, ctx) \in RequestType
    BY <1>c, <2>1, RequestSays
  <2>6. QED
    BY <1>c, <2>1, <2>3, <2>4, <2>5, CalledWithSays
<1>3. ASSUME NEW p \in Nodes, NEW i \in Info, ACreate(p, i) PROVE \E r : CalledWith(r)
  <2>1. PICK ctx \in Ctxs : ctx = [path |-> p, info |-> i]
    BY CtxSays
  <2>2. PICK op \in Ops : op = CreateOp(p, i)
    OBVIOUS
  <2>3. Call("ACreate", <<op>>, ctx)
    BY <1>3, <2>1, <2>2 DEF ACreate
  <2>4. op.type = "create" /\ op.path = p /\ op.info = i /\ ctx.path = p /\ ctx.info = i
    BY <2>1, <2>2 DEF CreateOp
  <2>5. Enter(op, reg[p]) = i
    BY <2>4 DEF Enter
  <2>6. QED
    BY <1>a, <2>3, <2>4, <2>5
<1>4. ASSUME NEW p \in Nodes, NEW v \in Values, Set(p, v) \/ SetAcl(p, v)
      PROVE  \E r : CalledWith(r)
  BY <1>4, <1>s DEF Set, SetAcl
<1>5. ASSUME NEW p \in Nodes, NEW v \in Values, ASet(p, v) \/ ASetAcl(p, v)
      PROVE  \E r : CalledWith(r)
  <2>1. PICK call \in {"ASet", "ASetAcl"}, f \in {"Data", "Acl"} :
          Call(call, <<SetOp(p, f, v)>>, Snapshot(p, f, v))
    BY <1>5 DEF ASet, ASetAcl
  <2>2. PICK op \in Ops : op = SetOp(p, f, v)
    OBVIOUS
  <2>3. op.type = "set" /\ op.path = p /\ op.field = f /\ op.value = v
    BY <2>2 DEF SetOp
  <2>4. PICK ctx : ctx = Snapshot(p, f, v)
    OBVIOUS
  <2>5. CASE reg[p] = Absent
    <3>1. ctx \in Ctxs /\ ctx.path # p
      BY <1>n, <2>4, <2>5, CtxSays DEF Snapshot
    <3>2. Enter(op, reg[p]) = reg[p]
      BY <2>3, <2>5 DEF Enter
    <3>3. QED
      BY <1>a, <2>1, <2>2, <2>3, <2>4, <3>1, <3>2
  <2>6. CASE reg[p] # Absent
    <3>1. PICK j \in Info : j = [reg[p] EXCEPT ![f] = v]
      BY <1>r, <2>6, RegistrySays, InfoSet
    <3>2. ctx = [path |-> p, info |-> j]
      BY <2>4, <2>6, <3>1 DEF Snapshot
    <3>3. ctx \in Ctxs /\ ctx.path = p /\ ctx.info = j
      BY <3>2, CtxSays
    <3>4. Enter(op, reg[p]) = j
      BY <2>3, <2>6, <3>1 DEF Enter
    <3>5. QED
      BY <1>a, <2>1, <2>2, <2>3, <2>4, <3>3, <3>4
  <2>7. QED
    BY <2>5, <2>6
<1>6. ASSUME NEW p \in Nodes, Delete(p) PROVE \E r : CalledWith(r)
  BY <1>6, <1>s DEF Delete
<1>7. ASSUME NEW p \in Nodes, ADelete(p) PROVE \E r : CalledWith(r)
  <2>1. PICK ctx : ctx = IF reg[p] = Absent THEN NoCtx ELSE [path |-> p, info |-> Absent]
    OBVIOUS
  <2>2. PICK op \in Ops : op = DeleteOp(p)
    OBVIOUS
  <2>3. Call("ADelete", <<op>>, ctx)
    BY <1>7, <2>1, <2>2 DEF ADelete
  <2>4. op.type = "delete" /\ op.path = p
    BY <2>2 DEF DeleteOp
  <2>5. /\ ctx \in Ctxs /\ ctx.info = Absent
        /\ ctx.path = p \/ (ctx.path # p /\ reg[p] = Absent)
    BY <1>n, <2>1, CtxSays
  <2>6. Enter(op, reg[p]) = Absent
    BY <2>4 DEF Enter
  <2>7. QED
    BY <1>a, <2>3, <2>4, <2>5, <2>6
<1>8. ASSUME NEW ops \in MultiLists, Multi(ops) \/ AMulti(ops) PROVE \E r : CalledWith(r)
  <2>1. ops \in Seq(Ops)
    <3>1. ops \in Seq(NodeOps)
      BY MultiAssumption
    <3>2. QED
      BY <3>1
  <2>2. PICK call \in {"Multi", "AMulti"} : Call(call, ops, NoCtx)
    BY <1>8 DEF Multi, AMulti
  <2>3. PICK r \in RequestType : r = R(call, ops, NoCtx)
    BY <1>c, <2>1, CtxSays DEF RequestType
  <2>4. Len(ops) = 1
    BY DEF OneOperation
  <2>5. ShapeOK(call, ops, NoCtx)
    BY <2>4 DEF ShapeOK
  <2>6. call \in AsyncCalls => \A p \in Nodes : Fits(r, p, reg[p])
    BY <1>c, <2>3 DEF Fits
  <2>7. QED
    BY <2>2, <2>3, <2>5, <2>6, CalledWithSays
<1>m. ASSUME NEW ops \in MultiLists, MultiRefused(ops) PROVE RefusedWith
  <2>1. /\ link = "expired" /\ user.pc = "idle" /\ ~Resuming /\ ~m_need_resume_env
        /\ UNCHANGED <<tree, link, requests, completions, m_ephemeral_node_info,
                       m_need_resume_env, zk, doubt, orphans>>
        /\ user'.pc = "answered" /\ user'.rc = "ZINVALIDSTATE"
        /\ user'.call = "Multi" /\ user'.ops = ops
    BY <1>m DEF MultiRefused, Calling, Refuse, server, registry
  <2>2. ShapeOK(user'.call, user'.ops, user'.ctx)
    BY <2>1 DEF OneOperation, ShapeOK
  <2>3. QED
    BY <2>1, <2>2 DEF RefusedWith
<1>9. ASSUME CreatePathRecursion \/ DeletePathRecursion PROVE \E r : CalledWith(r)
  <2>1. PICK call \in {"CreatePathRecursion", "DeletePathRecursion"} :
          Call(call, <<CheckOp(Parent)>>, NoCtx)
    BY <1>9 DEF CreatePathRecursion, DeletePathRecursion
  <2>2. CheckOp(Parent).type = "check" /\ CheckOp(Parent).path = Parent
    BY DEF CheckOp
  <2>3. ShapeOK(call, <<CheckOp(Parent)>>, NoCtx)
    BY <2>2, OneOp DEF ShapeOK
  <2>4. R(call, <<CheckOp(Parent)>>, NoCtx) \in RequestType
    BY <1>c, RequestSays, CtxSays
  <2>5. QED
    BY <1>c, <2>1, <2>3, <2>4, CalledWithSays
<1>10. QED
  BY <1>1, <1>2, <1>3, <1>4, <1>5, <1>6, <1>7, <1>8, <1>m, <1>9 DEF UserCall

\* A request is added to the pipe.
LEMMA SendSays ==
  ASSUME PipeInv, NEW r \in RequestType, requests' = Append(requests, r)
  PROVE  /\ Len(requests') = Len(requests) + 1 /\ Len(requests) \in Nat
         /\ \A k \in DOMAIN requests' :
              \/ k \in DOMAIN requests /\ requests'[k] = requests[k]
              \/ k = Len(requests') /\ requests'[k] = r
  BY AppendSays DEF PipeInv, PipeTypes

LEMMA RegistryCalled ==
  ASSUME PipeInv, NEW p \in Nodes, RegistryInv(p), NEW r, CalledWith(r)
  PROVE  RegistryInv(p)'
<1> DEFINE reg == m_ephemeral_node_info
<1>1. /\ r \in RequestType /\ user.pc = "idle" /\ link = "up" /\ ~m_need_resume_env /\ ~Resuming
      /\ tree' = tree /\ link' = link /\ completions' = completions /\ reg' = reg
      /\ m_need_resume_env' = m_need_resume_env /\ zk' = zk /\ doubt' = doubt
      /\ orphans' = orphans /\ requests' = Append(requests, r)
  BY DEF CalledWith
<1>2. /\ user' = user \/ (user'.pc = "sent" /\ user'.call = r.call /\ user'.ctx = r.ctx)
      /\ user'.pc # "answered" /\ user'.pc # "erase"
      /\ user'.pc = "sent" => user'.call # "DeletePathMulti" /\ user'.call # "CreateExistSkipSet"
  BY <1>1 DEF CalledWith
<1>3. \A k \in DOMAIN requests' :
        \/ k \in DOMAIN requests /\ requests'[k] = requests[k]
        \/ k = Len(requests') /\ requests'[k] = r
  BY <1>1, SendSays
<1>4. \A k \in DOMAIN completions : AnswerOn(k, p)' <=> AnswerOn(k, p)
  BY <1>1 DEF AnswerOn, IsAnswer
<1>5. ~Resuming' /\ ~AtNode'
  BY <1>1 DEF Resuming, AtNode
<1>6. Fitting(p)'
  <2>1. \A k \in DOMAIN requests' : RequestOn(k, p)' /\ requests'[k].call \in AsyncCalls =>
          Fits(requests'[k], p, reg[p])
    <3> SUFFICES ASSUME NEW k \in DOMAIN requests', RequestOn(k, p)',
                        requests'[k].call \in AsyncCalls
                 PROVE  Fits(requests'[k], p, reg[p])
      OBVIOUS
    <3>1. CASE k \in DOMAIN requests /\ requests'[k] = requests[k]
      BY <3>1 DEF RegistryInv, Fitting, RequestOn
    <3>2. CASE requests'[k] = r
      BY <3>2 DEF CalledWith, RequestOn
    <3>3. QED
      BY <1>3, <3>1, <3>2
  <2>2. \A k \in DOMAIN completions' : AnswerOn(k, p)' => Fits(completions'[k], p, reg[p])
    BY <1>1, <1>4 DEF RegistryInv, Fitting
  <2>3. QED
    BY <1>1, <2>1, <2>2 DEF Fitting
<1>7. Agreed(p)'
  <2> SUFFICES ASSUME Current(p)' PROVE Agreed(p)'
    BY DEF Agreed
  <2>1. Current(p)
    BY <1>1 DEF Current
  <2>2. Untold(p)' => Valid(p, reg[p])'
    <3>1. Untold(p)' => Untold(p)
      BY <1>1, <1>4 DEF Untold, UserTells, Wiped
    <3>2. QED
      BY <1>1, <2>1, <3>1 DEF RegistryInv, Agreed, Valid
  <2>3. \A k \in DOMAIN completions' : AnswerOn(k, p)' =>
          /\ ResultIsCode(completions'[k])
          /\ Valid(p, Answered(completions[k], reg[p]))'
    BY <1>1, <1>4, <2>1 DEF RegistryInv, Agreed, Valid
  <2>4. QED
    BY <1>1, <1>2, <2>2, <2>3 DEF Agreed, UserTells, Valid, Answered
<1>8. Emptied(p)' /\ Listed(p)'
  BY <1>2 DEF Emptied, Listed, Wiped
<1>9. Skipped(p)'
  BY <1>1, <1>2 DEF CalledWith, Skipped, Skipping
<1>10. Lapsed(p)' /\ Recreating(p)' /\ Outside(p)'
  BY <1>1, <1>5 DEF Lapsed, Recreating, RegistryInv, Outside
<1>11. QED
  BY <1>6, <1>7, <1>8, <1>9, <1>10 DEF RegistryInv

LEMMA ShapesCalled ==
  ASSUME PipeInv, ShapesOK, OrphansWait, NEW r, CalledWith(r)
  PROVE  ShapesOK' /\ OrphansWait'
<1>1. /\ r \in RequestType /\ completions' = completions /\ ~m_need_resume_env /\ user.pc = "idle"
      /\ m_need_resume_env' = m_need_resume_env /\ requests' = Append(requests, r)
      /\ ShapeOK(r.call, r.ops, r.ctx)
  BY DEF CalledWith
<1>2. \/ user' = user
      \/ user'.call = r.call /\ user'.ops = r.ops /\ user'.ctx = r.ctx
  BY DEF CalledWith
<1>3. \A k \in DOMAIN requests' : ShapeOK(requests'[k].call, requests'[k].ops, requests'[k].ctx)
  BY <1>1, SendSays DEF ShapesOK
<1>4. UserCalls' => ShapeOK(user'.call, user'.ops, user'.ctx)
  BY <1>1, <1>2 DEF ShapesOK, UserCalls
<1>5. QED
  BY <1>1, <1>3, <1>4 DEF ShapesOK, OrphansWait, IsAnswer

LEMMA RegistryRefused ==
  ASSUME NEW p \in Nodes, RegistryInv(p), RefusedWith
  PROVE  RegistryInv(p)'
<1>1. /\ tree' = tree /\ link' = link /\ requests' = requests /\ completions' = completions
      /\ m_ephemeral_node_info' = m_ephemeral_node_info
      /\ m_need_resume_env' = m_need_resume_env /\ zk' = zk /\ doubt' = doubt
      /\ orphans' = orphans /\ link = "expired"
      /\ user'.pc = "answered" /\ user'.rc = "ZINVALIDSTATE"
  BY DEF RefusedWith
<1>2. /\ \A k \in DOMAIN completions : AnswerOn(k, p)' <=> AnswerOn(k, p)
      /\ \A k \in DOMAIN requests : RequestOn(k, p)' <=> RequestOn(k, p)
      /\ ~Current(p)' /\ ~Wiped' /\ ~Skipping(p)'
  BY <1>1 DEF AnswerOn, IsAnswer, RequestOn, Current, Wiped, Skipping
<1>3. Fitting(p)'
  BY <1>1, <1>2 DEF RegistryInv, Fitting
<1>4. Agreed(p)' /\ Emptied(p)' /\ Listed(p)' /\ Skipped(p)'
  BY <1>1, <1>2 DEF Agreed, Emptied, Listed, Skipped
<1>5. Lapsed(p)' /\ Recreating(p)' /\ Outside(p)'
  BY <1>1 DEF RegistryInv, Lapsed, Recreating, Resuming, AtNode, Outside
<1>6. QED
  BY <1>3, <1>4, <1>5 DEF RegistryInv

LEMMA ShapesRefused ==
  ASSUME ShapesOK, OrphansWait, RefusedWith
  PROVE  ShapesOK' /\ OrphansWait'
  BY DEF ShapesOK, OrphansWait, RefusedWith, IsAnswer, UserCalls

-----------------------------------------------------------------------------
(* The bookkeeping of a synchronous call.                                  *)

\* A synchronous call ends: what it does to the entries.
EndedWith ==
  /\ user.pc \in {"answered", "erase"} /\ user' \in {Idle, [pc |-> "erase"]} /\ ~Resuming
  /\ UNCHANGED <<tree, link, requests, completions, m_need_resume_env, zk, doubt>>
  /\ \/ orphans' = orphans /\ m_ephemeral_node_info' = m_ephemeral_node_info
     \/ orphans' = {p \in orphans : m_ephemeral_node_info'[p] = Absent}
  /\ user.pc = "erase" => \A p \in Nodes : m_ephemeral_node_info'[p] = Absent
  /\ user.pc = "answered" =>
       /\ Wiped <=> user'.pc = "erase"
       /\ \A p \in Nodes :
            /\ p \notin PathsOf(user.ops)
                 => m_ephemeral_node_info'[p] = m_ephemeral_node_info[p]
            /\ UserTells(p) /\ ResultIsCode(user)
                 => m_ephemeral_node_info'[p] = Returned(user, m_ephemeral_node_info[p])

\* An operation on a path of the registry makes of its entry what Enter says.
LEMMA EnterSays ==
  ASSUME NEW op \in Ops, NEW info \in Registries, op.path \in Nodes,
         op.type = "create" \/ (op.type \in {"delete", "set"} /\ info[op.path] # Absent)
  PROVE  Change(op, info)[op.path] = Enter(op, info[op.path])
<1>1. info = [q \in DOMAIN info |-> info[q]] /\ op.path \in DOMAIN info
  BY DEF Registries
<1>2. CASE op.type = "create"
  BY <1>1, <1>2, ChangeSays DEF Enter
<1>3. CASE op.type = "delete"
  BY <1>1, <1>3, ChangeSays DEF Enter
<1>4. CASE op.type = "set"
  <2>1. Change(op, info)[op.path] = [info[op.path] EXCEPT ![op.field] = op.value]
    BY <1>1, <1>4, ChangeSays
  <2>2. QED
    BY <1>4, <2>1 DEF Enter
<1>5. QED
  BY <1>2, <1>3, <1>4

\* Other returns than those of DeletePathRecursion.
LEMMA EndedBy ==
  ASSUME NEW calls, Returns(calls), user.call \notin {"DeletePathMulti", "DeletePathRecursion"},
         Finished, NEW info,
         Register(info) \/ (UNCHANGED <<m_ephemeral_node_info, orphans>>
                              /\ info = m_ephemeral_node_info),
         \A p \in Nodes : p \notin PathsOf(user.ops) => info[p] = m_ephemeral_node_info[p],
         \A p \in Nodes : p \in PathsOf(user.ops) /\ ResultIsCode(user) =>
           info[p] = Returned(user, m_ephemeral_node_info[p])
  PROVE  EndedWith
<1>1. user.pc = "answered" /\ ~Resuming
  BY DEF Returns, LockFree
<1>2. /\ user' = Idle /\ user'.pc # "erase"
      /\ UNCHANGED <<tree, link, requests, completions, m_need_resume_env, zk, doubt>>
  BY DEF Finished, server, pipe, Idle
<1>3. ~Wiped
  BY <1>1 DEF Wiped
<1>4. /\ m_ephemeral_node_info' = info
      /\ \/ orphans' = orphans /\ m_ephemeral_node_info' = m_ephemeral_node_info
         \/ orphans' = {p \in orphans : m_ephemeral_node_info'[p] = Absent}
  BY DEF Register
<1>5. QED
  BY <1>1, <1>2, <1>3, <1>4 DEF EndedWith, UserTells

LEMMA UserShape ==
  ASSUME PipeInv, ShapesOK, user.pc = "answered", user.call # "DeletePathMulti"
  PROVE  /\ Len(user.ops) = 1 /\ user.ops[1] \in Ops /\ PathsOf(user.ops) = {user.ops[1].path}
         /\ user.call \in {"CreatePathRecursion", "DeletePathRecursion"}
              => user.ops[1].path = Parent
         /\ CallOK(user.call, user.ops, user.ctx)
<1>1. ShapeOK(user.call, user.ops, user.ctx)
  BY DEF ShapesOK, UserCalls
<1>2. Len(user.ops) = 1
        /\ (user.call \in {"CreatePathRecursion", "DeletePathRecursion"}
              => user.ops[1].path = Parent)
  BY <1>1 DEF ShapeOK
<1>3. QED
  BY <1>2, AnsweredSays

LEMMA EndedSingle ==
  ASSUME PipeInv, ShapesOK, m_ephemeral_node_info \in Registries,
         CreateReturn \/ SetReturn \/ DeleteReturn
  PROVE  EndedWith
<1> DEFINE reg == m_ephemeral_node_info
<1>1. /\ Returns({"Create"}) \/ Returns({"Set", "SetAcl"}) \/ Returns({"Delete"})
      /\ user.pc = "answered" /\ user.call \in {"Create", "Set", "SetAcl", "Delete"} /\ Finished
  BY DEF CreateReturn, SetReturn, DeleteReturn, Returns
<1>2. PICK op \in Ops : op = user.ops[1] /\ op.path \in Nodes /\ PathsOf(user.ops) = {op.path}
  BY <1>1, UserShape DEF CallOK
<1>3. /\ user.call = "Create" => op.type = "create"
      /\ user.call \in {"Set", "SetAcl"} => op.type = "set"
      /\ user.call = "Delete" => op.type = "delete"
  BY <1>1, <1>2, UserShape DEF CallOK
<1>4. \A v : Returned(user, v) = IF user.rc = "ZOK" THEN Enter(op, v) ELSE v
  BY <1>1, <1>2 DEF Returned, Answered
<1>5. ASSUME NEW info, \A q \in Nodes : q # op.path => info[q] = reg[q],
             info[op.path] = IF user.rc = "ZOK" THEN Enter(op, reg[op.path]) ELSE reg[op.path],
             Register(info) \/ (UNCHANGED <<reg, orphans>> /\ info = reg)
      PROVE  EndedWith
  BY <1>1, <1>2, <1>4, <1>5, EndedBy
<1>6. CASE user.rc # "ZOK"
  <2>1. Register(reg) \/ UNCHANGED <<reg, orphans>>
    BY <1>6 DEF CreateReturn, SetReturn, DeleteReturn
  <2>2. QED
    BY <1>5, <1>6, <2>1
<1>7. CASE user.rc = "ZOK" /\ user.call \in {"Create", "Set", "SetAcl"}
           /\ (op.type = "create" \/ reg[op.path] # Absent)
  <2>1. Register(Change(op, reg))
    BY <1>2, <1>3, <1>7 DEF CreateReturn, SetReturn, DeleteReturn, Returns
  <2>2. /\ \A q \in Nodes : q # op.path => Change(op, reg)[q] = reg[q]
        /\ Change(op, reg)[op.path] = Enter(op, reg[op.path])
    BY <1>2, <1>3, <1>7, RegistryTouch, EnterSays
  <2>3. QED
    BY <1>5, <1>7, <2>1, <2>2
<1>8. CASE user.rc = "ZOK" /\ op.type = "set" /\ reg[op.path] = Absent
  <2>1. Register(reg)
    BY <1>1, <1>2, <1>3, <1>8 DEF CreateReturn, SetReturn, DeleteReturn, Returns
  <2>2. Enter(op, reg[op.path]) = reg[op.path]
    BY <1>8 DEF Enter
  <2>3. QED
    BY <1>5, <1>8, <2>1, <2>2
<1>9. CASE user.rc = "ZOK" /\ user.call = "Delete"
  <2>1. Register([reg EXCEPT ![op.path] = Absent])
    BY <1>2, <1>9 DEF CreateReturn, SetReturn, DeleteReturn, Returns
  <2>2. PICK info : info = [reg EXCEPT ![op.path] = Absent]
    OBVIOUS
  <2>3. info[op.path] = Absent /\ \A q \in Nodes : q # op.path => info[q] = reg[q]
    BY <1>2, <2>2, RegistrySays
  <2>4. Enter(op, reg[op.path]) = Absent
    BY <1>3, <1>9 DEF Enter
  <2>5. QED
    BY <1>5, <1>9, <2>1, <2>2, <2>3, <2>4
<1>10. QED
  BY <1>1, <1>3, <1>6, <1>7, <1>8, <1>9

LEMMA EndedSkip ==
  ASSUME PipeInv, ShapesOK, m_ephemeral_node_info \in Registries, CreateExistSkipReturn
  PROVE  EndedWith
<1> DEFINE reg == m_ephemeral_node_info
<1>1. /\ Returns({"CreateExistSkip", "CreateExistSkipSet"}) /\ user.pc = "answered"
      /\ Finished /\ user.call \in {"CreateExistSkip", "CreateExistSkipSet"}
  BY DEF CreateExistSkipReturn, Returns
<1>z. user.rc = "ZOK" => user.call = "CreateExistSkipSet"
  <2>1. ShapeOK(user.call, user.ops, user.ctx)
    BY <1>1 DEF ShapesOK, UserCalls
  <2>2. QED
    BY <1>1, <2>1 DEF CreateExistSkipReturn, ShapeOK
<1>2. PICK q \in Nodes, i \in Info \union {Absent} :
        q = user.ctx.path /\ i = user.ctx.info /\ PathsOf(user.ops) = {q}
  BY <1>1, UserShape DEF CallOK
<1>3. CASE user.rc = "ZOK"
  <2>1. PICK info : info = [reg EXCEPT ![q] = i]
    OBVIOUS
  <2>2. Register(info)
    BY <1>2, <1>3, <2>1 DEF CreateExistSkipReturn
  <2>3. info[q] = i /\ \A p \in Nodes : p # q => info[p] = reg[p]
    BY <2>1, RegistrySays
  <2>4. \A v : Returned(user, v) = i
    BY <1>1, <1>z, <1>2, <1>3 DEF Returned
  <2>5. QED
    BY <1>1, <1>2, <2>2, <2>3, <2>4, EndedBy
<1>4. CASE user.rc # "ZOK"
  <2>1. Register(reg)
    BY <1>4 DEF CreateExistSkipReturn
  <2>2. \A v : Returned(user, v) = v
    BY <1>4 DEF Returned, Answered
  <2>3. QED
    BY <1>1, <2>1, <2>2, EndedBy
<1>5. QED
  BY <1>3, <1>4

LEMMA EndedMulti ==
  ASSUME PipeInv, ShapesOK, m_ephemeral_node_info \in Registries, MultiReturn
  PROVE  EndedWith
<1> DEFINE reg == m_ephemeral_node_info
<1>1. /\ Returns({"Multi", "CreatePathMulti"}) /\ user.pc = "answered" /\ Finished
      /\ user.call \in {"Multi", "CreatePathMulti"}
  BY DEF MultiReturn, Returns
<1>2. PICK ops \in Seq(Ops) : ops = user.ops /\ Len(ops) = 1 /\ PathsOf(ops) = {ops[1].path}
  BY <1>1, UserShape, AnsweredSays
<1>3. PICK results : results = user.results
  OBVIOUS
<1>4. PICK info : info = ProcMultiEphemeralNode(ops, results)
  OBVIOUS
<1>5. Register(info)
  BY <1>2, <1>3, <1>4 DEF MultiReturn
<1>6. \A p \in Nodes : info[p] = IF p = ops[1].path /\ results[1] = "ZOK"
                                 THEN Enter(ops[1], reg[p]) ELSE reg[p]
  BY <1>2, <1>4, ProcOne
<1>7. \A v : ResultIsCode(user) =>
        Returned(user, v) = IF results[1] = "ZOK" THEN Enter(ops[1], v) ELSE v
  BY <1>1, <1>2, <1>3 DEF Returned, Answered, ResultIsCode
<1>8. QED
  BY <1>1, <1>2, <1>5, <1>6, <1>7, EndedBy

LEMMA EndedDelete ==
  ASSUME PipeInv, m_ephemeral_node_info \in Registries, DeletePathReturn \/ DeletePathErase
  PROVE  EndedWith
<1> DEFINE reg == m_ephemeral_node_info
<1>1. CASE DeletePathReturn
  <2>1. /\ user.pc = "answered" /\ user.call = "DeletePathMulti" /\ ~Resuming
        /\ Register(ProcMultiEphemeralNode(user.ops, user.results))
        /\ UNCHANGED <<tree, link, requests, completions, m_need_resume_env, zk, doubt>>
        /\ user' = IF user.rc = "ZOK" THEN [pc |-> "erase"] ELSE Idle
    BY <1>1 DEF DeletePathReturn, Returns, LockFree, server, pipe
  <2>2. user'.pc = "erase" <=> user.rc = "ZOK"
    BY <2>1 DEF Idle
  <2>3. Wiped <=> user.rc = "ZOK"
    BY <2>1 DEF Wiped
  <2>4. PICK ops \in Seq(Ops) : ops = user.ops
    BY <2>1, AnsweredSays
  <2>5. PICK results : results = user.results
    OBVIOUS
  <2>6. \A p \in Nodes : p \notin PathsOf(ops) => ProcMultiEphemeralNode(ops, results)[p] = reg[p]
    BY ProcMultiSays
  <2>7. /\ reg' = ProcMultiEphemeralNode(ops, results)
        /\ orphans' = {p \in orphans : reg'[p] = Absent}
    BY <2>1, <2>4, <2>5 DEF Register
  <2>8. QED
    BY <2>1, <2>2, <2>3, <2>4, <2>6, <2>7 DEF EndedWith, UserTells
<1>2. CASE DeletePathErase
  <2>1. /\ user.pc = "erase" /\ ~Resuming /\ Register([p \in Nodes |-> Absent]) /\ user' = Idle
        /\ UNCHANGED <<tree, link, requests, completions, m_need_resume_env, zk, doubt>>
    BY <1>2 DEF DeletePathErase, LockFree, Finished, server, pipe
  <2>2. /\ reg' = [p \in Nodes |-> Absent] /\ orphans' = {p \in orphans : reg'[p] = Absent}
    BY <2>1 DEF Register
  <2>3. QED
    BY <2>1, <2>2 DEF EndedWith
<1>3. QED
  BY <1>1, <1>2

\* It goes on: with what it has been told.
ContinuedWith(r) ==
  /\ r \in RequestType /\ requests' = Append(requests, r) /\ user.pc = "answered" /\ ~Resuming
  /\ UNCHANGED <<tree, link, completions, m_ephemeral_node_info, m_need_resume_env, zk,
                 doubt, orphans>>
  /\ user' = [pc |-> "sent", call |-> r.call, ops |-> r.ops, ctx |-> r.ctx]
  /\ r.call \in SyncCalls /\ r.ctx = user.ctx
  /\ \A p \in Nodes : ~Creates(r.ops, p)
  /\ \/ user.call = "CreateExistSkip" /\ user.rc = "ZOK" /\ r.call = "CreateExistSkipSet"
     \/ user.call = "CreatePathRecursion" /\ r.call = "CreatePathMulti"
     \/ /\ user.call = "DeletePathRecursion" /\ user.rc = "ZOK" /\ r.call = "DeletePathMulti"
        /\ \A p \in Nodes : p \in PathsOf(r.ops) <=> p \in user.view
  /\ ShapeOK(r.call, r.ops, r.ctx)

LEMMA ContinueRefused ==
  ASSUME link = "expired", user.pc = "answered", ~Resuming, NEW call, NEW ops,
         Continue(call, ops), ShapeOK(call, ops, user.ctx)
  PROVE  RefusedWith
  BY DEF Continue, Refuse, RefusedWith, server, registry, history

LEMMA ContinueSays ==
  ASSUME PipeInv, link = "up", user.pc = "answered", ~Resuming,
         NEW call \in SyncCalls, NEW ops \in Seq(Ops), Continue(call, ops)
  PROVE  \E r : /\ r \in RequestType /\ requests' = Append(requests, r)
                /\ r.call = call /\ r.ops = ops /\ r.ctx = user.ctx
                /\ UNCHANGED <<tree, link, completions, m_ephemeral_node_info,
                               m_need_resume_env, zk, doubt, orphans>>
                /\ user' = [pc |-> "sent", call |-> r.call, ops |-> r.ops, ctx |-> r.ctx]
<1>1. user.ctx \in Ctxs
  BY AnsweredSays
<1>2. PICK r : r = [call |-> call, ops |-> ops, ctx |-> user.ctx]
  OBVIOUS
<1>3. r \in RequestType /\ r.call = call /\ r.ops = ops /\ r.ctx = user.ctx
  BY <1>1, <1>2 DEF RequestType
<1>4. /\ requests' = Append(requests, r)
      /\ user' = [pc |-> "sent", call |-> call, ops |-> ops, ctx |-> user.ctx]
  BY <1>2, CallsDiffer DEF Continue, Send
<1>5. UNCHANGED <<tree, link, completions, m_ephemeral_node_info,
                  m_need_resume_env, zk, doubt, orphans>>
  BY DEF Continue, server, registry, history
<1>6. QED
  BY <1>3, <1>4, <1>5

LEMMA QuietEnds ==
  ASSUME PipeInv, ShapesOK, NEW calls, Returns(calls), Finished, UNCHANGED <<m_ephemeral_node_info, orphans>>,
         user.call = "CreatePathRecursion"
  PROVE  EndedWith
<1> DEFINE reg == m_ephemeral_node_info
<1>1. user.pc = "answered"
  BY DEF Returns
<1>2. user.call \notin {"DeletePathMulti", "DeletePathRecursion"}
  OBVIOUS
<1>3. \A p \in Nodes : p \notin PathsOf(user.ops)
  BY <1>1, UserShape, NamesDiffer
<1>4. QED
  BY <1>2, <1>3, EndedBy

LEMMA GotSays ==
  ASSUME PipeInv, ShapesOK, link \in {"up", "expired"}, CreateExistSkipGot
  PROVE  RefusedWith \/ \E r : ContinuedWith(r)
<1>1. /\ user.pc = "answered" /\ user.call = "CreateExistSkip" /\ ~Resuming
      /\ user.rc = "ZOK"
  BY DEF CreateExistSkipGot, Returns, LockFree
<1>2. user.ctx.path \in Nodes /\ user.ctx.info \in Info
  BY <1>1, UserShape DEF CallOK
<1>3. user.ctx.info["Data"] \in Values
  BY <1>2, FieldsAssumption DEF Info
<1>4. PICK op \in Ops : op = SetOp(user.ctx.path, "Data", user.ctx.info["Data"])
  BY <1>2, <1>3, NodeOpsSay
<1>5. /\ op.type = "set" /\ op.path = user.ctx.path /\ op.field = "Data"
      /\ op.value = user.ctx.info["Data"]
  BY <1>4 DEF SetOp
<1>6. PICK call \in SyncCalls, ops \in Seq(Ops) :
        call = "CreateExistSkipSet" /\ ops = <<op>>
  BY OneOp DEF SyncCalls
<1>7. Continue(call, ops)
  BY <1>4, <1>6 DEF CreateExistSkipGot
<1>8. ShapeOK(call, ops, user.ctx)
  BY <1>5, <1>6, OneOp DEF ShapeOK
<1>9. \A p \in Nodes : ~Creates(ops, p)
  BY <1>5, <1>6, OneOp
<1>10. CASE link = "up"
  <2>1. PICK r :
          /\ r \in RequestType /\ requests' = Append(requests, r)
          /\ r.call = call /\ r.ops = ops /\ r.ctx = user.ctx
          /\ UNCHANGED <<tree, link, completions, m_ephemeral_node_info,
                         m_need_resume_env, zk, doubt, orphans>>
          /\ user' = [pc |-> "sent", call |-> r.call, ops |-> r.ops, ctx |-> r.ctx]
    BY <1>1, <1>7, <1>10, ContinueSays
  <2>2. ContinuedWith(r)
    BY <1>1, <1>6, <1>8, <1>9, <2>1 DEF ContinuedWith
  <2>3. QED
    BY <2>2
<1>11. QED
  BY <1>1, <1>7, <1>8, <1>10, ContinueRefused

LEMMA CheckedSays ==
  ASSUME PipeInv, ShapesOK, link \in {"up", "expired"}, CreatePathChecked
  PROVE  EndedWith \/ RefusedWith \/ \E r : ContinuedWith(r)
<1>1. /\ user.pc = "answered" /\ user.call = "CreatePathRecursion" /\ ~Resuming
      /\ Returns({"CreatePathRecursion"})
  BY DEF CreatePathChecked, Returns, LockFree
<1>2. CASE user.rc # "ZNONODE"
  BY <1>1, <1>2, QuietEnds DEF CreatePathChecked
<1>3. CASE user.rc = "ZNONODE"
  <2>1. PICK op \in Ops : op = CreateOp(Parent, Plain)
    BY NodeOpsSay
  <2>2. op.path = Parent /\ Parent \notin Nodes
    BY <2>1, NamesDiffer DEF CreateOp
  <2>3. PICK call \in SyncCalls, ops \in Seq(Ops) :
          call = "CreatePathMulti" /\ ops = <<op>>
    BY OneOp DEF SyncCalls
  <2>4. Continue(call, ops)
    BY <1>3, <2>1, <2>3 DEF CreatePathChecked
  <2>5. ShapeOK(call, ops, user.ctx)
    BY <2>2, <2>3, OneOp DEF ShapeOK
  <2>6. \A p \in Nodes : ~Creates(ops, p)
    BY <2>2, <2>3, OneOp
  <2>7. CASE link = "up"
    <3>1. PICK r :
            /\ r \in RequestType /\ requests' = Append(requests, r)
            /\ r.call = call /\ r.ops = ops /\ r.ctx = user.ctx
            /\ UNCHANGED <<tree, link, completions, m_ephemeral_node_info,
                           m_need_resume_env, zk, doubt, orphans>>
            /\ user' = [pc |-> "sent", call |-> r.call, ops |-> r.ops, ctx |-> r.ctx]
      BY <1>1, <2>4, <2>7, ContinueSays
    <3>2. ContinuedWith(r)
      BY <1>1, <2>3, <2>5, <2>6, <3>1 DEF ContinuedWith
    <3>3. QED
      BY <3>2
  <2>8. QED
    BY <1>1, <2>4, <2>5, <2>7, ContinueRefused
<1>4. QED
  BY <1>2, <1>3

\* The batch names every node listed once, and the parent last.
Batch(list) == [k \in DOMAIN list |-> DeleteOp(list[k])] \o << DeleteOp(Parent) >>

LEMMA BatchSays ==
  ASSUME NEW view \in SUBSET Nodes, NEW list \in SetToSeqs(view), NEW ops, ops = Batch(list)
  PROVE  /\ ops \in Seq(Ops) /\ ops # <<>> /\ ops[Len(ops)].path = Parent
         /\ \A j, k \in DOMAIN ops : ops[j].path = ops[k].path => j = k
         /\ \A p \in Nodes : p \in PathsOf(ops) <=> p \in view
         /\ \A p \in Nodes : ~Creates(ops, p)
<1> DEFINE n == Cardinality(view)
           first == [k \in DOMAIN list |-> DeleteOp(list[k])]
<1>0. /\ n \in Nat /\ list \in [1..n -> view] /\ IsFiniteSet(view)
      /\ \A j, k \in 1..n : list[j] = list[k] => j = k
  <2>1. IsFiniteSet(view)
    BY PathsAssumption, FS_Subset
  <2>2. QED
    BY <2>1, FS_CardinalityType DEF SetToSeqs
<1>1. n \in Nat /\ list \in [1..n -> view] /\ \A p \in view : \E k \in 1..n : list[k] = p
  <2>1. Cardinality(1..n) = n
    BY <1>0, FS_Interval
  <2>2. list \in Injection(1..n, view)
    BY <1>0 DEF Injection, IsInjective
  <2>3. list \in Surjection(1..n, view)
    BY <1>0, <2>1, <2>2, FS_Injection
  <2>4. QED
    BY <1>0, <2>3 DEF Surjection
<1>2. /\ DOMAIN list = 1..n /\ \A k \in 1..n : list[k] \in view /\ list[k] \in Nodes
      /\ \A j, k \in 1..n : list[j] = list[k] => j = k
  BY <1>0
<1>3. first \in [1..n -> Ops] /\ \A k \in 1..n : first[k] = DeleteOp(list[k])
  BY <1>2, NodeOpsSay
<1> HIDE DEF first, n
<1>4. first \in Seq(Ops) /\ Len(first) = n
  <2>1. first \in Seq(Ops)
    BY <1>1, <1>3, SeqDef
  <2>2. QED
    BY <1>1, <1>3, <2>1, LenProperties
<1>5. PICK last \in Seq(Ops) :
        last = << DeleteOp(Parent) >> /\ Len(last) = 1 /\ last[1] = DeleteOp(Parent)
  BY NodeOpsSay, OneOp
<1>6. PICK batch : batch = first \o last /\ batch = ops
  BY <1>5 DEF first, Batch
<1>b. /\ batch \in Seq(Ops) /\ Len(batch) = n + 1
      /\ \A k \in 1..(n + 1) : batch[k] = IF k <= n THEN first[k] ELSE last[k - n]
  BY <1>1, <1>4, <1>5, <1>6, ConcatProperties
<1>7. /\ ops \in Seq(Ops) /\ Len(ops) = n + 1
      /\ \A k \in 1..(n + 1) : ops[k] = IF k <= n THEN first[k] ELSE last[k - n]
  BY <1>6, <1>b
<1>8. DOMAIN ops = 1..(n + 1)
  BY <1>7, LenProperties
<1>9. \A k \in 1..n : ops[k].path = list[k] /\ ops[k].type = "delete"
  BY <1>1, <1>3, <1>7 DEF DeleteOp
<1>10. ops[n + 1].path = Parent /\ ops[n + 1].type = "delete"
  <2>1. (n + 1) - n = 1 /\ ~(n + 1 <= n) /\ n + 1 \in 1..(n + 1)
    BY <1>1
  <2>2. QED
    BY <1>5, <1>7, <2>1 DEF DeleteOp
<1>11. \A k \in DOMAIN ops : k \in 1..n \/ k = n + 1
  BY <1>1, <1>8
<1>12. \A k \in DOMAIN ops : k \in 1..n => ops[k].path # Parent
  BY <1>2, <1>9, NamesDiffer
<1>13. \A j, k \in DOMAIN ops : ops[j].path = ops[k].path => j = k
  <2> SUFFICES ASSUME NEW j \in DOMAIN ops, NEW k \in DOMAIN ops, ops[j].path = ops[k].path
               PROVE  j = k
    OBVIOUS
  <2>1. CASE j \in 1..n /\ k \in 1..n
    <3>1. list[j] = list[k]
      BY <1>9, <2>1
    <3>2. QED
      BY <1>2, <2>1, <3>1
  <2>2. CASE j = n + 1 \/ k = n + 1
    BY <1>10, <1>11, <1>12, <2>2
  <2>3. QED
    BY <1>11, <2>1, <2>2
<1>14. ASSUME NEW p \in Nodes PROVE p \in PathsOf(ops) <=> p \in view
  <2>1. ASSUME NEW k \in DOMAIN ops, ops[k].path = p PROVE p \in view
    BY <1>2, <1>9, <1>10, <1>11, <2>1, NamesDiffer
  <2>2. ASSUME p \in view PROVE \E k \in DOMAIN ops : ops[k].path = p
    <3>1. PICK k \in 1..n : list[k] = p
      BY <1>1, <2>2
    <3>2. k \in DOMAIN ops
      BY <1>1, <1>8, <3>1
    <3>3. QED
      BY <1>9, <3>1, <3>2
  <2>3. QED
    BY <2>1, <2>2 DEF PathsOf
<1>15. \A p \in Nodes : ~Creates(ops, p)
  BY <1>9, <1>10, <1>11 DEF Creates
<1>16. ops # <<>> /\ ops[Len(ops)].path = Parent
  BY <1>1, <1>7, <1>10, EmptySeq
<1>17. QED
  BY <1>7, <1>13, <1>14, <1>15, <1>16

LEMMA ListedSays ==
  ASSUME PipeInv, ShapesOK, link \in {"up", "expired"}, DeletePathListed
  PROVE  EndedWith \/ RefusedWith \/ \E r : ContinuedWith(r)
<1> DEFINE reg == m_ephemeral_node_info
<1>1. /\ user.pc = "answered" /\ user.call = "DeletePathRecursion" /\ ~Resuming
  BY DEF DeletePathListed, Returns, LockFree
<1>2. \A p \in Nodes : p \notin PathsOf(user.ops)
  BY <1>1, UserShape, NamesDiffer
<1>3. CASE user.rc # "ZOK"
  <2>1. /\ user' = IF user.rc = "ZNONODE" THEN [pc |-> "erase"] ELSE Idle
        /\ UNCHANGED <<tree, link, requests, completions, m_need_resume_env, zk, doubt>>
        /\ reg' = reg /\ orphans' = orphans
    BY <1>3 DEF DeletePathListed, Finished, server, pipe, registry, history
  <2>2. (user'.pc = "erase" <=> user.rc = "ZNONODE") /\ user' \in {Idle, [pc |-> "erase"]}
    BY <2>1 DEF Idle
  <2>3. Wiped <=> user.rc = "ZNONODE"
    BY <1>1 DEF Wiped
  <2>4. QED
    BY <1>1, <1>2, <2>1, <2>2, <2>3 DEF EndedWith, UserTells
<1>4. CASE user.rc = "ZOK"
  <2>v. PICK view \in SUBSET Nodes : view = user.view
    BY <1>1, AnsweredSays
  <2>1. PICK list \in SetToSeqs(view) :
          Continue("DeletePathMulti", Batch(list))
    BY <1>4, <2>v DEF DeletePathListed, Batch
  <2>2. PICK call : call = "DeletePathMulti"
    OBVIOUS
  <2>3. PICK ops : ops = Batch(list)
    OBVIOUS
  <2>5. /\ ops \in Seq(Ops) /\ ops # <<>> /\ ops[Len(ops)].path = Parent
        /\ \A j, k \in DOMAIN ops : ops[j].path = ops[k].path => j = k
        /\ \A p \in Nodes : p \in PathsOf(ops) <=> p \in view
        /\ \A p \in Nodes : ~Creates(ops, p)
    BY <2>3, BatchSays
  <2>6. Continue(call, ops) /\ call \in SyncCalls
    BY <2>1, <2>2, <2>3 DEF SyncCalls
  <2>7. ShapeOK(call, ops, user.ctx)
    BY <2>2, <2>5 DEF ShapeOK
  <2>8. CASE link = "up"
    <3>1. PICK r :
            /\ r \in RequestType /\ requests' = Append(requests, r)
            /\ r.call = call /\ r.ops = ops /\ r.ctx = user.ctx
            /\ UNCHANGED <<tree, link, completions, m_ephemeral_node_info,
                           m_need_resume_env, zk, doubt, orphans>>
            /\ user' = [pc |-> "sent", call |-> r.call, ops |-> r.ops, ctx |-> r.ctx]
      BY <1>1, <2>5, <2>6, <2>8, ContinueSays
    <3>2. ContinuedWith(r)
      BY <1>1, <1>4, <2>v, <2>2, <2>5, <2>6, <2>7, <3>1 DEF ContinuedWith
    <3>3. QED
      BY <3>2
  <2>9. QED
    BY <1>1, <2>6, <2>7, <2>8, ContinueRefused
<1>5. QED
  BY <1>3, <1>4

LEMMA ReturnSays ==
  ASSUME PipeInv, ShapesOK, MemoryTypes, UserReturn
  PROVE  EndedWith \/ RefusedWith \/ \E r : ContinuedWith(r)
  BY EndedSingle, EndedSkip, EndedMulti, EndedDelete, GotSays, CheckedSays, ListedSays
     DEF UserReturn, MemoryTypes

LEMMA RegistryEnded ==
  ASSUME PipeInv, OrphansWait, NEW p \in Nodes, Alone(p), RegistryInv(p), EndedWith
  PROVE  RegistryInv(p)'
<1> DEFINE reg == m_ephemeral_node_info
<1>1. /\ user.pc \in {"answered", "erase"} /\ ~Resuming
      /\ tree' = tree /\ link' = link /\ requests' = requests /\ completions' = completions
      /\ m_need_resume_env' = m_need_resume_env /\ zk' = zk /\ doubt' = doubt
  BY DEF EndedWith
<1>2. /\ user'.pc # "answered" /\ user'.pc # "sent" /\ (Wiped' <=> user'.pc = "erase")
      /\ Wiped' => Wiped
      /\ Wiped /\ ~Wiped' => user.pc = "erase"
  <2>1. user'.pc # "answered" /\ user'.pc # "sent"
    BY DEF EndedWith, Idle
  <2>2. Wiped' <=> user'.pc = "erase"
    BY <2>1 DEF Wiped
  <2>3. user.pc = "erase" => Wiped
    BY DEF Wiped
  <2>4. user.pc = "answered" => (Wiped <=> user'.pc = "erase")
    BY DEF EndedWith
  <2>5. QED
    BY <1>1, <2>1, <2>2, <2>3, <2>4
<1>3. p \in orphans' <=> p \in orphans /\ reg'[p] = Absent
  BY DEF EndedWith, RegistryInv, Outside
<1>4. /\ \A k \in DOMAIN completions : AnswerOn(k, p)' <=> AnswerOn(k, p)
      /\ \A k \in DOMAIN requests : RequestOn(k, p)' <=> RequestOn(k, p)
  BY <1>1 DEF AnswerOn, IsAnswer, RequestOn
<1>5. reg'[p] # reg[p] => /\ \A k \in DOMAIN requests : ~RequestOn(k, p)
                          /\ \A k \in DOMAIN completions : ~AnswerOn(k, p)
  <2>1. CASE user.pc = "erase"
    BY <2>1 DEF RegistryInv, Emptied, Wiped
  <2>2. CASE user.pc = "answered" /\ p \in PathsOf(user.ops)
    BY <2>2 DEF Alone, UserOn, UserCalls
  <2>3. CASE user.pc = "answered" /\ p \notin PathsOf(user.ops)
    BY <2>3 DEF EndedWith
  <2>4. QED
    BY <1>1, <2>1, <2>2, <2>3
<1>6. Fitting(p)'
  BY <1>1, <1>4, <1>5 DEF RegistryInv, Fitting
<1>7. Agreed(p)'
  <2> SUFFICES ASSUME Current(p)' PROVE Agreed(p)'
    BY DEF Agreed
  <2>1. Current(p)
    BY <1>1 DEF Current
  <2>2. \A v : Valid(p, v) /\ (p \in orphans => (p \in orphans' <=> v = Absent))
                 => v = tree'[p] \/ (p \in orphans' /\ v = Absent)
    BY <1>1 DEF Valid
  <2>3. ASSUME Untold(p)' PROVE reg'[p] = tree'[p] \/ (p \in orphans' /\ reg'[p] = Absent)
    <3>1. ~Wiped' /\ \A k \in DOMAIN completions : ~AnswerOn(k, p)
      BY <1>1, <1>4, <2>3 DEF Untold
    <3>2. CASE user.pc = "erase"
      <4>1. reg'[p] = Absent /\ tree[p] = Absent
        BY <3>2 DEF EndedWith, RegistryInv, Emptied, Wiped
      <4>2. QED
        BY <1>1, <4>1
    <3>3. CASE user.pc = "answered" /\ UserTells(p)
      <4>1. ResultIsCode(user) /\ Valid(p, Returned(user, reg[p]))
        BY <2>1, <3>3 DEF RegistryInv, Agreed
      <4>2. reg'[p] = Returned(user, reg[p])
        BY <3>3, <4>1 DEF EndedWith
      <4>3. QED
        BY <1>3, <2>2, <4>1, <4>2
    <3>4. CASE user.pc = "answered" /\ ~UserTells(p)
      <4>1. ~Wiped
        BY <1>2, <3>1, <3>4
      <4>2. p \notin PathsOf(user.ops)
        <5>1. user.call = "DeletePathMulti" => user.rc # "ZOK"
          BY <3>4, <4>1 DEF Wiped
        <5>2. QED
          BY <2>1, <3>4, <5>1 DEF RegistryInv, Agreed, UserTells
      <4>3. reg'[p] = reg[p]
        BY <3>4, <4>2 DEF EndedWith
      <4>4. Valid(p, reg[p])
        BY <2>1, <3>1, <3>4, <4>1 DEF RegistryInv, Agreed, Untold
      <4>5. QED
        BY <1>3, <2>2, <4>3, <4>4
    <3>5. QED
      BY <1>1, <3>2, <3>3, <3>4
  <2>4. ASSUME NEW k \in DOMAIN completions, AnswerOn(k, p)
        PROVE  /\ ResultIsCode(completions[k])
               /\ \/ Answered(completions[k], reg'[p]) = tree'[p]
                  \/ p \in orphans' /\ Answered(completions[k], reg'[p]) = Absent
    <3>1. reg'[p] = reg[p]
      BY <1>5, <2>4
    <3>2. ResultIsCode(completions[k]) /\ Valid(p, Answered(completions[k], reg[p]))
      BY <2>1, <2>4 DEF RegistryInv, Agreed
    <3>3. p \in orphans => p \in orphans'
      BY <1>3, <3>1 DEF RegistryInv, Outside
    <3>4. QED
      BY <1>1, <3>1, <3>2, <3>3 DEF Valid
  <2>5. ~UserTells(p)'
    BY <1>2 DEF UserTells
  <2>6. QED
    BY <1>1, <1>2, <1>4, <2>3, <2>4, <2>5 DEF Agreed, Valid
<1>8. Emptied(p)'
  BY <1>1, <1>2, <1>4 DEF RegistryInv, Emptied
<1>9. Listed(p)' /\ Skipped(p)'
  BY <1>2 DEF Listed, Skipped, Skipping
<1>10. Lapsed(p)'
  <2>1. m_need_resume_env => orphans = {}
    BY <1>1 DEF OrphansWait
  <2>2. QED
    BY <1>1, <2>1 DEF RegistryInv, Lapsed, Resuming
<1>11. Recreating(p)' /\ Outside(p)'
  BY <1>1, <1>3 DEF RegistryInv, Recreating, Outside, Resuming, AtNode
<1>12. QED
  BY <1>6, <1>7, <1>8, <1>9, <1>10, <1>11 DEF RegistryInv

LEMMA ShapesEnded ==
  ASSUME ShapesOK, OrphansWait, EndedWith
  PROVE  ShapesOK' /\ OrphansWait'
<1>1. /\ requests' = requests /\ completions' = completions
      /\ m_need_resume_env' = m_need_resume_env /\ user.pc # "idle"
      /\ user'.pc # "answered" /\ user'.pc # "sent" /\ (orphans' = orphans \/ orphans' \subseteq orphans)
  BY DEF EndedWith, Idle
<1>2. QED
  BY <1>1 DEF ShapesOK, OrphansWait, IsAnswer, UserCalls

LEMMA RegistryContinued ==
  ASSUME PipeInv, ShapesOK, NEW p \in Nodes, Alone(p), RegistryInv(p), NEW r, ContinuedWith(r)
  PROVE  RegistryInv(p)'
<1> DEFINE reg == m_ephemeral_node_info
<1>1. /\ r \in RequestType /\ requests' = Append(requests, r) /\ user.pc = "answered"
      /\ ~Resuming /\ tree' = tree /\ link' = link /\ completions' = completions /\ reg' = reg
      /\ m_need_resume_env' = m_need_resume_env /\ zk' = zk /\ doubt' = doubt
      /\ orphans' = orphans
      /\ user'.pc = "sent" /\ user'.call = r.call /\ user'.ops = r.ops /\ user'.ctx = r.ctx
      /\ r.call \in SyncCalls /\ r.ctx = user.ctx /\ ~Creates(r.ops, p)
  BY DEF ContinuedWith
<1>2. r.call \notin AsyncCalls
  BY <1>1, CallsDiffer
<1>3. \A k \in DOMAIN requests' :
        \/ k \in DOMAIN requests /\ requests'[k] = requests[k]
        \/ k = Len(requests') /\ requests'[k] = r
  BY <1>1, SendSays
<1>4. \A k \in DOMAIN completions : AnswerOn(k, p)' <=> AnswerOn(k, p)
  BY <1>1 DEF AnswerOn, IsAnswer
<1>5. ~UserTells(p)' /\ ~Wiped' /\ ~Wiped
  BY <1>1 DEF UserTells, Wiped, ContinuedWith
<1>6. Fitting(p)'
  BY <1>1, <1>2, <1>3, <1>4 DEF RegistryInv, Fitting, RequestOn
<1>7. Agreed(p)'
  <2> SUFFICES ASSUME Current(p)' PROVE Agreed(p)'
    BY DEF Agreed
  <2>1. Current(p)
    BY <1>1 DEF Current
  <2>2. Untold(p)' => Valid(p, reg[p])
    <3>1. SUFFICES ASSUME Untold(p)' PROVE Valid(p, reg[p])
      OBVIOUS
    <3>2. CASE UserTells(p)
      <4>1. user.call = "CreateExistSkip" /\ Len(user.ops) = 1 /\ user.ops[1].type = "check"
        <5>1. user.call # "DeletePathMulti" /\ p \in PathsOf(user.ops)
          BY <3>2 DEF UserTells
        <5>2. user.call \notin {"CreatePathRecursion", "DeletePathRecursion"}
          BY <1>1, <5>1, UserShape, NamesDiffer
        <5>3. user.call = "CreateExistSkip"
          BY <5>2 DEF ContinuedWith
        <5>4. ShapeOK(user.call, user.ops, user.ctx)
          BY <1>1 DEF ShapesOK, UserCalls
        <5>5. QED
          BY <5>3, <5>4 DEF ShapeOK
      <4>2. Returned(user, reg[p]) = reg[p]
        BY <4>1 DEF Returned, Answered, Enter
      <4>3. QED
        BY <2>1, <3>2, <4>2 DEF RegistryInv, Agreed
    <3>3. CASE ~UserTells(p)
      BY <1>1, <1>4, <1>5, <2>1, <3>1, <3>3 DEF RegistryInv, Agreed, Untold
    <3>4. QED
      BY <3>2, <3>3
  <2>3. \A k \in DOMAIN completions' : AnswerOn(k, p)' =>
          /\ ResultIsCode(completions'[k])
          /\ Valid(p, Answered(completions[k], reg[p]))'
    BY <1>1, <1>4, <2>1 DEF RegistryInv, Agreed, Valid
  <2>4. QED
    BY <1>1, <1>5, <2>2, <2>3 DEF Agreed, Valid
<1>8. Emptied(p)'
  BY <1>5 DEF Emptied
<1>9. Listed(p)'
  <2>1. r.call = "DeletePathMulti" =>
          /\ user.call = "DeletePathRecursion" /\ user.rc = "ZOK"
          /\ p \in PathsOf(r.ops) <=> p \in user.view
    BY DEF ContinuedWith
  <2>2. QED
    BY <1>1, <2>1 DEF RegistryInv, Listed
<1>10. Skipped(p)'
  <2>1. r.call \in {"CreateExistSkip", "CreateExistSkipSet"}
          => user.call = "CreateExistSkip" /\ user.rc = "ZOK"
    BY DEF ContinuedWith
  <2>2. QED
    BY <1>1, <2>1 DEF RegistryInv, Skipped, Skipping
<1>11. Lapsed(p)'
  BY <1>1, <1>3 DEF RegistryInv, Lapsed, Resuming
<1>12. Recreating(p)' /\ Outside(p)'
  BY <1>1 DEF RegistryInv, Recreating, Outside, Resuming, AtNode
<1>13. QED
  BY <1>6, <1>7, <1>8, <1>9, <1>10, <1>11, <1>12 DEF RegistryInv

LEMMA ShapesContinued ==
  ASSUME PipeInv, ShapesOK, OrphansWait, NEW r, ContinuedWith(r)
  PROVE  ShapesOK' /\ OrphansWait'
<1>1. /\ r \in RequestType /\ completions' = completions /\ user.pc = "answered"
      /\ m_need_resume_env' = m_need_resume_env /\ requests' = Append(requests, r)
      /\ ShapeOK(r.call, r.ops, r.ctx) /\ orphans' = orphans
      /\ user'.call = r.call /\ user'.ops = r.ops /\ user'.ctx = r.ctx
  BY DEF ContinuedWith
<1>2. \A k \in DOMAIN requests' : ShapeOK(requests'[k].call, requests'[k].ops, requests'[k].ctx)
  BY <1>1, SendSays DEF ShapesOK
<1>3. QED
  BY <1>1, <1>2 DEF ShapesOK, OrphansWait, IsAnswer

-----------------------------------------------------------------------------
(* Callbacks.                                                              *)

\* A callback: what it does to the entries.
RecordedWith ==
  /\ ~Resuming /\ completions # <<>> /\ IsAnswer(1) /\ completions' = Tail(completions)
  /\ UNCHANGED <<tree, link, requests, m_need_resume_env, user, zk, doubt>>
  /\ orphans' = {p \in orphans : m_ephemeral_node_info'[p] = Absent}
  /\ \A p \in Nodes :
       /\ p \notin PathsOf(completions[1].ops)
            => m_ephemeral_node_info'[p] = m_ephemeral_node_info[p]
       /\ p \in PathsOf(completions[1].ops) /\ ResultIsCode(completions[1])
            /\ Fits(completions[1], p, m_ephemeral_node_info[p])
            => m_ephemeral_node_info'[p] = Answered(completions[1], m_ephemeral_node_info[p])

LEMMA RecordsSay ==
  ASSUME PipeInv, ShapesOK, m_ephemeral_node_info \in Registries,
         \/ InnerStringCompletion \/ InnerStatCompletion \/ InnerVoidCompletion
         \/ InnerMultiCompletion
  PROVE  RecordedWith
<1> DEFINE reg == m_ephemeral_node_info
<1>1. PICK calls \in {{"ACreate"}, {"ASet"}, {"ADelete", "ASetAcl"}, {"AMulti"}} : Handles(calls)
  BY DEF InnerStringCompletion, InnerStatCompletion, InnerVoidCompletion, InnerMultiCompletion
<1>2. /\ ~Resuming /\ completions # <<>> /\ IsAnswer(1) /\ completions' = Tail(completions)
      /\ Head(completions) = completions[1] /\ 1 \in DOMAIN completions
      /\ completions[1].call \in calls
      /\ completions[1].ops \in Seq(Ops) /\ completions[1].ctx \in Ctxs
      /\ CallOK(completions[1].call, completions[1].ops, completions[1].ctx)
  BY <1>1, HandlesSays DEF AsyncCalls
<1>3. UNCHANGED <<tree, link, requests, m_need_resume_env, user, zk, doubt>>
  BY DEF InnerStringCompletion, InnerStatCompletion, InnerVoidCompletion, InnerMultiCompletion,
         server
<1>4. Len(completions[1].ops) = 1
  BY <1>1, <1>2 DEF ShapesOK, ShapeOK
<1>5. PICK ops \in Seq(Ops) :
        ops = completions[1].ops /\ Len(ops) = 1 /\ PathsOf(ops) = {ops[1].path}
  BY <1>2, <1>4, OneSays
<1>6. CASE InnerMultiCompletion
  <2>1. completions[1].call = "AMulti"
    BY <1>2, <1>6 DEF InnerMultiCompletion, Handles
  <2>2. PICK results : results = completions[1].results
    OBVIOUS
  <2>3. PICK info : info = ProcMultiEphemeralNode(ops, results)
    OBVIOUS
  <2>4. Register(info)
    BY <1>2, <1>5, <1>6, <2>2, <2>3 DEF InnerMultiCompletion
  <2>5. \A p \in Nodes : info[p] = IF p = ops[1].path /\ results[1] = "ZOK"
                                   THEN Enter(ops[1], reg[p]) ELSE reg[p]
    BY <1>5, <2>3, ProcOne
  <2>6. reg' = info /\ orphans' = {p \in orphans : reg'[p] = Absent}
    BY <2>4 DEF Register
  <2>7. \A v : ResultIsCode(completions[1]) =>
          Answered(completions[1], v) = IF results[1] = "ZOK" THEN Enter(ops[1], v) ELSE v
    BY <1>5, <2>2 DEF Answered, ResultIsCode
  <2>8. QED
    BY <1>2, <1>3, <1>5, <2>5, <2>6, <2>7 DEF RecordedWith
<1>7. CASE InnerStringCompletion \/ InnerStatCompletion \/ InnerVoidCompletion
  <2>1. completions[1].call # "AMulti" /\ RecordContext(completions[1])
    BY <1>2, <1>7 DEF InnerStringCompletion, InnerStatCompletion, InnerVoidCompletion, Handles
  <2>2. PICK q, i : q = completions[1].ctx.path /\ i = completions[1].ctx.info
    OBVIOUS
  <2>3. /\ q # Absent => q \in Nodes /\ q = ops[1].path
        /\ i \in Info \union {Absent}
    BY <1>2, <1>5, <2>2 DEF Ctxs, CallOK
  <2>4. PICK rc : rc = completions[1].rc
    OBVIOUS
  <2>5. \A v : Answered(completions[1], v) = IF rc = "ZOK" THEN Enter(ops[1], v) ELSE v
    BY <1>5, <2>4 DEF Answered
  <2>6. \A p, v : Fits(completions[1], p, v) => Enter(ops[1], v) = IF q = p THEN i ELSE v
    BY <1>5, <2>1, <2>2 DEF Fits
  <2>7. CASE rc = "ZOK" /\ q # Absent
    <3>1. PICK info : info = [reg EXCEPT ![q] = i]
      OBVIOUS
    <3>2. Register(info)
      BY <2>1, <2>2, <2>4, <2>7, <3>1 DEF RecordContext
    <3>3. info[q] = i /\ \A p \in Nodes : p # q => info[p] = reg[p]
      BY <2>3, <2>7, <3>1, RegistrySays
    <3>4. reg' = info /\ orphans' = {p \in orphans : reg'[p] = Absent}
      BY <3>2 DEF Register
    <3>5. QED
      BY <1>2, <1>3, <1>5, <2>3, <2>5, <2>6, <2>7, <3>3, <3>4 DEF RecordedWith
  <2>8. CASE ~(rc = "ZOK" /\ q # Absent)
    <3>1. Register(reg)
      BY <2>1, <2>2, <2>4, <2>8 DEF RecordContext
    <3>2. reg' = reg /\ orphans' = {p \in orphans : reg'[p] = Absent}
      BY <3>1 DEF Register
    <3>3. \A p \in Nodes : p # Absent
      BY NamesDiffer
    <3>4. QED
      BY <1>2, <1>3, <1>5, <2>5, <2>6, <2>8, <3>2, <3>3 DEF RecordedWith
  <2>9. QED
    BY <2>7, <2>8
<1>8. QED
  BY <1>6, <1>7

LEMMA RegistryRecorded ==
  ASSUME PipeInv, SessionsOK, NEW p \in Nodes, Alone(p), RegistryInv(p), RecordedWith
  PROVE  RegistryInv(p)'
<1> DEFINE reg == m_ephemeral_node_info
<1>1. /\ ~Resuming /\ completions # <<>> /\ IsAnswer(1) /\ completions' = Tail(completions)
      /\ tree' = tree /\ link' = link /\ requests' = requests
      /\ m_need_resume_env' = m_need_resume_env /\ user' = user /\ zk' = zk /\ doubt' = doubt
  BY DEF RecordedWith
<1>2. /\ Len(completions) \in Nat /\ 1 \in DOMAIN completions
      /\ DOMAIN completions = 1..Len(completions)
      /\ DOMAIN completions' = 1..(Len(completions) - 1)
      /\ \A k \in DOMAIN completions' :
           k + 1 \in DOMAIN completions /\ completions'[k] = completions[k + 1]
  BY <1>1, TailSays DEF PipeInv, PipeTypes
<1>3. /\ \A k \in DOMAIN completions' : k + 1 # 1 /\ k \in Int
      /\ \A k \in DOMAIN completions : k # 1 => k - 1 \in DOMAIN completions' /\ (k - 1) + 1 = k
  BY <1>2
<1>4. \A k \in DOMAIN completions' : AnswerOn(k, p)' <=> AnswerOn(k + 1, p)
  BY <1>2 DEF AnswerOn, IsAnswer
<1>5. ~m_need_resume_env
  BY <1>1, <1>2 DEF SessionsOK
<1>6. p \in orphans' <=> p \in orphans /\ reg'[p] = Absent
  BY DEF RecordedWith
<1>7. AnswerOn(1, p) <=> p \in PathsOf(completions[1].ops)
  BY <1>1 DEF AnswerOn
<1>8. AnswerOn(1, p) => /\ \A k \in DOMAIN requests : ~RequestOn(k, p)
                        /\ \A k \in DOMAIN completions' : ~AnswerOn(k, p)'
                        /\ ~UserTells(p)
  <2> SUFFICES ASSUME AnswerOn(1, p)
               PROVE  /\ \A k \in DOMAIN requests : ~RequestOn(k, p)
                      /\ \A k \in DOMAIN completions' : ~AnswerOn(k, p)'
                      /\ ~UserTells(p)
    OBVIOUS
  <2>1. \A k \in DOMAIN requests : ~RequestOn(k, p)
    BY <1>2 DEF Alone
  <2>2. \A k \in DOMAIN completions' : ~AnswerOn(k, p)'
    BY <1>2, <1>3, <1>4 DEF Alone
  <2>3. ~UserTells(p)
    BY <1>2 DEF Alone, UserTells, UserOn, UserCalls
  <2>4. QED
    BY <2>1, <2>2, <2>3
<1>9. ~AnswerOn(1, p) => reg'[p] = reg[p] /\ (p \in orphans' <=> p \in orphans)
  BY <1>6, <1>7 DEF RecordedWith, RegistryInv, Outside
<1>10. \A k \in DOMAIN requests : RequestOn(k, p)' <=> RequestOn(k, p)
  BY <1>1 DEF RequestOn
<1>11. Fitting(p)'
  <2>1. \A k \in DOMAIN requests' : RequestOn(k, p)' /\ requests'[k].call \in AsyncCalls =>
          Fits(requests'[k], p, reg'[p])
    BY <1>1, <1>8, <1>9, <1>10 DEF RegistryInv, Fitting
  <2>2. \A k \in DOMAIN completions' : AnswerOn(k, p)' => Fits(completions'[k], p, reg'[p])
    <3> SUFFICES ASSUME NEW k \in DOMAIN completions', AnswerOn(k, p)'
                 PROVE  Fits(completions'[k], p, reg'[p])
      OBVIOUS
    <3>1. reg'[p] = reg[p] /\ AnswerOn(k + 1, p)
      BY <1>4, <1>8, <1>9
    <3>2. QED
      BY <1>2, <3>1 DEF RegistryInv, Fitting
  <2>3. QED
    BY <2>1, <2>2 DEF Fitting
<1>12. Agreed(p)'
  <2> SUFFICES ASSUME Current(p)' PROVE Agreed(p)'
    BY DEF Agreed
  <2>1. Current(p)
    BY <1>1 DEF Current
  <2>2. ASSUME Untold(p)' PROVE Valid(p, reg[p])'
    <3>1. CASE AnswerOn(1, p)
      <4>1. /\ ResultIsCode(completions[1])
            /\ Valid(p, Answered(completions[1], reg[p])) /\ Fits(completions[1], p, reg[p])
        BY <1>2, <2>1, <3>1 DEF RegistryInv, Agreed, Fitting
      <4>2. reg'[p] = Answered(completions[1], reg[p])
        BY <1>7, <3>1, <4>1 DEF RecordedWith
      <4>3. QED
        BY <1>1, <1>6, <4>1, <4>2 DEF Valid
    <3>2. CASE ~AnswerOn(1, p)
      <4>1. \A k \in DOMAIN completions : ~AnswerOn(k, p)
        <5> SUFFICES ASSUME NEW k \in DOMAIN completions, k # 1 PROVE ~AnswerOn(k, p)
          BY <3>2
        <5>1. k - 1 \in DOMAIN completions' /\ (k - 1) + 1 = k
          BY <1>3
        <5>2. ~AnswerOn((k - 1) + 1, p)
          BY <1>4, <2>2, <5>1 DEF Untold
        <5>3. QED
          BY <5>1, <5>2
      <4>2. ~UserTells(p) /\ ~Wiped
        BY <1>1, <2>2 DEF Untold, UserTells, Wiped
      <4>3. Valid(p, reg[p])
        BY <2>1, <4>1, <4>2 DEF RegistryInv, Agreed, Untold
      <4>4. QED
        BY <1>1, <1>9, <3>2, <4>3 DEF Valid
    <3>3. QED
      BY <3>1, <3>2
  <2>3. ASSUME NEW k \in DOMAIN completions', AnswerOn(k, p)'
        PROVE  /\ ResultIsCode(completions'[k])
               /\ \/ Answered(completions'[k], reg'[p]) = tree'[p]
                  \/ p \in orphans' /\ Answered(completions'[k], reg'[p]) = Absent
    <3>1. /\ reg'[p] = reg[p] /\ (p \in orphans' <=> p \in orphans) /\ AnswerOn(k + 1, p)
          /\ k + 1 \in DOMAIN completions /\ completions'[k] = completions[k + 1]
      BY <1>2, <1>4, <1>8, <1>9, <2>3
    <3>2. ResultIsCode(completions[k + 1]) /\ Valid(p, Answered(completions[k + 1], reg[p]))
      BY <2>1, <3>1 DEF RegistryInv, Agreed
    <3>3. QED
      BY <1>1, <3>1, <3>2 DEF Valid
  <2>4. ASSUME UserTells(p)'
        PROVE  /\ ResultIsCode(user')
               /\ \/ Returned(user', reg'[p]) = tree'[p]
                  \/ p \in orphans' /\ Returned(user', reg'[p]) = Absent
    <3>1. UserTells(p)
      BY <1>1, <2>4 DEF UserTells
    <3>2. reg'[p] = reg[p] /\ (p \in orphans' <=> p \in orphans)
      BY <1>8, <1>9, <3>1
    <3>3. ResultIsCode(user) /\ Valid(p, Returned(user, reg[p]))
      BY <2>1, <3>1 DEF RegistryInv, Agreed
    <3>4. QED
      BY <1>1, <3>2, <3>3 DEF Valid
  <2>5. user'.pc = "answered" /\ user'.call = "DeletePathMulti" /\ user'.rc # "ZOK"
          => p \notin PathsOf(user'.ops)
    BY <1>1, <2>1 DEF RegistryInv, Agreed
  <2>6. QED
    BY <2>2, <2>3, <2>4, <2>5 DEF Agreed, Valid
<1>13. Emptied(p)'
  <2>1. Wiped' => Wiped
    BY <1>1 DEF Wiped
  <2>2. QED
    BY <1>1, <1>2, <1>4, <1>10, <2>1 DEF RegistryInv, Emptied
<1>14. Listed(p)' /\ Skipped(p)'
  BY <1>1 DEF RegistryInv, Listed, Skipped, Skipping
<1>15. Lapsed(p)' /\ Recreating(p)' /\ Outside(p)'
  BY <1>1, <1>5, <1>6 DEF RegistryInv, Lapsed, Recreating, Resuming, AtNode, Outside
<1>16. QED
  BY <1>11, <1>12, <1>13, <1>14, <1>15 DEF RegistryInv

LEMMA ShapesRecorded ==
  ASSUME PipeInv, SessionsOK, ShapesOK, RecordedWith
  PROVE  ShapesOK' /\ OrphansWait'
<1>1. /\ completions # <<>> /\ IsAnswer(1) /\ completions' = Tail(completions)
      /\ requests' = requests /\ m_need_resume_env' = m_need_resume_env /\ user' = user
  BY DEF RecordedWith
<1>2. /\ 1 \in DOMAIN completions
      /\ \A k \in DOMAIN completions' :
           k + 1 \in DOMAIN completions /\ completions'[k] = completions[k + 1]
  BY <1>1, TailSays DEF PipeInv, PipeTypes
<1>3. ~m_need_resume_env
  BY <1>1, <1>2 DEF SessionsOK
<1>4. \A k \in DOMAIN completions' : IsAnswer(k)' =>
        ShapeOK(completions'[k].call, completions'[k].ops, completions'[k].ctx)
  BY <1>2 DEF ShapesOK, IsAnswer
<1>5. QED
  BY <1>1, <1>3, <1>4 DEF ShapesOK, OrphansWait, UserCalls

-----------------------------------------------------------------------------
(* ReconnectResumeEnv.                                                     *)

\* A step of it: only the node it is at changes, and it ends in doubt or as remembered.
ResumedWith ==
  /\ Resuming /\ UNCHANGED <<link, requests, user>>
  /\ orphans' = orphans \/ orphans' = {p \in orphans : m_ephemeral_node_info'[p] = Absent}
  /\ completions' = completions \/ completions' = Append(completions, Connected)
  /\ \A p \in Nodes : tree'[p] # tree[p] =>
       AtNode /\ p = zk.cur /\ link = "up" /\ tree'[p] = Recreated(p)
  /\ \A p \in Nodes : m_ephemeral_node_info'[p] = Absent <=> m_ephemeral_node_info[p] = Absent
  /\ \/ /\ zk.pc = "next" /\ AtNode' /\ zk'.cur \in zk.todo /\ zk'.todo = zk.todo \ {zk'.cur}
        /\ UNCHANGED <<doubt, m_need_resume_env, m_ephemeral_node_info>>
     \/ /\ zk.pc = "next" /\ zk.todo = {} /\ zk'.pc = "idle"
        /\ m_need_resume_env' = FALSE /\ UNCHANGED <<doubt, m_ephemeral_node_info>>
     \/ /\ AtNode /\ zk'.todo = zk.todo /\ m_need_resume_env' = m_need_resume_env
        /\ \/ AtNode' /\ zk'.cur = zk.cur /\ UNCHANGED <<doubt, m_ephemeral_node_info>>
           \/ /\ zk'.pc = "next" /\ doubt' = doubt \union {zk.cur}
              /\ m_ephemeral_node_info' = m_ephemeral_node_info
           \/ /\ zk'.pc = "next" /\ doubt' = doubt
              /\ tree'[zk.cur] = m_ephemeral_node_info'[zk.cur]
              /\ \A p \in Nodes : p # zk.cur =>
                   m_ephemeral_node_info'[p] = m_ephemeral_node_info[p]

LEMMA RecreatedSays ==
  ASSUME MemoryInv, AtNode, NEW rc, Recreate(rc), Written(rc)
  PROVE  /\ \A p \in Nodes : tree'[p] # tree[p] =>
              p = zk.cur /\ link = "up" /\ tree'[p] = Recreated(p)
         /\ \A p \in Nodes :
              /\ m_ephemeral_node_info'[p] = Absent <=> m_ephemeral_node_info[p] = Absent
              /\ p # zk.cur => m_ephemeral_node_info'[p] = m_ephemeral_node_info[p]
         /\ orphans' = {p \in orphans : m_ephemeral_node_info'[p] = Absent}
         /\ rc = "ZOK" => tree'[zk.cur] = m_ephemeral_node_info'[zk.cur]
         /\ rc # "ZOK" => m_ephemeral_node_info' = m_ephemeral_node_info
<1> DEFINE reg == m_ephemeral_node_info
<1>1. /\ tree \in Trees /\ reg \in Registries /\ zk \in ZkType
      /\ \A p \in ToResume : reg[p] # Absent
  BY DEF MemoryInv, MemoryTypes, ResumesOwn
<1>2. PICK p \in Nodes : p = zk.cur /\ reg[p] # Absent
  BY <1>1, ZkSays, ToResumeSays
<1>3. PICK i \in Info : i = reg[p]
  BY <1>1, <1>2, RegistrySays
<1>4. PICK j \in Info : j = Recreated(p)
  <2>1. i \in [Fields -> Values] /\ "Data" \in Fields /\ i["Data"] \in Values
    BY <1>3, FieldsAssumption DEF Info
  <2>2. CString[i["Data"]] \in Values
    BY <2>1, CStringAssumption
  <2>3. PICK j \in Info : j = [i EXCEPT !["Data"] = CString[i["Data"]]]
    BY <2>2, InfoSet
  <2>4. Recreated(p) = [i EXCEPT !["Data"] = CString[i["Data"]]]
    BY <1>3 DEF Recreated
  <2>5. QED
    BY <2>3, <2>4
<1>5. PICK op \in Ops : op = CreateOp(p, j)
  BY NodeOpsSay
<1>6. op.path = p /\ op.type = "create" /\ op.info = j
  BY <1>5 DEF CreateOp
<1>7. PICK ops \in Seq(Ops) : ops = <<op>> /\ Len(ops) = 1 /\ ops[1] = op
  BY OneOp
<1>8. ZkCall(ops, rc)
  BY <1>2, <1>4, <1>5, <1>7 DEF Recreate
<1>9. PICK u : u = Change(op, tree)
  OBVIOUS
<1>10. \A q \in Nodes : u[q] = IF q = p THEN j ELSE tree[q]
  <2>1. tree = [q \in DOMAIN tree |-> tree[q]] /\ DOMAIN tree = Paths /\ p \in Paths
    BY <1>1, NamesDiffer DEF Trees
  <2>2. u[p] = j
    BY <1>6, <1>9, <2>1, ChangeSays
  <2>3. \A q \in Paths : q # p => u[q] = tree[q]
    BY <1>1, <1>6, <1>9, TreeTouch
  <2>4. QED
    BY <2>2, <2>3, NamesDiffer
<1>11. /\ Execute(ops, tree).rc = Outcome(op, tree)
       /\ Execute(ops, tree).tree = IF Outcome(op, tree) = "ZOK" THEN u ELSE tree
  BY <1>7, <1>9, ExecuteOne
<1>12. tree' # tree => link = "up" /\ tree' = u
  BY <1>8, <1>11 DEF ZkCall
<1>13. rc = "ZOK" => tree' = u
  BY <1>8, <1>11 DEF ZkCall
<1>14. /\ orphans' = {q \in orphans : reg'[q] = Absent}
       /\ reg' = IF rc = "ZOK" THEN [reg EXCEPT ![p] = j] ELSE reg
  BY <1>2, <1>4 DEF Written, Register
<1>15. \A q \in Nodes : reg'[q] = IF rc = "ZOK" /\ q = p THEN j ELSE reg[q]
  BY <1>1, <1>14, RegistrySays
<1>16. j # Absent
  BY NamesDiffer
<1>17. \A q \in Nodes : tree'[q] # tree[q] => q = zk.cur /\ link = "up" /\ tree'[q] = Recreated(q)
  BY <1>2, <1>4, <1>10, <1>12
<1>18. rc = "ZOK" => tree'[zk.cur] = reg'[zk.cur]
  BY <1>2, <1>10, <1>13, <1>15
<1>19. QED
  BY <1>2, <1>14, <1>15, <1>16, <1>17, <1>18

\* The step goes on with the same node, or with the next one.
LEMMA AtWith ==
  ASSUME zk \in ZkType, AtNode, NEW pc \in {"create", "check", "make", "recreate", "retry"},
         NEW try \in {1, 2},
         zk' = [zk EXCEPT !.pc = pc] \/ zk' = [zk EXCEPT !.pc = pc, !.try = try]
  PROVE  AtNode' /\ zk'.cur = zk.cur /\ zk'.todo = zk.todo
<1>1. zk = [pc |-> zk.pc, cur |-> zk.cur, todo |-> zk.todo, try |-> zk.try]
  BY ZkSays
<1>2. \/ zk' = [pc |-> pc, cur |-> zk.cur, todo |-> zk.todo, try |-> zk.try]
      \/ zk' = [pc |-> pc, cur |-> zk.cur, todo |-> zk.todo, try |-> try]
  BY <1>1
<1>3. zk'.pc = pc /\ zk'.cur = zk.cur /\ zk'.todo = zk.todo
  BY <1>2
<1>4. QED
  BY <1>3 DEF AtNode

LEMMA ResumesSay ==
  ASSUME MemoryInv,
         \/ ResumeNode \/ ResumeCreate \/ ResumeCheckParent \/ ResumeMakeParent
         \/ ResumeRecreate \/ ResumeRetry \/ ResumeEnd
  PROVE  ResumedWith
<1> DEFINE reg == m_ephemeral_node_info
           PCs == {"create", "check", "make", "recreate", "retry"}
<1>r. tree \in Trees /\ zk \in ZkType
  BY DEF MemoryInv, MemoryTypes
<1>1. /\ Resuming /\ UNCHANGED <<link, requests, user>>
      /\ completions' = completions \/ completions' = Append(completions, Connected)
  BY ResumeSays DEF Resumed
<1>2. CASE ResumeNode
  <2>1. PICK q \in zk.todo :
          zk' = [pc |-> "create", cur |-> q, todo |-> zk.todo \ {q}, try |-> 1]
    BY <1>2 DEF ResumeNode
  <2>2. zk'.pc = "create" /\ zk'.cur = q /\ zk'.todo = zk.todo \ {q}
    BY <2>1
  <2>3. zk.pc = "next" /\ tree' = tree /\ orphans' = orphans /\ reg' = reg
        /\ UNCHANGED <<doubt, m_need_resume_env>>
    BY <1>2 DEF ResumeNode, server, registry, history
  <2>4. QED
    BY <1>1, <2>2, <2>3 DEF ResumedWith, AtNode
<1>3. CASE ResumeEnd
  <2>1. /\ zk.pc = "next" /\ zk.todo = {} /\ zk'.pc = "idle" /\ m_need_resume_env' = FALSE
        /\ doubt' = doubt /\ tree' = tree /\ orphans' = orphans /\ reg' = reg
    BY <1>3 DEF ResumeEnd, server, history, Idle
  <2>2. QED
    BY <1>1, <2>1 DEF ResumedWith
<1>4. CASE ResumeCreate \/ ResumeRecreate \/ ResumeRetry
  <2>1. PICK rc \in Codes :
          /\ Recreate(rc) /\ Written(rc)
          /\ NextNode(rc) \/ (rc # "ZOK" /\ \E pc \in PCs : At(pc))
    BY <1>4 DEF ResumeCreate, ResumeRecreate, ResumeRetry
  <2>2. AtNode /\ m_need_resume_env' = m_need_resume_env
    BY <1>4 DEF ResumeCreate, ResumeRecreate, ResumeRetry, AtNode
  <2>3. /\ \A p \in Nodes : tree'[p] # tree[p] =>
             p = zk.cur /\ link = "up" /\ tree'[p] = Recreated(p)
        /\ \A p \in Nodes : /\ reg'[p] = Absent <=> reg[p] = Absent
                            /\ p # zk.cur => reg'[p] = reg[p]
        /\ rc = "ZOK" => tree'[zk.cur] = reg'[zk.cur]
        /\ rc # "ZOK" => reg' = reg
        /\ orphans' = {p \in orphans : reg'[p] = Absent}
    BY <2>1, <2>2, RecreatedSays
  <2>4. \/ /\ zk'.pc = "next" /\ zk'.todo = zk.todo
           /\ doubt' = IF rc = "ZOK" THEN doubt ELSE doubt \union {zk.cur}
        \/ AtNode' /\ zk'.cur = zk.cur /\ zk'.todo = zk.todo /\ doubt' = doubt /\ rc # "ZOK"
    <3>1. CASE NextNode(rc)
      BY <3>1 DEF NextNode
    <3>2. CASE rc # "ZOK" /\ \E pc \in PCs : At(pc)
      <4>1. PICK pc \in PCs : zk' = [zk EXCEPT !.pc = pc] /\ doubt' = doubt
        BY <3>2 DEF At
      <4>2. AtNode' /\ zk'.cur = zk.cur /\ zk'.todo = zk.todo
        BY <1>r, <2>2, <4>1, AtWith
      <4>3. QED
        BY <3>2, <4>1, <4>2
    <3>3. QED
      BY <2>1, <3>1, <3>2
  <2>5. QED
    BY <1>1, <2>2, <2>3, <2>4 DEF ResumedWith
<1>5. CASE ResumeCheckParent \/ ResumeMakeParent
  <2>0. CheckOp(Parent) \in Ops /\ CreateOp(Parent, Plain) \in Ops
        /\ CheckOp(Parent).path = Parent /\ CreateOp(Parent, Plain).path = Parent
    BY NodeOpsSay DEF CheckOp, CreateOp
  <2>1. PICK rc \in Codes, op \in Ops :
          /\ op.path = Parent /\ ZkCall(<<op>>, rc)
          /\ (rc # "ZOK" /\ PathFailed(rc)) \/ \E pc \in PCs : At(pc)
    BY <1>5, <2>0 DEF ResumeCheckParent, ResumeMakeParent
  <2>2. AtNode /\ m_need_resume_env' = m_need_resume_env /\ orphans' = orphans
        /\ reg' = reg
    BY <1>5 DEF ResumeCheckParent, ResumeMakeParent, AtNode, registry
  <2>3. \A p \in Nodes : tree'[p] = tree[p]
    <3>1. <<op>> \in Seq(Ops) /\ PathsOf(<<op>>) = {Parent}
      BY <2>1, OneOp
    <3>2. \A p \in Nodes : p \notin PathsOf(<<op>>) => tree'[p] = tree[p]
      BY <1>r, <2>1, <3>1, ZkCallSays
    <3>3. QED
      BY <3>1, <3>2, NamesDiffer
  <2>4. \/ zk'.pc = "next" /\ zk'.todo = zk.todo /\ doubt' = doubt \union {zk.cur}
        \/ AtNode' /\ zk'.cur = zk.cur /\ zk'.todo = zk.todo /\ doubt' = doubt
    <3>1. CASE rc # "ZOK" /\ PathFailed(rc)
      <4>1. CASE zk.try = 1
        <5>1. zk' = [zk EXCEPT !.pc = "check", !.try = 2] /\ doubt' = doubt
          BY <3>1, <4>1 DEF PathFailed
        <5>2. AtNode' /\ zk'.cur = zk.cur /\ zk'.todo = zk.todo
          BY <1>r, <2>2, <5>1, AtWith
        <5>3. QED
          BY <5>1, <5>2
      <4>2. CASE zk.try # 1
        BY <3>1, <4>2 DEF PathFailed, NextNode
      <4>3. QED
        BY <4>1, <4>2
    <3>2. CASE \E pc \in PCs : At(pc)
      <4>1. PICK pc \in PCs : zk' = [zk EXCEPT !.pc = pc] /\ doubt' = doubt
        BY <3>2 DEF At
      <4>2. AtNode' /\ zk'.cur = zk.cur /\ zk'.todo = zk.todo
        BY <1>r, <2>2, <4>1, AtWith
      <4>3. QED
        BY <4>1, <4>2
    <3>3. QED
      BY <2>1, <3>1, <3>2
  <2>5. QED
    BY <1>1, <2>2, <2>3, <2>4 DEF ResumedWith
<1>6. QED
  BY <1>2, <1>3, <1>4, <1>5

\* While the environment is resumed the pipe is empty but for events.
LEMMA ResumingSays ==
  ASSUME PipeInv, SessionsOK, ResumedWith
  PROVE  /\ m_need_resume_env /\ user.pc = "idle" /\ user' = user
         /\ DOMAIN requests = {} /\ requests' = requests
         /\ \A k \in DOMAIN completions' : ~IsAnswer(k)'
<1>1. m_need_resume_env /\ user.pc = "idle" /\ requests' = requests /\ user' = user
  BY DEF SessionsOK, ResumedWith
<1>2. DOMAIN requests = {}
  BY <1>1 DEF SessionsOK, PipeInv, SyncLast
<1>3. completions \in Seq(AnswerType \union {Connected, Expired})
      /\ \A k \in DOMAIN completions : ~IsAnswer(k)
  BY <1>1 DEF SessionsOK, PipeInv, PipeTypes
<1>4. \A k \in DOMAIN completions' : ~IsAnswer(k)'
  <2>1. CASE completions' = completions
    BY <1>3, <2>1 DEF IsAnswer
  <2>2. CASE completions' = Append(completions, Connected)
    <3>1. /\ \A k \in DOMAIN completions : completions'[k] = completions[k]
          /\ completions'[Len(completions) + 1] = Connected
          /\ \A k \in DOMAIN completions' : k \in DOMAIN completions \/ k = Len(completions) + 1
      BY <1>3, <2>2, AppendSays
    <3>2. QED
      BY <1>3, <3>1, CallsDiffer DEF IsAnswer
  <2>3. QED
    BY <2>1, <2>2 DEF ResumedWith
<1>5. QED
  BY <1>1, <1>2, <1>4

LEMMA RegistryResumed ==
  ASSUME PipeInv, SessionsOK, NEW p \in Nodes, RegistryInv(p), ResumedWith
  PROVE  RegistryInv(p)'
<1> DEFINE reg == m_ephemeral_node_info
<1>1. /\ m_need_resume_env /\ user.pc = "idle" /\ user' = user
      /\ DOMAIN requests = {} /\ requests' = requests
      /\ \A k \in DOMAIN completions' : ~AnswerOn(k, p)'
  BY ResumingSays DEF AnswerOn
<1>2. /\ Resuming /\ link' = link /\ (reg'[p] = Absent <=> reg[p] = Absent)
      /\ tree'[p] # tree[p] => AtNode /\ p = zk.cur /\ link = "up" /\ tree'[p] = Recreated(p)
  BY DEF ResumedWith
<1>3. p \in orphans' <=> p \in orphans
  BY DEF ResumedWith, RegistryInv, Outside
<1>4. CASE /\ zk.pc = "next" /\ AtNode' /\ zk'.cur \in zk.todo /\ zk'.todo = zk.todo \ {zk'.cur}
           /\ UNCHANGED <<doubt, m_need_resume_env, reg>>
  <2>1. ~AtNode /\ Resuming' /\ tree'[p] = tree[p]
    BY <1>2, <1>4 DEF AtNode, Resuming
  <2>2. Recreating(p)'
    BY <1>2, <1>3, <1>4, <2>1 DEF RegistryInv, Recreating, Valid
  <2>3. Lapsed(p)'
    BY <1>1, <1>2, <1>4, <2>1 DEF RegistryInv, Lapsed
  <2>4. Agreed(p)'
    BY <1>1, <1>4 DEF Agreed, Current
  <2>5. QED
    BY <1>1, <1>2, <1>3, <2>2, <2>3, <2>4
       DEF RegistryInv, Fitting, Emptied, Wiped, Listed, Skipped, Skipping, Outside
<1>5. CASE /\ zk.pc = "next" /\ zk.todo = {} /\ zk'.pc = "idle"
           /\ m_need_resume_env' = FALSE /\ UNCHANGED <<doubt, reg>>
  <2>1. ~AtNode /\ ~Resuming' /\ ~AtNode' /\ tree'[p] = tree[p]
    BY <1>2, <1>5 DEF AtNode, Resuming
  <2>2. Recreating(p)'
    BY <2>1 DEF Recreating
  <2>3. Lapsed(p)'
    BY <1>1, <1>2, <1>5, <2>1 DEF RegistryInv, Lapsed
  <2>4. Agreed(p)'
    <3>1. SUFFICES ASSUME Current(p)' PROVE Agreed(p)'
      BY DEF Agreed
    <3>2. link = "up" /\ p \notin doubt
      BY <1>2, <1>5, <3>1 DEF Current
    <3>3. Valid(p, reg[p])
      BY <1>2, <1>5, <2>1, <3>2 DEF RegistryInv, Recreating
    <3>4. Valid(p, reg[p])'
      BY <1>2, <1>3, <1>5, <2>1, <3>3 DEF Valid
    <3>5. QED
      BY <1>1, <3>4 DEF Agreed, UserTells
  <2>5. QED
    BY <1>1, <1>2, <1>3, <2>2, <2>3, <2>4
       DEF RegistryInv, Fitting, Emptied, Wiped, Listed, Skipped, Skipping, Outside
<1>6. CASE /\ AtNode /\ zk'.todo = zk.todo /\ m_need_resume_env' = m_need_resume_env
           /\ \/ AtNode' /\ zk'.cur = zk.cur /\ UNCHANGED <<doubt, reg>>
              \/ zk'.pc = "next" /\ doubt' = doubt \union {zk.cur} /\ reg' = reg
              \/ /\ zk'.pc = "next" /\ doubt' = doubt /\ tree'[zk.cur] = reg'[zk.cur]
                 /\ \A q \in Nodes : q # zk.cur => reg'[q] = reg[q]
  <2>1. Resuming' /\ (zk'.pc = "next" => ~AtNode')
    BY <1>6 DEF AtNode, Resuming
  <2>2. zk.cur \notin zk.todo
    BY <1>6 DEF RegistryInv, Recreating
  <2>3. Recreating(p)'
    <3>1. CASE AtNode' /\ zk'.cur = zk.cur /\ UNCHANGED <<doubt, reg>>
      BY <1>2, <1>3, <1>6, <2>1, <2>2, <3>1 DEF RegistryInv, Recreating, Valid, Recreated
    <3>2. CASE zk'.pc = "next" /\ doubt' = doubt \union {zk.cur} /\ reg' = reg
      BY <1>2, <1>3, <1>6, <2>1, <2>2, <3>2 DEF RegistryInv, Recreating, Valid
    <3>3. CASE /\ zk'.pc = "next" /\ doubt' = doubt /\ tree'[zk.cur] = reg'[zk.cur]
               /\ \A q \in Nodes : q # zk.cur => reg'[q] = reg[q]
      BY <1>2, <1>3, <1>6, <2>1, <2>2, <3>3 DEF RegistryInv, Recreating, Valid
    <3>4. QED
      BY <1>6, <3>1, <3>2, <3>3
  <2>4. Lapsed(p)'
    BY <1>1, <1>2, <2>1 DEF RegistryInv, Lapsed
  <2>5. Agreed(p)'
    BY <1>1, <1>6 DEF Agreed, Current
  <2>6. QED
    BY <1>1, <1>2, <1>3, <2>3, <2>4, <2>5
       DEF RegistryInv, Fitting, Emptied, Wiped, Listed, Skipped, Skipping, Outside
<1>7. QED
  BY <1>4, <1>5, <1>6 DEF ResumedWith

LEMMA ShapesResumed ==
  ASSUME PipeInv, SessionsOK, ShapesOK, ResumedWith
  PROVE  ShapesOK' /\ OrphansWait'
  BY ResumingSays DEF ShapesOK, OrphansWait, UserCalls

\* A new session: nothing is in it, and nothing is under way.
LEMMA RegistryReconnected ==
  ASSUME PipeInv, MemoryInv, SessionsOK, ShapesOK, NEW p \in Nodes, RegistryInv(p), Reconnect
  PROVE  RegistryInv(p)' /\ ShapesOK' /\ OrphansWait'
<1>1. /\ completions # <<>> /\ Head(completions).call = "EXPIRED" /\ zk.pc = "idle"
      /\ completions' = Append(Tail(completions), Connected)
      /\ UNCHANGED <<requests, user, zk>> /\ tree' = tree /\ link' = "up"
      /\ m_ephemeral_node_info' = m_ephemeral_node_info /\ m_need_resume_env' = TRUE
      /\ doubt' = {} /\ orphans' = {}
  BY DEF Reconnect
<1>2. /\ completions \in Seq(AnswerType \union {Connected, Expired})
      /\ Connected \in AnswerType \union {Connected, Expired}
  BY DEF PipeInv, PipeTypes
<1>3. completions[1].call = "EXPIRED" /\ 1 \in DOMAIN completions
  BY <1>1, <1>2, TailSays
<1>4. link = "expired" /\ Len(completions) = 1
  BY <1>3 DEF SessionsOK, MemoryInv, MemoryTypes
<1>5. PICK rest : rest = Tail(completions)
  OBVIOUS
<1>6. /\ rest \in Seq(AnswerType \union {Connected, Expired}) /\ DOMAIN rest = {}
  BY <1>1, <1>2, <1>4, <1>5, TailSays
<1>7. \A k \in DOMAIN completions' : completions'[k] = Connected
  BY <1>1, <1>2, <1>5, <1>6, AppendSays
<1>8. \A k \in DOMAIN completions' : ~IsAnswer(k)' /\ ~AnswerOn(k, p)'
  BY <1>7, CallsDiffer DEF IsAnswer, AnswerOn
<1>9. ~Resuming' /\ ~AtNode' /\ (Wiped' <=> Wiped)
  BY <1>1 DEF Resuming, AtNode, Wiped
<1>10. Fitting(p)' /\ Emptied(p)' /\ Skipped(p)'
  BY <1>1, <1>8, <1>9 DEF RegistryInv, Fitting, Emptied, RequestOn, Skipped, Skipping
<1>11. Agreed(p)' /\ Listed(p)' /\ Recreating(p)' /\ Outside(p)'
  BY <1>1, <1>9 DEF Agreed, Current, Listed, Recreating, Outside
<1>12. Lapsed(p)'
  BY <1>1, <1>4 DEF RegistryInv, Lapsed
<1>13. ShapesOK' /\ OrphansWait'
  BY <1>1, <1>8 DEF ShapesOK, OrphansWait, UserCalls
<1>14. QED
  BY <1>10, <1>11, <1>12, <1>13 DEF RegistryInv

\* The connection stands: what is remembered is to be created again.
LEMMA RegistryConnected ==
  ASSUME PipeInv, ShapesOK, OrphansWait, NEW p \in Nodes, RegistryInv(p), ConnectedEvent
  PROVE  RegistryInv(p)' /\ ShapesOK' /\ OrphansWait'
<1> DEFINE reg == m_ephemeral_node_info
<1>1. /\ completions # <<>> /\ completions' = Tail(completions)
      /\ Head(completions).call = "CONNECTED" /\ zk.pc = "idle"
      /\ requests' = requests /\ user' = user /\ tree' = tree /\ link' = link /\ reg' = reg
      /\ m_need_resume_env' = m_need_resume_env /\ doubt' = doubt /\ orphans' = orphans
      /\ zk' = IF m_need_resume_env THEN [pc |-> "next", todo |-> Existing(reg)] ELSE zk
  BY DEF ConnectedEvent, Handles, server, registry, history
<1>2. /\ Len(completions) \in Nat /\ 1 \in DOMAIN completions
      /\ Head(completions) = completions[1]
      /\ DOMAIN completions = 1..Len(completions)
      /\ DOMAIN completions' = 1..(Len(completions) - 1)
      /\ \A k \in DOMAIN completions' :
           k + 1 \in DOMAIN completions /\ completions'[k] = completions[k + 1]
  BY <1>1, TailSays DEF PipeInv, PipeTypes
<1>3. \A k \in DOMAIN completions : k # 1 => k - 1 \in DOMAIN completions' /\ (k - 1) + 1 = k
  BY <1>2
<1>4. /\ \A k \in DOMAIN completions' : IsAnswer(k)' <=> IsAnswer(k + 1)
      /\ \A k \in DOMAIN completions' : AnswerOn(k, p)' <=> AnswerOn(k + 1, p)
      /\ ~AnswerOn(1, p)
  BY <1>1, <1>2, CallsDiffer DEF AnswerOn, IsAnswer, AsyncCalls
<1>5. (\A k \in DOMAIN completions' : ~AnswerOn(k, p)')
        => \A k \in DOMAIN completions : ~AnswerOn(k, p)
  <2> SUFFICES ASSUME \A k \in DOMAIN completions' : ~AnswerOn(k, p)',
                      NEW k \in DOMAIN completions, k # 1
               PROVE  ~AnswerOn(k, p)
    BY <1>4
  <2>1. k - 1 \in DOMAIN completions' /\ (k - 1) + 1 = k
    BY <1>3
  <2>2. ~AnswerOn((k - 1) + 1, p)
    BY <1>4, <2>1
  <2>3. QED
    BY <2>1, <2>2
<1>6. (Wiped' <=> Wiped) /\ (UserTells(p)' <=> UserTells(p)) /\ ~Resuming /\ ~AtNode
  BY <1>1 DEF Wiped, UserTells, Resuming, AtNode
<1>7. Fitting(p)'
  BY <1>1, <1>2, <1>4 DEF RegistryInv, Fitting, RequestOn
<1>8. Agreed(p)'
  <2> SUFFICES ASSUME Current(p)' PROVE Agreed(p)'
    BY DEF Agreed
  <2>1. Current(p)
    BY <1>1 DEF Current
  <2>2. Untold(p)' => Valid(p, reg[p])'
    BY <1>1, <1>5, <1>6, <2>1 DEF RegistryInv, Agreed, Untold, Valid
  <2>3. ASSUME NEW k \in DOMAIN completions', AnswerOn(k, p)'
        PROVE  ResultIsCode(completions'[k]) /\ Valid(p, Answered(completions'[k], reg[p]))
    BY <1>2, <1>4, <2>1, <2>3 DEF RegistryInv, Agreed
  <2>4. UserTells(p)' => ResultIsCode(user) /\ Valid(p, Returned(user, reg[p]))
    BY <1>6, <2>1 DEF RegistryInv, Agreed
  <2>5. user.pc = "answered" /\ user.call = "DeletePathMulti" /\ user.rc # "ZOK"
          => p \notin PathsOf(user.ops)
    BY <2>1 DEF RegistryInv, Agreed
  <2>6. QED
    BY <1>1, <2>2, <2>3, <2>4, <2>5 DEF Agreed, Valid
<1>9. Emptied(p)'
  BY <1>1, <1>2, <1>4, <1>6 DEF RegistryInv, Emptied, RequestOn
<1>10. Listed(p)' /\ Skipped(p)' /\ Outside(p)'
  BY <1>1 DEF RegistryInv, Listed, Skipped, Skipping, Outside
<1>11. Lapsed(p)' /\ Recreating(p)'
  <2>1. CASE m_need_resume_env
    <3>1. zk'.pc = "next" /\ zk'.todo = Existing(reg) /\ Resuming' /\ ~AtNode'
      BY <1>1, <2>1 DEF Resuming, AtNode
    <3>2. Recreating(p)'
      <4>1. SUFFICES ASSUME link = "up", p \notin doubt
                     PROVE  IF p \in zk'.todo THEN tree[p] = Absent ELSE Valid(p, reg[p])
        BY <1>1, <3>1 DEF Recreating, Valid
      <4>2. tree[p] = Absent \/ p \in orphans
        BY <1>6, <2>1, <4>1 DEF RegistryInv, Lapsed
      <4>3. QED
        BY <3>1, <4>2 DEF RegistryInv, Outside, Existing, Valid
    <3>3. Lapsed(p)'
      BY <1>1, <3>1 DEF RegistryInv, Lapsed
    <3>4. QED
      BY <3>2, <3>3
  <2>2. CASE ~m_need_resume_env
    BY <1>1, <1>6, <2>2 DEF RegistryInv, Lapsed, Recreating, Resuming, AtNode
  <2>3. QED
    BY <2>1, <2>2
<1>12. ShapesOK' /\ OrphansWait'
  <2>1. \A k \in DOMAIN completions' : IsAnswer(k)' =>
          ShapeOK(completions'[k].call, completions'[k].ops, completions'[k].ctx)
    BY <1>2, <1>4 DEF ShapesOK
  <2>2. QED
    BY <1>1, <2>1 DEF ShapesOK, OrphansWait, UserCalls
<1>13. QED
  BY <1>7, <1>8, <1>9, <1>10, <1>11, <1>12 DEF RegistryInv

-----------------------------------------------------------------------------
(* The server.                                                             *)

\* The server has executed an asynchronous call: the answer says how.
ServedAsync(a) ==
  /\ requests # <<>> /\ requests' = Tail(requests) /\ link = "up"
  /\ completions' = Append(completions, a) /\ a \in AnswerType
  /\ requests[1].call \in AsyncCalls /\ a.call = requests[1].call
  /\ a.ops = requests[1].ops /\ a.ctx = requests[1].ctx
  /\ a.rc = Outcome(a.ops[1], tree) /\ a.results[1] = a.rc
  /\ tree' = IF a.rc = "ZOK" THEN Change(a.ops[1], tree) ELSE tree
  /\ Len(a.ops) = 1
  /\ UNCHANGED <<link, user, m_ephemeral_node_info, m_need_resume_env, zk, doubt, orphans>>

\* The server has executed a synchronous call: the user thread has the answer.
ServedSync ==
  /\ requests # <<>> /\ requests' = <<>> /\ completions' = completions /\ link = "up"
  /\ user.pc = "sent" /\ Len(requests) = 1 /\ requests[1].ops = user.ops
  /\ user' = [pc |-> "answered", call |-> user.call, ops |-> user.ops, ctx |-> user.ctx,
              rc |-> Execute(user.ops, tree).rc, results |-> Execute(user.ops, tree).results,
              view |-> Existing(tree)]
  /\ tree' = Execute(user.ops, tree).tree
  /\ UNCHANGED <<link, m_ephemeral_node_info, m_need_resume_env, zk, doubt, orphans>>

LEMMA ServesSay ==
  ASSUME PipeInv, ShapesOK, tree \in Trees, Serve
  PROVE  ServedSync \/ \E a : ServedAsync(a)
<1>1. /\ requests # <<>> /\ 1 \in DOMAIN requests /\ requests' = Tail(requests)
      /\ tree' = Execute(requests[1].ops, tree).tree /\ link = "up"
      /\ UNCHANGED <<link, m_ephemeral_node_info, m_need_resume_env, zk, doubt, orphans>>
  BY ServeSays DEF Serve, registry, history
<1>2. PICK ops \in Seq(Ops) : ops = requests[1].ops
  BY <1>1, PipeSays DEF PipeInv
<1>3. PICK rc, results, t : /\ rc = Execute(ops, tree).rc /\ results = Execute(ops, tree).results
                            /\ t = Execute(ops, tree).tree
  OBVIOUS
<1>4. CASE /\ requests[1].call \in AsyncCalls /\ user' = user
           /\ completions' = Append(completions,
                [call |-> requests[1].call, ops |-> requests[1].ops,
                 ctx |-> requests[1].ctx, rc |-> Execute(requests[1].ops, tree).rc,
                 results |-> Execute(requests[1].ops, tree).results])
  <2>1. PICK a : a = [call |-> requests[1].call, ops |-> ops, ctx |-> requests[1].ctx,
                      rc |-> rc, results |-> results]
    OBVIOUS
  <2>2. completions' = Append(completions, a)
    BY <1>2, <1>3, <1>4, <2>1
  <2>3. rc \in RCs /\ results \in Seq(RCs) /\ requests[1].ctx \in Ctxs
    BY <1>1, <1>3, ExecuteIs, PipeSays DEF PipeInv
  <2>4. a \in AnswerType
    BY <1>4, <2>1, <2>3 DEF AnswerType
  <2>5. Len(ops) = 1
    BY <1>1, <1>2, <1>4 DEF ShapesOK, ShapeOK, AsyncCalls
  <2>6. /\ rc = Outcome(ops[1], tree) /\ results[1] = rc
        /\ t = IF rc = "ZOK" THEN Change(ops[1], tree) ELSE tree
    BY <1>3, <2>5, ExecuteOne
  <2>7. ServedAsync(a)
    BY <1>1, <1>2, <1>3, <1>4, <2>1, <2>2, <2>4, <2>5, <2>6 DEF ServedAsync
  <2>8. QED
    BY <2>7
<1>5. CASE /\ requests[1].call \notin AsyncCalls /\ user.pc = "sent" /\ Len(requests) = 1
           /\ requests[1] = [call |-> user.call, ops |-> user.ops, ctx |-> user.ctx]
           /\ completions' = completions
           /\ user' = [pc |-> "answered", call |-> user.call, ops |-> user.ops,
                       ctx |-> user.ctx, rc |-> Execute(user.ops, tree).rc,
                       results |-> Execute(user.ops, tree).results,
                       view |-> Existing(tree)]
  <2>1. requests[1].ops = user.ops
    BY <1>5
  <2>2. requests' = <<>>
    <3>1. requests' \in Seq(RequestType) /\ Len(requests') = 0
      BY <1>1, <1>5, TailSays DEF PipeInv, PipeTypes
    <3>2. QED
      BY <3>1, EmptySeq
  <2>3. QED
    BY <1>1, <1>5, <2>1, <2>2 DEF ServedSync
<1>6. QED
  BY <1>4, <1>5, ServeSays

\* The answer of an asynchronous call waits for its callback.
LEMMA RegistryAnswered ==
  ASSUME PipeInv, MemoryInv, SessionsOK, NEW p \in Nodes, Alone(p), RegistryInv(p),
         NEW a, ServedAsync(a)
  PROVE  RegistryInv(p)'
<1> DEFINE reg == m_ephemeral_node_info
<1>1. /\ requests # <<>> /\ requests' = Tail(requests) /\ link = "up" /\ link' = link
      /\ completions' = Append(completions, a) /\ a \in AnswerType
      /\ requests[1].call \in AsyncCalls /\ a.call = requests[1].call
      /\ a.ops = requests[1].ops /\ a.ctx = requests[1].ctx
      /\ a.rc = Outcome(a.ops[1], tree) /\ a.results[1] = a.rc
      /\ tree' = IF a.rc = "ZOK" THEN Change(a.ops[1], tree) ELSE tree
      /\ Len(a.ops) = 1 /\ user' = user /\ reg' = reg /\ zk' = zk
      /\ m_need_resume_env' = m_need_resume_env /\ doubt' = doubt /\ orphans' = orphans
  BY DEF ServedAsync
<1>2. /\ Len(requests) \in Nat /\ 1 \in DOMAIN requests
      /\ DOMAIN requests = 1..Len(requests)
      /\ \A k \in DOMAIN requests' :
           k + 1 \in DOMAIN requests /\ requests'[k] = requests[k + 1]
      /\ \A k \in DOMAIN requests' : k + 1 # 1
  BY <1>1, TailSays DEF PipeInv, PipeTypes
<1>3. PICK n : n = Len(completions) + 1
  OBVIOUS
<1>4. /\ n \in DOMAIN completions' /\ completions'[n] = a /\ n \notin DOMAIN completions
      /\ \A k \in DOMAIN completions : k \in DOMAIN completions' /\ completions'[k] = completions[k]
      /\ \A k \in DOMAIN completions' : k \in DOMAIN completions \/ k = n
  BY <1>1, <1>3, AppendSays DEF PipeInv, PipeTypes
<1>5. PICK op \in Ops : /\ op = a.ops[1] /\ PathsOf(a.ops) = {op.path}
                        /\ op = requests[1].ops[1]
  <2>1. a.ops \in Seq(Ops)
    BY <1>1 DEF AnswerType
  <2>2. QED
    BY <1>1, <2>1, OneSays
<1>6. RequestOn(1, p) <=> p = op.path
  BY <1>1, <1>5 DEF RequestOn
<1>7. tree \in Trees /\ (p # op.path => tree'[p] = tree[p])
  BY <1>1, <1>5, TreeTouch, NamesDiffer DEF MemoryInv, MemoryTypes
<1>8. /\ \A k \in DOMAIN completions : AnswerOn(k, p)' <=> AnswerOn(k, p)
      /\ AnswerOn(n, p)' <=> p = op.path
  BY <1>1, <1>4, <1>5 DEF AnswerOn, IsAnswer
<1>9. \A k \in DOMAIN requests' : RequestOn(k, p)' <=> RequestOn(k + 1, p)
  BY <1>2 DEF RequestOn
<1>10. ~m_need_resume_env /\ ~Resuming
  BY <1>1, <1>2 DEF SessionsOK
<1>11. /\ Wiped' <=> Wiped
       /\ UserTells(p)' <=> UserTells(p)
  BY <1>1 DEF Wiped, UserTells
<1>12. p = op.path =>
         /\ \A k \in DOMAIN completions : ~AnswerOn(k, p)
         /\ ~UserOn(p) /\ ~Wiped
  <2> SUFFICES ASSUME p = op.path
               PROVE  (\A k \in DOMAIN completions : ~AnswerOn(k, p)) /\ ~UserOn(p) /\ ~Wiped
    OBVIOUS
  <2>1. \A k \in DOMAIN completions : ~AnswerOn(k, p)
    BY <1>2, <1>6 DEF Alone
  <2>2. UserOn(p) => user.pc = "sent" /\ 1 = Len(requests)
    BY <1>2, <1>6 DEF Alone
  <2>3. user.pc = "sent" => requests[Len(requests)].call \in SyncCalls
    BY UserSays DEF PipeInv, PipeTypes, SyncLast
  <2>4. ~Wiped
    BY <1>2, <1>6 DEF RegistryInv, Emptied
  <2>5. QED
    BY <1>1, <2>1, <2>2, <2>3, <2>4, CallsDiffer
<1>13. Fitting(p)'
  <2>1. \A k \in DOMAIN requests' : RequestOn(k, p)' /\ requests'[k].call \in AsyncCalls =>
          Fits(requests'[k], p, reg[p])
    BY <1>2, <1>9 DEF RegistryInv, Fitting
  <2>2. p = op.path => Fits(a, p, reg[p])
    BY <1>1, <1>2, <1>6 DEF RegistryInv, Fitting, Fits
  <2>3. \A k \in DOMAIN completions' : AnswerOn(k, p)' => Fits(completions'[k], p, reg[p])
    BY <1>4, <1>8, <2>2 DEF RegistryInv, Fitting
  <2>4. QED
    BY <1>1, <2>1, <2>3 DEF Fitting
<1>14. Agreed(p)'
  <2> SUFFICES ASSUME Current(p)' PROVE Agreed(p)'
    BY DEF Agreed
  <2>1. Current(p)
    BY <1>1 DEF Current
  <2>2. ASSUME Untold(p)' PROVE Valid(p, reg[p])'
    <3>1. p # op.path /\ Untold(p)
      BY <1>4, <1>8, <1>11, <2>2 DEF Untold
    <3>2. QED
      BY <1>1, <1>7, <2>1, <3>1 DEF RegistryInv, Agreed, Valid
  <2>3. ASSUME NEW k \in DOMAIN completions', AnswerOn(k, p)'
        PROVE  /\ ResultIsCode(completions'[k])
               /\ \/ Answered(completions'[k], reg'[p]) = tree'[p]
                  \/ p \in orphans' /\ Answered(completions'[k], reg'[p]) = Absent
    <3>1. CASE k \in DOMAIN completions
      <4>1. AnswerOn(k, p) /\ completions'[k] = completions[k] /\ p # op.path
        BY <1>4, <1>8, <1>12, <2>3, <3>1
      <4>2. QED
        BY <1>1, <1>7, <2>1, <3>1, <4>1 DEF RegistryInv, Agreed, Valid
    <3>2. CASE k = n
      <4>1. p = op.path /\ completions'[k] = a
        BY <1>4, <1>8, <2>3, <3>2
      <4>2. Untold(p)
        BY <1>12, <4>1 DEF Untold, UserTells, UserOn, UserCalls
      <4>3. PICK v : v = reg[p]
        OBVIOUS
      <4>4. v = tree[op.path] \/ (p \in orphans /\ v = Absent)
        BY <2>1, <4>1, <4>2, <4>3 DEF RegistryInv, Agreed, Valid
      <4>5. Answered(a, v) = IF a.rc = "ZOK" THEN Enter(op, v) ELSE v
        BY <1>5 DEF Answered
      <4>6. CASE a.rc = "ZOK"
        <5>1. Outcome(op, tree) = "ZOK" /\ tree' = Change(op, tree)
          BY <1>1, <1>5, <4>6
        <5>2. Enter(op, v) = Change(op, tree)[op.path]
                \/ (p \in orphans /\ Enter(op, v) = Absent)
          BY <1>7, <4>1, <4>4, <5>1, EnterFollows
        <5>3. QED
          BY <1>1, <4>1, <4>3, <4>5, <4>6, <5>1, <5>2 DEF ResultIsCode
      <4>7. CASE a.rc # "ZOK"
        BY <1>1, <4>1, <4>3, <4>4, <4>5, <4>7 DEF ResultIsCode
      <4>8. QED
        BY <4>6, <4>7
    <3>3. QED
      BY <1>4, <3>1, <3>2
  <2>4. ASSUME UserTells(p)'
        PROVE  /\ ResultIsCode(user')
               /\ \/ Returned(user', reg'[p]) = tree'[p]
                  \/ p \in orphans' /\ Returned(user', reg'[p]) = Absent
    <3>1. UserTells(p) /\ p # op.path
      BY <1>11, <1>12, <2>4 DEF UserTells, UserOn, UserCalls
    <3>2. QED
      BY <1>1, <1>7, <2>1, <3>1 DEF RegistryInv, Agreed, Valid
  <2>5. user'.pc = "answered" /\ user'.call = "DeletePathMulti" /\ user'.rc # "ZOK"
          => p \notin PathsOf(user'.ops)
    BY <1>1, <2>1 DEF RegistryInv, Agreed
  <2>6. QED
    BY <2>2, <2>3, <2>4, <2>5 DEF Agreed, Valid
<1>15. Emptied(p)'
  <2> SUFFICES ASSUME Wiped PROVE Emptied(p)'
    BY <1>11 DEF Emptied
  <2>1. /\ p # op.path /\ tree[p] = Absent
        /\ \A k \in DOMAIN requests : ~RequestOn(k, p)
        /\ \A k \in DOMAIN completions : ~AnswerOn(k, p)
    BY <1>12 DEF RegistryInv, Emptied
  <2>2. \A k \in DOMAIN requests' : ~RequestOn(k, p)'
    BY <1>2, <1>9, <2>1
  <2>3. \A k \in DOMAIN completions' : ~AnswerOn(k, p)'
    BY <1>4, <1>8, <2>1
  <2>4. QED
    BY <1>7, <2>1, <2>2, <2>3 DEF Emptied
<1>16. Listed(p)'
  <2>1. UserCalls /\ user.call \in {"DeletePathRecursion", "DeletePathMulti"} => p # op.path
    BY <1>12 DEF UserOn
  <2>2. QED
    BY <1>1, <1>7, <2>1 DEF RegistryInv, Listed, UserCalls
<1>17. Skipped(p)'
  <2>1. Skipping(p) => p # op.path
    <3> SUFFICES ASSUME Skipping(p) PROVE UserOn(p)
      BY <1>12
    <3>1. UserCalls /\ user.ctx.path = p
      BY DEF Skipping, UserCalls
    <3>2. p \in PathsOf(user.ops)
      BY <3>1, NamesDiffer DEF PipeInv, CallsOK, CallOK, UserCalls
    <3>3. QED
      BY <3>1, <3>2 DEF UserOn
  <2>2. Skipping(p)' => Skipping(p)
    BY <1>1 DEF Skipping
  <2>3. QED
    BY <1>1, <1>7, <2>1, <2>2 DEF RegistryInv, Skipped
<1>18. Lapsed(p)' /\ Recreating(p)' /\ Outside(p)'
  BY <1>1, <1>10 DEF RegistryInv, Lapsed, Recreating, Resuming, AtNode, Outside
<1>19. QED
  BY <1>13, <1>14, <1>15, <1>16, <1>17, <1>18 DEF RegistryInv

\* The whole batch is refused only when it does not name what there is.
LEMMA BatchRefused ==
  ASSUME PipeInv, MemoryInv, ShapesOK, \A q \in Nodes : RegistryInv(q), NEW p \in Nodes,
         user.pc = "sent", user.call = "DeletePathMulti", link = "up", ~m_need_resume_env,
         Execute(user.ops, tree).rc # "ZOK"
  PROVE  p \notin PathsOf(user.ops)
<1>1. PICK ops \in Seq(Ops) : ops = user.ops
  BY UserSays DEF PipeInv, PipeTypes
<1>2. /\ ops # <<>> /\ ops[Len(ops)].path = Parent
      /\ \A j, k \in DOMAIN ops : ops[j].path = ops[k].path => j = k
  BY <1>1 DEF ShapesOK, ShapeOK, UserCalls
<1>3. \A k \in DOMAIN ops : ops[k].type = "delete"
  BY <1>1 DEF PipeInv, CallsOK, CallOK
<1>4. \A q \in Nodes : q \in PathsOf(ops) <=> tree[q] # Absent
  BY <1>1 DEF RegistryInv, Listed
<1>5. tree \in Trees
  BY DEF MemoryInv, MemoryTypes
<1>6. ASSUME p \in PathsOf(ops) PROVE FALSE
  <2>1. tree[Parent] # Absent
    BY <1>4, <1>5, <1>6 DEF Trees
  <2>2. QED
    BY <1>1, <1>2, <1>3, <1>4, <1>5, <2>1, BatchSucceeds
<1>7. QED
  BY <1>1, <1>6

\* The write of Create with ephemeral_exist_skip makes the node what was given.
LEMMA SkipWrites ==
  ASSUME PipeInv, MemoryInv, ShapesOK, NEW p \in Nodes, Skipped(p), user.pc = "sent",
         user.call = "CreateExistSkipSet", p \in PathsOf(user.ops),
         Outcome(user.ops[1], tree) = "ZOK"
  PROVE  user.ctx.info = Change(user.ops[1], tree)[p]
<1>1. PICK op \in Ops : op = user.ops[1] /\ op.path = p /\ op.type = "set"
  <2>1. user.ops \in Seq(Ops) /\ Len(user.ops) = 1 /\ user.ops[1].type = "set"
    BY UserSays DEF PipeInv, PipeTypes, CallsOK, CallOK
  <2>2. QED
    BY <2>1, OneSays
<1>2. PICK info \in Info : info = user.ctx.info
  BY DEF PipeInv, CallsOK, CallOK
<1>3. /\ user.ctx.path = p /\ op.field = "Data" /\ op.value = info["Data"]
  BY <1>1, <1>2 DEF PipeInv, CallsOK, CallOK, ShapesOK, ShapeOK, UserCalls
<1>4. tree \in Trees /\ tree[p] # Absent
  BY <1>1 DEF MemoryInv, MemoryTypes, Outcome
<1>5. PICK old \in Info : old = tree[p]
  BY <1>4 DEF Trees
<1>6. \A f \in Fields \ {"Data"} : old[f] = info[f]
  BY <1>2, <1>3, <1>4, <1>5 DEF Skipped, Skipping
<1>7. Change(op, tree)[op.path] = [old EXCEPT !["Data"] = info["Data"]]
  <2>1. tree = [q \in DOMAIN tree |-> tree[q]] /\ DOMAIN tree = Paths /\ op.path \in DOMAIN tree
    BY <1>1, <1>4, NamesDiffer DEF Trees
  <2>2. Change(op, tree)[op.path] = [tree[op.path] EXCEPT ![op.field] = op.value]
    BY <1>1, <2>1, ChangeSays
  <2>3. QED
    BY <1>1, <1>3, <1>5, <2>2
<1>8. [old EXCEPT !["Data"] = info["Data"]] = info
  BY <1>5, <1>2, <1>6 DEF Info
<1>9. QED
  BY <1>1, <1>2, <1>7, <1>8

\* The answer of a synchronous call is there for the user thread.
LEMMA RegistryServed ==
  ASSUME PipeInv, MemoryInv, SessionsOK, ShapesOK, \A q \in Nodes : RegistryInv(q),
         NEW p \in Nodes, Alone(p), ServedSync
  PROVE  RegistryInv(p)'
<1> DEFINE reg == m_ephemeral_node_info
<1>1. /\ requests # <<>> /\ requests' = <<>> /\ completions' = completions /\ link = "up"
      /\ link' = link /\ user.pc = "sent" /\ Len(requests) = 1 /\ requests[1].ops = user.ops
      /\ reg' = reg /\ zk' = zk
      /\ m_need_resume_env' = m_need_resume_env /\ doubt' = doubt /\ orphans' = orphans
  BY DEF ServedSync
<1>2. PICK ops \in Seq(Ops), call \in SyncCalls, ctx \in Ctxs :
        ops = user.ops /\ call = user.call /\ ctx = user.ctx
  BY <1>1, UserSays DEF PipeInv, PipeTypes
<1>3. tree \in Trees
  BY DEF MemoryInv, MemoryTypes
<1>4. PICK rc, results :
        rc \in RCs /\ rc = Execute(ops, tree).rc /\ results = Execute(ops, tree).results
  BY <1>3, ExecuteIs
<1>5. /\ user'.pc = "answered" /\ user'.call = call /\ user'.ops = ops /\ user'.ctx = ctx
      /\ user'.rc = rc /\ user'.results = results /\ user'.view = Existing(tree)
      /\ tree' = Execute(ops, tree).tree
  BY <1>2, <1>4 DEF ServedSync
<1>6. DOMAIN requests' = {} /\ 1 \in DOMAIN requests
  <2>1. DOMAIN requests = 1..1
    BY <1>1, PipeSays DEF PipeInv
  <2>2. QED
    BY <1>1, <2>1
<1>7. RequestOn(1, p) <=> p \in PathsOf(ops)
  BY <1>1, <1>2 DEF RequestOn
<1>8. /\ p \notin PathsOf(ops) => tree'[p] = tree[p]
      /\ rc # "ZOK" => tree' = tree
      /\ ~Creates(ops, p) /\ tree[p] = Absent => tree'[p] = Absent
  BY <1>3, <1>4, <1>5, ExecuteSays, ExecuteIs, NamesDiffer
<1>9. p \in PathsOf(ops) \/ call \in {"DeletePathRecursion", "DeletePathMulti"}
        => \A k \in DOMAIN completions : ~AnswerOn(k, p)
  BY <1>1, <1>2 DEF Alone, UserOn, UserCalls
<1>10. ~Wiped /\ ~UserTells(p) /\ RegistryInv(p) /\ ~Resuming
  BY <1>1 DEF Wiped, UserTells, SessionsOK
<1>11. \A k \in DOMAIN completions' : AnswerOn(k, p)' <=> AnswerOn(k, p)
  BY <1>1 DEF AnswerOn, IsAnswer
<1>12. ShapeOK(call, ops, ctx) /\ CallOK(call, ops, ctx)
  BY <1>1, <1>2 DEF ShapesOK, UserCalls, PipeInv, CallsOK
<1>13. Fitting(p)'
  BY <1>1, <1>6, <1>10, <1>11 DEF RegistryInv, Fitting
<1>14. Agreed(p)'
  <2> SUFFICES ASSUME Current(p)' PROVE Agreed(p)'
    BY DEF Agreed
  <2>1. Current(p) /\ ~m_need_resume_env
    BY <1>1 DEF Current
  <2>2. (\A k \in DOMAIN completions : ~AnswerOn(k, p)) => Valid(p, reg[p])
    BY <1>10, <2>1 DEF RegistryInv, Agreed, Untold
  <2>3. ASSUME Untold(p)' PROVE Valid(p, reg[p])'
    <3>1. tree'[p] = tree[p]
      BY <1>2, <1>5, <1>8, <2>3 DEF Untold, UserTells, Wiped
    <3>2. \A k \in DOMAIN completions : ~AnswerOn(k, p)
      BY <1>1, <1>11, <2>3 DEF Untold
    <3>3. QED
      BY <1>1, <2>2, <3>1, <3>2 DEF Valid
  <2>4. ASSUME NEW k \in DOMAIN completions', AnswerOn(k, p)'
        PROVE  /\ ResultIsCode(completions'[k])
               /\ \/ Answered(completions'[k], reg'[p]) = tree'[p]
                  \/ p \in orphans' /\ Answered(completions'[k], reg'[p]) = Absent
    <3>1. AnswerOn(k, p) /\ tree'[p] = tree[p]
      BY <1>1, <1>8, <1>9, <1>11, <2>4
    <3>2. ResultIsCode(completions[k]) /\ Valid(p, Answered(completions[k], reg[p]))
      BY <1>1, <1>10, <2>1, <3>1 DEF RegistryInv, Agreed
    <3>3. QED
      BY <1>1, <3>1, <3>2 DEF Valid
  <2>5. ASSUME UserTells(p)'
        PROVE  /\ ResultIsCode(user')
               /\ \/ Returned(user', reg'[p]) = tree'[p]
                  \/ p \in orphans' /\ Returned(user', reg'[p]) = Absent
    <3>1. call # "DeletePathMulti" /\ p \in PathsOf(ops)
      BY <1>5, <2>5 DEF UserTells
    <3>2. Len(ops) = 1
      BY <1>12, <3>1 DEF ShapeOK
    <3>3. PICK op \in Ops : op = ops[1] /\ op.path = p
      BY <3>1, <3>2, OneSays
    <3>4. /\ rc = Outcome(op, tree) /\ results[1] = rc
          /\ tree' = IF rc = "ZOK" THEN Change(op, tree) ELSE tree
      BY <1>4, <1>5, <3>2, <3>3, ExecuteOne
    <3>5. ResultIsCode(user')
      BY <1>5, <3>4 DEF ResultIsCode
    <3>6. PICK v : v = reg[p] /\ (v = tree[p] \/ (p \in orphans /\ v = Absent))
      BY <1>9, <2>2, <3>1 DEF Valid
    <3>7. Returned(user', v) = IF rc = "ZOK" /\ call = "CreateExistSkipSet" THEN ctx.info
                               ELSE IF rc = "ZOK" THEN Enter(op, v) ELSE v
      BY <1>5, <3>3 DEF Returned, Answered
    <3>8. CASE rc = "ZOK" /\ call = "CreateExistSkipSet"
      <4>1. ctx.info = Change(op, tree)[p]
        BY <1>1, <1>2, <1>10, <3>1, <3>3, <3>4, <3>8, SkipWrites DEF RegistryInv
      <4>2. QED
        BY <1>1, <3>4, <3>5, <3>6, <3>7, <3>8, <4>1
    <3>9. CASE rc = "ZOK" /\ call # "CreateExistSkipSet"
      <4>1. Enter(op, v) = Change(op, tree)[op.path] \/ (p \in orphans /\ Enter(op, v) = Absent)
        BY <1>3, <3>3, <3>4, <3>6, <3>9, EnterFollows
      <4>2. QED
        BY <1>1, <3>3, <3>4, <3>5, <3>6, <3>7, <3>9, <4>1
    <3>10. CASE rc # "ZOK"
      BY <1>1, <3>4, <3>5, <3>6, <3>7, <3>10
    <3>11. QED
      BY <3>8, <3>9, <3>10
  <2>6. user'.pc = "answered" /\ user'.call = "DeletePathMulti" /\ user'.rc # "ZOK"
          => p \notin PathsOf(user'.ops)
    BY <1>1, <1>2, <1>4, <1>5, <2>1, BatchRefused
  <2>7. QED
    BY <2>3, <2>4, <2>5, <2>6 DEF Agreed, Valid
<1>15. Emptied(p)'
  <2> SUFFICES ASSUME Wiped' PROVE Emptied(p)'
    BY DEF Emptied
  <2>1. \/ call = "DeletePathMulti" /\ rc = "ZOK"
        \/ call = "DeletePathRecursion" /\ rc = "ZNONODE"
    BY <1>5 DEF Wiped
  <2>2. tree'[p] = Absent
    <3>1. CASE call = "DeletePathMulti" /\ rc = "ZOK"
      <4>1. ops # <<>> /\ ops[Len(ops)].path = Parent
        BY <1>12, <3>1 DEF ShapeOK
      <4>2. Len(ops) \in DOMAIN ops
        BY <4>1, LenProperties, EmptySeq
      <4>3. ops[Len(ops)].type = "delete"
        BY <1>12, <3>1, <4>2 DEF CallOK
      <4>4. QED
        BY <1>3, <1>4, <1>5, <3>1, <4>1, <4>3, BatchEmpties
    <3>2. CASE call = "DeletePathRecursion" /\ rc = "ZNONODE"
      <4>1. Len(ops) = 1 /\ ops[1].type = "check" /\ ops[1].path = Parent
        BY <1>12, <3>2 DEF ShapeOK
      <4>2. PICK op : op = ops[1]
        OBVIOUS
      <4>3. Outcome(op, tree) = "ZNONODE"
        BY <1>4, <3>2, <4>1, <4>2, ExecuteOne
      <4>4. tree[Parent] = Absent
        BY <4>1, <4>2, <4>3 DEF Outcome
      <4>5. QED
        BY <1>3, <1>8, <3>2, <4>4 DEF Trees
    <3>3. QED
      BY <2>1, <3>1, <3>2
  <2>3. \A k \in DOMAIN completions' : ~AnswerOn(k, p)'
    BY <1>1, <1>9, <1>11, <2>1
  <2>4. QED
    BY <1>6, <2>2, <2>3 DEF Emptied
<1>16. Listed(p)'
  <2>1. call = "DeletePathRecursion" => tree'[p] = tree[p]
    <3>1. call = "DeletePathRecursion" => PathsOf(ops) = {Parent}
      BY <1>12, OneSays DEF ShapeOK
    <3>2. QED
      BY <1>8, <3>1, NamesDiffer
  <2>2. QED
    BY <1>5, <2>1 DEF Listed, Existing
<1>17. Skipped(p)'
  <2> SUFFICES ASSUME Skipping(p)', tree'[p] # Absent
               PROVE  \A f \in Fields \ {"Data"} : tree'[p][f] = ctx.info[f]
    BY <1>5 DEF Skipped
  <2>1. call = "CreateExistSkip" /\ rc = "ZOK" /\ ctx.path = p
    BY <1>5 DEF Skipping
  <2>2. Skipping(p)
    BY <1>1, <1>2, <2>1 DEF Skipping
  <2>3. Len(ops) = 1 /\ ops[1].type = "check"
    BY <1>12, <2>1 DEF ShapeOK
  <2>4. PICK op \in Ops : op = ops[1] /\ op.type = "check"
    BY <2>3, OneSays
  <2>5. tree' = tree
    <3>1. tree' = IF Outcome(op, tree) = "ZOK" THEN Change(op, tree) ELSE tree
      BY <1>5, <2>3, <2>4, ExecuteOne
    <3>2. Change(op, tree) = tree
      BY <2>4 DEF Change
    <3>3. QED
      BY <3>1, <3>2
  <2>6. QED
    BY <1>2, <1>10, <2>2, <2>5 DEF RegistryInv, Skipped
<1>18. Lapsed(p)'
  <2>1. m_need_resume_env => ~Creates(ops, p)
    BY <1>1, <1>2, <1>6, <1>10 DEF RegistryInv, Lapsed
  <2>2. QED
    BY <1>1, <1>6, <1>8, <1>10, <2>1 DEF RegistryInv, Lapsed
<1>19. Recreating(p)' /\ Outside(p)'
  BY <1>1, <1>10 DEF RegistryInv, Recreating, Resuming, AtNode, Outside
<1>20. QED
  BY <1>13, <1>14, <1>15, <1>16, <1>17, <1>18, <1>19 DEF RegistryInv

LEMMA ShapesServed ==
  ASSUME PipeInv, SessionsOK, ShapesOK, OrphansWait, ServedSync \/ \E a : ServedAsync(a)
  PROVE  ShapesOK' /\ OrphansWait'
<1>1. CASE ServedSync
  <2>1. /\ requests' = <<>> /\ completions' = completions /\ user.pc = "sent"
        /\ m_need_resume_env' = m_need_resume_env /\ orphans' = orphans
        /\ user'.call = user.call /\ user'.ops = user.ops /\ user'.ctx = user.ctx
    BY <1>1 DEF ServedSync
  <2>2. DOMAIN requests' = {}
    BY <2>1
  <2>3. QED
    BY <2>1, <2>2 DEF ShapesOK, OrphansWait, IsAnswer, UserCalls
<1>2. CASE \E a : ServedAsync(a)
  <2>1. PICK a : ServedAsync(a)
    BY <1>2
  <2>2. /\ requests # <<>> /\ requests' = Tail(requests) /\ user' = user
        /\ completions' = Append(completions, a) /\ a \in AnswerType
        /\ requests[1].call \in AsyncCalls /\ a.call = requests[1].call
        /\ a.ops = requests[1].ops /\ a.ctx = requests[1].ctx
        /\ m_need_resume_env' = m_need_resume_env
    BY <2>1 DEF ServedAsync
  <2>3. /\ 1 \in DOMAIN requests
        /\ \A k \in DOMAIN requests' :
             k + 1 \in DOMAIN requests /\ requests'[k] = requests[k + 1]
    BY <2>2, TailSays DEF PipeInv, PipeTypes
  <2>4. \A k \in DOMAIN completions' :
          \/ k \in DOMAIN completions /\ completions'[k] = completions[k]
          \/ completions'[k] = a
    BY <2>2, AppendSays DEF PipeInv, PipeTypes
  <2>5. ~m_need_resume_env
    BY <2>2, <2>3 DEF SessionsOK
  <2>6. \A k \in DOMAIN completions' : IsAnswer(k)' =>
          ShapeOK(completions'[k].call, completions'[k].ops, completions'[k].ctx)
    BY <2>2, <2>3, <2>4 DEF ShapesOK, IsAnswer
  <2>7. QED
    BY <2>2, <2>3, <2>5, <2>6 DEF ShapesOK, OrphansWait, UserCalls
<1>3. QED
  BY <1>1, <1>2

-----------------------------------------------------------------------------
(* Faults, and what other clients do.                                      *)

\* The answers that were there before a failure are still there.
LEMMA FailKeeps ==
  ASSUME PipeInv, NEW rc \in RCs, NEW event \in {Connected, Expired}, FailAll(rc, event),
         NEW k \in DOMAIN completions
  PROVE  k \in DOMAIN completions' /\ completions'[k] = completions[k]
<1>1. k \in 1..Len(completions) /\ Len(completions) \in Nat
  BY PipeSays DEF PipeInv
<1>2. PICK n : n = Len(completions')
  OBVIOUS
<1>3. n = Len(completions) + Len(Answers(rc)) + 1 /\ Len(Answers(rc)) \in Nat
  <2> DEFINE T == AnswerType \union {Connected, Expired}
             a == Answers(rc)
  <2>1. completions \in Seq(T) /\ a \in Seq(T) /\ Len(a) \in Nat /\ event \in T
    BY AnswersSay DEF PipeInv, PipeTypes
  <2>2. completions' = Append(completions \o a, event)
    BY DEF FailAll
  <2> HIDE DEF T, a
  <2>3. completions \o a \in Seq(T) /\ Len(completions \o a) = Len(completions) + Len(a)
    BY <2>1, ConcatProperties
  <2>4. Len(completions') = Len(completions) + Len(a) + 1
    BY <2>1, <2>2, <2>3, AppendSays
  <2>5. QED
    BY <1>2, <2>1, <2>4 DEF a
<1>4. k \in DOMAIN completions' /\ k # n
  <2>1. DOMAIN completions' = 1..n
    BY <1>2, FailSays
  <2>2. QED
    BY <1>1, <1>3, <2>1
<1>5. QED
  BY <1>2, <1>4, FailSays

LEMMA RegistryFailed ==
  ASSUME PipeInv, NEW p \in Nodes, Alone(p), RegistryInv(p),
         NEW rc \in RCs, rc \notin {"ZOK", "ZNONODE"}, NEW event \in {Connected, Expired},
         FailAll(rc, event), UNCHANGED <<m_ephemeral_node_info, m_need_resume_env, zk, orphans>>,
         \/ /\ link = "up" /\ link' = "up"
            /\ p \notin doubt' => p \notin doubt /\ \A k \in DOMAIN requests : ~RequestOn(k, p)
            /\ (\A k \in DOMAIN requests : ~RequestOn(k, p)) => tree'[p] = tree[p]
         \/ link' = "expired" /\ tree'[p] = Absent
  PROVE  RegistryInv(p)'
<1> DEFINE reg == m_ephemeral_node_info
           free == \A k \in DOMAIN requests : ~RequestOn(k, p)
<1>1. /\ reg' = reg /\ m_need_resume_env' = m_need_resume_env /\ zk' = zk /\ orphans' = orphans
      /\ requests' = <<>> /\ DOMAIN requests' = {}
  BY FailSays
<1>2. \/ user' = user /\ user.pc # "sent"
      \/ /\ user.pc = "sent" /\ user'.pc = "answered" /\ user'.call = user.call
         /\ user'.ops = user.ops /\ user'.ctx = user.ctx /\ user'.rc = rc
  BY DEF FailAll, Answer
<1>3. PICK n : n = Len(completions)
  OBVIOUS
<1>4. \A k \in DOMAIN completions : k \in DOMAIN completions' /\ completions'[k] = completions[k]
  BY FailKeeps
<1>5. \A k \in DOMAIN completions' : IsAnswer(k)' =>
        \/ k \in DOMAIN completions /\ completions'[k] = completions[k]
        \/ /\ k - n \in DOMAIN requests /\ requests[k - n].call \in AsyncCalls
           /\ completions'[k].call = requests[k - n].call
           /\ completions'[k].ops = requests[k - n].ops
           /\ completions'[k].ctx = requests[k - n].ctx
  <2>1. completions'[Len(completions')] = event
    BY FailSays
  <2>2. \A k \in DOMAIN completions' : IsAnswer(k)' => k # Len(completions')
    BY <2>1, CallsDiffer DEF IsAnswer
  <2>3. QED
    BY <1>3, <2>2, FailSays
<1>6. \A k \in DOMAIN completions' : AnswerOn(k, p)' =>
        \/ k \in DOMAIN completions /\ completions'[k] = completions[k] /\ AnswerOn(k, p)
        \/ /\ k - n \in DOMAIN requests /\ RequestOn(k - n, p)
           /\ requests[k - n].call \in AsyncCalls
           /\ completions'[k].call = requests[k - n].call
           /\ completions'[k].ops = requests[k - n].ops
           /\ completions'[k].ctx = requests[k - n].ctx
  BY <1>5 DEF AnswerOn, IsAnswer, RequestOn
<1>7. \A k \in DOMAIN completions : AnswerOn(k, p) => AnswerOn(k, p)'
  BY <1>4 DEF AnswerOn, IsAnswer
<1>8. free => (user.pc = "sent" => p \notin PathsOf(user.ops))
  <2> SUFFICES ASSUME free, user.pc = "sent" PROVE p \notin PathsOf(user.ops)
    OBVIOUS
  <2>1. Len(requests) \in DOMAIN requests /\ requests[Len(requests)].ops = user.ops
    BY TailSays, PipeSays DEF PipeInv, PipeTypes, SyncLast
  <2>2. QED
    BY <2>1 DEF RequestOn
<1>9. UserOn(p) /\ user.pc # "sent" => free
  BY DEF Alone
<1>10. link' = "up" => /\ link = "up" /\ (p \notin doubt' => p \notin doubt /\ free)
                       /\ free => tree'[p] = tree[p]
  OBVIOUS
<1>11. free => tree'[p] = tree[p] \/ tree'[p] = Absent
  OBVIOUS
<1>12. link' = "expired" => tree'[p] = Absent
  OBVIOUS
<1> HIDE DEF free
<1>13. Fitting(p)'
  <2>1. \A k \in DOMAIN completions' : AnswerOn(k, p)' => Fits(completions'[k], p, reg[p])
    <3> SUFFICES ASSUME NEW k \in DOMAIN completions', AnswerOn(k, p)'
                 PROVE  Fits(completions'[k], p, reg[p])
      OBVIOUS
    <3>1. CASE k \in DOMAIN completions /\ completions'[k] = completions[k] /\ AnswerOn(k, p)
      BY <3>1 DEF RegistryInv, Fitting
    <3>2. CASE /\ k - n \in DOMAIN requests /\ RequestOn(k - n, p)
               /\ requests[k - n].call \in AsyncCalls
               /\ completions'[k].call = requests[k - n].call
               /\ completions'[k].ops = requests[k - n].ops
               /\ completions'[k].ctx = requests[k - n].ctx
      <4>1. Fits(requests[k - n], p, reg[p])
        BY <3>2 DEF RegistryInv, Fitting
      <4>2. QED
        BY <3>2, <4>1 DEF Fits
    <3>3. QED
      BY <1>6, <3>1, <3>2
  <2>2. QED
    BY <1>1, <2>1 DEF Fitting
<1>14. Agreed(p)'
  <2> SUFFICES ASSUME Current(p)' PROVE Agreed(p)'
    BY DEF Agreed
  <2>1. Current(p) /\ free /\ tree'[p] = tree[p]
    BY <1>1, <1>10 DEF Current
  <2>2. ASSUME Untold(p)' PROVE Valid(p, reg[p])'
    <3>1. \A k \in DOMAIN completions : ~AnswerOn(k, p)
      BY <1>4, <1>7, <2>2 DEF Untold
    <3>2. ~UserTells(p) /\ ~Wiped
      BY <1>2, <2>2 DEF Untold, UserTells, Wiped
    <3>3. QED
      BY <1>1, <2>1, <3>1, <3>2 DEF RegistryInv, Agreed, Untold, Valid
  <2>3. ASSUME NEW k \in DOMAIN completions', AnswerOn(k, p)'
        PROVE  /\ ResultIsCode(completions'[k])
               /\ \/ Answered(completions'[k], reg'[p]) = tree'[p]
                  \/ p \in orphans' /\ Answered(completions'[k], reg'[p]) = Absent
    <3>1. k \in DOMAIN completions /\ completions'[k] = completions[k] /\ AnswerOn(k, p)
      BY <1>6, <2>1, <2>3 DEF free
    <3>2. QED
      BY <1>1, <2>1, <3>1 DEF RegistryInv, Agreed, Valid
  <2>4. ASSUME UserTells(p)'
        PROVE  /\ ResultIsCode(user')
               /\ \/ Returned(user', reg'[p]) = tree'[p]
                  \/ p \in orphans' /\ Returned(user', reg'[p]) = Absent
    <3>1. user' = user /\ UserTells(p)
      BY <1>2, <1>8, <2>1, <2>4 DEF UserTells
    <3>2. QED
      BY <1>1, <2>1, <3>1 DEF RegistryInv, Agreed, Valid
  <2>5. user'.pc = "answered" /\ user'.call = "DeletePathMulti" /\ user'.rc # "ZOK"
          => p \notin PathsOf(user'.ops)
    BY <1>2, <1>8, <2>1 DEF RegistryInv, Agreed
  <2>6. QED
    BY <2>2, <2>3, <2>4, <2>5 DEF Agreed, Valid
<1>15. Emptied(p)'
  <2> SUFFICES ASSUME Wiped' PROVE Emptied(p)'
    BY DEF Emptied
  <2>1. Wiped
    BY <1>2 DEF Wiped
  <2>2. tree[p] = Absent /\ free /\ \A k \in DOMAIN completions : ~AnswerOn(k, p)
    BY <2>1 DEF RegistryInv, Emptied, free
  <2>3. \A k \in DOMAIN completions' : ~AnswerOn(k, p)'
    BY <1>6, <2>2 DEF free
  <2>4. QED
    BY <1>1, <1>11, <2>2, <2>3 DEF Emptied
<1>16. Listed(p)'
  <2> SUFFICES ASSUME link' = "up", ~m_need_resume_env, user'.pc = "answered",
                      user'.call = "DeletePathRecursion", user'.rc = "ZOK"
               PROVE  p \in user'.view <=> tree'[p] # Absent
    BY <1>1, <1>2 DEF Listed
  <2>1. user' = user
    BY <1>2
  <2>2. free
    BY <1>9, <2>1 DEF UserOn, UserCalls
  <2>3. QED
    BY <1>10, <2>1, <2>2 DEF RegistryInv, Listed
<1>17. Skipped(p)'
  <2> SUFFICES ASSUME Skipping(p)', tree'[p] # Absent
               PROVE  \A f \in Fields \ {"Data"} : tree'[p][f] = user'.ctx.info[f]
    BY DEF Skipped
  <2>1. user' = user /\ Skipping(p) /\ user.pc = "answered"
    BY <1>2 DEF Skipping
  <2>2. p \in PathsOf(user.ops)
    <3>1. CallOK(user.call, user.ops, user.ctx)
      BY <2>1 DEF PipeInv, CallsOK
    <3>2. user.ctx.path = p /\ p # Absent
      BY <2>1, NamesDiffer DEF Skipping
    <3>3. QED
      BY <3>1, <3>2 DEF CallOK
  <2>3. free
    BY <1>9, <2>1, <2>2 DEF UserOn, UserCalls
  <2>4. tree'[p] = tree[p]
    BY <1>11, <2>3
  <2>5. QED
    BY <2>1, <2>4 DEF RegistryInv, Skipped
<1>18. Lapsed(p)' /\ Recreating(p)' /\ Outside(p)'
  BY <1>1, <1>10, <1>12
     DEF RegistryInv, Lapsed, Recreating, Recreated, Resuming, AtNode, Outside, Valid
<1>19. QED
  BY <1>13, <1>14, <1>15, <1>16, <1>17, <1>18 DEF RegistryInv

LEMMA ShapesFailed ==
  ASSUME PipeInv, ShapesOK, OrphansWait, NEW rc \in RCs, NEW event \in {Connected, Expired},
         FailAll(rc, event), UNCHANGED <<m_need_resume_env, orphans>>
  PROVE  ShapesOK' /\ OrphansWait'
<1>1. requests' = <<>> /\ DOMAIN requests' = {}
  BY FailSays
<1>2. \A k \in DOMAIN completions' : IsAnswer(k)' =>
        ShapeOK(completions'[k].call, completions'[k].ops, completions'[k].ctx)
  <2> SUFFICES ASSUME NEW k \in DOMAIN completions', IsAnswer(k)'
               PROVE  ShapeOK(completions'[k].call, completions'[k].ops, completions'[k].ctx)
    OBVIOUS
  <2>1. completions'[Len(completions')] = event
    BY FailSays
  <2>2. k # Len(completions')
    BY <2>1, CallsDiffer DEF IsAnswer
  <2>3. \/ k \in DOMAIN completions /\ completions'[k] = completions[k]
        \/ \E j \in DOMAIN requests :
             /\ completions'[k].call = requests[j].call
             /\ completions'[k].ops = requests[j].ops /\ completions'[k].ctx = requests[j].ctx
    BY <2>2, FailSays
  <2>4. QED
    BY <2>3 DEF ShapesOK, IsAnswer
<1>3. \/ user' = user
      \/ /\ user.pc = "sent" /\ user'.call = user.call
         /\ user'.ops = user.ops /\ user'.ctx = user.ctx
  BY DEF FailAll, Answer
<1>4. QED
  BY <1>1, <1>2, <1>3 DEF ShapesOK, OrphansWait, UserCalls

\* Nothing of the node has changed.
LEMMA RegistryStays ==
  ASSUME NEW p \in Nodes, RegistryInv(p), tree'[p] = tree[p],
         UNCHANGED <<link, requests, completions, m_ephemeral_node_info, m_need_resume_env,
                     user, zk, doubt, orphans>>
  PROVE  RegistryInv(p)'
<1>1. /\ link' = link /\ requests' = requests /\ completions' = completions
      /\ m_ephemeral_node_info' = m_ephemeral_node_info
      /\ m_need_resume_env' = m_need_resume_env
      /\ user' = user /\ zk' = zk /\ doubt' = doubt /\ orphans' = orphans
  OBVIOUS
<1>2. /\ \A k \in DOMAIN completions' : AnswerOn(k, p)' <=> AnswerOn(k, p)
      /\ \A k \in DOMAIN requests' : RequestOn(k, p)' <=> RequestOn(k, p)
      /\ UserTells(p)' <=> UserTells(p)
      /\ Wiped' <=> Wiped
  BY <1>1 DEF AnswerOn, IsAnswer, RequestOn, UserTells, Wiped
<1>3. Fitting(p)' /\ Emptied(p)' /\ Listed(p)' /\ Skipped(p)'
  BY <1>1, <1>2 DEF RegistryInv, Fitting, Emptied, Listed, Skipped, Skipping
<1>4. Agreed(p)'
  <2> SUFFICES ASSUME Current(p)' PROVE Agreed(p)'
    BY DEF Agreed
  <2>1. Current(p) /\ (Untold(p)' <=> Untold(p))
    BY <1>1, <1>2 DEF Current, Untold
  <2>2. Agreed(p)
    BY DEF RegistryInv
  <2>3. QED
    BY <1>1, <1>2, <2>1, <2>2 DEF Agreed, Valid
<1>5. Lapsed(p)' /\ Recreating(p)' /\ Outside(p)'
  BY <1>1 DEF RegistryInv, Lapsed, Recreating, Recreated, Resuming, AtNode, Outside, Valid
<1>6. QED
  BY <1>3, <1>4, <1>5 DEF RegistryInv

\* What the process knew is gone; what it had created is nobody's.
LEMMA RegistryRestarted ==
  ASSUME PipeInv, MemoryInv, NEW p \in Nodes, RegistryInv(p), Restart
  PROVE  RegistryInv(p)' /\ ShapesOK' /\ OrphansWait'
<1>1. /\ requests' = <<>> /\ user' = Idle /\ zk' = Idle /\ doubt' = {} /\ link' = link
      /\ m_ephemeral_node_info'[p] = Absent /\ m_need_resume_env' = TRUE
      /\ orphans' = Existing(tree') /\ DOMAIN requests' = {}
  BY DEF Restart
<1>2. PICK event \in {Connected, Expired} : completions' = <<event>>
  BY DEF Restart
<1>3. \A k \in DOMAIN completions' : ~IsAnswer(k)' /\ ~AnswerOn(k, p)'
  <2>1. DOMAIN completions' = {1} /\ completions'[1] = event
    BY <1>2
  <2>2. QED
    BY <2>1, CallsDiffer DEF AnswerOn, IsAnswer
<1>4. user'.pc = "idle" /\ ~Resuming' /\ ~AtNode' /\ ~Wiped'
  BY <1>1 DEF Idle, Resuming, AtNode, Wiped
<1>5. ServedSome
  BY DisconnectSays DEF PipeInv, MemoryInv, MemoryTypes
<1>6. Lapsed(p)'
  <2>1. link = "expired" => tree'[p] = Absent
    BY <1>5 DEF RegistryInv, Lapsed, ServedSome
  <2>2. QED
    BY <1>1, <2>1 DEF Lapsed, Existing
<1>7. Fitting(p)' /\ Agreed(p)' /\ Emptied(p)' /\ Listed(p)' /\ Skipped(p)'
  BY <1>1, <1>3, <1>4 DEF Fitting, Agreed, Current, Emptied, Listed, Skipped, Skipping
<1>8. Recreating(p)' /\ Outside(p)' /\ ShapesOK' /\ OrphansWait'
  BY <1>1, <1>3, <1>4 DEF Recreating, Outside, ShapesOK, OrphansWait, UserCalls
<1>9. QED
  BY <1>6, <1>7, <1>8 DEF RegistryInv

LEMMA RegistryDisturbed ==
  ASSUME PipeInv, MemoryInv, ShapesOK, OrphansWait, NEW p \in Nodes, Alone(p), RegistryInv(p),
         Environment
  PROVE  RegistryInv(p)' /\ ShapesOK' /\ OrphansWait'
<1>t. PipeTypes /\ tree \in Trees
  BY DEF PipeInv, MemoryInv, MemoryTypes
<1>r. /\ "ZCONNECTIONLOSS" \in RCs /\ "ZSESSIONEXPIRED" \in RCs
      /\ "ZCONNECTIONLOSS" \notin {"ZOK", "ZNONODE"}
      /\ "ZSESSIONEXPIRED" \notin {"ZOK", "ZNONODE"}
  BY DEF RCs
<1>1. CASE Disconnect
  <2>1. /\ FailAll("ZCONNECTIONLOSS", Connected) /\ link = "up" /\ link' = "up"
        /\ UNCHANGED <<m_ephemeral_node_info, m_need_resume_env, zk, orphans>>
    BY <1>1 DEF Disconnect, registry
  <2>2. p \notin doubt' => p \notin doubt /\ \A k \in DOMAIN requests : ~RequestOn(k, p)
    BY <1>1 DEF Disconnect, RequestOn
  <2>3. (\A k \in DOMAIN requests : ~RequestOn(k, p)) => tree'[p] = tree[p]
    BY <1>1, <1>t, DisconnectSays DEF ServedSome, RequestOn
  <2>4. QED
    BY <1>r, <2>1, <2>2, <2>3, RegistryFailed, ShapesFailed
<1>2. CASE Expire
  <2>1. /\ FailAll("ZSESSIONEXPIRED", Expired) /\ link' = "expired"
        /\ UNCHANGED <<m_ephemeral_node_info, m_need_resume_env, zk, orphans>>
    BY <1>2 DEF Expire, registry, history
  <2>2. tree'[p] = Absent
    BY <1>2, <1>t, ExpireSays
  <2>3. QED
    BY <1>r, <2>1, <2>2, RegistryFailed, ShapesFailed
<1>3. CASE ChangeParent
  <2>1. UNCHANGED <<link, requests, completions, m_ephemeral_node_info, m_need_resume_env,
                    user, zk, doubt, orphans>>
    BY <1>3 DEF ChangeParent, pipe, registry, history
  <2>2. tree'[p] = tree[p]
    BY <1>3, <1>t, ChangeParentSays
  <2>3. ShapesOK' /\ OrphansWait'
    BY <2>1 DEF ShapesOK, OrphansWait, IsAnswer, UserCalls
  <2>4. QED
    BY <2>1, <2>2, <2>3, RegistryStays
<1>4. CASE Restart
  BY <1>4, RegistryRestarted
<1>5. QED
  BY <1>1, <1>2, <1>3, <1>4 DEF Environment

-----------------------------------------------------------------------------
(* The registry and the server.                                            *)

LEMMA ServersInit ==
  Init => ServersInv
<1> SUFFICES ASSUME Init PROVE ServersInv
  OBVIOUS
<1>1. EphemeralInv
  BY EphemeralInit
<1>2. /\ requests = <<>> /\ completions = <<>> /\ link = "up" /\ orphans = {}
      /\ m_need_resume_env = FALSE /\ user.pc = "idle" /\ zk.pc = "idle"
      /\ \A p \in Nodes : m_ephemeral_node_info[p] = Absent /\ tree[p] = Absent
  BY NamesDiffer DEF Init, Idle
<1>3. DOMAIN requests = {} /\ DOMAIN completions = {}
  BY <1>2
<1>4. ShapesOK /\ OrphansWait
  BY <1>2, <1>3 DEF ShapesOK, OrphansWait, UserCalls
<1>5. ASSUME NEW p \in Nodes PROVE RegistryInv(p)
  <2>1. Fitting(p) /\ Emptied(p) /\ Listed(p) /\ Skipped(p)
    BY <1>2, <1>3 DEF Fitting, Emptied, Wiped, Listed, Skipped, Skipping
  <2>2. Agreed(p)
    BY <1>2, <1>3 DEF Agreed, Valid, UserTells
  <2>3. Lapsed(p) /\ Recreating(p) /\ Outside(p)
    BY <1>2, <1>3 DEF Lapsed, Recreating, Resuming, AtNode, Outside
  <2>4. QED
    BY <2>1, <2>2, <2>3 DEF RegistryInv
<1>6. QED
  BY <1>1, <1>4, <1>5 DEF ServersInv

LEMMA ServersNext ==
  ASSUME OneAtATime, ResumeWaits, OneOperation, NoZeroSkips, Nodes # {}, ServersInv, [Next]_vars
  PROVE  ServersInv'
<1>1. /\ EphemeralInv /\ PipeInv /\ MemoryInv /\ SessionsOK /\ ShapesOK /\ OrphansWait
      /\ \A p \in Nodes : RegistryInv(p) /\ Alone(p)
      /\ tree \in Trees /\ m_ephemeral_node_info \in Registries /\ MemoryTypes
  BY DEF ServersInv, EphemeralInv, NodeInv, MemoryInv, MemoryTypes
<1>2. EphemeralInv'
  BY <1>1, EphemeralNext
<1>3. CASE UserCall
  <2>1. RefusedWith \/ \E r : CalledWith(r)
    BY <1>1, <1>3, CallFits
  <2>2. ShapesOK' /\ OrphansWait'
    BY <1>1, <2>1, ShapesCalled, ShapesRefused
  <2>3. \A p \in Nodes : RegistryInv(p)'
    BY <1>1, <2>1, RegistryCalled, RegistryRefused
  <2>4. QED
    BY <1>2, <2>2, <2>3 DEF ServersInv
<1>4. CASE UserReturn
  <2>1. EndedWith \/ RefusedWith \/ \E r : ContinuedWith(r)
    BY <1>1, <1>4, ReturnSays
  <2>2. ShapesOK' /\ OrphansWait'
    BY <1>1, <2>1, ShapesEnded, ShapesContinued, ShapesRefused
  <2>3. \A p \in Nodes : RegistryInv(p)'
    BY <1>1, <2>1, RegistryEnded, RegistryContinued, RegistryRefused
  <2>4. QED
    BY <1>2, <2>2, <2>3 DEF ServersInv
<1>5. CASE ZkThread
  <2>1. RecordedWith \/ ResumedWith \/ Reconnect \/ ConnectedEvent
    BY <1>1, <1>5, RecordsSay, ResumesSay DEF ZkThread
  <2>2. CASE RecordedWith \/ ResumedWith
    <3>1. ShapesOK' /\ OrphansWait'
      BY <1>1, <2>2, ShapesRecorded, ShapesResumed
    <3>2. \A p \in Nodes : RegistryInv(p)'
      BY <1>1, <2>2, RegistryRecorded, RegistryResumed
    <3>3. QED
      BY <1>2, <3>1, <3>2 DEF ServersInv
  <2>3. CASE Reconnect \/ ConnectedEvent
    <3>1. \A p \in Nodes : RegistryInv(p)' /\ ShapesOK' /\ OrphansWait'
      BY <1>1, <2>3, RegistryReconnected, RegistryConnected
    <3>2. QED
      BY <1>2, <3>1 DEF ServersInv
  <2>4. QED
    BY <2>1, <2>2, <2>3
<1>6. CASE Serve
  <2>1. ServedSync \/ \E a : ServedAsync(a)
    BY <1>1, <1>6, ServesSay
  <2>2. ShapesOK' /\ OrphansWait'
    BY <1>1, <2>1, ShapesServed
  <2>3. \A p \in Nodes : RegistryInv(p)'
    BY <1>1, <2>1, RegistryServed, RegistryAnswered
  <2>4. QED
    BY <1>2, <2>2, <2>3 DEF ServersInv
<1>7. CASE Environment
  <2>1. \A p \in Nodes : RegistryInv(p)' /\ ShapesOK' /\ OrphansWait'
    BY <1>1, <1>7, RegistryDisturbed
  <2>2. QED
    BY <1>2, <2>1 DEF ServersInv
<1>8. CASE UNCHANGED vars
  <2>1. /\ tree' = tree
        /\ UNCHANGED <<link, requests, completions, m_ephemeral_node_info, m_need_resume_env,
                       user, zk, doubt, orphans>>
    BY <1>8 DEF vars
  <2>2. ShapesOK' /\ OrphansWait'
    BY <1>1, <2>1 DEF ShapesOK, OrphansWait, IsAnswer, UserCalls
  <2>3. \A p \in Nodes : RegistryInv(p)'
    BY <1>1, <2>1, RegistryStays
  <2>4. QED
    BY <1>2, <2>2, <2>3 DEF ServersInv
<1>9. QED
  BY <1>3, <1>4, <1>5, <1>6, <1>7, <1>8 DEF Next

LEMMA ServersRest ==
  ServersInv => RegistryIsTheServers
<1> SUFFICES ASSUME ServersInv, AtRest, NEW p \in Nodes \ (doubt \union orphans)
             PROVE  m_ephemeral_node_info[p] = tree[p]
  BY DEF RegistryIsTheServers
<1>1. user.pc = "idle" /\ completions = <<>> /\ link = "up" /\ ~m_need_resume_env
  BY DEF AtRest
<1>2. DOMAIN completions = {}
  BY <1>1
<1>3. Current(p) /\ Untold(p)
  BY <1>1, <1>2 DEF Current, Untold, UserTells, Wiped
<1>4. Valid(p, m_ephemeral_node_info[p])
  BY <1>3 DEF ServersInv, RegistryInv, Agreed
<1>5. QED
  BY <1>4 DEF Valid

\* When nothing is under way, the registry holds exactly the ephemeral nodes that the
\* server has in this session, with their data and ACL, but for the nodes that an earlier
\* instance left, those with a call whose answer was lost and those ReconnectResumeEnv has
\* given up.  It is what the synchronous calls do when they return, the Inner...Completion
\* callbacks, ProcMultiEphemeralNode, DeletePathRecursion and ReconnectResumeEnv come to
\* together (CppZookeeper.cpp).  The user calls on a path when the earlier calls on it are
\* over and calls nothing between the end of a session and the end of ReconnectResumeEnv,
\* Multi and AMulti are given one operation at a time, and ephemeral_exist_skip a value
\* that is neither empty nor only NULs, which Create would not write to the node.
THEOREM RegistryHoldsTheServersNodes ==
  ASSUME OneAtATime, ResumeWaits, OneOperation, NoZeroSkips
  PROVE  Spec => []RegistryIsTheServers
<1>1. CASE Nodes = {}
  <2>1. RegistryIsTheServers
    BY <1>1 DEF RegistryIsTheServers
  <2>2. QED
    BY <2>1, PTL
<1>2. CASE Nodes # {}
  <2>1. Init => ServersInv
    BY ServersInit
  <2>2. ServersInv /\ [Next]_vars => ServersInv'
    BY <1>2, ServersNext
  <2>3. ServersInv => RegistryIsTheServers
    BY ServersRest
  <2>4. QED
    BY <2>1, <2>2, <2>3, PTL DEF Spec
<1>3. QED
  BY <1>1, <1>2
=============================================================================
