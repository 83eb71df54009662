------------------------- MODULE ZkEphemeralProofs -------------------------
(***************************************************************************)
(* The safety properties of ZkEphemeral, for any nodes, values, calls and  *)
(* faults.                                                                 *)
(***************************************************************************)
EXTENDS ZkEphemeral, TLAPS, SequenceTheorems, FiniteSetTheorems, WellFoundedInduction

Ops == NodeOps \union {CreateOp(Parent, Plain), DeleteOp(Parent), CheckOp(Parent)}

Trees == {t \in [Paths -> Info \union {Absent, Plain}] :
            /\ t[Parent] \in {Absent, Plain} /\ \A p \in Nodes : t[p] \in Info \union {Absent}
            /\ t[Parent] = Absent => \A p \in Nodes : t[p] = Absent}
Registries == [Nodes -> Info \union {Absent}]

\* A list of operations creates, or deletes, a node.
Creates(ops, p) == \E k \in DOMAIN ops : ops[k].type = "create" /\ ops[k].path = p
Deletes(ops, p) == \E k \in DOMAIN ops : ops[k].type = "delete" /\ ops[k].path = p

-----------------------------------------------------------------------------
(* What the recursive functions of the model compute.                      *)

\* The provers have no rule of induction, but know that < is well-founded: a set
\* that holds 0 and with every number the next holds them all.
LEMMA SetInduction ==
  ASSUME NEW S, 0 \in S, \A n \in Nat : n \in S => n + 1 \in S
  PROVE  \A n \in Nat : n \in S
<1> SUFFICES ASSUME NEW k \in Nat, k \notin S PROVE FALSE
  OBVIOUS
<1> DEFINE R == OpToRel(<, Nat)
           T == {n \in Nat : n \notin S}
<1>1. IsWellFoundedOn(R, Nat)
  BY NatLessThanWellFounded
<1>2. PICK n \in T : \A m \in T : <<m, n>> \notin R
  <2>1. T \subseteq Nat /\ T # {}
    OBVIOUS
  <2> HIDE DEF R, T
  <2> QED
    BY <1>1, <2>1, WFMin
<1>3. n \in Nat /\ n \notin S /\ n # 0
  OBVIOUS
<1>4. n - 1 \in Nat /\ (n - 1) + 1 = n /\ n - 1 < n
  BY <1>3
<1>5. <<n - 1, n>> \in R
  BY <1>3, <1>4 DEF OpToRel
<1>6. n - 1 \in S
  BY <1>2, <1>4, <1>5
<1>7. QED
  BY <1>3, <1>4, <1>6

\* Steps(ops, t)[k] is what the first k operations make of t.
Stepped(f, n, ops, t) ==
  f = [k \in 0..n |->
        IF k = 0 THEN t
        ELSE IF Outcome(ops[k], f[k - 1]) = "ZOK" THEN Change(ops[k], f[k - 1])
        ELSE f[k - 1]]

LEMMA SteppedExists ==
  ASSUME NEW ops, NEW t
  PROVE  \A n \in Nat : \E f : Stepped(f, n, ops, t)
<1> DEFINE Next1(k, u) == IF Outcome(ops[k], u) = "ZOK" THEN Change(ops[k], u) ELSE u
           S == {n \in Nat : \E f : Stepped(f, n, ops, t)}
<1>1. 0 \in S
  <2>1. Stepped([k \in 0..0 |-> t], 0, ops, t)
    BY DEF Stepped
  <2>2. QED
    BY <2>1
<1>2. ASSUME NEW n \in Nat, n \in S PROVE n + 1 \in S
  <2>1. PICK f : Stepped(f, n, ops, t)
    BY <1>2
  <2> DEFINE g == [k \in 0..(n + 1) |-> IF k \in 0..n THEN f[k] ELSE Next1(n + 1, f[n])]
  <2>2. \A k \in 0..n : f[k] = IF k = 0 THEN t ELSE Next1(k, f[k - 1])
    BY <2>1 DEF Stepped
  <2>3. g[n + 1] = Next1(n + 1, f[n]) /\ \A k \in 0..n : g[k] = f[k]
    OBVIOUS
  <2>4. g = [k \in 0..(n + 1) |-> g[k]]
    OBVIOUS
  <2> HIDE DEF g, Next1
  <2>5. ASSUME NEW k \in 0..(n + 1)
        PROVE  g[k] = IF k = 0 THEN t ELSE Next1(k, g[k - 1])
    <3>1. CASE k \in 0..n
      <4>1. k # 0 => k - 1 \in 0..n
        BY <3>1
      <4>2. QED
        BY <2>2, <2>3, <3>1, <4>1
    <3>2. CASE k = n + 1
      <4>1. k # 0 /\ k - 1 = n /\ n \in 0..n
        BY <3>2
      <4>2. QED
        BY <2>3, <3>2, <4>1
    <3>3. QED
      BY <3>1, <3>2
  <2>6. g = [k \in 0..(n + 1) |-> IF k = 0 THEN t ELSE Next1(k, g[k - 1])]
    BY <2>4, <2>5
  <2>7. Stepped(g, n + 1, ops, t)
    BY <2>6 DEF Stepped, Next1
  <2>8. QED
    BY <2>7
<1> HIDE DEF S
<1>3. \A n \in Nat : n \in S
  BY <1>1, <1>2, SetInduction
<1>4. QED
  BY <1>3 DEF S

LEMMA StepsSay ==
  ASSUME NEW ops, NEW t, Len(ops) \in Nat
  PROVE  /\ Steps(ops, t)[0] = t
         /\ \A k \in 1..Len(ops) :
              Steps(ops, t)[k] =
                IF Outcome(ops[k], Steps(ops, t)[k - 1]) = "ZOK"
                THEN Change(ops[k], Steps(ops, t)[k - 1]) ELSE Steps(ops, t)[k - 1]
<1>1. \E f : Stepped(f, Len(ops), ops, t)
  BY SteppedExists
<1>2. Steps(ops, t) = CHOOSE f : Stepped(f, Len(ops), ops, t)
  BY DEF Steps, Stepped
<1>3. Stepped(Steps(ops, t), Len(ops), ops, t)
  BY <1>1, <1>2
<1>4. QED
  BY <1>3 DEF Stepped

-----------------------------------------------------------------------------
(* What an operation, and a list of them, does.                            *)

LEMMA NamesDiffer ==
  /\ Parent \notin Nodes /\ Paths = Nodes \union {Parent} /\ Nodes \subseteq Paths
  /\ Absent \notin Info /\ Absent # Plain /\ Absent \notin Paths /\ Plain \notin Info
  BY PathsAssumption, AbsentAssumption DEF Paths

LEMMA OpSays ==
  ASSUME NEW op \in Ops
  PROVE  /\ op.path \in Paths /\ op.type \in {"create", "delete", "set", "check"}
         /\ op.type = "create" => op.info = IF op.path = Parent THEN Plain ELSE op.info
         /\ op.type = "create" /\ op.path \in Nodes => op.info \in Info
         /\ op.type = "set" => op.path \in Nodes /\ op.value \in Values
<1>1. CASE op \in {CreateOp(p, i) : p \in Nodes, i \in Info}
  BY <1>1, NamesDiffer DEF CreateOp
<1>2. CASE op \in {SetOp(p, f, v) : p \in Nodes, f \in {"Data", "Acl"}, v \in Values}
  BY <1>2, NamesDiffer DEF SetOp
<1>3. CASE op \in {DeleteOp(p) : p \in Nodes} \union {CheckOp(p) : p \in Nodes}
  BY <1>3, NamesDiffer DEF DeleteOp, CheckOp
<1>4. CASE op \in {CreateOp(Parent, Plain), DeleteOp(Parent), CheckOp(Parent)}
  BY <1>4, NamesDiffer DEF CreateOp, DeleteOp, CheckOp
<1>5. QED
  BY <1>1, <1>2, <1>3, <1>4 DEF Ops, NodeOps

\* Change touches one path.
LEMMA ChangeSays ==
  ASSUME NEW op \in Ops, NEW m, m = [q \in DOMAIN m |-> m[q]], op.path \in DOMAIN m
  PROVE  /\ DOMAIN Change(op, m) = DOMAIN m
         /\ Change(op, m) = [q \in DOMAIN m |-> Change(op, m)[q]]
         /\ \A q \in DOMAIN m \ {op.path} : Change(op, m)[q] = m[q]
         /\ op.type = "create" => Change(op, m)[op.path] = op.info
         /\ op.type = "delete" => Change(op, m)[op.path] = Absent
         /\ op.type = "check" => Change(op, m) = m
         /\ op.type = "set" =>
              Change(op, m)[op.path] = [m[op.path] EXCEPT ![op.field] = op.value]
<1>1. CASE op.type = "create"
  BY <1>1 DEF Change
<1>2. CASE op.type = "delete"
  BY <1>2 DEF Change
<1>3. CASE op.type = "set"
  BY <1>3 DEF Change
<1>4. CASE op.type = "check"
  BY <1>4 DEF Change
<1>5. QED
  BY <1>1, <1>2, <1>3, <1>4, OpSays

LEMMA InfoSet ==
  ASSUME NEW i \in Info, NEW f, NEW v \in Values
  PROVE  [i EXCEPT ![f] = v] \in Info
  BY DEF Info

LEMMA TreeTouch ==
  ASSUME NEW op \in Ops, NEW t \in Trees
  PROVE  \A q \in Paths : q # op.path => Change(op, t)[q] = t[q]
<1>1. op.path \in DOMAIN t /\ DOMAIN t = Paths /\ t = [q \in DOMAIN t |-> t[q]]
  BY OpSays DEF Trees
<1>2. \A q \in DOMAIN t \ {op.path} : Change(op, t)[q] = t[q]
  BY <1>1, ChangeSays
<1>3. QED
  BY <1>1, <1>2

LEMMA TreeChange ==
  ASSUME NEW op \in Ops, NEW t \in Trees, Outcome(op, t) = "ZOK"
  PROVE  Change(op, t) \in Trees
<1>1. /\ t \in [Paths -> Info \union {Absent, Plain}] /\ op.path \in Paths
      /\ DOMAIN t = Paths /\ t = [q \in DOMAIN t |-> t[q]]
  BY OpSays DEF Trees
<1>2. \A q \in Paths \ {op.path} : Change(op, t)[q] = t[q]
  BY <1>1, ChangeSays
<1>3. Change(op, t) = [q \in Paths |-> Change(op, t)[q]]
  BY <1>1, ChangeSays
<1>4. Change(op, t)[op.path] \in IF op.path = Parent THEN {Absent, Plain} ELSE Info \union {Absent}
  <2>1. CASE op.type = "create"
    BY <1>1, <2>1, ChangeSays, OpSays, NamesDiffer
  <2>2. CASE op.type = "delete"
    BY <1>1, <2>2, ChangeSays
  <2>3. CASE op.type = "set"
    <3>1. op.path \in Nodes /\ op.value \in Values /\ op.path # Parent
      BY <2>3, OpSays, NamesDiffer
    <3>2. t[op.path] # Absent
      BY <2>3 DEF Outcome
    <3>3. t[op.path] \in Info
      BY <3>1, <3>2 DEF Trees
    <3>4. [t[op.path] EXCEPT ![op.field] = op.value] \in Info
      BY <3>1, <3>3, InfoSet
    <3>5. Change(op, t)[op.path] = [t[op.path] EXCEPT ![op.field] = op.value]
      BY <1>1, <2>3, ChangeSays
    <3>6. QED
      BY <3>1, <3>4, <3>5
  <2>4. CASE op.type = "check"
    BY <1>1, <2>4, ChangeSays, NamesDiffer DEF Trees
  <2>5. QED
    BY <2>1, <2>2, <2>3, <2>4, OpSays
<1>5. Change(op, t) \in [Paths -> Info \union {Absent, Plain}]
  <2>1. ASSUME NEW q \in Paths PROVE Change(op, t)[q] \in Info \union {Absent, Plain}
    <3>1. CASE q = op.path
      BY <1>4, <3>1
    <3>2. CASE q # op.path
      BY <1>1, <1>2, <3>2
    <3>3. QED
      BY <3>1, <3>2
  <2>2. QED
    BY <1>3, <2>1
<1>6. Change(op, t)[Parent] \in {Absent, Plain}
  <2>1. Parent \in Paths
    BY NamesDiffer
  <2>2. QED
    BY <1>2, <1>4, <2>1 DEF Trees
<1>7. \A p \in Nodes : Change(op, t)[p] \in Info \union {Absent}
  BY <1>2, <1>4, NamesDiffer DEF Trees
<1>8. Change(op, t)[Parent] = Absent => \A p \in Nodes : Change(op, t)[p] = Absent
  <2>1. CASE op.path = Parent
    <3>1. CASE op.type = "create"
      BY <1>1, <2>1, <3>1, ChangeSays, OpSays, NamesDiffer
    <3>2. CASE op.type = "delete"
      <4>1. \A p \in Nodes : t[p] = Absent
        BY <2>1, <3>2, NamesDiffer DEF Outcome, Existing
      <4>2. QED
        BY <1>2, <2>1, <4>1, NamesDiffer
    <3>3. CASE op.type = "check"
      BY <1>1, <3>3, ChangeSays DEF Trees
    <3>4. QED
      BY <2>1, <3>1, <3>2, <3>3, OpSays, NamesDiffer
  <2>2. CASE op.path # Parent
    <3>1. op.path \in Nodes /\ Change(op, t)[Parent] = t[Parent]
      BY <1>1, <1>2, <2>2, NamesDiffer
    <3>2. t[Parent] = Absent => t[op.path] = Absent
      BY <3>1 DEF Trees
    <3>3. t[Parent] # Absent
      BY <3>1, <3>2, OpSays DEF Outcome
    <3>4. QED
      BY <3>1, <3>3
  <2>3. QED
    BY <2>1, <2>2
<1>9. QED
  BY <1>5, <1>6, <1>7, <1>8 DEF Trees

LEMMA RegistryChange ==
  ASSUME NEW op \in Ops, NEW info \in Registries, op.path \in Nodes,
         op.type = "create" \/ info[op.path] # Absent
  PROVE  Change(op, info) \in Registries
<1>1. /\ info \in [Nodes -> Info \union {Absent}] /\ info[op.path] \in Info \union {Absent}
      /\ DOMAIN info = Nodes /\ info = [q \in DOMAIN info |-> info[q]]
  BY DEF Registries
<1>2. \A q \in Nodes \ {op.path} : Change(op, info)[q] = info[q]
  BY <1>1, ChangeSays
<1>3. Change(op, info) = [q \in Nodes |-> Change(op, info)[q]]
  BY <1>1, ChangeSays
<1>4. Change(op, info)[op.path] \in Info \union {Absent}
  <2>1. CASE op.type = "create"
    BY <1>1, <2>1, ChangeSays, OpSays
  <2>2. CASE op.type = "delete"
    BY <1>1, <2>2, ChangeSays
  <2>3. CASE op.type = "set"
    <3>1. op.value \in Values /\ info[op.path] \in Info
      BY <1>1, <2>3, OpSays
    <3>2. [info[op.path] EXCEPT ![op.field] = op.value] \in Info
      BY <3>1, InfoSet
    <3>3. Change(op, info)[op.path] = [info[op.path] EXCEPT ![op.field] = op.value]
      BY <1>1, <2>3, ChangeSays
    <3>4. QED
      BY <3>2, <3>3
  <2>4. CASE op.type = "check"
    BY <1>1, <2>4, ChangeSays
  <2>5. QED
    BY <2>1, <2>2, <2>3, <2>4, OpSays
<1>5. ASSUME NEW q \in Nodes PROVE Change(op, info)[q] \in Info \union {Absent}
  BY <1>1, <1>2, <1>4
<1>6. QED
  BY <1>3, <1>5 DEF Registries

\* A list of operations keeps the types, touches its paths only, and what does not
\* exist and is not created does not exist after any of them.
LEMMA StepsKeep ==
  ASSUME NEW ops \in Seq(Ops), NEW t \in Trees
  PROVE  \A k \in 0..Len(ops) :
           /\ Steps(ops, t)[k] \in Trees
           /\ \A p \in Paths \ PathsOf(ops) : Steps(ops, t)[k][p] = t[p]
<1> DEFINE f == Steps(ops, t)
           S == {k \in Nat : k <= Len(ops) =>
                   f[k] \in Trees /\ \A p \in Paths \ PathsOf(ops) : f[k][p] = t[p]}
<1>1. /\ Len(ops) \in Nat /\ DOMAIN ops = 1..Len(ops)
      /\ \A k \in 1..Len(ops) : ops[k] \in Ops
  BY LenProperties, ElementOfSeq
<1>2. /\ f[0] = t
      /\ \A k \in 1..Len(ops) :
           f[k] = IF Outcome(ops[k], f[k - 1]) = "ZOK" THEN Change(ops[k], f[k - 1])
                  ELSE f[k - 1]
  BY <1>1, StepsSay
<1> HIDE DEF f
<1>3. 0 \in S
  BY <1>2
<1>4. ASSUME NEW k \in Nat, k \in S PROVE k + 1 \in S
  <2> SUFFICES ASSUME k + 1 <= Len(ops)
               PROVE  f[k + 1] \in Trees /\ \A p \in Paths \ PathsOf(ops) : f[k + 1][p] = t[p]
    OBVIOUS
  <2>1. k + 1 \in 1..Len(ops) /\ (k + 1) - 1 = k /\ ops[k + 1] \in Ops
    BY <1>1
  <2>2. f[k] \in Trees /\ \A p \in Paths \ PathsOf(ops) : f[k][p] = t[p]
    BY <1>1, <1>4
  <2>3. CASE Outcome(ops[k + 1], f[k]) = "ZOK"
    <3>1. f[k + 1] = Change(ops[k + 1], f[k])
      BY <1>2, <2>1, <2>3
    <3>2. f[k + 1] \in Trees
      BY <2>1, <2>2, <2>3, <3>1, TreeChange
    <3>3. ops[k + 1].path \in PathsOf(ops) /\ ops[k + 1].path \in Paths
      BY <1>1, <2>1, OpSays DEF PathsOf
    <3>4. \A q \in Paths : q # ops[k + 1].path => f[k + 1][q] = f[k][q]
      BY <2>1, <2>2, <3>1, TreeTouch
    <3>5. QED
      BY <2>2, <3>2, <3>3, <3>4
  <2>4. CASE Outcome(ops[k + 1], f[k]) # "ZOK"
    <3>1. f[k + 1] = f[k]
      BY <1>2, <2>1, <2>4
    <3>2. QED
      BY <2>2, <3>1
  <2>5. QED
    BY <2>3, <2>4
<1> HIDE DEF S
<1>5. \A k \in Nat : k \in S
  BY <1>3, <1>4, SetInduction
<1>6. QED
  BY <1>1, <1>5 DEF S, f

LEMMA StaysAbsent ==
  ASSUME NEW ops \in Seq(Ops), NEW t \in Trees, NEW p \in Nodes, ~Creates(ops, p),
         NEW j \in 0..Len(ops), Steps(ops, t)[j][p] = Absent
  PROVE  Steps(ops, t)[Len(ops)][p] = Absent
<1> DEFINE f == Steps(ops, t)
           S == {k \in Nat : j <= k /\ k <= Len(ops) => f[k][p] = Absent}
<1>1. /\ Len(ops) \in Nat /\ DOMAIN ops = 1..Len(ops) /\ j \in Nat
      /\ \A k \in 1..Len(ops) : ops[k] \in Ops
  BY LenProperties, ElementOfSeq
<1>2. \A k \in 1..Len(ops) :
        f[k] = IF Outcome(ops[k], f[k - 1]) = "ZOK" THEN Change(ops[k], f[k - 1])
               ELSE f[k - 1]
  BY <1>1, StepsSay
<1>3. \A k \in 0..Len(ops) : f[k] \in Trees
  BY StepsKeep
<1>4. f[j][p] = Absent
  OBVIOUS
<1> HIDE DEF f
<1>5. 0 \in S
  BY <1>4, <1>1
<1>6. ASSUME NEW k \in Nat, k \in S PROVE k + 1 \in S
  <2> SUFFICES ASSUME j <= k + 1, k + 1 <= Len(ops), j # k + 1 PROVE f[k + 1][p] = Absent
    BY <1>1, <1>4
  <2>1. k + 1 \in 1..Len(ops) /\ k \in 0..Len(ops) /\ (k + 1) - 1 = k /\ ops[k + 1] \in Ops
    BY <1>1
  <2>2. f[k][p] = Absent
    BY <1>1, <1>6
  <2>3. CASE Outcome(ops[k + 1], f[k]) = "ZOK"
    <3>1. f[k + 1] = Change(ops[k + 1], f[k])
      BY <1>2, <2>1, <2>3
    <3>2. ops[k + 1].path \in Paths /\ f[k] \in Trees /\ p \in Paths
      BY <1>3, <2>1, OpSays, NamesDiffer
    <3>3. CASE ops[k + 1].path # p
      BY <2>1, <2>2, <3>1, <3>2, <3>3, TreeTouch
    <3>4. CASE ops[k + 1].path = p
      <4>1. ops[k + 1].type # "create"
        BY <1>1, <2>1, <3>4 DEF Creates
      <4>2. ops[k + 1].type # "set" /\ ops[k + 1].type # "check" /\ ops[k + 1].type # "delete"
        BY <2>2, <2>3, <3>4, <4>1 DEF Outcome
      <4>3. QED
        BY <2>1, <4>1, <4>2, OpSays
    <3>5. QED
      BY <3>3, <3>4
  <2>4. CASE Outcome(ops[k + 1], f[k]) # "ZOK"
    <3>1. f[k + 1] = f[k]
      BY <1>2, <2>1, <2>4
    <3>2. QED
      BY <2>2, <3>1
  <2>5. QED
    BY <2>3, <2>4
<1> HIDE DEF S
<1>7. \A k \in Nat : k \in S
  BY <1>5, <1>6, SetInduction
<1>8. QED
  BY <1>1, <1>7 DEF S, f

RCs == {"ZOK", "ZNONODE", "ZNODEEXISTS", "ZNOTEMPTY", "ZRUNTIMEINCONSISTENCY",
        "ZCONNECTIONLOSS", "ZSESSIONEXPIRED", "ZINVALIDSTATE"}

\* What the server answers to a list: all of it or nothing takes effect.
LEMMA ExecuteIs ==
  ASSUME NEW ops \in Seq(Ops), NEW t \in Trees
  PROVE  /\ Execute(ops, t).rc \in RCs /\ Execute(ops, t).results \in Seq(RCs)
         /\ Len(Execute(ops, t).results) = Len(ops)
         /\ \/ /\ Execute(ops, t).rc = "ZOK"
               /\ Execute(ops, t).tree = Steps(ops, t)[Len(ops)]
               /\ \A k \in 1..Len(ops) : Execute(ops, t).results[k] = "ZOK"
               /\ \A k \in 1..Len(ops) : Outcome(ops[k], Steps(ops, t)[k - 1]) = "ZOK"
            \/ /\ Execute(ops, t).rc # "ZOK"
               /\ Execute(ops, t).tree = t
<1> DEFINE out(k) == Outcome(ops[k], Steps(ops, t)[k - 1])
           ok(k) == \A j \in 1..k : out(j) = "ZOK"
           last == Len(ops)
           failed == CHOOSE k \in 1..last : ok(k - 1) /\ ~ok(k)
           S == {k \in Nat : k <= last => ok(k)}
<1>1. last \in Nat
  BY LenProperties
<1>2. Execute(ops, t) =
        IF ok(last)
        THEN [rc |-> "ZOK", tree |-> Steps(ops, t)[last], results |-> [k \in 1..last |-> "ZOK"]]
        ELSE [rc |-> out(failed), tree |-> t,
              results |-> [k \in 1..last |->
                  IF k < failed THEN "ZOK"
                  ELSE IF k = failed THEN out(k)
                  ELSE "ZRUNTIMEINCONSISTENCY"]]
  BY DEF Execute
<1>3. CASE ok(last)
  <2>1. [k \in 1..last |-> "ZOK"] \in [1..last -> RCs]
    BY DEF RCs
  <2>2. [k \in 1..last |-> "ZOK"] \in Seq(RCs) /\ Len([k \in 1..last |-> "ZOK"]) = last
    BY <1>1, <2>1
  <2> HIDE DEF last
  <2>3. Execute(ops, t).results = [k \in 1..last |-> "ZOK"] /\ Execute(ops, t).rc = "ZOK"
    BY <1>2, <1>3
  <2>4. Execute(ops, t).results \in Seq(RCs) /\ Len(Execute(ops, t).results) = last
    BY <2>2, <2>3
  <2>5. Execute(ops, t).tree = Steps(ops, t)[last]
    BY <1>2, <1>3
  <2>6. \A k \in 1..last : Execute(ops, t).results[k] = "ZOK"
    BY <2>3
  <2>7. \A k \in 1..last : out(k) = "ZOK"
    BY <1>3
  <2>8. "ZOK" \in RCs
    BY DEF RCs
  <2> HIDE <1>2, <1>3
  <2>9. QED
    BY <2>3, <2>4, <2>5, <2>6, <2>7, <2>8 DEF last
<1>4. CASE ~ok(last)
  <2>1. \E k \in 1..last : ok(k - 1) /\ ~ok(k)
    <3>1. SUFFICES ASSUME \A k \in 1..last : ok(k - 1) => ok(k) PROVE FALSE
      OBVIOUS
    <3>2. 0 \in S
      OBVIOUS
    <3>3. ASSUME NEW k \in Nat, k \in S PROVE k + 1 \in S
      <4> HIDE DEF ok, last
      <4>1. (k + 1) - 1 = k /\ (k + 1 <= last => k + 1 \in 1..last /\ k <= last)
        BY <1>1
      <4>2. QED
        BY <3>1, <3>3, <4>1
    <3> HIDE DEF S
    <3>4. \A k \in Nat : k \in S
      BY <3>2, <3>3, SetInduction
    <3>5. QED
      BY <1>1, <1>4, <3>4 DEF S
  <2> HIDE DEF ok
  <2>2. failed \in 1..last /\ ok(failed - 1) /\ ~ok(failed)
    BY <2>1
  <2>3. out(failed) # "ZOK"
    <3> HIDE DEF out, failed
    <3>1. \A j \in 1..failed : j \in 1..(failed - 1) \/ j = failed
      BY <1>1, <2>2
    <3>2. QED
      BY <2>2, <3>1 DEF ok
  <2>4. \A k \in 1..last : out(k) \in RCs
    BY DEF Outcome, RCs
  <2> HIDE DEF out, failed
  <2> DEFINE results == [k \in 1..last |->
                  IF k < failed THEN "ZOK"
                  ELSE IF k = failed THEN out(k)
                  ELSE "ZRUNTIMEINCONSISTENCY"]
  <2>5. results \in [1..last -> RCs]
    BY <2>4 DEF RCs
  <2>6. results \in Seq(RCs) /\ Len(results) = last
    <3> HIDE DEF results, last
    <3>1. QED
      BY <1>1, <2>5
  <2>7. Execute(ops, t) = [rc |-> out(failed), tree |-> t, results |-> results]
    BY <1>2, <1>4
  <2> HIDE DEF results, last
  <2>8. QED
    BY <2>2, <2>3, <2>4, <2>6, <2>7 DEF last
<1>5. QED
  BY <1>3, <1>4

LEMMA ExecuteSays ==
  ASSUME NEW ops \in Seq(Ops), NEW t \in Trees
  PROVE  /\ Execute(ops, t).tree \in Trees
         /\ \A p \in Paths \ PathsOf(ops) : Execute(ops, t).tree[p] = t[p]
         /\ \A p \in Nodes : ~Creates(ops, p) =>
              /\ t[p] = Absent => Execute(ops, t).tree[p] = Absent
              /\ Deletes(ops, p) /\ Execute(ops, t).rc = "ZOK"
                   => Execute(ops, t).tree[p] = Absent
         /\ Execute(ops, t).rc = "ZOK" =>
              \A k \in DOMAIN ops : Execute(ops, t).results[k] = "ZOK"
<1>1. /\ Len(ops) \in Nat /\ DOMAIN ops = 1..Len(ops) /\ Len(ops) \in 0..Len(ops)
      /\ 0 \in 0..Len(ops) /\ \A k \in 1..Len(ops) : ops[k] \in Ops
  BY LenProperties, ElementOfSeq
<1>2. CASE Execute(ops, t).rc # "ZOK"
  <2>1. Execute(ops, t).tree = t
    BY <1>2, ExecuteIs
  <2>2. QED
    BY <1>2, <2>1
<1>3. CASE Execute(ops, t).rc = "ZOK"
  <2>1. /\ Execute(ops, t).tree = Steps(ops, t)[Len(ops)]
        /\ \A k \in 1..Len(ops) : Execute(ops, t).results[k] = "ZOK"
        /\ \A k \in 1..Len(ops) : Outcome(ops[k], Steps(ops, t)[k - 1]) = "ZOK"
    BY <1>3, ExecuteIs
  <2>2. /\ Steps(ops, t)[Len(ops)] \in Trees
        /\ \A p \in Paths \ PathsOf(ops) : Steps(ops, t)[Len(ops)][p] = t[p]
    BY <1>1, StepsKeep
  <2>3. ASSUME NEW p \in Nodes, ~Creates(ops, p), t[p] = Absent
        PROVE  Steps(ops, t)[Len(ops)][p] = Absent
    <3>1. Steps(ops, t)[0] = t
      BY <1>1, StepsSay
    <3>2. QED
      BY <1>1, <2>3, <3>1, StaysAbsent
  <2>4. ASSUME NEW p \in Nodes, ~Creates(ops, p), Deletes(ops, p)
        PROVE  Steps(ops, t)[Len(ops)][p] = Absent
    <3>1. PICK k \in 1..Len(ops) : ops[k].type = "delete" /\ ops[k].path = p
      BY <1>1, <2>4 DEF Deletes
    <3>2. k - 1 \in 0..Len(ops) /\ k \in 0..Len(ops) /\ ops[k] \in Ops
      BY <1>1
    <3>3. PICK u \in Trees : u = Steps(ops, t)[k - 1]
      BY <3>2, StepsKeep
    <3>4. Steps(ops, t)[k] = Change(ops[k], u)
      BY <1>1, <2>1, <3>3, StepsSay
    <3>5. DOMAIN u = Paths /\ u = [q \in DOMAIN u |-> u[q]] /\ p \in Paths
      BY NamesDiffer DEF Trees
    <3>6. Change(ops[k], u)[p] = Absent
      BY <3>1, <3>2, <3>5, ChangeSays
    <3>7. QED
      BY <2>4, <3>2, <3>4, <3>6, StaysAbsent
  <2>5. QED
    BY <1>1, <1>3, <2>1, <2>2, <2>3, <2>4
<1>4. QED
  BY <1>2, <1>3

-----------------------------------------------------------------------------
(* The types of what is under way.                                         *)

SyncCalls == {"Create", "CreateExistSkip", "CreateExistSkipSet", "Set", "SetAcl", "Delete",
              "Multi", "CreatePathRecursion", "CreatePathMulti", "DeletePathRecursion",
              "DeletePathMulti"}
Ctxs == [path : Nodes \union {Absent}, info : Info \union {Absent}]
RequestType == [call : AsyncCalls \union SyncCalls, ops : Seq(Ops), ctx : Ctxs]
AnswerType ==
  [call : AsyncCalls, ops : Seq(Ops), ctx : Ctxs, rc : RCs, results : Seq(RCs)]
UserType ==
  {Idle} \union [pc : {"erase"}]
    \union [pc : {"sent"}, call : SyncCalls, ops : Seq(Ops), ctx : Ctxs]
    \union [pc : {"answered"}, call : SyncCalls, ops : Seq(Ops), ctx : Ctxs, rc : RCs,
            results : Seq(RCs), view : SUBSET Nodes]
ZkType ==
  {Idle} \union [pc : {"next"}, todo : SUBSET Nodes]
    \union [pc : {"create", "check", "make", "recreate", "retry"},
            cur : Nodes, todo : SUBSET Nodes, try : {1, 2}]

PipeTypes ==
  /\ requests \in Seq(RequestType)
  /\ completions \in Seq(AnswerType \union {Connected, Expired})
  /\ user \in UserType
MemoryTypes ==
  /\ tree \in Trees
  /\ m_ephemeral_node_info \in Registries
  /\ link \in {"up", "expired"}
  /\ m_need_resume_env \in BOOLEAN
  /\ zk \in ZkType
  /\ doubt \subseteq Nodes /\ orphans \subseteq Nodes /\ deleted \subseteq Nodes

-----------------------------------------------------------------------------
(* What ExecuteFirst and ProcMultiEphemeralNode compute.                   *)

\* The server after the first k of n requests.
Served(f, n, t) ==
  f = [j \in 0..n |-> IF j = 0 THEN t ELSE Execute(requests[j].ops, f[j - 1]).tree]

LEMMA ServedExists ==
  ASSUME NEW t
  PROVE  \A n \in Nat : \E f : Served(f, n, t)
<1> DEFINE After(k, u) == Execute(requests[k].ops, u).tree
           S == {n \in Nat : \E f : Served(f, n, t)}
<1>1. 0 \in S
  <2>1. Served([k \in 0..0 |-> t], 0, t)
    BY DEF Served
  <2>2. QED
    BY <2>1
<1>2. ASSUME NEW n \in Nat, n \in S PROVE n + 1 \in S
  <2>1. PICK f : Served(f, n, t)
    BY <1>2
  <2> DEFINE g == [k \in 0..(n + 1) |-> IF k \in 0..n THEN f[k] ELSE After(n + 1, f[n])]
  <2>2. \A k \in 0..n : f[k] = IF k = 0 THEN t ELSE After(k, f[k - 1])
    BY <2>1 DEF Served
  <2>3. g[n + 1] = After(n + 1, f[n]) /\ \A k \in 0..n : g[k] = f[k]
    OBVIOUS
  <2>4. g = [k \in 0..(n + 1) |-> g[k]]
    OBVIOUS
  <2> HIDE DEF g, After
  <2>5. ASSUME NEW k \in 0..(n + 1)
        PROVE  g[k] = IF k = 0 THEN t ELSE After(k, g[k - 1])
    <3>1. CASE k \in 0..n
      <4>1. k # 0 => k - 1 \in 0..n
        BY <3>1
      <4>2. QED
        BY <2>2, <2>3, <3>1, <4>1
    <3>2. CASE k = n + 1
      <4>1. k # 0 /\ k - 1 = n /\ n \in 0..n
        BY <3>2
      <4>2. QED
        BY <2>3, <3>2, <4>1
    <3>3. QED
      BY <3>1, <3>2
  <2>6. g = [k \in 0..(n + 1) |-> IF k = 0 THEN t ELSE After(k, g[k - 1])]
    BY <2>4, <2>5
  <2>7. Served(g, n + 1, t)
    BY <2>6 DEF Served, After
  <2>8. QED
    BY <2>7
<1> HIDE DEF S
<1>3. \A n \in Nat : n \in S
  BY <1>1, <1>2, SetInduction
<1>4. QED
  BY <1>3 DEF S

LEMMA ExecuteFirstSays ==
  ASSUME requests \in Seq(RequestType), NEW t \in Trees, NEW n \in 0..Len(requests)
  PROVE  /\ ExecuteFirst(n, t) \in Trees
         /\ \A p \in Nodes :
              (\A k \in DOMAIN requests : p \notin PathsOf(requests[k].ops))
                => ExecuteFirst(n, t)[p] = t[p]
         /\ \A p \in Nodes :
              (\A k \in DOMAIN requests : ~Creates(requests[k].ops, p)) /\ t[p] = Absent
                => ExecuteFirst(n, t)[p] = Absent
<1>1. /\ Len(requests) \in Nat /\ DOMAIN requests = 1..Len(requests) /\ n \in Nat
      /\ \A k \in 1..n : k \in DOMAIN requests /\ requests[k].ops \in Seq(Ops)
  <2>1. \A k \in 1..Len(requests) : requests[k] \in RequestType
    BY LenProperties, ElementOfSeq
  <2>2. \A r \in RequestType : r.ops \in Seq(Ops)
    BY DEF RequestType
  <2>3. /\ Len(requests) \in Nat /\ DOMAIN requests = 1..Len(requests) /\ n \in Nat
        /\ \A k \in 1..n : k \in 1..Len(requests)
    BY LenProperties
  <2>4. QED
    BY <2>1, <2>2, <2>3
<1>2. PICK f : Served(f, n, t) /\ ExecuteFirst(n, t) = f[n]
  <2>1. \E f : Served(f, n, t)
    BY <1>1, ServedExists
  <2>2. ExecuteFirst(n, t) = (CHOOSE f : Served(f, n, t))[n]
    BY DEF ExecuteFirst, Served
  <2>3. QED
    BY <2>1, <2>2
<1>3. f[0] = t /\ \A k \in 1..n : f[k] = Execute(requests[k].ops, f[k - 1]).tree
  BY <1>1, <1>2 DEF Served
<1> DEFINE Kept(k) ==
             /\ f[k] \in Trees
             /\ \A p \in Nodes :
                  (\A i \in DOMAIN requests : p \notin PathsOf(requests[i].ops)) => f[k][p] = t[p]
             /\ \A p \in Nodes :
                  (\A i \in DOMAIN requests : ~Creates(requests[i].ops, p)) /\ t[p] = Absent
                    => f[k][p] = Absent
           S == {k \in Nat : k <= n => Kept(k)}
<1>4. 0 \in S
  BY <1>3
<1>5. ASSUME NEW k \in Nat, k \in S PROVE k + 1 \in S
  <2> SUFFICES ASSUME k + 1 <= n PROVE Kept(k + 1)
    OBVIOUS
  <2>1. k + 1 \in 1..n /\ (k + 1) - 1 = k /\ Kept(k)
    BY <1>1, <1>5
  <2>2. PICK u \in Trees, ops \in Seq(Ops) : u = f[k] /\ ops = requests[k + 1].ops
    BY <1>1, <2>1
  <2>3. f[k + 1] = Execute(ops, u).tree /\ k + 1 \in DOMAIN requests
    BY <1>1, <1>3, <2>1, <2>2
  <2>4. f[k + 1] \in Trees
    BY <2>3, ExecuteSays
  <2>5. ASSUME NEW p \in Nodes, \A i \in DOMAIN requests : p \notin PathsOf(requests[i].ops)
        PROVE  f[k + 1][p] = t[p]
    <3>1. p \in Paths \ PathsOf(ops) /\ u[p] = t[p]
      BY <2>1, <2>2, <2>3, <2>5, NamesDiffer
    <3>2. QED
      BY <2>3, <3>1, ExecuteSays
  <2>6. ASSUME NEW p \in Nodes, \A i \in DOMAIN requests : ~Creates(requests[i].ops, p),
               t[p] = Absent
        PROVE  f[k + 1][p] = Absent
    <3>1. ~Creates(ops, p) /\ u[p] = Absent
      BY <2>1, <2>2, <2>3, <2>6
    <3>2. QED
      BY <2>3, <3>1, ExecuteSays
  <2>7. QED
    BY <2>4, <2>5, <2>6
<1> HIDE DEF S
<1>6. \A k \in Nat : k \in S
  BY <1>4, <1>5, SetInduction
<1>7. Kept(n)
  BY <1>1, <1>6 DEF S
<1>8. QED
  BY <1>2, <1>7

\* The registry after the first n operations of a list.
TrackedOp(op, result, info) ==
  /\ result = "ZOK"
  /\ op.path \in Nodes
  /\ \/ op.type = "create"
     \/ op.type \in {"delete", "set"} /\ info[op.path] # Absent
Tracked(f, n, ops, results) ==
  f = [k \in 0..n |->
        IF k = 0 THEN m_ephemeral_node_info
        ELSE IF TrackedOp(ops[k], results[k], f[k - 1]) THEN Change(ops[k], f[k - 1])
        ELSE f[k - 1]]

LEMMA TrackedExists ==
  ASSUME NEW ops, NEW results
  PROVE  \A n \in Nat : \E f : Tracked(f, n, ops, results)
<1> DEFINE After(k, u) == IF TrackedOp(ops[k], results[k], u) THEN Change(ops[k], u) ELSE u
           S == {n \in Nat : \E f : Tracked(f, n, ops, results)}
<1>1. 0 \in S
  <2>1. Tracked([k \in 0..0 |-> m_ephemeral_node_info], 0, ops, results)
    BY DEF Tracked
  <2>2. QED
    BY <2>1
<1>2. ASSUME NEW n \in Nat, n \in S PROVE n + 1 \in S
  <2>1. PICK f : Tracked(f, n, ops, results)
    BY <1>2
  <2> DEFINE g == [k \in 0..(n + 1) |-> IF k \in 0..n THEN f[k] ELSE After(n + 1, f[n])]
  <2>2. \A k \in 0..n : f[k] = IF k = 0 THEN m_ephemeral_node_info ELSE After(k, f[k - 1])
    BY <2>1 DEF Tracked
  <2>3. g[n + 1] = After(n + 1, f[n]) /\ \A k \in 0..n : g[k] = f[k]
    OBVIOUS
  <2>4. g = [k \in 0..(n + 1) |-> g[k]]
    OBVIOUS
  <2> HIDE DEF g, After
  <2>5. ASSUME NEW k \in 0..(n + 1)
        PROVE  g[k] = IF k = 0 THEN m_ephemeral_node_info ELSE After(k, g[k - 1])
    <3>1. CASE k \in 0..n
      <4>1. k # 0 => k - 1 \in 0..n
        BY <3>1
      <4>2. QED
        BY <2>2, <2>3, <3>1, <4>1
    <3>2. CASE k = n + 1
      <4>1. k # 0 /\ k - 1 = n /\ n \in 0..n
        BY <3>2
      <4>2. QED
        BY <2>3, <3>2, <4>1
    <3>3. QED
      BY <3>1, <3>2
  <2>6. g = [k \in 0..(n + 1) |-> IF k = 0 THEN m_ephemeral_node_info ELSE After(k, g[k - 1])]
    BY <2>4, <2>5
  <2>7. Tracked(g, n + 1, ops, results)
    BY <2>6 DEF Tracked, After
  <2>8. QED
    BY <2>7
<1> HIDE DEF S
<1>3. \A n \in Nat : n \in S
  BY <1>1, <1>2, SetInduction
<1>4. QED
  BY <1>3 DEF S

LEMMA RegistryTouch ==
  ASSUME NEW op \in Ops, NEW info \in Registries, op.path \in Nodes
  PROVE  /\ \A q \in Nodes : q # op.path => Change(op, info)[q] = info[q]
         /\ op.type = "create" => Change(op, info)[op.path] = op.info
         /\ op.type = "delete" => Change(op, info)[op.path] = Absent
<1>1. op.path \in DOMAIN info /\ DOMAIN info = Nodes /\ info = [q \in DOMAIN info |-> info[q]]
  BY DEF Registries
<1>2. /\ \A q \in DOMAIN info \ {op.path} : Change(op, info)[q] = info[q]
      /\ op.type = "create" => Change(op, info)[op.path] = op.info
      /\ op.type = "delete" => Change(op, info)[op.path] = Absent
  BY <1>1, ChangeSays
<1>3. QED
  BY <1>1, <1>2

\* One operation of a list.
LEMMA TrackedStep ==
  ASSUME NEW op \in Ops, NEW info \in Registries, NEW result, NEW next,
         next = IF TrackedOp(op, result, info) THEN Change(op, info) ELSE info
  PROVE  /\ next \in Registries
         /\ \A p \in Nodes : p # op.path => next[p] = info[p]
         /\ \A p \in Nodes : info[p] = Absent /\ ~(op.type = "create" /\ op.path = p)
                               => next[p] = Absent
         /\ \A p \in Nodes : op.type = "delete" /\ op.path = p /\ result = "ZOK"
                               => next[p] = Absent
<1>1. CASE TrackedOp(op, result, info)
  <2>0. next = Change(op, info)
    BY <1>1
  <2>1. op.path \in Nodes /\ next = Change(op, info)
        /\ (op.type = "create" \/ info[op.path] # Absent)
    BY <1>1, <2>0, Zenon DEF TrackedOp
  <2>2. next \in Registries
    BY <2>1, RegistryChange
  <2>3. /\ \A q \in Nodes : q # op.path => next[q] = info[q]
        /\ op.type = "delete" => next[op.path] = Absent
    BY <2>1, RegistryTouch
  <2>4. QED
    BY <2>1, <2>2, <2>3
<1>2. CASE ~TrackedOp(op, result, info)
  BY <1>2 DEF TrackedOp
<1>3. QED
  BY <1>1, <1>2

LEMMA ProcMultiSays ==
  ASSUME m_ephemeral_node_info \in Registries, NEW ops \in Seq(Ops), NEW results
  PROVE  /\ ProcMultiEphemeralNode(ops, results) \in Registries
         /\ \A p \in Nodes :
              /\ p \notin PathsOf(ops) =>
                   ProcMultiEphemeralNode(ops, results)[p] = m_ephemeral_node_info[p]
              /\ ~Creates(ops, p) /\ m_ephemeral_node_info[p] = Absent
                   => ProcMultiEphemeralNode(ops, results)[p] = Absent
              /\ ~Creates(ops, p) /\ Deletes(ops, p)
                 /\ (\A k \in DOMAIN ops : results[k] = "ZOK")
                   => ProcMultiEphemeralNode(ops, results)[p] = Absent
<1> DEFINE n == Len(ops)
           reg == m_ephemeral_node_info
<1>1. n \in Nat /\ DOMAIN ops = 1..n /\ \A k \in 1..n : ops[k] \in Ops
  BY LenProperties, ElementOfSeq
<1>2. PICK f : Tracked(f, n, ops, results) /\ ProcMultiEphemeralNode(ops, results) = f[n]
  <2>1. \E f : Tracked(f, n, ops, results)
    BY <1>1, TrackedExists
  <2>2. ProcMultiEphemeralNode(ops, results) = (CHOOSE f : Tracked(f, n, ops, results))[n]
    BY DEF ProcMultiEphemeralNode, Tracked, TrackedOp
  <2>3. QED
    BY <2>1, <2>2
<1>3. /\ f[0] = reg
      /\ \A k \in 1..n : f[k] = IF TrackedOp(ops[k], results[k], f[k - 1])
                                THEN Change(ops[k], f[k - 1]) ELSE f[k - 1]
  BY <1>1, <1>2 DEF Tracked
<1> HIDE DEF n, reg
<1> DEFINE Gone(k, p) ==
             \/ reg[p] = Absent
             \/ /\ \A i \in DOMAIN ops : results[i] = "ZOK"
                /\ \E i \in 1..k : ops[i].type = "delete" /\ ops[i].path = p
           Kept(k) ==
             /\ f[k] \in Registries
             /\ \A p \in Nodes : p \notin PathsOf(ops) => f[k][p] = reg[p]
             /\ \A p \in Nodes : ~Creates(ops, p) /\ Gone(k, p) => f[k][p] = Absent
           S == {k \in Nat : k <= n => Kept(k)}
<1>4. 0 \in S
  BY <1>3 DEF reg
<1>5. ASSUME NEW k \in Nat, k \in S PROVE k + 1 \in S
  <2> SUFFICES ASSUME k + 1 <= n PROVE Kept(k + 1)
    OBVIOUS
  <2>1. k + 1 \in 1..n /\ (k + 1) - 1 = k /\ Kept(k)
    BY <1>1, <1>5
  <2>v. PICK v : v = f[k + 1]
    OBVIOUS
  <2>2. PICK u \in Registries, op \in Ops : u = f[k] /\ op = ops[k + 1] /\ v = f[k + 1]
    BY <1>1, <2>1, <2>v
  <2>3. v = IF TrackedOp(op, results[k + 1], u) THEN Change(op, u) ELSE u
    BY <1>3, <2>1, <2>2
  <2>4. /\ v \in Registries
        /\ \A p \in Nodes : p # op.path => v[p] = u[p]
        /\ \A p \in Nodes : u[p] = Absent /\ ~(op.type = "create" /\ op.path = p)
                               => v[p] = Absent
        /\ \A p \in Nodes : op.type = "delete" /\ op.path = p /\ results[k + 1] = "ZOK"
                               => v[p] = Absent
    <3> HIDE DEF Kept
    <3> QED
      BY <2>3, TrackedStep
  <2>5. k + 1 \in DOMAIN ops
    BY <1>1, <2>1
  <2>6. ASSUME NEW p \in Nodes, p \notin PathsOf(ops) PROVE v[p] = reg[p]
    <3>1. p # op.path
      BY <2>2, <2>5, <2>6 DEF PathsOf
    <3>2. QED
      BY <2>1, <2>2, <2>4, <2>6, <3>1
  <2>7. ASSUME NEW p \in Nodes, ~Creates(ops, p), Gone(k + 1, p) PROVE v[p] = Absent
    <3>1. ~(op.type = "create" /\ op.path = p)
      BY <2>2, <2>5, <2>7 DEF Creates
    <3>2. CASE Gone(k, p)
      <4>1. u[p] = Absent
        BY <2>1, <2>2, <2>7, <3>2
      <4>2. QED
        BY <2>4, <3>1, <4>1
    <3>3. CASE ~Gone(k, p)
      <4>1. PICK i \in 1..(k + 1) : ops[i].type = "delete" /\ ops[i].path = p
        BY <2>7, <3>3
      <4>2. i = k + 1 /\ \A j \in DOMAIN ops : results[j] = "ZOK"
        <5>1. i \in 1..k \/ i = k + 1
          OBVIOUS
        <5>2. QED
          BY <2>7, <3>3, <4>1, <5>1
      <4>3. QED
        BY <2>2, <2>4, <2>5, <4>1, <4>2
    <3>4. QED
      BY <3>2, <3>3
  <2>8. QED
    BY <2>2, <2>4, <2>6, <2>7
<1> HIDE DEF S
<1>6. \A k \in Nat : k \in S
  BY <1>4, <1>5, SetInduction
<1>7. Kept(n)
  BY <1>1, <1>6 DEF S
<1>8. QED
  BY <1>1, <1>2, <1>7 DEF reg, Deletes

-----------------------------------------------------------------------------
(* The inductive invariant.                                                *)

\* What a call is made of.
CallOK(call, ops, ctx) ==
  /\ ctx.path # Absent => ctx.path \in PathsOf(ops)
  /\ call \in {"Create", "ACreate", "Set", "SetAcl", "ASet", "ASetAcl", "Delete", "ADelete",
               "CreateExistSkip", "CreateExistSkipSet"}
       => Len(ops) = 1 /\ ops[1].path \in Nodes
  /\ call \in {"Create", "ACreate"} => ops[1].type = "create"
  /\ call \in {"Set", "SetAcl", "ASet", "ASetAcl", "CreateExistSkipSet"} => ops[1].type = "set"
  /\ call \in {"Delete", "ADelete"} => ops[1].type = "delete"
  /\ call \in {"CreateExistSkip", "CreateExistSkipSet"} =>
       ctx.path = ops[1].path /\ ctx.info \in Info
  /\ call = "ADelete" => ctx.info = Absent
  /\ call \in {"CreatePathRecursion", "DeletePathRecursion"} => ctx.path = Absent
  /\ call = "DeletePathMulti" => \A k \in DOMAIN ops : ops[k].type = "delete"

IsAnswer(k) == completions[k].call \in AsyncCalls

CallsOK ==
  /\ \A k \in DOMAIN requests : CallOK(requests[k].call, requests[k].ops, requests[k].ctx)
  /\ \A k \in DOMAIN completions : IsAnswer(k) =>
       CallOK(completions[k].call, completions[k].ops, completions[k].ctx)
  /\ user.pc \in {"sent", "answered"} => CallOK(user.call, user.ops, user.ctx)
  /\ user.pc = "answered" /\ user.rc = "ZOK" =>
       \A k \in DOMAIN user.ops : user.results[k] = "ZOK"

\* A synchronous request is the last one, and the user thread waits for it.
SyncLast ==
  /\ \A k \in DOMAIN requests :
       requests[k].call \in AsyncCalls \/ (user.pc = "sent" /\ k = Len(requests))
  /\ user.pc = "sent" =>
       /\ requests # <<>>
       /\ requests[Len(requests)] = [call |-> user.call, ops |-> user.ops, ctx |-> user.ctx]

PipeInv == PipeTypes /\ CallsOK /\ SyncLast

\* Only what is remembered is created again.
ToResume == {p \in Nodes : Resuming /\ (p \in zk.todo \/ (zk.pc # "next" /\ p = zk.cur))}
ResumesOwn == \A p \in ToResume : m_ephemeral_node_info[p] # Absent

MemoryInv == MemoryTypes /\ ResumesOwn

\* While the environment is resumed, or a session has ended that will be, no call of
\* the user is under way but a synchronous one from before.
SessionsOK ==
  /\ Resuming => m_need_resume_env /\ user.pc = "idle"
  /\ m_need_resume_env \/ link = "expired" =>
       \A k \in DOMAIN requests : requests[k].call \notin AsyncCalls
  /\ m_need_resume_env => \A k \in DOMAIN completions : ~IsAnswer(k)
  /\ link = "up" => \A k \in DOMAIN completions : completions[k].call # "EXPIRED"
  /\ link = "expired" =>
       /\ completions # <<>>
       /\ \A k \in DOMAIN completions :
            completions[k].call = "EXPIRED" <=> k = Len(completions)

RequestOn(k, p) == p \in PathsOf(requests[k].ops)
AnswerOn(k, p) == IsAnswer(k) /\ p \in PathsOf(completions[k].ops)
UserCalls == user.pc \in {"sent", "answered"}
UserOn(p) ==
  UserCalls /\ \/ user.call \in {"DeletePathRecursion", "DeletePathMulti"}
               \/ p \in PathsOf(user.ops)

\* One call on a node is under way.
Alone(p) ==
  /\ \A j, k \in DOMAIN requests : RequestOn(j, p) /\ RequestOn(k, p) => j = k
  /\ \A j, k \in DOMAIN completions : AnswerOn(j, p) /\ AnswerOn(k, p) => j = k
  /\ \A j \in DOMAIN requests, k \in DOMAIN completions : ~(RequestOn(j, p) /\ AnswerOn(k, p))
  /\ UserOn(p) =>
       /\ \A k \in DOMAIN completions : ~AnswerOn(k, p)
       /\ \A k \in DOMAIN requests :
            RequestOn(k, p) => user.pc = "sent" /\ k = Len(requests)

\* A deleted node is neither there nor remembered, and no call brings it back.
Writes(call, ops, ctx, p) == Creates(ops, p) \/ (ctx.path = p /\ ctx.info # Absent)
Deleted(p) ==
  p \in deleted =>
    /\ tree[p] = Absent /\ m_ephemeral_node_info[p] = Absent
    /\ \A k \in DOMAIN requests : requests[k].call \in AsyncCalls =>
         ~Writes(requests[k].call, requests[k].ops, requests[k].ctx, p)
    /\ \A k \in DOMAIN completions : IsAnswer(k) =>
         ~Writes(completions[k].call, completions[k].ops, completions[k].ctx, p)
    /\ UserCalls => ~Creates(user.ops, p)
    /\ UserCalls /\ user.ctx.path = p =>
         user.call = "CreateExistSkip" /\ (user.pc = "answered" => user.rc # "ZOK")

\* A node that has been deleted, but whose call has not returned yet.
Leaving(p) ==
  /\ \A k \in DOMAIN completions :
       AnswerOn(k, p) /\ completions[k].call = "ADelete" /\ completions[k].rc = "ZOK"
         => tree[p] = Absent
  /\ \A k \in DOMAIN completions :
       AnswerOn(k, p) /\ completions[k].call = "ADelete" /\ completions[k].ctx.path = Absent
         => m_ephemeral_node_info[p] = Absent
  /\ \A k \in DOMAIN requests :
       RequestOn(k, p) /\ requests[k].call = "ADelete" /\ requests[k].ctx.path = Absent
         => m_ephemeral_node_info[p] = Absent
  /\ user.pc = "answered" /\ user.call \in {"Delete", "DeletePathMulti"} /\ user.rc = "ZOK"
     /\ p \in PathsOf(user.ops)
       => tree[p] = Absent

NodeInv(p) == Alone(p) /\ Deleted(p) /\ Leaving(p)

EphemeralInv == PipeInv /\ MemoryInv /\ SessionsOK /\ \A p \in Nodes : NodeInv(p)

-----------------------------------------------------------------------------
(* What is under way keeps its form.                                       *)

LEMMA CallsDiffer ==
  /\ AsyncCalls \intersect SyncCalls = {}
  /\ Connected.call \notin AsyncCalls /\ Expired.call \notin AsyncCalls
  /\ Connected # Expired /\ Connected.call = "CONNECTED" /\ Expired.call = "EXPIRED"
  BY DEF AsyncCalls, SyncCalls, Connected, Expired

LEMMA UserSays ==
  ASSUME user \in UserType
  PROVE  /\ user.pc \in {"idle", "erase", "sent", "answered"}
         /\ user.pc \in {"sent", "answered"} =>
              user.call \in SyncCalls /\ user.ops \in Seq(Ops) /\ user.ctx \in Ctxs
         /\ user.pc = "answered" =>
              user.rc \in RCs /\ user.results \in Seq(RCs) /\ user.view \subseteq Nodes
<1>1. CASE user \in {Idle} \union [pc : {"erase"}]
  BY <1>1 DEF Idle
<1>2. CASE user \in [pc : {"sent"}, call : SyncCalls, ops : Seq(Ops), ctx : Ctxs]
  BY <1>2
<1>3. CASE user \in [pc : {"answered"}, call : SyncCalls, ops : Seq(Ops), ctx : Ctxs, rc : RCs,
                     results : Seq(RCs), view : SUBSET Nodes]
  BY <1>3
<1>4. QED
  BY <1>1, <1>2, <1>3 DEF UserType

LEMMA PipeSays ==
  ASSUME PipeTypes
  PROVE  /\ Len(requests) \in Nat /\ DOMAIN requests = 1..Len(requests)
         /\ Len(completions) \in Nat /\ DOMAIN completions = 1..Len(completions)
         /\ \A k \in DOMAIN requests :
              /\ requests[k] \in RequestType /\ requests[k].call \in AsyncCalls \union SyncCalls
              /\ requests[k].ops \in Seq(Ops) /\ requests[k].ctx \in Ctxs
         /\ \A k \in DOMAIN completions :
              /\ completions[k] \in AnswerType \union {Connected, Expired}
              /\ ~IsAnswer(k) => completions[k] \in {Connected, Expired}
              /\ IsAnswer(k) => /\ completions[k] \notin {Connected, Expired}
                                /\ completions[k].ops \in Seq(Ops) /\ completions[k].ctx \in Ctxs
<1>1. /\ Len(requests) \in Nat /\ DOMAIN requests = 1..Len(requests)
      /\ Len(completions) \in Nat /\ DOMAIN completions = 1..Len(completions)
      /\ \A k \in DOMAIN requests : requests[k] \in RequestType
      /\ \A k \in DOMAIN completions : completions[k] \in AnswerType \union {Connected, Expired}
  BY LenProperties, ElementOfSeq DEF PipeTypes
<1>2. \A k \in DOMAIN requests :
        /\ requests[k].call \in AsyncCalls \union SyncCalls
        /\ requests[k].ops \in Seq(Ops) /\ requests[k].ctx \in Ctxs
  BY <1>1 DEF RequestType
<1>3. ASSUME NEW k \in DOMAIN completions
      PROVE  /\ ~IsAnswer(k) => completions[k] \in {Connected, Expired}
             /\ IsAnswer(k) => /\ completions[k] \notin {Connected, Expired}
                               /\ completions[k].ops \in Seq(Ops) /\ completions[k].ctx \in Ctxs
  <2>1. CASE completions[k] \in AnswerType
    <3>1. completions[k].call \in AsyncCalls /\ completions[k].ops \in Seq(Ops)
          /\ completions[k].ctx \in Ctxs
      BY <2>1 DEF AnswerType
    <3>2. QED
      BY <3>1, CallsDiffer DEF IsAnswer
  <2>2. CASE completions[k] \in {Connected, Expired}
    BY <2>2, CallsDiffer DEF IsAnswer
  <2>3. QED
    BY <1>1, <2>1, <2>2
<1>4. QED
  BY <1>1, <1>2, <1>3

\* A call is sent.
LEMMA PipeSend ==
  ASSUME PipeInv, user.pc \in {"idle", "answered"}, completions' = completions,
         NEW call \in AsyncCalls \union SyncCalls, NEW ops \in Seq(Ops), NEW ctx \in Ctxs,
         CallOK(call, ops, ctx), call \in AsyncCalls => user.pc = "idle",
         Send(call, ops, ctx)
  PROVE  PipeInv'
<1> DEFINE r == [call |-> call, ops |-> ops, ctx |-> ctx]
<1>1. /\ PipeTypes /\ requests \in Seq(RequestType) /\ user \in UserType
      /\ completions \in Seq(AnswerType \union {Connected, Expired})
  BY DEF PipeInv, PipeTypes
<1>2. r \in RequestType
  BY DEF RequestType
<1>3. requests' = Append(requests, r) /\ r.call = call /\ r.ops = ops /\ r.ctx = ctx
  BY DEF Send
<1>4. \/ call \in AsyncCalls /\ user' = user
      \/ call \in SyncCalls /\ call \notin AsyncCalls
         /\ user' = [pc |-> "sent", call |-> call, ops |-> ops, ctx |-> ctx]
  BY CallsDiffer DEF Send
<1> HIDE DEF r
<1>5. /\ requests' \in Seq(RequestType) /\ Len(requests') = Len(requests) + 1
      /\ DOMAIN requests' = 1..(Len(requests) + 1) /\ requests' # <<>>
      /\ requests'[Len(requests) + 1] = r
      /\ \A k \in 1..Len(requests) : requests'[k] = requests[k]
  <2>1. requests' # <<>>
    BY <1>1, <1>2, <1>3, AppendProperties
  <2>2. QED
    BY <1>1, <1>2, <1>3, <2>1, AppendProperties
<1>6. PipeTypes'
  <2>1. user' \in UserType
    BY <1>1, <1>4 DEF UserType
  <2>2. QED
    BY <1>1, <1>5, <2>1 DEF PipeTypes
<1>7. CallsOK'
  <2>1. \A k \in DOMAIN requests' : CallOK(requests'[k].call, requests'[k].ops, requests'[k].ctx)
    <3> TAKE k \in DOMAIN requests'
    <3>1. k \in 1..Len(requests) \/ k = Len(requests) + 1
      BY <1>1, <1>5, PipeSays
    <3>2. k \in 1..Len(requests) => k \in DOMAIN requests
      BY <1>1, PipeSays
    <3>3. QED
      BY <1>3, <1>5, <3>1, <3>2 DEF PipeInv, CallsOK
  <2>2. user'.pc \in {"sent", "answered"} => CallOK(user'.call, user'.ops, user'.ctx)
    BY <1>4 DEF PipeInv, CallsOK
  <2>3. user'.pc = "answered" /\ user'.rc = "ZOK" =>
          \A k \in DOMAIN user'.ops : user'.results[k] = "ZOK"
    BY <1>4 DEF PipeInv, CallsOK
  <2>4. \A k \in DOMAIN completions' : IsAnswer(k)' =>
          CallOK(completions'[k].call, completions'[k].ops, completions'[k].ctx)
    BY DEF PipeInv, CallsOK, IsAnswer
  <2>5. QED
    BY <2>1, <2>2, <2>3, <2>4 DEF CallsOK
<1>8. SyncLast'
  <2>1. \A k \in 1..Len(requests) : requests[k].call \in AsyncCalls
    BY <1>1, PipeSays DEF PipeInv, SyncLast
  <2>2. \A k \in DOMAIN requests' :
          requests'[k].call \in AsyncCalls \/ (user'.pc = "sent" /\ k = Len(requests'))
    <3> TAKE k \in DOMAIN requests'
    <3>1. k \in 1..Len(requests) \/ k = Len(requests) + 1
      BY <1>1, <1>5, PipeSays
    <3>2. QED
      BY <1>3, <1>4, <1>5, <2>1, <3>1
  <2>3. user'.pc = "sent" =>
          requests'[Len(requests')] = [call |-> user'.call, ops |-> user'.ops, ctx |-> user'.ctx]
    BY <1>4, <1>5 DEF r
  <2>4. QED
    BY <1>5, <2>2, <2>3 DEF SyncLast
<1>9. QED
  BY <1>6, <1>7, <1>8 DEF PipeInv

\* A call is refused.
LEMMA PipeRefuse ==
  ASSUME PipeInv, user.pc \in {"idle", "answered"}, completions' = completions,
         NEW call \in SyncCalls, NEW ops \in Seq(Ops), NEW ctx \in Ctxs,
         CallOK(call, ops, ctx), Refuse(call, ops, ctx)
  PROVE  PipeInv'
<1>1. /\ requests' = requests
      /\ user' = [pc |-> "answered", call |-> call, ops |-> ops, ctx |-> ctx,
                  rc |-> "ZINVALIDSTATE", results |-> Unanswered(ops), view |-> {}]
  BY DEF Refuse
<1>2. Unanswered(ops) \in Seq(RCs)
  <2>1. Len(ops) \in Nat
    BY LenProperties
  <2>2. \A n \in Nat : [k \in 1..n |-> "ZOK"] \in Seq(RCs)
    <3>1. "ZOK" \in RCs
      BY DEF RCs
    <3>2. QED
      BY <3>1
  <2>3. QED
    BY <2>1, <2>2 DEF Unanswered
<1>3. user' \in UserType
  <2>1. "ZINVALIDSTATE" \in RCs
    BY DEF RCs
  <2>2. QED
    BY <1>1, <1>2, <2>1 DEF UserType
<1>4. PipeTypes'
  BY <1>1, <1>3 DEF PipeInv, PipeTypes
<1>5. CallsOK'
  BY <1>1 DEF PipeInv, CallsOK, IsAnswer
<1>6. SyncLast'
  BY <1>1 DEF PipeInv, SyncLast
<1>7. QED
  BY <1>4, <1>5, <1>6 DEF PipeInv

\* The user thread is done with a call.
LEMMA PipeDone ==
  ASSUME PipeInv, user.pc # "sent", UNCHANGED pipe, user' \in {Idle, [pc |-> "erase"]}
  PROVE  PipeInv'
<1>1. user'.pc \in {"idle", "erase"} /\ user' \in UserType
  BY DEF Idle, UserType
<1>2. requests' = requests /\ completions' = completions
  BY DEF pipe
<1>3. PipeTypes'
  BY <1>1, <1>2 DEF PipeInv, PipeTypes
<1>4. CallsOK'
  BY <1>1, <1>2 DEF PipeInv, CallsOK, IsAnswer
<1>5. SyncLast'
  BY <1>1, <1>2 DEF PipeInv, SyncLast
<1>6. QED
  BY <1>3, <1>4, <1>5 DEF PipeInv

\* The zk thread takes an answer or an event, or an event comes.
LEMMA PipeCompletions ==
  ASSUME PipeInv, UNCHANGED <<requests, user>>,
         completions' \in Seq(AnswerType \union {Connected, Expired}),
         \A k \in DOMAIN completions' : completions'[k].call \in AsyncCalls =>
           \E j \in DOMAIN completions : completions'[k] = completions[j]
  PROVE  PipeInv'
<1>1. PipeTypes'
  BY DEF PipeInv, PipeTypes
<1>2. CallsOK'
  <2>1. \A k \in DOMAIN completions' : IsAnswer(k)' =>
          CallOK(completions'[k].call, completions'[k].ops, completions'[k].ctx)
    BY DEF PipeInv, CallsOK, IsAnswer
  <2>2. QED
    BY <2>1 DEF PipeInv, CallsOK
<1>3. SyncLast'
  BY DEF PipeInv, SyncLast
<1>4. QED
  BY <1>1, <1>2, <1>3 DEF PipeInv

\* The oldest request, and what stays behind it.
LEMMA TailSays ==
  ASSUME NEW S, NEW s \in Seq(S), s # <<>>
  PROVE  /\ Head(s) \in S /\ Head(s) = s[1] /\ 1 \in DOMAIN s /\ Tail(s) \in Seq(S)
         /\ Len(s) \in Nat /\ Len(s) >= 1 /\ DOMAIN s = 1..Len(s)
         /\ Len(Tail(s)) = Len(s) - 1 /\ DOMAIN Tail(s) = 1..(Len(s) - 1)
         /\ \A k \in DOMAIN Tail(s) : k + 1 \in DOMAIN s /\ Tail(s)[k] = s[k + 1]
  BY HeadTailProperties, LenProperties

LEMMA AppendSays ==
  ASSUME NEW S, NEW s \in Seq(S), NEW e \in S
  PROVE  /\ Append(s, e) \in Seq(S) /\ Len(s) \in Nat /\ Len(Append(s, e)) = Len(s) + 1
         /\ DOMAIN Append(s, e) = 1..(Len(s) + 1) /\ DOMAIN s = 1..Len(s)
         /\ Append(s, e)[Len(s) + 1] = e
         /\ \A k \in DOMAIN s : Append(s, e)[k] = s[k]
         /\ \A k \in DOMAIN Append(s, e) : k \in DOMAIN s \/ k = Len(s) + 1
<1>1. /\ Append(s, e) \in Seq(S) /\ Len(s) \in Nat /\ Len(Append(s, e)) = Len(s) + 1
      /\ DOMAIN s = 1..Len(s) /\ Append(s, e)[Len(s) + 1] = e
      /\ \A k \in 1..Len(s) : Append(s, e)[k] = s[k]
  BY AppendProperties, LenProperties
<1>2. DOMAIN Append(s, e) = 1..(Len(s) + 1)
  BY <1>1, LenProperties
<1>3. QED
  BY <1>1, <1>2

\* The server answers the oldest request.
LEMMA ServeSays ==
  ASSUME PipeInv, tree \in Trees, Serve
  PROVE  /\ requests # <<>> /\ 1 \in DOMAIN requests
         /\ tree' = Execute(requests[1].ops, tree).tree
         /\ requests' = Tail(requests)
         /\ \/ /\ requests[1].call \in AsyncCalls /\ user' = user
               /\ completions' = Append(completions,
                    [call |-> requests[1].call, ops |-> requests[1].ops,
                     ctx |-> requests[1].ctx, rc |-> Execute(requests[1].ops, tree).rc,
                     results |-> Execute(requests[1].ops, tree).results])
            \/ /\ requests[1].call \notin AsyncCalls /\ user.pc = "sent" /\ Len(requests) = 1
               /\ requests[1] = [call |-> user.call, ops |-> user.ops, ctx |-> user.ctx]
               /\ completions' = completions
               /\ user' = [pc |-> "answered", call |-> user.call, ops |-> user.ops,
                           ctx |-> user.ctx, rc |-> Execute(user.ops, tree).rc,
                           results |-> Execute(user.ops, tree).results,
                           view |-> Existing(tree)]
<1>1. requests # <<>> /\ requests \in Seq(RequestType)
  BY DEF PipeInv, PipeTypes, Serve
<1>2. Head(requests) = requests[1] /\ 1 \in DOMAIN requests /\ DOMAIN requests = 1..Len(requests)
  BY <1>1, TailSays
<1>3. /\ tree' = Execute(requests[1].ops, tree).tree /\ requests' = Tail(requests)
      /\ IF requests[1].call \in AsyncCalls
         THEN /\ completions' = Append(completions,
                    [call |-> requests[1].call, ops |-> requests[1].ops,
                     ctx |-> requests[1].ctx, rc |-> Execute(requests[1].ops, tree).rc,
                     results |-> Execute(requests[1].ops, tree).results])
              /\ user' = user
         ELSE /\ Answer(Execute(requests[1].ops, tree).rc,
                        Execute(requests[1].ops, tree).results, Existing(tree))
              /\ UNCHANGED completions
  BY <1>2 DEF Serve
<1>4. CASE requests[1].call \in AsyncCalls
  BY <1>1, <1>2, <1>3, <1>4
<1>5. CASE requests[1].call \notin AsyncCalls
  <2>1. /\ user.pc = "sent" /\ Len(requests) = 1
        /\ requests[Len(requests)] = [call |-> user.call, ops |-> user.ops, ctx |-> user.ctx]
    BY <1>2, <1>5 DEF PipeInv, SyncLast
  <2>2. requests[1] = [call |-> user.call, ops |-> user.ops, ctx |-> user.ctx]
    BY <2>1
  <2>3. requests[1].ops = user.ops
    BY <2>2
  <2>4. user' = [pc |-> "answered", call |-> user.call, ops |-> user.ops,
                           ctx |-> user.ctx, rc |-> Execute(user.ops, tree).rc,
                           results |-> Execute(user.ops, tree).results,
                           view |-> Existing(tree)]
    BY <1>3, <1>5, <2>3 DEF Answer
  <2>5. QED
    BY <1>1, <1>2, <1>3, <1>5, <2>1, <2>2, <2>4
<1>6. QED
  BY <1>4, <1>5

LEMMA PipeServe ==
  ASSUME PipeInv, tree \in Trees, Serve
  PROVE  PipeInv'
<1>1. /\ PipeTypes /\ requests \in Seq(RequestType) /\ user \in UserType
      /\ completions \in Seq(AnswerType \union {Connected, Expired})
  BY DEF PipeInv, PipeTypes
<1>2. requests # <<>> /\ 1 \in DOMAIN requests /\ requests' = Tail(requests)
  BY ServeSays
<1>3. /\ requests' \in Seq(RequestType) /\ Len(requests') = Len(requests) - 1
      /\ DOMAIN requests' = 1..(Len(requests) - 1) /\ DOMAIN requests = 1..Len(requests)
      /\ Len(requests) \in Nat /\ Len(requests) >= 1
      /\ \A k \in DOMAIN requests' : k + 1 \in DOMAIN requests /\ requests'[k] = requests[k + 1]
  BY <1>1, <1>2, TailSays
<1>4. PICK ops \in Seq(Ops) : ops = requests[1].ops
  BY <1>1, <1>2, PipeSays
<1>5. /\ Execute(ops, tree).rc \in RCs /\ Execute(ops, tree).results \in Seq(RCs)
      /\ Execute(ops, tree).rc = "ZOK" =>
              \A k \in DOMAIN ops : Execute(ops, tree).results[k] = "ZOK"
  BY ExecuteIs, ExecuteSays
<1>6. \A k \in DOMAIN requests' :
        CallOK(requests'[k].call, requests'[k].ops, requests'[k].ctx)
  BY <1>3 DEF PipeInv, CallsOK
<1>7. CASE /\ requests[1].call \in AsyncCalls /\ user' = user
           /\ completions' = Append(completions,
                [call |-> requests[1].call, ops |-> requests[1].ops,
                 ctx |-> requests[1].ctx, rc |-> Execute(requests[1].ops, tree).rc,
                 results |-> Execute(requests[1].ops, tree).results])
  <2> DEFINE a == [call |-> requests[1].call, ops |-> ops,
                   ctx |-> requests[1].ctx, rc |-> Execute(ops, tree).rc,
                   results |-> Execute(ops, tree).results]
  <2>1. completions' = Append(completions, a)
    BY <1>4, <1>7
  <2>2. a \in AnswerType \union {Connected, Expired}
    BY <1>1, <1>2, <1>5, <1>7, PipeSays DEF AnswerType
  <2>3. CallOK(a.call, a.ops, a.ctx)
    BY <1>2, <1>4 DEF PipeInv, CallsOK
  <2> HIDE DEF a
  <2>4. /\ completions' \in Seq(AnswerType \union {Connected, Expired})
        /\ completions'[Len(completions) + 1] = a
        /\ \A k \in DOMAIN completions : completions'[k] = completions[k]
        /\ \A k \in DOMAIN completions' : k \in DOMAIN completions \/ k = Len(completions) + 1
    BY <1>1, <2>1, <2>2, AppendSays
  <2>5. PipeTypes'
    BY <1>1, <1>3, <1>7, <2>4 DEF PipeTypes
  <2>6. CallsOK'
    <3>1. \A k \in DOMAIN completions' : IsAnswer(k)' =>
            CallOK(completions'[k].call, completions'[k].ops, completions'[k].ctx)
      BY <2>3, <2>4 DEF PipeInv, CallsOK, IsAnswer
    <3>2. QED
      BY <1>6, <1>7, <3>1 DEF PipeInv, CallsOK
  <2>7. SyncLast'
    <3>1. user.pc = "sent" => Len(requests) # 1
      <4>1. user.pc = "sent" /\ Len(requests) = 1 => requests[1].call \in SyncCalls
        BY <1>1, UserSays DEF PipeInv, SyncLast
      <4>2. QED
        BY <1>7, <4>1, CallsDiffer
    <3>2. user.pc = "sent" => requests' # <<>> /\ requests'[Len(requests')] = requests[Len(requests)]
      BY <1>3, <3>1
    <3>3. QED
      BY <1>3, <1>7, <3>2 DEF PipeInv, SyncLast
  <2>8. QED
    BY <2>5, <2>6, <2>7 DEF PipeInv
<1>8. CASE /\ requests[1].call \notin AsyncCalls /\ user.pc = "sent" /\ Len(requests) = 1
           /\ requests[1] = [call |-> user.call, ops |-> user.ops, ctx |-> user.ctx]
           /\ completions' = completions
           /\ user' = [pc |-> "answered", call |-> user.call, ops |-> user.ops,
                       ctx |-> user.ctx, rc |-> Execute(user.ops, tree).rc,
                       results |-> Execute(user.ops, tree).results,
                       view |-> Existing(tree)]
  <2>1. user.ops = ops
    BY <1>4, <1>8
  <2>2. Existing(tree) \subseteq Nodes
    BY DEF Existing
  <2>3. /\ user'.pc = "answered" /\ user'.call = user.call /\ user'.ops = ops
        /\ user'.ctx = user.ctx /\ user'.rc = Execute(ops, tree).rc
        /\ user'.results = Execute(ops, tree).results
    BY <1>8, <2>1
  <2>4. user' \in [pc : {"answered"}, call : SyncCalls, ops : Seq(Ops), ctx : Ctxs, rc : RCs,
                   results : Seq(RCs), view : SUBSET Nodes]
    BY <1>1, <1>5, <1>8, <2>1, <2>2, UserSays
  <2>5. PipeTypes'
    BY <1>1, <1>3, <1>8, <2>4 DEF PipeTypes, UserType
  <2>6. CallsOK'
    <3>1. CallOK(user'.call, user'.ops, user'.ctx)
      BY <1>8, <2>1, <2>3 DEF PipeInv, CallsOK
    <3>2. user'.rc = "ZOK" => \A k \in DOMAIN user'.ops : user'.results[k] = "ZOK"
      BY <1>5, <2>3
    <3>3. \A k \in DOMAIN completions' : IsAnswer(k)' =>
            CallOK(completions'[k].call, completions'[k].ops, completions'[k].ctx)
      BY <1>8 DEF PipeInv, CallsOK, IsAnswer
    <3>4. QED
      BY <1>6, <3>1, <3>2, <3>3 DEF CallsOK
  <2>7. SyncLast'
    BY <1>3, <1>8, <2>3 DEF SyncLast
  <2>8. QED
    BY <2>5, <2>6, <2>7 DEF PipeInv
<1>9. QED
  BY <1>7, <1>8, ServeSays

\* Every request fails.
LEMMA AnswersSay ==
  ASSUME PipeInv, NEW rc \in RCs
  PROVE  /\ Answers(rc) \in Seq(AnswerType \union {Connected, Expired})
         /\ Len(Answers(rc)) <= Len(requests) /\ DOMAIN Answers(rc) = 1..Len(Answers(rc))
         /\ Len(Answers(rc)) \in Nat
         /\ \A k \in DOMAIN Answers(rc) :
              /\ k \in DOMAIN requests /\ requests[k].call \in AsyncCalls
              /\ Answers(rc)[k].call = requests[k].call /\ Answers(rc)[k].ops = requests[k].ops
              /\ Answers(rc)[k].ctx = requests[k].ctx /\ Answers(rc)[k].rc = rc
<1> DEFINE n == IF user.pc = "sent" THEN Len(requests) - 1 ELSE Len(requests)
           a(k) == [call |-> requests[k].call, ops |-> requests[k].ops, ctx |-> requests[k].ctx,
                    rc |-> rc, results |-> Unanswered(requests[k].ops)]
<1>1. PipeTypes /\ requests \in Seq(RequestType) /\ Len(requests) \in Nat
      /\ DOMAIN requests = 1..Len(requests)
  BY PipeSays DEF PipeInv, PipeTypes
<1>2. n \in Nat /\ n <= Len(requests)
  BY <1>1, TailSays DEF PipeInv, SyncLast
<1>3. \A k \in 1..n : k \in DOMAIN requests /\ requests[k].call \in AsyncCalls
  BY <1>1, <1>2 DEF PipeInv, SyncLast
<1>4. Answers(rc) = [k \in 1..n |-> a(k)]
  BY DEF Answers
<1> HIDE DEF n
<1>5. ASSUME NEW k \in 1..n PROVE a(k) \in AnswerType
  <2>1. PICK ops \in Seq(Ops) : ops = requests[k].ops
    BY <1>1, <1>3, PipeSays
  <2>2. Unanswered(ops) \in Seq(RCs)
    <3>1. Len(ops) \in Nat /\ [i \in 1..Len(ops) |-> "ZOK"] \in [1..Len(ops) -> RCs]
      BY LenProperties DEF RCs
    <3>2. QED
      BY <3>1, SeqDef DEF Unanswered
  <2>3. QED
    BY <1>1, <1>3, <2>1, <2>2, PipeSays DEF AnswerType
<1>6. [k \in 1..n |-> a(k)] \in [1..n -> AnswerType \union {Connected, Expired}]
  BY <1>5
<1>7. Answers(rc) \in Seq(AnswerType \union {Connected, Expired}) /\ Len(Answers(rc)) = n
  <2> DEFINE s == [k \in 1..n |-> a(k)]
  <2>1. s \in [1..n -> AnswerType \union {Connected, Expired}] /\ DOMAIN s = 1..n
    BY <1>6
  <2> HIDE DEF s
  <2>2. s \in Seq(AnswerType \union {Connected, Expired})
    BY <1>2, <2>1, SeqDef
  <2>3. Len(s) = n
    BY <1>2, <2>1, <2>2, LenProperties
  <2>4. QED
    BY <1>4, <2>2, <2>3 DEF s
<1>8. QED
  BY <1>2, <1>3, <1>4, <1>7

\* The completions after every request has failed.
LEMMA FailSays ==
  ASSUME PipeInv, NEW rc \in RCs, NEW event \in {Connected, Expired}, FailAll(rc, event)
  PROVE  /\ requests' = <<>>
         /\ completions' \in Seq(AnswerType \union {Connected, Expired}) /\ completions' # <<>>
         /\ Len(completions') \in Nat /\ DOMAIN completions' = 1..Len(completions')
         /\ completions'[Len(completions')] = event
         /\ \A k \in DOMAIN completions' :
              k # Len(completions') =>
              \/ k \in DOMAIN completions /\ completions'[k] = completions[k]
              \/ /\ k - Len(completions) \in DOMAIN requests
                 /\ ~(k \in DOMAIN completions)
                 /\ requests[k - Len(completions)].call \in AsyncCalls
                 /\ completions'[k].call = requests[k - Len(completions)].call
                 /\ completions'[k].ops = requests[k - Len(completions)].ops
                 /\ completions'[k].ctx = requests[k - Len(completions)].ctx
                 /\ completions'[k].rc = rc
<1> DEFINE T == AnswerType \union {Connected, Expired}
           a == Answers(rc)
           c == completions
<1>1. c \in Seq(T) /\ Len(c) \in Nat /\ DOMAIN c = 1..Len(c)
  BY LenProperties DEF PipeInv, PipeTypes
<1>2. /\ a \in Seq(T) /\ Len(a) \in Nat /\ DOMAIN a = 1..Len(a)
      /\ \A k \in DOMAIN a :
           /\ k \in DOMAIN requests /\ requests[k].call \in AsyncCalls
           /\ a[k].call = requests[k].call /\ a[k].ops = requests[k].ops
           /\ a[k].ctx = requests[k].ctx /\ a[k].rc = rc
  BY AnswersSay
<1>3. requests' = <<>> /\ completions' = Append(c \o a, event) /\ event \in T
  BY DEF FailAll
<1> HIDE DEF T, a
<1>4. /\ c \o a \in Seq(T) /\ Len(c \o a) = Len(c) + Len(a)
      /\ \A k \in 1..(Len(c) + Len(a)) :
           (c \o a)[k] = IF k <= Len(c) THEN c[k] ELSE a[k - Len(c)]
  BY <1>1, <1>2, ConcatProperties
<1>5. /\ completions' \in Seq(T) /\ Len(completions') = Len(c) + Len(a) + 1
      /\ DOMAIN completions' = 1..Len(completions')
      /\ completions'[Len(completions')] = event
      /\ \A k \in 1..(Len(c) + Len(a)) : completions'[k] = (c \o a)[k]
  BY <1>1, <1>2, <1>3, <1>4, AppendSays
<1>6. ASSUME NEW k \in DOMAIN completions', k # Len(completions')
      PROVE  \/ k \in DOMAIN completions /\ completions'[k] = completions[k]
             \/ /\ k - Len(completions) \in DOMAIN requests
                /\ ~(k \in DOMAIN completions)
                /\ requests[k - Len(completions)].call \in AsyncCalls
                /\ completions'[k].call = requests[k - Len(completions)].call
                /\ completions'[k].ops = requests[k - Len(completions)].ops
                /\ completions'[k].ctx = requests[k - Len(completions)].ctx
                /\ completions'[k].rc = rc
  <2>1. k \in 1..(Len(c) + Len(a)) /\ completions'[k] = IF k <= Len(c) THEN c[k] ELSE a[k - Len(c)]
    BY <1>1, <1>2, <1>4, <1>5, <1>6
  <2>2. CASE k <= Len(c)
    BY <1>1, <2>1, <2>2
  <2>3. CASE ~(k <= Len(c))
    <3>1. k - Len(c) \in DOMAIN a /\ k \notin DOMAIN c /\ completions'[k] = a[k - Len(c)]
      BY <1>1, <1>2, <2>1, <2>3
    <3>2. QED
      BY <1>2, <3>1
  <2>4. QED
    BY <2>2, <2>3
<1>7. completions' # <<>> /\ Len(completions') \in Nat
  BY <1>1, <1>2, <1>5
<1>8. QED
  BY <1>3, <1>5, <1>6, <1>7 DEF T

LEMMA PipeFail ==
  ASSUME PipeInv, NEW rc \in RCs, rc # "ZOK", NEW event \in {Connected, Expired},
         FailAll(rc, event)
  PROVE  PipeInv'
<1>1. /\ PipeTypes /\ requests \in Seq(RequestType) /\ user \in UserType
      /\ completions \in Seq(AnswerType \union {Connected, Expired})
  BY DEF PipeInv, PipeTypes
<1>2. /\ requests' = <<>>
      /\ completions' \in Seq(AnswerType \union {Connected, Expired})
      /\ completions'[Len(completions')] = event
  BY FailSays
<1>3. \/ user' = user /\ user.pc # "sent"
      \/ /\ user.pc = "sent"
         /\ user' = [pc |-> "answered", call |-> user.call, ops |-> user.ops,
                     ctx |-> user.ctx, rc |-> rc, results |-> Unanswered(user.ops), view |-> {}]
  BY DEF FailAll, Answer
<1>4. user' \in UserType /\ user'.pc # "sent"
  <2>1. CASE user' = user /\ user.pc # "sent"
    BY <1>1, <2>1
  <2>2. CASE /\ user.pc = "sent"
             /\ user' = [pc |-> "answered", call |-> user.call, ops |-> user.ops,
                     ctx |-> user.ctx, rc |-> rc, results |-> Unanswered(user.ops), view |-> {}]
    <3>1. PICK ops \in Seq(Ops) : ops = user.ops
      BY <1>1, <2>2, UserSays
    <3>2. Unanswered(ops) \in Seq(RCs)
      <4>1. Len(ops) \in Nat /\ [i \in 1..Len(ops) |-> "ZOK"] \in [1..Len(ops) -> RCs]
        BY LenProperties DEF RCs
      <4>2. QED
        BY <4>1, SeqDef DEF Unanswered
    <3>3. user' \in [pc : {"answered"}, call : SyncCalls, ops : Seq(Ops), ctx : Ctxs, rc : RCs,
                     results : Seq(RCs), view : SUBSET Nodes]
      BY <1>1, <2>2, <3>1, <3>2, UserSays
    <3>4. QED
      BY <2>2, <3>3 DEF UserType
  <2>3. QED
    BY <1>3, <2>1, <2>2
<1>5. PipeTypes'
  BY <1>1, <1>2, <1>4 DEF PipeTypes
<1>6. CallsOK'
  <2>1. \A k \in DOMAIN completions' : IsAnswer(k)' =>
            CallOK(completions'[k].call, completions'[k].ops, completions'[k].ctx)
    <3> SUFFICES ASSUME NEW k \in DOMAIN completions', IsAnswer(k)'
                 PROVE  CallOK(completions'[k].call, completions'[k].ops, completions'[k].ctx)
      OBVIOUS
    <3>1. k # Len(completions')
      BY <1>2, CallsDiffer DEF IsAnswer
    <3>2. QED
      BY <3>1, FailSays DEF PipeInv, CallsOK, IsAnswer
  <2>2. user'.pc \in {"sent", "answered"} => CallOK(user'.call, user'.ops, user'.ctx)
    BY <1>3 DEF PipeInv, CallsOK
  <2>3. user'.pc = "answered" /\ user'.rc = "ZOK" =>
          \A k \in DOMAIN user'.ops : user'.results[k] = "ZOK"
    BY <1>3 DEF PipeInv, CallsOK
  <2>4. QED
    BY <1>2, <2>1, <2>2, <2>3 DEF CallsOK
<1>7. SyncLast'
  BY <1>2, <1>4 DEF SyncLast
<1>8. QED
  BY <1>5, <1>6, <1>7 DEF PipeInv

-----------------------------------------------------------------------------
(* The steps of the threads, by what they do to the pipe and the registry. *)

LEMMA OneOp ==
  ASSUME NEW op \in Ops
  PROVE  /\ <<op>> \in Seq(Ops) /\ Len(<<op>>) = 1 /\ DOMAIN <<op>> = {1} /\ <<op>>[1] = op
         /\ PathsOf(<<op>>) = {op.path}
         /\ \A p : Creates(<<op>>, p) <=> op.type = "create" /\ op.path = p
<1>1. <<op>> \in Seq(Ops) /\ Len(<<op>>) = 1 /\ <<op>>[1] = op
  OBVIOUS
<1>2. DOMAIN <<op>> = {1}
  BY <1>1, LenProperties
<1>3. QED
  BY <1>1, <1>2 DEF PathsOf, Creates

LEMMA NodeOpsSay ==
  /\ \A p \in Nodes, i \in Info : CreateOp(p, i) \in Ops
  /\ \A p \in Nodes, v \in Values : SetOp(p, "Data", v) \in Ops /\ SetOp(p, "Acl", v) \in Ops
  /\ \A p \in Nodes : DeleteOp(p) \in Ops /\ CheckOp(p) \in Ops
  /\ CreateOp(Parent, Plain) \in Ops /\ DeleteOp(Parent) \in Ops /\ CheckOp(Parent) \in Ops
  /\ NodeOps \subseteq Ops
  BY DEF Ops, NodeOps

LEMMA RegistrySays ==
  ASSUME m_ephemeral_node_info \in Registries
  PROVE  /\ DOMAIN m_ephemeral_node_info = Nodes
         /\ m_ephemeral_node_info = [q \in Nodes |-> m_ephemeral_node_info[q]]
         /\ \A p \in Nodes : m_ephemeral_node_info[p] \in Info \union {Absent}
         /\ \A p \in Nodes, i \in Info \union {Absent} :
              /\ [m_ephemeral_node_info EXCEPT ![p] = i] \in Registries
              /\ [m_ephemeral_node_info EXCEPT ![p] = i][p] = i
              /\ \A q \in Nodes : q # p =>
                   [m_ephemeral_node_info EXCEPT ![p] = i][q] = m_ephemeral_node_info[q]
  BY DEF Registries

\* The user thread makes a call.
CallSays(call, ops, ctx) ==
  /\ CallOK(call, ops, ctx)
  /\ call \notin {"CreateExistSkipSet", "CreatePathMulti", "DeletePathMulti"}
  /\ call \in SyncCalls /\ ctx.path # Absent => call = "CreateExistSkip"
  /\ \A p \in Nodes : ctx.path = p /\ ctx.info # Absent =>
       \/ Creates(ops, p) \/ m_ephemeral_node_info[p] # Absent \/ call = "CreateExistSkip"
  /\ \A p \in Nodes : call = "ADelete" /\ ctx.path = Absent /\ p \in PathsOf(ops) =>
       m_ephemeral_node_info[p] = Absent
Called ==
  \E call \in AsyncCalls \union SyncCalls, ops \in Seq(Ops), ctx \in Ctxs :
    Call(call, ops, ctx) /\ CallSays(call, ops, ctx)

\* On an expired session Multi is refused, and so is the next request of a call that
\* makes several.
Refused ==
  /\ link = "expired" /\ user.pc \in {"idle", "answered"}
  /\ UNCHANGED <<server, requests, completions, registry, zk, doubt, orphans>>
  /\ deleted' \subseteq deleted
  /\ \E call \in SyncCalls, ops \in Seq(Ops), ctx \in Ctxs :
       /\ Refuse(call, ops, ctx) /\ CallOK(call, ops, ctx)
       /\ \A p \in deleted' : ~Creates(ops, p)
       /\ user.pc = "idle" =>
            /\ ctx = NoCtx /\ call = "Multi"
            /\ OneAtATime => ~Outstanding(PathsOf(ops))
            /\ ResumeWaits => ~m_need_resume_env /\ ~Resuming
       /\ user.pc = "answered" =>
            /\ ctx = user.ctx /\ call # "DeletePathRecursion" /\ ~Resuming
            /\ user.call = "CreateExistSkip" => user.rc = "ZOK"
            /\ IF call = "DeletePathMulti" THEN user.call = "DeletePathRecursion"
               ELSE \A p \in PathsOf(ops) \intersect Nodes : p \in PathsOf(user.ops)

LEMMA CtxSays ==
  /\ NoCtx \in Ctxs /\ NoCtx.path = Absent /\ NoCtx.info = Absent
  /\ \A p \in Nodes, i \in Info \union {Absent} : [path |-> p, info |-> i] \in Ctxs
  BY DEF NoCtx, Ctxs

LEMMA UserCallSays ==
  ASSUME MemoryTypes, UserCall
  PROVE  Called \/ Refused
<1> USE NodeOpsSay
<1>r. m_ephemeral_node_info \in Registries
  BY DEF MemoryTypes
<1>n. \A p \in Nodes : p # Absent
  BY NamesDiffer
<1>1. ASSUME NEW p \in Nodes, NEW i \in Info, Create(p, i) PROVE Called
  <2>1. CallSays("Create", <<CreateOp(p, i)>>, NoCtx)
    <3>1. CreateOp(p, i).type = "create" /\ CreateOp(p, i).path = p
      BY DEF CreateOp
    <3>2. QED
      BY <1>n, <3>1, OneOp, CtxSays DEF CallSays, CallOK
  <2>2. Call("Create", <<CreateOp(p, i)>>, NoCtx) /\ "Create" \in AsyncCalls \union SyncCalls
    BY <1>1 DEF Create, SyncCalls
  <2>3. QED
    BY <2>1, <2>2, OneOp, CtxSays DEF Called
<1>2. ASSUME NEW p \in Nodes, NEW i \in Info, CreateExistSkip(p, i) PROVE Called
  <2> DEFINE ctx == [path |-> p, info |-> i]
  <2>0. i # Absent /\ ctx \in Ctxs /\ ctx.path = p /\ ctx.info = i
    BY NamesDiffer, CtxSays
  <2>1. CallSays("CreateExistSkip", <<CheckOp(p)>>, ctx)
    <3>1. CheckOp(p).type = "check" /\ CheckOp(p).path = p
      BY DEF CheckOp
    <3> HIDE DEF ctx
    <3>2. QED
      BY <1>n, <2>0, <3>1, OneOp DEF CallSays, CallOK
  <2>2. /\ Call("CreateExistSkip", <<CheckOp(p)>>, ctx)
        /\ "CreateExistSkip" \in AsyncCalls \union SyncCalls
    BY <1>2 DEF CreateExistSkip, SyncCalls
  <2> HIDE DEF ctx
  <2>3. QED
    BY <2>0, <2>1, <2>2, OneOp DEF Called
<1>3. ASSUME NEW p \in Nodes, NEW i \in Info, ACreate(p, i) PROVE Called
  <2> DEFINE ctx == [path |-> p, info |-> i]
  <2>0. i # Absent /\ ctx \in Ctxs /\ ctx.path = p /\ ctx.info = i
    BY NamesDiffer, CtxSays
  <2>1. CallSays("ACreate", <<CreateOp(p, i)>>, ctx)
    <3>1. CreateOp(p, i).type = "create" /\ CreateOp(p, i).path = p
      BY DEF CreateOp
    <3> HIDE DEF ctx
    <3>2. QED
      BY <1>n, <2>0, <3>1, OneOp DEF CallSays, CallOK, SyncCalls
  <2>2. Call("ACreate", <<CreateOp(p, i)>>, ctx) /\ "ACreate" \in AsyncCalls \union SyncCalls
    BY <1>3 DEF ACreate, AsyncCalls
  <2> HIDE DEF ctx
  <2>3. QED
    BY <2>0, <2>1, <2>2, OneOp DEF Called
<1>4. ASSUME NEW p \in Nodes, NEW v \in Values, Set(p, v) \/ SetAcl(p, v) PROVE Called
  <2>1. ASSUME NEW call \in {"Set", "SetAcl"}, NEW f \in {"Data", "Acl"}
        PROVE  CallSays(call, <<SetOp(p, f, v)>>, NoCtx) /\ <<SetOp(p, f, v)>> \in Seq(Ops)
    <3>1. SetOp(p, f, v).type = "set" /\ SetOp(p, f, v).path = p /\ SetOp(p, f, v) \in Ops
      BY DEF SetOp
    <3>2. QED
      BY <1>n, <3>1, OneOp, CtxSays DEF CallSays, CallOK
  <2>2. \/ Call("Set", <<SetOp(p, "Data", v)>>, NoCtx)
        \/ Call("SetAcl", <<SetOp(p, "Acl", v)>>, NoCtx)
    BY <1>4 DEF Set, SetAcl
  <2>3. "Set" \in AsyncCalls \union SyncCalls /\ "SetAcl" \in AsyncCalls \union SyncCalls
    BY DEF SyncCalls
  <2>4. QED
    BY <2>1, <2>2, <2>3, CtxSays DEF Called
<1>5. ASSUME NEW p \in Nodes, NEW v \in Values, ASet(p, v) \/ ASetAcl(p, v) PROVE Called
  <2>1. ASSUME NEW call \in {"ASet", "ASetAcl"}, NEW f \in {"Data", "Acl"}
        PROVE  /\ CallSays(call, <<SetOp(p, f, v)>>, Snapshot(p, f, v))
               /\ <<SetOp(p, f, v)>> \in Seq(Ops) /\ Snapshot(p, f, v) \in Ctxs
    <3>1. SetOp(p, f, v).type = "set" /\ SetOp(p, f, v).path = p /\ SetOp(p, f, v) \in Ops
      BY DEF SetOp
    <3>2. CASE m_ephemeral_node_info[p] = Absent
      <4>1. Snapshot(p, f, v) = NoCtx
        BY <3>2 DEF Snapshot
      <4>2. QED
        BY <1>n, <3>1, <4>1, OneOp, CtxSays DEF CallSays, CallOK
    <3>3. CASE m_ephemeral_node_info[p] # Absent
      <4>1. PICK i \in Info : i = m_ephemeral_node_info[p]
        BY <1>r, <3>3, RegistrySays
      <4>2. PICK j \in Info : j = [i EXCEPT ![f] = v]
        BY InfoSet
      <4>3. Snapshot(p, f, v) = [path |-> p, info |-> j]
        BY <3>3, <4>1, <4>2 DEF Snapshot
      <4>4. Snapshot(p, f, v) \in Ctxs /\ Snapshot(p, f, v).path = p
        BY <4>3, CtxSays
      <4>5. QED
        BY <1>n, <3>1, <3>3, <4>4, OneOp DEF CallSays, CallOK, SyncCalls
    <3>4. QED
      BY <3>2, <3>3
  <2>2. \/ Call("ASet", <<SetOp(p, "Data", v)>>, Snapshot(p, "Data", v))
        \/ Call("ASetAcl", <<SetOp(p, "Acl", v)>>, Snapshot(p, "Acl", v))
    BY <1>5 DEF ASet, ASetAcl
  <2>3. "ASet" \in AsyncCalls \union SyncCalls /\ "ASetAcl" \in AsyncCalls \union SyncCalls
    BY DEF AsyncCalls
  <2>4. QED
    BY <2>1, <2>2, <2>3 DEF Called
<1>6. ASSUME NEW p \in Nodes, Delete(p) PROVE Called
  <2>1. CallSays("Delete", <<DeleteOp(p)>>, NoCtx)
    <3>1. DeleteOp(p).type = "delete" /\ DeleteOp(p).path = p
      BY DEF DeleteOp
    <3>2. QED
      BY <1>n, <3>1, OneOp, CtxSays DEF CallSays, CallOK
  <2>2. Call("Delete", <<DeleteOp(p)>>, NoCtx) /\ "Delete" \in AsyncCalls \union SyncCalls
    BY <1>6 DEF Delete, SyncCalls
  <2>3. QED
    BY <2>1, <2>2, OneOp, CtxSays DEF Called
<1>7. ASSUME NEW p \in Nodes, ADelete(p) PROVE Called
  <2> DEFINE ctx == IF m_ephemeral_node_info[p] = Absent THEN NoCtx
                    ELSE [path |-> p, info |-> Absent]
  <2>0. /\ ctx \in Ctxs /\ ctx.info = Absent
        /\ \/ ctx.path = Absent /\ m_ephemeral_node_info[p] = Absent
           \/ ctx.path = p
    BY CtxSays
  <2>1. CallSays("ADelete", <<DeleteOp(p)>>, ctx)
    <3>1. DeleteOp(p).type = "delete" /\ DeleteOp(p).path = p
      BY DEF DeleteOp
    <3> HIDE DEF ctx
    <3>2. QED
      BY <1>n, <2>0, <3>1, OneOp DEF CallSays, CallOK, SyncCalls
  <2>2. Call("ADelete", <<DeleteOp(p)>>, ctx) /\ "ADelete" \in AsyncCalls \union SyncCalls
    BY <1>7 DEF ADelete, AsyncCalls
  <2> HIDE DEF ctx
  <2>3. QED
    BY <2>0, <2>1, <2>2, OneOp DEF Called
<1>8. ASSUME NEW ops \in MultiLists, Multi(ops) \/ AMulti(ops) PROVE Called
  <2>1. ops \in Seq(Ops)
    <3>1. ops \in Seq(NodeOps)
      BY MultiAssumption
    <3>2. QED
      BY <3>1
  <2>2. CallSays("Multi", ops, NoCtx) /\ CallSays("AMulti", ops, NoCtx)
    BY <1>n, CtxSays DEF CallSays, CallOK
  <2>3. Call("Multi", ops, NoCtx) \/ Call("AMulti", ops, NoCtx)
    BY <1>8 DEF Multi, AMulti
  <2>4. "Multi" \in AsyncCalls \union SyncCalls /\ "AMulti" \in AsyncCalls \union SyncCalls
    BY DEF AsyncCalls, SyncCalls
  <2>5. QED
    BY <2>1, <2>2, <2>3, <2>4, CtxSays DEF Called
<1>m. ASSUME NEW ops \in MultiLists, MultiRefused(ops) PROVE Refused
  <2>1. ops \in Seq(Ops)
    <3>1. ops \in Seq(NodeOps)
      BY MultiAssumption
    <3>2. QED
      BY <3>1
  <2>2. PICK call : call = "Multi"
    OBVIOUS
  <2>3. CallOK(call, ops, NoCtx) /\ call \in SyncCalls /\ NoCtx \in Ctxs
    BY <2>2, CtxSays DEF CallOK, SyncCalls
  <2>4. /\ link = "expired" /\ user.pc = "idle" /\ Refuse(call, ops, NoCtx)
        /\ UNCHANGED <<server, completions, registry, zk, doubt, orphans>>
        /\ OneAtATime => ~Outstanding(PathsOf(ops))
        /\ ResumeWaits => ~m_need_resume_env /\ ~Resuming
    BY <1>m, <2>2 DEF MultiRefused, Calling
  <2>5. deleted' \subseteq deleted /\ \A p \in deleted' : ~Creates(ops, p)
    <3>1. /\ deleted' = deleted \ {p \in Nodes :
                \E k \in DOMAIN ops : ops[k].type = "create" /\ ops[k].path = p}
          /\ deleted \subseteq Nodes
      BY <1>m DEF MultiRefused, Calling, MemoryTypes
    <3>2. QED
      BY <3>1 DEF Creates
  <2>6. requests' = requests
    BY <2>4 DEF Refuse
  <2>7. QED
    BY <2>1, <2>2, <2>3, <2>4, <2>5, <2>6 DEF Refused
<1>9. ASSUME CreatePathRecursion \/ DeletePathRecursion PROVE Called
  <2>1. /\ CallSays("CreatePathRecursion", <<CheckOp(Parent)>>, NoCtx)
        /\ CallSays("DeletePathRecursion", <<CheckOp(Parent)>>, NoCtx)
    BY <1>n, CtxSays DEF CallSays, CallOK
  <2>2. \/ Call("CreatePathRecursion", <<CheckOp(Parent)>>, NoCtx)
        \/ Call("DeletePathRecursion", <<CheckOp(Parent)>>, NoCtx)
    BY <1>9 DEF CreatePathRecursion, DeletePathRecursion
  <2>3. /\ "CreatePathRecursion" \in AsyncCalls \union SyncCalls
        /\ "DeletePathRecursion" \in AsyncCalls \union SyncCalls
    BY DEF SyncCalls
  <2>4. QED
    BY <2>1, <2>2, <2>3, OneOp, CtxSays DEF Called
<1>10. QED
  BY <1>1, <1>2, <1>3, <1>4, <1>5, <1>6, <1>7, <1>8, <1>m, <1>9 DEF UserCall

\* A synchronous call ends, or goes on with another request.
Ended ==
  /\ user.pc \in {"answered", "erase"} /\ user' \in {Idle, [pc |-> "erase"]}
  /\ ~Resuming /\ UNCHANGED <<server, pipe, m_need_resume_env, zk, doubt>>
  /\ m_ephemeral_node_info' \in Registries /\ orphans' \subseteq orphans
  /\ \A p \in Nodes : m_ephemeral_node_info'[p] # Absent =>
       \/ m_ephemeral_node_info[p] # Absent
       \/ /\ user.pc = "answered"
          /\ \/ Creates(user.ops, p)
             \/ user.ctx.path = p /\ user.call = "CreateExistSkipSet"
             \/ user.ctx.path = p /\ user.call = "CreateExistSkip" /\ user.rc = "ZOK"
  /\ \A p \in deleted' : p \notin deleted =>
       /\ p \in Nodes /\ user.pc = "answered" /\ user.call \in {"Delete", "DeletePathMulti"}
       /\ user.rc = "ZOK" /\ p \in PathsOf(user.ops) /\ m_ephemeral_node_info'[p] = Absent
Continued ==
  /\ user.pc = "answered" /\ ~Resuming
  /\ UNCHANGED <<server, completions, registry, zk, history>>
  /\ user.call = "CreateExistSkip" => user.rc = "ZOK"
  /\ \E call \in SyncCalls \ {"DeletePathRecursion"}, ops \in Seq(Ops) :
       /\ Send(call, ops, user.ctx) /\ CallOK(call, ops, user.ctx)
       /\ \A p \in Nodes : ~Creates(ops, p)
       /\ IF call = "DeletePathMulti" THEN user.call = "DeletePathRecursion"
          ELSE \A p \in PathsOf(ops) \intersect Nodes : p \in PathsOf(user.ops)

\* The next request of a call is sent or refused.
LEMMA ContinuesSay ==
  ASSUME MemoryTypes, user.pc = "answered", ~Resuming, user.ctx \in Ctxs,
         user.call = "CreateExistSkip" => user.rc = "ZOK",
         NEW call \in SyncCalls \ {"DeletePathRecursion"}, NEW ops \in Seq(Ops),
         Continue(call, ops), CallOK(call, ops, user.ctx),
         \A p \in Nodes : ~Creates(ops, p),
         IF call = "DeletePathMulti" THEN user.call = "DeletePathRecursion"
         ELSE \A p \in PathsOf(ops) \intersect Nodes : p \in PathsOf(user.ops)
  PROVE  Continued \/ Refused
<1>1. UNCHANGED <<server, completions, registry, zk, history>>
  BY DEF Continue
<1>2. CASE link = "up"
  BY <1>1, <1>2 DEF Continued, Continue
<1>3. CASE link # "up"
  <2>1. link = "expired" /\ Refuse(call, ops, user.ctx) /\ requests' = requests
    BY <1>3 DEF MemoryTypes, Continue, Refuse
  <2>2. /\ doubt' = doubt /\ orphans' = orphans /\ deleted' = deleted
        /\ \A p \in deleted' : ~Creates(ops, p)
    BY <1>1 DEF history, MemoryTypes
  <2>3. QED
    BY <1>1, <2>1, <2>2 DEF Refused
<1>4. QED
  BY <1>2, <1>3

\* The call that a return is about.
LEMMA AnsweredSays ==
  ASSUME PipeInv, user.pc = "answered"
  PROVE  /\ user.call \in SyncCalls /\ user.ops \in Seq(Ops) /\ user.ctx \in Ctxs
         /\ user.view \subseteq Nodes
         /\ CallOK(user.call, user.ops, user.ctx)
         /\ user.rc = "ZOK" => \A k \in DOMAIN user.ops : user.results[k] = "ZOK"
         /\ Len(user.ops) = 1 =>
              /\ user.ops[1] \in Ops /\ DOMAIN user.ops = {1}
              /\ PathsOf(user.ops) = {user.ops[1].path}
              /\ \A p : Creates(user.ops, p) <=> user.ops[1].type = "create" /\ user.ops[1].path = p
<1>1. user.call \in SyncCalls /\ user.ops \in Seq(Ops) /\ user.ctx \in Ctxs
      /\ user.view \subseteq Nodes
  BY UserSays DEF PipeInv, PipeTypes
<1>2. /\ CallOK(user.call, user.ops, user.ctx)
      /\ user.rc = "ZOK" => \A k \in DOMAIN user.ops : user.results[k] = "ZOK"
  BY DEF PipeInv, CallsOK
<1>3. ASSUME NEW ops \in Seq(Ops), Len(ops) = 1
      PROVE  /\ ops[1] \in Ops /\ DOMAIN ops = {1}
             /\ PathsOf(ops) = {ops[1].path}
             /\ \A p : Creates(ops, p) <=> ops[1].type = "create" /\ ops[1].path = p
  <2>1. ops[1] \in Ops /\ DOMAIN ops = {1}
    <3>1. DOMAIN ops = 1..1 /\ 1 \in 1..Len(ops)
      BY <1>3, LenProperties
    <3>2. QED
      BY <1>3, <3>1, ElementOfSeq
  <2>2. QED
    BY <2>1 DEF PathsOf, Creates
<1>4. QED
  BY <1>1, <1>2, <1>3

\* What a return leaves alone.
LEMMA FinishedSays ==
  ASSUME PipeInv, MemoryInv, NEW calls, Returns(calls) \/ (user.pc = "erase" /\ LockFree),
         Finished, NEW info \in Registries, Register(info), deleted' = deleted,
         \A p \in Nodes : info[p] # Absent =>
           \/ m_ephemeral_node_info[p] # Absent
           \/ /\ user.pc = "answered"
              /\ \/ Creates(user.ops, p)
                 \/ user.ctx.path = p /\ user.call = "CreateExistSkipSet"
                 \/ user.ctx.path = p /\ user.call = "CreateExistSkip" /\ user.rc = "ZOK"
  PROVE  Ended
<1>1. user.pc \in {"answered", "erase"} /\ ~Resuming
  BY DEF Returns, LockFree
<1>2. m_ephemeral_node_info' = info /\ orphans' \subseteq orphans
  BY DEF Register
<1>3. /\ user' \in {Idle, [pc |-> "erase"]}
      /\ UNCHANGED <<server, pipe, m_need_resume_env, zk, doubt>>
  BY DEF Finished
<1>4. QED
  BY <1>1, <1>2, <1>3 DEF Ended

LEMMA QuietSays ==
  ASSUME PipeInv, MemoryInv, NEW calls, Returns(calls), Finished,
         UNCHANGED <<m_ephemeral_node_info, orphans, deleted>>
  PROVE  Ended
<1>1. user.pc = "answered" /\ ~Resuming
  BY DEF Returns, LockFree
<1>2. /\ user' \in {Idle, [pc |-> "erase"]}
      /\ UNCHANGED <<server, pipe, m_need_resume_env, zk, doubt>>
  BY DEF Finished
<1>3. m_ephemeral_node_info \in Registries
  BY DEF MemoryInv, MemoryTypes
<1>4. QED
  BY <1>1, <1>2, <1>3 DEF Ended

LEMMA CreateReturnSays ==
  ASSUME PipeInv, MemoryInv, CreateReturn
  PROVE  Ended
<1>1. user.pc = "answered" /\ user.call = "Create" /\ Returns({"Create"}) /\ Finished
      /\ deleted' = deleted
  BY DEF CreateReturn, Returns
<1>2. Len(user.ops) = 1 /\ user.ops[1].path \in Nodes /\ user.ops[1].type = "create"
  BY <1>1, AnsweredSays DEF CallOK
<1>3. PICK op \in Ops : op = user.ops[1]
  BY <1>1, <1>2, AnsweredSays
<1>4. m_ephemeral_node_info \in Registries
  BY DEF MemoryInv, MemoryTypes
<1>5. CASE user.rc = "ZOK"
  <2>1. Register(Change(op, m_ephemeral_node_info))
    BY <1>3, <1>5 DEF CreateReturn
  <2>2. PICK info \in Registries : info = Change(op, m_ephemeral_node_info)
    BY <1>2, <1>3, <1>4, RegistryChange
  <2>3. \A q \in Nodes : q # op.path => info[q] = m_ephemeral_node_info[q]
    BY <1>2, <1>3, <1>4, <2>2, RegistryTouch
  <2>4. \A q \in Nodes : q = op.path => Creates(user.ops, q)
    BY <1>1, <1>2, <1>3, AnsweredSays
  <2>5. QED
    BY <1>1, <2>1, <2>2, <2>3, <2>4, FinishedSays
<1>6. CASE user.rc # "ZOK"
  <2>1. Register(m_ephemeral_node_info)
    BY <1>6 DEF CreateReturn
  <2>2. QED
    BY <1>1, <1>4, <2>1, FinishedSays
<1>7. QED
  BY <1>5, <1>6

LEMMA CreateExistSkipReturnSays ==
  ASSUME PipeInv, MemoryInv, CreateExistSkipReturn
  PROVE  Ended
<1>1. /\ user.pc = "answered" /\ user.call \in {"CreateExistSkip", "CreateExistSkipSet"}
      /\ Returns({"CreateExistSkip", "CreateExistSkipSet"}) /\ Finished /\ deleted' = deleted
  BY DEF CreateExistSkipReturn, Returns
<1>2. user.ctx.path \in Nodes /\ user.ctx.info \in Info
  BY <1>1, AnsweredSays DEF CallOK
<1>4. m_ephemeral_node_info \in Registries
  BY DEF MemoryInv, MemoryTypes
<1>5. CASE user.rc = "ZOK"
  <2>1. Register([m_ephemeral_node_info EXCEPT ![user.ctx.path] = user.ctx.info])
    BY <1>5 DEF CreateExistSkipReturn
  <2>2. PICK info \in Registries :
          /\ info = [m_ephemeral_node_info EXCEPT ![user.ctx.path] = user.ctx.info]
          /\ \A q \in Nodes : q # user.ctx.path => info[q] = m_ephemeral_node_info[q]
    <3>1. PICK p \in Nodes, i \in Info \union {Absent} : p = user.ctx.path /\ i = user.ctx.info
      BY <1>2
    <3>2. PICK info : info = [m_ephemeral_node_info EXCEPT ![p] = i]
      OBVIOUS
    <3>3. info \in Registries /\ \A q \in Nodes : q # p => info[q] = m_ephemeral_node_info[q]
      BY <1>4, <3>2, RegistrySays
    <3>4. QED
      BY <3>1, <3>2, <3>3
  <2>3. QED
    BY <1>1, <1>5, <2>1, <2>2, FinishedSays
<1>6. CASE user.rc # "ZOK"
  <2>1. Register(m_ephemeral_node_info)
    BY <1>6 DEF CreateExistSkipReturn
  <2>2. QED
    BY <1>1, <1>4, <2>1, FinishedSays
<1>7. QED
  BY <1>5, <1>6

LEMMA SetReturnSays ==
  ASSUME PipeInv, MemoryInv, SetReturn
  PROVE  Ended
<1>1. user.pc = "answered" /\ user.call \in {"Set", "SetAcl"} /\ Returns({"Set", "SetAcl"})
      /\ Finished /\ deleted' = deleted
  BY DEF SetReturn, Returns
<1>2. Len(user.ops) = 1 /\ user.ops[1].path \in Nodes /\ user.ops[1].type = "set"
  BY <1>1, AnsweredSays DEF CallOK
<1>3. PICK op \in Ops : op = user.ops[1]
  BY <1>1, <1>2, AnsweredSays
<1>4. m_ephemeral_node_info \in Registries
  BY DEF MemoryInv, MemoryTypes
<1>5. CASE user.rc = "ZOK" /\ m_ephemeral_node_info[op.path] # Absent
  <2>1. Register(Change(op, m_ephemeral_node_info))
    BY <1>3, <1>5 DEF SetReturn
  <2>2. PICK info \in Registries : info = Change(op, m_ephemeral_node_info)
    BY <1>2, <1>3, <1>4, <1>5, RegistryChange
  <2>3. \A q \in Nodes : q # op.path => info[q] = m_ephemeral_node_info[q]
    BY <1>2, <1>3, <1>4, <2>2, RegistryTouch
  <2>5. QED
    BY <1>1, <1>5, <2>1, <2>2, <2>3, FinishedSays
<1>6. CASE ~(user.rc = "ZOK" /\ m_ephemeral_node_info[op.path] # Absent)
  <2>1. Register(m_ephemeral_node_info)
    BY <1>3, <1>6 DEF SetReturn
  <2>2. QED
    BY <1>1, <1>4, <2>1, FinishedSays
<1>7. QED
  BY <1>5, <1>6

LEMMA DeleteReturnSays ==
  ASSUME PipeInv, MemoryInv, DeleteReturn
  PROVE  Ended
<1>1. user.pc = "answered" /\ user.call = "Delete" /\ Returns({"Delete"}) /\ Finished
      /\ ~Resuming
  BY DEF DeleteReturn, Returns, LockFree
<1>2. Len(user.ops) = 1 /\ user.ops[1].path \in Nodes /\ user.ops[1].type = "delete"
  BY <1>1, AnsweredSays DEF CallOK
<1>3. user.ops[1].path \in PathsOf(user.ops)
  BY <1>1, <1>2, AnsweredSays
<1>4. m_ephemeral_node_info \in Registries
  BY DEF MemoryInv, MemoryTypes
<1>5. CASE user.rc = "ZOK"
  <2>1. /\ Register([m_ephemeral_node_info EXCEPT ![user.ops[1].path] = Absent])
        /\ deleted' = deleted \union {user.ops[1].path}
    BY <1>5 DEF DeleteReturn
  <2>2. PICK info \in Registries :
          /\ info = [m_ephemeral_node_info EXCEPT ![user.ops[1].path] = Absent]
          /\ info[user.ops[1].path] = Absent
          /\ \A q \in Nodes : q # user.ops[1].path => info[q] = m_ephemeral_node_info[q]
    <3>1. PICK p \in Nodes, i \in Info \union {Absent} : p = user.ops[1].path /\ i = Absent
      BY <1>2
    <3>2. PICK info : info = [m_ephemeral_node_info EXCEPT ![p] = i]
      OBVIOUS
    <3>3. /\ info \in Registries /\ info[p] = i
          /\ \A q \in Nodes : q # p => info[q] = m_ephemeral_node_info[q]
      BY <1>4, <3>2, RegistrySays
    <3>4. QED
      BY <3>1, <3>2, <3>3
  <2>3. m_ephemeral_node_info' = info /\ orphans' \subseteq orphans
    BY <2>1, <2>2 DEF Register
  <2>4. /\ user' \in {Idle, [pc |-> "erase"]}
        /\ UNCHANGED <<server, pipe, m_need_resume_env, zk, doubt>>
    BY <1>1 DEF Finished
  <2>5. \A p \in Nodes : info[p] # Absent => m_ephemeral_node_info[p] # Absent
    BY <1>2, <2>2
  <2>6. QED
    BY <1>1, <1>2, <1>3, <1>5, <2>1, <2>2, <2>3, <2>4, <2>5 DEF Ended
<1>6. CASE user.rc # "ZOK"
  BY <1>1, <1>6, QuietSays DEF DeleteReturn
<1>7. QED
  BY <1>5, <1>6

LEMMA MultiReturnSays ==
  ASSUME PipeInv, MemoryInv, MultiReturn
  PROVE  Ended
<1>1. /\ user.pc = "answered" /\ Returns({"Multi", "CreatePathMulti"}) /\ Finished
      /\ deleted' = deleted
      /\ Register(ProcMultiEphemeralNode(user.ops, user.results))
  BY DEF MultiReturn, Returns
<1>r. PICK results : results = user.results
  OBVIOUS
<1>2. PICK ops \in Seq(Ops) : ops = user.ops /\ results = user.results
  BY <1>1, <1>r, AnsweredSays
<1>3. m_ephemeral_node_info \in Registries
  BY DEF MemoryInv, MemoryTypes
<1>4. PICK info \in Registries :
        /\ info = ProcMultiEphemeralNode(ops, results)
        /\ \A p \in Nodes : ~Creates(ops, p) /\ m_ephemeral_node_info[p] = Absent
                              => info[p] = Absent
  BY <1>3, ProcMultiSays
<1>5. Register(info)
  BY <1>1, <1>2, <1>4
<1>6. \A p \in Nodes : info[p] # Absent =>
        m_ephemeral_node_info[p] # Absent \/ Creates(user.ops, p)
  BY <1>2, <1>4
<1>7. QED
  BY <1>1, <1>5, <1>6, FinishedSays

LEMMA DeletePathReturnSays ==
  ASSUME PipeInv, MemoryInv, DeletePathReturn
  PROVE  Ended
<1>1. /\ user.pc = "answered" /\ user.call = "DeletePathMulti" /\ ~Resuming
      /\ Register(ProcMultiEphemeralNode(user.ops, user.results))
      /\ UNCHANGED <<server, pipe, m_need_resume_env, zk, doubt>>
      /\ user' \in {Idle, [pc |-> "erase"]}
      /\ \/ deleted' = deleted
         \/ user.rc = "ZOK" /\ deleted' = deleted \union (PathsOf(user.ops) \intersect Nodes)
  BY DEF DeletePathReturn, Returns, LockFree
<1>r. PICK results : results = user.results
  OBVIOUS
<1>2. PICK ops \in Seq(Ops) : ops = user.ops /\ results = user.results
  BY <1>1, <1>r, AnsweredSays
<1>3. m_ephemeral_node_info \in Registries
  BY DEF MemoryInv, MemoryTypes
<1>4. /\ \A k \in DOMAIN ops : ops[k].type = "delete"
      /\ user.rc = "ZOK" => \A k \in DOMAIN ops : results[k] = "ZOK"
  BY <1>1, <1>2, AnsweredSays DEF CallOK
<1>5. \A p : ~Creates(ops, p) /\ (p \in PathsOf(ops) => Deletes(ops, p))
  BY <1>4 DEF Creates, Deletes, PathsOf
<1>6. PICK info \in Registries :
        /\ info = ProcMultiEphemeralNode(ops, results)
        /\ \A p \in Nodes :
             /\ m_ephemeral_node_info[p] = Absent => info[p] = Absent
             /\ p \in PathsOf(ops) /\ user.rc = "ZOK" => info[p] = Absent
  BY <1>3, <1>4, <1>5, ProcMultiSays
<1>7. m_ephemeral_node_info' = info /\ orphans' \subseteq orphans
  BY <1>1, <1>2, <1>6 DEF Register
<1>8. QED
  BY <1>1, <1>2, <1>6, <1>7 DEF Ended

LEMMA DeletePathEraseSays ==
  ASSUME PipeInv, MemoryInv, DeletePathErase
  PROVE  Ended
<1>1. user.pc = "erase" /\ LockFree /\ Finished /\ deleted' = deleted
      /\ Register([p \in Nodes |-> Absent])
  BY DEF DeletePathErase
<1>2. PICK info \in Registries : info = [p \in Nodes |-> Absent]
  BY DEF Registries
<1>3. \A p \in Nodes : info[p] = Absent
  BY <1>2
<1>4. QED
  BY <1>1, <1>2, <1>3, FinishedSays

LEMMA CreateExistSkipGotSays ==
  ASSUME PipeInv, MemoryInv, CreateExistSkipGot
  PROVE  Continued \/ Refused
<1>1. /\ user.pc = "answered" /\ user.call = "CreateExistSkip" /\ ~Resuming
      /\ user.rc = "ZOK"
  BY DEF CreateExistSkipGot, Returns, LockFree
<1>2. /\ user.ctx.path \in Nodes /\ user.ctx.info \in Info /\ user.ctx \in Ctxs
      /\ user.ctx.path \in PathsOf(user.ops)
  BY <1>1, AnsweredSays DEF CallOK
<1>3. user.ctx.info["Data"] \in Values
  BY <1>2, FieldsAssumption DEF Info
<1>4. PICK op \in Ops : op = SetOp(user.ctx.path, "Data", user.ctx.info["Data"])
  BY <1>2, <1>3, NodeOpsSay
<1>5. op.type = "set" /\ op.path = user.ctx.path
  BY <1>4 DEF SetOp
<1>6. PICK call : call = "CreateExistSkipSet"
  OBVIOUS
<1>7. /\ Continue(call, <<op>>)
      /\ call \in SyncCalls \ {"DeletePathRecursion"} /\ call # "DeletePathMulti"
  BY <1>4, <1>6 DEF CreateExistSkipGot, SyncCalls
<1>8. CallOK(call, <<op>>, user.ctx)
  BY <1>2, <1>5, <1>6, OneOp DEF CallOK
<1>9. /\ \A p \in Nodes : ~Creates(<<op>>, p)
      /\ \A p \in PathsOf(<<op>>) \intersect Nodes : p \in PathsOf(user.ops)
      /\ <<op>> \in Seq(Ops)
  BY <1>2, <1>5, OneOp
<1>10. QED
  BY <1>1, <1>2, <1>7, <1>8, <1>9, ContinuesSay DEF MemoryInv

LEMMA CreatePathCheckedSays ==
  ASSUME PipeInv, MemoryInv, CreatePathChecked
  PROVE  Ended \/ Continued \/ Refused
<1>1. /\ user.pc = "answered" /\ user.call = "CreatePathRecursion" /\ ~Resuming
      /\ Returns({"CreatePathRecursion"})
  BY DEF CreatePathChecked, Returns, LockFree
<1>2. CASE user.rc # "ZNONODE"
  BY <1>1, <1>2, QuietSays DEF CreatePathChecked
<1>3. CASE user.rc = "ZNONODE"
  <2>1. user.ctx \in Ctxs /\ user.ctx.path = Absent
    BY <1>1, AnsweredSays DEF CallOK
  <2>2. PICK op \in Ops : op = CreateOp(Parent, Plain)
    BY NodeOpsSay
  <2>3. op.path = Parent /\ Parent \notin Nodes
    BY <2>2, NamesDiffer DEF CreateOp
  <2>4. Continue("CreatePathMulti", <<op>>)
    BY <1>3, <2>2 DEF CreatePathChecked
  <2>5. PICK call : call = "CreatePathMulti"
    OBVIOUS
  <2>6. call \in SyncCalls \ {"DeletePathRecursion"} /\ call # "DeletePathMulti"
    BY <2>5 DEF SyncCalls
  <2>7. CallOK(call, <<op>>, user.ctx)
    BY <2>1, <2>5 DEF CallOK
  <2>8. Continue(call, <<op>>)
    BY <2>4, <2>5
  <2>9. /\ \A p \in Nodes : ~Creates(<<op>>, p)
        /\ \A p \in PathsOf(<<op>>) \intersect Nodes : p \in PathsOf(user.ops)
        /\ <<op>> \in Seq(Ops)
    BY <2>3, OneOp
  <2>10. QED
    BY <1>1, <2>1, <2>6, <2>7, <2>8, <2>9, ContinuesSay DEF MemoryInv
<1>4. QED
  BY <1>2, <1>3

LEMMA DeletePathListedSays ==
  ASSUME PipeInv, MemoryInv, DeletePathListed
  PROVE  Ended \/ Continued \/ Refused
<1>1. /\ user.pc = "answered" /\ user.call = "DeletePathRecursion" /\ ~Resuming
      /\ Returns({"DeletePathRecursion"})
  BY DEF DeletePathListed, Returns, LockFree
<1>2. CASE user.rc \notin {"ZOK", "ZNONODE"}
  <2>1. Finished /\ UNCHANGED <<m_ephemeral_node_info, orphans, deleted>>
    BY <1>2 DEF DeletePathListed
  <2>2. QED
    BY <1>1, <2>1, QuietSays
<1>3. CASE user.rc = "ZNONODE"
  <2>1. /\ user' = [pc |-> "erase"]
        /\ UNCHANGED <<server, pipe, registry, zk, bounds, history>>
    BY <1>3 DEF DeletePathListed
  <2>2. /\ UNCHANGED <<server, pipe, m_need_resume_env, zk, doubt>>
        /\ m_ephemeral_node_info' = m_ephemeral_node_info /\ orphans' = orphans
        /\ deleted' = deleted
    BY <2>1 DEF registry, history
  <2>3. m_ephemeral_node_info \in Registries
    BY DEF MemoryInv, MemoryTypes
  <2>4. QED
    BY <1>1, <2>1, <2>2, <2>3 DEF Ended
<1>4. CASE user.rc = "ZOK"
  <2>1. PICK list \in SetToSeqs(user.view) :
          Continue("DeletePathMulti",
            [k \in DOMAIN list |-> DeleteOp(list[k])] \o << DeleteOp(Parent) >>)
    BY <1>4 DEF DeletePathListed
  <2> DEFINE n == Cardinality(user.view)
             first == [k \in DOMAIN list |-> DeleteOp(list[k])]
  <2>2. n \in Nat /\ list \in [1..n -> user.view] /\ user.view \subseteq Nodes
    <3>1. user.view \in SUBSET Nodes
      BY <1>1, AnsweredSays
    <3>2. IsFiniteSet(user.view)
      BY <3>1, PathsAssumption, FS_Subset
    <3>3. QED
      BY <2>1, <3>1, <3>2, FS_CardinalityType DEF SetToSeqs
  <2>3. /\ DOMAIN list = 1..n /\ \A k \in 1..n : list[k] \in Nodes
    BY <2>2
  <2>4. first \in [1..n -> Ops] /\ \A k \in 1..n : first[k] = DeleteOp(list[k])
    BY <2>3, NodeOpsSay
  <2> HIDE DEF first, n
  <2>5. first \in Seq(Ops) /\ Len(first) = n
    <3>1. first \in Seq(Ops)
      BY <2>2, <2>4, SeqDef
    <3>2. QED
      BY <2>2, <2>4, <3>1, LenProperties
  <2>6. << DeleteOp(Parent) >> \in Seq(Ops) /\ Len(<< DeleteOp(Parent) >>) = 1
        /\ << DeleteOp(Parent) >>[1] = DeleteOp(Parent)
    BY NodeOpsSay, OneOp
  <2>7. PICK ops : ops = first \o << DeleteOp(Parent) >>
    OBVIOUS
  <2>8. /\ ops \in Seq(Ops) /\ Len(ops) = n + 1
        /\ \A k \in 1..(n + 1) :
             ops[k] = IF k <= n THEN first[k] ELSE << DeleteOp(Parent) >>[k - n]
    BY <2>2, <2>5, <2>6, <2>7, ConcatProperties
  <2>9. \A k \in DOMAIN ops : ops[k].type = "delete"
    <3> TAKE k \in DOMAIN ops
    <3>1. k \in 1..(n + 1)
      BY <2>2, <2>8, LenProperties
    <3>2. CASE k <= n
      BY <2>2, <2>4, <2>8, <3>1, <3>2 DEF DeleteOp
    <3>3. CASE ~(k <= n)
      <4>1. k - n = 1
        BY <2>2, <3>1, <3>3
      <4>2. QED
        BY <2>6, <2>8, <3>1, <3>3, <4>1 DEF DeleteOp
    <3>4. QED
      BY <3>2, <3>3
  <2>10. PICK call : call = "DeletePathMulti"
    OBVIOUS
  <2>11. Continue(call, ops)
    BY <2>1, <2>7, <2>10 DEF first
  <2>12. user.ctx \in Ctxs /\ user.ctx.path = Absent
    BY <1>1, AnsweredSays DEF CallOK
  <2>13. CallOK(call, ops, user.ctx) /\ call \in SyncCalls \ {"DeletePathRecursion"}
    BY <2>9, <2>10, <2>12 DEF CallOK, SyncCalls
  <2>14. \A p \in Nodes : ~Creates(ops, p)
    BY <2>9 DEF Creates
  <2>15. QED
    BY <1>1, <2>8, <2>10, <2>11, <2>12, <2>13, <2>14, ContinuesSay DEF MemoryInv
<1>5. QED
  BY <1>2, <1>3, <1>4

LEMMA UserReturnSays ==
  ASSUME PipeInv, MemoryInv, UserReturn
  PROVE  Ended \/ Continued \/ Refused
  BY CreateReturnSays, CreateExistSkipGotSays, CreateExistSkipReturnSays, SetReturnSays,
     DeleteReturnSays, MultiReturnSays, CreatePathCheckedSays, DeletePathListedSays,
     DeletePathReturnSays, DeletePathEraseSays DEF UserReturn

\* A callback: the oldest answer is gone, and the registry has what it wrote.
Recorded ==
  /\ ~Resuming /\ completions # <<>> /\ IsAnswer(1) /\ completions' = Tail(completions)
  /\ UNCHANGED <<server, requests, m_need_resume_env, user, zk, doubt>>
  /\ m_ephemeral_node_info' \in Registries /\ orphans' \subseteq orphans
  /\ \A p \in Nodes : m_ephemeral_node_info'[p] # Absent =>
       \/ m_ephemeral_node_info[p] # Absent
       \/ Writes(completions[1].call, completions[1].ops, completions[1].ctx, p)
  /\ \A p \in deleted' : p \notin deleted =>
       /\ p \in Nodes /\ completions[1].call = "ADelete" /\ completions[1].rc = "ZOK"
       /\ p \in PathsOf(completions[1].ops)
       /\ completions[1].ctx.path = Absent \/ m_ephemeral_node_info'[p] = Absent

\* The answer that a callback is about.
LEMMA HandlesSays ==
  ASSUME PipeInv, NEW calls, calls \subseteq AsyncCalls, Handles(calls)
  PROVE  /\ ~Resuming /\ completions # <<>> /\ IsAnswer(1) /\ completions' = Tail(completions)
         /\ Head(completions) = completions[1] /\ 1 \in DOMAIN completions
         /\ completions[1].call \in calls
         /\ completions[1].ops \in Seq(Ops) /\ completions[1].ctx \in Ctxs
         /\ CallOK(completions[1].call, completions[1].ops, completions[1].ctx)
<1>1. /\ ~Resuming /\ completions # <<>> /\ completions' = Tail(completions)
      /\ Head(completions).call \in calls
  BY DEF Handles, Resuming
<1>2. Head(completions) = completions[1] /\ 1 \in DOMAIN completions
  BY <1>1, TailSays DEF PipeInv, PipeTypes
<1>3. IsAnswer(1)
  BY <1>1, <1>2 DEF IsAnswer
<1>4. QED
  BY <1>1, <1>2, <1>3, PipeSays DEF PipeInv, CallsOK

LEMMA RecordContextSays ==
  ASSUME m_ephemeral_node_info \in Registries, NEW c, c.ctx \in Ctxs, RecordContext(c)
  PROVE  /\ m_ephemeral_node_info' \in Registries /\ orphans' \subseteq orphans
         /\ \A p \in Nodes : m_ephemeral_node_info'[p] # Absent =>
              m_ephemeral_node_info[p] # Absent \/ Writes(c.call, c.ops, c.ctx, p)
         /\ c.rc = "ZOK" /\ c.ctx.path # Absent =>
              c.ctx.path \in Nodes /\ m_ephemeral_node_info'[c.ctx.path] = c.ctx.info
<1>1. CASE c.rc = "ZOK" /\ c.ctx.path # Absent
  <2>1. PICK p \in Nodes, i \in Info \union {Absent} : p = c.ctx.path /\ i = c.ctx.info
    BY <1>1 DEF Ctxs
  <2>2. /\ m_ephemeral_node_info' = [m_ephemeral_node_info EXCEPT ![p] = i]
        /\ orphans' \subseteq orphans
    BY <1>1, <2>1 DEF RecordContext, Register
  <2>3. /\ m_ephemeral_node_info' \in Registries /\ m_ephemeral_node_info'[p] = i
        /\ \A q \in Nodes : q # p => m_ephemeral_node_info'[q] = m_ephemeral_node_info[q]
    BY <2>2, RegistrySays
  <2>4. QED
    BY <2>1, <2>2, <2>3 DEF Writes
<1>2. CASE ~(c.rc = "ZOK" /\ c.ctx.path # Absent)
  BY <1>2 DEF RecordContext, Register
<1>3. QED
  BY <1>1, <1>2

LEMMA CallbackSays ==
  ASSUME PipeInv, MemoryInv,
         \/ InnerStringCompletion \/ InnerStatCompletion \/ InnerVoidCompletion
         \/ InnerMultiCompletion
  PROVE  Recorded
<1>r. m_ephemeral_node_info \in Registries
  BY DEF MemoryInv, MemoryTypes
<1>1. CASE \/ InnerStringCompletion /\ Handles({"ACreate"})
           \/ InnerStatCompletion /\ Handles({"ASet"})
  <2>1. PICK calls : calls \in {{"ACreate"}, {"ASet"}} /\ Handles(calls)
    BY <1>1
  <2>2. /\ ~Resuming /\ completions # <<>> /\ IsAnswer(1) /\ completions' = Tail(completions)
        /\ Head(completions) = completions[1] /\ completions[1].ctx \in Ctxs
    BY <2>1, HandlesSays DEF AsyncCalls
  <2>3. /\ RecordContext(completions[1]) /\ deleted' = deleted
        /\ UNCHANGED <<server, requests, m_need_resume_env, user, zk, doubt>>
    BY <1>1, <2>2 DEF InnerStringCompletion, InnerStatCompletion
  <2>4. QED
    BY <1>r, <2>2, <2>3, RecordContextSays DEF Recorded
<1>2. CASE InnerVoidCompletion
  <2>1. /\ ~Resuming /\ completions # <<>> /\ IsAnswer(1) /\ completions' = Tail(completions)
        /\ Head(completions) = completions[1] /\ completions[1].ctx \in Ctxs
        /\ completions[1].ops \in Seq(Ops)
        /\ CallOK(completions[1].call, completions[1].ops, completions[1].ctx)
    BY <1>2, HandlesSays DEF AsyncCalls, InnerVoidCompletion
  <2>2. /\ RecordContext(completions[1])
        /\ UNCHANGED <<server, requests, m_need_resume_env, user, zk, doubt>>
        /\ \/ deleted' = deleted
           \/ /\ completions[1].call = "ADelete" /\ completions[1].rc = "ZOK"
              /\ deleted' = deleted \union (PathsOf(completions[1].ops) \intersect Nodes)
    BY <1>2, <2>1 DEF InnerVoidCompletion
  <2>3. /\ m_ephemeral_node_info' \in Registries /\ orphans' \subseteq orphans
        /\ \A p \in Nodes : m_ephemeral_node_info'[p] # Absent =>
             \/ m_ephemeral_node_info[p] # Absent
             \/ Writes(completions[1].call, completions[1].ops, completions[1].ctx, p)
        /\ completions[1].rc = "ZOK" /\ completions[1].ctx.path # Absent =>
             m_ephemeral_node_info'[completions[1].ctx.path] = completions[1].ctx.info
    BY <1>r, <2>1, <2>2, RecordContextSays
  <2>4. ASSUME NEW p \in deleted', p \notin deleted
        PROVE  /\ p \in Nodes /\ completions[1].call = "ADelete" /\ completions[1].rc = "ZOK"
               /\ p \in PathsOf(completions[1].ops)
               /\ completions[1].ctx.path = Absent \/ m_ephemeral_node_info'[p] = Absent
    <3>1. /\ completions[1].call = "ADelete" /\ completions[1].rc = "ZOK"
          /\ p \in PathsOf(completions[1].ops) /\ p \in Nodes
      BY <2>2, <2>4
    <3>2. /\ Len(completions[1].ops) = 1 /\ completions[1].ctx.info = Absent
          /\ completions[1].ctx.path # Absent =>
               completions[1].ctx.path \in PathsOf(completions[1].ops)
      BY <2>1, <3>1 DEF CallOK
    <3>3. PathsOf(completions[1].ops) = {completions[1].ops[1].path}
      <4>1. PICK ops \in Seq(Ops) : ops = completions[1].ops
        BY <2>1
      <4>2. DOMAIN ops = 1..1
        BY <3>2, <4>1, LenProperties
      <4>3. QED
        BY <4>1, <4>2 DEF PathsOf
    <3>4. QED
      BY <2>3, <3>1, <3>2, <3>3
  <2>5. QED
    BY <2>1, <2>2, <2>3, <2>4 DEF Recorded
<1>3. CASE InnerMultiCompletion
  <2>1. /\ ~Resuming /\ completions # <<>> /\ IsAnswer(1) /\ completions' = Tail(completions)
        /\ Head(completions) = completions[1] /\ completions[1].ops \in Seq(Ops)
    BY <1>3, HandlesSays DEF AsyncCalls, InnerMultiCompletion
  <2>2. /\ Register(ProcMultiEphemeralNode(completions[1].ops, completions[1].results))
        /\ deleted' = deleted
        /\ UNCHANGED <<server, requests, m_need_resume_env, user, zk, doubt>>
    BY <1>3, <2>1 DEF InnerMultiCompletion
  <2>3. PICK results : results = completions[1].results
    OBVIOUS
  <2>4. PICK ops \in Seq(Ops) : ops = completions[1].ops
    BY <2>1
  <2>5. PICK info \in Registries :
          /\ info = ProcMultiEphemeralNode(ops, results)
          /\ \A p \in Nodes : ~Creates(ops, p) /\ m_ephemeral_node_info[p] = Absent
                                => info[p] = Absent
    BY <1>r, ProcMultiSays
  <2>6. m_ephemeral_node_info' = info /\ orphans' \subseteq orphans
    BY <2>2, <2>3, <2>4, <2>5 DEF Register
  <2>7. \A p \in Nodes : info[p] # Absent => m_ephemeral_node_info[p] # Absent
          \/ Writes(completions[1].call, completions[1].ops, completions[1].ctx, p)
    BY <2>4, <2>5 DEF Writes
  <2>8. QED
    BY <2>1, <2>2, <2>5, <2>6, <2>7 DEF Recorded
<1>4. QED
  BY <1>1, <1>2, <1>3 DEF InnerStringCompletion, InnerStatCompletion

\* A step of ReconnectResumeEnv.
AtNode == zk.pc \in {"create", "check", "make", "recreate", "retry"}
NoNuls == \A v \in Values : CString[v] = v
Resumed ==
  /\ Resuming /\ UNCHANGED <<link, requests, user, deleted>>
  /\ tree' \in Trees
  /\ \A p \in Nodes : tree'[p] = tree[p] \/ m_ephemeral_node_info[p] # Absent
  /\ m_ephemeral_node_info' \in Registries
  /\ \A p \in Nodes : m_ephemeral_node_info'[p] = Absent <=> m_ephemeral_node_info[p] = Absent
  /\ NoNuls => m_ephemeral_node_info' = m_ephemeral_node_info
  /\ \/ completions' = completions
     \/ link = "up" /\ completions' = Append(completions, Connected)
  /\ zk' \in ZkType /\ ToResume' \subseteq ToResume
  /\ doubt' \subseteq Nodes /\ orphans' \subseteq Nodes
  /\ m_need_resume_env' = m_need_resume_env \/ (zk' = Idle /\ m_need_resume_env' = FALSE)

LEMMA ZkSays ==
  ASSUME zk \in ZkType
  PROVE  /\ zk.pc = "idle" \/ zk.pc = "next" \/ AtNode
         /\ zk.pc = "next" => zk = [pc |-> "next", todo |-> zk.todo] /\ zk.todo \subseteq Nodes
         /\ AtNode => /\ zk.cur \in Nodes /\ zk.todo \subseteq Nodes /\ zk.try \in {1, 2}
                      /\ zk = [pc |-> zk.pc, cur |-> zk.cur, todo |-> zk.todo, try |-> zk.try]
<1>1. CASE zk = Idle
  BY <1>1 DEF Idle, AtNode
<1>2. CASE zk \in [pc : {"next"}, todo : SUBSET Nodes]
  BY <1>2 DEF AtNode
<1>3. CASE zk \in [pc : {"create", "check", "make", "recreate", "retry"},
                   cur : Nodes, todo : SUBSET Nodes, try : {1, 2}]
  BY <1>3 DEF AtNode
<1>4. QED
  BY <1>1, <1>2, <1>3 DEF ZkType

LEMMA ToResumeSays ==
  /\ zk.pc = "next" => ToResume = {p \in Nodes : p \in zk.todo}
  /\ AtNode => ToResume = {p \in Nodes : p \in zk.todo \/ p = zk.cur}
  /\ zk.pc = "idle" => ToResume = {}
  BY DEF ToResume, AtNode, Resuming

LEMMA ToResumeNextSays ==
  /\ zk'.pc = "next" => ToResume' = {p \in Nodes : p \in zk'.todo}
  /\ zk'.pc \in {"create", "check", "make", "recreate", "retry"} =>
       ToResume' = {p \in Nodes : p \in zk'.todo \/ p = zk'.cur}
  /\ zk'.pc = "idle" => ToResume' = {}
  BY DEF ToResume, Resuming

LEMMA AtSays ==
  ASSUME zk \in ZkType, AtNode, NEW pc \in {"create", "check", "make", "recreate", "retry"},
         NEW try \in {1, 2},
         zk' = [zk EXCEPT !.pc = pc] \/ zk' = [zk EXCEPT !.pc = pc, !.try = try]
  PROVE  zk' \in ZkType /\ ToResume' \subseteq ToResume
<1>1. /\ zk.cur \in Nodes /\ zk.todo \subseteq Nodes /\ zk.try \in {1, 2}
      /\ zk = [pc |-> zk.pc, cur |-> zk.cur, todo |-> zk.todo, try |-> zk.try]
  BY ZkSays
<1>2. \/ zk' = [pc |-> pc, cur |-> zk.cur, todo |-> zk.todo, try |-> zk.try]
      \/ zk' = [pc |-> pc, cur |-> zk.cur, todo |-> zk.todo, try |-> try]
  BY <1>1
<1>3. /\ zk' \in [pc : {"create", "check", "make", "recreate", "retry"},
                   cur : Nodes, todo : SUBSET Nodes, try : {1, 2}]
      /\ zk'.pc = pc /\ zk'.cur = zk.cur /\ zk'.todo = zk.todo
  BY <1>1, <1>2
<1>4. ToResume' = ToResume
  BY <1>3, ToResumeSays, ToResumeNextSays
<1>5. QED
  BY <1>3, <1>4 DEF ZkType

LEMMA NextNodeSays ==
  ASSUME zk \in ZkType, AtNode, doubt \subseteq Nodes, NEW rc, NextNode(rc)
  PROVE  zk' \in ZkType /\ ToResume' \subseteq ToResume /\ doubt' \subseteq Nodes
<1>1. zk.cur \in Nodes /\ zk.todo \subseteq Nodes
  BY ZkSays
<1>2. zk' = [pc |-> "next", todo |-> zk.todo] /\ doubt' \subseteq Nodes
  BY <1>1 DEF NextNode
<1>3. zk' \in ZkType /\ zk'.pc = "next" /\ zk'.todo = zk.todo
  BY <1>1, <1>2 DEF ZkType
<1>4. ToResume' \subseteq ToResume
  BY <1>3, ToResumeSays, ToResumeNextSays
<1>5. QED
  BY <1>2, <1>3, <1>4

LEMMA PathFailedSays ==
  ASSUME zk \in ZkType, AtNode, doubt \subseteq Nodes, NEW rc, PathFailed(rc)
  PROVE  zk' \in ZkType /\ ToResume' \subseteq ToResume /\ doubt' \subseteq Nodes
<1>1. CASE zk.try = 1
  BY <1>1, AtSays DEF PathFailed
<1>2. CASE zk.try # 1
  BY <1>2, NextNodeSays DEF PathFailed
<1>3. QED
  BY <1>1, <1>2

LEMMA ZkCallSays ==
  ASSUME tree \in Trees, NEW ops \in Seq(Ops), NEW rc, ZkCall(ops, rc)
  PROVE  /\ tree' \in Trees /\ \A p \in Nodes : p \notin PathsOf(ops) => tree'[p] = tree[p]
         /\ \/ completions' = completions
            \/ link = "up" /\ completions' = Append(completions, Connected)
<1>1. tree' = tree \/ tree' = Execute(ops, tree).tree
  BY DEF ZkCall
<1>2. /\ Execute(ops, tree).tree \in Trees
      /\ \A p \in Paths \ PathsOf(ops) : Execute(ops, tree).tree[p] = tree[p]
  BY ExecuteSays
<1>3. \/ completions' = completions
      \/ link = "up" /\ completions' = Append(completions, Connected)
  BY DEF ZkCall
<1>4. QED
  BY <1>1, <1>2, <1>3, NamesDiffer

LEMMA RecreateSays ==
  ASSUME MemoryInv, AtNode, NEW rc, Recreate(rc), Written(rc)
  PROVE  /\ tree' \in Trees
         /\ \A p \in Nodes : tree'[p] = tree[p] \/ m_ephemeral_node_info[p] # Absent
         /\ m_ephemeral_node_info' \in Registries /\ orphans' \subseteq orphans
         /\ \A p \in Nodes :
              m_ephemeral_node_info'[p] = Absent <=> m_ephemeral_node_info[p] = Absent
         /\ NoNuls => m_ephemeral_node_info' = m_ephemeral_node_info
         /\ \/ completions' = completions
            \/ link = "up" /\ completions' = Append(completions, Connected)
<1>1. /\ tree \in Trees /\ m_ephemeral_node_info \in Registries /\ zk \in ZkType
      /\ \A p \in ToResume : m_ephemeral_node_info[p] # Absent
  BY DEF MemoryInv, MemoryTypes, ResumesOwn
<1>2. PICK p \in Nodes : p = zk.cur /\ m_ephemeral_node_info[p] # Absent
  BY <1>1, ZkSays, ToResumeSays
<1>3. PICK i \in Info : i = m_ephemeral_node_info[p]
  BY <1>1, <1>2, RegistrySays
<1>4. PICK j \in Info : j = Recreated(p) /\ (NoNuls => j = i)
  <2>1. i \in [Fields -> Values] /\ "Data" \in Fields /\ i["Data"] \in Values
    BY <1>3, FieldsAssumption DEF Info
  <2>2. CString[i["Data"]] \in Values
    BY <2>1, CStringAssumption
  <2>3. PICK j \in Info : j = [i EXCEPT !["Data"] = CString[i["Data"]]]
    BY <2>2, InfoSet
  <2>4. NoNuls => j = i
    BY <2>1, <2>3 DEF NoNuls
  <2>5. Recreated(p) = [i EXCEPT !["Data"] = CString[i["Data"]]]
    BY <1>3 DEF Recreated
  <2>6. QED
    BY <2>3, <2>4, <2>5
<1>5. PICK op \in Ops : op = CreateOp(p, j)
  BY NodeOpsSay
<1>6. op.path = p
  BY <1>5 DEF CreateOp
<1>7. ZkCall(<<op>>, rc) /\ <<op>> \in Seq(Ops) /\ PathsOf(<<op>>) = {p}
  BY <1>2, <1>4, <1>5, <1>6, OneOp DEF Recreate
<1>8. /\ tree' \in Trees /\ \A q \in Nodes : q # p => tree'[q] = tree[q]
      /\ \/ completions' = completions
         \/ link = "up" /\ completions' = Append(completions, Connected)
  BY <1>1, <1>7, ZkCallSays
<1>9. /\ orphans' \subseteq orphans
      /\ m_ephemeral_node_info' = IF rc = "ZOK" THEN [m_ephemeral_node_info EXCEPT ![p] = j]
                                  ELSE m_ephemeral_node_info
  BY <1>2, <1>4 DEF Written, Register
<1>10. CASE rc = "ZOK"
  <2>1. /\ m_ephemeral_node_info' \in Registries /\ m_ephemeral_node_info'[p] = j
        /\ \A q \in Nodes : q # p => m_ephemeral_node_info'[q] = m_ephemeral_node_info[q]
    BY <1>1, <1>9, <1>10, RegistrySays
  <2>2. j # Absent
    BY NamesDiffer
  <2>3. NoNuls => m_ephemeral_node_info' = m_ephemeral_node_info
    BY <1>1, <1>3, <1>4, <2>1 DEF Registries
  <2>4. QED
    BY <1>2, <1>8, <1>9, <2>1, <2>2, <2>3
<1>11. CASE rc # "ZOK"
  BY <1>1, <1>2, <1>8, <1>9, <1>11
<1>12. QED
  BY <1>10, <1>11

LEMMA ResumeSays ==
  ASSUME MemoryInv,
         \/ ResumeNode \/ ResumeCreate \/ ResumeCheckParent \/ ResumeMakeParent
         \/ ResumeRecreate \/ ResumeRetry \/ ResumeEnd
  PROVE  Resumed
<1>r. /\ tree \in Trees /\ m_ephemeral_node_info \in Registries /\ zk \in ZkType
      /\ doubt \subseteq Nodes /\ orphans \subseteq Nodes
  BY DEF MemoryInv, MemoryTypes
<1>1. CASE ResumeNode
  <2>1. PICK p \in zk.todo :
          zk' = [pc |-> "create", cur |-> p, todo |-> zk.todo \ {p}, try |-> 1]
    BY <1>1 DEF ResumeNode
  <2>2. zk.pc = "next" /\ zk.todo \subseteq Nodes /\ p \in Nodes
    BY <1>1, <1>r, ZkSays DEF ResumeNode
  <2>3. zk' \in ZkType /\ zk'.pc = "create" /\ zk'.cur = p /\ zk'.todo = zk.todo \ {p}
    BY <2>1, <2>2 DEF ZkType
  <2>4. ToResume' \subseteq ToResume
    BY <2>2, <2>3, ToResumeSays, ToResumeNextSays
  <2>5. /\ UNCHANGED <<link, requests, user, deleted>> /\ tree' = tree
        /\ m_ephemeral_node_info' = m_ephemeral_node_info /\ completions' = completions
        /\ doubt' = doubt /\ orphans' = orphans /\ m_need_resume_env' = m_need_resume_env
    BY <1>1 DEF ResumeNode, server, pipe, registry, history
  <2>6. QED
    BY <1>r, <2>2, <2>3, <2>4, <2>5 DEF Resumed, Resuming
<1>2. CASE ResumeEnd
  <2>1. zk' = Idle /\ zk.pc = "next" /\ zk' \in ZkType /\ zk'.pc = "idle"
        /\ m_need_resume_env' = FALSE
    BY <1>2 DEF ResumeEnd, ZkType, Idle
  <2>2. ToResume' \subseteq ToResume
    BY <2>1, ToResumeNextSays
  <2>3. /\ UNCHANGED <<link, requests, user, deleted>> /\ tree' = tree
        /\ m_ephemeral_node_info' = m_ephemeral_node_info /\ completions' = completions
        /\ doubt' = doubt /\ orphans' = orphans
    BY <1>2 DEF ResumeEnd, server, pipe, history
  <2>4. QED
    BY <1>r, <2>1, <2>2, <2>3 DEF Resumed, Resuming
<1>3. CASE ResumeCreate \/ ResumeRecreate \/ ResumeRetry
  <2>1. PICK rc \in Codes :
          /\ Recreate(rc) /\ Written(rc)
          /\ \/ NextNode(rc)
             \/ \E pc \in {"create", "check", "make", "recreate", "retry"} : At(pc)
    BY <1>3 DEF ResumeCreate, ResumeRecreate, ResumeRetry
  <2>2. AtNode /\ Resuming /\ UNCHANGED <<link, requests, m_need_resume_env, user, deleted>>
    BY <1>3 DEF ResumeCreate, ResumeRecreate, ResumeRetry, AtNode, Resuming
  <2>3. zk' \in ZkType /\ ToResume' \subseteq ToResume /\ doubt' \subseteq Nodes
    <3>1. CASE NextNode(rc)
      BY <1>r, <2>2, <3>1, NextNodeSays
    <3>2. CASE \E pc \in {"create", "check", "make", "recreate", "retry"} : At(pc)
      <4>1. PICK pc \in {"create", "check", "make", "recreate", "retry"} : At(pc)
        BY <3>2
      <4>2. zk' = [zk EXCEPT !.pc = pc] /\ doubt' = doubt
        BY <4>1 DEF At
      <4>3. QED
        BY <1>r, <2>2, <4>2, AtSays
    <3>3. QED
      BY <2>1, <3>1, <3>2
  <2>4. /\ tree' \in Trees
        /\ \A p \in Nodes : tree'[p] = tree[p] \/ m_ephemeral_node_info[p] # Absent
        /\ m_ephemeral_node_info' \in Registries /\ orphans' \subseteq orphans
        /\ \A p \in Nodes :
             m_ephemeral_node_info'[p] = Absent <=> m_ephemeral_node_info[p] = Absent
        /\ NoNuls => m_ephemeral_node_info' = m_ephemeral_node_info
        /\ \/ completions' = completions
           \/ link = "up" /\ completions' = Append(completions, Connected)
    BY <2>1, <2>2, RecreateSays
  <2>5. QED
    BY <1>r, <2>2, <2>3, <2>4 DEF Resumed
<1>4. CASE ResumeCheckParent \/ ResumeMakeParent
  <2>0. CheckOp(Parent) \in Ops /\ CreateOp(Parent, Plain) \in Ops
        /\ CheckOp(Parent).path = Parent /\ CreateOp(Parent, Plain).path = Parent
    BY NodeOpsSay DEF CheckOp, CreateOp
  <2>1. PICK rc \in Codes, op \in Ops :
          /\ op.path = Parent /\ ZkCall(<<op>>, rc)
          /\ \/ PathFailed(rc)
             \/ \E pc \in {"create", "check", "make", "recreate", "retry"} : At(pc)
    BY <1>4, <2>0 DEF ResumeCheckParent, ResumeMakeParent
  <2>2. /\ AtNode /\ Resuming
        /\ UNCHANGED <<link, requests, m_need_resume_env, m_ephemeral_node_info, user,
                       orphans, deleted>>
    BY <1>4 DEF ResumeCheckParent, ResumeMakeParent, AtNode, Resuming, registry
  <2>3. zk' \in ZkType /\ ToResume' \subseteq ToResume /\ doubt' \subseteq Nodes
    <3>1. CASE PathFailed(rc)
      BY <1>r, <2>2, <3>1, PathFailedSays
    <3>2. CASE \E pc \in {"create", "check", "make", "recreate", "retry"} : At(pc)
      <4>1. PICK pc \in {"create", "check", "make", "recreate", "retry"} : At(pc)
        BY <3>2
      <4>2. zk' = [zk EXCEPT !.pc = pc] /\ doubt' = doubt
        BY <4>1 DEF At
      <4>3. QED
        BY <1>r, <2>2, <4>2, AtSays
    <3>3. QED
      BY <2>1, <3>1, <3>2
  <2>4. <<op>> \in Seq(Ops) /\ PathsOf(<<op>>) = {Parent}
    BY <2>1, OneOp
  <2>5. /\ tree' \in Trees /\ \A p \in Nodes : p \notin PathsOf(<<op>>) => tree'[p] = tree[p]
        /\ \/ completions' = completions
           \/ link = "up" /\ completions' = Append(completions, Connected)
    BY <1>r, <2>1, <2>4, ZkCallSays
  <2>6. \A p \in Nodes : tree'[p] = tree[p]
    BY <2>4, <2>5, NamesDiffer
  <2>7. QED
    BY <1>r, <2>2, <2>3, <2>5, <2>6 DEF Resumed
<1>5. QED
  BY <1>1, <1>2, <1>3, <1>4

\* The server's part of what the environment does.
ServedSome ==
  /\ tree' \in Trees
  /\ \A p \in Nodes :
       (\A k \in DOMAIN requests : p \notin PathsOf(requests[k].ops)) => tree'[p] = tree[p]
  /\ \A p \in Nodes :
       (\A k \in DOMAIN requests : ~Creates(requests[k].ops, p)) /\ tree[p] = Absent
         => tree'[p] = Absent

LEMMA DisconnectSays ==
  ASSUME PipeTypes, tree \in Trees, Disconnect \/ Restart
  PROVE  ServedSome
<1>1. requests \in Seq(RequestType)
  BY DEF PipeTypes
<1>2. PICK k \in 0..Len(requests) : tree' = ExecuteFirst(k, tree)
  BY DEF Disconnect, Restart
<1>3. QED
  BY <1>1, <1>2, ExecuteFirstSays DEF ServedSome

LEMMA ExpireSays ==
  ASSUME PipeTypes, tree \in Trees, Expire
  PROVE  tree' \in Trees /\ \A p \in Nodes : tree'[p] = Absent
<1>1. requests \in Seq(RequestType)
  BY DEF PipeTypes
<1>2. PICK k \in 0..Len(requests) :
        tree' = [p \in Paths |-> IF p \in Nodes THEN Absent ELSE ExecuteFirst(k, tree)[p]]
  BY DEF Expire
<1>3. PICK t \in Trees : t = ExecuteFirst(k, tree)
  BY <1>1, ExecuteFirstSays
<1>4. t[Parent] \in {Absent, Plain}
  BY DEF Trees
<1>5. tree' = [p \in Paths |-> IF p \in Nodes THEN Absent ELSE t[p]]
  BY <1>2, <1>3
<1>6. \A p \in Paths : p \in Nodes \/ p = Parent
  BY NamesDiffer
<1>7. tree'[Parent] \in {Absent, Plain} /\ \A p \in Nodes : tree'[p] = Absent
  BY <1>4, <1>5, NamesDiffer
<1>8. tree' \in [Paths -> Info \union {Absent, Plain}]
  BY <1>4, <1>5, <1>6
<1>9. QED
  BY <1>7, <1>8 DEF Trees

LEMMA ChangeParentSays ==
  ASSUME tree \in Trees, ChangeParent
  PROVE  tree' \in Trees /\ \A p \in Nodes : tree'[p] = tree[p]
<1>1. PICK i \in {Absent, Plain} : tree' = [tree EXCEPT ![Parent] = i]
  BY DEF ChangeParent
<1>2. tree \in [Paths -> Info \union {Absent, Plain}] /\ Parent \in Paths
  BY NamesDiffer DEF Trees
<1>3. tree' \in [Paths -> Info \union {Absent, Plain}] /\ tree'[Parent] = i
      /\ \A p \in Nodes : tree'[p] = tree[p]
  BY <1>1, <1>2, NamesDiffer
<1>4. \A p \in Nodes : tree[p] = Absent
  BY DEF ChangeParent, Existing
<1>5. QED
  BY <1>3, <1>4 DEF Trees

\* The memory after a step of another thread than the zk thread.
LEMMA MemoryQuiet ==
  ASSUME MemoryInv, tree' \in Trees, m_ephemeral_node_info' \in Registries,
         link' \in {"up", "expired"}, m_need_resume_env' \in BOOLEAN,
         doubt' \subseteq Nodes, orphans' \subseteq Nodes, deleted' \subseteq Nodes,
         \/ zk' = zk /\ (Resuming => m_ephemeral_node_info' = m_ephemeral_node_info)
         \/ zk' = Idle
  PROVE  MemoryInv'
<1>1. zk' \in ZkType
  BY DEF MemoryInv, MemoryTypes, ZkType
<1>2. MemoryTypes'
  BY <1>1 DEF MemoryTypes
<1>3. ResumesOwn'
  <2>1. CASE zk' = Idle
    <3>1. ToResume' = {}
      BY <2>1, ToResumeNextSays DEF Idle
    <3>2. QED
      BY <3>1 DEF ResumesOwn
  <2>2. CASE zk' = zk /\ ~Resuming
    <3>1. ToResume' = {}
      BY <2>2, ToResumeNextSays DEF Resuming
    <3>2. QED
      BY <3>1 DEF ResumesOwn
  <2>3. CASE zk' = zk /\ Resuming
    <3>1. m_ephemeral_node_info' = m_ephemeral_node_info
      BY <2>3 DEF Resuming, Idle
    <3>2. ToResume' = ToResume
      BY <2>3 DEF ToResume, Resuming
    <3>3. QED
      BY <3>1, <3>2 DEF MemoryInv, ResumesOwn
  <2>4. QED
    BY <2>1, <2>2, <2>3
<1>4. QED
  BY <1>2, <1>3 DEF MemoryInv

LEMMA CalledKeeps ==
  ASSUME PipeInv, MemoryInv, Called
  PROVE  PipeInv' /\ MemoryInv'
<1>1. PICK call \in AsyncCalls \union SyncCalls, ops \in Seq(Ops), ctx \in Ctxs :
        Call(call, ops, ctx) /\ CallSays(call, ops, ctx)
  BY DEF Called
<1>2. /\ user.pc = "idle" /\ Send(call, ops, ctx) /\ CallOK(call, ops, ctx)
      /\ UNCHANGED <<server, completions, registry, zk, doubt, orphans>>
      /\ deleted' \subseteq deleted
  BY <1>1 DEF Call, Calling, CallSays
<1>3. PipeInv'
  BY <1>2, PipeSend
<1>4. /\ tree' = tree /\ link' = link /\ m_ephemeral_node_info' = m_ephemeral_node_info
      /\ m_need_resume_env' = m_need_resume_env /\ zk' = zk /\ doubt' = doubt
      /\ orphans' = orphans
  BY <1>2 DEF server, registry
<1>5. MemoryInv'
  <2>1. MemoryTypes
    BY DEF MemoryInv
  <2>2. QED
    BY <1>2, <1>4, <2>1, MemoryQuiet DEF MemoryTypes
<1>6. QED
  BY <1>3, <1>5

LEMMA EndedKeeps ==
  ASSUME PipeInv, MemoryInv, Ended
  PROVE  PipeInv' /\ MemoryInv'
<1>1. PipeInv'
  <2>1. user.pc # "sent" /\ UNCHANGED pipe /\ user' \in {Idle, [pc |-> "erase"]}
    BY DEF Ended
  <2>2. QED
    BY <2>1, PipeDone
<1>2. MemoryInv'
  <2>1. MemoryTypes
    BY DEF MemoryInv
  <2>2. /\ tree' = tree /\ link' = link /\ m_ephemeral_node_info' \in Registries
        /\ m_need_resume_env' = m_need_resume_env /\ zk' = zk /\ doubt' = doubt
        /\ orphans' \subseteq orphans /\ ~Resuming
    BY DEF Ended, server
  <2>3. deleted' \subseteq Nodes
    <3>1. \A p \in deleted' : p \in deleted \/ p \in Nodes
      BY DEF Ended
    <3>2. QED
      BY <2>1, <3>1 DEF MemoryTypes
  <2>4. QED
    BY <2>1, <2>2, <2>3, MemoryQuiet DEF MemoryTypes
<1>3. QED
  BY <1>1, <1>2

LEMMA ContinuedKeeps ==
  ASSUME PipeInv, MemoryInv, Continued
  PROVE  PipeInv' /\ MemoryInv'
<1>1. PICK call \in SyncCalls \ {"DeletePathRecursion"}, ops \in Seq(Ops) :
        Send(call, ops, user.ctx) /\ CallOK(call, ops, user.ctx)
  BY DEF Continued
<1>2. user.pc = "answered" /\ user.ctx \in Ctxs /\ completions' = completions
  BY AnsweredSays DEF Continued
<1>3. PipeInv'
  BY <1>1, <1>2, PipeSend, CallsDiffer
<1>4. /\ tree' = tree /\ link' = link /\ m_ephemeral_node_info' = m_ephemeral_node_info
      /\ m_need_resume_env' = m_need_resume_env /\ zk' = zk /\ doubt' = doubt
      /\ orphans' = orphans /\ deleted' = deleted
  BY DEF Continued, server, registry, history
<1>5. MemoryInv'
  <2>1. MemoryTypes
    BY DEF MemoryInv
  <2>2. QED
    BY <1>4, <2>1, MemoryQuiet DEF MemoryTypes
<1>6. QED
  BY <1>3, <1>5

LEMMA RefusedKeeps ==
  ASSUME PipeInv, MemoryInv, Refused
  PROVE  PipeInv' /\ MemoryInv'
<1>1. PICK call \in SyncCalls, ops \in Seq(Ops), ctx \in Ctxs :
        Refuse(call, ops, ctx) /\ CallOK(call, ops, ctx)
  BY DEF Refused
<1>2. user.pc \in {"idle", "answered"} /\ completions' = completions
  BY DEF Refused
<1>3. PipeInv'
  BY <1>1, <1>2, PipeRefuse
<1>4. /\ tree' = tree /\ link' = link /\ m_ephemeral_node_info' = m_ephemeral_node_info
      /\ m_need_resume_env' = m_need_resume_env /\ zk' = zk /\ doubt' = doubt
      /\ orphans' = orphans /\ deleted' \subseteq deleted
  BY DEF Refused, server, registry
<1>5. MemoryInv'
  <2>1. MemoryTypes
    BY DEF MemoryInv
  <2>2. QED
    BY <1>4, <2>1, MemoryQuiet DEF MemoryTypes
<1>6. QED
  BY <1>3, <1>5

LEMMA TailKeeps ==
  ASSUME PipeInv, completions # <<>>, completions' = Tail(completions),
         UNCHANGED <<requests, user>>
  PROVE  PipeInv'
<1>1. completions \in Seq(AnswerType \union {Connected, Expired})
  BY DEF PipeInv, PipeTypes
<1>2. /\ completions' \in Seq(AnswerType \union {Connected, Expired})
      /\ \A k \in DOMAIN completions' :
           k + 1 \in DOMAIN completions /\ completions'[k] = completions[k + 1]
  BY <1>1, TailSays
<1>3. QED
  BY <1>2, PipeCompletions

LEMMA AppendKeeps ==
  ASSUME PipeInv, completions' = Append(completions, Connected), UNCHANGED <<requests, user>>
  PROVE  PipeInv'
<1>1. completions \in Seq(AnswerType \union {Connected, Expired})
  BY DEF PipeInv, PipeTypes
<1>2. /\ completions' \in Seq(AnswerType \union {Connected, Expired})
      /\ completions'[Len(completions) + 1] = Connected
      /\ \A k \in DOMAIN completions : completions'[k] = completions[k]
      /\ \A k \in DOMAIN completions' : k \in DOMAIN completions \/ k = Len(completions) + 1
  BY <1>1, AppendSays
<1>3. \A k \in DOMAIN completions' : completions'[k].call \in AsyncCalls =>
        \E j \in DOMAIN completions : completions'[k] = completions[j]
  BY <1>2, CallsDiffer
<1>4. QED
  BY <1>2, <1>3, PipeCompletions

LEMMA RecordedKeeps ==
  ASSUME PipeInv, MemoryInv, Recorded
  PROVE  PipeInv' /\ MemoryInv'
<1>1. PipeInv'
  <2>1. /\ completions # <<>> /\ completions' = Tail(completions)
        /\ UNCHANGED <<requests, user>>
    BY DEF Recorded
  <2>2. QED
    BY <2>1, TailKeeps
<1>2. MemoryInv'
  <2>1. MemoryTypes
    BY DEF MemoryInv
  <2>2. /\ tree' = tree /\ link' = link /\ m_ephemeral_node_info' \in Registries
        /\ m_need_resume_env' = m_need_resume_env /\ zk' = zk /\ doubt' = doubt
        /\ orphans' \subseteq orphans /\ ~Resuming
    BY DEF Recorded, server
  <2>3. deleted' \subseteq Nodes
    <3>1. \A p \in deleted' : p \in deleted \/ p \in Nodes
      BY DEF Recorded
    <3>2. QED
      BY <2>1, <3>1 DEF MemoryTypes
  <2>4. QED
    BY <2>1, <2>2, <2>3, MemoryQuiet DEF MemoryTypes
<1>3. QED
  BY <1>1, <1>2

LEMMA ResumedKeeps ==
  ASSUME PipeInv, MemoryInv, Resumed
  PROVE  PipeInv' /\ MemoryInv'
<1>1. PipeInv'
  <2>1. UNCHANGED <<requests, user>>
    BY DEF Resumed
  <2>2. CASE completions' = completions
    <3>1. completions' \in Seq(AnswerType \union {Connected, Expired})
      BY <2>2 DEF PipeInv, PipeTypes
    <3>2. QED
      BY <2>1, <2>2, <3>1, PipeCompletions
  <2>3. CASE completions' = Append(completions, Connected)
    BY <2>1, <2>3, AppendKeeps
  <2>4. QED
    BY <2>2, <2>3 DEF Resumed
<1>2. MemoryTypes'
  BY DEF MemoryInv, MemoryTypes, Resumed
<1>3. ResumesOwn'
  <2>1. \A p \in ToResume : p \in Nodes /\ m_ephemeral_node_info[p] # Absent
    BY DEF MemoryInv, ResumesOwn, ToResume
  <2>2. \A p \in ToResume' : m_ephemeral_node_info'[p] # Absent
    BY <2>1 DEF Resumed
  <2>3. QED
    BY <2>2 DEF ResumesOwn
<1>4. QED
  BY <1>1, <1>2, <1>3 DEF MemoryInv

LEMMA ReconnectKeeps ==
  ASSUME PipeInv, MemoryInv, Reconnect
  PROVE  PipeInv' /\ MemoryInv'
<1>1. completions \in Seq(AnswerType \union {Connected, Expired}) /\ completions # <<>>
      /\ completions' = Append(Tail(completions), Connected) /\ UNCHANGED <<requests, user>>
  BY DEF PipeInv, PipeTypes, Reconnect
<1>2. PICK rest : rest = Tail(completions)
  OBVIOUS
<1>r. /\ rest \in Seq(AnswerType \union {Connected, Expired})
      /\ \A k \in DOMAIN rest : k + 1 \in DOMAIN completions /\ rest[k] = completions[k + 1]
  BY <1>1, <1>2, TailSays
<1>3. /\ completions' \in Seq(AnswerType \union {Connected, Expired})
      /\ completions'[Len(rest) + 1] = Connected
      /\ \A k \in DOMAIN rest : completions'[k] = rest[k]
      /\ \A k \in DOMAIN completions' : k \in DOMAIN rest \/ k = Len(rest) + 1
  BY <1>1, <1>2, <1>r, AppendSays
<1>4. \A k \in DOMAIN completions' : completions'[k].call \in AsyncCalls =>
        \E j \in DOMAIN completions : completions'[k] = completions[j]
  BY <1>r, <1>3, CallsDiffer
<1>5. PipeInv'
  BY <1>1, <1>3, <1>4, PipeCompletions
<1>6. MemoryInv'
  <2>1. MemoryTypes
    BY DEF MemoryInv
  <2>2. /\ tree' = tree /\ link' = "up" /\ m_need_resume_env' = TRUE
        /\ m_ephemeral_node_info' = m_ephemeral_node_info /\ zk' = zk
        /\ doubt' = {} /\ orphans' = {} /\ deleted' = deleted
    BY DEF Reconnect
  <2>3. QED
    BY <2>1, <2>2, MemoryQuiet DEF MemoryTypes
<1>7. QED
  BY <1>5, <1>6

LEMMA ConnectedEventKeeps ==
  ASSUME PipeInv, MemoryInv, ConnectedEvent
  PROVE  PipeInv' /\ MemoryInv'
<1>1. /\ completions # <<>> /\ completions' = Tail(completions) /\ zk.pc = "idle"
      /\ UNCHANGED <<requests, user>> /\ tree' = tree /\ link' = link
      /\ m_ephemeral_node_info' = m_ephemeral_node_info
      /\ m_need_resume_env' = m_need_resume_env
      /\ doubt' = doubt /\ orphans' = orphans /\ deleted' = deleted
      /\ \/ zk' = zk
         \/ zk' = [pc |-> "next", todo |-> Existing(m_ephemeral_node_info)]
  BY DEF ConnectedEvent, Handles, server, registry, history
<1>2. PipeInv'
  BY <1>1, TailKeeps
<1>3. MemoryTypes /\ ResumesOwn
  BY DEF MemoryInv
<1>4. CASE zk' = zk
  <2>1. MemoryInv'
    BY <1>1, <1>3, <1>4, MemoryQuiet DEF MemoryTypes
  <2>2. QED
    BY <1>2, <2>1
<1>5. CASE zk' = [pc |-> "next", todo |-> Existing(m_ephemeral_node_info)]
  <2>1. zk' \in ZkType /\ zk'.pc = "next" /\ zk'.todo = Existing(m_ephemeral_node_info)
    BY <1>5 DEF ZkType, Existing
  <2>2. \A p \in ToResume' : m_ephemeral_node_info[p] # Absent
    BY <2>1, ToResumeNextSays DEF Existing
  <2>3. MemoryTypes'
    BY <1>1, <1>3, <2>1 DEF MemoryTypes
  <2>4. QED
    BY <1>1, <1>2, <2>2, <2>3 DEF MemoryInv, ResumesOwn
<1>6. QED
  BY <1>1, <1>4, <1>5

LEMMA ServerKeeps ==
  ASSUME PipeInv, MemoryInv, Serve \/ Environment
  PROVE  PipeInv' /\ MemoryInv'
<1>t. PipeTypes /\ MemoryTypes /\ tree \in Trees
  BY DEF PipeInv, MemoryInv, MemoryTypes
<1>1. CASE Serve
  <2>1. PipeInv'
    BY <1>t, <1>1, PipeServe
  <2>2. tree' \in Trees
    <3>1. PICK ops \in Seq(Ops) : ops = requests[1].ops
      BY <1>t, <1>1, ServeSays, PipeSays
    <3>2. tree' = Execute(ops, tree).tree
      BY <1>t, <1>1, <3>1, ServeSays
    <3>3. QED
      BY <1>t, <3>2, ExecuteSays
  <2>3. /\ link' = link /\ m_ephemeral_node_info' = m_ephemeral_node_info
        /\ m_need_resume_env' = m_need_resume_env /\ zk' = zk /\ doubt' = doubt
        /\ orphans' = orphans /\ deleted' = deleted
    BY <1>1 DEF Serve, registry, history
  <2>4. MemoryInv'
    BY <1>t, <2>2, <2>3, MemoryQuiet DEF MemoryTypes
  <2>5. QED
    BY <2>1, <2>4
<1>2. CASE Disconnect
  <2>1. PipeInv'
    BY <1>2, PipeFail DEF Disconnect, RCs
  <2>2. tree' \in Trees
    BY <1>t, <1>2, DisconnectSays DEF ServedSome
  <2>3. /\ link' = link /\ m_ephemeral_node_info' = m_ephemeral_node_info
        /\ m_need_resume_env' = m_need_resume_env /\ zk' = zk
        /\ orphans' = orphans /\ deleted' = deleted
    BY <1>2 DEF Disconnect, registry
  <2>4. doubt' \subseteq Nodes
    BY <1>t, <1>2 DEF Disconnect, MemoryTypes
  <2>5. MemoryInv'
    BY <1>t, <2>2, <2>3, <2>4, MemoryQuiet DEF MemoryTypes
  <2>6. QED
    BY <2>1, <2>5
<1>3. CASE Expire
  <2>1. PipeInv'
    BY <1>3, PipeFail DEF Expire, RCs
  <2>2. tree' \in Trees
    BY <1>t, <1>3, ExpireSays
  <2>3. /\ link' = "expired" /\ m_ephemeral_node_info' = m_ephemeral_node_info
        /\ m_need_resume_env' = m_need_resume_env /\ zk' = zk /\ doubt' = doubt
        /\ orphans' = orphans /\ deleted' = deleted
    BY <1>3 DEF Expire, registry, history
  <2>4. MemoryInv'
    BY <1>t, <2>2, <2>3, MemoryQuiet DEF MemoryTypes
  <2>5. QED
    BY <2>1, <2>4
<1>4. CASE ChangeParent
  <2>1. /\ link' = link /\ requests' = requests /\ completions' = completions /\ user' = user
        /\ m_ephemeral_node_info' = m_ephemeral_node_info
        /\ m_need_resume_env' = m_need_resume_env /\ zk' = zk /\ doubt' = doubt
        /\ orphans' = orphans /\ deleted' = deleted
    BY <1>4 DEF ChangeParent, pipe, registry, history
  <2>2. completions' \in Seq(AnswerType \union {Connected, Expired})
    BY <1>t, <2>1 DEF PipeTypes
  <2>3. PipeInv'
    BY <2>1, <2>2, PipeCompletions
  <2>4. tree' \in Trees
    BY <1>t, <1>4, ChangeParentSays
  <2>5. MemoryInv'
    BY <1>t, <2>1, <2>4, MemoryQuiet DEF MemoryTypes
  <2>6. QED
    BY <2>3, <2>5
<1>5. CASE Restart
  <2>1. /\ link' = link /\ requests' = <<>> /\ user' = Idle /\ zk' = Idle
        /\ completions' = <<IF link = "up" THEN Connected ELSE Expired>>
        /\ m_ephemeral_node_info' = [p \in Nodes |-> Absent] /\ m_need_resume_env' = TRUE
        /\ doubt' = {} /\ orphans' = Existing(tree') /\ deleted' = deleted
    BY <1>5 DEF Restart
  <2>2. PICK event \in {Connected, Expired} : completions' = <<event>>
    BY <2>1
  <2>3. /\ completions' \in Seq(AnswerType \union {Connected, Expired})
        /\ DOMAIN completions' = {1} /\ completions'[1] = event
    BY <2>2
  <2>4. user' \in UserType /\ user'.pc = "idle"
    BY <2>1 DEF UserType, Idle
  <2>5. PipeTypes'
    BY <2>1, <2>3, <2>4 DEF PipeTypes
  <2>6. CallsOK'
    BY <2>1, <2>3, <2>4, CallsDiffer DEF CallsOK, IsAnswer
  <2>7. SyncLast'
    BY <2>1, <2>4 DEF SyncLast
  <2>8. tree' \in Trees
    BY <1>t, <1>5, DisconnectSays DEF ServedSome
  <2>9. m_ephemeral_node_info' \in Registries /\ orphans' \subseteq Nodes
    BY <2>1 DEF Registries, Existing
  <2>10. MemoryInv'
    BY <1>t, <2>1, <2>8, <2>9, MemoryQuiet DEF MemoryTypes
  <2>11. QED
    BY <2>5, <2>6, <2>7, <2>10 DEF PipeInv
<1>6. QED
  BY <1>1, <1>2, <1>3, <1>4, <1>5 DEF Environment

LEMMA BaseNext ==
  ASSUME PipeInv, MemoryInv, [Next]_vars
  PROVE  PipeInv' /\ MemoryInv'
<1>1. CASE UserCall
  BY <1>1, UserCallSays, CalledKeeps, RefusedKeeps DEF MemoryInv
<1>2. CASE UserReturn
  BY <1>2, UserReturnSays, EndedKeeps, ContinuedKeeps, RefusedKeeps
<1>3. CASE ZkThread
  <2>1. CASE Reconnect
    BY <2>1, ReconnectKeeps
  <2>2. CASE ConnectedEvent
    BY <2>2, ConnectedEventKeeps
  <2>3. CASE \/ InnerStringCompletion \/ InnerStatCompletion \/ InnerVoidCompletion
             \/ InnerMultiCompletion
    BY <2>3, CallbackSays, RecordedKeeps
  <2>4. CASE \/ ResumeNode \/ ResumeCreate \/ ResumeCheckParent \/ ResumeMakeParent
             \/ ResumeRecreate \/ ResumeRetry \/ ResumeEnd
    BY <2>4, ResumeSays, ResumedKeeps
  <2>5. QED
    BY <1>3, <2>1, <2>2, <2>3, <2>4 DEF ZkThread
<1>4. CASE Serve \/ Environment
  BY <1>4, ServerKeeps
<1>5. CASE UNCHANGED vars
  <2>1. /\ requests' = requests /\ completions' = completions /\ user' = user /\ tree' = tree
        /\ link' = link /\ m_ephemeral_node_info' = m_ephemeral_node_info
        /\ m_need_resume_env' = m_need_resume_env /\ zk' = zk /\ doubt' = doubt
        /\ orphans' = orphans /\ deleted' = deleted
    BY <1>5 DEF vars
  <2>2. /\ PipeTypes /\ MemoryTypes
        /\ completions' \in Seq(AnswerType \union {Connected, Expired})
    BY <2>1 DEF PipeInv, PipeTypes, MemoryInv
  <2>3. PipeInv'
    BY <2>1, <2>2, PipeCompletions
  <2>4. MemoryInv'
    BY <2>1, <2>2, MemoryQuiet DEF MemoryTypes
  <2>5. QED
    BY <2>3, <2>4
<1>6. QED
  BY <1>1, <1>2, <1>3, <1>4, <1>5 DEF Next

LEMMA BaseInit ==
  Init => PipeInv /\ MemoryInv
<1> SUFFICES ASSUME Init PROVE PipeInv /\ MemoryInv
  OBVIOUS
<1>1. /\ tree = [p \in Paths |-> IF p = Parent THEN Plain ELSE Absent] /\ link = "up"
      /\ requests = <<>> /\ completions = <<>> /\ m_ephemeral_node_info = [p \in Nodes |-> Absent]
      /\ m_need_resume_env = FALSE /\ user = Idle /\ zk = Idle
      /\ doubt = {} /\ orphans = {} /\ deleted = {}
  BY DEF Init
<1>2. tree \in Trees
  <2>1. tree \in [Paths -> Info \union {Absent, Plain}]
    BY <1>1
  <2>2. tree[Parent] = Plain /\ \A p \in Nodes : tree[p] = Absent
    BY <1>1, NamesDiffer
  <2>3. QED
    BY <2>1, <2>2 DEF Trees
<1>3. m_ephemeral_node_info \in Registries
  BY <1>1 DEF Registries
<1>4. user \in UserType /\ user.pc = "idle" /\ zk \in ZkType /\ zk.pc = "idle"
  BY <1>1 DEF UserType, ZkType, Idle
<1>5. PipeTypes
  BY <1>1, <1>4 DEF PipeTypes
<1>6. CallsOK
  BY <1>1, <1>4 DEF CallsOK, IsAnswer
<1>7. SyncLast
  BY <1>1, <1>4 DEF SyncLast
<1>8. MemoryTypes
  BY <1>1, <1>2, <1>3, <1>4 DEF MemoryTypes
<1>9. ResumesOwn
  BY <1>4, ToResumeSays DEF ResumesOwn
<1>10. QED
  BY <1>5, <1>6, <1>7, <1>8, <1>9 DEF PipeInv, MemoryInv

-----------------------------------------------------------------------------
(* What holds of every user and every schedule.                            *)

\* Whatever calls are made, in whatever order, and whatever fails, the server and the
\* registry hold a node's information or nothing: no list of operations and no
\* answer that comes late leaves half an entry (CppZookeeper.cpp, Execute's callers,
\* ProcMultiEphemeralNode, the Inner...Completion callbacks, ReconnectResumeEnv).
THEOREM EphemeralTypeOK == Spec => []TypeOK
<1>1. Init => PipeInv /\ MemoryInv
  BY BaseInit
<1>2. (PipeInv /\ MemoryInv) /\ [Next]_vars => (PipeInv /\ MemoryInv)'
  BY BaseNext
<1>3. PipeInv /\ MemoryInv => TypeOK
  <2> SUFFICES ASSUME MemoryTypes PROVE TypeOK
    BY DEF MemoryInv
  <2>1. /\ tree \in [Paths -> Info \union {Absent, Plain}]
        /\ m_ephemeral_node_info \in [Nodes -> Info \union {Absent}]
    BY DEF MemoryTypes, Trees, Registries
  <2>2. QED
    BY <2>1 DEF MemoryTypes, TypeOK
<1>4. QED
  BY <1>1, <1>2, <1>3, PTL DEF Spec

\* While the environment is resumed, nothing but the resuming itself writes the
\* registry, and what it writes is what is there: the calls that return and the
\* callbacks wait (m_ephemeral_node_info_lock), and a value without a NUL comes back
\* from Create as it went in.
THEOREM ResumingKeepsInfo ==
  ASSUME NoNuls
  PROVE  Spec => ResumeKeepsInfo
<1>1. Init => PipeInv /\ MemoryInv
  BY BaseInit
<1>2. (PipeInv /\ MemoryInv) /\ [Next]_vars => (PipeInv /\ MemoryInv)'
  BY BaseNext
<1>3. PipeInv /\ MemoryInv /\ [Next]_vars
        => [Resuming /\ Resuming' => UNCHANGED m_ephemeral_node_info]_vars
  <2> SUFFICES ASSUME PipeInv, MemoryInv, [Next]_vars, Resuming, Resuming'
               PROVE  m_ephemeral_node_info' = m_ephemeral_node_info
    OBVIOUS
  <2>1. CASE UserCall
    <3>1. Called \/ Refused
      BY <2>1, UserCallSays DEF MemoryInv
    <3>2. QED
      BY <3>1 DEF Called, Call, Calling, Refused, registry
  <2>2. CASE UserReturn
    BY <2>2, UserReturnSays DEF Ended, Continued, Refused, registry
  <2>3. CASE \/ InnerStringCompletion \/ InnerStatCompletion \/ InnerVoidCompletion
             \/ InnerMultiCompletion
    BY <2>3, CallbackSays DEF Recorded
  <2>4. CASE Reconnect \/ ConnectedEvent
    BY <2>4 DEF Reconnect, ConnectedEvent, registry
  <2>5. CASE \/ ResumeNode \/ ResumeCreate \/ ResumeCheckParent \/ ResumeMakeParent
             \/ ResumeRecreate \/ ResumeRetry \/ ResumeEnd
    BY <2>5, ResumeSays DEF Resumed
  <2>6. CASE Serve
    BY <2>6 DEF Serve, registry
  <2>7. CASE Disconnect \/ Expire \/ ChangeParent
    BY <2>7 DEF Disconnect, Expire, ChangeParent, registry
  <2>8. CASE Restart
    BY <2>8 DEF Restart, Resuming, Idle
  <2>9. CASE UNCHANGED vars
    BY <2>9 DEF vars
  <2>10. QED
    BY <2>1, <2>2, <2>3, <2>4, <2>5, <2>6, <2>7, <2>8, <2>9 DEF Next, ZkThread, Environment
<1>4. QED
  BY <1>1, <1>2, <1>3, PTL DEF Spec, ResumeKeepsInfo

-----------------------------------------------------------------------------
(* Sessions.                                                               *)

LEMMA SessionsCalled ==
  ASSUME ResumeWaits, PipeInv, MemoryInv, SessionsOK, Called
  PROVE  SessionsOK'
<1>1. PICK call \in AsyncCalls \union SyncCalls, ops \in Seq(Ops), ctx \in Ctxs :
        Call(call, ops, ctx)
  BY DEF Called
<1>2. /\ link' = "up" /\ link = "up" /\ ~m_need_resume_env /\ ~Resuming
      /\ completions' = completions /\ m_need_resume_env' = m_need_resume_env /\ zk' = zk
  BY <1>1 DEF Call, Calling, server, registry
<1>3. QED
  BY <1>2 DEF SessionsOK, IsAnswer, Resuming

LEMMA SessionsEnded ==
  ASSUME SessionsOK, Ended
  PROVE  SessionsOK'
  BY DEF SessionsOK, IsAnswer, Resuming, Ended, server, pipe

LEMMA SessionsContinued ==
  ASSUME PipeInv, SessionsOK, Continued
  PROVE  SessionsOK'
<1>1. PICK call \in SyncCalls \ {"DeletePathRecursion"}, ops \in Seq(Ops) :
        Send(call, ops, user.ctx)
  BY DEF Continued
<1>a. user.ctx \in Ctxs
  BY AnsweredSays DEF Continued
<1>b. [call |-> call, ops |-> ops, ctx |-> user.ctx] \in RequestType
  BY <1>a DEF RequestType
<1>2. PICK r : r = [call |-> call, ops |-> ops, ctx |-> user.ctx] /\ r \in RequestType
  BY <1>b
<1>3. requests' = Append(requests, r) /\ requests \in Seq(RequestType) /\ r.call \notin AsyncCalls
  BY <1>1, <1>2, CallsDiffer DEF Send, PipeInv, PipeTypes
<1>4. /\ requests'[Len(requests) + 1] = r
      /\ \A k \in DOMAIN requests : requests'[k] = requests[k]
      /\ \A k \in DOMAIN requests' : k \in DOMAIN requests \/ k = Len(requests) + 1
  BY <1>2, <1>3, AppendSays
<1>5. /\ ~Resuming /\ link' = link /\ completions' = completions
      /\ m_need_resume_env' = m_need_resume_env /\ zk' = zk
  BY DEF Continued, server, registry
<1>6. QED
  BY <1>3, <1>4, <1>5 DEF SessionsOK, IsAnswer, Resuming

LEMMA SessionsRefused ==
  ASSUME ResumeWaits, SessionsOK, Refused
  PROVE  SessionsOK'
<1>1. /\ ~Resuming /\ link' = link /\ requests' = requests /\ completions' = completions
      /\ m_need_resume_env' = m_need_resume_env /\ zk' = zk
  BY DEF Refused, server, registry
<1>2. QED
  BY <1>1 DEF SessionsOK, IsAnswer, Resuming

\* The completions without the oldest.
LEMMA SessionsTail ==
  ASSUME PipeInv, SessionsOK, completions # <<>>, completions[1].call # "EXPIRED",
         completions' = Tail(completions),
         UNCHANGED <<requests, link, m_need_resume_env>>,
         Resuming' => m_need_resume_env /\ user'.pc = "idle"
  PROVE  SessionsOK'
<1>1. completions \in Seq(AnswerType \union {Connected, Expired})
  BY DEF PipeInv, PipeTypes
<1>2. /\ Len(completions) \in Nat /\ 1 \in DOMAIN completions
      /\ DOMAIN completions = 1..Len(completions) /\ Len(completions') = Len(completions) - 1
      /\ DOMAIN completions' = 1..(Len(completions) - 1)
      /\ \A k \in DOMAIN completions' :
           k + 1 \in DOMAIN completions /\ completions'[k] = completions[k + 1]
  BY <1>1, TailSays
<1>3. link = "expired" =>
        /\ completions' # <<>>
        /\ \A k \in DOMAIN completions' :
             completions'[k].call = "EXPIRED" <=> k = Len(completions')
  <2> SUFFICES ASSUME link = "expired"
               PROVE  /\ completions' # <<>>
                      /\ \A k \in DOMAIN completions' :
                           completions'[k].call = "EXPIRED" <=> k = Len(completions')
    OBVIOUS
  <2>1. \A k \in DOMAIN completions : completions[k].call = "EXPIRED" <=> k = Len(completions)
    BY DEF SessionsOK
  <2>2. Len(completions) # 1
    BY <1>2, <2>1
  <2>3. Len(completions') # 0
    BY <1>2, <2>2
  <2>4. ASSUME NEW k \in DOMAIN completions'
        PROVE  completions'[k].call = "EXPIRED" <=> k = Len(completions')
    <3>1. k + 1 \in DOMAIN completions /\ completions'[k] = completions[k + 1]
          /\ (k + 1 = Len(completions) <=> k = Len(completions'))
      BY <1>2
    <3>2. QED
      BY <2>1, <3>1
  <2>5. QED
    BY <2>3, <2>4
<1>4. QED
  BY <1>2, <1>3 DEF SessionsOK, IsAnswer

LEMMA SessionsZk ==
  ASSUME ResumeWaits, PipeInv, MemoryInv, SessionsOK,
         Recorded \/ ConnectedEvent \/ Reconnect \/ Resumed
  PROVE  SessionsOK'
<1>t. /\ completions \in Seq(AnswerType \union {Connected, Expired})
      /\ Connected \in AnswerType \union {Connected, Expired}
      /\ Len(completions) \in Nat /\ DOMAIN completions = 1..Len(completions)
  BY LenProperties DEF PipeInv, PipeTypes
<1>1. CASE Recorded
  <2>1. /\ completions # <<>> /\ completions[1].call \in AsyncCalls
        /\ completions' = Tail(completions)
        /\ UNCHANGED <<requests, link, m_need_resume_env>> /\ ~Resuming'
    BY <1>1 DEF Recorded, server, Resuming, IsAnswer
  <2>2. completions[1].call # "EXPIRED"
    BY <2>1, CallsDiffer DEF Expired
  <2>3. QED
    BY <2>1, <2>2, SessionsTail
<1>2. CASE ConnectedEvent
  <2>1. /\ completions # <<>> /\ Head(completions).call = "CONNECTED"
        /\ completions' = Tail(completions) /\ zk.pc = "idle"
        /\ UNCHANGED <<requests, link, m_need_resume_env, user>>
        /\ IF m_need_resume_env THEN user.pc = "idle" ELSE zk' = zk
    BY <1>2 DEF ConnectedEvent, Handles, server, registry
  <2>2. completions[1].call = "CONNECTED"
    BY <1>t, <2>1, TailSays
  <2>3. QED
    BY <2>1, <2>2, SessionsTail DEF Resuming
<1>3. CASE Reconnect
  <2>1. /\ completions # <<>> /\ Head(completions).call = "EXPIRED" /\ zk.pc = "idle"
        /\ completions' = Append(Tail(completions), Connected)
        /\ UNCHANGED <<requests, user, zk>> /\ link' = "up" /\ m_need_resume_env' = TRUE
    BY <1>3 DEF Reconnect
  <2>2. completions[1].call = "EXPIRED" /\ 1 \in DOMAIN completions
    BY <1>t, <2>1, TailSays
  <2>3. link = "expired" /\ Len(completions) = 1
    BY <2>2 DEF SessionsOK, MemoryInv, MemoryTypes
  <2>4. PICK rest : rest = Tail(completions)
    OBVIOUS
  <2>5. /\ rest \in Seq(AnswerType \union {Connected, Expired}) /\ Len(rest) = 0
        /\ DOMAIN rest = {}
    BY <1>t, <2>1, <2>3, <2>4, TailSays
  <2>6. \A k \in DOMAIN completions' : completions'[k] = Connected
    BY <1>t, <2>1, <2>4, <2>5, AppendSays
  <2>7. \A k \in DOMAIN requests : requests[k].call \notin AsyncCalls
    BY <2>3 DEF SessionsOK
  <2>8. QED
    BY <2>1, <2>6, <2>7, CallsDiffer DEF SessionsOK, IsAnswer, Resuming
<1>4. CASE Resumed
  <2>1. /\ UNCHANGED <<link, requests, user>> /\ Resuming
        /\ m_need_resume_env' = m_need_resume_env
           \/ (zk' = Idle /\ m_need_resume_env' = FALSE)
    BY <1>4 DEF Resumed
  <2>2. Resuming' => m_need_resume_env' /\ user'.pc = "idle"
    BY <2>1 DEF SessionsOK, Resuming, Idle
  <2>3. CASE completions' = completions
    BY <2>1, <2>2, <2>3 DEF SessionsOK, IsAnswer
  <2>4. CASE link = "up" /\ completions' = Append(completions, Connected)
    <3>1. /\ \A k \in DOMAIN completions : completions'[k] = completions[k]
          /\ completions'[Len(completions) + 1] = Connected
          /\ \A k \in DOMAIN completions' : k \in DOMAIN completions \/ k = Len(completions) + 1
      BY <1>t, <2>4, AppendSays
    <3>2. QED
      BY <2>1, <2>2, <2>4, <3>1, CallsDiffer DEF SessionsOK, IsAnswer
  <2>5. QED
    BY <1>4, <2>3, <2>4 DEF Resumed
<1>5. QED
  BY <1>1, <1>2, <1>3, <1>4

LEMMA SessionsServer ==
  ASSUME PipeInv, MemoryInv, SessionsOK, Serve \/ Environment
  PROVE  SessionsOK'
<1>t. /\ completions \in Seq(AnswerType \union {Connected, Expired})
      /\ requests \in Seq(RequestType) /\ tree \in Trees
      /\ Len(completions) \in Nat /\ DOMAIN completions = 1..Len(completions)
  BY LenProperties DEF PipeInv, PipeTypes, MemoryInv, MemoryTypes
<1>1. CASE Serve
  <2>1. /\ link = "up" /\ link' = link /\ m_need_resume_env' = m_need_resume_env /\ zk' = zk
        /\ requests # <<>> /\ requests' = Tail(requests)
        /\ 1 \in DOMAIN requests
    BY <1>1, <1>t, TailSays DEF Serve, registry
  <2>2. \A k \in DOMAIN requests' : k + 1 \in DOMAIN requests /\ requests'[k] = requests[k + 1]
    BY <1>t, <2>1, TailSays
  <2>3. CASE requests[1].call \in AsyncCalls
    <3>1. PICK a : /\ a.call = requests[1].call /\ completions' = Append(completions, a)
                   /\ user' = user
      BY <1>1, <1>t, <2>3, ServeSays
    <3>2. completions' \in Seq(AnswerType \union {Connected, Expired})
      BY <1>1, <1>t, PipeServe DEF PipeInv, PipeTypes
    <3>3. /\ \A k \in DOMAIN completions : completions'[k] = completions[k]
          /\ completions'[Len(completions) + 1] = a
          /\ \A k \in DOMAIN completions' : k \in DOMAIN completions \/ k = Len(completions) + 1
      BY <1>t, <3>1
    <3>4. ~m_need_resume_env
      BY <2>1, <2>3 DEF SessionsOK
    <3>5. a.call # "EXPIRED"
      BY <2>3, <3>1 DEF AsyncCalls
    <3>6. \A k \in DOMAIN completions' : completions'[k].call # "EXPIRED"
      BY <2>1, <3>3, <3>5 DEF SessionsOK
    <3>7. QED
      BY <2>1, <3>1, <3>4, <3>6 DEF SessionsOK, Resuming
  <2>4. CASE requests[1].call \notin AsyncCalls
    <3>1. completions' = completions /\ user.pc = "sent"
      BY <1>1, <1>t, <2>4, ServeSays
    <3>2. QED
      BY <2>1, <2>2, <3>1 DEF SessionsOK, IsAnswer, Resuming
  <2>5. QED
    BY <2>3, <2>4
<1>2. CASE Disconnect \/ Expire
  <2>1. PICK rc \in RCs, event \in {Connected, Expired} :
          /\ FailAll(rc, event)
          /\ \/ event = Connected /\ link' = "up"
             \/ event = Expired /\ link' = "expired"
    BY <1>2 DEF Disconnect, Expire, RCs
  <2>2. /\ link = "up" /\ m_need_resume_env' = m_need_resume_env /\ zk' = zk
    BY <1>2 DEF Disconnect, Expire, registry
  <2>3. /\ requests' = <<>> /\ completions' # <<>>
        /\ Len(completions') \in Nat /\ DOMAIN completions' = 1..Len(completions')
        /\ completions'[Len(completions')] = event
        /\ \A k \in DOMAIN completions' : k # Len(completions') =>
             \/ k \in DOMAIN completions /\ completions'[k] = completions[k]
             \/ \E j \in DOMAIN requests :
                  requests[j].call \in AsyncCalls /\ completions'[k].call = requests[j].call
    BY <2>1, FailSays
  <2>4. \A k \in DOMAIN completions' : k # Len(completions') => completions'[k].call # "EXPIRED"
    BY <2>2, <2>3, CallsDiffer DEF SessionsOK
  <2>5. m_need_resume_env => \A k \in DOMAIN completions' : ~IsAnswer(k)'
    BY <2>3, CallsDiffer DEF SessionsOK, IsAnswer
  <2>6. Resuming' => m_need_resume_env /\ user'.pc = "idle"
    BY <2>1, <2>2 DEF SessionsOK, Resuming, FailAll
  <2>7. QED
    BY <2>1, <2>2, <2>3, <2>4, <2>5, <2>6, CallsDiffer DEF SessionsOK
<1>3. CASE ChangeParent
  BY <1>3 DEF ChangeParent, pipe, registry, SessionsOK, IsAnswer, Resuming
<1>4. CASE Restart
  <2>1. /\ requests' = <<>> /\ zk' = Idle /\ link' = link
        /\ completions' = <<IF link = "up" THEN Connected ELSE Expired>>
    BY <1>4 DEF Restart
  <2>2. PICK event \in {Connected, Expired} :
          /\ completions' = <<event>>
          /\ link = "up" => event = Connected
          /\ link = "expired" => event = Expired
    BY <2>1
  <2>3. DOMAIN completions' = {1} /\ completions'[1] = event /\ Len(completions') = 1
        /\ completions' # <<>>
    BY <2>2
  <2>4. link \in {"up", "expired"}
    BY DEF MemoryInv, MemoryTypes
  <2>5. QED
    BY <2>1, <2>2, <2>3, <2>4, CallsDiffer DEF SessionsOK, IsAnswer, Resuming, Idle
<1>5. QED
  BY <1>1, <1>2, <1>3, <1>4 DEF Environment

-----------------------------------------------------------------------------
(* One node.                                                               *)

\* A call can only write what it is about.
LEMMA WritesOn ==
  ASSUME NEW call, NEW ops, NEW ctx, NEW p \in Nodes, CallOK(call, ops, ctx)
  PROVE  /\ Creates(ops, p) => p \in PathsOf(ops)
         /\ ctx.path = p => p \in PathsOf(ops)
         /\ Writes(call, ops, ctx, p) => p \in PathsOf(ops)
<1>1. p # Absent
  BY NamesDiffer
<1>2. ctx.path = p => p \in PathsOf(ops)
  BY <1>1 DEF CallOK
<1>3. Creates(ops, p) => p \in PathsOf(ops)
  BY DEF Creates, PathsOf
<1>4. QED
  BY <1>2, <1>3 DEF Writes

\* Nothing is under way for the node.
LEMMA FreeSays ==
  ASSUME PipeInv', NEW p \in Nodes,
         \A k \in DOMAIN requests' : ~RequestOn(k, p)',
         \A k \in DOMAIN completions' : ~AnswerOn(k, p)',
         UserCalls' => p \notin PathsOf(user'.ops),
         p \in deleted' => tree'[p] = Absent /\ m_ephemeral_node_info'[p] = Absent
  PROVE  NodeInv(p)'
<1>1. Alone(p)'
  BY DEF Alone, UserOn
<1>2. Deleted(p)'
  <2>1. \A k \in DOMAIN requests' :
          ~Writes(requests'[k].call, requests'[k].ops, requests'[k].ctx, p)
    BY WritesOn DEF PipeInv, CallsOK, RequestOn
  <2>2. \A k \in DOMAIN completions' : IsAnswer(k)' =>
          ~Writes(completions'[k].call, completions'[k].ops, completions'[k].ctx, p)
    BY WritesOn DEF PipeInv, CallsOK, AnswerOn
  <2>3. UserCalls' => CallOK(user'.call, user'.ops, user'.ctx)
    BY DEF PipeInv, CallsOK, UserCalls
  <2>4. UserCalls' => ~Creates(user'.ops, p) /\ user'.ctx.path # p
    BY <2>3, WritesOn
  <2>5. QED
    BY <2>1, <2>2, <2>4 DEF Deleted
<1>3. Leaving(p)'
  BY DEF Leaving, UserCalls
<1>4. QED
  BY <1>1, <1>2, <1>3 DEF NodeInv

\* Nothing happens to the node but that answers on others are taken.
LEMMA NodeQuiet ==
  ASSUME NEW p \in Nodes, NodeInv(p), UNCHANGED <<requests, user>>, NEW d \in {0, 1},
         DOMAIN completions \subseteq Int, DOMAIN completions' \subseteq Int,
         \A k \in DOMAIN completions' : IsAnswer(k)' =>
           k + d \in DOMAIN completions /\ completions'[k] = completions[k + d],
         tree[p] = Absent => tree'[p] = Absent,
         m_ephemeral_node_info[p] = Absent => m_ephemeral_node_info'[p] = Absent,
         p \in deleted' => p \in deleted
  PROVE  NodeInv(p)'
<1>1. \A k \in DOMAIN completions' : IsAnswer(k)' =>
        IsAnswer(k + d) /\ k + d \in DOMAIN completions /\ completions'[k] = completions[k + d]
  BY DEF IsAnswer
<1>2. \A k \in DOMAIN completions' : AnswerOn(k, p)' =>
        AnswerOn(k + d, p) /\ k + d \in DOMAIN completions /\ completions'[k] = completions[k + d]
  BY <1>1 DEF AnswerOn
<1>3. Alone(p)'
  <2>1. \A j, k \in DOMAIN completions' : AnswerOn(j, p)' /\ AnswerOn(k, p)' => j = k
    <3> SUFFICES ASSUME NEW j \in DOMAIN completions', NEW k \in DOMAIN completions',
                        AnswerOn(j, p)', AnswerOn(k, p)'
                 PROVE  j = k
      OBVIOUS
    <3>1. j + d = k + d
      BY <1>2 DEF NodeInv, Alone
    <3>2. j \in Int /\ k \in Int /\ d \in Int
      OBVIOUS
    <3>3. \A a, b, c \in Int : a + c = b + c => a = b
      OBVIOUS
    <3>4. QED
      BY <3>1, <3>2, <3>3
  <2>2. QED
    BY <1>2, <2>1 DEF NodeInv, Alone, RequestOn, UserOn, UserCalls
<1>4. Deleted(p)'
  BY <1>1 DEF NodeInv, Deleted, UserCalls
<1>5. Leaving(p)'
  BY <1>2 DEF NodeInv, Leaving, RequestOn
<1>6. QED
  BY <1>3, <1>4, <1>5 DEF NodeInv

LEMMA NodeEnded ==
  ASSUME PipeInv, PipeInv', NEW p \in Nodes, NodeInv(p), Ended
  PROVE  NodeInv(p)'
<1>1. /\ requests' = requests /\ completions' = completions /\ tree' = tree
      /\ user'.pc \in {"idle", "erase"}
  BY DEF Ended, pipe, server, Idle
<1>2. user.pc = "answered" => CallOK(user.call, user.ops, user.ctx)
  BY AnsweredSays
<1>3. CASE user.pc = "answered" /\ p \in PathsOf(user.ops)
  <2>1. UserOn(p)
    BY <1>3 DEF UserOn, UserCalls
  <2>2. /\ \A k \in DOMAIN completions : ~AnswerOn(k, p)
        /\ \A k \in DOMAIN requests : ~RequestOn(k, p)
    BY <1>3, <2>1 DEF NodeInv, Alone
  <2>3. p \in deleted' => tree'[p] = Absent /\ m_ephemeral_node_info'[p] = Absent
    <3>1. CASE p \in deleted
      <4>1. /\ tree[p] = Absent /\ m_ephemeral_node_info[p] = Absent /\ ~Creates(user.ops, p)
            /\ user.ctx.path = p => user.call = "CreateExistSkip" /\ user.rc # "ZOK"
        BY <1>3, <3>1 DEF NodeInv, Deleted, UserCalls
      <4>2. QED
        BY <1>1, <4>1 DEF Ended
    <3>2. CASE p \in deleted' /\ p \notin deleted
      <4>1. /\ user.call \in {"Delete", "DeletePathMulti"} /\ user.rc = "ZOK"
            /\ m_ephemeral_node_info'[p] = Absent
        BY <3>2 DEF Ended
      <4>2. QED
        BY <1>1, <1>3, <4>1 DEF NodeInv, Leaving
    <3>3. QED
      BY <3>1, <3>2
  <2>4. QED
    BY <1>1, <2>2, <2>3, FreeSays DEF RequestOn, AnswerOn, IsAnswer, UserCalls
<1>4. CASE ~(user.pc = "answered" /\ p \in PathsOf(user.ops))
  <2>1. m_ephemeral_node_info[p] = Absent => m_ephemeral_node_info'[p] = Absent
    BY <1>2, <1>4, WritesOn DEF Ended
  <2>2. p \in deleted' => p \in deleted
    BY <1>4 DEF Ended
  <2>3. Alone(p)'
    BY <1>1 DEF NodeInv, Alone, RequestOn, AnswerOn, IsAnswer, UserOn, UserCalls
  <2>4. Deleted(p)'
    BY <1>1, <2>1, <2>2 DEF NodeInv, Deleted, IsAnswer, UserCalls
  <2>5. Leaving(p)'
    BY <1>1, <2>1 DEF NodeInv, Leaving, RequestOn, AnswerOn, IsAnswer
  <2>6. QED
    BY <2>3, <2>4, <2>5 DEF NodeInv
<1>5. QED
  BY <1>3, <1>4

LEMMA NodeRecorded ==
  ASSUME PipeInv, PipeInv', NEW p \in Nodes, NodeInv(p), Recorded
  PROVE  NodeInv(p)'
<1>1. /\ completions # <<>> /\ completions' = Tail(completions) /\ IsAnswer(1)
      /\ requests' = requests /\ user' = user /\ tree' = tree
  BY DEF Recorded, server
<1>2. /\ 1 \in DOMAIN completions /\ Len(completions) \in Nat
      /\ DOMAIN completions = 1..Len(completions)
      /\ DOMAIN completions' = 1..(Len(completions) - 1)
      /\ \A k \in DOMAIN completions' :
           k + 1 \in DOMAIN completions /\ completions'[k] = completions[k + 1]
  BY <1>1, TailSays DEF PipeInv, PipeTypes
<1>3. /\ CallOK(completions[1].call, completions[1].ops, completions[1].ctx)
      /\ completions[1].ops \in Seq(Ops)
  BY <1>1, <1>2, PipeSays DEF PipeInv, CallsOK
<1>4. CASE p \in PathsOf(completions[1].ops)
  <2>1. AnswerOn(1, p)
    BY <1>1, <1>4 DEF AnswerOn
  <2>2. \A k \in DOMAIN requests : ~RequestOn(k, p)
    BY <1>2, <2>1 DEF NodeInv, Alone
  <2>3. \A k \in DOMAIN completions' : ~AnswerOn(k, p)'
    <3> SUFFICES ASSUME NEW k \in DOMAIN completions', AnswerOn(k, p)' PROVE FALSE
      OBVIOUS
    <3>1. k + 1 \in DOMAIN completions /\ completions'[k] = completions[k + 1] /\ k + 1 # 1
      BY <1>2
    <3>2. AnswerOn(k + 1, p)
      BY <3>1 DEF AnswerOn, IsAnswer
    <3>3. QED
      BY <1>2, <2>1, <3>1, <3>2 DEF NodeInv, Alone
  <2>4. UserCalls => p \notin PathsOf(user.ops)
    BY <1>2, <2>1 DEF NodeInv, Alone, UserOn
  <2>5. p \in deleted' => tree'[p] = Absent /\ m_ephemeral_node_info'[p] = Absent
    <3>1. CASE p \in deleted
      <4>1. /\ tree[p] = Absent /\ m_ephemeral_node_info[p] = Absent
            /\ ~Writes(completions[1].call, completions[1].ops, completions[1].ctx, p)
        BY <1>1, <1>2, <3>1 DEF NodeInv, Deleted
      <4>2. QED
        BY <1>1, <4>1 DEF Recorded
    <3>2. CASE p \in deleted' /\ p \notin deleted
      <4>1. /\ completions[1].call = "ADelete" /\ completions[1].rc = "ZOK"
            /\ completions[1].ctx.path = Absent \/ m_ephemeral_node_info'[p] = Absent
        BY <3>2 DEF Recorded
      <4>2. tree[p] = Absent
        BY <1>2, <2>1, <4>1 DEF NodeInv, Leaving
      <4>3. CASE completions[1].ctx.path = Absent
        <5>1. m_ephemeral_node_info[p] = Absent
          BY <1>2, <2>1, <4>1, <4>3 DEF NodeInv, Leaving
        <5>2. ~Creates(completions[1].ops, p)
          <6>1. PICK ops \in Seq(Ops) : ops = completions[1].ops
            BY <1>3
          <6>2. Len(ops) = 1 /\ ops[1].type = "delete"
            BY <1>3, <4>1, <6>1 DEF CallOK
          <6>3. DOMAIN ops = 1..1
            BY <6>1, <6>2, LenProperties
          <6>4. QED
            BY <6>1, <6>2, <6>3 DEF Creates
        <5>3. ~Writes(completions[1].call, completions[1].ops, completions[1].ctx, p)
          BY <4>3, <5>2, NamesDiffer DEF Writes
        <5>4. QED
          BY <1>1, <4>2, <5>1, <5>3 DEF Recorded
      <4>4. QED
        BY <1>1, <4>1, <4>2, <4>3
    <3>3. QED
      BY <3>1, <3>2
  <2>6. QED
    BY <1>1, <2>2, <2>3, <2>4, <2>5, FreeSays DEF RequestOn, UserCalls
<1>5. CASE p \notin PathsOf(completions[1].ops)
  <2>1. m_ephemeral_node_info[p] = Absent => m_ephemeral_node_info'[p] = Absent
    BY <1>3, <1>5, WritesOn DEF Recorded
  <2>2. p \in deleted' => p \in deleted
    BY <1>5 DEF Recorded
  <2>3. DOMAIN completions \subseteq Int /\ DOMAIN completions' \subseteq Int
    BY <1>2
  <2>4. QED
    BY <1>1, <1>2, <2>1, <2>2, <2>3, NodeQuiet
<1>6. QED
  BY <1>4, <1>5

LEMMA NodeResumed ==
  ASSUME PipeInv, PipeInv', SessionsOK, NEW p \in Nodes, NodeInv(p), Resumed
  PROVE  NodeInv(p)'
<1>1. /\ m_need_resume_env /\ user.pc = "idle" /\ requests' = requests /\ user' = user
      /\ deleted' = deleted
  BY DEF SessionsOK, Resumed
<1>2. DOMAIN requests = {}
  BY <1>1 DEF SessionsOK, PipeInv, SyncLast
<1>3. completions \in Seq(AnswerType \union {Connected, Expired})
      /\ \A k \in DOMAIN completions : ~IsAnswer(k)
  BY <1>1 DEF SessionsOK, PipeInv, PipeTypes
<1>4. \A k \in DOMAIN completions' : ~AnswerOn(k, p)'
  <2>1. CASE completions' = completions
    BY <1>3, <2>1 DEF AnswerOn, IsAnswer
  <2>2. CASE completions' = Append(completions, Connected)
    <3>1. /\ \A k \in DOMAIN completions : completions'[k] = completions[k]
          /\ completions'[Len(completions) + 1] = Connected
          /\ \A k \in DOMAIN completions' : k \in DOMAIN completions \/ k = Len(completions) + 1
      BY <1>3, <2>2, AppendSays
    <3>2. QED
      BY <1>3, <3>1, CallsDiffer DEF AnswerOn, IsAnswer
  <2>3. QED
    BY <2>1, <2>2 DEF Resumed
<1>5. p \in deleted' => tree'[p] = Absent /\ m_ephemeral_node_info'[p] = Absent
  BY <1>1 DEF Resumed, NodeInv, Deleted
<1>6. QED
  BY <1>1, <1>2, <1>4, <1>5, FreeSays DEF UserCalls

LEMMA OutstandingSays ==
  ASSUME PipeTypes, NEW paths, ~Outstanding(paths)
  PROVE  /\ \A k \in DOMAIN requests : PathsOf(requests[k].ops) \intersect paths = {}
         /\ \A k \in DOMAIN completions : IsAnswer(k) =>
              PathsOf(completions[k].ops) \intersect paths = {}
<1>1. \A k \in DOMAIN requests :
        requests[k] \in Range(requests) /\ requests[k] \notin {Connected, Expired}
  <2> TAKE k \in DOMAIN requests
  <2>1. requests[k].call \in AsyncCalls \union SyncCalls
    BY PipeSays
  <2>2. requests[k] # Connected /\ requests[k] # Expired
    BY <2>1 DEF AsyncCalls, SyncCalls, Connected, Expired
  <2>3. QED
    BY <2>2 DEF Range
<1>2. \A k \in DOMAIN completions : IsAnswer(k) =>
        completions[k] \in Range(completions) /\ completions[k] \notin {Connected, Expired}
  BY PipeSays DEF Range
<1>3. QED
  BY <1>1, <1>2 DEF Outstanding

\* The user's new request is the last one, and there is none other on its nodes.
LEMMA NodeCalled ==
  ASSUME OneAtATime, PipeInv, PipeInv', NEW p \in Nodes, NodeInv(p), Called
  PROVE  NodeInv(p)'
<1>1. PICK call \in AsyncCalls \union SyncCalls, ops \in Seq(Ops), ctx \in Ctxs :
        Call(call, ops, ctx) /\ CallSays(call, ops, ctx)
  BY DEF Called
<1>2. PICK r \in RequestType : /\ requests' = Append(requests, r) /\ user.pc = "idle"
                               /\ r.call = call /\ r.ops = ops /\ r.ctx = ctx
  <2>1. [call |-> call, ops |-> ops, ctx |-> ctx] \in RequestType
    BY DEF RequestType
  <2>2. requests' = Append(requests, [call |-> call, ops |-> ops, ctx |-> ctx])
        /\ user.pc = "idle"
    BY <1>1 DEF Call, Calling, Send
  <2>3. QED
    BY <2>1, <2>2
<1>3. /\ completions' = completions /\ tree' = tree
      /\ m_ephemeral_node_info' = m_ephemeral_node_info
      /\ p \in deleted' => p \in deleted /\ ~Creates(ops, p)
  BY <1>1 DEF Call, Calling, server, registry, Creates
<1>4. \/ call \in AsyncCalls /\ user' = user
      \/ call \in SyncCalls /\ call \notin AsyncCalls
         /\ user' = [pc |-> "sent", call |-> call, ops |-> ops, ctx |-> ctx]
  BY <1>1, CallsDiffer DEF Call, Send
<1>5. /\ requests \in Seq(RequestType) /\ PipeTypes
      /\ Len(requests) \in Nat /\ DOMAIN requests = 1..Len(requests)
  BY PipeSays DEF PipeInv, PipeTypes
<1>6. /\ Len(requests') = Len(requests) + 1
      /\ \A k \in DOMAIN requests' :
           \/ k \in DOMAIN requests /\ requests'[k] = requests[k]
           \/ k = Len(requests') /\ requests'[k] = r
  BY <1>2, <1>5, AppendSays
<1>7. p \in PathsOf(ops) \/ call = "DeletePathRecursion" =>
        /\ \A k \in DOMAIN requests : ~RequestOn(k, p)
        /\ \A k \in DOMAIN completions : ~AnswerOn(k, p)
  <2> SUFFICES ASSUME p \in PathsOf(ops) \/ call = "DeletePathRecursion"
               PROVE  /\ \A k \in DOMAIN requests : ~RequestOn(k, p)
                      /\ \A k \in DOMAIN completions : ~AnswerOn(k, p)
    OBVIOUS
  <2>1. PICK paths : ~Outstanding(paths) /\ p \in paths
    BY <1>1, NamesDiffer DEF Call, Calling
  <2>2. QED
    BY <1>5, <2>1, OutstandingSays DEF RequestOn, AnswerOn
<1>8. call \notin {"DeletePathMulti", "CreateExistSkipSet"}
  BY <1>1 DEF CallSays
<1>9. Alone(p)'
  <2>1. \A j, k \in DOMAIN requests' : RequestOn(j, p)' /\ RequestOn(k, p)' => j = k
    BY <1>2, <1>6, <1>7 DEF NodeInv, Alone, RequestOn
  <2>2. \A j, k \in DOMAIN completions' : AnswerOn(j, p)' /\ AnswerOn(k, p)' => j = k
    BY <1>3 DEF NodeInv, Alone, AnswerOn, IsAnswer
  <2>3. \A j \in DOMAIN requests', k \in DOMAIN completions' :
          ~(RequestOn(j, p)' /\ AnswerOn(k, p)')
    BY <1>2, <1>3, <1>6, <1>7 DEF NodeInv, Alone, RequestOn, AnswerOn, IsAnswer
  <2>4. UserOn(p)' =>
          /\ p \in PathsOf(ops) \/ call = "DeletePathRecursion"
          /\ user'.pc = "sent"
    BY <1>2, <1>4, <1>8 DEF UserOn, UserCalls
  <2>5. UserOn(p)' =>
          /\ \A k \in DOMAIN completions' : ~AnswerOn(k, p)'
          /\ \A k \in DOMAIN requests' :
               RequestOn(k, p)' => user'.pc = "sent" /\ k = Len(requests')
    BY <1>3, <1>6, <1>7, <2>4 DEF RequestOn, AnswerOn, IsAnswer
  <2>6. QED
    BY <2>1, <2>2, <2>3, <2>5 DEF Alone
<1>10. Deleted(p)'
  <2> SUFFICES ASSUME p \in deleted' PROVE Deleted(p)'
    BY DEF Deleted
  <2>1. p \in deleted /\ ~Creates(ops, p) /\ tree[p] = Absent /\ m_ephemeral_node_info[p] = Absent
    BY <1>3 DEF NodeInv, Deleted
  <2>2. r.call \in AsyncCalls => ~Writes(r.call, r.ops, r.ctx, p)
    BY <1>1, <1>2, <2>1 DEF CallSays, Writes, AsyncCalls
  <2>3. \A k \in DOMAIN requests' : requests'[k].call \in AsyncCalls =>
          ~Writes(requests'[k].call, requests'[k].ops, requests'[k].ctx, p)
    BY <1>6, <2>1, <2>2 DEF NodeInv, Deleted
  <2>4. UserCalls' => /\ ~Creates(user'.ops, p) /\ user'.pc = "sent"
                      /\ user'.ctx.path = p => user'.call = "CreateExistSkip"
    BY <1>1, <1>2, <1>4, <2>1, NamesDiffer DEF UserCalls, CallSays
  <2>5. \A k \in DOMAIN completions' : IsAnswer(k)' =>
          ~Writes(completions'[k].call, completions'[k].ops, completions'[k].ctx, p)
    BY <1>3, <2>1 DEF NodeInv, Deleted, IsAnswer
  <2>6. QED
    BY <1>3, <2>1, <2>3, <2>4, <2>5 DEF Deleted
<1>11. Leaving(p)'
  <2>1. \A k \in DOMAIN requests' :
          RequestOn(k, p)' /\ requests'[k].call = "ADelete" /\ requests'[k].ctx.path = Absent
            => m_ephemeral_node_info[p] = Absent
    BY <1>1, <1>2, <1>6 DEF NodeInv, Leaving, RequestOn, CallSays
  <2>2. user'.pc # "answered"
    BY <1>2, <1>4
  <2>3. QED
    BY <1>3, <2>1, <2>2 DEF NodeInv, Leaving, AnswerOn, IsAnswer
<1>12. QED
  BY <1>9, <1>10, <1>11 DEF NodeInv

LEMMA NodeContinued ==
  ASSUME PipeInv, PipeInv', NEW p \in Nodes, NodeInv(p), Continued
  PROVE  NodeInv(p)'
<1>1. PICK call \in SyncCalls \ {"DeletePathRecursion"}, ops \in Seq(Ops) :
        /\ Send(call, ops, user.ctx) /\ CallOK(call, ops, user.ctx) /\ ~Creates(ops, p)
        /\ IF call = "DeletePathMulti" THEN user.call = "DeletePathRecursion"
           ELSE p \in PathsOf(ops) => p \in PathsOf(user.ops)
  BY DEF Continued
<1>2. /\ completions' = completions /\ tree' = tree /\ user.pc = "answered"
      /\ m_ephemeral_node_info' = m_ephemeral_node_info /\ deleted' = deleted
      /\ user.call = "CreateExistSkip" => user.rc = "ZOK"
  BY DEF Continued, server, registry, history
<1>3. user.ctx \in Ctxs /\ call \notin AsyncCalls
  BY <1>2, AnsweredSays, CallsDiffer
<1>4. PICK r \in RequestType : /\ requests' = Append(requests, r)
                               /\ r.call = call /\ r.ops = ops /\ r.ctx = user.ctx
  <2>1. [call |-> call, ops |-> ops, ctx |-> user.ctx] \in RequestType
    BY <1>3 DEF RequestType
  <2>2. requests' = Append(requests, [call |-> call, ops |-> ops, ctx |-> user.ctx])
    BY <1>1 DEF Send
  <2>3. QED
    BY <2>1, <2>2
<1>5. user' = [pc |-> "sent", call |-> call, ops |-> ops, ctx |-> user.ctx]
  BY <1>1, <1>3 DEF Send
<1>6. /\ requests \in Seq(RequestType)
      /\ Len(requests) \in Nat /\ DOMAIN requests = 1..Len(requests)
  BY PipeSays DEF PipeInv, PipeTypes
<1>7. /\ Len(requests') = Len(requests) + 1
      /\ \A k \in DOMAIN requests' :
           \/ k \in DOMAIN requests /\ requests'[k] = requests[k]
           \/ k = Len(requests') /\ requests'[k] = r
  BY <1>4, <1>6, AppendSays
<1>8. UserOn(p)' \/ p \in PathsOf(ops) => UserOn(p)
  BY <1>1, <1>2, <1>5 DEF UserOn, UserCalls
<1>9. UserOn(p) =>
        /\ \A k \in DOMAIN completions : ~AnswerOn(k, p)
        /\ \A k \in DOMAIN requests : ~RequestOn(k, p)
  BY <1>2 DEF NodeInv, Alone
<1>10. Alone(p)'
  <2>1. \A j, k \in DOMAIN requests' : RequestOn(j, p)' /\ RequestOn(k, p)' => j = k
    BY <1>4, <1>7, <1>8, <1>9 DEF NodeInv, Alone, RequestOn
  <2>2. \A j, k \in DOMAIN completions' : AnswerOn(j, p)' /\ AnswerOn(k, p)' => j = k
    BY <1>2 DEF NodeInv, Alone, AnswerOn, IsAnswer
  <2>3. \A j \in DOMAIN requests', k \in DOMAIN completions' :
          ~(RequestOn(j, p)' /\ AnswerOn(k, p)')
    BY <1>2, <1>4, <1>7, <1>8, <1>9 DEF NodeInv, Alone, RequestOn, AnswerOn, IsAnswer
  <2>4. UserOn(p)' =>
          /\ \A k \in DOMAIN completions' : ~AnswerOn(k, p)'
          /\ \A k \in DOMAIN requests' :
               RequestOn(k, p)' => user'.pc = "sent" /\ k = Len(requests')
    BY <1>2, <1>5, <1>7, <1>8, <1>9 DEF RequestOn, AnswerOn, IsAnswer
  <2>5. QED
    BY <2>1, <2>2, <2>3, <2>4 DEF Alone
<1>11. Deleted(p)'
  <2> SUFFICES ASSUME p \in deleted PROVE Deleted(p)'
    BY <1>2 DEF Deleted
  <2>1. /\ tree[p] = Absent /\ m_ephemeral_node_info[p] = Absent
        /\ user.ctx.path = p => user.call = "CreateExistSkip" /\ user.rc # "ZOK"
    BY <1>2 DEF NodeInv, Deleted, UserCalls
  <2>2. user.ctx.path # p
    BY <1>2, <2>1
  <2>3. \A k \in DOMAIN requests' : requests'[k].call \in AsyncCalls =>
          ~Writes(requests'[k].call, requests'[k].ops, requests'[k].ctx, p)
    BY <1>3, <1>4, <1>7 DEF NodeInv, Deleted
  <2>4. \A k \in DOMAIN completions' : IsAnswer(k)' =>
          ~Writes(completions'[k].call, completions'[k].ops, completions'[k].ctx, p)
    BY <1>2 DEF NodeInv, Deleted, IsAnswer
  <2>5. QED
    BY <1>1, <1>2, <1>5, <2>1, <2>2, <2>3, <2>4 DEF Deleted
<1>12. Leaving(p)'
  <2>1. r.call # "ADelete"
    BY <1>3, <1>4 DEF AsyncCalls
  <2>2. \A k \in DOMAIN requests' :
          RequestOn(k, p)' /\ requests'[k].call = "ADelete" /\ requests'[k].ctx.path = Absent
            => m_ephemeral_node_info[p] = Absent
    BY <1>7, <2>1 DEF NodeInv, Leaving, RequestOn
  <2>3. QED
    BY <1>2, <1>5, <2>2 DEF NodeInv, Leaving, AnswerOn, IsAnswer
<1>13. QED
  BY <1>10, <1>11, <1>12 DEF NodeInv

\* A call that is refused is on nodes that no other call is on.
LEMMA NodeRefused ==
  ASSUME OneAtATime, PipeInv, PipeInv', NEW p \in Nodes, NodeInv(p), Refused
  PROVE  NodeInv(p)'
<1>1. PICK call \in SyncCalls, ops \in Seq(Ops), ctx \in Ctxs :
        /\ Refuse(call, ops, ctx) /\ \A q \in deleted' : ~Creates(ops, q)
        /\ user.pc = "idle" => ctx = NoCtx /\ call = "Multi" /\ ~Outstanding(PathsOf(ops))
        /\ user.pc = "answered" =>
             /\ ctx = user.ctx /\ call # "DeletePathRecursion"
             /\ user.call = "CreateExistSkip" => user.rc = "ZOK"
             /\ IF call = "DeletePathMulti" THEN user.call = "DeletePathRecursion"
                ELSE p \in PathsOf(ops) => p \in PathsOf(user.ops)
  BY DEF Refused
<1>2. /\ requests' = requests /\ completions' = completions /\ tree' = tree
      /\ m_ephemeral_node_info' = m_ephemeral_node_info /\ deleted' \subseteq deleted
      /\ user.pc \in {"idle", "answered"}
  BY DEF Refused, server, registry
<1>3. /\ user'.pc = "answered" /\ user'.call = call /\ user'.ops = ops /\ user'.ctx = ctx
      /\ user'.rc = "ZINVALIDSTATE"
  BY <1>1 DEF Refuse
<1>4. UserOn(p)' => /\ \A k \in DOMAIN completions : ~AnswerOn(k, p)
                    /\ \A k \in DOMAIN requests : ~RequestOn(k, p)
  <2>1. CASE user.pc = "idle"
    <3>1. UserOn(p)' => p \in PathsOf(ops)
      BY <1>1, <1>3, <2>1 DEF UserOn
    <3>2. PipeTypes /\ ~Outstanding(PathsOf(ops))
      BY <1>1, <2>1 DEF PipeInv
    <3>3. /\ \A k \in DOMAIN requests :
               PathsOf(requests[k].ops) \intersect PathsOf(ops) = {}
          /\ \A k \in DOMAIN completions : IsAnswer(k) =>
               PathsOf(completions[k].ops) \intersect PathsOf(ops) = {}
      BY <3>2, OutstandingSays
    <3>4. QED
      BY <3>1, <3>3 DEF RequestOn, AnswerOn
  <2>2. CASE user.pc = "answered"
    <3>1. UserOn(p)' => UserOn(p)
      BY <1>1, <1>3, <2>2 DEF UserOn, UserCalls
    <3>2. QED
      BY <2>2, <3>1 DEF NodeInv, Alone
  <2>3. QED
    BY <1>2, <2>1, <2>2
<1>5. Alone(p)'
  BY <1>2, <1>4 DEF NodeInv, Alone, RequestOn, AnswerOn, IsAnswer
<1>6. Deleted(p)'
  <2> SUFFICES ASSUME p \in deleted' PROVE Deleted(p)'
    BY DEF Deleted
  <2>1. p \in deleted /\ ~Creates(ops, p)
    BY <1>1, <1>2
  <2>2. ctx.path # p
    <3>1. CASE user.pc = "idle"
      BY <1>1, <3>1, CtxSays, NamesDiffer
    <3>2. CASE user.pc = "answered"
      BY <1>1, <2>1, <3>2 DEF NodeInv, Deleted, UserCalls
    <3>3. QED
      BY <1>2, <3>1, <3>2
  <2>3. QED
    BY <1>2, <1>3, <2>1, <2>2 DEF NodeInv, Deleted, IsAnswer, UserCalls
<1>7. Leaving(p)'
  BY <1>2, <1>3 DEF NodeInv, Leaving, RequestOn, AnswerOn, IsAnswer
<1>8. QED
  BY <1>5, <1>6, <1>7 DEF NodeInv

\* Checking, or writing, a node that is not there fails.
LEMMA MissingSays ==
  ASSUME NEW ops \in Seq(Ops), NEW t \in Trees, Len(ops) = 1, ops[1].type # "create",
         t[ops[1].path] = Absent
  PROVE  Execute(ops, t).rc # "ZOK"
<1>1. Steps(ops, t)[0] = t
  BY StepsSay
<1>2. Outcome(ops[1], t) # "ZOK"
  BY DEF Outcome
<1>3. 1 \in 1..Len(ops) /\ 1 - 1 = 0
  OBVIOUS
<1>4. Execute(ops, t).rc = "ZOK" => Outcome(ops[1], Steps(ops, t)[1 - 1]) = "ZOK"
  BY <1>3, ExecuteIs
<1>5. QED
  BY <1>1, <1>2, <1>3, <1>4

\* A call that deletes does so.
LEMMA DeletesSay ==
  ASSUME NEW call \in {"Delete", "ADelete", "DeletePathMulti"}, NEW ops \in Seq(Ops), NEW ctx,
         CallOK(call, ops, ctx), NEW p \in PathsOf(ops)
  PROVE  ~Creates(ops, p) /\ Deletes(ops, p)
<1>1. \A k \in DOMAIN ops : ops[k].type = "delete"
  <2>1. CASE call = "DeletePathMulti"
    BY <2>1 DEF CallOK
  <2>2. CASE call \in {"Delete", "ADelete"}
    <3>1. Len(ops) = 1 /\ ops[1].type = "delete"
      BY <2>2 DEF CallOK
    <3>2. DOMAIN ops = 1..1
      BY <3>1, LenProperties
    <3>3. QED
      BY <3>1, <3>2
  <2>3. QED
    BY <2>1, <2>2
<1>2. QED
  BY <1>1 DEF Creates, Deletes, PathsOf

LEMMA NodeServed ==
  ASSUME PipeInv, PipeInv', tree \in Trees, NEW p \in Nodes, NodeInv(p), Serve
  PROVE  NodeInv(p)'
<1>1. /\ requests \in Seq(RequestType) /\ PipeTypes
      /\ Len(requests) \in Nat /\ DOMAIN requests = 1..Len(requests)
      /\ completions \in Seq(AnswerType \union {Connected, Expired})
      /\ Len(completions) \in Nat /\ DOMAIN completions = 1..Len(completions)
  BY PipeSays DEF PipeInv, PipeTypes
<1>2. 1 \in DOMAIN requests /\ requests # <<>> /\ requests' = Tail(requests)
  BY ServeSays
<1>3. /\ Len(requests') = Len(requests) - 1 /\ DOMAIN requests' = 1..(Len(requests) - 1)
      /\ \A k \in DOMAIN requests' : k + 1 \in DOMAIN requests /\ requests'[k] = requests[k + 1]
  BY <1>1, <1>2, TailSays
<1>4. PICK ops \in Seq(Ops) : ops = requests[1].ops
  BY <1>1, <1>2, PipeSays
<1>5. CallOK(requests[1].call, ops, requests[1].ctx)
  BY <1>2, <1>4 DEF PipeInv, CallsOK
<1>6. PICK rc : rc = Execute(ops, tree).rc
  OBVIOUS
<1>7. /\ p \notin PathsOf(ops) => tree'[p] = tree[p]
      /\ ~Creates(ops, p) /\ tree[p] = Absent => tree'[p] = Absent
      /\ ~Creates(ops, p) /\ Deletes(ops, p) /\ rc = "ZOK" => tree'[p] = Absent
  <2>1. tree' = Execute(ops, tree).tree
    BY <1>4, ServeSays
  <2>2. QED
    BY <1>6, <2>1, ExecuteSays, NamesDiffer
<1>8. /\ m_ephemeral_node_info' = m_ephemeral_node_info /\ deleted' = deleted
  BY DEF Serve, registry, history
<1>9. RequestOn(1, p) <=> p \in PathsOf(ops)
  BY <1>4 DEF RequestOn
<1>10. \A k \in DOMAIN requests' : RequestOn(k, p)' =>
         RequestOn(k + 1, p) /\ k + 1 \in DOMAIN requests /\ k + 1 # 1
           /\ requests'[k] = requests[k + 1]
  BY <1>3 DEF RequestOn
<1>11. \A k \in DOMAIN completions : AnswerOn(k, p) => tree'[p] = tree[p]
  BY <1>2, <1>7, <1>9 DEF NodeInv, Alone
<1>12. CASE /\ requests[1].call \in AsyncCalls /\ user' = user
            /\ completions' = Append(completions,
                 [call |-> requests[1].call, ops |-> requests[1].ops,
                  ctx |-> requests[1].ctx, rc |-> Execute(requests[1].ops, tree).rc,
                  results |-> Execute(requests[1].ops, tree).results])
  <2>1. PICK a : /\ completions' = Append(completions, a) /\ a.call = requests[1].call
                 /\ a.ops = ops /\ a.ctx = requests[1].ctx /\ a.rc = rc
    BY <1>4, <1>6, <1>12
  <2>2. \A k \in DOMAIN completions' :
          \/ k \in DOMAIN completions /\ completions'[k] = completions[k]
          \/ k = Len(completions) + 1 /\ completions'[k] = a
    BY <1>1, <2>1
  <2>3. \A k \in DOMAIN completions' : AnswerOn(k, p)' =>
          \/ k \in DOMAIN completions /\ completions'[k] = completions[k] /\ AnswerOn(k, p)
          \/ k = Len(completions) + 1 /\ completions'[k] = a /\ RequestOn(1, p)
    BY <1>9, <2>1, <2>2 DEF AnswerOn, IsAnswer
  <2>4. UserOn(p) => ~RequestOn(1, p)
    <3>1. UserOn(p) /\ RequestOn(1, p) => user.pc = "sent" /\ 1 = Len(requests)
      BY <1>2 DEF NodeInv, Alone
    <3>2. user.pc = "sent" => requests[Len(requests)].call \in SyncCalls
      BY UserSays DEF PipeInv, PipeTypes, SyncLast
    <3>3. QED
      BY <1>12, <3>1, <3>2, CallsDiffer
  <2>5. Alone(p)'
    <3>1. \A j, k \in DOMAIN requests' : RequestOn(j, p)' /\ RequestOn(k, p)' => j = k
      <4> SUFFICES ASSUME NEW j \in DOMAIN requests', NEW k \in DOMAIN requests',
                          RequestOn(j, p)', RequestOn(k, p)'
                   PROVE  j = k
        OBVIOUS
      <4>1. j + 1 = k + 1
        BY <1>10 DEF NodeInv, Alone
      <4>2. QED
        BY <1>1, <1>3, <4>1
    <3>2. \A j, k \in DOMAIN completions' : AnswerOn(j, p)' /\ AnswerOn(k, p)' => j = k
      BY <1>2, <2>3 DEF NodeInv, Alone
    <3>3. \A j \in DOMAIN requests', k \in DOMAIN completions' :
            ~(RequestOn(j, p)' /\ AnswerOn(k, p)')
      BY <1>2, <1>10, <2>3 DEF NodeInv, Alone
    <3>4. UserOn(p)' => UserOn(p)
      BY <1>12 DEF UserOn, UserCalls
    <3>5. UserOn(p) => \A k \in DOMAIN completions' : ~AnswerOn(k, p)'
      BY <2>3, <2>4 DEF NodeInv, Alone
    <3>6. UserOn(p) => \A k \in DOMAIN requests' :
            RequestOn(k, p)' => user.pc = "sent" /\ k = Len(requests')
      <4> SUFFICES ASSUME UserOn(p), NEW k \in DOMAIN requests', RequestOn(k, p)'
                   PROVE  user.pc = "sent" /\ k = Len(requests')
        OBVIOUS
      <4>1. user.pc = "sent" /\ k + 1 = Len(requests)
        BY <1>10 DEF NodeInv, Alone
      <4>2. QED
        BY <1>1, <1>3, <4>1
    <3>7. QED
      BY <1>12, <3>1, <3>2, <3>3, <3>4, <3>5, <3>6 DEF Alone
  <2>6. Deleted(p)'
    <3> SUFFICES ASSUME p \in deleted PROVE Deleted(p)'
      BY <1>8 DEF Deleted
    <3>1. /\ tree[p] = Absent /\ m_ephemeral_node_info[p] = Absent
          /\ ~Writes(requests[1].call, ops, requests[1].ctx, p)
      BY <1>2, <1>4, <1>12 DEF NodeInv, Deleted
    <3>2. tree'[p] = Absent
      BY <1>7, <3>1 DEF Writes
    <3>3. \A k \in DOMAIN requests' : requests'[k].call \in AsyncCalls =>
            ~Writes(requests'[k].call, requests'[k].ops, requests'[k].ctx, p)
      BY <1>3 DEF NodeInv, Deleted
    <3>4. \A k \in DOMAIN completions' : IsAnswer(k)' =>
            ~Writes(completions'[k].call, completions'[k].ops, completions'[k].ctx, p)
      BY <2>1, <2>2, <3>1 DEF NodeInv, Deleted, IsAnswer
    <3>5. QED
      BY <1>8, <1>12, <3>1, <3>2, <3>3, <3>4 DEF NodeInv, Deleted, UserCalls
  <2>7. Leaving(p)'
    <3>1. RequestOn(1, p) /\ a.call = "ADelete" /\ a.rc = "ZOK" => tree'[p] = Absent
      BY <1>5, <1>7, <1>9, <2>1, DeletesSay
    <3>2. RequestOn(1, p) /\ a.call = "ADelete" /\ a.ctx.path = Absent
            => m_ephemeral_node_info[p] = Absent
      BY <1>2, <2>1 DEF NodeInv, Leaving
    <3>3. \A k \in DOMAIN completions' :
            AnswerOn(k, p)' /\ completions'[k].call = "ADelete" /\ completions'[k].rc = "ZOK"
              => tree'[p] = Absent
      BY <1>11, <2>3, <3>1 DEF NodeInv, Leaving
    <3>4. \A k \in DOMAIN completions' :
            AnswerOn(k, p)' /\ completions'[k].call = "ADelete"
              /\ completions'[k].ctx.path = Absent => m_ephemeral_node_info[p] = Absent
      BY <2>3, <3>2 DEF NodeInv, Leaving
    <3>5. \A k \in DOMAIN requests' :
            RequestOn(k, p)' /\ requests'[k].call = "ADelete"
              /\ requests'[k].ctx.path = Absent => m_ephemeral_node_info[p] = Absent
      BY <1>10 DEF NodeInv, Leaving
    <3>6. ASSUME user.pc = "answered", user.call \in {"Delete", "DeletePathMulti"},
                 user.rc = "ZOK", p \in PathsOf(user.ops)
          PROVE  tree'[p] = Absent
      <4>1. UserOn(p)
        BY <3>6 DEF UserOn, UserCalls
      <4>2. tree'[p] = tree[p]
        BY <1>7, <1>9, <2>4, <4>1
      <4>3. tree[p] = Absent
        BY <3>6 DEF NodeInv, Leaving
      <4>4. QED
        BY <4>2, <4>3
    <3>7. QED
      BY <1>8, <1>12, <3>3, <3>4, <3>5, <3>6 DEF Leaving
  <2>8. QED
    BY <2>5, <2>6, <2>7 DEF NodeInv
<1>13. CASE /\ requests[1].call \notin AsyncCalls /\ user.pc = "sent" /\ Len(requests) = 1
            /\ requests[1] = [call |-> user.call, ops |-> user.ops, ctx |-> user.ctx]
            /\ completions' = completions
            /\ user' = [pc |-> "answered", call |-> user.call, ops |-> user.ops,
                        ctx |-> user.ctx, rc |-> Execute(user.ops, tree).rc,
                        results |-> Execute(user.ops, tree).results,
                        view |-> Existing(tree)]
  <2>1. user.ops = ops /\ requests[1].call = user.call /\ requests[1].ctx = user.ctx
    BY <1>4, <1>13
  <2>2. /\ user'.pc = "answered" /\ user'.call = user.call /\ user'.ops = ops
        /\ user'.ctx = user.ctx /\ user'.rc = rc
    BY <1>6, <1>13, <2>1
  <2>3. DOMAIN requests' = {}
    BY <1>3, <1>13
  <2>4. UserCalls /\ (UserOn(p)' => UserOn(p))
    BY <1>13, <2>1, <2>2 DEF UserOn, UserCalls
  <2>5. \A k \in DOMAIN completions' :
          IsAnswer(k)' => IsAnswer(k) /\ completions'[k] = completions[k]
    BY <1>13 DEF IsAnswer
  <2>6. Alone(p)'
    BY <1>13, <2>3, <2>4, <2>5 DEF NodeInv, Alone, AnswerOn
  <2>7. Deleted(p)'
    <3> SUFFICES ASSUME p \in deleted PROVE Deleted(p)'
      BY <1>8 DEF Deleted
    <3>1. /\ tree[p] = Absent /\ m_ephemeral_node_info[p] = Absent /\ ~Creates(ops, p)
          /\ user.ctx.path = p => user.call = "CreateExistSkip"
      BY <2>1, <2>4 DEF NodeInv, Deleted
    <3>2. tree'[p] = Absent
      BY <1>7, <3>1
    <3>3. user.ctx.path = p => user.call = "CreateExistSkip" /\ rc # "ZOK"
      <4> SUFFICES ASSUME user.ctx.path = p PROVE rc # "ZOK"
        BY <3>1
      <4>1. Len(ops) = 1 /\ ops[1].path = p
        BY <1>5, <2>1, <3>1 DEF CallOK
      <4>2. 1 \in DOMAIN ops
        BY <4>1, LenProperties
      <4>3. ops[1].type # "create"
        BY <3>1, <4>1, <4>2 DEF Creates
      <4>4. QED
        BY <1>6, <3>1, <4>1, <4>3, MissingSays
    <3>4. QED
      BY <1>8, <1>13, <2>2, <2>3, <2>5, <3>1, <3>2, <3>3 DEF NodeInv, Deleted
  <2>8. Leaving(p)'
    <3>1. /\ user.call \in {"Delete", "DeletePathMulti"} /\ rc = "ZOK" /\ p \in PathsOf(ops)
            => tree'[p] = Absent
      BY <1>5, <1>7, <2>1, DeletesSay
    <3>2. QED
      BY <1>8, <1>11, <1>13, <2>2, <2>3, <2>5, <3>1 DEF NodeInv, Leaving, AnswerOn
  <2>9. QED
    BY <2>6, <2>7, <2>8 DEF NodeInv
<1>14. QED
  BY <1>12, <1>13, ServeSays

\* No request in flight creates a deleted node.
LEMMA NoneCreates ==
  ASSUME PipeInv, NEW p \in Nodes, NodeInv(p), p \in deleted
  PROVE  tree[p] = Absent /\ \A k \in DOMAIN requests : ~Creates(requests[k].ops, p)
<1>1. /\ tree[p] = Absent
      /\ \A k \in DOMAIN requests : requests[k].call \in AsyncCalls =>
           ~Writes(requests[k].call, requests[k].ops, requests[k].ctx, p)
      /\ UserCalls => ~Creates(user.ops, p)
  BY DEF NodeInv, Deleted
<1>2. ASSUME NEW k \in DOMAIN requests
      PROVE  ~Creates(requests[k].ops, p)
  <2>1. CASE requests[k].call \in AsyncCalls
    BY <1>1, <2>1 DEF Writes
  <2>2. CASE requests[k].call \notin AsyncCalls
    <3>1. user.pc = "sent" /\ requests[k].ops = user.ops
      BY <2>2 DEF PipeInv, SyncLast
    <3>2. QED
      BY <1>1, <3>1 DEF UserCalls
  <2>3. QED
    BY <2>1, <2>2
<1>3. QED
  BY <1>1, <1>2

\* Every request fails: those that had been executed are in the tree, and no answer
\* says so.
LEMMA NodeFailed ==
  ASSUME PipeInv, PipeInv', NEW p \in Nodes, NodeInv(p), NEW rc \in RCs, rc # "ZOK",
         NEW event \in {Connected, Expired}, FailAll(rc, event),
         (\A k \in DOMAIN requests : ~RequestOn(k, p)) /\ tree[p] = Absent => tree'[p] = Absent,
         (\A k \in DOMAIN requests : ~Creates(requests[k].ops, p)) /\ tree[p] = Absent
           => tree'[p] = Absent,
         m_ephemeral_node_info' = m_ephemeral_node_info, deleted' = deleted
  PROVE  NodeInv(p)'
<1>1. /\ Len(requests) \in Nat /\ DOMAIN requests = 1..Len(requests)
      /\ Len(completions) \in Nat /\ DOMAIN completions = 1..Len(completions)
  BY PipeSays DEF PipeInv
<1>2. requests' = <<>> /\ DOMAIN requests' = {}
  BY FailSays
<1>3. PICK n : n = Len(completions)
  OBVIOUS
<1>4. \A k \in DOMAIN completions' : IsAnswer(k)' =>
        \/ k \in DOMAIN completions /\ completions'[k] = completions[k]
        \/ /\ k \notin DOMAIN completions /\ k - n \in DOMAIN requests
           /\ requests[k - n].call \in AsyncCalls
           /\ completions'[k].call = requests[k - n].call
           /\ completions'[k].ops = requests[k - n].ops
           /\ completions'[k].ctx = requests[k - n].ctx
           /\ completions'[k].rc = rc
  <2>1. completions'[Len(completions')] = event
    BY FailSays
  <2>2. \A k \in DOMAIN completions' : IsAnswer(k)' => k # Len(completions')
    BY <2>1, CallsDiffer DEF IsAnswer
  <2>3. QED
    BY <1>3, <2>2, FailSays
<1>5. \A k \in DOMAIN completions' : AnswerOn(k, p)' =>
        \/ k \in DOMAIN completions /\ completions'[k] = completions[k] /\ AnswerOn(k, p)
        \/ /\ k \notin DOMAIN completions /\ k - n \in DOMAIN requests /\ RequestOn(k - n, p)
           /\ requests[k - n].call \in AsyncCalls
           /\ completions'[k].call = requests[k - n].call
           /\ completions'[k].ctx = requests[k - n].ctx
           /\ completions'[k].rc = rc
  BY <1>4 DEF AnswerOn, IsAnswer, RequestOn
<1>6. \/ user' = user /\ user.pc # "sent"
      \/ /\ user.pc = "sent" /\ user'.pc = "answered" /\ user'.call = user.call
         /\ user'.ops = user.ops /\ user'.ctx = user.ctx /\ user'.rc = rc
  BY DEF FailAll, Answer
<1>7. UserOn(p)' => UserOn(p)
  BY <1>6 DEF UserOn, UserCalls
<1>8. \A k \in DOMAIN requests : requests[k].call \in AsyncCalls /\ UserOn(p) => ~RequestOn(k, p)
  <2>1. user.pc = "sent" => requests[Len(requests)].call \in SyncCalls
    BY UserSays DEF PipeInv, PipeTypes, SyncLast
  <2>2. \A k \in DOMAIN requests : UserOn(p) /\ RequestOn(k, p) =>
          user.pc = "sent" /\ k = Len(requests)
    BY DEF NodeInv, Alone
  <2>3. QED
    BY <2>1, <2>2, CallsDiffer
<1>9. Alone(p)'
  <2>1. \A j, k \in DOMAIN completions' : AnswerOn(j, p)' /\ AnswerOn(k, p)' => j = k
    <3> SUFFICES ASSUME NEW j \in DOMAIN completions', NEW k \in DOMAIN completions',
                        AnswerOn(j, p)', AnswerOn(k, p)'
                 PROVE  j = k
      OBVIOUS
    <3>1. CASE j \in DOMAIN completions /\ k \in DOMAIN completions
      BY <1>5, <3>1 DEF NodeInv, Alone
    <3>2. CASE j \notin DOMAIN completions /\ k \notin DOMAIN completions
      <4>1. j - n = k - n
        BY <1>5, <3>2 DEF NodeInv, Alone
      <4>2. j \in Int /\ k \in Int /\ n \in Int
        BY <1>1, <1>3, FailSays
      <4>3. \A x, y, z \in Int : x - z = y - z => x = y
        OBVIOUS
      <4>4. QED
        BY <4>1, <4>2, <4>3
    <3>3. CASE j \in DOMAIN completions /\ k \notin DOMAIN completions
      BY <1>5, <3>3 DEF NodeInv, Alone
    <3>4. CASE j \notin DOMAIN completions /\ k \in DOMAIN completions
      BY <1>5, <3>4 DEF NodeInv, Alone
    <3>5. QED
      BY <3>1, <3>2, <3>3, <3>4
  <2>2. UserOn(p) => \A k \in DOMAIN completions' : ~AnswerOn(k, p)'
    BY <1>5, <1>8 DEF NodeInv, Alone
  <2>3. QED
    BY <1>2, <1>7, <2>1, <2>2 DEF Alone
<1>10. Deleted(p)'
  <2> SUFFICES ASSUME p \in deleted PROVE Deleted(p)'
    BY DEF Deleted
  <2>1. /\ tree[p] = Absent /\ m_ephemeral_node_info[p] = Absent
        /\ \A k \in DOMAIN requests : requests[k].call \in AsyncCalls =>
             ~Writes(requests[k].call, requests[k].ops, requests[k].ctx, p)
        /\ \A k \in DOMAIN completions : IsAnswer(k) =>
             ~Writes(completions[k].call, completions[k].ops, completions[k].ctx, p)
        /\ UserCalls => ~Creates(user.ops, p)
    BY DEF NodeInv, Deleted
  <2>2. \A k \in DOMAIN requests : ~Creates(requests[k].ops, p)
    BY NoneCreates
  <2>3. tree'[p] = Absent
    BY <2>1, <2>2
  <2>4. \A k \in DOMAIN completions' : IsAnswer(k)' =>
          ~Writes(completions'[k].call, completions'[k].ops, completions'[k].ctx, p)
    BY <1>4, <2>1 DEF IsAnswer
  <2>5. UserCalls' => /\ UserCalls /\ user'.ops = user.ops /\ user'.ctx = user.ctx
                      /\ user'.call = user.call
    BY <1>6 DEF UserCalls
  <2>6. UserCalls' => ~Creates(user'.ops, p)
    BY <2>1, <2>5
  <2>7. UserCalls' /\ user'.ctx.path = p =>
          user'.call = "CreateExistSkip" /\ (user'.pc = "answered" => user'.rc # "ZOK")
    BY <1>6, <2>5 DEF NodeInv, Deleted
  <2>8. QED
    BY <1>2, <2>1, <2>3, <2>4, <2>6, <2>7 DEF Deleted
<1>11. Leaving(p)'
  <2>1. \A k \in DOMAIN completions' :
          AnswerOn(k, p)' /\ completions'[k].call = "ADelete" /\ completions'[k].rc = "ZOK"
            => tree'[p] = Absent
    <3> SUFFICES ASSUME NEW k \in DOMAIN completions', AnswerOn(k, p)',
                        completions'[k].call = "ADelete", completions'[k].rc = "ZOK"
                 PROVE  tree'[p] = Absent
      OBVIOUS
    <3>1. k \in DOMAIN completions /\ completions'[k] = completions[k] /\ AnswerOn(k, p)
      BY <1>5
    <3>2. tree[p] = Absent /\ \A j \in DOMAIN requests : ~RequestOn(j, p)
      BY <3>1 DEF NodeInv, Leaving, Alone
    <3>3. QED
      BY <3>2
  <2>2. \A k \in DOMAIN completions' :
          AnswerOn(k, p)' /\ completions'[k].call = "ADelete"
            /\ completions'[k].ctx.path = Absent => m_ephemeral_node_info[p] = Absent
    BY <1>5 DEF NodeInv, Leaving
  <2>3. ASSUME user'.pc = "answered", user'.call \in {"Delete", "DeletePathMulti"},
               user'.rc = "ZOK", p \in PathsOf(user'.ops)
        PROVE  tree'[p] = Absent
    <3>1. user' = user
      BY <1>6, <2>3
    <3>2. tree[p] = Absent /\ UserOn(p)
      BY <2>3, <3>1 DEF NodeInv, Leaving, UserOn, UserCalls
    <3>3. \A j \in DOMAIN requests : ~RequestOn(j, p)
      BY <2>3, <3>1, <3>2 DEF NodeInv, Alone
    <3>4. QED
      BY <3>2, <3>3
  <2>4. QED
    BY <1>2, <2>1, <2>2, <2>3 DEF Leaving
<1>12. QED
  BY <1>9, <1>10, <1>11 DEF NodeInv


LEMMA NodeReconnected ==
  ASSUME PipeInv, PipeInv', MemoryInv, SessionsOK, NEW p \in Nodes, NodeInv(p), Reconnect
  PROVE  NodeInv(p)'
<1>1. /\ completions # <<>> /\ Head(completions).call = "EXPIRED"
      /\ completions' = Append(Tail(completions), Connected)
      /\ UNCHANGED <<requests, user>> /\ tree' = tree /\ deleted' = deleted
      /\ m_ephemeral_node_info' = m_ephemeral_node_info
  BY DEF Reconnect
<1>2. /\ completions \in Seq(AnswerType \union {Connected, Expired})
      /\ Connected \in AnswerType \union {Connected, Expired}
  BY DEF PipeInv, PipeTypes
<1>3. /\ completions[1].call = "EXPIRED" /\ 1 \in DOMAIN completions
      /\ Len(completions) \in Nat /\ DOMAIN completions = 1..Len(completions)
  BY <1>1, <1>2, TailSays
<1>4. Len(completions) = 1
  BY <1>3 DEF SessionsOK, MemoryInv, MemoryTypes
<1>5. PICK rest : rest = Tail(completions)
  OBVIOUS
<1>6. /\ rest \in Seq(AnswerType \union {Connected, Expired}) /\ Len(rest) = 0
      /\ DOMAIN rest = {}
  BY <1>1, <1>2, <1>4, <1>5, TailSays
<1>7. /\ DOMAIN completions' = 1..1
      /\ \A k \in DOMAIN completions' : completions'[k] = Connected
  BY <1>1, <1>2, <1>5, <1>6, AppendSays
<1>8. /\ \A k \in DOMAIN completions' : ~IsAnswer(k)'
      /\ DOMAIN completions \subseteq Int /\ DOMAIN completions' \subseteq Int
  BY <1>3, <1>4, <1>7, CallsDiffer DEF IsAnswer
<1>9. QED
  BY <1>1, <1>8, NodeQuiet

LEMMA NodeConnected ==
  ASSUME PipeInv, PipeInv', NEW p \in Nodes, NodeInv(p), ConnectedEvent
  PROVE  NodeInv(p)'
<1>1. /\ completions # <<>> /\ completions' = Tail(completions)
      /\ UNCHANGED <<requests, user>> /\ tree' = tree /\ deleted' = deleted
      /\ m_ephemeral_node_info' = m_ephemeral_node_info
  BY DEF ConnectedEvent, Handles, server, registry, history
<1>2. /\ Len(completions) \in Nat /\ DOMAIN completions = 1..Len(completions)
      /\ DOMAIN completions' = 1..(Len(completions) - 1)
      /\ \A k \in DOMAIN completions' :
           k + 1 \in DOMAIN completions /\ completions'[k] = completions[k + 1]
  BY <1>1, TailSays DEF PipeInv, PipeTypes
<1>3. DOMAIN completions \subseteq Int /\ DOMAIN completions' \subseteq Int
  BY <1>2
<1>4. QED
  BY <1>1, <1>2, <1>3, NodeQuiet

\* Nothing but other nodes, or nothing at all, has changed.
LEMMA NodeStays ==
  ASSUME PipeInv, NEW p \in Nodes, NodeInv(p), UNCHANGED <<requests, user, completions>>,
         tree'[p] = tree[p], m_ephemeral_node_info' = m_ephemeral_node_info,
         deleted' = deleted
  PROVE  NodeInv(p)'
<1>1. DOMAIN completions = 1..Len(completions) /\ Len(completions) \in Nat
  BY PipeSays DEF PipeInv
<1>2. \A k \in DOMAIN completions : k + 0 = k
  BY <1>1
<1>3. DOMAIN completions \subseteq Int /\ DOMAIN completions' \subseteq Int
  BY <1>1
<1>4. QED
  BY <1>2, <1>3, NodeQuiet

LEMMA NodeRestarted ==
  ASSUME PipeInv, PipeInv', MemoryInv, NEW p \in Nodes, NodeInv(p), Restart
  PROVE  NodeInv(p)'
<1>1. /\ requests' = <<>> /\ user' = Idle /\ deleted' = deleted
      /\ m_ephemeral_node_info'[p] = Absent
  BY DEF Restart
<1>2. PICK event \in {Connected, Expired} : completions' = <<event>>
  BY DEF Restart
<1>3. \A k \in DOMAIN completions' : ~AnswerOn(k, p)'
  <2>1. DOMAIN completions' = {1} /\ completions'[1] = event
    BY <1>2
  <2>2. QED
    BY <2>1, CallsDiffer DEF AnswerOn, IsAnswer
<1>4. ServedSome
  BY DisconnectSays DEF PipeInv, MemoryInv, MemoryTypes
<1>5. p \in deleted => tree'[p] = Absent
  BY <1>4, NoneCreates DEF ServedSome
<1>6. user'.pc = "idle"
  BY <1>1 DEF Idle
<1>7. QED
  BY <1>1, <1>3, <1>5, <1>6, FreeSays DEF UserCalls

LEMMA NodeDisturbed ==
  ASSUME PipeInv, PipeInv', MemoryInv, NEW p \in Nodes, NodeInv(p), Environment
  PROVE  NodeInv(p)'
<1>t. PipeTypes /\ tree \in Trees
  BY DEF PipeInv, MemoryInv, MemoryTypes
<1>r. /\ "ZCONNECTIONLOSS" \in RCs /\ "ZSESSIONEXPIRED" \in RCs
      /\ "ZCONNECTIONLOSS" # "ZOK" /\ "ZSESSIONEXPIRED" # "ZOK"
  BY DEF RCs
<1>1. CASE Disconnect
  <2>1. /\ FailAll("ZCONNECTIONLOSS", Connected) /\ deleted' = deleted
        /\ m_ephemeral_node_info' = m_ephemeral_node_info
    BY <1>1 DEF Disconnect, registry
  <2>2. ServedSome
    BY <1>1, <1>t, DisconnectSays
  <2>3. /\ (\A k \in DOMAIN requests : ~RequestOn(k, p)) /\ tree[p] = Absent
             => tree'[p] = Absent
        /\ (\A k \in DOMAIN requests : ~Creates(requests[k].ops, p)) /\ tree[p] = Absent
             => tree'[p] = Absent
    BY <2>2 DEF ServedSome, RequestOn
  <2>4. QED
    BY <1>r, <2>1, <2>3, NodeFailed
<1>2. CASE Expire
  <2>1. /\ FailAll("ZSESSIONEXPIRED", Expired) /\ deleted' = deleted
        /\ m_ephemeral_node_info' = m_ephemeral_node_info
    BY <1>2 DEF Expire, registry, history
  <2>2. tree'[p] = Absent
    BY <1>2, <1>t, ExpireSays
  <2>3. QED
    BY <1>r, <2>1, <2>2, NodeFailed
<1>3. CASE ChangeParent
  <2>1. /\ UNCHANGED <<requests, user, completions>> /\ deleted' = deleted
        /\ m_ephemeral_node_info' = m_ephemeral_node_info
    BY <1>3 DEF ChangeParent, pipe, registry, history
  <2>2. tree'[p] = tree[p]
    BY <1>3, <1>t, ChangeParentSays
  <2>3. QED
    BY <2>1, <2>2, NodeStays
<1>4. CASE Restart
  BY <1>4, NodeRestarted
<1>5. QED
  BY <1>1, <1>2, <1>3, <1>4 DEF Environment

-----------------------------------------------------------------------------
(* What holds when calls on a path wait for one another.                   *)

LEMMA EphemeralInit ==
  Init => EphemeralInv
<1> SUFFICES ASSUME Init PROVE EphemeralInv
  OBVIOUS
<1>1. PipeInv /\ MemoryInv
  BY BaseInit
<1>2. /\ requests = <<>> /\ completions = <<>> /\ link = "up" /\ deleted = {}
      /\ m_need_resume_env = FALSE /\ user.pc = "idle" /\ zk.pc = "idle"
  BY DEF Init, Idle
<1>3. DOMAIN requests = {} /\ DOMAIN completions = {}
  BY <1>2
<1>4. SessionsOK
  BY <1>2, <1>3 DEF SessionsOK, Resuming
<1>5. \A p \in Nodes : NodeInv(p)
  BY <1>2, <1>3 DEF NodeInv, Alone, Deleted, Leaving, UserOn, UserCalls
<1>6. QED
  BY <1>1, <1>4, <1>5 DEF EphemeralInv

LEMMA EphemeralNext ==
  ASSUME OneAtATime, ResumeWaits, EphemeralInv, [Next]_vars
  PROVE  EphemeralInv'
<1>1. /\ PipeInv /\ MemoryInv /\ SessionsOK /\ \A p \in Nodes : NodeInv(p)
      /\ PipeInv' /\ MemoryInv' /\ tree \in Trees
  BY BaseNext DEF EphemeralInv, MemoryInv, MemoryTypes
<1>2. CASE UserCall
  <2>1. Called \/ Refused
    BY <1>1, <1>2, UserCallSays DEF MemoryInv
  <2>2. SessionsOK' /\ \A p \in Nodes : NodeInv(p)'
    BY <1>1, <2>1, SessionsCalled, NodeCalled, SessionsRefused, NodeRefused
  <2>3. QED
    BY <1>1, <2>2 DEF EphemeralInv
<1>3. CASE UserReturn
  <2>1. Ended \/ Continued \/ Refused
    BY <1>1, <1>3, UserReturnSays
  <2>2. SessionsOK'
    BY <1>1, <2>1, SessionsEnded, SessionsContinued, SessionsRefused
  <2>3. \A p \in Nodes : NodeInv(p)'
    BY <1>1, <2>1, NodeEnded, NodeContinued, NodeRefused
  <2>4. QED
    BY <1>1, <2>2, <2>3 DEF EphemeralInv
<1>4. CASE ZkThread
  <2>1. Recorded \/ Resumed \/ Reconnect \/ ConnectedEvent
    BY <1>1, <1>4, CallbackSays, ResumeSays DEF ZkThread
  <2>2. SessionsOK'
    BY <1>1, <2>1, SessionsZk
  <2>3. \A p \in Nodes : NodeInv(p)'
    BY <1>1, <2>1, NodeRecorded, NodeResumed, NodeReconnected, NodeConnected
  <2>4. QED
    BY <1>1, <2>2, <2>3 DEF EphemeralInv
<1>5. CASE Serve \/ Environment
  <2>1. SessionsOK'
    BY <1>1, <1>5, SessionsServer
  <2>2. \A p \in Nodes : NodeInv(p)'
    BY <1>1, <1>5, NodeServed, NodeDisturbed
  <2>3. QED
    BY <1>1, <2>1, <2>2 DEF EphemeralInv
<1>6. CASE UNCHANGED vars
  <2>1. /\ UNCHANGED <<requests, user, completions>> /\ link' = link /\ zk' = zk
        /\ m_need_resume_env' = m_need_resume_env /\ tree' = tree /\ deleted' = deleted
        /\ m_ephemeral_node_info' = m_ephemeral_node_info
    BY <1>6 DEF vars
  <2>2. SessionsOK'
    BY <1>1, <2>1 DEF SessionsOK, IsAnswer, Resuming
  <2>3. \A p \in Nodes : NodeInv(p)'
    BY <1>1, <2>1, NodeStays
  <2>4. QED
    BY <1>1, <2>2, <2>3 DEF EphemeralInv
<1>7. QED
  BY <1>2, <1>3, <1>4, <1>5, <1>6 DEF Next

\* A node that a call has deleted stays away until a call creates it: no answer that
\* comes late writes its entry again, no request sent before creates it, and neither a
\* session that is resumed nor a new instance does.  The user calls on a path when the
\* earlier calls on it are over, and calls nothing between the end of a session and
\* the end of ReconnectResumeEnv (CppZookeeper.cpp, Delete, ADelete,
\* DeletePathRecursion, InnerVoidCompletion, ReconnectResumeEnv).
THEOREM DeletedStaysDeleted ==
  ASSUME OneAtATime, ResumeWaits
  PROVE  Spec => []NoResurrection
<1>1. Init => EphemeralInv
  BY EphemeralInit
<1>2. EphemeralInv /\ [Next]_vars => EphemeralInv'
  BY EphemeralNext
<1>3. EphemeralInv => NoResurrection
  <2> SUFFICES ASSUME EphemeralInv, NEW p \in deleted
               PROVE  tree[p] = Absent
    BY DEF NoResurrection
  <2>1. p \in Nodes
    BY DEF EphemeralInv, MemoryInv, MemoryTypes
  <2>2. QED
    BY <2>1 DEF EphemeralInv, NodeInv, Deleted
<1>4. QED
  BY <1>1, <1>2, <1>3, PTL DEF Spec
=============================================================================
