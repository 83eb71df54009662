-------------------------- MODULE ZkWatcherProofs --------------------------
(***************************************************************************)
(* The safety properties of ZkWatcher, for any paths, contexts and bounds: *)
(* no watch is lost, and no table of the C client holds a context that has *)
(* been destroyed.                                                         *)
(***************************************************************************)
EXTENDS ZkWatcher, TLAPS, SequenceTheorems

Clients == Contexts \union {Global}

\* What a watch looks at, the tables that can hold it and the events that end it.
Kind(type) == IF type = "GET_CHILDREN" THEN "children" ELSE "get"
TablesFor(kind) == IF kind = "children" THEN {"child"} ELSE {"node", "exist"}
EventsFor(kind) ==
  IF kind = "children" THEN {"CHILD", "DELETED"} ELSE {"CREATED", "CHANGED", "DELETED"}

\* Where a context is known.
EventAt(k, ctx) == completions[k].event \in NodeEvents /\ ctx \in completions[k].ctxs
AnswerAt(k, ctx) == completions[k].event = "ANSWER" /\ completions[k].answer.ctx = ctx
UserHas(ctx) == user.pc = "answered" /\ user.answer.ctx = ctx

InTables(ctx) == \E t \in Tables, p \in Paths : <<p, ctx>> \in active[t]
InEvents(ctx) == \E k \in DOMAIN completions : EventAt(k, ctx)
InAnswers(ctx) == UserHas(ctx) \/ \E k \in DOMAIN completions : AnswerAt(k, ctx)
InRegistry(ctx) == \E p \in Paths : <<p, ctx>> \in m_custom_watcher_contexts
InCallback(ctx) == zk.pc = "callback" /\ zk.ctx = ctx

\* The paths at which it is known.
At(p, ctx) ==
  \/ \E t \in Tables : <<p, ctx>> \in active[t]
  \/ \E k \in DOMAIN completions : EventAt(k, ctx) /\ completions[k].path = p
  \/ \E k \in DOMAIN completions : AnswerAt(k, ctx) /\ completions[k].answer.path = p
  \/ UserHas(ctx) /\ user.answer.path = p
  \/ <<p, ctx>> \in m_custom_watcher_contexts
  \/ InCallback(ctx) /\ zk.path = p

\* The watch is armed, or its event is on the way.
Fires(k, kind, path, ctx) ==
  EventAt(k, ctx) /\ completions[k].event \in EventsFor(kind) /\ completions[k].path = path
Watched(kind, path, ctx) ==
  \/ Armed(TablesFor(kind), path, ctx)
  \/ \E k \in DOMAIN completions : Fires(k, kind, path, ctx)

-----------------------------------------------------------------------------
(* The inductive invariant.                                                *)

AnswerType == [type : WatcherTypes, path : Paths, ctx : Clients, rc : Codes]
Completion ==
  [event : {"ANSWER"}, answer : AnswerType]
    \union [event : NodeEvents, path : Paths, ctxs : SUBSET Clients]
    \union [event : SessionEvents, ctxs : SUBSET Clients]
ZkType ==
  {Idle}
    \union [pc : {"global", "custom"}, todo : SUBSET (Paths \X WatcherTypes \X Clients)]
    \union [pc : {"callback"}, ctx : Clients, path : Paths,
            event : NodeEvents \union {"NOTWATCHING"},
            drops : SUBSET {"get", "exists", "children"}]

WatcherTypesOK ==
  /\ TypeOK
  /\ completions \in Seq(Completion)
  /\ user \in {Idle} \union [pc : {"answered"}, answer : AnswerType]
  /\ zk \in ZkType

\* The user makes no calls while the watches are armed again, and none that it made
\* before is answered then.
ResumeQuiet ==
  /\ Resuming => m_need_resume_env /\ user.pc = "idle"
  /\ m_need_resume_env => \A k \in DOMAIN completions : completions[k].event # "ANSWER"
  /\ zk.pc = "global" => \A w \in zk.todo : w[3] = Global
  /\ zk.pc = "custom" => \A w \in zk.todo :
       /\ w[3] \in Contexts /\ w[2] = m_watcher_type[w[3]]
       /\ <<w[1], w[3]>> \in m_custom_watcher_contexts

\* A context is of one call, on one path.
Identity(c) ==
  /\ \A p, q \in Paths : At(p, c) /\ At(q, c) => p = q
  /\ m_watcher_type[c] = "NOT_WATCHER" => c \notin freed /\ \A p \in Paths : ~At(p, c)

\* It is found in the tables, and in the events, of what its call looks at.
Typed(c) ==
  /\ \A k \in DOMAIN completions :
       AnswerAt(k, c) => completions[k].answer.type = m_watcher_type[c]
  /\ UserHas(c) => user.answer.type = m_watcher_type[c]
  /\ \A t \in Tables, p \in Paths :
       <<p, c>> \in active[t] => t \in TablesFor(Kind(m_watcher_type[c]))
  /\ \A k \in DOMAIN completions :
       EventAt(k, c) => completions[k].event \in EventsFor(Kind(m_watcher_type[c]))

\* Its watch is armed or in one event, not both.
Once(c) ==
  \A k \in DOMAIN completions : EventAt(k, c) =>
    ~InTables(c) /\ \A j \in DOMAIN completions : EventAt(j, c) => j = k

\* Its call is answered once.  A call that failed has set no watch.
Failed(answer) == ~Success(answer.type, answer.rc)
Out(c) == ~InTables(c) /\ ~InEvents(c) /\ ~InCallback(c)
Answered(c) ==
  /\ \A k \in DOMAIN completions : AnswerAt(k, c) =>
       /\ ~UserHas(c)
       /\ \A j \in DOMAIN completions : AnswerAt(j, c) => j = k
       /\ Failed(completions[k].answer) => Out(c)
  /\ UserHas(c) /\ Failed(user.answer) => Out(c)
  /\ InAnswers(c) => ~InRegistry(c) /\ c \notin freed

\* A context that is destroyed is nowhere but in events that InnerWatcher drops.
Gone(c) ==
  c \in freed =>
    /\ ~InTables(c) /\ ~InRegistry(c) /\ ~InCallback(c)
    /\ InEvents(c) => c \in m_is_stop

\* While the user is called, DeleteWatcher can find the context.
Calling(c) ==
  InCallback(c) =>
    \A t \in Tables, p \in Paths : <<p, c>> \in active[t] => t \in TablesOf(zk.event)

ClientInv(c) ==
  Identity(c) /\ Typed(c) /\ Once(c) /\ Answered(c) /\ Gone(c) /\ Calling(c)

\* The watches that are registered, or will be.
Due(p, c) ==
  \/ <<p, c>> \in m_custom_watcher_contexts
  \/ UserHas(c) /\ user.answer.path = p /\ ~Failed(user.answer)
  \/ \E k \in DOMAIN completions :
       AnswerAt(k, c) /\ completions[k].answer.path = p /\ ~Failed(completions[k].answer)

Kept(p, c) ==
  \/ c \in m_is_stop
  \/ <<p, m_watcher_type[c], c>> \in lost
  \/ Watched(Kind(m_watcher_type[c]), p, c)

\* They are watched in every session, when ReconnectResumeEnv is through.
Resumed(c) ==
  /\ Live => \A p \in Paths : Due(p, c) => Kept(p, c)
  /\ m_need_resume_env /\ zk.pc # "custom" => ~InTables(c) /\ ~InEvents(c)
  /\ zk.pc = "custom" =>
       /\ \A p \in Paths : <<p, c>> \in m_custom_watcher_contexts =>
            Kept(p, c) \/ <<p, m_watcher_type[c], c>> \in zk.todo
       /\ \A w \in zk.todo : w[3] = c => ~InTables(c) /\ ~InEvents(c)

WatcherInv ==
  /\ WatcherTypesOK /\ ResumeQuiet
  /\ \A c \in Contexts : ClientInv(c) /\ Resumed(c)

-----------------------------------------------------------------------------
(* Steps that leave a context alone.                                       *)

\* What waits for ctx waited for it before, d places further back.
FewerWait(ctx, d) ==
  /\ \A k \in DOMAIN completions' : EventAt(k, ctx)' =>
       /\ k + d \in DOMAIN completions /\ EventAt(k + d, ctx)
       /\ completions'[k].event = completions[k + d].event
       /\ completions'[k].path = completions[k + d].path
  /\ \A k \in DOMAIN completions' : AnswerAt(k, ctx)' =>
       /\ k + d \in DOMAIN completions /\ AnswerAt(k + d, ctx)
       /\ completions'[k].answer = completions[k + d].answer

\* What waited for ctx still does.
StillWait(ctx, d) ==
  \A k \in DOMAIN completions : EventAt(k, ctx) =>
    /\ k - d \in DOMAIN completions' /\ EventAt(k - d, ctx)'
    /\ completions'[k - d].event = completions[k].event
    /\ completions'[k - d].path = completions[k].path

FewerArmed(ctx) ==
  \A t \in Tables, p \in Paths : <<p, ctx>> \in active'[t] => <<p, ctx>> \in active[t]
StillArmed(ctx) ==
  \A t \in Tables, p \in Paths : <<p, ctx>> \in active[t] => <<p, ctx>> \in active'[t]

NoMoreOf(c) ==
  /\ UserHas(c)' => UserHas(c) /\ user'.answer = user.answer
  /\ \A p \in Paths : <<p, c>> \in m_custom_watcher_contexts' =>
                        <<p, c>> \in m_custom_watcher_contexts
  /\ InCallback(c)' => InCallback(c) /\ zk'.path = zk.path /\ zk'.event = zk.event
  /\ m_watcher_type'[c] = m_watcher_type[c]
  /\ c \in m_is_stop => c \in m_is_stop'
  /\ c \in freed' <=> c \in freed

\* Nothing new is known of a context: what holds of it still does.
LEMMA LeftAlone ==
  ASSUME completions \in Seq(Completion), completions' \in Seq(Completion),
         NEW c \in Contexts, NEW d \in {0, 1}, ClientInv(c),
         FewerArmed(c), FewerWait(c, d), NoMoreOf(c)
  PROVE  ClientInv(c)'
<1>1. DOMAIN completions \subseteq Int /\ DOMAIN completions' \subseteq Int
  BY LenProperties
<1>2. /\ InTables(c)' => InTables(c)
      /\ InEvents(c)' => InEvents(c)
      /\ InAnswers(c)' => InAnswers(c)
      /\ InRegistry(c)' => InRegistry(c)
      /\ InCallback(c)' => InCallback(c)
  BY DEF InTables, InEvents, InAnswers, InRegistry, FewerArmed, FewerWait, NoMoreOf
<1>3. ASSUME NEW p \in Paths, At(p, c)' PROVE At(p, c)
  <2>1. CASE \E t \in Tables : <<p, c>> \in active'[t]
    BY <2>1 DEF At, FewerArmed
  <2>2. CASE \E k \in DOMAIN completions' : EventAt(k, c)' /\ completions'[k].path = p
    BY <2>2 DEF At, FewerWait
  <2>3. CASE \E k \in DOMAIN completions' : AnswerAt(k, c)' /\ completions'[k].answer.path = p
    BY <2>3 DEF At, FewerWait
  <2>4. CASE UserHas(c)' /\ user'.answer.path = p
    BY <2>4 DEF At, NoMoreOf
  <2>5. CASE <<p, c>> \in m_custom_watcher_contexts'
    BY <2>5 DEF At, NoMoreOf
  <2>6. CASE InCallback(c)' /\ zk'.path = p
    BY <2>6 DEF At, NoMoreOf
  <2>7. QED
    BY <1>3, <2>1, <2>2, <2>3, <2>4, <2>5, <2>6, Zenon DEF At
<1>4. Identity(c)'
  BY <1>3 DEF ClientInv, Identity, NoMoreOf
<1>5. Typed(c)'
  BY DEF ClientInv, Typed, FewerArmed, FewerWait, NoMoreOf
<1>6. Once(c)'
  BY <1>1, <1>2 DEF ClientInv, Once, FewerWait
<1>7. Out(c) => Out(c)'
  BY <1>2 DEF Out
<1>8. Answered(c)'
  <2>1. ASSUME NEW k \in DOMAIN completions', AnswerAt(k, c)'
        PROVE  /\ ~UserHas(c)'
               /\ \A j \in DOMAIN completions' : AnswerAt(j, c)' => j = k
               /\ Failed(completions'[k].answer) => Out(c)'
    BY <1>1, <1>7, <2>1 DEF ClientInv, Answered, FewerWait, NoMoreOf
  <2>2. UserHas(c)' /\ Failed(user'.answer) => Out(c)'
    BY <1>7 DEF ClientInv, Answered, NoMoreOf
  <2>3. InAnswers(c)' => ~InRegistry(c)' /\ c \notin freed'
    BY <1>2 DEF ClientInv, Answered, NoMoreOf
  <2>4. QED
    BY <2>1, <2>2, <2>3 DEF Answered, Failed
<1>9. Gone(c)'
  BY <1>2 DEF ClientInv, Gone, NoMoreOf
<1>10. Calling(c)'
  BY DEF ClientInv, Calling, FewerArmed, NoMoreOf, TablesOf
<1>11. QED
  BY <1>4, <1>5, <1>6, <1>8, <1>9, <1>10 DEF ClientInv

-----------------------------------------------------------------------------
(* The completions.                                                        *)

LEMMA CompletionsAre ==
  ASSUME completions \in Seq(Completion)
  PROVE  /\ Len(completions) \in Nat /\ DOMAIN completions = 1 .. Len(completions)
         /\ \A k \in DOMAIN completions :
              /\ completions[k] \in Completion
              /\ completions[k].event = "ANSWER" => completions[k].answer \in AnswerType
              /\ completions[k].event \in NodeEvents =>
                   completions[k].path \in Paths /\ completions[k].ctxs \in SUBSET Clients
              /\ completions[k].event \in SessionEvents =>
                   completions[k].ctxs \in SUBSET Clients
              /\ completions[k].event \in {"ANSWER"} \union NodeEvents \union SessionEvents
         /\ completions # <<>> => 1 \in DOMAIN completions /\ Head(completions) = completions[1]
<1>1. Len(completions) \in Nat /\ DOMAIN completions = 1 .. Len(completions)
  BY LenProperties
<1>2. ASSUME NEW k \in DOMAIN completions PROVE completions[k] \in Completion
  BY <1>1, ElementOfSeq
<1>3. ASSUME NEW x \in Completion
      PROVE  /\ x.event = "ANSWER" => x.answer \in AnswerType
             /\ x.event \in NodeEvents => x.path \in Paths /\ x.ctxs \in SUBSET Clients
             /\ x.event \in SessionEvents => x.ctxs \in SUBSET Clients
             /\ x.event \in {"ANSWER"} \union NodeEvents \union SessionEvents
  BY DEF Completion, NodeEvents, SessionEvents
<1>4. ASSUME completions # <<>>
      PROVE  1 \in DOMAIN completions /\ Head(completions) = completions[1]
  BY <1>1, <1>4, EmptySeq
<1>5. QED
  BY <1>1, <1>2, <1>3, <1>4

LEMMA NoCompletion ==
  ASSUME UNCHANGED completions, completions \in Seq(Completion), NEW ctx \in Clients
  PROVE  FewerWait(ctx, 0) /\ StillWait(ctx, 0)
BY CompletionsAre DEF FewerWait, StillWait, EventAt, AnswerAt

\* An answer has been handled.
LEMMA AnswerTaken ==
  ASSUME completions \in Seq(Completion), completions # <<>>,
         Head(completions).event = "ANSWER", completions' = Tail(completions)
  PROVE  /\ completions' \in Seq(Completion)
         /\ DOMAIN completions' = 1 .. Len(completions) - 1
         /\ \A k \in DOMAIN completions' : completions'[k] = completions[k + 1]
         /\ \A ctx \in Clients : FewerWait(ctx, 1) /\ StillWait(ctx, 1)
<1>1. /\ completions' \in Seq(Completion) /\ Len(completions') = Len(completions) - 1
      /\ \A k \in 1 .. Len(completions') : completions'[k] = completions[k + 1]
  BY HeadTailProperties
<1>2. /\ Len(completions) \in Nat /\ DOMAIN completions = 1 .. Len(completions)
      /\ completions[1].event = "ANSWER" /\ 1 \in DOMAIN completions
  BY CompletionsAre
<1>3. DOMAIN completions' = 1 .. Len(completions) - 1
  BY <1>1, LenProperties
<1>4. ASSUME NEW k \in DOMAIN completions'
      PROVE  k + 1 \in DOMAIN completions /\ completions'[k] = completions[k + 1]
  BY <1>1, <1>2, <1>3
<1>5. ASSUME NEW k \in DOMAIN completions, k # 1
      PROVE  k - 1 \in DOMAIN completions' /\ completions'[k - 1] = completions[k]
  <2>1. k - 1 \in DOMAIN completions' /\ (k - 1) + 1 = k
    BY <1>2, <1>3, <1>5
  <2>2. QED
    BY <1>4, <2>1
<1>6. ASSUME NEW ctx \in Clients PROVE FewerWait(ctx, 1) /\ StillWait(ctx, 1)
  <2>1. FewerWait(ctx, 1)
    BY <1>4 DEF FewerWait, EventAt, AnswerAt
  <2>2. StillWait(ctx, 1)
    BY <1>2, <1>5 DEF StillWait, EventAt, NodeEvents
  <2>3. QED
    BY <2>1, <2>2
<1>7. QED
  BY <1>1, <1>3, <1>4, <1>6

\* An event has been delivered to ctx.
LEMMA DeliverSays ==
  ASSUME completions \in Seq(Completion), Handles(NodeEvents \union SessionEvents),
         NEW ctx \in Clients, Deliver(ctx)
  PROVE  /\ completions' \in Seq(Completion)
         /\ \E d \in {0, 1} :
              /\ \A c \in Clients : FewerWait(c, d)
              /\ \A c \in Clients :
                   c # ctx \/ Head(completions).event \notin NodeEvents => StillWait(c, d)
              /\ \A k \in DOMAIN completions' : EventAt(k, ctx)' => k + d # 1
              /\ \A k \in DOMAIN completions : k > 1 => k - d \in DOMAIN completions'
                   /\ completions'[k - d] = completions[k]
<1>1. /\ Len(completions) \in Nat /\ DOMAIN completions = 1 .. Len(completions)
      /\ 1 \in DOMAIN completions /\ Head(completions) = completions[1]
      /\ completions[1] \in Completion
      /\ completions[1].event \in NodeEvents \union SessionEvents
      /\ ctx \in completions[1].ctxs
  BY CompletionsAre DEF Handles, Deliver
<1>2. completions # <<>>
  BY DEF Handles
<1>3. CASE completions[1].ctxs = {ctx}
  <2>1. completions' = Tail(completions)
    BY <1>1, <1>3 DEF Deliver
  <2>2. /\ completions' \in Seq(Completion) /\ DOMAIN completions' = 1 .. Len(completions) - 1
        /\ \A k \in 1 .. Len(completions) - 1 : completions'[k] = completions[k + 1]
    BY <1>2, <2>1, HeadTailProperties, LenProperties
  <2>3. ASSUME NEW k \in DOMAIN completions'
        PROVE  k + 1 \in DOMAIN completions /\ completions'[k] = completions[k + 1] /\ k + 1 # 1
    BY <1>1, <2>2
  <2>4. ASSUME NEW k \in DOMAIN completions, k # 1
        PROVE  k - 1 \in DOMAIN completions' /\ completions'[k - 1] = completions[k]
    <3>1. k - 1 \in DOMAIN completions' /\ (k - 1) + 1 = k
      BY <1>1, <2>2, <2>4
    <3>2. QED
      BY <2>3, <3>1
  <2>5. \A c \in Clients : FewerWait(c, 1)
    BY <2>3 DEF FewerWait, EventAt, AnswerAt
  <2>6. ASSUME NEW c \in Clients, c # ctx \/ completions[1].event \notin NodeEvents
        PROVE  StillWait(c, 1)
    <3>1. ~EventAt(1, c)
      BY <1>3, <2>6 DEF EventAt
    <3>2. QED
      BY <2>4, <3>1 DEF StillWait, EventAt
  <2>7. QED
    BY <1>1, <2>2, <2>3, <2>4, <2>5, <2>6
<1>4. CASE completions[1].ctxs # {ctx}
  <2> DEFINE rest == [completions[1] EXCEPT !.ctxs = @ \ {ctx}]
  <2>1. completions' = [completions EXCEPT ![1] = rest]
    BY <1>1, <1>4 DEF Deliver
  <2>2. /\ rest \in Completion /\ rest.event = completions[1].event
        /\ rest.ctxs = completions[1].ctxs \ {ctx}
        /\ completions[1].event \in NodeEvents => rest.path = completions[1].path
    BY <1>1 DEF Completion, NodeEvents, SessionEvents
  <2> HIDE DEF rest
  <2>3. /\ completions' \in Seq(Completion) /\ DOMAIN completions' = DOMAIN completions
        /\ completions'[1] = rest
        /\ \A k \in DOMAIN completions : k # 1 => completions'[k] = completions[k]
    BY <1>1, <2>1, <2>2, ExceptSeq
  <2>4. ASSUME NEW c \in Clients PROVE FewerWait(c, 0)
    BY <1>1, <2>2, <2>3 DEF FewerWait, EventAt, AnswerAt, NodeEvents, SessionEvents
  <2>5. ASSUME NEW c \in Clients, c # ctx \/ completions[1].event \notin NodeEvents
        PROVE  StillWait(c, 0)
    BY <1>1, <2>2, <2>3, <2>5 DEF StillWait, EventAt
  <2>6. ~EventAt(1, ctx)'
    BY <2>2, <2>3 DEF EventAt
  <2>7. ASSUME NEW k \in DOMAIN completions' , EventAt(k, ctx)' PROVE k + 0 # 1
    <3>1. k # 1 /\ k \in Nat
      BY <1>1, <2>3, <2>6, <2>7
    <3>2. QED
      BY <3>1
  <2>8. \A k \in DOMAIN completions : k > 1 => k - 0 \in DOMAIN completions'
                   /\ completions'[k - 0] = completions[k]
    BY <1>1, <2>3
  <2>9. QED
    BY <1>1, <2>3, <2>4, <2>5, <2>7, <2>8
<1>5. QED
  BY <1>3, <1>4

\* A completion has been added.
LEMMA Appended ==
  ASSUME completions \in Seq(Completion), NEW x \in Completion,
         completions' = Append(completions, x)
  PROVE  /\ completions' \in Seq(Completion)
         /\ DOMAIN completions' = 1 .. Len(completions) + 1
         /\ completions'[Len(completions) + 1] = x
         /\ \A k \in DOMAIN completions : completions'[k] = completions[k]
         /\ \A ctx \in Clients :
              /\ StillWait(ctx, 0)
              /\ (ctx \notin x.ctxs \/ x.event \notin NodeEvents) /\
                 (x.event # "ANSWER" \/ x.answer.ctx # ctx) => FewerWait(ctx, 0)
<1>1. /\ completions' \in Seq(Completion) /\ Len(completions') = Len(completions) + 1
      /\ \A k \in 1 .. Len(completions) : completions'[k] = completions[k]
      /\ completions'[Len(completions) + 1] = x
  BY AppendProperties
<1>2. /\ Len(completions) \in Nat /\ DOMAIN completions = 1 .. Len(completions)
      /\ DOMAIN completions' = 1 .. Len(completions) + 1
  BY <1>1, LenProperties
<1>3. \A k \in DOMAIN completions :
        /\ k - 0 = k /\ k + 0 = k
        /\ k \in DOMAIN completions' /\ completions'[k] = completions[k]
  BY <1>1, <1>2
<1>4. ASSUME NEW ctx \in Clients PROVE StillWait(ctx, 0)
  BY <1>3 DEF StillWait, EventAt
<1>5. ASSUME NEW ctx \in Clients, ctx \notin x.ctxs \/ x.event \notin NodeEvents,
             x.event # "ANSWER" \/ x.answer.ctx # ctx
      PROVE  FewerWait(ctx, 0)
  <2>1. \A k \in DOMAIN completions' : EventAt(k, ctx)' \/ AnswerAt(k, ctx)' =>
          k \in DOMAIN completions
    <3>1. \A k \in DOMAIN completions' : k \in DOMAIN completions \/ k = Len(completions) + 1
      BY <1>2
    <3>2. QED
      BY <1>1, <1>5, <3>1 DEF EventAt, AnswerAt
  <2>2. QED
    BY <1>3, <2>1 DEF FewerWait, EventAt, AnswerAt
<1>6. QED
  BY <1>1, <1>2, <1>3, <1>4, <1>5

-----------------------------------------------------------------------------
(* The C client and the server.                                            *)

\* A call arms at most its own watch, and when it succeeds it does.
LEMMA SetWatchSays ==
  ASSUME active \in [Tables -> SUBSET Watches], NEW type \in WatcherTypes,
         NEW path \in Paths, NEW ctx \in Clients, NEW rc \in Codes, NEW calls,
         SetWatch(type, path, ctx, rc, calls)
  PROVE  /\ active' \in [Tables -> SUBSET Watches]
         /\ \A t \in Tables, w \in Watches : w \in active[t] => w \in active'[t]
         /\ \A t \in Tables, w \in Watches : w \in active'[t] =>
              \/ w \in active[t]
              \/ /\ w = <<path, ctx>> /\ t \in TablesFor(Kind(type))
                 /\ Success(type, rc)
         /\ Success(type, rc) =>
              \E t \in TablesFor(Kind(type)) : <<path, ctx>> \in active'[t]
<1>1. <<path, ctx>> \in Watches
  BY DEF Watches, Clients
<1>2. ASSUME NEW table \in TablesFor(Kind(type)), Arm(table, path, ctx), Success(type, rc)
      PROVE  /\ active' \in [Tables -> SUBSET Watches]
             /\ \A t \in Tables, w \in Watches : w \in active[t] => w \in active'[t]
             /\ \A t \in Tables, w \in Watches : w \in active'[t] =>
                  w \in active[t] \/ (w = <<path, ctx>> /\ t \in TablesFor(Kind(type)))
             /\ \E t \in TablesFor(Kind(type)) : <<path, ctx>> \in active'[t]
  <2>1. table \in Tables
    BY DEF TablesFor, Tables
  <2>2. active' = [active EXCEPT ![table] = @ \union {<<path, ctx>>}]
    BY <1>2 DEF Arm
  <2>3. \A t \in Tables :
          active'[t] = IF t = table THEN active[t] \union {<<path, ctx>>} ELSE active[t]
    BY <2>2
  <2>4. active' \in [Tables -> SUBSET Watches]
    BY <1>1, <2>2
  <2>5. QED
    BY <2>1, <2>3, <2>4
<1>3. TableOf(type) \in TablesFor(Kind(type))
  BY DEF TableOf, TablesFor, Kind
<1>4. CASE rc = "ZOK"
  <2>1. Arm(TableOf(type), path, ctx) /\ Success(type, rc)
    BY <1>4 DEF SetWatch, Success
  <2>2. QED
    BY <1>2, <1>3, <2>1
<1>5. CASE rc = "ZNONODE" /\ type = "EXISTS"
  <2>1. Arm("exist", path, ctx) /\ Success(type, rc)
    BY <1>5 DEF SetWatch, Success
  <2>2. "exist" \in TablesFor(Kind(type))
    BY <1>5 DEF TablesFor, Kind
  <2>3. QED
    BY <1>2, <2>1, <2>2
<1>6. CASE rc # "ZOK" /\ ~(rc = "ZNONODE" /\ type = "EXISTS")
  <2>1. UNCHANGED active /\ ~Success(type, rc)
    BY <1>6 DEF SetWatch, Success
  <2>2. QED
    BY <2>1
<1>7. QED
  BY <1>4, <1>5, <1>6

\* The watches of a path that changes wait in one event, and nothing else does.
LEMMA ChangeSays ==
  ASSUME active \in [Tables -> SUBSET Watches], completions \in Seq(Completion),
         NEW path \in Paths, NEW event \in NodeEvents, Change(path, event)
  PROVE  /\ active' \in [Tables -> SUBSET Watches]
         /\ \A t \in Tables, p \in Paths, c \in Clients :
              <<p, c>> \in active'[t] <=>
                <<p, c>> \in active[t] /\ ~(p = path /\ t \in TablesOf(event))
         /\ completions' \in Seq(Completion)
         /\ \A k \in DOMAIN completions :
              k \in DOMAIN completions' /\ completions'[k] = completions[k]
         /\ \A k \in DOMAIN completions' : k \notin DOMAIN completions =>
              /\ k = Len(completions) + 1
              /\ completions'[k].event = event /\ completions'[k].path = path
              /\ \A c \in Clients : c \in completions'[k].ctxs <=>
                   \E t \in TablesOf(event) : <<path, c>> \in active[t]
         /\ \A c \in Clients, t \in TablesOf(event) :
              <<path, c>> \in active[t] => Len(completions) + 1 \in DOMAIN completions'
<1> DEFINE ctxs == {c \in Clients : \E t \in TablesOf(event) : <<path, c>> \in active[t]}
           x == [event |-> event, path |-> path, ctxs |-> ctxs]
<1>1. /\ active' = [t \in Tables |->
                     IF t \in TablesOf(event) THEN active[t] \ ({path} \X ctxs) ELSE active[t]]
      /\ completions' = IF ctxs = {} THEN completions ELSE Append(completions, x)
  BY DEF Change, Clients
<1>2. \A c \in Clients :
        c \in ctxs <=> \E t \in TablesOf(event) : <<path, c>> \in active[t]
  OBVIOUS
<1>3. x \in Completion /\ x.event = event /\ x.path = path /\ x.ctxs = ctxs
  BY DEF Completion
<1> HIDE DEF ctxs, x
<1>4. active' \in [Tables -> SUBSET Watches]
  BY <1>1
<1>5. ASSUME NEW t \in Tables, NEW p \in Paths, NEW c \in Clients
      PROVE  <<p, c>> \in active'[t] <=>
               <<p, c>> \in active[t] /\ ~(p = path /\ t \in TablesOf(event))
  <2>1. active'[t] = IF t \in TablesOf(event) THEN active[t] \ ({path} \X ctxs) ELSE active[t]
    BY <1>1
  <2>2. <<p, c>> \in {path} \X ctxs <=> p = path /\ c \in ctxs
    OBVIOUS
  <2>3. QED
    BY <1>2, <2>1, <2>2
<1>6. CASE ctxs = {}
  <2>1. completions' = completions
    BY <1>1, <1>6
  <2>2. \A c \in Clients, t \in TablesOf(event) : <<path, c>> \notin active[t]
    BY <1>2, <1>6
  <2>3. QED
    BY <1>4, <1>5, <2>1, <2>2
<1>7. CASE ctxs # {}
  <2>1. completions' = Append(completions, x)
    BY <1>1, <1>7
  <2>2. /\ completions' \in Seq(Completion)
        /\ DOMAIN completions' = 1 .. Len(completions) + 1
        /\ completions'[Len(completions) + 1] = x
        /\ \A k \in DOMAIN completions : completions'[k] = completions[k]
    BY <1>3, <2>1, Appended
  <2>3. Len(completions) \in Nat /\ DOMAIN completions = 1 .. Len(completions)
    BY LenProperties
  <2>4. ASSUME NEW k \in DOMAIN completions', k \notin DOMAIN completions
        PROVE  k = Len(completions) + 1 /\ completions'[k] = x
    BY <2>2, <2>3, <2>4
  <2>5. /\ Len(completions) + 1 \in DOMAIN completions'
        /\ \A k \in DOMAIN completions : k \in DOMAIN completions'
    BY <2>2, <2>3
  <2>6. QED
    BY <1>2, <1>3, <1>4, <1>5, <2>2, <2>4, <2>5
<1>8. QED
  BY <1>6, <1>7

\* The watches that are armed again are those of the registry.
LEMMA RegistryTyped ==
  ASSUME WatcherInv, NEW p \in Paths, NEW c \in Contexts,
         <<p, c>> \in m_custom_watcher_contexts
  PROVE  m_watcher_type[c] \in WatcherTypes
<1>1. At(p, c)
  BY DEF At
<1>2. m_watcher_type[c] # "NOT_WATCHER"
  BY <1>1 DEF WatcherInv, ClientInv, Identity
<1>3. QED
  BY <1>2 DEF WatcherInv, WatcherTypesOK, TypeOK

LEMMA EventTyped ==
  ASSUME WatcherInv, NEW k \in DOMAIN completions, NEW c \in Contexts, EventAt(k, c)
  PROVE  m_watcher_type[c] \in WatcherTypes /\ completions[k].path \in Paths
         /\ At(completions[k].path, c)
<1>1. completions[k].path \in Paths
  BY CompletionsAre DEF WatcherInv, WatcherTypesOK, EventAt
<1>2. At(completions[k].path, c)
  BY DEF At
<1>3. m_watcher_type[c] # "NOT_WATCHER"
  BY <1>1, <1>2 DEF WatcherInv, ClientInv, Identity
<1>4. QED
  BY <1>1, <1>2, <1>3 DEF WatcherInv, WatcherTypesOK, TypeOK

-----------------------------------------------------------------------------
(* Types.                                                                  *)

LEMMA TypesStep ==
  ASSUME WatcherInv, [Next]_vars
  PROVE  WatcherTypesOK'
<1> USE DEF WatcherTypesOK, TypeOK, ZkType, Idle
<1>1. /\ WatcherTypesOK /\ completions \in Seq(Completion)
      /\ active \in [Tables -> SUBSET Watches]
  BY DEF WatcherInv
<1> DEFINE UserType == {Idle} \union [pc : {"answered"}, answer : AnswerType]
<1>2. ASSUME NEW call \in AnswerType, Enter(call)
      PROVE  /\ m_global_watcher_path_type' \in [Paths -> SUBSET {"get", "exists", "children"}]
             /\ m_custom_watcher_contexts' \subseteq Paths \X Contexts
             /\ freed' \subseteq Contexts
  <2>1. /\ call.type \in WatcherTypes /\ call.path \in Paths
        /\ call.ctx \in Contexts \union {Global}
    BY DEF AnswerType, Clients
  <2>2. Bits(call.type) \subseteq {"get", "exists", "children"}
    BY <2>1 DEF Bits, WatcherTypes
  <2>3. CASE Success(call.type, call.rc) /\ call.ctx = Global
    <3>1. /\ m_global_watcher_path_type' =
               [m_global_watcher_path_type EXCEPT ![call.path] = @ \union Bits(call.type)]
          /\ UNCHANGED <<m_custom_watcher_contexts, freed>>
      BY <1>2, <2>3 DEF Enter, AddGlobal
    <3>2. QED
      BY <1>1, <2>1, <2>2, <3>1
  <2>4. CASE Success(call.type, call.rc) /\ call.ctx # Global
    <3>1. /\ m_custom_watcher_contexts' = m_custom_watcher_contexts \union {<<call.path, call.ctx>>}
          /\ UNCHANGED <<m_global_watcher_path_type, freed>>
      BY <1>2, <2>4 DEF Enter, AddCustomWatcher
    <3>2. QED
      BY <1>1, <2>1, <2>4, <3>1
  <2>5. CASE ~Success(call.type, call.rc)
    BY <1>1, <1>2, <2>1, <2>5 DEF Enter, registry
  <2>6. QED
    BY <2>3, <2>4, <2>5
<1>3. ASSUME NEW name, NEW type \in WatcherTypes, NEW path \in Paths, NEW ctx \in Clients,
             NEW rc \in Codes, Watch(name, type, path, ctx, rc)
      PROVE  /\ Answer(type, path, ctx, rc) \in AnswerType
             /\ active' \in [Tables -> SUBSET Watches]
             /\ m_watcher_type' \in [Contexts -> WatcherTypes \union {"NOT_WATCHER"}]
             /\ UNCHANGED <<exists, link, m_global_watcher_path_type, m_custom_watcher_contexts,
                            m_is_stop, freed, m_need_resume_env, zk>>
  <2>1. Answer(type, path, ctx, rc) \in AnswerType
    BY DEF Answer, AnswerType
  <2>2. active' \in [Tables -> SUBSET Watches]
    BY <1>1, <1>3, SetWatchSays DEF Watch
  <2>3. m_watcher_type' \in [Contexts -> WatcherTypes \union {"NOT_WATCHER"}]
    BY <1>1, <1>3 DEF Watch
  <2>4. QED
    BY <1>3, <2>1, <2>2, <2>3 DEF Watch, server, registry
<1>4. ASSUME NEW name, NEW type \in WatcherTypes, NEW path \in Paths, NEW ctx \in Clients,
             Synchronous(name, type, path, ctx)
      PROVE  WatcherTypesOK'
  <2>1. PICK rc \in Codes :
          /\ Watch(name, type, path, ctx, rc)
          /\ user' = [pc |-> "answered", answer |-> Answer(type, path, ctx, rc)]
          /\ UNCHANGED completions
    BY <1>4 DEF Synchronous
  <2>2. user' \in UserType
    BY <1>3, <2>1
  <2>3. QED
    BY <1>1, <1>3, <2>1, <2>2
<1>5. ASSUME NEW name, NEW type \in WatcherTypes, NEW path \in Paths, NEW ctx \in Clients,
             Asynchronous(name, type, path, ctx)
      PROVE  WatcherTypesOK'
  <2>1. PICK rc \in Codes :
          /\ Watch(name, type, path, ctx, rc)
          /\ completions' = Append(completions,
               [event |-> "ANSWER", answer |-> Answer(type, path, ctx, rc)])
          /\ UNCHANGED user
    BY <1>5 DEF Asynchronous
  <2>2. [event |-> "ANSWER", answer |-> Answer(type, path, ctx, rc)] \in Completion
    BY <1>3, <2>1 DEF Completion
  <2>3. completions' \in Seq(Completion)
    BY <1>1, <2>1, <2>2, Appended
  <2>4. QED
    BY <1>1, <1>3, <2>1, <2>3
<1>6. CASE UserCall
  <2>1. PICK path \in Paths, ctx \in Contexts \union {Global} :
          \/ Exists(path, ctx) \/ Get(path, ctx) \/ GetChildren(path, ctx)
          \/ AExists(path, ctx) \/ AGet(path, ctx) \/ AGetChildren(path, ctx)
    BY <1>6 DEF UserCall
  <2>2. {"EXISTS", "GET", "GET_CHILDREN"} = WatcherTypes /\ ctx \in Clients
    BY DEF WatcherTypes, Clients
  <2> HIDE DEF WatcherTypesOK, TypeOK, ZkType, Idle
  <2>3. QED
    BY <1>4, <1>5, <2>1, <2>2 DEF Exists, Get, GetChildren, AExists, AGet, AGetChildren
<1>7. CASE Return
  <2>1. user.answer \in AnswerType
    BY <1>1, <1>7 DEF Return
  <2>2. QED
    BY <1>1, <1>2, <1>7, <2>1 DEF Return, server
<1>8. CASE ProcAsyncWatcher
  <2>1. /\ completions # <<>> /\ Head(completions).event = "ANSWER"
        /\ completions' = Tail(completions) /\ Enter(Head(completions).answer)
    BY <1>8 DEF ProcAsyncWatcher, Handles
  <2>2. completions' \in Seq(Completion) /\ Head(completions).answer \in AnswerType
    BY <1>1, <2>1, AnswerTaken, CompletionsAre
  <2>3. QED
    BY <1>1, <1>2, <1>8, <2>1, <2>2 DEF ProcAsyncWatcher, server
<1>9. ASSUME NEW ctx \in Clients, NEW events, events \subseteq NodeEvents \union SessionEvents,
             Handles(events), Deliver(ctx)
      PROVE  /\ completions' \in Seq(Completion)
             /\ events \subseteq NodeEvents =>
                  Head(completions).path \in Paths /\ Head(completions).event \in NodeEvents
  <2>1. Handles(NodeEvents \union SessionEvents) /\ completions # <<>>
    BY <1>9 DEF Handles
  <2>2. events \subseteq NodeEvents =>
          Head(completions).path \in Paths /\ Head(completions).event \in NodeEvents
    BY <1>1, <1>9, <2>1, CompletionsAre DEF Handles
  <2>3. completions' \in Seq(Completion)
    BY <1>1, <1>9, <2>1, DeliverSays
  <2>4. QED
    BY <2>2, <2>3
<1>10. CASE InnerWatcherStopped
  <2>1. PICK ctx \in m_is_stop : Deliver(ctx)
    BY <1>10 DEF InnerWatcherStopped
  <2>2. ctx \in Clients
    BY <1>1 DEF Clients
  <2>3. completions' \in Seq(Completion)
    BY <1>9, <1>10, <2>1, <2>2 DEF InnerWatcherStopped
  <2>4. QED
    BY <1>1, <1>10, <2>3 DEF InnerWatcherStopped, server, registry, contexts
<1>11. CASE Reconnect
  <2>1. <<[event |-> "CONNECTED", ctxs |-> {Global}]>> \in Seq(Completion)
    BY DEF Completion, SessionEvents, Clients
  <2>2. [t \in Tables |-> {}] \in [Tables -> SUBSET Watches]
    OBVIOUS
  <2>3. QED
    BY <1>1, <1>11, <2>1, <2>2 DEF Reconnect, registry, contexts
<1>12. CASE ConnectedEvent
  <2>1. Global \in Clients
    BY DEF Clients
  <2>2. completions' \in Seq(Completion)
    BY <1>9, <1>12, <2>1 DEF ConnectedEvent, SessionEvents
  <2>3. GlobalWatches \in SUBSET (Paths \X WatcherTypes \X Clients)
    BY <2>1 DEF GlobalWatches, WatcherTypes
  <2>4. zk' \in ZkType
    BY <1>1, <1>12, <2>3 DEF ConnectedEvent
  <2>5. QED
    BY <1>1, <1>12, <2>2, <2>4 DEF ConnectedEvent, server, registry, contexts
<1>13. CASE ResumeWatch
  <2>1. PICK w \in zk.todo, rc \in Codes :
          /\ SetWatch(w[2], w[1], w[3], rc, 0)
          /\ zk' = [zk EXCEPT !.todo = @ \ {w}]
    BY <1>13 DEF ResumeWatch
  <2>2. /\ zk.pc \in {"global", "custom"}
        /\ zk.todo \in SUBSET (Paths \X WatcherTypes \X Clients)
        /\ zk \in [pc : {"global", "custom"}, todo : SUBSET (Paths \X WatcherTypes \X Clients)]
    BY <1>1, <1>13 DEF ResumeWatch, Resuming
  <2>3. zk' \in ZkType
    BY <2>1, <2>2
  <2>4. w[1] \in Paths /\ w[2] \in WatcherTypes /\ w[3] \in Clients
    BY <2>2
  <2>5. active' \in [Tables -> SUBSET Watches]
    BY <1>1, <2>1, <2>4, SetWatchSays
  <2>6. QED
    BY <1>1, <1>13, <2>3, <2>5 DEF ResumeWatch, server, registry, contexts
<1>14. CASE ResumeCustom
  <2>1. CustomWatches \in SUBSET (Paths \X WatcherTypes \X Clients)
    <3>1. ASSUME NEW w \in m_custom_watcher_contexts
          PROVE  <<w[1], m_watcher_type[w[2]], w[2]>> \in Paths \X WatcherTypes \X Clients
      <4>1. w[1] \in Paths /\ w[2] \in Contexts /\ <<w[1], w[2]>> \in m_custom_watcher_contexts
        <5>1. m_custom_watcher_contexts \subseteq Paths \X Contexts
          BY <1>1
        <5>2. w \in Paths \X Contexts /\ w = <<w[1], w[2]>>
          BY <5>1
        <5>3. QED
          BY <5>2
      <4>2. m_watcher_type[w[2]] \in WatcherTypes
        BY <4>1, RegistryTyped
      <4>3. QED
        BY <4>1, <4>2 DEF Clients
    <3>2. QED
      BY <3>1 DEF CustomWatches
  <2>2. zk' \in ZkType
    BY <1>14, <2>1 DEF ResumeCustom
  <2>3. QED
    BY <1>1, <1>14, <2>2 DEF ResumeCustom, server, registry, contexts
<1>15. CASE ResumeEnd
  BY <1>1, <1>15 DEF ResumeEnd, server, registry, contexts
<1>16. CASE CustomWatcher
  <2> DEFINE path == Head(completions).path
  <2>1. PICK ctx \in Contexts \ m_is_stop :
          /\ Deliver(ctx)
          /\ \/ /\ m_is_stop' = m_is_stop \union {ctx}
                /\ Called(ctx, path, Head(completions).event, {})
                /\ UNCHANGED active
             \/ \E rc \in Codes :
                  /\ SetWatch(m_watcher_type[ctx], path, ctx, rc, 0)
                  /\ \/ Called(ctx, path, Head(completions).event, {}) /\ UNCHANGED m_is_stop
                     \/ /\ Called(ctx, path, Failure(rc), {})
                        /\ m_is_stop' = m_is_stop \union {ctx}
    BY <1>16 DEF CustomWatcher
  <2>2. /\ completions' \in Seq(Completion) /\ path \in Paths
        /\ Head(completions).event \in NodeEvents /\ ctx \in Clients
    BY <1>9, <1>16, <2>1 DEF CustomWatcher, Clients
  <2>3. m_watcher_type[ctx] \in WatcherTypes
    <3>1. 1 \in DOMAIN completions /\ Head(completions) = completions[1]
      BY <1>1, <1>16, CompletionsAre DEF CustomWatcher, Handles
    <3>2. EventAt(1, ctx)
      BY <2>1, <2>2, <3>1 DEF EventAt, Deliver
    <3>3. QED
      BY <3>1, <3>2, EventTyped
  <2>4. active' \in [Tables -> SUBSET Watches]
    BY <1>1, <2>1, <2>2, <2>3, SetWatchSays
  <2>5. \A rc \in Codes : Failure(rc) \in NodeEvents \union {"NOTWATCHING"}
    BY DEF Failure, NodeEvents
  <2>6. zk' \in ZkType /\ m_is_stop' \subseteq Contexts \union {Global}
    <3> HIDE DEF path
    <3>1. PICK event \in NodeEvents \union {"NOTWATCHING"} : Called(ctx, path, event, {})
      BY <2>1, <2>2, <2>5
    <3>2. zk' \in ZkType
      BY <2>2, <3>1 DEF Called
    <3>3. m_is_stop' \subseteq Contexts \union {Global}
      BY <1>1, <2>1
    <3>4. QED
      BY <3>2, <3>3
  <2>7. QED
    BY <1>1, <1>16, <2>2, <2>4, <2>6 DEF CustomWatcher, server, registry
<1>17. CASE GlobalWatcherUnknown
  <2>1. completions' \in Seq(Completion)
    BY <1>9, <1>17 DEF GlobalWatcherUnknown, Clients
  <2>2. QED
    BY <1>1, <1>17, <2>1 DEF GlobalWatcherUnknown, server, registry, contexts
<1>18. CASE GlobalWatcher
  <2> DEFINE path == Head(completions).path
             event == Head(completions).event
             again == Again(path, event)
  <2>1. /\ Deliver(Global)
        /\ m_global_watcher_path_type' =
             [m_global_watcher_path_type EXCEPT ![path] = Remaining(path, event)]
        /\ \/ /\ again = "none"
              /\ Called(Global, path, event, Drops(path, event))
              /\ m_is_stop' = m_is_stop \union {Global}
              /\ UNCHANGED active
           \/ /\ again # "none"
              /\ \E rc \in Codes :
                   /\ SetWatch(again, path, Global, rc, 0)
                   /\ \/ /\ Called(Global, path, event, Drops(path, event))
                         /\ UNCHANGED m_is_stop
                      \/ /\ Called(Global, path, "NOTWATCHING", Drops(path, event))
                         /\ m_is_stop' = m_is_stop \union {Global}
    BY <1>18 DEF GlobalWatcher
  <2>2. /\ completions' \in Seq(Completion) /\ path \in Paths /\ event \in NodeEvents
        /\ Global \in Clients
    BY <1>9, <1>18 DEF GlobalWatcher, Clients
  <2>3. again # "none" => again \in WatcherTypes
    BY DEF Again, WatcherTypes
  <2>4. /\ Drops(path, event) \in SUBSET {"get", "exists", "children"}
        /\ Remaining(path, event) \in SUBSET {"get", "exists", "children"}
    BY <1>1, <2>2 DEF Drops, Remaining, Bits
  <2> HIDE DEF path, event, again
  <2>5. active' \in [Tables -> SUBSET Watches]
    BY <1>1, <2>1, <2>2, <2>3, SetWatchSays
  <2>6. zk' \in ZkType
    BY <2>1, <2>2, <2>4 DEF Called
  <2>7. /\ m_global_watcher_path_type' \in [Paths -> SUBSET {"get", "exists", "children"}]
        /\ m_is_stop' \subseteq Contexts \union {Global}
    BY <1>1, <2>1, <2>4
  <2>8. QED
    BY <1>1, <1>18, <2>2, <2>5, <2>6, <2>7 DEF GlobalWatcher, server
<1>19. CASE Callback
  <2>1. /\ zk \in [pc : {"callback"}, ctx : Clients, path : Paths,
                   event : NodeEvents \union {"NOTWATCHING"},
                   drops : SUBSET {"get", "exists", "children"}]
        /\ zk' = Idle
        /\ UNCHANGED <<exists, link, completions, m_watcher_type, m_need_resume_env, user>>
    BY <1>1, <1>19 DEF Callback, server
  <2>2. CASE UNCHANGED <<active, registry, m_is_stop, freed>>
    BY <1>1, <2>1, <2>2 DEF registry
  <2>3. CASE /\ m_global_watcher_path_type' =
                  [m_global_watcher_path_type EXCEPT ![zk.path] = @ \ zk.drops]
             /\ UNCHANGED <<active, m_custom_watcher_contexts, m_is_stop, freed>>
    BY <1>1, <2>1, <2>3
  <2>4. CASE /\ zk.ctx # Global
             /\ m_is_stop' = m_is_stop \union {zk.ctx}
             /\ m_custom_watcher_contexts' = m_custom_watcher_contexts \ {<<zk.path, zk.ctx>>}
             /\ freed' = IF <<zk.path, zk.ctx>> \in m_custom_watcher_contexts
                         THEN freed \union {zk.ctx} ELSE freed
             /\ DeleteWatcher(zk.event, zk.path, zk.ctx)
             /\ UNCHANGED m_global_watcher_path_type
    <3>1. zk.ctx \in Contexts
      BY <2>1, <2>4 DEF Clients
    <3>2. active' \in [Tables -> SUBSET Watches]
      BY <1>1, <2>4 DEF DeleteWatcher
    <3>3. QED
      BY <1>1, <2>1, <2>4, <3>1, <3>2
  <2>5. QED
    BY <1>19, <2>2, <2>3, <2>4 DEF Callback
<1>20. CASE Expire
  <2>1. PICK ctxs \in SUBSET Clients :
          completions' = Append(completions, [event |-> "EXPIRED_SESSION", ctxs |-> ctxs])
    BY <1>20 DEF Expire, Clients
  <2>2. [event |-> "EXPIRED_SESSION", ctxs |-> ctxs] \in Completion
    BY DEF Completion, SessionEvents
  <2>3. completions' \in Seq(Completion)
    BY <1>1, <2>1, <2>2, Appended
  <2>4. QED
    BY <1>1, <1>20, <2>3 DEF Expire, registry, contexts
<1>21. ASSUME NEW path \in Paths, NEW event \in NodeEvents, Change(path, event)
       PROVE  WatcherTypesOK'
  <2>1. active' \in [Tables -> SUBSET Watches] /\ completions' \in Seq(Completion)
    BY <1>1, <1>21, ChangeSays
  <2>2. exists' \in [Paths -> BOOLEAN]
    BY <1>1, <1>21, Zenon DEF Change
  <2>3. QED
    BY <1>1, <1>21, <2>1, <2>2 DEF Change, registry, contexts
<1>22. CASE UNCHANGED vars
  BY <1>1, <1>22 DEF vars
<1> HIDE DEF WatcherTypesOK, TypeOK, ZkType, Idle
<1>23. QED
  BY <1>6, <1>7, <1>8, <1>10, <1>11, <1>12, <1>13, <1>14, <1>15, <1>16, <1>17, <1>18,
     <1>19, <1>20, <1>21, <1>22 DEF Next, ZkThread, Environment

-----------------------------------------------------------------------------
(* A step keeps the invariant for each custom watcher.                     *)

LEMMA StillWatched ==
  ASSUME NEW ctx \in Clients, NEW d \in {0, 1}, StillArmed(ctx), StillWait(ctx, d),
         NEW kind, NEW p \in Paths, Watched(kind, p, ctx)
  PROVE  Watched(kind, p, ctx)'
<1>1. TablesFor(kind) \subseteq Tables
  BY DEF TablesFor, Tables
<1>2. CASE Armed(TablesFor(kind), p, ctx)
  BY <1>1, <1>2 DEF Armed, StillArmed, Watched
<1>3. CASE \E k \in DOMAIN completions : Fires(k, kind, p, ctx)
  <2>1. PICK k \in DOMAIN completions : Fires(k, kind, p, ctx)
    BY <1>3
  <2>2. k - d \in DOMAIN completions' /\ Fires(k - d, kind, p, ctx)'
    BY <2>1 DEF Fires, StillWait
  <2>3. QED
    BY <2>2 DEF Watched
<1>4. QED
  BY <1>2, <1>3 DEF Watched

\* The watches that are due are still kept.
LEMMA StillResumed ==
  ASSUME NEW c \in Contexts, NEW d \in {0, 1}, Resumed(c),
         FewerArmed(c), FewerWait(c, d), NoMoreOf(c),
         (StillArmed(c) /\ StillWait(c, d)) \/ c \in m_is_stop',
         lost \subseteq lost', Live' => Live, UNCHANGED m_need_resume_env,
         \A p \in Paths : Due(p, c)' => Due(p, c),
         zk.pc = "custom" <=> zk'.pc = "custom",
         zk.pc = "custom" => \A w : w[3] = c => (w \in zk'.todo <=> w \in zk.todo)
  PROVE  Resumed(c)'
<1>1. InTables(c)' => InTables(c)
  BY DEF InTables, FewerArmed
<1>2. InEvents(c)' => InEvents(c)
  BY DEF InEvents, FewerWait
<1>3. ASSUME NEW p \in Paths, Kept(p, c)
      PROVE  Kept(p, c)'
  <2>1. UNCHANGED m_watcher_type[c] /\ (c \in m_is_stop => c \in m_is_stop')
    BY DEF NoMoreOf
  <2>2. c \in Clients
    BY DEF Clients
  <2>3. CASE c \in m_is_stop \/ c \in m_is_stop'
    BY <2>1, <2>3 DEF Kept
  <2>4. CASE <<p, m_watcher_type[c], c>> \in lost
    BY <2>1, <2>4 DEF Kept
  <2>5. CASE Watched(Kind(m_watcher_type[c]), p, c) /\ StillArmed(c) /\ StillWait(c, d)
    <3>1. PICK kind \in {"get", "children"} : kind = Kind(m_watcher_type[c])
      BY DEF Kind
    <3>2. Watched(kind, p, c)'
      BY <2>2, <2>5, <3>1, StillWatched
    <3>3. kind = Kind(m_watcher_type'[c])
      BY <2>1, <3>1
    <3>4. QED
      BY <3>2, <3>3 DEF Kept, Watched, Armed, Fires, Kind
  <2>6. QED
    BY <1>3, <2>3, <2>4, <2>5 DEF Kept
<1>4. \A p \in Paths : Live' /\ Due(p, c)' => Kept(p, c)'
  BY <1>3 DEF Resumed
<1>5. m_need_resume_env' /\ zk'.pc # "custom" => ~InTables(c)' /\ ~InEvents(c)'
  BY <1>1, <1>2 DEF Resumed
<1>6. ASSUME zk'.pc = "custom"
      PROVE  /\ \A p \in Paths : <<p, c>> \in m_custom_watcher_contexts' =>
                  Kept(p, c)' \/ <<p, m_watcher_type'[c], c>> \in zk'.todo
             /\ \A w \in zk'.todo : w[3] = c => ~InTables(c)' /\ ~InEvents(c)'
  <2>1. /\ \A p \in Paths : <<p, c>> \in m_custom_watcher_contexts =>
             Kept(p, c) \/ <<p, m_watcher_type[c], c>> \in zk.todo
        /\ \A w \in zk.todo : w[3] = c => ~InTables(c) /\ ~InEvents(c)
    BY <1>6 DEF Resumed
  <2>2. \A w : w[3] = c => (w \in zk'.todo <=> w \in zk.todo)
    BY <1>6
  <2>3. ASSUME NEW p \in Paths, <<p, c>> \in m_custom_watcher_contexts'
        PROVE  Kept(p, c)' \/ <<p, m_watcher_type'[c], c>> \in zk'.todo
    <3>1. <<p, c>> \in m_custom_watcher_contexts /\ m_watcher_type'[c] = m_watcher_type[c]
      BY <2>3 DEF NoMoreOf
    <3>2. <<p, m_watcher_type[c], c>>[3] = c
      OBVIOUS
    <3>3. <<p, m_watcher_type[c], c>> \in zk.todo => <<p, m_watcher_type[c], c>> \in zk'.todo
      BY <2>2, <3>2
    <3>4. QED
      BY <1>3, <2>1, <3>1, <3>3
  <2>4. QED
    BY <1>1, <1>2, <2>1, <2>2, <2>3
<1>7. QED
  BY <1>4, <1>5, <1>6 DEF Resumed

LEMMA SameDue ==
  ASSUME NEW c \in Contexts, NEW d \in {0, 1}, FewerWait(c, d), NoMoreOf(c),
         NEW p \in Paths, Due(p, c)'
  PROVE  Due(p, c)
BY DEF Due, FewerWait, NoMoreOf, Failed

LEMMA ThreadsTyped ==
  ASSUME WatcherInv
  PROVE  /\ user.pc = "answered" =>
              user.answer \in AnswerType /\ user.answer.path \in Paths
         /\ zk.pc = "callback" =>
              zk.ctx \in Clients /\ zk.path \in Paths /\ zk.event \in NodeEvents \union {"NOTWATCHING"}
         /\ zk.pc \in {"global", "custom"} =>
              zk.todo \in SUBSET (Paths \X WatcherTypes \X Clients)
<1>1. user \in {Idle} \union [pc : {"answered"}, answer : AnswerType] /\ zk \in ZkType
  BY DEF WatcherInv, WatcherTypesOK
<1>2. user.pc = "answered" => user.answer \in AnswerType
  BY <1>1 DEF Idle
<1>3. \A answer \in AnswerType : answer.path \in Paths
  BY DEF AnswerType
<1>4. zk.pc = "callback" =>
        zk.ctx \in Clients /\ zk.path \in Paths /\ zk.event \in NodeEvents \union {"NOTWATCHING"}
  BY <1>1 DEF ZkType, Idle
<1>5. zk.pc \in {"global", "custom"} => zk.todo \in SUBSET (Paths \X WatcherTypes \X Clients)
  BY <1>1 DEF ZkType, Idle
<1>6. QED
  BY <1>2, <1>3, <1>4, <1>5

\* Nothing is known of a context that has not been used.
LEMMA FreshSays ==
  ASSUME WatcherInv, NEW c \in Contexts, m_watcher_type[c] = "NOT_WATCHER"
  PROVE  /\ ~InTables(c) /\ ~InEvents(c) /\ ~InAnswers(c) /\ ~InRegistry(c)
         /\ ~InCallback(c) /\ c \notin freed
<1>1. c \notin freed /\ \A p \in Paths : ~At(p, c)
  BY DEF WatcherInv, ClientInv, Identity
<1>2. ~InTables(c) /\ ~InRegistry(c)
  BY <1>1 DEF InTables, InRegistry, At
<1>3. ~InEvents(c)
  BY <1>1, EventTyped DEF InEvents
<1>4. ~UserHas(c)
  BY <1>1, ThreadsTyped DEF At, UserHas
<1>5. ASSUME NEW k \in DOMAIN completions, AnswerAt(k, c) PROVE FALSE
  <2>1. completions[k].answer.path \in Paths
    BY <1>5, CompletionsAre DEF WatcherInv, WatcherTypesOK, AnswerAt, AnswerType
  <2>2. QED
    BY <1>1, <1>5, <2>1 DEF At
<1>6. ~InCallback(c)
  BY <1>1, ThreadsTyped DEF At, InCallback
<1>7. QED
  BY <1>1, <1>2, <1>3, <1>4, <1>5, <1>6 DEF InAnswers

\* A call uses it for the first time.
LEMMA FirstCall ==
  ASSUME WatcherInv, NEW c \in Contexts, m_watcher_type[c] = "NOT_WATCHER",
         NEW answer \in AnswerType, answer.ctx = c, m_watcher_type'[c] = answer.type,
         \A t \in Tables, p \in Paths : <<p, c>> \in active'[t] =>
           \/ <<p, c>> \in active[t]
           \/ p = answer.path /\ t \in TablesFor(Kind(answer.type)) /\ ~Failed(answer),
         ~Failed(answer) => \E t \in TablesFor(Kind(answer.type)) :
                              <<answer.path, c>> \in active'[t],
         UserHas(c)' => user'.answer = answer,
         \A k \in DOMAIN completions' : AnswerAt(k, c)' =>
           /\ completions'[k].answer = answer /\ ~UserHas(c)'
           /\ \A j \in DOMAIN completions' : AnswerAt(j, c)' => j = k,
         ~InEvents(c)',
         UNCHANGED <<m_custom_watcher_contexts, freed, zk, m_need_resume_env>>,
         ~m_need_resume_env, zk.pc # "custom"
  PROVE  ClientInv(c)' /\ Resumed(c)'
<1>1. /\ ~InTables(c) /\ ~InRegistry(c) /\ ~InCallback(c) /\ c \notin freed
  BY FreshSays
<1>2. ~InRegistry(c)' /\ ~InCallback(c)' /\ c \notin freed'
  BY <1>1 DEF InRegistry, InCallback
<1>3. /\ answer.type \in WatcherTypes /\ answer.path \in Paths
      /\ "NOT_WATCHER" \notin WatcherTypes
  BY DEF AnswerType, WatcherTypes
<1>4. \A t \in Tables, p \in Paths : <<p, c>> \in active'[t] =>
        p = answer.path /\ t \in TablesFor(Kind(answer.type)) /\ ~Failed(answer)
  BY <1>1 DEF InTables
<1>5. \A k \in DOMAIN completions' : ~EventAt(k, c)'
  BY DEF InEvents
<1>6. \A p \in Paths : At(p, c)' => p = answer.path
  BY <1>2, <1>4, <1>5 DEF At, InRegistry
<1>7. Identity(c)'
  BY <1>2, <1>3, <1>6 DEF Identity
<1>8. Typed(c)'
  BY <1>4, <1>5 DEF Typed
<1>9. Failed(answer) => Out(c)'
  BY <1>2, <1>4 DEF Out, InTables
<1>10. Answered(c)'
  <2>1. UserHas(c)' /\ Failed(user'.answer) => Out(c)'
    BY <1>9
  <2>2. \A k \in DOMAIN completions' :
          AnswerAt(k, c)' /\ Failed(completions'[k].answer) => Out(c)'
    BY <1>9
  <2>3. QED
    BY <1>2, <2>1, <2>2 DEF Answered, Failed
<1>11. Once(c)' /\ Gone(c)' /\ Calling(c)'
  BY <1>2, <1>5 DEF Once, Gone, Calling
<1>12. ASSUME NEW p \in Paths, Due(p, c)' PROVE Kept(p, c)'
  <2>1. p = answer.path /\ ~Failed(answer)
    BY <1>2, <1>12 DEF Due, InRegistry, Failed
  <2>2. PICK t \in TablesFor(Kind(answer.type)) : <<answer.path, c>> \in active'[t]
    BY <2>1
  <2>3. QED
    BY <2>1, <2>2 DEF Kept, Watched, Armed, Kind, TablesFor
<1>13. Resumed(c)'
  BY <1>12 DEF Resumed
<1>14. QED
  BY <1>7, <1>8, <1>10, <1>11, <1>13 DEF ClientInv

\* The answer to its call is entered.
LEMMA EnterKeeps ==
  ASSUME WatcherInv, completions' \in Seq(Completion), NEW c \in Contexts, NEW d \in {0, 1},
         NEW call \in AnswerType, call.ctx = c, Enter(call),
         \/ UserHas(c) /\ user.answer = call
         \/ \E k \in DOMAIN completions : AnswerAt(k, c) /\ completions[k].answer = call,
         ~InAnswers(c)', FewerWait(c, d), StillWait(c, d),
         UNCHANGED <<active, m_watcher_type, m_is_stop, m_need_resume_env, link, zk, lost>>,
         zk.pc # "custom"
  PROVE  ClientInv(c)' /\ Resumed(c)'
<1>1. ClientInv(c) /\ Resumed(c) /\ completions \in Seq(Completion)
  BY DEF WatcherInv, WatcherTypesOK
<1>2. /\ At(call.path, c) /\ call.path \in Paths /\ InAnswers(c) /\ c # Global
      /\ ~Failed(call) => Due(call.path, c)
      /\ Failed(call) => Out(c)
  BY <1>1, GlobalAssumption DEF At, InAnswers, Due, AnswerType, ClientInv, Answered
<1>3. ~InRegistry(c) /\ c \notin freed /\ m_watcher_type[c] # "NOT_WATCHER"
  BY <1>1, <1>2 DEF ClientInv, Answered, Identity
<1>4. /\ InTables(c)' <=> InTables(c)
      /\ InEvents(c)' => InEvents(c)
      /\ InCallback(c)' <=> InCallback(c)
  BY DEF InTables, InEvents, InCallback, FewerWait
<1>5. \A p \in Paths : <<p, c>> \in m_custom_watcher_contexts' =>
        p = call.path /\ ~Failed(call)
  <2>1. CASE Failed(call)
    BY <1>3, <2>1 DEF Enter, Failed, registry, InRegistry
  <2>2. CASE ~Failed(call)
    <3>1. m_custom_watcher_contexts' =
            m_custom_watcher_contexts \union {<<call.path, call.ctx>>}
      BY <1>2, <2>2 DEF Enter, AddCustomWatcher, Failed
    <3>2. QED
      BY <1>3, <2>2, <3>1 DEF InRegistry
  <2>3. QED
    BY <2>1, <2>2
<1>6. c \in freed' => Failed(call)
  BY <1>3 DEF Enter, Failed
<1>7. Failed(call) => ~InRegistry(c)'
  BY <1>5 DEF InRegistry
<1>8. ASSUME NEW p \in Paths, At(p, c)' PROVE At(p, c)
  BY <1>2, <1>5, <1>8 DEF At, InAnswers, FewerWait, InCallback
<1>9. Identity(c)'
  BY <1>1, <1>3, <1>8 DEF ClientInv, Identity
<1>10. Typed(c)'
  BY <1>1 DEF ClientInv, Typed, FewerWait, InAnswers
<1>11. Once(c)'
  <2>1. DOMAIN completions \subseteq Int /\ DOMAIN completions' \subseteq Int
    BY <1>1, LenProperties
  <2>2. QED
    BY <1>1, <1>4, <2>1 DEF ClientInv, Once, FewerWait
<1>12. Answered(c)'
  BY DEF Answered, InAnswers
<1>13. Gone(c)'
  BY <1>2, <1>4, <1>6, <1>7 DEF Gone, Out
<1>14. Calling(c)'
  BY <1>1 DEF ClientInv, Calling, InCallback, TablesOf
<1>15. ASSUME NEW p \in Paths, Due(p, c)' PROVE Due(p, c)
  BY <1>2, <1>5, <1>15 DEF Due, InAnswers
<1>16. ASSUME NEW p \in Paths, Kept(p, c) PROVE Kept(p, c)'
  <2>1. c \in Clients /\ StillArmed(c)
    BY DEF Clients, StillArmed
  <2>2. CASE Watched(Kind(m_watcher_type[c]), p, c)
    <3>1. PICK kind \in {"get", "children"} : kind = Kind(m_watcher_type[c])
      BY DEF Kind
    <3>2. Watched(kind, p, c)'
      BY <2>1, <2>2, <3>1, StillWatched
    <3>3. kind = Kind(m_watcher_type'[c])
      BY <3>1
    <3>4. QED
      BY <3>2, <3>3 DEF Kept, Watched, Armed, Fires, Kind
  <2>3. QED
    BY <1>16, <2>2 DEF Kept
<1>17. Resumed(c)'
  BY <1>1, <1>4, <1>15, <1>16 DEF Resumed, Live
<1>18. QED
  BY <1>9, <1>10, <1>11, <1>12, <1>13, <1>14, <1>17 DEF ClientInv

\* A step of others.
LEMMA Bystander ==
  ASSUME WatcherInv, completions' \in Seq(Completion), NEW c \in Contexts, NEW d \in {0, 1},
         FewerArmed(c), FewerWait(c, d), NoMoreOf(c),
         (StillArmed(c) /\ StillWait(c, d)) \/ c \in m_is_stop',
         lost \subseteq lost', Live' => Live, UNCHANGED m_need_resume_env,
         zk.pc = "custom" <=> zk'.pc = "custom",
         zk.pc = "custom" => \A w : w[3] = c => (w \in zk'.todo <=> w \in zk.todo)
  PROVE  ClientInv(c)' /\ Resumed(c)'
<1>1. ClientInv(c) /\ Resumed(c) /\ completions \in Seq(Completion)
  BY DEF WatcherInv, WatcherTypesOK
<1>2. ClientInv(c)'
  BY <1>1, LeftAlone
<1>3. \A p \in Paths : Due(p, c)' => Due(p, c)
  BY SameDue
<1>4. Resumed(c)'
  BY <1>1, <1>3, StillResumed
<1>5. QED
  BY <1>2, <1>4

LEMMA NoWatch ==
  ASSUME UNCHANGED active, NEW ctx \in Clients
  PROVE  FewerArmed(ctx) /\ StillArmed(ctx)
BY DEF FewerArmed, StillArmed

\* A call that sets a watch leaves the others' watches alone.
LEMMA OthersArmed ==
  ASSUME active \in [Tables -> SUBSET Watches], NEW type \in WatcherTypes,
         NEW path \in Paths, NEW ctx \in Clients, NEW rc \in Codes, NEW calls,
         SetWatch(type, path, ctx, rc, calls)
  PROVE  /\ \A c \in Clients : StillArmed(c) /\ (c # ctx => FewerArmed(c))
         /\ \A t \in Tables, p \in Paths : <<p, ctx>> \in active'[t] =>
              \/ <<p, ctx>> \in active[t]
              \/ p = path /\ t \in TablesFor(Kind(type)) /\ Success(type, rc)
<1>1. \A p \in Paths, c \in Clients : <<p, c>> \in Watches
  BY DEF Watches, Clients
<1>2. /\ \A t \in Tables, w \in Watches : w \in active[t] => w \in active'[t]
      /\ \A t \in Tables, w \in Watches : w \in active'[t] =>
           \/ w \in active[t]
           \/ w = <<path, ctx>> /\ t \in TablesFor(Kind(type)) /\ Success(type, rc)
  BY SetWatchSays
<1>3. ASSUME NEW c \in Clients PROVE StillArmed(c) /\ (c # ctx => FewerArmed(c))
  BY <1>1, <1>2 DEF StillArmed, FewerArmed
<1>4. QED
  BY <1>1, <1>2, <1>3

LEMMA SynchronousStep ==
  ASSUME WatcherInv, ResumeWaits, NEW name, NEW type \in WatcherTypes, NEW path \in Paths,
         NEW ctx \in Clients, Synchronous(name, type, path, ctx), NEW c \in Contexts
  PROVE  ClientInv(c)' /\ Resumed(c)'
<1> DEFINE answer(rc) == Answer(type, path, ctx, rc)
<1>1. PICK rc \in Codes :
        /\ Watch(name, type, path, ctx, rc)
        /\ user' = [pc |-> "answered", answer |-> answer(rc)]
        /\ UNCHANGED completions
  BY DEF Synchronous
<1>2. /\ active \in [Tables -> SUBSET Watches] /\ completions \in Seq(Completion)
      /\ m_watcher_type \in [Contexts -> WatcherTypes \union {"NOT_WATCHER"}]
      /\ c \in Clients
  BY DEF WatcherInv, WatcherTypesOK, TypeOK, Clients
<1>3. /\ SetWatch(type, path, ctx, rc, 1)
      /\ user.pc = "idle" /\ ~m_need_resume_env /\ zk.pc # "custom"
      /\ UNCHANGED <<link, m_custom_watcher_contexts, m_is_stop, freed, m_need_resume_env,
                     zk, lost>>
  BY <1>1 DEF Watch, Resuming, server, registry
<1>4. FewerWait(c, 0) /\ StillWait(c, 0)
  BY <1>1, <1>2, NoCompletion
<1>5. CASE c # ctx
  <2>1. FewerArmed(c) /\ StillArmed(c)
    BY <1>2, <1>3, <1>5, OthersArmed
  <2>2. m_watcher_type'[c] = m_watcher_type[c]
    BY <1>1, <1>2, <1>5 DEF Watch
  <2>3. ~UserHas(c)'
    BY <1>1, <1>5 DEF UserHas, Answer
  <2>4. NoMoreOf(c)
    BY <1>3, <2>2, <2>3 DEF NoMoreOf, InCallback
  <2>5. Live' => Live
    BY <1>3 DEF Live
  <2>6. QED
    BY <1>1, <1>2, <1>3, <1>4, <2>1, <2>4, <2>5, Bystander
<1>6. CASE c = ctx
  <2>1. m_watcher_type[c] = "NOT_WATCHER" /\ m_watcher_type'[c] = type
    BY <1>1, <1>2, <1>6, GlobalAssumption DEF Watch
  <2>2. /\ answer(rc) \in AnswerType /\ answer(rc).ctx = c /\ answer(rc).type = type
        /\ answer(rc).path = path /\ (Failed(answer(rc)) <=> ~Success(type, rc))
    BY <1>2, <1>6 DEF Answer, AnswerType, Failed
  <2>3. ~InEvents(c) /\ ~InAnswers(c)
    BY <2>1, FreshSays
  <2>4. ~InEvents(c)' /\ \A k \in DOMAIN completions' : ~AnswerAt(k, c)'
    BY <1>1, <2>3 DEF InEvents, InAnswers, EventAt, AnswerAt
  <2>5. \A t \in Tables, p \in Paths : <<p, c>> \in active'[t] =>
          \/ <<p, c>> \in active[t]
          \/ p = path /\ t \in TablesFor(Kind(type)) /\ Success(type, rc)
    BY <1>2, <1>3, <1>6, OthersArmed
  <2>6. Success(type, rc) => \E t \in TablesFor(Kind(type)) : <<path, c>> \in active'[t]
    BY <1>2, <1>3, <1>6, SetWatchSays
  <2>7. user'.answer = answer(rc)
    BY <1>1
  <2> HIDE DEF answer
  <2>8. QED
    BY <1>3, <2>1, <2>2, <2>4, <2>5, <2>6, <2>7, FirstCall
<1>7. QED
  BY <1>5, <1>6

LEMMA AsynchronousStep ==
  ASSUME WatcherInv, ResumeWaits, NEW name, NEW type \in WatcherTypes, NEW path \in Paths,
         NEW ctx \in Clients, Asynchronous(name, type, path, ctx), NEW c \in Contexts
  PROVE  ClientInv(c)' /\ Resumed(c)'
<1> DEFINE answer(rc) == Answer(type, path, ctx, rc)
           x(rc) == [event |-> "ANSWER", answer |-> answer(rc)]
<1>1. PICK rc \in Codes :
        /\ Watch(name, type, path, ctx, rc)
        /\ completions' = Append(completions, x(rc))
        /\ UNCHANGED user
  BY DEF Asynchronous
<1>2. /\ active \in [Tables -> SUBSET Watches] /\ completions \in Seq(Completion)
      /\ m_watcher_type \in [Contexts -> WatcherTypes \union {"NOT_WATCHER"}]
      /\ c \in Clients
  BY DEF WatcherInv, WatcherTypesOK, TypeOK, Clients
<1>3. /\ SetWatch(type, path, ctx, rc, 1)
      /\ user.pc = "idle" /\ ~m_need_resume_env /\ zk.pc # "custom"
      /\ UNCHANGED <<link, m_custom_watcher_contexts, m_is_stop, freed, m_need_resume_env,
                     zk, lost>>
  BY <1>1 DEF Watch, Resuming, server, registry
<1>4. /\ answer(rc) \in AnswerType /\ answer(rc).ctx = ctx /\ answer(rc).type = type
      /\ answer(rc).path = path /\ (Failed(answer(rc)) <=> ~Success(type, rc))
  BY DEF Answer, AnswerType, Failed
<1>5. x(rc) \in Completion /\ x(rc).event = "ANSWER" /\ x(rc).answer = answer(rc)
  BY <1>4 DEF Completion
<1> HIDE DEF x, answer
<1>6. /\ completions' \in Seq(Completion)
      /\ DOMAIN completions' = 1 .. Len(completions) + 1
      /\ completions'[Len(completions) + 1] = x(rc)
      /\ \A k \in DOMAIN completions : completions'[k] = completions[k]
      /\ StillWait(c, 0) /\ (c # ctx => FewerWait(c, 0))
  BY <1>1, <1>2, <1>4, <1>5, Appended DEF NodeEvents
<1>7. CASE c # ctx
  <2>1. FewerArmed(c) /\ StillArmed(c)
    BY <1>2, <1>3, <1>7, OthersArmed
  <2>2. m_watcher_type'[c] = m_watcher_type[c]
    BY <1>1, <1>2, <1>7 DEF Watch
  <2>3. NoMoreOf(c)
    BY <1>1, <1>3, <2>2 DEF NoMoreOf, InCallback, UserHas
  <2>4. Live' => Live
    BY <1>3 DEF Live
  <2>5. QED
    BY <1>3, <1>6, <1>7, <2>1, <2>3, <2>4, Bystander
<1>8. CASE c = ctx
  <2>1. m_watcher_type[c] = "NOT_WATCHER" /\ m_watcher_type'[c] = type
    BY <1>1, <1>2, <1>8, GlobalAssumption DEF Watch
  <2>2. ~InEvents(c) /\ ~InAnswers(c)
    BY <2>1, FreshSays
  <2>3. \A k \in DOMAIN completions' : k \in DOMAIN completions \/ completions'[k] = x(rc)
    BY <1>2, <1>6, LenProperties
  <2>4. ~InEvents(c)'
    BY <1>5, <1>6, <2>2, <2>3 DEF InEvents, EventAt, NodeEvents
  <2>5. \A k \in DOMAIN completions' : AnswerAt(k, c)' => k = Len(completions) + 1
    <3>1. \A k \in DOMAIN completions' : k \in DOMAIN completions \/ k = Len(completions) + 1
      BY <1>2, <1>6, LenProperties
    <3>2. QED
      BY <1>6, <2>2, <3>1 DEF InAnswers, AnswerAt
  <2>6. ~UserHas(c)'
    BY <1>1, <1>3 DEF UserHas
  <2>7. \A t \in Tables, p \in Paths : <<p, c>> \in active'[t] =>
          \/ <<p, c>> \in active[t]
          \/ p = path /\ t \in TablesFor(Kind(type)) /\ Success(type, rc)
    BY <1>2, <1>3, <1>8, OthersArmed
  <2>8. Success(type, rc) => \E t \in TablesFor(Kind(type)) : <<path, c>> \in active'[t]
    BY <1>2, <1>3, <1>8, SetWatchSays
  <2>9. \A k \in DOMAIN completions' : AnswerAt(k, c)' =>
           /\ completions'[k].answer = answer(rc) /\ ~UserHas(c)'
           /\ \A j \in DOMAIN completions' : AnswerAt(j, c)' => j = k
    BY <1>5, <1>6, <2>5, <2>6
  <2>10. QED
    BY <1>3, <1>4, <1>8, <2>1, <2>4, <2>6, <2>7, <2>8, <2>9, FirstCall
<1>9. QED
  BY <1>7, <1>8

LEMMA ReturnStep ==
  ASSUME WatcherInv, Return, NEW c \in Contexts
  PROVE  ClientInv(c)' /\ Resumed(c)'
<1>1. /\ completions \in Seq(Completion) /\ completions' \in Seq(Completion) /\ c \in Clients
      /\ user.pc = "answered" /\ Enter(user.answer) /\ user' = Idle /\ user.answer \in AnswerType
      /\ UNCHANGED <<link, active, completions, m_watcher_type, m_is_stop,
                     m_need_resume_env, zk, lost>>
  BY ThreadsTyped DEF Return, server, Clients, WatcherInv, WatcherTypesOK
<1>2. FewerWait(c, 0) /\ StillWait(c, 0) /\ FewerArmed(c) /\ StillArmed(c)
  BY <1>1, NoCompletion, NoWatch
<1>3. ~UserHas(c)'
  BY <1>1 DEF UserHas, Idle
<1>4. CASE user.answer.ctx = c
  <2>1. UserHas(c)
    BY <1>1, <1>4 DEF UserHas
  <2>2. \A k \in DOMAIN completions : ~AnswerAt(k, c)
    BY <2>1 DEF WatcherInv, ClientInv, Answered
  <2>3. ~InAnswers(c)'
    BY <1>1, <1>3, <2>2 DEF InAnswers, AnswerAt
  <2>4. zk.pc # "custom"
    BY <1>4, GlobalAssumption DEF Return, LockFree
  <2>5. QED
    BY <1>1, <1>2, <1>4, <2>1, <2>3, <2>4, EnterKeeps
<1>5. CASE user.answer.ctx # c
  <2>1. /\ \A p \in Paths : <<p, c>> \in m_custom_watcher_contexts' =>
             <<p, c>> \in m_custom_watcher_contexts
        /\ c \in freed' <=> c \in freed
    BY <1>1, <1>5 DEF Enter, AddGlobal, AddCustomWatcher, registry
  <2>2. NoMoreOf(c)
    BY <1>1, <1>3, <2>1 DEF NoMoreOf, InCallback
  <2>3. Live' => Live
    BY <1>1 DEF Live
  <2>4. QED
    BY <1>1, <1>2, <2>2, <2>3, Bystander
<1>6. QED
  BY <1>4, <1>5

LEMMA ProcAsyncWatcherStep ==
  ASSUME WatcherInv, ProcAsyncWatcher, NEW c \in Contexts
  PROVE  ClientInv(c)' /\ Resumed(c)'
<1> DEFINE call == Head(completions).answer
<1>1. /\ completions \in Seq(Completion) /\ c \in Clients /\ completions # <<>>
      /\ Head(completions).event = "ANSWER" /\ completions' = Tail(completions)
      /\ Enter(call) /\ zk.pc = "idle"
      /\ UNCHANGED <<link, active, m_watcher_type, m_is_stop, m_need_resume_env,
                     user, zk, lost>>
  BY DEF ProcAsyncWatcher, Handles, server, Clients, WatcherInv, WatcherTypesOK
<1>2. /\ completions' \in Seq(Completion) /\ FewerWait(c, 1) /\ StillWait(c, 1)
      /\ DOMAIN completions' = 1 .. Len(completions) - 1
      /\ \A k \in DOMAIN completions' : completions'[k] = completions[k + 1]
  BY <1>1, AnswerTaken
<1>3. /\ 1 \in DOMAIN completions /\ Head(completions) = completions[1] /\ call \in AnswerType
      /\ Len(completions) \in Nat /\ DOMAIN completions = 1 .. Len(completions)
  BY <1>1, CompletionsAre
<1>4. FewerArmed(c) /\ StillArmed(c)
  BY <1>1, NoWatch
<1> HIDE DEF call
<1>5. CASE call.ctx = c
  <2>1. AnswerAt(1, c) /\ completions[1].answer = call
    BY <1>1, <1>3, <1>5 DEF AnswerAt, call
  <2>2. ~UserHas(c) /\ \A k \in DOMAIN completions : AnswerAt(k, c) => k = 1
    BY <1>3, <2>1 DEF WatcherInv, ClientInv, Answered
  <2>3. ASSUME NEW k \in DOMAIN completions', AnswerAt(k, c)' PROVE FALSE
    <3>1. k + 1 \in DOMAIN completions /\ AnswerAt(k + 1, c) /\ k \in 1 .. Len(completions) - 1
      BY <1>2, <2>3 DEF FewerWait
    <3>2. QED
      BY <1>3, <2>2, <3>1
  <2>4. ~InAnswers(c)'
    BY <1>1, <2>2, <2>3 DEF InAnswers, UserHas
  <2>5. QED
    BY <1>1, <1>2, <1>3, <1>5, <2>1, <2>4, EnterKeeps
<1>6. CASE call.ctx # c
  <2>1. /\ \A p \in Paths : <<p, c>> \in m_custom_watcher_contexts' =>
             <<p, c>> \in m_custom_watcher_contexts
        /\ c \in freed' <=> c \in freed
    BY <1>1, <1>6 DEF Enter, AddGlobal, AddCustomWatcher, registry
  <2>2. NoMoreOf(c)
    BY <1>1, <2>1 DEF NoMoreOf, InCallback, UserHas
  <2>3. Live' => Live
    BY <1>1 DEF Live
  <2>4. QED
    BY <1>1, <1>2, <1>4, <2>2, <2>3, Bystander
<1>7. QED
  BY <1>5, <1>6

LEMMA InnerWatcherStoppedStep ==
  ASSUME WatcherInv, InnerWatcherStopped, NEW c \in Contexts
  PROVE  ClientInv(c)' /\ Resumed(c)'
<1>1. PICK ctx \in m_is_stop : Deliver(ctx)
  BY DEF InnerWatcherStopped
<1>2. /\ completions \in Seq(Completion) /\ c \in Clients /\ ctx \in Clients
      /\ Handles(NodeEvents \union SessionEvents)
      /\ UNCHANGED <<link, active, m_custom_watcher_contexts, m_watcher_type, m_is_stop, freed,
                     m_need_resume_env, user, zk, lost>>
  BY <1>1 DEF InnerWatcherStopped, server, registry, contexts, Clients, WatcherInv,
              WatcherTypesOK, TypeOK
<1>3. /\ completions' \in Seq(Completion)
      /\ \E d \in {0, 1} : FewerWait(c, d) /\ (c # ctx => StillWait(c, d))
  BY <1>1, <1>2, DeliverSays
<1>4. PICK d \in {0, 1} : FewerWait(c, d) /\ (c # ctx => StillWait(c, d))
  BY <1>3
<1>5. FewerArmed(c) /\ StillArmed(c)
  BY <1>2, NoWatch
<1>6. NoMoreOf(c)
  BY <1>2 DEF NoMoreOf, UserHas, InCallback
<1>7. (StillArmed(c) /\ StillWait(c, d)) \/ c \in m_is_stop'
  BY <1>2, <1>4, <1>5
<1>8. Live' => Live
  BY <1>2 DEF Live
<1>9. QED
  BY <1>2, <1>3, <1>4, <1>5, <1>6, <1>7, <1>8, Bystander

LEMMA ReconnectStep ==
  ASSUME WatcherInv, Reconnect, NEW c \in Contexts
  PROVE  ClientInv(c)' /\ Resumed(c)'
<1>1. /\ completions \in Seq(Completion) /\ c # Global
      /\ zk.pc = "idle" /\ zk' = zk /\ m_need_resume_env' = TRUE
      /\ active' = [t \in Tables |-> {}]
      /\ completions' = <<[event |-> "CONNECTED", ctxs |-> {Global}]>>
      /\ UNCHANGED <<m_custom_watcher_contexts, m_watcher_type, m_is_stop, freed, user>>
  BY GlobalAssumption DEF Reconnect, Handles, registry, contexts, WatcherInv, WatcherTypesOK
<1>2. completions' \in Seq(Completion)
  BY <1>1 DEF Completion, SessionEvents, Clients
<1>3. \A k \in DOMAIN completions' : completions'[k].event = "CONNECTED"
  BY <1>1
<1>4. FewerArmed(c) /\ ~InTables(c)'
  BY <1>1 DEF FewerArmed, InTables
<1>5. FewerWait(c, 0) /\ ~InEvents(c)'
  BY <1>3 DEF FewerWait, InEvents, EventAt, AnswerAt, NodeEvents
<1>6. NoMoreOf(c)
  BY <1>1 DEF NoMoreOf, UserHas, InCallback
<1>7. ClientInv(c)'
  BY <1>1, <1>2, <1>4, <1>5, <1>6, LeftAlone DEF WatcherInv
<1>8. ~Live' /\ zk'.pc # "custom"
  BY <1>1 DEF Live
<1>9. Resumed(c)'
  BY <1>4, <1>5, <1>8 DEF Resumed
<1>10. QED
  BY <1>7, <1>9

LEMMA ConnectedEventStep ==
  ASSUME WatcherInv, ConnectedEvent, NEW c \in Contexts
  PROVE  ClientInv(c)' /\ Resumed(c)'
<1>1. /\ completions \in Seq(Completion) /\ c \in Clients /\ Global \in Clients
      /\ Handles(NodeEvents \union SessionEvents) /\ Deliver(Global)
      /\ Head(completions).event \notin NodeEvents /\ zk.pc = "idle"
      /\ UNCHANGED <<link, active, m_custom_watcher_contexts, m_watcher_type, m_is_stop, freed,
                     m_need_resume_env, user, lost>>
  BY DEF ConnectedEvent, Handles, NodeEvents, SessionEvents, server, registry, contexts, Clients,
         WatcherInv, WatcherTypesOK
<1>2. zk' = zk \/ zk' = [pc |-> "global", todo |-> GlobalWatches]
  BY DEF ConnectedEvent
<1>3. zk'.pc \notin {"custom", "callback"}
  BY <1>1, <1>2
<1>4. /\ completions' \in Seq(Completion)
      /\ \E d \in {0, 1} : FewerWait(c, d) /\ StillWait(c, d)
  BY <1>1, DeliverSays
<1>5. PICK d \in {0, 1} : FewerWait(c, d) /\ StillWait(c, d)
  BY <1>4
<1>6. FewerArmed(c) /\ StillArmed(c)
  BY <1>1, NoWatch
<1>7. NoMoreOf(c)
  BY <1>1, <1>3 DEF NoMoreOf, UserHas, InCallback
<1>8. Live' => Live
  BY <1>1 DEF Live
<1>9. QED
  BY <1>1, <1>3, <1>4, <1>5, <1>6, <1>7, <1>8, Bystander

LEMMA ResumeWatchStep ==
  ASSUME WatcherInv, ResumeWatch, NEW c \in Contexts
  PROVE  ClientInv(c)' /\ Resumed(c)'
<1>1. PICK w \in zk.todo, rc \in Codes :
        /\ SetWatch(w[2], w[1], w[3], rc, 0)
        /\ zk' = [zk EXCEPT !.todo = @ \ {w}]
        /\ lost' = IF Success(w[2], rc) THEN lost ELSE lost \union {w}
  BY DEF ResumeWatch
<1>2. /\ active \in [Tables -> SUBSET Watches] /\ completions \in Seq(Completion)
      /\ c \in Clients /\ c # Global
      /\ zk.pc \in {"global", "custom"} /\ m_need_resume_env
      /\ UNCHANGED <<link, completions, m_custom_watcher_contexts, m_watcher_type, m_is_stop,
                     freed, m_need_resume_env, user>>
  BY GlobalAssumption DEF ResumeWatch, Resuming, server, registry, contexts, Clients,
         WatcherInv, WatcherTypesOK, TypeOK, ResumeQuiet
<1>3. /\ zk.todo \in SUBSET (Paths \X WatcherTypes \X Clients)
      /\ w[1] \in Paths /\ w[2] \in WatcherTypes /\ w[3] \in Clients /\ w = <<w[1], w[2], w[3]>>
  BY <1>2, ThreadsTyped
<1>4. zk'.pc = zk.pc /\ zk'.todo = zk.todo \ {w}
  <2>1. zk \in [pc : {"global", "custom"}, todo : SUBSET (Paths \X WatcherTypes \X Clients)]
    BY <1>2 DEF WatcherInv, WatcherTypesOK, ZkType, Idle
  <2>2. QED
    BY <1>1, <2>1
<1>5. FewerWait(c, 0) /\ StillWait(c, 0)
  BY <1>2, NoCompletion
<1>6. NoMoreOf(c) /\ ~InCallback(c) /\ ~InCallback(c)'
  BY <1>2, <1>4 DEF NoMoreOf, UserHas, InCallback
<1>7. CASE w[3] # c
  <2>1. FewerArmed(c) /\ StillArmed(c)
    BY <1>1, <1>2, <1>3, <1>7, OthersArmed
  <2>2. Live' => Live
    BY <1>2 DEF Live
  <2>3. \A v : v[3] = c => (v \in zk'.todo <=> v \in zk.todo)
    BY <1>4, <1>7
  <2>4. lost \subseteq lost'
    BY <1>1
  <2>5. QED
    BY <1>2, <1>4, <1>5, <1>6, <2>1, <2>2, <2>3, <2>4, Bystander
<1>8. CASE w[3] = c
  <2>1. zk.pc = "custom"
    BY <1>2, <1>8 DEF WatcherInv, ResumeQuiet
  <2>2. /\ w[2] = m_watcher_type[c] /\ <<w[1], c>> \in m_custom_watcher_contexts
        /\ ~InTables(c) /\ ~InEvents(c)
    BY <1>8, <2>1 DEF WatcherInv, ResumeQuiet, Resumed
  <2>3. InRegistry(c) /\ At(w[1], c)
    BY <1>3, <2>2 DEF InRegistry, At
  <2>4. /\ Identity(c) /\ ~InAnswers(c) /\ c \notin freed
    BY <2>3 DEF WatcherInv, ClientInv, Answered, Gone
  <2>5. /\ \A t \in Tables, p \in Paths : <<p, c>> \in active'[t] =>
             p = w[1] /\ t \in TablesFor(Kind(w[2])) /\ Success(w[2], rc)
        /\ StillArmed(c)
    <3>1. SetWatch(w[2], w[1], c, rc, 0)
      BY <1>1, <1>8
    <3>2. /\ \A t \in Tables, p \in Paths : <<p, c>> \in active'[t] =>
               \/ <<p, c>> \in active[t]
               \/ p = w[1] /\ t \in TablesFor(Kind(w[2])) /\ Success(w[2], rc)
          /\ StillArmed(c)
      BY <1>2, <1>3, <3>1, OthersArmed
    <3>3. QED
      BY <2>2, <3>2 DEF InTables
  <2>6. ASSUME NEW p \in Paths, At(p, c)' PROVE At(p, c)
    BY <1>2, <1>6, <2>3, <2>5, <2>6 DEF At, UserHas, EventAt, AnswerAt
  <2>7. Identity(c)'
    BY <1>2, <2>4, <2>6 DEF Identity
  <2>8. ~InEvents(c)' /\ ~InAnswers(c)'
    BY <1>2, <2>2, <2>4 DEF InEvents, InAnswers, EventAt, AnswerAt, UserHas
  <2>9. Typed(c)' /\ Once(c)' /\ Answered(c)'
    BY <1>2, <2>2, <2>5, <2>8 DEF Typed, Once, Answered, InEvents, InAnswers
  <2>10. Gone(c)' /\ Calling(c)'
    BY <1>2, <1>6, <2>4 DEF Gone, Calling
  <2>11. ~Live' /\ m_need_resume_env'
    BY <1>2 DEF Live
  <2>12. ASSUME NEW p \in Paths, <<p, c>> \in m_custom_watcher_contexts'
         PROVE  Kept(p, c)'
    <3>1. At(p, c) /\ p = w[1]
      BY <1>2, <1>3, <2>3, <2>4, <2>12 DEF At, Identity
    <3>2. CASE Success(w[2], rc)
      <4>1. PICK t \in TablesFor(Kind(w[2])) : <<p, c>> \in active'[t]
        BY <1>1, <1>2, <1>3, <1>8, <3>1, <3>2, SetWatchSays
      <4>2. QED
        BY <1>2, <2>2, <4>1 DEF Kept, Watched, Armed, Kind, TablesFor
    <3>3. CASE ~Success(w[2], rc)
      <4>1. <<p, m_watcher_type[c], c>> = w
        BY <1>3, <1>8, <2>2, <3>1
      <4>2. <<p, m_watcher_type[c], c>> \in lost'
        BY <1>1, <3>3, <4>1
      <4>3. QED
        BY <1>2, <4>2 DEF Kept
    <3>4. QED
      BY <3>2, <3>3
  <2>13. ASSUME NEW v \in zk'.todo, v[3] = c PROVE FALSE
    <3>1. v \in zk.todo /\ v # w
      BY <1>4
    <3>2. v[1] \in Paths /\ v = <<v[1], v[2], v[3]>>
      BY <1>3, <3>1
    <3>3. v[2] = m_watcher_type[c] /\ <<v[1], c>> \in m_custom_watcher_contexts
      BY <2>1, <2>13, <3>1 DEF WatcherInv, ResumeQuiet
    <3>4. v[1] = w[1]
      BY <1>3, <2>3, <2>4, <3>2, <3>3 DEF At, Identity
    <3>5. QED
      BY <1>3, <1>8, <2>2, <2>13, <3>1, <3>2, <3>3, <3>4
  <2>14. Resumed(c)'
    BY <1>4, <2>1, <2>11, <2>12, <2>13 DEF Resumed
  <2>15. QED
    BY <2>7, <2>9, <2>10, <2>14 DEF ClientInv
<1>9. QED
  BY <1>7, <1>8

LEMMA ResumeCustomStep ==
  ASSUME WatcherInv, ResumeCustom, NEW c \in Contexts
  PROVE  ClientInv(c)' /\ Resumed(c)'
<1>1. /\ completions \in Seq(Completion) /\ c \in Clients
      /\ zk.pc = "global" /\ zk' = [pc |-> "custom", todo |-> CustomWatches] /\ m_need_resume_env
      /\ UNCHANGED <<link, active, completions, m_custom_watcher_contexts, m_watcher_type,
                     m_is_stop, freed, m_need_resume_env, user, lost>>
  BY DEF ResumeCustom, server, registry, contexts, Clients, Resuming,
         WatcherInv, WatcherTypesOK, ResumeQuiet
<1>2. /\ FewerWait(c, 0) /\ FewerArmed(c) /\ NoMoreOf(c)
  BY <1>1, NoCompletion, NoWatch DEF NoMoreOf, UserHas, InCallback
<1>3. ClientInv(c)'
  BY <1>1, <1>2, LeftAlone DEF WatcherInv
<1>4. ~InTables(c) /\ ~InEvents(c)
  BY <1>1 DEF WatcherInv, Resumed
<1>5. ~InTables(c)' /\ ~InEvents(c)'
  BY <1>1, <1>4 DEF InTables, InEvents, EventAt
<1>6. ASSUME NEW p \in Paths, <<p, c>> \in m_custom_watcher_contexts
      PROVE  <<p, m_watcher_type[c], c>> \in CustomWatches
  BY <1>6 DEF CustomWatches
<1>7. ~Live' /\ m_need_resume_env'
  BY <1>1 DEF Live
<1>8. Resumed(c)'
  BY <1>1, <1>5, <1>6, <1>7 DEF Resumed
<1>9. QED
  BY <1>3, <1>8

LEMMA ResumeEndStep ==
  ASSUME WatcherInv, ResumeEnd, NEW c \in Contexts
  PROVE  ClientInv(c)' /\ Resumed(c)'
<1>1. /\ completions \in Seq(Completion) /\ c \in Clients
      /\ zk.pc = "custom" /\ zk.todo = {} /\ zk' = Idle /\ m_need_resume_env' = FALSE
      /\ m_need_resume_env /\ user.pc = "idle"
      /\ UNCHANGED <<link, active, completions, m_custom_watcher_contexts, m_watcher_type,
                     m_is_stop, freed, user, lost>>
  BY DEF ResumeEnd, server, registry, contexts, Clients, Resuming,
         WatcherInv, WatcherTypesOK, ResumeQuiet
<1>2. /\ FewerWait(c, 0) /\ StillWait(c, 0) /\ FewerArmed(c) /\ StillArmed(c)
  BY <1>1, NoCompletion, NoWatch
<1>3. NoMoreOf(c)
  BY <1>1 DEF NoMoreOf, UserHas, InCallback, Idle
<1>4. ClientInv(c)'
  BY <1>1, <1>2, <1>3, LeftAlone DEF WatcherInv
<1>5. \A k \in DOMAIN completions : completions[k].event # "ANSWER"
  BY <1>1 DEF WatcherInv, ResumeQuiet
<1>6. ASSUME NEW p \in Paths, Due(p, c)' PROVE Kept(p, c)'
  <2>1. <<p, c>> \in m_custom_watcher_contexts
    BY <1>1, <1>5, <1>6 DEF Due, UserHas, AnswerAt
  <2>2. Kept(p, c)
    BY <1>1, <2>1 DEF WatcherInv, Resumed
  <2>3. QED
    BY <1>1, <2>2 DEF Kept, Watched, Armed, Fires, EventAt
<1>7. zk'.pc # "custom"
  BY <1>1 DEF Idle
<1>8. Resumed(c)'
  BY <1>1, <1>6, <1>7 DEF Resumed
<1>9. QED
  BY <1>4, <1>8

LEMMA ExpireStep ==
  ASSUME WatcherInv, Expire, NEW c \in Contexts
  PROVE  ClientInv(c)' /\ Resumed(c)'
<1>1. PICK ctxs \in SUBSET Clients :
        completions' = Append(completions, [event |-> "EXPIRED_SESSION", ctxs |-> ctxs])
  BY DEF Expire, Clients
<1>2. /\ completions \in Seq(Completion) /\ c \in Clients /\ link' = "expired"
      /\ UNCHANGED <<active, m_custom_watcher_contexts, m_watcher_type, m_is_stop, freed,
                     m_need_resume_env, user, zk, lost>>
  BY DEF Expire, registry, contexts, Clients, WatcherInv, WatcherTypesOK
<1>3. [event |-> "EXPIRED_SESSION", ctxs |-> ctxs] \in Completion
  BY DEF Completion, SessionEvents
<1>4. completions' \in Seq(Completion) /\ FewerWait(c, 0) /\ StillWait(c, 0)
  BY <1>1, <1>2, <1>3, Appended DEF NodeEvents
<1>5. FewerArmed(c) /\ StillArmed(c)
  BY <1>2, NoWatch
<1>6. NoMoreOf(c)
  BY <1>2 DEF NoMoreOf, UserHas, InCallback
<1>7. Live' => Live
  BY <1>2 DEF Live
<1>8. QED
  BY <1>2, <1>4, <1>5, <1>6, <1>7, Bystander

\* InnerWatcher arms the watch of ctx again, or stops ctx.
LEMMA CustomWatcherStep ==
  ASSUME WatcherInv, CustomWatcher, NEW c \in Contexts
  PROVE  ClientInv(c)' /\ Resumed(c)'
<1> DEFINE path == Head(completions).path
           event == Head(completions).event
<1>1. PICK ctx \in Contexts \ m_is_stop :
        /\ Deliver(ctx)
        /\ IF event = "DELETED" /\ m_watcher_type[ctx] # "EXISTS"
           THEN /\ m_is_stop' = m_is_stop \union {ctx}
                /\ Called(ctx, path, event, {})
                /\ UNCHANGED <<active, bounds>>
           ELSE \E rc \in Codes :
                  /\ SetWatch(m_watcher_type[ctx], path, ctx, rc, 0)
                  /\ IF Success(m_watcher_type[ctx], rc)
                     THEN Called(ctx, path, event, {}) /\ UNCHANGED m_is_stop
                     ELSE /\ Called(ctx, path, Failure(rc), {})
                          /\ m_is_stop' = m_is_stop \union {ctx}
  BY DEF CustomWatcher
<1>2. /\ active \in [Tables -> SUBSET Watches] /\ completions \in Seq(Completion)
      /\ c \in Clients /\ ctx \in Clients /\ zk.pc = "idle"
      /\ Handles(NodeEvents \union SessionEvents) /\ event \in NodeEvents
      /\ UNCHANGED <<link, m_custom_watcher_contexts, m_watcher_type, freed,
                     m_need_resume_env, user, lost>>
  BY DEF CustomWatcher, Handles, server, registry, Clients, WatcherInv, WatcherTypesOK, TypeOK
<1>3. /\ Len(completions) \in Nat /\ DOMAIN completions = 1 .. Len(completions)
      /\ 1 \in DOMAIN completions /\ Head(completions) = completions[1]
  BY <1>2, CompletionsAre DEF Handles
<1>4. EventAt(1, ctx)
  BY <1>1, <1>2, <1>3 DEF EventAt, Deliver
<1>5. m_watcher_type[ctx] \in WatcherTypes /\ path \in Paths /\ At(path, ctx)
  BY <1>3, <1>4, EventTyped
<1>6. /\ completions' \in Seq(Completion)
      /\ \E d \in {0, 1} :
           /\ FewerWait(c, d) /\ (c # ctx => StillWait(c, d))
           /\ \A k \in DOMAIN completions' : EventAt(k, ctx)' => k + d # 1
  BY <1>1, <1>2, DeliverSays
<1>7. PICK d \in {0, 1} :
        /\ FewerWait(c, d) /\ (c # ctx => StillWait(c, d))
        /\ \A k \in DOMAIN completions' : EventAt(k, ctx)' => k + d # 1
  BY <1>6
<1>8. PICK told \in NodeEvents \union {"NOTWATCHING"} :
        zk' = [pc |-> "callback", ctx |-> ctx, path |-> path, event |-> told, drops |-> {}]
  BY <1>1, <1>2 DEF Called, Failure, NodeEvents
<1>9. m_is_stop \subseteq m_is_stop'
  BY <1>1
<1> HIDE DEF path, event
<1>10. CASE c # ctx
  <2>1. FewerArmed(c) /\ StillArmed(c)
    <3>1. CASE UNCHANGED active
      BY <1>2, <3>1, NoWatch
    <3>2. CASE \E rc \in Codes : SetWatch(m_watcher_type[ctx], path, ctx, rc, 0)
      BY <1>2, <1>5, <1>10, <3>2, OthersArmed
    <3>3. QED
      BY <1>1, <3>1, <3>2
  <2>2. NoMoreOf(c)
    BY <1>2, <1>8, <1>9, <1>10 DEF NoMoreOf, UserHas, InCallback
  <2>3. Live' => Live
    BY <1>2 DEF Live
  <2>4. QED
    BY <1>2, <1>6, <1>7, <1>8, <1>10, <2>1, <2>2, <2>3, Bystander
<1>11. CASE c = ctx
  <2>1. ClientInv(c) /\ Resumed(c)
    BY DEF WatcherInv
  <2>2. /\ ~InTables(c) /\ \A j \in DOMAIN completions : EventAt(j, c) => j = 1
    BY <1>3, <1>4, <1>11, <2>1 DEF ClientInv, Once
  <2>3. /\ InEvents(c) /\ c \notin freed /\ ~Out(c)
    BY <1>1, <1>3, <1>4, <1>11, <2>1 DEF InEvents, ClientInv, Gone, Out
  <2>4. ~InEvents(c)'
    <3>1. ASSUME NEW k \in DOMAIN completions', EventAt(k, c)' PROVE FALSE
      <4>1. k + d \in DOMAIN completions /\ EventAt(k + d, c) /\ k + d # 1
        BY <1>7, <1>11, <3>1 DEF FewerWait
      <4>2. QED
        BY <2>2, <4>1
    <3>2. QED
      BY <3>1 DEF InEvents
  <2>5. completions[1].event \in EventsFor(Kind(m_watcher_type[c])) /\ event = completions[1].event
    BY <1>3, <1>4, <1>11, <2>1 DEF ClientInv, Typed, event
  <2>6. TablesFor(Kind(m_watcher_type[c])) \subseteq TablesOf(event)
    BY <2>5 DEF EventsFor, TablesFor, TablesOf, Tables
  \* Either it is armed again, or it is armed nowhere and stopped.
  <2>7. /\ \A t \in Tables, p \in Paths : <<p, c>> \in active'[t] =>
             p = path /\ t \in TablesFor(Kind(m_watcher_type[c])) /\ told = event
        /\ \/ c \in m_is_stop'
           \/ \E t \in TablesFor(Kind(m_watcher_type[c])) : <<path, c>> \in active'[t]
    <3>1. CASE event = "DELETED" /\ m_watcher_type[ctx] # "EXISTS"
      <4>1. UNCHANGED active /\ m_is_stop' = m_is_stop \union {ctx}
        BY <1>1, <3>1
      <4>2. QED
        BY <1>11, <2>2, <4>1 DEF InTables
    <3>2. CASE ~(event = "DELETED" /\ m_watcher_type[ctx] # "EXISTS")
      <4>1. PICK rc \in Codes :
              /\ SetWatch(m_watcher_type[ctx], path, ctx, rc, 0)
              /\ IF Success(m_watcher_type[ctx], rc)
                 THEN Called(ctx, path, event, {}) /\ UNCHANGED m_is_stop
                 ELSE /\ Called(ctx, path, Failure(rc), {})
                      /\ m_is_stop' = m_is_stop \union {ctx}
        BY <1>1, <3>2
      <4>2. \A t \in Tables, p \in Paths : <<p, ctx>> \in active'[t] =>
              \/ <<p, ctx>> \in active[t]
              \/ /\ p = path /\ t \in TablesFor(Kind(m_watcher_type[ctx]))
                 /\ Success(m_watcher_type[ctx], rc)
        BY <1>2, <1>5, <4>1, OthersArmed
      <4>3. Success(m_watcher_type[ctx], rc) =>
              \E t \in TablesFor(Kind(m_watcher_type[ctx])) : <<path, ctx>> \in active'[t]
        BY <1>2, <1>5, <4>1, SetWatchSays
      <4>4. Success(m_watcher_type[ctx], rc) => told = event
        BY <1>8, <4>1 DEF Called
      <4>5. ~Success(m_watcher_type[ctx], rc) => c \in m_is_stop'
        BY <1>11, <4>1
      <4>6. QED
        BY <1>11, <2>2, <4>2, <4>3, <4>4, <4>5 DEF InTables
    <3>3. QED
      BY <3>1, <3>2
  <2>8. ASSUME NEW p \in Paths, At(p, c)' PROVE At(p, c)
    <3>1. InCallback(c)' /\ zk'.path = path
      BY <1>8, <1>11 DEF InCallback
    <3>2. CASE p = path
      BY <1>5, <1>11, <3>2
    <3>3. CASE p # path
      BY <1>2, <1>7, <2>4, <2>7, <2>8, <3>1, <3>3 DEF At, UserHas, FewerWait, InEvents
    <3>4. QED
      BY <3>2, <3>3
  <2>9. Identity(c)'
    BY <1>2, <2>1, <2>8 DEF ClientInv, Identity
  <2>10. Typed(c)'
    BY <1>2, <1>7, <2>1, <2>4, <2>7 DEF ClientInv, Typed, FewerWait, UserHas, InEvents
  <2>11. Once(c)' /\ Gone(c)'
    BY <1>2, <2>3, <2>4 DEF Once, Gone, InEvents
  <2>12. Answered(c)'
    <3>1. DOMAIN completions \subseteq Int /\ DOMAIN completions' \subseteq Int
      BY <1>2, <1>6, LenProperties
    <3>2. (UserHas(c)' => UserHas(c)) /\ (InAnswers(c)' => InAnswers(c))
          /\ (InRegistry(c)' => InRegistry(c))
      BY <1>2, <1>7 DEF UserHas, InAnswers, InRegistry, FewerWait
    <3>3. \A k \in DOMAIN completions' : AnswerAt(k, c)' =>
            /\ ~UserHas(c)'
            /\ \A j \in DOMAIN completions' : AnswerAt(j, c)' => j = k
            /\ ~Failed(completions'[k].answer)
      BY <1>7, <2>1, <2>3, <3>1, <3>2 DEF ClientInv, Answered, FewerWait
    <3>4. ~(UserHas(c)' /\ Failed(user'.answer))
      BY <1>2, <2>1, <2>3, <3>2 DEF ClientInv, Answered
    <3>5. QED
      BY <1>2, <2>1, <2>3, <3>2, <3>3, <3>4 DEF ClientInv, Answered, Failed
  <2>13. Calling(c)'
    BY <1>8, <2>6, <2>7 DEF Calling, TablesOf
  <2>14. ASSUME NEW p \in Paths, Due(p, c)' PROVE Kept(p, c)'
    <3>1. Due(p, c)
      BY <1>2, <1>7, <2>14 DEF Due, UserHas, Failed, FewerWait
    <3>2. At(p, c)
      BY <3>1 DEF At, Due
    <3>3. p = path
      BY <1>5, <1>11, <2>1, <3>2 DEF ClientInv, Identity
    <3>4. QED
      BY <1>2, <2>7, <3>3 DEF Kept, Watched, Armed
  <2>15. ~m_need_resume_env
    BY <1>2, <2>1, <2>3 DEF Resumed
  <2>16. zk'.pc # "custom" /\ ~m_need_resume_env'
    BY <1>2, <1>8, <2>15
  <2>17. Resumed(c)'
    BY <2>14, <2>16 DEF Resumed
  <2>18. QED
    BY <2>9, <2>10, <2>11, <2>12, <2>13, <2>17 DEF ClientInv
<1>12. QED
  BY <1>10, <1>11

\* What InnerWatcher does for the global watches leaves the custom ones alone.
LEMMA GlobalWatcherStep ==
  ASSUME WatcherInv, GlobalWatcherUnknown \/ GlobalWatcher, NEW c \in Contexts
  PROVE  ClientInv(c)' /\ Resumed(c)'
<1> DEFINE path == Head(completions).path
           event == Head(completions).event
           again == Again(path, event)
<1>1. /\ active \in [Tables -> SUBSET Watches] /\ completions \in Seq(Completion)
      /\ c \in Clients /\ Global \in Clients /\ c # Global /\ zk.pc = "idle"
      /\ Handles(NodeEvents \union SessionEvents) /\ Deliver(Global) /\ event \in NodeEvents
      /\ UNCHANGED <<link, m_custom_watcher_contexts, m_watcher_type, freed,
                     m_need_resume_env, user, lost>>
  BY GlobalAssumption DEF GlobalWatcherUnknown, GlobalWatcher, Handles, server, registry,
         contexts, Clients, WatcherInv, WatcherTypesOK, TypeOK
<1>2. path \in Paths
  BY <1>1, CompletionsAre DEF Handles
<1>3. \/ UNCHANGED <<active, m_is_stop, zk>>
      \/ /\ \/ UNCHANGED active
            \/ again # "none" /\ \E rc \in Codes : SetWatch(again, path, Global, rc, 0)
         /\ m_is_stop' \in {m_is_stop, m_is_stop \union {Global}}
         /\ \E told : Called(Global, path, told, Drops(path, event))
  BY DEF GlobalWatcherUnknown, GlobalWatcher, contexts
<1>4. again # "none" => again \in WatcherTypes
  BY DEF Again, WatcherTypes
<1> HIDE DEF path, event, again
<1>5. FewerArmed(c) /\ StillArmed(c)
  <2>1. CASE UNCHANGED active
    BY <1>1, <2>1, NoWatch
  <2>2. CASE again # "none" /\ \E rc \in Codes : SetWatch(again, path, Global, rc, 0)
    BY <1>1, <1>2, <1>4, <2>2, OthersArmed
  <2>3. QED
    BY <1>3, <2>1, <2>2
<1>6. zk' = zk \/ (zk'.pc = "callback" /\ zk'.ctx = Global)
  BY <1>3 DEF Called
<1>7. NoMoreOf(c)
  BY <1>1, <1>3, <1>6 DEF NoMoreOf, UserHas, InCallback
<1>8. /\ completions' \in Seq(Completion)
      /\ \E d \in {0, 1} : FewerWait(c, d) /\ StillWait(c, d)
  BY <1>1, DeliverSays
<1>9. PICK d \in {0, 1} : FewerWait(c, d) /\ StillWait(c, d)
  BY <1>8
<1>10. Live' => Live
  BY <1>1 DEF Live
<1>11. zk.pc # "custom" /\ zk'.pc # "custom"
  BY <1>1, <1>6
<1>12. QED
  BY <1>1, <1>5, <1>7, <1>8, <1>9, <1>10, <1>11, Bystander

\* The user has been called; the watcher may be destroyed.
LEMMA CallbackStep ==
  ASSUME WatcherInv, Callback, NEW c \in Contexts
  PROVE  ClientInv(c)' /\ Resumed(c)'
<1>1. /\ active \in [Tables -> SUBSET Watches] /\ completions \in Seq(Completion)
      /\ c \in Clients /\ c # Global /\ ClientInv(c) /\ Resumed(c)
      /\ zk.pc = "callback" /\ zk' = Idle /\ zk.path \in Paths
      /\ UNCHANGED <<link, completions, m_watcher_type, m_need_resume_env, user, lost>>
  BY GlobalAssumption, ThreadsTyped DEF Callback, server, Clients,
         WatcherInv, WatcherTypesOK, TypeOK
<1>2. FewerWait(c, 0) /\ StillWait(c, 0)
  BY <1>1, NoCompletion
<1>3. (Live' => Live) /\ zk'.pc # "custom" /\ ~InCallback(c)' /\ (UserHas(c)' <=> UserHas(c))
  BY <1>1 DEF Live, Idle, InCallback, UserHas
<1>4. CASE UNCHANGED <<active, m_custom_watcher_contexts, m_is_stop, freed>>
  <2>1. FewerArmed(c) /\ StillArmed(c)
    BY <1>1, <1>4, NoWatch
  <2>2. NoMoreOf(c)
    BY <1>1, <1>3, <1>4 DEF NoMoreOf
  <2>3. QED
    BY <1>1, <1>2, <1>3, <2>1, <2>2, Bystander
<1>5. CASE /\ zk.ctx # Global
           /\ m_is_stop' = m_is_stop \union {zk.ctx}
           /\ m_custom_watcher_contexts' = m_custom_watcher_contexts \ {<<zk.path, zk.ctx>>}
           /\ freed' = IF <<zk.path, zk.ctx>> \in m_custom_watcher_contexts
                       THEN freed \union {zk.ctx} ELSE freed
           /\ DeleteWatcher(zk.event, zk.path, zk.ctx)
  <2>1. \A t \in Tables : active'[t] =
          IF t \in TablesOf(zk.event) THEN active[t] \ {<<zk.path, zk.ctx>>} ELSE active[t]
    BY <1>5 DEF DeleteWatcher
  <2>2. FewerArmed(c)
    BY <2>1 DEF FewerArmed
  <2>3. \A p \in Paths : <<p, c>> \in m_custom_watcher_contexts' =>
           <<p, c>> \in m_custom_watcher_contexts
    BY <1>5
  <2>4. c \in m_is_stop => c \in m_is_stop'
    BY <1>5
  <2>5. CASE zk.ctx # c \/ <<zk.path, c>> \notin m_custom_watcher_contexts
    <3>1. c \in freed' <=> c \in freed
      BY <1>5, <2>5
    <3>2. NoMoreOf(c)
      BY <1>1, <1>3, <2>3, <2>4, <3>1 DEF NoMoreOf
    <3>3. StillArmed(c) \/ c \in m_is_stop'
      BY <1>5, <2>1 DEF StillArmed
    <3>4. QED
      BY <1>1, <1>2, <1>3, <2>2, <3>2, <3>3, Bystander
  <2>6. CASE zk.ctx = c /\ <<zk.path, c>> \in m_custom_watcher_contexts
    <3>1. InCallback(c) /\ At(zk.path, c) /\ InRegistry(c) /\ ~InAnswers(c) /\ c \notin freed
      BY <1>1, <2>6 DEF InCallback, At, InRegistry, ClientInv, Answered, Gone
    <3>2. \A p \in Paths : At(p, c) => p = zk.path
      BY <1>1, <3>1 DEF ClientInv, Identity
    <3>3. ~InTables(c)'
      <4>1. ASSUME NEW t \in Tables, NEW p \in Paths, <<p, c>> \in active'[t] PROVE FALSE
        <5>1. <<p, c>> \in active[t]
          BY <2>2, <4>1 DEF FewerArmed
        <5>2. p = zk.path /\ t \in TablesOf(zk.event)
          BY <1>1, <3>1, <3>2, <5>1 DEF At, ClientInv, Calling
        <5>3. QED
          BY <2>1, <2>6, <4>1, <5>2
      <4>2. QED
        BY <4>1 DEF InTables
    <3>4. ~InRegistry(c)'
      BY <1>5, <2>3, <2>6, <3>2 DEF InRegistry, At
    <3>5. ~InAnswers(c)' /\ (InEvents(c)' <=> InEvents(c))
      BY <1>1, <3>1 DEF InAnswers, InEvents, UserHas, AnswerAt, EventAt
    <3>6. \A p \in Paths : At(p, c)' => At(p, c)
      BY <1>1, <1>3, <2>2, <2>3 DEF At, FewerArmed, UserHas, EventAt, AnswerAt
    <3>7. Identity(c)'
      BY <1>1, <3>1, <3>6 DEF ClientInv, Identity
    <3>8. Typed(c)'
      BY <1>1, <2>2, <3>5 DEF ClientInv, Typed, FewerArmed, UserHas, EventAt, InAnswers
    <3>9. Once(c)'
      BY <1>1, <3>3 DEF ClientInv, Once, EventAt
    <3>10. Answered(c)'
      BY <3>5 DEF Answered, InAnswers
    <3>11. Gone(c)' /\ Calling(c)'
      BY <1>3, <1>5, <2>6, <3>3, <3>4 DEF Gone, Calling
    <3>12. c \in m_is_stop'
      BY <1>5, <2>6
    <3>13. Resumed(c)'
      BY <1>1, <1>3, <3>3, <3>5, <3>12 DEF Resumed, Kept
    <3>14. QED
      BY <3>7, <3>8, <3>9, <3>10, <3>11, <3>13 DEF ClientInv
  <2>7. QED
    BY <2>5, <2>6
<1>6. QED
  BY <1>4, <1>5 DEF Callback, registry

\* The watches of a path that changes become one event.
LEMMA ChangeStep ==
  ASSUME WatcherInv, NEW path \in Paths, NEW event \in NodeEvents, Change(path, event),
         NEW c \in Contexts
  PROVE  ClientInv(c)' /\ Resumed(c)'
<1>1. /\ active \in [Tables -> SUBSET Watches] /\ completions \in Seq(Completion)
      /\ c \in Clients /\ ClientInv(c) /\ Resumed(c)
      /\ UNCHANGED <<link, m_custom_watcher_contexts, m_watcher_type, m_is_stop, freed,
                     m_need_resume_env, user, zk, lost>>
  BY DEF Change, registry, contexts, Clients, WatcherInv, WatcherTypesOK, TypeOK
<1>2. /\ Len(completions) \in Nat /\ DOMAIN completions = 1 .. Len(completions)
      /\ completions' \in Seq(Completion)
  BY <1>1, ChangeSays, CompletionsAre
<1>3. PICK m \in Nat : m = Len(completions) + 1
  BY <1>2
<1>4. \A t \in Tables, p \in Paths :
        <<p, c>> \in active'[t] <=> <<p, c>> \in active[t] /\ ~(p = path /\ t \in TablesOf(event))
  BY <1>1, ChangeSays
<1>5. /\ \A k \in DOMAIN completions :
           k \in DOMAIN completions' /\ completions'[k] = completions[k]
      /\ \A k \in DOMAIN completions' : k \notin DOMAIN completions =>
           /\ k = m /\ completions'[k].event = event /\ completions'[k].path = path
           /\ c \in completions'[k].ctxs <=> \E t \in TablesOf(event) : <<path, c>> \in active[t]
      /\ \A t \in TablesOf(event) : <<path, c>> \in active[t] => m \in DOMAIN completions'
  BY <1>1, <1>3, ChangeSays
<1>6. FewerArmed(c)
  BY <1>4 DEF FewerArmed
<1>7. StillWait(c, 0)
  BY <1>2, <1>5 DEF StillWait, EventAt
<1>8. event # "ANSWER" /\ (Live' <=> Live)
  BY <1>1 DEF NodeEvents, Live
<1>9. CASE ~\E t \in TablesOf(event) : <<path, c>> \in active[t]
  <2>1. StillArmed(c)
    BY <1>4, <1>9 DEF StillArmed
  <2>2. \A k \in DOMAIN completions' :
           EventAt(k, c)' \/ AnswerAt(k, c)' => k \in DOMAIN completions
    BY <1>5, <1>8, <1>9 DEF EventAt, AnswerAt
  <2>3. FewerWait(c, 0)
    BY <1>2, <1>5, <2>2 DEF FewerWait, EventAt, AnswerAt
  <2>4. NoMoreOf(c)
    BY <1>1 DEF NoMoreOf, UserHas, InCallback
  <2>5. QED
    BY <1>1, <1>2, <1>6, <1>7, <1>8, <2>1, <2>3, <2>4, Bystander
<1>10. CASE \E t \in TablesOf(event) : <<path, c>> \in active[t]
  <2>1. PICK t0 \in TablesOf(event) : <<path, c>> \in active[t0]
    BY <1>10
  <2>2. t0 \in Tables
    BY <2>1 DEF TablesOf, Tables, NodeEvents
  <2>3. InTables(c) /\ At(path, c)
    BY <2>1, <2>2 DEF InTables, At
  <2>4. /\ \A p \in Paths : At(p, c) => p = path
        /\ m_watcher_type[c] # "NOT_WATCHER"
    BY <1>1, <2>3 DEF ClientInv, Identity
  <2>5. ~InEvents(c)
    BY <1>1, <2>3 DEF ClientInv, Once, InEvents
  <2>6. c \notin freed /\ ~Out(c)
    BY <1>1, <2>3 DEF ClientInv, Gone, Out
  <2>7. m \in DOMAIN completions' /\ m \notin DOMAIN completions
    <3>1. m \in DOMAIN completions'
      BY <1>5, <2>1
    <3>2. QED
      BY <1>2, <1>3, <3>1
  <2>8. EventAt(m, c)' /\ completions'[m].event = event /\ completions'[m].path = path
    BY <1>5, <1>10, <2>7 DEF EventAt
  <2>9. \A k \in DOMAIN completions' : EventAt(k, c)' => k = m
    BY <1>5, <2>5 DEF InEvents, EventAt
  <2>10. \A k \in DOMAIN completions' : AnswerAt(k, c)' =>
           k \in DOMAIN completions /\ AnswerAt(k, c) /\ completions'[k] = completions[k]
    BY <1>5, <1>8 DEF AnswerAt
  <2>11. /\ TablesFor(Kind(m_watcher_type[c])) \subseteq TablesOf(event)
         /\ event \in EventsFor(Kind(m_watcher_type[c]))
    <3>1. t0 \in TablesFor(Kind(m_watcher_type[c]))
      BY <1>1, <2>1, <2>2 DEF ClientInv, Typed
    <3>2. PICK kind \in {"get", "children"} : kind = Kind(m_watcher_type[c])
      BY DEF Kind
    <3>3. t0 \in TablesFor(kind)
      BY <3>1, <3>2
    <3>4. TablesFor(kind) \subseteq TablesOf(event) /\ event \in EventsFor(kind)
      BY <2>1, <3>3 DEF TablesFor, TablesOf, EventsFor, NodeEvents, Tables
    <3>5. QED
      BY <3>2, <3>4
  <2>12. ~InTables(c)'
    <3>1. ASSUME NEW t \in Tables, NEW p \in Paths, <<p, c>> \in active'[t] PROVE FALSE
      <4>1. <<p, c>> \in active[t] /\ ~(p = path /\ t \in TablesOf(event))
        BY <1>4, <3>1
      <4>2. p = path /\ t \in TablesFor(Kind(m_watcher_type[c]))
        BY <1>1, <2>4, <4>1 DEF At, ClientInv, Typed
      <4>3. QED
        BY <2>11, <4>1, <4>2
    <3>2. QED
      BY <3>1 DEF InTables
  <2>13. ASSUME NEW p \in Paths, At(p, c)' PROVE p = path
    <3>1. CASE \E k \in DOMAIN completions' : EventAt(k, c)' /\ completions'[k].path = p
      BY <2>8, <2>9, <3>1
    <3>2. CASE \E k \in DOMAIN completions' : AnswerAt(k, c)' /\ completions'[k].answer.path = p
      BY <2>4, <2>10, <3>2 DEF At
    <3>3. CASE \E t \in Tables : <<p, c>> \in active'[t]
      BY <2>4, <1>4, <3>3 DEF At
    <3>4. CASE UserHas(c)' /\ user'.answer.path = p
      BY <1>1, <2>4, <3>4 DEF At, UserHas
    <3>5. CASE <<p, c>> \in m_custom_watcher_contexts'
      BY <1>1, <2>4, <3>5 DEF At
    <3>6. CASE InCallback(c)' /\ zk'.path = p
      BY <1>1, <2>4, <3>6 DEF At, InCallback
    <3>7. QED
      BY <2>13, <3>1, <3>2, <3>3, <3>4, <3>5, <3>6 DEF At
  <2>14. Identity(c)'
    BY <1>1, <2>4, <2>13 DEF Identity
  <2>15. Typed(c)'
    <3>1. \A k \in DOMAIN completions' :
            AnswerAt(k, c)' => completions'[k].answer.type = m_watcher_type'[c]
      BY <1>1, <2>10 DEF ClientInv, Typed
    <3>2. UserHas(c)' => user'.answer.type = m_watcher_type'[c]
      BY <1>1 DEF ClientInv, Typed, UserHas
    <3>3. \A t \in Tables, p \in Paths : <<p, c>> \notin active'[t]
      BY <2>12 DEF InTables
    <3>4. \A k \in DOMAIN completions' :
            EventAt(k, c)' => completions'[k].event \in EventsFor(Kind(m_watcher_type'[c]))
      BY <1>1, <2>8, <2>9, <2>11
    <3>5. QED
      BY <3>1, <3>2, <3>3, <3>4 DEF Typed, EventsFor, TablesFor, Kind
  <2>16. Once(c)'
    BY <2>9, <2>12 DEF Once
  <2>17. Answered(c)'
    <3>1. /\ UserHas(c)' <=> UserHas(c)
          /\ InRegistry(c)' <=> InRegistry(c)
      BY <1>1 DEF UserHas, InRegistry
    <3>2. ASSUME NEW k \in DOMAIN completions', AnswerAt(k, c)'
          PROVE  /\ ~UserHas(c)'
                 /\ \A j \in DOMAIN completions' : AnswerAt(j, c)' => j = k
                 /\ ~Failed(completions'[k].answer)
      BY <1>1, <2>6, <2>10, <3>1, <3>2 DEF ClientInv, Answered
    <3>3. UserHas(c)' => ~Failed(user'.answer)
      BY <1>1, <2>6, <3>1 DEF ClientInv, Answered
    <3>4. InAnswers(c)' => InAnswers(c)
      BY <2>10, <3>1 DEF InAnswers
    <3>5. InAnswers(c)' => ~InRegistry(c)' /\ c \notin freed'
      BY <1>1, <3>1, <3>4 DEF ClientInv, Answered
    <3>6. QED
      BY <3>2, <3>3, <3>5 DEF Answered, Failed
  <2>18. Gone(c)'
    BY <1>1, <2>6 DEF Gone
  <2>19. Calling(c)'
    BY <2>12 DEF Calling, InTables
  <2>20. \A p \in Paths : At(p, c)' => Kept(p, c)'
    <3>1. Fires(m, Kind(m_watcher_type[c]), path, c)'
      <4>1. PICK kind \in {"get", "children"} : kind = Kind(m_watcher_type[c])
        BY DEF Kind
      <4>2. Fires(m, kind, path, c)'
        BY <2>8, <2>11, <4>1 DEF Fires, EventsFor
      <4>3. kind = Kind(m_watcher_type'[c])
        BY <1>1, <4>1
      <4>4. QED
        BY <4>2, <4>3
    <3>2. QED
      BY <2>7, <2>13, <3>1 DEF Kept, Watched
  <2>21. Resumed(c)'
    <3>1. \A p \in Paths : Due(p, c)' => At(p, c)'
      BY DEF Due, At
    <3>2. ~(m_need_resume_env' /\ zk'.pc # "custom")
      BY <1>1, <2>3 DEF Resumed
    <3>3. zk'.pc = "custom" => \A w \in zk'.todo : w[3] # c
      BY <1>1, <2>3 DEF Resumed
    <3>4. \A p \in Paths : <<p, c>> \in m_custom_watcher_contexts' => At(p, c)'
      BY DEF At
    <3>5. QED
      BY <2>20, <3>1, <3>2, <3>3, <3>4 DEF Resumed
  <2>22. QED
    BY <2>14, <2>15, <2>16, <2>17, <2>18, <2>19, <2>21 DEF ClientInv
<1>11. QED
  BY <1>9, <1>10

-----------------------------------------------------------------------------
(* The invariant is inductive.                                             *)

\* No answer has been added.
LEMMA NoAnswerAdded ==
  ASSUME WatcherInv, completions' \in Seq(Completion), NEW d \in {0, 1},
         \A ctx \in Clients : FewerWait(ctx, d), m_need_resume_env
  PROVE  \A k \in DOMAIN completions' : completions'[k].event # "ANSWER"
<1>1. ASSUME NEW k \in DOMAIN completions', completions'[k].event = "ANSWER" PROVE FALSE
  <2>1. completions'[k] \in Completion
    BY <1>1, ElementOfSeq, LenProperties
  <2>2. completions'[k].answer \in AnswerType
    BY <1>1, <2>1 DEF Completion, NodeEvents, SessionEvents
  <2>3. PICK ctx \in Clients : completions'[k].answer.ctx = ctx
    BY <2>2 DEF AnswerType
  <2>4. AnswerAt(k, ctx)'
    BY <1>1, <2>3 DEF AnswerAt
  <2>5. k + d \in DOMAIN completions /\ completions[k + d].event = "ANSWER"
    BY <2>4 DEF FewerWait, AnswerAt
  <2>6. QED
    BY <2>5 DEF WatcherInv, ResumeQuiet
<1>2. QED
  BY <1>1

\* Steps of others while the watches are armed again, or are not.
LEMMA QuietKept ==
  ASSUME WatcherInv, UNCHANGED <<zk, user, m_need_resume_env, m_watcher_type,
                                 m_custom_watcher_contexts>>,
         m_need_resume_env => \A k \in DOMAIN completions' : completions'[k].event # "ANSWER"
  PROVE  ResumeQuiet'
BY DEF WatcherInv, ResumeQuiet, Resuming

LEMMA QuietStep ==
  ASSUME WatcherInv, ResumeWaits, [Next]_vars
  PROVE  ResumeQuiet'
<1>1. /\ completions \in Seq(Completion) /\ ResumeQuiet
      /\ m_need_resume_env \in BOOLEAN /\ Global \in Clients
      /\ (1 \in DOMAIN completions /\ Head(completions) = completions[1]) \/ completions = <<>>
  <2>1. completions \in Seq(Completion) /\ ResumeQuiet
    BY DEF WatcherInv, WatcherTypesOK
  <2>2. m_need_resume_env \in BOOLEAN /\ Global \in Clients
    BY DEF WatcherInv, WatcherTypesOK, TypeOK, Clients
  <2>3. (1 \in DOMAIN completions /\ Head(completions) = completions[1]) \/ completions = <<>>
    BY <2>1, CompletionsAre
  <2>4. QED
    BY <2>1, <2>2, <2>3
<1>2. ASSUME ~m_need_resume_env', zk'.pc \notin {"global", "custom"} PROVE ResumeQuiet'
  BY <1>2 DEF ResumeQuiet, Resuming
<1>3. ASSUME NEW name, NEW type, NEW path, NEW ctx, NEW rc, Watch(name, type, path, ctx, rc)
      PROVE  ResumeQuiet'
  <2>1. ~m_need_resume_env' /\ zk'.pc \notin {"global", "custom"}
    BY <1>3 DEF Watch, Resuming
  <2>2. QED
    BY <1>2, <2>1
<1>4. CASE UserCall
  BY <1>3, <1>4 DEF UserCall, Exists, Get, GetChildren, AExists, AGet, AGetChildren,
     Synchronous, Asynchronous
<1>5. CASE Return
  <2>1. zk'.pc \notin {"global", "custom"} /\ UNCHANGED <<completions, m_need_resume_env>>
    BY <1>1, <1>5 DEF Return, ResumeQuiet, Resuming
  <2>2. QED
    BY <1>1, <2>1 DEF ResumeQuiet, Resuming
<1>6. CASE ProcAsyncWatcher
  <2>1. ~m_need_resume_env' /\ zk'.pc \notin {"global", "custom"}
    BY <1>1, <1>6 DEF ProcAsyncWatcher, Handles, ResumeQuiet
  <2>2. QED
    BY <1>2, <2>1
<1>7. ASSUME NEW ctx \in Clients, NEW events, events \subseteq NodeEvents \union SessionEvents,
             Handles(events), Deliver(ctx), UNCHANGED <<m_need_resume_env, user>>,
             \/ zk'.pc \notin {"global", "custom"}
             \/ m_need_resume_env /\ user.pc = "idle"
                /\ zk' = [pc |-> "global", todo |-> GlobalWatches]
      PROVE  ResumeQuiet'
  <2>1. Handles(NodeEvents \union SessionEvents)
    BY <1>7 DEF Handles
  <2>2. completions' \in Seq(Completion) /\ \E d \in {0, 1} : \A c \in Clients : FewerWait(c, d)
    BY <1>1, <1>7, <2>1, DeliverSays
  <2>3. PICK d \in {0, 1} : \A c \in Clients : FewerWait(c, d)
    BY <2>2
  <2>4. m_need_resume_env' => \A k \in DOMAIN completions' : completions'[k].event # "ANSWER"
    BY <1>7, <2>2, <2>3, NoAnswerAdded
  <2>5. CASE zk'.pc \notin {"global", "custom"}
    BY <2>4, <2>5 DEF ResumeQuiet, Resuming
  <2>6. CASE /\ m_need_resume_env /\ user.pc = "idle"
             /\ zk' = [pc |-> "global", todo |-> GlobalWatches]
    <3>1. \A w \in GlobalWatches : w[3] = Global
      BY DEF GlobalWatches
    <3>2. zk'.pc = "global" /\ zk'.todo = GlobalWatches
      BY <2>6
    <3>3. QED
      BY <1>7, <2>4, <2>6, <3>1, <3>2 DEF ResumeQuiet, Resuming
  <2>7. QED
    BY <1>7, <2>5, <2>6
<1>8. CASE InnerWatcherStopped
  <2>1. m_is_stop \subseteq Clients
    BY DEF WatcherInv, WatcherTypesOK, TypeOK, Clients
  <2>2. PICK ctx \in Clients : Deliver(ctx)
    BY <1>8, <2>1 DEF InnerWatcherStopped
  <2>3. /\ Handles(NodeEvents \union SessionEvents) /\ zk'.pc = "idle"
        /\ UNCHANGED <<m_need_resume_env, user>>
    BY <1>8 DEF InnerWatcherStopped, Handles
  <2>4. QED
    BY <1>7, <2>2, <2>3
<1>9. CASE ConnectedEvent
  <2>1. /\ Handles({"CONNECTED"}) /\ Deliver(Global) /\ UNCHANGED <<m_need_resume_env, user>>
        /\ {"CONNECTED"} \subseteq NodeEvents \union SessionEvents /\ zk.pc = "idle"
        /\ zk' = IF m_need_resume_env THEN [pc |-> "global", todo |-> GlobalWatches] ELSE zk
        /\ m_need_resume_env => user.pc = "idle"
    BY <1>9 DEF ConnectedEvent, Handles, SessionEvents
  <2>2. QED
    BY <1>1, <1>7, <2>1
<1>10. CASE CustomWatcher
  <2>1. PICK ctx \in Clients : Deliver(ctx) /\ zk'.pc = "callback"
    BY <1>10 DEF CustomWatcher, Called, Clients
  <2>2. Handles(NodeEvents) /\ UNCHANGED <<m_need_resume_env, user>>
    BY <1>10 DEF CustomWatcher
  <2>3. QED
    BY <1>7, <2>1, <2>2
<1>11. CASE GlobalWatcherUnknown \/ GlobalWatcher
  <2>1. /\ Handles(NodeEvents) /\ Deliver(Global) /\ UNCHANGED <<m_need_resume_env, user>>
        /\ zk'.pc \notin {"global", "custom"}
    BY <1>11 DEF GlobalWatcherUnknown, GlobalWatcher, Handles, Called
  <2>2. QED
    BY <1>1, <1>7, <2>1
<1>12. CASE Reconnect
  <2>1. zk'.pc = "idle" /\ completions' = <<[event |-> "CONNECTED", ctxs |-> {Global}]>>
    BY <1>12 DEF Reconnect, Handles
  <2>2. \A k \in DOMAIN completions' : completions'[k].event # "ANSWER"
    BY <2>1
  <2>3. QED
    BY <2>1, <2>2 DEF ResumeQuiet, Resuming
<1>13. CASE ResumeWatch
  <2>1. PICK w \in zk.todo : zk' = [zk EXCEPT !.todo = @ \ {w}]
    BY <1>13 DEF ResumeWatch
  <2>2. /\ zk.pc \in {"global", "custom"}
        /\ UNCHANGED <<completions, m_custom_watcher_contexts, m_watcher_type,
                       m_need_resume_env, user>>
    BY <1>13 DEF ResumeWatch, Resuming, registry, contexts
  <2>3. zk'.pc = zk.pc /\ zk'.todo = zk.todo \ {w}
    <3>1. zk \in [pc : {"global", "custom"}, todo : SUBSET (Paths \X WatcherTypes \X Clients)]
      BY <2>2 DEF WatcherInv, WatcherTypesOK, ZkType, Idle
    <3>2. QED
      BY <2>1, <3>1
  <2>4. QED
    BY <1>1, <2>2, <2>3 DEF ResumeQuiet, Resuming
<1>14. CASE ResumeCustom
  <2>1. /\ zk.pc = "global" /\ zk'.pc = "custom" /\ zk'.todo = CustomWatches
        /\ UNCHANGED <<completions, m_custom_watcher_contexts, m_watcher_type,
                       m_need_resume_env, user>>
    BY <1>14 DEF ResumeCustom, registry, contexts
  <2>2. \A w \in CustomWatches :
          /\ w[3] \in Contexts /\ w[2] = m_watcher_type[w[3]]
          /\ <<w[1], w[3]>> \in m_custom_watcher_contexts
    <3>1. m_custom_watcher_contexts \subseteq Paths \X Contexts
      BY DEF WatcherInv, WatcherTypesOK, TypeOK
    <3>2. ASSUME NEW w \in CustomWatches
          PROVE  /\ w[3] \in Contexts /\ w[2] = m_watcher_type[w[3]]
                 /\ <<w[1], w[3]>> \in m_custom_watcher_contexts
      <4>1. PICK u \in m_custom_watcher_contexts : w = <<u[1], m_watcher_type[u[2]], u[2]>>
        BY <3>2 DEF CustomWatches
      <4>2. u = <<u[1], u[2]>> /\ u[2] \in Contexts
        BY <3>1
      <4>3. QED
        BY <4>1, <4>2
    <3>3. QED
      BY <3>2
  <2>3. QED
    BY <1>1, <2>1, <2>2 DEF ResumeQuiet, Resuming
<1>15. CASE ResumeEnd
  <2>1. ~m_need_resume_env' /\ zk'.pc = "idle"
    BY <1>15 DEF ResumeEnd, Idle
  <2>2. QED
    BY <1>2, <2>1
<1>16. CASE Callback
  <2>1. zk'.pc = "idle" /\ UNCHANGED <<completions, m_need_resume_env>>
    BY <1>16 DEF Callback, Idle
  <2>2. QED
    BY <1>1, <2>1 DEF ResumeQuiet, Resuming
<1>17. CASE Expire
  <2>1. PICK x \in [event : {"EXPIRED_SESSION"}, ctxs : SUBSET Clients] :
          completions' = Append(completions, x)
    BY <1>17 DEF Expire, Clients
  <2>2. completions' \in Seq(Completion) /\ \A ctx \in Clients : FewerWait(ctx, 0)
    BY <1>1, <2>1, Appended DEF Completion, SessionEvents, NodeEvents
  <2>3. QED
    BY <1>17, <2>2, NoAnswerAdded, QuietKept DEF Expire, registry, contexts
<1>18. CASE \E path \in Paths, event \in NodeEvents : Change(path, event)
  <2>1. PICK path \in Paths, event \in NodeEvents : Change(path, event)
    BY <1>18
  <2>2. active \in [Tables -> SUBSET Watches]
    BY DEF WatcherInv, WatcherTypesOK, TypeOK
  <2>3. /\ \A k \in DOMAIN completions :
             k \in DOMAIN completions' /\ completions'[k] = completions[k]
        /\ \A k \in DOMAIN completions' : k \notin DOMAIN completions =>
             completions'[k].event = event
    BY <1>1, <2>1, <2>2, ChangeSays
  <2>4. m_need_resume_env => \A k \in DOMAIN completions' : completions'[k].event # "ANSWER"
    BY <1>1, <2>3 DEF ResumeQuiet, NodeEvents
  <2>5. QED
    BY <2>1, <2>4, QuietKept DEF Change, registry, contexts
<1>19. CASE UNCHANGED vars
  BY <1>1, <1>19 DEF vars, ResumeQuiet, Resuming
<1>20. QED
  BY <1>4, <1>5, <1>6, <1>8, <1>9, <1>10, <1>11, <1>12, <1>13, <1>14, <1>15, <1>16, <1>17,
     <1>18, <1>19 DEF Next, ZkThread, Environment

LEMMA WatcherInit == Init => WatcherInv
<1> SUFFICES ASSUME Init PROVE WatcherInv
  OBVIOUS
<1>1. /\ \A k \in DOMAIN completions : FALSE
      /\ \A t \in Tables : active[t] = {}
      /\ m_custom_watcher_contexts = {} /\ user.pc = "idle" /\ zk.pc = "idle" /\ freed = {}
      /\ ~m_need_resume_env
  BY DEF Init, Idle
<1>2. WatcherTypesOK
  <2>1. TypeOK
    BY DEF Init, TypeOK
  <2>2. completions \in Seq(Completion)
    BY DEF Init
  <2>3. user \in {Idle} /\ zk \in {Idle}
    BY DEF Init
  <2>4. QED
    BY <2>1, <2>2, <2>3 DEF WatcherTypesOK, ZkType
<1>3. ResumeQuiet
  BY <1>1 DEF ResumeQuiet, Resuming
<1>4. ASSUME NEW c \in Contexts PROVE ClientInv(c) /\ Resumed(c)
  <2>1. /\ ~InTables(c) /\ ~InEvents(c) /\ ~InAnswers(c) /\ ~InRegistry(c) /\ ~InCallback(c)
        /\ ~UserHas(c) /\ c \notin freed
    BY <1>1 DEF InTables, InEvents, InAnswers, InRegistry, InCallback, UserHas
  <2>2. \A p \in Paths : ~At(p, c) /\ ~Due(p, c)
    BY <1>1, <2>1 DEF At, Due
  <2>3. Identity(c) /\ Typed(c) /\ Once(c)
    BY <1>1, <2>1, <2>2 DEF Identity, Typed, Once
  <2>4. Answered(c) /\ Gone(c) /\ Calling(c)
    BY <1>1, <2>1 DEF Answered, Gone, Calling
  <2>5. Resumed(c)
    BY <1>1, <2>1, <2>2 DEF Resumed
  <2>6. QED
    BY <2>3, <2>4, <2>5 DEF ClientInv
<1>5. QED
  BY <1>2, <1>3, <1>4 DEF WatcherInv

LEMMA WatcherStep ==
  ASSUME WatcherInv, ResumeWaits, [Next]_vars
  PROVE  WatcherInv'
<1>1. WatcherTypesOK' /\ ResumeQuiet'
  BY TypesStep, QuietStep
<1>2. ASSUME NEW c \in Contexts PROVE ClientInv(c)' /\ Resumed(c)'
  <2>1. CASE UserCall
    <3>1. PICK path \in Paths, ctx \in Contexts \union {Global} :
            \/ Exists(path, ctx) \/ Get(path, ctx) \/ GetChildren(path, ctx)
            \/ AExists(path, ctx) \/ AGet(path, ctx) \/ AGetChildren(path, ctx)
      BY <2>1 DEF UserCall
    <3>2. {"EXISTS", "GET", "GET_CHILDREN"} = WatcherTypes /\ ctx \in Clients
      BY DEF WatcherTypes, Clients
    <3>3. QED
      BY <3>1, <3>2, SynchronousStep, AsynchronousStep
         DEF Exists, Get, GetChildren, AExists, AGet, AGetChildren
  <2>2. CASE Return
    BY <2>2, ReturnStep
  <2>3. CASE ZkThread
    BY <2>3, ProcAsyncWatcherStep, InnerWatcherStoppedStep, ReconnectStep, ConnectedEventStep,
       ResumeWatchStep, ResumeCustomStep, ResumeEndStep, CustomWatcherStep, GlobalWatcherStep,
       CallbackStep DEF ZkThread
  <2>4. CASE Environment
    BY <2>4, ExpireStep, ChangeStep DEF Environment
  <2>5. CASE UNCHANGED vars
    <3>1. ClientInv(c) /\ Resumed(c)
      BY DEF WatcherInv
    <3>2. QED
      BY <2>5, <3>1 DEF vars, ClientInv, Identity, Typed, Once, Answered, Gone, Calling, Out,
         Failed, At, InTables, InEvents, InAnswers, InRegistry, InCallback, EventAt, AnswerAt,
         UserHas, Resumed, Live, Due, Kept, Watched, Fires, Armed
  <2>6. QED
    BY <2>1, <2>2, <2>3, <2>4, <2>5 DEF Next
<1>3. QED
  BY <1>1, <1>2 DEF WatcherInv

-----------------------------------------------------------------------------
(* The theorems.                                                           *)

\* No custom watcher is lost (InnerWatcher, ReconnectResumeEnv), if the user's
\* calls do not meet the resumption of a session.
THEOREM NoCustomWatchIsLost == ASSUME ResumeWaits PROVE Spec => []CustomArmed
<1>1. ASSUME WatcherInv PROVE CustomArmed
  <2>1. ASSUME Live, NEW w \in m_custom_watcher_contexts,
               w[2] \notin m_is_stop, <<w[1], m_watcher_type[w[2]], w[2]>> \notin lost
        PROVE  \/ Armed({TableOf(m_watcher_type[w[2]]), "exist"}, w[1], w[2])
               \/ Pending(NodeEvents, w[1], w[2])
    <3>1. w[1] \in Paths /\ w[2] \in Contexts /\ w = <<w[1], w[2]>>
      BY <1>1, <2>1 DEF WatcherInv, WatcherTypesOK, TypeOK
    <3>2. Watched(Kind(m_watcher_type[w[2]]), w[1], w[2])
      BY <1>1, <2>1, <3>1 DEF WatcherInv, Resumed, Due, Kept
    <3>3. TablesFor(Kind(m_watcher_type[w[2]])) \subseteq {TableOf(m_watcher_type[w[2]]), "exist"}
      BY DEF TablesFor, Kind, TableOf
    <3>4. QED
      BY <3>2, <3>3 DEF Watched, Armed, Fires, EventAt, Pending
  <2>2. QED
    BY <2>1 DEF CustomArmed
<1>2. QED
  BY <1>1, WatcherInit, WatcherStep, PTL DEF Spec

\* The C client's tables hold no watcher that DeleteWatcher's caller has
\* destroyed, under the same condition.
THEOREM NoDestroyedContextIsArmed == ASSUME ResumeWaits PROVE Spec => []TablesAlive
<1>1. ASSUME WatcherInv PROVE TablesAlive
  <2>1. ASSUME NEW t \in Tables, NEW w \in Watches, w \in active[t], w[2] \in freed PROVE FALSE
    <3>1. w[1] \in Paths /\ w[2] \in Contexts /\ w = <<w[1], w[2]>>
      BY <1>1, <2>1 DEF WatcherInv, WatcherTypesOK, TypeOK, Watches
    <3>2. InTables(w[2]) /\ ClientInv(w[2])
      BY <1>1, <2>1, <3>1 DEF InTables, WatcherInv
    <3>3. QED
      BY <2>1, <3>2 DEF ClientInv, Gone
  <2>2. QED
    BY <2>1 DEF TablesAlive
<1>2. QED
  BY <1>1, WatcherInit, WatcherStep, PTL DEF Spec

-----------------------------------------------------------------------------
(* The global watches.                                                     *)

GlobalWatched(kind, path) ==
  Watched(kind, path, Global) \/ \E w \in lost : w[1] = path /\ w[3] = Global

\* A watch whose answer waits is armed, or its event waits behind the answer.
AnsweredAt(k) ==
  LET call == completions[k].answer
  IN  \/ Armed(TablesFor(Kind(call.type)), call.path, Global)
      \/ \E j \in DOMAIN completions :
           j > k /\ Fires(j, Kind(call.type), call.path, Global)

GlobalAnswered ==
  \A k \in DOMAIN completions :
    AnswerAt(k, Global) /\ ~Failed(completions[k].answer) => AnsweredAt(k)

\* What is registered is watched, in every session, when its turn has come.
GlobalKept(path, kind) ==
  kind \in m_global_watcher_path_type[path] =>
    /\ Live \/ zk.pc = "custom" => GlobalWatched(kind, path)
    /\ zk.pc = "global" => \/ GlobalWatched(kind, path)
                           \/ \E w \in zk.todo : w[1] = path /\ Kind(w[2]) = kind

GlobalInv ==
  /\ ~UserHas(Global) /\ GlobalAnswered
  /\ Global \in m_is_stop \/ \A path \in Paths, kind \in {"get", "children"} : GlobalKept(path, kind)

\* The global watches are set by asynchronous calls.
AsynchronousGlobals == GlobalCalls \intersect {"Exists", "Get", "GetChildren"} = {}

\* What waits behind the first completion still waits.
LaterWait(d) ==
  \A k \in DOMAIN completions : k > 1 /\ EventAt(k, Global) =>
    /\ k - d \in DOMAIN completions' /\ EventAt(k - d, Global)'
    /\ completions'[k - d].event = completions[k].event
    /\ completions'[k - d].path = completions[k].path

LEMMA AnswersKept ==
  ASSUME completions \in Seq(Completion), completions' \in Seq(Completion), NEW d \in {0, 1},
         GlobalAnswered, StillArmed(Global), FewerWait(Global, d), LaterWait(d)
  PROVE  GlobalAnswered'
<1>1. DOMAIN completions \subseteq Int /\ DOMAIN completions' \subseteq Nat \ {0}
  BY LenProperties
<1>2. ASSUME NEW k \in DOMAIN completions', AnswerAt(k, Global)', ~Failed(completions'[k].answer)
      PROVE  AnsweredAt(k)'
  <2>1. /\ k + d \in DOMAIN completions /\ AnswerAt(k + d, Global)
        /\ completions'[k].answer = completions[k + d].answer
    BY <1>2 DEF FewerWait
  <2>2. AnsweredAt(k + d)
    BY <1>2, <2>1 DEF GlobalAnswered
  <2>3. PICK kind \in {"get", "children"}, call \in AnswerType :
          kind = Kind(call.type) /\ call = completions[k + d].answer
    BY <2>1, CompletionsAre DEF Kind, AnswerAt
  <2>4. \/ Armed(TablesFor(kind), call.path, Global)
        \/ \E j \in DOMAIN completions : j > k + d /\ Fires(j, kind, call.path, Global)
    BY <2>2, <2>3 DEF AnsweredAt
  <2>5. \/ Armed(TablesFor(kind), call.path, Global)'
        \/ \E j \in DOMAIN completions' : j > k /\ Fires(j, kind, call.path, Global)'
    <3>1. CASE Armed(TablesFor(kind), call.path, Global)
      <4>1. TablesFor(kind) \subseteq Tables
        BY DEF TablesFor, Tables
      <4>2. call.path \in Paths
        BY DEF AnswerType
      <4>3. QED
        BY <3>1, <4>1, <4>2 DEF Armed, StillArmed
    <3>2. CASE \E j \in DOMAIN completions : j > k + d /\ Fires(j, kind, call.path, Global)
      <4>1. PICK j \in DOMAIN completions : j > k + d /\ Fires(j, kind, call.path, Global)
        BY <3>2
      <4>2. j > 1 /\ j - d > k
        BY <1>1, <4>1
      <4>3. j - d \in DOMAIN completions' /\ Fires(j - d, kind, call.path, Global)'
        BY <4>1, <4>2 DEF Fires, LaterWait
      <4>4. QED
        BY <4>2, <4>3
    <3>3. QED
      BY <2>4, <3>1, <3>2
  <2>6. kind = Kind(completions'[k].answer.type) /\ call = completions'[k].answer
    BY <2>1, <2>3
  <2>7. QED
    BY <2>5, <2>6 DEF AnsweredAt
<1>3. QED
  BY <1>2 DEF GlobalAnswered, Failed

LEMMA StillLater ==
  ASSUME NEW d, StillWait(Global, d)
  PROVE  LaterWait(d)
BY DEF StillWait, LaterWait

LEMMA StillGlobal ==
  ASSUME NEW d \in {0, 1}, StillArmed(Global), StillWait(Global, d), lost \subseteq lost',
         NEW kind, NEW path \in Paths, GlobalWatched(kind, path)
  PROVE  GlobalWatched(kind, path)'
<1>1. Global \in Clients
  BY DEF Clients
<1>2. QED
  BY <1>1, StillWatched DEF GlobalWatched

\* A step of others.
LEMMA GlobalBystander ==
  ASSUME WatcherInv, GlobalInv, completions' \in Seq(Completion), NEW d \in {0, 1},
         StillArmed(Global), StillWait(Global, d), FewerWait(Global, d),
         ~UserHas(Global)', lost \subseteq lost', Live' => Live,
         Global \in m_is_stop => Global \in m_is_stop',
         \A path \in Paths, kind \in {"get", "children"} :
           kind \in m_global_watcher_path_type'[path] => kind \in m_global_watcher_path_type[path],
         zk'.pc = "custom" => zk.pc = "custom",
         zk'.pc = "global" => zk.pc = "global" /\ zk.todo \subseteq zk'.todo
  PROVE  GlobalInv'
<1>1. GlobalAnswered'
  BY AnswersKept, StillLater DEF GlobalInv, WatcherInv, WatcherTypesOK
<1>2. ASSUME Global \notin m_is_stop', NEW path \in Paths, NEW kind \in {"get", "children"}
      PROVE  GlobalKept(path, kind)'
  <2>1. GlobalKept(path, kind)
    BY <1>2 DEF GlobalInv
  <2>2. GlobalWatched(kind, path) => GlobalWatched(kind, path)'
    BY StillGlobal
  <2>3. QED
    BY <2>1, <2>2 DEF GlobalKept
<1>3. QED
  BY <1>1, <1>2 DEF GlobalInv

\* A call for Global is asynchronous, and its answer waits.
LEMMA GlobalCallStep ==
  ASSUME WatcherInv, GlobalInv, ResumeWaits, NEW name, NEW type \in WatcherTypes,
         NEW path \in Paths, NEW ctx \in Clients,
         \/ Asynchronous(name, type, path, ctx)
         \/ ctx # Global /\ Synchronous(name, type, path, ctx)
  PROVE  GlobalInv'
<1>1. PICK rc \in Codes :
        /\ Watch(name, type, path, ctx, rc)
        /\ \/ /\ completions' = Append(completions,
                   [event |-> "ANSWER", answer |-> Answer(type, path, ctx, rc)])
              /\ UNCHANGED user
           \/ /\ ctx # Global /\ UNCHANGED completions
              /\ user' = [pc |-> "answered", answer |-> Answer(type, path, ctx, rc)]
  BY DEF Asynchronous, Synchronous
<1>2. /\ active \in [Tables -> SUBSET Watches] /\ completions \in Seq(Completion)
      /\ Global \in Clients
  BY DEF WatcherInv, WatcherTypesOK, TypeOK, Clients
<1>3. PICK call \in AnswerType : call = Answer(type, path, ctx, rc)
  BY DEF Answer, AnswerType
<1>4. /\ call.type = type /\ call.path = path /\ call.ctx = ctx
      /\ Failed(call) <=> ~Success(type, rc)
  BY <1>3 DEF Answer, Failed
<1>5. /\ SetWatch(type, path, ctx, rc, 1) /\ user.pc = "idle"
      /\ UNCHANGED <<link, m_global_watcher_path_type, m_is_stop, m_need_resume_env, zk, lost>>
  BY <1>1 DEF Watch, server, registry
<1>6. StillArmed(Global)
  BY <1>2, <1>5, OthersArmed
<1>7. Live' => Live
  BY <1>5 DEF Live
<1>8. CASE UNCHANGED completions /\ ctx # Global
  <2>1. FewerWait(Global, 0) /\ StillWait(Global, 0) /\ completions' \in Seq(Completion)
    BY <1>2, <1>8, NoCompletion
  <2>2. ~UserHas(Global)'
    BY <1>1, <1>3, <1>4, <1>5, <1>8 DEF UserHas
  <2>3. QED
    BY <1>5, <1>6, <1>7, <2>1, <2>2, GlobalBystander
<1>9. CASE /\ completions' = Append(completions, [event |-> "ANSWER", answer |-> call])
           /\ UNCHANGED user
  <2>1. [event |-> "ANSWER", answer |-> call] \in Completion
    BY DEF Completion
  <2>2. PICK x \in Completion : x = [event |-> "ANSWER", answer |-> call]
    BY <2>1
  <2>3. x.event = "ANSWER" /\ x.answer = call
    BY <2>2
  <2>4. completions' = Append(completions, x)
    BY <1>9, <2>2
  <2>5. /\ completions' \in Seq(Completion)
        /\ DOMAIN completions' = 1 .. Len(completions) + 1
        /\ completions'[Len(completions) + 1] = x
        /\ \A k \in DOMAIN completions : completions'[k] = completions[k]
        /\ StillWait(Global, 0) /\ (ctx # Global => FewerWait(Global, 0))
    BY <1>2, <1>4, <2>3, <2>4, Appended DEF NodeEvents
  <2>6. ~UserHas(Global)'
    BY <1>5, <1>9 DEF UserHas
  <2>7. CASE ctx # Global
    BY <1>5, <1>6, <1>7, <2>5, <2>6, <2>7, GlobalBystander
  <2>8. CASE ctx = Global
    <3>1. /\ Len(completions) \in Nat /\ DOMAIN completions = 1 .. Len(completions)
          /\ DOMAIN completions \subseteq DOMAIN completions'
      BY <1>2, <2>5, CompletionsAre
    <3>2. PICK kind \in {"get", "children"} : kind = Kind(type)
      BY DEF Kind
    <3>3. Success(type, rc) => Armed(TablesFor(kind), path, Global)'
      BY <1>2, <1>5, <2>8, <3>2, SetWatchSays DEF Armed
    <3>4. ASSUME NEW k \in DOMAIN completions', AnswerAt(k, Global)',
                 ~Failed(completions'[k].answer)
          PROVE  AnsweredAt(k)'
      <4>1. CASE completions'[k] = x
        <5>1. Success(type, rc) /\ completions'[k].answer = call
          BY <1>4, <2>3, <3>4, <4>1
        <5>2. kind = Kind(completions'[k].answer.type) /\ path = completions'[k].answer.path
          BY <1>4, <3>2, <5>1
        <5>3. QED
          BY <3>3, <5>1, <5>2 DEF AnsweredAt
      <4>2. CASE k \in DOMAIN completions
        <5>1. completions'[k] = completions[k]
          BY <2>5, <4>2
        <5>2. AnswerAt(k, Global) /\ ~Failed(completions[k].answer)
          BY <3>4, <5>1 DEF AnswerAt
        <5>3. AnsweredAt(k)
          BY <4>2, <5>2 DEF GlobalInv, GlobalAnswered
        <5>4. PICK old \in AnswerType : old = completions[k].answer /\ old = completions'[k].answer
          BY <1>2, <4>2, <5>1, <5>2, CompletionsAre DEF AnswerAt
        <5>5. PICK sort \in {"get", "children"} : sort = Kind(old.type)
          BY DEF Kind
        <5>6. \/ Armed(TablesFor(sort), old.path, Global)
              \/ \E j \in DOMAIN completions : j > k /\ Fires(j, sort, old.path, Global)
          BY <5>3, <5>4, <5>5 DEF AnsweredAt
        <5>7. \/ Armed(TablesFor(sort), old.path, Global)'
              \/ \E j \in DOMAIN completions' : j > k /\ Fires(j, sort, old.path, Global)'
          <6>1. TablesFor(sort) \subseteq Tables /\ old.path \in Paths
            BY DEF TablesFor, Tables, AnswerType
          <6>2. Armed(TablesFor(sort), old.path, Global) =>
                  Armed(TablesFor(sort), old.path, Global)'
            BY <1>6, <6>1 DEF Armed, StillArmed
          <6>3. \A j \in DOMAIN completions : Fires(j, sort, old.path, Global) =>
                  Fires(j, sort, old.path, Global)'
            BY <2>5 DEF Fires, EventAt
          <6>4. QED
            BY <3>1, <5>6, <6>2, <6>3
        <5>8. QED
          BY <5>4, <5>5, <5>7 DEF AnsweredAt
      <4>3. QED
        BY <2>5, <3>1, <4>1, <4>2
    <3>5. GlobalAnswered'
      BY <3>4 DEF GlobalAnswered, Failed
    <3>6. ASSUME Global \notin m_is_stop', NEW p \in Paths, NEW sort \in {"get", "children"}
          PROVE  GlobalKept(p, sort)'
      <4>1. GlobalKept(p, sort)
        BY <1>5, <3>6 DEF GlobalInv
      <4>2. GlobalWatched(sort, p) => GlobalWatched(sort, p)'
        BY <1>5, <1>6, <2>5, StillGlobal
      <4>3. QED
        BY <1>5, <1>7, <4>1, <4>2 DEF GlobalKept
    <3>7. QED
      BY <2>6, <3>5, <3>6 DEF GlobalInv
  <2>9. QED
    BY <2>7, <2>8
<1>10. QED
  BY <1>1, <1>3, <1>8, <1>9

\* A synchronous call enters its watch, which is not a global one.
LEMMA GlobalReturnStep ==
  ASSUME WatcherInv, GlobalInv, Return
  PROVE  GlobalInv'
<1>1. /\ completions \in Seq(Completion) /\ completions' \in Seq(Completion)
      /\ Global \in Clients /\ user.answer.ctx # Global
      /\ Enter(user.answer) /\ user' = Idle
      /\ UNCHANGED <<link, active, completions, m_is_stop, m_need_resume_env, zk, lost>>
  BY DEF Return, server, Clients, WatcherInv, WatcherTypesOK, GlobalInv, UserHas
<1>2. UNCHANGED m_global_watcher_path_type
  BY <1>1 DEF Enter, AddCustomWatcher, registry
<1>3. FewerWait(Global, 0) /\ StillWait(Global, 0) /\ StillArmed(Global)
  BY <1>1, NoCompletion, NoWatch
<1>4. ~UserHas(Global)' /\ (Live' => Live)
  BY <1>1 DEF UserHas, Idle, Live
<1>5. QED
  BY <1>1, <1>2, <1>3, <1>4, GlobalBystander

\* The answer is handled: its watch is registered, and armed or in a later event.
LEMMA GlobalAnswerStep ==
  ASSUME WatcherInv, GlobalInv, ProcAsyncWatcher
  PROVE  GlobalInv'
<1> DEFINE call == completions[1].answer
<1>1. /\ completions \in Seq(Completion) /\ Global \in Clients /\ completions # <<>>
      /\ Head(completions).event = "ANSWER" /\ completions' = Tail(completions)
      /\ Enter(Head(completions).answer) /\ zk.pc = "idle"
      /\ m_global_watcher_path_type \in [Paths -> SUBSET {"get", "exists", "children"}]
      /\ UNCHANGED <<link, active, m_is_stop, m_need_resume_env, user, zk, lost>>
  BY DEF ProcAsyncWatcher, Handles, server, Clients, WatcherInv, WatcherTypesOK, TypeOK
<1>2. /\ completions' \in Seq(Completion) /\ FewerWait(Global, 1) /\ StillWait(Global, 1)
  BY <1>1, AnswerTaken
<1>3. /\ 1 \in DOMAIN completions /\ Head(completions) = completions[1] /\ call \in AnswerType
      /\ Len(completions) \in Nat /\ DOMAIN completions = 1 .. Len(completions)
      /\ completions[1].event = "ANSWER"
  BY <1>1, CompletionsAre
<1>4. StillArmed(Global) /\ ~UserHas(Global)' /\ (Live' => Live)
  BY <1>1, NoWatch DEF GlobalInv, UserHas, Live
<1>5. CASE call.ctx # Global \/ Failed(call)
  <2>1. UNCHANGED m_global_watcher_path_type
    BY <1>1, <1>3, <1>5 DEF Enter, AddCustomWatcher, registry, Failed
  <2>2. QED
    BY <1>1, <1>2, <1>4, <2>1, GlobalBystander
<1>6. CASE call.ctx = Global /\ ~Failed(call)
  <2>1. /\ m_global_watcher_path_type' =
             [m_global_watcher_path_type EXCEPT ![call.path] = @ \union Bits(call.type)]
        /\ call.type \in WatcherTypes /\ call.path \in Paths
    BY <1>1, <1>3, <1>6 DEF Enter, AddGlobal, Failed, AnswerType
  <2>2. AnsweredAt(1)
    BY <1>3, <1>6 DEF AnswerAt, GlobalInv, GlobalAnswered
  <2>3. PICK new \in {"get", "children"}, path \in Paths : new = Kind(call.type) /\ path = call.path
    BY <2>1 DEF Kind
  <2>4. Watched(new, path, Global)
    BY <2>2, <2>3 DEF AnsweredAt, Watched
  <2>5. ASSUME NEW p \in Paths, NEW kind \in {"get", "children"},
               kind \in m_global_watcher_path_type'[p]
        PROVE  kind \in m_global_watcher_path_type[p] \/ (p = path /\ kind = new)
    <3>1. kind \in Bits(call.type) => kind = new
      BY <2>1, <2>3 DEF Bits, Kind, WatcherTypes
    <3>2. QED
      BY <1>1, <2>1, <2>3, <2>5, <3>1
  <2>6. GlobalAnswered'
    BY <1>1, <1>2, <1>4, AnswersKept, StillLater DEF GlobalInv
  <2>7. ASSUME Global \notin m_is_stop', NEW p \in Paths, NEW kind \in {"get", "children"}
        PROVE  GlobalKept(p, kind)'
    <3>1. GlobalKept(p, kind)
      BY <1>1, <2>7 DEF GlobalInv
    <3>2. GlobalWatched(kind, p) => GlobalWatched(kind, p)'
      BY <1>1, <1>2, <1>4, StillGlobal
    <3>3. p = path /\ kind = new => GlobalWatched(kind, p)'
      BY <2>4, <3>2 DEF GlobalWatched
    <3>4. QED
      BY <1>1, <1>4, <2>5, <3>1, <3>2, <3>3 DEF GlobalKept
  <2>8. QED
    BY <1>4, <2>6, <2>7 DEF GlobalInv
<1>7. QED
  BY <1>5, <1>6

\* When Global is stopped its events are dropped, and only the answers count.
LEMMA GlobalStoppedStep ==
  ASSUME WatcherInv, GlobalInv, InnerWatcherStopped
  PROVE  GlobalInv'
<1>1. PICK ctx \in m_is_stop : Deliver(ctx)
  BY DEF InnerWatcherStopped
<1>2. /\ completions \in Seq(Completion) /\ ctx \in Clients /\ Global \in Clients
      /\ Handles(NodeEvents \union SessionEvents)
      /\ UNCHANGED <<link, active, m_global_watcher_path_type, m_is_stop, m_need_resume_env,
                     user, zk, lost>>
  BY <1>1 DEF InnerWatcherStopped, server, registry, contexts, Clients, WatcherInv,
              WatcherTypesOK, TypeOK
<1>3. /\ completions' \in Seq(Completion)
      /\ \E d \in {0, 1} :
           /\ FewerWait(Global, d) /\ (Global # ctx => StillWait(Global, d))
           /\ \A k \in DOMAIN completions : k > 1 => k - d \in DOMAIN completions'
                /\ completions'[k - d] = completions[k]
  BY <1>1, <1>2, DeliverSays
<1>4. PICK d \in {0, 1} :
        /\ FewerWait(Global, d) /\ (Global # ctx => StillWait(Global, d))
        /\ \A k \in DOMAIN completions : k > 1 => k - d \in DOMAIN completions'
             /\ completions'[k - d] = completions[k]
  BY <1>3
<1>5. StillArmed(Global) /\ ~UserHas(Global)' /\ (Live' => Live)
  BY <1>2, NoWatch DEF GlobalInv, UserHas, Live
<1>6. CASE ctx # Global
  BY <1>2, <1>3, <1>4, <1>5, <1>6, GlobalBystander
<1>7. CASE ctx = Global
  <2>1. LaterWait(d)
    BY <1>4 DEF LaterWait, EventAt
  <2>2. GlobalAnswered'
    BY <1>2, <1>3, <1>4, <1>5, <2>1, AnswersKept DEF GlobalInv
  <2>3. QED
    BY <1>2, <1>5, <1>7, <2>2 DEF GlobalInv
<1>8. QED
  BY <1>6, <1>7

\* A new session has no answers to wait for, and is not live yet.
LEMMA GlobalReconnectStep ==
  ASSUME WatcherInv, GlobalInv, Reconnect
  PROVE  GlobalInv'
<1>1. /\ zk.pc = "idle" /\ zk' = zk /\ m_need_resume_env' = TRUE
      /\ completions' = <<[event |-> "CONNECTED", ctxs |-> {Global}]>>
      /\ UNCHANGED user
  BY DEF Reconnect, Handles
<1>2. \A k \in DOMAIN completions' : completions'[k].event = "CONNECTED"
  BY <1>1
<1>3. GlobalAnswered'
  BY <1>2 DEF GlobalAnswered, AnswerAt
<1>4. \A path \in Paths, kind \in {"get", "children"} : GlobalKept(path, kind)'
  BY <1>1 DEF GlobalKept, Live
<1>5. QED
  BY <1>1, <1>3, <1>4 DEF GlobalInv, UserHas

\* All that is registered is taken up to be armed again.
LEMMA GlobalConnectedStep ==
  ASSUME WatcherInv, GlobalInv, ConnectedEvent
  PROVE  GlobalInv'
<1>1. /\ completions \in Seq(Completion) /\ Global \in Clients
      /\ m_global_watcher_path_type \in [Paths -> SUBSET {"get", "exists", "children"}]
      /\ Handles(NodeEvents \union SessionEvents) /\ Deliver(Global)
      /\ Head(completions).event \notin NodeEvents /\ zk.pc = "idle"
      /\ UNCHANGED <<link, active, m_global_watcher_path_type, m_is_stop, m_need_resume_env,
                     user, lost>>
  BY DEF ConnectedEvent, Handles, NodeEvents, SessionEvents, server, registry, contexts, Clients,
         WatcherInv, WatcherTypesOK, TypeOK
<1>2. zk' = IF m_need_resume_env THEN [pc |-> "global", todo |-> GlobalWatches] ELSE zk
  BY DEF ConnectedEvent
<1>3. /\ completions' \in Seq(Completion)
      /\ \E d \in {0, 1} : FewerWait(Global, d) /\ StillWait(Global, d)
  BY <1>1, DeliverSays
<1>4. PICK d \in {0, 1} : FewerWait(Global, d) /\ StillWait(Global, d)
  BY <1>3
<1>5. StillArmed(Global) /\ ~UserHas(Global)' /\ (Live' => Live)
  BY <1>1, NoWatch DEF GlobalInv, UserHas, Live
<1>6. CASE ~m_need_resume_env
  BY <1>1, <1>2, <1>3, <1>4, <1>5, <1>6, GlobalBystander
<1>7. CASE m_need_resume_env
  <2>1. zk'.pc = "global" /\ zk'.todo = GlobalWatches /\ ~Live'
    BY <1>1, <1>2, <1>7 DEF Live
  <2>2. ASSUME NEW path \in Paths, "get" \in m_global_watcher_path_type[path]
        PROVE  \E w \in GlobalWatches : w[1] = path /\ Kind(w[2]) = "get"
    <3>1. Has(path, "GET")
      BY <2>2 DEF Has, Bits
    <3>2. CASE Has(path, "EXISTS")
      <4>1. <<path, "EXISTS", Global>> \in GlobalWatches
        BY <3>2 DEF GlobalWatches
      <4>2. QED
        BY <4>1 DEF Kind
    <3>3. CASE ~Has(path, "EXISTS")
      <4>1. <<path, "GET", Global>> \in GlobalWatches
        BY <3>1, <3>3 DEF GlobalWatches
      <4>2. QED
        BY <4>1 DEF Kind
    <3>4. QED
      BY <3>2, <3>3
  <2>3. ASSUME NEW path \in Paths, "children" \in m_global_watcher_path_type[path]
        PROVE  \E w \in GlobalWatches : w[1] = path /\ Kind(w[2]) = "children"
    <3>1. Has(path, "GET_CHILDREN")
      BY <2>3 DEF Has, Bits
    <3>2. <<path, "GET_CHILDREN", Global>> \in GlobalWatches
      BY <3>1 DEF GlobalWatches
    <3>3. QED
      BY <3>2 DEF Kind
  <2>4. \A path \in Paths, kind \in {"get", "children"} : GlobalKept(path, kind)'
    BY <1>1, <2>1, <2>2, <2>3 DEF GlobalKept
  <2>5. GlobalAnswered'
    BY <1>1, <1>3, <1>4, <1>5, AnswersKept, StillLater DEF GlobalInv
  <2>6. QED
    BY <1>5, <2>4, <2>5 DEF GlobalInv
<1>8. QED
  BY <1>6, <1>7

\* One of them is armed, or noted as lost.
LEMMA GlobalResumeStep ==
  ASSUME WatcherInv, GlobalInv, ResumeWatch
  PROVE  GlobalInv'
<1>1. PICK w \in zk.todo, rc \in Codes :
        /\ SetWatch(w[2], w[1], w[3], rc, 0)
        /\ zk' = [zk EXCEPT !.todo = @ \ {w}]
        /\ lost' = IF Success(w[2], rc) THEN lost ELSE lost \union {w}
  BY DEF ResumeWatch
<1>2. /\ active \in [Tables -> SUBSET Watches] /\ completions \in Seq(Completion)
      /\ Global \in Clients
      /\ zk.pc \in {"global", "custom"} /\ m_need_resume_env
      /\ UNCHANGED <<link, completions, m_global_watcher_path_type, m_is_stop,
                     m_need_resume_env, user>>
  BY DEF ResumeWatch, Resuming, server, registry, contexts, Clients,
         WatcherInv, WatcherTypesOK, TypeOK, ResumeQuiet
<1>3. /\ zk.todo \in SUBSET (Paths \X WatcherTypes \X Clients)
      /\ w[1] \in Paths /\ w[2] \in WatcherTypes /\ w[3] \in Clients /\ w = <<w[1], w[2], w[3]>>
  BY <1>2, ThreadsTyped
<1>4. zk'.pc = zk.pc /\ zk'.todo = zk.todo \ {w}
  <2>1. zk \in [pc : {"global", "custom"}, todo : SUBSET (Paths \X WatcherTypes \X Clients)]
    BY <1>2 DEF WatcherInv, WatcherTypesOK, ZkType, Idle
  <2>2. QED
    BY <1>1, <2>1
<1>5. /\ FewerWait(Global, 0) /\ StillWait(Global, 0) /\ completions' \in Seq(Completion)
      /\ StillArmed(Global) /\ lost \subseteq lost'
  BY <1>1, <1>2, <1>3, NoCompletion, OthersArmed
<1>6. ~UserHas(Global)' /\ ~Live'
  BY <1>2 DEF GlobalInv, UserHas, Live
<1>7. GlobalAnswered'
  BY <1>2, <1>5, AnswersKept, StillLater DEF GlobalInv
<1>8. ASSUME Global \notin m_is_stop', NEW path \in Paths, NEW kind \in {"get", "children"}
      PROVE  GlobalKept(path, kind)'
  <2>1. GlobalKept(path, kind)
    BY <1>2, <1>8 DEF GlobalInv
  <2>2. GlobalWatched(kind, path) => GlobalWatched(kind, path)'
    BY <1>5, StillGlobal
  <2>3. CASE zk.pc = "custom"
    BY <1>2, <1>4, <1>6, <2>1, <2>2, <2>3 DEF GlobalKept
  <2>4. CASE zk.pc = "global"
    <3>1. w[3] = Global
      BY <2>4 DEF WatcherInv, ResumeQuiet
    <3>2. w[1] = path /\ Kind(w[2]) = kind => GlobalWatched(kind, path)'
      <4>1. CASE Success(w[2], rc)
        <5>1. \E t \in TablesFor(Kind(w[2])) : <<w[1], w[3]>> \in active'[t]
          BY <1>1, <1>2, <1>3, <4>1, SetWatchSays
        <5>2. QED
          BY <3>1, <5>1 DEF GlobalWatched, Watched, Armed
      <4>2. CASE ~Success(w[2], rc)
        BY <1>1, <3>1, <4>2 DEF GlobalWatched
      <4>3. QED
        BY <4>1, <4>2
    <3>3. QED
      BY <1>2, <1>4, <1>6, <2>1, <2>2, <2>4, <3>2 DEF GlobalKept
  <2>5. QED
    BY <1>2, <2>3, <2>4
<1>9. QED
  BY <1>6, <1>7, <1>8 DEF GlobalInv

\* ReconnectResumeEnv is through with the global watches, or at its end.
LEMMA GlobalResumedStep ==
  ASSUME WatcherInv, GlobalInv, ResumeCustom \/ ResumeEnd
  PROVE  GlobalInv'
<1>1. /\ completions \in Seq(Completion) /\ Global \in Clients
      /\ UNCHANGED <<link, active, completions, m_global_watcher_path_type, m_is_stop, user, lost>>
  BY DEF ResumeCustom, ResumeEnd, server, registry, contexts, Clients, WatcherInv, WatcherTypesOK
<1>2. /\ FewerWait(Global, 0) /\ StillWait(Global, 0) /\ completions' \in Seq(Completion)
      /\ StillArmed(Global) /\ ~UserHas(Global)'
  BY <1>1, NoCompletion, NoWatch DEF GlobalInv, UserHas
<1>3. GlobalAnswered'
  BY <1>1, <1>2, AnswersKept, StillLater DEF GlobalInv
<1>4. /\ zk'.pc # "global"
      /\ (zk.pc = "global" /\ zk.todo = {}) \/ zk.pc = "custom"
  BY DEF ResumeCustom, ResumeEnd, Idle
<1>5. ASSUME Global \notin m_is_stop', NEW path \in Paths, NEW kind \in {"get", "children"}
      PROVE  GlobalKept(path, kind)'
  <2>1. GlobalKept(path, kind)
    BY <1>1, <1>5 DEF GlobalInv
  <2>2. GlobalWatched(kind, path) => GlobalWatched(kind, path)'
    BY <1>1, <1>2, StillGlobal
  <2>3. QED
    BY <1>1, <1>4, <2>1, <2>2 DEF GlobalKept
<1>6. QED
  BY <1>2, <1>3, <1>5 DEF GlobalInv

\* InnerWatcher handles an event of a custom watcher.
LEMMA GlobalCustomStep ==
  ASSUME WatcherInv, GlobalInv, CustomWatcher
  PROVE  GlobalInv'
<1> DEFINE path == Head(completions).path
<1>1. PICK ctx \in Contexts \ m_is_stop :
        /\ Deliver(ctx)
        /\ m_is_stop' \in {m_is_stop, m_is_stop \union {ctx}}
        /\ UNCHANGED active \/ \E rc \in Codes : SetWatch(m_watcher_type[ctx], path, ctx, rc, 0)
        /\ zk'.pc = "callback"
  BY DEF CustomWatcher, Called
<1>2. /\ active \in [Tables -> SUBSET Watches] /\ completions \in Seq(Completion)
      /\ ctx \in Clients /\ ctx # Global /\ Global \in Clients
      /\ Handles(NodeEvents \union SessionEvents) /\ Head(completions).event \in NodeEvents
      /\ UNCHANGED <<link, m_global_watcher_path_type, m_need_resume_env, user, lost>>
  BY GlobalAssumption DEF CustomWatcher, Handles, server, registry, Clients,
     WatcherInv, WatcherTypesOK, TypeOK
<1>3. m_watcher_type[ctx] \in WatcherTypes /\ path \in Paths
  <2>1. 1 \in DOMAIN completions /\ Head(completions) = completions[1]
    BY <1>2, CompletionsAre DEF Handles
  <2>2. EventAt(1, ctx)
    BY <1>1, <1>2, <2>1 DEF EventAt, Deliver
  <2>3. QED
    BY <2>1, <2>2, EventTyped
<1> HIDE DEF path
<1>4. /\ completions' \in Seq(Completion)
      /\ \E d \in {0, 1} : FewerWait(Global, d) /\ StillWait(Global, d)
  BY <1>1, <1>2, DeliverSays
<1>5. PICK d \in {0, 1} : FewerWait(Global, d) /\ StillWait(Global, d)
  BY <1>4
<1>6. StillArmed(Global)
  BY <1>1, <1>2, <1>3, NoWatch, OthersArmed
<1>7. ~UserHas(Global)' /\ (Live' => Live)
  BY <1>2 DEF GlobalInv, UserHas, Live
<1>8. QED
  BY <1>1, <1>2, <1>4, <1>5, <1>6, <1>7, GlobalBystander

\* The first event has been delivered to Global.
LEMMA OthersWatched ==
  ASSUME completions \in Seq(Completion), NEW d \in {0, 1}, StillArmed(Global), LaterWait(d),
         lost \subseteq lost', NEW kind, NEW path \in Paths,
         GlobalWatched(kind, path), ~Fires(1, kind, path, Global)
  PROVE  GlobalWatched(kind, path)'
<1>1. DOMAIN completions \subseteq Nat \ {0} /\ TablesFor(kind) \subseteq Tables
  BY LenProperties DEF TablesFor, Tables
<1>2. CASE \E w \in lost : w[1] = path /\ w[3] = Global
  BY <1>2 DEF GlobalWatched
<1>3. CASE Armed(TablesFor(kind), path, Global)
  BY <1>1, <1>3 DEF GlobalWatched, Watched, Armed, StillArmed
<1>4. CASE \E k \in DOMAIN completions : Fires(k, kind, path, Global)
  <2>1. PICK k \in DOMAIN completions : Fires(k, kind, path, Global)
    BY <1>4
  <2>2. k > 1
    BY <1>1, <2>1
  <2>3. k - d \in DOMAIN completions' /\ Fires(k - d, kind, path, Global)'
    BY <2>1, <2>2 DEF Fires, LaterWait
  <2>4. QED
    BY <2>3 DEF GlobalWatched, Watched
<1>5. QED
  BY <1>2, <1>3, <1>4 DEF GlobalWatched, Watched

\* What an event ends of the registered watches is armed again, or all are stopped.
LEMMA AgainSays ==
  ASSUME WatcherInv, NEW path \in Paths, NEW event \in NodeEvents, NEW kind \in {"get", "children"}
  PROVE  /\ Again(path, event) \in WatcherTypes \union {"none"}
         /\ kind \in Remaining(path, event) => kind \in m_global_watcher_path_type[path]
         /\ /\ event \in EventsFor(kind) /\ kind \in Remaining(path, event)
            /\ Again(path, event) # "none"
            => Kind(Again(path, event)) = kind
<1>1. Again(path, event) \in WatcherTypes \union {"none"}
  BY DEF Again, WatcherTypes
<1>2. Bits("EXISTS") = {"get", "exists"}
  BY DEF Bits
<1>3. kind \in Remaining(path, event) => kind \in m_global_watcher_path_type[path]
  BY <1>2 DEF Remaining, Has
<1>4. ASSUME event \in EventsFor(kind), kind \in Remaining(path, event),
             Again(path, event) # "none"
      PROVE  Kind(Again(path, event)) = kind
  <2>1. CASE kind = "get"
    <3>1. event # "CHILD"
      BY <1>4, <2>1 DEF EventsFor
    <3>2. Again(path, event) \in {"EXISTS", "GET", "none"}
      BY <3>1 DEF Again
    <3>3. QED
      BY <1>4, <2>1, <3>2 DEF Kind
  <2>2. CASE kind = "children"
    <3>1. event \in {"CHILD", "DELETED"}
      BY <1>4, <2>2 DEF EventsFor
    <3>2. CASE event = "CHILD"
      <4>1. Again(path, event) \in {"GET_CHILDREN", "none"}
        BY <3>2 DEF Again
      <4>2. QED
        BY <1>4, <2>2, <4>1 DEF Kind
    <3>3. CASE event = "DELETED"
      <4>1. Has(path, "EXISTS")
        BY <1>4, <3>3 DEF Again
      <4>2. QED
        BY <1>2, <1>4, <2>2, <3>3, <4>1 DEF Remaining
    <3>4. QED
      BY <3>1, <3>2, <3>3
  <2>3. QED
    BY <2>1, <2>2
<1>5. QED
  BY <1>1, <1>3, <1>4

\* InnerWatcher handles an event of the global watches.
LEMMA GlobalEventStep ==
  ASSUME WatcherInv, GlobalInv, GlobalWatcherUnknown \/ GlobalWatcher
  PROVE  GlobalInv'
<1>1. /\ active \in [Tables -> SUBSET Watches] /\ completions \in Seq(Completion)
      /\ m_global_watcher_path_type \in [Paths -> SUBSET {"get", "exists", "children"}]
      /\ Global \in Clients /\ Global \notin m_is_stop /\ zk.pc = "idle"
      /\ Handles(NodeEvents \union SessionEvents) /\ Deliver(Global)
      /\ Head(completions).event \in NodeEvents
      /\ UNCHANGED <<link, m_need_resume_env, user, lost>>
  BY DEF GlobalWatcherUnknown, GlobalWatcher, Handles, server, registry,
         contexts, Clients, WatcherInv, WatcherTypesOK, TypeOK
<1>2. PICK path \in Paths, event \in NodeEvents :
        /\ path = Head(completions).path /\ event = Head(completions).event
        /\ path = completions[1].path /\ event = completions[1].event
  BY <1>1, CompletionsAre DEF Handles
<1>3. PICK again \in WatcherTypes \union {"none"} : again = Again(path, event)
  BY AgainSays
<1>4. \/ /\ m_global_watcher_path_type[path] = {} /\ UNCHANGED m_global_watcher_path_type
         /\ UNCHANGED <<active, m_is_stop, zk>>
      \/ /\ m_global_watcher_path_type' =
              [m_global_watcher_path_type EXCEPT ![path] = Remaining(path, event)]
         /\ zk'.pc = "callback"
         /\ \/ UNCHANGED active /\ Global \in m_is_stop'
            \/ \E rc \in Codes :
                 /\ again # "none" /\ SetWatch(again, path, Global, rc, 0)
                 /\ Success(again, rc) \/ Global \in m_is_stop'
  BY <1>2, <1>3 DEF GlobalWatcherUnknown, GlobalWatcher, Called, registry, contexts
<1>5. /\ completions' \in Seq(Completion)
      /\ \E d \in {0, 1} :
           /\ FewerWait(Global, d)
           /\ \A k \in DOMAIN completions : k > 1 => k - d \in DOMAIN completions'
                /\ completions'[k - d] = completions[k]
  BY <1>1, DeliverSays
<1>6. PICK d \in {0, 1} :
        /\ FewerWait(Global, d)
        /\ \A k \in DOMAIN completions : k > 1 => k - d \in DOMAIN completions'
             /\ completions'[k - d] = completions[k]
  BY <1>5
<1>7. LaterWait(d)
  BY <1>6 DEF LaterWait, EventAt
<1>8. StillArmed(Global) /\ ~UserHas(Global)' /\ (Live' => Live)
  <2>1. StillArmed(Global)
    BY <1>1, <1>4, NoWatch, OthersArmed
  <2>2. ~UserHas(Global)' /\ (Live' => Live)
    BY <1>1 DEF GlobalInv, UserHas, Live
  <2>3. QED
    BY <2>1, <2>2
<1>9. GlobalAnswered'
  BY <1>1, <1>5, <1>6, <1>7, <1>8, AnswersKept DEF GlobalInv
<1>10. zk'.pc \notin {"global", "custom"}
  BY <1>1, <1>4
<1>11. ASSUME Global \notin m_is_stop', NEW p \in Paths, NEW kind \in {"get", "children"},
              kind \in m_global_watcher_path_type'[p], Live'
       PROVE  GlobalWatched(kind, p)'
  <2>1. kind \in m_global_watcher_path_type[p] /\ (p = path => kind \in m_global_watcher_path_type'[path])
    BY <1>1, <1>4, <1>11, AgainSays
  <2>2. GlobalWatched(kind, p)
    BY <1>1, <1>8, <1>11, <2>1 DEF GlobalInv, GlobalKept
  <2>3. CASE ~Fires(1, kind, p, Global)
    BY <1>1, <1>7, <1>8, <2>2, <2>3, OthersWatched
  <2>4. CASE Fires(1, kind, p, Global)
    <3>1. p = path /\ event \in EventsFor(kind)
      BY <1>2, <2>4 DEF Fires
    <3>2. m_global_watcher_path_type[path] # {}
      BY <2>1, <3>1
    <3>3. /\ kind \in Remaining(path, event)
          /\ again \in WatcherTypes
          /\ \E rc \in Codes : SetWatch(again, path, Global, rc, 0) /\ Success(again, rc)
      BY <1>1, <1>3, <1>4, <1>11, <3>1, <3>2
    <3>4. Kind(again) = kind
      <4>1. again # "none"
        BY <3>3 DEF WatcherTypes
      <4>2. QED
        BY <1>3, <3>1, <3>3, <4>1, AgainSays
    <3>5. \E t \in TablesFor(Kind(again)) : <<path, Global>> \in active'[t]
      BY <1>1, <3>3, SetWatchSays
    <3>6. Armed(TablesFor(kind), p, Global)'
      BY <3>1, <3>4, <3>5 DEF Armed
    <3>7. QED
      BY <3>6 DEF GlobalWatched, Watched
  <2>5. QED
    BY <2>3, <2>4
<1>12. QED
  BY <1>8, <1>9, <1>10, <1>11 DEF GlobalInv, GlobalKept

\* The user's function ends: watches of a path may be erased, and none is added.
LEMMA GlobalCallbackStep ==
  ASSUME WatcherInv, GlobalInv, Callback
  PROVE  GlobalInv'
<1>1. /\ active \in [Tables -> SUBSET Watches] /\ completions \in Seq(Completion)
      /\ m_global_watcher_path_type \in [Paths -> SUBSET {"get", "exists", "children"}]
      /\ Global \in Clients /\ zk' = Idle /\ zk.path \in Paths
      /\ UNCHANGED <<link, completions, m_need_resume_env, user, lost>>
  BY ThreadsTyped DEF Callback, server, Clients, WatcherInv, WatcherTypesOK, TypeOK
<1>2. /\ FewerWait(Global, 0) /\ StillWait(Global, 0) /\ completions' \in Seq(Completion)
  BY <1>1, NoCompletion
<1>3. /\ ~UserHas(Global)' /\ (Live' => Live) /\ zk'.pc = "idle"
  BY <1>1 DEF GlobalInv, UserHas, Live, Idle
<1>4. \A p \in Paths, kind \in {"get", "children"} :
        kind \in m_global_watcher_path_type'[p] => kind \in m_global_watcher_path_type[p]
  BY <1>1 DEF Callback, registry
<1>5. Global \in m_is_stop => Global \in m_is_stop'
  BY DEF Callback
<1>6. UNCHANGED active \/ (zk.ctx # Global /\ DeleteWatcher(zk.event, zk.path, zk.ctx))
  BY DEF Callback
<1>7. StillArmed(Global)
  BY <1>1, <1>6, NoWatch DEF DeleteWatcher, StillArmed
<1>8. QED
  BY <1>1, <1>2, <1>3, <1>4, <1>5, <1>7, GlobalBystander

LEMMA GlobalExpireStep ==
  ASSUME WatcherInv, GlobalInv, Expire
  PROVE  GlobalInv'
<1>1. PICK x \in [event : {"EXPIRED_SESSION"}, ctxs : SUBSET Clients] :
        completions' = Append(completions, x)
  BY DEF Expire, Clients
<1>2. /\ completions \in Seq(Completion) /\ Global \in Clients /\ link' = "expired"
      /\ UNCHANGED <<active, m_global_watcher_path_type, m_is_stop, m_need_resume_env, user, zk,
                     lost>>
  BY DEF Expire, registry, contexts, Clients, WatcherInv, WatcherTypesOK
<1>3. completions' \in Seq(Completion) /\ FewerWait(Global, 0) /\ StillWait(Global, 0)
  BY <1>1, <1>2, Appended DEF Completion, SessionEvents, NodeEvents
<1>4. StillArmed(Global) /\ ~UserHas(Global)' /\ ~Live'
  BY <1>2, NoWatch DEF GlobalInv, UserHas, Live
<1>5. QED
  BY <1>2, <1>3, <1>4, GlobalBystander

\* A watch that a change takes from the tables is in the last event.
LEMMA GlobalChangeStep ==
  ASSUME WatcherInv, GlobalInv, NEW path \in Paths, NEW event \in NodeEvents, Change(path, event)
  PROVE  GlobalInv'
<1>1. /\ active \in [Tables -> SUBSET Watches] /\ completions \in Seq(Completion)
      /\ Global \in Clients
      /\ UNCHANGED <<link, m_global_watcher_path_type, m_is_stop, m_need_resume_env, user, zk,
                     lost>>
  BY DEF Change, registry, contexts, Clients, WatcherInv, WatcherTypesOK, TypeOK
<1>2. Len(completions) \in Nat /\ DOMAIN completions = 1 .. Len(completions)
  BY <1>1, CompletionsAre
<1>3. PICK m \in Nat : m = Len(completions) + 1
  BY <1>2
<1>4. /\ \A t \in Tables, p \in Paths :
           <<p, Global>> \in active'[t] <=>
             <<p, Global>> \in active[t] /\ ~(p = path /\ t \in TablesOf(event))
      /\ \A k \in DOMAIN completions :
           k \in DOMAIN completions' /\ completions'[k] = completions[k]
      /\ \A k \in DOMAIN completions' : k \notin DOMAIN completions =>
           /\ k = m /\ completions'[k].event = event /\ completions'[k].path = path
           /\ Global \in completions'[k].ctxs <=>
                \E t \in TablesOf(event) : <<path, Global>> \in active[t]
      /\ \A t \in TablesOf(event) : <<path, Global>> \in active[t] => m \in DOMAIN completions'
  BY <1>1, <1>3, ChangeSays
<1>5. ASSUME NEW kind \in {"get", "children"}, NEW p \in Paths,
             Armed(TablesFor(kind), p, Global)
      PROVE  \/ Armed(TablesFor(kind), p, Global)'
             \/ m \in DOMAIN completions' /\ Fires(m, kind, p, Global)'
  <2>1. PICK t \in TablesFor(kind) : <<p, Global>> \in active[t]
    BY <1>5 DEF Armed
  <2>2. t \in Tables
    BY <2>1 DEF TablesFor, Tables
  <2>3. CASE ~(p = path /\ t \in TablesOf(event))
    BY <1>4, <2>1, <2>2, <2>3 DEF Armed
  <2>4. CASE p = path /\ t \in TablesOf(event)
    <3>1. event \in EventsFor(kind)
      BY <2>1, <2>4 DEF TablesFor, TablesOf, EventsFor, NodeEvents
    <3>2. m \in DOMAIN completions' /\ m \notin DOMAIN completions
      BY <1>2, <1>3, <1>4, <2>1, <2>4
    <3>3. /\ completions'[m].event = event /\ completions'[m].path = p
          /\ Global \in completions'[m].ctxs
      BY <1>4, <2>1, <2>4, <3>2
    <3>4. Fires(m, kind, p, Global)'
      BY <3>1, <3>3 DEF Fires, EventAt, EventsFor
    <3>5. QED
      BY <3>2, <3>4
  <2>5. QED
    BY <2>3, <2>4
<1>6. ASSUME NEW j \in DOMAIN completions, NEW kind, NEW p, Fires(j, kind, p, Global)
      PROVE  j \in DOMAIN completions' /\ Fires(j, kind, p, Global)'
  BY <1>4, <1>6 DEF Fires, EventAt
<1>7. ASSUME NEW k \in DOMAIN completions', AnswerAt(k, Global)', ~Failed(completions'[k].answer)
      PROVE  AnsweredAt(k)'
  <2>1. k \in DOMAIN completions /\ completions'[k] = completions[k]
    BY <1>4, <1>7 DEF AnswerAt, NodeEvents
  <2>2. AnsweredAt(k) /\ AnswerAt(k, Global)
    BY <1>7, <2>1 DEF GlobalInv, GlobalAnswered, AnswerAt
  <2>3. PICK call \in AnswerType : call = completions[k].answer /\ call = completions'[k].answer
    BY <1>1, <2>1, <2>2, CompletionsAre DEF AnswerAt
  <2>4. PICK kind \in {"get", "children"} : kind = Kind(call.type)
    BY DEF Kind
  <2>5. \/ Armed(TablesFor(kind), call.path, Global)
        \/ \E j \in DOMAIN completions : j > k /\ Fires(j, kind, call.path, Global)
    BY <2>2, <2>3, <2>4 DEF AnsweredAt
  <2>6. call.path \in Paths /\ m > k
    BY <1>2, <1>3, <2>1 DEF AnswerType
  <2>7. \/ Armed(TablesFor(kind), call.path, Global)'
        \/ \E j \in DOMAIN completions' : j > k /\ Fires(j, kind, call.path, Global)'
    BY <1>5, <1>6, <2>5, <2>6
  <2>8. QED
    BY <2>3, <2>4, <2>7 DEF AnsweredAt
<1>8. ASSUME NEW p \in Paths, NEW kind \in {"get", "children"}, GlobalWatched(kind, p)
      PROVE  GlobalWatched(kind, p)'
  BY <1>1, <1>5, <1>6, <1>8 DEF GlobalWatched, Watched
<1>9. ASSUME Global \notin m_is_stop', NEW p \in Paths, NEW kind \in {"get", "children"}
      PROVE  GlobalKept(p, kind)'
  <2>1. GlobalKept(p, kind)
    BY <1>1, <1>9 DEF GlobalInv
  <2>2. QED
    BY <1>1, <1>8, <2>1 DEF GlobalKept, Live
<1>10. ~UserHas(Global)'
  BY <1>1 DEF GlobalInv, UserHas
<1>11. QED
  BY <1>7, <1>9, <1>10 DEF GlobalInv, GlobalAnswered, Failed

LEMMA GlobalStep ==
  ASSUME WatcherInv, GlobalInv, ResumeWaits, AsynchronousGlobals, [Next]_vars
  PROVE  GlobalInv'
<1>1. CASE UserCall
  <2>1. PICK path \in Paths, ctx \in Contexts \union {Global} :
          \/ Exists(path, ctx) \/ Get(path, ctx) \/ GetChildren(path, ctx)
          \/ AExists(path, ctx) \/ AGet(path, ctx) \/ AGetChildren(path, ctx)
    BY <1>1 DEF UserCall
  <2>2. {"EXISTS", "GET", "GET_CHILDREN"} = WatcherTypes /\ ctx \in Clients
    BY DEF WatcherTypes, Clients
  <2>3. ctx = Global => ~(Exists(path, ctx) \/ Get(path, ctx) \/ GetChildren(path, ctx))
    BY DEF Exists, Get, GetChildren, Synchronous, Watch, AsynchronousGlobals
  <2>4. QED
    BY <2>1, <2>2, <2>3, GlobalCallStep
       DEF Exists, Get, GetChildren, AExists, AGet, AGetChildren
<1>2. CASE Return
  BY <1>2, GlobalReturnStep
<1>3. CASE ZkThread
  BY <1>3, GlobalAnswerStep, GlobalStoppedStep, GlobalReconnectStep, GlobalConnectedStep,
     GlobalResumeStep, GlobalResumedStep, GlobalCustomStep, GlobalEventStep, GlobalCallbackStep
     DEF ZkThread
<1>4. CASE Environment
  BY <1>4, GlobalExpireStep, GlobalChangeStep DEF Environment
<1>5. CASE UNCHANGED vars
  BY <1>5 DEF vars, GlobalInv, UserHas, GlobalAnswered, AnsweredAt, AnswerAt, Failed, GlobalKept,
     GlobalWatched, Watched, Fires, EventAt, Armed, Live
<1>6. QED
  BY <1>1, <1>2, <1>3, <1>4, <1>5 DEF Next

LEMMA GlobalInit == Init => GlobalInv
BY DEF Init, Idle, GlobalInv, UserHas, GlobalAnswered, GlobalKept

\* No global watch is lost either, as long as none has been stopped (they share one
\* context), under the same condition and if the user sets them by asynchronous calls.
THEOREM NoGlobalWatchIsLost ==
  ASSUME ResumeWaits, AsynchronousGlobals PROVE Spec => []GlobalArmed
<1>1. ASSUME WatcherInv, GlobalInv PROVE GlobalArmed
  <2>1. ASSUME Live, Global \notin m_is_stop, NEW path \in Paths, NEW kind \in {"get", "children"},
               kind \in m_global_watcher_path_type[path]
        PROVE  \/ \E w \in lost : w[1] = path /\ w[3] = Global
               \/ Armed(TablesFor(kind), path, Global)
               \/ Pending(EventsFor(kind), path, Global)
    BY <1>1, <2>1 DEF GlobalInv, GlobalKept, GlobalWatched, Watched, Fires, EventAt, Pending
  <2>2. /\ TablesFor("get") = {"node", "exist"} /\ TablesFor("children") = {"child"}
        /\ EventsFor("get") = {"CREATED", "CHANGED", "DELETED"}
        /\ EventsFor("children") = {"CHILD", "DELETED"}
    BY DEF TablesFor, EventsFor
  <2>3. QED
    BY <2>1, <2>2 DEF GlobalArmed
<1>2. WatcherInv /\ GlobalInv /\ [Next]_vars => (WatcherInv /\ GlobalInv)'
  BY WatcherStep, GlobalStep
<1>3. Init => WatcherInv /\ GlobalInv
  BY WatcherInit, GlobalInit
<1>4. QED
  BY <1>1, <1>2, <1>3, PTL DEF Spec
=============================================================================
