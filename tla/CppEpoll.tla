------------------------------- MODULE CppEpoll -------------------------------
(***************************************************************************)
(* CppEpollManager of CppNet.h over the kernel's connections: each         *)
(* manager has an epoll instance, the set mFds of the descriptors it       *)
(* believes to be in it, and a thread that runs Wait.  A connection has a  *)
(* number while it is open; the kernel gives a closed number out again.    *)
(*                                                                         *)
(* A name that ends in _Faulty is a plausible bug in the definition that   *)
(* follows it, on which the properties are tried.                          *)
(***************************************************************************)
EXTENDS Naturals, FiniteSets

CONSTANTS
  Conns,      \* connections, each made once by a peer
  Fds,        \* numbers the kernel can give out
  Managers,
  None

ASSUME FdsAssumption == Fds \subseteq Nat /\ None \notin Conns

VARIABLES
  conn,       \* "new", "queued" for accept, "open", or "closed" at this end
  fdOf,       \* the process's descriptor table: number -> connection
  hup,        \* connections whose peer has gone
  request,    \* connections with unread bytes
  reply,      \* the answers on their way to each peer
  interest,   \* the epoll instances: manager -> connection -> events asked for
  mFds,       \* manager -> numbers
  batch,      \* manager -> events that epoll_wait returned, not yet handled
  cur,        \* manager -> the event that is handled
  at,         \* manager -> where its thread is
  data,       \* manager -> number -> the request read (mClientDatas)
  thrown      \* an exception has left the function of a thread

kernelVars == <<conn, fdOf, hup, request, reply>>
managerVars == <<interest, mFds, batch, cur, at, data, thrown>>

Lowest(S) == CHOOSE n \in S : \A m \in S : n <= m

FreeFds == {fd \in Fds : fdOf[fd] = None}

\* close(fd) takes the connection out of every epoll instance; of a number that
\* is not open it fails, and nobody looks.
Close(fd) ==
  IF fdOf[fd] = None
    THEN UNCHANGED <<conn, fdOf, interest>>
    ELSE /\ conn' = [conn EXCEPT ![fdOf[fd]] = "closed"]
         /\ fdOf' = [fdOf EXCEPT ![fd] = None]
         /\ interest' = [m \in Managers |-> [interest[m] EXCEPT ![fdOf[fd]] = "none"]]

\* What epoll_wait reports of a connection, level-triggered.  "in" is EPOLLIN
\* alone, as a connection is first added; "inrd" and "out" have EPOLLRDHUP too.
Events(asked, c) ==
  CASE asked \in {"in", "inrd"} ->
         (IF c \in request \cup hup THEN {"EPOLLIN"} ELSE {})
         \cup (IF asked = "inrd" /\ c \in hup THEN {"EPOLLRDHUP"} ELSE {})
    [] asked = "out" ->
         {"EPOLLOUT"} \cup (IF c \in hup THEN {"EPOLLRDHUP"} ELSE {})
    [] OTHER -> {}

\* An event names the number; "of" is history: the connection it fired for.
Ready(m) ==
  {[fd |-> fd, of |-> fdOf[fd], events |-> Events(interest[m][fdOf[fd]], fdOf[fd])] :
     fd \in {n \in Fds : fdOf[n] # None
                         /\ Events(interest[m][fdOf[n]], fdOf[n]) # {}}}

InitEpoll ==
  /\ conn = [c \in Conns |-> "new"]
  /\ fdOf = [fd \in Fds |-> None]
  /\ hup = {} /\ request = {} /\ reply = [c \in Conns |-> {}]
  /\ interest = [m \in Managers |-> [c \in Conns |-> "none"]]
  /\ mFds = [m \in Managers |-> {}]
  /\ batch = [m \in Managers |-> {}]
  /\ cur = [m \in Managers |-> None]
  /\ at = [m \in Managers |-> "wait"]
  /\ data = [m \in Managers |-> [fd \in Fds |-> None]]
  /\ thrown = FALSE

-----------------------------------------------------------------------------
(* AddOrModFd and DelFd.                                                   *)

\* epoll_ctl ADD fails on a connection that is there, MOD and DEL on one that is
\* not, and all of them on a number that is not open.
CtlFails(m, fd, op) ==
  \/ fdOf[fd] = None
  \/ (op = "add") # (interest[m][fdOf[fd]] = "none")

\* Under mFdLock.  The number is in mFds even when ADD fails.
AddOrModFd(m, fd, events) ==
  /\ mFds' = [mFds EXCEPT ![m] = @ \cup {fd}]
  /\ IF CtlFails(m, fd, IF fd \in mFds[m] THEN "mod" ELSE "add")
       THEN thrown' = TRUE /\ UNCHANGED interest
       ELSE /\ interest' = [interest EXCEPT ![m][fdOf[fd]] = events]
            /\ UNCHANGED thrown

Fd(m) == cur[m].fd

\* The first half of DelFd, without the lock.
DelFd(m) ==
  /\ at[m] = "del" /\ ~thrown
  /\ IF CtlFails(m, Fd(m), "del")
       THEN thrown' = TRUE /\ UNCHANGED <<interest, at>>
       ELSE /\ interest' = [interest EXCEPT ![m][fdOf[Fd(m)]] = "none"]
            /\ at' = [at EXCEPT ![m] = "erase"]
            /\ UNCHANGED thrown
  /\ UNCHANGED <<kernelVars, mFds, batch, cur, data>>

\* The second half forgets to erase.
DelFdErase_Faulty(m) ==
  /\ at[m] = "erase" /\ ~thrown
  /\ at' = [at EXCEPT ![m] = "delete"]
  /\ UNCHANGED <<kernelVars, interest, mFds, batch, cur, data, thrown>>

\* The second half, under mFdLock.
DelFdErase(m) ==
  /\ at[m] = "erase" /\ ~thrown
  /\ mFds' = [mFds EXCEPT ![m] = @ \ {Fd(m)}]
  /\ at' = [at EXCEPT ![m] = "delete"]
  /\ UNCHANGED <<kernelVars, interest, batch, cur, data, thrown>>

-----------------------------------------------------------------------------
(* Wait: the reading, writing and deleting functions are parameters of the *)
(* manager; Fails(m) is their failing, Does(m) their effect.               *)

\* epoll_wait, once the last batch is done; mEvents has room for every
\* descriptor in mFds.  A number of 0 events is a step that changes nothing.
EpollWait(m) ==
  /\ at[m] = "wait" /\ batch[m] = {} /\ ~thrown
  /\ Ready(m) # {}
  /\ batch' = [batch EXCEPT ![m] = Ready(m)]
  /\ UNCHANGED <<kernelVars, interest, mFds, cur, at, data, thrown>>

\* An event with EPOLLRDHUP and without EPOLLIN is written to all the same.
Branch(events) ==
  CASE "EPOLLIN" \in events /\ "EPOLLRDHUP" \in events -> "del"
    [] "EPOLLIN" \in events /\ "EPOLLRDHUP" \notin events -> "read"
    [] "EPOLLIN" \notin events /\ "EPOLLOUT" \in events -> "write"
    [] OTHER -> "wait"

Dispatch(m) ==
  /\ at[m] = "wait" /\ ~thrown
  /\ \E event \in batch[m] :
       /\ batch' = [batch EXCEPT ![m] = @ \ {event}]
       /\ cur' = [cur EXCEPT ![m] = event]
       /\ at' = [at EXCEPT ![m] = Branch(event.events)]
  /\ UNCHANGED <<kernelVars, interest, mFds, data, thrown>>

\* After readFunc or writeFunc succeeded: ask for the other direction.
AskNext(m, events) ==
  /\ ~thrown
  /\ AddOrModFd(m, Fd(m), events)
  /\ at' = [at EXCEPT ![m] = "wait"]
  /\ cur' = [cur EXCEPT ![m] = None]
  /\ UNCHANGED <<kernelVars, batch, data>>

\* EPOLLRDHUP alone is asked for.
ProcReadEnds_Faulty(m) == at[m] = "askOut" /\ AskNext(m, "rdhup")
ProcReadEnds(m) == at[m] = "askOut" /\ AskNext(m, "out")
ProcWriteEnds(m) == at[m] = "askIn" /\ AskNext(m, "inrd")
=============================================================================
