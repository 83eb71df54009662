------------------------------ MODULE EchoServer ------------------------------
(***************************************************************************)
(* The servers of CppNetTest.cpp, which CppNet.h gives as the example of   *)
(* CppEpollManager.  The multi-thread server accepts in the main thread    *)
(* and hands each connection to one of its workers in turn; the            *)
(* single-thread server does everything in one loop.  Each peer sends a    *)
(* request, waits for the answer, and may hang up at any time.             *)
(*                                                                         *)
(* A name that ends in _Faulty is a plausible bug in the definition that   *)
(* follows it, on which the properties are tried.                          *)
(***************************************************************************)
EXTENDS CppEpoll, Sequences

CONSTANTS
  Workers,      \* the managers in the order of their thread ids
  MultiConns    \* bound: the peers that connect to the multi-thread server

ASSUME WorkersAssumption ==
  /\ Workers \in Seq(Managers) /\ Workers # <<>>
  /\ Managers = {Workers[i] : i \in DOMAIN Workers}

VARIABLES
  kind,        \* SERVER_TYPE: "multi" or "single"
  gServerStop,
  sockets,     \* the server's own descriptors that are open
  main,        \* where the main thread is
  accepted,    \* the number the main thread has accepted
  clientId,
  clientFds,   \* the numbers the main thread's UniqueFds hold
  asked,       \* peers that wait for an answer
  clobbered    \* history: the main thread has closed a connection of a worker

serverVars == <<kind, gServerStop, sockets, main, accepted, clientId, clientFds,
                asked, clobbered>>
vars == <<kernelVars, managerVars, serverVars>>

Only == Workers[1]   \* the single-thread server's epoll instance and data

Init ==
  /\ InitEpoll
  /\ kind \in {"multi", "single"}
  /\ gServerStop = FALSE
  /\ sockets = {}
  /\ main = "start"
  /\ accepted = None
  /\ clientId = 0
  /\ clientFds = {}
  /\ asked = {}
  /\ clobbered = FALSE

-----------------------------------------------------------------------------
(* The peers.                                                              *)

Connect(c) ==
  /\ conn[c] = "new" /\ "server" \in sockets
  /\ kind = "multi" => c \in MultiConns
  /\ conn' = [conn EXCEPT ![c] = "queued"]
  /\ UNCHANGED <<fdOf, hup, request, reply, managerVars, serverVars>>

Send(c) ==
  /\ conn[c] \in {"queued", "open"} /\ c \notin hup \cup asked
  /\ request' = request \cup {c}
  /\ asked' = asked \cup {c}
  /\ UNCHANGED <<conn, fdOf, hup, reply, managerVars, kind, gServerStop, sockets,
                 main, accepted, clientId, clientFds, clobbered>>

Receive(c) ==
  /\ c \in asked \ hup /\ reply[c] # {}
  /\ asked' = asked \ {c}
  /\ reply' = [reply EXCEPT ![c] = {}]
  /\ UNCHANGED <<conn, fdOf, hup, request, managerVars, kind, gServerStop, sockets,
                 main, accepted, clientId, clientFds, clobbered>>

HangUp(c) ==
  /\ conn[c] \in {"queued", "open"} /\ c \notin hup
  /\ hup' = hup \cup {c}
  /\ UNCHANGED <<conn, fdOf, request, reply, managerVars, serverVars>>

-----------------------------------------------------------------------------
(* What both servers do with a number.                                     *)

\* read() of a number: no descriptor or the end of the stream is a failure.
ReadFails(fd) == fdOf[fd] = None \/ fdOf[fd] \notin request

\* One value for all the connections.
Read_Faulty(m, fd) ==
  /\ request' = request \ {fdOf[fd]}
  /\ data' = [data EXCEPT ![m] = [f \in Fds |-> fdOf[fd]]]
  /\ UNCHANGED <<conn, fdOf, hup, reply>>

Read(m, fd) ==
  /\ request' = request \ {fdOf[fd]}
  /\ data' = [data EXCEPT ![m][fd] = fdOf[fd]]
  /\ UNCHANGED <<conn, fdOf, hup, reply>>

\* write() to a peer that has gone may still succeed.
Write(m, fd) ==
  /\ fdOf[fd] # None
  /\ reply' = [reply EXCEPT ![fdOf[fd]] = @ \cup {data[m][fd]}]
  /\ UNCHANGED <<conn, fdOf, hup, request>>

WriteMayFail(fd) == fdOf[fd] = None \/ fdOf[fd] \in hup

Accept(c) ==
  /\ conn[c] = "queued" /\ FreeFds # {}
  /\ conn' = [conn EXCEPT ![c] = "open"]
  /\ fdOf' = [fdOf EXCEPT ![Lowest(FreeFds)] = c]
  /\ UNCHANGED <<hup, request, reply>>

-----------------------------------------------------------------------------
(* The workers: ServerWorkThead.                                           *)

\* A blocking read waits for a request or for the end of the stream.
ProcRead(m) ==
  /\ kind = "multi" /\ at[m] = "read" /\ ~thrown
  /\ IF ReadFails(Fd(m))
       THEN /\ fdOf[Fd(m)] = None \/ fdOf[Fd(m)] \in hup
            /\ at' = [at EXCEPT ![m] = "del"]
            /\ UNCHANGED <<kernelVars, data>>
       ELSE Read(m, Fd(m)) /\ at' = [at EXCEPT ![m] = "askOut"]
  /\ UNCHANGED <<interest, mFds, batch, cur, thrown, serverVars>>

ProcWrite(m) ==
  /\ kind = "multi" /\ at[m] = "write" /\ ~thrown
  /\ \/ Write(m, Fd(m)) /\ at' = [at EXCEPT ![m] = "askIn"]
     \/ WriteMayFail(Fd(m)) /\ at' = [at EXCEPT ![m] = "del"] /\ UNCHANGED kernelVars
  /\ UNCHANGED <<interest, mFds, batch, cur, data, thrown, serverVars>>

ProcDeleteFd(m) ==
  /\ kind = "multi" /\ at[m] = "delete" /\ ~thrown
  /\ Close(Fd(m))
  /\ data' = [data EXCEPT ![m][Fd(m)] = None]
  /\ at' = [at EXCEPT ![m] = "wait"]
  /\ cur' = [cur EXCEPT ![m] = None]
  /\ UNCHANGED <<hup, request, reply, mFds, batch, thrown, serverVars>>

Manager(m) ==
  /\ kind = "multi"
  /\ EpollWait(m) \/ Dispatch(m) \/ ProcReadEnds(m) \/ ProcWriteEnds(m)
     \/ DelFd(m) \/ DelFdErase(m)
  /\ UNCHANGED serverVars

\* while (!gServerStop), between two calls of Wait.
WorkerExits(m) ==
  /\ kind = "multi" /\ gServerStop /\ main # "start"
  /\ at[m] = "wait" /\ batch[m] = {} /\ ~thrown
  /\ at' = [at EXCEPT ![m] = "exited"]
  /\ UNCHANGED <<kernelVars, interest, mFds, batch, cur, data, thrown, serverVars>>

-----------------------------------------------------------------------------
(* The main thread of the multi-thread server.                             *)

\* CreateServerSocket and CreateEpollFd, whose UniqueFds close what a failure
\* leaves behind, or hand it to those of StartServer.
StartMulti ==
  /\ kind = "multi" /\ main = "start"
  /\ \/ sockets' = {"server", "epoll"} /\ main' = "epoll"
     \/ sockets' = {} /\ main' = "failed"
  /\ UNCHANGED <<kernelVars, managerVars, kind, gServerStop, accepted, clientId,
                 clientFds, asked, clobbered>>

MainAccept(c) ==
  /\ kind = "multi" /\ main = "epoll" /\ ~gServerStop /\ ~thrown
  /\ Accept(c)
  /\ accepted' = Lowest(FreeFds)
  /\ main' = "add"
  /\ UNCHANGED <<managerVars, kind, gServerStop, sockets, clientId, clientFds, asked,
                 clobbered>>

AddClientFd ==
  /\ main = "add" /\ ~thrown
  /\ AddOrModFd(Workers[1 + (clientId % Len(Workers))], accepted, "in")
  /\ main' = "own"
  /\ UNCHANGED <<kernelVars, batch, cur, at, data, kind, gServerStop, sockets, accepted,
                 clientId, clientFds, asked, clobbered>>

\* The main thread keeps nothing.
OwnFd_Faulty ==
  /\ main = "own" /\ ~thrown
  /\ accepted' = None
  /\ clientId' = (clientId + 1) % Len(Workers)
  /\ main' = "epoll"
  /\ UNCHANGED <<kernelVars, managerVars, kind, gServerStop, sockets, clientFds, asked,
                 clobbered>>

\* clientFds[clientFd] = UniqueFd(clientFd): the assignment closes what the entry
\* held, which is this very number when it has been accepted before.
OwnFd ==
  /\ main = "own" /\ ~thrown
  /\ IF accepted \in clientFds
       THEN /\ Close(accepted)
            /\ clobbered' = (clobbered \/ fdOf[accepted] # None)
       ELSE UNCHANGED <<conn, fdOf, interest, clobbered>>
  /\ clientFds' = clientFds \cup {accepted}
  /\ accepted' = None
  /\ clientId' = (clientId + 1) % Len(Workers)
  /\ main' = "epoll"
  /\ UNCHANGED <<hup, request, reply, mFds, batch, cur, at, data, thrown, kind,
                 gServerStop, sockets, asked>>

\* th.join(), then the destructors: every number that clientFds holds is closed,
\* and so is the listening socket with what is in its queue.
MainReturns ==
  /\ kind = "multi" /\ main = "epoll" /\ gServerStop /\ ~thrown
  /\ \A m \in Managers : at[m] = "exited"
  /\ conn' = [c \in Conns |->
                IF conn[c] = "queued" \/ \E fd \in clientFds : fdOf[fd] = c
                  THEN "closed" ELSE conn[c]]
  /\ fdOf' = [fd \in Fds |-> IF fd \in clientFds THEN None ELSE fdOf[fd]]
  /\ interest' = [m \in Managers |-> [c \in Conns |-> "none"]]
  /\ sockets' = {}
  /\ clientFds' = {}
  /\ main' = "done"
  /\ UNCHANGED <<hup, request, reply, mFds, batch, cur, at, data, thrown, kind,
                 gServerStop, accepted, clientId, asked, clobbered>>

-----------------------------------------------------------------------------
(* The single-thread server: one thread, so one step for each event.       *)

\* A failure is logged and the loop runs all the same, on descriptors of -1.
StartSingle ==
  /\ kind = "single" /\ main = "start"
  /\ \/ sockets' = {"server", "epoll"}
     \/ sockets' = {}
  /\ main' = "epoll"
  /\ UNCHANGED <<kernelVars, managerVars, kind, gServerStop, accepted, clientId,
                 clientFds, asked, clobbered>>

SingleWait ==
  /\ kind = "single" /\ main = "epoll" /\ sockets # {} /\ ~gServerStop
  /\ batch[Only] = {} /\ Ready(Only) # {}
  /\ batch' = [batch EXCEPT ![Only] = Ready(Only)]
  /\ UNCHANGED <<kernelVars, interest, mFds, cur, at, data, thrown, serverVars>>

\* The listening socket is an event among the others.
SingleAccept(c) ==
  /\ kind = "single" /\ main = "epoll" /\ (~gServerStop \/ batch[Only] # {})
  /\ Accept(c)
  /\ interest' = [interest EXCEPT ![Only][c] = "in"]
  /\ UNCHANGED <<mFds, batch, cur, at, data, thrown, serverVars>>

\* The loop comes back to an event that it has handled.
Handles_Faulty(event) ==
  /\ kind = "single" /\ main = "epoll"
  /\ event \in batch[Only]
  /\ UNCHANGED batch

\* One event of the batch is handled.
Handles(event) ==
  /\ kind = "single" /\ main = "epoll"
  /\ event \in batch[Only]
  /\ batch' = [batch EXCEPT ![Only] = @ \ {event}]

\* EPOLL_CTL_DEL, then CloseAndClearFd.
CloseAndClearFd(fd) ==
  /\ Close(fd)
  /\ data' = [data EXCEPT ![Only][fd] = None]
  /\ UNCHANGED <<hup, request, reply>>

SingleRead(event) ==
  /\ Handles(event) /\ Branch(event.events) = "read"
  /\ IF ReadFails(event.fd)
       THEN CloseAndClearFd(event.fd)
       ELSE /\ Read(Only, event.fd)
            /\ interest' = [interest EXCEPT ![Only][fdOf[event.fd]] = "out"]
  /\ UNCHANGED <<mFds, cur, at, thrown, serverVars>>

SingleWrite(event) ==
  /\ Handles(event) /\ Branch(event.events) = "write"
  /\ \/ /\ Write(Only, event.fd)
        /\ interest' = [interest EXCEPT ![Only][fdOf[event.fd]] = "inrd"]
        /\ UNCHANGED data
     \/ WriteMayFail(event.fd) /\ CloseAndClearFd(event.fd)
  /\ UNCHANGED <<mFds, cur, at, thrown, serverVars>>

SingleDelete(event) ==
  /\ Handles(event) /\ Branch(event.events) = "del"
  /\ CloseAndClearFd(event.fd)
  /\ UNCHANGED <<mFds, cur, at, thrown, serverVars>>

\* close(serverFd), close(epollFd): the accepted connections stay open.
SingleReturns ==
  /\ kind = "single" /\ main = "epoll" /\ gServerStop /\ batch[Only] = {}
  /\ conn' = [c \in Conns |-> IF conn[c] = "queued" THEN "closed" ELSE conn[c]]
  /\ interest' = [m \in Managers |-> [c \in Conns |-> "none"]]
  /\ sockets' = {}
  /\ main' = "done"
  /\ UNCHANGED <<fdOf, hup, request, reply, mFds, batch, cur, at, data, thrown, kind,
                 gServerStop, accepted, clientId, clientFds, asked, clobbered>>

\* The test stops the server.
StopServer ==
  /\ ~gServerStop /\ main # "start"
  /\ gServerStop' = TRUE
  /\ UNCHANGED <<kernelVars, managerVars, kind, sockets, main, accepted, clientId,
                 clientFds, asked, clobbered>>

-----------------------------------------------------------------------------
Peer(c) == Connect(c) \/ Send(c) \/ Receive(c) \/ HangUp(c)

Worker(m) ==
  Manager(m) \/ ProcRead(m) \/ ProcWrite(m) \/ ProcDeleteFd(m) \/ WorkerExits(m)

Main ==
  \/ StartMulti \/ AddClientFd \/ OwnFd \/ MainReturns
  \/ \E c \in Conns : MainAccept(c)

Single ==
  \/ StartSingle \/ SingleWait \/ SingleReturns
  \/ \E c \in Conns : SingleAccept(c)
  \/ \E event \in batch[Only] :
       SingleRead(event) \/ SingleWrite(event) \/ SingleDelete(event)

Next ==
  \/ \E c \in Conns : Peer(c)
  \/ \E m \in Managers : Worker(m)
  \/ Main \/ Single \/ StopServer

\* The threads run; the peers and the test do as they like.
Spec ==
  /\ Init /\ [][Next]_vars
  /\ \A m \in Managers : WF_vars(Worker(m))
  /\ WF_vars(Main) /\ WF_vars(Single)

-----------------------------------------------------------------------------
(* Properties.                                                             *)

Interested(m) == {fd \in Fds : fdOf[fd] # None /\ interest[m][fdOf[fd]] # "none"}

\* mFds is what the epoll instance holds, but for the number a DelFd is at, so ADD
\* and MOD are chosen right and no exception ends the process: until the main
\* thread closes a connection that it has handed to a worker.
ManagersInSync ==
  clobbered \/
    /\ ~thrown
    /\ kind = "multi" /\ main # "done" =>
         \A m \in Managers :
           mFds[m] = Interested(m) \cup (IF at[m] = "erase" THEN {Fd(m)} ELSE {})

\* An event that waits in a batch, or is handled, is of the connection that has its
\* number now, though numbers are given out again while batches are handled.
EventsAreLive ==
  clobbered \/
    /\ \A m \in Managers : \A event \in batch[m] : fdOf[event.fd] = event.of
    /\ \A m \in Managers : cur[m] # None => fdOf[cur[m].fd] = cur[m].of

\* A peer is answered its own request, once, and only when it waits for it.
AnswersAreOwn ==
  clobbered \/ \A c \in Conns : reply[c] \subseteq {c} /\ (reply[c] # {} => c \in asked)

\* The multi-thread server has closed every connection when it returns.
NothingLeaks == kind = "multi" /\ main = "done" => \A fd \in Fds : fdOf[fd] = None

\* The main thread only passes the accepted connections on: it closes none while
\* the server runs.
MainOnlyAccepts == [][main' # "done" => ~(clobbered' /\ ~clobbered)]_vars

\* A request that was sent to an accepted connection is answered, unless the peer
\* hangs up, the server is stopped or the main thread has closed a connection.
RequestsAnswered ==
  \A c \in Conns :
    conn[c] = "open" /\ c \in asked
      ~> c \notin asked \/ reply[c] # {} \/ c \in hup \/ gServerStop \/ clobbered
=============================================================================
