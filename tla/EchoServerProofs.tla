-------------------------- MODULE EchoServerProofs --------------------------
(***************************************************************************)
(* The safety properties of EchoServer, for any connections, numbers and   *)
(* workers, and both servers.                                              *)
(***************************************************************************)
EXTENDS EchoServer, TLAPS, WellFoundedInduction

\* An event says to read or to write.
EventType ==
  {event \in [fd : Fds, of : Conns, events : SUBSET {"EPOLLIN", "EPOLLOUT", "EPOLLRDHUP"}] :
     event.events \cap {"EPOLLIN", "EPOLLOUT"} # {}}

\* Where a worker has an event in its hands; until DelFd the connection is in its
\* epoll instance, and after it in none.
Serving == {"read", "write", "askOut", "askIn", "del"}
Leaving == {"erase", "delete"}

KernelTypes ==
  /\ conn \in [Conns -> {"new", "queued", "open", "closed"}]
  /\ fdOf \in [Fds -> Conns \cup {None}]
  /\ request \subseteq Conns
  /\ reply \in [Conns -> SUBSET (Conns \cup {None})]
  /\ interest \in [Managers -> [Conns -> {"none", "in", "inrd", "out"}]]

ServerTypes ==
  /\ mFds \in [Managers -> SUBSET Fds]
  /\ batch \in [Managers -> SUBSET EventType]
  /\ cur \in [Managers -> EventType \cup {None}]
  /\ at \in [Managers -> Serving \cup Leaving \cup {"wait", "exited"}]
  /\ data \in [Managers -> [Fds -> Conns \cup {None}]]
  /\ thrown \in BOOLEAN /\ clobbered \in BOOLEAN
  /\ kind \in {"multi", "single"}
  /\ main \in {"start", "failed", "epoll", "add", "own", "done"}
  /\ accepted \in Fds \cup {None} /\ (main \in {"add", "own"} => accepted \in Fds)
  /\ clientId \in Nat /\ clientFds \subseteq Fds
  /\ \A m \in Managers : at[m] \in Serving \cup Leaving => cur[m] \in EventType
  /\ \A m \in Managers : at[m] \in {"wait", "exited"} => cur[m] = None
  /\ \A m \in Managers : at[m] = "exited" => batch[m] = {}

\* A number is of one open connection; a connection without a number is in no epoll
\* instance.
NumbersOK ==
  /\ \A fd \in Fds : fdOf[fd] # None => conn[fdOf[fd]] = "open"
  /\ \A fd, other \in Fds : fdOf[fd] = fdOf[other] /\ fdOf[fd] # None => fd = other
  /\ \A m \in Managers, c \in Conns : interest[m][c] # "none" => \E fd \in Fds : fdOf[fd] = c

\* What the main thread has accepted it owns, or is about to.
Owned ==
  kind = "multi" =>
    /\ \A fd \in Fds :
         fdOf[fd] # None => fd \in clientFds \/ (main \in {"add", "own"} /\ fd = accepted)
    /\ main = "done" => clientFds = {} /\ \A m \in Managers : at[m] = "exited"

\* The single-thread server uses one epoll instance and none of CppEpollManager.
OneThread ==
  kind = "single" =>
    /\ ~thrown
    /\ main \in {"start", "epoll", "done"}
    /\ \A m \in Managers : at[m] = "wait"
    /\ \A m \in Managers \ {Only} :
         batch[m] = {} /\ \A c \in Conns : interest[m][c] = "none"

\* A connection is in one epoll instance.
OneOwner ==
  \A m, n \in Managers, c \in Conns :
    interest[m][c] # "none" /\ interest[n][c] # "none" => m = n

\* An event that waits is of a connection in the manager's epoll instance, by the
\* number it has now; there is one for each number.
BatchOK ==
  \A m \in Managers :
    /\ \A event \in batch[m] :
         /\ fdOf[event.fd] = event.of
         /\ interest[m][event.of] # "none"
         /\ "EPOLLIN" \in event.events \/ interest[m][event.of] = "out"
    /\ \A event, other \in batch[m] : event.fd = other.fd => event = other

\* So is the event that is handled, and nobody else has its number.
Exclusive(m) ==
  /\ fdOf[cur[m].fd] = cur[m].of
  /\ at[m] \in Serving => interest[m][cur[m].of] # "none"
  /\ at[m] \in Leaving => \A n \in Managers : interest[n][cur[m].of] = "none"
  /\ at[m] = "write" => interest[m][cur[m].of] = "out"
  /\ \A event \in batch[m] : event.fd # cur[m].fd
  /\ \A n \in Managers \ {m} :
       at[n] \in Serving \cup Leaving => cur[n].fd # cur[m].fd

CurOK == \A m \in Managers : at[m] \in Serving \cup Leaving => Exclusive(m)

\* What the main thread has accepted and not added yet nobody else has.
AcceptedOK ==
  main = "add" =>
    /\ fdOf[accepted] # None
    /\ \A m \in Managers : interest[m][fdOf[accepted]] = "none"
    /\ \A m \in Managers : at[m] \in Serving \cup Leaving => cur[m].fd # accepted

WorkersOK == OneOwner /\ BatchOK /\ CurOK /\ AcceptedOK /\ ManagersInSync

\* c's request has been read and its answer is due.
Due(m, c) ==
  /\ c \in asked /\ c \notin request /\ reply[c] = {}
  /\ \A fd \in Fds : fdOf[fd] = c => data[m][fd] = c

\* m will write c's answer: it has been asked for the time to, or will be.
Owes(m, c) ==
  \/ interest[m][c] = "out" /\ ~(at[m] = "askIn" /\ cur[m].of = c)
  \/ at[m] = "askOut" /\ cur[m].of = c

AnswersOK ==
  /\ AnswersAreOwn
  /\ \A c \in request : c \in asked /\ reply[c] = {}
  /\ \A m \in Managers, c \in Conns : Owes(m, c) => Due(m, c)

EchoInv ==
  /\ KernelTypes /\ ServerTypes /\ NumbersOK /\ Owned /\ OneThread
  /\ ~clobbered => WorkersOK /\ AnswersOK

-----------------------------------------------------------------------------
(* What the functions of CppEpoll return.                                  *)

\* The kernel's number is one that is free.
LEMMA LowestIsFree ==
  ASSUME NEW S, S \subseteq Nat, S # {}
  PROVE  Lowest(S) \in S
<1> DEFINE R == OpToRel(<, Nat)
<1>1. IsWellFoundedOn(R, Nat)
  BY NatLessThanWellFounded
<1>2. \E n \in S : \A m \in S : <<m, n>> \notin R
  <2> HIDE DEF R
  <2> QED
    BY <1>1, WFMin
<1>3. \A n, m \in Nat : <<m, n>> \in R <=> m < n
  BY DEF OpToRel
<1>4. \E n \in S : \A m \in S : n <= m
  <2>1. PICK n \in S : \A m \in S : <<m, n>> \notin R
    BY <1>2
  <2>2. ASSUME NEW m \in S PROVE n <= m
    <3>1. m \in Nat /\ n \in Nat
      OBVIOUS
    <3>2. ~(m < n)
      BY <1>3, <2>1, <3>1
    <3>3. QED
      BY <3>1, <3>2
  <2>3. QED
    BY <2>2
<1>5. QED
  BY <1>4 DEF Lowest

LEMMA EventsSay ==
  ASSUME NEW asked_ \in {"none", "in", "inrd", "out"}, NEW c
  PROVE  /\ Events(asked_, c) \subseteq {"EPOLLIN", "EPOLLOUT", "EPOLLRDHUP"}
         /\ Events(asked_, c) # {} =>
              /\ asked_ # "none"
              /\ Events(asked_, c) \cap {"EPOLLIN", "EPOLLOUT"} # {}
              /\ "EPOLLIN" \in Events(asked_, c) \/ asked_ = "out"
<1>1. CASE asked_ = "none"
  BY <1>1 DEF Events
<1>2. CASE asked_ = "in"
  BY <1>2 DEF Events
<1>3. CASE asked_ = "inrd"
  BY <1>3 DEF Events
<1>4. CASE asked_ = "out"
  BY <1>4 DEF Events
<1>5. QED
  BY <1>1, <1>2, <1>3, <1>4

LEMMA ReadySays ==
  ASSUME KernelTypes, NEW m \in Managers
  PROVE  /\ Ready(m) \subseteq EventType
         /\ \A event \in Ready(m) :
              /\ fdOf[event.fd] = event.of
              /\ interest[m][event.of] # "none"
              /\ "EPOLLIN" \in event.events \/ interest[m][event.of] = "out"
         /\ \A event, other \in Ready(m) : event.fd = other.fd => event = other
<1>1. ASSUME NEW event \in Ready(m)
      PROVE  \E fd \in Fds :
               /\ fdOf[fd] \in Conns
               /\ Events(interest[m][fdOf[fd]], fdOf[fd]) # {}
               /\ event = [fd |-> fd, of |-> fdOf[fd],
                           events |-> Events(interest[m][fdOf[fd]], fdOf[fd])]
  BY DEF Ready, KernelTypes
<1>2. ASSUME NEW event \in Ready(m)
      PROVE  /\ event \in EventType
             /\ fdOf[event.fd] = event.of
             /\ interest[m][event.of] # "none"
             /\ "EPOLLIN" \in event.events \/ interest[m][event.of] = "out"
  <2>1. PICK fd \in Fds :
               /\ fdOf[fd] \in Conns
               /\ Events(interest[m][fdOf[fd]], fdOf[fd]) # {}
               /\ event = [fd |-> fd, of |-> fdOf[fd],
                           events |-> Events(interest[m][fdOf[fd]], fdOf[fd])]
    BY <1>1
  <2>2. interest[m][fdOf[fd]] \in {"none", "in", "inrd", "out"}
    BY <2>1 DEF KernelTypes
  <2>3. QED
    BY <2>1, <2>2, EventsSay DEF EventType
<1>3. ASSUME NEW event \in Ready(m), NEW other \in Ready(m), event.fd = other.fd
      PROVE  event = other
  BY <1>1, <1>3
<1>4. QED
  BY <1>2, <1>3

LEMMA BranchSays ==
  ASSUME NEW event \in EventType
  PROVE  /\ Branch(event.events) \in {"read", "write", "del"}
         /\ Branch(event.events) = "write" => "EPOLLIN" \notin event.events
<1>1. event.events \subseteq {"EPOLLIN", "EPOLLOUT", "EPOLLRDHUP"}
  BY DEF EventType
<1>2. CASE "EPOLLIN" \in event.events /\ "EPOLLRDHUP" \in event.events
  BY <1>2 DEF Branch
<1>3. CASE "EPOLLIN" \in event.events /\ "EPOLLRDHUP" \notin event.events
  BY <1>3 DEF Branch
<1>4. CASE "EPOLLIN" \notin event.events
  <2>1. "EPOLLOUT" \in event.events
    BY <1>4 DEF EventType
  <2>2. QED
    BY <1>4, <2>1 DEF Branch
<1>5. QED
  BY <1>2, <1>3, <1>4

LEMMA AcceptSays ==
  ASSUME KernelTypes, NEW c \in Conns, Accept(c)
  PROVE  /\ Lowest(FreeFds) \in Fds /\ fdOf[Lowest(FreeFds)] = None
         /\ conn[c] = "queued"
         /\ fdOf' = [fdOf EXCEPT ![Lowest(FreeFds)] = c]
  BY FdsAssumption, LowestIsFree DEF Accept, FreeFds

LEMMA OnlyIsManager == Only \in Managers
  BY WorkersAssumption DEF Only

LEMMA NextWorkerIsManager ==
  ASSUME clientId \in Nat
  PROVE  Workers[1 + (clientId % Len(Workers))] \in Managers
  BY WorkersAssumption

\* The numbers in the events, and what is asked for, are of their types.
LEMMA FdTypes ==
  ASSUME ServerTypes, NEW m \in Managers
  PROVE  /\ at[m] \in Serving \cup Leaving => Fd(m) \in Fds /\ cur[m].of \in Conns
         /\ \A event \in batch[m] : event.fd \in Fds /\ event.of \in Conns
  BY DEF ServerTypes, EventType, Fd

Asks == {"none", "in", "inrd", "out"}

LEMMA InterestType ==
  ASSUME KernelTypes, NEW m \in Managers, NEW c \in Conns, NEW e \in Asks,
         interest' = [interest EXCEPT ![m][c] = e]
  PROVE  interest' \in [Managers -> [Conns -> Asks]]
  BY DEF KernelTypes, Asks

LEMMA CtlTypes ==
  ASSUME KernelTypes, NEW m \in Managers, NEW fd \in Fds, NEW e \in Asks,
         AddOrModFd(m, fd, e)
  PROVE  /\ interest' \in [Managers -> [Conns -> Asks]]
         /\ thrown' = thrown \/ thrown'
<1>1. CASE UNCHANGED interest
  BY <1>1 DEF KernelTypes, Asks, AddOrModFd
<1>2. CASE fdOf[fd] # None /\ interest' = [interest EXCEPT ![m][fdOf[fd]] = e]
  <2>1. fdOf[fd] \in Conns
    BY <1>2 DEF KernelTypes
  <2>2. QED
    BY <1>2, <2>1, InterestType DEF AddOrModFd
<1>3. QED
  BY <1>1, <1>2 DEF AddOrModFd, CtlFails

LEMMA CloseTypes ==
  ASSUME KernelTypes, NEW fd \in Fds, Close(fd)
  PROVE  /\ conn' \in [Conns -> {"new", "queued", "open", "closed"}]
         /\ fdOf' \in [Fds -> Conns \cup {None}]
         /\ interest' \in [Managers -> [Conns -> Asks]]
<1>1. CASE fdOf[fd] = None
  BY <1>1 DEF KernelTypes, Asks, Close
<1>2. CASE fdOf[fd] # None
  <2>1. fdOf[fd] \in Conns
    BY <1>2 DEF KernelTypes
  <2>2. /\ conn' = [conn EXCEPT ![fdOf[fd]] = "closed"]
        /\ fdOf' = [fdOf EXCEPT ![fd] = None]
        /\ interest' = [m \in Managers |-> [interest[m] EXCEPT ![fdOf[fd]] = "none"]]
    BY <1>2 DEF Close
  <2>3. ASSUME NEW m \in Managers
        PROVE  [interest[m] EXCEPT ![fdOf[fd]] = "none"] \in [Conns -> Asks]
    BY <2>1 DEF KernelTypes, Asks
  <2>4. interest' \in [Managers -> [Conns -> Asks]]
    BY <2>2, <2>3
  <2>5. QED
    BY <2>1, <2>2, <2>4 DEF KernelTypes
<1>3. QED
  BY <1>1, <1>2

LEMMA WriteTypes ==
  ASSUME KernelTypes, ServerTypes, NEW m \in Managers, NEW fd \in Fds, Write(m, fd)
  PROVE  /\ fdOf[fd] \in Conns
         /\ reply' = [reply EXCEPT ![fdOf[fd]] = @ \cup {data[m][fd]}]
         /\ reply' \in [Conns -> SUBSET (Conns \cup {None})]
         /\ UNCHANGED <<conn, fdOf, hup, request>>
<1>1. fdOf[fd] \in Conns /\ data[m][fd] \in Conns \cup {None}
  BY DEF Write, KernelTypes, ServerTypes
<1>2. QED
  BY <1>1 DEF Write, KernelTypes

LEMMA ReadTypes ==
  ASSUME KernelTypes, ServerTypes, NEW m \in Managers, NEW fd \in Fds,
         ~ReadFails(fd), Read(m, fd)
  PROVE  /\ fdOf[fd] \in request /\ fdOf[fd] \in Conns
         /\ request' = request \ {fdOf[fd]}
         /\ data' = [data EXCEPT ![m][fd] = fdOf[fd]]
         /\ data' \in [Managers -> [Fds -> Conns \cup {None}]]
         /\ UNCHANGED <<conn, fdOf, hup, reply>>
<1>1. fdOf[fd] \in request /\ fdOf[fd] \in Conns
  BY DEF ReadFails, KernelTypes
<1>2. QED
  BY <1>1 DEF Read, ServerTypes

LEMMA DropTypes ==
  ASSUME ServerTypes, NEW m \in Managers, NEW fd \in Fds,
         data' = [data EXCEPT ![m][fd] = None]
  PROVE  data' \in [Managers -> [Fds -> Conns \cup {None}]]
  BY DEF ServerTypes

LEMMA NextClient ==
  ASSUME clientId \in Nat
  PROVE  (clientId + 1) % Len(Workers) \in Nat
<1>1. Len(Workers) \in Nat /\ Len(Workers) > 0
  BY WorkersAssumption
<1>2. QED
  BY <1>1

LEMMA OnlyWaits ==
  ASSUME OneThread, kind = "single"
  PROVE  \A m \in Managers : at[m] = "wait"
  BY DEF OneThread

LEMMA MainTypes ==
  ASSUME ServerTypes
  PROVE  clientId \in Nat /\ (main \in {"add", "own"} => accepted \in Fds)
  BY DEF ServerTypes

-----------------------------------------------------------------------------
(* Types.                                                                  *)

LEMMA KernelTypeStep ==
  ASSUME KernelTypes, ServerTypes, [Next]_vars
  PROVE  KernelTypes'
<1> USE OnlyIsManager, FdTypes DEF KernelTypes, Asks, Serving, Leaving, kernelVars, managerVars,
        serverVars
<1>1. ASSUME NEW c \in Conns, Connect(c) PROVE KernelTypes'
  BY <1>1 DEF Connect
<1>2. ASSUME NEW c \in Conns, Send(c) PROVE KernelTypes'
  BY <1>2 DEF Send
<1>3. ASSUME NEW c \in Conns, Receive(c) PROVE KernelTypes'
  BY <1>3 DEF Receive
<1>4. ASSUME NEW c \in Conns, HangUp(c) PROVE KernelTypes'
  BY <1>4 DEF HangUp
<1>5. ASSUME NEW m \in Managers, kind = "multi", EpollWait(m), UNCHANGED serverVars
      PROVE  KernelTypes'
  BY <1>5 DEF EpollWait
<1>6. ASSUME NEW m \in Managers, kind = "multi", Dispatch(m), UNCHANGED serverVars
      PROVE  KernelTypes'
  BY <1>6 DEF Dispatch
<1>7. ASSUME NEW m \in Managers, kind = "multi", ProcReadEnds(m), UNCHANGED serverVars
      PROVE  KernelTypes'
  BY <1>7, CtlTypes DEF ProcReadEnds, AskNext
<1>8. ASSUME NEW m \in Managers, kind = "multi", ProcWriteEnds(m), UNCHANGED serverVars
      PROVE  KernelTypes'
  BY <1>8, CtlTypes DEF ProcWriteEnds, AskNext
<1>9. ASSUME NEW m \in Managers, kind = "multi", DelFd(m), UNCHANGED serverVars
      PROVE  KernelTypes'
  BY <1>9, InterestType DEF DelFd, CtlFails, Fd
<1>10. ASSUME NEW m \in Managers, kind = "multi", DelFdErase(m), UNCHANGED serverVars
      PROVE  KernelTypes'
  BY <1>10 DEF DelFdErase
<1>11. ASSUME NEW m \in Managers, ProcRead(m) PROVE KernelTypes'
  BY <1>11 DEF ProcRead, Read, ReadFails
<1>12. ASSUME NEW m \in Managers, ProcWrite(m) PROVE KernelTypes'
  BY <1>12, WriteTypes DEF ProcWrite, WriteMayFail
<1>13. ASSUME NEW m \in Managers, ProcDeleteFd(m) PROVE KernelTypes'
  BY <1>13, CloseTypes DEF ProcDeleteFd
<1>14. ASSUME NEW m \in Managers, WorkerExits(m) PROVE KernelTypes'
  BY <1>14 DEF WorkerExits
<1>15. CASE StartMulti
  BY <1>15 DEF StartMulti
<1>16. ASSUME NEW c \in Conns, MainAccept(c) PROVE KernelTypes'
  BY <1>16 DEF MainAccept, Accept
<1>17. CASE AddClientFd
  BY <1>17, CtlTypes, NextWorkerIsManager, MainTypes DEF AddClientFd
<1>18. CASE OwnFd
  BY <1>18, CloseTypes, MainTypes DEF OwnFd
<1>19. CASE MainReturns
  BY <1>19 DEF MainReturns
<1>20. CASE StartSingle
  BY <1>20 DEF StartSingle
<1>21. CASE SingleWait
  BY <1>21 DEF SingleWait
<1>22. ASSUME NEW c \in Conns, SingleAccept(c) PROVE KernelTypes'
  BY <1>22 DEF SingleAccept, Accept
<1>23. ASSUME NEW event \in batch[Only], SingleRead(event) PROVE KernelTypes'
  BY <1>23, CloseTypes, InterestType DEF SingleRead, Handles, ReadFails, CloseAndClearFd, Read
<1>24. ASSUME NEW event \in batch[Only], SingleWrite(event) PROVE KernelTypes'
  BY <1>24, CloseTypes, InterestType, WriteTypes DEF SingleWrite, Handles, WriteMayFail, CloseAndClearFd
<1>25. ASSUME NEW event \in batch[Only], SingleDelete(event) PROVE KernelTypes'
  BY <1>25, CloseTypes DEF SingleDelete, Handles, CloseAndClearFd
<1>26. CASE SingleReturns
  BY <1>26 DEF SingleReturns
<1>27. CASE StopServer
  BY <1>27 DEF StopServer
<1>28. CASE UNCHANGED vars
  BY <1>28 DEF vars
<1>29. QED
  BY <1>1, <1>2, <1>3, <1>4, <1>5, <1>6, <1>7, <1>8, <1>9, <1>10, <1>11, <1>12,
     <1>13, <1>14, <1>15, <1>16, <1>17, <1>18, <1>19, <1>20, <1>21, <1>22, <1>23,
     <1>24, <1>25, <1>26, <1>27, <1>28 DEF Next, Peer, Worker, Manager, Main, Single

LEMMA ServerTypeStep ==
  ASSUME KernelTypes, ServerTypes, OneThread, [Next]_vars
  PROVE  ServerTypes'
<1> USE OnlyIsManager, FdTypes DEF ServerTypes, Serving, Leaving, kernelVars, managerVars,
        serverVars
<1>1. ASSUME NEW c \in Conns, Connect(c) PROVE ServerTypes'
  BY <1>1 DEF Connect
<1>2. ASSUME NEW c \in Conns, Send(c) PROVE ServerTypes'
  BY <1>2 DEF Send
<1>3. ASSUME NEW c \in Conns, Receive(c) PROVE ServerTypes'
  BY <1>3 DEF Receive
<1>4. ASSUME NEW c \in Conns, HangUp(c) PROVE ServerTypes'
  BY <1>4 DEF HangUp
<1>5. ASSUME NEW m \in Managers, kind = "multi", EpollWait(m), UNCHANGED serverVars
      PROVE  ServerTypes'
  BY <1>5, ReadySays DEF EpollWait
<1>6. ASSUME NEW m \in Managers, kind = "multi", Dispatch(m), UNCHANGED serverVars
      PROVE  ServerTypes'
  <2>1. PICK event \in batch[m] :
           /\ batch' = [batch EXCEPT ![m] = @ \ {event}]
           /\ cur' = [cur EXCEPT ![m] = event]
           /\ at' = [at EXCEPT ![m] = Branch(event.events)]
    BY <1>6 DEF Dispatch
  <2>2. event \in EventType
    OBVIOUS
  <2>3. Branch(event.events) \in {"read", "write", "del"}
    BY <2>2, BranchSays
  <2>4. QED
    BY <1>6, <2>1, <2>2, <2>3 DEF Dispatch
<1>7. ASSUME NEW m \in Managers, kind = "multi", ProcReadEnds(m), UNCHANGED serverVars
      PROVE  ServerTypes'
  BY <1>7 DEF ProcReadEnds, AskNext, AddOrModFd, Fd
<1>8. ASSUME NEW m \in Managers, kind = "multi", ProcWriteEnds(m), UNCHANGED serverVars
      PROVE  ServerTypes'
  BY <1>8 DEF ProcWriteEnds, AskNext, AddOrModFd, Fd
<1>9. ASSUME NEW m \in Managers, kind = "multi", DelFd(m), UNCHANGED serverVars
      PROVE  ServerTypes'
  BY <1>9 DEF DelFd, Fd
<1>10. ASSUME NEW m \in Managers, kind = "multi", DelFdErase(m), UNCHANGED serverVars
      PROVE  ServerTypes'
  BY <1>10 DEF DelFdErase, Fd
<1>11. ASSUME NEW m \in Managers, ProcRead(m) PROVE ServerTypes'
  <2>1. CASE ReadFails(Fd(m))
    BY <1>11, <2>1 DEF ProcRead, Fd
  <2>2. CASE ~ReadFails(Fd(m))
    <3>1. Read(m, Fd(m)) /\ Fd(m) \in Fds
      BY <1>11, <2>2 DEF ProcRead
    <3>2. data' \in [Managers -> [Fds -> Conns \cup {None}]]
      BY <2>2, <3>1, ReadTypes
    <3>3. QED
      BY <1>11, <2>2, <3>2 DEF ProcRead
  <2>3. QED
    BY <2>1, <2>2
<1>12. ASSUME NEW m \in Managers, ProcWrite(m) PROVE ServerTypes'
  BY <1>12 DEF ProcWrite, Fd
<1>13. ASSUME NEW m \in Managers, ProcDeleteFd(m) PROVE ServerTypes'
  BY <1>13 DEF ProcDeleteFd, Fd
<1>14. ASSUME NEW m \in Managers, WorkerExits(m) PROVE ServerTypes'
  BY <1>14 DEF WorkerExits
<1>15. CASE StartMulti
  BY <1>15 DEF StartMulti
<1>16. ASSUME NEW c \in Conns, MainAccept(c) PROVE ServerTypes'
  BY <1>16, AcceptSays DEF MainAccept
<1>17. CASE AddClientFd
  BY <1>17, NextWorkerIsManager DEF AddClientFd, AddOrModFd
<1>18. CASE OwnFd
  BY <1>18, NextClient DEF OwnFd
<1>19. CASE MainReturns
  BY <1>19 DEF MainReturns
<1>20. CASE StartSingle
  BY <1>20 DEF StartSingle
<1>21. CASE SingleWait
  BY <1>21, ReadySays, OnlyWaits DEF SingleWait
<1>22. ASSUME NEW c \in Conns, SingleAccept(c) PROVE ServerTypes'
  BY <1>22 DEF SingleAccept
<1>23. ASSUME NEW event \in batch[Only], SingleRead(event) PROVE ServerTypes'
  <2>1. CASE ReadFails(event.fd)
    BY <1>23, <2>1, DropTypes, OnlyWaits DEF SingleRead, Handles, CloseAndClearFd
  <2>2. CASE ~ReadFails(event.fd)
    BY <1>23, <2>2, ReadTypes, OnlyWaits DEF SingleRead, Handles
  <2>3. QED
    BY <2>1, <2>2
<1>24. ASSUME NEW event \in batch[Only], SingleWrite(event) PROVE ServerTypes'
  <2>1. CASE CloseAndClearFd(event.fd)
    BY <1>24, <2>1, DropTypes DEF SingleWrite, Handles, CloseAndClearFd
  <2>2. CASE UNCHANGED data
    BY <1>24, <2>2 DEF SingleWrite, Handles
  <2>3. QED
    BY <1>24, <2>1, <2>2 DEF SingleWrite
<1>25. ASSUME NEW event \in batch[Only], SingleDelete(event) PROVE ServerTypes'
  BY <1>25 DEF SingleDelete, Handles, CloseAndClearFd
<1>26. CASE SingleReturns
  BY <1>26 DEF SingleReturns
<1>27. CASE StopServer
  BY <1>27 DEF StopServer
<1>28. CASE UNCHANGED vars
  BY <1>28 DEF vars
<1>29. QED
  BY <1>1, <1>2, <1>3, <1>4, <1>5, <1>6, <1>7, <1>8, <1>9, <1>10, <1>11, <1>12,
     <1>13, <1>14, <1>15, <1>16, <1>17, <1>18, <1>19, <1>20, <1>21, <1>22, <1>23,
     <1>24, <1>25, <1>26, <1>27, <1>28 DEF Next, Peer, Worker, Manager, Main, Single

-----------------------------------------------------------------------------
(* Numbers.                                                                *)

LEMMA CtlNumbers ==
  ASSUME KernelTypes, NumbersOK, NEW m \in Managers, NEW fd \in Fds, NEW e \in Asks,
         AddOrModFd(m, fd, e), UNCHANGED <<conn, fdOf>>
  PROVE  NumbersOK'
<1>1. CASE UNCHANGED interest
  BY <1>1 DEF NumbersOK
<1>2. CASE fdOf[fd] # None /\ interest' = [interest EXCEPT ![m][fdOf[fd]] = e]
  <2>1. \A n \in Managers, c \in Conns : c # fdOf[fd] => interest'[n][c] = interest[n][c]
    BY <1>2 DEF KernelTypes
  <2>2. QED
    BY <1>2, <2>1 DEF NumbersOK
<1>3. QED
  BY <1>1, <1>2 DEF AddOrModFd, CtlFails

LEMMA CloseSays ==
  ASSUME KernelTypes, NEW fd \in Fds, Close(fd)
  PROVE  /\ fdOf[fd] = None => UNCHANGED <<conn, fdOf, interest>>
         /\ fdOf'[fd] = None
         /\ \A f \in Fds : f # fd => fdOf'[f] = fdOf[f]
         /\ \A c \in Conns : c # fdOf[fd] => conn'[c] = conn[c]
         /\ \A m \in Managers, c \in Conns :
              interest'[m][c] = IF c = fdOf[fd] THEN "none" ELSE interest[m][c]
<1>1. None \notin Conns
  BY FdsAssumption
<1>2. CASE fdOf[fd] = None
  BY <1>1, <1>2 DEF Close
<1>3. CASE fdOf[fd] # None
  BY <1>3 DEF Close, KernelTypes
<1>4. QED
  BY <1>2, <1>3

LEMMA CloseNumbers ==
  ASSUME KernelTypes, NumbersOK, NEW fd \in Fds, Close(fd)
  PROVE  NumbersOK'
<1>1. \A f \in Fds : fdOf[f] \in Conns \cup {None}
  BY DEF KernelTypes
<1>2. CASE fdOf[fd] = None
  BY <1>2, CloseSays DEF NumbersOK
<1>3. CASE fdOf[fd] # None
  <2>1. \A f \in Fds : fdOf'[f] = IF f = fd THEN None ELSE fdOf[f]
    BY CloseSays
  <2>2. \A f \in Fds : fdOf'[f] # None => fdOf'[f] \in Conns /\ fdOf'[f] # fdOf[fd]
    BY <1>1, <1>3, <2>1 DEF NumbersOK
  <2>3. \A f \in Fds : fdOf'[f] # None => conn'[fdOf'[f]] = "open"
    BY <2>1, <2>2, CloseSays DEF NumbersOK
  <2>4. \A f, other \in Fds : fdOf'[f] = fdOf'[other] /\ fdOf'[f] # None => f = other
    BY <2>1 DEF NumbersOK
  <2>5. ASSUME NEW m \in Managers, NEW c \in Conns, interest'[m][c] # "none"
        PROVE  \E f \in Fds : fdOf'[f] = c
    <3>1. c # fdOf[fd] /\ interest[m][c] # "none"
      BY <2>5, CloseSays
    <3>2. QED
      BY <2>1, <3>1 DEF NumbersOK
  <2>6. QED
    BY <2>3, <2>4, <2>5 DEF NumbersOK
<1>4. QED
  BY <1>2, <1>3

LEMMA AcceptNumbers ==
  ASSUME KernelTypes, NumbersOK, NEW c \in Conns, Accept(c),
         \A m \in Managers, d \in Conns :
           interest'[m][d] # "none" => interest[m][d] # "none" \/ d = c
  PROVE  NumbersOK'
<1>1. PICK fd \in Fds :
        /\ fdOf[fd] = None
        /\ fdOf' = [fdOf EXCEPT ![fd] = c]
  BY AcceptSays
<1>2. conn[c] = "queued" /\ conn' = [conn EXCEPT ![c] = "open"]
  BY DEF Accept
<1>3. \A f \in Fds : fdOf'[f] = IF f = fd THEN c ELSE fdOf[f]
  BY <1>1 DEF KernelTypes
<1>4. \A f \in Fds : fdOf[f] # c /\ fdOf[f] \in Conns \cup {None}
  BY <1>2, FdsAssumption DEF NumbersOK, KernelTypes
<1>5. \A f \in Fds : fdOf'[f] # None => conn'[fdOf'[f]] = "open"
  BY <1>2, <1>3, <1>4 DEF NumbersOK, KernelTypes
<1>6. \A f, other \in Fds : fdOf'[f] = fdOf'[other] /\ fdOf'[f] # None => f = other
  BY <1>3, <1>4 DEF NumbersOK
<1>7. ASSUME NEW m \in Managers, NEW d \in Conns, interest'[m][d] # "none"
      PROVE  \E f \in Fds : fdOf'[f] = d
  <2>1. CASE d = c
    BY <1>3, <2>1
  <2>2. CASE interest[m][d] # "none"
    BY <1>1, <1>3, <2>2, FdsAssumption DEF NumbersOK
  <2>3. QED
    BY <1>7, <2>1, <2>2
<1>8. QED
  BY <1>5, <1>6, <1>7 DEF NumbersOK

\* A manager asks for events of a number that is open.
LEMMA AskNumbers ==
  ASSUME KernelTypes, NumbersOK, NEW m \in Managers, NEW fd \in Fds, NEW e,
         fdOf[fd] # None, interest' = [interest EXCEPT ![m][fdOf[fd]] = e],
         UNCHANGED <<conn, fdOf>>
  PROVE  NumbersOK'
<1>1. \A n \in Managers, c \in Conns : c # fdOf[fd] => interest'[n][c] = interest[n][c]
  BY DEF KernelTypes
<1>2. QED
  BY <1>1 DEF NumbersOK

LEMMA NumbersStep ==
  ASSUME KernelTypes, ServerTypes, NumbersOK, [Next]_vars
  PROVE  NumbersOK'
<1> USE OnlyIsManager, FdTypes DEF Asks, Serving, Leaving, kernelVars, managerVars, serverVars
<1>1. ASSUME NEW c \in Conns, Connect(c) PROVE NumbersOK'
  <2>1. /\ conn' = [conn EXCEPT ![c] = "queued"] /\ conn[c] = "new"
        /\ UNCHANGED <<fdOf, interest>>
    BY <1>1 DEF Connect
  <2>2. \A d \in Conns \ {c} : conn'[d] = conn[d]
    BY <2>1 DEF KernelTypes
  <2>3. ASSUME NEW fd \in Fds, fdOf[fd] # None
        PROVE  conn'[fdOf[fd]] = "open"
    BY <2>1, <2>2, <2>3 DEF NumbersOK, KernelTypes
  <2>4. QED
    BY <2>1, <2>3, Zenon DEF NumbersOK
<1>2. ASSUME NEW c \in Conns, Send(c) PROVE NumbersOK'
  BY <1>2 DEF NumbersOK, Send
<1>3. ASSUME NEW c \in Conns, Receive(c) PROVE NumbersOK'
  BY <1>3 DEF NumbersOK, Receive
<1>4. ASSUME NEW c \in Conns, HangUp(c) PROVE NumbersOK'
  BY <1>4 DEF NumbersOK, HangUp
<1>5. ASSUME NEW m \in Managers, kind = "multi", EpollWait(m), UNCHANGED serverVars
      PROVE  NumbersOK'
  BY <1>5 DEF NumbersOK, EpollWait
<1>6. ASSUME NEW m \in Managers, kind = "multi", Dispatch(m), UNCHANGED serverVars
      PROVE  NumbersOK'
  BY <1>6 DEF NumbersOK, Dispatch
<1>7. ASSUME NEW m \in Managers, kind = "multi", ProcReadEnds(m), UNCHANGED serverVars
      PROVE  NumbersOK'
  BY <1>7, CtlNumbers DEF ProcReadEnds, AskNext
<1>8. ASSUME NEW m \in Managers, kind = "multi", ProcWriteEnds(m), UNCHANGED serverVars
      PROVE  NumbersOK'
  BY <1>8, CtlNumbers DEF ProcWriteEnds, AskNext
<1>9. ASSUME NEW m \in Managers, kind = "multi", DelFd(m), UNCHANGED serverVars
      PROVE  NumbersOK'
  <2>1. CASE UNCHANGED interest
    BY <1>9, <2>1 DEF DelFd, NumbersOK
  <2>2. CASE ~CtlFails(m, Fd(m), "del")
    BY <1>9, <2>2, AskNumbers DEF DelFd, CtlFails
  <2>3. QED
    BY <1>9, <2>1, <2>2 DEF DelFd
<1>10. ASSUME NEW m \in Managers, kind = "multi", DelFdErase(m), UNCHANGED serverVars
      PROVE  NumbersOK'
  BY <1>10 DEF NumbersOK, DelFdErase
<1>11. ASSUME NEW m \in Managers, ProcRead(m) PROVE NumbersOK'
  BY <1>11 DEF ProcRead, Read, NumbersOK
<1>12. ASSUME NEW m \in Managers, ProcWrite(m) PROVE NumbersOK'
  BY <1>12 DEF ProcWrite, Write, NumbersOK
<1>13. ASSUME NEW m \in Managers, ProcDeleteFd(m) PROVE NumbersOK'
  BY <1>13, CloseNumbers DEF ProcDeleteFd
<1>14. ASSUME NEW m \in Managers, WorkerExits(m) PROVE NumbersOK'
  BY <1>14 DEF NumbersOK, WorkerExits
<1>15. CASE StartMulti
  BY <1>15 DEF NumbersOK, StartMulti
<1>16. ASSUME NEW c \in Conns, MainAccept(c) PROVE NumbersOK'
  BY <1>16, AcceptNumbers DEF MainAccept
<1>17. CASE AddClientFd
  BY <1>17, CtlNumbers, NextWorkerIsManager, MainTypes DEF AddClientFd
<1>18. CASE OwnFd
  <2>1. CASE Close(accepted)
    BY <1>18, <2>1, CloseNumbers, MainTypes DEF OwnFd
  <2>2. CASE UNCHANGED <<conn, fdOf, interest>>
    BY <2>2 DEF NumbersOK
  <2>3. QED
    BY <1>18, <2>1, <2>2 DEF OwnFd
<1>19. CASE MainReturns
  <2>1. \A fd \in Fds : fdOf'[fd] = IF fd \in clientFds THEN None ELSE fdOf[fd]
    BY <1>19 DEF MainReturns
  <2>2. \A m \in Managers, c \in Conns : interest'[m][c] = "none"
    BY <1>19 DEF MainReturns
  <2>3. ASSUME NEW fd \in Fds, fdOf'[fd] # None
        PROVE  conn'[fdOf'[fd]] = "open"
    <3>1. fd \notin clientFds /\ fdOf'[fd] = fdOf[fd] /\ fdOf[fd] \in Conns
      BY <2>1, <2>3 DEF KernelTypes
    <3>2. conn[fdOf[fd]] = "open" /\ ~\E f \in clientFds : fdOf[f] = fdOf[fd]
      BY <2>3, <3>1 DEF NumbersOK, ServerTypes
    <3>3. QED
      BY <1>19, <3>1, <3>2 DEF MainReturns
  <2>4. QED
    BY <2>1, <2>2, <2>3 DEF NumbersOK
<1>20. CASE StartSingle
  BY <1>20 DEF NumbersOK, StartSingle
<1>21. CASE SingleWait
  BY <1>21 DEF NumbersOK, SingleWait
<1>22. ASSUME NEW c \in Conns, SingleAccept(c) PROVE NumbersOK'
  <2>1. \A m \in Managers, d \in Conns :
           interest'[m][d] # "none" => interest[m][d] # "none" \/ d = c
    BY <1>22 DEF SingleAccept, KernelTypes
  <2>2. QED
    BY <1>22, <2>1, AcceptNumbers DEF SingleAccept
<1>23. ASSUME NEW event \in batch[Only], SingleRead(event) PROVE NumbersOK'
  <2>1. CASE ReadFails(event.fd)
    BY <1>23, <2>1, CloseNumbers DEF SingleRead, CloseAndClearFd
  <2>2. CASE ~ReadFails(event.fd)
    BY <1>23, <2>2, AskNumbers DEF SingleRead, Read, ReadFails
  <2>3. QED
    BY <2>1, <2>2
<1>24. ASSUME NEW event \in batch[Only], SingleWrite(event) PROVE NumbersOK'
  <2>1. CASE CloseAndClearFd(event.fd)
    BY <2>1, CloseNumbers DEF CloseAndClearFd
  <2>2. CASE Write(Only, event.fd) /\ interest' = [interest EXCEPT ![Only][fdOf[event.fd]] = "inrd"]
    BY <2>2, AskNumbers DEF Write
  <2>3. QED
    BY <1>24, <2>1, <2>2 DEF SingleWrite
<1>25. ASSUME NEW event \in batch[Only], SingleDelete(event) PROVE NumbersOK'
  BY <1>25, CloseNumbers DEF SingleDelete, CloseAndClearFd
<1>26. CASE SingleReturns
  <2>1. \A m \in Managers, c \in Conns : interest'[m][c] = "none"
    BY <1>26 DEF SingleReturns
  <2>2. \A c \in Conns : conn[c] = "open" => conn'[c] = "open"
    BY <1>26 DEF SingleReturns
  <2>3. QED
    BY <1>26, <2>1, <2>2 DEF SingleReturns, NumbersOK, KernelTypes
<1>27. CASE StopServer
  BY <1>27 DEF NumbersOK, StopServer
<1>28. CASE UNCHANGED vars
  BY <1>28 DEF vars, NumbersOK
<1>29. QED
  BY <1>1, <1>2, <1>3, <1>4, <1>5, <1>6, <1>7, <1>8, <1>9, <1>10, <1>11, <1>12,
     <1>13, <1>14, <1>15, <1>16, <1>17, <1>18, <1>19, <1>20, <1>21, <1>22, <1>23,
     <1>24, <1>25, <1>26, <1>27, <1>28 DEF Next, Peer, Worker, Manager, Main, Single

LEMMA OwnedStep ==
  ASSUME KernelTypes, ServerTypes, Owned, [Next]_vars
  PROVE  Owned'
<1> USE OnlyIsManager, FdTypes DEF Serving, Leaving, kernelVars, managerVars, serverVars
<1>1. ASSUME NEW c \in Conns, Connect(c) PROVE Owned'
  BY <1>1 DEF Connect, Owned
<1>2. ASSUME NEW c \in Conns, Send(c) PROVE Owned'
  BY <1>2 DEF Send, Owned
<1>3. ASSUME NEW c \in Conns, Receive(c) PROVE Owned'
  BY <1>3 DEF Receive, Owned
<1>4. ASSUME NEW c \in Conns, HangUp(c) PROVE Owned'
  BY <1>4 DEF HangUp, Owned
<1>5. ASSUME NEW m \in Managers, kind = "multi", EpollWait(m), UNCHANGED serverVars
      PROVE  Owned'
  <2>1. UNCHANGED <<kind, main, clientFds, accepted, fdOf>>
    BY <1>5 DEF EpollWait
  <2>2. main = "done" => at[m] = "exited"
    BY <1>5 DEF Owned, EpollWait
  <2>3. at[m] = "exited" => UNCHANGED at
    BY <1>5 DEF EpollWait
  <2>4. QED
    BY <2>1, <2>2, <2>3 DEF Owned
<1>6. ASSUME NEW m \in Managers, kind = "multi", Dispatch(m), UNCHANGED serverVars
      PROVE  Owned'
  <2>1. UNCHANGED <<kind, main, clientFds, accepted, fdOf>>
    BY <1>6 DEF Dispatch
  <2>2. main = "done" => at[m] = "exited"
    BY <1>6 DEF Owned, Dispatch
  <2>3. at[m] = "exited" => UNCHANGED at
    BY <1>6 DEF Dispatch
  <2>4. QED
    BY <2>1, <2>2, <2>3 DEF Owned
<1>7. ASSUME NEW m \in Managers, kind = "multi", ProcReadEnds(m), UNCHANGED serverVars
      PROVE  Owned'
  <2>1. UNCHANGED <<kind, main, clientFds, accepted, fdOf>>
    BY <1>7 DEF ProcReadEnds, AskNext
  <2>2. main = "done" => at[m] = "exited"
    BY <1>7 DEF Owned, ProcReadEnds
  <2>3. at[m] = "exited" => UNCHANGED at
    BY <1>7 DEF ProcReadEnds, AskNext
  <2>4. QED
    BY <2>1, <2>2, <2>3 DEF Owned
<1>8. ASSUME NEW m \in Managers, kind = "multi", ProcWriteEnds(m), UNCHANGED serverVars
      PROVE  Owned'
  <2>1. UNCHANGED <<kind, main, clientFds, accepted, fdOf>>
    BY <1>8 DEF ProcWriteEnds, AskNext
  <2>2. main = "done" => at[m] = "exited"
    BY <1>8 DEF Owned, ProcWriteEnds
  <2>3. at[m] = "exited" => UNCHANGED at
    BY <1>8 DEF ProcWriteEnds, AskNext
  <2>4. QED
    BY <2>1, <2>2, <2>3 DEF Owned
<1>9. ASSUME NEW m \in Managers, kind = "multi", DelFd(m), UNCHANGED serverVars
      PROVE  Owned'
  <2>1. UNCHANGED <<kind, main, clientFds, accepted, fdOf>>
    BY <1>9 DEF DelFd
  <2>2. main = "done" => at[m] = "exited"
    BY <1>9 DEF Owned, DelFd
  <2>3. at[m] = "exited" => UNCHANGED at
    BY <1>9 DEF DelFd
  <2>4. QED
    BY <2>1, <2>2, <2>3 DEF Owned
<1>10. ASSUME NEW m \in Managers, kind = "multi", DelFdErase(m), UNCHANGED serverVars
      PROVE  Owned'
  <2>1. UNCHANGED <<kind, main, clientFds, accepted, fdOf>>
    BY <1>10 DEF DelFdErase
  <2>2. main = "done" => at[m] = "exited"
    BY <1>10 DEF Owned, DelFdErase
  <2>3. at[m] = "exited" => UNCHANGED at
    BY <1>10 DEF DelFdErase
  <2>4. QED
    BY <2>1, <2>2, <2>3 DEF Owned
<1>11. ASSUME NEW m \in Managers, ProcRead(m) PROVE Owned'
  <2>1. UNCHANGED <<kind, main, clientFds, accepted, fdOf>>
    BY <1>11 DEF ProcRead, Read
  <2>2. main = "done" => at[m] = "exited"
    BY <1>11 DEF Owned, ProcRead, Read
  <2>3. at[m] = "exited" => UNCHANGED at
    BY <1>11 DEF ProcRead, Read
  <2>4. QED
    BY <2>1, <2>2, <2>3 DEF Owned
<1>12. ASSUME NEW m \in Managers, ProcWrite(m) PROVE Owned'
  <2>1. UNCHANGED <<kind, main, clientFds, accepted, fdOf>>
    BY <1>12 DEF ProcWrite, Write
  <2>2. main = "done" => at[m] = "exited"
    BY <1>12 DEF Owned, ProcWrite, Write
  <2>3. at[m] = "exited" => UNCHANGED at
    BY <1>12 DEF ProcWrite, Write
  <2>4. QED
    BY <2>1, <2>2, <2>3 DEF Owned
<1>13. ASSUME NEW m \in Managers, ProcDeleteFd(m) PROVE Owned'
  <2>1. UNCHANGED <<kind, main, clientFds, accepted>>
    BY <1>13 DEF ProcDeleteFd
  <2>2. main # "done"
    BY <1>13 DEF ProcDeleteFd, Owned
  <2>3. \A fd \in Fds : fdOf'[fd] # None => fdOf[fd] # None
    BY <1>13, CloseSays DEF ProcDeleteFd
  <2>4. QED
    BY <2>1, <2>2, <2>3 DEF Owned
<1>14. ASSUME NEW m \in Managers, WorkerExits(m) PROVE Owned'
  BY <1>14 DEF WorkerExits, Owned, ServerTypes
<1>15. CASE StartMulti
  BY <1>15 DEF StartMulti, Owned
<1>16. ASSUME NEW c \in Conns, MainAccept(c) PROVE Owned'
  BY <1>16, AcceptSays DEF MainAccept, Owned, KernelTypes
<1>17. CASE AddClientFd
  BY <1>17 DEF AddClientFd, Owned
<1>18. CASE OwnFd
  <2>1. \A fd \in Fds : fdOf'[fd] # None => fdOf[fd] # None
    BY <1>18, CloseSays, MainTypes DEF OwnFd
  <2>2. QED
    BY <1>18, <2>1 DEF OwnFd, Owned
<1>19. CASE MainReturns
  BY <1>19 DEF MainReturns, Owned
<1>20. CASE StartSingle
  BY <1>20 DEF StartSingle, Owned
<1>21. CASE SingleWait
  BY <1>21 DEF SingleWait, Owned
<1>22. ASSUME NEW c \in Conns, SingleAccept(c) PROVE Owned'
  BY <1>22 DEF SingleAccept, Owned
<1>23. ASSUME NEW event \in batch[Only], SingleRead(event) PROVE Owned'
  BY <1>23 DEF SingleRead, Handles, Owned
<1>24. ASSUME NEW event \in batch[Only], SingleWrite(event) PROVE Owned'
  BY <1>24 DEF SingleWrite, Handles, Owned
<1>25. ASSUME NEW event \in batch[Only], SingleDelete(event) PROVE Owned'
  BY <1>25 DEF SingleDelete, Handles, Owned
<1>26. CASE SingleReturns
  BY <1>26 DEF SingleReturns, Owned
<1>27. CASE StopServer
  BY <1>27 DEF StopServer, Owned
<1>28. CASE UNCHANGED vars
  BY <1>28 DEF vars, Owned
<1>29. QED
  BY <1>1, <1>2, <1>3, <1>4, <1>5, <1>6, <1>7, <1>8, <1>9, <1>10, <1>11, <1>12,
     <1>13, <1>14, <1>15, <1>16, <1>17, <1>18, <1>19, <1>20, <1>21, <1>22, <1>23,
     <1>24, <1>25, <1>26, <1>27, <1>28 DEF Next, Peer, Worker, Manager, Main, Single

LEMMA OneThreadStep ==
  ASSUME KernelTypes, ServerTypes, OneThread, [Next]_vars
  PROVE  OneThread'
<1> USE OnlyIsManager, FdTypes DEF Serving, Leaving, kernelVars, managerVars, serverVars
<1>1. ASSUME NEW c \in Conns, Connect(c) PROVE OneThread'
  BY <1>1 DEF Connect, OneThread
<1>2. ASSUME NEW c \in Conns, Send(c) PROVE OneThread'
  BY <1>2 DEF Send, OneThread
<1>3. ASSUME NEW c \in Conns, Receive(c) PROVE OneThread'
  BY <1>3 DEF Receive, OneThread
<1>4. ASSUME NEW c \in Conns, HangUp(c) PROVE OneThread'
  BY <1>4 DEF HangUp, OneThread
<1>5. ASSUME NEW m \in Managers, kind = "multi", EpollWait(m), UNCHANGED serverVars
      PROVE  OneThread'
  BY <1>5 DEF OneThread
<1>6. ASSUME NEW m \in Managers, kind = "multi", Dispatch(m), UNCHANGED serverVars
      PROVE  OneThread'
  BY <1>6 DEF OneThread
<1>7. ASSUME NEW m \in Managers, kind = "multi", ProcReadEnds(m), UNCHANGED serverVars
      PROVE  OneThread'
  BY <1>7 DEF OneThread
<1>8. ASSUME NEW m \in Managers, kind = "multi", ProcWriteEnds(m), UNCHANGED serverVars
      PROVE  OneThread'
  BY <1>8 DEF OneThread
<1>9. ASSUME NEW m \in Managers, kind = "multi", DelFd(m), UNCHANGED serverVars
      PROVE  OneThread'
  BY <1>9 DEF OneThread
<1>10. ASSUME NEW m \in Managers, kind = "multi", DelFdErase(m), UNCHANGED serverVars
      PROVE  OneThread'
  BY <1>10 DEF OneThread
<1>11. ASSUME NEW m \in Managers, ProcRead(m) PROVE OneThread'
  BY <1>11 DEF ProcRead, OneThread
<1>12. ASSUME NEW m \in Managers, ProcWrite(m) PROVE OneThread'
  BY <1>12 DEF ProcWrite, OneThread
<1>13. ASSUME NEW m \in Managers, ProcDeleteFd(m) PROVE OneThread'
  BY <1>13 DEF ProcDeleteFd, OneThread
<1>14. ASSUME NEW m \in Managers, WorkerExits(m) PROVE OneThread'
  BY <1>14 DEF WorkerExits, OneThread
<1>15. CASE StartMulti
  BY <1>15 DEF StartMulti, OneThread
<1>16. ASSUME NEW c \in Conns, MainAccept(c) PROVE OneThread'
  BY <1>16 DEF MainAccept, OneThread
<1>17. CASE AddClientFd
  BY <1>17 DEF AddClientFd, OneThread
<1>18. CASE OwnFd
  BY <1>18 DEF OwnFd, OneThread
<1>19. CASE MainReturns
  BY <1>19 DEF MainReturns, OneThread
<1>20. CASE StartSingle
  BY <1>20 DEF StartSingle, OneThread
<1>21. CASE SingleWait
  BY <1>21 DEF SingleWait, OneThread, ServerTypes, KernelTypes
<1>22. ASSUME NEW c \in Conns, SingleAccept(c) PROVE OneThread'
  BY <1>22 DEF SingleAccept, OneThread, ServerTypes, KernelTypes
<1>23. ASSUME NEW event \in batch[Only], SingleRead(event) PROVE OneThread'
  <2>1. CASE CloseAndClearFd(event.fd)
    <3>1. \A m \in Managers \ {Only}, c \in Conns : interest[m][c] = "none" => interest'[m][c] = "none"
      BY <2>1, CloseSays DEF CloseAndClearFd
    <3>2. QED
      BY <1>23, <3>1 DEF SingleRead, Handles, OneThread, ServerTypes
  <2>2. CASE interest' = [interest EXCEPT ![Only][fdOf[event.fd]] = "out"]
    BY <1>23, <2>2 DEF SingleRead, Handles, OneThread, ServerTypes, KernelTypes
  <2>3. QED
    BY <1>23, <2>1, <2>2 DEF SingleRead
<1>24. ASSUME NEW event \in batch[Only], SingleWrite(event) PROVE OneThread'
  <2>1. CASE CloseAndClearFd(event.fd)
    <3>1. \A m \in Managers \ {Only}, c \in Conns : interest[m][c] = "none" => interest'[m][c] = "none"
      BY <2>1, CloseSays DEF CloseAndClearFd
    <3>2. QED
      BY <1>24, <3>1 DEF SingleWrite, Handles, OneThread, ServerTypes
  <2>2. CASE interest' = [interest EXCEPT ![Only][fdOf[event.fd]] = "inrd"]
    BY <1>24, <2>2 DEF SingleWrite, Handles, OneThread, ServerTypes, KernelTypes
  <2>3. QED
    BY <1>24, <2>1, <2>2 DEF SingleWrite
<1>25. ASSUME NEW event \in batch[Only], SingleDelete(event) PROVE OneThread'
  <2>1. CASE CloseAndClearFd(event.fd)
    <3>1. \A m \in Managers \ {Only}, c \in Conns : interest[m][c] = "none" => interest'[m][c] = "none"
      BY <2>1, CloseSays DEF CloseAndClearFd
    <3>2. QED
      BY <1>25, <3>1 DEF SingleDelete, Handles, OneThread, ServerTypes
  <2>2. QED
    BY <1>25, <2>1 DEF SingleDelete
<1>26. CASE SingleReturns
  BY <1>26 DEF SingleReturns, OneThread, ServerTypes, KernelTypes
<1>27. CASE StopServer
  BY <1>27 DEF StopServer, OneThread
<1>28. CASE UNCHANGED vars
  BY <1>28 DEF vars, OneThread
<1>29. QED
  BY <1>1, <1>2, <1>3, <1>4, <1>5, <1>6, <1>7, <1>8, <1>9, <1>10, <1>11, <1>12,
     <1>13, <1>14, <1>15, <1>16, <1>17, <1>18, <1>19, <1>20, <1>21, <1>22, <1>23,
     <1>24, <1>25, <1>26, <1>27, <1>28 DEF Next, Peer, Worker, Manager, Main, Single

-----------------------------------------------------------------------------
(* While the main thread has closed no connection of a worker, nobody but  *)
(* a worker has to do with the event in its hands.                         *)

LEMMA InvParts ==
  ASSUME EchoInv, ~clobbered
  PROVE  /\ KernelTypes /\ ServerTypes /\ NumbersOK /\ Owned /\ OneThread
         /\ OneOwner /\ BatchOK /\ CurOK /\ AcceptedOK /\ ManagersInSync /\ AnswersOK
  BY DEF EchoInv, WorkersOK

LEMMA Held ==
  ASSUME EchoInv, ~clobbered, NEW m \in Managers, at[m] \in Serving \cup Leaving
  PROVE  /\ Fd(m) \in Fds /\ cur[m].of \in Conns /\ fdOf[Fd(m)] = cur[m].of
         /\ \A fd \in Fds : fd # Fd(m) => fdOf[fd] # cur[m].of
         /\ \A n \in Managers :
              interest[n][cur[m].of] # "none" <=> n = m /\ at[m] \in Serving
         /\ \A n \in Managers : \A event \in batch[n] :
              event.fd # Fd(m) /\ event.of # cur[m].of
         /\ \A n \in Managers \ {m} :
              at[n] \in Serving \cup Leaving => cur[n].fd # Fd(m) /\ cur[n].of # cur[m].of
         /\ main = "add" => accepted # Fd(m) /\ fdOf[accepted] # cur[m].of
<1> USE InvParts
<1>1. Fd(m) \in Fds /\ cur[m].of \in Conns /\ cur[m].of # None
  BY FdTypes, FdsAssumption
<1>2. fdOf[Fd(m)] = cur[m].of
  BY DEF CurOK, Exclusive, Fd
<1>3. \A fd \in Fds : fd # Fd(m) => fdOf[fd] # cur[m].of
  BY <1>1, <1>2 DEF NumbersOK
<1>4. \A n \in Managers : interest[n][cur[m].of] # "none" <=> n = m /\ at[m] \in Serving
  <2>1. CASE at[m] \in Serving
    BY <1>1, <2>1 DEF CurOK, Exclusive, OneOwner
  <2>2. CASE at[m] \in Leaving
    BY <1>1, <2>2 DEF CurOK, Exclusive, Serving, Leaving
  <2>3. QED
    BY <2>1, <2>2
<1>5. ASSUME NEW n \in Managers, NEW event \in batch[n]
      PROVE  event.fd # Fd(m) /\ event.of # cur[m].of
  <2>1. event.fd \in Fds /\ fdOf[event.fd] = event.of /\ interest[n][event.of] # "none"
    BY <1>5, FdTypes DEF BatchOK
  <2>2. n # m => event.of # cur[m].of
    BY <1>4, <2>1
  <2>3. n = m => event.fd # Fd(m)
    BY DEF CurOK, Exclusive, Fd
  <2>4. QED
    BY <1>2, <1>3, <2>1, <2>2, <2>3
<1>6. ASSUME NEW n \in Managers \ {m}, at[n] \in Serving \cup Leaving
      PROVE  cur[n].fd # Fd(m) /\ cur[n].of # cur[m].of
  <2>1. cur[n].fd \in Fds /\ fdOf[cur[n].fd] = cur[n].of
    BY <1>6, FdTypes DEF CurOK, Exclusive, Fd
  <2>2. cur[n].fd # Fd(m)
    BY <1>6 DEF CurOK, Exclusive, Fd
  <2>3. QED
    BY <1>3, <2>1, <2>2
<1>7. ASSUME main = "add" PROVE accepted # Fd(m) /\ fdOf[accepted] # cur[m].of
  <2>1. accepted \in Fds /\ accepted # Fd(m)
    BY <1>7, MainTypes DEF AcceptedOK, Fd
  <2>2. QED
    BY <1>3, <2>1
<1>8. QED
  BY <1>1, <1>2, <1>3, <1>4, <1>5, <1>6, <1>7

\* What it serves is in its set of numbers.
LEMMA HeldInSync ==
  ASSUME EchoInv, ~clobbered, kind = "multi", NEW m \in Managers, at[m] \in Serving
  PROVE  /\ main # "done" /\ fdOf[Fd(m)] # None
         /\ Fd(m) \in mFds[m] /\ interest[m][fdOf[Fd(m)]] # "none"
<1>1. main # "done"
  BY InvParts DEF Owned, Serving
<1>2. /\ Fd(m) \in Fds /\ fdOf[Fd(m)] # None
      /\ interest[m][fdOf[Fd(m)]] # "none"
  BY Held, FdsAssumption
<1>3. Fd(m) \in Interested(m)
  BY <1>2 DEF Interested
<1>4. QED
  BY <1>1, <1>2, <1>3, InvParts DEF ManagersInSync

\* So asking for its next events succeeds.
LEMMA AskSucceeds ==
  ASSUME EchoInv, ~clobbered, kind = "multi", NEW m \in Managers, at[m] \in Serving,
         NEW e \in Asks \ {"none"}, AskNext(m, e)
  PROVE  /\ interest' = [interest EXCEPT ![m][cur[m].of] = e]
         /\ \A n \in Managers, c \in Conns :
              interest'[n][c] = IF n = m /\ c = cur[m].of THEN e ELSE interest[n][c]
         /\ at' = [at EXCEPT ![m] = "wait"]
         /\ cur' = [cur EXCEPT ![m] = None]
         /\ UNCHANGED <<mFds, thrown, kernelVars, batch, data>>
<1>1. /\ Fd(m) \in mFds[m] /\ interest[m][fdOf[Fd(m)]] # "none"
      /\ fdOf[Fd(m)] = cur[m].of /\ cur[m].of \in Conns /\ fdOf[Fd(m)] # None
  BY Held, HeldInSync
<1>2. ~CtlFails(m, Fd(m), "mod")
  BY <1>1 DEF CtlFails
<1>3. interest' = [interest EXCEPT ![m][cur[m].of] = e] /\ UNCHANGED thrown
  BY <1>1, <1>2 DEF AskNext, AddOrModFd
<1>4. UNCHANGED mFds
  BY <1>1, InvParts DEF AskNext, AddOrModFd, ServerTypes
<1>5. \A n \in Managers, c \in Conns :
              interest'[n][c] = IF n = m /\ c = cur[m].of THEN e ELSE interest[n][c]
  BY <1>1, <1>3, InvParts DEF KernelTypes
<1>6. QED
  BY <1>3, <1>4, <1>5 DEF AskNext

-----------------------------------------------------------------------------
(* What each step of a worker and of the main thread leaves of it.         *)

LEMMA AskWorkers ==
  ASSUME EchoInv, ~clobbered, kind = "multi", NEW m \in Managers, at[m] \in Serving,
         NEW e \in Asks \ {"none"}, AskNext(m, e), UNCHANGED serverVars
  PROVE  WorkersOK'
<1> USE InvParts DEF Serving, Leaving
<1>1. /\ \A n \in Managers, c \in Conns :
           interest'[n][c] = IF n = m /\ c = cur[m].of THEN e ELSE interest[n][c]
      /\ \A n \in Managers : at'[n] = IF n = m THEN "wait" ELSE at[n]
      /\ \A n \in Managers : n # m => cur'[n] = cur[n]
      /\ UNCHANGED <<mFds, thrown, fdOf, batch, kind, main, accepted, clobbered>>
  BY AskSucceeds DEF ServerTypes, kernelVars, serverVars
<1>2. \A n \in Managers, c \in Conns : interest'[n][c] # "none" <=> interest[n][c] # "none"
  BY <1>1, Held
<1>3. OneOwner'
  BY <1>2 DEF OneOwner
<1>4. BatchOK'
  BY <1>1, <1>2, Held, FdTypes DEF BatchOK
<1>5. CurOK'
  <2> SUFFICES ASSUME NEW n \in Managers, n # m, at[n] \in Serving \cup Leaving
               PROVE  Exclusive(n)'
    BY <1>1 DEF CurOK
  <2>1. n # m /\ cur'[n] = cur[n] /\ at'[n] = at[n] /\ cur[n].of \in Conns
    BY <1>1, FdTypes
  <2>2. \A k \in Managers : at'[k] \in Serving \cup Leaving => at[k] = at'[k] /\ cur[k] = cur'[k]
    BY <1>1
  <2>3. interest'[n][cur[n].of] = interest[n][cur[n].of]
    BY <1>1, <2>1
  <2>4. QED
    BY <1>1, <1>2, <2>1, <2>2, <2>3 DEF CurOK, Exclusive
<1>6. AcceptedOK'
  BY <1>1, <1>2, MainTypes DEF AcceptedOK, KernelTypes
<1>7. ManagersInSync'
  <2>1. \A n \in Managers : Interested(n)' = Interested(n)
    BY <1>1, <1>2 DEF Interested, KernelTypes
  <2>2. QED
    BY <1>1, <2>1 DEF ManagersInSync, Fd
<1>8. QED
  BY <1>3, <1>4, <1>5, <1>6, <1>7 DEF WorkersOK

LEMMA DispatchWorkers ==
  ASSUME EchoInv, ~clobbered, kind = "multi", NEW m \in Managers, Dispatch(m),
         UNCHANGED serverVars
  PROVE  WorkersOK'
<1> USE InvParts DEF Serving, Leaving
<1>1. PICK event \in batch[m] :
        /\ batch' = [batch EXCEPT ![m] = @ \ {event}]
        /\ cur' = [cur EXCEPT ![m] = event]
        /\ at' = [at EXCEPT ![m] = Branch(event.events)]
  BY DEF Dispatch
<1>2. at[m] = "wait" /\ UNCHANGED <<mFds, thrown, fdOf, interest, kind, main, accepted, clobbered>>
  BY DEF Dispatch, kernelVars, serverVars
<1>3. event \in EventType
  BY DEF ServerTypes
<1>4. /\ Branch(event.events) \in {"read", "write", "del"}
      /\ Branch(event.events) = "write" => "EPOLLIN" \notin event.events
  BY <1>3, BranchSays
<1>5. /\ \A n \in Managers : batch'[n] = IF n = m THEN batch[m] \ {event} ELSE batch[n]
      /\ \A n \in Managers : n # m => at'[n] = at[n] /\ cur'[n] = cur[n]
      /\ at'[m] \in {"read", "write", "del"} /\ cur'[m] = event
      /\ at'[m] = "write" => "EPOLLIN" \notin event.events
  BY <1>1, <1>4 DEF ServerTypes
<1>6. /\ event.fd \in Fds /\ event.of \in Conns
      /\ fdOf[event.fd] = event.of /\ event.of # None
      /\ interest[m][event.of] # "none"
      /\ "EPOLLIN" \in event.events \/ interest[m][event.of] = "out"
  BY FdTypes, FdsAssumption DEF BatchOK
<1>7. \A n \in Managers \ {m} :
        at[n] \in Serving \cup Leaving => cur[n].fd # event.fd
  BY Held DEF Fd
<1>8. OneOwner'
  BY <1>2 DEF OneOwner
<1>9. BatchOK'
  BY <1>2, <1>5 DEF BatchOK
<1>10. CurOK'
  <2> SUFFICES ASSUME NEW n \in Managers, at'[n] \in Serving \cup Leaving
               PROVE  Exclusive(n)'
    BY DEF CurOK
  <2>1. CASE n = m
    BY <1>2, <1>5, <1>6, <1>7, <2>1 DEF BatchOK, Exclusive
  <2>2. CASE n # m
    <3>1. at[n] \in Serving \cup Leaving /\ Exclusive(n)
      BY <1>5, <2>2 DEF CurOK
    <3>2. cur[n].fd # event.fd
      BY <1>7, <2>2, <3>1
    <3>3. QED
      BY <1>2, <1>5, <2>2, <3>1, <3>2 DEF Exclusive
  <2>3. QED
    BY <2>1, <2>2
<1>11. AcceptedOK'
  BY <1>2, <1>5, <1>6 DEF AcceptedOK
<1>12. ManagersInSync'
  <2>1. \A n \in Managers : Interested(n)' = Interested(n)
    BY <1>2 DEF Interested
  <2>2. QED
    BY <1>2, <1>5, <2>1 DEF ManagersInSync, Fd
<1>13. QED
  BY <1>8, <1>9, <1>10, <1>11, <1>12 DEF WorkersOK

LEMMA EpollWaitWorkers ==
  ASSUME EchoInv, ~clobbered, kind = "multi", NEW m \in Managers, EpollWait(m),
         UNCHANGED serverVars
  PROVE  WorkersOK'
<1> USE InvParts DEF Serving, Leaving
<1>1. /\ at[m] = "wait"
      /\ \A n \in Managers : batch'[n] = IF n = m THEN Ready(m) ELSE batch[n]
      /\ UNCHANGED <<mFds, thrown, fdOf, interest, at, cur, kind, main, accepted, clobbered>>
  BY DEF EpollWait, ServerTypes, kernelVars, serverVars
<1>2. OneOwner' /\ AcceptedOK'
  BY <1>1 DEF OneOwner, AcceptedOK
<1>3. BatchOK'
  BY <1>1, ReadySays DEF BatchOK
<1>4. CurOK'
  BY <1>1 DEF CurOK, Exclusive
<1>5. ManagersInSync'
  BY <1>1 DEF ManagersInSync, Interested, Fd
<1>6. QED
  BY <1>2, <1>3, <1>4, <1>5 DEF WorkersOK

\* A step of readFunc or writeFunc.
LEMMA ServeWorkers ==
  ASSUME EchoInv, ~clobbered, NEW m \in Managers, at[m] \in Serving,
         NEW s \in Serving \ {"write"}, at' = [at EXCEPT ![m] = s],
         UNCHANGED <<mFds, thrown, fdOf, interest, batch, cur, kind, main, accepted, clobbered>>
  PROVE  WorkersOK'
<1> USE InvParts DEF Serving, Leaving
<1>1. /\ \A n \in Managers : n # m => at'[n] = at[n]
      /\ at'[m] \in Serving \ {"write"}
  BY DEF ServerTypes
<1>2. OneOwner' /\ BatchOK'
  BY DEF OneOwner, BatchOK
<1>3. CurOK'
  BY <1>1 DEF CurOK, Exclusive
<1>4. AcceptedOK'
  BY <1>1 DEF AcceptedOK
<1>5. ManagersInSync'
  BY <1>1 DEF ManagersInSync, Interested, Fd
<1>6. QED
  BY <1>2, <1>3, <1>4, <1>5 DEF WorkersOK

LEMMA DelFdWorkers ==
  ASSUME EchoInv, ~clobbered, kind = "multi", NEW m \in Managers, DelFd(m),
         UNCHANGED serverVars
  PROVE  WorkersOK'
<1> USE InvParts DEF Serving, Leaving
<1>1. at[m] = "del" /\ fdOf[Fd(m)] = cur[m].of /\ cur[m].of \in Conns /\ Fd(m) \in Fds
      /\ fdOf[Fd(m)] # None /\ interest[m][fdOf[Fd(m)]] # "none"
      /\ Fd(m) \in mFds[m]
  BY Held, HeldInSync DEF DelFd
<1>2. ~CtlFails(m, Fd(m), "del")
  BY <1>1 DEF CtlFails
<1>3. /\ interest' = [interest EXCEPT ![m][cur[m].of] = "none"]
      /\ at' = [at EXCEPT ![m] = "erase"]
      /\ UNCHANGED <<mFds, thrown, fdOf, batch, cur, kind, main, accepted, clobbered>>
  BY <1>1, <1>2 DEF DelFd, kernelVars, serverVars
<1>4. /\ \A n \in Managers, c \in Conns :
           interest'[n][c] = IF n = m /\ c = cur[m].of THEN "none" ELSE interest[n][c]
      /\ \A n \in Managers : at'[n] = IF n = m THEN "erase" ELSE at[n]
  BY <1>1, <1>3 DEF ServerTypes, KernelTypes
<1>5. OneOwner'
  BY <1>4 DEF OneOwner
<1>6. BatchOK'
  BY <1>1, <1>3, <1>4, Held, FdTypes DEF BatchOK
<1>7. CurOK'
  <2> SUFFICES ASSUME NEW n \in Managers, at'[n] \in Serving \cup Leaving
               PROVE  Exclusive(n)'
    BY DEF CurOK
  <2>1. CASE n = m
    <3>1. \A k \in Managers : interest'[k][cur[m].of] = "none"
      BY <1>1, <1>4, Held
    <3>2. QED
      BY <1>1, <1>3, <1>4, <2>1, <3>1 DEF CurOK, Exclusive
  <2>2. CASE n # m
    <3>1. at[n] = at'[n] /\ Exclusive(n) /\ cur[n].of \in Conns /\ cur[n].of # cur[m].of
      BY <1>1, <1>4, <2>2, FdTypes, Held DEF CurOK
    <3>2. \A k \in Managers : interest'[k][cur[n].of] = interest[k][cur[n].of]
      BY <1>4, <3>1
    <3>3. QED
      BY <1>1, <1>3, <1>4, <3>1, <3>2 DEF Exclusive
  <2>3. QED
    BY <2>1, <2>2
<1>8. AcceptedOK'
  BY <1>1, <1>3, <1>4, MainTypes DEF AcceptedOK, KernelTypes
<1>9. ManagersInSync'
  <2>1. \A n \in Managers \ {m} : Interested(n)' = Interested(n)
    BY <1>3, <1>4 DEF Interested, KernelTypes
  <2>2. Interested(m)' = Interested(m) \ {Fd(m)}
    BY <1>1, <1>3, <1>4, Held DEF Interested, KernelTypes
  <2>3. ~thrown' /\ kind = "multi" /\ main # "done" /\ Fd(m)' = Fd(m)
    BY <1>1, <1>3, HeldInSync DEF ManagersInSync, Fd
  <2>4. ASSUME NEW n \in Managers
        PROVE  (mFds[n] = Interested(n) \cup (IF at[n] = "erase" THEN {Fd(n)} ELSE {}))'
    <3>1. mFds[n] = Interested(n) \cup (IF at[n] = "erase" THEN {Fd(n)} ELSE {})
      BY <2>3 DEF ManagersInSync
    <3>2. CASE n = m
      BY <1>1, <1>3, <1>4, <2>2, <2>3, <3>1, <3>2
    <3>3. CASE n # m
      BY <1>3, <1>4, <2>1, <3>1, <3>3 DEF Fd
    <3>4. QED
      BY <3>2, <3>3
  <2>5. QED
    BY <1>3, <2>3, <2>4 DEF ManagersInSync
<1>10. QED
  BY <1>5, <1>6, <1>7, <1>8, <1>9 DEF WorkersOK

LEMMA DelFdEraseWorkers ==
  ASSUME EchoInv, ~clobbered, kind = "multi", NEW m \in Managers, DelFdErase(m),
         UNCHANGED serverVars
  PROVE  WorkersOK'
<1> USE InvParts DEF Serving, Leaving
<1>1. /\ at[m] = "erase" /\ main # "done" /\ ~thrown
      /\ UNCHANGED <<thrown, fdOf, interest, batch, cur, kind, main, accepted, clobbered>>
  BY DEF DelFdErase, Owned, kernelVars, serverVars
<1>2. /\ \A n \in Managers : at'[n] = IF n = m THEN "delete" ELSE at[n]
      /\ \A n \in Managers : mFds'[n] = IF n = m THEN mFds[m] \ {Fd(m)} ELSE mFds[n]
  BY DEF DelFdErase, ServerTypes
<1>3. OneOwner' /\ BatchOK'
  BY <1>1 DEF OneOwner, BatchOK
<1>4. CurOK'
  BY <1>1, <1>2 DEF CurOK, Exclusive
<1>5. AcceptedOK'
  BY <1>1, <1>2 DEF AcceptedOK
<1>6. ManagersInSync'
  <2>1. Fd(m) \notin Interested(m)
    BY <1>1, Held DEF Interested
  <2>2. \A n \in Managers : Interested(n)' = Interested(n) /\ Fd(n)' = Fd(n)
    BY <1>1 DEF Interested, Fd
  <2>3. QED
    BY <1>1, <1>2, <2>1, <2>2 DEF ManagersInSync
<1>7. QED
  BY <1>3, <1>4, <1>5, <1>6 DEF WorkersOK

LEMMA ProcDeleteFdWorkers ==
  ASSUME EchoInv, ~clobbered, NEW m \in Managers, ProcDeleteFd(m)
  PROVE  WorkersOK'
<1> USE InvParts DEF Serving, Leaving
<1>1. /\ at[m] = "delete" /\ Close(Fd(m))
      /\ UNCHANGED <<mFds, thrown, batch, kind, main, accepted, clobbered>>
  BY DEF ProcDeleteFd, kernelVars, serverVars
<1>2. /\ fdOf[Fd(m)] = cur[m].of /\ Fd(m) \in Fds /\ cur[m].of \in Conns
      /\ \A n \in Managers : interest[n][cur[m].of] = "none"
  BY <1>1, Held
<1>3. /\ \A fd \in Fds : fd # Fd(m) => fdOf'[fd] = fdOf[fd]
      /\ fdOf'[Fd(m)] = None
      /\ \A n \in Managers, c \in Conns : interest'[n][c] = interest[n][c]
  BY <1>1, <1>2, CloseSays
<1>4. /\ \A n \in Managers : at'[n] = IF n = m THEN "wait" ELSE at[n]
      /\ \A n \in Managers : n # m => cur'[n] = cur[n]
  BY DEF ProcDeleteFd, ServerTypes
<1>5. OneOwner'
  BY <1>3 DEF OneOwner
<1>6. BatchOK'
  BY <1>1, <1>3, FdTypes, Held DEF BatchOK
<1>7. CurOK'
  <2> SUFFICES ASSUME NEW n \in Managers, n # m, at[n] \in Serving \cup Leaving
               PROVE  Exclusive(n)'
    BY <1>4 DEF CurOK
  <2>1. cur[n].fd \in Fds /\ cur[n].of \in Conns /\ cur[n].fd # Fd(m) /\ Exclusive(n)
    BY <1>1, Held, FdTypes DEF CurOK, Fd
  <2>2. fdOf'[cur[n].fd] = fdOf[cur[n].fd]
        /\ \A k \in Managers : interest'[k][cur[n].of] = interest[k][cur[n].of]
    BY <1>3, <2>1
  <2>3. QED
    BY <1>1, <1>4, <2>1, <2>2 DEF Exclusive
<1>8. AcceptedOK'
  <2>1. main = "add" => accepted \in Fds /\ accepted # Fd(m)
    BY <1>1, Held, MainTypes
  <2>2. QED
    BY <1>1, <1>3, <1>4, <2>1 DEF AcceptedOK, KernelTypes
<1>9. ManagersInSync'
  <2>1. ASSUME NEW n \in Managers PROVE Interested(n)' = Interested(n)
    BY <1>2, <1>3 DEF Interested, KernelTypes
  <2>2. QED
    BY <1>1, <1>4, <2>1 DEF ManagersInSync, Fd
<1>10. QED
  BY <1>5, <1>6, <1>7, <1>8, <1>9 DEF WorkersOK

LEMMA WorkerExitsWorkers ==
  ASSUME EchoInv, ~clobbered, NEW m \in Managers, WorkerExits(m)
  PROVE  WorkersOK'
<1> USE InvParts DEF Serving, Leaving
<1>1. /\ at[m] = "wait"
      /\ \A n \in Managers : at'[n] = IF n = m THEN "exited" ELSE at[n]
      /\ UNCHANGED <<mFds, thrown, fdOf, interest, batch, cur, kind, main, accepted, clobbered>>
  BY DEF WorkerExits, ServerTypes, kernelVars, serverVars
<1>2. OneOwner' /\ BatchOK' /\ AcceptedOK'
  BY <1>1 DEF OneOwner, BatchOK, AcceptedOK
<1>3. CurOK'
  BY <1>1 DEF CurOK, Exclusive
<1>4. ManagersInSync'
  BY <1>1 DEF ManagersInSync, Interested, Fd
<1>5. QED
  BY <1>2, <1>3, <1>4 DEF WorkersOK

\* A number that is given out was nobody's.
LEMMA FreshNumber ==
  ASSUME EchoInv, NEW c \in Conns, Accept(c)
  PROVE  /\ Lowest(FreeFds) \in Fds /\ fdOf[Lowest(FreeFds)] = None
         /\ \A fd \in Fds : fdOf'[fd] = IF fd = Lowest(FreeFds) THEN c ELSE fdOf[fd]
         /\ \A fd \in Fds : fdOf[fd] # c
         /\ \A m \in Managers : interest[m][c] = "none"
<1>1. KernelTypes /\ NumbersOK
  BY DEF EchoInv
<1>2. /\ Lowest(FreeFds) \in Fds /\ fdOf[Lowest(FreeFds)] = None
      /\ fdOf' = [fdOf EXCEPT ![Lowest(FreeFds)] = c] /\ conn[c] = "queued"
  BY <1>1, AcceptSays
<1>3. \A fd \in Fds : fdOf'[fd] = IF fd = Lowest(FreeFds) THEN c ELSE fdOf[fd]
  BY <1>1, <1>2 DEF KernelTypes
<1>4. \A fd \in Fds : fdOf[fd] # c
  BY <1>1, <1>2, FdsAssumption DEF NumbersOK
<1>5. \A m \in Managers : interest[m][c] = "none"
  BY <1>1, <1>4 DEF NumbersOK
<1>6. QED
  BY <1>2, <1>3, <1>4, <1>5

LEMMA MainAcceptWorkers ==
  ASSUME EchoInv, ~clobbered, NEW c \in Conns, MainAccept(c)
  PROVE  WorkersOK'
<1> USE InvParts DEF Serving, Leaving
<1>1. PICK f \in Fds :
        /\ fdOf[f] = None /\ accepted' = f
        /\ \A fd \in Fds : fdOf'[fd] = IF fd = f THEN c ELSE fdOf[fd]
        /\ \A m \in Managers : interest[m][c] = "none"
  BY FreshNumber DEF MainAccept
<1>2. /\ UNCHANGED <<mFds, thrown, interest, batch, at, cur, kind, clobbered>>
      /\ kind = "multi" /\ main = "epoll" /\ main' = "add"
  BY DEF MainAccept, managerVars
<1>3. \A m \in Managers : at[m] \in Serving \cup Leaving =>
        cur[m].fd \in Fds /\ cur[m].fd # f
  BY <1>1, Held, FdsAssumption DEF Fd
<1>4. OneOwner'
  BY <1>2 DEF OneOwner
<1>5. BatchOK'
  <2>1. ASSUME NEW m \in Managers, NEW event \in batch[m]
        PROVE  event.fd \in Fds /\ event.fd # f
    BY <1>1, <2>1, FdTypes, FdsAssumption DEF BatchOK
  <2>2. QED
    BY <1>1, <1>2, <2>1 DEF BatchOK
<1>6. CurOK'
  BY <1>1, <1>2, <1>3 DEF CurOK, Exclusive
<1>7. AcceptedOK'
  BY <1>1, <1>2, <1>3, FdsAssumption DEF AcceptedOK
<1>8. ManagersInSync'
  <2>1. \A m \in Managers : Interested(m)' = Interested(m)
    BY <1>1, <1>2 DEF Interested
  <2>2. QED
    BY <1>2, <2>1 DEF ManagersInSync, Fd
<1>9. QED
  BY <1>4, <1>5, <1>6, <1>7, <1>8 DEF WorkersOK

LEMMA AddClientFdWorkers ==
  ASSUME EchoInv, ~clobbered, AddClientFd
  PROVE  WorkersOK'
<1> USE InvParts DEF Serving, Leaving
<1>1. PICK w \in Managers : AddOrModFd(w, accepted, "in")
  BY NextWorkerIsManager, MainTypes DEF AddClientFd
<1>2. /\ main = "add" /\ kind = "multi" /\ main' = "own" /\ ~thrown
      /\ UNCHANGED <<fdOf, batch, at, cur, kind, accepted, clobbered>>
  BY DEF AddClientFd, kernelVars, OneThread, ServerTypes
<1>3. /\ accepted \in Fds /\ fdOf[accepted] # None /\ fdOf[accepted] \in Conns
      /\ \A m \in Managers : interest[m][fdOf[accepted]] = "none"
      /\ \A m \in Managers : at[m] \in Serving \cup Leaving => Fd(m) # accepted
  BY <1>2, MainTypes DEF AcceptedOK, KernelTypes, Fd
<1>4. accepted \notin mFds[w]
  <2>1. accepted \notin Interested(w) /\ (at[w] = "erase" => Fd(w) # accepted)
    BY <1>3 DEF Interested
  <2>2. QED
    BY <1>2, <2>1 DEF ManagersInSync
<1>5. ~CtlFails(w, accepted, "add")
  BY <1>3 DEF CtlFails
<1>6. /\ interest' = [interest EXCEPT ![w][fdOf[accepted]] = "in"]
      /\ mFds' = [mFds EXCEPT ![w] = @ \cup {accepted}]
      /\ UNCHANGED thrown
  BY <1>1, <1>4, <1>5 DEF AddOrModFd
<1>7. /\ \A m \in Managers, c \in Conns : interest'[m][c] =
           IF m = w /\ c = fdOf[accepted] THEN "in" ELSE interest[m][c]
      /\ \A m \in Managers : mFds'[m] = IF m = w THEN mFds[w] \cup {accepted} ELSE mFds[m]
  BY <1>3, <1>6 DEF KernelTypes, ServerTypes
<1>8. OneOwner'
  BY <1>3, <1>7 DEF OneOwner
<1>9. BatchOK'
  BY <1>2, <1>3, <1>7, FdTypes DEF BatchOK
<1>10. CurOK'
  <2> SUFFICES ASSUME NEW m \in Managers, at[m] \in Serving \cup Leaving
               PROVE  Exclusive(m)'
    BY <1>2 DEF CurOK
  <2>1. Exclusive(m) /\ cur[m].of \in Conns /\ cur[m].of # fdOf[accepted]
    BY <1>3, Held DEF CurOK
  <2>2. \A n \in Managers : interest'[n][cur[m].of] = interest[n][cur[m].of]
    BY <1>7, <2>1
  <2>3. QED
    BY <1>2, <2>1, <2>2 DEF Exclusive
<1>11. AcceptedOK'
  BY <1>2 DEF AcceptedOK
<1>12. ManagersInSync'
  <2>1. \A m \in Managers :
          Interested(m)' = IF m = w THEN Interested(m) \cup {accepted} ELSE Interested(m)
    <3>1. ASSUME NEW m \in Managers, m # w PROVE Interested(m)' = Interested(m)
      BY <1>2, <1>7, <3>1 DEF Interested, KernelTypes
    <3>2. Interested(w)' = Interested(w) \cup {accepted}
      BY <1>2, <1>3, <1>7 DEF Interested, KernelTypes, NumbersOK
    <3>3. QED
      BY <3>1, <3>2
  <2>2. QED
    BY <1>2, <1>6, <1>7, <2>1 DEF ManagersInSync, Fd
<1>13. QED
  BY <1>8, <1>9, <1>10, <1>11, <1>12 DEF WorkersOK

LEMMA OwnFdWorkers ==
  ASSUME EchoInv, ~clobbered, OwnFd, ~clobbered'
  PROVE  WorkersOK' /\ UNCHANGED <<conn, fdOf, interest>>
<1> USE InvParts
<1>1. accepted \in Fds
  BY MainTypes DEF OwnFd
<1>2. UNCHANGED <<conn, fdOf, interest>>
  BY <1>1, CloseSays DEF OwnFd
<1>3. /\ main = "own" /\ main' = "epoll"
      /\ UNCHANGED <<mFds, thrown, fdOf, interest, batch, at, cur, kind>>
  BY <1>2 DEF OwnFd
<1>4. OneOwner' /\ BatchOK' /\ AcceptedOK'
  BY <1>3 DEF OneOwner, BatchOK, AcceptedOK
<1>5. CurOK'
  BY <1>3 DEF CurOK, Exclusive
<1>6. ManagersInSync'
  BY <1>3 DEF ManagersInSync, Interested, Fd
<1>7. QED
  BY <1>2, <1>4, <1>5, <1>6 DEF WorkersOK

LEMMA MainReturnsWorkers ==
  ASSUME EchoInv, ~clobbered, MainReturns
  PROVE  WorkersOK'
<1> USE InvParts DEF Serving, Leaving
<1>1. /\ \A m \in Managers : at[m] = "exited" /\ batch[m] = {}
      /\ \A m \in Managers, c \in Conns : interest'[m][c] = "none"
      /\ main' = "done" /\ UNCHANGED <<batch, at, thrown, kind, clobbered>>
  BY DEF MainReturns, ServerTypes
<1>2. OneOwner' /\ BatchOK' /\ CurOK' /\ AcceptedOK'
  BY <1>1 DEF OneOwner, BatchOK, CurOK, AcceptedOK
<1>3. ManagersInSync'
  BY <1>1 DEF ManagersInSync
<1>4. QED
  BY <1>2, <1>3 DEF WorkersOK

-----------------------------------------------------------------------------
(* The single-thread server: only the batch matters.                       *)

LEMMA SingleWorkers ==
  ASSUME OneThread', kind' = "single", BatchOK'
  PROVE  WorkersOK'
<1>1. /\ \A m \in Managers : at'[m] = "wait"
      /\ \A m \in Managers \ {Only}, c \in Conns : interest'[m][c] = "none"
      /\ ~thrown' /\ main' # "add"
  BY DEF OneThread
<1>2. OneOwner' /\ CurOK' /\ AcceptedOK'
  BY <1>1 DEF OneOwner, CurOK, AcceptedOK, Serving, Leaving
<1>3. ManagersInSync'
  BY <1>1 DEF ManagersInSync
<1>4. QED
  BY <1>2, <1>3 DEF WorkersOK

LEMMA SingleWaitBatch ==
  ASSUME EchoInv, ~clobbered, SingleWait
  PROVE  BatchOK'
<1> USE InvParts, OnlyIsManager
<1>1. /\ \A m \in Managers : batch'[m] = IF m = Only THEN Ready(Only) ELSE batch[m]
      /\ UNCHANGED <<fdOf, interest>>
  BY DEF SingleWait, ServerTypes, kernelVars
<1>2. QED
  BY <1>1, ReadySays DEF BatchOK

LEMMA SingleAcceptBatch ==
  ASSUME EchoInv, ~clobbered, NEW c \in Conns, SingleAccept(c)
  PROVE  BatchOK'
<1> USE InvParts, OnlyIsManager
<1>1. PICK f \in Fds :
        /\ fdOf[f] = None
        /\ \A fd \in Fds : fdOf'[fd] = IF fd = f THEN c ELSE fdOf[fd]
        /\ \A m \in Managers : interest[m][c] = "none"
  BY FreshNumber DEF SingleAccept
<1>2. /\ \A m \in Managers, d \in Conns : d # c => interest'[m][d] = interest[m][d]
      /\ UNCHANGED batch
  BY DEF SingleAccept, KernelTypes
<1>3. \A m \in Managers : \A event \in batch[m] :
        event.fd \in Fds /\ event.fd # f /\ event.of \in Conns /\ event.of # c
  BY <1>1, FdTypes, FdsAssumption DEF BatchOK
<1>4. QED
  BY <1>1, <1>2, <1>3 DEF BatchOK

\* Handling an event touches no other event's connection.
LEMMA HandlesBatch ==
  ASSUME EchoInv, ~clobbered, kind = "single", NEW event \in batch[Only], Handles(event),
         \A fd \in Fds : fd # event.fd => fdOf'[fd] = fdOf[fd],
         \A m \in Managers, c \in Conns : c # event.of => interest'[m][c] = interest[m][c]
  PROVE  BatchOK'
<1> USE InvParts, OnlyIsManager
<1>1. /\ \A m \in Managers : batch'[m] = IF m = Only THEN batch[Only] \ {event} ELSE batch[m]
      /\ \A m \in Managers : m # Only => batch[m] = {}
  BY DEF Handles, ServerTypes, OneThread
<1>2. \A other \in batch[Only] \ {event} :
        /\ other.fd \in Fds /\ other.of \in Conns
        /\ other.fd # event.fd /\ other.of # event.of
  BY FdTypes, FdsAssumption DEF BatchOK, NumbersOK
<1>3. QED
  BY <1>1, <1>2 DEF BatchOK

LEMMA UnchangedWorkers ==
  ASSUME WorkersOK, ~clobbered,
         UNCHANGED <<fdOf, interest, mFds, batch, cur, at, thrown, kind, accepted>>,
         main' = main \/ (main # "done" /\ main' # "add")
  PROVE  WorkersOK'
<1>1. OneOwner' /\ BatchOK' /\ CurOK'
  BY DEF WorkersOK, OneOwner, BatchOK, CurOK, Exclusive
<1>2. AcceptedOK'
  BY DEF WorkersOK, AcceptedOK
<1>3. ManagersInSync'
  BY DEF WorkersOK, ManagersInSync, Interested, Fd
<1>4. QED
  BY <1>1, <1>2, <1>3 DEF WorkersOK

LEMMA WorkersStep ==
  ASSUME EchoInv, ~clobbered, ~clobbered', OneThread', [Next]_vars
  PROVE  WorkersOK'
<1> USE InvParts, OnlyIsManager, FdTypes DEF kernelVars, managerVars, serverVars
<1>0. WorkersOK
  BY DEF WorkersOK
<1>1. ASSUME NEW c \in Conns, Connect(c) PROVE WorkersOK'
  BY <1>0, <1>1, UnchangedWorkers DEF Connect
<1>2. ASSUME NEW c \in Conns, Send(c) PROVE WorkersOK'
  BY <1>0, <1>2, UnchangedWorkers DEF Send
<1>3. ASSUME NEW c \in Conns, Receive(c) PROVE WorkersOK'
  BY <1>0, <1>3, UnchangedWorkers DEF Receive
<1>4. ASSUME NEW c \in Conns, HangUp(c) PROVE WorkersOK'
  BY <1>0, <1>4, UnchangedWorkers DEF HangUp
<1>5. ASSUME NEW m \in Managers, kind = "multi", EpollWait(m), UNCHANGED serverVars
      PROVE  WorkersOK'
  BY <1>5, EpollWaitWorkers
<1>6. ASSUME NEW m \in Managers, kind = "multi", Dispatch(m), UNCHANGED serverVars
      PROVE  WorkersOK'
  BY <1>6, DispatchWorkers
<1>7. ASSUME NEW m \in Managers, kind = "multi", ProcReadEnds(m), UNCHANGED serverVars
      PROVE  WorkersOK'
  BY <1>7, AskWorkers DEF ProcReadEnds, Serving, Asks
<1>8. ASSUME NEW m \in Managers, kind = "multi", ProcWriteEnds(m), UNCHANGED serverVars
      PROVE  WorkersOK'
  BY <1>8, AskWorkers DEF ProcWriteEnds, Serving, Asks
<1>9. ASSUME NEW m \in Managers, kind = "multi", DelFd(m), UNCHANGED serverVars
      PROVE  WorkersOK'
  BY <1>9, DelFdWorkers
<1>10. ASSUME NEW m \in Managers, kind = "multi", DelFdErase(m), UNCHANGED serverVars
      PROVE  WorkersOK'
  BY <1>10, DelFdEraseWorkers
<1>11. ASSUME NEW m \in Managers, ProcRead(m) PROVE WorkersOK'
  <2>1. PICK s \in {"askOut", "del"} : at' = [at EXCEPT ![m] = s]
    BY <1>11 DEF ProcRead
  <2>2. at[m] \in Serving /\ s \in Serving \ {"write"}
    BY <1>11 DEF ProcRead, Serving
  <2>3. QED
    BY <1>11, <2>1, <2>2, ServeWorkers DEF ProcRead, Read
<1>12. ASSUME NEW m \in Managers, ProcWrite(m) PROVE WorkersOK'
  <2>1. PICK s \in {"askIn", "del"} : at' = [at EXCEPT ![m] = s]
    BY <1>12 DEF ProcWrite
  <2>2. at[m] \in Serving /\ s \in Serving \ {"write"}
    BY <1>12 DEF ProcWrite, Serving
  <2>3. QED
    BY <1>12, <2>1, <2>2, ServeWorkers DEF ProcWrite, Write
<1>13. ASSUME NEW m \in Managers, ProcDeleteFd(m) PROVE WorkersOK'
  BY <1>13, ProcDeleteFdWorkers
<1>14. ASSUME NEW m \in Managers, WorkerExits(m) PROVE WorkersOK'
  BY <1>14, WorkerExitsWorkers
<1>15. CASE StartMulti
  BY <1>0, <1>15, UnchangedWorkers DEF StartMulti
<1>16. ASSUME NEW c \in Conns, MainAccept(c) PROVE WorkersOK'
  BY <1>16, MainAcceptWorkers
<1>17. CASE AddClientFd
  BY <1>17, AddClientFdWorkers
<1>18. CASE OwnFd
  BY <1>18, OwnFdWorkers
<1>19. CASE MainReturns
  BY <1>19, MainReturnsWorkers
<1>20. CASE StartSingle
  BY <1>0, <1>20, UnchangedWorkers DEF StartSingle
<1>21. CASE SingleWait
  BY <1>21, SingleWaitBatch, SingleWorkers DEF SingleWait
<1>22. ASSUME NEW c \in Conns, SingleAccept(c) PROVE WorkersOK'
  BY <1>22, SingleAcceptBatch, SingleWorkers DEF SingleAccept
<1>23. ASSUME NEW event \in batch[Only], SingleRead(event) PROVE WorkersOK'
  <2>0. /\ Handles(event) /\ kind = "single" /\ kind' = "single"
        /\ event.fd \in Fds /\ event.of \in Conns /\ fdOf[event.fd] = event.of
    BY <1>23 DEF SingleRead, Handles, BatchOK
  <2>1. CASE CloseAndClearFd(event.fd)
    <3>1. \A fd \in Fds : fd # event.fd => fdOf'[fd] = fdOf[fd]
      BY <2>0, <2>1, CloseSays DEF CloseAndClearFd
    <3>2. \A m \in Managers, c \in Conns : c # event.of => interest'[m][c] = interest[m][c]
      BY <2>0, <2>1, CloseSays DEF CloseAndClearFd
    <3>3. QED
      BY <2>0, <3>1, <3>2, HandlesBatch, SingleWorkers
  <2>2. CASE UNCHANGED fdOf /\ interest' = [interest EXCEPT ![Only][event.of] = "out"]
    <3>1. \A m \in Managers, c \in Conns : c # event.of => interest'[m][c] = interest[m][c]
      BY <2>2 DEF KernelTypes
    <3>2. QED
      BY <2>0, <2>2, <3>1, HandlesBatch, SingleWorkers
  <2>3. QED
    BY <1>23, <2>0, <2>1, <2>2 DEF SingleRead, Read
<1>24. ASSUME NEW event \in batch[Only], SingleWrite(event) PROVE WorkersOK'
  <2>0. /\ Handles(event) /\ kind = "single" /\ kind' = "single"
        /\ event.fd \in Fds /\ event.of \in Conns /\ fdOf[event.fd] = event.of
    BY <1>24 DEF SingleWrite, Handles, BatchOK
  <2>1. CASE CloseAndClearFd(event.fd)
    <3>1. \A fd \in Fds : fd # event.fd => fdOf'[fd] = fdOf[fd]
      BY <2>0, <2>1, CloseSays DEF CloseAndClearFd
    <3>2. \A m \in Managers, c \in Conns : c # event.of => interest'[m][c] = interest[m][c]
      BY <2>0, <2>1, CloseSays DEF CloseAndClearFd
    <3>3. QED
      BY <2>0, <3>1, <3>2, HandlesBatch, SingleWorkers
  <2>2. CASE UNCHANGED fdOf /\ interest' = [interest EXCEPT ![Only][event.of] = "inrd"]
    <3>1. \A m \in Managers, c \in Conns : c # event.of => interest'[m][c] = interest[m][c]
      BY <2>2 DEF KernelTypes
    <3>2. QED
      BY <2>0, <2>2, <3>1, HandlesBatch, SingleWorkers
  <2>3. QED
    BY <1>24, <2>0, <2>1, <2>2 DEF SingleWrite, Write
<1>25. ASSUME NEW event \in batch[Only], SingleDelete(event) PROVE WorkersOK'
  <2>0. /\ Handles(event) /\ kind = "single" /\ kind' = "single"
        /\ event.fd \in Fds /\ event.of \in Conns /\ fdOf[event.fd] = event.of
    BY <1>25 DEF SingleDelete, Handles, BatchOK
  <2>1. CloseAndClearFd(event.fd)
    BY <1>25 DEF SingleDelete
  <2>2. QED
    <3>1. \A fd \in Fds : fd # event.fd => fdOf'[fd] = fdOf[fd]
      BY <2>0, <2>1, CloseSays DEF CloseAndClearFd
    <3>2. \A m \in Managers, c \in Conns : c # event.of => interest'[m][c] = interest[m][c]
      BY <2>0, <2>1, CloseSays DEF CloseAndClearFd
    <3>3. QED
      BY <2>0, <3>1, <3>2, HandlesBatch, SingleWorkers
<1>26. CASE SingleReturns
  <2>1. \A m \in Managers : batch'[m] = {}
    BY <1>26 DEF SingleReturns, OneThread
  <2>2. BatchOK'
    BY <2>1 DEF BatchOK
  <2>3. QED
    BY <1>26, <2>2, SingleWorkers DEF SingleReturns
<1>27. CASE StopServer
  BY <1>0, <1>27, UnchangedWorkers DEF StopServer
<1>28. CASE UNCHANGED vars
  BY <1>0, <1>28, UnchangedWorkers DEF vars
<1>29. QED
  BY <1>1, <1>2, <1>3, <1>4, <1>5, <1>6, <1>7, <1>8, <1>9, <1>10, <1>11, <1>12,
     <1>13, <1>14, <1>15, <1>16, <1>17, <1>18, <1>19, <1>20, <1>21, <1>22, <1>23,
     <1>24, <1>25, <1>26, <1>27, <1>28 DEF Next, Peer, Worker, Manager, Main, Single

-----------------------------------------------------------------------------
(* Answers.                                                                *)

LEMMA KeepAnswers ==
  ASSUME EchoInv, ~clobbered, ~clobbered', UNCHANGED <<request, reply, asked>>,
         \A m \in Managers, c \in Conns : Owes(m, c)' =>
           /\ Owes(m, c)
           /\ \A fd \in Fds : fdOf'[fd] = c => fdOf[fd] = c /\ data'[m][fd] = data[m][fd]
  PROVE  AnswersOK'
<1>1. AnswersOK
  BY InvParts
<1>2. ASSUME NEW m \in Managers, NEW c \in Conns, Owes(m, c)' PROVE Due(m, c)'
  <2>1. Due(m, c)
    BY <1>1, <1>2 DEF AnswersOK
  <2>2. QED
    BY <1>2, <2>1 DEF Due
<1>3. QED
  BY <1>1, <1>2 DEF AnswersOK, AnswersAreOwn

LEMMA SendAnswers ==
  ASSUME EchoInv, ~clobbered, NEW c \in Conns, Send(c)
  PROVE  AnswersOK'
<1>1. AnswersOK
  BY InvParts
<1>2. /\ c \notin asked /\ request' = request \cup {c} /\ asked' = asked \cup {c}
      /\ UNCHANGED <<reply, interest, at, cur, fdOf, data, clobbered>>
  BY DEF Send, managerVars
<1>3. reply[c] = {}
  BY <1>1, <1>2 DEF AnswersOK, AnswersAreOwn
<1>4. ASSUME NEW m \in Managers, NEW d \in Conns, Owes(m, d)' PROVE Due(m, d)'
  <2>1. Due(m, d)
    BY <1>1, <1>2, <1>4 DEF AnswersOK, Owes
  <2>2. QED
    BY <1>2, <2>1 DEF Due
<1>5. QED
  BY <1>1, <1>2, <1>3, <1>4 DEF AnswersOK, AnswersAreOwn

LEMMA ReceiveAnswers ==
  ASSUME EchoInv, ~clobbered, NEW c \in Conns, Receive(c)
  PROVE  AnswersOK'
<1>1. AnswersOK /\ KernelTypes
  BY InvParts
<1>2. /\ reply[c] # {} /\ asked' = asked \ {c}
      /\ \A d \in Conns : reply'[d] = IF d = c THEN {} ELSE reply[d]
      /\ UNCHANGED <<request, interest, at, cur, fdOf, data, clobbered>>
  BY <1>1 DEF Receive, KernelTypes, managerVars
<1>3. c \notin request
  BY <1>1, <1>2 DEF AnswersOK
<1>4. ASSUME NEW m \in Managers, NEW d \in Conns, Owes(m, d)' PROVE Due(m, d)'
  <2>1. Due(m, d)
    BY <1>1, <1>2, <1>4 DEF AnswersOK, Owes
  <2>2. QED
    BY <1>2, <2>1 DEF Due
<1>5. AnswersAreOwn'
  BY <1>1, <1>2 DEF AnswersOK, AnswersAreOwn
<1>6. \A d \in request' : d \in asked' /\ reply'[d] = {}
  BY <1>1, <1>2, <1>3 DEF AnswersOK, KernelTypes
<1>7. QED
  BY <1>4, <1>5, <1>6 DEF AnswersOK

\* What has been read is due.
LEMMA ReadAnswers ==
  ASSUME EchoInv, ~clobbered, ~clobbered', NEW m \in Managers, NEW fd \in Fds,
         ~ReadFails(fd), Read(m, fd), UNCHANGED asked,
         \A n \in Managers, c \in Conns :
           Owes(n, c)' => Owes(n, c) \/ (n = m /\ c = fdOf[fd])
  PROVE  AnswersOK'
<1>1. AnswersOK /\ KernelTypes /\ ServerTypes /\ NumbersOK
  BY InvParts
<1>2. /\ fdOf[fd] \in request /\ fdOf[fd] \in Conns
      /\ request' = request \ {fdOf[fd]}
      /\ data' = [data EXCEPT ![m][fd] = fdOf[fd]]
      /\ UNCHANGED <<fdOf, reply>>
  BY <1>1, ReadTypes
<1>3. \A n \in Managers, f \in Fds :
        data'[n][f] = IF n = m /\ f = fd THEN fdOf[fd] ELSE data[n][f]
  BY <1>1, <1>2 DEF ServerTypes
<1>4. ASSUME NEW n \in Managers, NEW c \in Conns, Owes(n, c)' PROVE Due(n, c)'
  <2>1. CASE c = fdOf[fd] /\ n = m
    BY <1>1, <1>2, <1>3, <2>1, FdsAssumption DEF Due, AnswersOK, NumbersOK
  <2>2. CASE Owes(n, c)
    <3>1. Due(n, c)
      BY <1>1, <2>2 DEF AnswersOK
    <3>2. c # fdOf[fd]
      BY <1>2, <3>1 DEF Due
    <3>3. QED
      BY <1>2, <1>3, <3>1, <3>2 DEF Due
  <2>3. QED
    BY <1>4, <2>1, <2>2
<1>5. QED
  BY <1>1, <1>2, <1>4 DEF AnswersOK, AnswersAreOwn

\* The answer to the peer that waits for it.
LEMMA WriteAnswers ==
  ASSUME EchoInv, ~clobbered, ~clobbered', NEW m \in Managers, NEW fd \in Fds,
         Write(m, fd), Owes(m, fdOf[fd]), UNCHANGED <<asked, data>>,
         \A n \in Managers, c \in Conns : Owes(n, c)' => Owes(n, c) /\ c # fdOf[fd]
  PROVE  AnswersOK'
<1>1. AnswersOK /\ KernelTypes /\ ServerTypes
  BY InvParts
<1>2. /\ fdOf[fd] \in Conns
      /\ reply' = [reply EXCEPT ![fdOf[fd]] = @ \cup {data[m][fd]}]
      /\ UNCHANGED <<fdOf, request>>
  BY <1>1, WriteTypes
<1>3. /\ fdOf[fd] \in asked /\ fdOf[fd] \notin request
      /\ reply[fdOf[fd]] = {} /\ data[m][fd] = fdOf[fd]
  BY <1>1, <1>2 DEF AnswersOK, Due
<1>4. \A c \in Conns : reply'[c] = IF c = fdOf[fd] THEN {c} ELSE reply[c]
  BY <1>1, <1>2, <1>3 DEF KernelTypes
<1>5. AnswersAreOwn'
  BY <1>1, <1>3, <1>4 DEF AnswersOK, AnswersAreOwn
<1>6. \A c \in request' : c \in asked' /\ reply'[c] = {}
  BY <1>1, <1>2, <1>3, <1>4 DEF AnswersOK, KernelTypes
<1>7. ASSUME NEW n \in Managers, NEW c \in Conns, Owes(n, c)' PROVE Due(n, c)'
  <2>1. Due(n, c) /\ c # fdOf[fd]
    BY <1>1, <1>7 DEF AnswersOK
  <2>2. QED
    BY <1>2, <1>4, <2>1 DEF Due
<1>8. QED
  BY <1>5, <1>6, <1>7 DEF AnswersOK

LEMMA AnswersStep ==
  ASSUME EchoInv, ~clobbered, ~clobbered', [Next]_vars
  PROVE  AnswersOK'
<1> USE InvParts, OnlyIsManager, FdTypes
    DEF Serving, Leaving, kernelVars, managerVars, serverVars
<1>1. ASSUME NEW c \in Conns, Connect(c) PROVE AnswersOK'
  <2>1. UNCHANGED <<request, reply, asked, interest, at, cur, fdOf, data>>
    BY <1>1 DEF Connect
  <2>2. QED
    BY <2>1, KeepAnswers DEF Owes
<1>2. ASSUME NEW c \in Conns, Send(c) PROVE AnswersOK'
  BY <1>2, SendAnswers
<1>3. ASSUME NEW c \in Conns, Receive(c) PROVE AnswersOK'
  BY <1>3, ReceiveAnswers
<1>4. ASSUME NEW c \in Conns, HangUp(c) PROVE AnswersOK'
  <2>1. UNCHANGED <<request, reply, asked, interest, at, cur, fdOf, data>>
    BY <1>4 DEF HangUp
  <2>2. QED
    BY <2>1, KeepAnswers DEF Owes
<1>5. ASSUME NEW m \in Managers, kind = "multi", EpollWait(m), UNCHANGED serverVars
      PROVE  AnswersOK'
  <2>1. UNCHANGED <<request, reply, asked, interest, at, cur, fdOf, data>>
    BY <1>5 DEF EpollWait
  <2>2. QED
    BY <2>1, KeepAnswers DEF Owes
<1>6. ASSUME NEW m \in Managers, kind = "multi", Dispatch(m), UNCHANGED serverVars
      PROVE  AnswersOK'
  <2>1. PICK event \in batch[m] :
          /\ at[m] = "wait" /\ Branch(event.events) \in {"read", "write", "del"}
          /\ cur' = [cur EXCEPT ![m] = event]
          /\ at' = [at EXCEPT ![m] = Branch(event.events)]
    BY <1>6, BranchSays DEF Dispatch, ServerTypes
  <2>2. \A n \in Managers : IF n = m THEN at'[n] \in {"read", "write", "del"}
                                    ELSE at'[n] = at[n] /\ cur'[n] = cur[n]
    BY <2>1 DEF ServerTypes
  <2>3. UNCHANGED <<request, reply, asked, interest, fdOf, data>>
    BY <1>6 DEF Dispatch
  <2>4. QED
    BY <2>1, <2>2, <2>3, KeepAnswers DEF Owes
<1>7. ASSUME NEW m \in Managers, kind = "multi", ProcReadEnds(m), UNCHANGED serverVars
      PROVE  AnswersOK'
  <2>1. at[m] = "askOut" /\ at[m] \in Serving /\ "out" \in Asks \ {"none"} /\ AskNext(m, "out")
    BY <1>7 DEF ProcReadEnds, Asks
  <2>2. /\ \A n \in Managers, c \in Conns :
             interest'[n][c] = IF n = m /\ c = cur[m].of THEN "out" ELSE interest[n][c]
        /\ \A n \in Managers : IF n = m THEN at'[n] = "wait"
                                      ELSE at'[n] = at[n] /\ cur'[n] = cur[n]
        /\ UNCHANGED <<request, reply, asked, fdOf, data>>
    BY <1>7, <2>1, AskSucceeds DEF ServerTypes
  <2>3. QED
    BY <2>1, <2>2, KeepAnswers DEF Owes
<1>8. ASSUME NEW m \in Managers, kind = "multi", ProcWriteEnds(m), UNCHANGED serverVars
      PROVE  AnswersOK'
  <2>1. at[m] = "askIn" /\ at[m] \in Serving /\ "inrd" \in Asks \ {"none"} /\ AskNext(m, "inrd")
    BY <1>8 DEF ProcWriteEnds, Asks
  <2>2. /\ \A n \in Managers, c \in Conns :
             interest'[n][c] = IF n = m /\ c = cur[m].of THEN "inrd" ELSE interest[n][c]
        /\ \A n \in Managers : IF n = m THEN at'[n] = "wait"
                                      ELSE at'[n] = at[n] /\ cur'[n] = cur[n]
        /\ UNCHANGED <<request, reply, asked, fdOf, data>>
    BY <1>8, <2>1, AskSucceeds DEF ServerTypes
  <2>3. QED
    BY <2>1, <2>2, KeepAnswers DEF Owes
<1>9. ASSUME NEW m \in Managers, kind = "multi", DelFd(m), UNCHANGED serverVars
      PROVE  AnswersOK'
  <2>1. /\ at[m] = "del" /\ cur[m].of \in Conns /\ fdOf[Fd(m)] = cur[m].of
        /\ fdOf[Fd(m)] # None /\ interest[m][fdOf[Fd(m)]] # "none"
    BY <1>9, Held, HeldInSync DEF DelFd
  <2>2. ~CtlFails(m, Fd(m), "del")
    BY <2>1 DEF CtlFails
  <2>3. /\ \A n \in Managers, c \in Conns :
             interest'[n][c] = IF n = m /\ c = cur[m].of THEN "none" ELSE interest[n][c]
        /\ \A n \in Managers : at'[n] = IF n = m THEN "erase" ELSE at[n]
        /\ UNCHANGED <<request, reply, asked, cur, fdOf, data>>
    BY <1>9, <2>1, <2>2 DEF DelFd, ServerTypes, KernelTypes
  <2>4. QED
    BY <2>1, <2>3, KeepAnswers DEF Owes
<1>10. ASSUME NEW m \in Managers, kind = "multi", DelFdErase(m), UNCHANGED serverVars
      PROVE  AnswersOK'
  <2>1. /\ at[m] = "erase"
        /\ \A n \in Managers : at'[n] = IF n = m THEN "delete" ELSE at[n]
        /\ UNCHANGED <<request, reply, asked, interest, cur, fdOf, data>>
    BY <1>10 DEF DelFdErase, ServerTypes
  <2>2. QED
    BY <2>1, KeepAnswers DEF Owes
<1>11. ASSUME NEW m \in Managers, ProcRead(m) PROVE AnswersOK'
  <2>1. at[m] = "read" /\ UNCHANGED <<asked, interest, cur>>
    BY <1>11 DEF ProcRead
  <2>2. CASE ReadFails(Fd(m))
    <3>1. /\ \A n \in Managers : at'[n] = IF n = m THEN "del" ELSE at[n]
          /\ UNCHANGED <<request, reply, fdOf, data>>
      BY <1>11, <2>2 DEF ProcRead, ServerTypes
    <3>2. QED
      BY <2>1, <3>1, KeepAnswers DEF Owes
  <2>3. CASE ~ReadFails(Fd(m))
    <3>1. /\ \A n \in Managers : at'[n] = IF n = m THEN "askOut" ELSE at[n]
          /\ Read(m, Fd(m))
      BY <1>11, <2>3 DEF ProcRead, ServerTypes
    <3>2. Fd(m) \in Fds /\ fdOf[Fd(m)] = cur[m].of
      BY <2>1, Held
    <3>3. QED
      BY <2>1, <2>3, <3>1, <3>2, ReadAnswers DEF Owes
  <2>4. QED
    BY <2>2, <2>3
<1>12. ASSUME NEW m \in Managers, ProcWrite(m) PROVE AnswersOK'
  <2>1. at[m] = "write" /\ UNCHANGED <<asked, interest, cur, data>>
    BY <1>12 DEF ProcWrite
  <2>2. CASE at' = [at EXCEPT ![m] = "del"] /\ UNCHANGED kernelVars
    <3>1. \A n \in Managers : at'[n] = IF n = m THEN "del" ELSE at[n]
      BY <2>2 DEF ServerTypes
    <3>2. QED
      BY <2>1, <2>2, <3>1, KeepAnswers DEF Owes
  <2>3. CASE at' = [at EXCEPT ![m] = "askIn"] /\ Write(m, Fd(m))
    <3>1. \A n \in Managers : at'[n] = IF n = m THEN "askIn" ELSE at[n]
      BY <2>3 DEF ServerTypes
    <3>2. /\ Fd(m) \in Fds /\ fdOf[Fd(m)] = cur[m].of /\ interest[m][cur[m].of] = "out"
          /\ \A n \in Managers : interest[n][cur[m].of] # "none" => n = m
          /\ \A n \in Managers : n # m /\ at[n] = "askOut" => cur[n].of # cur[m].of
      BY <2>1, Held DEF CurOK, Exclusive
    <3>3. Owes(m, fdOf[Fd(m)])
      BY <2>1, <3>2 DEF Owes
    <3>4. \A n \in Managers, c \in Conns : Owes(n, c)' => Owes(n, c) /\ c # fdOf[Fd(m)]
      BY <2>1, <3>1, <3>2 DEF Owes
    <3>5. QED
      BY <2>1, <2>3, <3>2, <3>3, <3>4, WriteAnswers
  <2>4. QED
    BY <1>12, <2>2, <2>3 DEF ProcWrite
<1>13. ASSUME NEW m \in Managers, ProcDeleteFd(m) PROVE AnswersOK'
  <2>1. /\ at[m] = "delete" /\ Close(Fd(m)) /\ Fd(m) \in Fds
        /\ data' = [data EXCEPT ![m][Fd(m)] = None]
        /\ \A n \in Managers : IF n = m THEN at'[n] = "wait"
                                      ELSE at'[n] = at[n] /\ cur'[n] = cur[n]
        /\ UNCHANGED <<request, reply, asked>>
    BY <1>13 DEF ProcDeleteFd, ServerTypes
  <2>2. /\ fdOf'[Fd(m)] = None /\ \A fd \in Fds : fd # Fd(m) => fdOf'[fd] = fdOf[fd]
        /\ \A n \in Managers, c \in Conns : interest'[n][c] # "none" => interest'[n][c] = interest[n][c]
    BY <2>1, CloseSays
  <2>3. \A n \in Managers, fd \in Fds : fd # Fd(m) => data'[n][fd] = data[n][fd]
    BY <2>1 DEF ServerTypes
  <2>4. QED
    BY <2>1, <2>2, <2>3, KeepAnswers, FdsAssumption DEF Owes
<1>14. ASSUME NEW m \in Managers, WorkerExits(m) PROVE AnswersOK'
  <2>1. /\ at[m] = "wait"
        /\ \A n \in Managers : at'[n] = IF n = m THEN "exited" ELSE at[n]
        /\ UNCHANGED <<request, reply, asked, interest, cur, fdOf, data>>
    BY <1>14 DEF WorkerExits, ServerTypes
  <2>2. QED
    BY <2>1, KeepAnswers DEF Owes
<1>15. CASE StartMulti
  <2>1. UNCHANGED <<request, reply, asked, interest, at, cur, fdOf, data>>
    BY <1>15 DEF StartMulti
  <2>2. QED
    BY <2>1, KeepAnswers DEF Owes
<1>16. ASSUME NEW c \in Conns, MainAccept(c) PROVE AnswersOK'
  <2>1. PICK f \in Fds :
          /\ \A fd \in Fds : fdOf'[fd] = IF fd = f THEN c ELSE fdOf[fd]
          /\ \A fd \in Fds : fdOf[fd] # c
          /\ \A m \in Managers : interest[m][c] = "none"
    BY <1>16, FreshNumber DEF MainAccept
  <2>2. /\ UNCHANGED <<request, reply, asked, at, cur, data>>
        /\ \A m \in Managers, d \in Conns :
             interest'[m][d] = interest[m][d] \/ interest'[m][d] = "in"
    BY <1>16 DEF MainAccept, Accept, KernelTypes
  <2>3. \A m \in Managers : at[m] = "askOut" => cur[m].of # c
    BY <2>1, Held
  <2>4. QED
    BY <2>1, <2>2, <2>3, KeepAnswers DEF Owes
<1>17. CASE AddClientFd
  <2>1. PICK w \in Managers : AddOrModFd(w, accepted, "in")
    BY <1>17, NextWorkerIsManager, MainTypes DEF AddClientFd
  <2>2. /\ UNCHANGED <<request, reply, asked, at, cur, fdOf, data>>
        /\ fdOf[accepted] \in Conns
    BY <1>17, MainTypes DEF AddClientFd, AcceptedOK, KernelTypes
  <2>3. \A m \in Managers, d \in Conns :
          interest'[m][d] = interest[m][d] \/ interest'[m][d] = "in"
    BY <2>1, <2>2 DEF AddOrModFd, KernelTypes
  <2>4. QED
    BY <2>2, <2>3, KeepAnswers DEF Owes
<1>18. CASE OwnFd
  <2>1. UNCHANGED <<request, reply, asked, interest, at, cur, fdOf, data>>
    BY <1>18, OwnFdWorkers DEF OwnFd
  <2>2. QED
    BY <2>1, KeepAnswers DEF Owes
<1>19. CASE MainReturns
  <2>1. /\ \A m \in Managers : at[m] = "exited"
        /\ \A m \in Managers, c \in Conns : interest'[m][c] = "none"
        /\ UNCHANGED <<request, reply, asked, at, cur, data>>
    BY <1>19 DEF MainReturns
  <2>2. QED
    BY <2>1, KeepAnswers DEF Owes
<1>20. CASE StartSingle
  <2>1. UNCHANGED <<request, reply, asked, interest, at, cur, fdOf, data>>
    BY <1>20 DEF StartSingle
  <2>2. QED
    BY <2>1, KeepAnswers DEF Owes
<1>21. CASE SingleWait
  <2>1. UNCHANGED <<request, reply, asked, interest, at, cur, fdOf, data>>
    BY <1>21 DEF SingleWait
  <2>2. QED
    BY <2>1, KeepAnswers DEF Owes
<1>22. ASSUME NEW c \in Conns, SingleAccept(c) PROVE AnswersOK'
  <2>1. PICK f \in Fds :
          /\ \A fd \in Fds : fdOf'[fd] = IF fd = f THEN c ELSE fdOf[fd]
          /\ \A fd \in Fds : fdOf[fd] # c
          /\ \A m \in Managers : interest[m][c] = "none"
    BY <1>22, FreshNumber DEF SingleAccept
  <2>2. /\ UNCHANGED <<request, reply, asked, at, cur, data>>
        /\ \A m \in Managers, d \in Conns :
             interest'[m][d] = interest[m][d] \/ interest'[m][d] = "in"
    BY <1>22 DEF SingleAccept, Accept, KernelTypes
  <2>3. \A m \in Managers : at[m] = "askOut" => cur[m].of # c
    BY <2>1, Held
  <2>4. QED
    BY <2>1, <2>2, <2>3, KeepAnswers DEF Owes
<1>23. ASSUME NEW event \in batch[Only], SingleRead(event) PROVE AnswersOK'
  <2>1. /\ \A m \in Managers : at'[m] = "wait" /\ at[m] = "wait"
        /\ event.fd \in Fds /\ event.of \in Conns /\ fdOf[event.fd] = event.of
        /\ UNCHANGED <<asked, cur>>
    BY <1>23 DEF SingleRead, Handles, OneThread, BatchOK
  <2>2. CASE CloseAndClearFd(event.fd)
    <3>1. /\ UNCHANGED <<request, reply>> /\ data' = [data EXCEPT ![Only][event.fd] = None]
          /\ fdOf'[event.fd] = None
          /\ \A fd \in Fds : fd # event.fd => fdOf'[fd] = fdOf[fd]
          /\ \A m \in Managers, c \in Conns : interest'[m][c] # "none" => interest'[m][c] = interest[m][c]
      BY <2>1, <2>2, CloseSays DEF CloseAndClearFd
    <3>2. \A m \in Managers, fd \in Fds : fd # event.fd => data'[m][fd] = data[m][fd]
      BY <3>1 DEF ServerTypes
    <3>3. QED
      BY <2>1, <3>1, <3>2, KeepAnswers, FdsAssumption DEF Owes
  <2>3. CASE /\ ~ReadFails(event.fd) /\ Read(Only, event.fd)
             /\ interest' = [interest EXCEPT ![Only][event.of] = "out"]
    <3>1. \A m \in Managers, c \in Conns :
            interest'[m][c] = IF m = Only /\ c = event.of THEN "out" ELSE interest[m][c]
      BY <2>1, <2>3 DEF KernelTypes
    <3>2. QED
      BY <2>1, <2>3, <3>1, ReadAnswers DEF Owes
  <2>4. QED
    BY <1>23, <2>1, <2>2, <2>3 DEF SingleRead
<1>24. ASSUME NEW event \in batch[Only], SingleWrite(event) PROVE AnswersOK'
  <2>1. /\ \A m \in Managers : at'[m] = "wait" /\ at[m] = "wait"
        /\ event.fd \in Fds /\ event.of \in Conns /\ fdOf[event.fd] = event.of
        /\ UNCHANGED <<asked, cur>>
    BY <1>24 DEF SingleWrite, Handles, OneThread, BatchOK
  <2>2. CASE CloseAndClearFd(event.fd)
    <3>1. /\ UNCHANGED <<request, reply>> /\ data' = [data EXCEPT ![Only][event.fd] = None]
          /\ fdOf'[event.fd] = None
          /\ \A fd \in Fds : fd # event.fd => fdOf'[fd] = fdOf[fd]
          /\ \A m \in Managers, c \in Conns : interest'[m][c] # "none" => interest'[m][c] = interest[m][c]
      BY <2>1, <2>2, CloseSays DEF CloseAndClearFd
    <3>2. \A m \in Managers, fd \in Fds : fd # event.fd => data'[m][fd] = data[m][fd]
      BY <3>1 DEF ServerTypes
    <3>3. QED
      BY <2>1, <3>1, <3>2, KeepAnswers, FdsAssumption DEF Owes
  <2>3. CASE /\ Write(Only, event.fd) /\ UNCHANGED data
             /\ interest' = [interest EXCEPT ![Only][event.of] = "inrd"]
    <3>1. \A m \in Managers, c \in Conns :
            interest'[m][c] = IF m = Only /\ c = event.of THEN "inrd" ELSE interest[m][c]
      BY <2>1, <2>3 DEF KernelTypes
    <3>2. event \in EventType /\ "EPOLLIN" \notin event.events
      BY <1>24, BranchSays DEF SingleWrite, ServerTypes
    <3>3. interest[Only][event.of] = "out"
      BY <3>2 DEF BatchOK
    <3>4. Owes(Only, event.of)
      BY <2>1, <3>3 DEF Owes
    <3>5. \A m \in Managers : interest[m][event.of] # "none" => m = Only
      BY <2>1, <3>3 DEF OneOwner
    <3>6. \A m \in Managers, c \in Conns : Owes(m, c)' => Owes(m, c) /\ c # event.of
      BY <2>1, <3>1, <3>5 DEF Owes
    <3>7. QED
      BY <2>1, <2>3, <3>4, <3>6, WriteAnswers
  <2>4. QED
    BY <1>24, <2>1, <2>2, <2>3 DEF SingleWrite
<1>25. ASSUME NEW event \in batch[Only], SingleDelete(event) PROVE AnswersOK'
  <2>1. /\ \A m \in Managers : at'[m] = "wait" /\ at[m] = "wait"
        /\ event.fd \in Fds /\ event.of \in Conns /\ fdOf[event.fd] = event.of
        /\ UNCHANGED <<asked, cur>>
    BY <1>25 DEF SingleDelete, Handles, OneThread, BatchOK
  <2>2. CloseAndClearFd(event.fd)
    BY <1>25 DEF SingleDelete
  <2>3. QED
    <3>1. /\ UNCHANGED <<request, reply>> /\ data' = [data EXCEPT ![Only][event.fd] = None]
          /\ fdOf'[event.fd] = None
          /\ \A fd \in Fds : fd # event.fd => fdOf'[fd] = fdOf[fd]
          /\ \A m \in Managers, c \in Conns : interest'[m][c] # "none" => interest'[m][c] = interest[m][c]
      BY <2>1, <2>2, CloseSays DEF CloseAndClearFd
    <3>2. \A m \in Managers, fd \in Fds : fd # event.fd => data'[m][fd] = data[m][fd]
      BY <3>1 DEF ServerTypes
    <3>3. QED
      BY <2>1, <3>1, <3>2, KeepAnswers, FdsAssumption DEF Owes
<1>26. CASE SingleReturns
  <2>1. /\ \A m \in Managers : at'[m] = "wait"
        /\ \A m \in Managers, c \in Conns : interest'[m][c] = "none"
        /\ UNCHANGED <<request, reply, asked, at, cur, data>>
    BY <1>26 DEF SingleReturns, OneThread
  <2>2. QED
    BY <2>1, KeepAnswers DEF Owes
<1>27. CASE StopServer
  <2>1. UNCHANGED <<request, reply, asked, interest, at, cur, fdOf, data>>
    BY <1>27 DEF StopServer
  <2>2. QED
    BY <2>1, KeepAnswers DEF Owes
<1>28. CASE UNCHANGED vars
  BY <1>28, KeepAnswers DEF vars, Owes
<1>29. QED
  BY <1>1, <1>2, <1>3, <1>4, <1>5, <1>6, <1>7, <1>8, <1>9, <1>10, <1>11, <1>12,
     <1>13, <1>14, <1>15, <1>16, <1>17, <1>18, <1>19, <1>20, <1>21, <1>22, <1>23,
     <1>24, <1>25, <1>26, <1>27, <1>28 DEF Next, Peer, Worker, Manager, Main, Single

-----------------------------------------------------------------------------
(* The invariant.                                                          *)

LEMMA EchoInit == Init => EchoInv
<1> SUFFICES ASSUME Init PROVE EchoInv
  OBVIOUS
<1> USE DEF Init, InitEpoll
<1>1. KernelTypes /\ ServerTypes
  BY DEF KernelTypes, ServerTypes, Serving, Leaving
<1>2. NumbersOK /\ Owned /\ OneThread
  BY DEF NumbersOK, Owned, OneThread
<1>3. OneOwner /\ BatchOK /\ CurOK /\ AcceptedOK
  BY DEF OneOwner, BatchOK, CurOK, AcceptedOK, Serving, Leaving
<1>4. ManagersInSync
  BY DEF ManagersInSync, Interested
<1>5. AnswersOK
  BY DEF AnswersOK, AnswersAreOwn, Owes
<1>6. QED
  BY <1>1, <1>2, <1>3, <1>4, <1>5 DEF EchoInv, WorkersOK

\* A history variable is never taken back.
LEMMA ClobberedStays ==
  ASSUME ServerTypes, [Next]_vars, ~clobbered'
  PROVE  ~clobbered
<1>1. CASE OwnFd
  BY <1>1 DEF OwnFd, ServerTypes
<1>2. CASE UNCHANGED clobbered
  BY <1>2
<1>3. QED
  <2>1. ASSUME NEW c \in Conns, Peer(c) PROVE UNCHANGED clobbered
    BY <2>1 DEF Peer, Connect, Send, Receive, HangUp, serverVars
  <2>2. ASSUME NEW m \in Managers, Worker(m) PROVE UNCHANGED clobbered
    BY <2>2 DEF Worker, Manager, ProcRead, ProcWrite, ProcDeleteFd, WorkerExits, serverVars
  <2>3. CASE Main
    BY <1>1, <1>2, <2>3 DEF Main, StartMulti, AddClientFd, MainReturns, MainAccept
  <2>4. CASE Single
    BY <1>2, <2>4 DEF Single, StartSingle, SingleWait, SingleReturns, SingleAccept,
       SingleRead, SingleWrite, SingleDelete, serverVars
  <2>5. CASE StopServer
    BY <1>2, <2>5 DEF StopServer
  <2>6. CASE UNCHANGED vars
    BY <1>2, <2>6 DEF vars, serverVars
  <2>7. QED
    BY <1>2, <2>1, <2>2, <2>3, <2>4, <2>5, <2>6 DEF Next

LEMMA EchoStep == EchoInv /\ [Next]_vars => EchoInv'
<1> SUFFICES ASSUME EchoInv, [Next]_vars PROVE EchoInv'
  OBVIOUS
<1>1. KernelTypes /\ ServerTypes /\ NumbersOK /\ Owned /\ OneThread
  BY DEF EchoInv
<1>2. KernelTypes' /\ ServerTypes'
  BY <1>1, KernelTypeStep, ServerTypeStep
<1>3. NumbersOK' /\ Owned' /\ OneThread'
  BY <1>1, NumbersStep, OwnedStep, OneThreadStep
<1>4. ASSUME ~clobbered' PROVE WorkersOK' /\ AnswersOK'
  <2>1. ~clobbered
    BY <1>1, <1>4, ClobberedStays
  <2>2. QED
    BY <1>3, <1>4, <2>1, WorkersStep, AnswersStep
<1>5. QED
  BY <1>2, <1>3, <1>4 DEF EchoInv

THEOREM EchoInvariant == Spec => []EchoInv
BY EchoInit, EchoStep, PTL DEF Spec

\* In CppEpollManager mFds is what the epoll instance holds, and no exception ends a
\* thread, while AddOrModFd of the main thread and DelFd of the workers interleave,
\* until the main thread closes a connection of a worker.
THEOREM SetsAreTheInstances == Spec => []ManagersInSync
<1>1. EchoInv => ManagersInSync
  BY DEF EchoInv, WorkersOK, ManagersInSync
<1>2. QED
  BY <1>1, EchoInvariant, PTL

\* An event of a batch is handled for the connection it fired for, though numbers are
\* closed and given out again meanwhile.
THEOREM NoStaleEvent == Spec => []EventsAreLive
<1>1. EchoInv => EventsAreLive
  <2> SUFFICES ASSUME EchoInv, ~clobbered PROVE EventsAreLive
    BY DEF EventsAreLive
  <2>1. \A m \in Managers : \A event \in batch[m] : fdOf[event.fd] = event.of
    BY InvParts DEF BatchOK
  <2>2. ASSUME NEW m \in Managers, cur[m] # None PROVE fdOf[cur[m].fd] = cur[m].of
    <3>1. at[m] \in Serving \cup Leaving
      BY <2>2, InvParts DEF ServerTypes
    <3>2. QED
      BY <3>1, InvParts DEF CurOK, Exclusive
  <2>3. QED
    BY <2>1, <2>2 DEF EventsAreLive
<1>2. QED
  BY <1>1, EchoInvariant, PTL

\* mClientDatas and the epoll events keep the requests of the connections apart: a
\* peer is answered what it asked, once.
THEOREM EachPeerItsAnswer == Spec => []AnswersAreOwn
<1>1. EchoInv => AnswersAreOwn
  BY DEF EchoInv, AnswersOK, AnswersAreOwn
<1>2. QED
  BY <1>1, EchoInvariant, PTL

\* clientFds closes every connection when StartServer returns, clobbered or not.
THEOREM ReturnsWithNothingOpen == Spec => []NothingLeaks
<1>1. EchoInv => NothingLeaks
  BY DEF EchoInv, Owned, NothingLeaks
<1>2. QED
  BY <1>1, EchoInvariant, PTL
=============================================================================
