------------------------------ MODULE UniqueFd ------------------------------
(***************************************************************************)
(* UniqueFd (CppNet.h): the owner of a file descriptor, moved, swapped,    *)
(* reset and closed by a program that has several of them, beside a kernel *)
(* that gives the number of a closed descriptor away again.                *)
(*                                                                         *)
(* The program hands over a descriptor that it has itself, and none that   *)
(* it got by Get.                                                          *)
(*                                                                         *)
(* A name that ends in _Faulty is a plausible bug in the definition that   *)
(* follows it, on which the properties are tried.                          *)
(***************************************************************************)
EXTENDS Integers

CONSTANTS
  Objects,     \* the program's variables of type UniqueFd
  Fds,         \* the kernel's numbers
  Dead         \* no object: not yet constructed, or destroyed

\* Dead is none of the numbers, which are no less than 0.
ASSUME FdAssumption == Fds \subseteq Nat /\ Dead \notin Int

VARIABLES
  mFd,         \* object -> its number, None, or Dead
  descriptors, \* the open ones, in the kernel
  raw          \* those the program has outside any UniqueFd

fdVars == <<mFd, descriptors, raw>>

None == -1

FdInit ==
  /\ mFd = [u \in Objects |-> Dead]
  /\ descriptors = {}
  /\ raw = {}

Alive == {u \in Objects : mFd[u] # Dead}

\* ::close: of a number that is not open it is EBADF and nothing happens.
Closed(fd) == descriptors \ {fd}

\* The kernel gives the lowest free number.
Open ==
  \E fd \in Fds \ descriptors :
    /\ \A free \in Fds \ descriptors : fd <= free
    /\ descriptors' = descriptors \union {fd}
    /\ raw' = raw \union {fd}
    /\ UNCHANGED mFd

Construct(u) ==
  /\ u \notin Alive
  /\ \E fd \in raw \union {None} :
       /\ mFd' = [mFd EXCEPT ![u] = fd]
       /\ raw' = raw \ {fd}
  /\ UNCHANGED descriptors

\* The source keeps its number.
MoveConstruct_Faulty(u, from) ==
  /\ u \notin Alive /\ from \in Alive
  /\ mFd' = [mFd EXCEPT ![u] = mFd[from]]
  /\ UNCHANGED <<descriptors, raw>>

MoveConstruct(u, from) ==
  /\ u \notin Alive /\ from \in Alive
  /\ mFd' = [mFd EXCEPT ![u] = mFd[from], ![from] = None]
  /\ UNCHANGED <<descriptors, raw>>

Destroy(u) ==
  /\ u \in Alive
  /\ descriptors' = IF mFd[u] = None THEN descriptors ELSE Closed(mFd[u])
  /\ mFd' = [mFd EXCEPT ![u] = Dead]
  /\ UNCHANGED raw

\* Reset(u.Release()), where the object may be u itself: what it had is closed by the
\* temporary object of Reset.
Assign(u, from) ==
  /\ {u, from} \subseteq Alive
  /\ LET released == [mFd EXCEPT ![from] = None]
     IN  /\ descriptors' = Closed(released[u])
         /\ mFd' = [released EXCEPT ![u] = mFd[from]]
  /\ UNCHANGED raw

Release(u) ==
  /\ u \in Alive
  /\ raw' = raw \union ({mFd[u]} \ {None})
  /\ mFd' = [mFd EXCEPT ![u] = None]
  /\ UNCHANGED descriptors

Reset(u) ==
  /\ u \in Alive
  /\ \E fd \in raw \union {None} :
       /\ mFd' = [mFd EXCEPT ![u] = fd]
       /\ raw' = raw \ {fd}
  /\ descriptors' = Closed(mFd[u])

Swap(u, with) ==
  /\ {u, with} \subseteq Alive
  /\ mFd' = [mFd EXCEPT ![u] = mFd[with], ![with] = mFd[u]]
  /\ UNCHANGED <<descriptors, raw>>

\* The friend close.
Close(u) ==
  /\ u \in Alive
  /\ descriptors' = Closed(mFd[u])
  /\ mFd' = [mFd EXCEPT ![u] = None]
  /\ UNCHANGED raw

\* The program closes a descriptor that it has itself.
CloseRaw ==
  \E fd \in raw :
    /\ descriptors' = Closed(fd)
    /\ raw' = raw \ {fd}
    /\ UNCHANGED mFd

FdNext ==
  \/ Open \/ CloseRaw
  \/ \E u \in Objects : Construct(u) \/ Destroy(u) \/ Release(u) \/ Reset(u) \/ Close(u)
  \/ \E u, other \in Objects : MoveConstruct(u, other) \/ Assign(u, other) \/ Swap(u, other)

FdSpec == FdInit /\ [][FdNext]_fdVars

-----------------------------------------------------------------------------
(* Properties *)

\* After any calls, moves to itself included, an open descriptor has one owner, an
\* object or the program: none is leaked, and none is closed twice, when its number
\* may be another connection's (CppNet.h:148).
FdsOwned ==
  /\ descriptors = raw \union {mFd[u] : u \in {o \in Alive : mFd[o] # None}}
  /\ \A u \in Alive : mFd[u] \notin raw
  /\ \A u, other \in Alive : mFd[u] = mFd[other] /\ mFd[u] # None => u = other
=============================================================================
