---------------------------- MODULE LibraryProofs ----------------------------
(***************************************************************************)
(* The safety properties of the parts of the library: who owns a           *)
(* descriptor, the requests of CppCurl, GetChildrenValue and the strings   *)
(* it is given, the rotation of log files, the statistics of the load      *)
(* client, the caches of factorials and primes.  The instances are those   *)
(* of LibraryParts.                                                        *)
(***************************************************************************)
EXTENDS LibraryParts, TLAPS, SequenceTheorems, FiniteSetTheorems

-----------------------------------------------------------------------------
(* The owners of descriptors.                                              *)

\* An object holds a number of the kernel's, none, or is dead; the program holds
\* numbers of the kernel's.
FdTypes ==
  /\ mFd \in [Objects -> Fds \union {None, Dead}]
  /\ raw \subseteq Fds

\* With the types, who owns what is inductive as it stands.
OwnedInv == FdTypes /\ FdsOwned

LEMMA InitOwned == ASSUME FdInit PROVE OwnedInv
  BY FdAssumption DEF FdInit, OwnedInv, FdTypes, FdsOwned, Alive, None

LEMMA StepOwned == ASSUME OwnedInv, [FdNext]_fdVars PROVE OwnedInv'
<1> USE FdAssumption DEF OwnedInv, FdTypes, FdsOwned, Alive, None
<1>1. CASE Open
  BY <1>1 DEF Open
<1>2. CASE CloseRaw
  BY <1>2 DEF CloseRaw, Closed
<1>3. ASSUME NEW u \in Objects, Construct(u) PROVE OwnedInv'
  BY <1>3 DEF Construct
<1>4. ASSUME NEW u \in Objects, Destroy(u) PROVE OwnedInv'
  BY <1>4 DEF Destroy, Closed
<1>5. ASSUME NEW u \in Objects, Release(u) PROVE OwnedInv'
  <2>1. CASE mFd[u] = None
    <3>1. UNCHANGED <<mFd, descriptors, raw>>
      BY <1>5, <2>1 DEF Release
    <3>2. QED
      BY <3>1
  <2>2. CASE mFd[u] # None
    <3>1. /\ u \in Alive /\ mFd[u] \in Fds
          /\ raw' = raw \union {mFd[u]}
          /\ mFd' = [mFd EXCEPT ![u] = None]
          /\ descriptors' = descriptors
      BY <1>5, <2>2 DEF Release
    <3>2. FdTypes'
      BY <3>1
    <3>3. FdsOwned'
      BY <3>1, <2>2
    <3>4. QED
      BY <3>2, <3>3
  <2>3. QED
    BY <2>1, <2>2
<1>6. ASSUME NEW u \in Objects, Reset(u) PROVE OwnedInv'
  BY <1>6 DEF Reset, Closed
<1>7. ASSUME NEW u \in Objects, Close(u) PROVE OwnedInv'
  BY <1>7 DEF Close, Closed
<1>8. ASSUME NEW u \in Objects, NEW other \in Objects, MoveConstruct(u, other)
      PROVE  OwnedInv'
  BY <1>8 DEF MoveConstruct
<1>9. ASSUME NEW u \in Objects, NEW other \in Objects, Assign(u, other)
      PROVE  OwnedInv'
  BY <1>9 DEF Assign, Closed
<1>10. ASSUME NEW u \in Objects, NEW other \in Objects, Swap(u, other)
       PROVE  OwnedInv'
  BY <1>10 DEF Swap
<1>11. CASE UNCHANGED fdVars
  BY <1>11 DEF fdVars
<1>12. QED
  BY <1>1, <1>2, <1>3, <1>4, <1>5, <1>6, <1>7, <1>8, <1>9, <1>10, <1>11 DEF FdNext

\* However a program moves, resets and closes its objects, and whichever numbers the
\* kernel gives out again, an open descriptor has one owner (CppNet.h:135).
THEOREM DescriptorsHaveOneOwner == FdSpec => []FdsOwned
<1>1. FdInit => OwnedInv
  BY InitOwned
<1>2. OwnedInv /\ [FdNext]_fdVars => OwnedInv'
  BY StepOwned
<1>3. OwnedInv => FdsOwned
  BY DEF OwnedInv
<1>4. QED
  BY <1>1, <1>2, <1>3, PTL DEF FdSpec

-----------------------------------------------------------------------------
(* The requests of CppCurl.                                                *)

Places == {"idle", "global", "locks", "file", "handle", "form", "perform", "transfer",
           "cleanup"}
CurlTypes ==
  /\ request \in [Callers -> Places]
  /\ call \in [Callers -> Curl!Functions \union {NoCall}]
  /\ \A t \in Callers : request[t] # "idle" => call[t] \in Curl!Functions

\* A request goes on without a handle only to its end.
HandleIsThere ==
  \A t \in Callers : request[t] \in {"form", "perform", "transfer"} => t \in handle

HoldsInv == CurlTypes /\ HandleIsThere /\ HandlesGivenBack

LEMMA CurlStarts == Curl!Init => HoldsInv
  BY DEF Curl!Init, HoldsInv, CurlTypes, HandleIsThere, HandlesGivenBack, Curl!HandlesGivenBack, Places

\* What a step does to the place of the caller who takes it.
LEMMA GoesSays ==
  ASSUME CurlTypes, NEW t \in Callers, NEW from, NEW to \in Places, Curl!Goes(t, from, to)
  PROVE  request[t] = from /\ request' \in [Callers -> Places]
         /\ \A u \in Callers : request'[u] = IF u = t THEN to ELSE request[u]
  BY DEF CurlTypes, Curl!Goes

LEMMA CurlTyped ==
  ASSUME CurlTypes, [Curl!Next]_(Curl!vars)
  PROVE  CurlTypes'
<1>1. ASSUME NEW t \in Callers, NEW function \in Curl!Functions, Curl!Begin(t, function)
      PROVE  CurlTypes'
  BY <1>1 DEF CurlTypes, Places, Curl!Begin, Curl!Goes
<1>2. ASSUME NEW t \in Callers,
             Curl!GlobalInit(t) \/ Curl!InitLock(t) \/ Curl!OpenFile(t)
             \/ Curl!EasyInit(t) \/ Curl!FormAdd(t)
               \/ Curl!Perform(t) \/ Curl!Answer(t) \/ Curl!Cleanup(t)
      PROVE  CurlTypes'
  <2>1. CASE /\ call' = call
             /\ \E from \in Places \ {"idle"}, to \in Places : Curl!Goes(t, from, to)
    BY <2>1 DEF CurlTypes, Places, Curl!Goes
  <2>2. CASE \E from \in Places : Curl!Ends(t, from)
    BY <2>2 DEF CurlTypes, Places, Curl!Ends, Curl!Goes
  <2>3. QED
    BY <1>2, <2>1, <2>2
       DEF Curl!GlobalInit, Curl!InitLock, Curl!OpenFile, Curl!EasyInit, Curl!FormAdd,
           Curl!Perform, Curl!Answer, Curl!Cleanup, Places
<1>3. CASE UNCHANGED Curl!vars
  BY <1>3 DEF CurlTypes, Curl!vars
<1>4. QED
  BY <1>1, <1>2, <1>3 DEF Curl!Next

LEMMA HoldsKept ==
  ASSUME HoldsInv, [Curl!Next]_(Curl!vars)
  PROVE  (HandleIsThere /\ HandlesGivenBack)'
<1> USE DEF HandleIsThere, HandlesGivenBack, Curl!HandlesGivenBack
<1>1. ASSUME NEW t \in Callers, NEW function \in Curl!Functions, Curl!Begin(t, function)
      PROVE  (HandleIsThere /\ HandlesGivenBack)'
  <2>1. /\ UNCHANGED <<handle, post>> /\ request[t] = "idle"
        /\ request'[t] \in {"global", "file"}
        /\ \A u \in Callers : u # t => request'[u] = request[u] /\ call'[u] = call[u]
    BY <1>1 DEF HoldsInv, CurlTypes, Curl!Begin, Curl!Goes
  <2>2. QED
    BY <2>1 DEF HoldsInv
<1>2. ASSUME NEW t \in Callers, Curl!GlobalInit(t) \/ Curl!InitLock(t) \/ Curl!OpenFile(t)
      PROVE  (HandleIsThere /\ HandlesGivenBack)'
  <2>1. /\ UNCHANGED <<handle, post>> /\ request[t] \in {"global", "locks", "file"}
        /\ request'[t] \in {"locks", "file", "handle", "idle"}
        /\ \A u \in Callers : u # t => request'[u] = request[u] /\ call'[u] = call[u]
    BY <1>2
       DEF HoldsInv, CurlTypes, Curl!GlobalInit, Curl!InitLock, Curl!OpenFile, Curl!Ends,
           Curl!Goes
  <2>2. QED
    BY <2>1 DEF HoldsInv
<1>3. ASSUME NEW t \in Callers, Curl!EasyInit(t) PROVE (HandleIsThere /\ HandlesGivenBack)'
  <2>1. /\ UNCHANGED <<call, post>> /\ request[t] = "handle"
        /\ \/ handle' = handle /\ request'[t] = "cleanup"
           \/ handle' = handle \cup {t} /\ request'[t] = "form"
        /\ \A u \in Callers : u # t => request'[u] = request[u]
    BY <1>3 DEF HoldsInv, CurlTypes, Curl!EasyInit, Curl!Goes
  <2>2. QED
    BY <2>1 DEF HoldsInv
<1>4. ASSUME NEW t \in Callers, Curl!FormAdd(t) PROVE (HandleIsThere /\ HandlesGivenBack)'
  <2>1. /\ UNCHANGED <<call, handle>> /\ request[t] = "form"
        /\ request'[t] \in {"perform", "cleanup"}
        /\ post' = post \/ (post' = post \cup {t} /\ call[t].form)
        /\ \A u \in Callers : u # t => request'[u] = request[u]
    BY <1>4 DEF HoldsInv, CurlTypes, Curl!FormAdd, Curl!Goes
  <2>2. QED
    BY <2>1 DEF HoldsInv
<1>5. ASSUME NEW t \in Callers, Curl!Perform(t) \/ Curl!Answer(t)
      PROVE  (HandleIsThere /\ HandlesGivenBack)'
  <2>1. /\ UNCHANGED <<call, handle, post>> /\ request[t] \in {"perform", "transfer"}
        /\ request'[t] \in {"transfer", "cleanup"}
        /\ \A u \in Callers : u # t => request'[u] = request[u]
    BY <1>5 DEF HoldsInv, CurlTypes, Curl!Perform, Curl!Answer, Curl!Goes
  <2>2. QED
    BY <2>1 DEF HoldsInv
<1>6. ASSUME NEW t \in Callers, Curl!Cleanup(t) PROVE (HandleIsThere /\ HandlesGivenBack)'
  <2>1. /\ handle' = handle \ {t} /\ post' = post \ {t} /\ request'[t] = "idle"
        /\ \A u \in Callers : u # t => request'[u] = request[u] /\ call'[u] = call[u]
    BY <1>6 DEF HoldsInv, CurlTypes, Curl!Cleanup, Curl!Ends, Curl!Goes
  <2>2. QED
    BY <2>1 DEF HoldsInv
<1>7. CASE UNCHANGED Curl!vars
  BY <1>7 DEF HoldsInv, Curl!vars
<1>8. QED
  BY <1>1, <1>2, <1>3, <1>4, <1>5, <1>6, <1>7 DEF HoldsInv, Curl!Next

\* However many threads make requests at once, and whichever step of one fails, a
\* request gives back its handle and its form, and holds no form without a handle (the
\* catch blocks of CppCurl.cpp, as at line 522).
THEOREM RequestsGiveBack == Curl!Spec => []HandlesGivenBack
<1>1. Curl!Init => HoldsInv
  BY CurlStarts
<1>2. HoldsInv /\ [Curl!Next]_(Curl!vars) => HoldsInv'
  BY CurlTyped, HoldsKept DEF HoldsInv
<1>3. HoldsInv => HandlesGivenBack
  BY DEF HoldsInv
<1>4. QED
  BY <1>1, <1>2, <1>3, PTL DEF Curl!Spec

-----------------------------------------------------------------------------
(* The cookie file.                                                        *)

\* What a transfer has got since the file was last written contains the file.
CookiesInv ==
  /\ cookies \in [Callers -> SUBSET Callers]
  /\ \A t \in Callers : cookies[t] # {} => request[t] \in {"transfer", "cleanup"}
  /\ \A t \in Callers :
       request[t] = "transfer" \/ cookies[t] # {} =>
         t \in stale \/ (call[t].saves => jar \subseteq cookies[t])
  /\ jar \subseteq Callers

LEMMA CookiesStart == Curl!Init => CookiesInv
  BY DEF Curl!Init, CookiesInv

LEMMA SaversRead == \A function \in Curl!Functions : function.saves => function.reads
  BY DEF Curl!Functions, Curl!Get, Curl!GetToFile, Curl!Post, Curl!PostForm,
         Curl!PostFileData, Curl!PostFile, Curl!Delete

LEMMA CookiesStep ==
  ASSUME CurlTypes, CookiesInv, [Curl!Next]_(Curl!vars)
  PROVE  CookiesInv'
<1>1. ASSUME NEW t \in Callers, NEW function \in Curl!Functions, Curl!Begin(t, function)
      PROVE  CookiesInv'
  <2>1. /\ UNCHANGED <<jar, cookies, stale>> /\ request[t] = "idle"
        /\ request'[t] \in {"file", "global"}
        /\ \A u \in Callers : u # t => request'[u] = request[u] /\ call'[u] = call[u]
    BY <1>1 DEF CurlTypes, Curl!Begin, Curl!Goes
  <2>2. QED
    BY <2>1 DEF CookiesInv
<1>2. ASSUME NEW t \in Callers,
             Curl!GlobalInit(t) \/ Curl!InitLock(t) \/ Curl!OpenFile(t)
             \/ Curl!EasyInit(t) \/ Curl!FormAdd(t)
      PROVE  CookiesInv'
  <2>1. /\ UNCHANGED <<jar, cookies, stale>> /\ request[t] \notin {"transfer", "cleanup"}
        /\ request'[t] # "transfer"
        /\ \A u \in Callers : u # t => request'[u] = request[u] /\ call'[u] = call[u]
    BY <1>2
       DEF CurlTypes, Curl!GlobalInit, Curl!InitLock, Curl!OpenFile, Curl!EasyInit,
           Curl!FormAdd, Curl!Ends, Curl!Goes
  <2>2. QED
    BY <2>1 DEF CookiesInv
<1>3. ASSUME NEW t \in Callers, Curl!Perform(t) PROVE CookiesInv'
  <2>1. /\ UNCHANGED <<jar, call>> /\ request[t] = "perform" /\ request'[t] = "transfer"
        /\ stale' = stale \ {t}
        /\ cookies' = [cookies EXCEPT ![t] = IF call[t].reads THEN jar ELSE {}]
        /\ \A u \in Callers : u # t => request'[u] = request[u]
    BY <1>3 DEF CurlTypes, Curl!Perform, Curl!Goes
  <2>2. call[t] \in Curl!Functions
    BY <2>1 DEF CurlTypes
  <2>3. /\ cookies' \in [Callers -> SUBSET Callers]
        /\ call[t].saves => cookies'[t] = jar
        /\ \A u \in Callers : u # t => cookies'[u] = cookies[u]
    BY <2>1, <2>2, SaversRead DEF CookiesInv
  <2>4. QED
    BY <2>1, <2>3 DEF CookiesInv
<1>4. ASSUME NEW t \in Callers, Curl!Answer(t) PROVE CookiesInv'
  <2>1. /\ UNCHANGED <<jar, call, stale>> /\ request[t] = "transfer"
        /\ request'[t] = "cleanup"
        /\ cookies' = [cookies EXCEPT ![t] = @ \cup {t}] \/ cookies' = cookies
        /\ \A u \in Callers : u # t => request'[u] = request[u]
    BY <1>4 DEF CurlTypes, Curl!Answer, Curl!Goes
  <2>2. /\ cookies' \in [Callers -> SUBSET Callers] /\ cookies[t] \subseteq cookies'[t]
        /\ \A u \in Callers : u # t => cookies'[u] = cookies[u]
    BY <2>1 DEF CookiesInv
  <2>3. QED
    BY <2>1, <2>2 DEF CookiesInv
<1>5. ASSUME NEW t \in Callers, Curl!Cleanup(t) PROVE CookiesInv'
  <2>1. /\ request[t] = "cleanup" /\ request'[t] = "idle"
        /\ cookies' = [cookies EXCEPT ![t] = {}]
        /\ \A u \in Callers : u # t => request'[u] = request[u] /\ call'[u] = call[u]
        /\ (jar' = cookies[t] /\ stale' = Callers) \/ UNCHANGED <<jar, stale>>
    BY <1>5 DEF CurlTypes, Curl!Cleanup, Curl!Ends, Curl!Goes
  <2>2. /\ cookies' \in [Callers -> SUBSET Callers] /\ cookies'[t] = {}
        /\ \A u \in Callers : u # t => cookies'[u] = cookies[u]
    BY <2>1 DEF CookiesInv
  <2>3. QED
    BY <2>1, <2>2 DEF CookiesInv
<1>6. CASE UNCHANGED Curl!vars
  BY <1>6 DEF CookiesInv, Curl!vars
<1>7. QED
  BY <1>1, <1>2, <1>3, <1>4, <1>5, <1>6 DEF Curl!Next

\* However many requests share the cookie file, and whatever fails, one that writes it
\* takes a cookie out only if another has written it since this one read it
\* (COOKIEFILE and COOKIEJAR in CppCurl.cpp).
THEOREM NoCookieIsLost == Curl!Spec => CookiesKept
<1> DEFINE Kept == jar \subseteq jar'
              \/ \E t \in Callers :
                   request[t] = "cleanup" /\ t \in stale /\ jar' = cookies[t]
<1>1. ASSUME CookiesInv, [Curl!Next]_(Curl!vars) PROVE [Kept]_(Curl!vars)
  <2>1. CASE \E t \in Callers : Curl!Cleanup(t)
    <3>1. PICK t \in Callers : Curl!Cleanup(t)
      BY <2>1
    <3>2. CASE call[t].saves /\ cookies[t] # {}
      <4>1. jar' = cookies[t] /\ request[t] = "cleanup"
        BY <3>1, <3>2 DEF Curl!Cleanup, Curl!Ends, Curl!Goes
      <4>2. t \in stale \/ jar \subseteq cookies[t]
        BY <1>1, <3>2 DEF CookiesInv
      <4>3. QED
        BY <4>1, <4>2
    <3>3. CASE ~(call[t].saves /\ cookies[t] # {})
      BY <3>1, <3>3 DEF Curl!Cleanup
    <3>4. QED
      BY <3>2, <3>3
  <2>2. CASE ~\E t \in Callers : Curl!Cleanup(t)
    <3>1. jar' = jar
      BY <1>1, <2>2
         DEF Curl!Next, Curl!Begin, Curl!GlobalInit, Curl!InitLock, Curl!OpenFile,
             Curl!EasyInit, Curl!FormAdd, Curl!Perform, Curl!Answer, Curl!vars
    <3>2. QED
      BY <3>1
  <2>3. QED
    BY <2>1, <2>2
<1>2. Curl!Init => CurlTypes /\ CookiesInv
  BY CurlStarts, CookiesStart DEF HoldsInv
<1>3. CurlTypes /\ CookiesInv /\ [Curl!Next]_(Curl!vars) => (CurlTypes /\ CookiesInv)'
  BY CurlTyped, CookiesStep
<1> HIDE DEF Kept
<1>4. Curl!Spec => [][Kept]_(Curl!vars)
  BY <1>1, <1>2, <1>3, PTL DEF Curl!Spec
<1>5. QED
  BY <1>4 DEF CookiesKept, Curl!CookiesKept, Kept

-----------------------------------------------------------------------------
(* GetChildrenValue of ZkReads.                                            *)

\* The entry of a child is a value that it has had.
IsTrue(c) == \E v \in had[c] : children_value[c] = Reads!Shown(v)

ReadsTypes ==
  /\ tree \in [Children -> Data \union {Absent}]
  /\ had \in [Children -> SUBSET (Data \union {Absent})]
  /\ listed \subseteq Children
  /\ reading \in {"idle", "get", "done"}

\* Whatever is listed has an entry or is still to be got, and what a child has is
\* among what it has had.
ReadsInv ==
  /\ ReadsTypes
  /\ reading = "idle" => listed = {}
  /\ reading # "idle" => \A c \in Children : tree[c] \in had[c]
  /\ reading # "idle" /\ listed # {} => DOMAIN children_value \subseteq listed
  /\ reading = "get" =>
       /\ children \in Seq(listed)
       /\ \A c \in listed :
            c \in DOMAIN children_value \/ \E k \in DOMAIN children : children[k] = c
       /\ DOMAIN children_value \subseteq listed
       /\ \A c \in DOMAIN children_value : IsTrue(c)
  /\ reading = "done" /\ listed # {} =>
       /\ ret = "ZOK" => DOMAIN children_value = listed /\ \A c \in listed : IsTrue(c)
       /\ \E failed \in listed : \A c \in DOMAIN children_value :
            IsTrue(c) \/ (c = failed /\ children_value[c] = Reads!Blanks(max_value_size))

LEMMA ReadsStart == Reads!Init => ReadsInv
  BY DEF Reads!Init, ReadsInv, ReadsTypes

\* A cardinality is the same in every module that speaks of it.
LEMMA OneCardinality ==
  ASSUME NEW S
  PROVE  Reads!Cardinality(S) = Cardinality(S) /\ Log!Cardinality(S) = Cardinality(S)
  BY DEF Reads!Cardinality, Log!Cardinality, Cardinality

LEMMA ListingSays ==
  ASSUME IsFiniteSet(Children), NEW S \in SUBSET Children, NEW list \in Reads!SetToSeqs(S)
  PROVE  list \in Seq(S) /\ \A c \in S : \E k \in DOMAIN list : list[k] = c
<1> DEFINE n == Cardinality(S)
<1>1. /\ n \in Nat /\ list \in [1..n -> S] /\ IsFiniteSet(S)
      /\ \A j, k \in 1..n : list[j] = list[k] => j = k
  <2>1. IsFiniteSet(S)
    BY FS_Subset
  <2>2. QED
    BY <2>1, FS_CardinalityType, OneCardinality DEF Reads!SetToSeqs
<1>2. Cardinality(1..n) = n
  BY <1>1, FS_Interval
<1>3. list \in Injection(1..n, S)
  BY <1>1 DEF Injection, IsInjective
<1>4. list \in Surjection(1..n, S)
  BY <1>1, <1>2, <1>3, FS_Injection
<1>5. QED
  BY <1>1, <1>4, SeqDef DEF Surjection

\* The listing, the two ways of getting a child, and the return.
LEMMA ListingKeeps ==
  ASSUME IsFiniteSet(Children), ReadsInv, Reads!GetChildren
  PROVE  ReadsInv'
<1>1. /\ reading = "idle" /\ tree' = tree /\ listed = {}
      /\ had' = [c \in Children |-> {tree[c]}]
  BY DEF ReadsInv, Reads!GetChildren
<1>2. /\ tree' \in [Children -> Data \union {Absent}]
      /\ had' \in [Children -> SUBSET (Data \union {Absent})]
      /\ \A c \in Children : tree'[c] \in had'[c]
  BY <1>1 DEF ReadsInv, ReadsTypes
<1>3. CASE reading' = "done" /\ listed' = listed
  BY <1>1, <1>2, <1>3 DEF ReadsInv, ReadsTypes
<1>4. CASE /\ children' \in Reads!SetToSeqs(Reads!Present) /\ children_value' = <<>>
           /\ listed' = Reads!Present /\ reading' = "get"
  <2>1. Reads!Present \subseteq Children
    BY DEF Reads!Present
  <2>2. /\ children' \in Seq(listed')
        /\ \A c \in listed' : \E k \in DOMAIN children' : children'[k] = c
    BY <1>4, <2>1, ListingSays
  <2>3. DOMAIN children_value' = {}
    BY <1>4
  <2>4. QED
    BY <1>2, <1>4, <2>1, <2>2, <2>3 DEF ReadsInv, ReadsTypes
<1>5. QED
  BY <1>3, <1>4 DEF Reads!GetChildren

LEMMA FailureKeeps ==
  ASSUME ReadsInv, reading = "get", children # <<>>, UNCHANGED <<tree, listed, had>>,
         reading' = "done", ret' # "ZOK", children_value' = Reads!Made(Head(children))
  PROVE  ReadsInv'
<1>1. Head(children) \in listed
  BY DEF ReadsInv
<1>2. PICK child \in listed : child = Head(children)
  BY <1>1
<1>3. /\ DOMAIN children_value' = {child} \union DOMAIN children_value
      /\ children_value'[child] = Reads!Blanks(max_value_size)
      /\ \A c \in DOMAIN children_value :
           c # child => children_value'[c] = children_value[c]
  BY <1>2 DEF Reads!Made, Reads!With
<1>4. \A c \in DOMAIN children_value' : c = child \/ IsTrue(c)'
  BY <1>3 DEF ReadsInv, IsTrue
<1>5. QED
  BY <1>2, <1>3, <1>4 DEF ReadsInv, ReadsTypes

LEMMA GetKeeps ==
  ASSUME NEW Characters, Data \subseteq Seq(Characters) \union {Null},
         max_value_size \in Nat, ReadsInv, Reads!Get
  PROVE  ReadsInv'
<1>1. /\ reading = "get" /\ children # <<>> /\ UNCHANGED <<tree, listed, had>>
      /\ tree[Head(children)] # Absent
  BY DEF Reads!Get
<1>2. PICK child \in listed : child = Head(children)
  BY <1>1 DEF ReadsInv
<1>3. PICK value \in Data : value = tree[child] /\ value \in had[child]
  BY <1>1, <1>2 DEF ReadsInv, ReadsTypes
<1> DEFINE n == Reads!Copied(value, max_value_size)
<1>4. CASE n < 0
  <2>1. ret' = "length_error" /\ reading' = "done"
        /\ children_value' = Reads!Made(Head(children))
    BY <1>2, <1>3, <1>4 DEF Reads!Get
  <2>2. QED
    BY <1>1, <2>1, FailureKeeps
<1>5. CASE ~(n < 0)
  <2>1. /\ children_value' = Reads!With(child, SubSeq(value, 1, n)) /\ reading' = "get"
        /\ children' = Tail(children)
    BY <1>1, <1>2, <1>3, <1>5 DEF Reads!Get
  <2>2. value # Null
    BY <1>5 DEF Reads!Copied
  <2>3. SubSeq(value, 1, n) = Reads!Shown(value)
    BY <1>1, <1>2, <1>3, <2>2 DEF Reads!Shown
  <2> HIDE DEF n
  <2>4. /\ DOMAIN children_value' = {child} \union DOMAIN children_value
        /\ children_value'[child] = Reads!Shown(value)
        /\ \A c \in DOMAIN children_value :
             c # child => children_value'[c] = children_value[c]
    BY <2>1, <2>3 DEF Reads!With
  <2>5. \A c \in DOMAIN children_value' : IsTrue(c)'
    BY <1>1, <1>3, <2>4 DEF ReadsInv, IsTrue
  <2>6. /\ children' \in Seq(listed)
        /\ \A c \in listed :
             c \in DOMAIN children_value' \/ \E k \in DOMAIN children' : children'[k] = c
    <3>1. children \in Seq(listed) /\ children[1] = child
      BY <1>1, <1>2 DEF ReadsInv
    <3>2. /\ children' \in Seq(listed) /\ Len(children') = Len(children) - 1
          /\ \A k \in 1 .. Len(children') : children'[k] = children[k + 1]
      BY <1>1, <2>1, <3>1, HeadTailProperties
    <3>3. ASSUME NEW c \in listed, c # child, NEW k \in DOMAIN children, children[k] = c
          PROVE  \E j \in DOMAIN children' : children'[j] = c
      <4>1. k \in 1 .. Len(children) /\ k # 1 /\ Len(children) \in Nat
        BY <3>1, <3>3
      <4>2. k - 1 \in 1 .. Len(children') /\ children'[k - 1] = c
        BY <3>2, <3>3, <4>1
      <4>3. QED
        BY <3>2, <4>2
    <3>4. QED
      BY <1>1, <2>4, <3>2, <3>3 DEF ReadsInv
  <2>7. QED
    BY <1>1, <1>2, <2>1, <2>4, <2>5, <2>6 DEF ReadsInv, ReadsTypes
<1>6. QED
  BY <1>4, <1>5

LEMMA ReturnKeeps ==
  ASSUME ReadsInv, Reads!GetChildrenValueReturns
  PROVE  ReadsInv'
<1>1. /\ reading = "get" /\ children = <<>> /\ reading' = "done"
      /\ UNCHANGED <<tree, children_value, listed, had>>
  BY DEF Reads!GetChildrenValueReturns
<1>2. DOMAIN children_value = listed /\ \A c \in listed : IsTrue(c)'
  <2>1. /\ \A c \in listed :
             c \in DOMAIN children_value \/ \E k \in DOMAIN children : children[k] = c
        /\ DOMAIN children_value \subseteq listed
        /\ \A c \in DOMAIN children_value : IsTrue(c)
    BY <1>1 DEF ReadsInv
  <2>2. DOMAIN children = {}
    BY <1>1
  <2>3. DOMAIN children_value = listed /\ \A c \in listed : IsTrue(c)
    BY <2>1, <2>2
  <2>4. QED
    BY <1>1, <2>3 DEF IsTrue, Reads!Shown, Reads!Copied
<1>3. QED
  BY <1>1, <1>2 DEF ReadsInv, ReadsTypes

LEMMA ChangeKeeps ==
  ASSUME ReadsInv, Reads!Change
  PROVE  ReadsInv'
<1>1. PICK child \in Children, value \in Data \union {Absent} :
        /\ tree' = [tree EXCEPT ![child] = value]
        /\ had' = IF reading = "idle" THEN had ELSE [had EXCEPT ![child] = @ \union {value}]
  BY DEF Reads!Change
<1>2. reading # "done" /\ UNCHANGED <<reading, children, children_value, listed, ret>>
  BY DEF Reads!Change
<1>3. /\ tree' \in [Children -> Data \union {Absent}]
      /\ had' \in [Children -> SUBSET (Data \union {Absent})]
      /\ \A c \in Children : had[c] \subseteq had'[c]
      /\ reading # "idle" => \A c \in Children : tree'[c] = tree[c] \/ tree'[c] \in had'[c]
  BY <1>1 DEF ReadsInv, ReadsTypes
<1>4. \A c \in listed : IsTrue(c) => IsTrue(c)'
  BY <1>2, <1>3 DEF ReadsInv, ReadsTypes, IsTrue
<1>5. QED
  BY <1>2, <1>3, <1>4 DEF ReadsInv, ReadsTypes

LEMMA ReadsShow ==
  ASSUME IsFiniteSet(Children), ReadsInv
  PROVE  ChildrenValueIsTrue
<1> SUFFICES ASSUME reading = "done", listed # {}
             PROVE  LET true == {c \in DOMAIN children_value :
                                   children_value[c] \in {Reads!Shown(v) : v \in had[c]}}
                    IN  /\ DOMAIN children_value \subseteq listed
                        /\ ret = "ZOK" => true = listed
                        /\ \A c \in DOMAIN children_value \ true :
                             children_value[c] = Reads!Blanks(max_value_size)
                        /\ Cardinality(DOMAIN children_value \ true) <= 1
  BY OneCardinality DEF ChildrenValueIsTrue, Reads!ChildrenValueIsTrue
<1> DEFINE true == {c \in DOMAIN children_value :
                      children_value[c] \in {Reads!Shown(v) : v \in had[c]}}
           false == DOMAIN children_value \ true
<1>1. /\ DOMAIN children_value \subseteq listed
      /\ ret = "ZOK" => DOMAIN children_value = listed /\ \A c \in listed : IsTrue(c)
  BY DEF ReadsInv
<1>2. PICK failed \in listed : \A c \in DOMAIN children_value :
        IsTrue(c) \/ (c = failed /\ children_value[c] = Reads!Blanks(max_value_size))
  BY DEF ReadsInv
<1>3. \A c \in DOMAIN children_value : c \in true <=> IsTrue(c)
  BY DEF IsTrue
<1>4. true \subseteq DOMAIN children_value
  OBVIOUS
<1>5. \A c : c \in false <=> c \in DOMAIN children_value /\ c \notin true
  OBVIOUS
<1> HIDE DEF true
<1>6. Cardinality(false) <= 1
  <2>1. false \subseteq {failed}
    BY <1>2, <1>3
  <2>2. IsFiniteSet({failed}) /\ Cardinality({failed}) = 1
    BY FS_Singleton
  <2> HIDE DEF false
  <2>3. QED
    BY <2>1, <2>2, FS_Subset
<1>7. ret = "ZOK" => true = listed
  BY <1>1, <1>3, <1>4
<1>8. \A c \in false : children_value[c] = Reads!Blanks(max_value_size)
  BY <1>2, <1>3
<1>9. QED
  BY <1>1, <1>6, <1>7, <1>8 DEF true

\* Whatever other clients do between the calls that GetChildrenValue makes, and wherever
\* it ends, what it returns are values that the listed children had during the call, but
\* for the blanks of the one it failed on (CppZookeeper.cpp:1271); for any number of
\* children, any changes and any buffer.
THEOREM ChildrenHadTheirValues ==
  ASSUME NEW Characters, Data \subseteq Seq(Characters) \union {Null},
         max_value_size \in Nat, IsFiniteSet(Children)
  PROVE  Reads!Spec => []ChildrenValueIsTrue
<1>1. Reads!Init => ReadsInv
  BY ReadsStart
<1>2. ReadsInv /\ [Reads!Next]_(Reads!vars) => ReadsInv'
  <2> SUFFICES ASSUME ReadsInv, [Reads!Next]_(Reads!vars) PROVE ReadsInv'
    OBVIOUS
  <2>1. CASE Reads!GetChildren
    BY <2>1, ListingKeeps
  <2>2. CASE Reads!GetFails
    <3>1. /\ reading = "get" /\ children # <<>> /\ UNCHANGED <<tree, listed, had>>
          /\ reading' = "done"
          /\ ret' # "ZOK" /\ children_value' = Reads!Made(Head(children))
      BY <2>2 DEF Reads!GetFails, Reads!Errors
    <3>2. QED
      BY <3>1, FailureKeeps
  <2>3. CASE Reads!Get
    BY <2>3, GetKeeps
  <2>4. CASE Reads!GetChildrenValueReturns
    BY <2>4, ReturnKeeps
  <2>5. CASE Reads!Change
    BY <2>5, ChangeKeeps
  <2>6. CASE UNCHANGED Reads!vars
    BY <2>6 DEF Reads!vars, ReadsInv, ReadsTypes, IsTrue
  <2>7. QED
    BY <2>1, <2>2, <2>3, <2>4, <2>5, <2>6 DEF Reads!Next
<1>3. ReadsInv => ChildrenValueIsTrue
  BY ReadsShow
<1>4. QED
  BY <1>1, <1>2, <1>3, PTL DEF Reads!Spec

-----------------------------------------------------------------------------
(* The functions of ZkReads.                                               *)

\* The string in a buffer ends before its first blank.
LEMMA StringEnds ==
  ASSUME NEW data, NEW size \in Nat, NEW c \in 0 .. size, c < size,
         data[c + 1] = Reads!Blank, \A j \in 1 .. c : data[j] # Reads!Blank
  PROVE  c = CHOOSE i \in 0 .. size : /\ i < size => data[i + 1] = Reads!Blank
                                      /\ \A j \in 1 .. i : data[j] # Reads!Blank
<1> DEFINE Ends(i) == /\ i < size => data[i + 1] = Reads!Blank
                      /\ \A j \in 1 .. i : data[j] # Reads!Blank
<1>1. Ends(c)
  OBVIOUS
<1>2. ASSUME NEW i \in 0 .. size, Ends(i) PROVE i = c
  <2>1. ~ c < i
    <3> SUFFICES ASSUME c < i PROVE FALSE
      OBVIOUS
    <3>1. c + 1 \in 1 .. i
      OBVIOUS
    <3>2. QED
      BY <1>2, <3>1
  <2>2. ~ i < c
    <3> SUFFICES ASSUME i < c PROVE FALSE
      OBVIOUS
    <3>1. i + 1 \in 1 .. c /\ i < size
      OBVIOUS
    <3>2. QED
      BY <1>2, <3>1
  <2>3. QED
    BY <2>1, <2>2
<1> HIDE DEF Ends
<1>3. c = CHOOSE i \in 0 .. size : Ends(i)
  BY <1>1, <1>2
<1>4. QED
  BY <1>3 DEF Ends

\* A caller's buffer of any size and content gets the value as far as there is room, and
\* a NUL behind it (GetCString, CppZookeeper.h:357).
THEOREM GetCStringFits ==
  ASSUME NEW Characters, Reads!Blank \notin Characters, Null \notin Seq(Characters),
         NEW value \in Seq(Characters), NEW buffer \in Seq(Characters \union {Reads!Blank})
  PROVE  Reads!CStringFits(buffer, value)
<1> SUFFICES ASSUME buffer # <<>> PROVE Reads!CStringFits(buffer, value)
  BY DEF Reads!CStringFits
<1>1. PICK room \in Nat : Len(buffer) = room + 1 /\ DOMAIN buffer = 1 .. room + 1
  <2>1. Len(buffer) \in Nat /\ Len(buffer) # 0 /\ DOMAIN buffer = 1 .. Len(buffer)
    BY EmptySeq, LenProperties
  <2>2. PICK size \in Nat : size = Len(buffer)
    BY <2>1
  <2>3. size - 1 \in Nat /\ size = (size - 1) + 1
    BY <2>1, <2>2
  <2>4. QED
    BY <2>1, <2>2, <2>3
<1>2. PICK long \in Nat : Len(value) = long /\ \A i \in 1 .. long : value[i] \in Characters
  BY LenProperties, ElementOfSeq
<1>3. PICK c \in Nat : c = Reads!Copied(value, room) /\ c <= room /\ c <= long
                       /\ (c = long \/ c = room)
  BY <1>2 DEF Reads!Copied
<1> DEFINE data == Reads!GetCString(buffer, value)
<1>4. data = [i \in 1 .. room + 1 |->
                CASE i <= c -> value[i] [] i = c + 1 -> Reads!Blank [] OTHER -> buffer[i]]
  <2>1. Len(buffer) - 1 = room
    BY <1>1
  <2>2. QED
    BY <1>1, <1>3, <2>1 DEF Reads!GetCString
<1> HIDE DEF data
<1>5. Len(data) = room + 1
  BY <1>4
<1>6. \A i \in 1 .. c : data[i] = value[i] /\ data[i] # Reads!Blank
  BY <1>2, <1>3, <1>4
<1>7. data[c + 1] = Reads!Blank
  BY <1>3, <1>4
<1>8. c = CHOOSE i \in 0 .. Len(data) : /\ i < Len(data) => data[i + 1] = Reads!Blank
                                        /\ \A j \in 1 .. i : data[j] # Reads!Blank
  <2>1. room + 1 \in Nat /\ c \in 0 .. room + 1 /\ c < room + 1
    BY <1>3
  <2>2. c = CHOOSE i \in 0 .. room + 1 : /\ i < room + 1 => data[i + 1] = Reads!Blank
                                         /\ \A j \in 1 .. i : data[j] # Reads!Blank
    BY <1>6, <1>7, <2>1, StringEnds
  <2>3. QED
    BY <1>5, <2>2
<1>9. SubSeq(data, 1, c) = SubSeq(value, 1, c)
  <2>1. /\ SubSeq(data, 1, c) = [i \in 1 .. c |-> data[i]]
        /\ SubSeq(value, 1, c) = [i \in 1 .. c |-> value[i]]
    OBVIOUS
  <2>2. QED
    BY <1>6, <2>1
<1>10. c < Len(buffer) /\ (c = Len(value) \/ c = Len(buffer) - 1)
  BY <1>1, <1>2, <1>3
<1>11. QED
  BY <1>8, <1>9, <1>10 DEF Reads!CStringFits, data

LEMMA HeadOfConcat ==
  ASSUME NEW Characters, NEW s \in Seq(Characters), NEW t \in Seq(Characters), s # <<>>
  PROVE  s \o t # <<>> /\ Head(s \o t) = Head(s)
<1>1. Len(s) \in Nat \ {0} /\ Len(t) \in Nat
  BY EmptySeq, LenProperties
<1>2. Len(s \o t) = Len(s) + Len(t) /\ (s \o t)[1] = s[1] /\ s \o t \in Seq(Characters)
  BY <1>1, ConcatProperties
<1>3. s \o t # <<>>
  BY <1>1, <1>2
<1>4. QED
  BY <1>2, <1>3, HeadTailProperties DEF Head

\* A path that has been made absolute stays as it is (ChangeToAbsPath).
THEOREM AbsPathStaysSo ==
  ASSUME NEW Characters, NEW slash \in Characters,
         NEW root \in Seq(Characters), NEW path \in Seq(Characters)
  PROVE  Reads!AbsPathStays(root, path, slash)
<1> DEFINE m_root_path == <<slash>> \o root
           absolute == Reads!ChangeToAbsPath(m_root_path, path, slash)
<1>1. m_root_path \in Seq(Characters) /\ m_root_path # <<>> /\ Head(m_root_path) = slash
  OBVIOUS
<1> HIDE DEF m_root_path
<1>2. absolute # <<>> /\ Head(absolute) = slash
  <2>1. CASE path = <<>>
    BY <1>1, <2>1 DEF Reads!ChangeToAbsPath
  <2>2. CASE path # <<>> /\ Head(path) = slash
    BY <2>2 DEF Reads!ChangeToAbsPath
  <2>3. CASE path # <<>> /\ Head(path) # slash
    <3>1. absolute = m_root_path \o path \/ absolute = m_root_path \o <<slash>> \o path
      BY <2>3 DEF Reads!ChangeToAbsPath
    <3>2. <<slash>> \o path \in Seq(Characters)
      OBVIOUS
    <3>3. ASSUME NEW t \in Seq(Characters), absolute = m_root_path \o t
          PROVE  absolute # <<>> /\ Head(absolute) = slash
      <4>1. m_root_path \o t # <<>> /\ Head(m_root_path \o t) = Head(m_root_path)
        BY <1>1, HeadOfConcat
      <4>2. QED
        BY <1>1, <3>3, <4>1
    <3>4. CASE absolute = m_root_path \o path
      BY <3>3, <3>4
    <3>5. CASE absolute = m_root_path \o <<slash>> \o path
      <4>1. absolute = m_root_path \o (<<slash>> \o path)
        BY <1>1, <3>5
      <4>2. QED
        BY <3>2, <3>3, <4>1
    <3>6. QED
      BY <3>1, <3>4, <3>5
  <2>4. QED
    BY <2>1, <2>2, <2>3
<1> HIDE DEF absolute
<1>3. Reads!ChangeToAbsPath(m_root_path, absolute, slash) = absolute
  BY <1>2 DEF Reads!ChangeToAbsPath
<1>4. QED
  BY <1>2, <1>3 DEF Reads!AbsPathStays, absolute, m_root_path

-----------------------------------------------------------------------------
(* The rotation of log files.                                              *)

\* The names that LogMsg ever gives: the log file's, and numbers below the count.
Slots ==
  CASE mMaxFileCount = 0 -> {}
    [] mMaxFileCount = 1 -> {Log!Current, 0}
    [] OTHER -> {Log!Current} \union 1 .. (mMaxFileCount - 1)

LogPlaces == {"idle", "unlink", "rename", "open", "write"}
Loggers == 1 .. Log!MaxOf(ProcessCounts)

LogTypes ==
  /\ mMaxFileCount \in Counts
  /\ Log!Procs \subseteq Loggers
  /\ DOMAIN names = Log!Names /\ names = [n \in Log!Names |-> names[n]]
  /\ pc \in [Loggers -> LogPlaces]
  /\ number \in [Loggers -> Int]

LogInv ==
  /\ LogTypes
  /\ \A n \in Log!Names : names[n] # Log!NoFile => n \in Slots
  /\ \A p \in Loggers :
       /\ pc[p] # "idle" => mMaxFileCount # 0
       /\ pc[p] = "rename" => number[p] <= mMaxFileCount - 2

LEMMA LargestIs ==
  ASSUME NEW S, S \subseteq Int, NEW most \in S, \A n \in S : n <= most
  PROVE  Log!MaxOf(S) = most
<1>1. \A n \in S : (\A m \in S : m <= n) => n = most
  OBVIOUS
<1>2. QED
  BY <1>1 DEF Log!MaxOf

LEMMA LogStarts ==
  ASSUME Counts \subseteq Nat, ProcessCounts \subseteq Nat,
         NEW processors \in ProcessCounts, \A n \in ProcessCounts : n <= processors,
         Log!Init
  PROVE  LogInv
<1>1. Log!MaxOf(ProcessCounts) = processors
  <2>1. ProcessCounts \subseteq Int
    OBVIOUS
  <2>2. QED
    BY <2>1, LargestIs
<1>2. Log!Procs \subseteq Loggers
  BY <1>1 DEF Log!Init, Log!Procs, Loggers
<1>3. QED
  BY <1>2 DEF Log!Init, LogInv, LogTypes, Loggers, LogPlaces

\* A renaming takes a file to another of the slots.
LEMMA RenamingKeeps ==
  ASSUME LogInv, NEW from \in Log!Names, NEW to \in Slots, names' = Log!Renamed(from, to),
         mMaxFileCount' = mMaxFileCount
  PROVE  /\ DOMAIN names' = Log!Names /\ names' = [n \in Log!Names |-> names'[n]]
         /\ \A n \in Log!Names : names'[n] # Log!NoFile => n \in Slots'
<1>1. Slots' = Slots
  BY DEF Slots, Log!Current
<1>2. QED
  BY <1>1 DEF LogInv, LogTypes, Log!Renamed

LEMMA LogKept ==
  ASSUME Counts \subseteq Nat, NEW most \in Counts, \A n \in Counts : n <= most,
         LogInv, [Log!Next]_(Log!vars)
  PROVE  LogInv'
<1>1. /\ mMaxFileCount \in Nat /\ mMaxFileCount <= most /\ Log!Names = Log!Current .. most
      /\ Log!Current = -1
  BY LargestIs DEF LogInv, LogTypes, Log!Names, Log!Current
<1>2. CASE UNCHANGED Log!vars
  BY <1>2 DEF Log!vars, LogInv, LogTypes, Slots, Log!Procs
<1>3. ASSUME NEW p \in Log!Procs,
             \/ Log!LogMsg(p) \/ Log!Unlink(p) \/ Log!Rename(p)
             \/ Log!RenameCurrent(p) \/ Log!Open(p) \/ Log!Write(p)
      PROVE  LogInv'
  <2>1. p \in Loggers /\ number[p] \in Int
    BY <1>3 DEF LogInv, LogTypes
  <2>2. /\ UNCHANGED <<mMaxFileCount, processes>> /\ Slots' = Slots
        /\ mMaxFileCount' \in Counts /\ (Log!Procs \subseteq Loggers)'
    BY <1>3 DEF LogInv, LogTypes, Slots, Log!Procs, Loggers, Log!LogMsg, Log!Unlink,
                Log!Rename, Log!RenameCurrent, Log!Open, Log!Write
  <2>3. CASE Log!LogMsg(p)
    <3>1. /\ UNCHANGED <<names, number>>
          /\ pc' \in [Loggers -> LogPlaces]
          /\ \A q \in Loggers : pc'[q] = pc[q] \/ (pc'[q] = "idle" \/ mMaxFileCount # 0)
          /\ \A q \in Loggers : pc'[q] = "rename" => pc[q] = "rename"
      BY <2>1, <2>3 DEF Log!LogMsg, LogInv, LogTypes, LogPlaces
    <3>2. QED
      BY <2>2, <3>1 DEF LogInv, LogTypes
  <2>4. CASE Log!Unlink(p)
    <3>1. pc[p] = "unlink" /\ mMaxFileCount # 0
      BY <2>1, <2>4 DEF Log!Unlink, LogInv
    <3>2. /\ names' = [names EXCEPT ![mMaxFileCount - 1] = Log!NoFile]
          /\ number' = [number EXCEPT ![p] = mMaxFileCount - 2]
          /\ pc' = [pc EXCEPT ![p] = "rename"]
      BY <2>4 DEF Log!Unlink
    <3>3. pc' \in [Loggers -> LogPlaces] /\ number' \in [Loggers -> Int]
      BY <1>1, <2>1, <3>2 DEF LogInv, LogTypes, LogPlaces
    <3>4. \A q \in Loggers : /\ pc'[q] # "idle" => mMaxFileCount # 0
                             /\ pc'[q] = "rename" => number'[q] <= mMaxFileCount - 2
      BY <1>1, <2>1, <3>1, <3>2 DEF LogInv, LogTypes
    <3>5. /\ DOMAIN names' = Log!Names /\ names' = [n \in Log!Names |-> names'[n]]
          /\ \A n \in Log!Names : names'[n] # Log!NoFile => n \in Slots
      BY <3>2 DEF LogInv, LogTypes
    <3>6. QED
      BY <2>2, <3>3, <3>4, <3>5 DEF LogInv, LogTypes
  <2>5. CASE Log!Rename(p)
    <3>1. /\ pc[p] = "rename" /\ number[p] >= 1 /\ number[p] <= mMaxFileCount - 2
          /\ names' = Log!Renamed(number[p], number[p] + 1)
          /\ number' = [number EXCEPT ![p] = @ - 1] /\ pc' = pc
      BY <2>1, <2>5 DEF Log!Rename, LogInv
    <3>2. PICK n \in Int : n = number[p]
      BY <2>1
    <3>3. n \in Log!Names /\ n + 1 \in Slots
      BY <1>1, <3>1, <3>2 DEF Slots
    <3>4. /\ DOMAIN names' = Log!Names /\ names' = [m \in Log!Names |-> names'[m]]
          /\ \A m \in Log!Names : names'[m] # Log!NoFile => m \in Slots'
      BY <2>2, <3>1, <3>2, <3>3, RenamingKeeps
    <3>5. /\ number' \in [Loggers -> Int]
          /\ \A q \in Loggers : pc'[q] = "rename" => number'[q] <= mMaxFileCount - 2
      BY <1>1, <2>1, <3>1 DEF LogInv, LogTypes
    <3>6. QED
      BY <2>2, <3>1, <3>4, <3>5 DEF LogInv, LogTypes
  <2>6. CASE Log!RenameCurrent(p)
    <3>1. pc[p] = "rename" /\ mMaxFileCount # 0
      BY <2>1, <2>6 DEF Log!RenameCurrent, LogInv
    <3>2. PICK to \in {0, 1} : /\ names' = Log!Renamed(Log!Current, to)
                               /\ to = IF mMaxFileCount = 1 THEN 0 ELSE 1
      BY <2>6 DEF Log!RenameCurrent
    <3>3. Log!Current \in Log!Names /\ to \in Slots
      BY <1>1, <3>1, <3>2 DEF Slots
    <3>4. /\ DOMAIN names' = Log!Names /\ names' = [n \in Log!Names |-> names'[n]]
          /\ \A n \in Log!Names : names'[n] # Log!NoFile => n \in Slots'
      BY <2>2, <3>2, <3>3, RenamingKeeps
    <3>5. pc' = [pc EXCEPT ![p] = "open"] /\ number' = number
      BY <2>6 DEF Log!RenameCurrent
    <3>6. /\ pc' \in [Loggers -> LogPlaces]
          /\ \A q \in Loggers : pc'[q] = pc[q] \/ pc'[q] = "open"
      BY <2>1, <3>5 DEF LogInv, LogTypes, LogPlaces
    <3>7. \A q \in Loggers : pc'[q] # "idle" => mMaxFileCount # 0
      BY <3>1
    <3>8. QED
      BY <2>2, <3>4, <3>5, <3>6, <3>7 DEF LogInv, LogTypes
  <2>7. CASE Log!Open(p)
    <3>1. pc[p] = "open" /\ mMaxFileCount # 0
      BY <2>1, <2>7 DEF Log!Open, LogInv
    <3>2. Log!Current \in Slots
      BY <1>1, <3>1 DEF Slots
    <3>3. /\ names' = names \/ \E file : names' = [names EXCEPT ![Log!Current] = file]
          /\ pc' = [pc EXCEPT ![p] = "write"] /\ number' = number
      BY <2>7 DEF Log!Open
    <3>4. /\ DOMAIN names' = Log!Names /\ names' = [n \in Log!Names |-> names'[n]]
          /\ \A n \in Log!Names : names'[n] # Log!NoFile => n \in Slots
      BY <3>2, <3>3 DEF LogInv, LogTypes
    <3>5. /\ pc' \in [Loggers -> LogPlaces]
          /\ \A q \in Loggers : pc'[q] = pc[q] \/ pc'[q] = "write"
      BY <2>1, <3>3 DEF LogInv, LogTypes, LogPlaces
    <3>6. \A q \in Loggers : pc'[q] # "idle" => mMaxFileCount # 0
      BY <3>1
    <3>7. QED
      BY <2>2, <3>3, <3>4, <3>5, <3>6 DEF LogInv, LogTypes
  <2>8. CASE Log!Write(p)
    <3>1. /\ UNCHANGED <<names, number>>
          /\ pc' \in [Loggers -> LogPlaces]
          /\ \A q \in Loggers : pc'[q] = pc[q] \/ pc'[q] = "idle"
      BY <2>1, <2>8 DEF Log!Write, LogInv, LogTypes, LogPlaces
    <3>2. QED
      BY <2>2, <3>1 DEF LogInv, LogTypes
  <2>9. QED
    BY <1>3, <2>3, <2>4, <2>5, <2>6, <2>7, <2>8
<1>4. QED
  BY <1>2, <1>3 DEF Log!Next

SlotCount == IF mMaxFileCount = 1 THEN 2 ELSE mMaxFileCount

LEMMA SlotsAreFew ==
  ASSUME mMaxFileCount \in Nat
  PROVE  \/ IsFiniteSet(Slots) /\ Cardinality(Slots) = SlotCount
         \/ mMaxFileCount = 0 /\ Slots = {}
<1>1. CASE mMaxFileCount = 0
  BY <1>1 DEF Slots
<1>2. CASE mMaxFileCount = 1
  <2>1. Slots = {Log!Current, 0} /\ Log!Current # 0 /\ SlotCount = 2
    BY <1>2 DEF Slots, SlotCount, Log!Current
  <2>2. IsFiniteSet({0}) /\ Cardinality({0}) = 1
    BY FS_Singleton
  <2>3. /\ IsFiniteSet({0} \union {Log!Current})
        /\ Cardinality({0} \union {Log!Current}) = 2
    BY <2>1, <2>2, FS_AddElement
  <2>4. QED
    BY <2>1, <2>3
<1>3. CASE mMaxFileCount \notin {0, 1}
  <2>1. /\ Slots = (1 .. (mMaxFileCount - 1)) \union {Log!Current}
        /\ SlotCount = mMaxFileCount /\ mMaxFileCount - 1 \in Nat
        /\ Log!Current \notin 1 .. (mMaxFileCount - 1)
    BY <1>3 DEF Slots, SlotCount, Log!Current
  <2>2. /\ IsFiniteSet(1 .. (mMaxFileCount - 1))
        /\ Cardinality(1 .. (mMaxFileCount - 1)) = mMaxFileCount - 1
    BY <1>3, <2>1, FS_Interval
  <2>3. PICK low : low = 1 .. (mMaxFileCount - 1)
    OBVIOUS
  <2>4. /\ IsFiniteSet(low \union {Log!Current})
        /\ Cardinality(low \union {Log!Current}) = Cardinality(low) + 1
    BY <2>1, <2>2, <2>3, FS_AddElement
  <2>5. QED
    BY <2>1, <2>2, <2>3, <2>4
<1>4. QED
  BY <1>1, <1>2, <1>3

LEMMA LogBounds ==
  ASSUME Counts \subseteq Nat, LogInv
  PROVE  FilesBounded
<1>1. mMaxFileCount \in Nat /\ Log!Present \subseteq Slots
  BY DEF LogInv, LogTypes, Log!Present
<1>2. CASE IsFiniteSet(Slots) /\ Cardinality(Slots) = SlotCount
  BY <1>1, <1>2, FS_Subset, OneCardinality
     DEF FilesBounded, Log!FilesBounded, Log!CountKept, SlotCount
<1>3. CASE mMaxFileCount = 0 /\ Slots = {}
  <2>1. Log!Present = {}
    BY <1>1, <1>3
  <2>2. QED
    BY <1>3, <2>1, FS_EmptySet, OneCardinality
       DEF FilesBounded, Log!FilesBounded, Log!CountKept
<1>4. QED
  BY <1>1, <1>2, <1>3, SlotsAreFew

\* However the rotations of several processes overlap, LogMsg keeps no more files than
\* mMaxFileCount (CppLog.cpp:37), but for a count of 1; for any count and size and any
\* number of processes.
THEOREM RotationKeepsTheCount ==
  ASSUME Counts \subseteq Nat, \E most \in Counts : \A n \in Counts : n <= most,
         ProcessCounts \subseteq Nat,
         \E most \in ProcessCounts : \A n \in ProcessCounts : n <= most
  PROVE  Log!Spec => []FilesBounded
<1>1. Log!Init => LogInv
  BY LogStarts
<1>2. LogInv /\ [Log!Next]_(Log!vars) => LogInv'
  BY LogKept
<1>3. LogInv => FilesBounded
  BY LogBounds
<1>4. QED
  BY <1>1, <1>2, <1>3, PTL DEF Log!Spec

-----------------------------------------------------------------------------
(* Sums, which the statistics of the load client are compared with.        *)

LEMMA Induction ==
  ASSUME NEW S, 0 \in S, \A n \in Nat : n \in S => n + 1 \in S
  PROVE  \A n \in Nat : n \in S
<1> SUFFICES ASSUME NEW k \in Nat, k \notin S PROVE FALSE
  OBVIOUS
<1> DEFINE R == OpToRel(<, Nat)
           T == {n \in Nat : n \notin S}
<1>1. IsWellFoundedOn(R, Nat)
  BY NatLessThanWellFounded
<1>2. PICK n \in T : \A m \in T : <<m, n>> \notin R
  <2>1. T \subseteq Nat /\ T # {}
    OBVIOUS
  <2> HIDE DEF R, T
  <2>2. QED
    BY <1>1, <2>1, WFMin
<1>3. n \in Nat /\ n \notin S /\ n # 0
  OBVIOUS
<1>4. n - 1 \in Nat /\ (n - 1) + 1 = n /\ n - 1 < n
  BY <1>3
<1>5. <<n - 1, n>> \in R
  BY <1>3, <1>4 DEF OpToRel
<1>6. n - 1 \in S
  BY <1>2, <1>4, <1>5
<1>7. QED
  BY <1>3, <1>4, <1>6

\* The function of the partial sums up to n.
SumsTo(sum, f, n) == sum = [i \in 0 .. n |-> IF i = 0 THEN 0 ELSE f[i] + sum[i - 1]]

LEMMA SumsExist ==
  ASSUME NEW f
  PROVE  \A n \in Nat : \E sum : SumsTo(sum, f, n)
<1> DEFINE S == {n \in Nat : \E sum : SumsTo(sum, f, n)}
<1>1. 0 \in S
  <2>1. SumsTo([i \in 0 .. 0 |-> 0], f, 0)
    BY DEF SumsTo
  <2>2. QED
    BY <2>1
<1>2. ASSUME NEW n \in Nat, n \in S PROVE n + 1 \in S
  <2>1. PICK sum : SumsTo(sum, f, n)
    BY <1>2
  <2> DEFINE more == [i \in 0 .. (n + 1) |->
                        IF i \in 0 .. n THEN sum[i] ELSE f[n + 1] + sum[n]]
  <2>2. ASSUME NEW i \in 0 .. (n + 1)
        PROVE  more[i] = IF i = 0 THEN 0 ELSE f[i] + more[i - 1]
    <3>1. CASE i \in 0 .. n
      <4>1. more[i] = sum[i] /\ (i # 0 => i - 1 \in 0 .. n /\ more[i - 1] = sum[i - 1])
        BY <3>1
      <4>2. sum[i] = IF i = 0 THEN 0 ELSE f[i] + sum[i - 1]
        BY <2>1, <3>1 DEF SumsTo
      <4>3. QED
        BY <4>1, <4>2
    <3>2. CASE i = n + 1
      BY <3>2
    <3>3. QED
      BY <3>1, <3>2
  <2>3. SumsTo(more, f, n + 1)
    BY <2>2 DEF SumsTo
  <2>4. QED
    BY <2>3
<1> HIDE DEF S
<1>3. \A n \in Nat : n \in S
  BY <1>1, <1>2, Induction
<1>4. QED
  BY <1>3 DEF S

Agree(f, g, n) == \A i \in 1 .. n : f[i] = g[i]

\* Functions that agree where they are summed have the same partial sums.
LEMMA SumsAgree ==
  ASSUME NEW f, NEW g, NEW m \in Nat, NEW n \in Nat, m <= n, Agree(f, g, m),
         NEW sum, SumsTo(sum, f, m), NEW other, SumsTo(other, g, n)
  PROVE  sum[m] = other[m]
<1> DEFINE S == {k \in Nat : k <= m => sum[k] = other[k]}
<1>1. 0 \in S
  BY DEF SumsTo
<1>2. ASSUME NEW k \in Nat, k \in S PROVE k + 1 \in S
  <2> SUFFICES ASSUME k + 1 <= m PROVE sum[k + 1] = other[k + 1]
    OBVIOUS
  <2>1. k + 1 \in 0 .. m /\ k + 1 \in 0 .. n /\ k + 1 # 0 /\ (k + 1) - 1 = k
        /\ k + 1 \in 1 .. m
    OBVIOUS
  <2>2. sum[k + 1] = f[k + 1] + sum[k] /\ other[k + 1] = g[k + 1] + other[k]
    BY <2>1 DEF SumsTo
  <2>3. sum[k] = other[k] /\ f[k + 1] = g[k + 1]
    BY <1>2, <2>1 DEF Agree
  <2>4. QED
    BY <2>2, <2>3
<1> HIDE DEF S
<1>3. m \in S
  BY <1>1, <1>2, Induction
<1>4. QED
  BY <1>3 DEF S

LEMMA SumIs ==
  ASSUME NEW f, NEW n \in Nat, NEW sum, SumsTo(sum, f, n)
  PROVE  Client!SumOf(f, n) = sum[n]
<1> DEFINE chosen == CHOOSE s : s = [i \in 0 .. n |-> IF i = 0 THEN 0 ELSE f[i] + s[i - 1]]
<1>1. SumsTo(chosen, f, n)
  BY DEF SumsTo
<1>2. Client!SumOf(f, n) = chosen[n]
  BY DEF Client!SumOf
<1> HIDE DEF chosen
<1>3. Agree(f, f, n) /\ n <= n
  BY DEF Agree
<1>4. chosen[n] = sum[n]
  BY <1>1, <1>3, SumsAgree
<1>5. QED
  BY <1>2, <1>4

LEMMA SumSame ==
  ASSUME NEW f, NEW g, NEW n \in Nat, \A i \in 1 .. n : f[i] = g[i]
  PROVE  Client!SumOf(f, n) = Client!SumOf(g, n)
<1>1. PICK sum : SumsTo(sum, f, n)
  BY SumsExist
<1>2. PICK other : SumsTo(other, g, n)
  BY SumsExist
<1>3. Client!SumOf(f, n) = sum[n] /\ Client!SumOf(g, n) = other[n]
  BY <1>1, <1>2, SumIs
<1>4. Agree(f, g, n) /\ n <= n
  BY DEF Agree
<1>5. sum[n] = other[n]
  BY <1>1, <1>2, <1>4, SumsAgree
<1>6. QED
  BY <1>3, <1>5

LEMMA SumSteps ==
  ASSUME NEW f
  PROVE  /\ Client!SumOf(f, 0) = 0
         /\ \A n \in Nat : Client!SumOf(f, n + 1) = f[n + 1] + Client!SumOf(f, n)
<1>1. Client!SumOf(f, 0) = 0
  <2>1. PICK sum : SumsTo(sum, f, 0)
    BY SumsExist
  <2>2. sum[0] = 0
    BY <2>1 DEF SumsTo
  <2>3. QED
    BY <2>1, <2>2, SumIs
<1>2. ASSUME NEW n \in Nat PROVE Client!SumOf(f, n + 1) = f[n + 1] + Client!SumOf(f, n)
  <2>1. PICK more : SumsTo(more, f, n + 1)
    BY SumsExist
  <2>2. PICK sum : SumsTo(sum, f, n)
    BY SumsExist
  <2>3. Client!SumOf(f, n + 1) = more[n + 1] /\ Client!SumOf(f, n) = sum[n]
    BY <2>1, <2>2, SumIs
  <2>4. sum[n] = more[n]
    <3>1. n + 1 \in Nat /\ n <= n + 1 /\ Agree(f, f, n)
      BY DEF Agree
    <3>2. QED
      BY <2>1, <2>2, <3>1, SumsAgree
  <2>5. n + 1 \in 0 .. (n + 1) /\ n + 1 # 0 /\ (n + 1) - 1 = n
    OBVIOUS
  <2>6. more[n + 1] = f[n + 1] + more[n]
    BY <2>1, <2>5 DEF SumsTo
  <2>7. QED
    BY <2>3, <2>4, <2>6
<1>3. QED
  BY <1>1, <1>2

LEMMA SumTyped ==
  ASSUME NEW f, NEW n \in Nat, \A i \in 1 .. n : f[i] \in Nat
  PROVE  Client!SumOf(f, n) \in Nat
<1> DEFINE S == {k \in Nat : k <= n => Client!SumOf(f, k) \in Nat}
<1>1. 0 \in S
  BY SumSteps
<1>2. ASSUME NEW k \in Nat, k \in S PROVE k + 1 \in S
  BY <1>2, SumSteps
<1> HIDE DEF S
<1>3. n \in S
  BY <1>1, <1>2, Induction
<1>4. QED
  BY <1>3 DEF S

\* One term has grown.
Grown(f, g, n, k, d) ==
  \A i \in 1 .. n : f[i] \in Nat /\ g[i] = IF i = k THEN f[i] + d ELSE f[i]

\* What one term grows by, the sum grows by.
LEMMA SumGrows ==
  ASSUME NEW f, NEW g, NEW n \in Nat, NEW k \in 1 .. n, NEW d \in Nat,
         Grown(f, g, n, k, d)
  PROVE  Client!SumOf(g, n) = Client!SumOf(f, n) + d
<1> DEFINE S == {j \in Nat : j <= n =>
                   Client!SumOf(g, j) = Client!SumOf(f, j) + (IF k <= j THEN d ELSE 0)}
<1>1. 0 \in S
  BY SumSteps
<1>2. ASSUME NEW j \in Nat, j \in S PROVE j + 1 \in S
  <2> SUFFICES ASSUME j + 1 <= n
               PROVE  Client!SumOf(g, j + 1)
                        = Client!SumOf(f, j + 1) + (IF k <= j + 1 THEN d ELSE 0)
    OBVIOUS
  <2>1. /\ Client!SumOf(g, j + 1) = g[j + 1] + Client!SumOf(g, j)
        /\ Client!SumOf(f, j + 1) = f[j + 1] + Client!SumOf(f, j)
    BY SumSteps
  <2>2. j + 1 \in 1 .. n /\ \A i \in 1 .. j : f[i] \in Nat
    BY DEF Grown
  <2>3. Client!SumOf(f, j) \in Nat
    BY <2>2, SumTyped
  <2>4. Client!SumOf(g, j) = Client!SumOf(f, j) + (IF k <= j THEN d ELSE 0)
    BY <1>2
  <2>5. f[j + 1] \in Nat /\ g[j + 1] = IF j + 1 = k THEN f[j + 1] + d ELSE f[j + 1]
    BY <2>2 DEF Grown
  <2>6. QED
    BY <2>1, <2>3, <2>4, <2>5
<1> HIDE DEF S
<1>3. n \in S
  BY <1>1, <1>2, Induction
<1>4. QED
  BY <1>3 DEF S

-----------------------------------------------------------------------------
(* The statistics of the load client.                                      *)

Verdict == {"gSuccessCount", "gFailCount"}
Extreme == {"gMaxTimeUs", "gMinTimeUs", "gCurrMaxTimeUs", "gCurrMinTimeUs"}
OfPeriod == {"gCurrTotalTimeUs", "gCurrMaxTimeUs", "gCurrMinTimeUs"}
Answer == (Nat \ {0}) \X Verdict

\* What a list of answers says.
CountIn(s, name) ==
  Client!SumOf([i \in DOMAIN s |-> IF s[i][2] = name THEN 1 ELSE 0], Len(s))
TimeIn(s) == Client!SumOf([i \in DOMAIN s |-> s[i][1]], Len(s))
TimesIn(s) == {s[i][1] : i \in DOMAIN s}

LEMMA StatsAre ==
  Client!Stats = {"gTotalTimeUs"} \union Extreme \union {"gCurrTotalTimeUs"} \union Verdict
<1>1. Client!Order = <<"gTotalTimeUs", "gMaxTimeUs", "gMinTimeUs",
                       "gCurrTotalTimeUs", "gCurrMaxTimeUs", "gCurrMinTimeUs">>
  BY DEF Client!Order
<1>2. DOMAIN Client!Order = {1, 2, 3, 4, 5, 6}
  BY <1>1
<1>3. QED
  BY <1>1, <1>2 DEF Client!Stats, Extreme, Verdict

LEMMA AfterIs ==
  /\ Client!After("gTotalTimeUs") = {"gMaxTimeUs"}
  /\ Client!After("gMaxTimeUs") = {"gMinTimeUs"}
  /\ Client!After("gMinTimeUs") = {"gCurrTotalTimeUs"}
  /\ Client!After("gCurrTotalTimeUs") = {"gCurrMaxTimeUs"}
  /\ Client!After("gCurrMaxTimeUs") = {"gCurrMinTimeUs"}
  /\ Client!After("gCurrMinTimeUs") = Verdict
<1>1. Client!Order = <<"gTotalTimeUs", "gMaxTimeUs", "gMinTimeUs",
                       "gCurrTotalTimeUs", "gCurrMaxTimeUs", "gCurrMinTimeUs">>
  BY DEF Client!Order
<1>2. DOMAIN Client!Order = {1, 2, 3, 4, 5, 6} /\ Len(Client!Order) = 6
  BY <1>1
<1>3. QED
  BY <1>1, <1>2 DEF Client!After, Verdict

LEMMA ListTyped ==
  ASSUME NEW s \in Seq(Answer), NEW name
  PROVE  /\ CountIn(s, name) \in Nat /\ TimeIn(s) \in Nat /\ TimesIn(s) \subseteq Nat \ {0}
         /\ TimesIn(s) = {} <=> s = <<>>
<1>1. Len(s) \in Nat /\ DOMAIN s = 1 .. Len(s) /\ \A i \in 1 .. Len(s) : s[i] \in Answer
  BY LenProperties, ElementOfSeq
<1>2. CountIn(s, name) \in Nat
  BY <1>1, SumTyped DEF CountIn
<1>3. TimeIn(s) \in Nat
  <2>1. \A i \in 1 .. Len(s) : [j \in DOMAIN s |-> s[j][1]][i] \in Nat
    BY <1>1 DEF Answer
  <2>2. QED
    BY <1>1, <2>1, SumTyped DEF TimeIn
<1>4. TimesIn(s) \subseteq Nat \ {0}
  BY <1>1 DEF TimesIn, Answer
<1>5. TimesIn(s) = {} <=> s = <<>>
  <2>1. s # <<>> => 1 \in DOMAIN s
    BY <1>1, EmptySeq
  <2>2. s = <<>> => DOMAIN s = {}
    BY <1>1
  <2>3. QED
    BY <2>1, <2>2 DEF TimesIn
<1>6. QED
  BY <1>2, <1>3, <1>4, <1>5

Is(a, name) == IF a[2] = name THEN 1 ELSE 0

LEMMA AppendTimes ==
  ASSUME NEW s \in Seq(Answer), NEW a \in Answer, NEW more, more = Append(s, a)
  PROVE  /\ more \in Seq(Answer) /\ TimeIn(more) = TimeIn(s) + a[1]
         /\ TimesIn(more) = TimesIn(s) \union {a[1]}
<1>1. PICK n \in Nat : /\ n = Len(s) /\ DOMAIN s = 1 .. n
                       /\ Len(more) = n + 1 /\ DOMAIN more = 1 .. (n + 1)
                       /\ more[n + 1] = a /\ \A i \in 1 .. n : more[i] = s[i]
                       /\ more \in Seq(Answer)
  <2>1. more \in Seq(Answer) /\ Len(more) = Len(s) + 1 /\ more[Len(s) + 1] = a
        /\ \A i \in 1 .. Len(s) : more[i] = s[i]
    BY AppendProperties
  <2>2. QED
    BY <2>1, LenProperties
<1>2. TimeIn(more) = TimeIn(s) + a[1]
  <2> DEFINE f == [i \in DOMAIN s |-> s[i][1]]
             g == [i \in DOMAIN more |-> more[i][1]]
  <2>1. g[n + 1] = a[1] /\ \A i \in 1 .. n : f[i] = g[i]
    BY <1>1
  <2>2. TimeIn(more) = Client!SumOf(g, n + 1) /\ TimeIn(s) = Client!SumOf(f, n)
    BY <1>1 DEF TimeIn
  <2>3. TimeIn(s) \in Nat /\ a[1] \in Nat
    BY ListTyped DEF Answer
  <2> HIDE DEF f, g
  <2>4. Client!SumOf(g, n + 1) = a[1] + Client!SumOf(g, n)
    BY <2>1, SumSteps
  <2>5. Client!SumOf(g, n) = Client!SumOf(f, n)
    BY <2>1, SumSame
  <2>6. QED
    BY <2>2, <2>3, <2>4, <2>5
<1>3. TimesIn(more) = TimesIn(s) \union {a[1]}
  BY <1>1 DEF TimesIn
<1>4. QED
  BY <1>1, <1>2, <1>3

LEMMA AppendCounts ==
  ASSUME NEW s \in Seq(Answer), NEW a \in Answer, NEW more, more = Append(s, a)
  PROVE  \A name \in Verdict : CountIn(more, name) = CountIn(s, name) + Is(a, name)
<1>1. PICK n \in Nat : /\ n = Len(s) /\ DOMAIN s = 1 .. n
                       /\ Len(more) = n + 1 /\ DOMAIN more = 1 .. (n + 1)
                       /\ more[n + 1] = a /\ \A i \in 1 .. n : more[i] = s[i]
                       /\ more \in Seq(Answer)
  <2>1. more \in Seq(Answer) /\ Len(more) = Len(s) + 1 /\ more[Len(s) + 1] = a
        /\ \A i \in 1 .. Len(s) : more[i] = s[i]
    BY AppendProperties
  <2>2. QED
    BY <2>1, LenProperties
<1>2. ASSUME NEW name \in Verdict
      PROVE  CountIn(more, name) = CountIn(s, name) + Is(a, name)
  <2> DEFINE f == [i \in DOMAIN s |-> IF s[i][2] = name THEN 1 ELSE 0]
             g == [i \in DOMAIN more |-> IF more[i][2] = name THEN 1 ELSE 0]
  <2>1. /\ g[n + 1] = Is(a, name) /\ Is(a, name) \in Nat
        /\ \A i \in 1 .. n : f[i] = g[i]
    BY <1>1 DEF Is
  <2>2. CountIn(more, name) = Client!SumOf(g, n + 1)
        /\ CountIn(s, name) = Client!SumOf(f, n)
    BY <1>1 DEF CountIn
  <2>3. CountIn(s, name) \in Nat
    BY ListTyped
  <2> HIDE DEF f, g
  <2>4. Client!SumOf(g, n + 1) = g[n + 1] + Client!SumOf(g, n)
    BY SumSteps
  <2>5. Client!SumOf(g, n) = Client!SumOf(f, n)
    BY <2>1, SumSame
  <2>6. QED
    BY <2>1, <2>2, <2>3, <2>4, <2>5
<1>3. QED
  BY <1>2

ClientTypes ==
  /\ mClientThreadCount \in ThreadIds
  /\ stat \in [Client!Stats -> Nat]
  /\ client \in [ThreadIds -> {"connect", "wait"} \union Client!Stats]
  /\ loaded \in [ThreadIds -> Nat \union {-1}]
  /\ usedTimeUs \in [ThreadIds -> Nat]
  /\ answers \in [ThreadIds -> Seq(Answer)]
  /\ run \in {"sleep", "second", "join"} \union OfPeriod
  /\ \A t \in ThreadIds : IF client[t] \in Client!Stats THEN usedTimeUs[t] # 0
                                                        ELSE loaded[t] = -1

LEMMA UpdatedIs ==
  ASSUME NEW old, NEW time
  PROVE  /\ Client!Updated("gTotalTimeUs", old, time) = old + time
         /\ Client!Updated("gCurrTotalTimeUs", old, time) = old + time
         /\ \A name \in {"gMaxTimeUs", "gCurrMaxTimeUs"} :
              Client!Updated(name, old, time) = IF old < time THEN time ELSE old
         /\ \A name \in {"gMinTimeUs", "gCurrMinTimeUs"} :
              Client!Updated(name, old, time) = IF old = 0 \/ old > time THEN time ELSE old
         /\ \A name \in Verdict : Client!Updated(name, old, time) = old + 1
  BY DEF Client!Updated, Verdict

\* The steps that leave the statistics alone, and what they change.
Quiet ==
  /\ UNCHANGED <<mClientThreadCount, stat, loaded, usedTimeUs, answers>>
  /\ client' \in [ThreadIds -> {"connect", "wait"} \union Client!Stats]
  /\ \A t \in ThreadIds :
       client'[t] = client[t] \/ {client[t], client'[t]} \subseteq {"connect", "wait"}

Starts(t) ==
  /\ UNCHANGED <<mClientThreadCount, stat, loaded, answers>>
  /\ client[t] = "wait" /\ client' = [client EXCEPT ![t] = "gTotalTimeUs"]
  /\ \E time \in Nat \ {0} : usedTimeUs' = [usedTimeUs EXCEPT ![t] = time]

Loads(t) ==
  /\ UNCHANGED <<mClientThreadCount, stat, client, usedTimeUs, answers>>
  /\ client[t] \in Client!Stats /\ loaded[t] = -1
  /\ loaded' = [loaded EXCEPT ![t] = stat[client[t]]]

\* A value is stored, with which the answer is handled...
Ends(t) ==
  /\ UNCHANGED <<mClientThreadCount, usedTimeUs>>
  /\ client[t] \in Verdict /\ loaded[t] \in Nat
  /\ stat' = [stat EXCEPT ![client[t]] = loaded[t] + 1]
  /\ loaded' = [loaded EXCEPT ![t] = -1]
  /\ client' = [client EXCEPT ![t] = "wait"]
  /\ answers' = [answers EXCEPT ![t] = Append(@, <<usedTimeUs[t], client[t]>>)]

\* ... or the next statistic comes.
Goes(t, name) ==
  /\ UNCHANGED <<mClientThreadCount, usedTimeUs, answers>>
  /\ client[t] = name /\ name \in Client!Stats \ Verdict /\ loaded[t] \in Nat
  /\ stat' = [stat EXCEPT ![name] = Client!Updated(name, loaded[t], usedTimeUs[t])]
  /\ loaded' = [loaded EXCEPT ![t] = -1]
  /\ \E next \in Client!After(name) : client' = [client EXCEPT ![t] = next]

Resets ==
  /\ UNCHANGED <<mClientThreadCount, client, loaded, usedTimeUs, answers>>
  /\ \E name \in OfPeriod : stat' = [stat EXCEPT ![name] = 0]

LEMMA ClientSteps ==
  ASSUME ClientTypes, Times \subseteq Nat, Client!Next
  PROVE  \/ Quiet
         \/ Resets
         \/ \E t \in Client!Threads :
              Starts(t) \/ Loads(t) \/ Ends(t) \/ \E name \in Client!Stats : Goes(t, name)
<1>1. Client!Order[1] = "gTotalTimeUs" /\ Client!NotRead = -1
      /\ Client!Threads \subseteq ThreadIds
  BY DEF Client!Order, Client!NotRead, Client!Threads
<1>2. ASSUME NEW t \in Client!Threads, Client!ConnectServer(t) PROVE Quiet
  BY <1>1, <1>2 DEF Client!ConnectServer, ClientTypes, Quiet
<1>3. ASSUME NEW t \in Client!Threads, Client!ProcWrite(t) PROVE Quiet
  BY <1>3 DEF Client!ProcWrite, ClientTypes, Quiet
<1>4. ASSUME NEW t \in Client!Threads, Client!ProcRead(t) PROVE Quiet \/ Starts(t)
  BY <1>1, <1>4 DEF Client!ProcRead, ClientTypes, Quiet, Starts
<1>5. ASSUME NEW t \in Client!Threads, Client!Load(t) PROVE Loads(t)
  BY <1>1, <1>5 DEF Client!Load, Loads
<1>6. ASSUME NEW t \in Client!Threads, Client!Store(t)
      PROVE  Ends(t) \/ \E name \in Client!Stats : Goes(t, name)
  <2>1. /\ client[t] \in Client!Stats /\ loaded[t] \in Nat
        /\ UNCHANGED <<mClientThreadCount, usedTimeUs>>
        /\ stat' = [stat EXCEPT ![client[t]] =
                      Client!Updated(client[t], loaded[t], usedTimeUs[t])]
        /\ loaded' = [loaded EXCEPT ![t] = -1]
    BY <1>1, <1>6 DEF Client!Store, ClientTypes
  <2>2. CASE client[t] \in Verdict
    <3>1. Client!Updated(client[t], loaded[t], usedTimeUs[t]) = loaded[t] + 1
      BY <2>2, UpdatedIs
    <3>2. /\ client' = [client EXCEPT ![t] = "wait"]
          /\ answers' = [answers EXCEPT ![t] = Append(@, <<usedTimeUs[t], client[t]>>)]
      BY <1>6, <2>2 DEF Client!Store, Verdict
    <3>3. QED
      BY <2>1, <2>2, <3>1, <3>2 DEF Ends
  <2>3. CASE client[t] \notin Verdict
    <3>1. /\ answers' = answers
          /\ \E next \in Client!After(client[t]) : client' = [client EXCEPT ![t] = next]
      BY <1>6, <2>3 DEF Client!Store, Verdict
    <3>2. QED
      BY <2>1, <2>3, <3>1 DEF Goes
  <2>4. QED
    BY <2>2, <2>3
<1>7. CASE Client!Period \/ Client!EndPeriod
  BY <1>7 DEF Client!Period, Client!EndPeriod, ClientTypes, Quiet
<1>8. CASE Client!Reset
  BY <1>8 DEF Client!Reset, Resets, OfPeriod
<1>9. QED
  BY <1>2, <1>3, <1>4, <1>5, <1>6, <1>7, <1>8 DEF Client!Next

LEMMA ClientTyped ==
  ASSUME ClientTypes, Times \subseteq Nat, [Client!Next]_(Client!vars)
  PROVE  ClientTypes'
<1>1. run' \in {"sleep", "second", "join"} \union OfPeriod
  <2>1. CASE Client!Period \/ Client!EndPeriod \/ Client!Reset
    BY <2>1 DEF Client!Period, Client!EndPeriod, Client!Reset, OfPeriod
  <2>2. CASE run' = run
    BY <2>2 DEF ClientTypes
  <2>3. QED
    BY <2>1, <2>2 DEF Client!Next, Client!vars, Client!ConnectServer, Client!ProcWrite,
                      Client!ProcRead, Client!Load, Client!Store
<1>2. Client!Threads \subseteq ThreadIds
  BY DEF Client!Threads
<1>3. CASE Quiet
  BY <1>1, <1>3, StatsAre DEF Quiet, ClientTypes, Extreme, Verdict
<1>4. CASE Resets
  <2>1. PICK name \in OfPeriod : stat' = [stat EXCEPT ![name] = 0]
    BY <1>4 DEF Resets
  <2>2. stat' \in [Client!Stats -> Nat]
    BY <2>1 DEF ClientTypes
  <2>3. QED
    BY <1>1, <1>4, <2>2 DEF Resets, ClientTypes
<1>5. ASSUME NEW t \in Client!Threads, Starts(t) PROVE ClientTypes'
  <2>1. "gTotalTimeUs" \in Client!Stats
    BY StatsAre
  <2>2. QED
    BY <1>1, <1>2, <1>5, <2>1 DEF Starts, ClientTypes
<1>6. ASSUME NEW t \in Client!Threads, Loads(t) PROVE ClientTypes'
  BY <1>1, <1>2, <1>6 DEF Loads, ClientTypes
<1>7. ASSUME NEW t \in Client!Threads, Ends(t) PROVE ClientTypes'
  <2>1. client[t] \in Client!Stats /\ "wait" \notin Client!Stats
    BY <1>7, StatsAre DEF Ends, Extreme, Verdict
  <2>2. <<usedTimeUs[t], client[t]>> \in Answer
    BY <1>2, <1>7, <2>1 DEF Ends, ClientTypes, Answer
  <2>3. Append(answers[t], <<usedTimeUs[t], client[t]>>) \in Seq(Answer)
    BY <1>2, <2>2 DEF ClientTypes
  <2>4. QED
    BY <1>1, <1>2, <1>7, <2>1, <2>3 DEF Ends, ClientTypes
<1>8. ASSUME NEW t \in Client!Threads, NEW name \in Client!Stats, Goes(t, name)
      PROVE  ClientTypes'
  <2>1. Client!After(name) \subseteq Client!Stats
    BY <1>8, AfterIs, StatsAre DEF Goes, Extreme, Verdict
  <2>2. Client!Updated(name, loaded[t], usedTimeUs[t]) \in Nat
    <3>1. usedTimeUs[t] \in Nat /\ loaded[t] \in Nat
      BY <1>2, <1>8 DEF Goes, ClientTypes
    <3>2. QED
      BY <1>8, <3>1, StatsAre, UpdatedIs DEF Goes, Extreme
  <2>3. QED
    BY <1>1, <1>2, <1>8, <2>1, <2>2 DEF Goes, ClientTypes
<1>9. CASE UNCHANGED Client!vars
  BY <1>9 DEF Client!vars, ClientTypes
<1>10. QED
  BY <1>3, <1>4, <1>5, <1>6, <1>7, <1>8, <1>9, ClientSteps

\* A client that has no thread handles no answer.
Outside == \A t \in ThreadIds \ Client!Threads : client[t] \notin Client!Stats

LEMMA OutsideKept ==
  ASSUME ClientTypes, Outside, Times \subseteq Nat, [Client!Next]_(Client!vars)
  PROVE  Outside'
<1>1. Client!Threads' = Client!Threads
  <2>1. mClientThreadCount' = mClientThreadCount
    <3>1. CASE Client!Next
      BY <3>1, ClientSteps DEF Quiet, Resets, Starts, Loads, Ends, Goes
    <3>2. CASE UNCHANGED Client!vars
      BY <3>2 DEF Client!vars
    <3>3. QED
      BY <3>1, <3>2
  <2>2. QED
    BY <2>1 DEF Client!Threads
<1>2. ASSUME NEW t \in ThreadIds \ Client!Threads PROVE client'[t] \notin Client!Stats
  <2>1. client[t] \notin Client!Stats
    BY DEF Outside
  <2>2. CASE Quiet
    BY <2>1, <2>2, StatsAre DEF Quiet, Extreme, Verdict
  <2>3. CASE Resets \/ UNCHANGED Client!vars
    BY <2>1, <2>3 DEF Resets, Client!vars
  <2>4. ASSUME NEW u \in Client!Threads,
               Starts(u) \/ Loads(u) \/ Ends(u) \/ \E name \in Client!Stats : Goes(u, name)
        PROVE  client'[t] = client[t]
    <3>1. t # u /\ DOMAIN client = ThreadIds
      BY DEF ClientTypes
    <3>2. QED
      BY <2>4, <3>1 DEF Starts, Loads, Ends, Goes
  <2>5. QED
    BY <2>1, <2>2, <2>3, <2>4, ClientSteps
<1>3. QED
  BY <1>1, <1>2 DEF Outside

\* With one thread, each total is that of the answers handled and, once the thread has
\* stored it, of the answer in its hands.
Pending(t) ==
  IF client[t] \in Client!Stats \ {"gTotalTimeUs"} THEN usedTimeUs[t] ELSE 0
Seen(later) ==
  TimesIn(answers[1]) \union IF client[1] \in later THEN {usedTimeUs[1]} ELSE {}
AfterMax == Client!Stats \ {"gTotalTimeUs", "gMaxTimeUs"}
AfterMin == AfterMax \ {"gMinTimeUs"}

IsMax(n, S) == IF S = {} THEN n = 0 ELSE n \in S /\ \A m \in S : m <= n
IsMin(n, S) == IF S = {} THEN n = 0 ELSE n \in S /\ \A m \in S : n <= m

OneInv ==
  mClientThreadCount = 1 =>
    /\ \A name \in Verdict : stat[name] = CountIn(answers[1], name)
    /\ stat["gTotalTimeUs"] = TimeIn(answers[1]) + Pending(1)
    /\ IsMax(stat["gMaxTimeUs"], Seen(AfterMax))
    /\ IsMin(stat["gMinTimeUs"], Seen(AfterMin))
    /\ loaded[1] # -1 /\ client[1] \notin OfPeriod => loaded[1] = stat[client[1]]

LEMMA ExtremesGrow ==
  ASSUME NEW S, S \subseteq Nat \ {0}, NEW n, NEW time \in Nat \ {0}
  PROVE  /\ IsMax(n, S) => IsMax(IF n < time THEN time ELSE n, S \union {time})
         /\ IsMin(n, S) => IsMin(IF n = 0 \/ n > time THEN time ELSE n, S \union {time})
<1>1. ASSUME IsMax(n, S) PROVE IsMax(IF n < time THEN time ELSE n, S \union {time})
  <2>1. CASE S = {}
    BY <1>1, <2>1 DEF IsMax
  <2>2. CASE S # {}
    <3>1. n \in S /\ n \in Nat /\ \A m \in S : m \in Nat /\ m <= n
      BY <1>1, <2>2 DEF IsMax
    <3>2. CASE n < time
      BY <3>1, <3>2 DEF IsMax
    <3>3. CASE ~(n < time)
      BY <3>1, <3>3 DEF IsMax
    <3>4. QED
      BY <3>2, <3>3
  <2>3. QED
    BY <2>1, <2>2
<1>2. ASSUME IsMin(n, S) PROVE IsMin(IF n = 0 \/ n > time THEN time ELSE n, S \union {time})
  <2>1. CASE S = {}
    BY <1>2, <2>1 DEF IsMin
  <2>2. CASE S # {}
    <3>1. n \in S /\ n \in Nat \ {0} /\ \A m \in S : m \in Nat /\ n <= m
      BY <1>2, <2>2 DEF IsMin
    <3>2. CASE n > time
      BY <3>1, <3>2 DEF IsMin
    <3>3. CASE ~(n > time)
      BY <3>1, <3>3 DEF IsMin
    <3>4. QED
      BY <3>1, <3>2, <3>3
  <2>3. QED
    BY <2>1, <2>2
<1>3. QED
  BY <1>1, <1>2

LEMMA OneKept ==
  ASSUME NEW threads \in Nat \ {0}, ThreadIds = 1 .. threads,
         ClientTypes, ClientTypes', Times \subseteq Nat, OneInv, [Client!Next]_(Client!vars)
  PROVE  OneInv'
<1> SUFFICES ASSUME mClientThreadCount' = 1 PROVE OneInv'
  BY DEF OneInv
<1>1. mClientThreadCount = 1 /\ Client!Threads = {1} /\ 1 \in ThreadIds
  <2>1. mClientThreadCount = 1
    BY ClientSteps DEF Quiet, Resets, Starts, Loads, Ends, Goes, Client!vars
  <2>2. QED
    BY <2>1 DEF Client!Threads
<1>2. /\ answers[1] \in Seq(Answer) /\ TimesIn(answers[1]) \subseteq Nat \ {0}
      /\ TimeIn(answers[1]) \in Nat /\ usedTimeUs[1] \in Nat
      /\ client[1] \in Client!Stats => usedTimeUs[1] \in Nat \ {0}
      /\ client[1] \notin Client!Stats => loaded[1] = -1
  BY <1>1, ListTyped DEF ClientTypes
<1>3. /\ "gTotalTimeUs" \in Client!Stats /\ "gMaxTimeUs" \in Client!Stats
      /\ "gMinTimeUs" \in Client!Stats /\ Verdict \subseteq Client!Stats
      /\ OfPeriod \subseteq Client!Stats
      /\ "wait" \notin Client!Stats /\ "connect" \notin Client!Stats
  BY StatsAre DEF Extreme, Verdict, OfPeriod
<1>4. CASE UNCHANGED Client!vars
  BY <1>4 DEF Client!vars, OneInv, Pending, Seen
<1>5. CASE Quiet
  <2>1. client'[1] = client[1] \/ {client[1], client'[1]} \subseteq {"connect", "wait"}
    BY <1>1, <1>5 DEF Quiet
  <2>2. Pending(1)' = Pending(1) /\ Seen(AfterMax)' = Seen(AfterMax)
        /\ Seen(AfterMin)' = Seen(AfterMin)
    BY <1>3, <1>5, <2>1 DEF Quiet, Pending, Seen, AfterMax, AfterMin
  <2>3. QED
    BY <1>1, <1>2, <1>3, <1>5, <2>1, <2>2 DEF Quiet, OneInv
<1>6. CASE Resets
  <2>1. PICK name \in OfPeriod : stat' = [stat EXCEPT ![name] = 0]
    BY <1>6 DEF Resets
  <2>2. /\ \A other \in Client!Stats \ OfPeriod : stat'[other] = stat[other]
        /\ UNCHANGED <<client, loaded, usedTimeUs, answers>>
    BY <1>6, <2>1 DEF Resets, ClientTypes
  <2>3. Verdict \cap OfPeriod = {}
        /\ {"gTotalTimeUs", "gMaxTimeUs", "gMinTimeUs"} \cap OfPeriod = {}
    BY DEF Verdict, OfPeriod
  <2>4. /\ \A other \in Verdict : stat'[other] = stat[other]
        /\ stat'["gTotalTimeUs"] = stat["gTotalTimeUs"]
        /\ stat'["gMaxTimeUs"] = stat["gMaxTimeUs"]
        /\ stat'["gMinTimeUs"] = stat["gMinTimeUs"]
    BY <1>3, <2>2, <2>3
  <2>5. loaded[1] # -1 /\ client[1] \notin OfPeriod => stat'[client[1]] = stat[client[1]]
    BY <1>2, <2>2
  <2>6. QED
    BY <1>1, <2>2, <2>4, <2>5 DEF OneInv, Pending, Seen
<1>7. CASE Starts(1)
  <2>1. PICK time \in Nat \ {0} : usedTimeUs' = [usedTimeUs EXCEPT ![1] = time]
    BY <1>7 DEF Starts
  <2>2. /\ UNCHANGED <<stat, loaded, answers>>
        /\ client[1] = "wait" /\ client'[1] = "gTotalTimeUs"
    BY <1>1, <1>7 DEF Starts, ClientTypes
  <2>3. Pending(1)' = 0 /\ Pending(1) = 0
    BY <1>3, <2>2 DEF Pending
  <2>4. Seen(AfterMax)' = Seen(AfterMax) /\ Seen(AfterMin)' = Seen(AfterMin)
    BY <1>3, <2>2 DEF Seen, AfterMax, AfterMin
  <2>5. QED
    BY <1>1, <1>2, <1>3, <2>2, <2>3, <2>4 DEF OneInv
<1>8. CASE Loads(1)
  <2>1. /\ UNCHANGED <<stat, client, usedTimeUs, answers>>
        /\ loaded'[1] = stat[client[1]]
    BY <1>1, <1>8 DEF Loads, ClientTypes
  <2>2. QED
    BY <1>1, <2>1 DEF OneInv, Pending, Seen
<1>9. CASE Ends(1)
  <2>1. /\ client[1] \in Verdict /\ loaded[1] = stat[client[1]] /\ loaded'[1] = -1
        /\ client'[1] = "wait" /\ usedTimeUs' = usedTimeUs
        /\ stat' = [stat EXCEPT ![client[1]] = loaded[1] + 1]
        /\ answers'[1] = Append(answers[1], <<usedTimeUs[1], client[1]>>)
    <3>1. client[1] \in Verdict /\ client[1] \notin OfPeriod /\ loaded[1] \in Nat
      BY <1>9 DEF Ends, Verdict, OfPeriod
    <3>2. loaded[1] = stat[client[1]]
      BY <1>1, <3>1 DEF OneInv
    <3>3. QED
      BY <1>1, <1>9, <3>1, <3>2 DEF Ends, ClientTypes
  <2>2. PICK a \in Answer : a = <<usedTimeUs[1], client[1]>>
                            /\ a[1] = usedTimeUs[1] /\ a[2] = client[1]
    <3>1. <<usedTimeUs[1], client[1]>> \in Answer
      BY <1>2, <1>3, <2>1 DEF Answer
    <3>2. QED
      BY <3>1
  <2>3. PICK s \in Seq(Answer), more \in Seq(Answer) :
          s = answers[1] /\ more = answers'[1] /\ more = Append(s, a)
    BY <1>1, <1>2, <2>1, <2>2 DEF ClientTypes
  <2>4. /\ TimeIn(more) = TimeIn(s) + usedTimeUs[1]
        /\ TimesIn(more) = TimesIn(s) \union {usedTimeUs[1]}
    <3>1. TimeIn(more) = TimeIn(s) + a[1] /\ TimesIn(more) = TimesIn(s) \union {a[1]}
      BY <2>3, AppendTimes
    <3>2. QED
      BY <2>2, <3>1
  <2>5. /\ Pending(1) = usedTimeUs[1] /\ Pending(1)' = 0
        /\ Seen(AfterMax)' = Seen(AfterMax) /\ Seen(AfterMin)' = Seen(AfterMin)
    <3>1. client[1] \in Client!Stats \ {"gTotalTimeUs"} /\ client[1] \in AfterMax
          /\ client[1] \in AfterMin
      BY <1>3, <2>1 DEF AfterMax, AfterMin, Verdict
    <3>2. client'[1] \notin Client!Stats /\ client'[1] \notin AfterMax
          /\ client'[1] \notin AfterMin
      BY <1>3, <2>1 DEF AfterMax, AfterMin
    <3>3. QED
      BY <2>1, <2>3, <2>4, <3>1, <3>2 DEF Pending, Seen
  <2>6. ASSUME NEW name \in Verdict PROVE stat'[name] = CountIn(answers'[1], name)
    <3>1. stat[name] = CountIn(answers[1], name) /\ name \in Client!Stats
          /\ stat[name] \in Nat
      BY <1>1, <1>3 DEF OneInv, ClientTypes
    <3>2. stat'[name] = IF name = client[1] THEN stat[name] + 1 ELSE stat[name]
      BY <2>1, <3>1 DEF ClientTypes
    <3>3. CountIn(more, name) = CountIn(s, name) + Is(a, name)
      BY <2>3, AppendCounts
    <3>4. QED
      BY <2>2, <2>3, <3>1, <3>2, <3>3 DEF Is
  <2>7. /\ stat'["gTotalTimeUs"] = stat["gTotalTimeUs"]
        /\ stat'["gMaxTimeUs"] = stat["gMaxTimeUs"]
        /\ stat'["gMinTimeUs"] = stat["gMinTimeUs"]
    <3>1. client[1] \notin {"gTotalTimeUs", "gMaxTimeUs", "gMinTimeUs"}
      BY <2>1 DEF Verdict
    <3>2. {"gTotalTimeUs", "gMaxTimeUs", "gMinTimeUs"} \subseteq DOMAIN stat
      BY <1>1, StatsAre DEF ClientTypes, Extreme
    <3>3. QED
      BY <2>1, <3>1, <3>2
  <2>8. stat'["gTotalTimeUs"] = TimeIn(answers'[1]) + Pending(1)'
    BY <1>1, <1>2, <2>3, <2>5, <2>7, <2>4 DEF OneInv
  <2>9. QED
    BY <1>1, <2>1, <2>5, <2>6, <2>7, <2>8 DEF OneInv
<1>10. ASSUME NEW name \in Client!Stats, Goes(1, name) PROVE OneInv'
  <2>1. /\ UNCHANGED <<usedTimeUs, answers>> /\ client[1] = name /\ name \notin Verdict
        /\ loaded'[1] = -1 /\ client'[1] \in Client!After(name)
        /\ \A other \in Client!Stats \ {name} : stat'[other] = stat[other]
        /\ stat'[name] = Client!Updated(name, loaded[1], usedTimeUs[1])
        /\ name \notin OfPeriod => loaded[1] = stat[name]
    BY <1>1, <1>10 DEF Goes, ClientTypes, OneInv
  <2>2. \A other \in Verdict : stat'[other] = stat[other]
    BY <1>3, <2>1
  <2>3. stat["gTotalTimeUs"] = TimeIn(answers[1]) + Pending(1)
        /\ IsMax(stat["gMaxTimeUs"], Seen(AfterMax))
        /\ IsMin(stat["gMinTimeUs"], Seen(AfterMin))
        /\ \A other \in Verdict : stat[other] = CountIn(answers[1], other)
    BY <1>1 DEF OneInv
  <2>4. usedTimeUs[1] \in Nat \ {0}
    BY <1>2, <1>10, <2>1
  <2>5. Seen(AfterMax) \subseteq Nat \ {0} /\ Seen(AfterMin) \subseteq Nat \ {0}
    BY <1>2, <2>4 DEF Seen
  <2>6. CASE name = "gTotalTimeUs"
    <3>1. client'[1] = "gMaxTimeUs"
      BY <2>1, <2>6, AfterIs
    <3>2. Pending(1) = 0 /\ Pending(1)' = usedTimeUs[1]
      BY <1>3, <2>1, <2>6, <3>1 DEF Pending
    <3>3. Seen(AfterMax)' = Seen(AfterMax) /\ Seen(AfterMin)' = Seen(AfterMin)
      BY <1>3, <2>1, <2>6, <3>1 DEF Seen, AfterMax, AfterMin
    <3>4. stat'["gTotalTimeUs"] = stat["gTotalTimeUs"] + usedTimeUs[1]
      BY <2>1, <2>6, UpdatedIs DEF OfPeriod
    <3>5. stat'["gMaxTimeUs"] = stat["gMaxTimeUs"]
          /\ stat'["gMinTimeUs"] = stat["gMinTimeUs"]
      BY <1>3, <2>1, <2>6
    <3>6. stat'["gTotalTimeUs"] = TimeIn(answers[1]) + Pending(1)'
      BY <1>2, <2>3, <3>2, <3>4
    <3>7. QED
      BY <2>1, <2>2, <2>3, <3>3, <3>5, <3>6 DEF OneInv
  <2>7. CASE name = "gMaxTimeUs"
    <3>1. client'[1] = "gMinTimeUs"
      BY <2>1, <2>7, AfterIs
    <3>2. Pending(1)' = Pending(1) /\ Seen(AfterMin)' = Seen(AfterMin)
          /\ Seen(AfterMax)' = Seen(AfterMax) \union {usedTimeUs[1]}
      BY <1>3, <2>1, <2>7, <3>1 DEF Pending, Seen, AfterMax, AfterMin
    <3>3. stat'[name] = IF stat[name] < usedTimeUs[1] THEN usedTimeUs[1] ELSE stat[name]
      BY <2>1, <2>7, UpdatedIs DEF OfPeriod
    <3>4. IsMax(stat["gMaxTimeUs"], Seen(AfterMax))'
      <4>1. IsMax(IF stat[name] < usedTimeUs[1] THEN usedTimeUs[1] ELSE stat[name],
                  Seen(AfterMax) \union {usedTimeUs[1]})
        BY <2>3, <2>4, <2>5, <2>7, ExtremesGrow
      <4>2. QED
        BY <2>7, <3>2, <3>3, <4>1
    <3>5. stat'["gTotalTimeUs"] = stat["gTotalTimeUs"]
          /\ stat'["gMinTimeUs"] = stat["gMinTimeUs"]
      BY <1>3, <2>1, <2>7
    <3>6. QED
      BY <2>1, <2>2, <2>3, <3>2, <3>4, <3>5 DEF OneInv
  <2>8. CASE name = "gMinTimeUs"
    <3>1. client'[1] = "gCurrTotalTimeUs"
      BY <2>1, <2>8, AfterIs
    <3>2. Pending(1)' = Pending(1) /\ Seen(AfterMax)' = Seen(AfterMax)
          /\ Seen(AfterMin)' = Seen(AfterMin) \union {usedTimeUs[1]}
      BY <1>3, <2>1, <2>8, <3>1 DEF Pending, Seen, AfterMax, AfterMin, OfPeriod
    <3>3. stat'[name] = IF stat[name] = 0 \/ stat[name] > usedTimeUs[1]
                        THEN usedTimeUs[1] ELSE stat[name]
      BY <2>1, <2>8, UpdatedIs DEF OfPeriod
    <3>4. IsMin(stat["gMinTimeUs"], Seen(AfterMin))'
      <4>1. IsMin(IF stat[name] = 0 \/ stat[name] > usedTimeUs[1]
                  THEN usedTimeUs[1] ELSE stat[name],
                  Seen(AfterMin) \union {usedTimeUs[1]})
        BY <2>3, <2>4, <2>5, <2>8, ExtremesGrow
      <4>2. QED
        BY <2>8, <3>2, <3>3, <4>1
    <3>5. stat'["gTotalTimeUs"] = stat["gTotalTimeUs"]
          /\ stat'["gMaxTimeUs"] = stat["gMaxTimeUs"]
      BY <1>3, <2>1, <2>8
    <3>6. QED
      BY <2>1, <2>2, <2>3, <3>2, <3>4, <3>5 DEF OneInv
  <2>9. CASE name \in OfPeriod
    <3>1. client'[1] \in OfPeriod \union Verdict
      BY <2>1, <2>9, AfterIs DEF OfPeriod
    <3>2. Pending(1)' = Pending(1) /\ Seen(AfterMax)' = Seen(AfterMax)
          /\ Seen(AfterMin)' = Seen(AfterMin)
      BY <1>3, <2>1, <2>9, <3>1 DEF Pending, Seen, AfterMax, AfterMin, OfPeriod, Verdict
    <3>3. stat'["gTotalTimeUs"] = stat["gTotalTimeUs"]
          /\ stat'["gMaxTimeUs"] = stat["gMaxTimeUs"]
          /\ stat'["gMinTimeUs"] = stat["gMinTimeUs"]
      BY <1>3, <2>1, <2>9 DEF OfPeriod
    <3>4. QED
      BY <2>1, <2>2, <2>3, <3>2, <3>3 DEF OneInv
  <2>10. QED
    BY <2>1, <2>6, <2>7, <2>8, <2>9, StatsAre DEF Extreme, Verdict, OfPeriod
<1>11. QED
  BY <1>1, <1>4, <1>5, <1>6, <1>7, <1>8, <1>9, <1>10, ClientSteps

\* With more threads no statistic, stored or read to be stored again, is beyond what
\* the answers of all threads make.
CountsOf(name) ==
  Client!SumOf([t \in ThreadIds |-> CountIn(answers[t], name)], Len(answers))
TimesOf == Client!SumOf([t \in ThreadIds |-> TimeIn(answers[t]) + Pending(t)], Len(answers))
Known ==
  {0} \union UNION {TimesIn(answers[t]) \union {usedTimeUs[t]} : t \in Client!Threads}

Allowed(name, n) ==
  /\ name \in Verdict => n <= CountsOf(name)
  /\ name = "gTotalTimeUs" => n <= TimesOf
  /\ name \in Extreme => n \in Known

\* A value that a statistic has, or that a thread has read of it.
Held(name, n) ==
  stat[name] = n \/ \E t \in Client!Threads : client[t] = name /\ loaded[t] = n

ManyInv ==
  /\ \A name \in Client!Stats, n \in Nat : Held(name, n) => Allowed(name, n)
  /\ \A t \in Client!Threads :
       client[t] \notin Client!Stats => usedTimeUs[t] \in TimesIn(answers[t]) \union {0}

LEMMA SumsTyped ==
  ASSUME NEW threads \in Nat \ {0}, ThreadIds = 1 .. threads, ClientTypes
  PROVE  /\ Len(answers) = threads /\ TimesOf \in Nat
         /\ \A name \in Verdict : CountsOf(name) \in Nat
         /\ \A t \in ThreadIds : Pending(t) \in Nat /\ TimeIn(answers[t]) \in Nat
<1>1. Len(answers) = threads
  BY DEF ClientTypes
<1>2. \A t \in ThreadIds : Pending(t) \in Nat /\ TimeIn(answers[t]) \in Nat
  BY ListTyped DEF ClientTypes, Pending
<1>3. TimesOf \in Nat
  <2> DEFINE f == [t \in ThreadIds |-> TimeIn(answers[t]) + Pending(t)]
  <2>1. \A t \in 1 .. threads : f[t] \in Nat
    BY <1>2
  <2>2. TimesOf = Client!SumOf(f, threads)
    BY <1>1 DEF TimesOf
  <2> HIDE DEF f
  <2>3. QED
    BY <2>1, <2>2, SumTyped
<1>4. ASSUME NEW name \in Verdict PROVE CountsOf(name) \in Nat
  <2>1. \A t \in ThreadIds : CountIn(answers[t], name) \in Nat
    BY ListTyped DEF ClientTypes
  <2>2. QED
    BY <1>1, <2>1, SumTyped DEF CountsOf
<1>5. QED
  BY <1>1, <1>2, <1>3, <1>4

\* What the answers make only grows, and then so does what is allowed.
Grows ==
  /\ \A name \in Verdict : CountsOf(name) <= CountsOf(name)'
  /\ TimesOf <= TimesOf'
  /\ Known \subseteq Known'

LEMMA AllowedGrows ==
  ASSUME NEW threads \in Nat \ {0}, ThreadIds = 1 .. threads,
         ClientTypes, ClientTypes', Grows,
         NEW name, NEW n \in Nat, Allowed(name, n)
  PROVE  Allowed(name, n)'
<1>1. /\ TimesOf \in Nat /\ \A other \in Verdict : CountsOf(other) \in Nat
      /\ TimesOf' \in Nat /\ \A other \in Verdict : CountsOf(other)' \in Nat
  <2>1. TimesOf \in Nat /\ \A other \in Verdict : CountsOf(other) \in Nat
    BY SumsTyped
  <2>2. (TimesOf \in Nat /\ \A other \in Verdict : CountsOf(other) \in Nat)'
    <3>1. Len(answers') = threads
      BY DEF ClientTypes
    <3>2. \A t \in ThreadIds : Pending(t)' \in Nat /\ TimeIn(answers'[t]) \in Nat
      BY ListTyped DEF ClientTypes, Pending
    <3>3. TimesOf' \in Nat
      <4>1. \A t \in 1 .. threads :
              [u \in ThreadIds |-> TimeIn(answers'[u]) + Pending(u)'][t] \in Nat
        BY <3>2
      <4>2. QED
        BY <3>1, <4>1, SumTyped DEF TimesOf
    <3>4. ASSUME NEW other \in Verdict PROVE CountsOf(other)' \in Nat
      <4>1. \A t \in ThreadIds : CountIn(answers'[t], other) \in Nat
        BY ListTyped DEF ClientTypes
      <4>2. QED
        BY <3>1, <4>1, SumTyped DEF CountsOf
    <3>5. QED
      BY <3>3, <3>4
  <2>3. QED
    BY <2>1, <2>2
<1>2. ASSUME name \in Verdict PROVE n <= CountsOf(name)'
  <2>1. n <= CountsOf(name) /\ CountsOf(name) <= CountsOf(name)'
    BY <1>2 DEF Allowed, Grows
  <2>2. QED
    BY <1>1, <1>2, <2>1
<1>3. ASSUME name = "gTotalTimeUs" PROVE n <= TimesOf'
  <2>1. n <= TimesOf /\ TimesOf <= TimesOf'
    BY <1>3 DEF Allowed, Grows
  <2>2. QED
    BY <1>1, <2>1
<1>4. ASSUME name \in Extreme PROVE n \in Known'
  BY <1>4 DEF Allowed, Grows
<1>5. QED
  BY <1>2, <1>3, <1>4 DEF Allowed

\* It stays as it is when the answers and what is pending do.
LEMMA GrowsByNothing ==
  ASSUME NEW threads \in Nat \ {0}, ThreadIds = 1 .. threads, ClientTypes, ClientTypes',
         answers' = answers, mClientThreadCount' = mClientThreadCount,
         \A t \in ThreadIds : Pending(t)' = Pending(t), Known \subseteq Known'
  PROVE  Grows
<1>1. \A name : CountsOf(name)' = CountsOf(name)
  BY DEF CountsOf
<1>2. TimesOf' = TimesOf
  <2>1. [t \in ThreadIds |-> TimeIn(answers[t]) + Pending(t)]'
          = [t \in ThreadIds |-> TimeIn(answers[t]) + Pending(t)]
    OBVIOUS
  <2>2. QED
    BY <2>1 DEF TimesOf
<1>3. QED
  BY <1>1, <1>2, SumsTyped DEF Grows

\* The statistics are kept within that when every new value is.
LEMMA ManyFollows ==
  ASSUME NEW threads \in Nat \ {0}, ThreadIds = 1 .. threads, ClientTypes, ClientTypes',
         ManyInv, Grows,
         \A name \in Client!Stats, n \in Nat :
           Held(name, n)' => Held(name, n) \/ Allowed(name, n)',
         \A t \in Client!Threads' : client'[t] \notin Client!Stats =>
           usedTimeUs'[t] \in TimesIn(answers'[t]) \union {0}
  PROVE  ManyInv'
<1>1. ASSUME NEW name \in Client!Stats, NEW n \in Nat, Held(name, n)'
      PROVE  Allowed(name, n)'
  <2>1. CASE Held(name, n)
    <3>1. Allowed(name, n)
      BY <2>1 DEF ManyInv
    <3>2. QED
      BY <3>1, AllowedGrows
  <2>2. QED
    BY <1>1, <2>1
<1>2. QED
  BY <1>1 DEF ManyInv

LEMMA NameFacts ==
  /\ {"gTotalTimeUs", "gCurrTotalTimeUs"} \subseteq Client!Stats
  /\ Verdict \subseteq Client!Stats
  /\ Extreme \subseteq Client!Stats /\ OfPeriod \subseteq Client!Stats
  /\ {"wait", "connect"} \cap Client!Stats = {}
  /\ Verdict \cap ({"gTotalTimeUs", "gCurrTotalTimeUs"} \union Extreme \union OfPeriod) = {}
  /\ "gTotalTimeUs" \notin Extreme \union OfPeriod
  /\ "gCurrTotalTimeUs" \notin Extreme \union {"gTotalTimeUs"}
  /\ Client!Threads \subseteq ThreadIds
  BY StatsAre DEF Extreme, Verdict, OfPeriod, Client!Threads

LEMMA QuietKeepsMany ==
  ASSUME NEW threads \in Nat \ {0}, ThreadIds = 1 .. threads, ClientTypes, ClientTypes',
         ManyInv, Quiet
  PROVE  ManyInv'
<1>1. /\ UNCHANGED <<mClientThreadCount, stat, loaded, usedTimeUs, answers>>
      /\ Client!Threads' = Client!Threads
      /\ \A t \in ThreadIds :
           client'[t] = client[t] \/ {client[t], client'[t]} \subseteq {"connect", "wait"}
  BY DEF Quiet, Client!Threads
<1>2. \A t \in ThreadIds : Pending(t)' = Pending(t)
  BY <1>1, NameFacts DEF Pending
<1>3. Known' = Known
  BY <1>1 DEF Known
<1>4. Grows
  BY <1>1, <1>2, <1>3, GrowsByNothing
<1>5. \A name \in Client!Stats, n \in Nat : Held(name, n)' => Held(name, n)
  BY <1>1, NameFacts DEF Held
<1>6. \A t \in Client!Threads' : client'[t] \notin Client!Stats =>
        usedTimeUs'[t] \in TimesIn(answers'[t]) \union {0}
  BY <1>1, NameFacts DEF ManyInv
<1>7. QED
  BY <1>4, <1>5, <1>6, ManyFollows

LEMMA ResetsKeepMany ==
  ASSUME NEW threads \in Nat \ {0}, ThreadIds = 1 .. threads, ClientTypes, ClientTypes',
         ManyInv, Resets
  PROVE  ManyInv'
<1>1. /\ UNCHANGED <<mClientThreadCount, client, loaded, usedTimeUs, answers>>
      /\ Client!Threads' = Client!Threads
  BY DEF Resets, Client!Threads
<1>2. Known' = Known /\ 0 \in Known
  BY <1>1 DEF Known
<1>3. Grows
  <2>1. \A t \in ThreadIds : Pending(t)' = Pending(t)
    BY <1>1 DEF Pending
  <2>2. QED
    BY <1>1, <1>2, <2>1, GrowsByNothing
<1>4. ASSUME NEW name \in Client!Stats, NEW n \in Nat, Held(name, n)'
      PROVE  Held(name, n) \/ Allowed(name, n)'
  <2>1. PICK cleared \in OfPeriod : stat' = [stat EXCEPT ![cleared] = 0]
    BY DEF Resets
  <2>2. CASE stat'[name] = stat[name]
    BY <1>1, <1>4, <2>2 DEF Held
  <2>3. CASE name = cleared
    <3>1. stat'[name] = 0
      BY <2>1, <2>3 DEF ClientTypes
    <3>2. n = 0 \/ Held(name, n)
      BY <1>1, <1>4, <3>1 DEF Held
    <3>3. name \notin Verdict /\ name # "gTotalTimeUs"
      BY <2>3, NameFacts
    <3>4. n = 0 => Allowed(name, n)'
      BY <1>2, <3>3 DEF Allowed
    <3>5. QED
      BY <3>2, <3>4
  <2>4. QED
    BY <2>1, <2>2, <2>3 DEF ClientTypes
<1>5. \A t \in Client!Threads' : client'[t] \notin Client!Stats =>
        usedTimeUs'[t] \in TimesIn(answers'[t]) \union {0}
  BY <1>1 DEF ManyInv
<1>6. QED
  BY <1>3, <1>4, <1>5, ManyFollows

LEMMA LoadsKeepMany ==
  ASSUME NEW threads \in Nat \ {0}, ThreadIds = 1 .. threads, ClientTypes, ClientTypes',
         ManyInv, NEW t \in Client!Threads, Loads(t)
  PROVE  ManyInv'
<1>1. /\ UNCHANGED <<mClientThreadCount, stat, client, usedTimeUs, answers>>
      /\ Client!Threads' = Client!Threads
      /\ \A u \in ThreadIds : loaded'[u] = IF u = t THEN stat[client[t]] ELSE loaded[u]
  BY NameFacts DEF Loads, Client!Threads, ClientTypes
<1>2. Known' = Known
  BY <1>1 DEF Known
<1>3. Grows
  <2>1. \A u \in ThreadIds : Pending(u)' = Pending(u)
    BY <1>1 DEF Pending
  <2>2. QED
    BY <1>1, <1>2, <2>1, GrowsByNothing
<1>4. \A name \in Client!Stats, n \in Nat : Held(name, n)' => Held(name, n)
  BY <1>1, NameFacts DEF Held
<1>5. \A u \in Client!Threads' : client'[u] \notin Client!Stats =>
        usedTimeUs'[u] \in TimesIn(answers'[u]) \union {0}
  BY <1>1 DEF ManyInv
<1>6. QED
  BY <1>3, <1>4, <1>5, ManyFollows

LEMMA StartsKeepMany ==
  ASSUME NEW threads \in Nat \ {0}, ThreadIds = 1 .. threads, ClientTypes, ClientTypes',
         ManyInv, NEW t \in Client!Threads, Starts(t)
  PROVE  ManyInv'
<1>1. /\ UNCHANGED <<mClientThreadCount, stat, loaded, answers>>
      /\ Client!Threads' = Client!Threads /\ t \in ThreadIds
      /\ client[t] = "wait" /\ client'[t] = "gTotalTimeUs" /\ loaded[t] = -1
      /\ \A u \in ThreadIds \ {t} : client'[u] = client[u] /\ usedTimeUs'[u] = usedTimeUs[u]
  BY NameFacts DEF Starts, Client!Threads, ClientTypes
<1>2. Known \subseteq Known'
  <2>1. usedTimeUs[t] \in TimesIn(answers[t]) \union {0}
    BY <1>1, NameFacts DEF ManyInv
  <2>2. ASSUME NEW time \in Known PROVE time \in Known'
    <3>1. CASE time = 0
      BY <3>1 DEF Known
    <3>2. ASSUME NEW u \in Client!Threads, time \in TimesIn(answers[u])
          PROVE  time \in Known'
      BY <1>1, <3>2 DEF Known
    <3>3. ASSUME NEW u \in Client!Threads, u # t, time = usedTimeUs[u] PROVE time \in Known'
      BY <1>1, <3>3, NameFacts DEF Known
    <3>4. CASE time = usedTimeUs[t]
      BY <2>1, <3>1, <3>2, <3>4
    <3>5. QED
      BY <3>1, <3>2, <3>3, <3>4 DEF Known
  <2>3. QED
    BY <2>2
<1>3. Grows
  <2>1. \A u \in ThreadIds : Pending(u)' = Pending(u)
    BY <1>1, NameFacts DEF Pending
  <2>2. QED
    BY <1>1, <1>2, <2>1, GrowsByNothing
<1>4. \A name \in Client!Stats, n \in Nat : Held(name, n)' => Held(name, n)
  BY <1>1, NameFacts DEF Held
<1>5. \A u \in Client!Threads' : client'[u] \notin Client!Stats =>
        usedTimeUs'[u] \in TimesIn(answers'[u]) \union {0}
  BY <1>1, NameFacts DEF ManyInv
<1>6. QED
  BY <1>3, <1>4, <1>5, ManyFollows

LEMMA GoesKeepsMany ==
  ASSUME NEW threads \in Nat \ {0}, ThreadIds = 1 .. threads, ClientTypes, ClientTypes',
         ManyInv, NEW t \in Client!Threads, NEW statistic \in Client!Stats,
         Goes(t, statistic)
  PROVE  ManyInv'
<1>1. /\ UNCHANGED <<mClientThreadCount, usedTimeUs, answers>>
      /\ Client!Threads' = Client!Threads /\ t \in ThreadIds
      /\ client[t] = statistic /\ statistic \notin Verdict /\ loaded[t] \in Nat
      /\ client'[t] \in Client!After(statistic) /\ loaded'[t] = -1
      /\ \A u \in ThreadIds \ {t} : client'[u] = client[u] /\ loaded'[u] = loaded[u]
      /\ stat'[statistic] = Client!Updated(statistic, loaded[t], usedTimeUs[t])
      /\ \A other \in Client!Stats \ {statistic} : stat'[other] = stat[other]
      /\ usedTimeUs[t] \in Nat
  BY NameFacts DEF Goes, Client!Threads, ClientTypes
<1>2. client'[t] \in Client!Stats \ {"gTotalTimeUs"}
  BY <1>1, AfterIs, StatsAre DEF Extreme, Verdict
<1>3. Known' = Known /\ usedTimeUs[t] \in Known
  BY <1>1 DEF Known
<1>4. Allowed(statistic, loaded[t])
  <2>1. PICK n \in Nat : n = loaded[t]
    BY <1>1
  <2>2. Held(statistic, n)
    BY <1>1, <2>1 DEF Held
  <2>3. QED
    BY <2>1, <2>2 DEF ManyInv
<1>5. \A u \in ThreadIds : Pending(u)' =
        IF u = t /\ statistic = "gTotalTimeUs"
          THEN Pending(u) + usedTimeUs[t] ELSE Pending(u)
  BY <1>1, <1>2, NameFacts DEF Pending
<1>6. CountsOf("gSuccessCount")' = CountsOf("gSuccessCount")
      /\ CountsOf("gFailCount")' = CountsOf("gFailCount")
  BY <1>1 DEF CountsOf
<1>7. TimesOf' = IF statistic = "gTotalTimeUs" THEN TimesOf + usedTimeUs[t] ELSE TimesOf
  <2> DEFINE f == [u \in ThreadIds |-> TimeIn(answers[u]) + Pending(u)]
             g == [u \in ThreadIds |-> TimeIn(answers[u]) + Pending(u)']
  <2>1. TimesOf = Client!SumOf(f, threads) /\ TimesOf' = Client!SumOf(g, threads)
    BY <1>1, SumsTyped DEF TimesOf
  <2>2. PICK d \in Nat : d = IF statistic = "gTotalTimeUs" THEN usedTimeUs[t] ELSE 0
    BY <1>1
  <2>3. \A u \in 1 .. threads : f[u] \in Nat /\ g[u] = IF u = t THEN f[u] + d ELSE f[u]
    <3> SUFFICES ASSUME NEW u \in 1 .. threads
                 PROVE  f[u] \in Nat /\ g[u] = IF u = t THEN f[u] + d ELSE f[u]
      OBVIOUS
    <3>1. /\ f[u] = TimeIn(answers[u]) + Pending(u)
          /\ g[u] = TimeIn(answers[u]) + Pending(u)'
      OBVIOUS
    <3>2. Pending(u) \in Nat /\ TimeIn(answers[u]) \in Nat
      BY SumsTyped
    <3>3. Pending(u)' = IF u = t THEN Pending(u) + d ELSE Pending(u)
      BY <1>5, <2>2, <3>2
    <3> HIDE DEF f, g
    <3>4. QED
      BY <3>1, <3>2, <3>3
  <2> HIDE DEF f, g
  <2>4. Client!SumOf(g, threads) = Client!SumOf(f, threads) + d
    <3>1. Grown(f, g, threads, t, d)
      BY <2>3 DEF Grown
    <3>2. QED
      BY <1>1, <3>1, SumGrows
  <2>5. QED
    BY <2>1, <2>2, <2>4, SumsTyped
<1>8. Grows
  <2>1. TimesOf \in Nat /\ \A name \in Verdict : CountsOf(name) \in Nat
    BY SumsTyped
  <2>2. ASSUME NEW name \in Verdict PROVE CountsOf(name) <= CountsOf(name)'
    <3>1. CountsOf(name)' = CountsOf(name)
      BY <1>6 DEF Verdict
    <3>2. QED
      BY <2>1, <3>1
  <2>3. TimesOf <= TimesOf'
    BY <1>1, <1>7, <2>1
  <2>4. QED
    BY <1>3, <2>2, <2>3 DEF Grows
<1>9. ASSUME NEW name \in Client!Stats, NEW n \in Nat, Held(name, n)'
      PROVE  Held(name, n) \/ Allowed(name, n)'
  <2>1. CASE stat'[name] = stat[name]
    <3>1. ASSUME NEW u \in Client!Threads, client'[u] = name, loaded'[u] = n
          PROVE  Held(name, n)
      BY <1>1, <3>1, NameFacts DEF Held
    <3>2. QED
      BY <1>1, <1>9, <2>1, <3>1 DEF Held
  <2>2. CASE name = statistic /\ n = stat'[statistic]
    <3>1. CASE statistic = "gTotalTimeUs"
      <4>1. n = loaded[t] + usedTimeUs[t] /\ loaded[t] <= TimesOf
        BY <1>1, <1>4, <2>2, <3>1, UpdatedIs DEF Allowed
      <4>2. n <= TimesOf'
        BY <1>1, <1>7, <3>1, <4>1, SumsTyped
      <4>3. name \notin Verdict /\ name \notin Extreme
        BY <2>2, <3>1, NameFacts
      <4>4. QED
        BY <4>2, <4>3 DEF Allowed
    <3>2. CASE statistic \in Extreme
      <4>1. n \in {loaded[t], usedTimeUs[t]} /\ loaded[t] \in Known
        BY <1>1, <1>4, <2>2, <3>2, UpdatedIs DEF Allowed, Extreme
      <4>2. QED
        BY <1>3, <2>2, <3>2, <4>1, NameFacts DEF Allowed
    <3>3. CASE statistic = "gCurrTotalTimeUs"
      BY <2>2, <3>3, NameFacts DEF Allowed
    <3>4. QED
      BY <1>1, <3>1, <3>2, <3>3, StatsAre
  <2>3. CASE name = statistic /\ n # stat'[statistic]
    <3>1. PICK u \in Client!Threads : client'[u] = name /\ loaded'[u] = n
      BY <1>1, <1>9, <2>3 DEF Held
    <3>2. QED
      BY <1>1, <3>1, NameFacts DEF Held
  <2>4. QED
    BY <1>1, <2>1, <2>2, <2>3
<1>10. \A u \in Client!Threads' : client'[u] \notin Client!Stats =>
         usedTimeUs'[u] \in TimesIn(answers'[u]) \union {0}
  BY <1>1, <1>2, NameFacts DEF ManyInv
<1>11. QED
  BY <1>8, <1>9, <1>10, ManyFollows

LEMMA EndsKeepMany ==
  ASSUME NEW threads \in Nat \ {0}, ThreadIds = 1 .. threads, ClientTypes, ClientTypes',
         ManyInv, NEW t \in Client!Threads, Ends(t)
  PROVE  ManyInv'
<1>1. /\ UNCHANGED <<mClientThreadCount, usedTimeUs>>
      /\ Client!Threads' = Client!Threads /\ t \in ThreadIds
      /\ client[t] \in Verdict /\ client'[t] = "wait" /\ loaded[t] \in Nat
      /\ loaded'[t] = -1
      /\ \A u \in ThreadIds \ {t} :
           client'[u] = client[u] /\ loaded'[u] = loaded[u] /\ answers'[u] = answers[u]
      /\ stat'[client[t]] = loaded[t] + 1
      /\ \A other \in Client!Stats \ {client[t]} : stat'[other] = stat[other]
      /\ usedTimeUs[t] \in Nat \ {0} /\ answers[t] \in Seq(Answer)
  BY NameFacts DEF Ends, Client!Threads, ClientTypes
<1>2. PICK a \in Answer : a = <<usedTimeUs[t], client[t]>>
                          /\ a[1] = usedTimeUs[t] /\ a[2] = client[t]
  <2>1. <<usedTimeUs[t], client[t]>> \in Answer
    BY <1>1 DEF Answer
  <2>2. QED
    BY <2>1
<1>3. PICK s \in Seq(Answer), more \in Seq(Answer) :
        s = answers[t] /\ more = answers'[t] /\ more = Append(s, a)
  <2>1. answers'[t] = Append(answers[t], a)
    BY <1>1, <1>2 DEF Ends, ClientTypes
  <2>2. QED
    BY <1>1, <2>1 DEF ClientTypes
<1>4. /\ TimeIn(more) = TimeIn(s) + a[1] /\ TimesIn(more) = TimesIn(s) \union {a[1]}
      /\ \A name \in Verdict : CountIn(more, name) = CountIn(s, name) + Is(a, name)
  <2>1. TimeIn(more) = TimeIn(s) + a[1] /\ TimesIn(more) = TimesIn(s) \union {a[1]}
    BY <1>3, AppendTimes
  <2>2. \A name \in Verdict : CountIn(more, name) = CountIn(s, name) + Is(a, name)
    BY <1>3, AppendCounts
  <2>3. QED
    BY <2>1, <2>2
<1>5. ASSUME NEW name \in Verdict PROVE CountsOf(name)' = CountsOf(name) + Is(a, name)
  <2> DEFINE f == [u \in ThreadIds |-> CountIn(answers[u], name)]
             g == [u \in ThreadIds |-> CountIn(answers'[u], name)]
  <2>1. CountsOf(name) = Client!SumOf(f, threads)
        /\ CountsOf(name)' = Client!SumOf(g, threads)
    BY SumsTyped DEF CountsOf, ClientTypes
  <2>2. PICK d \in Nat : d = Is(a, name)
    BY DEF Is
  <2>3. \A u \in 1 .. threads : CountIn(answers[u], name) \in Nat
    BY ListTyped DEF ClientTypes
  <2>4. \A u \in 1 .. threads : f[u] \in Nat /\ g[u] = IF u = t THEN f[u] + d ELSE f[u]
    <3> SUFFICES ASSUME NEW u \in 1 .. threads
                 PROVE  f[u] \in Nat /\ g[u] = IF u = t THEN f[u] + d ELSE f[u]
      OBVIOUS
    <3>1. f[u] = CountIn(answers[u], name) /\ g[u] = CountIn(answers'[u], name)
      OBVIOUS
    <3>2. CountIn(answers[u], name) \in Nat
      BY <2>3
    <3>3. CountIn(more, name) = CountIn(s, name) + d
      BY <1>4, <2>2
    <3> HIDE DEF f, g
    <3>4. CASE u = t
      BY <1>3, <3>1, <3>2, <3>3, <3>4
    <3>5. CASE u # t
      BY <1>1, <3>1, <3>2, <3>5
    <3>6. QED
      BY <3>4, <3>5
  <2> HIDE DEF f, g
  <2>5. t \in 1 .. threads
    BY <1>1
  <2>6. Client!SumOf(g, threads) = Client!SumOf(f, threads) + d
    <3>1. Grown(f, g, threads, t, d)
      BY <2>4 DEF Grown
    <3>2. QED
      BY <2>5, <3>1, SumGrows
  <2>7. QED
    BY <2>1, <2>2, <2>6
<1>6. TimesOf' = TimesOf
  <2>1. \A u \in ThreadIds :
          TimeIn(answers'[u]) + Pending(u)' = TimeIn(answers[u]) + Pending(u)
    <3>1. Pending(t) = usedTimeUs[t] /\ Pending(t)' = 0
      BY <1>1, NameFacts DEF Pending
    <3>2. \A u \in ThreadIds \ {t} : Pending(u)' = Pending(u)
      BY <1>1 DEF Pending
    <3>3. TimeIn(answers'[t]) = TimeIn(answers[t]) + usedTimeUs[t]
      BY <1>2, <1>3, <1>4
    <3>4. TimeIn(answers'[t]) + Pending(t)' = TimeIn(answers[t]) + Pending(t)
      <4>1. TimeIn(answers[t]) \in Nat /\ usedTimeUs[t] \in Nat
        BY <1>1, SumsTyped
      <4>2. QED
        BY <3>1, <3>3, <4>1
    <3>5. QED
      BY <1>1, <3>2, <3>4
  <2>2. Len(answers) = threads /\ Len(answers') = threads
    BY DEF ClientTypes
  <2>3. [u \in ThreadIds |-> TimeIn(answers'[u]) + Pending(u)']
          = [u \in ThreadIds |-> TimeIn(answers[u]) + Pending(u)]
    BY <2>1
  <2>4. QED
    BY <2>2, <2>3 DEF TimesOf
<1>7. Known \subseteq Known'
  <2>1. \A u \in Client!Threads : TimesIn(answers[u]) \subseteq TimesIn(answers'[u])
    BY <1>1, <1>3, <1>4, NameFacts
  <2>2. ASSUME NEW u \in Client!Threads
        PROVE  TimesIn(answers[u]) \union {usedTimeUs[u]} \subseteq Known'
    <3>1. TimesIn(answers'[u]) \union {usedTimeUs'[u]} \subseteq Known'
      BY <1>1 DEF Known
    <3>2. QED
      BY <1>1, <2>1, <3>1
  <2>3. 0 \in Known'
    BY DEF Known
  <2>4. QED
    BY <2>2, <2>3 DEF Known
<1>8. Grows
  <2>1. TimesOf \in Nat /\ \A name \in Verdict : CountsOf(name) \in Nat
    BY SumsTyped
  <2>2. ASSUME NEW name \in Verdict PROVE CountsOf(name) <= CountsOf(name)'
    <3>1. CountsOf(name)' = CountsOf(name) + Is(a, name) /\ CountsOf(name) \in Nat
      BY <1>5, <2>1
    <3>2. Is(a, name) \in {0, 1}
      BY DEF Is
    <3>3. QED
      BY <3>1, <3>2
  <2>3. TimesOf <= TimesOf'
    BY <1>6, <2>1
  <2>4. QED
    BY <1>7, <2>2, <2>3 DEF Grows
<1>9. ASSUME NEW name \in Client!Stats, NEW n \in Nat, Held(name, n)'
      PROVE  Held(name, n) \/ Allowed(name, n)'
  <2>1. ASSUME NEW u \in Client!Threads, client'[u] = name, loaded'[u] = n
        PROVE  Held(name, n)
    BY <1>1, <2>1, NameFacts DEF Held
  <2>2. CASE name # client[t]
    BY <1>1, <1>9, <2>1, <2>2 DEF Held
  <2>3. CASE name = client[t] /\ n = loaded[t] + 1
    <3>1. PICK old \in Nat : old = loaded[t]
      BY <1>1
    <3>2. Held(name, old)
      BY <2>3, <3>1 DEF Held
    <3>3. old <= CountsOf(name)
      BY <1>1, <2>3, <3>2 DEF ManyInv, Allowed
    <3>4. CountsOf(name)' = CountsOf(name) + 1
      BY <1>1, <1>2, <1>5, <2>3 DEF Is
    <3>5. n <= CountsOf(name)'
      <4>1. CountsOf(name) \in Nat
        BY <1>1, <2>3, SumsTyped
      <4>2. QED
        BY <2>3, <3>1, <3>3, <3>4, <4>1
    <3>6. QED
      BY <1>1, <2>3, <3>5, NameFacts DEF Allowed
  <2>4. QED
    BY <1>1, <1>9, <2>1, <2>2, <2>3 DEF Held
<1>10. \A u \in Client!Threads' : client'[u] \notin Client!Stats =>
         usedTimeUs'[u] \in TimesIn(answers'[u]) \union {0}
  <2>1. usedTimeUs'[t] \in TimesIn(answers'[t])
    BY <1>1, <1>2, <1>3, <1>4
  <2>2. QED
    BY <1>1, <2>1, NameFacts DEF ManyInv
<1>11. QED
  BY <1>8, <1>9, <1>10, ManyFollows

ClientInv == ClientTypes /\ Outside /\ OneInv /\ ManyInv

LEMMA NothingSays ==
  /\ <<>> \in Seq(Answer) /\ TimeIn(<<>>) = 0 /\ TimesIn(<<>>) = {}
  /\ \A name : CountIn(<<>>, name) = 0
<1>1. Len(<<>>) = 0 /\ DOMAIN <<>> = {}
  OBVIOUS
<1>2. QED
  BY <1>1, SumSteps DEF TimeIn, TimesIn, CountIn

LEMMA ClientStarts ==
  ASSUME NEW threads \in Nat \ {0}, ThreadIds = 1 .. threads, Client!Init
  PROVE  ClientInv
<1>1. /\ mClientThreadCount \in ThreadIds /\ \A name \in Client!Stats : stat[name] = 0
      /\ \A t \in ThreadIds : /\ client[t] = "connect" /\ loaded[t] = -1
                              /\ usedTimeUs[t] = 0 /\ answers[t] = <<>>
  BY DEF Client!Init, Client!NotRead
<1>2. ClientTypes
  BY <1>1, NameFacts, NothingSays DEF Client!Init, Client!NotRead, ClientTypes
<1>3. OneInv
  <2>1. 1 \in ThreadIds
    OBVIOUS
  <2>2. Pending(1) = 0 /\ Seen(AfterMax) = {} /\ Seen(AfterMin) = {}
    BY <1>1, <2>1, NameFacts, NothingSays DEF Pending, Seen, AfterMax, AfterMin
  <2>3. QED
    BY <1>1, <2>1, <2>2, NameFacts, NothingSays DEF OneInv, IsMax, IsMin, Extreme
<1>4. ManyInv
  <2>1. ASSUME NEW name \in Client!Stats, NEW n \in Nat, Held(name, n)
        PROVE  Allowed(name, n)
    <3>1. n = 0
      BY <1>1, <2>1, NameFacts DEF Held
    <3>2. \A other \in Verdict : CountsOf(other) \in Nat
      BY <1>2, SumsTyped
    <3>3. TimesOf \in Nat
      BY <1>2, SumsTyped
    <3>4. QED
      BY <3>1, <3>2, <3>3 DEF Allowed, Known
  <2>2. QED
    BY <1>1, <2>1, NameFacts DEF ManyInv
<1>5. Outside
  BY <1>1, NameFacts DEF Outside
<1>6. QED
  BY <1>2, <1>3, <1>4, <1>5 DEF ClientInv

LEMMA ClientKept ==
  ASSUME NEW threads \in Nat \ {0}, ThreadIds = 1 .. threads, Times \subseteq Nat,
         ClientInv, [Client!Next]_(Client!vars)
  PROVE  ClientInv'
<1>1. ClientTypes /\ ClientTypes' /\ Outside' /\ OneInv /\ ManyInv
  BY ClientTyped, OutsideKept DEF ClientInv
<1>2. OneInv'
  BY <1>1, OneKept
<1>3. ManyInv'
  <2>1. CASE UNCHANGED Client!vars
    <3>1. UNCHANGED <<mClientThreadCount, stat, client, loaded, usedTimeUs, answers>>
      BY <2>1 DEF Client!vars
    <3>2. /\ Client!Threads' = Client!Threads /\ TimesOf' = TimesOf
          /\ \A name : CountsOf(name)' = CountsOf(name)
      BY <3>1 DEF Client!Threads, CountsOf, TimesOf, Pending
    <3>3. Known' = Known
      BY <3>1, <3>2 DEF Known
    <3>4. \A name, n : Held(name, n)' <=> Held(name, n)
      BY <3>1, <3>2 DEF Held
    <3>5. \A name, n : Allowed(name, n)' <=> Allowed(name, n)
      BY <3>2, <3>3 DEF Allowed
    <3>6. QED
      BY <1>1, <3>1, <3>2, <3>4, <3>5 DEF ManyInv
  <2>2. CASE Client!Next
    <3>1. CASE Quiet
      BY <1>1, <3>1, QuietKeepsMany
    <3>2. CASE Resets
      BY <1>1, <3>2, ResetsKeepMany
    <3>3. ASSUME NEW t \in Client!Threads, Starts(t) PROVE ManyInv'
      BY <1>1, <3>3, StartsKeepMany
    <3>4. ASSUME NEW t \in Client!Threads, Loads(t) PROVE ManyInv'
      BY <1>1, <3>4, LoadsKeepMany
    <3>5. ASSUME NEW t \in Client!Threads, Ends(t) PROVE ManyInv'
      BY <1>1, <3>5, EndsKeepMany
    <3>6. ASSUME NEW t \in Client!Threads, NEW name \in Client!Stats, Goes(t, name)
          PROVE  ManyInv'
      BY <1>1, <3>6, GoesKeepsMany
    <3>7. QED
      BY <1>1, <2>2, <3>1, <3>2, <3>3, <3>4, <3>5, <3>6, ClientSteps
  <2>3. QED
    BY <2>1, <2>2
<1>4. QED
  BY <1>1, <1>2, <1>3 DEF ClientInv

\* What the module calls a count, a time and the times handled.
LEMMA CountsAgree ==
  ASSUME NEW threads \in Nat \ {0}, ThreadIds = 1 .. threads,
         ClientTypes, NEW t \in ThreadIds
  PROVE  /\ \A name : Client!CountOf(t, name) = CountIn(answers[t], name)
         /\ Client!TimeOf(t) = TimeIn(answers[t]) /\ Client!Handled(t) = TimesIn(answers[t])
<1>1. ASSUME NEW name
      PROVE  [i \in DOMAIN answers[t] |-> IF i \in Client!Verdicts(t, name) THEN 1 ELSE 0]
               = [i \in DOMAIN answers[t] |-> IF answers[t][i][2] = name THEN 1 ELSE 0]
  BY DEF Client!Verdicts
<1>2. QED
  BY <1>1 DEF Client!CountOf, Client!TimeOf, Client!Handled, CountIn, TimeIn, TimesIn

LEMMA ClientIsExact ==
  ASSUME NEW threads \in Nat \ {0}, ThreadIds = 1 .. threads, ClientInv
  PROVE  ExactWithOneThread
<1> SUFFICES ASSUME mClientThreadCount = 1, client[1] = "wait"
             PROVE  /\ stat["gSuccessCount"] = Client!CountOf(1, "gSuccessCount")
                    /\ stat["gFailCount"] = Client!CountOf(1, "gFailCount")
                    /\ stat["gTotalTimeUs"] = Client!TimeOf(1)
                    /\ answers[1] # <<>> =>
                         /\ stat["gMaxTimeUs"] \in Client!Handled(1)
                         /\ stat["gMinTimeUs"] \in Client!Handled(1)
                         /\ \A time \in Client!Handled(1) :
                              stat["gMinTimeUs"] <= time /\ time <= stat["gMaxTimeUs"]
  BY DEF ExactWithOneThread, Client!ExactWithOneThread
<1>1. 1 \in ThreadIds /\ ClientTypes /\ OneInv
  BY DEF ClientInv
<1>2. /\ \A name : Client!CountOf(1, name) = CountIn(answers[1], name)
      /\ Client!TimeOf(1) = TimeIn(answers[1]) /\ Client!Handled(1) = TimesIn(answers[1])
      /\ TimeIn(answers[1]) \in Nat /\ (TimesIn(answers[1]) = {} <=> answers[1] = <<>>)
  BY <1>1, CountsAgree, ListTyped DEF ClientTypes
<1>3. Pending(1) = 0 /\ Seen(AfterMax) = TimesIn(answers[1])
      /\ Seen(AfterMin) = TimesIn(answers[1])
  BY NameFacts DEF Pending, Seen, AfterMax, AfterMin
<1>4. QED
  BY <1>1, <1>2, <1>3 DEF OneInv, IsMax, IsMin, Verdict

LEMMA ClientInventsNothing ==
  ASSUME NEW threads \in Nat \ {0}, ThreadIds = 1 .. threads, ClientInv
  PROVE  NothingInvented
<1>1. ClientTypes /\ Outside /\ ManyInv
  BY DEF ClientInv
<1>2. ASSUME NEW name \in Client!Stats PROVE Allowed(name, stat[name])
  <2>1. PICK n \in Nat : n = stat[name]
    BY <1>1 DEF ClientTypes
  <2>2. Held(name, n)
    BY <2>1 DEF Held
  <2>3. QED
    BY <1>1, <2>1, <2>2 DEF ManyInv
<1>3. stat["gSuccessCount"]
        <= Client!SumOf([t \in ThreadIds |-> Client!CountOf(t, "gSuccessCount")],
                        Len(answers))
  <2>1. [t \in ThreadIds |-> Client!CountOf(t, "gSuccessCount")]
          = [t \in ThreadIds |-> CountIn(answers[t], "gSuccessCount")]
    BY <1>1, CountsAgree
  <2>2. stat["gSuccessCount"] <= CountsOf("gSuccessCount")
    BY <1>2, NameFacts DEF Allowed, Verdict
  <2>3. QED
    BY <2>1, <2>2 DEF CountsOf
<1>4. ASSUME \A t \in Client!Threads : client[t] = "wait"
      PROVE  stat["gTotalTimeUs"]
               <= Client!SumOf([t \in ThreadIds |-> Client!TimeOf(t)], Len(answers))
  <2>1. ASSUME NEW t \in ThreadIds PROVE Client!TimeOf(t) = TimeIn(answers[t]) + Pending(t)
    <3>1. client[t] \notin Client!Stats
      BY <1>1, <1>4, NameFacts DEF Outside
    <3>2. Pending(t) = 0 /\ TimeIn(answers[t]) \in Nat
      BY <1>1, <3>1, SumsTyped DEF Pending
    <3>3. QED
      BY <1>1, <3>2, CountsAgree
  <2>2. [t \in ThreadIds |-> Client!TimeOf(t)]
          = [t \in ThreadIds |-> TimeIn(answers[t]) + Pending(t)]
    BY <2>1
  <2>3. stat["gTotalTimeUs"] <= TimesOf
    BY <1>2, NameFacts DEF Allowed
  <2>4. QED
    BY <2>2, <2>3 DEF TimesOf
<1>5. ASSUME NEW name \in Extreme
      PROVE  stat[name] \in {0} \union
               UNION {Client!Handled(t) \union {usedTimeUs[t]} : t \in Client!Threads}
  <2>1. stat[name] \in Known
    BY <1>2, NameFacts DEF Allowed
  <2>2. \A t \in Client!Threads : Client!Handled(t) = TimesIn(answers[t])
    BY DEF Client!Handled, TimesIn
  <2>3. QED
    BY <2>1, <2>2 DEF Known
<1>6. QED
  BY <1>3, <1>4, <1>5 DEF NothingInvented, Client!NothingInvented, Extreme

LEMMA ClientAlways ==
  ASSUME NEW threads \in Nat \ {0}, ThreadIds = 1 .. threads, Times \subseteq Nat
  PROVE  Client!Spec => []ClientInv
<1>1. Client!Init => ClientInv
  BY ClientStarts
<1>2. ClientInv /\ [Client!Next]_(Client!vars) => ClientInv'
  BY ClientKept
<1>3. QED
  BY <1>1, <1>2, PTL DEF Client!Spec

\* With one thread, the totals of the load client are those of the answers handled: the
\* counts, the sum and the extremes, the minimum with its 0 that stands for none among
\* them (CppNet.cpp:266); for any answers, any times and any number of periods.
THEOREM OneThreadIsExact ==
  ASSUME NEW threads \in Nat \ {0}, ThreadIds = 1 .. threads, Times \subseteq Nat
  PROVE  Client!Spec => []ExactWithOneThread
<1>1. ClientInv => ExactWithOneThread
  BY ClientIsExact
<1>2. QED
  BY <1>1, ClientAlways, PTL

\* With any number of threads that update them without a lock, the counts and the sum are
\* never more than what the answers make, and an extreme is the time of some answer:
\* updates are lost, none is made up (CppNet.cpp:266).
THEOREM ThreadsInventNothing ==
  ASSUME NEW threads \in Nat \ {0}, ThreadIds = 1 .. threads, Times \subseteq Nat
  PROVE  Client!Spec => []NothingInvented
<1>1. ClientInv => NothingInvented
  BY ClientInventsNothing
<1>2. QED
  BY <1>1, ClientAlways, PTL

\* The two together: what the load client reports was measured (CppNet.cpp:266).
THEOREM ReportsAreMeasured ==
  ASSUME NEW threads \in Nat \ {0}, ThreadIds = 1 .. threads, Times \subseteq Nat
  PROVE  Client!Spec => []StatisticsAreMeasured
<1>1. ClientInv => StatisticsAreMeasured
  BY ClientIsExact, ClientInventsNothing DEF StatisticsAreMeasured
<1>2. QED
  BY <1>1, ClientAlways, PTL

-----------------------------------------------------------------------------
(* Pieces put together: the files from the oldest to the newest.           *)

\* g[n] is the pieces of f from n down to -1.
Joins(g, f, most) == g = [n \in -1 .. most |-> f[n] \o (IF n = -1 THEN <<>> ELSE g[n - 1])]

\* What is put together below n.
Below(g, n) == IF n = -1 THEN <<>> ELSE g[n - 1]

LEMMA JoinsExist ==
  ASSUME NEW f
  PROVE  \A k \in Nat : \E g : Joins(g, f, k - 1)
<1> DEFINE S == {k \in Nat : \E g : Joins(g, f, k - 1)}
<1>1. 0 \in S
  <2>1. Joins([n \in -1 .. -1 |-> f[n] \o <<>>], f, -1)
    BY DEF Joins
  <2>2. 0 - 1 = -1
    OBVIOUS
  <2>3. QED
    BY <2>1, <2>2
<1>2. ASSUME NEW k \in Nat, k \in S PROVE k + 1 \in S
  <2>1. PICK g : Joins(g, f, k - 1)
    BY <1>2
  <2> DEFINE more == [n \in -1 .. k |->
                        f[n] \o (IF n = -1 THEN <<>> ELSE g[n - 1])]
  <2>2. ASSUME NEW n \in -1 .. k
        PROVE  more[n] = f[n] \o (IF n = -1 THEN <<>> ELSE more[n - 1])
    <3>1. CASE n = -1
      BY <3>1
    <3>2. CASE n # -1
      <4>1. n - 1 \in -1 .. (k - 1) /\ n - 1 \in -1 .. k
        BY <3>2
      <4>2. g[n - 1] = f[n - 1] \o (IF n - 1 = -1 THEN <<>> ELSE g[(n - 1) - 1])
        BY <2>1, <4>1 DEF Joins
      <4>3. more[n - 1] = g[n - 1]
        BY <4>1, <4>2
      <4>4. QED
        BY <3>2, <4>3
    <3>3. QED
      BY <3>1, <3>2
  <2>3. Joins(more, f, k)
    BY <2>2 DEF Joins
  <2>4. (k + 1) - 1 = k
    OBVIOUS
  <2>5. QED
    BY <2>3, <2>4
<1> HIDE DEF S
<1>3. \A k \in Nat : k \in S
  BY <1>1, <1>2, Induction
<1>4. QED
  BY <1>3 DEF S

LEMMA JoinSteps ==
  ASSUME NEW most \in Int, NEW g, NEW f, Joins(g, f, most), NEW n \in -1 .. most
  PROVE  Below(g, n + 1) = f[n] \o Below(g, n)
<1>1. g[n] = f[n] \o (IF n = -1 THEN <<>> ELSE g[n - 1])
  BY DEF Joins
<1>2. n + 1 # -1 /\ (n + 1) - 1 = n
  OBVIOUS
<1>3. QED
  BY <1>1, <1>2 DEF Below

Pieces(f, most, M) == \A n \in -1 .. most : f[n] \in Seq(M)

LEMMA JoinTyped ==
  ASSUME NEW most \in Int, NEW g, NEW f, Joins(g, f, most), NEW M, Pieces(f, most, M),
         NEW n \in -1 .. (most + 1)
  PROVE  Below(g, n) \in Seq(M)
<1> DEFINE S == {k \in Nat : k <= most + 2 => Below(g, k - 1) \in Seq(M)}
<1>1. 0 \in S
  <2>1. 0 - 1 = -1 /\ Below(g, -1) = <<>> /\ <<>> \in Seq(M)
    BY DEF Below
  <2>2. QED
    BY <2>1
<1>2. ASSUME NEW k \in Nat, k \in S PROVE k + 1 \in S
  <2> SUFFICES ASSUME k + 1 <= most + 2 PROVE Below(g, (k + 1) - 1) \in Seq(M)
    OBVIOUS
  <2>1. PICK m \in -1 .. most : m = k - 1
    OBVIOUS
  <2>2. Below(g, m + 1) = f[m] \o Below(g, m)
    BY JoinSteps
  <2>3. f[m] \in Seq(M) /\ Below(g, m) \in Seq(M)
    BY <1>2, <2>1 DEF Pieces
  <2>4. m + 1 = (k + 1) - 1
    BY <2>1
  <2>5. QED
    BY <2>2, <2>3, <2>4, ConcatProperties
<1> HIDE DEF S
<1>3. \A k \in Nat : k \in S
  BY <1>1, <1>2, Induction
<1>4. PICK k \in Nat : k = n + 1
  OBVIOUS
<1>5. k \in S
  BY <1>3
<1>6. k - 1 = n /\ k <= most + 2
  BY <1>4
<1>7. QED
  BY <1>5, <1>6 DEF S

LEMMA AppendedLast ==
  ASSUME NEW M, NEW s \in Seq(M), NEW t \in Seq(M), NEW m \in M
  PROVE  s \o Append(t, m) = Append(s \o t, m)
<1>1. <<m>> \in Seq(M) /\ s \o t \in Seq(M)
  BY ConcatProperties
<1>2. Append(t, m) = t \o <<m>> /\ Append(s \o t, m) = (s \o t) \o <<m>>
  BY <1>1, AppendIsConcat
<1>3. (s \o t) \o <<m>> = s \o (t \o <<m>>)
  BY <1>1, ConcatAssociative
<1>4. QED
  BY <1>2, <1>3

\* From where two agree below, they agree as long as the pieces do.
LEMMA JoinsAgree ==
  ASSUME NEW most \in Int, NEW g, NEW f, Joins(g, f, most),
         NEW h, NEW e, Joins(h, e, most),
         NEW a \in -1 .. (most + 1), NEW b \in -1 .. (most + 1), a <= b,
         Below(g, a) = Below(h, a),
         \A n \in -1 .. most : a <= n /\ n < b => f[n] = e[n]
  PROVE  Below(g, b) = Below(h, b)
<1> DEFINE S == {k \in Nat : a + k <= b => Below(g, a + k) = Below(h, a + k)}
<1>1. 0 \in S
  OBVIOUS
<1>2. ASSUME NEW k \in Nat, k \in S PROVE k + 1 \in S
  <2> SUFFICES ASSUME a + (k + 1) <= b PROVE Below(g, a + (k + 1)) = Below(h, a + (k + 1))
    OBVIOUS
  <2>1. PICK m \in -1 .. most : m = a + k /\ a <= m /\ m < b /\ a + (k + 1) = m + 1
    OBVIOUS
  <2>2. Below(g, m + 1) = f[m] \o Below(g, m) /\ Below(h, m + 1) = e[m] \o Below(h, m)
    BY JoinSteps
  <2>3. f[m] = e[m] /\ Below(g, m) = Below(h, m)
    BY <1>2, <2>1
  <2>4. QED
    BY <2>1, <2>2, <2>3
<1> HIDE DEF S
<1>3. \A k \in Nat : k \in S
  BY <1>1, <1>2, Induction
<1>4. PICK k \in Nat : a + k = b
  <2>1. b - a \in Nat /\ a + (b - a) = b
    OBVIOUS
  <2>2. QED
    BY <2>1
<1>5. k \in S
  BY <1>3
<1>6. QED
  BY <1>4, <1>5 DEF S

\* Empty pieces add nothing.
LEMMA JoinsNothing ==
  ASSUME NEW most \in Int, NEW g, NEW f, Joins(g, f, most), NEW M, Pieces(f, most, M),
         NEW a \in -1 .. (most + 1), NEW b \in -1 .. (most + 1), a <= b,
         \A n \in -1 .. most : a <= n /\ n < b => f[n] = <<>>
  PROVE  Below(g, b) = Below(g, a)
<1> DEFINE S == {k \in Nat : a + k <= b => Below(g, a + k) = Below(g, a)}
<1>1. 0 \in S
  OBVIOUS
<1>2. ASSUME NEW k \in Nat, k \in S PROVE k + 1 \in S
  <2> SUFFICES ASSUME a + (k + 1) <= b PROVE Below(g, a + (k + 1)) = Below(g, a)
    OBVIOUS
  <2>1. PICK m \in -1 .. most : m = a + k /\ a <= m /\ m < b /\ a + (k + 1) = m + 1
    OBVIOUS
  <2>2. f[m] = <<>> /\ Below(g, m) = Below(g, a)
    BY <1>2, <2>1
  <2>3. Below(g, m + 1) = f[m] \o Below(g, m)
    BY JoinSteps
  <2>4. Below(g, m) \in Seq(M)
    <3>1. m \in -1 .. (most + 1)
      OBVIOUS
    <3>2. QED
      BY <3>1, JoinTyped
  <2>5. <<>> \o Below(g, m) = Below(g, m)
    BY <2>4, ConcatEmptySeq
  <2>6. QED
    BY <2>1, <2>2, <2>3, <2>5
<1> HIDE DEF S
<1>3. \A k \in Nat : k \in S
  BY <1>1, <1>2, Induction
<1>4. PICK k \in Nat : a + k = b
  <2>1. b - a \in Nat /\ a + (b - a) = b
    OBVIOUS
  <2>2. QED
    BY <2>1
<1>5. k \in S
  BY <1>3
<1>6. QED
  BY <1>4, <1>5 DEF S

Moved(f, e, a, b, most) ==
  /\ e[b] = f[a] /\ e[a] = <<>>
  /\ \A n \in -1 .. most : a < n /\ n <= b => f[n] = <<>>
  /\ \A n \in -1 .. most : n \notin {a, b} => e[n] = f[n]

\* A piece that is moved up over empty ones leaves the whole as it is.
LEMMA JoinsMoved ==
  ASSUME NEW most \in Int, NEW M,
         NEW g, NEW f, Joins(g, f, most), Pieces(f, most, M),
         NEW h, NEW e, Joins(h, e, most), Pieces(e, most, M),
         NEW a \in -1 .. most, NEW b \in -1 .. most, a < b, Moved(f, e, a, b, most)
  PROVE  Below(h, most + 1) = Below(g, most + 1)
<1>0. /\ e[b] = f[a] /\ e[a] = <<>>
      /\ \A n \in -1 .. most : a < n /\ n <= b => f[n] = <<>>
      /\ \A n \in -1 .. most : n \notin {a, b} => e[n] = f[n]
  BY DEF Moved
<1>1. /\ a \in -1 .. (most + 1) /\ b \in -1 .. (most + 1) /\ most + 1 \in -1 .. (most + 1)
      /\ a + 1 \in -1 .. (most + 1) /\ b + 1 \in -1 .. (most + 1)
      /\ -1 \in -1 .. (most + 1)
  OBVIOUS
<1>2. Below(g, a) = Below(h, a)
  <2>1. Below(g, -1) = Below(h, -1)
    BY DEF Below
  <2>2. \A n \in -1 .. most : -1 <= n /\ n < a => f[n] = e[n]
    BY <1>0
  <2>3. QED
    BY <1>1, <2>1, <2>2, JoinsAgree
<1>3. Below(g, b + 1) = f[a] \o Below(g, a)
  <2>1. Below(g, a + 1) = f[a] \o Below(g, a)
    BY JoinSteps
  <2>2. \A n \in -1 .. most : a + 1 <= n /\ n < b + 1 => f[n] = <<>>
    BY <1>0
  <2>3. Below(g, b + 1) = Below(g, a + 1)
    BY <1>1, <2>2, JoinsNothing
  <2>4. QED
    BY <2>1, <2>3
<1>4. Below(h, b + 1) = f[a] \o Below(h, a)
  <2>1. Below(h, b + 1) = e[b] \o Below(h, b)
    BY JoinSteps
  <2>2. \A n \in -1 .. most : a <= n /\ n < b => e[n] = <<>>
    BY <1>0
  <2>3. Below(h, b) = Below(h, a)
    BY <1>1, <2>2, JoinsNothing
  <2>4. QED
    BY <1>0, <2>1, <2>3
<1>5. Below(g, b + 1) = Below(h, b + 1)
  BY <1>2, <1>3, <1>4
<1>6. \A n \in -1 .. most : b + 1 <= n /\ n < most + 1 => f[n] = e[n]
  BY <1>0
<1>7. QED
  BY <1>1, <1>5, <1>6, JoinsAgree

\* Two operators by a name of their own, which the provers leave whole.
Then(s, t) == s \o t
Added(s, m) == Append(s, m)

\* When the topmost piece is taken out, what is below it is left.
LEMMA JoinsDropped ==
  ASSUME NEW most \in Int, NEW M,
         NEW g, NEW f, Joins(g, f, most), Pieces(f, most, M),
         NEW h, NEW e, Joins(h, e, most), Pieces(e, most, M),
         NEW top \in -1 .. most, e[top] = <<>>,
         \A n \in -1 .. most : top < n => f[n] = <<>>,
         \A n \in -1 .. most : n # top => e[n] = f[n]
  PROVE  Below(g, most + 1) = Then(f[top], Below(h, most + 1))
<1>1. /\ top \in -1 .. (most + 1) /\ top + 1 \in -1 .. (most + 1)
      /\ most + 1 \in -1 .. (most + 1) /\ -1 \in -1 .. (most + 1)
  OBVIOUS
<1>2. Below(g, top) = Below(h, top)
  <2>1. Below(g, -1) = Below(h, -1)
    BY DEF Below
  <2>2. \A n \in -1 .. most : -1 <= n /\ n < top => f[n] = e[n]
    OBVIOUS
  <2>3. QED
    BY <1>1, <2>1, <2>2, JoinsAgree
<1>3. Below(g, most + 1) = f[top] \o Below(g, top)
  <2>1. Below(g, top + 1) = f[top] \o Below(g, top)
    BY JoinSteps
  <2>2. \A n \in -1 .. most : top + 1 <= n /\ n < most + 1 => f[n] = <<>>
    OBVIOUS
  <2>3. Below(g, most + 1) = Below(g, top + 1)
    BY <1>1, <2>2, JoinsNothing
  <2>4. QED
    BY <2>1, <2>3
<1>4. Below(h, most + 1) = Below(h, top)
  <2>1. \A n \in -1 .. most : top <= n /\ n < most + 1 => e[n] = <<>>
    OBVIOUS
  <2>2. QED
    BY <1>1, <2>1, JoinsNothing
<1>5. QED
  BY <1>2, <1>3, <1>4 DEF Then

\* What is added to the lowest piece is added to the whole.
LEMMA JoinsAdded ==
  ASSUME NEW most \in Nat, NEW M, NEW m \in M,
         NEW g, NEW f, Joins(g, f, most), Pieces(f, most, M),
         NEW h, NEW e, Joins(h, e, most), Pieces(e, most, M),
         e[-1] = Added(f[-1], m),
         \A n \in -1 .. most : n # -1 => e[n] = f[n]
  PROVE  Below(h, most + 1) = Added(Below(g, most + 1), m)
<1> DEFINE S == {k \in Nat : k <= most + 1 => Below(h, k) = Append(Below(g, k), m)}
<1>1. 0 \in S
  <2>1. -1 \in -1 .. most /\ -1 + 1 = 0
    OBVIOUS
  <2>2. Below(g, 0) = f[-1] \o Below(g, -1) /\ Below(h, 0) = e[-1] \o Below(h, -1)
    <3>1. PICK n \in -1 .. most : n = -1 /\ n + 1 = 0
      BY <2>1
    <3>2. Below(g, n + 1) = f[n] \o Below(g, n)
      BY JoinSteps
    <3>3. Below(h, n + 1) = e[n] \o Below(h, n)
      BY JoinSteps
    <3>4. QED
      BY <3>1, <3>2, <3>3
  <2>3. Below(g, -1) = <<>> /\ Below(h, -1) = <<>>
    BY DEF Below
  <2>4. f[-1] \in Seq(M) /\ e[-1] \in Seq(M)
    BY <2>1 DEF Pieces
  <2>5. Below(g, 0) = f[-1] /\ Below(h, 0) = e[-1]
    BY <2>2, <2>3, <2>4, ConcatEmptySeq
  <2>6. QED
    BY <2>5 DEF Added
<1>2. ASSUME NEW k \in Nat, k \in S PROVE k + 1 \in S
  <2> SUFFICES ASSUME k + 1 <= most + 1
               PROVE  Below(h, k + 1) = Append(Below(g, k + 1), m)
    OBVIOUS
  <2>1. k \in -1 .. most /\ k # -1 /\ k \in -1 .. (most + 1)
    OBVIOUS
  <2>2. Below(g, k + 1) = f[k] \o Below(g, k) /\ Below(h, k + 1) = e[k] \o Below(h, k)
    <3>1. PICK n \in -1 .. most : n = k
      BY <2>1
    <3>2. Below(g, n + 1) = f[n] \o Below(g, n)
      BY JoinSteps
    <3>3. Below(h, n + 1) = e[n] \o Below(h, n)
      BY JoinSteps
    <3>4. QED
      BY <3>1, <3>2, <3>3
  <2>3. e[k] = f[k] /\ Below(h, k) = Append(Below(g, k), m)
    BY <1>2, <2>1
  <2>4. f[k] \in Seq(M)
    BY <2>1 DEF Pieces
  <2>5. Below(g, k) \in Seq(M)
    BY <2>1, JoinTyped
  <2>6. f[k] \o Append(Below(g, k), m) = Append(f[k] \o Below(g, k), m)
    <3>1. PICK s \in Seq(M), t \in Seq(M) : s = f[k] /\ t = Below(g, k)
      BY <2>4, <2>5
    <3>2. s \o Append(t, m) = Append(s \o t, m)
      BY AppendedLast
    <3>3. QED
      BY <3>1, <3>2
  <2>7. QED
    BY <2>2, <2>3, <2>6
<1> HIDE DEF S
<1>3. \A k \in Nat : k \in S
  BY <1>1, <1>2, Induction
<1>4. most + 1 \in S
  BY <1>3
<1>5. QED
  BY <1>4 DEF S, Added

-----------------------------------------------------------------------------
(* What the log files hold when one process logs.                          *)

Messages == {1} \X Nat
Alone == processes = 1 /\ mMaxFileCount > 0

\* The name that the rotation under way has freed.
Hole ==
  IF pc[1] = "open" THEN Log!Current
  ELSE IF number[1] >= 1 THEN number[1] + 1
  ELSE IF mMaxFileCount = 1 THEN 0 ELSE 1
IsHole(n) == pc[1] \in {"rename", "open"} /\ n = Hole

\* A name stands for a file of its own, and the process writes to the log file.
FilesOK ==
  /\ content \in Seq(Seq(Messages))
  /\ \A n \in Log!Names : names[n] \in 0 .. Len(content)
  /\ \A m, n \in Log!Present : names[m] = names[n] => m = n
  /\ DOMAIN logged = Loggers /\ DOMAIN opened = Loggers
  /\ logged[1] \in Nat /\ (pc[1] # "idle" => logged[1] >= 1)
  /\ pc[1] = "rename" => Hole \notin Log!Present
  /\ pc[1] = "write" => Log!Current \in Log!Present /\ opened[1] = names[Log!Current]

\* An older file is kept only if all newer ones are there.
Filled == \A m \in Log!Present, n \in Slots : n < m => n \in Log!Present \/ IsHole(n)

\* The messages that have been written but for the first that are lost, which are
\* none as long as there is a name left.
Written == IF pc[1] = "idle" THEN logged[1] ELSE logged[1] - 1
Newest(lost) == [i \in 1 .. (Written - lost) |-> <<1, lost + i>>]
HoldsNewest(lost) ==
  /\ lost <= Written
  /\ Log!Kept = Newest(lost)
  /\ lost > 0 => \A n \in Slots : n \in Log!Present \/ IsHole(n)

\* A file is full when it is renamed.
SizesOK ==
  mMaxFileSize < Half =>
    /\ pc[1] \in {"unlink", "rename"} => mMaxFileSize > 0
    /\ \A n \in Log!Present \ {Log!Current} : Len(content[names[n]]) = mMaxFileSize
    /\ Log!Current \in Log!Present /\ mMaxFileSize > 0 =>
         LET size == Len(content[names[Log!Current]])
         IN  /\ pc[1] \in {"unlink", "rename"} => size = mMaxFileSize
             /\ pc[1] \in {"open", "write"} => size < mMaxFileSize
             /\ size <= mMaxFileSize

KeepsInv ==
  /\ mMaxFileSize \in Nat
  /\ Alone => FilesOK /\ Filled /\ (\E lost \in Nat : HoldsNewest(lost)) /\ SizesOK

\* What is under a name.
Under == [n \in Log!Names |-> IF n \in Log!Present THEN content[names[n]] ELSE <<>>]

\* The setting of the lemmas: names go from -1 to the largest count.
Setting(most) ==
  /\ most \in Nat /\ Log!Names = -1 .. most /\ Log!Current = -1 /\ Log!NoFile = 0
  /\ mMaxFileCount \in 1 .. most /\ LogInv /\ Alone

LEMMA SettingIs ==
  ASSUME Counts \subseteq Nat, NEW most \in Counts, \A n \in Counts : n <= most,
         LogInv, Alone
  PROVE  Setting(most)
  BY LargestIs DEF LogInv, LogTypes, Log!Names, Log!Current, Log!NoFile, Setting, Alone

LEMMA SlotsAre ==
  ASSUME NEW most, Setting(most)
  PROVE  /\ Slots \subseteq Log!Names /\ Log!Current \in Slots
         /\ mMaxFileCount - 1 \in Slots
         /\ \A n \in Slots : n <= mMaxFileCount - 1
         /\ Log!Present \subseteq Slots
         /\ \A n \in Log!Names : n \in Log!Present <=> names[n] # 0
         /\ Slots \subseteq Int /\ 1 \in Loggers
<1>1. mMaxFileCount \in Nat /\ mMaxFileCount >= 1 /\ mMaxFileCount <= most
  BY DEF Setting
<1>2. /\ Slots \subseteq Log!Names /\ Log!Current \in Slots
      /\ mMaxFileCount - 1 \in Slots
      /\ \A n \in Slots : n <= mMaxFileCount - 1
      /\ Slots \subseteq Int
  BY <1>1 DEF Setting, Slots
<1>3. Log!Present \subseteq Slots /\ \A n \in Log!Names : n \in Log!Present <=> names[n] # 0
  BY DEF Setting, LogInv, Log!Present
<1>4. 1 \in Loggers
  BY DEF Setting, LogInv, LogTypes, Alone, Log!Procs
<1>5. QED
  BY <1>2, <1>3, <1>4

\* The files hold what is put together from those under the names.
LEMMA KeptIs ==
  ASSUME NEW most \in Nat, Log!Names = -1 .. most, Log!Current = -1
  PROVE  \E g : Joins(g, Under, most) /\ Log!Kept = Below(g, most + 1)
<1>1. PICK g : Joins(g, Under, most)
  <2>1. most + 1 \in Nat /\ (most + 1) - 1 = most
    OBVIOUS
  <2>2. QED
    BY <2>1, JoinsExist
<1>2. g = [n \in Log!Names |-> (IF n \in Log!Present THEN content[names[n]] ELSE <<>>)
                               \o (IF n = Log!Current THEN <<>> ELSE g[n - 1])]
  BY <1>1 DEF Joins, Under
<1>3. Log!From = [n \in Log!Names |->
                    (IF n \in Log!Present THEN content[names[n]] ELSE <<>>)
                    \o (IF n = Log!Current THEN <<>> ELSE Log!From[n - 1])]
  BY <1>2 DEF Log!From
<1>4. Joins(Log!From, Under, most)
  BY <1>3 DEF Joins, Under
<1>5. Log!MaxOf(Log!Names) = most
  BY LargestIs
<1>6. Log!Kept = Below(Log!From, most + 1)
  BY <1>5 DEF Log!Kept, Below
<1>7. QED
  BY <1>4, <1>6

LEMMA KeptIsThen ==
  ASSUME NEW most \in Nat, Log!Names = -1 .. most, Log!Current = -1
  PROVE  \E g : Joins(g, Under', most) /\ Log!Kept' = Below(g, most + 1)
<1>1. PICK g : Joins(g, Under', most)
  <2>1. most + 1 \in Nat /\ (most + 1) - 1 = most
    OBVIOUS
  <2>2. QED
    BY <2>1, JoinsExist
<1>2. g = [n \in Log!Names |-> (IF n \in Log!Present' THEN content'[names'[n]] ELSE <<>>)
                               \o (IF n = Log!Current THEN <<>> ELSE g[n - 1])]
  BY <1>1 DEF Joins, Under
<1>3. Log!From' = [n \in Log!Names |->
                    (IF n \in Log!Present' THEN content'[names'[n]] ELSE <<>>)
                    \o (IF n = Log!Current THEN <<>> ELSE Log!From'[n - 1])]
  BY <1>2 DEF Log!From
<1>4. Joins(Log!From', Under', most)
  BY <1>3 DEF Joins, Under
<1>5. Log!MaxOf(Log!Names)' = most
  BY LargestIs
<1>6. Log!Kept' = Below(Log!From', most + 1)
  BY <1>5 DEF Log!Kept, Below
<1>7. QED
  BY <1>4, <1>6

LEMMA UnderTyped ==
  ASSUME NEW most, Setting(most), FilesOK
  PROVE  /\ Pieces(Under, most, Messages)
         /\ \A n \in Log!Present : names[n] \in 1 .. Len(content)
         /\ \A n \in Log!Names : Under[n] = IF n \in Log!Present THEN content[names[n]]
                                                                 ELSE <<>>
<1>1. \A n \in Log!Present : n \in Log!Names /\ names[n] \in 1 .. Len(content)
  BY SlotsAre DEF FilesOK, Log!Present, Setting
<1>2. \A n \in Log!Present : content[names[n]] \in Seq(Messages)
  BY <1>1 DEF FilesOK
<1>3. <<>> \in Seq(Messages)
  OBVIOUS
<1>4. QED
  BY <1>1, <1>2, <1>3 DEF Under, Pieces, Setting

\* When nothing changes under any name, nothing does in the whole.
LEMMA KeptSame ==
  ASSUME NEW most, Setting(most), Under' = Under
  PROVE  Log!Kept' = Log!Kept
<1>1. most \in Nat /\ Log!Names = -1 .. most /\ Log!Current = -1
  BY DEF Setting
<1>2. PICK g : Joins(g, Under, most) /\ Log!Kept = Below(g, most + 1)
  BY <1>1, KeptIs
<1>3. PICK h : Joins(h, Under', most) /\ Log!Kept' = Below(h, most + 1)
  BY <1>1, KeptIsThen
<1>4. Below(g, -1) = Below(h, -1)
  BY DEF Below
<1>5. Below(g, most + 1) = Below(h, most + 1)
  <2>1. PICK e : e = Under
    OBVIOUS
  <2>2. Joins(g, e, most) /\ Joins(h, e, most)
    BY <1>2, <1>3, <2>1
  <2>3. -1 \in -1 .. (most + 1) /\ most + 1 \in -1 .. (most + 1) /\ -1 <= most + 1
    BY <1>1
  <2>4. \A n \in -1 .. most : -1 <= n /\ n < most + 1 => e[n] = e[n]
    OBVIOUS
  <2>5. QED
    BY <1>1, <1>4, <2>2, <2>3, <2>4, JoinsAgree
<1>6. QED
  BY <1>2, <1>3, <1>5

\* A file that is renamed to a name above, with no file on the way, leaves the whole.
LEMMA KeptMoved ==
  ASSUME NEW most, Setting(most), Setting(most)', FilesOK, FilesOK',
         NEW from \in Slots, NEW to \in Slots, from < to, to \notin Log!Present,
         \A n \in Slots : n < to => n <= from,
         names' = Log!Renamed(from, to), content' = content
  PROVE  Log!Kept' = Log!Kept
<1>1. /\ most \in Nat /\ most \in Int /\ Log!Names = -1 .. most /\ Log!Current = -1
      /\ from \in -1 .. most /\ to \in -1 .. most
      /\ Log!NoFile = 0 /\ Log!Present \subseteq Slots
      /\ \A n \in Log!Names : n \in Log!Present <=> names[n] # 0
      /\ \A n \in Log!Names : n \in Log!Present' <=> names'[n] # 0
      /\ DOMAIN names = Log!Names
  <2>1. most \in Nat /\ Log!Names = -1 .. most /\ Log!NoFile = 0 /\ Log!Current = -1
        /\ DOMAIN names = Log!Names
    BY DEF Setting, LogInv, LogTypes
  <2>2. \A n \in Log!Names : n \in Log!Present' <=> names'[n] # 0
    BY <2>1 DEF Log!Present
  <2>3. QED
    BY <2>1, <2>2, SlotsAre
<1>2. /\ Pieces(Under, most, Messages) /\ Pieces(Under', most, Messages)
      /\ \A n \in Log!Names : Under[n] = IF n \in Log!Present THEN content[names[n]]
                                                              ELSE <<>>
      /\ \A n \in Log!Names : Under'[n] = IF n \in Log!Present' THEN content[names'[n]]
                                                                ELSE <<>>
  <2>1. Pieces(Under, most, Messages)
    BY UnderTyped
  <2>2. \A n \in Log!Present' : n \in Log!Names /\ names'[n] \in 1 .. Len(content')
    <3>1. \A n \in Log!Names : names'[n] \in 0 .. Len(content')
      BY DEF FilesOK
    <3>2. Log!Present' \subseteq Log!Names /\ Len(content') \in Nat
      BY DEF FilesOK, Log!Present
    <3>3. QED
      BY <1>1, <3>1, <3>2
  <2>3. \A n \in Log!Present' : content'[names'[n]] \in Seq(Messages)
    BY <2>2 DEF FilesOK
  <2>4. <<>> \in Seq(Messages)
    OBVIOUS
  <2>5. Pieces(Under', most, Messages)
    BY <1>1, <2>3, <2>4 DEF Under, Pieces
  <2>6. QED
    BY <2>1, <2>5 DEF Under
<1>3. CASE from \notin Log!Present
  <2>1. names' = names
    BY <1>1, <1>3 DEF Log!Renamed
  <2>2. Under' = Under
    BY <2>1 DEF Under, Log!Present
  <2>3. QED
    BY <2>2, KeptSame
<1>4. CASE from \in Log!Present
  <2>1. names' = [names EXCEPT ![to] = names[from], ![from] = 0]
    BY <1>1, <1>4 DEF Log!Renamed
  <2>2. /\ names'[to] = names[from] /\ names'[from] = 0
        /\ \A n \in Log!Names : n \notin {from, to} => names'[n] = names[n]
    BY <1>1, <2>1
  <2>3. PICK f, e : f = Under /\ e = Under'
    OBVIOUS
  <2>4. e[to] = f[from] /\ e[from] = <<>>
    BY <1>1, <1>2, <1>4, <2>2, <2>3
  <2>5. \A n \in -1 .. most : from < n /\ n <= to => f[n] = <<>>
    BY <1>1, <1>2, <2>3
  <2>6. \A n \in -1 .. most : n \notin {from, to} => e[n] = f[n]
    BY <1>1, <1>2, <2>2, <2>3
  <2>7. PICK g : Joins(g, f, most) /\ Log!Kept = Below(g, most + 1)
    BY <1>1, <2>3, KeptIs
  <2>8. PICK h : Joins(h, e, most) /\ Log!Kept' = Below(h, most + 1)
    BY <1>1, <2>3, KeptIsThen
  <2>9. Pieces(f, most, Messages) /\ Pieces(e, most, Messages)
    BY <1>2, <2>3
  <2>10. PICK M : M = Messages
    OBVIOUS
  <2>11. Below(h, most + 1) = Below(g, most + 1)
    <3>1. Pieces(f, most, M) /\ Pieces(e, most, M)
      BY <2>9, <2>10
    <3>2. PICK a \in -1 .. most, b \in -1 .. most : a = from /\ b = to
      BY <1>1
    <3>3. a < b /\ Moved(f, e, a, b, most)
      BY <2>4, <2>5, <2>6, <3>2 DEF Moved
    <3>4. Joins(g, f, most) /\ Joins(h, e, most) /\ most \in Int
      BY <1>1, <2>7, <2>8
    <3>5. QED
      BY <3>1, <3>3, <3>4, JoinsMoved
  <2>12. QED
    BY <2>7, <2>8, <2>11
<1>5. QED
  BY <1>3, <1>4

\* The invariant goes on when a file is moved to the name that is free, and its own is
\* the next that is.
LEMMA MoveKeeps ==
  ASSUME NEW most, Setting(most), Setting(most)',
         FilesOK, Filled, NEW lost \in Nat, HoldsNewest(lost), SizesOK,
         NEW from \in Slots, NEW to \in Slots, from < to,
         \A n \in Slots : n < to => n <= from,
         pc[1] = "rename", Hole = to, names' = Log!Renamed(from, to),
         UNCHANGED <<content, mMaxFileCount, mMaxFileSize, opened, logged>>,
         pc'[1] \in {"rename", "open"}, Hole' = from,
         from # Log!Current => pc'[1] = "rename"
  PROVE  FilesOK' /\ Filled' /\ HoldsNewest(lost)' /\ SizesOK'
<1>1. /\ most \in Nat /\ Log!Names = -1 .. most /\ Log!Current = -1
      /\ from \in -1 .. most /\ to \in -1 .. most
      /\ Log!NoFile = 0 /\ Log!Present \subseteq Slots
      /\ \A n \in Log!Names : n \in Log!Present <=> names[n] # 0
      /\ \A n \in Log!Names : n \in Log!Present' <=> names'[n] # 0
      /\ DOMAIN names = Log!Names /\ Slots \subseteq Log!Names
      /\ Log!Present' \subseteq Log!Names /\ Log!Present \subseteq Log!Names
  BY SlotsAre DEF Setting, Log!Present, LogInv, LogTypes
<1>2. to \notin Log!Present /\ \A n : IsHole(n) <=> n = to
  BY DEF FilesOK, IsHole
<1>3. \A n : IsHole(n)' <=> n = from
  BY DEF IsHole
<1>4. /\ from \notin Log!Present => names' = names /\ Log!Present' = Log!Present
      /\ from \in Log!Present =>
           /\ Log!Present' = (Log!Present \ {from}) \union {to}
           /\ names'[to] = names[from] /\ names'[from] = 0
           /\ \A n \in Log!Names : n \notin {from, to} => names'[n] = names[n]
  <2>1. CASE from \notin Log!Present
    BY <1>1, <2>1 DEF Log!Renamed, Log!Present
  <2>2. CASE from \in Log!Present
    <3>1. names' = [names EXCEPT ![to] = names[from], ![from] = 0]
      BY <1>1, <2>2 DEF Log!Renamed
    <3>2. /\ names'[to] = names[from] /\ names'[from] = 0
          /\ \A n \in Log!Names : n \notin {from, to} => names'[n] = names[n]
      BY <1>1, <3>1
    <3>3. \A n \in Log!Names : n \in Log!Present' <=> n \in (Log!Present \ {from}) \union {to}
      BY <1>1, <2>2, <3>2
    <3>4. Log!Present' = (Log!Present \ {from}) \union {to}
      <4>1. (Log!Present \ {from}) \union {to} \subseteq Log!Names
        BY <1>1
      <4>2. Log!Present' \subseteq Log!Names
        BY <1>1
      <4>3. QED
        BY <3>3, <4>1, <4>2
    <3>5. QED
      BY <2>2, <3>2, <3>4
  <2>3. QED
    BY <2>1, <2>2
<1>5. Slots' = Slots /\ Loggers' = Loggers
  BY DEF Slots, Loggers
<1>6. from \notin Log!Present'
  BY <1>1, <1>4
<1>7. FilesOK'
  <2>1. \A n \in Log!Names : names'[n] \in 0 .. Len(content)
    <3>1. Len(content) \in Nat
      BY DEF FilesOK
    <3>2. SUFFICES ASSUME NEW n \in Log!Names PROVE names'[n] \in 0 .. Len(content)
      OBVIOUS
    <3>3. names[n] \in 0 .. Len(content) /\ names[from] \in 0 .. Len(content)
      BY <1>1 DEF FilesOK
    <3>4. names'[n] \in {names[n], names[from], 0}
      BY <1>4
    <3>5. QED
      BY <3>1, <3>3, <3>4
  <2>2. \A m, n \in Log!Present' : names'[m] = names'[n] => m = n
    <3>1. CASE from \notin Log!Present
      BY <1>4, <3>1 DEF FilesOK
    <3>2. CASE from \in Log!Present
      <4>1. \A n \in Log!Present' : n # to =>
              n \in Log!Present /\ n # from /\ names'[n] = names[n]
        BY <1>1, <1>4, <3>2
      <4>2. QED
        BY <1>2, <1>4, <3>2, <4>1 DEF FilesOK
    <3>3. QED
      BY <3>1, <3>2
  <2>3. pc'[1] = "rename" => Hole' \notin Log!Present'
    BY <1>6
  <2>4. content' \in Seq(Seq(Messages)) /\ logged'[1] \in Nat /\ logged'[1] >= 1
        /\ DOMAIN logged' = Loggers' /\ DOMAIN opened' = Loggers'
    BY <1>5 DEF FilesOK
  <2>5. QED
    BY <2>1, <2>2, <2>3, <2>4 DEF FilesOK
<1>8. Filled'
  <2> SUFFICES ASSUME NEW m \in Log!Present', NEW n \in Slots, n < m, n # from
               PROVE  n \in Log!Present'
    BY <1>3, <1>5 DEF Filled
  <2>1. n \in Int /\ m \in Int
    BY <1>1
  <2>2. CASE m = to
    <3>1. from \in Log!Present /\ n < from
      BY <1>2, <1>4, <2>1, <2>2
    <3>2. n \in Log!Present
      BY <1>2, <2>1, <2>2, <3>1 DEF Filled
    <3>3. QED
      BY <1>4, <3>1, <3>2
  <2>3. CASE m # to
    <3>1. m \in Log!Present
      BY <1>4, <2>3
    <3>2. n \in Log!Present \/ n = to
      BY <1>2, <3>1 DEF Filled
    <3>3. n = to => from \in Log!Present
      BY <1>1, <1>2, <2>1, <3>1 DEF Filled
    <3>4. QED
      BY <1>4, <3>2, <3>3
  <2>4. QED
    BY <2>2, <2>3
<1>9. HoldsNewest(lost)'
  <2>1. Log!Kept' = Log!Kept
    BY <1>2, <1>7, KeptMoved
  <2>2. Written' = Written
    BY DEF Written
  <2>3. ASSUME lost > 0, NEW n \in Slots, n # from PROVE n \in Log!Present'
    <3>1. n \in Log!Present \/ n = to
      BY <1>2, <2>3 DEF HoldsNewest
    <3>2. from \in Log!Present
      BY <1>1, <1>2, <2>3 DEF HoldsNewest
    <3>3. QED
      BY <1>4, <2>3, <3>1, <3>2
  <2>4. QED
    BY <1>3, <1>5, <2>1, <2>2, <2>3 DEF HoldsNewest, Newest
<1>10. SizesOK'
  <2> SUFFICES ASSUME mMaxFileSize < Half PROVE SizesOK'
    BY DEF SizesOK
  <2>1. mMaxFileSize > 0
    BY DEF SizesOK
  <2>2. ASSUME NEW n \in Log!Present', n # Log!Current
        PROVE  Len(content[names'[n]]) = mMaxFileSize
    <3>1. CASE n = to
      <4>1. from \in Log!Present /\ names'[n] = names[from]
        BY <1>2, <1>4, <2>2, <3>1
      <4>2. QED
        BY <2>1, <4>1 DEF SizesOK
    <3>2. CASE n # to
      BY <1>1, <1>4, <2>2, <3>2 DEF SizesOK
    <3>3. QED
      BY <3>1, <3>2
  <2>3. ASSUME Log!Current \in Log!Present'
        PROVE  pc'[1] = "rename" /\ Len(content[names'[Log!Current]]) = mMaxFileSize
    <3>1. from # Log!Current /\ to # Log!Current
      BY <1>1, <1>6, <2>3
    <3>2. Log!Current \in Log!Present /\ names'[Log!Current] = names[Log!Current]
      BY <1>1, <1>4, <2>3, <3>1
    <3>3. QED
      BY <2>1, <3>1, <3>2 DEF SizesOK
  <2>4. QED
    BY <2>1, <2>2, <2>3 DEF SizesOK
<1>11. QED
  BY <1>7, <1>8, <1>9, <1>10

\* The messages from first + 1 to last.
From(first, last) == [i \in 1 .. (last - first) |-> <<1, first + i>>]

LEMMA FromDrops ==
  ASSUME NEW first \in Nat, NEW last \in Nat, first <= last,
         NEW M, NEW s \in Seq(M), NEW t \in Seq(M), From(first, last) = Then(s, t)
  PROVE  first + Len(s) <= last /\ t = From(first + Len(s), last)
<1>1. PICK k \in Nat, l \in Nat : k = Len(s) /\ l = Len(t)
  OBVIOUS
<1> From(first, last) = s \o t
  BY DEF Then
<1>2. /\ Len(s \o t) = k + l
      /\ \A i \in 1 .. (k + l) : (s \o t)[i] = IF i <= k THEN s[i] ELSE t[i - k]
  BY <1>1, ConcatProperties
<1>3. last - first \in Nat /\ Len(From(first, last)) = last - first
  BY DEF From
<1>4. k + l = last - first
  BY <1>2, <1>3
<1>5. ASSUME NEW i \in 1 .. l PROVE t[i] = <<1, (first + k) + i>>
  <2>1. PICK j \in 1 .. (k + l) : j = k + i /\ ~ (j <= k) /\ j - k = i
    <3>1. k + i \in 1 .. (k + l) /\ ~ (k + i <= k) /\ (k + i) - k = i
      OBVIOUS
    <3>2. QED
      BY <3>1
  <2>2. (s \o t)[j] = t[i]
    BY <1>2, <2>1
  <2>3. From(first, last)[j] = <<1, first + j>>
    BY <1>4 DEF From
  <2>4. first + j = (first + k) + i
    BY <2>1
  <2>5. QED
    BY <2>2, <2>3, <2>4
<1>6. last - (first + k) = l /\ first + k <= last
  BY <1>4
<1>7. t = [i \in 1 .. l |-> <<1, (first + k) + i>>]
  <2>1. t = [i \in 1 .. l |-> t[i]]
    BY <1>1
  <2>2. QED
    BY <1>5, <2>1
<1>8. QED
  BY <1>1, <1>6, <1>7 DEF From

LEMMA FromAdds ==
  ASSUME NEW first \in Nat, NEW last \in Nat, first <= last
  PROVE  Append(From(first, last), <<1, last + 1>>) = From(first, last + 1)
<1>1. PICK k \in Nat : k = last - first
  OBVIOUS
<1>2. From(first, last) = [i \in 1 .. k |-> <<1, first + i>>]
  BY <1>1 DEF From
<1>3. (last + 1) - first = k + 1 /\ last + 1 = first + (k + 1)
  BY <1>1
<1>4. From(first, last + 1) = [i \in 1 .. (k + 1) |-> <<1, first + i>>]
  BY <1>3 DEF From
<1> DEFINE s == From(first, last)
<1>6. s \in Seq({1} \X Nat) /\ Len(s) = k
  <2>1. \A i \in 1 .. k : <<1, first + i>> \in {1} \X Nat
    OBVIOUS
  <2>2. QED
    BY <1>2, <2>1
<1>7. /\ Len(Append(s, <<1, last + 1>>)) = k + 1
      /\ \A i \in 1 .. k : Append(s, <<1, last + 1>>)[i] = s[i]
      /\ Append(s, <<1, last + 1>>)[k + 1] = <<1, last + 1>>
      /\ Append(s, <<1, last + 1>>) \in Seq({1} \X Nat)
  <2>1. <<1, last + 1>> \in {1} \X Nat
    OBVIOUS
  <2> HIDE DEF s
  <2>2. QED
    BY <1>6, <2>1
<1>8. \A i \in 1 .. k : s[i] = <<1, first + i>>
  BY <1>2
<1>9. \A i \in 1 .. (k + 1) : Append(s, <<1, last + 1>>)[i] = <<1, first + i>>
  <2> HIDE DEF s
  <2>1. \A i \in 1 .. (k + 1) : i \in 1 .. k \/ i = k + 1
    OBVIOUS
  <2>2. QED
    BY <1>3, <1>7, <1>8, <2>1
<1>10. Append(s, <<1, last + 1>>)
         = [i \in 1 .. (k + 1) |-> Append(s, <<1, last + 1>>)[i]]
  <2> HIDE DEF s
  <2>1. PICK a \in Seq({1} \X Nat) : a = Append(s, <<1, last + 1>>) /\ Len(a) = k + 1
    BY <1>7
  <2>2. a = [i \in 1 .. (k + 1) |-> a[i]]
    BY <2>1
  <2>3. QED
    BY <2>1, <2>2
<1>11. QED
  BY <1>4, <1>9, <1>10

LEMMA KeptTyped ==
  ASSUME NEW most, Setting(most), FilesOK
  PROVE  Log!Kept \in Seq(Messages)
<1>1. most \in Nat /\ Log!Names = -1 .. most /\ Log!Current = -1
      /\ most \in Int /\ most + 1 \in -1 .. (most + 1)
  BY DEF Setting
<1>2. PICK g : Joins(g, Under, most) /\ Log!Kept = Below(g, most + 1)
  BY <1>1, KeptIs
<1>3. PICK f, M : f = Under /\ M = Messages
  OBVIOUS
<1>4. Joins(g, f, most) /\ Pieces(f, most, M)
  BY <1>2, <1>3, UnderTyped
<1>5. Below(g, most + 1) \in Seq(M)
  BY <1>1, <1>4, JoinTyped
<1>6. QED
  BY <1>2, <1>3, <1>5

\* The first step of a call: the message is to be written, and a full log file first
\* rotated.
LEMMA CallKeeps ==
  ASSUME NEW most, Setting(most), mMaxFileSize \in Nat, Half \in Nat,
         FilesOK, Filled, NEW lost \in Nat, HoldsNewest(lost), SizesOK, Log!LogMsg(1)
  PROVE  FilesOK' /\ Filled' /\ HoldsNewest(lost)' /\ SizesOK'
<1>1. /\ pc[1] = "idle" /\ UNCHANGED <<names, content, mMaxFileCount, mMaxFileSize, number>>
      /\ opened' = opened /\ logged' = [logged EXCEPT ![1] = @ + 1]
      /\ pc' = [pc EXCEPT ![1] = IF Log!Full THEN "unlink" ELSE "open"]
      /\ 1 \in Loggers /\ Slots' = Slots /\ Loggers' = Loggers /\ 1 \in DOMAIN pc
  <2>1. mMaxFileCount # 0 /\ 1 \in Loggers /\ 1 \in DOMAIN pc
    BY SlotsAre DEF Setting, LogInv, LogTypes
  <2>2. QED
    BY <2>1 DEF Log!LogMsg, Slots, Loggers
<1>2. /\ logged'[1] = logged[1] + 1 /\ logged[1] \in Nat /\ DOMAIN logged' = Loggers
      /\ pc'[1] = IF Log!Full THEN "unlink" ELSE "open"
  BY <1>1 DEF FilesOK
<1>3. Log!Present' = Log!Present /\ Log!Kept' = Log!Kept /\ Written' = Written
  <2>1. Under' = Under
    BY <1>1 DEF Under, Log!Present
  <2>2. Written' = Written
    BY <1>1, <1>2 DEF Written
  <2>3. QED
    BY <1>1, <2>1, <2>2, KeptSame DEF Log!Present
<1>4. \A n : ~ IsHole(n)
  BY <1>1 DEF IsHole
<1>5. FilesOK'
  BY <1>1, <1>2, <1>3 DEF FilesOK
<1>6. Filled' /\ HoldsNewest(lost)'
  BY <1>1, <1>3, <1>4 DEF Filled, HoldsNewest, Newest
<1>7. SizesOK'
  <2> SUFFICES ASSUME mMaxFileSize < Half PROVE SizesOK'
    BY <1>1 DEF SizesOK
  <2>1. mMaxFileSize \in Nat /\ Log!Int32(mMaxFileSize) = mMaxFileSize
    BY DEF Log!Int32
  <2>2. Log!Current \in Log!Names /\ (Log!Current \in Log!Present <=> names[Log!Current] # 0)
        /\ Log!NoFile = 0
    BY SlotsAre DEF Setting
  <2>3. Log!Full <=> /\ mMaxFileSize > 0 /\ Log!Current \in Log!Present
                     /\ Len(content[names[Log!Current]]) >= mMaxFileSize
    BY <2>1, <2>2 DEF Log!Full, Log!GetFileSize
  <2>4. Log!Current \in Log!Present => Len(content[names[Log!Current]]) \in Nat
    BY UnderTyped DEF FilesOK
  <2>5. QED
    BY <1>1, <1>2, <1>3, <2>1, <2>3, <2>4 DEF SizesOK
<1>8. QED
  BY <1>5, <1>6, <1>7

\* The oldest file goes, and what is left is as new.
LEMMA UnlinkKeeps ==
  ASSUME NEW most, Setting(most), Setting(most)',
         FilesOK, Filled, NEW lost \in Nat, HoldsNewest(lost), SizesOK, Log!Unlink(1)
  PROVE  FilesOK' /\ Filled' /\ (\E more \in Nat : HoldsNewest(more)') /\ SizesOK'
<1>1. PICK top \in -1 .. most :
        /\ top = mMaxFileCount - 1 /\ top \in Slots /\ \A n \in Slots : n <= top
  BY SlotsAre DEF Setting
<1>2. /\ pc[1] = "unlink" /\ pc' = [pc EXCEPT ![1] = "rename"]
      /\ names' = [names EXCEPT ![top] = 0] /\ number' = [number EXCEPT ![1] = top - 1]
      /\ UNCHANGED <<content, mMaxFileCount, mMaxFileSize, opened, logged>>
      /\ 1 \in Loggers /\ Slots' = Slots /\ Loggers' = Loggers
      /\ mMaxFileCount \in Nat
  <2>1. mMaxFileCount \in Nat /\ mMaxFileCount - 2 = top - 1 /\ 1 \in Loggers /\ Log!NoFile = 0
    BY <1>1, SlotsAre DEF Setting
  <2>2. QED
    BY <1>1, <2>1 DEF Log!Unlink, Slots, Loggers
<1>3. pc'[1] = "rename" /\ number'[1] = top - 1 /\ DOMAIN names = Log!Names
  BY <1>2 DEF Setting, LogInv, LogTypes
<1>4. Hole' = top /\ \A n : IsHole(n)' <=> n = top
  <2>1. Hole' = top
    BY <1>1, <1>2, <1>3 DEF Hole, Setting
  <2>2. QED
    BY <1>3, <2>1 DEF IsHole
<1>5. /\ most \in Nat /\ most \in Int /\ Log!Names = -1 .. most /\ Log!Current = -1
      /\ Log!NoFile = 0 /\ Log!Present \subseteq Slots /\ Slots \subseteq Log!Names
      /\ \A n \in Log!Names : n \in Log!Present <=> names[n] # 0
  BY SlotsAre DEF Setting
<1>6. /\ names'[top] = 0 /\ \A n \in Log!Names \ {top} : names'[n] = names[n]
      /\ Log!Present' = Log!Present \ {top}
  <2>1. names'[top] = 0 /\ \A n \in Log!Names \ {top} : names'[n] = names[n]
    BY <1>1, <1>2, <1>3, <1>5
  <2>2. QED
    BY <1>1, <1>5, <2>1 DEF Log!Present
<1>7. FilesOK'
  <2>1. Len(content) \in Nat
    BY DEF FilesOK
  <2>2. \A n \in Log!Names : names'[n] \in 0 .. Len(content)
    BY <1>6, <2>1 DEF FilesOK
  <2>3. \A m, n \in Log!Present' : names'[m] = names'[n] => m = n
    BY <1>5, <1>6 DEF FilesOK
  <2>4. Hole' \notin Log!Present'
    BY <1>4, <1>6
  <2>5. QED
    BY <1>2, <1>3, <2>2, <2>3, <2>4 DEF FilesOK
<1>8. Filled'
  BY <1>2, <1>4, <1>6 DEF Filled, IsHole
<1>9. SizesOK'
  BY <1>2, <1>3, <1>5, <1>6 DEF SizesOK
<1>10. \E more \in Nat : HoldsNewest(more)'
  <2>1. PICK f, e, M : f = Under /\ e = Under' /\ M = Messages
    OBVIOUS
  <2>2. Pieces(f, most, M) /\ f[top] \in Seq(M)
    BY <2>1, UnderTyped DEF Pieces
  <2>3. e[top] = <<>> /\ \A n \in -1 .. most : n # top => e[n] = f[n]
    BY <1>2, <1>5, <1>6, <2>1 DEF Under
  <2>4. Pieces(e, most, M)
    <3>1. <<>> \in Seq(M)
      OBVIOUS
    <3>2. QED
      BY <2>2, <2>3, <3>1 DEF Pieces
  <2>5. \A n \in -1 .. most : top < n => f[n] = <<>>
    BY <1>1, <1>5, <2>1 DEF Under
  <2>6. PICK g : Joins(g, f, most) /\ Log!Kept = Below(g, most + 1)
    BY <1>5, <2>1, KeptIs
  <2>7. PICK h : Joins(h, e, most) /\ Log!Kept' = Below(h, most + 1)
    BY <1>5, <2>1, KeptIsThen
  <2>8. Below(g, most + 1) = Then(f[top], Below(h, most + 1))
    <3>1. most \in Int /\ Joins(g, f, most) /\ Joins(h, e, most)
      BY <1>5, <2>6, <2>7
    <3>2. QED
      BY <2>2, <2>3, <2>4, <2>5, <3>1, JoinsDropped
  <2>9. Below(h, most + 1) \in Seq(M)
    <3>1. most + 1 \in -1 .. (most + 1)
      BY <1>5
    <3>2. QED
      BY <1>5, <2>4, <2>7, <3>1, JoinTyped
  <2>10. Written \in Nat /\ lost <= Written /\ From(lost, Written) = Log!Kept
         /\ Written' = Written
    BY <1>2, <1>3 DEF HoldsNewest, Newest, From, Written, FilesOK
  <2>11. PICK s \in Seq(M), t \in Seq(M), last \in Nat :
           /\ s = f[top] /\ t = Log!Kept' /\ last = Written
           /\ From(lost, last) = Then(s, t) /\ lost <= last
    BY <2>2, <2>6, <2>7, <2>8, <2>9, <2>10
  <2>12. lost + Len(s) <= last /\ t = From(lost + Len(s), last)
    <3>1. From(lost, last) = Then(s, t) /\ lost <= last
      BY <2>11
    <3>2. QED
      BY <3>1, FromDrops
  <2>13. PICK more \in Nat : more = lost + Len(s)
    BY <2>11
  <2>14. ASSUME more > 0, NEW n \in Slots, n # top PROVE n \in Log!Present'
    <3>1. CASE lost > 0
      BY <1>2, <1>6, <2>14, <3>1 DEF HoldsNewest, IsHole
    <3>2. CASE lost = 0
      <4>1. s # <<>>
        BY <2>13, <2>14, <3>2
      <4>2. top \in Log!Present
        BY <1>5, <2>1, <2>11, <4>1 DEF Under
      <4>3. n < top
        BY <1>1, <1>5, <2>14
      <4>4. n \in Log!Present
        BY <1>2, <4>2, <4>3 DEF Filled, IsHole
      <4>5. QED
        BY <1>6, <2>14, <4>4
    <3>3. QED
      BY <3>1, <3>2
  <2>15. HoldsNewest(more)'
    BY <1>2, <1>4, <2>10, <2>11, <2>12, <2>13, <2>14 DEF HoldsNewest, Newest, From
  <2>16. QED
    BY <2>15
<1>11. QED
  BY <1>7, <1>8, <1>9, <1>10

\* The log file is opened, or made without a message.
LEMMA OpenKeeps ==
  ASSUME NEW most, Setting(most), Setting(most)', mMaxFileSize \in Nat,
         FilesOK, Filled, NEW lost \in Nat, HoldsNewest(lost), SizesOK, Log!Open(1)
  PROVE  FilesOK' /\ Filled' /\ HoldsNewest(lost)' /\ SizesOK'
<1>1. /\ pc[1] = "open" /\ pc' = [pc EXCEPT ![1] = "write"]
      /\ opened' = [opened EXCEPT ![1] = names'[Log!Current]]
      /\ UNCHANGED <<mMaxFileCount, mMaxFileSize, logged>>
      /\ 1 \in Loggers /\ Slots' = Slots /\ Loggers' = Loggers /\ 1 \in DOMAIN pc
  BY SlotsAre DEF Log!Open, Setting, Slots, Loggers, LogInv, LogTypes
<1>2. /\ most \in Nat /\ Log!Names = -1 .. most /\ Log!Current = -1 /\ Log!NoFile = 0
      /\ Log!Current \in Log!Names /\ Log!Present \subseteq Slots
      /\ Slots \subseteq Log!Names /\ DOMAIN names = Log!Names
      /\ \A n \in Log!Names : n \in Log!Present <=> names[n] # 0
  BY SlotsAre DEF Setting, LogInv, LogTypes
<1>3. pc'[1] = "write" /\ opened'[1] = names'[Log!Current] /\ DOMAIN opened' = Loggers
  BY <1>1 DEF FilesOK
<1>4. PICK files \in Nat : files = Len(content)
  BY DEF FilesOK
<1>5. /\ names' = [n \in Log!Names |-> IF n = Log!Current /\ n \notin Log!Present
                                         THEN files + 1 ELSE names[n]]
      /\ content' = IF Log!Current \in Log!Present THEN content ELSE Append(content, <<>>)
  <2>1. CASE Log!Current \in Log!Present
    <3>1. UNCHANGED <<content, names>>
      BY <1>2, <2>1 DEF Log!Open
    <3>2. names = [n \in Log!Names |-> names[n]]
      BY DEF Setting, LogInv, LogTypes
    <3>3. QED
      BY <2>1, <3>1, <3>2
  <2>2. CASE Log!Current \notin Log!Present
    <3>1. /\ content' = Append(content, <<>>)
          /\ names' = [names EXCEPT ![Log!Current] = files + 1]
      BY <1>2, <1>4, <2>2 DEF Log!Open
    <3>2. QED
      BY <1>2, <2>2, <3>1
  <2>3. QED
    BY <2>1, <2>2
<1>6. Log!Present' = Log!Present \union {Log!Current}
  BY <1>2, <1>4, <1>5 DEF Log!Present
<1>7. \A n \in Log!Present : names[n] \in 1 .. files
  BY <1>4, UnderTyped
<1>8. /\ \A i \in 1 .. files : content'[i] = content[i]
      /\ content' \in Seq(Seq(Messages))
      /\ Log!Current \notin Log!Present =>
           Len(content') = files + 1 /\ content'[files + 1] = <<>>
      /\ Log!Current \in Log!Present => Len(content') = files
  <2>1. <<>> \in Seq(Messages) /\ content \in Seq(Seq(Messages))
    BY DEF FilesOK
  <2>2. PICK M : M = Seq(Messages)
    OBVIOUS
  <2>3. <<>> \in M /\ content \in Seq(M)
    BY <2>1, <2>2
  <2>4. /\ Append(content, <<>>) \in Seq(M)
        /\ Len(Append(content, <<>>)) = files + 1
        /\ \A i \in 1 .. files : Append(content, <<>>)[i] = content[i]
        /\ Append(content, <<>>)[files + 1] = <<>>
    BY <1>4, <2>3, AppendProperties
  <2>5. QED
    BY <1>4, <1>5, <2>2, <2>3, <2>4
<1>9. \A n \in Log!Present :
        names'[n] = names[n] /\ content'[names'[n]] = content[names[n]]
  BY <1>2, <1>5, <1>7, <1>8
<1>10. Log!Current \notin Log!Present =>
         names'[Log!Current] = files + 1 /\ content'[names'[Log!Current]] = <<>>
  BY <1>2, <1>5, <1>8
<1>11. FilesOK'
  <2>1. ASSUME NEW n \in Log!Names PROVE names'[n] \in 0 .. Len(content')
    <3>1. names[n] \in 0 .. files
      BY <1>4 DEF FilesOK
    <3>2. QED
      BY <1>5, <1>8, <3>1
  <2>2. ASSUME NEW m \in Log!Present', NEW n \in Log!Present', names'[m] = names'[n]
        PROVE  m = n
    <3>1. CASE m \in Log!Present /\ n \in Log!Present
      BY <1>9, <2>2, <3>1 DEF FilesOK
    <3>2. CASE m \notin Log!Present \/ n \notin Log!Present
      BY <1>6, <1>7, <1>9, <1>10, <2>2, <3>2
    <3>3. QED
      BY <3>1, <3>2
  <2>3. logged'[1] \in Nat /\ logged'[1] >= 1 /\ DOMAIN logged' = Loggers'
    BY <1>1 DEF FilesOK
  <2>4. QED
    BY <1>1, <1>3, <1>6, <1>8, <2>1, <2>2, <2>3 DEF FilesOK
<1>12. /\ \A n \in Log!Present' : n # Log!Current => n \in Log!Present
       /\ \A n : IsHole(n) => n \in Log!Present'
       /\ Log!Present \subseteq Log!Present'
  BY <1>1, <1>6 DEF IsHole, Hole
<1>13. Filled'
  <2> SUFFICES ASSUME NEW m \in Log!Present', NEW n \in Slots, n < m
               PROVE  n \in Log!Present'
    BY <1>1 DEF Filled
  <2>1. m # Log!Current
    BY <1>2
  <2>2. n \in Log!Present \/ IsHole(n)
    BY <1>12, <2>1 DEF Filled
  <2>3. QED
    BY <1>12, <2>2
<1>14. HoldsNewest(lost)'
  <2>1. Under' = Under
    <3>1. \A n \in Log!Names : n \in Log!Present' /\ n \notin Log!Present =>
            content'[names'[n]] = <<>>
      BY <1>6, <1>10
    <3>2. QED
      BY <1>9, <1>12, <3>1 DEF Under
  <2>2. Log!Kept' = Log!Kept
    BY <2>1, KeptSame
  <2>3. Written' = Written
    BY <1>1, <1>3 DEF Written
  <2>4. lost > 0 => \A n \in Slots : n \in Log!Present'
    BY <1>12 DEF HoldsNewest
  <2>5. QED
    BY <1>1, <2>2, <2>3, <2>4 DEF HoldsNewest, Newest
<1>15. SizesOK'
  <2> SUFFICES ASSUME mMaxFileSize < Half PROVE SizesOK'
    BY <1>1 DEF SizesOK
  <2>1. \A n \in Log!Present' \ {Log!Current} : Len(content'[names'[n]]) = mMaxFileSize
    BY <1>9, <1>12 DEF SizesOK
  <2>2. ASSUME mMaxFileSize > 0 PROVE Len(content'[names'[Log!Current]]) < mMaxFileSize
    <3>1. CASE Log!Current \in Log!Present
      BY <1>1, <1>9, <2>2, <3>1 DEF SizesOK
    <3>2. CASE Log!Current \notin Log!Present
      <4>1. Len(content'[names'[Log!Current]]) = 0
        BY <1>10, <3>2
      <4>2. QED
        BY <2>2, <4>1
    <3>3. QED
      BY <3>1, <3>2
  <2>3. PICK size : size = Len(content'[names'[Log!Current]])
    OBVIOUS
  <2>4. mMaxFileSize > 0 => size < mMaxFileSize /\ size <= mMaxFileSize
    <3>1. names'[Log!Current] \in 1 .. Len(content')
      BY <1>4, <1>7, <1>8, <1>9, <1>10
    <3>2. size \in Nat
      BY <1>8, <2>3, <3>1
    <3>3. QED
      BY <2>2, <2>3, <3>2
  <2>5. QED
    BY <1>1, <1>3, <2>1, <2>3, <2>4 DEF SizesOK
<1>16. QED
  BY <1>11, <1>13, <1>14, <1>15

\* The message is added to the log file, which no other name stands for.
LEMMA WriteKeeps ==
  ASSUME NEW most, Setting(most), Setting(most)', mMaxFileSize \in Nat,
         FilesOK, Filled, NEW lost \in Nat, HoldsNewest(lost), SizesOK, Log!Write(1)
  PROVE  FilesOK' /\ Filled' /\ HoldsNewest(lost)' /\ SizesOK'
<1>1. /\ pc[1] = "write" /\ pc' = [pc EXCEPT ![1] = "idle"]
      /\ content' = [content EXCEPT ![opened[1]] = Append(@, <<1, logged[1]>>)]
      /\ opened' = [opened EXCEPT ![1] = Log!NoFile]
      /\ UNCHANGED <<mMaxFileCount, mMaxFileSize, names, logged>>
      /\ 1 \in Loggers /\ Slots' = Slots /\ Loggers' = Loggers /\ 1 \in DOMAIN pc
  BY SlotsAre DEF Log!Write, Setting, Slots, Loggers, LogInv, LogTypes
<1>2. /\ most \in Nat /\ Log!Names = -1 .. most /\ Log!Current = -1 /\ Log!NoFile = 0
      /\ Log!Current \in Log!Names /\ Log!Present \subseteq Slots
      /\ Slots \subseteq Log!Names
  BY SlotsAre DEF Setting
<1>3. /\ pc'[1] = "idle" /\ DOMAIN opened' = Loggers
      /\ logged[1] \in Nat /\ logged[1] >= 1
  BY <1>1 DEF FilesOK
<1>4. PICK message \in Messages : message = <<1, logged[1]>>
  BY <1>3 DEF Messages
<1>5. PICK M, file :
        /\ M = Messages /\ file = names[Log!Current] /\ opened[1] = file
        /\ Log!Current \in Log!Present /\ file \in 1 .. Len(content)
  <2>1. Log!Current \in Log!Present /\ opened[1] = names[Log!Current]
    BY <1>1 DEF FilesOK
  <2>2. names[Log!Current] \in 1 .. Len(content)
    BY <2>1, UnderTyped
  <2>3. QED
    BY <2>1, <2>2
<1>6. content \in Seq(Seq(M)) /\ message \in M /\ content[file] \in Seq(M)
  BY <1>4, <1>5 DEF FilesOK
<1>7. /\ Append(content[file], message) \in Seq(M)
      /\ Len(Append(content[file], message)) = Len(content[file]) + 1
  BY <1>6, AppendProperties
<1>8. /\ content' \in Seq(Seq(M)) /\ Len(content') = Len(content)
      /\ content'[file] = Append(content[file], message)
      /\ \A i \in 1 .. Len(content) : i # file => content'[i] = content[i]
  <2>1. content' = [content EXCEPT ![file] = Append(content[file], message)]
    BY <1>1, <1>4, <1>5
  <2>2. PICK S, s : S = Seq(M) /\ s \in S /\ s = Append(content[file], message)
    BY <1>7
  <2>3. content \in Seq(S)
    BY <1>6, <2>2
  <2>4. content' = [content EXCEPT ![file] = s]
    BY <2>1, <2>2
  <2>5. /\ content' \in Seq(S) /\ Len(content') = Len(content) /\ content'[file] = s
        /\ \A i \in 1 .. Len(content) : i # file => content'[i] = content[i]
    BY <1>5, <2>2, <2>3, <2>4
  <2>6. QED
    BY <2>2, <2>5
<1>9. /\ Log!Present' = Log!Present
      /\ \A n \in Log!Present : n # Log!Current =>
           names[n] # file /\ content'[names[n]] = content[names[n]]
      /\ content'[names[Log!Current]] = Append(content[names[Log!Current]], message)
  <2>1. Log!Present' = Log!Present
    BY <1>1 DEF Log!Present
  <2>2. \A n \in Log!Present : n # Log!Current => names[n] # file
    BY <1>5 DEF FilesOK
  <2>3. QED
    BY <1>5, <1>8, <2>1, <2>2, UnderTyped
<1>10. FilesOK'
  <2>1. \A n \in Log!Names : names'[n] \in 0 .. Len(content')
    BY <1>1, <1>8 DEF FilesOK
  <2>2. \A m, n \in Log!Present' : names'[m] = names'[n] => m = n
    BY <1>1, <1>9 DEF FilesOK
  <2>3. content' \in Seq(Seq(Messages))
    BY <1>5, <1>8
  <2>4. DOMAIN logged' = Loggers' /\ DOMAIN opened' = Loggers'
    BY <1>1, <1>3 DEF FilesOK
  <2>5. QED
    BY <1>1, <1>3, <2>1, <2>2, <2>3, <2>4 DEF FilesOK
<1>11. \A n : ~ IsHole(n)
  BY <1>1 DEF IsHole
<1>12. Filled'
  BY <1>1, <1>9, <1>11 DEF Filled
<1>13. HoldsNewest(lost)'
  <2>1. PICK f, e : f = Under /\ e = Under'
    OBVIOUS
  <2>2. Pieces(f, most, M)
    BY <1>5, <2>1, UnderTyped
  <2>3. e[-1] = Append(f[-1], message) /\ \A n \in -1 .. most : n # -1 => e[n] = f[n]
    BY <1>1, <1>2, <1>5, <1>9, <2>1 DEF Under
  <2>4. Pieces(e, most, M)
    <3>1. -1 \in -1 .. most
      BY <1>2
    <3>2. Append(f[-1], message) \in Seq(M)
      BY <1>6, <2>2, <3>1, AppendProperties DEF Pieces
    <3>3. QED
      BY <2>2, <2>3, <3>2 DEF Pieces
  <2>5. PICK g : Joins(g, f, most) /\ Log!Kept = Below(g, most + 1)
    BY <1>2, <2>1, KeptIs
  <2>6. PICK h : Joins(h, e, most) /\ Log!Kept' = Below(h, most + 1)
    BY <1>2, <2>1, KeptIsThen
  <2>7. Below(h, most + 1) = Append(Below(g, most + 1), message)
    <3>1. e[-1] = Added(f[-1], message)
      BY <2>3 DEF Added
    <3>2. Below(h, most + 1) = Added(Below(g, most + 1), message)
      BY <1>2, <1>6, <2>2, <2>3, <2>4, <2>5, <2>6, <3>1, JoinsAdded
    <3>3. QED
      BY <3>2 DEF Added
  <2>8. PICK last \in Nat : /\ last = Written /\ lost <= last /\ last + 1 = logged[1]
                            /\ Written' = last + 1 /\ From(lost, last) = Log!Kept
    BY <1>1, <1>3 DEF HoldsNewest, Newest, From, Written
  <2>9. Append(From(lost, last), <<1, last + 1>>) = From(lost, last + 1)
    BY <2>8, FromAdds
  <2>10. Log!Kept' = From(lost, last + 1)
    BY <1>4, <2>5, <2>6, <2>7, <2>8, <2>9
  <2>11. lost <= last + 1
    BY <2>8
  <2>12. QED
    BY <1>1, <1>9, <1>11, <2>8, <2>10, <2>11 DEF HoldsNewest, Newest, From
<1>14. SizesOK'
  <2> SUFFICES ASSUME mMaxFileSize < Half PROVE SizesOK'
    BY <1>1 DEF SizesOK
  <2>1. \A n \in Log!Present' \ {Log!Current} : Len(content'[names'[n]]) = mMaxFileSize
    BY <1>1, <1>9 DEF SizesOK
  <2>2. PICK size \in Nat : size = Len(content[file])
    BY <1>6
  <2>3. mMaxFileSize > 0 => size < mMaxFileSize
    BY <1>1, <1>5, <2>2 DEF SizesOK
  <2>4. Len(content'[names'[Log!Current]]) = size + 1
    BY <1>1, <1>5, <1>7, <1>9, <2>2
  <2>5. mMaxFileSize > 0 => size + 1 <= mMaxFileSize
    BY <2>3
  <2>6. QED
    BY <1>1, <1>3, <2>1, <2>4, <2>5 DEF SizesOK
<1>15. QED
  BY <1>10, <1>12, <1>13, <1>14

\* Before anything is logged there is no file.
LEMMA KeepsStart ==
  ASSUME Counts \subseteq Nat, NEW most \in Counts, \A n \in Counts : n <= most,
         Sizes \subseteq Nat, LogInv, Log!Init
  PROVE  KeepsInv
<1>1. mMaxFileSize \in Nat
  BY DEF Log!Init
<1> SUFFICES ASSUME Alone
             PROVE  FilesOK /\ Filled /\ (\E lost \in Nat : HoldsNewest(lost)) /\ SizesOK
  BY <1>1 DEF KeepsInv
<1>2. Setting(most)
  BY SettingIs
<1>3. /\ most \in Nat /\ most \in Int /\ Log!Names = -1 .. most /\ Log!Current = -1
      /\ 1 \in Loggers /\ \A n \in Log!Names : names[n] = 0
      /\ Log!Present = {}
  BY <1>2, SlotsAre DEF Log!Init, Log!Present, Setting
<1>4. /\ content = <<>> /\ pc[1] = "idle" /\ logged[1] = 0
      /\ DOMAIN logged = Loggers /\ DOMAIN opened = Loggers
  BY <1>3 DEF Log!Init, Loggers
<1>5. FilesOK
  <2>1. <<>> \in Seq(Seq(Messages)) /\ Len(<<>>) = 0
    OBVIOUS
  <2>2. \A n \in Log!Names : names[n] \in 0 .. Len(content)
    BY <1>3, <1>4, <2>1
  <2>3. QED
    BY <1>3, <1>4, <2>1, <2>2 DEF FilesOK
<1>6. Filled /\ SizesOK
  BY <1>3, <1>4 DEF Filled, SizesOK
<1>7. HoldsNewest(0)
  <2>1. PICK g : Joins(g, Under, most) /\ Log!Kept = Below(g, most + 1)
    BY <1>3, KeptIs
  <2>2. PICK f, M : f = Under /\ M = Messages
    OBVIOUS
  <2>3. Pieces(f, most, M) /\ \A n \in -1 .. most : f[n] = <<>>
    BY <1>2, <1>3, <1>5, <2>2, UnderTyped
  <2>4. Below(g, most + 1) = Below(g, -1)
    <3>1. Joins(g, f, most)
      BY <2>1, <2>2
    <3>2. PICK a \in -1 .. (most + 1), b \in -1 .. (most + 1) :
            a = -1 /\ b = most + 1 /\ a <= b
      BY <1>3
    <3>3. \A n \in -1 .. most : a <= n /\ n < b => f[n] = <<>>
      BY <2>3
    <3>4. Below(g, b) = Below(g, a)
      BY <1>3, <2>3, <3>1, <3>2, <3>3, JoinsNothing
    <3>5. QED
      BY <3>2, <3>4
  <2>5. Log!Kept = <<>>
    BY <2>1, <2>4 DEF Below
  <2>6. Written = 0 /\ Newest(0) = <<>>
    BY <1>4 DEF Written, Newest
  <2>7. QED
    BY <2>5, <2>6 DEF HoldsNewest
<1>8. QED
  BY <1>5, <1>6, <1>7

LEMMA KeepsStep ==
  ASSUME Counts \subseteq Nat, NEW most \in Counts, \A n \in Counts : n <= most,
         Half \in Nat, LogInv, LogInv', KeepsInv, [Log!Next]_(Log!vars)
  PROVE  KeepsInv'
<1>1. UNCHANGED <<mMaxFileCount, mMaxFileSize, processes>>
  BY DEF Log!vars, Log!Next, Log!LogMsg, Log!Unlink, Log!Rename, Log!RenameCurrent,
         Log!Open, Log!Write
<1> SUFFICES ASSUME Alone
             PROVE  FilesOK' /\ Filled' /\ (\E lost \in Nat : HoldsNewest(lost)') /\ SizesOK'
  BY <1>1 DEF KeepsInv, Alone
<1>2. Setting(most) /\ mMaxFileSize \in Nat
  BY SettingIs DEF KeepsInv
<1>3. Setting(most)'
  BY <1>1, <1>2 DEF Setting, Alone
<1>4. PICK lost \in Nat : FilesOK /\ Filled /\ HoldsNewest(lost) /\ SizesOK
  BY DEF KeepsInv
<1>5. CASE UNCHANGED Log!vars
  <2>1. UNCHANGED <<mMaxFileCount, mMaxFileSize, names, content, pc, number, opened, logged>>
    BY <1>5 DEF Log!vars
  <2>2. Log!Present' = Log!Present /\ Slots' = Slots /\ Loggers' = Loggers /\ Hole' = Hole
        /\ Written' = Written /\ Under' = Under
    BY <2>1 DEF Log!Present, Slots, Loggers, Hole, Written, Under
  <2>3. Log!Kept' = Log!Kept
    BY <1>2, <2>2, KeptSame
  <2>4. FilesOK' /\ Filled' /\ SizesOK'
    BY <1>4, <2>1, <2>2 DEF FilesOK, Filled, SizesOK, IsHole
  <2>5. HoldsNewest(lost)'
    BY <1>4, <2>1, <2>2, <2>3 DEF HoldsNewest, Newest, IsHole
  <2>6. QED
    BY <2>4, <2>5
<1>6. CASE Log!Next
  <2>1. \/ Log!LogMsg(1) \/ Log!Unlink(1) \/ Log!Rename(1) \/ Log!RenameCurrent(1)
        \/ Log!Open(1) \/ Log!Write(1)
    BY <1>6 DEF Log!Next, Log!Procs, Alone
  <2>2. CASE Log!LogMsg(1)
    BY <1>2, <1>4, <2>2, CallKeeps
  <2>3. CASE Log!Unlink(1)
    BY <1>2, <1>3, <1>4, <2>3, UnlinkKeeps
  <2>4. CASE Log!Open(1)
    BY <1>2, <1>3, <1>4, <2>4, OpenKeeps
  <2>5. CASE Log!Write(1)
    BY <1>2, <1>3, <1>4, <2>5, WriteKeeps
  <2>6. CASE Log!Rename(1)
    <3>1. 1 \in Loggers /\ number[1] \in Int /\ mMaxFileCount \in Nat
          /\ 1 \in DOMAIN number
      BY <1>2, SlotsAre DEF Setting, LogInv, LogTypes
    <3>2. PICK n \in Int : n = number[1]
      BY <3>1
    <3>3. /\ pc[1] = "rename" /\ n >= 1 /\ n <= mMaxFileCount - 2
          /\ names' = Log!Renamed(n, n + 1) /\ number' = [number EXCEPT ![1] = n - 1]
          /\ UNCHANGED <<content, mMaxFileCount, mMaxFileSize, pc, opened, logged>>
      BY <1>2, <2>6, <3>1, <3>2 DEF Log!Rename, Setting, LogInv
    <3>4. number'[1] = n - 1
      BY <3>1, <3>3
    <3>5. Hole = n + 1 /\ Hole' = n
      BY <3>1, <3>2, <3>3, <3>4 DEF Hole
    <3>6. n \in Slots /\ n + 1 \in Slots /\ n < n + 1
          /\ \A m \in Slots : m < n + 1 => m <= n
      BY <1>2, <3>1, <3>3, SlotsAre DEF Slots
    <3>7. PICK from \in Slots, to \in Slots : from = n /\ to = n + 1
      BY <3>6
    <3>8. FilesOK' /\ Filled' /\ HoldsNewest(lost)' /\ SizesOK'
      BY <1>2, <1>3, <1>4, <3>3, <3>5, <3>6, <3>7, MoveKeeps
    <3>9. QED
      BY <3>8
  <2>7. CASE Log!RenameCurrent(1)
    <3>1. 1 \in Loggers /\ number[1] \in Int /\ mMaxFileCount \in Nat /\ mMaxFileCount >= 1
          /\ 1 \in DOMAIN pc /\ Log!Current = -1
      <4>1. mMaxFileCount \in 1 .. most /\ most \in Nat /\ Log!Current = -1
            /\ pc \in [Loggers -> LogPlaces] /\ number \in [Loggers -> Int]
        BY <1>2 DEF Setting, LogInv, LogTypes
      <4>2. QED
        BY <1>2, <4>1, SlotsAre
    <3>2. PICK n \in {0, 1} : n = IF mMaxFileCount = 1 THEN 0 ELSE 1
      OBVIOUS
    <3>3. /\ pc[1] = "rename" /\ ~ (number[1] >= 1)
          /\ names' = Log!Renamed(-1, n) /\ pc' = [pc EXCEPT ![1] = "open"]
          /\ UNCHANGED <<content, mMaxFileCount, mMaxFileSize, number, opened, logged>>
      BY <2>7, <3>1, <3>2 DEF Log!RenameCurrent
    <3>4. pc'[1] = "open"
      BY <3>1, <3>3
    <3>5. Hole = n /\ Hole' = -1
      BY <3>1, <3>2, <3>3, <3>4 DEF Hole
    <3>6. -1 \in Slots /\ n \in Slots /\ -1 < n /\ \A m \in Slots : m < n => m <= -1
      BY <3>1, <3>2 DEF Slots
    <3>7. PICK from \in Slots, to \in Slots : from = -1 /\ to = n
      BY <3>6
    <3>8. FilesOK' /\ Filled' /\ HoldsNewest(lost)' /\ SizesOK'
      BY <1>2, <1>3, <1>4, <3>1, <3>3, <3>4, <3>5, <3>6, <3>7, MoveKeeps
    <3>9. QED
      BY <3>8
  <2>8. QED
    BY <2>1, <2>2, <2>3, <2>4, <2>5, <2>6, <2>7
<1>7. QED
  BY <1>5, <1>6

LEMMA KeepsSays ==
  ASSUME Counts \subseteq Nat, NEW most \in Counts, \A n \in Counts : n <= most,
         LogInv, KeepsInv
  PROVE  KeepsNewest
<1> SUFFICES ASSUME Alone, pc[1] = "idle"
             PROVE  \E lost \in 0 .. logged[1] :
                      /\ Log!Kept = [i \in 1 .. logged[1] - lost |-> <<1, lost + i>>]
                      /\ lost > 0 =>
                           /\ Cardinality(Log!Present) >= mMaxFileCount
                           /\ mMaxFileSize < Half =>
                                \A n \in Log!Present \ {Log!Current} :
                                  Len(content[names[n]]) = mMaxFileSize
  BY OneCardinality DEF KeepsNewest, Log!KeepsNewest, Alone
<1>1. PICK lost \in Nat : FilesOK /\ HoldsNewest(lost) /\ SizesOK
  BY DEF KeepsInv
<1>2. Written = logged[1] /\ logged[1] \in Nat /\ lost \in 0 .. logged[1]
  BY <1>1 DEF Written, FilesOK, HoldsNewest
<1>3. Log!Kept = [i \in 1 .. logged[1] - lost |-> <<1, lost + i>>]
  BY <1>1, <1>2 DEF HoldsNewest, Newest
<1>4. ASSUME lost > 0 PROVE Cardinality(Log!Present) >= mMaxFileCount
  <2>1. \A n \in Slots : n \in Log!Present
    BY <1>1, <1>4 DEF HoldsNewest, IsHole
  <2>2. Log!Present \subseteq Slots
    BY SettingIs, SlotsAre
  <2>3. Log!Present = Slots
    BY <2>1, <2>2
  <2>4. mMaxFileCount \in Nat /\ mMaxFileCount # 0
    BY SettingIs DEF Setting
  <2>5. Cardinality(Slots) = SlotCount
    BY <2>4, SlotsAreFew
  <2>6. QED
    BY <2>3, <2>4, <2>5, OneCardinality DEF SlotCount
<1>5. QED
  BY <1>1, <1>2, <1>3, <1>4 DEF SizesOK

\* When one process logs, the files hold its newest messages in order and without a gap,
\* and what is lost is what was in full files, and only when all that may be kept are
\* there (CppLog.cpp:47); for any count, any size and any number of messages.
THEOREM OneProcessKeepsNewest ==
  ASSUME Counts \subseteq Nat, \E most \in Counts : \A n \in Counts : n <= most,
         ProcessCounts \subseteq Nat,
         \E most \in ProcessCounts : \A n \in ProcessCounts : n <= most,
         Sizes \subseteq Nat, Half \in Nat
  PROVE  Log!Spec => []KeepsNewest
<1>1. Log!Init => LogInv /\ KeepsInv
  BY LogStarts, KeepsStart
<1>2. LogInv /\ KeepsInv /\ [Log!Next]_(Log!vars) => LogInv' /\ KeepsInv'
  BY LogKept, KeepsStep
<1>3. LogInv /\ KeepsInv => KeepsNewest
  BY KeepsSays
<1>4. QED
  BY <1>1, <1>2, <1>3, PTL DEF Log!Spec

-----------------------------------------------------------------------------
(* Least numbers and roots.                                                *)

LEMMA LeastIs ==
  ASSUME NEW S, S \subseteq Nat, NEW some \in S
  PROVE  \E n \in S : \A m \in S : n <= m
<1> DEFINE R == OpToRel(<, Nat)
<1>1. IsWellFoundedOn(R, Nat)
  BY NatLessThanWellFounded
<1>2. PICK n \in S : \A m \in S : <<m, n>> \notin R
  <2> HIDE DEF R
  <2>1. S \subseteq Nat /\ S # {}
    OBVIOUS
  <2>2. QED
    BY <1>1, <2>1, WFMin
<1>3. \A m \in S : ~ (m < n)
  BY <1>2 DEF OpToRel
<1>4. QED
  BY <1>3

LEMMA SquaresGrow ==
  ASSUME NEW a \in Nat, NEW b \in Nat, a <= b
  PROVE  a * a <= b * b
  OBVIOUS

LEMMA SqrtIs ==
  ASSUME NEW n \in Nat
  PROVE  /\ Caches!SqrtOf(n) \in 0 .. n
         /\ \A s \in Nat : s <= Caches!SqrtOf(n) <=> s * s <= n
<1>1. PICK S : S = {s \in Nat : s * s > n}
  OBVIOUS
<1>2. n + 1 \in S
  <2>1. n + 1 \in Nat /\ (n + 1) * (n + 1) > n
    OBVIOUS
  <2>2. QED
    BY <1>1, <2>1
<1>3. PICK s \in S : \A m \in S : s <= m
  BY <1>1, <1>2, LeastIs
<1>4. s \in Nat /\ s * s > n /\ s # 0
  BY <1>1, <1>3
<1>5. PICK r \in Nat : r + 1 = s
  BY <1>4
<1>6. r * r <= n
  BY <1>1, <1>3, <1>5
<1>7. r \in 0 .. n
  <2>1. r <= r * r
    BY <1>5
  <2>2. QED
    BY <1>5, <1>6, <2>1
<1>8. PICK q : q = Caches!SqrtOf(n)
  OBVIOUS
<1>9. q \in 0 .. n /\ q * q <= n /\ (q + 1) * (q + 1) > n
  BY <1>4, <1>5, <1>6, <1>7, <1>8 DEF Caches!SqrtOf
<1>10. ASSUME NEW m \in Nat PROVE m <= q <=> m * m <= n
  <2>1. m <= q => m * m <= q * q
    BY <1>9, SquaresGrow
  <2>2. m >= q + 1 => m * m >= (q + 1) * (q + 1)
    BY <1>9, SquaresGrow
  <2>3. m * m \in Nat /\ q * q \in Nat /\ (q + 1) * (q + 1) \in Nat
    BY <1>9
  <2>4. QED
    BY <1>9, <2>1, <2>2, <2>3
<1>11. QED
  BY <1>8, <1>9, <1>10

-----------------------------------------------------------------------------
(* Divisors.                                                               *)

LEMMA QuotientIs ==
  ASSUME NEW n \in Nat, NEW d \in Nat \ {0}, n % d = 0
  PROVE  \E e \in Nat : n = d * e
<1>1. n = d * (n \div d) /\ n \div d \in Nat
  OBVIOUS
<1>2. QED
  BY <1>1

LEMMA ProductDivides ==
  ASSUME NEW d \in Nat \ {0}, NEW e \in Nat
  PROVE  (d * e) % d = 0
  OBVIOUS

LEMMA DividesOn ==
  ASSUME NEW n \in Nat, NEW d \in Nat \ {0}, NEW c \in Nat \ {0}, n % d = 0, d % c = 0
  PROVE  n % c = 0
<1>1. PICK e \in Nat : n = d * e
  BY QuotientIs
<1>2. PICK f \in Nat : d = c * f
  BY QuotientIs
<1>3. n = c * (f * e) /\ f * e \in Nat
  BY <1>1, <1>2
<1>4. QED
  BY <1>3, ProductDivides

LEMMA NotPrimeSays ==
  ASSUME NEW n \in Nat, n >= 2, ~ Caches!Prime(n)
  PROVE  \E i \in Nat : /\ i >= 2 /\ i * i <= n /\ n % i = 0
                        /\ \A p \in 2 .. (i - 1) : i % p # 0
<1>1. PICK S : S = {d \in Nat : d >= 2 /\ d < n /\ n % d = 0}
  OBVIOUS
<1>2. PICK d \in S : TRUE
  <2>1. PICK d \in 2 .. (n - 1) : n % d = 0
    BY DEF Caches!Prime
  <2>2. d \in Nat /\ d >= 2 /\ d < n
    OBVIOUS
  <2>3. d \in S
    BY <1>1, <2>1, <2>2
  <2>4. QED
    BY <2>3
<1>3. PICK i \in S : \A m \in S : i <= m
  BY <1>1, LeastIs
<1>4. i \in Nat /\ i >= 2 /\ i < n /\ n % i = 0
  BY <1>1, <1>3
<1>5. PICK e \in Nat : n = i * e
  <2>1. i \in Nat \ {0}
    BY <1>4
  <2>2. QED
    BY <1>4, <2>1, QuotientIs
<1>6. e >= 2 /\ e < n
  BY <1>4, <1>5
<1>7. n % e = 0
  <2>1. n = e * i
    BY <1>4, <1>5
  <2>2. QED
    BY <1>4, <1>6, <2>1, ProductDivides
<1>8. i <= e
  BY <1>1, <1>3, <1>6, <1>7
<1>9. i * i <= n
  BY <1>4, <1>5, <1>8
<1>10. ASSUME NEW p \in 2 .. (i - 1), i % p = 0 PROVE FALSE
  <2>1. p \in Nat \ {0} /\ i \in Nat \ {0} /\ p < i /\ p >= 2 /\ p < n
    BY <1>4
  <2>2. n % p = 0
    BY <1>4, <1>10, <2>1, DividesOn
  <2>3. p \in S
    BY <1>1, <2>1, <2>2
  <2>4. QED
    BY <1>3, <1>4, <2>1, <2>3
<1>11. QED
  BY <1>4, <1>9, <1>10

LEMMA IsPrimeIs ==
  ASSUME NEW n \in Int
  PROVE  Caches!IsPrime(n) <=> Caches!Prime(n)
<1>1. CASE n < 2
  BY <1>1 DEF Caches!IsPrime, Caches!Prime
<1>2. CASE n >= 2
  <2>1. n \in Nat
    BY <1>2
  <2>2. Caches!SqrtOf(n) \in Nat /\ \A s \in Nat : s <= Caches!SqrtOf(n) <=> s * s <= n
    BY <2>1, SqrtIs
  <2>3. ASSUME Caches!Prime(n), n # 2 PROVE Caches!IsPrime(n)
    <3>1. n % 2 # 0
      BY <1>2, <2>3 DEF Caches!Prime
    <3>2. ASSUME NEW i \in 3 .. Caches!SqrtOf(n) PROVE n % i # 0
      <4>1. i \in Nat /\ i * i <= n /\ i >= 3
        BY <2>2
      <4>2. i < n
        BY <2>1, <4>1
      <4>3. QED
        BY <2>1, <2>3, <4>1, <4>2 DEF Caches!Prime
    <3>3. QED
      BY <1>2, <3>1, <3>2 DEF Caches!IsPrime
  <2>4. ASSUME Caches!IsPrime(n), n # 2, ~ Caches!Prime(n) PROVE FALSE
    <3>1. PICK i \in Nat : i >= 2 /\ i * i <= n /\ n % i = 0
      BY <1>2, <2>1, <2>4, NotPrimeSays
    <3>2. n % 2 # 0 /\ \A j \in 3 .. Caches!SqrtOf(n) : j % 2 # 0 => n % j # 0
      BY <2>4 DEF Caches!IsPrime
    <3>3. i # 2
      BY <3>1, <3>2
    <3>4. i % 2 # 0
      <4>1. i \in Nat \ {0} /\ 2 \in Nat \ {0}
        BY <3>1
      <4>2. i % 2 = 0 => n % 2 = 0
        BY <2>1, <3>1, <4>1, DividesOn
      <4>3. QED
        BY <3>2, <4>2
    <3>5. i \in 3 .. Caches!SqrtOf(n)
      BY <2>2, <3>1, <3>3
    <3>6. QED
      BY <3>1, <3>2, <3>4, <3>5
  <2>5. CASE n = 2
    BY <2>5 DEF Caches!IsPrime, Caches!Prime
  <2>6. QED
    BY <2>3, <2>4, <2>5
<1>3. QED
  BY <1>1, <1>2

\* Trial division by the odd numbers up to the root finds the primes (CppMath.cpp:56),
\* and so does the sieve of CppMathPrimeWithInit, but where its last bit is not there
\* (CppMath.h:210); for every number.
THEOREM PrimesAreFound ==
  ASSUME NEW m \in Int, NEW n \in Nat, Bits \in Nat \ {0}
  PROVE  Caches!PrimesAreRight(m, n)
<1>1. Caches!IsPrime(m) <=> Caches!Prime(m)
  BY IsPrimeIs
<1>2. ASSUME n >= 2, n % Bits # 0
      PROVE  Caches!IsPrimeWithInit(n, FALSE, m) <=> Caches!Prime(m)
  <2>1. CASE ~ (m <= n)
    BY <1>1, <2>1 DEF Caches!IsPrimeWithInit
  <2>2. CASE m <= n
    <3>1. PICK struck : struck = {j \in 4 .. n : \E i \in 2 .. Caches!SqrtOf(n) :
                                   j >= i * i /\ j % i = 0 /\ \A p \in 2 .. (i - 1) : i % p # 0}
      OBVIOUS
    <3>2. Caches!IsPrimeWithInit(n, FALSE, m) <=> m \in 2 .. n /\ m \notin struck
      BY <1>2, <2>2, <3>1 DEF Caches!IsPrimeWithInit, Caches!Sieve
    <3>3. Caches!SqrtOf(n) \in Nat /\ \A s \in Nat : s <= Caches!SqrtOf(n) <=> s * s <= n
      BY SqrtIs
    <3>4. ASSUME m \in struck PROVE ~ Caches!Prime(m)
      <4>1. PICK i \in 2 .. Caches!SqrtOf(n) : m >= i * i /\ m % i = 0
        BY <3>1, <3>4
      <4>2. i \in Nat /\ i >= 2
        BY <3>3
      <4>3. i < m
        BY <4>1, <4>2
      <4>4. i \in 2 .. (m - 1)
        BY <4>2, <4>3
      <4>5. QED
        BY <4>1, <4>4 DEF Caches!Prime
    <3>5. ASSUME m \in 2 .. n, ~ Caches!Prime(m) PROVE m \in struck
      <4>1. m \in Nat /\ m >= 2
        BY <3>5
      <4>2. PICK i \in Nat : /\ i >= 2 /\ i * i <= m /\ m % i = 0
                             /\ \A p \in 2 .. (i - 1) : i % p # 0
        BY <3>5, <4>1, NotPrimeSays
      <4>3. i * i \in Nat /\ i * i <= n /\ i * i >= 4
        <5>1. i * i >= 2 * 2
          BY <4>2, SquaresGrow
        <5>2. QED
          BY <2>2, <4>1, <4>2, <5>1
      <4>4. i \in 2 .. Caches!SqrtOf(n)
        BY <3>3, <4>2, <4>3
      <4>5. m \in 4 .. n
        BY <2>2, <4>1, <4>2, <4>3
      <4>6. QED
        BY <3>1, <4>2, <4>4, <4>5
    <3>6. Caches!Prime(m) => m >= 2
      BY DEF Caches!Prime
    <3>7. m \in 2 .. n <=> m >= 2
      BY <2>2
    <3>8. QED
      BY <3>2, <3>4, <3>5, <3>6, <3>7
  <2>3. QED
    BY <2>1, <2>2
<1>3. QED
  <2>1. Caches!IsPrime(m) \in BOOLEAN /\ Caches!Prime(m) \in BOOLEAN
    BY DEF Caches!IsPrime, Caches!Prime
  <2>2. Caches!IsPrimeWithInit(n, FALSE, m) \in BOOLEAN
    <3>1. CASE m <= n
      BY <3>1 DEF Caches!IsPrimeWithInit
    <3>2. CASE ~ (m <= n)
      BY <2>1, <3>2 DEF Caches!IsPrimeWithInit
    <3>3. QED
      BY <3>1, <3>2
  <2>3. Caches!IsPrime(m) = Caches!Prime(m)
    BY <1>1, <2>1
  <2>4. n >= 2 /\ n % Bits # 0 => Caches!IsPrimeWithInit(n, FALSE, m) = Caches!Prime(m)
    BY <1>2, <2>1, <2>2
  <2>5. QED
    BY <2>3, <2>4 DEF Caches!PrimesAreRight

-----------------------------------------------------------------------------
(* Factorials.                                                             *)

\* The products up to n.
Products(p, n) == p = [i \in 1 .. n |-> IF i = 1 THEN 1 ELSE (p[i - 1] * i) % Word]

LEMMA ProductsExist ==
  \A n \in Nat : \E p : Products(p, n)
<1> DEFINE S == {n \in Nat : \E p : Products(p, n)}
<1>1. 0 \in S
  <2>1. Products([i \in 1 .. 0 |-> 1], 0)
    BY DEF Products
  <2>2. QED
    BY <2>1
<1>2. ASSUME NEW n \in Nat, n \in S PROVE n + 1 \in S
  <2>1. PICK p : Products(p, n)
    BY <1>2
  <2> DEFINE more == [i \in 1 .. (n + 1) |-> IF i = 1 THEN 1 ELSE (p[i - 1] * i) % Word]
  <2>2. ASSUME NEW i \in 1 .. (n + 1)
        PROVE  more[i] = IF i = 1 THEN 1 ELSE (more[i - 1] * i) % Word
    <3>1. CASE i = 1
      BY <3>1
    <3>2. CASE i # 1
      <4>1. i - 1 \in 1 .. n /\ i - 1 \in 1 .. (n + 1)
        BY <3>2
      <4>2. p[i - 1] = IF i - 1 = 1 THEN 1 ELSE (p[(i - 1) - 1] * (i - 1)) % Word
        BY <2>1, <4>1 DEF Products
      <4>3. more[i - 1] = p[i - 1]
        BY <4>1, <4>2
      <4>4. QED
        BY <3>2, <4>3
    <3>3. QED
      BY <3>1, <3>2
  <2>3. Products(more, n + 1)
    BY <2>2 DEF Products
  <2>4. QED
    BY <2>3
<1> HIDE DEF S
<1>3. \A n \in Nat : n \in S
  BY <1>1, <1>2, Induction
<1>4. QED
  BY <1>3 DEF S

LEMMA ProductsAgree ==
  ASSUME NEW n \in Nat, NEW m \in Nat, NEW p, Products(p, n), NEW q, Products(q, m),
         NEW i \in Nat, 1 <= i, i <= n, i <= m
  PROVE  p[i] = q[i]
<1> DEFINE S == {k \in Nat : 1 <= k /\ k <= n /\ k <= m => p[k] = q[k]}
<1>1. 0 \in S
  OBVIOUS
<1>2. ASSUME NEW k \in Nat, k \in S PROVE k + 1 \in S
  <2> SUFFICES ASSUME k + 1 <= n, k + 1 <= m PROVE p[k + 1] = q[k + 1]
    OBVIOUS
  <2>1. k + 1 \in 1 .. n /\ k + 1 \in 1 .. m /\ (k + 1) - 1 = k
    OBVIOUS
  <2>2. /\ p[k + 1] = IF k + 1 = 1 THEN 1 ELSE (p[k] * (k + 1)) % Word
        /\ q[k + 1] = IF k + 1 = 1 THEN 1 ELSE (q[k] * (k + 1)) % Word
    BY <2>1 DEF Products
  <2>3. k + 1 # 1 => p[k] = q[k]
    BY <1>2, <2>1
  <2>4. QED
    BY <2>2, <2>3
<1> HIDE DEF S
<1>3. \A k \in Nat : k \in S
  BY <1>1, <1>2, Induction
<1>4. QED
  BY <1>3 DEF S

LEMMA FactorialIs ==
  ASSUME NEW n \in Nat, n >= 1, NEW m \in Nat, n <= m, NEW p, Products(p, m)
  PROVE  Caches!Factorial(n) = p[n]
<1>1. PICK q : Products(q, n)
  BY ProductsExist
<1>2. PICK r : Products(r, n) /\ (n > 1 => Caches!Factorial(n) = r[n])
  <2>1. PICK r : r = CHOOSE f : f = [i \in 1 .. n |-> IF i = 1 THEN 1 ELSE (f[i - 1] * i) % Word]
    OBVIOUS
  <2>2. q = [i \in 1 .. n |-> IF i = 1 THEN 1 ELSE (q[i - 1] * i) % Word]
    BY <1>1 DEF Products
  <2>3. r = [i \in 1 .. n |-> IF i = 1 THEN 1 ELSE (r[i - 1] * i) % Word]
    BY <2>1, <2>2
  <2>4. n > 1 => Caches!Factorial(n) = r[n]
    BY <2>1 DEF Caches!Factorial
  <2>5. QED
    BY <2>3, <2>4 DEF Products
<1>3. r[n] = p[n]
  BY <1>2, ProductsAgree
<1>4. n = 1 => Caches!Factorial(n) = p[n]
  BY DEF Caches!Factorial, Products
<1>5. QED
  BY <1>2, <1>3, <1>4

LEMMA FactorialSteps ==
  /\ \A n \in Int : n <= 1 => Caches!Factorial(n) = 1
  /\ \A n \in Nat : n >= 2 => Caches!Factorial(n) = (Caches!Factorial(n - 1) * n) % Word
<1>1. ASSUME NEW n \in Nat, n >= 2 PROVE Caches!Factorial(n) = (Caches!Factorial(n - 1) * n) % Word
  <2>1. PICK p : Products(p, n)
    BY ProductsExist
  <2>2. n - 1 \in Nat /\ n - 1 >= 1 /\ n - 1 <= n
    BY <1>1
  <2>3. Caches!Factorial(n) = p[n] /\ Caches!Factorial(n - 1) = p[n - 1]
    BY <1>1, <2>1, <2>2, FactorialIs
  <2>4. p[n] = (p[n - 1] * n) % Word
    BY <1>1, <2>1 DEF Products
  <2>5. QED
    BY <2>3, <2>4
<1>2. QED
  BY <1>1 DEF Caches!Factorial

-----------------------------------------------------------------------------
(* The factorials in the cache.                                            *)

\* A cache whose entries are factorials.
RightCache(c) ==
  /\ DOMAIN c \subseteq Nat
  /\ \A k \in DOMAIN c : k >= 2 /\ c[k] = Caches!Factorial(k)

LEMMA MaxIs ==
  ASSUME NEW S, S \subseteq Nat, NEW some \in S, NEW n \in Nat, \A k \in S : k < n
  PROVE  Caches!Max(S) \in S
<1>1. PICK T : T = {m \in Nat : \E k \in S : m = n - k}
  OBVIOUS
<1>2. n - some \in T
  BY <1>1
<1>3. PICK m \in T : \A k \in T : m <= k
  BY <1>1, <1>2, LeastIs
<1>4. PICK x \in S : m = n - x
  BY <1>1, <1>3
<1>5. ASSUME NEW y \in S PROVE x >= y
  <2>1. n - y \in T
    BY <1>1
  <2>2. n - x <= n - y /\ x \in Nat /\ y \in Nat
    BY <1>3, <1>4, <2>1
  <2>3. QED
    BY <2>2
<1>6. QED
  BY <1>5 DEF Caches!Max

LEMMA LastBeforeIs ==
  ASSUME NEW c, RightCache(c), NEW n \in Nat, n >= 2
  PROVE  /\ Caches!LastBefore(c, n).i \in Nat
         /\ 2 <= Caches!LastBefore(c, n).i /\ Caches!LastBefore(c, n).i <= n
         /\ Caches!LastBefore(c, n).result = Caches!Factorial(Caches!LastBefore(c, n).i - 1)
<1>1. PICK lower : lower = {k \in DOMAIN c : k < n}
  OBVIOUS
<1>2. PICK upper : upper = {k \in DOMAIN c : k >= n}
  OBVIOUS
<1>3. Caches!LastBefore(c, n) = IF lower = {} \/ upper = {} THEN [i |-> 2, result |-> 1]
                         ELSE [i |-> Caches!Max(lower) + 1, result |-> c[Caches!Max(lower)]]
  BY <1>1, <1>2 DEF Caches!LastBefore
<1>4. CASE lower = {} \/ upper = {}
  <2>1. Caches!LastBefore(c, n).i = 2 /\ Caches!LastBefore(c, n).result = 1
    BY <1>3, <1>4
  <2>2. Caches!Factorial(1) = 1
    BY FactorialSteps
  <2>3. QED
    BY <2>1, <2>2
<1>5. CASE ~ (lower = {} \/ upper = {})
  <2>1. PICK some : some \in lower
    BY <1>5
  <2>2. lower \subseteq Nat /\ \A k \in lower : k < n
    BY <1>1 DEF RightCache
  <2>3. PICK x : x = Caches!Max(lower) /\ x \in lower
    BY <2>1, <2>2, MaxIs
  <2>4. x \in Nat /\ 2 <= x /\ x < n /\ c[x] = Caches!Factorial(x)
    BY <1>1, <2>3 DEF RightCache
  <2>5. Caches!LastBefore(c, n).i = x + 1 /\ Caches!LastBefore(c, n).result = c[x]
    BY <1>3, <1>5, <2>3
  <2>6. QED
    BY <2>4, <2>5
<1>6. QED
  BY <1>4, <1>5

LEMMA CachedIs ==
  ASSUME NEW c, RightCache(c), NEW i \in Nat, i >= 2, NEW size
  PROVE  RightCache(Caches!Cached(c, i, Caches!Factorial(i), size))
<1>1. PICK d : d = [k \in DOMAIN c \union {i} |-> IF k = i THEN Caches!Factorial(i) ELSE c[k]]
  OBVIOUS
<1>2. RightCache(d)
  BY <1>1 DEF RightCache
<1>3. QED
  BY <1>1, <1>2 DEF Caches!Cached

\* The rounds of the loop from the product f of the numbers below b, up to n.
Rounds(a, c, b, f, n, size) ==
  a = [i \in (b - 1) .. n |-> IF i = b - 1 THEN [result |-> f, cache |-> c]
                                           ELSE Caches!Multiply(a[i - 1], i, size)]

LEMMA RoundsExist ==
  ASSUME NEW c, NEW b \in Nat, b >= 2, NEW f, NEW size
  PROVE  \A n \in Nat : \E a : Rounds(a, c, b, f, n, size)
<1> DEFINE S == {n \in Nat : \E a : Rounds(a, c, b, f, n, size)}
<1>1. 0 \in S
  <2> DEFINE none == [i \in (b - 1) .. 0 |-> 1]
  <2>1. (b - 1) .. 0 = {}
    OBVIOUS
  <2>2. Rounds(none, c, b, f, 0, size)
    BY <2>1 DEF Rounds
  <2>3. QED
    BY <2>2
<1>2. ASSUME NEW n \in Nat, n \in S PROVE n + 1 \in S
  <2>1. PICK a : Rounds(a, c, b, f, n, size)
    BY <1>2
  <2> DEFINE first == [result |-> f, cache |-> c]
             more == [i \in (b - 1) .. (n + 1) |->
                       IF i = b - 1 THEN first ELSE Caches!Multiply(a[i - 1], i, size)]
  <2>2. ASSUME NEW i \in (b - 1) .. (n + 1)
        PROVE  more[i] = IF i = b - 1 THEN first ELSE Caches!Multiply(more[i - 1], i, size)
    <3>1. CASE i = b - 1
      BY <3>1
    <3>2. CASE i # b - 1
      <4>1. i - 1 \in (b - 1) .. n /\ i - 1 \in (b - 1) .. (n + 1)
        BY <3>2
      <4>2. a[i - 1] = IF i - 1 = b - 1 THEN first ELSE Caches!Multiply(a[(i - 1) - 1], i - 1, size)
        BY <2>1, <4>1 DEF Rounds
      <4>3. more[i - 1] = a[i - 1]
        BY <4>1, <4>2
      <4>4. QED
        BY <3>2, <4>3
    <3>3. QED
      BY <3>1, <3>2
  <2>3. Rounds(more, c, b, f, n + 1, size)
    BY <2>2 DEF Rounds
  <2>4. QED
    BY <2>3
<1> HIDE DEF S
<1>3. \A n \in Nat : n \in S
  BY <1>1, <1>2, Induction
<1>4. QED
  BY <1>3 DEF S

LEMMA RoundsAre ==
  ASSUME NEW c, RightCache(c), NEW b \in Nat, b >= 2, NEW n \in Nat, NEW size,
         NEW a, Rounds(a, c, b, Caches!Factorial(b - 1), n, size)
  PROVE  \A i \in Nat : b - 1 <= i /\ i <= n => /\ a[i].result = Caches!Factorial(i)
                                                /\ RightCache(a[i].cache)
<1> DEFINE S == {i \in Nat : b - 1 <= i /\ i <= n => /\ a[i].result = Caches!Factorial(i)
                                                     /\ RightCache(a[i].cache)}
<1>1. 0 \in S
  OBVIOUS
<1>2. ASSUME NEW i \in Nat, i \in S PROVE i + 1 \in S
  <2> SUFFICES ASSUME b - 1 <= i + 1, i + 1 <= n
               PROVE  a[i + 1].result = Caches!Factorial(i + 1) /\ RightCache(a[i + 1].cache)
    OBVIOUS
  <2>1. i + 1 \in (b - 1) .. n /\ (i + 1) - 1 = i
    OBVIOUS
  <2>2. a[i + 1] = IF i + 1 = b - 1 THEN [result |-> Caches!Factorial(b - 1), cache |-> c]
                                    ELSE Caches!Multiply(a[i], i + 1, size)
    BY <2>1 DEF Rounds
  <2>3. CASE i + 1 = b - 1
    BY <2>2, <2>3
  <2>4. CASE i + 1 # b - 1
    <3>1. a[i].result = Caches!Factorial(i) /\ RightCache(a[i].cache)
      BY <1>2, <2>1, <2>4
    <3>2. i + 1 \in Nat /\ i + 1 >= 2
      BY <2>4
    <3>3. Caches!Factorial(i + 1) = (Caches!Factorial(i) * (i + 1)) % Word
      BY <2>1, <3>2, FactorialSteps
    <3>4. a[i + 1] =
            [result |-> (a[i].result * (i + 1)) % Word,
             cache |-> Caches!Cached(a[i].cache, i + 1, (a[i].result * (i + 1)) % Word, size)]
      BY <2>2, <2>4 DEF Caches!Multiply
    <3>5. /\ a[i + 1].result = Caches!Factorial(i + 1)
          /\ a[i + 1].cache = Caches!Cached(a[i].cache, i + 1, Caches!Factorial(i + 1), size)
      BY <3>1, <3>3, <3>4
    <3>6. QED
      BY <3>1, <3>2, <3>5, CachedIs
  <2>5. QED
    BY <2>3, <2>4
<1> HIDE DEF S
<1>3. \A i \in Nat : i \in S
  BY <1>1, <1>2, Induction
<1>4. QED
  BY <1>3 DEF S

LEMMA MultipliedIs ==
  ASSUME NEW c, RightCache(c), NEW n \in Nat, n >= 2, NEW size
  PROVE  /\ Caches!Multiplied(c, n, size).result = Caches!Factorial(n)
         /\ RightCache(Caches!Multiplied(c, n, size).cache)
<1>1. PICK from : from = Caches!LastBefore(c, n)
  OBVIOUS
<1>2. from.i \in Nat /\ 2 <= from.i /\ from.i <= n /\ from.result = Caches!Factorial(from.i - 1)
  BY <1>1, LastBeforeIs
<1>3. PICK a : a = CHOOSE f : f = [i \in (from.i - 1) .. n |->
                     IF i = from.i - 1 THEN [result |-> from.result, cache |-> c]
                                       ELSE Caches!Multiply(f[i - 1], i, size)]
  OBVIOUS
<1>4. Caches!Multiplied(c, n, size) = a[n]
  BY <1>1, <1>3 DEF Caches!Multiplied
<1>5. Rounds(a, c, from.i, from.result, n, size)
  <2>1. PICK q : Rounds(q, c, from.i, from.result, n, size)
    BY <1>2, RoundsExist
  <2>2. q = [i \in (from.i - 1) .. n |->
               IF i = from.i - 1 THEN [result |-> from.result, cache |-> c]
                                 ELSE Caches!Multiply(q[i - 1], i, size)]
    BY <2>1 DEF Rounds
  <2>3. a = [i \in (from.i - 1) .. n |->
               IF i = from.i - 1 THEN [result |-> from.result, cache |-> c]
                                 ELSE Caches!Multiply(a[i - 1], i, size)]
    BY <1>3, <2>2
  <2>4. QED
    BY <2>3 DEF Rounds
<1>6. Rounds(a, c, from.i, Caches!Factorial(from.i - 1), n, size)
  BY <1>2, <1>5
<1>7. a[n].result = Caches!Factorial(n) /\ RightCache(a[n].cache)
  BY <1>2, <1>6, RoundsAre
<1>8. QED
  BY <1>4, <1>7

LEMMA TrimmedIs ==
  ASSUME NEW c, RightCache(c), NEW size
  PROVE  RightCache(Caches!Trimmed(c, size))
<1>1. PICK K : K = {k \in DOMAIN c :
                     Caches!Cardinality({j \in DOMAIN c : j <= k}) <= size}
  OBVIOUS
<1>2. Caches!Trimmed(c, size) = [k \in K |-> c[k]]
  BY <1>1 DEF Caches!Trimmed, Caches!Restrict
<1>3. QED
  BY <1>1, <1>2 DEF RightCache

-----------------------------------------------------------------------------
(* The steps.                                                              *)

CacheInv ==
  /\ RightCache(factorialCache)
  /\ PrimeSet \subseteq Nat
  /\ \A p \in PrimeSet : Caches!Prime(p)
  /\ returned.call = "Factorial" => returned.value = Caches!Factorial(returned.num)
  /\ returned.call = "IsPrime" => returned.value = Caches!Prime(returned.num)

LEMMA FactorialKeeps ==
  ASSUME CacheInv, NEW n \in Nat, NEW size, Caches!FactorialWithCache(n, size)
  PROVE  CacheInv'
<1>1. RightCache(factorialCache)
  BY DEF CacheInv
<1>2. UNCHANGED PrimeSet
  BY DEF Caches!FactorialWithCache
<1>3. returned' = [call |-> "Factorial", num |-> n, value |-> returned'.value]
  BY DEF Caches!FactorialWithCache
<1>4. CASE n <= 1
  <2>1. returned'.value = 1 /\ factorialCache' = factorialCache
    BY <1>4 DEF Caches!FactorialWithCache
  <2>2. returned'.value = Caches!Factorial(n)
    BY <1>4, <2>1, FactorialSteps
  <2>3. QED
    BY <1>1, <1>2, <1>3, <2>1, <2>2 DEF CacheInv
<1>5. CASE n > 1 /\ n \in DOMAIN factorialCache
  <2>1. returned'.value = factorialCache[n] /\ factorialCache' = factorialCache
    BY <1>5 DEF Caches!FactorialWithCache
  <2>2. returned'.value = Caches!Factorial(n)
    BY <1>1, <1>5, <2>1 DEF RightCache
  <2>3. QED
    BY <1>1, <1>2, <1>3, <2>1, <2>2 DEF CacheInv
<1>6. CASE n > 1 /\ n \notin DOMAIN factorialCache
  <2>1. PICK end : end = Caches!Multiplied(factorialCache, n, size)
    OBVIOUS
  <2>2. end.result = Caches!Factorial(n) /\ RightCache(end.cache)
    BY <1>1, <1>6, <2>1, MultipliedIs
  <2>3. returned'.value = end.result /\ factorialCache' = Caches!Trimmed(end.cache, size)
    BY <1>6, <2>1 DEF Caches!FactorialWithCache
  <2>4. RightCache(factorialCache')
    BY <2>2, <2>3, TrimmedIs
  <2>5. QED
    BY <1>2, <1>3, <2>2, <2>3, <2>4 DEF CacheInv, RightCache
<1>7. QED
  BY <1>4, <1>5, <1>6

LEMMA DividedIsNotPrime ==
  ASSUME NEW num \in Nat, NEW p \in Nat, num > 0, p >= 2, p # num, num % p = 0
  PROVE  ~ Caches!Prime(num)
<1>1. p < num
  <2>1. p > num => num % p = num
    OBVIOUS
  <2>2. QED
    BY <2>1
<1>2. QED
  BY <1>1 DEF Caches!Prime

LEMMA IsPrimeKeeps ==
  ASSUME CacheInv, NEW num \in Nat, Caches!IsPrimeWithCache(num)
  PROVE  CacheInv'
<1>1. PICK prime \in BOOLEAN :
        /\ CASE ~ (num > 2 /\ num % 2 # 0) -> prime = (num = 2)
             [] (num > 2 /\ num % 2 # 0) /\ num \in PrimeSet -> prime
             [] (num > 2 /\ num % 2 # 0) /\ num \notin PrimeSet
                  /\ (\E p \in PrimeSet : num % p = 0)
                  -> ~ prime \/ ({p \in PrimeSet : p > num} # {} /\ prime = Caches!IsPrime(num))
             [] OTHER -> prime = Caches!IsPrime(num)
        /\ PrimeSet' = IF (num > 2 /\ num % 2 # 0) /\ prime THEN PrimeSet \union {num} ELSE PrimeSet
        /\ returned' = [call |-> "IsPrime", num |-> num, value |-> prime]
        /\ factorialCache' = factorialCache
  BY DEF Caches!IsPrimeWithCache
<1>2. Caches!IsPrime(num) <=> Caches!Prime(num)
  BY IsPrimeIs
<1>3. prime <=> Caches!Prime(num)
  <2>1. CASE ~ (num > 2 /\ num % 2 # 0)
    <3>1. prime <=> num = 2
      BY <1>1, <2>1
    <3>2. Caches!Prime(num) <=> num = 2
      <4>1. num > 2 /\ num % 2 = 0 => ~ Caches!Prime(num)
        BY DividedIsNotPrime
      <4>2. num = 2 => Caches!Prime(num)
        BY DEF Caches!Prime
      <4>3. num < 2 => ~ Caches!Prime(num)
        BY DEF Caches!Prime
      <4>4. QED
        BY <2>1, <4>1, <4>2, <4>3
    <3>3. QED
      BY <3>1, <3>2
  <2>2. CASE (num > 2 /\ num % 2 # 0) /\ num \in PrimeSet
    <3>1. prime
      BY <1>1, <2>2
    <3>2. Caches!Prime(num)
      BY <2>2 DEF CacheInv
    <3>3. QED
      BY <3>1, <3>2
  <2>3. CASE /\ num > 2 /\ num % 2 # 0
             /\ num \notin PrimeSet
             /\ \E p \in PrimeSet : num % p = 0
    <3>1. ~ prime \/ prime = Caches!IsPrime(num)
      BY <1>1, <2>3
    <3>2. PICK p \in PrimeSet : num % p = 0
      BY <2>3
    <3>3. p \in Nat /\ p >= 2 /\ p # num
      BY <2>3 DEF CacheInv, Caches!Prime
    <3>4. ~ Caches!Prime(num)
      BY <2>3, <3>2, <3>3, DividedIsNotPrime
    <3>5. QED
      BY <1>2, <3>1, <3>4
  <2>4. CASE /\ num > 2 /\ num % 2 # 0
             /\ num \notin PrimeSet
             /\ ~ \E p \in PrimeSet : num % p = 0
    <3>1. prime = Caches!IsPrime(num)
      BY <1>1, <2>4
    <3>2. QED
      BY <1>2, <3>1
  <2>5. QED
    BY <2>1, <2>2, <2>3, <2>4
<1>4. PrimeSet' \subseteq Nat /\ \A p \in PrimeSet' : Caches!Prime(p)
  BY <1>1, <1>3 DEF CacheInv
<1>5. returned' = [call |-> "IsPrime", num |-> num, value |-> Caches!Prime(num)]
  <2>1. Caches!Prime(num) \in BOOLEAN
    BY DEF Caches!Prime
  <2>2. prime = Caches!Prime(num)
    BY <1>3, <2>1
  <2>3. QED
    BY <1>1, <2>2
<1>6. RightCache(factorialCache')
  BY <1>1 DEF CacheInv
<1>7. QED
  BY <1>4, <1>5, <1>6 DEF CacheInv, RightCache

\* What the functions with a cache return is what the functions without one do,
\* and what they keep is right, whatever was called before with whatever sizes of
\* the cache (FactorialWithCache, CppMath.cpp:206, and IsPrime of
\* CppMathPrimeWithCache, CppMath.h:306); for any word, arguments and sizes.
THEOREM CachesStayRight ==
  ASSUME MaxArgument \in Nat
  PROVE  Caches!Spec => []CachesAreRight
<1>1. Caches!Init => CacheInv
  <2> SUFFICES ASSUME Caches!Init PROVE CacheInv
    OBVIOUS
  <2>1. RightCache(factorialCache)
    BY DEF Caches!Init, RightCache
  <2>2. returned.call = "none"
    BY DEF Caches!Init
  <2>3. QED
    BY <2>1, <2>2 DEF Caches!Init, CacheInv
<1>2. CacheInv /\ [Caches!Next]_(Caches!mathVars) => CacheInv'
  <2> SUFFICES ASSUME CacheInv, [Caches!Next]_(Caches!mathVars) PROVE CacheInv'
    OBVIOUS
  <2>1. ASSUME NEW n \in 0 .. MaxArgument, NEW cacheSize \in CacheSizes,
               Caches!FactorialWithCache(n, cacheSize)
        PROVE  CacheInv'
    <3>1. n \in Nat
      OBVIOUS
    <3>2. QED
      BY <2>1, <3>1, FactorialKeeps
  <2>2. ASSUME NEW n \in 0 .. MaxArgument, Caches!IsPrimeWithCache(n)
        PROVE  CacheInv'
    <3>1. n \in Nat
      OBVIOUS
    <3>2. QED
      BY <2>2, <3>1, IsPrimeKeeps
  <2>3. CASE UNCHANGED Caches!mathVars
    BY <2>3 DEF Caches!mathVars, CacheInv, RightCache
  <2>4. QED
    BY <2>1, <2>2, <2>3 DEF Caches!Next
<1>3. CacheInv => CachesAreRight
  BY DEF CacheInv, RightCache, CachesAreRight, Caches!CachesAreRight
<1>4. QED
  BY <1>1, <1>2, <1>3, PTL DEF Caches!Spec
=============================================================================
