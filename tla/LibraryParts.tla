---------------------------- MODULE LibraryParts ----------------------------
(***************************************************************************)
(* The parts of the library that have a state and call nothing of one      *)
(* another, each an instance with variables of its own, and what is to     *)
(* hold of them: the load client of CppNet.h, LogMsg, the requests of      *)
(* CppCurl, GetChildrenValue, the caches of factorials and primes and,     *)
(* extended since its assumption is to be evaluated, the owners of         *)
(* descriptors.                                                            *)
(***************************************************************************)
EXTENDS UniqueFd

CONSTANTS
  ThreadIds, Times, MaxAnswers, mRunSecond,               \* LoadClient
  Counts, Sizes, ProcessCounts, Half, MaxMessages,        \* CppLog
  Callers, NoCall,                                        \* CppCurl
  Children, Data, Absent, Null, max_value_size, MaxChanges, \* ZkReads
  Word, Bits, MaxArgument, CacheSizes                     \* MathCaches

VARIABLES
  mClientThreadCount, stat, client, loaded, usedTimeUs, connected, sent, run, second,
  gClientStop, answers,
  mMaxFileCount, mMaxFileSize, processes, names, content, pc, number, opened, logged,
  have_init, global, sslLocks, request, call, handle, post, jar, cookies, stale,
  abs_path, tree, reading, children, children_value, ret, listed, had, changes,
  factorialCache, PrimeSet, returned

Client == INSTANCE LoadClient WITH at <- client
Log == INSTANCE CppLog
Curl == INSTANCE CppCurl WITH at <- request
Reads == INSTANCE ZkReads WITH at <- reading
Caches == INSTANCE MathCaches

clientVars == <<mClientThreadCount, stat, client, loaded, usedTimeUs, connected, sent,
                run, second, gClientStop, answers>>
logVars == <<mMaxFileCount, mMaxFileSize, processes, names, content, pc, number,
             opened, logged>>
curlVars == <<have_init, global, sslLocks, request, call, handle, post, jar, cookies,
              stale>>
readVars == <<abs_path, tree, reading, children, children_value, ret, listed, had, changes>>
cacheVars == <<factorialCache, PrimeSet, returned>>

-----------------------------------------------------------------------------
(* The properties of the parts.                                            *)

\* The statistics of the load client, which its threads update without a lock
\* (CppNet.cpp:266): exact with one thread...
ExactWithOneThread == Client!ExactWithOneThread

\* ... and never made up with more, though updates are lost.
NothingInvented == Client!NothingInvented

\* The two together.
StatisticsAreMeasured == ExactWithOneThread /\ NothingInvented

\* LogMsg keeps no more files than it is told (CppLog.cpp:37), unless that is one,
\* whoever else rotates...
FilesBounded == Log!FilesBounded

\* ... and one process loses nothing to the rotation (CppLog.cpp:47) but the oldest file.
KeepsNewest == Log!KeepsNewest

\* A request of CppCurl gives back its handle and its form, whichever step fails
\* (CppCurl.cpp:510).
HandlesGivenBack == Curl!HandlesGivenBack

\* A cookie is lost from the cookie file only to a request that overlapped.
CookiesKept == Curl!CookiesKept

\* GetChildrenValue, over several calls, shows values that the children had
\* (CppZookeeper.cpp:1271).
ChildrenValueIsTrue == Reads!ChildrenValueIsTrue

\* After any calls with any sizes of the cache a cached factorial or prime is right
\* (CppMath.cpp:209 and 293), and so is what is returned.
CachesAreRight == Caches!CachesAreRight
=============================================================================
