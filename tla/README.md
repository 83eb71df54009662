# A verification project for MoonLib

MoonLib (`src/src`, tests in `src/gtest`) is a C++ library of parts that mostly do not call
one another. Some keep state that several threads, a remote server, other processes or a long
sequence of calls can bring out of step: the thread pool, the bounded queue, the ZooKeeper
manager, the epoll manager and the servers built on it, the log files, the HTTP client. The
others are functions on numbers, strings and streams with edges of their own. This directory
models them in TLA+, checks the models with TLC and proves theorems about the thread pool, the
queue, the ZooKeeper manager's ephemeral nodes, watchers, connection and reads, the epoll
servers, the load client, the log files, the HTTP client, the caches of factorials and primes
and the owners of descriptors with TLAPS.

Run a check with `tlc -config <run>.cfg <module>.tla` (the module is the run's in
`PROJECT.json`), the proofs of a module with `tlapm <module>Proofs.tla`; there are
`CppThreadPoolProofs`, `CppLRUProofs`, `ZkEphemeralProofs`, `ZkRegistryProofs`,
`ZkWatcherProofs`, `ZkConnectProofs`, `EchoServerProofs` and `LibraryProofs`. `PROJECT.json`
maps every definition to the lines it models, and lists the runs, the mutants the properties are tried on, the findings, the
hazards and the theorems.

## The system: inventory

| Part | State | Operations | What is hard | What makes it correct |
|---|---|---|---|---|
| `CppThread` | list of (function, context), `m_stop`, the threads; per context `m_is_finish`, `m_is_abort` | `Run`, `RunOnContext`, `Stop`, `RunTask`, `Wait`, `Finish` | notifications after the unlock; flags read without the lock; several tasks on one context; stop against run | no lost wakeup, no lost or repeated task, a context's verdict is earned, `Wait` and `Stop` return |
| `CppLRU` | a set and a list of the same elements | `Push`, `Pop`, `Del`, `Clear`, `Exist`, `Empty` | the two drift apart over a long sequence of calls | set and list agree, bounded FIFO queue without repetitions |
| `CppZookeeper`, ephemeral nodes | `m_ephemeral_node_info`, `m_need_resume_env`, client id; the server's nodes | `Create`, `Set`, `SetAcl`, `Delete`, `Multi`, `CreatePathRecursion`, `DeletePathRecursion`, their `A...` forms and callbacks, `ReconnectResumeEnv` | two threads, answers lost, sessions that expire, restarts, batches | the registry is what the server has; a lost session's nodes come back, deleted ones do not |
| `CppZookeeper`, watchers | `m_global_watcher_path_type`, `m_custom_watcher_contexts`, `m_is_stop` per context | `AExists`, `AGet`, `AGetChildren` and the synchronous forms with a watcher, `DeleteWatcher`, `InnerWatcher` | a watch fires before it is registered; one context shared by all global watches | a registered watcher stays armed until it stops, also over sessions |
| `CppZookeeper`, connection | the handle, `m_zk_tid`, client id, `m_connect_cond`, `m_need_resume_env` | `Connect`, `Reconnect`, session events | a condition variable notified without its lock; two threads in `Reconnect`; events before the handle is assigned | no handle is lost, an expired session is replaced and resumed, `Connect` returns |
| `CppZookeeper`, reads | none | `GetChildrenValue`, `GetCString`, `ChangeToAbsPath`, `GetAcl` | other clients between the calls | what is shown was there |
| `CppNet`, epoll | `mFds` and the kernel's set; the servers' lists and descriptors | `AddOrModFd`, `DelFd`, `Wait`, `ProcRead`, `ProcWrite`; `AddClientFd`, the accept loop | numbers given out again between two steps | the set is the kernel's, an event is of a live connection, answers reach who asked |
| `CppNet`, load client | totals, extremes and counts of all threads | `ProcWrite`, `ProcRead`, `Run` | no lock | exact with one thread, nothing made up with several |
| `CppNet`, `UniqueFd` | one descriptor | moves, `Reset`, `Release`, `Swap`, `close` | moves to itself, numbers given out again | one owner |
| `CppLog`, `CppFile` | the log files | `LogMsg` and its rotation; `CopyFile` | several processes; a 32-bit size | bounded number of files, nothing lost but the oldest |
| `CppCurl` | the once-only flag, OpenSSL's locks; per request a handle, a form, files | `Init`, the requests | a second caller of `Init`; a step that fails; requests that share a cookie file | handles and forms given back, cookies kept |
| `CppMath` | two caches | `FactorialWithCache`, `IsPrime`, `Combination`, factors | eviction, wrap-around | the values |
| `CppFraction`, `CppBigNum` | none | arithmetic | signs, carries, zero | the integers' and fractions' arithmetic |
| `CppString`, `CppRegex` | none | replace, split, trim, search | overlaps, empty strings | the definitions |
| `CppCompress`, `CppCrypto`, `CppSystem` | none | loops over a buffer | a stream that fills the last one | the whole stream |
| `CppMysql`, `CppEnumType` | none | tables of strings | missing and repeated names | what was put in |
| `CppTime`, `CppEnv`, `CppJson`, `CppTinyxml`, `CppChartDir` | none | wrappers | | |

How they interact: `CppCurl` and `CppZookeeper` log through `CppLog`; `CppZookeeper` is called
back by the C client's completion thread; the servers and the load client run on
`CppEpollManager` and own descriptors by `UniqueFd`; `CppFraction` uses `CppMath::GCD`.
Nothing else is shared.

## Modules

| Module | Models | Used by |
|---|---|---|
| `CppThreadPool` | `CppThread.h`, `CppThread.cpp` | |
| `TaskPool` | what a thread pool promises its callers, without threads | `CppThreadPool` refines it |
| `CppThreadPoolProofs` | the theorems on the pool | |
| `CppLRU` | `CppLRU.h` | `MCLibrary` |
| `BoundedFifo` | a bounded queue without repetitions | `CppLRU` refines it |
| `CppLRUProofs` | the theorems on the queue | |
| `ZkEphemeral` | the ephemeral nodes of `CppZookeeper.cpp`, the C client and the server | |
| `ZkEphemeralProofs` | the theorems on the ephemeral nodes, one at a time | |
| `ZkRegistryProofs` | the theorem that the registry is the server's | |
| `ZkWatcher` | the watchers of `CppZookeeper.cpp`, the tables and the event queue of the C client | |
| `ZkWatcherProofs` | the theorems on the watchers | |
| `ZkConnect` | `Connect`, `Reconnect` and the session events of `CppZookeeper.cpp`, the handles of the C client | |
| `ZkConnectProofs` | the theorems on the connection | |
| `ZkReads` | `GetChildrenValue`, `GetCString`, `ChangeToAbsPath` of `CppZookeeper.cpp` | `LibraryParts` |
| `CppEpoll` | `CppEpollManager` of `CppNet.cpp`, the kernel's descriptors and epoll instances | `EchoServer` extends it |
| `EchoServer` | the two servers of `gtest/src/CppNetTest.cpp` and their peers | |
| `EchoServerProofs` | the theorems on the servers and the epoll manager | |
| `LoadClient` | `MultiThreadClientBase` of `CppNet.cpp` | `LibraryParts` |
| `UniqueFd` | `UniqueFd` of `CppNet.h` | `LibraryParts` |
| `CppLog` | `LogMsg` of `CppLog.cpp`, the functions of `CppFile.cpp` that it calls | `LibraryParts` |
| `CppCurl` | `Init` and the requests of `CppCurl.cpp` | `LibraryParts` |
| `MathCaches` | the primes and factorials of `CppMath.cpp` and `CppMath.h`, with and without a cache | `CppMath` extends it; `LibraryParts` |
| `CppMath`, `CppFraction`, `CppBigNum` | the files of these names | `CppFraction` extends `CppMath`; `MCLibrary` |
| `CppString`, `CppRegex` | the files of these names | `MCLibrary` |
| `BufferLoops` | `CppCompress.cpp` and the reading loops of `CppFile.cpp`, `CppCrypto.cpp`, `CppSystem.cpp` | `MCLibrary` |
| `CppTables` | `CppMysql.cpp`, `CppEnumType.h`, `CppEnumType.cpp` | `MCLibrary` |
| `LibraryParts` | the six parts above that have a state, as instances with variables of their own, and their properties | `MCLibrary`, `LibraryProofs` |
| `LibraryProofs` | the theorems on these parts | |
| `MCLibrary` | the parts that call no other, side by side: a behaviour is of one part | |
| `MCCppThreadPool`, `MCCppLRU`, `MCZkEphemeral`, `MCZkWatcher`, `MCZkConnect`, `MCEchoServer` | instances for TLC | |

In every module a definition `X_Faulty` is a plausible bug in `X`, which follows it. It is
no part of the specification; each property is tried on the specification with one `X`
replaced by its `X_Faulty`, to see that the property can fail. `PROJECT.json` lists one of them
for each property; the others are further ways to break a property that has several parts
(`KeepsNewest`, `NumbersAreRight`, `TextsAgree`), and
TLC finds each of them too.

### CppThreadPool

A step is one critical section, one read of a flag outside a lock, or one notification.
A worker's `worker[w]` is its place in `RunTask`: `outer` and `inner` are the two
`while (!m_stop)`, `enter`/`asleep`/`woken` the wait on the pool's condition variable,
`take` the critical section that pops, `ready`/`skip`/`run` the check of the context and the
call, `finish`/`notify` the two halves of `Finish`, and `terminate`/`terminateNotify` the
loop after the loops. A client's `client[c]` is its place in `Run`, `Wait` or `Stop`.
A condition variable is the set of threads asleep on it; `notify_one` wakes one, and a
wakeup may be spurious. `m_fun_list_mutex` is free except while the last loop of `RunTask`
keeps it (`list_owner`): all other critical sections are one step. `home` and `fate` are
history: on which context a task was queued and what has become of it.

Assumed of the users: one client owns the pool and is the only one to call `Stop` (two
concurrent `Stop` would join one `std::thread` twice, which is undefined), functions
return or throw, and a task is submitted once. `RunOnContext` takes any context
that `Run` has returned, as in the tests.

Refinement: `Abstract` maps the pool to `TaskPool`. A task taken from the list and not yet
called is still "queued"; the two flags of a context are its verdict. `TaskPool` says that
a task is called at most once, is skipped if its context was judged before, and that a
verdict is always earned by a task on that context.

### CppLRU

One step per operation. The eviction loop is written without recursion: it stops after the
least number of pops that brings the set within the capacity; if no number does, it runs off
the list and `undefined` is set. `Pop(p_Value)` swaps the caller's value into the front node
first, as the code does, so the value erased from the set is the caller's (`PopArgs`).

The queue is not what its comment says. `CppLRU.h:10` promises LRU eviction
("提供LRU淘汰"), but `Push` of a value that is in the queue
leaves it in its place (`CppLRU.h:147`) and `Exist` moves nothing: the oldest goes first, however often it was used.
`IsBoundedFifo` is about what the code does, and `lru_order.cfg` has the trace in
which a value pushed again is not the newest (`PushMakesNewest`).

### ZkEphemeral

The user thread makes a call (`Send`), the server executes it (`Serve`), and the user thread
does the bookkeeping (`...Return`); the completion thread runs the callbacks
(`Inner...Completion`) and `InnerWatcher` in the order of the answers. Between any two of
these the connection may break (`Disconnect`: any prefix of the requests has been executed,
no answer arrives), the session may expire (`Expire`), the process may be restarted with the
old client id (`Restart`), or another client may remove or create the parent
(`ChangeParent`). `Reconnect` is the loop on the expired event; `ConnectedEvent` starts
`ReconnectResumeEnv`, whose steps are `ResumeNode` to `ResumeEnd`, one step per call to the
server, each of which may again meet a lost connection or an expired session. Since the user
thread waits for the answer of a synchronous call, that call is the last of the requests
(`Answers`; `SyncLast` in `ZkEphemeralProofs`). The lock
`m_ephemeral_node_info_lock` is held throughout `ReconnectResumeEnv` (`LockFree`).

Data are abstract: a node is a value for each of the fields Data and Acl; `CString` cuts a
value at its first NUL, which `Data.data()` does on the way into `Create`. The results of a
batch are those of the C client: the operations before the one that failed have err `ZOK`.

Left out: sequence nodes (the hazards name what goes wrong there), versions (they matter
only with a second writer), and ACL pointers. The registry is compared with the server
except for `doubt` (a call whose answer was lost, or a node that `ReconnectResumeEnv` gave
up and logged) and `orphans` (nodes of an earlier instance that have not been adopted).

What the runs assume of the user, each an explicit constant or guard of the module:

- `OneAtATime`: no call on a path while an earlier one on it is outstanding. Without it
  `RegistryIsTheServers` fails: `ASet` copies the entry when it is called
  (`CppZookeeper.cpp:832`), finds none while the `ACreate` is under way, and leaves the
  old data in the registry. The header says one instance is for one thread
  (`CppZookeeper.h:40`) but nothing about calls in flight.
- `ResumeWaits`: a session is resumed between two calls of the user thread. With
  `ResumeWaits = FALSE`, `RegistryIsTheServers` fails: an answer of the old session is
  entered after `ReconnectResumeEnv` has passed. The header warns that the state may be
  inconsistent after a reconnect (`CppZookeeper.h:39`).
- No NULs: data without a NUL. With `CString <- NulInV2`, `ResumeKeepsInfo` fails: the node
  is created again from a C string.
- `NoZeroSkips`: no `Create` with `ephemeral_exist_skip` is given a value of zeros only
  (`Zeros`; the empty value is one). The code says that it writes the value when it
  differs from the node's ("已经存在，处理value，如果Value不同，则重新写入", `CppZookeeper.cpp:776`), but it
  compares it with a buffer of zeros that nothing was read into. Any other value is thus
  written whether it differs or not, which does no harm; one of zeros is not written and is entered all the
  same (802-810). `CreateExistSkipGot` and `CreateExistSkipReturn` have both cases, and
  `zk_zero.cfg` has the trace in which `RegistryIsTheServers` fails. `zk_resume` runs with a
  value of zeros.
- `Create` with `ephemeral_exist_skip` is given the ACL the node has: a TODO in the code
  says that the ACL is not compared.
- Lists given to `Multi` in `zk_calls` have one operation. With two, as in `zk_multi.cfg`,
  `RegistryIsTheServers` fails: the operations of a failed batch that come before the one that
  failed are entered (`CppZookeeper.cpp:2150`; the comment at line 2144 says that only
  operations that succeeded are).

On a session that has expired the C client refuses every call. `Multi` then goes on to handle the results
that it set to zero itself, which read `ZOK` (`CppZookeeper.cpp:1083`, `MultiRefused`); the
other calls return, and are left out.

A comment says that `CreatePathRecursion` ignores nodes that exist (`CppZookeeper.cpp:1116`).
The code, and the model, check which levels exist and then create the others in a batch,
which fails with `ZNODEEXISTS` if another client has created one in between.

### ZkWatcher

The C client keeps three tables of armed watches (`active`: nodes, nodes that are not there,
children) and a queue (`completions`) of answers and events for the completion thread; both
hold bare pointers to contexts. `Change` takes the watches of a changed node out of the
tables its event belongs to and puts them into one event, as `collectWatchers` does.
The registries of the manager are `m_global_watcher_path_type` (a set of bits per path) and
`m_custom_watcher_contexts`; `m_is_stop` and `freed` are sets of contexts.

A call with a watch (`Exists`, `AGet`, ...) arms it when it is sent. A synchronous call enters
it into the registry in a later step (`Return`), an asynchronous one when the completion
thread handles the answer (`ProcAsyncWatcher`). `InnerWatcher` is several actions, one
per early return and branch: `InnerWatcherStopped`, `Reconnect`, `ConnectedEvent`,
`GlobalWatcherUnknown`, and `CustomWatcher` or `GlobalWatcher`, which arm the watch again;
`Callback` is the user's function and what follows it. In between the node may change, the
session may expire and the user thread may call. `ResumeWatch`, `ResumeCustom` and
`ResumeEnd` are `ReconnectResumeEnv`, one step per watch, with the lock of the registry that
is walked (`LockFree`).

Assumed: the user's functions make no calls; `ResumeWaits` as above; global watches are set
by asynchronous calls (`GlobalCalls`), because with a synchronous one the event may
be handled before the calling thread has written the registry, and `InnerWatcher` then
drops it (`CppZookeeper.cpp:1572`). A watch that `ReconnectResumeEnv` fails to arm is logged
and given up, with a TODO; it is in `lost` and excused. `EventsAlive` is not among the properties of
`zk_watch`, because it fails (`zk_freed.cfg`): a watcher that is stopped while its next event
is queued is destroyed under that event (`CppZookeeper.cpp:1720`; the comment at line 1722 says
that the context is no longer used). Left out: a second `Connect` by the
user with another watcher function, and a custom watcher without automatic registration.

### ZkConnect

Threads are the user's and the completion threads of the handles. `pc[t]` is a thread's place
in `Connect` and `Reconnect` (`connect`, the check of the state, the wait, closing, opening,
assigning, resuming); an event of a handle is handled by `InnerWatcher` in its
completion thread, which runs `Reconnect` itself when the session has expired. The state that a
handle reports changes before its event is handled (`Establish`, `Lose`, `Expire`), as in
the C client. A session lives in the server and is named by `client_id`.

What the code does there that the properties have to name:

- `notify_all` is called without `m_connect_lock` (`CppZookeeper.cpp:1447`): `zk_wakeup` is the
  wakeup lost to a caller without a time limit.
- Two threads in `Connect` at once, a user that comes while the completion thread
  reconnects, may each open a handle and lose one; the model stops there (`overlap`), and so it
  does where a `NULL` handle, left by a `zookeeper_init` that failed, is read by the next
  `Reconnect` (`CppZookeeper.cpp:275`, `crashed`). `Goes` says that neither has happened.
- The new handle's thread may handle the connected event before `m_zhandle` is assigned: the
  event is refused (`CppZookeeper.cpp:1431`) and nothing is resumed until the next;
  `zk_refused.cfg` has the trace in which `AlwaysResumed` fails.
- A context that is stopped hears nothing more (`CppZookeeper.cpp:1418`, `m_is_stop`), session events
  included; what stops it is a global watch that cannot be armed again (`StopContext`, with
  the details in `ZkWatcher`; `zk_session` is what comes of it). While the user has custom
  watchers the same event also comes through their contexts, and is handled, so that `Event` has both outcomes.
- `missed` has the events that a handle was given and dropped for one of these two reasons.
  `ResumedWhenQuiet` and `ExpiredIsReplaced` are claimed as long as the very event that they
  depend on is not among them, of the handle that the manager has now: an event that an earlier handle
  dropped, or a connected event before the last, is no excuse.
- The check of the thread's identity at line 236 never finds the completion thread, since
  `Connect` has just set `m_zk_tid` to 0 (line 204), and only the new handle's thread sets it again.

### ZkReads

`GetChildrenValue` makes one call for the list and one for each child, and other clients change
the children in between. A child that is removed there, or that has no data (the length -1 is
given to `resize`, which throws), ends the call, and so does every child of `/`, whose path
is made with two slashes, which the C client refuses: `GetChildrenValue("/")` never succeeds
where `/` has children. The entry of the child that failed stays in the map as blanks.
Values longer than `max_value_size` are cut and nothing says so. `GetCString` of a node without
data writes before the buffer (`CppZookeeper.cpp:1290` with `datalen` -1); the property
is about nodes with data.

### CppEpoll and EchoServer

A connection has a number while it is open, and the kernel gives the lowest free number to the
next. A manager is an epoll instance (`interest`), the set `mFds` and a thread in `Wait`: a
batch of events is taken from the kernel and handled one after the other (`at`, `cur`), each by
the server's function, followed by `AddOrModFd`, or by `DelFd` in its two halves and the
server's close. `EchoServer` composes it with the servers of the test: the single-thread
one accepts in the same loop, the multi-thread one accepts in the main thread and passes
connections to its workers in turn. Peers send, read and hang up at any time. `clobbered` is
set when the main thread closes a connection that it has passed on: it keeps a `UniqueFd`
for each number (`CppNetTest.cpp:727`), and the assignment for a number that has come back
closes the new connection. The properties hold until then, and `net_owner.cfg` shows it
happen (`MainOnlyAccepts`).

### LoadClient, UniqueFd, CppLog, CppCurl

`LoadClient`: a statement like `++gSuccessCount` is a read and a write. With one thread
the statistics are exact; with several, updates are lost, and the property says what is
left: no count or time that nobody measured.

`UniqueFd`: a few objects, moved, swapped, reset and closed in any order. The program gives an
object only descriptors that it has itself.

`CppLog`: `LogMsg` is the check of the size, the renames and the append, each a step, since
other processes may come in between; the mutex is of one process. `mMaxFileCount`, the
largest number of log files (`CppLog.h:254`), is 1 by default and then keeps two
files, since the oldest is then the file that the current one is renamed to:
`FilesBounded` leaves this count out, and `log_count.cfg` has the trace (`CountKept`). A limit of
2^31 or more is negative as an `int32_t` and rotates at every message (`Half` is 2^31); two
processes that find the file too long both rotate it, and messages are lost that way.

`CppCurl`: `Init` and then one request at a time per thread, with its handle, its form and its
cookie file. The second caller of `Init` goes on while the first is in
`curl_global_init` (`CppCurl.cpp:939`), and if that throws all later ones go on. These are the two ways
in which a transfer can come before the initialisation, so no property says that it cannot.
`HandlesGivenBack` says that a request gives back what it has acquired whichever step fails; the
list of headers (`http_headers`) that every request makes and none frees is outside the model.
Requests that overlap read and write one cookie file, and the later write
drops what the other got; the property says that nothing else does.

### Functions

`MathCaches` has the two caches of `CppMath.cpp` as actions; a `uint32_t` is a number below `Word`, so that
wrap-around comes early, and a numerator or denominator of `CppFraction` one below `NumberWord`. `CppFraction`, `CppBigNum`, `CppString`, `CppRegex`,
`BufferLoops` and `CppTables` are operators, each compared with a definition that does not
follow the code: integers, all decompositions, leftmost occurrences, the stream itself. A word
of `CppBigNumPro` has 4 bits in the run (`Base`), a buffer two characters.

Where the code departs from what its comments or its names say, the property is stated of the
inputs for which it holds, and the rest is this list:

- `CppBigNumPro`: a difference keeps zero words at its high end, which `CppBigNum.h:490` rules
  out, so that equal numbers may differ; a sum of two signs is compared only where it is 0
  or as long as the longer of the two; `Value` drops the sign (652-665); a quotient by several words may
  be wrong (about 900); (2^32-1)/2 does not end (922), nor does `Sqrt` of 2^32-2 and 2^32-1.
- `CppString::ReplaceStr` goes on in the wrong place after an `old` longer than one character
  (`CppString.cpp:41`), although `CppString.h:69` says that it replaces them all, once each
  ("不重复替换"): `ReplacesAll` is of an `old` of one character. `HtmlDecode` decodes `&amp;quot;` twice.
- `CppMath`: the branch at `CppMath.cpp:222-231`, which would use the cache for numbers
  beyond it, is never taken; `CppMathPrimeWithInit<N>` writes bit N of N bits
  (`CppMath.h:213`); the factors of 0 do not end. `IsInt` misses 0, and from 2^31 on takes
  every number for an integer, since it compares an `int32_t` with an `int64_t` (line 45,
  against `CppMath.h:26`): `IntsAreFound` is of numbers below. `Combination` is right where the
  product of `r + 1` to `n` fits in the word; for `n` = 2^32-1 its loop never ends (line
  261), and for `r` = `n + 1` the second one comes round to a division by 0 (269). Both are
  results of the operator of the model (`end`), and `CombinationFits` leaves them out.
- `CppFraction` multiplies before it reduces (`CppFraction.h:118`): `FractionsAreExact` is of
  fractions for which no product or sum leaves the word.
- `CppRegex::Matches`: with room for one pair in `ovector`, `pcre_exec` returns 0 for a match of
  a pattern with groups, which the code takes for none, though its comment says that a match
  returns a number that is not negative (`CppRegex.cpp:41`, and `CppRegex.h:29` that the first match is
  returned); a pattern that matches the empty word does not move on, up to `maxCount`.
  `MatchesAreLeftmost` is of patterns without groups and without the empty word.
- `CppCompress`: a stream that is cut short is uncompressed as far as it goes, with the result
  true: `Z_BUF_ERROR` is not among the cases (`CppCompress.cpp:46`). Both functions append to
  what they are given. `CppFile::CopyFile` of a file to itself empties it. Nothing is claimed of any of these.
- `CppMysql::StoreResultToMap` puts two columns of one name into one, in turn.

## Runs

| Run | Asks | Instance |
|---|---|---|
| `pool_safety` | do tasks, wakeups and verdicts survive every interleaving, and is the pool a `TaskPool`? | 2 workers, 2 clients, one stops, 3 tasks |
| `pool_live` | does every task end, every `Wait` and `Stop` return? | 2 workers, 2 clients, one may stop, 2 tasks, fair |
| `pool_terminate` (violated) | does the last loop of `RunTask` terminate all tasks? | 2 workers, 1 client, 2 tasks, fair |
| `lru_pop` (violated) | does `Pop(&value)` take the element out? | 4 values, capacity 2 |
| `zk_calls` | does the registry follow the server, do deleted nodes stay deleted, does resuming keep the information? | 2 nodes, 2 fields of 2 values, 3 calls of 13 kinds, 2 sessions, 1 lost connection, 1 restart, 1 removal of the parent |
| `zk_resume` | are the nodes of a lost session created again? | 2 nodes, 3 calls of 3 kinds, a value of zeros, 3 sessions, 1 change of the parent, fair |
| `zk_watch` | is every registered watcher armed or about to be, and does no table hold a destroyed context? | 1 node, 2 custom contexts and the global one, 2 calls of 6 kinds, 4 changes, 2 sessions, 1 lost connection |
| `zk_session` (violated) | is an expired session replaced? | 1 node, 1 call, fair |
| `zk_connect` | is no handle lost, an expired session replaced and resumed, does `Connect` return? | 5 handles, 2 troubles, a context that may be stopped, a caller with a time limit, fair |
| `zk_wakeup` (violated) | does a caller without a time limit wake when the connection stands? | 2 handles, no trouble, fair |
| `net` | do managers and kernel agree, are events of live connections, answers the asker's, is every request answered, does nothing leak? | both servers; 3 peers and 2 numbers for the one, 2 peers and 2 workers for the other, fair |
| `library` | one question for each part: see Properties | `MCLibrary`; all inputs up to the bounds of the configuration |

`pool_waiters.cfg`, `lru_order.cfg`, `zk_multi.cfg`, `zk_zero.cfg`, `zk_freed.cfg`,
`zk_refused.cfg`, `net_owner.cfg` and `log_count.cfg` are counterexamples kept
beside the runs: each shows the departure of the code that the text about its module names,
as the violation of one property. Their modules are `CppLog` for the last and the `MC` module of
the part for the others.

Why these bounds. Two workers and two clients give every pair of threads that can race;
three tasks let two share a context while a third keeps a worker busy. All the pool's
safety properties are also proved for any numbers, `NoForgottenWaiter` where no two clients wait on one context. Capacity four with five values lets
an evicted element come back. In `zk_calls` three calls are create, change and
delete of one node, or a call before and after a fault with one more after that; one fault
of each kind may fall between any two steps; two nodes show that one node's trouble
does not spill over. In `zk_watch` four changes let a node be deleted, created and changed
again while the completion thread is still busy with the first event. Symmetry is used over
workers, tasks, nodes, values and contexts in
runs of safety properties only: no definition of the modules singles one out (the order in
which `GetChildren` lists the children is any order). Deadlock is not checked where the
bounds end the behaviour, or where all the clients may simply stop calling.

In `zk_connect` two troubles (a lost connection, an ended session, a
`zookeeper_init` that fails, a wait that ends early) may fall anywhere in the first connection
and in the one that replaces it, and no behaviour that gets to
rest needs more than the five handles. In `net` there are more peers than numbers, so a number
comes back while a batch that was taken before is still being handled. In `library` a queue
overflows, six messages go through every rotation of up to three files, caches are filled
and evicted, three objects own three descriptors; strings have up to five letters of two, so
that occurrences overlap, numbers lie around the borders of one, two and three digits and one
and two words, and streams around one, two and three buffers.

What the violated runs show is in "findings": the loop after the loops never pops, so
it finishes the first task for ever and `Stop` hangs; `Pop(p_Value)` erases the wrong element
from the set; one global watch that cannot be armed again sets `m_is_stop`
on the context that the handle's session events go to as well, so that an expired session is
never replaced; and a caller of `Connect` misses the notification.

### Properties

Pool: `NoLostWakeup` (one notification for a task is enough), `StopWakesAll`,
`NoForgottenWaiter`, `OnePlace` (a task is at one index or in one worker's hands),
`SuccessIsEarned` and `AbortIsDue` (verdicts are earned even when tasks race on one context),
`IsTaskPool`, `EveryTaskEnds`, `WaitReturns`, `StopReturnsWhenEmpty`. Queue: `InSync`,
`IsBoundedFifo`. Ephemeral nodes: `RegistryIsTheServers`, `NoResurrection`,
`ResumeKeepsInfo`, `NodesComeBack`. Watchers: `CustomArmed`, `GlobalArmed` (armed, or an event
that will arm it again is queued, in every session), `TablesAlive`, `SessionReplaced`.
Connection: `NoHandleLost`, `ResumedWhenQuiet`, `ExpiredIsReplaced`, `ConnectEnds`,
`ConnectWakes`. Servers: `ManagersInSync`, `EventsAreLive`, `AnswersAreOwn`, `NothingLeaks`,
`RequestsAnswered`. Library: `StatisticsAreMeasured` (load client), `FilesBounded` and
`KeepsNewest` (log),
`HandlesGivenBack` and `CookiesKept` (requests), `CachesAreRight` and `NumbersAreRight`
(`CppMath`, `CppFraction`, `CppBigNum`), `TextsAgree` (`CppString`, `CppRegex`, the strings of `ZkReads`), `StreamsAgree`
(`BufferLoops`, `CppTables`), `ChildrenValueIsTrue` (`ZkReads`), `FdsOwned`.

`TypeOK` is stated in the modules with much state; of the pool it is checked and proved.

### Fairness

`CppThreadPool!FairSpec` has weak fairness for every worker and for a client inside a call:
the operating system runs every thread that can run, and submitted functions return. No
client has to call anything and no spurious wakeup has to happen. The mutex is not assumed
fair to a particular thread: weak fairness is enough since every critical section is short,
except in the loop that never ends, where a waiting `Stop` is disabled for good.
`ZkEphemeral!FairSpec` has weak fairness for the server's answers and for both threads of
the program; faults are never obliged to happen, and are bounded.
`ZkWatcher!FairSpec` has weak fairness for the completion thread and for the return of a
synchronous call.

`ZkConnect!FairSpec` has weak fairness for every thread, and for the C client, which goes on
trying to connect an open handle; troubles never have to happen and are bounded by
`MaxTroubles`. `EchoServer!Spec` has it for the threads of the servers, not for the peers.

## Proofs

Every theorem holds for all values of the constants: any numbers of threads, nodes, watchers,
handles, connections, values, and of faults, since the bounds of the runs are parameters too. Each invariant
below was checked by TLC on the instance of the run before it was proved. A hypothesis of a
theorem beyond the module's named assumptions is a constant set as the runs set it, or says
which calls the user makes; the reason is given with it.

`CppThreadPoolProofs`, from the named assumptions of `CppThreadPool`:

- `TypeCorrect`: `TypeOK`, which is inductive.
- `NoWakeupIsLost`, `StopLeavesNoSleeper`: the two invariants together with
  `LeaveOnStop` (a worker is past the loops only if the pool is stopped) are inductive:
  a worker falls asleep only having seen an empty list and no stop, under the mutex.
- `NoWaiterIsForgotten`: with `~SharedWait`, no two clients wait on one context
  (`OneWaiter`). `Finish` uses `notify_one`, and `pool_waiters.cfg` shows the second waiter
  forgotten.
- `TasksInOnePlace`: the strengthening `PlaceInv` also ties `fate` to the program counters:
  what is in the list is queued, what a worker holds is not in the list, and nobody else
  holds it. `QueuePairs` and `PopPairs` are the lemmas on the sequences.
- `SuccessesAreEarned`, `AbortsAreDue`: the strengthening `VerdictInv` says that the verdict a
  worker is about to write is due as well; it needs `FateLasts` (an outcome is never
  forgotten). Without it the stale read of `m_is_abort` before `Finish` could
  not be shown harmless.
- `PoolIsTaskPool`: initial states map to initial states and every step to a step of
  `TaskPool` or a stutter, under the invariants above and `MadeInv` (a context made has a
  task).

`CppLRUProofs`: `QueueInStep` and `QueueIsBoundedFifo`, with `PopArgs = {}`: the caller of
`Pop(p_Value)` brings no value of its own, as `lru_pop` shows that it must not. `QueueInv` says that
the set is the set of the list's elements, that none is twice in the list and that the
list is within the capacity; the last two are what makes an evicted or deleted element leave both,
and the loop of `Push` stop. `QueueIsBoundedFifo` is step by step: each operation of the queue is
that operation of `BoundedFifo`.

`ZkEphemeralProofs`:

- `EphemeralTypeOK`: `TypeOK`, for every user and every schedule, also without `OneAtATime`
  and `ResumeWaits`, and for lists of any length. `PipeInv` says of every request, answer and call of the user
  what its operations and its context can be (`CallOK`), and that a synchronous request is the
  last (`SyncLast`); `MemoryInv` that only what is remembered is created again (`ResumesOwn`).
  Without these a callback or a retry could write half an entry. That a list of operations keeps the
  nodes well formed is an induction on the list (`SetInduction`, below).
- `ResumingKeepsInfo`, the action property, with `NoNuls`: no value contains a NUL. The
  entries go through a C string when they are created again (`CppZookeeper.cpp:2087`).
- `DeletedStaysDeleted`: `NoResurrection`, with `OneAtATime` and `ResumeWaits`, as `zk_calls`
  has them. `NodeInv(p)` is about one node: one call on it is under way (`Alone`); a deleted node
  is in neither place, and no request, answer or call that is under way will create it or
  write its entry (`Deleted`); a call that has deleted the node and not yet returned leaves it gone
  (`Leaving`). `SessionsOK` says that a session is resumed when no answer of an earlier one is left.
  Each group of steps is reduced to what it may do to a node (`Called`, `Continued`, `Ended`,
  `Recorded`, `Resumed`) before the invariant is looked at.

`ZkRegistryProofs`: `RegistryHoldsTheServersNodes`, which is `RegistryIsTheServers`, with
`OneAtATime`, `ResumeWaits`, `NoZeroSkips` and `OneOperation` (every list given to `Multi` or `AMulti` has one
operation), the four conditions of `zk_calls` without which the property fails: that on the values of zeros
is needed because the code enters such a value without having written it. Data may
contain NULs: what is cut on the way into `Create` is cut in the registry too. The property is about
moments when nothing is under way, so the invariant has to say of everything that is under way what it
will come to. `ServersInv` adds to the invariant of `DeletedStaysDeleted`, for each node:

- `Agreed`: while the session stands and is resumed, what the answers under way make of the
  node's entry is what the server has: the entry as it is if no answer concerns it
  (`Untold`), else what the callback or the returning call writes over it (`Answered`);
- `Fitting`: the entry that an asynchronous call has copied and will write back is the one its
  operation makes on the server, which `OneAtATime` is for;
- `Listed`, `Emptied`: `DeletePathRecursion` deletes what it listed, which is still what there
  is, and erases the registry only when no node and no answer is left;
- `Skipped`: `Create` with `ephemeral_exist_skip` finds the ACL it was given, and writes the value;
- `Lapsed`: a new session has nothing and no request of the old one that would
  create anything, which `ResumeWaits` is for;
- `Recreating`: behind the place where `ReconnectResumeEnv` is, the node is as remembered; ahead,
  there is none; at the place, there is none or what this attempt has made of it;
- `Outside`: a node left by an earlier instance has no entry.

`ShapesOK` says which operations each call can have, and `OrphansWait` that a new instance calls nothing
before it has resumed. TLC checked `ServersInv` on the instance of `zk_calls`, and with data that have a NUL,
before it was proved. Each group of steps is first reduced to what it may do to one node
(`CalledWith`, `EndedWith`, `ContinuedWith`, `RecordedWith`, `ResumedWith`, `ServedAsync`, `ServedSync`); `RegistryStays`
is for the steps that leave a node alone.

`ZkWatcherProofs`, all with `ResumeWaits`: `NoCustomWatchIsLost`, `NoDestroyedContextIsArmed`
and `NoGlobalWatchIsLost`. `WatcherInv` is about each context: it is of one call on one path
(`Identity`), is found in the tables and events of its type (`Typed`), is armed or in one event
and not both (`Once`), its call is answered once and a call that failed has armed nothing (`Answered`),
a destroyed context is nowhere but in events that are dropped (`Gone`), and what is
registered or will be is armed, fired, or still to be armed by `ReconnectResumeEnv` (`Resumed`).
The global watches share one context, so that `Once` is not true of them; `GlobalInv` says
instead that the watch of an answered call is armed or its event comes behind the answer, which
needs `AsynchronousGlobals`: no synchronous call sets a global watch, whose event could come
before the thread that called has registered it (`CppZookeeper.cpp:1572`).

`ZkConnectProofs`: `HandlesAreNamed` and `ConnectionsAreResumed`. `ConnectInv` adds to
`NoHandleLost` that one thread at a time is between `zookeeper_close` and the assignment of
`m_zhandle` (`OneOpens`), and that until the environment is resumed a connection that stands has its
connected event before it (`EventAhead`). As the properties say, this is until two threads
are in `Connect` or a `NULL` handle is read, where the model stops. `ConnectionsAreResumed`
says nothing while the last connected event of the manager's handle is one that it dropped, being
early or stopped: that is where the code itself does not resume.

`EchoServerProofs`: `SetsAreTheInstances`, `NoStaleEvent`, `EachPeerItsAnswer` and
`ReturnsWithNothingOpen`. `EchoInv` says, whatever happens, which numbers and connections belong
together (`NumbersOK`), who owns them (`Owned`), and that the single-thread server keeps to its own instance
(`OneThread`); and, until `clobbered`, that a connection is in one epoll instance
(`OneOwner`), that the events of a batch and the one that is handled are of the
connections that have the numbers now, and that no two places have the same number (`BatchOK`, `CurOK`,
`AcceptedOK`), and that an answer that is due is still in the buffer of its number (`AnswersOK`). The two
halves of `DelFd` are where this is delicate: between them the number is in `mFds` and in no
instance, and it must not have been given away yet. After `clobbered` the first three properties say nothing
and `net_owner.cfg` shows why; `NothingLeaks` has no such reserve.

`LibraryProofs` has the theorems on the parts that `LibraryParts` makes instances of:

- `DescriptorsHaveOneOwner`, for any objects and any numbers, from
  `FdAssumption` (the numbers are no less than 0, so none is the -1 of an empty object, and
  `Dead` is not a number): `FdsOwned` together with the types of `mFd` and `raw` is inductive.
  The types are needed since a number outside `Fds` could be taken for one that is free.
- `RequestsGiveBack` and `NoCookieIsLost`, for any callers. `HoldsInv` adds to `HandlesGivenBack` that
  a request that has not failed has its handle from `curl_easy_init` on (`HandleIsThere`), so that a form is
  never without one. `CookiesInv` says that a request that is going to write the cookie file has all that is in it,
  or is one that another has overtaken (`stale`).
- `ChildrenHadTheirValues`, for finitely many children, any data that are strings (or none) and a buffer of
  any size. `ReadsInv` says that a child of the list is in the map or still to be got, and that its
  entry is a value it had since the call began, but for the one child that the call failed on.
- `GetCStringFits` and `AbsPathStaysSo`, lemmas on the two functions on strings: of
  `TextsAgree` they are the parts that are about `CppZookeeper`. Characters are any set without the NUL.
- `RotationKeepsTheCount`, for any count but 1: wherever each process is in its rotation, no file has a name but those
  that `LogMsg` gives (`Slots`, in `LogInv`), and these are as many as may be kept: the number that
  the renaming loop is at stays below the last. The counts and the numbers of processes are sets of naturals that have a largest,
  for the arrays of the model.
- `OneProcessKeepsNewest`, for any count, any limit and any number of messages of one process. The files
  in the order of their names are put together (`Joins`, `Below`), and a few lemmas say what the
  whole becomes when a file is moved to a free name above it (the same), when the
  oldest goes (the rest) and when a message is added to the newest. `KeepsInv` says that
  what the files hold are the newest messages, from some first one on; that names stand for
  different files; that an older file is there only if all newer ones are, but for the name
  that the renaming loop has just freed (`Hole`); and that a file is full once it is renamed.
- `OneThreadIsExact` and `ThreadsInventNothing`, together `ReportsAreMeasured`, for any number of threads, answers and periods.
  `OneInv`: with one thread each total is that of the answers handled and, once the
  statistic is stored, of the answer in hand (`Pending`, `Seen`); and what the thread has read is
  still what the statistic is, but for those that `Run` resets. With several that is not so, and `ManyInv`
  says of a statistic and of what any thread has read of it (`Held`) that it is within what
  the answers make (`Allowed`): these bounds only grow (`Grows`), by as much as a thread
  adds when it stores, so that a value read long ago is within them when it is written back with its
  answer added. A lost update can thus only make the totals too small. A client without a
  thread handles nothing (`Outside`).
- `PrimesAreFound`, for every number: a number that is not prime has a least divisor, whose square
  is no larger and which no smaller number divides (`NotPrimeSays`), so that trial division
  up to the root meets it and the sieve strikes it out. The sieve is that for
  a count that is not a multiple of the bits of a block.
- `CachesStayRight`, for any word, any arguments and any sizes of the cache. `CacheInv` says that what is in the
  cache is right, which what is returned then is too. Wherever the loop starts, its result is the factorial
  of the number before, and each round keeps that and the cache right (`RoundsAre`); to start there it must
  be that the largest argument below `n` exists (`MaxIs`) and that `Factorial`, a recursive function, is one product
  whatever its bound (`ProductsAgree`). A prime in the cache that divides another number is smaller.

Induction. What a recursive function does to a list of operations, or to the requests of
a lost connection, is proved with `SetInduction` of `ZkEphemeralProofs`: a set that holds 0 and, with
each number below a bound, the next holds all numbers up to the bound. It follows from
the well-foundedness of `<` on `Nat`, and is stated of a set, not of an operator. The sums of
`LoadClient` and the loops of `MathCaches` are treated alike in `LibraryProofs` (`Induction`,
`SumSteps`, `RoundsExist`), where these are recursive functions.

Only model-checked:

- liveness, which is out of the prover's reach: `EveryTaskEnds`, `WaitReturns`,
  `StopReturnsWhenEmpty`, `NodesComeBack`, `ExpiredIsReplaced`, `ConnectEnds`, `RequestsAnswered`;
- the functions (`NumbersAreRight` but for the primes, `TextsAgree` but for
  `GetCStringFits` and `AbsPathStaysSo`, `StreamsAgree`). Where these are written with `RECURSIVE` operators the prover
  cannot follow them, and most compare loops over data with a closed definition.

## Plan

The parts that keep state are modelled, and the functions whose results are not plain from one
call of a library. What is left, in this order:

1. `ZkConnect` composed with `ZkEphemeral` and `ZkWatcher` through the events they share; today
   each of these has its own small copy of `Reconnect`.
2. Sequence nodes and versions in `ZkEphemeral`.

## Not modelled, and why

Sequence nodes, versions and ACL pointers in `ZkEphemeral` (see above). `GetAcl` and `AGetAcl`
hand a call on. Formatting, logging and conversions: `CppTime`, the macros of `CppLog`, the
conversions of `CppString`, `CppBigNum` and `CppMysql` from and to text. Wrappers without a loop
or a choice of their own: `CppJson`, `CppTinyxml`, `CppChartDir`, `CppEnv`, the rest of
`CppCrypto`, `CppFile` and `CppSystem`, the transfers of `CppCurl`. `CppAlgorithm`, `CppArray` and
`CppHeap` are empty. Of `gtest`, only the servers of `CppNetTest.cpp` are a program; the rest are
unit tests and exercises of other libraries. `tools/` is a monitoring script.
