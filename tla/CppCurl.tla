------------------------------- MODULE CppCurl -------------------------------
(***************************************************************************)
(* The requests of CppCurl.cpp, made by several threads: the once-only     *)
(* initialisation of libcurl and of OpenSSL's locks, the files, handles    *)
(* and forms that a request acquires and must give back whichever step     *)
(* fails, and the cookie file that requests share.                         *)
(*                                                                         *)
(* A name that ends in _Faulty is a plausible bug in the definition that   *)
(* follows it, on which the properties are tried.                          *)
(***************************************************************************)
EXTENDS Naturals

CONSTANTS
  Callers,   \* threads; each answer sets a cookie of its caller
  NoCall

VARIABLES
  have_init,
  global,      \* curl_global_init: "no", "running", "done" or "failed"
  sslLocks,    \* the locking callbacks are set
  at,          \* caller -> where its request is
  call,        \* caller -> the function it is in
  handle,      \* callers that hold a CURL handle
  post,        \* callers that hold a form
  jar,         \* cookies in the cookie file
  cookies,     \* caller -> cookies in its handle
  stale        \* history: callers whose file has been written since they read it

vars == <<have_init, global, sslLocks, at, call, handle, post, jar, cookies, stale>>

\* What a function does: open a local file first, post a form, read the cookie file
\* (COOKIEFILE) and write it when the handle is cleaned up (COOKIEJAR).
Get == [file |-> FALSE, form |-> FALSE, reads |-> TRUE, saves |-> FALSE]
GetToFile == [file |-> TRUE, form |-> FALSE, reads |-> TRUE, saves |-> FALSE]

\* The cookie file is written and not read.
Post_Faulty == [file |-> FALSE, form |-> FALSE, reads |-> FALSE, saves |-> TRUE]
Post == [file |-> FALSE, form |-> FALSE, reads |-> TRUE, saves |-> TRUE]
PostForm == [file |-> FALSE, form |-> TRUE, reads |-> TRUE, saves |-> TRUE]
PostFileData == [file |-> FALSE, form |-> TRUE, reads |-> TRUE, saves |-> TRUE]
PostFile == [file |-> TRUE, form |-> TRUE, reads |-> TRUE, saves |-> TRUE]
Delete == [file |-> FALSE, form |-> FALSE, reads |-> TRUE, saves |-> FALSE]

Functions == {Get, GetToFile, Post, PostForm, PostFileData, PostFile, Delete}

Init ==
  /\ have_init = FALSE /\ global = "no" /\ sslLocks = FALSE
  /\ at = [t \in Callers |-> "idle"]
  /\ call = [t \in Callers |-> NoCall]
  /\ handle = {} /\ post = {}
  /\ jar = {}
  /\ cookies = [t \in Callers |-> {}]
  /\ stale = {}

Goes(t, from, to) == at[t] = from /\ at' = [at EXCEPT ![t] = to]

Ends(t, from) == Goes(t, from, "idle") /\ call' = [call EXCEPT ![t] = NoCall]

\* CppCurl::Init: have_init.exchange(true); whoever is not the first goes on at once.
Begin(t, function) ==
  /\ Goes(t, "idle", IF have_init THEN "file" ELSE "global")
  /\ call' = [call EXCEPT ![t] = function]
  /\ have_init' = TRUE
  /\ global' = IF have_init THEN global ELSE "running"
  /\ UNCHANGED <<sslLocks, handle, post, jar, cookies, stale>>

\* A failure throws, and have_init stays TRUE.
GlobalInit(t) ==
  /\ \/ global' = "done" /\ Goes(t, "global", "locks") /\ UNCHANGED call
     \/ global' = "failed" /\ Ends(t, "global")
  /\ UNCHANGED <<have_init, sslLocks, handle, post, jar, cookies, stale>>

InitLock(t) ==
  /\ Goes(t, "locks", "file")
  /\ sslLocks' = TRUE
  /\ UNCHANGED <<have_init, global, call, handle, post, jar, cookies, stale>>

\* A local file that cannot be opened throws before anything is acquired.
OpenFile(t) ==
  /\ \/ Goes(t, "file", "handle") /\ UNCHANGED call
     \/ call[t] # NoCall /\ call[t].file /\ Ends(t, "file")
  /\ UNCHANGED <<have_init, global, sslLocks, handle, post, jar, cookies, stale>>

\* curl_easy_init fails, or the handle is there: the caller's own, for Get and
\* Delete, which is cleaned up like one that was made here.
EasyInit(t) ==
  /\ \/ Goes(t, "handle", "form") /\ handle' = handle \cup {t}
     \/ Goes(t, "handle", "cleanup") /\ UNCHANGED handle
  /\ UNCHANGED <<have_init, global, sslLocks, call, post, jar, cookies, stale>>

\* The first curl_formadd that fails throws; what was added is in post by then, or
\* nothing is.
FormAdd(t) ==
  /\ IF call[t] # NoCall /\ call[t].form
       THEN \/ Goes(t, "form", "perform") /\ post' = post \cup {t}
            \/ Goes(t, "form", "cleanup") /\ post' \in {post, post \cup {t}}
       ELSE Goes(t, "form", "perform") /\ UNCHANGED post
  /\ UNCHANGED <<have_init, global, sslLocks, call, handle, jar, cookies, stale>>

\* curl_easy_perform sends the cookies of the file...
Perform(t) ==
  /\ Goes(t, "perform", "transfer")
  /\ cookies' = [cookies EXCEPT ![t] = IF call[t].reads THEN jar ELSE {}]
  /\ stale' = stale \ {t}
  /\ UNCHANGED <<have_init, global, sslLocks, call, handle, post, jar>>

\* ... and gets an answer that sets one, or fails.
Answer(t) ==
  /\ Goes(t, "transfer", "cleanup")
  /\ \/ cookies' = [cookies EXCEPT ![t] = @ \cup {t}]
     \/ UNCHANGED cookies
  /\ UNCHANGED <<have_init, global, sslLocks, call, handle, post, jar, stale>>

\* The form is not freed.
Cleanup_Faulty(t) ==
  /\ Ends(t, "cleanup")
  /\ IF call[t].saves /\ cookies[t] # {}
       THEN jar' = cookies[t] /\ stale' = Callers
       ELSE UNCHANGED <<jar, stale>>
  /\ handle' = handle \ {t}
  /\ UNCHANGED post
  /\ cookies' = [cookies EXCEPT ![t] = {}]
  /\ UNCHANGED <<have_init, global, sslLocks>>

\* Both the catch block and the normal end: curl_easy_cleanup, which writes the
\* cookie file if the handle knows a cookie, and curl_formfree.
Cleanup(t) ==
  /\ Ends(t, "cleanup")
  /\ IF call[t].saves /\ cookies[t] # {}
       THEN jar' = cookies[t] /\ stale' = Callers
       ELSE UNCHANGED <<jar, stale>>
  /\ handle' = handle \ {t}
  /\ post' = post \ {t}
  /\ cookies' = [cookies EXCEPT ![t] = {}]
  /\ UNCHANGED <<have_init, global, sslLocks>>

Next ==
  \E t \in Callers :
    \/ \E function \in Functions : Begin(t, function)
    \/ GlobalInit(t) \/ InitLock(t) \/ OpenFile(t) \/ EasyInit(t) \/ FormAdd(t)
    \/ Perform(t) \/ Answer(t) \/ Cleanup(t)

Spec == Init /\ [][Next]_vars

-----------------------------------------------------------------------------
(* Properties.                                                             *)

\* Whichever step fails, a request gives back what it has acquired: a handle is held
\* from curl_easy_init on and until the request ends, a form only with a handle and by
\* a function that posts one, and a caller between two requests holds neither.
HandlesGivenBack ==
  \A t \in Callers :
    /\ t \in handle => at[t] \in {"form", "perform", "transfer", "cleanup"}
    /\ t \in post => t \in handle /\ call[t].form /\ at[t] # "form"

\* A cookie in the file is lost only to a request that overlapped with another that
\* wrote it.
CookiesKept ==
  [][jar \subseteq jar'
     \/ \E t \in Callers : at[t] = "cleanup" /\ t \in stale /\ jar' = cookies[t]]_vars
=============================================================================
