---- MODULE HttpPrograms ----
(***************************************************************************)
(* The three libraries that call libcurl.  A behaviour is of a program     *)
(* that uses one of them, chosen at the start: they share no state, so     *)
(* what holds of every behaviour here holds of each library by itself, and *)
(* the instances' states add up instead of multiplying.                    *)
(***************************************************************************)
EXTENDS Integers

CONSTANTS Reqs, Waiters, Options, Limits, Asked,  \* curlrq: its requests and callers
          InitFails, CreateFails, LateAdd,        \* and what may go wrong there
          Bodies, Length, Pages,                  \* github: request bodies, a listing
          OutOfMemory,                            \* misskey: calloc may answer NULL
          None

VARIABLES
    program,  \* the library this behaviour is about
    engine, shutdown, thread_running, max_concurrent, max_queue_len, defaults,
    queue, queue_len, dangling, active_list, pc, woken, hand, drained,
    answer, opts, body, calls, result, waiter,
    curl, sticky, setters, asked, walk,
    client, proxy, proxy_enabled, code, detail, last, held, leaked, stream

Curlrq == INSTANCE CurlQueue_proofs  \* with the theorems about it
Github == INSTANCE GithubClient WITH last <- asked
Misskey == INSTANCE MisskeyClient

curlrq ==
    <<engine, shutdown, thread_running, max_concurrent, max_queue_len, defaults, queue, queue_len,
      dangling, active_list, pc, woken, hand, drained, answer, opts, body, calls, result, waiter>>
github == <<curl, sticky, setters, asked, walk>>
misskey == <<client, proxy, proxy_enabled, code, detail, last, held, leaked, stream>>

ASSUME HttpAssumption ==
    Curlrq!QueueAssumption /\ Github!GithubAssumption /\ Misskey!MisskeyAssumption

Init ==
    /\ program \in {"curlrq", "github", "misskey"}
    /\ Curlrq!Init /\ Github!Init /\ Misskey!Init

Uses(library, others) == program = library /\ UNCHANGED <<program, others>>

Next ==
    \/ Uses("curlrq", <<github, misskey>>) /\ Curlrq!Next
    \/ Uses("github", <<curlrq, misskey>>) /\ Github!Next
    \/ Uses("misskey", <<curlrq, github>>) /\ Misskey!Next

vars == <<program, curlrq, github, misskey>>

\* Each library's own fairness, in the behaviours that use it.
Fairness ==
    /\ WF_curlrq(program = "curlrq" /\ Curlrq!worker_thread)
    /\ WF_curlrq(program = "curlrq" /\ (Curlrq!Joined \/ Curlrq!FreeEngine))
    /\ \A r \in Reqs : SF_curlrq(program = "curlrq" /\ Curlrq!complete_request(r))
    /\ \A w \in Waiters :
         WF_curlrq(program = "curlrq" /\ waiter[w] = "woken" /\ Curlrq!curlrq_wait(w))
    /\ WF_github(/\ program = "github"
                 /\ \E e \in Github!Listings, o \in Github!Outcomes : Github!WalkStep(e, o))

Spec == Init /\ [][Next]_vars /\ Fairness

---------------------------------------------------------------------------
\* Every variable of the three libraries has its type.
TypeOK == Curlrq!TypeOK /\ Github!TypeOK /\ Misskey!TypeOK

\* curlrq: a request still due is in exactly one place, its callback is called
\* once and only if it was accepted, cleanup frees nothing before that; and the
\* worker drives no more transfers than asked for, and goes away only when
\* nothing waits for it.
RequestsKept ==
    /\ Curlrq!HeldOnce /\ Curlrq!CalledOnce /\ Curlrq!CleanupLosesNothing
    /\ Curlrq!ConcurrencyBound /\ Curlrq!WorkNeedsWorker

\* curlrq: an accepted request is called back, and a cleanup begun ends.
\* github: following next_link reaches every page once, in order.
AllAnswered == Curlrq!AcceptedCalledBack /\ Curlrq!CleanupReturns /\ Github!WalkEnds

\* github: another method than the endpoint's is one an earlier endpoint left
\* behind, and a body sent is the endpoint's own.
RequestsAsMeant == Github!DriftHasCause /\ Github!BodyIsOwn

\* misskey: the detail of an error is that of the last request.
DetailIsOfThisRequest == Misskey!DetailIsOfThisRequest

\* misskey: nothing leaks but the tree of an answer that is no array, and the
\* headers of a request there was no memory for.
NothingElseLeaks == Misskey!NothingElseLeaks
====
